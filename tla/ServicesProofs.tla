--------------------------- MODULE ServicesProofs ---------------------------
\* What each service guarantees, it guarantees in the composition, for all values of the
\* constants its own proofs allow.
EXTENDS Services, FiniteSetTheorems, TLAPS

Ports == INSTANCE PortProofs WITH
  MaxCalls <- KvCalls, store <- kv, BusOverlaps <- FALSE, kept <- sandbox,
  Callers <- FlowCallers, Jobs <- FlowJobs, MaxDepth <- FlowDepth, MaxRuns <- FlowRuns, early <- hurried

LEMMA SettlingMoves == Settling!SettleNext => Ports!SettleNext
  BY DEF Settling!settleVars, Settling!SettleInit, Settling!To, Settling!Fault,
         Settling!Claimable, Settling!Takes, Settling!Claim, Settling!MemoryClaims,
         Settling!PostgresClaims, Settling!SqliteClaims, Settling!ReadsBack,
         Settling!ClaimThrows, Settling!Hook, Settling!Mark, Settling!MemoryMarks,
         Settling!SqliteMarks, Settling!PostgresMarks, Settling!MarkFails, Settling!Dies,
         Settling!Lapse, Settling!Retries, Settling!SettleNext, Settling!SettledOnce,
         Ports!settleVars, Ports!SettleInit, Ports!To, Ports!Fault, Ports!Claimable,
         Ports!Takes, Ports!Claim, Ports!MemoryClaims, Ports!PostgresClaims,
         Ports!SqliteClaims, Ports!ReadsBack, Ports!ClaimThrows, Ports!Hook,
         Ports!Mark, Ports!MemoryMarks, Ports!SqliteMarks, Ports!PostgresMarks,
         Ports!MarkFails, Ports!Dies, Ports!Lapse, Ports!Retries, Ports!SettleNext,
         Ports!SettledOnce

LEMMA SettlingTurns == [Next]_vars => [Ports!SettleNext]_(Ports!settleVars)
<1>1. CASE Next
  BY <1>1, SettlingMoves DEF Next, settleVars, admins, Ports!settleVars
<1>2. CASE UNCHANGED vars
  BY <1>2 DEF vars, settleVars, admins, Ports!settleVars
<1>. QED  BY <1>1, <1>2

\* The host's onSettled runs once for a run, however often its settling is retried, unless a
\* claim outlives its ten minutes or the mark is lost (core/settle.ts settleRun).
THEOREM ServiceSettlesOnce ==
  ASSUME Unclaimed \notin Settlers
  PROVE  Spec => []SettledOnce
<1>1. Init => Ports!SettleInit
  BY DEF Init, Settling!SettleInit, Ports!SettleInit
<1>2. Ports!SettleSpec => []Ports!SettledOnce
  BY Ports!SettlesOnce
<1>3. Ports!SettledOnce => SettledOnce
  BY DEF SettledOnce, Ports!SettledOnce, Settling!SettledOnce
<1>. QED  BY <1>1, SettlingTurns, <1>2, <1>3, PTL DEF Spec, Ports!SettleSpec

Storage == INSTANCE StoreProofs WITH
  MaxRuns <- SchemaRuns, runs <- migrated,
  Stores <- StoreKinds, Runs <- StoreRuns, Batch <- PruneBatch, Tries <- AppendTries,
  MaxCuts <- StoreCuts, bills <- usage, at <- dispatches, AdminKinds <- AdminStores

LEMMA SchemaMoves == Schema!MigNext => Storage!MigNext
  BY DEF Schema!Turns, Schema!Gates, Schema!LockFree, Schema!Begin, Schema!Lock,
         Schema!ReadLedger, Schema!Missing, Schema!Apply, Schema!Unlocks, Schema!Commit,
         Schema!Fails, Schema!Dies, Schema!WaitEnds, Schema!Calls, Schema!MigNext,
         Storage!Turns, Storage!Gates, Storage!LockFree, Storage!Begin, Storage!Lock,
         Storage!ReadLedger, Storage!Missing, Storage!Apply, Storage!Unlocks,
         Storage!Commit, Storage!Fails, Storage!Dies, Storage!WaitEnds, Storage!Calls,
         Storage!MigNext

LEMMA SchemaTurns == [Next]_vars => [Storage!MigNext]_(Storage!migVars)
<1>1. CASE Next
  BY <1>1, SchemaMoves DEF Next, migVars, admins, Storage!migVars
<1>2. CASE UNCHANGED vars
  BY <1>2 DEF vars, migVars, admins, Storage!migVars
<1>. QED  BY <1>1, <1>2

\* Processes of any releases that migrate at once apply every migration once and in order, and
\* start only on a schema as new as their own (admin/migrations/runner.ts).
THEOREM ServiceSchemaInOrder ==
  ASSUME Storage!PlainMigrations
  PROVE  Spec => []SchemaInOrder
<1>1. Init => Storage!MigInit
  BY DEF Init, Schema!MigInit, Storage!MigInit
<1>2. Storage!MigSpec => []Storage!SchemaInOrder
  BY Storage!SchemaMovesOn
<1>3. Storage!SchemaInOrder => SchemaInOrder
  BY DEF SchemaInOrder, Storage!SchemaInOrder, Schema!SchemaInOrder
<1>. QED  BY <1>1, SchemaTurns, <1>2, <1>3, PTL DEF Spec, Storage!MigSpec

LEMMA ListMoves == Listing!ListNext => Storage!ListNext
<1>1. Listing!MemoryMatches = Storage!MemoryMatches
  BY DEF Listing!MemoryMatches, Listing!Before, Listing!Earlier, Listing!NoCursor,
         Storage!MemoryMatches, Storage!Before, Storage!Earlier, Storage!NoCursor
<1>2. Listing!PageOf(Storage!MemoryMatches) = Storage!PageOf(Storage!MemoryMatches)
  BY ZenonT(60) DEF Listing!PageOf, Listing!Newer, Listing!Earlier, Listing!Range, Listing!Cardinality,
         Storage!PageOf, Storage!Newer, Storage!Earlier, Storage!Range, Storage!Cardinality
<1>3. ASSUME NEW list PROVE Listing!Pages(list) => Storage!Pages(list)
  <2>1. \A t : Listing!ToDate(t) = Storage!ToDate(t)
    BY DEF Listing!ToDate, Storage!ToDate
  <2>. QED  BY <2>1, Zenon DEF Listing!Pages, Storage!Pages
<1>4. Listing!MemoryLists \/ Listing!SqliteLists \/ Listing!PostgresLists =>
        Storage!MemoryLists \/ Storage!SqliteLists \/ Storage!PostgresLists
  BY <1>1, <1>2, <1>3 DEF Listing!MemoryLists, Listing!SqliteLists, Listing!PostgresLists,
         Listing!SqliteWhere, Listing!PostgresWhere, Storage!MemoryLists, Storage!SqliteLists,
         Storage!PostgresLists, Storage!SqliteWhere, Storage!PostgresWhere
<1>5. ASSUME NEW i \in RunIds
      PROVE  /\ Listing!Leaves(i) => Storage!Leaves(i)
             /\ Listing!Comes(i) => Storage!Comes(i)
             /\ Listing!MemoryStarts(i) => Storage!MemoryStarts(i)
             /\ Listing!SqliteStarts(i) => Storage!SqliteStarts(i)
             /\ Listing!PostgresStarts(i) => Storage!PostgresStarts(i)
  BY DEF Listing!Leaves, Listing!Comes, Listing!MemoryStarts, Listing!SqliteStarts,
         Listing!PostgresStarts, Listing!StartsAt, Listing!Earlier, Storage!Leaves, Storage!Comes,
         Storage!MemoryStarts, Storage!SqliteStarts, Storage!PostgresStarts, Storage!StartsAt,
         Storage!Earlier
<1>. QED  BY <1>4, <1>5 DEF Listing!ListNext, Storage!ListNext

LEMMA ListTurns == [Next]_vars => [Storage!ListNext]_(Storage!listVars)
<1>1. CASE Next
  BY <1>1, ListMoves DEF Next, listVars, admins, Storage!listVars
<1>2. CASE UNCHANGED vars
  BY <1>2 DEF vars, listVars, admins, Storage!listVars
<1>. QED  BY <1>1, <1>2

\* A sweep that ended called its function for every run that matched the filter all along, and
\* for none twice (runtime.ts, eachRun), in a store that keeps its start times as finely as
\* the sweep's cursor does.
THEOREM ServiceSweepCovers ==
  ASSUME Storage!PlainListing
  PROVE  Spec => []SweepCovers
<1>1. Init => Storage!ListInit
  BY DEF Init, Listing!ListInit, Storage!ListInit, Listing!Times, Storage!Times, Listing!NoCursor,
         Storage!NoCursor
<1>2. Storage!ListSpec => []Storage!SweepCovers
  BY Storage!SweepsCover
<1>3. Storage!SweepCovers => SweepCovers
  BY DEF SweepCovers, Storage!SweepCovers, Listing!SweepCovers, Listing!Range, Storage!Range
<1>. QED  BY <1>1, ListTurns, <1>2, <1>3, PTL DEF Spec, Storage!ListSpec

LEMMA ThreadSame ==
  /\ Threads!Writers = Storage!Writers
  /\ Threads!Active = Storage!Active
  /\ Threads!Old = Storage!Old /\ Threads!Kept = Storage!Kept
  /\ Threads!NoWriter = Storage!NoWriter
  /\ Threads!TopOf(entries) = Storage!TopOf(entries)
  /\ Threads!Batches = Storage!Batches
<1>1. \A S : Threads!Max(S) = Storage!Max(S) /\ Threads!Min(S) = Storage!Min(S)
  BY DEF Threads!Max, Threads!Min, Storage!Max, Storage!Min
<1>2. Threads!TopOf(entries) = Storage!TopOf(entries)
  BY <1>1 DEF Threads!TopOf, Storage!TopOf
<1>3. Threads!Prunable = Storage!Prunable
  BY DEF Threads!Prunable, Threads!Old, Storage!Prunable, Storage!Old
<1>4. Threads!Batches = Storage!Batches
  <2>1. \A S : Threads!Cardinality(S) = Storage!Cardinality(S)
    BY DEF Threads!Cardinality, Storage!Cardinality
  <2>. QED  BY <1>1, <1>3, <2>1 DEF Threads!Batches, Storage!Batches
<1>. QED
  BY <1>2, <1>4 DEF Threads!Writers, Threads!Active, Threads!Old, Threads!Kept,
         Threads!NoWriter, Storage!Writers, Storage!Active, Storage!Old, Storage!Kept,
         Storage!NoWriter

LEMMA ThreadMoves == Threads!Next => Storage!Next
<1>1. Threads!Writers = Storage!Writers /\ Threads!Active = Storage!Active
  BY ThreadSame
<1>2. ASSUME NEW w \in Threads!Writers, Threads!Inserts(w) PROVE Storage!Inserts(w)
  BY <1>2, ThreadSame DEF Threads!Inserts, Storage!Inserts, Threads!Put, Storage!Put,
     Threads!Max, Storage!Max
<1>3. \A w, type, r : Threads!Appends(w, type, r) => Storage!Appends(w, type, r)
  <2>1. \A seq, type, r : Threads!Put(seq, type, r) => Storage!Put(seq, type, r)
    BY DEF Threads!Put, Storage!Put, Threads!Max, Storage!Max
  <2>2. \A w, type, r : Threads!AppendsAtOnce(w, type, r) => Storage!AppendsAtOnce(w, type, r)
    BY <2>1, ThreadSame DEF Threads!AppendsAtOnce, Storage!AppendsAtOnce
  <2>3. \A w, type, r : Threads!PrismaAppends(w, type, r) => Storage!PrismaAppends(w, type, r)
    BY ThreadSame DEF Threads!PrismaAppends, Storage!PrismaAppends
  <2>. QED
    BY <2>2, <2>3, ThreadSame DEF Threads!Appends, Storage!Appends, Threads!MemoryAppends,
       Storage!MemoryAppends, Threads!SqliteAppends, Storage!SqliteAppends
<1>4. Threads!Publishes => Storage!Publishes
  BY <1>3 DEF Threads!Publishes, Storage!Publishes
<1>5. Threads!AppReturns => Storage!AppReturns
  BY ThreadSame DEF Threads!AppReturns, Storage!AppReturns, Threads!Returns, Storage!Returns,
     Threads!store, Storage!store, Threads!marks, Storage!marks
<1>6. Threads!Prunes => Storage!Prunes
  BY ThreadSame DEF Threads!Prunes, Storage!Prunes, Threads!MemoryPrunes, Storage!MemoryPrunes,
     Threads!SqlitePrunes, Storage!SqlitePrunes, Threads!PrismaPrunes, Storage!PrismaPrunes,
     Threads!Takes, Storage!Takes
<1>7. Threads!PruneDeletes => Storage!PruneDeletes
  BY DEF Threads!PruneDeletes, Storage!PruneDeletes, Threads!Takes, Storage!Takes
<1>8. Threads!Kept = Storage!Kept /\ Threads!Ended = Storage!Ended /\ Threads!NoWriter = Storage!NoWriter
  BY ThreadSame DEF Threads!Kept, Storage!Kept, Threads!Ended, Storage!Ended, Threads!NoWriter,
     Storage!NoWriter
<1>9. ASSUME NEW r \in StoreRuns PROVE Threads!Claims(r) => Storage!Claims(r)
  BY DEF Threads!Claims, Storage!Claims, Threads!Midway, Storage!Midway, Threads!Transition,
     Storage!Transition, Threads!MemoryMoves, Storage!MemoryMoves, Threads!SqliteMoves,
     Storage!SqliteMoves, Threads!PrismaMoves, Storage!PrismaMoves, Threads!Moves, Storage!Moves
<1>10. ASSUME NEW r \in StoreRuns PROVE Threads!Installs(r) => Storage!Installs(r)
  BY DEF Threads!Installs, Storage!Installs, Threads!marks, Storage!marks
<1>11. ASSUME NEW r \in StoreRuns PROVE Threads!Checks(r) => Storage!Checks(r)
  BY DEF Threads!Checks, Storage!Checks, Threads!Has, Storage!Has, Threads!Closed,
     Storage!Closed, Threads!marks, Storage!marks
<1>12. ASSUME NEW r \in StoreRuns PROVE Threads!SavesTurn(r) => Storage!SavesTurn(r)
  BY DEF Threads!SavesTurn, Storage!SavesTurn, Threads!MemorySays, Storage!MemorySays,
     Threads!SqliteSays, Storage!SqliteSays, Threads!PrismaSays, Storage!PrismaSays,
     Threads!Says, Storage!Says, Threads!marks, Storage!marks
<1>13. ASSUME NEW r \in StoreRuns PROVE Threads!Skips(r) => Storage!Skips(r)
  BY DEF Threads!Skips, Storage!Skips, Threads!Has, Storage!Has, Threads!Closed, Storage!Closed,
     Threads!Unlocked, Storage!Unlocked, Threads!InSegment, Storage!InSegment, Threads!marks,
     Storage!marks
<1>14. ASSUME NEW r \in StoreRuns PROVE Threads!Begins(r) => Storage!Begins(r)
  BY DEF Threads!Begins, Storage!Begins, Threads!Transition, Storage!Transition,
     Threads!MemoryMoves, Storage!MemoryMoves, Threads!SqliteMoves, Storage!SqliteMoves,
     Threads!PrismaMoves, Storage!PrismaMoves, Threads!Moves, Storage!Moves, Threads!Unlocked,
     Storage!Unlocked, Threads!InSegment, Storage!InSegment, Threads!marks, Storage!marks
<1>15. ASSUME NEW r \in StoreRuns PROVE Threads!Opens(r) => Storage!Opens(r)
  BY <1>3, <1>8 DEF Threads!Opens, Storage!Opens
<1>16. ASSUME NEW r \in StoreRuns PROVE Threads!Goes(r) => Storage!Goes(r)
  BY <1>8 DEF Threads!Goes, Storage!Goes, Threads!Has, Storage!Has, Threads!Returns,
     Storage!Returns, Threads!MemoryBills, Storage!MemoryBills, Threads!SqliteBills,
     Storage!SqliteBills, Threads!PrismaBills, Storage!PrismaBills, Threads!Bills,
     Storage!Bills, Threads!MemorySays, Storage!MemorySays, Threads!SqliteSays,
     Storage!SqliteSays, Threads!PrismaSays, Storage!PrismaSays, Threads!Says, Storage!Says
<1>17. ASSUME NEW r \in StoreRuns PROVE Threads!Ends(r) => Storage!Ends(r)
  BY DEF Threads!Ends, Storage!Ends, Threads!Has, Storage!Has, Threads!marks, Storage!marks,
     Threads!Transition, Storage!Transition, Threads!MemoryMoves, Storage!MemoryMoves,
     Threads!SqliteMoves, Storage!SqliteMoves, Threads!PrismaMoves, Storage!PrismaMoves,
     Threads!Moves, Storage!Moves
<1>18. ASSUME NEW r \in StoreRuns PROVE Threads!Closes(r) => Storage!Closes(r)
  BY <1>3, <1>8 DEF Threads!Closes, Storage!Closes, Threads!Closed, Storage!Closed
<1>19. ASSUME NEW r \in StoreRuns PROVE Threads!Finishes(r) => Storage!Finishes(r)
  BY <1>8 DEF Threads!Finishes, Storage!Finishes, Threads!Returns, Storage!Returns,
     Threads!store, Storage!store, Threads!marks, Storage!marks
<1>20. Threads!Stops => Storage!Stops
  BY <1>1 DEF Threads!Stops, Storage!Stops, Threads!marks, Storage!marks
<1>21. Threads!StopWrites => Storage!StopWrites
  BY DEF Threads!StopWrites, Storage!StopWrites, Threads!Closed, Storage!Closed, Threads!marks,
     Storage!marks
<1>22. Threads!Deletes => Storage!Deletes
  BY <1>1 DEF Threads!Deletes, Storage!Deletes, Threads!AtWork, Storage!AtWork, Threads!store,
     Storage!store
<1>23. Threads!ClosesRecords => Storage!ClosesRecords
  BY DEF Threads!ClosesRecords, Storage!ClosesRecords, Threads!marks, Storage!marks
<1>24. Threads!NamesStreams => Storage!NamesStreams
  BY <1>8 DEF Threads!NamesStreams, Storage!NamesStreams, Threads!store, Storage!store,
     Threads!marks, Storage!marks
<1>25. Threads!Cascades => Storage!Cascades
  BY DEF Threads!Cascades, Storage!Cascades, Threads!MemoryDeletes, Storage!MemoryDeletes,
     Threads!SqliteDeletes, Storage!SqliteDeletes, Threads!PrismaDeletes, Storage!PrismaDeletes,
     Threads!Cascade, Storage!Cascade, Threads!Takes, Storage!Takes
<1>26. Threads!DeletesRest => Storage!DeletesRest
  BY DEF Threads!DeletesRest, Storage!DeletesRest, Threads!marks, Storage!marks
<1>27. Threads!DeleteDies => Storage!DeleteDies
  BY DEF Threads!DeleteDies, Storage!DeleteDies, Threads!Midway, Storage!Midway, Threads!store,
     Storage!store
<1>. QED
  BY <1>1, <1>2, <1>4, <1>5, <1>6, <1>7, <1>9, <1>10, <1>11, <1>12, <1>13, <1>14, <1>15, <1>16, <1>17, <1>18, <1>19, <1>20, <1>21, <1>22, <1>23, <1>24, <1>25, <1>26, <1>27
  DEF Threads!Next, Storage!Next

LEMMA ThreadTurns == [Next]_vars => [Storage!Next]_(Storage!vars)
<1>1. CASE Next
  BY <1>1, ThreadMoves DEF Next, threadVars, stores, Storage!vars, Storage!store, Storage!marks
<1>2. CASE UNCHANGED vars
  BY <1>2 DEF vars, threadVars, stores, Storage!vars, Storage!store, Storage!marks
<1>. QED  BY <1>1, <1>2

\* Entries of a thread's record never share a seq and no seq is minted twice until the newest
\* entry is pruned, and a thread whose delete went through leaves nothing behind but what
\* runs wrote that were at work under it (adapters/memory.ts, sqlite.ts and prisma.ts;
\* core/deleteThread.ts; core/stop.ts).
THEOREM ServiceThreadsAreKept ==
  ASSUME 0 \notin StoreRuns
  PROVE  Spec => []ThreadsAreKept
<1>1. Init => Storage!Init
  BY DEF Init, Threads!Init, Storage!Init, Threads!Old, Storage!Old, Threads!Kept, Storage!Kept,
         Threads!Writers, Storage!Writers, Threads!NoWriter, Storage!NoWriter
<1>2. Storage!Spec => [](Storage!OneEntryPerSeq /\ Storage!SeqsNeverRepeat /\ Storage!DeletedIsGone)
  BY Storage!ThreadKeepsAndForgets
<1>3. Storage!OneEntryPerSeq /\ Storage!SeqsNeverRepeat /\ Storage!DeletedIsGone => ThreadsAreKept
  BY ZenonT(60) DEF ThreadsAreKept, Threads!OneEntryPerSeq, Threads!SeqsNeverRepeat,
         Threads!DeletedIsGone, Storage!OneEntryPerSeq, Storage!SeqsNeverRepeat,
         Storage!DeletedIsGone
<1>. QED  BY <1>1, ThreadTurns, <1>2, <1>3, PTL DEF Spec, Storage!Spec

LEMMA KvMoves == Kv!KvNext => Ports!KvNext
  BY ZenonT(60) DEF Kv!kvVars, Kv!Live, Kv!Value, Kv!Server, Kv!Done, Kv!Count, Kv!Kept, Kv!Calls,
         Kv!TwoStep, Kv!KvInit, Kv!Asks, Kv!Returns, Kv!Set, Kv!Absent, Kv!SetNew, Kv!Del,
         Kv!Compared, Kv!SetIf, Kv!DelIf, Kv!Incr, Kv!IncrWithExpiry, Kv!Lapses, Kv!MemorySets,
         Kv!MemoryDels, Kv!MemorySetsIf, Kv!MemoryDelsIf, Kv!MemoryStamps, Kv!MemoryIncrs,
         Kv!SqliteSets, Kv!SqliteDels, Kv!SqliteIncrs, Kv!SqliteStamps, Kv!SqliteSetsIf,
         Kv!SqliteDelsIf, Kv!RedisSets, Kv!RedisScripts, Kv!UpstashSets, Kv!UpstashScripts,
         Kv!Sweeps, Kv!InTurn, Kv!Answered, Kv!KvNext, Kv!KvSpec, Ports!kvVars,
         Ports!Live, Ports!Value, Ports!Server, Ports!Done, Ports!Count, Ports!Kept,
         Ports!Calls, Ports!TwoStep, Ports!KvInit, Ports!Asks, Ports!Returns,
         Ports!Set, Ports!Absent, Ports!SetNew, Ports!Del, Ports!Compared,
         Ports!SetIf, Ports!DelIf, Ports!Incr, Ports!IncrWithExpiry, Ports!Lapses,
         Ports!MemorySets, Ports!MemoryDels, Ports!MemorySetsIf, Ports!MemoryDelsIf,
         Ports!MemoryStamps, Ports!MemoryIncrs, Ports!SqliteSets, Ports!SqliteDels,
         Ports!SqliteIncrs, Ports!SqliteStamps, Ports!SqliteSetsIf, Ports!SqliteDelsIf,
         Ports!RedisSets, Ports!RedisScripts, Ports!UpstashSets, Ports!UpstashScripts,
         Ports!Sweeps, Ports!InTurn, Ports!Answered, Ports!KvNext, Ports!KvSpec

LEMMA KvTurns == [Next]_vars => [Ports!KvNext]_(Ports!kvVars)
<1>1. CASE Next
  BY <1>1, KvMoves DEF Next, kvVars, stores, Ports!kvVars
<1>2. CASE UNCHANGED vars
  BY <1>2 DEF vars, kvVars, stores, Ports!kvVars
<1>. QED  BY <1>1, <1>2

\* Whichever kv adapter the runtime is given, each of its steps is one of the contract of
\* ports/kv.ts, but for MemoryKv's calls under which the key changes (adapters/memory.ts,
\* sqlite.ts, redis.ts, upstash.ts).
THEOREM ServiceKvKeepsContract ==
  ASSUME Ports!PlainKv
  PROVE  Spec => KvKeepsContract
<1>1. Init => Ports!KvInit
  BY DEF Init, Kv!KvInit, Ports!KvInit
<1>2. Ports!KvSpec => Ports!KvKeepsContract
  BY Ports!KvImplementsPort
<1>3. Ports!Port!Next => Kv!Port!Next
  BY ZenonT(60) DEF Kv!Port!Shows, Kv!Port!Entry, Kv!Port!Done, Kv!Port!Count, Kv!Port!Told, Kv!Port!Writes,
         Kv!Port!Removes, Kv!Port!Declines, Kv!Port!Counts, Kv!Port!Returns, Kv!Port!Issues,
         Kv!Port!Expires, Kv!Port!Next, Ports!Port!Shows, Ports!Port!Entry,
         Ports!Port!Done, Ports!Port!Count, Ports!Port!Told, Ports!Port!Writes,
         Ports!Port!Removes, Ports!Port!Declines, Ports!Port!Counts, Ports!Port!Returns,
         Ports!Port!Issues, Ports!Port!Expires, Ports!Port!Next, Kv!View, Kv!Live,
         Kv!Value, Ports!View, Ports!Live, Ports!Value
<1>4. ASSUME NEW c \in KvCallers, Ports!Slips(c) PROVE Kv!Slips(c)
  BY <1>4, ZenonT(60) DEF Kv!Slips, Kv!ReadIsOld, Kv!TwoStep, Kv!View, Kv!Live, Kv!Value, Kv!Count,
         Kv!Port!Entry, Kv!Port!Done, Kv!Port!Count, Kv!Port!Told, Kv!Port!Writes, Kv!Port!Removes, Kv!Port!Declines,
         Ports!Slips, Ports!ReadIsOld, Ports!TwoStep, Ports!View, Ports!Live, Ports!Value, Ports!Count,
         Ports!Port!Entry, Ports!Port!Done, Ports!Port!Count, Ports!Port!Told, Ports!Port!Writes,
         Ports!Port!Removes, Ports!Port!Declines
<1>5. [Ports!KvStep]_<<Ports!View, asked, answer>> => [part = "kv" => Kv!KvStep]_<<Kv!View, asked, answer>>
  BY <1>3, <1>4 DEF Kv!KvStep, Ports!KvStep, Kv!View, Kv!Live, Ports!View, Ports!Live
<1>. QED  BY <1>1, KvTurns, <1>2, <1>5, PTL DEF Spec, Ports!KvSpec, Ports!KvKeepsContract, KvKeepsContract

Streamer == INSTANCE StreamProofs WITH
  Kinds <- StreamKinds, MaxItems <- StreamItems, row <- streamRow, cursor <- readCursor, got <- given

LEMMA StreamMoves == Streams!Next => Streamer!Next
<1>1. Streams!Memory => Streamer!Memory
  BY DEF Streams!Memory, Streams!MemoryOpens, Streams!MemoryCloses, Streams!MemoryDrops,
         Streams!MemoryLooks, Streams!MemoryWakes, Streams!MemoryAppends, Streams!store,
         Streams!reading, Streams!End, Streams!Gone, Streams!Stream, Streams!Logged,
         Streams!Wakes, Streams!Fresh, Streams!After, Streams!Port!NoStream,
         Streams!Port!CanAppend, Streams!ToSet, Streams!Opens, Streams!AppendsAtOnce,
         Streams!Closes, Streams!Removes, Streams!LooksAtOnce, Streams!Finds,
         Streams!AtRest, Streams!LooksAtRow, Streams!LooksAtEvents, Streams!LooksAgain,
         Streamer!Memory, Streamer!MemoryOpens, Streamer!MemoryCloses, Streamer!MemoryDrops,
         Streamer!MemoryLooks, Streamer!MemoryWakes, Streamer!MemoryAppends, Streamer!store,
         Streamer!reading, Streamer!End, Streamer!Gone, Streamer!Stream, Streamer!Logged,
         Streamer!Wakes, Streamer!Fresh, Streamer!After, Streamer!Port!NoStream,
         Streamer!Port!CanAppend, Streamer!ToSet, Streamer!Opens, Streamer!AppendsAtOnce,
         Streamer!Closes, Streamer!Removes, Streamer!LooksAtOnce, Streamer!Finds,
         Streamer!AtRest, Streamer!LooksAtRow, Streamer!LooksAtEvents, Streamer!LooksAgain
<1>2. Streams!Sqlite => Streamer!Sqlite
  BY DEF Streams!Sqlite, Streams!SqliteOpens, Streams!SqliteCloses, Streams!SqliteRemoves,
         Streams!SqlitePages, Streams!SqliteWakes, Streams!SqliteAppends, Streams!store,
         Streams!reading, Streams!End, Streams!Gone, Streams!Stream, Streams!Logged,
         Streams!Wakes, Streams!Fresh, Streams!After, Streams!Port!NoStream,
         Streams!Port!CanAppend, Streams!ToSet, Streams!Opens, Streams!AppendsAtOnce,
         Streams!Closes, Streams!Removes, Streams!LooksAtOnce, Streams!Finds,
         Streams!AtRest, Streams!LooksAtRow, Streams!LooksAtEvents, Streams!LooksAgain,
         Streamer!Sqlite, Streamer!SqliteOpens, Streamer!SqliteCloses,
         Streamer!SqliteRemoves, Streamer!SqlitePages, Streamer!SqliteWakes,
         Streamer!SqliteAppends, Streamer!store, Streamer!reading, Streamer!End,
         Streamer!Gone, Streamer!Stream, Streamer!Logged, Streamer!Wakes, Streamer!Fresh,
         Streamer!After, Streamer!Port!NoStream, Streamer!Port!CanAppend, Streamer!ToSet,
         Streamer!Opens, Streamer!AppendsAtOnce, Streamer!Closes, Streamer!Removes,
         Streamer!LooksAtOnce, Streamer!Finds, Streamer!AtRest, Streamer!LooksAtRow,
         Streamer!LooksAtEvents, Streamer!LooksAgain
<1>3. Streams!Prisma => Streamer!Prisma
  BY DEF Streams!Prisma, Streams!PrismaOpens, Streams!PrismaClose, Streams!DeletesEvents,
         Streams!DeletesRow, Streams!PrismaPages, Streams!PrismaWakes, Streams!PrismaAppend,
         Streams!Commit, Streams!RollsBack, Streams!Lock, Streams!CanLock, Streams!store,
         Streams!reading, Streams!End, Streams!Gone, Streams!Stream, Streams!Logged,
         Streams!Wakes, Streams!Fresh, Streams!After, Streams!Port!NoStream,
         Streams!Port!CanAppend, Streams!ToSet, Streams!Opens, Streams!AppendsAtOnce,
         Streams!Closes, Streams!Removes, Streams!LooksAtOnce, Streams!Finds,
         Streams!AtRest, Streams!LooksAtRow, Streams!LooksAtEvents, Streams!LooksAgain,
         Streamer!Prisma, Streamer!PrismaOpens, Streamer!PrismaClose,
         Streamer!DeletesEvents, Streamer!DeletesRow, Streamer!PrismaPages,
         Streamer!PrismaWakes, Streamer!PrismaAppend, Streamer!Commit, Streamer!RollsBack,
         Streamer!Lock, Streamer!CanLock, Streamer!store, Streamer!reading, Streamer!End,
         Streamer!Gone, Streamer!Stream, Streamer!Logged, Streamer!Wakes, Streamer!Fresh,
         Streamer!After, Streamer!Port!NoStream, Streamer!Port!CanAppend, Streamer!ToSet,
         Streamer!Opens, Streamer!AppendsAtOnce, Streamer!Closes, Streamer!Removes,
         Streamer!LooksAtOnce, Streamer!Finds, Streamer!AtRest, Streamer!LooksAtRow,
         Streamer!LooksAtEvents, Streamer!LooksAgain
<1>4. Streams!Scripted => Streamer!Scripted
  BY DEF Streams!Scripted, Streams!ScriptOpens, Streams!ScriptCloses, Streams!ScriptDeletes,
         Streams!ScriptLooks, Streams!TailWakes, Streams!ScriptAppends, Streams!store,
         Streams!reading, Streams!End, Streams!Gone, Streams!Stream, Streams!Logged,
         Streams!Wakes, Streams!Fresh, Streams!After, Streams!Port!NoStream,
         Streams!Port!CanAppend, Streams!ToSet, Streams!Opens, Streams!AppendsAtOnce,
         Streams!Closes, Streams!Removes, Streams!LooksAtOnce, Streams!Finds,
         Streams!AtRest, Streams!LooksAtRow, Streams!LooksAtEvents, Streams!LooksAgain,
         Streamer!Scripted, Streamer!ScriptOpens, Streamer!ScriptCloses,
         Streamer!ScriptDeletes, Streamer!ScriptLooks, Streamer!TailWakes,
         Streamer!ScriptAppends, Streamer!store, Streamer!reading, Streamer!End,
         Streamer!Gone, Streamer!Stream, Streamer!Logged, Streamer!Wakes, Streamer!Fresh,
         Streamer!After, Streamer!Port!NoStream, Streamer!Port!CanAppend, Streamer!ToSet,
         Streamer!Opens, Streamer!AppendsAtOnce, Streamer!Closes, Streamer!Removes,
         Streamer!LooksAtOnce, Streamer!Finds, Streamer!AtRest, Streamer!LooksAtRow,
         Streamer!LooksAtEvents, Streamer!LooksAgain
<1>5. Streams!Flow => Streamer!Flow
  BY DEF Streams!Flow, Streams!FlowOpens, Streams!FlowBatch, Streams!FlowCloses,
         Streams!FlowDeletes, Streams!FlowLooks, Streams!FlowWakes, Streams!FlowAppends,
         Streams!store, Streams!reading, Streams!End, Streams!Gone, Streams!Stream,
         Streams!Logged, Streams!Wakes, Streams!Fresh, Streams!After, Streams!Port!NoStream,
         Streams!Port!CanAppend, Streams!ToSet, Streams!Opens, Streams!AppendsAtOnce,
         Streams!Closes, Streams!Removes, Streams!LooksAtOnce, Streams!Finds,
         Streams!AtRest, Streams!LooksAtRow, Streams!LooksAtEvents, Streams!LooksAgain,
         Streamer!Flow, Streamer!FlowOpens, Streamer!FlowBatch, Streamer!FlowCloses,
         Streamer!FlowDeletes, Streamer!FlowLooks, Streamer!FlowWakes, Streamer!FlowAppends,
         Streamer!store, Streamer!reading, Streamer!End, Streamer!Gone, Streamer!Stream,
         Streamer!Logged, Streamer!Wakes, Streamer!Fresh, Streamer!After,
         Streamer!Port!NoStream, Streamer!Port!CanAppend, Streamer!ToSet, Streamer!Opens,
         Streamer!AppendsAtOnce, Streamer!Closes, Streamer!Removes, Streamer!LooksAtOnce,
         Streamer!Finds, Streamer!AtRest, Streamer!LooksAtRow, Streamer!LooksAtEvents,
         Streamer!LooksAgain
<1>6. Streams!Expires => Streamer!Expires
  BY DEF Streams!Expires, Streamer!Expires, Streams!Gone, Streamer!Gone, Streams!reading, Streamer!reading
<1>7. Streams!Starts => Streamer!Starts
  BY DEF Streams!Starts, Streamer!Starts, Streams!store, Streamer!store, Streams!Gone, Streamer!Gone,
         Streams!Stream, Streamer!Stream, Streams!Port!NoStream, Streamer!Port!NoStream
<1>8. Streams!Gives => Streamer!Gives
  <2>1. Streams!Before = Streamer!Before /\ Streams!End = Streamer!End
    BY DEF Streams!Before, Streamer!Before, Streams!After, Streamer!After, Streams!End, Streamer!End
  <2>. QED  BY <2>1 DEF Streams!Gives, Streamer!Gives, Streams!store, Streamer!store
<1>9. Streams!Waits => Streamer!Waits
  BY DEF Streams!Waits, Streamer!Waits, Streams!Before, Streamer!Before, Streams!After, Streamer!After,
         Streams!AtRest, Streamer!AtRest, Streams!SeesEnd, Streamer!SeesEnd, Streams!store, Streamer!store
<1>. QED  BY <1>1, <1>2, <1>3, <1>4, <1>5, <1>6, <1>7, <1>8, <1>9 DEF Streams!Next, Streamer!Next

LEMMA StreamTurns == [Next]_vars => [Streamer!Next]_(Streamer!vars)
<1>1. CASE Next
  BY <1>1, StreamMoves DEF Next, streamVars, stores, Streamer!vars, Streamer!store, Streamer!reading
<1>2. CASE UNCHANGED vars
  BY <1>2 DEF vars, streamVars, stores, Streamer!vars, Streamer!store, Streamer!reading
<1>. QED  BY <1>1, <1>2

LEMMA StreamsStart == Init => Streamer!Init
  BY DEF Init, Streams!Init, Streamer!Init

\* A reader of any stream adapter gives out the stream from its cursor, each item once,
\* none skipped, and ends at its end (ports/streams.ts, read).
THEOREM ServiceReadsExact == Spec => []ReadsExact
<1>1. Streamer!Spec => []Streamer!ReadsExact
  BY Streamer!ReadersAreExact
<1>2. Streamer!ReadsExact => ReadsExact
  BY DEF ReadsExact, Streams!ReadsExact, Streamer!ReadsExact, Streams!End, Streamer!End,
         Streams!Gone, Streamer!Gone, Streams!Stream, Streamer!Stream, Streams!Port!NoStream,
         Streamer!Port!NoStream, Streams!IsPrefix, Streamer!IsPrefix, Streams!Last,
         Streamer!Last, Streams!ToSet, Streamer!ToSet
<1>. QED  BY StreamsStart, StreamTurns, <1>1, <1>2, PTL DEF Spec, Streamer!Spec

\* Every step of every stream adapter is a step of the port, RunStreams (ports/streams.ts).
THEOREM ServiceStreamsKeepContract == Spec => StreamsKeepContract
<1>1. Streamer!Spec => Streamer!StreamsKeepContract
  BY Streamer!StreamsImplementPort
<1>2. [Streamer!KeepsContract]_(Streamer!Stream) =>
        [part = "streams" => Streams!KeepsContract]_(Streams!Stream)
  BY ZenonT(60) DEF Streams!KeepsContract, Streamer!KeepsContract, Streams!Stream, Streamer!Stream,
         Streams!Gone, Streamer!Gone, Streams!Fresh, Streamer!Fresh, Streams!End,
         Streamer!End, Streams!Port!NoStream, Streams!Port!Opened,
         Streams!Port!CanAppend, Streams!Port!Appended, Streams!Port!Closed,
         Streams!Port!Expired, Streamer!Port!NoStream, Streamer!Port!Opened,
         Streamer!Port!CanAppend, Streamer!Port!Appended, Streamer!Port!Closed,
         Streamer!Port!Expired
<1>. QED  BY StreamsStart, StreamTurns, <1>1, <1>2, PTL
          DEF Spec, Streamer!Spec, Streamer!StreamsKeepContract, StreamsKeepContract

LEMMA BusMoves == Bus!BusNext => Ports!BusNext
  BY ZenonT(60) DEF Bus!busVars, Bus!Channels, Bus!Moves, Bus!Enters, Bus!Quits, Bus!Wires, Bus!Unused,
         Bus!Quiet, Bus!MemoryJoins, Bus!MemoryLeaves, Bus!RedisOpens, Bus!RedisJoins,
         Bus!RedisOpened, Bus!RedisFails, Bus!RedisLeaves, Bus!RedisLeft, Bus!FlowJoins,
         Bus!FlowOpened, Bus!FlowTimesOut, Bus!FlowFailed, Bus!FlowGoesOn, Bus!Last,
         Bus!FlowLeaves, Bus!BusNext, Ports!busVars, Ports!Channels, Ports!Moves,
         Ports!Enters, Ports!Quits, Ports!Wires, Ports!Unused, Ports!Quiet,
         Ports!MemoryJoins, Ports!MemoryLeaves, Ports!RedisOpens, Ports!RedisJoins,
         Ports!RedisOpened, Ports!RedisFails, Ports!RedisLeaves, Ports!RedisLeft,
         Ports!FlowJoins, Ports!FlowOpened, Ports!FlowTimesOut, Ports!FlowFailed,
         Ports!FlowGoesOn, Ports!Last, Ports!FlowLeaves, Ports!BusNext

LEMMA BusTurns == [Next]_vars => [Ports!BusNext]_(Ports!busVars)
<1>1. CASE Next
  BY <1>1, BusMoves DEF Next, busVars, stores, Ports!busVars
<1>2. CASE UNCHANGED vars
  BY <1>2 DEF vars, busVars, stores, Ports!busVars
<1>. QED  BY <1>1, <1>2

\* Who was told that it is subscribed, and has not undone it, is in the set that the thread's
\* open channel delivers to, and no channel is kept for nobody (adapters/memory.ts, redis.ts
\* and flow.ts, subscribe); RedisBus's calls come one after another.
THEOREM ServiceSubscribersAreHeard == Spec => []SubscribersAreHeard
<1>1. Init => Ports!BusInit
  BY DEF Init, Bus!BusInit, Ports!BusInit, Bus!Channels, Ports!Channels
<1>2. Ports!BusSpec => []Ports!SubscribersAreHeard
  BY Ports!BusKeepsSubscribers
<1>3. Ports!SubscribersAreHeard => SubscribersAreHeard
  BY ZenonT(60) DEF SubscribersAreHeard, Ports!SubscribersAreHeard, Bus!SubscribersAreHeard,
         Bus!Channels, Ports!Channels
<1>. QED  BY <1>1, BusTurns, <1>2, <1>3, PTL DEF Spec, Ports!BusSpec

LEMMA SandboxMoves == Sandbox!SandboxNext => Ports!SandboxNext
  BY ZenonT(60) DEF Sandbox!sandboxVars, Sandbox!NoRecord, Sandbox!NoAcquire, Sandbox!NoCall,
         Sandbox!PerRun, Sandbox!Owner, Sandbox!Idle, Sandbox!Runs, Sandbox!GivesUp,
         Sandbox!Destroys, Sandbox!Wants, Sandbox!MineAny, Sandbox!Mine, Sandbox!Reads,
         Sandbox!Connects, Sandbox!Pushes, Sandbox!Makes, Sandbox!Writes, Sandbox!CallOver,
         Sandbox!Gone, Sandbox!Parks, Sandbox!Resumed, Sandbox!RunEnds,
         Sandbox!DeletesSandbox, Sandbox!SandboxEnds, Sandbox!Expires, Sandbox!InTheMaking,
         Sandbox!Fails, Sandbox!WorkerDies, Sandbox!SandboxNext, Ports!sandboxVars,
         Ports!NoRecord, Ports!NoAcquire, Ports!NoCall, Ports!PerRun, Ports!Owner,
         Ports!Idle, Ports!Runs, Ports!GivesUp, Ports!Destroys, Ports!Wants,
         Ports!MineAny, Ports!Mine, Ports!Reads, Ports!Connects, Ports!Pushes,
         Ports!Makes, Ports!Writes, Ports!CallOver, Ports!Gone, Ports!Parks,
         Ports!Resumed, Ports!RunEnds, Ports!DeletesSandbox, Ports!SandboxEnds,
         Ports!Expires, Ports!InTheMaking, Ports!Fails, Ports!WorkerDies,
         Ports!SandboxNext

LEMMA SandboxTurns == [Next]_vars => [Ports!SandboxNext]_(Ports!sandboxVars)
<1>1. CASE Next
  BY <1>1, SandboxMoves DEF Next, sandboxVars, runners, Ports!sandboxVars
<1>2. CASE UNCHANGED vars
  BY <1>2 DEF vars, sandboxVars, runners, Ports!sandboxVars
<1>. QED  BY <1>1, <1>2

\* With a sandbox per run no tool call works among another run's files, and every sandbox that
\* is up is named by the record or by the acquire about to write it, unless a fault that is
\* only logged let go of it (core/builtin/sandbox.ts, acquire and releaseRunSandbox).
THEOREM ServiceSandboxesAreOwned == Spec => []SandboxesAreOwned
<1>1. Init => Ports!SandboxInit
  BY DEF Init, Sandbox!SandboxInit, Ports!SandboxInit, Sandbox!NoRecord, Ports!NoRecord,
         Sandbox!NoCall, Ports!NoCall, Sandbox!NoAcquire, Ports!NoAcquire
<1>2. Ports!SandboxSpec => []Ports!SandboxesAreOwned
  BY Ports!SandboxesHaveOwners
<1>3. Ports!SandboxesAreOwned => SandboxesAreOwned
  BY DEF SandboxesAreOwned, Ports!SandboxesAreOwned, Sandbox!SandboxesAreOwned,
         Sandbox!PerRun, Ports!PerRun
<1>. QED  BY <1>1, SandboxTurns, <1>2, <1>3, PTL DEF Spec, Ports!SandboxSpec

LEMMA FlowMoves == Queue!Next => Ports!Next
<1>1. ASSUME NEW c \in FlowCallers PROVE Queue!Enqueue(c) => Ports!Enqueue(c)
  BY ZenonT(60) DEF Queue!Enqueue, Ports!Enqueue, Queue!Answer, Ports!Answer, Queue!Refused,
         Ports!Refused, Queue!IsFresh, Ports!IsFresh
<1>2. ASSUME NEW c \in FlowCallers PROVE Queue!Start(c) => Ports!Start(c)
  BY ZenonT(60) DEF Queue!Start, Ports!Start, Queue!StartAnswer, Ports!StartAnswer, Queue!Holders,
         Ports!Holders, Queue!KeyOf, Ports!KeyOf, Queue!Fresh, Ports!Fresh, Queue!Answer,
         Ports!Answer, Queue!Going, Ports!Going, Queue!HasKey, Ports!HasKey, Queue!StillFreed,
         Ports!StillFreed, Queue!Active, Ports!Active
<1>3. ASSUME NEW c \in FlowCallers PROVE Queue!StartThrows(c) => Ports!StartThrows(c)
  BY ZenonT(60) DEF Queue!StartThrows, Ports!StartThrows, Queue!Holders, Ports!Holders, Queue!KeyOf,
         Ports!KeyOf, Queue!Fresh, Ports!Fresh, Queue!Answer, Ports!Answer, Queue!HasKey,
         Ports!HasKey
<1>4. ASSUME NEW key PROVE Queue!Cancel(key) => Ports!Cancel(key)
  BY ZenonT(60) DEF Queue!Cancel, Ports!Cancel, Queue!Holders, Ports!Holders, Queue!Going, Ports!Going,
         Queue!SetStatus, Ports!SetStatus, Queue!KeyOf, Ports!KeyOf, Queue!Active,
         Ports!Active, Queue!HasKey, Ports!HasKey
<1>5. ASSUME NEW r \in DOMAIN flowRuns PROVE Queue!KeyFreed(r) => Ports!KeyFreed(r)
  BY ZenonT(60) DEF Queue!KeyFreed, Ports!KeyFreed, Queue!Going, Ports!Going, Queue!Active, Ports!Active
<1>6. ASSUME NEW r \in DOMAIN flowRuns PROVE Queue!Step(r) => Ports!Step(r)
  BY ZenonT(60) DEF Queue!Step, Ports!Step, Queue!SetStatus, Ports!SetStatus
<1>7. ASSUME NEW r \in DOMAIN flowRuns PROVE Queue!Wake(r) => Ports!Wake(r)
  BY ZenonT(60) DEF Queue!Wake, Ports!Wake, Queue!SetStatus, Ports!SetStatus
<1>8. ASSUME NEW r \in DOMAIN flowRuns PROVE Queue!Handled(r) => Ports!Handled(r)
  BY ZenonT(60) DEF Queue!Handled, Ports!Handled, Queue!SetStatus, Ports!SetStatus
<1>9. ASSUME NEW r \in DOMAIN flowRuns PROVE Queue!Throws(r) => Ports!Throws(r)
  BY ZenonT(60) DEF Queue!Throws, Ports!Throws, Queue!SetStatus, Ports!SetStatus
<1>10. ASSUME NEW r \in DOMAIN flowRuns PROVE Queue!TimesOut(r) => Ports!TimesOut(r)
  BY ZenonT(60) DEF Queue!TimesOut, Ports!TimesOut
<1>11. ASSUME NEW r \in DOMAIN flowRuns PROVE Queue!HandDead(r) => Ports!HandDead(r)
  BY ZenonT(60) DEF Queue!HandDead, Ports!HandDead
<1>12. ASSUME NEW r \in DOMAIN flowRuns PROVE Queue!Redrive(r) => Ports!Redrive(r)
  BY ZenonT(60) DEF Queue!Redrive, Ports!Redrive, Queue!Holders, Ports!Holders, Queue!KeyOf, Ports!KeyOf,
         Queue!Going, Ports!Going, Queue!HasKey, Ports!HasKey, Queue!Active, Ports!Active
<1>13. ASSUME NEW r \in DOMAIN flowRuns PROVE Queue!PurgeDead(r) => Ports!PurgeDead(r)
  BY ZenonT(60) DEF Queue!PurgeDead, Ports!PurgeDead, Queue!SetStatus, Ports!SetStatus
<1>14. Queue!Pause => Ports!Pause
  BY ZenonT(60) DEF Queue!Pause, Ports!Pause
<1>15. Queue!Resume => Ports!Resume
  BY ZenonT(60) DEF Queue!Resume, Ports!Resume
<1>16. Queue!PurgeNext => Ports!PurgeNext
  BY ZenonT(60) DEF Queue!PurgeNext, Ports!PurgeNext, Queue!Going, Ports!Going, Queue!SetStatus,
         Ports!SetStatus, Queue!Active, Ports!Active
<1>17. ASSUME NEW x PROVE Queue!Purge(x) => Ports!Purge(x)
  BY ZenonT(60) DEF Queue!Purge, Ports!Purge, Queue!Listed, Ports!Listed
<1>. QED
  BY <1>1, <1>2, <1>3, <1>4, <1>5, <1>6, <1>7, <1>8, <1>9, <1>10, <1>11, <1>12, <1>13, <1>14,
      <1>15, <1>16, <1>17, ZenonT(60)
  DEF Queue!Next, Ports!Next, Queue!KeyOf, Ports!KeyOf, Queue!HasKey, Ports!HasKey

LEMMA FlowTurns == [Next]_vars => [Ports!Next]_(Ports!vars)
<1>1. CASE Next
  BY <1>1, FlowMoves DEF Next, queueVars, admins, Ports!vars
<1>2. CASE UNCHANGED vars
  BY <1>2 DEF vars, queueVars, admins, Ports!vars
<1>. QED  BY <1>1, <1>2

LEMMA LocalMoves == Local!LocalNext => Ports!LocalNext
<1>1. ASSUME NEW j \in LocalJobs PROVE Local!InlineEnqueue(j) => Ports!InlineEnqueue(j)
  BY ZenonT(60) DEF Local!InlineEnqueue, Ports!InlineEnqueue, Local!Keyed, Ports!Keyed, Local!Range,
         Ports!Range, Local!Says, Ports!Says, Local!Waits, Ports!Waits, Local!Armed,
         Ports!Armed, Local!NoKey, Ports!NoKey, Local!Earlier, Ports!Earlier
<1>2. ASSUME NEW j \in LocalJobs PROVE Local!Fires(j) => Ports!Fires(j)
  BY ZenonT(60) DEF Local!Fires, Ports!Fires, Local!NotDue, Ports!NotDue, Local!Armed, Ports!Armed,
         Local!Leaves, Ports!Leaves, Local!Delivered, Ports!Delivered, Local!Earlier,
         Ports!Earlier, Local!Staying, Ports!Staying, Local!Says, Ports!Says, Local!Handed,
         Ports!Handed
<1>3. ASSUME NEW j \in LocalJobs PROVE Local!MemoryEnqueue(j) => Ports!MemoryEnqueue(j)
  BY ZenonT(60) DEF Local!MemoryEnqueue, Ports!MemoryEnqueue, Local!Keyed, Ports!Keyed, Local!Range,
         Ports!Range, Local!Says, Ports!Says, Local!QueueFull, Ports!QueueFull,
         Local!Cardinality, Ports!Cardinality, Local!Waits, Ports!Waits, Local!NoKey,
         Ports!NoKey, Local!IsNewWork, Ports!IsNewWork
<1>4. ASSUME NEW j \in LocalJobs PROVE Local!QStashEnqueue(j) => Ports!QStashEnqueue(j)
  BY ZenonT(60) DEF Local!QStashEnqueue, Ports!QStashEnqueue, Local!Says, Ports!Says, Local!Waits,
         Ports!Waits, Local!NoKey, Ports!NoKey
<1>5. ASSUME NEW j \in LocalJobs PROVE Local!QStashDelivers(j) => Ports!QStashDelivers(j)
  BY ZenonT(60) DEF Local!QStashDelivers, Ports!QStashDelivers, Local!Range, Ports!Range, Local!Handed,
         Ports!Handed, Local!Leaves, Ports!Leaves, Local!Says, Ports!Says, Local!Staying,
         Ports!Staying
<1>6. ASSUME NEW key PROVE Local!InlineCancel(key) => Ports!InlineCancel(key)
  BY ZenonT(60) DEF Local!InlineCancel, Ports!InlineCancel, Local!Keyed, Ports!Keyed, Local!Range,
         Ports!Range, Local!Leaves, Ports!Leaves, Local!TimersOf, Ports!TimersOf,
         Local!Becomes, Ports!Becomes, Local!NoKey, Ports!NoKey, Local!Staying, Ports!Staying
<1>7. ASSUME NEW key PROVE Local!MemoryCancel(key) => Ports!MemoryCancel(key)
  BY ZenonT(60) DEF Local!MemoryCancel, Ports!MemoryCancel, Local!Keyed, Ports!Keyed, Local!Range,
         Ports!Range, Local!Leaves, Ports!Leaves, Local!Becomes, Ports!Becomes, Local!NoKey,
         Ports!NoKey, Local!Staying, Ports!Staying
<1>8. ASSUME NEW key PROVE Local!QStashForgets(key) => Ports!QStashForgets(key)
  BY ZenonT(60) DEF Local!QStashForgets, Ports!QStashForgets
<1>9. Local!Binds => Ports!Binds
  BY ZenonT(60) DEF Local!Binds, Ports!Binds, Local!Range, Ports!Range, Local!Becomes, Ports!Becomes,
         Local!Handed, Ports!Handed
<1>10. Local!Clears => Ports!Clears
  BY ZenonT(60) DEF Local!Clears, Ports!Clears, Local!Range, Ports!Range, Local!Becomes, Ports!Becomes,
         Local!TimersOf, Ports!TimersOf
<1>11. Local!Drains => Ports!Drains
  BY ZenonT(60) DEF Local!Drains, Ports!Drains, Local!Says, Ports!Says, Local!Handed, Ports!Handed
<1>12. Local!HandlerReturns => Ports!HandlerReturns
  BY ZenonT(60) DEF Local!HandlerReturns, Ports!HandlerReturns
<1>13. Local!TimePasses => Ports!TimePasses
  BY ZenonT(60) DEF Local!TimePasses, Ports!TimePasses, Local!Less, Ports!Less
<1>. QED
  BY <1>1, <1>2, <1>3, <1>4, <1>5, <1>6, <1>7, <1>8, <1>9, <1>10, <1>11, <1>12, <1>13, ZenonT(60)
  DEF Local!LocalNext, Ports!LocalNext

LEMMA LocalTurns == [Next]_vars => [Ports!LocalNext]_(Ports!localVars)
<1>1. CASE Next
  BY <1>1, LocalMoves DEF Next, localVars, admins, Ports!localVars
<1>2. CASE UNCHANGED vars
  BY <1>2 DEF vars, localVars, admins, Ports!localVars
<1>. QED  BY <1>1, <1>2

\* Whatever the queues lose, delay, cancel, purge or deliver again, a caller of enqueue hears the
\* truth about its job, and the job is kept until it is withdrawn or handed on: once and in time,
\* in the queues that can promise it (adapters/flow.ts, adapters/inline.ts, adapters/memory.ts,
\* adapters/qstash.ts).
THEOREM ServiceQueuesKeepJobs ==
  ASSUME \A i, j \in FlowJobs : i.key # j.dispatch,
         \A j \in LocalJobs : j.delay \in Nat
  PROVE  Spec => []QueuesKeepJobs
<1>1. Init => Ports!Init
  BY DEF Init, Queue!Init, Ports!Init
<1>2. Init => Ports!LocalInit
  BY DEF Init, Local!LocalInit, Ports!LocalInit
<1>3. Ports!KeysNameNoDispatch /\ Ports!DelaysAreNat
  BY DEF Ports!KeysNameNoDispatch, Ports!DelaysAreNat
<1>4. Ports!Spec => []Ports!EnqueueTellsTruth
  BY <1>3, Ports!FlowTellsTruth
<1>5. Ports!LocalInit /\ [][Ports!LocalNext]_(Ports!localVars) => []Ports!JobsAreKept
  BY <1>3, Ports!LocalQueuesKeep
<1>6. Ports!EnqueueTellsTruth => Queue!EnqueueTellsTruth
  BY Zenon DEF Ports!EnqueueTellsTruth, Queue!EnqueueTellsTruth, Ports!KeyOf, Queue!KeyOf, Ports!HasKey,
         Queue!HasKey, Ports!IsFresh, Queue!IsFresh
<1>7. Ports!JobsAreKept => Local!JobsAreKept
  BY DEF Ports!JobsAreKept, Local!JobsAreKept, Ports!Range, Local!Range
<1>8. Ports!EnqueueTellsTruth /\ Ports!JobsAreKept => QueuesKeepJobs
  BY <1>6, <1>7 DEF QueuesKeepJobs
<1>. QED  BY <1>1, <1>2, FlowTurns, LocalTurns, <1>4, <1>5, <1>8, PTL DEF Spec, Ports!Spec

Nest == INSTANCE AgentsProofs WITH
  Main <- MainRun, Nested <- NestedIds, Parks <- ParkIds, Parent <- ParentOf, Asker <- AskerOf,
  MaxDepth <- NestedDepth, MaxConcurrent <- NestedAtOnce, MaxSteps <- StepLimit,
  Failing <- FailingRuns, MaxCuts <- RunCuts,
  kept <- toolKept, rows <- usageRows, at <- loopAt, ledger <- spent

LEMMA AgentsMove == Agents!Next => Nest!Next
<1>1. ASSUME NEW x \in Agents!Agents, NEW some PROVE Agents!Asks(x, some) => Nest!Asks(x, some)
  BY ZenonT(60) DEF Agents!durable, Nest!durable, Agents!counted, Nest!counted, Agents!Calls,
         Nest!Calls, Agents!CallsOf, Nest!CallsOf, Agents!Asked, Nest!Asked, Agents!Fresh,
         Nest!Fresh, Agents!Asks, Nest!Asks, Agents!Cardinality, Nest!Cardinality
<1>2. ASSUME NEW x \in Agents!Agents PROVE Agents!SavesTools(x) => Nest!SavesTools(x)
  BY ZenonT(60) DEF Agents!counted, Nest!counted, Agents!Calls, Nest!Calls, Agents!CallsOf,
         Nest!CallsOf, Agents!InStep, Nest!InStep, Agents!Committed, Nest!Committed,
         Agents!Exhausted, Nest!Exhausted, Agents!Saved, Nest!Saved, Agents!SavesTools,
         Nest!SavesTools
<1>3. ASSUME NEW x \in Agents!Agents PROVE Agents!Answers(x) => Nest!Answers(x)
  BY ZenonT(60) DEF Agents!counted, Nest!counted, Agents!Calls, Nest!Calls, Agents!CallsOf,
         Nest!CallsOf, Agents!InStep, Nest!InStep, Agents!Committed, Nest!Committed,
         Agents!Exhausted, Nest!Exhausted, Agents!Saved, Nest!Saved, Agents!Answers,
         Nest!Answers
<1>4. ASSUME NEW x \in Agents!Agents PROVE Agents!Fails(x) => Nest!Fails(x)
  BY ZenonT(60) DEF Agents!Agents, Nest!Agents, Agents!Calls, Nest!Calls, Agents!CallsOf, Nest!CallsOf,
         Agents!Above, Nest!Above, Agents!Only, Nest!Only, Agents!Cut, Nest!Cut,
         Agents!Under, Nest!Under, Agents!CutRecords, Nest!CutRecords, Agents!Billed,
         Nest!Billed, Agents!Fails, Nest!Fails, Agents!Cardinality, Nest!Cardinality
<1>5. ASSUME NEW n \in NestedIds PROVE Agents!Spawn(n) => Nest!Spawn(n)
  BY ZenonT(60) DEF Agents!Agents, Nest!Agents, Agents!Above, Nest!Above, Agents!Depth, Nest!Depth,
         Agents!Enter, Nest!Enter, Agents!Holders, Nest!Holders, Agents!Room, Nest!Room,
         Agents!Runs, Nest!Runs, Agents!Spawn, Nest!Spawn, Agents!Cardinality,
         Nest!Cardinality
<1>6. ASSUME NEW n \in NestedIds PROVE Agents!Returns(n) => Nest!Returns(n)
  BY ZenonT(60) DEF Agents!counted, Nest!counted, Agents!Closed, Nest!Closed, Agents!Returns,
         Nest!Returns
<1>7. ASSUME NEW d PROVE Agents!Granted(d) => Nest!Granted(d)
  BY ZenonT(60) DEF Agents!Agents, Nest!Agents, Agents!Above, Nest!Above, Agents!Depth, Nest!Depth,
         Agents!Enter, Nest!Enter, Agents!Holders, Nest!Holders, Agents!Room, Nest!Room,
         Agents!Runs, Nest!Runs, Agents!Granted, Nest!Granted, Agents!Cardinality,
         Nest!Cardinality
<1>8. Agents!Begins => Nest!Begins
  BY ZenonT(60) DEF Agents!durable, Nest!durable, Agents!Seed, Nest!Seed, Agents!StartLoop,
         Nest!StartLoop, Agents!Begins, Nest!Begins
<1>9. Agents!Resumes => Nest!Resumes
  BY ZenonT(60) DEF Agents!durable, Nest!durable, Agents!counted, Nest!counted, Agents!Agents,
         Nest!Agents, Agents!Above, Nest!Above, Agents!Frames, Nest!Frames, Agents!Only,
         Nest!Only, Agents!Seed, Nest!Seed, Agents!Waiting, Nest!Waiting, Agents!First,
         Nest!First, Agents!IsOpen, Nest!IsOpen, Agents!OpenHitls, Nest!OpenHitls,
         Agents!Ready, Nest!Ready, Agents!Resumes, Nest!Resumes
<1>10. Agents!Ends => Nest!Ends
  BY ZenonT(60) DEF Agents!counted, Nest!counted, Agents!Agents, Nest!Agents, Agents!Calls, Nest!Calls,
         Agents!None, Nest!None, Agents!Gone, Nest!Gone, Agents!Ends, Nest!Ends
<1>11. Agents!ToolRuns => Nest!ToolRuns
  BY ZenonT(60) DEF Agents!counted, Nest!counted, Agents!Now, Nest!Now, Agents!MustRun, Nest!MustRun,
         Agents!ToolRuns, Nest!ToolRuns
<1>12. Agents!ToolKept => Nest!ToolKept
  BY ZenonT(60) DEF Agents!counted, Nest!counted, Agents!Now, Nest!Now, Agents!ToolKept, Nest!ToolKept
<1>13. Agents!Lands => Nest!Lands
  BY ZenonT(60) DEF Agents!counted, Nest!counted, Agents!Now, Nest!Now, Agents!MustRun, Nest!MustRun,
         Agents!Lands, Nest!Lands
<1>14. Agents!Clears => Nest!Clears
  BY ZenonT(60) DEF Agents!counted, Nest!counted, Agents!Now, Nest!Now, Agents!Clears, Nest!Clears
<1>15. Agents!Reenters => Nest!Reenters
  BY ZenonT(60) DEF Agents!durable, Nest!durable, Agents!Agents, Nest!Agents, Agents!Above, Nest!Above,
         Agents!Frames, Nest!Frames, Agents!Enter, Nest!Enter, Agents!Now, Nest!Now,
         Agents!Frame, Nest!Frame, Agents!AtFrame, Nest!AtFrame, Agents!Reenters,
         Nest!Reenters
<1>16. Agents!Closes => Nest!Closes
  BY ZenonT(60) DEF Agents!counted, Nest!counted, Agents!Agents, Nest!Agents, Agents!Above, Nest!Above,
         Agents!Frames, Nest!Frames, Agents!Closed, Nest!Closed, Agents!Now, Nest!Now,
         Agents!Frame, Nest!Frame, Agents!AtFrame, Nest!AtFrame, Agents!Closes, Nest!Closes
<1>17. Agents!Hands => Nest!Hands
  BY ZenonT(60) DEF Agents!counted, Nest!counted, Agents!Agents, Nest!Agents, Agents!Above, Nest!Above,
         Agents!Frames, Nest!Frames, Agents!Now, Nest!Now, Agents!Frame, Nest!Frame,
         Agents!Hands, Nest!Hands
<1>18. Agents!ParksAgain => Nest!ParksAgain
  BY ZenonT(60) DEF Agents!counted, Nest!counted, Agents!Agents, Nest!Agents, Agents!Calls, Nest!Calls,
         Agents!Above, Nest!Above, Agents!Frames, Nest!Frames, Agents!None, Nest!None,
         Agents!Gone, Nest!Gone, Agents!Now, Nest!Now, Agents!Frame, Nest!Frame,
         Agents!AtFrame, Nest!AtFrame, Agents!ParksAgain, Nest!ParksAgain
<1>19. Agents!NextPark => Nest!NextPark
  BY ZenonT(60) DEF Agents!durable, Nest!durable, Agents!counted, Nest!counted, Agents!Agents,
         Nest!Agents, Agents!Above, Nest!Above, Agents!Frames, Nest!Frames, Agents!Now,
         Nest!Now, Agents!NextPark, Nest!NextPark
<1>20. Agents!Unwound => Nest!Unwound
  BY ZenonT(60) DEF Agents!StartLoop, Nest!StartLoop, Agents!Unwound, Nest!Unwound
<1>21. Agents!Dies => Nest!Dies
  BY ZenonT(60) DEF Agents!durable, Nest!durable, Agents!Agents, Nest!Agents, Agents!Calls, Nest!Calls,
         Agents!None, Nest!None, Agents!Cut, Nest!Cut, Agents!Gone, Nest!Gone, Agents!Dies,
         Nest!Dies
<1>22. Agents!MainFails => Nest!MainFails
  BY ZenonT(60) DEF Agents!Agents, Nest!Agents, Agents!Calls, Nest!Calls, Agents!Above, Nest!Above,
         Agents!None, Nest!None, Agents!Cut, Nest!Cut, Agents!Under, Nest!Under,
         Agents!CutRecords, Nest!CutRecords, Agents!Billed, Nest!Billed, Agents!Gone,
         Nest!Gone, Agents!MainFails, Nest!MainFails, Agents!Cardinality, Nest!Cardinality
<1>23. Agents!StopsLoop => Nest!StopsLoop
  BY ZenonT(60) DEF Agents!Agents, Nest!Agents, Agents!Calls, Nest!Calls, Agents!Above, Nest!Above,
         Agents!None, Nest!None, Agents!Cut, Nest!Cut, Agents!Under, Nest!Under,
         Agents!CutRecords, Nest!CutRecords, Agents!Billed, Nest!Billed, Agents!Gone,
         Nest!Gone, Agents!StopsLoop, Nest!StopsLoop, Agents!Cardinality, Nest!Cardinality
<1>24. Agents!StopsParked => Nest!StopsParked
  BY ZenonT(60) DEF Agents!memory, Nest!memory, Agents!Agents, Nest!Agents, Agents!Calls, Nest!Calls,
         Agents!Above, Nest!Above, Agents!Frames, Nest!Frames, Agents!Only, Nest!Only,
         Agents!Cut, Nest!Cut, Agents!Waiting, Nest!Waiting, Agents!First, Nest!First,
         Agents!IsOpen, Nest!IsOpen, Agents!OpenHitls, Nest!OpenHitls, Agents!StopsParked,
         Nest!StopsParked
<1>25. ASSUME NEW p, NEW v PROVE Agents!Verdict(p, v) => Nest!Verdict(p, v)
  BY ZenonT(60) DEF Agents!memory, Nest!memory, Agents!counted, Nest!counted, Agents!Verdict,
         Nest!Verdict
<1>. QED
  BY <1>1, <1>2, <1>3, <1>4, <1>5, <1>6, <1>7, <1>8, <1>9, <1>10, <1>11, <1>12, <1>13,
      <1>14, <1>15, <1>16, <1>17, <1>18, <1>19, <1>20, <1>21, <1>22, <1>23, <1>24, <1>25, ZenonT(60)
  DEF Agents!Next, Nest!Next, Agents!Agents, Nest!Agents, Agents!CallsOf, Nest!CallsOf

LEMMA AgentsTurn == [Next]_vars => [Nest!Next]_(Nest!vars)
<1>1. CASE Next
  BY <1>1, AgentsMove DEF Next, agentVars, runners, Nest!vars, Nest!durable, Nest!memory, Nest!counted
<1>2. CASE UNCHANGED vars
  BY <1>2 DEF vars, agentVars, runners, Nest!vars, Nest!durable, Nest!memory, Nest!counted
<1>. QED  BY <1>1, <1>2

LEMMA AgentsStart == Init => Nest!Init
  BY ZenonT(60) DEF Init, Agents!Agents, Nest!Agents, Agents!Calls, Nest!Calls, Agents!None, Nest!None,
         Agents!Init, Nest!Init

\* A run and all the agents it nests have one budget, whatever is spawned, parked, resumed, cut
\* and redelivered: past it, each loop that was entered finishes at most the step it was in
\* (core/usage.ts, RunLedger; core/loop.ts).
THEOREM ServiceSpendBounded ==
  ASSUME IsFiniteSet(NestedIds), Budget \in Nat \ {0}
  PROVE  Spec => []SpendBounded
<1>1. Nest!Spec => []Nest!SpendBounded
  <2>1. Nest!IsFiniteSet(NestedIds)
    BY DEF IsFiniteSet, Nest!IsFiniteSet
  <2>. QED  BY <2>1, Nest!SpendStaysBounded
<1>2. Nest!SpendBounded => SpendBounded
  BY DEF SpendBounded, Nest!SpendBounded, Agents!SpendBounded
<1>. QED  BY AgentsStart, AgentsTurn, <1>1, <1>2, PTL DEF Spec, Nest!Spec

\* However deep agents delegate and however few of a depth may run at once, a worker's loops
\* never all wait for each other (core/subagent.ts, RunSlots).
THEOREM ServiceNobodyStuck ==
  ASSUME Nest!SpawnTree, NestedDepth \in Nat, NestedAtOnce \in Nat \ {0}
  PROVE  Spec => []NobodyStuck
<1>1. Nest!Spec => []Nest!NobodyStuck
  BY Nest!NeverStuck
<1>2. Nest!NobodyStuck => NobodyStuck
  BY ZenonT(60) DEF NobodyStuck, Agents!Agents, Nest!Agents, Agents!CallsOf, Nest!CallsOf, Agents!Above, Nest!Above,
         Agents!Depth, Nest!Depth, Agents!InStep, Nest!InStep, Agents!Holders, Nest!Holders,
         Agents!Room, Nest!Room, Agents!NobodyStuck, Nest!NobodyStuck, Agents!Cardinality,
         Nest!Cardinality
<1>. QED  BY AgentsStart, AgentsTurn, <1>1, <1>2, PTL DEF Spec, Nest!Spec

\* However often its segment is redelivered an approved tool runs once, and once more only for a
\* worker that died when it had returned and its output was not kept; and until it has its
\* result every other request of the run has its answer (core/engine.ts, resumePendingHitl).
THEOREM ServiceToolsRunOnce ==
  ASSUME Nest!SpawnTree, NestedDepth \in Nat
  PROVE  Spec => []ToolRunsOnce
<1>1. Nest!Spec => []Nest!ToolRunsOnce
  BY Nest!ToolsRunOnce
<1>2. Nest!ToolRunsOnce => ToolRunsOnce
  BY ZenonT(60) DEF ToolRunsOnce, Nest!ToolRunsOnce, Agents!ToolRunsOnce
<1>. QED  BY AgentsStart, AgentsTurn, <1>1, <1>2, PTL DEF Spec, Nest!Spec

\* While no two requests of a run wait in one nested run and every request is of a call in the
\* history, no call has two results, though a step, an unwind that was cut and comes again and a
\* stop of a parked run all write them (core/loop.ts, core/engine.ts, core/stop.ts).
THEOREM ServiceCallsAnsweredOnce ==
  ASSUME Nest!SpawnTree, NestedDepth \in Nat
  PROVE  Spec => []CallsAnsweredOnce
<1>1. Nest!Spec => []Nest!CallsAnsweredOnce
  BY Nest!CallsAnswerOnce
<1>2. Nest!CallsAnsweredOnce => CallsAnsweredOnce
  BY ZenonT(60) DEF CallsAnsweredOnce, Nest!CallsAnsweredOnce, Agents!CallsAnsweredOnce,
                    Nest!Apart, Agents!Apart, Nest!RequestsAreCalls, Agents!RequestsAreCalls,
                    Nest!EveryCallAnsweredOnce, Agents!EveryCallAnsweredOnce,
                    Nest!Frames, Agents!Frames, Nest!Above, Agents!Above, Nest!Agents, Agents!Agents,
                    Nest!Calls, Agents!Calls
<1>. QED  BY AgentsStart, AgentsTurn, <1>1, <1>2, PTL DEF Spec, Nest!Spec

\* With no worker, on a run of which no loop was cut under another and whose requests share no
\* nested run, the records that are RUNNING are those of the nested runs between an open request
\* and the main agent: what parks keeps its record, what an unwind or a stop is done with has it
\* closed (core/subagent.ts, core/engine.ts, core/stop.ts).
THEOREM ServiceRecordsMatchParks ==
  ASSUME Nest!SpawnTree, NestedDepth \in Nat
  PROVE  Spec => []RecordsMatchParks
<1>1. Nest!Spec => []Nest!RecordsMatchParks
  BY Nest!RecordsStandForParks
<1>2. Nest!RecordsMatchParks => RecordsMatchParks
  BY ZenonT(60) DEF RecordsMatchParks, Nest!RecordsMatchParks, Agents!RecordsMatchParks,
                    Nest!Apart, Agents!Apart, Nest!RequestsAreCalls, Agents!RequestsAreCalls,
                    Nest!Frames, Agents!Frames, Nest!Above, Agents!Above, Nest!Agents, Agents!Agents
<1>. QED  BY AgentsStart, AgentsTurn, <1>1, <1>2, PTL DEF Spec, Nest!Spec
=============================================================================
