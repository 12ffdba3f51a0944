----------------------------- MODULE ThreadStore -----------------------------
(***************************************************************************)
(* A thread's rows over each storage adapter (adapters/memory.ts,          *)
(* adapters/sqlite.ts, adapters/prisma.ts): the entries of its record and  *)
(* the seq each is given, the events an older release left, which          *)
(* pruneEvents deletes (core/prune.ts), and the delete of the thread with  *)
(* all it owns (core/deleteThread.ts), beside the runs that use it: the    *)
(* process that dispatches one (core/run.ts), the worker that executes it  *)
(* (core/engine.ts) and the stop that ends it (core/stop.ts).              *)
(***************************************************************************)
EXTENDS Naturals, FiniteSets, FiniteSetsExt

CONSTANTS
  Stores,      \* the adapters looked at
  Runs,        \* the runs dispatched
  Batch,       \* PruneOptions.batchSize
  Tries,       \* the attempts of a prisma append, ten in the code
  MaxEntries,  \* bound on the seqs
  MaxCuts      \* bound on the deletes that die on their way

VARIABLES
  db,        \* the adapter
  row,       \* the thread's row: there, its state, its run
  entries,   \* its record, as [seq, type, run]
  messages,  \* the runs that have a message on it
  bills,     \* the runs that have a usage row on it
  records,   \* the admin store's runs: "none", "open" or "closed"
  streams,   \* the run streams there are
  hot,       \* the runs whose moves the kv shows: the thread's keys and their own
  at,        \* per run, where its process stands: its dispatch, then its worker
  stopping,  \* the run a stop has moved the row of and not the rest; 0: none
  writer,    \* where the appends of the worker and of the app stand
  pruning,   \* the rows a prune has read and not deleted yet
  deleting,  \* where the delete stands
  named,     \* the streams the delete found in the record
  late,      \* the runs that were at work when the delete looked, or came after
  unnamed,   \* the streams no entry could be stored for
  highest,   \* the highest seq given; 0 once the newest entry has been deleted
  again,     \* a seq was given a second time, with the newest entry still there
  cut        \* deletes that died

store == <<row, entries, messages, bills, records, streams, hot>>
marks == <<late, unnamed, highest, again, cut>>
vars == <<db, store, at, stopping, writer, pruning, deleting, named, marks>>

Writers == {"worker", "app"}

Old == "STATE_CHANGE"   \* one of STREAM_ONLY_TYPES
Kept == "RUN_STARTED"
Ended == "RUN_ENDED"

NoWriter == [at |-> "idle", top |-> 0, tries |-> 0, type |-> Kept, run |-> 0]

Init ==
  /\ db \in Stores
  /\ row = [there |-> TRUE, state |-> "IDLE", run |-> 0]
  /\ \E types \in [1..2 -> {Old, Kept}] :
       entries = {[seq |-> i, type |-> types[i], run |-> 0] : i \in 1..2}
  /\ messages = {} /\ bills = {} /\ streams = {} /\ hot = {}
  /\ records = [r \in Runs |-> "none"]
  /\ at = [r \in Runs |-> "new"]
  /\ stopping = 0
  /\ writer = [w \in Writers |-> NoWriter]
  /\ pruning = {} /\ deleting = "no" /\ named = {}
  /\ late = {} /\ unnamed = {}
  /\ highest = 2 /\ again = FALSE
  /\ cut = 0

---------------------------------------------------------------------------
(* The record *)

\* The thread's next seq is one above the highest it holds.
TopOf(es) == Max({e.seq : e \in es} \cup {0})

Put(seq, type, r) ==
  /\ entries' = entries \cup {[seq |-> seq, type |-> type, run |-> r]}
  /\ highest' = IF highest = 0 THEN 0 ELSE Max({highest, seq})
  /\ again' = (again \/ (highest # 0 /\ seq <= highest))

\* The top is read and the entry put above it in one step, whether or not the thread is there.
AppendsAtOnce(w, type, r) ==
  /\ Put(TopOf(entries) + 1, type, r)
  /\ writer' = [writer EXCEPT ![w] = [NoWriter EXCEPT !.at = "done"]]

MemoryAppends(w, type, r) == db = "memory" /\ AppendsAtOnce(w, type, r)
SqliteAppends(w, type, r) == db = "sqlite" /\ AppendsAtOnce(w, type, r)

\* prisma reads the top first.
PrismaAppends(w, type, r) ==
  /\ db = "prisma"
  /\ writer' = [writer EXCEPT ![w] = [at |-> "top", top |-> TopOf(entries), tries |-> 1,
                                     type |-> type, run |-> r]]
  /\ UNCHANGED <<entries, highest, again>>

Appends(w, type, r) ==
  /\ writer[w].at = "idle"
  /\ TopOf(entries) < MaxEntries
  /\ MemoryAppends(w, type, r) \/ SqliteAppends(w, type, r) \/ PrismaAppends(w, type, r)

Returns(w) == writer' = [writer EXCEPT ![w] = NoWriter]

\* The unique index refuses a seq that is taken, and the append reads the top
\* again; the foreign key refuses an entry of a thread that is gone.
Inserts(w) ==
  LET me == writer[w]
      taken == \E e \in entries : e.seq = me.top + 1 IN
  /\ me.at = "top"
  /\ IF ~row.there \/ (taken /\ me.tries = Tries)
     THEN /\ writer' = [writer EXCEPT ![w] = [NoWriter EXCEPT !.at = "threw"]]
          /\ UNCHANGED <<entries, highest, again>>
     ELSE IF taken
     THEN /\ writer' = [writer EXCEPT ![w].top = TopOf(entries), ![w].tries = @ + 1]
          /\ UNCHANGED <<entries, highest, again>>
     ELSE /\ Put(me.top + 1, me.type, me.run)
          /\ writer' = [writer EXCEPT ![w] = [NoWriter EXCEPT !.at = "done"]]
  /\ UNCHANGED <<db, row, messages, bills, records, streams, hot, at, stopping, pruning, deleting,
                 named, late, unnamed, cut>>

\* An app publishes an event of its own, on a thread it has.
Publishes ==
  /\ row.there
  /\ Appends("app", "app", 0)
  /\ UNCHANGED <<db, row, messages, bills, records, streams, hot, at, stopping, pruning, deleting,
                 named, late, unnamed, cut>>

AppReturns ==
  /\ writer["app"].at \in {"done", "threw"}
  /\ Returns("app")
  /\ UNCHANGED <<db, store, at, stopping, pruning, deleting, named, marks>>

Prunable == {e \in entries : e.type = Old}

\* A batch is so many rows.
Batches ==
  {some \in SUBSET Prunable : some # {} /\ Cardinality(some) = Min({Batch, Cardinality(Prunable)})}

\* Rows go.  The store mints the next seq from what is left.
Takes(some) ==
  /\ entries' = entries \ some
  /\ highest' = IF \E e \in entries \ some : e.seq = highest THEN highest ELSE 0

MemoryPrunes == db = "memory" /\ \E some \in Batches : Takes(some) /\ UNCHANGED pruning

\* Their ids are read, then they are deleted.
SqlitePrunes == db = "sqlite" /\ \E some \in Batches : pruning' = some /\ UNCHANGED <<entries, highest>>
PrismaPrunes == db = "prisma" /\ \E some \in Batches : pruning' = some /\ UNCHANGED <<entries, highest>>

Prunes ==
  /\ pruning = {}
  /\ MemoryPrunes \/ SqlitePrunes \/ PrismaPrunes
  /\ UNCHANGED <<db, row, messages, bills, records, streams, hot, at, stopping, writer, deleting,
                 named, late, unnamed, again, cut>>

PruneDeletes ==
  /\ pruning # {}
  /\ Takes(pruning)
  /\ pruning' = {}
  /\ UNCHANGED <<db, row, messages, bills, records, streams, hot, at, stopping, writer, deleting,
                 named, late, unnamed, again, cut>>

---------------------------------------------------------------------------
(* The runs *)

Active == {"QUEUED", "RUNNING"}

Midway == deleting \notin {"no", "deleted", "refused"}

\* transition: the thread is in a state of from, and no other run is its current one.
Transition(from, r, to) ==
  /\ row.there /\ row.state \in from
  /\ row.run \in {0, r} \/ to = "QUEUED"
  /\ row' = [row EXCEPT !.state = to, !.run = r]

MemoryMoves(from, r, to) == db = "memory" /\ Transition(from, r, to)
SqliteMoves(from, r, to) == db = "sqlite" /\ Transition(from, r, to)
PrismaMoves(from, r, to) == db = "prisma" /\ Transition(from, r, to)

Moves(from, r, to) == MemoryMoves(from, r, to) \/ SqliteMoves(from, r, to) \/ PrismaMoves(from, r, to)

\* The thread is in this state, for this run.
Has(r, state) == row.there /\ row.run = r /\ row.state = state

Closed(r) == [records EXCEPT ![r] = IF @ = "open" THEN "closed" ELSE @]

\* A message of a run.  prisma has no row for one of a thread that is gone.
MemorySays(r) == db = "memory" /\ messages' = messages \cup {r}
SqliteSays(r) == db = "sqlite" /\ messages' = messages \cup {r}
PrismaSays(r) == db = "prisma" /\ messages' = IF row.there THEN messages \cup {r} ELSE messages

Says(r) == MemorySays(r) \/ SqliteSays(r) \/ PrismaSays(r)

\* The usage row of a call of it.
MemoryBills(r) == db = "memory" /\ bills' = bills \cup {r}
SqliteBills(r) == db = "sqlite" /\ bills' = bills \cup {r}
PrismaBills(r) == db = "prisma" /\ bills' = IF row.there THEN bills \cup {r} ELSE bills

Bills(r) == MemoryBills(r) \/ SqliteBills(r) \/ PrismaBills(r)

\* A dispatch or a worker that has this run in hand.
AtWork(r) == at[r] \notin {"new", "queued", "over"}

\* A worker in its segment has the run lock, which the delete removes.
InSegment == {"begun", "opened", "working", "ended", "lost", "closing"}

Unlocked(r) == deleting = "deleted" \/ \A s \in Runs \ {r} : at[s] \notin InSegment

\* The compare-and-set of a send.
Claims(r) ==
  /\ at[r] = "new"
  /\ Moves({"IDLE", "ENDED"}, r, "QUEUED")
  /\ at' = [at EXCEPT ![r] = "claimed"]
  /\ late' = IF Midway THEN late \cup {r} ELSE late
  /\ UNCHANGED <<db, entries, messages, bills, records, streams, hot, stopping, writer, pruning,
                 deleting, named, unnamed, highest, again, cut>>

\* The hot keys and the run's record.
Installs(r) ==
  /\ at[r] = "claimed"
  /\ at' = [at EXCEPT ![r] = "installed"]
  /\ hot' = hot \cup {r}
  /\ records' = [records EXCEPT ![r] = "open"]
  /\ UNCHANGED <<db, row, entries, messages, bills, streams, stopping, writer, pruning, deleting,
                 named, marks>>

\* dispatchActive, before the turn is saved and before the job is queued.
Checks(r) ==
  /\ at[r] \in {"installed", "turned"}
  /\ IF Has(r, "QUEUED")
     THEN /\ at' = [at EXCEPT ![r] = IF @ = "installed" THEN "turn" ELSE "queued"]
          /\ UNCHANGED <<records, hot>>
     ELSE /\ at' = [at EXCEPT ![r] = "over"]
          /\ records' = Closed(r)
          /\ hot' = IF Has(r, "ENDED") THEN hot \cup {r} ELSE hot
  /\ UNCHANGED <<db, row, entries, messages, bills, streams, stopping, writer, pruning, deleting,
                 named, marks>>

\* The user's turn.
SavesTurn(r) ==
  /\ at[r] = "turn"
  /\ Says(r)
  /\ at' = [at EXCEPT ![r] = IF r \in messages' THEN "turned" ELSE "over"]
  /\ UNCHANGED <<db, row, entries, bills, records, streams, hot, stopping, writer, pruning, deleting,
                 named, marks>>

\* A job of a run that has been stopped or replaced, or whose thread is gone.
Skips(r) ==
  /\ at[r] = "queued" /\ Unlocked(r)
  /\ ~Has(r, "QUEUED")
  /\ at' = [at EXCEPT ![r] = "over"]
  /\ records' = IF Has(r, "ENDED") THEN records ELSE Closed(r)
  /\ UNCHANGED <<db, row, entries, messages, bills, streams, hot, stopping, writer, pruning, deleting,
                 named, marks>>

\* The pickup of a job.
Begins(r) ==
  /\ at[r] = "queued" /\ Unlocked(r)
  /\ Moves({"QUEUED"}, r, "RUNNING")
  /\ at' = [at EXCEPT ![r] = "begun"]
  /\ UNCHANGED <<db, entries, messages, bills, records, streams, hot, stopping, writer, pruning,
                 deleting, named, marks>>

\* The segment's stream is opened, and the record is to name it.
Opens(r) ==
  /\ at[r] = "begun"
  /\ at' = [at EXCEPT ![r] = "opened"]
  /\ streams' = streams \cup {r}
  /\ hot' = hot \cup {r}
  /\ Appends("worker", Kept, r)
  /\ UNCHANGED <<db, row, messages, bills, records, stopping, pruning, deleting, named, late, unnamed,
                 cut>>

\* The step: what it says, unless the poller saw a stop and cut it, and its usage.
\* A stream whose RUN_STARTED could not be stored is left as it is.
Goes(r) ==
  /\ at[r] = "opened"
  /\ writer["worker"].at \in {"done", "threw"}
  /\ at' = [at EXCEPT ![r] = "working"]
  /\ Says(r) \/ (~Has(r, "RUNNING") /\ UNCHANGED messages)
  /\ Bills(r)
  /\ unnamed' = IF writer["worker"].at = "threw" THEN unnamed \cup {r} ELSE unnamed
  /\ Returns("worker")
  /\ UNCHANGED <<db, row, entries, records, streams, hot, stopping, pruning, deleting, named, late,
                 highest, again, cut>>

\* finalize moves the thread, if it still runs this run.
Ends(r) ==
  /\ at[r] = "working"
  /\ IF Has(r, "RUNNING")
     THEN /\ Moves({"RUNNING"}, r, "ENDED")
          /\ at' = [at EXCEPT ![r] = "ended"]
     ELSE /\ at' = [at EXCEPT ![r] = "lost"]
          /\ UNCHANGED row
  /\ UNCHANGED <<db, entries, messages, bills, records, streams, hot, stopping, writer, pruning,
                 deleting, named, marks>>

\* The hot keys, if it moved, the run's record, and the end of the segment.
Closes(r) ==
  /\ at[r] \in {"ended", "lost"}
  /\ hot' = IF at[r] = "ended" THEN hot \cup {r} ELSE hot
  /\ records' = Closed(r)
  /\ at' = [at EXCEPT ![r] = "closing"]
  /\ IF r \in unnamed
     THEN UNCHANGED <<entries, highest, again, writer>>
     ELSE Appends("worker", Ended, r)
  /\ UNCHANGED <<db, row, messages, bills, streams, stopping, pruning, deleting, named, late, unnamed,
                 cut>>

Finishes(r) ==
  /\ at[r] = "closing"
  /\ writer["worker"].at # "top"
  /\ at' = [at EXCEPT ![r] = "over"]
  /\ Returns("worker")
  /\ UNCHANGED <<db, store, stopping, pruning, deleting, named, marks>>

\* stop ends the run the kv names as the thread's: before the first is installed it names none.
Stops ==
  /\ stopping = 0
  /\ row.there /\ row.state \in Active
  /\ at[row.run] = "claimed" => \A r \in Runs : at[r] \in {"new", "claimed"}
  /\ row' = [row EXCEPT !.state = "ENDED"]
  /\ stopping' = row.run
  /\ UNCHANGED <<db, entries, messages, bills, records, streams, hot, at, writer, pruning, deleting,
                 named, marks>>

\* The rest of it; an error of the admin store is let be.
StopWrites ==
  /\ stopping # 0
  /\ hot' = hot \cup {stopping}
  /\ records' \in {records, Closed(stopping)}
  /\ stopping' = 0
  /\ UNCHANGED <<db, row, entries, messages, bills, streams, at, writer, pruning, deleting, named,
                 marks>>

---------------------------------------------------------------------------
(* The delete *)

\* The guard is on the row's state alone.
Deletes ==
  /\ deleting \in {"no", "refused"}
  /\ row.there
  /\ IF row.state \in Active
     THEN deleting' = "refused" /\ UNCHANGED late
     ELSE /\ deleting' = "records"
          /\ late' = {r \in Runs : AtWork(r) \/ stopping = r}
  /\ UNCHANGED <<db, store, at, stopping, writer, pruning, named, unnamed, highest, again, cut>>

\* Runs whose record is open are closed, then the record is read for their streams.
ClosesRecords ==
  /\ deleting = "records"
  /\ records' = [r \in Runs |-> IF records[r] = "open" THEN "closed" ELSE records[r]]
  /\ deleting' = "streams"
  /\ UNCHANGED <<db, row, entries, messages, bills, streams, hot, at, stopping, writer, pruning, named,
                 marks>>

NamesLate ==   \* mutant
  /\ deleting = "streams"
  /\ named' = {e.run : e \in {x \in entries : x.type = Kept /\ ~row.there}} \ {0}
  /\ deleting' = "cascade"
  /\ UNCHANGED <<db, store, at, stopping, writer, pruning, marks>>

NamesStreams ==
  /\ deleting = "streams"
  /\ named' = {e.run : e \in {x \in entries : x.type = Kept}} \ {0}
  /\ deleting' = "cascade"
  /\ UNCHANGED <<db, store, at, stopping, writer, pruning, marks>>

\* The row and all that hangs on it.
Cascade ==
  /\ row.there
  /\ row' = [row EXCEPT !.there = FALSE]
  /\ Takes(entries)
  /\ messages' = {}
  /\ bills' = {}

MemoryDeletes == db = "memory" /\ Cascade   \* no await in between
SqliteDeletes == db = "sqlite" /\ Cascade   \* one transaction
PrismaDeletes == db = "prisma" /\ Cascade   \* one delete that cascades

Cascades ==
  /\ deleting = "cascade"
  /\ MemoryDeletes \/ SqliteDeletes \/ PrismaDeletes
  /\ deleting' = "rest"
  /\ UNCHANGED <<db, records, streams, hot, at, stopping, writer, pruning, named, late, unnamed, again,
                 cut>>

\* What the storage does not hold: the streams, the admin store's history and
\* the keys of the kv, one after another: what a run at work wrote meanwhile may stay.
DeletesRest ==
  /\ deleting = "rest"
  /\ streams' = streams \ named
  /\ records' = [r \in Runs |-> "none"]
  /\ hot' \in SUBSET (hot \cap late)
  /\ deleting' = "deleted"
  /\ UNCHANGED <<db, row, entries, messages, bills, at, stopping, writer, pruning, named, marks>>

\* The caller dies: the delete can be asked for again while the thread is there.
DeleteDies ==
  /\ Midway
  /\ cut < MaxCuts
  /\ cut' = cut + 1
  /\ deleting' = "no"
  /\ late' = {}
  /\ UNCHANGED <<db, store, at, stopping, writer, pruning, named, unnamed, highest, again>>

---------------------------------------------------------------------------

Next ==
  \/ \E w \in Writers : Inserts(w)
  \/ Publishes
  \/ AppReturns
  \/ Prunes
  \/ PruneDeletes
  \/ \E r \in Runs :
       \/ Claims(r) \/ Installs(r) \/ Checks(r) \/ SavesTurn(r) \/ Skips(r)
       \/ Begins(r) \/ Opens(r) \/ Goes(r) \/ Ends(r) \/ Closes(r) \/ Finishes(r)
  \/ Stops
  \/ StopWrites
  \/ Deletes
  \/ ClosesRecords
  \/ NamesStreams
  \/ Cascades
  \/ DeletesRest
  \/ DeleteDies

Spec == Init /\ [][Next]_vars

---------------------------------------------------------------------------

\* Two entries of a thread never have one seq, whatever appends, prunes and
\* deletes run beside each other (ports/storage.ts:83-84).
OneEntryPerSeq ==
  \A e, f \in entries : e.seq = f.seq => e = f

\* No seq is minted that is not above every seq minted before it: a client's cursor is one
\* (docs/ports-and-adapters.md:400).  Left out: a record whose newest entry has been
\* pruned, or deleted with the thread, where the next entry takes its seq.
SeqsNeverRepeat == ~again

\* A thread whose delete was accepted and went through leaves nothing behind, no
\* entry, message, bill, stream, run or hot key, whatever else was writing, but for what runs
\* wrote that were at work when the delete looked or took the thread after it did, and the
\* stream of a run whose start could not be stored.  A run that was stopped is at
\* work until its worker has seen that (core/deleteThread.ts:9-18).  prisma refuses such a
\* run its rows.
DeletedIsGone ==
  deleting = "deleted" =>
    /\ {e.run : e \in entries} \cup messages \cup bills \cup hot \subseteq late
    /\ {r \in Runs : records[r] # "none"} \subseteq late
    /\ streams \subseteq late \cup unnamed
    /\ db = "prisma" => entries = {} /\ messages = {} /\ bills = {}
===========================================================================
