------------------------------ MODULE KvStores ------------------------------
\* One key of the hot store, as the four adapters keep it: MemoryKv (adapters/memory.ts),
\* SqliteKv (adapters/sqlite.ts), RedisKv and UpstashKv (adapters/redis.ts, upstash.ts).
\* The locks, markers and counters of the runtime are such keys. Redis and sqlite act in
\* one command, script or statement; MemoryKv awaits its own get() inside three of its
\* calls, so that another call can run between their read and their write.
EXTENDS Naturals

CONSTANTS
  Null,
  KvKinds,      \* the adapters to check
  KvCallers,    \* calls under way at once
  KvValues,     \* the values a call writes or expects
  MaxCalls      \* bounds the calls made

VARIABLES
  store,     \* the adapter
  cell,      \* Null, or what the store keeps: the value, and its expiry
             \* "never", "ahead" or "past" (a key no one has cleaned up yet)
  asked,     \* per caller, the call it is in
  saw,       \* per caller in one of those calls, what MemoryKv's get() returned, and when
  answer,    \* per caller, what its last call returned
  calls      \* calls made so far

kvVars == <<store, cell, asked, saw, answer, calls>>

Live(c) == c # Null /\ c.expiry # "past"
Value(c) == IF Live(c) THEN c.value ELSE Null
Server == store \in {"redis", "upstash"}
Done(b) == [done |-> b]
Count(n) == [count |-> n]
Kept(v, ttl) == [value |-> v, expiry |-> IF ttl THEN "ahead" ELSE "never"]

Calls ==
  [op : {"del", "incr"}]
  \cup [op : {"incrWithExpiry"}, ttl : {TRUE}]
  \cup [op : {"set", "setNew"}, value : KvValues, ttl : BOOLEAN]
  \cup [op : {"setIf"}, expected : KvValues, value : KvValues, ttl : BOOLEAN]
  \cup [op : {"delIf"}, expected : KvValues]

TwoStep(k) == store = "memory" /\ k.op \in {"setIf", "delIf", "incrWithExpiry"}

KvInit ==
  /\ store \in KvKinds
  /\ cell = Null
  /\ asked = [c \in KvCallers |-> Null]
  /\ saw = [c \in KvCallers |-> Null]
  /\ answer = [c \in KvCallers |-> Null]
  /\ calls = 0

\* A caller makes a call; MemoryKv's two-step ones read at once, and drop what expired.
Asks(c, k) ==
  /\ asked[c] = Null /\ calls < MaxCalls
  /\ asked' = [asked EXCEPT ![c] = k]
  /\ answer' = [answer EXCEPT ![c] = Null]
  /\ calls' = calls + 1
  /\ IF TwoStep(k)
     THEN /\ saw' = [saw EXCEPT ![c] = [value |-> Value(cell), turn |-> calls]]
          /\ cell' = IF Live(cell) THEN cell ELSE Null
     ELSE UNCHANGED <<saw, cell>>
  /\ UNCHANGED store

Returns(c, a, becomes) ==
  /\ cell' = becomes
  /\ answer' = [answer EXCEPT ![c] = a]
  /\ asked' = [asked EXCEPT ![c] = Null]
  /\ saw' = [saw EXCEPT ![c] = Null]
  /\ UNCHANGED <<store, calls>>

\* set: SET with or without EX, or the upsert.
Set(c) ==
  LET k == asked[c] IN k.op = "set" /\ Returns(c, Done(TRUE), Kept(k.value, k.ttl))

\* What a conditional write finds. An expired row counts as absent; with this mutant it
\* does not.
AbsentOnlyIfNone == cell = Null                                             \* mutant
Absent == ~Live(cell)

\* SET NX, and the upsert whose WHERE takes only an expired row.
SetNew(c) ==
  LET k == asked[c]
  IN  /\ k.op = "setNew"
      /\ IF Absent THEN Returns(c, Done(TRUE), Kept(k.value, k.ttl)) ELSE Returns(c, Done(FALSE), cell)

Del(c) == asked[c].op = "del" /\ Returns(c, Done(TRUE), Null)

\* What a compare sees: the server's value at this step, or for MemoryKv what it read.
Compared(c) == IF TwoStep(asked[c]) THEN saw[c].value ELSE Value(cell)

SetIf(c) ==
  LET k == asked[c]
  IN  /\ k.op = "setIf"
      /\ IF Compared(c) = k.expected
         THEN Returns(c, Done(TRUE), Kept(k.value, k.ttl)) ELSE Returns(c, Done(FALSE), cell)

\* SqliteKv's DELETE has no condition on the expiry: it also takes a row that expired.
DelIf(c) ==
  LET k == asked[c]
      held == IF store = "sqlite" THEN cell # Null /\ cell.value = k.expected
              ELSE Compared(c) = k.expected
  IN  /\ k.op = "delIf"
      /\ IF held THEN Returns(c, Done(TRUE), Null) ELSE Returns(c, Done(FALSE), cell)

\* INCR, and the upsert's CASE: a live counter keeps its expiry, a new one has none.
\* MemoryKv does not look at the expiry: it counts on in an entry that has expired.
Incr(c) ==
  /\ asked[c].op = "incr"
  /\ LET counts == IF store = "memory" THEN cell # Null ELSE Live(cell)
         n == IF counts THEN cell.value + 1 ELSE 1
     IN  Returns(c, Count(n), [value |-> n, expiry |-> IF counts THEN cell.expiry ELSE "never"])

\* incrWithExpiry stamps a counter that was new: the script when n = 1, the others when
\* nothing live was there. MemoryKv takes the expiry of what is in the map by then.
IncrWithExpiry(c) ==
  /\ asked[c].op = "incrWithExpiry"
  /\ LET was == Compared(c)
         n == IF was = Null THEN 1 ELSE was + 1
         new == IF Server THEN n = 1 ELSE was = Null
         lapses == IF cell = Null \/ (store # "memory" /\ ~Live(cell)) THEN "never" ELSE cell.expiry
     IN  Returns(c, Count(n), [value |-> n, expiry |-> IF new THEN "ahead" ELSE lapses])

\* Time passes a key's expiry; Redis drops the key by itself, the others keep it until
\* somebody reads or sweeps it.
Lapses ==
  /\ cell # Null /\ cell.expiry = "ahead"
  /\ cell' = IF Server THEN Null ELSE [cell EXCEPT !.expiry = "past"]
  /\ UNCHANGED <<store, asked, saw, answer, calls>>

\* Each adapter's calls, from its own code.
MemorySets(c) == store = "memory" /\ (Set(c) \/ SetNew(c))
MemoryDels(c) == store = "memory" /\ Del(c)
MemorySetsIf(c) == store = "memory" /\ SetIf(c)
MemoryDelsIf(c) == store = "memory" /\ DelIf(c)
MemoryStamps(c) == store = "memory" /\ IncrWithExpiry(c)
MemoryIncrs(c) == store = "memory" /\ Incr(c)

SqliteSets(c) == store = "sqlite" /\ (Set(c) \/ SetNew(c))
SqliteDels(c) == store = "sqlite" /\ Del(c)
SqliteIncrs(c) == store = "sqlite" /\ Incr(c)
SqliteStamps(c) == store = "sqlite" /\ IncrWithExpiry(c)
SqliteSetsIf(c) == store = "sqlite" /\ SetIf(c)
SqliteDelsIf(c) == store = "sqlite" /\ DelIf(c)

\* One command each, and one script for what compares or stamps.
RedisSets(c) == store = "redis" /\ (Set(c) \/ SetNew(c) \/ Del(c) \/ Incr(c))
RedisScripts(c) == store = "redis" /\ (SetIf(c) \/ DelIf(c) \/ IncrWithExpiry(c))
UpstashSets(c) == store = "upstash" /\ (Set(c) \/ SetNew(c) \/ Del(c) \/ Incr(c))
UpstashScripts(c) == store = "upstash" /\ (SetIf(c) \/ DelIf(c) \/ IncrWithExpiry(c))

\* MemoryKv's get() and its once-a-minute sweep drop what expired.
Sweeps ==
  /\ store = "memory" /\ cell # Null /\ cell.expiry = "past"
  /\ cell' = Null
  /\ UNCHANGED <<store, asked, saw, answer, calls>>

\* MemoryKv's callers go on in the order in which they read: each awaits once.
InTurn(c) ==
  \A d \in KvCallers : saw[c] # Null /\ saw[d] # Null => saw[c].turn <= saw[d].turn

Answered(c) ==
  /\ asked[c] # Null /\ InTurn(c)
  /\ \/ MemorySets(c) \/ MemoryDels(c) \/ MemorySetsIf(c) \/ MemoryDelsIf(c)
     \/ MemoryStamps(c) \/ MemoryIncrs(c)
     \/ SqliteSets(c) \/ SqliteDels(c) \/ SqliteSetsIf(c) \/ SqliteDelsIf(c)
     \/ SqliteStamps(c) \/ SqliteIncrs(c)
     \/ RedisSets(c) \/ RedisScripts(c)
     \/ UpstashSets(c) \/ UpstashScripts(c)

KvNext ==
  \/ \E c \in KvCallers, k \in Calls : Asks(c, k)
  \/ \E c \in KvCallers : Answered(c)
  \/ Lapses
  \/ Sweeps

KvSpec == KvInit /\ [][KvNext]_kvVars

-----------------------------------------------------------------------------
View == IF Live(cell) THEN [value |-> cell.value, ttl |-> cell.expiry = "ahead"] ELSE Null

Port == INSTANCE KvPort WITH view <- View, asking <- asked, answers <- answer

\* What MemoryKv does that no atomic key would, and what still holds of it.  The key may
\* change under a call that awaits: the call then answers for what it read, and writes,
\* removes or counts over what is there, or declines and changes nothing.  And a count on
\* an entry that has expired is lost.
ReadIsOld(c) == TwoStep(asked[c]) /\ saw[c].value # Value(cell)
Slips(c) ==
  LET k == asked[c]
      n == IF saw[c].value = Null THEN 1 ELSE saw[c].value + 1
  IN  /\ store = "memory" /\ k # Null
      /\ \/ /\ k.op = "setIf" /\ ReadIsOld(c)
            /\ IF saw[c].value = k.expected THEN Port!Writes(c, k) ELSE Port!Declines(c)
         \/ /\ k.op = "delIf" /\ ReadIsOld(c)
            /\ IF saw[c].value = k.expected THEN Port!Removes(c) ELSE Port!Declines(c)
         \/ /\ k.op = "incrWithExpiry" /\ ReadIsOld(c) /\ Port!Told(c, Count(n))
            /\ View' \in {Null, Port!Entry(n, TRUE), Port!Entry(n, FALSE)}
         \/ /\ k.op = "incr" /\ cell # Null /\ ~Live(cell) /\ Port!Told(c, Count(cell.value + 1))
            /\ UNCHANGED View

KvStep == Port!Next \/ \E c \in KvCallers : Slips(c)

\* The adapters keep the port's contract (ports/kv.ts): whatever calls come, from whom,
\* and whenever a key expires, each call takes effect once, at one step, on what the key
\* shows then, and its caller is told so.  The run lock, the settle claims and the
\* counters are built on it.  MemoryKv keeps it in every call but those Slips names.
KvKeepsContract == [][KvStep]_<<View, asked, answer>>

\* A counter that is there tells each caller of incrWithExpiry the number after its own:
\* memory.ts:76 says "No awaits between read and write" and ports/kv.ts that the call is
\* one atomic step.  It does not hold of MemoryKv.
CountsOn ==
  [][\A c \in KvCallers :
       asked[c] # Null /\ asked[c].op = "incrWithExpiry" /\ asked'[c] = Null /\ Live(cell)
         => answer'[c] = Count(cell.value + 1)]_kvVars
=============================================================================
