----------------------------- MODULE LocalQueues -----------------------------
\* The other adapters of the Queue port: InlineQueue, which hands each job to a worker in
\* the same process from a timer of its own (adapters/inline.ts), MemoryQueue, which a test
\* or a host drains (adapters/memory.ts), and QStashQueue over Upstash QStash, which is
\* external and modelled from how adapters/qstash.ts uses it.
EXTENDS Naturals, FiniteSets, Sequences, Functions

CONSTANTS
  QueueKinds,
  LocalJobs,   \* records: dispatch, key ("" for none), kind ("" for a fresh dispatch), delay
  MaxTimer,    \* the longest one timer can hold
  LocalDepth   \* MemoryQueue.maxDepth; 0 for no limit

VARIABLES
  local,      \* the adapter
  fate,       \* what enqueue said of each job, and where it is
  items,      \* the waiting jobs, in order
  timers,     \* InlineQueue: <<job, the time it has to run>>
  due,        \* the time until a job may be delivered
  bound,      \* InlineQueue: a worker is attached; MemoryQueue: no drain is in its handler
  unbound,    \* InlineQueue: the jobs that came due before one was
  got,        \* how often each job was handed to a worker
  early,      \* the jobs that were handed on before their time
  ids         \* QStash: the deduplication ids it remembers

localVars == <<local, fate, items, timers, due, bound, unbound, got, early, ids>>

LocalInit ==
  /\ local \in QueueKinds
  /\ fate = [j \in LocalJobs |-> "new"] /\ due = [j \in LocalJobs |-> 0]
  /\ got = [j \in LocalJobs |-> 0]
  /\ items = <<>> /\ unbound = <<>> /\ timers = {} /\ ids = {} /\ early = {}
  /\ bound = (local # "inline")

Earlier(a, b) == IF a < b THEN a ELSE b
NoKey == ""
Keyed(key) == {j \in Range(items) : key # NoKey /\ j.key = key}
Says(j, answer) == fate' = [fate EXCEPT ![j] = answer]
\* The jobs that stay keep their order.
Staying(js) ==
  LET f[i \in 0..Len(items)] == IF i = 0 THEN <<>>
                                ELSE IF items[i] \in js THEN Append(f[i - 1], items[i]) ELSE f[i - 1]
  IN  f[Len(items)]
Leaves(js) == items' = Staying(LocalJobs \ js)
Handed(js) ==
  /\ got' = [j \in LocalJobs |-> IF j \in js THEN got[j] + 1 ELSE got[j]]
  /\ early' = early \cup {j \in js : due[j] > 0}
Becomes(js, answer) == fate' = [j \in LocalJobs |-> IF j \in js THEN answer ELSE fate[j]]

Waits(j) ==
  /\ items' = Append(items, j)
  /\ due' = [due EXCEPT ![j] = j.delay]

---------------------------------------------------------------------------
(* InlineQueue *)

Armed(j, wait) == <<j, Earlier(wait, MaxTimer)>>

InlineEnqueue(j) ==
  /\ local = "inline" /\ fate[j] = "new"
  /\ IF Keyed(j.key) # {}
     THEN Says(j, "duplicate") /\ UNCHANGED <<items, due, timers>>
     ELSE /\ Says(j, "waiting") /\ Waits(j)
          /\ timers' = timers \cup {Armed(j, j.delay)}
  /\ UNCHANGED <<local, bound, unbound, got, early, ids>>

\* deliver. A job that was withdrawn stays so.
Delivered(j) ==
  /\ IF fate[j] = "waiting" THEN Says(j, IF bound THEN "delivered" ELSE "unbound") ELSE UNCHANGED fate
  /\ IF bound THEN Handed({j}) /\ UNCHANGED unbound
     ELSE unbound' = Append(unbound, j) /\ UNCHANGED <<got, early>>

NotDue(j) == due[j] > 0

\* A timer fires at its time or later; a long delay is waited out in steps.
Fires(j) ==
  /\ <<j, 0>> \in timers
  /\ IF NotDue(j)
     THEN /\ timers' = (timers \ {<<j, 0>>}) \cup {Armed(j, due[j])}
          /\ UNCHANGED <<fate, items, unbound, got, early>>
     ELSE timers' = timers \ {<<j, 0>>} /\ Leaves({j}) /\ Delivered(j)
  /\ UNCHANGED <<local, due, bound, ids>>

Binds ==
  /\ local = "inline" /\ ~bound
  /\ bound' = TRUE /\ unbound' = <<>>
  /\ Becomes(Range(unbound), "delivered")
  /\ Handed(Range(unbound))
  /\ UNCHANGED <<local, items, timers, due, ids>>

TimersOf(js) == {t \in timers : t[1] \notin js}

InlineCancel(key) ==
  /\ local = "inline" /\ Keyed(key) # {}
  /\ Leaves(Keyed(key))
  /\ timers' = TimersOf(Keyed(key))
  /\ Becomes(Keyed(key), "withdrawn")
  /\ UNCHANGED <<local, due, bound, unbound, got, early, ids>>

Clears ==
  /\ local = "inline" /\ items \o unbound # <<>>
  /\ Becomes(Range(items) \cup Range(unbound), "withdrawn")
  /\ timers' = TimersOf(Range(items)) /\ items' = <<>> /\ unbound' = <<>>
  /\ UNCHANGED <<local, due, bound, got, early, ids>>

---------------------------------------------------------------------------
(* MemoryQueue *)

\* The cap counts what is ready, and refuses only new work.
IsNewWork(j) == j.kind = ""
QueueFull(j) ==
  /\ LocalDepth > 0 /\ IsNewWork(j)
  /\ Cardinality({i \in Range(items) : i.delay = 0}) >= LocalDepth

MemoryEnqueue(j) ==
  /\ local = "memory" /\ fate[j] = "new"
  /\ \/ Keyed(j.key) # {} /\ Says(j, "duplicate") /\ UNCHANGED <<items, due>>
     \/ Keyed(j.key) = {} /\ QueueFull(j) /\ Says(j, "full") /\ UNCHANGED <<items, due>>
     \/ Keyed(j.key) = {} /\ ~QueueFull(j) /\ Says(j, "waiting") /\ Waits(j)
  /\ UNCHANGED <<local, timers, bound, unbound, got, early, ids>>

\* drain hands the first job over, whatever its delay, and waits for the handler.
Drains ==
  /\ local = "memory" /\ bound /\ items # <<>>
  /\ items' = Tail(items) /\ bound' = FALSE
  /\ Says(Head(items), "delivered") /\ Handed({Head(items)})
  /\ UNCHANGED <<local, timers, due, unbound, ids>>

HandlerReturns ==
  /\ local = "memory" /\ ~bound
  /\ bound' = TRUE
  /\ UNCHANGED <<local, fate, items, timers, due, unbound, got, early, ids>>

MemoryCancel(key) ==
  /\ local = "memory" /\ Keyed(key) # {}
  /\ Leaves(Keyed(key))
  /\ Becomes(Keyed(key), "withdrawn")
  /\ UNCHANGED <<local, timers, due, bound, unbound, got, early, ids>>

---------------------------------------------------------------------------
(* QStashQueue: cancel does nothing, find and stats are not supported. *)

\* QStash has the job or knows its id; an answer may be lost either way.
QStashEnqueue(j) ==
  /\ local = "qstash" /\ fate[j] = "new"
  /\ \/ /\ j.key \in ids /\ Says(j, "duplicate")
        /\ UNCHANGED <<items, due, ids>>
     \/ /\ j.key \notin ids /\ fate' \in {[fate EXCEPT ![j] = a] : a \in {"waiting", "threw"}}
        /\ Waits(j) /\ ids' = ids \cup ({j.key} \ {NoKey})
     \/ Says(j, "threw") /\ UNCHANGED <<items, due, ids>>
  /\ UNCHANGED <<local, timers, bound, unbound, got, early>>

\* At least once: it may keep the message and deliver it again.
QStashDelivers(j) ==
  /\ local = "qstash" /\ j \in Range(items) /\ due[j] = 0 /\ got[j] < 2
  /\ Handed({j}) /\ (Leaves({j}) \/ UNCHANGED items)
  /\ IF fate[j] = "threw" THEN UNCHANGED fate ELSE Says(j, "delivered")
  /\ UNCHANGED <<local, timers, due, bound, unbound, ids>>

\* After ten minutes, whether the message still waits or not.
QStashForgets(key) ==
  /\ key \in ids /\ ids' = ids \ {key}
  /\ UNCHANGED <<local, fate, items, timers, due, bound, unbound, got, early>>

Less(n) == IF n = 0 THEN 0 ELSE n - 1
TimePasses ==
  /\ due' = [j \in LocalJobs |-> Less(due[j])]
  /\ timers' = {<<t[1], Less(t[2])>> : t \in timers}
  /\ UNCHANGED <<local, fate, items, bound, unbound, got, early, ids>>

LocalNext ==
  \/ \E j \in LocalJobs :
       \/ InlineEnqueue(j) \/ Fires(j) \/ MemoryEnqueue(j) \/ QStashEnqueue(j) \/ QStashDelivers(j)
  \/ \E key \in {j.key : j \in LocalJobs} : InlineCancel(key) \/ MemoryCancel(key) \/ QStashForgets(key)
  \/ Binds \/ Clears \/ Drains \/ HandlerReturns \/ TimePasses

---------------------------------------------------------------------------
\* A job that enqueue took is waiting or was handed on, and in a queue of this process not
\* twice; one that was withdrawn is never handed on, nor one with a delay before its time,
\* except by the drain; and one that was refused as a duplicate has another of its key
\* before it (ports/queue.ts:92-115).
JobsAreKept ==
  \A j \in LocalJobs :
    /\ fate[j] = "waiting" => j \in Range(items)
    /\ fate[j] = "unbound" => j \in Range(unbound)
    /\ fate[j] = "delivered" => got[j] > 0
    /\ local # "qstash" => got[j] <= 1
    /\ fate[j] \in {"withdrawn", "duplicate", "full"} => got[j] = 0
    /\ local # "memory" => j \notin early
    /\ fate[j] = "duplicate" =>
         \E i \in LocalJobs \ {j} : i.key = j.key /\ fate[i] \notin {"new", "duplicate", "full"}
=============================================================================
