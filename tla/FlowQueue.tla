----------------------------- MODULE FlowQueue -----------------------------
(***************************************************************************)
(* The queue over Clevix Flow (adapters/flow.ts): FlowQueue, which starts  *)
(* one run of one Flow function per job, and agentRunFunction, which runs  *)
(* them.                                                                   *)
(*                                                                         *)
(* Flow itself is external and modelled from how the adapter uses it: a    *)
(* run holds its singleton key while it is live, and for a moment after it *)
(* ended; the index that lists and counts runs lags behind them; an        *)
(* answer to a start can be lost on its way.                               *)
(***************************************************************************)
EXTENDS Naturals, FiniteSets, Sequences

CONSTANTS
  Callers,    \* the calls of enqueue
  Jobs,       \* records: dispatch, key ("" for none), kind ("" for a fresh dispatch), thread, delayed
  MaxDepth,   \* FlowQueueOptions.maxDepth; 0 for no limit
  FlowRetries,    \* AgentRunFunctionOptions.retries
  MaxRuns     \* bound on the runs Flow starts

VARIABLES
  flowRuns,   \* Flow's runs of the function, in the order they were started
  held,       \* the function is paused
  enqueues,   \* what each call of enqueue has done so far
  purging     \* the runs a purge has listed and not come to

vars == <<flowRuns, held, enqueues, purging>>

Active  == {"queued", "running", "sleeping", "paused"}
Ended   == {"done", "failed", "cancelled", "deleted"}

TypeOK ==
  /\ \A r \in DOMAIN flowRuns :
       flowRuns[r] \in [job: Jobs, status: Active \cup Ended, tries: 0..FlowRetries,
                        slept: BOOLEAN, freed: BOOLEAN, told: BOOLEAN]
  /\ held \in BOOLEAN
  /\ enqueues \in [Callers -> [at: {"idle", "start", "ok", "full", "duplicate", "threw"},
                               job: Jobs, tries: 0..1]]
  /\ purging \subseteq DOMAIN flowRuns

Init ==
  /\ flowRuns = <<>>
  /\ held = FALSE
  /\ \E job \in [Callers -> Jobs] :
       enqueues = [c \in Callers |-> [at |-> "idle", job |-> job[c], tries |-> 0]]
  /\ purging = {}

---------------------------------------------------------------------------
(* Flow's side of a run. *)

\* An unkeyed job holds its dispatch id.
HasKey(job) == job.key # ""
KeyOf(job) == IF HasKey(job) THEN job.key ELSE job.dispatch

Going(r) == flowRuns[r].status \in Active

Holders(key) == {r \in DOMAIN flowRuns : KeyOf(flowRuns[r].job) = key /\ ~flowRuns[r].freed}

SetStatus(r, status) == [flowRuns EXCEPT ![r].status = status]

Fresh(job) == [job |-> job, status |-> IF held THEN "paused" ELSE "queued", tries |-> 0,
               slept |-> FALSE, freed |-> FALSE, told |-> FALSE]

\* The key of a run that ended is free again.
KeyFreed(r) ==
  /\ ~Going(r)
  /\ ~flowRuns[r].freed
  /\ flowRuns' = [flowRuns EXCEPT ![r].freed = TRUE]
  /\ UNCHANGED <<held, enqueues, purging>>

---------------------------------------------------------------------------
(* enqueue *)

\* The runs index lags: what it lists as waiting has waited once, and what
\* waits may not be listed yet.
Listed(rs) == SUBSET rs

Answer(c, at) == enqueues' = [enqueues EXCEPT ![c].at = at]

\* Only fresh work is refused by the depth cap.
IsFresh(job) == job.kind = ""
Refused(job) ==
  /\ MaxDepth > 0
  /\ IsFresh(job)
  /\ Len(flowRuns) >= MaxDepth

Enqueue(c) ==
  /\ enqueues[c].at = "idle"
  /\ \/ Answer(c, "start")
     \/ Refused(enqueues[c].job) /\ Answer(c, "full")
  /\ UNCHANGED <<flowRuns, held, purging>>

\* mutant: the loop runs out and enqueue just returns
StillFreedQuiet(c) ==
  IF enqueues[c].tries = 0
  THEN enqueues' = [enqueues EXCEPT ![c].tries = 1]
  ELSE Answer(c, "ok")

\* A key whose run has just ended is tried once more, and then enqueue throws.
StillFreed(c) ==
  IF enqueues[c].tries = 0
  THEN enqueues' = [enqueues EXCEPT ![c].tries = 1]
  ELSE Answer(c, "threw")

\* What flow.start says: started, the key is held by a live run, or by one that
\* has just ended.
StartAnswer(c) ==
  LET job == enqueues[c].job
      holders == Holders(KeyOf(job))
  IN  \/ /\ holders = {}
         /\ Len(flowRuns) < MaxRuns
         /\ flowRuns' = Append(flowRuns, Fresh(job))
         /\ Answer(c, "ok")
      \/ /\ \E r \in holders : Going(r)
         /\ Answer(c, IF HasKey(job) THEN "duplicate" ELSE "ok")
         /\ UNCHANGED flowRuns
      \/ /\ holders # {}
         /\ \A r \in holders : ~Going(r)
         /\ StillFreed(c)
         /\ UNCHANGED flowRuns

Start(c) ==
  /\ enqueues[c].at = "start"
  /\ StartAnswer(c)
  /\ UNCHANGED <<held, purging>>

\* The run is started and the answer is lost, or nothing is started at all.
StartThrows(c) ==
  /\ enqueues[c].at = "start"
  /\ \/ UNCHANGED flowRuns
     \/ /\ Holders(KeyOf(enqueues[c].job)) = {}
        /\ Len(flowRuns) < MaxRuns
        /\ flowRuns' = Append(flowRuns, Fresh(enqueues[c].job))
  /\ Answer(c, "threw")
  /\ UNCHANGED <<held, purging>>

Cancel(key) ==
  /\ \E r \in Holders(key) : Going(r) /\ flowRuns' = SetStatus(r, "cancelled")
  /\ UNCHANGED <<held, enqueues, purging>>

---------------------------------------------------------------------------
(* The function that runs a job, in one step Flow tries again. *)

\* A job with a delay sleeps first, its key held; a held function's runs stop here.
Step(r) ==
  /\ flowRuns[r].status = "queued"
  /\ flowRuns' =
       IF held THEN SetStatus(r, "paused")
       ELSE IF flowRuns[r].job.delayed /\ ~flowRuns[r].slept
       THEN [flowRuns EXCEPT ![r].status = "sleeping", ![r].slept = TRUE]
       ELSE SetStatus(r, "running")
  /\ UNCHANGED <<held, enqueues, purging>>

Wake(r) ==
  /\ flowRuns[r].status = "sleeping"
  /\ flowRuns' = SetStatus(r, "queued")
  /\ UNCHANGED <<held, enqueues, purging>>

\* handleJob returns.
Handled(r) ==
  /\ flowRuns[r].status = "running"
  /\ flowRuns' = SetStatus(r, "done")
  /\ UNCHANGED <<held, enqueues, purging>>

\* handleJob throws: the backoff, or the end of Flow's tries.
Throws(r) ==
  /\ flowRuns[r].status = "running"
  /\ flowRuns' = IF flowRuns[r].tries < FlowRetries
                 THEN [flowRuns EXCEPT ![r].status = "sleeping", ![r].tries = @ + 1]
                 ELSE SetStatus(r, "failed")
  /\ UNCHANGED <<held, enqueues, purging>>

\* The step takes longer than its timeout: Flow calls handleJob again beside the
\* first call, whose answer nobody waits for.
TimesOut(r) ==
  /\ flowRuns[r].status = "running"
  /\ flowRuns[r].tries < FlowRetries
  /\ flowRuns' = [flowRuns EXCEPT ![r].tries = @ + 1]
  /\ UNCHANGED <<held, enqueues, purging>>

\* onFailure: the job of a run that failed goes to handleDeadJob.
HandDead(r) ==
  /\ flowRuns[r].status = "failed"
  /\ ~flowRuns[r].told
  /\ flowRuns' = [flowRuns EXCEPT ![r].told = TRUE]
  /\ UNCHANGED <<held, enqueues, purging>>

---------------------------------------------------------------------------
(* QueueAdmin *)

Pause ==
  /\ ~held
  /\ held' = TRUE
  /\ UNCHANGED <<flowRuns, enqueues, purging>>

Resume ==
  /\ held
  /\ held' = FALSE
  /\ flowRuns' = [r \in DOMAIN flowRuns |->
                    IF flowRuns[r].status = "paused"
                    THEN [flowRuns[r] EXCEPT !.status = "queued"] ELSE flowRuns[r]]
  /\ UNCHANGED <<enqueues, purging>>

\* Lists the waiting runs of a thread from the index, then cancels them one by
\* one, newest first; one that ended meanwhile is left.
Purge(thread) ==
  /\ purging = {}
  /\ purging' \in Listed({r \in DOMAIN flowRuns : flowRuns[r].job.thread = thread})
  /\ UNCHANGED <<flowRuns, held, enqueues>>

PurgeNext ==
  /\ \E r \in purging :
       /\ \A s \in purging : s <= r
       /\ flowRuns' = IF Going(r) THEN SetStatus(r, "cancelled") ELSE flowRuns
       /\ purging' = purging \ {r}
  /\ UNCHANGED <<held, enqueues>>

\* purgeDead, and purge with includeDead: a failed run that the index lists goes.
PurgeDead(r) ==
  /\ flowRuns[r].status = "failed"
  /\ flowRuns' = SetStatus(r, "deleted")
  /\ UNCHANGED <<held, enqueues, purging>>

\* A failed run starts again under its own id, unless its key was taken meanwhile.
Redrive(r) ==
  /\ flowRuns[r].status = "failed"
  /\ ~held
  /\ \A s \in Holders(KeyOf(flowRuns[r].job)) : s = r \/ ~Going(s)
  /\ flowRuns' = [flowRuns EXCEPT ![r].status = "queued", ![r].tries = 0,
                                  ![r].freed = FALSE, ![r].told = FALSE]
  /\ UNCHANGED <<held, enqueues, purging>>

Next ==
  \/ \E c \in Callers : Enqueue(c) \/ Start(c) \/ StartThrows(c)
  \/ \E key \in {KeyOf(j) : j \in Jobs} : Cancel(key)
  \/ \E r \in DOMAIN flowRuns :
       \/ KeyFreed(r) \/ Step(r) \/ Wake(r) \/ Handled(r) \/ Throws(r) \/ TimesOut(r)
       \/ HandDead(r) \/ Redrive(r) \/ PurgeDead(r)
  \/ Pause \/ Resume
  \/ \E j \in Jobs : Purge(j.thread)
  \/ PurgeNext

Spec == Init /\ [][Next]_vars

---------------------------------------------------------------------------
(* What a caller may believe.  A call of enqueue that returned has put its job *)
(* in the queue, or found the same dispatch there; one that was refused as a   *)
(* duplicate found another job under its key; only fresh work is refused for   *)
(* depth, for a retry or a resume that is refused strands its run.             *)
EnqueueTellsTruth ==
  \A c \in Callers :
    LET e == enqueues[c] IN
    /\ e.at = "ok" => \E r \in DOMAIN flowRuns : flowRuns[r].job.dispatch = e.job.dispatch
    /\ e.at = "duplicate" => \E r \in DOMAIN flowRuns : KeyOf(flowRuns[r].job) = e.job.key
    /\ e.at = "full" => IsFresh(e.job)
=============================================================================
