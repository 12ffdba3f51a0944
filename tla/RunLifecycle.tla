----------------------------- MODULE RunLifecycle -----------------------------
(***************************************************************************)
(* One conversation thread of the agentenkit runtime and everything that   *)
(* can move it: run() callers that dispatch runs, workers that execute the *)
(* queue's jobs under the run lock, one user pressing stop, and the        *)
(* reclaim sweep that heals a run the queue lost.                          *)
(*                                                                         *)
(* A step is one await that other processes can see between: a compare-    *)
(* and-set on the thread row, a kv write, a read of the run record and the *)
(* patch that follows it.  `transition' (publish.ts) is two steps, the     *)
(* compare-and-set and the write of the hot state, because a second        *)
(* transition can run between them.  Reads that no decision separates are  *)
(* one step with the decision they feed.                                   *)
(*                                                                         *)
(* Billing, run streams, sandboxes, history edits and nested runs are left *)
(* out; a park is one approval, answered or timed out; settling a run is   *)
(* one step that marks its record, or a hook that throws.                  *)
(***************************************************************************)
EXTENDS Naturals, Sequences, FiniteSets

CONSTANTS
  Calls,        \* run() invocations on the thread
  Runs,         \* run ids
  Ids,          \* per call, the ids it may name (or mint: then it alone has them)
  OldRun,       \* the run that owned the thread before, if it had one
  None,         \* an absent run id, job or holder
  Workers,      \* worker deliveries (a process handling one job at a time)
  StartStates,  \* states the thread may be in at the start
  MaxJobs,      \* enqueues in a behaviour (dispatch ids)
  MaxAttempts,  \* config.runMaxAttempts
  MaxRedrives,  \* tries a blocked job gets: at least MaxAttempts, and a lease's worth
  MaxSteps,     \* config.maxSteps: model steps of one segment
  Limits        \* per scenario, how often each kind of environment event may happen

\* The events the scenarios bound: stop() calls; writes of a dispatch that throw;
\* processes killed between two steps of a dispatch ("kill"), or of a worker or
\* a stop ("death"); leases that lapse although their holder lives; jobs the
\* queue delivers again while their worker lives, or gives up on ("dup");
\* approvals requested; segments that throw, are refused or are shut down
\* ("error"); reclaim sweeps; and (0 or 1) dispatches slower than a lock lease.
Events == {"stop", "fault", "kill", "death", "lapse", "dup", "park", "error", "reclaim", "slow"}

\* Who can hold the run lock besides a worker: stop(), to settle the run.
Stop == "stop"

ASSUME NamesAssumption ==
  /\ None \notin Runs \cup Workers \cup {OldRun, Stop}
  /\ OldRun \notin Runs
  /\ Stop \notin Workers
  /\ Ids \in [Calls -> SUBSET Runs]

ASSUME BoundsAssumption ==
  /\ MaxJobs \in Nat
  /\ MaxAttempts \in Nat \ {0}
  /\ MaxRedrives \in Nat
  /\ MaxSteps \in Nat \ {0}
  /\ Limits \subseteq [Events -> Nat]

Active   == {"QUEUED", "RUNNING", "WAITING_FOR_INPUT"}
Terminal == {"COMPLETED", "FAILED", "CANCELLED"}
States   == {"IDLE"} \cup Active \cup Terminal

ASSUME StartAssumption == StartStates \subseteq {"IDLE"} \cup Terminal

VARIABLES
  state,     \* thread row: its state ...
  owner,     \* ... and the run a compare-and-set must name to change it
  hot,       \* kv agent:state:{thread}
  cur,       \* kv agent:run:{thread}
  lock,      \* kv agent:lock:{thread}: run, dispatch id and holder
  attempts,  \* kv agent:attempts:{run}
  redrives,  \* kv agent:redrive:{run}
  rec,       \* admin run records: state, and whether ended and settled are set
  messages,  \* the main agent's message history
  open,      \* per run, its park's approval: "none", "asked" or "answered"
  queue,     \* jobs the queue holds and has not handed out
  lastJob,   \* dispatch ids minted
  call,      \* per run(): pc, run, the state it read, the prior run id
  stopper,   \* stop(): pc, the run id it read, and the thread it read: whose, parked
  sweep,     \* reclaim: pc, run, and the state to heal the thread to
  pc,        \* per worker: where its delivery is
  job,       \* ... the job it handles
  out,       \* ... how its segment ended, once it has
  aborted,   \* ... its abort signal fired
  lost,      \* ... its lease is known lost
  val,       \* ... the state it is writing
  then,      \* ... where it goes on after the hot-state write
  prior,     \* ... the state it read before the step that uses it
  steps,     \* ... model steps of this segment
  used,      \* environment events so far
  allowed    \* ... and how many there may be: one of `Limits', for good

thread == <<state, owner>>
kv     == <<hot, cur, lock, attempts, redrives>>
store  == <<rec, messages, open>>
mq     == <<queue, lastJob>>
worker == <<pc, job, out, aborted, lost, val, then, prior, steps>>
others == <<call, stopper, sweep>>
moving == <<state, owner, hot, cur, lock, attempts, redrives, rec, messages,
            open, queue, lastJob, call, stopper, sweep, pc, job, out, aborted,
            lost, val, then, prior, steps, used>>
vars   == <<state, owner, hot, cur, lock, attempts, redrives, rec, messages,
            open, queue, lastJob, call, stopper, sweep, pc, job, out, aborted,
            lost, val, then, prior, steps, used, allowed>>

Kinds  == {"run", "expiry", "reclaim", "late"}
Jobs   == [run : Runs, id : 1..MaxJobs, kind : Kinds]
NoLock == [run |-> None, id |-> 0, by |-> None]
NoJob  == [run |-> None, id |-> 0, kind |-> "run"]

Spend(k) == used[k] < allowed[k] /\ used' = [used EXCEPT ![k] = @ + 1]

-------------------------------------------------------------------------------
\* The ports every process goes through.

\* storage.threads.transition: the state is one of `from' and the thread still
\* belongs to run r.  A caller or a row with no run id is not checked.
CanMoveUnowned(from, r) == state \in from                               \* mutant
CanMoveAnytime(from, r) == r = None \/ owner = None \/ owner = r         \* mutant
CanMove(from, r) == state \in from /\ (r = None \/ owner = None \/ owner = r)

\* enqueueJob: every enqueue is stamped with a dispatch id of its own.
Put(q, r, kind) ==
  /\ lastJob < MaxJobs
  /\ lastJob' = lastJob + 1
  /\ queue' = q \cup {[run |-> r, id |-> lastJob + 1, kind |-> kind]}
Enqueue(r) == Put(queue, r, "run")

\* admin.runs.patch: a missing record stays missing.
Patch(r, s, e) ==
  rec' = [rec EXCEPT ![r] = IF @.state = "NONE" THEN @
                            ELSE [@ EXCEPT !.state = s, !.ended = e]]

\* settleRun reached and its hook returned: the record is marked.
Settled(rc, r) == [rc EXCEPT ![r].settled = rc[r].state # "NONE"]

\* settleEndedRun: only a run whose record has ended is settled; a hook that
\* throws, or a claim that cannot be made, leaves it unsettled.
SettleEnded(r) ==
  \/ rec[r].state \in Terminal /\ rec' = Settled(rec, r)
  \/ UNCHANGED rec

\* recordStoppedRun: close a record as CANCELLED unless it already is.
RecordStopped(r) ==
  IF r \in Runs /\ rec[r].state # "CANCELLED"
  THEN Patch(r, "CANCELLED", TRUE) ELSE UNCHANGED rec

\* loadOpenHitls: the approvals of the thread's current run.
Open == IF cur \in Runs THEN open[cur] ELSE "none"

\* closeOpenParks: an open approval gets a cancelled tool result.
CloseParks ==
  IF Open = "none" THEN UNCHANGED <<open, messages>>
  ELSE /\ open' = [open EXCEPT ![cur] = "none"]
       /\ messages' = Append(messages, [run |-> cur, kind |-> "result"])

\* The run lock is set only if nobody holds it, the same run included.
CanLockAgain(r) == lock.run \in {None, r}                                \* mutant
CanLock(r) == lock = NoLock
TakeLock(r, id, by) == lock' = [run |-> r, id |-> id, by |-> by]

\* It is freed only while it is still this holder's.
FreeAnyLock(by) == lock' = NoLock                                       \* mutant
FreeLock(by) == lock' = IF lock.by = by THEN NoLock ELSE lock

-------------------------------------------------------------------------------
\* run(): dispatch a run.  A refusal before admission writes nothing, so a
\* refused call is one that never begins.

\* Where a call stands once it has returned, or its process was killed.
Over == {"busy", "refused", "accepted", "dead"}

CallGoes(c, p) == call' = [call EXCEPT ![c].pc = p]
CallOnly == UNCHANGED <<worker, stopper, sweep>>

\* The thread is read, idle on both homes, the run id is unused, and the run it
\* last had is noted.
RunBegin(c, r) ==
  /\ call[c].pc = "idle"
  /\ hot \notin Active /\ state \notin Active
  /\ rec[r].state = "NONE"
  /\ call' = [call EXCEPT ![c] = [pc |-> "admit", run |-> r, seen |-> state, prev |-> cur]]
  /\ UNCHANGED <<thread, kv, store, mq, used>> /\ CallOnly

\* The claim: from the state that was read, to QUEUED under the new run.
AdmitsBlindly(c) == TRUE                                                \* mutant
Admits(c) == state = call[c].seen
RunAdmit(c) ==
  /\ call[c].pc = "admit"
  /\ IF Admits(c)
     THEN /\ state' = "QUEUED" /\ owner' = call[c].run
          /\ CallGoes(c, "hot")
     ELSE CallGoes(c, "busy") /\ UNCHANGED thread
  /\ UNCHANGED <<kv, store, mq, used>> /\ CallOnly

RunHot(c) ==
  /\ call[c].pc = "hot"
  /\ hot' = "QUEUED"
  /\ CallGoes(c, "install")
  /\ UNCHANGED <<thread, cur, lock, attempts, redrives, store, mq, used>> /\ CallOnly

\* The thread's current run becomes this one, and is what a failure must find.
RunInstall(c) ==
  /\ call[c].pc = "install"
  /\ cur' = call[c].run
  /\ call' = [call EXCEPT ![c].pc = "start", ![c].prev = call[c].run]
  /\ UNCHANGED <<thread, hot, lock, attempts, redrives, store, mq, used>> /\ CallOnly

RunStart(c) ==
  /\ call[c].pc = "start"
  /\ rec' = [rec EXCEPT ![call[c].run] = [state |-> "QUEUED", ended |-> FALSE, settled |-> FALSE]]
  /\ CallGoes(c, "check1")
  /\ UNCHANGED <<thread, kv, messages, open, mq, used>> /\ CallOnly

\* dispatchActive, before the user turn and again before the enqueue: a stop
\* that arrived meanwhile ends the dispatch here.
RunCheck(c, at, next) ==
  /\ call[c].pc = at
  /\ IF cur = call[c].run /\ state = "QUEUED"
     THEN CallGoes(c, next) /\ UNCHANGED rec
     ELSE /\ CallGoes(c, IF cur = call[c].run /\ state = "CANCELLED" THEN "stophot" ELSE "refused")
          /\ RecordStopped(call[c].run)
  /\ UNCHANGED <<thread, kv, messages, open, mq, used>> /\ CallOnly

\* Its last write: the hot state of the thread it found stopped.
RunStopHot(c) ==
  /\ call[c].pc = "stophot"
  /\ hot' = "CANCELLED"
  /\ CallGoes(c, "refused")
  /\ UNCHANGED <<thread, cur, lock, attempts, redrives, store, mq, used>> /\ CallOnly

RunAppend(c) ==
  /\ call[c].pc = "append"
  /\ messages' = Append(messages, [run |-> call[c].run, kind |-> "user"])
  /\ CallGoes(c, "check2")
  /\ UNCHANGED <<thread, kv, rec, open, mq, used>> /\ CallOnly

RunEnqueue(c) ==
  /\ call[c].pc = "enqueue"
  /\ Enqueue(call[c].run)
  /\ CallGoes(c, "accepted")
  /\ UNCHANGED <<thread, kv, store, used>> /\ CallOnly

\* One of the writes above throws instead; an enqueue may throw and still have
\* put the job on the queue.
RunThrows(c) ==
  /\ call[c].pc \in {"install", "start", "append", "enqueue"}
  /\ Spend("fault")
  /\ \/ UNCHANGED mq
     \/ call[c].pc = "enqueue" /\ Enqueue(call[c].run)
  /\ CallGoes(c, "fail")
  /\ UNCHANGED <<thread, kv, store>> /\ CallOnly

\* failDispatch: only a reservation that is still this call's is undone.
RunFail(c) ==
  /\ call[c].pc = "fail"
  /\ IF cur \in {call[c].run, call[c].prev} /\ CanMove({"QUEUED"}, call[c].run)
     THEN state' = "FAILED" /\ CallGoes(c, "failhot")
     ELSE CallGoes(c, "refused") /\ UNCHANGED state
  /\ UNCHANGED <<owner, kv, store, mq, used>> /\ CallOnly

RunFailHot(c) ==
  /\ call[c].pc = "failhot"
  /\ hot' = "FAILED"
  /\ Patch(call[c].run, "FAILED", TRUE)
  /\ CallGoes(c, "refused")
  /\ UNCHANGED <<thread, cur, lock, attempts, redrives, messages, open, mq, used>>
  /\ CallOnly

\* The process serving the request is killed part-way.  A hot-state write of the
\* admission that throws is past every catch, and ends the call the same way.
RunDies(c) ==
  /\ call[c].pc \notin Over \cup {"idle", "admit"}
  /\ Spend("kill")
  /\ CallGoes(c, "dead")
  /\ UNCHANGED <<thread, kv, store, mq>> /\ CallOnly

Dispatch(c) ==
  \/ RunAdmit(c) \/ RunHot(c) \/ RunInstall(c) \/ RunStart(c)
  \/ RunCheck(c, "check1", "append") \/ RunAppend(c)
  \/ RunCheck(c, "check2", "enqueue") \/ RunEnqueue(c)
  \/ RunStopHot(c) \/ RunFail(c) \/ RunFailHot(c)

-------------------------------------------------------------------------------
\* stop().

StopGoes(p) == stopper' = [stopper EXCEPT !.pc = p]
StopOnly == UNCHANGED <<worker, call, sweep>>

StopRead ==
  /\ stopper.pc = "idle" /\ state \in Active
  /\ Spend("stop")
  /\ stopper' = [pc |-> "which", run |-> None, seen |-> owner,
                 parked |-> state = "WAITING_FOR_INPUT"]
  /\ UNCHANGED <<thread, kv, store, mq>> /\ StopOnly

\* The run to stop is whichever the thread has by now.
StopWhich ==
  /\ stopper.pc = "which"
  /\ stopper' = [stopper EXCEPT !.pc = "cas", !.run = cur]
  /\ UNCHANGED <<thread, kv, store, mq, used>> /\ StopOnly

StopCas ==
  /\ stopper.pc = "cas"
  /\ IF CanMove(Active, stopper.run)
     THEN state' = "CANCELLED" /\ StopGoes("hot")
     ELSE StopGoes("idle") /\ UNCHANGED state
  /\ UNCHANGED <<owner, kv, store, mq, used>> /\ StopOnly

StopHot ==
  /\ stopper.pc = "hot"
  /\ hot' = "CANCELLED"
  /\ StopGoes("record")
  /\ UNCHANGED <<thread, cur, lock, attempts, redrives, store, mq, used>> /\ StopOnly

StopRecord ==
  /\ stopper.pc = "record"
  /\ RecordStopped(stopper.run)
  /\ StopGoes("lease")
  /\ UNCHANGED <<thread, kv, messages, open, mq, used>> /\ StopOnly

\* settleAfterStop takes the run lock when no worker holds it, and settles.
StopLease ==
  /\ stopper.pc = "lease"
  /\ IF /\ stopper.run \in Runs /\ CanLock(stopper.run)
        /\ rec[stopper.run].state # "NONE" /\ ~rec[stopper.run].settled
     THEN TakeLock(stopper.run, 0, Stop) /\ StopGoes("leased")
     ELSE UNCHANGED lock /\ StopGoes("parks")
  /\ UNCHANGED <<thread, hot, cur, attempts, redrives, store, mq, used>> /\ StopOnly

StopSettle ==
  /\ stopper.pc = "leased"
  /\ SettleEnded(stopper.run)
  /\ StopGoes("release")
  /\ UNCHANGED <<thread, kv, messages, open, mq, used>> /\ StopOnly

StopRelease ==
  /\ stopper.pc = "release"
  /\ FreeLock(Stop)
  /\ StopGoes("parks")
  /\ UNCHANGED <<thread, hot, cur, attempts, redrives, store, mq, used>> /\ StopOnly

\* What a stopped park asked for is answered with a cancellation.
StopParks ==
  /\ stopper.pc = "parks"
  /\ IF stopper.parked THEN CloseParks ELSE UNCHANGED <<open, messages>>
  /\ StopGoes("idle")
  /\ UNCHANGED <<thread, kv, rec, mq, used>> /\ StopOnly

\* The process serving the stop is killed part-way.
StopDies ==
  /\ stopper.pc # "idle"
  /\ Spend("death")
  /\ StopGoes("dead")
  /\ UNCHANGED <<thread, kv, store, mq>> /\ StopOnly

Stopping == StopWhich \/ StopCas \/ StopHot \/ StopRecord \/ StopLease \/ StopSettle \/ StopRelease \/ StopParks

-------------------------------------------------------------------------------
\* A worker: one delivery of one job.

Me(w) == job[w].run
Go(w, p) == pc' = [pc EXCEPT ![w] = p]
WorkerOnly == UNCHANGED others

\* The segment ends with outcome o; the lease is given back next.
Leave(w, o) ==
  /\ Go(w, "release")
  /\ out' = [out EXCEPT ![w] = o]
  /\ UNCHANGED <<job, aborted, lost, val, then, prior, steps>>

\* A transition by run Me(w) that won: state `to' is written, the hot state is
\* written next, and p follows.
Won(w, to, p) ==
  /\ state' = to
  /\ val' = [val EXCEPT ![w] = to] /\ then' = [then EXCEPT ![w] = p]
  /\ Go(w, "hot")

\* A delivery that is over keeps nothing.
Fresh(w) ==
  /\ job' = [job EXCEPT ![w] = NoJob] /\ out' = [out EXCEPT ![w] = "executed"]
  /\ aborted' = [aborted EXCEPT ![w] = FALSE] /\ lost' = [lost EXCEPT ![w] = FALSE]
  /\ val' = [val EXCEPT ![w] = "FAILED"] /\ then' = [then EXCEPT ![w] = "idle"]
  /\ prior' = [prior EXCEPT ![w] = "NONE"] /\ steps' = [steps EXCEPT ![w] = 0]

\* Only this worker's control moves: its other fields stand until it is over.
Only(w, p) ==
  /\ Go(w, p)
  /\ IF p \in {"idle", "dead"} THEN Fresh(w)
     ELSE UNCHANGED <<job, out, aborted, lost, val, then, prior, steps>>

\* The queue hands out a job, or hands it out again while its worker lives.
Deliver(w) ==
  /\ pc[w] = "idle"
  /\ \E j \in queue :
       /\ job' = [job EXCEPT ![w] = j]
       /\ \/ queue' = queue \ {j} /\ UNCHANGED used
          \/ Spend("dup") /\ UNCHANGED queue
  /\ Go(w, "acquire")
  /\ UNCHANGED <<out, aborted, lost, val, then, prior, steps>>
  /\ UNCHANGED <<thread, kv, store, lastJob>> /\ WorkerOnly

\* The queue gives a job up as dead: handleDeadJob, failLostRun.  A run that is
\* no longer the thread's, or has ended, is not lost.
DeadJob(w) ==
  /\ pc[w] = "idle" /\ Spend("dup")
  /\ \E j \in queue :
       /\ queue' = queue \ {j}
       /\ IF cur = j.run /\ state \in Active
          THEN /\ Go(w, "lostrun") /\ job' = [job EXCEPT ![w] = j]
               /\ prior' = [prior EXCEPT ![w] = state]
          ELSE UNCHANGED <<pc, job, prior>>
  /\ UNCHANGED <<out, aborted, lost, val, then, steps>>
  /\ UNCHANGED <<thread, kv, store, lastJob>> /\ WorkerOnly

\* failLostRun takes the lock or leaves the run to its holder.
LostRun(w) ==
  /\ pc[w] = "lostrun"
  /\ IF CanLock(Me(w))
     THEN /\ TakeLock(Me(w), 0, w) /\ Go(w, "settle")
          /\ out' = [out EXCEPT ![w] = "dead"]
          /\ IF prior[w] = "WAITING_FOR_INPUT" THEN CloseParks ELSE UNCHANGED <<open, messages>>
          /\ UNCHANGED <<job, aborted, lost, val, then, prior, steps>>
     ELSE Only(w, "idle") /\ UNCHANGED <<lock, open, messages>>
  /\ UNCHANGED <<thread, hot, cur, attempts, redrives, rec, mq, used>> /\ WorkerOnly

Acquire(w) ==
  /\ pc[w] = "acquire"
  /\ IF CanLock(Me(w))
     THEN TakeLock(Me(w), job[w].id, w) /\ Go(w, "check") /\ UNCHANGED out
     ELSE Go(w, "redrive") /\ out' = [out EXCEPT ![w] = "conflict"] /\ UNCHANGED lock
  /\ UNCHANGED <<job, aborted, lost, val, then, prior, steps>>
  /\ UNCHANGED <<thread, hot, cur, attempts, redrives, store, mq, used>> /\ WorkerOnly

\* The start of a segment.  A replaced run closes its record and goes; an ended
\* one is settled if nothing settled it; one still going is picked up.
Check(w) ==
  /\ pc[w] = "check"
  /\ \/ /\ cur # Me(w)
        /\ IF rec[Me(w)].ended THEN UNCHANGED rec ELSE Patch(Me(w), "CANCELLED", TRUE)
        /\ Leave(w, "stale")
     \/ /\ cur = Me(w) /\ state \in Terminal
        /\ SettleEnded(Me(w)) /\ Leave(w, "executed")
     \/ /\ cur = Me(w) /\ state \in Active
        /\ UNCHANGED rec
        /\ Only(w, CASE state = "QUEUED" -> "pickup"
                     [] state = "WAITING_FOR_INPUT" -> "resume"
                     [] OTHER -> "early")
  /\ UNCHANGED <<thread, kv, messages, open, mq, used>> /\ WorkerOnly

\* A job past the queue-wait limit, or one billing refuses at pickup, fails its
\* run under the lock.
Refuse(w) ==
  /\ pc[w] = "check" /\ cur = Me(w) /\ state \in Active
  /\ Spend("error")
  /\ IF state = "WAITING_FOR_INPUT" THEN CloseParks ELSE UNCHANGED <<open, messages>>
  /\ Only(w, "settle")
  /\ UNCHANGED <<thread, kv, rec, mq>> /\ WorkerOnly

Pickup(w) ==
  /\ pc[w] = "pickup"
  /\ IF CanMove({"QUEUED"}, Me(w))
     THEN /\ Won(w, "RUNNING", "pickrec")
          /\ UNCHANGED <<job, out, aborted, lost, prior, steps>>
     ELSE UNCHANGED state /\ Leave(w, "executed")
  /\ UNCHANGED <<owner, kv, store, mq, used>> /\ WorkerOnly

\* The hot half of a transition this worker won.
HotUntilEnd(w) ==                                                       \* mutant
  /\ pc[w] = "hot"
  /\ hot' = IF val[w] \in Terminal THEN hot ELSE val[w]
  /\ Only(w, then[w])
  /\ UNCHANGED <<thread, cur, lock, attempts, redrives, store, mq, used>> /\ WorkerOnly
Hot(w) ==
  /\ pc[w] = "hot"
  /\ hot' = val[w]
  /\ Only(w, then[w])
  /\ UNCHANGED <<thread, cur, lock, attempts, redrives, store, mq, used>> /\ WorkerOnly

\* The record says RUNNING; its end, if something wrote one, is not cleared.
PickRecord(w) ==
  /\ pc[w] = "pickrec"
  /\ Patch(Me(w), "RUNNING", rec[Me(w)].ended)
  /\ Only(w, "early")
  /\ UNCHANGED <<thread, kv, messages, open, mq, used>> /\ WorkerOnly

\* resumePendingHitl, readiness: an approval neither answered nor past its
\* deadline leaves the thread parked.  A deadline may pass at any time, and has
\* passed when an expiry or a reclaim comes.  With no approval on record the
\* segment throws.
Resume(w) ==
  /\ pc[w] = "resume"
  /\ \/ Open = "none" /\ Leave(w, "error")
     \/ Open = "asked" /\ job[w].kind = "run" /\ Leave(w, "executed")
     \/ Open # "none" /\ Only(w, "land")
  /\ UNCHANGED <<thread, kv, store, mq, used>> /\ WorkerOnly

\* The verdict, an approved tool's result included, becomes the call's result
\* and is consumed, whatever happened to the park while the tool ran.
Land(w) ==
  /\ pc[w] = "land"
  /\ open' = [open EXCEPT ![Me(w)] = "none"]
  /\ messages' = Append(messages, [run |-> Me(w), kind |-> "result"])
  /\ Only(w, "unpark")
  /\ UNCHANGED <<thread, kv, rec, mq, used>> /\ WorkerOnly

Unpark(w) ==
  /\ pc[w] = "unpark"
  /\ IF CanMove({"WAITING_FOR_INPUT"}, Me(w))
     THEN /\ Won(w, "RUNNING", "early")
          /\ UNCHANGED <<job, out, aborted, lost, prior, steps>>
     ELSE UNCHANGED state /\ Leave(w, "executed")
  /\ UNCHANGED <<owner, kv, store, mq, used>> /\ WorkerOnly

\* How the run ends, once nothing is left to do: a fired abort is a stop, a
\* segment past its time or a settle hook that throws a failure.  Settling comes
\* first; a claim that cannot be made, or a hook that threw, leaves it undone.
Ends(w, cut) ==
  \E s \in Terminal \ {IF cut THEN "COMPLETED" ELSE "CANCELLED"} :
    /\ val' = [val EXCEPT ![w] = s]
    /\ rec' = Settled(rec, Me(w)) \/ UNCHANGED rec
    /\ Go(w, "finalize")
    /\ UNCHANGED <<job, out, aborted, lost, then, prior, steps>>

\* finishedEarlier: a settled run, or a history that ends in an answer, which
\* is taken as this run's, is finished without the loop, and without asking
\* whether the abort that fired is the worker's shutdown.
FinishedIfSettled(w) == rec[Me(w)].settled                              \* mutant
FinishedEver(w) ==                                                      \* mutant
  rec[Me(w)].settled \/ \E i \in DOMAIN messages : messages[i].kind = "answer"
Finished(w) ==
  rec[Me(w)].settled \/ (messages # <<>> /\ messages[Len(messages)].kind = "answer")

Early(w) ==
  /\ pc[w] = "early"
  /\ IF Finished(w)
     THEN \/ Ends(w, aborted[w]) /\ UNCHANGED used
          \/ Ends(w, TRUE) /\ Spend("error")
     ELSE Only(w, "model") /\ UNCHANGED <<rec, used>>
  /\ UNCHANGED <<thread, kv, messages, open, mq>> /\ WorkerOnly

\* One turn of the step loop up to the fence that precedes its writes: the loop
\* stops on an abort or at the step ceiling, a model call may fail, and a
\* finished step of a worker that knows its lease is lost is not written.
\* `then' says what the step is: a tool call, the answer, or a park.
StepsLeftOver(w) == steps[w] <= MaxSteps                                 \* mutant
StepsLeft(w) == steps[w] < MaxSteps

Model(w) ==
  /\ pc[w] = "model"
  /\ \/ /\ aborted[w] \/ ~StepsLeft(w)
        /\ then' = [then EXCEPT ![w] = "stop"] /\ Go(w, "loopend")
        /\ UNCHANGED used
     \/ /\ ~aborted[w] /\ StepsLeft(w) /\ ~lost[w]
        /\ \E kind \in {"tool", "answer", "park"} :
             /\ IF kind = "park" THEN Spend("park") ELSE UNCHANGED used
             /\ then' = [then EXCEPT ![w] = kind]
        /\ Go(w, "commit")
  /\ UNCHANGED <<job, out, aborted, lost, val, prior, steps>>
  /\ UNCHANGED <<thread, kv, store, mq>> /\ WorkerOnly

\* An await of the segment throws: an error a retry may cure, or one it cannot.
\* After the lease was lost it is that loss showing through.
SegmentFails(w) ==
  /\ out[w] = "executed"
  /\ pc[w] \in {"pickup", "hot", "resume", "land", "unpark", "model", "commit", "park",
               "ask", "parked", "loopend", "finalize"}
  /\ Spend("error")
  /\ \E o \in {"error", "permanent"} : Leave(w, IF lost[w] THEN "lost" ELSE o)
  /\ UNCHANGED <<thread, kv, store, mq>> /\ WorkerOnly

\* The worker is told to shut down: its abort ends the loop, and the job goes
\* back without counting an attempt.
Shutdown(w) ==
  /\ pc[w] \in {"model", "parked", "loopend"}
  /\ Spend("error")
  /\ Leave(w, IF lost[w] THEN "lost" ELSE "shutdown")
  /\ UNCHANGED <<thread, kv, store, mq>> /\ WorkerOnly

\* The step's messages become history, and the loop goes on.
Commit(w) ==
  /\ pc[w] = "commit"
  /\ messages' = Append(messages,
       [run |-> Me(w), kind |-> IF then[w] = "park" THEN "call" ELSE then[w]])
  /\ steps' = [steps EXCEPT ![w] = @ + 1]
  /\ Go(w, CASE then[w] = "tool" -> "model" [] then[w] = "answer" -> "loopend"
             [] OTHER -> "park")
  /\ UNCHANGED <<thread, kv, rec, open, mq, used>>
  /\ UNCHANGED <<job, out, aborted, lost, val, then, prior>> /\ WorkerOnly

\* commitParks: a run that was stopped meanwhile parks nothing; its segment
\* ends as if it had.
Park(w) ==
  /\ pc[w] = "park"
  /\ IF CanMove({"RUNNING", "WAITING_FOR_INPUT"}, Me(w))
     THEN /\ Won(w, "WAITING_FOR_INPUT", "ask")
          /\ UNCHANGED <<job, out, aborted, lost, prior, steps>>
     ELSE UNCHANGED state /\ Only(w, "parked")
  /\ UNCHANGED <<owner, kv, store, mq, used>> /\ WorkerOnly

\* The request is published and its expiry queued, which may fail quietly.
Ask(w) ==
  /\ pc[w] = "ask"
  /\ open' = [open EXCEPT ![Me(w)] = "asked"]
  /\ \/ Put(queue, Me(w), "expiry")
     \/ UNCHANGED mq
  /\ Only(w, "parked")
  /\ UNCHANGED <<thread, kv, rec, messages, used>> /\ WorkerOnly

\* The segment ends holding the park, unless it was cut off meanwhile.
Parked(w) ==
  /\ pc[w] = "parked"
  /\ Leave(w, IF lost[w] THEN "lost" ELSE "executed")
  /\ UNCHANGED <<thread, kv, store, mq, used>> /\ WorkerOnly

LoopEnd(w) ==
  /\ pc[w] = "loopend"
  /\ IF lost[w] THEN Leave(w, "lost") /\ UNCHANGED rec ELSE Ends(w, aborted[w])
  /\ UNCHANGED <<thread, kv, messages, open, mq, used>> /\ WorkerOnly

\* finalize: the thread moves only while RUNNING under this run; the record is
\* closed either way.
Finalize(w) ==
  /\ pc[w] = "finalize"
  /\ IF CanMove({"RUNNING"}, Me(w))
     THEN /\ Won(w, val[w], "close")
          /\ UNCHANGED <<job, out, aborted, lost, prior, steps>>
     ELSE UNCHANGED state /\ Only(w, "close")
  /\ UNCHANGED <<owner, kv, store, mq, used>> /\ WorkerOnly

\* Where a delivery goes once its run is closed: a segment gives its lease back,
\* the retry policy clears the attempts, a redrive that gave up is done.
AfterClose(w) == CASE out[w] \in {"executed", "dead"} -> "release"
                   [] out[w] \in {"error", "permanent"} -> "ack"
                   [] out[w] \in {"conflict", "lost"} -> "idle"

\* closeRunRecord reads the record ...
CloseRead(w) ==
  /\ pc[w] = "close"
  /\ prior' = [prior EXCEPT ![w] = rec[Me(w)].state]
  /\ Go(w, "closing")
  /\ UNCHANGED <<job, out, aborted, lost, val, then, steps>>
  /\ UNCHANGED <<thread, kv, store, mq, used>> /\ WorkerOnly

\* ... and patches it with what that read decided: a cancellation is kept.
ClosePatch(w) ==
  /\ pc[w] = "closing"
  /\ IF prior[w] = "NONE" THEN UNCHANGED rec
     ELSE Patch(Me(w), IF prior[w] = "CANCELLED" THEN "CANCELLED" ELSE val[w], TRUE)
  /\ Only(w, AfterClose(w))
  /\ UNCHANGED <<thread, kv, messages, open, mq, used>> /\ WorkerOnly

\* executeWithPolicy, by outcome.
AfterReleaseDone(w) ==                                                  \* mutant
  CASE out[w] \in {"executed", "shutdown"} -> "ack"
    [] out[w] \in {"stale", "dead"} -> "idle"
    [] out[w] = "lost" -> "redrive"
    [] out[w] \in {"error", "permanent"} -> "policy"
AfterRelease(w) ==
  CASE out[w] = "executed" -> "ack"
    [] out[w] \in {"stale", "dead"} -> "idle"
    [] out[w] = "lost" -> "redrive"
    [] out[w] = "shutdown" -> "markqueued"
    [] out[w] \in {"error", "permanent"} -> "policy"

\* lease.release, and on.
Release(w) ==
  /\ pc[w] = "release"
  /\ FreeLock(w)
  /\ Only(w, AfterRelease(w))
  /\ UNCHANGED <<thread, hot, cur, attempts, redrives, store, mq, used>> /\ WorkerOnly

\* An executed job, or a failed run, clears the run's counters and is done.
Ack(w) ==
  /\ pc[w] = "ack"
  /\ attempts' = [attempts EXCEPT ![Me(w)] = 0]
  /\ redrives' = IF out[w] = "executed" THEN [redrives EXCEPT ![Me(w)] = 0] ELSE redrives
  /\ Only(w, "idle")
  /\ UNCHANGED <<thread, hot, cur, lock, store, mq, used>> /\ WorkerOnly

\* jobOf: the same run comes back later; a job past its deadline stays so.
Again(w) == Put(queue, Me(w), IF job[w].kind = "run" THEN "run" ELSE "late")

\* redriveOnLockConflict drops a job when the thread has ended under another
\* holder, when it is the holder's own job twice, when its run has ended under
\* its own lock, or when it was replaced.
Drops(w) ==
  \/ lock # NoLock /\ lock.run # Me(w) /\ state \in Terminal
  \/ lock.run = Me(w) /\ (lock.id = job[w].id \/ state \in Terminal)
  \/ cur # Me(w)

\* An ended run that nothing settled yet comes back all the same; any other job
\* comes back until its tries are spent, and then its run fails.
Redrive(w) ==
  /\ pc[w] = "redrive"
  /\ LET r == Me(w)
         unsettled == /\ lock.run = r /\ lock.id # job[w].id /\ state \in Terminal
                      /\ rec[r].state # "NONE" /\ ~rec[r].settled
     IN \/ /\ Drops(w) /\ Only(w, "idle") /\ UNCHANGED <<redrives, mq>>
        \/ unsettled /\ Again(w) /\ Only(w, "idle") /\ UNCHANGED redrives
        \/ /\ ~Drops(w) /\ redrives[r] < MaxRedrives
           /\ redrives' = [redrives EXCEPT ![r] = @ + 1]
           /\ Again(w) /\ Only(w, "idle")
        \/ /\ ~Drops(w) /\ redrives[r] = MaxRedrives
           /\ redrives' = [redrives EXCEPT ![r] = 0]
           /\ Only(w, "settle") /\ UNCHANGED mq
  /\ UNCHANGED <<thread, hot, cur, lock, attempts, store, used>> /\ WorkerOnly

\* A segment that threw: a stopped or replaced run is let go, an error that
\* cannot pass or the last attempt fails the run, any other is retried.
Policy(w) ==
  /\ pc[w] = "policy"
  /\ LET r == Me(w)
         gone == hot = "CANCELLED" \/ cur # r
         last == attempts[r] + 1 >= MaxAttempts
     IN \/ gone /\ Only(w, "idle") /\ UNCHANGED attempts
        \/ ~gone /\ out[w] = "permanent" /\ Only(w, "settle") /\ UNCHANGED attempts
        \/ /\ ~gone /\ out[w] # "permanent"
           /\ attempts' = [attempts EXCEPT ![r] = @ + 1]
           /\ Only(w, IF last THEN "settle" ELSE "markqueued")
  /\ UNCHANGED <<thread, hot, cur, lock, redrives, store, mq, used>> /\ WorkerOnly

\* markQueued: a RUNNING thread that is still this run's waits for the retry.
MarkQueued(w) ==
  /\ pc[w] = "markqueued"
  /\ IF cur = Me(w) /\ CanMove({"RUNNING"}, Me(w))
     THEN /\ Won(w, "QUEUED", "queuerec")
          /\ UNCHANGED <<job, out, aborted, lost, prior, steps>>
     ELSE UNCHANGED state /\ Only(w, "requeue")
  /\ UNCHANGED <<owner, kv, store, mq, used>> /\ WorkerOnly

QueueRecord(w) ==
  /\ pc[w] = "queuerec"
  /\ Patch(Me(w), "QUEUED", rec[Me(w)].ended)
  /\ Only(w, "requeue")
  /\ UNCHANGED <<thread, kv, messages, open, mq, used>> /\ WorkerOnly

Requeue(w) ==
  /\ pc[w] = "requeue"
  /\ Again(w)
  /\ Only(w, "idle")
  /\ UNCHANGED <<thread, kv, store, used>> /\ WorkerOnly

\* failRun, called under the lock (a refusal, a dead job) or after it was
\* released (the policy, a redrive that gave up).  It settles first; losing the
\* compare-and-set ends it there.
FailSettle(w) ==
  /\ pc[w] = "settle"
  /\ rec' = Settled(rec, Me(w)) \/ UNCHANGED rec
  /\ Only(w, "failrun")
  /\ UNCHANGED <<thread, kv, messages, open, mq, used>> /\ WorkerOnly

FailRun(w) ==
  /\ pc[w] = "failrun"
  /\ IF CanMove(Active, Me(w))
     THEN /\ Won(w, "FAILED", "close")
          /\ UNCHANGED <<job, out, aborted, lost, prior, steps>>
     ELSE UNCHANGED state /\ Only(w, AfterClose(w))
  /\ UNCHANGED <<owner, kv, store, mq, used>> /\ WorkerOnly

\* The control poll of a segment, and the lease's renewal timer: either fires
\* the abort signal.  A renewal that keeps failing gives the lease up before it
\* lapses; one that finds another value gives it up at once.
InSegment(w) == pc[w] \in {"check", "pickup", "hot", "pickrec", "resume", "unpark",
                           "land", "early", "model", "commit", "park", "ask", "parked",
                           "loopend"}
                /\ out[w] = "executed"

Poll(w) ==
  /\ InSegment(w) /\ ~aborted[w]
  /\ hot = "CANCELLED" \/ cur # Me(w)
  /\ aborted' = [aborted EXCEPT ![w] = TRUE]
  /\ UNCHANGED <<pc, job, out, lost, val, then, prior, steps>>
  /\ UNCHANGED <<thread, kv, store, mq, used>> /\ WorkerOnly

LeaseLost(w) ==
  /\ InSegment(w) /\ ~lost[w]
  /\ IF lock.by = w THEN Spend("lapse") ELSE UNCHANGED used
  /\ lost' = [lost EXCEPT ![w] = TRUE]
  /\ aborted' = [aborted EXCEPT ![w] = TRUE]
  /\ UNCHANGED <<pc, job, out, val, then, prior, steps>>
  /\ UNCHANGED <<thread, kv, store, mq>> /\ WorkerOnly

\* The process is killed; an at-least-once queue hands the job out again, one
\* that lives in the process loses it.
WorkerDies(w) ==
  /\ pc[w] \notin {"idle", "dead"}
  /\ Spend("death")
  /\ Only(w, "dead")
  /\ \/ queue' = queue \cup {job[w]}
     \/ UNCHANGED queue
  /\ UNCHANGED <<thread, kv, store, lastJob>> /\ WorkerOnly

Handle(w) ==
  \/ LostRun(w) \/ Acquire(w) \/ Check(w) \/ Pickup(w) \/ Hot(w)
  \/ PickRecord(w) \/ Resume(w) \/ Land(w) \/ Unpark(w) \/ Early(w) \/ Model(w)
  \/ Commit(w) \/ Park(w) \/ Ask(w) \/ Parked(w) \/ LoopEnd(w) \/ Finalize(w)
  \/ CloseRead(w) \/ ClosePatch(w) \/ Release(w) \/ Ack(w) \/ Redrive(w)
  \/ Policy(w) \/ MarkQueued(w) \/ QueueRecord(w) \/ Requeue(w)
  \/ FailSettle(w) \/ FailRun(w)

-------------------------------------------------------------------------------
\* respond() and the reclaim sweep.

\* The first answer to an open approval is kept and the run comes back; the
\* park's own expiry job is withdrawn, or could not be.
Respond ==
  /\ state = "WAITING_FOR_INPUT" /\ Open = "asked"
  /\ open' = [open EXCEPT ![cur] = "answered"]
  /\ \E q \in {queue, {j \in queue : j.run # cur \/ j.kind # "expiry"}} : Put(q, cur, "run")
  /\ UNCHANGED <<thread, kv, rec, messages, worker, others, used>>

\* The jobs the queue still has: waiting, or leased to a live worker.
Held == queue \cup {job[w] : w \in {v \in Workers : pc[v] \notin {"idle", "dead"}}}
Queued(r) == \E j \in Held : j.run = r

Dispatching(r) ==
  \E c \in Calls : call[c].run = r /\ call[c].pc \notin Over

\* reclaimIfOrphaned: a thread nothing is working on.  The wait of a lock lease
\* outlasts a dispatch, unless the dispatch is slow; a park is reclaimed once
\* its approval is past its deadline.
SweepFind ==
  /\ sweep.pc = "idle" /\ cur \in Runs
  /\ \/ /\ state \in {"QUEUED", "RUNNING"}
        /\ lock = NoLock /\ ~Queued(cur) /\ rec[cur].state # "NONE"
        /\ rec[cur].ended \/ ~Dispatching(cur) \/ allowed["slow"] > 0
        /\ sweep' = [pc |-> IF rec[cur].ended THEN "heal" ELSE "enqueue", run |-> cur,
                     val |-> IF rec[cur].state \in Terminal THEN rec[cur].state ELSE "FAILED"]
     \/ /\ state = "WAITING_FOR_INPUT" /\ Open # "none"
        /\ sweep' = [pc |-> "enqueue", run |-> cur, val |-> "FAILED"]
  /\ Spend("reclaim")
  /\ UNCHANGED <<thread, kv, store, mq, worker, call, stopper>>

SweepOnly == UNCHANGED <<worker, call, stopper>>

\* Keyed on the run: a second such job is refused while the first is held.
SweepEnqueue ==
  /\ sweep.pc = "enqueue"
  /\ IF \E j \in Held : j.run = sweep.run /\ j.kind = "reclaim"
     THEN UNCHANGED mq ELSE Put(queue, sweep.run, "reclaim")
  /\ sweep' = [sweep EXCEPT !.pc = "idle"]
  /\ UNCHANGED <<thread, kv, store, used>> /\ SweepOnly

\* The run's record ended but the thread never heard: it is moved to match.
SweepHeal ==
  /\ sweep.pc = "heal"
  /\ IF CanMove(Active, sweep.run)
     THEN state' = sweep.val /\ sweep' = [sweep EXCEPT !.pc = "hot"]
     ELSE UNCHANGED state /\ sweep' = [sweep EXCEPT !.pc = "idle"]
  /\ UNCHANGED <<owner, kv, store, mq, used>> /\ SweepOnly

SweepHot ==
  /\ sweep.pc = "hot"
  /\ hot' = sweep.val
  /\ sweep' = [sweep EXCEPT !.pc = "idle"]
  /\ UNCHANGED <<thread, cur, lock, attempts, redrives, store, mq, used>> /\ SweepOnly

Sweeping == SweepEnqueue \/ SweepHeal \/ SweepHot

\* The lock's key expires: its holder is gone, or gave the lease up; or the
\* holder is stalled past its lease and does not know.
Abandoned ==
  \/ lock.by \in Workers /\ (pc[lock.by] = "dead" \/ lost[lock.by])
  \/ lock.by = Stop /\ stopper.pc = "dead"

LockExpires ==
  /\ Abandoned
  /\ lock' = NoLock
  /\ UNCHANGED <<thread, hot, cur, attempts, redrives, store, mq, worker, others, used>>

LockLapses ==
  /\ lock # NoLock /\ ~Abandoned
  /\ Spend("lapse")
  /\ lock' = NoLock
  /\ UNCHANGED <<thread, hot, cur, attempts, redrives, store, mq, worker, others>>

-------------------------------------------------------------------------------
Init ==
  /\ state \in StartStates
  /\ owner = IF state = "IDLE" THEN None ELSE OldRun
  /\ hot = state /\ cur = owner
  /\ lock = NoLock
  /\ attempts = [r \in Runs |-> 0] /\ redrives = [r \in Runs |-> 0]
  /\ rec = [r \in Runs |-> [state |-> "NONE", ended |-> FALSE, settled |-> FALSE]]
  /\ messages = CASE state = "IDLE" -> <<>>
                  [] state = "COMPLETED" -> <<[run |-> OldRun, kind |-> "answer"]>>
                  [] OTHER -> <<[run |-> OldRun, kind |-> "user"]>>
  /\ open = [r \in Runs |-> "none"]
  /\ queue = {} /\ lastJob = 0
  /\ call = [c \in Calls |-> [pc |-> "idle", run |-> None, seen |-> "IDLE", prev |-> None]]
  /\ stopper = [pc |-> "idle", run |-> None, seen |-> None, parked |-> FALSE]
  /\ sweep = [pc |-> "idle", run |-> None, val |-> "FAILED"]
  /\ pc = [w \in Workers |-> "idle"] /\ job = [w \in Workers |-> NoJob]
  /\ out = [w \in Workers |-> "executed"]
  /\ aborted = [w \in Workers |-> FALSE] /\ lost = [w \in Workers |-> FALSE]
  /\ val = [w \in Workers |-> "FAILED"] /\ then = [w \in Workers |-> "idle"]
  /\ prior = [w \in Workers |-> "NONE"] /\ steps = [w \in Workers |-> 0]
  /\ used = [e \in Events |-> 0] /\ allowed \in Limits

\* What the program does, and what befalls it.
System ==
  \/ \E c \in Calls : (\E r \in Ids[c] : RunBegin(c, r)) \/ Dispatch(c)
  \/ Stopping \/ Sweeping \/ LockExpires
  \/ \E w \in Workers : Deliver(w) \/ Handle(w) \/ Poll(w)

Environment ==
  \/ \E c \in Calls : RunThrows(c) \/ RunDies(c)
  \/ StopRead \/ StopDies \/ Respond \/ SweepFind \/ LockLapses
  \/ \E w \in Workers : \/ DeadJob(w) \/ Refuse(w) \/ SegmentFails(w) \/ Shutdown(w)
                        \/ LeaseLost(w) \/ WorkerDies(w)

Next == (System \/ Environment) /\ UNCHANGED allowed

Spec == Init /\ [][Next]_vars

\* A process that is not killed takes its next step, the queue hands out what it
\* holds while a worker is free, a key past its time goes, and the host runs the
\* sweep again and again.
Fairness ==
  /\ \A c \in Calls : WF_moving(Dispatch(c))
  /\ WF_moving(Stopping) /\ WF_moving(Sweeping) /\ WF_moving(SweepFind) /\ WF_moving(LockExpires)
  /\ WF_moving(\E w \in Workers : Deliver(w))
  /\ \A w \in Workers : WF_moving(Handle(w))

FairSpec == Spec /\ Fairness
===============================================================================
