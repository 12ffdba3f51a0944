-------------------------- MODULE ConversationProofs --------------------------
(***************************************************************************)
(* What is written to the thread's conversation: a run answers once, and   *)
(* the turns of two runs do not mix.                                       *)
(***************************************************************************)
EXTENDS RunLifecycleProofs, FiniteSetTheorems

-------------------------------------------------------------------------------
\* The ways of a delivery through its segment.

WorkerMoves(w) ==
  \/ Deliver(w) \/ Handle(w) \/ Poll(w) \/ DeadJob(w) \/ Refuse(w)
  \/ SegmentFails(w) \/ Shutdown(w) \/ LeaseLost(w) \/ WorkerDies(w)
CallMoving(c) ==
  (\E r \in Ids[c] : RunBegin(c, r)) \/ Dispatch(c) \/ RunThrows(c) \/ RunDies(c)
OthersMove ==
  \/ StopRead \/ StopDies \/ Stopping
  \/ Respond \/ SweepFind \/ Sweeping \/ LockExpires \/ LockLapses

LEMMA Movers ==
  ASSUME [Next]_vars
  PROVE  \/ \E c \in Calls : CallMoving(c)
         \/ OthersMove
         \/ \E w \in Workers : WorkerMoves(w)
         \/ UNCHANGED vars
BY DEF Next, System, Environment, CallMoving, OthersMove, WorkerMoves

LEMMA WorkerAlone ==
  ASSUME IInv, NEW w \in Workers, WorkerMoves(w)
  PROVE  IInv' /\ Alone(w)
BY PickupKeeps, LoopKeeps, EndKeeps DEF WorkerMoves, Handle

\* Where a delivery is, or will be after its hot-state write.
At(w, p) == pc[w] = p \/ (pc[w] = "hot" /\ then[w] = p)

Inside == {"pickrec", "early", "model", "commit", "park", "ask", "resume", "land", "unpark", "loopend"}

Enters(w, p) ==
  \/ p = "pickrec" /\ Pickup(w) /\ CanMove({"QUEUED"}, Me(w)) /\ state' = "RUNNING"
  \/ p = "early" /\ \/ PickRecord(w)
                    \/ Unpark(w) /\ CanMove({"WAITING_FOR_INPUT"}, Me(w)) /\ state' = "RUNNING"
                    \/ Check(w) /\ cur = Me(w) /\ state = "RUNNING"
  \/ p = "resume" /\ Check(w) /\ cur = Me(w) /\ state = "WAITING_FOR_INPUT"
  \/ p = "land" /\ Resume(w) /\ Open # "none"
  \/ p = "unpark" /\ Land(w)
  \/ p = "model" /\ \/ Early(w) /\ ~Finished(w)
                    \/ Commit(w) /\ then[w] = "tool"
  \/ p = "commit" /\ Model(w)
  \/ p = "park" /\ Commit(w) /\ then[w] = "park"
  \/ p = "ask" /\ Park(w) /\ CanMove({"RUNNING", "WAITING_FOR_INPUT"}, Me(w))
               /\ state' = "WAITING_FOR_INPUT"
  \/ p = "loopend" /\ \/ Model(w)
                      \/ Commit(w) /\ then[w] = "answer"

LEMMA WorkerPath ==
  ASSUME IInv, NEW w \in Workers, WorkerMoves(w), NEW p \in Inside, At(w, p)'
  PROVE  /\ Me(w)' = Me(w) /\ job[w] \in Jobs
         /\ \/ Enters(w, p)
            \/ At(w, p) /\ then'[w] = then[w] /\ UNCHANGED <<state, messages, open>>
<1> USE DEF IInv, TypeOK, WorkersType, At, Inside
<1>1. job[w] \in Jobs \/ Deliver(w) \/ DeadJob(w)
  BY DEF WorkerMoves, Handle, WorkerKnows, LostRun, Acquire, Check, Refuse,
     Pickup, Hot, PickRecord, Resume, Land, Unpark, Early, Model, SegmentFails, Shutdown,
     Commit, Park, Ask, Parked, LoopEnd, Finalize, CloseRead, ClosePatch, Release, Ack, Redrive,
     Policy, MarkQueued, QueueRecord, Requeue, FailSettle, FailRun, Poll, LeaseLost, WorkerDies,
     InSegment
<1>2. CASE Deliver(w) \/ DeadJob(w) \/ LostRun(w) \/ Acquire(w) \/ Refuse(w)
  BY <1>2 DEF Deliver, DeadJob, LostRun, Acquire, Refuse, Go, Only
<1>3. CASE Check(w)
  <2>1. CASE Leave(w, "stale") \/ Leave(w, "executed")
    BY <2>1 DEF Leave, Go
  <2>2. CASE /\ cur = Me(w) /\ state \in Active
             /\ Only(w, CASE state = "QUEUED" -> "pickup"
                     [] state = "WAITING_FOR_INPUT" -> "resume"
                     [] OTHER -> "early")
    <3>1. CASE state = "QUEUED"
      BY <2>2, <3>1 DEF Only, Go
    <3>2. CASE state = "WAITING_FOR_INPUT"
      BY <1>1, <1>3, <2>2, <3>2 DEF Only, Go, Enters, Check, Deliver, DeadJob, Me
    <3>3. CASE state = "RUNNING"
      BY <1>1, <1>3, <2>2, <3>3 DEF Only, Go, Enters, Check, Deliver, DeadJob, Me
    <3> QED BY <2>2, <3>1, <3>2, <3>3 DEF Active
  <2> QED BY <1>3, <2>1, <2>2 DEF Check
<1>4. CASE Pickup(w) \/ Unpark(w) \/ Park(w)
  BY <1>1, <1>4 DEF Pickup, Unpark, Park, Won, Go, Leave, Only, Enters, Me, Deliver, DeadJob
<1>5. CASE Hot(w) \/ Poll(w) \/ LeaseLost(w)
  BY <1>1, <1>5 DEF Hot, Poll, LeaseLost, Only, Go, Fresh, thread, store, Me, Deliver, DeadJob, InSegment
<1>6. CASE PickRecord(w) \/ Land(w)
  BY <1>1, <1>6 DEF PickRecord, Land, Only, Go, Enters, Me, Deliver, DeadJob
<1>13. CASE Resume(w)
  BY <1>1, <1>13 DEF Resume, Only, Go, Leave, Enters, Me, Deliver, DeadJob
<1>14. CASE Early(w)
  <2>1. CASE Finished(w)
    <3>1. pc' = [pc EXCEPT ![w] = "finalize"]
      BY <1>14, <2>1 DEF Early, Ends, Go
    <3> QED BY <3>1
  <2>2. CASE ~Finished(w)
    <3>1. pc' = [pc EXCEPT ![w] = "model"] /\ job' = job
      BY <1>14, <2>2 DEF Early, Only, Go
    <3>2. p = "model" /\ job[w] \in Jobs
      BY <1>14, <3>1 DEF WorkerKnows, Early
    <3>3. Enters(w, p)
      BY <1>14, <2>2, <3>2, Zenon DEF Enters
    <3> QED BY <3>1, <3>2, <3>3 DEF Me
  <2> QED BY <2>1, <2>2
<1>7. CASE Model(w)
  <2>1. (pc' = [pc EXCEPT ![w] = "loopend"] \/ pc' = [pc EXCEPT ![w] = "commit"]) /\ job' = job
        /\ job[w] \in Jobs
    BY <1>7 DEF Model, Go, WorkerKnows
  <2>2. p \in {"loopend", "commit"}
    BY <2>1
  <2>3. Enters(w, p)
    BY <1>7, <2>2, Zenon DEF Enters
  <2> QED BY <2>1, <2>3 DEF Me
<1>8. CASE Commit(w)
  BY <1>1, <1>8 DEF Commit, Go, Enters, Me, WorkerKnows, Deliver, DeadJob
<1>9. CASE Ask(w) \/ Parked(w) \/ LoopEnd(w) \/ SegmentFails(w) \/ Shutdown(w)
  BY <1>9 DEF Ask, Parked, LoopEnd, SegmentFails, Shutdown, Only, Go, Leave, Ends
<1>10. CASE Finalize(w) \/ FailRun(w) \/ MarkQueued(w)
  BY <1>10 DEF Finalize, FailRun, MarkQueued, Won, Only, Go, Fresh, AfterClose, WorkerKnows, Outcomes
<1>11. CASE CloseRead(w)
  BY <1>11 DEF CloseRead, Go
<1>15. CASE ClosePatch(w)
  <2>1. Only(w, AfterClose(w)) /\ AfterClose(w) \in {"release", "ack", "idle"}
    BY <1>15 DEF ClosePatch, AfterClose, WorkerKnows, Outcomes
  <2> QED BY <2>1 DEF Only, Go
<1>16. CASE Release(w)
  <2>1. Only(w, AfterRelease(w))
        /\ AfterRelease(w) \in {"ack", "idle", "redrive", "markqueued", "policy"}
    BY <1>16 DEF Release, AfterRelease, WorkerKnows, Outcomes
  <2> QED BY <2>1 DEF Only, Go
<1>12. CASE Ack(w) \/ Redrive(w) \/ Policy(w) \/ QueueRecord(w) \/ Requeue(w) \/ FailSettle(w)
            \/ WorkerDies(w)
  BY <1>12 DEF Ack, Redrive, Policy, QueueRecord, Requeue, FailSettle, WorkerDies, Only, Go
<1> QED BY <1>2, <1>3, <1>4, <1>5, <1>6, <1>7, <1>8, <1>9, <1>10, <1>11, <1>12,
           <1>13, <1>14, <1>15, <1>16
        DEF WorkerMoves, Handle

-------------------------------------------------------------------------------
\* Where the queue's jobs go, and who writes to the conversation.

Live(w) == pc[w] \notin {"idle", "dead"}

LEMMA QueuedIs ==
  ASSUME NEW r
  PROVE  /\ Queued(r) <=> (\E j \in queue : j.run = r) \/ (\E w \in Workers : Live(w) /\ Me(w) = r)
         /\ Queued(r)' <=> (\E j \in queue' : j.run = r) \/ (\E w \in Workers : Live(w)' /\ Me(w)' = r)
BY DEF Queued, Held, Live, Me

\* A delivery takes its job from the queue, and puts it back only as it ends.
LEMMA WorkerQueue ==
  ASSUME IInv, NEW w \in Workers, WorkerMoves(w)
  PROVE  \/ queue' = queue /\ (Live(w)' => Live(w) /\ Me(w)' = Me(w))
         \/ ~Live(w) /\ \E j \in queue : queue' = queue \ {j} /\ job'[w] = j
         \/ Live(w) /\ ~Live(w)' /\ \E j \in Jobs : j.run = Me(w) /\ queue' = queue \cup {j}
         \/ Ask(w) \/ used'["dup"] # 0
<1> USE DEF IInv, TypeOK, WorkersType, Live
<1>1. CASE Deliver(w)
  <2>1. CASE Spend("dup")
    BY <2>1, SpendGrows DEF Events
  <2>2. CASE ~Spend("dup")
    BY <1>1, <2>2 DEF Deliver
  <2> QED BY <2>1, <2>2
<1>2. CASE DeadJob(w)
  BY <1>2, SpendGrows DEF DeadJob, Events
<1>3. CASE Requeue(w) \/ Redrive(w)
  <2>1. job[w] \in Jobs /\ Live(w)
    BY <1>3 DEF Requeue, Redrive, WorkerKnows
  <2>2. ASSUME Again(w)
        PROVE  \E j \in Jobs : j.run = Me(w) /\ queue' = queue \cup {j}
    <3>1. Me(w) \in Runs /\ lastJob \in 0..MaxJobs
      BY <2>1, JobRuns DEF QueueType
    <3>2. PICK k \in Kinds : Put(queue, Me(w), k)
      BY <2>2 DEF Again, Kinds
    <3>3. [run |-> Me(w), id |-> lastJob + 1, kind |-> k] \in Jobs
      BY <3>1, <3>2, BoundsAssumption DEF Jobs, Put
    <3> QED BY <3>2, <3>3 DEF Put
  <2>3. CASE Again(w) /\ Only(w, "idle")
    <3>1. ~Live(w)'
      BY <2>3 DEF Only, Go
    <3> QED BY <2>1, <2>2, <2>3, <3>1
  <2>4. CASE queue' = queue /\ \E p \in {"idle", "settle"} : Only(w, p)
    BY <2>1, <2>4 DEF Only, Go, Fresh, Me
  <2> QED BY <1>3, <2>3, <2>4 DEF Requeue, Redrive, mq
<1>4. CASE WorkerDies(w)
  <2>1. job[w] \in Jobs /\ Live(w) /\ ~Live(w)'
    BY <1>4 DEF WorkerDies, WorkerKnows, Only, Go
  <2> QED BY <1>4, <2>1 DEF WorkerDies, Me
<1>5. CASE \/ LostRun(w) \/ Acquire(w) \/ Check(w) \/ Refuse(w) \/ Pickup(w) \/ Hot(w)
           \/ PickRecord(w) \/ Resume(w) \/ Land(w) \/ Unpark(w)
  <2>1. queue' = queue /\ Live(w)
    BY <1>5 DEF LostRun, Acquire, Check, Refuse, Pickup, Hot, PickRecord, Resume, Land, Unpark, mq
  <2>2. job'[w] = job[w] \/ ~Live(w)'
    <3>1. CASE LostRun(w) \/ Acquire(w) \/ Refuse(w) \/ Pickup(w) \/ Hot(w)
      BY <3>1 DEF LostRun, Acquire, Refuse, Pickup, Hot, Only, Fresh, Leave, Won, Go
    <3>2. CASE PickRecord(w) \/ Resume(w) \/ Land(w) \/ Unpark(w)
      BY <3>2 DEF PickRecord, Resume, Land, Unpark, Only, Fresh, Leave, Won, Go
    <3>3. CASE Check(w)
      BY <3>3 DEF Check, Only, Fresh, Leave, Go
    <3> QED BY <1>5, <3>1, <3>2, <3>3
  <2> QED BY <2>1, <2>2 DEF Me
<1>6. CASE \/ Early(w) \/ Model(w) \/ SegmentFails(w) \/ Shutdown(w) \/ Commit(w) \/ Park(w)
           \/ Parked(w) \/ LoopEnd(w) \/ Finalize(w) \/ CloseRead(w)
  <2>1. queue' = queue /\ Live(w)
    BY <1>6 DEF Early, Model, SegmentFails, Shutdown, Commit, Park, Parked, LoopEnd, Finalize,
       CloseRead, mq
  <2>2. job'[w] = job[w]
    <3>1. CASE Early(w) \/ Model(w) \/ SegmentFails(w) \/ Shutdown(w) \/ Commit(w)
      BY <3>1 DEF Early, Model, SegmentFails, Shutdown, Commit, Only, Leave, Ends
    <3>2. CASE Park(w) \/ Parked(w) \/ LoopEnd(w) \/ Finalize(w) \/ CloseRead(w)
      BY <3>2 DEF Park, Parked, LoopEnd, Finalize, CloseRead, Only, Leave, Ends
    <3> QED BY <1>6, <3>1, <3>2
  <2> QED BY <2>1, <2>2 DEF Me
<1>7. CASE \/ ClosePatch(w) \/ Release(w) \/ Ack(w) \/ Policy(w) \/ MarkQueued(w)
           \/ QueueRecord(w) \/ FailSettle(w) \/ FailRun(w) \/ Poll(w) \/ LeaseLost(w)
  <2>1. queue' = queue /\ Live(w)
    BY <1>7 DEF ClosePatch, Release, Ack, Policy, MarkQueued, QueueRecord, FailSettle, FailRun,
       Poll, LeaseLost, InSegment, mq
  <2>2. job'[w] = job[w] \/ ~Live(w)'
    <3>1. CASE ClosePatch(w) \/ Release(w) \/ Ack(w) \/ Policy(w) \/ FailRun(w)
      BY <3>1 DEF ClosePatch, Release, Ack, Policy, FailRun, Won, Only, Fresh, Go
    <3>2. CASE MarkQueued(w) \/ QueueRecord(w) \/ FailSettle(w) \/ Poll(w) \/ LeaseLost(w)
      BY <3>2 DEF MarkQueued, QueueRecord, FailSettle, Poll, LeaseLost, Won, Only
    <3> QED BY <1>7, <3>1, <3>2
  <2> QED BY <2>1, <2>2 DEF Me
<1>8. CASE Ask(w)
  BY <1>8
<1> QED BY <1>1, <1>2, <1>3, <1>4, <1>5, <1>6, <1>7, <1>8 DEF WorkerMoves, Handle

\* An open approval is answered with a cancellation and closed.
Closes ==
  /\ Open # "none"
  /\ messages' = Append(messages, [run |-> cur, kind |-> "result"])
  /\ open' = [open EXCEPT ![cur] = "none"]

LEMMA WorkerSays ==
  ASSUME NEW w \in Workers, WorkerMoves(w)
  PROVE  UNCHANGED <<messages, open>> \/ Closes \/ Land(w) \/ Commit(w) \/ Ask(w)
<1> USE DEF store, CloseParks, Closes
<1>1. CASE \/ Deliver(w) \/ DeadJob(w) \/ LostRun(w) \/ Acquire(w) \/ Check(w) \/ Refuse(w)
           \/ Pickup(w) \/ Hot(w) \/ PickRecord(w) \/ Resume(w) \/ Unpark(w) \/ Early(w)
  BY <1>1 DEF Deliver, DeadJob, LostRun, Acquire, Check, Refuse, Pickup, Hot, PickRecord, Resume,
     Unpark, Early
<1>2. CASE \/ Model(w) \/ SegmentFails(w) \/ Shutdown(w) \/ Park(w) \/ Parked(w) \/ LoopEnd(w)
           \/ Finalize(w) \/ CloseRead(w) \/ ClosePatch(w) \/ Release(w)
  BY <1>2 DEF Model, SegmentFails, Shutdown, Park, Parked, LoopEnd, Finalize, CloseRead,
     ClosePatch, Release
<1>3. CASE \/ Ack(w) \/ Redrive(w) \/ Policy(w) \/ MarkQueued(w) \/ QueueRecord(w) \/ Requeue(w)
           \/ FailSettle(w) \/ FailRun(w) \/ Poll(w) \/ LeaseLost(w) \/ WorkerDies(w)
  BY <1>3 DEF Ack, Redrive, Policy, MarkQueued, QueueRecord, Requeue, FailSettle, FailRun, Poll,
     LeaseLost, WorkerDies
<1> QED BY <1>1, <1>2, <1>3 DEF WorkerMoves, Handle

LEMMA OthersSay ==
  ASSUME OthersMove
  PROVE  UNCHANGED <<messages, open>> \/ Closes \/ Respond
<1> USE DEF store, CloseParks, Closes
<1>1. CASE StopRead \/ StopDies \/ Stopping
  BY <1>1 DEF StopRead, StopDies, Stopping, StopWhich, StopCas, StopHot, StopRecord, StopLease,
     StopSettle, StopRelease, StopParks
<1>2. CASE SweepFind \/ Sweeping \/ LockExpires \/ LockLapses
  BY <1>2 DEF SweepFind, Sweeping, SweepEnqueue, SweepHeal, SweepHot, LockExpires, LockLapses
<1> QED BY <1>1, <1>2 DEF OthersMove

LEMMA CallSays ==
  ASSUME NEW c \in Calls, CallMoving(c)
  PROVE  UNCHANGED <<messages, open>> \/ RunAppend(c)
BY DEF CallMoving, Dispatch, RunBegin, RunAdmit, RunHot, RunInstall, RunStart, RunCheck,
   RunEnqueue, RunStopHot, RunFail, RunFailHot, RunThrows, RunDies, store

-------------------------------------------------------------------------------
\* The runs that were admitted.

LEMMA AdmittedGrows ==
  ASSUME IInv, [Next]_vars
  PROVE  Admitted \subseteq Admitted'
<1> USE DEF IInv, TypeOK, ActorsType
<1>1. ASSUME NEW d \in Calls, call[d].pc \notin {"idle", "admit", "busy"}
      PROVE  call'[d].pc \notin {"idle", "admit", "busy"} /\ call'[d].run = call[d].run
  <2>1. CASE CallMoving(d)
    <3>1. CASE RunInstall(d)
      <4>1. call'[d] = [call[d] EXCEPT !.pc = "start", !.prev = call[d].run]
        BY <3>1 DEF RunInstall
      <4> QED BY <4>1
    <3>2. CASE ~RunInstall(d)
      <4>1. \E p \in CallPcs \ {"idle", "admit", "busy"} : CallGoes(d, p)
        BY <1>1, <2>1, <3>2 DEF CallMoving, Dispatch, RunBegin, RunAdmit, RunHot, RunStart, RunCheck,
           RunAppend, RunEnqueue, RunStopHot, RunFail, RunFailHot, RunThrows, RunDies, CallPcs, Over
      <4> QED BY <4>1 DEF CallGoes
    <3> QED BY <3>1, <3>2
  <2>2. ASSUME NEW c \in Calls \ {d}, CallMoving(c) PROVE call'[d] = call[d]
    BY <2>2, CallWritesOwn DEF CallMoving, CallWrites
  <2>3. OthersMove => call' = call
    BY OthersWriteNamed DEF OthersMove, OthersWrites
  <2>4. ASSUME NEW w \in Workers, WorkerMoves(w) PROVE call' = call
    BY <2>4, WorkerWrites DEF WorkerMoves, OwnsWrites
  <2>5. UNCHANGED vars => call' = call
    BY DEF vars
  <2> QED BY <1>1, <2>1, <2>2, <2>3, <2>4, <2>5, Movers
<1> QED BY <1>1 DEF Admitted

\* A run that has left a trace was admitted.
LEMMA TouchedAdmitted ==
  ASSUME Begins, NEW r \in Runs, ~Untouched(r)
  PROVE  r \in Admitted
BY DEF Begins, Unsent, Admitted, NotYet

\* A call that has begun but has not claimed the thread is the first with its run.
LEMMA NotAdmittedYet ==
  ASSUME IInv, OwnIdsOnly, NEW c \in Calls, call[c].pc = "admit"
  PROVE  call[c].run \notin Admitted
BY OwnRuns DEF Admitted

\* A thread that is going, or that somebody stopped, has had a run.
Going == state \in Active \/ stopper.pc # "idle" => Admitted # {}

LEMMA GoingInductive == Spec => []Going
<1>1. Init => Going
  BY StartAssumption DEF Init, Going, Active, Terminal
<1>2. ASSUME IInv, Going, [Next]_vars PROVE Going'
  <2>1. CASE Admitted # {}
    BY <1>2, <2>1, AdmittedGrows DEF Going
  <2>2. ASSUME NEW c \in Calls, call'[c].pc = "hot" PROVE Admitted' # {}
    BY <2>2 DEF Admitted
  <2>3. stopper'.pc # "idle" => stopper.pc # "idle" \/ state \in Active
    <3>1. CASE StopRead
      BY <3>1 DEF StopRead
    <3>2. CASE ~StopRead
      <4>1. ASSUME NEW c \in Calls, CallMoving(c) PROVE stopper' = stopper
        BY <1>2, <4>1, CallWritesOwn DEF CallMoving, CallWrites
      <4>2. ASSUME NEW w \in Workers, WorkerMoves(w) PROVE stopper' = stopper
        BY <1>2, <4>2, WorkerWrites DEF WorkerMoves, OwnsWrites
      <4>3. OthersMove => stopper' = stopper \/ stopper.pc # "idle"
        BY <3>2 DEF OthersMove, StopDies, Stopping, StopWhich, StopCas, StopHot, StopRecord,
           StopLease, StopSettle, StopRelease, StopParks, Respond, SweepFind, Sweeping,
           SweepEnqueue, SweepHeal, SweepHot, SweepOnly, LockExpires, LockLapses, others
      <4> QED BY <1>2, <4>1, <4>2, <4>3, Movers DEF vars
    <3> QED BY <3>1, <3>2
  <2> QED BY <1>2, <2>1, <2>2, <2>3, Goes DEF Going
<1> QED BY Inductive, <1>1, <1>2, PTL DEF Spec

LEMMA CalmBefore ==
  ASSUME IInv, [Next]_vars
  PROVE  /\ Calm' => Calm /\ Spared({"lapse"}) /\ allowed["slow"] = 0
         /\ One' => One
         /\ Singly' => Singly
<1>1. allowed' = allowed
  BY DEF Next, vars
<1>2. One' => One
  BY AdmittedGrows DEF One
<1>3. Singly' => Singly
  BY NextGrows, SparedBefore DEF Singly, Events
<1>4. Spared({"lapse"})' => Spared({"lapse"})
  BY NextGrows, SparedBefore DEF Events
<1> QED BY <1>1, <1>2, <1>3, <1>4 DEF Calm

-------------------------------------------------------------------------------
\* How the thread's state moves.

LEMMA WorkerState ==
  ASSUME IInv, NEW w \in Workers, WorkerMoves(w)
  PROVE  \/ state' = state
         \/ Pickup(w) /\ CanMove({"QUEUED"}, Me(w)) /\ state' = "RUNNING"
         \/ Unpark(w) /\ CanMove({"WAITING_FOR_INPUT"}, Me(w)) /\ state' = "RUNNING"
         \/ Park(w) /\ CanMove({"RUNNING", "WAITING_FOR_INPUT"}, Me(w))
                    /\ state' = "WAITING_FOR_INPUT"
         \/ MarkQueued(w) /\ CanMove({"RUNNING"}, Me(w)) /\ state' = "QUEUED"
         \/ (Finalize(w) \/ FailRun(w)) /\ state' \in Terminal
<1>1. CASE Pickup(w) \/ Unpark(w) \/ Park(w) \/ MarkQueued(w)
  BY <1>1 DEF Pickup, Unpark, Park, MarkQueued, Won
<1>2. CASE Finalize(w) \/ FailRun(w)
  BY <1>2 DEF Finalize, FailRun, Won, IInv, WorkerKnows, Terminal
<1>3. CASE \/ Deliver(w) \/ DeadJob(w) \/ LostRun(w) \/ Acquire(w) \/ Check(w) \/ Refuse(w)
           \/ Hot(w) \/ PickRecord(w) \/ Resume(w) \/ Land(w) \/ Early(w) \/ Model(w)
  BY <1>3 DEF Deliver, DeadJob, LostRun, Acquire, Check, Refuse, Hot, PickRecord, Resume, Land,
     Early, Model, thread
<1>4. CASE \/ SegmentFails(w) \/ Shutdown(w) \/ Commit(w) \/ Ask(w) \/ Parked(w) \/ LoopEnd(w)
           \/ CloseRead(w) \/ ClosePatch(w) \/ Release(w) \/ Ack(w) \/ Redrive(w)
  BY <1>4 DEF SegmentFails, Shutdown, Commit, Ask, Parked, LoopEnd, CloseRead, ClosePatch,
     Release, Ack, Redrive, thread
<1>5. CASE \/ Policy(w) \/ QueueRecord(w) \/ Requeue(w) \/ FailSettle(w) \/ Poll(w)
           \/ LeaseLost(w) \/ WorkerDies(w)
  BY <1>5 DEF Policy, QueueRecord, Requeue, FailSettle, Poll, LeaseLost, WorkerDies, thread
<1> QED BY <1>1, <1>2, <1>3, <1>4, <1>5 DEF WorkerMoves, Handle

LEMMA OthersState ==
  ASSUME IInv, OthersMove
  PROVE  state' = state \/ state' \in Terminal
<1>1. CASE StopCas \/ SweepHeal
  BY <1>1 DEF StopCas, SweepHeal, IInv, TypeOK, ActorsType, Terminal
<1>2. CASE ~StopCas /\ ~SweepHeal
  BY <1>2 DEF OthersMove, StopRead, StopDies, Stopping, StopWhich, StopHot, StopRecord, StopLease,
     StopSettle, StopRelease, StopParks, Respond, SweepFind, Sweeping, SweepEnqueue, SweepHot,
     LockExpires, LockLapses, thread
<1> QED BY <1>1, <1>2

\* A thread that is not going stays as it is until a call claims it.
LEMMA Rests ==
  ASSUME IInv, [Next]_vars, state \notin Active, state' # state
  PROVE  \E c \in Calls : call[c].pc = "admit" /\ call'[c].pc = "hot" /\ call'[c].run = call[c].run
<1>1. ASSUME NEW c \in Calls, CallMoving(c)
      PROVE  call[c].pc = "admit" /\ call'[c].pc = "hot" /\ call'[c].run = call[c].run
  BY <1>1, CallStands, CallWritesOwn DEF CallMoving, CallWrites, MovedBy, thread
<1>2. ~OthersMove
  BY OthersStand DEF OthersMove, MovedBy
<1>3. ASSUME NEW w \in Workers, WorkerMoves(w) PROVE FALSE
  BY <1>3, WorkerStands DEF WorkerMoves, MovedBy
<1> QED BY <1>1, <1>2, <1>3, Movers DEF vars

-------------------------------------------------------------------------------
\* While nothing was parked, no step of a park is reached.

Parks == {"resume", "land", "unpark", "park", "ask"}

NoParks ==
  Spared({"park"}) =>
    /\ state # "WAITING_FOR_INPUT"
    /\ \A r \in Runs : open[r] = "none"
    /\ \A w \in Workers : /\ \A p \in Parks : ~At(w, p)
                          /\ pc[w] = "commit" => then[w] # "park"

LEMMA NoParksInit == Init => NoParks
BY StartAssumption DEF Init, NoParks, Parks, At, Terminal

LEMMA NoParksKept ==
  ASSUME IInv, NoParks, [Next]_vars
  PROVE  NoParks'
<1> SUFFICES ASSUME Spared({"park"})'
             PROVE  /\ state' # "WAITING_FOR_INPUT"
                    /\ \A r \in Runs : open'[r] = "none"
                    /\ \A w \in Workers : /\ \A p \in Parks : ~At(w, p)'
                                          /\ pc'[w] = "commit" => then'[w] # "park"
  BY DEF NoParks
<1> USE DEF IInv, TypeOK
<1>1. /\ state # "WAITING_FOR_INPUT" /\ \A r \in Runs : open[r] = "none"
      /\ \A w \in Workers : (\A p \in Parks : ~At(w, p)) /\ (pc[w] = "commit" => then[w] # "park")
  BY NextGrows, SparedBefore DEF NoParks, Events
<1>2. Open = "none"
  BY <1>1 DEF Open
<1>3. ASSUME UNCHANGED worker
      PROVE  \A w \in Workers : (\A p \in Parks : ~At(w, p)') /\ (pc'[w] = "commit" => then'[w] # "park")
  BY <1>1, <1>3 DEF At, worker
<1>4. ASSUME NEW c \in Calls, CallMoving(c) PROVE NoParks'
  <2>1. UNCHANGED worker
    BY <1>4 DEF CallMoving, Dispatch, RunBegin, RunAdmit, RunHot, RunInstall, RunStart, RunCheck,
       RunAppend, RunEnqueue, RunStopHot, RunFail, RunFailHot, RunThrows, RunDies, CallOnly
  <2>2. open' = open
    BY <1>4, CallWritesOwn DEF CallMoving, CallWrites
  <2>3. state' # "WAITING_FOR_INPUT"
    BY <1>1, <1>4, CallStands DEF CallMoving, thread
  <2> QED BY <1>1, <1>3, <2>1, <2>2, <2>3 DEF NoParks
<1>5. CASE OthersMove
  <2>1. UNCHANGED worker
    BY <1>5 DEF OthersMove, StopRead, StopDies, Stopping, StopWhich, StopCas, StopHot, StopRecord,
       StopLease, StopSettle, StopRelease, StopParks, StopOnly, Respond, SweepFind, Sweeping,
       SweepEnqueue, SweepHeal, SweepHot, SweepOnly, LockExpires, LockLapses
  <2>2. open' = open
    BY <1>2, <1>5, OthersSay DEF Closes, Respond
  <2>3. state' # "WAITING_FOR_INPUT"
    BY <1>1, <1>5, OthersState DEF Terminal
  <2> QED BY <1>1, <1>3, <2>1, <2>2, <2>3 DEF NoParks
<1>6. ASSUME NEW w \in Workers, WorkerMoves(w) PROVE NoParks'
  <2>1. \A v \in Workers \ {w} : pc'[v] = pc[v] /\ then'[v] = then[v]
    BY <1>6, WorkerAlone DEF Alone
  <2>2. ~Land(w) /\ ~Ask(w) /\ ~Park(w) /\ ~Unpark(w) /\ ~Resume(w)
    BY <1>1 DEF Land, Ask, Park, Unpark, Resume, At, Parks
  <2>3. state' # "WAITING_FOR_INPUT"
    BY <1>1, <1>6, <2>2, WorkerState DEF Terminal
  <2>4. open' = open
    BY <1>2, <1>6, <2>2, WorkerSays DEF Closes, Commit
  <2>5. ASSUME NEW p \in Parks, At(w, p)' PROVE FALSE
    <3>1. Enters(w, p) \/ At(w, p)
      BY <1>6, <2>5, WorkerPath DEF Parks, Inside
    <3>2. ~Enters(w, p)
      BY <1>1, <2>2, <2>5 DEF Enters, Parks, Commit
    <3> QED BY <1>1, <3>1, <3>2
  <2>6. ASSUME pc'[w] = "commit" PROVE then'[w] # "park"
    <3>1. Enters(w, "commit") \/ (At(w, "commit") /\ then'[w] = then[w])
      BY <1>6, <2>6, WorkerPath DEF At, Inside
    <3>2. CASE Model(w)
      <4>1. then'[w] = "park" => Spend("park")
        BY <2>6, <3>2 DEF Model, Go, WorkersType
      <4> QED BY <4>1, SpendGrows DEF Events, Spared
    <3>3. CASE At(w, "commit") /\ then'[w] = then[w]
      BY <1>1, <3>3 DEF At, WorkerKnows, HotKnows
    <3> QED BY <3>1, <3>2, <3>3 DEF Enters
  <2> QED BY <1>1, <2>1, <2>3, <2>4, <2>5, <2>6 DEF NoParks, At
<1>7. CASE UNCHANGED vars
  BY <1>1, <1>3, <1>7 DEF vars, worker
<1> QED BY <1>4, <1>5, <1>6, <1>7, Movers DEF NoParks

LEMMA NoParksInductive == Spec => []NoParks
BY Inductive, NoParksInit, NoParksKept, PTL DEF Spec

-------------------------------------------------------------------------------
\* While the thread has had one run only.

\* A thread that ended stays as it is.
LEMMA OneRests ==
  ASSUME IInv, OwnIdsOnly, [Next]_vars, One', Admitted # {}, state \notin Active
  PROVE  state' = state
<1> SUFFICES ASSUME state' # state PROVE FALSE
  OBVIOUS
<1>1. PICK c \in Calls : call[c].pc = "admit" /\ call'[c].pc = "hot" /\ call'[c].run = call[c].run
  BY Rests
<1>2. call[c].run \in Admitted' /\ call[c].run \notin Admitted
  BY <1>1, NotAdmittedYet DEF Admitted
<1>3. PICK r \in Admitted : TRUE
  OBVIOUS
<1>4. r \in Admitted'
  BY AdmittedGrows
<1> QED BY <1>2, <1>3, <1>4 DEF One

\* What a stop stopped stays stopped until it is done.
PastCas == {"hot", "record", "lease", "leased", "release", "parks"}

Stopped == One /\ stopper.pc \in PastCas => state \in Terminal

LEMMA StoppedKept ==
  ASSUME IInv, OwnIdsOnly, Going, Stopped, [Next]_vars
  PROVE  Stopped'
<1> SUFFICES ASSUME One', stopper'.pc \in PastCas PROVE state' \in Terminal
  BY DEF Stopped
<1>1. CASE stopper.pc \in PastCas
  <2>1. state \in Terminal /\ state \notin Active /\ Admitted # {}
    BY <1>1, CalmBefore DEF Stopped, Going, PastCas, Terminal, Active
  <2> QED BY <2>1, OneRests
<1>2. CASE stopper.pc \notin PastCas
  <2>1. ASSUME NEW c \in Calls, CallMoving(c) PROVE stopper' = stopper
    BY <2>1, CallWritesOwn DEF CallMoving, CallWrites
  <2>2. ASSUME NEW w \in Workers, WorkerMoves(w) PROVE stopper' = stopper
    BY <2>2, WorkerWrites DEF WorkerMoves, OwnsWrites
  <2>3. OthersMove => stopper' = stopper \/ stopper'.pc \notin PastCas \/ StopCas
    <3>1. CASE StopRead \/ StopDies
      BY <3>1 DEF StopRead, StopDies, StopGoes, PastCas, IInv, TypeOK, ActorsType
    <3>4. CASE StopWhich
      <4>1. stopper' = [[stopper EXCEPT !.pc = "cas"] EXCEPT !.run = cur]
        BY <3>4 DEF StopWhich
      <4>2. stopper'.pc = "cas"
        BY <4>1 DEF IInv, TypeOK, ActorsType
      <4> QED BY <4>2 DEF PastCas
    <3>2. CASE Respond \/ SweepFind \/ Sweeping \/ LockExpires \/ LockLapses
      BY <3>2 DEF Respond, SweepFind, Sweeping, SweepEnqueue, SweepHeal, SweepHot, SweepOnly,
         LockExpires, LockLapses, others
    <3>3. ~StopHot /\ ~StopRecord /\ ~StopLease /\ ~StopSettle /\ ~StopRelease /\ ~StopParks
      BY <1>2 DEF StopHot, StopRecord, StopLease, StopSettle, StopRelease, StopParks, PastCas
    <3> QED BY <3>1, <3>2, <3>3, <3>4 DEF OthersMove, Stopping
  <2>4. StopCas
    BY <1>2, <2>1, <2>2, <2>3, Movers DEF vars, PastCas
  <2>5. stopper' = [stopper EXCEPT !.pc = "idle"] => stopper'.pc = "idle"
    BY DEF IInv, TypeOK, ActorsType
  <2> QED BY <2>4, <2>5 DEF StopCas, StopGoes, PastCas, Terminal
<1> QED BY <1>1, <1>2

LEMMA StoppedInductive ==
  ASSUME OwnIdsOnly
  PROVE  Spec => []Stopped
<1>1. Init => Stopped
  BY DEF Init, Stopped, PastCas
<1>2. IInv /\ Going /\ Stopped /\ [Next]_vars => Stopped'
  BY StoppedKept
<1> QED BY Inductive, GoingInductive, <1>1, <1>2, PTL DEF Spec

-------------------------------------------------------------------------------
\* While a run is being dispatched nobody else has anything of it yet.

LEMMA OthersQueue ==
  ASSUME OthersMove
  PROVE  /\ Respond \/ \A j \in queue' : j \in queue \/ (sweep.pc = "enqueue" /\ j.run = sweep.run)
         /\ queue' = queue \/ Respond \/ SweepEnqueue
         /\ rec' = rec \/ StopRecord \/ StopSettle
<1> USE DEF store, mq
<1>1. CASE StopRead \/ StopDies \/ Stopping
  BY <1>1 DEF StopRead, StopDies, Stopping, StopWhich, StopCas, StopHot, StopRecord, StopLease,
     StopSettle, StopRelease, StopParks
<1>2. CASE Respond \/ SweepFind \/ LockExpires \/ LockLapses
  BY <1>2 DEF Respond, SweepFind, LockExpires, LockLapses
<1>3. CASE Sweeping
  BY <1>3 DEF Sweeping, SweepEnqueue, SweepHeal, SweepHot, Put
<1> QED BY <1>1, <1>2, <1>3 DEF OthersMove

Clear(r) ==
  /\ \A j \in queue : j.run # r
  /\ \A w \in Workers : job[w].run # r
  /\ sweep.run # r /\ open[r] = "none"
  /\ \A i \in DOMAIN messages : messages[i].run = r => messages[i].kind = "user"

LEMMA SaysClear ==
  ASSUME StoreType, NEW r, NEW m, messages' = messages \/ messages' = Append(messages, m),
         m.run = r => m.kind = "user",
         \A i \in DOMAIN messages : messages[i].run = r => messages[i].kind = "user"
  PROVE  \A i \in DOMAIN messages' : messages'[i].run = r => messages'[i].kind = "user"
BY DEF StoreType

LEMMA WorkerClears ==
  ASSUME IInv, NEW w \in Workers, WorkerMoves(w), NEW r \in Runs, Clear(r)
  PROVE  Clear(r)'
<1> USE DEF IInv, TypeOK
<1>1. OwnsWrites(w)
  BY WorkerWrites DEF WorkerMoves
<1>2. Me(w) # r
  BY DEF Clear, Me
<1>3. \A v \in Workers : job'[v].run # r
  BY <1>1, NamesAssumption DEF OwnsWrites, Clear, NoJob
<1>4. ASSUME NEW k, messages' = Append(messages, [run |-> Me(w), kind |-> k])
      PROVE  \A i \in DOMAIN messages' : messages'[i].run = r => messages'[i].kind = "user"
  BY <1>2, <1>4, SaysClear DEF Clear
<1>5. ASSUME Closes PROVE cur # r /\ cur \in Runs
  BY <1>5 DEF Closes, Open, Clear
<1>6. open'[r] = "none"
  <2>1. CASE Closes \/ UNCHANGED <<messages, open>>
    BY <1>5, <2>1 DEF Closes, Clear, StoreType
  <2>2. CASE Land(w) \/ Ask(w) \/ Commit(w)
    BY <1>2, <2>2 DEF Land, Ask, Commit, Clear, StoreType
  <2> QED BY <2>1, <2>2, WorkerSays
<1>7. \A i \in DOMAIN messages' : messages'[i].run = r => messages'[i].kind = "user"
  <2>1. CASE Closes
    BY <1>5, <2>1, SaysClear DEF Closes, Clear
  <2>2. CASE Land(w) \/ Commit(w)
    BY <1>4, <2>2 DEF Land, Commit
  <2>3. CASE messages' = messages
    BY <2>3 DEF Clear
  <2> QED BY <2>1, <2>2, <2>3, WorkerSays DEF Ask
<1> QED BY <1>1, <1>2, <1>3, <1>6, <1>7 DEF OwnsWrites, Clear

LEMMA OthersClear ==
  ASSUME IInv, OthersMove, NEW r \in Runs, Clear(r), cur = r => ~SweepFind
  PROVE  Clear(r)'
<1> USE DEF IInv, TypeOK
<1>1. OthersWrites
  BY OthersWriteNamed DEF OthersMove
<1>2. ASSUME Closes \/ Respond PROVE cur # r /\ cur \in Runs
  BY <1>2 DEF Closes, Respond, Open, Clear
<1>3. \A i \in DOMAIN messages' : messages'[i].run = r => messages'[i].kind = "user"
  <2>1. CASE Closes
    BY <1>2, <2>1, SaysClear DEF Closes, Clear
  <2>2. CASE messages' = messages
    BY <2>2 DEF Clear
  <2> QED BY <2>1, <2>2, OthersSay DEF Respond
<1>4. open'[r] = "none"
  BY <1>2, OthersSay DEF Closes, Respond, Clear, StoreType
<1>5. \A j \in queue' : j.run # r
  <2>1. CASE Respond
    BY <1>2, <2>1 DEF Respond, Put, Clear
  <2>2. CASE ~Respond
    BY <2>2, OthersQueue DEF Clear
  <2> QED BY <2>1, <2>2
<1>6. sweep'.run # r
  <2>1. CASE cur = r
    <3>1. sweep' = sweep \/ Sweeping
      BY <2>1 DEF OthersMove, StopRead, StopDies, Stopping, StopWhich, StopCas, StopHot, StopRecord,
         StopLease, StopSettle, StopRelease, StopParks, Respond, LockExpires, LockLapses, StopOnly,
         others
    <3>2. Sweeping => sweep'.run = sweep.run
      BY DEF Sweeping, SweepEnqueue, SweepHeal, SweepHot, ActorsType
    <3> QED BY <3>1, <3>2 DEF Clear
  <2>2. CASE cur # r
    BY <1>1, <2>2 DEF OthersWrites, Clear
  <2> QED BY <2>1, <2>2
<1> QED BY <1>1, <1>3, <1>4, <1>5, <1>6 DEF OthersWrites, Clear

\* A call between its claim and its enqueue has the thread, or was stopped.
Sends == {"hot", "install", "start", "check1", "append", "check2", "enqueue"}

Sending(c, r) ==
  /\ owner = r /\ state \in {"QUEUED", "CANCELLED"}
  /\ Spared({"stop"}) => state = "QUEUED"
  /\ state = "QUEUED" => ~rec[r].ended
  /\ call[c].pc \notin {"hot", "install"} => cur = r
  /\ call[c].pc \in {"hot", "install", "start"} => rec[r] = NoRecord
  /\ Clear(r)

Dispatches == Calm => \A c \in Calls : call[c].pc \in Sends => Sending(c, call[c].run)

LEMMA NoRecordStays ==
  ASSUME IInv, StopRecord \/ StopSettle, NEW r \in Runs, rec[r] = NoRecord
  PROVE  rec'[r] = NoRecord
<1> USE DEF IInv, TypeOK, StoreType
<1>1. rec[r].state = "NONE" /\ rec[r].settled = FALSE
  BY DEF NoRecord
<1>2. CASE StopRecord
  BY <1>1, <1>2 DEF StopRecord, RecordStopped, Patch
<1>3. CASE StopSettle
  <2>1. CASE rec' = Settled(rec, stopper.run) /\ stopper.run = r
    BY <1>1, <2>1 DEF Settled, NoRecord
  <2>2. CASE rec' = Settled(rec, stopper.run) /\ stopper.run # r
    BY <2>2 DEF Settled
  <2> QED BY <1>3, <2>1, <2>2 DEF StopSettle, SettleEnded
<1> QED BY <1>2, <1>3

\* The steps of the call itself.
LEMMA OwnSending ==
  ASSUME IInv, OwnIdsOnly, Begins, [Next]_vars, NEW c \in Calls, CallMoving(c),
         call'[c].pc \in Sends, call[c].pc \in Sends => Sending(c, call[c].run),
         NEW r, r = call'[c].run
  PROVE  Sending(c, r)'
<1> USE DEF IInv, TypeOK, ActorsType, Sends, CallGoes, CallOnly
<1>1. CallWrites(c)
  BY CallWritesOwn DEF CallMoving
<1>0. \A s \in Ids[c] : ~RunBegin(c, s)
  BY DEF RunBegin
<1>2. call[c].pc # "idle"
  BY <1>0 DEF CallMoving, Dispatch, RunAdmit, RunHot, RunInstall, RunStart, RunCheck, RunAppend,
     RunEnqueue, RunStopHot, RunFail, RunFailHot, RunThrows, RunDies, Over
<1>3. r \in Runs /\ call[c].run = r
  BY <1>1, <1>2, NamesAssumption DEF CallWrites, CallKnows
<1>s. Spared({"stop"})' => Spared({"stop"})
  BY NextGrows, SparedBefore DEF Events
<1>4. ASSUME UNCHANGED <<messages, queue, worker, sweep, open>>, Clear(r)
      PROVE  Clear(r)'
  BY <1>4 DEF Clear, worker
<1>5. CASE RunAdmit(c)
  <2>1. call'[c].pc = "hot" /\ state' = "QUEUED" /\ owner' = r
    BY <1>5 DEF RunAdmit
  <2>2. Untouched(r)
    BY <1>5, ReservedUntouched DEF RunAdmit
  <2>3. Clear(r)'
    BY <1>4, <1>5, <2>2 DEF RunAdmit, Untouched, Clear, store, mq
  <2>4. rec'[r] = NoRecord
    BY <1>5, <2>2 DEF RunAdmit, Untouched, store
  <2> QED BY <1>3, <2>1, <2>3, <2>4 DEF Sending, NoRecord
<1>6. CASE RunHot(c)
  BY <1>3, <1>4, <1>6, <1>s DEF RunHot, Sending, thread, store, mq
<1>7. CASE RunInstall(c)
  <2>1. call'[c].pc = "start"
    BY <1>7 DEF RunInstall
  <2> QED BY <1>3, <1>4, <1>7, <1>s, <2>1 DEF RunInstall, Sending, thread, store, mq
<1>8. CASE RunStart(c)
  <2>1. ~rec'[r].ended /\ call'[c].pc = "check1"
    BY <1>3, <1>8 DEF RunStart, StoreType
  <2> QED BY <1>3, <1>4, <1>8, <1>s, <2>1 DEF RunStart, Sending, thread, kv, mq
<1>9. ASSUME NEW at \in {"check1", "check2"}, NEW next \in {"append", "enqueue"}, RunCheck(c, at, next)
      PROVE  Sending(c, r)'
  <2>1. rec' = rec /\ call'[c].pc = next
    BY <1>9 DEF RunCheck
  <2> QED BY <1>3, <1>4, <1>9, <1>s, <2>1 DEF RunCheck, Sending, thread, kv, mq
<1>10. CASE RunAppend(c)
  <2>1. \A i \in DOMAIN messages' : messages'[i].run = r => messages'[i].kind = "user"
    BY <1>10, SaysClear DEF RunAppend, Sending, Clear
  <2>2. Clear(r)'
    BY <1>10, <2>1 DEF RunAppend, Sending, Clear, worker, mq
  <2>3. call'[c].pc = "check2"
    BY <1>10 DEF RunAppend
  <2> QED BY <1>3, <1>10, <1>s, <2>2, <2>3 DEF RunAppend, Sending, thread, kv
<1>11. ~RunEnqueue(c) /\ ~RunStopHot(c) /\ ~RunFail(c) /\ ~RunFailHot(c) /\ ~RunThrows(c) /\ ~RunDies(c)
  <2>1. \A p : CallGoes(c, p) => call'[c].pc = p
    OBVIOUS
  <2>2. \A p \in {"accepted", "refused", "failhot", "fail", "dead"} : ~CallGoes(c, p)
    BY <2>1
  <2> QED BY <2>2 DEF RunEnqueue, RunStopHot, RunFail, RunFailHot, RunThrows, RunDies
<1> QED BY <1>0, <1>5, <1>6, <1>7, <1>8, <1>9, <1>10, <1>11 DEF CallMoving, Dispatch

\* The steps of the others.
LEMMA DispatchesKept ==
  ASSUME IInv, OwnIdsOnly, Begins, StopNames, Stopped, Dispatches, [Next]_vars
  PROVE  Dispatches'
<1> USE DEF IInv, TypeOK, ActorsType
<1> SUFFICES ASSUME Calm', NEW c \in Calls, call'[c].pc \in Sends, NEW r, r = call'[c].run
             PROVE  Sending(c, r)'
  BY DEF Dispatches
<1>1. Calm /\ allowed["slow"] = 0 /\ ((One /\ One') \/ (Singly /\ Singly'))
  BY CalmBefore, Zenon DEF Calm
<1>s. Spared({"stop"})' => Spared({"stop"})
  BY NextGrows, SparedBefore DEF Events
<1>2. ASSUME call[c].pc \in Sends, call[c].run = r
      PROVE  /\ Sending(c, r) /\ r \in Runs /\ r # None /\ owner = r
             /\ Spared({"stop"}) => state = "QUEUED"
  BY <1>1, <1>2, NamesAssumption DEF Dispatches, CallKnows, Sends, Sending
<1>3. ASSUME NEW d \in Calls, CallMoving(d), d # c
      PROVE  Sending(c, r)'
  <2>1. CallWrites(d)
    BY <1>3, CallWritesOwn DEF CallMoving
  <2>2. call'[c] = call[c] /\ call[c].pc \in Sends /\ call[c].run = r
    BY <1>3, <2>1 DEF CallWrites
  <2>3. call[d].pc # "idle" => call[d].run # r /\ call[d].run \in Runs
    BY <1>3, <2>2, OwnRuns, NamesAssumption DEF Sends, CallKnows
  <2>4. UNCHANGED thread
    <3>1. CASE /\ call[d].pc = "admit" /\ state \notin Active /\ call'[d].pc = "hot"
      <4>1. call[d].run \in Admitted' /\ r \in Admitted'
        BY <2>1, <2>2, <3>1 DEF Admitted, Sends, CallWrites
      <4>2. Singly
        BY <1>1, <2>3, <3>1, <4>1 DEF One
      <4>3. state = "QUEUED"
        BY <1>2, <2>2, <4>2 DEF Singly, Spared
      <4> QED BY <3>1, <4>3 DEF Active
    <3>2. CASE MovedBy(call[d].run) /\ call[d].pc = "fail"
      BY <1>2, <2>2, <2>3, <3>2, NamesAssumption DEF MovedBy, thread
    <3> QED BY <1>3, <3>1, <3>2, CallStands DEF CallMoving
  <2>5. cur' = cur
    <3>1. ASSUME cur' # cur PROVE FALSE
      <4>1. PICK e \in Calls : call[e].pc = "install" /\ call'[e].pc = "start"
        BY <3>1, CurInstalled
      <4>2. e = d
        BY <2>1, <4>1 DEF CallWrites
      <4>3. owner = call[d].run
        BY <1>1, <4>1, <4>2 DEF Dispatches, Sends, Sending
      <4> QED BY <1>2, <2>2, <2>3, <4>1, <4>2, <4>3
    <3> QED BY <3>1
  <2>6. rec'[r] = rec[r] /\ Clear(r)'
    <3>1. CASE call[d].pc = "idle"
      <4>1. \E s \in Ids[d] : RunBegin(d, s)
        BY <1>3, <3>1 DEF CallMoving, Dispatch, RunAdmit, RunHot, RunInstall, RunStart, RunCheck,
           RunAppend, RunEnqueue, RunStopHot, RunFail, RunFailHot, RunThrows, RunDies, Over
      <4> QED BY <1>2, <2>2, <4>1 DEF RunBegin, Sending, Clear, store, mq, CallOnly, worker
    <3>2. CASE call[d].pc # "idle"
      <4>1. rec'[r] = rec[r] /\ open' = open /\ job' = job /\ sweep' = sweep
            /\ \A j \in queue' : j \in queue \/ j.run = call[d].run
        BY <1>2, <2>1, <2>2, <2>3, <3>2 DEF CallWrites
      <4>2. \A i \in DOMAIN messages' : messages'[i].run = r => messages'[i].kind = "user"
        <5>1. CASE RunAppend(d)
          BY <1>2, <2>2, <2>3, <3>2, <5>1, SaysClear DEF RunAppend, Sending, Clear
        <5>2. CASE messages' = messages
          BY <1>2, <2>2, <5>2 DEF Sending, Clear
        <5> QED BY <1>3, <5>1, <5>2, CallSays
      <4> QED BY <1>2, <2>2, <2>3, <3>2, <4>1, <4>2 DEF Sending, Clear
    <3> QED BY <3>1, <3>2
  <2> QED BY <1>2, <1>s, <2>2, <2>4, <2>5, <2>6 DEF Sending, thread
<1>4. ASSUME NEW d \in Calls, CallMoving(d)
      PROVE  Sending(c, r)'
  <2>1. CASE d = c
    <3>1. call[c].pc \in Sends => Sending(c, call[c].run)
      BY <1>1 DEF Dispatches
    <3> QED BY <1>4, <2>1, <3>1, OwnSending
  <2> QED BY <1>3, <1>4, <2>1
<1>5. CASE OthersMove
  <2>1. OthersWrites
    BY <1>5, OthersWriteNamed DEF OthersMove
  <2>2. call' = call /\ call[c].pc \in Sends /\ call[c].run = r /\ cur' = cur /\ owner' = owner
    BY <2>1 DEF OthersWrites
  <2>3. stopper.pc \in PastCas => state # "QUEUED"
    <3>1. One => (stopper.pc \in PastCas => state # "QUEUED")
      BY DEF Stopped, Terminal
    <3>2. Singly => stopper.pc \notin PastCas
      BY DEF StopNames, Singly, Spared, PastCas
    <3> QED BY <1>1, <3>1, <3>2
  <2>4. state' \in {state, "CANCELLED"} /\ (Spared({"stop"})' => state' = state)
    <3>1. CASE MovedBy(sweep.run) /\ (state' # state => sweep.run \in Runs)
      BY <1>2, <2>2, <3>1, NamesAssumption DEF MovedBy, Sending, Clear
    <3>2. CASE MovedBy(stopper.run) /\ stopper.pc = "cas" /\ state' \in {state, "CANCELLED"}
      BY <1>s, <3>2 DEF StopNames
    <3> QED BY <1>5, <3>1, <3>2, OthersStand DEF OthersMove
  <2>5. ~SweepFind \/ cur # r
    <3>1. ASSUME SweepFind, cur = r PROVE FALSE
      <4>1. Dispatching(r)
        BY <2>2 DEF Dispatching, Sends, Over
      <4>2. state # "WAITING_FOR_INPUT" /\ (state = "QUEUED" => ~rec[r].ended) /\ state # "RUNNING"
        BY <1>2, <2>2 DEF Sending
      <4> QED BY <1>1, <3>1, <4>1, <4>2 DEF SweepFind
    <3> QED BY <3>1
  <2>6. Clear(r)'
    BY <1>2, <1>5, <2>2, <2>5, OthersClear DEF Sending
  <2>7. rec' = rec \/ StopRecord \/ StopSettle
    BY <1>5, OthersQueue
  <2>8. rec[r] = NoRecord => rec'[r] = NoRecord
    BY <1>2, <2>2, <2>7, NoRecordStays
  <2>9. state' = "QUEUED" => ~rec'[r].ended
    <3>1. ASSUME state' = "QUEUED" PROVE state = "QUEUED" /\ rec' = rec
      BY <2>3, <2>4, <2>7, <3>1 DEF StopRecord, StopSettle, PastCas
    <3> QED BY <1>2, <2>2, <3>1 DEF Sending
  <2> QED BY <1>2, <1>s, <2>2, <2>4, <2>6, <2>8, <2>9 DEF Sending
<1>6. ASSUME NEW w \in Workers, WorkerMoves(w)
      PROVE  Sending(c, r)'
  <2>1. OwnsWrites(w)
    BY <1>6, WorkerWrites DEF WorkerMoves
  <2>2. call' = call /\ call[c].pc \in Sends /\ call[c].run = r /\ cur' = cur /\ owner' = owner
    BY <2>1 DEF OwnsWrites
  <2>3. Me(w) # r
    BY <1>2, <2>2 DEF Sending, Clear, Me
  <2>4. Clear(r)' /\ rec'[r] = rec[r]
    BY <1>2, <1>6, <2>1, <2>2, <2>3, WorkerClears DEF Sending, OwnsWrites
  <2>5. state' = state
    BY <1>2, <1>6, <2>2, <2>3, WorkerStands, NamesAssumption DEF WorkerMoves, MovedBy
  <2> QED BY <1>2, <1>s, <2>2, <2>4, <2>5 DEF Sending
<1>7. CASE UNCHANGED vars
  BY <1>2, <1>s, <1>7 DEF vars, Sending, Clear
<1> QED BY <1>4, <1>5, <1>6, <1>7, Movers

LEMMA DispatchesInductive ==
  ASSUME OwnIdsOnly
  PROVE  Spec => []Dispatches
<1>1. Init => Dispatches
  BY DEF Init, Dispatches, Sends
<1>2. IInv /\ Begins /\ Follows /\ Stopped /\ Dispatches /\ [Next]_vars => Dispatches'
  BY DispatchesKept DEF Follows
<1> QED BY Inductive, BeginsInductive, FollowsInductive, StoppedInductive, <1>1, <1>2, PTL DEF Spec

-------------------------------------------------------------------------------
\* The jobs and deliveries of a thread that has had one run are that run's.

\* A thread has a run before anything is done about one.
HasRun ==
  \/ cur \in Runs
  \/ /\ queue = {} /\ sweep.pc = "idle" /\ \A w \in Workers : ~Live(w)
     /\ \A c \in Calls : call[c].pc \notin Sends \ {"hot", "install"}

LEMMA HasRunKept ==
  ASSUME IInv, HasRun, [Next]_vars
  PROVE  HasRun'
<1> USE DEF IInv, TypeOK, ActorsType, Sends
<1>1. CASE cur \in Runs
  <2>1. cur' = cur \/ cur' \in Runs
    BY CurInstalled, NamesAssumption DEF CallKnows
  <2> QED BY <1>1, <2>1 DEF HasRun
<1>2. CASE cur \notin Runs
  <2>0. /\ queue = {} /\ sweep.pc = "idle" /\ \A w \in Workers : ~Live(w)
        /\ \A c \in Calls : call[c].pc \notin Sends \ {"hot", "install"}
    BY <1>2 DEF HasRun
  <2>1. ASSUME NEW c \in Calls, CallMoving(c) PROVE HasRun'
    <3>1. CASE RunInstall(c)
      BY <3>1, NamesAssumption DEF RunInstall, CallKnows, HasRun
    <3>2. CASE ~RunInstall(c)
      <4>1. queue' = queue /\ UNCHANGED worker /\ sweep' = sweep
        BY <2>0, <2>1, <3>2 DEF CallMoving, Dispatch, RunBegin, RunAdmit, RunHot, RunStart, RunCheck,
           RunAppend, RunEnqueue, RunStopHot, RunFail, RunFailHot, RunThrows, RunDies, mq, CallOnly
      <4>2. call'[c].pc \notin Sends \ {"hot", "install"}
        <5>1. ASSUME NEW r \in Ids[c], RunBegin(c, r) PROVE call'[c].pc = "admit"
          BY <5>1 DEF RunBegin
        <5>2. ASSUME ~(\E r \in Ids[c] : RunBegin(c, r))
              PROVE  \E p \in CallPcs \ (Sends \ {"hot", "install"}) : CallGoes(c, p)
          BY <2>0, <2>1, <3>2, <5>2 DEF CallMoving, Dispatch, RunAdmit, RunHot, RunStart, RunCheck,
             RunAppend, RunEnqueue, RunStopHot, RunFail, RunFailHot, RunThrows, RunDies, CallPcs, Over
        <5> QED BY <5>1, <5>2 DEF CallGoes
      <4>3. \A d \in Calls : d # c => call'[d] = call[d]
        BY <2>1, CallWritesOwn DEF CallMoving, CallWrites
      <4> QED BY <2>0, <4>1, <4>2, <4>3 DEF HasRun, worker, Live
    <3> QED BY <3>1, <3>2
  <2>2. CASE OthersMove
    <3>1. ~Respond /\ ~SweepFind /\ ~Sweeping
      BY <1>2, <2>0 DEF Respond, Open, SweepFind, Sweeping, SweepEnqueue, SweepHeal, SweepHot
    <3>2. call' = call /\ queue' = queue
      BY <2>2, <3>1, OthersQueue, OthersWriteNamed DEF OthersMove, OthersWrites, Sweeping
    <3>3. UNCHANGED worker /\ sweep' = sweep
      BY <2>2, <3>1 DEF OthersMove, StopRead, StopDies, Stopping, StopWhich, StopCas, StopHot,
         StopRecord, StopLease, StopSettle, StopRelease, StopParks, StopOnly, LockExpires,
         LockLapses, others
    <3> QED BY <2>0, <3>2, <3>3 DEF HasRun, worker, Live
  <2>3. ASSUME NEW w \in Workers, WorkerMoves(w) PROVE HasRun'
    <3>1. /\ call' = call /\ sweep' = sweep
          /\ \A v \in Workers \ {w} : pc'[v] = pc[v]
      BY <2>3, WorkerWrites, WorkerAlone DEF WorkerMoves, OwnsWrites, Alone
    <3>2. ~Ask(w) /\ ~Deliver(w) /\ ~DeadJob(w)
      BY <2>0 DEF Ask, Deliver, DeadJob, Live
    <3>3. pc[w] \notin {"idle", "dead"}
      BY <2>3, <3>2 DEF WorkerMoves, Handle, LostRun, Acquire, Check, Refuse,
         Pickup, Hot, PickRecord, Resume, Land, Unpark, Early, Model, SegmentFails, Shutdown,
         Commit, Park, Ask, Parked, LoopEnd, Finalize, CloseRead, ClosePatch, Release, Ack, Redrive,
         Policy, MarkQueued, QueueRecord, Requeue, FailSettle, FailRun, Poll, LeaseLost, WorkerDies,
         InSegment
    <3> QED BY <2>0, <3>3 DEF Live
  <2>4. CASE UNCHANGED vars
    BY <2>0, <2>4 DEF vars, HasRun, Live
  <2> QED BY <2>1, <2>2, <2>3, <2>4, Movers
<1> QED BY <1>1, <1>2

LEMMA HasRunInductive == Spec => []HasRun
<1>1. Init => HasRun
  BY DEF Init, HasRun, Live, Sends
<1> QED BY Inductive, HasRunKept, <1>1, PTL DEF Spec

\* With one run, what is about a run is about the thread's.
LEMMA OneRun ==
  ASSUME IInv, Begins, HasRun, One
  PROVE  /\ \A j \in queue : j.run = cur
         /\ \A w \in Workers : Live(w) => Me(w) = cur
         /\ sweep.pc # "idle" => sweep.run = cur
         /\ cur \in Runs => Admitted # {}
<1>1. cur \in Runs => cur \in Admitted
  BY TouchedAdmitted DEF Untouched
<1>2. ASSUME NEW r \in Runs, ~Untouched(r), cur \in Runs PROVE r = cur
  BY <1>1, <1>2, TouchedAdmitted DEF One
<1>3. ASSUME NEW j \in queue PROVE j.run = cur
  <2>1. cur \in Runs /\ j.run \in Runs
    BY <1>3 DEF HasRun, IInv, TypeOK, QueueType, Jobs
  <2>2. ~Untouched(j.run)
    BY <1>3 DEF Untouched
  <2> QED BY <1>2, <2>1, <2>2
<1>4. ASSUME NEW w \in Workers, Live(w) PROVE Me(w) = cur
  <2>1. cur \in Runs /\ Me(w) \in Runs
    BY <1>4, JobRuns DEF HasRun, IInv, WorkerKnows, Live
  <2>2. ~Untouched(Me(w))
    BY DEF Untouched, Me
  <2> QED BY <1>2, <2>1, <2>2
<1>5. ASSUME sweep.pc # "idle" PROVE sweep.run = cur
  <2>1. cur \in Runs /\ sweep.run \in Runs
    BY <1>5 DEF HasRun, IInv, SweepKnows
  <2>2. ~Untouched(sweep.run)
    BY DEF Untouched
  <2> QED BY <1>2, <2>1, <2>2
<1> QED BY <1>1, <1>3, <1>4, <1>5

-------------------------------------------------------------------------------
\* While nothing is stopped, parked or delivered twice, a run has one job: it is in the
\* queue, or a delivery has it, or a sweep is about to queue it, or nobody has it.

OneJob ==
  /\ \A i, j \in queue : i.run = j.run => i = j
  /\ \A v, w \in Workers : Live(v) /\ Live(w) /\ Me(v) = Me(w) => v = w
  /\ \A w \in Workers, j \in queue : Live(w) => Me(w) # j.run
  /\ sweep.pc \in {"enqueue", "heal"} => ~Queued(sweep.run)

CalmJobs == Calm /\ Singly => OneJob

LEMMA CallQueue ==
  ASSUME IInv, NEW c \in Calls, CallMoving(c)
  PROVE  /\ UNCHANGED worker /\ sweep' = sweep
         /\ \/ queue' = queue
            \/ call[c].pc = "enqueue" /\ \E j \in Jobs : j.run = call[c].run /\ queue' = queue \cup {j}
<1>1. UNCHANGED worker /\ sweep' = sweep
  BY DEF CallMoving, Dispatch, RunBegin, RunAdmit, RunHot, RunInstall, RunStart, RunCheck,
     RunAppend, RunEnqueue, RunStopHot, RunFail, RunFailHot, RunThrows, RunDies, CallOnly
<1>2. CASE call[c].pc = "enqueue" /\ Enqueue(call[c].run)
  <2>1. call[c].run \in Runs /\ lastJob \in Nat
    BY <1>2, NamesAssumption, BoundsAssumption DEF IInv, CallKnows, TypeOK, QueueType
  <2>2. [run |-> call[c].run, id |-> lastJob + 1, kind |-> "run"] \in Jobs
    BY <1>2, <2>1, BoundsAssumption DEF Jobs, Kinds, Enqueue, Put
  <2> QED BY <1>1, <1>2, <2>2 DEF Enqueue, Put
<1>3. CASE ~(call[c].pc = "enqueue" /\ Enqueue(call[c].run))
  BY <1>1, <1>3 DEF CallMoving, Dispatch, RunBegin, RunAdmit, RunHot, RunInstall, RunStart, RunCheck,
     RunAppend, RunEnqueue, RunStopHot, RunFail, RunFailHot, RunThrows, RunDies, mq
<1> QED BY <1>2, <1>3

LEMMA CalmJobsKept ==
  ASSUME IInv, NoParks, Dispatches, CalmJobs, [Next]_vars
  PROVE  CalmJobs'
<1> USE DEF IInv, TypeOK, ActorsType, QueueType
<1> SUFFICES ASSUME Calm', Singly' PROVE OneJob'
  BY DEF CalmJobs
<1>1. Calm /\ Singly /\ OneJob
  BY CalmBefore DEF CalmJobs
<1>2. /\ \A i, j \in queue : i.run = j.run => i = j
      /\ \A v, w \in Workers : Live(v) /\ Live(w) /\ Me(v) = Me(w) => v = w
      /\ \A w \in Workers, j \in queue : Live(w) => Me(w) # j.run
      /\ sweep.pc \in {"enqueue", "heal"} =>
           (\A j \in queue : j.run # sweep.run) /\ \A w \in Workers : Live(w) => Me(w) # sweep.run
  BY <1>1, QueuedIs DEF OneJob
<1>3. ASSUME \A i, j \in queue' : i.run = j.run => i = j,
             \A v, w \in Workers : Live(v)' /\ Live(w)' /\ Me(v)' = Me(w)' => v = w,
             \A w \in Workers, j \in queue' : Live(w)' => Me(w)' # j.run,
             sweep'.pc \in {"enqueue", "heal"} =>
               /\ \A j \in queue' : j.run # sweep'.run
               /\ \A w \in Workers : Live(w)' => Me(w)' # sweep'.run
      PROVE  OneJob'
  BY <1>3, QueuedIs DEF OneJob
<1>4. state # "WAITING_FOR_INPUT"
  BY <1>1 DEF NoParks, Singly, Spared
<1>u. UNCHANGED worker => \A w \in Workers : Live(w)' = Live(w) /\ Me(w)' = Me(w)
  BY DEF worker, Live, Me
<1>5. ASSUME NEW c \in Calls, CallMoving(c) PROVE OneJob'
  <2>1. CASE queue' = queue
    BY <1>2, <1>3, <1>5, <1>u, <2>1, CallQueue
  <2>2. ASSUME call[c].pc = "enqueue", NEW j \in Jobs, j.run = call[c].run, queue' = queue \cup {j}
        PROVE  OneJob'
    <3>1. Clear(j.run)
      BY <1>1, <2>2 DEF Dispatches, Sends, Sending
    <3>2. /\ \A i \in queue : i.run # j.run
          /\ \A w \in Workers : Me(w) # j.run
          /\ sweep.run # j.run
      BY <3>1 DEF Clear, Me
    <3> QED BY <1>2, <1>3, <1>5, <1>u, <2>2, <3>2, CallQueue
  <2> QED BY <1>5, <2>1, <2>2, CallQueue
<1>6. CASE OthersMove
  <2>0. UNCHANGED worker
    BY <1>6 DEF OthersMove, StopRead, StopDies, Stopping, StopWhich, StopCas, StopHot, StopRecord,
       StopLease, StopSettle, StopRelease, StopParks, StopOnly, Respond, SweepFind, Sweeping,
       SweepEnqueue, SweepHeal, SweepHot, SweepOnly, LockExpires, LockLapses
  <2>1. CASE SweepEnqueue
    <3>1. queue' = queue \/ \E j : j.run = sweep.run /\ queue' = queue \cup {j}
      <4>1. ASSUME Put(queue, sweep.run, "reclaim")
            PROVE  \E j : j.run = sweep.run /\ queue' = queue \cup {j}
        <5> DEFINE j == [run |-> sweep.run, id |-> lastJob + 1, kind |-> "reclaim"]
        <5>1. j.run = sweep.run /\ queue' = queue \cup {j}
          BY <4>1 DEF Put
        <5> QED BY <5>1
      <4> QED BY <2>1, <4>1 DEF SweepEnqueue, mq
    <3>2. sweep'.pc = "idle" /\ sweep.pc = "enqueue"
      BY <2>1 DEF SweepEnqueue
    <3> QED BY <1>2, <1>3, <1>u, <2>0, <3>1, <3>2
  <2>2. CASE SweepFind
    <3>1. queue' = queue /\ sweep'.run = cur /\ ~Queued(cur)
      BY <1>4, <2>2 DEF SweepFind, mq
    <3> QED BY <1>2, <1>3, <1>u, <2>0, <3>1, QueuedIs
  <2>3. CASE ~SweepEnqueue /\ ~SweepFind
    <3>1. queue' = queue
      BY <1>4, <1>6, <2>3, OthersQueue DEF Respond
    <3>2. sweep' = sweep \/ sweep'.pc \in {"hot", "idle"}
      BY <1>6, <2>3 DEF OthersMove, StopRead, StopDies, Stopping, StopWhich, StopCas, StopHot,
         StopRecord, StopLease, StopSettle, StopRelease, StopParks, StopOnly, Respond, Sweeping,
         SweepHeal, SweepHot, LockExpires, LockLapses, others
    <3> QED BY <1>2, <1>3, <1>u, <2>0, <3>1, <3>2
  <2> QED BY <2>1, <2>2, <2>3
<1>7. ASSUME NEW w \in Workers, WorkerMoves(w) PROVE OneJob'
  <2>0. /\ sweep' = sweep
        /\ \A v \in Workers \ {w} : Live(v)' = Live(v) /\ Me(v)' = Me(v)
    BY <1>7, WorkerWrites, WorkerAlone DEF WorkerMoves, OwnsWrites, Alone, Live, Me
  <2>1. CASE queue' = queue /\ (Live(w)' => Live(w) /\ Me(w)' = Me(w))
    <3>1. \A v \in Workers : Live(v)' => Live(v) /\ Me(v)' = Me(v)
      BY <2>0, <2>1
    <3> QED BY <1>2, <1>3, <2>0, <2>1, <3>1
  <2>2. ASSUME ~Live(w), NEW j \in queue, queue' = queue \ {j}, job'[w] = j PROVE OneJob'
    <3>1. Me(w)' = j.run /\ \A v \in Workers \ {w} : Live(v)' => Me(v)' # j.run
      BY <1>2, <2>0, <2>2 DEF Me
    <3>2. \A i \in queue' : i \in queue /\ i.run # j.run
      BY <1>2, <2>2
    <3>3. sweep.pc \in {"enqueue", "heal"} => j.run # sweep.run
      BY <1>2
    <3> QED BY <1>2, <1>3, <2>0, <3>1, <3>2, <3>3
  <2>3. ASSUME Live(w), ~Live(w)', NEW j \in Jobs, j.run = Me(w), queue' = queue \cup {j}
        PROVE  OneJob'
    <3>1. \A v \in Workers : Live(v)' => v # w /\ Live(v) /\ Me(v)' = Me(v) /\ Me(v) # j.run
      BY <1>2, <2>0, <2>3
    <3>2. \A i \in queue : i.run # j.run
      BY <1>2, <2>3
    <3>3. sweep.pc \in {"enqueue", "heal"} => j.run # sweep.run
      BY <1>2, <2>3
    <3> QED BY <1>2, <1>3, <2>0, <2>3, <3>1, <3>2, <3>3
  <2>4. ~Ask(w) /\ used'["dup"] = 0
    BY <1>1 DEF NoParks, Singly, Spared, Ask, At, Parks
  <2> QED BY <1>7, <2>1, <2>2, <2>3, <2>4, WorkerQueue
<1>8. CASE UNCHANGED vars
  BY <1>2, <1>3, <1>u, <1>8 DEF vars, worker
<1> QED BY <1>5, <1>6, <1>7, <1>8, Movers

LEMMA CalmJobsInductive ==
  ASSUME OwnIdsOnly
  PROVE  Spec => []CalmJobs
<1>1. Init => CalmJobs
  BY DEF Init, CalmJobs, OneJob, Live
<1>2. IInv /\ NoParks /\ Dispatches /\ CalmJobs /\ [Next]_vars => CalmJobs'
  BY CalmJobsKept
<1> QED BY Inductive, NoParksInductive, DispatchesInductive, <1>1, <1>2, PTL DEF Spec

-------------------------------------------------------------------------------
\* A delivery that is in its segment works for the thread's run.

Owned == state \in Active => owner \in Runs

LEMMA OwnedInductive == Spec => []Owned
<1>1. Init => Owned
  BY StartAssumption DEF Init, Owned, Active, Terminal
<1>2. IInv /\ Owned /\ [Next]_vars => Owned'
  BY Goes, NamesAssumption DEF Owned, IInv, CallKnows
<1> QED BY Inductive, <1>1, <1>2, PTL DEF Spec

Writes(w) == \E p \in Inside : At(w, p)

LEMMA WritesLive ==
  ASSUME IInv, NEW w \in Workers, Writes(w)
  PROVE  Live(w) /\ Leased(w) /\ job[w] \in Jobs /\ Me(w) \in Runs
<1>1. Live(w) /\ Leased(w)
  BY DEF Writes, At, Inside, Live, Leased, IInv, WorkerKnows, HotKnows
<1>2. job[w] \in Jobs
  BY <1>1 DEF Live, IInv, WorkerKnows
<1> QED BY <1>1, <1>2, JobRuns

\* While no lease lapses, one delivery at most is in a segment.
LEMMA OneWriter ==
  ASSUME IInv, LockInv, Spared({"lapse"}), NEW v \in Workers, NEW w \in Workers,
         Writes(v), Writes(w)
  PROVE  v = w
BY WritesLive DEF LockInv, Spared

LEMMA Idles ==
  ASSUME NEW w \in Workers, WorkerMoves(w), ~Live(w)
  PROVE  Deliver(w) \/ DeadJob(w)
BY DEF Live, WorkerMoves, Handle, LostRun, Acquire, Check, Refuse,
   Pickup, Hot, PickRecord, Resume, Land, Unpark, Early, Model, SegmentFails, Shutdown,
   Commit, Park, Ask, Parked, LoopEnd, Finalize, CloseRead, ClosePatch, Release, Ack, Redrive,
   Policy, MarkQueued, QueueRecord, Requeue, FailSettle, FailRun, Poll, LeaseLost, WorkerDies,
   InSegment

LEMMA OthersWorkers ==
  ASSUME OthersMove
  PROVE  UNCHANGED worker
BY DEF OthersMove, StopRead, StopDies, Stopping, StopWhich, StopCas, StopHot, StopRecord,
   StopLease, StopSettle, StopRelease, StopParks, StopOnly, Respond, SweepFind, Sweeping,
   SweepEnqueue, SweepHeal, SweepHot, SweepOnly, LockExpires, LockLapses

LEMMA CallState ==
  ASSUME NEW c \in Calls, CallMoving(c)
  PROVE  state' = state \/ RunAdmit(c) \/ (RunFail(c) /\ state = "QUEUED" /\ state' = "FAILED")
BY DEF CallMoving, Dispatch, RunBegin, RunHot, RunInstall, RunStart, RunCheck, RunAppend,
   RunEnqueue, RunStopHot, RunFail, RunFailHot, RunThrows, RunDies, thread, CanMove

LEMMA OthersHeal ==
  ASSUME OthersMove
  PROVE  state' = state \/ StopCas \/ (SweepHeal /\ CanMove(Active, sweep.run))
BY DEF OthersMove, StopRead, StopDies, Stopping, StopWhich, StopHot, StopRecord, StopLease,
   StopSettle, StopRelease, StopParks, Respond, SweepFind, Sweeping, SweepEnqueue, SweepHeal,
   SweepHot, LockExpires, LockLapses, thread

LEMMA StandStill ==
  ASSUME UNCHANGED worker, NEW w \in Workers
  PROVE  /\ \A p : At(w, p)' <=> At(w, p)
         /\ Writes(w)' <=> Writes(w)
         /\ Me(w)' = Me(w)
BY DEF worker, At, Writes, Me

\* With one job per run: the thread is RUNNING, and the run's.
Running(w) == Writes(w) => state = "RUNNING" /\ owner = Me(w)

CalmRunning == Calm /\ Singly => \A w \in Workers : Running(w)

LEMMA CalmRunningKept ==
  ASSUME IInv, StopNames, CurFollows, Owned, NoParks, NoParks', CalmJobs, CalmRunning, [Next]_vars
  PROVE  CalmRunning'
<1> USE DEF IInv, TypeOK, ActorsType
<1> SUFFICES ASSUME Calm', Singly', NEW w \in Workers, Writes(w)'
             PROVE  state' = "RUNNING" /\ owner' = Me(w)'
  BY DEF CalmRunning, Running
<1>1. Calm /\ Singly /\ OneJob /\ Named /\ stopper.pc = "idle"
  BY CalmBefore DEF CalmJobs, Singly, Spared, Named, StopNames
<1>2. ASSUME Writes(w)
      PROVE  state = "RUNNING" /\ owner = Me(w) /\ Me(w) \in Runs /\ Me(w) # None /\ Live(w)
  BY <1>1, <1>2, WritesLive, NamesAssumption DEF CalmRunning, Running
<1>3. ASSUME NEW c \in Calls, CallMoving(c) PROVE state' = "RUNNING" /\ owner' = Me(w)'
  <2>1. Writes(w) /\ Me(w)' = Me(w)
    BY <1>3, CallQueue, StandStill
  <2>2. UNCHANGED thread
    BY <1>2, <1>3, <2>1, CallStands, CallState DEF CallMoving, RunAdmit, Admits, CallKnows, Active, MovedBy, thread
  <2> QED BY <1>2, <2>1, <2>2 DEF thread
<1>4. CASE OthersMove
  <2>1. Writes(w) /\ Me(w)' = Me(w) /\ owner' = owner
    BY <1>4, OthersWorkers, StandStill, OthersWriteNamed DEF OthersMove, OthersWrites
  <2>2. ASSUME SweepHeal, CanMove(Active, sweep.run) PROVE FALSE
    <3>1. sweep.pc = "heal" /\ sweep.run = Me(w)
      BY <1>2, <2>1, <2>2, NamesAssumption DEF SweepHeal, CanMove, SweepKnows
    <3> QED BY <1>1, <1>2, <2>1, <3>1, QueuedIs DEF OneJob
  <2>3. ~StopCas
    BY <1>1 DEF StopCas
  <2> QED BY <1>2, <1>4, <2>1, <2>2, <2>3, OthersHeal
<1>5. ASSUME NEW v \in Workers, WorkerMoves(v), v # w PROVE state' = "RUNNING" /\ owner' = Me(w)'
  <2>1. Writes(w) /\ Me(w)' = Me(w)
    BY <1>5, WorkerAlone DEF Alone, Writes, At, Me
  <2>2. MovedBy(Me(v)) /\ (state' # state => Me(v) \in Runs)
    BY <1>5, WorkerStands DEF WorkerMoves
  <2>3. ASSUME state' # state PROVE FALSE
    <3>1. Live(v)
      BY <1>5, <2>3, Idles DEF Deliver, DeadJob, thread
    <3>2. Me(v) = Me(w)
      BY <1>2, <2>1, <2>2, <2>3, NamesAssumption DEF MovedBy
    <3> QED BY <1>1, <1>2, <1>5, <2>1, <3>1, <3>2 DEF OneJob
  <2> QED BY <1>2, <2>1, <2>2, <2>3 DEF MovedBy
<1>6. CASE WorkerMoves(w)
  <2>1. PICK p \in Inside : At(w, p)'
    BY DEF Writes
  <2>2. Me(w)' = Me(w) /\ job[w] \in Jobs
        /\ (Enters(w, p) \/ (At(w, p) /\ UNCHANGED state))
    BY <1>6, <2>1, WorkerPath
  <2>3. owner' = owner
    BY <1>6, WorkerStands DEF WorkerMoves, MovedBy
  <2>4. p \notin Parks
    BY <1>1, <2>1 DEF NoParks, Singly, Spared, Calm
  <2>5. CASE At(w, p) /\ UNCHANGED state
    BY <1>2, <2>1, <2>2, <2>3, <2>5 DEF Writes
  <2>6. CASE Enters(w, p) /\ p = "pickrec"
    BY <2>2, <2>3, <2>6, JobRuns, NamesAssumption DEF Enters, CanMove, Owned, Active
  <2>7. CASE Enters(w, p) /\ p \in {"early", "model", "commit", "loopend"}
    <3>1. CASE PickRecord(w) \/ Early(w) \/ Commit(w) \/ Model(w)
      <4>1. Writes(w) /\ UNCHANGED state
        BY <3>1 DEF PickRecord, Early, Commit, Model, Writes, At, Inside, thread
      <4> QED BY <1>2, <2>2, <2>3, <4>1
    <3>2. CASE Check(w) /\ cur = Me(w) /\ state = "RUNNING"
      BY <1>1, <2>2, <2>3, <3>2 DEF Check, CurFollows, Active, thread
    <3>3. ~Unpark(w)
      BY <1>1 DEF Unpark, NoParks, Singly, Spared, At, Parks
    <3> QED BY <2>7, <3>1, <3>2, <3>3 DEF Enters
  <2> QED BY <2>2, <2>4, <2>5, <2>6, <2>7 DEF Inside, Parks
<1>7. CASE UNCHANGED vars
  BY <1>2, <1>7 DEF vars, Writes, At, Me
<1> QED BY <1>3, <1>4, <1>5, <1>6, <1>7, Movers

LEMMA CalmRunningInductive ==
  ASSUME OwnIdsOnly
  PROVE  Spec => []CalmRunning
<1>1. Init => CalmRunning
  BY DEF Init, CalmRunning, Running, Writes, At, Inside
<1>2. IInv /\ Follows /\ Owned /\ NoParks /\ NoParks' /\ CalmJobs /\ CalmRunning /\ [Next]_vars
      => CalmRunning'
  BY CalmRunningKept DEF Follows
<1> QED BY Inductive, FollowsInductive, OwnedInductive, NoParksInductive, CalmJobsInductive,
           <1>1, <1>2, PTL DEF Spec

\* With one run, a thread somebody asks on is parked or has ended.
Asking(w) == At(w, "ask") => state \notin {"QUEUED", "RUNNING"}

CalmAsking == Calm /\ One => \A w \in Workers : Asking(w)

LEMMA CalmAskingKept ==
  ASSUME IInv, OwnIdsOnly, LockInv, Begins, HasRun, CalmAsking, [Next]_vars
  PROVE  CalmAsking'
<1> USE DEF IInv, TypeOK
<1> SUFFICES ASSUME Calm', One', NEW w \in Workers, At(w, "ask")'
             PROVE  state' \notin {"QUEUED", "RUNNING"}
  BY DEF CalmAsking, Asking
<1>1. Calm /\ One /\ Spared({"lapse"})
  BY CalmBefore
<1>2. ASSUME At(w, "ask")
      PROVE  state \notin {"QUEUED", "RUNNING"} /\ Writes(w) /\ Admitted # {}
  <2>1. Writes(w)
    BY <1>2 DEF Writes, Inside
  <2>2. ~Untouched(Me(w)) /\ Me(w) \in Runs
    BY <2>1, WritesLive DEF Untouched, Me
  <2> QED BY <1>1, <1>2, <2>1, <2>2, TouchedAdmitted DEF CalmAsking, Asking
<1>3. ASSUME At(w, "ask"), state \notin Active PROVE state' = state
  BY <1>2, <1>3, OneRests
<1>4. ASSUME NEW c \in Calls, CallMoving(c) PROVE state' \notin {"QUEUED", "RUNNING"}
  <2>1. At(w, "ask")
    BY <1>4, CallQueue, StandStill
  <2>2. RunAdmit(c) => state' = state \/ state \notin Active
    BY DEF RunAdmit, Admits, CallKnows, thread
  <2> QED BY <1>2, <1>3, <1>4, <2>1, <2>2, CallState
<1>5. CASE OthersMove
  <2>1. At(w, "ask")
    BY <1>5, OthersWorkers, StandStill
  <2> QED BY <1>2, <1>5, <2>1, OthersState DEF Terminal
<1>6. ASSUME NEW v \in Workers, WorkerMoves(v), v # w PROVE state' \notin {"QUEUED", "RUNNING"}
  <2>1. At(w, "ask")
    BY <1>6, WorkerAlone DEF Alone, At
  <2>2. ~Unpark(v)
    <3>1. Unpark(v) => Writes(v)
      BY DEF Unpark, Writes, At, Inside
    <3> QED BY <1>1, <1>2, <1>6, <2>1, <3>1, OneWriter
  <2> QED BY <1>2, <1>6, <2>1, <2>2, WorkerState DEF CanMove, Terminal
<1>7. CASE WorkerMoves(w)
  <2>1. Enters(w, "ask") \/ (At(w, "ask") /\ UNCHANGED state)
    BY <1>7, WorkerPath DEF Inside
  <2> QED BY <1>2, <2>1 DEF Enters
<1>8. CASE UNCHANGED vars
  BY <1>2, <1>8 DEF vars, At
<1> QED BY <1>4, <1>5, <1>6, <1>7, <1>8, Movers

LEMMA CalmAskingInductive ==
  ASSUME OwnIdsOnly
  PROVE  Spec => []CalmAsking
<1>1. Init => CalmAsking
  BY DEF Init, CalmAsking, Asking, At
<1>2. IInv /\ LockInv /\ Begins /\ HasRun /\ CalmAsking /\ [Next]_vars => CalmAsking'
  BY CalmAskingKept
<1> QED BY Inductive, LockInductive, BeginsInductive, HasRunInductive, <1>1, <1>2, PTL DEF Spec

\* All that is known of a calm thread before its messages are looked at.
Known ==
  /\ IInv /\ LockInv /\ Begins /\ Follows /\ Owned /\ NoParks /\ HasRun
  /\ Stopped /\ Going /\ Dispatches /\ CalmJobs /\ CalmRunning /\ CalmAsking

LEMMA KnownInductive ==
  ASSUME OwnIdsOnly
  PROVE  Spec => []Known
BY Inductive, LockInductive, BeginsInductive, FollowsInductive, OwnedInductive, NoParksInductive,
   HasRunInductive, StoppedInductive, GoingInductive, DispatchesInductive, CalmJobsInductive,
   CalmRunningInductive, CalmAskingInductive, PTL DEF Known

\* Whoever is in a segment is so for the run of the thread, alone; and it asks only on a
\* thread that is parked or has ended.
LEMMA AsRun ==
  ASSUME Known, Calm, NEW w \in Workers, Writes(w)
  PROVE  /\ Me(w) = cur /\ cur \in Runs /\ job[w] \in Jobs
         /\ \A v \in Workers : Writes(v) => v = w
         /\ At(w, "ask") => state \notin {"QUEUED", "RUNNING"}
<1>1. Me(w) \in Runs /\ Live(w) /\ job[w] \in Jobs
  BY WritesLive DEF Known
<1>2. \A v \in Workers : Writes(v) => v = w
  BY OneWriter DEF Known, Calm
<1>3. CASE One
  BY <1>1, <1>2, <1>3, OneRun DEF Known, CalmAsking, Asking
<1>4. CASE Singly
  <2>1. Me(w) = cur
    BY <1>4 DEF Known, CalmRunning, Running, Follows, CurFollows, Named, Singly, Spared, Active
  <2>2. ~At(w, "ask")
    BY <1>4 DEF Known, NoParks, Singly, Spared, Parks
  <2> QED BY <1>1, <1>2, <2>1, <2>2
<1> QED BY <1>3, <1>4 DEF Calm

-------------------------------------------------------------------------------
\* A run answers once.

LEMMA Speakers ==
  ASSUME Known, Calm, [Next]_vars
  PROVE  \/ UNCHANGED <<messages, open>>
         \/ \E c \in Calls : RunAppend(c) /\ call[c].run = cur /\ Clear(cur)
         \/ Closes \/ (Respond /\ Open = "asked")
         \/ \E w \in Workers : (Land(w) \/ Commit(w) \/ Ask(w)) /\ WorkerMoves(w) /\ Me(w) = cur
<1>1. ASSUME NEW c \in Calls, RunAppend(c) PROVE call[c].run = cur /\ Clear(cur)
  BY <1>1 DEF RunAppend, Known, Dispatches, Sends, Sending
<1>2. ASSUME NEW w \in Workers, Land(w) \/ Commit(w) \/ Ask(w) PROVE Me(w) = cur
  <2>1. Writes(w)
    BY <1>2 DEF Land, Commit, Ask, Writes, At, Inside
  <2> QED BY <2>1, AsRun
<1>3. UNCHANGED vars => UNCHANGED <<messages, open>>
  BY DEF vars
<1>4. Respond => Open = "asked"
  BY DEF Respond
<1> QED BY <1>1, <1>2, <1>3, <1>4, Movers, CallSays, OthersSay, WorkerSays

Answered(r) == \E i \in DOMAIN messages : messages[i].run = r /\ messages[i].kind = "answer"

\* Steps of a segment that come before its answer, and those with no approval open.
Before  == {"model", "commit", "park", "ask", "land"}
Unasked == {"pickrec", "early", "model", "commit", "unpark"}

Answers ==
  /\ \A w \in Workers, p \in Before : At(w, p) => ~Answered(cur)
  /\ \A w \in Workers, p \in Unasked : At(w, p) => open[cur] = "none"
  /\ Answered(cur) => open[cur] = "none" /\ messages[Len(messages)].kind = "answer"
  /\ state \in {"QUEUED", "RUNNING"} => open[cur] = "none"

CalmAnswers == Calm /\ cur \in Runs => Answers

LEMMA SaysAnswer ==
  ASSUME StoreType, NEW r, NEW m, messages' = Append(messages, m), m.run = r => m.kind # "answer"
  PROVE  Answered(r)' => Answered(r)
BY DEF StoreType, Answered

\* A run newly installed has said nothing.
LEMMA InstallAnswers ==
  ASSUME Known, OwnIdsOnly, [Next]_vars, cur' # cur
  PROVE  Answers'
<1>1. PICK c \in Calls : call[c].pc = "install" /\ cur' = call[c].run
  BY CurInstalled DEF Known
<1>2. CallMoving(c) /\ RunInstall(c)
  <2>1. ASSUME NEW d \in Calls, CallMoving(d) PROVE RunInstall(d)
    BY <2>1 DEF CallMoving, RunBegin, Dispatch, RunAdmit, RunHot, RunStart, RunCheck, RunAppend,
       RunEnqueue, RunStopHot, RunFail, RunFailHot, RunThrows, RunDies, kv
  <2>2. ~OthersMove
    BY OthersWriteNamed DEF OthersMove, OthersWrites, Known
  <2>3. \A w \in Workers : ~WorkerMoves(w)
    BY WorkerWrites DEF WorkerMoves, OwnsWrites, Known
  <2>4. PICK d \in Calls : CallMoving(d) /\ RunInstall(d)
    BY <2>1, <2>2, <2>3, Movers DEF vars
  <2>5. d = c
    BY <1>1, <2>4, OwnRuns DEF RunInstall, Known
  <2> QED BY <2>4, <2>5
<1>3. cur' \in Runs /\ Untouched(cur') /\ UNCHANGED <<messages, open>>
  BY <1>1, <1>2, ReservedUntouched DEF Known, RunInstall, store
<1> QED BY <1>3 DEF Answers, Answered, Untouched

LEMMA AnswersKept ==
  ASSUME Known, Known', OwnIdsOnly, CalmAnswers, [Next]_vars
  PROVE  CalmAnswers'
<1> USE DEF IInv, TypeOK
<1> SUFFICES ASSUME Calm', cur' \in Runs, cur' = cur PROVE Answers'
  BY InstallAnswers DEF CalmAnswers
<1>0. IInv
  BY DEF Known
<1>1. Calm /\ Answers /\ Spared({"lapse"})
  BY <1>0, CalmBefore DEF CalmAnswers
<1>2. Open = open[cur] /\ open[cur] \in {"none", "asked", "answered"}
  BY <1>0 DEF Open, StoreType
<1>3. ASSUME NEW w \in Workers, Commit(w)
      PROVE  ~Answered(cur) /\ open[cur] = "none"
  BY <1>1, <1>3 DEF Commit, At, Answers, Before, Unasked
<1>4. ASSUME NEW w \in Workers, Land(w) \/ Ask(w) PROVE ~Answered(cur)
  BY <1>1, <1>4 DEF Land, Ask, At, Answers, Before
<1>5. ASSUME NEW r, messages' = Append(messages, [run |-> cur, kind |-> r]), r # "answer"
      PROVE  Answered(cur)' => Answered(cur)
  BY <1>0, <1>5, SaysAnswer
<1>6. ASSUME Answered(cur)', ~Answered(cur)
      PROVE  \E w \in Workers : Commit(w) /\ WorkerMoves(w) /\ then[w] = "answer" /\ Me(w) = cur
  <2>1. ASSUME NEW c \in Calls, RunAppend(c), call[c].run = cur PROVE FALSE
    BY <1>5, <1>6, <2>1 DEF RunAppend
  <2>2. ~Closes /\ ~Respond
    BY <1>5, <1>6 DEF Closes, Respond, Answered
  <2>3. ASSUME NEW w \in Workers, Me(w) = cur, Land(w) \/ Ask(w) PROVE FALSE
    BY <1>5, <1>6, <2>3 DEF Land, Ask, Answered
  <2>4. ASSUME NEW w \in Workers, Me(w) = cur, Commit(w), then[w] # "answer" PROVE FALSE
    BY <1>5, <1>6, <2>4 DEF Commit
  <2>5. messages' # messages
    BY <1>6 DEF Answered
  <2> QED BY <1>1, <2>1, <2>2, <2>3, <2>4, <2>5, Speakers
\* An approval is opened by a delivery that asks, and answered once it was opened.
<1>7. ASSUME open'[cur] # "none"
      PROVE  \/ open[cur] # "none" /\ (open' = open \/ Respond)
             \/ \E w \in Workers : Ask(w) /\ WorkerMoves(w)
  <2>1. CASE Closes
    BY <1>0, <1>7, <2>1 DEF Closes, StoreType
  <2>2. ASSUME NEW w \in Workers, Land(w), Me(w) = cur PROVE FALSE
    BY <1>0, <1>7, <2>2 DEF Land, StoreType
  <2> QED BY <1>1, <1>2, <1>7, <2>1, <2>2, Speakers DEF RunAppend, Commit
<1>8. ASSUME NEW w \in Workers, NEW p \in Before, At(w, p)' PROVE ~Answered(cur)'
  <2>1. ~Answered(cur)
    <3>1. CASE WorkerMoves(w)
      <4>1. Enters(w, p) \/ At(w, p)
        BY <1>0, <1>8, <3>1, WorkerPath DEF Before, Inside
      <4>2. CASE At(w, p)
        BY <1>1, <4>2 DEF Answers
      <4>3. CASE Enters(w, p) /\ p = "model"
        <5>1. CASE Early(w) /\ ~Finished(w)
          <6>1. Answered(cur) => messages # <<>>
            BY <1>0 DEF Answered, StoreType
          <6> QED BY <1>1, <5>1, <6>1 DEF Finished, Answers
        <5>2. CASE Commit(w)
          BY <1>3, <5>2
        <5> QED BY <4>3, <5>1, <5>2 DEF Enters
      <4>4. CASE Enters(w, p) /\ p = "commit"
        BY <1>1, <4>4 DEF Enters, Model, At, Answers, Before
      <4>5. CASE Enters(w, p) /\ p = "park"
        BY <1>3, <4>5 DEF Enters
      <4>6. CASE Enters(w, p) /\ p = "ask"
        BY <1>1, <4>6 DEF Enters, Park, At, Answers, Before
      <4>7. CASE Enters(w, p) /\ p = "land"
        BY <1>1, <1>2, <4>7 DEF Enters, Answers
      <4> QED BY <4>1, <4>2, <4>3, <4>4, <4>5, <4>6, <4>7 DEF Before
    <3>2. ASSUME NEW v \in Workers \ {w}, WorkerMoves(v) PROVE ~Answered(cur)
      BY <1>0, <1>1, <1>8, <3>2, WorkerAlone DEF Alone, At, Answers
    <3>3. CASE UNCHANGED worker
      BY <1>1, <1>8, <3>3, StandStill DEF Answers
    <3> QED BY <1>0, <3>1, <3>2, <3>3, Movers, CallQueue, OthersWorkers DEF vars, worker
  <2>2. ASSUME Answered(cur)' PROVE FALSE
    <3>1. PICK v \in Workers : Commit(v) /\ WorkerMoves(v) /\ then[v] = "answer"
      BY <1>6, <2>1, <2>2
    <3>2. At(v, "loopend")' /\ pc'[v] = "loopend"
      BY <1>0, <3>1 DEF Commit, Go, At, WorkersType
    <3>3. v = w
      <4>1. Writes(v)
        BY <3>1 DEF Commit, Writes, At, Inside
      <4>2. v # w => Writes(w)
        BY <1>0, <1>8, <3>1, WorkerAlone DEF Alone, At, Writes, Inside, Before
      <4> QED BY <1>1, <4>1, <4>2, AsRun
    <3> QED BY <1>8, <3>2, <3>3 DEF At, Before
  <2> QED BY <2>2
<1>9. ASSUME NEW w \in Workers, NEW p \in Unasked, At(w, p)' PROVE open'[cur] = "none"
  <2>0. SUFFICES ASSUME open'[cur] # "none" PROVE FALSE
    OBVIOUS
  <2>1. CASE \E v \in Workers : Ask(v) /\ WorkerMoves(v)
    <3>1. PICK v \in Workers : Ask(v) /\ WorkerMoves(v)
      BY <2>1
    <3>2. Writes(v)
      BY <3>1 DEF Ask, Writes, At, Inside
    <3>3. CASE v = w
      BY <1>0, <1>9, <3>1, <3>3 DEF Ask, Only, Go, At, WorkersType, Unasked
    <3>4. CASE v # w
      <4>1. Writes(w)
        BY <1>0, <1>9, <3>1, <3>4, WorkerAlone DEF Alone, At, Writes, Inside, Unasked
      <4> QED BY <1>1, <3>2, <3>4, <4>1, AsRun
    <3> QED BY <3>3, <3>4
  <2>2. CASE open[cur] # "none" /\ (open' = open \/ Respond)
    <3>1. CASE WorkerMoves(w)
      <4>1. Enters(w, p) \/ At(w, p)
        BY <1>0, <1>9, <3>1, WorkerPath DEF Unasked, Inside
      <4>2. ~At(w, p)
        BY <1>1, <2>2 DEF Answers
      <4>3. state \notin {"QUEUED", "RUNNING"}
        BY <1>1, <2>2 DEF Answers
      <4>4. ~PickRecord(w) /\ ~Unpark(w) /\ ~Early(w) /\ ~Commit(w) /\ ~Model(w)
        BY <1>1, <2>2 DEF PickRecord, Unpark, Early, Commit, Model, At, Answers, Unasked
      <4>5. ~Land(w)
        <5>1. Land(w) => Me(w) = cur /\ open' = [open EXCEPT ![Me(w)] = "none"]
          BY <1>1, AsRun DEF Land, Writes, At, Inside
        <5> QED BY <1>0, <2>0, <5>1 DEF StoreType
      <4> QED BY <4>1, <4>2, <4>3, <4>4, <4>5 DEF Enters, Unasked, CanMove
    <3>2. ASSUME NEW v \in Workers \ {w}, WorkerMoves(v) PROVE FALSE
      BY <1>0, <1>1, <1>9, <2>2, <3>2, WorkerAlone DEF Alone, At, Answers
    <3>3. CASE UNCHANGED worker
      BY <1>1, <1>9, <2>2, <3>3, StandStill DEF Answers
    <3> QED BY <1>0, <3>1, <3>2, <3>3, Movers, CallQueue, OthersWorkers DEF vars, worker
  <2> QED BY <1>7, <2>0, <2>1, <2>2
<1>10. ASSUME Answered(cur)' PROVE open'[cur] = "none" /\ messages'[Len(messages')].kind = "answer"
  <2>1. CASE Answered(cur)
    <3>1. open[cur] = "none" /\ messages[Len(messages)].kind = "answer"
      BY <1>1, <2>1 DEF Answers
    <3>2. \A w \in Workers : ~Land(w) /\ ~Commit(w) /\ ~Ask(w)
      BY <1>3, <1>4, <2>1
    <3>3. ~Clear(cur)
      BY <2>1 DEF Clear, Answered
    <3> QED BY <1>1, <1>2, <3>1, <3>2, <3>3, Speakers DEF Closes
  <2>2. CASE ~Answered(cur)
    <3>1. PICK w \in Workers : Commit(w) /\ WorkerMoves(w) /\ then[w] = "answer" /\ Me(w) = cur
      BY <1>6, <1>10, <2>2
    <3>2. messages' = Append(messages, [run |-> cur, kind |-> "answer"]) /\ open' = open
      BY <3>1 DEF Commit
    <3>3. messages'[Len(messages')].kind = "answer"
      BY <1>0, <3>2 DEF StoreType
    <3> QED BY <1>3, <3>1, <3>2, <3>3
  <2> QED BY <2>1, <2>2
<1>11. ASSUME state' \in {"QUEUED", "RUNNING"} PROVE open'[cur] = "none"
  <2>0. SUFFICES ASSUME open'[cur] # "none" PROVE FALSE
    OBVIOUS
  <2>1. ASSUME NEW w \in Workers, Ask(w) PROVE state' = state /\ state \notin {"QUEUED", "RUNNING"}
    BY <1>1, <2>1, AsRun DEF Ask, Writes, At, Inside, thread
  <2>2. CASE open[cur] # "none" /\ (open' = open \/ Respond)
    <3>1. state \notin {"QUEUED", "RUNNING"}
      BY <1>1, <2>2 DEF Answers
    <3>2. ASSUME NEW w \in Workers, WorkerMoves(w) PROVE FALSE
      <4>1. ~Unpark(w)
        BY <1>1, <2>2 DEF Unpark, At, Answers, Unasked
      <4> QED BY <1>0, <1>11, <3>1, <3>2, <4>1, WorkerState DEF CanMove, Terminal
    <3>3. ~OthersMove
      BY <1>0, <1>11, <3>1, OthersState DEF Terminal
    <3>4. ASSUME NEW c \in Calls, CallMoving(c) PROVE FALSE
      <4>1. state \notin Active
        BY <1>0, <1>11, <3>1, <3>4, CallStands DEF CallMoving, thread
      <4>2. CASE One /\ One'
        <5>1. Admitted # {}
          BY <4>2, OneRun DEF Known
        <5> QED BY <1>0, <1>11, <3>1, <4>1, <4>2, <5>1, OneRests
      <4>3. CASE Singly
        BY <2>2, <4>3 DEF Known, NoParks, Singly, Spared
      <4> QED BY <1>0, <1>1, <4>2, <4>3, CalmBefore DEF Calm
    <3> QED BY <1>11, <3>1, <3>2, <3>3, <3>4, Movers DEF vars
  <2> QED BY <1>7, <1>11, <2>0, <2>1, <2>2
<1> QED BY <1>8, <1>9, <1>10, <1>11 DEF Answers

LEMMA AnswersInductive ==
  ASSUME OwnIdsOnly
  PROVE  Spec => []CalmAnswers
<1>1. Init => CalmAnswers
  BY NamesAssumption, StartAssumption DEF Init, CalmAnswers
<1>2. Known /\ Known' /\ CalmAnswers /\ [Next]_vars => CalmAnswers'
  BY AnswersKept
<1> QED BY KnownInductive, <1>1, <1>2, PTL DEF Spec

\* Every entry is of the thread's run, and answers are of a run that has none yet.
LEMMA AllSayCur ==
  ASSUME Known, CalmAnswers, Calm, [Next]_vars
  PROVE  \/ messages' = messages
         \/ \E k : /\ messages' = Append(messages, [run |-> cur, kind |-> k])
                   /\ cur \in Runs /\ (k = "answer" => ~Answered(cur))
<1> DEFINE Adds(k) == /\ messages' = Append(messages, [run |-> cur, kind |-> k])
                      /\ cur \in Runs /\ (k = "answer" => ~Answered(cur))
<1>1. ASSUME NEW c \in Calls, RunAppend(c), call[c].run = cur PROVE Adds("user")
  BY <1>1, NamesAssumption DEF RunAppend, Known, IInv, CallKnows
<1>2. ASSUME NEW w \in Workers, Land(w) \/ Commit(w) \/ Ask(w) PROVE cur \in Runs
  <2>1. Writes(w)
    BY <1>2 DEF Land, Commit, Ask, Writes, At, Inside
  <2> QED BY <2>1, AsRun
<1>3. ASSUME NEW w \in Workers, Commit(w), cur \in Runs PROVE ~Answered(cur)
  BY <1>3 DEF Commit, CalmAnswers, Answers, At, Before
<1>4. ASSUME Closes PROVE Adds("result")
  <2>1. cur \in Runs
    BY <1>4 DEF Closes, Open
  <2> QED BY <1>4, <2>1 DEF Closes
<1>5. ASSUME NEW w \in Workers, Land(w), Me(w) = cur PROVE Adds("result")
  BY <1>2, <1>5 DEF Land
<1>6. ASSUME NEW w \in Workers, Commit(w), Me(w) = cur PROVE \E k : Adds(k)
  <2>1. PICK k : messages' = Append(messages, [run |-> cur, kind |-> k])
    BY <1>6 DEF Commit
  <2>2. Adds(k)
    BY <1>2, <1>3, <1>6, <2>1
  <2> QED BY <2>2
<1>7. ASSUME Respond \/ \E w \in Workers : Ask(w) PROVE messages' = messages
  BY <1>7 DEF Respond, Ask
<1> HIDE DEF Adds
<1>8. messages' = messages \/ \E k : Adds(k)
  BY <1>1, <1>4, <1>5, <1>6, <1>7, Speakers
<1> QED BY <1>8 DEF Adds

\* The turns of the thread's run come last, those of two runs do not mix, and a run
\* answers once.
Conversation ==
  /\ cur \in Runs => \A i, j \in DOMAIN messages :
                       i < j /\ messages[i].run = cur => messages[j].run = cur
  /\ \A i, j \in DOMAIN messages :
       i < j /\ messages[j].run \in Runs /\ messages[i].run # messages[j].run =>
         \A k \in DOMAIN messages : k > j => messages[k].run # messages[i].run
  /\ \A i, j \in DOMAIN messages :
       /\ messages[i].run \in Runs /\ messages[i].run = messages[j].run
       /\ messages[i].kind = "answer" /\ messages[j].kind = "answer"
       => i = j

CalmConversation == Calm => Conversation

LEMMA ConversationKept ==
  ASSUME Known, OwnIdsOnly, CalmAnswers, CalmConversation, [Next]_vars
  PROVE  CalmConversation'
<1> SUFFICES ASSUME Calm' PROVE Conversation'
  BY DEF CalmConversation
<1>1. Calm /\ Conversation
  BY CalmBefore DEF CalmConversation, Known
<1>2. messages \in Seq([run : AnyRun, kind : Entries])
  BY DEF Known, IInv, TypeOK, StoreType
<1>3. CASE messages' = messages
  <2>1. CASE cur' = cur
    BY <1>1, <1>3, <2>1 DEF Conversation
  <2>2. CASE cur' # cur
    <3>1. PICK c \in Calls : call[c].pc = "install" /\ cur' = call[c].run
      BY <2>2, CurInstalled DEF Known
    <3>2. Untouched(cur')
      BY <3>1, ReservedUntouched DEF Known
    <3> QED BY <1>1, <1>3, <3>2 DEF Conversation, Untouched
  <2> QED BY <2>1, <2>2
<1>4. ASSUME NEW k, messages' = Append(messages, [run |-> cur, kind |-> k]), cur \in Runs,
             k = "answer" => ~Answered(cur)
      PROVE  Conversation'
  <2>1. cur' = cur
    <3>1. ASSUME cur' # cur PROVE messages' = messages
      <4>1. ASSUME NEW c \in Calls, CallMoving(c) PROVE ~RunAppend(c)
        BY <3>1 DEF RunAppend, kv
      <4>2. ~OthersMove
        BY <3>1, OthersWriteNamed DEF OthersMove, OthersWrites, Known
      <4>3. \A w \in Workers : ~WorkerMoves(w)
        BY <3>1, WorkerWrites DEF WorkerMoves, OwnsWrites, Known
      <4> QED BY <4>1, <4>2, <4>3, Movers, CallSays DEF vars
    <3>2. messages' # messages
      BY <1>2, <1>4
    <3> QED BY <3>1, <3>2
  <2> DEFINE n == Len(messages)
  <2>2. /\ DOMAIN messages' = DOMAIN messages \cup {n + 1} /\ DOMAIN messages = 1..n /\ n \in Nat
        /\ \A i \in DOMAIN messages : messages'[i] = messages[i]
        /\ messages'[n + 1].run = cur /\ messages'[n + 1].kind = k
    BY <1>2, <1>4
  <2>3. \A i, j \in DOMAIN messages' : i < j /\ messages'[i].run = cur => messages'[j].run = cur
    BY <1>1, <1>4, <2>2 DEF Conversation
  <2>4. ASSUME NEW i \in DOMAIN messages', NEW j \in DOMAIN messages', i < j, messages'[j].run \in Runs,
               messages'[i].run # messages'[j].run, NEW l \in DOMAIN messages', l > j
        PROVE  messages'[l].run # messages'[i].run
    <3>1. i \in DOMAIN messages /\ j \in DOMAIN messages
      BY <2>2, <2>4
    <3>2. CASE l \in DOMAIN messages
      BY <1>1, <2>2, <2>4, <3>1, <3>2 DEF Conversation
    <3>3. CASE l = n + 1
      BY <2>2, <2>3, <2>4, <3>1, <3>3
    <3> QED BY <2>2, <3>2, <3>3
  <2>5. ASSUME NEW i \in DOMAIN messages', NEW j \in DOMAIN messages', messages'[i].run \in Runs,
               messages'[i].run = messages'[j].run,
               messages'[i].kind = "answer", messages'[j].kind = "answer"
        PROVE  i = j
    <3>1. k = "answer" => \A l \in DOMAIN messages : ~(messages[l].run = cur /\ messages[l].kind = "answer")
      BY <1>4 DEF Answered
    <3> QED BY <1>1, <2>2, <2>5, <3>1 DEF Conversation
  <2> QED BY <2>1, <2>3, <2>4, <2>5 DEF Conversation
<1> QED BY <1>1, <1>3, <1>4, AllSayCur

LEMMA ConversationInductive ==
  ASSUME OwnIdsOnly
  PROVE  Spec => []CalmConversation
<1>1. Init => CalmConversation
  <2>1. ASSUME Init PROVE \A i, j \in DOMAIN messages : i = j
    <3>1. CASE state = "IDLE"
      BY <2>1, <3>1 DEF Init
    <3>2. CASE state # "IDLE"
      <4>1. messages = <<[run |-> OldRun, kind |-> "answer"]>> \/ messages = <<[run |-> OldRun, kind |-> "user"]>>
        BY <2>1, <3>2 DEF Init
      <4> QED BY <4>1
    <3> QED BY <3>1, <3>2
  <2> QED BY <2>1 DEF CalmConversation, Conversation
<1>2. Known /\ CalmAnswers /\ CalmConversation /\ [Next]_vars => CalmConversation'
  BY ConversationKept
<1> QED BY KnownInductive, AnswersInductive, <1>1, <1>2, PTL DEF Spec

\* While no lease lapses and no dispatch outlasts one, a run's turns stay together on a
\* thread that had this run only, or on which nothing is stopped, parked or delivered
\* twice: no late writer adds to an older run's turns after the newer run's first.
THEOREM TurnsStayTogether ==
  ASSUME OwnIdsOnly
  PROVE  Spec => []TurnsInOrder
<1>1. CalmConversation => TurnsInOrder
  BY DEF CalmConversation, Conversation, TurnsInOrder
<1> QED BY ConversationInductive, <1>1, PTL

-------------------------------------------------------------------------------
\* Results and calls.

\* The step w is at will have its call asked for, or the call awaits its result.
Asks(w, r) == Me(w) = r /\ (At(w, "park") \/ At(w, "ask"))
Outstanding(r) == open[r] # "none" \/ \E w \in Workers : Asks(w, r)

Owed(r) ==
  Cardinality(Entry(r, "result")) + (IF Outstanding(r) THEN 1 ELSE 0)
    <= Cardinality(Entry(r, "call"))

\* While no run is stopped and no lease lapses: each result is of a call of its own, one
\* more call is there where one is outstanding, and a delivery lands a verdict only on
\* an approval that is open.
Paid ==
  Spared({"stop", "lapse"}) =>
    /\ \A r \in Runs : Owed(r)
    /\ \A w \in Workers : /\ At(w, "land") => open[Me(w)] # "none"
                          /\ At(w, "resume") => Me(w) = cur \/ Open = "none"

LEMMA EntryIsFinite ==
  ASSUME StoreType, NEW r, NEW k
  PROVE  IsFiniteSet(Entry(r, k)) /\ Cardinality(Entry(r, k)) \in Nat
<1>1. IsFiniteSet(1..Len(messages))
  BY FS_Interval DEF StoreType
<1>2. Entry(r, k) \in SUBSET (1..Len(messages))
  BY DEF Entry, StoreType
<1>3. IsFiniteSet(Entry(r, k))
  BY <1>1, <1>2, FS_Subset
<1> QED BY <1>3, FS_CardinalityType

\* An entry more is counted once, where it belongs.
LEMMA EntryCounts ==
  ASSUME StoreType, NEW q, NEW l, messages' = Append(messages, [run |-> q, kind |-> l]),
         NEW r, NEW k
  PROVE  Cardinality(Entry(r, k)') =
           Cardinality(Entry(r, k)) + (IF r = q /\ k = l THEN 1 ELSE 0)
<1> DEFINE n == Len(messages) + 1
<1>1. /\ DOMAIN messages' = DOMAIN messages \cup {n} /\ n \notin DOMAIN messages
      /\ \A i \in DOMAIN messages : messages'[i] = messages[i]
      /\ messages'[n] = [run |-> q, kind |-> l]
  BY DEF StoreType
<1> HIDE DEF n
<1>2. IsFiniteSet(Entry(r, k)) /\ Cardinality(Entry(r, k)) \in Nat
  BY EntryIsFinite
<1>3. CASE r = q /\ k = l
  <2>1. Entry(r, k)' = Entry(r, k) \cup {n} /\ n \notin Entry(r, k)
    BY <1>1, <1>3 DEF Entry
  <2> QED BY <1>2, <1>3, <2>1, FS_AddElement
<1>4. CASE ~(r = q /\ k = l)
  <2>1. Entry(r, k)' = Entry(r, k)
    BY <1>1, <1>4 DEF Entry
  <2> QED BY <1>2, <1>4, <2>1
<1> QED BY <1>3, <1>4

\* Whose step closes an open approval: with no run stopped, one that has the thread to itself.
LEMMA ClosesAlone ==
  ASSUME IInv, LockInv, Spared({"lapse"}), NEW w \in Workers, WorkerMoves(w), ~Land(w), Closes
  PROVE  \A v \in Workers : ~Writes(v)
<1>1. LostRun(w) \/ Refuse(w)
  <2>1. open' # open
    BY DEF Closes, Open, IInv, TypeOK, StoreType
  <2>2. messages' # messages
    BY DEF Closes, IInv, TypeOK, StoreType
  <2> QED BY <2>1, <2>2 DEF WorkerMoves, Handle, Deliver, DeadJob, Acquire, Check, Pickup, Hot,
             PickRecord, Resume, Unpark, Early, Model, SegmentFails, Shutdown, Park, Parked,
             LoopEnd, Finalize, CloseRead, ClosePatch, Release, Ack, Redrive, Policy, MarkQueued,
             QueueRecord, Requeue, FailSettle, FailRun, Poll, LeaseLost, WorkerDies, store, Commit, Ask
<1>2. CASE LostRun(w)
  <2>1. lock = NoLock
    BY <1>2, <1>1 DEF LostRun, CanLock, Closes, IInv, TypeOK, StoreType
  <2> QED BY <2>1, NamesAssumption, WritesLive DEF LockInv, Spared, NoLock
<1>3. CASE Refuse(w)
  <2>1. Leased(w) /\ ~Writes(w)
    BY <1>3 DEF Refuse, Leased, Writes, At, Inside
  <2> QED BY <2>1, WritesLive DEF LockInv, Spared
<1> QED BY <1>1, <1>2, <1>3

LEMMA Voices ==
  ASSUME [Next]_vars
  PROVE  \/ UNCHANGED <<messages, open>>
         \/ \E c \in Calls : RunAppend(c) /\ CallMoving(c)
         \/ OthersMove /\ (Closes \/ Respond)
         \/ \E w \in Workers : WorkerMoves(w) /\ (Closes \/ Land(w) \/ Commit(w) \/ Ask(w))
<1>1. UNCHANGED vars => UNCHANGED <<messages, open>>
  BY DEF vars
<1> QED BY <1>1, Movers, WorkerSays, OthersSay, CallSays

\* The worker that a step is not of stays where it is.
LEMMA StaysPut ==
  ASSUME IInv, [Next]_vars, NEW v \in Workers, ~WorkerMoves(v)
  PROVE  (\A p : At(v, p)' <=> At(v, p)) /\ Me(v)' = Me(v)
<1>1. ASSUME NEW w \in Workers, WorkerMoves(w) PROVE Alone(w) /\ w # v
  BY <1>1, WorkerAlone
<1>2. ASSUME NEW c \in Calls, CallMoving(c) PROVE UNCHANGED worker
  BY <1>2 DEF CallMoving, Dispatch, RunBegin, RunAdmit, RunHot, RunInstall, RunStart, RunCheck,
     RunAppend, RunEnqueue, RunStopHot, RunFail, RunFailHot, RunThrows, RunDies, CallOnly
<1>3. UNCHANGED vars => UNCHANGED worker
  BY DEF vars, worker
<1>4. UNCHANGED worker \/ \E w \in Workers : Alone(w) /\ w # v
  BY <1>1, <1>2, <1>3, Movers, OthersWorkers
<1>5. CASE UNCHANGED worker
  BY <1>5, StandStill
<1>6. CASE \E w \in Workers : Alone(w) /\ w # v
  BY <1>6 DEF Alone, At, Me
<1> QED BY <1>4, <1>5, <1>6

LEMMA AsksBefore ==
  ASSUME IInv, [Next]_vars, NEW w \in Workers, NEW r, Asks(w, r)'
  PROVE  Asks(w, r) \/ (WorkerMoves(w) /\ Commit(w) /\ then[w] = "park" /\ Me(w) = r)
<1>1. CASE WorkerMoves(w)
  <2>1. PICK p \in {"park", "ask"} : At(w, p)' /\ Me(w)' = r
    BY DEF Asks
  <2>2. Me(w)' = Me(w) /\ (Enters(w, p) \/ At(w, p))
    BY <1>1, <2>1, WorkerPath DEF Inside
  <2>3. Enters(w, p) => (p = "park" /\ Commit(w) /\ then[w] = "park") \/ At(w, "park")
    BY <2>1 DEF Enters, Park, At
  <2> QED BY <1>1, <2>1, <2>2, <2>3 DEF Asks
<1>2. CASE ~WorkerMoves(w)
  BY <1>2, StaysPut DEF Asks
<1> QED BY <1>1, <1>2

LEMMA OpenBefore ==
  ASSUME IInv, [Next]_vars, NEW r \in Runs, open'[r] # "none"
  PROVE  open[r] # "none" \/ \E w \in Workers : Ask(w) /\ Me(w) = r
<1> USE DEF IInv, TypeOK, StoreType
<1>1. ASSUME NEW w \in Workers, Land(w) \/ Commit(w) \/ Ask(w) PROVE open[r] # "none" \/ (Ask(w) /\ Me(w) = r)
  BY <1>1 DEF Land, Commit, Ask
<1>2. Closes => open[r] # "none"
  BY DEF Closes
<1>3. Respond => open[r] # "none"
  BY DEF Respond, Open
<1>4. \A c \in Calls : RunAppend(c) => open[r] # "none"
  BY DEF RunAppend
<1> QED BY <1>1, <1>2, <1>3, <1>4, Voices

\* Only a step that leaves a call leaves one more outstanding.
LEMMA OutstandingBefore ==
  ASSUME IInv, [Next]_vars, NEW r \in Runs, Outstanding(r)'
  PROVE  \/ Outstanding(r)
         \/ \E w \in Workers : WorkerMoves(w) /\ Commit(w) /\ then[w] = "park" /\ Me(w) = r
<1>1. CASE open'[r] # "none"
  BY <1>1, OpenBefore DEF Ask, Outstanding, Asks, At
<1>2. CASE \E w \in Workers : Asks(w, r)'
  BY <1>2, AsksBefore DEF Outstanding
<1> QED BY <1>1, <1>2 DEF Outstanding

\* A step that adds neither a result nor a call, or adds a call, leaves every run paid.
LEMMA OwedStill ==
  ASSUME IInv, [Next]_vars, NEW r \in Runs, Owed(r),
         \A k \in {"call", "result"} : Cardinality(Entry(r, k)') = Cardinality(Entry(r, k)),
         \A w \in Workers : ~(Commit(w) /\ then[w] = "park" /\ Me(w) = r)
  PROVE  Owed(r)'
<1>1. Outstanding(r)' => Outstanding(r)
  BY OutstandingBefore
<1>2. \A k \in {"call", "result"} : Cardinality(Entry(r, k)) \in Nat
  BY EntryIsFinite DEF IInv, TypeOK
<1> HIDE DEF Outstanding
<1> QED BY <1>1, <1>2 DEF Owed

LEMMA OwedKept ==
  ASSUME IInv, LockInv, StopNames, Paid, [Next]_vars, Spared({"stop", "lapse"}), NEW r \in Runs
  PROVE  Owed(r)'
<1>0. Owed(r) /\ Spared({"lapse"}) /\ stopper.pc = "idle"
  BY DEF Paid, StopNames, Spared
<1>t. /\ StoreType
      /\ Cardinality(Entry(r, "call")) \in Nat /\ Cardinality(Entry(r, "result")) \in Nat
  BY EntryIsFinite DEF IInv, TypeOK
<1>1. CASE messages' = messages
  <2>1. \A k : Cardinality(Entry(r, k)') = Cardinality(Entry(r, k))
    BY <1>1 DEF Entry
  <2>2. \A w \in Workers : ~Commit(w)
    BY <1>1, <1>t DEF Commit, StoreType
  <2> QED BY <1>0, <2>1, <2>2, OwedStill
<1>2. ASSUME NEW c \in Calls, RunAppend(c) PROVE Owed(r)'
  <2>1. \A k \in {"call", "result"} : Cardinality(Entry(r, k)') = Cardinality(Entry(r, k))
    <3> TAKE k \in {"call", "result"}
    <3>1. k # "user"
      OBVIOUS
    <3> QED BY <1>2, <1>t, <3>1, EntryCounts, EntryIsFinite DEF RunAppend
  <2>2. \A w \in Workers : ~Commit(w)
    BY <1>2, NamesAssumption DEF Commit, RunAppend, CallGoes, CallOnly, worker, Go, IInv, TypeOK, WorkersType
  <2> QED BY <1>0, <2>1, <2>2, OwedStill
<1>3. ASSUME NEW w \in Workers, WorkerMoves(w), Commit(w) PROVE Owed(r)'
  <2>1. then[w] \in {"tool", "answer", "park"}
    BY <1>3 DEF Commit, IInv, WorkerKnows
  <2>2. CASE then[w] = "park"
    <3>1. messages' = Append(messages, [run |-> Me(w), kind |-> "call"])
      BY <1>3, <2>2 DEF Commit
    <3>2. Cardinality(Entry(r, "result")') = Cardinality(Entry(r, "result"))
      BY <1>t, <3>1, EntryCounts
    <3>3. Cardinality(Entry(r, "call")') =
            Cardinality(Entry(r, "call")) + (IF r = Me(w) THEN 1 ELSE 0)
      BY <1>t, <3>1, EntryCounts
    <3>4. Outstanding(r)' => Outstanding(r) \/ Me(w) = r
      <4>1. ASSUME NEW v \in Workers, Commit(v), v # w PROVE FALSE
        BY <1>3, <4>1 DEF Commit, Go, IInv, TypeOK, WorkersType
      <4> QED BY <4>1, OutstandingBefore
    <3> HIDE DEF Outstanding
    <3> QED BY <1>0, <1>t, <3>2, <3>3, <3>4 DEF Owed
  <2>3. CASE then[w] # "park"
    <3>1. messages' = Append(messages, [run |-> Me(w), kind |-> then[w]])
      BY <1>3, <2>3 DEF Commit
    <3>2. then[w] # "call" /\ then[w] # "result"
      BY <2>1
    <3>3. \A k \in {"call", "result"} : Cardinality(Entry(r, k)') = Cardinality(Entry(r, k))
      <4> TAKE k \in {"call", "result"}
      <4> QED BY <1>t, <3>1, <3>2, EntryCounts, EntryIsFinite
    <3>4. ASSUME NEW v \in Workers, Commit(v), v # w PROVE FALSE
      BY <1>3, <3>4 DEF Commit, Go, IInv, TypeOK, WorkersType
    <3> QED BY <1>0, <2>3, <3>3, <3>4, OwedStill
  <2> QED BY <2>2, <2>3
<1>4. ASSUME NEW w \in Workers, WorkerMoves(w), Land(w) PROVE Owed(r)'
  <2>1. messages' = Append(messages, [run |-> Me(w), kind |-> "result"])
    BY <1>4 DEF Land
  <2>2. /\ Cardinality(Entry(r, "call")') = Cardinality(Entry(r, "call"))
        /\ Cardinality(Entry(r, "result")') =
             Cardinality(Entry(r, "result")) + (IF r = Me(w) THEN 1 ELSE 0)
    BY <1>t, <2>1, EntryCounts
  <2>3. \A v \in Workers : ~Commit(v)
    BY <1>4 DEF Commit, Land, Only, Go, IInv, TypeOK, WorkersType
  <2>4. Outstanding(r)' => Outstanding(r)
    BY <2>3, OutstandingBefore
  <2>5. CASE r = Me(w)
    <3>1. Outstanding(r)
      BY <1>0, <1>4, <2>5 DEF Paid, Land, At, Outstanding
    <3>2. ~Outstanding(r)'
      <4>1. open'[r] = "none"
        BY <1>4, <1>t, <2>5 DEF Land, StoreType
      <4>2. \A v \in Workers : Writes(v) => v = w
        BY <1>0, <1>4, OneWriter DEF Land, Writes, At, Inside
      <4>3. ASSUME NEW v \in Workers, Asks(v, r)' PROVE FALSE
        <5>1. Asks(v, r)
          BY <2>3, <4>3, AsksBefore
        <5>2. v = w
          BY <4>2, <5>1 DEF Asks, Writes, Inside
        <5> QED BY <1>4, <5>1, <5>2 DEF Asks, At, Land
      <4> QED BY <4>1, <4>3 DEF Outstanding
    <3> HIDE DEF Outstanding
    <3> QED BY <1>0, <1>t, <2>2, <3>1, <3>2 DEF Owed
  <2>6. CASE r # Me(w)
    BY <1>0, <1>t, <2>2, <2>4, <2>6 DEF Owed
  <2> QED BY <2>5, <2>6
<1>5. ASSUME NEW w \in Workers, WorkerMoves(w), Closes, ~Land(w) PROVE Owed(r)'
  <2>1. messages' = Append(messages, [run |-> cur, kind |-> "result"]) /\ cur \in Runs
    BY <1>5 DEF Closes, Open
  <2>2. /\ Cardinality(Entry(r, "call")') = Cardinality(Entry(r, "call"))
        /\ Cardinality(Entry(r, "result")') =
             Cardinality(Entry(r, "result")) + (IF r = cur THEN 1 ELSE 0)
    BY <1>t, <2>1, EntryCounts
  <2>3. \A v \in Workers : ~Writes(v)
    BY <1>0, <1>5, ClosesAlone
  <2>4. \A v \in Workers : ~Asks(v, r) /\ ~Commit(v)
    BY <2>3 DEF Asks, Writes, Commit, At, Inside
  <2>5. Outstanding(r)' => Outstanding(r)
    BY <2>4, OutstandingBefore
  <2>6. CASE r = cur
    <3>1. Outstanding(r)
      BY <1>5, <2>6 DEF Closes, Open, Outstanding
    <3>2. ~Outstanding(r)'
      <4>1. open'[r] = "none"
        BY <1>5, <1>t, <2>6 DEF Closes, StoreType
      <4> QED BY <2>4, <4>1, AsksBefore DEF Outstanding
    <3> HIDE DEF Outstanding
    <3> QED BY <1>0, <1>t, <2>2, <2>6, <3>1, <3>2 DEF Owed
  <2>7. CASE r # cur
    BY <1>0, <1>t, <2>2, <2>5, <2>7 DEF Owed
  <2> QED BY <2>6, <2>7
<1>6. OthersMove => messages' = messages
  <2>1. Closes => messages' # messages
    BY <1>t DEF Closes, StoreType
  <2>2. StopRead \/ StopDies \/ Stopping => UNCHANGED messages
    BY <1>0 DEF StopRead, StopDies, Stopping, StopWhich, StopCas, StopHot, StopRecord, StopLease,
       StopSettle, StopRelease, StopParks, store
  <2>3. SweepFind \/ Sweeping \/ LockExpires \/ LockLapses \/ Respond => UNCHANGED messages
    BY DEF Respond, SweepFind, Sweeping, SweepEnqueue, SweepHeal, SweepHot, LockExpires, LockLapses, store
  <2> QED BY <2>2, <2>3 DEF OthersMove
<1>7. (\E w \in Workers : Ask(w)) => messages' = messages
  BY DEF Ask
<1> QED BY <1>1, <1>2, <1>3, <1>4, <1>5, <1>6, <1>7, Voices

\* What a delivery at a verdict relies on stays so: nobody else closes or opens an
\* approval under its lease, and a run newly installed has none.
LEMMA PaidKept ==
  ASSUME IInv, LockInv, OwnIdsOnly, Begins, StopNames, Paid, [Next]_vars
  PROVE  Paid'
<1> SUFFICES ASSUME Spared({"stop", "lapse"})'
             PROVE  /\ \A r \in Runs : Owed(r)'
                    /\ \A w \in Workers :
                         /\ At(w, "land")' => open'[Me(w)'] # "none"
                         /\ At(w, "resume")' => Me(w)' = cur' \/ Open' = "none"
  BY DEF Paid
<1>1. Spared({"stop", "lapse"})
  BY NextGrows, SparedBefore DEF Events
<1>2. Spared({"lapse"}) /\ stopper.pc = "idle" /\ StoreType /\ KvType
  BY <1>1 DEF Spared, StopNames, IInv, TypeOK
<1>3. \A r \in Runs : Owed(r)'
  BY <1>1, OwedKept
<1>4. ASSUME NEW w \in Workers, At(w, "land")' PROVE open'[Me(w)'] # "none"
  <2>1. Me(w)' = Me(w) /\ open[Me(w)] # "none" /\ Writes(w)
    <3>1. CASE WorkerMoves(w)
      <4>1. Me(w)' = Me(w) /\ (Enters(w, "land") \/ At(w, "land"))
        BY <1>4, <3>1, WorkerPath DEF Inside
      <4>2. CASE At(w, "land")
        BY <1>1, <4>1, <4>2 DEF Paid, Writes, Inside
      <4>3. CASE Enters(w, "land")
        <5>1. Resume(w) /\ Open # "none" /\ At(w, "resume")
          BY <4>3 DEF Enters, Resume, At
        <5>2. Me(w) = cur
          BY <1>1, <5>1 DEF Paid
        <5> QED BY <4>1, <5>1, <5>2 DEF Open, Writes, Inside
      <4> QED BY <4>1, <4>2, <4>3
    <3>2. CASE ~WorkerMoves(w)
      BY <1>1, <1>4, <3>2, StaysPut DEF Paid, Writes, Inside
    <3> QED BY <3>1, <3>2
  <2>2. Me(w) \in Runs
    BY <2>1, WritesLive
  <2>3. ASSUME open'[Me(w)] = "none" PROVE FALSE
    <3>1. Closes => \E v \in Workers : WorkerMoves(v)
      <4>1. OthersMove => messages' = messages \/ Respond
        BY <1>2 DEF OthersMove, StopRead, StopDies, Stopping, StopWhich, StopCas, StopHot, StopRecord,
           StopLease, StopSettle, StopRelease, StopParks, SweepFind, Sweeping, SweepEnqueue,
           SweepHeal, SweepHot, LockExpires, LockLapses, store
      <4>2. Respond => messages' = messages
        BY DEF Respond
      <4>3. ASSUME NEW c \in Calls, CallMoving(c) PROVE open' = open
        BY <4>3, CallSays DEF RunAppend
      <4>4. Closes => messages' # messages /\ open' # open
        BY <1>2 DEF Closes, Open, StoreType
      <4> QED BY <4>1, <4>2, <4>3, <4>4, Movers DEF vars
    <3>2. ASSUME NEW v \in Workers, WorkerMoves(v), Closes, ~Land(v) PROVE FALSE
      BY <1>2, <2>1, <3>2, ClosesAlone
    <3>3. ASSUME NEW v \in Workers, WorkerMoves(v), Land(v) PROVE FALSE
      <4>1. v = w
        BY <1>2, <2>1, <3>3, OneWriter DEF Land, Writes, At, Inside
      <4>2. pc'[w] = "unpark"
        BY <3>3, <4>1 DEF Land, Only, Go, IInv, TypeOK, WorkersType
      <4> QED BY <1>4, <4>2 DEF At
    <3>4. Respond => open'[Me(w)] # "none"
      BY <1>2, <2>1, <2>2 DEF Respond, StoreType
    <3>5. \A v \in Workers : Ask(v) => open'[Me(w)] # "none"
      BY <1>2, <2>1, <2>2 DEF Ask, StoreType
    <3>6. (\A c \in Calls : RunAppend(c) => open' = open) /\ (\A v \in Workers : Commit(v) => open' = open)
      BY DEF RunAppend, Commit
    <3> QED BY <2>1, <2>3, <3>1, <3>2, <3>3, <3>4, <3>5, <3>6, Voices
  <2> QED BY <2>1, <2>3
<1>5. ASSUME NEW w \in Workers, At(w, "resume")' PROVE Me(w)' = cur' \/ Open' = "none"
  <2>1. CASE cur' # cur
    <3>1. PICK c \in Calls : call[c].pc = "install" /\ cur' = call[c].run
      BY <2>1, CurInstalled
    <3>2. Untouched(cur') /\ cur' \in Runs
      BY <3>1, ReservedUntouched
    <3>3. open[cur'] = "none" /\ \A v \in Workers : Me(v) # cur'
      BY <3>2 DEF Untouched, Me
    <3>4. open'[cur'] = "none"
      BY <3>2, <3>3, OpenBefore
    <3> QED BY <3>4 DEF Open
  <2>2. CASE cur' = cur
    <3>1. CASE Me(w)' = cur
      BY <2>2, <3>1
    <3>2. CASE Me(w)' # cur
      <4>1. Me(w)' = Me(w) /\ At(w, "resume")
        <5>1. CASE WorkerMoves(w)
          BY <1>5, <3>2, <5>1, WorkerPath DEF Inside, Enters
        <5>2. CASE ~WorkerMoves(w)
          BY <1>5, <5>2, StaysPut
        <5> QED BY <5>1, <5>2
      <4>2. Open = "none" /\ Writes(w)
        BY <1>1, <3>2, <4>1 DEF Paid, Writes, Inside
      <4>3. ASSUME cur \in Runs, open'[cur] # "none" PROVE FALSE
        <5>1. open[cur] = "none"
          BY <4>2, <4>3 DEF Open
        <5>2. PICK v \in Workers : Ask(v) /\ Me(v) = cur
          BY <4>3, <5>1, OpenBefore
        <5>3. v = w
          BY <1>2, <4>2, <5>2, OneWriter DEF Ask, Writes, At, Inside
        <5> QED BY <3>2, <4>1, <5>2, <5>3
      <4> QED BY <2>2, <4>3 DEF Open
    <3> QED BY <3>1, <3>2
  <2> QED BY <2>1, <2>2
<1> QED BY <1>3, <1>4, <1>5

LEMMA PaidInductive ==
  ASSUME OwnIdsOnly
  PROVE  Spec => []Paid
<1>1. Init => Paid
  <2> SUFFICES ASSUME Init PROVE Paid
    OBVIOUS
  <2>1. \A w \in Workers, p \in {"park", "ask", "land", "resume"} : ~At(w, p)
    BY DEF Init, At
  <2>2. ASSUME NEW r \in Runs PROVE Owed(r)
    <3>1. ~Outstanding(r)
      BY <2>1 DEF Outstanding, Asks, Init
    <3>2. Entry(r, "result") = {}
      <4>1. \A i \in DOMAIN messages : messages[i].kind # "result"
        <5>1. CASE state = "IDLE"
          BY <5>1 DEF Init
        <5>2. CASE state # "IDLE"
          <6>1. messages = <<[run |-> OldRun, kind |-> "answer"]>> \/ messages = <<[run |-> OldRun, kind |-> "user"]>>
            BY <5>2 DEF Init
          <6> QED BY <6>1
        <5> QED BY <5>1, <5>2
      <4> QED BY <4>1 DEF Entry
    <3>3. Cardinality(Entry(r, "call")) \in Nat
      BY InitIInv, EntryIsFinite DEF IInv, TypeOK
    <3> HIDE DEF Outstanding
    <3> QED BY <3>1, <3>2, <3>3, FS_EmptySet DEF Owed
  <2> QED BY <2>1, <2>2 DEF Paid
<1>2. IInv /\ LockInv /\ Begins /\ Follows /\ Paid /\ [Next]_vars => Paid'
  BY PaidKept DEF Follows
<1> QED BY Inductive, LockInductive, BeginsInductive, FollowsInductive, <1>1, <1>2, PTL DEF Spec

\* A run answers once, while no lease lapses and no dispatch outlasts one, on a thread
\* that had this run only or on which nothing is stopped, parked or delivered twice; and
\* while nothing is stopped and no lease lapses no parked call gets a second result, be
\* it a verdict or a cancellation, however often its job is delivered, retried, given up
\* or reclaimed (finishedEarlier, resumePendingHitl, closeOpenParks).
THEOREM AnswersAreSingle ==
  ASSUME OwnIdsOnly
  PROVE  Spec => []AnswersOnce
<1>1. IInv /\ CalmConversation /\ Paid => AnswersOnce
  <2> SUFFICES ASSUME IInv, CalmConversation, Paid PROVE AnswersOnce
    OBVIOUS
  <2>1. ASSUME Calm, NEW r \in Runs PROVE Cardinality(Entry(r, "answer")) <= 1
    <3>1. \A i, j \in Entry(r, "answer") : i = j
      BY <2>1 DEF Entry, CalmConversation, Conversation
    <3>2. Entry(r, "answer") = {} \/ \E i : Entry(r, "answer") = {i}
      BY <3>1
    <3> QED BY <3>2, FS_EmptySet, FS_Singleton
  <2>2. ASSUME Spared({"stop", "lapse"}), NEW r \in Runs
        PROVE  Cardinality(Entry(r, "result")) <= Cardinality(Entry(r, "call"))
    <3>1. Owed(r) /\ \A k : Cardinality(Entry(r, k)) \in Nat
      BY <2>2, EntryIsFinite DEF Paid, IInv, TypeOK
    <3> HIDE DEF Outstanding
    <3> QED BY <3>1 DEF Owed
  <2> QED BY <2>1, <2>2 DEF AnswersOnce
<1> QED BY Inductive, ConversationInductive, PaidInductive, <1>1, PTL
=============================================================================
