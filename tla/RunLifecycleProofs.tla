------------------------- MODULE RunLifecycleProofs -------------------------
(***************************************************************************)
(* Proofs about the run lifecycle, for any number of calls, runs and       *)
(* workers and any bound on events.                                        *)
(***************************************************************************)
EXTENDS RunLifecycleProperties, TLAPS

-------------------------------------------------------------------------------
\* The inductive invariant: besides the types, what each process knows at each
\* of its steps.

\* A call that has begun has an id it may name, and claims only a thread it saw idle.
CallKnows(c) ==
  /\ call[c].pc # "idle" => call[c].run \in Ids[c]
  /\ call[c].pc = "admit" => call[c].seen \notin Active

SweepKnows == sweep.pc # "idle" => sweep.run \in Runs

\* A delivery that is under way has a job, and where it is tells how its segment
\* ended.
InRun == {"idle", "dead", "acquire", "lostrun", "check", "pickup", "pickrec", "resume",
          "land", "unpark", "early", "model", "commit", "park", "ask", "parked",
          "loopend", "finalize"}

HotKnows(w) ==
  \/ out[w] = "executed" /\ then[w] \in {"pickrec", "early", "ask", "close"}
  \/ out[w] \in {"dead", "conflict", "lost", "error", "permanent"} /\ then[w] = "close"
  \/ out[w] \in {"shutdown", "error"} /\ then[w] = "queuerec"

WorkerKnows(w) ==
  /\ pc[w] \notin {"idle", "dead"} => job[w] \in Jobs
  /\ pc[w] \in InRun => out[w] = "executed"
  /\ pc[w] = "hot" => HotKnows(w)
  /\ pc[w] = "commit" => steps[w] < MaxSteps /\ then[w] \in {"tool", "answer", "park"}
  /\ pc[w] = "finalize" => val[w] \in Terminal
  /\ pc[w] \in {"settle", "failrun", "close", "closing"} => out[w] \notin {"stale", "shutdown"}
  /\ pc[w] = "release" => out[w] # "conflict"
  /\ pc[w] = "redrive" => out[w] \in {"conflict", "lost"}
  /\ pc[w] = "policy" => out[w] \in {"error", "permanent"}
  /\ pc[w] \in {"markqueued", "queuerec", "requeue"} => out[w] \in {"shutdown", "error"}

IInv ==
  /\ TypeOK
  /\ \A c \in Calls : CallKnows(c)
  /\ SweepKnows
  /\ \A w \in Workers : WorkerKnows(w)

\* While no lease lapsed under its holder, whoever works under the lock holds it.
LockInv ==
  used["lapse"] = 0 =>
    /\ \A w \in Workers : (Leased(w) => lock.by = w) /\ ~lost[w]
    /\ StopLeased => lock.by = Stop

\* The other deliveries stand still.
Alone(w) ==
  \A v \in Workers \ {w} :
    /\ pc'[v] = pc[v] /\ job'[v] = job[v] /\ out'[v] = out[v] /\ lost'[v] = lost[v]
    /\ then'[v] = then[v] /\ val'[v] = val[v] /\ steps'[v] = steps[v]

-------------------------------------------------------------------------------
\* How the shared pieces of the actions move a delivery.

\* What no step writes keeps its type.
LEMMA Same ==
  /\ ThreadType /\ thread' = thread => ThreadType'
  /\ KvType /\ kv' = kv => KvType'
  /\ StoreType /\ store' = store => StoreType'
  /\ QueueType /\ mq' = mq => QueueType'
  /\ ActorsType /\ others' = others => ActorsType'
  /\ WorkersType /\ worker' = worker => WorkersType'
BY DEF ThreadType, KvType, StoreType, QueueType, ActorsType, WorkersType,
       thread, kv, store, mq, others, worker

\* A step of one delivery keeps what the others know.
LEMMA AloneKnows ==
  ASSUME NEW w \in Workers, Alone(w), \A v \in Workers : WorkerKnows(v), WorkerKnows(w)'
  PROVE  \A v \in Workers : WorkerKnows(v)'
<1>1. ASSUME NEW v \in Workers, v # w PROVE WorkerKnows(v)'
  BY <1>1 DEF Alone, WorkerKnows, HotKnows
<1> QED BY <1>1

\* Only(w, p): the control moves, and the rest stands or is dropped at the end.
LEMMA OnlyMoves ==
  ASSUME WorkersType, NEW w \in Workers, NEW p \in WorkerPcs, Only(w, p)
  PROVE  /\ WorkersType' /\ Alone(w) /\ pc'[w] = p
         /\ p \in {"idle", "dead"} => out'[w] = "executed" /\ ~lost'[w]
         /\ p \notin {"idle", "dead"} =>
              /\ job'[w] = job[w] /\ out'[w] = out[w] /\ lost'[w] = lost[w]
              /\ then'[w] = then[w] /\ val'[w] = val[w] /\ steps'[w] = steps[w]
<1>1. CASE p \in {"idle", "dead"}
  <2>1. /\ 0 \in 0..MaxSteps /\ "executed" \in Outcomes /\ "FAILED" \in States
        /\ "idle" \in WorkerPcs /\ "NONE" \in States \cup {"NONE"}
    BY BoundsAssumption DEF Outcomes, States, Terminal, WorkerPcs
  <2>2. Go(w, p) /\ Fresh(w)
    BY <1>1 DEF Only
  <2> QED BY <1>1, <2>1, <2>2 DEF WorkersType, Go, Fresh, Alone
<1>2. CASE p \notin {"idle", "dead"}
  BY <1>2 DEF WorkersType, Only, Go, Alone
<1> QED BY <1>1, <1>2

\* Leave(w, o): the segment ends with outcome o.
LEMMA LeaveMoves ==
  ASSUME WorkersType, NEW w \in Workers, NEW o \in Outcomes, Leave(w, o)
  PROVE  /\ WorkersType' /\ Alone(w) /\ pc'[w] = "release"
         /\ out'[w] = o /\ job'[w] = job[w] /\ lost'[w] = lost[w]
BY DEF WorkersType, Leave, Go, Alone, WorkerPcs

\* Won(w, to, p): a transition this delivery won.
LEMMA WonMoves ==
  ASSUME WorkersType, NEW w \in Workers, NEW to \in States, NEW p \in WorkerPcs,
         Won(w, to, p), UNCHANGED <<job, out, aborted, lost, prior, steps>>
  PROVE  /\ WorkersType' /\ Alone(w) /\ pc'[w] = "hot" /\ state' = to
         /\ then'[w] = p /\ val'[w] = to
         /\ out'[w] = out[w] /\ job'[w] = job[w] /\ lost'[w] = lost[w]
BY DEF WorkersType, Won, Go, Alone, WorkerPcs

\* Ends(w, cut): the run is about to end.
LEMMA EndsMoves ==
  ASSUME WorkersType, NEW w \in Workers, NEW cut \in BOOLEAN, Ends(w, cut)
  PROVE  /\ WorkersType' /\ Alone(w) /\ pc'[w] = "finalize" /\ val'[w] \in Terminal
         /\ out'[w] = out[w] /\ job'[w] = job[w] /\ lost'[w] = lost[w]
<1>1. PICK s \in Terminal :
        /\ val' = [val EXCEPT ![w] = s] /\ Go(w, "finalize")
        /\ UNCHANGED <<job, out, aborted, lost, then, prior, steps>>
  BY DEF Ends
<1>2. s \in States /\ "finalize" \in WorkerPcs
  BY DEF States, WorkerPcs
<1> QED BY <1>1, <1>2 DEF WorkersType, Go, Alone

\* What the delivery knows where these leave it.
LEMMA OnlyKnows ==
  ASSUME WorkersType, NEW w \in Workers, NEW p \in WorkerPcs, Only(w, p), WorkerKnows(w),
         p \notin {"idle", "dead"} => job[w] \in Jobs,
         p \in InRun => out[w] = "executed" \/ p \in {"idle", "dead"},
         p \notin {"hot", "commit", "finalize"},
         p \in {"settle", "failrun", "close", "closing"} => out[w] \notin {"stale", "shutdown"},
         p = "release" => out[w] # "conflict",
         p = "redrive" => out[w] \in {"conflict", "lost"},
         p = "policy" => out[w] \in {"error", "permanent"},
         p \in {"markqueued", "queuerec", "requeue"} => out[w] \in {"shutdown", "error"}
  PROVE  WorkerKnows(w)'
BY OnlyMoves DEF WorkerKnows, InRun

LEMMA LeaveKnows ==
  ASSUME WorkersType, NEW w \in Workers, NEW o \in Outcomes \ {"conflict"}, Leave(w, o),
         job[w] \in Jobs
  PROVE  WorkerKnows(w)'
BY LeaveMoves DEF WorkerKnows, InRun

LEMMA WonKnows ==
  ASSUME WorkersType, NEW w \in Workers, NEW to \in States, NEW p \in WorkerPcs,
         Won(w, to, p), UNCHANGED <<job, out, aborted, lost, prior, steps>>,
         job[w] \in Jobs,
         \/ out[w] = "executed" /\ p \in {"pickrec", "early", "ask", "close"}
         \/ out[w] \in {"dead", "conflict", "lost", "error", "permanent"} /\ p = "close"
         \/ out[w] \in {"shutdown", "error"} /\ p = "queuerec"
  PROVE  WorkerKnows(w)'
BY WonMoves DEF WorkerKnows, HotKnows, InRun

-------------------------------------------------------------------------------
\* What the shared pieces write to the stores.

LEMMA PatchKeeps ==
  ASSUME StoreType, NEW r, NEW s \in States, NEW e \in BOOLEAN, Patch(r, s, e),
         UNCHANGED <<messages, open>>
  PROVE  StoreType'
BY DEF StoreType, Patch

LEMMA SettledKeeps ==
  ASSUME StoreType, NEW r, rec' = Settled(rec, r), UNCHANGED <<messages, open>>
  PROVE  StoreType'
BY DEF StoreType, Settled

LEMMA RecordStoppedKeeps ==
  ASSUME StoreType, NEW r, RecordStopped(r), UNCHANGED <<messages, open>>
  PROVE  StoreType'
<1>1. "CANCELLED" \in States
  BY DEF States, Terminal
<1>2. CASE Patch(r, "CANCELLED", TRUE)
  BY <1>1, <1>2, PatchKeeps
<1>3. CASE UNCHANGED rec
  BY <1>3 DEF StoreType
<1> QED BY <1>2, <1>3 DEF RecordStopped

\* One more message of a known kind.
LEMMA AppendKeeps ==
  ASSUME StoreType, NEW r \in AnyRun, NEW k \in Entries,
         messages' = Append(messages, [run |-> r, kind |-> k]), UNCHANGED <<rec, open>>
  PROVE  StoreType'
BY DEF StoreType

LEMMA CloseParksKeeps ==
  ASSUME StoreType, CloseParks, UNCHANGED rec
  PROVE  StoreType'
<1>1. CASE Open = "none"
  BY <1>1 DEF StoreType, CloseParks
<1>2. CASE Open # "none"
  <2>1. cur \in Runs
    BY <1>2 DEF Open
  <2>2. messages' = Append(messages, [run |-> cur, kind |-> "result"])
    BY <1>2 DEF CloseParks
  <2>3. messages' \in Seq([run : AnyRun, kind : Entries])
    BY <2>1, <2>2 DEF StoreType, AnyRun, Entries
  <2> QED BY <1>2, <2>3 DEF StoreType, CloseParks
<1> QED BY <1>1, <1>2

\* An enqueue of a run's job.
LEMMA PutKeeps ==
  ASSUME QueueType, NEW q \in SUBSET queue, NEW r \in Runs, NEW k \in Kinds, Put(q, r, k)
  PROVE  QueueType'
BY BoundsAssumption DEF QueueType, Put, Jobs

\* A delivery's job is of a run.
LEMMA JobRuns ==
  ASSUME NEW w \in Workers, job[w] \in Jobs
  PROVE  Me(w) \in Runs /\ job[w].id \in 0..MaxJobs /\ job[w].kind \in Kinds
BY BoundsAssumption DEF Me, Jobs

LEMMA AgainKeeps ==
  ASSUME QueueType, NEW w \in Workers, job[w] \in Jobs, Again(w)
  PROVE  QueueType'
BY PutKeeps, JobRuns DEF Again, Kinds

-------------------------------------------------------------------------------
\* IInv holds at the start and through every step: first the steps of run().

LEMMA InitIInv == Init => IInv
<1> SUFFICES ASSUME Init PROVE IInv
  OBVIOUS
<1>1. ThreadType /\ KvType
  BY NamesAssumption, BoundsAssumption, StartAssumption
  DEF Init, ThreadType, KvType, NoLock, States, AnyRun, Terminal
<1>2. StoreType /\ QueueType
  <2>1. messages \in Seq([run : AnyRun, kind : Entries])
    <3>1. CASE state = "IDLE"
      BY <3>1 DEF Init
    <3>2. CASE state = "COMPLETED"
      <4>1. messages = <<[run |-> OldRun, kind |-> "answer"]>>
        BY <3>2 DEF Init
      <4> QED BY <4>1 DEF AnyRun, Entries
    <3>3. CASE state \notin {"IDLE", "COMPLETED"}
      <4>1. messages = <<[run |-> OldRun, kind |-> "user"]>>
        BY <3>3 DEF Init
      <4> QED BY <4>1 DEF AnyRun, Entries
    <3> QED BY <3>1, <3>2, <3>3
  <2> QED BY <2>1, BoundsAssumption DEF Init, StoreType, QueueType
<1>3. ActorsType
  BY DEF Init, ActorsType, CallPcs, StopPcs, SweepPcs, States, Terminal, AnyRun
<1>4. WorkersType
  BY BoundsAssumption DEF Init, WorkersType, WorkerPcs, Outcomes, States, Terminal
<1>5. used \in [Events -> Nat]
  BY DEF Init
<1>6. (\A c \in Calls : CallKnows(c)) /\ SweepKnows
  BY DEF Init, CallKnows, SweepKnows
<1>7. \A w \in Workers : WorkerKnows(w)
  BY DEF Init, WorkerKnows, InRun
<1> QED BY <1>1, <1>2, <1>3, <1>4, <1>5, <1>6, <1>7 DEF IInv, TypeOK

LEMMA SpendKeeps ==
  ASSUME used \in [Events -> Nat], NEW k \in Events, Spend(k)
  PROVE  used' \in [Events -> Nat]
BY DEF Spend

\* A call that has begun moves on.
LEMMA CallMoves ==
  ASSUME ActorsType, \A d \in Calls : CallKnows(d), NEW c \in Calls,
         NEW p \in CallPcs \ {"admit"}, CallGoes(c, p), call[c].pc # "idle",
         UNCHANGED <<stopper, sweep>>
  PROVE  ActorsType' /\ \A d \in Calls : CallKnows(d)'
BY DEF ActorsType, CallGoes, CallKnows

\* No delivery moves in a step of another process.
LEMMA Apart ==
  ASSUME WorkersType, \A w \in Workers : WorkerKnows(w), UNCHANGED worker
  PROVE  WorkersType' /\ \A w \in Workers : WorkerKnows(w)'
BY DEF WorkersType, WorkerKnows, HotKnows, worker

LEMMA DispatchKeeps ==
  ASSUME IInv, NEW c \in Calls, Dispatch(c)
  PROVE  IInv'
<1> USE DEF IInv, TypeOK
<1>pcs. \A p \in {"busy", "refused", "hot", "install", "start", "check1", "append",
                 "check2", "enqueue", "accepted", "stophot", "fail", "failhot", "dead"} :
          p \in CallPcs \ {"admit"}
  BY DEF CallPcs, Over
<1>run. call[c].pc # "idle" => call[c].run \in Runs
  BY NamesAssumption DEF CallKnows
<1>1. CASE RunAdmit(c)
  <2>1. call[c].pc # "idle" /\ \E p \in {"hot", "busy"} : CallGoes(c, p)
    BY <1>1 DEF RunAdmit
  <2>2. ActorsType' /\ \A d \in Calls : CallKnows(d)'
    BY <1>1, <1>pcs, <2>1, CallMoves DEF RunAdmit, CallOnly
  <2>3. ThreadType'
    BY <1>1, <1>run DEF RunAdmit, ThreadType, States, Active, AnyRun, thread
  <2> QED BY <1>1, <2>2, <2>3, Same, Apart DEF RunAdmit, CallOnly, SweepKnows
<1>2. CASE RunHot(c)
  <2>1. ActorsType' /\ \A d \in Calls : CallKnows(d)'
    BY <1>2, <1>pcs, CallMoves DEF RunHot, CallOnly
  <2>2. KvType'
    BY <1>2 DEF RunHot, KvType, States, Active
  <2> QED BY <1>2, <2>1, <2>2, Same, Apart DEF RunHot, CallOnly, SweepKnows
<1>3. CASE RunInstall(c)
  <2>1. call[c] \in [pc : CallPcs, run : Runs \cup {None}, seen : States, prev : AnyRun]
    BY DEF ActorsType
  <2>2. call' = [call EXCEPT ![c] = [@ EXCEPT !.pc = "start", !.prev = call[c].run]]
    BY <1>3 DEF RunInstall
  <2>3. ActorsType'
    BY <1>3, <1>run, <1>pcs, <2>1, <2>2 DEF RunInstall, CallOnly, ActorsType, AnyRun
  <2>4. \A d \in Calls : CallKnows(d)'
    BY <1>3, <2>2 DEF RunInstall, ActorsType, CallKnows
  <2>5. KvType'
    BY <1>3, <1>run DEF RunInstall, KvType, AnyRun
  <2> QED BY <1>3, <2>3, <2>4, <2>5, Same, Apart DEF RunInstall, CallOnly, SweepKnows
<1>4. CASE RunStart(c)
  <2>1. ActorsType' /\ \A d \in Calls : CallKnows(d)'
    BY <1>4, <1>pcs, CallMoves DEF RunStart, CallOnly
  <2>2. StoreType'
    BY <1>4 DEF RunStart, StoreType, States, Active
  <2> QED BY <1>4, <2>1, <2>2, Same, Apart DEF RunStart, CallOnly, SweepKnows
<1>5. ASSUME NEW at, NEW next \in {"append", "enqueue"}, at # "idle", RunCheck(c, at, next)
      PROVE  IInv'
  <2>1. call[c].pc # "idle" /\ \E p \in {next, "stophot", "refused"} : CallGoes(c, p)
    BY <1>5 DEF RunCheck
  <2>2. ActorsType' /\ \A d \in Calls : CallKnows(d)'
    BY <1>5, <1>pcs, <2>1, CallMoves DEF RunCheck, CallOnly
  <2>3. StoreType'
    BY <1>5, RecordStoppedKeeps DEF RunCheck, StoreType
  <2> QED BY <1>5, <2>2, <2>3, Same, Apart DEF RunCheck, CallOnly, SweepKnows
<1>6. CASE RunAppend(c)
  <2>1. ActorsType' /\ \A d \in Calls : CallKnows(d)'
    BY <1>6, <1>pcs, CallMoves DEF RunAppend, CallOnly
  <2>2. StoreType'
    BY <1>6, <1>run, AppendKeeps DEF RunAppend, AnyRun, Entries
  <2> QED BY <1>6, <2>1, <2>2, Same, Apart DEF RunAppend, CallOnly, SweepKnows
<1>7. CASE RunEnqueue(c)
  <2>1. ActorsType' /\ \A d \in Calls : CallKnows(d)'
    BY <1>7, <1>pcs, CallMoves DEF RunEnqueue, CallOnly
  <2>2. QueueType'
    BY <1>7, <1>run, PutKeeps DEF RunEnqueue, Enqueue, Kinds
  <2> QED BY <1>7, <2>1, <2>2, Same, Apart DEF RunEnqueue, CallOnly, SweepKnows
<1>8. CASE RunStopHot(c)
  <2>1. ActorsType' /\ \A d \in Calls : CallKnows(d)'
    BY <1>8, <1>pcs, CallMoves DEF RunStopHot, CallOnly
  <2>2. KvType'
    BY <1>8 DEF RunStopHot, KvType, States, Terminal
  <2> QED BY <1>8, <2>1, <2>2, Same, Apart DEF RunStopHot, CallOnly, SweepKnows
<1>9. CASE RunFail(c)
  <2>1. call[c].pc # "idle" /\ \E p \in {"failhot", "refused"} : CallGoes(c, p)
    BY <1>9 DEF RunFail
  <2>2. ActorsType' /\ \A d \in Calls : CallKnows(d)'
    BY <1>9, <1>pcs, <2>1, CallMoves DEF RunFail, CallOnly
  <2>3. ThreadType'
    BY <1>9 DEF RunFail, ThreadType, States, Terminal
  <2> QED BY <1>9, <2>2, <2>3, Same, Apart DEF RunFail, CallOnly, SweepKnows
<1>10. CASE RunFailHot(c)
  <2>1. ActorsType' /\ \A d \in Calls : CallKnows(d)'
    BY <1>10, <1>pcs, CallMoves DEF RunFailHot, CallOnly
  <2>2. KvType'
    BY <1>10 DEF RunFailHot, KvType, States, Terminal
  <2>3. StoreType'
    BY <1>10, PatchKeeps DEF RunFailHot, States, Terminal
  <2> QED BY <1>10, <2>1, <2>2, <2>3, Same, Apart DEF RunFailHot, CallOnly, SweepKnows
<1> QED BY <1>1, <1>2, <1>3, <1>4, <1>5, <1>6, <1>7, <1>8, <1>9, <1>10 DEF Dispatch

\* How a call begins, fails or is killed.
LEMMA CallKeeps ==
  ASSUME IInv, NEW c \in Calls,
         (\E r \in Ids[c] : RunBegin(c, r)) \/ RunThrows(c) \/ RunDies(c)
  PROVE  IInv'
<1> USE DEF IInv, TypeOK
<1>run. call[c].pc # "idle" => call[c].run \in Runs
  BY NamesAssumption DEF CallKnows
<1>1. ASSUME NEW r \in Ids[c], RunBegin(c, r) PROVE IInv'
  <2>1. r \in Runs
    BY NamesAssumption
  <2>2. call' = [call EXCEPT ![c] = [pc |-> "admit", run |-> r, seen |-> state, prev |-> cur]]
    BY <1>1 DEF RunBegin
  <2>3. ActorsType'
    BY <1>1, <2>1, <2>2 DEF RunBegin, CallOnly, ActorsType, CallPcs, ThreadType, KvType
  <2>4. \A d \in Calls : CallKnows(d)'
    BY <1>1, <2>2 DEF RunBegin, ActorsType, CallKnows
  <2> QED BY <1>1, <2>3, <2>4, Same, Apart DEF RunBegin, CallOnly, SweepKnows
<1>2. CASE RunThrows(c)
  <2>1. ActorsType' /\ \A d \in Calls : CallKnows(d)'
    BY <1>2, CallMoves DEF RunThrows, CallOnly, CallPcs
  <2>2. QueueType'
    BY <1>2, <1>run, PutKeeps, Same DEF RunThrows, Enqueue, Kinds
  <2>3. used' \in [Events -> Nat]
    BY <1>2, SpendKeeps DEF RunThrows, Events
  <2> QED BY <1>2, <2>1, <2>2, <2>3, Same, Apart DEF RunThrows, CallOnly, SweepKnows
<1>3. CASE RunDies(c)
  <2>1. ActorsType' /\ \A d \in Calls : CallKnows(d)'
    BY <1>3, CallMoves DEF RunDies, CallOnly, CallPcs, Over
  <2>2. used' \in [Events -> Nat]
    BY <1>3, SpendKeeps DEF RunDies, Events
  <2> QED BY <1>3, <2>1, <2>2, Same, Apart DEF RunDies, CallOnly, SweepKnows
<1> QED BY <1>1, <1>2, <1>3

\* stop().
LEMMA StopMoves ==
  ASSUME ActorsType, NEW p \in StopPcs, StopGoes(p), UNCHANGED <<call, sweep>>
  PROVE  ActorsType'
BY DEF ActorsType, StopGoes

LEMMA StopKeeps ==
  ASSUME IInv, StopRead \/ StopDies \/ Stopping
  PROVE  IInv'
<1> USE DEF IInv, TypeOK
<1>pcs. \A p \in {"idle", "dead", "hot", "record", "lease", "leased", "release", "parks"} :
          p \in StopPcs
  BY DEF StopPcs
<1>calls. UNCHANGED <<call, sweep>> => (\A c \in Calls : CallKnows(c)') /\ SweepKnows'
  BY DEF CallKnows, SweepKnows
<1>1. CASE StopRead
  <2>1. ActorsType'
    BY <1>1 DEF StopRead, StopOnly, ActorsType, StopPcs, AnyRun, ThreadType
  <2>2. used' \in [Events -> Nat]
    BY <1>1, SpendKeeps DEF StopRead, Events
  <2> QED BY <1>1, <1>calls, <2>1, <2>2, Same, Apart DEF StopRead, StopOnly
<1>2. CASE StopDies
  <2>1. ActorsType'
    BY <1>2, <1>pcs, StopMoves DEF StopDies, StopOnly
  <2>2. used' \in [Events -> Nat]
    BY <1>2, SpendKeeps DEF StopDies, Events
  <2> QED BY <1>2, <1>calls, <2>1, <2>2, Same, Apart DEF StopDies, StopOnly
<1>3. CASE StopWhich
  <2>1. ActorsType'
    BY <1>3 DEF StopWhich, StopOnly, ActorsType, StopPcs, KvType
  <2> QED BY <1>3, <1>calls, <2>1, Same, Apart DEF StopWhich, StopOnly
<1>4. CASE StopCas
  <2>1. ActorsType'
    BY <1>4, <1>pcs, StopMoves DEF StopCas, StopOnly
  <2>2. ThreadType'
    BY <1>4 DEF StopCas, ThreadType, States, Terminal
  <2> QED BY <1>4, <1>calls, <2>1, <2>2, Same, Apart DEF StopCas, StopOnly
<1>5. CASE StopHot
  <2>1. ActorsType'
    BY <1>5, <1>pcs, StopMoves DEF StopHot, StopOnly
  <2>2. KvType'
    BY <1>5 DEF StopHot, KvType, States, Terminal
  <2> QED BY <1>5, <1>calls, <2>1, <2>2, Same, Apart DEF StopHot, StopOnly
<1>6. CASE StopRecord
  <2>1. ActorsType'
    BY <1>6, <1>pcs, StopMoves DEF StopRecord, StopOnly
  <2>2. StoreType'
    BY <1>6, RecordStoppedKeeps DEF StopRecord
  <2> QED BY <1>6, <1>calls, <2>1, <2>2, Same, Apart DEF StopRecord, StopOnly
<1>7. CASE StopLease
  <2>1. ActorsType'
    BY <1>7, <1>pcs, StopMoves DEF StopLease, StopOnly
  <2>2. KvType'
    BY <1>7, BoundsAssumption DEF StopLease, KvType, TakeLock
  <2> QED BY <1>7, <1>calls, <2>1, <2>2, Same, Apart DEF StopLease, StopOnly
<1>8. CASE StopSettle
  <2>1. ActorsType'
    BY <1>8, <1>pcs, StopMoves DEF StopSettle, StopOnly
  <2>2. StoreType'
    BY <1>8, SettledKeeps DEF StopSettle, SettleEnded, StoreType
  <2> QED BY <1>8, <1>calls, <2>1, <2>2, Same, Apart DEF StopSettle, StopOnly
<1>9. CASE StopRelease
  <2>1. ActorsType'
    BY <1>9, <1>pcs, StopMoves DEF StopRelease, StopOnly
  <2>2. KvType'
    BY <1>9, BoundsAssumption DEF StopRelease, KvType, FreeLock, NoLock
  <2> QED BY <1>9, <1>calls, <2>1, <2>2, Same, Apart DEF StopRelease, StopOnly
<1>10. CASE StopParks
  <2>1. ActorsType'
    BY <1>10, <1>pcs, StopMoves DEF StopParks, StopOnly
  <2>2. StoreType'
    BY <1>10, CloseParksKeeps DEF StopParks, StoreType
  <2> QED BY <1>10, <1>calls, <2>1, <2>2, Same, Apart DEF StopParks, StopOnly
<1> QED
  BY <1>1, <1>2, <1>3, <1>4, <1>5, <1>6, <1>7, <1>8, <1>9, <1>10 DEF Stopping

\* An answer, the reclaim sweep, and the lock's expiry.
LEMMA HealingKeeps ==
  ASSUME IInv, Respond \/ SweepFind \/ Sweeping \/ LockExpires \/ LockLapses
  PROVE  IInv'
<1> USE DEF IInv, TypeOK
<1>calls. UNCHANGED call => \A c \in Calls : CallKnows(c)'
  BY DEF CallKnows
<1>1. CASE Respond
  <2>1. cur \in Runs
    BY <1>1 DEF Respond, Open
  <2>2. StoreType'
    BY <1>1, <2>1 DEF Respond, StoreType
  <2>3. QueueType'
    BY <1>1, <2>1, PutKeeps DEF Respond, Kinds
  <2> QED BY <1>1, <1>calls, <2>2, <2>3, Same, Apart DEF Respond, others, SweepKnows
<1>2. CASE SweepFind
  <2>1. ActorsType' /\ SweepKnows'
    BY <1>2 DEF SweepFind, ActorsType, SweepKnows, SweepPcs, Terminal, StoreType
  <2>2. used' \in [Events -> Nat]
    BY <1>2, SpendKeeps DEF SweepFind, Events
  <2> QED BY <1>2, <1>calls, <2>1, <2>2, Same, Apart DEF SweepFind
<1>3. CASE SweepEnqueue
  <2>1. ActorsType' /\ SweepKnows'
    BY <1>3 DEF SweepEnqueue, SweepOnly, ActorsType, SweepKnows, SweepPcs
  <2>2. QueueType'
    BY <1>3, PutKeeps, Same DEF SweepEnqueue, SweepKnows, Kinds
  <2> QED BY <1>3, <1>calls, <2>1, <2>2, Same, Apart DEF SweepEnqueue, SweepOnly
<1>4. CASE SweepHeal
  <2>1. ActorsType' /\ SweepKnows'
    BY <1>4 DEF SweepHeal, SweepOnly, ActorsType, SweepKnows, SweepPcs
  <2>2. ThreadType'
    BY <1>4 DEF SweepHeal, ThreadType, ActorsType, States
  <2> QED BY <1>4, <1>calls, <2>1, <2>2, Same, Apart DEF SweepHeal, SweepOnly
<1>5. CASE SweepHot
  <2>1. ActorsType' /\ SweepKnows'
    BY <1>5 DEF SweepHot, SweepOnly, ActorsType, SweepKnows, SweepPcs
  <2>2. KvType'
    BY <1>5 DEF SweepHot, KvType, ActorsType, States
  <2> QED BY <1>5, <1>calls, <2>1, <2>2, Same, Apart DEF SweepHot, SweepOnly
<1>6. CASE LockExpires \/ LockLapses
  <2>1. KvType'
    BY <1>6, BoundsAssumption DEF LockExpires, LockLapses, KvType, NoLock
  <2>2. used' \in [Events -> Nat]
    BY <1>6, SpendKeeps DEF LockExpires, LockLapses, Events
  <2> QED BY <1>6, <1>calls, <2>1, <2>2, Same, Apart DEF LockExpires, LockLapses, others,
             SweepKnows
<1> QED BY <1>1, <1>2, <1>3, <1>4, <1>5, <1>6 DEF Sweeping

-------------------------------------------------------------------------------
\* The steps of a worker.

LEMMA WorkerStep ==
  ASSUME IInv, NEW w \in Workers, WorkersType', Alone(w), WorkerKnows(w)', UNCHANGED others,
         ThreadType', KvType', StoreType', QueueType', used' \in [Events -> Nat]
  PROVE  IInv'
BY Same, AloneKnows DEF IInv, TypeOK, CallKnows, SweepKnows, others

\* From the queue to the step loop.
LEMMA PickupKeeps ==
  ASSUME IInv, NEW w \in Workers,
         \/ Deliver(w) \/ DeadJob(w) \/ LostRun(w) \/ Acquire(w) \/ Check(w) \/ Refuse(w)
         \/ Pickup(w) \/ Hot(w) \/ PickRecord(w) \/ Resume(w) \/ Land(w) \/ Unpark(w)
  PROVE  IInv' /\ Alone(w)
<1> USE DEF IInv, TypeOK
<1>1. CASE Deliver(w)
  <2>1. WorkersType' /\ Alone(w)
    BY <1>1 DEF Deliver, Go, WorkersType, Alone, WorkerPcs, QueueType
  <2>2. WorkerKnows(w)'
    BY <1>1 DEF Deliver, Go, WorkersType, WorkerKnows, InRun, QueueType
  <2>3. QueueType'
    BY <1>1 DEF Deliver, QueueType
  <2>4. used' \in [Events -> Nat]
    BY <1>1, SpendKeeps DEF Deliver, Events
  <2> QED BY <1>1, <2>1, <2>2, <2>3, <2>4, Same, WorkerStep DEF Deliver, WorkerOnly
<1>2. CASE DeadJob(w)
  <2>1. WorkersType' /\ Alone(w)
    BY <1>2 DEF DeadJob, Go, WorkersType, Alone, WorkerPcs, QueueType, ThreadType
  <2>2. WorkerKnows(w)'
    BY <1>2 DEF DeadJob, Go, WorkersType, WorkerKnows, InRun, QueueType, HotKnows
  <2>3. QueueType'
    BY <1>2 DEF DeadJob, QueueType
  <2>4. used' \in [Events -> Nat]
    BY <1>2, SpendKeeps DEF DeadJob, Events
  <2> QED BY <1>2, <2>1, <2>2, <2>3, <2>4, Same, WorkerStep DEF DeadJob, WorkerOnly
<1>3. CASE LostRun(w)
  <2>1. job[w] \in Jobs
    BY <1>3 DEF LostRun, WorkerKnows
  <2>2. \/ Only(w, "idle")
        \/ /\ Go(w, "settle") /\ out' = [out EXCEPT ![w] = "dead"]
           /\ UNCHANGED <<job, aborted, lost, val, then, prior, steps>>
    BY <1>3, <2>1 DEF LostRun
  <2>3. WorkersType' /\ Alone(w)
    BY <1>3, <2>1, <2>2, OnlyMoves DEF Go, WorkersType, Alone, WorkerPcs, Outcomes
  <2>4. WorkerKnows(w)'
    BY <1>3, <2>1, <2>2, OnlyKnows DEF Go, WorkersType, WorkerPcs, WorkerKnows, InRun
  <2>5. KvType'
    BY <1>3, <2>1, <2>2, JobRuns, BoundsAssumption DEF LostRun, KvType, TakeLock
  <2>6. StoreType'
    BY <1>3, <2>1, <2>2, CloseParksKeeps DEF LostRun, StoreType
  <2> QED BY <1>3, <2>1, <2>2, <2>3, <2>4, <2>5, <2>6, Same, WorkerStep DEF LostRun, WorkerOnly
<1>4. CASE Acquire(w)
  <2>1. job[w] \in Jobs
    BY <1>4 DEF Acquire, WorkerKnows
  <2>2. WorkersType' /\ Alone(w)
    BY <1>4, <2>1 DEF Acquire, Go, WorkersType, Alone, WorkerPcs, Outcomes
  <2>3. WorkerKnows(w)'
    BY <1>4, <2>1 DEF Acquire, Go, WorkersType, WorkerKnows, InRun
  <2>4. KvType'
    BY <1>4, <2>1, JobRuns DEF Acquire, KvType, TakeLock
  <2> QED BY <1>4, <2>1, <2>2, <2>3, <2>4, Same, WorkerStep DEF Acquire, WorkerOnly
<1>5. CASE Check(w)
  <2>1. job[w] \in Jobs
    BY <1>5 DEF Check, WorkerKnows
  <2>2. WorkersType' /\ Alone(w)
    BY <1>5, <2>1, OnlyMoves, LeaveMoves DEF Check, WorkerPcs, Outcomes
  <2>3. WorkerKnows(w)'
    BY <1>5, <2>1, OnlyKnows, LeaveKnows DEF Check, WorkerPcs, Outcomes, WorkerKnows, InRun
  <2>4. StoreType'
    BY <1>5, <2>1, PatchKeeps, SettledKeeps DEF Check, SettleEnded, StoreType, States, Terminal
  <2> QED BY <1>5, <2>1, <2>2, <2>3, <2>4, Same, WorkerStep DEF Check, WorkerOnly
<1>6. CASE Refuse(w)
  <2>1. WorkersType' /\ Alone(w)
    BY <1>6, OnlyMoves DEF Refuse, WorkerPcs
  <2>2. WorkerKnows(w)'
    BY <1>6, OnlyKnows DEF Refuse, WorkerPcs, InRun, WorkerKnows
  <2>3. StoreType'
    BY <1>6, CloseParksKeeps DEF Refuse, StoreType
  <2>4. used' \in [Events -> Nat]
    BY <1>6, SpendKeeps DEF Refuse, Events
  <2> QED BY <1>6, <2>1, <2>2, <2>3, <2>4, Same, WorkerStep DEF Refuse, WorkerOnly
<1>7. CASE Pickup(w)
  <2>1. job[w] \in Jobs /\ out[w] = "executed"
    BY <1>7 DEF Pickup, WorkerKnows, InRun
  <2>2. WorkersType' /\ Alone(w)
    BY <1>7, <2>1, WonMoves, LeaveMoves DEF Pickup, WorkerPcs, Outcomes, States, Active
  <2>3. WorkerKnows(w)'
    BY <1>7, <2>1, WonKnows, LeaveKnows DEF Pickup, WorkerPcs, Outcomes, States, Active
  <2>4. ThreadType'
    BY <1>7, <2>1 DEF Pickup, Won, ThreadType, States, Active
  <2> QED BY <1>7, <2>1, <2>2, <2>3, <2>4, Same, WorkerStep DEF Pickup, WorkerOnly
<1>8. CASE Hot(w)
  <2>1. then[w] \in WorkerPcs
    BY <1>8 DEF Hot, WorkerKnows, HotKnows, WorkerPcs
  <2>2. WorkersType' /\ Alone(w)
    BY <1>8, <2>1, OnlyMoves DEF Hot
  <2>3. WorkerKnows(w)'
    BY <1>8, <2>1, OnlyKnows DEF Hot, WorkerKnows, HotKnows, InRun
  <2>4. KvType'
    BY <1>8, <2>1 DEF Hot, KvType, WorkersType
  <2> QED BY <1>8, <2>1, <2>2, <2>3, <2>4, Same, WorkerStep DEF Hot, WorkerOnly
<1>9. CASE PickRecord(w)
  <2>1. WorkersType' /\ Alone(w)
    BY <1>9, OnlyMoves DEF PickRecord, WorkerPcs
  <2>2. WorkerKnows(w)'
    BY <1>9, OnlyKnows DEF PickRecord, WorkerPcs, InRun, WorkerKnows
  <2>3. StoreType'
    BY <1>9, PatchKeeps DEF PickRecord, States, Active, StoreType, Me, Patch
  <2> QED BY <1>9, <2>1, <2>2, <2>3, Same, WorkerStep DEF PickRecord, WorkerOnly
<1>10. CASE Resume(w)
  <2>1. job[w] \in Jobs
    BY <1>10 DEF Resume, WorkerKnows
  <2>2. WorkersType' /\ Alone(w)
    BY <1>10, <2>1, OnlyMoves, LeaveMoves DEF Resume, WorkerPcs, Outcomes
  <2>3. WorkerKnows(w)'
    BY <1>10, <2>1, OnlyKnows, LeaveKnows DEF Resume, WorkerPcs, Outcomes, WorkerKnows, InRun
  <2> QED BY <1>10, <2>1, <2>2, <2>3, Same, WorkerStep DEF Resume, WorkerOnly
<1>11. CASE Land(w)
  <2>1. job[w] \in Jobs
    BY <1>11 DEF Land, WorkerKnows
  <2>2. WorkersType' /\ Alone(w)
    BY <1>11, <2>1, OnlyMoves DEF Land, WorkerPcs
  <2>3. WorkerKnows(w)'
    BY <1>11, <2>1, OnlyKnows DEF Land, WorkerPcs, WorkerKnows, InRun
  <2>4. StoreType'
    BY <1>11, <2>1, JobRuns DEF Land, StoreType, AnyRun, Entries
  <2> QED BY <1>11, <2>1, <2>2, <2>3, <2>4, Same, WorkerStep DEF Land, WorkerOnly
<1>12. CASE Unpark(w)
  <2>1. job[w] \in Jobs /\ out[w] = "executed"
    BY <1>12 DEF Unpark, WorkerKnows, InRun
  <2>2. WorkersType' /\ Alone(w)
    BY <1>12, <2>1, WonMoves, LeaveMoves DEF Unpark, WorkerPcs, Outcomes, States, Active
  <2>3. WorkerKnows(w)'
    BY <1>12, <2>1, WonKnows, LeaveKnows DEF Unpark, WorkerPcs, Outcomes, States, Active
  <2>4. ThreadType'
    BY <1>12, <2>1 DEF Unpark, Won, ThreadType, States, Active
  <2> QED BY <1>12, <2>1, <2>2, <2>3, <2>4, Same, WorkerStep DEF Unpark, WorkerOnly
<1> QED BY <1>1, <1>2, <1>3, <1>4, <1>5, <1>6, <1>7, <1>8, <1>9, <1>10, <1>11, <1>12

\* The step loop, and the end of a run in its segment.
LEMMA LoopKeeps ==
  ASSUME IInv, NEW w \in Workers,
         \/ Early(w) \/ Model(w) \/ SegmentFails(w) \/ Shutdown(w) \/ Commit(w) \/ Park(w)
         \/ Ask(w) \/ Parked(w) \/ LoopEnd(w) \/ Finalize(w) \/ CloseRead(w) \/ ClosePatch(w)
  PROVE  IInv' /\ Alone(w)
<1> USE DEF IInv, TypeOK
<1>1. CASE Early(w)
  <2>1. job[w] \in Jobs /\ out[w] = "executed"
    BY <1>1 DEF Early, WorkerKnows, InRun
  <2>2. (\E cut \in BOOLEAN : Ends(w, cut)) \/ (Only(w, "model") /\ UNCHANGED rec)
    BY <1>1, <2>1 DEF Early, WorkersType
  <2>3. WorkersType' /\ Alone(w)
    BY <1>1, <2>1, <2>2, EndsMoves, OnlyMoves DEF WorkerPcs
  <2>4. WorkerKnows(w)'
    BY <1>1, <2>1, <2>2, EndsMoves, OnlyKnows DEF WorkerPcs, WorkerKnows, InRun
  <2>5. StoreType'
    BY <1>1, <2>1, <2>2, SettledKeeps DEF Early, Ends, StoreType
  <2>6. used' \in [Events -> Nat]
    BY <1>1, <2>1, SpendKeeps DEF Early, Events
  <2> QED BY <1>1, <2>1, <2>3, <2>4, <2>5, <2>6, Same, WorkerStep DEF Early, WorkerOnly
<1>2. CASE Model(w)
  <2>1. job[w] \in Jobs /\ out[w] = "executed"
    BY <1>2 DEF Model, WorkerKnows, InRun
  <2>2. WorkersType' /\ Alone(w)
    BY <1>2, <2>1 DEF Model, Go, WorkersType, Alone, WorkerPcs
  <2>3. WorkerKnows(w)'
    BY <1>2, <2>1 DEF Model, Go, WorkersType, WorkerKnows, StepsLeft, InRun
  <2>4. used' \in [Events -> Nat]
    BY <1>2, <2>1, SpendKeeps DEF Model, Events
  <2> QED BY <1>2, <2>1, <2>2, <2>3, <2>4, Same, WorkerStep DEF Model, WorkerOnly
<1>3. CASE SegmentFails(w)
  <2>1. job[w] \in Jobs
    BY <1>3 DEF SegmentFails, WorkerKnows
  <2>2. WorkersType' /\ Alone(w)
    BY <1>3, <2>1, LeaveMoves DEF SegmentFails, Outcomes
  <2>3. WorkerKnows(w)'
    BY <1>3, <2>1, LeaveKnows DEF SegmentFails, Outcomes
  <2>4. used' \in [Events -> Nat]
    BY <1>3, <2>1, SpendKeeps DEF SegmentFails, Events
  <2> QED BY <1>3, <2>1, <2>2, <2>3, <2>4, Same, WorkerStep DEF SegmentFails, WorkerOnly
<1>4. CASE Shutdown(w)
  <2>1. job[w] \in Jobs
    BY <1>4 DEF Shutdown, WorkerKnows
  <2>2. WorkersType' /\ Alone(w)
    BY <1>4, <2>1, LeaveMoves DEF Shutdown, Outcomes
  <2>3. WorkerKnows(w)'
    BY <1>4, <2>1, LeaveKnows DEF Shutdown, Outcomes
  <2>4. used' \in [Events -> Nat]
    BY <1>4, <2>1, SpendKeeps DEF Shutdown, Events
  <2> QED BY <1>4, <2>1, <2>2, <2>3, <2>4, Same, WorkerStep DEF Shutdown, WorkerOnly
<1>5. CASE Commit(w)
  <2>1. /\ job[w] \in Jobs /\ out[w] = "executed" /\ steps[w] < MaxSteps
        /\ then[w] \in {"tool", "answer", "park"}
    BY <1>5 DEF Commit, WorkerKnows, InRun
  <2>2. WorkersType' /\ Alone(w)
    BY <1>5, <2>1, BoundsAssumption DEF Commit, Go, WorkersType, Alone, WorkerPcs
  <2>3. WorkerKnows(w)'
    BY <1>5, <2>1 DEF Commit, Go, WorkersType, WorkerKnows, InRun
  <2>4. StoreType'
    BY <1>5, <2>1, JobRuns, AppendKeeps DEF Commit, AnyRun, Entries
  <2> QED BY <1>5, <2>1, <2>2, <2>3, <2>4, Same, WorkerStep DEF Commit, WorkerOnly
<1>6. CASE Park(w)
  <2>1. job[w] \in Jobs /\ out[w] = "executed"
    BY <1>6 DEF Park, WorkerKnows, InRun
  <2>2. WorkersType' /\ Alone(w)
    BY <1>6, <2>1, WonMoves, OnlyMoves DEF Park, WorkerPcs, States, Active, Terminal
  <2>3. WorkerKnows(w)'
    BY <1>6, <2>1, WonKnows, OnlyKnows DEF Park, WorkerPcs, States, Active, Terminal,
       WorkerKnows, InRun
  <2>4. ThreadType'
    BY <1>6, <2>1 DEF Park, Won, ThreadType, States, Active, Terminal
  <2> QED BY <1>6, <2>1, <2>2, <2>3, <2>4, Same, WorkerStep DEF Park, WorkerOnly
<1>7. CASE Ask(w)
  <2>1. job[w] \in Jobs /\ out[w] = "executed"
    BY <1>7 DEF Ask, WorkerKnows, InRun
  <2>2. WorkersType' /\ Alone(w)
    BY <1>7, <2>1, OnlyMoves DEF Ask, WorkerPcs
  <2>3. WorkerKnows(w)'
    BY <1>7, <2>1, OnlyKnows DEF Ask, WorkerPcs, WorkerKnows, InRun
  <2>4. StoreType'
    BY <1>7, <2>1 DEF Ask, StoreType
  <2>5. QueueType'
    BY <1>7, <2>1, JobRuns, PutKeeps, Same DEF Ask, Kinds
  <2> QED BY <1>7, <2>1, <2>2, <2>3, <2>4, <2>5, Same, WorkerStep DEF Ask, WorkerOnly
<1>8. CASE Parked(w)
  <2>1. job[w] \in Jobs /\ out[w] = "executed"
    BY <1>8 DEF Parked, WorkerKnows, InRun
  <2>2. WorkersType' /\ Alone(w)
    BY <1>8, <2>1, LeaveMoves DEF Parked, Outcomes
  <2>3. WorkerKnows(w)'
    BY <1>8, <2>1, LeaveKnows DEF Parked, Outcomes
  <2> QED BY <1>8, <2>1, <2>2, <2>3, Same, WorkerStep DEF Parked, WorkerOnly
<1>9. CASE LoopEnd(w)
  <2>1. job[w] \in Jobs /\ out[w] = "executed"
    BY <1>9 DEF LoopEnd, WorkerKnows, InRun
  <2>2. (\E cut \in BOOLEAN : Ends(w, cut)) \/ Leave(w, "lost")
    BY <1>9, <2>1 DEF LoopEnd, WorkersType
  <2>3. WorkersType' /\ Alone(w)
    BY <1>9, <2>1, <2>2, EndsMoves, LeaveMoves DEF Outcomes
  <2>4. WorkerKnows(w)'
    BY <1>9, <2>1, <2>2, EndsMoves, LeaveKnows DEF Outcomes, WorkerKnows, InRun
  <2>5. StoreType'
    BY <1>9, <2>1, <2>2, SettledKeeps DEF LoopEnd, Ends, StoreType
  <2> QED BY <1>9, <2>1, <2>2, <2>3, <2>4, <2>5, Same, WorkerStep DEF LoopEnd, WorkerOnly
<1>10. CASE Finalize(w)
  <2>1. job[w] \in Jobs /\ out[w] = "executed" /\ val[w] \in States
    BY <1>10 DEF Finalize, WorkerKnows, InRun, WorkersType
  <2>2. WorkersType' /\ Alone(w)
    BY <1>10, <2>1, WonMoves, OnlyMoves DEF Finalize, WorkerPcs, States, Active, Terminal
  <2>3. WorkerKnows(w)'
    BY <1>10, <2>1, WonKnows, OnlyKnows DEF Finalize, WorkerPcs, States, Active, Terminal,
       WorkerKnows, InRun
  <2>4. ThreadType'
    BY <1>10, <2>1 DEF Finalize, Won, ThreadType, States, Active, Terminal
  <2> QED BY <1>10, <2>1, <2>2, <2>3, <2>4, Same, WorkerStep DEF Finalize, WorkerOnly
<1>11. CASE CloseRead(w)
  <2>1. job[w] \in Jobs
    BY <1>11 DEF CloseRead, WorkerKnows
  <2>2. WorkersType' /\ Alone(w)
    BY <1>11, <2>1, JobRuns DEF CloseRead, Go, WorkersType, Alone, WorkerPcs, StoreType
  <2>3. WorkerKnows(w)'
    BY <1>11, <2>1 DEF CloseRead, Go, WorkersType, WorkerKnows, InRun
  <2> QED BY <1>11, <2>1, <2>2, <2>3, Same, WorkerStep DEF CloseRead, WorkerOnly
<1>12. CASE ClosePatch(w)
  <2>1. /\ job[w] \in Jobs
        /\ out[w] \in {"executed", "dead", "error", "permanent", "conflict", "lost"}
    BY <1>12 DEF ClosePatch, WorkerKnows, WorkersType, Outcomes
  <2>2. /\ AfterClose(w) \in {"release", "ack", "idle"}
        /\ (AfterClose(w) = "release" => out[w] \in {"executed", "dead"})
    BY <1>12, <2>1 DEF AfterClose
  <2>3. "CANCELLED" \in States /\ val[w] \in States
    BY <1>12, <2>1, <2>2 DEF States, Terminal, WorkersType
  <2>4. WorkersType' /\ Alone(w)
    BY <1>12, <2>1, <2>2, <2>3, OnlyMoves DEF ClosePatch, WorkerPcs
  <2>5. WorkerKnows(w)'
    BY <1>12, <2>1, <2>2, <2>3, OnlyKnows DEF ClosePatch, WorkerPcs, WorkerKnows, InRun
  <2>6. StoreType'
    BY <1>12, <2>1, <2>2, <2>3, PatchKeeps DEF ClosePatch, StoreType
  <2> QED BY <1>12, <2>1, <2>2, <2>3, <2>4, <2>5, <2>6, Same, WorkerStep DEF ClosePatch,
             WorkerOnly
<1> QED BY <1>1, <1>2, <1>3, <1>4, <1>5, <1>6, <1>7, <1>8, <1>9, <1>10, <1>11, <1>12

\* What follows a segment, and what befalls one.
LEMMA EndKeeps ==
  ASSUME IInv, NEW w \in Workers,
         \/ Release(w) \/ Ack(w) \/ Redrive(w) \/ Policy(w) \/ MarkQueued(w) \/ QueueRecord(w)
         \/ Requeue(w) \/ FailSettle(w) \/ FailRun(w) \/ Poll(w) \/ LeaseLost(w) \/ WorkerDies(w)
  PROVE  IInv' /\ Alone(w)
<1> USE DEF IInv, TypeOK
<1>1. CASE Release(w)
  <2>1. job[w] \in Jobs /\ out[w] \in Outcomes \ {"conflict"}
    BY <1>1 DEF Release, WorkerKnows, WorkersType
  <2>2. \E p \in {"ack", "idle", "redrive", "markqueued", "policy"} :
         /\ Only(w, p)
         /\ p = "redrive" => out[w] = "lost"
         /\ p = "markqueued" => out[w] = "shutdown"
         /\ p = "policy" => out[w] \in {"error", "permanent"}
    BY <1>1, <2>1 DEF Release, AfterRelease, Outcomes
  <2>3. WorkersType' /\ Alone(w)
    BY <1>1, <2>1, <2>2, OnlyMoves DEF WorkerPcs
  <2>4. WorkerKnows(w)'
    BY <1>1, <2>1, <2>2, OnlyKnows DEF WorkerPcs, InRun
  <2>5. KvType'
    BY <1>1, <2>1, <2>2, BoundsAssumption DEF Release, KvType, FreeLock, NoLock
  <2> QED BY <1>1, <2>1, <2>2, <2>3, <2>4, <2>5, Same, WorkerStep DEF Release, WorkerOnly
<1>2. CASE Ack(w)
  <2>1. job[w] \in Jobs /\ 0 \in Nat /\ 0 \in 0..MaxRedrives
    BY <1>2, BoundsAssumption DEF Ack, WorkerKnows
  <2>2. WorkersType' /\ Alone(w)
    BY <1>2, <2>1, OnlyMoves DEF Ack, WorkerPcs
  <2>3. WorkerKnows(w)'
    BY <1>2, <2>1, OnlyKnows DEF Ack, WorkerPcs, WorkerKnows, InRun
  <2>4. attempts' \in [Runs -> Nat] /\ redrives' \in [Runs -> 0..MaxRedrives]
    BY <1>2, <2>1 DEF Ack, KvType
  <2>5. KvType'
    BY <1>2, <2>1, <2>4 DEF Ack, KvType
  <2> QED BY <1>2, <2>1, <2>2, <2>3, <2>4, <2>5, Same, WorkerStep DEF Ack, WorkerOnly
<1>3. CASE Redrive(w)
  <2>1. job[w] \in Jobs
    BY <1>3 DEF Redrive, WorkerKnows
  <2>2. WorkersType' /\ Alone(w)
    BY <1>3, <2>1, OnlyMoves DEF Redrive, WorkerPcs
  <2>3. WorkerKnows(w)'
    BY <1>3, <2>1, OnlyKnows DEF Redrive, WorkerPcs, WorkerKnows, InRun
  <2>4. KvType'
    BY <1>3, <2>1, JobRuns, BoundsAssumption DEF Redrive, KvType
  <2>5. QueueType'
    BY <1>3, <2>1, AgainKeeps, Same DEF Redrive
  <2> QED BY <1>3, <2>1, <2>2, <2>3, <2>4, <2>5, Same, WorkerStep DEF Redrive, WorkerOnly
<1>4. CASE Policy(w)
  <2>1. job[w] \in Jobs
    BY <1>4 DEF Policy, WorkerKnows
  <2>2. \E p \in {"idle", "settle", "markqueued"} : Only(w, p)
            /\ (p = "markqueued" => out[w] = "error")
    BY <1>4, <2>1 DEF Policy, WorkerKnows
  <2>3. WorkersType' /\ Alone(w)
    BY <1>4, <2>1, <2>2, OnlyMoves DEF Policy, WorkerPcs
  <2>4. WorkerKnows(w)'
    BY <1>4, <2>1, <2>2, OnlyKnows DEF Policy, WorkerPcs, WorkerKnows, InRun
  <2>5. KvType'
    BY <1>4, <2>1, JobRuns, BoundsAssumption DEF Policy, KvType
  <2> QED BY <1>4, <2>1, <2>2, <2>3, <2>4, <2>5, Same, WorkerStep DEF Policy, WorkerOnly
<1>5. CASE MarkQueued(w)
  <2>1. job[w] \in Jobs /\ out[w] \in {"shutdown", "error"}
    BY <1>5 DEF MarkQueued, WorkerKnows
  <2>2. WorkersType' /\ Alone(w)
    BY <1>5, <2>1, WonMoves, OnlyMoves DEF MarkQueued, WorkerPcs, States, Active, Terminal
  <2>3. WorkerKnows(w)'
    BY <1>5, <2>1, WonKnows, OnlyKnows DEF MarkQueued, WorkerPcs, States, Active, Terminal,
       WorkerKnows, InRun
  <2>4. ThreadType'
    BY <1>5, <2>1 DEF MarkQueued, Won, ThreadType, States, Active, Terminal
  <2> QED BY <1>5, <2>1, <2>2, <2>3, <2>4, Same, WorkerStep DEF MarkQueued, WorkerOnly
<1>6. CASE QueueRecord(w)
  <2>1. job[w] \in Jobs
    BY <1>6 DEF QueueRecord, WorkerKnows
  <2>2. WorkersType' /\ Alone(w)
    BY <1>6, <2>1, OnlyMoves DEF QueueRecord, WorkerPcs
  <2>3. WorkerKnows(w)'
    BY <1>6, <2>1, OnlyKnows DEF QueueRecord, WorkerPcs, WorkerKnows, InRun
  <2>4. StoreType'
    BY <1>6, <2>1, JobRuns, PatchKeeps DEF QueueRecord, States, Active, StoreType
  <2> QED BY <1>6, <2>1, <2>2, <2>3, <2>4, Same, WorkerStep DEF QueueRecord, WorkerOnly
<1>7. CASE Requeue(w)
  <2>1. job[w] \in Jobs
    BY <1>7 DEF Requeue, WorkerKnows
  <2>2. WorkersType' /\ Alone(w)
    BY <1>7, <2>1, OnlyMoves DEF Requeue, WorkerPcs
  <2>3. WorkerKnows(w)'
    BY <1>7, <2>1, OnlyKnows DEF Requeue, WorkerPcs, WorkerKnows, InRun
  <2>4. QueueType'
    BY <1>7, <2>1, AgainKeeps DEF Requeue
  <2> QED BY <1>7, <2>1, <2>2, <2>3, <2>4, Same, WorkerStep DEF Requeue, WorkerOnly
<1>8. CASE FailSettle(w)
  <2>1. job[w] \in Jobs
    BY <1>8 DEF FailSettle, WorkerKnows
  <2>2. WorkersType' /\ Alone(w)
    BY <1>8, <2>1, OnlyMoves DEF FailSettle, WorkerPcs
  <2>3. WorkerKnows(w)'
    BY <1>8, <2>1, OnlyKnows DEF FailSettle, WorkerPcs, WorkerKnows, InRun
  <2>4. StoreType'
    BY <1>8, <2>1, SettledKeeps, Same DEF FailSettle, StoreType
  <2> QED BY <1>8, <2>1, <2>2, <2>3, <2>4, Same, WorkerStep DEF FailSettle, WorkerOnly
<1>9. CASE FailRun(w)
  <2>1. /\ job[w] \in Jobs
        /\ out[w] \in {"executed", "dead", "error", "permanent", "conflict", "lost"}
    BY <1>9 DEF FailRun, WorkerKnows, WorkersType, Outcomes
  <2>2. /\ AfterClose(w) \in {"release", "ack", "idle"}
        /\ (AfterClose(w) = "release" => out[w] \in {"executed", "dead"})
    BY <1>9, <2>1 DEF AfterClose
  <2>3. WorkersType' /\ Alone(w)
    BY <1>9, <2>1, <2>2, WonMoves, OnlyMoves DEF FailRun, WorkerPcs, States, Active, Terminal
  <2>4. WorkerKnows(w)'
    BY <1>9, <2>1, <2>2, WonKnows, OnlyKnows DEF FailRun, WorkerPcs, States, Active, Terminal,
       WorkerKnows, InRun
  <2>5. ThreadType'
    BY <1>9, <2>1, <2>2 DEF FailRun, Won, ThreadType, States, Active, Terminal
  <2> QED BY <1>9, <2>1, <2>2, <2>3, <2>4, <2>5, Same, WorkerStep DEF FailRun, WorkerOnly
<1>10. CASE Poll(w)
  <2>1. WorkersType' /\ Alone(w)
    BY <1>10 DEF Poll, WorkersType, Alone
  <2>2. WorkerKnows(w)'
    BY <1>10 DEF Poll, WorkersType, WorkerKnows, HotKnows
  <2> QED BY <1>10, <2>1, <2>2, Same, WorkerStep DEF Poll, WorkerOnly
<1>11. CASE LeaseLost(w)
  <2>1. WorkersType' /\ Alone(w)
    BY <1>11 DEF LeaseLost, WorkersType, Alone
  <2>2. WorkerKnows(w)'
    BY <1>11 DEF LeaseLost, WorkersType, WorkerKnows, HotKnows
  <2>3. used' \in [Events -> Nat]
    BY <1>11, SpendKeeps DEF LeaseLost, Events
  <2> QED BY <1>11, <2>1, <2>2, <2>3, Same, WorkerStep DEF LeaseLost, WorkerOnly
<1>12. CASE WorkerDies(w)
  <2>1. job[w] \in Jobs
    BY <1>12 DEF WorkerDies, WorkerKnows
  <2>2. WorkersType' /\ Alone(w)
    BY <1>12, <2>1, OnlyMoves DEF WorkerDies, WorkerPcs
  <2>3. WorkerKnows(w)'
    BY <1>12, <2>1, OnlyKnows DEF WorkerDies, WorkerPcs, InRun
  <2>4. QueueType'
    BY <1>12, <2>1 DEF WorkerDies, QueueType
  <2>5. used' \in [Events -> Nat]
    BY <1>12, <2>1, SpendKeeps DEF WorkerDies, Events
  <2> QED BY <1>12, <2>1, <2>2, <2>3, <2>4, <2>5, Same, WorkerStep DEF WorkerDies, WorkerOnly
<1> QED BY <1>1, <1>2, <1>3, <1>4, <1>5, <1>6, <1>7, <1>8, <1>9, <1>10, <1>11, <1>12

-------------------------------------------------------------------------------
\* The theorems.

LEMMA StutterKeeps ==
  ASSUME IInv, UNCHANGED vars
  PROVE  IInv'
<1>1. UNCHANGED <<thread, kv, store, mq, worker, others, used>>
  BY DEF vars, thread, kv, store, mq, worker, others
<1>2. TypeOK'
  BY <1>1, Same DEF IInv, TypeOK
<1>3. (\A c \in Calls : CallKnows(c)') /\ SweepKnows'
  BY <1>1 DEF IInv, CallKnows, SweepKnows, others
<1>4. \A w \in Workers : WorkerKnows(w)'
  BY <1>1, Apart DEF IInv, TypeOK
<1> QED BY <1>2, <1>3, <1>4 DEF IInv

LEMMA NextKeeps ==
  ASSUME IInv, Next
  PROVE  IInv'
<1>1. ASSUME NEW c \in Calls,
             (\E r \in Ids[c] : RunBegin(c, r)) \/ Dispatch(c) \/ RunThrows(c) \/ RunDies(c)
      PROVE  IInv'
  BY <1>1, DispatchKeeps, CallKeeps
<1>2. CASE Stopping \/ StopRead \/ StopDies
  BY <1>2, StopKeeps
<1>3. CASE Sweeping \/ LockExpires \/ Respond \/ SweepFind \/ LockLapses
  BY <1>3, HealingKeeps
<1>4. ASSUME NEW w \in Workers, Deliver(w) \/ Handle(w) \/ Poll(w) \/ DeadJob(w) \/ Refuse(w)
                                 \/ SegmentFails(w) \/ Shutdown(w) \/ LeaseLost(w) \/ WorkerDies(w)
      PROVE  IInv'
  BY <1>4, PickupKeeps, LoopKeeps, EndKeeps DEF Handle
<1> QED BY <1>1, <1>2, <1>3, <1>4 DEF Next, System, Environment

LEMMA Inductive == Spec => []IInv
<1>1. IInv /\ [Next]_vars => IInv'
  BY NextKeeps, StutterKeeps
<1> QED BY InitIInv, <1>1, PTL DEF Spec

\* Every variable of the run lifecycle keeps its type, whatever the calls, runs,
\* workers and bounds: no step of the code reads a job, a run or an outcome that
\* is not there.
THEOREM TypeCorrect == Spec => []TypeOK
<1>1. IInv => TypeOK
  BY DEF IInv
<1> QED BY Inductive, <1>1, PTL

-------------------------------------------------------------------------------
\* The run lock.

\* Lapses are only ever counted up.
LEMMA Lapses ==
  ASSUME IInv, NEW k \in Events, Spend(k)
  PROVE  used'["lapse"] = 0 => used["lapse"] = 0 /\ k # "lapse"
BY DEF IInv, TypeOK, Spend, Events

\* A delivery that neither takes the lock nor gives it back comes no closer to
\* holding it.
LEMMA Unleased ==
  ASSUME LockInv, NEW w \in Workers, Alone(w), Leased(w)' => Leased(w), lost'[w] => lost[w],
         UNCHANGED <<lock, stopper>>, used'["lapse"] = 0 => used["lapse"] = 0
  PROVE  LockInv'
<1>1. ASSUME NEW v \in Workers \ {w} PROVE (Leased(v)' <=> Leased(v)) /\ (lost'[v] <=> lost[v])
  BY <1>1 DEF Alone, Leased
<1> QED BY <1>1 DEF LockInv, StopLeased

\* That is every step of a delivery but four.
LEMMA ComesNoCloser ==
  ASSUME IInv, NEW w \in Workers,
         \/ Deliver(w) \/ DeadJob(w) \/ Check(w) \/ Refuse(w) \/ Pickup(w) \/ Hot(w)
         \/ PickRecord(w) \/ Resume(w) \/ Land(w) \/ Unpark(w) \/ Early(w) \/ Model(w)
         \/ SegmentFails(w) \/ Shutdown(w) \/ Commit(w) \/ Park(w) \/ Ask(w) \/ Parked(w)
         \/ LoopEnd(w) \/ Finalize(w) \/ CloseRead(w) \/ ClosePatch(w) \/ Ack(w) \/ Redrive(w)
         \/ Policy(w) \/ MarkQueued(w) \/ QueueRecord(w) \/ Requeue(w) \/ FailSettle(w) \/ FailRun(w)
         \/ Poll(w) \/ WorkerDies(w)
  PROVE  (Leased(w)' => Leased(w)) /\ (lost'[w] => lost[w])
<1> USE DEF IInv, TypeOK, Leased
<1>1. CASE Deliver(w)
  BY <1>1 DEF Deliver, Go, WorkersType
<1>2. CASE DeadJob(w)
  BY <1>2 DEF DeadJob, Go, WorkersType
<1>3. CASE Check(w)
  BY <1>3, OnlyMoves, LeaveMoves DEF Check, WorkerPcs, Outcomes
<1>4. CASE Refuse(w)
  BY <1>4, OnlyMoves DEF Refuse, WorkerPcs
<1>5. CASE Pickup(w)
  BY <1>5, LeaveMoves, WonMoves DEF Pickup, Outcomes, States, Active, WorkerPcs
<1>6. CASE Hot(w)
  <2>1. /\ then[w] \in WorkerPcs
        /\ then[w] \notin {"idle", "dead", "hot", "release", "settle", "failrun"}
    BY <1>6 DEF Hot, WorkerKnows, HotKnows, WorkerPcs
  <2>2. then[w] # "queuerec" => out[w] \in {"executed", "dead"} \/ then[w] = "close"
    BY <1>6 DEF Hot, WorkerKnows, HotKnows
  <2>3. pc'[w] = then[w] /\ out'[w] = out[w] /\ lost'[w] = lost[w]
    BY <1>6, <2>1, OnlyMoves DEF Hot
  <2> QED BY <1>6, <2>1, <2>2, <2>3 DEF Hot, WorkerPcs
<1>7. CASE PickRecord(w)
  BY <1>7, OnlyMoves DEF PickRecord, WorkerPcs
<1>8. CASE Resume(w)
  BY <1>8, OnlyMoves, LeaveMoves DEF Resume, WorkerPcs, Outcomes
<1>9. CASE Land(w)
  BY <1>9, OnlyMoves DEF Land, WorkerPcs
<1>10. CASE Unpark(w)
  BY <1>10, LeaveMoves, WonMoves DEF Unpark, Outcomes, States, Active, WorkerPcs
<1>11. CASE Early(w)
  <2>1. (\E cut \in BOOLEAN : Ends(w, cut)) \/ Only(w, "model")
    BY <1>11 DEF Early, WorkersType
  <2> QED BY <1>11, <2>1, OnlyMoves, EndsMoves DEF Early, WorkerPcs
<1>12. CASE Model(w)
  BY <1>12 DEF Model, Go, WorkersType
<1>13. CASE SegmentFails(w)
  BY <1>13, LeaveMoves DEF SegmentFails, Outcomes
<1>14. CASE Shutdown(w)
  BY <1>14, LeaveMoves DEF Shutdown, Outcomes
<1>15. CASE Commit(w)
  BY <1>15 DEF Commit, Go, WorkersType
<1>16. CASE Park(w)
  BY <1>16, OnlyMoves, WonMoves DEF Park, WorkerPcs, States, Active
<1>17. CASE Ask(w)
  BY <1>17, OnlyMoves DEF Ask, WorkerPcs
<1>18. CASE Parked(w)
  BY <1>18, LeaveMoves DEF Parked, Outcomes
<1>19. CASE LoopEnd(w)
  <2>1. (\E cut \in BOOLEAN : Ends(w, cut)) \/ Leave(w, "lost")
    BY <1>19 DEF LoopEnd, WorkersType
  <2> QED BY <1>19, <2>1, LeaveMoves, EndsMoves DEF LoopEnd, Outcomes
<1>20. CASE Finalize(w)
  <2>1. val[w] \in States
    BY DEF WorkersType
  <2> QED BY <1>20, <2>1, OnlyMoves, WonMoves DEF Finalize, WorkerPcs
<1>21. CASE CloseRead(w)
  BY <1>21 DEF CloseRead, Go, WorkersType
<1>22. CASE ClosePatch(w)
  <2>1. /\ AfterClose(w) \in {"release", "ack", "idle"}
        /\ AfterClose(w) = "release" => out[w] \in {"executed", "dead"}
    BY <1>22 DEF ClosePatch, AfterClose, WorkerKnows, WorkersType, Outcomes
  <2> QED BY <1>22, <2>1, OnlyMoves DEF ClosePatch, WorkerPcs
<1>23. CASE Ack(w)
  BY <1>23, OnlyMoves DEF Ack, WorkerPcs
<1>24. CASE Redrive(w)
  BY <1>24, OnlyMoves DEF Redrive, WorkerPcs, WorkerKnows
<1>25. CASE Policy(w)
  BY <1>25, OnlyMoves DEF Policy, WorkerPcs, WorkerKnows
<1>26. CASE MarkQueued(w)
  <2>1. out[w] \in {"shutdown", "error"}
    BY <1>26 DEF MarkQueued, WorkerKnows
  <2> QED BY <1>26, <2>1, OnlyMoves, WonMoves DEF MarkQueued, WorkerPcs, States, Active
<1>27. CASE QueueRecord(w)
  BY <1>27, OnlyMoves DEF QueueRecord, WorkerPcs
<1>28. CASE Requeue(w)
  BY <1>28, OnlyMoves DEF Requeue, WorkerPcs
<1>29. CASE FailSettle(w)
  BY <1>29, OnlyMoves DEF FailSettle, WorkerPcs
<1>30. CASE FailRun(w)
  <2>1. /\ AfterClose(w) \in {"release", "ack", "idle"}
        /\ AfterClose(w) = "release" => out[w] \in {"executed", "dead"}
    BY <1>30 DEF FailRun, AfterClose, WorkerKnows, WorkersType, Outcomes
  <2> QED BY <1>30, <2>1, OnlyMoves, WonMoves DEF FailRun, WorkerPcs, States, Terminal
<1>31. CASE Poll(w)
  BY <1>31 DEF Poll, Go, WorkersType
<1>32. CASE WorkerDies(w)
  BY <1>32, OnlyMoves DEF WorkerDies, WorkerPcs
<1> QED BY <1>1, <1>2, <1>3, <1>4, <1>5, <1>6, <1>7, <1>8, <1>9, <1>10, <1>11, <1>12, <1>13,
           <1>14, <1>15, <1>16, <1>17, <1>18, <1>19, <1>20, <1>21, <1>22, <1>23, <1>24, <1>25,
           <1>26, <1>27, <1>28, <1>29, <1>30, <1>31, <1>32

\* Nor does it touch the lock or the stop.
LEMMA LeavesLock ==
  ASSUME IInv, NEW w \in Workers,
         \/ Deliver(w) \/ DeadJob(w) \/ Check(w) \/ Refuse(w) \/ Pickup(w) \/ Hot(w)
         \/ PickRecord(w) \/ Resume(w) \/ Land(w) \/ Unpark(w) \/ Early(w) \/ Model(w)
         \/ SegmentFails(w) \/ Shutdown(w) \/ Commit(w) \/ Park(w) \/ Ask(w) \/ Parked(w)
         \/ LoopEnd(w) \/ Finalize(w) \/ CloseRead(w) \/ ClosePatch(w) \/ Ack(w) \/ Redrive(w)
         \/ Policy(w) \/ MarkQueued(w) \/ QueueRecord(w) \/ Requeue(w) \/ FailSettle(w) \/ FailRun(w)
         \/ Poll(w) \/ WorkerDies(w)
  PROVE  UNCHANGED <<lock, stopper>> /\ (used'["lapse"] = 0 => used["lapse"] = 0)
<1>1. CASE Deliver(w) \/ DeadJob(w) \/ Check(w) \/ Refuse(w) \/ Pickup(w) \/ Hot(w)
           \/ PickRecord(w) \/ Resume(w)
  BY <1>1, Lapses DEF Deliver, DeadJob, Check, Refuse, Pickup, Hot, PickRecord, Resume, kv,
     WorkerOnly, others, Events
<1>2. CASE Land(w) \/ Unpark(w) \/ Early(w) \/ Model(w) \/ SegmentFails(w)
           \/ Shutdown(w) \/ Commit(w) \/ Park(w)
  BY <1>2, Lapses DEF Land, Unpark, Early, Model, SegmentFails, Shutdown, Commit, Park, kv,
     WorkerOnly, others, Events
<1>3. CASE Ask(w) \/ Parked(w) \/ LoopEnd(w) \/ Finalize(w) \/ CloseRead(w)
           \/ ClosePatch(w) \/ Ack(w) \/ Redrive(w)
  BY <1>3, Lapses DEF Ask, Parked, LoopEnd, Finalize, CloseRead, ClosePatch, Ack, Redrive, kv,
     WorkerOnly, others, Events
<1>4. CASE Policy(w) \/ MarkQueued(w) \/ QueueRecord(w) \/ Requeue(w) \/ FailSettle(w)
           \/ FailRun(w) \/ Poll(w) \/ WorkerDies(w)
  BY <1>4, Lapses DEF Policy, MarkQueued, QueueRecord, Requeue, FailSettle, FailRun, Poll,
     WorkerDies, kv, WorkerOnly, others, Events
<1> QED BY <1>1, <1>2, <1>3, <1>4

LEMMA WorkerHolds ==
  ASSUME IInv, LockInv, NEW w \in Workers,
         Deliver(w) \/ Handle(w) \/ Poll(w) \/ DeadJob(w) \/ Refuse(w)
         \/ SegmentFails(w) \/ Shutdown(w) \/ LeaseLost(w) \/ WorkerDies(w)
  PROVE  LockInv'
<1> USE DEF IInv, TypeOK
<1>1. Alone(w)
  BY PickupKeeps, LoopKeeps, EndKeeps DEF Handle
<1>2. ASSUME NEW v \in Workers \ {w} PROVE (Leased(v)' <=> Leased(v)) /\ (lost'[v] <=> lost[v])
  BY <1>1, <1>2 DEF Alone, Leased
<1>3. CASE Acquire(w)
  <2>1. lost' = lost /\ used' = used /\ stopper' = stopper
    BY <1>3 DEF Acquire, WorkerOnly, others
  <2>2. CASE CanLock(Me(w))
    <3>1. lock'.by = w
      BY <1>3, <2>2 DEF Acquire, TakeLock
    <3> QED BY <1>2, <2>1, <2>2, <3>1, NamesAssumption
            DEF LockInv, StopLeased, CanLock, NoLock
  <2>3. CASE ~CanLock(Me(w))
    <3>1. lock' = lock /\ ~Leased(w)'
      BY <1>3, <2>3 DEF Acquire, Go, Leased, WorkersType
    <3> QED BY <1>2, <2>1, <3>1 DEF LockInv, StopLeased
  <2> QED BY <2>2, <2>3
<1>4. CASE LostRun(w)
  <2>1. used' = used /\ stopper' = stopper
    BY <1>4 DEF LostRun, WorkerOnly, others
  <2>2. CASE CanLock(Me(w))
    <3>1. lock'.by = w /\ lost' = lost
      BY <1>4, <2>2 DEF LostRun, TakeLock
    <3> QED BY <1>2, <2>1, <2>2, <3>1, NamesAssumption
            DEF LockInv, StopLeased, CanLock, NoLock
  <2>3. CASE ~CanLock(Me(w))
    <3>1. lock' = lock /\ Only(w, "idle")
      BY <1>4, <2>3 DEF LostRun
    <3>2. ~Leased(w)' /\ ~lost'[w]
      BY <3>1, OnlyMoves DEF Leased, WorkerPcs
    <3> QED BY <1>2, <2>1, <3>1, <3>2 DEF LockInv, StopLeased
  <2> QED BY <2>2, <2>3
<1>5. CASE Release(w)
  <2>1. used' = used /\ stopper' = stopper /\ lock' = IF lock.by = w THEN NoLock ELSE lock
    BY <1>5 DEF Release, WorkerOnly, others, FreeLock
  <2>2. \E p \in {"ack", "idle", "redrive", "markqueued", "policy"} : Only(w, p)
    BY <1>5 DEF Release, AfterRelease, WorkerKnows, WorkersType, Outcomes
  <2>3. ~Leased(w)' /\ (lost'[w] => lost[w])
    BY <2>2, OnlyMoves DEF Leased, WorkerPcs
  <2> QED BY <1>2, <2>1, <2>3, NamesAssumption DEF LockInv, StopLeased
<1>6. CASE LeaseLost(w)
  <2>1. Leased(w)
    BY <1>6 DEF LeaseLost, InSegment, Leased
  <2>2. lock.by = w => Spend("lapse")
    BY <1>6 DEF LeaseLost
  <2>3. lock.by # w => used' = used
    BY <1>6 DEF LeaseLost
  <2> QED BY <2>1, <2>2, <2>3, Lapses DEF LockInv, Events
<1>7. CASE ~(Acquire(w) \/ LostRun(w) \/ Release(w) \/ LeaseLost(w))
  BY <1>1, <1>7, Unleased, ComesNoCloser, LeavesLock DEF Handle
<1> QED BY <1>3, <1>4, <1>5, <1>6, <1>7

\* The steps of everybody else.
LEMMA OthersHold ==
  ASSUME IInv, LockInv, UNCHANGED worker,
         \/ \E c \in Calls : \/ \E r \in Ids[c] : RunBegin(c, r)
                             \/ Dispatch(c) \/ RunThrows(c) \/ RunDies(c)
         \/ StopRead \/ StopDies \/ Stopping
         \/ Respond \/ SweepFind \/ Sweeping \/ LockExpires \/ LockLapses
  PROVE  LockInv'
<1> USE DEF IInv, TypeOK
<1>1. \A v \in Workers : (Leased(v)' <=> Leased(v)) /\ (lost'[v] <=> lost[v])
  BY DEF Leased, worker
<1>2. ASSUME UNCHANGED lock, StopLeased' => StopLeased, used'["lapse"] = 0 => used["lapse"] = 0
      PROVE  LockInv'
  BY <1>1, <1>2 DEF LockInv
<1>3. ASSUME NEW c \in Calls,
             (\E r \in Ids[c] : RunBegin(c, r)) \/ Dispatch(c) \/ RunThrows(c) \/ RunDies(c)
      PROVE  LockInv'
  <2>1. UNCHANGED <<lock, stopper>>
    BY <1>3 DEF RunBegin, Dispatch, RunThrows, RunDies, RunAdmit, RunHot, RunInstall, RunStart,
       RunCheck, RunAppend, RunEnqueue, RunStopHot, RunFail, RunFailHot, CallOnly, kv
  <2>2. used'["lapse"] = 0 => used["lapse"] = 0
    BY <1>3, Lapses DEF RunBegin, Dispatch, RunThrows, RunDies, RunAdmit, RunHot, RunInstall,
       RunStart, RunCheck, RunAppend, RunEnqueue, RunStopHot, RunFail, RunFailHot, Events
  <2> QED BY <1>2, <2>1, <2>2 DEF StopLeased
<1>4. CASE StopRead \/ StopDies \/ StopWhich \/ StopCas \/ StopHot \/ StopRecord \/ StopParks
  <2>1. UNCHANGED lock
    BY <1>4 DEF StopRead, StopDies, StopWhich, StopCas, StopHot, StopRecord, StopParks, kv
  <2>2. StopRead \/ StopWhich => ~StopLeased'
    <3>1. StopRead => stopper'.pc = "which"
      BY DEF StopRead
    <3>2. StopWhich => stopper'.pc = "cas"
      BY DEF StopWhich, ActorsType
    <3> QED BY <3>1, <3>2 DEF StopLeased
  <2>3. ASSUME StopDies \/ StopCas \/ StopHot \/ StopRecord \/ StopParks PROVE ~StopLeased'
    <3>1. \E p \in StopPcs \ {"leased", "release"} : StopGoes(p)
      BY <2>3 DEF StopDies, StopCas, StopHot, StopRecord, StopParks, StopPcs
    <3> QED BY <3>1 DEF StopGoes, StopLeased, ActorsType
  <2>4. used'["lapse"] = 0 => used["lapse"] = 0
    BY <1>4, Lapses DEF StopRead, StopDies, StopWhich, StopCas, StopHot, StopRecord, StopParks,
       Events
  <2> QED BY <1>2, <1>4, <2>1, <2>2, <2>3, <2>4
<1>5. CASE StopLease
  <2>1. used' = used
    BY <1>5 DEF StopLease
  <2>2. CASE UNCHANGED lock /\ StopGoes("parks")
    BY <1>2, <2>1, <2>2 DEF StopGoes, StopLeased, ActorsType
  <2>3. CASE CanLock(stopper.run) /\ lock'.by = Stop
    BY <1>1, <2>1, <2>3, NamesAssumption DEF LockInv, CanLock, NoLock
  <2> QED BY <1>5, <2>2, <2>3 DEF StopLease, TakeLock
<1>6. CASE StopSettle
  BY <1>2, <1>6 DEF StopSettle, StopGoes, StopLeased, ActorsType, kv
<1>7. CASE StopRelease
  <2>1. used' = used /\ ~StopLeased' /\ lock' = IF lock.by = Stop THEN NoLock ELSE lock
    BY <1>7 DEF StopRelease, StopGoes, StopLeased, ActorsType, FreeLock
  <2> QED BY <1>1, <2>1, NamesAssumption DEF LockInv
<1>8. CASE Respond \/ SweepFind \/ Sweeping
  <2>1. UNCHANGED <<lock, stopper>>
    BY <1>8 DEF Respond, SweepFind, Sweeping, SweepEnqueue, SweepHeal, SweepHot, SweepOnly,
       others, kv
  <2>2. used'["lapse"] = 0 => used["lapse"] = 0
    BY <1>8, Lapses DEF Respond, SweepFind, Sweeping, SweepEnqueue, SweepHeal, SweepHot, Events
  <2> QED BY <1>2, <2>1, <2>2 DEF StopLeased
<1>9. CASE LockExpires
  <2>1. used' = used /\ stopper' = stopper /\ Abandoned
    BY <1>9 DEF LockExpires, others
  <2>2. used["lapse"] = 0 => (\A v \in Workers : ~Leased(v)) /\ ~StopLeased
    BY <2>1, NamesAssumption DEF Abandoned, LockInv, Leased, StopLeased
  <2> QED BY <1>1, <2>1, <2>2 DEF LockInv, StopLeased
<1>10. CASE LockLapses
  BY <1>10, Lapses DEF LockLapses, LockInv, Events
<1> QED BY <1>3, <1>4, <1>5, <1>6, <1>7, <1>8, <1>9, <1>10 DEF Stopping

LEMMA LockInductive == Spec => []LockInv
<1>1. Init => LockInv
  BY DEF Init, LockInv, Leased, StopLeased
<1>2. IInv /\ LockInv /\ [Next]_vars => LockInv'
  <2> SUFFICES ASSUME IInv, LockInv, [Next]_vars PROVE LockInv'
    OBVIOUS
  <2>1. ASSUME NEW w \in Workers, Deliver(w) \/ Handle(w) \/ Poll(w) \/ DeadJob(w) \/ Refuse(w)
                                   \/ SegmentFails(w) \/ Shutdown(w) \/ LeaseLost(w) \/ WorkerDies(w)
        PROVE  LockInv'
    BY <2>1, WorkerHolds
  <2>2. ASSUME \/ \E c \in Calls : \/ \E r \in Ids[c] : RunBegin(c, r)
                                   \/ Dispatch(c) \/ RunThrows(c) \/ RunDies(c)
               \/ StopRead \/ StopDies \/ Stopping
               \/ Respond \/ SweepFind \/ Sweeping \/ LockExpires \/ LockLapses
        PROVE  LockInv'
    <3>1. UNCHANGED worker
      BY <2>2 DEF RunBegin, Dispatch, RunThrows, RunDies, RunAdmit, RunHot, RunInstall,
         RunStart,
         RunCheck, RunAppend, RunEnqueue, RunStopHot, RunFail, RunFailHot, CallOnly,
         StopRead, StopDies, Stopping, StopWhich, StopCas, StopHot, StopRecord, StopLease,
         StopSettle, StopRelease, StopParks, StopOnly, Respond, SweepFind, Sweeping,
         SweepEnqueue, SweepHeal, SweepHot, SweepOnly, LockExpires, LockLapses
    <3> QED BY <2>2, <3>1, OthersHold
  <2>3. CASE UNCHANGED vars
    BY <2>3 DEF vars, LockInv, Leased, StopLeased
  <2> QED BY <2>1, <2>2, <2>3 DEF Next, System, Environment
<1> QED BY Inductive, <1>1, <1>2, PTL DEF Spec

\* While no lease lapses under its holder, no two deliveries work on the thread at
\* once, and a stop settles no run beside one: the lock is set only when free and
\* freed only by its holder, and every path that works has passed its acquire.
THEOREM Exclusion == Spec => []MutualExclusion
<1>1. LockInv => MutualExclusion
  BY NamesAssumption DEF LockInv, MutualExclusion
<1> QED BY LockInductive, <1>1, PTL

\* What frees the lock.
LEMMA FreesLock ==
  ASSUME IInv, Next, NEW h \in Workers \cup {Stop}, lock.by = h, lock'.by # h
  PROVE  \/ h \in Workers /\ pc[h] = "release" /\ pc'[h] # "release"
         \/ h = Stop /\ stopper.pc = "release" /\ stopper'.pc # "release"
         \/ Abandoned \/ used'["lapse"] > used["lapse"]
<1> USE DEF IInv, TypeOK
<1>1. lock # NoLock /\ lock' # lock
  BY NamesAssumption DEF NoLock
<1>2. ASSUME NEW w \in Workers, Deliver(w) \/ Handle(w) \/ Poll(w) \/ DeadJob(w) \/ Refuse(w)
             \/ SegmentFails(w) \/ Shutdown(w) \/ LeaseLost(w) \/ WorkerDies(w)
      PROVE  h = w /\ pc[w] = "release" /\ pc'[w] # "release"
  <2>1. CASE Release(w)
    <3>1. lock.by = w /\ pc[w] = "release"
      BY <1>1, <2>1 DEF Release, FreeLock
    <3>2. \E p \in {"ack", "idle", "redrive", "markqueued", "policy"} : Only(w, p)
      BY <2>1 DEF Release, AfterRelease, WorkerKnows, WorkersType, Outcomes
    <3> QED BY <3>1, <3>2, OnlyMoves DEF WorkerPcs
  <2>2. CASE Acquire(w) \/ LostRun(w) \/ LeaseLost(w)
    BY <1>1, <2>2 DEF Acquire, LostRun, LeaseLost, CanLock, kv
  <2>3. CASE ~(Acquire(w) \/ LostRun(w) \/ Release(w) \/ LeaseLost(w))
    BY <1>1, <1>2, <2>3, LeavesLock DEF Handle
  <2> QED BY <2>1, <2>2, <2>3
<1>3. ASSUME NEW c \in Calls,
             (\E r \in Ids[c] : RunBegin(c, r)) \/ Dispatch(c) \/ RunThrows(c) \/ RunDies(c)
      PROVE  FALSE
  BY <1>1, <1>3 DEF RunBegin, Dispatch, RunThrows, RunDies, RunAdmit, RunHot, RunInstall,
     RunStart,
     RunCheck, RunAppend, RunEnqueue, RunStopHot, RunFail, RunFailHot, kv
<1>4. CASE StopRead \/ StopDies \/ Stopping
  <2>1. CASE StopRelease
    BY <1>1, <2>1 DEF StopRelease, FreeLock, StopGoes, ActorsType
  <2>2. CASE ~StopRelease
    BY <1>1, <1>4, <2>2 DEF StopRead, StopDies, Stopping, StopWhich, StopCas, StopHot,
       StopRecord,
       StopLease, StopSettle, StopParks, CanLock, kv
  <2> QED BY <2>1, <2>2
<1>5. CASE Sweeping \/ Respond \/ SweepFind
  BY <1>1, <1>5 DEF Respond, SweepFind, Sweeping, SweepEnqueue, SweepHeal, SweepHot, kv
<1>6. CASE LockExpires \/ LockLapses
  BY <1>6 DEF LockExpires, LockLapses, Spend, Events
<1> QED BY <1>2, <1>3, <1>4, <1>5, <1>6 DEF Next, System, Environment

\* Nobody but its holder, the end of its lease or the death of the process behind
\* it frees a lock: a release checks the value it set (lease.ts release).
THEOREM LockKept == Spec => KeepsLock
<1>1. IInv /\ [Next]_vars =>
        [\A h \in Workers \cup {Stop} : lock.by = h /\ lock'.by # h =>
           \/ h \in Workers /\ pc[h] = "release" /\ pc'[h] # "release"
           \/ h = Stop /\ stopper.pc = "release" /\ stopper'.pc # "release"
           \/ Abandoned \/ used'["lapse"] > used["lapse"]]_vars
  BY FreesLock
<1> QED BY Inductive, <1>1, PTL DEF Spec, KeepsLock

-------------------------------------------------------------------------------
\* The run lifecycle implements the thread's promise, once no two calls name the
\* same run id.

OwnIdsOnly == \A c, d \in Calls : c # d => Ids[c] \cap Ids[d] = {}

LEMMA CallLives ==
  ASSUME IInv, OwnIdsOnly, NEW c \in Calls,
         (\E r \in Ids[c] : RunBegin(c, r)) \/ Dispatch(c) \/ RunThrows(c) \/ RunDies(c)
  PROVE  [Life!Next]_(Life!vars)
<1> USE DEF IInv, TypeOK
<1> DEFINE In(d) == call[d].pc \notin {"idle", "admit", "busy"}
<1>1. ASSUME \A d \in Calls : (In(d)' <=> In(d)) /\ (In(d) => call'[d].run = call[d].run)
      PROVE  Admitted' = Admitted
  <2>1. \A x : x \in Admitted <=> \E d \in Calls : In(d) /\ x = call[d].run
    BY DEF Admitted
  <2>2. \A x : x \in Admitted' <=> \E d \in Calls : In(d)' /\ x = call'[d].run
    BY DEF Admitted
  <2>3. \A x : x \in Admitted' <=> x \in Admitted
    BY <1>1, <2>1, <2>2
  <2> QED BY <2>3
<1>2. ASSUME UNCHANGED thread,
             \A d \in Calls : (In(d)' <=> In(d)) /\ (In(d) => call'[d].run = call[d].run)
      PROVE  UNCHANGED Life!vars
  BY <1>1, <1>2 DEF Life!vars, thread
<1>3. ASSUME NEW p \in CallPcs \ {"idle", "admit", "busy"}, CallGoes(c, p), In(c)
      PROVE  \A d \in Calls : (In(d)' <=> In(d)) /\ (In(d) => call'[d].run = call[d].run)
  BY <1>3 DEF CallGoes, ActorsType
<1>4. ASSUME NEW r \in Ids[c], RunBegin(c, r) PROVE UNCHANGED Life!vars
  BY <1>2, <1>4 DEF RunBegin, ActorsType
<1>5. CASE RunAdmit(c)
  <2>1. CASE Admits(c)
    <3> DEFINE r == call[c].run
    <3>1. r \in Ids[c] /\ r \in Runs /\ state \notin Active
      BY <1>5, <2>1, NamesAssumption DEF RunAdmit, Admits, CallKnows
    <3>2. r \notin Admitted
      BY <1>5, <3>1 DEF RunAdmit, Admitted, OwnIdsOnly, CallKnows
    <3>3. \A d \in Calls : (In(d)' <=> (In(d) \/ d = c)) /\ call'[d].run = call[d].run
      BY <1>5, <2>1 DEF RunAdmit, CallGoes, ActorsType
    <3>4. Admitted' = Admitted \cup {r}
      BY <3>3 DEF Admitted
    <3>5. state' = "QUEUED" /\ owner' = r
      BY <1>5, <2>1 DEF RunAdmit
    <3>6. Life!Admit(r)
      BY <3>1, <3>2, <3>4, <3>5 DEF Life!Admit, Life!Going, Active
    <3> QED BY <3>1, <3>6 DEF Life!Next
  <2>2. CASE ~Admits(c)
    BY <1>2, <1>5, <2>2 DEF RunAdmit, CallGoes, ActorsType
  <2> QED BY <2>1, <2>2
<1>6. CASE RunFail(c)
  <2>1. \E p \in {"failhot", "refused"} : CallGoes(c, p)
    BY <1>6 DEF RunFail
  <2>2. \A d \in Calls : (In(d)' <=> In(d)) /\ (In(d) => call'[d].run = call[d].run)
    BY <1>3, <1>6, <2>1 DEF RunFail, CallPcs, Over
  <2>3. Admitted' = Admitted
    BY <1>1, <2>2
  <2>4. owner' = owner /\ (state' = state \/ (state = "QUEUED" /\ state' = "FAILED"))
    BY <1>6 DEF RunFail, CanMove
  <2>5. Life!Move \/ UNCHANGED Life!vars
    BY <2>3, <2>4 DEF Life!Move, Life!vars, Life!Edges, Life!Going, Life!Ended
  <2> QED BY <2>5 DEF Life!Next
<1>7. CASE RunInstall(c)
  BY <1>2, <1>7 DEF RunInstall, ActorsType, thread
<1>8. CASE \/ RunHot(c) \/ RunStart(c) \/ RunCheck(c, "check1", "append") \/ RunAppend(c)
           \/ RunCheck(c, "check2", "enqueue") \/ RunEnqueue(c) \/ RunStopHot(c)
           \/ RunFailHot(c) \/ RunThrows(c) \/ RunDies(c)
  <2>1. UNCHANGED thread /\ In(c)
    BY <1>8 DEF RunHot, RunStart, RunCheck, RunAppend, RunEnqueue, RunStopHot, RunFailHot,
       RunThrows, RunDies, Over
  <2>2. \E p \in CallPcs \ {"idle", "admit", "busy"} : CallGoes(c, p)
    BY <1>8 DEF RunHot, RunStart, RunCheck, RunAppend, RunEnqueue, RunStopHot, RunFailHot,
       RunThrows, RunDies, CallPcs, Over
  <2> QED BY <1>2, <1>3, <2>1, <2>2
<1> QED BY <1>4, <1>5, <1>6, <1>7, <1>8 DEF Dispatch

\* A step of another process either leaves the thread or moves its run along.
LEMMA Moves ==
  ASSUME UNCHANGED call, owner' = owner, state' = state \/ <<state, state'>> \in Life!Edges
  PROVE  [Life!Next]_(Life!vars)
BY DEF Life!Next, Life!Move, Life!vars, Admitted

LEMMA WorkerLives ==
  ASSUME IInv, NEW w \in Workers,
         Deliver(w) \/ Handle(w) \/ Poll(w) \/ DeadJob(w) \/ Refuse(w)
         \/ SegmentFails(w) \/ Shutdown(w) \/ LeaseLost(w) \/ WorkerDies(w)
  PROVE  [Life!Next]_(Life!vars)
<1> USE DEF IInv, TypeOK, Life!Edges, Life!Going, Life!Ended
<1>1. CASE Pickup(w) \/ Unpark(w) \/ Park(w) \/ MarkQueued(w)
  BY <1>1, Moves DEF Pickup, Unpark, Park, MarkQueued, Won, CanMove, WorkerOnly, others
<1>2. CASE Finalize(w)
  BY <1>2, Moves DEF Finalize, WorkerKnows, Won, CanMove, WorkerOnly, others, Terminal
<1>3. CASE FailRun(w)
  BY <1>3, Moves DEF FailRun, Won, CanMove, WorkerOnly, others, Active
<1>4. CASE Deliver(w) \/ DeadJob(w) \/ Check(w) \/ Refuse(w)
           \/ Hot(w) \/ PickRecord(w) \/ Resume(w) \/ Land(w)
  BY <1>4, Moves DEF Deliver, DeadJob, Check, Refuse, Hot, PickRecord, Resume, Land, thread,
     WorkerOnly, others
<1>5. CASE Early(w) \/ Model(w) \/ SegmentFails(w) \/ Shutdown(w)
           \/ Commit(w) \/ Ask(w) \/ Parked(w) \/ LoopEnd(w)
  BY <1>5, Moves DEF Early, Model, SegmentFails, Shutdown, Commit, Ask, Parked, LoopEnd,
     thread, WorkerOnly, others
<1>6. CASE CloseRead(w) \/ ClosePatch(w) \/ Ack(w) \/ Redrive(w)
           \/ Policy(w) \/ QueueRecord(w) \/ Requeue(w) \/ FailSettle(w)
  BY <1>6, Moves DEF CloseRead, ClosePatch, Ack, Redrive, Policy, QueueRecord, Requeue,
     FailSettle, thread, WorkerOnly, others
<1>7. CASE Poll(w) \/ WorkerDies(w) \/ LostRun(w) \/ Acquire(w)
           \/ Release(w) \/ LeaseLost(w)
  BY <1>7, Moves DEF Poll, WorkerDies, LostRun, Acquire, Release, LeaseLost, thread,
     WorkerOnly, others
<1> QED BY <1>1, <1>2, <1>3, <1>4, <1>5, <1>6, <1>7 DEF Handle

LEMMA OthersLive ==
  ASSUME IInv, \/ StopRead \/ StopDies \/ Stopping
               \/ Respond \/ SweepFind \/ Sweeping \/ LockExpires \/ LockLapses
  PROVE  [Life!Next]_(Life!vars)
<1> USE DEF IInv, TypeOK, Life!Edges, Life!Going, Life!Ended
<1>1. CASE StopCas
  BY <1>1, Moves DEF StopCas, CanMove, StopOnly, Active
<1>2. CASE SweepHeal
  BY <1>2, Moves DEF SweepHeal, CanMove, SweepOnly, Active, ActorsType, Terminal
<1>3. CASE StopRead \/ StopDies \/ StopWhich \/ StopHot \/ StopRecord \/ StopLease
           \/ StopSettle \/ StopRelease \/ StopParks
  BY <1>3, Moves DEF StopRead, StopDies, StopWhich, StopHot, StopRecord, StopLease,
     StopSettle, StopRelease, StopParks, StopOnly, thread
<1>4. CASE Respond \/ SweepFind \/ SweepEnqueue \/ SweepHot \/ LockExpires \/ LockLapses
  BY <1>4, Moves DEF Respond, SweepFind, SweepEnqueue, SweepHot, SweepOnly, LockExpires,
     LockLapses, others, thread
<1> QED BY <1>1, <1>2, <1>3, <1>4 DEF Stopping, Sweeping

\* Every step of the code is a step of the thread's promise or none: a run gets the
\* thread once, only its own life moves it, and an ended run never moves it again.
\* The one assumption is that calls do not share a run id.
THEOREM Implementation ==
  ASSUME OwnIdsOnly
  PROVE  Spec => ImplementsLife
<1>1. Init => Life!Init
  BY NamesAssumption, StartAssumption DEF Init, Life!Init, Life!Ended, Terminal, Admitted
<1>2. IInv /\ [Next]_vars => [Life!Next]_(Life!vars)
  <2> SUFFICES ASSUME IInv, [Next]_vars PROVE [Life!Next]_(Life!vars)
    OBVIOUS
  <2>1. CASE Next
    BY <2>1, CallLives, WorkerLives, OthersLive DEF Next, System, Environment
  <2>2. CASE UNCHANGED vars
    BY <2>2 DEF vars, Life!vars, Admitted
  <2> QED BY <2>1, <2>2
<1> QED BY Inductive, <1>1, <1>2, PTL DEF Spec, ImplementsLife, Life!Spec

-------------------------------------------------------------------------------
(***************************************************************************)
(* A thread that is going can be found again: what a run that was not sent *)
(* yet has left behind (nothing), and who knows the run of the thread.     *)
(***************************************************************************)

\* What the steps of each process leave alone.

AnyEntry == [run : AnyRun, kind : Entries]

\* One more message, of one of these runs, or none.
Says(who) ==
  \/ messages' = messages
  \/ \E m \in AnyEntry : m.run \in who /\ messages' = Append(messages, m)

\* Besides its own run a delivery writes the approval of the thread's current run
\* and answers it; it queues its own job again.
OwnsWrites(w) ==
  /\ UNCHANGED <<owner, cur, call, stopper, sweep>>
  /\ \A r \in Runs : r # Me(w) => rec'[r] = rec[r]
  /\ \A r \in Runs : r \notin {Me(w), cur} => open'[r] = open[r]
  /\ Says({Me(w), cur})
  /\ \A j \in queue' : j \in queue \/ j.run = Me(w)
  /\ \A v \in Workers : job'[v] \in queue \cup {job[v], NoJob}

LEMMA CloseParksSays ==
  ASSUME CloseParks, KvType, StoreType
  PROVE  /\ Says({cur})
         /\ \A r \in Runs : r # cur => open'[r] = open[r]
<1>1. CASE Open = "none"
  BY <1>1 DEF CloseParks, Says
<1>2. CASE Open # "none"
  <2>1. cur \in Runs
    BY <1>2 DEF Open
  <2>2. [run |-> cur, kind |-> "result"] \in AnyEntry
    BY <2>1 DEF AnyEntry, AnyRun, Entries
  <2> QED BY <1>2, <2>1, <2>2 DEF CloseParks, Says, StoreType
<1> QED BY <1>1, <1>2

\* Where a delivery's job goes.
LEMMA JobStays ==
  ASSUME WorkersType, NEW w \in Workers,
         \/ \E p \in WorkerPcs : Only(w, p)
         \/ \E o \in Outcomes : Leave(w, o)
         \/ job' = job
  PROVE  \A v \in Workers : job'[v] \in {job[v], NoJob}
BY DEF WorkersType, Only, Fresh, Leave

LEMMA WorkerWrites ==
  ASSUME IInv, NEW w \in Workers,
         Deliver(w) \/ Handle(w) \/ Poll(w) \/ DeadJob(w) \/ Refuse(w)
         \/ SegmentFails(w) \/ Shutdown(w) \/ LeaseLost(w) \/ WorkerDies(w)
  PROVE  OwnsWrites(w)
<1> USE DEF IInv, TypeOK, WorkerOnly, others, thread, kv, store, mq
<1>1. CASE \/ LostRun(w) \/ Refuse(w)
  <2>1. job[w] \in Jobs /\ (CloseParks \/ UNCHANGED <<open, messages>>)
    BY <1>1 DEF LostRun, Refuse, WorkerKnows
  <2>2. Says({Me(w), cur}) /\ \A r \in Runs : r # cur => open'[r] = open[r]
    BY <2>1, CloseParksSays DEF Says
  <2>3. \A v \in Workers : job'[v] \in {job[v], NoJob}
    BY <1>1, JobStays DEF LostRun, Refuse, WorkerPcs
  <2> QED BY <1>1, <2>2, <2>3 DEF LostRun, Refuse, OwnsWrites
<1>2. CASE Deliver(w) \/ DeadJob(w)
  BY <1>2 DEF Deliver, DeadJob, OwnsWrites, Says, WorkersType
<1>3. CASE \/ Acquire(w) \/ Pickup(w) \/ Hot(w) \/ Resume(w) \/ Unpark(w)
           \/ Model(w) \/ Park(w) \/ Parked(w)
  <2>1. \A v \in Workers : job'[v] \in {job[v], NoJob}
    <3>1. CASE Acquire(w) \/ Pickup(w) \/ Resume(w) \/ Unpark(w)
      BY <1>3, <3>1, JobStays DEF Acquire, Pickup, Hot, Resume, Unpark, WorkerPcs, Outcomes
    <3>2. CASE Model(w) \/ Park(w) \/ Parked(w)
      BY <3>2, JobStays DEF Model, Park, Parked, WorkerPcs, Outcomes
    <3>3. CASE Hot(w)
      BY <3>3 DEF Hot, Only, Fresh, WorkersType
    <3> QED BY <1>3, <3>1, <3>2, <3>3
  <2>2. UNCHANGED <<owner, cur, call, stopper, sweep, store, mq>>
    BY <1>3 DEF Acquire, Pickup, Hot, Resume, Unpark, Model, Park, Parked
  <2> QED BY <2>1, <2>2 DEF OwnsWrites, Says
<1>4. CASE \/ Check(w) \/ PickRecord(w) \/ Early(w) \/ LoopEnd(w) \/ ClosePatch(w)
           \/ QueueRecord(w) \/ FailSettle(w)
  <2>1. \A v \in Workers : job'[v] \in {job[v], NoJob}
    <3>1. CASE Check(w) \/ PickRecord(w) \/ QueueRecord(w) \/ FailSettle(w)
      BY <3>1, JobStays DEF Check, PickRecord, QueueRecord, FailSettle, WorkerPcs, Outcomes
    <3>2. CASE Early(w) \/ LoopEnd(w)
      BY <3>2, JobStays DEF Early, LoopEnd, Ends, WorkerPcs, Outcomes
    <3>3. CASE ClosePatch(w)
      BY <3>3 DEF ClosePatch, Only, Fresh, WorkersType
    <3> QED BY <1>4, <3>1, <3>2, <3>3
  <2>2. UNCHANGED <<owner, cur, call, stopper, sweep, open, messages, mq>>
    BY <1>4 DEF Check, PickRecord, Early, LoopEnd, ClosePatch, QueueRecord, FailSettle
  <2>3. \A r \in Runs : r # Me(w) => rec'[r] = rec[r]
    BY <1>4 DEF Check, PickRecord, Early, LoopEnd, ClosePatch, QueueRecord, FailSettle, Ends,
       SettleEnded, Settled, Patch, StoreType
  <2> QED BY <2>1, <2>2, <2>3 DEF OwnsWrites, Says
<1>5. CASE Land(w) \/ Commit(w)
  <2>1. job[w] \in Jobs
    BY <1>5 DEF Land, Commit, WorkerKnows
  <2>2. \A v \in Workers : job'[v] \in {job[v], NoJob}
    BY <1>5, JobStays DEF Land, Commit, WorkerPcs
  <2>3. \E k \in Entries : messages' = Append(messages, [run |-> Me(w), kind |-> k])
    BY <1>5 DEF Land, Commit, WorkerKnows, Entries
  <2>4. Says({Me(w), cur})
    BY <2>1, <2>3, JobRuns DEF Says, AnyEntry, AnyRun
  <2> QED BY <1>5, <2>2, <2>4 DEF Land, Commit, OwnsWrites, StoreType
<1>6. CASE \/ Ask(w) \/ Redrive(w) \/ Requeue(w) \/ WorkerDies(w)
  <2>1. \A v \in Workers : job'[v] \in {job[v], NoJob}
    BY <1>6, JobStays DEF Ask, Redrive, Requeue, WorkerDies, WorkerPcs
  <2>2. \A j \in queue' : j \in queue \/ j.run = Me(w)
    BY <1>6 DEF Ask, Redrive, Requeue, WorkerDies, Again, Put, Me
  <2>3. UNCHANGED <<owner, cur, call, stopper, sweep, rec, messages>>
    BY <1>6 DEF Ask, Redrive, Requeue, WorkerDies
  <2>4. \A r \in Runs : r # Me(w) => open'[r] = open[r]
    BY <1>6 DEF Ask, Redrive, Requeue, WorkerDies, StoreType
  <2> QED BY <2>1, <2>2, <2>3, <2>4 DEF OwnsWrites, Says
<1>7. CASE \/ SegmentFails(w) \/ Shutdown(w) \/ Finalize(w) \/ CloseRead(w) \/ Release(w)
           \/ Ack(w) \/ Policy(w) \/ MarkQueued(w) \/ FailRun(w) \/ Poll(w) \/ LeaseLost(w)
  <2>1. \A v \in Workers : job'[v] \in {job[v], NoJob}
    <3>1. CASE SegmentFails(w) \/ Shutdown(w) \/ Finalize(w) \/ CloseRead(w) \/ Policy(w)
               \/ MarkQueued(w)
      BY <3>1, JobStays DEF SegmentFails, Shutdown, Finalize, CloseRead, Policy, MarkQueued,
         WorkerPcs, Outcomes
    <3>2. CASE Release(w) \/ Ack(w) \/ FailRun(w) \/ Poll(w) \/ LeaseLost(w)
      BY <3>2 DEF Release, Ack, FailRun, Poll, LeaseLost, Only, Fresh, WorkersType
    <3> QED BY <1>7, <3>1, <3>2
  <2>2. UNCHANGED <<owner, cur, call, stopper, sweep, store, mq>>
    BY <1>7 DEF SegmentFails, Shutdown, Finalize, CloseRead, Release, Ack, Policy, MarkQueued,
       FailRun, Poll, LeaseLost
  <2> QED BY <2>1, <2>2 DEF OwnsWrites, Says
<1> QED BY <1>1, <1>2, <1>3, <1>4, <1>5, <1>6, <1>7 DEF Handle

\* A call writes only what is its run's own, and of that nothing before it is sent.
NotYet == {"idle", "admit", "busy", "hot", "install"}

CallWrites(c) ==
  /\ UNCHANGED <<stopper, sweep, open, job>>
  /\ \A d \in Calls : d # c => call'[d] = call[d]
  /\ call[c].pc \notin NotYet => call'[c].pc \notin NotYet
  /\ call[c].pc # "idle" => call'[c].run = call[c].run
  /\ cur' = cur \/ (cur' = call[c].run /\ call'[c].pc = "start")
  /\ \A r \in Runs : r # call[c].run => rec'[r] = rec[r]
  /\ Says({call[c].run})
  /\ \A j \in queue' : j \in queue \/ j.run = call[c].run
  /\ call'[c].pc \in NotYet => UNCHANGED <<cur, rec, messages, queue>>

LEMMA CallWritesOwn ==
  ASSUME IInv, NEW c \in Calls,
         (\E r \in Ids[c] : RunBegin(c, r)) \/ Dispatch(c) \/ RunThrows(c) \/ RunDies(c)
  PROVE  CallWrites(c)
<1> USE DEF IInv, TypeOK, ActorsType, CallOnly, CallGoes, NotYet, kv, store, mq, worker
<1>run. call[c].pc # "idle" => call[c].run \in Runs
  BY NamesAssumption DEF CallKnows
<1>1. ASSUME NEW r \in Ids[c], RunBegin(c, r) PROVE CallWrites(c)
  BY <1>1 DEF RunBegin, CallWrites, Says
<1>2. CASE RunAdmit(c) \/ RunHot(c)
  BY <1>2 DEF RunAdmit, RunHot, CallWrites, Says
<1>3. CASE RunInstall(c)
  BY <1>3 DEF RunInstall, CallWrites, Says
<1>4. CASE RunStart(c) \/ RunFail(c) \/ RunStopHot(c) \/ RunDies(c)
  BY <1>4 DEF RunStart, RunFail, RunStopHot, RunDies, CallWrites, Says, StoreType, Over
<1>5. CASE RunFailHot(c)
  BY <1>5 DEF RunFailHot, Patch, CallWrites, Says, StoreType
<1>6. ASSUME NEW at, NEW next \in {"append", "enqueue"}, at \notin NotYet, RunCheck(c, at, next)
      PROVE  CallWrites(c)
  BY <1>6 DEF RunCheck, RecordStopped, Patch, CallWrites, Says, StoreType
<1>7. CASE RunAppend(c)
  <2>1. [run |-> call[c].run, kind |-> "user"] \in AnyEntry
    BY <1>7, <1>run DEF RunAppend, AnyEntry, AnyRun, Entries
  <2> QED BY <1>7, <2>1 DEF RunAppend, CallWrites, Says
<1>8. CASE RunEnqueue(c) \/ RunThrows(c)
  BY <1>8 DEF RunEnqueue, RunThrows, Enqueue, Put, CallWrites, Says
<1> QED BY <1>1, <1>2, <1>3, <1>4, <1>5, <1>6, <1>7, <1>8 DEF Dispatch

\* A stop and a sweep write the run they name, and the thread's current run.
OthersWrites ==
  /\ UNCHANGED <<call, job, cur, owner>>
  /\ stopper'.run \in {stopper.run, cur, None}
  /\ sweep'.run \in {sweep.run, cur}
  /\ \A r \in Runs : r # stopper.run => rec'[r] = rec[r]
  /\ \A r \in Runs : r # cur => open'[r] = open[r]
  /\ Says({cur})
  /\ \A j \in queue' : j \in queue \/ j.run \in {cur, sweep.run}

LEMMA OthersWriteNamed ==
  ASSUME IInv, \/ StopRead \/ StopDies \/ Stopping
               \/ Respond \/ SweepFind \/ Sweeping \/ LockExpires \/ LockLapses
  PROVE  OthersWrites
<1> USE DEF IInv, TypeOK, ActorsType, StopOnly, StopGoes, SweepOnly, kv, store, mq, worker,
            thread, others
<1>1. CASE StopParks
  <2>1. Says({cur}) /\ \A r \in Runs : r # cur => open'[r] = open[r]
    BY <1>1, CloseParksSays DEF StopParks, Says
  <2> QED BY <1>1, <2>1 DEF StopParks, OthersWrites
<1>2. CASE StopRead \/ StopDies \/ StopCas \/ StopHot
  BY <1>2 DEF StopRead, StopDies, StopCas, StopHot, OthersWrites, Says
<1>7. CASE StopWhich
  <2>1. stopper'.run = cur
    BY <1>7 DEF StopWhich
  <2> QED BY <1>7, <2>1 DEF StopWhich, OthersWrites, Says
<1>6. CASE StopLease \/ StopRelease
  BY <1>6 DEF StopLease, StopRelease, OthersWrites, Says
<1>3. CASE StopRecord \/ StopSettle
  BY <1>3 DEF StopRecord, StopSettle, RecordStopped, Patch, SettleEnded, Settled, StoreType,
     OthersWrites, Says
<1>4. CASE Respond
  BY <1>4 DEF Respond, Put, OthersWrites, Says, StoreType
<1>5. CASE SweepFind \/ SweepEnqueue \/ SweepHeal \/ SweepHot \/ LockExpires \/ LockLapses
  BY <1>5 DEF SweepFind, SweepEnqueue, SweepHeal, SweepHot, LockExpires, LockLapses, Put,
     OthersWrites, Says
<1> QED BY <1>1, <1>2, <1>3, <1>4, <1>5, <1>6, <1>7 DEF Stopping, Sweeping

-------------------------------------------------------------------------------
\* A run that was not sent yet is nowhere.

Unsent(r) == \A c \in Calls : call[c].run = r => call[c].pc \in NotYet
NoRecord  == [state |-> "NONE", ended |-> FALSE, settled |-> FALSE]

Untouched(r) ==
  /\ cur # r /\ stopper.run # r /\ sweep.run # r
  /\ rec[r] = NoRecord /\ open[r] = "none"
  /\ \A j \in queue : j.run # r
  /\ \A w \in Workers : job[w].run # r
  /\ \A i \in DOMAIN messages : messages[i].run # r

Begins == \A r \in Runs : Unsent(r) => Untouched(r)

LEMMA SaysOthers ==
  ASSUME StoreType, NEW r, NEW who, r \notin who, Says(who),
         \A i \in DOMAIN messages : messages[i].run # r
  PROVE  \A i \in DOMAIN messages' : messages'[i].run # r
<1>1. CASE messages' = messages
  BY <1>1
<1>2. ASSUME NEW m \in AnyEntry, m.run \in who, messages' = Append(messages, m)
      PROVE  \A i \in DOMAIN messages' : messages'[i].run # r
  BY <1>2 DEF StoreType
<1> QED BY <1>1, <1>2 DEF Says

LEMMA WorkerTouches ==
  ASSUME IInv, NEW w \in Workers, OwnsWrites(w), NEW r \in Runs, Untouched(r)
  PROVE  Untouched(r)'
<1>1. Me(w) # r /\ cur # r
  BY DEF Untouched, Me
<1>2. \A i \in DOMAIN messages' : messages'[i].run # r
  BY <1>1, SaysOthers DEF IInv, TypeOK, OwnsWrites, Untouched
<1>3. \A v \in Workers : job'[v].run # r
  BY NamesAssumption DEF OwnsWrites, Untouched, NoJob
<1> QED BY <1>1, <1>2, <1>3 DEF OwnsWrites, Untouched

LEMMA OthersTouch ==
  ASSUME IInv, OthersWrites, NEW r \in Runs, Untouched(r)
  PROVE  Untouched(r)'
<1>1. \A i \in DOMAIN messages' : messages'[i].run # r
  BY SaysOthers DEF IInv, TypeOK, OthersWrites, Untouched
<1> QED BY <1>1, NamesAssumption DEF OthersWrites, Untouched

LEMMA BeginsKept ==
  ASSUME IInv, Begins, Next
  PROVE  Begins'
<1> SUFFICES ASSUME NEW r \in Runs, Unsent(r)' PROVE Untouched(r)'
  BY DEF Begins
<1>1. ASSUME NEW c \in Calls,
             (\E s \in Ids[c] : RunBegin(c, s)) \/ Dispatch(c) \/ RunThrows(c) \/ RunDies(c)
      PROVE  Untouched(r)'
  <2>1. CallWrites(c)
    BY <1>1, CallWritesOwn
  <2>2. Unsent(r)
    BY <2>1 DEF CallWrites, Unsent, NotYet
  <2>3. Untouched(r)
    BY <2>2 DEF Begins
  <2>4. CASE call'[c].pc \in NotYet
    BY <2>1, <2>3, <2>4 DEF CallWrites, Untouched
  <2>5. CASE call'[c].pc \notin NotYet
    <3>1. ASSUME NEW s \in Ids[c], RunBegin(c, s) PROVE FALSE
      BY <2>5, <3>1 DEF RunBegin, NotYet, IInv, TypeOK, ActorsType
    <3>2. call[c].pc # "idle"
      BY <1>1, <3>1, <2>5 DEF Dispatch, RunAdmit, RunHot, RunInstall, RunStart, RunCheck,
         RunAppend, RunEnqueue, RunStopHot, RunFail, RunFailHot, RunThrows, RunDies, NotYet, Over,
         IInv, TypeOK, ActorsType
    <3>3. call[c].run # r
      BY <2>1, <2>5, <3>2 DEF CallWrites, Unsent
    <3>4. \A i \in DOMAIN messages' : messages'[i].run # r
      BY <2>1, <2>3, <3>3, SaysOthers DEF IInv, TypeOK, CallWrites, Untouched
    <3> QED BY <2>1, <2>3, <3>3, <3>4 DEF CallWrites, Untouched
  <2> QED BY <2>4, <2>5
<1>2. CASE \/ StopRead \/ StopDies \/ Stopping
           \/ Respond \/ SweepFind \/ Sweeping \/ LockExpires \/ LockLapses
  <2>1. OthersWrites
    BY <1>2, OthersWriteNamed
  <2>2. Untouched(r)
    BY <2>1 DEF Begins, Unsent, OthersWrites
  <2> QED BY <2>1, <2>2, OthersTouch
<1>3. ASSUME NEW w \in Workers, Deliver(w) \/ Handle(w) \/ Poll(w) \/ DeadJob(w) \/ Refuse(w)
                                 \/ SegmentFails(w) \/ Shutdown(w) \/ LeaseLost(w) \/ WorkerDies(w)
      PROVE  Untouched(r)'
  <2>1. OwnsWrites(w)
    BY <1>3, WorkerWrites
  <2>2. Untouched(r)
    BY <2>1 DEF Begins, Unsent, OwnsWrites
  <2> QED BY <2>1, <2>2, WorkerTouches
<1> QED BY <1>1, <1>2, <1>3 DEF Next, System, Environment

LEMMA BeginsInductive == Spec => []Begins
<1>1. Init => Begins
  BY NamesAssumption, StartAssumption DEF Init, Begins, Untouched, NoRecord, NoJob
<1>2. Begins /\ UNCHANGED vars => Begins'
  BY DEF Begins, Unsent, Untouched, vars
<1>3. IInv /\ Begins /\ [Next]_vars => Begins'
  BY <1>2, BeginsKept
<1> QED BY Inductive, <1>1, <1>3, PTL DEF Spec

-------------------------------------------------------------------------------
\* Events are only ever counted up, and the thread moves under the run it has.

Grows == \A k \in Events : used'[k] = 0 => used[k] = 0

LEMMA SpendGrows ==
  ASSUME used \in [Events -> Nat], NEW k \in Events, Spend(k)
  PROVE  Grows /\ used'[k] # 0
BY DEF Grows, Spend

LEMMA SparedBefore ==
  ASSUME Grows, NEW kinds \in SUBSET Events, Spared(kinds)'
  PROVE  Spared(kinds)
BY DEF Grows, Spared

\* r may move the thread, which is going, and the thread stays its owner's.
MovedBy(r) ==
  /\ owner' = owner
  /\ state' = state \/ (state \in Active /\ (r = None \/ owner = None \/ owner = r))

LEMMA WorkerStands ==
  ASSUME IInv, NEW w \in Workers,
         Deliver(w) \/ Handle(w) \/ Poll(w) \/ DeadJob(w) \/ Refuse(w)
         \/ SegmentFails(w) \/ Shutdown(w) \/ LeaseLost(w) \/ WorkerDies(w)
  PROVE  /\ Grows
         /\ MovedBy(Me(w)) /\ (state' # state => Me(w) \in Runs)
<1> USE DEF IInv, TypeOK
<1>1. CASE Pickup(w) \/ Unpark(w) \/ Park(w) \/ MarkQueued(w) \/ Finalize(w) \/ FailRun(w)
  <2>1. job[w] \in Jobs /\ UNCHANGED <<owner, used>>
    BY <1>1 DEF Pickup, Unpark, Park, MarkQueued, Finalize, FailRun, WorkerKnows
  <2>2. state' = state \/ CanMove(Active, Me(w))
    BY <1>1 DEF Pickup, Unpark, Park, MarkQueued, Finalize, FailRun, CanMove, Active
  <2> QED BY <2>1, <2>2, JobRuns DEF MovedBy, CanMove, Grows
<1>2. CASE Deliver(w) \/ DeadJob(w) \/ Refuse(w) \/ SegmentFails(w) \/ Shutdown(w)
           \/ LeaseLost(w) \/ WorkerDies(w) \/ Early(w) \/ Model(w)
  <2>1. UNCHANGED used \/ \E k \in Events : Spend(k)
    BY <1>2 DEF Deliver, DeadJob, Refuse, SegmentFails, Shutdown, LeaseLost, WorkerDies, Early,
       Model, Events
  <2>2. UNCHANGED thread
    BY <1>2 DEF Deliver, DeadJob, Refuse, SegmentFails, Shutdown, LeaseLost, WorkerDies, Early,
       Model
  <2> QED BY <2>1, <2>2, SpendGrows DEF MovedBy, Grows, thread
<1>3. CASE LostRun(w) \/ Acquire(w) \/ Check(w) \/ Hot(w) \/ PickRecord(w) \/ Resume(w) \/ Land(w)
  BY <1>3 DEF LostRun, Acquire, Check, Hot, PickRecord, Resume, Land, MovedBy, Grows, thread
<1>4. CASE Commit(w) \/ Ask(w) \/ Parked(w) \/ LoopEnd(w) \/ CloseRead(w) \/ ClosePatch(w)
           \/ Release(w)
  BY <1>4 DEF Commit, Ask, Parked, LoopEnd, CloseRead, ClosePatch, Release, MovedBy, Grows, thread
<1>5. CASE Ack(w) \/ Redrive(w) \/ Policy(w) \/ QueueRecord(w) \/ Requeue(w) \/ FailSettle(w)
           \/ Poll(w)
  BY <1>5 DEF Ack, Redrive, Policy, QueueRecord, Requeue, FailSettle, Poll, MovedBy, Grows, thread
<1> QED BY <1>1, <1>2, <1>3, <1>4, <1>5 DEF Handle

LEMMA OthersStand ==
  ASSUME IInv, \/ StopRead \/ StopDies \/ Stopping
               \/ Respond \/ SweepFind \/ Sweeping \/ LockExpires \/ LockLapses
  PROVE  /\ Grows
         /\ \/ MovedBy(sweep.run) /\ (state' # state => sweep.run \in Runs)
            \/ MovedBy(stopper.run) /\ stopper.pc = "cas" /\ state' \in {state, "CANCELLED"}
<1> USE DEF IInv, TypeOK
<1>1. CASE StopCas
  BY <1>1 DEF StopCas, CanMove, MovedBy, Grows
<1>2. CASE SweepHeal
  BY <1>2 DEF SweepHeal, CanMove, MovedBy, Grows, SweepKnows
<1>3. CASE StopRead \/ StopDies \/ SweepFind \/ LockLapses
  <2>1. UNCHANGED thread /\ \E k \in Events : Spend(k)
    BY <1>3 DEF StopRead, StopDies, SweepFind, LockLapses, Events
  <2> QED BY <2>1, SpendGrows DEF MovedBy, thread
<1>4. CASE \/ StopWhich \/ StopHot \/ StopRecord \/ StopLease \/ StopSettle \/ StopRelease
           \/ StopParks
  BY <1>4 DEF StopWhich, StopHot, StopRecord, StopLease, StopSettle, StopRelease, StopParks,
     MovedBy, Grows, thread
<1>5. CASE Respond \/ SweepEnqueue \/ SweepHot \/ LockExpires
  BY <1>5 DEF Respond, SweepEnqueue, SweepHot, LockExpires, MovedBy, Grows, thread
<1> QED BY <1>1, <1>2, <1>3, <1>4, <1>5 DEF Stopping, Sweeping

\* A call claims an idle thread, or moves one that is its run's.
LEMMA CallStands ==
  ASSUME IInv, NEW c \in Calls,
         (\E r \in Ids[c] : RunBegin(c, r)) \/ Dispatch(c) \/ RunThrows(c) \/ RunDies(c)
  PROVE  /\ Grows
         /\ \/ /\ UNCHANGED thread
               /\ call'[c].pc \in {"hot", "install"} => call[c].pc \in {"hot", "install"}
            \/ /\ call[c].pc = "admit" /\ state \notin Active /\ call'[c].pc = "hot"
               /\ state' = "QUEUED" /\ owner' = call[c].run
            \/ MovedBy(call[c].run) /\ call[c].pc = "fail" /\ state' = "FAILED"
<1> USE DEF IInv, TypeOK, ActorsType, CallGoes
<1>1. CASE RunAdmit(c)
  BY <1>1 DEF RunAdmit, Admits, CallKnows, Grows, thread
<1>2. CASE RunFail(c)
  BY <1>2 DEF RunFail, CanMove, MovedBy, Active, Grows, thread
<1>3. CASE RunThrows(c) \/ RunDies(c)
  <2>1. UNCHANGED thread /\ \E k \in Events : Spend(k)
    BY <1>3 DEF RunThrows, RunDies, Events
  <2> QED BY <1>3, <2>1, SpendGrows DEF RunThrows, RunDies
<1>4. ASSUME NEW r \in Ids[c], RunBegin(c, r)
      PROVE  UNCHANGED thread /\ Grows /\ call'[c].pc \notin {"hot", "install"}
  BY <1>4 DEF RunBegin, Grows
<1>5. CASE \/ RunHot(c) \/ RunInstall(c) \/ RunStart(c) \/ RunCheck(c, "check1", "append")
           \/ RunAppend(c) \/ RunCheck(c, "check2", "enqueue") \/ RunEnqueue(c)
           \/ RunStopHot(c) \/ RunFailHot(c)
  <2>1. UNCHANGED thread /\ Grows
    BY <1>5 DEF RunHot, RunInstall, RunStart, RunCheck, RunAppend, RunEnqueue, RunStopHot,
       RunFailHot, Grows
  <2>2. CASE RunInstall(c)
    BY <2>2, <2>1 DEF RunInstall
  <2>3. CASE ~RunInstall(c)
    <3>1. \E p \in CallPcs : CallGoes(c, p) /\ (p = "install" => call[c].pc = "hot") /\ p # "hot"
      BY <1>5, <2>3 DEF RunHot, RunStart, RunCheck, RunAppend, RunEnqueue, RunStopHot,
         RunFailHot, CallPcs, Over
    <3> QED BY <2>1, <3>1
  <2> QED BY <2>2, <2>3
<1> QED BY <1>1, <1>2, <1>3, <1>4, <1>5 DEF Dispatch

LEMMA NextGrows ==
  ASSUME IInv, [Next]_vars
  PROVE  Grows
<1>1. CASE Next
  BY <1>1, WorkerStands, OthersStand, CallStands DEF Next, System, Environment
<1>2. CASE UNCHANGED vars
  BY <1>2 DEF vars, Grows
<1> QED BY <1>1, <1>2

LEMMA WritesStay ==
  ASSUME StoreType, NEW r \in Runs, rec[r].state # "NONE",
         \/ \E q \in Runs, s \in States, e \in BOOLEAN : Patch(q, s, e)
         \/ \E q : RecordStopped(q) \/ SettleEnded(q) \/ rec' = Settled(rec, q)
         \/ UNCHANGED rec
  PROVE  rec'[r].state # "NONE"
<1> USE DEF StoreType, States, Active, Terminal
<1>1. ASSUME NEW q, NEW s \in States, NEW e \in BOOLEAN, Patch(q, s, e) PROVE rec'[r].state # "NONE"
  <2>1. CASE q = r
    <3>1. rec'[r] = [[rec[r] EXCEPT !.state = s] EXCEPT !.ended = e]
      BY <1>1, <2>1 DEF Patch
    <3>2. rec'[r].state = s
      BY <3>1
    <3> QED BY <3>2
  <2>2. CASE q # r
    BY <1>1, <2>2 DEF Patch
  <2> QED BY <2>1, <2>2
<1>2. ASSUME NEW q, RecordStopped(q) PROVE rec'[r].state # "NONE"
  BY <1>1, <1>2 DEF RecordStopped
<1>3. ASSUME NEW q, SettleEnded(q) \/ rec' = Settled(rec, q) PROVE rec'[r].state # "NONE"
  BY <1>3 DEF SettleEnded, Settled
<1>4. CASE UNCHANGED rec
  BY <1>4
<1> QED BY <1>1, <1>2, <1>3, <1>4

\* A record that exists stays.
LEMMA RecordsStay ==
  ASSUME IInv, [Next]_vars, NEW r \in Runs, rec[r].state # "NONE"
  PROVE  rec'[r].state # "NONE"
<1> USE DEF IInv, TypeOK, store
<1>s. "CANCELLED" \in States /\ "FAILED" \in States /\ "RUNNING" \in States /\ "QUEUED" \in States
  BY DEF States, Active, Terminal
<1>1. ASSUME NEW c \in Calls,
             (\E s \in Ids[c] : RunBegin(c, s)) \/ Dispatch(c) \/ RunThrows(c) \/ RunDies(c)
      PROVE  rec'[r].state # "NONE"
  <2>1. CASE RunCheck(c, "check1", "append") \/ RunCheck(c, "check2", "enqueue")
    BY <2>1, WritesStay DEF RunCheck
  <2>3. CASE RunFailHot(c)
    BY <2>3, <1>s, NamesAssumption, WritesStay DEF RunFailHot, CallKnows
  <2>4. CASE RunStart(c)
    BY <2>4 DEF RunStart, StoreType
  <2>2. CASE \/ \E s \in Ids[c] : RunBegin(c, s)
             \/ RunAdmit(c) \/ RunHot(c) \/ RunInstall(c) \/ RunAppend(c) \/ RunEnqueue(c)
             \/ RunStopHot(c) \/ RunFail(c) \/ RunThrows(c) \/ RunDies(c)
    BY <2>2 DEF RunBegin, RunAdmit, RunHot, RunInstall, RunAppend, RunEnqueue, RunStopHot,
       RunFail, RunThrows, RunDies
  <2> QED BY <1>1, <2>1, <2>2, <2>3, <2>4 DEF Dispatch
<1>2. CASE \/ StopRead \/ StopDies \/ Stopping
           \/ Respond \/ SweepFind \/ Sweeping \/ LockExpires \/ LockLapses
  <2>1. CASE StopRecord \/ StopSettle \/ StopParks
    BY <2>1, WritesStay DEF StopRecord, StopSettle, StopParks
  <2>2. CASE StopRead \/ StopDies \/ StopWhich \/ StopCas \/ StopHot \/ StopLease \/ StopRelease
    BY <2>2 DEF StopRead, StopDies, StopWhich, StopCas, StopHot, StopLease, StopRelease
  <2>3. CASE Respond \/ SweepFind \/ Sweeping \/ LockExpires \/ LockLapses
    BY <2>3 DEF Respond, SweepFind, Sweeping, SweepEnqueue, SweepHeal, SweepHot, LockExpires,
       LockLapses
  <2> QED BY <1>2, <2>1, <2>2, <2>3 DEF Stopping
<1>3. ASSUME NEW w \in Workers, Deliver(w) \/ Handle(w) \/ Poll(w) \/ DeadJob(w) \/ Refuse(w)
                                 \/ SegmentFails(w) \/ Shutdown(w) \/ LeaseLost(w) \/ WorkerDies(w)
      PROVE  rec'[r].state # "NONE"
  <2>1. CASE Check(w) \/ PickRecord(w) \/ Early(w) \/ LoopEnd(w) \/ ClosePatch(w)
             \/ QueueRecord(w) \/ FailSettle(w)
    <3>1. job[w] \in Jobs /\ Me(w) \in Runs
      BY <2>1, JobRuns DEF Check, PickRecord, Early, LoopEnd, ClosePatch, QueueRecord, FailSettle,
         WorkerKnows
    <3>2. val[w] \in States /\ rec[Me(w)].ended \in BOOLEAN
      BY <3>1 DEF WorkersType, StoreType
    <3>3. CASE Check(w) \/ PickRecord(w) \/ QueueRecord(w)
      BY <1>s, <3>1, <3>2, <3>3, WritesStay DEF Check, PickRecord, QueueRecord
    <3>4. CASE ClosePatch(w)
      BY <1>s, <3>1, <3>2, <3>4, WritesStay DEF ClosePatch
    <3>5. CASE Early(w) \/ LoopEnd(w) \/ FailSettle(w)
      BY <3>5, WritesStay DEF Early, LoopEnd, FailSettle, Ends
    <3> QED BY <2>1, <3>3, <3>4, <3>5
  <2>2. CASE Deliver(w) \/ DeadJob(w) \/ Refuse(w) \/ LostRun(w) \/ Acquire(w) \/ Pickup(w)
             \/ Hot(w) \/ Resume(w) \/ Land(w) \/ Unpark(w)
    BY <2>2 DEF Deliver, DeadJob, Refuse, LostRun, Acquire, Pickup, Hot, Resume, Land, Unpark
  <2>3. CASE Model(w) \/ SegmentFails(w) \/ Shutdown(w) \/ Commit(w) \/ Park(w) \/ Ask(w)
             \/ Parked(w) \/ Finalize(w) \/ CloseRead(w)
    BY <2>3 DEF Model, SegmentFails, Shutdown, Commit, Park, Ask, Parked, Finalize, CloseRead
  <2>4. CASE Release(w) \/ Ack(w) \/ Redrive(w) \/ Policy(w) \/ MarkQueued(w) \/ Requeue(w)
             \/ FailRun(w) \/ Poll(w) \/ LeaseLost(w) \/ WorkerDies(w)
    BY <2>4 DEF Release, Ack, Redrive, Policy, MarkQueued, Requeue, FailRun, Poll, LeaseLost,
       WorkerDies
  <2> QED BY <1>3, <2>1, <2>2, <2>3, <2>4 DEF Handle
<1>4. CASE UNCHANGED vars
  BY <1>4 DEF vars
<1> QED BY <1>1, <1>2, <1>3, <1>4 DEF Next, System, Environment

-------------------------------------------------------------------------------
\* The thread's current run follows its owner.

\* A stop that is past reading the thread's run names one, if there is one.
StopNames ==
  /\ "IDLE" \notin StartStates =>
       cur # None /\ (stopper.pc \notin {"idle", "which", "dead"} => stopper.run # None)
  /\ Spared({"stop"}) => stopper.pc = "idle"

\* A thread claimed by a call that has not installed its run stays as it was claimed.
Reserved ==
  Named => \A c \in Calls : call[c].pc \in {"hot", "install"} =>
             owner = call[c].run /\ state = "QUEUED"

\* Such a call that failed has sent nothing.
NotSent(r) ==
  /\ Untouched(r)
  /\ \A c \in Calls : call[c].run = r =>
       call[c].pc \in NotYet \cup {"fail", "failhot", "refused", "dead"}

CurFollows ==
  Named /\ state \in Active =>
    owner \in Runs /\ (cur = owner \/ (state = "QUEUED" /\ NotSent(owner)))

\* While no call is killed and none fails, a claimed run is on its way to its record.
Claims(r, pcs) == \E c \in Calls : call[c].run = r /\ call[c].pc \in pcs

Reaches ==
  Named /\ Spared({"kill", "fault"}) /\ state \in Active =>
    \/ Claims(owner, {"hot", "install"})
    \/ cur = owner /\ (rec[owner].state # "NONE" \/ Claims(owner, {"start"}))

LEMMA StopNamesInit == Init => StopNames
BY NamesAssumption, StartAssumption DEF Init, StopNames, Terminal

LEMMA StopNamesKept ==
  ASSUME IInv, StopNames, [Next]_vars
  PROVE  StopNames'
<1> USE DEF IInv, TypeOK
<1>1. Spared({"stop"})' => Spared({"stop"})
  BY NextGrows, SparedBefore DEF Events
<1>2. ASSUME cur' = cur, UNCHANGED stopper PROVE StopNames'
  BY <1>1, <1>2 DEF StopNames
<1>3. ASSUME NEW c \in Calls,
             (\E r \in Ids[c] : RunBegin(c, r)) \/ Dispatch(c) \/ RunThrows(c) \/ RunDies(c)
      PROVE  StopNames'
  <2>1. CallWrites(c)
    BY <1>3, CallWritesOwn
  <2>2. CASE cur' = cur
    BY <1>2, <2>1, <2>2 DEF CallWrites
  <2>3. CASE cur' # cur
    <3>1. RunInstall(c)
      BY <1>3, <2>3 DEF RunBegin, Dispatch, RunAdmit, RunHot, RunStart, RunCheck, RunAppend,
         RunEnqueue, RunStopHot, RunFail, RunFailHot, RunThrows, RunDies, kv
    <3>2. cur' \in Runs
      BY <3>1, NamesAssumption DEF RunInstall, CallKnows
    <3> QED BY <1>1, <2>1, <3>2, NamesAssumption DEF StopNames, CallWrites
  <2> QED BY <2>2, <2>3
<1>4. CASE Respond \/ SweepFind \/ Sweeping \/ LockExpires \/ LockLapses
  BY <1>2, <1>4 DEF Respond, SweepFind, Sweeping, SweepEnqueue, SweepHeal, SweepHot, LockExpires,
     LockLapses, SweepOnly, others, kv
<1>5. CASE StopRead
  <2>1. Spend("stop") /\ cur' = cur /\ stopper'.pc = "which"
    BY <1>5 DEF StopRead, kv
  <2>2. ~Spared({"stop"})'
    BY <2>1, SpendGrows DEF Spared, Events
  <2> QED BY <2>1, <2>2 DEF StopNames
<1>6. CASE StopWhich
  <2>1. cur' = cur /\ stopper'.run = cur /\ stopper.pc # "idle"
    BY <1>6 DEF StopWhich, kv, ActorsType
  <2> QED BY <1>1, <2>1 DEF StopNames
<1>7. CASE \/ StopCas \/ StopHot \/ StopRecord \/ StopLease \/ StopSettle \/ StopRelease
           \/ StopParks \/ StopDies
  <2>1. cur' = cur /\ stopper'.run = stopper.run /\ stopper.pc # "idle"
        /\ (stopper'.pc \notin {"idle", "which", "dead"} => stopper.pc \notin {"idle", "which", "dead"})
    BY <1>7 DEF StopCas, StopHot, StopRecord, StopLease, StopSettle, StopRelease, StopParks,
       StopDies, StopGoes, kv, ActorsType
  <2> QED BY <1>1, <2>1 DEF StopNames
<1>8. ASSUME NEW w \in Workers, Deliver(w) \/ Handle(w) \/ Poll(w) \/ DeadJob(w) \/ Refuse(w)
                                 \/ SegmentFails(w) \/ Shutdown(w) \/ LeaseLost(w) \/ WorkerDies(w)
      PROVE  StopNames'
  BY <1>2, <1>8, WorkerWrites DEF OwnsWrites
<1>9. CASE UNCHANGED vars
  BY <1>2, <1>9 DEF vars
<1> QED BY <1>3, <1>4, <1>5, <1>6, <1>7, <1>8, <1>9 DEF Next, System, Environment, Stopping

Follows == StopNames /\ Reserved /\ CurFollows /\ Reaches

\* A run that one call has begun is no other call's.
LEMMA OwnRuns ==
  ASSUME IInv, OwnIdsOnly, NEW c \in Calls, NEW d \in Calls, c # d,
         call[c].pc # "idle", call[d].pc # "idle"
  PROVE  call[c].run # call[d].run
BY DEF IInv, CallKnows, OwnIdsOnly

LEMMA ReservedUntouched ==
  ASSUME IInv, OwnIdsOnly, Begins, NEW c \in Calls, call[c].pc \in {"admit", "hot", "install"}
  PROVE  call[c].run \in Runs /\ call[c].run # None /\ Untouched(call[c].run)
<1>1. call[c].run \in Runs
  BY NamesAssumption DEF IInv, CallKnows
<1>2. Unsent(call[c].run)
  BY OwnRuns DEF Unsent, NotYet
<1> QED BY <1>1, <1>2, NamesAssumption DEF Begins

LEMMA NamedBefore ==
  ASSUME IInv, [Next]_vars
  PROVE  /\ Named' => Named
         /\ Spared({"kill", "fault"})' => Spared({"kill", "fault"})
BY NextGrows, SparedBefore DEF Named, Events

\* Deliveries, stops and the sweep leave alone a thread whose run was not sent.
LEMMA UntouchedStands ==
  ASSUME IInv, StopNames, Named, owner \in Runs, Untouched(owner),
         \/ \/ StopRead \/ StopDies \/ Stopping
            \/ Respond \/ SweepFind \/ Sweeping \/ LockExpires \/ LockLapses
         \/ \E w \in Workers : \/ Deliver(w) \/ Handle(w) \/ Poll(w) \/ DeadJob(w) \/ Refuse(w)
                                \/ SegmentFails(w) \/ Shutdown(w) \/ LeaseLost(w) \/ WorkerDies(w)
  PROVE  UNCHANGED thread
<1>1. owner # None /\ owner # stopper.run /\ owner # sweep.run
      /\ \A w \in Workers : owner # Me(w)
  BY NamesAssumption DEF Untouched, Me
<1>2. CASE MovedBy(sweep.run) /\ (state' # state => sweep.run \in Runs)
  BY <1>1, <1>2, NamesAssumption DEF MovedBy, thread
<1>3. CASE MovedBy(stopper.run) /\ stopper.pc = "cas"
  <2>1. stopper.run # None
    BY <1>3 DEF StopNames, Named
  <2> QED BY <1>1, <1>3, <2>1 DEF MovedBy, thread
<1>4. ASSUME NEW w \in Workers, MovedBy(Me(w)), state' # state => Me(w) \in Runs
      PROVE  UNCHANGED thread
  BY <1>1, <1>4, NamesAssumption DEF MovedBy, thread
<1> QED BY <1>2, <1>3, <1>4, WorkerStands, OthersStand

LEMMA ReservedKept ==
  ASSUME IInv, OwnIdsOnly, Begins, Follows, [Next]_vars
  PROVE  Reserved'
<1> USE DEF Follows
<1> SUFFICES ASSUME Named', NEW c \in Calls, call'[c].pc \in {"hot", "install"}
             PROVE  owner' = call'[c].run /\ state' = "QUEUED"
  BY DEF Reserved
<1>1. Named
  BY NamedBefore
<1>2. ASSUME call[c].pc \in {"hot", "install"}
      PROVE  /\ owner = call[c].run /\ state = "QUEUED" /\ owner # None
             /\ call[c].run \in Runs /\ Untouched(call[c].run)
  BY <1>1, <1>2, ReservedUntouched DEF Reserved
<1>3. ASSUME NEW d \in Calls,
             (\E r \in Ids[d] : RunBegin(d, r)) \/ Dispatch(d) \/ RunThrows(d) \/ RunDies(d)
      PROVE  owner' = call'[c].run /\ state' = "QUEUED"
  <2>1. CallWrites(d)
    BY <1>3, CallWritesOwn
  <2>2. CASE UNCHANGED thread /\ (call'[d].pc \in {"hot", "install"} => call[d].pc \in {"hot", "install"})
    <3>1. call[c].pc \in {"hot", "install"} /\ call'[c].run = call[c].run
      BY <2>1, <2>2 DEF CallWrites
    <3> QED BY <1>2, <2>2, <3>1 DEF thread
  <2>3. CASE /\ call[d].pc = "admit" /\ state \notin Active /\ call'[d].pc = "hot"
             /\ state' = "QUEUED" /\ owner' = call[d].run
    <3>1. CASE c = d
      BY <2>1, <2>3, <3>1 DEF CallWrites
    <3>2. CASE c # d
      BY <1>2, <2>1, <2>3, <3>2 DEF CallWrites, Active
    <3> QED BY <3>1, <3>2
  <2>4. CASE MovedBy(call[d].run) /\ call[d].pc = "fail" /\ state' = "FAILED"
    <3>1. c # d
      BY <2>1, <2>4 DEF CallWrites, NotYet
    <3>2. call[c].pc \in {"hot", "install"}
      BY <2>1, <3>1 DEF CallWrites
    <3>3. call[d].run # call[c].run /\ call[d].run \in Runs
      BY <2>4, <3>1, <3>2, OwnRuns, NamesAssumption DEF IInv, CallKnows
    <3> QED BY <1>2, <2>4, <3>2, <3>3, NamesAssumption DEF MovedBy
  <2> QED BY <1>3, <2>2, <2>3, <2>4, CallStands
<1>4. CASE \/ StopRead \/ StopDies \/ Stopping
           \/ Respond \/ SweepFind \/ Sweeping \/ LockExpires \/ LockLapses
  <2>1. call' = call
    BY <1>4, OthersWriteNamed DEF OthersWrites
  <2> QED BY <1>1, <1>2, <1>4, <2>1, UntouchedStands DEF thread
<1>5. ASSUME NEW w \in Workers, Deliver(w) \/ Handle(w) \/ Poll(w) \/ DeadJob(w) \/ Refuse(w)
                                 \/ SegmentFails(w) \/ Shutdown(w) \/ LeaseLost(w) \/ WorkerDies(w)
      PROVE  owner' = call'[c].run /\ state' = "QUEUED"
  <2>1. call' = call
    BY <1>5, WorkerWrites DEF OwnsWrites
  <2> QED BY <1>1, <1>2, <1>5, <2>1, UntouchedStands DEF thread
<1>6. CASE UNCHANGED vars
  BY <1>2, <1>6 DEF vars
<1> QED BY <1>3, <1>4, <1>5, <1>6 DEF Next, System, Environment

\* What NotSent asks of the calls is kept by a call that does not install its run.
LEMMA NotSentKept ==
  ASSUME IInv, OwnIdsOnly, [Next]_vars, NEW r \in Runs, NotSent(r), cur' # r
  PROVE  NotSent(r)'
<1>1. ASSUME NEW c \in Calls,
             (\E s \in Ids[c] : RunBegin(c, s)) \/ Dispatch(c) \/ RunThrows(c) \/ RunDies(c)
      PROVE  NotSent(r)'
  <2>1. CallWrites(c)
    BY <1>1, CallWritesOwn
  <2>2. CASE call[c].run # r \/ call[c].pc = "idle"
    <3>1. CASE call[c].pc = "idle"
      <4>1. call'[c].pc \in NotYet
        BY <1>1, <3>1 DEF Dispatch, RunBegin, RunAdmit, RunHot, RunInstall, RunStart, RunCheck,
           RunAppend, RunEnqueue, RunStopHot, RunFail, RunFailHot, RunThrows, RunDies, NotYet,
           Over, IInv, TypeOK, ActorsType
      <4> QED BY <2>1, <4>1 DEF CallWrites, NotSent, Untouched
    <3>2. CASE call[c].pc # "idle"
      <4>1. call[c].run # r
        BY <2>2, <3>2
      <4>2. \A i \in DOMAIN messages' : messages'[i].run # r
        BY <2>1, <4>1, SaysOthers DEF IInv, TypeOK, CallWrites, NotSent, Untouched
      <4> QED BY <2>1, <3>2, <4>1, <4>2 DEF CallWrites, NotSent, Untouched
    <3> QED BY <3>1, <3>2
  <2>3. CASE call[c].run = r /\ call[c].pc # "idle"
    <3>1. call[c].pc \in NotYet \cup {"fail", "failhot", "refused", "dead"}
      BY <2>3 DEF NotSent
    <3>2. ~RunInstall(c)
      BY <2>3 DEF RunInstall
    <3>3. \E p \in NotYet \cup {"fail", "failhot", "refused", "dead"} : CallGoes(c, p)
      BY <1>1, <2>3, <3>1, <3>2 DEF Dispatch, RunBegin, RunAdmit, RunHot, RunStart, RunCheck,
         RunAppend, RunEnqueue, RunStopHot, RunFail, RunFailHot, RunThrows, RunDies, NotYet
    <3>4. UNCHANGED <<cur, stopper, sweep, open, queue, job, messages>>
      BY <1>1, <3>1, <3>2 DEF Dispatch, RunBegin, RunAdmit, RunHot, RunStart, RunCheck,
         RunAppend, RunEnqueue, RunStopHot, RunFail, RunFailHot, RunThrows, RunDies, NotYet,
         CallOnly, worker, store, kv, mq
    <3>5. rec'[r] = rec[r]
      <4>1. CASE RunFailHot(c)
        <5>1. rec[r].state = "NONE" /\ rec \in [Runs -> [state : States \cup {"NONE"},
                                                      ended : BOOLEAN, settled : BOOLEAN]]
          BY DEF NotSent, Untouched, NoRecord, IInv, TypeOK, StoreType
        <5> QED BY <2>3, <4>1, <5>1 DEF RunFailHot, Patch
      <4>2. CASE ~RunFailHot(c)
        BY <1>1, <2>3, <3>1, <3>2, <4>2 DEF Dispatch, RunBegin, RunAdmit, RunHot, RunStart,
           RunCheck, RunAppend, RunEnqueue, RunStopHot, RunFail, RunThrows, RunDies, NotYet, store
      <4> QED BY <4>1, <4>2
    <3>6. \A d \in Calls : call'[d].run = r =>
            call'[d].pc \in NotYet \cup {"fail", "failhot", "refused", "dead"}
      BY <2>1, <3>3 DEF NotSent, CallGoes, CallWrites, IInv, TypeOK, ActorsType
    <3> QED BY <3>4, <3>5, <3>6 DEF NotSent, Untouched
  <2> QED BY <2>2, <2>3
<1>2. CASE \/ StopRead \/ StopDies \/ Stopping
           \/ Respond \/ SweepFind \/ Sweeping \/ LockExpires \/ LockLapses
  BY <1>2, OthersWriteNamed, OthersTouch DEF NotSent, OthersWrites
<1>3. ASSUME NEW w \in Workers, Deliver(w) \/ Handle(w) \/ Poll(w) \/ DeadJob(w) \/ Refuse(w)
                                 \/ SegmentFails(w) \/ Shutdown(w) \/ LeaseLost(w) \/ WorkerDies(w)
      PROVE  NotSent(r)'
  BY <1>3, WorkerWrites, WorkerTouches DEF NotSent, OwnsWrites
<1>4. CASE UNCHANGED vars
  BY <1>4 DEF vars, NotSent, Untouched
<1> QED BY <1>1, <1>2, <1>3, <1>4 DEF Next, System, Environment

\* The thread's current run changes where a call installs its own.
LEMMA CurInstalled ==
  ASSUME IInv, [Next]_vars, cur' # cur
  PROVE  \E c \in Calls : call[c].pc = "install" /\ cur' = call[c].run /\ call'[c].pc = "start"
                          /\ UNCHANGED thread
<1>1. ASSUME NEW c \in Calls,
             (\E r \in Ids[c] : RunBegin(c, r)) \/ Dispatch(c) \/ RunThrows(c) \/ RunDies(c)
      PROVE  RunInstall(c)
  BY <1>1 DEF RunBegin, Dispatch, RunAdmit, RunHot, RunStart, RunCheck, RunAppend,
     RunEnqueue, RunStopHot, RunFail, RunFailHot, RunThrows, RunDies, kv
<1>2. ASSUME NEW c \in Calls, RunInstall(c)
      PROVE  call[c].pc = "install" /\ cur' = call[c].run /\ UNCHANGED thread /\ call'[c].pc = "start"
  <2>1. call'[c].pc = "start"
    BY <1>2, CallWritesOwn DEF Dispatch, CallWrites, RunInstall, IInv, TypeOK, ActorsType
  <2> QED BY <1>2, <2>1 DEF RunInstall
<1>3. CASE \/ StopRead \/ StopDies \/ Stopping
           \/ Respond \/ SweepFind \/ Sweeping \/ LockExpires \/ LockLapses
  BY <1>3, OthersWriteNamed DEF OthersWrites
<1>4. ASSUME NEW w \in Workers, Deliver(w) \/ Handle(w) \/ Poll(w) \/ DeadJob(w) \/ Refuse(w)
                                 \/ SegmentFails(w) \/ Shutdown(w) \/ LeaseLost(w) \/ WorkerDies(w)
      PROVE  FALSE
  BY <1>4, WorkerWrites DEF OwnsWrites
<1> QED BY <1>1, <1>2, <1>3, <1>4 DEF Next, System, Environment, vars

\* A thread that is going was going, or a call claims it.
LEMMA Goes ==
  ASSUME IInv, [Next]_vars, state' \in Active
  PROVE  \/ state \in Active /\ owner' = owner
         \/ \E c \in Calls : /\ call[c].pc = "admit" /\ call'[c].pc = "hot"
                             /\ call'[c].run = call[c].run
                             /\ state' = "QUEUED" /\ owner' = call[c].run /\ cur' = cur
<1>1. ASSUME NEW c \in Calls,
             (\E r \in Ids[c] : RunBegin(c, r)) \/ Dispatch(c) \/ RunThrows(c) \/ RunDies(c),
             call[c].pc = "admit", call'[c].pc = "hot"
      PROVE  call'[c].run = call[c].run /\ cur' = cur
  BY <1>1, CallWritesOwn DEF CallWrites, NotYet
<1>2. ASSUME NEW c \in Calls,
             (\E r \in Ids[c] : RunBegin(c, r)) \/ Dispatch(c) \/ RunThrows(c) \/ RunDies(c)
      PROVE  \/ state \in Active /\ owner' = owner
             \/ /\ call[c].pc = "admit" /\ call'[c].pc = "hot"
                /\ state' = "QUEUED" /\ owner' = call[c].run
  BY <1>2, CallStands DEF thread, Active
<1>3. CASE \/ StopRead \/ StopDies \/ Stopping
           \/ Respond \/ SweepFind \/ Sweeping \/ LockExpires \/ LockLapses
  BY <1>3, OthersStand DEF MovedBy
<1>4. ASSUME NEW w \in Workers, Deliver(w) \/ Handle(w) \/ Poll(w) \/ DeadJob(w) \/ Refuse(w)
                                 \/ SegmentFails(w) \/ Shutdown(w) \/ LeaseLost(w) \/ WorkerDies(w)
      PROVE  state \in Active /\ owner' = owner
  BY <1>4, WorkerStands DEF MovedBy
<1>5. CASE UNCHANGED vars
  BY <1>5 DEF vars
<1> QED BY <1>1, <1>2, <1>3, <1>4, <1>5 DEF Next, System, Environment

LEMMA CurFollowsKept ==
  ASSUME IInv, OwnIdsOnly, Begins, Follows, [Next]_vars
  PROVE  CurFollows'
<1> USE DEF Follows
<1> SUFFICES ASSUME Named', state' \in Active
             PROVE  owner' \in Runs /\ (cur' = owner' \/ (state' = "QUEUED" /\ NotSent(owner)'))
  BY DEF CurFollows
<1>1. Named
  BY NamedBefore
<1>2. ASSUME state \in Active, owner' = owner, cur' = cur
      PROVE  owner' \in Runs /\ (cur' = owner' \/ (state' = "QUEUED" /\ NotSent(owner)'))
  <2>1. CASE cur = owner
    BY <1>1, <1>2, <2>1 DEF CurFollows
  <2>2. CASE cur # owner
    <3>1. owner \in Runs /\ state = "QUEUED" /\ NotSent(owner)
      BY <1>1, <1>2, <2>2 DEF CurFollows
    <3>2. NotSent(owner)'
      BY <1>2, <2>2, <3>1, NotSentKept
    <3>3. ASSUME NEW c \in Calls,
                 (\E r \in Ids[c] : RunBegin(c, r)) \/ Dispatch(c) \/ RunThrows(c) \/ RunDies(c)
          PROVE  state' = "QUEUED"
      BY <3>1, <3>3, CallStands DEF thread, Active, Terminal
    <3>4. UNCHANGED vars => state' = "QUEUED"
      BY <3>1 DEF vars
    <3>5. state' = "QUEUED"
      BY <1>1, <3>1, <3>3, <3>4, UntouchedStands DEF NotSent, thread, Next, System, Environment
    <3> QED BY <1>2, <3>1, <3>2, <3>5
  <2> QED BY <2>1, <2>2
<1>3. ASSUME NEW c \in Calls, call[c].pc = "install", cur' = call[c].run, UNCHANGED thread
      PROVE  owner' \in Runs /\ cur' = owner'
  BY <1>1, <1>3, NamesAssumption DEF Reserved, thread, IInv, CallKnows
<1>4. ASSUME NEW c \in Calls, call[c].pc = "admit", call'[c].pc = "hot",
             call'[c].run = call[c].run, owner' = call[c].run, cur' = cur
      PROVE  owner' \in Runs /\ NotSent(owner)'
  <2> DEFINE r == call[c].run
  <2>1. r \in Runs /\ Untouched(r)
    BY <1>4, ReservedUntouched
  <2>2. NotSent(r)
    <3>1. \A d \in Calls : call[d].run = r => call[d].pc \in NotYet
      BY <1>4, OwnRuns DEF NotYet
    <3> QED BY <2>1, <3>1 DEF NotSent
  <2>3. NotSent(r)'
    BY <1>4, <2>1, <2>2, NotSentKept DEF Untouched
  <2> QED BY <1>4, <2>1, <2>3 DEF NotSent, Untouched
<1> QED BY <1>2, <1>3, <1>4, Goes, CurInstalled

\* A call whose process lives goes on from its claim to its record.
LEMMA ClaimGoesOn ==
  ASSUME IInv, OwnIdsOnly, [Next]_vars, Spared({"kill", "fault"})', NEW c \in Calls
  PROVE  /\ call[c].pc # "idle" => call'[c].run = call[c].run
         /\ call[c].pc = "hot" => call'[c].pc \in {"hot", "install"}
         /\ call[c].pc = "install" =>
              call'[c].pc = "install" \/ (call'[c].pc = "start" /\ cur' = call[c].run)
         /\ call[c].pc = "start" => call'[c].pc = "start" \/ rec'[call[c].run].state # "NONE"
<1> USE DEF IInv, TypeOK, ActorsType
<1>1. ASSUME NEW d \in Calls,
             (\E r \in Ids[d] : RunBegin(d, r)) \/ Dispatch(d) \/ RunThrows(d) \/ RunDies(d), d # c
      PROVE  call'[c] = call[c]
  BY <1>1, CallWritesOwn DEF CallWrites
<1>2. ~RunThrows(c) /\ ~RunDies(c)
  BY SpendGrows DEF RunThrows, RunDies, Spared, Events
<1>3. CASE Dispatch(c)
  <2>1. call'[c].run = call[c].run
    BY <1>3, CallWritesOwn DEF CallWrites, Dispatch, RunAdmit, RunHot, RunInstall, RunStart,
       RunCheck, RunAppend, RunEnqueue, RunStopHot, RunFail, RunFailHot
  <2>2. CASE call[c].pc = "hot"
    BY <1>3, <2>1, <2>2 DEF CallGoes, Dispatch, RunAdmit, RunHot, RunInstall, RunStart,
       RunCheck, RunAppend, RunEnqueue, RunStopHot, RunFail, RunFailHot
  <2>3. CASE call[c].pc = "install"
    <3>1. RunInstall(c)
      BY <1>3, <2>3 DEF Dispatch, RunAdmit, RunHot, RunInstall, RunStart,
         RunCheck, RunAppend, RunEnqueue, RunStopHot, RunFail, RunFailHot
    <3> QED BY <2>1, <2>3, <3>1 DEF RunInstall
  <2>4. CASE call[c].pc = "start"
    <3>1. RunStart(c)
      BY <1>3, <2>4 DEF Dispatch, RunAdmit, RunHot, RunInstall, RunStart,
         RunCheck, RunAppend, RunEnqueue, RunStopHot, RunFail, RunFailHot
    <3>2. call[c].run \in Runs
      BY <2>4, NamesAssumption DEF CallKnows
    <3> QED BY <2>1, <2>4, <3>1, <3>2 DEF RunStart, StoreType
  <2> QED BY <2>1, <2>2, <2>3, <2>4
<1>4. CASE \E r \in Ids[c] : RunBegin(c, r)
  BY <1>4 DEF RunBegin
<1>5. CASE \/ StopRead \/ StopDies \/ Stopping
           \/ Respond \/ SweepFind \/ Sweeping \/ LockExpires \/ LockLapses
  BY <1>5, OthersWriteNamed DEF OthersWrites
<1>6. ASSUME NEW w \in Workers, Deliver(w) \/ Handle(w) \/ Poll(w) \/ DeadJob(w) \/ Refuse(w)
                                 \/ SegmentFails(w) \/ Shutdown(w) \/ LeaseLost(w) \/ WorkerDies(w)
      PROVE  call' = call
  BY <1>6, WorkerWrites DEF OwnsWrites
<1>7. CASE UNCHANGED vars
  BY <1>7 DEF vars
<1> QED BY <1>1, <1>2, <1>3, <1>4, <1>5, <1>6, <1>7 DEF Next, System, Environment

LEMMA ReachesKept ==
  ASSUME IInv, OwnIdsOnly, Begins, Follows, [Next]_vars
  PROVE  Reaches'
<1> USE DEF Follows
<1> SUFFICES ASSUME Named', Spared({"kill", "fault"})', state' \in Active
             PROVE  \/ Claims(owner, {"hot", "install"})'
                    \/ cur' = owner' /\ (rec'[owner'].state # "NONE" \/ Claims(owner, {"start"})')
  BY DEF Reaches
<1>1. Named /\ Spared({"kill", "fault"})
  BY NamedBefore
<1>2. CASE state \in Active /\ owner' = owner
  <2>1. owner \in Runs
    BY <1>1, <1>2 DEF CurFollows
  <2>2. ASSUME NEW c \in Calls, call[c].run = owner, call[c].pc \in {"hot", "install"}
        PROVE  \/ Claims(owner, {"hot", "install"})'
               \/ cur' = owner' /\ Claims(owner, {"start"})'
    BY <1>2, <2>2, ClaimGoesOn DEF Claims
  <2>3. CASE cur = owner
    <3>1. cur' = owner'
      BY <1>1, <1>2, <2>3, CurInstalled DEF Reserved
    <3>2. ASSUME NEW c \in Calls, call[c].run = owner, call[c].pc = "start"
          PROVE  rec'[owner].state # "NONE" \/ Claims(owner, {"start"})'
      BY <1>2, <3>2, ClaimGoesOn DEF Claims
    <3>3. rec[owner].state # "NONE" => rec'[owner].state # "NONE"
      BY <2>1, RecordsStay
    <3>4. \/ Claims(owner, {"hot", "install"})
          \/ rec[owner].state # "NONE" \/ Claims(owner, {"start"})
      BY <1>1, <1>2 DEF Reaches
    <3> QED BY <1>2, <2>2, <3>1, <3>2, <3>3, <3>4 DEF Claims
  <2> QED BY <1>1, <1>2, <2>2, <2>3 DEF Reaches, Claims
<1>3. ASSUME NEW c \in Calls, call'[c].pc = "hot", call'[c].run = call[c].run, owner' = call[c].run
      PROVE  Claims(owner, {"hot", "install"})'
  BY <1>3 DEF Claims
<1> QED BY <1>2, <1>3, Goes

LEMMA FollowsInductive ==
  ASSUME OwnIdsOnly
  PROVE  Spec => []Follows
<1>1. Init => Follows
  <2>1. Init => state \notin Active /\ \A c \in Calls : call[c].pc = "idle"
    BY StartAssumption DEF Init, Active, Terminal
  <2>2. Init => Reserved /\ CurFollows /\ Reaches
    BY <2>1 DEF Reserved, CurFollows, Reaches
  <2> QED BY <2>2, StopNamesInit DEF Follows
<1>2. IInv /\ Begins /\ Follows /\ [Next]_vars => Follows'
  BY StopNamesKept, ReservedKept, CurFollowsKept, ReachesKept DEF Follows
<1> QED BY Inductive, BeginsInductive, <1>1, <1>2, PTL DEF Spec

\* While no process that sends a run is killed and none of its writes throws, a thread
\* that is queued or running is never out of reach: somebody will move it on, or the
\* thread names its run and the run has a record, so that reclaimIfOrphaned can put it
\* back on the queue (reclaim.ts), however many workers and stops die.
THEOREM NeverOutOfReach ==
  ASSUME OwnIdsOnly
  PROVE  Spec => []Recoverable
<1>1. Follows => Recoverable
  <2> SUFFICES ASSUME Follows, Named, Spared({"kill", "fault"}), state \in {"QUEUED", "RUNNING"}
               PROVE  Tended \/ (cur = owner /\ rec[owner].state # "NONE")
    BY DEF Recoverable
  <2>1. Claims(owner, {"hot", "install", "start"}) => Dispatching(owner)
    BY DEF Claims, Dispatching, Over
  <2> QED BY <2>1 DEF Follows, Reaches, Active, Claims, Tended
<1> QED BY FollowsInductive, <1>1, PTL
=============================================================================
