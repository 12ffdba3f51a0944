----------------------- MODULE RunLifecycleProperties -----------------------
(***************************************************************************)
(* What the run lifecycle of a thread must guarantee.                      *)
(***************************************************************************)
EXTENDS RunLifecycle

WorkerPcs == {"idle", "dead", "acquire", "lostrun", "check", "pickup", "hot", "pickrec",
              "resume", "land", "unpark", "early", "model", "commit", "park", "ask",
              "parked", "loopend", "finalize", "close", "closing", "release", "ack",
              "redrive", "policy", "markqueued", "queuerec", "requeue", "settle", "failrun"}
CallPcs   == Over \cup {"idle", "admit", "hot", "install", "start", "check1", "append",
                        "check2", "enqueue", "stophot", "fail", "failhot"}
StopPcs   == {"idle", "dead", "which", "cas", "hot", "record", "lease", "leased", "release", "parks"}
SweepPcs  == {"idle", "enqueue", "heal", "hot"}
Outcomes  == {"executed", "conflict", "stale", "lost", "error", "permanent", "shutdown", "dead"}
Entries   == {"user", "tool", "call", "result", "answer"}
AnyRun    == Runs \cup {OldRun, None}

ThreadType == state \in States /\ owner \in AnyRun

KvType ==
  /\ hot \in States /\ cur \in AnyRun
  /\ lock \in [run : Runs \cup {None}, id : 0..MaxJobs, by : Workers \cup {Stop, None}]
  /\ attempts \in [Runs -> Nat] /\ redrives \in [Runs -> 0..MaxRedrives]

StoreType ==
  /\ rec \in [Runs -> [state : States \cup {"NONE"}, ended : BOOLEAN, settled : BOOLEAN]]
  /\ messages \in Seq([run : AnyRun, kind : Entries])
  /\ open \in [Runs -> {"none", "asked", "answered"}]

QueueType == queue \subseteq Jobs /\ lastJob \in 0..MaxJobs

ActorsType ==
  /\ call \in [Calls -> [pc : CallPcs, run : Runs \cup {None}, seen : States, prev : AnyRun]]
  /\ stopper \in [pc : StopPcs, run : AnyRun, seen : AnyRun, parked : BOOLEAN]
  /\ sweep \in [pc : SweepPcs, run : Runs \cup {None}, val : Terminal]

WorkersType ==
  /\ pc \in [Workers -> WorkerPcs] /\ job \in [Workers -> Jobs \cup {NoJob}]
  /\ out \in [Workers -> Outcomes]
  /\ aborted \in [Workers -> BOOLEAN] /\ lost \in [Workers -> BOOLEAN]
  /\ val \in [Workers -> States]
  /\ then \in [Workers -> WorkerPcs \cup {"tool", "answer", "park", "stop"}]
  /\ prior \in [Workers -> States \cup {"NONE"}] /\ steps \in [Workers -> 0..MaxSteps]

\* Every variable holds what the code can put there: thread states of
\* types.ts, run ids that exist or none, one lock value at a time, counters
\* within the limits of the configuration.
TypeOK ==
  /\ ThreadType /\ KvType /\ StoreType /\ QueueType /\ ActorsType /\ WorkersType
  /\ used \in [Events -> Nat]

-------------------------------------------------------------------------------
\* The run lock.

\* A worker between its acquire and its release.
Leased(w) ==
  \/ pc[w] \in {"check", "pickup", "pickrec", "resume", "land", "unpark", "early", "model",
                "commit", "park", "ask", "parked", "loopend", "finalize", "release"}
  \/ pc[w] \in {"hot", "close", "closing", "settle", "failrun"} /\ out[w] \in {"executed", "dead"}

StopLeased == stopper.pc \in {"leased", "release"}

\* A holder gives the lock back itself, or loses it because it died, gave its
\* lease up or stalled past it: nobody frees a lock that another took since, the
\* stalled holder that wakes up included (lease.ts release, keep).
KeepsLock ==
  [][\A h \in Workers \cup {Stop} : lock.by = h /\ lock'.by # h =>
       \/ h \in Workers /\ pc[h] = "release" /\ pc'[h] # "release"
       \/ h = Stop /\ stopper.pc = "release" /\ stopper'.pc # "release"
       \/ Abandoned \/ used'["lapse"] > used["lapse"]]_vars

\* While no lease lapses under its holder, two deliveries never work on the thread at once, and a
\* stop that settles a run never does so beside a worker (settleAfterStop).
MutualExclusion ==
  used["lapse"] = 0 =>
    /\ \A v, w \in Workers : Leased(v) /\ Leased(w) => v = w
    /\ StopLeased => \A w \in Workers : ~Leased(w)

-------------------------------------------------------------------------------
\* The thread.

\* Each admitted run of the thread, by the call that admitted it.
Admitted == {call[c].run : c \in {d \in Calls : call[d].pc \notin {"idle", "admit", "busy"}}}

Life == INSTANCE ThreadLife WITH spent <- Admitted

\* The code implements the thread's promise: a stopped, failed or finished run
\* never moves the thread again, and a run gets it once (publish.ts transition).
ImplementsLife == Life!Spec

\* No event of these kinds has happened.
Spared(kinds) == \A k \in kinds : used[k] = 0

\* Somebody will move the thread on: a job the queue holds, the call that is
\* dispatching its run, a stop or a sweep part-way, or a human who was asked.
Tended ==
  \/ Queued(owner) \/ Dispatching(owner)
  \/ stopper.pc \notin {"idle", "dead"} \/ sweep.pc # "idle"
  \/ state = "WAITING_FOR_INPUT" /\ Open # "none"

\* While no process is killed, no write of a dispatch throws and no job comes twice, a
\* thread that is going is tended (run.ts failDispatch: never an active thread with no
\* worker).
Driven == Spared({"kill", "death", "fault", "dup"}) /\ state \in Active => Tended

\* A stop names the run it stops: the thread had one before, or is not stopped.
Named == "IDLE" \notin StartStates \/ Spared({"stop"})

\* Where a worker was killed, the sweep will find its run: the thread knows the run
\* it belongs to, and the run has a record (reclaim.ts reclaimLost).
Recoverable ==
  Named /\ Spared({"kill", "fault"}) /\ state \in {"QUEUED", "RUNNING"} =>
    Tended \/ (cur = owner /\ rec[owner].state # "NONE")

\* Every run that gets the thread ends, or gives it up.
EveryRunEnds ==
  \A r \in Runs : (owner = r /\ state \in Active) ~> (owner # r \/ state \in Terminal)

\* No process is between two writes of one change.
Quiet ==
  /\ \A c \in Calls : call[c].pc \in Over \cup {"idle", "admit"}
  /\ \A w \in Workers : pc[w] \in {"idle", "dead"}
  /\ stopper.pc \in {"idle", "dead"} /\ sweep.pc = "idle"

\* When nothing is under way on an ended thread, the hot state says so too: a new
\* run is not refused for an old one (run.ts), and a poller that starts now is not
\* misled.
EndedIsFree == Quiet /\ state \in Terminal => hot = state

\* ... and the run's record has ended with the same state, unless a sweep may overtake
\* a slow dispatch.
RecordAgrees ==
  /\ Quiet /\ state \in Terminal /\ allowed["slow"] = 0
  /\ owner \in Runs /\ rec[owner].state # "NONE"
  => rec[owner].state = state /\ rec[owner].ended

\* Deliveries, parks and sweeps keep the three copies of a run's end together (publish.ts
\* transition, closeRunRecord); a stop, an error, a write that throws, a killed process or
\* a lapsed lease may not.
EndedStaysFree ==
  Spared({"stop", "kill", "death", "error", "fault", "lapse"}) => EndedIsFree /\ RecordAgrees

-------------------------------------------------------------------------------
\* The conversation.

Entry(r, kind) == {i \in DOMAIN messages : messages[i].run = r /\ messages[i].kind = kind}

\* No lease lapses under its holder, no dispatch outlasts a lease, and either one run
\* only ever had the thread or none is stopped, parked or delivered twice.
One    == \A r, s \in Admitted : r = s
Singly == Spared({"stop", "park", "dup"})
Calm   == Spared({"lapse"}) /\ allowed["slow"] = 0 /\ (One \/ Singly)

\* A run answers once, however often its job is retried or, while the thread had no
\* other run, delivered and reclaimed (finishedEarlier, the run lock); and a parked
\* call gets one result: the verdict's or a cancellation.
AnswersOnce ==
  /\ Calm => \A r \in Runs : Cardinality(Entry(r, "answer")) <= 1
  /\ Spared({"stop", "lapse"}) =>
       \A r \in Runs : Cardinality(Entry(r, "result")) <= Cardinality(Entry(r, "call"))

\* A run that completed did work of its own: its history is not taken for done
\* because of what another run wrote (finishedEarlier).  It holds until a run is
\* stopped, a worker dies, a failed run's job comes again, or a sweep redispatches a run
\* whose slow dispatch has not written its turn yet.
CompletedWorked ==
  \A r \in Runs : rec[r].state = "COMPLETED" =>
    \E i \in DOMAIN messages : messages[i].run = r /\ messages[i].kind # "user"
UnstoppedWorked == Spared({"stop", "death", "dup"}) /\ allowed["slow"] = 0 => CompletedWorked

\* A run's turns stay together: nothing of an older run is written after the newer
\* run's user turn.
TurnsInOrder ==
  Calm => \A i, j \in DOMAIN messages :
    i < j /\ messages[j].run \in Runs /\ messages[i].run # messages[j].run =>
      \A k \in DOMAIN messages : k > j => messages[k].run # messages[i].run
=============================================================================
