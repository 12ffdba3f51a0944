------------------------------ MODULE Sandboxes ------------------------------
\* The sandbox a thread's tools work in (core/builtin/sandbox.ts): parallel tool calls of
\* one run share one acquire, which finds the sandbox the record in the kv names, or makes
\* one; sandboxes end on their own, idle or too old; runs park, end and follow each other
\* under the run lock; workers die. With scope "run" a run gives its sandbox back.
EXTENDS Naturals, Sequences

CONSTANTS
  Scopes,      \* sandboxScope; "kept" is "run" with sandboxKeepOnPark
  ToolCalls,   \* tool calls under way at once
  MaxMade,     \* bounds the sandboxes made
  MaxRun,      \* bounds the runs
  MaxEnds      \* bounds the deaths, expiries and failed calls to the provider

VARIABLES
  scope,
  kept,      \* the record: NoRecord, or the sandbox, the run that made it, released
  alive,     \* the sandboxes that are there
  madeBy,    \* per sandbox made, the run it was made for
  handled,   \* the sandboxes this process holds a handle of
  runNo,     \* the run under way, under the lock
  parked,
  calling,   \* per call: its stage, the sandbox it has, whether it runs once more
  acquire,   \* the acquire under way: its stage and the sandbox it found or made
  ends,      \* deaths, expiries and failures so far
  orphans    \* sandboxes only their own timeout ends: see Destroys, Expires, Fails

sandboxVars ==
  <<scope, kept, alive, madeBy, handled, runNo, parked, calling, acquire, ends, orphans>>

NoRecord == [id |-> 0, run |-> 0, released |-> FALSE]
NoAcquire == [stage |-> "none", id |-> 0]
NoCall == [stage |-> "idle", id |-> 0, again |-> FALSE]
PerRun == scope # "thread"
Owner == IF PerRun THEN runNo ELSE 0

SandboxInit ==
  /\ scope \in Scopes
  /\ kept = NoRecord /\ alive = {} /\ madeBy = <<>> /\ handled = {}
  /\ runNo = 1 /\ parked = FALSE
  /\ calling = [c \in ToolCalls |-> NoCall]
  /\ acquire = NoAcquire
  /\ ends = 0 /\ orphans = {}

\* Tool calls are over before their step is, and a run parks or ends after its step.
Idle == acquire = NoAcquire /\ \A c \in ToolCalls : calling[c] = NoCall
Runs == <<scope, runNo, parked>>
GivesUp == calling' = [c \in ToolCalls |-> IF calling[c].stage = "waits" THEN NoCall ELSE calling[c]]

\* destroyQuietly: the sandbox ends, or the provider fails and the error is only logged.
Destroys(s) ==
  \/ alive' = alive \ {s} /\ UNCHANGED <<orphans, ends>>
  \/ /\ s \in alive /\ ends < MaxEnds /\ ends' = ends + 1
     /\ orphans' = orphans \cup {s} /\ UNCHANGED alive

\* threadSandbox: joins the acquire under way, or starts one.
Wants(c) ==
  /\ ~parked
  /\ \/ calling[c].stage = "idle" /\ calling' = [calling EXCEPT ![c].stage = "waits"]
     \/ calling[c].stage = "retries" /\ calling' = [calling EXCEPT ![c] =
          [stage |-> "waits", id |-> 0, again |-> TRUE]]
  /\ acquire' = IF acquire = NoAcquire THEN [NoAcquire EXCEPT !.stage = "reads"] ELSE acquire
  /\ UNCHANGED <<kept, alive, madeBy, handled, ends, orphans, Runs>>

\* Whose record an acquire goes on with: this run's, or in scope "thread" anybody's. With
\* this mutant a run takes over what an earlier one left.
MineAny == kept # NoRecord /\ ~kept.released                                 \* mutant
Mine == kept # NoRecord /\ ~kept.released /\ kept.run = Owner

\* acquire reads the record. One an earlier run left is ended, and so is one the clock
\* finds too old; of one given back at a park only the mark is left.
Reads ==
  /\ acquire.stage = "reads"
  /\ \/ /\ Mine
        /\ acquire' = [stage |-> "connects", id |-> kept.id]
        /\ UNCHANGED <<alive, handled, orphans, ends>>
     \/ /\ kept = NoRecord \/ kept.released
        /\ acquire' = [stage |-> "makes", id |-> 0]
        /\ UNCHANGED <<alive, handled, orphans, ends>>
     \/ /\ kept # NoRecord /\ ~kept.released
        /\ acquire' = [stage |-> "makes", id |-> 0]
        /\ handled' = handled \ {kept.id}
        /\ Destroys(kept.id)
  /\ UNCHANGED <<kept, madeBy, calling, Runs>>

\* connect: a handle this process holds is taken as it is; else the provider looks.
Connects ==
  /\ acquire.stage = "connects"
  /\ LET s == acquire.id
     IN  IF s \in handled \cup alive
         THEN acquire' = [acquire EXCEPT !.stage = "pushes"] /\ handled' = handled \cup {s}
         ELSE acquire' = [stage |-> "makes", id |-> 0] /\ UNCHANGED handled
  /\ UNCHANGED <<kept, alive, madeBy, calling, ends, orphans, Runs>>

\* The timeout is pushed back when that is due, which a sandbox that has ended refuses. A
\* handle a parallel call dropped meanwhile fails the acquire, and all that wait on it.
Pushes ==
  /\ acquire.stage = "pushes"
  /\ \/ /\ acquire.id \in handled
        /\ acquire' = [acquire EXCEPT !.stage = "writes"]
        /\ UNCHANGED <<handled, calling>>
     \/ /\ acquire.id \in handled \ alive
        /\ acquire' = [stage |-> "makes", id |-> 0]
        /\ handled' = handled \ {acquire.id}
        /\ UNCHANGED calling
     \/ /\ acquire.id \notin handled
        /\ acquire' = NoAcquire /\ GivesUp
        /\ UNCHANGED handled
  /\ UNCHANGED <<kept, alive, madeBy, ends, orphans, Runs>>

Makes ==
  /\ acquire.stage = "makes" /\ Len(madeBy) < MaxMade
  /\ LET s == Len(madeBy) + 1
     IN  /\ madeBy' = Append(madeBy, runNo)
         /\ alive' = alive \cup {s} /\ handled' = handled \cup {s}
         /\ acquire' = [stage |-> "writes", id |-> s]
  /\ UNCHANGED <<kept, calling, ends, orphans, Runs>>

\* The record is written over whatever is there by now, and every call that waits goes on.
Writes ==
  /\ acquire.stage = "writes"
  /\ kept' = [id |-> acquire.id, run |-> Owner, released |-> FALSE]
  /\ calling' = [c \in ToolCalls |-> IF calling[c].stage = "waits"
                 THEN [calling[c] EXCEPT !.stage = "uses", !.id = acquire.id] ELSE calling[c]]
  /\ acquire' = NoAcquire
  /\ UNCHANGED <<alive, madeBy, handled, ends, orphans, Runs>>

CallOver(c) ==
  /\ calling[c].stage = "uses"
  /\ calling' = [calling EXCEPT ![c] = NoCall]
  /\ UNCHANGED <<kept, alive, madeBy, handled, acquire, ends, orphans, Runs>>

\* withThreadSandbox: the sandbox a call works in is gone. The record goes while it still
\* names that one, and the call runs once more, or fails when this was that once more.
Gone(c) ==
  /\ calling[c].stage = "uses" /\ calling[c].id \notin alive
  /\ IF calling[c].again
     THEN calling' = [calling EXCEPT ![c] = NoCall] /\ UNCHANGED <<kept, handled>>
     ELSE /\ calling' = [calling EXCEPT ![c].stage = "retries"]
          /\ handled' = handled \ {calling[c].id}
          /\ kept' = IF kept.id = calling[c].id THEN NoRecord ELSE kept
  /\ UNCHANGED <<alive, madeBy, acquire, ends, orphans, Runs>>

\* releaseRunSandbox at a park: the run gives back its own sandbox and leaves a mark,
\* unless it keeps it or never had one. In scope "thread" it does nothing.
Parks ==
  /\ ~parked /\ Idle /\ parked' = TRUE
  /\ IF scope = "run" /\ Mine
     THEN Destroys(kept.id) /\ handled' = handled \ {kept.id} /\ kept' = [kept EXCEPT !.released = TRUE]
     ELSE UNCHANGED <<kept, alive, handled, ends, orphans>>
  /\ UNCHANGED <<scope, runNo, madeBy, calling, acquire>>

Resumed ==
  /\ parked /\ parked' = FALSE
  /\ UNCHANGED <<scope, kept, alive, madeBy, handled, runNo, calling, acquire, ends, orphans>>

\* releaseRunSandbox at the end, by the worker of the run or by whoever settles it, whose
\* process holds other handles; and the thread's next run. A release the kv fails, or that
\* dies, leaves the record to the next run's acquire.
RunEnds ==
  /\ runNo < MaxRun /\ Idle
  /\ \/ /\ PerRun /\ Mine
        /\ Destroys(kept.id) /\ kept' = NoRecord
        /\ handled' \in {handled, handled \ {kept.id}}
     \/ ~(PerRun /\ Mine) /\ UNCHANGED <<kept, alive, handled, ends, orphans>>
     \/ /\ PerRun /\ Mine /\ ends < MaxEnds /\ ends' = ends + 1
        /\ UNCHANGED <<kept, alive, handled, orphans>>
  /\ runNo' = runNo + 1 /\ parked' = FALSE
  /\ UNCHANGED <<scope, madeBy, calling, acquire>>

\* destroyThreadSandbox, when the thread is deleted: whoever made the sandbox.
DeletesSandbox ==
  /\ Idle /\ kept # NoRecord
  /\ Destroys(kept.id) /\ handled' = handled \ {kept.id} /\ kept' = NoRecord
  /\ UNCHANGED <<madeBy, calling, acquire, Runs>>

\* A sandbox ends on its own: idle, too old, or its machine died.
SandboxEnds(s) ==
  /\ alive' = alive \ {s} /\ orphans' = orphans \ {s}
  /\ UNCHANGED <<kept, madeBy, handled, calling, acquire, ends, Runs>>

\* The record's key expires, its lifetime after the sandbox's last use.
Expires ==
  /\ kept # NoRecord /\ ends < MaxEnds /\ ends' = ends + 1
  /\ kept' = NoRecord /\ orphans' = orphans \cup ({kept.id} \cap alive)
  /\ UNCHANGED <<alive, madeBy, handled, calling, acquire, Runs>>

\* What an acquire made before its record was written is lost with it.
InTheMaking == IF acquire.stage = "writes" /\ acquire.id # kept.id THEN {acquire.id} \cap alive ELSE {}

\* The kv or the provider fails the acquire, and with it the calls that wait.
Fails ==
  /\ acquire # NoAcquire /\ ends < MaxEnds /\ ends' = ends + 1
  /\ acquire' = NoAcquire /\ GivesUp
  /\ orphans' = orphans \cup InTheMaking
  /\ UNCHANGED <<kept, alive, madeBy, handled, Runs>>

\* The worker dies: its handles and calls are gone, and the run is delivered again.
WorkerDies ==
  /\ ends < MaxEnds /\ ends' = ends + 1
  /\ handled' = {} /\ acquire' = NoAcquire /\ calling' = [c \in ToolCalls |-> NoCall]
  /\ orphans' = orphans \cup InTheMaking
  /\ UNCHANGED <<kept, alive, madeBy, Runs>>

SandboxNext ==
  \/ \E c \in ToolCalls : Wants(c) \/ CallOver(c) \/ Gone(c)
  \/ Reads \/ Connects \/ Pushes \/ Makes \/ Writes
  \/ Parks \/ Resumed \/ RunEnds \/ DeletesSandbox
  \/ \E s \in alive : SandboxEnds(s)
  \/ Expires \/ Fails \/ WorkerDies

\* With scope "run" a tool call never works among another run's files, whatever sandbox an
\* earlier run left behind and however often the run was delivered (sandbox.ts:138-149,
\* 242-267); and every sandbox that is up can be found again, by the record or by the
\* acquire that is about to write it, or a fault that is only logged let go of it.
SandboxesAreOwned ==
  /\ PerRun => \A c \in ToolCalls : calling[c].stage = "uses" => madeBy[calling[c].id] = runNo
  /\ alive \subseteq orphans \cup {kept.id, acquire.id}
  /\ kept.released => kept.id \notin alive \ orphans
=============================================================================
