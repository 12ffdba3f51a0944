----------------------------- MODULE Segments -----------------------------
(***************************************************************************)
(* The worker's side of a run stream.  Each delivery of a run's job that   *)
(* gets the lock opens a stream of its own (openSegment), turns what its   *)
(* agents produce into typed events (ChunkBatcher, SegmentStream), and     *)
(* closes it before it gives the lock back.  A worker that dies leaves     *)
(* its stream open for the sweep (closeLostSegment).                       *)
(*                                                                         *)
(* A model part passes two buffers: an agent's ChunkBatcher joins deltas   *)
(* of a kind and sends in order; the segment collects events and appends   *)
(* them in batches.  A part carries its serial number, from..to once       *)
(* deltas are joined, so that a stream can be compared with what its       *)
(* agents produced.                                                        *)
(***************************************************************************)
EXTENDS RunStreams, FiniteSets

CONSTANTS
  MaxDeliveries, \* deliveries of the run's job, each in a process of its own
  Sweepers,     \* sweeps of the reclaim loop
  Nobody,       \* the lock's value when it is free
  Main, Subs,   \* the run's main agent and the nested runs it may spawn
  FlushEvents,  \* config.streamFlushEvents
  Budgets       \* the work and the faults of each kind a behaviour may have

Deliveries == 1..MaxDeliveries   \* in the order they get the lock
Agents == {Main} \cup Subs
Faults == {"death", "lapse", "append", "open", "record", "giveup", "overlap", "close"}
Bounds == {"part", "step", "sub", "cut", "stop"}   \* parts, further steps, nested runs, segments cut short, stops
Numbers == 1..MaxDeliveries       \* segment numbers

ASSUME SegmentsAssumption ==
  /\ Main \notin Subs /\ IsFiniteSet(Subs)
  /\ MaxDeliveries \in Nat
  /\ Nobody \notin Deliveries \cup Sweepers /\ Deliveries \cap Sweepers = {}
  /\ FlushEvents \in Nat
  /\ Budgets \subseteq [Faults \cup Bounds -> Nat]

None == "none"   \* no block is open

VARIABLES
  streams,   \* the port: the stream of each segment number
  counter,   \* agent:segment:{run}
  record,    \* the thread record's RUN_STARTED and RUN_ENDED entries
  holder,    \* who holds the run lock
  jobs,      \* the run's jobs waiting in the queue
  done,      \* the run has ended, and the thread with it
  del,       \* each delivery: its pc, its SegmentStream and its agents
  sweep,     \* where each sweep is, and the segment number it read
  budget,    \* what is still allowed of each bound and fault
  happened   \* kinds of fault that happened

vars == <<streams, counter, record, holder, jobs, done, del, sweep, budget, happened>>
others == <<streams, counter, record, holder, jobs, done, sweep, budget, happened>>

---------------------------------------------------------------------------
(* Events and chunks *)

Event(t, a, i, j) == [type |-> t, agent |-> a, from |-> i, to |-> j]
Mark(t, a) == Event(t, a, 0, 0)

Deltas == {"TEXT", "REASONING"}
Kinds == Deltas \cup {"TOOL_CALL_ARGS", "TOOL_CALL_END", "TOOL_CALL_RESULT"}
StartOf == [TEXT |-> "TEXT_START", REASONING |-> "REASONING_START"]
EndOf == [TEXT |-> "TEXT_END", REASONING |-> "REASONING_END"]
NoChunk == [kind |-> None, from |-> 0, to |-> 0]

Immediate(e) ==
  e.type \in {"RUN_STARTED", "TOOL_CALL_RESULT", "STEP_FINISHED", "SUBAGENT_FINISHED"}

EndBlocks(b, a) == IF b = None THEN <<>> ELSE <<Mark(EndOf[b], a)>>

\* One SDK stream part as stream events, with the block and call it leaves open.
MapChunk(c, b, t, a) ==
  LET content == <<Event(c.kind, a, c.from, c.to)>>
      call == IF t THEN <<>> ELSE <<Mark("TOOL_CALL_START", a)>>
  IN CASE c.kind \in Deltas ->
            [out |-> IF b = c.kind THEN content
                     ELSE EndBlocks(b, a) \o <<Mark(StartOf[c.kind], a)>> \o content,
             block |-> c.kind, tool |-> t]
       [] c.kind = "TOOL_CALL_ARGS" -> [out |-> call \o content, block |-> b, tool |-> TRUE]
       [] c.kind = "TOOL_CALL_END" ->
            [out |-> EndBlocks(b, a) \o call \o content, block |-> None, tool |-> FALSE]
       [] OTHER -> [out |-> content, block |-> b, tool |-> t]

---------------------------------------------------------------------------
(* A delivery: w is the record del[d] *)

NewAgent == [phase |-> "off", serial |-> 0, held |-> NoChunk, chain |-> <<>>, sync |-> FALSE,
             block |-> None, tool |-> FALSE]

NewDelivery == [pc |-> "idle", seg |-> 0, active |-> FALSE, buf |-> <<>>, flights |-> <<>>,
                agents |-> [a \in Agents |-> NewAgent]]

Init ==
  /\ streams = [n \in Numbers |-> NoStream]
  /\ counter = 0 /\ record = <<>>
  /\ holder = Nobody /\ jobs = 1 /\ done = FALSE
  /\ del = [d \in Deliveries |-> NewDelivery]
  /\ sweep = [s \in Sweepers |-> [pc |-> "rest", seg |-> 0]]
  /\ budget \in Budgets /\ happened = {}

Awaits(w, a) == \E i \in DOMAIN w.flights : a \in w.flights[i].awaited

\* Everything agent a sent is out.
Quiet(w, a) == w.agents[a].chain = <<>> /\ ~Awaits(w, a)

\* The agent's stream is read on: its last chunk was a delta, or is out.
Ready(w, a) == w.agents[a].sync => Quiet(w, a)

Running(w, a) == w.agents[a].phase \notin {"off", "over", "cut"}

\* SegmentStream.push: whoever pushes awaits a batch that goes out at once.
Pushed(w, a, events) ==
  LET b == w.buf \o events IN
  IF events = <<>> \/ ~w.active
  THEN w
  ELSE IF Len(b) >= FlushEvents \/ \E i \in DOMAIN events : Immediate(events[i])
  THEN [w EXCEPT !.buf = <<>>, !.flights = Append(@, [events |-> b, awaited |-> {a}])]
  ELSE [w EXCEPT !.buf = b]

\* ChunkBatcher.flush: what is held joins the chunks to be sent.
FlushHeld(g) ==
  [g EXCEPT !.held = NoChunk, !.chain = IF g.held = NoChunk THEN @ ELSE Append(@, g.held)]

\* ChunkBatcher.push: a delta joins the held one of its kind; anything else goes
\* out after what is held, and its agent waits until it is.
Batched(g, k) ==
  LET n == g.serial + 1
      c == [kind |-> k, from |-> n, to |-> n]
      h == [g EXCEPT !.serial = n, !.sync = k \notin Deltas]
  IN IF k \in Deltas /\ g.held.kind = k THEN [h EXCEPT !.held.to = n]
     ELSE IF k \in Deltas THEN [FlushHeld(h) EXCEPT !.held = c]
     ELSE [FlushHeld(h) EXCEPT !.chain = Append(@, c)]

Phased(w, a, p) == [w EXCEPT !.agents[a].phase = p]

Become(d, w) == del' = [del EXCEPT ![d] = w]

Use(b) ==
  /\ budget[b] > 0
  /\ budget' = [budget EXCEPT ![b] = @ - 1]
  /\ happened' = happened \cup ({b} \cap Faults)

---------------------------------------------------------------------------
(* openSegment *)

\* The delivery takes the lock.  A run that ended is not run again.
Acquire(d) ==
  /\ del[d].pc = "idle" /\ jobs > 0 /\ holder = Nobody
  /\ \A e \in Deliveries : e < d => del[e].pc # "idle"
  /\ jobs' = jobs - 1
  /\ IF done THEN Become(d, [del[d] EXCEPT !.pc = "released"]) /\ UNCHANGED holder
     ELSE Become(d, [del[d] EXCEPT !.pc = "incr"]) /\ holder' = d
  /\ UNCHANGED <<streams, counter, record, done, sweep, budget, happened>>

TakeNumber(d) ==
  /\ del[d].pc = "incr"
  /\ counter' = counter + 1
  /\ Become(d, [del[d] EXCEPT !.pc = "open", !.seg = counter'])
  /\ UNCHANGED <<streams, record, holder, jobs, done, sweep, budget, happened>>

OpenStream(d) ==
  /\ del[d].pc = "open"
  /\ streams' = [streams EXCEPT ![del[d].seg] = Opened(@)]
  /\ Become(d, Pushed([del[d] EXCEPT !.pc = "started", !.active = TRUE],
                      Main, <<Mark("RUN_STARTED", Main)>>))
  /\ UNCHANGED <<counter, record, holder, jobs, done, sweep, budget, happened>>

\* The record is written before the stream's first event is out.
RecordStartEarly(d) ==                                                  \* mutant
  /\ del[d].pc = "started"
  /\ record' = Append(record, [type |-> "RUN_STARTED", seg |-> del[d].seg])
  /\ Become(d, [Phased(del[d], Main, "live") EXCEPT !.pc = "work"])
  /\ UNCHANGED <<streams, counter, holder, jobs, done, sweep, budget, happened>>

\* The stream opened and its first event went out: the thread record says so.
RecordStart(d) ==
  /\ del[d].pc = "started" /\ Quiet(del[d], Main)
  /\ record' = Append(record, [type |-> "RUN_STARTED", seg |-> del[d].seg])
  /\ Become(d, [Phased(del[d], Main, "live") EXCEPT !.pc = "work"])
  /\ UNCHANGED <<streams, counter, holder, jobs, done, sweep, budget, happened>>

\* The port throws: the run goes on in the dark, without a stream.  When it is the
\* record that throws, its agents push to a stream that its worker never closes.
OpenFails(d) ==
  /\ \/ /\ del[d].pc = "open" /\ Use("open")
        /\ Become(d, [del[d] EXCEPT !.pc = "dark"])
     \/ /\ del[d].pc = "started" /\ Quiet(del[d], Main) /\ Use("record")
        /\ Become(d, [Phased(del[d], Main, "live") EXCEPT !.pc = "dark"])
  /\ UNCHANGED <<streams, counter, record, holder, jobs, done, sweep>>

---------------------------------------------------------------------------
(* A step of an agent *)

\* The main agent waits for the nested runs it spawned; a nested run goes on
\* when the segment around it is cut.
MayMove(d, a) ==
  LET w == del[d] IN
  /\ w.active /\ w.pc \notin {"started", "dead"}
  /\ a = Main => w.pc \in {"work", "dark"} /\ \A s \in Subs : ~Running(w, s)

Part(d, a, k) ==
  LET g == del[d].agents[a] IN
  /\ MayMove(d, a) /\ g.phase = "live" /\ Ready(del[d], a)
  /\ Use("part")
  /\ Become(d, [del[d] EXCEPT !.agents[a] = Batched(g, k)])
  /\ UNCHANGED <<streams, counter, record, holder, jobs, done, sweep>>

BatchTimer(d, a) ==
  /\ del[d].pc # "dead" /\ del[d].agents[a].held # NoChunk
  /\ Become(d, [del[d] EXCEPT !.agents[a] = FlushHeld(@)])
  /\ UNCHANGED others

\* The batcher sends its next chunk once the one before is out.  With no segment
\* open in the process it goes on the bus.
Send(d, a) ==
  LET w == del[d]
      g == w.agents[a]
      m == MapChunk(Head(g.chain), g.block, g.tool, a)
      rest == [g EXCEPT !.chain = Tail(g.chain)]
  IN
  /\ w.pc # "dead" /\ g.chain # <<>> /\ ~Awaits(w, a)
  /\ Become(d, IF w.active
               THEN Pushed([w EXCEPT !.agents[a] = [rest EXCEPT !.block = m.block, !.tool = m.tool]],
                           a, m.out)
               ELSE [w EXCEPT !.agents[a] = rest])
  /\ UNCHANGED others

\* The model call returned or threw: its batcher is flushed before anything else.
CallEnds(d, a) ==
  LET g == del[d].agents[a] IN
  /\ MayMove(d, a) /\ g.phase = "live" /\ Ready(del[d], a)
  /\ Become(d, [del[d] EXCEPT !.agents[a] = [FlushHeld(g) EXCEPT !.phase = "flush"]])
  /\ UNCHANGED others

\* The step is committed while the batcher still holds its text.
CommitUnflushed(d, a) ==                                                \* mutant
  LET g == del[d].agents[a] IN
  /\ MayMove(d, a) /\ g.phase = "flush"
  /\ Become(d, Pushed([del[d] EXCEPT !.agents[a] = [g EXCEPT !.phase = "commit", !.block = None]],
                      a, Append(EndBlocks(g.block, a), Event("STEP_FINISHED", a, 0, g.serial))))
  /\ UNCHANGED others

\* The step's messages are saved, and STEP_COMMITTED ends its blocks.
Commit(d, a) ==
  LET g == del[d].agents[a] IN
  /\ MayMove(d, a) /\ g.phase = "flush" /\ Quiet(del[d], a)
  /\ Become(d, Pushed([del[d] EXCEPT !.agents[a] = [g EXCEPT !.phase = "commit", !.block = None]],
                      a, Append(EndBlocks(g.block, a), Event("STEP_FINISHED", a, 0, g.serial))))
  /\ UNCHANGED others

NextStep(d, a) ==
  /\ MayMove(d, a) /\ del[d].agents[a].phase = "commit" /\ Quiet(del[d], a)
  /\ Use("step")
  /\ Become(d, Phased(del[d], a, "live"))
  /\ UNCHANGED <<streams, counter, record, holder, jobs, done, sweep>>

\* The main agent calls spawnSubagent: the call is one of its parts.
SubStarts(d, s) ==
  LET w == del[d] IN
  /\ w.active /\ w.pc \in {"work", "dark"} /\ w.agents[s].phase = "off"
  /\ w.agents[Main].phase = "live" /\ Ready(w, Main)
  /\ Become(d, Pushed(Phased(w, s, "live"), s, <<Mark("SUBAGENT_STARTED", s)>>))
  /\ Use("sub")
  /\ UNCHANGED <<streams, counter, record, holder, jobs, done, sweep>>

\* SUBAGENT_COMPLETED after its last step, or SUBAGENT_FAILED in the middle of one.
SubEnds(d, s) ==
  LET g == del[d].agents[s] IN
  /\ MayMove(d, s) /\ g.phase \in {"flush", "commit"} /\ Quiet(del[d], s)
  /\ Become(d, Pushed([del[d] EXCEPT !.agents[s] = [g EXCEPT !.phase = "over", !.block = None]],
                      s, Append(EndBlocks(g.block, s), Mark("SUBAGENT_FINISHED", s))))
  /\ UNCHANGED others

---------------------------------------------------------------------------
(* SegmentStream's way to the store *)

FlushTimer(d) ==
  LET w == del[d] IN
  /\ w.pc # "dead" /\ w.buf # <<>>
  /\ Become(d, [w EXCEPT !.buf = <<>>, !.flights = Append(@, [events |-> w.buf, awaited |-> {}])])
  /\ UNCHANGED others

\* The batch in front is appended.  A failed append is logged and its batch is lost.
AppendBatch(d) ==
  LET w == del[d] IN
  /\ w.pc # "dead" /\ w.flights # <<>>
  /\ Become(d, [w EXCEPT !.flights = Tail(@)])
  /\ \/ /\ streams' = IF CanAppend(streams[w.seg])
                      THEN [streams EXCEPT ![w.seg] = Appended(@, Head(w.flights).events)]
                      ELSE streams
        /\ UNCHANGED <<budget, happened>>
     \/ Use("append") /\ UNCHANGED streams
  /\ UNCHANGED <<counter, record, holder, jobs, done, sweep>>

---------------------------------------------------------------------------
(* The end of a segment *)

\* The run ended with this step, and its worker still had the lock.
Finish(d) ==
  LET w == del[d] IN
  /\ w.pc = "work" /\ w.agents[Main].phase = "commit" /\ Quiet(w, Main) /\ holder = d
  /\ done' = TRUE
  /\ Become(d, [Phased(w, Main, "over") EXCEPT !.pc = "close"])
  /\ UNCHANGED <<streams, counter, record, holder, jobs, sweep, budget, happened>>

\* The lock is given back first and the stream closed afterwards.
CutUnlocked(d) ==                                                       \* mutant
  LET w == del[d] IN
  /\ w.pc = "work" /\ w.agents[Main].phase \in {"flush", "commit"} /\ Quiet(w, Main)
  /\ holder = d /\ Use("cut")
  /\ holder' = Nobody
  /\ jobs' = jobs + 1
  /\ Become(d, [Phased(w, Main, "cut") EXCEPT !.pc = "close"])
  /\ UNCHANGED <<streams, counter, record, done, sweep>>

\* The segment failed, parked, was stopped or lost its lock.  Nested runs may not
\* have noticed yet.
Cut(d) ==
  LET w == del[d] IN
  /\ w.pc = "work" /\ w.agents[Main].phase \in {"flush", "commit"} /\ Quiet(w, Main)
  /\ Become(d, [Phased(w, Main, "cut") EXCEPT !.pc = "close"])
  /\ IF holder = d THEN Use("cut") ELSE UNCHANGED <<budget, happened>>
  /\ UNCHANGED <<streams, counter, record, holder, jobs, done, sweep>>

\* The same in the dark.  Of a worker without a stream nothing else is kept.
DarkFinish(d) ==
  LET w == del[d] IN
  /\ w.pc = "dark" /\ holder = d
  /\ w.active => w.agents[Main].phase = "commit" /\ Quiet(w, Main)
  /\ done' = TRUE
  /\ Become(d, [Phased(w, Main, "over") EXCEPT !.pc = "left"])
  /\ UNCHANGED <<streams, counter, record, holder, jobs, sweep, budget, happened>>

DarkCut(d) ==
  LET w == del[d] IN
  /\ w.pc = "dark"
  /\ w.active => w.agents[Main].phase \in {"flush", "commit"} /\ Quiet(w, Main)
  /\ Become(d, [Phased(w, Main, "cut") EXCEPT !.pc = "left"])
  /\ IF holder = d THEN Use("cut") ELSE UNCHANGED <<budget, happened>>
  /\ UNCHANGED <<streams, counter, record, holder, jobs, done, sweep>>

Listed(S) ==
  CHOOSE f \in [1..Cardinality(S) -> S] : \A i, j \in DOMAIN f : f[i] = f[j] => i = j

\* What is open is ended, in one push.
CloseBlocks(d) ==
  LET w == del[d]
      open == Listed({a \in Agents : w.agents[a].block # None})
  IN
  /\ w.pc = "close"
  /\ Become(d, Pushed([w EXCEPT !.pc = "flush",
                                !.agents = [a \in Agents |-> [w.agents[a] EXCEPT !.block = None]]],
                      Main, [i \in DOMAIN open |-> Mark(EndOf[w.agents[open[i]].block], open[i])]))
  /\ UNCHANGED others

\* Everything pushed so far is waited for.
CloseFlush(d) ==
  LET w == del[d]
      last == Len(w.flights)
  IN
  /\ w.pc = "flush" /\ Quiet(w, Main)
  /\ Become(d, IF w.buf # <<>>
               THEN [w EXCEPT !.pc = "end", !.buf = <<>>,
                              !.flights = Append(@, [events |-> w.buf, awaited |-> {Main}])]
               ELSE IF last > 0
               THEN [w EXCEPT !.pc = "end",
                              !.flights = [@ EXCEPT ![last] = [events |-> w.flights[last].events,
                                                     awaited |-> w.flights[last].awaited \cup {Main}]]]
               ELSE [w EXCEPT !.pc = "end"])
  /\ UNCHANGED others

Status(d) ==
  IF del[d].agents[Main].phase = "over" THEN "RUN_FINISHED"
  ELSE IF holder = d THEN "RUN_ERROR" ELSE "RUN_LOST"

CloseStream(d) ==
  /\ del[d].pc = "end" /\ Quiet(del[d], Main)
  /\ streams' = [streams EXCEPT ![del[d].seg] = Closed(@, Mark(Status(d), Main))]
  /\ Become(d, [del[d] EXCEPT !.pc = "closed", !.active = FALSE])
  /\ UNCHANGED <<counter, record, holder, jobs, done, sweep, budget, happened>>

RecordEnd(d) ==
  /\ del[d].pc = "closed"
  /\ record' = Append(record, [type |-> "RUN_ENDED", seg |-> del[d].seg])
  /\ Become(d, [del[d] EXCEPT !.pc = "recorded"])
  /\ UNCHANGED <<streams, counter, holder, jobs, done, sweep, budget, happened>>

\* The close fails, which is logged, and the record says RUN_ENDED all the same.
CloseFails(d) ==
  /\ del[d].pc = "end" /\ Quiet(del[d], Main) /\ Use("close")
  /\ Become(d, [del[d] EXCEPT !.pc = "closed", !.active = FALSE])
  /\ UNCHANGED <<streams, counter, record, holder, jobs, done, sweep>>

RecordEndFails(d) ==
  /\ del[d].pc = "closed" /\ Use("close")
  /\ Become(d, [del[d] EXCEPT !.pc = "recorded"])
  /\ UNCHANGED <<streams, counter, record, holder, jobs, done, sweep>>

\* The lock is given back while it is still this worker's, and the run's next job
\* goes in unless the run ended.  A worker in the dark has no stream to close.
Release(d) ==
  /\ del[d].pc \in {"recorded", "left"}
  /\ holder' = IF holder = d THEN Nobody ELSE holder
  /\ jobs' = IF done \/ holder # d THEN jobs ELSE jobs + 1
  /\ Become(d, [del[d] EXCEPT !.pc = "released"])
  /\ UNCHANGED <<streams, counter, record, done, sweep, budget, happened>>

---------------------------------------------------------------------------
(* The sweep, and a queue that gives a job up *)

Working(d) == del[d].pc \notin {"idle", "released", "dead"}

\* A sweep that takes the run for lost, or the end of a run that was given up.
Sweeping(s) == sweep[s].pc \notin {"rest", "queue", "end"}

\* The thread is active, and nobody holds its lock.
SweepLock(s) ==
  /\ sweep[s].pc = "rest" /\ ~done /\ holder = Nobody
  /\ sweep' = [sweep EXCEPT ![s].pc = "queue"]
  /\ UNCHANGED <<streams, counter, record, holder, jobs, done, del, budget, happened>>

\* The queue has no job of the run, waiting or leased.
Forgotten == jobs = 0 /\ \A d \in Deliveries : ~Working(d)

\* The sweep asks for the lock alone, not for the job.
SweepQueueUnasked(s) ==                                                 \* mutant
  /\ sweep[s].pc = "queue" /\ ~done
  /\ IF \E t \in Sweepers : Sweeping(t) THEN Use("overlap") ELSE UNCHANGED <<budget, happened>>
  /\ sweep' = [sweep EXCEPT ![s].pc = "counter"]
  /\ UNCHANGED <<streams, counter, record, holder, jobs, done, del>>

\* The worker of a run the queue forgot is taken for dead.  Another sweep may be at it, of
\* another host or of a call that touches the thread; and a queue that cannot look a job
\* up does not say.
SweepQueue(s) ==
  /\ sweep[s].pc = "queue"
  /\ \/ /\ done \/ ~Forgotten
        /\ sweep' = [sweep EXCEPT ![s].pc = "rest"]
        /\ UNCHANGED <<budget, happened>>
     \/ /\ ~done
        /\ IF Forgotten /\ ~\E t \in Sweepers : Sweeping(t)
           THEN UNCHANGED <<budget, happened>> ELSE Use("overlap")
        /\ sweep' = [sweep EXCEPT ![s].pc = "counter"]
  /\ UNCHANGED <<streams, counter, record, holder, jobs, done, del>>

SweepReads(s) ==
  /\ sweep[s].pc = "counter"
  /\ sweep' = [sweep EXCEPT ![s] = [pc |-> IF counter = 0 THEN "over" ELSE "look", seg |-> counter]]
  /\ UNCHANGED <<streams, counter, record, holder, jobs, done, del, budget, happened>>

\* closeLostSegment leaves a stream that is closed or gone as it is.
SweepLooks(s) ==
  /\ sweep[s].pc = "look"
  /\ sweep' = [sweep EXCEPT ![s].pc =
                 IF streams[sweep[s].seg].state = "open" THEN "close" ELSE "over"]
  /\ UNCHANGED <<streams, counter, record, holder, jobs, done, del, budget, happened>>

SweepCloses(s) ==
  /\ sweep[s].pc = "close"
  /\ streams' = [streams EXCEPT ![sweep[s].seg] = Closed(@, Mark("RUN_LOST", Main))]
  /\ sweep' = [sweep EXCEPT ![s].pc = "record"]
  /\ UNCHANGED <<counter, record, holder, jobs, done, del, budget, happened>>

SweepRecords(s) ==
  /\ sweep[s].pc = "record"
  /\ record' = Append(record, [type |-> "RUN_ENDED", seg |-> sweep[s].seg])
  /\ sweep' = [sweep EXCEPT ![s].pc = "over"]
  /\ UNCHANGED <<streams, counter, holder, jobs, done, del, budget, happened>>

SweepCloseFails(s) ==
  /\ sweep[s].pc = "close" /\ Use("close")
  /\ sweep' = [sweep EXCEPT ![s].pc = "record"]
  /\ UNCHANGED <<streams, counter, record, holder, jobs, done, del>>

\* RUN_ENDED could not be recorded: closeLostSegment throws, and nothing is dispatched.
SweepThrows(s) ==
  /\ sweep[s].pc = "record" /\ Use("close")
  /\ holder' = IF holder = s THEN Nobody ELSE holder
  /\ sweep' = [sweep EXCEPT ![s].pc = IF done THEN "end" ELSE "rest"]
  /\ UNCHANGED <<streams, counter, record, jobs, done, del>>

\* The sweep dispatches the run again, under a key that holds once; failLostRun, which
\* ended the run, gives the lock back.
SweepLeaves(s) ==
  /\ sweep[s].pc = "over"
  /\ holder' = IF holder = s THEN Nobody ELSE holder
  /\ jobs' = IF holder = s \/ jobs > 0 THEN jobs ELSE 1
  /\ sweep' = [sweep EXCEPT ![s].pc = IF done THEN "end" ELSE "rest"]
  /\ UNCHANGED <<streams, counter, record, done, del, budget, happened>>

\* A run that is failed for its dead worker leaves the segment's stream as it is.
GiveUpOnly(s) ==                                                        \* mutant
  /\ sweep[s].pc = "rest"
  /\ jobs > 0 /\ holder = Nobody /\ ~done /\ Use("giveup")
  /\ jobs' = jobs - 1
  /\ holder' = s
  /\ done' = TRUE
  /\ sweep' = [sweep EXCEPT ![s].pc = "over"]
  /\ UNCHANGED <<streams, counter, record, del>>

\* The queue gives the run's job up: failLostRun takes the lock and fails the run
\* before it closes what the dead worker left open.
GiveUp(s) ==
  /\ sweep[s].pc = "rest"
  /\ jobs > 0 /\ holder = Nobody /\ ~done /\ Use("giveup")
  /\ jobs' = jobs - 1
  /\ holder' = s
  /\ done' = TRUE
  /\ sweep' = [sweep EXCEPT ![s].pc = "counter"]
  /\ UNCHANGED <<streams, counter, record, del>>

---------------------------------------------------------------------------
(* Faults *)

\* A worker is killed.  Its queue hands the job out again, or has lost it.
Die(d) ==
  /\ Working(d) /\ Use("death")
  /\ Become(d, [NewDelivery EXCEPT !.pc = "dead", !.seg = del[d].seg])
  /\ jobs' \in IF done \/ holder # d THEN {jobs} ELSE {jobs, jobs + 1}
  /\ UNCHANGED <<streams, counter, record, holder, done, sweep>>

\* A dead worker's lease runs out.
LockExpires(d) ==
  /\ holder = d /\ del[d].pc = "dead"
  /\ holder' = Nobody
  /\ UNCHANGED <<streams, counter, record, jobs, done, del, sweep, budget, happened>>

\* A stalled worker's lease runs out under it, and its job is handed out again.
Lapse(d) ==
  /\ holder = d /\ Working(d) /\ ~done /\ Use("lapse")
  /\ holder' = Nobody
  /\ jobs' = jobs + 1
  /\ UNCHANGED <<streams, counter, record, done, del, sweep>>

\* The user stops the run, wherever it is.
Stop ==
  /\ ~done /\ Use("stop")
  /\ done' = TRUE
  /\ UNCHANGED <<streams, counter, record, holder, jobs, del, sweep>>

---------------------------------------------------------------------------
Ports(d) ==
  \/ Acquire(d) \/ TakeNumber(d) \/ OpenStream(d) \/ RecordStart(d)
  \/ AppendBatch(d) \/ FlushTimer(d)
  \/ CloseBlocks(d) \/ CloseFlush(d) \/ CloseStream(d) \/ RecordEnd(d) \/ Release(d)
  \/ LockExpires(d)

Work(d, a) ==
  \/ \E k \in Kinds : Part(d, a, k)
  \/ BatchTimer(d, a) \/ Send(d, a) \/ CallEnds(d, a) \/ Commit(d, a) \/ NextStep(d, a)

Nested(d, s) == SubStarts(d, s) \/ SubEnds(d, s)

Ending(d) == Finish(d) \/ Cut(d) \/ DarkFinish(d) \/ DarkCut(d)

Sweep(s) ==
  SweepLock(s) \/ SweepQueue(s) \/ SweepReads(s) \/ SweepLooks(s) \/ SweepCloses(s)
  \/ SweepRecords(s) \/ SweepLeaves(s)

Fault(d) == OpenFails(d) \/ CloseFails(d) \/ RecordEndFails(d) \/ Die(d) \/ Lapse(d)

SweepFault(s) == SweepCloseFails(s) \/ SweepThrows(s)

Progress(d) ==
  Ports(d) \/ Ending(d) \/ (\E a \in Agents : Work(d, a)) \/ (\E s \in Subs : Nested(d, s))

Next ==
  \/ \E d \in Deliveries : Progress(d) \/ Fault(d)
  \/ \E s \in Sweepers : Sweep(s) \/ SweepFault(s) \/ GiveUp(s)
  \/ Stop

Spec == Init /\ [][Next]_vars

\* Nothing in the program waits for ever: a worker that is not killed moves on, its
\* timers fire, a lease runs out, and the sweep comes round.
Fairness ==
  /\ \A d \in Deliveries : WF_vars(Progress(d))
  /\ \A s \in Sweepers : WF_vars(Sweep(s))

FairSpec == Spec /\ Fairness
===========================================================================
