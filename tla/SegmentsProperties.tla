------------------------ MODULE SegmentsProperties ------------------------
(***************************************************************************)
(* What the worker's side of a run stream promises.  A fault that breaks a *)
(* promise in the code is named by the property that leaves it out.        *)
(***************************************************************************)
EXTENDS Segments

Spared(kinds) == happened \cap kinds = {}

Of(n, kinds, a) == SelectSeq(streams[n].items, LAMBDA e : e.agent = a /\ e.type \in kinds)

\* Nesting: of the text and reasoning a reader gets from one agent, a block starts,
\* goes on and ends before the next one starts or the agent's step is finished
\* (mapChunk, endBlocks), however the batches of concurrent agents interleave.
BlockEvents == {"TEXT_START", "TEXT", "TEXT_END", "REASONING_START", "REASONING", "REASONING_END",
                "STEP_FINISHED", "SUBAGENT_FINISHED"}
Opening == {"TEXT_START", "REASONING_START"}
Inside == {<<"TEXT_START", "TEXT">>, <<"TEXT", "TEXT">>, <<"TEXT", "TEXT_END">>,
           <<"REASONING_START", "REASONING">>, <<"REASONING", "REASONING">>,
           <<"REASONING", "REASONING_END">>}
Between == {"TEXT_END", "REASONING_END", "STEP_FINISHED", "SUBAGENT_FINISHED"}

WellNested ==
  \A n \in Numbers, a \in Agents :
    LET s == Of(n, BlockEvents, a) IN
    \A i \in DOMAIN s :
      LET before == IF i = 1 THEN "STEP_FINISHED" ELSE s[i - 1].type IN
      \/ <<before, s[i].type>> \in Inside
      \/ before \in Between /\ s[i].type \in Opening \cup {"STEP_FINISHED", "SUBAGENT_FINISHED"}

\* A step's content is whole and in order: a stream shows each agent's parts one after
\* the other, none missing and none twice, and STEP_FINISHED comes after all of its
\* step's parts and before any of the next (ChunkBatcher.flush before the commit).
InStepOrder ==
  \A n \in Numbers, a \in Agents :
    LET s == Of(n, Kinds \cup {"STEP_FINISHED"}, a) IN
    \A i \in DOMAIN s :
      LET before == IF i = 1 THEN 0 ELSE s[i - 1].to IN
      IF s[i].type = "STEP_FINISHED" THEN s[i].to = before
      ELSE s[i].from = before + 1 /\ s[i].to >= s[i].from

\* What a stream shows of an agent is well nested, whole and in order, while no append fails.
StepsWhole == Spared({"append"}) => WellNested /\ InStepOrder

\* "The next segment's stream never starts while this one is still open": the stream is
\* closed before the lock is given back.  A worker that died or lost its lease, or whose
\* RUN_STARTED could not be recorded, or whose close failed, leaves its stream open
\* beside the next one.
OneOpenStream ==
  Spared({"death", "lapse", "record", "close"}) =>
    \A m, n \in Numbers : streams[m].state = "open" /\ streams[n].state = "open" => m = n

Ends == {"RUN_FINISHED", "RUN_ERROR", "RUN_LOST"}

\* The record says once how a segment ended, unless a stalled worker closes what was
\* already closed for it, or two sweeps do, or a close failed and a sweep repeats it.
EndsOnce ==
  Spared({"lapse", "overlap", "close"}) =>
    \A i, j \in DOMAIN record :
      record[i].type = "RUN_ENDED" /\ record[j] = record[i] => i = j

\* The thread record names a stream only once a reader can find it there, with its
\* RUN_STARTED first unless that was not appended or a second sweep closed the stream
\* before; it says RUN_ENDED only of a stream that holds its end, unless a close failed
\* (segment.ts openSegment, close, closeLostSegment).
RecordFollowsStream ==
  /\ EndsOnce
  /\ \A i \in DOMAIN record :
       LET s == streams[record[i].seg] IN
       CASE record[i].type = "RUN_STARTED" ->
              s.state # "absent" /\ (Spared({"append", "lapse", "overlap"}) =>
                                          s.items # <<>> /\ s.items[1].type = "RUN_STARTED")
         [] record[i].type = "RUN_ENDED" ->
              Spared({"close"}) => s.state = "closed" /\ s.items[Len(s.items)].type \in Ends

\* The sweep ends no stream that the worker holding the lock still writes.  Two sweeps
\* that overlap may: the first sends the run back to the queue, and the second reads the
\* number of the segment that is opened then (reclaim.ts reclaimLost, closeLostSegment).
NeverCutsLive ==
  [][\A s \in Sweepers :
       SweepCloses(s) /\ Spared({"overlap"}) =>
         ~\E d \in Deliveries : holder = d /\ Working(d) /\ del[d].seg = sweep[s].seg]_vars

\* The run has ended, and nobody is left to close its stream n: its worker is dead, a
\* sweep visits no thread that ended, and failLostRun closes the last number only.
Left(n) ==
  /\ done /\ ~\E d \in Deliveries : Working(d) /\ del[d].seg = n
  /\ "giveup" \in happened => counter > n

\* A reader waiting on a stream is not left waiting: the stream of a worker that lives,
\* dies, stalls or fails is ended, or a later one is opened, to which it moves.  What is
\* left out is named: a stream whose run ended after its worker died (it was stopped,
\* or a delivery in the dark ended it) or whose worker died once it had ended the run,
\* which stays until its time is over; a stream whose RUN_STARTED could not be recorded
\* or whose close failed; and, a bound of the model, a run with no delivery left.
EveryStreamEnds ==
  \A n \in Numbers :
    streams[n].state = "open" ~>
      \/ streams[n].state = "closed"
      \/ \E m \in Numbers : m > n /\ streams[m].state # "absent"
      \/ Left(n)
      \/ ~Spared({"record", "close"})
      \/ jobs > 0 /\ \A d \in Deliveries : del[d].pc # "idle"
===========================================================================
