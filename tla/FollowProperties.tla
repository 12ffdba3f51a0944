------------------------- MODULE FollowProperties -------------------------
(***************************************************************************)
(* What a reader of a thread is promised.                                  *)
(***************************************************************************)
EXTENDS Follow

Spared(kinds) == happened \cap kinds = {}

\* Rules 2 and 4 of followEvents, over reconnects: a client gets each entry of the
\* record once and in order, with none left out, from where its cursor was.
RecordWhole ==
  Spared({"prune", "storage", "expire"}) =>
    \A i \in DOMAIN client.got : client.got[i] = client.first + i - 1

\* Rule 1 of followEvents: when a follower waits for the bus, it has passed on all that
\* is stored, but for what is still on its way or was dropped.  An overflow that came while
\* it drained its queue stays unseen until the next event, and is left out.
NothingLost ==
  Spared({"drop", "prune"}) /\ events.pc = "wait" /\ ~events.over =>
    \A e \in Range(log) : e \in flight \/ e.seq <= events.last

\* A stream's items reach the client in order, none twice, and none is left out but content
\* whose message is saved (cutCommitted), whichever of cursor, snapshot and RUN_STARTED the
\* read began with.  Two cases the code
\* reads again from the start are left out (again): a snapshot whose record is older than
\* its stream by a whole segment, and a cursor without a stream of the thread's own, when
\* the stream that the connection starts from instead has ended or is not the first after
\* the cursor.
StreamExact ==
  ~client.again /\ Spared({"expire"}) => ~client.torn

\* A cursor comes from the client: no frame of another thread's stream goes out.
OnlyOwnStreams == \A i \in DOMAIN wire : wire[i].s # Foreign

\* What a client gets of the record and of the streams is theirs, whole and in order.
ReadsWhole == RecordWhole /\ StreamExact /\ OnlyOwnStreams

\* Nothing is left to do but faults.
AtRest == ~ENABLED (Writes \/ (\E e \in flight : BusDelivers(e)) \/ Follower \/ Receives)

\* The client has the last segment's stream to its end, if the record after its cursor
\* names it or its cursor does.
LastIsRead ==
  LET Named(s) == \/ client.s = s
                  \/ \E e \in Range(log) : e = [e EXCEPT !.type = "RUN_STARTED", !.s = s] /\ e.seq >= client.first
  IN writer.pc = "over" /\ Named(writer.s) /\ ~client.again => client.have[writer.s] = ItemsOfStream

\* However slow the bus is, and whatever one entry it drops, a client that stays connected
\* is not left waiting: the follow comes to rest with the last segment read to its end.
StreamsAreRead ==
  Spared({"cut", "expire", "prune", "storage"}) /\ ~events.over /\ AtRest => LastIsRead
===========================================================================
