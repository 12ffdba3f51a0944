------------------------------ MODULE Follow ------------------------------
(***************************************************************************)
(* The reader's side of a thread: followThread gives one connection the    *)
(* thread record (followEvents: subscribe, replay, go live, fill gaps) and *)
(* the run streams its RUN_STARTED entries name, as one sequence of        *)
(* frames; each frame's cursor lets the client reconnect where it was.     *)
(* threadSnapshot is read by a tab that loads and by a follower whose      *)
(* stream is gone.                                                         *)
(*                                                                         *)
(* The writer is Segments' worker, one step of one part per segment: open, *)
(* say so in the record, stream the content, save its message, finish the  *)
(* step, close, say so.  The record's entries reach the bus one by one,    *)
(* late, out of order, or not at all.                                      *)
(***************************************************************************)
EXTENDS RunStreams, FiniteSets, SequencesExt

CONSTANTS
  MaxSegments,  \* segments the writer runs
  MaxQueue,     \* MAX_LIVE_QUEUE
  MaxWire,      \* frames the follower is ahead of its client (a bound of the model)
  GapRetries,   \* GAP_RETRIES
  Starts        \* segments and faults a behaviour may have, old rows in the record (old),
                \* entries on their way to the bus at once (1 + more), and how the tab starts

Segs == 1..MaxSegments
Foreign == MaxSegments + 1      \* another thread's stream, which a cursor may name
Faults == {"drop", "cut", "expire", "prune", "storage", "notice"}
NoStreamId == 0
ItemsOfStream == 4              \* STARTED, CONTENT, STEP_FINISHED, END

ASSUME FollowAssumption ==
  /\ MaxSegments \in Nat /\ MaxQueue \in Nat \ {0} /\ MaxWire \in Nat \ {0} /\ GapRetries \in Nat
  /\ Starts \subseteq [Faults \cup {"old", "more", "segments"} -> Nat] \X {"hydrate", "none", "foreign"}

VARIABLES
  writer,    \* the segment being written, and how far it is
  streams,   \* the port
  log,       \* the thread record
  messages,  \* the content whose message is saved
  flight,    \* entries and notices on their way to the bus
  events,    \* followEvents: its pc, cursor, buffers and the event in hand
  readers,   \* the stream reads this connection started, in order
  reading,   \* the stream the last of them is for
  snap,      \* the threadSnapshot being read
  wire,      \* frames not yet received
  client,    \* the tab: where it is, its cursor (seq, s and how far it is in s) and what it received
  budget,    \* the faults left
  happened   \* the faults that happened

vars == <<writer, streams, log, messages, flight, events, readers, reading, snap, wire, client,
          budget, happened>>
world == <<writer, streams, log, messages, flight>>
server == <<events, readers, reading, snap, wire>>

NoEntry == [seq |-> 0, type |-> "none", s |-> NoStreamId]
NewEvents == [pc |-> "off", last |-> 0, pending |-> <<>>, queue |-> <<>>, over |-> FALSE,
              hand |-> NoEntry, tries |-> 0]
NewSnap == [pc |-> "off", for |-> "none", seq |-> 0, s |-> NoStreamId, off |-> 0, items |-> {},
            end |-> TRUE]

Top == IF log = <<>> THEN 0 ELSE log[Len(log)].seq
Entry(t, s) == [seq |-> Top + 1, type |-> t, s |-> s]

Item(t, s) == [type |-> t, s |-> s]

Init ==
  \E b \in Starts :
    /\ budget = b[1] /\ happened = {}
    /\ writer = [s |-> 1, pc |-> "open"]
    /\ streams = [s \in Segs \cup {Foreign} |->
                    IF s = Foreign THEN [state |-> "open", items |-> <<Item("STARTED", s)>>] ELSE NoStream]
    /\ log = IF b[1]["old"] > 0 THEN <<[seq |-> 1, type |-> "OLD", s |-> NoStreamId]>> ELSE <<>>
    /\ messages = {} /\ flight = {}
    /\ events = NewEvents /\ readers = <<>> /\ reading = NoStreamId /\ snap = NewSnap
    /\ wire = <<>>
    /\ client = [at |-> IF b[2] = "hydrate" THEN "new" ELSE "away", start |-> b[2],
                 seq |-> 0, s |-> IF b[2] = "foreign" THEN Foreign ELSE NoStreamId,
                 have |-> [s \in Segs \cup {Foreign, NoStreamId} |-> 0], first |-> 1, again |-> FALSE, got |-> <<>>, torn |-> FALSE]

Use(f) ==
  /\ budget[f] > 0
  /\ budget' = [budget EXCEPT ![f] = @ - 1]
  /\ happened' = happened \cup {f}

---------------------------------------------------------------------------
(* The writer *)

\* An entry is stored, then sent.
Recorded(t, s) ==
  /\ Cardinality(flight) <= budget["more"]
  /\ log' = Append(log, Entry(t, s))
  /\ flight' = flight \cup {Entry(t, s)}

Streamed(s, t) == streams' = [streams EXCEPT ![s] = Appended(@, <<Item(t, s)>>)]

Writes ==
  LET s == writer.s
      Goes(pc) == writer' = [writer EXCEPT !.pc = pc]
  IN
  /\ CASE writer.pc = "open" ->
            /\ streams' = [streams EXCEPT ![s] = Appended(Opened(@), <<Item("STARTED", s)>>)]
            /\ Goes("record") /\ UNCHANGED <<log, flight, messages>>
       [] writer.pc = "record" ->
            Recorded("RUN_STARTED", s) /\ Goes("content") /\ UNCHANGED <<streams, messages>>
       [] writer.pc = "content" ->
            Streamed(s, "CONTENT") /\ Goes("save") /\ UNCHANGED <<log, flight, messages>>
       [] writer.pc = "save" ->
            messages' = messages \cup {s} /\ Goes("finish") /\ UNCHANGED <<streams, log, flight>>
       [] writer.pc = "finish" ->
            Streamed(s, "STEP_FINISHED") /\ Goes("close") /\ UNCHANGED <<log, flight, messages>>
       [] writer.pc = "close" ->
            /\ streams' = [streams EXCEPT ![s] = Closed(@, Item("END", s))]
            /\ Goes("end") /\ UNCHANGED <<log, flight, messages>>
       [] writer.pc = "end" ->
            /\ Recorded("RUN_ENDED", s)
            /\ writer' = IF s < budget["segments"] THEN [s |-> s + 1, pc |-> "open"]
                         ELSE [s |-> s, pc |-> "over"]
            /\ UNCHANGED <<streams, messages>>
       [] OTHER -> FALSE
  /\ UNCHANGED <<events, readers, reading, snap, wire, client, budget, happened>>

\* A notice is sent and never stored.
Notice ==
  /\ Use("notice") /\ Cardinality(flight) <= budget["more"]
  /\ flight' = flight \cup {NoEntry}
  /\ UNCHANGED <<writer, streams, log, messages, events, readers, reading, snap, wire, client>>

\* The grace window of a closed stream is over.
Expire(s) ==
  /\ streams[s].state = "closed" /\ Use("expire")
  /\ streams' = [streams EXCEPT ![s] = Expired(@)]
  /\ UNCHANGED <<writer, log, messages, flight, events, readers, reading, snap, wire, client>>

\* pruneEvents deletes what an older release left in the record.
Prune ==
  /\ Use("prune")
  /\ log' = SelectSeq(log, LAMBDA e : e.type # "OLD")
  /\ UNCHANGED <<writer, streams, messages, flight, events, readers, reading, snap, wire, client>>

---------------------------------------------------------------------------
(* The bus *)

\* Once live, the follower drains its queue, waits for an event, and looks at the overflow
\* only when one has woken it.
Live == events.pc \in {"drain", "wait", "woken"}

\* The bus is joined once the record is replayed.
SubscribedLate == Live                                                  \* mutant

Subscribed == events.pc \notin {"off", "subscribe"}

Queued(e) ==
  [events EXCEPT !.pc = IF @ = "wait" THEN "woken" ELSE @, !.queue = Append(@, e)]

\* What the subscription's handler does with an event.
Handled(e) ==
  IF ~Live THEN [events EXCEPT !.pending = Append(@, e)]
  ELSE IF Len(events.queue) >= MaxQueue THEN [Queued(e) EXCEPT !.queue = <<e>>, !.over = TRUE]
  ELSE Queued(e)

BusDelivers(e) ==
  /\ flight' = flight \ {e}
  /\ events' = IF Subscribed THEN Handled(e) ELSE events
  /\ UNCHANGED <<writer, streams, log, messages, readers, reading, snap, wire, client, budget, happened>>

BusDrops(e) ==
  /\ Use("drop")
  /\ flight' = flight \ {e}
  /\ UNCHANGED <<writer, streams, log, messages, events, readers, reading, snap, wire, client>>

---------------------------------------------------------------------------
(* Frames, and the read of a stream *)

ThreadFrame(e) == [kind |-> "thread", seq |-> e.seq, s |-> NoStreamId, off |-> 0]
StreamFrame(s, i) == [kind |-> "stream", seq |-> 0, s |-> s, off |-> i]
SnapFrame(p) == [kind |-> "snapshot", seq |-> p.seq, s |-> p.s, off |-> p.off, items |-> p.items]

\* readStream: of the reads so far, the last is stopped, unless it is for this stream.
Reads(rs, cur, s, after, fromCursor) ==
  IF cur = s THEN rs
  ELSE Append([i \in DOMAIN rs |-> [rs[i] EXCEPT !.stopped = TRUE]],
              [s |-> s, next |-> after, till |-> after, on |-> TRUE, stopped |-> FALSE,
               own |-> fromCursor])

\* Entries go out in order; a RUN_STARTED moves the read to its stream.
Moved(es) ==
  FoldLeft(LAMBDA acc, e :
             IF e.type = "RUN_STARTED"
             THEN [rs |-> Reads(acc.rs, acc.cur, e.s, 0, FALSE), cur |-> e.s]
             ELSE acc,
           [rs |-> readers, cur |-> reading], es)

Emit(es) ==
  /\ Len(wire) < MaxWire
  /\ wire' = wire \o [i \in DOMAIN es |-> ThreadFrame(es[i])]
  /\ readers' = Moved(es).rs /\ reading' = Moved(es).cur

Gone(s) == streams[s].state \in {"gone", "absent"}

\* What a read found goes out item by item, and still does once the read is stopped; the
\* end item ends it.
ReaderYields(i) ==
  LET r == readers[i]
      items == streams[r.s].items
      found == IF r.next < r.till THEN r.till ELSE Len(items)
  IN
  /\ r.on /\ Len(wire) < MaxWire
  /\ r.next < r.till \/ (~r.stopped /\ r.next < Len(items))
  /\ wire' = Append(wire, StreamFrame(r.s, r.next + 1))
  /\ readers' = [readers EXCEPT ![i] =
                   [r EXCEPT !.next = @ + 1, !.till = found, !.on = r.next + 1 # ItemsOfStream]]
  /\ UNCHANGED <<world, events, reading, snap, client, budget, happened>>

\* A read ends when it was stopped, when it began behind the end item, and when its
\* stream is gone; when that was the client's own, the client is caught up.
ReaderEnds(i) ==
  LET r == readers[i] IN
  /\ r.on /\ r.next = r.till
  /\ r.stopped \/ Gone(r.s) \/ r.next = ItemsOfStream
  /\ readers' = [readers EXCEPT ![i].on = FALSE]
  /\ snap' = IF Gone(r.s) /\ r.own /\ ~r.stopped
             THEN [NewSnap EXCEPT !.pc = "record", !.for = "catchup"] ELSE snap
  /\ UNCHANGED <<world, events, reading, wire, client, budget, happened>>

---------------------------------------------------------------------------
(* threadSnapshot, one action per read another process can come between; *)
(* the messages it reads first are ThreadCards' and AgentThread's.        *)

SnapRecord ==
  /\ snap.pc = "record"
  /\ snap' = [snap EXCEPT !.pc = "named", !.seq = Top]
  /\ UNCHANGED <<world, events, readers, reading, wire, client, budget, happened>>

Latest(t) ==
  IF \E i \in DOMAIN log : log[i].type = t
  THEN (CHOOSE e \in Range(log) : e.type = t /\ \A f \in Range(log) : f.type = t => f.seq <= e.seq).s
  ELSE NoStreamId

\* snapshotStream: the latest segment that started; one that ended a while ago is left out.
SnapNamed ==
  /\ snap.pc = "named"
  /\ \E s \in {Latest("RUN_STARTED")} \cup
                (IF Latest("RUN_ENDED") = Latest("RUN_STARTED") THEN {NoStreamId} ELSE {}) :
       snap' = [snap EXCEPT !.pc = IF s = NoStreamId THEN "done" ELSE "stream", !.s = s]
  /\ UNCHANGED <<world, events, readers, reading, wire, client, budget, happened>>

\* cutCommitted: the content before the last finished step is left out. With this mutant,
\* all content is.
UncutNone(items) == {i \in DOMAIN items : items[i].type # "CONTENT"}            \* mutant
Uncut(items) ==
  LET Finished(i) == \E j \in DOMAIN items : j > i /\ items[j].type = "STEP_FINISHED"
  IN  {i \in DOMAIN items : items[i].type = "CONTENT" => ~Finished(i)}

SnapStream ==
  LET st == streams[snap.s] IN
  /\ snap.pc = "stream"
  /\ snap' = IF Snapshot(st)
             THEN [snap EXCEPT !.pc = "done", !.off = Len(st.items), !.items = Uncut(st.items),
                               !.end = st.state = "closed"]
             ELSE [snap EXCEPT !.pc = "done", !.s = NoStreamId]
  /\ UNCHANGED <<world, events, readers, reading, wire, client, budget, happened>>

\* The record up to seq lacks the start of a segment before the snapshot's.
Behind(seq) == \E e \in Range(log) : e.type = "RUN_STARTED" /\ e.seq > seq /\ e.s < snap.s

---------------------------------------------------------------------------
(* A connection *)

\* A tab loads the thread, and follows from there.
Hydrates ==
  /\ client.at = "new" /\ snap.pc = "off"
  /\ snap' = [NewSnap EXCEPT !.pc = "record", !.for = "hydrate"]
  /\ UNCHANGED <<world, events, readers, reading, wire, client, budget, happened>>

\* A frame that tears its stream: past what the client has it leaves out an item other than
\* content whose message is saved, or it gives one out again.
Skips(s, left) ==
  \E i \in left :
    ~(i \in DOMAIN streams[s].items /\ streams[s].items[i].type = "CONTENT" /\ s \in messages)
Tears(f) ==
  LET have == client.have[f.s] IN
  CASE f.kind = "stream" -> f.off <= have \/ Skips(f.s, have + 1 .. f.off - 1)
    [] f.kind = "snapshot" -> Skips(f.s, (have + 1 .. f.off) \ f.items)
    [] OTHER -> FALSE

Hydrated ==
  /\ snap.pc = "done" /\ snap.for = "hydrate"
  /\ client' = [client EXCEPT !.at = "away", !.seq = snap.seq, !.s = snap.s, !.have[snap.s] = snap.off,
                              !.first = snap.seq + 1, !.again = Behind(snap.seq), !.torn = Tears(SnapFrame(snap))]
  /\ snap' = NewSnap
  /\ UNCHANGED <<world, events, readers, reading, wire, budget, happened>>

\* followThread begins: with the cursor's stream when it is this thread's and there,
\* with a snapshot when it is not, and without one from the stream in flight.
Connects ==
  LET own == client.s \in Segs /\ Snapshot(streams[client.s]) IN
  /\ client.at = "away"
  /\ client' = [client EXCEPT !.at = "on"]
  /\ IF own
     THEN /\ readers' = Reads(<<>>, NoStreamId, client.s, client.have[client.s], TRUE)
          /\ reading' = client.s
          /\ events' = [NewEvents EXCEPT !.pc = "subscribe", !.last = client.seq]
          /\ UNCHANGED snap
     ELSE /\ snap' = IF client.s # NoStreamId THEN [NewSnap EXCEPT !.pc = "record", !.for = "begin"]
                     ELSE [NewSnap EXCEPT !.pc = "named", !.for = "plain"]
          /\ UNCHANGED <<readers, reading, events>>
  /\ UNCHANGED <<world, wire, budget, happened>>

\* The snapshot goes out, or what cutCommitted leaves of the stream in flight, and its
\* stream is read on.  A follow that begins with it subscribes next.
SnapDone ==
  LET left == SelectSeq([i \in 1..snap.off |-> i], LAMBDA i : i \in snap.items)
      items == [i \in DOMAIN left |-> StreamFrame(snap.s, left[i])]
      follow == snap.s # NoStreamId /\ ~snap.end
  IN
  /\ snap.pc = "done" /\ snap.for \in {"begin", "plain", "catchup"}
  /\ wire' = IF snap.for # "plain" THEN Append(wire, SnapFrame(snap))
             ELSE IF snap.s = NoStreamId THEN wire ELSE wire \o items
  /\ readers' = IF follow THEN Reads(readers, reading, snap.s, snap.off, FALSE) ELSE readers
  /\ reading' = IF follow THEN snap.s ELSE reading
  /\ events' = IF snap.for = "catchup" THEN events
               ELSE [NewEvents EXCEPT !.pc = "subscribe", !.last = client.seq]
  /\ client' = [client EXCEPT !.again = @ \/ (snap.for # "catchup" /\ (Behind(client.seq) \/ (snap.s # NoStreamId /\ snap.end)))]
  /\ snap' = NewSnap
  /\ UNCHANGED <<world, budget, happened>>

---------------------------------------------------------------------------
(* followEvents *)

Subscribe ==
  /\ events.pc = "subscribe"
  /\ events' = [events EXCEPT !.pc = "replay"]
  /\ UNCHANGED <<world, readers, reading, snap, wire, client, budget, happened>>

\* What is stored after the cursor, and before a given entry.
Stored(last, upTo) == SelectSeq(log, LAMBDA e : e.seq > last /\ e.seq < upTo)
Reached(es, last) == IF es = <<>> THEN last ELSE es[Len(es)].seq
All == Top + 1

Replay ==
  LET es == Stored(events.last, All) IN
  /\ events.pc = "replay"
  /\ Emit(es)
  /\ events' = [events EXCEPT !.pc = "pending", !.last = Reached(es, @),
                              !.pending = SortSeq(@, LAMBDA e, f : e.seq < f.seq)]
  /\ UNCHANGED <<world, snap, client, budget, happened>>

\* The next event comes to hand: what came during the replay first, then the live queue.
Takes ==
  /\ events.hand = NoEntry
  /\ \/ /\ events.pc = "pending" /\ events.pending # <<>>
        /\ events' = [events EXCEPT !.hand = Head(events.pending), !.pending = Tail(events.pending),
                                    !.tries = 0]
     \/ /\ events.pc = "drain" \/ (events.pc = "woken" /\ ~events.over)
        /\ events.queue # <<>>
        /\ events' = [events EXCEPT !.pc = "drain", !.hand = Head(events.queue), !.queue = Tail(events.queue),
                                    !.tries = 0]
  /\ UNCHANGED <<world, readers, reading, snap, wire, client, budget, happened>>

\* What came during the replay is out.
GoesLive ==
  /\ events.pc = "pending" /\ events.pending = <<>> /\ events.hand = NoEntry
  /\ events' = [events EXCEPT !.pc = "drain"]
  /\ UNCHANGED <<world, readers, reading, snap, wire, client, budget, happened>>

Waits ==
  /\ events.pc = "drain" /\ events.queue = <<>> /\ events.hand = NoEntry
  /\ events' = [events EXCEPT !.pc = "wait"]
  /\ UNCHANGED <<world, readers, reading, snap, wire, client, budget, happened>>

\* What the queue kept is all there is.
CatchesUpWithQueue ==                                                   \* mutant
  /\ events.pc = "woken" /\ events.over
  /\ events' = [events EXCEPT !.pc = "drain", !.over = FALSE]
  /\ UNCHANGED <<world, readers, reading, snap, wire, client, budget, happened>>

\* The consumer fell behind: the log has what the queue lost.
CatchesUp ==
  LET es == Stored(events.last, All) IN
  /\ events.pc = "woken" /\ events.over
  /\ Emit(es)
  /\ events' = [events EXCEPT !.pc = "drain", !.over = FALSE, !.queue = <<>>, !.last = Reached(es, @)]
  /\ UNCHANGED <<world, snap, client, budget, happened>>

Gap == events.hand.seq > events.last + 1 /\ events.tries < GapRetries

\* deliver: an event that jumps has the gap read back first; storage may fail.
FillsGap ==
  LET es == Stored(events.last, events.hand.seq) IN
  /\ Gap
  /\ \/ /\ Emit(es)
        /\ events' = [events EXCEPT !.last = Reached(es, @), !.tries = @ + 1]
        /\ UNCHANGED <<budget, happened>>
     \/ /\ Use("storage")
        /\ events' = [events EXCEPT !.tries = GapRetries]
        /\ UNCHANGED <<readers, reading, wire>>
  /\ UNCHANGED <<world, snap, client>>

Delivers ==
  LET e == events.hand IN
  /\ e # NoEntry /\ ~Gap
  /\ Emit(IF e.seq > events.last THEN <<e>> ELSE <<>>)
  /\ events' = [events EXCEPT !.hand = NoEntry, !.last = IF e.seq > @ THEN e.seq ELSE @]
  /\ UNCHANGED <<world, snap, client, budget, happened>>

---------------------------------------------------------------------------
(* The client's end of the wire *)

\* followFrame: the cursor a frame carries.
Cursored(c, f) ==
  CASE f.kind = "thread" -> IF f.seq > 0 THEN [c EXCEPT !.seq = f.seq] ELSE c
    [] f.kind = "stream" -> [c EXCEPT !.s = f.s, !.have[f.s] = f.off]
    [] OTHER -> [c EXCEPT !.seq = f.seq, !.s = f.s, !.have[f.s] = f.off]

Receives ==
  LET f == Head(wire) IN
  /\ client.at = "on" /\ wire # <<>>
  /\ wire' = Tail(wire)
  /\ client' = [Cursored(client, f) EXCEPT
                  !.got = IF f.kind = "thread" /\ f.seq > 0 THEN Append(@, f.seq) ELSE @,
                  !.torn = @ \/ Tears(f)]
  /\ UNCHANGED <<world, events, readers, reading, snap, budget, happened>>

\* The connection drops; what was on the wire is lost with it.
Cut ==
  /\ client.at = "on" /\ Use("cut")
  /\ client' = [client EXCEPT !.at = "away"]
  /\ events' = NewEvents /\ readers' = <<>> /\ reading' = NoStreamId /\ snap' = NewSnap /\ wire' = <<>>
  /\ UNCHANGED world

---------------------------------------------------------------------------
Bus == \E e \in flight : BusDelivers(e) \/ BusDrops(e)

Faulty == Notice \/ Prune \/ \E s \in Segs : Expire(s)

Snapshots == SnapRecord \/ SnapNamed \/ SnapStream \/ SnapDone

Follower ==
  \/ Hydrates \/ Hydrated \/ Connects \/ Snapshots
  \/ Subscribe \/ Replay \/ Takes \/ GoesLive \/ Waits \/ CatchesUp \/ FillsGap \/ Delivers
  \/ \E i \in DOMAIN readers : ReaderYields(i) \/ ReaderEnds(i)

Next == Writes \/ Faulty \/ Bus \/ Follower \/ Receives \/ Cut

Spec == Init /\ [][Next]_vars
===========================================================================
