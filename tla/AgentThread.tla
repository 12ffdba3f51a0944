---------------------------- MODULE AgentThread ----------------------------
(***************************************************************************)
(* useAgentThread: a tab that shows one thread.  It reads the thread once  *)
(* (hydrate), then follows it (applyFrame), sends turns of its own that it *)
(* shows before the server has them (run), and goes to another thread and  *)
(* back (the threadId effect).  Its requests and the stream outlive the    *)
(* moment they were made for.                                              *)
(*                                                                         *)
(* The server writes one thread, Home, as Segments, Follow and             *)
(* RunLifecycle describe it: its notices reach only who is connected, the  *)
(* record and the streams are sent again from the cursor.                  *)
(***************************************************************************)
EXTENDS Naturals, FiniteSets, SequencesExt

CONSTANTS
  Starts    \* budgets (turns other tabs send, steps of a run, faults) and the thread shown first

Home == "home"
Away == "away"        \* another thread: one message and no run
NoThread == "none"    \* a new thread, which the server makes Home of
Faults == {"fail", "park", "stop", "switch", "drop", "resend", "close", "gone", "refuse"}

VARIABLES
  server,   \* Home's run: how far it is, its step, attempt and segment, and the state
  messages, \* Home's messages
  log,      \* what Home published: the record's entries (n > 0) and notices (n = 0)
  streams,  \* Home's run streams
  tab,      \* the hook's state
  history,  \* the history request under way
  send,     \* the run request under way
  conn,     \* the stream connection: frames on their way
  budget,   \* what may still happen
  happened  \* what did

vars == <<server, messages, log, streams, tab, history, send, conn, budget, happened>>
home == <<server, messages, log, streams>>

Use(f) ==
  /\ budget[f] > 0
  /\ budget' = [budget EXCEPT ![f] = @ - 1]
  /\ happened' = happened \cup ({f} \cap Faults)

Active == {"QUEUED", "RUNNING", "WAITING_FOR_INPUT"}
User(who, k) == [id |-> <<who, k>>, text |-> <<<<who, k>>>>]
Top == Cardinality({i \in DOMAIN log : log[i].n > 0})
Notice(t, v) == [n |-> 0, type |-> t, v |-> v]
Entry(t, v) == [n |-> Top + 1, type |-> t, v |-> v]

NoDelta == [text |-> <<>>, n |-> 0, floor |-> 0]
NoTurn == <<"none", 0>>
NoHistory == [pc |-> "off", for |-> NoThread, snap |-> <<>>, late |-> <<>>]
NoSend == [pc |-> "off"]
NoConn == [on |-> FALSE, lost |-> FALSE, missed |-> FALSE, wire |-> <<>>, items |-> <<>>, s |-> 0,
           from |-> [seq |-> 0, s |-> 0, off |-> 0], last |-> NoTurn]
NewTab(t) ==
  [thread |-> t, shown |-> NoThread, gen |-> 0, ran |-> <<NoThread, 0>>,
   entries |-> <<>>, delta |-> NoDelta, seq |-> 0, s |-> 0, off |-> 0, seen |-> {},
   known |-> <<>>, live |-> 0, floor |-> 0, state |-> "IDLE", inputs |-> {}, sends |-> 0]

Init ==
  \E b \in Starts :
    /\ budget = b[1] /\ happened = {}
    /\ server = [pc |-> "idle", run |-> 0, step |-> 0, att |-> 0, seg |-> 0, state |-> "IDLE"]
    /\ messages = <<>> /\ log = <<>> /\ streams = <<>>
    /\ tab = NewTab(b[2])
    /\ history = NoHistory /\ send = NoSend /\ conn = NoConn

---------------------------------------------------------------------------
(* Home, and what of it reaches the tab *)

\* Entries and notices es, and items of the run's stream.  A notice that finds the tab
\* without a connection is lost to it.
Out(es, items) ==
  LET s == server.seg
      offs == [i \in DOMAIN items |-> <<s, Len(streams[s]) + i>>]
  IN
  /\ log' = log \o es
  /\ streams' = IF items = <<>> THEN streams ELSE [streams EXCEPT ![s] = @ \o items]
  /\ conn' = IF ~conn.on THEN [conn EXCEPT !.missed = @ \/ \E i \in DOMAIN es : es[i].n = 0]
             ELSE [conn EXCEPT !.wire = @ \o es, !.items = IF conn.s = s THEN @ \o offs ELSE @]
  /\ UNCHANGED <<tab, history>>

Item(t, v) == [type |-> t, v |-> v]
StepText == <<"text", server.run, server.step, server.att>>
State(st) == Notice("STATE_CHANGE", st)

\* A run is accepted, of another tab or of this one: an edit drops the turn and what
\* followed it, then the turn is saved.
Dispatched(m, from) ==
  LET at == SelectInSeq(messages, LAMBDA x : x.id = from) IN
  /\ messages' = Append(IF at > 0 THEN SubSeq(messages, 1, at - 1) ELSE messages, m)
  /\ Out((IF at > 0 THEN <<Entry("MESSAGES_DROPPED", from)>> ELSE <<>>)
         \o <<Notice("MESSAGE_APPENDED", m), State("QUEUED")>>, <<>>)
  /\ server' = [server EXCEPT !.pc = "queued", !.run = @ + 1, !.step = 1, !.att = 1, !.state = "QUEUED"]

OtherSends ==
  /\ server.state \notin Active /\ Use("turns")
  /\ Dispatched(User("other", server.run + 1), NoTurn)
  /\ UNCHANGED send

Runs ==
  /\ server.pc = "queued"
  /\ server' = [server EXCEPT !.pc = "text", !.seg = @ + 1, !.state = "RUNNING"]
  /\ log' = log \o <<State("RUNNING"), Entry("RUN_STARTED", server.seg + 1)>>
  /\ streams' = Append(streams, <<>>)
  /\ conn' = IF conn.on THEN [conn EXCEPT !.wire = @ \o <<State("RUNNING"), Entry("RUN_STARTED", server.seg + 1)>>]
             ELSE [conn EXCEPT !.missed = TRUE]
  /\ UNCHANGED <<messages, tab, history, send, budget, happened>>

Streams ==
  /\ server.pc = "text"
  /\ server' = [server EXCEPT !.pc = "save"]
  /\ Out(<<>>, <<Item("TEXT", StepText)>>)
  /\ UNCHANGED <<messages, send, budget, happened>>

Saves ==
  /\ server.pc = "save"
  /\ server' = [server EXCEPT !.pc = "finish"]
  /\ messages' = Append(messages, [id |-> <<"step", server.run, server.step>>, text |-> <<StepText>>])
  /\ UNCHANGED <<log, streams, tab, history, send, conn, budget, happened>>

StepEnds ==
  /\ server.pc = "finish"
  /\ server' = [server EXCEPT !.pc = "next"]
  /\ Out(<<>>, <<Item("STEP_FINISHED", <<>>)>>)
  /\ UNCHANGED <<messages, send, budget, happened>>

NextStep ==
  /\ server.pc = "next" /\ Use("steps")
  /\ server' = [server EXCEPT !.pc = "text", !.step = @ + 1, !.att = 1]
  /\ UNCHANGED <<messages, log, streams, tab, history, send, conn>>

\* The step's text is lost with it; a retry streams it again, in a segment of its own.
Fails ==
  /\ server.pc = "save" /\ Use("fail")
  /\ server' = [server EXCEPT !.pc = "queued", !.att = @ + 1, !.state = "QUEUED"]
  /\ Out(<<State("QUEUED")>>, <<Item("RUN_ERROR", <<>>)>>)
  /\ UNCHANGED <<messages, send>>

Ends ==
  /\ server.pc = "next"
  /\ server' = [server EXCEPT !.pc = "idle", !.state = "COMPLETED"]
  /\ Out(<<State("COMPLETED")>>, <<Item("RUN_FINISHED", <<>>)>>)
  /\ UNCHANGED <<messages, send, budget, happened>>

\* A step asks a person: the request is in the record and in the stream, which ends.
Parks ==
  /\ server.pc = "next" /\ Use("park")
  /\ server' = [server EXCEPT !.pc = "parked", !.state = "WAITING_FOR_INPUT"]
  /\ Out(<<Entry("INPUT_REQUIRED", server.run), State("WAITING_FOR_INPUT")>>,
         <<Item("INPUT_REQUIRED", server.run), Item("RUN_FINISHED", <<>>)>>)
  /\ UNCHANGED <<messages, send>>

\* An answer lands, and the run is resumed.
Answered ==
  /\ server.pc = "parked"
  /\ server' = [server EXCEPT !.pc = "queued", !.step = @ + 1, !.att = 1]
  /\ Out(<<Entry("HITL_RESPONSE", server.run)>>, <<>>)
  /\ UNCHANGED <<messages, send, budget, happened>>

Stopped ==
  /\ server.pc = "parked" /\ Use("stop")
  /\ server' = [server EXCEPT !.pc = "idle", !.state = "CANCELLED"]
  /\ Out(<<State("CANCELLED")>>, <<>>)
  /\ UNCHANGED <<messages, send>>

---------------------------------------------------------------------------
(* What the tab shows *)

\* A delta goes onto the last live entry when that is of the same step, else into one
\* of its own.
Shown(es, d) ==
  LET last == es[Len(es)] IN
  IF d.text = <<>> THEN es
  ELSE IF es # <<>> /\ last.k = "live" /\ last.n > d.floor
  THEN ReplaceAt(es, Len(es), [last EXCEPT !.text = @ \o d.text])
  ELSE Append(es, [k |-> "live", id |-> <<"live", d.n>>, text |-> d.text, n |-> d.n])

Flushed(c) == [c EXCEPT !.entries = Shown(@, c.delta), !.delta = NoDelta]

QueueDelta(c, text) ==
  [c EXCEPT !.live = @ + 1,
            !.delta = IF @.text = <<>> THEN [text |-> text, n |-> c.live + 1, floor |-> c.floor]
                      ELSE [@ EXCEPT !.text = @ \o text]]

Durable(m) == [k |-> "msg", id |-> m.id, text |-> m.text, n |-> 0]
Optimistic(m) == [k |-> "sent", id |-> m.id, text |-> m.text, n |-> 0]

\* MESSAGE_APPENDED: what is here already stays, an optimistic turn is confirmed.
Appended(es, m) ==
  LET Here(k) == SelectInSeq(es, LAMBDA e : e.k = k /\ e.id = m.id) IN
  IF Here("msg") > 0 THEN es
  ELSE IF Here("sent") > 0 THEN ReplaceAt(es, Here("sent"), Durable(m))
  ELSE Append(es, Durable(m))

Dropped(es, from) ==
  LET at == SelectInSeq(es, LAMBDA e : e.k = "msg" /\ e.id = from) IN
  IF at = 0 THEN es ELSE SubSeq(es, 1, at - 1)

StateChanged(c, st) == [c EXCEPT !.state = st, !.inputs = IF st = "WAITING_FOR_INPUT" THEN @ ELSE {}]
Requested(c, r) == [c EXCEPT !.state = "WAITING_FOR_INPUT", !.inputs = @ \cup {r}]
Responded(c, r) == [c EXCEPT !.inputs = @ \ {r}]

\* applyEvent: an entry that was applied is dropped; the text before one is shown first.
ApplyEvent(c, e) ==
  LET d == [Flushed(c) EXCEPT !.seq = IF e.n > 0 THEN e.n ELSE @] IN
  CASE e.n > 0 /\ e.n <= c.seq -> c
    [] e.type = "STATE_CHANGE" -> StateChanged(d, e.v)
    [] e.type = "MESSAGE_APPENDED" -> [d EXCEPT !.entries = Appended(@, e.v)]
    [] e.type = "MESSAGES_DROPPED" -> [d EXCEPT !.entries = Dropped(@, e.v)]
    [] e.type = "INPUT_REQUIRED" -> Requested(d, e.v)
    [] e.type = "HITL_RESPONSE" -> Responded(d, e.v)
    [] OTHER -> d

\* A new stream starts its own cursor.
OnStream(c, s) == IF c.s = s THEN c ELSE [c EXCEPT !.s = s, !.off = 0, !.seen = {}, !.floor = c.live]

\* An item that was applied is applied again.
ApplyItemAgain(c, s, i) ==                                              \* mutant
  LET item == streams[s][i]
      at == [OnStream(c, s) EXCEPT !.off = i]
      f == Flushed(at)
  IN
  CASE item.type = "TEXT" -> QueueDelta(at, <<item.v>>)
    [] item.type = "STEP_FINISHED" -> [f EXCEPT !.floor = f.live]
    [] item.type = "RUN_ERROR" -> [f EXCEPT !.entries = SelectSeq(@, LAMBDA e : e.n <= f.floor)]
    [] item.type = "INPUT_REQUIRED" -> ApplyEvent(at, Notice("INPUT_REQUIRED", item.v))
    [] OTHER -> at

\* applyStreamItem: a failed step's text goes, a finished step's is there to stay.
ApplyItem(c, s, i) ==
  LET item == streams[s][i]
      at == [OnStream(c, s) EXCEPT !.seen = @ \cup {i}, !.off = i]
      f == Flushed(at)
  IN
  CASE i \in OnStream(c, s).seen -> OnStream(c, s)
    [] item.type = "TEXT" -> QueueDelta(at, <<item.v>>)
    [] item.type = "STEP_FINISHED" -> [f EXCEPT !.floor = f.live]
    [] item.type = "RUN_ERROR" -> [f EXCEPT !.entries = SelectSeq(@, LAMBDA e : e.n <= f.floor)]
    [] item.type = "INPUT_REQUIRED" -> ApplyEvent(at, Notice("INPUT_REQUIRED", item.v))
    [] OTHER -> at

\* What threadSnapshot reads: the run's record entries while it is active, and of its
\* stream what no finished step has saved.
Uncut(s) ==
  LET Committed(i) == \E j \in DOMAIN streams[s] : j > i /\ streams[s][j].type = "STEP_FINISHED" IN
  SelectSeq([i \in DOMAIN streams[s] |-> i], LAMBDA i : streams[s][i].type # "TEXT" \/ ~Committed(i))

Snapshot(t, withStream) ==
  IF t = Away THEN [messages |-> <<User("away", 0)>>, state |-> "IDLE", seq |-> 0, events |-> <<>>, s |-> 0,
                    items |-> <<>>, off |-> 0]
  ELSE LET s == IF withStream THEN Len(streams) ELSE 0 IN
    [messages |-> messages, state |-> server.state, seq |-> Top,
     events |-> SelectSeq(log, LAMBDA e : /\ server.state \in Active
                                          /\ e.type \in {"INPUT_REQUIRED", "HITL_RESPONSE"} /\ e.v = server.run),
     s |-> s, items |-> IF s = 0 THEN <<>> ELSE Uncut(s), off |-> IF s = 0 THEN 0 ELSE Len(streams[s])]

\* hydrate.
Hydrated(c, snap) ==
  LET clean == [c EXCEPT !.delta = NoDelta, !.known = snap.messages, !.inputs = {}, !.state = snap.state, !.seq = 0,
                         !.entries = [i \in DOMAIN snap.messages |-> Durable(snap.messages[i])]]
      events == [FoldLeft(ApplyEvent, clean, snap.events) EXCEPT !.s = 0, !.off = 0, !.seen = {}]
      items == FoldLeft(LAMBDA x, i : ApplyItem(x, snap.s, i), events, snap.items)
      shown == Flushed(items)
  IN [shown EXCEPT !.s = snap.s, !.off = snap.off, !.seq = IF snap.seq > @ THEN snap.seq ELSE @]

---------------------------------------------------------------------------
(* The thread effect: load, then follow *)

Cleared(c) ==
  [c EXCEPT !.entries = <<>>, !.delta = NoDelta, !.seq = 0, !.s = 0, !.off = 0, !.seen = {}, !.known = <<>>,
            !.inputs = {}]

\* The user goes to another thread.
Select ==
  /\ \E t \in {Home, Away} \ {tab.thread} : tab' = [tab EXCEPT !.thread = t]
  /\ Use("switch")
  /\ UNCHANGED <<home, history, send, conn>>

\* The threadId effect: the old stream is closed and an old request cancelled, another
\* thread's state goes (an optimistic turn of no thread stays), and the thread is read.
Effect ==
  LET c == Flushed(tab) IN
  /\ tab.ran # <<tab.thread, tab.gen>> /\ tab.thread # NoThread
  /\ tab' = [(IF c.shown \notin {NoThread, c.thread} THEN Cleared(c) ELSE c) EXCEPT
               !.shown = c.thread, !.ran = <<c.thread, c.gen>>]
  /\ conn' = NoConn
  /\ history' = [pc |-> "asked", for |-> tab.thread, snap |-> <<>>,
                 late |-> IF history.pc = "read" THEN <<history.snap>> ELSE history.late]
  /\ happened' = happened \cup (IF c.shown = NoThread /\ c.thread = Away /\ c.entries # <<>>
                                THEN {"elsewhere"} ELSE {})
  /\ UNCHANGED <<home, send, budget>>

\* The park is over, and its stream still says it waits.
OverPark(s, items) == server.pc # "parked" /\ \E i \in Range(items) : streams[s][i].type = "INPUT_REQUIRED"

\* The server answers; the stream of a run that ended a while ago is left out.
HistoryRead ==
  /\ history.pc = "asked"
  /\ \E withStream \in IF history.for = Away \/ streams = <<>> THEN {FALSE}
                       ELSE IF server.state \in Active THEN {TRUE} ELSE BOOLEAN :
       LET snap == Snapshot(history.for, withStream) IN
       /\ history' = [history EXCEPT !.pc = "read", !.snap = snap]
       /\ happened' = happened \cup (IF history.for = Home /\ server.pc = "finish" THEN {"between"} ELSE {})
                               \cup (IF OverPark(snap.s, snap.items) THEN {"over"} ELSE {})
  /\ conn' = [conn EXCEPT !.missed = FALSE]
  /\ UNCHANGED <<home, tab, send, budget>>

HistoryLands ==
  /\ history.pc = "read"
  /\ tab' = Hydrated(tab, history.snap)
  /\ history' = [history EXCEPT !.pc = "done", !.snap = <<>>]
  /\ UNCHANGED <<home, send, conn, budget, happened>>

\* An answer the tab no longer waits for is shown.
LateLandsAnyway ==                                                      \* mutant
  /\ history.late # <<>>
  /\ tab' = Hydrated(tab, history.late[1])
  /\ history' = [history EXCEPT !.late = <<>>]
  /\ UNCHANGED <<home, send, conn, budget, happened>>

\* The answer of a cancelled request does not land.
LateLands ==
  /\ history.late # <<>>
  /\ history' = [history EXCEPT !.late = <<>>]
  /\ UNCHANGED <<home, tab, send, conn, budget, happened>>

\* snapshotStream names the latest stream while its run is active or has just ended; one
\* that was left out when the tab read the thread is left out again.
Named(c) ==
  LET s == Len(streams) IN
  IF ~\E i \in DOMAIN log : log[i].n > c.from.seq /\ log[i].type = "RUN_STARTED" /\ log[i].v = s THEN {0}
  ELSE IF server.state \in Active THEN {s} ELSE {0, s}

\* A step that was saved since the messages were read is in no item that is sent.
Cut == \E m \in Range(messages) : m.id[1] = "step" /\ \A e \in Range(tab.entries) : m.text[1] \notin Range(e.text)

\* A segment the follow does not start in starts again behind it.
Again(seq, s) == s > 0 /\ \E i \in DOMAIN log : log[i].n > seq /\ log[i].type = "RUN_STARTED" /\ log[i].v # s

\* From a cursor, the record and the stream come, and notices from now on; a cursor that
\* names no stream starts from what no step has saved of the one that is named.
Following(c, at) ==
  \E named \in IF at.s > 0 THEN {at.s} ELSE Named(c) :
    LET is == IF named = 0 THEN <<>>
              ELSE IF at.s = 0 THEN Uncut(named)
              ELSE SelectSeq([i \in DOMAIN streams[named] |-> i], LAMBDA i : i > at.off)
    IN
    /\ conn' = [c EXCEPT !.on = TRUE, !.lost = FALSE, !.s = named, !.wire = SelectSeq(log, LAMBDA e : e.n > at.seq),
                         !.items = [i \in DOMAIN is |-> <<named, is[i]>>]]
    /\ happened' = happened \cup (IF at.s = 0 /\ Cut THEN {"cut"} ELSE {})
                            \cup (IF at.s = 0 /\ Again(at.seq, named) THEN {"again"} ELSE {})
                            \cup (IF at.s = 0 /\ OverPark(named, is) THEN {"over"} ELSE {})
                            \cup (IF at.s # tab.s THEN {"moved"} ELSE {})
                            \cup (IF ~c.lost /\ c.missed THEN {"gap"} ELSE {})

Cursor == [seq |-> tab.seq, s |-> tab.s, off |-> tab.off]

Opens ==
  /\ history.pc = "done"
  /\ IF history.for = Away THEN UNCHANGED <<conn, happened>>
     ELSE Following([conn EXCEPT !.from = Cursor, !.last = IF tab.known = <<>> THEN NoTurn ELSE Last(tab.known).id],
                    Cursor)
  /\ history' = [history EXCEPT !.pc = "off"]
  /\ UNCHANGED <<home, tab, send, budget>>

---------------------------------------------------------------------------
(* Frames *)

\* A late card: the stream's request comes after the record has gone on.
Late(e) ==
  /\ \/ e.type = "HITL_RESPONSE"
     \/ e.type = "STATE_CHANGE" /\ e.v # "WAITING_FOR_INPUT"
  /\ \E i \in DOMAIN conn.items : streams[conn.items[i][1]][conn.items[i][2]].type = "INPUT_REQUIRED"

\* A thread frame; a RUN_STARTED moves the follow to its stream, behind the old one's rest.
ReceiveEntry ==
  LET e == Head(conn.wire)
      moves == e.type = "RUN_STARTED" /\ conn.s # e.v
  IN
  /\ conn.on /\ conn.wire # <<>> /\ e.type # "SNAPSHOT"
  /\ tab' = ApplyEvent(tab, e)
  /\ conn' = [conn EXCEPT !.wire = Tail(@), !.s = IF moves THEN e.v ELSE @,
                          !.items = IF moves THEN @ \o [i \in DOMAIN streams[e.v] |-> <<e.v, i>>] ELSE @]
  /\ happened' = IF Late(e) THEN happened \cup {"late"} ELSE happened
  /\ UNCHANGED <<home, history, send, budget>>

\* A stream item: its stream is read once a SNAPSHOT has gone out.
ReceiveItem ==
  LET x == Head(conn.items) IN
  /\ conn.on /\ conn.items # <<>> /\ \A i \in DOMAIN conn.wire : conn.wire[i].type # "SNAPSHOT"
  /\ tab' = ApplyItem(tab, x[1], x[2])
  /\ conn' = [conn EXCEPT !.items = Tail(@)]
  /\ UNCHANGED <<home, history, send, budget, happened>>

\* A SNAPSHOT frame: the messages it carries are laid over the known ones.
ReceiveSnapshot ==
  LET snap == Head(conn.wire).v
      new == SelectSeq(snap.messages, LAMBDA m : \A k \in Range(tab.known) : k.id # m.id)
  IN
  /\ conn.on /\ conn.wire # <<>> /\ Head(conn.wire).type = "SNAPSHOT"
  /\ tab' = Hydrated(tab, [snap EXCEPT !.messages = tab.known \o new])
  /\ conn' = [conn EXCEPT !.wire = Tail(@)]
  /\ UNCHANGED <<home, history, send, budget, happened>>

\* The next animation frame.
Flush ==
  /\ tab.delta # NoDelta
  /\ tab' = Flushed(tab)
  /\ UNCHANGED <<home, history, send, conn, budget, happened>>

Drops ==
  /\ conn.on /\ Use("drop")
  /\ conn' = [conn EXCEPT !.on = FALSE, !.lost = TRUE, !.wire = <<>>, !.items = <<>>,
                          !.missed = @ \/ \E i \in DOMAIN conn.wire : conn.wire[i].n = 0]
  /\ UNCHANGED <<home, tab, history, send>>

\* The transport comes back with the tab's cursor, or with the one it was opened with.
Reconnects ==
  /\ conn.lost
  /\ \/ Following(conn, Cursor) /\ UNCHANGED budget
     \/ /\ budget["resend"] > 0 /\ budget' = [budget EXCEPT !["resend"] = @ - 1]
        /\ Following(conn, conn.from)
  /\ UNCHANGED <<home, tab, history, send>>

\* The stream it was in is gone: a SNAPSHOT comes first, with the messages after the last
\* the tab had when it opened the stream, and the follow goes on in its stream.
ReconnectsLate ==
  LET at == SelectInSeq(messages, LAMBDA m : m.id = conn.last)
      snap == [Snapshot(Home, server.state \in Active /\ Len(streams) > tab.s) EXCEPT
                 !.messages = SubSeq(@, at + 1, Len(@))]
  IN
  /\ conn.lost /\ tab.s > 0 /\ (tab.s < Len(streams) \/ server.state \notin Active)
  /\ budget["gone"] > 0 /\ budget' = [budget EXCEPT !["gone"] = @ - 1]
  /\ conn' = [conn EXCEPT !.on = TRUE, !.lost = FALSE, !.missed = FALSE, !.s = snap.s, !.items = <<>>,
                          !.wire = <<[n |-> 0, type |-> "SNAPSHOT", v |-> snap]>>
                                   \o SelectSeq(log, LAMBDA e : e.n > tab.seq)]
  /\ happened' = happened \cup {"gone"} \cup (IF server.pc = "finish" THEN {"between"} ELSE {})
                          \cup (IF OverPark(snap.s, snap.items) THEN {"over"} ELSE {})
                          \cup (IF snap.s = 0 \/ Again(tab.seq, snap.s) THEN {"again"} ELSE {})
  /\ UNCHANGED <<home, tab, history, send>>

\* The transport gives up: the thread is read again.
Closes ==
  /\ conn.on /\ Use("close")
  /\ conn' = [conn EXCEPT !.on = FALSE, !.wire = <<>>, !.items = <<>>]
  /\ tab' = [tab EXCEPT !.gen = @ + 1]
  /\ UNCHANGED <<home, history, send>>

---------------------------------------------------------------------------
(* run *)

\* Text of a run that is over is still to be shown.
TextOnItsWay == tab.delta # NoDelta \/ conn.items # <<>> \/ conn.wire # <<>>

\* The turn is shown before it is sent (React has run the effect by then); an edit takes the turn it replaces, and what
\* followed, off the screen.
Sends ==
  \E from \in {NoTurn} \cup {tab.entries[i].id : i \in {j \in DOMAIN tab.entries : tab.entries[j].k = "msg"}} :
    LET m == User("own", tab.sends + 1) IN
    /\ tab.thread # Away /\ tab.thread \in {NoThread, tab.shown}
    /\ send.pc = "off" /\ tab.state \notin Active
    /\ IF from = NoTurn THEN Use("turns")
       ELSE /\ from[1] \in {"own", "other"} /\ budget["turns"] > 0 /\ budget["edit"] > 0
            /\ budget' = [budget EXCEPT !["turns"] = @ - 1, !["edit"] = @ - 1]
            /\ happened' = happened \cup {"edit"} \cup (IF TextOnItsWay THEN {"late"} ELSE {})
    /\ tab' = [tab EXCEPT !.entries = Append(Dropped(@, from), Optimistic(m)), !.inputs = {},
                          !.state = "QUEUED", !.sends = @ + 1]
    /\ send' = [pc |-> "asked", m |-> m, from |-> from, thread |-> tab.thread, left |-> tab'.entries,
                entries |-> tab.entries, inputs |-> tab.inputs, state |-> tab.state]
    /\ UNCHANGED <<home, history, conn>>

Accepts ==
  /\ send.pc = "asked" /\ server.state \notin Active
  /\ Dispatched(send.m, send.from)
  /\ send' = [send EXCEPT !.pc = "accepted"]
  /\ UNCHANGED <<budget, happened>>

\* The server has a run under way already, or would not start one.
Refuses ==
  /\ send.pc = "asked"
  /\ IF server.state \in Active THEN UNCHANGED <<budget, happened>> ELSE Use("refuse")
  /\ send' = [send EXCEPT !.pc = "refused"]
  /\ UNCHANGED <<home, tab, history, conn>>

SendAccepted ==
  /\ send.pc = "accepted"
  /\ tab' = [tab EXCEPT !.thread = Home]
  /\ send' = NoSend
  /\ UNCHANGED <<home, history, conn, budget, happened>>

\* The optimistic turn stays.
SendFailedKept ==                                                       \* mutant
  /\ send.pc = "refused"
  /\ tab' = [tab EXCEPT !.inputs = send.inputs, !.state = send.state]
  /\ send' = NoSend
  /\ UNCHANGED <<home, history, conn, budget, happened>>

\* What was shown before the send is shown again.
SendFailed ==
  /\ send.pc = "refused"
  /\ tab' = [tab EXCEPT !.entries = send.entries, !.inputs = send.inputs, !.state = send.state]
  /\ happened' = happened \cup (IF tab.shown # send.thread THEN {"elsewhere"} ELSE {})
                          \cup (IF tab.entries # send.left \/ tab.state # "QUEUED" THEN {"overwritten"} ELSE {})
  /\ send' = NoSend
  /\ UNCHANGED <<home, history, conn, budget>>

---------------------------------------------------------------------------
Server ==
  \/ OtherSends \/ Runs \/ Streams \/ Saves \/ StepEnds \/ NextStep \/ Fails \/ Ends
  \/ Parks \/ Answered \/ Stopped \/ Accepts \/ Refuses

Tab ==
  \/ Select \/ Effect \/ HistoryRead \/ HistoryLands \/ LateLands \/ Opens
  \/ ReceiveEntry \/ ReceiveItem \/ ReceiveSnapshot \/ Flush \/ Sends \/ SendAccepted \/ SendFailed

Next == Server \/ Tab \/ Drops \/ Reconnects \/ ReconnectsLate \/ Closes

Spec == Init /\ [][Next]_vars
===========================================================================
