----------------------- MODULE AgentThreadProperties -----------------------
(***************************************************************************)
(* What the user of a tab is promised.                                     *)
(***************************************************************************)
EXTENDS AgentThread

Spared(kinds) == happened \cap kinds = {}
Texts(es) == FlattenSeq([i \in DOMAIN es |-> es[i].text])

\* Deltas, items, saved messages and optimistic turns all bring the same text: it is on
\* screen once.  A step between its save and its STEP_FINISHED when the thread is read is
\* left out: it is then in the messages and in the stream.  So is a transport that comes
\* back with its first cursor after the follow has moved to another stream, and a SNAPSHOT
\* frame followed by a segment that started before it.
NothingTwice == Spared({"between", "moved", "again"}) => IsInjective(Texts(tab.entries) \o tab.delta.text)

\* "Another thread's messages, cards and run must not stay on screen": what is shown is
\* the shown thread's, whatever answers, frames and deltas come late.  Left out are a send
\* that fails after the tab has left its thread, and a turn of a thread not made yet when
\* the tab goes to another.
OnlyThisThread ==
  Spared({"elsewhere"}) =>
    \A t \in Range(Texts(tab.entries) \o tab.delta.text) : t[1] = "away" <=> tab.shown = Away

\* The tab follows Home and nothing is under way.
AtRest ==
  /\ tab.ran = <<Home, tab.gen>> /\ tab.thread = Home /\ history.pc = "off" /\ send.pc = "off"
  /\ conn.on /\ conn.wire = <<>> /\ conn.items = <<>> /\ conn.s = Len(streams) /\ tab.delta = NoDelta
  /\ server.pc \in {"idle", "parked"}

\* What the server has is what the tab shows.
Agrees ==
  /\ Range(Texts(tab.entries)) = Range(Texts(messages))
  /\ tab.state = server.state
  /\ tab.inputs = IF server.pc = "parked" THEN {server.run} ELSE {}

\* The server is "the only source of truth": when nothing is under way, the tab shows
\* exactly the thread's messages, its state and its open requests: no failed step's text,
\* no turn that was refused or dropped, no card of an answered request.  Left out are a
\* notice that found no connection, a send that failed while events came, a park that was
\* over before its stream was shown, text that comes after an edit took its turn off the
\* screen, what the follow itself misses, and an edit under a SNAPSHOT frame.
ScreenIsTruth ==
  /\ AtRest /\ ~conn.missed /\ Spared({"overwritten", "elsewhere", "over", "late", "moved", "again", "cut"})
  /\ ~({"edit", "gone"} \subseteq happened)
  => Agrees

\* "A transport that reconnects on its own resumes after it, so nothing is shown twice or
\* missed": a tab that missed nothing before its stream opened, and whose connection was
\* lost and came back, shows what the server has.
NothingMissed == AtRest /\ "drop" \in happened /\ Spared({"gap", "cut", "over", "late", "again"}) => Agrees
===========================================================================
