-------------------------- MODULE SegmentsProofs --------------------------
(***************************************************************************)
(* Of a run's streams, for any number of deliveries, sweeps and agents:    *)
(* at most one is open; the thread record says of each what it says of     *)
(* itself; and no sweep closes one under a worker that holds the lock.     *)
(*                                                                         *)
(* Inv says who an open stream belongs to: the delivery that holds the     *)
(* lock, between its open and its close.  Whole adds which number is       *)
(* whose, what is in the buffers and in the record, and that while a sweep *)
(* is under way no worker holds the lock.                                  *)
(***************************************************************************)
EXTENDS SegmentsProperties, TLAPS, FiniteSetTheorems

Calm == Spared({"death", "lapse", "record", "close"})

\* Where a delivery's stream may be open.
Inner == {"started", "work", "close", "flush", "end"}

IsStream(s) == s = [state |-> s.state, items |-> s.items]

IsDelivery(w) ==
  w = [pc |-> w.pc, seg |-> w.seg, active |-> w.active, buf |-> w.buf, flights |-> w.flights,
       agents |-> w.agents]

Shape ==
  /\ streams = [n \in Numbers |-> streams[n]]
  /\ \A n \in Numbers : IsStream(streams[n])
  /\ del = [d \in Deliveries |-> del[d]]
  /\ \A d \in Deliveries : IsDelivery(del[d])

\* Whoever works holds the lock, and an open stream is its holder's.
Owned ==
  /\ \A d \in Deliveries : Working(d) => holder = d
  /\ \A n \in Numbers :
       streams[n].state = "open" =>
         \E d \in Deliveries : holder = d /\ del[d].seg = n /\ del[d].pc \in Inner

Inv == Shape /\ (Calm => Owned)

\* Pushing events moves no delivery and renames no stream.
LEMMA PushedKeeps ==
  ASSUME NEW w, NEW a, NEW es, IsDelivery(w)
  PROVE  /\ IsDelivery(Pushed(w, a, es))
         /\ Pushed(w, a, es).pc = w.pc /\ Pushed(w, a, es).seg = w.seg
BY DEF IsDelivery, Pushed

LEMMA PhasedKeeps ==
  ASSUME NEW w, NEW a, NEW p, IsDelivery(w)
  PROVE  IsDelivery(Phased(w, a, p)) /\ Phased(w, a, p).seg = w.seg /\ Phased(w, a, p).pc = w.pc
BY DEF IsDelivery, Phased

LEMMA AgentSet ==
  ASSUME NEW w, NEW a, NEW g, IsDelivery(w)
  PROVE  LET x == [w EXCEPT !.agents[a] = g] IN IsDelivery(x) /\ x.seg = w.seg /\ x.pc = w.pc
BY DEF IsDelivery

LEMMA PcSet ==
  ASSUME NEW w, NEW p, IsDelivery(w)
  PROVE  LET x == [w EXCEPT !.pc = p] IN IsDelivery(x) /\ x.seg = w.seg /\ x.pc = p
BY DEF IsDelivery

\* One field of a delivery changes.
LEMMA SegSet ==
  ASSUME NEW w, NEW v, IsDelivery(w)
  PROVE  LET x == [w EXCEPT !.seg = v] IN IsDelivery(x) /\ x.seg = v /\ x.pc = w.pc
<1>. DEFINE x == [w EXCEPT !.seg = v]
<1>1. x = [pc |-> w.pc, seg |-> v, active |-> w.active, buf |-> w.buf, flights |-> w.flights, agents |-> w.agents]
  BY DEF IsDelivery
<1>. HIDE DEF x
<1>2. IsDelivery(x) /\ x.seg = v /\ x.pc = w.pc
  BY <1>1 DEF IsDelivery
<1>. QED BY <1>2 DEF x

LEMMA ActiveSet ==
  ASSUME NEW w, NEW v, IsDelivery(w)
  PROVE  LET x == [w EXCEPT !.active = v] IN IsDelivery(x) /\ x.seg = w.seg /\ x.pc = w.pc
<1>. DEFINE x == [w EXCEPT !.active = v]
<1>1. x = [pc |-> w.pc, seg |-> w.seg, active |-> v, buf |-> w.buf, flights |-> w.flights, agents |-> w.agents]
  BY DEF IsDelivery
<1>. HIDE DEF x
<1>2. IsDelivery(x) /\ x.seg = w.seg /\ x.pc = w.pc
  BY <1>1 DEF IsDelivery
<1>. QED BY <1>2 DEF x

LEMMA BufSet ==
  ASSUME NEW w, NEW v, IsDelivery(w)
  PROVE  LET x == [w EXCEPT !.buf = v] IN IsDelivery(x) /\ x.seg = w.seg /\ x.pc = w.pc
<1>. DEFINE x == [w EXCEPT !.buf = v]
<1>1. x = [pc |-> w.pc, seg |-> w.seg, active |-> w.active, buf |-> v, flights |-> w.flights, agents |-> w.agents]
  BY DEF IsDelivery
<1>. HIDE DEF x
<1>2. IsDelivery(x) /\ x.seg = w.seg /\ x.pc = w.pc
  BY <1>1 DEF IsDelivery
<1>. QED BY <1>2 DEF x

LEMMA FlightsSet ==
  ASSUME NEW w, NEW v, IsDelivery(w)
  PROVE  LET x == [w EXCEPT !.flights = v] IN IsDelivery(x) /\ x.seg = w.seg /\ x.pc = w.pc
<1>. DEFINE x == [w EXCEPT !.flights = v]
<1>1. x = [pc |-> w.pc, seg |-> w.seg, active |-> w.active, buf |-> w.buf, flights |-> v, agents |-> w.agents]
  BY DEF IsDelivery
<1>. HIDE DEF x
<1>2. IsDelivery(x) /\ x.seg = w.seg /\ x.pc = w.pc
  BY <1>1 DEF IsDelivery
<1>. QED BY <1>2 DEF x

LEMMA AgentsSet ==
  ASSUME NEW w, NEW v, IsDelivery(w)
  PROVE  LET x == [w EXCEPT !.agents = v] IN IsDelivery(x) /\ x.seg = w.seg /\ x.pc = w.pc
<1>. DEFINE x == [w EXCEPT !.agents = v]
<1>1. x = [pc |-> w.pc, seg |-> w.seg, active |-> w.active, buf |-> w.buf, flights |-> w.flights, agents |-> v]
  BY DEF IsDelivery
<1>. HIDE DEF x
<1>2. IsDelivery(x) /\ x.seg = w.seg /\ x.pc = w.pc
  BY <1>1 DEF IsDelivery
<1>. QED BY <1>2 DEF x

LEMMA NewIs == IsDelivery(NewDelivery)
BY DEF IsDelivery, NewDelivery

LEMMA Becomes ==
  ASSUME Shape, NEW d \in Deliveries, NEW w, IsDelivery(w), Become(d, w)
  PROVE  /\ del' = [e \in Deliveries |-> del'[e]]
         /\ del'[d] = w /\ \A e \in Deliveries : e # d => del'[e] = del[e]
         /\ \A e \in Deliveries : IsDelivery(del'[e])
BY DEF Shape, Become

LEMMA AppendedIs ==
  ASSUME NEW s, NEW es, IsStream(s)
  PROVE  IsStream(Appended(s, es)) /\ Appended(s, es).state = s.state
<1>. DEFINE x == Appended(s, es)
            is == s.items \o es
<1>0. x = [s EXCEPT !.items = is]
  BY DEF Appended
<1>. HIDE DEF x, is
<1>1. x = [state |-> s.state, items |-> is]
  BY <1>0 DEF IsStream
<1>2. IsStream(x) /\ x.state = s.state
  BY <1>1 DEF IsStream
<1>. QED BY <1>2 DEF x

LEMMA Changes ==
  ASSUME Shape, NEW n, NEW x, n \in Numbers => IsStream(x), streams' = [streams EXCEPT ![n] = x]
  PROVE  /\ streams' = [m \in Numbers |-> streams'[m]]
         /\ \A m \in Numbers : IsStream(streams'[m])
         /\ \A m \in Numbers : streams'[m] = IF m = n THEN x ELSE streams[m]
BY DEF Shape

\* A delivery stays where it is, or goes from one inner place to another, or ends in the dark.
Onward(p, q) == q = p \/ (q \in Inner /\ p \in Inner) \/ (q = "left" /\ p = "dark")

\* A step that frees no lock, opens no stream and moves a delivery onward at most.
LEMMA Still ==
  ASSUME Inv, Shape', happened \subseteq happened', holder' = holder,
         \A n \in Numbers : streams'[n].state = "open" => streams[n].state = "open",
         \A d \in Deliveries :
           /\ del'[d].seg = del[d].seg
           /\ Onward(del[d].pc, del'[d].pc)
  PROVE  Inv'
<1>1. ASSUME Calm' PROVE Owned'
  <2>1. Calm
    BY <1>1 DEF Calm, Spared
  <2>2. Owned
    BY <2>1 DEF Inv
  <2>3. \A d \in Deliveries : Working(d)' => Working(d)
    BY DEF Working, Inner, Onward
  <2>. QED BY <2>2, <2>3 DEF Owned, Onward, Inner
<1>. QED BY <1>1 DEF Inv

\* The same when the one delivery that moves is the whole change.
LEMMA Moves ==
  ASSUME Inv, NEW d \in Deliveries, NEW w, IsDelivery(w), Become(d, w),
         w.seg = del[d].seg, Onward(del[d].pc, w.pc),
         happened \subseteq happened', UNCHANGED <<holder, streams>>
  PROVE  Inv'
<1>1. Shape'
  BY Becomes DEF Inv, Shape
<1>2. \A e \in Deliveries :
        /\ del'[e].seg = del[e].seg
        /\ Onward(del[e].pc, del'[e].pc)
  BY Becomes DEF Inv, Onward
<1>. QED BY <1>1, <1>2, Still

LEMMA Uses == ASSUME NEW b, Use(b) PROVE happened \subseteq happened'
BY DEF Use

---------------------------------------------------------------------------
(* One lemma per group of actions *)

LEMMA WorkKeeps ==
  ASSUME Inv, NEW d \in Deliveries, NEW a \in Agents, Work(d, a)
  PROVE  Inv'
<1>. USE DEF Inv
<1>0. IsDelivery(del[d])
  BY DEF Shape
<1>1. ASSUME NEW k \in Kinds, Part(d, a, k) PROVE Inv'
  <2>. DEFINE w == [del[d] EXCEPT !.agents[a] = Batched(del[d].agents[a], k)]
  <2>1. IsDelivery(w) /\ w.seg = del[d].seg /\ w.pc = del[d].pc
    BY <1>0 DEF IsDelivery
  <2>2. Become(d, w) /\ UNCHANGED <<holder, streams>> /\ happened \subseteq happened'
    BY <1>1, Uses DEF Part
  <2>. HIDE DEF w
  <2>. QED BY <2>1, <2>2, Moves DEF Onward
<1>2. CASE BatchTimer(d, a)
  <2>. DEFINE w == [del[d] EXCEPT !.agents[a] = FlushHeld(@)]
  <2>1. IsDelivery(w) /\ w.seg = del[d].seg /\ w.pc = del[d].pc
    BY <1>0 DEF IsDelivery
  <2>2. Become(d, w) /\ UNCHANGED <<holder, streams>> /\ happened \subseteq happened'
    BY <1>2 DEF BatchTimer, others
  <2>. HIDE DEF w
  <2>. QED BY <2>1, <2>2, Moves DEF Onward
<1>3. CASE Send(d, a)
  <2>. DEFINE g == del[d].agents[a]
              m == MapChunk(Head(g.chain), g.block, g.tool, a)
              rest == [g EXCEPT !.chain = Tail(g.chain)]
              bus == [del[d] EXCEPT !.agents[a] = rest]
              told == [del[d] EXCEPT !.agents[a] = [rest EXCEPT !.block = m.block, !.tool = m.tool]]
              w == IF del[d].active THEN Pushed(told, a, m.out) ELSE bus
  <2>1. Become(d, w) /\ UNCHANGED <<holder, streams>> /\ happened \subseteq happened'
    BY <1>3 DEF Send, others
  <2>. HIDE DEF rest, m
  <2>2. IsDelivery(bus) /\ bus.seg = del[d].seg /\ bus.pc = del[d].pc
    BY <1>0, AgentSet
  <2>3. IsDelivery(told) /\ told.seg = del[d].seg /\ told.pc = del[d].pc
    BY <1>0, AgentSet
  <2>. HIDE DEF told, bus
  <2>4. IsDelivery(w) /\ w.seg = del[d].seg /\ w.pc = del[d].pc
    BY <2>2, <2>3, PushedKeeps
  <2>. HIDE DEF w
  <2>. QED BY <2>1, <2>4, Moves DEF Onward
<1>4. CASE CallEnds(d, a)
  <2>. DEFINE w == [del[d] EXCEPT !.agents[a] = [FlushHeld(del[d].agents[a]) EXCEPT !.phase = "flush"]]
  <2>1. IsDelivery(w) /\ w.seg = del[d].seg /\ w.pc = del[d].pc
    BY <1>0 DEF IsDelivery
  <2>2. Become(d, w) /\ UNCHANGED <<holder, streams>> /\ happened \subseteq happened'
    BY <1>4 DEF CallEnds, others
  <2>. HIDE DEF w
  <2>. QED BY <2>1, <2>2, Moves DEF Onward
<1>5. CASE Commit(d, a)
  <2>. DEFINE g == del[d].agents[a]
              v == [del[d] EXCEPT !.agents[a] = [g EXCEPT !.phase = "commit", !.block = None]]
              es == Append(EndBlocks(g.block, a), Event("STEP_FINISHED", a, 0, g.serial))
              w == Pushed(v, a, es)
  <2>1. IsDelivery(v) /\ v.seg = del[d].seg /\ v.pc = del[d].pc
    BY <1>0 DEF IsDelivery
  <2>2. Become(d, w) /\ UNCHANGED <<holder, streams>> /\ happened \subseteq happened'
    BY <1>5 DEF Commit, others
  <2>. HIDE DEF v, es
  <2>3. IsDelivery(w) /\ w.seg = del[d].seg /\ w.pc = del[d].pc
    BY <2>1, PushedKeeps
  <2>. HIDE DEF w
  <2>. QED BY <2>2, <2>3, Moves DEF Onward
<1>6. CASE NextStep(d, a)
  <2>. DEFINE w == Phased(del[d], a, "live")
  <2>1. IsDelivery(w) /\ w.seg = del[d].seg /\ w.pc = del[d].pc
    BY <1>0, PhasedKeeps
  <2>2. Become(d, w) /\ UNCHANGED <<holder, streams>> /\ happened \subseteq happened'
    BY <1>6, Uses DEF NextStep
  <2>. HIDE DEF w
  <2>. QED BY <2>1, <2>2, Moves DEF Onward
<1>. HIDE DEF Inv
<1>. QED BY <1>1, <1>2, <1>3, <1>4, <1>5, <1>6 DEF Work

LEMMA NestedKeeps ==
  ASSUME Inv, NEW d \in Deliveries, NEW s \in Subs, Nested(d, s)
  PROVE  Inv'
<1>0. IsDelivery(del[d])
  BY DEF Inv, Shape
<1>1. CASE SubStarts(d, s)
  <2>. DEFINE v == Phased(del[d], s, "live")
              w == Pushed(v, s, <<Mark("SUBAGENT_STARTED", s)>>)
  <2>1. IsDelivery(v) /\ v.seg = del[d].seg /\ v.pc = del[d].pc
    BY <1>0, PhasedKeeps
  <2>2. Become(d, w) /\ UNCHANGED <<holder, streams>> /\ happened \subseteq happened'
    BY <1>1, Uses DEF SubStarts
  <2>. HIDE DEF v
  <2>3. IsDelivery(w) /\ w.seg = del[d].seg /\ w.pc = del[d].pc
    BY <2>1, PushedKeeps
  <2>. HIDE DEF w
  <2>. QED BY <2>2, <2>3, Moves DEF Onward
<1>2. CASE SubEnds(d, s)
  <2>. DEFINE g == del[d].agents[s]
              v == [del[d] EXCEPT !.agents[s] = [g EXCEPT !.phase = "over", !.block = None]]
              es == Append(EndBlocks(g.block, s), Mark("SUBAGENT_FINISHED", s))
              w == Pushed(v, s, es)
  <2>1. IsDelivery(v) /\ v.seg = del[d].seg /\ v.pc = del[d].pc
    BY <1>0 DEF IsDelivery
  <2>2. Become(d, w) /\ UNCHANGED <<holder, streams>> /\ happened \subseteq happened'
    BY <1>2 DEF SubEnds, others
  <2>. HIDE DEF v, es
  <2>3. IsDelivery(w) /\ w.seg = del[d].seg /\ w.pc = del[d].pc
    BY <2>1, PushedKeeps
  <2>. HIDE DEF w
  <2>. QED BY <2>2, <2>3, Moves DEF Onward
<1>. QED BY <1>1, <1>2 DEF Nested

LEMMA EndingKeeps ==
  ASSUME Inv, NEW d \in Deliveries, Ending(d)
  PROVE  Inv'
<1>0. IsDelivery(del[d])
  BY DEF Inv, Shape
<1>1. CASE Finish(d)
  <2>. DEFINE v == Phased(del[d], Main, "over")
              w == [v EXCEPT !.pc = "close"]
  <2>1. Become(d, w) /\ UNCHANGED <<holder, streams, happened>> /\ del[d].pc = "work"
    BY <1>1 DEF Finish
  <2>2. IsDelivery(v) /\ v.seg = del[d].seg
    BY <1>0, PhasedKeeps
  <2>. HIDE DEF v
  <2>3. IsDelivery(w) /\ w.seg = del[d].seg /\ w.pc = "close"
    BY <2>2, PcSet
  <2>. HIDE DEF w
  <2>. QED BY <2>1, <2>3, Moves DEF Inner, Onward
<1>2. CASE Cut(d)
  <2>. DEFINE v == Phased(del[d], Main, "cut")
              w == [v EXCEPT !.pc = "close"]
  <2>1. Become(d, w) /\ UNCHANGED <<holder, streams>> /\ happened \subseteq happened'
        /\ del[d].pc = "work"
    BY <1>2, Uses DEF Cut
  <2>2. IsDelivery(v) /\ v.seg = del[d].seg
    BY <1>0, PhasedKeeps
  <2>. HIDE DEF v
  <2>3. IsDelivery(w) /\ w.seg = del[d].seg /\ w.pc = "close"
    BY <2>2, PcSet
  <2>. HIDE DEF w
  <2>. QED BY <2>1, <2>3, Moves DEF Inner, Onward
<1>3. ASSUME NEW q, Become(d, [Phased(del[d], Main, q) EXCEPT !.pc = "left"]), del[d].pc = "dark",
             UNCHANGED <<holder, streams>>, happened \subseteq happened'
      PROVE  Inv'
  <2>. DEFINE v == Phased(del[d], Main, q)
              w == [v EXCEPT !.pc = "left"]
  <2>1. Become(d, w)
    BY <1>3
  <2>2. IsDelivery(v) /\ v.seg = del[d].seg
    BY <1>0, PhasedKeeps
  <2>. HIDE DEF v
  <2>3. IsDelivery(w) /\ w.seg = del[d].seg /\ w.pc = "left"
    BY <2>2, PcSet
  <2>. HIDE DEF w
  <2>. QED BY <1>3, <2>1, <2>3, Moves DEF Onward
<1>4. CASE DarkFinish(d)
  BY <1>3, <1>4 DEF DarkFinish
<1>5. CASE DarkCut(d)
  BY <1>3, <1>5, Uses DEF DarkCut
<1>. QED BY <1>1, <1>2, <1>4, <1>5 DEF Ending

---------------------------------------------------------------------------
(* Steps that hand the lock or a stream on *)

LEMMA Alone ==
  ASSUME Inv, Calm, NEW d \in Deliveries, Working(d)
  PROVE  /\ holder = d
         /\ \A e \in Deliveries : e # d => ~Working(e)
         /\ \A n \in Numbers : streams[n].state = "open" => del[d].seg = n /\ del[d].pc \in Inner
BY DEF Inv, Owned

LEMMA Free ==
  ASSUME Inv, Calm, holder \notin Deliveries \/ del[holder].pc = "dead"
  PROVE  /\ \A e \in Deliveries : ~Working(e)
         /\ \A n \in Numbers : streams[n].state # "open"
BY DEF Inv, Owned, Working, Inner

LEMMA Vacates ==
  ASSUME Shape', happened \subseteq happened',
         Calm => /\ \A e \in Deliveries : ~Working(e)'
                 /\ \A n \in Numbers : streams'[n].state # "open"
  PROVE  Inv'
BY DEF Inv, Owned, Calm, Spared

LEMMA PortsKeep ==
  ASSUME Inv, SegmentsAssumption, NEW d \in Deliveries, Ports(d)
  PROVE  Inv'
<1>0. IsDelivery(del[d]) /\ Shape
  BY DEF Inv, Shape
<1>1. CASE Acquire(d)
  <2>1. PICK w : IsDelivery(w) /\ Become(d, w) /\ (w.pc = "released" \/ (w.pc = "incr" /\ holder' = d))
    <3>. DEFINE x == [del[d] EXCEPT !.pc = "released"]
                y == [del[d] EXCEPT !.pc = "incr"]
    <3>1. IF done THEN Become(d, x) ELSE Become(d, y) /\ holder' = d
      BY <1>1 DEF Acquire
    <3>2. IsDelivery(x) /\ x.pc = "released" /\ IsDelivery(y) /\ y.pc = "incr"
      BY <1>0, PcSet
    <3>. HIDE DEF x, y
    <3>. QED BY <3>1, <3>2
  <2>2. Shape'
    BY <1>0, <1>1, <2>1, Becomes DEF Acquire, Shape
  <2>3. ASSUME Calm' PROVE Owned'
    <3>1. Calm /\ holder \notin Deliveries /\ UNCHANGED streams
      BY <1>1, <2>3 DEF Acquire, Calm, Spared, SegmentsAssumption
    <3>2. /\ \A e \in Deliveries : ~Working(e)
          /\ \A n \in Numbers : streams[n].state # "open"
      BY <3>1, Free
    <3>3. del'[d] = w /\ \A e \in Deliveries : e # d => del'[e] = del[e]
      BY <1>0, <2>1, Becomes
    <3>. QED BY <2>1, <3>1, <3>2, <3>3 DEF Owned, Working
  <2>. QED BY <2>2, <2>3 DEF Inv
<1>2. CASE TakeNumber(d)
  <2>. DEFINE w == [del[d] EXCEPT !.pc = "open", !.seg = counter']
  <2>1. IsDelivery(w) /\ w.pc = "open"
    <3>. DEFINE w1 == [del[d] EXCEPT !.pc = "open"]
                w2 == [w1 EXCEPT !.seg = counter']
    <3>0. w = w2
      OBVIOUS
    <3>1. IsDelivery(w1) /\ w1.seg = del[d].seg /\ w1.pc = "open"
      BY <1>0, PcSet
    <3>. HIDE DEF w1
    <3>2. IsDelivery(w2) /\ w2.seg = counter' /\ w2.pc = "open"
      BY <3>1, SegSet
    <3>. HIDE DEF w2
    <3>. QED BY <3>0, <3>2
  <2>2. Become(d, w) /\ UNCHANGED <<streams, holder, happened>> /\ del[d].pc = "incr"
    BY <1>2 DEF TakeNumber
  <2>. HIDE DEF w
  <2>3. del'[d] = w /\ (\A e \in Deliveries : e # d => del'[e] = del[e]) /\ Shape'
    BY <1>0, <2>1, <2>2, Becomes DEF Shape
  <2>4. ASSUME Calm' PROVE Owned'
    <3>1. Calm /\ Working(d)
      BY <2>2, <2>4 DEF Calm, Spared, Working
    <3>2. /\ holder = d /\ \A e \in Deliveries : e # d => ~Working(e)
          /\ \A n \in Numbers : streams[n].state # "open"
      BY <2>2, <3>1, Alone DEF Inner
    <3>. QED BY <2>1, <2>2, <2>3, <3>2 DEF Owned, Working
  <2>. QED BY <2>3, <2>4 DEF Inv
<1>3. CASE OpenStream(d)
  <2>. DEFINE v == [del[d] EXCEPT !.pc = "started", !.active = TRUE]
              w == Pushed(v, Main, <<Mark("RUN_STARTED", Main)>>)
              x == Opened(streams[del[d].seg])
  <2>1. IsDelivery(v) /\ v.pc = "started" /\ v.seg = del[d].seg
    <3>. DEFINE v1 == [del[d] EXCEPT !.pc = "started"]
                v2 == [v1 EXCEPT !.active = TRUE]
    <3>0. v = v2
      OBVIOUS
    <3>1. IsDelivery(v1) /\ v1.seg = del[d].seg /\ v1.pc = "started"
      BY <1>0, PcSet
    <3>. HIDE DEF v1
    <3>2. IsDelivery(v2) /\ v2.seg = del[d].seg /\ v2.pc = "started"
      BY <3>1, ActiveSet
    <3>. HIDE DEF v2
    <3>. QED BY <3>0, <3>2
  <2>2. Become(d, w) /\ UNCHANGED <<holder, happened>> /\ del[d].pc = "open"
        /\ streams' = [streams EXCEPT ![del[d].seg] = x]
    BY <1>3 DEF OpenStream
  <2>3. del[d].seg \in Numbers => IsStream(x)
    BY <1>0 DEF Shape, IsStream, Opened
  <2>. HIDE DEF v, x
  <2>4. IsDelivery(w) /\ w.pc = "started" /\ w.seg = del[d].seg
    BY <2>1, PushedKeeps
  <2>. HIDE DEF w
  <2>5. /\ del'[d] = w /\ (\A e \in Deliveries : e # d => del'[e] = del[e]) /\ Shape'
        /\ \A m \in Numbers : streams'[m] = IF m = del[d].seg THEN x ELSE streams[m]
    BY <1>0, <2>2, <2>3, <2>4, Becomes, Changes DEF Shape
  <2>6. ASSUME Calm' PROVE Owned'
    <3>1. Calm /\ Working(d)
      BY <2>2, <2>6 DEF Calm, Spared, Working
    <3>2. /\ holder = d /\ \A e \in Deliveries : e # d => ~Working(e)
          /\ \A n \in Numbers : streams[n].state # "open"
      BY <2>2, <3>1, Alone DEF Inner
    <3>. QED BY <2>2, <2>4, <2>5, <3>2 DEF Owned, Working, Inner
  <2>. QED BY <2>5, <2>6 DEF Inv
<1>4. CASE RecordStart(d)
  <2>. DEFINE v == Phased(del[d], Main, "live")
              w == [v EXCEPT !.pc = "work"]
  <2>1. Become(d, w) /\ UNCHANGED <<holder, streams, happened>> /\ del[d].pc = "started"
    BY <1>4 DEF RecordStart
  <2>2. IsDelivery(v) /\ v.seg = del[d].seg
    BY <1>0, PhasedKeeps
  <2>. HIDE DEF v
  <2>3. IsDelivery(w) /\ w.seg = del[d].seg /\ w.pc = "work"
    BY <2>2, PcSet
  <2>. HIDE DEF w
  <2>. QED BY <2>1, <2>3, Moves DEF Inner, Onward
<1>5. CASE AppendBatch(d)
  <2>. DEFINE w == [del[d] EXCEPT !.flights = Tail(del[d].flights)]
              x == Appended(streams[del[d].seg], Head(del[d].flights).events)
  <2>1. /\ Become(d, w) /\ UNCHANGED holder /\ happened \subseteq happened'
        /\ (UNCHANGED streams \/ streams' = [streams EXCEPT ![del[d].seg] = x])
    BY <1>5, Uses DEF AppendBatch
  <2>2. del[d].seg \in Numbers => IsStream(x) /\ x.state = streams[del[d].seg].state
    BY <1>0, AppendedIs DEF Shape
  <2>. HIDE DEF x
  <2>3. IsDelivery(w) /\ w.seg = del[d].seg /\ w.pc = del[d].pc
    BY <1>0, FlightsSet
  <2>. HIDE DEF w
  <2>4. /\ Shape'
        /\ \A e \in Deliveries : del'[e].seg = del[e].seg /\ del'[e].pc = del[e].pc
        /\ \A n \in Numbers : streams'[n].state = streams[n].state
    BY <1>0, <2>1, <2>2, <2>3, Becomes, Changes DEF Shape
  <2>. QED BY <2>1, <2>4, Still DEF Onward
<1>6. CASE FlushTimer(d)
  <2>. DEFINE es == Append(del[d].flights, [events |-> del[d].buf, awaited |-> {}])
              w == [del[d] EXCEPT !.buf = <<>>, !.flights = es]
  <2>1. Become(d, w) /\ UNCHANGED <<holder, streams, happened>>
    BY <1>6 DEF FlushTimer, others
  <2>. HIDE DEF es
  <2>2. IsDelivery(w) /\ w.seg = del[d].seg /\ w.pc = del[d].pc
    <3>. DEFINE w1 == [del[d] EXCEPT !.buf = <<>>]
                w2 == [w1 EXCEPT !.flights = es]
    <3>0. w = w2
      OBVIOUS
    <3>1. IsDelivery(w1) /\ w1.seg = del[d].seg /\ w1.pc = del[d].pc
      BY <1>0, BufSet
    <3>. HIDE DEF w1
    <3>2. IsDelivery(w2) /\ w2.seg = del[d].seg /\ w2.pc = del[d].pc
      BY <3>1, FlightsSet
    <3>. HIDE DEF w2
    <3>. QED BY <3>0, <3>2
  <2>. HIDE DEF w
  <2>. QED BY <2>1, <2>2, Moves DEF Onward
<1>7. CASE CloseBlocks(d)
  <2>. DEFINE open == Listed({a \in Agents : del[d].agents[a].block # None})
              v == [del[d] EXCEPT !.pc = "flush",
                                  !.agents = [a \in Agents |-> [del[d].agents[a] EXCEPT !.block = None]]]
              es == [i \in DOMAIN open |-> Mark(EndOf[del[d].agents[open[i]].block], open[i])]
              w == Pushed(v, Main, es)
  <2>1. IsDelivery(v) /\ v.seg = del[d].seg /\ v.pc = "flush"
    <3>. DEFINE v1 == [del[d] EXCEPT !.pc = "flush"]
                v2 == [v1 EXCEPT !.agents = [a \in Agents |-> [del[d].agents[a] EXCEPT !.block = None]]]
    <3>0. v = v2
      OBVIOUS
    <3>1. IsDelivery(v1) /\ v1.seg = del[d].seg /\ v1.pc = "flush"
      BY <1>0, PcSet
    <3>. HIDE DEF v1
    <3>2. IsDelivery(v2) /\ v2.seg = del[d].seg /\ v2.pc = "flush"
      BY <3>1, AgentsSet
    <3>. HIDE DEF v2
    <3>. QED BY <3>0, <3>2
  <2>2. Become(d, w) /\ UNCHANGED <<holder, streams, happened>> /\ del[d].pc = "close"
    BY <1>7 DEF CloseBlocks, others
  <2>. HIDE DEF v, es
  <2>3. IsDelivery(w) /\ w.seg = del[d].seg /\ w.pc = "flush"
    BY <2>1, PushedKeeps
  <2>. HIDE DEF w
  <2>. QED BY <2>2, <2>3, Moves DEF Inner, Onward
<1>8. CASE CloseFlush(d)
  <2>1. PICK w : /\ Become(d, w) /\ IsDelivery(w) /\ w.seg = del[d].seg /\ w.pc = "end"
    <3>. DEFINE fs == Append(del[d].flights, [events |-> del[d].buf, awaited |-> {Main}])
                last == Len(del[d].flights)
                gs == [del[d].flights EXCEPT ![last] = [events |-> del[d].flights[last].events,
                                            awaited |-> del[d].flights[last].awaited \cup {Main}]]
                x == [del[d] EXCEPT !.pc = "end", !.buf = <<>>, !.flights = fs]
                y == [del[d] EXCEPT !.pc = "end", !.flights = gs]
                z == [del[d] EXCEPT !.pc = "end"]
    <3>1. Become(d, IF del[d].buf # <<>> THEN x ELSE IF last > 0 THEN y ELSE z)
      BY <1>8 DEF CloseFlush
    <3>. HIDE DEF fs, gs
    <3>2. IsDelivery(x) /\ x.seg = del[d].seg /\ x.pc = "end"
      <4>. DEFINE x1 == [del[d] EXCEPT !.pc = "end"]
                  x2 == [x1 EXCEPT !.buf = <<>>]
                  x3 == [x2 EXCEPT !.flights = fs]
      <4>0. x = x3
        OBVIOUS
      <4>1. IsDelivery(x1) /\ x1.seg = del[d].seg /\ x1.pc = "end"
        BY <1>0, PcSet
      <4>. HIDE DEF x1
      <4>2. IsDelivery(x2) /\ x2.seg = del[d].seg /\ x2.pc = "end"
        BY <4>1, BufSet
      <4>. HIDE DEF x2
      <4>3. IsDelivery(x3) /\ x3.seg = del[d].seg /\ x3.pc = "end"
        BY <4>2, FlightsSet
      <4>. HIDE DEF x3
      <4>. QED BY <4>0, <4>3
    <3>3. IsDelivery(y) /\ y.seg = del[d].seg /\ y.pc = "end"
      <4>. DEFINE y1 == [del[d] EXCEPT !.pc = "end"]
                  y2 == [y1 EXCEPT !.flights = gs]
      <4>0. y = y2
        OBVIOUS
      <4>1. IsDelivery(y1) /\ y1.seg = del[d].seg /\ y1.pc = "end"
        BY <1>0, PcSet
      <4>. HIDE DEF y1
      <4>2. IsDelivery(y2) /\ y2.seg = del[d].seg /\ y2.pc = "end"
        BY <4>1, FlightsSet
      <4>. HIDE DEF y2
      <4>. QED BY <4>0, <4>2
    <3>4. IsDelivery(z) /\ z.seg = del[d].seg /\ z.pc = "end"
      BY <1>0, PcSet
    <3>. HIDE DEF x, y, z
    <3>. QED BY <3>1, <3>2, <3>3, <3>4
  <2>2. UNCHANGED <<holder, streams, happened>> /\ del[d].pc = "flush"
    BY <1>8 DEF CloseFlush, others
  <2>. QED BY <2>1, <2>2, Moves DEF Inner, Onward
<1>9. CASE CloseStream(d)
  <2>. DEFINE w == [del[d] EXCEPT !.pc = "closed", !.active = FALSE]
              x == Closed(streams[del[d].seg], Mark(Status(d), Main))
  <2>1. IsDelivery(w) /\ w.pc = "closed" /\ w.seg = del[d].seg
    <3>. DEFINE w1 == [del[d] EXCEPT !.pc = "closed"]
                w2 == [w1 EXCEPT !.active = FALSE]
    <3>0. w = w2
      OBVIOUS
    <3>1. IsDelivery(w1) /\ w1.seg = del[d].seg /\ w1.pc = "closed"
      BY <1>0, PcSet
    <3>. HIDE DEF w1
    <3>2. IsDelivery(w2) /\ w2.seg = del[d].seg /\ w2.pc = "closed"
      BY <3>1, ActiveSet
    <3>. HIDE DEF w2
    <3>. QED BY <3>0, <3>2
  <2>2. Become(d, w) /\ UNCHANGED <<holder, happened>> /\ del[d].pc = "end"
        /\ streams' = [streams EXCEPT ![del[d].seg] = x]
    BY <1>9 DEF CloseStream
  <2>3. del[d].seg \in Numbers => IsStream(x) /\ x.state # "open"
    BY <1>0 DEF Shape, IsStream, Closed
  <2>. HIDE DEF w, x
  <2>4. /\ del'[d] = w /\ (\A e \in Deliveries : e # d => del'[e] = del[e]) /\ Shape'
        /\ \A m \in Numbers : streams'[m] = IF m = del[d].seg THEN x ELSE streams[m]
    BY <1>0, <2>1, <2>2, <2>3, Becomes, Changes DEF Shape
  <2>5. ASSUME Calm' PROVE Owned'
    <3>1. Calm /\ Working(d)
      BY <2>2, <2>5 DEF Calm, Spared, Working
    <3>2. /\ holder = d /\ \A e \in Deliveries : e # d => ~Working(e)
          /\ \A n \in Numbers : streams[n].state = "open" => del[d].seg = n
      BY <3>1, Alone
    <3>3. \A n \in Numbers : streams'[n].state # "open"
      BY <2>3, <2>4, <3>2
    <3>. QED BY <2>2, <2>4, <3>2, <3>3 DEF Owned, Working
  <2>. QED BY <2>4, <2>5 DEF Inv
<1>10. CASE RecordEnd(d)
  <2>. DEFINE w == [del[d] EXCEPT !.pc = "recorded"]
  <2>1. Become(d, w) /\ UNCHANGED <<holder, streams, happened>> /\ del[d].pc = "closed"
    BY <1>10 DEF RecordEnd
  <2>2. IsDelivery(w) /\ w.seg = del[d].seg /\ w.pc = "recorded"
    BY <1>0, PcSet
  <2>. HIDE DEF w
  <2>3. del'[d] = w /\ (\A e \in Deliveries : e # d => del'[e] = del[e]) /\ Shape'
    BY <1>0, <2>1, <2>2, Becomes DEF Shape
  <2>4. ASSUME Calm' PROVE Owned'
    <3>1. Calm /\ Working(d)
      BY <2>1, <2>4 DEF Calm, Spared, Working
    <3>2. /\ holder = d /\ \A e \in Deliveries : e # d => ~Working(e)
          /\ \A n \in Numbers : streams[n].state # "open"
      BY <2>1, <3>1, Alone DEF Inner
    <3>. QED BY <2>1, <2>2, <2>3, <3>2 DEF Owned, Working
  <2>. QED BY <2>3, <2>4 DEF Inv
<1>11. CASE Release(d)
  <2>. DEFINE w == [del[d] EXCEPT !.pc = "released"]
  <2>1. Become(d, w) /\ UNCHANGED <<streams, happened>> /\ del[d].pc \in {"recorded", "left"}
    BY <1>11 DEF Release
  <2>2. IsDelivery(w) /\ w.seg = del[d].seg /\ w.pc = "released"
    BY <1>0, PcSet
  <2>. HIDE DEF w
  <2>3. del'[d] = w /\ (\A e \in Deliveries : e # d => del'[e] = del[e]) /\ Shape'
    BY <1>0, <2>1, <2>2, Becomes DEF Shape
  <2>4. ASSUME Calm
        PROVE  /\ \A e \in Deliveries : ~Working(e)'
               /\ \A n \in Numbers : streams'[n].state # "open"
    <3>1. Working(d)
      BY <2>1 DEF Working
    <3>2. /\ \A e \in Deliveries : e # d => ~Working(e)
          /\ \A n \in Numbers : streams[n].state # "open"
      BY <2>1, <2>4, <3>1, Alone DEF Inner
    <3>. QED BY <2>1, <2>2, <2>3, <3>2 DEF Working
  <2>. QED BY <2>1, <2>3, <2>4, Vacates
<1>12. CASE LockExpires(d)
  <2>1. Shape' /\ UNCHANGED <<del, streams, happened>> /\ holder = d /\ del[d].pc = "dead"
    BY <1>0, <1>12 DEF LockExpires, Shape
  <2>2. ASSUME Calm
        PROVE  /\ \A e \in Deliveries : ~Working(e)
               /\ \A n \in Numbers : streams[n].state # "open"
    BY <2>1, <2>2, Free
  <2>. QED BY <2>1, <2>2, Vacates DEF Working
<1>. QED BY <1>1, <1>2, <1>3, <1>4, <1>5, <1>6, <1>7, <1>8, <1>9, <1>10, <1>11, <1>12 DEF Ports

LEMMA FaultKeeps ==
  ASSUME Inv, NEW d \in Deliveries, Fault(d)
  PROVE  Inv'
<1>0. IsDelivery(del[d]) /\ Shape
  BY DEF Inv, Shape
<1>1. CASE OpenFails(d)
  <2>1. /\ UNCHANGED <<holder, streams>> /\ happened \subseteq happened'
        /\ del[d].pc = "open" \/ (del[d].pc = "started" /\ "record" \in happened')
    BY <1>1 DEF OpenFails, Use, Faults
  <2>2. PICK w : Become(d, w) /\ IsDelivery(w) /\ w.seg = del[d].seg /\ w.pc = "dark"
    <3>. DEFINE x == [del[d] EXCEPT !.pc = "dark"]
                v == Phased(del[d], Main, "live")
                y == [v EXCEPT !.pc = "dark"]
    <3>1. Become(d, x) \/ Become(d, y)
      BY <1>1 DEF OpenFails
    <3>2. IsDelivery(x) /\ x.seg = del[d].seg /\ x.pc = "dark"
      BY <1>0, PcSet
    <3>3. IsDelivery(v) /\ v.seg = del[d].seg
      BY <1>0, PhasedKeeps
    <3>. HIDE DEF x, v
    <3>4. IsDelivery(y) /\ y.seg = del[d].seg /\ y.pc = "dark"
      BY <3>3, PcSet
    <3>. HIDE DEF y
    <3>. QED BY <3>1, <3>2, <3>4
  <2>3. del'[d] = w /\ (\A e \in Deliveries : e # d => del'[e] = del[e]) /\ Shape'
    BY <1>0, <2>1, <2>2, Becomes DEF Shape
  <2>4. ASSUME Calm' PROVE Owned'
    <3>1. Calm /\ Working(d) /\ del[d].pc = "open"
      BY <2>1, <2>4 DEF Calm, Spared, Working
    <3>2. /\ holder = d /\ \A e \in Deliveries : e # d => ~Working(e)
          /\ \A n \in Numbers : streams[n].state # "open"
      BY <3>1, Alone DEF Inner
    <3>. QED BY <2>1, <2>2, <2>3, <3>2 DEF Owned, Working
  <2>. QED BY <2>3, <2>4 DEF Inv
<1>4. CASE CloseFails(d)
  <2>. DEFINE w == [del[d] EXCEPT !.pc = "closed", !.active = FALSE]
              w1 == [del[d] EXCEPT !.pc = "closed"]
              w2 == [w1 EXCEPT !.active = FALSE]
  <2>1. Become(d, w) /\ UNCHANGED streams /\ "close" \in happened'
    BY <1>4 DEF CloseFails, Use, Faults
  <2>2. IsDelivery(w)
    <3>0. w = w2
      OBVIOUS
    <3>1. IsDelivery(w1)
      BY <1>0, PcSet
    <3>. HIDE DEF w1
    <3>2. IsDelivery(w2)
      BY <3>1, ActiveSet
    <3>. HIDE DEF w2
    <3>. QED BY <3>0, <3>2
  <2>. HIDE DEF w
  <2>3. Shape'
    BY <1>0, <2>1, <2>2, Becomes DEF Shape
  <2>. QED BY <2>1, <2>3 DEF Inv, Calm, Spared
<1>5. CASE RecordEndFails(d)
  <2>. DEFINE w == [del[d] EXCEPT !.pc = "recorded"]
  <2>1. Become(d, w) /\ UNCHANGED streams /\ "close" \in happened'
    BY <1>5 DEF RecordEndFails, Use, Faults
  <2>2. IsDelivery(w)
    BY <1>0, PcSet
  <2>. HIDE DEF w
  <2>3. Shape'
    BY <1>0, <2>1, <2>2, Becomes DEF Shape
  <2>. QED BY <2>1, <2>3 DEF Inv, Calm, Spared
<1>2. CASE Die(d)
  <2>. DEFINE w == [NewDelivery EXCEPT !.pc = "dead", !.seg = del[d].seg]
  <2>1. Become(d, w) /\ UNCHANGED streams /\ "death" \in happened'
    BY <1>2 DEF Die, Use, Faults
  <2>2. IsDelivery(w)
    <3>. DEFINE w1 == [NewDelivery EXCEPT !.pc = "dead"]
                w2 == [w1 EXCEPT !.seg = del[d].seg]
    <3>0. w = w2
      OBVIOUS
    <3>1. IsDelivery(w1) /\ w1.seg = NewDelivery.seg /\ w1.pc = "dead"
      BY NewIs, PcSet
    <3>. HIDE DEF w1
    <3>2. IsDelivery(w2) /\ w2.seg = del[d].seg /\ w2.pc = "dead"
      BY <3>1, SegSet
    <3>. HIDE DEF w2
    <3>. QED BY <3>0, <3>2
  <2>. HIDE DEF w
  <2>3. Shape'
    BY <1>0, <2>1, <2>2, Becomes DEF Shape
  <2>. QED BY <2>1, <2>3 DEF Inv, Calm, Spared
<1>3. CASE Lapse(d)
  BY <1>0, <1>3 DEF Lapse, Use, Faults, Inv, Shape, Calm, Spared
<1>. QED BY <1>1, <1>2, <1>3, <1>4, <1>5 DEF Fault

LEMMA SweepKeeps ==
  ASSUME Inv, SegmentsAssumption, NEW s \in Sweepers, Sweep(s) \/ SweepFault(s) \/ GiveUp(s)
  PROVE  Inv'
<1>0. Shape
  BY DEF Inv
<1>1. CASE SweepLock(s) \/ SweepQueue(s) \/ SweepReads(s) \/ SweepLooks(s) \/ SweepRecords(s)
  <2>1. UNCHANGED <<streams, holder, del>> /\ happened \subseteq happened'
    BY <1>1, Uses DEF SweepLock, SweepQueue, SweepReads, SweepLooks, SweepRecords
  <2>. QED BY <2>1, <1>0, Still DEF Shape, Onward
<1>2. CASE SweepCloses(s)
  <2>. DEFINE x == Closed(streams[sweep[s].seg], Mark("RUN_LOST", Main))
  <2>1. UNCHANGED <<holder, del, happened>> /\ streams' = [streams EXCEPT ![sweep[s].seg] = x]
    BY <1>2 DEF SweepCloses
  <2>2. sweep[s].seg \in Numbers => IsStream(x) /\ x.state # "open"
    BY <1>0 DEF Shape, IsStream, Closed
  <2>. HIDE DEF x
  <2>3. /\ Shape'
        /\ \A n \in Numbers : streams'[n].state = "open" => streams[n].state = "open"
    BY <1>0, <2>1, <2>2, Changes DEF Shape
  <2>. QED BY <2>1, <2>3, Still DEF Onward
<1>3. CASE SweepLeaves(s)
  <2>1. UNCHANGED <<streams, del, happened>> /\ holder' = (IF holder = s THEN Nobody ELSE holder)
    BY <1>3 DEF SweepLeaves
  <2>2. Shape'
    BY <1>0, <2>1 DEF Shape
  <2>3. CASE holder = s
    BY <2>1, <2>2, <2>3, Free, Vacates DEF SegmentsAssumption, Working
  <2>4. CASE holder # s
    BY <2>1, <2>2, <2>4, Still DEF Onward
  <2>. QED BY <2>3, <2>4
<1>4. CASE GiveUp(s)
  <2>1. UNCHANGED <<streams, del>> /\ holder = Nobody /\ happened \subseteq happened'
    BY <1>4, Uses DEF GiveUp
  <2>2. Shape'
    BY <1>0, <2>1 DEF Shape
  <2>. QED BY <2>1, <2>2, Free, Vacates DEF SegmentsAssumption, Working
<1>5. CASE SweepFault(s)
  <2>1. UNCHANGED <<streams, del>> /\ "close" \in happened'
    BY <1>5 DEF SweepFault, SweepCloseFails, SweepThrows, Use, Faults
  <2>2. Shape'
    BY <1>0, <2>1 DEF Shape
  <2>. QED BY <2>1, <2>2 DEF Inv, Calm, Spared
<1>. QED BY <1>1, <1>2, <1>3, <1>4, <1>5 DEF Sweep

---------------------------------------------------------------------------

LEMMA InitInv == ASSUME Init PROVE Inv
<1>1. Shape
  BY NewIs DEF Init, Shape, IsStream, NoStream
<1>2. Owned
  BY DEF Init, Owned, NoStream, Working, NewDelivery
<1>. QED BY <1>1, <1>2 DEF Inv

LEMMA StepInv == ASSUME SegmentsAssumption, Inv, [Next]_vars PROVE Inv'
<1>1. ASSUME NEW d \in Deliveries, Progress(d) PROVE Inv'
  BY <1>1, PortsKeep, EndingKeeps, WorkKeeps, NestedKeeps DEF Progress
<1>2. ASSUME NEW d \in Deliveries, Fault(d) PROVE Inv'
  BY <1>2, FaultKeeps
<1>3. ASSUME NEW s \in Sweepers, Sweep(s) \/ SweepFault(s) \/ GiveUp(s) PROVE Inv'
  BY <1>3, SweepKeeps
<1>4. CASE UNCHANGED vars \/ Stop
  <2>1. UNCHANGED <<streams, holder, del>> /\ happened \subseteq happened'
    BY <1>4, Uses DEF vars, Stop
  <2>. QED BY <2>1, Still DEF Inv, Shape, Onward
<1>. QED BY <1>1, <1>2, <1>3, <1>4 DEF Next

\* Close before release keeps one stream open at a time (execute, segment.ts close),
\* whatever the number of deliveries and sweeps, as long as no worker dies or lapses
\* and its start and close go through.
THEOREM OneStreamOpens == Spec => []OneOpenStream
<1>1. Init => Inv
  BY InitInv
<1>2. Inv /\ [Next]_vars => Inv'
  BY StepInv, SegmentsAssumption
<1>3. Inv => OneOpenStream
  BY DEF Inv, Owned, OneOpenStream, Calm
<1>. QED BY <1>1, <1>2, <1>3, PTL DEF Spec

---------------------------------------------------------------------------
(* Sequences whose elements are of no particular set *)

IsSeq(q) == \E S : q \in Seq(S)

LEMMA EmptySeq == IsSeq(<< >>)
<1>1. << >> \in Seq({})
  OBVIOUS
<1>. QED BY <1>1 DEF IsSeq

LEMMA OneSeq ==
  ASSUME NEW x
  PROVE  IsSeq(<<x>>) /\ Len(<<x>>) = 1 /\ <<x>>[1] = x
<1>1. <<x>> \in Seq({x})
  OBVIOUS
<1>. QED BY <1>1 DEF IsSeq

LEMMA LongSeq ==
  ASSUME NEW q, IsSeq(q)
  PROVE  /\ Len(q) \in Nat /\ DOMAIN q = 1..Len(q)
         /\ (q = << >>) <=> (Len(q) = 0)
         /\ q # << >> => 1 \in 1..Len(q)
<1>1. PICK S : q \in Seq(S)
  BY DEF IsSeq
<1>. QED BY <1>1

LEMMA AppendSeq ==
  ASSUME NEW q, IsSeq(q), NEW x
  PROVE  /\ IsSeq(Append(q, x))
         /\ Len(Append(q, x)) = Len(q) + 1
         /\ Append(q, x)[Len(q) + 1] = x
         /\ \A i \in 1..Len(q) : Append(q, x)[i] = q[i]
<1>1. PICK S : q \in Seq(S)
  BY DEF IsSeq
<1>2. q \in Seq(S \cup {x}) /\ x \in S \cup {x}
  BY <1>1
<1>3. Append(q, x) \in Seq(S \cup {x})
  BY <1>2
<1>. QED BY <1>2, <1>3 DEF IsSeq

LEMMA ConcatSeq ==
  ASSUME NEW p, IsSeq(p), NEW q, IsSeq(q)
  PROVE  /\ IsSeq(p \o q)
         /\ Len(p \o q) = Len(p) + Len(q)
         /\ \A i \in 1..Len(p) : (p \o q)[i] = p[i]
         /\ \A i \in 1..Len(q) : (p \o q)[Len(p) + i] = q[i]
<1>1. PICK S : p \in Seq(S)
  BY DEF IsSeq
<1>2. PICK T : q \in Seq(T)
  BY DEF IsSeq
<1>3. p \in Seq(S \cup T) /\ q \in Seq(S \cup T)
  BY <1>1, <1>2
<1>4. p \o q \in Seq(S \cup T)
  BY <1>3
<1>. QED BY <1>3, <1>4 DEF IsSeq

LEMMA TailSeq ==
  ASSUME NEW q, IsSeq(q), q # << >>
  PROVE  /\ IsSeq(Tail(q)) /\ Len(Tail(q)) = Len(q) - 1 /\ Head(q) = q[1]
         /\ \A i \in 1..Len(Tail(q)) : Tail(q)[i] = q[i + 1]
<1>1. PICK S : q \in Seq(S)
  BY DEF IsSeq
<1>2. Tail(q) \in Seq(S)
  BY <1>1
<1>. QED BY <1>1, <1>2 DEF IsSeq

LEMMA FunSeq ==
  ASSUME NEW n \in Nat, NEW q, DOMAIN q = 1..n, q = [i \in 1..n |-> q[i]]
  PROVE  IsSeq(q)
<1>1. q \in Seq({q[i] : i \in 1..n})
  OBVIOUS
<1>. QED BY <1>1 DEF IsSeq

---------------------------------------------------------------------------
(* What a delivery has in its buffers *)

Early == {"idle", "incr", "open"}

Sound(w) ==
  /\ IsSeq(w.buf) /\ IsSeq(w.flights)
  /\ \A i \in 1..Len(w.flights) : IsSeq(w.flights[i].events)

\* The batch in front begins with RUN_STARTED, and the main agent awaits it.
Leads(w) ==
  /\ w.flights # <<>> /\ Main \in w.flights[1].awaited
  /\ w.flights[1].events # <<>> /\ w.flights[1].events[1].type = "RUN_STARTED"

\* x is w after its agents went on.
Goes(w, x) ==
  /\ IsDelivery(x) /\ x.seg = w.seg /\ Sound(x)
  /\ Leads(w) => Leads(x)
  /\ w.pc \in Early /\ ~w.active =>
       ~x.active /\ (w.buf = <<>> /\ w.flights = <<>> => x.buf = <<>> /\ x.flights = <<>>)

LEMMA SomeFields ==
  ASSUME NEW w, IsDelivery(w), NEW v
  PROVE  /\ [w EXCEPT !.pc = v] = [pc |-> v, seg |-> w.seg, active |-> w.active, buf |-> w.buf,
                                   flights |-> w.flights, agents |-> w.agents]
         /\ [w EXCEPT !.seg = v] = [pc |-> w.pc, seg |-> v, active |-> w.active, buf |-> w.buf,
                                   flights |-> w.flights, agents |-> w.agents]
         /\ [w EXCEPT !.active = v] = [pc |-> w.pc, seg |-> w.seg, active |-> v, buf |-> w.buf,
                                   flights |-> w.flights, agents |-> w.agents]
         /\ [w EXCEPT !.buf = v] = [pc |-> w.pc, seg |-> w.seg, active |-> w.active, buf |-> v,
                                   flights |-> w.flights, agents |-> w.agents]
         /\ [w EXCEPT !.flights = v] = [pc |-> w.pc, seg |-> w.seg, active |-> w.active, buf |-> w.buf,
                                   flights |-> v, agents |-> w.agents]
         /\ [w EXCEPT !.agents = v] = [pc |-> w.pc, seg |-> w.seg, active |-> w.active, buf |-> w.buf,
                                   flights |-> w.flights, agents |-> v]
BY DEF IsDelivery

LEMMA FlightsGrow ==
  ASSUME NEW w, Sound(w), NEW es, IsSeq(es), NEW who
  PROVE  LET fs == Append(w.flights, [events |-> es, awaited |-> who]) IN
         /\ IsSeq(fs) /\ \A i \in 1..Len(fs) : IsSeq(fs[i].events)
         /\ w.flights # <<>> => fs # <<>> /\ fs[1] = w.flights[1]
         /\ w.flights = <<>> => fs # <<>> /\ fs[1] = [events |-> es, awaited |-> who]
<1>. DEFINE x == [events |-> es, awaited |-> who]
            fs == Append(w.flights, x)
<1>1. /\ IsSeq(fs) /\ Len(fs) = Len(w.flights) + 1 /\ fs[Len(w.flights) + 1] = x
      /\ \A i \in 1..Len(w.flights) : fs[i] = w.flights[i]
  BY AppendSeq DEF Sound
<1>2. Len(w.flights) \in Nat /\ (w.flights = <<>> <=> Len(w.flights) = 0) /\ x.events = es
  BY LongSeq DEF Sound
<1>3. Len(fs) \in Nat /\ (fs = <<>> <=> Len(fs) = 0)
  BY <1>1, LongSeq
<1>. HIDE DEF fs, x
<1>4. \A i \in 1..Len(fs) : i \in 1..Len(w.flights) \/ i = Len(w.flights) + 1
  BY <1>1, <1>2
<1>5. \A i \in 1..Len(fs) : IsSeq(fs[i].events)
  BY <1>1, <1>2, <1>4 DEF Sound
<1>6. w.flights # <<>> => 1 \in 1..Len(w.flights)
  BY <1>2
<1>7. fs # <<>>
  BY <1>1, <1>2, <1>3
<1>8. w.flights = <<>> => fs[1] = x
  BY <1>1, <1>2
<1>9. w.flights # <<>> => fs[1] = w.flights[1]
  BY <1>1, <1>6
<1>. QED BY <1>1, <1>5, <1>7, <1>8, <1>9 DEF fs, x

\* Events that are pushed go behind what is there; nothing is pushed before a segment is open.
LEMMA PushedGoes ==
  ASSUME NEW w, IsDelivery(w), Sound(w), w.active \/ w.pc \notin Early, NEW a, NEW es, IsSeq(es)
  PROVE  Goes(w, Pushed(w, a, es))
<1>. DEFINE b == w.buf \o es
            fs == Append(w.flights, [events |-> b, awaited |-> {a}])
            x == [w EXCEPT !.buf = <<>>, !.flights = fs]
            y == [w EXCEPT !.buf = b]
<1>1. IsSeq(b)
  BY ConcatSeq DEF Sound
<1>. HIDE DEF b
<1>2. /\ IsSeq(fs) /\ \A i \in 1..Len(fs) : IsSeq(fs[i].events)
      /\ w.flights # <<>> => fs # <<>> /\ fs[1] = w.flights[1]
  BY <1>1, FlightsGrow
<1>. HIDE DEF fs
<1>3. x = [pc |-> w.pc, seg |-> w.seg, active |-> w.active, buf |-> <<>>, flights |-> fs, agents |-> w.agents]
  <2>. DEFINE x1 == [w EXCEPT !.buf = <<>>]
  <2>1. x1 = [pc |-> w.pc, seg |-> w.seg, active |-> w.active, buf |-> <<>>, flights |-> w.flights, agents |-> w.agents]
    BY SomeFields
  <2>2. x = [x1 EXCEPT !.flights = fs]
    OBVIOUS
  <2>. HIDE DEF x1
  <2>3. IsDelivery(x1)
    BY <2>1 DEF IsDelivery
  <2>4. [x1 EXCEPT !.flights = fs] = [pc |-> x1.pc, seg |-> x1.seg, active |-> x1.active,
                                      buf |-> x1.buf, flights |-> fs, agents |-> x1.agents]
    BY <2>3, SomeFields
  <2>. QED BY <2>1, <2>2, <2>4
<1>4. y = [pc |-> w.pc, seg |-> w.seg, active |-> w.active, buf |-> b, flights |-> w.flights, agents |-> w.agents]
  BY SomeFields
<1>5. Pushed(w, a, es) \in {w, x, y}
  BY DEF Pushed, b, fs
<1>. HIDE DEF x, y
<1>6. Goes(w, x)
  BY <1>2, <1>3, EmptySeq DEF Goes, IsDelivery, Sound, Leads
<1>7. Goes(w, y)
  BY <1>1, <1>4 DEF Goes, IsDelivery, Sound, Leads
<1>8. Goes(w, w)
  BY DEF Goes
<1>. QED BY <1>5, <1>6, <1>7, <1>8

\* A change of the agents alone.
LEMMA AgentsGo ==
  ASSUME NEW w, IsDelivery(w), Sound(w), NEW v
  PROVE  LET x == [w EXCEPT !.agents = v] IN
         IsDelivery(x) /\ Sound(x) /\ x.pc = w.pc /\ x.active = w.active /\ Goes(w, x)
<1>. DEFINE x == [w EXCEPT !.agents = v]
<1>1. x = [pc |-> w.pc, seg |-> w.seg, active |-> w.active, buf |-> w.buf, flights |-> w.flights, agents |-> v]
  BY SomeFields
<1>. HIDE DEF x
<1>2. IsDelivery(x) /\ Sound(x) /\ x.pc = w.pc /\ x.active = w.active /\ Goes(w, x)
  BY <1>1 DEF Goes, IsDelivery, Sound, Leads
<1>. QED BY <1>2 DEF x

LEMMA AgentGoes ==
  ASSUME NEW w, IsDelivery(w), Sound(w), NEW a, NEW g
  PROVE  LET x == [w EXCEPT !.agents[a] = g] IN
         IsDelivery(x) /\ Sound(x) /\ x.pc = w.pc /\ x.active = w.active /\ Goes(w, x)
<1>1. [w EXCEPT !.agents[a] = g] = [w EXCEPT !.agents = [w.agents EXCEPT ![a] = g]]
  BY DEF IsDelivery
<1>. QED BY <1>1, AgentsGo

LEMMA PhasedGoes ==
  ASSUME NEW w, IsDelivery(w), Sound(w), NEW a, NEW p
  PROVE  LET x == Phased(w, a, p) IN
         IsDelivery(x) /\ Sound(x) /\ x.pc = w.pc /\ x.active = w.active /\ Goes(w, x)
<1>. DEFINE h == [w.agents[a] EXCEPT !.phase = p]
            z == [w EXCEPT !.agents[a] = h]
<1>1. Phased(w, a, p) = z
  BY DEF Phased
<1>. HIDE DEF h
<1>2. IsDelivery(z) /\ Sound(z) /\ z.pc = w.pc /\ z.active = w.active /\ Goes(w, z)
  BY AgentGoes
<1>. HIDE DEF z
<1>. QED BY <1>1, <1>2

LEMMA EndsSeq == ASSUME NEW b, NEW a PROVE IsSeq(EndBlocks(b, a))
BY EmptySeq, OneSeq DEF EndBlocks

LEMMA MapSeq ==
  ASSUME NEW c, NEW b, NEW t, NEW a
  PROVE  IsSeq(MapChunk(c, b, t, a).out)
<1>. DEFINE content == <<Event(c.kind, a, c.from, c.to)>>
            tool == IF t THEN <<>> ELSE <<Mark("TOOL_CALL_START", a)>>
            start == <<Mark(StartOf[c.kind], a)>>
            ends == EndBlocks(b, a)
<1>1. IsSeq(content) /\ IsSeq(start) /\ IsSeq(ends) /\ IsSeq(tool)
  BY EmptySeq, OneSeq, EndsSeq
<1>. HIDE DEF content, tool, start, ends
<1>2. IsSeq(ends \o start) /\ IsSeq(tool \o content) /\ IsSeq(ends \o tool)
  BY <1>1, ConcatSeq
<1>3. IsSeq((ends \o start) \o content) /\ IsSeq((ends \o tool) \o content)
  BY <1>1, <1>2, ConcatSeq
<1>4. MapChunk(c, b, t, a).out \in {content, (ends \o start) \o content, tool \o content, (ends \o tool) \o content}
  BY DEF MapChunk, content, tool, start, ends
<1>. QED BY <1>1, <1>2, <1>3, <1>4

LEMMA EndsAppend == ASSUME NEW b, NEW a, NEW x PROVE IsSeq(Append(EndBlocks(b, a), x))
BY EndsSeq, AppendSeq

\* The ends of the open blocks: the agents are finitely many.
LEMMA ListedSeq ==
  ASSUME SegmentsAssumption, NEW S, S \subseteq Agents
  PROVE  \E n \in Nat : DOMAIN Listed(S) = 1..n
<1>1. IsFiniteSet(Agents)
  BY FS_AddElement DEF SegmentsAssumption, Agents
<1>2. IsFiniteSet(S)
  BY <1>1, FS_Subset
<1>. DEFINE n == Cardinality(S)
<1>3. n \in Nat /\ \E f \in [1..n -> S] : \A i, j \in 1..n : f[i] = f[j] => i = j
  BY <1>2, FS_CardinalityType DEF ExistsBijection, Bijection, Injection, IsInjective
<1>4. Listed(S) \in [1..n -> S]
  BY <1>3 DEF Listed
<1>. QED BY <1>3, <1>4

\* A delivery moves on inside, and to p, and nobody else notices.
Moving(d, p) ==
  /\ \E x : Become(d, x) /\ Goes(del[d], x) /\ x.pc = p
  /\ UNCHANGED <<streams, counter, record, holder, jobs, sweep>>
  /\ done => done'
  /\ happened \subseteq happened'

LEMMA WorkMoves ==
  ASSUME NEW d \in Deliveries, IsDelivery(del[d]), Sound(del[d]), NEW a \in Agents, Work(d, a)
  PROVE  Moving(d, del[d].pc)
<1>. DEFINE w == del[d]
            g == w.agents[a]
<1>1. ASSUME NEW k \in Kinds, Part(d, a, k) PROVE Moving(d, del[d].pc)
  <2>. DEFINE h == Batched(g, k)
              x == [w EXCEPT !.agents[a] = h]
  <2>1. Become(d, x)
    BY <1>1 DEF Part
  <2>. HIDE DEF h
  <2>2. Goes(w, x) /\ x.pc = w.pc
    BY AgentGoes
  <2>. HIDE DEF x
  <2>. QED BY <1>1, <2>1, <2>2, Uses DEF Part, Moving
<1>2. CASE BatchTimer(d, a)
  <2>. DEFINE h == FlushHeld(g)
              x == [w EXCEPT !.agents[a] = h]
  <2>1. Become(d, x)
    BY <1>2 DEF BatchTimer
  <2>. HIDE DEF h
  <2>2. Goes(w, x) /\ x.pc = w.pc
    BY AgentGoes
  <2>. HIDE DEF x
  <2>. QED BY <1>2, <2>1, <2>2 DEF BatchTimer, Moving, others
<1>3. CASE Send(d, a)
  <2>. DEFINE m == MapChunk(Head(g.chain), g.block, g.tool, a)
              rest == [g EXCEPT !.chain = Tail(g.chain)]
              told == [rest EXCEPT !.block = m.block, !.tool = m.tool]
              y == [w EXCEPT !.agents[a] = told]
              z == [w EXCEPT !.agents[a] = rest]
              x == IF w.active THEN Pushed(y, a, m.out) ELSE z
  <2>1. Become(d, x)
    BY <1>3 DEF Send
  <2>2. IsSeq(m.out)
    BY MapSeq
  <2>. HIDE DEF m, rest, told
  <2>3. IsDelivery(y) /\ Sound(y) /\ y.pc = w.pc /\ y.active = w.active /\ Goes(w, y)
    BY AgentGoes
  <2>4. z.pc = w.pc /\ Goes(w, z)
    BY AgentGoes
  <2>. HIDE DEF y, z
  <2>5. w.active => Goes(y, Pushed(y, a, m.out)) /\ Pushed(y, a, m.out).pc = w.pc
    BY <2>2, <2>3, PushedGoes, PushedKeeps
  <2>6. Goes(w, x) /\ x.pc = w.pc
    BY <2>3, <2>4, <2>5 DEF Goes
  <2>. HIDE DEF x
  <2>. QED BY <1>3, <2>1, <2>6 DEF Send, Moving, others
<1>4. CASE CallEnds(d, a)
  <2>. DEFINE h == [FlushHeld(g) EXCEPT !.phase = "flush"]
              x == [w EXCEPT !.agents[a] = h]
  <2>1. Become(d, x)
    BY <1>4 DEF CallEnds
  <2>. HIDE DEF h
  <2>2. Goes(w, x) /\ x.pc = w.pc
    BY AgentGoes
  <2>. HIDE DEF x
  <2>. QED BY <1>4, <2>1, <2>2 DEF CallEnds, Moving, others
<1>5. CASE Commit(d, a)
  <2>. DEFINE h == [g EXCEPT !.phase = "commit", !.block = None]
              y == [w EXCEPT !.agents[a] = h]
              es == Append(EndBlocks(g.block, a), Event("STEP_FINISHED", a, 0, g.serial))
              x == Pushed(y, a, es)
  <2>1. Become(d, x) /\ w.active
    BY <1>5 DEF Commit, MayMove
  <2>2. IsSeq(es)
    BY EndsAppend
  <2>. HIDE DEF h, es
  <2>3. IsDelivery(y) /\ Sound(y) /\ y.pc = w.pc /\ y.active = w.active /\ Goes(w, y)
    BY AgentGoes
  <2>. HIDE DEF y
  <2>4. Goes(y, x) /\ x.pc = w.pc
    BY <2>1, <2>2, <2>3, PushedGoes, PushedKeeps
  <2>. HIDE DEF x
  <2>5. Goes(w, x)
    BY <2>1, <2>3, <2>4 DEF Goes
  <2>. QED BY <1>5, <2>1, <2>4, <2>5 DEF Commit, Moving, others
<1>6. CASE NextStep(d, a)
  <2>. DEFINE x == Phased(w, a, "live")
  <2>1. Become(d, x)
    BY <1>6 DEF NextStep
  <2>2. Goes(w, x) /\ x.pc = w.pc
    <3>. DEFINE h == [g EXCEPT !.phase = "live"]
    <3>1. x = [w EXCEPT !.agents[a] = h]
      BY DEF Phased
    <3>. HIDE DEF x, h
    <3>. QED BY <3>1, AgentGoes
  <2>. HIDE DEF x
  <2>. QED BY <1>6, <2>1, <2>2, Uses DEF NextStep, Moving
<1>. QED BY <1>1, <1>2, <1>3, <1>4, <1>5, <1>6 DEF Work

LEMMA NestedMoves ==
  ASSUME NEW d \in Deliveries, IsDelivery(del[d]), Sound(del[d]), NEW s \in Subs, Nested(d, s)
  PROVE  Moving(d, del[d].pc)
<1>. DEFINE w == del[d]
            g == w.agents[s]
<1>1. CASE SubStarts(d, s)
  <2>. DEFINE y == Phased(w, s, "live")
              es == <<Mark("SUBAGENT_STARTED", s)>>
              x == Pushed(y, s, es)
  <2>1. Become(d, x) /\ w.active
    BY <1>1 DEF SubStarts
  <2>2. IsSeq(es)
    BY OneSeq
  <2>3. IsDelivery(y) /\ Sound(y) /\ y.pc = w.pc /\ y.active = w.active /\ Goes(w, y)
    <3>. DEFINE h == [g EXCEPT !.phase = "live"]
                z == [w EXCEPT !.agents[s] = h]
    <3>1. y = z
      BY DEF Phased
    <3>. HIDE DEF h
    <3>2. IsDelivery(z) /\ Sound(z) /\ z.pc = w.pc /\ z.active = w.active /\ Goes(w, z)
      BY AgentGoes
    <3>. HIDE DEF y, z
    <3>. QED BY <3>1, <3>2
  <2>. HIDE DEF y, es
  <2>4. Goes(y, x) /\ x.pc = w.pc
    BY <2>1, <2>2, <2>3, PushedGoes, PushedKeeps
  <2>. HIDE DEF x
  <2>5. Goes(w, x)
    BY <2>1, <2>3, <2>4 DEF Goes
  <2>. QED BY <1>1, <2>1, <2>4, <2>5, Uses DEF SubStarts, Moving
<1>2. CASE SubEnds(d, s)
  <2>. DEFINE h == [g EXCEPT !.phase = "over", !.block = None]
              y == [w EXCEPT !.agents[s] = h]
              es == Append(EndBlocks(g.block, s), Mark("SUBAGENT_FINISHED", s))
              x == Pushed(y, s, es)
  <2>1. Become(d, x) /\ w.active
    BY <1>2 DEF SubEnds, MayMove
  <2>2. IsSeq(es)
    BY EndsAppend
  <2>. HIDE DEF h, es
  <2>3. IsDelivery(y) /\ Sound(y) /\ y.pc = w.pc /\ y.active = w.active /\ Goes(w, y)
    BY AgentGoes
  <2>. HIDE DEF y
  <2>4. Goes(y, x) /\ x.pc = w.pc
    BY <2>1, <2>2, <2>3, PushedGoes, PushedKeeps
  <2>. HIDE DEF x
  <2>5. Goes(w, x)
    BY <2>1, <2>3, <2>4 DEF Goes
  <2>. QED BY <1>2, <2>1, <2>4, <2>5 DEF SubEnds, Moving, others
<1>. QED BY <1>1, <1>2 DEF Nested

LEMMA PlaceGoes ==
  ASSUME NEW w, IsDelivery(w), Sound(w), NEW p
  PROVE  LET x == [w EXCEPT !.pc = p] IN
         IsDelivery(x) /\ Sound(x) /\ x.pc = p /\ x.active = w.active /\ x.buf = w.buf
         /\ x.flights = w.flights /\ Goes(w, x)
<1>. DEFINE x == [w EXCEPT !.pc = p]
<1>1. x = [pc |-> p, seg |-> w.seg, active |-> w.active, buf |-> w.buf, flights |-> w.flights, agents |-> w.agents]
  BY SomeFields
<1>. HIDE DEF x
<1>2. /\ IsDelivery(x) /\ Sound(x) /\ x.pc = p /\ x.active = w.active /\ x.buf = w.buf
      /\ x.flights = w.flights /\ Goes(w, x)
  BY <1>1 DEF Goes, IsDelivery, Sound, Leads
<1>. QED BY <1>2 DEF x

LEMMA EndingMoves ==
  ASSUME NEW d \in Deliveries, IsDelivery(del[d]), Sound(del[d]), Ending(d)
  PROVE  \/ del[d].pc = "work" /\ Moving(d, "close")
         \/ del[d].pc = "dark" /\ Moving(d, "left")
<1>1. ASSUME NEW q, NEW p, Become(d, [Phased(del[d], Main, q) EXCEPT !.pc = p])
      PROVE  \E x : Become(d, x) /\ Goes(del[d], x) /\ x.pc = p
  <2>. DEFINE y == Phased(del[d], Main, q)
              x == [y EXCEPT !.pc = p]
  <2>1. Become(d, x)
    BY <1>1
  <2>2. IsDelivery(y) /\ Sound(y) /\ y.pc = del[d].pc /\ y.active = del[d].active /\ Goes(del[d], y)
    BY PhasedGoes
  <2>. HIDE DEF y
  <2>3. x.pc = p /\ Goes(y, x)
    BY <2>2, PlaceGoes
  <2>. HIDE DEF x
  <2>4. Goes(del[d], x)
    BY <2>2, <2>3 DEF Goes
  <2>. QED BY <2>1, <2>3, <2>4
<1>2. CASE Finish(d)
  <2>1. Become(d, [Phased(del[d], Main, "over") EXCEPT !.pc = "close"])
    BY <1>2 DEF Finish
  <2>2. \E x : Become(d, x) /\ Goes(del[d], x) /\ x.pc = "close"
    BY <1>1, <2>1
  <2>. QED BY <1>2, <2>2 DEF Finish, Moving
<1>3. CASE Cut(d)
  <2>1. Become(d, [Phased(del[d], Main, "cut") EXCEPT !.pc = "close"])
    BY <1>3 DEF Cut
  <2>2. \E x : Become(d, x) /\ Goes(del[d], x) /\ x.pc = "close"
    BY <1>1, <2>1
  <2>. QED BY <1>3, <2>2, Uses DEF Cut, Moving
<1>4. CASE DarkFinish(d)
  <2>1. Become(d, [Phased(del[d], Main, "over") EXCEPT !.pc = "left"])
    BY <1>4 DEF DarkFinish
  <2>2. \E x : Become(d, x) /\ Goes(del[d], x) /\ x.pc = "left"
    BY <1>1, <2>1
  <2>. QED BY <1>4, <2>2 DEF DarkFinish, Moving
<1>5. CASE DarkCut(d)
  <2>1. Become(d, [Phased(del[d], Main, "cut") EXCEPT !.pc = "left"])
    BY <1>5 DEF DarkCut
  <2>2. \E x : Become(d, x) /\ Goes(del[d], x) /\ x.pc = "left"
    BY <1>1, <2>1
  <2>. QED BY <1>5, <2>2, Uses DEF DarkCut, Moving
<1>. QED BY <1>2, <1>3, <1>4, <1>5 DEF Ending

LEMMA FlushMoves ==
  ASSUME NEW d \in Deliveries, IsDelivery(del[d]), Sound(del[d]), FlushTimer(d),
         del[d].pc \in Early => del[d].buf = <<>>
  PROVE  Moving(d, del[d].pc)
<1>. DEFINE w == del[d]
            fs == Append(w.flights, [events |-> w.buf, awaited |-> {}])
            x1 == [w EXCEPT !.buf = <<>>]
            x == [w EXCEPT !.buf = <<>>, !.flights = fs]
<1>1. Become(d, x) /\ w.pc \notin Early
  BY DEF FlushTimer
<1>2. /\ IsSeq(fs) /\ \A i \in 1..Len(fs) : IsSeq(fs[i].events)
      /\ w.flights # <<>> => fs # <<>> /\ fs[1] = w.flights[1]
  <2>1. Sound(w) /\ IsSeq(w.buf)
    BY DEF Sound
  <2>. QED BY <2>1, FlightsGrow
<1>3. x = [x1 EXCEPT !.flights = fs]
  OBVIOUS
<1>. HIDE DEF fs
<1>4. x1 = [pc |-> w.pc, seg |-> w.seg, active |-> w.active, buf |-> <<>>, flights |-> w.flights, agents |-> w.agents]
  BY SomeFields
<1>. HIDE DEF x1
<1>5. IsDelivery(x1)
  BY <1>4 DEF IsDelivery
<1>6. [x1 EXCEPT !.flights = fs] = [pc |-> x1.pc, seg |-> x1.seg, active |-> x1.active,
                                    buf |-> x1.buf, flights |-> fs, agents |-> x1.agents]
  BY <1>5, SomeFields
<1>. HIDE DEF x
<1>7. x = [pc |-> w.pc, seg |-> w.seg, active |-> w.active, buf |-> <<>>, flights |-> fs, agents |-> w.agents]
  BY <1>3, <1>4, <1>6
<1>8. Goes(w, x) /\ x.pc = w.pc
  BY <1>1, <1>2, <1>7, EmptySeq DEF Goes, IsDelivery, Sound, Leads
<1>. QED BY <1>1, <1>8 DEF FlushTimer, Moving, others

\* A delivery closes down: its open blocks are ended and its buffer goes out.
LEMMA ClosingMoves ==
  ASSUME SegmentsAssumption, NEW d \in Deliveries, IsDelivery(del[d]), Sound(del[d])
  PROVE  /\ CloseBlocks(d) => del[d].pc = "close" /\ Moving(d, "flush")
         /\ CloseFlush(d) => del[d].pc = "flush" /\ Moving(d, "end")
<1>. DEFINE w == del[d]
<1>1. ASSUME CloseBlocks(d) PROVE w.pc = "close" /\ Moving(d, "flush")
  <2>. DEFINE S == {a \in Agents : w.agents[a].block # None}
              open == Listed(S)
              ags == [a \in Agents |-> [w.agents[a] EXCEPT !.block = None]]
              v1 == [w EXCEPT !.pc = "flush"]
              v == [v1 EXCEPT !.agents = ags]
              es == [i \in DOMAIN open |-> Mark(EndOf[w.agents[open[i]].block], open[i])]
              x == Pushed(v, Main, es)
  <2>1. w.pc = "close" /\ Become(d, x)
    BY <1>1 DEF CloseBlocks
  <2>2. \E n \in Nat : DOMAIN open = 1..n
    BY ListedSeq
  <2>. HIDE DEF open, ags
  <2>3. IsSeq(es)
    BY <2>2, FunSeq
  <2>4. IsDelivery(v1) /\ Sound(v1) /\ v1.pc = "flush" /\ Goes(w, v1)
    BY PlaceGoes
  <2>. HIDE DEF v1, es
  <2>5. IsDelivery(v) /\ Sound(v) /\ v.pc = v1.pc /\ Goes(v1, v)
    BY <2>4, AgentsGo
  <2>. HIDE DEF v
  <2>6. Goes(v, x) /\ x.pc = "flush"
    BY <2>3, <2>4, <2>5, PushedGoes, PushedKeeps DEF Early
  <2>. HIDE DEF x
  <2>7. Goes(w, x)
    BY <2>1, <2>4, <2>5, <2>6 DEF Goes, Early
  <2>. QED BY <1>1, <2>1, <2>6, <2>7 DEF CloseBlocks, Moving, others
<1>2. ASSUME CloseFlush(d) PROVE w.pc = "flush" /\ Moving(d, "end")
  <2>. DEFINE fs == Append(w.flights, [events |-> w.buf, awaited |-> {Main}])
              last == Len(w.flights)
              f == [events |-> w.flights[last].events, awaited |-> w.flights[last].awaited \cup {Main}]
              gs == [w.flights EXCEPT ![last] = f]
              y == [w EXCEPT !.pc = "end"]
              x1 == [y EXCEPT !.buf = <<>>]
              x2 == [x1 EXCEPT !.flights = fs]
              x3 == [y EXCEPT !.flights = gs]
              x == IF w.buf # <<>> THEN x2 ELSE IF last > 0 THEN x3 ELSE y
  <2>1. w.pc = "flush" /\ Become(d, x)
    BY <1>2 DEF CloseFlush
  <2>2. IsDelivery(y) /\ Sound(y) /\ y.pc = "end" /\ y.buf = w.buf /\ y.flights = w.flights /\ Goes(w, y)
    BY PlaceGoes
  <2>3. /\ IsSeq(fs) /\ \A i \in 1..Len(fs) : IsSeq(fs[i].events)
        /\ w.flights # <<>> => fs # <<>> /\ fs[1] = w.flights[1]
    <3>1. Sound(w) /\ IsSeq(w.buf)
      BY DEF Sound
    <3>. QED BY <3>1, FlightsGrow
  <2>. HIDE DEF y
  <2>4. Goes(w, x2) /\ x2.pc = "end"
    <3>1. x1 = [pc |-> y.pc, seg |-> y.seg, active |-> y.active, buf |-> <<>>, flights |-> y.flights, agents |-> y.agents]
      BY <2>2, SomeFields
    <3>. HIDE DEF x1, fs
    <3>2. IsDelivery(x1)
      BY <3>1 DEF IsDelivery
    <3>3. x2 = [pc |-> x1.pc, seg |-> x1.seg, active |-> x1.active, buf |-> x1.buf, flights |-> fs, agents |-> x1.agents]
      BY <3>2, SomeFields
    <3>. HIDE DEF x2
    <3>4. x2 = [pc |-> "end", seg |-> y.seg, active |-> y.active, buf |-> <<>>, flights |-> fs, agents |-> y.agents]
      BY <2>2, <3>1, <3>3
    <3>. QED BY <2>1, <2>2, <2>3, <3>4, EmptySeq DEF Goes, IsDelivery, Sound, Leads, Early
  <2>5. last > 0 => Goes(w, x3) /\ x3.pc = "end"
    <3> SUFFICES ASSUME last > 0 PROVE Goes(w, x3) /\ x3.pc = "end"
      OBVIOUS
    <3>1. last \in 1..Len(w.flights) /\ 1 \in 1..Len(w.flights) /\ w.flights # <<>>
      BY LongSeq DEF Sound
    <3>3. f.events = w.flights[last].events /\ w.flights[last].awaited \subseteq f.awaited
      OBVIOUS
    <3>. DEFINE q == w.flights
    <3>a. IsSeq(q) /\ last \in 1..Len(q) /\ gs = [q EXCEPT ![last] = f]
      BY <3>1 DEF Sound
    <3>. HIDE DEF f, last, q, gs
    <3>b. /\ IsSeq(gs) /\ Len(gs) = Len(q) /\ gs[last] = f
          /\ \A i \in 1..Len(q) : i # last => gs[i] = q[i]
      <4>1. PICK S : q \in Seq(S)
        BY <3>a DEF IsSeq
      <4>2. q \in Seq(S \cup {f}) /\ f \in S \cup {f}
        BY <4>1
      <4>3. gs \in Seq(S \cup {f})
        BY <4>2, <3>a
      <4>. QED BY <4>2, <4>3, <3>a DEF IsSeq
    <3>2. /\ IsSeq(gs) /\ Len(gs) = Len(w.flights) /\ gs[last] = f
          /\ \A i \in 1..Len(w.flights) : i # last => gs[i] = w.flights[i]
      BY <3>b DEF q
    <3>4. \A i \in 1..Len(gs) : IsSeq(gs[i].events)
      BY <3>1, <3>2, <3>3 DEF Sound
    <3>. USE DEF last
    <3>5. gs # <<>> /\ gs[1].events = w.flights[1].events /\ w.flights[1].awaited \subseteq gs[1].awaited
      BY <3>1, <3>2, <3>3, LongSeq
    <3>6. x3 = [pc |-> y.pc, seg |-> y.seg, active |-> y.active, buf |-> y.buf, flights |-> gs, agents |-> y.agents]
      BY <2>2, SomeFields
    <3>. HIDE DEF x3
    <3>. QED BY <2>1, <2>2, <3>2, <3>4, <3>5, <3>6 DEF Goes, IsDelivery, Sound, Leads, Early
  <2>6. Goes(w, x) /\ x.pc = "end"
    BY <2>2, <2>4, <2>5
  <2>. HIDE DEF x
  <2>. QED BY <1>2, <2>1, <2>6 DEF CloseFlush, Moving, others
<1>. QED BY <1>1, <1>2

---------------------------------------------------------------------------
(* What is true of the streams, the record and the deliveries together *)

Entry(t, n) == \E i \in DOMAIN record : record[i] = [type |-> t, seg |-> n]

SweepShape ==
  /\ sweep = [s \in Sweepers |-> sweep[s]]
  /\ \A s \in Sweepers : sweep[s] = [pc |-> sweep[s].pc, seg |-> sweep[s].seg]

\* The deliveries that took a number: each has one of its own.
Took == {d \in Deliveries : del[d].seg # 0}
Numbered ==
  /\ counter = Cardinality(Took)
  /\ \A d \in Deliveries :
       /\ del[d].seg \in 0..counter
       /\ del[d].pc \in {"idle", "incr"} => del[d].seg = 0
       /\ del[d].pc \in Inner \cup {"open", "closed", "recorded"} => del[d].seg # 0
  /\ \A d, e \in Deliveries : del[d].seg = del[e].seg /\ del[d].seg # 0 => d = e

\* Closed, unless a close failed.
Shut(n) == Spared({"close"}) => streams[n].state = "closed"

\* Where a delivery's stream is there.
After == Inner \cup {"closed", "recorded"}

StreamOk(n) ==
  /\ streams[n].state \in {"absent", "open", "closed"} /\ IsSeq(streams[n].items)
  /\ streams[n].state = "absent" => streams[n].items = <<>>
  /\ streams[n].state = "closed" =>
       streams[n].items # <<>> /\ streams[n].items[Len(streams[n].items)].type \in Ends
StreamsOk == \A n \in Numbers : StreamOk(n)

DelOk(d) ==
  /\ Sound(del[d])
  /\ del[d].pc \in Early => ~del[d].active /\ del[d].buf = <<>> /\ del[d].flights = <<>>
  /\ del[d].pc = "open" => streams[del[d].seg].state = "absent"
  /\ del[d].pc \in After => streams[del[d].seg].state # "absent"
  /\ del[d].pc \in {"closed", "recorded"} => Shut(del[d].seg)
DelsOk == \A d \in Deliveries : DelOk(d)

\* A number nobody took has no stream.
Unopened == \A n \in Numbers : n > counter => streams[n].state = "absent"

SweepOk(s) ==
  /\ sweep[s].pc \in {"look", "close", "record"} => sweep[s].seg \in 1..counter
  /\ sweep[s].pc \in {"close", "record"} => streams[sweep[s].seg].state # "absent"
  /\ sweep[s].pc = "record" => Shut(sweep[s].seg)
SweepsOk == \A s \in Sweepers : SweepOk(s)

RecOk ==
  /\ IsSeq(record)
  /\ \A i \in DOMAIN record : \E t \in {"RUN_STARTED", "RUN_ENDED"}, n \in Numbers :
       /\ record[i] = [type |-> t, seg |-> n]
       /\ streams[n].state # "absent"
       /\ t = "RUN_ENDED" => Shut(n)

\* Whoever works holds the lock, unless a lease lapsed.
Holds == Spared({"lapse"}) => \A d \in Deliveries : Working(d) => holder = d

\* While a sweep is under way no worker holds the lock, and until the run has ended nobody
\* works and no job waits, unless sweeps overlap.
Seeks ==
  Spared({"overlap"}) => \A s \in Sweepers : Sweeping(s) =>
    /\ \A d \in Deliveries : Working(d) => holder # d
    /\ done \/ (jobs = 0 /\ \A d \in Deliveries : ~Working(d))
    /\ \A t \in Sweepers : Sweeping(t) => t = s

\* Until a lease lapses or sweeps overlap, what a worker writes is open, so is what a sweep
\* is about to close; and until a close fails too, whoever closed a stream is the first to
\* record its end.
Tame == Spared({"lapse", "overlap"})
Calmly ==
  Tame =>
    /\ \A d \in Deliveries : del[d].pc \in Inner => streams[del[d].seg].state = "open"
    /\ \A s \in Sweepers : sweep[s].pc = "close" => streams[sweep[s].seg].state = "open"
    /\ Spared({"close"}) =>
         /\ \A d \in Deliveries : del[d].pc = "closed" => ~Entry("RUN_ENDED", del[d].seg)
         /\ \A s \in Sweepers : sweep[s].pc = "record" => ~Entry("RUN_ENDED", sweep[s].seg)

Begun(n) == streams[n].items # <<>> /\ streams[n].items[1].type = "RUN_STARTED"
Firsts ==
  Spared({"append", "lapse", "overlap"}) =>
    /\ \A n \in Numbers : Entry("RUN_STARTED", n) => Begun(n)
    /\ \A d \in Deliveries : del[d].pc = "started" =>
         Begun(del[d].seg) \/ (streams[del[d].seg].items = <<>> /\ Leads(del[d]))

Whole ==
  /\ Inv /\ SweepShape /\ Numbered /\ StreamsOk /\ DelsOk /\ Unopened /\ SweepsOk /\ RecOk
  /\ Holds /\ Seeks /\ Calmly /\ Firsts /\ EndsOnce

---------------------------------------------------------------------------
(* What a step leaves alone *)

\* One delivery moved to p, and its buffers only grew.
Steps(d, p) == \E x : Become(d, x) /\ Goes(del[d], x) /\ x.pc = p

\* No stream is taken away, and none but n's is opened.
Lasts(n) ==
  \A m \in Numbers :
    /\ streams[m].state # "absent" => streams'[m].state # "absent"
    /\ streams[m].state = "closed" => streams'[m].state = "closed"
    /\ streams[m].state = "absent" /\ m # n => streams'[m].state = "absent"

LEMMA StepsTo ==
  ASSUME Shape, NEW d \in Deliveries, NEW p, Steps(d, p)
  PROVE  /\ del'[d].pc = p /\ del'[d].seg = del[d].seg
         /\ \A e \in Deliveries : e # d => del'[e] = del[e]
         /\ \A e \in Deliveries : del'[e].seg = del[e].seg
         /\ Sound(del'[d]) /\ (Leads(del[d]) => Leads(del'[d]))
         /\ del[d].pc \in Early /\ ~del[d].active =>
              ~del'[d].active /\ (del[d].buf = <<>> /\ del[d].flights = <<>> =>
                                  del'[d].buf = <<>> /\ del'[d].flights = <<>>)
<1>1. PICK x : Become(d, x) /\ Goes(del[d], x) /\ x.pc = p
  BY DEF Steps
<1>2. IsDelivery(x)
  BY <1>1 DEF Goes
<1>3. del'[d] = x /\ \A e \in Deliveries : e # d => del'[e] = del[e]
  BY <1>1, <1>2, Becomes
<1>. QED BY <1>1, <1>3 DEF Goes

\* The deliveries that took a number are no more than the deliveries.
LEMMA FewDeliveries ==
  ASSUME SegmentsAssumption, NEW T, T \subseteq Deliveries
  PROVE  IsFiniteSet(T) /\ Cardinality(T) \in 0..MaxDeliveries
<1>1. IsFiniteSet(Deliveries) /\ Cardinality(Deliveries) = MaxDeliveries
  BY FS_Interval DEF SegmentsAssumption, Deliveries
<1>2. IsFiniteSet(T) /\ Cardinality(T) <= MaxDeliveries
  BY <1>1, FS_Subset
<1>3. Cardinality(T) \in Nat
  BY <1>2, FS_CardinalityType
<1>. QED BY <1>2, <1>3 DEF SegmentsAssumption

LEMMA TookFew ==
  ASSUME SegmentsAssumption, Numbered
  PROVE  /\ IsFiniteSet(Took) /\ counter \in 0..MaxDeliveries /\ counter \in Nat
         /\ \A d \in Deliveries : del[d].seg # 0 => del[d].seg \in Numbers
         /\ 1..counter \subseteq Numbers
<1>1. IsFiniteSet(Took) /\ Cardinality(Took) \in 0..MaxDeliveries
  BY FewDeliveries DEF Took
<1>. QED BY <1>1 DEF Numbered, Numbers, SegmentsAssumption

LEMMA NumberedStays ==
  ASSUME Numbered, UNCHANGED counter,
         \A d \in Deliveries :
           /\ del'[d].seg = del[d].seg
           /\ del'[d].pc \in {"idle", "incr"} => del[d].seg = 0
           /\ del'[d].pc \in Inner \cup {"open", "closed", "recorded"} => del[d].seg # 0
  PROVE  Numbered'
<1>1. Took' = Took
  BY DEF Took
<1>. QED BY <1>1 DEF Numbered

LEMMA DelsStay ==
  ASSUME SegmentsAssumption, Shape, Numbered, DelsOk, NEW d \in Deliveries, NEW p, Steps(d, p), Lasts(0),
         happened \subseteq happened',
         p \in Early => del[d].pc \in Early,
         p = "open" => streams'[del[d].seg].state = "absent",
         p \in After => streams'[del[d].seg].state # "absent",
         p \in {"closed", "recorded"} => Shut(del[d].seg)'
  PROVE  DelsOk'
<1>1. ASSUME NEW e \in Deliveries, e # d PROVE DelOk(e)'
  <2>1. del'[e] = del[e]
    BY <1>1, StepsTo
  <2>2. del[e].pc \in Inner \cup {"open", "closed", "recorded"} => del[e].seg \in Numbers /\ del[e].seg # 0
    BY TookFew DEF Numbered
  <2>. QED BY <2>1, <2>2 DEF DelsOk, DelOk, Lasts, After, Shut, Spared
<1>2. DelOk(d)'
  BY StepsTo DEF DelsOk, DelOk
<1>. QED BY <1>1, <1>2 DEF DelsOk

LEMMA SweepsStay ==
  ASSUME SegmentsAssumption, Numbered, SweepsOk, UNCHANGED <<sweep, counter>>, NEW n, Lasts(n),
         happened \subseteq happened'
  PROVE  SweepsOk'
<1>1. 1..counter \subseteq Numbers
  BY TookFew DEF Numbers
<1>. QED BY <1>1 DEF SweepsOk, SweepOk, Lasts, Shut, Spared

LEMMA RecordStays ==
  ASSUME RecOk, UNCHANGED record, NEW n, Lasts(n), happened \subseteq happened'
  PROVE  RecOk'
BY DEF RecOk, Lasts, Shut, Spared

LEMMA HoldsStays ==
  ASSUME Holds, UNCHANGED holder, happened \subseteq happened',
         \A d \in Deliveries : Working(d)' => Working(d)
  PROVE  Holds'
BY DEF Holds, Spared

LEMMA SeeksStays ==
  ASSUME Seeks, UNCHANGED <<sweep, jobs>>, done => done', happened \subseteq happened',
         \A d \in Deliveries : Working(d)' => Working(d),
         holder' = holder \/ holder' \notin Deliveries
  PROVE  Seeks'
BY DEF Seeks, Sweeping, Spared

LEMMA CalmlyStays ==
  ASSUME Calmly, UNCHANGED <<record, sweep, streams>>, happened \subseteq happened',
         \A d \in Deliveries :
           /\ del'[d].seg = del[d].seg
           /\ del'[d].pc \in Inner => del[d].pc \in Inner
           /\ del'[d].pc = "closed" => del[d].pc = "closed"
  PROVE  Calmly'
BY DEF Calmly, Tame, Spared, Entry

LEMMA FirstsStay ==
  ASSUME Firsts, UNCHANGED <<record, streams>>, happened \subseteq happened',
         \A d \in Deliveries :
           /\ del'[d].seg = del[d].seg
           /\ del'[d].pc = "started" => del[d].pc = "started" /\ (Leads(del[d]) => Leads(del'[d]))
  PROVE  Firsts'
BY DEF Firsts, Spared, Entry, Begun

LEMMA OnceStays ==
  ASSUME EndsOnce, UNCHANGED record, happened \subseteq happened'
  PROVE  EndsOnce'
BY DEF EndsOnce, Spared

LEMMA StreamsStay ==
  ASSUME UNCHANGED streams
  PROVE  /\ StreamsOk => StreamsOk'
         /\ \A n : Lasts(n)
         /\ Unopened /\ UNCHANGED counter => Unopened'
BY DEF StreamsOk, StreamOk, Lasts, Unopened, Numbers

LEMMA SweepShapeStays == ASSUME SweepShape, UNCHANGED sweep PROVE SweepShape'
BY DEF SweepShape

---------------------------------------------------------------------------
(* One lemma per kind of step *)

LEMMA MovingKeeps ==
  ASSUME SegmentsAssumption, Whole, Inv', NEW d \in Deliveries, NEW p, Moving(d, p),
         \/ p = del[d].pc \/ (p = "left" /\ del[d].pc = "dark")
         \/ p \in Inner \ {"started"} /\ del[d].pc \in Inner
  PROVE  Whole'
<1>1. Steps(d, p) /\ UNCHANGED <<streams, counter, record, holder, jobs, sweep>>
      /\ (done => done') /\ happened \subseteq happened'
  BY DEF Moving, Steps
<1>2. Shape
  BY DEF Whole, Inv
<1>3. /\ del'[d].pc = p /\ (\A e \in Deliveries : e # d => del'[e] = del[e])
      /\ \A e \in Deliveries : del'[e].seg = del[e].seg
      /\ Leads(del[d]) => Leads(del'[d])
  BY <1>1, <1>2, StepsTo
<1>4. SweepShape' /\ StreamsOk' /\ (\A n : Lasts(n)) /\ Unopened'
  BY <1>1, StreamsStay, SweepShapeStays DEF Whole
<1>5. Numbered'
  BY <1>1, <1>3, NumberedStays DEF Whole, Inner, Numbered
<1>6. DelsOk'
  <2>1. /\ p = "open" => streams[del[d].seg].state = "absent"
        /\ p \in After => streams[del[d].seg].state # "absent"
        /\ p \in {"closed", "recorded"} => Shut(del[d].seg)'
    BY <1>1, <1>3 DEF Whole, DelsOk, DelOk, Inner, After, Shut, Spared
  <2>. QED BY <1>1, <1>2, <1>4, <2>1, DelsStay DEF Whole, Early, Inner
<1>7. SweepsOk' /\ RecOk' /\ EndsOnce'
  BY <1>1, <1>4, SweepsStay, RecordStays, OnceStays DEF Whole
<1>8. Holds' /\ Seeks'
  <2>1. \A e \in Deliveries : Working(e)' => Working(e)
    BY <1>3 DEF Working, Inner
  <2>. QED BY <1>1, <2>1, HoldsStays, SeeksStays DEF Whole
<1>10. Calmly'
  BY <1>1, <1>3, CalmlyStays DEF Whole, Inner
<1>11. Firsts'
  BY <1>1, <1>3, FirstsStay DEF Whole, Inner
<1>. QED BY <1>4, <1>5, <1>6, <1>7, <1>8, <1>10, <1>11 DEF Whole

\* A delivery takes the lock, or finds the run ended.
LEMMA AcquireKeeps ==
  ASSUME SegmentsAssumption, Whole, Inv', NEW d \in Deliveries, Acquire(d)
  PROVE  Whole'
<1>1. PICK p \in {"incr", "released"} :
        /\ Steps(d, p)
        /\ p = "incr" => ~done /\ holder' = d
        /\ p = "released" => done /\ UNCHANGED holder
  <2>1. IsDelivery(del[d]) /\ Sound(del[d])
    BY DEF Whole, Inv, Shape, DelsOk, DelOk, After, Shut, Spared
  <2>. DEFINE x == [del[d] EXCEPT !.pc = "released"]
              y == [del[d] EXCEPT !.pc = "incr"]
  <2>2. Goes(del[d], x) /\ x.pc = "released" /\ Goes(del[d], y) /\ y.pc = "incr"
    BY <2>1, PlaceGoes
  <2>3. IF done THEN Become(d, x) /\ UNCHANGED holder ELSE Become(d, y) /\ holder' = d
    BY DEF Acquire
  <2>. HIDE DEF x, y
  <2>. QED BY <2>2, <2>3 DEF Steps
<1>2. /\ UNCHANGED <<streams, counter, record, done, sweep, happened>>
      /\ del[d].pc = "idle" /\ jobs > 0 /\ holder = Nobody /\ Nobody \notin Deliveries
  BY DEF Acquire, SegmentsAssumption
<1>3. Shape
  BY DEF Whole, Inv
<1>4. /\ del'[d].pc = p /\ (\A e \in Deliveries : e # d => del'[e] = del[e])
      /\ \A e \in Deliveries : del'[e].seg = del[e].seg
  BY <1>1, <1>3, StepsTo
<1>5. SweepShape' /\ StreamsOk' /\ (\A n : Lasts(n)) /\ Unopened'
  BY <1>2, StreamsStay, SweepShapeStays DEF Whole
<1>6. Numbered'
  BY <1>2, <1>4, NumberedStays DEF Whole, Inner, Numbered
<1>7. DelsOk'
  BY <1>1, <1>2, <1>3, <1>5, DelsStay DEF Whole, Early, Inner, After
<1>8. SweepsOk' /\ RecOk' /\ EndsOnce'
  BY <1>2, <1>5, SweepsStay, RecordStays, OnceStays DEF Whole
<1>9. Holds'
  <2>1. Holds
    BY DEF Whole
  <2>. QED BY <1>1, <1>2, <1>4, <2>1 DEF Holds, Spared, Working
<1>10. Seeks'
  <2>1. Seeks
    BY DEF Whole
  <2>2. ASSUME Spared({"overlap"}) PROVE done \/ \A s \in Sweepers : ~Sweeping(s)
    BY <1>2, <2>1, <2>2 DEF Seeks
  <2>3. CASE done
    <3> SUFFICES ASSUME Spared({"overlap"})', NEW s \in Sweepers, Sweeping(s)' PROVE Seeks'
      BY DEF Seeks
    <3>1. Spared({"overlap"}) /\ \A t \in Sweepers : Sweeping(t)' <=> Sweeping(t)
      BY <1>2 DEF Spared, Sweeping
    <3>2. holder' = Nobody
      BY <1>1, <1>2, <2>3
    <3>. QED BY <1>2, <2>1, <2>3, <3>1, <3>2 DEF Seeks
  <2>4. CASE ~done
    BY <1>2, <2>2, <2>4 DEF Seeks, Spared, Sweeping
  <2>. QED BY <2>3, <2>4
<1>11. Calmly'
  BY <1>1, <1>2, <1>4, CalmlyStays DEF Whole, Inner
<1>12. Firsts'
  BY <1>1, <1>2, <1>4, FirstsStay DEF Whole, Inner
<1>. QED BY <1>5, <1>6, <1>7, <1>8, <1>9, <1>10, <1>11, <1>12 DEF Whole

\* The next number is nobody's, and its stream is not there yet.
LEMMA TakeNumberKeeps ==
  ASSUME SegmentsAssumption, Whole, Inv', NEW d \in Deliveries, TakeNumber(d)
  PROVE  Whole'
<1>1. /\ UNCHANGED <<streams, record, holder, jobs, done, sweep, happened>>
      /\ counter' = counter + 1 /\ del[d].pc = "incr"
  BY DEF TakeNumber
<1>2. Shape /\ counter \in 0..MaxDeliveries /\ IsFiniteSet(Took) /\ Numbered /\ DelsOk
  BY TookFew DEF Whole, Inv
<1>. DEFINE y == [del[d] EXCEPT !.pc = "open"]
            x == [del[d] EXCEPT !.pc = "open", !.seg = counter']
<1>3. /\ IsDelivery(x) /\ Sound(x) /\ x.pc = "open" /\ x.seg = counter + 1
      /\ x.active = del[d].active /\ x.buf = del[d].buf /\ x.flights = del[d].flights
  <2>1. IsDelivery(del[d]) /\ Sound(del[d])
    BY <1>2 DEF Shape, DelsOk, DelOk, After, Shut, Spared
  <2>2. /\ IsDelivery(y) /\ Sound(y) /\ y.pc = "open" /\ y.active = del[d].active
        /\ y.buf = del[d].buf /\ y.flights = del[d].flights
    BY <2>1, PlaceGoes
  <2>3. x = [y EXCEPT !.seg = counter']
    OBVIOUS
  <2>. HIDE DEF y
  <2>4. x = [pc |-> y.pc, seg |-> counter', active |-> y.active, buf |-> y.buf,
             flights |-> y.flights, agents |-> y.agents]
    BY <2>2, <2>3, SomeFields
  <2>. HIDE DEF x
  <2>. QED BY <1>1, <2>2, <2>4 DEF IsDelivery, Sound
<1>4. del'[d] = x /\ \A e \in Deliveries : e # d => del'[e] = del[e]
  <2>1. Become(d, x)
    BY DEF TakeNumber
  <2>. HIDE DEF x
  <2>. QED BY <1>2, <1>3, <2>1, Becomes
<1>. HIDE DEF x, y
<1>5. del[d].seg = 0 /\ d \notin Took
  BY <1>1, <1>2 DEF Numbered, Took
<1>6. Took' = Took \cup {d}
  BY <1>2, <1>3, <1>4 DEF Took
<1>7. Cardinality(Took') = counter'
  BY <1>1, <1>2, <1>5, <1>6, FS_AddElement DEF Numbered
<1>8. Numbered'
  <2>1. ASSUME NEW e \in Deliveries
        PROVE  /\ del'[e].seg \in 0..counter'
               /\ del'[e].pc \in {"idle", "incr"} => del'[e].seg = 0
               /\ del'[e].pc \in Inner \cup {"open", "closed", "recorded"} => del'[e].seg # 0
    BY <1>1, <1>2, <1>3, <1>4 DEF Numbered
  <2>2. ASSUME NEW e \in Deliveries, NEW f \in Deliveries, del'[e].seg = del'[f].seg, del'[e].seg # 0
        PROVE  e = f
    BY <1>1, <1>2, <1>3, <1>4, <2>2 DEF Numbered
  <2>. QED BY <1>7, <2>1, <2>2 DEF Numbered
<1>9. counter' \in Numbers /\ streams[counter'].state = "absent"
  <2>1. Took' \subseteq Deliveries
    BY DEF Took
  <2>2. Cardinality(Took') \in 0..MaxDeliveries
    BY <2>1, FewDeliveries
  <2>3. counter' \in Numbers /\ counter' > counter
    BY <1>1, <1>2, <1>7, <2>2 DEF Numbers
  <2>. QED BY <2>3 DEF Whole, Unopened
<1>10. SweepShape' /\ StreamsOk' /\ RecOk' /\ EndsOnce' /\ \A n : Lasts(n)
  <2>1. \A n : Lasts(n)
    BY <1>1, StreamsStay
  <2>. QED BY <1>1, <2>1, StreamsStay, SweepShapeStays, RecordStays, OnceStays DEF Whole
<1>11. Unopened'
  BY <1>1, <1>2 DEF Whole, Unopened, Numbers
<1>12. DelsOk'
  <2>1. ASSUME NEW e \in Deliveries, e # d PROVE DelOk(e)'
    BY <1>1, <1>2, <1>4, <2>1 DEF DelsOk, DelOk, After, Shut, Spared
  <2>2. DelOk(d)'
    BY <1>1, <1>2, <1>3, <1>4, <1>9 DEF DelsOk, DelOk, Early, Inner, After, Shut, Spared
  <2>. QED BY <2>1, <2>2 DEF DelsOk
<1>13. SweepsOk'
  BY <1>1, <1>2 DEF Whole, SweepsOk, SweepOk, Shut, Spared
<1>14. Holds'
  <2>1. \A e \in Deliveries : Working(e)' => Working(e)
    BY <1>1, <1>3, <1>4 DEF Working
  <2>. QED BY <1>1, <2>1, HoldsStays DEF Whole
<1>15. Seeks'
  <2>1. \A e \in Deliveries : Working(e)' => Working(e)
    BY <1>1, <1>3, <1>4 DEF Working
  <2>. QED BY <1>1, <2>1, SeeksStays DEF Whole
<1>16. Calmly'
  <2>1. Calmly
    BY DEF Whole
  <2>. QED BY <1>1, <1>3, <1>4, <2>1 DEF Calmly, Tame, Spared, Entry, Inner
<1>17. Firsts'
  <2>1. Firsts
    BY DEF Whole
  <2>. QED BY <1>1, <1>3, <1>4, <2>1 DEF Firsts, Spared, Entry, Begun
<1>. QED BY <1>8, <1>10, <1>11, <1>12, <1>13, <1>14, <1>15, <1>16, <1>17 DEF Whole

\* The stream is opened, and RUN_STARTED is the first batch that waits for it.
LEMMA OpenStreamKeeps ==
  ASSUME SegmentsAssumption, Whole, Inv', NEW d \in Deliveries, OpenStream(d)
  PROVE  Whole'
<1>. DEFINE n == del[d].seg
            m == Mark("RUN_STARTED", Main)
            es == <<m>>
            v1 == [del[d] EXCEPT !.pc = "started"]
            v == [v1 EXCEPT !.active = TRUE]
            b == v.buf \o es
            fs == Append(v.flights, [events |-> b, awaited |-> {Main}])
            x == Pushed(v, Main, es)
<1>1. /\ UNCHANGED <<counter, record, holder, jobs, done, sweep, happened>>
      /\ del[d].pc = "open" /\ streams' = [streams EXCEPT ![n] = Opened(@)]
  BY DEF OpenStream
<1>2. Become(d, x)
  <2>1. v = [del[d] EXCEPT !.pc = "started", !.active = TRUE]
    OBVIOUS
  <2>. HIDE DEF v
  <2>. QED BY <2>1 DEF OpenStream
<1>3. /\ Shape /\ Numbered /\ DelsOk /\ StreamsOk /\ n \in Numbers /\ n \in 1..counter
      /\ streams[n].state = "absent" /\ streams[n].items = <<>>
      /\ IsDelivery(del[d]) /\ Sound(del[d]) /\ del[d].buf = <<>> /\ del[d].flights = <<>>
      /\ 1..counter \subseteq Numbers
      /\ \A e \in Deliveries : del[e].pc \in Inner \cup {"open", "closed", "recorded"} =>
                                del[e].seg \in Numbers
  <2>1. Shape /\ Numbered /\ DelsOk /\ StreamsOk /\ DelOk(d)
    BY DEF Whole, Inv, DelsOk
  <2>2. n \in Numbers /\ n # 0 /\ 1..counter \subseteq Numbers
    BY <1>1, <2>1, TookFew DEF Numbered
  <2>3. n \in 1..counter
    BY <2>1, <2>2, TookFew DEF Numbered
  <2>4. \A e \in Deliveries : del[e].pc \in Inner \cup {"open", "closed", "recorded"} =>
                              del[e].seg \in Numbers
    BY <2>1, TookFew DEF Numbered
  <2>5. /\ streams[n].state = "absent" /\ IsDelivery(del[d]) /\ Sound(del[d])
        /\ del[d].buf = <<>> /\ del[d].flights = <<>>
    BY <1>1, <2>1 DEF DelOk, Shape, Early, After, Shut, Spared
  <2>6. streams[n].items = <<>>
    BY <2>1, <2>2, <2>5 DEF StreamsOk, StreamOk
  <2>. QED BY <2>1, <2>2, <2>3, <2>4, <2>5, <2>6
<1>4. v = [pc |-> "started", seg |-> n, active |-> TRUE, buf |-> <<>>, flights |-> <<>>,
           agents |-> v1.agents]
  <2>1. /\ IsDelivery(v1) /\ v1.pc = "started" /\ v1.seg = n /\ v1.buf = <<>>
        /\ v1.flights = <<>>
    BY <1>3, PlaceGoes DEF Goes
  <2>. HIDE DEF v1
  <2>2. v = [pc |-> v1.pc, seg |-> v1.seg, active |-> TRUE, buf |-> v1.buf,
              flights |-> v1.flights, agents |-> v1.agents]
    BY <2>1, SomeFields
  <2>. HIDE DEF v
  <2>. QED BY <2>1, <2>2
<1>. HIDE DEF v, m
<1>5. IsDelivery(v) /\ Sound(v) /\ v.pc = "started" /\ v.buf = <<>> /\ v.flights = <<>> /\ v.seg = n
  BY <1>4, EmptySeq, LongSeq DEF IsDelivery, Sound
<1>6. IsSeq(es) /\ Len(es) = 1 /\ es[1] = m /\ es # <<>>
  BY OneSeq, LongSeq
<1>7. m.type = "RUN_STARTED" /\ Immediate(m)
  BY DEF m, Mark, Event, Immediate
<1>8. IsSeq(b) /\ b # <<>> /\ b[1] = m
  <2>1. Len(v.buf) = 0 /\ IsSeq(v.buf)
    BY <1>5, EmptySeq, LongSeq
  <2>. HIDE DEF es
  <2>2. /\ IsSeq(v.buf \o es) /\ Len(v.buf \o es) = Len(v.buf) + Len(es)
        /\ \A i \in 1..Len(es) : (v.buf \o es)[Len(v.buf) + i] = es[i]
    <3>. DEFINE q == v.buf
    <3>1. IsSeq(q) /\ IsSeq(es)
      BY <2>1, <1>6
    <3>. HIDE DEF q, es
    <3>2. /\ IsSeq(q \o es) /\ Len(q \o es) = Len(q) + Len(es)
          /\ \A i \in 1..Len(es) : (q \o es)[Len(q) + i] = es[i]
      BY <3>1, ConcatSeq
    <3>. QED BY <3>2 DEF q
  <2>3. IsSeq(b) /\ Len(b) = 1 /\ b[1] = m
    BY <2>1, <2>2, <1>6
  <2>. QED BY <2>3, LongSeq
<1>. HIDE DEF b
<1>9. fs # <<>> /\ fs[1] = [events |-> b, awaited |-> {Main}]
  BY <1>5, <1>8, FlightsGrow
<1>10. 1 \in DOMAIN es
  BY <1>6, LongSeq
<1>11. x = [v EXCEPT !.buf = <<>>, !.flights = fs]
  <2>. HIDE DEF es, fs
  <2>1. es # <<>> /\ v.active /\ \E i \in DOMAIN es : Immediate(es[i])
    BY <1>4, <1>6, <1>7, <1>10
  <2>. QED BY <2>1 DEF Pushed, b, fs
<1>. HIDE DEF es, fs
<1>12. x.flights = fs /\ x.pc = "started" /\ x.seg = n /\ IsDelivery(x)
  BY <1>5, <1>11, PushedKeeps DEF IsDelivery
<1>13. Sound(x) /\ Leads(x)
  <2>1. Goes(v, x)
    BY <1>5, <1>6, PushedGoes DEF Early
  <2>2. Leads(x)
    BY <1>7, <1>8, <1>9, <1>12 DEF Leads
  <2>. QED BY <2>1, <2>2 DEF Goes
<1>. HIDE DEF x
<1>14. del'[d] = x /\ \A e \in Deliveries : e # d => del'[e] = del[e]
  BY <1>2, <1>3, <1>12, Becomes
<1>15. \A e \in Deliveries : e # d => del[e].seg # n
  BY <1>3 DEF Numbered
<1>16. /\ streams'[n] = [state |-> "open", items |-> <<>>]
       /\ \A k \in Numbers : k # n => streams'[k] = streams[k]
  BY <1>1, <1>3 DEF Shape, Opened
<1>17. SweepShape' /\ StreamsOk' /\ Lasts(n) /\ Unopened'
  <2>1. StreamsOk'
    BY <1>3, <1>16, EmptySeq DEF StreamsOk, StreamOk
  <2>2. Lasts(n)
    BY <1>3, <1>16 DEF Lasts
  <2>3. Unopened'
    <3>1. counter \in Nat /\ Unopened
      BY TookFew DEF Whole
    <3>. QED BY <1>1, <1>3, <1>16, <3>1 DEF Unopened, Numbers
  <2>. QED BY <1>1, <2>1, <2>2, <2>3, SweepShapeStays DEF Whole
<1>18. Numbered'
  <2>1. \A e \in Deliveries : del'[e].seg = del[e].seg
    BY <1>12, <1>14
  <2>2. \A e \in Deliveries :
           /\ del'[e].pc \in {"idle", "incr"} => del[e].seg = 0
           /\ del'[e].pc \in Inner \cup {"open", "closed", "recorded"} => del[e].seg # 0
    BY <1>3, <1>12, <1>14 DEF Numbered, Numbers
  <2>. QED BY <1>1, <1>3, <2>1, <2>2, NumberedStays
<1>19. DelsOk'
  <2>1. ASSUME NEW e \in Deliveries, e # d PROVE DelOk(e)'
    <3>1. del'[e] = del[e] /\ DelOk(e)
      BY <1>3, <1>14, <2>1 DEF DelsOk
    <3>2. del[e].pc \in Inner \cup {"open", "closed", "recorded"} =>
            streams'[del[e].seg] = streams[del[e].seg]
      BY <1>3, <1>15, <1>16, <2>1
    <3>. QED BY <1>1, <3>1, <3>2 DEF DelOk, After, Shut, Spared
  <2>2. DelOk(d)'
    BY <1>12, <1>13, <1>14, <1>16 DEF DelOk, Early, Inner, After, Shut, Spared
  <2>. QED BY <2>1, <2>2 DEF DelsOk
<1>11a. SweepsOk' /\ RecOk' /\ EndsOnce'
  BY <1>1, <1>17, SweepsStay, RecordStays, OnceStays DEF Whole
<1>21. Holds' /\ Seeks'
  <2>1. \A e \in Deliveries : Working(e)' => Working(e)
    BY <1>1, <1>12, <1>14 DEF Working
  <2>. QED BY <1>1, <2>1, HoldsStays, SeeksStays DEF Whole
<1>22. Calmly'
  <2> SUFFICES ASSUME Tame' PROVE Calmly'
    BY DEF Calmly
  <2>1. Tame /\ Calmly
    BY <1>1 DEF Tame, Spared, Whole
  <2>2. ASSUME NEW e \in Deliveries, del'[e].pc \in Inner PROVE streams'[del'[e].seg].state = "open"
    <3>1. CASE e = d
      BY <1>12, <1>14, <1>16, <3>1
    <3>2. CASE e # d
      BY <1>3, <1>14, <1>15, <1>16, <2>1, <2>2, <3>2 DEF Calmly
    <3>. QED BY <3>1, <3>2
  <2>3. ASSUME NEW s \in Sweepers, sweep'[s].pc = "close" PROVE streams'[sweep'[s].seg].state = "open"
    <3>1. sweep[s].seg \in Numbers /\ streams[sweep[s].seg].state = "open"
      BY <1>1, <1>3, <2>1, <2>3 DEF Calmly, Whole, SweepsOk, SweepOk, Shut, Spared
    <3>. QED BY <1>1, <1>3, <1>16, <3>1
  <2>4. \A e \in Deliveries : del'[e].pc = "closed" => del'[e] = del[e]
    BY <1>12, <1>14
  <2>. QED BY <1>1, <2>1, <2>2, <2>3, <2>4 DEF Calmly, Entry, Spared
<1>23. Firsts'
  <2> SUFFICES ASSUME Spared({"append", "lapse", "overlap"})' PROVE Firsts'
    BY DEF Firsts
  <2>1. Spared({"append", "lapse", "overlap"}) /\ Firsts
    BY <1>1 DEF Spared, Whole
  <2>2. ASSUME NEW k \in Numbers, Entry("RUN_STARTED", k)' PROVE Begun(k)'
    BY <1>1, <1>3, <1>16, <2>1, <2>2 DEF Firsts, Entry, Begun
  <2>3. ASSUME NEW e \in Deliveries, del'[e].pc = "started"
        PROVE  Begun(del[e].seg)' \/ (streams'[del'[e].seg].items = <<>> /\ Leads(del'[e]))
    <3>1. CASE e = d
      BY <1>12, <1>13, <1>14, <1>16, <3>1
    <3>2. CASE e # d
      BY <1>3, <1>14, <1>15, <1>16, <2>1, <2>3, <3>2 DEF Firsts, Begun, Inner
    <3>. QED BY <3>1, <3>2
  <2>4. \A e \in Deliveries : del'[e].seg = del[e].seg
    BY <1>12, <1>14
  <2>. QED BY <2>2, <2>3, <2>4 DEF Firsts, Begun
<1>. QED BY <1>17, <1>18, <1>19, <1>11a, <1>21, <1>22, <1>23 DEF Whole

\* An entry is added to the record.
LEMMA RecordGrows ==
  ASSUME RecOk, NEW t \in {"RUN_STARTED", "RUN_ENDED"}, NEW n \in Numbers,
         record' = Append(record, [type |-> t, seg |-> n]), UNCHANGED streams,
         streams[n].state # "absent", t = "RUN_ENDED" => Shut(n),
         EndsOnce, happened \subseteq happened', t = "RUN_ENDED" /\ Tame /\ Spared({"close"}) => ~Entry(t, n)
  PROVE  /\ RecOk' /\ EndsOnce'
         /\ \A u, k : Entry(u, k)' => Entry(u, k) \/ (u = t /\ k = n)
<1>. DEFINE r == [type |-> t, seg |-> n]
<1>1. IsSeq(record) /\ Len(record) \in Nat /\ DOMAIN record = 1..Len(record)
  BY LongSeq DEF RecOk
<1>2. /\ IsSeq(record') /\ Len(record') = Len(record) + 1 /\ record'[Len(record) + 1] = r
      /\ \A i \in 1..Len(record) : record'[i] = record[i]
  BY <1>1, AppendSeq
<1>3. DOMAIN record' = 1..(Len(record) + 1)
  BY <1>2, LongSeq
<1>4. \A i \in DOMAIN record' :
        (i \in DOMAIN record /\ record'[i] = record[i]) \/ (i = Len(record) + 1 /\ record'[i] = r)
  BY <1>1, <1>2, <1>3
<1>5. r.type = t /\ r.seg = n
  OBVIOUS
<1>6. RecOk'
  <2>1. ASSUME NEW i \in DOMAIN record'
        PROVE  \E u \in {"RUN_STARTED", "RUN_ENDED"}, k \in Numbers :
                 /\ record'[i] = [type |-> u, seg |-> k]
                 /\ streams'[k].state # "absent"
                 /\ u = "RUN_ENDED" => Shut(k)'
    <3>1. CASE i \in DOMAIN record /\ record'[i] = record[i]
      BY <3>1 DEF RecOk, Shut, Spared
    <3>2. CASE record'[i] = r
      BY <3>2 DEF Shut, Spared
    <3>. QED BY <1>4, <3>1, <3>2
  <2>. QED BY <1>2, <2>1 DEF RecOk
<1>7. ASSUME NEW u, NEW k, Entry(u, k)' PROVE Entry(u, k) \/ (u = t /\ k = n)
  <2>1. PICK i \in DOMAIN record' : record'[i] = [type |-> u, seg |-> k]
    BY <1>7 DEF Entry
  <2>. QED BY <1>4, <2>1 DEF Entry
<1>8. EndsOnce'
  <2> SUFFICES ASSUME Spared({"lapse", "overlap", "close"})', NEW i \in DOMAIN record', NEW j \in DOMAIN record',
                      record'[i].type = "RUN_ENDED", record'[j] = record'[i]
               PROVE  i = j
    BY DEF EndsOnce
  <2>1. Tame /\ Spared({"close"})
    BY DEF Tame, Spared
  <2>2. \A k \in DOMAIN record : record[k].type = "RUN_ENDED" => record[k] # r
    <3>1. ASSUME NEW k \in DOMAIN record, record[k].type = "RUN_ENDED", record[k] = r PROVE FALSE
      BY <1>5, <2>1, <3>1 DEF Entry
    <3>. QED BY <3>1
  <2>3. \A k, l \in DOMAIN record : record[k].type = "RUN_ENDED" /\ record[l] = record[k] => k = l
    BY <2>1 DEF EndsOnce, Tame, Spared
  <2>. HIDE DEF r
  <2>. QED BY <1>4, <2>2, <2>3
<1>. QED BY <1>6, <1>7, <1>8

\* A delivery moves on while every stream stays as it is.
LEMMA StandingStays ==
  ASSUME SegmentsAssumption, Whole, NEW d \in Deliveries, NEW p, Steps(d, p), p \notin Early,
         UNCHANGED <<streams, counter, sweep>>,
         p \in Inner => del[d].pc \in Inner,
         p \in {"closed", "recorded"} =>
           del[d].pc \in {"closed", "recorded"} \/ (del[d].pc = "end" /\ "close" \in happened'),
         happened \subseteq happened'
  PROVE  SweepShape' /\ Numbered' /\ StreamsOk' /\ DelsOk' /\ Unopened' /\ SweepsOk'
<1>1. Shape
  BY DEF Whole, Inv
<1>2. /\ del'[d].pc = p /\ (\A e \in Deliveries : e # d => del'[e] = del[e])
      /\ \A e \in Deliveries : del'[e].seg = del[e].seg
  BY <1>1, StepsTo
<1>3. SweepShape' /\ StreamsOk' /\ (\A n : Lasts(n)) /\ Unopened'
  BY StreamsStay, SweepShapeStays DEF Whole
<1>4. Numbered'
  <2>1. \A e \in Deliveries :
           /\ del'[e].pc \in {"idle", "incr"} => del[e].seg = 0
           /\ del'[e].pc \in Inner \cup {"open", "closed", "recorded"} => del[e].seg # 0
    BY <1>2 DEF Whole, Numbered, Early, Inner
  <2>. QED BY <1>2, <2>1, NumberedStays DEF Whole
<1>5. DelsOk'
  <2>1. /\ p \in After => streams[del[d].seg].state # "absent"
        /\ p \in {"closed", "recorded"} => Shut(del[d].seg)'
    BY <1>2 DEF Whole, DelsOk, DelOk, Inner, After, Shut, Spared
  <2>. QED BY <1>1, <1>3, <2>1, DelsStay DEF Whole, Early
<1>6. SweepsOk'
  BY <1>3, SweepsStay DEF Whole
<1>. QED BY <1>3, <1>4, <1>5, <1>6

\* The thread record is told of the stream once its first event is out.
LEMMA RecordStartKeeps ==
  ASSUME SegmentsAssumption, Whole, Inv', NEW d \in Deliveries, RecordStart(d)
  PROVE  Whole'
<1>. DEFINE n == del[d].seg
<1>1. /\ UNCHANGED <<streams, counter, holder, jobs, done, sweep, happened>>
      /\ record' = Append(record, [type |-> "RUN_STARTED", seg |-> n])
      /\ del[d].pc = "started" /\ Quiet(del[d], Main)
  BY DEF RecordStart
<1>2. Shape /\ IsDelivery(del[d]) /\ Sound(del[d])
  BY DEF Whole, Inv, Shape, DelsOk, DelOk, After, Shut, Spared
<1>3. Steps(d, "work")
  <2>. DEFINE y == Phased(del[d], Main, "live")
              x == [y EXCEPT !.pc = "work"]
  <2>2. Become(d, x)
    BY DEF RecordStart
  <2>3. IsDelivery(y) /\ Sound(y) /\ y.pc = del[d].pc /\ y.active = del[d].active /\ Goes(del[d], y)
    BY <1>2, PhasedGoes
  <2>. HIDE DEF y
  <2>4. x.pc = "work" /\ Goes(y, x)
    BY <2>3, PlaceGoes
  <2>5. Goes(del[d], x)
    BY <2>3, <2>4 DEF Goes
  <2>. HIDE DEF x
  <2>. QED BY <2>2, <2>4, <2>5 DEF Steps
<1>4. /\ del'[d].pc = "work" /\ (\A e \in Deliveries : e # d => del'[e] = del[e])
      /\ \A e \in Deliveries : del'[e].seg = del[e].seg
  BY <1>2, <1>3, StepsTo
<1>5. SweepShape' /\ Numbered' /\ StreamsOk' /\ DelsOk' /\ Unopened' /\ SweepsOk'
  BY <1>1, <1>3, StandingStays DEF Early, Inner
<1>6. n \in Numbers /\ streams[n].state # "absent"
  BY <1>1, TookFew DEF Whole, Numbered, DelsOk, DelOk, Inner, After, Shut, Spared
<1>7. /\ RecOk' /\ EndsOnce'
      /\ \A u, k : Entry(u, k)' => Entry(u, k) \/ (u = "RUN_STARTED" /\ k = n)
  <2>. HIDE DEF n
  <2>. QED BY <1>1, <1>6, RecordGrows DEF Whole
<1>8. Holds' /\ Seeks'
  <2>1. \A e \in Deliveries : Working(e)' => Working(e)
    BY <1>1, <1>4 DEF Working
  <2>. QED BY <1>1, <2>1, HoldsStays, SeeksStays DEF Whole
<1>9. Calmly'
  <2>1. Calmly
    BY DEF Whole
  <2>2. \A k : Entry("RUN_ENDED", k)' => Entry("RUN_ENDED", k)
    BY <1>7
  <2>3. \A e \in Deliveries : /\ del'[e].pc \in Inner => del[e].pc \in Inner
                              /\ del'[e].pc = "closed" => del[e].pc = "closed"
    BY <1>1, <1>4 DEF Inner
  <2>. QED BY <1>1, <1>4, <2>1, <2>2, <2>3 DEF Calmly, Tame, Spared
<1>10. Firsts'
  <2> SUFFICES ASSUME Spared({"append", "lapse", "overlap"})' PROVE Firsts'
    BY DEF Firsts
  <2>1. Firsts /\ Spared({"append", "lapse", "overlap"})
    BY <1>1 DEF Spared, Whole
  <2>2. Begun(n)
    <3>1. ~Leads(del[d])
      <4> SUFFICES ASSUME Leads(del[d]) PROVE FALSE
        OBVIOUS
      <4>1. 1 \in DOMAIN del[d].flights
        BY <1>2, LongSeq DEF Leads, Sound
      <4>2. Awaits(del[d], Main)
        BY <4>1 DEF Leads, Awaits
      <4>. QED BY <1>1, <4>2 DEF Quiet
    <3>. QED BY <1>1, <2>1, <3>1 DEF Firsts
  <2>3. \A k : Begun(k)' <=> Begun(k)
    BY <1>1 DEF Begun
  <2>4. \A e \in Deliveries : del'[e].pc = "started" => del'[e] = del[e]
    BY <1>4
  <2>. QED BY <1>1, <1>7, <2>1, <2>2, <2>3, <2>4 DEF Firsts
<1>. QED BY <1>5, <1>7, <1>8, <1>9, <1>10 DEF Whole

LEMMA AppendedItems ==
  ASSUME NEW s, NEW es, IsStream(s)
  PROVE  Appended(s, es) = [state |-> s.state, items |-> s.items \o es]
<1>. DEFINE is == s.items \o es
<1>1. Appended(s, es) = [s EXCEPT !.items = is]
  BY DEF Appended
<1>. HIDE DEF is
<1>2. [s EXCEPT !.items = is] = [state |-> s.state, items |-> is]
  BY DEF IsStream
<1>. QED BY <1>1, <1>2 DEF is

\* The batch in front is appended, or lost.
LEMMA AppendBatchKeeps ==
  ASSUME SegmentsAssumption, Whole, Inv', NEW d \in Deliveries, AppendBatch(d)
  PROVE  Whole'
<1>. DEFINE w == del[d]
            n == w.seg
            es == w.flights[1].events
            x == [w EXCEPT !.flights = Tail(w.flights)]
            y == Appended(streams[n], es)
<1>1. /\ UNCHANGED <<counter, record, holder, jobs, done, sweep>> /\ happened \subseteq happened'
      /\ w.flights # <<>> /\ Become(d, x)
  BY Uses DEF AppendBatch
<1>2. /\ Shape /\ IsDelivery(w) /\ Sound(w) /\ StreamsOk /\ Numbered /\ DelsOk /\ DelOk(d)
  BY DEF Whole, Inv, Shape, DelsOk, DelOk, After, Shut, Spared
<1>3. /\ IsSeq(Tail(w.flights)) /\ Head(w.flights) = w.flights[1]
      /\ \A i \in 1..Len(Tail(w.flights)) : IsSeq(Tail(w.flights)[i].events)
      /\ IsSeq(es)
  <2>1. IsSeq(w.flights) /\ 1 \in 1..Len(w.flights) /\ Len(w.flights) \in Nat
    BY <1>1, <1>2, LongSeq DEF Sound
  <2>2. /\ IsSeq(Tail(w.flights)) /\ Len(Tail(w.flights)) = Len(w.flights) - 1
        /\ Head(w.flights) = w.flights[1]
        /\ \A i \in 1..Len(Tail(w.flights)) : Tail(w.flights)[i] = w.flights[i + 1]
    BY <1>1, <2>1, TailSeq
  <2>3. \A i \in 1..Len(Tail(w.flights)) : i + 1 \in 1..Len(w.flights)
    BY <2>1, <2>2
  <2>. QED BY <1>2, <2>1, <2>2, <2>3 DEF Sound
<1>4. IsDelivery(x) /\ Sound(x) /\ x.pc = w.pc /\ x.seg = n
  <2>. DEFINE fs == Tail(w.flights)
  <2>1. x = [pc |-> w.pc, seg |-> w.seg, active |-> w.active, buf |-> w.buf, flights |-> fs,
             agents |-> w.agents]
    BY <1>2, SomeFields
  <2>2. IsSeq(fs) /\ \A i \in 1..Len(fs) : IsSeq(fs[i].events)
    BY <1>3
  <2>. HIDE DEF x, fs
  <2>. QED BY <1>2, <2>1, <2>2 DEF IsDelivery, Sound
<1>. HIDE DEF x
<1>5. del'[d] = x /\ \A e \in Deliveries : e # d => del'[e] = del[e]
  BY <1>1, <1>2, <1>4, Becomes
<1>6. /\ \/ UNCHANGED streams /\ ("append" \in happened' \/ streams[n].state # "open")
         \/ streams[n].state = "open" /\ streams' = [streams EXCEPT ![n] = y]
  BY <1>3 DEF AppendBatch, CanAppend, Use, Faults
<1>7. n \in Numbers => /\ IsSeq(streams[n].items) /\ IsStream(streams[n])
                       /\ y = [state |-> streams[n].state, items |-> streams[n].items \o es]
  <2>1. n \in Numbers => IsSeq(streams[n].items) /\ IsStream(streams[n])
    BY <1>2 DEF StreamsOk, StreamOk, Shape
  <2>. HIDE DEF n, es
  <2>. QED BY <2>1, AppendedItems
<1>8. n \in Numbers => /\ IsSeq(y.items) /\ y.state = streams[n].state /\ IsStream(y)
                       /\ streams[n].items # <<>> => y.items # <<>> /\ y.items[1] = streams[n].items[1]
                       /\ streams[n].items = <<>> /\ es # <<>> => y.items # <<>> /\ y.items[1] = es[1]
  <2> SUFFICES ASSUME n \in Numbers
               PROVE  /\ IsSeq(y.items) /\ y.state = streams[n].state /\ IsStream(y)
                      /\ streams[n].items # <<>> => y.items # <<>> /\ y.items[1] = streams[n].items[1]
                      /\ streams[n].items = <<>> /\ es # <<>> => y.items # <<>> /\ y.items[1] = es[1]
    OBVIOUS
  <2>. DEFINE q == streams[n].items
              z == q \o es
  <2>1. IsSeq(q) /\ Len(q) \in Nat /\ Len(es) \in Nat /\ (q = <<>> <=> Len(q) = 0)
        /\ (es = <<>> <=> Len(es) = 0)
    BY <1>3, <1>7, LongSeq
  <2>2. IsSeq(es)
    BY <1>3
  <2>. HIDE DEF q, es
  <2>3. /\ IsSeq(q \o es) /\ Len(q \o es) = Len(q) + Len(es)
        /\ \A i \in 1..Len(q) : (q \o es)[i] = q[i]
        /\ \A i \in 1..Len(es) : (q \o es)[Len(q) + i] = es[i]
    BY <2>1, <2>2, ConcatSeq
  <2>4. z = <<>> <=> Len(z) = 0
    BY <2>3, LongSeq
  <2>5. q # <<>> => z # <<>> /\ z[1] = q[1]
    BY <2>1, <2>3, <2>4
  <2>6. q = <<>> /\ es # <<>> => z # <<>> /\ z[1] = es[1]
    <3> SUFFICES ASSUME Len(q) = 0, Len(es) > 0 PROVE z # <<>> /\ z[1] = es[1]
      BY <2>1
    <3>1. 1 \in 1..Len(es) /\ Len(q) + 1 = 1
      BY <2>1
    <3>2. z[Len(q) + 1] = es[1]
      BY <2>3, <3>1
    <3>. QED BY <2>1, <2>3, <2>4, <3>1, <3>2
  <2>7. y = [state |-> streams[n].state, items |-> z]
    BY <1>7 DEF q, es
  <2>. HIDE DEF y, z
  <2>8. y.items = z /\ y.state = streams[n].state /\ IsStream(y)
    BY <2>7 DEF IsStream
  <2>. QED BY <2>3, <2>5, <2>6, <2>8 DEF q, z
<1>. HIDE DEF y, es
<1>9. \A k \in Numbers :
        \/ streams'[k] = streams[k]
        \/ k = n /\ streams[n].state = "open" /\ streams'[n] = y
  <2>1. CASE UNCHANGED streams
    BY <2>1
  <2>2. CASE streams[n].state = "open" /\ streams' = [streams EXCEPT ![n] = y]
    BY <1>2, <1>8, <2>2, Changes
  <2>. QED BY <1>6, <2>1, <2>2
<1>10. \A e \in Deliveries :
         /\ del'[e].pc = del[e].pc /\ del'[e].seg = del[e].seg /\ Sound(del'[e])
         /\ e # d => del'[e] = del[e]
  BY <1>2, <1>4, <1>5 DEF DelsOk, DelOk, After, Shut, Spared
<1>11. del[d].pc \notin Early
  BY <1>1, <1>2 DEF DelOk, After, Shut, Spared
<1>11a. \A e \in Deliveries : del[e].pc \in Inner => del[e].seg \in Numbers /\ del[e].seg # 0
  BY <1>2, TookFew DEF Numbered
<1>12. \A k \in Numbers : streams'[k].state = streams[k].state
  BY <1>8, <1>9
<1>13. SweepShape' /\ StreamsOk' /\ (\A k : Lasts(k)) /\ Unopened'
  <2>1. StreamsOk'
    BY <1>2, <1>8, <1>9 DEF StreamsOk, StreamOk
  <2>2. \A k : Lasts(k)
    BY <1>12 DEF Lasts
  <2>3. Unopened'
    BY <1>1, <1>12 DEF Unopened, Whole
  <2>. QED BY <1>1, <2>1, <2>2, <2>3, SweepShapeStays DEF Whole
<1>14. Numbered'
  BY <1>1, <1>2, <1>10, NumberedStays DEF Numbered
<1>15. DelsOk'
  <2>1. ASSUME NEW e \in Deliveries PROVE DelOk(e)'
    <3>1. del[e].pc \in Inner \cup {"open", "closed", "recorded"} => del[e].seg \in Numbers
      BY <1>2, TookFew DEF Numbered
    <3>2. del[e].pc \in Early => del'[e] = del[e]
      BY <1>10, <1>11
    <3>. QED BY <1>1, <1>2, <1>10, <1>12, <3>1, <3>2 DEF DelsOk, DelOk, After, Shut, Spared
  <2>. QED BY <2>1 DEF DelsOk
<1>16. SweepsOk' /\ RecOk' /\ EndsOnce'
  BY <1>1, <1>13, SweepsStay, RecordStays, OnceStays DEF Whole
<1>17. Holds' /\ Seeks'
  <2>1. \A e \in Deliveries : Working(e)' => Working(e)
    BY <1>10 DEF Working
  <2>. QED BY <1>1, <2>1, HoldsStays, SeeksStays DEF Whole
<1>18. Calmly'
  <2> SUFFICES ASSUME Tame' PROVE Calmly'
    BY DEF Calmly
  <2>1. Tame /\ Calmly
    BY <1>1 DEF Tame, Spared, Whole
  <2>2. ASSUME NEW e \in Deliveries, del'[e].pc \in Inner PROVE streams'[del'[e].seg].state = "open"
    BY <1>10, <1>12, <1>11a, <2>1, <2>2 DEF Calmly
  <2>3. ASSUME NEW s \in Sweepers, sweep'[s].pc = "close" PROVE streams'[sweep'[s].seg].state = "open"
    <3>1. sweep[s].seg \in Numbers
      BY <1>1, <1>2, <2>3, TookFew DEF Whole, SweepsOk, SweepOk, Shut, Spared
    <3>. QED BY <1>1, <1>12, <2>1, <2>3, <3>1 DEF Calmly
  <2>. QED BY <1>1, <1>10, <2>1, <2>2, <2>3 DEF Calmly, Entry, Spared
<1>19. Firsts'
  <2> SUFFICES ASSUME Spared({"append", "lapse", "overlap"})' PROVE Firsts'
    BY DEF Firsts
  <2>1. Firsts /\ Spared({"append", "lapse", "overlap"}) /\ Tame /\ Calmly /\ "append" \notin happened'
    BY <1>1 DEF Spared, Whole, Tame
  <2>2. \A k \in Numbers : Begun(k) => Begun(k)'
    BY <1>8, <1>9 DEF Begun
  <2>3. ASSUME NEW e \in Deliveries, del'[e].pc = "started", NEW k \in Numbers, k = del[e].seg
        PROVE  Begun(k)' \/ (streams'[k].items = <<>> /\ Leads(del'[e]))
    <3>1. del[e].pc = "started" /\ k # 0
      BY <1>10, <1>11a, <2>3 DEF Inner
    <3>2. CASE Begun(k)
      BY <2>2, <3>2
    <3>3. CASE streams[k].items = <<>> /\ Leads(del[e]) /\ e # d
      <4>1. k # n
        BY <1>2, <2>3, <3>1, <3>3 DEF Numbered
      <4>. QED BY <1>9, <1>10, <3>3, <4>1
    <3>4. CASE streams[k].items = <<>> /\ Leads(del[e]) /\ e = d
      <4>1. streams[n].state = "open" /\ n \in Numbers /\ k = n
        BY <2>1, <2>3, <3>1, <3>4 DEF Calmly, Inner
      <4>2. streams'[n] = y
        BY <1>2, <1>6, <1>8, <2>1, <4>1, Changes
      <4>3. es # <<>> /\ es[1].type = "RUN_STARTED"
        BY <3>4 DEF Leads, es
      <4>4. y.items # <<>> /\ y.items[1].type = "RUN_STARTED"
        BY <1>8, <3>4, <4>1, <4>3
      <4>. QED BY <4>1, <4>2, <4>4 DEF Begun
    <3>5. Begun(k) \/ (streams[k].items = <<>> /\ Leads(del[e]))
      BY <2>1, <2>3, <3>1 DEF Firsts
    <3>. QED BY <3>2, <3>3, <3>4, <3>5
  <2>4. \A e \in Deliveries : del'[e].pc = "started" => del[e].seg \in Numbers
    BY <1>10, <1>11a DEF Inner
  <2>5. \A k : Entry("RUN_STARTED", k)' => Entry("RUN_STARTED", k)
    BY <1>1 DEF Entry
  <2>6. \A k \in Numbers : Entry("RUN_STARTED", k)' => Begun(k)'
    BY <2>1, <2>2, <2>5 DEF Firsts
  <2>7. \A e \in Deliveries : del'[e].pc = "started" =>
          Begun(del[e].seg)' \/ (streams'[del'[e].seg].items = <<>> /\ Leads(del'[e]))
    BY <1>10, <2>3, <2>4 DEF Begun
  <2>. QED BY <2>6, <2>7 DEF Firsts
<1>. QED BY <1>13, <1>14, <1>15, <1>16, <1>17, <1>18, <1>19 DEF Whole

\* While a worker is at it no sweep is, until a lease lapses or sweeps overlap.
LEMMA NobodySweeps ==
  ASSUME Whole, Tame, NEW d \in Deliveries, Working(d)
  PROVE  \A s \in Sweepers : ~Sweeping(s)
BY DEF Whole, Tame, Spared, Holds, Seeks

\* A stream is closed with how its segment ended, if it is open.
LEMMA ClosingGrows ==
  ASSUME Shape, StreamsOk, Unopened, UNCHANGED counter, NEW n \in Numbers, NEW t \in Ends,
         streams' = [streams EXCEPT ![n] = Closed(@, Mark(t, Main))]
  PROVE  /\ StreamsOk' /\ (\A k : Lasts(k)) /\ Unopened'
         /\ streams[n].state # "absent" => streams'[n].state = "closed"
         /\ \A k \in Numbers : k # n => streams'[k] = streams[k]
         /\ \A k \in Numbers : Begun(k) => Begun(k)'
<1>. DEFINE m == Mark(t, Main)
            q == streams[n].items
            x == Closed(streams[n], m)
<1>1. IsStream(streams[n]) /\ IsSeq(q) /\ StreamOk(n)
  BY DEF Shape, StreamsOk, StreamOk
<1>2. Len(q) \in Nat /\ (q = <<>> <=> Len(q) = 0)
  BY <1>1, LongSeq
<1>3. m.type \in Ends
  BY DEF Mark, Event
<1>. HIDE DEF m, q
<1>4. /\ IsSeq(Append(q, m)) /\ Len(Append(q, m)) = Len(q) + 1 /\ Append(q, m)[Len(q) + 1] = m
      /\ \A i \in 1..Len(q) : Append(q, m)[i] = q[i]
  BY <1>1, AppendSeq
<1>5. /\ Append(q, m) # <<>>
      /\ q # <<>> => Append(q, m)[1] = q[1]
  <2>1. Append(q, m) = <<>> <=> Len(Append(q, m)) = 0
    BY <1>4, LongSeq
  <2>. QED BY <1>2, <1>4, <2>1
<1>6. x = IF streams[n].state = "open" THEN [state |-> "closed", items |-> Append(q, m)] ELSE streams[n]
  BY DEF Closed, q
<1>7. streams'[n] = x /\ \A k \in Numbers : k # n => streams'[k] = streams[k]
  BY DEF Shape, m
<1>. HIDE DEF x
<1>8. x.state = (IF streams[n].state = "open" THEN "closed" ELSE streams[n].state)
  BY <1>6
<1>9. /\ IsSeq(x.items)
      /\ x.state \in {"absent", "open", "closed"}
      /\ x.state = "absent" => x.items = <<>>
      /\ x.state = "closed" => x.items # <<>> /\ x.items[Len(x.items)].type \in Ends
  BY <1>1, <1>3, <1>4, <1>5, <1>6 DEF StreamOk, q
<1>10. q # <<>> => x.items # <<>> /\ x.items[1] = q[1]
  BY <1>5, <1>6 DEF q
<1>11. StreamsOk'
  BY <1>7, <1>9 DEF StreamsOk, StreamOk
<1>12. streams[n].state # "absent" => streams'[n].state = "closed"
  BY <1>1, <1>7, <1>8 DEF StreamOk
<1>13. \A k \in Numbers :
         /\ streams[k].state # "absent" => streams'[k].state # "absent"
         /\ streams[k].state = "closed" => streams'[k].state = "closed"
         /\ streams[k].state = "absent" => streams'[k].state = "absent"
  BY <1>7, <1>8
<1>14. (\A k : Lasts(k)) /\ Unopened'
  BY <1>13 DEF Lasts, Unopened
<1>15. \A k \in Numbers : Begun(k) => Begun(k)'
  BY <1>7, <1>10 DEF Begun, q
<1>. QED BY <1>7, <1>11, <1>12, <1>14, <1>15

\* The stream is closed before anything else is told.
LEMMA CloseStreamKeeps ==
  ASSUME SegmentsAssumption, Whole, Inv', NEW d \in Deliveries, CloseStream(d)
  PROVE  Whole'
<1>. DEFINE n == del[d].seg
<1>1. /\ UNCHANGED <<counter, record, holder, jobs, done, sweep, happened>> /\ del[d].pc = "end"
      /\ streams' = [streams EXCEPT ![n] = Closed(@, Mark(Status(d), Main))]
  BY DEF CloseStream
<1>2. /\ Shape /\ StreamsOk /\ Unopened /\ Numbered /\ DelsOk /\ DelOk(d)
      /\ IsDelivery(del[d]) /\ Sound(del[d]) /\ n \in Numbers /\ streams[n].state # "absent"
  <2>1. Shape /\ StreamsOk /\ Unopened /\ Numbered /\ DelsOk /\ DelOk(d)
    BY DEF Whole, Inv, DelsOk
  <2>. QED BY <1>1, <2>1, TookFew DEF Shape, Numbered, DelOk, Inner, After, Shut, Spared
<1>3. Steps(d, "closed")
  <2>. DEFINE y == [del[d] EXCEPT !.pc = "closed"]
              x == [y EXCEPT !.active = FALSE]
  <2>1. IsDelivery(y) /\ Sound(y) /\ y.pc = "closed" /\ Goes(del[d], y)
    BY <1>2, PlaceGoes
  <2>2. Become(d, x)
    <3>1. x = [del[d] EXCEPT !.pc = "closed", !.active = FALSE]
      OBVIOUS
    <3>. HIDE DEF x
    <3>. QED BY <3>1 DEF CloseStream
  <2>. HIDE DEF y
  <2>3. x = [pc |-> y.pc, seg |-> y.seg, active |-> FALSE, buf |-> y.buf, flights |-> y.flights,
             agents |-> y.agents]
    BY <2>1, SomeFields
  <2>. HIDE DEF x
  <2>4. Goes(del[d], x) /\ x.pc = "closed"
    BY <1>1, <2>1, <2>3 DEF Goes, IsDelivery, Sound, Leads, Early
  <2>. QED BY <2>2, <2>4 DEF Steps
<1>4. /\ del'[d].pc = "closed" /\ (\A e \in Deliveries : e # d => del'[e] = del[e])
      /\ \A e \in Deliveries : del'[e].seg = del[e].seg
  BY <1>2, <1>3, StepsTo
<1>5. /\ StreamsOk' /\ (\A k : Lasts(k)) /\ Unopened'
      /\ streams'[n].state = "closed"
      /\ \A k \in Numbers : k # n => streams'[k] = streams[k]
      /\ \A k \in Numbers : Begun(k) => Begun(k)'
  <2>1. Status(d) \in Ends
    BY DEF Status, Ends
  <2>. HIDE DEF n
  <2>. QED BY <1>1, <1>2, <2>1, ClosingGrows
<1>6. Numbered'
  <2>1. \A e \in Deliveries :
           /\ del'[e].pc \in {"idle", "incr"} => del[e].seg = 0
           /\ del'[e].pc \in Inner \cup {"open", "closed", "recorded"} => del[e].seg # 0
    BY <1>1, <1>2, <1>4 DEF Numbered, Inner
  <2>. QED BY <1>1, <1>2, <1>4, <2>1, NumberedStays
<1>7. DelsOk'
  BY <1>1, <1>2, <1>3, <1>4, <1>5, DelsStay DEF Early, Inner, After, Shut
<1>8. SweepShape' /\ SweepsOk' /\ RecOk' /\ EndsOnce'
  BY <1>1, <1>5, SweepShapeStays, SweepsStay, RecordStays, OnceStays DEF Whole
<1>9. Holds' /\ Seeks'
  <2>1. \A e \in Deliveries : Working(e)' => Working(e)
    BY <1>1, <1>4 DEF Working
  <2>. QED BY <1>1, <2>1, HoldsStays, SeeksStays DEF Whole
<1>10. \A e \in Deliveries : e # d => del[e].seg # n
  BY <1>1, <1>2 DEF Numbered, Inner
<1>11. \A e \in Deliveries : del[e].pc \in Inner => del[e].seg \in Numbers
  BY <1>2, TookFew DEF Numbered
<1>12. \A u, k : Entry(u, k)' <=> Entry(u, k)
  BY <1>1 DEF Entry
<1>13. Calmly'
  <2> SUFFICES ASSUME Tame' PROVE Calmly'
    BY DEF Calmly
  <2>1. Tame /\ Calmly
    BY <1>1 DEF Tame, Spared, Whole
  <2>2. \A s \in Sweepers : ~Sweeping(s)
    BY <1>1, <2>1, NobodySweeps DEF Working
  <2>3. \A s \in Sweepers : sweep[s].pc \notin {"close", "record"}
    BY <2>2 DEF Sweeping
  <2>4. ASSUME NEW e \in Deliveries, del'[e].pc \in Inner PROVE streams'[del'[e].seg].state = "open"
    BY <1>4, <1>5, <1>10, <1>11, <2>1, <2>4 DEF Calmly, Inner
  <2>5. Spared({"close"}) => ~Entry("RUN_ENDED", n)
    <3>1. streams[n].state = "open"
      BY <1>1, <2>1 DEF Calmly, Inner
    <3>. QED BY <3>1 DEF Whole, RecOk, Entry, Shut
  <2>6. ASSUME Spared({"close"}), NEW e \in Deliveries, del'[e].pc = "closed"
        PROVE  ~Entry("RUN_ENDED", del[e].seg)
    BY <1>4, <2>1, <2>5, <2>6 DEF Calmly
  <2>7. Spared({"close"})' =>
          \A e \in Deliveries : del'[e].pc = "closed" => ~Entry("RUN_ENDED", del[e].seg)'
    BY <1>1, <1>4, <2>6 DEF Entry, Spared
  <2>. QED BY <1>1, <2>3, <2>4, <2>7 DEF Calmly
<1>14. Firsts'
  <2> SUFFICES ASSUME Spared({"append", "lapse", "overlap"})' PROVE Firsts'
    BY DEF Firsts
  <2>1. Firsts /\ Spared({"append", "lapse", "overlap"})
    BY <1>1 DEF Spared, Whole
  <2>2. ASSUME NEW e \in Deliveries, del'[e].pc = "started", NEW k \in Numbers, k = del[e].seg
        PROVE  Begun(k)' \/ (streams'[k].items = <<>> /\ Leads(del'[e]))
    BY <1>4, <1>5, <1>10, <2>1, <2>2 DEF Firsts
  <2>3. \A e \in Deliveries : del'[e].pc = "started" =>
          Begun(del[e].seg)' \/ (streams'[del'[e].seg].items = <<>> /\ Leads(del'[e]))
    BY <1>4, <1>11, <2>2 DEF Begun, Inner
  <2>. QED BY <1>5, <1>12, <2>1, <2>3 DEF Firsts
<1>. QED BY <1>5, <1>6, <1>7, <1>8, <1>9, <1>13, <1>14 DEF Whole

LEMMA RecordEndKeeps ==
  ASSUME SegmentsAssumption, Whole, Inv', NEW d \in Deliveries, RecordEnd(d)
  PROVE  Whole'
<1>. DEFINE n == del[d].seg
<1>1. /\ UNCHANGED <<streams, counter, holder, jobs, done, sweep, happened>>
      /\ record' = Append(record, [type |-> "RUN_ENDED", seg |-> n]) /\ del[d].pc = "closed"
  BY DEF RecordEnd
<1>2. Shape /\ IsDelivery(del[d]) /\ Sound(del[d]) /\ Numbered /\ DelOk(d)
  BY DEF Whole, Inv, Shape, DelsOk, DelOk, After, Shut, Spared
<1>3. Steps(d, "recorded")
  <2>. DEFINE x == [del[d] EXCEPT !.pc = "recorded"]
  <2>1. Become(d, x)
    BY DEF RecordEnd
  <2>2. Goes(del[d], x) /\ x.pc = "recorded"
    BY <1>2, PlaceGoes
  <2>. HIDE DEF x
  <2>. QED BY <2>1, <2>2 DEF Steps
<1>4. /\ del'[d].pc = "recorded" /\ (\A e \in Deliveries : e # d => del'[e] = del[e])
      /\ \A e \in Deliveries : del'[e].seg = del[e].seg
  BY <1>2, <1>3, StepsTo
<1>5. SweepShape' /\ Numbered' /\ StreamsOk' /\ DelsOk' /\ Unopened' /\ SweepsOk'
  BY <1>1, <1>3, StandingStays DEF Early, Inner
<1>6. n \in Numbers /\ streams[n].state # "absent" /\ Shut(n) /\ n # 0
  BY <1>1, <1>2, TookFew DEF Numbered, DelOk, After
<1>7. Tame /\ Spared({"close"}) => ~Entry("RUN_ENDED", n)
  BY <1>1 DEF Whole, Calmly
<1>8. /\ RecOk' /\ EndsOnce'
      /\ \A u, k : Entry(u, k)' => Entry(u, k) \/ (u = "RUN_ENDED" /\ k = n)
  <2>. HIDE DEF n
  <2>. QED BY <1>1, <1>6, <1>7, RecordGrows DEF Whole
<1>9. Holds' /\ Seeks'
  <2>1. \A e \in Deliveries : Working(e)' => Working(e)
    BY <1>1, <1>4 DEF Working
  <2>. QED BY <1>1, <2>1, HoldsStays, SeeksStays DEF Whole
<1>10. Calmly'
  <2> SUFFICES ASSUME Tame' PROVE Calmly'
    BY DEF Calmly
  <2>1. Tame /\ Calmly
    BY <1>1 DEF Tame, Spared, Whole
  <2>2. \A s \in Sweepers : ~Sweeping(s)
    BY <1>1, <2>1, NobodySweeps DEF Working
  <2>3. \A s \in Sweepers : sweep[s].pc \notin {"close", "record"}
    BY <2>2 DEF Sweeping
  <2>4. ASSUME Spared({"close"}), NEW e \in Deliveries, del'[e].pc = "closed", NEW k, k = del[e].seg
        PROVE  ~Entry("RUN_ENDED", k)'
    <3>1. e # d /\ del[e].pc = "closed"
      BY <1>4, <2>4
    <3>2. k # n
      BY <1>2, <1>6, <2>4, <3>1 DEF Numbered
    <3>3. ~Entry("RUN_ENDED", k)
      BY <2>1, <2>4, <3>1 DEF Calmly
    <3>. QED BY <1>8, <3>2, <3>3
  <2>5. Spared({"close"})' =>
          \A e \in Deliveries : del'[e].pc = "closed" => ~Entry("RUN_ENDED", del[e].seg)'
    BY <1>1, <1>4, <2>4 DEF Entry, Spared
  <2>6. \A e \in Deliveries : del'[e].pc \in Inner => del'[e] = del[e]
    BY <1>4 DEF Inner
  <2>. QED BY <1>1, <1>4, <2>1, <2>3, <2>5, <2>6 DEF Calmly, Entry
<1>11. Firsts'
  <2> SUFFICES ASSUME Spared({"append", "lapse", "overlap"})' PROVE Firsts'
    BY DEF Firsts
  <2>1. Firsts /\ Spared({"append", "lapse", "overlap"})
    BY <1>1 DEF Spared, Whole
  <2>2. \A k : Entry("RUN_STARTED", k)' => Entry("RUN_STARTED", k)
    BY <1>8
  <2>3. \A k : Begun(k)' <=> Begun(k)
    BY <1>1 DEF Begun
  <2>4. \A e \in Deliveries : del'[e].pc = "started" => del'[e] = del[e]
    BY <1>4
  <2>. QED BY <1>1, <2>1, <2>2, <2>3, <2>4 DEF Firsts
<1>. QED BY <1>5, <1>8, <1>9, <1>10, <1>11 DEF Whole

\* The stream stays open, or the record is not told how it ended.
LEMMA CloseFailsKeeps ==
  ASSUME SegmentsAssumption, Whole, Inv', NEW d \in Deliveries, CloseFails(d) \/ RecordEndFails(d)
  PROVE  Whole'
<1>1. /\ UNCHANGED <<streams, counter, record, holder, jobs, done, sweep>>
      /\ happened \subseteq happened' /\ "close" \in happened'
  BY DEF CloseFails, RecordEndFails, Use, Faults
<1>2. Shape /\ IsDelivery(del[d]) /\ Sound(del[d])
  BY DEF Whole, Inv, Shape, DelsOk, DelOk
<1>3. PICK p \in {"closed", "recorded"} :
        /\ Steps(d, p)
        /\ p = "closed" => del[d].pc = "end"
        /\ p = "recorded" => del[d].pc = "closed"
  <2>1. CASE CloseFails(d)
    <3>. DEFINE y == [del[d] EXCEPT !.pc = "closed"]
                x == [y EXCEPT !.active = FALSE]
    <3>1. IsDelivery(y) /\ Sound(y) /\ y.pc = "closed" /\ Goes(del[d], y)
      BY <1>2, PlaceGoes
    <3>2. Become(d, x) /\ del[d].pc = "end"
      <4>1. x = [del[d] EXCEPT !.pc = "closed", !.active = FALSE]
        OBVIOUS
      <4>. HIDE DEF x
      <4>. QED BY <2>1, <4>1 DEF CloseFails
    <3>. HIDE DEF y
    <3>3. x = [pc |-> y.pc, seg |-> y.seg, active |-> FALSE, buf |-> y.buf, flights |-> y.flights,
               agents |-> y.agents]
      BY <3>1, SomeFields
    <3>. HIDE DEF x
    <3>4. Goes(del[d], x) /\ x.pc = "closed"
      BY <3>1, <3>2, <3>3 DEF Goes, IsDelivery, Sound, Leads, Early
    <3>. QED BY <3>2, <3>4 DEF Steps
  <2>2. CASE RecordEndFails(d)
    <3>. DEFINE x == [del[d] EXCEPT !.pc = "recorded"]
    <3>1. Become(d, x) /\ del[d].pc = "closed"
      BY <2>2 DEF RecordEndFails
    <3>2. Goes(del[d], x) /\ x.pc = "recorded"
      BY <1>2, PlaceGoes
    <3>. HIDE DEF x
    <3>. QED BY <3>1, <3>2 DEF Steps
  <2>. QED BY <2>1, <2>2
<1>4. /\ del'[d].pc = p /\ (\A e \in Deliveries : e # d => del'[e] = del[e])
      /\ \A e \in Deliveries : del'[e].seg = del[e].seg
  BY <1>2, <1>3, StepsTo
<1>5. SweepShape' /\ Numbered' /\ StreamsOk' /\ DelsOk' /\ Unopened' /\ SweepsOk'
  BY <1>1, <1>3, StandingStays DEF Early, Inner
<1>6. RecOk' /\ EndsOnce'
  BY <1>1, StreamsStay, RecordStays, OnceStays DEF Whole
<1>7. Holds' /\ Seeks'
  <2>1. \A e \in Deliveries : Working(e)' => Working(e)
    BY <1>3, <1>4 DEF Working
  <2>. QED BY <1>1, <2>1, HoldsStays, SeeksStays DEF Whole
<1>8. Calmly'
  <2>1. \A e \in Deliveries : del'[e].pc \in Inner => del[e].pc \in Inner
    BY <1>3, <1>4 DEF Inner
  <2>. QED BY <1>1, <1>4, <2>1 DEF Whole, Calmly, Tame, Spared
<1>9. Firsts'
  <2>1. \A e \in Deliveries : del'[e].pc = "started" =>
          del[e].pc = "started" /\ (Leads(del[e]) => Leads(del'[e]))
    BY <1>3, <1>4
  <2>. QED BY <1>1, <1>4, <2>1, FirstsStay DEF Whole
<1>. QED BY <1>5, <1>6, <1>7, <1>8, <1>9 DEF Whole

\* A delivery without a lock to keep, and one that leaves its stream alone.
LEMMA LeavingKeeps ==
  ASSUME SegmentsAssumption, Whole, Inv', NEW d \in Deliveries, Release(d) \/ OpenFails(d)
  PROVE  Whole'
<1>2. UNCHANGED <<streams, counter, record, done, sweep>> /\ happened \subseteq happened'
  BY Uses DEF Release, OpenFails
<1>3. Shape /\ IsDelivery(del[d]) /\ Sound(del[d])
  BY DEF Whole, Inv, Shape, DelsOk, DelOk, After, Shut, Spared
<1>1. PICK p \in {"released", "dark"} :
        /\ Steps(d, p)
        /\ p = "dark" => UNCHANGED <<holder, jobs>> /\ Working(d)
        /\ p = "released" => /\ Working(d)
                             /\ holder' = (IF holder = d THEN Nobody ELSE holder)
                             /\ jobs' = (IF done \/ holder # d THEN jobs ELSE jobs + 1)
  <2>1. CASE Release(d)
    <3>. DEFINE x == [del[d] EXCEPT !.pc = "released"]
    <3>1. Goes(del[d], x) /\ x.pc = "released"
      BY <1>3, PlaceGoes
    <3>2. Become(d, x)
      BY <2>1 DEF Release
    <3>. HIDE DEF x
    <3>3. Steps(d, "released")
      BY <3>1, <3>2 DEF Steps
    <3>. QED BY <2>1, <3>3 DEF Release, Working
  <2>2. CASE OpenFails(d)
    <3>. DEFINE x == [del[d] EXCEPT !.pc = "dark"]
                v == Phased(del[d], Main, "live")
                y == [v EXCEPT !.pc = "dark"]
    <3>1. Become(d, x) \/ Become(d, y)
      BY <2>2 DEF OpenFails
    <3>2. Goes(del[d], x) /\ x.pc = "dark"
      BY <1>3, PlaceGoes
    <3>3. IsDelivery(v) /\ Sound(v) /\ v.pc = del[d].pc /\ v.active = del[d].active /\ Goes(del[d], v)
      BY <1>3, PhasedGoes
    <3>. HIDE DEF x, v
    <3>4. Goes(v, y) /\ y.pc = "dark"
      BY <3>3, PlaceGoes
    <3>. HIDE DEF y
    <3>5. Goes(del[d], y)
      BY <3>3, <3>4 DEF Goes
    <3>6. Steps(d, "dark")
      BY <3>1, <3>2, <3>4, <3>5 DEF Steps
    <3>. QED BY <2>2, <3>6 DEF OpenFails, Working
  <2>. QED BY <2>1, <2>2
<1>4. Steps(d, p)
  BY <1>1
<1>5. /\ del'[d].pc = p /\ (\A e \in Deliveries : e # d => del'[e] = del[e])
      /\ \A e \in Deliveries : del'[e].seg = del[e].seg
  BY <1>3, <1>4, StepsTo
<1>6. SweepShape' /\ Numbered' /\ StreamsOk' /\ DelsOk' /\ Unopened' /\ SweepsOk'
  BY <1>2, <1>4, StandingStays DEF Early, Inner
<1>7. RecOk' /\ EndsOnce'
  BY <1>2, StreamsStay, RecordStays, OnceStays DEF Whole
<1>8. Holds'
  <2> SUFFICES ASSUME Spared({"lapse"})', NEW e \in Deliveries, Working(e)' PROVE holder' = e
    BY DEF Holds
  <2>1. Spared({"lapse"}) /\ Holds
    BY <1>2 DEF Spared, Whole
  <2>2. Working(e)
    BY <1>1, <1>5 DEF Working
  <2>3. holder = d /\ holder = e
    BY <1>1, <2>1, <2>2 DEF Holds
  <2>. QED BY <1>1, <1>5, <2>3 DEF Working
<1>9. Seeks'
  <2>1. \A e \in Deliveries : Working(e)' => Working(e)
    BY <1>1, <1>5 DEF Working
  <2>2. CASE UNCHANGED jobs
    <3>1. holder' = holder \/ holder' \notin Deliveries
      BY <1>1 DEF SegmentsAssumption
    <3>. QED BY <1>2, <2>1, <2>2, <3>1, SeeksStays DEF Whole
  <2>3. CASE ~UNCHANGED jobs
    <3> SUFFICES ASSUME Spared({"overlap"})', NEW s \in Sweepers, Sweeping(s)' PROVE FALSE
      BY DEF Seeks
    <3>1. Spared({"overlap"}) /\ Seeks /\ Sweeping(s)
      BY <1>2 DEF Spared, Whole, Sweeping
    <3>2. Working(d) /\ ~done
      BY <1>1, <2>3
    <3>. QED BY <3>1, <3>2 DEF Seeks
  <2>. QED BY <2>2, <2>3
<1>10. Calmly'
  <2>1. \A e \in Deliveries : /\ del'[e].pc \in Inner => del[e].pc \in Inner
                              /\ del'[e].pc = "closed" => del[e].pc = "closed"
    BY <1>5 DEF Inner
  <2>. QED BY <1>2, <1>5, <2>1, CalmlyStays DEF Whole
<1>11. Firsts'
  <2>1. \A e \in Deliveries : del'[e].pc = "started" => del'[e] = del[e]
    BY <1>5
  <2>2. \A e \in Deliveries : del'[e].pc = "started" =>
          del[e].pc = "started" /\ (Leads(del[e]) => Leads(del'[e]))
    BY <2>1
  <2>. QED BY <1>2, <1>5, <2>2, FirstsStay DEF Whole
<1>. QED BY <1>6, <1>7, <1>8, <1>9, <1>10, <1>11 DEF Whole

\* The worker is gone with what it held; the sweep may come.
LEMMA DieKeeps ==
  ASSUME SegmentsAssumption, Whole, Inv', NEW d \in Deliveries, Die(d)
  PROVE  Whole'
<1>. DEFINE x == [NewDelivery EXCEPT !.pc = "dead", !.seg = del[d].seg]
<1>1. /\ UNCHANGED <<streams, counter, record, holder, done, sweep>>
      /\ happened \subseteq happened' /\ Become(d, x)
  BY Uses DEF Die
<1>2. Shape /\ Numbered /\ DelsOk
  BY DEF Whole, Inv
<1>3. IsDelivery(x) /\ Sound(x) /\ x.pc = "dead" /\ x.seg = del[d].seg
  <2>. DEFINE y == [NewDelivery EXCEPT !.pc = "dead"]
  <2>1. NewDelivery.buf = <<>> /\ NewDelivery.flights = <<>>
    BY DEF NewDelivery
  <2>2. Sound(NewDelivery)
    BY <2>1, EmptySeq, LongSeq DEF Sound
  <2>3. IsDelivery(y) /\ Sound(y) /\ y.pc = "dead" /\ y.buf = <<>> /\ y.flights = <<>>
    BY <2>1, <2>2, NewIs, PlaceGoes
  <2>4. x = [y EXCEPT !.seg = del[d].seg]
    OBVIOUS
  <2>. HIDE DEF y
  <2>5. x = [pc |-> y.pc, seg |-> del[d].seg, active |-> y.active, buf |-> y.buf,
             flights |-> y.flights, agents |-> y.agents]
    BY <2>3, <2>4, SomeFields
  <2>. HIDE DEF x
  <2>. QED BY <2>3, <2>5 DEF IsDelivery, Sound
<1>. HIDE DEF x
<1>4. del'[d] = x /\ \A e \in Deliveries : e # d => del'[e] = del[e]
  BY <1>1, <1>2, <1>3, Becomes
<1>5. \A e \in Deliveries : del'[e].seg = del[e].seg /\ (del'[e] = del[e] \/ del'[e].pc = "dead")
  BY <1>3, <1>4
<1>6. SweepShape' /\ StreamsOk' /\ (\A k : Lasts(k)) /\ Unopened'
  BY <1>1, StreamsStay, SweepShapeStays DEF Whole
<1>7. Numbered'
  BY <1>1, <1>2, <1>5, NumberedStays DEF Numbered, Inner
<1>8. DelsOk'
  BY <1>1, <1>2, <1>3, <1>4 DEF DelsOk, DelOk, Early, Inner, After, Shut, Spared
<1>9. SweepsOk' /\ RecOk' /\ EndsOnce'
  BY <1>1, <1>6, SweepsStay, RecordStays, OnceStays DEF Whole
<1>10. Holds'
  <2>1. \A e \in Deliveries : Working(e)' => Working(e)
    BY <1>5 DEF Working
  <2>. QED BY <1>1, <2>1, HoldsStays DEF Whole
<1>13. Seeks'
  <2>1. \A e \in Deliveries : Working(e)' => Working(e)
    BY <1>5 DEF Working
  <2>2. CASE UNCHANGED jobs
    BY <1>1, <2>1, <2>2, SeeksStays DEF Whole
  <2>3. CASE ~UNCHANGED jobs
    <3> SUFFICES ASSUME Spared({"overlap"})', NEW s \in Sweepers, Sweeping(s)' PROVE FALSE
      BY DEF Seeks
    <3>1. Spared({"overlap"}) /\ Seeks /\ Sweeping(s)
      BY <1>1 DEF Spared, Whole, Sweeping
    <3>2. Working(d) /\ ~done
      BY <2>3 DEF Die
    <3>. QED BY <3>1, <3>2 DEF Seeks
  <2>. QED BY <2>2, <2>3
<1>11. Calmly'
  <2>1. \A e \in Deliveries : /\ del'[e].pc \in Inner => del[e].pc \in Inner
                              /\ del'[e].pc = "closed" => del[e].pc = "closed"
    BY <1>5 DEF Inner
  <2>. QED BY <1>1, <1>5, <2>1, CalmlyStays DEF Whole
<1>12. Firsts'
  <2>1. \A e \in Deliveries : del'[e].pc = "started" =>
          del[e].pc = "started" /\ (Leads(del[e]) => Leads(del'[e]))
    BY <1>5
  <2>. QED BY <1>1, <1>5, <2>1, FirstsStay DEF Whole
<1>. QED BY <1>6, <1>7, <1>8, <1>9, <1>10, <1>11, <1>12, <1>13 DEF Whole

\* A lease runs out: of a dead worker, or under one that stalled.
LEMMA LeaseKeeps ==
  ASSUME SegmentsAssumption, Whole, Inv', NEW d \in Deliveries, LockExpires(d) \/ Lapse(d)
  PROVE  Whole'
<1>1. /\ UNCHANGED <<streams, counter, record, done, del, sweep>> /\ happened \subseteq happened'
      /\ holder = d /\ holder' = Nobody
  BY Uses DEF LockExpires, Lapse
<1>2. SweepShape' /\ StreamsOk' /\ (\A k : Lasts(k)) /\ Unopened'
  BY <1>1, StreamsStay, SweepShapeStays DEF Whole
<1>3. Numbered'
  BY <1>1, NumberedStays DEF Whole, Numbered
<1>4. DelsOk'
  BY <1>1 DEF Whole, DelsOk, DelOk, After, Shut, Spared
<1>5. SweepsOk' /\ RecOk' /\ EndsOnce'
  BY <1>1, <1>2, SweepsStay, RecordStays, OnceStays DEF Whole
<1>6. Holds'
  <2>1. CASE LockExpires(d)
    BY <1>1, <2>1 DEF LockExpires, Whole, Holds, Spared, Working
  <2>2. CASE Lapse(d)
    BY <2>2 DEF Lapse, Use, Faults, Holds, Spared
  <2>. QED BY <2>1, <2>2
<1>7. Seeks'
  <2>1. CASE LockExpires(d)
    BY <1>1, <2>1, SeeksStays DEF LockExpires, Whole, Working
  <2>2. CASE Lapse(d)
    <3> SUFFICES ASSUME Spared({"overlap"})', NEW s \in Sweepers, Sweeping(s)' PROVE FALSE
      BY DEF Seeks
    <3>1. Spared({"overlap"}) /\ Seeks /\ Sweeping(s)
      BY <1>1 DEF Spared, Whole, Sweeping
    <3>. QED BY <2>2, <3>1 DEF Lapse, Seeks
  <2>. QED BY <2>1, <2>2
<1>8. Calmly' /\ Firsts'
  BY <1>1, CalmlyStays, FirstsStay DEF Whole
<1>. QED BY <1>2, <1>3, <1>4, <1>5, <1>6, <1>7, <1>8 DEF Whole

---------------------------------------------------------------------------
(* The sweep *)

\* A sweep's step moves no delivery.
LEMMA SweepMoves ==
  ASSUME SweepShape, NEW s \in Sweepers, NEW p, NEW n,
         sweep' = [sweep EXCEPT ![s] = [pc |-> p, seg |-> n]]
  PROVE  /\ SweepShape' /\ sweep'[s].pc = p /\ sweep'[s].seg = n
         /\ \A t \in Sweepers : t # s => sweep'[t] = sweep[t]
BY DEF SweepShape

LEMMA SweepPlaces ==
  ASSUME SweepShape, NEW s \in Sweepers, NEW p, sweep' = [sweep EXCEPT ![s].pc = p]
  PROVE  /\ SweepShape' /\ sweep'[s].pc = p /\ sweep'[s].seg = sweep[s].seg
         /\ \A t \in Sweepers : t # s => sweep'[t] = sweep[t]
<1>. DEFINE r == [sweep[s] EXCEPT !.pc = p]
<1>1. sweep[s] = [pc |-> sweep[s].pc, seg |-> sweep[s].seg]
  BY DEF SweepShape
<1>2. r.pc = p /\ r.seg = sweep[s].seg /\ r = [pc |-> r.pc, seg |-> r.seg]
  <2>1. ASSUME NEW w, w = [pc |-> w.pc, seg |-> w.seg]
        PROVE  LET q == [w EXCEPT !.pc = p] IN q = [pc |-> p, seg |-> w.seg]
    BY <2>1
  <2>2. r = [pc |-> p, seg |-> sweep[s].seg]
    BY <1>1, <2>1
  <2>. HIDE DEF r
  <2>. QED BY <2>2
<1>3. sweep' = [sweep EXCEPT ![s] = r]
  OBVIOUS
<1>. HIDE DEF r
<1>4. sweep'[s] = r /\ (\A t \in Sweepers : t # s => sweep'[t] = sweep[t])
      /\ sweep' = [t \in Sweepers |-> sweep'[t]]
  BY <1>3 DEF SweepShape
<1>. QED BY <1>2, <1>4 DEF SweepShape

\* What stays while a sweep looks on.
LEMMA LookingStays ==
  ASSUME SegmentsAssumption, Whole, UNCHANGED <<streams, counter, del>>, happened \subseteq happened'
  PROVE  /\ Numbered' /\ StreamsOk' /\ DelsOk' /\ Unopened' /\ (\A k : Lasts(k))
         /\ UNCHANGED record => RecOk' /\ EndsOnce' /\ Firsts'
         /\ UNCHANGED holder => Holds'
<1>1. StreamsOk' /\ (\A k : Lasts(k)) /\ Unopened'
  BY StreamsStay DEF Whole
<1>2. Numbered'
  BY NumberedStays DEF Whole, Numbered
<1>3. DelsOk'
  BY DEF Whole, DelsOk, DelOk, After, Shut, Spared
<1>4. UNCHANGED record => RecOk' /\ EndsOnce' /\ Firsts'
  BY <1>1, RecordStays, OnceStays, FirstsStay DEF Whole
<1>5. UNCHANGED holder => Holds'
  BY HoldsStays DEF Whole, Working
<1>. QED BY <1>1, <1>2, <1>3, <1>4, <1>5

\* A sweep that is not about to close or to record changes nothing that is calm.
LEMMA CalmWhileLooking ==
  ASSUME Calmly, UNCHANGED <<streams, record, del>>, happened \subseteq happened',
         \A t \in Sweepers :
           \/ sweep'[t] = sweep[t] \/ sweep'[t].pc \notin {"close", "record"}
           \/ sweep'[t].pc = "close" /\ streams[sweep'[t].seg].state = "open"
           \/ sweep'[t].pc = "record" /\ "close" \in happened'
  PROVE  Calmly'
BY DEF Calmly, Tame, Spared, Entry

\* A sweep starts: the run has no worker, and no other sweep is under way.
LEMMA FindsKeeps ==
  ASSUME SegmentsAssumption, Whole, Inv', NEW s \in Sweepers,
         SweepLock(s) \/ SweepQueue(s) \/ GiveUp(s)
  PROVE  Whole'
<1>1. PICK p \in {"rest", "queue", "counter"} :
        /\ sweep' = [sweep EXCEPT ![s].pc = p] /\ sweep[s].pc \in {"rest", "queue"}
        /\ UNCHANGED <<streams, counter, record, del>> /\ happened \subseteq happened'
        /\ holder' = holder \/ holder = Nobody
        /\ done => done'
        /\ p # "counter" => UNCHANGED <<holder, jobs>>
        /\ p = "counter" /\ Spared({"overlap"})' =>
             /\ \A d \in Deliveries : Working(d) => holder' # d
             /\ done' \/ (jobs' = 0 /\ \A d \in Deliveries : ~Working(d))
             /\ \A t \in Sweepers : ~Sweeping(t)
  <2>1. CASE SweepLock(s)
    BY <2>1 DEF SweepLock
  <2>2. CASE SweepQueue(s)
    <3>1. /\ UNCHANGED <<streams, counter, record, holder, jobs, done, del>> /\ sweep[s].pc = "queue"
          /\ happened \subseteq happened'
      BY <2>2, Uses DEF SweepQueue
    <3>2. CASE sweep' = [sweep EXCEPT ![s].pc = "rest"]
      BY <3>1, <3>2
    <3>3. ASSUME sweep' = [sweep EXCEPT ![s].pc = "counter"], sweep' # [sweep EXCEPT ![s].pc = "rest"]
          PROVE  Spared({"overlap"})' => Forgotten /\ ~\E t \in Sweepers : Sweeping(t)
      BY <2>2, <3>3 DEF SweepQueue, Use, Faults, Spared
    <3>4. CASE sweep' # [sweep EXCEPT ![s].pc = "rest"]
      <4>1. sweep' = [sweep EXCEPT ![s].pc = "counter"]
        BY <2>2, <3>4 DEF SweepQueue
      <4>. QED BY <3>1, <3>3, <3>4, <4>1 DEF Forgotten
    <3>. QED BY <3>2, <3>4
  <2>3. CASE GiveUp(s)
    <3>1. /\ sweep' = [sweep EXCEPT ![s].pc = "counter"] /\ sweep[s].pc = "rest"
          /\ UNCHANGED <<streams, counter, record, del>> /\ happened \subseteq happened'
          /\ holder = Nobody /\ done' = TRUE /\ jobs > 0 /\ ~done /\ holder' = s
      BY <2>3, Uses DEF GiveUp
    <3>2. ASSUME Spared({"overlap"})' PROVE \A t \in Sweepers : ~Sweeping(t)
      BY <3>1, <3>2 DEF Whole, Seeks, Spared
    <3>3. \A d \in Deliveries : holder' # d
      BY <3>1 DEF SegmentsAssumption
    <3>. QED BY <3>1, <3>2, <3>3
  <2>. QED BY <2>1, <2>2, <2>3
<1>2. /\ SweepShape' /\ sweep'[s].pc = p
      /\ \A t \in Sweepers : t # s => sweep'[t] = sweep[t]
  BY <1>1, SweepPlaces DEF Whole
<1>3. Numbered' /\ StreamsOk' /\ DelsOk' /\ Unopened' /\ RecOk' /\ EndsOnce' /\ Firsts'
  BY <1>1, LookingStays
<1>4. SweepsOk'
  BY <1>1, <1>2 DEF Whole, SweepsOk, SweepOk, Shut, Spared
<1>5. Holds'
  BY <1>1 DEF Whole, Holds, Spared, Working, SegmentsAssumption
<1>6. Seeks'
  <2> SUFFICES ASSUME Spared({"overlap"})' PROVE Seeks'
    BY DEF Seeks
  <2>1. Spared({"overlap"}) /\ Seeks
    BY <1>1 DEF Spared, Whole
  <2>2. CASE p = "counter"
    <3>1. \A t \in Sweepers : Sweeping(t)' => t = s
      BY <1>1, <1>2, <2>2 DEF Sweeping
    <3>. QED BY <1>1, <2>2, <3>1 DEF Seeks, Working
  <2>3. CASE p # "counter"
    <3>1. \A t \in Sweepers : Sweeping(t)' => Sweeping(t)
      BY <1>1, <1>2, <2>3 DEF Sweeping
    <3>. QED BY <1>1, <2>1, <2>3, <3>1 DEF Seeks, Working
  <2>. QED BY <2>2, <2>3
<1>7. Calmly'
  BY <1>1, <1>2, CalmWhileLooking DEF Whole
<1>. QED BY <1>2, <1>3, <1>4, <1>5, <1>6, <1>7 DEF Whole

\* A sweep that is under way stays it.
LEMMA SeeksOn ==
  ASSUME Seeks, NEW s \in Sweepers, Sweeping(s), UNCHANGED <<del, jobs, done, holder>>,
         happened \subseteq happened',
         \A t \in Sweepers : t # s => sweep'[t] = sweep[t]
  PROVE  Seeks'
<1>1. \A t \in Sweepers : Sweeping(t)' => Sweeping(t)
  BY DEF Sweeping
<1>. QED BY <1>1 DEF Seeks, Spared, Working

LEMMA ReadsKeeps ==
  ASSUME SegmentsAssumption, Whole, Inv', NEW s \in Sweepers, SweepReads(s) \/ SweepLooks(s)
  PROVE  Whole'
<1>1. /\ UNCHANGED <<streams, counter, record, holder, jobs, done, del, happened>>
      /\ sweep[s].pc \in {"counter", "look"}
  BY DEF SweepReads, SweepLooks
<1>2. PICK p, n :
        /\ p \in {"over", "look", "close"} /\ SweepShape' /\ sweep'[s].pc = p /\ sweep'[s].seg = n
        /\ \A t \in Sweepers : t # s => sweep'[t] = sweep[t]
        /\ p = "look" => n = counter /\ counter # 0
        /\ p = "close" => n = sweep[s].seg /\ sweep[s].pc = "look" /\ streams[n].state = "open"
  <2>1. CASE SweepReads(s)
    <3>. DEFINE p == IF counter = 0 THEN "over" ELSE "look"
    <3>1. sweep' = [sweep EXCEPT ![s] = [pc |-> p, seg |-> counter]]
      BY <2>1 DEF SweepReads
    <3>. HIDE DEF p
    <3>2. /\ SweepShape' /\ sweep'[s].pc = p /\ sweep'[s].seg = counter
          /\ \A t \in Sweepers : t # s => sweep'[t] = sweep[t]
      BY <3>1, SweepMoves DEF Whole
    <3>. QED BY <3>2 DEF p
  <2>2. CASE SweepLooks(s)
    <3>. DEFINE p == IF streams[sweep[s].seg].state = "open" THEN "close" ELSE "over"
    <3>1. sweep' = [sweep EXCEPT ![s].pc = p] /\ sweep[s].pc = "look"
      BY <2>2 DEF SweepLooks
    <3>. HIDE DEF p
    <3>2. /\ SweepShape' /\ sweep'[s].pc = p /\ sweep'[s].seg = sweep[s].seg
          /\ \A t \in Sweepers : t # s => sweep'[t] = sweep[t]
      BY <3>1, SweepPlaces DEF Whole
    <3>. QED BY <3>1, <3>2 DEF p
  <2>. QED BY <2>1, <2>2
<1>3. Numbered' /\ StreamsOk' /\ DelsOk' /\ Unopened' /\ RecOk' /\ EndsOnce' /\ Firsts' /\ Holds'
  BY <1>1, LookingStays
<1>4. SweepsOk'
  <2>1. counter \in Nat
    BY TookFew DEF Whole
  <2>2. SweepOk(s)'
    BY <1>1, <1>2, <2>1 DEF Whole, SweepsOk, SweepOk, Shut, Spared
  <2>3. \A t \in Sweepers : t # s => SweepOk(t)'
    BY <1>1, <1>2 DEF Whole, SweepsOk, SweepOk, Shut, Spared
  <2>. QED BY <2>2, <2>3 DEF SweepsOk
<1>5. Seeks'
  BY <1>1, <1>2, SeeksOn DEF Whole, Sweeping
<1>6. Calmly'
  BY <1>1, <1>2, CalmWhileLooking DEF Whole
<1>. QED BY <1>2, <1>3, <1>4, <1>5, <1>6 DEF Whole

LEMMA LeavesKeeps ==
  ASSUME SegmentsAssumption, Whole, Inv', NEW s \in Sweepers, SweepLeaves(s) \/ SweepThrows(s)
  PROVE  Whole'
<1>1. PICK p \in {"end", "rest"} :
        /\ UNCHANGED <<streams, counter, record, done, del>> /\ happened \subseteq happened'
        /\ sweep[s].pc \in {"over", "record"} /\ sweep' = [sweep EXCEPT ![s].pc = p]
        /\ holder' = (IF holder = s THEN Nobody ELSE holder)
  BY Uses DEF SweepLeaves, SweepThrows
<1>2. /\ SweepShape' /\ sweep'[s].pc = p
      /\ \A t \in Sweepers : t # s => sweep'[t] = sweep[t]
  BY <1>1, SweepPlaces DEF Whole
<1>3. Numbered' /\ StreamsOk' /\ DelsOk' /\ Unopened' /\ RecOk' /\ EndsOnce' /\ Firsts'
  BY <1>1, LookingStays
<1>4. SweepsOk'
  BY <1>1, <1>2 DEF Whole, SweepsOk, SweepOk, Shut, Spared
<1>5. Holds'
  BY <1>1 DEF Whole, Holds, Spared, Working, SegmentsAssumption
<1>6. Seeks'
  <2>1. Spared({"overlap"})' => \A t \in Sweepers : ~Sweeping(t)'
    BY <1>1, <1>2 DEF Whole, Seeks, Sweeping, Spared
  <2>. QED BY <1>1, <2>1 DEF Seeks, Spared
<1>7. Calmly'
  BY <1>1, <1>2, CalmWhileLooking DEF Whole
<1>. QED BY <1>2, <1>3, <1>4, <1>5, <1>6, <1>7 DEF Whole

\* What the sweep was to close stays open.
LEMMA SweepCloseFailsKeeps ==
  ASSUME SegmentsAssumption, Whole, Inv', NEW s \in Sweepers, SweepCloseFails(s)
  PROVE  Whole'
<1>1. /\ UNCHANGED <<streams, counter, record, holder, jobs, done, del>> /\ sweep[s].pc = "close"
      /\ happened \subseteq happened' /\ "close" \in happened'
      /\ sweep' = [sweep EXCEPT ![s].pc = "record"]
  BY DEF SweepCloseFails, Use, Faults
<1>2. /\ SweepShape' /\ sweep'[s].pc = "record" /\ sweep'[s].seg = sweep[s].seg
      /\ \A t \in Sweepers : t # s => sweep'[t] = sweep[t]
  BY <1>1, SweepPlaces DEF Whole
<1>3. Numbered' /\ StreamsOk' /\ DelsOk' /\ Unopened' /\ RecOk' /\ EndsOnce' /\ Firsts' /\ Holds'
  BY <1>1, LookingStays
<1>4. SweepsOk'
  <2>1. SweepOk(s)'
    BY <1>1, <1>2 DEF Whole, SweepsOk, SweepOk, Shut, Spared
  <2>2. \A t \in Sweepers : t # s => SweepOk(t)'
    BY <1>1, <1>2 DEF Whole, SweepsOk, SweepOk, Shut, Spared
  <2>. QED BY <2>1, <2>2 DEF SweepsOk
<1>5. Seeks'
  BY <1>1, <1>2, SeeksOn DEF Whole, Sweeping
<1>6. Calmly'
  BY <1>1, <1>2, CalmWhileLooking DEF Whole
<1>. QED BY <1>2, <1>3, <1>4, <1>5, <1>6 DEF Whole

\* Nobody works beside a sweep, until a lease lapses or sweeps overlap.
LEMMA NobodyWorks ==
  ASSUME Whole, Tame, NEW s \in Sweepers, Sweeping(s)
  PROVE  /\ \A d \in Deliveries : ~Working(d)
         /\ \A t \in Sweepers : Sweeping(t) => t = s
BY DEF Whole, Tame, Spared, Holds, Seeks

LEMMA ClosesKeeps ==
  ASSUME SegmentsAssumption, Whole, Inv', NEW s \in Sweepers, SweepCloses(s)
  PROVE  Whole'
<1>. DEFINE n == sweep[s].seg
<1>1. /\ UNCHANGED <<counter, record, holder, jobs, done, del, happened>> /\ sweep[s].pc = "close"
      /\ streams' = [streams EXCEPT ![n] = Closed(@, Mark("RUN_LOST", Main))]
      /\ sweep' = [sweep EXCEPT ![s].pc = "record"]
  BY DEF SweepCloses
<1>2. /\ Shape /\ StreamsOk /\ Unopened /\ Numbered /\ DelsOk
      /\ n \in 1..counter /\ n \in Numbers /\ streams[n].state # "absent"
  <2>1. Shape /\ StreamsOk /\ Unopened /\ Numbered /\ DelsOk /\ SweepOk(s)
    BY DEF Whole, Inv, SweepsOk
  <2>. QED BY <1>1, <2>1, TookFew DEF SweepOk, Shut, Spared
<1>3. /\ SweepShape' /\ sweep'[s].pc = "record" /\ sweep'[s].seg = n
      /\ \A t \in Sweepers : t # s => sweep'[t] = sweep[t]
  BY <1>1, SweepPlaces DEF Whole
<1>4. /\ StreamsOk' /\ (\A k : Lasts(k)) /\ Unopened'
      /\ streams'[n].state = "closed"
      /\ \A k \in Numbers : k # n => streams'[k] = streams[k]
      /\ \A k \in Numbers : Begun(k) => Begun(k)'
  <2>1. "RUN_LOST" \in Ends
    BY DEF Ends
  <2>. HIDE DEF n
  <2>. QED BY <1>1, <1>2, <2>1, ClosingGrows
<1>5. Numbered'
  BY <1>1, <1>2, NumberedStays DEF Numbered
<1>6. \A d \in Deliveries : del[d].pc \in Inner \cup {"open", "closed", "recorded"} => del[d].seg \in Numbers
  BY <1>2, TookFew DEF Numbered
<1>7. DelsOk'
  BY <1>1, <1>2, <1>4, <1>6 DEF DelsOk, DelOk, Lasts, After, Shut, Spared
<1>8. SweepsOk'
  <2>1. SweepOk(s)'
    BY <1>1, <1>2, <1>3, <1>4 DEF SweepOk, Shut, Spared
  <2>2. ASSUME NEW t \in Sweepers, t # s PROVE SweepOk(t)'
    <3>1. SweepOk(t) /\ sweep'[t] = sweep[t]
      BY <1>3, <2>2 DEF Whole, SweepsOk
    <3>2. sweep[t].pc \in {"close", "record"} => sweep[t].seg \in Numbers
      BY <1>2, <3>1, TookFew DEF SweepOk, Shut, Spared
    <3>. QED BY <1>1, <1>4, <3>1, <3>2 DEF SweepOk, Lasts, Shut, Spared
  <2>. QED BY <2>1, <2>2 DEF SweepsOk
<1>9. RecOk' /\ EndsOnce'
  BY <1>1, <1>4, RecordStays, OnceStays DEF Whole
<1>10. Holds'
  BY <1>1, HoldsStays DEF Whole, Working
<1>11. Seeks'
  BY <1>1, <1>3, SeeksOn DEF Whole, Sweeping
<1>12. Calmly'
  <2> SUFFICES ASSUME Tame' PROVE Calmly'
    BY DEF Calmly
  <2>1. Tame /\ Calmly /\ Sweeping(s)
    BY <1>1 DEF Tame, Spared, Whole, Sweeping
  <2>2. (\A d \in Deliveries : ~Working(d)) /\ \A t \in Sweepers : Sweeping(t) => t = s
    BY <2>1, NobodyWorks
  <2>3. \A d \in Deliveries : del[d].pc \notin Inner \cup {"closed"}
    BY <2>2 DEF Working, Inner
  <2>4. \A t \in Sweepers : t # s => sweep[t].pc \notin {"close", "record"}
    BY <2>2 DEF Sweeping
  <2>5. Spared({"close"}) => ~Entry("RUN_ENDED", n)
    <3>1. streams[n].state = "open"
      BY <1>1, <2>1 DEF Calmly
    <3>. QED BY <3>1 DEF Whole, RecOk, Entry, Shut
  <2>. QED BY <1>1, <1>3, <2>3, <2>4, <2>5 DEF Calmly, Entry, Spared
<1>13. Firsts'
  <2> SUFFICES ASSUME Spared({"append", "lapse", "overlap"})' PROVE Firsts'
    BY DEF Firsts
  <2>1. Firsts /\ Tame /\ Sweeping(s) /\ Spared({"append", "lapse", "overlap"})
    BY <1>1 DEF Spared, Whole, Tame, Sweeping
  <2>2. \A d \in Deliveries : ~Working(d)
    BY <2>1, NobodyWorks
  <2>3. \A d \in Deliveries : del[d].pc # "started"
    BY <2>2 DEF Working
  <2>4. \A k : Entry("RUN_STARTED", k)' => Entry("RUN_STARTED", k)
    BY <1>1 DEF Entry
  <2>. QED BY <1>1, <1>4, <2>1, <2>3, <2>4 DEF Firsts
<1>. QED BY <1>3, <1>4, <1>5, <1>7, <1>8, <1>9, <1>10, <1>11, <1>12, <1>13 DEF Whole

LEMMA RecordsKeeps ==
  ASSUME SegmentsAssumption, Whole, Inv', NEW s \in Sweepers, SweepRecords(s)
  PROVE  Whole'
<1>. DEFINE n == sweep[s].seg
<1>1. /\ UNCHANGED <<streams, counter, holder, jobs, done, del, happened>> /\ sweep[s].pc = "record"
      /\ record' = Append(record, [type |-> "RUN_ENDED", seg |-> n])
      /\ sweep' = [sweep EXCEPT ![s].pc = "over"]
  BY DEF SweepRecords
<1>2. /\ SweepShape' /\ sweep'[s].pc = "over"
      /\ \A t \in Sweepers : t # s => sweep'[t] = sweep[t]
  BY <1>1, SweepPlaces DEF Whole
<1>3. /\ n \in Numbers /\ streams[n].state # "absent" /\ Shut(n)
      /\ Tame /\ Spared({"close"}) => ~Entry("RUN_ENDED", n)
  BY <1>1, TookFew DEF Whole, SweepsOk, SweepOk, Calmly
<1>4. Numbered' /\ StreamsOk' /\ DelsOk' /\ Unopened' /\ Holds'
  BY <1>1, LookingStays
<1>5. /\ RecOk' /\ EndsOnce'
      /\ \A u, k : Entry(u, k)' => Entry(u, k) \/ (u = "RUN_ENDED" /\ k = n)
  <2>. HIDE DEF n
  <2>. QED BY <1>1, <1>3, RecordGrows DEF Whole
<1>6. SweepsOk'
  BY <1>1, <1>2 DEF Whole, SweepsOk, SweepOk, Shut, Spared
<1>7. Seeks'
  BY <1>1, <1>2, SeeksOn DEF Whole, Sweeping
<1>8. Calmly'
  <2> SUFFICES ASSUME Tame' PROVE Calmly'
    BY DEF Calmly
  <2>1. Tame /\ Sweeping(s)
    BY <1>1 DEF Tame, Spared, Sweeping
  <2>2. (\A d \in Deliveries : ~Working(d)) /\ \A t \in Sweepers : Sweeping(t) => t = s
    BY <2>1, NobodyWorks
  <2>3. \A d \in Deliveries : del[d].pc \notin Inner \cup {"closed"}
    BY <2>2 DEF Working, Inner
  <2>4. \A t \in Sweepers : sweep'[t].pc \notin {"close", "record"}
    BY <1>2, <2>2 DEF Sweeping
  <2>. QED BY <1>1, <2>3, <2>4 DEF Calmly
<1>9. Firsts'
  <2>1. \A k : Entry("RUN_STARTED", k)' => Entry("RUN_STARTED", k)
    BY <1>5
  <2>2. \A k : Begun(k)' <=> Begun(k)
    BY <1>1 DEF Begun
  <2>. QED BY <1>1, <2>1, <2>2 DEF Whole, Firsts, Spared, Begun
<1>. QED BY <1>2, <1>4, <1>5, <1>6, <1>7, <1>8, <1>9 DEF Whole

---------------------------------------------------------------------------
(* What follows for every behaviour *)

LEMMA InitWhole == ASSUME SegmentsAssumption, Init PROVE Whole
<1>1. Inv
  BY InitInv
<1>2. SweepShape
  BY DEF Init, SweepShape
<1>3. \A d \in Deliveries : /\ del[d].seg = 0 /\ del[d].pc = "idle" /\ del[d].active = FALSE
                            /\ del[d].buf = <<>> /\ del[d].flights = <<>>
  BY DEF Init, NewDelivery
<1>4. \A n \in Numbers : streams[n].state = "absent" /\ streams[n].items = <<>>
  BY DEF Init, NoStream
<1>5. \A s \in Sweepers : sweep[s].pc = "rest"
  BY DEF Init
<1>6. Numbered
  <2>1. Took = {}
    BY <1>3 DEF Took
  <2>2. Cardinality(Took) = 0
    BY <2>1, FS_EmptySet
  <2>. QED BY <1>3, <2>2 DEF Init, Numbered, Inner
<1>7. StreamsOk /\ Unopened
  BY <1>4, EmptySeq DEF StreamsOk, StreamOk, Unopened
<1>8. DelsOk
  BY <1>3, EmptySeq, LongSeq DEF DelsOk, DelOk, Sound, Inner, After, Shut, Spared
<1>9. SweepsOk
  BY <1>5 DEF SweepsOk, SweepOk, Shut, Spared
<1>10. RecOk /\ EndsOnce /\ Firsts /\ Calmly
  <2>1. record = <<>> /\ DOMAIN record = {}
    BY DEF Init
  <2>. QED BY <1>3, <1>5, <2>1, EmptySeq DEF RecOk, EndsOnce, Firsts, Calmly, Entry, Inner, Shut
<1>11. Holds /\ Seeks
  BY <1>3, <1>5 DEF Holds, Seeks, Working, Sweeping
<1>. QED BY <1>1, <1>2, <1>6, <1>7, <1>8, <1>9, <1>10, <1>11 DEF Whole

LEMMA PortsWhole ==
  ASSUME SegmentsAssumption, Whole, Inv', NEW d \in Deliveries, Progress(d) \/ Fault(d)
  PROVE  Whole'
<1>1. IsDelivery(del[d]) /\ Sound(del[d]) /\ DelOk(d)
  BY DEF Whole, Inv, Shape, DelsOk, DelOk, After, Shut, Spared
<1>2. ASSUME NEW a \in Agents, Work(d, a) PROVE Whole'
  BY <1>1, <1>2, WorkMoves, MovingKeeps
<1>3. ASSUME NEW s \in Subs, Nested(d, s) PROVE Whole'
  BY <1>1, <1>3, NestedMoves, MovingKeeps
<1>4. CASE Ending(d)
  <2>1. CASE del[d].pc = "work" /\ Moving(d, "close")
    BY <2>1, MovingKeeps DEF Inner
  <2>2. CASE del[d].pc = "dark" /\ Moving(d, "left")
    BY <2>2, MovingKeeps
  <2>. QED BY <1>1, <1>4, <2>1, <2>2, EndingMoves
<1>5. CASE FlushTimer(d)
  BY <1>1, <1>5, FlushMoves, MovingKeeps DEF DelOk, After, Shut, Spared
<1>6. CASE CloseBlocks(d) \/ CloseFlush(d)
  BY <1>1, <1>6, ClosingMoves, MovingKeeps DEF Inner
<1>7. CASE Ports(d) /\ ~(FlushTimer(d) \/ CloseBlocks(d) \/ CloseFlush(d))
  BY <1>7, AcquireKeeps, TakeNumberKeeps, OpenStreamKeeps, RecordStartKeeps, AppendBatchKeeps,
     CloseStreamKeeps, RecordEndKeeps, LeavingKeeps, LeaseKeeps DEF Ports
<1>8. CASE Fault(d)
  BY <1>8, LeavingKeeps, CloseFailsKeeps, DieKeeps, LeaseKeeps DEF Fault
<1>. QED BY <1>2, <1>3, <1>4, <1>5, <1>6, <1>7, <1>8 DEF Progress

LEMMA StepWhole == ASSUME SegmentsAssumption, Whole, [Next]_vars PROVE Whole'
<1>1. Inv'
  BY StepInv DEF Whole
<1>2. ASSUME NEW d \in Deliveries, Progress(d) \/ Fault(d) PROVE Whole'
  BY <1>1, <1>2, PortsWhole
<1>3. ASSUME NEW s \in Sweepers, Sweep(s) \/ SweepFault(s) \/ GiveUp(s) PROVE Whole'
  BY <1>1, <1>3, FindsKeeps, ReadsKeeps, ClosesKeeps, SweepCloseFailsKeeps, RecordsKeeps,
     LeavesKeeps DEF Sweep, SweepFault
<1>4. CASE UNCHANGED vars \/ Stop
  <2>1. UNCHANGED <<streams, counter, record, holder, jobs, del, sweep>> /\ (done => done')
        /\ happened \subseteq happened'
    BY <1>4, Uses DEF vars, Stop
  <2>2. Numbered' /\ StreamsOk' /\ DelsOk' /\ Unopened' /\ RecOk' /\ EndsOnce' /\ Firsts' /\ Holds'
        /\ \A k : Lasts(k)
    BY <2>1, LookingStays
  <2>3. SweepShape' /\ SweepsOk' /\ Seeks' /\ Calmly'
    BY <2>1, <2>2, SweepShapeStays, SweepsStay, SeeksStays, CalmlyStays DEF Whole, Working
  <2>. QED BY <1>1, <2>2, <2>3 DEF Whole
<1>. QED BY <1>2, <1>3, <1>4 DEF Next

LEMMA WholeFollows == ASSUME SegmentsAssumption, Whole PROVE RecordFollowsStream
<1>1. EndsOnce
  BY DEF Whole
<1>2. ASSUME NEW i \in DOMAIN record
      PROVE  LET s == streams[record[i].seg] IN
             CASE record[i].type = "RUN_STARTED" ->
                    s.state # "absent" /\ (Spared({"append", "lapse", "overlap"}) =>
                                                s.items # <<>> /\ s.items[1].type = "RUN_STARTED")
               [] record[i].type = "RUN_ENDED" ->
                    Spared({"close"}) => s.state = "closed" /\ s.items[Len(s.items)].type \in Ends
  <2>1. PICK t \in {"RUN_STARTED", "RUN_ENDED"}, n \in Numbers :
          /\ record[i] = [type |-> t, seg |-> n]
          /\ streams[n].state # "absent"
          /\ t = "RUN_ENDED" => Shut(n)
    BY DEF Whole, RecOk
  <2>2. record[i].type = t /\ record[i].seg = n /\ Entry(t, n)
    BY <2>1 DEF Entry
  <2>3. t = "RUN_STARTED" /\ Spared({"append", "lapse", "overlap"}) => Begun(n)
    BY <2>2 DEF Whole, Firsts
  <2>4. t = "RUN_ENDED" /\ Spared({"close"}) =>
          streams[n].state = "closed" /\ streams[n].items[Len(streams[n].items)].type \in Ends
    BY <2>1 DEF Whole, StreamsOk, StreamOk, Shut
  <2>5. CASE t = "RUN_STARTED"
    BY <2>1, <2>2, <2>3, <2>5 DEF Begun
  <2>6. CASE t = "RUN_ENDED"
    BY <2>1, <2>2, <2>4, <2>6
  <2>. QED BY <2>5, <2>6
<1>. QED BY <1>1, <1>2 DEF RecordFollowsStream

\* The thread record says of a stream what the stream says of itself: RUN_STARTED only of
\* one that begins with it, RUN_ENDED once and only of one that holds its end, under the
\* property's conditions (openSegment, SegmentStream.close, closeLostSegment), for any number
\* of deliveries, sweeps and agents.
THEOREM RecordTellsTruth == Spec => []RecordFollowsStream
<1>1. Init => Whole
  BY InitWhole, SegmentsAssumption
<1>2. Whole /\ [Next]_vars => Whole'
  BY StepWhole, SegmentsAssumption
<1>3. Whole => RecordFollowsStream
  BY WholeFollows, SegmentsAssumption
<1>. QED BY <1>1, <1>2, <1>3, PTL DEF Spec

\* The sweep closes no stream under the worker that holds the lock: it sets out only when
\* the lock was free and the queue has no job, and nobody gets the lock until it is through
\* (reclaim.ts reclaimLost, closeLostSegment).
THEOREM SweepSparesTheLiving == Spec => NeverCutsLive
<1>. DEFINE Kept == \A s \in Sweepers :
                      SweepCloses(s) /\ Spared({"overlap"}) =>
                        ~\E d \in Deliveries : holder = d /\ Working(d) /\ del[d].seg = sweep[s].seg
<1>1. Init => Whole
  BY InitWhole, SegmentsAssumption
<1>2. Whole /\ [Next]_vars => Whole'
  BY StepWhole, SegmentsAssumption
<1>3. Whole /\ [Next]_vars => [Kept]_vars
  <2> SUFFICES ASSUME Whole, NEW s \in Sweepers, SweepCloses(s), Spared({"overlap"})
               PROVE  ~\E d \in Deliveries : holder = d /\ Working(d) /\ del[d].seg = sweep[s].seg
    OBVIOUS
  <2>1. Sweeping(s) /\ Seeks
    BY DEF Sweeping, SweepCloses, Whole
  <2>. QED BY <2>1 DEF Seeks
<1>4. Spec => [][Kept]_vars
  BY <1>1, <1>2, <1>3, PTL DEF Spec
<1>. QED BY <1>4 DEF NeverCutsLive
===========================================================================
