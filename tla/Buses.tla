-------------------------------- MODULE Buses --------------------------------
\* The subscriptions one process holds on a thread's events: MemoryBus
\* (adapters/memory.ts), RedisBus (adapters/redis.ts) and FlowBus (adapters/flow.ts).
\* RedisBus and FlowBus share one channel among the thread's subscribers: the first opens
\* it, the last closes it. UpstashBus hands every subscription to the application.
EXTENDS Naturals, FiniteSets

CONSTANTS
  BusKinds,       \* the adapters to check
  Handlers,       \* the subscribers
  MaxChannels,    \* bounds the channels opened
  BusOverlaps     \* RedisBus may be called while a (un)subscribe of it is under way

VARIABLES
  bus,        \* the adapter
  current,    \* the channel the adapter's map names, 0 for none
  members,    \* per channel, the handlers in its set
  wire,       \* per channel: "unused", "opening", "open", "failed" or "closed"
  timedOut,   \* per channel, whether FlowBus's timer let its subscribers go on
  stage,      \* per handler: "out", "opening", "waiting", "in", "leaving" or "refused"
  joined      \* per handler, the channel it joined

busVars == <<bus, current, members, wire, timedOut, stage, joined>>
Channels == 1..MaxChannels

BusInit ==
  /\ bus \in BusKinds
  /\ current = 0
  /\ members = [k \in Channels |-> {}]
  /\ wire = [k \in Channels |-> "unused"]
  /\ timedOut = {}
  /\ stage = [h \in Handlers |-> "out"]
  /\ joined = [h \in Handlers |-> 0]

Moves(h, s) == stage' = [stage EXCEPT ![h] = s]
Enters(h, k) == members' = [members EXCEPT ![k] = @ \cup {h}]
Quits(h, k) == members' = [members EXCEPT ![k] = @ \ {h}]
Wires(k, w) == wire' = [wire EXCEPT ![k] = w]
Unused(k) == wire[k] = "unused" /\ \A j \in Channels : j < k => wire[j] # "unused"

Quiet == BusOverlaps \/ \A h \in Handlers : stage[h] \notin {"opening", "leaving"}

\* MemoryBus.subscribe: joins the thread's set, or makes one.
MemoryJoins(h) ==
  /\ bus = "memory" /\ stage[h] \in {"out", "refused"}
  /\ \E k \in Channels :
       /\ IF current = 0 THEN Unused(k) /\ Wires(k, "open") ELSE k = current /\ UNCHANGED wire
       /\ current' = k /\ Enters(h, k)
       /\ joined' = [joined EXCEPT ![h] = k]
  /\ Moves(h, "in")
  /\ UNCHANGED <<bus, timedOut>>

\* Who leaves last takes the set away, if it is still the thread's.
MemoryLeaves(h) ==
  /\ bus = "memory" /\ stage[h] = "in"
  /\ LET k == joined[h] last == members[k] = {h}
     IN  /\ Quits(h, k)
         /\ current' = IF last /\ current = k THEN 0 ELSE current
         /\ wire' = IF last THEN [wire EXCEPT ![k] = "closed"] ELSE wire
  /\ Moves(h, "out")
  /\ UNCHANGED <<bus, timedOut, joined>>

\* RedisBus.subscribe, once the shared connection is there: the first subscriber puts an
\* empty set in the map and awaits SUBSCRIBE; a later one is in at once.
RedisOpens(h) ==
  /\ bus = "redis" /\ stage[h] \in {"out", "refused"} /\ current = 0 /\ Quiet
  /\ \E k \in Channels :
       /\ Unused(k) /\ Wires(k, "opening")
       /\ current' = k
       /\ joined' = [joined EXCEPT ![h] = k]
  /\ Moves(h, "opening")
  /\ UNCHANGED <<bus, members, timedOut>>

RedisJoins(h) ==
  /\ bus = "redis" /\ stage[h] \in {"out", "refused"} /\ current # 0 /\ Quiet
  /\ Enters(h, current)
  /\ joined' = [joined EXCEPT ![h] = current]
  /\ Moves(h, "in")
  /\ UNCHANGED <<bus, current, wire, timedOut>>

\* SUBSCRIBE answers: the handler enters the set it made; or it fails, and the map forgets
\* the thread.
RedisOpened(h) ==
  /\ bus = "redis" /\ stage[h] = "opening"
  /\ Enters(h, joined[h])
  /\ wire' = IF wire[joined[h]] = "opening" THEN [wire EXCEPT ![joined[h]] = "open"] ELSE wire
  /\ Moves(h, "in")
  /\ UNCHANGED <<bus, current, timedOut, joined>>

RedisFails(h) ==
  /\ bus = "redis" /\ stage[h] = "opening"
  /\ current' = 0
  /\ Wires(joined[h], "failed")
  /\ Moves(h, "refused")
  /\ UNCHANGED <<bus, members, timedOut, joined>>

\* Undoing a subscription looks the set up again. The last to leave awaits UNSUBSCRIBE,
\* which takes every listener of the channel off the connection.
RedisLeaves(h) ==
  /\ bus = "redis" /\ stage[h] = "in" /\ Quiet
  /\ IF current = 0 THEN UNCHANGED <<members, current>> /\ Moves(h, "out")
     ELSE /\ Quits(h, current)
          /\ IF members[current] \subseteq {h} THEN current' = 0 /\ Moves(h, "leaving")
             ELSE UNCHANGED current /\ Moves(h, "out")
  /\ UNCHANGED <<bus, wire, timedOut, joined>>

RedisLeft(h) ==
  /\ bus = "redis" /\ stage[h] = "leaving"
  /\ wire' = [k \in Channels |-> IF wire[k] \in {"opening", "open"} THEN "closed" ELSE wire[k]]
  /\ Moves(h, "out")
  /\ UNCHANGED <<bus, current, members, timedOut, joined>>

\* FlowBus.subscribe: enters the thread's channel, or opens one, and waits for its socket.
FlowJoins(h) ==
  /\ bus = "flow" /\ stage[h] \in {"out", "refused"}
  /\ \E k \in Channels :
       /\ IF current = 0 THEN Unused(k) /\ Wires(k, "opening") ELSE k = current /\ UNCHANGED wire
       /\ current' = k /\ Enters(h, k)
       /\ joined' = [joined EXCEPT ![h] = k]
  /\ Moves(h, "waiting")
  /\ UNCHANGED <<bus, timedOut>>

FlowOpened(k) ==
  /\ bus = "flow" /\ wire[k] = "opening" /\ Wires(k, "open")
  /\ UNCHANGED <<bus, current, members, timedOut, stage, joined>>

\* The timer lets the subscribers go on before the socket is open.
FlowTimesOut(k) ==
  /\ bus = "flow" /\ wire[k] = "opening" /\ timedOut' = timedOut \cup {k}
  /\ UNCHANGED <<bus, current, members, wire, stage, joined>>

\* No socket can be started: that is known long before the timer.
FlowFailed(k) ==
  /\ bus = "flow" /\ wire[k] = "opening" /\ k \notin timedOut
  /\ Wires(k, "failed")
  /\ current' = IF current = k THEN 0 ELSE current
  /\ UNCHANGED <<bus, members, timedOut, stage, joined>>

FlowGoesOn(h) ==
  /\ bus = "flow" /\ stage[h] = "waiting"
  /\ LET k == joined[h]
     IN  \/ wire[k] = "failed" /\ Quits(h, k) /\ Moves(h, "refused")
         \/ /\ wire[k] \in {"open", "closed"} \/ (wire[k] = "opening" /\ k \in timedOut)
            /\ UNCHANGED members /\ Moves(h, "in")
  /\ UNCHANGED <<bus, current, wire, timedOut, joined>>

\* Who closes the channel: the last of its own handlers; with this mutant, whoever leaves
\* while nobody else has got through.
LastIn(h, k) == \A g \in members[k] \ {h} : stage[g] # "in"                  \* mutant
Last(h, k) == members[k] \subseteq {h}

FlowLeaves(h) ==
  /\ bus = "flow" /\ stage[h] = "in"
  /\ LET k == joined[h] closes == Last(h, k) /\ current = k
     IN  /\ Quits(h, k)
         /\ current' = IF closes THEN 0 ELSE current
         /\ wire' = IF closes THEN [wire EXCEPT ![k] = "closed"] ELSE wire
  /\ Moves(h, "out")
  /\ UNCHANGED <<bus, timedOut, joined>>

BusNext ==
  \/ \E h \in Handlers :
       \/ MemoryJoins(h) \/ MemoryLeaves(h)
       \/ RedisOpens(h) \/ RedisJoins(h) \/ RedisOpened(h) \/ RedisFails(h)
       \/ RedisLeaves(h) \/ RedisLeft(h)
       \/ FlowJoins(h) \/ FlowGoesOn(h) \/ FlowLeaves(h)
  \/ \E k \in Channels : FlowOpened(k) \/ FlowTimesOut(k) \/ FlowFailed(k)

-----------------------------------------------------------------------------
\* A subscriber that was told it is subscribed, and has not undone it, is in the set the
\* thread's channel delivers to, and that channel is open or opening (ports/bus.ts,
\* subscribe); and a channel is kept for somebody. RedisBus does not keep it when calls
\* overlap: see BusOverlaps.
SubscribersAreHeard ==
  /\ \A h \in Handlers : stage[h] = "in" =>
       /\ joined[h] = current /\ h \in members[current]
       /\ wire[current] \in {"opening", "open"}
  /\ \A k \in Channels : wire[k] \in {"opening", "open"} =>
       \/ members[k] # {}
       \/ \E h \in Handlers : joined[h] = k /\ stage[h] \in {"opening", "leaving"}
=============================================================================
