---------------------------- MODULE ThreadCards ----------------------------
(***************************************************************************)
(* The cards of a tab: useAgentThread shows each tool call with how it     *)
(* went, and each nested run with what it said and how it stands.  A card  *)
(* is made from the stream while a run is followed and from the saved      *)
(* messages and run records when the thread is read, and both at once.     *)
(*                                                                         *)
(* One run: each step of the main agent makes a call, of a tool, of a tool *)
(* that waits for a person, or of spawnSubagent, whose nested run may wait *)
(* for a person itself.  The thread's text is AgentThread's, what the      *)
(* server does to its runs NestedRuns'.                                    *)
(***************************************************************************)
EXTENDS Naturals, FiniteSets, SequencesExt

CONSTANTS
  MaxCalls,  \* calls of the main agent
  MaxReads,  \* times the tab reads the thread; nothing of one outlives the next
  MaxFails   \* steps of the main agent that fail

VARIABLES
  job,    \* the run: how far it is, its last call, what that came to
  saved,  \* the thread's messages: calls, results, what the nested run said
  nested, \* the nested run: its record, its steps, its approval
  asks,   \* who asked a person, in the thread's record
  out,    \* the latest segment's stream
  frames, \* what is on its way to the tab, in the order it was sent
  screen, \* the tab
  slips   \* what the tab is known not to follow, until it reads the thread again

cardVars == <<job, saved, nested, asks, out, frames, screen, slips>>

\* A result is "ok", "denied" by a person or an end, the "error object" a chunk carries for
\* a call whose tool threw, or the text that is left for the model in its place.
ThrewText == "error text"

Item(t, c, v) == [type |-> t, c |-> c, v |-> v]
Turn(t, c, v) == [type |-> t, c |-> c, v |-> v]
NoScreen == [on |-> FALSE, reading |-> "no", snap |-> <<>>, entries |-> <<>>, calls |-> {}, results |-> {},
             subs |-> <<>>, reads |-> 0]

CardInit ==
  /\ job = [pc |-> "model", n |-> 0, kind |-> "tool", form |-> "ok", fails |-> 0, asked |-> "no"]
  /\ saved = <<>> /\ asks = <<>> /\ frames = <<>> /\ slips = {}
  /\ nested = [state |-> "NONE", said |-> 0, saying |-> FALSE, asked |-> FALSE, open |-> FALSE]
  /\ out = <<Item("RUN_STARTED", 0, "")>>
  /\ screen = NoScreen

---------------------------------------------------------------------------
(* The run *)

\* Frames reach a tab that follows the thread.
Sends(items) ==
  /\ out' = out \o SelectSeq(items, LAMBDA i : i.type # "STATE_CHANGE")
  /\ frames' = IF screen.on THEN frames \o items ELSE frames

Quiet == UNCHANGED <<asks, screen, slips>>

\* A step makes a call, or the run is over.
Calls ==
  /\ job.pc = "model" /\ job.n < MaxCalls
  /\ \E k \in {"tool", "ask"} \cup (IF nested.state = "NONE" THEN {"spawn"} ELSE {}) :
       job' = [job EXCEPT !.pc = IF k = "ask" THEN "save" ELSE k, !.n = @ + 1, !.kind = k, !.form = "ok",
                          !.asked = IF k = "ask" THEN "main" ELSE "no"]
  /\ Sends(<<Item("TOOL_CALL_END", job.n + 1, "")>>)
  /\ UNCHANGED <<saved, nested>> /\ Quiet

RunEnds ==
  /\ job.pc = "model"
  /\ job' = [job EXCEPT !.pc = "ended"]
  /\ UNCHANGED <<saved, nested, out, frames>> /\ Quiet

\* chunkPayload: a call whose tool threw is sent as an object that says so.
Returns ==
  /\ job.pc = "tool"
  /\ \E form \in {"ok", ThrewText} :
       /\ job' = [job EXCEPT !.pc = "save", !.form = form]
       /\ Sends(<<Item("TOOL_CALL_RESULT", job.n, IF form = ThrewText THEN "error object" ELSE form)>>)
  /\ UNCHANGED <<saved, nested>> /\ Quiet

Spawns ==
  /\ job.pc = "spawn"
  /\ job' = [job EXCEPT !.pc = "nested"]
  /\ nested' = [nested EXCEPT !.state = "RUNNING"]
  /\ Sends(<<Item("SUBAGENT_STARTED", 0, "")>>)
  /\ UNCHANGED saved /\ Quiet

\* The nested run's text, its save, and its step's end.
NestedSays ==
  /\ job.pc = "nested" /\ ~nested.saying
  /\ nested' = [nested EXCEPT !.saying = TRUE]
  /\ Sends(<<Item("SUBAGENT_EVENT", nested.said + 1, "")>>)
  /\ UNCHANGED <<job, saved>> /\ Quiet

NestedSaves ==
  /\ job.pc = "nested" /\ nested.saying
  /\ job' = [job EXCEPT !.pc = "nested saved"]
  /\ saved' = Append(saved, Turn("said", nested.said + 1, ""))
  /\ UNCHANGED <<nested, out, frames>> /\ Quiet

NestedStepEnds ==
  /\ job.pc = "nested saved"
  /\ job' = [job EXCEPT !.pc = "nested next"]
  /\ nested' = [nested EXCEPT !.said = @ + 1, !.saying = FALSE]
  /\ Sends(<<Item("STEP_FINISHED", 1, "")>>)
  /\ UNCHANGED saved /\ Quiet

\* It asks a person (its caller gets the park's marker, which is neither sent nor saved),
\* goes on, or is done.
NestedAsks ==
  /\ job.pc = "nested next" /\ ~nested.asked
  /\ job' = [job EXCEPT !.pc = "save", !.asked = "nested"]
  /\ nested' = [nested EXCEPT !.asked = TRUE]
  /\ UNCHANGED <<saved, out, frames>> /\ Quiet

NestedGoesOn ==
  /\ job.pc = "nested next" /\ nested.said < 2
  /\ job' = [job EXCEPT !.pc = "nested"]
  /\ UNCHANGED <<saved, nested, out, frames>> /\ Quiet

\* closeNested, then the event.
NestedCloses ==
  /\ \/ job.pc = "nested next" /\ nested' = [nested EXCEPT !.state = "COMPLETED"]
     \/ job.pc = "nested" /\ nested' = [nested EXCEPT !.state = "FAILED"]
  /\ job' = [job EXCEPT !.pc = "nested closed", !.form = IF nested'.state = "FAILED" THEN "error object" ELSE "ok"]
  /\ UNCHANGED <<saved, out, frames>> /\ Quiet

NestedEnds ==
  /\ job.pc = "nested closed"
  /\ job' = [job EXCEPT !.pc = IF job.asked = "nested" THEN "hand up" ELSE "hand"]
  /\ Sends(<<Item("SUBAGENT_FINISHED", 0, nested.state)>>)
  /\ UNCHANGED <<saved, nested>> /\ Quiet

\* What it came to is its call's result: sent, then saved with the step it ran in; or, for
\* one that was resumed, saved on its own and then sent (streamToolResult).
Hands ==
  /\ job.pc = "hand"
  /\ job' = [job EXCEPT !.pc = "save"]
  /\ Sends(<<Item("TOOL_CALL_RESULT", job.n, job.form)>>)
  /\ UNCHANGED <<saved, nested>> /\ Quiet

HandsUp ==
  /\ job.pc = "hand up"
  /\ job' = [job EXCEPT !.pc = "result saved"]
  /\ saved' = Append(saved, Turn("result", job.n, job.form))
  /\ UNCHANGED <<nested, out, frames>> /\ Quiet

ResultGoesOut ==
  /\ job.pc = "result saved"
  /\ job' = [job EXCEPT !.pc = "model"]
  /\ Sends(<<Item("TOOL_CALL_RESULT", job.n, job.form)>>)
  /\ UNCHANGED <<saved, nested>> /\ Quiet

\* The step is saved, a call that waits without a result.
Saves ==
  /\ job.pc = "save"
  /\ job' = [job EXCEPT !.pc = "saved"]
  /\ saved' = saved \o <<Turn("call", job.n, "")>>
                    \o (IF job.asked = "no" THEN <<Turn("result", job.n, job.form)>> ELSE <<>>)
  /\ UNCHANGED <<nested, out, frames>> /\ Quiet

StepEnds ==
  /\ job.pc = "saved"
  /\ job' = [job EXCEPT !.pc = IF job.asked = "no" THEN "model" ELSE "park"]
  /\ Sends(<<Item("STEP_FINISHED", 0, "")>>)
  /\ UNCHANGED <<saved, nested>> /\ Quiet

\* A nested run's step ended in a step of the main agent that failed.
KeptIn(items) ==
  \E i, j \in DOMAIN items :
    /\ i < j /\ items[i] = Item("STEP_FINISHED", 1, "") /\ items[j].type = "RUN_ERROR"
    /\ Item("STEP_FINISHED", 0, "") \notin Range(SubSeq(items, i, j))

\* The model's call fails; nothing of the step was saved, and a retry opens a new stream.
\* A nested run that had asked is left as it is.
StepFails ==
  /\ job.pc = "save" /\ job.fails < MaxFails
  /\ job' = [job EXCEPT !.pc = "retry", !.fails = @ + 1, !.asked = "no"]
  /\ Sends(<<Item("RUN_ERROR", 0, "")>>)
  /\ slips' = IF KeptIn(out') THEN slips \cup {"kept"} ELSE slips
  /\ UNCHANGED <<saved, nested, asks, screen>>

NewSegment(pc) ==
  /\ job' = [job EXCEPT !.pc = pc]
  /\ out' = <<Item("RUN_STARTED", 0, "")>>
  /\ frames' = IF screen.on THEN frames \o <<Item("STATE_CHANGE", 0, "RUNNING"), Item("RUN_STARTED", 0, "")>> ELSE frames

Retries == job.pc = "retry" /\ NewSegment("model") /\ UNCHANGED <<saved, nested>> /\ Quiet

\* commitParks: the request is in the record and in the stream.
Parks ==
  /\ job.pc = "park"
  /\ job' = [job EXCEPT !.pc = "parked"]
  /\ asks' = Append(asks, job.asked)
  /\ nested' = [nested EXCEPT !.open = job.asked = "nested"]
  /\ Sends(<<Item("INPUT_REQUIRED", 0, job.asked)>>)
  /\ UNCHANGED <<saved, screen, slips>>

Resumes ==
  /\ job.pc = "parked"
  /\ nested' = [nested EXCEPT !.open = FALSE]
  /\ NewSegment("verdict") /\ UNCHANGED saved /\ Quiet

\* unwindVerdict: the tool's output, a denial or an expiry is saved, then sent.  A nested
\* run's is its own, and shown on no card; it goes on.
VerdictLands ==
  /\ job.pc = "verdict"
  /\ IF job.asked = "nested" THEN job' = [job EXCEPT !.pc = "nested"] /\ UNCHANGED saved
     ELSE \E form \in {"ok", "denied", "error object"} :
            /\ job' = [job EXCEPT !.pc = "result saved", !.form = form]
            /\ saved' = Append(saved, Turn("result", job.n, form))
  /\ UNCHANGED <<nested, out, frames>> /\ Quiet

\* A stop closes the parks: results and records, of which nothing is sent.
Stops ==
  /\ job.pc = "parked"
  /\ job' = [job EXCEPT !.pc = "ended"]
  /\ saved' = Append(saved, Turn("result", job.n, "denied"))
  /\ nested' = IF nested.open THEN [nested EXCEPT !.state = "CANCELLED", !.open = FALSE] ELSE nested
  /\ slips' = slips \cup {"stopped"}
  /\ UNCHANGED <<asks, out, frames, screen>>

---------------------------------------------------------------------------
(* The tab *)

IsToolError(form) == form \in {"error text", "error object"}

StateOf(form) == IF IsToolError(form) THEN "error" ELSE "done"

\* toolCallOutcomes: what the saved results say of a call.
Outcome(turns, c) ==
  LET r == SelectInSeq(turns, LAMBDA t : t.type = "result" /\ t.c = c) IN
  IF r = 0 THEN "running" ELSE StateOf(turns[r].v)

CallCard(c, state, fresh) == [k |-> "call", c |-> c, state |-> state, fresh |-> fresh]
ResultCard(c, fresh) == [k |-> "result", c |-> c, state |-> "", fresh |-> fresh]

\* settleToolCall.
Settled(entries, c, form) ==
  [i \in DOMAIN entries |-> IF entries[i].k = "call" /\ entries[i].c = c
                            THEN [entries[i] EXCEPT !.state = StateOf(form)] ELSE entries[i]]

Card(s) == [status |-> s, text |-> <<>>]
EachSub(t, Op(_)) == [t EXCEPT !.subs = [i \in DOMAIN @ |-> Op(@[i])]]

\* The run goes on, and with it the nested runs that waited.
Reentered(t) == EachSub(t, LAMBDA s : [s EXCEPT !.status = IF @ = "WAITING_FOR_INPUT" THEN "RUNNING" ELSE @])

\* What the tab makes of a frame.  A step that ends, whoever's, and a new stream make what
\* is shown stay; a failed step takes what came since off the screen.
Applied(t, i) ==
  CASE i.type = "TOOL_CALL_END" ->
         IF i.c \in t.calls THEN t
         ELSE [t EXCEPT !.calls = @ \cup {i.c}, !.entries = Append(@, CallCard(i.c, "running", TRUE))]
    [] i.type = "TOOL_CALL_RESULT" ->
         IF i.c \in t.results THEN t
         ELSE [t EXCEPT !.results = @ \cup {i.c}, !.entries = Append(Settled(@, i.c, i.v), ResultCard(i.c, TRUE))]
    [] i.type \in {"STEP_FINISHED", "RUN_STARTED"} ->
         [t EXCEPT !.entries = [j \in DOMAIN @ |-> [@[j] EXCEPT !.fresh = FALSE]]]
    [] i.type = "RUN_ERROR" -> [t EXCEPT !.entries = SelectSeq(@, LAMBDA e : ~e.fresh)]
    [] i.type = "SUBAGENT_STARTED" -> IF t.subs = <<>> THEN [t EXCEPT !.subs = <<Card("RUNNING")>>] ELSE t
    [] i.type = "SUBAGENT_EVENT" -> EachSub(t, LAMBDA s : [s EXCEPT !.text = Append(@, i.c)])
    [] i.type = "SUBAGENT_FINISHED" -> EachSub(t, LAMBDA s : [s EXCEPT !.status = i.v])
    [] i.type = "INPUT_REQUIRED" ->
         IF i.v = "nested" THEN EachSub(t, LAMBDA s : [s EXCEPT !.status = "WAITING_FOR_INPUT"]) ELSE t
    [] i.type = "STATE_CHANGE" -> Reentered(t)

\* Everyone's content up to the last finished step goes.
CutForAll(items) ==                                                     \* mutant
  LET last == SelectLastInSeq(items, LAMBDA i : i.type = "STEP_FINISHED")
      Content == {"TOOL_CALL_END", "TOOL_CALL_RESULT", "SUBAGENT_EVENT"}
  IN SelectSeq(SubSeq(items, 1, last), LAMBDA i : i.type \notin Content) \o SubSeq(items, last + 1, Len(items))

\* cutCommitted: each agent's content up to its last finished step goes.
Cut(items) ==
  LET Later(i, who) == \E j \in DOMAIN items : j > i /\ items[j].type = "STEP_FINISHED" /\ items[j].c = who
      kept == SelectSeq([i \in DOMAIN items |-> i],
                        LAMBDA i : CASE items[i].type \in {"TOOL_CALL_END", "TOOL_CALL_RESULT"} -> ~Later(i, 0)
                                     [] items[i].type = "SUBAGENT_EVENT" -> ~Later(i, 1)
                                     [] OTHER -> TRUE)
  IN [i \in DOMAIN kept |-> items[kept[i]]]

\* What is on screen from messages and records alone.
FromMessages(t, snap) ==
  LET calls == SelectSeq(snap.saved, LAMBDA m : m.type = "call")
      results == SelectSeq(snap.saved, LAMBDA m : m.type = "result")
      said == SelectSeq(snap.saved, LAMBDA m : m.type = "said")
  IN [t EXCEPT
        !.entries = [i \in DOMAIN calls |-> CallCard(calls[i].c, Outcome(snap.saved, calls[i].c), FALSE)]
                    \o [i \in DOMAIN results |-> ResultCard(results[i].c, FALSE)],
        !.calls = {m.c : m \in Range(calls)},
        !.results = {m.c : m \in Range(results)},
        !.subs = IF snap.state = "NONE" THEN <<>>
                 ELSE <<[Card(snap.state) EXCEPT !.text = [i \in DOMAIN said |-> said[i].c]]>>]

\* hydrate: the messages and records, the unfinished run's requests, then its stream.
Hydrated(t, snap, items) ==
  LET entries == IF snap.active THEN [i \in DOMAIN asks |-> Item("INPUT_REQUIRED", 0, asks[i])] ELSE <<>>
  IN FoldLeft(Applied, FromMessages(t, snap), entries \o items)

\* The thread is read: its messages and runs first,
Reads ==
  /\ screen.reading = "no" /\ screen.reads < MaxReads
  /\ screen' = [screen EXCEPT !.on = FALSE, !.reading = "yes", !.reads = @ + 1,
                  !.snap = [saved |-> saved, state |-> nested.state, active |-> job.pc # "ended"]]
  /\ frames' = <<>>
  /\ UNCHANGED <<job, saved, nested, asks, out, slips>>

\* What was saved after the messages were read, and is in no item; what was saved before
\* and is in one; and the request of a nested run that is over, with no end to follow it.
Misses(snap, items) ==
  LET Sent(t) == \E i \in Range(items) : i.type = t
      news == Range(saved) \ Range(snap.saved)
      asked == \/ snap.active /\ "nested" \in Range(asks)
               \/ Item("INPUT_REQUIRED", 0, "nested") \in Range(items)
  IN
  (IF \/ \E m \in news : \A i \in Range(items) :
              i.c # m.c \/ i.type # (CASE m.type = "call" -> "TOOL_CALL_END" [] m.type = "result" -> "TOOL_CALL_RESULT"
                                       [] m.type = "said" -> "SUBAGENT_EVENT")
      \/ snap.state = "NONE" /\ nested.state # "NONE" /\ ~Sent("SUBAGENT_STARTED")
      \/ snap.state = "RUNNING" /\ nested.state # "RUNNING" /\ job.pc # "nested closed" /\ ~Sent("SUBAGENT_FINISHED")
   THEN {"between"} ELSE {})
  \cup (IF \E m \in Range(snap.saved) : m.type = "said" /\ Item("SUBAGENT_EVENT", m.c, "") \in Range(items)
        THEN {"said twice"} ELSE {})
  \cup (IF asked /\ nested.state # "RUNNING" /\ ~Sent("SUBAGENT_FINISHED")
        THEN {"replayed"} ELSE {})
  \cup (IF KeptIn(items) THEN {"kept"} ELSE {})

\* then its record and its stream, left out a while after its end; the tab follows it
\* from there.
Lands ==
  /\ screen.reading = "yes"
  /\ \E items \in {Cut(out)} \cup (IF job.pc = "ended" THEN {<<>>} ELSE {}) :
       /\ screen' = [Hydrated(screen, screen.snap, items) EXCEPT !.on = TRUE, !.reading = "no", !.snap = <<>>]
       /\ slips' = Misses(screen.snap, items)
  /\ UNCHANGED <<job, saved, nested, asks, out, frames>>

Receives ==
  /\ frames # <<>>
  /\ screen' = Applied(screen, Head(frames))
  /\ frames' = Tail(frames)
  /\ UNCHANGED <<job, saved, nested, asks, out, slips>>

CardNext ==
  \/ Calls \/ RunEnds \/ Returns \/ Spawns \/ NestedSays \/ NestedSaves \/ NestedStepEnds \/ NestedAsks
  \/ NestedGoesOn \/ NestedCloses \/ NestedEnds \/ Hands \/ HandsUp \/ ResultGoesOut \/ Saves \/ StepEnds
  \/ StepFails \/ Retries \/ Parks \/ Resumes \/ VerdictLands \/ Stops
  \/ Reads \/ Lands \/ Receives

---------------------------------------------------------------------------

Calm == screen.on /\ frames = <<>> /\ job.pc \in {"model", "parked", "ended"}
Cards(k, c) == {i \in DOMAIN screen.entries : screen.entries[i].k = k /\ screen.entries[i].c = c}
SavedOf(type) == {m \in Range(saved) : m.type = type}

\* A call is on one card at most, whatever brought it.
OneCardEach == \A k \in {"call", "result"}, c \in 1..MaxCalls : Cardinality(Cards(k, c)) <= 1

\* Once all that was sent is shown, the saved calls are on screen and no others, each as
\* its saved result says.  Left out are a stop, which sends nothing, a thread read while
\* a step ended, and a failed step in which a nested run's step ended.
CallsAreTruth ==
  Calm /\ slips \cap {"stopped", "between", "kept"} = {} =>
    \A c \in 1..MaxCalls :
      /\ Cards("call", c) = {} <=> c \notin {m.c : m \in SavedOf("call")}
      /\ Cards("result", c) # {} => c \in {m.c : m \in SavedOf("result")}
      /\ \A i \in Cards("call", c) :
           LET came == {m \in SavedOf("result") : m.c = c} IN
           screen.entries[i].state = IF came = {} THEN "running"
                                     ELSE IF \E m \in came : m.v \in {"error text", "error object"} THEN "error"
                                     ELSE "done"

\* And the nested run has one card, which says how its record stands, or that it waits;
\* one that is done has on it what it saved, once.
NestedIsTruth ==
  Calm /\ slips \cap {"stopped", "between", "replayed"} = {} =>
    IF nested.state = "NONE" THEN screen.subs = <<>>
    ELSE /\ Len(screen.subs) = 1
         /\ screen.subs[1].status = IF nested.open THEN "WAITING_FOR_INPUT" ELSE nested.state
         /\ nested.state = "COMPLETED" /\ "said twice" \notin slips =>
              screen.subs[1].text = [i \in 1..nested.said |-> i]

CardsAreTruth == OneCardEach /\ CallsAreTruth /\ NestedIsTruth
===========================================================================
