----------------------------- MODULE NestedRuns -----------------------------
(***************************************************************************)
(* Delegation inside one run: the main agent and the nested runs it spawns *)
(* (core/subagent.ts), the loop they share (core/loop.ts), the ledger they *)
(* are billed on (core/usage.ts, core/budget.ts), the parks they raise     *)
(* (core/hitl.ts) and the unwind that hands a verdict up through the       *)
(* calls waiting on it (core/engine.ts).                                   *)
(*                                                                         *)
(* The lock, the dispatches and the thread's states are RunLifecycle's:    *)
(* here one worker at a time works on the run, dies, or comes back.        *)
(***************************************************************************)
EXTENDS Naturals, FiniteSets, Sequences

CONSTANTS
  Main,           \* the main agent
  Nested,         \* the nested runs a model may spawn, named by the call that spawns each
  Parks,          \* the calls a human must approve, named by their tool call id
  Parent,         \* the agent a nested run is spawned by
  Asker,          \* the agent that makes an approval's call
  MaxDepth,       \* config.subagentMaxDepth
  MaxConcurrent,  \* config.subagentMaxConcurrent
  MaxSteps,       \* config.maxSteps and config.subagentMaxSteps
  Budget,         \* the run's token budget, a step spending one
  AtOnce,         \* bound on the calls one step of an agent makes
  Failing,        \* the agents whose step may fail
  MaxCuts         \* bound on the deaths, timeouts and stops

VARIABLES
  record,    \* a nested run's record: "none", or its state
  called,    \* the calls in the saved assistant messages
  results,   \* how many results the history holds for a call
  answered,  \* the main agent's answer is in the history
  requests,  \* INPUT_REQUIRED on the event log, in order
  verdicts,  \* what became of a request: "open", "approved", or "denied" (an expiry too)
  kept,      \* the approved calls whose output is kept under hitlDoneKey
  ran,       \* how often an approved tool has run
  rows,      \* usage rows of the run
  thread,    \* "RUNNING", "WAITING_FOR_INPUT" or "ENDED"
  worker,    \* "off", "loop" or "unwind"
  at,        \* where an agent's loop stands
  steps,     \* the steps a loop has saved since it was entered
  live,      \* a call of the step in progress
  line,      \* the spawns waiting for a slot of a depth, first come first served
  box,       \* the ParkBox
  ledger,    \* RunLedger.tokensUsed
  unwind,    \* the parks left to land: park, next frame, stage
  entered,   \* loops entered so far
  unsure,    \* how often the worker died when an approved call's tool had returned, unkept
  lost,      \* loops were cut while others ran or had parked under them
  cuts

durable == <<record, called, results, answered, requests, verdicts, kept, ran, rows, thread>>
memory  == <<worker, at, steps, live, line, box, ledger, unwind>>
counted == <<entered, unsure, lost, cuts>>
vars == <<durable, memory, counted>>

Agents == Nested \cup {Main}
Calls  == Nested \cup Parks

CallsOf(x) == {n \in Nested : Parent[n] = x} \cup {p \in Parks : Asker[p] = x}

\* A nested run and the ones above it, innermost first: the frames of a park it raises.
Above[x \in Agents] == IF x = Main THEN <<>> ELSE <<x>> \o Above[Parent[x]]

Depth(x) == Len(Above[x])

Frames(p) == Above[Asker[p]]

None == [c \in Calls |-> "none"]

\* What of a sequence is in a set, in its order.
Only(s, S) ==
  LET f[i \in 0..Len(s)] == IF i = 0 THEN <<>>
                            ELSE IF s[i] \in S THEN Append(f[i - 1], s[i]) ELSE f[i - 1]
  IN  f[Len(s)]

Init ==
  /\ record = [n \in Nested |-> "none"]
  /\ called = {}
  /\ results = [c \in Calls |-> 0]
  /\ answered = FALSE
  /\ requests = <<>>
  /\ verdicts = [p \in Parks |-> "open"]
  /\ kept = {}
  /\ ran = [p \in Parks |-> 0]
  /\ rows = 0
  /\ thread = "RUNNING"
  /\ worker = "off"
  /\ at = [x \in Agents |-> "off"]
  /\ steps = [x \in Agents |-> 0]
  /\ live = None
  /\ line = [d \in 1..MaxDepth |-> <<>>]
  /\ box = <<>>
  /\ ledger = 0
  /\ unwind = <<>>
  /\ entered = 0
  /\ unsure = [p \in Parks |-> 0]
  /\ lost = FALSE
  /\ cuts = 0

---------------------------------------------------------------------------
(* The loop *)

Enter(x) ==
  /\ at' = [at EXCEPT ![x] = "thinking"]
  /\ steps' = [steps EXCEPT ![x] = 0]
  /\ entered' = entered + 1

\* What the model may still ask for: a call has an id of its own.
Asked == {box[i] : i \in DOMAIN box} \cup {requests[i] : i \in DOMAIN requests}
Fresh(x) == {c \in CallsOf(x) : live[c] = "none" /\ c \notin called \cup Asked
                                /\ (c \in Nested => record[c] = "none")}

\* The model asks for tools.  One that needs an approval parks at once, in the box.
Asks(x, asked) ==
  /\ at[x] = "thinking"
  /\ asked \subseteq Fresh(x)
  /\ Cardinality(asked) <= AtOnce[x]
  /\ at' = [at EXCEPT ![x] = "tools"]
  /\ live' = [c \in Calls |-> IF c \notin asked THEN live[c]
                              ELSE IF c \in Parks THEN "parked" ELSE "called"]
  /\ \E new \in {s \in [1..Cardinality(asked \cap Parks) -> asked \cap Parks] :
                   \A i, j \in DOMAIN s : i # j => s[i] # s[j]} :
       box' = box \o new
  /\ UNCHANGED <<durable, worker, steps, line, ledger, unwind, counted>>

InStep(x) == {c \in CallsOf(x) : live[c] # "none"}

\* The park box is written once the main agent's step is saved.
Committed(saves) ==
  IF saves /\ box # <<>>
  THEN requests' = requests \o box /\ box' = <<>> /\ thread' = "WAITING_FOR_INPUT"
  ELSE UNCHANGED <<requests, box, thread>>

\* The budget stops a loop once it is spent: the step that crossed it is kept whole.
Exhausted(used) == used >= Budget

\* The step is saved, billed and, on the main agent, its parks are written; a
\* parked call has no result yet.  Then the loop parks, runs out or goes on.
Saved(x, finish) ==
  LET parked == \E c \in InStep(x) : live[c] = "parked"
      over   == Exhausted(ledger + 1) \/ steps[x] + 1 >= MaxSteps \/ finish = "stop"
  IN  /\ called' = called \cup InStep(x)
      /\ results' = [c \in Calls |-> IF c \in InStep(x) /\ live[c] # "parked"
                                     THEN results[c] + 1 ELSE results[c]]
      /\ answered' = (answered \/ (x = Main /\ finish = "stop"))
      /\ rows' = rows + 1
      /\ ledger' = ledger + 1
      /\ Committed(x = Main)
      /\ steps' = [steps EXCEPT ![x] = @ + 1]
      /\ at' = [at EXCEPT ![x] = IF parked THEN "parked" ELSE IF over THEN "done" ELSE "thinking"]
      /\ live' = [c \in Calls |-> IF c \in InStep(x) THEN "none" ELSE live[c]]
      /\ UNCHANGED <<record, verdicts, kept, ran, worker, line, unwind, counted>>

SavesTools(x) ==
  /\ at[x] = "tools"
  /\ \A c \in InStep(x) : live[c] \in {"parked", "ok"}
  /\ Saved(x, "tool-calls")

Answers(x) ==
  /\ at[x] = "thinking"
  /\ Saved(x, "stop")

Cut == cuts < MaxCuts /\ cuts' = cuts + 1

Under(x) == {n \in Nested : n # x /\ (x = Main \/ \E i \in DOMAIN Above[n] : Above[n][i] = x)}

\* A nested run that is cut closes its own record; one that had parked does not know.
CutRecords(x) == [n \in Nested |-> IF n \in Under(x) /\ live[n] = "running" THEN "CANCELLED" ELSE record[n]]

\* What a cut leaves on the bill: a row for each call it ends, none for a loop that was
\* between two.
Billed(x) ==
  {rows + n : n \in 0..Cardinality({y \in Under(x) \cup {x} : at[y] \in {"thinking", "tools"}})}

\* A nested run's step fails, ends with no finish or runs past its time: what it
\* waited for is aborted and the spawns in line give up.  The box is the main
\* agent's, and keeps what the step raised.
Fails(x) ==
  /\ x \in Failing /\ x # Main
  /\ at[x] \in {"thinking", "tools"}
  /\ Cut
  /\ record' = CutRecords(x)
  /\ at' = [y \in Agents |-> IF y = x THEN "failed" ELSE IF y \in Under(x) THEN "off" ELSE at[y]]
  /\ live' = [c \in Calls |-> IF c \in UNION {CallsOf(y) : y \in Under(x) \cup {x}} THEN "none" ELSE live[c]]
  /\ line' = [d \in DOMAIN line |-> Only(line[d], Nested \ Under(x))]
  /\ rows' \in Billed(x) \ {rows} /\ ledger' = ledger + (rows' - rows)
  /\ lost' = (lost \/ at[x] = "tools")
  /\ UNCHANGED <<called, results, answered, requests, verdicts, kept, ran, thread,
                 worker, steps, box, unwind, entered, unsure>>

---------------------------------------------------------------------------
(* spawnSubagent *)

\* mutant: one pool for every depth
HoldersOfAny(d) == {n \in Nested : live[n] = "running"}

\* Each depth has slots of its own.
Holders(d) == {n \in Nested : live[n] = "running" /\ Depth(n) = d}

Room(d) == Cardinality(Holders(d)) < MaxConcurrent

Runs(n) ==
  /\ live' = [live EXCEPT ![n] = "running"]
  /\ record' = [record EXCEPT ![n] = "RUNNING"]
  /\ Enter(n)

\* Too deep a spawn is refused; one with no slot gets in line.
Spawn(n) ==
  /\ live[n] = "called"
  /\ \/ /\ Depth(n) > MaxDepth
        /\ live' = [live EXCEPT ![n] = "ok"]
        /\ UNCHANGED <<line, at, steps, entered, record>>
     \/ /\ Depth(n) <= MaxDepth
        /\ Room(Depth(n)) /\ line[Depth(n)] = <<>>
        /\ Runs(n)
        /\ UNCHANGED line
     \/ /\ Depth(n) <= MaxDepth
        /\ ~(Room(Depth(n)) /\ line[Depth(n)] = <<>>)
        /\ live' = [live EXCEPT ![n] = "queued"]
        /\ line' = [line EXCEPT ![Depth(n)] = Append(@, n)]
        /\ UNCHANGED <<at, steps, entered, record>>
  /\ UNCHANGED <<called, results, answered, requests, verdicts, kept, ran, rows, thread,
                 worker, box, ledger, unwind, unsure, lost, cuts>>

\* A slot that is released goes to the first in line.
Granted(d) ==
  /\ line[d] # <<>>
  /\ Room(d)
  /\ Runs(Head(line[d]))
  /\ line' = [line EXCEPT ![d] = Tail(@)]
  /\ UNCHANGED <<called, results, answered, requests, verdicts, kept, ran, rows, thread,
                 worker, box, ledger, unwind, unsure, lost, cuts>>

\* mutant: the record is closed before the loop is asked whether it parked
ClosedAlways(n) == IF at[n] = "failed" THEN "FAILED" ELSE "COMPLETED"

\* A parked child keeps its record RUNNING; any other is closed.
Closed(n) ==
  CASE at[n] = "parked" -> record[n]
    [] at[n] = "failed" -> "FAILED"
    [] OTHER            -> "COMPLETED"

\* The spawn call returns, with the sentinel of a park or with a result.
Returns(n) ==
  /\ live[n] = "running"
  /\ at[n] \in {"parked", "done", "failed"}
  /\ live' = [live EXCEPT ![n] = IF at[n] = "parked" THEN "parked" ELSE "ok"]
  /\ record' = [record EXCEPT ![n] = Closed(n)]
  /\ at' = [at EXCEPT ![n] = "off"]
  /\ UNCHANGED <<called, results, answered, requests, verdicts, kept, ran, rows, thread,
                 worker, steps, line, box, ledger, unwind, counted>>

---------------------------------------------------------------------------
(* A segment *)

\* What the worker held is gone with it.
Gone ==
  /\ worker' = "off"
  /\ at' = [x \in Agents |-> "off"]
  /\ steps' = [x \in Agents |-> 0]
  /\ live' = None
  /\ line' = [d \in 1..MaxDepth |-> <<>>]
  /\ box' = <<>>
  /\ ledger' = 0
  /\ unwind' = <<>>

\* mutant: a segment's ledger starts from nothing
SeedZero == 0

\* seedRunLedger: the run's spend so far.
Seed == rows

\* A request is open until the history has its result, and after that while a
\* call above it waits.
Waiting(p) == {i \in DOMAIN Frames(p) : results[Frames(p)[i]] = 0}

\* mutant: an unwind that was cut starts at its first frame again
FirstFrame(s) == 1

First(s) == CHOOSE i \in s : \A j \in s : i <= j

IsOpen(p) == results[p] = 0 \/ Waiting(p) # {}

OpenHitls ==
  LET open == Only(requests, {p \in Parks : IsOpen(p)})
  IN  [i \in DOMAIN open |->
         IF results[open[i]] = 0
         THEN [park |-> open[i], frame |-> 1, stage |-> "settle"]
         ELSE [park |-> open[i], frame |-> First(Waiting(open[i])), stage |-> "unwind"]]

\* Nothing is executed until every open approval has its answer or is past its time.
Ready(open) ==
  \A i \in DOMAIN open : open[i].stage = "settle" => verdicts[open[i].park] # "open"

StartLoop ==
  /\ at' = [at EXCEPT ![Main] = IF answered THEN "done" ELSE "thinking"]
  /\ entered' = entered + 1
  /\ steps' = [steps EXCEPT ![Main] = 0]

Begins ==
  /\ worker = "off"
  /\ thread = "RUNNING"
  /\ worker' = "loop"
  /\ ledger' = Seed
  /\ StartLoop
  /\ UNCHANGED <<durable, live, line, box, unwind, unsure, lost, cuts>>

Resumes ==
  /\ worker = "off"
  /\ thread = "WAITING_FOR_INPUT"
  /\ Ready(OpenHitls)
  /\ worker' = "unwind"
  /\ ledger' = Seed
  /\ unwind' = OpenHitls
  /\ UNCHANGED <<durable, at, steps, live, line, box, counted>>

\* The main agent's loop is over: it parked, or the run ends.
Ends ==
  /\ worker = "loop"
  /\ at[Main] \in {"parked", "done"}
  /\ thread' = IF at[Main] = "done" THEN "ENDED" ELSE thread
  /\ Gone
  /\ UNCHANGED <<record, called, results, answered, requests, verdicts, kept, ran, rows, counted>>

---------------------------------------------------------------------------
(* resumePendingHitl and unwindVerdict *)

Now == Head(unwind)

\* mutant: the kept output is not looked for
RunsAgain(p) == verdicts[p] = "approved"

MustRun(p) == verdicts[p] = "approved" /\ p \notin kept

\* The approved tool runs; its output is not kept yet.
ToolRuns ==
  /\ worker = "unwind" /\ unwind # <<>> /\ Now.stage = "settle"
  /\ MustRun(Now.park)
  /\ ran' = [ran EXCEPT ![Now.park] = @ + 1]
  /\ unwind' = <<[Now EXCEPT !.stage = "keep"]>> \o Tail(unwind)
  /\ UNCHANGED <<record, called, results, answered, requests, verdicts, kept, rows, thread,
                 worker, at, steps, live, line, box, ledger, counted>>

ToolKept ==
  /\ worker = "unwind" /\ unwind # <<>> /\ Now.stage = "keep"
  /\ kept' = kept \cup {Now.park}
  /\ unwind' = <<[Now EXCEPT !.stage = "land"]>> \o Tail(unwind)
  /\ UNCHANGED <<record, called, results, answered, requests, verdicts, ran, rows, thread,
                 worker, at, steps, live, line, box, ledger, counted>>

\* The verdict's result is saved; only then is what was kept for it cleared.
Lands ==
  /\ worker = "unwind" /\ unwind # <<>>
  /\ \/ Now.stage = "land"
     \/ Now.stage = "settle" /\ ~MustRun(Now.park)
  /\ results' = [results EXCEPT ![Now.park] = @ + 1]
  /\ unwind' = <<[Now EXCEPT !.stage = "clear"]>> \o Tail(unwind)
  /\ UNCHANGED <<record, called, answered, requests, verdicts, kept, ran, rows, thread,
                 worker, at, steps, live, line, box, ledger, counted>>

Clears ==
  /\ worker = "unwind" /\ unwind # <<>> /\ Now.stage = "clear"
  /\ kept' = kept \ {Now.park}
  /\ unwind' = <<[Now EXCEPT !.stage = "unwind"]>> \o Tail(unwind)
  /\ UNCHANGED <<record, called, results, answered, requests, verdicts, ran, rows, thread,
                 worker, at, steps, live, line, box, ledger, counted>>

Frame == Frames(Now.park)[Now.frame]

AtFrame ==
  /\ worker = "unwind" /\ unwind # <<>> /\ Now.stage = "unwind"
  /\ Now.frame <= Len(Frames(Now.park))

\* The child is entered again, from its saved turns.
Reenters ==
  /\ AtFrame
  /\ at[Frame] = "off"
  /\ Enter(Frame)
  /\ UNCHANGED <<durable, worker, live, line, box, ledger, unwind, unsure, lost, cuts>>

\* Its record is closed first, then its result is handed to the call above.
Closes ==
  /\ AtFrame
  /\ at[Frame] \in {"done", "failed"}
  /\ record' = [record EXCEPT ![Frame] = Closed(Frame)]
  /\ at' = [at EXCEPT ![Frame] = "off"]
  /\ unwind' = <<[Now EXCEPT !.stage = "hand"]>> \o Tail(unwind)
  /\ UNCHANGED <<called, results, answered, requests, verdicts, kept, ran, rows, thread,
                 worker, steps, live, line, box, ledger, counted>>

Hands ==
  /\ worker = "unwind" /\ unwind # <<>> /\ Now.stage = "hand"
  /\ results' = [results EXCEPT ![Frame] = @ + 1]
  /\ unwind' = <<[Now EXCEPT !.stage = "unwind", !.frame = @ + 1]>> \o Tail(unwind)
  /\ UNCHANGED <<record, called, answered, requests, verdicts, kept, ran, rows, thread,
                 worker, at, steps, live, line, box, ledger, counted>>

\* The child parks again: its step is saved, so the new park is written and the
\* segment ends.
ParksAgain ==
  /\ AtFrame
  /\ at[Frame] = "parked"
  /\ requests' = requests \o box
  /\ Gone
  /\ UNCHANGED <<record, called, results, answered, verdicts, kept, ran, rows, thread, counted>>

NextPark ==
  /\ worker = "unwind" /\ unwind # <<>> /\ Now.stage = "unwind"
  /\ Now.frame > Len(Frames(Now.park))
  /\ unwind' = Tail(unwind)
  /\ UNCHANGED <<durable, worker, at, steps, live, line, box, ledger, counted>>

\* Every verdict has landed: the run goes on in its main loop.
Unwound ==
  /\ worker = "unwind" /\ unwind = <<>>
  /\ thread' = "RUNNING"
  /\ worker' = "loop"
  /\ StartLoop
  /\ UNCHANGED <<record, called, results, answered, requests, verdicts, kept, ran, rows,
                 live, line, box, ledger, unwind, unsure, lost, cuts>>

---------------------------------------------------------------------------
(* The outside *)

Verdict(p, v) ==
  /\ \E i \in DOMAIN requests : requests[i] = p
  /\ thread = "WAITING_FOR_INPUT"
  /\ results[p] = 0
  /\ verdicts[p] = "open"
  /\ verdicts' = [verdicts EXCEPT ![p] = v]
  /\ UNCHANGED <<record, called, results, answered, requests, kept, ran, rows, thread, memory, counted>>

Dies ==
  /\ worker # "off"
  /\ Cut
  /\ Gone
  /\ unsure' = [p \in Parks |-> IF \E i \in DOMAIN unwind : unwind[i].park = p /\ unwind[i].stage = "keep"
                                THEN unsure[p] + 1 ELSE unsure[p]]
  /\ lost' = TRUE
  /\ UNCHANGED <<durable, entered>>

\* The main agent's step fails or runs past its time: every loop under it is
\* aborted, the box is dropped, and the run is queued again.
MainFails ==
  /\ worker = "loop" /\ at[Main] \in {"thinking", "tools"}
  /\ Main \in Failing
  /\ Cut
  /\ record' = CutRecords(Main)
  /\ rows' \in Billed(Main) \ {rows}
  /\ lost' = TRUE
  /\ Gone
  /\ UNCHANGED <<called, results, answered, requests, verdicts, kept, ran, thread, entered, unsure>>

\* A stop finds the run in its worker's loop.
StopsLoop ==
  /\ worker = "loop" /\ thread = "RUNNING"
  /\ Cut
  /\ record' = CutRecords(Main)
  /\ rows' \in Billed(Main)
  /\ thread' = "ENDED"
  /\ lost' = TRUE
  /\ Gone
  /\ UNCHANGED <<called, results, answered, requests, verdicts, kept, ran, entered, unsure>>

\* closeOpenParks: a stop finds the run parked with no worker, and every open
\* request and every call above it gets its result, once each.
StopsParked ==
  LET open == {OpenHitls[i].park : i \in DOMAIN OpenHitls}
      asked == {p \in open : results[p] = 0}
      frames == UNION {{Frames(p)[i] : i \in IF p \in asked THEN DOMAIN Frames(p)
                                             ELSE First(Waiting(p))..Len(Frames(p))} : p \in open}
      closed == {n \in Nested : \E p \in asked : Asker[p] = n}
                  \cup {Parent[f] : f \in frames}
  IN  /\ worker = "off" /\ thread = "WAITING_FOR_INPUT"
      /\ Cut
      /\ results' = [c \in Calls |-> IF c \in asked \cup frames THEN results[c] + 1 ELSE results[c]]
      /\ record' = [n \in Nested |-> IF n \in closed THEN "CANCELLED" ELSE record[n]]
      /\ thread' = "ENDED"
      /\ UNCHANGED <<called, answered, requests, verdicts, kept, ran, rows, memory, entered, unsure, lost>>

Next ==
  \/ \E x \in Agents :
       \/ \E asked \in SUBSET CallsOf(x) : Asks(x, asked)
       \/ SavesTools(x) \/ Answers(x) \/ Fails(x)
  \/ \E n \in Nested : Spawn(n) \/ Returns(n)
  \/ \E d \in DOMAIN line : Granted(d)
  \/ Begins \/ Resumes \/ Ends
  \/ ToolRuns \/ ToolKept \/ Lands \/ Clears \/ Reenters \/ Closes \/ Hands \/ ParksAgain
  \/ NextPark \/ Unwound
  \/ \E p \in Parks, v \in {"approved", "denied"} : Verdict(p, v)
  \/ Dies \/ MainFails \/ StopsLoop \/ StopsParked

Spec == Init /\ [][Next]_vars

---------------------------------------------------------------------------
(* A strict provider rejects a history in which one call has two results: the *)
(* loop, the unwind, a redelivered unwind and a stop all write them.          *)
EveryCallAnsweredOnce == \A c \in Calls : results[c] <= 1

(* A request is written for a call that the history has, under calls that it   *)
(* has (ParkBox).                                                              *)
RequestsAreCalls ==
  \A i \in DOMAIN requests :
    /\ requests[i] \in called
    /\ \A k \in DOMAIN Frames(requests[i]) : Frames(requests[i])[k] \in called

\* No two requests wait in one nested run, or below it, and every one is a call.
Apart ==
  /\ RequestsAreCalls
  /\ \A i, j \in DOMAIN requests : i # j =>
       ~\E n \in Nested : /\ \E k \in DOMAIN Frames(requests[i]) : Frames(requests[i])[k] = n
                         /\ \E k \in DOMAIN Frames(requests[j]) : Frames(requests[j])[k] = n

(* The same, for a run whose requests never meet below the main agent.         *)
CallsAnsweredOnce == Apart => EveryCallAnsweredOnce

(* A worker's loops never all wait for each other: a parent holds its slot     *)
(* while its children wait for theirs (RunSlots).                              *)
NobodyStuck ==
  (\E x \in Agents : at[x] = "tools") =>
    \/ \E x \in Agents : at[x] \in {"thinking", "parked", "done", "failed"}
    \/ \E x \in Agents : at[x] = "tools" /\ \A c \in InStep(x) : live[c] \in {"parked", "ok"}
    \/ \E n \in Nested : live[n] = "called"
    \/ \E d \in DOMAIN line : line[d] # <<>> /\ Room(d)

(* The cap is the run's, whatever its segments and its nested runs: each loop  *)
(* that is entered can finish at most one step after the cap is reached.       *)
SpendBounded == rows < Budget + entered

(* A nested run's record is RUNNING while it runs or waits for an approval,    *)
(* and not after: with no worker, exactly the nested runs between an open      *)
(* request and the main agent.                                                 *)
RecordsMatchParks ==
  (worker = "off" /\ ~lost /\ Apart) =>
    \A n \in Nested :
      record[n] = "RUNNING" <=>
        thread = "WAITING_FOR_INPUT" /\ \E i \in DOMAIN requests :
          /\ results[requests[i]] = 0
          /\ \E j \in DOMAIN Frames(requests[i]) : Frames(requests[i])[j] = n

(* An approved tool runs once, however often its segment is redelivered, and   *)
(* none runs while another request of the run is unanswered; only a death      *)
(* between its return and the kept output can run it again, and each once.     *)
ToolRunsOnce ==
  \A p \in Parks :
    /\ ran[p] <= 1 + unsure[p]
    /\ ran[p] > 0 /\ results[p] = 0 =>
         \A i \in DOMAIN requests : results[requests[i]] = 0 => verdicts[requests[i]] # "open"
=============================================================================
