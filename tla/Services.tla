------------------------------ MODULE Services ------------------------------
\* The services a run stands on, composed: each behaviour is one service's, chosen when it
\* starts, and the others stay where they begin.  They share no state.
EXTENDS Naturals, Sequences

CONSTANTS
  Parts,  \* the services looked at
  Null,

  FlowCallers, FlowJobs, FlowDepth, FlowRetries, FlowRuns,                   \* FlowQueue
  QueueKinds, LocalJobs, MaxTimer, LocalDepth,                               \* LocalQueues
  MainRun, NestedIds, ParkIds, ParentOf, AskerOf, AtOnce, NestedDepth,       \* NestedRuns
  NestedAtOnce, StepLimit, Budget, FailingRuns, RunCuts,
  StreamKinds, StreamItems,                                                  \* StreamStores
  StoreKinds, StoreRuns, PruneBatch, AppendTries, MaxEntries, StoreCuts,     \* ThreadStore
  KvKinds, KvCallers, KvValues, KvCalls,                                     \* KvStores
  BusKinds, Handlers, MaxChannels,                                           \* Buses
  AdminStores, RunIds, Millis, Micros, PageSize,                             \* RunListing
  ClaimKinds, Settlers, Unclaimed, ClaimTries, MaxFaults, MaxBills,          \* SettleClaims
  Dialects, Processes, Releases, Nobody, SchemaRuns,                         \* Migrations
  CallIds, Compactors, MaxTurns, MaxSummaries,                               \* Prompts
  Limit, Lengths, UnitsPer, MaxLines,                                        \* SummaryRounds
  Scopes, ToolCalls, MaxMade, MaxRun, MaxEnds,                               \* Sandboxes
  BillLines, Currencies, MaxRows,                                            \* UsageTotals
  LedgerLines, Bookers, Splits, MaxSegments, LedgerCalls,                    \* RunLedger
  CardCalls, CardReads, CardFails                                            \* ThreadCards

VARIABLES
  part,         \* the service that moves
  flowRuns, held, enqueues, purging,
  record, called, results, answered, requests, verdicts, toolKept, ran, usageRows, thread,
  worker, loopAt, steps, live, line, box, spent, unwind, entered, unsure, lost, cuts,
  kind, streamRow, kept, over, dropped, holder, pending, doomed, sending, told, next,
  reader, readCursor, page, sawClosed, woken, given, log, torn,
  db, row, entries, messages, usage, records, streams, hot, dispatches, stopping, writer, pruning,
  deleting, named, late, unnamed, highest, again, cut,
  kv, cell, asked, saw, answer, calls,
  bus, current, members, wire, timedOut, stage, joined,
  admin, started, matching, stayed, cursor, visits, sweeping,
  holds, token, claimedAt, settled, at, tries, failed, bills, outlived, unmarked, faults,
  dialect, ledger, seen, added, lockedBy, phase, gate, migrated, early,
  history, minted, compact,
  scope, sandbox, alive, madeBy, handled, runNo, parked, calling, acquire, ends, orphans,
  rows, spending, booking, segments, made, unread, unstored,
  local, fate, items, timers, due, bound, unbound, got, hurried, ids,
  lines, chunks, parts, round,
  job, saved, nested, asks, out, frames, screen, slips

Queue == INSTANCE FlowQueue WITH
  Callers <- FlowCallers, Jobs <- FlowJobs, MaxDepth <- FlowDepth, MaxRuns <- FlowRuns

Local == INSTANCE LocalQueues WITH early <- hurried

Agents == INSTANCE NestedRuns WITH
  Main <- MainRun, Nested <- NestedIds, Parks <- ParkIds, Parent <- ParentOf, Asker <- AskerOf,
  MaxDepth <- NestedDepth, MaxConcurrent <- NestedAtOnce, MaxSteps <- StepLimit,
  Failing <- FailingRuns, MaxCuts <- RunCuts,
  kept <- toolKept, rows <- usageRows, at <- loopAt, ledger <- spent

Streams == INSTANCE StreamStores WITH
  Kinds <- StreamKinds, MaxItems <- StreamItems, row <- streamRow, cursor <- readCursor, got <- given

Threads == INSTANCE ThreadStore WITH
  Stores <- StoreKinds, Runs <- StoreRuns, Batch <- PruneBatch, Tries <- AppendTries,
  MaxCuts <- StoreCuts, bills <- usage, at <- dispatches

Kv == INSTANCE KvStores WITH MaxCalls <- KvCalls, store <- kv

\* RedisBus's callers come one after another.
Bus == INSTANCE Buses WITH BusOverlaps <- FALSE

Listing == INSTANCE RunListing WITH AdminKinds <- AdminStores

Settling == INSTANCE SettleClaims

Schema == INSTANCE Migrations WITH MaxRuns <- SchemaRuns, runs <- migrated

Prompt == INSTANCE Prompts

Summary == INSTANCE SummaryRounds

Sandbox == INSTANCE Sandboxes WITH kept <- sandbox

Bills == INSTANCE UsageTotals WITH UsageLines <- BillLines

Spend == INSTANCE RunLedger WITH UsageLines <- LedgerLines, MaxCalls <- LedgerCalls

Cards == INSTANCE ThreadCards WITH MaxCalls <- CardCalls, MaxReads <- CardReads, MaxFails <- CardFails

---------------------------------------------------------------------------

Init ==
  /\ part \in Parts
  /\ Queue!Init /\ Local!LocalInit
  /\ Agents!Init /\ Sandbox!SandboxInit /\ Cards!CardInit
  /\ Streams!Init /\ Threads!Init
  /\ Kv!KvInit /\ Bus!BusInit
  /\ Listing!ListInit /\ Settling!SettleInit /\ Schema!MigInit
  /\ Prompt!PromptInit /\ Summary!RoundInit
  /\ Bills!UsageInit /\ Spend!LedgerInit

queueVars == <<flowRuns, held, enqueues, purging>>
agentVars == <<record, called, results, answered, requests, verdicts, toolKept, ran, usageRows, thread,
  worker, loopAt, steps, live, line, box, spent, unwind, entered, unsure, lost, cuts>>
streamVars == <<kind, streamRow, kept, over, dropped, holder, pending, doomed, sending, told, next,
  reader, readCursor, page, sawClosed, woken, given, log, torn>>
threadVars == <<db, row, entries, messages, usage, records, streams, hot, dispatches, stopping, writer,
  pruning, deleting, named, late, unnamed, highest, again, cut>>
kvVars == <<kv, cell, asked, saw, answer, calls>>
busVars == <<bus, current, members, wire, timedOut, stage, joined>>
listVars == <<admin, started, matching, stayed, cursor, visits, sweeping>>
settleVars == <<holds, token, claimedAt, settled, at, tries, failed, bills, outlived, unmarked, faults>>
migVars == <<dialect, ledger, seen, added, lockedBy, phase, gate, migrated, early>>
promptVars == <<history, minted, compact>>
sandboxVars == <<scope, sandbox, alive, madeBy, handled, runNo, parked, calling, acquire, ends, orphans>>
ledgerVars == <<spending, booking, segments, made, unread, unstored>>
usageVars == <<rows, ledgerVars>>
localVars == <<local, fate, items, timers, due, bound, unbound, got, hurried, ids>>
roundVars == <<lines, chunks, parts, round>>
cardVars == <<job, saved, nested, asks, out, frames, screen, slips>>

stores == <<streamVars, threadVars, kvVars, busVars, usageVars>>
admins == <<listVars, settleVars, migVars, queueVars, localVars>>
runners == <<agentVars, promptVars, sandboxVars, roundVars, cardVars>>

Next ==
  \/ /\ part \in {"streams", "threads", "kv", "bus", "bills", "ledger"}
     /\ UNCHANGED <<part, admins, runners>>
     /\ \/ part = "streams" /\ Streams!Next /\ UNCHANGED <<threadVars, kvVars, busVars, usageVars>>
        \/ part = "threads" /\ Threads!Next /\ UNCHANGED <<streamVars, kvVars, busVars, usageVars>>
        \/ part = "kv" /\ Kv!KvNext /\ UNCHANGED <<streamVars, threadVars, busVars, usageVars>>
        \/ part = "bus" /\ Bus!BusNext /\ UNCHANGED <<streamVars, threadVars, kvVars, usageVars>>
        \/ /\ UNCHANGED <<streamVars, threadVars, kvVars, busVars>>
           /\ \/ part = "bills" /\ Bills!UsageNext /\ UNCHANGED ledgerVars
              \/ part = "ledger" /\ Spend!LedgerNext
  \/ /\ part \in {"listing", "settling", "schema", "queue", "local"}
     /\ UNCHANGED <<part, stores, runners>>
     /\ \/ part = "listing" /\ Listing!ListNext /\ UNCHANGED <<settleVars, migVars, queueVars, localVars>>
        \/ part = "settling" /\ Settling!SettleNext /\ UNCHANGED <<listVars, migVars, queueVars, localVars>>
        \/ part = "schema" /\ Schema!MigNext /\ UNCHANGED <<listVars, settleVars, queueVars, localVars>>
        \/ part = "queue" /\ Queue!Next /\ UNCHANGED <<listVars, settleVars, migVars, localVars>>
        \/ part = "local" /\ Local!LocalNext /\ UNCHANGED <<listVars, settleVars, migVars, queueVars>>
  \/ /\ part \in {"runs", "prompt", "sandbox", "summary", "cards"}
     /\ UNCHANGED <<part, stores, admins>>
     /\ \/ part = "runs" /\ Agents!Next /\ UNCHANGED <<promptVars, sandboxVars, roundVars, cardVars>>
        \/ part = "prompt" /\ Prompt!PromptNext /\ UNCHANGED <<agentVars, sandboxVars, roundVars, cardVars>>
        \/ part = "sandbox" /\ Sandbox!SandboxNext /\ UNCHANGED <<agentVars, promptVars, roundVars, cardVars>>
        \/ part = "summary" /\ Summary!RoundNext /\ UNCHANGED <<agentVars, promptVars, sandboxVars, cardVars>>
        \/ part = "cards" /\ Cards!CardNext /\ UNCHANGED <<agentVars, promptVars, sandboxVars, roundVars>>

vars == <<part, stores, admins, runners>>

Spec == Init /\ [][Next]_vars

---------------------------------------------------------------------------

\* A call of FlowQueue.enqueue that returned has its job in Flow, or found it there; only
\* fresh work is refused for depth (adapters/flow.ts, enqueue). A job the other queues took
\* is kept until it is withdrawn or handed on, once and not before its time
\* (adapters/inline.ts, adapters/memory.ts, adapters/qstash.ts).
QueuesKeepJobs ==
  /\ part = "queue" => Queue!EnqueueTellsTruth
  /\ part = "local" => Local!JobsAreKept

\* However nested runs park, end, die and are resumed, a tool call gets no second result,
\* as long as no two approvals wait in one nested run or below it (core/engine.ts,
\* unwindVerdict; core/subagent.ts, runNestedAgent).
CallsAnsweredOnce == part = "runs" => Agents!CallsAnsweredOnce

\* No frame waits for a run slot that only a run waiting for it could free
\* (core/subagent.ts, RunSlots).
NobodyStuck == part = "runs" => Agents!NobodyStuck

\* A run and all it nests spend one budget, across parks and deliveries: each loop can
\* finish at most one step past it (core/usage.ts, RunLedger).
SpendBounded == part = "runs" => Agents!SpendBounded

\* With no worker at work, exactly the nested runs that an open approval hangs below have
\* a record that is RUNNING (core/subagent.ts, spawnSubagentTool and closeNested).
RecordsMatchParks == part = "runs" => Agents!RecordsMatchParks

\* An approved tool runs once, unless a worker dies between it and its kept output, and
\* not while another approval of its run is open (core/engine.ts, settleVerdict).
ToolRunsOnce == part = "runs" => Agents!ToolRunsOnce

\* The same of every call, also where a park was raised by a step that failed, or two wait in
\* one nested run: what the comments at core/hitl.ts:123 and core/engine.ts:183 promise.
EveryCallAnsweredOnce == part = "runs" => Agents!EveryCallAnsweredOnce

\* A reader of any stream adapter gives out the stream from its cursor, each item once,
\* none skipped, and ends at its end (ports/streams.ts, read).
ReadsExact == part = "streams" => Streams!ReadsExact

\* Two entries of a thread's record never share a seq and no seq is minted that is not above
\* every one before it, until the newest entry is pruned, whichever adapter mints it
\* (adapters/memory.ts, sqlite.ts and prisma.ts, events.append); and a thread whose delete
\* went through leaves nothing behind but what runs wrote that were at work under it, the
\* worker of a stopped run among them (core/deleteThread.ts, core/stop.ts).
ThreadsAreKept ==
  part = "threads" => Threads!OneEntryPerSeq /\ Threads!SeqsNeverRepeat /\ Threads!DeletedIsGone

\* A tab that has shown all it was sent has each call, result and nested run once, as the
\* thread's messages and records have them, wherever it read the thread in between
\* (use-agentenkit, useAgentThread.ts; core/snapshot.ts).
CardsAreTruth == part = "cards" => Cards!CardsAreTruth

\* Whoever is subscribed is in the set its thread's open channel delivers to, and no
\* channel outlives its subscribers (adapters/redis.ts, adapters/flow.ts, subscribe).
SubscribersAreHeard == part = "bus" => Bus!SubscribersAreHeard

\* A sweep visits every run that matched all along, and none twice (runtime.ts, eachRun).
SweepCovers == part = "listing" => Listing!SweepCovers

\* A run is settled once, by one settler at a time (core/settle.ts, settleRun).
SettledOnce == part = "settling" => Settling!SettledOnce

\* The admin schema moves on in order, a release's migrations at a time, and is there
\* before the calls that need it (admin/migrations/runner.ts).
SchemaInOrder == part = "schema" => Schema!SchemaInOrder

\* What the model is sent tells each turn once, by itself or in one summary, with every
\* tool call answered (core/messages.ts, promptHistory; core/context.ts, compactContext),
\* and a summary is made of every line, in rounds that end (core/context.ts, summarizeLines).
PromptIsWhole ==
  /\ part = "prompt" => Prompt!PromptIsWhole
  /\ part = "summary" => Summary!RoundsEnd

\* No tool call works in another run's sandbox, and no sandbox is up that nobody can find
\* (core/builtin/sandbox.ts).
SandboxesAreOwned == part = "sandbox" => Sandbox!SandboxesAreOwned

\* Every adapter gives one bill for the same calls, and never adds two currencies
\* (core/usage.ts, UsageMerger); a token is billed once, and the ledger the caps are checked
\* against is the run's bill, across segments (core/usage.ts, attributeTokens, RunLedger).
BillsAgree ==
  /\ part = "bills" => Bills!TotalsAgree
  /\ part = "ledger" => Spend!TokensCountedOnce /\ Spend!LedgerIsBill

\* Every step of every stream adapter is a step of the port, RunStreams.
StreamsKeepContract == [][part = "streams" => Streams!KeepsContract]_(Streams!Stream)

\* Every step of every Kv adapter is a step of the port, KvPort, but for what MemoryKv makes
\* of a key that changes between its read and its write (adapters/memory.ts, MemoryKv).
KvKeepsContract == [][part = "kv" => Kv!KvStep]_<<Kv!View, asked, answer>>

\* An incrWithExpiry on a live counter is told the number after the one it holds: what the
\* comments at adapters/memory.ts:76 and ports/kv.ts:15 promise.
CountsOn ==
  [][part = "kv" => \A c \in KvCallers :
       asked[c] # Null /\ asked[c].op = "incrWithExpiry" /\ asked'[c] = Null /\ Kv!Live(cell)
         => answer'[c] = Kv!Count(cell.value + 1)]_kvVars
=============================================================================
