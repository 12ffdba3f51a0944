# agentenkit in TLA+

agentenkit runs language-model agents as queue jobs. A *thread* is a
conversation; a *run* is one user turn on it; a *segment* is one delivery of the
run's job to a worker. Nothing holds the system together but conditional writes
on a database row, a key-value store with expiring keys, a queue that delivers
at least once, and logs that a reader follows from a cursor. These modules model
that: which run moves a thread and who may work on it, what a killed process
leaves behind and who finds it, what a worker streams and what a reader of it
gets, what the user's tab shows, and what each storage, queue and bus adapter
must keep for the rest to hold.

Paths are under `packages/agentenkit/src/` unless they begin with another
package. The Go runtime (`packages/go-agentenkit`) is a port kept in step by
`packages/parity`; the model follows the TypeScript source.

1. [Inventory](#1-inventory), 2. [Modules](#2-modules), 3. [Runs](#3-runs),
4. [Fairness](#4-fairness), 5. [Proofs](#5-proofs),
6. [Where the code does not keep what it says](#6-where-the-code-does-not-keep-what-it-says),
7. [Not modelled](#7-not-modelled), 8. [Plan](#8-plan)

## 1. Inventory

| Part | State it keeps | What is hard | What makes it correct | Module |
|---|---|---|---|---|
| Run dispatch, `core/run.ts` | thread row, hot state and current run id in kv, run record, user turn | ten writes with no transaction; two senders; a stop in the middle; a throw or a kill after any write | one run at a time; an active thread always has somebody who moves it; turns keep their order | `RunLifecycle` |
| Stop, `core/stop.ts` | the same, plus open approvals | it holds no lock: it races the worker, the next send and the answer to an approval | a stopped run stays stopped; a parked call gets one result | `RunLifecycle` |
| Run lock, `core/lease.ts` | `agent:lock:{thread}` | a holder stalled past its lease wakes up; duplicates of the holder's own job | exclusion while leases hold; nobody frees another's lock | `RunLifecycle` |
| Thread state machine, `core/publish.ts` | thread row and hot state | two writes that another transition can interleave | every change is a legal edge by the owning run | `RunLifecycle`, `ThreadLife` |
| Segments and retries, `core/engine.ts` | record, attempts, redrives, queue | redelivery of a run that already answered; stop, shutdown, timeout and lost lease share one abort signal | a run answers once; no outcome strands the thread; a run ends | `RunLifecycle` |
| Step loop, `core/loop.ts` | history, steps | the fence is a read, the append a later write | a worker that knows its lease is lost writes nothing more | `RunLifecycle`, `NestedRuns` |
| Approvals, `core/hitl.ts` | approval events, answer keys, expiry jobs, the park box | several requests at several levels answered in any order over several deliveries | one result per call; an approved tool runs once | `RunLifecycle`, `NestedRuns` |
| Subagents, `core/subagent.ts` | slots per depth, frames, their records | a parent holds a slot while its children wait for one; parks and failures below a running parent | no deadlock; records say what hangs | `NestedRuns` |
| Usage and budgets, `core/usage.ts`, `budget.ts` | the run's ledger, usage rows | nested runs share one ledger, deliveries pass it on through rows; providers report the same tokens in several ways | a token is billed once; a cap is overshot by at most a step per loop | `RunLedger`, `UsageTotals`, `NestedRuns` |
| Reclaim sweep, `core/reclaim.ts` | none | it infers "nobody works on this" from three reads | what a dead worker leaves is found, and a live run is not run twice | `RunLifecycle`, `Segments` |
| Settling, `core/settle.ts` | settle claim on the record | a claim with a takeover time; a store that fails after it did the work | each run settled once, and at least once | `SettleClaims`, `RunLifecycle` |
| Run streams, writer: `core/segment.ts`, `stream.ts`, `stream-events.ts` | one stream per segment, two layers of buffers with timers | concurrent agents share a stream; appends fail; a dead worker's stream | whole, nested and in order; one open stream; every stream ends | `Segments`, `RunStreams` |
| Run streams, reader: `core/follow.ts`, `snapshot.ts` | a cursor per connection | a follower crosses from log to bus and from stream to stream; cursors come from clients | each record entry and item once, in order, to the end | `Follow` |
| React client, `packages/use-agentenkit` | what the tab shows | deltas, items, saved messages, snapshots and optimistic turns bring one text in any order | text shown once, only this thread's; at rest, the server's truth | `AgentThread` |
| Context, `core/context.ts`, `messages.ts` | summaries in the history | two compactions beside an edit; histories cut by a crash | each turn told once, every call paired with a result | `Prompts`, `SummaryRounds` |
| Deletion and pruning, `core/deleteThread.ts`, `prune.ts` | everything of a thread | runs that dispatch, append and end meanwhile; the worker of a stopped run | a deleted thread leaves nothing but what a run at work under the delete wrote | `ThreadStore` |
| Queues, `adapters/flow.ts`, `inline.ts`, `memory.ts`, `qstash.ts` | jobs, keys, timers | Flow frees and lists keys late; answers get lost; a process-local queue forgets | a job that was taken is kept, once | `FlowQueue`, `LocalQueues` |
| Storage, `adapters/memory.ts`, `sqlite.ts`, `prisma.ts` | rows | each mints seqs in another way | no seq is shared | `ThreadStore`, `UsageTotals` |
| Kv, `adapters/memory.ts`, `sqlite.ts`, `redis.ts`, `upstash.ts` | keys with expiry | conditional writes made of a read and a write | each call is one step of the port | `KvStores`, `KvPort` |
| Buses, `adapters/memory.ts`, `redis.ts`, `flow.ts` | subscriptions, shared channels | the last to leave closes the channel another is joining | whoever subscribed is heard | `Buses` |
| Stream stores, five adapters of `ports/streams.ts` | one log per stream | look-then-wait beside appends, closes, expiry and deletes | every step is one of the port; a reader skips nothing | `StreamStores`, `RunStreams` |
| Admin stores, `admin/` | run records, migrations ledger | pages over runs that move; releases starting together on one database | a sweep visits all; the schema moves in order | `RunListing`, `SettleClaims`, `Migrations` |
| Sandboxes of tools, `core/builtin/sandbox.ts` | a record in kv, handles in memory | parallel calls, expiry, release by an ending run, dead workers | no call works in another run's sandbox | `Sandboxes` |
| Web tools, MCP, sandbox adapters, admin queries | | I/O for the model; read-only views | | none |

How they interact. `run()` claims the thread row, writes the kv keys and the
record, appends the user turn and enqueues a job. The queue hands the job to
`execute`, which takes the lock, opens the segment's stream, reads what the
thread says, and moves it through `transition`. `stop()` writes the same row and
kv keys without the lock; the worker finds out by polling the hot state
(`controlPoll`). The sweep reads the row, the lock and the queue, and enqueues a
job or heals the row, and closes a lost stream. Readers get record entries from
the log and the bus, stream items from the stream, and notices from the bus
alone; the tab puts them together. Every process can be killed between two
awaits; the lock's expiry, the queue's redelivery and the sweep are what is left.

## 2. Modules

| Module | Role |
|---|---|
| `RunLifecycle` | one thread: dispatching calls, workers, a stop, the sweep, their ports and failures |
| `RunLifecycleProperties` | its type invariant, safety, action and liveness properties |
| `ThreadLife` | abstract specification of the thread row, which `RunLifecycle` implements |
| `RunLifecycleProofs` | its inductive invariants; type correctness, the lock, the refinement, and why the sweep finds what a dead worker left |
| `ConversationProofs` | why a run's turns stay together and it answers once |
| `RunStreams` | the port of run streams, as operators on the value of one stream |
| `Segments`, `SegmentsProperties` | the worker's side of the streams of one run, over several deliveries |
| `SegmentsProofs` | why one stream is open at a time, the record tells the truth and the sweep spares the living |
| `Follow`, `FollowProperties` | the reader's side: one client, its connections, the record and two streams |
| `AgentThread`, `AgentThreadProperties` | the React hook on a server that does what the modules above say |
| `NestedRuns` | one run's main agent and its nested runs, with parks, budget, failures and deaths |
| `AgentsProofs` | why nested runs stay in the budget and never wait for each other in a ring, an approved tool runs once, a call has one result, and records are true to the parks |
| `FlowQueue`, `LocalQueues` | the queue adapters |
| `StreamStores` | the five stream adapters, each an implementation of `RunStreams` |
| `KvPort`, `KvStores` | one key's port, and the four adapters as its implementations |
| `ThreadStore` | rows, seqs, prunes and deletes over three storages |
| `Buses` | subscriptions over three buses |
| `StreamProofs`, `PortProofs` | that every stream and every Kv adapter implements its port, a reader or a subscriber gets what is there, a queue keeps its jobs, a run is settled once, and a sandbox has one run and somebody who knows it |
| `RunListing`, `SettleClaims`, `Migrations` | the admin stores |
| `StoreProofs` | why the schema moves on in order, what a thread's record and its delete keep, and what a sweep visits |
| `Prompts`, `SummaryRounds` | what goes to the model |
| `Sandboxes` | who owns a sandbox |
| `UsageTotals`, `RunLedger` | what a thread cost, and what a run may still spend |
| `ThreadCards` | the cards of tool calls and nested runs in a tab |
| `Services` | the modules from `NestedRuns` down, composed, and what each promises there |
| `ServicesProofs` | theorems about the composition |
| `MC*` | instances for TLC |

`Services` composes the modules from `NestedRuns` down, with a constant for each
bound; `MCServices` gives them values. They share no state (each stands behind
another port), so a behaviour of `Services` is one of one of them, chosen by
`part` when it starts; the others stay at their first state.
Where the services do meet, the meeting is in the model above them:
`RunLifecycle` uses the queue and the kv by their contracts, `Segments` and
`Follow` use the stream port that `StreamStores` implements, `Follow` writes as
`Segments` does, and `AgentThread`'s server sends what `Follow` sends.

### RunLifecycle and the code

*State.* `state` and `owner` are the thread row (`ThreadRow.state`, `runId`).
`hot`, `cur`, `lock`, `attempts` and `redrives` are the kv keys
`agent:state`, `agent:run`, `agent:lock`, `agent:attempts` and `agent:redrive`.
`rec` is the admin store's run record (state, whether `endedAt` and `settledAt`
are set). `messages` is the main agent's history reduced to who wrote an entry
and what it is: a user turn, a tool step, a call that parks, its result, an
answer. `open` says of each run's park whether it was asked and answered.
`queue` holds jobs with the dispatch id `enqueueJob` stamps on them. The other
variables are the program counters and locals of each process: what a call read
before it claimed the thread, what a stop read, a worker's job, outcome, abort
signal, and whether it knows its lease is lost.

*Steps.* An action is one await another process can see between. `transition`
is two steps, the compare-and-set (`CanMove`) and the hot write (`Hot`,
`StopHot`, `RunHot`, `SweepHot`), because the order in which two transitions
write the hot state is what goes wrong. The same holds for `closeRunRecord`,
which reads (`CloseRead`) and then patches (`ClosePatch`). Reads that no
decision separates are one step with the decision they feed.

*Calls.* `RunBegin` reads; `RunAdmit` claims; `RunHot`, `RunInstall`,
`RunStart`, `RunCheck`, `RunAppend`, `RunCheck`, `RunEnqueue` follow in the
order of `run()`. `RunThrows` is any of these writes throwing, `RunFail` and
`RunFailHot` are `failDispatch`, and `RunDies` is a killed process.

*Stops.* `StopRead`, `StopWhich`, `StopCas`, `StopHot`, `StopRecord`,
`StopLease`, `StopSettle`, `StopRelease`, `StopParks` follow `stop()`;
`StopDies` kills it.

*Workers.* `Deliver`, `Acquire`, `Check`, `Refuse`, `Pickup`, `Hot`,
`PickRecord`, `Resume`, `Land`, `Unpark`, `Early` and the loop `Model`,
`Commit`, `Park`, `Ask`, `Parked`, `LoopEnd` are `execute` and `runLoop`;
`Finalize`, `CloseRead`, `ClosePatch` are `finalize`; `Release` on are
`executeWithPolicy`, with `Redrive` for a lock conflict, `Policy`, `MarkQueued`,
`QueueRecord`, `Requeue` for a retry, and `FailSettle`, `FailRun` for a failure.
`DeadJob` and `LostRun` are `handleDeadJob`. `Poll` is the control poll,
`LeaseLost` the renewal timer, `SegmentFails` an await that throws, `Shutdown` a
worker told to stop, `WorkerDies` a killed one. The `out` of a delivery carries
what `execute` returned or threw to the code that follows.

*Sweep and environment.* `SweepFind` takes the reads of `reclaimIfOrphaned` in
one step, `SweepEnqueue` and `SweepHeal`, `SweepHot` act on them. `Respond`
answers an approval. `LockExpires` removes the lock of a holder that is gone,
`LockLapses` that of one which is stalled.

*Abstractions.* An approval has one request at a time and `respond()` is one
step (`NestedRuns` has several). Settling is one step that marks the record or
fails to (`SettleClaims` has the claim). `dispatchActive` is called three times
in `run()`; between the second and the third nothing can fail the run, so they
are one check here. Writes to the admin store either succeed or throw as a whole
segment does; writes that the code swallows succeed. A killed process gets no
second life under its own name; its job comes back to another worker.
`MaxRedrives` is assumed to cover the wait for a lease, since time is not
modelled. A hot write of the admission that throws is past every `catch` of
`run()` and is the same as a kill there (`RunDies`).

### Segments, Follow, AgentThread

`Segments` has a record per delivery: where its worker is, its agents with their
`ChunkBatcher`s, the segment's buffer and the appends in flight. A model part is
its serial number, so a stream can be compared with what was produced.
`Acquire`, `TakeNumber`, `OpenStream`, `RecordStart` are `openSegment`; `Part`,
`Send`, `CallEnds`, `Commit`, `NextStep` the loop's chunks and the flush before a
step is committed; `Finish` or `Cut`, `CloseBlocks`, `CloseFlush`, `CloseStream`,
`RecordEnd`, `Release` the end. The two flush timers (`BatchTimer`,
`FlushTimer`) are actions of their own. `OpenFails` is `openSegment`'s `catch`: the
worker goes on in the dark, without a stream if the open threw, still pushing to the
one it opened if RUN_STARTED could not be recorded, and then ends the run or is cut
like any other (`DarkFinish`, `DarkCut`), closing nothing. `Stop` ends the run from
outside. The sweep reads the lock, then the queue, then the segment counter, and then
closes (`SweepLock`, `SweepQueue`, `SweepReads` to `SweepRecords`). A second sweep, of
another host or of a call that touches the thread, may set out while the first is
under way, and a queue that cannot look a job up lets a sweep through that another
would not (the fault `overlap`). `done` says that the run has ended and the thread with
it: no sweep visits it from then on (`core/reclaim.ts:44-45`).

`Follow` has one writer (`Segments` with one step of one part per segment), the
log and the bus with what is in flight, the follower's event loop
(`followEvents`: subscribe, replay, live, gap), its current stream read
(`followThread`), the wire and the client's cursor. A cut drops the wire and the
client comes back at its cursor; `hydrate` loads a snapshot first.

`AgentThread` has the server's thread (messages, state, request, record and
streams), the connection with its wire, the tab, one request for the thread's
history and one send at a time, which go on after the tab has gone to another
thread. `applyFrame` is an operator per frame and state; the thread effect, the
optimistic turn, its rollback and the edit are actions.

### The services

`NestedRuns` runs a tree of agents (`Parent`) with slots per depth. A loop's step
calls the model, which may spawn, park or answer; a park goes into the box that
the main agent's next save commits. Answers are re-delivered: the unwind lands a
verdict in the run that asked, re-enters it, and hands its result up call by
call. A worker may be killed at each point; the kept output of a tool (`toolKept`)
and the rows of spend are what the next delivery reads.

`FlowQueue` models Flow from how `adapters/flow.ts` uses it: a run holds its key
while live and a moment longer, the index that lists runs lags, answers get
lost. `LocalQueues` has the timers of the inline queue, the drained memory queue
and QStash's deduplication. `StreamStores` has each adapter's append, close, read
and delete with the awaits between; what it shows of a stream is a value of
`RunStreams`. `KvStores` takes apart the calls of `MemoryKv` that await their own
`get`: other calls and the key's expiry come between the read and the write.
`ThreadStore` mints seqs as each storage does (the highest plus one in one
step or statement, or a read and an insert that is retried on a conflict). Its runs
are dispatched (`Claims`, `Installs`, `Checks`, `SavesTurn`), executed (`Begins`, `Opens`,
`Goes`, `Ends`, `Closes`, `Finishes`) and stopped (`Stops`, `StopWrites`): a stop moves the
row and leaves the worker where it is, which goes on to say, bill and record what it
has in hand; `Deletes` looks at the row alone.
`Buses` has the join, the last leave and the opening of a channel, which may
time out. `SettleClaims`, `RunListing` and `Migrations` have the conditional
updates, the cursor and the transactions of the admin stores, each dialect where
they differ. `Prompts` has compactions that read, call a model and append, beside
turns and an edit; `SummaryRounds` the chunks and rounds of one summary.
`Sandboxes` has the shared acquire of parallel tool calls, expiry, release and
death. `RunLedger` sorts what a provider reports into the four counters, prices
it, stores its row and books it; `UsageTotals` merges rows as each storage does.

`ThreadCards` follows one run's calls, of a tool, of a tool that waits and of
`spawnSubagent`, from the stream, the messages, the run records and the requests to
the cards `useAgentThread` makes of them: `Applied` is the reducer, `FromMessages`
and `Hydrated` a snapshot, `Cut` what the snapshot leaves out of a stream. Reading a
thread is two actions (`Reads` the messages and records, `Lands` the rest), and
`slips` remembers what the code is known not to follow (section 6).

## 3. Runs

All runs allow deadlock: the system rests when every call has returned and no
event is left. Every bound is a constant or a budget of the MC module: how often
each kind of event may happen in one behaviour. A set of budgets makes one run
of several questions, each small; TLC explores all of them.

| Run | Instance | Question |
|---|---|---|
| `safety` | 2 calls: a stop; a throw and a segment that fails; 2 deaths and 2 sweeps. 1 call: 2 errors; error and duplicate; park, sweep and duplicate; lapse, duplicate and sweep; slow and killed dispatch, death and 2 sweeps; stop, death and sweep | is an active thread always tended or findable, does the lock exclude, does a run complete only with work of its own and answer once, do two runs' turns stay apart, do row, hot state and record tell one story, and is every move one of `ThreadLife`? |
| `progress` | 1 call, fairness; error, death and sweep; stop, death and sweep; a park nobody answers and a sweep | does every run end? |
| `segments` | 3 deliveries, main agent and one nested, two sweepers, fairness, 14 budgets of parts and faults | what does a reader of a run's streams find in them, and does every stream end? |
| `follow` | 2 segments of 4 items, a live queue of 1, a wire of 1, 2 gap retries, 6 starts | does a client get each entry and item once, in order and to the end? |
| `agent_thread` | 1 or 2 turns of 1 or 2 steps, 7 starts | is the screen the thread? |
| `services` | sixteen parts, one a behaviour, bounds in `Services*.cfg` and `MCServices` | does each service keep what its port promises? |

`safety` and `progress`: two workers (the least at which two deliveries
meet), `MaxSteps = 1`, `MaxAttempts = 2`, `MaxJobs = 4` (5 in `progress`): a run
can be dispatched, retried twice and re-dispatched by the sweep. `MaxRedrives` is
2, 4 where a delivery has to outwait a lapse, 1 in `progress`. Threads start
from a completed one, so the history ends in somebody else's answer and the
thread has a previous owner, which is the harder start: from `IDLE` nothing
stale can be read. A third call would only repeat what the second does to the
first, since a call meets others through the thread's current owner alone. Two
errors reach the last attempt. In `safety` workers are symmetric, and so are the
two calls with their run ids; where the faults are of one call the other never
begins (`MCSpec`). Symmetry is not used where liveness is checked.

`segments`: three deliveries are a first, one that finds a lost stream, and one
that finds what the second left. Three events fill a batch (`FlushEvents`), so a
batch fills, flushes by its timer, and overlaps an append. Two sweepers are what it
takes for sweeps to overlap; the second moves only in the budgets that have an
overlap, where `SweepQueue` may spend it (`MCSpec`), since a sweep that changes nothing
but itself is seen with one. `follow`: two segments
are the least with a hand-over; a live queue and a wire of one reach overflow
and a reader that blocks with one event each. `agent_thread`: a second turn
meets the first one's late frames, a second visit the first one's history.

`services`: two callers, two workers or two readers where two can race, three where the
third makes a difference (settlers after a takeover, processes of two releases, handlers
on a channel), up to four runs on pages of two, and every adapter of a port. The thread
store has two runs; the second is sent after the first, on a record with nothing to
prune, without the app's appends and with a delete that does not die (`SecondRun`): a
stopped run whose worker is still at it beside the next run is in it, and the theorem is
for any number of runs. `NestedRuns` has four nested runs, one of them three deep and
refused by the depth limit, a slot per depth, and three approvals at three levels.

What the properties are about:

- *Lifecycle.* `MutualExclusion` is stated while no lease lapses under its
  holder, which is all the code promises: the append that follows the fence has
  no condition on the lock. `KeepsLock` and `ImplementsLife` hold with lapses.
  `Driven` says an active thread has a job, a dispatch, a stop, a sweep or a human
  that will move it, while no process is killed, no write of a dispatch throws and no
  job comes twice;
  `Recoverable` says that a thread which is QUEUED or RUNNING has one of these or
  can be found by the sweep (the current run is the row's and has a record), also
  after workers died. `TurnsInOrder` and `AnswersOnce` are about the history and
  are stated where the code has no hole in it (`Calm`): no lapse, no dispatch
  slower than a lease, and either only one run ever had the thread or no run was
  stopped, parked or delivered twice. `UnstoppedWorked` says that a run which
  completed did something, until a run is stopped, a worker dies, a job comes twice or
  a dispatch is slower than a lease. `EndedStaysFree` compares the three places that record
  an ending, row, hot state and run record, when nothing is under way; it is about what
  deliveries, parks and sweeps do to them, without a stop, an error or a killed process.
- *Streams.* `StepsWhole` compares what a stream shows with what the agents
  produced, through both buffers. `OneOpenStream`, `RecordFollowsStream`,
  `NeverCutsLive` relate streams to the lock, the record and the sweep; the last is
  stated without overlapping sweeps, so it shows that the sweep's reads suffice for one
  sweep and not what two do (section 6). `EveryStreamEnds` is liveness: an open stream is
  closed, or a later one is there to go on with. A number that was taken and not opened
  does not count. `Left` names the streams that stay open until they expire.
- *Readers.* `ReadsWhole` spans reconnects: the client's history of entries and
  offsets has no gap and no repetition, but for the content a snapshot leaves out
  because its message is saved (`cutCommitted`). `NothingLost` is rule 1 of
  `followEvents`. `StreamsAreRead` says the follow comes to rest only with the
  last segment read to its end; it is liveness told as safety of states where
  only faults are left to happen.
- *Tab.* `NothingTwice` and `OnlyThisThread` hold in every state,
  `ScreenIsTruth` whenever nothing is under way. A failed send's rollback over what came
  meanwhile, and a turn that follows the tab to another thread, are outside the last.
- *Services.* `QueuesKeepJobs`, `CallsAnsweredOnce`, `NobodyStuck`, `SpendBounded`,
  `RecordsMatchParks`, `ToolRunsOnce`, `ReadsExact`, `ThreadsAreKept`,
  `SubscribersAreHeard`, `SweepCovers`, `SettledOnce`, `SchemaInOrder`, `PromptIsWhole`,
  `SandboxesAreOwned`, `BillsAgree`, `CardsAreTruth`; `StreamsKeepContract` and
  `KvKeepsContract` say that each adapter implements its port, step by step.
  `KvKeepsContract` allows one kind of step the port has not, `Slips`: a call of
  `MemoryKv` under which the key changed between its read and its write, and what still
  holds of it. `ThreadsAreKept` bounds what a delete may leave to runs that were at work
  when it looked or took the thread after it. `RecordsMatchParks` is of runs on which no
  loop was cut under another.

Where a property begins with `Spared(...)`, it is stated for behaviours without
those faults. Section 6 says what happens with them.

## 4. Fairness

`RunLifecycle!Fairness` is weak fairness of: each call's dispatch, the stop, the
sweep's own steps, delivery, each worker's handling, the expiry of an abandoned
lock, and the start of a sweep. The first ones say that a process which is not
killed takes its next step; delivery says the queue hands out what it holds
while a worker is free; expiry is the kv store's clock; and the host is told to
call `reclaimStuckRuns` from a timer, which is `SweepFind`. Weak fairness
suffices because each stays enabled until taken. No fairness is assumed of
failures, of answers to an approval or of the poll. The number of sweeps is
bounded, so a run that is lost again after the last one would be a
counterexample: the budgets of `progress` allow one loss and one sweep.

`Segments!Fairness` is weak fairness of each delivery's own steps and timers
(`Progress`, which has none of the faults) and of each sweeper (`Sweep`).
`EveryStreamEnds` leaves out a stream whose RUN_STARTED could not be recorded
or whose close failed (nobody looks for either again), one that nobody is left to close
(`Left`), and a behaviour that has used up its deliveries, a bound of the model. The run's
specification is `MCSpec` of `MCSegments`, with the same fairness.

`Follow` and `AgentThread` are checked for safety only; they need no fairness.

## 5. Proofs

`RunLifecycleProofs` proves, for any sets of calls, runs, ids and workers, any
number of events and any bounds:

- `TypeCorrect`: `Spec => []TypeOK`.
- `Exclusion`: `Spec => []MutualExclusion`.
- `LockKept`: `Spec => KeepsLock`.
- `Implementation`: `OwnIdsOnly => (Spec => ImplementsLife)`, that is, every
  step is a step of `ThreadLife` or leaves its variables alone.

They rest on the assumptions of `RunLifecycle` (the absent id and the names of
holders are none of the runs and workers; bounds are naturals; the thread starts
idle or ended) and, for the last, that two calls never name the same run id.
That one is needed: see *Reused run id* in section 6.

`TypeOK` is not inductive: `Ack` indexes counters by the job's run, `Hot`
goes on where `then` says, `AfterRelease` has a case for some outcomes only.
`IInv` adds what each process knows where it stands: a call has an id it may
name and claims only a thread it saw at rest (`CallKnows`); a sweep has a run
(`SweepKnows`); a delivery has a job, and its place tells how its segment ended
and where it will go on (`WorkerKnows`). The proof goes by actor: `CallKeeps`,
`StopKeeps`, `HealingKeeps` and, for workers, `PickupKeeps`, `LoopKeeps` and
`EndKeeps`, each with a step per action; short lemmas say what the shared
pieces of the actions do.

`MutualExclusion` needs that whoever works holds the lock: `LockInv` says, while
nothing lapsed, that a leased delivery is named in the lock and does not think
its lease lost, and the same of a settling stop. `ComesNoCloser` and
`LeavesLock` show that a step of one holder neither makes another leased nor
takes its lock. `KeepsLock` follows from the actions alone: only a release, an
expiry or a lapse changes who is in the lock. `Implementation` uses `IInv` for
the claim (a thread seen at rest and unchanged since is at rest) and for what a
finish writes (a terminal state).

It also proves, for the same constants:

- `NeverOutOfReach`: `OwnIdsOnly => (Spec => []Recoverable)`.

A run that its call has not installed left no trace (`Begins`: it is not the
current run, and no record, message, job, stop or approval names it), and a record
that exists stays (`RecordsStay`). So `CurFollows` can say that the current run is the
row's owner while the thread is going, but for a QUEUED owner that sent nothing yet, and
`Reaches` that, with no dispatch killed or failed, such an owner is on its way to its
record. `StopNames` and `Reserved` are about a stop, which reads the thread and the
run's id in two steps: it names a run, and a thread that was claimed and whose
run is not installed stays as it was claimed.

`ConversationProofs` proves, also for the same constants:

- `TurnsStayTogether`: `OwnIdsOnly => (Spec => []TurnsInOrder)`.
- `AnswersAreSingle`: `OwnIdsOnly => (Spec => []AnswersOnce)`.

`Known` collects what holds of a calm thread before its messages are looked at:
`IInv`, `LockInv` and the facts above; that a call between claim and enqueue
has the thread to itself (`Dispatches`); that a run has one job at a time where
none is duplicated (`CalmJobs`), hence the delivery past its pickup finds
the thread RUNNING and its own (`CalmRunning`); and, where only one run ever had
the thread, that nobody asks on a running one (`CalmAsking`) and what was stopped
stays so (`Stopped`). `WorkerPath` says for each place inside a segment which step leads to
it, so the invariants about places are proved once per place and not once
per action. On top, `Answers` says that a delivery before its answer serves a
run that has none, and that an answer is the last entry while its run is the
current one; `Conversation` adds that the current run's turns come last, and
`AnswersOnce`'s first half and `TurnsInOrder` follow. For the second half, `Owed`
counts: a run has as many calls as results, and one more while one is outstanding.

`SegmentsProofs` proves, for any number of deliveries, sweepers and nested
agents, any batch size and any budgets:

- `OneStreamOpens`: `Spec => []OneOpenStream`.

Its invariant has a part that always holds, `Shape` (streams and deliveries are
records with their fields, which `EXCEPT` needs), and a part that holds until a
worker dies, stalls past its lease, or cannot record its start or close, `Owned`: whoever
works holds the lock, and an open stream is the one its holder opened and has
not closed. Two open streams would then have one holder and one number. Each
action either leaves the streams' states, the lock and the deliveries' places
alone (`Still`), or moves one delivery that holds the lock (`Moves`), or is one
of the few that open, close, take or give back (`PortsKeep`).

- `RecordTellsTruth`: `Spec => []RecordFollowsStream`.
- `SweepSparesTheLiving`: `Spec => NeverCutsLive`.

Both rest on `Whole`, which adds to `Inv`:

- *Numbers.* Each delivery that took a number has one of its own, and the counter is
  how many did (`Numbered`, by cardinality); a number nobody took has no stream and
  no record (`Unopened`).
- *Places.* What each delivery's and each sweep's place says of the stream it names
  (absent, there, closed unless a close failed), that nothing is buffered before the
  stream is open, and that a closed stream's last item is an end (`StreamsOk`, `DelsOk`,
  `SweepsOk`).
- *Record.* It says RUN_STARTED of streams that are there and RUN_ENDED of closed
  ones (`RecOk`).
- *Lock.* Whoever works holds it (`Holds`), until a lease lapses. While a sweep is under
  way no worker holds it, and until the run has ended nobody works and no job waits
  (`Seeks`): a sweep sets out when the queue has no job, waiting or leased, and only it
  can call a worker then; or it is `failLostRun`'s, which has the lock and has ended the
  run. This is `NeverCutsLive`.
- *Ends.* Until a lease lapses or sweeps overlap, what a worker writes is open, so is
  what a sweep is about to close; until a close fails too, whoever closed a stream is
  the first to record its end (`Calmly`). Hence RUN_ENDED once.
- *Starts.* While also no append fails, RUN_STARTED is the first item of a recorded
  stream, and before it is there it leads what the main agent awaits (`Firsts`).

The conditions are those of the property, each with a trace if it is dropped.
`StepsWhole` stays with TLC: it filters a stream by agent (`SelectSeq`), and that a
filter of a concatenation is the concatenation of the filters is an induction over
data.

`StreamProofs` proves, for all five stream adapters and any number of events:

- `StreamsImplementPort`: `Spec => StreamsKeepContract`: every step is a step of
  `RunStreams` or leaves the stream alone.
- `ReadersAreExact`: `Spec => []ReadsExact`.

Both rest on `StreamInv`. Of the store it says that `log` is the stream for as long
as it is there (`Lifetime`), that at most one of prisma's transactions has the row's
lock, that the row is then open and what the transaction writes is still next
(`Locked`), and that every event so far is in the stream, whose offsets alone are given
(`Written`). Of the reader: it has given out the stream up to its cursor (`UpToCursor`);
its page is what comes next, and an empty page of a closed stream is at the stream's end
unless the stream went between the page's two reads (`PageIsNext`). A step of the store
only lets the stream grow while it is open, which leaves a reader as it was
(`ReaderStays`); a step of the reader leaves the store as it was (`StoreStays`).

`PortProofs` proves, for any callers, values, bounds and whichever adapter:

- `KvImplementsPort`: `PlainKv => (KvSpec => KvKeepsContract)`: every step is a step
  of `KvPort`, leaves its view alone, or is one of `Slips`.
- `BusKeepsSubscribers`: `~BusOverlaps => (BusSpec => []SubscribersAreHeard)`.

`PlainKv` says that values are positive naturals (counters and owners) and that `Null`
is none of them. Calls overlap, and a key may expire under any of them. Redis and sqlite
compare and write in one step, so only types are needed. `MemoryKv` decides on what its
`get()` returned a step ago: if the key still shows that, the write is the port's step
(`~ReadIsOld`); if not, it is a slip, and `Slips` says of each what it may do: write,
remove or decline as if the key were what it read, or count on from there
(`counts_lost`, section 6). For the bus, whoever is in is in the set of the channel the
map names (`InIsIn`); whoever waits for `FlowBus`'s socket is in a channel's set
already, so nobody closes it under them (`WaitersAreHeld`); and while `RedisBus` awaits,
nobody else is subscribed (`OneAwaits`), which is where overlapping calls break it (see
*Bus*).

And for any settlers, attempts, tool calls, runs and faults:

- `SettlesOnce`: `Unclaimed \notin Settlers => (SettleSpec => []SettledOnce)`.
- `SandboxesHaveOwners`: `SandboxSpec => []SandboxesAreOwned`.

Whoever calls the hook or marks the run holds a fresh claim while none lapsed
(`Holds`), so there is one of them; `Counted` ties the hook's effects to the mark
or to the settler about to write it; `SettledIsFree` keeps a marked run unclaimed.
A sandbox's record names the run it was made for, and so does what an acquire has
or a call uses (`MadeForTheRun`); and an acquire comes to write its record only over one
that names no other sandbox still up (`NoneIsLost`).

And for any jobs, callers, delays, caps and number of Flow's runs:

- `FlowTellsTruth`: `KeysNameNoDispatch => (Spec => []EnqueueTellsTruth)`, of `FlowQueue`.
- `LocalQueuesKeep`: `DelaysAreNat => (LocalInit /\ [][LocalNext]_localVars =>
  []JobsAreKept)`, of the three queues of `LocalQueues`.

A job's key is never the id of a dispatch: ids are uuids (`core/lease.ts`), keys name
what a job is for (`core/reclaim.ts:86`); a dispatch whose id was another job's key
would be taken for that job. Flow's runs are only added to and keep their jobs
(`FlowRunsStay`), so what a caller was told stays true. `LocalInv` ties where a job is
and how often a worker had it to what `enqueue` said of it (`JobStands`); a timer is of
a job that waits, its only one (`TimersStand`), so a withdrawn job has none; and a
remembered key is of a job that was taken (`KeysStand`). What stays of a queue when jobs
leave it (`StayingIs`) is an induction over its length.

`StoreProofs` proves, for any processes, releases and restarts, and any storages,
runs, bounds and dying deletes:

- `SchemaMovesOn`: `PlainMigrations => (MigSpec => []SchemaInOrder)`.
- `ThreadKeepsAndForgets`:
  `0 \notin Runs => (Spec => [](OneEntryPerSeq /\ SeqsNeverRepeat /\ DeletedIsGone))`
  (0 stands for no run).
- `SweepsCover`: `PlainListing => (ListSpec => []SweepCovers)`.

`PlainMigrations` says that there is a process, that nobody is not one, and that a
release has a natural number of migrations. Whoever has read the ledger holds the
dialect's lock (`HasLock`), so what it read still stands when it commits and what
it applied goes on where the ledger ends (`ReadsStand`); a gate that opened saw
its release's last migration in (`OpenIsThere`). `MissingIs` is the lemma the
steps rest on: what is left to apply is one interval.

For the thread, `ThreadInv` says that until the newest entry is pruned or deleted the record
holds the highest seq given and nothing above it, and that a top an append has read is no
higher (`SeqsHold`, with `MaxOfBounded`: a bounded set of naturals has a highest member), so
what is put above a top is new; the unique index does the rest. Of a delete that has looked
it says who is at work (`UseHolds`): every run with a dispatch, a worker or a stop under
way, and the run of a thread in use, is one of `late`. One run at a time is in its segment,
and its stream is named by the record as soon as its append is through (`SegmentHolds`,
`StreamsHold`), so the delete finds every other stream; and what the storage has after the
cascade is of late runs, or nothing, on prisma (`GoneHolds`).

`PlainListing` says that run ids are positive naturals, finitely many, that a page has room
for a run, and that a store's start times are no finer than the cursor's: with Postgres's
microseconds the theorem is false (`pages_skip`, section 6). A sweep's visits go from
newer to older (`VisitsInOrder`), its cursor is the last of them (`CursorStands`), and what
matched all along is visited or sorts after the cursor (`RestIsAhead`), so it is on this page
or a later one; a page that is not full has all there is (`ShortPage`, by cardinality).

`AgentsProofs` proves, of one run and the agents it nests, for any number of
approvals, steps, calls per step, failures and cuts:

- `SpendStaysBounded`: `IsFiniteSet(Nested), Budget \in Nat \ {0}  =>  (Spec =>
  []SpendBounded)`.
- `NeverStuck`: `SpawnTree, MaxDepth \in Nat, MaxConcurrent \in Nat \ {0}  =>
  (Spec => []NobodyStuck)`.
- `ToolsRunOnce`: `SpawnTree, MaxDepth \in Nat  =>  (Spec => []ToolRunsOnce)`.
- `CallsAnswerOnce`: `SpawnTree, MaxDepth \in Nat  =>  (Spec => []CallsAnsweredOnce)`.
- `RecordsStandForParks`: `SpawnTree, MaxDepth \in Nat  =>  (Spec => []RecordsMatchParks)`.

`SpawnTree` is what names are: a nested run is spawned by an agent that is there
already, so the agents are a tree, however deep and wide, and a run makes finitely
many calls. A budget of 0 is left out (`core/budget.ts:9` takes it for none), and
so is a depth with no slots (`Semaphore` counts at least one). The frames of a park are
a recursive function; that it is defined, and what its frames are (`AllFramed`,
`Deeper`, `UnderSteps`), is proved by a well-founded order (`LeastOf`, `Induction`).

`BudgetInv` counts the loops at work (`AtWork`): there are no more of them than were
entered (`entered`), and what was billed with one more step of each stays under the
budget and what was entered. A worker's ledger is what the run was billed (`Seed` when it
begins or resumes), so the saved step that reaches the budget ends its loop
(`SavedKeeps`), and a cut bills each loop it takes out of work once at most
(`CutBills`, `FailsKeeps`, `GoneKeeps`).

`TreeInv` ties what an agent waits for to where that is: a spawn is "queued"
exactly while it is in its depth's line, where it is once (`InLine`); a call is live only
while its agent waits for its tools, and a nested run whose call runs has its loop in
(`Nesting`); an unwind has no loops but its frame's and those below (`AtWorkBelow`).
`NobodyStuck` then looks at a deepest agent that waits (`SomebodyMoves`): it has what it
waits for, or waits for a call that can start, or for one in a line, whose slots, if
taken, are held by loops that are deeper and so do not wait.

`ToolInv` says what an unwind is: the open requests in the order they were
asked, each at the frame it stands at (`UnwindIsOpen`); that only the first has begun, and
what its stage says of its result and those above it (`UnwindStands`); that a tool which
ran and has no result is the first open request's, with every request answered
(`FirstOpen`); that a call is asked for once (`AskedOnce`); and that each
run of a tool but one is a death of the worker that had it return (`RanOnce`). A
redelivered unwind starts where the cut one stood because `IsOpen` and
`First(Waiting)` find that place in the history (`ResumesKeepsTools`, over `OnlyPicks`: what
a filter of a sequence picks, and in which order).

`OnceInv` is about the calls on the way up from a park, its `Line`. A call of a step in
progress is not in the history and has no result (`LiveIsNew`); a result is of a call in
the history or on the line of a request (`ResultsAreOf`), and a request's calls are over
(`RequestsAreOver`), so no loop writes what an unwind or a stop does. For those two, a
call above a request has its result only after the request and the calls between
(`Climbs`), and an unwind has yet to give those from its frame on theirs (`Ahead`): an
unwind that was cut and comes again, or a stop, starts at the first call that waits.
What makes it inductive is a park that is not written yet: all the way up from it
somebody waits, or some call was cut and will never be in the history (`BoxStands`), so
a park that does become a request has a line that hangs together (`MainWrites`). `Apart`
is over every request the run ever made, so a nested run that parks a second time puts
its run outside the theorem, as it does outside the property (`ParksAgainKeepsOnce`).
What two approvals below one nested run can do is under *Nested runs* in section 6; what
a park of a failed step does is the finding of `nested_twice`.

`RecordInv` says at every step whom a RUNNING record stands for (`RecordsTell`): a loop,
a park that is in the box, or a request whose result has not been handed to that nested run
(`Handing` is the moment between the record's close and the hand-off). For that it has to know
that a loop which parked has a park under it (`ParkedForSome`, `ParksAreBoxed`), that the main
agent's wait is the thread's (`MainWaits`), that only an unwind leaves a request half way
(`NoneHalfWay`), and that a run which works on has no open request (`ThreadStands`). With no
worker there are no loops and the box is empty, which leaves the requests without a result:
the property. It is of runs on which no loop was cut under another (`~lost`) and that are
`Apart`: `WholeBefore` shows that a run which is so was so all along.

`ServicesProofs` lifts these sixteen, in fifteen theorems, to the composition, whose
properties the run `services` checks: `ServiceStreamsKeepContract`, `ServiceReadsExact`,
`ServiceQueuesKeepJobs`, `ServiceKvKeepsContract`, `ServiceSubscribersAreHeard`,
`ServiceSettlesOnce`, `ServiceSandboxesAreOwned`, `ServiceSchemaInOrder`,
`ServiceThreadsAreKept`, `ServiceSweepCovers`, `ServiceSpendBounded`,
`ServiceNobodyStuck`, `ServiceToolsRunOnce`, `ServiceCallsAnsweredOnce` and
`ServiceRecordsMatchParks`, under the same assumptions (but for the overlaps of
`RedisBus`'s calls, which `Services` excludes). A step of `Services` is one of the
service or leaves its variables alone (`StreamTurns`, `KvTurns`, ...), and the theorem
about the service applies.

The invariants were run as invariants of TLC before they were proved.

Only model-checked: every other property of section 3. Of the lifecycle's, `Driven`,
`UnstoppedWorked` and `EndedStaysFree` are stated without the events that break them in
the code: a late hot write with an error, a job the queue gives up on beside its
duplicate's delivery, or a stop that closes a park late each leave `Driven`'s thread
alone; a dispatch slower than a lease under a sweep, or a failed run's job that comes
again, completes a run that did nothing; a thrown write with two calls, or a given-up
job, parts the three copies of an ending. For any number of events they are not proved.
Liveness under fairness (`EveryRunEnds`, `EveryStreamEnds`), `ENABLED`
(`StreamsAreRead`), and induction over data are out of the proof system's reach. The
last takes with it `StepsWhole`, `PromptIsWhole`, `BillsAgree` and `CardsAreTruth`,
which compare folds or filters of a history, and what the operators of `Prompts`,
`SummaryRounds` and `UsageTotals` compute for every input. Those of `Follow` and
`AgentThread` (`ReadsWhole`, `NothingLost`, `NothingTwice`, `OnlyThisThread`,
`ScreenIsTruth`) rest on filtered histories too. Of `NestedRuns` every property that
holds is proved.

## 6. Where the code does not keep what it says

Six runs check a property that fails; TLC's trace is the scenario.

| Run | Property | What happens |
|---|---|---|
| `stopped_answer` | `CompletedWorked` | A run is stopped while its worker is past the fence. The next run appends its user turn, then the stopped worker appends its answer. The next run's segment finds a history that ends in an answer, takes it for its own (`finishedEarlier`) and completes without calling the model. |
| `stale_hot` | `EndedIsFree` | A worker wins QUEUED to RUNNING and pauses before its hot write; a stop cancels the thread and writes its own; the worker's RUNNING lands last. The row is CANCELLED, the hot state RUNNING, and `run()` refuses new messages. |
| `agent_thread_missed` | `NothingMissed` | A tab's connection drops while a run ends and comes back at its cursor. STATE_CHANGE and MESSAGE_APPENDED are notices, in neither the record nor the stream: the tab shows the run as going on and refuses to send. |
| `nested_twice` | `EveryCallAnsweredOnce` | A nested agent asks for an approval and its step then fails. The main agent's next save commits the park left in the shared box; answered, it re-enters the failed run and hands a second result up to a call that has one. |
| `counts_lost` | `CountsOn` | Two callers count on one key of `MemoryKv`. Each awaits its `get` (`adapters/memory.ts:77`), both read the same number, and both are told the next. The comment above says that no await comes between. |
| `pages_skip` | `SweepCovers` | Over Postgres, two runs start in one millisecond and a page ends between them. The cursor is the first one's time without its microseconds, so the second is on no page and no sweep visits it. |

Known gaps, found the same way. The properties above are stated outside them;
where a property or a constant is named, widening it gives the trace.

Lifecycle:

- *Lost cancellation.* `closeRunRecord` reads the record and patches what it
  read; a stop that closes it in between is overwritten (`core/engine.ts:281`).
- *Foreign cancellation.* A stop whose hot CANCELLED lands after the next run's
  admission is read by that run's poll as its own (`core/engine.ts:591`). A stop
  that reads the thread before and the run id after a handover cancels the new
  run (`core/stop.ts:30`).
- *Unnamed stop.* A stop that reads an `IDLE` thread's current run before the
  first call installs it names none; the install then comes after the
  cancellation, and current run and owner differ (`Recoverable` without `Named`).
- *Late turns.* With a stop, a run's worker past its fence appends after the next
  run's turn; with two jobs of one run (a duplicate, or a park's expiry beside
  its answer) the queue's giving up on one fails or re-parks a run that the other
  still serves; a dispatch slower than a lease is swept up and enqueued twice.
  Each puts an older run's entry behind a newer one's or gives a run two answers,
  hence `Calm`.
- *Killed dispatch.* A process killed between its claim and its run record
  leaves a QUEUED thread that `reclaimLost` gives up on, for want of a record
  (`Recoverable` with one `kill`).
- *Failed dispatch.* `failDispatch` compares the current run id with one read
  before the claim; if another run replaced it meanwhile, a dispatch that threw
  leaves the thread QUEUED (`Driven` with two calls and one `fault`).
- *Reused run id.* The check that an id is unused and the record that uses it
  are separate, so two calls with one id can both be accepted (`ImplementsLife`
  with a shared id).
- *Two results.* A stop closes an approval that a worker is already resuming
  (`core/engine.ts:445`; the second half of `AnswersOnce` without its condition).
- *Failure undone.* `failRun` settles first. A worker that dies before the
  thread says FAILED leaves a settled run, which a redelivery takes for finished
  and completes (`CompletedWorked` with one `error` and one `death`).
- *Unannounced park.* A worker that dies between WAITING_FOR_INPUT and the
  request's event leaves a park nobody can answer; the redelivery throws, and if
  the queue lost the job the sweep does not look at it.
- *Shutdown as cancellation.* A run that answered before its worker died is
  redelivered. `finishedEarlier` skips the shutdown check of the other branch, so
  a shutdown at that moment ends it CANCELLED.
- *Two writers.* A worker stalled past its lease between the fence and the append
  still appends (`core/loop.ts:467`).

Nested runs:

- Two approvals in or below one nested run can also give a call two results;
  `CallsAnsweredOnce` is stated where requests are `Apart`.
- A death, or a stop after the verdict landed, leaves nested records RUNNING
  (`core/stop.ts:117-128`; `RecordsMatchParks` without `~lost`).
- A worker that dies between a re-entered nested run's saved answer and the
  hand-off up calls its model again on redelivery.
- A stop that meets an unwind is not modelled (it is *Two results* one level up).

Streams and readers:

- *Overlapping sweeps.* Two sweeps find the run lost. The first sends it back to the
  queue and a worker takes it; the second then reads the segment counter
  (`core/segment.ts:86`), closes that worker's stream under it and records RUN_ENDED,
  which the worker records again (`NeverCutsLive` and `RecordFollowsStream` without
  `overlap`).
- *Left streams.* The stream of a worker that died after it had ended the run, that a
  stop ended after the worker died, or that a delivery without a stream ended
  (`core/segment.ts:70`) has nobody to close it: a redelivery only settles
  (`core/engine.ts:617`) and no sweep visits an ended thread (`core/reclaim.ts:44`). Its
  reader waits until the stream's time is over (`Left`). `closeLostSegment` reads the last
  number only (`core/segment.ts:86`), so a number that was taken and not opened hides the
  stream before it, from a sweep and from `failLostRun`.
- *Failed close.* A close that fails is logged and RUN_ENDED recorded all the same
  (`core/segment.ts:162`, `93`): the record says ended of a stream that is open, which
  the next segment's opens beside, a sweep closes and records again, or, after the
  run's end, nobody closes (`OneOpenStream`, `RecordFollowsStream` and
  `EveryStreamEnds` without `close`).
- An overflow of the live queue is seen only when a later event wakes the
  follower (`core/follow.ts:76`, `137`).
- A snapshot reads messages before the stream: a step saved and finished in
  between is in neither (`core/snapshot.ts:94`). A client that reconnects between
  a RUN_STARTED and its stream's first item may read from elsewhere. `StreamExact` allows
  the first, whose message is saved, and leaves the second out (`again`).
- `MemoryRunStreams`: a reader suspended at a yield while its stream is dropped
  waits for ever (`ports/streams.ts:56-58`). The sqlite and prisma pages read the
  row, then the events. A prisma delete racing an append leaves orphan rows, and
  reopening an id that expired would show its old items; ids are never reused.

The tab:

- A send that fails puts back the screen as it was, over what came meanwhile
  (`packages/use-agentenkit/src/useAgentThread.ts:1149`, `overwritten`); an optimistic
  turn of a thread not made yet can follow the tab to another thread (`elsewhere`).
- A transport that comes back with its first cursor shows items twice after the
  follow moved on (the repository's `docs/react.md:276`, `moved`); a
  step between its save and STEP_FINISHED is in messages and stream (`between`).
- A park that was answered before its stream was shown raises its card again
  (`useAgentThread.ts:913`, `over`); text on its way comes back after an edit took
  its turn away (`late`), and a SNAPSHOT frame may bring dropped turns back.
- *Cards.* A nested run's STEP_FINISHED makes what the main agent streamed so far
  stay (`useAgentThread.ts:804-806`), so if the main agent's step then fails, its
  card stays on screen and the retry adds to it (`kept`). A stop of a run that
  waits sends no results, so its cards stay as they were until the thread is read
  again (`stopped`). After a reload the record's request of a nested run that has
  ended since is applied over its record and the card waits (`replayed`). A thread
  read while a nested run's step is saved and not finished shows its text twice
  (`said twice`), and one that finished between the reads is missing (`between`).
- The comments at `format.ts:206-208` and `useAgentThread.ts:837-839` say that a
  denied approval never streams a result; `streamToolResult` does
  (`core/engine.ts:160`).

Services:

- *Queues.* A purge that reads a lagging index cancels a run that has begun
  (`ports/queue.ts:151-152`). An inline job that is due before `bind` holds no key
  and cannot be found or cancelled, though the stats count it.
- *Threads.* After a prune of the newest entry the next append takes its seq
  (`packages/agentenkit/README.md:306-307` says "monotonic per thread, never repeated");
  `SeqsNeverRepeat` is stated until then. `deleteThread.ts:14-15` asks for `stop()` before
  a delete; the stop moves the row at once, so the delete goes ahead while the stopped
  run's worker still says, bills and records. In memory and sqlite those rows stay; prisma's
  foreign keys refuse them. So does a run that claims the thread between the delete's check
  and its cascade. `late` has exactly these runs. A delete that dies after the cascade
  cannot be asked again. Two pruners over-count.
- *Kv.* `MemoryKv` awaits its own `get` between read and write
  (`adapters/memory.ts:62` and `76` say it does not): two conditional writes can both win,
  a count is told twice (`counts_lost`), and `incr` on an expired key loses its count;
  `SqliteKv.delIfValue` treats expiry differently from the others.
- *Bus.* A subscribe and an unsubscribe of `RedisBus` that overlap can leave a
  subscriber deaf (`BusOverlaps <- TRUE`).
- *Summaries.* `trimMiddle` counts tokens by UTF-16 units and keeps code points,
  so a text of astral characters stays twice too long (`core/context.ts:216-217`;
  `RoundsEnd` with `UnitsPer <- {1, 2}`).
- *Ledger.* A seed that cannot be read lets the caps count from nothing and a
  second currency in (`unread`). Reports that carry both the old
  `usage.cachedInputTokens` and the provider's own metadata are not enumerated;
  totals assume that rows' times differ.
- *Sandboxes.* An acquire that outlives its sandbox writes its record again; a
  parallel drop leaves a handle undefined; the expiry of the record's key is not
  told to the tool as a loss; an aborted tool call that lingers shares its acquire
  with the next run.
- *Settling.* A hook slower than the claim's ten minutes is taken over and runs
  twice (`outlived`).

## 7. Not modelled

- `packages/go-agentenkit`: a port of the same runtime, kept in step by
  `packages/parity`.
- Admin queries (`core/admin.ts`) and the facade's reads: read-only views.
- Agents, tools and SDK glue (`core/agent.ts`, `sdk.ts`, `state.ts`, `tools.ts`,
  `cache.ts`): registration, types and the call into the AI SDK; nothing another
  process shares.
- Web tools, MCP, page readers, sandbox adapters: I/O on behalf of the model.
- Wire formats (`core/agui.ts`, SSE), the client's labels, usage, thread list
  and uploads: what is shown, not when.
- In modelled parts: the cost budget's check, the retry after a context overflow,
  the provider's cache options, edits of a tool's arguments, the expiry of kv keys
  other than the lock, jobs and locks without dispatch ids (an older format),
  history edits in storage, thread state, listings and counts.

## 8. Plan

Done: the lifecycle with its refinement and seven theorems, the streams with three,
the reader, the tab, and the services, with sixteen theorems of their own, each of them also
in the composition. Next, in order of what rests on them:

1. **Proofs about `Follow` and `AgentThread`**: `ReadsWhole`, `OnlyThisThread`.
2. **`Follow` under fairness**: `StreamsAreRead` as leads-to.
3. **A stop beside an unwind** in `NestedRuns`, with the lifecycle's stop.
4. **Larger instances**: a park with two calls in `safety`, two nested agents in
   `segments`.
