----------------------------- MODULE MCServices -----------------------------
\* The services on small instances.
EXTENDS Services, TLC

FlowJobSet ==
  {[dispatch |-> "d1", key |-> "k", kind |-> "", thread |-> "t", delayed |-> FALSE],
   [dispatch |-> "d2", key |-> "k", kind |-> "retry", thread |-> "t", delayed |-> TRUE],
   [dispatch |-> "d3", key |-> "", kind |-> "", thread |-> "u", delayed |-> FALSE]}
LocalJobSet ==
  {[dispatch |-> "d1", key |-> "k", kind |-> "", delay |-> 0],
   [dispatch |-> "d2", key |-> "k", kind |-> "retry", delay |-> 3],
   [dispatch |-> "d3", key |-> "", kind |-> "", delay |-> 0]}

\* Three runs below main, one of them two deep, and two with room for one at a time.
Parents == [c1 |-> "main", c2 |-> "main", d1 |-> "c1", e1 |-> "d1"]
Askers  == [p1 |-> "c1", p2 |-> "main", p3 |-> "d1"]
Widths  == [main |-> 2, c1 |-> 1, c2 |-> 1, d1 |-> 1, e1 |-> 1]

FourRuns == 1..4
ReleaseSizes == <<2, 2, 1>>
SplitSet ==
  {[fresh |-> 1, read |-> 0, write |-> 0, out |-> 1],
   [fresh |-> 2, read |-> 1, write |-> 0, out |-> 0],
   [fresh |-> 0, read |-> 1, write |-> 2, out |-> 1]}

---------------------------------------------------------------------------

\* The two callers of enqueue are alike.
CallerPairs ==
  {<<"d1", "d1">>, <<"d1", "d2">>, <<"d1", "d3">>, <<"d2", "d2">>, <<"d2", "d3">>, <<"d3", "d3">>}

\* A service that is not looked at starts in one way only.
AtRest(p, start) == part = p \/ start

\* The record an older release left has a row to prune, the newest, or none.
OlderRecord == {e.seq : e \in {x \in entries : x.type = Threads!Old}} \in {{}, {2}}

\* The second run is sent after the first, on a record that has nothing to prune and where
\* neither the app appends nor a delete dies.
SecondRun ==
  part = "threads" /\ dispatches'[2] # "new" =>
    /\ dispatches[1] # "new"
    /\ writer'["app"].at = "idle" /\ cut' = 0
    /\ \A e \in entries' : e.run = 0 => e.type = Threads!Kept

\* Init, service by service, so that TLC makes no state it would leave out again.
MCInit ==
  /\ part \in Parts
  /\ Queue!Init
  /\ IF part = "queue" THEN <<enqueues[1].job.dispatch, enqueues[2].job.dispatch>> \in CallerPairs
     ELSE \A c \in DOMAIN enqueues : enqueues[c].job.dispatch = "d1"
  /\ Local!LocalInit /\ AtRest("local", local = "memory")
  /\ Agents!Init
  /\ Sandbox!SandboxInit /\ AtRest("sandbox", scope = "run")
  /\ Cards!CardInit
  /\ Streams!Init /\ AtRest("streams", kind = "memory")
  /\ Threads!Init /\ AtRest("threads", db = "memory")
  /\ IF part = "threads" THEN OlderRecord ELSE \A e \in entries : e.type = Threads!Kept
  /\ Kv!KvInit /\ AtRest("kv", kv = "memory")
  /\ Bus!BusInit /\ AtRest("bus", bus = "memory")
  /\ Listing!ListInit
  /\ AtRest("listing", started = <<>> /\ admin = CHOOSE a \in AdminStores : TRUE)
  /\ Settling!SettleInit /\ AtRest("settling", holds = "memory")
  /\ Schema!MigInit /\ AtRest("schema", dialect = "sqlite")
  /\ Prompt!PromptInit /\ Summary!RoundInit
  /\ Bills!UsageInit /\ Spend!LedgerInit

MCSpec == MCInit /\ [][Next /\ SecondRun]_vars
=============================================================================
