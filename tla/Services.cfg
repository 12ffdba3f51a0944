SPECIFICATION MCSpec
CONSTANTS
  Parts = {"queue", "runs", "streams", "threads", "kv", "bus", "listing", "settling", "schema", "prompt", "sandbox", "bills", "ledger", "local", "summary", "cards"}
  AdminStores = {"memory", "sqlite"}
  Null = Null
  FlowCallers = {1, 2}
  FlowJobs <- FlowJobSet
  FlowDepth = 2
  FlowRetries = 1
  FlowRuns = 2
  QueueKinds = {"inline", "memory", "qstash"}
  LocalJobs <- LocalJobSet
  MaxTimer = 2
  LocalDepth = 1
  MainRun = "main"
  NestedIds = {"c1", "c2", "d1", "e1"}
  ParkIds = {"p1", "p2", "p3"}
  ParentOf <- Parents
  AskerOf <- Askers
  AtOnce <- Widths
  NestedDepth = 2
  NestedAtOnce = 1
  StepLimit = 3
  Budget = 3
  FailingRuns = {"main", "d1"}
  RunCuts = 1
  StreamKinds = {"memory", "sqlite", "prisma", "redis", "flow"}
  StreamItems = 3
  StoreKinds = {"memory", "sqlite", "prisma"}
  StoreRuns = {1, 2}
  PruneBatch = 1
  AppendTries = 2
  MaxEntries = 6
  StoreCuts = 1
  KvKinds = {"memory", "sqlite", "redis", "upstash"}
  KvCallers = {1, 2}
  KvValues = {1, 2}
  KvCalls = 3
  BusKinds = {"memory", "redis", "flow"}
  Handlers = {1, 2, 3}
  MaxChannels = 3
  RunIds <- FourRuns
  Millis = {1, 2}
  Micros = {0, 1}
  PageSize = 2
  ClaimKinds = {"memory", "sqlite", "postgres"}
  Settlers = {"s1", "s2", "s3"}
  Unclaimed = "nobody"
  ClaimTries = 2
  MaxFaults = 2
  MaxBills = 3
  Dialects = {"sqlite", "postgres"}
  Processes = {1, 2, 3}
  Releases <- ReleaseSizes
  Nobody = 0
  SchemaRuns = 2
  CallIds = {"a", "b"}
  Compactors = {1, 2}
  MaxTurns = 3
  MaxSummaries = 2
  Limit = 1000
  Lengths = {400, 3999, 9000}
  UnitsPer = {1}
  MaxLines = 4
  Scopes = {"thread", "run", "kept"}
  ToolCalls = {1, 2}
  MaxMade = 2
  MaxRun = 2
  MaxEnds = 1
  BillLines = {"l1", "l2"}
  Currencies = {"eur", "usd"}
  MaxRows = 4
  LedgerLines = {"l1"}
  Bookers = {1, 2}
  Splits <- SplitSet
  MaxSegments = 2
  LedgerCalls = 3
  CardCalls = 2
  CardReads = 1
  CardFails = 1
CHECK_DEADLOCK FALSE
INVARIANTS
  QueuesKeepJobs
  CallsAnsweredOnce
  NobodyStuck
  SpendBounded
  RecordsMatchParks
  ToolRunsOnce
  ReadsExact
  ThreadsAreKept
  SubscribersAreHeard
  SweepCovers
  SettledOnce
  SchemaInOrder
  PromptIsWhole
  SandboxesAreOwned
  BillsAgree
  CardsAreTruth
PROPERTIES
  StreamsKeepContract
  KvKeepsContract
