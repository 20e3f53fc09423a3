SPECIFICATION Spec
CONSTANTS
  MaxCycles = 3
  Primaries = {"shaev"}
  Fallbacks = {"nyx-cli"}
  MaxPerWindow = 1
  Window = 1
  MaxActive = 2
  RingCapacity = 1
  IdleTraces = 0
  RoleEnds = {"ok", "throws"}
  FreeLevels = {0, 1, 2}
  Floors = {1, 2}
  IdleAfter = 2
  NewsKinds = {"telemetry", "hardware", "tasks", "chairs", "phases", "claims", "retries", "receipts", "log", "latest", "chat", "debate"}
  Speakers = {a1}
  Things = {x, y}
  NoAgent = NoAgent
  MaxNews = 3
  MaxDials = 2
  MaxBehind = 2
  Remounts = {TRUE}
  TaskCap = 2
  LogCap = 2
  IdleTasks = 1
  Conns = {c1, c2}
  ClientKeys = {k1, k2}
  Gated = TRUE
  Cost = 2
  Capacity = 3
  MaxBuckets = 1
  MaxClients = 1
  MinReadyChairs = 1
  MaxTicks = 1
  Indents = {0, 2, 4}
  KeyNames = {"a", "b"}
  MaxDocument = 4
  PersonaFiles = {"f1", "f2"}
  Personas = {"a1", "a2"}
  Settings = {s1, s2}
  MaxWrites = 2
  MaxQueue = 3
  MaxBatch = 2
  MaxBytes = 3
  MaxFiles = 2
  MaxLogged = 9
  Receipts = {r1, r2, r3}
  Fitting = {r1, r2}
  MaxAttempts = 2
  CommitOnGreen = TRUE
  MaxLearnt = 2
  MaxRewrites = 2
  MaxEnded = 3
  Outsiders = {"o"}
  Confidences = {50, 150}
  Weights = {0, 100}
  Thresholds = {85}
  MaxVotes = 3
  Adapters = {"a1"}
  MaxChanges = 3
  Procs = {"p1", "p2"}
  HubSecrets = {"s1"}
  NoSecret = "none"
  Rows = {"r1"}
  NumColumns = 1
  MaxOpens = 1
  Requests = {"q1", "q2"}
  MemoryKeys = {"k1"}
  Limit = 2
  Ttl = 1
  Retention = 1
  MaxRows = 3
  MaxClock = 3
  Runs = {"d1"}
  Runtimes = {"fake-deterministic", "codex", "claude-shaev", "command", "unknown"}
  OutputLimit = 1
  MaxOutput = 2
  Portraits = {"g1"}
  DispatchSecrets = {"s"}
  ClockWindow = 4
  MaxTries = 2
  MaxPosts = 2
  DispatchTimeout = 1
  ReplyTimeout = 1
  MaxRest = 1
  MaxInstant = 7
INVARIANTS
  
  CycleIsWhole
  CockpitIsTrue
  
  
  StoresAreSound
  
  SuccessIsTrue
PROPERTIES
  StepsAreLawful
  
CHECK_DEADLOCK FALSE
