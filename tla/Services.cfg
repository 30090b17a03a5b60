SPECIFICATION Spec
CONSTANTS
  Threads = {"t1", "t2"}
  Results = {"k1", "k2"}
  BatchSize = 2
  MaxWrites = 1
  MaxCalls = 2
  MaxDepth = 1
  Conns = {"c1"}
  SseClients = {"s1"}
  ToolIds = {1, 2}
  StableToolIds = FALSE
  MaxToolRetries = 1
  MaxRows = 2
  MaxChatMessages = 1
  MaxChatFaults = 1
  ItemStreams = {"a1"}
  ClassStreams = {"c1"}
  RemoteStreams = {}
  ChannelCapacity = 1
  MaxCommits = 1
  MaxLiveFaults = 1
  Callers = {"q1", "q2"}
  Lister = "q1"
  RowNumbers = {1, 2}
  Lookups = {"status", "kind"}
  RowValues = {1, 2}
  FirstTables <- RemoteTables
  NewRows <- RemoteNew
  Updates <- RemoteUpdates
  Wanted <- RemoteWanted
  Services <- RemoteServices
  RetryPolicies <- RemotePolicies
  PageLimit = 1
  MaxRequests = 2
  MaxLookups = 1
  MaxLosses = 1
  Starters = {"p1", "p2"}
  RowKeys = {"x", "y"}
  Declarations <- SyncDeclarations
  MaxRestarts = 1
  MaxSyncFaults = 1
  WarmKeys = {1, 2}
  WarmWorkers = {"w1", "w2"}
  RefreshAfter = 1
  SweepLimit = 1
  MaxTicks = 1
  MaxWarmRuns = 2
  MaxWarmFaults = 1
  S3Workers = {"w1", "w2"}
  AllSettings <- S3Settings
  MaxObjects = 4
  MaxS3Jobs = 4
  MaxS3Faults = 1
INVARIANTS
  RunSound
  ChatSound
  WarmSound
  LiveSound
  SyncedStaysDeclared
  RequestsSound
  S3Sound
  ManagersSound
CHECK_DEADLOCK FALSE
