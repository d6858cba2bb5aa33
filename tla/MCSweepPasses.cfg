CONSTANTS
  Parts = {"objects"}
  KeepAlive = 4
  MaxResults = 3
  StreamMaxTime = 9
  Configs <- MCConfigs
  SleepPeriod = 2
  Horizon = 6
  Given <- MCGiven
  MaxWorkers = 2
  MaxFailedComponents = 1
  Workers = {"sync", "async"}
  Threads = {t1, t2}
  ClientAttempts = 3
  ClientTries = 2
  MaxRotations = 1
  Kinds = {"s3", "azure", "local"}
  ObjectIds = {1, 3}
  Strays = {2}
  Shapes <- MCShapes
  MaxLifetime = 1
  Grace = 2
  PageSize = 2
  ObjectAttempts = 2
  ObjectMaxTime = 3
  MaxFailedCalls = 1
  MaxActivations = 3
  MaxRounds = 2
  AgentAttempts = 2
  FlowTools = {"tool"}
  UserTexts <- MCUserTexts
  Texts <- MCTexts
  FlowConfigs <- MCFlowConfigs
  MaxTurns = 2
  MaxThoughts = 2
  MaxRuns = 2
  MaxRetries = 1
  Processes = {"p", "q"}
  Loads <- MCLoads
  Networks = {"agent", "temporary"}
  Temporary = {"temporary"}
  Hard = FALSE
  MaxFaults = 1
  MaxFactChanges = 2
  Names = {"a", "b"}
  Authorized = {"a"}
  Policies = {"all", "list"}
  Requests = {"post"}
  Messages <- MCMessages
  MaxMessages = 2
  MaxTableChanges = 2
  Selecting = {"m", "n"}
  Namespaces = {"origin", "address"}
  OfferedTools = {"tool"}
  CallIds = {"id"}
  Denies = TRUE
  MaxCalls = 2
  ToolTries = 1
  MaxAnswers = 2
SPECIFICATION Spec
CHECK_DEADLOCK FALSE
INVARIANT BadFilesArePassed
