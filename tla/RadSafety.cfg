CONSTANTS
  BufProcs = {b1, b2}
  BufConfigs <- MCBufConfigs
  Requests = {12, 32, 100}
  MaxBfrSizes = 3
  ShareBytes = 128
  HdrBytes = 8
  QNames = {p1, p2, p3}
  QGroups = {1}
  GroupAll = 0
  MaxQueueRecords = 4
  NumQBufs = 5
  PipeCapacity = 1
  ClientReleases = FALSE
  MaxOps = 5
  SysProcs = {p1, p2, p3}
  Systems = {1, 2}
  OneAtATime = TRUE
  MaxFaults = 1
  MaxCalls = 5
  LNodes = {1, 2, 3, 4}
  LKey <- MCLKey
  MmProcs = {m1, m2}
  MmSizes = {2, 6}
  PoolSizes = {0, 16}
  MaxSegment = 22
  MinPool = 8
  PoolHdr = 4
  ChunkHdr = 2
  Word = 2
  SplitCap = 6
  DbEngines = {"pg", "my"}
  TableDescrs <- MCTableDescrs
  DbVals = {1, 2}
  TextOf <- MCTextOf
  Reads <- MCReads
  Lengths = {1, 2}
  SetIds = {1, 2}
  MaxDbOps = 8
  CfProcs = {f1, f2}
  CfIds = {"a"}
  CfInstances = {"no instance", "i"}
  CfValues = {"blank", "v"}
  CfComments = {"c"}
  MaxCfLines = 2
  MaxCfOps = 2
  MaxCfCuts = 1
  Copies = {"c1", "c2"}
SPECIFICATION MCSpec
VIEW MCView
SYMMETRY MCSymmetry
INVARIANTS
  BuffersSound OneHolder QueuesSound GroupSendReachesAll SystemSound ListsInOrder
  PoolSound StatementsMeantAndDone ConfigurationSurvives ProgramComesAndGoes
PROPERTIES ImplementsPool ImplementsSequences
CHECK_DEADLOCK FALSE
