CONSTANTS
  Checked = "queue"
  QNames = {p1, p2, p3}
  QGroups = {1}
  GroupAll = 0
  MaxQueueRecords = 4
  NumQBufs = 2
  PipeCapacity = 1
  ClientReleases = TRUE
  MaxOps = 6
  SysProcs = {p1, p2, p3}
  Systems = {1}
  OneAtATime = FALSE
  MaxFaults = 0
  MaxCalls = 5
SPECIFICATION DocSpec
INVARIANT OneHolder
CHECK_DEADLOCK FALSE
