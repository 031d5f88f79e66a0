CONSTANTS
  HdrUnits = 2
  ChunkUnits = 3
  FifoUnits = 5
  MaxSelf = 3
  MaxOther = 2
  SelfWindow = 1
  NumTimers = 2
  Times = {0, 2, 3}
  MaxElapsed = 4
  NotifyCapacity = 4
  MaxTimerOps = 4
  SignalInStop = FALSE
  SlotLast = 4
  FdLast = 5
  Events = {"e1"}
  SysBufs = 1
  LateRegister = FALSE
  ProcLists = {"l1", "l2"}
  Priorities = {0, 1, 2}
  MaxChildren = 3
  PairChildren = 2
SPECIFICATION MCSpec
INVARIANTS HeadersWhole TimersWatched LoopConsistent ProcessesInOrder
PROPERTIES ReflectorWorks TimerFires LoopProgresses StartReturns
CHECK_DEADLOCK FALSE
