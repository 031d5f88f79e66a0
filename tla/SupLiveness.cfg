CONSTANTS
  Clients = {a, b}
  Collectors = {k1, k2}
  Config <- MCShortConfig
  Localhost = Localhost
  SupHost = SupHost
  Garbage = Garbage
  Nowhere = Nowhere
  Nobody = Nobody
  MaxFaults = 1
  m1 = m1
  m2 = m2
  m3 = m3
SPECIFICATION FairSpec
CHECK_DEADLOCK FALSE
PROPERTY EveryCallReturns
