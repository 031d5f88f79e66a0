CONSTANTS
  Clients = {a, b}
  Collectors = {k1, k2, k3, k4}
  Config <- MCConfig
  Localhost = Localhost
  SupHost = SupHost
  Garbage = Garbage
  Nowhere = Nowhere
  Nobody = Nobody
  MaxFaults = 2
  m1 = m1
  m2 = m2
  m3 = m3
SPECIFICATION Spec
SYMMETRY MCSymmetry
CHECK_DEADLOCK FALSE
INVARIANTS AckMeansStarted CollectorsAccepted
