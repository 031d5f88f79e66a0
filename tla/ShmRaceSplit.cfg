CONSTANTS
  Procs = {p1, p2, p3}
  Inodes = {i1, i2, i3}
  Segs = {s1, s2}
  ERR = ERR
  NoFile = NoFile
  NoSeg = NoSeg
  Nobody = Nobody
  Sizes = {16}
  Creates = {TRUE}
  Exclusive = FALSE
  MaxSessions = 1
  MaxCrashes = 0
  MaxFaults = 0
SPECIFICATION Spec
CHECK_DEADLOCK FALSE
INVARIANT OneCache
