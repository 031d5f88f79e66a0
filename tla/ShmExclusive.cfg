CONSTANTS
  Procs = {p1, p2, p3}
  Inodes = {i1, i2}
  Segs = {s1, s2}
  ERR = ERR
  NoFile = NoFile
  NoSeg = NoSeg
  Nobody = Nobody
  Sizes = {16}
  Creates = {TRUE}
  Exclusive = TRUE
  MaxSessions = 2
  MaxCrashes = 1
  MaxFaults = 0
SPECIFICATION Spec
SYMMETRY MCSymmetry
CHECK_DEADLOCK FALSE
INVARIANTS OneCache LastDetachFrees FileTellsSegment
