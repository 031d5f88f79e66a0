CONSTANTS
  Procs = {p1, p2}
  Inodes = {i1, i2}
  Segs = {s1, s2}
  ERR = ERR
  NoFile = NoFile
  NoSeg = NoSeg
  Nobody = Nobody
  Sizes = {0, 8, 16}
  Creates = {TRUE, FALSE}
  Exclusive = FALSE
  MaxSessions = 2
  MaxCrashes = 1
  MaxFaults = 1
SPECIFICATION Spec
SYMMETRY MCSymmetry
CHECK_DEADLOCK FALSE
INVARIANTS TypeOK HeldMemoryIsMapped LeaksOnlyUnfindable
