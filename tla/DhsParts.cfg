CONSTANTS
  Unassigned = Unassigned
  SockIds = {i1, i2, i3}
  IoLen = 2
  StreamRoom = 2
  MaxWrites = 1
  UdpIds = {"u1", "u2"}
  HostOf <- MCHostOf
  UdpDests = {"group", "broadcast", "h2"}
  UdpSizes = {1, 3}
  UdpLen = 2
  MaxDgrams = 2
  MaxUdpCalls = 4
  PtSenders = {"s1", "s2"}
  PtExposures = {12, 14}
  BlkSize = 2
  SrvBuf = 2
  DiskRoom = 8
  MaxPtSends = 3
  ColClients = {"c1", "c2", "c3"}
  ColKids = {"k1", "k2", "k3"}
  MaxProcesses = 2
  NoExposures = {"e1", "e2"}
  NoProgs = {"p0", "p1"}
  FirstProg = "p0"
  MaxBlocks = 1
  MaxUploads = 3
  MaxCloses = 2
SPECIFICATION MCSpec
VIEW MCView
SYMMETRY MCSymmetry
INVARIANTS
  ScriptsPortable GoodCommandsSucceed FilesReadable ServedInOnePiece ChildPerConnection
  ListsTellHistory ConnectionsKept DatagramsAsSent
CHECK_DEADLOCK FALSE
