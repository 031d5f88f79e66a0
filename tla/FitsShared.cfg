CONSTANTS
  Clients = {c1, c2}
  EnvClients = {c1}
  ExpIDs = {e1}
  ShortIDs = {}
  UserNames = {}
  UserDirs = {d1}
  EnvDir = EnvDir
  Unset = Unset
  MaxSends = 2
  MaxIOCtls = 1
  MaxFailures = 1
SPECIFICATION Spec
INVARIANTS PixelAckedIsStored 
