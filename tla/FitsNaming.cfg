CONSTANTS
  Clients = {c1}
  EnvClients = {c1}
  ExpIDs = {e1, s1}
  ShortIDs = {s1}
  UserNames = {n1, n2}
  UserDirs = {d1}
  EnvDir = EnvDir
  Unset = Unset
  MaxSends = 3
  MaxIOCtls = 3
  MaxFailures = 1
SPECIFICATION Spec
SYMMETRY MCSymmetry
INVARIANTS ExposuresKeptTogether
