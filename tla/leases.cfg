SPECIFICATION Spec
CONSTANTS
  Run = {r1, r2}
  Pid = {p1, p2}
  NWorkers = 2
  Listings <- MCListings
  Nobody = Nobody
SYMMETRY RunAndPidSymmetry
INVARIANTS
  TypeOK
  FreshClones
  CleanExit
  LeftoversReclaimed
PROPERTIES
  SparesConnected
