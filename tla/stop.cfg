SPECIFICATION FairSpec
CONSTANTS
  A = A
  B = B
  NTests = 4
  Class <- Suite4Classes
  ClassOf <- Suite4ClassOf
  RowsOf <- Suite4Rows
  InitialPlans <- Suite4Plans
  NSlots = 2
  Modes = {"fork_server"}
  WatchdogOn = FALSE
  MaxBatches = 2
  Fatal = {}
  Exits = {1}
  Hanging = {}
  Throwing = {}
  Failing = {4}
  StopOn = TRUE
  MaxKills = 0
  MaxMasterKills = 0
  KillBetween = FALSE
  LateFatal = FALSE
  AllDieEarly = FALSE
  ForkMayFail = FALSE
PROPERTIES
  NoDispatchAfterStop
