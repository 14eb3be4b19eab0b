SPECIFICATION FairSpec
CONSTANTS
  A = A
  B = B
  NTests = 4
  Class <- Suite4Classes
  ClassOf <- Suite4ClassOf
  RowsOf <- Suite4Rows
  InitialPlans <- Suite4Plans
  NSlots = 2
  Modes = {"fork_server"}
  WatchdogOn = FALSE
  MaxBatches = 2
  Fatal = {}
  Exits = {4}
  Hanging = {}
  Throwing = {}
  Failing = {3}
  StopOn = TRUE
  MaxKills = 1
  MaxMasterKills = 1
  KillBetween = FALSE
  LateFatal = FALSE
  AllDieEarly = FALSE
  ForkMayFail = FALSE
INVARIANTS
  CountedAtMostOnce
  NoTestVanishes
  HandedBackUnreported
PROPERTIES
  Returns
  KeepsContract
