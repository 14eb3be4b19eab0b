SPECIFICATION FairSpec
CONSTANTS
  A = A
  B = B
  NTests = 3
  Class <- Suite4Classes
  ClassOf <- Suite3ClassOf
  RowsOf <- Suite3Rows
  InitialPlans <- Suite3Plans
  NSlots = 1
  Modes = {"fork_server", "long_lived", "inline"}
  WatchdogOn = TRUE
  MaxBatches = 2
  Fatal = {}
  Exits = {2}
  Hanging = {3}
  Throwing = {}
  Failing = {}
  StopOn = TRUE
  MaxKills = 0
  MaxMasterKills = 0
  KillBetween = FALSE
  LateFatal = FALSE
  AllDieEarly = FALSE
  ForkMayFail = TRUE
INVARIANTS
  CountedAtMostOnce
  NoTestVanishes
PROPERTIES
  Returns
  KeepsContract
