SPECIFICATION Spec
CONSTANTS
  Unfiltered = Unfiltered
  NoFilter = Unfiltered
  NoClass <- NoClassName
  Framework <- FrameworkNames
  TestBases <- TestBaseNames
  CLAMP_K = 2
  INLINE_MAX_CASES = 4
  PHPUNIT_MAJOR = 11
  MaxSlots = 2
  Scenarios <- AllScenarios
INVARIANTS
  TypeOK
  NearestDefinition
  PlansPartitionPending
  ChainsAreComponents
  CountParity
  VerdictParity
  DependenciesFirst
  NoBleed
  HooksOnce
PROPERTIES
  ImplementsRespawn
  Termination
