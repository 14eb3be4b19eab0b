SPECIFICATION SortedSpec
CONSTANTS
  Planned = {1, 2, 3}
  Workers = 2
INVARIANTS
  TypeOK
  StatusesEarned
  ChildrenBounded
PROPERTIES
  VerdictsKept
  Termination
