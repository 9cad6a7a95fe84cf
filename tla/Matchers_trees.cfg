SPECIFICATION Spec
CONSTANTS
  W = 3
  ListLimit = 2
  Assertions <- AllAssertions
INVARIANTS
  VerdictIsLogical
  NothingAskedTwice
  FailureTellsTheTruth
CHECK_DEADLOCK FALSE
