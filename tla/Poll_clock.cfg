SPECIFICATION FairSpec
CONSTANTS
  Polls = {"p"}
  Modes <- EitherKind
  Timeout = 4
  Interval = 1
  MaxNow = 7
  MaxStep = 4
INVARIANTS
  VerdictIsObserved
  TimersReleased
PROPERTIES
  EveryPollEnds
CHECK_DEADLOCK FALSE
