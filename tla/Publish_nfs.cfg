SPECIFICATION Spec
CONSTANTS
  w1 = w1
  w2 = w2
  w3 = w3
  here = here
  there = there
  NoOne = NoOne
  Writers = {w1, w2, w3}
  Pids = {here, there}
  Pid <- SharedPid
INVARIANTS
  TypeOK
  PublishedIsTrue
PROPERTIES
  PublishesExclusively
CHECK_DEADLOCK FALSE
