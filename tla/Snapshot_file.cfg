SPECIFICATION Spec
CONSTANTS
  MaxExponent = 3
  Specs <- Specs3
  ProcessOf <- Processes2
  Names = {"x", "y"}
  Literals <- Stored
  Values <- Numbers
  Updates <- Modes
  Contents <- ByHand
  Absent = Absent
  Garbage = Garbage
  Torn = Torn
  None = None
INVARIANTS
  TypeOK
  FileIsWhole
  NoUpdateLost
  VerdictIsTrue
CHECK_DEADLOCK FALSE
