SPECIFICATION Spec
CONSTANTS
  t1 = t1
  t2 = t2
  NCases = 2
  NAfter = 1
  Tasks = {t1, t2}
  MaxCleanups = 2
  MaxErrorfs = 1
  Backend = "T"
  BodyEndings = {"ok", "fatal"}
  HookEndings = {"ok", "fatal"}
  CleanupEndings = {"ok", "failnow"}
  TaskEndings = {"ok", "error", "fatal", "panic"}
SYMMETRY TaskSymmetry
INVARIANTS
  TypeOK
  ChargedToItsSpec
  SettledInOrder
  MessageRule
CHECK_DEADLOCK FALSE
