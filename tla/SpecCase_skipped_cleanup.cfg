SPECIFICATION Spec
CONSTANTS
  t1 = t1
  NCases = 1
  NAfter = 2
  Tasks = {t1}
  MaxCleanups = 1
  MaxErrorfs = 0
  Backend = "T"
  BodyEndings = {"ok"}
  HookEndings = {"ok", "fatal"}
  CleanupEndings = {"ok"}
  TaskEndings = {"ok"}
SYMMETRY TaskSymmetry
INVARIANTS
  CleanupsAlwaysRun
CHECK_DEADLOCK FALSE
