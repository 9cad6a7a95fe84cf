SPECIFICATION FairSpec
CONSTANTS
  t1 = t1
  t2 = t2
  NCases = 2
  NAfter = 1
  Tasks = {t1, t2}
  MaxCleanups = 1
  MaxErrorfs = 1
  Backend = "fake"
  BodyEndings = {"ok", "fatal"}
  HookEndings = {"ok", "panic"}
  CleanupEndings = {"ok"}
  TaskEndings = {"ok", "fatal", "panic"}
INVARIANTS
  DeliveredOnce
PROPERTIES
  EveryCaseIsReported
CHECK_DEADLOCK FALSE
