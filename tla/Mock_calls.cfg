SPECIFICATION Spec
CONSTANTS
  Threads = {t1, t2}
  Methods = {"m"}
  Spies = {"s"}
  Arguments = {1}
  Accepts <- Matchers
  Exactly = {0}
  AtLeasts = {2}
  AtMosts = {1}
  MaxExps = 2
  MaxConfigs = 3
  MaxCalls = 2
  MaxResets = 1
SYMMETRY Symmetric
INVARIANTS
  WithinBounds
  RepliesInTurn
PROPERTIES
  SilenceMeansMet
CHECK_DEADLOCK FALSE
