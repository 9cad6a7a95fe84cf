SPECIFICATION Spec
CONSTANTS
  a = a
  b = b
  p = p
  q = q
  NoFile = NoFile
  Invocations = {a, b}
  Packages = {p, q}
  Builds <- BothPackages
  Expected <- BothPackages
  Environments <- SharedId
  Forces = {b}
  Cleaners = {a}
  Supplied = {a}
  Targets = 2
INVARIANTS
  TypeOK
  ReportsAreTrue
  HealthyRunIsReported
PROPERTIES
  NothingPrunedUnreported
CHECK_DEADLOCK FALSE
