SPECIFICATION FairSpec
CONSTANTS
  NSpecs = 5
  NGroups = 2
  Start <- PlanStart
  End <- PlanEnd
  Depth <- PlanDepth
  Batches <- PlanBatches
  ShardCount = 4
  ShardChoices <- SomeShards
  Marks <- PlanMarks
  NBefore <- PlanHooks
  NAfter <- PlanHooks
  Backends = {"T", "B", "fake"}
  FailFastModes = {TRUE, FALSE}
  Outcomes = {"ok", "fail", "error", "skip", "filtered", "park", "cleanup", "exit"}
INVARIANTS
  TypeOK
  InsideOuterGroups
  FailureAgreement
  FailedBeforeAllSuppresses
  FailFastCutsTheRest
  HooksAccountedFor
  EverySpecAccountedFor
PROPERTIES
  ReportedInPlanOrder
  EnteredGroupsAreLeft
CHECK_DEADLOCK FALSE
