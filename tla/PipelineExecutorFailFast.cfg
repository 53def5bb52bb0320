SPECIFICATION Spec
CONSTANTS
  Stages = 3
  Implementors = {2}
  PlanRequired = TRUE
  FailFast = TRUE
  MaxRetries = 1
  MayAsk = TRUE
  MaxRuns = 2
  MaxCrashes = 1
  OthersRecover = FALSE
INVARIANT FailFastHolds
CHECK_DEADLOCK FALSE
