SPECIFICATION ToolsSpec
CONSTANTS
  c1 = c1
  c2 = c2
  c3 = c3
  NoCall = NoCall
  Call = {c1, c2}
  Guarded = {c1}
  Shells = {c2}
  Retried = {}
  Timed = {}
  MaxConcurrent = 1
  MayRace = TRUE
  MaxEpoch = 1
  Stages = 3
  Implementors = {2}
  PlanRequired = TRUE
  FailFast = TRUE
  MaxRetries = 3
  MayAsk = TRUE
  MaxRuns = 3
  MaxCrashes = 2
INVARIANTS ApprovedAsPlanned WaiterHasWaker SavedStageIsKept
PROPERTIES EveryCallSettles NoPipelineStaysRunning
CHECK_DEADLOCK FALSE
