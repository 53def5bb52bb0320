SPECIFICATION Spec
CONSTANTS
  MaxRuns = 2
  MaxCrashes = 0
  MaxStarts = 1
  MayLapse = FALSE
  MaxShutdowns = 1
  ReplyMayGetLost = FALSE
INVARIANTS
  RecordedOutcome
CHECK_DEADLOCK FALSE
