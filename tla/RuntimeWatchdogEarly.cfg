CONSTANTS
  MaxChildren = 2
  MaxUnhealthy = 3
  MaxProbeFailures = 2
  MayExitEarly = TRUE
SPECIFICATION LiveSpec
CHECK_DEADLOCK FALSE
PROPERTY DeadChildIsReplaced
