CONSTANTS
  Operation = {o1}
  NoOperation = NoOperation
  MaxCrashes = 1
  MaxLapses = 0
SPECIFICATION Spec
PROPERTY VerifiedAfterRestart
CHECK_DEADLOCK FALSE
