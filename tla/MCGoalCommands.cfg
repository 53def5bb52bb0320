CONSTANTS
  Operation = {o1, o2}
  NoOperation = NoOperation
  MaxDeaths = 1
  MaxLapses = 0
  Goal = {g1}
  NoGoal = NoGoal
  GivenGoals = {g1}
  Commands = {"start", "stop", "pause", "resume"}
  Dispatcher = {"command", "event"}
  MayMaintain = TRUE
  RunsMayFail = TRUE
  MayRetry = FALSE
  ResidentSaves = FALSE
  SavesMayFail = TRUE
  MaxCrashes = 1
  MaxShutdowns = 0
SPECIFICATION CommandsSpec
INVARIANTS RestartHonoursPause StartIsHonoured RestartsAreAccounted
PROPERTY ToldIsVerified
CHECK_DEADLOCK FALSE
