CONSTANTS
  Goal = {g1}
  NoGoal = NoGoal
  GivenGoals = {}
  Commands = {"start"}
  Dispatcher = {"command"}
  MayMaintain = FALSE
  RunsMayFail = FALSE
  MayRetry = FALSE
  ResidentSaves = TRUE
  SavesMayFail = FALSE
  MaxCrashes = 1
  MaxShutdowns = 0
SPECIFICATION Spec
PROPERTY StartedIsRestored
