CONSTANTS
  Goal = {g1}
  NoGoal = NoGoal
  GivenGoals = {}
  Commands = {"start", "stop"}
  Dispatcher = {"command"}
  MayMaintain = TRUE
  RunsMayFail = FALSE
  MayRetry = FALSE
  ResidentSaves = FALSE
  SavesMayFail = FALSE
  MaxCrashes = 0
  MaxShutdowns = 0
SPECIFICATION Spec
PROPERTY StopPreventsReactivation
