CONSTANTS
  Goal = {g1}
  NoGoal = NoGoal
  GivenGoals = {g1}
  Commands = {"pause"}
  Dispatcher = {"command"}
  MayMaintain = FALSE
  RunsMayFail = FALSE
  MayRetry = FALSE
  ResidentSaves = FALSE
  SavesMayFail = FALSE
  MaxCrashes = 0
  MaxShutdowns = 0
SPECIFICATION FairSpec
PROPERTY PauseIsReached
