CONSTANTS
  Goal = {g}
  TheGoal = g
  Owner = {o1, o2, o3}
  NoOwner = NoOwner
  LeaseTicks = 4
  MaxLag = 2
  FenceTicks = 2
  FenceLag = 1
  LockTicks = 2
  Process = {p1, p2}
  NoProcess = NoProcess
  Orphan = Orphan
SPECIFICATION LeasesSpec
PROPERTY CommitsOwnTheLease
