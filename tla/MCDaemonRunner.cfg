CONSTANTS
  Daemon = {d1, d2}
  NoDaemon = NoDaemon
  LeaseTicks = 2
  MaxLag = 1
  MayOverlap = TRUE
  MaxChildren = 5
  MaxUnhealthy = 3
  MaxProbeFailures = 2
  MayExitEarly = FALSE
SPECIFICATION RunnerSpec
INVARIANTS LeadershipHonoured CrashIsDetectedInTurn NoStrayChild CircuitMeansStorm
PROPERTIES DeposedLeaderStops HungChildGoes DeadChildIsReplaced StopEnds
