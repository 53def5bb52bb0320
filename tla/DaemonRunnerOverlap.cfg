CONSTANTS
  Daemon = {d1, d2, d3}
  NoDaemon = NoDaemon
  LeaseTicks = 2
  MaxLag = 0
  MayOverlap = TRUE
SPECIFICATION Spec
INVARIANT CrashIsDetected
