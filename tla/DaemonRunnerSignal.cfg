CONSTANTS
  Daemon = {d1}
  NoDaemon = NoDaemon
  LeaseTicks = 2
  MaxLag = 0
  MayOverlap = FALSE
SPECIFICATION LiveSpec
PROPERTY SignalledDaemonStops
