SPECIFICATION Spec
CONSTANTS
  Client = {c1}
  NoClient = NoClient
  Approval = {a1}
  FirstSeq = 1
  MaxPlain = 2
  MaxDrops = 2
  MaxRestarts = 0
  MaxRecords = 5
  AppendsMayFail = FALSE
  SnapshotsMayFail = FALSE
  MayPrune = FALSE
  MayAge = FALSE
INVARIANTS
  CaughtUp
CHECK_DEADLOCK FALSE
