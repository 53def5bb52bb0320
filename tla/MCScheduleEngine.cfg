CONSTANTS
  e1 = e1  e2 = e2  e3 = e3  tick = tick  tool = tool  tool2 = tool2  None = None
  Ticker = tick  Target <- Escalating  KeyOf <- Keys
  Entry = {e1, e2, e3}  Added = {e1, e2}  Caller = {tick, tool}  EngineOf <- Apart
  Ops = {"manual_escalate", "remove", "pause"}
  MaxTime = 2  MaxAttempts = 0  Breaker = 2
  MaxOps = 1  MaxCrashes = 1  MaxLapses = 0
SPECIFICATION EngineSpec
INVARIANTS HistoryIsSaved ToldIsStored OneAlarmPerCooldown OneEntryPerKey
PROPERTIES SlotsAreRun
