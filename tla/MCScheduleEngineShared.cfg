CONSTANTS
  e1 = e1  e2 = e2  e3 = e3  tick = tick  tool = tool  tool2 = tool2  None = None
  Ticker = tick  Target <- Escalating  KeyOf <- Keys
  Entry = {e1, e2}  Added = {e1, e2}  Caller = {tick, tool}  EngineOf <- Shared
  Ops = {"manual"}
  MaxTime = 2  MaxAttempts = 1  Breaker = 2
  MaxOps = 1  MaxCrashes = 0  MaxLapses = 0
SPECIFICATION RunsAlone
INVARIANTS HistoryIsSaved
