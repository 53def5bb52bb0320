CONSTANTS
  a = a
  b = b
  g = g
  plain = plain
  run = run
  Id = {a, b}
  Key = {plain, run}
  NoKey = NoKey
  NoId = NoId
  Token = {t1, t2, t3}
  NoToken = NoToken
  MaxTtl = 2
  MaxAttempts = 2
  LeaseTicks = 1
  Goal = {g}
  Worker = {w1, w2}
  NoWorker = NoWorker
  MaxCrashCount = 2
  MaxOutages = 1
  LoopMayThrow = TRUE
  EnvelopeOf <- MCEnvelopeOf
  GoalOf <- MCGoalOf
CONSTRAINT AloneAfterOutage
SYMMETRY SupervisorSymmetry
SPECIFICATION Spec
INVARIANTS OneExecutionPerGoal ClaimsAccounted
PROPERTIES SuspendedNeverRuns
