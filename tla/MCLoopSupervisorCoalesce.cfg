CONSTANTS
  a = a
  b = b
  g = g
  plain = plain
  run = run
  Id = {a, b}
  Key = {plain, run}
  NoKey = NoKey
  NoId = NoId
  Token = {t1, t2, t3}
  NoToken = NoToken
  MaxTtl = 4
  MaxAttempts = 4
  LeaseTicks = 1
  Goal = {g}
  Worker = {w1, w2}
  NoWorker = NoWorker
  MaxCrashCount = 2
  MaxOutages = 0
  LoopMayThrow = FALSE
  EnvelopeOf <- MCEnvelopeOf
  GoalOf <- MCGoalOf
SPECIFICATION Spec
INVARIANTS CoalescedIsRun
