CONSTANTS
  TheGoal = g
  PlainKey = plain
  RecordedRuns = 4
  RecordedCrashes = 2
  RecordedStarts = 2
  Id = {a}
  Key = {plain}
  NoKey = NoKey
  NoId = NoId
  Token = {t1, t2}
  NoToken = NoToken
  MaxAttempts = 2
  LeaseTicks = 1
  Goal = {g}
  Worker = {w1, w2}
  NoWorker = NoWorker
  MaxCrashCount = 2
  MaxOutages = 1
  LoopMayThrow = TRUE
  EnvelopeOf <- MCEnvelopeOf
  GoalOf <- MCGoalOf
SPECIFICATION ActivationsSpec
INVARIANTS RecordedOutcome
PROPERTIES EveryActivationSettles AcceptedRunSettles
