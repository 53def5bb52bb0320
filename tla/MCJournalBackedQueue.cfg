CONSTANTS
  a = a
  b = b
  c = c
  d = d
  goalKey = goalKey
  supervisor = supervisor
  dispatcher = dispatcher
  Id = {a, b, c}
  Key = {goalKey}
  NoKey = NoKey
  Token = {t1, t2}
  NoToken = NoToken
  Worker = {supervisor}
  MaxTtl = 2
  MaxAttempts = 2
  LeaseTicks = 2
  AttemptBound = 2
  EnvelopeOf <- MCEnvelopeOf
  Handles <- MCHandles
SPECIFICATION FairSpec
INVARIANTS BucketsConsistent OneActivePerKey
PROPERTIES NoOvertaking DeliveryContract AcceptedIsSettled
CHECK_DEADLOCK FALSE
