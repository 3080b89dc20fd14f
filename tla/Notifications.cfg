SPECIFICATION FairSpec
CONSTANTS
  m1 = m1
  m2 = m2
  w1 = w1
  w2 = w2
  Message = {m1}
  Worker = {w1, w2}
  MaxAttempts = 2
  QuotaLimit = 1
  MaxFaults = 1
INVARIANTS
  TypeOK
  QuotaExact
  SentOnceAndPaid
  FallbackAfterFailure
PROPERTIES
  FinalIsFinal
  EveryMessageEnds
  FailureIsFollowedUp
CHECK_DEADLOCK FALSE
