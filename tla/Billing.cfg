SPECIFICATION FairSpec
CONSTANTS
  c1 = c1
  c2 = c2
  Caller = {c1, c2}
  MaxRef = 2
  MaxCredits = 2
  MaxFaults = 1
CONSTRAINTS
  OverlapFirst
  OverrideAlone
INVARIANTS
  TypeOK
  InitialChargedOnce
  PurchaseClosesAttempts
  CreditedOnce
PROPERTIES
  PaidIsHonoured
  EndedAttemptMakesWay
  ExpiryIsMarked
CHECK_DEADLOCK FALSE
