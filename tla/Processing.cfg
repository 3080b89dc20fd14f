SPECIFICATION FairSpec
CONSTANTS
  k1 = k1
  k2 = k2
  w1 = w1
  w2 = w2
  Caller = {k1}
  Worker = {w1, w2}
  MaxAttempts = 2
  MaxFaults = 1
CONSTRAINTS
  OverlapOnce
  AgedFaultEarly
INVARIANTS
  TypeOK
  ChargeableMeansUnpaid
  ProcessedMoneyIsKept
PROPERTIES
  PendingResolves
  EventResolves
CHECK_DEADLOCK FALSE
