SPECIFICATION RetrySpec
CONSTANTS
  None = None
  o1 = o1
  o2 = o2
  k1 = k1
  k2 = k2
  i1 = i1
  i2 = i2
  r1 = r1
  r2 = r2
  Orders = {o1}
  CustomerReceipts = {}
  Intents = {i1}
  Receipts = {r1}
  SubjectOf <- SingleSubject
  Price <- SinglePrice
  Total <- OrderTotal
  Paid <- SinglePaid
  StkOrigin <- SingleOrigin
  ManualFallbackAllowed = FALSE
  MaxAttempts = 1
  MaxTill = 1
  MaxDay = 1
CONSTRAINTS
  NoReversals
  NoFlags
  OneOutcome
  Answered
CHECK_DEADLOCK FALSE
PROPERTIES
  RetryRepairsPosting
