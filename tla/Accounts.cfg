SPECIFICATION Spec
CONSTANTS
  None = None
  o1 = o1
  o2 = o2
  k1 = k1
  k2 = k2
  i1 = i1
  i2 = i2
  r1 = r1
  r2 = r2
  Orders = {o1}
  CustomerReceipts = {k1, k2}
  Intents = {i1}
  Receipts = {r1, r2}
  SubjectOf <- AccountSubject
  Price <- AccountPrice
  Total <- OrderTotal
  Paid <- FullPaid
  StkOrigin <- AccountOrigin
  ManualFallbackAllowed = TRUE
  MaxAttempts = 1
  MaxTill = 1
  MaxDay = 2
CONSTRAINTS
  NoFlags
  OneOutcome
  Answered
CHECK_DEADLOCK FALSE
INVARIANTS
  LateReviewDecidable
  AllocationStatusTruthful
PROPERTIES
  KeepsTheBooks
  CompletedReopensOnDispute
