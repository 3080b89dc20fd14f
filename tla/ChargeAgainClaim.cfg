SPECIFICATION Spec
CONSTANTS
  None = None
  o1 = o1
  o2 = o2
  k1 = k1
  k2 = k2
  i1 = i1
  i2 = i2
  r1 = r1
  r2 = r2
  Orders = {o1}
  CustomerReceipts = {}
  Intents = {i1, i2}
  Receipts = {r1, r2}
  SubjectOf <- CheckoutSubject
  Price <- CheckoutPrice
  Total <- OrderTotal
  Paid <- FullPaid
  StkOrigin <- CheckoutOrigin
  ManualFallbackAllowed = FALSE
  MaxAttempts = 1
  MaxTill = 1
  MaxDay = 1
CONSTRAINTS
  NoReversals
  NoFlags
  OneOutcome
CHECK_DEADLOCK FALSE
PROPERTIES
  PaidIsNotChargedAgain
