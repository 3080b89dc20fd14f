SPECIFICATION FairSpec
CONSTANTS
  a1 = a1
  a2 = a2
  t1 = t1
  t2 = t2
  None = None
  Ref = {a1, a2}
  Tab = {t1}
  SellTab = t1
  MaxDay = 2
  MaxReloads = 1
INVARIANTS
  TypeOK
  BookedOnce
PROPERTIES
  ClosedStaysClosed
  HasOneFate
  QueuedIsSettled
