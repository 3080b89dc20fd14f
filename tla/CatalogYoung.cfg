SPECIFICATION Spec
CONSTANTS
  e1 = e1
  e2 = e2
  t1 = t1
  t2 = t2
  Tab = {t1}
  Entity = {e1, e2}
  StartLog <- TwoRows
  Warm = {TRUE, FALSE}
  Retained = 9
  Page = 1
  MaxHead = 4
  MaxFaults = 1
  Changed = {e1}
  Counted = {e2}
  Refreshes = TRUE
  SlowDisk = FALSE
CHECK_DEADLOCK FALSE
INVARIANTS
  TypeOK
PROPERTIES
  IsReplica
