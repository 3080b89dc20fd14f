SPECIFICATION Spec
CONSTANTS
  e1 = e1
  e2 = e2
  t1 = t1
  t2 = t2
  Tab = {t1}
  Entity = {e1, e2}
  StartLog <- TwoRows
  Warm = {TRUE}
  Retained = 9
  Page = 1
  MaxHead = 3
  MaxFaults = 0
  Changed = {e1, e2}
  Counted = {}
  Refreshes = FALSE
  SlowDisk = TRUE
CHECK_DEADLOCK FALSE
INVARIANTS
  SnapshotIsComplete
