CONSTANTS
  p1 = p1
  p2 = p2
  e1 = e1
  e2 = e2
  e3 = e3
  Partition = {p1, p2}
  Event = {e1, e2}
  HourLen = 1
  Delay = 1
  MaxLateness = 1
  Ahead = 1
  MaxTime = 3
  MaxRecords = 4
  MaxFaults = 1
SPECIFICATION Spec
SYMMETRY Symmetry
INVARIANTS
  TypeOK
  RebuildReconciles
  LostRecordsStayEstimated
PROPERTY CorrectionsMoveBack
CHECK_DEADLOCK FALSE
