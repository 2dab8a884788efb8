CONSTANTS
  p1 = p1
  p2 = p2
  e1 = e1
  e2 = e2
  e3 = e3
  Partition = {p1, p2}
  Event = {e1, e2, e3}
  HourLen = 2
  Delay = 1
  Ahead = 2
  MaxTime = 4
  Topics <- Sample
  MaxFaults = 1
SPECIFICATION Spec
INVARIANTS
  TypeOK
  CountedOnce
  ShortfallExplained
  
CHECK_DEADLOCK FALSE
