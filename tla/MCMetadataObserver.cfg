CONSTANTS
  publishing = publishing
  quality = quality
  o1 = o1
  o2 = o2
  Dag = {publishing, quality}
  Quality = {quality}
  Gated = {}
  Object = {o1, o2}
  CliAttempts = 2
  MaxRuns = 1
  MaxTries = 2
  MaxFaults = 2
  MaxDeploys = 1
SPECIFICATION Spec
SYMMETRY Symmetry
INVARIANTS
  TypeOK
  TriesTold
PROPERTY CatalogRestored
CHECK_DEADLOCK FALSE
