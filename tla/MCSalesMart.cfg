SPECIFICATION Spec
CONSTANTS
  Line = {l1}
  l1 = l1
  Window = 1
  MaxDay = 3
INVARIANTS RollupFollowsFact LoadedLinesMatchFiles
PROPERTIES OutageCaughtUp
