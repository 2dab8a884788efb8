CONSTANTS
  milk = milk
  a1 = a1
  a2 = a2
  unknown = unknown
  Product = {milk}
  Attrs = {a1, a2, unknown}
  LastDay = 3
  MaxFrom = 5
SPECIFICATION ProductsSpec
INVARIANTS
  VersionsTile
PROPERTY HistoryImmutable
CHECK_DEADLOCK FALSE
