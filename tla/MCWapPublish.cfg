CONSTANTS
  warehouse = warehouse
  catalog = catalog
  fact_sales = fact_sales
  sales_daily_store = sales_daily_store
  dim_product = dim_product
  Dag = {warehouse, catalog}
  Table = {fact_sales, sales_daily_store, dim_product}
  Scope <- WarehouseAndCatalog
  OutcomeDag = {warehouse}
  GatedDag = {warehouse}
  LeafDag = {}
  DimTable = dim_product
  FactTable = {fact_sales}
  Retries = 1
  MaxRuns = 2
  MaxFaults = 3
SPECIFICATION FairSpec
INVARIANTS
  ScopePublishedTogether
  OnlyAuditedLive
  FactRefsResolve
  SuccessMeansPublished
PROPERTIES
  HistoryKept
  ImplementsAtomicGold
  RunsEnd
  RecoversOnceFaultsStop
CHECK_DEADLOCK FALSE
