CONSTANTS
  fact_sales = fact_sales
  dim_customer = dim_customer
  Mart = {fact_sales, dim_customer}
  OwnedMart = {fact_sales}
  Count = {0, 4, 5, 7}
  ThresholdPct = 20
SPECIFICATION Spec
INVARIANTS
  LiveHoldsBaseline
PROPERTY SavedCountsAreLive
