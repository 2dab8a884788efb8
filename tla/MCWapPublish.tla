----------------------------- MODULE MCWapPublish -----------------------------
(* Two of the publishing DAGs on a small instance: the warehouse DAG with   *)
(* a fact and its rollup, and the catalog DAG with dim_product.             *)
EXTENDS WapPublish

CONSTANTS warehouse, catalog, fact_sales, sales_daily_store, dim_product

WarehouseAndCatalog ==
  [d \in {warehouse, catalog} |->
     IF d = warehouse THEN {fact_sales, sales_daily_store} ELSE {dim_product}]
===============================================================================
