---------------------------- MODULE MCRowCountGate ----------------------------
(* One owned mart, one mart of another DAG, and counts around the 20%       *)
(* threshold: 5 -> 4 is exactly 20% down, 7 -> 5 and 5 -> 7 are beyond it.  *)
EXTENDS RowCountGate

CONSTANTS fact_sales, dim_customer
===============================================================================
