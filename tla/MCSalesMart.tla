------------------------------ MODULE MCSalesMart ------------------------------
(* Instances of SalesMart for TLC.                                         *)
EXTENDS SalesMart
CONSTANT l1
===============================================================================
