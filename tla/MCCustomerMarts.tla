---------------------------- MODULE MCCustomerMarts ----------------------------
(* Instances of CustomerMarts for TLC.                                     *)
EXTENDS CustomerMarts
===============================================================================
