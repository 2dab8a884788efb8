--------------------------- MODULE MCProductVersions ---------------------------
(* Instances of ProductVersions for TLC: one product (products are built   *)
(* apart), versions up to two days past the last day of the clock.         *)
EXTENDS ProductVersions

CONSTANTS milk, a1, a2, unknown
===============================================================================
