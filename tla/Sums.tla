---------------------------------- MODULE Sums ----------------------------------
(***************************************************************************)
(* Sums over the values of a function, which is what sum() over the rows   *)
(* of a group is when the function gives each row its quantity.            *)
(***************************************************************************)
EXTENDS Integers, FiniteSetsExt

Total(f) == MapThenSumSet(LAMBDA x : f[x], DOMAIN f)
=================================================================================
