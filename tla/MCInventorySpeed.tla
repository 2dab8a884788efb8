---------------------------- MODULE MCInventorySpeed ----------------------------
(* Topics with a retry, a late record on the prediction's boundary and one  *)
(* the watermark waits for, a partition that is quiet while the other       *)
(* moves on, conflicting copies in the same hour, and one ahead of the      *)
(* clock that closes an hour too soon.                                      *)
EXTENDS InventorySpeed, TLC

CONSTANTS p1, p2, e1, e2, e3

R(e, t, a) == [id |-> e, time |-> t, at |-> a]

Sample == {
  (p1 :> <<R(e1, 0, 0), R(e1, 0, 1), R(e2, 3, 3)>> @@ p2 :> <<>>),
  (p1 :> <<R(e1, 0, 0), R(e2, 3, 3), R(e3, 1, 3)>> @@ p2 :> <<>>),
  (p1 :> <<R(e1, 2, 2), R(e2, 1, 2)>> @@ p2 :> <<>>),
  (p1 :> <<R(e1, 3, 3)>> @@ p2 :> <<R(e2, 1, 4)>>),
  (p1 :> <<R(e1, 0, 0), R(e1, 1, 1)>> @@ p2 :> <<R(e2, 3, 3)>>),
  (p1 :> <<R(e1, 1, 1), R(e1, 3, 1), R(e2, 1, 1)>> @@ p2 :> <<>>)}
===============================================================================
