---------------------------- MODULE MCInventoryMarts ----------------------------
(* Instances of InventoryMarts for TLC: the last hour of one day and the    *)
(* first of the day after the next, so a day without movement lies between. *)
(* Milk has an opening count and moves in both hours, as estimated or final *)
(* scans say; bread has none and moves in the earlier hour only.            *)
EXTENDS InventoryMarts
CONSTANTS milk, bread
MCOpening  == [p \in {milk} |-> 1]
Estimated  == [delta |-> -1, estimated |-> TRUE]
Final      == [delta |-> 1, estimated |-> FALSE]
MCMovement ==
  [x \in {milk, bread} \X Hour |->
     IF x[1] = milk THEN {Estimated, Final} ELSE IF x[2] = 1 THEN {Estimated} ELSE {}]
===============================================================================
