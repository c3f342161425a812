------------------------------- MODULE MCBuilder -------------------------------
(***************************************************************************)
(* A yard that builds a small ship and a capital ship.  A frame may be     *)
(* shorter than what is left of a ship, or long enough for a ship and more.*)
(***************************************************************************)
EXTENDS Builder

ShipTypes == {"Worker", "Destroyer"}
ShipTime  == [r \in ShipTypes |-> IF r = "Worker" THEN 2 ELSE 3]
ShipCost  == [r \in ShipTypes |-> IF r = "Worker" THEN 2 ELSE 6]
=============================================================================
