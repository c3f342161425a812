----------------------------- MODULE MCBuildOrders -----------------------------
(***************************************************************************)
(* Two ships, each built in one frame and neither a capital one, and few   *)
(* orders in flight.                                                       *)
(***************************************************************************)
EXTENDS BuildOrders

ShipTypes == {"Worker", "Interceptor"}
ShipTime  == [r \in ShipTypes |-> 1]
ShipCost  == [r \in ShipTypes |-> 1]
=============================================================================
