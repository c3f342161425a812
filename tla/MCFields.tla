-------------------------------- MODULE MCFields -------------------------------
(***************************************************************************)
(* A Shipyard with its Docker, two fighters and one shot for TLC.          *)
(***************************************************************************)
EXTENDS Fields

CONSTANTS f1, f2, f3, s1
=============================================================================
