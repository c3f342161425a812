------------------------------- MODULE MCObservers -----------------------------
(***************************************************************************)
(* Three objects and one observer of each kind for TLC.  Observers do not    *)
(* touch each other, so more of a kind would only repeat it.               *)
(***************************************************************************)
EXTENDS Observers

CONSTANTS o1, o2, o3, p1, s1, l1, m1
=============================================================================
