---------------------------- MODULE MCServerThreads ----------------------------
(***************************************************************************)
(* Small servers for TLC.  Connections are interchangeable.                *)
(***************************************************************************)
EXTENDS ServerThreads, TLC

ConnSymmetry == Permutations(Conn)
=============================================================================
