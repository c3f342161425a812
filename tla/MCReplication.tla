----------------------------- MODULE MCReplication -----------------------------
(***************************************************************************)
(* Small worlds for TLC.  Contents are short byte strings, of two lengths  *)
(* so that objects grow and shrink; clients are interchangeable.           *)
(***************************************************************************)
EXTENDS Replication, TLC

TwoLengths == {<<0>>, <<1>>, <<0, 1>>}

ClientSymmetry == Permutations(Client)
=============================================================================
