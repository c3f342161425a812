------------------------------- MODULE MCSessions ------------------------------
(***************************************************************************)
(* Small sessions for TLC.  Clients ask for the server's own name, and for *)
(* the name that another one of them is given instead.                     *)
(***************************************************************************)
EXTENDS Sessions, TLC

Bob == <<"bob">>
BobNames == {<<"bob">>, <<"bob", 1>>}

ClientSymmetry == Permutations(Client)
=============================================================================
