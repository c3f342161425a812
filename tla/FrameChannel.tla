------------------------------ MODULE FrameChannel -----------------------------
(***************************************************************************)
(* What the connection promises to a client's game, by the protocol that   *)
(* src/src/Server.cpp documents (187): the frames of the server come out   *)
(* whole and in the order in which they were sent, each of them once.  The *)
(* one excuse is an update for which the game's mutex could not be got in  *)
(* time (src/src/Client.cpp:156).                                          *)
(*                                                                         *)
(* Module ClientStream, with its bytes and buffers, implements this.       *)
(***************************************************************************)
EXTENDS Naturals, Sequences

CONSTANTS
  Frame,  \* what may be sent
  Update  \* the frames that may be given up

VARIABLES
  sent,  \* the frames the server sent
  done,  \* how many of them are behind the client
  got    \* those it interpreted

Init == sent = <<>> /\ done = 0 /\ got = <<>>

Send(f) ==
  /\ f \in Frame
  /\ sent' = Append(sent, f)
  /\ UNCHANGED <<done, got>>

Deliver ==
  /\ done < Len(sent)
  /\ got' = Append(got, sent[done + 1])
  /\ done' = done + 1
  /\ UNCHANGED sent

GiveUp ==
  /\ done < Len(sent) /\ sent[done + 1] \in Update
  /\ done' = done + 1
  /\ UNCHANGED <<sent, got>>

Next == (\E f \in Frame : Send(f)) \/ Deliver \/ GiveUp

vars == <<sent, done, got>>

Spec == Init /\ [][Next]_vars
=============================================================================
