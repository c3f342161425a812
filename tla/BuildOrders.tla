------------------------------- MODULE BuildOrders -----------------------------
(***************************************************************************)
(* A player's build window and the Builder in the server.  The client      *)
(* carries an order out on its own copy of the Builder at once and sends   *)
(* the command; diffs bring it the server's Builder (Builder::serialize),  *)
(* which takes the place of the copy.  Commands and diffs arrive in order. *)
(*                                                                         *)
(* What a scaffold adds, which a capital ship may not fit into and loses   *)
(* when it is destroyed, is left to module Builder.                        *)
(***************************************************************************)
EXTENDS Builder

CONSTANTS
  MaxCancels, \* bound: cancels ever ordered
  MaxFlight   \* bound: commands, and diffs, on their way

ASSUME BuildOrdersAssumption == MaxCancels \in Nat /\ MaxFlight \in Nat

VARIABLES
  c,       \* the Builder in the client
  seen,    \* history: buildOrderGen of the last diff the client has read
  up,      \* commands on their way to the server
  down,    \* diffs on their way to the client
  cancels  \* counter under a bound

client  == <<c, seen, up, down, cancels>>
allvars == <<vars, client>>

InitOrders ==
  /\ Init
  /\ c = NewBuilder /\ seen = 0 /\ up = <<>> /\ down = <<>> /\ cancels = 0

-----------------------------------------------------------------------------
(* GLWbuild::mouse *)

\* addBuild on the copy, then a BuildCommand.
OrderBuild(r) ==
  /\ orders < MaxOrders /\ orders' = orders + 1
  /\ Len(up) < MaxFlight
  /\ c' = AddBuild(c, r)
  /\ up' = Append(up, [command |-> "Build", st |-> r])
  /\ UNCHANGED <<b, seen, down, cancels>>

\* A BuildCancelCommand with the id the copy has for the entry; then the copy's
\* own entry is cancelled, its time left set to zero.
OrderCancel(i) ==
  /\ cancels < MaxCancels /\ cancels' = cancels + 1
  /\ Len(up) < MaxFlight
  /\ c.build # 0
  /\ up' = Append(up, [command |-> "BuildCancel", orderId |-> c.buildque[i].orderId,
                       meant |-> c.buildque[i].st,
                       confirmed |-> c.buildque[i].orderId < seen])
  /\ c' = CancelBuild([c EXCEPT !.build = 0], i, TRUE)
  /\ UNCHANGED <<b, orders, seen, down>>

\* The client simulates its copy between two diffs.
ClientAnim(dt) ==
  /\ c' = Anim(c, dt, FALSE)
  /\ UNCHANGED <<vars, seen, up, down, cancels>>

ReadDiff ==
  /\ down # <<>>
  /\ c' = Head(down) /\ seen' = Head(down).buildOrderGen
  /\ down' = Tail(down)
  /\ UNCHANGED <<vars, up, cancels>>

-----------------------------------------------------------------------------
(* The server *)

Interpret ==
  /\ up # <<>> /\ up' = Tail(up)
  /\ LET m == Head(up)
     IN  b' = IF m.command = "Build" THEN AddBuild(b, m.st) ELSE CancelOrder(b, m.orderId)
  /\ UNCHANGED <<orders, c, seen, down, cancels>>

ServerAnim(dt) == anim(dt, FALSE) /\ UNCHANGED client

SendDiff ==
  /\ Len(down) < MaxFlight
  /\ down' = Append(down, b)
  /\ UNCHANGED <<vars, c, seen, up, cancels>>

NextOrders ==
  \/ \E r \in Recipe : OrderBuild(r)
  \/ \E i \in 1 .. Len(c.buildque) : OrderCancel(i)
  \/ \E dt \in Elapsed : ClientAnim(dt) \/ ServerAnim(dt)
  \/ ReadDiff \/ Interpret \/ SendDiff

SpecOrders == InitOrders /\ [][NextOrders]_allvars

-----------------------------------------------------------------------------
Hits(m) == {i \in 1 .. Len(b.buildque) : b.buildque[i].orderId = m.orderId}

\* A cancel of an entry that a diff has brought to the client cancels that entry
\* or, when it has been finished or cancelled in the meantime, nothing: commands
\* name orders by their id, and no order is given an id again
\* (Builder.cpp:124,249-254, GLWbuild.cpp:219-230).
ConfirmedCancelHits ==
  \A k \in 1 .. Len(up) : up[k].command = "BuildCancel" /\ up[k].confirmed =>
    \A i \in Hits(up[k]) : b.buildque[i].st = up[k].meant

\* "To distinguish individual BuildData" (Builder.h:36): whatever entry the player
\* points at, the server cancels no other.
CancelHitsMeant ==
  up # <<>> /\ Head(up).command = "BuildCancel" =>
    \A i \in Hits(Head(up)) : b.buildque[i].st = Head(up).meant
=============================================================================
