--------------------------------- MODULE Builder -------------------------------
(***************************************************************************)
(* A construction line (src/src/Builder.cpp) and what the Shipyard adds to *)
(* it (src/src/Shipyard.cpp): a queue of orders, the time left for the     *)
(* first, the resource units (RU), and the capital ship in the scaffold.   *)
(*                                                                         *)
(* A Builder is a record, so that a client's copy of one can be computed   *)
(* with the same operators (module BuildOrders).  Queue positions count    *)
(* from 1.  Times and RUs are integers of one unit; the code's are doubles.*)
(***************************************************************************)
EXTENDS Integers, Sequences, FiniteSets, SequencesExt

CONSTANTS
  Recipe,         \* Builder::buildRecipes
  buildtime, cost,\* the two numbers of each recipe
  Capital,        \* recipes of the Destroyer variants, built in the scaffold
  NoShip,         \* the null buildingCapital
  buildQueueSize, \* numof(buildque), 8 in the code
  InitialRU,
  Elapsed,        \* the values of dt
  MaxOrders       \* bound: orders ever accepted or merged

rate == [r \in Recipe |-> cost[r] \div buildtime[r]]

\* The last two parts make every division of anim() exact.
ASSUME BuilderAssumption ==
  /\ IsFiniteSet(Recipe)
  /\ buildtime \in [Recipe -> Nat \ {0}] /\ cost \in [Recipe -> Nat \ {0}]
  /\ Capital \subseteq Recipe /\ NoShip \notin Recipe
  /\ buildQueueSize \in Nat \ {0} /\ InitialRU \in Nat
  /\ Elapsed \subseteq Nat \ {0} /\ MaxOrders \in Nat
  /\ \A r \in Recipe : cost[r] = rate[r] * buildtime[r]
  /\ \A r, q \in Recipe : InitialRU % rate[r] = 0 /\ cost[q] % rate[r] = 0

VARIABLES
  b,      \* the Builder in the server
  orders  \* counter under a bound

vars == <<b, orders>>

\* built is history: how many units of each recipe were delivered.
NewBuilder ==
  [build |-> 0, buildOrderGen |-> 0, buildque |-> <<>>, buildStarted |-> FALSE,
   ru |-> InitialRU, buildingCapital |-> NoShip, built |-> [r \in Recipe |-> 0]]

-----------------------------------------------------------------------------
(* The operations of a Builder *)

\* The entry "before the first" of an empty queue is read as well; the memory
\* there holds buildOrderGen and nbuildque and never equals a recipe's address.
Merges(d, r) == d.buildque # <<>> /\ Last(d.buildque).st = r

\* Mistake: the limit of the queue is off by one.
AddBuildOneMore(d, r) ==
  IF Merges(d, r)
  THEN [d EXCEPT !.buildque[Len(d.buildque)].num = @ + 1]
  ELSE IF Len(d.buildque) <= buildQueueSize
  THEN [d EXCEPT !.buildque = Append(@, [st |-> r, num |-> 1, orderId |-> d.buildOrderGen]),
                 !.build = IF d.buildque = <<>> THEN buildtime[r] ELSE @,
                 !.buildOrderGen = @ + 1]
  ELSE d

\* Mistake: an order is named by its place in the queue.
AddBuildByPlace(d, r) ==
  IF Merges(d, r)
  THEN [d EXCEPT !.buildque[Len(d.buildque)].num = @ + 1]
  ELSE IF Len(d.buildque) < buildQueueSize
  THEN [d EXCEPT !.buildque = Append(@, [st |-> r, num |-> 1, orderId |-> Len(@)]),
                 !.build = IF d.buildque = <<>> THEN buildtime[r] ELSE @,
                 !.buildOrderGen = @ + 1]
  ELSE d

AddBuild(d, r) ==
  IF Merges(d, r)
  THEN [d EXCEPT !.buildque[Len(d.buildque)].num = @ + 1]
  ELSE IF Len(d.buildque) < buildQueueSize
  THEN [d EXCEPT !.buildque = Append(@, [st |-> r, num |-> 1, orderId |-> d.buildOrderGen]),
                 !.build = IF d.buildque = <<>> THEN buildtime[r] ELSE @,
                 !.buildOrderGen = @ + 1]
  ELSE d

\* Mistake: the ship in the scaffold is left there.
CancelBuildLeavesShip(d, i, recalc) ==
  LET left == IF d.buildque[i].num = 1 THEN RemoveAt(d.buildque, i)
              ELSE [d.buildque EXCEPT ![i].num = @ - 1]
  IN  [d EXCEPT !.buildque = left,
                !.build = IF recalc /\ i = 1 /\ left # <<>>
                          THEN buildtime[left[1].st] ELSE @,
                !.buildStarted = FALSE]

\* Shipyard::cancelBuild, in the server, deletes the ship in the scaffold.
CancelBuild(d, i, recalc) ==
  LET left == IF d.buildque[i].num = 1 THEN RemoveAt(d.buildque, i)
              ELSE [d.buildque EXCEPT ![i].num = @ - 1]
  IN  [d EXCEPT !.buildque = left,
                !.build = IF recalc /\ i = 1 /\ left # <<>>
                          THEN buildtime[left[1].st] ELSE @,
                !.buildStarted = FALSE,
                !.buildingCapital = NoShip]

\* command(BuildCancelCommand): one unit of the order with that id, if any.
CancelOrder(d, orderId) ==
  LET found == {i \in 1 .. Len(d.buildque) : d.buildque[i].orderId = orderId}
  IN  IF found = {} THEN d ELSE CancelBuild(d, Min(found), TRUE)

\* Shipyard::startBuild puts a capital ship into the scaffold.
StartBuild(d) ==
  LET r == d.buildque[1].st
  IN  [d EXCEPT !.buildStarted = TRUE,
                !.buildingCapital = IF r \in Capital THEN r ELSE @]

\* anim() cuts dt to what the RUs suffice for, looking at the first order only.
Affordable(d, dt) ==
  LET r == d.buildque[1].st
  IN  IF d.ru < rate[r] * (buildtime[r] - d.build + dt)
      THEN d.ru \div rate[r] + d.build - buildtime[r]
      ELSE dt

\* One turn of the loop of anim(): the first order is paid and delivered, and one
\* unit of it taken off.  When nothing is left the entry just finished is still
\* what buildque[0] holds.
Due(x) == x.d.buildque # <<>> /\ x.d.build < x.dt
\* Mistake: the price is taken after the order was taken off the queue.
FinishFirstPaysNext(x) ==
  LET r    == x.d.buildque[1].st
      left == CancelBuild([x.d EXCEPT !.built[r] = @ + 1], 1, FALSE)
      next == IF left.buildque = <<>> THEN r ELSE left.buildque[1].st
  IN  [d |-> [left EXCEPT !.build = @ + buildtime[next], !.ru = @ - cost[next]],
       dt |-> x.dt - x.d.build]

FinishFirst(x) ==
  LET r         == x.d.buildque[1].st
      \* finishBuild: the ship of the scaffold is the one delivered, if there is one
      ship      == IF x.d.buildingCapital # NoShip THEN x.d.buildingCapital ELSE r
      delivered == [x.d EXCEPT !.ru = @ - cost[r], !.built[ship] = @ + 1,
                               !.buildingCapital = NoShip]
      left      == CancelBuild(delivered, 1, FALSE)
      next      == IF left.buildque = <<>> THEN r ELSE left.buildque[1].st
  IN  [d |-> [left EXCEPT !.build = @ + buildtime[next]], dt |-> x.dt - x.d.build]

\* The loop; a turn takes a unit off the queue, which never has more than were ordered.
Turns(x) ==
  LET turn[n \in 0 .. MaxOrders] ==
        IF n = 0 THEN x
        ELSE LET y == turn[n - 1] IN IF Due(y) THEN FinishFirst(y) ELSE y
  IN  turn[MaxOrders]

\* blocked: an Entity stands where the scaffold would put a capital ship.
Anim(d, dt, blocked) ==
  LET empty   == d.buildque = <<>>
      stuck   == ~empty /\ ~d.buildStarted /\ d.buildque[1].st \in Capital /\ blocked
      started == IF ~empty /\ ~d.buildStarted THEN StartBuild(d) ELSE d
      last    == Turns([d |-> started, dt |-> Affordable(started, dt)])
  IN  IF empty \/ stuck THEN d
      ELSE [last.d EXCEPT !.build = IF last.d.buildque = <<>> THEN @ ELSE @ - last.dt]

-----------------------------------------------------------------------------
(* One Builder, in the server *)

Init == b = NewBuilder /\ orders = 0

Build(r) ==
  /\ orders < MaxOrders /\ orders' = orders + 1
  /\ b' = AddBuild(b, r)

BuildCancel(orderId) == b' = CancelOrder(b, orderId) /\ UNCHANGED orders

anim(dt, blocked) == b' = Anim(b, dt, blocked) /\ UNCHANGED orders

\* Somebody destroys the unfinished ship.
CapitalDestroyed ==
  /\ b.buildingCapital # NoShip
  /\ b' = [b EXCEPT !.buildingCapital = NoShip]
  /\ UNCHANGED orders

Next ==
  \/ \E r \in Recipe : Build(r)
  \/ \E orderId \in 0 .. MaxOrders - 1 : BuildCancel(orderId)
  \/ \E dt \in Elapsed, blocked \in BOOLEAN : anim(dt, blocked)
  \/ CapitalDestroyed

Spec == Init /\ [][Next]_vars

-----------------------------------------------------------------------------
TypeOK ==
  /\ Len(b.buildque) <= buildQueueSize
  /\ \A i \in 1 .. Len(b.buildque) :
       /\ b.buildque[i].st \in Recipe /\ b.buildque[i].num \in Nat \ {0}
       /\ b.buildque[i].orderId \in 0 .. b.buildOrderGen - 1
  /\ b.build \in Int /\ b.ru \in Int /\ b.buildStarted \in BOOLEAN
  /\ b.buildingCapital \in Capital \cup {NoShip}
  /\ b.built \in [Recipe -> Nat] /\ orders \in 0 .. MaxOrders

\* An id names one order for as long as the Builder lives, however orders are
\* merged, cancelled and finished: the loop of BuildCancel, which goes on after
\* it has cancelled one, never meets a second (Builder.cpp:124,249-254).
OrderIdsAscend ==
  \A i, j \in 1 .. Len(b.buildque) :
    i < j => b.buildque[i].orderId < b.buildque[j].orderId

\* The ship in the scaffold is the one the first order is for: it is never
\* delivered in the place of another (Shipyard.cpp:465-524).
ScaffoldIsFirst ==
  b.buildingCapital # NoShip =>
    b.buildque # <<>> /\ b.buildque[1].st = b.buildingCapital /\ b.buildStarted

\* What so many units of each recipe cost.
Price(built) ==
  LET sum[S \in SUBSET Recipe] ==
        IF S = {} THEN 0
        ELSE LET r == CHOOSE r \in S : TRUE IN cost[r] * built[r] + sum[S \ {r}]
  IN  sum[Recipe]

\* Exactly the delivered ships are paid for, each once and at its own price,
\* whatever was cancelled, destroyed or finished several to a frame
\* (Builder.cpp:203-217).
PaidForDelivered == InitialRU - b.ru = Price(b.built)

getRU == IF b.buildque = <<>> THEN b.ru
         ELSE b.ru - rate[b.buildque[1].st] * (buildtime[b.buildque[1].st] - b.build)

\* "we show the RUs partially subtracted" (Builder.cpp:209): what getRU() shows is
\* never more than there is.
ShownAtMostHeld == getRU <= b.ru

\* "If resource units gonna run out, stop construction then" (Builder.cpp:197):
\* what is under construction never costs more than there is.
NeverOverdrawn == getRU >= 0

\* "index: the position in the queue that is demanded to be canceled"
\* (Builder.cpp:165): to cancel an order behind the first leaves the ship that is
\* under construction alone.
CancelSparesFirst ==
  [][\A i \in 2 .. Len(b.buildque) :
       BuildCancel(b.buildque[i].orderId) => b'.buildingCapital = b.buildingCapital]_vars
=============================================================================
