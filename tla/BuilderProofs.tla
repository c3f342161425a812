------------------------------ MODULE BuilderProofs -----------------------------
(***************************************************************************)
(* What a construction line keeps, for every set of recipes, prices, times *)
(* and lengths of the frames, however long it runs.                        *)
(*                                                                         *)
(* Invariant: the Builder is well formed, the ids of its queue ascend and  *)
(* were all issued, the ship in the scaffold is the first order's, and     *)
(* what is missing of the RUs is the price of what was delivered.  The     *)
(* loop of anim() is unfolded turn by turn: a turn keeps the invariant.    *)
(*                                                                         *)
(* With a client: whatever says what an order is for, and came from the    *)
(* server (its Builder, a diff, the client's copy of one, a command made   *)
(* of that copy), says the same.  No operation gives an order another id   *)
(* or recipe, and addBuild takes an id that nothing has named.             *)
(***************************************************************************)
EXTENDS BuildOrders, BinDiffProofs

Order == [st : Recipe, num : Nat \ {0}, orderId : Nat]

Yard ==
  [build : Int, buildOrderGen : Nat, buildque : Seq(Order), buildStarted : BOOLEAN,
   ru : Int, buildingCapital : Capital \cup {NoShip}, built : [Recipe -> Nat]]

Ascends(q) == \A i, j \in 1 .. Len(q) : i < j => q[i].orderId < q[j].orderId
Below(q, n) == \A i \in 1 .. Len(q) : q[i].orderId < n

\* A queue as the code can leave it, when n ids have been issued.
Queue(q, n) == Len(q) <= buildQueueSize /\ Ascends(q) /\ Below(q, n)

Scaffold(d) ==
  d.buildingCapital # NoShip =>
    d.buildque # <<>> /\ d.buildque[1].st = d.buildingCapital /\ d.buildStarted

Paid(d) == InitialRU - d.ru = Price(d.built)

\* The orders of p are orders of q, as far as their ids and recipes go.
Within(p, q) ==
  \A j \in 1 .. Len(p) : \E k \in 1 .. Len(q) :
    p[j].orderId = q[k].orderId /\ p[j].st = q[k].st

\* No order is new in e, and one may be that takes the next id of d and is for r.
Fewer(e, d) == Within(e.buildque, d.buildque) /\ e.buildOrderGen = d.buildOrderGen
Adds(e, d, r) ==
  /\ e.buildOrderGen = d.buildOrderGen + 1
  /\ \A j \in 1 .. Len(e.buildque) :
       \/ e.buildque[j].orderId = d.buildOrderGen /\ e.buildque[j].st = r
       \/ \E k \in 1 .. Len(d.buildque) : /\ e.buildque[j].orderId = d.buildque[k].orderId
                                         /\ e.buildque[j].st = d.buildque[k].st

Sound(d) == d \in Yard /\ Queue(d.buildque, d.buildOrderGen) /\ Scaffold(d) /\ Paid(d)

IInv == Sound(b) /\ orders \in 0 .. MaxOrders

-----------------------------------------------------------------------------
(* The queue *)

\* The fields of the orders of a queue.
LEMMA OrderFields ==
  ASSUME NEW q \in Seq(Order), NEW i \in 1 .. Len(q)
  PROVE  /\ q[i] \in Order
         /\ q[i].st \in Recipe /\ q[i].num \in Nat \ {0} /\ q[i].orderId \in Nat
<1>1. q[i] \in Order
  OBVIOUS
<1> QED BY <1>1 DEF Order

\* The number of an order is all that changes with it.
LEMMA Renumbered ==
  ASSUME NEW e \in Order, NEW k \in Nat \ {0}
  PROVE  /\ [e EXCEPT !.num = k] \in Order
         /\ [e EXCEPT !.num = k].orderId = e.orderId /\ [e EXCEPT !.num = k].st = e.st
BY DEF Order

\* What cancelBuild leaves of a queue: one unit less of the i-th order.
Less(q, i) == IF q[i].num = 1 THEN RemoveAt(q, i) ELSE [q EXCEPT ![i].num = @ - 1]

\* It is a queue again (Builder.cpp:164-178).
LEMMA LessIsQueue ==
  ASSUME NEW q \in Seq(Order), NEW i \in 1 .. Len(q), NEW n \in Nat, Queue(q, n)
  PROVE  Less(q, i) \in Seq(Order) /\ Queue(Less(q, i), n) /\ Within(Less(q, i), q)
<1>1. CASE q[i].num = 1
  <2>1. PICK p : p = RemoveAt(q, i)
    OBVIOUS
  <2>2. /\ p \in Seq(Order) /\ Len(p) = Len(q) - 1
        /\ \A j \in 1 .. Len(q) - 1 : p[j] = IF j < i THEN q[j] ELSE q[j + 1]
    BY <2>1, Removed
  <2>3. Less(q, i) = p
    BY <1>1, <2>1 DEF Less
  <2>4. ASSUME NEW j \in 1 .. Len(p)
        PROVE  \E k \in 1 .. Len(q) : p[j] = q[k] /\ k = IF j < i THEN j ELSE j + 1
    BY <2>2
  <2>5. Below(p, n)
    BY <2>4 DEF Queue, Below
  <2>6. ASSUME NEW j \in 1 .. Len(p), NEW l \in 1 .. Len(p), j < l
        PROVE  p[j].orderId < p[l].orderId
    <3>1. PICK k \in 1 .. Len(q) : p[j] = q[k] /\ k = IF j < i THEN j ELSE j + 1
      BY <2>4
    <3>2. PICK m \in 1 .. Len(q) : p[l] = q[m] /\ m = IF l < i THEN l ELSE l + 1
      BY <2>4
    <3>3. k < m
      BY <2>6, <3>1, <3>2
    <3> QED BY <3>1, <3>2, <3>3 DEF Queue, Ascends
  <2>7. Len(p) <= buildQueueSize
    BY <2>2, BuilderAssumption DEF Queue
  <2>8. Within(p, q)
    BY <2>4 DEF Within
  <2> QED BY <2>2, <2>3, <2>5, <2>6, <2>7, <2>8 DEF Queue, Ascends
<1>2. CASE q[i].num # 1
  <2>1. PICK p : p = [q EXCEPT ![i].num = @ - 1]
    OBVIOUS
  <2>2. Less(q, i) = p
    BY <1>2, <2>1 DEF Less
  <2>3. ASSUME NEW e \in Order, e.num # 1
        PROVE  /\ [e EXCEPT !.num = @ - 1] \in Order
               /\ [e EXCEPT !.num = @ - 1].orderId = e.orderId
               /\ [e EXCEPT !.num = @ - 1].st = e.st
    <3>1. e.num - 1 \in Nat \ {0}
      BY <2>3 DEF Order
    <3>2. PICK k \in Nat \ {0} : k = e.num - 1
      BY <3>1
    <3> QED BY <3>2, Renumbered
  <2>4. q[i] \in Order
    OBVIOUS
  <2>5. p \in Seq(Order) /\ Len(p) = Len(q)
    BY <1>2, <2>1, <2>3, <2>4
  <2>6. \A j \in 1 .. Len(q) : p[j].orderId = q[j].orderId /\ p[j].st = q[j].st
    BY <1>2, <2>1, <2>3, <2>4
  <2>7. Within(p, q)
    BY <2>5, <2>6 DEF Within
  <2> QED BY <2>2, <2>5, <2>6, <2>7 DEF Queue, Ascends, Below
<1> QED BY <1>1, <1>2
-----------------------------------------------------------------------------
(* The price of what was delivered *)

\* f is the sum in Price.
Sums(f, built) ==
  \A S \in SUBSET Recipe :
    f[S] = IF S = {} THEN 0
           ELSE LET r == CHOOSE r \in S : TRUE IN cost[r] * built[r] + f[S \ {r}]

\* The recursion over the sets of recipes is well founded.
LEMMA PriceDef ==
  ASSUME NEW built
  PROVE  \E f : Sums(f, built) /\ Price(built) = f[Recipe]
<1> DEFINE T(n) == {S \in SUBSET Recipe : Cardinality(S) <= n}
           body(g, S) == IF S = {} THEN 0
                         ELSE LET r == CHOOSE r \in S : TRUE IN cost[r] * built[r] + g[S \ {r}]
           Part(g, n) == \A S \in T(n) : g[S] = body(g, S)
           N == {n \in Nat : \E g : Part(g, n)}
<1>1. \A S \in SUBSET Recipe :
        /\ IsFiniteSet(S) /\ Cardinality(S) \in Nat /\ Cardinality(S) <= Cardinality(Recipe)
        /\ Cardinality(S) = 0 <=> S = {}
        /\ \A r \in S : Cardinality(S \ {r}) = Cardinality(S) - 1
  BY BuilderAssumption, FS_Subset, FS_CardinalityType, FS_EmptySet, FS_RemoveElement
<1>2. 0 \in N
  <2>1. \A S \in T(0) : S = {}
    BY <1>1
  <2>2. Part([S \in SUBSET Recipe |-> 0], 0)
    BY <2>1
  <2> QED BY <2>2
<1>3. ASSUME NEW n \in Nat, n \in N PROVE n + 1 \in N
  <2>1. PICK g : Part(g, n)
    BY <1>3
  <2> DEFINE h == [S \in SUBSET Recipe |-> body(g, S)]
  <2>2. \A S \in T(n) : h[S] = g[S]
    BY <2>1
  <2>3. ASSUME NEW S \in T(n + 1) PROVE h[S] = body(h, S)
    <3>1. CASE S = {}
      BY <3>1
    <3>2. CASE S # {}
      <4>1. PICK r : r = CHOOSE e \in S : TRUE
        OBVIOUS
      <4>2. r \in S
        BY <3>2, <4>1
      <4>3. S \ {r} \in T(n)
        BY <1>1, <4>2
      <4>4. h[S] = cost[r] * built[r] + g[S \ {r}]
        BY <3>2, <4>1
      <4>5. h[S \ {r}] = g[S \ {r}]
        BY <2>2, <4>3
      <4> HIDE DEF h
      <4> QED BY <3>2, <4>1, <4>4, <4>5
    <3> QED BY <3>1, <3>2
  <2> HIDE DEF h, body
  <2>4. Part(h, n + 1) /\ n + 1 \in Nat
    BY <2>3
  <2> HIDE DEF Part
  <2> QED BY <2>4
<1> HIDE DEF N
<1>4. Cardinality(Recipe) \in N
  <2>1. Cardinality(Recipe) \in Nat
    BY <1>1
  <2> QED BY <1>2, <1>3, <2>1, SetInduction
<1>5. PICK g : Part(g, Cardinality(Recipe))
  BY <1>4 DEF N
<1>6. T(Cardinality(Recipe)) = SUBSET Recipe
  BY <1>1
<1> HIDE DEF T
<1> DEFINE Is(f) == f = [S \in SUBSET Recipe |-> body(f, S)]
<1>7. \E f : Is(f)
  <2> DEFINE h == [S \in SUBSET Recipe |-> g[S]]
  <2>1. ASSUME NEW S \in SUBSET Recipe PROVE body(h, S) = body(g, S)
    OBVIOUS
  <2>2. ASSUME NEW S \in SUBSET Recipe PROVE g[S] = body(g, S)
    BY <1>5, <1>6
  <2> HIDE DEF body
  <2>3. Is(h)
    BY <2>1, <2>2
  <2> QED BY <2>3
<1> DEFINE sum == CHOOSE f : Is(f)
<1>8. Is(sum)
  BY <1>7
<1>9. Price(built) = sum[Recipe]
  BY DEF Price
<1> HIDE DEF sum
<1>10. Sums(sum, built)
  BY <1>8 DEF Sums
<1> QED BY <1>9, <1>10

\* A unit more costs its price more (Builder.cpp:211).
LEMMA Times ==
  ASSUME NEW n \in Nat, NEW m \in Nat
  PROVE  n * m \in Nat /\ n * (m + 1) = n * m + n /\ n * 0 = 0
OBVIOUS

\* Sums of two histories differ by the price of what was delivered between them.
LEMMA SumsDiffer ==
  ASSUME NEW built \in [Recipe -> Nat], NEW r \in Recipe,
         NEW more \in [Recipe -> Nat], more[r] = built[r] + 1,
         \A q \in Recipe : q # r => more[q] = built[q],
         NEW f, Sums(f, built), NEW g, Sums(g, more)
  PROVE  f[Recipe] \in Nat /\ g[Recipe] = f[Recipe] + cost[r]
<1> DEFINE Differ(S) == f[S] \in Nat /\ g[S] = f[S] + (IF r \in S THEN cost[r] ELSE 0)
           N == {n \in Nat : \A S \in SUBSET Recipe : Cardinality(S) = n => Differ(S)}
<1>1. \A S \in SUBSET Recipe :
        /\ IsFiniteSet(S) /\ Cardinality(S) \in Nat
        /\ Cardinality(S) = 0 <=> S = {}
        /\ \A q \in S : Cardinality(S \ {q}) = Cardinality(S) - 1
  BY BuilderAssumption, FS_Subset, FS_CardinalityType, FS_EmptySet, FS_RemoveElement
<1>2. 0 \in N
  <2>1. \A S \in SUBSET Recipe : Cardinality(S) = 0 => S = {}
    BY <1>1
  <2>2. f[{}] = 0 /\ g[{}] = 0
    BY DEF Sums
  <2>3. ASSUME NEW S \in SUBSET Recipe, Cardinality(S) = 0 PROVE Differ(S)
    <3>1. S = {}
      BY <2>1, <2>3
    <3> QED BY <2>2, <3>1
  <2> HIDE DEF Differ
  <2> QED BY <2>3
<1>3. ASSUME NEW n \in Nat, n \in N PROVE n + 1 \in N
  <2>1. SUFFICES ASSUME NEW S \in SUBSET Recipe, Cardinality(S) = n + 1 PROVE Differ(S)
    OBVIOUS
  <2>2. S # {}
    BY <1>1, <2>1
  <2>3. PICK q : q = CHOOSE e \in S : TRUE
    OBVIOUS
  <2>4. q \in S /\ q \in Recipe
    BY <2>2, <2>3
  <2>5. Differ(S \ {q})
    BY <1>1, <1>3, <2>1, <2>4
  <2>6. f[S] = cost[q] * built[q] + f[S \ {q}]
    BY <2>2, <2>3 DEF Sums
  <2>7. g[S] = cost[q] * more[q] + g[S \ {q}]
    BY <2>2, <2>3 DEF Sums
  <2>8. cost[q] \in Nat /\ cost[r] \in Nat /\ built[q] \in Nat
    BY <2>4, BuilderAssumption
  <2>9. cost[q] * built[q] \in Nat /\ cost[q] * (built[q] + 1) = cost[q] * built[q] + cost[q]
    BY <2>8, Times
  <2>10. CASE q = r
    <3>1. more[q] = built[q] + 1
      BY <2>4, <2>10
    <3>2. f[S \ {q}] \in Nat /\ g[S \ {q}] = f[S \ {q}] /\ r \in S
      BY <2>4, <2>5, <2>8, <2>10
    <3>3. PICK k \in Nat : k = cost[q] * built[q]
      BY <2>9
    <3> QED BY <2>6, <2>7, <2>8, <2>9, <2>10, <3>1, <3>2, <3>3
  <2>11. CASE q # r
    <3>1. more[q] = built[q]
      BY <2>4, <2>11
    <3>2. r \in S \ {q} <=> r \in S
      BY <2>11
    <3>3. PICK k \in Nat : k = cost[q] * built[q]
      BY <2>9
    <3> QED BY <2>5, <2>6, <2>7, <2>8, <3>1, <3>2, <3>3
  <2> QED BY <2>10, <2>11
<1> HIDE DEF N
<1>4. Cardinality(Recipe) \in N
  <2>1. Cardinality(Recipe) \in Nat
    BY <1>1
  <2> QED BY <1>2, <1>3, <2>1, SetInduction
<1>5. Differ(Recipe)
  BY <1>4 DEF N
<1> QED BY <1>5

\* One ship more costs its price more (Builder.cpp:211).
LEMMA PriceOfOneMore ==
  ASSUME NEW built \in [Recipe -> Nat], NEW r \in Recipe
  PROVE  /\ Price(built) \in Nat
         /\ Price([built EXCEPT ![r] = @ + 1]) = Price(built) + cost[r]
<1>1. PICK f : Sums(f, built) /\ Price(built) = f[Recipe]
  BY PriceDef
<1>2. PICK more \in [Recipe -> Nat] : more = [built EXCEPT ![r] = @ + 1]
  <2>1. built[r] + 1 \in Nat
    OBVIOUS
  <2> QED BY <2>1
<1>3. PICK g : Sums(g, more) /\ Price(more) = g[Recipe]
  BY PriceDef
<1>4. f[Recipe] \in Nat /\ g[Recipe] = f[Recipe] + cost[r]
  <2>1. more[r] = built[r] + 1 /\ \A q \in Recipe : q # r => more[q] = built[q]
    BY <1>2
  <2> QED BY <1>1, <1>3, <2>1, SumsDiffer
<1>5. Price([built EXCEPT ![r] = @ + 1]) = Price(more)
  BY <1>2
<1> QED BY <1>1, <1>3, <1>4, <1>5

\* Nothing delivered costs nothing.
LEMMA PriceOfNone == Price([r \in Recipe |-> 0]) = 0
<1>1. PICK f : Sums(f, [r \in Recipe |-> 0]) /\ Price([r \in Recipe |-> 0]) = f[Recipe]
  BY PriceDef
<1> DEFINE N == {n \in Nat : \A S \in SUBSET Recipe : Cardinality(S) = n => f[S] = 0}
<1>2. \A S \in SUBSET Recipe :
        /\ IsFiniteSet(S) /\ Cardinality(S) \in Nat
        /\ Cardinality(S) = 0 <=> S = {}
        /\ \A q \in S : Cardinality(S \ {q}) = Cardinality(S) - 1
  BY BuilderAssumption, FS_Subset, FS_CardinalityType, FS_EmptySet, FS_RemoveElement
<1>3. 0 \in N
  BY <1>1, <1>2 DEF Sums
<1>4. ASSUME NEW n \in Nat, n \in N PROVE n + 1 \in N
  <2>1. SUFFICES ASSUME NEW S \in SUBSET Recipe, Cardinality(S) = n + 1 PROVE f[S] = 0
    OBVIOUS
  <2>2. S # {}
    BY <1>2, <2>1
  <2>3. PICK q : q = CHOOSE e \in S : TRUE
    OBVIOUS
  <2>4. q \in S /\ q \in Recipe
    BY <2>2, <2>3
  <2>5. f[S \ {q}] = 0
    BY <1>2, <1>4, <2>1, <2>4
  <2>6. f[S] = cost[q] * [r \in Recipe |-> 0][q] + f[S \ {q}]
    BY <1>1, <2>2, <2>3 DEF Sums
  <2>7. cost[q] * 0 = 0
    BY <2>4, Times, BuilderAssumption
  <2> QED BY <2>4, <2>5, <2>6, <2>7
<1> HIDE DEF N
<1>5. Cardinality(Recipe) \in N
  <2>1. Cardinality(Recipe) \in Nat
    BY <1>2
  <2> QED BY <1>3, <1>4, <2>1, SetInduction
<1>6. f[Recipe] = 0
  BY <1>5 DEF N
<1> QED BY <1>1, <1>6

-----------------------------------------------------------------------------
(* The operations of a Builder *)

\* The fields of a well formed Builder.
LEMMA YardFields ==
  ASSUME NEW d \in Yard
  PROVE  /\ d.build \in Int /\ d.buildOrderGen \in Nat /\ d.buildque \in Seq(Order)
         /\ d.buildStarted \in BOOLEAN /\ d.ru \in Int
         /\ d.buildingCapital \in Capital \cup {NoShip} /\ d.built \in [Recipe -> Nat]
BY DEF Yard

\* What two Builders agree in, as far as an order in the queue does not matter.
Accounts(e, d) == e.ru = d.ru /\ e.built = d.built /\ e.buildOrderGen = d.buildOrderGen

\* The assignments of cancelBuild.
WithQueue(d, q, t, s, k) ==
  [d EXCEPT !.buildque = q, !.build = t, !.buildStarted = s, !.buildingCapital = k]

\* What they leave (Builder.cpp:164-178).
LEMMA SetQueue ==
  ASSUME NEW d \in Yard, NEW q \in Seq(Order), NEW t \in Int, NEW s \in BOOLEAN,
         NEW k \in Capital \cup {NoShip},
         NEW e, e = WithQueue(d, q, t, s, k)
  PROVE  /\ e \in Yard /\ Accounts(e, d)
         /\ e.buildque = q /\ e.build = t /\ e.buildStarted = s /\ e.buildingCapital = k
BY DEF Yard, Accounts, WithQueue

\* The assignments of finishBuild.
Deliver(d, u, w, k) == [d EXCEPT !.ru = u, !.built = w, !.buildingCapital = k]

\* What they leave (Builder.cpp:211-214, Shipyard.cpp:510-518).
LEMMA SetAccounts ==
  ASSUME NEW d \in Yard, NEW u \in Int, NEW w \in [Recipe -> Nat],
         NEW k \in Capital \cup {NoShip},
         NEW e, e = Deliver(d, u, w, k)
  PROVE  /\ e \in Yard /\ e.ru = u /\ e.built = w /\ e.buildingCapital = k
         /\ e.buildque = d.buildque /\ e.buildOrderGen = d.buildOrderGen
BY DEF Yard, Deliver

\* The time left is in no other part of the invariant.
LEMMA SetTime ==
  ASSUME NEW d, Sound(d), NEW t \in Int, NEW e, e = [d EXCEPT !.build = t]
  PROVE  Sound(e) /\ Fewer(e, d)
<1>1. d \in Yard
  BY DEF Sound
<1>2. /\ e \in Yard /\ Accounts(e, d)
      /\ e.buildque = d.buildque /\ e.buildStarted = d.buildStarted
      /\ e.buildingCapital = d.buildingCapital
  BY <1>1 DEF Yard, Accounts
<1>3. Scaffold(e) /\ Paid(e)
  BY <1>2 DEF Sound, Scaffold, Paid, Accounts
<1>4. Fewer(e, d)
  BY <1>2 DEF Fewer, Within, Accounts
<1> QED BY <1>2, <1>3, <1>4 DEF Sound, Accounts

\* A new order, and the queue it is put into.
WithOrder(d, q, t, n) == [d EXCEPT !.buildque = q, !.build = t, !.buildOrderGen = n]

\* What addBuild leaves (Builder.cpp:114-130).
LEMMA SetOrders ==
  ASSUME NEW d \in Yard, NEW q \in Seq(Order), NEW t \in Int, NEW n \in Nat,
         NEW e, e = WithOrder(d, q, t, n)
  PROVE  /\ e \in Yard /\ e.ru = d.ru /\ e.built = d.built
         /\ e.buildque = q /\ e.buildOrderGen = n
         /\ e.buildStarted = d.buildStarted /\ e.buildingCapital = d.buildingCapital
BY DEF Yard, WithOrder

\* Builder::cancelBuild and Shipyard::cancelBuild keep the invariant: the scaffold
\* is emptied whatever was cancelled (Builder.cpp:164-178, Shipyard.cpp:520-524).
LEMMA CancelKeeps ==
  ASSUME NEW d, Sound(d), NEW i \in 1 .. Len(d.buildque), NEW recalc
  PROVE  Sound(CancelBuild(d, i, recalc)) /\ Fewer(CancelBuild(d, i, recalc), d)
<1>1. d \in Yard /\ d.buildque \in Seq(Order) /\ d.buildOrderGen \in Nat /\ d.build \in Int
  BY YardFields DEF Sound
<1>2. PICK q : q = Less(d.buildque, i)
  OBVIOUS
<1>3. q \in Seq(Order) /\ Queue(q, d.buildOrderGen) /\ Within(q, d.buildque)
  BY <1>1, <1>2, LessIsQueue DEF Sound
<1>4. PICK t : t = IF recalc /\ i = 1 /\ q # <<>> THEN buildtime[q[1].st] ELSE d.build
  OBVIOUS
<1>5. t \in Int
  <2>1. q # <<>> => 1 \in 1 .. Len(q)
    BY <1>3
  <2>2. q # <<>> => q[1].st \in Recipe
    BY <1>3, <2>1, OrderFields
  <2>3. \A r \in Recipe : buildtime[r] \in Int
    BY BuilderAssumption
  <2> QED BY <1>1, <1>4, <2>2, <2>3
<1>6. PICK f \in BOOLEAN, k \in Capital \cup {NoShip} : f = FALSE /\ k = NoShip
  OBVIOUS
<1>7. PICK e : e = [d EXCEPT !.buildque = q, !.build = t, !.buildStarted = FALSE,
                             !.buildingCapital = NoShip]
  OBVIOUS
<1>8. CancelBuild(d, i, recalc) = e
  BY <1>2, <1>4, <1>7 DEF CancelBuild, Less
<1>9. e \in Yard /\ Accounts(e, d) /\ e.buildque = q /\ e.buildingCapital = k
  <2>1. e = WithQueue(d, q, t, f, k)
    BY <1>6, <1>7 DEF WithQueue
  <2>2. d \in Yard
    BY <1>1
  <2>3. q \in Seq(Order)
    BY <1>3
  <2> QED BY <1>5, <2>1, <2>2, <2>3, SetQueue
<1>10. Queue(e.buildque, e.buildOrderGen) /\ Scaffold(e) /\ Paid(e)
  BY <1>3, <1>6, <1>9 DEF Accounts, Scaffold, Sound, Paid
<1>11. Fewer(e, d)
  BY <1>3, <1>9 DEF Fewer, Accounts
<1> QED BY <1>8, <1>9, <1>10, <1>11 DEF Sound

\* No order is new in the Builder itself, nor in one that has fewer than one with fewer.
LEMMA FewerThan ==
  ASSUME NEW d
  PROVE  Fewer(d, d) /\ \A e, f : Fewer(f, e) /\ Fewer(e, d) => Fewer(f, d)
<1>1. \A p, q, u : Within(u, q) /\ Within(q, p) => Within(u, p)
  <2> SUFFICES ASSUME NEW p, NEW q, NEW u, Within(u, q), Within(q, p),
                      NEW j \in 1 .. Len(u)
               PROVE  \E k \in 1 .. Len(p) : u[j].orderId = p[k].orderId /\ u[j].st = p[k].st
    BY DEF Within
  <2>1. PICK i \in 1 .. Len(q) : u[j].orderId = q[i].orderId /\ u[j].st = q[i].st
    BY DEF Within
  <2>2. PICK k \in 1 .. Len(p) : q[i].orderId = p[k].orderId /\ q[i].st = p[k].st
    BY DEF Within
  <2> QED BY <2>1, <2>2
<1>2. \A p : Within(p, p)
  BY DEF Within
<1> QED BY <1>1, <1>2 DEF Fewer

\* A BuildCancelCommand, whether it finds its order or not (Builder.cpp:249-254).
LEMMA CancelOrderKeeps ==
  ASSUME NEW d, Sound(d), NEW orderId
  PROVE  Sound(CancelOrder(d, orderId)) /\ Fewer(CancelOrder(d, orderId), d)
<1> DEFINE found == {i \in 1 .. Len(d.buildque) : d.buildque[i].orderId = orderId}
<1>1. CASE found = {}
  <2>1. CancelOrder(d, orderId) = d
    BY <1>1 DEF CancelOrder
  <2> QED BY <2>1, FewerThan
<1>2. CASE found # {}
  <2>1. d.buildque \in Seq(Order)
    BY YardFields DEF Sound
  <2>2. found \in SUBSET Nat
    BY <2>1
  <2>3. \E m \in found : \A k \in found : m <= k
    BY <1>2, <2>2, Least
  <2>4. PICK i : i = Min(found)
    OBVIOUS
  <2>5. i \in found
    BY <2>3, <2>4 DEF Min
  <2>6. CancelOrder(d, orderId) = CancelBuild(d, i, TRUE)
    BY <1>2, <2>4 DEF CancelOrder
  <2> QED BY <2>5, <2>6, CancelKeeps
<1> QED BY <1>1, <1>2

\* Builder::addBuild: an order of the kind of the last is merged into it, another
\* takes the next id (Builder.cpp:114-130).
LEMMA AddKeeps ==
  ASSUME NEW d, Sound(d), NEW r \in Recipe
  PROVE  /\ Sound(AddBuild(d, r))
         /\ Fewer(AddBuild(d, r), d) \/ Adds(AddBuild(d, r), d, r)
<1>1. d \in Yard /\ d.buildque \in Seq(Order) /\ d.buildOrderGen \in Nat /\ d.build \in Int
  BY YardFields DEF Sound
<1>2. CASE Merges(d, r)
  <2>1. PICK n : n = Len(d.buildque)
    OBVIOUS
  <2>2. n \in 1 .. Len(d.buildque)
    BY <1>1, <1>2, <2>1 DEF Merges
  <2>3. d.buildque[n] \in Order /\ d.buildque[n].num + 1 \in Nat \ {0}
    <3>1. d.buildque[n] \in Order /\ d.buildque[n].num \in Nat \ {0}
      BY <1>1, <2>2, OrderFields
    <3> QED BY <3>1
  <2>4. PICK m \in Nat \ {0} : m = d.buildque[n].num + 1
    BY <2>3
  <2>5. PICK o : o = [d.buildque[n] EXCEPT !.num = m]
    OBVIOUS
  <2>6. o \in Order /\ o.orderId = d.buildque[n].orderId /\ o.st = d.buildque[n].st
    BY <2>3, <2>4, <2>5, Renumbered
  <2>7. PICK q : q = [d.buildque EXCEPT ![n] = o]
    OBVIOUS
  <2>8. q \in Seq(Order) /\ Len(q) = Len(d.buildque)
    BY <1>1, <2>2, <2>6, <2>7
  <2>9. \A j \in 1 .. Len(q) : q[j].orderId = d.buildque[j].orderId /\ q[j].st = d.buildque[j].st
    BY <1>1, <2>6, <2>7, <2>8
  <2>10. PICK e : e = [d EXCEPT !.buildque = q]
    OBVIOUS
  <2>11. AddBuild(d, r) = e
    BY <1>1, <1>2, <2>1, <2>4, <2>5, <2>7, <2>10 DEF AddBuild, Yard
  <2>12. /\ e \in Yard /\ Accounts(e, d) /\ e.buildque = q
         /\ e.buildStarted = d.buildStarted /\ e.buildingCapital = d.buildingCapital
    BY <1>1, <2>8, <2>10 DEF Yard, Accounts
  <2>13. Queue(q, d.buildOrderGen)
    BY <2>8, <2>9 DEF Sound, Queue, Ascends, Below
  <2>14. d.buildque # <<>> => q # <<>> /\ q[1].st = d.buildque[1].st
    BY <1>1, <2>8, <2>9
  <2>15. Scaffold(e) /\ Paid(e)
    BY <2>12, <2>14 DEF Sound, Scaffold, Paid, Accounts
  <2>16. Fewer(e, d)
    BY <2>8, <2>9, <2>12 DEF Fewer, Within, Accounts
  <2> QED BY <2>11, <2>12, <2>13, <2>15, <2>16 DEF Sound, Accounts
<1>3. CASE ~Merges(d, r) /\ Len(d.buildque) < buildQueueSize
  <2>1. PICK n \in Nat : n = d.buildOrderGen
    BY <1>1
  <2>2. PICK o \in Order : o = [st |-> r, num |-> 1, orderId |-> n]
    <3>1. 1 \in Nat \ {0}
      OBVIOUS
    <3> QED BY <3>1 DEF Order
  <2>3. PICK q : q = Append(d.buildque, o)
    OBVIOUS
  <2>4. /\ q \in Seq(Order) /\ Len(q) = Len(d.buildque) + 1 /\ q[Len(q)] = o
        /\ \A j \in 1 .. Len(d.buildque) : q[j] = d.buildque[j]
    BY <1>1, <2>3
  <2>5. PICK t : t = IF d.buildque = <<>> THEN buildtime[r] ELSE d.build
    OBVIOUS
  <2>6. t \in Int
    BY <1>1, <2>5, BuilderAssumption
  <2>7. PICK e : e = [d EXCEPT !.buildque = q, !.build = t, !.buildOrderGen = n + 1]
    OBVIOUS
  <2>8. AddBuild(d, r) = e
    BY <1>3, <2>1, <2>2, <2>3, <2>5, <2>7 DEF AddBuild
  <2>9. /\ e \in Yard /\ e.ru = d.ru /\ e.built = d.built
        /\ e.buildque = q /\ e.buildOrderGen = n + 1
        /\ e.buildStarted = d.buildStarted /\ e.buildingCapital = d.buildingCapital
    <3>1. PICK m \in Nat : m = n + 1
      OBVIOUS
    <3>2. e = WithOrder(d, q, t, m)
      BY <2>7, <3>1 DEF WithOrder
    <3>3. d \in Yard
      BY <1>1
    <3>4. q \in Seq(Order)
      BY <2>4
    <3>5. /\ e \in Yard /\ e.ru = d.ru /\ e.built = d.built
          /\ e.buildque = q /\ e.buildOrderGen = m
          /\ e.buildStarted = d.buildStarted /\ e.buildingCapital = d.buildingCapital
      BY <2>6, <3>2, <3>3, <3>4, SetOrders
    <3> QED BY <3>1, <3>5
  <2>10. Queue(q, n + 1)
    <3>1. o.orderId = n
      BY <2>2
    <3>2. \A j \in 1 .. Len(d.buildque) : q[j].orderId < n /\ q[j].orderId \in Nat
      <4>1. \A j \in 1 .. Len(d.buildque) : d.buildque[j].orderId \in Nat
        BY <1>1, OrderFields
      <4>2. \A j \in 1 .. Len(d.buildque) : d.buildque[j].orderId < n
        BY <2>1 DEF Sound, Queue, Below
      <4> QED BY <2>4, <4>1, <4>2
    <3>3. Below(q, n + 1)
      BY <2>4, <3>1, <3>2 DEF Below
    <3>4. ASSUME NEW i \in 1 .. Len(q), NEW j \in 1 .. Len(q), i < j
          PROVE  q[i].orderId < q[j].orderId
      <4>1. CASE j = Len(q)
        BY <2>4, <3>1, <3>2, <3>4, <4>1
      <4>2. CASE j # Len(q)
        <5>1. i \in 1 .. Len(d.buildque) /\ j \in 1 .. Len(d.buildque)
          BY <1>1, <2>4, <3>4, <4>2
        <5> QED BY <2>4, <3>4, <5>1 DEF Sound, Queue, Ascends
      <4> QED BY <4>1, <4>2
    <3>5. Len(q) <= buildQueueSize
      BY <1>1, <1>3, <2>4, BuilderAssumption
    <3> QED BY <3>3, <3>4, <3>5 DEF Queue, Ascends
  <2>11. d.buildque # <<>> => q # <<>> /\ q[1].st = d.buildque[1].st
    BY <1>1, <2>4
  <2>12. Scaffold(e) /\ Paid(e)
    BY <2>9, <2>11 DEF Sound, Scaffold, Paid
  <2>13. Adds(e, d, r)
    <3>1. ASSUME NEW j \in 1 .. Len(q), j \notin 1 .. Len(d.buildque)
          PROVE  q[j].orderId = n /\ q[j].st = r
      <4>1. q[j] = o
        BY <1>1, <2>4, <3>1
      <4> QED BY <2>2, <4>1
    <3>2. \A j \in 1 .. Len(d.buildque) : q[j] = d.buildque[j]
      BY <2>4
    <3> QED BY <2>1, <2>9, <3>1, <3>2 DEF Adds
  <2> QED BY <2>8, <2>9, <2>10, <2>12, <2>13 DEF Sound
<1>4. CASE ~Merges(d, r) /\ ~(Len(d.buildque) < buildQueueSize)
  <2>1. AddBuild(d, r) = d
    BY <1>4 DEF AddBuild
  <2> QED BY <2>1, FewerThan
<1> QED BY <1>2, <1>3, <1>4

\* The state of the loop of anim().
Ready(x) == Sound(x.d) /\ x.dt \in Int

\* The end of FinishFirst: what is left waits for the next unit.
Settled(left, r, dt) ==
  LET next == IF left.buildque = <<>> THEN r ELSE left.buildque[1].st
  IN  [d |-> [left EXCEPT !.build = @ + buildtime[next]], dt |-> dt]

\* FinishFirst, when s is delivered for the first order, which is for r.
Finished(d, dt, r, s) ==
  Settled(CancelBuild([d EXCEPT !.ru = @ - cost[r], !.built[s] = @ + 1,
                                !.buildingCapital = NoShip], 1, FALSE),
          r, dt - d.build)

\* A turn of the loop delivers the first order's unit, which is what stands in the
\* scaffold, at its own price (Builder.cpp:203-220, Shipyard.cpp:510-518).
LEMMA FinishKeeps ==
  ASSUME NEW x, Ready(x), Due(x)
  PROVE  Ready(FinishFirst(x)) /\ Fewer(FinishFirst(x).d, x.d)
<1>1. PICK d : d = x.d
  OBVIOUS
<1>2. Sound(d) /\ d.buildque # <<>>
  BY <1>1 DEF Ready, Due
<1>3. /\ d \in Yard /\ d.buildque \in Seq(Order) /\ d.build \in Int /\ d.ru \in Int
      /\ d.built \in [Recipe -> Nat]
  BY <1>2, YardFields DEF Sound
<1>4. 1 \in 1 .. Len(d.buildque)
  BY <1>2, <1>3
<1>5. d.buildque[1].st \in Recipe
  BY <1>3, <1>4, OrderFields
<1>6. PICK r \in Recipe : r = d.buildque[1].st
  BY <1>5
<1>7. (IF d.buildingCapital # NoShip THEN d.buildingCapital ELSE r) = r
  BY <1>2, <1>6 DEF Sound, Scaffold
<1>8. cost[r] \in Nat
  BY BuilderAssumption
<1>9. PICK u \in Int : u = d.ru - cost[r]
  BY <1>3, <1>8
<1>10. PICK w \in [Recipe -> Nat] : w = [d.built EXCEPT ![r] = @ + 1]
  <2>1. d.built[r] + 1 \in Nat
    BY <1>3
  <2> QED BY <1>3, <2>1
<1>11. PICK k \in Capital \cup {NoShip} : k = NoShip
  OBVIOUS
<1>12. PICK e : e = Deliver(d, u, w, k)
  OBVIOUS
<1>13. /\ e \in Yard /\ e.ru = u /\ e.built = w /\ e.buildingCapital = k
       /\ e.buildque = d.buildque /\ e.buildOrderGen = d.buildOrderGen
  <2>1. d \in Yard
    BY <1>3
  <2> QED BY <1>12, <2>1, SetAccounts
<1>14. Sound(e)
  <2>1. Price(d.built) \in Nat /\ Price(w) = Price(d.built) + cost[r]
    <3>1. PICK a \in [Recipe -> Nat] : a = d.built
      BY <1>3
    <3>2. Price(a) \in Nat /\ Price([a EXCEPT ![r] = @ + 1]) = Price(a) + cost[r]
      BY PriceOfOneMore
    <3> QED BY <1>10, <3>1, <3>2
  <2>2. InitialRU - d.ru = Price(d.built)
    BY <1>2 DEF Sound, Paid
  <2>3. InitialRU - u = Price(w)
    BY <1>3, <1>8, <1>9, <2>1, <2>2, BuilderAssumption
  <2>4. Paid(e) /\ Scaffold(e)
    BY <1>11, <1>13, <2>3 DEF Paid, Scaffold
  <2> QED BY <1>2, <1>13, <2>4 DEF Sound
<1>15. PICK f : f = CancelBuild(e, 1, FALSE)
  OBVIOUS
<1>16. Sound(f) /\ Fewer(f, e)
  BY <1>4, <1>13, <1>14, <1>15, CancelKeeps
<1>17. f \in Yard /\ f.buildque \in Seq(Order) /\ f.build \in Int
  BY <1>16, YardFields DEF Sound
<1>18. PICK n : n = IF f.buildque = <<>> THEN r ELSE f.buildque[1].st
  OBVIOUS
<1>19. n \in Recipe
  <2>1. f.buildque # <<>> => 1 \in 1 .. Len(f.buildque)
    BY <1>17
  <2>2. f.buildque # <<>> => f.buildque[1].st \in Recipe
    BY <1>17, <2>1, OrderFields
  <2> QED BY <1>18, <2>2
<1>20. PICK t \in Int : t = f.build + buildtime[n]
  BY <1>17, <1>19, BuilderAssumption
<1>21. PICK g : g = [f EXCEPT !.build = t]
  OBVIOUS
<1>22. Sound(g) /\ Fewer(g, f)
  BY <1>16, <1>21, SetTime
<1>23. FinishFirst(x) = [d |-> g, dt |-> x.dt - d.build]
  <2>1. e = [d EXCEPT !.ru = @ - cost[r], !.built[r] = @ + 1, !.buildingCapital = NoShip]
    BY <1>3, <1>9, <1>10, <1>11, <1>12 DEF Deliver, Yard
  <2>2. FinishFirst(x) = Finished(x.d, x.dt, x.d.buildque[1].st,
                                  IF x.d.buildingCapital # NoShip THEN x.d.buildingCapital
                                  ELSE x.d.buildque[1].st)
    BY DEF FinishFirst, Finished, Settled
  <2>3. FinishFirst(x) = Finished(d, x.dt, r, r)
    BY <1>1, <1>6, <1>7, <2>2
  <2>4. Finished(d, x.dt, r, r) = Settled(f, r, x.dt - d.build)
    BY <1>15, <2>1 DEF Finished
  <2>5. Settled(f, r, x.dt - d.build) = [d |-> g, dt |-> x.dt - d.build]
    BY <1>18, <1>20, <1>21 DEF Settled
  <2> QED BY <2>3, <2>4, <2>5
<1>24. x.dt - d.build \in Int
  BY <1>3 DEF Ready
<1>25. Fewer(g, d)
  <2>1. Fewer(e, d)
    BY <1>13 DEF Fewer, Within
  <2> QED BY <1>16, <1>22, <2>1, FewerThan
<1> QED BY <1>1, <1>22, <1>23, <1>24, <1>25 DEF Ready

\* So does the loop, however many turns it takes (Builder.cpp:203-220).
LEMMA TurnsKeep ==
  ASSUME NEW x, Ready(x)
  PROVE  Ready(Turns(x)) /\ Fewer(Turns(x).d, x.d)
<1> DEFINE step(y) == IF Due(y) THEN FinishFirst(y) ELSE y
           Run(f, m) == f = [n \in 0 .. m |-> IF n = 0 THEN x ELSE step(f[n - 1])]
           N == {m \in Nat : \E f : Run(f, m)}
<1>1. 0 \in N
  <2>1. Run([n \in 0 .. 0 |-> x], 0)
    OBVIOUS
  <2> QED BY <2>1
<1>2. ASSUME NEW m \in Nat, m \in N PROVE m + 1 \in N
  <2>1. PICK f : Run(f, m)
    BY <1>2
  <2> DEFINE g == [n \in 0 .. m + 1 |-> IF n = m + 1 THEN step(f[m]) ELSE f[n]]
  <2>2. ASSUME NEW n \in 0 .. m + 1
        PROVE  g[n] = IF n = 0 THEN x ELSE step(g[n - 1])
    <3> HIDE DEF step
    <3>1. CASE n = m + 1
      <4>1. g[n - 1] = f[m] /\ g[n] = step(f[m])
        BY <3>1
      <4> QED BY <3>1, <4>1
    <3>2. CASE n # m + 1
      <4>1. n \in 0 .. m /\ g[n] = f[n] /\ (n # 0 => g[n - 1] = f[n - 1])
        BY <3>2
      <4>2. f[n] = IF n = 0 THEN x ELSE step(f[n - 1])
        BY <2>1, <4>1
      <4> QED BY <4>1, <4>2
    <3> QED BY <3>1, <3>2
  <2>3. g = [n \in 0 .. m + 1 |-> g[n]]
    OBVIOUS
  <2> HIDE DEF g, step
  <2>4. [n \in 0 .. m + 1 |-> g[n]]
        = [n \in 0 .. m + 1 |-> IF n = 0 THEN x ELSE step(g[n - 1])]
    BY <2>2
  <2>5. Run(g, m + 1)
    BY <2>3, <2>4
  <2> HIDE DEF Run
  <2> QED BY <2>5
<1> HIDE DEF N
<1>3. MaxOrders \in N
  BY <1>1, <1>2, SetInduction, BuilderAssumption
<1>4. \E f : Run(f, MaxOrders)
  BY <1>3 DEF N
<1> DEFINE turn == CHOOSE f : Run(f, MaxOrders)
<1>5. Run(turn, MaxOrders)
  BY <1>4
<1>6. Turns(x) = turn[MaxOrders]
  BY DEF Turns
<1> HIDE DEF turn, step
<1>7. turn[0] = x /\ \A n \in 0 .. MaxOrders : n # 0 => turn[n] = step(turn[n - 1])
  BY <1>5, BuilderAssumption
<1> DEFINE M == {n \in Nat : n <= MaxOrders => Ready(turn[n]) /\ Fewer(turn[n].d, x.d)}
<1>8. 0 \in M
  BY <1>7, FewerThan
<1>9. ASSUME NEW n \in Nat, n \in M PROVE n + 1 \in M
  <2>1. SUFFICES ASSUME n + 1 <= MaxOrders
                PROVE  Ready(turn[n + 1]) /\ Fewer(turn[n + 1].d, x.d)
    OBVIOUS
  <2>2. Ready(turn[n]) /\ Fewer(turn[n].d, x.d)
    BY <1>9, <2>1, BuilderAssumption
  <2>3. turn[n + 1] = step(turn[n])
    BY <1>7, <2>1, BuilderAssumption
  <2>4. CASE Due(turn[n])
    <3>1. turn[n + 1] = FinishFirst(turn[n])
      BY <2>3, <2>4 DEF step
    <3> QED BY <2>2, <2>4, <3>1, FinishKeeps, FewerThan
  <2>5. CASE ~Due(turn[n])
    <3>1. turn[n + 1] = turn[n]
      BY <2>3, <2>5 DEF step
    <3> QED BY <2>2, <3>1
  <2> QED BY <2>4, <2>5
<1> HIDE DEF M
<1>10. MaxOrders \in M
  BY <1>8, <1>9, SetInduction, BuilderAssumption
<1> QED BY <1>6, <1>10, BuilderAssumption DEF M

\* The assignments of startBuild.
Started(d, s, k) == [d EXCEPT !.buildStarted = s, !.buildingCapital = k]

\* startBuild puts the first order's ship into the scaffold (Shipyard.cpp:465-508).
LEMMA StartKeeps ==
  ASSUME NEW d, Sound(d), d.buildque # <<>>
  PROVE  Sound(StartBuild(d)) /\ Fewer(StartBuild(d), d)
<1>1. d \in Yard /\ d.buildque \in Seq(Order)
  BY YardFields DEF Sound
<1>2. d.buildque[1].st \in Recipe
  <2>1. 1 \in 1 .. Len(d.buildque)
    BY <1>1
  <2> QED BY <1>1, <2>1, OrderFields
<1>3. PICK r \in Recipe : r = d.buildque[1].st
  BY <1>2
<1>4. PICK k : k = IF r \in Capital THEN r ELSE d.buildingCapital
  OBVIOUS
<1>5. k \in Capital \cup {NoShip} /\ (k # NoShip => k = r)
  BY <1>1, <1>3, <1>4, YardFields DEF Sound, Scaffold
<1>6. PICK s \in BOOLEAN : s = TRUE
  OBVIOUS
<1>7. PICK e : e = Started(d, s, k)
  OBVIOUS
<1>8. StartBuild(d) = e
  BY <1>3, <1>4, <1>6, <1>7 DEF StartBuild, Started
<1>9. /\ e \in Yard /\ e.ru = d.ru /\ e.built = d.built
      /\ e.buildque = d.buildque /\ e.buildOrderGen = d.buildOrderGen
      /\ e.buildStarted = s /\ e.buildingCapital = k
  BY <1>1, <1>5, <1>7 DEF Started, Yard
<1>10. Scaffold(e) /\ Paid(e)
  BY <1>3, <1>5, <1>6, <1>9 DEF Sound, Scaffold, Paid
<1>11. Fewer(e, d)
  BY <1>9 DEF Fewer, Within
<1> QED BY <1>8, <1>9, <1>10, <1>11 DEF Sound

\* A unit of every recipe costs something, so that the division in anim() is defined.
LEMMA RateIsPositive ==
  ASSUME NEW r \in Recipe
  PROVE  rate[r] \in Nat \ {0}
<1>1. /\ buildtime[r] \in Nat \ {0} /\ cost[r] \in Nat \ {0}
      /\ cost[r] = rate[r] * buildtime[r]
  BY BuilderAssumption
<1>2. rate[r] = cost[r] \div buildtime[r]
  BY DEF rate
<1>3. rate[r] \in Nat
  BY <1>1, <1>2
<1>4. rate[r] # 0
  <2>1. \A t \in Nat : 0 * t = 0
    OBVIOUS
  <2> QED BY <1>1, <2>1
<1> QED BY <1>3, <1>4

\* anim() cuts dt to a number (Builder.cpp:197-201).
LEMMA AffordableIsTime ==
  ASSUME NEW d, Sound(d), d.buildque # <<>>, NEW dt \in Int
  PROVE  Affordable(d, dt) \in Int
<1>1. d \in Yard /\ d.buildque \in Seq(Order) /\ d.ru \in Int /\ d.build \in Int
  BY YardFields DEF Sound
<1>2. d.buildque[1].st \in Recipe
  <2>1. 1 \in 1 .. Len(d.buildque)
    BY <1>1
  <2> QED BY <1>1, <2>1, OrderFields
<1>3. PICK r \in Recipe : r = d.buildque[1].st
  BY <1>2
<1>4. PICK n \in Nat \ {0} : n = rate[r]
  BY RateIsPositive
<1>5. PICK q \in Int : q = d.ru \div n
  BY <1>1
<1>6. buildtime[r] \in Int
  BY BuilderAssumption
<1>7. q + d.build - buildtime[r] \in Int
  BY <1>1, <1>6
<1>8. Affordable(d, dt) = dt \/ Affordable(d, dt) = q + d.build - buildtime[r]
  BY <1>3, <1>4, <1>5 DEF Affordable
<1> QED BY <1>7, <1>8

\* A frame of a Builder (Builder.cpp:185-225).
LEMMA AnimKeeps ==
  ASSUME NEW d, Sound(d), NEW dt \in Int, NEW blocked
  PROVE  Sound(Anim(d, dt, blocked)) /\ Fewer(Anim(d, dt, blocked), d)
<1> DEFINE stuck == d.buildque # <<>> /\ ~d.buildStarted /\ d.buildque[1].st \in Capital /\ blocked
<1>1. PICK s : s = IF d.buildque # <<>> /\ ~d.buildStarted THEN StartBuild(d) ELSE d
  OBVIOUS
<1>2. PICK last : last = Turns([d |-> s, dt |-> Affordable(s, dt)])
  OBVIOUS
<1>3. Anim(d, dt, blocked) =
        IF d.buildque = <<>> \/ stuck THEN d
        ELSE [last.d EXCEPT !.build = IF last.d.buildque = <<>> THEN @ ELSE @ - last.dt]
  BY <1>1, <1>2 DEF Anim
<1>4. CASE d.buildque = <<>> \/ stuck
  BY <1>3, <1>4, FewerThan
<1>5. CASE ~(d.buildque = <<>> \/ stuck)
  <2>1. Sound(s) /\ s.buildque # <<>> /\ Fewer(s, d)
    <3>1. StartBuild(d).buildque = d.buildque
      BY YardFields DEF StartBuild, Sound, Yard
    <3> QED BY <1>1, <1>5, <3>1, StartKeeps, FewerThan
  <2>2. Affordable(s, dt) \in Int
    BY <2>1, AffordableIsTime
  <2>3. Ready([d |-> s, dt |-> Affordable(s, dt)])
    BY <2>1, <2>2 DEF Ready
  <2>4. Ready(last) /\ Fewer(last.d, s)
    BY <1>2, <2>3, TurnsKeep
  <2>5. PICK e : e = last.d
    OBVIOUS
  <2>6. Sound(e) /\ e.build \in Int /\ last.dt \in Int
    BY <2>4, <2>5, YardFields DEF Ready, Sound
  <2>7. PICK t \in Int : t = IF e.buildque = <<>> THEN e.build ELSE e.build - last.dt
    BY <2>6
  <2>8. PICK f : f = [e EXCEPT !.build = t]
    OBVIOUS
  <2>9. Anim(d, dt, blocked) = f
    BY <1>3, <1>5, <2>5, <2>7, <2>8
  <2>10. Sound(f) /\ Fewer(f, e)
    BY <2>6, <2>8, SetTime
  <2>11. Fewer(f, d)
    BY <2>1, <2>4, <2>5, <2>10, FewerThan
  <2> QED BY <2>9, <2>10, <2>11
<1> QED BY <1>4, <1>5

-----------------------------------------------------------------------------
(* The specification *)

\* A new Builder.
LEMMA BuilderInit == Init => IInv
<1> SUFFICES ASSUME Init PROVE IInv
  OBVIOUS
<1>1. b = NewBuilder /\ orders = 0
  BY DEF Init
<1>2. NewBuilder \in Yard
  <2>1. <<>> \in Seq(Order) /\ 0 \in Nat /\ 0 \in Int /\ InitialRU \in Int
    BY BuilderAssumption
  <2>2. [r \in Recipe |-> 0] \in [Recipe -> Nat]
    OBVIOUS
  <2> QED BY <2>1, <2>2 DEF NewBuilder, Yard
<1>3. Queue(NewBuilder.buildque, NewBuilder.buildOrderGen)
  BY BuilderAssumption DEF NewBuilder, Queue, Ascends, Below
<1>4. Scaffold(NewBuilder)
  BY DEF NewBuilder, Scaffold
<1>5. Paid(NewBuilder)
  BY PriceOfNone, BuilderAssumption DEF NewBuilder, Paid
<1> QED BY <1>1, <1>2, <1>3, <1>4, <1>5, BuilderAssumption DEF IInv, Sound

\* One step for each operation.
LEMMA BuilderNext == IInv /\ [Next]_vars => IInv'
<1> SUFFICES ASSUME IInv, [Next]_vars PROVE IInv'
  OBVIOUS
<1>1. Sound(b) /\ orders \in 0 .. MaxOrders
  BY DEF IInv
<1>2. ASSUME NEW r \in Recipe, Build(r) PROVE IInv'
  <2>1. b' = AddBuild(b, r) /\ orders < MaxOrders /\ orders' = orders + 1
    BY <1>2 DEF Build
  <2>2. Sound(AddBuild(b, r))
    BY <1>1, AddKeeps
  <2>3. orders' \in 0 .. MaxOrders
    BY <1>1, <2>1, BuilderAssumption
  <2>4. Sound(b')
    BY <2>1, <2>2
  <2> QED BY <2>3, <2>4 DEF IInv, Sound, Queue, Scaffold, Paid
<1>3. ASSUME NEW orderId \in 0 .. MaxOrders - 1, BuildCancel(orderId) PROVE IInv'
  <2>1. b' = CancelOrder(b, orderId) /\ orders' = orders
    BY <1>3 DEF BuildCancel
  <2>2. Sound(CancelOrder(b, orderId))
    BY <1>1, CancelOrderKeeps
  <2> QED BY <1>1, <2>1, <2>2 DEF IInv
<1>4. ASSUME NEW dt \in Elapsed, NEW blocked \in BOOLEAN, anim(dt, blocked) PROVE IInv'
  <2>1. b' = Anim(b, dt, blocked) /\ orders' = orders
    BY <1>4 DEF anim
  <2>2. dt \in Int
    BY BuilderAssumption
  <2>3. Sound(Anim(b, dt, blocked))
    BY <1>1, <2>2, AnimKeeps
  <2> QED BY <1>1, <2>1, <2>3 DEF IInv
<1>5. ASSUME CapitalDestroyed PROVE IInv'
  <2>1. b' = [b EXCEPT !.buildingCapital = NoShip] /\ orders' = orders
    BY <1>5 DEF CapitalDestroyed
  <2>2. b \in Yard
    BY <1>1 DEF Sound
  <2>3. /\ b' \in Yard /\ Accounts(b', b) /\ b'.buildque = b.buildque
        /\ b'.buildingCapital = NoShip
    BY <2>1, <2>2 DEF Yard, Accounts
  <2>4. Scaffold(b') /\ Paid(b')
    BY <1>1, <2>3 DEF Scaffold, Paid, Sound, Accounts
  <2>5. Sound(b')
    BY <1>1, <2>3, <2>4 DEF Sound, Accounts
  <2> QED BY <1>1, <2>1, <2>5 DEF IInv
<1>6. CASE UNCHANGED vars
  BY <1>1, <1>6 DEF IInv, vars
<1> QED BY <1>2, <1>3, <1>4, <1>5, <1>6 DEF Next

\* The invariant holds in every state (Builder.cpp, Shipyard.cpp).
THEOREM YardSound == Spec => []IInv
<1>1. Init => IInv
  BY BuilderInit
<1>2. IInv /\ [Next]_vars => IInv'
  BY BuilderNext
<1> QED BY <1>1, <1>2, PTL DEF Spec

\* The queue holds no more orders than it has room for, each of a recipe, of a unit
\* at least, and with an id that was issued (Builder.cpp:114-178).
THEOREM YardTyped == Spec => []TypeOK
<1>1. IInv => TypeOK
  <2> SUFFICES ASSUME IInv PROVE TypeOK
    OBVIOUS
  <2>1. b \in Yard /\ Queue(b.buildque, b.buildOrderGen) /\ orders \in 0 .. MaxOrders
    BY DEF IInv, Sound
  <2>2. /\ b.build \in Int /\ b.buildOrderGen \in Nat /\ b.buildque \in Seq(Order)
        /\ b.buildStarted \in BOOLEAN /\ b.ru \in Int
        /\ b.buildingCapital \in Capital \cup {NoShip} /\ b.built \in [Recipe -> Nat]
    BY <2>1, YardFields
  <2>3. ASSUME NEW i \in 1 .. Len(b.buildque)
        PROVE  /\ b.buildque[i].st \in Recipe /\ b.buildque[i].num \in Nat \ {0}
               /\ b.buildque[i].orderId \in 0 .. b.buildOrderGen - 1
    <3>1. /\ b.buildque[i].st \in Recipe /\ b.buildque[i].num \in Nat \ {0}
          /\ b.buildque[i].orderId \in Nat
      BY <2>2, OrderFields
    <3>2. b.buildque[i].orderId < b.buildOrderGen
      BY <2>1 DEF Queue, Below
    <3> QED BY <2>2, <3>1, <3>2
  <2>4. Len(b.buildque) <= buildQueueSize
    BY <2>1 DEF Queue
  <2> QED BY <2>1, <2>2, <2>3, <2>4 DEF TypeOK
<1> QED BY <1>1, YardSound, PTL

\* An id names one order of the queue, whatever was merged, cancelled or finished
\* (Builder.cpp:124,249-254).
THEOREM IdsNameOneOrder == Spec => []OrderIdsAscend
<1>1. IInv => OrderIdsAscend
  BY DEF IInv, Sound, Queue, Ascends, OrderIdsAscend
<1> QED BY <1>1, YardSound, PTL

\* No ship is delivered in the place of another (Shipyard.cpp:465-524).
THEOREM ScaffoldServesFirst == Spec => []ScaffoldIsFirst
<1>1. IInv => ScaffoldIsFirst
  BY DEF IInv, Sound, Scaffold, ScaffoldIsFirst
<1> QED BY <1>1, YardSound, PTL

\* The RUs that are gone are the price of the ships that were delivered
\* (Builder.cpp:203-217).
THEOREM AccountsBalance == Spec => []PaidForDelivered
<1>1. IInv => PaidForDelivered
  BY DEF IInv, Sound, Paid, PaidForDelivered
<1> QED BY <1>1, YardSound, PTL

-----------------------------------------------------------------------------
(* The Builder in the client *)

\* The Builder d has an order n, and it is for r.
Names(d, n, r) ==
  \E j \in 1 .. Len(d.buildque) : d.buildque[j].orderId = n /\ d.buildque[j].st = r

\* The command m cancels order n, which a diff has brought to the client, for r.
Recalls(m, n, r) ==
  m.command = "BuildCancel" /\ m.confirmed /\ m.orderId = n /\ m.meant = r

\* Something that came from the server says that order n is for r: its Builder, a
\* diff, the client's copy as far as it was brought by one, a command.
Claims(n, r) ==
  \/ Names(b, n, r)
  \/ n < seen /\ Names(c, n, r)
  \/ \E k \in 1 .. Len(down) : Names(down[k], n, r)
  \/ \E k \in 1 .. Len(up) : Recalls(up[k], n, r)

OneRecipe ==
  \A n, r : Claims(n, r) => n < b.buildOrderGen /\ \A q : Claims(n, q) => q = r

Command ==
  [command : {"Build"}, st : Recipe]
    \cup [command : {"BuildCancel"}, orderId : Nat, meant : Recipe, confirmed : BOOLEAN]

SoundYard == {d \in Yard : Sound(d)}

OrdersTyped ==
  /\ Sound(b) /\ Sound(c)
  /\ seen \in Nat /\ seen <= c.buildOrderGen
  /\ down \in Seq(SoundYard) /\ up \in Seq(Command)

OrdersInv == OrdersTyped /\ OneRecipe

\* The ids of a Builder with fewer orders, or one more, are ids of the other's.
LEMMA NamesOf ==
  ASSUME NEW d, NEW e, NEW n, NEW r, Names(e, n, r)
  PROVE  /\ Fewer(e, d) => Names(d, n, r)
         /\ \A q : Adds(e, d, q) => Names(d, n, r) \/ (n = d.buildOrderGen /\ r = q)
BY DEF Names, Fewer, Within, Adds

\* When the server issues no id, everything it says was said before.
LEMMA NoClaimIsNew ==
  ASSUME OneRecipe, b'.buildOrderGen = b.buildOrderGen,
         \A n, r : Claims(n, r)' => Claims(n, r)
  PROVE  OneRecipe'
BY DEF OneRecipe

\* An id that is issued has been named by nothing so far.
LEMMA ClaimIsNew ==
  ASSUME OneRecipe, b.buildOrderGen \in Nat, b'.buildOrderGen = b.buildOrderGen + 1,
         NEW s, \A n, r : Claims(n, r)' => Claims(n, r) \/ (n = b.buildOrderGen /\ r = s),
         \A n, r : Claims(n, r) => n \in Nat
  PROVE  OneRecipe'
<1> SUFFICES ASSUME NEW n, NEW r, Claims(n, r)', NEW q, Claims(n, q)'
             PROVE  n < b'.buildOrderGen /\ q = r
  <2>1. \A n, r : Claims(n, r)' => n < b'.buildOrderGen /\ \A q : Claims(n, q)' => q = r
    OBVIOUS
  <2> QED BY <2>1 DEF OneRecipe
<1>1. CASE n = b.buildOrderGen
  <2>1. ~Claims(n, r) /\ ~Claims(n, q)
    BY <1>1 DEF OneRecipe
  <2> QED BY <1>1, <2>1
<1>2. CASE n # b.buildOrderGen
  <2>1. Claims(n, r) /\ Claims(n, q)
    BY <1>2
  <2> QED BY <2>1 DEF OneRecipe
<1> QED BY <1>1, <1>2


\* What is said after a step.
LEMMA ClaimsThen ==
  ASSUME NEW n, NEW r
  PROVE  Claims(n, r)' <=> \/ Names(b', n, r)
                           \/ n < seen' /\ Names(c', n, r)
                           \/ \E k \in 1 .. Len(down') : Names(down'[k], n, r)
                           \/ \E k \in 1 .. Len(up') : Recalls(up'[k], n, r)
BY DEF Claims, Names, Recalls

\* Only ids are claimed.
LEMMA ClaimsAreIds ==
  ASSUME OrdersTyped, NEW n, NEW r, Claims(n, r)
  PROVE  n \in Nat
<1>1. \A d \in Yard : Names(d, n, r) => n \in Nat
  <2> SUFFICES ASSUME NEW d \in Yard, Names(d, n, r) PROVE n \in Nat
    OBVIOUS
  <2>1. d.buildque \in Seq(Order)
    BY YardFields
  <2> QED BY <2>1, OrderFields DEF Names
<1>2. b \in Yard /\ c \in Yard
  BY DEF OrdersTyped, Sound
<1>3. ASSUME NEW k \in 1 .. Len(down) PROVE down[k] \in Yard
  <2>1. down \in Seq(SoundYard)
    BY DEF OrdersTyped
  <2>2. down[k] \in SoundYard
    BY <2>1
  <2> QED BY <2>2 DEF SoundYard
<1>4. ASSUME NEW k \in 1 .. Len(up), Recalls(up[k], n, r) PROVE n \in Nat
  <2>1. up \in Seq(Command)
    BY DEF OrdersTyped
  <2>2. up[k] \in Command /\ up[k].command = "BuildCancel"
    BY <1>4, <2>1 DEF Recalls
  <2> QED BY <1>4, <2>2 DEF Recalls, Command
<1> QED BY <1>1, <1>2, <1>3, <1>4 DEF Claims

\* A new Builder, in the server and in the client.
LEMMA OrdersInit == InitOrders => OrdersInv
<1> SUFFICES ASSUME InitOrders PROVE OrdersInv
  OBVIOUS
<1>1. Sound(b) /\ b.buildque = <<>> /\ b.buildOrderGen = 0 /\ c = b
  <2>1. Init /\ c = NewBuilder
    BY DEF InitOrders
  <2>2. Sound(b)
    BY <2>1, BuilderInit DEF IInv
  <2> QED BY <2>1, <2>2 DEF Init, NewBuilder
<1>2. seen = 0 /\ down = <<>> /\ up = <<>>
  BY DEF InitOrders
<1>3. OrdersTyped
  BY <1>1, <1>2 DEF OrdersTyped
<1>4. Len(<<>>) = 0
  OBVIOUS
<1>5. OneRecipe
  BY <1>1, <1>2, <1>4 DEF OneRecipe, Claims, Names
<1> QED BY <1>3, <1>5 DEF OrdersInv

\* The player orders (GLWbuild.cpp:199-218).
LEMMA OrderBuildKeeps ==
  ASSUME OrdersInv, NEW r \in Recipe, OrderBuild(r)
  PROVE  OrdersInv'
<1> DEFINE m == [command |-> "Build", st |-> r]
<1>1. /\ c' = AddBuild(c, r) /\ up' = Append(up, m)
      /\ b' = b /\ seen' = seen /\ down' = down
  BY DEF OrderBuild
<1>2. OrdersTyped /\ OneRecipe
  BY DEF OrdersInv
<1>3. Sound(c') /\ (Fewer(c', c) \/ Adds(c', c, r))
  BY <1>1, <1>2, AddKeeps DEF OrdersTyped
<1>4. c.buildOrderGen \in Nat /\ c'.buildOrderGen \in Nat /\ c'.buildOrderGen >= c.buildOrderGen
  <2>1. c.buildOrderGen \in Nat
    BY <1>2, YardFields DEF OrdersTyped, Sound
  <2> QED BY <1>3, <2>1 DEF Fewer, Adds
<1>5. m \in Command
  BY DEF Command
<1>6. up' \in Seq(Command) /\ \A k \in 1 .. Len(up') :
                                up'[k] = m \/ \E j \in 1 .. Len(up) : up'[k] = up[j]
  <2>1. up \in Seq(Command)
    BY <1>2 DEF OrdersTyped
  <2> HIDE DEF m
  <2> QED BY <1>1, <1>5, <2>1, Queued
<1>7. ASSUME NEW n, NEW q, Claims(n, q)' PROVE Claims(n, q)
  <2>1. CASE n < seen' /\ Names(c', n, q)
    <3>1. Names(c, n, q) \/ n = c.buildOrderGen
      BY <1>3, <2>1, NamesOf
    <3>2. seen <= c.buildOrderGen /\ seen \in Nat
      BY <1>2 DEF OrdersTyped
    <3> QED BY <1>1, <1>4, <2>1, <3>1, <3>2 DEF Claims
  <2>2. ASSUME NEW k \in 1 .. Len(up'), Recalls(up'[k], n, q) PROVE Claims(n, q)
    <3>1. up'[k] # m
      BY <2>2 DEF Recalls
    <3> QED BY <1>6, <2>2, <3>1 DEF Claims
  <2> QED BY <1>1, <1>7, <2>1, <2>2, ClaimsThen DEF Claims
<1>8. OrdersTyped'
  <2>1. seen' <= c'.buildOrderGen /\ seen' \in Nat
    BY <1>1, <1>2, <1>4 DEF OrdersTyped
  <2> QED BY <1>1, <1>2, <1>3, <1>6, <2>1 DEF OrdersTyped
<1> QED BY <1>1, <1>2, <1>7, <1>8, NoClaimIsNew DEF OrdersInv

\* The player cancels what the copy shows: an order that a diff brought is claimed
\* by the copy already (GLWbuild.cpp:219-230).
LEMMA OrderCancelKeeps ==
  ASSUME OrdersInv, NEW i \in 1 .. Len(c.buildque), OrderCancel(i)
  PROVE  OrdersInv'
<1> DEFINE m == [command |-> "BuildCancel", orderId |-> c.buildque[i].orderId,
                 meant |-> c.buildque[i].st, confirmed |-> c.buildque[i].orderId < seen]
<1>1. /\ c' = CancelBuild([c EXCEPT !.build = 0], i, TRUE) /\ up' = Append(up, m)
      /\ b' = b /\ seen' = seen /\ down' = down
  BY DEF OrderCancel
<1>2. OrdersTyped /\ OneRecipe
  BY DEF OrdersInv
<1>3. c \in Yard /\ Sound(c) /\ c.buildque \in Seq(Order)
  BY <1>2, YardFields DEF OrdersTyped, Sound
<1>4. Sound(c') /\ Fewer(c', c)
  <2>1. PICK d : d = [c EXCEPT !.build = 0]
    OBVIOUS
  <2>2. Sound(d) /\ Fewer(d, c)
    BY <1>3, <2>1, SetTime
  <2>3. d.buildque = c.buildque
    BY <1>3, <2>1 DEF Yard
  <2>4. Sound(CancelBuild(d, i, TRUE)) /\ Fewer(CancelBuild(d, i, TRUE), d)
    BY <2>2, <2>3, CancelKeeps
  <2> QED BY <1>1, <2>1, <2>2, <2>4, FewerThan
<1>5. c.buildque[i].orderId \in Nat /\ c.buildque[i].st \in Recipe
  BY <1>3, OrderFields
<1>6. m \in Command
  BY <1>5 DEF Command
<1>7. up' \in Seq(Command) /\ \A k \in 1 .. Len(up') :
                                up'[k] = m \/ \E j \in 1 .. Len(up) : up'[k] = up[j]
  <2>1. up \in Seq(Command)
    BY <1>2 DEF OrdersTyped
  <2> HIDE DEF m
  <2> QED BY <1>1, <1>6, <2>1, Queued
<1>8. \A n, q : Recalls(m, n, q) => n < seen /\ Names(c, n, q)
  BY DEF Recalls, Names
<1>9. ASSUME NEW n, NEW q, Claims(n, q)' PROVE Claims(n, q)
  <2>1. CASE n < seen' /\ Names(c', n, q)
    BY <1>1, <1>4, <2>1, NamesOf DEF Claims
  <2>2. ASSUME NEW k \in 1 .. Len(up'), Recalls(up'[k], n, q) PROVE Claims(n, q)
    <3> HIDE DEF m
    <3> QED BY <1>7, <1>8, <2>2 DEF Claims
  <2> QED BY <1>1, <1>9, <2>1, <2>2, ClaimsThen DEF Claims
<1>10. OrdersTyped'
  <2>1. seen' <= c'.buildOrderGen /\ seen' \in Nat
    BY <1>1, <1>2, <1>4 DEF OrdersTyped, Fewer
  <2> QED BY <1>1, <1>2, <1>4, <1>7, <2>1 DEF OrdersTyped
<1> QED BY <1>1, <1>2, <1>9, <1>10, NoClaimIsNew DEF OrdersInv

\* A frame of the copy (Builder.cpp:185-225).
LEMMA ClientAnimKeeps ==
  ASSUME OrdersInv, NEW dt \in Elapsed, ClientAnim(dt)
  PROVE  OrdersInv'
<1>1. c' = Anim(c, dt, FALSE) /\ b' = b /\ seen' = seen /\ down' = down /\ up' = up
  BY DEF ClientAnim, vars
<1>2. OrdersTyped /\ OneRecipe
  BY DEF OrdersInv
<1>3. Sound(c') /\ Fewer(c', c)
  <2>1. dt \in Int
    BY BuilderAssumption
  <2> QED BY <1>1, <1>2, <2>1, AnimKeeps DEF OrdersTyped
<1>4. ASSUME NEW n, NEW q, Claims(n, q)' PROVE Claims(n, q)
  BY <1>1, <1>3, <1>4, ClaimsThen, NamesOf DEF Claims
<1>5. OrdersTyped'
  BY <1>1, <1>2, <1>3 DEF OrdersTyped, Fewer
<1> QED BY <1>1, <1>2, <1>4, <1>5, NoClaimIsNew DEF OrdersInv

\* A diff takes the place of the copy (Builder.cpp:91-112).
LEMMA ReadDiffKeeps ==
  ASSUME OrdersInv, ReadDiff
  PROVE  OrdersInv'
<1>1. /\ down # <<>> /\ c' = Head(down) /\ seen' = c'.buildOrderGen /\ down' = Tail(down)
      /\ b' = b /\ up' = up
  BY DEF ReadDiff, vars
<1>2. OrdersTyped /\ OneRecipe
  BY DEF OrdersInv
<1>3. /\ c' \in SoundYard /\ down' \in Seq(SoundYard)
      /\ \E j \in 1 .. Len(down) : c' = down[j]
      /\ \A k \in 1 .. Len(down') : \E j \in 1 .. Len(down) : down'[k] = down[j]
  <2>1. down \in Seq(SoundYard)
    BY <1>2 DEF OrdersTyped
  <2> QED BY <1>1, <2>1, Queued
<1>4. ASSUME NEW n, NEW q, Claims(n, q)' PROVE Claims(n, q)
  BY <1>1, <1>3, <1>4, ClaimsThen DEF Claims
<1>5. OrdersTyped'
  <2>1. Sound(c') /\ c' \in Yard
    BY <1>3 DEF SoundYard
  <2>2. c'.buildOrderGen \in Nat
    BY <2>1, YardFields
  <2> QED BY <1>1, <1>2, <1>3, <2>1, <2>2 DEF OrdersTyped
<1> QED BY <1>1, <1>2, <1>4, <1>5, NoClaimIsNew DEF OrdersInv

\* The server carries out a command: an order it accepts takes an id that nothing
\* has named (Builder.cpp:235-256).
LEMMA InterpretKeeps ==
  ASSUME OrdersInv, Interpret
  PROVE  OrdersInv'
<1>1. /\ up # <<>> /\ up' = Tail(up) /\ c' = c /\ seen' = seen /\ down' = down
      /\ b' = IF Head(up).command = "Build" THEN AddBuild(b, Head(up).st)
              ELSE CancelOrder(b, Head(up).orderId)
  BY DEF Interpret
<1>2. OrdersTyped /\ OneRecipe
  BY DEF OrdersInv
<1>3. /\ Head(up) \in Command /\ up' \in Seq(Command)
      /\ \A k \in 1 .. Len(up') : \E j \in 1 .. Len(up) : up'[k] = up[j]
  <2>1. up \in Seq(Command)
    BY <1>2 DEF OrdersTyped
  <2> QED BY <1>1, <2>1, Queued
<1>4. b.buildOrderGen \in Nat
  BY <1>2, YardFields DEF OrdersTyped, Sound
<1>5. \A n, q : Claims(n, q) => n \in Nat
  BY <1>2, ClaimsAreIds
<1>6. ASSUME Sound(b'), Fewer(b', b) PROVE OrdersInv'
  <2>1. ASSUME NEW n, NEW q, Claims(n, q)' PROVE Claims(n, q)
    BY <1>1, <1>3, <1>6, <2>1, ClaimsThen, NamesOf DEF Claims
  <2>2. OrdersTyped'
    BY <1>1, <1>2, <1>3, <1>6 DEF OrdersTyped
  <2>3. b'.buildOrderGen = b.buildOrderGen
    BY <1>6 DEF Fewer
  <2> QED BY <1>2, <2>1, <2>2, <2>3, NoClaimIsNew DEF OrdersInv
<1>7. ASSUME NEW r \in Recipe, Sound(b'), Adds(b', b, r) PROVE OrdersInv'
  <2>1. ASSUME NEW n, NEW q, Claims(n, q)'
        PROVE  Claims(n, q) \/ (n = b.buildOrderGen /\ q = r)
    BY <1>1, <1>3, <1>7, <2>1, ClaimsThen, NamesOf DEF Claims
  <2>2. OrdersTyped'
    BY <1>1, <1>2, <1>3, <1>7 DEF OrdersTyped
  <2>3. b'.buildOrderGen = b.buildOrderGen + 1
    BY <1>7 DEF Adds
  <2>4. OneRecipe'
    BY <1>2, <1>4, <1>5, <2>1, <2>3, ClaimIsNew
  <2> QED BY <2>2, <2>4 DEF OrdersInv
<1>8. CASE Head(up).command = "Build"
  <2>1. PICK r \in Recipe : r = Head(up).st
    BY <1>3, <1>8 DEF Command
  <2>2. b' = AddBuild(b, r)
    BY <1>1, <1>8, <2>1
  <2>3. Sound(b') /\ (Fewer(b', b) \/ Adds(b', b, r))
    BY <1>2, <2>2, AddKeeps DEF OrdersTyped
  <2> QED BY <1>6, <1>7, <2>3
<1>9. CASE Head(up).command # "Build"
  <2>1. b' = CancelOrder(b, Head(up).orderId)
    BY <1>1, <1>9
  <2>2. Sound(b') /\ Fewer(b', b)
    BY <1>2, <2>1, CancelOrderKeeps DEF OrdersTyped
  <2> QED BY <1>6, <2>2
<1> QED BY <1>8, <1>9

\* A frame of the server's Builder (Builder.cpp:185-225).
LEMMA ServerAnimKeeps ==
  ASSUME OrdersInv, NEW dt \in Elapsed, ServerAnim(dt)
  PROVE  OrdersInv'
<1>1. b' = Anim(b, dt, FALSE) /\ c' = c /\ seen' = seen /\ down' = down /\ up' = up
  BY DEF ServerAnim, anim, client
<1>2. OrdersTyped /\ OneRecipe
  BY DEF OrdersInv
<1>3. Sound(b') /\ Fewer(b', b)
  <2>1. dt \in Int
    BY BuilderAssumption
  <2> QED BY <1>1, <1>2, <2>1, AnimKeeps DEF OrdersTyped
<1>4. ASSUME NEW n, NEW q, Claims(n, q)' PROVE Claims(n, q)
  BY <1>1, <1>3, <1>4, ClaimsThen, NamesOf DEF Claims
<1>5. OrdersTyped'
  BY <1>1, <1>2, <1>3 DEF OrdersTyped
<1>6. b'.buildOrderGen = b.buildOrderGen
  BY <1>3 DEF Fewer
<1> QED BY <1>2, <1>4, <1>5, <1>6, NoClaimIsNew DEF OrdersInv

\* The server's Builder goes out in a diff (Builder.cpp:79-89).
LEMMA SendDiffKeeps ==
  ASSUME OrdersInv, SendDiff
  PROVE  OrdersInv'
<1>1. down' = Append(down, b) /\ b' = b /\ c' = c /\ seen' = seen /\ up' = up
  BY DEF SendDiff, vars
<1>2. OrdersTyped /\ OneRecipe
  BY DEF OrdersInv
<1>3. /\ down' \in Seq(SoundYard)
      /\ \A k \in 1 .. Len(down') : down'[k] = b \/ \E j \in 1 .. Len(down) : down'[k] = down[j]
  <2>1. down \in Seq(SoundYard) /\ b \in SoundYard
    BY <1>2 DEF OrdersTyped, Sound, SoundYard
  <2> QED BY <1>1, <2>1, Queued
<1>4. ASSUME NEW n, NEW q, Claims(n, q)' PROVE Claims(n, q)
  BY <1>1, <1>3, <1>4, ClaimsThen DEF Claims
<1>5. OrdersTyped'
  BY <1>1, <1>2, <1>3 DEF OrdersTyped
<1> QED BY <1>1, <1>2, <1>4, <1>5, NoClaimIsNew DEF OrdersInv

\* Whatever names an order names it for one recipe: an id outlives the order, in
\* diffs, in the copy and in commands (Builder.cpp:124).
THEOREM OrdersNamedOnce == SpecOrders => []OrdersInv
<1>1. OrdersInv /\ [NextOrders]_allvars => OrdersInv'
  <2> SUFFICES ASSUME OrdersInv, [NextOrders]_allvars PROVE OrdersInv'
    OBVIOUS
  <2>1. CASE UNCHANGED allvars
    <3>1. b' = b /\ c' = c /\ seen' = seen /\ up' = up /\ down' = down
      BY <2>1 DEF allvars, vars, client
    <3>2. OrdersTyped /\ OneRecipe
      BY DEF OrdersInv
    <3>3. ASSUME NEW n, NEW q, Claims(n, q)' PROVE Claims(n, q)
      BY <3>1, <3>3, ClaimsThen DEF Claims
    <3>4. OrdersTyped'
      BY <3>1, <3>2 DEF OrdersTyped
    <3> QED BY <3>1, <3>2, <3>3, <3>4, NoClaimIsNew DEF OrdersInv
  <2> QED BY <2>1, OrderBuildKeeps, OrderCancelKeeps, ClientAnimKeeps, ReadDiffKeeps,
             InterpretKeeps, ServerAnimKeeps, SendDiffKeeps DEF NextOrders
<1> QED BY <1>1, OrdersInit, PTL DEF SpecOrders

\* A cancel of an order that a diff has brought cancels that order or nothing
\* (Builder.cpp:124,249-254, GLWbuild.cpp:219-230).
THEOREM CancelsOfShownHit == SpecOrders => []ConfirmedCancelHits
<1>1. OrdersInv => ConfirmedCancelHits
  <2> SUFFICES ASSUME OrdersInv, NEW k \in 1 .. Len(up),
                      up[k].command = "BuildCancel", up[k].confirmed, NEW i \in Hits(up[k])
               PROVE  b.buildque[i].st = up[k].meant
    BY DEF ConfirmedCancelHits
  <2>1. Claims(up[k].orderId, up[k].meant)
    BY DEF Claims, Recalls
  <2>2. Claims(up[k].orderId, b.buildque[i].st)
    BY DEF Claims, Names, Hits
  <2> QED BY <2>1, <2>2 DEF OrdersInv, OneRecipe
<1> QED BY <1>1, OrdersNamedOnce, PTL
=============================================================================
