------------------------------ MODULE FieldsProofs -----------------------------
(***************************************************************************)
(* Who owns an Entity, for any fighters and shots, and any lengths of a    *)
(* frame and a launch.                                                     *)
(*                                                                         *)
(* Invariant: unless it is astray the world is whole, which is said of     *)
(* each Entity apart (Fine): a living one is in one place, w is that       *)
(* place, and who has it observes it; a dead one is in no list but the     *)
(* queue, and not even watched for that.  An operation touches one Entity  *)
(* (Moves); what it leaves alone stays fine (Same).                        *)
(***************************************************************************)
EXTENDS Fields, BinDiffProofs

-----------------------------------------------------------------------------
(* Loops and lists *)

\* A loop of n turns has a result for each number of turns.
LEMMA Iterated ==
  ASSUME NEW R, NEW b \in R, NEW n \in Nat, NEW step \in [1 .. n -> [R -> R]]
  PROVE  \E f \in [0 .. n -> R] :
           f[0] = b /\ \A i \in 1 .. n : f[i] = step[i][f[i - 1]]
<1> DEFINE Run(f, m) == /\ f \in [0 .. m -> R] /\ f[0] = b
                        /\ \A i \in 1 .. m : f[i] = step[i][f[i - 1]]
           N == {m \in Nat : m <= n => \E f : Run(f, m)}
<1>1. 0 \in N
  <2> DEFINE f == [i \in 0 .. 0 |-> b]
  <2>1. f \in [0 .. 0 -> R] /\ f[0] = b /\ \A i \in 1 .. 0 : f[i] = step[i][f[i - 1]]
    OBVIOUS
  <2> HIDE DEF f
  <2> QED BY <2>1
<1>2. ASSUME NEW m \in Nat, m \in N PROVE m + 1 \in N
  <2> SUFFICES ASSUME m + 1 <= n PROVE \E f : Run(f, m + 1)
    OBVIOUS
  <2>1. PICK f : Run(f, m)
    BY <1>2
  <2> DEFINE h == [i \in 0 .. m + 1 |-> IF i = m + 1 THEN step[m + 1][f[m]] ELSE f[i]]
  <2>2. f[m] \in R /\ m + 1 \in 1 .. n
    BY <2>1
  <2>3. step[m + 1][f[m]] \in R
    BY <2>2
  <2>4. h \in [0 .. m + 1 -> R] /\ h[0] = b
    BY <2>1, <2>3
  <2>5. ASSUME NEW i \in 1 .. m + 1 PROVE h[i] = step[i][h[i - 1]]
    <3>1. CASE i = m + 1
      <4>1. i - 1 = m /\ m \in 0 .. m + 1 /\ m # m + 1 /\ i \in 0 .. m + 1
        BY <3>1
      <4>2. h[m] = f[m] /\ h[i] = step[i][f[m]]
        BY <3>1, <4>1
      <4> HIDE DEF h
      <4> QED BY <4>1, <4>2
    <3>2. CASE i # m + 1
      <4>1. i \in 1 .. m /\ i \in 0 .. m + 1 /\ i - 1 \in 0 .. m + 1 /\ i - 1 # m + 1
        BY <3>2
      <4>2. h[i] = f[i] /\ h[i - 1] = f[i - 1]
        BY <3>2, <4>1
      <4> HIDE DEF h
      <4> QED BY <2>1, <4>1, <4>2
    <3> QED BY <3>1, <3>2
  <2> HIDE DEF h
  <2>6. Run(h, m + 1)
    BY <2>4, <2>5
  <2> HIDE DEF Run
  <2> QED BY <2>6
<1> HIDE DEF N
<1>3. n \in N
  BY <1>1, <1>2, SetInduction
<1>4. PICK f : Run(f, n)
  BY <1>3 DEF N
<1> QED BY <1>4

\* What is kept of the first n entries.
LEMMA ThoseDef ==
  ASSUME NEW T, NEW s \in Seq(T), NEW S
  PROVE  \E those :
           /\ those[0] = <<>> /\ Those(s, S) = those[Len(s)]
           /\ \A n \in 1 .. Len(s) :
                those[n] = IF s[n] \in S THEN Append(those[n - 1], s[n]) ELSE those[n - 1]
<1> DEFINE R == Seq(T)
           turn(q, x) == IF x \in S THEN Append(q, x) ELSE q
           step == [n \in 1 .. Len(s) |-> [q \in R |-> turn(q, s[n])]]
           Run(f) == f = [n \in 0 .. Len(s) |->
                            IF n = 0 THEN <<>> ELSE turn(f[n - 1], s[n])]
           those == CHOOSE f : Run(f)
<1>1. \A q \in R, n \in 1 .. Len(s) : turn(q, s[n]) \in R
  <2> SUFFICES ASSUME NEW q \in R, NEW n \in 1 .. Len(s) PROVE turn(q, s[n]) \in R
    OBVIOUS
  <2>1. Append(q, s[n]) \in R
    OBVIOUS
  <2> QED BY <2>1
<1>2. Those(s, S) = those[Len(s)]
  BY DEF Those
<1>3. Len(s) \in Nat /\ <<>> \in R
  OBVIOUS
<1> HIDE DEF R, turn
<1>4. step \in [1 .. Len(s) -> [R -> R]]
      /\ \A q \in R, n \in 1 .. Len(s) : step[n][q] = turn(q, s[n])
  BY <1>1
<1> HIDE DEF step
<1>5. PICK b \in R, l \in Nat : b = <<>> /\ l = Len(s)
  BY <1>3
<1>6. step \in [1 .. l -> [R -> R]]
  BY <1>4, <1>5
<1>7. PICK f \in [0 .. l -> R] :
        f[0] = b /\ \A i \in 1 .. l : f[i] = step[i][f[i - 1]]
  BY <1>6, Iterated
<1>8. ASSUME NEW i \in 0 .. l, i # 0
      PROVE  step[i][f[i - 1]] = turn(f[i - 1], s[i])
  <2>1. i - 1 \in 0 .. l /\ i \in 1 .. Len(s)
    BY <1>5, <1>8
  <2> QED BY <1>4, <1>7, <2>1
<1>9. Run(f)
  BY <1>5, <1>7, <1>8
<1>10. Run(those)
  BY <1>9
<1> HIDE DEF those
<1>11. those[0] = <<>> /\ \A n \in 1 .. Len(s) : those[n] = turn(those[n - 1], s[n])
  BY <1>3, <1>10
<1> QED BY <1>2, <1>11 DEF turn

\* How often an entry is in a list.
LEMMA CopiesType ==
  ASSUME NEW T, NEW s \in Seq(T), NEW e
  PROVE  Copies(s, e) \in Nat /\ (Copies(s, e) = 0 <=> \A i \in 1 .. Len(s) : s[i] # e)
<1> DEFINE I == {i \in DOMAIN s : s[i] = e}
<1>1. I \subseteq 1 .. Len(s) /\ Len(s) \in Int /\ 1 \in Int
  OBVIOUS
<1>2. IsFiniteSet(1 .. Len(s))
  BY <1>1, FS_Interval
<1>3. IsFiniteSet(I)
  BY <1>1, <1>2, FS_Subset
<1>4. Cardinality(I) \in Nat /\ (Cardinality(I) = 0 <=> I = {})
  BY <1>3, FS_CardinalityType, FS_EmptySet
<1>5. I = {} <=> \A i \in 1 .. Len(s) : s[i] # e
  OBVIOUS
<1> QED BY <1>4, <1>5 DEF Copies

\* The empty list has nobody.
LEMMA CopiesNone == ASSUME NEW e PROVE Copies(<<>>, e) = 0
<1>1. {i \in DOMAIN <<>> : <<>>[i] = e} = {}
  OBVIOUS
<1> QED BY <1>1, FS_EmptySet DEF Copies

\* One more in the list.
LEMMA CopiesAppend ==
  ASSUME NEW T, NEW s \in Seq(T), NEW x \in T, NEW e
  PROVE  Copies(Append(s, x), e) = Copies(s, e) + (IF x = e THEN 1 ELSE 0)
<1> DEFINE I == {i \in DOMAIN s : s[i] = e}
           J == {i \in DOMAIN Append(s, x) : Append(s, x)[i] = e}
<1>1. Len(s) \in Nat /\ DOMAIN s = 1 .. Len(s)
  OBVIOUS
<1>2. /\ DOMAIN Append(s, x) = 1 .. Len(s) + 1
      /\ \A i \in 1 .. Len(s) : Append(s, x)[i] = s[i]
      /\ Append(s, x)[Len(s) + 1] = x
  BY <1>1
<1>3. I \subseteq 1 .. Len(s) /\ IsFiniteSet(1 .. Len(s))
  BY <1>1, FS_Interval
<1>4. IsFiniteSet(I)
  BY <1>3, FS_Subset
<1>7. Copies(Append(s, x), e) = Cardinality(J) /\ Copies(s, e) = Cardinality(I)
  BY DEF Copies
<1>5. CASE x = e
  <2>1. J = I \cup {Len(s) + 1} /\ Len(s) + 1 \notin I
    BY <1>1, <1>2, <1>5
  <2> HIDE DEF I, J
  <2>2. Cardinality(J) = Cardinality(I) + 1
    BY <1>4, <2>1, FS_AddElement
  <2> QED BY <1>5, <1>7, <2>2
<1>6. CASE x # e
  <2>1. J = I
    BY <1>1, <1>2, <1>6
  <2>2. Cardinality(I) \in Nat
    BY <1>4, FS_CardinalityType
  <2> HIDE DEF I, J
  <2> QED BY <1>6, <1>7, <2>1, <2>2
<1> QED BY <1>5, <1>6

\* Those in S, each as often as before.
LEMMA ThoseAre ==
  ASSUME NEW T, NEW s \in Seq(T), NEW S
  PROVE  /\ Those(s, S) \in Seq(T)
         /\ \A e : Copies(Those(s, S), e) = IF e \in S THEN Copies(s, e) ELSE 0
<1>1. PICK those :
        /\ those[0] = <<>> /\ Those(s, S) = those[Len(s)]
        /\ \A n \in 1 .. Len(s) :
             those[n] = IF s[n] \in S THEN Append(those[n - 1], s[n]) ELSE those[n - 1]
  BY ThoseDef
<1> DEFINE I(n, e) == {i \in 1 .. n : s[i] = e}
           N == {n \in Nat : n <= Len(s) =>
                   /\ those[n] \in Seq(T)
                   /\ \A e : Copies(those[n], e) = IF e \in S THEN Cardinality(I(n, e)) ELSE 0}
<1>2. 0 \in N
  <2>1. <<>> \in Seq(T) /\ \A e : I(0, e) = {}
    OBVIOUS
  <2>2. \A e : Copies(<<>>, e) = 0 /\ Cardinality(I(0, e)) = 0
    BY <2>1, CopiesNone, FS_EmptySet
  <2> HIDE DEF I
  <2> QED BY <1>1, <2>1, <2>2
<1>3. ASSUME NEW n \in Nat, n \in N PROVE n + 1 \in N
  <2> SUFFICES ASSUME n + 1 <= Len(s)
               PROVE  /\ those[n + 1] \in Seq(T)
                      /\ \A e : Copies(those[n + 1], e) = IF e \in S THEN Cardinality(I(n + 1, e)) ELSE 0
    OBVIOUS
  <2>1. n + 1 \in 1 .. Len(s) /\ (n + 1) - 1 = n /\ n <= Len(s)
    OBVIOUS
  <2>2. PICK q \in Seq(T) : q = those[n]
    BY <1>3, <2>1
  <2>3. \A e : Copies(q, e) = IF e \in S THEN Cardinality(I(n, e)) ELSE 0
    BY <1>3, <2>1, <2>2
  <2>4. PICK x \in T : x = s[n + 1]
    BY <2>1
  <2>5. those[n + 1] = IF x \in S THEN Append(q, x) ELSE q
    BY <1>1, <2>1, <2>2, <2>4
  <2>6. ASSUME NEW e
        PROVE  Cardinality(I(n + 1, e)) = Cardinality(I(n, e)) + (IF x = e THEN 1 ELSE 0)
    <3>1. I(n, e) \subseteq 1 .. n /\ IsFiniteSet(1 .. n)
      BY FS_Interval
    <3>2. IsFiniteSet(I(n, e))
      BY <3>1, FS_Subset
    <3>3. CASE x = e
      <4>2. ASSUME NEW i PROVE i \in I(n + 1, e) <=> i \in I(n, e) \cup {n + 1}
        <5>1. i \in 1 .. n + 1 <=> i \in 1 .. n \/ i = n + 1
          OBVIOUS
        <5>2. i = n + 1 => s[i] = e
          BY <2>4, <3>3
        <5> QED BY <5>1, <5>2
      <4>1. I(n + 1, e) = I(n, e) \cup {n + 1} /\ n + 1 \notin I(n, e)
        <5>1. n + 1 \notin I(n, e)
          OBVIOUS
        <5> HIDE DEF I
        <5> QED BY <4>2, <5>1
      <4> HIDE DEF I
      <4> QED BY <3>2, <3>3, <4>1, FS_AddElement
    <3>4. CASE x # e
      <4>1. I(n + 1, e) = I(n, e)
        BY <2>4, <3>4
      <4>2. Cardinality(I(n, e)) \in Nat
        BY <3>2, FS_CardinalityType
      <4> HIDE DEF I
      <4> QED BY <3>4, <4>1, <4>2
    <3> QED BY <3>3, <3>4
  <2> HIDE DEF I
  <2>7. CASE x \in S
    <3>1. Append(q, x) \in Seq(T)
      OBVIOUS
    <3>2. \A e : Copies(Append(q, x), e) = Copies(q, e) + (IF x = e THEN 1 ELSE 0)
      BY CopiesAppend
    <3>3. ASSUME NEW e
          PROVE  Copies(Append(q, x), e) = IF e \in S THEN Cardinality(I(n + 1, e)) ELSE 0
      BY <2>3, <2>6, <2>7, <3>2
    <3> QED BY <2>5, <2>7, <3>1, <3>3
  <2>8. CASE x \notin S
    <3>1. ASSUME NEW e PROVE Copies(q, e) = IF e \in S THEN Cardinality(I(n + 1, e)) ELSE 0
      <4>1. CASE e \in S
        <5>1. Cardinality(I(n + 1, e)) = Cardinality(I(n, e)) + 0 /\ Copies(q, e) \in Nat
          BY <2>6, <2>8, <4>1, CopiesType
        <5> QED BY <2>3, <4>1, <5>1
      <4>2. CASE e \notin S
        BY <2>3, <4>2
      <4> QED BY <4>1, <4>2
    <3> QED BY <2>5, <2>8, <3>1
  <2> QED BY <2>7, <2>8
<1> HIDE DEF N
<1>4. Len(s) \in N /\ Len(s) \in Nat
  BY <1>2, <1>3, SetInduction
<1>5. \A e : Cardinality(I(Len(s), e)) = Copies(s, e)
  <2>1. \A e : I(Len(s), e) = {i \in DOMAIN s : s[i] = e}
    OBVIOUS
  <2> HIDE DEF I
  <2> QED BY <2>1 DEF Copies
<1>6. those[Len(s)] \in Seq(T)
      /\ \A e : Copies(those[Len(s)], e) = IF e \in S THEN Cardinality(I(Len(s), e)) ELSE 0
  BY <1>4 DEF N
<1> HIDE DEF I
<1> QED BY <1>1, <1>5, <1>6

\* A list is of those that it has.
LEMMA ListOf ==
  ASSUME NEW T, NEW s \in Seq(T), NEW S, \A e \in T : Copies(s, e) > 0 => e \in S
  PROVE  s \in Seq(S)
<1>1. ASSUME NEW i \in 1 .. Len(s) PROVE s[i] \in S
  <2>1. PICK e \in T : e = s[i]
    OBVIOUS
  <2>2. Copies(s, e) \in Nat /\ Copies(s, e) # 0
    BY <2>1, CopiesType
  <2> QED BY <2>1, <2>2
<1> QED BY <1>1

\* A list has those that are in it.
LEMMA InList ==
  ASSUME NEW T, NEW s \in Seq(T), NEW e
  PROVE  /\ e \in ToSet(s) <=> Copies(s, e) > 0
         /\ s = <<>> <=> \A x \in T : Copies(s, x) = 0
         /\ s # <<>> => Head(s) \in T /\ Copies(s, Head(s)) > 0
<1>1. ToSet(s) = {s[i] : i \in 1 .. Len(s)}
  BY DEF ToSet
<1>2. \A x : Copies(s, x) \in Nat /\ (Copies(s, x) = 0 <=> \A i \in 1 .. Len(s) : s[i] # x)
  BY CopiesType
<1>3. e \in ToSet(s) <=> Copies(s, e) > 0
  BY <1>1, <1>2
<1>4. s # <<>> => 1 \in 1 .. Len(s) /\ Head(s) = s[1] /\ s[1] \in T
  OBVIOUS
<1>5. s # <<>> => Copies(s, Head(s)) > 0 /\ Head(s) \in T
  BY <1>2, <1>4
<1>6. s = <<>> => \A x \in T : Copies(s, x) = 0
  BY CopiesNone
<1>7. s # <<>> => \E x \in T : Copies(s, x) # 0
  BY <1>5
<1> QED BY <1>3, <1>5, <1>6, <1>7

-----------------------------------------------------------------------------
(* Worlds *)

\* The worlds that have types, astray or not.
World ==
  [live : SUBSET Entity, w : [Entity -> Field \cup {Gone, NULL}],
   observers : [Entity -> [Field \cup {Gone} -> Int]],
   el : [Field -> Seq(Entity)], bl : [Field -> Seq(Entity)], undockque : Seq(Fighter),
   baycool : Nat, remainDocked : BOOLEAN, bubble : {"none", "open", "marked"},
   astray : BOOLEAN]

\* How often a field's two lists, and the queue, have an Entity.
E(d, f, e) == Copies(d.el[f], e)
B(d, f, e) == Copies(d.bl[f], e)
Q(d, e) == Copies(d.undockque, e)

\* A step changes nothing about an Entity.
Same(d, h, e) ==
  /\ e \in h.live <=> e \in d.live
  /\ h.w[e] = d.w[e]
  /\ \A f \in Field \cup {Gone} : h.observers[e][f] = d.observers[e][f]
  /\ \A f \in Field : E(h, f, e) = E(d, f, e) /\ B(h, f, e) = B(d, f, e)
  /\ Q(h, e) = Q(d, e)

\* A step of one Entity, that neither makes nor kills it.
Moves(d, h, e) ==
  /\ h \in World
  /\ h.live = d.live /\ h.undockque = d.undockque /\ h.bubble = d.bubble
  /\ d.astray => h.astray
  /\ \A x \in Entity \ {e} : Same(d, h, x)

\* The parts of a world.
LEMMA Parts ==
  ASSUME NEW d \in World
  PROVE  /\ d.live \in SUBSET Entity /\ d.w \in [Entity -> Field \cup {Gone, NULL}]
         /\ d.observers \in [Entity -> [Field \cup {Gone} -> Int]]
         /\ d.el \in [Field -> Seq(Entity)] /\ d.bl \in [Field -> Seq(Entity)]
         /\ d.undockque \in Seq(Fighter) /\ d.baycool \in Nat
         /\ d.remainDocked \in BOOLEAN /\ d.bubble \in {"none", "open", "marked"}
         /\ d.astray \in BOOLEAN
  BY DEF World

\* Its lists have their entities a number of times.
LEMMA Counts ==
  ASSUME NEW d \in World, NEW e
  PROVE  /\ \A f \in Field : E(d, f, e) \in Nat /\ B(d, f, e) \in Nat
         /\ Q(d, e) \in Nat /\ (e \notin Fighter => Q(d, e) = 0)
<1>1. ASSUME NEW f \in Field PROVE E(d, f, e) \in Nat /\ B(d, f, e) \in Nat
  <2>1. d.el[f] \in Seq(Entity) /\ d.bl[f] \in Seq(Entity)
    BY Parts
  <2> QED BY <2>1, CopiesType DEF E, B
<1>2. d.undockque \in Seq(Fighter)
  BY Parts
<1>3. Q(d, e) \in Nat /\ (Q(d, e) = 0 <=> \A i \in 1 .. Len(d.undockque) : d.undockque[i] # e)
  BY <1>2, CopiesType DEF Q
<1>4. \A i \in 1 .. Len(d.undockque) : d.undockque[i] \in Fighter
  BY <1>2
<1> QED BY <1>1, <1>3, <1>4

\* addent().
LEMMA Addent ==
  ASSUME NEW d \in World, NEW e \in Entity, NEW f \in Field, NEW h, h = addent(d, e, f)
  PROVE  /\ Moves(d, h, e)
         /\ h.w[e] = f /\ h.astray = d.astray
         /\ \A f1 \in Field \cup {Gone} :
              h.observers[e][f1] = d.observers[e][f1] + (IF f1 = f THEN 1 ELSE 0)
         /\ \A f1 \in Field :
              /\ E(h, f1, e) = E(d, f1, e) + (IF f1 = f /\ e \notin Shot THEN 1 ELSE 0)
              /\ B(h, f1, e) = B(d, f1, e) + (IF f1 = f /\ e \in Shot THEN 1 ELSE 0)
<1> DEFINE el1 == IF e \in Shot THEN d.el[f] ELSE Append(d.el[f], e)
           bl1 == IF e \in Shot THEN Append(d.bl[f], e) ELSE d.bl[f]
<1>1. /\ d.live \in SUBSET Entity /\ d.w \in [Entity -> Field \cup {Gone, NULL}]
      /\ d.observers \in [Entity -> [Field \cup {Gone} -> Int]]
      /\ d.el \in [Field -> Seq(Entity)] /\ d.bl \in [Field -> Seq(Entity)]
  BY Parts
<1>2. PICK a \in Seq(Entity), b \in Seq(Entity) : a = d.el[f] /\ b = d.bl[f]
  BY <1>1
<1>3. Append(a, e) \in Seq(Entity) /\ Append(b, e) \in Seq(Entity)
  OBVIOUS
<1>4. el1 \in Seq(Entity) /\ bl1 \in Seq(Entity)
  BY <1>2, <1>3
<1>5. /\ \A x : Copies(el1, x) = Copies(a, x) + (IF x = e /\ e \notin Shot THEN 1 ELSE 0)
      /\ \A x : Copies(bl1, x) = Copies(b, x) + (IF x = e /\ e \in Shot THEN 1 ELSE 0)
  <2>1. \A x : /\ Copies(Append(a, e), x) = Copies(a, x) + (IF e = x THEN 1 ELSE 0)
               /\ Copies(Append(b, e), x) = Copies(b, x) + (IF e = x THEN 1 ELSE 0)
    BY CopiesAppend
  <2>2. \A x : Copies(a, x) \in Nat /\ Copies(b, x) \in Nat
    BY CopiesType
  <2>3. CASE e \in Shot
    BY <1>2, <2>1, <2>2, <2>3
  <2>4. CASE e \notin Shot
    BY <1>2, <2>1, <2>2, <2>4
  <2> QED BY <2>3, <2>4
<1>6. h = [d EXCEPT !.w = [d.w EXCEPT ![e] = f],
                    !.observers = [d.observers EXCEPT ![e][f] = d.observers[e][f] + 1],
                    !.el = [d.el EXCEPT ![f] = el1], !.bl = [d.bl EXCEPT ![f] = bl1]]
  BY DEF addent, World
<1> HIDE DEF el1, bl1
<1>12. f \in Field \cup {Gone} /\ \A f1 \in Field \cup {Gone} : d.observers[e][f1] \in Int
  BY <1>1
<1>13. PICK o1 : o1 = [d.observers EXCEPT ![e][f] = d.observers[e][f] + 1]
  OBVIOUS
<1>14. d.observers[e][f] + 1 \in Int
  BY <1>12
<1>15. /\ o1 \in [Entity -> [Field \cup {Gone} -> Int]]
       /\ \A x \in Entity \ {e} : o1[x] = d.observers[x]
       /\ o1[e][f] = d.observers[e][f] + 1
       /\ \A f1 \in (Field \cup {Gone}) \ {f} : o1[e][f1] = d.observers[e][f1]
  BY <1>1, <1>12, <1>13, <1>14
<1>16. PICK w1 \in [Entity -> Field \cup {Gone, NULL}] : w1 = [d.w EXCEPT ![e] = f]
  BY <1>1
<1>17. PICK l1 \in [Field -> Seq(Entity)] : l1 = [d.el EXCEPT ![f] = el1]
  BY <1>1, <1>4
<1>18. PICK l2 \in [Field -> Seq(Entity)] : l2 = [d.bl EXCEPT ![f] = bl1]
  BY <1>1, <1>4
<1>19. h = [d EXCEPT !.w = w1, !.observers = o1, !.el = l1, !.bl = l2]
  BY <1>6, <1>13, <1>16, <1>17, <1>18
<1>7. /\ h \in World
      /\ h.w = w1 /\ h.observers = o1 /\ h.el = l1 /\ h.bl = l2
      /\ h.live = d.live /\ h.undockque = d.undockque /\ h.bubble = d.bubble
      /\ h.astray = d.astray
  <2>1. h \in World
    BY <1>15, <1>19 DEF World
  <2> QED BY <2>1, <1>19 DEF World
<1>9. /\ h.w[e] = f /\ \A x \in Entity \ {e} : h.w[x] = d.w[x]
      /\ \A x \in Entity \ {e} : h.observers[x] = d.observers[x]
      /\ \A f1 \in Field \cup {Gone} :
           h.observers[e][f1] = d.observers[e][f1] + (IF f1 = f THEN 1 ELSE 0)
  <2>1. ASSUME NEW f1 \in Field \cup {Gone}
        PROVE  h.observers[e][f1] = d.observers[e][f1] + (IF f1 = f THEN 1 ELSE 0)
    <3>1. d.observers[e][f1] \in Int
      BY <1>12
    <3> QED BY <1>7, <1>15, <3>1
  <2> QED BY <1>1, <1>7, <1>15, <1>16, <2>1
<1>10. ASSUME NEW f1 \in Field, NEW x
       PROVE  /\ E(h, f1, x) = E(d, f1, x)
                                 + (IF f1 = f /\ x = e /\ e \notin Shot THEN 1 ELSE 0)
              /\ B(h, f1, x) = B(d, f1, x)
                                 + (IF f1 = f /\ x = e /\ e \in Shot THEN 1 ELSE 0)
  <2>1. E(d, f1, x) \in Nat /\ B(d, f1, x) \in Nat
    BY Counts
  <2>2. CASE f1 = f
    <3>1. h.el[f1] = el1 /\ h.bl[f1] = bl1
      BY <1>1, <1>7, <1>17, <1>18, <2>2
    <3> QED BY <1>2, <1>5, <2>2, <3>1 DEF E, B
  <2>3. CASE f1 # f
    <3>1. h.el[f1] = d.el[f1] /\ h.bl[f1] = d.bl[f1]
      BY <1>1, <1>7, <1>17, <1>18, <2>3
    <3>2. E(h, f1, x) = E(d, f1, x) /\ B(h, f1, x) = B(d, f1, x)
      BY <3>1 DEF E, B
    <3> QED BY <2>1, <2>3, <3>2
  <2> QED BY <2>2, <2>3
<1>11. \A x \in Entity \ {e} : Same(d, h, x)
  <2> SUFFICES ASSUME NEW x \in Entity, x # e PROVE Same(d, h, x)
    OBVIOUS
  <2>1. Q(h, x) = Q(d, x)
    BY <1>7 DEF Q
  <2>2. \A f1 \in Field : E(h, f1, x) = E(d, f1, x) /\ B(h, f1, x) = B(d, f1, x)
    <3> SUFFICES ASSUME NEW f1 \in Field
                 PROVE  E(h, f1, x) = E(d, f1, x) /\ B(h, f1, x) = B(d, f1, x)
      OBVIOUS
    <3>1. E(d, f1, x) \in Nat /\ B(d, f1, x) \in Nat
      BY Counts
    <3> QED BY <1>10, <3>1
  <2> QED BY <1>7, <1>9, <2>1, <2>2 DEF Same
<1> QED BY <1>7, <1>9, <1>10, <1>11 DEF Moves

\* unlink().
LEMMA Unlink ==
  ASSUME NEW d \in World, NEW e \in Entity, NEW f \in Field, NEW h, h = unlink(d, e, f)
  PROVE  /\ Moves(d, h, e)
         /\ h.w[e] = d.w[e] /\ h.astray = d.astray
         /\ E(h, f, e) = 0 /\ B(h, f, e) = 0
         /\ h.observers[e][f] = d.observers[e][f] - E(d, f, e) - B(d, f, e)
         /\ \A f1 \in (Field \cup {Gone}) \ {f} : h.observers[e][f1] = d.observers[e][f1]
         /\ \A f1 \in Field \ {f} : E(h, f1, e) = E(d, f1, e) /\ B(h, f1, e) = B(d, f1, e)
<1> DEFINE el1 == Without(d.el[f], e)
           bl1 == Without(d.bl[f], e)
           n == d.observers[e][f] - E(d, f, e) - B(d, f, e)
<1>1. /\ d.live \in SUBSET Entity /\ d.w \in [Entity -> Field \cup {Gone, NULL}]
      /\ d.observers \in [Entity -> [Field \cup {Gone} -> Int]]
      /\ d.el \in [Field -> Seq(Entity)] /\ d.bl \in [Field -> Seq(Entity)]
  BY Parts
<1>2. PICK a \in Seq(Entity), b \in Seq(Entity) : a = d.el[f] /\ b = d.bl[f]
  BY <1>1
<1>4. /\ el1 \in Seq(Entity) /\ bl1 \in Seq(Entity)
      /\ \A x \in Entity : Copies(el1, x) = (IF x # e THEN Copies(a, x) ELSE 0)
      /\ \A x \in Entity : Copies(bl1, x) = (IF x # e THEN Copies(b, x) ELSE 0)
  BY <1>2, ThoseAre DEF Without
<1>12. f \in Field \cup {Gone} /\ d.observers[e][f] \in Int
  BY <1>1
<1>5. n \in Int
  <2>1. E(d, f, e) \in Nat /\ B(d, f, e) \in Nat
    BY Counts
  <2> QED BY <1>12, <2>1
<1>6. h = [d EXCEPT !.w = d.w, !.observers = [d.observers EXCEPT ![e][f] = n],
                    !.el = [d.el EXCEPT ![f] = el1], !.bl = [d.bl EXCEPT ![f] = bl1]]
  BY DEF unlink, E, B, World
<1> HIDE DEF el1, bl1, n
<1>13. PICK o1 : o1 = [d.observers EXCEPT ![e][f] = n]
  OBVIOUS
<1>15. /\ o1 \in [Entity -> [Field \cup {Gone} -> Int]]
       /\ \A x \in Entity \ {e} : o1[x] = d.observers[x]
       /\ o1[e][f] = n
       /\ \A f1 \in (Field \cup {Gone}) \ {f} : o1[e][f1] = d.observers[e][f1]
  BY <1>1, <1>5, <1>12, <1>13
<1>17. PICK l1 \in [Field -> Seq(Entity)] : l1 = [d.el EXCEPT ![f] = el1]
  BY <1>1, <1>4
<1>18. PICK l2 \in [Field -> Seq(Entity)] : l2 = [d.bl EXCEPT ![f] = bl1]
  BY <1>1, <1>4
<1>19. h = [d EXCEPT !.w = d.w, !.observers = o1, !.el = l1, !.bl = l2]
  BY <1>6, <1>13, <1>17, <1>18
<1>7. /\ h \in World
      /\ h.w = d.w /\ h.observers = o1 /\ h.el = l1 /\ h.bl = l2
      /\ h.live = d.live /\ h.undockque = d.undockque /\ h.bubble = d.bubble
      /\ h.astray = d.astray
  <2>1. h \in World
    BY <1>1, <1>15, <1>19 DEF World
  <2> QED BY <2>1, <1>19 DEF World
<1>9. /\ \A x \in Entity \ {e} : h.observers[x] = d.observers[x]
      /\ h.observers[e][f] = n
      /\ \A f1 \in (Field \cup {Gone}) \ {f} : h.observers[e][f1] = d.observers[e][f1]
  BY <1>7, <1>15
<1>10. ASSUME NEW f1 \in Field, NEW x \in Entity
       PROVE  /\ E(h, f1, x) = (IF f1 = f /\ x = e THEN 0 ELSE E(d, f1, x))
              /\ B(h, f1, x) = (IF f1 = f /\ x = e THEN 0 ELSE B(d, f1, x))
  <2>2. CASE f1 = f
    <3>1. h.el[f1] = el1 /\ h.bl[f1] = bl1
      BY <1>1, <1>7, <1>17, <1>18, <2>2
    <3> QED BY <1>2, <1>4, <2>2, <3>1 DEF E, B
  <2>3. CASE f1 # f
    <3>1. h.el[f1] = d.el[f1] /\ h.bl[f1] = d.bl[f1]
      BY <1>1, <1>7, <1>17, <1>18, <2>3
    <3> QED BY <2>3, <3>1 DEF E, B
  <2> QED BY <2>2, <2>3
<1>11. \A x \in Entity \ {e} : Same(d, h, x)
  <2> SUFFICES ASSUME NEW x \in Entity, x # e PROVE Same(d, h, x)
    OBVIOUS
  <2>1. Q(h, x) = Q(d, x)
    BY <1>7 DEF Q
  <2>2. \A f1 \in Field : E(h, f1, x) = E(d, f1, x) /\ B(h, f1, x) = B(d, f1, x)
    BY <1>10
  <2> QED BY <1>7, <1>9, <2>1, <2>2 DEF Same
<1>14. n = d.observers[e][f] - E(d, f, e) - B(d, f, e)
  BY DEF n
<1> QED BY <1>7, <1>9, <1>10, <1>11, <1>14 DEF Moves

\* Two moves of an Entity are one.
LEMMA MovesTwice ==
  ASSUME NEW d, NEW h, NEW k, NEW e, Moves(d, h, e), Moves(h, k, e)
  PROVE  Moves(d, k, e)
<1>1. ASSUME NEW x \in Entity \ {e} PROVE Same(d, k, x)
  <2>1. Same(d, h, x) /\ Same(h, k, x)
    BY DEF Moves
  <2> QED BY <2>1 DEF Same
<1> QED BY <1>1 DEF Moves

\* A field that is told, and observes as often as it owns, owns nothing of the
\* Entity any more but a place in the queue.
LEMMA Told ==
  ASSUME NEW d \in World, NEW e \in Entity, NEW f \in Field, NEW h, h = told(d, e, f)
  PROVE  /\ Moves(d, h, e)
         /\ h.w[e] = d.w[e]
         /\ \A f1 \in (Field \cup {Gone}) \ {f} : h.observers[e][f1] = d.observers[e][f1]
         /\ \A f1 \in Field \ {f} : E(h, f1, e) = E(d, f1, e) /\ B(h, f1, e) = B(d, f1, e)
         /\ d.observers[e][f] = E(d, f, e) + B(d, f, e) + (IF f = Dock THEN Q(d, e) ELSE 0)
              => /\ E(h, f, e) = 0 /\ B(h, f, e) = 0
                 /\ h.observers[e][f] = (IF f = Dock THEN Q(d, e) ELSE 0)
<1>1. E(d, f, e) \in Nat /\ B(d, f, e) \in Nat /\ Q(d, e) \in Nat
  BY Counts
<1>2. CASE d.observers[e][f] > 0
  <2>1. h = unlink(d, e, f)
    BY <1>2 DEF told
  <2> QED BY <1>1, <2>1, Unlink
<1>3. CASE ~(d.observers[e][f] > 0)
  <2>1. h = d
    BY <1>3 DEF told
  <2>2. Moves(d, h, e)
    BY <2>1 DEF Moves, Same
  <2>3. d.observers[e][f] = E(d, f, e) + B(d, f, e) + (IF f = Dock THEN Q(d, e) ELSE 0)
          => /\ E(d, f, e) = 0 /\ B(d, f, e) = 0
             /\ d.observers[e][f] = (IF f = Dock THEN Q(d, e) ELSE 0)
    <3>1. ASSUME d.observers[e][f] = E(d, f, e) + B(d, f, e) + (IF f = Dock THEN Q(d, e) ELSE 0)
          PROVE  /\ E(d, f, e) = 0 /\ B(d, f, e) = 0
                 /\ d.observers[e][f] = (IF f = Dock THEN Q(d, e) ELSE 0)
      <4>1. CASE f = Dock
        BY <1>1, <1>3, <3>1, <4>1
      <4>2. CASE f # Dock
        BY <1>1, <1>3, <3>1, <4>2
      <4> QED BY <4>1, <4>2
    <3> QED BY <3>1
  <2> QED BY <2>1, <2>2, <2>3
<1> QED BY <1>2, <1>3

\* What a field owns is what its lists have.
LEMMA OwnsIs ==
  ASSUME NEW d, NEW f, NEW e
  PROVE  Owns(d, f, e) = E(d, f, e) + B(d, f, e) + (IF f = Dock THEN Q(d, e) ELSE 0)
  BY DEF Owns, E, B, Q

\* Every field observes an Entity as often as it owns it.
Watched(d, e) == \A f \in Field : d.observers[e][f] = Owns(d, f, e)

\* No list but the queue has it, and nobody but the Docker observes it for that.
Cleared(d, e) ==
  \A f \in Field : /\ E(d, f, e) = 0 /\ B(d, f, e) = 0
                   /\ d.observers[e][f] = (IF f = Dock THEN Q(d, e) ELSE 0)

\* TransitEvent and ~Observable reach every field that has it.
LEMMA Notify ==
  ASSUME NEW d \in World, NEW e \in Entity, NEW h, h = notify(d, e)
  PROVE  /\ Moves(d, h, e)
         /\ h.w[e] = d.w[e] /\ h.observers[e][Gone] = d.observers[e][Gone]
         /\ ~h.astray => ~(d.observers[e][Gone] > 0)
         /\ Watched(d, e) => Cleared(h, e)
<1> DEFINE b == d.astray \/ d.observers[e][Gone] > 0
<1>1. b \in BOOLEAN
  BY Parts
<1>2. PICK k : k = [d EXCEPT !.astray = b]
  OBVIOUS
<1> HIDE DEF b
<1>3. /\ k \in World
      /\ k.w = d.w /\ k.observers = d.observers /\ k.el = d.el /\ k.bl = d.bl
      /\ k.live = d.live /\ k.undockque = d.undockque /\ k.bubble = d.bubble
      /\ k.astray = b /\ \A x : Same(d, k, x)
  <2>1. PICK c \in BOOLEAN : c = b
    BY <1>1
  <2>2. k = [d EXCEPT !.astray = c]
    BY <1>2, <2>1
  <2>3. /\ k \in World
        /\ k.w = d.w /\ k.observers = d.observers /\ k.el = d.el /\ k.bl = d.bl
        /\ k.live = d.live /\ k.undockque = d.undockque /\ k.bubble = d.bubble
        /\ k.astray = c
    BY <2>2 DEF World
  <2> QED BY <2>1, <2>3 DEF Same, E, B, Q
<1>4. Moves(d, k, e)
  BY <1>3 DEF Moves, b
<1>5. /\ Home \in Field /\ Outer \in Field /\ Bubble \in Field /\ Dock \in Field
      /\ Home # Outer /\ Home # Bubble /\ Home # Dock /\ Outer # Bubble /\ Outer # Dock
      /\ Bubble # Dock /\ Gone \notin Field
      /\ \A f \in Field : f = Home \/ f = Outer \/ f = Bubble \/ f = Dock
  BY FieldsAssumption DEF Field
<1>6. PICK h1, h2, h3 : h1 = told(k, e, Home) /\ h2 = told(h1, e, Outer)
                        /\ h3 = told(h2, e, Bubble)
  OBVIOUS
<1>7. h = told(h3, e, Dock)
  BY <1>2, <1>6 DEF notify, b
<1> DEFINE Count(m, f) == E(m, f, e) + B(m, f, e) + (IF f = Dock THEN Q(m, e) ELSE 0)
           Changed(m, n, f) ==
             /\ n \in World /\ Moves(m, n, e) /\ n.w[e] = m.w[e]
             /\ \A f1 \in (Field \cup {Gone}) \ {f} : n.observers[e][f1] = m.observers[e][f1]
             /\ \A f1 \in Field \ {f} : E(n, f1, e) = E(m, f1, e) /\ B(n, f1, e) = B(m, f1, e)
             /\ Q(n, e) = Q(m, e)
             /\ m.observers[e][f] = Count(m, f)
                  => /\ E(n, f, e) = 0 /\ B(n, f, e) = 0
                     /\ n.observers[e][f] = (IF f = Dock THEN Q(m, e) ELSE 0)
<1>8. ASSUME NEW m \in World, NEW f \in Field, NEW n, n = told(m, e, f)
      PROVE  Changed(m, n, f)
  <2>1. Moves(m, n, e)
    BY <1>8, Told
  <2>2. n \in World /\ Q(n, e) = Q(m, e)
    BY <2>1 DEF Moves, Q
  <2> QED BY <1>8, <2>1, <2>2, Told
<1> HIDE DEF Changed
<1>9. Changed(k, h1, Home)
  BY <1>3, <1>5, <1>6, <1>8
<1>10. h1 \in World
  BY <1>9 DEF Changed
<1>11. Changed(h1, h2, Outer)
  BY <1>5, <1>6, <1>8, <1>10
<1>12. h2 \in World
  BY <1>11 DEF Changed
<1>13. Changed(h2, h3, Bubble)
  BY <1>5, <1>6, <1>8, <1>12
<1>14. h3 \in World
  BY <1>13 DEF Changed
<1>15. Changed(h3, h, Dock)
  BY <1>5, <1>7, <1>8, <1>14
<1>16. Moves(d, h1, e)
  BY <1>4, <1>9, MovesTwice DEF Changed
<1>17. Moves(d, h2, e)
  BY <1>11, <1>16, MovesTwice DEF Changed
<1>18. Moves(d, h3, e)
  BY <1>13, <1>17, MovesTwice DEF Changed
<1>19. Moves(d, h, e)
  BY <1>15, <1>18, MovesTwice DEF Changed
<1>20. h.w[e] = d.w[e] /\ h.observers[e][Gone] = d.observers[e][Gone]
  BY <1>3, <1>5, <1>9, <1>11, <1>13, <1>15 DEF Changed
<1>21. ~h.astray => ~(d.observers[e][Gone] > 0)
  <2>1. k.astray => h.astray
    BY <1>9, <1>11, <1>13, <1>15 DEF Changed, Moves
  <2> QED BY <1>3, <2>1 DEF b
<1>22. ASSUME Watched(d, e) PROVE Cleared(h, e)
  <2>1. \A f \in Field : k.observers[e][f] = Count(k, f)
    BY <1>3, <1>22, OwnsIs DEF Watched, Same
  <2>2. h.undockque = d.undockque
    BY <1>19 DEF Moves
  <2>3. Q(h, e) = Q(d, e) /\ Q(h3, e) = Q(k, e) /\ Q(k, e) = Q(d, e)
    BY <1>3, <1>9, <1>11, <1>13, <2>2 DEF Q, Changed
  <2>4. E(h, Home, e) = 0 /\ B(h, Home, e) = 0 /\ h.observers[e][Home] = 0
    <3>1. E(h1, Home, e) = 0 /\ B(h1, Home, e) = 0 /\ h1.observers[e][Home] = 0
      BY <1>5, <1>9, <2>1 DEF Changed
    <3> QED BY <1>5, <1>11, <1>13, <1>15, <3>1 DEF Changed
  <2>5. E(h, Outer, e) = 0 /\ B(h, Outer, e) = 0 /\ h.observers[e][Outer] = 0
    <3>1. h1.observers[e][Outer] = Count(h1, Outer)
      BY <1>5, <1>9, <2>1 DEF Changed
    <3>2. E(h2, Outer, e) = 0 /\ B(h2, Outer, e) = 0 /\ h2.observers[e][Outer] = 0
      BY <1>5, <1>11, <3>1 DEF Changed
    <3> QED BY <1>5, <1>13, <1>15, <3>2 DEF Changed
  <2>6. E(h, Bubble, e) = 0 /\ B(h, Bubble, e) = 0 /\ h.observers[e][Bubble] = 0
    <3>1. h2.observers[e][Bubble] = Count(h2, Bubble)
      BY <1>5, <1>9, <1>11, <2>1 DEF Changed
    <3>2. E(h3, Bubble, e) = 0 /\ B(h3, Bubble, e) = 0 /\ h3.observers[e][Bubble] = 0
      BY <1>5, <1>13, <3>1 DEF Changed
    <3> QED BY <1>5, <1>15, <3>2 DEF Changed
  <2>7. E(h, Dock, e) = 0 /\ B(h, Dock, e) = 0 /\ h.observers[e][Dock] = Q(h, e)
    <3>1. h3.observers[e][Dock] = Count(h3, Dock)
      BY <1>5, <1>9, <1>11, <1>13, <2>1 DEF Changed
    <3> QED BY <1>5, <1>15, <2>3, <3>1 DEF Changed
  <2> QED BY <1>5, <2>4, <2>5, <2>6, <2>7 DEF Cleared
<1> QED BY <1>19, <1>20, <1>21, <1>22

\* ~Entity.
LEMMA Delete ==
  ASSUME NEW d \in World, NEW e \in Entity, NEW h, h = delete(d, e)
  PROVE  /\ h \in World
         /\ h.live = d.live \ {e} /\ h.undockque = d.undockque /\ h.bubble = d.bubble
         /\ \A x \in Entity \ {e} : Same(d, h, x)
         /\ \A f \in Field \cup {Gone} : h.observers[e][f] = 0
         /\ Watched(d, e) => \A f \in Field : E(h, f, e) = 0 /\ B(h, f, e) = 0
         /\ d.astray => h.astray
         /\ ~h.astray => e \in d.live /\ d.w[e] # Gone
<1>1. PICK k : k = notify(d, e)
  OBVIOUS
<1>2. Moves(d, k, e)
  BY <1>1, Notify
<1>3. Watched(d, e) => Cleared(k, e)
  BY <1>1, Notify
<1>4. k \in World
  BY <1>2 DEF Moves
<1> DEFINE a == k.astray \/ d.w[e] = Gone \/ e \notin d.live
<1>5. h = [k EXCEPT !.live = k.live \ {e}, !.astray = a,
                    !.w = [k.w EXCEPT ![e] = NULL],
                    !.observers = [k.observers EXCEPT ![e] = NoObservers]]
  BY <1>1, <1>4 DEF delete, World
<1>6. /\ k.live \in SUBSET Entity /\ k.w \in [Entity -> Field \cup {Gone, NULL}]
      /\ k.observers \in [Entity -> [Field \cup {Gone} -> Int]]
      /\ k.astray \in BOOLEAN
  BY <1>4, Parts
<1>7. a \in BOOLEAN
  BY <1>6
<1>8. PICK w1 \in [Entity -> Field \cup {Gone, NULL}] : w1 = [k.w EXCEPT ![e] = NULL]
  BY <1>6
<1>9. NoObservers \in [Field \cup {Gone} -> Int]
      /\ \A f \in Field \cup {Gone} : NoObservers[f] = 0
  BY DEF NoObservers
<1>10. PICK o1 \in [Entity -> [Field \cup {Gone} -> Int]] :
         o1 = [k.observers EXCEPT ![e] = NoObservers]
  BY <1>6, <1>9
<1>11. PICK l1 \in SUBSET Entity : l1 = k.live \ {e}
  BY <1>6
<1> HIDE DEF a
<1>12. h = [k EXCEPT !.live = l1, !.astray = a, !.w = w1, !.observers = o1]
  BY <1>5, <1>8, <1>10, <1>11
<1>13. h \in World
  BY <1>4, <1>7, <1>12 DEF World
<1>14. /\ h.live = l1 /\ h.w = w1 /\ h.observers = o1 /\ h.astray = a
       /\ h.el = k.el /\ h.bl = k.bl /\ h.undockque = k.undockque /\ h.bubble = k.bubble
  BY <1>4, <1>12 DEF World
<1>15. /\ \A f, x : E(h, f, x) = E(k, f, x) /\ B(h, f, x) = B(k, f, x)
       /\ \A x : Q(h, x) = Q(k, x)
  BY <1>14 DEF E, B, Q
<1>16. ASSUME NEW x \in Entity \ {e} PROVE Same(d, h, x)
  <2>1. Same(d, k, x)
    BY <1>2 DEF Moves
  <2>2. h.w[x] = k.w[x] /\ h.observers[x] = k.observers[x] /\ (x \in h.live <=> x \in k.live)
    BY <1>6, <1>8, <1>10, <1>11, <1>14
  <2> QED BY <1>15, <2>1, <2>2 DEF Same
<1>17. h.observers[e] = NoObservers
  BY <1>6, <1>10, <1>14
<1>18. ~h.astray => e \in d.live /\ d.w[e] # Gone
  BY <1>14 DEF a
<1>19. d.astray => h.astray
  BY <1>2, <1>14 DEF a, Moves
<1> QED BY <1>2, <1>3, <1>9, <1>11, <1>13, <1>14, <1>15, <1>16, <1>17, <1>18, <1>19
        DEF Moves, Cleared

\* What is true of an Entity in a world that is not astray.
Fine(d, e) ==
  /\ e \in d.live =>
       /\ d.w[e] \in Field \cup {Gone} /\ Watched(d, e)
       /\ \A f \in Field : Owns(d, f, e) = IF d.w[e] = f THEN 1 ELSE 0
       /\ d.w[e] = Dock => e \in Fighter
       /\ e = Yard => d.w[e] # Gone
  /\ e \notin d.live =>
       /\ \A f \in Field : E(d, f, e) = 0 /\ B(d, f, e) = 0 /\ d.observers[e][f] = 0
  /\ \A f \in Field : B(d, f, e) > 0 => e \in Shot
  /\ d.observers[e][Gone] >= 0
  /\ d.bubble = "marked" => E(d, Bubble, e) = 0

Whole(d) == d \in World /\ (~d.astray => \A e \in Entity : Fine(d, e))

\* Nothing changes about those that are not concerned.
LEMMA SameFine ==
  ASSUME NEW d, NEW h, NEW e, Same(d, h, e), Fine(d, e),
         h.bubble = "marked" => d.bubble = "marked"
  PROVE  Fine(h, e)
<1>1. \A f \in Field : Owns(h, f, e) = Owns(d, f, e)
  BY OwnsIs DEF Same
<1>2. Watched(d, e) => Watched(h, e)
  BY <1>1 DEF Same, Watched
<1>3. Bubble \in Field
  BY DEF Field
<1> QED BY <1>1, <1>2, <1>3 DEF Same, Fine

\* A step of one Entity keeps a world whole if it is fine after it.
LEMMA MovesWhole ==
  ASSUME NEW d, NEW h, NEW e \in Entity, Moves(d, h, e), Whole(d),
         ~h.astray => Fine(h, e)
  PROVE  Whole(h)
<1> SUFFICES ASSUME ~h.astray, NEW x \in Entity PROVE Fine(h, x)
  BY DEF Moves, Whole
<1>1. CASE x = e
  BY <1>1
<1>2. CASE x # e
  <2>1. Same(d, h, x) /\ Fine(d, x) /\ h.bubble = d.bubble
    BY <1>2 DEF Moves, Whole
  <2> QED BY <2>1, SameFine
<1> QED BY <1>1, <1>2

-----------------------------------------------------------------------------
(* The operations *)

\* The fields.
LEMMA FieldsAre ==
  /\ Home \in Field /\ Outer \in Field /\ Bubble \in Field /\ Dock \in Field
  /\ Home # Outer /\ Home # Bubble /\ Home # Dock /\ Outer # Bubble /\ Outer # Dock
  /\ Bubble # Dock /\ Gone \notin Field
  /\ \A f \in Field : f = Home \/ f = Outer \/ f = Bubble \/ f = Dock
  BY FieldsAssumption DEF Field

\* The entities.
LEMMA EntitiesAre ==
  /\ Yard \in Entity /\ Yard \notin Fighter /\ Yard \notin Shot
  /\ Fighter \subseteq Entity /\ Shot \subseteq Entity /\ Fighter \cap Shot = {}
  /\ \A e \in Entity : e = Yard \/ e \in Fighter \/ e \in Shot
  BY FieldsAssumption DEF Entity

\* ~Entity keeps a world whole.
LEMMA DeleteWhole ==
  ASSUME NEW d, Whole(d), NEW e \in Entity, NEW h, h = delete(d, e)
  PROVE  Whole(h)
<1>1. d \in World
  BY DEF Whole
<1>2. /\ h \in World
      /\ h.live = d.live \ {e} /\ h.bubble = d.bubble
      /\ \A x \in Entity \ {e} : Same(d, h, x)
      /\ \A f \in Field \cup {Gone} : h.observers[e][f] = 0
      /\ Watched(d, e) => \A f \in Field : E(h, f, e) = 0 /\ B(h, f, e) = 0
      /\ d.astray => h.astray
      /\ ~h.astray => e \in d.live /\ d.w[e] # Gone
  BY <1>1, Delete
<1> SUFFICES ASSUME ~h.astray, NEW x \in Entity PROVE Fine(h, x)
  BY <1>2 DEF Whole
<1>3. \A y \in Entity : Fine(d, y)
  BY <1>2 DEF Whole
<1>4. CASE x = e
  <2>1. Watched(d, e)
    BY <1>2, <1>3 DEF Fine
  <2>2. /\ \A f \in Field : E(h, f, e) = 0 /\ B(h, f, e) = 0 /\ h.observers[e][f] = 0
        /\ h.observers[e][Gone] = 0 /\ e \notin h.live
    BY <1>2, <2>1
  <2> QED BY <1>4, <2>2, FieldsAre DEF Fine
<1>5. CASE x # e
  BY <1>2, <1>3, <1>5, SameFine
<1> QED BY <1>4, <1>5

\* Nobody has it.
Absent(d, e) ==
  /\ e \in d.live /\ Q(d, e) = 0 /\ d.observers[e][Gone] >= 0
  /\ \A f \in Field : E(d, f, e) = 0 /\ B(d, f, e) = 0 /\ d.observers[e][f] = 0

\* What nobody has is fine where it is added.
LEMMA AddentFine ==
  ASSUME NEW d \in World, NEW e \in Entity, Absent(d, e), NEW f \in Field,
         f = Dock => e \in Fighter, d.bubble = "marked" => f # Bubble,
         NEW h, h = addent(d, e, f)
  PROVE  Fine(h, e)
<1>1. /\ Moves(d, h, e)
      /\ h.w[e] = f
      /\ \A f1 \in Field \cup {Gone} :
           h.observers[e][f1] = d.observers[e][f1] + (IF f1 = f THEN 1 ELSE 0)
      /\ \A f1 \in Field :
           /\ E(h, f1, e) = E(d, f1, e) + (IF f1 = f /\ e \notin Shot THEN 1 ELSE 0)
           /\ B(h, f1, e) = B(d, f1, e) + (IF f1 = f /\ e \in Shot THEN 1 ELSE 0)
  BY Addent
<1>2. Q(h, e) = 0 /\ e \in h.live /\ h.bubble = d.bubble
  BY <1>1 DEF Absent, Moves, Q
<1>3. ASSUME NEW f1 \in Field
      PROVE  /\ Owns(h, f1, e) = (IF f1 = f THEN 1 ELSE 0)
             /\ h.observers[e][f1] = Owns(h, f1, e)
             /\ B(h, f1, e) > 0 => e \in Shot
             /\ f1 # f => E(h, f1, e) = 0
  <2>1. E(d, f1, e) = 0 /\ B(d, f1, e) = 0 /\ d.observers[e][f1] = 0
    BY DEF Absent
  <2>2. h.observers[e][f1] = (IF f1 = f THEN 1 ELSE 0)
    BY <1>1, <2>1
  <2>3. CASE e \in Shot
    <3>1. E(h, f1, e) = 0 /\ B(h, f1, e) = (IF f1 = f THEN 1 ELSE 0)
      BY <1>1, <2>1, <2>3
    <3> QED BY <1>2, <2>2, <2>3, <3>1, OwnsIs
  <2>4. CASE e \notin Shot
    <3>1. B(h, f1, e) = 0 /\ E(h, f1, e) = (IF f1 = f THEN 1 ELSE 0)
      BY <1>1, <2>1, <2>4
    <3> QED BY <1>2, <2>2, <3>1, OwnsIs
  <2> QED BY <2>3, <2>4
<1>4. h.observers[e][Gone] >= 0
  <2>1. Gone \in Field \cup {Gone} /\ d.observers[e][Gone] \in Int
    <3>1. d.observers \in [Entity -> [Field \cup {Gone} -> Int]]
      BY Parts
    <3> QED BY <3>1
  <2>2. h.observers[e][Gone] = d.observers[e][Gone] + 0
    BY <1>1, FieldsAre
  <2> QED BY <2>1, <2>2 DEF Absent
<1>5. Watched(h, e)
  BY <1>3 DEF Watched
<1>6. h.bubble = "marked" => E(h, Bubble, e) = 0
  BY <1>2, <1>3, FieldsAre
<1> QED BY <1>1, <1>2, <1>3, <1>4, <1>5, <1>6, FieldsAre DEF Fine

\* A new Entity is where it was made, and all is well.
LEMMA CreateWhole ==
  ASSUME NEW d, Whole(d), NEW e \in Entity, e \notin d.live, Q(d, e) = 0, NEW f \in Field,
         ~d.astray => f # Dock /\ (d.bubble = "marked" => f # Bubble),
         NEW h, h = create(d, e, f)
  PROVE  /\ Whole(h)
         /\ h.live = d.live \cup {e} /\ h.w[e] = f
         /\ \A x \in Entity \ {e} : h.w[x] = d.w[x]
         /\ d.astray => h.astray /\ h.bubble = d.bubble /\ h.undockque = d.undockque
<1>1. d \in World
  BY DEF Whole
<1>2. PICK l \in SUBSET Entity : l = d.live \cup {e}
  BY <1>1, Parts
<1>3. PICK k : k = [d EXCEPT !.live = l]
  OBVIOUS
<1>4. /\ k \in World
      /\ k.w = d.w /\ k.observers = d.observers /\ k.el = d.el /\ k.bl = d.bl
      /\ k.live = l /\ k.undockque = d.undockque /\ k.bubble = d.bubble
      /\ k.astray = d.astray
  BY <1>1, <1>3 DEF World
<1>5. h = addent(k, e, f)
  BY <1>2, <1>3 DEF create
<1>6. /\ Moves(k, h, e) /\ h.w[e] = f
  BY <1>4, <1>5, Addent
<1>7. ASSUME NEW x \in Entity \ {e} PROVE Same(d, h, x)
  <2>1. Same(k, h, x)
    BY <1>6 DEF Moves
  <2> QED BY <1>2, <1>4, <2>1 DEF Same, E, B, Q
<1>8. ASSUME ~h.astray PROVE Fine(h, e)
  <2>1. Fine(d, e)
    BY <1>4, <1>6, <1>8 DEF Moves, Whole
  <2>2. Absent(k, e)
    BY <1>2, <1>4, <2>1 DEF Fine, Absent, E, B, Q
  <2>3. ~d.astray
    BY <1>4, <1>6, <1>8 DEF Moves
  <2> QED BY <1>4, <1>5, <2>2, <2>3, AddentFine
<1>9. ASSUME ~h.astray, NEW x \in Entity \ {e} PROVE Fine(h, x)
  <2>1. Fine(d, x)
    BY <1>4, <1>6, <1>9 DEF Moves, Whole
  <2>2. h.bubble = d.bubble
    BY <1>4, <1>6 DEF Moves
  <2> QED BY <1>7, <2>1, <2>2, SameFine
<1>10. Whole(h)
  BY <1>6, <1>8, <1>9 DEF Whole, Moves
<1> QED BY <1>2, <1>4, <1>6, <1>7, <1>10 DEF Moves, Same

\* A fighter docks from another field.
LEMMA DockWhole ==
  ASSUME NEW d, Whole(d), NEW e \in Fighter, ~d.astray => e \in d.live /\ d.w[e] # Dock,
         NEW h, h = dock(d, e)
  PROVE  /\ Whole(h) /\ Moves(d, h, e)
<1>1. d \in World /\ e \in Entity
  BY EntitiesAre DEF Whole
<1>2. PICK k : k = notify(d, e)
  OBVIOUS
<1>3. /\ Moves(d, k, e)
      /\ k.w[e] = d.w[e] /\ k.observers[e][Gone] = d.observers[e][Gone]
      /\ Watched(d, e) => Cleared(k, e)
  BY <1>1, <1>2, Notify
<1>4. k \in World
  BY <1>3 DEF Moves
<1>5. h = addent(k, e, Dock)
  BY <1>2 DEF dock
<1>6. Moves(k, h, e)
  BY <1>1, <1>4, <1>5, FieldsAre, Addent
<1>7. Moves(d, h, e)
  BY <1>3, <1>6, MovesTwice
<1>8. ASSUME ~h.astray PROVE Fine(h, e)
  <2>1. ~d.astray
    BY <1>7, <1>8 DEF Moves
  <2>2. Fine(d, e) /\ e \in d.live /\ d.w[e] # Dock
    BY <1>1, <2>1 DEF Whole
  <2>3. Owns(d, Dock, e) = 0 /\ Watched(d, e)
    BY <2>2, FieldsAre DEF Fine
  <2>4. Q(d, e) = 0
    <3>1. E(d, Dock, e) \in Nat /\ B(d, Dock, e) \in Nat /\ Q(d, e) \in Nat
      BY <1>1, Counts, FieldsAre
    <3> QED BY <2>3, <3>1, OwnsIs
  <2>5. Q(k, e) = 0 /\ e \in k.live /\ k.bubble = d.bubble
    BY <1>3, <2>2, <2>4 DEF Moves, Q
  <2>6. Absent(k, e)
    BY <1>3, <2>2, <2>3, <2>5 DEF Cleared, Absent, Fine
  <2> QED BY <1>1, <1>4, <1>5, <2>6, FieldsAre, AddentFine
<1> QED BY <1>1, <1>7, <1>8, MovesWhole

\* What w points to lets go of it, and it is added.
LEMMA Transit ==
  ASSUME NEW d \in World, NEW e \in Entity, NEW f \in Field, NEW h, h = transit_cs(d, e, f)
  PROVE  /\ Moves(d, h, e) /\ h.w[e] = f
         /\ d.w[e] \in Field => h.astray = d.astray
<1>1. CASE d.w[e] = f
  <2>1. h = d
    BY <1>1 DEF transit_cs
  <2> QED BY <1>1, <2>1 DEF Moves, Same
<1>2. CASE d.w[e] # f
  <2>1. PICK k : k = leave(d, e)
    OBVIOUS
  <2>2. h = addent(k, e, f)
    BY <1>2, <2>1 DEF transit_cs
  <2>3. Moves(d, k, e) /\ (d.w[e] \in Field => k.astray = d.astray)
    <3>1. CASE d.w[e] \in Field
      <4>1. k = unlink(d, e, d.w[e])
        BY <2>1, <3>1 DEF leave
      <4> QED BY <3>1, <4>1, Unlink
    <3>2. CASE d.w[e] \notin Field
      <4>1. k = [d EXCEPT !.astray = TRUE]
        BY <2>1, <3>2 DEF leave
      <4>2. /\ k \in World
            /\ k.w = d.w /\ k.observers = d.observers /\ k.el = d.el /\ k.bl = d.bl
            /\ k.live = d.live /\ k.undockque = d.undockque /\ k.bubble = d.bubble
            /\ k.astray
        BY <4>1 DEF World
      <4> QED BY <3>2, <4>2 DEF Moves, Same, E, B, Q
    <3> QED BY <3>1, <3>2
  <2>4. k \in World
    BY <2>3 DEF Moves
  <2>5. Moves(k, h, e) /\ h.w[e] = f /\ h.astray = k.astray
    BY <2>2, <2>4, Addent
  <2> QED BY <2>3, <2>5, MovesTwice
<1> QED BY <1>1, <1>2

\* One that is not in the queue goes over to another field.
LEMMA TransitWhole ==
  ASSUME NEW d, Whole(d), NEW e \in Entity, NEW f \in Field, f # Dock,
         d.bubble = "marked" => f # Bubble, ~d.astray => e \in d.live /\ Q(d, e) = 0,
         NEW h, h = transit_cs(d, e, f)
  PROVE  /\ Whole(h) /\ Moves(d, h, e) /\ h.w[e] = f
         /\ d.w[e] \in Field => h.astray = d.astray
<1>1. d \in World
  BY DEF Whole
<1>2. Moves(d, h, e) /\ h.w[e] = f /\ (d.w[e] \in Field => h.astray = d.astray)
  BY <1>1, Transit
<1>3. ASSUME ~h.astray PROVE Fine(h, e)
  <2>1. ~d.astray
    BY <1>2, <1>3 DEF Moves
  <2>2. Fine(d, e) /\ e \in d.live /\ Q(d, e) = 0
    BY <2>1 DEF Whole
  <2>3. CASE d.w[e] = f
    <3>1. h = d
      BY <2>3 DEF transit_cs
    <3> QED BY <2>2, <3>1
  <2>4. CASE d.w[e] # f
    <3>1. PICK k : k = leave(d, e)
      OBVIOUS
    <3>2. h = addent(k, e, f)
      BY <2>4, <3>1 DEF transit_cs
    <3>3. CASE d.w[e] \in Field
      <4>1. PICK g1 \in Field : g1 = d.w[e]
        BY <3>3
      <4>2. k = unlink(d, e, g1)
        BY <3>1, <4>1 DEF leave
      <4>3. /\ Moves(d, k, e)
            /\ E(k, g1, e) = 0 /\ B(k, g1, e) = 0
            /\ k.observers[e][g1] = d.observers[e][g1] - E(d, g1, e) - B(d, g1, e)
            /\ \A f1 \in (Field \cup {Gone}) \ {g1} : k.observers[e][f1] = d.observers[e][f1]
            /\ \A f1 \in Field \ {g1} : E(k, f1, e) = E(d, f1, e) /\ B(k, f1, e) = B(d, f1, e)
        BY <1>1, <4>2, Unlink
      <4>4. ASSUME NEW f1 \in Field
            PROVE  E(k, f1, e) = 0 /\ B(k, f1, e) = 0 /\ k.observers[e][f1] = 0
        <5>1. E(d, f1, e) \in Nat /\ B(d, f1, e) \in Nat
          BY <1>1, Counts
        <5>2. d.observers[e][f1] = Owns(d, f1, e)
          BY <2>2 DEF Fine, Watched
        <5>3. Owns(d, f1, e) = E(d, f1, e) + B(d, f1, e)
          BY <2>2, <5>1, OwnsIs
        <5>4. CASE f1 = g1
          BY <4>3, <5>1, <5>2, <5>3, <5>4
        <5>5. CASE f1 # g1
          <6>1. Owns(d, f1, e) = 0
            BY <2>2, <4>1, <5>5 DEF Fine
          <6> QED BY <4>3, <5>1, <5>2, <5>3, <5>5, <6>1
        <5> QED BY <5>4, <5>5
      <4>5. k \in World /\ e \in k.live /\ Q(k, e) = 0 /\ k.bubble = d.bubble
        BY <2>2, <4>3 DEF Moves, Q
      <4>6. k.observers[e][Gone] >= 0
        BY <2>2, <4>3, FieldsAre DEF Fine
      <4>7. Absent(k, e)
        BY <4>4, <4>5, <4>6 DEF Absent
      <4> QED BY <3>2, <4>5, <4>7, AddentFine
    <3>4. CASE d.w[e] \notin Field
      <4>1. k = [d EXCEPT !.astray = TRUE]
        BY <3>1, <3>4 DEF leave
      <4>2. k \in World /\ k.astray
        BY <1>1, <4>1 DEF World
      <4>3. Moves(k, h, e)
        BY <3>2, <4>2, Addent
      <4> QED BY <1>3, <4>2, <4>3 DEF Moves
    <3> QED BY <3>3, <3>4
  <2> QED BY <2>3, <2>4
<1> QED BY <1>2, <1>3, MovesWhole

\* A loop over worlds.
LEMMA WorldLoop ==
  ASSUME NEW d \in World, NEW l \in Nat, NEW step \in [1 .. l -> [World -> World]]
  PROVE  \E f \in [0 .. l -> World] :
           f[0] = d /\ \A i \in 1 .. l : f[i] = step[i][f[i - 1]]
  BY Iterated

\* The turns of a loop that moves a list to another field.
LEMMA TransitAllDef ==
  ASSUME NEW d \in World, NEW s \in Seq(Entity), NEW to \in Field
  PROVE  \E f :
           /\ f[0] = d /\ transitAll(d, s, to) = f[Len(s)]
           /\ \A n \in 0 .. Len(s) : f[n] \in World
           /\ \A n \in 1 .. Len(s) : f[n] = transit_cs(f[n - 1], s[n], to)
<1> DEFINE turn(q, x) == transit_cs(q, x, to)
           step == [n \in 1 .. Len(s) |-> [q \in World |-> turn(q, s[n])]]
           Run(f) == f = [n \in 0 .. Len(s) |->
                            IF n = 0 THEN d ELSE turn(f[n - 1], s[n])]
           loop == CHOOSE f : Run(f)
<1>1. \A q \in World, n \in 1 .. Len(s) : turn(q, s[n]) \in World
  BY Transit DEF Moves
<1>2. transitAll(d, s, to) = loop[Len(s)]
  BY DEF transitAll
<1>3. Len(s) \in Nat
  OBVIOUS
<1> HIDE DEF turn
<1>5. step \in [1 .. Len(s) -> [World -> World]]
      /\ \A q \in World, n \in 1 .. Len(s) : step[n][q] = turn(q, s[n])
  BY <1>1
<1> HIDE DEF step
<1>6. PICK l \in Nat : l = Len(s)
  BY <1>3
<1>7. step \in [1 .. l -> [World -> World]]
  BY <1>5, <1>6
<1>8. PICK f \in [0 .. l -> World] : f[0] = d /\ \A i \in 1 .. l : f[i] = step[i][f[i - 1]]
  BY <1>7, WorldLoop
<1>9. ASSUME NEW i \in 0 .. l, i # 0 PROVE step[i][f[i - 1]] = turn(f[i - 1], s[i])
  <2>1. i - 1 \in 0 .. l /\ i \in 1 .. Len(s)
    BY <1>6, <1>9
  <2> QED BY <1>5, <1>8, <2>1
<1>10. Run(f)
  BY <1>6, <1>8, <1>9
<1>11. Run(loop)
  BY <1>10
<1> HIDE DEF loop
<1>12. loop[0] = d /\ \A n \in 1 .. Len(s) : loop[n] = turn(loop[n - 1], s[n])
  BY <1>3, <1>11
<1> DEFINE N == {n \in Nat : n <= l => loop[n] \in World}
<1>13. 0 \in N
  BY <1>12
<1>14. ASSUME NEW n \in Nat, n \in N PROVE n + 1 \in N
  <2> SUFFICES ASSUME n + 1 <= l PROVE loop[n + 1] \in World
    OBVIOUS
  <2>1. n + 1 \in 1 .. Len(s) /\ (n + 1) - 1 = n /\ n <= l
    BY <1>6
  <2>2. loop[n] \in World /\ loop[n + 1] = turn(loop[n], s[n + 1])
    BY <1>12, <1>14, <2>1
  <2> QED BY <1>1, <2>1, <2>2
<1> HIDE DEF N
<1>15. Nat \subseteq N
  BY <1>13, <1>14, SetInduction
<1>16. \A n \in 0 .. Len(s) : loop[n] \in World
  BY <1>6, <1>15 DEF N
<1> QED BY <1>2, <1>12, <1>16 DEF turn

\* The turns of a loop that deletes a list.
LEMMA DeleteAllDef ==
  ASSUME NEW d \in World, NEW s \in Seq(Entity)
  PROVE  \E f :
           /\ f[0] = d /\ deleteAll(d, s) = f[Len(s)]
           /\ \A n \in 0 .. Len(s) : f[n] \in World
           /\ \A n \in 1 .. Len(s) : f[n] = delete(f[n - 1], s[n])
<1> DEFINE turn(q, x) == delete(q, x)
           step == [n \in 1 .. Len(s) |-> [q \in World |-> turn(q, s[n])]]
           Run(f) == f = [n \in 0 .. Len(s) |->
                            IF n = 0 THEN d ELSE turn(f[n - 1], s[n])]
           loop == CHOOSE f : Run(f)
<1>1. \A q \in World, n \in 1 .. Len(s) : turn(q, s[n]) \in World
  BY Delete
<1>2. deleteAll(d, s) = loop[Len(s)]
  BY DEF deleteAll
<1>3. Len(s) \in Nat
  OBVIOUS
<1> HIDE DEF turn
<1>5. step \in [1 .. Len(s) -> [World -> World]]
      /\ \A q \in World, n \in 1 .. Len(s) : step[n][q] = turn(q, s[n])
  BY <1>1
<1> HIDE DEF step
<1>6. PICK l \in Nat : l = Len(s)
  BY <1>3
<1>7. step \in [1 .. l -> [World -> World]]
  BY <1>5, <1>6
<1>8. PICK f \in [0 .. l -> World] : f[0] = d /\ \A i \in 1 .. l : f[i] = step[i][f[i - 1]]
  BY <1>7, WorldLoop
<1>9. ASSUME NEW i \in 0 .. l, i # 0 PROVE step[i][f[i - 1]] = turn(f[i - 1], s[i])
  <2>1. i - 1 \in 0 .. l /\ i \in 1 .. Len(s)
    BY <1>6, <1>9
  <2> QED BY <1>5, <1>8, <2>1
<1>10. Run(f)
  BY <1>6, <1>8, <1>9
<1>11. Run(loop)
  BY <1>10
<1> HIDE DEF loop
<1>12. loop[0] = d /\ \A n \in 1 .. Len(s) : loop[n] = turn(loop[n - 1], s[n])
  BY <1>3, <1>11
<1> DEFINE N == {n \in Nat : n <= l => loop[n] \in World}
<1>13. 0 \in N
  BY <1>12
<1>14. ASSUME NEW n \in Nat, n \in N PROVE n + 1 \in N
  <2> SUFFICES ASSUME n + 1 <= l PROVE loop[n + 1] \in World
    OBVIOUS
  <2>1. n + 1 \in 1 .. Len(s) /\ (n + 1) - 1 = n /\ n <= l
    BY <1>6
  <2>2. loop[n] \in World /\ loop[n + 1] = turn(loop[n], s[n + 1])
    BY <1>12, <1>14, <2>1
  <2> QED BY <1>1, <2>1, <2>2
<1> HIDE DEF N
<1>15. Nat \subseteq N
  BY <1>13, <1>14, SetInduction
<1>16. \A n \in 0 .. Len(s) : loop[n] \in World
  BY <1>6, <1>15 DEF N
<1> QED BY <1>2, <1>12, <1>16 DEF turn

\* All of a list go over, and nobody else moves.
LEMMA TransitAllWhole ==
  ASSUME NEW d, Whole(d), NEW s \in Seq(Entity), NEW to \in Field, to # Dock,
         d.bubble = "marked" => to # Bubble,
         ~d.astray => \A i \in 1 .. Len(s) : s[i] \in d.live /\ Q(d, s[i]) = 0,
         NEW h, h = transitAll(d, s, to)
  PROVE  /\ Whole(h)
         /\ h.live = d.live /\ h.undockque = d.undockque /\ h.bubble = d.bubble
         /\ d.astray => h.astray
         /\ (\A i \in 1 .. Len(s) : d.w[s[i]] \in Field) => h.astray = d.astray
         /\ \A i \in 1 .. Len(s) : h.w[s[i]] = to
         /\ \A x \in Entity : h.w[x] = d.w[x] \/ h.w[x] = to
         /\ \A x \in Entity : (\A i \in 1 .. Len(s) : s[i] # x) => Same(d, h, x)
<1>1. d \in World
  BY DEF Whole
<1>2. PICK f : /\ f[0] = d /\ h = f[Len(s)]
               /\ \A n \in 0 .. Len(s) : f[n] \in World
               /\ \A n \in 1 .. Len(s) : f[n] = transit_cs(f[n - 1], s[n], to)
  BY <1>1, TransitAllDef
<1> DEFINE Done(m, n) ==
             /\ Whole(m)
             /\ m.live = d.live /\ m.undockque = d.undockque /\ m.bubble = d.bubble
             /\ d.astray => m.astray
             /\ (\A i \in 1 .. Len(s) : d.w[s[i]] \in Field) => m.astray = d.astray
             /\ \A i \in 1 .. n : m.w[s[i]] = to
             /\ \A x \in Entity : m.w[x] = d.w[x] \/ m.w[x] = to
             /\ \A x \in Entity : (\A i \in 1 .. n : s[i] # x) => Same(d, m, x)
           N == {n \in Nat : n <= Len(s) => Done(f[n], n)}
<1>3. 0 \in N
  <2>1. \A x : Same(d, d, x)
    BY DEF Same
  <2> QED BY <1>2, <2>1
<1>4. ASSUME NEW n \in Nat, n \in N PROVE n + 1 \in N
  <2> SUFFICES ASSUME n + 1 <= Len(s) PROVE Done(f[n + 1], n + 1)
    OBVIOUS
  <2>1. n + 1 \in 1 .. Len(s) /\ (n + 1) - 1 = n /\ n <= Len(s) /\ s[n + 1] \in Entity
    OBVIOUS
  <2>2. PICK m : m = f[n]
    OBVIOUS
  <2>3. PICK k : k = f[n + 1]
    OBVIOUS
  <2>4. PICK e \in Entity : e = s[n + 1]
    BY <2>1
  <2>5. Done(m, n)
    BY <1>4, <2>1, <2>2
  <2>6. k = transit_cs(m, e, to)
    BY <1>2, <2>1, <2>2, <2>3, <2>4
  <2>7. ~m.astray => e \in m.live /\ Q(m, e) = 0
    <3>1. ~m.astray => ~d.astray
      BY <2>5
    <3>2. ~m.astray => e \in d.live /\ Q(d, e) = 0
      BY <2>1, <2>4, <3>1
    <3> QED BY <2>5, <3>2 DEF Q
  <2>8. /\ Whole(k) /\ Moves(m, k, e) /\ k.w[e] = to
        /\ m.w[e] \in Field => k.astray = m.astray
    BY <2>5, <2>6, <2>7, TransitWhole
  <2>9. \A x \in Entity \ {e} : k.w[x] = m.w[x]
    BY <2>8 DEF Moves, Same
  <2>10. ASSUME NEW i \in 1 .. n + 1 PROVE k.w[s[i]] = to
    <3>1. i \in 1 .. n \/ i = n + 1
      OBVIOUS
    <3>2. i \in 1 .. Len(s) /\ s[i] \in Entity
      BY <2>1
    <3> QED BY <2>4, <2>5, <2>8, <2>9, <3>1, <3>2
  <2>11. (\A i \in 1 .. Len(s) : d.w[s[i]] \in Field) => k.astray = d.astray
    <3>1. m.w[e] = d.w[e] \/ m.w[e] \in Field
      BY <2>5
    <3>2. (\A i \in 1 .. Len(s) : d.w[s[i]] \in Field) => d.w[e] \in Field
      BY <2>1, <2>4
    <3> QED BY <2>5, <2>8, <3>1, <3>2
  <2>12. \A x \in Entity : k.w[x] = d.w[x] \/ k.w[x] = to
    BY <2>5, <2>8, <2>9
  <2>13. ASSUME NEW x \in Entity, \A i \in 1 .. n + 1 : s[i] # x PROVE Same(d, k, x)
    <3>1. x # e /\ \A i \in 1 .. n : s[i] # x
      BY <2>1, <2>4, <2>13
    <3>2. Same(d, m, x) /\ Same(m, k, x)
      BY <2>5, <2>8, <3>1 DEF Moves
    <3> QED BY <3>2 DEF Same
  <2>14. Whole(k) /\ k.live = d.live /\ k.undockque = d.undockque /\ k.bubble = d.bubble
         /\ (d.astray => k.astray)
    BY <2>5, <2>8 DEF Moves
  <2> QED BY <2>3, <2>10, <2>11, <2>12, <2>13, <2>14
<1> HIDE DEF N, Done
<1>5. Nat \subseteq N
  BY <1>3, <1>4, SetInduction
<1>6. Len(s) \in Nat
  OBVIOUS
<1>7. Done(h, Len(s))
  BY <1>2, <1>5, <1>6 DEF N
<1> QED BY <1>7 DEF Done

\* All of a list are deleted.
LEMMA DeleteAllWhole ==
  ASSUME NEW d, Whole(d), NEW s \in Seq(Entity), NEW h, h = deleteAll(d, s)
  PROVE  /\ Whole(h)
         /\ h.undockque = d.undockque /\ h.bubble = d.bubble
         /\ d.astray => h.astray
<1>1. d \in World
  BY DEF Whole
<1>2. PICK f : /\ f[0] = d /\ h = f[Len(s)]
               /\ \A n \in 0 .. Len(s) : f[n] \in World
               /\ \A n \in 1 .. Len(s) : f[n] = delete(f[n - 1], s[n])
  BY <1>1, DeleteAllDef
<1> DEFINE Done(m) == /\ Whole(m) /\ m.undockque = d.undockque /\ m.bubble = d.bubble
                      /\ d.astray => m.astray
           N == {n \in Nat : n <= Len(s) => Done(f[n])}
<1>3. 0 \in N
  BY <1>2
<1>4. ASSUME NEW n \in Nat, n \in N PROVE n + 1 \in N
  <2> SUFFICES ASSUME n + 1 <= Len(s) PROVE Done(f[n + 1])
    OBVIOUS
  <2>1. n + 1 \in 1 .. Len(s) /\ (n + 1) - 1 = n /\ n <= Len(s) /\ s[n + 1] \in Entity
    OBVIOUS
  <2>2. PICK m : m = f[n]
    OBVIOUS
  <2>3. PICK k : k = f[n + 1]
    OBVIOUS
  <2>4. PICK e \in Entity : e = s[n + 1]
    BY <2>1
  <2>5. Done(m) /\ m \in World
    BY <1>4, <2>1, <2>2 DEF Whole
  <2>6. k = delete(m, e)
    BY <1>2, <2>1, <2>2, <2>3, <2>4
  <2>7. /\ Whole(k) /\ k.undockque = m.undockque /\ k.bubble = m.bubble
        /\ m.astray => k.astray
    BY <2>5, <2>6, DeleteWhole, Delete
  <2> QED BY <2>3, <2>5, <2>7
<1> HIDE DEF N, Done
<1>5. Nat \subseteq N
  BY <1>3, <1>4, SetInduction
<1>6. Len(s) \in Nat
  OBVIOUS
<1>7. Done(h)
  BY <1>2, <1>5, <1>6 DEF N
<1> QED BY <1>7 DEF Done

\* Where an Entity is listed, there it lives, once.
LEMMA Listed ==
  ASSUME NEW d \in World, NEW e \in Entity, Fine(d, e), NEW f \in Field
  PROVE  /\ E(d, f, e) > 0 => /\ e \in d.live /\ d.w[e] = f /\ Q(d, e) = 0
                              /\ E(d, f, e) = 1 /\ B(d, f, e) = 0
         /\ e \in d.live /\ Q(d, e) > 0
              => /\ d.w[e] = Dock /\ Q(d, e) = 1
                 /\ E(d, Dock, e) = 0 /\ B(d, Dock, e) = 0
         /\ e \in d.live /\ d.w[e] # f => E(d, f, e) = 0 /\ B(d, f, e) = 0
<1>1. /\ \A f1 \in Field : E(d, f1, e) \in Nat /\ B(d, f1, e) \in Nat
      /\ Q(d, e) \in Nat
  BY Counts
<1>2. \A f1 \in Field : Owns(d, f1, e) = E(d, f1, e) + B(d, f1, e)
                                           + (IF f1 = Dock THEN Q(d, e) ELSE 0)
  BY OwnsIs
<1>3. e \in d.live => \A f1 \in Field : Owns(d, f1, e) = IF d.w[e] = f1 THEN 1 ELSE 0
  BY DEF Fine
<1>4. e \notin d.live => E(d, f, e) = 0
  BY DEF Fine
<1>5. e \in d.live /\ d.w[e] # f => E(d, f, e) = 0 /\ B(d, f, e) = 0
  BY <1>1, <1>2, <1>3
<1>6. e \in d.live /\ d.w[e] # Dock => Q(d, e) = 0
  <2>1. Dock \in Field /\ Owns(d, Dock, e) = E(d, Dock, e) + B(d, Dock, e) + Q(d, e)
        /\ E(d, Dock, e) \in Nat /\ B(d, Dock, e) \in Nat
    BY <1>1, <1>2, FieldsAre
  <2>2. e \in d.live /\ d.w[e] # Dock => Owns(d, Dock, e) = 0
    BY <1>3, <2>1
  <2> QED BY <1>1, <2>1, <2>2
<1>7. ASSUME E(d, f, e) > 0
      PROVE  /\ e \in d.live /\ d.w[e] = f /\ Q(d, e) = 0
             /\ E(d, f, e) = 1 /\ B(d, f, e) = 0
  <2>1. e \in d.live /\ d.w[e] = f
    BY <1>1, <1>4, <1>5, <1>7
  <2>2. CASE f = Dock
    BY <1>1, <1>2, <1>3, <1>7, <2>1, <2>2
  <2>3. CASE f # Dock
    <3>1. Q(d, e) = 0
      BY <1>6, <2>1, <2>3
    <3> QED BY <1>1, <1>2, <1>3, <1>7, <2>1, <2>3, <3>1
  <2> QED BY <2>2, <2>3
<1>8. ASSUME e \in d.live, Q(d, e) > 0
      PROVE  /\ d.w[e] = Dock /\ Q(d, e) = 1
             /\ E(d, Dock, e) = 0 /\ B(d, Dock, e) = 0
  <2>1. d.w[e] = Dock
    BY <1>1, <1>6, <1>8
  <2>2. Owns(d, Dock, e) = 1
    BY <1>3, <1>8, <2>1, FieldsAre
  <2>3. 1 = E(d, Dock, e) + B(d, Dock, e) + Q(d, e)
    BY <1>2, <2>2, FieldsAre
  <2> QED BY <1>1, <1>8, <2>1, <2>3, FieldsAre
<1> QED BY <1>5, <1>7, <1>8

\* A field is freed that the Shipyard is not in.
LEMMA FreeWhole ==
  ASSUME NEW d, Whole(d), NEW f \in Field, ~d.astray /\ Yard \in d.live => d.w[Yard] # f,
         NEW h, h = free(d, f)
  PROVE  /\ Whole(h)
         /\ h.live = d.live /\ h.bubble = d.bubble /\ h.astray = d.astray
         /\ \A x \in Entity : E(h, f, x) = 0
<1>1. d \in World
  BY DEF Whole
<1>2. /\ d.live \in SUBSET Entity /\ d.w \in [Entity -> Field \cup {Gone, NULL}]
      /\ d.observers \in [Entity -> [Field \cup {Gone} -> Int]]
      /\ d.el \in [Field -> Seq(Entity)] /\ d.bl \in [Field -> Seq(Entity)]
      /\ d.undockque \in Seq(Fighter)
  BY <1>1, Parts
<1>3. PICK w1 \in [Entity -> Field \cup {Gone, NULL}] :
        w1 = [e \in Entity |-> IF d.w[e] = f THEN Gone ELSE d.w[e]]
  <2>1. [e \in Entity |-> IF d.w[e] = f THEN Gone ELSE d.w[e]]
          \in [Entity -> Field \cup {Gone, NULL}]
    BY <1>2
  <2> QED BY <2>1
<1> DEFINE of(e) == [d.observers[e] EXCEPT ![Gone] = @ + d.observers[e][f], ![f] = 0]
<1>4. ASSUME NEW e \in Entity
      PROVE  /\ of(e) \in [Field \cup {Gone} -> Int]
             /\ of(e)[f] = 0 /\ of(e)[Gone] = d.observers[e][Gone] + d.observers[e][f]
             /\ \A f1 \in Field \ {f} : of(e)[f1] = d.observers[e][f1]
  <2>1. PICK o \in [Field \cup {Gone} -> Int] : o = d.observers[e]
    BY <1>2
  <2>2. o[Gone] \in Int /\ o[f] \in Int /\ f # Gone
    BY FieldsAre
  <2>3. PICK n \in Int : n = o[Gone] + o[f]
    BY <2>2
  <2>4. PICK o1 \in [Field \cup {Gone} -> Int] : o1 = [o EXCEPT ![Gone] = n]
    OBVIOUS
  <2>5. of(e) = [o1 EXCEPT ![f] = 0]
    BY <2>1, <2>3, <2>4
  <2> HIDE DEF of
  <2>6. of(e) \in [Field \cup {Gone} -> Int]
    BY <2>5
  <2>7. of(e)[f] = 0 /\ \A f1 \in (Field \cup {Gone}) \ {f} : of(e)[f1] = o1[f1]
    BY <2>5
  <2>8. o1[Gone] = n /\ \A f1 \in Field : o1[f1] = o[f1]
    BY <2>4, FieldsAre
  <2> QED BY <2>1, <2>2, <2>3, <2>6, <2>7, <2>8
<1>5. PICK o1 \in [Entity -> [Field \cup {Gone} -> Int]] : o1 = [e \in Entity |-> of(e)]
  <2> HIDE DEF of
  <2>1. [e \in Entity |-> of(e)] \in [Entity -> [Field \cup {Gone} -> Int]]
    BY <1>4
  <2> QED BY <2>1
<1>6. <<>> \in Seq(Entity) /\ <<>> \in Seq(Fighter)
  OBVIOUS
<1>7. PICK l1 \in [Field -> Seq(Entity)] : l1 = [d.el EXCEPT ![f] = <<>>]
  BY <1>2, <1>6
<1>8. PICK l2 \in [Field -> Seq(Entity)] : l2 = [d.bl EXCEPT ![f] = <<>>]
  BY <1>2, <1>6
<1>9. PICK q \in Seq(Fighter) : q = IF f = Dock THEN <<>> ELSE d.undockque
  BY <1>2, <1>6
<1>10. h = [d EXCEPT !.w = [e \in Entity |-> IF d.w[e] = f THEN Gone ELSE d.w[e]],
                     !.observers = [e \in Entity |-> of(e)],
                     !.el = [d.el EXCEPT ![f] = <<>>], !.bl = [d.bl EXCEPT ![f] = <<>>],
                     !.undockque = IF f = Dock THEN <<>> ELSE d.undockque]
  BY <1>1 DEF free, World
<1> HIDE DEF of
<1>11. h = [d EXCEPT !.w = w1, !.observers = o1, !.el = l1, !.bl = l2, !.undockque = q]
  BY <1>3, <1>5, <1>7, <1>8, <1>9, <1>10
<1>12. h \in World
  BY <1>1, <1>11 DEF World
<1>13. /\ h.w = w1 /\ h.observers = o1 /\ h.el = l1 /\ h.bl = l2 /\ h.undockque = q
       /\ h.live = d.live /\ h.bubble = d.bubble /\ h.astray = d.astray
  BY <1>1, <1>11 DEF World
<1>14. ASSUME NEW x, NEW f1 \in Field
       PROVE  /\ E(h, f1, x) = (IF f1 = f THEN 0 ELSE E(d, f1, x))
              /\ B(h, f1, x) = (IF f1 = f THEN 0 ELSE B(d, f1, x))
              /\ Q(h, x) = (IF f = Dock THEN 0 ELSE Q(d, x))
  <2>1. h.el[f1] = (IF f1 = f THEN <<>> ELSE d.el[f1])
        /\ h.bl[f1] = (IF f1 = f THEN <<>> ELSE d.bl[f1])
    BY <1>2, <1>7, <1>8, <1>13
  <2>2. Copies(<<>>, x) = 0
    BY CopiesNone
  <2>3. E(h, f1, x) = (IF f1 = f THEN 0 ELSE E(d, f1, x))
    BY <2>1, <2>2 DEF E
  <2>4. B(h, f1, x) = (IF f1 = f THEN 0 ELSE B(d, f1, x))
    BY <2>1, <2>2 DEF B
  <2>5. Q(h, x) = (IF f = Dock THEN 0 ELSE Q(d, x))
    BY <1>9, <1>13, <2>2 DEF Q
  <2> QED BY <2>3, <2>4, <2>5
<1>15. ASSUME ~h.astray, NEW x \in Entity PROVE Fine(h, x)
  <2>1. Fine(d, x) /\ ~d.astray
    BY <1>13, <1>15 DEF Whole
  <2>2. /\ h.w[x] = (IF d.w[x] = f THEN Gone ELSE d.w[x])
        /\ h.observers[x] = of(x)
    BY <1>3, <1>5, <1>13
  <2>3. \A f1 \in Field : h.observers[x][f1] = (IF f1 = f THEN 0 ELSE d.observers[x][f1])
    BY <1>4, <2>2
  <2>4. h.observers[x][Gone] >= 0
    <3>1. h.observers[x][Gone] = d.observers[x][Gone] + d.observers[x][f]
      BY <1>4, <2>2
    <3>2. d.observers[x][f] = 0 \/ d.observers[x][f] = 1
      BY <2>1 DEF Fine, Watched
    <3>3. Gone \in Field \cup {Gone} /\ d.observers[x][Gone] \in Int
      <4>1. d.observers[x] \in [Field \cup {Gone} -> Int]
        BY <1>2
      <4> QED BY <4>1
    <3> QED BY <2>1, <3>1, <3>2, <3>3 DEF Fine
  <2>5. ASSUME NEW f1 \in Field
        PROVE  Owns(h, f1, x) = (IF f1 = f THEN 0 ELSE Owns(d, f1, x))
    <3>1. CASE f1 = f
      <4>1. E(h, f1, x) = 0 /\ B(h, f1, x) = 0 /\ (f1 = Dock => Q(h, x) = 0)
        BY <1>14, <3>1
      <4> QED BY <3>1, <4>1, OwnsIs
    <3>2. CASE f1 # f
      <4>1. E(h, f1, x) = E(d, f1, x) /\ B(h, f1, x) = B(d, f1, x)
            /\ (f1 = Dock => Q(h, x) = Q(d, x))
        BY <1>14, <3>2
      <4> QED BY <3>2, <4>1, OwnsIs
    <3> QED BY <3>1, <3>2
  <2>6. x \in d.live => Watched(h, x)
    BY <2>1, <2>3, <2>5 DEF Fine, Watched
  <2>7. h.bubble = "marked" => E(h, Bubble, x) = 0
    <3>1. E(h, Bubble, x) = (IF Bubble = f THEN 0 ELSE E(d, Bubble, x))
      BY <1>14, FieldsAre
    <3>2. d.bubble = "marked" => E(d, Bubble, x) = 0
      BY <2>1 DEF Fine
    <3> QED BY <1>13, <3>1, <3>2
  <2>8. \A f1 \in Field : B(h, f1, x) > 0 => x \in Shot
    <3> SUFFICES ASSUME NEW f1 \in Field, B(h, f1, x) > 0 PROVE x \in Shot
      OBVIOUS
    <3>1. f1 # f /\ B(h, f1, x) = B(d, f1, x)
      BY <1>14
    <3>2. B(d, f1, x) > 0 => x \in Shot
      BY <2>1 DEF Fine
    <3> QED BY <3>1, <3>2
  <2>9. x \in d.live =>
          /\ h.w[x] \in Field \cup {Gone}
          /\ \A f1 \in Field : Owns(h, f1, x) = IF h.w[x] = f1 THEN 1 ELSE 0
          /\ h.w[x] = Dock => x \in Fighter
          /\ x = Yard => h.w[x] # Gone
    <3> SUFFICES ASSUME x \in d.live
                 PROVE  /\ h.w[x] \in Field \cup {Gone}
                        /\ \A f1 \in Field : Owns(h, f1, x) = IF h.w[x] = f1 THEN 1 ELSE 0
                        /\ h.w[x] = Dock => x \in Fighter
                        /\ x = Yard => h.w[x] # Gone
      OBVIOUS
    <3>1. /\ d.w[x] \in Field \cup {Gone} /\ (d.w[x] = Dock => x \in Fighter)
          /\ x = Yard => d.w[x] # Gone
          /\ \A f1 \in Field : Owns(d, f1, x) = IF d.w[x] = f1 THEN 1 ELSE 0
      BY <2>1 DEF Fine
    <3>2. ASSUME NEW f1 \in Field PROVE Owns(h, f1, x) = IF h.w[x] = f1 THEN 1 ELSE 0
      BY <2>2, <2>5, <3>1, FieldsAre
    <3>3. x = Yard => h.w[x] # Gone
      BY <2>1, <2>2, <3>1
    <3>4. h.w[x] \in Field \cup {Gone} /\ (h.w[x] = Dock => x \in Fighter)
      BY <2>2, <3>1, FieldsAre
    <3> QED BY <3>2, <3>3, <3>4
  <2>10. x \notin d.live =>
           \A f1 \in Field : E(h, f1, x) = 0 /\ B(h, f1, x) = 0 /\ h.observers[x][f1] = 0
    BY <1>14, <2>1, <2>3 DEF Fine
  <2> QED BY <1>13, <2>4, <2>6, <2>7, <2>8, <2>9, <2>10 DEF Fine
<1> QED BY <1>12, <1>13, <1>14, <1>15 DEF Whole

\* ~WarField moves what is in el to the parent.
LEMMA DeleteFieldWhole ==
  ASSUME NEW d, Whole(d), NEW f \in Field, NEW to \in {Home, Outer}, to # f,
         ~d.astray /\ Yard \in d.live => d.w[Yard] # f,
         NEW h, h = deleteField(d, f, to)
  PROVE  /\ Whole(h)
         /\ h.live = d.live /\ h.bubble = d.bubble /\ (d.astray => h.astray)
<1>1. d \in World
  BY DEF Whole
<1>2. PICK s \in Seq(Entity) : s = d.el[f]
  BY <1>1, Parts
<1>3. PICK k : k = transitAll(d, s, to)
  OBVIOUS
<1>4. h = free(k, f)
  BY <1>2, <1>3 DEF deleteField
<1>5. ASSUME ~d.astray, NEW i \in 1 .. Len(s) PROVE s[i] \in d.live /\ Q(d, s[i]) = 0
  <2>1. PICK e \in Entity : e = s[i]
    OBVIOUS
  <2>2. Copies(s, e) \in Nat /\ Copies(s, e) # 0
    BY <2>1, CopiesType
  <2>3. E(d, f, e) > 0
    BY <1>2, <2>2 DEF E
  <2> QED BY <1>1, <1>5, <2>1, <2>3, Listed DEF Whole
<1>6. to \in Field /\ to # Dock /\ to # Bubble
  BY FieldsAre
<1>7. /\ Whole(k)
      /\ k.live = d.live /\ k.bubble = d.bubble /\ (d.astray => k.astray)
      /\ \A x \in Entity : k.w[x] = d.w[x] \/ k.w[x] = to
  BY <1>3, <1>5, <1>6, TransitAllWhole
<1>8. ~k.astray /\ Yard \in k.live => k.w[Yard] # f
  BY <1>7, EntitiesAre
<1> QED BY <1>4, <1>7, <1>8, FreeWhole

\* A docked fighter goes over to the queue.
LEMMA PostUndock ==
  ASSUME NEW d \in World, NEW e \in Fighter, NEW h, h = postUndock(d, e)
  PROVE  /\ h \in World
         /\ h.live = d.live /\ h.w = d.w /\ h.bubble = d.bubble /\ h.astray = d.astray
         /\ Whole(d) => Whole(h)
<1>1. CASE e \notin ToSet(d.el[Dock])
  BY <1>1 DEF postUndock
<1>2. CASE e \in ToSet(d.el[Dock])
  <2>1. e \in Entity /\ Dock \in Field
    BY EntitiesAre, FieldsAre
  <2>2. d.el \in [Field -> Seq(Entity)] /\ d.undockque \in Seq(Fighter)
    BY Parts
  <2>3. PICK s \in Seq(Entity) : s = d.el[Dock]
    BY <2>1, <2>2
  <2>4. PICK q \in Seq(Fighter) : q = d.undockque
    BY <2>2
  <2>5. /\ Without(s, e) \in Seq(Entity)
        /\ \A x \in Entity : Copies(Without(s, e), x) = (IF x # e THEN Copies(s, x) ELSE 0)
    BY ThoseAre DEF Without
  <2>6. /\ Append(q, e) \in Seq(Fighter)
        /\ \A x : Copies(Append(q, e), x) = Copies(q, x) + (IF e = x THEN 1 ELSE 0)
    BY CopiesAppend
  <2>7. PICK l1 \in [Field -> Seq(Entity)] : l1 = [d.el EXCEPT ![Dock] = Without(s, e)]
    BY <2>2, <2>5
  <2>8. PICK q1 \in Seq(Fighter) : q1 = Append(q, e)
    BY <2>6
  <2>9. h = [d EXCEPT !.undockque = q1, !.el = l1]
    <3>1. h = [d EXCEPT !.undockque = Append(d.undockque, e),
                        !.el = [d.el EXCEPT ![Dock] = Without(d.el[Dock], e)]]
      BY <1>2 DEF postUndock, World
    <3> QED BY <2>3, <2>4, <2>7, <2>8, <3>1
  <2>10. h \in World
    BY <2>9 DEF World
  <2>11. /\ h.w = d.w /\ h.observers = d.observers /\ h.el = l1 /\ h.bl = d.bl
         /\ h.undockque = q1
         /\ h.live = d.live /\ h.bubble = d.bubble /\ h.astray = d.astray
    BY <2>9 DEF World
  <2>12. ASSUME NEW x \in Entity, NEW f \in Field
         PROVE  /\ E(h, f, x) = (IF f = Dock /\ x = e THEN 0 ELSE E(d, f, x))
                /\ B(h, f, x) = B(d, f, x)
                /\ Q(h, x) = Q(d, x) + (IF x = e THEN 1 ELSE 0)
    <3>1. h.el[f] = (IF f = Dock THEN Without(s, e) ELSE d.el[f])
      BY <2>2, <2>7, <2>11
    <3>2. E(h, f, x) = (IF f = Dock /\ x = e THEN 0 ELSE E(d, f, x))
      <4>1. CASE f = Dock
        BY <2>3, <2>5, <3>1, <4>1 DEF E
      <4>2. CASE f # Dock
        BY <3>1, <4>2 DEF E
      <4> QED BY <4>1, <4>2
    <3>3. Q(h, x) = Q(d, x) + (IF x = e THEN 1 ELSE 0)
      BY <2>4, <2>6, <2>8, <2>11 DEF Q
    <3> QED BY <2>11, <3>2, <3>3 DEF B
  <2>13. ASSUME Whole(d) PROVE Whole(h)
    <3> SUFFICES ASSUME ~h.astray, NEW x \in Entity PROVE Fine(h, x)
      BY <2>10 DEF Whole
    <3>1. Fine(d, x) /\ ~d.astray
      BY <2>11, <2>13 DEF Whole
    <3>2. CASE x # e
      <4>1. Same(d, h, x)
        <5>1. Q(d, x) \in Nat
          BY Counts
        <5>2. Q(h, x) = Q(d, x)
          BY <2>1, <2>12, <3>2, <5>1
        <5>3. \A f \in Field : E(h, f, x) = E(d, f, x) /\ B(h, f, x) = B(d, f, x)
          BY <2>12, <3>2
        <5> QED BY <2>11, <5>2, <5>3 DEF Same
      <4> QED BY <2>11, <3>1, <4>1, SameFine
    <3>3. CASE x = e
      <4>1. E(d, Dock, e) > 0
        BY <1>2, <2>3, InList DEF E
      <4>2. /\ e \in d.live /\ d.w[e] = Dock /\ Q(d, e) = 0
            /\ E(d, Dock, e) = 1 /\ B(d, Dock, e) = 0
        BY <2>1, <3>1, <3>3, <4>1, Listed
      <4>3. /\ E(h, Dock, e) = 0 /\ B(h, Dock, e) = 0 /\ Q(h, e) = 1
            /\ \A f \in Field \ {Dock} : E(h, f, e) = E(d, f, e) /\ B(h, f, e) = B(d, f, e)
        BY <2>1, <2>12, <4>2
      <4>4. ASSUME NEW f \in Field PROVE Owns(h, f, e) = Owns(d, f, e)
        <5>1. CASE f = Dock
          <6>1. Owns(h, f, e) = 0 + 0 + 1
            BY <4>3, <5>1, OwnsIs
          <6>2. Owns(d, f, e) = 1 + 0 + 0
            BY <4>2, <5>1, OwnsIs
          <6> QED BY <6>1, <6>2
        <5>2. CASE f # Dock
          BY <4>3, <5>2, OwnsIs
        <5> QED BY <5>1, <5>2
      <4>5. Watched(h, e)
        BY <2>11, <3>1, <3>3, <4>2, <4>4 DEF Watched, Fine
      <4>6. \A f \in Field : B(h, f, e) > 0 => e \in Shot
        BY <2>1, <2>12, <3>1, <3>3 DEF Fine
      <4>7. h.bubble = "marked" => E(h, Bubble, e) = 0
        BY <2>11, <3>1, <3>3, <4>3, FieldsAre DEF Fine
      <4> QED BY <2>11, <3>1, <3>3, <4>2, <4>4, <4>5, <4>6, <4>7 DEF Fine
    <3> QED BY <3>2, <3>3
  <2> QED BY <2>10, <2>11, <2>13
<1> QED BY <1>1, <1>2

\* The turns of a loop in which those who are ready queue up.
LEMMA PostAllDef ==
  ASSUME NEW d \in World, NEW s \in Seq(Fighter)
  PROVE  \E f :
           /\ f[0] = d /\ postAll(d, s) = f[Len(s)]
           /\ \A n \in 0 .. Len(s) : f[n] \in World
           /\ \A n \in 1 .. Len(s) : f[n] = postUndock(f[n - 1], s[n])
<1> DEFINE turn(q, x) == postUndock(q, x)
           step == [n \in 1 .. Len(s) |-> [q \in World |-> turn(q, s[n])]]
           Run(f) == f = [n \in 0 .. Len(s) |->
                            IF n = 0 THEN d ELSE turn(f[n - 1], s[n])]
           loop == CHOOSE f : Run(f)
<1>1. \A q \in World, n \in 1 .. Len(s) : turn(q, s[n]) \in World
  BY PostUndock
<1>2. postAll(d, s) = loop[Len(s)]
  BY DEF postAll
<1>3. Len(s) \in Nat
  OBVIOUS
<1> HIDE DEF turn
<1>5. step \in [1 .. Len(s) -> [World -> World]]
      /\ \A q \in World, n \in 1 .. Len(s) : step[n][q] = turn(q, s[n])
  BY <1>1
<1> HIDE DEF step
<1>6. PICK l \in Nat : l = Len(s)
  BY <1>3
<1>7. step \in [1 .. l -> [World -> World]]
  BY <1>5, <1>6
<1>8. PICK f \in [0 .. l -> World] : f[0] = d /\ \A i \in 1 .. l : f[i] = step[i][f[i - 1]]
  BY <1>7, WorldLoop
<1>9. ASSUME NEW i \in 0 .. l, i # 0 PROVE step[i][f[i - 1]] = turn(f[i - 1], s[i])
  <2>1. i - 1 \in 0 .. l /\ i \in 1 .. Len(s)
    BY <1>6, <1>9
  <2> QED BY <1>5, <1>8, <2>1
<1>10. Run(f)
  BY <1>6, <1>8, <1>9
<1>11. Run(loop)
  BY <1>10
<1> HIDE DEF loop
<1>12. loop[0] = d /\ \A n \in 1 .. Len(s) : loop[n] = turn(loop[n - 1], s[n])
  BY <1>3, <1>11
<1> DEFINE N == {n \in Nat : n <= l => loop[n] \in World}
<1>13. 0 \in N
  BY <1>12
<1>14. ASSUME NEW n \in Nat, n \in N PROVE n + 1 \in N
  <2> SUFFICES ASSUME n + 1 <= l PROVE loop[n + 1] \in World
    OBVIOUS
  <2>1. n + 1 \in 1 .. Len(s) /\ (n + 1) - 1 = n /\ n <= l
    BY <1>6
  <2>2. loop[n] \in World /\ loop[n + 1] = turn(loop[n], s[n + 1])
    BY <1>12, <1>14, <2>1
  <2> QED BY <1>1, <2>1, <2>2
<1> HIDE DEF N
<1>15. Nat \subseteq N
  BY <1>13, <1>14, SetInduction
<1>16. \A n \in 0 .. Len(s) : loop[n] \in World
  BY <1>6, <1>15 DEF N
<1> QED BY <1>2, <1>12, <1>16 DEF turn

\* Those who are ready queue up.
LEMMA PostAllWhole ==
  ASSUME NEW d, Whole(d), NEW s \in Seq(Fighter), NEW h, h = postAll(d, s)
  PROVE  /\ Whole(h)
         /\ h.live = d.live /\ h.w = d.w /\ h.bubble = d.bubble /\ h.astray = d.astray
<1>1. d \in World
  BY DEF Whole
<1>2. PICK f : /\ f[0] = d /\ h = f[Len(s)]
               /\ \A n \in 0 .. Len(s) : f[n] \in World
               /\ \A n \in 1 .. Len(s) : f[n] = postUndock(f[n - 1], s[n])
  BY <1>1, PostAllDef
<1> DEFINE Done(m) == /\ Whole(m) /\ m.live = d.live /\ m.w = d.w /\ m.bubble = d.bubble
                      /\ m.astray = d.astray
           N == {n \in Nat : n <= Len(s) => Done(f[n])}
<1>3. 0 \in N
  BY <1>2
<1>4. ASSUME NEW n \in Nat, n \in N PROVE n + 1 \in N
  <2> SUFFICES ASSUME n + 1 <= Len(s) PROVE Done(f[n + 1])
    OBVIOUS
  <2>1. n + 1 \in 1 .. Len(s) /\ (n + 1) - 1 = n /\ n <= Len(s) /\ s[n + 1] \in Fighter
    OBVIOUS
  <2>2. PICK m : m = f[n]
    OBVIOUS
  <2>3. PICK k : k = f[n + 1]
    OBVIOUS
  <2>4. PICK e \in Fighter : e = s[n + 1]
    BY <2>1
  <2>5. Done(m) /\ m \in World
    BY <1>4, <2>1, <2>2 DEF Whole
  <2>6. k = postUndock(m, e)
    BY <1>2, <2>1, <2>2, <2>3, <2>4
  <2>7. /\ Whole(k) /\ k.live = m.live /\ k.w = m.w /\ k.bubble = m.bubble
        /\ k.astray = m.astray
    BY <2>5, <2>6, PostUndock
  <2> QED BY <2>3, <2>5, <2>7
<1> HIDE DEF N, Done
<1>5. Nat \subseteq N
  BY <1>3, <1>4, SetInduction
<1>6. Len(s) \in Nat
  OBVIOUS
<1>7. Done(h)
  BY <1>2, <1>5, <1>6 DEF N
<1> QED BY <1>7 DEF Done

\* What flies is not in a bubble that was marked, and the Shipyard is in space.
LEMMA Flying ==
  ASSUME NEW d, Whole(d), ~d.astray, NEW e \in d.live, e \notin Shot
  PROVE  /\ d.bubble = "marked" => d.w[e] # Bubble
         /\ e = Yard => d.w[e] \in Field /\ d.w[e] # Dock
<1>1. d \in World /\ e \in Entity
  BY Parts DEF Whole
<1>2. Fine(d, e)
  BY <1>1 DEF Whole
<1>3. ASSUME d.bubble = "marked", d.w[e] = Bubble PROVE FALSE
  <2>1. E(d, Bubble, e) = 0
    BY <1>2, <1>3 DEF Fine
  <2>2. Owns(d, Bubble, e) = 1
    BY <1>2, <1>3, FieldsAre DEF Fine
  <2>3. B(d, Bubble, e) \in Nat
    BY <1>1, Counts, FieldsAre
  <2>4. B(d, Bubble, e) = 1
    BY <2>1, <2>2, <2>3, OwnsIs, FieldsAre
  <2> QED BY <1>2, <2>4, FieldsAre DEF Fine
<1> QED BY <1>2, <1>3, EntitiesAre DEF Fine

\* The first of the queue leaves for the field of the Shipyard.
LEMMA Undock ==
  ASSUME NEW d \in World, d.undockque # <<>>, d.w[Yard] \in Field,
         NEW h, h = undock(d, Head(d.undockque))
  PROVE  /\ h \in World
         /\ h.live = d.live /\ h.w[Yard] = d.w[Yard] /\ h.bubble = d.bubble
         /\ d.astray => h.astray
         /\ Whole(d) /\ (~d.astray => Yard \in d.live) => Whole(h)
<1>1. /\ d.live \in SUBSET Entity
      /\ d.observers \in [Entity -> [Field \cup {Gone} -> Int]]
      /\ d.undockque \in Seq(Fighter) /\ d.baycool \in Nat /\ d.astray \in BOOLEAN
  BY Parts
<1>2. PICK q \in Seq(Fighter) : q = d.undockque
  BY <1>1
<1>3. PICK e : e = Head(q)
  OBVIOUS
<1>4. e \in Fighter /\ Copies(q, e) > 0
  BY <1>2, <1>3, InList
<1>5. e \in Entity /\ e # Yard /\ Dock \in Field
  BY <1>4, EntitiesAre, FieldsAre
<1>6. /\ Without(q, e) \in Seq(Fighter)
      /\ \A x \in Entity : Copies(Without(q, e), x) = (IF x # e THEN Copies(q, x) ELSE 0)
  BY ThoseAre DEF Without
<1>7. PICK q1 \in Seq(Fighter) : q1 = Without(q, e)
  BY <1>6
<1>8. PICK c \in Nat : c = d.baycool + baytime
  <2>1. baytime \in Nat
    BY FieldsAssumption
  <2> QED BY <1>1, <2>1
<1>9. d.observers[e][Dock] \in Int /\ Copies(q, e) \in Nat
  <2>1. Dock \in Field \cup {Gone} /\ d.observers[e] \in [Field \cup {Gone} -> Int]
    BY <1>1, <1>5
  <2> QED BY <2>1, CopiesType
<1>10. PICK n \in Int : n = d.observers[e][Dock] - Copies(q, e)
  BY <1>9
<1>11. PICK o1 : o1 = [d.observers EXCEPT ![e][Dock] = n]
  OBVIOUS
<1>12. /\ o1 \in [Entity -> [Field \cup {Gone} -> Int]]
       /\ \A x \in Entity \ {e} : o1[x] = d.observers[x]
       /\ o1[e][Dock] = n
       /\ \A f1 \in (Field \cup {Gone}) \ {Dock} : o1[e][f1] = d.observers[e][f1]
  <2>1. Dock \in Field \cup {Gone}
    BY <1>5
  <2> QED BY <1>1, <1>5, <1>11, <2>1
<1> DEFINE a == d.astray \/ e \notin d.live
<1>13. a \in BOOLEAN
  BY <1>1
<1>14. PICK k : k = [d EXCEPT !.undockque = q1, !.baycool = c, !.observers = o1, !.astray = a]
  OBVIOUS
<1>15. h = addent(k, e, d.w[Yard])
  <2>1. k = [d EXCEPT !.undockque = Without(d.undockque, e),
                      !.baycool = d.baycool + baytime,
                      !.observers = [d.observers EXCEPT
                                       ![e][Dock] = d.observers[e][Dock] - Copies(d.undockque, e)],
                      !.astray = d.astray \/ e \notin d.live]
    BY <1>2, <1>7, <1>8, <1>10, <1>11, <1>14
  <2> HIDE DEF a
  <2> QED BY <1>2, <1>3, <2>1 DEF undock, World
<1> HIDE DEF a
<1>16. k \in World
  BY <1>12, <1>13, <1>14 DEF World
<1>17. /\ k.w = d.w /\ k.observers = o1 /\ k.el = d.el /\ k.bl = d.bl /\ k.undockque = q1
       /\ k.live = d.live /\ k.bubble = d.bubble /\ k.astray = a
  BY <1>14 DEF World
<1>18. PICK f \in Field : f = d.w[Yard]
  OBVIOUS
<1>19. Moves(k, h, e)
  BY <1>5, <1>15, <1>16, <1>18, Addent
<1>20. h.live = d.live /\ h.bubble = d.bubble /\ (d.astray => h.astray)
  BY <1>17, <1>19 DEF Moves, a
<1>21. h.w[Yard] = d.w[Yard]
  BY <1>5, <1>17, <1>19, EntitiesAre DEF Moves, Same
<1>22. ASSUME NEW x \in Entity \ {e} PROVE Same(d, h, x)
  <2>1. Same(k, h, x)
    BY <1>19, <1>22 DEF Moves
  <2>2. Q(k, x) = Q(d, x)
    BY <1>2, <1>6, <1>7, <1>17 DEF Q
  <2>3. k.observers[x] = d.observers[x]
    BY <1>12, <1>17
  <2>4. Same(d, k, x)
    BY <1>17, <2>2, <2>3 DEF Same, E, B
  <2> QED BY <2>1, <2>4 DEF Same
<1>23. ASSUME Whole(d), ~d.astray => Yard \in d.live, ~h.astray, NEW x \in Entity
       PROVE  Fine(h, x)
  <2>1. ~d.astray /\ e \in d.live /\ Yard \in d.live
    BY <1>17, <1>19, <1>23 DEF Moves, a
  <2>2. Fine(d, x) /\ Fine(d, e) /\ Fine(d, Yard)
    BY <1>5, <1>23, <2>1, EntitiesAre DEF Whole
  <2>3. CASE x # e
    BY <1>20, <1>22, <2>2, <2>3, SameFine
  <2>4. CASE x = e
    <3>1. Q(d, e) > 0
      BY <1>2, <1>4 DEF Q
    <3>2. d.w[e] = Dock /\ Q(d, e) = 1 /\ E(d, Dock, e) = 0 /\ B(d, Dock, e) = 0
      BY <1>5, <2>1, <2>2, <3>1, Listed
    <3>3. \A f1 \in Field \ {Dock} : E(d, f1, e) = 0 /\ B(d, f1, e) = 0
      BY <1>5, <2>1, <2>2, <3>2, Listed
    <3>4. /\ \A f1 \in Field : d.observers[e][f1] = Owns(d, f1, e)
          /\ \A f1 \in Field : Owns(d, f1, e) = IF Dock = f1 THEN 1 ELSE 0
      BY <2>1, <2>2, <3>2 DEF Fine, Watched
    <3>5. Q(k, e) = 0
      BY <1>5, <1>6, <1>7, <1>17 DEF Q
    <3>6. Copies(q, e) = 1
      BY <1>2, <3>2 DEF Q
    <3>7. ASSUME NEW f1 \in Field
          PROVE  E(k, f1, e) = 0 /\ B(k, f1, e) = 0 /\ k.observers[e][f1] = 0
      <4>1. E(k, f1, e) = 0 /\ B(k, f1, e) = 0
        BY <1>17, <3>2, <3>3 DEF E, B
      <4>2. CASE f1 = Dock
        <5>1. d.observers[e][Dock] = 1
          BY <1>5, <3>4
        <5>2. n = 0
          BY <1>10, <3>6, <5>1
        <5> QED BY <1>12, <1>17, <4>1, <4>2, <5>2
      <4>3. CASE f1 # Dock
        <5>1. d.observers[e][f1] = 0
          BY <3>4, <4>3
        <5>2. o1[e][f1] = d.observers[e][f1]
          BY <1>12, <4>3
        <5> QED BY <1>17, <4>1, <5>1, <5>2
      <4> QED BY <4>2, <4>3
    <3>8. k.observers[e][Gone] >= 0
      <4>1. o1[e][Gone] = d.observers[e][Gone]
        BY <1>5, <1>12, FieldsAre
      <4> QED BY <1>17, <2>2, <4>1 DEF Fine
    <3>9. Absent(k, e)
      BY <1>17, <2>1, <3>5, <3>7, <3>8 DEF Absent
    <3>10. f # Dock /\ (k.bubble = "marked" => f # Bubble)
      BY <1>17, <1>18, <1>23, <2>1, EntitiesAre, Flying
    <3>11. Fine(h, e)
      BY <1>5, <1>15, <1>16, <1>18, <3>9, <3>10, AddentFine
    <3> QED BY <2>4, <3>11
  <2> QED BY <2>3, <2>4
<1>24. h \in World
  BY <1>19 DEF Moves
<1> QED BY <1>20, <1>21, <1>23, <1>24 DEF Whole

\* The worlds in which the Shipyard is somewhere.
Moored == {d \in World : d.w[Yard] \in Field}

\* A loop over them.
LEMMA MooredLoop ==
  ASSUME NEW d \in Moored, NEW l \in Nat, NEW step \in [1 .. l -> [Moored -> Moored]]
  PROVE  \E f \in [0 .. l -> Moored] :
           f[0] = d /\ \A i \in 1 .. l : f[i] = step[i][f[i - 1]]
  BY Iterated

\* One turn of serving the queue.
Turn(d) == IF d.undockque # <<>> /\ d.baycool < dt THEN undock(d, Head(d.undockque)) ELSE d

\* A turn keeps the Shipyard in its place, and the world whole.
LEMMA TurnKeeps ==
  ASSUME NEW d \in Moored, NEW h, h = Turn(d)
  PROVE  /\ h \in Moored
         /\ h.live = d.live /\ h.w[Yard] = d.w[Yard] /\ h.bubble = d.bubble
         /\ d.astray => h.astray
         /\ Whole(d) /\ (~d.astray => Yard \in d.live) => Whole(h)
<1>1. d \in World /\ d.w[Yard] \in Field
  BY DEF Moored
<1>2. CASE d.undockque # <<>> /\ d.baycool < dt
  <2>1. h = undock(d, Head(d.undockque))
    BY <1>2 DEF Turn
  <2>2. /\ h \in World
        /\ h.live = d.live /\ h.w[Yard] = d.w[Yard] /\ h.bubble = d.bubble
        /\ d.astray => h.astray
        /\ Whole(d) /\ (~d.astray => Yard \in d.live) => Whole(h)
    BY <1>1, <1>2, <2>1, Undock
  <2> QED BY <1>1, <2>2 DEF Moored
<1>3. CASE ~(d.undockque # <<>> /\ d.baycool < dt)
  BY <1>3 DEF Turn
<1> QED BY <1>2, <1>3

\* Serving the queue keeps the Shipyard in its place, and the world whole.
LEMMA ServedKeeps ==
  ASSUME NEW d \in Moored, Whole(d), ~d.astray => Yard \in d.live, NEW h, h = served(d)
  PROVE  /\ h \in Moored /\ Whole(h)
         /\ h.live = d.live /\ h.w[Yard] = d.w[Yard] /\ h.bubble = d.bubble
         /\ d.astray => h.astray
<1> DEFINE step == [n \in 1 .. Len(d.undockque) |-> [k \in Moored |-> Turn(k)]]
           Run(f) == f = [n \in 0 .. Len(d.undockque) |-> IF n = 0 THEN d ELSE Turn(f[n - 1])]
           loop == CHOOSE f : Run(f)
<1>1. \A k \in Moored : Turn(k) \in Moored
  BY TurnKeeps
<1>2. h = loop[Len(d.undockque)]
  BY DEF served, Turn
<1>3. PICK l \in Nat : l = Len(d.undockque)
  <2>1. d.undockque \in Seq(Fighter)
    BY Parts DEF Moored
  <2> QED BY <2>1
<1>4. step \in [1 .. l -> [Moored -> Moored]]
      /\ \A k \in Moored, n \in 1 .. l : step[n][k] = Turn(k)
  BY <1>1, <1>3
<1> HIDE DEF step
<1>5. PICK f \in [0 .. l -> Moored] : f[0] = d /\ \A i \in 1 .. l : f[i] = step[i][f[i - 1]]
  BY <1>4, MooredLoop
<1>6. ASSUME NEW i \in 0 .. l, i # 0 PROVE step[i][f[i - 1]] = Turn(f[i - 1])
  <2>1. i - 1 \in 0 .. l /\ i \in 1 .. l
    BY <1>6
  <2> QED BY <1>4, <1>5, <2>1
<1>7. Run(f)
  BY <1>3, <1>5, <1>6
<1>8. Run(loop)
  BY <1>7
<1> HIDE DEF loop
<1>9. loop[0] = d /\ \A n \in 1 .. l : loop[n] = Turn(loop[n - 1])
  <2>1. loop = [n \in 0 .. l |-> IF n = 0 THEN d ELSE Turn(loop[n - 1])]
    BY <1>3, <1>8
  <2> HIDE DEF Run
  <2>2. ASSUME NEW n \in 0 .. l PROVE loop[n] = IF n = 0 THEN d ELSE Turn(loop[n - 1])
    BY <2>1
  <2>3. 0 \in 0 .. l /\ \A n \in 1 .. l : n \in 0 .. l /\ n # 0
    OBVIOUS
  <2> QED BY <2>2, <2>3
<1> DEFINE Done(m) == /\ m \in Moored /\ Whole(m)
                      /\ m.live = d.live /\ m.w[Yard] = d.w[Yard] /\ m.bubble = d.bubble
                      /\ d.astray => m.astray
           N == {n \in Nat : n <= l => Done(loop[n])}
<1>10. 0 \in N
  BY <1>9
<1>11. ASSUME NEW n \in Nat, n \in N PROVE n + 1 \in N
  <2> SUFFICES ASSUME n + 1 <= l PROVE Done(loop[n + 1])
    OBVIOUS
  <2>1. n + 1 \in 1 .. l /\ (n + 1) - 1 = n /\ n <= l
    OBVIOUS
  <2>2. PICK m : m = loop[n]
    OBVIOUS
  <2>3. PICK k : k = loop[n + 1]
    OBVIOUS
  <2>4. Done(m)
    BY <1>11, <2>1, <2>2
  <2>5. k = Turn(m)
    BY <1>9, <2>1, <2>2, <2>3
  <2>6. ~m.astray => Yard \in m.live
    BY <2>4
  <2>7. /\ k \in Moored /\ Whole(k)
        /\ k.live = m.live /\ k.w[Yard] = m.w[Yard] /\ k.bubble = m.bubble
        /\ m.astray => k.astray
    BY <2>4, <2>5, <2>6, TurnKeeps
  <2> QED BY <2>3, <2>4, <2>7
<1> HIDE DEF N, Done
<1>12. Nat \subseteq N
  BY <1>10, <1>11, SetInduction
<1>13. Done(h)
  BY <1>2, <1>3, <1>12 DEF N
<1> QED BY <1>13 DEF Done

\* What does not touch lists, observers or the living keeps a world whole.
LEMMA AsWhole ==
  ASSUME NEW d, Whole(d), NEW h \in World,
         /\ h.live = d.live /\ h.w = d.w /\ h.observers = d.observers
         /\ h.el = d.el /\ h.bl = d.bl /\ h.undockque = d.undockque,
         h.bubble = "marked" => d.bubble = "marked", d.astray => h.astray
  PROVE  Whole(h)
<1> SUFFICES ASSUME ~h.astray, NEW x \in Entity PROVE Fine(h, x)
  BY DEF Whole
<1>1. Fine(d, x)
  BY DEF Whole
<1>2. Same(d, h, x)
  BY DEF Same, E, B, Q
<1> QED BY <1>1, <1>2, SameFine

\* Docker::anim.
LEMMA DockerAnimWhole ==
  ASSUME NEW d, Whole(d), ~d.astray, Yard \in d.live, NEW ready, NEW h, h = dockerAnim(d, ready)
  PROVE  /\ Whole(h)
         /\ h.live = d.live /\ h.w[Yard] = d.w[Yard] /\ h.bubble = d.bubble
<1>1. d \in World /\ d.w[Yard] \in Field
  BY Flying, EntitiesAre DEF Whole
<1>2. PICK a \in Seq(Entity) : a = d.el[Dock]
  BY <1>1, Parts, FieldsAre
<1>3. PICK s \in Seq(Entity) : /\ s = Those(a, ready)
                               /\ \A e : Copies(s, e) = IF e \in ready THEN Copies(a, e) ELSE 0
  BY ThoseAre
<1>4. ASSUME NEW e \in Entity, Copies(s, e) > 0 PROVE e \in Fighter
  <2>1. E(d, Dock, e) > 0
    BY <1>2, <1>3, <1>4 DEF E
  <2>2. Fine(d, e)
    BY DEF Whole
  <2>3. e \in d.live /\ d.w[e] = Dock
    BY <1>1, <2>1, <2>2, Listed, FieldsAre
  <2> QED BY <2>2, <2>3 DEF Fine
<1>5. s \in Seq(Fighter)
  BY <1>4, ListOf
<1>6. PICK k : k = postAll(d, s)
  OBVIOUS
<1>7. /\ Whole(k)
      /\ k.live = d.live /\ k.w = d.w /\ k.bubble = d.bubble /\ k.astray = d.astray
  BY <1>5, <1>6, PostAllWhole
<1>8. k \in Moored
  BY <1>1, <1>7 DEF Moored, Whole
<1>9. PICK m : m = served(k)
  OBVIOUS
<1>10. /\ m \in World /\ Whole(m)
       /\ m.live = d.live /\ m.w[Yard] = d.w[Yard] /\ m.bubble = d.bubble
  BY <1>7, <1>8, <1>9, ServedKeeps DEF Whole
<1>11. m.baycool \in Nat /\ dt \in Nat
  BY <1>10, Parts, FieldsAssumption
<1>12. PICK c \in Nat : c = IF m.baycool < dt THEN 0 ELSE m.baycool - dt
  BY <1>11
<1>13. h = [m EXCEPT !.baycool = c]
  <2>1. h = [m EXCEPT !.baycool = IF m.baycool < dt THEN 0 ELSE m.baycool - dt]
    BY <1>2, <1>3, <1>6, <1>9, <1>10 DEF dockerAnim, World
  <2> QED BY <1>12, <2>1
<1>14. h \in World
  BY <1>10, <1>13 DEF World
<1>15. /\ h.live = m.live /\ h.w = m.w /\ h.observers = m.observers
       /\ h.el = m.el /\ h.bl = m.bl /\ h.undockque = m.undockque
       /\ h.bubble = m.bubble /\ h.astray = m.astray
  BY <1>10, <1>13 DEF World
<1>16. Whole(h)
  BY <1>10, <1>14, <1>15, AsWhole
<1> QED BY <1>10, <1>15, <1>16

\* Every other one of a list is of the list.
LEMMA OddsAre ==
  ASSUME NEW T, NEW s \in Seq(T)
  PROVE  Odds(s) \in Seq(T)
<1>1. PICK l \in Nat : l = Len(s)
  OBVIOUS
<1>2. PICK m \in Nat : m = (l + 1) \div 2 /\ 2 * m <= l + 1
  <2>1. (l + 1) \div 2 \in Nat /\ 2 * ((l + 1) \div 2) <= l + 1
    OBVIOUS
  <2> QED BY <2>1
<1>3. \A i \in 1 .. m : 2 * i - 1 \in 1 .. l
  BY <1>2
<1>4. \A i \in 1 .. m : s[2 * i - 1] \in T
  BY <1>1, <1>3
<1>5. Odds(s) = [i \in 1 .. m |-> s[2 * i - 1]]
  BY <1>1, <1>2 DEF Odds
<1> QED BY <1>4, <1>5

\* ~Docker.
LEMMA DestroyDockerWhole ==
  ASSUME NEW d, Whole(d), NEW h, h = destroyDocker(d)
  PROVE  Whole(h) /\ (d.astray => h.astray)
<1>1. d \in World
  BY DEF Whole
<1>2. PICK a \in Seq(Entity) : a = d.el[Dock]
  BY <1>1, Parts, FieldsAre
<1>3. PICK S : S = Entity \ ToSet(Spared[a])
  OBVIOUS
<1>4. PICK s \in Seq(Entity) : s = Those(a, S)
  BY ThoseAre
<1>5. PICK q \in Seq(Fighter) : q = d.undockque
  BY <1>1, Parts
<1>6. Odds(q) \in Seq(Fighter)
  BY OddsAre
<1>7. PICK o \in Seq(Entity) : o = Odds(q)
  <2>1. Odds(q) \in Seq(Entity)
    BY <1>6, EntitiesAre
  <2> QED BY <2>1
<1>8. PICK c \in Seq(Entity) : c = s \o o
  <2>1. s \o o \in Seq(Entity)
    OBVIOUS
  <2> QED BY <2>1
<1>9. PICK after : after = deleteAll(d, c)
  OBVIOUS
<1>10. Whole(after) /\ (d.astray => after.astray)
  BY <1>9, DeleteAllWhole
<1>11. after \in World
  BY <1>10 DEF Whole
<1>12. PICK b \in BOOLEAN : b = (after.astray \/ Len(q) % 2 = 1)
  OBVIOUS
<1>13. PICK left : left = [after EXCEPT !.astray = b]
  OBVIOUS
<1>14. left \in World
  BY <1>11, <1>13 DEF World
<1>15. /\ left.live = after.live /\ left.w = after.w /\ left.observers = after.observers
       /\ left.el = after.el /\ left.bl = after.bl /\ left.undockque = after.undockque
       /\ left.bubble = after.bubble /\ left.astray = b
  BY <1>11, <1>13 DEF World
<1>16. Whole(left)
  BY <1>10, <1>12, <1>14, <1>15, AsWhole
<1>17. h = deleteField(left, Dock, Outer)
  <2>1. Those(d.el[Dock], Entity \ ToSet(Spared[d.el[Dock]])) \o Odds(d.undockque) = c
    BY <1>2, <1>3, <1>4, <1>5, <1>7, <1>8
  <2>2. left = [after EXCEPT !.astray = after.astray \/ Len(d.undockque) % 2 = 1]
    BY <1>5, <1>12, <1>13
  <2> QED BY <1>9, <1>11, <2>1, <2>2 DEF destroyDocker, World
<1>18. ~left.astray /\ Yard \in left.live => left.w[Yard] # Dock
  BY <1>16, Flying, EntitiesAre
<1>19. /\ Whole(h) /\ (left.astray => h.astray)
  <2>1. Dock \in Field /\ Outer \in {Home, Outer} /\ Outer # Dock
    BY FieldsAre
  <2> QED BY <1>16, <1>17, <1>18, <2>1, DeleteFieldWhole
<1> QED BY <1>10, <1>12, <1>15, <1>19

\* delete of any Entity.
LEMMA DestroyWhole ==
  ASSUME NEW d, Whole(d), NEW e \in Entity, NEW h, h = destroy(d, e)
  PROVE  Whole(h) /\ (d.astray => h.astray)
<1>1. PICK k : k = IF e = Yard THEN destroyDocker(d) ELSE d
  OBVIOUS
<1>2. Whole(k) /\ (d.astray => k.astray)
  BY <1>1, DestroyDockerWhole
<1>3. h = delete(k, e)
  BY <1>1 DEF destroy
<1>4. k \in World
  BY <1>2 DEF Whole
<1> QED BY <1>2, <1>3, <1>4, Delete, DeleteWhole

\* What memory is free for is in no queue.
LEMMA FreeIs ==
  ASSUME NEW d \in World, NEW e \in Free(d)
  PROVE  e \in Entity /\ e \notin d.live /\ e # Yard /\ Q(d, e) = 0
<1>1. e \in Entity /\ e \notin d.live /\ e # Yard /\ e \notin ToSet(d.undockque)
  BY DEF Free
<1>2. d.undockque \in Seq(Fighter)
  BY Parts
<1>3. Copies(d.undockque, e) \in Nat /\ ~(Copies(d.undockque, e) > 0)
  BY <1>1, <1>2, CopiesType, InList
<1> QED BY <1>1, <1>3 DEF Q

\* A new Sceptor is in the Docker.
LEMMA FinishBuildWhole ==
  ASSUME NEW d, Whole(d), d.w[Yard] \in Field, ~d.astray => Yard \in d.live,
         NEW e \in Fighter, e \in Free(d), NEW h, h = finishBuild(d, e)
  PROVE  Whole(h) /\ (d.astray => h.astray)
<1>1. d \in World
  BY DEF Whole
<1>2. PICK f \in Field : f = d.w[Yard]
  OBVIOUS
<1>3. ~d.astray => f # Dock /\ (d.bubble = "marked" => f # Bubble)
  BY <1>2, Flying, EntitiesAre
<1>4. e \in Entity /\ e \notin d.live /\ Q(d, e) = 0
  BY <1>1, FreeIs
<1>5. PICK k : k = create(d, e, f)
  OBVIOUS
<1>6. /\ Whole(k)
      /\ k.live = d.live \cup {e} /\ k.w[e] = f
      /\ d.astray => k.astray
  BY <1>3, <1>4, <1>5, CreateWhole
<1>7. h = dock(k, e)
  BY <1>2, <1>5 DEF finishBuild
<1>8. ~k.astray => e \in k.live /\ k.w[e] # Dock
  BY <1>3, <1>6
<1>9. Whole(h) /\ Moves(k, h, e)
  BY <1>6, <1>7, <1>8, DockWhole
<1> QED BY <1>6, <1>9 DEF Moves

\* The bubble is opened or collapses, and nobody is lost.
LEMMA WarpedWhole ==
  ASSUME NEW d, Whole(d), ~d.astray, Yard \in d.live, NEW h \in Warped(d)
  PROVE  Whole(h) /\ ~h.astray /\ Yard \in h.live
<1>1. d \in World /\ Yard \in Entity /\ Yard \notin Shot /\ Yard \notin Fighter
  BY EntitiesAre DEF Whole
<1>2. d.w[Yard] \in Field /\ Q(d, Yard) = 0
  BY <1>1, Flying, Counts
<1>3. CASE h = d
  BY <1>3
<1>4. CASE h = transit_cs([d EXCEPT !.bubble = "open"], Yard, Bubble)
  <2>1. PICK k : k = [d EXCEPT !.bubble = "open"]
    OBVIOUS
  <2>2. k \in World
    BY <1>1, <2>1 DEF World
  <2>3. /\ k.live = d.live /\ k.w = d.w /\ k.observers = d.observers
        /\ k.el = d.el /\ k.bl = d.bl /\ k.undockque = d.undockque
        /\ k.bubble = "open" /\ k.astray = d.astray
    BY <1>1, <2>1 DEF World
  <2>4. Whole(k)
    BY <2>2, <2>3, AsWhole
  <2>5. Q(k, Yard) = 0
    BY <1>2, <2>3 DEF Q
  <2>6. h = transit_cs(k, Yard, Bubble)
    BY <1>4, <2>1
  <2>7. /\ Whole(h) /\ Moves(k, h, Yard)
        /\ k.w[Yard] \in Field => h.astray = k.astray
    BY <1>1, <2>3, <2>4, <2>5, <2>6, FieldsAre, TransitWhole
  <2> QED BY <1>2, <2>3, <2>7 DEF Moves
<1>5. CASE \E to \in {Home, Outer} :
             h = [transitAll(d, d.el[Bubble], to) EXCEPT !.bubble = "marked"]
  <2>1. PICK to \in {Home, Outer} :
          h = [transitAll(d, d.el[Bubble], to) EXCEPT !.bubble = "marked"]
    BY <1>5
  <2>2. PICK s \in Seq(Entity) : s = d.el[Bubble]
    BY <1>1, Parts, FieldsAre
  <2>3. PICK k : k = transitAll(d, s, to)
    OBVIOUS
  <2>4. to \in Field /\ to # Dock /\ to # Bubble /\ Bubble \in Field
    BY FieldsAre
  <2>5. ASSUME NEW x \in Entity
        PROVE  /\ E(d, Bubble, x) > 0
                    => x \in d.live /\ d.w[x] = Bubble /\ Q(d, x) = 0
               /\ E(d, Bubble, x) \in Nat
               /\ E(d, Bubble, x) = 0 <=> \A i \in 1 .. Len(s) : s[i] # x
    <3>1. Fine(d, x)
      BY DEF Whole
    <3>2. E(d, Bubble, x) \in Nat /\ (E(d, Bubble, x) = 0 <=> \A i \in 1 .. Len(s) : s[i] # x)
      BY <2>2, CopiesType DEF E
    <3> QED BY <1>1, <2>4, <3>1, <3>2, Listed
  <2>6. ASSUME NEW i \in 1 .. Len(s)
        PROVE  s[i] \in d.live /\ Q(d, s[i]) = 0 /\ d.w[s[i]] \in Field
    <3>1. PICK x \in Entity : x = s[i]
      OBVIOUS
    <3>2. E(d, Bubble, x) > 0
      BY <2>5, <3>1
    <3> QED BY <2>4, <2>5, <3>1, <3>2
  <2>7. /\ Whole(k)
        /\ k.live = d.live /\ k.astray = d.astray
        /\ \A i \in 1 .. Len(s) : k.w[s[i]] = to
        /\ \A x \in Entity : (\A i \in 1 .. Len(s) : s[i] # x) => Same(d, k, x)
    BY <2>3, <2>4, <2>6, TransitAllWhole
  <2>8. k \in World
    BY <2>7 DEF Whole
  <2>9. h = [k EXCEPT !.bubble = "marked"]
    BY <2>1, <2>2, <2>3
  <2>10. h \in World
    BY <2>8, <2>9 DEF World
  <2>11. /\ h.live = k.live /\ h.w = k.w /\ h.observers = k.observers
         /\ h.el = k.el /\ h.bl = k.bl /\ h.undockque = k.undockque
         /\ h.bubble = "marked" /\ h.astray = k.astray
    BY <2>8, <2>9 DEF World
  <2>12. ASSUME NEW x \in Entity PROVE Fine(h, x)
    <3>1. Fine(k, x)
      BY <2>7 DEF Whole
    <3>2. E(k, Bubble, x) = 0
      <4>1. CASE \A i \in 1 .. Len(s) : s[i] # x
        BY <2>4, <2>5, <2>7, <4>1 DEF Same
      <4>2. CASE \E i \in 1 .. Len(s) : s[i] = x
        <5>1. k.w[x] = to
          BY <2>7, <4>2
        <5>2. E(k, Bubble, x) \in Nat
          BY <2>4, <2>8, Counts
        <5> QED BY <2>4, <2>8, <3>1, <5>1, <5>2, Listed
      <4> QED BY <4>1, <4>2
    <3>5. E(h, Bubble, x) = 0
      BY <2>11, <3>2 DEF E
    <3>6. \A f \in Field : E(h, f, x) = E(k, f, x) /\ B(h, f, x) = B(k, f, x)
      BY <2>11 DEF E, B
    <3>7. \A f \in Field : Owns(h, f, x) = Owns(k, f, x)
      BY <2>11 DEF Owns
    <3>8. Watched(k, x) => Watched(h, x)
      BY <2>11, <3>7 DEF Watched
    <3> QED BY <2>11, <3>1, <3>5, <3>6, <3>7, <3>8 DEF Fine
  <2> QED BY <2>7, <2>10, <2>11, <2>12 DEF Whole
<1> QED BY <1>3, <1>4, <1>5 DEF Warped

-----------------------------------------------------------------------------
(* The walk *)

\* The world is whole or astray, and the walk is at an entry of the list.
FieldsInv ==
  /\ Whole(g)
  /\ place \in 0 .. 6
  /\ ~g.astray => /\ next \in Entity \cup {END}
                  /\ place > 0 => next \in ToSet(List(g, place)) \cup {END}

\* There are six lists to walk.
LEMMA SixLists ==
  /\ Len(Lists) = 6
  /\ \A p \in 1 .. 6 : Lists[p][1] \in {Bubble, Home, Outer}
  BY DEF Lists

\* A list that is walked.
LEMMA ListIs ==
  ASSUME NEW d \in World, NEW p \in 1 .. 6
  PROVE  \E f \in {Bubble, Home, Outer} :
           List(d, p) \in {d.el[f], d.bl[f]} /\ List(d, p) \in Seq(Entity)
<1>1. PICK f \in {Bubble, Home, Outer} : f = Lists[p][1]
  BY SixLists
<1>2. List(d, p) \in {d.el[f], d.bl[f]}
  BY <1>1 DEF List
<1>3. d.el[f] \in Seq(Entity) /\ d.bl[f] \in Seq(Entity)
  BY Parts, FieldsAre
<1> QED BY <1>2, <1>3

\* Who is in a list that is walked lives, in the field of the list.
LEMMA WalkedLives ==
  ASSUME NEW d, Whole(d), ~d.astray, NEW p \in 1 .. 6, NEW e \in ToSet(List(d, p))
  PROVE  e \in Entity /\ e \in d.live /\ d.w[e] \in {Bubble, Home, Outer}
<1>1. d \in World
  BY DEF Whole
<1>2. PICK f \in {Bubble, Home, Outer} :
        List(d, p) \in {d.el[f], d.bl[f]} /\ List(d, p) \in Seq(Entity)
  BY <1>1, ListIs
<1>3. PICK s \in Seq(Entity) : s = List(d, p)
  BY <1>2
<1>4. e \in Entity
  BY <1>3 DEF ToSet
<1>5. Copies(s, e) > 0
  BY <1>3, InList
<1>6. E(d, f, e) > 0 \/ B(d, f, e) > 0
  BY <1>2, <1>3, <1>5 DEF E, B
<1>7. f \in Field /\ Fine(d, e)
  BY <1>4, FieldsAre DEF Whole
<1>8. E(d, f, e) \in Nat /\ B(d, f, e) \in Nat
  BY <1>1, <1>7, Counts
<1>9. e \in d.live
  BY <1>6, <1>7 DEF Fine
<1>10. d.w[e] = f
  BY <1>1, <1>4, <1>6, <1>7, <1>9, Listed
<1> QED BY <1>4, <1>9, <1>10

\* What a walk begins with is in the list.
LEMMA BeginIs ==
  ASSUME NEW s \in Seq(Entity)
  PROVE  Begin(s) \in ToSet(s) \cup {END} /\ Begin(s) \in Entity \cup {END}
<1>1. CASE s = <<>>
  BY <1>1 DEF Begin
<1>2. CASE s # <<>>
  <2>1. Begin(s) = Head(s)
    BY <1>2 DEF Begin
  <2>2. PICK e : e = Head(s)
    OBVIOUS
  <2>3. e \in Entity /\ Copies(s, e) > 0
    BY <1>2, <2>2, InList
  <2>4. e \in ToSet(s)
    BY <2>3, InList
  <2> QED BY <2>1, <2>2, <2>3, <2>4
<1> QED BY <1>1, <1>2

\* An entity's turn keeps the invariant, if what it makes of the world is whole.
LEMMA WalkKeeps ==
  ASSUME FieldsInv, NEW e, NEW d, Whole(d), Walk(e, d)
  PROVE  FieldsInv'
<1>1. d \in World /\ d.astray \in BOOLEAN
  BY Parts DEF Whole
<1>2. PICK b \in BOOLEAN : b = (d.astray \/ next' \notin ToSet(List(d, place)) \cup {END})
  BY <1>1
<1>3. g' = [d EXCEPT !.astray = b]
  BY <1>1, <1>2 DEF Walk, World
<1>4. g' \in World
  BY <1>1, <1>3 DEF World
<1>5. /\ g'.live = d.live /\ g'.w = d.w /\ g'.observers = d.observers
      /\ g'.el = d.el /\ g'.bl = d.bl /\ g'.undockque = d.undockque
      /\ g'.bubble = d.bubble /\ g'.astray = b
  BY <1>1, <1>3 DEF World
<1>6. PICK k \in World : k = g'
  BY <1>4
<1>7. Whole(k)
  BY <1>1, <1>2, <1>5, <1>6, AsWhole
<1>8. place' = place /\ place \in 1 .. 6
  BY DEF Walk, FieldsInv
<1>9. List(k, place) = List(d, place)
  BY <1>5, <1>6 DEF List
<1>10. PICK s \in Seq(Entity) : s = List(d, place)
  BY <1>1, <1>8, ListIs
<1>11. ToSet(s) \subseteq Entity
  BY DEF ToSet
<1>12. ~k.astray => next' \in ToSet(s) \cup {END}
  BY <1>2, <1>5, <1>6, <1>10
<1>13. ~k.astray => /\ next' \in Entity \cup {END}
                    /\ place' > 0 => next' \in ToSet(List(k, place')) \cup {END}
  BY <1>8, <1>9, <1>10, <1>11, <1>12
<1>14. Whole(g') /\ place' \in 0 .. 6
  BY <1>6, <1>7, <1>8
<1> QED BY <1>6, <1>13, <1>14 DEF FieldsInv

\* Whose turn it is lives.
LEMMA TurnLives ==
  ASSUME FieldsInv, place > 0, ~g.astray, next \in Entity
  PROVE  /\ Whole(g) /\ place \in 1 .. 6
         /\ next \in g.live /\ g.w[next] \in {Bubble, Home, Outer}
<1>1. Whole(g) /\ place \in 1 .. 6 /\ next \in ToSet(List(g, place)) \cup {END}
  BY DEF FieldsInv
<1>2. next # END
  BY FieldsAssumption
<1>3. next \in ToSet(List(g, place))
  BY <1>1, <1>2
<1> QED BY <1>1, <1>3, WalkedLives

\* FighterAnim.
LEMMA FighterAnimKeeps ==
  ASSUME FieldsInv, NEW e \in Fighter, FighterAnim(e)
  PROVE  FieldsInv'
<1>1. e \in Entity /\ e \notin Shot
  BY EntitiesAre
<1>2. next = e /\ place > 0 /\ ~g.astray
  BY DEF FighterAnim, Walk
<1>3. Whole(g) /\ e \in g.live /\ g.w[e] \in {Bubble, Home, Outer}
  BY <1>1, <1>2, TurnLives
<1>4. g \in World
  BY <1>3 DEF Whole
<1>5. CASE Walk(e, g)
  BY <1>3, <1>5, WalkKeeps
<1>6. CASE \E s \in Shot \cap Free(g) : Walk(e, create(g, s, g.w[e]))
  <2>1. PICK s \in Shot \cap Free(g) : Walk(e, create(g, s, g.w[e]))
    BY <1>6
  <2>2. PICK d : d = create(g, s, g.w[e])
    OBVIOUS
  <2>3. s \in Entity /\ s \notin g.live /\ Q(g, s) = 0
    BY <1>4, FreeIs
  <2>4. PICK f \in Field : f = g.w[e] /\ f # Dock
    BY <1>3, FieldsAre
  <2>5. g.bubble = "marked" => f # Bubble
    BY <1>1, <1>2, <1>3, <2>4, Flying
  <2>6. d = create(g, s, f)
    BY <2>2, <2>4
  <2>7. Whole(d)
    BY <1>3, <2>3, <2>4, <2>5, <2>6, CreateWhole
  <2> QED BY <2>1, <2>2, <2>7, WalkKeeps
<1>7. CASE Walk(e, dock(g, e))
  <2>1. PICK d : d = dock(g, e)
    OBVIOUS
  <2>2. g.w[e] # Dock
    BY <1>3, FieldsAre
  <2>3. Whole(d)
    BY <1>3, <2>1, <2>2, DockWhole
  <2> QED BY <1>7, <2>1, <2>3, WalkKeeps
<1>8. CASE Walk(e, destroy(g, e))
  <2>1. PICK d : d = destroy(g, e)
    OBVIOUS
  <2>2. Whole(d)
    BY <1>1, <1>3, <2>1, DestroyWhole
  <2> QED BY <1>8, <2>1, <2>2, WalkKeeps
<1> QED BY <1>5, <1>6, <1>7, <1>8 DEF FighterAnim

\* ShotAnim.
LEMMA ShotAnimKeeps ==
  ASSUME FieldsInv, NEW e \in Shot, ShotAnim(e)
  PROVE  FieldsInv'
<1>1. Whole(g) /\ e \in Entity
  BY EntitiesAre DEF FieldsInv
<1>2. CASE Walk(e, g)
  BY <1>1, <1>2, WalkKeeps
<1>3. CASE Walk(e, destroy(g, e))
  <2>1. PICK d : d = destroy(g, e)
    OBVIOUS
  <2>2. Whole(d)
    BY <1>1, <2>1, DestroyWhole
  <2> QED BY <1>3, <2>1, <2>2, WalkKeeps
<1> QED BY <1>2, <1>3 DEF ShotAnim

\* YardAnim.
LEMMA YardAnimKeeps ==
  ASSUME FieldsInv, YardAnim
  PROVE  FieldsInv'
<1>1. PICK warped \in Warped(g) :
        \E ready \in SUBSET (IF g.remainDocked THEN {} ELSE ToSet(warped.el[Dock])) :
          LET d == dockerAnim(warped, ready)
          IN  \/ Walk(Yard, d) \/ Walk(Yard, destroy(d, Yard))
              \/ \E e \in Fighter \cap Free(d) :
                   \/ Walk(Yard, finishBuild(d, e))
                   \/ Walk(Yard, destroy(finishBuild(d, e), Yard))
  BY DEF YardAnim
<1>12. PICK ready \in SUBSET (IF g.remainDocked THEN {} ELSE ToSet(warped.el[Dock])) :
        LET d == dockerAnim(warped, ready)
        IN  \/ Walk(Yard, d) \/ Walk(Yard, destroy(d, Yard))
            \/ \E e \in Fighter \cap Free(d) :
                 \/ Walk(Yard, finishBuild(d, e))
                 \/ Walk(Yard, destroy(finishBuild(d, e), Yard))
  BY <1>1
<1>2. PICK d : d = dockerAnim(warped, ready)
  OBVIOUS
<1>3. \/ Walk(Yard, d) \/ Walk(Yard, destroy(d, Yard))
      \/ \E e \in Fighter \cap Free(d) :
           \/ Walk(Yard, finishBuild(d, e))
           \/ Walk(Yard, destroy(finishBuild(d, e), Yard))
  BY <1>12, <1>2
<1>4. next = Yard /\ place > 0 /\ ~g.astray
  BY <1>3 DEF YardAnim, Walk
<1>5. Whole(g) /\ Yard \in g.live /\ Yard \in Entity
  BY <1>4, TurnLives, EntitiesAre
<1>6. Whole(warped) /\ ~warped.astray /\ Yard \in warped.live
  BY <1>4, <1>5, WarpedWhole
<1>7. Whole(d) /\ d.live = warped.live /\ d.w[Yard] = warped.w[Yard]
  BY <1>2, <1>6, DockerAnimWhole
<1>8. d.w[Yard] \in Field
  BY <1>6, <1>7, EntitiesAre, Flying
<1>9. CASE Walk(Yard, d)
  BY <1>7, <1>9, WalkKeeps
<1>10. CASE Walk(Yard, destroy(d, Yard))
  <2>1. PICK k : k = destroy(d, Yard)
    OBVIOUS
  <2>2. Whole(k)
    BY <1>5, <1>7, <2>1, DestroyWhole
  <2> QED BY <1>10, <2>1, <2>2, WalkKeeps
<1>11. ASSUME NEW e \in Fighter \cap Free(d),
              \/ Walk(Yard, finishBuild(d, e))
              \/ Walk(Yard, destroy(finishBuild(d, e), Yard))
       PROVE  FieldsInv'
  <2>1. PICK k : k = finishBuild(d, e)
    OBVIOUS
  <2>2. Whole(k)
    BY <1>6, <1>7, <1>8, <2>1, FinishBuildWhole
  <2>3. PICK m : m = destroy(k, Yard)
    OBVIOUS
  <2>4. Whole(m)
    BY <1>5, <2>2, <2>3, DestroyWhole
  <2>5. Walk(Yard, k) \/ Walk(Yard, m)
    BY <1>11, <2>1, <2>3
  <2> QED BY <2>2, <2>4, <2>5, WalkKeeps
<1> QED BY <1>3, <1>9, <1>10, <1>11

\* CoordSys::endframe.
LEMMA EndFrameKeeps ==
  ASSUME FieldsInv, EndFrame
  PROVE  FieldsInv'
<1>1. /\ Whole(g) /\ ~g.astray /\ place' = 0 /\ next' = next
      /\ next \in Entity \cup {END}
  BY DEF FieldsInv, EndFrame
<1>2. CASE g.bubble = "marked"
  <2>1. PICK to \in {Home, Outer} :
          g' = [deleteField(g, Bubble, to) EXCEPT !.bubble = "none"]
    BY <1>2 DEF EndFrame
  <2>2. PICK k : k = deleteField(g, Bubble, to)
    OBVIOUS
  <2>3. Bubble \in Field /\ to # Bubble
    BY FieldsAre
  <2>4. ~g.astray /\ Yard \in g.live => g.w[Yard] # Bubble
    BY <1>1, <1>2, EntitiesAre, Flying
  <2>5. Whole(k)
    BY <1>1, <2>2, <2>3, <2>4, DeleteFieldWhole
  <2>6. PICK h : h = [k EXCEPT !.bubble = "none"]
    OBVIOUS
  <2>7. k \in World
    BY <2>5 DEF Whole
  <2>8. h \in World
    BY <2>6, <2>7 DEF World
  <2>9. /\ h.live = k.live /\ h.w = k.w /\ h.observers = k.observers
        /\ h.el = k.el /\ h.bl = k.bl /\ h.undockque = k.undockque
        /\ h.bubble = "none" /\ h.astray = k.astray
    BY <2>6, <2>7 DEF World
  <2>10. Whole(h)
    BY <2>5, <2>8, <2>9, AsWhole
  <2>11. g' = h
    BY <2>1, <2>2, <2>6
  <2> QED BY <1>1, <2>10, <2>11 DEF FieldsInv
<1>3. CASE g.bubble # "marked"
  <2>1. g' = g
    BY <1>3 DEF EndFrame
  <2> QED BY <1>1, <2>1 DEF FieldsInv
<1> QED BY <1>2, <1>3

\* Every step keeps the invariant.
LEMMA StepKeeps ==
  ASSUME FieldsInv, [Next]_vars
  PROVE  FieldsInv'
<1>1. Whole(g) /\ g \in World /\ place \in 0 .. 6
  BY DEF FieldsInv, Whole
<1>2. ASSUME NEW p \in 1 .. 6
      PROVE  /\ Begin(List(g, p)) \in ToSet(List(g, p)) \cup {END}
             /\ Begin(List(g, p)) \in Entity \cup {END}
  <2>1. PICK s \in Seq(Entity) : s = List(g, p)
    BY <1>1, ListIs
  <2> QED BY <2>1, BeginIs
<1>3. CASE StartFrame
  <2>1. g' = g /\ place' = 1 /\ next' = Begin(List(g, 1))
    BY <1>3 DEF StartFrame
  <2> QED BY <1>1, <1>2, <2>1 DEF FieldsInv
<1>4. CASE NextList
  <2>1. g' = g /\ place' = place + 1 /\ next' = Begin(List(g, place + 1))
        /\ place \in 1 .. 5
    BY <1>4, SixLists DEF NextList
  <2>2. place' \in 1 .. 6 /\ next' = Begin(List(g, place'))
    BY <2>1
  <2>3. PICK p \in 1 .. 6 : p = place'
    BY <2>2
  <2>4. next' \in ToSet(List(g, p)) \cup {END} /\ next' \in Entity \cup {END}
    BY <1>2, <2>2, <2>3
  <2> QED BY <1>1, <2>1, <2>2, <2>3, <2>4 DEF FieldsInv
<1>5. CASE EndFrame
  BY <1>5, EndFrameKeeps
<1>6. CASE YardAnim
  BY <1>6, YardAnimKeeps
<1>7. CASE \E e \in Fighter : FighterAnim(e)
  BY <1>7, FighterAnimKeeps
<1>8. CASE \E e \in Shot : ShotAnim(e)
  BY <1>8, ShotAnimKeeps
<1>9. ASSUME NEW e \in Entity, Kill(e) PROVE FieldsInv'
  <2>1. PICK d : d = destroy(g, e)
    OBVIOUS
  <2>2. Whole(d)
    BY <1>1, <2>1, DestroyWhole
  <2>3. g' = d /\ place' = 0 /\ next' = next /\ place = 0 /\ ~g.astray
    BY <1>9, <2>1 DEF Kill
  <2> QED BY <2>2, <2>3 DEF FieldsInv
<1>10. ASSUME NEW e \in Fighter, UndockQueue(e) PROVE FieldsInv'
  <2>1. PICK d : d = postUndock(g, e)
    OBVIOUS
  <2>2. Whole(d)
    BY <1>1, <2>1, PostUndock
  <2>3. g' = d /\ place' = 0 /\ next' = next /\ place = 0 /\ ~g.astray
    BY <1>10, <2>1 DEF UndockQueue
  <2> QED BY <2>2, <2>3 DEF FieldsInv
<1>11. CASE RemainDocked
  <2>1. PICK b \in BOOLEAN : b = ~g.remainDocked
    BY <1>1, Parts
  <2>2. PICK h : h = [g EXCEPT !.remainDocked = b]
    OBVIOUS
  <2>3. h \in World
    BY <1>1, <2>2 DEF World
  <2>4. /\ h.live = g.live /\ h.w = g.w /\ h.observers = g.observers
        /\ h.el = g.el /\ h.bl = g.bl /\ h.undockque = g.undockque
        /\ h.bubble = g.bubble /\ h.astray = g.astray
    BY <1>1, <2>2 DEF World
  <2>5. Whole(h)
    BY <1>1, <2>3, <2>4, AsWhole
  <2>6. g' = h /\ place' = 0 /\ next' = next /\ place = 0 /\ ~g.astray
    BY <1>11, <2>1, <2>2 DEF RemainDocked
  <2> QED BY <2>5, <2>6 DEF FieldsInv
<1>12. CASE UNCHANGED vars
  <2>1. g' = g /\ place' = place /\ next' = next
    BY <1>12 DEF vars
  <2> QED BY <2>1 DEF FieldsInv
<1> QED BY <1>3, <1>4, <1>5, <1>6, <1>7, <1>8, <1>9, <1>10, <1>11, <1>12 DEF Next, Frame

\* The Shipyard is made.
LEMMA InitKeeps ==
  ASSUME Init
  PROVE  FieldsInv
<1> DEFINE w0 == [e \in Entity |-> NULL]
           o0 == [e \in Entity |-> NoObservers]
           l0 == [f \in Field |-> <<>>]
<1>1. PICK d : d = [live |-> {}, w |-> w0, observers |-> o0, el |-> l0, bl |-> l0,
                    undockque |-> <<>>, baycool |-> 0, remainDocked |-> FALSE,
                    bubble |-> "none", astray |-> FALSE]
  OBVIOUS
<1>2. g = create(d, Yard, Home) /\ place = 0 /\ next = END
  BY <1>1 DEF Init
<1>3. NoObservers \in [Field \cup {Gone} -> Int]
      /\ \A f \in Field \cup {Gone} : NoObservers[f] = 0
  BY DEF NoObservers
<1>4. <<>> \in Seq(Entity) /\ <<>> \in Seq(Fighter)
  OBVIOUS
<1>5. /\ w0 \in [Entity -> Field \cup {Gone, NULL}]
      /\ o0 \in [Entity -> [Field \cup {Gone} -> Int]] /\ \A e \in Entity : o0[e] = NoObservers
      /\ l0 \in [Field -> Seq(Entity)] /\ \A f \in Field : l0[f] = <<>>
  BY <1>3, <1>4
<1> HIDE DEF w0, o0, l0
<1>6. d \in World
  BY <1>1, <1>4, <1>5 DEF World
<1>7. /\ d.live = {} /\ d.observers = o0 /\ d.el = l0 /\ d.bl = l0 /\ d.undockque = <<>>
      /\ d.bubble = "none"
  BY <1>1
<1>8. ASSUME NEW e \in Entity PROVE Fine(d, e) /\ Q(d, e) = 0
  <2>1. Copies(<<>>, e) = 0
    BY CopiesNone
  <2>2. /\ \A f \in Field : E(d, f, e) = 0 /\ B(d, f, e) = 0
        /\ Q(d, e) = 0
    BY <1>5, <1>7, <2>1 DEF E, B, Q
  <2>3. \A f \in Field \cup {Gone} : d.observers[e][f] = 0
    BY <1>3, <1>5, <1>7
  <2> QED BY <1>7, <2>2, <2>3 DEF Fine
<1>9. Whole(d)
  BY <1>6, <1>8 DEF Whole
<1>10. Yard \in Entity /\ Home \in Field /\ Home # Dock /\ Home # Bubble
  BY EntitiesAre, FieldsAre
<1>11. Whole(g)
  BY <1>2, <1>7, <1>8, <1>9, <1>10, CreateWhole
<1> QED BY <1>2, <1>11 DEF FieldsInv

\* The worlds of all behaviours are whole or astray.
THEOREM WorldsAreWhole == Spec => []FieldsInv
<1>1. Init => FieldsInv
  BY InitKeeps
<1>2. FieldsInv /\ [Next]_vars => FieldsInv'
  BY StepKeeps
<1> QED BY <1>1, <1>2, PTL DEF Spec

-----------------------------------------------------------------------------
(* What follows *)

\* Every variable has its type; the bay's timer never runs below zero.
THEOREM FieldsTyped == Spec => []TypeOK
<1>1. FieldsInv => TypeOK
  <2> SUFFICES ASSUME FieldsInv, ~g.astray PROVE TypeOK
    BY DEF TypeOK
  <2>1. g \in World /\ \A e \in Entity : Fine(g, e)
    BY DEF FieldsInv, Whole
  <2>2. /\ g.live \in SUBSET Entity /\ g.w \in [Entity -> Field \cup {Gone, NULL}]
        /\ g.observers \in [Entity -> [Field \cup {Gone} -> Int]]
        /\ g.el \in [Field -> Seq(Entity)] /\ g.bl \in [Field -> Seq(Entity)]
        /\ g.undockque \in Seq(Fighter) /\ g.baycool \in Nat
        /\ g.remainDocked \in BOOLEAN /\ g.bubble \in {"none", "open", "marked"}
        /\ g.astray \in BOOLEAN
    BY <2>1, Parts
  <2>3. ASSUME NEW e \in Entity, NEW f \in Field \cup {Gone} PROVE g.observers[e][f] \in Nat
    <3>1. g.observers[e][f] \in Int
      BY <2>2
    <3>2. g.observers[e][f] >= 0
      BY <2>1 DEF Fine, Watched
    <3> QED BY <3>1, <3>2
  <2>4. g.observers \in [Entity -> [Field \cup {Gone} -> Nat]]
    BY <2>2, <2>3
  <2>5. ASSUME NEW f \in Field PROVE g.el[f] \in Seq(Entity) /\ g.bl[f] \in Seq(Shot)
    <3>1. PICK s \in Seq(Entity) : s = g.bl[f]
      BY <2>2
    <3>2. \A e \in Entity : Copies(s, e) > 0 => e \in Shot
      BY <2>1, <3>1 DEF Fine, B
    <3>3. s \in Seq(Shot)
      BY <3>2, ListOf
    <3> QED BY <2>2, <3>1, <3>3
  <2>6. place \in 0 .. Len(Lists) /\ next \in Entity \cup {END}
    BY SixLists DEF FieldsInv
  <2> QED BY <2>2, <2>4, <2>5, <2>6 DEF TypeOK
<1> QED BY <1>1, WorldsAreWhole, PTL

\* At no moment do two fields own an Entity, nor one of them twice.
THEOREM OneFieldOwns == Spec => []OneOwner
<1>1. FieldsInv => OneOwner
  <2> SUFFICES ASSUME FieldsInv, ~g.astray, NEW e \in g.live, NEW f \in Field
               PROVE  Owns(g, f, e) = IF g.w[e] = f THEN 1 ELSE 0
    BY DEF OneOwner
  <2>1. e \in Entity /\ Fine(g, e)
    BY Parts DEF FieldsInv, Whole
  <2> QED BY <2>1 DEF Fine
<1> QED BY <1>1, WorldsAreWhole, PTL

\* A field observes a living Entity once for each place it has it in.
THEOREM OwnersObserve == Spec => []ObservesOwned
<1>1. FieldsInv => ObservesOwned
  <2> SUFFICES ASSUME FieldsInv, ~g.astray, NEW e \in g.live, NEW f \in Field
               PROVE  g.observers[e][f] = Owns(g, f, e)
    BY DEF ObservesOwned
  <2>1. e \in Entity /\ Fine(g, e)
    BY Parts DEF FieldsInv, Whole
  <2> QED BY <2>1 DEF Fine, Watched
<1> QED BY <1>1, WorldsAreWhole, PTL

\* No field's list has an Entity that was deleted.
THEOREM ListedLive == Spec => []ListsLive
<1>1. FieldsInv => ListsLive
  <2> SUFFICES ASSUME FieldsInv, ~g.astray, NEW f \in Field,
                      NEW e \in ToSet(g.el[f]) \cup ToSet(g.bl[f])
               PROVE  e \in g.live
    BY DEF ListsLive
  <2>1. g \in World
    BY DEF FieldsInv, Whole
  <2>2. PICK s \in Seq(Entity), t \in Seq(Entity) : s = g.el[f] /\ t = g.bl[f]
    BY <2>1, Parts
  <2>3. e \in Entity /\ (Copies(s, e) > 0 \/ Copies(t, e) > 0)
    <3>1. CASE e \in ToSet(s)
      <4>1. e \in Entity
        BY <3>1 DEF ToSet
      <4> QED BY <3>1, <4>1, InList
    <3>2. CASE e \in ToSet(t)
      <4>1. e \in Entity
        BY <3>2 DEF ToSet
      <4> QED BY <3>2, <4>1, InList
    <3> QED BY <2>2, <3>1, <3>2
  <2>4. E(g, f, e) > 0 \/ B(g, f, e) > 0
    BY <2>2, <2>3 DEF E, B
  <2>5. Fine(g, e)
    BY <2>3 DEF FieldsInv, Whole
  <2> QED BY <2>4, <2>5 DEF Fine
<1> QED BY <1>1, WorldsAreWhole, PTL

\* A bubble is empty of ships when it is deleted.
THEOREM BubbleIsEmptied == Spec => []BubbleEmptied
<1>1. FieldsInv => BubbleEmptied
  <2> SUFFICES ASSUME FieldsInv, g.bubble = "marked", ~g.astray PROVE g.el[Bubble] = <<>>
    BY DEF BubbleEmptied
  <2>1. g \in World
    BY DEF FieldsInv, Whole
  <2>2. PICK s \in Seq(Entity) : s = g.el[Bubble]
    BY <2>1, Parts, FieldsAre
  <2>3. \A e \in Entity : Copies(s, e) = 0
    BY <2>2 DEF FieldsInv, Whole, Fine, E
  <2>4. s = <<>>
    BY <2>3, InList
  <2> QED BY <2>2, <2>4
<1> QED BY <1>1, WorldsAreWhole, PTL
=============================================================================
