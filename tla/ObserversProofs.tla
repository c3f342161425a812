---------------------------- MODULE ObserversProofs ----------------------------
(***************************************************************************)
(* Proofs about module Observers: where no list is given an object twice,  *)
(* the counts are exact, nothing dangles, and the whole is an              *)
(* implementation of WeakRefs, for any objects and any observers.          *)
(***************************************************************************)
EXTENDS Observers, TLAPS

\* CountsMatch and NoDangling for each kind of observer.
PtrsCounted == \A p \in WeakPtr :
  /\ ptr[p] # NULL => ptr[p] \in live
  /\ \A o \in live : observers[o][p] = IF ptr[p] = o THEN 1 ELSE 0

SetsCounted == \A s \in OSet :
  /\ set_[s] \subseteq live
  /\ \A o \in live : observers[o][s] = IF o \in set_[s] THEN 1 ELSE 0

ListsCounted == \A l \in OList :
  /\ \A o \in Object : list_[l][o] \in {0, 1}
  /\ \A o \in Object : list_[l][o] > 0 => o \in live
  /\ \A o \in live : observers[o][l] = list_[l][o]

MapsCounted == \A m \in OMap :
  /\ map[m] \subseteq live
  /\ \A o \in live : observers[o][m] = IF o \in map[m] THEN 1 ELSE 0

\* The inductive invariant.  That a list has an object at most once is what lets
\* Destroy, which takes one copy from a list, leave none.
IInv == TypeOK /\ PtrsCounted /\ SetsCounted /\ ListsCounted /\ MapsCounted /\ AssertHolds

-----------------------------------------------------------------------------
(* What a count is for each kind of observer.                              *)

\* How often an object is referred to by each kind of observer.
LEMMA RefsIs ==
  ASSUME NEW o
  PROVE  /\ \A p \in WeakPtr : Refs(p, o) = IF ptr[p] = o THEN 1 ELSE 0
         /\ \A s \in OSet : Refs(s, o) = IF o \in set_[s] THEN 1 ELSE 0
         /\ \A l \in OList : Refs(l, o) = list_[l][o]
         /\ \A m \in OMap : Refs(m, o) = IF o \in map[m] THEN 1 ELSE 0
BY ObserversAssumption DEF Refs

\* The same in the next state.
LEMMA RefsIsNext ==
  ASSUME NEW o
  PROVE  /\ \A p \in WeakPtr : Refs(p, o)' = IF ptr'[p] = o THEN 1 ELSE 0
         /\ \A s \in OSet : Refs(s, o)' = IF o \in set_'[s] THEN 1 ELSE 0
         /\ \A l \in OList : Refs(l, o)' = list_'[l][o]
         /\ \A m \in OMap : Refs(m, o)' = IF o \in map'[m] THEN 1 ELSE 0
BY ObserversAssumption DEF Refs

\* The counts of the invariant are CountsMatch, that an object knows each of its
\* observers as often as it is referred to (Observable.h).
LEMMA CountsFollow == IInv => CountsMatch
BY RefsIs DEF IInv, CountsMatch, Observer, PtrsCounted, SetsCounted, ListsCounted, MapsCounted

\* Nobody refers to a destroyed object (Observable.h, ~Observable).
LEMMA DanglingFollow == IInv => NoDangling
<1> SUFFICES ASSUME IInv, NEW o \in Object \ live, NEW x \in Observer
             PROVE  Refs(x, o) = 0
  BY DEF NoDangling
<1>1. CASE x \in WeakPtr
  BY <1>1, RefsIs, ObserversAssumption DEF IInv, PtrsCounted
<1>2. CASE x \in OSet
  BY <1>2, RefsIs DEF IInv, SetsCounted
<1>3. CASE x \in OList
  <2>1. list_[x][o] \in {0, 1} /\ ~(list_[x][o] > 0)
    BY <1>3 DEF IInv, ListsCounted
  <2> QED BY <2>1, <1>3, RefsIs
<1>4. CASE x \in OMap
  BY <1>4, RefsIs DEF IInv, MapsCounted
<1> QED BY <1>1, <1>2, <1>3, <1>4 DEF Observer

-----------------------------------------------------------------------------
(* The steps.                                                              *)

\* Nothing exists, nothing is referred to.
LEMMA InitInv == Init => IInv
<1> SUFFICES ASSUME Init PROVE IInv
  OBVIOUS
<1>1. TypeOK /\ AssertHolds
  BY DEF Init, TypeOK, NoObservers, AssertHolds
<1>2. PtrsCounted
  BY DEF Init, PtrsCounted
<1>3. SetsCounted /\ MapsCounted
  BY DEF Init, SetsCounted, MapsCounted
<1>4. ListsCounted
  BY DEF Init, ListsCounted
<1> QED BY <1>1, <1>2, <1>3, <1>4 DEF IInv

\* Counting one reference more or less keeps the counts natural numbers.
LEMMA CountsTyped ==
  ASSUME NEW obs \in [Object -> [Observer -> Nat]], NEW o \in Object, NEW x \in Observer
  PROVE  /\ addObserver(obs, o, x) \in [Object -> [Observer -> Nat]]
         /\ removeObserver(obs, o, x) \in [Object -> [Observer -> Nat]]
BY DEF addObserver, removeObserver

\* A new object has no observers.
LEMMA CreateInv ==
  ASSUME IInv, NEW o \in Object, Create(o)
  PROVE  IInv'
<1> USE DEF IInv
<1>1. TypeOK' /\ AssertHolds'
  BY DEF TypeOK, Create, NoObservers, AssertHolds
<1>2. PtrsCounted'
  BY ObserversAssumption DEF Create, PtrsCounted, TypeOK, NoObservers, Observer
<1>3. SetsCounted'
  BY DEF Create, SetsCounted, TypeOK, NoObservers, Observer
<1>4. ListsCounted'
  BY DEF Create, ListsCounted, TypeOK, NoObservers, Observer
<1>5. MapsCounted'
  BY DEF Create, MapsCounted, TypeOK, NoObservers, Observer
<1> QED BY <1>1, <1>2, <1>3, <1>4, <1>5

\* ~Observable tells every observer, which forgets the object.
LEMMA DestroyInv ==
  ASSUME IInv, NEW o \in Object, Destroy(o)
  PROVE  IInv'
<1> USE DEF IInv
<1>1. TypeOK' /\ AssertHolds'
  BY DEF TypeOK, Destroy, NoObservers, AssertHolds, ListsCounted
<1>2. PtrsCounted'
  BY ObserversAssumption DEF Destroy, PtrsCounted, TypeOK, NoObservers, Observer
<1>3. SetsCounted'
  BY DEF Destroy, SetsCounted, TypeOK, NoObservers, Observer
<1>4. ListsCounted'
  BY DEF Destroy, ListsCounted, TypeOK, NoObservers, Observer
<1>5. MapsCounted'
  BY DEF Destroy, MapsCounted, TypeOK, NoObservers, Observer
<1> QED BY <1>1, <1>2, <1>3, <1>4, <1>5

\* WeakPtr::operator= leaves the old object and observes the new one.
LEMMA AssignInv ==
  ASSUME IInv, NEW p \in WeakPtr, NEW t \in Object \cup {NULL}, Assign(p, t)
  PROVE  IInv'
<1> USE DEF IInv
<1>1. TypeOK'
  <2>1. observers' \in [Object -> [Observer -> Nat]]
    <3> DEFINE left == IF ptr[p] # NULL THEN removeObserver(observers, ptr[p], p) ELSE observers
    <3>1. left \in [Object -> [Observer -> Nat]]
      BY CountsTyped DEF TypeOK, Observer
    <3>2. observers' = IF t # NULL THEN addObserver(left, t, p) ELSE left
      BY DEF Assign
    <3> QED BY <3>1, <3>2, CountsTyped, p \in Observer DEF Observer
  <2>2. failed' \in BOOLEAN
    BY Zenon DEF TypeOK, Assign
  <2> QED BY <2>1, <2>2 DEF TypeOK, Assign
<1>2. AssertHolds'
  BY ObserversAssumption DEF Assign, AssertHolds, Removable, PtrsCounted, TypeOK, Observer
<1>3. PtrsCounted'
  BY ObserversAssumption DEF Assign, addObserver, removeObserver, PtrsCounted, TypeOK, Observer
<1>4. SetsCounted'
  BY ObserversAssumption DEF Assign, addObserver, removeObserver, SetsCounted, TypeOK, Observer
<1>5. ListsCounted'
  BY ObserversAssumption DEF Assign, addObserver, removeObserver, ListsCounted, TypeOK, Observer
<1>6. MapsCounted'
  BY ObserversAssumption DEF Assign, addObserver, removeObserver, MapsCounted, TypeOK, Observer
<1> QED BY <1>1, <1>2, <1>3, <1>4, <1>5, <1>6

\* ObservableSet::insert.
LEMMA SetInsertInv ==
  ASSUME IInv, NEW s \in OSet, NEW o \in Object, SetInsert(s, o)
  PROVE  IInv'
<1> USE DEF IInv
<1>1. TypeOK'
  <2>1. observers' \in [Object -> [Observer -> Nat]]
    BY CountsTyped DEF TypeOK, SetInsert, Observer
  <2>2. failed' \in BOOLEAN
    BY Zenon DEF TypeOK, SetInsert
  <2> QED BY <2>1, <2>2 DEF TypeOK, SetInsert
<1>2. AssertHolds'
  BY ObserversAssumption DEF SetInsert, AssertHolds, Removable, SetsCounted, TypeOK, Observer
<1>3. PtrsCounted'
  BY ObserversAssumption DEF SetInsert, addObserver, removeObserver, PtrsCounted, TypeOK, Observer
<1>4. SetsCounted'
  BY ObserversAssumption DEF SetInsert, addObserver, removeObserver, SetsCounted, TypeOK, Observer
<1>5. ListsCounted'
  BY ObserversAssumption DEF SetInsert, addObserver, removeObserver, ListsCounted, TypeOK, Observer
<1>6. MapsCounted'
  BY ObserversAssumption DEF SetInsert, addObserver, removeObserver, MapsCounted, TypeOK, Observer
<1> QED BY <1>1, <1>2, <1>3, <1>4, <1>5, <1>6

\* ObservableSet::erase.
LEMMA SetEraseInv ==
  ASSUME IInv, NEW s \in OSet, NEW o \in Object, SetErase(s, o)
  PROVE  IInv'
<1> USE DEF IInv
<1>1. TypeOK'
  <2>1. observers' \in [Object -> [Observer -> Nat]]
    BY CountsTyped DEF TypeOK, SetErase, Observer
  <2>2. failed' \in BOOLEAN
    BY Zenon DEF TypeOK, SetErase
  <2> QED BY <2>1, <2>2 DEF TypeOK, SetErase
<1>2. AssertHolds'
  BY ObserversAssumption DEF SetErase, AssertHolds, Removable, SetsCounted, TypeOK, Observer
<1>3. PtrsCounted'
  BY ObserversAssumption DEF SetErase, addObserver, removeObserver, PtrsCounted, TypeOK, Observer
<1>4. SetsCounted'
  BY ObserversAssumption DEF SetErase, addObserver, removeObserver, SetsCounted, TypeOK, Observer
<1>5. ListsCounted'
  BY ObserversAssumption DEF SetErase, addObserver, removeObserver, ListsCounted, TypeOK, Observer
<1>6. MapsCounted'
  BY ObserversAssumption DEF SetErase, addObserver, removeObserver, MapsCounted, TypeOK, Observer
<1> QED BY <1>1, <1>2, <1>3, <1>4, <1>5, <1>6

\* ObservableList::push_back, where a list holds an object once.
LEMMA ListPushInv ==
  ASSUME IInv, MaxCopies = 1, NEW l \in OList, NEW o \in Object, ListPush(l, o)
  PROVE  IInv'
<1> USE DEF IInv
<1>1. TypeOK'
  <2>1. observers' \in [Object -> [Observer -> Nat]]
    BY CountsTyped DEF TypeOK, ListPush, Observer
  <2>2. failed' \in BOOLEAN
    BY Zenon DEF TypeOK, ListPush
  <2> QED BY <2>1, <2>2 DEF TypeOK, ListPush
<1>2. AssertHolds'
  BY ObserversAssumption DEF ListPush, AssertHolds, Removable, ListsCounted, TypeOK, Observer
<1>3. PtrsCounted'
  BY ObserversAssumption DEF ListPush, addObserver, removeObserver, PtrsCounted, TypeOK, Observer
<1>4. SetsCounted'
  BY ObserversAssumption DEF ListPush, addObserver, removeObserver, SetsCounted, TypeOK, Observer
<1>5. ListsCounted'
  BY ObserversAssumption DEF ListPush, addObserver, removeObserver, ListsCounted, TypeOK, Observer
<1>6. MapsCounted'
  BY ObserversAssumption DEF ListPush, addObserver, removeObserver, MapsCounted, TypeOK, Observer
<1> QED BY <1>1, <1>2, <1>3, <1>4, <1>5, <1>6

\* ObservableList::erase.
LEMMA ListEraseInv ==
  ASSUME IInv, NEW l \in OList, NEW o \in Object, ListErase(l, o)
  PROVE  IInv'
<1> USE DEF IInv
<1>1. TypeOK'
  <2>1. observers' \in [Object -> [Observer -> Nat]]
    BY CountsTyped DEF TypeOK, ListErase, Observer
  <2>2. failed' \in BOOLEAN
    BY Zenon DEF TypeOK, ListErase
  <2> QED BY <2>1, <2>2 DEF TypeOK, ListErase
<1>2. AssertHolds'
  BY ObserversAssumption DEF ListErase, AssertHolds, Removable, ListsCounted, TypeOK, Observer
<1>3. PtrsCounted'
  BY ObserversAssumption DEF ListErase, addObserver, removeObserver, PtrsCounted, TypeOK, Observer
<1>4. SetsCounted'
  BY ObserversAssumption DEF ListErase, addObserver, removeObserver, SetsCounted, TypeOK, Observer
<1>5. ListsCounted'
  BY ObserversAssumption DEF ListErase, addObserver, removeObserver, ListsCounted, TypeOK, Observer
<1>6. MapsCounted'
  BY ObserversAssumption DEF ListErase, addObserver, removeObserver, MapsCounted, TypeOK, Observer
<1> QED BY <1>1, <1>2, <1>3, <1>4, <1>5, <1>6

\* ObservableMap::operator[].
LEMMA MapAtInv ==
  ASSUME IInv, NEW m \in OMap, NEW o \in Object, MapAt(m, o)
  PROVE  IInv'
<1> USE DEF IInv
<1>1. TypeOK'
  <2>1. observers' \in [Object -> [Observer -> Nat]]
    BY CountsTyped DEF TypeOK, MapAt, Observer
  <2>2. failed' \in BOOLEAN
    BY Zenon DEF TypeOK, MapAt
  <2> QED BY <2>1, <2>2 DEF TypeOK, MapAt
<1>2. AssertHolds'
  BY ObserversAssumption DEF MapAt, AssertHolds, Removable, MapsCounted, TypeOK, Observer
<1>3. PtrsCounted'
  BY ObserversAssumption DEF MapAt, addObserver, removeObserver, PtrsCounted, TypeOK, Observer
<1>4. SetsCounted'
  BY ObserversAssumption DEF MapAt, addObserver, removeObserver, SetsCounted, TypeOK, Observer
<1>5. ListsCounted'
  BY ObserversAssumption DEF MapAt, addObserver, removeObserver, ListsCounted, TypeOK, Observer
<1>6. MapsCounted'
  BY ObserversAssumption DEF MapAt, addObserver, removeObserver, MapsCounted, TypeOK, Observer
<1> QED BY <1>1, <1>2, <1>3, <1>4, <1>5, <1>6

\* ObservableMap::erase.
LEMMA MapEraseInv ==
  ASSUME IInv, NEW m \in OMap, NEW o \in Object, MapErase(m, o)
  PROVE  IInv'
<1> USE DEF IInv
<1>1. TypeOK'
  <2>1. observers' \in [Object -> [Observer -> Nat]]
    BY CountsTyped DEF TypeOK, MapErase, Observer
  <2>2. failed' \in BOOLEAN
    BY Zenon DEF TypeOK, MapErase
  <2> QED BY <2>1, <2>2 DEF TypeOK, MapErase
<1>2. AssertHolds'
  BY ObserversAssumption DEF MapErase, AssertHolds, Removable, MapsCounted, TypeOK, Observer
<1>3. PtrsCounted'
  BY ObserversAssumption DEF MapErase, addObserver, removeObserver, PtrsCounted, TypeOK, Observer
<1>4. SetsCounted'
  BY ObserversAssumption DEF MapErase, addObserver, removeObserver, SetsCounted, TypeOK, Observer
<1>5. ListsCounted'
  BY ObserversAssumption DEF MapErase, addObserver, removeObserver, ListsCounted, TypeOK, Observer
<1>6. MapsCounted'
  BY ObserversAssumption DEF MapErase, addObserver, removeObserver, MapsCounted, TypeOK, Observer
<1> QED BY <1>1, <1>2, <1>3, <1>4, <1>5, <1>6

\* ~ObservableSet lets go of all its members.
LEMMA SetClearInv ==
  ASSUME IInv, NEW s \in OSet, SetClear(s)
  PROVE  IInv'
<1> USE DEF IInv
<1>1. TypeOK'
  <2>1. observers' \in [Object -> [Observer -> Nat]]
    <3>1. ASSUME NEW o \in Object PROVE removeObserver(observers, o, s)[o] \in [Observer -> Nat]
      <4>1. observers \in [Object -> [Observer -> Nat]] /\ s \in Observer
        BY DEF TypeOK, Observer
      <4>2. removeObserver(observers, o, s) \in [Object -> [Observer -> Nat]]
        BY <4>1, CountsTyped
      <4> QED BY <4>2
    <3> QED BY <3>1 DEF TypeOK, SetClear
  <2>2. failed' \in BOOLEAN
    BY Zenon DEF TypeOK, SetClear
  <2> QED BY <2>1, <2>2 DEF TypeOK, SetClear
<1>2. AssertHolds'
  BY ObserversAssumption DEF SetClear, AssertHolds, Removable, SetsCounted, TypeOK, Observer
<1>3. PtrsCounted'
  BY ObserversAssumption DEF SetClear, addObserver, removeObserver, PtrsCounted, TypeOK, Observer
<1>4. SetsCounted'
  BY ObserversAssumption DEF SetClear, addObserver, removeObserver, SetsCounted, TypeOK, Observer
<1>5. ListsCounted'
  BY ObserversAssumption DEF SetClear, addObserver, removeObserver, ListsCounted, TypeOK, Observer
<1>6. MapsCounted'
  BY ObserversAssumption DEF SetClear, addObserver, removeObserver, MapsCounted, TypeOK, Observer
<1> QED BY <1>1, <1>2, <1>3, <1>4, <1>5, <1>6

\* ~ObservableList lets go of all its members.
LEMMA ListClearInv ==
  ASSUME IInv, NEW l \in OList, ListClear(l)
  PROVE  IInv'
<1> USE DEF IInv
<1>1. TypeOK'
  <2>1. observers' \in [Object -> [Observer -> Nat]]
    BY CountsTyped DEF TypeOK, ListClear, Observer
  <2>2. failed' \in BOOLEAN
    BY Zenon DEF TypeOK, ListClear
  <2> QED BY <2>1, <2>2 DEF TypeOK, ListClear
<1>2. AssertHolds'
  BY ObserversAssumption DEF ListClear, AssertHolds, Removable, ListsCounted, TypeOK, Observer
<1>3. PtrsCounted'
  BY ObserversAssumption DEF ListClear, addObserver, removeObserver, PtrsCounted, TypeOK, Observer
<1>4. SetsCounted'
  BY ObserversAssumption DEF ListClear, addObserver, removeObserver, SetsCounted, TypeOK, Observer
<1>5. ListsCounted'
  BY ObserversAssumption DEF ListClear, addObserver, removeObserver, ListsCounted, TypeOK, Observer
<1>6. MapsCounted'
  BY ObserversAssumption DEF ListClear, addObserver, removeObserver, MapsCounted, TypeOK, Observer
<1> QED BY <1>1, <1>2, <1>3, <1>4, <1>5, <1>6

\* ~ObservableMap lets go of all its members.
LEMMA MapClearInv ==
  ASSUME IInv, NEW m \in OMap, MapClear(m)
  PROVE  IInv'
<1> USE DEF IInv
<1>1. TypeOK'
  <2>1. observers' \in [Object -> [Observer -> Nat]]
    <3>1. ASSUME NEW o \in Object PROVE removeObserver(observers, o, m)[o] \in [Observer -> Nat]
      <4>1. observers \in [Object -> [Observer -> Nat]] /\ m \in Observer
        BY DEF TypeOK, Observer
      <4>2. removeObserver(observers, o, m) \in [Object -> [Observer -> Nat]]
        BY <4>1, CountsTyped
      <4> QED BY <4>2
    <3> QED BY <3>1 DEF TypeOK, MapClear
  <2>2. failed' \in BOOLEAN
    BY Zenon DEF TypeOK, MapClear
  <2> QED BY <2>1, <2>2 DEF TypeOK, MapClear
<1>2. AssertHolds'
  BY ObserversAssumption DEF MapClear, AssertHolds, Removable, MapsCounted, TypeOK, Observer
<1>3. PtrsCounted'
  BY ObserversAssumption DEF MapClear, addObserver, removeObserver, PtrsCounted, TypeOK, Observer
<1>4. SetsCounted'
  BY ObserversAssumption DEF MapClear, addObserver, removeObserver, SetsCounted, TypeOK, Observer
<1>5. ListsCounted'
  BY ObserversAssumption DEF MapClear, addObserver, removeObserver, ListsCounted, TypeOK, Observer
<1>6. MapsCounted'
  BY ObserversAssumption DEF MapClear, addObserver, removeObserver, MapsCounted, TypeOK, Observer
<1> QED BY <1>1, <1>2, <1>3, <1>4, <1>5, <1>6

-----------------------------------------------------------------------------
\* Every operation keeps the invariant.
LEMMA StepInv ==
  ASSUME MaxCopies = 1, IInv, [Next]_vars
  PROVE  IInv'
<1>1. CASE UNCHANGED vars
  <2>1. TypeOK' /\ AssertHolds'
    BY <1>1 DEF IInv, vars, TypeOK, AssertHolds
  <2> QED BY <2>1, <1>1
          DEF IInv, vars, PtrsCounted, SetsCounted, ListsCounted, MapsCounted
<1>2. CASE \E o \in Object : Create(o) \/ Destroy(o)
  BY <1>2, CreateInv, DestroyInv
<1>3. CASE \E p \in WeakPtr, t \in Object \cup {NULL} : Assign(p, t)
  BY <1>3, AssignInv
<1>4. CASE \E s \in OSet : SetClear(s) \/ \E o \in Object : SetInsert(s, o) \/ SetErase(s, o)
  BY <1>4, SetInsertInv, SetEraseInv, SetClearInv
<1>5. CASE \E l \in OList : ListClear(l) \/ \E o \in Object : ListPush(l, o) \/ ListErase(l, o)
  BY <1>5, ListPushInv, ListEraseInv, ListClearInv
<1>6. CASE \E m \in OMap : MapClear(m) \/ \E o \in Object : MapAt(m, o) \/ MapErase(m, o)
  BY <1>6, MapAtInv, MapEraseInv, MapClearInv
<1> QED BY <1>1, <1>2, <1>3, <1>4, <1>5, <1>6 DEF Next

\* The counts are exact, references go to living objects, and a list has an
\* object at most once, always.
THEOREM Inductive ==
  ASSUME MaxCopies = 1
  PROVE  Spec => []IInv
<1>1. Init => IInv
  BY InitInv
<1>2. IInv /\ [Next]_vars => IInv'
  BY StepInv
<1> QED BY <1>1, <1>2, PTL DEF Spec

\* Every variable has its type.
THEOREM TypeCorrect ==
  ASSUME MaxCopies = 1
  PROVE  Spec => []TypeOK
<1>1. IInv => TypeOK
  BY DEF IInv
<1> QED BY <1>1, Inductive, PTL

\* ~Observable tells exactly the observers that refer to it (Observable.cpp:15-20).
THEOREM CountsExact ==
  ASSUME MaxCopies = 1
  PROVE  Spec => []CountsMatch
<1> QED BY CountsFollow, Inductive, PTL

\* No pointer and no container refers to a destroyed object (Observable.h:230).
THEOREM NothingDangles ==
  ASSUME MaxCopies = 1
  PROVE  Spec => []NoDangling
<1> QED BY DanglingFollow, Inductive, PTL

\* The assertion of removeObserver holds whenever it is called (Observable.cpp:33).
THEOREM AssertionHolds ==
  ASSUME MaxCopies = 1
  PROVE  Spec => []AssertHolds
<1>1. IInv => AssertHolds
  BY DEF IInv
<1> QED BY <1>1, Inductive, PTL

-----------------------------------------------------------------------------
(* The refinement.                                                         *)

\* A step in which only x's references move, and none goes to the dead.
LEMMA OneHolderMoves ==
  ASSUME NEW x \in Observer, UNCHANGED live, IInv',
         \A y \in Observer \ {x}, o \in Object : Refs(y, o)' = Refs(y, o)
  PROVE  Weak!Change(x)
<1>1. \A y \in Observer \ {x} : RefsOf'[y] = RefsOf[y]
  BY DEF RefsOf
<1>2. NoDangling'
  <2>1. (IInv => NoDangling)'
    BY DanglingFollow, PTL
  <2> QED BY <2>1
<1>3. \A o \in Object : RefsOf'[x][o] > 0 => o \in live
  BY <1>2 DEF RefsOf, NoDangling
<1> QED BY <1>1, <1>3 DEF Weak!Change


\* The initial state is one of the weak references.
LEMMA InitMaps == Init => Weak!Init
<1> SUFFICES ASSUME Init PROVE Weak!Init
  OBVIOUS
<1>1. \A x \in Observer, o \in Object : Refs(x, o) = 0
  BY RefsIs, ObserversAssumption DEF Init, Observer
<1> QED BY <1>1 DEF Weak!Init, RefsOf, Init

\* A new object is new to the weak references.
LEMMA CreateMaps ==
  ASSUME NEW o \in Object, Create(o)
  PROVE  Weak!Create(o)
BY DEF Create, Weak!Create, RefsOf, Refs

\* Where the counts are exact, those that are told are those that refer to o.
LEMMA DestroyMaps ==
  ASSUME IInv, NEW o \in Object, Destroy(o)
  PROVE  Weak!Destroy(o)
<1>1. o \in live /\ live' = live \ {o}
  BY DEF Destroy
<1>2. \A x \in Observer, q \in Object : Refs(x, q)' = IF q = o THEN 0 ELSE Refs(x, q)
  <2> SUFFICES ASSUME NEW x \in Observer, NEW q \in Object
               PROVE  Refs(x, q)' = IF q = o THEN 0 ELSE Refs(x, q)
    OBVIOUS
  <2>1. CASE x \in WeakPtr
    BY <2>1, RefsIs, RefsIsNext, <1>1, ObserversAssumption
    DEF Destroy, IInv, TypeOK, PtrsCounted, Observer
  <2>2. CASE x \in OSet
    BY <2>2, RefsIs, RefsIsNext, <1>1 DEF Destroy, IInv, TypeOK, SetsCounted, Observer
  <2>3. CASE x \in OList
    <3>1. list_[x] \in [Object -> {0, 1}] /\ observers[o][x] = list_[x][o]
      BY <2>3, <1>1 DEF IInv, TypeOK, ListsCounted
    <3>2. list_'[x] = IF observers[o][x] > 0 /\ list_[x][o] > 0
                      THEN [list_[x] EXCEPT ![o] = @ - 1] ELSE list_[x]
      BY <2>3 DEF Destroy, IInv, TypeOK, Observer
    <3> QED BY <3>1, <3>2, <2>3, RefsIs, RefsIsNext
  <2>4. CASE x \in OMap
    BY <2>4, RefsIs, RefsIsNext, <1>1 DEF Destroy, IInv, TypeOK, MapsCounted, Observer
  <2> QED BY <2>1, <2>2, <2>3, <2>4 DEF Observer
<1>3. RefsOf' = [x \in Observer |-> [RefsOf[x] EXCEPT ![o] = 0]]
  BY <1>2 DEF RefsOf
<1> QED BY <1>1, <1>3 DEF Weak!Destroy

\* Every operation is one of the weak references, or a stutter.
LEMMA StepMaps ==
  ASSUME IInv, IInv', [Next]_vars
  PROVE  [Weak!Next]_Weak!vars
<1> DEFINE Kept(x) == \A y \in Observer \ {x}, o \in Object : Refs(y, o)' = Refs(y, o)
<1>1. CASE UNCHANGED vars
  BY <1>1 DEF vars, Weak!vars, RefsOf, Refs
<1>2. CASE \E o \in Object : Create(o) \/ Destroy(o)
  BY <1>2, CreateMaps, DestroyMaps DEF Weak!Next
<1>3. ASSUME NEW p \in WeakPtr, NEW t \in Object \cup {NULL}, Assign(p, t)
      PROVE  Weak!Next
  <2>1. Kept(p)
    BY <1>3, RefsIs, RefsIsNext DEF Assign, IInv, TypeOK, Observer
  <2>2. UNCHANGED live /\ p \in Observer
    BY <1>3 DEF Assign, Observer
  <2> QED BY <2>1, <2>2, OneHolderMoves DEF Weak!Next
<1>4. ASSUME NEW s \in OSet, SetClear(s) \/ \E o \in Object : SetInsert(s, o) \/ SetErase(s, o)
      PROVE  Weak!Next
  <2>1. Kept(s)
    <3>1. UNCHANGED <<ptr, list_, map>> /\ \A y \in OSet \ {s} : set_'[y] = set_[y]
      BY <1>4 DEF SetClear, SetInsert, SetErase, IInv, TypeOK
    <3> QED BY <3>1, RefsIs, RefsIsNext DEF Observer
  <2>2. UNCHANGED live /\ s \in Observer
    BY <1>4 DEF SetClear, SetInsert, SetErase, Observer
  <2> QED BY <2>1, <2>2, OneHolderMoves DEF Weak!Next
<1>5. ASSUME NEW l \in OList, ListClear(l) \/ \E o \in Object : ListPush(l, o) \/ ListErase(l, o)
      PROVE  Weak!Next
  <2>1. Kept(l)
    <3>1. UNCHANGED <<ptr, set_, map>> /\ \A y \in OList \ {l} : list_'[y] = list_[y]
      BY <1>5 DEF ListClear, ListPush, ListErase, IInv, TypeOK
    <3> QED BY <3>1, RefsIs, RefsIsNext DEF Observer
  <2>2. UNCHANGED live /\ l \in Observer
    BY <1>5 DEF ListClear, ListPush, ListErase, Observer
  <2> QED BY <2>1, <2>2, OneHolderMoves DEF Weak!Next
<1>6. ASSUME NEW m \in OMap, MapClear(m) \/ \E o \in Object : MapAt(m, o) \/ MapErase(m, o)
      PROVE  Weak!Next
  <2>1. Kept(m)
    BY <1>6, RefsIs, RefsIsNext DEF MapClear, MapAt, MapErase, IInv, TypeOK, Observer
  <2>2. UNCHANGED live /\ m \in Observer
    BY <1>6 DEF MapClear, MapAt, MapErase, Observer
  <2> QED BY <2>1, <2>2, OneHolderMoves DEF Weak!Next
<1> QED BY <1>1, <1>2, <1>3, <1>4, <1>5, <1>6 DEF Next

\* The counted references of Observable.h, with the unlink calls of ~Observable,
\* implement weak references (Observable.cpp:14-36).
THEOREM Implements ==
  ASSUME MaxCopies = 1
  PROVE  Spec => KeepsPromise
<1>1. Init => Weak!Init
  BY InitMaps
<1>2. IInv /\ IInv' /\ [Next]_vars => [Weak!Next]_Weak!vars
  BY StepMaps
<1> QED BY <1>1, <1>2, Inductive, PTL DEF Spec, Weak!Spec, KeepsPromise

=============================================================================
