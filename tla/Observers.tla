-------------------------------- MODULE Observers ------------------------------
(***************************************************************************)
(* Weak references (src/include/Observable.h, src/src/Observable.cpp).  An *)
(* Observable keeps, for each observer, the number of references that the  *)
(* observer has to it, and tells each of them when it is destroyed.  The   *)
(* observers are WeakPtr and the containers ObservableSet, ObservableList  *)
(* and ObservableMap, of which the keys matter.  The lists of WarField and *)
(* Docker observe too; they are in module Fields.                          *)
(*                                                                         *)
(* An object is named by its address, and addresses are used again.  A     *)
(* destroyed pointer or container is one that was cleared.                 *)
(***************************************************************************)
EXTENDS Integers, FiniteSets

CONSTANTS
  Object,                   \* addresses of Observables
  WeakPtr, OSet, OList, OMap, \* the observers of each kind
  NULL,                     \* the null pointer
  MaxCopies                 \* how many times a list may be given one object

Observer == WeakPtr \cup OSet \cup OList \cup OMap

ASSUME ObserversAssumption ==
  /\ NULL \notin Object /\ MaxCopies \in Nat \ {0}
  /\ WeakPtr \cap OSet = {} /\ WeakPtr \cap OList = {} /\ WeakPtr \cap OMap = {}
  /\ OSet \cap OList = {} /\ OSet \cap OMap = {} /\ OList \cap OMap = {}

VARIABLES
  live,       \* the Observables that exist
  observers,  \* Observable::observers: observers[o][x], 0 for no entry
  ptr,        \* WeakPtrBase::ptr
  set_,       \* ObservableSet::set_
  list_,      \* ObservableList::list_: how many times it has each object
  map,        \* the keys of ObservableMap::map
  failed      \* removeObserver did not find the observer, or its object was gone

vars == <<live, observers, ptr, set_, list_, map, failed>>

NoObservers == [x \in Observer |-> 0]

Init ==
  /\ live = {}
  /\ observers = [o \in Object |-> NoObservers]
  /\ ptr = [p \in WeakPtr |-> NULL]
  /\ set_ = [s \in OSet |-> {}]
  /\ list_ = [l \in OList |-> [o \in Object |-> 0]]
  /\ map = [m \in OMap |-> {}]
  /\ failed = FALSE

\* How many references x has to o.
Refs(x, o) ==
  IF x \in WeakPtr THEN IF ptr[x] = o THEN 1 ELSE 0
  ELSE IF x \in OSet THEN IF o \in set_[x] THEN 1 ELSE 0
  ELSE IF x \in OList THEN list_[x][o]
  ELSE IF o \in map[x] THEN 1 ELSE 0

-----------------------------------------------------------------------------
(* Observable *)

\* An object is constructed; nobody observes it.
Create(o) ==
  /\ o \notin live
  /\ live' = live \cup {o}
  /\ observers' = [observers EXCEPT ![o] = NoObservers]
  /\ UNCHANGED <<ptr, set_, list_, map, failed>>

addObserver(obs, o, x) == [obs EXCEPT ![o][x] = @ + 1]

\* The assertion of removeObserver: the object is there and has an entry of x.
Removable(o, x) == o \in live /\ observers[o][x] > 0

\* The entry goes away with its last reference.
removeObserver(obs, o, x) == [obs EXCEPT ![o][x] = IF @ > 0 THEN @ - 1 ELSE 0]

\* Mistake: the lists are not told.
DestroyTellsNoList(o) ==
  /\ o \in live
  /\ LET told == {x \in Observer : observers[o][x] > 0} IN
     /\ ptr' = [p \in WeakPtr |-> IF p \in told /\ ptr[p] = o THEN NULL ELSE ptr[p]]
     /\ set_' = [s \in OSet |-> IF s \in told THEN set_[s] \ {o} ELSE set_[s]]
     /\ map' = [m \in OMap |-> IF m \in told THEN map[m] \ {o} ELSE map[m]]
  /\ live' = live \ {o}
  /\ observers' = [observers EXCEPT ![o] = NoObservers]
  /\ UNCHANGED <<list_, failed>>

\* The observers that have an entry are told, and each forgets the object: a
\* WeakPtr becomes null, a set or a map erases it, a list erases the first one.
Destroy(o) ==
  /\ o \in live
  /\ LET told == {x \in Observer : observers[o][x] > 0} IN
     /\ ptr' = [p \in WeakPtr |-> IF p \in told /\ ptr[p] = o THEN NULL ELSE ptr[p]]
     /\ set_' = [s \in OSet |-> IF s \in told THEN set_[s] \ {o} ELSE set_[s]]
     /\ list_' = [l \in OList |-> IF l \in told /\ list_[l][o] > 0
                                  THEN [list_[l] EXCEPT ![o] = @ - 1] ELSE list_[l]]
     /\ map' = [m \in OMap |-> IF m \in told THEN map[m] \ {o} ELSE map[m]]
  /\ live' = live \ {o}
  /\ observers' = [observers EXCEPT ![o] = NoObservers]
  /\ UNCHANGED failed

-----------------------------------------------------------------------------
(* WeakPtr *)

\* Mistake: the pointer is copied as bytes (Observable.h:140).
AssignBytes(p, t) ==
  /\ t \in live \cup {NULL}
  /\ ptr' = [ptr EXCEPT ![p] = t]
  /\ UNCHANGED <<live, observers, set_, list_, map, failed>>

\* operator=, from another pointer too; the destructor is an assignment of null.
\* The old object is told first, so that assigning the same one keeps its entry.
Assign(p, t) ==
  /\ t \in live \cup {NULL}
  /\ LET left == IF ptr[p] # NULL THEN removeObserver(observers, ptr[p], p) ELSE observers
     IN  observers' = IF t # NULL THEN addObserver(left, t, p) ELSE left
  /\ failed' = (failed \/ (ptr[p] # NULL /\ ~Removable(ptr[p], p)))
  /\ ptr' = [ptr EXCEPT ![p] = t]
  /\ UNCHANGED <<live, set_, list_, map>>

-----------------------------------------------------------------------------
(* The containers *)

\* Mistake: a second insert of an element is counted.
SetInsertCounts(s, o) ==
  /\ o \in live
  /\ observers' = addObserver(observers, o, s)
  /\ set_' = [set_ EXCEPT ![s] = @ \cup {o}]
  /\ UNCHANGED <<live, ptr, list_, map, failed>>

\* ObservableSet::insert counts the element if it is new.
SetInsert(s, o) ==
  /\ o \in live
  /\ observers' = IF o \in set_[s] THEN observers ELSE addObserver(observers, o, s)
  /\ set_' = [set_ EXCEPT ![s] = @ \cup {o}]
  /\ UNCHANGED <<live, ptr, list_, map, failed>>

SetErase(s, o) ==
  /\ o \in set_[s]
  /\ observers' = removeObserver(observers, o, s)
  /\ failed' = (failed \/ ~Removable(o, s))
  /\ set_' = [set_ EXCEPT ![s] = @ \ {o}]
  /\ UNCHANGED <<live, ptr, list_, map>>

\* clear() and the destructor of an ObservableSet.
SetClear(s) ==
  /\ set_[s] # {}
  /\ observers' = [o \in Object |-> IF o \in set_[s] THEN removeObserver(observers, o, s)[o]
                                    ELSE observers[o]]
  /\ failed' = (failed \/ \E o \in set_[s] : ~Removable(o, s))
  /\ set_' = [set_ EXCEPT ![s] = {}]
  /\ UNCHANGED <<live, ptr, list_, map>>

\* push_back counts the object every time.  The turrets of a ship are given once.
ListPush(l, o) ==
  /\ o \in live
  /\ list_[l][o] < MaxCopies
  /\ observers' = addObserver(observers, o, l)
  /\ list_' = [list_ EXCEPT ![l][o] = @ + 1]
  /\ UNCHANGED <<live, ptr, set_, map, failed>>

ListErase(l, o) ==
  /\ list_[l][o] > 0
  /\ observers' = removeObserver(observers, o, l)
  /\ failed' = (failed \/ ~Removable(o, l))
  /\ list_' = [list_ EXCEPT ![l][o] = @ - 1]
  /\ UNCHANGED <<live, ptr, set_, map>>

\* clear() and the destructor of an ObservableList: removeObserver for each copy.
ListClear(l) ==
  /\ \E o \in Object : list_[l][o] > 0
  /\ observers' = [o \in Object |->
       [observers[o] EXCEPT ![l] = IF @ > list_[l][o] THEN @ - list_[l][o] ELSE 0]]
  /\ failed' = (failed \/ \E o \in Object : /\ list_[l][o] > 0
                                            /\ o \notin live \/ observers[o][l] < list_[l][o])
  /\ list_' = [list_ EXCEPT ![l] = [o \in Object |-> 0]]
  /\ UNCHANGED <<live, ptr, set_, map>>

\* Mistake: operator[] of the underlying map inserts the key.
MapAtUncounted(m, o) ==
  /\ o \in live
  /\ map' = [map EXCEPT ![m] = @ \cup {o}]
  /\ UNCHANGED <<live, observers, ptr, set_, list_, failed>>

\* operator[] inserts a key that is not there; Missile::targetmap() is used so
\* alone, never by insert() with a key that is there.
MapAt(m, o) ==
  /\ o \in live
  /\ observers' = IF o \in map[m] THEN observers ELSE addObserver(observers, o, m)
  /\ map' = [map EXCEPT ![m] = @ \cup {o}]
  /\ UNCHANGED <<live, ptr, set_, list_, failed>>

MapErase(m, o) ==
  /\ o \in map[m]
  /\ observers' = removeObserver(observers, o, m)
  /\ failed' = (failed \/ ~Removable(o, m))
  /\ map' = [map EXCEPT ![m] = @ \ {o}]
  /\ UNCHANGED <<live, ptr, set_, list_>>

\* clear() and the destructor of an ObservableMap.
MapClear(m) ==
  /\ map[m] # {}
  /\ observers' = [o \in Object |-> IF o \in map[m] THEN removeObserver(observers, o, m)[o]
                                    ELSE observers[o]]
  /\ failed' = (failed \/ \E o \in map[m] : ~Removable(o, m))
  /\ map' = [map EXCEPT ![m] = {}]
  /\ UNCHANGED <<live, ptr, set_, list_>>

-----------------------------------------------------------------------------
Next ==
  \/ \E o \in Object :
       \/ Create(o) \/ Destroy(o)
       \/ \E s \in OSet : SetInsert(s, o) \/ SetErase(s, o)
       \/ \E l \in OList : ListPush(l, o) \/ ListErase(l, o)
       \/ \E m \in OMap : MapAt(m, o) \/ MapErase(m, o)
  \/ \E p \in WeakPtr, t \in Object \cup {NULL} : Assign(p, t)
  \/ \E s \in OSet : SetClear(s)
  \/ \E l \in OList : ListClear(l)
  \/ \E m \in OMap : MapClear(m)

Spec == Init /\ [][Next]_vars

-----------------------------------------------------------------------------
(* Properties *)

\* Every variable has its type.
TypeOK ==
  /\ live \subseteq Object
  /\ observers \in [Object -> [Observer -> Nat]]
  /\ ptr \in [WeakPtr -> Object \cup {NULL}]
  /\ set_ \in [OSet -> SUBSET Object]
  /\ list_ \in [OList -> [Object -> Nat]]
  /\ map \in [OMap -> SUBSET Object]
  /\ failed \in BOOLEAN

\* The count that an object keeps for an observer is the number of references
\* the observer has to it, so that ~Observable tells exactly those it must
\* (Observable.h:43) and nobody that is gone.
CountsMatch == \A o \in live, x \in Observer : observers[o][x] = Refs(x, o)

\* No pointer and no container refers to a destroyed object ("to prevent
\* dangling pointer", Observable.h:230, 304, 372).
NoDangling == \A o \in Object \ live, x \in Observer : Refs(x, o) = 0

\* The assertion of removeObserver (Observable.cpp:33) never fails.
AssertHolds == ~failed

\* What the references look like from outside.
RefsOf == [x \in Observer |-> [o \in Object |-> Refs(x, o)]]

Weak == INSTANCE WeakRefs WITH Holder <- Observer, refs <- RefsOf

\* The counts, the unlink calls and the containers together keep the promise of
\* weak references (Observable.cpp:14-36): death clears every reference at once.
KeepsPromise == Weak!Spec
=============================================================================
