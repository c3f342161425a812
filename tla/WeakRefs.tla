--------------------------------- MODULE WeakRefs ------------------------------
(***************************************************************************)
(* What src/include/Observable.h promises to the users of weak references: *)
(* a holder alone decides what it refers to, it refers to living objects   *)
(* only, and when an object dies every reference to it is gone at once.    *)
(* How often a holder refers to an object matters for containers.          *)
(*                                                                         *)
(* Module Observers, with its counts, implements this specification.       *)
(***************************************************************************)
EXTENDS Naturals

CONSTANTS
  Object,  \* addresses at which objects are made
  Holder   \* weak pointers and containers of weak pointers

VARIABLES
  live,  \* the objects that exist
  refs   \* refs[x][o]: how many times holder x refers to o

\* Nobody refers to anything before the first object is made.
Init ==
  /\ live = {}
  /\ refs = [x \in Holder |-> [o \in Object |-> 0]]

\* A new object is referred to by nobody, even if another one was at its address.
Create(o) ==
  /\ o \notin live
  /\ live' = live \cup {o}
  /\ UNCHANGED refs

\* A holder changes what it refers to; what it refers to afterwards is alive.
Change(x) ==
  /\ \A y \in Holder \ {x} : refs'[y] = refs[y]
  /\ \A o \in Object : refs'[x][o] > 0 => o \in live
  /\ UNCHANGED live

\* An object dies, and nobody refers to it any more.
Destroy(o) ==
  /\ o \in live
  /\ live' = live \ {o}
  /\ refs' = [x \in Holder |-> [refs[x] EXCEPT ![o] = 0]]

Next ==
  \/ \E o \in Object : Create(o) \/ Destroy(o)
  \/ \E x \in Holder : Change(x)

vars == <<live, refs>>

Spec == Init /\ [][Next]_vars
=============================================================================
