---------------------------------- MODULE Fields -------------------------------
(***************************************************************************)
(* Who owns an Entity (src/src/war.cpp, Docker.cpp, and transit_cs, anim   *)
(* and warp_collapse of Entity.cpp, Shipyard.cpp, Sceptor.cpp and          *)
(* Warpable.cpp), in the server.  A WarField has two lists of entities and *)
(* observes them; a Docker is a WarField with a queue of those about to    *)
(* leave; a warp bubble is a WarField that comes and goes.  A frame walks  *)
(* the lists while the entities it calls move, die and give birth.         *)
(*                                                                         *)
(* The world is a record g, and operations are operators on it.  Undefined *)
(* behaviour (memory used after it was freed, an iterator to an erased     *)
(* node) sets g.astray, and nothing more is said of the world after that.  *)
(***************************************************************************)
EXTENDS Integers, Sequences, FiniteSets, SequencesExt

CONSTANTS
  Yard,         \* the Shipyard, with a Docker and a hyperdrive
  Fighter,      \* Sceptors: they dock
  Shot,         \* what is not targettable: bullets and missiles
  Home, Outer,  \* the field the Shipyard was made in, and its parent's
  Bubble, Dock, \* the warp bubble and the Shipyard's Docker
  Gone,         \* a freed WarField
  END, NULL,    \* end() of a list; the null pointer
  dt, baytime   \* the length of a frame, and what a launch adds to baycool

Entity == {Yard} \cup Fighter \cup Shot
Field == {Home, Outer, Bubble, Dock}

ASSUME FieldsAssumption ==
  /\ Yard \notin Fighter \cup Shot /\ Fighter \cap Shot = {}
  /\ Home \notin {Outer, Bubble, Dock} /\ Outer \notin {Bubble, Dock} /\ Bubble # Dock
  /\ Gone \notin Field /\ NULL \notin Field \cup {Gone}
  /\ END \notin Entity
  /\ dt \in Nat \ {0} /\ baytime \in Nat

VARIABLES
  g,     \* the world
  place, \* the list that is walked, a position in Lists, or 0 between frames
  next   \* the iterator of the walk: the entity it comes to, or END

vars == <<g, place, next>>

NoObservers == [f \in Field \cup {Gone} |-> 0]

\* CoordSys::anim walks the children's fields first (622), a field's el before
\* its bl (war.cpp:149).
Lists == <<<<Bubble, "el">>, <<Bubble, "bl">>, <<Home, "el">>, <<Home, "bl">>,
           <<Outer, "el">>, <<Outer, "bl">>>>

-----------------------------------------------------------------------------
(* WarField *)

\* What a loop that goes through a list leaves, or finds, of it: those in S.
Those(s, S) ==
  LET those[n \in 0 .. Len(s)] ==
        IF n = 0 THEN <<>>
        ELSE IF s[n] \in S THEN Append(those[n - 1], s[n])
        ELSE those[n - 1]
  IN  those[Len(s)]

Without(s, e) == Those(s, Entity \ {e})
Copies(s, e) == Cardinality({i \in DOMAIN s : s[i] = e})

\* isTargettable() decides which list.
addent(d, e, f) ==
  [d EXCEPT !.w[e] = f, !.observers[e][f] = @ + 1,
            !.el[f] = IF e \in Shot THEN @ ELSE Append(@, e),
            !.bl[f] = IF e \in Shot THEN Append(@, e) ELSE @]

\* unlinkList on both lists; in the server it takes itself off the observers.
unlink(d, e, f) ==
  [d EXCEPT !.observers[e][f] = @ - Copies(d.el[f], e) - Copies(d.bl[f], e),
            !.el[f] = Without(@, e), !.bl[f] = Without(@, e)]

\* A field is told, if it observes.
told(d, e, f) == IF d.observers[e][f] > 0 THEN unlink(d, e, f) ELSE d

\* Mistake: the notification reaches plain fields only.
notifyFields(d, e) ==
  LET h == [d EXCEPT !.astray = @ \/ d.observers[e][Gone] > 0]
  IN  told(told(told(h, e, Home), e, Outer), e, Bubble)

\* TransitEvent and ~Observable: every observing field unlinks.  A field that
\* was freed while it observed is called too.
notify(d, e) ==
  LET h == [d EXCEPT !.astray = @ \/ d.observers[e][Gone] > 0]
  IN  told(told(told(told(h, e, Home), e, Outer), e, Bubble), e, Dock)

\* Mistake: the old field keeps the entity.
transitKeeps(d, e, f) == IF d.w[e] = f THEN d ELSE addent(d, e, f)

\* What w points to lets go of it; if that was freed, the world is astray.
leave(d, e) ==
  IF d.w[e] \in Field THEN unlink(d, e, d.w[e]) ELSE [d EXCEPT !.astray = TRUE]

transit_cs(d, e, f) == IF d.w[e] = f THEN d ELSE addent(leave(d, e), e, f)

\* All of a list go over to another field.
transitAll(d, s, f) ==
  LET gone[n \in 0 .. Len(s)] == IF n = 0 THEN d ELSE transit_cs(gone[n - 1], s[n], f)
  IN  gone[Len(s)]

\* ~Entity calls leaveField() of the field that w points to.
delete(d, e) ==
  LET h == notify(d, e)
  IN  [h EXCEPT !.live = @ \ {e}, !.astray = @ \/ d.w[e] = Gone \/ e \notin d.live,
                !.w[e] = NULL, !.observers[e] = NoObservers]

deleteAll(d, s) ==
  LET left[n \in 0 .. Len(s)] == IF n = 0 THEN d ELSE delete(left[n - 1], s[n])
  IN  left[Len(s)]

\* A field is freed, and with the Docker its queue: those still in its lists are
\* left pointing at it, and observed by it.
free(d, f) ==
  [d EXCEPT !.w = [e \in Entity |-> IF d.w[e] = f THEN Gone ELSE d.w[e]],
            !.observers = [e \in Entity |->
                             [d.observers[e] EXCEPT ![Gone] = @ + d.observers[e][f], ![f] = 0]],
            !.el[f] = <<>>, !.bl[f] = <<>>,
            !.undockque = IF f = Dock THEN <<>> ELSE @]

\* ~WarField in the server, of a field whose CoordSys is a child of Home or, when
\* it was adopted, of Outer.
deleteField(d, f, parent) == free(transitAll(d, d.el[f], parent), f)

-----------------------------------------------------------------------------
(* Docker *)

dock(d, e) == addent(notify(d, e), e, Dock)

\* A docked entity goes over to the undock queue; the Docker goes on observing it.
postUndock(d, e) ==
  IF e \in ToSet(d.el[Dock])
  THEN [d EXCEPT !.undockque = Append(@, e), !.el[Dock] = Without(@, e)]
  ELSE d

\* Those who are ready post themselves in their anim().
postAll(d, s) ==
  LET posted[n \in 0 .. Len(s)] == IF n = 0 THEN d ELSE postUndock(posted[n - 1], s[n])
  IN  posted[Len(s)]

\* Mistake: the Docker goes on observing.
undockObserving(d, e) ==
  LET h == [d EXCEPT !.undockque = Without(@, e), !.baycool = @ + baytime,
                     !.astray = @ \/ e \notin d.live]
  IN  addent(h, e, d.w[Yard])

\* The Docker stops observing, once for each copy; the Sceptor's own undock()
\* lengthens baycool.
undock(d, e) ==
  LET h == [d EXCEPT !.undockque = Without(@, e), !.baycool = @ + baytime,
                     !.observers[e][Dock] = @ - Copies(d.undockque, e),
                     !.astray = @ \/ e \notin d.live]
  IN  addent(h, e, d.w[Yard])

\* Mistake: what is to remain docked is not launched either.
servedRemains(d) ==
  IF d.undockque # <<>> /\ d.baycool < dt /\ ~d.remainDocked
  THEN undock(d, Head(d.undockque)) ELSE d

\* The queue is served from its front while the bay is cool.
served(d) ==
  LET turn[n \in 0 .. Len(d.undockque)] ==
        IF n = 0 THEN d
        ELSE LET h == turn[n - 1]
             IN  IF h.undockque # <<>> /\ h.baycool < dt THEN undock(h, Head(h.undockque)) ELSE h
  IN  turn[Len(d.undockque)]

\* Mistake: baycool only counts down.
dockerAnimCounts(d, ready) ==
  [served(postAll(d, Those(d.el[Dock], ready))) EXCEPT !.baycool = @ - dt]

\* Docker::anim: the docked that are fuelled and repaired, if they need not
\* remain, queue up (Sceptor.cpp:691); then the queue is served.
dockerAnim(d, ready) ==
  [served(postAll(d, Those(d.el[Dock], ready)))
     EXCEPT !.baycool = IF @ < dt THEN 0 ELSE @ - dt]

Odds(s) == [i \in 1 .. ((Len(s) + 1) \div 2) |-> s[2 * i - 1]]
Evens(s) == [i \in 1 .. (Len(s) \div 2) |-> s[2 * i]]

\* Who is left by the loop of ~Docker that steps twice over a list that shrinks.
\* When it steps over the end it comes round to the beginning (as std::list of
\* both compilers does).
Spared[s \in Seq(Entity)] == IF Len(s) % 2 = 0 THEN Evens(s) ELSE Spared[Evens(s)]

\* ~Docker deletes the docked and the queued as its loops come to them; the queue
\* does not shrink, and one of odd length is deleted twice.  Then ~WarField moves
\* those left in el to the parent of the Shipyard's first CoordSys.
destroyDocker(d) ==
  LET dying == Those(d.el[Dock], Entity \ ToSet(Spared[d.el[Dock]]))
      after == deleteAll(d, dying \o Odds(d.undockque))
      left == [after EXCEPT !.astray = @ \/ Len(d.undockque) % 2 = 1]
  IN  deleteField(left, Dock, Outer)

\* delete of any Entity; the Shipyard's destructor deletes the Docker first.
destroy(d, e) == delete(IF e = Yard THEN destroyDocker(d) ELSE d, e)

-----------------------------------------------------------------------------
(* Births *)

\* Memory that the undock queue points to is taken not to be given out again.
Free(d) == Entity \ (d.live \cup ToSet(d.undockque) \cup {Yard})

create(d, e, f) == addent([d EXCEPT !.live = @ \cup {e}], e, f)

Init ==
  /\ g = create([live |-> {}, w |-> [e \in Entity |-> NULL],
                 observers |-> [e \in Entity |-> NoObservers],
                 el |-> [f \in Field |-> <<>>], bl |-> [f \in Field |-> <<>>],
                 undockque |-> <<>>, baycool |-> 0, remainDocked |-> FALSE,
                 bubble |-> "none", astray |-> FALSE], Yard, Home)
  /\ place = 0
  /\ next = END

-----------------------------------------------------------------------------
(* The walk of a frame *)

List(d, p) == IF Lists[p][2] = "el" THEN d.el[Lists[p][1]] ELSE d.bl[Lists[p][1]]

Begin(s) == IF s = <<>> THEN END ELSE Head(s)

After(s, e) == LET i == CHOOSE j \in DOMAIN s : s[j] = e
               IN  IF i = Len(s) THEN END ELSE s[i + 1]

StartFrame ==
  /\ place = 0 /\ ~g.astray
  /\ place' = 1
  /\ next' = Begin(List(g, 1))
  /\ UNCHANGED g

\* aaanim: the iterator is advanced before the entity's anim() makes the world d
\* of g.  If what it is at then is erased, the walk goes on through freed memory.
Walk(e, d) ==
  /\ place > 0 /\ next = e /\ ~g.astray
  /\ next' = After(List(g, place), e)
  /\ g' = [d EXCEPT !.astray = @ \/ next' \notin ToSet(List(d, place)) \cup {END}]
  /\ UNCHANGED place

NextList ==
  /\ place \in 1 .. (Len(Lists) - 1) /\ next = END /\ ~g.astray
  /\ place' = place + 1
  /\ next' = Begin(List(g, place + 1))
  /\ UNCHANGED g

\* CoordSys::endframe deletes a bubble that was marked.
EndFrame ==
  /\ place = Len(Lists) /\ next = END /\ ~g.astray
  /\ place' = 0
  /\ IF g.bubble = "marked"
     THEN \E parent \in {Home, Outer} :
            g' = [deleteField(g, Bubble, parent) EXCEPT !.bubble = "none"]
     ELSE UNCHANGED g
  /\ UNCHANGED next

-----------------------------------------------------------------------------
(* What entities do in their anim() *)

\* It flies on, fires, docks at a mother in the same field, or was shot dead.
FighterAnim(e) ==
  /\ next = e
  /\ \/ Walk(e, g)
     \/ \E s \in Shot \cap Free(g) : Walk(e, create(g, s, g.w[e]))
     \/ /\ Yard \in g.live /\ g.w[e] = g.w[Yard]
        /\ Walk(e, dock(g, e))
     \/ Walk(e, destroy(g, e))

ShotAnim(e) == Walk(e, g) \/ Walk(e, destroy(g, e))

\* Mistake: the bubble collapses around the others.
WarpedAlone(d) ==
  {d}
  \cup (IF d.w[Yard] \in {Home, Outer} /\ d.bubble = "none"
        THEN {transit_cs([d EXCEPT !.bubble = "open"], Yard, Bubble)} ELSE {})
  \cup (IF d.w[Yard] = Bubble
        THEN {[transit_cs(d, Yard, to) EXCEPT !.bubble = "marked"] : to \in {Home, Outer}} ELSE {})

\* Warpable::anim in the server: fly on, open a bubble and go into it, or let it
\* collapse at either end with everything that is in it.
Warped(d) ==
  {d}
  \cup (IF d.w[Yard] \in {Home, Outer} /\ d.bubble = "none"
        THEN {transit_cs([d EXCEPT !.bubble = "open"], Yard, Bubble)} ELSE {})
  \cup (IF d.w[Yard] = Bubble
        THEN {[transitAll(d, d.el[Bubble], to) EXCEPT !.bubble = "marked"] : to \in {Home, Outer}}
        ELSE {})

\* Builder::finishBuild puts a new Sceptor into the field and then docks it.
finishBuild(d, e) == dock(create(d, e, d.w[Yard]), e)

\* Shipyard::anim: it warps or not, its Docker and its Builder work, and it may have
\* been shot dead.
YardAnim ==
  /\ next = Yard
  /\ \E warped \in Warped(g) :
       \E ready \in SUBSET (IF g.remainDocked THEN {} ELSE ToSet(warped.el[Dock])) :
         LET d == dockerAnim(warped, ready)
         IN  \/ Walk(Yard, d) \/ Walk(Yard, destroy(d, Yard))
             \/ \E e \in Fighter \cap Free(d) :
                  \/ Walk(Yard, finishBuild(d, e))
                  \/ Walk(Yard, destroy(finishBuild(d, e), Yard))

-----------------------------------------------------------------------------
(* Between frames: scripts and commands *)

Kill(e) ==
  /\ place = 0 /\ ~g.astray /\ e \in g.live
  /\ g' = destroy(g, e)
  /\ UNCHANGED <<place, next>>

UndockQueue(e) ==
  /\ place = 0 /\ ~g.astray /\ Yard \in g.live
  /\ e \in ToSet(g.el[Dock])
  /\ g' = postUndock(g, e)
  /\ UNCHANGED <<place, next>>

RemainDocked ==
  /\ place = 0 /\ ~g.astray /\ Yard \in g.live
  /\ g' = [g EXCEPT !.remainDocked = ~@]
  /\ UNCHANGED <<place, next>>

-----------------------------------------------------------------------------
Frame ==
  \/ StartFrame \/ NextList \/ EndFrame \/ YardAnim
  \/ \E e \in Fighter : FighterAnim(e)
  \/ \E e \in Shot : ShotAnim(e)

Next ==
  \/ Frame
  \/ \E e \in Entity : Kill(e)
  \/ \E e \in Fighter : UndockQueue(e)
  \/ RemainDocked

\* The frame thread goes on.
Spec == Init /\ [][Next]_vars /\ WF_vars(Frame)

-----------------------------------------------------------------------------
(* Properties *)

\* Every variable has its type; the bay's timer never runs below zero.
TypeOK == ~g.astray =>
  /\ g.live \subseteq Entity
  /\ g.w \in [Entity -> Field \cup {Gone, NULL}]
  /\ g.observers \in [Entity -> [Field \cup {Gone} -> Nat]]
  /\ \A f \in Field : g.el[f] \in Seq(Entity) /\ g.bl[f] \in Seq(Shot)
  /\ g.undockque \in Seq(Fighter)
  /\ g.baycool \in Nat
  /\ g.remainDocked \in BOOLEAN /\ g.astray \in BOOLEAN
  /\ g.bubble \in {"none", "open", "marked"}
  /\ place \in 0 .. Len(Lists) /\ next \in Entity \cup {END}

\* How often field f has e in the world d; the queue is a list of the Docker's.
Owns(d, f, e) ==
  Copies(d.el[f], e) + Copies(d.bl[f], e) + (IF f = Dock THEN Copies(d.undockque, e) ELSE 0)

\* At no moment do two fields own the same Entity, nor one of them twice, and a
\* living Entity's w is the field that owns it ("at any moment no two WarFields
\* own the same Entity", Entity.cpp:1183).
OneOwner ==
  ~g.astray => \A e \in g.live, f \in Field : Owns(g, f, e) = IF g.w[e] = f THEN 1 ELSE 0

\* A field observes a living Entity exactly once for each place it has it in, so
\* that ~Observable and TransitEvent reach the field (war.cpp:226, Docker.cpp:163).
ObservesOwned ==
  ~g.astray => \A e \in g.live, f \in Field : g.observers[e][f] = Owns(g, f, e)

\* No field's list has an Entity that was deleted; only the undock queue may.
ListsLive ==
  ~g.astray => \A f \in Field : ToSet(g.el[f]) \cup ToSet(g.bl[f]) \subseteq g.live

\* A bubble is empty of ships when it is deleted: the loop of ~WarField has
\* nothing to move ("should not be necessary", war.cpp:50).
BubbleEmptied == (g.bubble = "marked" /\ ~g.astray) => g.el[Bubble] = <<>>

\* What waits in the undock queue gets out of it, unless it dies, or undefined
\* behaviour has ended the world (Docker.cpp:107).
QueueServed ==
  \A e \in Fighter : e \in ToSet(g.undockque) ~> (e \notin ToSet(g.undockque) \/ g.astray)

\* "Docked entities die with their base" (Docker.cpp:52).
DieWithBase ==
  [][\A e \in Fighter :
       (place = 0 /\ Yard \in g.live /\ g.w[e] = Dock /\ Yard \notin g.live') => e \notin g.live']_vars

\* The undock queue, too, has living entities only.
QueueLive == ~g.astray => ToSet(g.undockque) \subseteq g.live

\* What an entity does in a walk leaves the iterator on a node of the list ("The object can be deleted in the
\* method", war.cpp:128).
WalkSafe == place > 0 => next \in ToSet(List(g, place)) \cup {END}

\* A deleted field is empty ("well-designed sequence would never cause a WarField
\* containing Entities to be deleted", war.cpp:50).
NobodyLeftBehind == ~g.astray => \A e \in g.live : g.w[e] # Gone
=============================================================================
