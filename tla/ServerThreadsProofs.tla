--------------------------- MODULE ServerThreadsProofs -------------------------
(***************************************************************************)
(* What holds of the server's threads for any number of connections, any   *)
(* maxncl and any bounds.                                                  *)
(*                                                                         *)
(* The inductive invariant IInv is a conjunction of named parts, each with *)
(* its own Init and step lemma:                                            *)
(*   TypeInv    TypeOK, and the socket that ServerThread is serving        *)
(*   LocksHeld  who owns mcl and mg is told by the threads' positions      *)
(*   SlotBound  the list's size                                            *)
(*   ListInv    which threads the list still holds, phase by phase         *)
(*   GameInv    when the game may be deleted                               *)
(*   SentInv    sentFirst is set only after a whole first update           *)
(*   WorldInv   what the client being served has been sent so far          *)
(***************************************************************************)
EXTENDS ServerThreads, SequenceTheorems, TLAPS

\* While ServerThread serves a socket its ClientThread does not exist yet
\* (Server.cpp:421-514), a thread is only made for a connection that was
\* accepted, and AnimThread is started by ServerThread (Server.cpp:397).
Serving ==
  /\ pc["Srv"] \in {"clean", "cleaning", "greet", "first", "first2", "spawn"} =>
       new \in Conn /\ pc[new] = "none" /\ link[new] # "idle"
  /\ \A c \in Conn : link[c] = "idle" => pc[c] = "none"
  /\ pc["Srv"] = "start" => pc["Anim"] = "none"

TypeInv == TypeOK /\ Serving

\* StartServer leaves every variable with a value of its type.
LEMMA TypeInit == Init => TypeInv
<1> SUFFICES ASSUME Init PROVE TypeInv
  OBVIOUS
<1> USE ThreadsAssumption DEF Init, TypeOK, Thread, SrvPC, AnimPC, MainPC, ClientPC, Chunk
<1>1. pc \in [Thread -> SrvPC \cup AnimPC \cup MainPC \cup ClientPC]
  OBVIOUS
<1>2. pc["Srv"] = "start" /\ pc["Anim"] = "none" /\ pc["Main"] = "start"
  OBVIOUS
<1>. /\ s \in [Conn -> {"valid", "INVALID"}] /\ sentFirst \in [Conn -> BOOLEAN]
     /\ link \in [Conn -> {"idle", "up", "gone"}]
  OBVIOUS
<1>3. \A c \in Conn : pc[c] = "none"
  OBVIOUS
<1>4. cl \in Seq(Conn) /\ stream \in [Conn -> Seq(Chunk)]
  OBVIOUS
<1>5. mclDead \in BOOLEAN /\ terminating \in BOOLEAN
  BY Zenon
<1>6. QED
  BY <1>1, <1>2, <1>3, <1>4, <1>5 DEF TypeInv, Serving

\* BroadcastMessage appends one chunk to some of the streams and keeps their
\* type (Server.cpp:304).
LEMMA Broadcasted ==
  ASSUME NEW S \in [Conn -> Seq(Chunk)], NEW R
  PROVE  [d \in Conn |-> IF d \in R THEN Append(S[d], "M") ELSE S[d]]
           \in [Conn -> Seq(Chunk)]
BY DEF Chunk

\* No action of any thread leaves the types.
LEMMA TypeStep == TypeInv /\ [Next]_vars => TypeOK'
<1> SUFFICES ASSUME TypeInv, [Next]_vars PROVE TypeOK'
  OBVIOUS
<1>. pc["Srv"] \in {"clean", "cleaning", "greet", "first", "first2", "spawn"} =>
       new \in Conn
  BY DEF TypeInv, Serving
<1> USE ThreadsAssumption DEF TypeInv, TypeOK, Thread, SrvPC, AnimPC, MainPC, ClientPC, Chunk,
        Become, Goto, Send, vars, locks, clients, bounds
<1>1. CASE SrvStart
  <2>1. /\ \/ pc' = [pc EXCEPT !["Srv"] = "accept", !["Anim"] = "sigwait"] /\ timer' = "on"
           \/ pc' = [pc EXCEPT !["Srv"] = "accept"] /\ timer' = timer
        /\ UNCHANGED <<locks, clients, at, new, stream, pg, terminating, bounds>>
    BY <1>1, Zenon DEF SrvStart
  <2>2. QED
    BY <2>1
<1>2. CASE \E c \in Conn : Accept(c)
  <2>1. PICK c \in Conn : Accept(c)
    BY <1>2
  <2>2. QED
    BY <2>1 DEF Accept
<1>3. CASE AcceptFails BY <1>3 DEF AcceptFails
<1>4. CASE LockForClean BY <1>4 DEF LockForClean
<1>5. CASE CleanSkip BY <1>5 DEF CleanSkip
<1>6. CASE CleanFree BY <1>6 DEF CleanFree
<1>7. CASE Refuse BY <1>7 DEF Refuse
<1>8. CASE Admit BY <1>8 DEF Admit
<1>9. CASE Greet BY <1>9 DEF Greet
<1>10. CASE FirstUpdate
  <2>1. new \in Conn
    BY <1>10 DEF FirstUpdate
  <2>2. UNCHANGED <<mcl, mclDead, clients, at, new, pg, timer, terminating, bounds>>
    BY <1>10 DEF FirstUpdate
  <2>3. CASE pc' = [pc EXCEPT !["Srv"] = "crashed"] /\ UNCHANGED <<mg, stream>>
    BY <2>1, <2>2, <2>3
  <2>4. CASE /\ pc' = [pc EXCEPT !["Srv"] = "first2"] /\ mg' = "Srv"
             /\ stream' = [stream EXCEPT ![new] = Append(@, "F1")]
    BY <2>1, <2>2, <2>4
  <2>5. QED
    BY <2>3, <2>4, <1>10 DEF FirstUpdate
<1>11. CASE FirstUpdateRest BY <1>11 DEF FirstUpdateRest
<1>12. CASE Spawn
  <2>1. new \in Conn /\ new # "Srv"
    BY <1>12 DEF Spawn
  <2>2. pc'["Srv"] = "accept" /\ pc'[new] = "recv"
        /\ \A t \in Thread \ {"Srv", new} : pc'[t] = pc[t]
    BY <2>1, <1>12 DEF Spawn
  <2>3. pc' \in [Thread -> SrvPC \cup AnimPC \cup MainPC \cup ClientPC]
    BY <1>12, Zenon DEF Spawn
  <2>4. /\ pc'["Anim"] \in AnimPC /\ pc'["Main"] \in MainPC
        /\ \A c \in Conn : pc'[c] \in ClientPC
    BY <2>1, <2>2
  <2>5. UNCHANGED <<locks, cl, at, s, link, stream, pg, timer, terminating, bounds>>
        /\ sentFirst' \in [Conn -> BOOLEAN] /\ new' = NoConn
    BY <2>1, <1>12 DEF Spawn
  <2>6. QED
    BY <2>2, <2>3, <2>4, <2>5
<1>13. CASE LockForDestroy BY <1>13 DEF LockForDestroy
<1>14. CASE DestroyShutdown BY <1>14 DEF DestroyShutdown
<1>15. CASE DestroyJoin BY <1>15 DEF DestroyJoin
<1>16. CASE DestroyClear BY <1>16 DEF DestroyClear
<1>17. CASE DeleteMcl BY <1>17 DEF DeleteMcl
<1>18. CASE KillTimer BY <1>18 DEF KillTimer
<1>19. CASE JoinAnim BY <1>19 DEF JoinAnim
<1>20. CASE DeleteGame BY <1>20 DEF DeleteGame
<1>21. CASE FrameTry("Anim") \/ FrameTry("Main") BY <1>21 DEF FrameTry, FrameAt
<1>22. CASE FrameEarly("Anim") \/ FrameEarly("Main") BY <1>22 DEF FrameEarly, FrameBack
<1>23. CASE FrameDiff("Anim") \/ FrameDiff("Main") BY <1>23 DEF FrameDiff
<1>24. CASE \E t \in Thread \ {"Srv"} : WaitLock(t) BY <1>24 DEF WaitLock
<1>25. CASE \E t \in Thread \ {"Srv"} : WaitLockFails(t)
  BY <1>25 DEF WaitLockFails, AfterWait, FrameBack
<1>26. CASE \E t \in Thread \ {"Srv"} : WaitSkip(t) BY <1>26 DEF WaitSkip
<1>27. CASE \E t \in Thread \ {"Srv"} : WaitSend(t) BY <1>27 DEF WaitSend
<1>28. CASE \E t \in Thread \ {"Srv"} : WaitUnlock(t)
  BY <1>28 DEF WaitUnlock, AfterWait, FrameBack
<1>29. CASE AnimWake BY <1>29 DEF AnimWake
<1>30. CASE FrameSkip BY <1>30 DEF FrameSkip
<1>31. CASE HostGame BY <1>31 DEF HostGame
<1>32. CASE Chat BY <1>32 DEF Chat
<1>33. CASE Broadcast("Main", "chat", "loop")
  <2>1. /\ \/ stream' = stream
           \/ stream' = [d \in Conn |-> IF d \in Receivers
                                        THEN Append(stream[d], "M") ELSE stream[d]]
        /\ pc' = [pc EXCEPT !["Main"] = "loop"]
        /\ UNCHANGED <<locks, clients, at, new, pg, timer, terminating, bounds>>
    BY <1>33, Zenon DEF Broadcast
  <2>2. [d \in Conn |-> IF d \in Receivers THEN Append(stream[d], "M") ELSE stream[d]]
          \in [Conn -> Seq(Chunk)]
    BY Broadcasted
  <2>3. stream' \in [Conn -> Seq(Chunk)]
    BY <2>1, <2>2
  <2>4. QED
    BY <2>1, <2>3
<1>34. CASE \E c \in Conn : Kick(c) BY <1>34 DEF Kick
<1>35. CASE \E c \in Conn : RecvLine(c) BY <1>35 DEF RecvLine
<1>36. CASE \E c \in Conn : Login(c) BY <1>36 DEF Login
<1>37. CASE \E c \in Conn : Broadcast(c, "say", "recv") \/ Broadcast(c, "bye", "erase")
  <2>1. PICK c \in Conn : Broadcast(c, "say", "recv") \/ Broadcast(c, "bye", "erase")
    BY <1>37
  <2>2. /\ \/ stream' = stream
           \/ stream' = [d \in Conn |-> IF d \in Receivers
                                        THEN Append(stream[d], "M") ELSE stream[d]]
        /\ \E q \in {"recv", "erase"} : pc' = [pc EXCEPT ![c] = q]
        /\ UNCHANGED <<locks, clients, at, new, pg, timer, terminating, bounds>>
    BY <2>1, Zenon DEF Broadcast
  <2>3. [d \in Conn |-> IF d \in Receivers THEN Append(stream[d], "M") ELSE stream[d]]
          \in [Conn -> Seq(Chunk)]
    BY Broadcasted
  <2>4. stream' \in [Conn -> Seq(Chunk)]
    BY <2>2, <2>3
  <2>5. QED
    BY <2>2, <2>4
<1>38. CASE \E c \in Conn : RecvEnds(c)
  <2>1. PICK c \in Conn : RecvEnds(c)
    BY <1>38
  <2>2. UNCHANGED <<locks, cl, at, new, sentFirst, link, stream, pg, timer,
                    terminating, bounds>>
    BY <2>1 DEF RecvEnds
  <2>3. CASE pc' = [pc EXCEPT ![c] = "closing"] /\ s' = s
    BY <2>2, <2>3
  <2>4. CASE pc' = [pc EXCEPT ![c] = "bye"] /\ s' = [s EXCEPT ![c] = "INVALID"]
    BY <2>2, <2>4
  <2>5. QED
    BY <2>1, <2>3, <2>4, Zenon DEF RecvEnds
<1>39. CASE \E c \in Conn : ErasePlayer(c) BY <1>39 DEF ErasePlayer
<1>40. CASE \E c \in Conn : Closing(c) BY <1>40 DEF Closing
<1>41. CASE \E c \in Conn : HangUp(c) BY <1>41 DEF HangUp
<1>42. CASE UNCHANGED vars BY <1>42
<1> HIDE DEF TypeInv, TypeOK, Thread, Become, Goto, Send, vars, locks, clients, bounds
<1>43. CASE Srv
  BY <1>43, <1>1, <1>4, <1>5, <1>6, <1>7, <1>8, <1>9, <1>10, <1>11, <1>12, <1>13, <1>14,
     <1>15, <1>16, <1>17, <1>18, <1>19, <1>20 DEF Srv
<1>44. "Anim" \in Thread \ {"Srv"} /\ "Main" \in Thread \ {"Srv"} /\ Conn \subseteq Thread \ {"Srv"}
  BY DEF Thread
<1>45. CASE \E t \in Thread \ {"Srv"} : WaitModified(t)
  BY <1>45, <1>24, <1>25, <1>26, <1>27, <1>28 DEF WaitModified
<1>46. CASE Anim
  BY <1>46, <1>21, <1>22, <1>23, <1>29, <1>30, <1>44, <1>45 DEF Anim, FrameProc
<1>47. CASE Main
  BY <1>47, <1>21, <1>22, <1>23, <1>31, <1>32, <1>33, <1>34, <1>44, <1>45 DEF Main, FrameProc
<1>48. CASE \E c \in Conn : Client(c)
  BY <1>48, <1>35, <1>36, <1>37, <1>38, <1>39, <1>40, <1>44, <1>45 DEF Client
<1>49. QED
  BY <1>2, <1>3, <1>41, <1>42, <1>43, <1>46, <1>47, <1>48 DEF Next

\* Spawn is the only step that starts a ClientThread, and ends the serving of
\* its socket (Server.cpp:514).
LEMMA ServingStep == TypeInv /\ [Next]_vars => Serving'
<1> SUFFICES ASSUME TypeInv, [Next]_vars PROVE Serving'
  OBVIOUS
<1> USE ThreadsAssumption DEF TypeInv, Serving, TypeOK, Thread,
        Become, Goto, vars, locks, clients, bounds
<1>1. CASE SrvStart
  <2>1. /\ \/ pc' = [pc EXCEPT !["Srv"] = "accept", !["Anim"] = "sigwait"]
           \/ pc' = [pc EXCEPT !["Srv"] = "accept"]
        /\ link' = link
    BY <1>1, Zenon DEF SrvStart
  <2>2. pc'["Srv"] = "accept" /\ \A c \in Conn : pc'[c] = pc[c]
    BY <2>1
  <2>3. QED
    BY <2>1, <2>2
<1>2. CASE LockForClean \/ CleanSkip \/ CleanFree
  <2>1. /\ pc' = pc \/ pc' = [pc EXCEPT !["Srv"] = "cleaning"]
        /\ pc["Srv"] \in {"clean", "cleaning"}
        /\ UNCHANGED <<link, new>>
    BY <1>2, Zenon DEF LockForClean, CleanSkip, CleanFree
  <2>2. /\ pc'["Srv"] \in {"clean", "cleaning"} /\ pc'["Anim"] = pc["Anim"]
        /\ \A c \in Conn : pc'[c] = pc[c]
    BY <2>1
  <2>3. QED
    BY <2>1, <2>2
<1>3. CASE Greet
  BY <1>3 DEF Greet, Send
<1>4. CASE FirstUpdateRest
  BY <1>4 DEF FirstUpdateRest, Send
<1>5. CASE Refuse \/ Admit
  BY <1>5 DEF Refuse, Admit
<1>6. CASE FirstUpdate
  BY <1>6 DEF FirstUpdate
<1>7. CASE Spawn
  <2>1. new \in Conn /\ pc'["Srv"] = "accept" /\ pc'["Anim"] = pc["Anim"]
    BY <1>7 DEF Spawn
  <2>2. link[new] # "idle"
    BY <1>7, <2>1 DEF Spawn
  <2>3. QED
    BY <1>7, <2>1, <2>2 DEF Spawn
<1>8. CASE LockForDestroy \/ DestroyShutdown \/ DestroyJoin \/ DestroyClear \/ DeleteMcl
  BY <1>8 DEF LockForDestroy, DestroyShutdown, DestroyJoin, DestroyClear, DeleteMcl
<1>9. CASE KillTimer \/ JoinAnim \/ DeleteGame \/ AcceptFails
  BY <1>9 DEF KillTimer, JoinAnim, DeleteGame, AcceptFails
<1>10. CASE \E c \in Conn : Accept(c)
  BY <1>10 DEF Accept
<1>11. CASE FrameProc("Anim") \/ FrameProc("Main")
  BY <1>11 DEF FrameProc, FrameTry, FrameEarly, FrameDiff, FrameAt, FrameBack
<1>12. CASE \E t \in Thread \ {"Srv"} : WaitModified(t)
  BY <1>12 DEF WaitModified, WaitLock, WaitLockFails, WaitSkip, WaitSend, WaitUnlock
<1>13. CASE AnimWake \/ FrameSkip \/ HostGame \/ Chat \/ Broadcast("Main", "chat", "loop")
  BY <1>13 DEF AnimWake, FrameSkip, HostGame, Chat, Broadcast
<1>14. CASE \E c \in Conn : Kick(c) \/ HangUp(c)
  BY <1>14 DEF Kick, HangUp
<1>15. CASE \E c \in Conn : RecvLine(c) \/ Login(c) \/ ErasePlayer(c) \/ Closing(c)
  BY <1>15 DEF RecvLine, Login, ErasePlayer, Closing
<1>16. CASE \E c \in Conn : Broadcast(c, "say", "recv") \/ Broadcast(c, "bye", "erase")
  BY <1>16 DEF Broadcast
<1>17. CASE \E c \in Conn : RecvEnds(c)
  BY <1>17 DEF RecvEnds
<1>18. CASE UNCHANGED vars
  BY <1>18
<1>19. QED
  BY <1>1, <1>2, <1>3, <1>4, <1>5, <1>6, <1>7, <1>8, <1>9, <1>10, <1>11, <1>12, <1>13,
     <1>14, <1>15, <1>16, <1>17, <1>18
  DEF Next, Srv, Anim, Main, Client

-----------------------------------------------------------------------------
\* The positions between lock_mutex and unlock_mutex of mg and of mcl.
InGame    == {"first2", "joinanim", "delpg", "anim"}
InClients == {"cleaning", "destroy", "wmIter"}

\* A mutex is owned exactly by the thread that stands in one of its sections.
LocksHeld ==
  /\ \A t \in Thread : pc[t] \in InGame => mg = t
  /\ \A t \in Thread : pc[t] \in InClients => mcl = t
  /\ mg # NoThread => pc[mg] \in InGame
  /\ mcl # NoThread => pc[mcl] \in InClients

\* Both mutexes are free before ServerThread starts.
LEMMA LocksInit == Init => LocksHeld
BY DEF Init, LocksHeld, InGame, InClients, Thread

\* Every section of the code that is left gives its mutex back, and none is
\* entered while another thread is inside.
LEMMA LocksStep == TypeInv /\ LocksHeld /\ [Next]_vars => LocksHeld'
<1> SUFFICES ASSUME TypeInv, LocksHeld, [Next]_vars PROVE LocksHeld'
  OBVIOUS
<1> USE ThreadsAssumption DEF TypeInv, Serving, TypeOK, Thread, LocksHeld, InGame, InClients,
        SrvPC, AnimPC, MainPC, ClientPC, Become, Goto, locks
<1>1. CASE LockForClean
  BY <1>1 DEF LockForClean
<1>2. CASE CleanSkip \/ CleanFree
  BY <1>2 DEF CleanSkip, CleanFree
<1>3. CASE Refuse \/ Admit
  BY <1>3 DEF Refuse, Admit
<1>4. CASE Greet \/ FirstUpdate \/ FirstUpdateRest
  BY <1>4 DEF Greet, FirstUpdate, FirstUpdateRest
<1>5. CASE Spawn
  <2>1. new \in Conn /\ pc["Srv"] = "spawn"
    BY <1>5 DEF Spawn
  <2>2. pc'["Srv"] = "accept" /\ pc'[new] = "recv"
        /\ \A t \in Thread \ {"Srv", new} : pc'[t] = pc[t]
    BY <2>1, <1>5 DEF Spawn
  <2>3. mg' = mg /\ mcl' = mcl /\ mg \notin {"Srv", new} /\ mcl \notin {"Srv", new}
    BY <2>1, <1>5 DEF Spawn
  <2>4. QED
    BY <2>1, <2>2, <2>3
<1>6. CASE SrvStart
  <2>1. /\ \/ pc' = [pc EXCEPT !["Srv"] = "accept", !["Anim"] = "sigwait"]
           \/ pc' = [pc EXCEPT !["Srv"] = "accept"]
        /\ UNCHANGED locks
    BY <1>6, Zenon DEF SrvStart
  <2>2. pc["Srv"] = "start" /\ mg \notin {"Srv", "Anim"} /\ mcl \notin {"Srv", "Anim"}
    BY <1>6 DEF SrvStart
  <2>3. /\ pc'["Srv"] = "accept" /\ pc'["Anim"] \in {pc["Anim"], "sigwait"}
        /\ \A t \in Thread \ {"Srv", "Anim"} : pc'[t] = pc[t]
    BY <2>1
  <2>4. QED
    BY <2>1, <2>2, <2>3
<1>7. CASE LockForDestroy \/ DestroyShutdown \/ DestroyJoin \/ DestroyClear
  BY <1>7 DEF LockForDestroy, DestroyShutdown, DestroyJoin, DestroyClear
<1>8. CASE DeleteMcl \/ KillTimer \/ JoinAnim \/ DeleteGame
  BY <1>8 DEF DeleteMcl, KillTimer, JoinAnim, DeleteGame
<1>9. CASE FrameProc("Anim") \/ FrameProc("Main")
  BY <1>9 DEF FrameProc, FrameTry, FrameEarly, FrameDiff, FrameAt, FrameBack
<1>10. CASE \E t \in Thread \ {"Srv"} : WaitModified(t)
  BY <1>10 DEF WaitModified, WaitLock, WaitLockFails, WaitSkip, WaitSend, WaitUnlock,
              AfterWait, FrameBack
<1>11. CASE AnimWake \/ FrameSkip
  BY <1>11 DEF AnimWake, FrameSkip
<1>12. CASE HostGame \/ Chat \/ AcceptFails
  BY <1>12 DEF HostGame, Chat, AcceptFails
<1>13. CASE Broadcast("Main", "chat", "loop")
  BY <1>13 DEF Broadcast
<1>14. CASE \E c \in Conn : Kick(c) \/ Accept(c) \/ HangUp(c)
  BY <1>14 DEF Kick, Accept, HangUp
<1>15. CASE \E c \in Conn : RecvLine(c) \/ Login(c) \/ ErasePlayer(c) \/ Closing(c)
  BY <1>15 DEF RecvLine, Login, ErasePlayer, Closing
<1>16. CASE \E c \in Conn : Broadcast(c, "say", "recv") \/ Broadcast(c, "bye", "erase")
  BY <1>16 DEF Broadcast
<1>17. CASE \E c \in Conn : RecvEnds(c)
  BY <1>17 DEF RecvEnds
<1>18. CASE UNCHANGED vars
  BY <1>18 DEF vars
<1>19. QED
  BY <1>1, <1>2, <1>3, <1>4, <1>5, <1>6, <1>7, <1>8, <1>9, <1>10, <1>11, <1>12, <1>13,
     <1>14, <1>15, <1>16, <1>17, <1>18
  DEF Next, Srv, Anim, Main, Client

-----------------------------------------------------------------------------
\* Erasing element k, as cl_clean does (Server.cpp:1268): what comes before it
\* stays, what comes after moves down by one.
LEMMA Removal ==
  ASSUME NEW S, NEW q \in Seq(S), NEW k \in 1 .. Len(q)
  PROVE  LET r == SubSeq(q, 1, k - 1) \o SubSeq(q, k + 1, Len(q))
         IN  /\ r \in Seq(S) /\ Len(r) = Len(q) - 1
             /\ \A i \in 1 .. k - 1 : r[i] = q[i]
             /\ \A i \in k .. Len(q) - 1 : r[i] = q[i + 1]
<1> DEFINE a == SubSeq(q, 1, k - 1)
           b == SubSeq(q, k + 1, Len(q))
<1>1. Len(q) \in Nat /\ k \in Int /\ 1 <= k /\ k <= Len(q)
  OBVIOUS
<1>2. /\ a \in Seq(S) /\ Len(a) = k - 1
      /\ \A i \in 1 .. k - 1 : a[i] = q[i]
  BY SubSeqProperties
<1>3. /\ b \in Seq(S) /\ Len(b) = Len(q) - k
      /\ \A i \in 1 .. Len(q) - k : b[i] = q[k + i]
  BY SubSeqProperties
<1> HIDE DEF a, b
<1>4. /\ a \o b \in Seq(S) /\ Len(a \o b) = Len(a) + Len(b)
      /\ \A i \in 1 .. Len(a) + Len(b) :
           (a \o b)[i] = IF i <= Len(a) THEN a[i] ELSE b[i - Len(a)]
  BY <1>2, <1>3, ConcatProperties
<1>5. Len(a \o b) = Len(q) - 1
  BY <1>1, <1>2, <1>3, <1>4
<1>6. \A i \in 1 .. k - 1 : (a \o b)[i] = q[i]
  BY <1>1, <1>2, <1>3, <1>4
<1>7. ASSUME NEW i \in k .. Len(q) - 1 PROVE (a \o b)[i] = q[i + 1]
  <2>1. i - (k - 1) \in 1 .. Len(q) - k /\ k + (i - (k - 1)) = i + 1
    BY <1>1
  <2>2. (a \o b)[i] = b[i - (k - 1)]
    BY <1>1, <1>2, <1>3, <1>4
  <2>3. b[i - (k - 1)] = q[k + (i - (k - 1))]
    BY <1>3, <2>1
  <2>4. QED
    BY <2>1, <2>2, <2>3
<1>8. QED
  BY <1>4, <1>5, <1>6, <1>7 DEF a, b

\* Erasing element k loses no other element.
LEMMA RemovalKeeps ==
  ASSUME NEW S, NEW q \in Seq(S), NEW k \in 1 .. Len(q), NEW i \in 1 .. Len(q), i # k
  PROVE  LET r == SubSeq(q, 1, k - 1) \o SubSeq(q, k + 1, Len(q))
         IN  \E j \in 1 .. Len(r) : r[j] = q[i]
<1> DEFINE r == SubSeq(q, 1, k - 1) \o SubSeq(q, k + 1, Len(q))
<1>1. /\ Len(r) = Len(q) - 1
      /\ \A j \in 1 .. k - 1 : r[j] = q[j]
      /\ \A j \in k .. Len(q) - 1 : r[j] = q[j + 1]
  BY Removal
<1> HIDE DEF r
<1>2. i < k => i \in 1 .. k - 1 /\ i \in 1 .. Len(r)
  BY <1>1
<1>3. i > k => i - 1 \in k .. Len(q) - 1 /\ (i - 1) + 1 = i /\ i - 1 \in 1 .. Len(r)
  BY <1>1
<1>4. i < k \/ i > k
  OBVIOUS
<1>5. \E j \in 1 .. Len(r) : r[j] = q[i]
  BY <1>1, <1>2, <1>3, <1>4
<1>6. QED
  BY <1>5 DEF r

-----------------------------------------------------------------------------
\* Only ServerThread changes the client list, in three places.
LEMMA ClSteps ==
  [Next]_vars => CleanFree \/ Admit \/ DestroyClear \/ UNCHANGED cl
BY DEF Next, vars, locks, clients, bounds, Srv, Anim, Main, Client, FrameProc, WaitModified,
   SrvStart, LockForClean, CleanSkip, Refuse, Greet, FirstUpdate, FirstUpdateRest, Spawn,
   LockForDestroy, DestroyShutdown, DestroyJoin, DeleteMcl, KillTimer, JoinAnim, DeleteGame,
   Accept, AcceptFails, FrameTry, FrameEarly, FrameDiff, WaitLock, WaitLockFails, WaitSkip,
   WaitSend, WaitUnlock, Broadcast, AnimWake, FrameSkip, HostGame, Chat, Kick, RecvLine, Login,
   RecvEnds, ErasePlayer, Closing, HangUp

\* The list begins with the server's own client alone.
LEMMA SlotInit == Init => SlotBound
BY ThreadsAssumption DEF Init, SlotBound

\* A node is added only where maxncl was tested under the same hold of mcl, and
\* erasing makes the list shorter.
LEMMA SlotStep == TypeInv /\ SlotBound /\ [Next]_vars => SlotBound'
<1> SUFFICES ASSUME TypeInv, SlotBound, [Next]_vars PROVE SlotBound'
  OBVIOUS
<1>1. cl \in Seq(Conn) /\ new \in Conn \cup {NoConn} /\ Len(cl) \in Nat /\ maxncl \in Int
  BY ThreadsAssumption DEF TypeInv, TypeOK
<1>2. CASE CleanFree
  <2>1. at \in 1 .. Len(cl) /\ cl' = SubSeq(cl, 1, at - 1) \o SubSeq(cl, at + 1, Len(cl))
    BY <1>2 DEF CleanFree, TypeInv, TypeOK
  <2>2. Len(cl') = Len(cl) - 1
    BY <1>1, <2>1, Removal
  <2>3. QED
    BY <1>1, <2>2 DEF SlotBound
<1>3. CASE Admit
  <2>1. new \in Conn
    BY <1>3 DEF Admit, Goto, TypeInv, Serving
  <2>2. Len(cl') = Len(cl) + 1
    BY <1>1, <1>3, <2>1 DEF Admit
  <2>3. QED
    BY <1>1, <1>3, <2>2 DEF Admit, NoSlot, SlotBound
<1>4. CASE DestroyClear
  BY <1>1, <1>4 DEF DestroyClear, SlotBound
<1>5. CASE UNCHANGED cl
  BY <1>5 DEF SlotBound
<1>6. QED
  BY <1>2, <1>3, <1>4, <1>5, ClSteps

-----------------------------------------------------------------------------
\* What a step that is not ServerThread's leaves alone: its position and its
\* socket, the list, and the threads that have not begun or have ended.
Others ==
  /\ pc'["Srv"] = pc["Srv"]
  /\ UNCHANGED <<cl, new, sentFirst, mclDead>>
  /\ \A c \in Conn : pc[c] \in {"none", "done"} => pc'[c] = pc[c]
  /\ mcl = "Srv" => at' = at

\* Every step is ServerThread's or leaves all that alone; the iterator under mcl
\* moves only for the mutex's owner.
LEMMA OthersStep ==
  TypeInv /\ LocksHeld /\ [Next]_vars =>
    Srv \/ AcceptFails \/ (\E c \in Conn : Accept(c)) \/ Others
<1> SUFFICES ASSUME TypeInv, LocksHeld, [Next]_vars
             PROVE  Srv \/ AcceptFails \/ (\E c \in Conn : Accept(c)) \/ Others
  OBVIOUS
<1>. /\ pc \in [Thread -> SrvPC \cup AnimPC \cup MainPC \cup ClientPC]
     /\ \A t \in Thread : pc[t] = "wmIter" => mcl = t
  BY DEF TypeInv, TypeOK, LocksHeld, InClients
<1>. "Srv" \in Thread /\ "Srv" \notin Conn /\ NoThread # "Srv"
  BY ThreadsAssumption DEF Thread
<1> USE ThreadsAssumption DEF Thread, Others, Become, Goto, locks, clients
<1>1. CASE FrameProc("Anim") \/ FrameProc("Main")
  BY <1>1 DEF FrameProc, FrameTry, FrameEarly, FrameDiff, FrameAt, FrameBack
<1>2. CASE \E t \in Thread \ {"Srv"} : WaitModified(t)
  BY <1>2 DEF WaitModified, WaitLock, WaitLockFails, WaitSkip, WaitSend, WaitUnlock
<1>3. CASE AnimWake \/ FrameSkip
  BY <1>3 DEF AnimWake, FrameSkip
<1>4. CASE HostGame \/ Chat \/ Broadcast("Main", "chat", "loop")
  BY <1>4 DEF HostGame, Chat, Broadcast
<1>5. CASE \E c \in Conn : Kick(c) \/ HangUp(c)
  BY <1>5 DEF Kick, HangUp
<1>6. CASE \E c \in Conn : RecvLine(c) \/ Login(c) \/ ErasePlayer(c)
  BY <1>6 DEF RecvLine, Login, ErasePlayer
<1>7. CASE \E c \in Conn : Closing(c)
  BY <1>7 DEF Closing
<1>8. CASE \E c \in Conn : Broadcast(c, "say", "recv") \/ Broadcast(c, "bye", "erase")
  BY <1>8 DEF Broadcast
<1>9. CASE \E c \in Conn : RecvEnds(c)
  BY <1>9 DEF RecvEnds
<1>10. CASE UNCHANGED vars
  BY <1>10 DEF vars
<1>11. QED
  BY <1>1, <1>2, <1>3, <1>4, <1>5, <1>6, <1>7, <1>8, <1>9, <1>10 DEF Next, Anim, Main, Client

-----------------------------------------------------------------------------
\* The positions of ServerThread after cl_destroy.
Past == {"delmcl", "mgterm", "joinanim", "delpg", "exit"}

\* The list holds the clients whose threads may run: the one being served is in
\* it, cl_destroy has joined those before its iterator, and nothing is left of
\* it afterwards (Server.cpp:474-541, 1288-1297).
ListInv ==
  /\ LiveThreadsListed
  /\ pc["Srv"] \in {"greet", "first", "first2", "spawn"} => new \in Listed
  /\ pc["Srv"] = "destroy" => \A i \in 1 .. Len(cl) : i < at => pc[cl[i]] = "done"
  /\ pc["Srv"] \in Past => cl = <<>>

\* No ClientThread runs before ServerThread.
LEMMA ListInit == Init => ListInv
BY ThreadsAssumption DEF Init, ListInv, LiveThreadsListed, Past, Thread

\* Erasing and clearing nodes loses no client whose thread still runs.
LEMMA ListStep == TypeInv /\ LocksHeld /\ ListInv /\ [Next]_vars => ListInv'
<1> SUFFICES ASSUME TypeInv, LocksHeld, ListInv, [Next]_vars PROVE ListInv'
  OBVIOUS
<1>. /\ pc \in [Thread -> SrvPC \cup AnimPC \cup MainPC \cup ClientPC]
     /\ cl \in Seq(Conn) /\ Len(cl) \in Nat /\ at \in Nat \ {0}
     /\ "Srv" \in Thread /\ "Srv" \notin Conn /\ Conn \subseteq Thread
     /\ pc["Srv"] = "destroy" => mcl = "Srv"
     /\ \A i \in 1 .. Len(cl) : cl[i] \in Conn
     /\ pc["Srv"] \in {"clean", "cleaning", "greet", "first", "first2", "spawn"} =>
          new \in Conn /\ pc[new] = "none"
  BY ThreadsAssumption DEF TypeInv, TypeOK, LocksHeld, InClients, Serving, Thread
<1> USE DEF ListInv, LiveThreadsListed, Listed, Past, Become, Goto
<1>1. CASE SrvStart
  <2>1. /\ \/ pc' = [pc EXCEPT !["Srv"] = "accept", !["Anim"] = "sigwait"]
           \/ pc' = [pc EXCEPT !["Srv"] = "accept"]
        /\ UNCHANGED clients
    BY <1>1, Zenon DEF SrvStart
  <2>2. pc'["Srv"] = "accept" /\ \A c \in Conn : pc'[c] = pc[c]
    BY <2>1, ThreadsAssumption DEF Thread
  <2>3. QED
    BY <2>1, <2>2 DEF clients
<1>2. CASE (\E c \in Conn : Accept(c)) \/ AcceptFails
  BY <1>2 DEF Accept, AcceptFails, clients
<1>3. CASE LockForClean \/ CleanSkip \/ Refuse
  BY <1>3 DEF LockForClean, CleanSkip, Refuse, clients
<1>4. CASE CleanFree
  <2>1. at \in 1 .. Len(cl) /\ pc[cl[at]] = "done" /\ pc' = pc /\ pc["Srv"] = "cleaning"
    BY <1>4 DEF CleanFree
  <2>2. cl' = SubSeq(cl, 1, at - 1) \o SubSeq(cl, at + 1, Len(cl))
    BY <1>4 DEF CleanFree
  <2>3. ASSUME NEW i \in 1 .. Len(cl), i # at
        PROVE  \E k \in 1 .. Len(cl') : cl'[k] = cl[i]
    <3> DEFINE r == SubSeq(cl, 1, at - 1) \o SubSeq(cl, at + 1, Len(cl))
    <3>0. cl \in Seq(Conn) /\ at \in 1 .. Len(cl) /\ i # at
      BY <2>1, <2>3
    <3> HIDE DEF LiveThreadsListed, Listed, ListInv, Past
    <3>1. \E k \in 1 .. Len(r) : r[k] = cl[i]
      BY ONLY <3>0, RemovalKeeps, i \in 1 .. Len(cl)
    <3>2. cl' = r
      BY <2>2
    <3> HIDE DEF r
    <3>3. QED
      BY <3>1, <3>2
  <2>4. Listed \ {cl[at]} \subseteq Listed'
    BY <2>3
  <2>5. QED
    BY <2>1, <2>4
<1>5. CASE Admit
  <2>1. /\ Len(cl') = Len(cl) + 1 /\ cl'[Len(cl) + 1] = new
        /\ \A i \in 1 .. Len(cl) : cl'[i] = cl[i]
    BY <1>5 DEF Admit
  <2>2. /\ pc'["Srv"] = "greet" /\ new' = new
        /\ \A c \in Conn : pc'[c] = pc[c]
    BY <1>5 DEF Admit
  <2>3. Listed \cup {new} \subseteq Listed'
    BY <2>1
  <2>4. QED
    BY <2>2, <2>3
<1>6. CASE Greet \/ FirstUpdateRest
  BY <1>6 DEF Greet, FirstUpdateRest, clients
<1>7. CASE FirstUpdate
  BY <1>7 DEF FirstUpdate, clients
<1>8. CASE Spawn
  BY <1>8 DEF Spawn
<1>9. CASE LockForDestroy \/ DestroyShutdown
  BY <1>9 DEF LockForDestroy, DestroyShutdown, clients
<1>10. CASE DestroyJoin
  BY <1>10 DEF DestroyJoin, clients
<1>11. CASE DestroyClear
  BY <1>11 DEF DestroyClear
<1>12. CASE DeleteMcl \/ JoinAnim \/ DeleteGame
  BY <1>12 DEF DeleteMcl, JoinAnim, DeleteGame, clients
<1>13. CASE KillTimer
  BY <1>13 DEF KillTimer, clients
<1>14. CASE Others
  BY <1>14 DEF Others
<1>15. QED
  BY <1>1, <1>2, <1>3, <1>4, <1>5, <1>6, <1>7, <1>8, <1>9, <1>10, <1>11, <1>12, <1>13, <1>14,
     OthersStep DEF Srv

-----------------------------------------------------------------------------
\* The game is deleted last: AnimThread exists only in the dedicated build and
\* has been joined, and the window loop is not inside FrameProc, which needs mg
\* (Server.cpp:517-541).
GameInv ==
  /\ ~Dedicated => pc["Anim"] = "none"
  /\ pc["Srv"] \in {"delpg", "exit"} => pc["Anim"] \in {"none", "done"}
  /\ pg = "freed" => pc["Srv"] = "exit" /\ pc["Main"] # "anim"

\* AnimThread does not run and the game is not deleted at the start.
LEMMA GameInit == Init => GameInv
BY ThreadsAssumption DEF Init, GameInv, Thread

\* AnimThread never runs again after it was joined, and nobody enters a game
\* that is deleted.
LEMMA GameStep == TypeInv /\ LocksHeld /\ GameInv /\ [Next]_vars => GameInv'
<1> SUFFICES ASSUME TypeInv, LocksHeld, GameInv, [Next]_vars PROVE GameInv'
  OBVIOUS
<1>. /\ pc \in [Thread -> SrvPC \cup AnimPC \cup MainPC \cup ClientPC]
     /\ {"Srv", "Anim", "Main"} \subseteq Thread /\ Conn \subseteq Thread
     /\ Conn \cap {"Srv", "Anim", "Main"} = {}
     /\ \A t \in Thread : pc[t] \in InGame => mg = t
     /\ pc["Srv"] = "start" => pc["Anim"] = "none"
     /\ pc["Srv"] \in {"clean", "cleaning", "greet", "first", "first2", "spawn"} => new \in Conn
     /\ pg \in {"null", "set", "freed"}
  BY ThreadsAssumption DEF TypeInv, TypeOK, LocksHeld, Serving, Thread
<1> USE DEF Become, Goto, InGame
<1>1. CASE SrvStart
  <2>1. /\ \/ Dedicated
           \/ pc'["Anim"] = pc["Anim"]
        /\ pc["Srv"] = "start" /\ pc'["Srv"] = "accept" /\ pc'["Main"] = pc["Main"] /\ pg' = pg
    <3>1. /\ \/ Dedicated /\ pc' = [pc EXCEPT !["Srv"] = "accept", !["Anim"] = "sigwait"]
             \/ pc' = [pc EXCEPT !["Srv"] = "accept"]
          /\ pc["Srv"] = "start" /\ pg' = pg
      BY <1>1, Zenon DEF SrvStart
    <3>2. QED
      BY <3>1
  <2>2. QED
    BY <2>1, Zenon DEF GameInv
<1>2. CASE (\E c \in Conn : Accept(c)) \/ AcceptFails
  BY <1>2 DEF Accept, AcceptFails, GameInv
<1>3. CASE LockForClean \/ CleanSkip \/ CleanFree \/ Refuse \/ Admit
  BY <1>3 DEF LockForClean, CleanSkip, CleanFree, Refuse, Admit, GameInv
<1>4. CASE Greet \/ FirstUpdate \/ FirstUpdateRest
  BY <1>4 DEF Greet, FirstUpdate, FirstUpdateRest, GameInv
<1>5. CASE Spawn
  BY <1>5 DEF Spawn, GameInv
<1>6. CASE LockForDestroy \/ DestroyShutdown \/ DestroyJoin \/ DestroyClear \/ DeleteMcl
  BY <1>6 DEF LockForDestroy, DestroyShutdown, DestroyJoin, DestroyClear, DeleteMcl, GameInv
<1>7. CASE KillTimer
  <2>1. /\ \/ pc' = [pc EXCEPT !["Srv"] = "joinanim"]
           \/ ~Dedicated /\ pc' = [pc EXCEPT !["Srv"] = "delpg"]
        /\ pc["Srv"] = "mgterm" /\ pg' = pg
    BY <1>7, Zenon DEF KillTimer
  <2>2. /\ pc'["Anim"] = pc["Anim"] /\ pc'["Main"] = pc["Main"]
        /\ pc'["Srv"] = "joinanim" \/ (~Dedicated /\ pc'["Srv"] = "delpg")
    BY <2>1
  <2>3. QED
    BY <2>1, <2>2, Zenon DEF GameInv
<1>8. CASE JoinAnim \/ DeleteGame
  BY <1>8 DEF JoinAnim, DeleteGame, GameInv
<1>9. CASE FrameProc("Anim") \/ FrameProc("Main")
  <2>1. PICK t \in {"Anim", "Main"} : FrameProc(t)
    BY <1>9
  <2>2. t = "Anim" => Dedicated
    BY <2>1, Zenon DEF FrameProc, FrameThread
  <2>3. /\ pc[t] \notin {"none", "done"} /\ pg' = pg /\ pc'["Srv"] = pc["Srv"]
        /\ \A u \in Thread \ {t} : pc'[u] = pc[u]
        /\ pc'[t] = "anim" => pg = "set"
    BY <2>1 DEF FrameProc, FrameTry, FrameEarly, FrameDiff, FrameAt, FrameBack
  <2>4. ~Dedicated => pc'["Anim"] = "none"
    BY <2>1, <2>2, <2>3 DEF GameInv
  <2>5. QED
    BY <2>1, <2>3, <2>4 DEF GameInv
<1>10. CASE \E t \in Thread \ {"Srv"} : WaitModified(t)
  BY <1>10 DEF WaitModified, WaitLock, WaitLockFails, WaitSkip, WaitSend, WaitUnlock,
               AfterWait, FrameBack, GameInv
<1>11. CASE AnimWake \/ FrameSkip
  BY <1>11 DEF AnimWake, FrameSkip, GameInv
<1>12. CASE HostGame \/ Chat \/ Broadcast("Main", "chat", "loop")
  BY <1>12 DEF HostGame, Chat, Broadcast, GameInv
<1>13. CASE \E c \in Conn : Kick(c) \/ HangUp(c)
  BY <1>13 DEF Kick, HangUp, GameInv
<1>14. CASE \E c \in Conn : RecvLine(c) \/ Login(c) \/ ErasePlayer(c)
  BY <1>14 DEF RecvLine, Login, ErasePlayer, GameInv
<1>15. CASE \E c \in Conn : Closing(c)
  BY <1>15 DEF Closing, GameInv
<1>16. CASE \E c \in Conn : Broadcast(c, "say", "recv") \/ Broadcast(c, "bye", "erase")
  BY <1>16 DEF Broadcast, GameInv
<1>17. CASE \E c \in Conn : RecvEnds(c)
  BY <1>17 DEF RecvEnds, GameInv
<1>18. CASE UNCHANGED vars
  BY <1>18 DEF vars, GameInv
<1>19. QED
  BY <1>1, <1>2, <1>3, <1>4, <1>5, <1>6, <1>7, <1>8, <1>9, <1>10, <1>11, <1>12, <1>13, <1>14,
     <1>15, <1>16, <1>17, <1>18
  DEF Next, Srv, Anim, Main, Client

-----------------------------------------------------------------------------
\* The stream q has the chunk x; q has a whole first update; q has no diff before one.
Has(x, q)    == \E j \in 1 .. Len(q) : q[j] = x
HasFirst(q)  == \E j \in 1 .. Len(q) : q[j] = "F2"
DiffsLate(q) == \A i \in 1 .. Len(q) : q[i] = "D" => \E j \in 1 .. i - 1 : q[j] = "F2"

\* One more chunk keeps the order, if a diff is only appended after a first
\* update.
LEMMA Appended ==
  ASSUME NEW q \in Seq(Chunk), NEW x \in Chunk, DiffsLate(q), x = "D" => HasFirst(q)
  PROVE  /\ DiffsLate(Append(q, x))
         /\ HasFirst(q) \/ x = "F2" => HasFirst(Append(q, x))
<1> DEFINE r == Append(q, x)
<1>1. Len(q) \in Nat /\ Len(r) = Len(q) + 1 /\ r[Len(q) + 1] = x
      /\ \A i \in 1 .. Len(q) : r[i] = q[i]
  OBVIOUS
<1> HIDE DEF r
<1>2. DiffsLate(r)
  BY <1>1 DEF DiffsLate, HasFirst
<1>3. HasFirst(q) \/ x = "F2" => HasFirst(r)
  BY <1>1 DEF HasFirst
<1>4. QED
  BY <1>2, <1>3 DEF r

\* sentFirst is true only of a client that was sent its whole first update
\* (Server.cpp:509-510).
SentInv ==
  /\ \A c \in Conn : DiffsLate(stream[c])
  /\ \A c \in Conn : sentFirst[c] => HasFirst(stream[c])
  /\ pc["Srv"] = "spawn" => HasFirst(stream[new])

\* Nothing is sent at the start.
LEMMA SentInit == Init => SentInv
BY DEF Init, SentInv, DiffsLate, HasFirst, Thread

\* How a step may lengthen what was sent to c, and which step each chunk is from.
Lengthened(c) ==
  \/ stream'[c] = stream[c]
  \/ \E x \in Chunk :
       /\ stream'[c] = Append(stream[c], x)
       /\ x = "D" => sentFirst[c]
       /\ x \in {"D", "M", "K"} => s[c] = "valid"
       /\ x = "G" => Greet /\ c = new
       /\ x = "F1" => FirstUpdate /\ c = new
       /\ x = "F2" => FirstUpdateRest /\ c = new

\* A step appends at most one chunk to a stream, and a diff only when sentFirst
\* is set: SendUpdateStream is called from WaitModified under Updatable
\* (Server.cpp:286-302).  Nothing is sent where the socket is invalid.
LEMMA StreamStep == TypeInv /\ [Next]_vars => \A c \in Conn : Lengthened(c)
<1> SUFFICES ASSUME TypeInv, [Next]_vars, NEW d \in Conn PROVE Lengthened(d)
  OBVIOUS
<1>. stream \in [Conn -> Seq(Chunk)] /\ cl \in Seq(Conn)
     /\ {"G", "F1", "F2", "D", "M", "K"} = Chunk
     /\ \A c \in Conn : s[c] # "INVALID" => s[c] = "valid"
  BY DEF TypeInv, TypeOK, Chunk
<1>. pc["Srv"] \in {"greet", "first", "first2"} => new \in Conn
  BY DEF TypeInv, Serving
<1>1. CASE Greet
  BY <1>1 DEF Greet, Goto, Send, Lengthened
<1>2. CASE FirstUpdate
  BY <1>2 DEF FirstUpdate, Send, Lengthened
<1>3. CASE FirstUpdateRest
  BY <1>3 DEF FirstUpdateRest, Goto, Send, Lengthened
<1>4. CASE \E t \in Thread \ {"Srv"} : WaitModified(t)
  <2>1. PICK t \in Thread \ {"Srv"} : WaitModified(t)
    BY <1>4
  <2>2. CASE WaitSend(t)
    <3>1. at \in 1 .. Len(cl) /\ sentFirst[cl[at]] /\ s[cl[at]] # "INVALID"
      BY <2>2 DEF WaitSend, Updatable, TypeInv, TypeOK
    <3>2. cl[at] \in Conn /\ stream' = [stream EXCEPT ![cl[at]] = Append(@, "D")]
      BY <2>2, <3>1 DEF WaitSend, Send
    <3>3. CASE d = cl[at]
      <4>1. stream'[d] = Append(stream[d], "D") /\ sentFirst[d] /\ s[d] = "valid"
        BY <3>1, <3>2, <3>3
      <4> QED BY <4>1 DEF Lengthened
    <3>4. CASE d # cl[at]
      BY <3>2, <3>4 DEF Lengthened
    <3>5. QED
      BY <3>3, <3>4
  <2>3. CASE ~WaitSend(t)
    BY <2>1, <2>3 DEF WaitModified, WaitLock, WaitLockFails, WaitSkip, WaitUnlock, Lengthened
  <2>4. QED
    BY <2>2, <2>3
<1>5. CASE \E c \in Conn : Kick(c)
  <2>1. PICK c \in Conn : s[c] = "valid" /\ stream' = [stream EXCEPT ![c] = Append(@, "K")]
    BY <1>5 DEF Kick, Send
  <2>2. CASE d = c
    <3>1. stream'[d] = Append(stream[d], "K") /\ s[d] = "valid"
      BY <2>1, <2>2
    <3> QED BY <3>1 DEF Lengthened
  <2>3. CASE d # c
    BY <2>1, <2>3 DEF Lengthened
  <2> QED BY <2>2, <2>3
<1>6. CASE \E t, p, q : Broadcast(t, p, q)
  <2>1. \/ stream' = stream
        \/ stream' = [c \in Conn |-> IF c \in Receivers THEN Append(stream[c], "M")
                                     ELSE stream[c]]
    BY <1>6, Zenon DEF Broadcast
  <2>2. CASE stream'[d] = stream[d]
    BY <2>2 DEF Lengthened
  <2>3. CASE stream'[d] # stream[d]
    <3>1. stream'[d] = Append(stream[d], "M") /\ s[d] = "valid"
      BY <2>1, <2>3 DEF Receivers
    <3> QED BY <3>1 DEF Lengthened
  <2>4. QED
    BY <2>2, <2>3
<1>7. CASE UNCHANGED stream
  BY <1>7 DEF Lengthened
<1>8. \/ Greet \/ FirstUpdate \/ FirstUpdateRest \/ UNCHANGED stream
      \/ \E t \in Thread \ {"Srv"} : WaitModified(t)
      \/ \E c \in Conn : Kick(c)
      \/ Broadcast("Main", "chat", "loop")
      \/ \E c \in Conn : Broadcast(c, "say", "recv") \/ Broadcast(c, "bye", "erase")
  BY ThreadsAssumption
  DEF Next, vars, Srv, Anim, Main, Client, FrameProc, Thread,
      SrvStart, LockForClean, CleanSkip, CleanFree, Refuse, Admit, Spawn, LockForDestroy,
      DestroyShutdown, DestroyJoin, DestroyClear, DeleteMcl, KillTimer, JoinAnim, DeleteGame,
      Accept, AcceptFails, FrameTry, FrameEarly, FrameDiff, AnimWake, FrameSkip, HostGame, Chat,
      RecvLine, Login, RecvEnds, ErasePlayer, Closing, HangUp
<1>9. QED
  BY <1>1, <1>2, <1>3, <1>4, <1>5, <1>6, <1>7, <1>8

\* sentFirst becomes true only after the rest of the first update was sent.
LEMMA SentStep == TypeInv /\ LocksHeld /\ SentInv /\ [Next]_vars => SentInv'
<1> SUFFICES ASSUME TypeInv, LocksHeld, SentInv, [Next]_vars PROVE SentInv'
  OBVIOUS
<1>1. stream \in [Conn -> Seq(Chunk)] /\ sentFirst \in [Conn -> BOOLEAN]
      /\ (pc["Srv"] \in {"first2", "spawn", "cleaning"} => new \in Conn)
      /\ pc \in [Thread -> SrvPC \cup AnimPC \cup MainPC \cup ClientPC]
      /\ "Srv" \in Thread /\ Conn \subseteq Thread /\ "Srv" \notin Conn
  BY ThreadsAssumption DEF TypeInv, TypeOK, Serving, Thread
<1>2. \A c \in Conn : /\ DiffsLate(stream'[c])
                      /\ HasFirst(stream[c]) => HasFirst(stream'[c])
  <2>1. SUFFICES ASSUME NEW c \in Conn
                 PROVE DiffsLate(stream'[c]) /\ (HasFirst(stream[c]) => HasFirst(stream'[c]))
    OBVIOUS
  <2>2. DiffsLate(stream[c]) /\ (sentFirst[c] => HasFirst(stream[c])) /\ stream[c] \in Seq(Chunk)
    BY <1>1 DEF SentInv
  <2>3. CASE stream'[c] = stream[c]
    BY <2>2, <2>3
  <2>4. ASSUME NEW x \in Chunk, stream'[c] = Append(stream[c], x), x = "D" => sentFirst[c]
        PROVE  DiffsLate(stream'[c]) /\ (HasFirst(stream[c]) => HasFirst(stream'[c]))
    BY <2>2, <2>4, Appended
  <2>5. QED
    BY <2>3, <2>4, StreamStep DEF Lengthened
<1>3. (\A c \in Conn : sentFirst[c] => HasFirst(stream[c]))
      /\ (pc["Srv"] = "spawn" => HasFirst(stream[new]))
  BY DEF SentInv
<1>4. SUFFICES (\A c \in Conn : sentFirst'[c] => HasFirst(stream'[c]))
               /\ (pc'["Srv"] = "spawn" => HasFirst(stream'[new']))
  BY <1>2 DEF SentInv
<1> HIDE DEF HasFirst
<1> USE DEF Become, Goto
<1>5. CASE Spawn
  BY <1>1, <1>2, <1>3, <1>5 DEF Spawn
<1>6. CASE FirstUpdateRest
  <2>1. new \in Conn /\ stream'[new] = Append(stream[new], "F2") /\ new' = new
        /\ sentFirst' = sentFirst
    BY <1>1, <1>6 DEF FirstUpdateRest, Send, clients
  <2>2. HasFirst(stream'[new])
    <3>1. DiffsLate(stream[new]) /\ stream[new] \in Seq(Chunk) /\ "F2" \in Chunk
      BY <1>1, <2>1 DEF SentInv, Chunk
    <3>2. QED
      BY <2>1, <3>1, Appended
  <2>3. QED
    BY <1>2, <1>3, <2>1, <2>2
<1>7. CASE Admit
  BY <1>1, <1>2, <1>3, <1>7 DEF Admit
<1>8. CASE Others
  BY <1>1, <1>2, <1>3, <1>8 DEF Others
<1>9. CASE UNCHANGED sentFirst /\ pc'["Srv"] # "spawn"
  BY <1>2, <1>3, <1>9
<1>10. Srv \/ AcceptFails \/ (\E c \in Conn : Accept(c)) =>
         Spawn \/ FirstUpdateRest \/ Admit \/ (UNCHANGED sentFirst /\ pc'["Srv"] # "spawn")
  BY <1>1 DEF Srv, clients, SrvStart, LockForClean, CleanSkip, CleanFree, Refuse, Greet,
     FirstUpdate, LockForDestroy, DestroyShutdown, DestroyJoin, DestroyClear, DeleteMcl,
     KillTimer, JoinAnim, DeleteGame, Accept, AcceptFails
<1>11. QED
  BY <1>5, <1>6, <1>7, <1>8, <1>9, <1>10, OthersStep

-----------------------------------------------------------------------------
\* Where ServerThread is tells what it has sent to the client it is serving, and
\* a connection that was not accepted has nothing (Server.cpp:421-510).
WorldInv ==
  /\ WorldInOrder
  /\ \A c \in Conn : link[c] = "idle" => s[c] = "INVALID" /\ stream[c] = <<>>
  /\ pc["Srv"] \in {"clean", "cleaning", "greet"} => ~Has("G", stream[new])
  /\ pc["Srv"] = "first" => Has("G", stream[new]) /\ ~Has("F1", stream[new])
  /\ pc["Srv"] = "first2" => Has("F1", stream[new]) /\ ~Has("F2", stream[new])

\* Nothing is sent at the start, and no socket is valid.
LEMMA WorldInit == Init => WorldInv
BY DEF Init, WorldInv, WorldInOrder, InOrder, Has, Thread

\* One more chunk keeps the order if its predecessor is there and it is not.
LEMMA AppendedInOrder ==
  ASSUME NEW q \in Seq(Chunk), NEW x \in Chunk, InOrder(q),
         x \in {"G", "F1", "F2"} => ~Has(x, q),
         x = "F1" => Has("G", q),
         x = "F2" => Has("F1", q),
         x = "D" => Has("F2", q)
  PROVE  InOrder(Append(q, x))
<1> DEFINE r == Append(q, x)
<1>1. Len(q) \in Nat /\ Len(r) = Len(q) + 1 /\ r[Len(q) + 1] = x
      /\ \A i \in 1 .. Len(q) : r[i] = q[i]
  OBVIOUS
<1> HIDE DEF r
<1>2. ASSUME NEW y, NEW i \in 1 .. Len(q) PROVE SentBefore(y, r, i) <=> SentBefore(y, q, i)
  BY <1>1 DEF SentBefore
<1>3. ASSUME NEW y PROVE SentBefore(y, r, Len(q) + 1) <=> Has(y, q)
  BY <1>1 DEF SentBefore, Has
<1>4. ASSUME NEW i \in 1 .. Len(r)
      PROVE  /\ r[i] \in {"G", "F1", "F2"} => ~SentBefore(r[i], r, i)
             /\ r[i] = "F1" => SentBefore("G", r, i)
             /\ r[i] = "F2" => SentBefore("F1", r, i)
             /\ r[i] = "D" => SentBefore("F2", r, i)
  <2>1. CASE i \in 1 .. Len(q)
    BY <1>1, <1>2, <2>1 DEF InOrder
  <2>2. CASE i = Len(q) + 1
    BY <1>1, <1>3, <2>2
  <2> QED BY <1>1, <2>1, <2>2
<1>5. InOrder(r)
  BY <1>4 DEF InOrder
<1> QED BY <1>5 DEF r

\* What is sent is behind what was sent.
LEMMA AppendedHas ==
  ASSUME NEW q \in Seq(Chunk), NEW x \in Chunk, NEW y
  PROVE  Has(y, Append(q, x)) <=> Has(y, q) \/ x = y
BY DEF Has

\* A connection is made once, and only Admit makes a socket valid.
LEMMA LinkStep ==
  TypeInv /\ [Next]_vars =>
    \A c \in Conn : /\ link'[c] = "idle" => link[c] = "idle"
                    /\ s'[c] # "INVALID" => s'[c] = s[c] \/ (Admit /\ c = new)
<1> SUFFICES ASSUME TypeInv, [Next]_vars, NEW d \in Conn
             PROVE  /\ link'[d] = "idle" => link[d] = "idle"
                    /\ s'[d] # "INVALID" => s'[d] = s[d] \/ (Admit /\ d = new)
  OBVIOUS
<1>1. link \in [Conn -> {"idle", "up", "gone"}] /\ s \in [Conn -> {"valid", "INVALID"}]
  BY DEF TypeInv, TypeOK
<1>2. CASE Admit
  BY <1>1, <1>2 DEF Admit
<1>3. CASE Refuse \/ DestroyShutdown \/ \E c \in Conn : Accept(c) \/ Kick(c) \/ HangUp(c)
  BY <1>1, <1>3 DEF Refuse, DestroyShutdown, Accept, Kick, HangUp
<1>4. CASE \E c \in Conn : RecvEnds(c) \/ Closing(c)
  BY <1>1, <1>4 DEF RecvEnds, Closing
<1>5. CASE UNCHANGED <<link, s>>
  BY <1>5
<1>6. \/ Admit \/ Refuse \/ DestroyShutdown \/ \E c \in Conn : Accept(c) \/ Kick(c) \/ HangUp(c)
      \/ \E c \in Conn : RecvEnds(c) \/ Closing(c)
      \/ UNCHANGED <<link, s>>
  BY DEF Next, vars, clients, Srv, Anim, Main, Client, FrameProc, WaitModified,
      SrvStart, LockForClean, CleanSkip, CleanFree, Greet, FirstUpdate, FirstUpdateRest, Spawn,
      LockForDestroy, DestroyJoin, DestroyClear, DeleteMcl, KillTimer, JoinAnim, DeleteGame,
      AcceptFails, FrameTry, FrameEarly, FrameDiff, WaitLock, WaitLockFails, WaitSkip, WaitSend,
      WaitUnlock, Broadcast, AnimWake, FrameSkip, HostGame, Chat, RecvLine, Login, ErasePlayer
<1> QED BY <1>2, <1>3, <1>4, <1>5, <1>6

\* ServerThread's own sends come in the order of its positions; the others only
\* add messages, kicks and, behind the first update, diffs.
LEMMA WorldStep ==
  TypeInv /\ LocksHeld /\ SentInv /\ WorldInv /\ [Next]_vars => WorldInv'
<1> SUFFICES ASSUME TypeInv, LocksHeld, SentInv, WorldInv, [Next]_vars PROVE WorldInv'
  OBVIOUS
<1>1. /\ stream \in [Conn -> Seq(Chunk)]
      /\ pc \in [Thread -> SrvPC \cup AnimPC \cup MainPC \cup ClientPC] /\ "Srv" \in Thread
      /\ pc["Srv"] \in {"clean", "cleaning", "greet", "first", "first2", "spawn"} =>
           new \in Conn /\ link[new] # "idle"
      /\ \A c \in Conn : sentFirst[c] => Has("F2", stream[c])
      /\ "Srv" \notin Conn
  BY ThreadsAssumption DEF TypeInv, TypeOK, Serving, Thread, SentInv, HasFirst, Has
<1> USE DEF Become, Goto
<1>2. ASSUME NEW c \in Conn
      PROVE  /\ InOrder(stream'[c])
             /\ \A y \in {"G", "F1", "F2"} : Has(y, stream'[c]) =>
                  \/ Has(y, stream[c])
                  \/ y = "G" /\ Greet
                  \/ y = "F1" /\ FirstUpdate
                  \/ y = "F2" /\ FirstUpdateRest
             /\ \A y \in {"G", "F1", "F2"} : Has(y, stream[c]) => Has(y, stream'[c])
             /\ link[c] = "idle" => stream'[c] = stream[c]
  <2>1. CASE stream'[c] = stream[c]
    BY <2>1 DEF WorldInv, WorldInOrder
  <2>2. CASE stream'[c] # stream[c]
    <3>1. PICK x \in Chunk :
            /\ stream'[c] = Append(stream[c], x)
            /\ x = "D" => sentFirst[c]
            /\ x \in {"D", "M", "K"} => s[c] = "valid"
            /\ x = "G" => Greet /\ c = new
            /\ x = "F1" => FirstUpdate /\ c = new
            /\ x = "F2" => FirstUpdateRest /\ c = new
      BY <2>2, StreamStep DEF Lengthened
    <3>2. /\ Greet => pc["Srv"] = "greet"
          /\ FirstUpdate => pc["Srv"] = "first"
          /\ FirstUpdateRest => pc["Srv"] = "first2"
      BY DEF Greet, FirstUpdate, FirstUpdateRest
    <3>3. /\ x = "G" => ~Has("G", stream[c])
          /\ x = "F1" => Has("G", stream[c]) /\ ~Has("F1", stream[c])
          /\ x = "F2" => Has("F1", stream[c]) /\ ~Has("F2", stream[c])
          /\ x = "D" => Has("F2", stream[c])
      BY <1>1, <3>1, <3>2 DEF WorldInv
    <3>4. stream[c] \in Seq(Chunk) /\ InOrder(stream[c])
      BY <1>1 DEF WorldInv, WorldInOrder
    <3>5. InOrder(stream'[c])
      BY <3>1, <3>3, <3>4, AppendedInOrder
    <3>6. \A y : Has(y, stream'[c]) <=> Has(y, stream[c]) \/ x = y
      BY <3>1, <3>4, AppendedHas
    <3>7. link[c] # "idle"
      <4>1. CASE x \in {"D", "M", "K"}
        BY <3>1, <4>1 DEF WorldInv
      <4>2. CASE x \in {"G", "F1", "F2"}
        BY <1>1, <3>1, <3>2, <4>2
      <4> QED BY <4>1, <4>2 DEF Chunk
    <3>8. \A y \in {"G", "F1", "F2"} : Has(y, stream'[c]) =>
            \/ Has(y, stream[c])
            \/ y = "G" /\ Greet
            \/ y = "F1" /\ FirstUpdate
            \/ y = "F2" /\ FirstUpdateRest
      <4>1. SUFFICES ASSUME NEW y \in {"G", "F1", "F2"}, x = y
                     PROVE  \/ y = "G" /\ Greet
                            \/ y = "F1" /\ FirstUpdate
                            \/ y = "F2" /\ FirstUpdateRest
        BY <3>6
      <4> QED BY <3>1, <4>1
    <3>9. \A y \in {"G", "F1", "F2"} : Has(y, stream[c]) => Has(y, stream'[c])
      BY <3>6
    <3> QED BY <3>5, <3>7, <3>8, <3>9
  <2> QED BY <2>1, <2>2
<1>3. WorldInOrder'
  BY <1>2 DEF WorldInOrder
<1>4. \A c \in Conn : link'[c] = "idle" => s'[c] = "INVALID" /\ stream'[c] = <<>>
  BY <1>1, <1>2, LinkStep DEF WorldInv, Admit
<1>5. /\ pc'["Srv"] \in {"clean", "cleaning", "greet"} => ~Has("G", stream'[new'])
      /\ pc'["Srv"] = "first" => Has("G", stream'[new']) /\ ~Has("F1", stream'[new'])
      /\ pc'["Srv"] = "first2" => Has("F1", stream'[new']) /\ ~Has("F2", stream'[new'])
  <2>1. CASE \E c \in Conn : Accept(c)
    <3>1. PICK c \in Conn : Accept(c)
      BY <2>1
    <3>2. pc'["Srv"] = "clean" /\ new' = c /\ stream'[c] = <<>>
      BY <1>1, <3>1 DEF Accept, WorldInv
    <3>3. ~Has("G", <<>>)
      BY DEF Has
    <3> QED BY <3>2, <3>3
  <2>2. CASE Greet
    <3>1. /\ pc'["Srv"] = "first" /\ new' = new /\ new \in Conn /\ pc["Srv"] = "greet"
          /\ stream'[new] = Append(stream[new], "G")
      BY <1>1, <2>2 DEF Greet, Send
    <3>2. Has("G", stream'[new])
      <4>1. stream[new] \in Seq(Chunk) /\ "G" \in Chunk
        BY <1>1, <3>1 DEF Chunk
      <4>2. Has("G", Append(stream[new], "G"))
        BY <4>1, AppendedHas
      <4> QED BY <3>1, <4>2
    <3>3. ~Has("F1", stream[new])
      BY <3>1 DEF WorldInv, WorldInOrder, InOrder, Has, SentBefore
    <3>4. ~FirstUpdate
      BY <3>1 DEF FirstUpdate
    <3> QED BY <1>2, <3>1, <3>2, <3>3, <3>4
  <2>3. CASE FirstUpdate
    <3>1. /\ pc["Srv"] = "first" /\ new' = new /\ new \in Conn
          /\ pc'["Srv"] \in {"crashed", "first2"}
          /\ pc'["Srv"] = "first2" => stream'[new] = Append(stream[new], "F1")
      BY <1>1, <2>3 DEF FirstUpdate, Send
    <3>2. pc'["Srv"] = "first2" => Has("F1", stream'[new])
      <4>1. stream[new] \in Seq(Chunk) /\ "F1" \in Chunk
        BY <1>1, <3>1 DEF Chunk
      <4>2. Has("F1", Append(stream[new], "F1"))
        BY <4>1, AppendedHas
      <4> QED BY <3>1, <4>2
    <3>3. ~Has("F2", stream[new])
      BY <3>1 DEF WorldInv, WorldInOrder, InOrder, Has, SentBefore
    <3>4. ~FirstUpdateRest
      BY <3>1 DEF FirstUpdateRest
    <3> QED BY <1>2, <3>1, <3>2, <3>3, <3>4
  <2>4. CASE LockForClean \/ CleanSkip \/ CleanFree \/ Admit
    <3>1. /\ pc["Srv"] \in {"clean", "cleaning"} /\ new' = new
          /\ pc'["Srv"] \in {"clean", "cleaning", "greet"} /\ stream' = stream
      BY <1>1, <2>4 DEF LockForClean, CleanSkip, CleanFree, Admit
    <3> QED BY <3>1 DEF WorldInv
  <2>5. CASE pc'["Srv"] \notin {"clean", "cleaning", "greet", "first", "first2"}
    BY <2>5
  <2>6. CASE Others
    <3>1. pc'["Srv"] = pc["Srv"] /\ new' = new
      BY <2>6 DEF Others
    <3>2. CASE Greet \/ FirstUpdate
      BY <3>2, <2>2, <2>3
    <3>3. CASE ~Greet /\ ~FirstUpdate /\ ~FirstUpdateRest
      BY <1>1, <1>2, <3>1, <3>3 DEF WorldInv
    <3>4. CASE FirstUpdateRest
      BY <1>1, <3>4, <2>5 DEF FirstUpdateRest
    <3> QED BY <3>2, <3>3, <3>4
  <2>7. Srv \/ AcceptFails =>
          \/ LockForClean \/ CleanSkip \/ CleanFree \/ Admit \/ Greet \/ FirstUpdate
          \/ pc'["Srv"] \notin {"clean", "cleaning", "greet", "first", "first2"}
    <3>1. Spawn => new # "Srv"
      BY <1>1 DEF Spawn
    <3> QED BY <1>1, <3>1 DEF Srv, SrvStart, Refuse, FirstUpdateRest, Spawn, LockForDestroy,
         DestroyShutdown, DestroyJoin, DestroyClear, DeleteMcl, KillTimer, JoinAnim, DeleteGame,
         AcceptFails
  <2> QED BY <2>1, <2>2, <2>3, <2>4, <2>5, <2>6, <2>7, OthersStep
<1> QED BY <1>3, <1>4, <1>5 DEF WorldInv

-----------------------------------------------------------------------------
\* The inductive invariant.
IInv == TypeInv /\ LocksHeld /\ SlotBound /\ ListInv /\ GameInv /\ SentInv /\ WorldInv

\* The parts together hold in every reachable state of the threads.
THEOREM Inductive == Spec => []IInv
<1>1. Init => IInv
  BY TypeInit, LocksInit, SlotInit, ListInit, GameInit, SentInit, WorldInit DEF IInv
<1>2. IInv /\ [Next]_vars => IInv'
  BY TypeStep, ServingStep, LocksStep, SlotStep, ListStep, GameStep, SentStep, WorldStep
  DEF IInv, TypeInv
<1>3. QED
  BY <1>1, <1>2, PTL DEF Spec

\* Every variable keeps its type.
THEOREM TypeCorrect == Spec => []TypeOK
<1>1. IInv => TypeOK
  BY DEF IInv, TypeInv
<1>2. QED
  BY <1>1, Inductive, PTL

\* The client list never outgrows a positive maxncl (Server.cpp:452-481).
THEOREM SlotsBounded == Spec => []SlotBound
<1>1. IInv => SlotBound
  BY DEF IInv
<1>2. QED
  BY <1>1, Inductive, PTL

\* cl_freenode and cl_destroy never take away the ServerClient of a thread that
\* still runs (Server.cpp:1252-1297).
THEOREM LiveListed == Spec => []LiveThreadsListed
<1>1. IInv => LiveThreadsListed
  BY DEF IInv, ListInv
<1>2. QED
  BY <1>1, Inductive, PTL

\* No thread waits for mcl while it holds mg, so the two mutexes are always taken
\* in one order (Server.cpp:624-625).
THEOREM LocksOrdered == Spec => []LockOrder
<1>1. IInv => LockOrder
  BY DEF IInv, LocksHeld, LockOrder, WaitsForMcl, InGame
<1>2. QED
  BY <1>1, Inductive, PTL

\* No client is sent a diff before its whole first update (Server.cpp:286-302,
\* 509-510).
THEOREM DiffsAfterFirst == Spec => []FirstThenDiffs
<1>1. IInv => FirstThenDiffs
  BY DEF IInv, SentInv, DiffsLate, FirstThenDiffs
<1>2. QED
  BY <1>1, Inductive, PTL

\* Whatever other threads send meanwhile, a client gets the greeting, its first
\* update and then diffs in this order, each piece once (Server.cpp:496-510).
THEOREM ClientSeesOrder == Spec => []WorldInOrder
<1>1. IInv => WorldInOrder
  BY DEF IInv, WorldInv
<1>2. QED
  BY <1>1, Inductive, PTL

\* The game is deleted only when no thread can be inside it
\* (Server.cpp:517-541).
THEOREM GameOutlives == Spec => []GameOutlivesUsers
<1>1. ASSUME IInv, pg = "freed", NEW t \in Thread PROVE ~UsesGame(t)
  <2>1. /\ pc["Srv"] = "exit" /\ pc["Main"] # "anim" /\ pc["Main"] \in MainPC
        /\ pc["Anim"] \in {"none", "done"}
    BY <1>1 DEF IInv, TypeInv, TypeOK, GameInv
  <2>2. \A c \in Conn : pc[c] \in {"none", "done"}
    BY <1>1, <2>1 DEF IInv, ListInv, LiveThreadsListed, Listed, Past
  <2>3. QED
    BY <2>1, <2>2 DEF UsesGame, Thread, MainPC
<1>2. IInv => GameOutlivesUsers
  BY <1>1 DEF GameOutlivesUsers
<1>3. QED
  BY <1>2, Inductive, PTL
=============================================================================
