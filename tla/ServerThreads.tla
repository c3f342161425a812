----------------------------- MODULE ServerThreads -----------------------------
(***************************************************************************)
(* The threads of the game server (src/src/Server.cpp) and the two mutexes *)
(* they share.                                                             *)
(*                                                                         *)
(*   "Srv"   ServerThread: accepts connections, reaps finished clients     *)
(*   "Anim"  AnimThread: runs FrameProc in the dedicated build             *)
(*   "Main"  the program's first thread: hostgame, then the console        *)
(*           (dedicated build) or the window loop that also runs FrameProc *)
(*   c       the ClientThread of connection c                              *)
(*                                                                         *)
(* A critical section that never waits inside is one step, guarded by its  *)
(* mutex being free; a mutex is a variable of the model only where some    *)
(* thread keeps it while it waits for another thing.  That is so for mcl   *)
(* (the client list) and mg (the game), and not for ServerClient::m, which *)
(* is taken only by a holder of mcl and given back at once.  What a thread *)
(* sends is a sequence of chunks, one per send() that another thread's     *)
(* send() can come between.                                                *)
(***************************************************************************)
EXTENDS Integers, Sequences, FiniteSets

CONSTANTS
  Conn,        \* the connections ever made; each is one ServerClient
  Dedicated,   \* is this the dedicated build?
  maxncl,      \* Server::maxncl, the size allowed to the client list
  MaxFrames,   \* bound: diffs ever created by FrameProc
  MaxLines,    \* bound: SAY and LOGIN lines ever received
  MaxConsole,  \* bound: chats and kicks ever issued by Main
  NoThread,    \* the owner of a free mutex
  NoConn       \* the accepted socket when there is none

ASSUME ThreadsAssumption ==
  /\ Dedicated \in BOOLEAN
  /\ maxncl \in Int
  /\ MaxFrames \in Nat /\ MaxLines \in Nat /\ MaxConsole \in Nat
  /\ Conn \cap {"Srv", "Anim", "Main"} = {}
  /\ NoThread \notin Conn \cup {"Srv", "Anim", "Main"}
  /\ NoConn \notin Conn

Thread == Conn \cup {"Srv", "Anim", "Main"}

VARIABLES
  pc,          \* where each thread is
  mcl, mg,     \* owners of the client list's and the game's mutex
  mclDead,     \* has delete_mutex(&mcl) been called?
  cl,          \* Server::cl without its first element, the server's own client
  at,          \* the iterator into cl of the thread that holds mcl
  new,         \* the socket ServerThread is serving
  s,           \* ServerClient::s
  sentFirst,   \* ServerClient::sentFirst
  link,        \* the connection itself: not made, up, or at its end
  stream,      \* what has been sent on each connection
  pg,          \* Server::pg
  timer,       \* the timer that wakes AnimThread
  terminating, \* Server::terminating
  frames, lines, console  \* counters under the bounds

locks   == <<mcl, mg, mclDead>>
clients == <<cl, s, sentFirst, link>>
bounds  == <<frames, lines, console>>
vars    == <<pc, locks, cl, at, new, s, sentFirst, link, stream, pg, timer,
             terminating, bounds>>

SrvPC    == {"start", "accept", "clean", "cleaning", "greet", "first", "first2",
             "spawn", "term", "destroy", "delmcl", "mgterm", "joinanim",
             "delpg", "exit", "crashed"}
AnimPC   == {"none", "sigwait", "frame", "anim", "wm", "wmIter", "done"}
MainPC   == {"start", "loop", "chat", "anim", "wm", "wmIter"}
ClientPC == {"none", "recv", "login", "say", "bye", "erase", "closing", "wm",
             "wmIter", "done"}

\* G: greeting with its 'L' frame;  F1 F2: size and body of the first update;
\* D: an update frame with a diff;  M: a message frame;  K: the KICK line.
Chunk == {"G", "F1", "F2", "D", "M", "K"}

Listed == {cl[i] : i \in 1 .. Len(cl)}

Become(t, q) == pc' = [pc EXCEPT ![t] = q]
Goto(t, p, q) == pc[t] = p /\ Become(t, q)

\* send(): one more chunk on the connection of c.
Send(c, chunk) == stream' = [stream EXCEPT ![c] = Append(@, chunk)]

Init ==
  /\ pc = [t \in Thread |-> IF t \in {"Srv", "Main"} THEN "start" ELSE "none"]
  /\ mcl = NoThread /\ mg = NoThread /\ mclDead = FALSE
  /\ cl = <<>> /\ at = 1 /\ new = NoConn
  /\ s = [c \in Conn |-> "INVALID"]
  /\ sentFirst = [c \in Conn |-> FALSE]
  /\ link = [c \in Conn |-> "idle"]
  /\ stream = [c \in Conn |-> <<>>]
  /\ pg = "null" /\ timer = "off" /\ terminating = FALSE
  /\ frames = 0 /\ lines = 0 /\ console = 0

-----------------------------------------------------------------------------
(* ServerThread *)

\* The dedicated build starts AnimThread and its timer first.
SrvStart ==
  /\ pc["Srv"] = "start"
  /\ IF Dedicated
     THEN /\ pc' = [pc EXCEPT !["Srv"] = "accept", !["Anim"] = "sigwait"]
          /\ timer' = "on"
     ELSE Become("Srv", "accept") /\ UNCHANGED timer
  /\ UNCHANGED <<locks, clients, at, new, stream, pg, terminating, bounds>>

Accept(c) ==
  /\ Goto("Srv", "accept", "clean")
  /\ link[c] = "idle"
  /\ link' = [link EXCEPT ![c] = "up"]
  /\ new' = c
  /\ UNCHANGED <<locks, cl, at, s, sentFirst, stream, pg, timer, terminating, bounds>>

\* accept() reports an error: leave the loop.
AcceptFails ==
  /\ Goto("Srv", "accept", "term")
  /\ UNCHANGED <<locks, clients, at, new, stream, pg, timer, terminating, bounds>>

LockForClean ==
  /\ Goto("Srv", "clean", "cleaning")
  /\ mcl = NoThread
  /\ mcl' = "Srv" /\ at' = 1
  /\ UNCHANGED <<mg, mclDead, clients, new, stream, pg, timer, terminating, bounds>>

\* cl_clean, at a client whose socket is valid.
CleanSkip ==
  /\ pc["Srv"] = "cleaning" /\ at <= Len(cl) /\ s[cl[at]] # "INVALID"
  /\ at' = at + 1
  /\ UNCHANGED <<pc, locks, clients, new, stream, pg, timer, terminating, bounds>>

\* Mistake: the node is erased without waiting for its thread.
CleanFreeNoJoin ==
  /\ pc["Srv"] = "cleaning" /\ at <= Len(cl) /\ s[cl[at]] = "INVALID"
  /\ cl' = SubSeq(cl, 1, at - 1) \o SubSeq(cl, at + 1, Len(cl))
  /\ UNCHANGED <<pc, locks, at, new, s, sentFirst, link, stream, pg, timer,
                 terminating, bounds>>

\* cl_clean, at a client whose socket is invalid: cl_freenode waits for the
\* thread to end, then the node is erased.
CleanFree ==
  /\ pc["Srv"] = "cleaning" /\ at <= Len(cl) /\ s[cl[at]] = "INVALID"
  /\ pc[cl[at]] = "done"
  /\ cl' = SubSeq(cl, 1, at - 1) \o SubSeq(cl, at + 1, Len(cl))
  /\ UNCHANGED <<pc, locks, at, new, s, sentFirst, link, stream, pg, timer,
                 terminating, bounds>>

\* Mistake: the server's own client is not counted.
NoSlotWithoutHost == 0 <= maxncl /\ maxncl <= Len(cl)

\* maxncl is an int compared with a size_t: a negative one never compares less.
\* The list's size counts the server's own client.
NoSlot == 0 <= maxncl /\ maxncl <= Len(cl) + 1

Refuse ==
  /\ Goto("Srv", "cleaning", "accept")
  /\ at > Len(cl) /\ NoSlot
  /\ link' = [link EXCEPT ![new] = "gone"]
  /\ new' = NoConn
  /\ mcl' = NoThread
  /\ UNCHANGED <<mg, mclDead, cl, at, s, sentFirst, stream, pg, timer, terminating, bounds>>

\* Mistake: a new client counts as one that has its first update.
AdmitAsSent ==
  /\ Goto("Srv", "cleaning", "greet")
  /\ at > Len(cl) /\ ~NoSlot
  /\ cl' = Append(cl, new)
  /\ s' = [s EXCEPT ![new] = "valid"]
  /\ sentFirst' = [sentFirst EXCEPT ![new] = TRUE]
  /\ mcl' = NoThread
  /\ UNCHANGED <<mg, mclDead, at, new, link, stream, pg, timer, terminating, bounds>>

\* addServerClient, then the socket and the flag are set; mcl is released.
Admit ==
  /\ Goto("Srv", "cleaning", "greet")
  /\ at > Len(cl) /\ ~NoSlot
  /\ cl' = Append(cl, new)
  /\ s' = [s EXCEPT ![new] = "valid"]
  /\ sentFirst' = [sentFirst EXCEPT ![new] = FALSE]
  /\ mcl' = NoThread
  /\ UNCHANGED <<mg, mclDead, at, new, link, stream, pg, timer, terminating, bounds>>

\* The greeting goes out without mcl and without the client's own mutex.
Greet ==
  /\ Goto("Srv", "greet", "first")
  /\ Send(new, "G")
  /\ UNCHANGED <<locks, clients, at, new, pg, timer, terminating, bounds>>

\* SendUpdateStream(pcl, true): mg is taken, the game serialized, and the frame
\* sent in pieces.  A game that hostgame has not yet handed over is a null
\* pointer.
FirstUpdate ==
  /\ pc["Srv"] = "first" /\ mg = NoThread
  /\ IF pg = "null"
     THEN Become("Srv", "crashed") /\ UNCHANGED <<mg, stream>>
     ELSE Become("Srv", "first2") /\ mg' = "Srv" /\ Send(new, "F1")
  /\ UNCHANGED <<mcl, mclDead, clients, at, new, pg, timer, terminating, bounds>>

FirstUpdateRest ==
  /\ Goto("Srv", "first2", "spawn")
  /\ Send(new, "F2")
  /\ mg' = NoThread
  /\ UNCHANGED <<mcl, mclDead, clients, at, new, pg, timer, terminating, bounds>>

\* sentFirst = true, then the ClientThread is created.
Spawn ==
  /\ pc["Srv"] = "spawn"
  /\ pc' = [pc EXCEPT !["Srv"] = "accept", ![new] = "recv"]
  /\ sentFirst' = [sentFirst EXCEPT ![new] = TRUE]
  /\ new' = NoConn
  /\ UNCHANGED <<locks, cl, at, s, link, stream, pg, timer, terminating, bounds>>

LockForDestroy ==
  /\ Goto("Srv", "term", "destroy")
  /\ mcl = NoThread
  /\ mcl' = "Srv" /\ at' = 1 /\ terminating' = TRUE
  /\ UNCHANGED <<mg, mclDead, clients, new, stream, pg, timer, bounds>>

\* cl_destroy, at a client with a valid socket: shutdown() ends its recv().
DestroyShutdown ==
  /\ pc["Srv"] = "destroy" /\ at <= Len(cl)
  /\ s[cl[at]] # "INVALID" /\ link[cl[at]] = "up"
  /\ link' = [link EXCEPT ![cl[at]] = "gone"]
  /\ UNCHANGED <<pc, locks, cl, at, new, s, sentFirst, stream, pg, timer,
                 terminating, bounds>>

DestroyJoin ==
  /\ pc["Srv"] = "destroy" /\ at <= Len(cl)
  /\ pc[cl[at]] = "done"
  /\ at' = at + 1
  /\ UNCHANGED <<pc, locks, clients, new, stream, pg, timer, terminating, bounds>>

DestroyClear ==
  /\ Goto("Srv", "destroy", "delmcl")
  /\ at > Len(cl)
  /\ cl' = <<>> /\ mcl' = NoThread
  /\ UNCHANGED <<mg, mclDead, at, new, s, sentFirst, link, stream, pg, timer,
                 terminating, bounds>>

DeleteMcl ==
  /\ Goto("Srv", "delmcl", "mgterm")
  /\ mclDead' = TRUE
  /\ UNCHANGED <<mcl, mg, clients, at, new, stream, pg, timer, terminating, bounds>>

\* mg is taken and the timer killed; a signal it has raised may still be pending.
KillTimer ==
  /\ pc["Srv"] = "mgterm" /\ mg = NoThread
  /\ mg' = "Srv"
  /\ IF Dedicated
     THEN Become("Srv", "joinanim") /\ timer' \in {"killed", "pending"}
     ELSE Become("Srv", "delpg") /\ UNCHANGED timer
  /\ UNCHANGED <<mcl, mclDead, clients, at, new, stream, pg, terminating, bounds>>

\* Mistake: the game is deleted without waiting for AnimThread.
DontJoinAnim ==
  /\ Goto("Srv", "joinanim", "delpg")
  /\ UNCHANGED <<locks, clients, at, new, stream, pg, timer, terminating, bounds>>

JoinAnim ==
  /\ Goto("Srv", "joinanim", "delpg")
  /\ pc["Anim"] = "done"
  /\ UNCHANGED <<locks, clients, at, new, stream, pg, timer, terminating, bounds>>

DeleteGame ==
  /\ Goto("Srv", "delpg", "exit")
  /\ pg' = IF pg = "null" THEN "null" ELSE "freed"
  /\ mg' = NoThread
  /\ UNCHANGED <<mcl, mclDead, clients, at, new, stream, timer, terminating, bounds>>

Srv ==
  \/ SrvStart \/ LockForClean \/ CleanSkip \/ CleanFree \/ Refuse \/ Admit
  \/ Greet \/ FirstUpdate \/ FirstUpdateRest \/ Spawn
  \/ LockForDestroy \/ DestroyShutdown \/ DestroyJoin \/ DestroyClear
  \/ DeleteMcl \/ KillTimer \/ JoinAnim \/ DeleteGame

-----------------------------------------------------------------------------
(* What several threads run: FrameProc, WaitModified, BroadcastMessage *)

\* The thread that runs FrameProc, where it stands when it calls it and where
\* it goes on.
FrameThread  == IF Dedicated THEN "Anim" ELSE "Main"
FrameAt(t)   == IF t = "Anim" THEN "frame" ELSE "loop"
FrameBack(t) == IF t = "Anim" THEN "sigwait" ELSE "loop"
AfterWait(t) == IF t \in Conn THEN "done" ELSE FrameBack(t)

\* FrameProc runs only with a game and with mg, which it merely tries: when a
\* server at its end has deleted mg, the try fails as well.
FrameTry(t) ==
  /\ Goto(t, FrameAt(t), "anim")
  /\ pg = "set" /\ mg = NoThread
  /\ mg' = t
  /\ UNCHANGED <<mcl, mclDead, clients, at, new, stream, pg, timer, terminating, bounds>>

\* The update period is not over: the game has been simulated, nothing is sent.
FrameEarly(t) ==
  /\ Goto(t, "anim", FrameBack(t))
  /\ mg' = NoThread
  /\ UNCHANGED <<mcl, mclDead, clients, at, new, stream, pg, timer, terminating, bounds>>

\* Mistake: mg is kept over WaitModified.
FrameDiffKeepsMg(t) ==
  /\ Goto(t, "anim", "wm")
  /\ frames < MaxFrames
  /\ frames' = frames + 1
  /\ UNCHANGED <<locks, clients, at, new, stream, pg, timer, terminating, lines, console>>

\* The period is over: the diff is created, and mg released before WaitModified.
FrameDiff(t) ==
  /\ Goto(t, "anim", "wm")
  /\ frames < MaxFrames
  /\ frames' = frames + 1
  /\ mg' = NoThread
  /\ UNCHANGED <<mcl, mclDead, clients, at, new, stream, pg, timer, terminating,
                 lines, console>>

FrameProc(t) == t = FrameThread /\ (FrameTry(t) \/ FrameEarly(t) \/ FrameDiff(t))

\* Mistake: the iterator starts before the first client.
WaitLockBefore(t) ==
  /\ Goto(t, "wm", "wmIter")
  /\ mcl = NoThread
  /\ mcl' = t /\ at' = 0
  /\ UNCHANGED <<mg, mclDead, clients, new, stream, pg, timer, terminating, bounds>>

\* lock_mutex(&mcl) in WaitModified.
WaitLock(t) ==
  /\ Goto(t, "wm", "wmIter")
  /\ mcl = NoThread
  /\ mcl' = t /\ at' = 1
  /\ UNCHANGED <<mg, mclDead, clients, new, stream, pg, timer, terminating, bounds>>

\* Locking the deleted mutex fails: WaitModified does nothing.
WaitLockFails(t) ==
  /\ Goto(t, "wm", AfterWait(t))
  /\ mclDead
  /\ UNCHANGED <<locks, clients, at, new, stream, pg, timer, terminating, bounds>>

\* Mistake: sentFirst is forgotten.
UpdatableAtOnce(c) == s[c] # "INVALID"

Updatable(c) == s[c] # "INVALID" /\ sentFirst[c]

WaitSkip(t) ==
  /\ pc[t] = "wmIter" /\ at <= Len(cl) /\ ~Updatable(cl[at])
  /\ at' = at + 1
  /\ UNCHANGED <<pc, locks, clients, new, stream, pg, timer, terminating, bounds>>

\* SendUpdateStream(&*pc, false): the last diff, under mg.
WaitSend(t) ==
  /\ pc[t] = "wmIter" /\ at <= Len(cl) /\ Updatable(cl[at])
  /\ mg = NoThread
  /\ Send(cl[at], "D")
  /\ at' = at + 1
  /\ UNCHANGED <<pc, locks, clients, new, pg, timer, terminating, bounds>>

WaitUnlock(t) ==
  /\ Goto(t, "wmIter", AfterWait(t))
  /\ at > Len(cl)
  /\ mcl' = NoThread
  /\ UNCHANGED <<mg, mclDead, clients, at, new, stream, pg, timer, terminating, bounds>>

WaitModified(t) ==
  WaitLock(t) \/ WaitLockFails(t) \/ WaitSkip(t) \/ WaitSend(t) \/ WaitUnlock(t)

\* BroadcastMessage skips no client whose socket is valid, whether or not it has
\* its first update.
Receivers == {c \in Listed : s[c] # "INVALID"}

\* BroadcastMessage, from p to q: under mcl, a message frame to every receiver.
Broadcast(t, p, q) ==
  /\ Goto(t, p, q)
  /\ \/ /\ mcl = NoThread
        /\ stream' = [c \in Conn |-> IF c \in Receivers THEN Append(stream[c], "M")
                                     ELSE stream[c]]
     \/ mclDead /\ UNCHANGED stream
  /\ UNCHANGED <<locks, clients, at, new, pg, timer, terminating, bounds>>

-----------------------------------------------------------------------------
(* AnimThread *)

AnimWake ==
  /\ pc["Anim"] = "sigwait" /\ timer \in {"on", "pending"}
  /\ timer' = IF timer = "pending" THEN "killed" ELSE timer
  /\ Become("Anim", IF terminating THEN "done" ELSE "frame")
  /\ UNCHANGED <<locks, clients, at, new, stream, pg, terminating, bounds>>

\* FrameProc without a game or without mg does nothing.
FrameSkip ==
  /\ Goto("Anim", "frame", "sigwait")
  /\ pg # "set" \/ mg # NoThread
  /\ UNCHANGED <<locks, clients, at, new, stream, pg, timer, terminating, bounds>>

Anim ==
  \/ AnimWake \/ FrameSkip
  \/ FrameProc("Anim") \/ WaitModified("Anim")

-----------------------------------------------------------------------------
(* Main *)

\* hostgame: the game is handed over after ServerThread was started.
HostGame ==
  /\ Goto("Main", "start", "loop")
  /\ pg' = IF pg = "null" THEN "set" ELSE pg
  /\ UNCHANGED <<locks, clients, at, new, stream, timer, terminating, bounds>>

Chat ==
  /\ Goto("Main", "loop", "chat")
  /\ console < MaxConsole /\ console' = console + 1
  /\ UNCHANGED <<locks, clients, at, new, stream, pg, timer, terminating, frames, lines>>

\* KickClientServer: under mcl, without the client's own mutex.
Kick(c) ==
  /\ pc["Main"] = "loop" /\ console < MaxConsole /\ console' = console + 1
  /\ mcl = NoThread /\ c \in Listed /\ s[c] # "INVALID"
  /\ Send(c, "K")
  /\ link' = [link EXCEPT ![c] = "gone"]
  /\ UNCHANGED <<pc, locks, cl, at, new, s, sentFirst, pg, timer, terminating,
                 frames, lines>>

Main ==
  \/ HostGame \/ Chat \/ Broadcast("Main", "chat", "loop")
  \/ \E c \in Conn : Kick(c)
  \/ FrameProc("Main") \/ WaitModified("Main")

-----------------------------------------------------------------------------
(* ClientThread *)

\* recv() returns a line.
RecvLine(c) ==
  /\ pc[c] = "recv" /\ link[c] = "up"
  /\ lines < MaxLines /\ lines' = lines + 1
  /\ \E q \in {"say", "login"} : Become(c, q)
  /\ UNCHANGED <<locks, clients, at, new, stream, pg, timer, terminating, frames, console>>

\* LOGIN: the name and the Player are set under mcl, then all are told.
Login(c) ==
  /\ Goto(c, "login", "say")
  /\ mcl = NoThread \/ mclDead
  /\ UNCHANGED <<locks, clients, at, new, stream, pg, timer, terminating, bounds>>

\* recv() ends.  Unless the server is terminating, the socket is invalidated
\* before the others are told.
RecvEnds(c) ==
  /\ pc[c] = "recv" /\ link[c] = "gone"
  /\ IF terminating
     THEN Become(c, "closing") /\ UNCHANGED s
     ELSE Become(c, "bye") /\ s' = [s EXCEPT ![c] = "INVALID"]
  /\ UNCHANGED <<locks, cl, at, new, sentFirst, link, stream, pg, timer,
                 terminating, bounds>>

\* The Player is erased from pg->players, under no mutex.
ErasePlayer(c) ==
  /\ Goto(c, "erase", "closing")
  /\ UNCHANGED <<locks, clients, at, new, stream, pg, timer, terminating, bounds>>

Closing(c) ==
  /\ Goto(c, "closing", IF terminating THEN "done" ELSE "wm")
  /\ s' = [s EXCEPT ![c] = "INVALID"]
  /\ UNCHANGED <<locks, cl, at, new, sentFirst, link, stream, pg, timer,
                 terminating, bounds>>

Client(c) ==
  \/ RecvLine(c) \/ Login(c) \/ Broadcast(c, "say", "recv")
  \/ RecvEnds(c) \/ Broadcast(c, "bye", "erase") \/ ErasePlayer(c) \/ Closing(c)
  \/ WaitModified(c)

\* The remote program closes its connection, or the network does.
HangUp(c) ==
  /\ link[c] = "up"
  /\ link' = [link EXCEPT ![c] = "gone"]
  /\ UNCHANGED <<pc, locks, cl, at, new, s, sentFirst, stream, pg, timer,
                 terminating, bounds>>

-----------------------------------------------------------------------------
\* A null pointer ends the process.
Next ==
  /\ pc["Srv"] # "crashed"
  /\ \/ Srv \/ Anim \/ Main \/ AcceptFails
     \/ \E c \in Conn : Accept(c) \/ Client(c) \/ HangUp(c)

\* The scheduler runs every thread that can go on, and a mutex that is free again
\* and again is given at last to a thread that waits for it: the thread that runs
\* FrameProc sleeps between two frames.  Nothing obliges a client to connect, to
\* send or to hang up, nor accept() to fail.
Fairness ==
  /\ WF_vars(Next /\ Anim) /\ WF_vars(Next /\ Main) /\ SF_vars(Next /\ Srv)
  /\ \A c \in Conn : SF_vars(Next /\ Client(c))

Spec == Init /\ [][Next]_vars
FairSpec == Spec /\ Fairness

-----------------------------------------------------------------------------
TypeOK ==
  /\ pc \in [Thread -> SrvPC \cup AnimPC \cup MainPC \cup ClientPC]
  /\ pc["Srv"] \in SrvPC /\ pc["Anim"] \in AnimPC /\ pc["Main"] \in MainPC
  /\ \A c \in Conn : pc[c] \in ClientPC
  /\ mcl \in Thread \cup {NoThread} /\ mg \in Thread \cup {NoThread}
  /\ mclDead \in BOOLEAN
  /\ cl \in Seq(Conn) /\ at \in Nat \ {0} /\ new \in Conn \cup {NoConn}
  /\ s \in [Conn -> {"valid", "INVALID"}]
  /\ sentFirst \in [Conn -> BOOLEAN]
  /\ link \in [Conn -> {"idle", "up", "gone"}]
  /\ stream \in [Conn -> Seq(Chunk)]
  /\ pg \in {"null", "set", "freed"}
  /\ timer \in {"off", "on", "killed", "pending"}
  /\ terminating \in BOOLEAN
  /\ frames \in Nat /\ lines \in Nat /\ console \in Nat

\* The client list never outgrows maxncl, the server's own client included,
\* although connections are accepted while clients leave: the size is tested
\* and the node added under one hold of mcl (Server.cpp:452-481).
SlotBound == 0 < maxncl => Len(cl) + 1 <= maxncl

\* A thread that still runs has its ServerClient in the list: cl_freenode joins
\* before a node is erased, and cl_destroy before the list is cleared and mcl
\* deleted, so no ClientThread is left with a dangling client (Server.cpp:1252).
LiveThreadsListed == \A c \in Conn : pc[c] \notin {"none", "done"} => c \in Listed

\* No client is sent a diff before its whole first update: sentFirst keeps the
\* frame thread away while ServerThread is still sending (Server.cpp:292,510).
FirstThenDiffs ==
  \A c \in Conn : \A i \in 1 .. Len(stream[c]) :
    stream[c][i] = "D" => \E j \in 1 .. i - 1 : stream[c][j] = "F2"

\* Whatever else is sent meanwhile (messages, the text of a kick), a client gets
\* the greeting, the two pieces of its first update, each once, and then diffs, in
\* this order (Server.cpp:496-510): several threads write to a socket, and for the most part
\* without its mutex.
SentBefore(x, q, i) == \E j \in 1 .. i - 1 : q[j] = x
InOrder(q) ==
  \A i \in 1 .. Len(q) :
    /\ q[i] \in {"G", "F1", "F2"} => ~SentBefore(q[i], q, i)
    /\ q[i] = "F1" => SentBefore("G", q, i)
    /\ q[i] = "F2" => SentBefore("F1", q, i)
    /\ q[i] = "D" => SentBefore("F2", q, i)
WorldInOrder == \A c \in Conn : InOrder(stream[c])

\* mcl is taken before mg and never the other way round: whoever keeps mg does
\* not wait for mcl, so the two mutexes alone can never deadlock
\* (Server.cpp:624-625 releases mg before WaitModified).
WaitsForMcl(t) == pc[t] \in {"clean", "term", "wm", "say", "login", "chat", "bye"}
LockOrder == mg # NoThread => ~WaitsForMcl(mg)

\* The game is deleted only when nobody can be inside it any more: neither a
\* frame being simulated, nor a client's thread that interprets a command or
\* erases its Player, nor the dedicated build's AnimThread (Server.cpp:517-535).
UsesGame(t) == pc[t] \in {"anim", "first2", "recv", "login", "erase", "sigwait", "frame"}
GameOutlivesUsers == pg = "freed" => \A t \in Thread : ~UsesGame(t)

\* mg is always given back: a client that was given a slot gets its first
\* update, whatever the frame thread does (unless the game was not there yet).
AdmittedServed ==
  \A c \in Conn : c \in Listed ~> (sentFirst[c] \/ pc["Srv"] = "crashed")

\* "wait for the thread to end" (Server.cpp:1257): the join of cl_clean returns.
Joining == pc["Srv"] = "cleaning" /\ at <= Len(cl) /\ s[cl[at]] = "INVALID"
JoinReturns == Joining ~> ~Joining

\* "all ::= greeting frame*" (Server.cpp:187): what is sent on a connection
\* begins with the greeting.
GreetingFirst == \A c \in Conn : stream[c] # <<>> => stream[c][1] = "G"

\* "the mutex object to the socket, to make some longer messages atomic"
\* (Server.h:168): the pieces of one frame are sent together.
FramesWhole ==
  \A c \in Conn : \A i \in 1 .. Len(stream[c]) - 1 :
    stream[c][i] = "F1" => stream[c][i + 1] = "F2"
=============================================================================
