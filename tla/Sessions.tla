-------------------------------- MODULE Sessions -------------------------------
(***************************************************************************)
(* Who is who (src/src/Server.cpp, src/src/Client.cpp).  A connection has  *)
(* an id, its place in the client list when it was added; a name, given by *)
(* LOGIN; and a Player object, which LOGIN makes and adds to Game::players.*)
(* The server finds the Player of a command by the connection's id, and    *)
(* the client finds its own by its place in the client list.               *)
(*                                                                         *)
(* What is done under mcl is one step; how the threads reach it is the     *)
(* subject of module ServerThreads.                                        *)
(***************************************************************************)
EXTENDS Integers, Sequences, FiniteSets, SequencesExt

CONSTANTS
  Client,     \* the connections ever made
  Host,       \* the server's own client, scs
  HostName,   \* Server::hostname
  LoginName,  \* the names that clients log in with
  maxncl,     \* Server::maxncl
  MaxLogins   \* bound: LOGIN lines of one client; the client program sends one

\* A name is a base and the numbers that were appended to it: bob (1) (2) is
\* <<"bob", 1, 2>>.  A client that has not logged in has the empty name.
NoName == <<>>

ASSUME SessionsAssumption ==
  /\ Host \notin Client /\ IsFiniteSet(Client)
  /\ \A n \in LoginName : Len(n) \in Nat /\ n = [i \in 1 .. Len(n) |-> n[i]]
  /\ maxncl \in Nat \ {0} /\ MaxLogins \in Nat

VARIABLES
  cl,      \* Server::cl
  id,      \* ServerClient::id
  name,    \* ServerClient::name
  meid,    \* ServerClient::meid, 0 for none
  st,      \* how far the client's thread is
  players, \* Game::players
  made,    \* the number of Players ever made; a Player's object id is its rank
  logins,  \* LOGIN lines of each client
  thisad,  \* ClientApplication::thisad of each client, NoPlace before an update
  known    \* the Player objects each client holds

vars == <<cl, id, name, meid, st, players, made, logins, thisad, known>>

NoPlace == -1

Listed == {cl[i] : i \in 1 .. Len(cl)}
Valid(c) == st[c] \in {"up", "in"}      \* is its socket valid?

Init ==
  /\ cl = <<Host>>
  /\ id = [c \in Client \cup {Host} |-> 0]
  /\ name = [c \in Client \cup {Host} |-> IF c = Host THEN HostName ELSE NoName]
  /\ meid = [c \in Client \cup {Host} |-> IF c = Host THEN 1 ELSE 0]
  /\ st = [c \in Client |-> "none"]
  /\ players = <<[oid |-> 1, playerId |-> 0, race |-> 0, owner |-> Host]>>
  /\ made = 1
  /\ logins = [c \in Client |-> 0]
  /\ thisad = [c \in Client |-> NoPlace]
  /\ known = [c \in Client |-> {}]

-----------------------------------------------------------------------------
\* The server's own client and those whose socket is valid, in their order.
Connected ==
  LET kept[n \in 0 .. Len(cl)] ==
        IF n = 0 THEN <<>>
        ELSE IF cl[n] = Host \/ Valid(cl[n]) THEN Append(kept[n - 1], cl[n])
        ELSE kept[n - 1]
  IN  kept[Len(cl)]

\* cl_clean, once the joined threads have ended.
Clean == Connected

\* ServerThread accepts a connection: the list is cleaned, and the client added
\* by addServerClient if there is a slot.  Its id is the size of the list.  The
\* one ServerThread first serves the client it has.
Connect(c) ==
  /\ st[c] = "none" /\ \A d \in Client : st[d] # "up"
  /\ \A d \in Listed \ {Host} : Valid(d) \/ st[d] = "done"
  /\ IF maxncl <= Len(Clean)
     THEN /\ st' = [st EXCEPT ![c] = "refused"]
          /\ cl' = Clean
          /\ UNCHANGED id
     ELSE /\ st' = [st EXCEPT ![c] = "up"]
          /\ cl' = Append(Clean, c)
          /\ id' = [id EXCEPT ![c] = Len(Clean)]
  /\ UNCHANGED <<name, meid, players, made, logins, thisad, known>>

\* The client list of an update names the server's own client and those whose
\* socket is valid; the client keeps the place, from 0, of the entry marked 'U'.
Sent == Connected
PlaceSent(c) == CHOOSE i \in 0 .. Len(Sent) - 1 : Sent[i + 1] = c

PlayerSet == {players[i] : i \in 1 .. Len(players)}

\* An update carries every Player in Game::players; a client never forgets one,
\* for a Player that leaves the list is not deleted.
Update(S) ==
  /\ thisad' = [c \in Client |-> IF c \in S THEN PlaceSent(c) ELSE thisad[c]]
  /\ known' = [c \in Client |->
       IF c \in S
       THEN {p \in known[c] : \A q \in PlayerSet : q.oid # p.oid} \cup PlayerSet
       ELSE known[c]]

\* SendUpdateStream(pcl, true), then the ClientThread is started.
FirstUpdate(c) ==
  /\ st[c] = "up" /\ st' = [st EXCEPT ![c] = "in"]
  /\ Update({c})
  /\ UNCHANGED <<cl, id, name, meid, players, made, logins>>

WaitModified ==
  /\ Update({c \in Client : st[c] = "in"})
  /\ UNCHANGED <<cl, id, name, meid, st, players, made, logins>>

\* Mistake: the number is appended once, and not tried again.
NumberedOnce(base, taken) == IF base \in taken THEN Append(base, 1) ELSE base

\* The loop of LOGIN: while another client of the list has the name, the next
\* number is appended to it.
UniqueName(base, taken) ==
  LET Numbered(n) == base \o [k \in 1 .. n |-> k]
  IN  Numbered(Min({n \in 0 .. Cardinality(taken) : Numbered(n) \notin taken}))

\* Mistake: the Player is counted before its id is taken.
LoginCounted(c, base) ==
  /\ st[c] = "in" /\ logins[c] < MaxLogins
  /\ logins' = [logins EXCEPT ![c] = @ + 1]
  /\ name' = [name EXCEPT ![c] = UniqueName(base, {name[d] : d \in Listed \ {c}})]
  /\ made' = made + 1
  /\ players' = Append(players, [oid |-> made + 1, playerId |-> Len(players) + 1,
                                 race |-> id[c], owner |-> c])
  /\ meid' = [meid EXCEPT ![c] = made + 1]
  /\ UNCHANGED <<cl, id, st, thisad, known>>

\* interpretCommand of a LOGIN line, under mcl.
Login(c, base) ==
  /\ st[c] = "in" /\ logins[c] < MaxLogins
  /\ logins' = [logins EXCEPT ![c] = @ + 1]
  /\ name' = [name EXCEPT ![c] = UniqueName(base, {name[d] : d \in Listed \ {c}})]
  /\ made' = made + 1
  /\ players' = Append(players, [oid |-> made + 1, playerId |-> Len(players),
                                 race |-> id[c], owner |-> c])
  /\ meid' = [meid EXCEPT ![c] = made + 1]
  /\ UNCHANGED <<cl, id, st, thisad, known>>

\* The ClientThread invalidates its socket and tells the others ...
RecvEnds(c) ==
  /\ st[c] = "in" /\ st' = [st EXCEPT ![c] = "bye"]
  /\ UNCHANGED <<cl, id, name, meid, players, made, logins, thisad, known>>

\* Mistake: the Player is looked for where commands look for it.
EraseById(c) ==
  /\ st[c] = "bye" /\ st' = [st EXCEPT ![c] = "done"]
  /\ players' = IF meid[c] # 0 /\ id[c] < Len(players)
                THEN RemoveAt(players, id[c] + 1) ELSE players
  /\ UNCHANGED <<cl, id, name, meid, made, logins, thisad, known>>

\* ... then takes the first Player with its meid off the list, and updates the
\* others once more.
ErasePlayer(c) ==
  /\ st[c] = "bye" /\ st' = [st EXCEPT ![c] = "done"]
  /\ LET mine == {i \in 1 .. Len(players) : players[i].oid = meid[c]}
     IN  players' = IF mine = {} THEN players ELSE RemoveAt(players, Min(mine))
  /\ UNCHANGED <<cl, id, name, meid, made, logins, thisad, known>>

Next ==
  \/ WaitModified
  \/ \E c \in Client :
       \/ Connect(c) \/ FirstUpdate(c) \/ RecvEnds(c) \/ ErasePlayer(c)
       \/ \E base \in LoginName : Login(c, base)

Spec == Init /\ [][Next]_vars

-----------------------------------------------------------------------------
LoggedIn(c) == logins[c] > 0

\* Two clients of the list that have logged in, or one and the server itself,
\* never have the same name, whatever names they ask for (Server.cpp:1066-1080).
NamesUnique ==
  \A c, d \in {e \in Listed : e = Host \/ LoggedIn(e)} : name[c] = name[d] => c = d

\* A client that logged in once has one Player in the list until its thread has
\* ended, and afterwards none: Players are not left behind, and no client's end
\* takes the Player of another, in whatever order they come and go
\* (Server.cpp:1084-1096,1186-1195).
PlayersOf(c) == {i \in 1 .. Len(players) : players[i].owner = c}
OnePlayerEach ==
  /\ Cardinality(PlayersOf(Host)) = 1
  /\ \A c \in Client :
       Cardinality(PlayersOf(c)) = IF st[c] \in {"in", "bye"} /\ LoggedIn(c) THEN 1 ELSE 0

\* "Assign an unique id to the newly added Player" (Server.cpp:1089).
PlayerIdsUnique ==
  \A i, j \in 1 .. Len(players) : players[i].playerId = players[j].playerId => i = j

\* "Only dispatch commands from those who have right privileges"
\* (Entity.cpp:1427): the Player by whose race a command is judged, found as
\* players[sc.id], is the Player of the client that sent it.
CommandPlayer(c) == players[id[c] + 1]
CommandsOfOwnPlayer ==
  \A c \in Client : st[c] = "in" /\ LoggedIn(c) =>
    id[c] + 1 \in 1 .. Len(players) /\ CommandPlayer(c).owner = c

\* "In the client, the Player is indicated by client list's property and
\* Player::playerId" (gltestplus.cpp:1412): an up-to-date client that has logged
\* in takes the first Player whose playerId is its place in the list, its own.
UpToDate(c) == thisad[c] = PlaceSent(c) /\ PlayerSet \subseteq known[c]
ClientFindsItsPlayer ==
  \A c \in Client : st[c] = "in" /\ LoggedIn(c) /\ UpToDate(c) =>
    LET found == {p \in known[c] : p.playerId = thisad[c]}
    IN  /\ found # {}
        /\ \A p \in found : (\A q \in found : p.oid <= q.oid) => p.owner = c

\* The three ways of naming a Player (its place in Game::players, its playerId,
\* the client's place in the list) agree as long as clients log in in the order
\* in which they came and none has left: what the code takes for granted at
\* Server.cpp:1090, Entity.cpp:1428 and gltestplus.cpp:1418.
Orderly ==
  /\ \A c \in Client : st[c] \notin {"bye", "done"}
  /\ \A c, d \in Client : st[c] = "in" /\ LoggedIn(d) /\ id[c] < id[d] =>
       LoggedIn(c) /\ meid[c] < meid[d]
IdsAgreeWhileAllStay ==
  Orderly => PlayerIdsUnique /\ CommandsOfOwnPlayer /\ ClientFindsItsPlayer
=============================================================================
