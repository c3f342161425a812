------------------------------- MODULE Replication -----------------------------
(***************************************************************************)
(* How the server's world reaches its replicas: Game::serialize and        *)
(* Server::CreateDiffStream on one side, the client loop of                *)
(* gltestplus.cpp and Game::idUnmap on the other.                          *)
(*                                                                         *)
(* The server keeps in syncbuf the bytes it last sent for each object and  *)
(* sends patches to them; a replica applies the patches to its own copy.   *)
(* A client that joins is sent a snapshot of the world instead.  "Host" is *)
(* the replica inside the server's own program, which reads sendbuf right  *)
(* after each FrameProc.                                                   *)
(*                                                                         *)
(* What holds mg is one step (module ServerThreads).  A pass of            *)
(* WaitModified is one step too: what it does for one client is what this  *)
(* module tells apart.                                                     *)
(***************************************************************************)
EXTENDS BinDiff, FiniteSets

CONSTANTS
  Obj,        \* object ids; an id is never issued twice
  Client,     \* remote clients
  Content,    \* what an object may serialize to, never empty
  Absent,     \* no entry in a SyncBuf, no object in the world
  MaxChanges, \* bound: changes of the world
  MaxDiffs    \* bound: diffs created

ASSUME ReplicationAssumption ==
  /\ "Host" \notin Client
  /\ \A b \in Content : b \in Seq(Nat) /\ b # <<>>
  /\ Absent \notin Seq(Nat)
  /\ MaxChanges \in Nat /\ MaxDiffs \in Nat

Replica == Client \cup {"Host"}

VARIABLES
  world,     \* the live objects' serialization, in the server
  born,      \* ids issued
  deleteque, \* Game::deleteque: deleted since the last serialize()
  syncbuf,   \* Server::syncbuf
  sendbuf,   \* Server::sendbuf, and the number of the diff it holds
  loop,      \* where the thread that runs FrameProc is
  st,        \* how far each client is
  chan,      \* update buffers on their way to a client, recvbuf included
  csync,     \* clientSyncBuf of each replica
  objs,      \* Game::idunmap of each replica
  killed,    \* history: ids a replica has deleted
  changes    \* counter under a bound

server == <<world, born, deleteque, syncbuf, sendbuf, loop>>
client == <<st, chan, csync, objs, killed>>
vars   == <<server, client, changes>>

NoPatches == [o \in Obj |-> <<>>]

Live == {o \in Obj : world[o] # Absent}

Init ==
  /\ world = [o \in Obj |-> Absent] /\ born = {} /\ deleteque = {}
  /\ syncbuf = [o \in Obj |-> <<>>]
  /\ sendbuf = [n |-> 0, dels |-> {}, patches |-> NoPatches]
  /\ loop = "anim"
  /\ st = [c \in Client |-> "out"]
  /\ chan = [c \in Client |-> <<>>]
  /\ csync = [r \in Replica |-> [o \in Obj |-> Absent]]
  /\ objs = [r \in Replica |-> {}]
  /\ killed = [r \in Replica |-> {}]
  /\ changes = 0

-----------------------------------------------------------------------------
(* The server's world *)

Changing ==
  /\ loop = "anim"
  /\ changes < MaxChanges /\ changes' = changes + 1
  /\ UNCHANGED <<syncbuf, sendbuf, loop, client>>

Create(o, b) ==
  /\ Changing
  /\ o \notin born /\ born' = born \cup {o}
  /\ world' = [world EXCEPT ![o] = b]
  /\ UNCHANGED deleteque

Modify(o, b) ==
  /\ Changing
  /\ o \in Live /\ b # world[o]
  /\ world' = [world EXCEPT ![o] = b]
  /\ UNCHANGED <<born, deleteque>>

\* Mistake: an id is queued while its object lives on.
DeleteLater(o) ==
  /\ Changing
  /\ o \in Live
  /\ deleteque' = deleteque \cup {o}
  /\ UNCHANGED <<world, born>>

\* ~Serializable queues the id.
Delete(o) ==
  /\ Changing
  /\ o \in Live
  /\ world' = [world EXCEPT ![o] = Absent]
  /\ deleteque' = deleteque \cup {o}
  /\ UNCHANGED born

\* Game::serialize visits the live objects: each one's patches to the bytes that
\* `base` holds for it.
Patches(base) == [o \in Obj |-> IF o \in Live THEN Diff(base[o], world[o]) ELSE <<>>]

\* Mistake: the header is written before the frame's deletions are queued.
CreateDiffStreamFirst ==
  /\ loop = "anim" /\ sendbuf.n < MaxDiffs
  /\ LET patches == Patches(syncbuf)
     IN  /\ sendbuf' = [n |-> sendbuf.n + 1, dels |-> {}, patches |-> patches]
         /\ syncbuf' = [o \in Obj |-> applyPatches(syncbuf[o], patches[o])]
  /\ deleteque' = {}
  /\ loop' = "wait"
  /\ UNCHANGED <<world, born, client, changes>>

\* FrameProc's CreateDiffStream: serialize() empties the delete queue into the
\* header, and syncbuf becomes what a replica is taken to have.
CreateDiffStream ==
  /\ loop = "anim" /\ sendbuf.n < MaxDiffs
  /\ LET patches == Patches(syncbuf)
     IN  /\ sendbuf' = [n |-> sendbuf.n + 1, dels |-> deleteque, patches |-> patches]
         /\ syncbuf' = [o \in Obj |-> applyPatches(syncbuf[o], patches[o])]
  /\ deleteque' = {}
  /\ loop' = "wait"
  /\ UNCHANGED <<world, born, client, changes>>

\* WaitModified: sendbuf to every client that has its first update.  Before the
\* first diff sendbuf is empty, and a client does not queue an empty buffer.
SendDiff ==
  chan' = [c \in Client |-> IF st[c] = "in" /\ sendbuf.n > 0
                            THEN Append(chan[c], sendbuf) ELSE chan[c]]

WaitModified ==
  /\ loop = "wait" /\ loop' = "host"
  /\ SendDiff
  /\ UNCHANGED <<world, born, deleteque, syncbuf, sendbuf, st, csync, objs, killed,
                 changes>>

-----------------------------------------------------------------------------
(* Joining and leaving *)

\* Mistake: the snapshot is made against an empty SyncBuf, but noted in the one
\* that the diffs are made against.
SnapshotNoted(c) ==
  /\ st[c] = "out" /\ st' = [st EXCEPT ![c] = "joining"]
  /\ chan' = [chan EXCEPT ![c] =
       <<[n |-> 0, dels |-> {}, patches |-> Patches([o \in Obj |-> <<>>])]>>]
  /\ syncbuf' = [o \in Obj |-> IF o \in Live THEN world[o] ELSE syncbuf[o]]
  /\ deleteque' = {}
  /\ UNCHANGED <<world, born, sendbuf, loop, csync, objs, killed, changes>>

\* SendUpdateStream(pcl, true): everything, against an empty SyncBuf of its own.
\* serialize() empties the delete queue here as well, but the header sent is a
\* zero.  Number 0 marks what is not a diff.
Snapshot(c) ==
  /\ st[c] = "out" /\ st' = [st EXCEPT ![c] = "joining"]
  /\ chan' = [chan EXCEPT ![c] =
       <<[n |-> 0, dels |-> {}, patches |-> Patches([o \in Obj |-> <<>>])]>>]
  /\ deleteque' = {}
  /\ UNCHANGED <<world, born, syncbuf, sendbuf, loop, csync, objs, killed, changes>>

\* sentFirst = true
SentFirst(c) ==
  /\ st[c] = "joining" /\ st' = [st EXCEPT ![c] = "in"]
  /\ UNCHANGED <<server, chan, csync, objs, killed, changes>>

\* The ClientThread ends: its socket is invalid ...
Leave(c) ==
  /\ st[c] = "in" /\ st' = [st EXCEPT ![c] = "leaving"]
  /\ UNCHANGED <<server, chan, csync, objs, killed, changes>>

\* ... and at last it calls WaitModified, which sends the last diff to the others.
LeaveWaitModified(c) ==
  /\ st[c] = "leaving" /\ st' = [st EXCEPT ![c] = "left"]
  /\ SendDiff
  /\ UNCHANGED <<server, csync, objs, killed, changes>>

-----------------------------------------------------------------------------
(* A replica *)

\* operator[] of a map makes an empty entry.
Bytes(b) == IF b = Absent THEN <<>> ELSE b

\* Mistake: a deleted object's entry stays in the SyncBuf.
ApplyKeepsEntry(r, f) ==
  LET patched == [o \in Obj |-> IF f.patches[o] = <<>> THEN csync[r][o]
                                ELSE applyPatches(Bytes(csync[r][o]), f.patches[o])]
      gone    == f.dels \cap objs[r]
  IN  /\ csync'  = [csync EXCEPT ![r] = patched]
      /\ objs'   = [objs EXCEPT ![r] =
                      (@ \ gone) \cup {o \in Obj \ gone : patched[o] # Absent}]
      /\ killed' = [killed EXCEPT ![r] = @ \cup gone]

\* The client loop with one buffer f: all patches are applied to clientSyncBuf;
\* then idUnmap deletes the objects of the header, with their entries, and makes
\* an object of every entry that has none.
Apply(r, f) ==
  LET patched == [o \in Obj |-> IF f.patches[o] = <<>> THEN csync[r][o]
                                ELSE applyPatches(Bytes(csync[r][o]), f.patches[o])]
      gone    == f.dels \cap objs[r]
      kept    == [o \in Obj |-> IF o \in gone THEN Absent ELSE patched[o]]
  IN  /\ csync'  = [csync EXCEPT ![r] = kept]
      /\ objs'   = [objs EXCEPT ![r] = (@ \ gone) \cup {o \in Obj : kept[o] # Absent}]
      /\ killed' = [killed EXCEPT ![r] = @ \cup gone]

Applicable(r, f) == \A o \in Obj : AllFit(Bytes(csync[r][o]), f.patches[o])

HostReads ==
  /\ loop = "host" /\ loop' = "anim"
  /\ Apply("Host", sendbuf)
  /\ UNCHANGED <<world, born, deleteque, syncbuf, sendbuf, st, chan, changes>>

\* A remote client pops a buffer.  A patch to bytes that it does not have writes
\* where it should not: from then on nothing is known of the client.
Receive(c) ==
  /\ st[c] \notin {"out", "broken"} /\ chan[c] # <<>>
  /\ chan' = [chan EXCEPT ![c] = Tail(@)]
  /\ IF Applicable(c, Head(chan[c]))
     THEN Apply(c, Head(chan[c])) /\ UNCHANGED st
     ELSE st' = [st EXCEPT ![c] = "broken"] /\ UNCHANGED <<csync, objs, killed>>
  /\ UNCHANGED <<server, changes>>

Next ==
  \/ \E o \in Obj : Delete(o) \/ \E b \in Content : Create(o, b) \/ Modify(o, b)
  \/ CreateDiffStream \/ WaitModified \/ HostReads
  \/ \E c \in Client : Snapshot(c) \/ SentFirst(c) \/ Leave(c)
                       \/ LeaveWaitModified(c) \/ Receive(c)

Spec == Init /\ [][Next]_vars

-----------------------------------------------------------------------------
TypeOK ==
  /\ world \in [Obj -> Content \cup {Absent}]
  /\ born \subseteq Obj /\ deleteque \subseteq born \ Live
  /\ \A o \in Obj : syncbuf[o] \in Content \cup {<<>>}
  /\ sendbuf.n \in 0 .. MaxDiffs /\ sendbuf.dels \subseteq born
  /\ loop \in {"anim", "wait", "host"}
  /\ st \in [Client -> {"out", "joining", "in", "leaving", "left", "broken"}]
  /\ \A r \in Replica : objs[r] \subseteq born /\ killed[r] \subseteq born
  /\ changes \in 0 .. MaxChanges

\* What a replica reads of an object's entry: the object's unserialize() takes as
\* many bytes as its serialize() wrote, and leaves what is behind them.
Reads(r, o) == csync[r][o] # Absent
               /\ SubSeq(csync[r][o], 1, Len(world[o])) = world[o]

\* Nothing unsent: the world is what the last diff made of syncbuf, and the frame
\* thread is done with it.
Settled == loop = "anim" /\ \A o \in Live : world[o] = syncbuf[o]

\* A diff makes syncbuf equal to the world for every live object, however the
\* objects grew, shrank, appeared or died since the last one (Server.cpp:642-661).
SyncFollowsWorld ==
  [][sendbuf' # sendbuf => \A o \in Live : syncbuf'[o] = world[o]]_vars

\* The replica that has read every diff since the beginning holds exactly the
\* server's bytes of each live object, although other replicas join and leave
\* (gltestplus.cpp:1311-1379).
HostFollows == Settled => \A o \in Live : csync["Host"][o] = world[o]

\* An object that a replica was told to delete never comes back to it, not even
\* through a late or repeated diff: the entry of its SyncBuf is erased with it
\* (Game.cpp:172), and ids are not reused.
DeadStayDead ==
  [][\A r \in Replica : killed[r] \cap objs'[r] = {}]_vars

\* The objects of a replica are those of its SyncBuf: neither an object nobody
\* updates any more nor an entry without object (Game.cpp:168-250).
ObjectsMatchEntries ==
  \A r \in Replica : objs[r] = {o \in Obj : csync[r][o] # Absent}

\* "representation of the client's assumed serialized buffers" (Server.cpp:636):
\* a client with nothing left to receive reads the world as it is.
ClientFollows ==
  \A c \in Client : st[c] = "in" /\ chan[c] = <<>> /\ Settled =>
    \A o \in Live : Reads(c, o)

\* A diff is made against the one before it: no client is sent a diff twice.
DiffsOnce ==
  \A c \in Client : \A i, j \in 1 .. Len(chan[c]) :
    i < j => chan[c][i].n < chan[c][j].n

\* What the server deletes goes from its own replica with the next diff, also an
\* object that was made, or that changed, in the same frame; only the snapshot
\* of a joining client can take the deletion away (Game.cpp:320-327, Server.cpp:254).
Ghosts(r) == objs[r] \ Live
GhostsOnlyByJoining ==
  (\A c \in Client : st[c] = "out") /\ Settled /\ deleteque = {} => Ghosts("Host") = {}

\* "Update delete queue to notify that particular objects should be dead,
\* destructed and freed" (Game.cpp:320): the replica in the server's own program
\* keeps no object that the server has deleted.
NoGhosts == Settled /\ deleteque = {} => Ghosts("Host") = {}
=============================================================================
