---------------------------- MODULE ReplicationProofs ---------------------------
(***************************************************************************)
(* What the replicas hold, for every set of objects, clients and contents. *)
(*                                                                         *)
(* Invariant: an id that has not been issued is unknown everywhere; a      *)
(* buffer has no patch for what it deletes, nor has a later one; what the  *)
(* server's own replica holds, with the diff it is about to read, is what  *)
(* the server believes in syncbuf.                                         *)
(*                                                                         *)
(* At the end, what one diff is made with: a DiffSectionStream is right at *)
(* every moment, for all sources, fields and header sizes.  Invariant:     *)
(* while it is open, its BinDiff is one that put() makes of the fields so  *)
(* far (Partial), and no patch has cost a header that it need not          *)
(* (Paying); once it is closed, its patches rewrite the source into the    *)
(* fields.                                                                 *)
(***************************************************************************)
EXTENDS Replication, DiffStream, BinDiffProofs

\* An update buffer: CreateDiffStream's, or a joining client's snapshot.
Buffer == [n : Nat, dels : SUBSET Obj, patches : [Obj -> Seq(Patch(Nat))]]

Entry == Seq(Nat) \cup {Absent}

Types ==
  /\ world \in [Obj -> Content \cup {Absent}]
  /\ born \subseteq Obj /\ Live \subseteq born /\ deleteque \subseteq born \ Live
  /\ syncbuf \in [Obj -> Content \cup {<<>>}]
  /\ sendbuf \in Buffer /\ sendbuf.n \in 0 .. MaxDiffs
  /\ loop \in {"anim", "wait", "host"}
  /\ st \in [Client -> {"out", "joining", "in", "leaving", "left", "broken"}]
  /\ chan \in [Client -> Seq(Buffer)]
  /\ csync \in [Replica -> [Obj -> Entry]]
  /\ objs \in [Replica -> SUBSET Obj]
  /\ killed \in [Replica -> SUBSET Obj]
  /\ changes \in 0 .. MaxChanges

\* f tells of ids that were issued, and has no patch for an object it deletes.
Sound(f) ==
  \A o \in Obj : /\ o \in f.dels => o \in born \ Live /\ f.patches[o] = <<>>
                 /\ o \notin born => f.patches[o] = <<>>

SoundBuffers == Sound(sendbuf) /\ \A c \in Client : \A i \in 1 .. Len(chan[c]) : Sound(chan[c][i])

\* Nothing is known of an id that was not issued.
Unborn ==
  /\ \A o \in Obj \ born : syncbuf[o] = <<>> /\ \A r \in Replica : csync[r][o] = Absent
  /\ \A r \in Replica : killed[r] \subseteq born

\* What a replica has deleted is dead, it has no entry, and no diff is for it any more.
Buried ==
  /\ \A r \in Replica : \A o \in killed[r] :
       o \notin Live /\ csync[r][o] = Absent /\ sendbuf.patches[o] = <<>>
  /\ \A c \in Client : \A o \in killed[c] : \A i \in 1 .. Len(chan[c]) :
       chan[c][i].patches[o] = <<>>
  /\ \A c \in Client : st[c] = "out" => killed[c] = {}

\* Nor is there one for what a buffer on its way deletes.
DoomedIn(c) ==
  \A i \in 1 .. Len(chan[c]) : \A o \in chan[c][i].dels :
    /\ sendbuf.patches[o] = <<>>
    /\ \A j \in i .. Len(chan[c]) : chan[c][j].patches[o] = <<>>
Doomed == \A c \in Client : DoomedIn(c)

\* The server's own replica has what the server believes, or is about to have it.
HostInStep ==
  \A o \in Obj :
    IF loop = "anim" THEN o \in Live => Bytes(csync["Host"][o]) = syncbuf[o]
    ELSE IF o \in Live THEN applyPatches(Bytes(csync["Host"][o]), sendbuf.patches[o]) = syncbuf[o]
    ELSE sendbuf.patches[o] = <<>>

\* As long as no client has joined, it is told of every object that it has to delete.
HostIsTold ==
  (\A c \in Client : st[c] = "out") =>
    objs["Host"] \ Live \subseteq (IF loop = "anim" THEN deleteque ELSE sendbuf.dels)

IInv == /\ Types /\ SoundBuffers /\ Unborn /\ Buried /\ Doomed
        /\ HostInStep /\ HostIsTold /\ ObjectsMatchEntries

-----------------------------------------------------------------------------
\* What is assumed of contents.
LEMMA ContentIs ==
  /\ \A b \in Content : b \in Seq(Nat) /\ b # <<>> /\ b # Absent
  /\ <<>> \in Seq(Nat) /\ <<>> # Absent /\ "Host" \in Replica
<1>1. <<>> \in Seq(Nat)
  OBVIOUS
<1>2. \A b \in Seq(Nat) : b # Absent
  BY ReplicationAssumption
<1>3. \A b \in Content : b \in Seq(Nat) /\ b # <<>>
  BY ReplicationAssumption
<1>4. "Host" \in Replica
  BY DEF Replica
<1> QED BY <1>1, <1>2, <1>3, <1>4

\* What serialize() makes: patches for live objects only, each one right for the
\* bytes it is made against (Game.cpp:274-327).
LEMMA PatchesMade ==
  ASSUME Types, NEW base \in [Obj -> Seq(Nat)]
  PROVE  /\ Patches(base) \in [Obj -> Seq(Patch(Nat))]
         /\ \A o \in Obj : IF o \in Live
                           THEN applyPatches(base[o], Patches(base)[o]) = world[o]
                           ELSE Patches(base)[o] = <<>>
<1>1. ASSUME NEW o \in Obj, o \in Live
      PROVE  /\ Diff(base[o], world[o]) \in Seq(Patch(Nat))
             /\ applyPatches(base[o], Diff(base[o], world[o])) = world[o]
  <2>1. world[o] \in Seq(Nat) /\ base[o] \in Seq(Nat)
    BY <1>1, ContentIs DEF Types, Live
  <2>2. PICK b \in Seq(Nat), w \in Seq(Nat) : b = base[o] /\ w = world[o]
    BY <2>1
  <2>3. Diff(b, w) \in Seq(Patch(Nat)) /\ Transforms(b, w, Diff(b, w))
    BY DiffTransforms
  <2> QED BY <2>2, <2>3 DEF Transforms
<1>2. ASSUME NEW o \in Obj
      PROVE  Patches(base)[o] = IF o \in Live THEN Diff(base[o], world[o]) ELSE <<>>
  BY DEF Patches
<1>3. <<>> \in Seq(Patch(Nat))
  OBVIOUS
<1>4. Patches(base) = [o \in Obj |-> Patches(base)[o]]
  BY DEF Patches
<1>5. ASSUME NEW o \in Obj PROVE Patches(base)[o] \in Seq(Patch(Nat))
  BY <1>1, <1>2, <1>3
<1> QED BY <1>1, <1>2, <1>4, <1>5

\* The initial state.
LEMMA ReplicationInit == Init => IInv
<1> SUFFICES ASSUME Init PROVE IInv
  OBVIOUS
<1>1. Live = {}
  BY DEF Init, Live
<1>2. NoPatches \in [Obj -> Seq(Patch(Nat))] /\ \A o \in Obj : NoPatches[o] = <<>>
  BY DEF NoPatches
<1>3. sendbuf \in Buffer /\ sendbuf.n = 0 /\ sendbuf.dels = {} /\ sendbuf.patches = NoPatches
  BY <1>2 DEF Init, Buffer
<1>4. \A r \in Replica : objs[r] = {} /\ killed[r] = {} /\ \A o \in Obj : csync[r][o] = Absent
  BY DEF Init
<1>5. \A c \in Client : chan[c] = <<>> /\ Len(chan[c]) = 0
  BY DEF Init
<1>6. Types
  <2>1. csync \in [Replica -> [Obj -> Entry]]
    BY DEF Init, Entry
  <2>2. chan \in [Client -> Seq(Buffer)]
    BY DEF Init
  <2>3. objs \in [Replica -> SUBSET Obj] /\ killed \in [Replica -> SUBSET Obj]
    BY DEF Init
  <2>4. sendbuf.n \in 0 .. MaxDiffs /\ changes \in 0 .. MaxChanges
    BY <1>3, ReplicationAssumption DEF Init
  <2>5. /\ world \in [Obj -> Content \cup {Absent}] /\ syncbuf \in [Obj -> Content \cup {<<>>}]
        /\ st \in [Client -> {"out", "joining", "in", "leaving", "left", "broken"}]
        /\ loop \in {"anim", "wait", "host"}
    BY DEF Init
  <2>6. born = {} /\ deleteque = {}
    BY DEF Init
  <2> QED BY <1>1, <1>3, <2>1, <2>2, <2>3, <2>4, <2>5, <2>6 DEF Types
<1>7. SoundBuffers
  BY <1>2, <1>3, <1>5 DEF SoundBuffers, Sound
<1>8. Unborn
  BY <1>4 DEF Unborn, Init
<1>9. Buried
  BY <1>4 DEF Buried, Replica
<1>10. Doomed
  BY <1>5 DEF Doomed, DoomedIn
<1>11. HostInStep
  BY <1>1 DEF HostInStep, Init
<1>12. HostIsTold
  BY <1>4, ContentIs DEF HostIsTold
<1>13. ObjectsMatchEntries
  BY <1>4 DEF ObjectsMatchEntries
<1> QED BY <1>6, <1>7, <1>8, <1>9, <1>10, <1>11, <1>12, <1>13 DEF IInv

-----------------------------------------------------------------------------
\* The server's world changes: only objects, ids and the delete queue do.
Idle == /\ loop = "anim" /\ loop' = loop /\ syncbuf' = syncbuf /\ sendbuf' = sendbuf
        /\ st' = st /\ chan' = chan /\ csync' = csync /\ objs' = objs /\ killed' = killed

\* An object is created.
LEMMA CreateStep ==
  ASSUME IInv, NEW o \in Obj, NEW b \in Content, Create(o, b) PROVE IInv'
<1>1. /\ Idle /\ changes' \in 0 .. MaxChanges /\ o \notin born /\ born' = born \cup {o}
      /\ world' = [world EXCEPT ![o] = b] /\ deleteque' = deleteque
  <2>1. changes' \in 0 .. MaxChanges
    BY ReplicationAssumption DEF Create, Changing, IInv, Types
  <2> QED BY <2>1 DEF Create, Changing, client, Idle
<1>2. Types
  BY DEF IInv
<1>3. Live' = Live \cup {o}
  BY <1>1, <1>2, ContentIs DEF Live, Types
<1>4. Types'
  <2>1. world' \in [Obj -> Content \cup {Absent}]
    BY <1>1, <1>2 DEF Types
  <2>2. born' \subseteq Obj /\ Live' \subseteq born' /\ deleteque' \subseteq born' \ Live'
    BY <1>1, <1>2, <1>3 DEF Types
  <2> QED BY <1>1, <1>2, <2>1, <2>2 DEF Types, Idle
<1>5. SoundBuffers'
  <2>1. ASSUME NEW f, Sound(f) PROVE Sound(f)'
    BY <1>1, <1>3, <2>1 DEF Sound
  <2> QED BY <1>1, <2>1 DEF IInv, SoundBuffers, Idle
<1>6. Unborn'
  BY <1>1 DEF IInv, Unborn, Idle
<1>7. Buried'
  <2>1. \A r \in Replica : o \notin killed[r]
    BY <1>1 DEF IInv, Unborn
  <2> QED BY <1>1, <1>3, <2>1 DEF IInv, Buried, Idle, Replica
<1>8. Doomed'
  BY <1>1 DEF IInv, Doomed, DoomedIn, Idle
<1>9. HostInStep'
  <2>1. syncbuf[o] = <<>> /\ Bytes(csync["Host"][o]) = <<>>
    BY <1>1, ContentIs DEF IInv, Unborn, Bytes
  <2> QED BY <1>1, <1>3, <2>1 DEF IInv, HostInStep, Idle
<1>10. HostIsTold'
  BY <1>1, <1>3 DEF IInv, HostIsTold, Idle
<1>11. ObjectsMatchEntries'
  BY <1>1 DEF IInv, ObjectsMatchEntries, Idle
<1> QED BY <1>4, <1>5, <1>6, <1>7, <1>8, <1>9, <1>10, <1>11 DEF IInv

\* An object changes.
LEMMA ModifyStep ==
  ASSUME IInv, NEW o \in Obj, NEW b \in Content, Modify(o, b) PROVE IInv'
<1>1. /\ Idle /\ changes' \in 0 .. MaxChanges /\ o \in Live /\ born' = born
      /\ world' = [world EXCEPT ![o] = b] /\ deleteque' = deleteque
  <2>1. changes' \in 0 .. MaxChanges
    BY ReplicationAssumption DEF Modify, Changing, IInv, Types
  <2> QED BY <2>1 DEF Modify, Changing, client, Idle
<1>2. Types
  BY DEF IInv
<1>3. Live' = Live
  BY <1>1, <1>2, ContentIs DEF Live, Types
<1>4. Types'
  <2>1. world' \in [Obj -> Content \cup {Absent}]
    BY <1>1, <1>2 DEF Types
  <2> QED BY <1>1, <1>2, <1>3, <2>1 DEF Types, Idle
<1>5. SoundBuffers'
  BY <1>1, <1>3 DEF IInv, SoundBuffers, Sound, Idle
<1>6. Unborn'
  BY <1>1 DEF IInv, Unborn, Idle
<1>7. Buried'
  BY <1>1, <1>3 DEF IInv, Buried, Idle
<1>8. Doomed'
  BY <1>1 DEF IInv, Doomed, DoomedIn, Idle
<1>9. HostInStep'
  BY <1>1, <1>3 DEF IInv, HostInStep, Idle
<1>10. HostIsTold'
  BY <1>1, <1>3 DEF IInv, HostIsTold, Idle
<1>11. ObjectsMatchEntries'
  BY <1>1 DEF IInv, ObjectsMatchEntries, Idle
<1> QED BY <1>4, <1>5, <1>6, <1>7, <1>8, <1>9, <1>10, <1>11 DEF IInv

\* An object dies, and its id is queued.
LEMMA DeleteStep ==
  ASSUME IInv, NEW o \in Obj, Delete(o) PROVE IInv'
<1>1. /\ Idle /\ changes' \in 0 .. MaxChanges /\ o \in Live /\ born' = born
      /\ world' = [world EXCEPT ![o] = Absent] /\ deleteque' = deleteque \cup {o}
  <2>1. changes' \in 0 .. MaxChanges
    BY ReplicationAssumption DEF Delete, Changing, IInv, Types
  <2> QED BY <2>1 DEF Delete, Changing, client, Idle
<1>2. Types
  BY DEF IInv
<1>3. Live' = Live \ {o}
  BY <1>1, <1>2 DEF Live, Types
<1>4. Types'
  <2>1. world' \in [Obj -> Content \cup {Absent}]
    BY <1>1, <1>2 DEF Types
  <2>2. born' \subseteq Obj /\ Live' \subseteq born' /\ deleteque' \subseteq born' \ Live'
    BY <1>1, <1>2, <1>3 DEF Types
  <2> QED BY <1>1, <1>2, <2>1, <2>2 DEF Types, Idle
<1>5. SoundBuffers'
  <2>1. ASSUME NEW f, Sound(f) PROVE Sound(f)'
    BY <1>1, <1>3, <2>1 DEF Sound
  <2> QED BY <1>1, <2>1 DEF IInv, SoundBuffers, Idle
<1>6. Unborn'
  BY <1>1 DEF IInv, Unborn, Idle
<1>7. Buried'
  BY <1>1, <1>3 DEF IInv, Buried, Idle
<1>8. Doomed'
  BY <1>1 DEF IInv, Doomed, DoomedIn, Idle
<1>9. HostInStep'
  BY <1>1, <1>3 DEF IInv, HostInStep, Idle
<1>10. HostIsTold'
  BY <1>1, <1>3 DEF IInv, HostIsTold, Idle
<1>11. ObjectsMatchEntries'
  BY <1>1 DEF IInv, ObjectsMatchEntries, Idle
<1> QED BY <1>4, <1>5, <1>6, <1>7, <1>8, <1>9, <1>10, <1>11 DEF IInv

-----------------------------------------------------------------------------
\* The diff of a frame is made.
LEMMA DiffIsMade ==
  ASSUME IInv, CreateDiffStream
  PROVE  /\ sendbuf' \in Buffer /\ sendbuf'.n = sendbuf.n + 1 /\ sendbuf'.dels = deleteque
         /\ syncbuf' \in [Obj -> Content \cup {<<>>}]
         /\ \A o \in Obj :
              IF o \in Live THEN /\ applyPatches(syncbuf[o], sendbuf'.patches[o]) = world[o]
                                 /\ syncbuf'[o] = world[o]
              ELSE sendbuf'.patches[o] = <<>> /\ syncbuf'[o] = syncbuf[o]
<1>1. Types
  BY DEF IInv
<1>2. PICK ps : ps = Patches(syncbuf)
  OBVIOUS
<1>3. /\ sendbuf' = [n |-> sendbuf.n + 1, dels |-> deleteque, patches |-> ps]
      /\ syncbuf' = [o \in Obj |-> applyPatches(syncbuf[o], ps[o])]
  BY <1>2 DEF CreateDiffStream
<1>4. syncbuf \in [Obj -> Seq(Nat)]
  BY <1>1, ContentIs DEF Types
<1>5. /\ ps \in [Obj -> Seq(Patch(Nat))]
      /\ \A o \in Obj : IF o \in Live THEN applyPatches(syncbuf[o], ps[o]) = world[o]
                        ELSE ps[o] = <<>>
  BY <1>1, <1>2, <1>4, PatchesMade
<1>6. sendbuf' \in Buffer
  <2>1. deleteque \in SUBSET Obj /\ sendbuf.n + 1 \in Nat
    BY <1>1, ReplicationAssumption DEF Types
  <2> QED BY <1>3, <1>5, <2>1 DEF Buffer
<1>7. ASSUME NEW o \in Obj, o \notin Live PROVE ps[o] = <<>> /\ syncbuf'[o] = syncbuf[o]
  <2>1. ps[o] = <<>>
    BY <1>5, <1>7
  <2>2. applyPatches(syncbuf[o], <<>>) = syncbuf[o]
    BY ApplyNone
  <2> QED BY <1>3, <2>1, <2>2
<1>8. ASSUME NEW o \in Obj, o \in Live
      PROVE  applyPatches(syncbuf[o], ps[o]) = world[o] /\ syncbuf'[o] = world[o]
  BY <1>3, <1>5, <1>8
<1>9. syncbuf' \in [Obj -> Content \cup {<<>>}]
  <2>1. ASSUME NEW o \in Obj PROVE syncbuf'[o] \in Content \cup {<<>>}
    BY <1>1, <1>7, <1>8 DEF Types, Live
  <2>2. syncbuf' = [o \in Obj |-> syncbuf'[o]]
    BY <1>3
  <2> QED BY <2>1, <2>2
<1> QED BY <1>3, <1>6, <1>7, <1>8, <1>9

\* The server makes a diff: it takes the place of what the server believes of every
\* live object (Server.cpp:633-691).
LEMMA CreateDiffStep ==
  ASSUME IInv, CreateDiffStream PROVE IInv'
<1>1. /\ loop = "anim" /\ loop' = "wait" /\ deleteque' = {} /\ world' = world /\ born' = born
      /\ st' = st /\ chan' = chan /\ csync' = csync /\ objs' = objs /\ killed' = killed
      /\ changes' = changes /\ sendbuf.n < MaxDiffs
  BY DEF CreateDiffStream, client
<1>2. Types
  BY DEF IInv
<1>3. /\ sendbuf' \in Buffer /\ sendbuf'.n = sendbuf.n + 1 /\ sendbuf'.dels = deleteque
      /\ syncbuf' \in [Obj -> Content \cup {<<>>}]
      /\ \A o \in Obj :
           IF o \in Live THEN /\ applyPatches(syncbuf[o], sendbuf'.patches[o]) = world[o]
                              /\ syncbuf'[o] = world[o]
           ELSE sendbuf'.patches[o] = <<>> /\ syncbuf'[o] = syncbuf[o]
  BY DiffIsMade
<1>4. Live' = Live
  BY <1>1 DEF Live
<1>5. Types'
  <2>1. sendbuf'.n \in 0 .. MaxDiffs
    BY <1>1, <1>2, <1>3, ReplicationAssumption DEF Types
  <2> QED BY <1>1, <1>2, <1>3, <1>4, <2>1 DEF Types
<1>6. SoundBuffers'
  <2>1. \A c \in Client : \A i \in 1 .. Len(chan[c]) : Sound(chan[c][i])'
    BY <1>1, <1>4 DEF IInv, SoundBuffers, Sound
  <2>2. Sound(sendbuf)'
    BY <1>1, <1>2, <1>3, <1>4 DEF Sound, Types
  <2> QED BY <1>1, <2>1, <2>2 DEF SoundBuffers
<1>7. Unborn'
  BY <1>1, <1>2, <1>3 DEF IInv, Unborn, Types
<1>8. Buried'
  <2>1. \A r \in Replica : \A o \in killed[r] : o \in Obj
    BY <1>2 DEF Types
  <2> QED BY <1>1, <1>3, <1>4, <2>1 DEF IInv, Buried
<1>9. Doomed'
  <2>1. \A c \in Client : \A i \in 1 .. Len(chan[c]) : \A o \in chan[c][i].dels :
          o \in Obj /\ o \notin Live
    <3>1. \A c \in Client : \A i \in 1 .. Len(chan[c]) : chan[c][i] \in Buffer
      BY <1>2 DEF Types
    <3>2. \A c \in Client : \A i \in 1 .. Len(chan[c]) : Sound(chan[c][i])
      BY DEF IInv, SoundBuffers
    <3> QED BY <3>1, <3>2 DEF Sound, Buffer
  <2> QED BY <1>1, <1>3, <2>1 DEF IInv, Doomed, DoomedIn
<1>10. HostInStep'
  BY <1>1, <1>3, <1>4 DEF IInv, HostInStep
<1>11. HostIsTold'
  BY <1>1, <1>3, <1>4 DEF IInv, HostIsTold
<1>12. ObjectsMatchEntries'
  BY <1>1 DEF IInv, ObjectsMatchEntries
<1> QED BY <1>5, <1>6, <1>7, <1>8, <1>9, <1>10, <1>11, <1>12 DEF IInv

\* Only the clients' buffers and how far they are change, and the delete queue may be
\* emptied.
Quiet == /\ world' = world /\ born' = born /\ syncbuf' = syncbuf /\ sendbuf' = sendbuf
         /\ csync' = csync /\ objs' = objs /\ killed' = killed /\ changes' = changes

\* What such a step leaves to prove.
LEMMA QuietStep ==
  ASSUME IInv, Quiet,
         st' \in [Client -> {"out", "joining", "in", "leaving", "left", "broken"}],
         chan' \in [Client -> Seq(Buffer)], loop' \in {"anim", "wait", "host"},
         deleteque' \subseteq deleteque,
         \A c \in Client : /\ \A i \in 1 .. Len(chan'[c]) : Sound(chan'[c][i])
                           /\ \A o \in killed[c] : \A i \in 1 .. Len(chan'[c]) :
                                chan'[c][i].patches[o] = <<>>
                           /\ st'[c] = "out" => st[c] = "out"
                           /\ DoomedIn(c)',
         loop = "anim" <=> loop' = "anim",
         deleteque' = deleteque \/ \E c \in Client : st'[c] # "out"
  PROVE  IInv'
<1>1. Live' = Live
  BY DEF Live, Quiet
<1>2. Types
  BY DEF IInv
<1>3. Types'
  BY <1>1, <1>2 DEF Types, Quiet
<1>4. SoundBuffers'
  <2>1. \A c \in Client : \A i \in 1 .. Len(chan'[c]) : Sound(chan[c][i])'
    BY <1>1 DEF Sound, Quiet
  <2>2. Sound(sendbuf)'
    BY <1>1 DEF IInv, SoundBuffers, Sound, Quiet
  <2> QED BY <2>1, <2>2 DEF SoundBuffers
<1>5. Unborn'
  BY DEF IInv, Unborn, Quiet
<1>6. Buried'
  BY <1>1 DEF IInv, Buried, Quiet
<1>7. Doomed'
  BY DEF Doomed
<1>8. HostInStep'
  BY <1>1 DEF IInv, HostInStep, Quiet
<1>9. HostIsTold'
  BY <1>1 DEF IInv, HostIsTold, Quiet
<1>10. ObjectsMatchEntries'
  BY DEF IInv, ObjectsMatchEntries, Quiet
<1> QED BY <1>3, <1>4, <1>5, <1>6, <1>7, <1>8, <1>9, <1>10 DEF IInv

\* The clients' buffers before such a step.
LEMMA ChannelsAre ==
  ASSUME IInv, NEW c \in Client
  PROVE  /\ chan[c] \in Seq(Buffer)
         /\ \A i \in 1 .. Len(chan[c]) : /\ Sound(chan[c][i])
                                         /\ \A o \in killed[c] : chan[c][i].patches[o] = <<>>
         /\ DoomedIn(c)
         /\ \A o \in killed[c] : sendbuf.patches[o] = <<>>
         /\ Sound(sendbuf) /\ sendbuf \in Buffer
BY DEF IInv, Types, SoundBuffers, Buried, Doomed, Replica

\* WaitModified queues the diff behind what a client still has to read.
LEMMA SendStep ==
  ASSUME IInv, SendDiff, Quiet, deleteque' = deleteque,
         loop' \in {"anim", "wait", "host"}, loop = "anim" <=> loop' = "anim",
         st' \in [Client -> {"out", "joining", "in", "leaving", "left", "broken"}],
         \A c \in Client : st'[c] = "out" => st[c] = "out"
  PROVE  IInv'
<1>1. ASSUME NEW c \in Client PROVE chan'[c] = chan[c] \/ chan'[c] = Append(chan[c], sendbuf)
  BY DEF SendDiff
<1>2. ASSUME NEW c \in Client
      PROVE  /\ chan'[c] \in Seq(Buffer)
             /\ \A i \in 1 .. Len(chan'[c]) : Sound(chan'[c][i])
             /\ \A o \in killed[c] : \A i \in 1 .. Len(chan'[c]) : chan'[c][i].patches[o] = <<>>
             /\ DoomedIn(c)'
  <2>1. /\ chan[c] \in Seq(Buffer)
        /\ \A i \in 1 .. Len(chan[c]) : /\ Sound(chan[c][i])
                                        /\ \A o \in killed[c] : chan[c][i].patches[o] = <<>>
        /\ DoomedIn(c)
        /\ \A o \in killed[c] : sendbuf.patches[o] = <<>>
        /\ Sound(sendbuf) /\ sendbuf \in Buffer
    BY ChannelsAre
  <2>2. CASE chan'[c] = chan[c]
    BY <2>1, <2>2 DEF DoomedIn, Quiet
  <2>3. CASE chan'[c] = Append(chan[c], sendbuf)
    <3> DEFINE q == chan'[c]
               L == Len(chan[c])
    <3>1. /\ q \in Seq(Buffer) /\ L \in Nat /\ Len(q) = L + 1 /\ q[L + 1] = sendbuf
          /\ \A i \in 1 .. L : q[i] = chan[c][i]
      BY <2>1, <2>3
    <3> HIDE DEF q
    <3>2. \A i \in 1 .. L + 1 : i = L + 1 \/ i \in 1 .. L
      BY <3>1
    <3>3. \A i \in 1 .. L + 1 : Sound(q[i]) /\ \A o \in killed[c] : q[i].patches[o] = <<>>
      BY <2>1, <3>1, <3>2
    <3>4. ASSUME NEW i \in 1 .. L + 1, NEW o \in q[i].dels
          PROVE  /\ sendbuf.patches[o] = <<>>
                 /\ \A j \in i .. L + 1 : q[j].patches[o] = <<>>
      <4>1. sendbuf.patches[o] = <<>>
        <5>1. CASE i = L + 1
          BY <2>1, <3>1, <5>1 DEF Sound, Buffer
        <5>2. CASE i \in 1 .. L
          BY <2>1, <3>1, <5>2 DEF DoomedIn
        <5> QED BY <3>2, <5>1, <5>2
      <4>2. ASSUME NEW j \in i .. L + 1 PROVE q[j].patches[o] = <<>>
        <5>1. CASE j = L + 1
          BY <3>1, <4>1, <5>1
        <5>2. CASE j # L + 1
          <6>1. i \in 1 .. L /\ j \in i .. L /\ j \in 1 .. L
            BY <3>1, <5>2
          <6> QED BY <2>1, <3>1, <6>1 DEF DoomedIn
        <5> QED BY <5>1, <5>2
      <4> QED BY <4>1, <4>2
    <3>5. DoomedIn(c)'
      BY <3>1, <3>4 DEF DoomedIn, Quiet, q
    <3> QED BY <3>1, <3>3, <3>5 DEF q
  <2> QED BY <1>1, <2>2, <2>3
<1>3. chan' \in [Client -> Seq(Buffer)]
  BY <1>2 DEF SendDiff
<1> QED BY <1>2, <1>3, QuietStep

\* The two callers of WaitModified.
LEMMA WaitStep ==
  ASSUME IInv, WaitModified \/ \E c \in Client : LeaveWaitModified(c) PROVE IInv'
<1>1. Types
  BY DEF IInv
<1>2. CASE WaitModified
  <2>1. SendDiff /\ Quiet /\ deleteque' = deleteque /\ loop = "wait" /\ loop' = "host" /\ st' = st
    BY <1>2 DEF WaitModified, Quiet
  <2> QED BY <1>1, <2>1, SendStep DEF Types
<1>3. CASE \E c \in Client : LeaveWaitModified(c)
  <2>1. PICK c \in Client : LeaveWaitModified(c)
    BY <1>3
  <2>2. SendDiff /\ Quiet /\ deleteque' = deleteque /\ loop' = loop
        /\ st[c] = "leaving" /\ st' = [st EXCEPT ![c] = "left"]
    BY <2>1 DEF LeaveWaitModified, Quiet, server
  <2>3. /\ st' \in [Client -> {"out", "joining", "in", "leaving", "left", "broken"}]
        /\ \A k \in Client : st'[k] = "out" => st[k] = "out"
    BY <1>1, <2>2 DEF Types
  <2> QED BY <1>1, <2>2, <2>3, SendStep DEF Types
<1> QED BY <1>2, <1>3

\* A client gets as far as its first diff, or its socket is gone.
LEMMA SessionStep ==
  ASSUME IInv, NEW c \in Client, SentFirst(c) \/ Leave(c) PROVE IInv'
<1>1. Types
  BY DEF IInv
<1>2. Quiet /\ deleteque' = deleteque /\ loop' = loop /\ chan' = chan
  BY DEF SentFirst, Leave, Quiet, server
<1>3. /\ st' \in [Client -> {"out", "joining", "in", "leaving", "left", "broken"}]
      /\ \A k \in Client : st'[k] = "out" => st[k] = "out"
  BY <1>1 DEF SentFirst, Leave, Types
<1>4. ASSUME NEW k \in Client
      PROVE  /\ \A i \in 1 .. Len(chan'[k]) : Sound(chan'[k][i])
             /\ \A o \in killed[k] : \A i \in 1 .. Len(chan'[k]) : chan'[k][i].patches[o] = <<>>
             /\ DoomedIn(k)'
  BY <1>2, ChannelsAre DEF DoomedIn, Quiet
<1> QED BY <1>1, <1>2, <1>3, <1>4, QuietStep DEF Types

\* A client joins, with a snapshot that has no deletions.
LEMMA SnapshotStep ==
  ASSUME IInv, NEW c \in Client, Snapshot(c) PROVE IInv'
<1>1. Types
  BY DEF IInv
<1>2. PICK base : base = [o \in Obj |-> <<>>]
  OBVIOUS
<1>3. base \in [Obj -> Seq(Nat)]
  BY <1>2, ContentIs
<1>4. PICK ps : ps = Patches(base)
  OBVIOUS
<1>5. /\ ps \in [Obj -> Seq(Patch(Nat))]
      /\ \A o \in Obj : o \notin Live => ps[o] = <<>>
  BY <1>1, <1>3, <1>4, PatchesMade
<1>6. PICK f : f = [n |-> 0, dels |-> {}, patches |-> ps]
  OBVIOUS
<1>7. f \in Buffer /\ Sound(f) /\ f.dels = {}
  BY <1>1, <1>5, <1>6 DEF Buffer, Sound, Types
<1>8. /\ Quiet /\ deleteque' = {} /\ loop' = loop
      /\ st[c] = "out" /\ st' = [st EXCEPT ![c] = "joining"]
      /\ chan' = [chan EXCEPT ![c] = <<f>>]
  BY <1>2, <1>4, <1>6 DEF Snapshot, Quiet
<1>9. <<f>> \in Seq(Buffer) /\ Len(<<f>>) = 1 /\ <<f>>[1] = f
  BY <1>7
<1>10. killed[c] = {}
  BY <1>8 DEF IInv, Buried
<1>11. /\ st' \in [Client -> {"out", "joining", "in", "leaving", "left", "broken"}]
       /\ \A k \in Client : st'[k] = "out" => st[k] = "out"
       /\ st'[c] # "out"
  BY <1>1, <1>8 DEF Types
<1>12. PICK q : q = <<f>>
  OBVIOUS
<1>13. q \in Seq(Buffer) /\ Len(q) = 1 /\ \A i \in 1 .. Len(q) : q[i] = f
  BY <1>9, <1>12
<1>14. chan' = [chan EXCEPT ![c] = q]
  BY <1>8, <1>12
<1>15. chan' \in [Client -> Seq(Buffer)]
  BY <1>1, <1>13, <1>14 DEF Types
<1>16. ASSUME NEW k \in Client
       PROVE  /\ \A i \in 1 .. Len(chan'[k]) : Sound(chan'[k][i])
              /\ \A o \in killed[k] : \A i \in 1 .. Len(chan'[k]) : chan'[k][i].patches[o] = <<>>
              /\ DoomedIn(k)'
  <2>1. CASE k = c
    <3>1. chan'[k] = q
      BY <1>1, <1>14, <2>1 DEF Types
    <3> QED BY <1>7, <1>10, <1>13, <2>1, <3>1 DEF DoomedIn
  <2>2. CASE k # c
    <3>1. chan'[k] = chan[k]
      BY <1>1, <1>14, <2>2 DEF Types
    <3>2. /\ \A i \in 1 .. Len(chan[k]) : /\ Sound(chan[k][i])
                                           /\ \A o \in killed[k] : chan[k][i].patches[o] = <<>>
          /\ DoomedIn(k)
      BY ChannelsAre
    <3>3. sendbuf' = sendbuf
      BY <1>8 DEF Quiet
    <3> QED BY <3>1, <3>2, <3>3 DEF DoomedIn
  <2> QED BY <2>1, <2>2
<1> QED BY <1>1, <1>8, <1>11, <1>15, <1>16, QuietStep DEF Types

-----------------------------------------------------------------------------
\* What a replica's entry for o becomes when it reads f.
Read(r, f, o) ==
  IF o \in f.dels /\ o \in objs[r] THEN Absent
  ELSE IF f.patches[o] = <<>> THEN csync[r][o]
  ELSE applyPatches(Bytes(csync[r][o]), f.patches[o])

\* A replica r reads f; nothing changes for the others.
Reading(r, f) ==
  /\ csync' \in [Replica -> [Obj -> Entry]]
  /\ objs' \in [Replica -> SUBSET Obj] /\ killed' \in [Replica -> SUBSET Obj]
  /\ \A s \in Replica : s # r => csync'[s] = csync[s] /\ objs'[s] = objs[s] /\ killed'[s] = killed[s]
  /\ \A o \in Obj : csync'[r][o] = Read(r, f, o)
  /\ killed'[r] = killed[r] \cup (f.dels \cap objs[r])
  /\ ObjectsMatchEntries'

\* The client loop keeps the objects of a replica and its entries together, when the
\* patches fit (gltestplus.cpp:1311-1379, Game.cpp:163-250).
LEMMA ApplyReads ==
  ASSUME Types, ObjectsMatchEntries, NEW r \in Replica, NEW f \in Buffer, Apply(r, f),
         \A o \in Obj : f.patches[o] = <<>>
                        \/ applyPatches(Bytes(csync[r][o]), f.patches[o]) \in Seq(Nat)
  PROVE  Reading(r, f)
<1> DEFINE gone == f.dels \cap objs[r]
<1>1. PICK patched : patched = [o \in Obj |-> IF f.patches[o] = <<>> THEN csync[r][o]
                                ELSE applyPatches(Bytes(csync[r][o]), f.patches[o])]
  OBVIOUS
<1>2. PICK kept : kept = [o \in Obj |-> IF o \in gone THEN Absent ELSE patched[o]]
  OBVIOUS
<1>3. /\ csync' = [csync EXCEPT ![r] = kept]
      /\ objs' = [objs EXCEPT ![r] = (objs[r] \ gone) \cup {o \in Obj : kept[o] # Absent}]
      /\ killed' = [killed EXCEPT ![r] = killed[r] \cup gone]
  BY <1>1, <1>2 DEF Apply
<1>4. /\ csync \in [Replica -> [Obj -> Entry]] /\ objs \in [Replica -> SUBSET Obj]
      /\ killed \in [Replica -> SUBSET Obj] /\ f.dels \subseteq Obj
  BY DEF Types, Buffer
<1>5. ASSUME NEW o \in Obj PROVE kept[o] = Read(r, f, o)
  BY <1>1, <1>2 DEF Read
<1>6. ASSUME NEW o \in Obj PROVE kept[o] \in Entry
  <2>1. csync[r][o] \in Entry
    BY <1>4
  <2> QED BY <1>5, <2>1 DEF Read, Entry
<1>7. ASSUME NEW o \in objs[r] \ gone PROVE kept[o] # Absent
  <2>1. o \in Obj /\ csync[r][o] # Absent
    BY <1>4 DEF ObjectsMatchEntries
  <2>2. \A b \in Seq(Nat) : b # Absent
    BY ReplicationAssumption
  <2> QED BY <1>5, <1>7, <2>1, <2>2 DEF Read
<1>8. kept \in [Obj -> Entry]
  <2>1. kept = [o \in Obj |-> kept[o]]
    BY <1>2
  <2> QED BY <1>6, <2>1
<1>9. csync' \in [Replica -> [Obj -> Entry]]
  BY <1>3, <1>4, <1>8
<1>10. objs' \in [Replica -> SUBSET Obj] /\ killed' \in [Replica -> SUBSET Obj]
  BY <1>3, <1>4
<1>11. objs'[r] = {o \in Obj : kept[o] # Absent}
  BY <1>3, <1>4, <1>7
<1>12. csync'[r] = kept /\ killed'[r] = killed[r] \cup gone
  BY <1>3, <1>4
<1>13. \A s \in Replica : s # r => csync'[s] = csync[s] /\ objs'[s] = objs[s] /\ killed'[s] = killed[s]
  BY <1>3, <1>4
<1>14. ObjectsMatchEntries'
  BY <1>11, <1>12, <1>13 DEF ObjectsMatchEntries
<1> QED BY <1>5, <1>9, <1>10, <1>12, <1>13, <1>14 DEF Reading

\* What the reader of a sound buffer still does not know, and what is buried.
LEMMA ReadingKeeps ==
  ASSUME IInv, NEW r \in Replica, NEW f \in Buffer, Sound(f), Reading(r, f),
         \A o \in killed[r] : f.patches[o] = <<>>,
         \A o \in f.dels : sendbuf.patches[o] = <<>>,
         born' = born, syncbuf' = syncbuf, world' = world, sendbuf' = sendbuf
  PROVE  /\ Unborn'
         /\ \A s \in Replica : \A o \in killed'[s] :
              o \notin Live /\ csync'[s][o] = Absent /\ sendbuf.patches[o] = <<>>
<1>1. Types /\ ObjectsMatchEntries
  BY DEF IInv
<1>2. f.dels \subseteq Obj /\ objs[r] \subseteq Obj /\ killed[r] \subseteq Obj
  BY <1>1 DEF Types, Buffer
<1>3. ASSUME NEW o \in Obj \ born PROVE csync'[r][o] = Absent
  <2>1. csync[r][o] = Absent /\ f.patches[o] = <<>>
    BY DEF IInv, Unborn, Sound
  <2> QED BY <2>1 DEF Reading, Read
<1>4. killed'[r] \subseteq born
  BY <1>2 DEF IInv, Unborn, Reading, Sound
<1>5. Unborn'
  <2>1. Unborn
    BY DEF IInv
  <2>2. \A s \in Replica : s # r => csync'[s] = csync[s] /\ killed'[s] = killed[s]
    BY DEF Reading
  <2>3. ASSUME NEW s \in Replica
        PROVE  killed'[s] \subseteq born /\ \A o \in Obj \ born : csync'[s][o] = Absent
    BY <1>3, <1>4, <2>1, <2>2 DEF Unborn
  <2> QED BY <2>1, <2>3 DEF Unborn
<1>6. ASSUME NEW o \in killed'[r]
      PROVE  o \notin Live /\ csync'[r][o] = Absent /\ sendbuf.patches[o] = <<>>
  <2>1. CASE o \in killed[r]
    <3>1. o \in Obj /\ o \notin Live /\ csync[r][o] = Absent /\ sendbuf.patches[o] = <<>>
      BY <1>2, <2>1 DEF IInv, Buried
    <3>2. csync'[r][o] = Read(r, f, o) /\ f.patches[o] = <<>>
      BY <2>1, <3>1 DEF Reading
    <3> QED BY <3>1, <3>2 DEF Read
  <2>2. CASE o \in f.dels /\ o \in objs[r]
    <3>1. o \in Obj /\ o \notin Live /\ sendbuf.patches[o] = <<>>
      BY <1>2, <2>2 DEF Sound
    <3>2. csync'[r][o] = Read(r, f, o)
      BY <3>1 DEF Reading
    <3> QED BY <2>2, <3>1, <3>2 DEF Read
  <2> QED BY <2>1, <2>2 DEF Reading
<1> QED BY <1>5, <1>6 DEF IInv, Buried, Reading

\* The server's own replica reads the diff of the frame.
LEMMA HostStep ==
  ASSUME IInv, HostReads PROVE IInv'
<1>1. /\ loop = "host" /\ loop' = "anim" /\ Apply("Host", sendbuf)
      /\ world' = world /\ born' = born /\ deleteque' = deleteque /\ syncbuf' = syncbuf
      /\ sendbuf' = sendbuf /\ st' = st /\ chan' = chan /\ changes' = changes
  BY DEF HostReads
<1>2. Types /\ ObjectsMatchEntries /\ sendbuf \in Buffer /\ Sound(sendbuf)
  BY DEF IInv, Types, SoundBuffers
<1>3. "Host" \in Replica /\ \A c \in Client : c \in Replica /\ c # "Host"
  BY ReplicationAssumption DEF Replica
<1>4. Live' = Live
  BY <1>1 DEF Live
<1>5. ASSUME NEW o \in Obj
      PROVE  IF o \in Live
             THEN applyPatches(Bytes(csync["Host"][o]), sendbuf.patches[o]) = syncbuf[o]
             ELSE sendbuf.patches[o] = <<>>
  BY <1>1 DEF IInv, HostInStep
<1>6. ASSUME NEW o \in Obj
      PROVE  \/ sendbuf.patches[o] = <<>>
             \/ applyPatches(Bytes(csync["Host"][o]), sendbuf.patches[o]) \in Seq(Nat)
  BY <1>2, <1>5, ContentIs DEF Types
<1>7. Reading("Host", sendbuf)
  BY <1>1, <1>2, <1>3, <1>6, ApplyReads
<1>8. \A o \in sendbuf.dels : sendbuf.patches[o] = <<>>
  BY <1>2 DEF Sound, Buffer
<1>9. \A o \in killed["Host"] : sendbuf.patches[o] = <<>>
  BY <1>3 DEF IInv, Buried
<1>10. /\ Unborn'
       /\ \A s \in Replica : \A o \in killed'[s] :
            o \notin Live /\ csync'[s][o] = Absent /\ sendbuf.patches[o] = <<>>
  BY <1>1, <1>2, <1>3, <1>7, <1>8, <1>9, ReadingKeeps
<1>11. \A c \in Client : killed'[c] = killed[c]
  BY <1>3, <1>7 DEF Reading
<1>12. Types'
  BY <1>1, <1>2, <1>4, <1>7 DEF Types, Reading
<1>13. SoundBuffers'
  BY <1>1, <1>4 DEF IInv, SoundBuffers, Sound
<1>14. Buried'
  BY <1>1, <1>4, <1>10, <1>11 DEF IInv, Buried
<1>15. Doomed'
  BY <1>1 DEF IInv, Doomed, DoomedIn
<1>16. HostInStep'
  <2>1. ASSUME NEW o \in Obj, o \in Live PROVE Bytes(csync'["Host"][o]) = syncbuf[o]
    <3>1. csync'["Host"][o] = Read("Host", sendbuf, o) /\ o \notin sendbuf.dels
      BY <1>2, <2>1, <1>7 DEF Reading, Sound
    <3>2. applyPatches(Bytes(csync["Host"][o]), sendbuf.patches[o]) = syncbuf[o]
      BY <1>5, <2>1
    <3>3. CASE sendbuf.patches[o] = <<>>
      <4>1. applyPatches(Bytes(csync["Host"][o]), <<>>) = Bytes(csync["Host"][o])
        BY ApplyNone
      <4>2. csync'["Host"][o] = csync["Host"][o]
        BY <3>1, <3>3 DEF Read
      <4> QED BY <3>2, <3>3, <4>1, <4>2 DEF Bytes
    <3>4. CASE sendbuf.patches[o] # <<>>
      <4>1. csync'["Host"][o] = syncbuf[o]
        BY <3>1, <3>2, <3>4 DEF Read
      <4>2. syncbuf[o] # Absent
        BY <1>2, ContentIs DEF Types
      <4> QED BY <4>1, <4>2 DEF Bytes
    <3> QED BY <3>3, <3>4
  <2> QED BY <1>1, <1>4, <2>1 DEF HostInStep, Bytes
<1>17. HostIsTold'
  <2>1. ASSUME \A c \in Client : st[c] = "out", NEW o \in objs'["Host"], o \notin Live
        PROVE  FALSE
    <3>1. o \in Obj /\ csync'["Host"][o] # Absent
      BY <1>3, <1>7, <2>1 DEF Reading, ObjectsMatchEntries
    <3>2. csync'["Host"][o] = Read("Host", sendbuf, o) /\ sendbuf.patches[o] = <<>>
      BY <1>5, <1>7, <2>1, <3>1 DEF Reading
    <3>3. csync["Host"][o] # Absent /\ ~(o \in sendbuf.dels /\ o \in objs["Host"])
      BY <3>1, <3>2 DEF Read
    <3>4. o \in objs["Host"]
      BY <1>2, <1>3, <3>1, <3>3 DEF ObjectsMatchEntries
    <3>5. o \in sendbuf.dels
      BY <1>1, <2>1, <3>4 DEF IInv, HostIsTold
    <3> QED BY <3>3, <3>4, <3>5
  <2> QED BY <1>1, <1>4, <2>1 DEF HostIsTold
<1>18. ObjectsMatchEntries'
  BY <1>7 DEF Reading
<1> QED BY <1>10, <1>12, <1>13, <1>14, <1>15, <1>16, <1>17, <1>18 DEF IInv

\* What is left in a client's buffer when it has taken the first.
LEMMA Popped ==
  ASSUME NEW q \in Seq(Buffer), q # <<>>
  PROVE  /\ Head(q) \in Buffer /\ Head(q) = q[1] /\ 1 \in 1 .. Len(q)
         /\ Tail(q) \in Seq(Buffer) /\ Len(Tail(q)) = Len(q) - 1 /\ Len(q) \in Nat
         /\ \A i \in 1 .. Len(q) - 1 : Tail(q)[i] = q[i + 1]
<1>1. Len(q) \in Nat \ {0}
  BY EmptySeq
<1>2. Head(q) = q[1] /\ Tail(q) \in Seq(Buffer) /\ Len(Tail(q)) = Len(q) - 1
      /\ \A i \in 1 .. Len(q) - 1 : Tail(q)[i] = q[i + 1]
  BY HeadTailProperties
<1>3. 1 \in 1 .. Len(q) /\ q[1] \in Buffer
  BY <1>1
<1> QED BY <1>1, <1>2, <1>3

\* A remote client takes a buffer: what fits it reads, and otherwise it is lost.
LEMMA ReceiveStep ==
  ASSUME IInv, NEW c \in Client, Receive(c) PROVE IInv'
<1> DEFINE L == Len(chan[c])
<1>1. Types /\ ObjectsMatchEntries
  BY DEF IInv
<1>2. /\ chan[c] \in Seq(Buffer)
      /\ \A i \in 1 .. L : /\ Sound(chan[c][i])
                           /\ \A o \in killed[c] : chan[c][i].patches[o] = <<>>
      /\ DoomedIn(c)
  BY ChannelsAre
<1>3. PICK f, q : f = Head(chan[c]) /\ q = Tail(chan[c])
  OBVIOUS
<1>4. /\ chan[c] # <<>> /\ chan' = [chan EXCEPT ![c] = q]
      /\ st[c] \notin {"out", "broken"}
      /\ IF Applicable(c, f) THEN Apply(c, f) /\ UNCHANGED st
         ELSE st' = [st EXCEPT ![c] = "broken"] /\ UNCHANGED <<csync, objs, killed>>
      /\ world' = world /\ born' = born /\ deleteque' = deleteque /\ syncbuf' = syncbuf
      /\ sendbuf' = sendbuf /\ loop' = loop /\ changes' = changes
  BY <1>3 DEF Receive, server
<1>5. /\ f \in Buffer /\ f = chan[c][1] /\ 1 \in 1 .. L
      /\ q \in Seq(Buffer) /\ Len(q) = L - 1 /\ L \in Nat
      /\ \A i \in 1 .. L - 1 : q[i] = chan[c][i + 1]
  BY <1>2, <1>3, <1>4, Popped
<1>6. chan' \in [Client -> Seq(Buffer)] /\ chan'[c] = q
      /\ \A k \in Client : k # c => chan'[k] = chan[k]
  BY <1>1, <1>4, <1>5 DEF Types
<1>7. /\ Sound(f) /\ \A o \in killed[c] : f.patches[o] = <<>>
      /\ \A o \in f.dels : sendbuf.patches[o] = <<>>
      /\ \A o \in f.dels : \A i \in 1 .. Len(q) : q[i].patches[o] = <<>>
  <2>1. Sound(f) /\ \A o \in killed[c] : f.patches[o] = <<>>
    BY <1>2, <1>5
  <2>2. \A o \in f.dels : /\ sendbuf.patches[o] = <<>>
                          /\ \A j \in 1 .. L : chan[c][j].patches[o] = <<>>
    BY <1>2, <1>5 DEF DoomedIn
  <2>3. ASSUME NEW o \in f.dels, NEW i \in 1 .. Len(q) PROVE q[i].patches[o] = <<>>
    <3>1. i \in 1 .. L - 1 /\ i + 1 \in 1 .. L
      BY <1>5
    <3> QED BY <1>5, <2>2, <3>1
  <2> QED BY <2>1, <2>2, <2>3
<1>8. \A i \in 1 .. Len(q) : Sound(q[i]) /\ \A o \in killed[c] : q[i].patches[o] = <<>>
  <2>1. ASSUME NEW i \in 1 .. Len(q)
        PROVE  Sound(q[i]) /\ \A o \in killed[c] : q[i].patches[o] = <<>>
    <3>1. i \in 1 .. L - 1 /\ i + 1 \in 1 .. L
      BY <1>5
    <3> QED BY <1>2, <1>5, <3>1
  <2> QED BY <2>1
<1>9. DoomedIn(c)'
  <2>1. ASSUME NEW i \in 1 .. Len(q), NEW o \in q[i].dels
        PROVE  sendbuf.patches[o] = <<>> /\ \A j \in i .. Len(q) : q[j].patches[o] = <<>>
    <3>1. i + 1 \in 1 .. L /\ q[i] = chan[c][i + 1]
      BY <1>5
    <3>2. /\ sendbuf.patches[o] = <<>>
          /\ \A j \in i + 1 .. L : chan[c][j].patches[o] = <<>>
      BY <1>2, <2>1, <3>1 DEF DoomedIn
    <3>3. ASSUME NEW j \in i .. Len(q) PROVE q[j].patches[o] = <<>>
      <4>1. j \in 1 .. L - 1 /\ j + 1 \in i + 1 .. L
        BY <1>5
      <4> QED BY <1>5, <3>2, <4>1
    <3> QED BY <3>2, <3>3
  <2> QED BY <1>4, <1>6, <2>1 DEF DoomedIn
<1>10. ASSUME NEW k \in Client, k # c PROVE DoomedIn(k)'
  BY <1>4, <1>6, <1>10 DEF IInv, Doomed, DoomedIn
<1>11. CASE Applicable(c, f)
  <2>1. Apply(c, f) /\ st' = st
    BY <1>4, <1>11
  <2>2. c \in Replica /\ "Host" \in Replica /\ c # "Host"
        /\ \A k \in Client : k \in Replica
    BY ReplicationAssumption DEF Replica
  <2>3. ASSUME NEW o \in Obj
        PROVE  applyPatches(Bytes(csync[c][o]), f.patches[o]) \in Seq(Nat)
    <3>1. Bytes(csync[c][o]) \in Seq(Nat)
      <4>1. csync[c][o] \in Entry
        BY <1>1, <2>2 DEF Types
      <4> QED BY <4>1 DEF Entry, Bytes
    <3>2. f.patches[o] \in Seq(Patch(Nat))
      BY <1>5 DEF Buffer
    <3>3. AllFit(Bytes(csync[c][o]), f.patches[o])
      BY <1>11 DEF Applicable
    <3> QED BY <3>1, <3>2, <3>3, PatchesType
  <2>4. Reading(c, f)
    BY <1>1, <1>5, <2>1, <2>2, <2>3, ApplyReads
  <2>5. /\ Unborn'
        /\ \A s \in Replica : \A o \in killed'[s] :
             o \notin Live /\ csync'[s][o] = Absent /\ sendbuf.patches[o] = <<>>
    BY <1>4, <1>5, <1>7, <2>2, <2>4, ReadingKeeps
  <2>6. Live' = Live
    BY <1>4 DEF Live
  <2>7. Types'
    BY <1>1, <1>4, <1>6, <2>1, <2>4, <2>6 DEF Types, Reading
  <2>8. SoundBuffers'
    <3>1. ASSUME NEW k \in Client, NEW i \in 1 .. Len(chan'[k]) PROVE Sound(chan'[k][i])
      <4>1. CASE k = c
        BY <1>6, <1>8, <4>1
      <4>2. CASE k # c
        BY <1>6, <4>2 DEF IInv, SoundBuffers
      <4> QED BY <4>1, <4>2
    <3>2. ASSUME NEW b, Sound(b) PROVE Sound(b)'
      BY <1>4, <2>6, <3>2 DEF Sound
    <3>3. Sound(sendbuf)
      BY DEF IInv, SoundBuffers
    <3> QED BY <1>4, <3>1, <3>2, <3>3 DEF SoundBuffers
  <2>9. Buried'
    <3>1. ASSUME NEW k \in Client, NEW o \in killed'[k], NEW i \in 1 .. Len(chan'[k])
          PROVE  chan'[k][i].patches[o] = <<>>
      <4>1. CASE k = c
        <5>1. o \in killed[c] \/ o \in f.dels
          BY <2>4, <3>1, <4>1 DEF Reading
        <5> QED BY <1>6, <1>7, <1>8, <4>1, <5>1
      <4>2. CASE k # c
        <5>1. chan'[k] = chan[k] /\ killed'[k] = killed[k]
          BY <1>6, <2>2, <2>4, <4>2 DEF Reading
        <5> QED BY <5>1 DEF IInv, Buried
      <4> QED BY <4>1, <4>2
    <3>2. ASSUME NEW k \in Client, st'[k] = "out" PROVE killed'[k] = {}
      <4>1. k # c
        BY <1>4, <2>1, <3>2
      <4> QED BY <2>1, <2>2, <2>4, <3>2, <4>1 DEF IInv, Buried, Reading
    <3> QED BY <1>4, <2>5, <2>6, <3>1, <3>2 DEF Buried
  <2>10. Doomed'
    BY <1>9, <1>10 DEF Doomed
  <2>11. csync'["Host"] = csync["Host"] /\ objs'["Host"] = objs["Host"]
    BY <2>2, <2>4 DEF Reading
  <2>12. HostInStep'
    BY <1>4, <2>6, <2>11 DEF IInv, HostInStep
  <2>13. HostIsTold'
    BY <1>4, <2>1, <2>6, <2>11 DEF IInv, HostIsTold
  <2>14. ObjectsMatchEntries'
    BY <2>4 DEF Reading
  <2> QED BY <2>5, <2>7, <2>8, <2>9, <2>10, <2>12, <2>13, <2>14 DEF IInv
<1>12. CASE ~Applicable(c, f)
  <2>1. Quiet /\ st' = [st EXCEPT ![c] = "broken"]
    BY <1>4, <1>12 DEF Quiet
  <2>2. /\ st' \in [Client -> {"out", "joining", "in", "leaving", "left", "broken"}]
        /\ \A k \in Client : st'[k] = "out" => st[k] = "out"
    BY <1>1, <2>1 DEF Types
  <2>3. ASSUME NEW k \in Client
        PROVE  /\ \A i \in 1 .. Len(chan'[k]) : Sound(chan'[k][i])
               /\ \A o \in killed[k] : \A i \in 1 .. Len(chan'[k]) : chan'[k][i].patches[o] = <<>>
    <3>1. CASE k = c
      BY <1>6, <1>8, <3>1
    <3>2. CASE k # c
      BY <1>6, <3>2, ChannelsAre
    <3> QED BY <3>1, <3>2
  <2>4. \A k \in Client : DoomedIn(k)'
    BY <1>9, <1>10
  <2> QED BY <1>1, <1>4, <1>6, <2>1, <2>2, <2>3, <2>4, QuietStep DEF Types
<1> QED BY <1>11, <1>12

-----------------------------------------------------------------------------
\* Every step keeps the invariant.
LEMMA ReplicationNext == IInv /\ [Next]_vars => IInv'
<1> SUFFICES ASSUME IInv, [Next]_vars PROVE IInv'
  OBVIOUS
<1>1. CASE \E o \in Obj : Delete(o) \/ \E b \in Content : Create(o, b) \/ Modify(o, b)
  BY <1>1, CreateStep, ModifyStep, DeleteStep
<1>2. CASE CreateDiffStream
  BY <1>2, CreateDiffStep
<1>3. CASE WaitModified \/ \E c \in Client : LeaveWaitModified(c)
  BY <1>3, WaitStep
<1>4. CASE HostReads
  BY <1>4, HostStep
<1>5. CASE \E c \in Client : Snapshot(c) \/ SentFirst(c) \/ Leave(c) \/ Receive(c)
  BY <1>5, SnapshotStep, SessionStep, ReceiveStep
<1>6. CASE UNCHANGED vars
  <2>1. Quiet /\ deleteque' = deleteque /\ loop' = loop /\ chan' = chan /\ st' = st
    BY <1>6 DEF vars, server, client, Quiet
  <2>2. ASSUME NEW k \in Client
        PROVE  /\ \A i \in 1 .. Len(chan'[k]) : Sound(chan'[k][i])
               /\ \A o \in killed[k] : \A i \in 1 .. Len(chan'[k]) : chan'[k][i].patches[o] = <<>>
               /\ DoomedIn(k)'
    BY <2>1, ChannelsAre DEF DoomedIn, Quiet
  <2> QED BY <2>1, <2>2, QuietStep DEF IInv, Types
<1> QED BY <1>1, <1>2, <1>3, <1>4, <1>5, <1>6 DEF Next

\* In every state the replicas, the buffers and the server's belief agree.
THEOREM ReplicasInStep == Spec => []IInv
<1>1. Init => IInv
  BY ReplicationInit
<1>2. IInv /\ [Next]_vars => IInv'
  BY ReplicationNext
<1> QED BY <1>1, <1>2, PTL DEF Spec

-----------------------------------------------------------------------------
\* Contents, ids and buffers are what the code can hold, and only dead objects are
\* queued for deletion (Game.cpp:274-327, Server.cpp:642-661).
THEOREM TypesHold == Spec => []TypeOK
<1>1. IInv => TypeOK
  <2> SUFFICES ASSUME IInv PROVE TypeOK
    OBVIOUS
  <2>1. Types /\ Sound(sendbuf) /\ ObjectsMatchEntries
    BY DEF IInv, SoundBuffers
  <2>2. sendbuf.dels \subseteq born
    BY <2>1 DEF Sound, Types, Buffer
  <2>3. \A r \in Replica : objs[r] \subseteq born /\ killed[r] \subseteq born
    BY DEF IInv, Unborn, ObjectsMatchEntries
  <2> QED BY <2>1, <2>2, <2>3 DEF Types, TypeOK
<1> QED BY <1>1, ReplicasInStep, PTL

\* The replica that reads every diff has exactly the server's bytes of each live
\* object, whoever joins and leaves (gltestplus.cpp:1311-1379).
THEOREM HostHasTheWorld == Spec => []HostFollows
<1>1. IInv => HostFollows
  <2> SUFFICES ASSUME IInv, Settled, NEW o \in Live PROVE csync["Host"][o] = world[o]
    BY DEF HostFollows
  <2>1. o \in Obj /\ world[o] \in Content /\ world[o] # <<>>
    BY ContentIs DEF IInv, Types, Live
  <2>2. Bytes(csync["Host"][o]) = world[o]
    BY <2>1 DEF IInv, HostInStep, Settled
  <2> QED BY <2>1, <2>2 DEF Bytes
<1> QED BY <1>1, ReplicasInStep, PTL

\* The objects of a replica are those of its entries (Game.cpp:168-250).
THEOREM EntriesHaveObjects == Spec => []ObjectsMatchEntries
<1>1. IInv => ObjectsMatchEntries
  BY DEF IInv
<1> QED BY <1>1, ReplicasInStep, PTL

\* While no client joins, the server's own replica loses what the server deletes
\* (Game.cpp:320-327).
THEOREM GhostsNeedClients == Spec => []GhostsOnlyByJoining
<1>1. IInv => GhostsOnlyByJoining
  BY DEF IInv, HostIsTold, GhostsOnlyByJoining, Settled, Ghosts
<1> QED BY <1>1, ReplicasInStep, PTL

\* A diff brings syncbuf up to the world, however objects grew, shrank, appeared or
\* died since the last one (Server.cpp:642-661).
THEOREM SyncIsWorld == Spec => SyncFollowsWorld
<1>1. IInv /\ [Next]_vars => [sendbuf' # sendbuf => \A o \in Live : syncbuf'[o] = world[o]]_vars
  <2> SUFFICES ASSUME IInv, Next, sendbuf' # sendbuf
               PROVE  \A o \in Live : syncbuf'[o] = world[o]
    OBVIOUS
  <2>1. CreateDiffStream
    BY DEF Next, Delete, Create, Modify, Changing, WaitModified, HostReads, Snapshot, SentFirst,
           Leave, LeaveWaitModified, Receive, server
  <2>2. Live \subseteq Obj
    BY DEF Live
  <2> QED BY <2>1, <2>2, DiffIsMade
<1> QED BY <1>1, ReplicasInStep, PTL DEF Spec, SyncFollowsWorld

\* A replica forgets no deletion.
LEMMA KilledGrows ==
  ASSUME IInv, Next, NEW r \in Replica PROVE killed[r] \subseteq killed'[r]
<1>1. killed \in [Replica -> SUBSET Obj]
  BY DEF IInv, Types
<1>2. CASE killed' = killed
  BY <1>2
<1>3. ASSUME NEW s \in Replica, NEW f, Apply(s, f) PROVE killed[r] \subseteq killed'[r]
  <2>1. PICK gone : killed' = [killed EXCEPT ![s] = killed[s] \cup gone]
    BY <1>3 DEF Apply
  <2> QED BY <1>1, <2>1
<1>4. CASE HostReads
  <2>1. Apply("Host", sendbuf) /\ "Host" \in Replica
    BY <1>4 DEF HostReads, Replica
  <2> QED BY <1>3, <2>1
<1>5. ASSUME NEW c \in Client, Receive(c), killed' # killed PROVE killed[r] \subseteq killed'[r]
  <2>1. Apply(c, Head(chan[c])) /\ c \in Replica
    BY <1>5 DEF Receive, Replica
  <2> QED BY <1>3, <2>1
<1> QED BY <1>2, <1>4, <1>5
    DEF Next, Delete, Create, Modify, Changing, client, CreateDiffStream, WaitModified, Snapshot,
        SentFirst, Leave, LeaveWaitModified

\* An object that a replica deleted never comes back to it, not even through a late or
\* repeated diff (Game.cpp:163-250).
THEOREM DeadAreGone == Spec => DeadStayDead
<1>1. IInv /\ IInv' /\ [Next]_vars => [\A r \in Replica : killed[r] \cap objs'[r] = {}]_vars
  <2> SUFFICES ASSUME IInv, IInv', Next, NEW r \in Replica PROVE killed[r] \cap objs'[r] = {}
    OBVIOUS
  <2>1. killed[r] \subseteq killed'[r]
    BY KilledGrows
  <2>2. \A o \in killed'[r] : csync'[r][o] = Absent
    BY DEF IInv, Buried
  <2>3. objs'[r] = {o \in Obj : csync'[r][o] # Absent}
    BY DEF IInv, ObjectsMatchEntries
  <2> QED BY <2>1, <2>2, <2>3
<1> QED BY <1>1, ReplicasInStep, PTL DEF Spec, DeadStayDead

-----------------------------------------------------------------------------
(* One DiffSectionStream *)

StreamTypes == src \in Seq(Byte) /\ fed \in Seq(Byte) /\ closed \in BOOLEAN

StreamOpen == ~closed => Partial(Byte, bd, src, fed)

StreamClosed == closed => /\ bd.patches \in Seq(Patch(Byte))
                      /\ Rewrites(Byte, bd.patches, src, fed)

StreamIInv == StreamTypes /\ StreamOpen /\ StreamClosed

\* A longer stream has room for the same patches.
LEMMA OrderedMore ==
  ASSUME NEW B, NEW qs \in Seq(Patch(B)), NEW m \in Nat, NEW n \in Nat, m <= n, Ordered(qs, m)
  PROVE  Ordered(qs, n)
<1>1. ASSUME NEW k \in 1 .. Len(qs) PROVE qs[k].start + qs[k].size \in Nat
  <2>1. qs[k] \in Patch(B)
    BY ElementOfSeq, Zenon
  <2> QED BY <2>1 DEF Patch
<1> QED BY <1>1 DEF Ordered

\* The end of two joined sequences.
LEMMA CatEnd ==
  ASSUME NEW B, NEW x \in Seq(B), NEW rest \in Seq(B), NEW s, s = Cat(x, rest)
  PROVE  SubSeq(s, Len(x) + 1, Len(s)) = rest
<1>1. Len(x) \in Nat /\ Len(rest) \in Nat /\ s \in Seq(B) /\ Len(s) = Len(x) + Len(rest)
  BY CatType
<1>2. ASSUME NEW i \in 1 .. Len(rest) PROVE s[Len(x) + i] = rest[i]
  <2>1. Len(x) + i \in 1 .. Len(x) + Len(rest) /\ ~(Len(x) + i <= Len(x))
        /\ Len(x) + i - Len(x) = i
    BY <1>1
  <2>2. \A j \in 1 .. Len(x) + Len(rest) :
          (x \o rest)[j] = IF j <= Len(x) THEN x[j] ELSE rest[j - Len(x)]
    BY ConcatProperties
  <2> QED BY <2>1, <2>2 DEF Cat
<1> DEFINE e == SubSeq(s, Len(x) + 1, Len(s))
<1>3. e \in Seq(B) /\ Len(e) = Len(rest) /\ \A i \in 1 .. Len(rest) : e[i] = s[Len(x) + i]
  BY <1>1, SubSeqProperties
<1> HIDE DEF e
<1>4. e = rest
  BY <1>2, <1>3, SeqEqual
<1> QED BY <1>4 DEF e

\* Before close(), what is not passed yet of the source stays behind what was fed.
LEMMA PartialApplied ==
  ASSUME NEW B, NEW d, NEW s \in Seq(B), NEW f \in Seq(B), Partial(B, d, s, f)
  PROVE  /\ applyPatches(s, d.patches) = f \o SubSeq(s, d.cur + 1, Len(s))
         /\ Ordered(d.patches, Len(s))
<1>1. PICK qs \in Seq(Patch(B)), x \in Seq(B), rest \in Seq(B) : Prefix(B, d, qs, x, rest, s, f)
  BY PartialPrefix
<1>2. Len(x) \in Nat /\ Len(rest) \in Nat /\ Len(f) \in Nat
  OBVIOUS
<1>3. /\ d.cur = Len(f) /\ d.patches = qs /\ s = Cat(x, rest) /\ Len(s) = Len(x) + Len(rest)
      /\ Rewrites(B, qs, x, f)
      /\ IF rest = <<>> THEN Len(x) <= Len(f) ELSE Len(x) = Len(f)
  BY <1>1 DEF Prefix
<1>4. SubSeq(s, d.cur + 1, Len(s)) = rest
  <2>1. CASE rest = <<>>
    <3>1. d.cur + 1 > Len(s) /\ Len(rest) = 0
      BY <1>2, <1>3, <2>1
    <3>2. SubSeq(s, d.cur + 1, Len(s)) = <<>>
      BY <1>2, <1>3, <3>1, SubSeqEmpty
    <3> QED BY <2>1, <3>2
  <2>2. CASE rest # <<>>
    <3>1. d.cur = Len(x)
      BY <1>3, <2>2
    <3>2. SubSeq(s, Len(x) + 1, Len(s)) = rest
      BY <1>3, CatEnd
    <3> QED BY <3>1, <3>2
  <2> QED BY <2>1, <2>2
<1>5. applyPatches(s, qs) = f \o rest
  BY <1>3 DEF Rewrites, Cat
<1>6. Ordered(qs, Len(x))
  BY <1>3 DEF Rewrites
<1>7. Ordered(qs, Len(s))
  BY <1>2, <1>3, <1>6, OrderedMore
<1> QED BY <1>3, <1>4, <1>5, <1>7

-----------------------------------------------------------------------------
\* The first states: a new BinDiff, and nothing written.
LEMMA StreamInit == InitStream => StreamIInv
<1> SUFFICES ASSUME InitStream PROVE StreamIInv
  OBVIOUS
<1>1. src \in Seq(Byte)
  <2>1. PICK n \in 0 .. MaxSource : src \in [1 .. n -> Byte]
    BY DEF InitStream
  <2>2. n \in Nat
    BY DiffStreamAssumption
  <2> QED BY <2>1, <2>2, SeqDef
<1>2. fed = <<>> /\ bd = NewBinDiff /\ closed = FALSE
  BY DEF InitStream
<1>3. Partial(Byte, bd, src, fed)
  BY <1>1, <1>2, NewPartial
<1>4. fed \in Seq(Byte)
  BY <1>2
<1> QED BY <1>1, <1>2, <1>3, <1>4 DEF StreamIInv, StreamTypes, StreamOpen, StreamClosed

\* Every field that is written, and the end.
LEMMA StreamNext == StreamIInv /\ [NextStream]_streamVars => StreamIInv'
<1> SUFFICES ASSUME StreamIInv, [NextStream]_streamVars PROVE StreamIInv'
  OBVIOUS
<1>1. src \in Seq(Byte) /\ fed \in Seq(Byte)
  BY DEF StreamIInv, StreamTypes
<1>2. ASSUME NEW field \in Field, Write(field) PROVE StreamIInv'
  <2>1. field \in Seq(Byte)
    <3>1. PICK n \in 1 .. MaxField : field \in [1 .. n -> Byte]
      BY DEF Field
    <3>2. n \in Nat
      BY DiffStreamAssumption
    <3> QED BY <3>1, <3>2, SeqDef
  <2>2. ~closed /\ bd' = Put(src, bd, field) /\ fed' = fed \o field /\ src' = src /\ closed' = closed
    BY <1>2 DEF Write
  <2>3. Partial(Byte, bd, src, fed)
    BY <2>2 DEF StreamIInv, StreamOpen
  <2>4. Partial(Byte, Put(src, bd, field), src, fed \o field)
    BY <1>1, <2>1, <2>3, PutPartial
  <2>5. fed \o field \in Seq(Byte)
    BY <1>1, <2>1, ConcatProperties
  <2>6. StreamOpen'
    BY <2>2, <2>4 DEF StreamOpen
  <2>7. StreamTypes'
    BY <1>1, <2>2, <2>5 DEF StreamIInv, StreamTypes
  <2> QED BY <2>2, <2>6, <2>7 DEF StreamIInv, StreamClosed
<1>3. CASE Join
  <2>1. ~closed /\ bd' = Close(src, bd) /\ closed' = TRUE /\ src' = src /\ fed' = fed
    BY <1>3 DEF Join
  <2>2. Partial(Byte, bd, src, fed)
    BY <2>1 DEF StreamIInv, StreamOpen
  <2>3. /\ Close(src, bd).patches \in Seq(Patch(Byte))
        /\ Rewrites(Byte, Close(src, bd).patches, src, fed)
    BY <1>1, <2>2, CloseRewrites
  <2>4. StreamClosed'
    BY <2>1, <2>3 DEF StreamClosed
  <2>5. StreamTypes'
    BY <1>1, <2>1 DEF StreamTypes
  <2> QED BY <2>1, <2>4, <2>5 DEF StreamIInv, StreamOpen
<1>4. CASE UNCHANGED streamVars
  BY <1>4 DEF streamVars, StreamIInv, StreamTypes, StreamOpen, StreamClosed
<1> QED BY <1>2, <1>3, <1>4 DEF NextStream

\* In every state the BinDiff is in step with the fields written.
THEOREM StreamInv == SpecStream => []StreamIInv
<1>1. InitStream => StreamIInv
  BY StreamInit
<1>2. StreamIInv /\ [NextStream]_streamVars => StreamIInv'
  BY StreamNext
<1> QED BY <1>1, <1>2, PTL DEF SpecStream

\* What the invariant says of the patches.
LEMMA IInvPatches == StreamIInv => PatchesRewritePrefix /\ PatchesOrdered
<1> SUFFICES ASSUME StreamIInv PROVE PatchesRewritePrefix /\ PatchesOrdered
  OBVIOUS
<1>1. src \in Seq(Byte) /\ fed \in Seq(Byte) /\ closed \in BOOLEAN
  BY DEF StreamIInv, StreamTypes
<1>2. PatchesRewritePrefix /\ Ordered(bd.patches, Len(src))
  <2>1. CASE closed
    <3>1. Rewrites(Byte, bd.patches, src, fed)
      BY <2>1 DEF StreamIInv, StreamClosed
    <3>2. Transforms(src, fed, bd.patches)
      BY <1>1, <3>1, RewritesAll
    <3>3. fed \o <<>> = fed
      BY <1>1, ConcatEmptySeq
    <3> QED BY <2>1, <3>2, <3>3 DEF Transforms, PatchesRewritePrefix
  <2>2. CASE ~closed
    <3>1. Partial(Byte, bd, src, fed)
      BY <2>2 DEF StreamIInv, StreamOpen
    <3>2. /\ applyPatches(src, bd.patches) = fed \o SubSeq(src, bd.cur + 1, Len(src))
          /\ Ordered(bd.patches, Len(src))
      BY <1>1, <3>1, PartialApplied
    <3> QED BY <2>2, <3>2 DEF PatchesRewritePrefix
  <2> QED BY <2>1, <2>2
<1>3. PatchesOrdered
  BY <1>2 DEF Ordered, PatchesOrdered
<1> QED BY <1>2, <1>3

\* At every moment the patches so far rewrite what has been passed of the source
\* into what was fed and leave the rest; after close() the rest is gone: the client
\* that applies them has what the server serialized (BinDiff.cpp:7-71).
THEOREM PatchesFollow == SpecStream => []PatchesRewritePrefix
<1>1. StreamIInv => PatchesRewritePrefix
  BY IInvPatches
<1> QED BY <1>1, StreamInv, PTL

\* The patches are disjoint, ascending and inside the source (BinDiff.cpp:55).
THEOREM PatchesInOrder == SpecStream => []PatchesOrdered
<1>1. StreamIInv => PatchesOrdered
  BY IInvPatches
<1> QED BY <1>1, StreamInv, PTL

-----------------------------------------------------------------------------
(* Merging pays *)

\* The last n bytes of patch p are what they replace.
EqualEnd(s, p, n) ==
  /\ n \in 0 .. Len(p.buf)
  /\ \A i \in 0 .. n - 1 : /\ p.size - i > 0
                           /\ p.buf[Len(p.buf) - i] = s[p.start + p.size - i]

\* At offset at, more than Gap equal bytes are behind p, those at its end among them.
FarFrom(s, p, at) == \E n \in 0 .. Len(p.buf) : EqualEnd(s, p, n) /\ at - (p.start + p.size) + n > Gap

\* A patch that begins at offset at would pay, as do all those of qs.
PairsFar(s, qs) == \A k \in 2 .. Len(qs) : qs[k].buf # <<>> => FarFrom(s, qs[k - 1], qs[k].start)
Spaced(s, qs, at) == PairsFar(s, qs) /\ (qs # <<>> => FarFrom(s, qs[Len(qs)], at))

\* Somewhere f is not s.
Differs(s, f) == \E i \in 1 .. Len(f) : Len(s) < i \/ s[i] # f[i]

\* No patch is open.
Resting(B, d, qs, s, f) ==
  /\ IsState(B, d, Len(f), NoDiff, qs, TRUE)
  /\ Spaced(s, qs, Len(f)) /\ (qs # <<>> => Differs(s, f))

\* Patch p is open, and inside the source it ends where put() stands, with as many
\* equal bytes as there are behind srcdiff.
Ends(s, p, srcdiff, at) ==
  at <= Len(s) => /\ srcdiff \in Nat /\ srcdiff < at /\ p.start + p.size = at
                  /\ EqualEnd(s, p, at - 1 - srcdiff)
Busy(B, d, qs, p, s, f) ==
  /\ IsState(B, d, Len(f), d.srcdiff, Append(qs, p), FALSE)
  /\ Spaced(s, qs, p.start) /\ Differs(s, f) /\ Ends(s, p, d.srcdiff, Len(f))

\* What put() makes of a new BinDiff has cost no header that it need not.
Paying(B, d, s, f) ==
  \E qs \in Seq(Patch(B)) : Resting(B, d, qs, s, f) \/ \E p \in Patch(B) : Busy(B, d, qs, p, s, f)

\* One more patch.
LEMMA PairsAppend ==
  ASSUME NEW B, NEW s, NEW qs \in Seq(Patch(B)), NEW p \in Patch(B), Spaced(s, qs, p.start)
  PROVE  PairsFar(s, Append(qs, p))
<1> DEFINE L == Len(qs)
           more == Append(qs, p)
<1>1. L \in Nat /\ Len(more) = L + 1 /\ more[L + 1] = p /\ \A i \in 1 .. L : more[i] = qs[i]
  OBVIOUS
<1>2. qs # <<>> <=> L # 0
  BY EmptySeq
<1> HIDE DEF more, L
<1>3. ASSUME NEW k \in 2 .. Len(more), more[k].buf # <<>>
      PROVE  FarFrom(s, more[k - 1], more[k].start)
  <2>1. CASE k = L + 1
    <3>1. k - 1 = L /\ L \in 1 .. L /\ qs # <<>>
      BY <1>1, <1>2, <2>1
    <3>2. FarFrom(s, qs[L], p.start)
      BY <3>1 DEF Spaced, L
    <3> QED BY <1>1, <2>1, <3>1, <3>2
  <2>2. CASE k # L + 1
    <3>1. k \in 2 .. L /\ k \in 1 .. L /\ k - 1 \in 1 .. L
      BY <1>1, <2>2
    <3>2. qs[k].buf # <<>>
      BY <1>1, <1>3, <3>1
    <3>3. FarFrom(s, qs[k - 1], qs[k].start)
      BY <3>1, <3>2 DEF Spaced, PairsFar, L
    <3> QED BY <1>1, <3>1, <3>3
  <2> QED BY <2>1, <2>2
<1> QED BY <1>3 DEF PairsFar, more

\* Farther on it pays the more.
LEMMA SpacedMore ==
  ASSUME NEW B, NEW s, NEW qs \in Seq(Patch(B)), NEW at \in Nat, Spaced(s, qs, at)
  PROVE  Spaced(s, qs, at + 1)
<1>1. ASSUME qs # <<>> PROVE FarFrom(s, qs[Len(qs)], at + 1)
  <2>1. Len(qs) \in 1 .. Len(qs)
    BY <1>1, EmptySeq
  <2>2. PICK p \in Patch(B) : p = qs[Len(qs)]
    BY <2>1, ElementOfSeq
  <2>3. PICK n \in 0 .. Len(p.buf) : EqualEnd(s, p, n) /\ at - (p.start + p.size) + n > Gap
    BY <1>1, <2>2 DEF Spaced, FarFrom
  <2>4. p.start \in Nat /\ p.size \in Nat /\ Len(p.buf) \in Nat /\ Gap \in Nat
    BY GapAssumption DEF Patch
  <2>5. PICK next \in Nat : next = at + 1
    OBVIOUS
  <2>6. next - (p.start + p.size) + n > Gap
    BY <2>3, <2>4, <2>5
  <2>7. EqualEnd(s, p, n)
    BY <2>3
  <2>8. FarFrom(s, p, next)
    BY <2>6, <2>7 DEF FarFrom
  <2> QED BY <2>2, <2>5, <2>8
<1> QED BY <1>1 DEF Spaced

\* One more byte of the destination.
LEMMA FedMore ==
  ASSUME NEW B, NEW s, NEW f \in Seq(B), NEW byte \in B
  PROVE  /\ Len(Append(f, byte)) = Len(f) + 1 /\ Len(f) \in Nat
         /\ Differs(s, f) => Differs(s, Append(f, byte))
         /\ Len(s) <= Len(f) /\ Len(s) \in Nat => Differs(s, Append(f, byte))
         /\ s[Len(f) + 1] # byte => Differs(s, Append(f, byte))
<1> DEFINE L == Len(f)
           h == Append(f, byte)
<1>1. L \in Nat /\ Len(h) = L + 1 /\ h[L + 1] = byte /\ \A i \in 1 .. L : h[i] = f[i]
  OBVIOUS
<1> HIDE DEF h
<1>2. ASSUME Differs(s, f) PROVE Differs(s, h)
  <2>1. PICK i \in 1 .. L : Len(s) < i \/ s[i] # f[i]
    BY <1>2 DEF Differs
  <2>2. i \in 1 .. Len(h) /\ h[i] = f[i]
    BY <1>1
  <2> QED BY <2>1, <2>2 DEF Differs
<1>3. L + 1 \in 1 .. Len(h)
  BY <1>1
<1>4. ASSUME Len(s) <= L, Len(s) \in Nat PROVE Differs(s, h)
  <2>1. Len(s) < L + 1
    BY <1>1, <1>4
  <2> QED BY <1>3, <2>1 DEF Differs
<1>5. ASSUME s[L + 1] # byte PROVE Differs(s, h)
  BY <1>1, <1>3, <1>5 DEF Differs
<1> QED BY <1>1, <1>2, <1>4, <1>5 DEF h

\* The patch that put() adds a byte to.
LEMMA OpenPatch ==
  ASSUME NEW B, NEW d, NEW cur, NEW srcdiff, NEW qs \in Seq(Patch(B)), NEW p \in Patch(B),
         \/ IsState(B, d, cur, srcdiff, Append(qs, p), FALSE)
         \/ /\ IsState(B, d, cur, srcdiff, qs, TRUE)
            /\ p = [start |-> cur, size |-> 0, buf |-> <<>>],
         NEW byte \in B, NEW k \in Nat, NEW q,
         q = [start |-> p.start, size |-> p.size + k, buf |-> Append(p.buf, byte)]
  PROVE  IsState(B, Extended(Opened(d), byte, k), cur, srcdiff, Append(qs, q), FALSE)
<1>1. IsState(B, Opened(d), cur, srcdiff, Append(qs, p), FALSE)
  <2>1. CASE IsState(B, d, cur, srcdiff, Append(qs, p), FALSE)
    <3>1. Opened(d) = d
      BY <2>1 DEF Opened, IsState
    <3> QED BY <2>1, <3>1
  <2>2. CASE IsState(B, d, cur, srcdiff, qs, TRUE) /\ p = [start |-> cur, size |-> 0, buf |-> <<>>]
    BY <2>2, OpenedIs
  <2> QED BY <2>1, <2>2
<1> QED BY <1>1, ExtendedIs

\* Patch q is p with one more byte, that replaces k.
Longer(p, q, byte, k) ==
  /\ q = [start |-> p.start, size |-> p.size + k, buf |-> Append(p.buf, byte)]
  /\ q.start = p.start /\ q.size = p.size + k
  /\ Len(q.buf) = Len(p.buf) + 1 /\ q.buf[Len(p.buf) + 1] = byte
  /\ \A i \in 1 .. Len(p.buf) : q.buf[i] = p.buf[i]

\* There is one.
LEMMA MorePatch ==
  ASSUME NEW B, NEW p \in Patch(B), NEW byte \in B, NEW k \in Nat
  PROVE  \E q \in Patch(B) : Longer(p, q, byte, k)
<1>1. PICK u \in Seq(B) : u = p.buf
  BY DEF Patch
<1>2. Append(u, byte) \in Seq(B) /\ Len(Append(u, byte)) = Len(u) + 1
      /\ Append(u, byte)[Len(u) + 1] = byte /\ \A i \in 1 .. Len(u) : Append(u, byte)[i] = u[i]
  OBVIOUS
<1>3. PICK w \in Seq(B) : /\ w = Append(u, byte) /\ Len(w) = Len(u) + 1 /\ w[Len(u) + 1] = byte
                          /\ \A i \in 1 .. Len(u) : w[i] = u[i]
  BY <1>2
<1>4. p.start \in Nat /\ p.size + k \in Nat
  BY DEF Patch
<1>5. PICK q : q = [start |-> p.start, size |-> p.size + k, buf |-> w]
  OBVIOUS
<1>6. q \in Patch(B) /\ q.start = p.start /\ q.size = p.size + k /\ q.buf = w
  BY <1>4, <1>5 DEF Patch
<1>7. Longer(p, q, byte, k)
  BY <1>1, <1>3, <1>5, <1>6 DEF Longer
<1> QED BY <1>6, <1>7

\* Past the end of the source a byte joins the open patch, or a new one.
LEMMA PayPast ==
  ASSUME NEW B, NEW s \in Seq(B), NEW f \in Seq(B), NEW byte \in B, NEW d, NEW srcdiff,
         NEW qs \in Seq(Patch(B)), NEW p \in Patch(B), Spaced(s, qs, p.start),
         \/ IsState(B, d, Len(f), srcdiff, Append(qs, p), FALSE)
         \/ /\ IsState(B, d, Len(f), srcdiff, qs, TRUE)
            /\ p = [start |-> Len(f), size |-> 0, buf |-> <<>>],
         Len(s) <= Len(f)
  PROVE  Paying(B, PutByte(s, d, byte), s, Append(f, byte))
<1>1. Len(f) \in Nat /\ Len(s) \in Nat /\ d.cur = Len(f)
  BY DEF IsState
<1>2. PICK q \in Patch(B) : Longer(p, q, byte, 0)
  BY MorePatch
<1>3. IsState(B, Extended(Opened(d), byte, 0), Len(f), srcdiff, Append(qs, q), FALSE)
  BY <1>2, OpenPatch DEF Longer
<1>4. PICK e : e = PutByte(s, d, byte)
  OBVIOUS
<1>5. IsState(B, e, Len(f) + 1, srcdiff, Append(qs, q), FALSE)
  BY <1>1, <1>3, <1>4, BytePast
<1>6. e.srcdiff = srcdiff
  BY <1>5 DEF IsState
<1>7. PICK h : h = Append(f, byte)
  OBVIOUS
<1>8. Len(h) = Len(f) + 1 /\ Differs(s, h)
  BY <1>1, <1>7, FedMore
<1>9. Ends(s, q, e.srcdiff, Len(h))
  BY <1>1, <1>8 DEF Ends
<1>10. Busy(B, e, qs, q, s, h)
  <2>1. Spaced(s, qs, q.start)
    BY <1>2 DEF Longer
  <2> QED BY <1>5, <1>6, <1>8, <1>9, <2>1 DEF Busy
<1> QED BY <1>4, <1>7, <1>10 DEF Paying

\* A byte that differs: likewise, and the equal bytes are counted anew.
LEMMA PayDiffers ==
  ASSUME NEW B, NEW s \in Seq(B), NEW f \in Seq(B), NEW byte \in B, NEW d, NEW srcdiff,
         NEW qs \in Seq(Patch(B)), NEW p \in Patch(B), Spaced(s, qs, p.start),
         \/ IsState(B, d, Len(f), srcdiff, Append(qs, p), FALSE)
         \/ /\ IsState(B, d, Len(f), srcdiff, qs, TRUE)
            /\ p = [start |-> Len(f), size |-> 0, buf |-> <<>>],
         p.start + p.size = Len(f), Len(f) < Len(s), s[Len(f) + 1] # byte
  PROVE  Paying(B, PutByte(s, d, byte), s, Append(f, byte))
<1>1. Len(f) \in Nat /\ Len(s) \in Nat /\ d.cur = Len(f)
  BY DEF IsState
<1>2. PICK q \in Patch(B) : Longer(p, q, byte, 1)
  BY MorePatch
<1>3. PICK c : c = [d EXCEPT !.srcdiff = d.cur]
  OBVIOUS
<1>4. \/ IsState(B, c, Len(f), Len(f), Append(qs, p), FALSE)
      \/ /\ IsState(B, c, Len(f), Len(f), qs, TRUE)
         /\ p = [start |-> Len(f), size |-> 0, buf |-> <<>>]
  BY <1>1, <1>3, Noted
<1>5. IsState(B, Extended(Opened(c), byte, 1), Len(f), Len(f), Append(qs, q), FALSE)
  BY <1>2, <1>4, OpenPatch DEF Longer
<1>6. PICK e : e = PutByte(s, d, byte)
  OBVIOUS
<1>7. IsState(B, e, Len(f) + 1, Len(f), Append(qs, q), FALSE)
  BY <1>1, <1>3, <1>5, <1>6, ByteDiffers
<1>8. e.srcdiff = Len(f)
  BY <1>7 DEF IsState
<1>9. PICK h : h = Append(f, byte)
  OBVIOUS
<1>10. Len(h) = Len(f) + 1 /\ Differs(s, h)
  BY <1>9, FedMore
<1>11. EqualEnd(s, q, 0)
  <2>1. Len(q.buf) \in Nat
    BY DEF Patch
  <2> QED BY <2>1 DEF EqualEnd
<1>12. q.start + q.size = Len(h) /\ Len(h) - 1 - Len(f) = 0 /\ Len(f) < Len(h)
  <2>1. q.start = p.start /\ q.size = p.size + 1
    BY <1>2 DEF Longer
  <2>2. p.start \in Nat /\ p.size \in Nat
    BY DEF Patch
  <2> QED BY <1>1, <1>10, <2>1, <2>2
<1>13. Ends(s, q, e.srcdiff, Len(h))
  BY <1>1, <1>8, <1>11, <1>12 DEF Ends
<1>14. Busy(B, e, qs, q, s, h)
  <2>1. Spaced(s, qs, q.start)
    BY <1>2 DEF Longer
  <2> QED BY <1>7, <1>8, <1>10, <1>13, <2>1 DEF Busy
<1> QED BY <1>6, <1>9, <1>14 DEF Paying

\* A byte that is equal as well.
LEMMA EqualMore ==
  ASSUME NEW B, NEW s, NEW p \in Patch(B), NEW q, NEW byte, Longer(p, q, byte, 1),
         NEW n, EqualEnd(s, p, n), s[p.start + p.size + 1] = byte
  PROVE  EqualEnd(s, q, n + 1) /\ q.start + q.size = p.start + p.size + 1
<1>1. p.start \in Nat /\ p.size \in Nat /\ Len(p.buf) \in Nat
  BY DEF Patch
<1>2. q.start = p.start /\ q.size = p.size + 1 /\ Len(q.buf) = Len(p.buf) + 1
  BY DEF Longer
<1>3. q.buf[Len(p.buf) + 1] = byte /\ \A i \in 1 .. Len(p.buf) : q.buf[i] = p.buf[i]
  BY DEF Longer
<1>4. n \in 0 .. Len(p.buf)
      /\ \A i \in 0 .. n - 1 : /\ p.size - i > 0
                               /\ p.buf[Len(p.buf) - i] = s[p.start + p.size - i]
  BY DEF EqualEnd
<1>5. n + 1 \in 0 .. Len(q.buf) /\ q.start + q.size = p.start + p.size + 1
  <2>1. n \in 0 .. Len(p.buf)
    BY <1>4
  <2>2. n + 1 \in 0 .. Len(p.buf) + 1
    BY <1>1, <2>1
  <2>3. p.start + (p.size + 1) = p.start + p.size + 1
    BY <1>1
  <2> QED BY <1>2, <2>2, <2>3
<1>6. ASSUME NEW i \in 0 .. n + 1 - 1
      PROVE  q.size - i > 0 /\ q.buf[Len(q.buf) - i] = s[q.start + q.size - i]
  <2>1. CASE i = 0
    <3>1. q.size - i > 0 /\ Len(q.buf) - i = Len(p.buf) + 1
          /\ q.start + q.size - i = p.start + p.size + 1
      BY <1>1, <1>2, <2>1
    <3> QED BY <1>3, <3>1
  <2>2. CASE i # 0
    <3>1. PICK j \in 0 .. n - 1 : j = i - 1
      BY <1>1, <1>4, <2>2
    <3>2. p.size - j > 0 /\ p.buf[Len(p.buf) - j] = s[p.start + p.size - j]
      BY <1>4, <3>1
    <3>3. /\ q.size - i = p.size - j /\ Len(q.buf) - i = Len(p.buf) - j
          /\ q.start + q.size - i = p.start + p.size - j /\ Len(p.buf) - j \in 1 .. Len(p.buf)
      BY <1>1, <1>2, <1>4, <3>1
    <3>4. q.buf[Len(p.buf) - j] = p.buf[Len(p.buf) - j]
      BY <1>3, <3>3
    <3> QED BY <3>2, <3>3, <3>4
  <2> QED BY <2>1, <2>2
<1> QED BY <1>5, <1>6 DEF EqualEnd

\* An equal byte near the last that differed joins the open patch.
LEMMA PayNear ==
  ASSUME NEW B, NEW s \in Seq(B), NEW f \in Seq(B), NEW byte \in B, NEW d,
         NEW qs \in Seq(Patch(B)), NEW p \in Patch(B), Busy(B, d, qs, p, s, f),
         Len(f) < Len(s), s[Len(f) + 1] = byte, Len(f) - d.srcdiff <= Gap
  PROVE  Paying(B, PutByte(s, d, byte), s, Append(f, byte))
<1>1. Len(f) \in Nat /\ Len(s) \in Nat /\ d.cur = Len(f)
      /\ IsState(B, d, Len(f), d.srcdiff, Append(qs, p), FALSE)
  <2>1. IsState(B, d, Len(f), d.srcdiff, Append(qs, p), FALSE)
    BY DEF Busy
  <2> QED BY <2>1 DEF IsState
<1>2. /\ d.srcdiff \in Nat /\ d.srcdiff < Len(f) /\ p.start + p.size = Len(f)
      /\ EqualEnd(s, p, Len(f) - 1 - d.srcdiff)
  BY <1>1 DEF Busy, Ends
<1>3. PICK q \in Patch(B) : Longer(p, q, byte, 1)
  BY MorePatch
<1>4. IsState(B, Extended(Opened(d), byte, 1), Len(f), d.srcdiff, Append(qs, q), FALSE)
  BY <1>1, <1>3, OpenPatch DEF Longer
<1>5. PICK e : e = PutByte(s, d, byte)
  OBVIOUS
<1>6. IsState(B, e, Len(f) + 1, d.srcdiff, Append(qs, q), FALSE)
  <2>1. d.srcdiff # NoDiff /\ d.srcdiff \in Int /\ d.cur - d.srcdiff <= Gap
    BY <1>1, <1>2 DEF NoDiff
  <2> QED BY <1>1, <1>4, <1>5, <2>1, ByteNear
<1>7. e.srcdiff = d.srcdiff
  BY <1>6 DEF IsState
<1>8. PICK h : h = Append(f, byte)
  OBVIOUS
<1>9. Len(h) = Len(f) + 1 /\ Differs(s, h)
  BY <1>8, FedMore DEF Busy
<1>10. EqualEnd(s, q, Len(f) - 1 - d.srcdiff + 1) /\ q.start + q.size = Len(f) + 1
  <2>1. s[p.start + p.size + 1] = byte
    BY <1>2
  <2>2. EqualEnd(s, p, Len(f) - 1 - d.srcdiff)
    BY <1>2
  <2> QED BY <1>2, <1>3, <2>1, <2>2, EqualMore
<1>11. PICK l \in Nat : l = Len(f)
  OBVIOUS
<1>12. PICK x \in Nat : x = d.srcdiff
  BY <1>2
<1>13. l < l + 1 /\ x < l + 1 /\ l - 1 - x + 1 = l + 1 - 1 - x
  BY <1>2, <1>11, <1>12
<1>16. q.start = p.start
  BY <1>3 DEF Longer
<1>14. Ends(s, q, e.srcdiff, Len(h))
  <2>1. Len(h) = l + 1 /\ e.srcdiff = x /\ q.start + q.size = l + 1
    BY <1>7, <1>9, <1>10, <1>11, <1>12
  <2>2. EqualEnd(s, q, l + 1 - 1 - x)
    BY <1>10, <1>11, <1>12, <1>13
  <2>3. Ends(s, q, x, l + 1)
    BY <1>13, <2>1, <2>2 DEF Ends
  <2> QED BY <2>1, <2>3
<1>15. Busy(B, e, qs, q, s, h)
  <2>1. Spaced(s, qs, q.start)
    BY <1>16 DEF Busy
  <2> QED BY <1>6, <1>7, <1>9, <1>14, <2>1 DEF Busy
<1> QED BY <1>5, <1>8, <1>15 DEF Paying

\* One too far behind it ends the patch, and the next will pay.
LEMMA PayFar ==
  ASSUME NEW B, NEW s \in Seq(B), NEW f \in Seq(B), NEW byte \in B, NEW d,
         NEW qs \in Seq(Patch(B)), NEW p \in Patch(B), Busy(B, d, qs, p, s, f),
         Len(f) < Len(s), s[Len(f) + 1] = byte, Gap < Len(f) - d.srcdiff
  PROVE  Paying(B, PutByte(s, d, byte), s, Append(f, byte))
<1>1. Len(f) \in Nat /\ Len(s) \in Nat
  OBVIOUS
<1>11. IsState(B, d, Len(f), d.srcdiff, Append(qs, p), FALSE)
  BY DEF Busy
<1>2. /\ d.srcdiff \in Nat /\ d.srcdiff < Len(f) /\ p.start + p.size = Len(f)
      /\ EqualEnd(s, p, Len(f) - 1 - d.srcdiff)
  BY <1>1 DEF Busy, Ends
<1>3. PICK rs \in Seq(Patch(B)) : rs = Append(qs, p) /\ rs # <<>> /\ rs[Len(rs)] = p
  <2>1. Append(qs, p) \in Seq(Patch(B)) /\ Append(qs, p) # <<>>
        /\ Append(qs, p)[Len(Append(qs, p))] = p
    OBVIOUS
  <2> QED BY <2>1
<1>4. PICK e : e = PutByte(s, d, byte)
  OBVIOUS
<1>5. IsState(B, e, Len(f) + 1, NoDiff, rs, TRUE)
  <2>1. d.srcdiff # NoDiff /\ d.srcdiff \in Int
    BY <1>2 DEF NoDiff
  <2>2. IsState(B, d, Len(f), d.srcdiff, rs, FALSE)
    BY <1>3, <1>11
  <2> QED BY <1>1, <1>4, <2>1, <2>2, ByteFar
<1>6. PICK h : h = Append(f, byte)
  OBVIOUS
<1>7. Len(h) = Len(f) + 1 /\ Differs(s, h)
  BY <1>6, FedMore DEF Busy
<1>8. FarFrom(s, p, Len(h))
  <2>1. PICK n : n = Len(f) - 1 - d.srcdiff
    OBVIOUS
  <2>2. EqualEnd(s, p, n) /\ n \in 0 .. Len(p.buf)
    BY <1>2, <2>1 DEF EqualEnd
  <2>3. Len(h) - (p.start + p.size) + n > Gap
    BY <1>1, <1>2, <1>7, <2>1, GapAssumption
  <2> QED BY <2>2, <2>3 DEF FarFrom
<1>9. PairsFar(s, rs)
  BY <1>3, PairsAppend DEF Busy
<1>10. Resting(B, e, rs, s, h)
  BY <1>3, <1>5, <1>7, <1>8, <1>9 DEF Resting, Spaced
<1> QED BY <1>4, <1>6, <1>10 DEF Paying

\* Every byte is spent well.
LEMMA PutBytePays ==
  ASSUME NEW B, NEW s \in Seq(B), NEW f \in Seq(B), NEW byte \in B, NEW d, Paying(B, d, s, f)
  PROVE  Paying(B, PutByte(s, d, byte), s, Append(f, byte))
<1>1. Len(f) \in Nat /\ Len(s) \in Nat
  OBVIOUS
<1>2. ASSUME NEW qs \in Seq(Patch(B)), Resting(B, d, qs, s, f)
      PROVE  Paying(B, PutByte(s, d, byte), s, Append(f, byte))
  <2>1. IsState(B, d, Len(f), NoDiff, qs, TRUE) /\ Spaced(s, qs, Len(f))
    BY <1>2 DEF Resting
  <2>2. PICK p : p = [start |-> Len(f), size |-> 0, buf |-> <<>>]
    OBVIOUS
  <2>3. p \in Patch(B) /\ p.start = Len(f) /\ p.start + p.size = Len(f)
    <3>1. <<>> \in Seq(B)
      OBVIOUS
    <3> QED BY <1>1, <2>2, <3>1 DEF Patch
  <2>4. CASE Len(s) <= Len(f)
    BY <2>1, <2>2, <2>3, <2>4, PayPast
  <2>5. CASE Len(f) < Len(s) /\ s[Len(f) + 1] # byte
    BY <2>1, <2>2, <2>3, <2>5, PayDiffers
  <2>6. CASE Len(f) < Len(s) /\ s[Len(f) + 1] = byte
    <3>1. PICK e : e = PutByte(s, d, byte)
      OBVIOUS
    <3>2. IsState(B, e, Len(f) + 1, NoDiff, qs, TRUE)
      BY <1>1, <2>1, <2>6, <3>1, ByteEqual
    <3>3. PICK h : h = Append(f, byte)
      OBVIOUS
    <3>4. Len(h) = Len(f) + 1 /\ (qs # <<>> => Differs(s, h))
      BY <1>2, <3>3, FedMore DEF Resting
    <3>5. Spaced(s, qs, Len(f) + 1)
      BY <1>1, <2>1, SpacedMore
    <3>6. Resting(B, e, qs, s, h)
      BY <3>2, <3>4, <3>5 DEF Resting
    <3> QED BY <3>1, <3>3, <3>6 DEF Paying
  <2> QED BY <1>1, <2>4, <2>5, <2>6
<1>3. ASSUME NEW qs \in Seq(Patch(B)), NEW p \in Patch(B), Busy(B, d, qs, p, s, f)
      PROVE  Paying(B, PutByte(s, d, byte), s, Append(f, byte))
  <2>1. IsState(B, d, Len(f), d.srcdiff, Append(qs, p), FALSE) /\ Spaced(s, qs, p.start)
    BY <1>3 DEF Busy
  <2>2. CASE Len(s) <= Len(f)
    BY <2>1, <2>2, PayPast
  <2>3. CASE Len(f) < Len(s)
    <3>1. p.start + p.size = Len(f) /\ d.srcdiff \in Nat
      BY <1>1, <1>3, <2>3 DEF Busy, Ends
    <3>2. CASE s[Len(f) + 1] # byte
      BY <2>1, <2>3, <3>1, <3>2, PayDiffers
    <3>3. CASE s[Len(f) + 1] = byte /\ Len(f) - d.srcdiff <= Gap
      BY <1>3, <2>3, <3>3, PayNear
    <3>4. CASE s[Len(f) + 1] = byte /\ Gap < Len(f) - d.srcdiff
      BY <1>3, <2>3, <3>4, PayFar
    <3> QED BY <1>1, <3>1, <3>2, <3>3, <3>4, GapAssumption
  <2> QED BY <1>1, <2>2, <2>3
<1> QED BY <1>2, <1>3 DEF Paying

\* So is a field.
LEMMA PutPays ==
  ASSUME NEW B, NEW d, NEW s \in Seq(B), NEW f \in Seq(B), Paying(B, d, s, f),
         NEW field \in Seq(B)
  PROVE  Paying(B, Put(s, d, field), s, f \o field)
<1> DEFINE X == {q \in Seq(B) : Paying(B, Put(s, d, q), s, f \o q)}
<1>1. <<>> \in X
  <2>1. Put(s, d, <<>>) = d
    BY PutNothing
  <2>2. f \o <<>> = f
    BY ConcatEmptySeq
  <2>3. <<>> \in Seq(B)
    OBVIOUS
  <2> QED BY <2>1, <2>2, <2>3
<1>2. ASSUME NEW q \in Seq(B), NEW e \in B, q \in X PROVE Append(q, e) \in X
  <2>1. PICK h \in Seq(B) : h = f \o q
    <3>1. f \o q \in Seq(B)
      BY ConcatProperties
    <3> QED BY <3>1
  <2>2. Paying(B, Put(s, d, q), s, h)
    BY <1>2, <2>1
  <2>3. Paying(B, PutByte(s, Put(s, d, q), e), s, Append(h, e))
    BY <2>2, PutBytePays
  <2>4. Put(s, d, Append(q, e)) = PutByte(s, Put(s, d, q), e)
    BY PutOneMore
  <2>5. Append(h, e) = f \o Append(q, e)
    <3>1. Append(h, e) = Cat(h, One(e))
      BY CatOne
    <3>2. Append(q, e) = Cat(q, One(e)) /\ One(e) \in Seq(B)
      BY CatOne
    <3>3. Cat(Cat(f, q), One(e)) = Cat(f, Cat(q, One(e)))
      BY <3>2, CatCat
    <3>4. h = Cat(f, q)
      BY <2>1 DEF Cat
    <3>5. Append(h, e) = Cat(f, Append(q, e))
      BY <3>1, <3>2, <3>3, <3>4
    <3> QED BY <3>5 DEF Cat
  <2>6. Append(q, e) \in Seq(B)
    OBVIOUS
  <2> QED BY <2>3, <2>4, <2>5, <2>6
<1> HIDE DEF X
<1>3. field \in X
  BY <1>1, <1>2, SeqInduction
<1> QED BY <1>3 DEF X

\* What is true of the patches before close() ...
Paid(s, f, qs) == PairsFar(s, qs) /\ (qs # <<>> => f # s)

\* ... at any time.
LEMMA PayingPaid ==
  ASSUME NEW B, NEW s \in Seq(B), NEW f \in Seq(B), NEW d, Paying(B, d, s, f)
  PROVE  Paid(s, f, d.patches) /\ d.cur = Len(f) /\ d.patches \in Seq(Patch(B))
<1>1. ASSUME Differs(s, f) PROVE f # s
  <2>1. PICK i \in 1 .. Len(f) : Len(s) < i \/ s[i] # f[i]
    BY <1>1 DEF Differs
  <2>2. Len(f) \in Nat /\ i <= Len(f)
    OBVIOUS
  <2> QED BY <2>1, <2>2
<1>2. ASSUME NEW qs \in Seq(Patch(B)), Resting(B, d, qs, s, f)
      PROVE  Paid(s, f, d.patches) /\ d.cur = Len(f) /\ d.patches = qs
  BY <1>1, <1>2 DEF Resting, IsState, Spaced, Paid
<1>3. ASSUME NEW qs \in Seq(Patch(B)), NEW p \in Patch(B), Busy(B, d, qs, p, s, f)
      PROVE  Paid(s, f, d.patches) /\ d.cur = Len(f) /\ d.patches \in Seq(Patch(B))
  <2>1. d.patches = Append(qs, p) /\ d.cur = Len(f) /\ Spaced(s, qs, p.start) /\ f # s
    BY <1>1, <1>3 DEF Busy, IsState
  <2>2. PairsFar(s, Append(qs, p))
    BY <2>1, PairsAppend
  <2>3. Append(qs, p) \in Seq(Patch(B))
    OBVIOUS
  <2> QED BY <2>1, <2>2, <2>3 DEF Paid
<1> QED BY <1>2, <1>3 DEF Paying

\* The patch of close() removes bytes, and costs what it must.
LEMMA ClosePays ==
  ASSUME NEW B, NEW s \in Seq(B), NEW f \in Seq(B), NEW d, Paying(B, d, s, f)
  PROVE  Paid(s, f, Close(s, d).patches)
<1>1. PICK qs \in Seq(Patch(B)) : qs = d.patches /\ Paid(s, f, qs) /\ d.cur = Len(f)
  BY PayingPaid
<1>2. CASE ~(d.cur < Len(s))
  <2>1. Close(s, d).patches = qs
    BY <1>1, <1>2 DEF Close
  <2> QED BY <1>1, <2>1
<1>3. CASE d.cur < Len(s)
  <2>1. PICK p : p = [start |-> d.cur, size |-> Len(s) - d.cur, buf |-> <<>>]
    OBVIOUS
  <2>2. Close(s, d).patches = Append(qs, p)
    BY <1>1, <1>3, <2>1 DEF Close
  <2>3. f # s
    BY <1>1, <1>3
  <2>4. PICK L \in Nat : L = Len(qs)
    OBVIOUS
  <2>5. PICK more : more = Append(qs, p)
    OBVIOUS
  <2>6. Len(more) = L + 1 /\ more[L + 1] = p /\ \A i \in 1 .. L : more[i] = qs[i]
    BY <2>4, <2>5
  <2>7. ASSUME NEW k \in 2 .. Len(more), more[k].buf # <<>>
        PROVE  FarFrom(s, more[k - 1], more[k].start)
    <3>1. k # L + 1
      BY <2>1, <2>6, <2>7
    <3>2. k \in 2 .. L /\ k \in 1 .. L /\ k - 1 \in 1 .. L
      BY <2>6, <3>1
    <3>3. qs[k].buf # <<>>
      BY <2>6, <2>7, <3>2
    <3>4. FarFrom(s, qs[k - 1], qs[k].start)
      BY <1>1, <2>4, <3>2, <3>3 DEF Paid, PairsFar
    <3> QED BY <2>6, <3>2, <3>4
  <2>8. PairsFar(s, more)
    BY <2>7 DEF PairsFar
  <2> QED BY <2>2, <2>3, <2>5, <2>8 DEF Paid
<1> QED BY <1>2, <1>3

\* While the stream is open its BinDiff pays; when it is closed its patches have.
StreamPays == /\ ~closed => Paying(Byte, bd, src, fed)
              /\ closed => Paid(src, fed, bd.patches)

\* A new BinDiff has no patch.
LEMMA PaysInit == InitStream => StreamPays
<1> SUFFICES ASSUME InitStream PROVE StreamPays
  OBVIOUS
<1>1. fed = <<>> /\ bd = NewBinDiff /\ closed = FALSE
  BY DEF InitStream
<1>2. IsState(Byte, NewBinDiff, 0, NoDiff, <<>>, TRUE) /\ <<>> \in Seq(Patch(Byte))
  BY DEF IsState, State, NewBinDiff, NoDiff
<1>3. Resting(Byte, bd, <<>>, src, fed)
  <2>1. Len(<<>>) = 0 /\ 2 .. 0 = {}
    OBVIOUS
  <2>2. PairsFar(src, <<>>)
    BY <2>1 DEF PairsFar
  <2>3. Spaced(src, <<>>, 0)
    BY <2>2 DEF Spaced
  <2> QED BY <1>1, <1>2, <2>1, <2>3 DEF Resting
<1> QED BY <1>1, <1>2, <1>3 DEF StreamPays, Paying

\* Every field, and the end.
LEMMA PaysNext == StreamIInv /\ StreamPays /\ [NextStream]_streamVars => StreamPays'
<1> SUFFICES ASSUME StreamIInv, StreamPays, [NextStream]_streamVars PROVE StreamPays'
  OBVIOUS
<1>1. src \in Seq(Byte) /\ fed \in Seq(Byte)
  BY DEF StreamIInv, StreamTypes
<1>2. ASSUME NEW field \in Field, Write(field) PROVE StreamPays'
  <2>1. field \in Seq(Byte)
    <3>1. PICK n \in 1 .. MaxField : field \in [1 .. n -> Byte]
      BY DEF Field
    <3>2. n \in Nat
      BY DiffStreamAssumption
    <3> QED BY <3>1, <3>2, SeqDef
  <2>2. ~closed /\ bd' = Put(src, bd, field) /\ fed' = fed \o field /\ src' = src /\ closed' = closed
    BY <1>2 DEF Write
  <2>3. Paying(Byte, Put(src, bd, field), src, fed \o field)
    BY <1>1, <2>1, <2>2, PutPays DEF StreamPays
  <2> QED BY <2>2, <2>3 DEF StreamPays
<1>3. CASE Join
  <2>1. ~closed /\ bd' = Close(src, bd) /\ closed' = TRUE /\ src' = src /\ fed' = fed
    BY <1>3 DEF Join
  <2>2. Paid(src, fed, Close(src, bd).patches)
    BY <1>1, <2>1, ClosePays DEF StreamPays
  <2> QED BY <2>1, <2>2 DEF StreamPays
<1>4. CASE UNCHANGED streamVars
  BY <1>4 DEF streamVars, StreamPays
<1> QED BY <1>2, <1>3, <1>4 DEF NextStream

\* Between two patches that replace bytes more than Gap equal bytes were skipped or
\* carried, and an unchanged object costs no patch: the server sends nothing of it
\* (BinDiff.cpp:19, Server.cpp:663).
THEOREM PatchesPay == SpecStream => []MergingPays
<1>1. InitStream => StreamPays
  BY PaysInit
<1>2. StreamIInv /\ StreamPays /\ [NextStream]_streamVars => StreamPays'
  BY PaysNext
<1>3. StreamIInv /\ StreamPays => MergingPays
  <2> SUFFICES ASSUME StreamIInv, StreamPays PROVE MergingPays
    OBVIOUS
  <2>1. src \in Seq(Byte) /\ fed \in Seq(Byte) /\ closed \in BOOLEAN
    BY DEF StreamIInv, StreamTypes
  <2>2. Paid(src, fed, bd.patches)
    BY <2>1, PayingPaid DEF StreamPays
  <2>3. ASSUME NEW k \in 2 .. Len(bd.patches), bd.patches[k].buf # <<>>
        PROVE  FarFrom(src, bd.patches[k - 1], bd.patches[k].start)
    BY <2>2, <2>3 DEF Paid, PairsFar
  <2> QED BY <2>2, <2>3 DEF MergingPays, Paid, FarFrom, EqualEnd
<1> QED BY <1>1, <1>2, <1>3, StreamInv, PTL DEF SpecStream
=============================================================================
