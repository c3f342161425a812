----------------------------- MODULE SessionsProofs ----------------------------
(***************************************************************************)
(* Who is who, for any connections, names, slots and orders of arrival.    *)
(***************************************************************************)
EXTENDS Sessions, BinDiffProofs

Some == Client \cup {Host}

\* The stages of a client's thread.
Stage == {"none", "up", "in", "bye", "done", "refused"}

Typed ==
  /\ cl \in Seq(Some) /\ id \in [Some -> Nat] /\ DOMAIN name = Some
  /\ meid \in [Some -> Nat] /\ st \in [Client -> Stage] /\ logins \in [Client -> Nat]
  /\ made \in Nat \ {0}

\* Only a client in its thread, or past it, has logged in.
LoginsCounted ==
  \A c \in Client : LoggedIn(c) => st[c] \in {"in", "bye", "done"}

NamesInv == Typed /\ LoginsCounted /\ NamesUnique

-----------------------------------------------------------------------------
(* The list of clients *)

\* kept is what cl_clean keeps of the first n entries.
Keeping(kept) ==
  /\ kept[0] = <<>>
  /\ \A n \in 1 .. Len(cl) :
       kept[n] = IF cl[n] = Host \/ Valid(cl[n]) THEN Append(kept[n - 1], cl[n]) ELSE kept[n - 1]

\* The loop of cl_clean (Server.cpp:1267-1285).
LEMMA ConnectedDef ==
  ASSUME Len(cl) \in Nat
  PROVE  \E kept : Keeping(kept) /\ Connected = kept[Len(cl)]
<1> DEFINE step(q, n) == IF cl[n] = Host \/ Valid(cl[n]) THEN Append(q, cl[n]) ELSE q
           Run(f, m) == f = [n \in 0 .. m |-> IF n = 0 THEN <<>> ELSE step(f[n - 1], n)]
           N == {m \in Nat : \E f : Run(f, m)}
<1>1. 0 \in N
  <2>1. Run([n \in 0 .. 0 |-> <<>>], 0)
    OBVIOUS
  <2> QED BY <2>1
<1>2. ASSUME NEW m \in Nat, m \in N PROVE m + 1 \in N
  <2>1. PICK f : Run(f, m)
    BY <1>2
  <2> DEFINE g == [n \in 0 .. m + 1 |-> IF n = m + 1 THEN step(f[m], n) ELSE f[n]]
  <2>2. ASSUME NEW n \in 0 .. m + 1
        PROVE  g[n] = IF n = 0 THEN <<>> ELSE step(g[n - 1], n)
    <3> HIDE DEF step
    <3>1. CASE n = m + 1
      <4>1. g[n - 1] = f[m] /\ g[n] = step(f[m], n)
        BY <3>1
      <4> QED BY <3>1, <4>1
    <3>2. CASE n # m + 1
      <4>1. n \in 0 .. m /\ g[n] = f[n] /\ (n # 0 => g[n - 1] = f[n - 1])
        BY <3>2
      <4>2. f[n] = IF n = 0 THEN <<>> ELSE step(f[n - 1], n)
        BY <2>1, <4>1
      <4> QED BY <4>1, <4>2
    <3> QED BY <3>1, <3>2
  <2>3. g = [n \in 0 .. m + 1 |-> g[n]]
    OBVIOUS
  <2> HIDE DEF g, step
  <2>4. [n \in 0 .. m + 1 |-> g[n]]
        = [n \in 0 .. m + 1 |-> IF n = 0 THEN <<>> ELSE step(g[n - 1], n)]
    BY <2>2
  <2>5. Run(g, m + 1)
    BY <2>3, <2>4
  <2> HIDE DEF Run
  <2> QED BY <2>5
<1> HIDE DEF N
<1>3. Len(cl) \in N
  BY <1>1, <1>2, SetInduction
<1>4. \E f : Run(f, Len(cl))
  BY <1>3 DEF N
<1> DEFINE kept == CHOOSE f : Run(f, Len(cl))
<1>5. Run(kept, Len(cl))
  BY <1>4
<1>6. Connected = kept[Len(cl)]
  BY DEF Connected
<1> HIDE DEF kept, step
<1>7. kept[0] = <<>> /\ \A n \in 1 .. Len(cl) : kept[n] = step(kept[n - 1], n)
  BY <1>5
<1>8. Keeping(kept)
  BY <1>7 DEF Keeping, step
<1> QED BY <1>6, <1>8

\* Nothing comes into the list by cleaning it.
LEMMA CleanIsListed ==
  ASSUME cl \in Seq(Some)
  PROVE  /\ Connected \in Seq(Some)
         /\ \A i \in 1 .. Len(Connected) : Connected[i] \in Listed
<1>1. PICK kept : Keeping(kept) /\ Connected = kept[Len(cl)]
  BY ConnectedDef
<1> DEFINE N == {n \in Nat : n <= Len(cl) => kept[n] \in Seq(Listed)}
<1>2. 0 \in N
  <2>1. <<>> \in Seq(Listed) /\ kept[0] = <<>>
    BY <1>1 DEF Keeping
  <2> QED BY <2>1
<1>3. ASSUME NEW n \in Nat, n \in N PROVE n + 1 \in N
  <2>1. SUFFICES ASSUME n + 1 <= Len(cl) PROVE kept[n + 1] \in Seq(Listed)
    OBVIOUS
  <2>2. n + 1 \in 1 .. Len(cl) /\ kept[n] \in Seq(Listed) /\ (n + 1) - 1 = n
    BY <1>3, <2>1
  <2>3. PICK e \in Listed : e = cl[n + 1]
    BY <2>2 DEF Listed
  <2>4. PICK q \in Seq(Listed) : q = kept[n]
    BY <2>2
  <2>5. kept[n + 1] = Append(q, e) \/ kept[n + 1] = q
    BY <1>1, <2>2, <2>3, <2>4 DEF Keeping
  <2>6. Append(q, e) \in Seq(Listed)
    OBVIOUS
  <2> QED BY <2>5, <2>6
<1> HIDE DEF N
<1>4. Len(cl) \in N
  BY <1>2, <1>3, SetInduction
<1>5. Connected \in Seq(Listed)
  BY <1>1, <1>4 DEF N
<1>6. Listed \subseteq Some
  BY DEF Listed
<1>7. PICK q \in Seq(Listed) : q = Connected
  BY <1>5
<1>8. q \in Seq(Some) /\ \A i \in 1 .. Len(q) : q[i] \in Listed
  BY <1>6
<1> QED BY <1>7, <1>8

\* As long as all in the list are valid, cleaning it changes nothing.
LEMMA AllValid ==
  ASSUME cl \in Seq(Some), \A i \in 1 .. Len(cl) : cl[i] = Host \/ Valid(cl[i])
  PROVE  Connected = cl
<1>1. PICK kept : Keeping(kept) /\ Connected = kept[Len(cl)]
  BY ConnectedDef
<1> DEFINE N == {n \in Nat : n <= Len(cl) =>
                   /\ kept[n] \in Seq(Some) /\ Len(kept[n]) = n
                   /\ \A i \in 1 .. n : kept[n][i] = cl[i]}
<1>2. 0 \in N
  <2>1. <<>> \in Seq(Some) /\ Len(<<>>) = 0
    BY CatNone
  <2>2. kept[0] = <<>>
    BY <1>1 DEF Keeping
  <2>3. \A i \in 1 .. 0 : kept[0][i] = cl[i]
    OBVIOUS
  <2>4. kept[0] \in Seq(Some) /\ Len(kept[0]) = 0
    BY <2>1, <2>2
  <2> QED BY <2>3, <2>4
<1>3. ASSUME NEW n \in Nat, n \in N PROVE n + 1 \in N
  <2>1. SUFFICES ASSUME n + 1 <= Len(cl)
                 PROVE  /\ kept[n + 1] \in Seq(Some) /\ Len(kept[n + 1]) = n + 1
                        /\ \A i \in 1 .. n + 1 : kept[n + 1][i] = cl[i]
    OBVIOUS
  <2>2. n + 1 \in 1 .. Len(cl) /\ (n + 1) - 1 = n
    BY <2>1
  <2>3. kept[n] \in Seq(Some) /\ Len(kept[n]) = n /\ \A i \in 1 .. n : kept[n][i] = cl[i]
    BY <1>3, <2>1
  <2>4. PICK q \in Seq(Some) : q = kept[n]
    BY <2>3
  <2>5. PICK e \in Some : e = cl[n + 1]
    BY <2>2
  <2>6. kept[n + 1] = Append(q, e)
    BY <1>1, <2>2, <2>4, <2>5 DEF Keeping
  <2>7. \A i \in 1 .. n + 1 : Append(q, e)[i] = cl[i]
    BY <2>3, <2>4, <2>5
  <2> QED BY <2>3, <2>4, <2>6, <2>7
<1> HIDE DEF N
<1>4. Len(cl) \in N
  BY <1>2, <1>3, SetInduction
<1>5. /\ Connected \in Seq(Some) /\ Len(Connected) = Len(cl)
      /\ \A i \in 1 .. Len(cl) : Connected[i] = cl[i]
  BY <1>1, <1>4 DEF N
<1>6. PICK q \in Seq(Some) : q = Connected
  BY <1>5
<1>7. q = cl
  BY <1>5, <1>6
<1> QED BY <1>6, <1>7

-----------------------------------------------------------------------------
(* Names *)

NumberedName(base, n) == base \o [k \in 1 .. n |-> k]

\* Another number makes another name.
LEMMA NumbersDiffer ==
  ASSUME NEW base \in LoginName, NEW m \in Nat, NEW n \in Nat,
         NumberedName(base, m) = NumberedName(base, n)
  PROVE  m = n
<1> DEFINE B == {base[i] : i \in 1 .. Len(base)} \cup Nat
<1>1. base \in Seq(B)
  <2>1. Len(base) \in Nat /\ base = [i \in 1 .. Len(base) |-> base[i]]
    BY SessionsAssumption
  <2>2. base \in [1 .. Len(base) -> B]
    BY <2>1
  <2> HIDE DEF B
  <2> QED BY <2>1, <2>2, SeqDef
<1>2. \A k \in Nat : [i \in 1 .. k |-> i] \in Seq(B) /\ Len([i \in 1 .. k |-> i]) = k
  OBVIOUS
<1> HIDE DEF B
<1>3. ASSUME NEW k \in Nat PROVE Len(NumberedName(base, k)) = Len(base) + k /\ Len(base) \in Nat
  <2>1. PICK t \in Seq(B) : t = [i \in 1 .. k |-> i]
    BY <1>2
  <2>2. Len(t) = k
    BY <1>2, <2>1
  <2>3. NumberedName(base, k) = Cat(base, t)
    BY <2>1 DEF NumberedName, Cat
  <2>4. Len(Cat(base, t)) = Len(base) + Len(t) /\ Len(base) \in Nat
    BY <1>1, CatType
  <2> QED BY <2>2, <2>3, <2>4
<1>4. Len(base) + m = Len(base) + n /\ Len(base) \in Nat
  BY <1>3
<1> QED BY <1>4

\* The loop of LOGIN ends with a name that nobody has: there are more numbers to
\* try than names that are taken (Server.cpp:1062-1080).
LEMMA UniqueNameIsFree ==
  ASSUME NEW base \in LoginName, NEW taken, IsFiniteSet(taken)
  PROVE  UniqueName(base, taken) \notin taken
<1> DEFINE free == {n \in 0 .. Cardinality(taken) : NumberedName(base, n) \notin taken}
<1>1. Cardinality(taken) \in Nat
  BY FS_CardinalityType
<1>2. free # {}
  <2> SUFFICES ASSUME free = {} PROVE FALSE
    OBVIOUS
  <2> DEFINE f == [n \in 0 .. Cardinality(taken) |-> NumberedName(base, n)]
  <2>1. f \in [0 .. Cardinality(taken) -> taken]
    OBVIOUS
  <2>2. /\ IsFiniteSet(0 .. Cardinality(taken))
        /\ Cardinality(0 .. Cardinality(taken)) = Cardinality(taken) + 1
    BY <1>1, FS_Interval
  <2>3. Cardinality(taken) < Cardinality(0 .. Cardinality(taken))
    BY <1>1, <2>2
  <2> DEFINE D == 0 .. Cardinality(taken)
  <2>4. \E m, n \in D : m # n /\ f[m] = f[n]
    <3>1. IsFiniteSet(D) /\ Cardinality(taken) < Cardinality(D) /\ f \in [D -> taken]
      BY <2>1, <2>2, <2>3
    <3> HIDE DEF D, f
    <3> QED BY <3>1, FS_PigeonHole
  <2> HIDE DEF f
  <2>5. PICK m, n \in D : m # n /\ f[m] = f[n]
    BY <2>4
  <2>6. m \in Nat /\ n \in Nat /\ NumberedName(base, m) = NumberedName(base, n)
    BY <1>1, <2>5 DEF f
  <2> QED BY <2>5, <2>6, NumbersDiffer
<1>3. UniqueName(base, taken) = NumberedName(base, Min(free))
  BY DEF UniqueName, NumberedName
<1>4. free \in SUBSET Nat
  BY <1>1
<1>5. \E m \in free : \A k \in free : m <= k
  BY <1>2, <1>4, Least
<1>6. PICK i : i = Min(free)
  OBVIOUS
<1>7. i \in free
  BY <1>5, <1>6 DEF Min
<1> QED BY <1>3, <1>6, <1>7

\* The names of a list are finitely many.
LEMMA NamesFinite ==
  ASSUME Typed, NEW c
  PROVE  IsFiniteSet({name[d] : d \in Listed \ {c}})
<1>1. Some = Client \cup {Host} /\ IsFiniteSet(Some)
  BY SessionsAssumption, FS_AddElement DEF Some
<1> DEFINE L == Listed \ {c}
<1>2. Listed \subseteq Some
  BY DEF Listed, Typed
<1>3. IsFiniteSet(L)
  BY <1>1, <1>2, FS_Subset
<1> DEFINE f == [d \in L |-> name[d]]
           T == {name[d] : d \in L}
<1>4. f \in Surjection(L, T)
  BY DEF Surjection
<1> HIDE DEF L, f, T
<1>5. IsFiniteSet(T)
  BY <1>3, <1>4, FS_Surjection
<1> QED BY <1>5 DEF L, T

-----------------------------------------------------------------------------
(* Unique names *)

\* The server alone.
LEMMA NamesInit == Init => NamesInv
<1> SUFFICES ASSUME Init PROVE NamesInv
  OBVIOUS
<1>1. /\ cl = <<Host>>
      /\ id = [c \in Some |-> 0] /\ st = [c \in Client |-> "none"]
      /\ name = [c \in Some |-> IF c = Host THEN HostName ELSE NoName]
      /\ meid = [c \in Some |-> IF c = Host THEN 1 ELSE 0]
      /\ logins = [c \in Client |-> 0] /\ made = 1
  BY DEF Init, Some
<1>2. Typed
  <2>1. Host \in Some
    BY DEF Some
  <2>2. cl \in Seq(Some)
    BY <1>1, <2>1
  <2> QED BY <1>1, <2>2 DEF Typed, Stage
<1>3. \A c \in Client : ~LoggedIn(c)
  BY <1>1 DEF LoggedIn
<1>4. Listed = {Host}
  BY <1>1 DEF Listed
<1> QED BY <1>2, <1>3, <1>4 DEF NamesInv, LoginsCounted, NamesUnique

\* A client that is new to the list has not logged in (Server.cpp:426-482).
LEMMA ConnectNames ==
  ASSUME NamesInv, NEW c \in Client, Connect(c)
  PROVE  NamesInv'
<1>1. /\ st[c] = "none"
      /\ name' = name /\ meid' = meid /\ logins' = logins /\ made' = made
      /\ cl' = Connected \/ cl' = Append(Connected, c)
      /\ id' = id \/ id' = [id EXCEPT ![c] = Len(Connected)]
      /\ st' = [st EXCEPT ![c] = "refused"] \/ st' = [st EXCEPT ![c] = "up"]
  BY DEF Connect, Clean
<1>2. Typed /\ LoginsCounted /\ NamesUnique
  BY DEF NamesInv
<1>3. PICK q \in Seq(Some) : q = Connected
  BY <1>2, CleanIsListed DEF Typed
<1>4. \A i \in 1 .. Len(q) : q[i] \in Listed
  BY <1>2, <1>3, CleanIsListed DEF Typed
<1>5. c \in Some
  BY DEF Some
<1>6. cl' \in Seq(Some) /\ \A i \in 1 .. Len(cl') : cl'[i] \in Listed \cup {c}
  <2>1. /\ Append(q, c) \in Seq(Some)
        /\ \A i \in 1 .. Len(Append(q, c)) :
             Append(q, c)[i] = c \/ \E j \in 1 .. Len(q) : Append(q, c)[i] = q[j]
    BY <1>5, Queued
  <2> QED BY <1>1, <1>3, <1>4, <2>1
<1>7. Typed'
  <2>1. id' \in [Some -> Nat]
    <3>1. Len(q) \in Nat
      OBVIOUS
    <3> QED BY <1>1, <1>2, <1>3, <3>1 DEF Typed
  <2>2. st' \in [Client -> Stage]
    BY <1>1, <1>2 DEF Typed, Stage
  <2> QED BY <1>1, <1>2, <1>6, <2>1, <2>2 DEF Typed
<1>8. ~LoggedIn(c)
  BY <1>1, <1>2 DEF LoginsCounted
<1>9. \A e \in Client : LoggedIn(e)' <=> LoggedIn(e)
  BY <1>1 DEF LoggedIn
<1>10. LoginsCounted'
  BY <1>1, <1>2, <1>8, <1>9 DEF LoginsCounted, Typed
<1>11. NamesUnique'
  <2>1. \A e \in Listed' : e \in Some /\ (e \in Listed \/ e = c)
    BY <1>6 DEF Listed
  <2>2. c # Host
    BY SessionsAssumption
  <2>3. \A e \in Listed' : e = Host \/ LoggedIn(e)' => e \in Listed /\ (e = Host \/ LoggedIn(e))
    BY <1>8, <1>9, <2>1, <2>2 DEF Some
  <2> QED BY <1>1, <1>2, <2>3 DEF NamesUnique
<1> QED BY <1>7, <1>10, <1>11 DEF NamesInv

\* LOGIN gives a name that no other client of the list has (Server.cpp:1061-1101).
LEMMA LoginNames ==
  ASSUME NamesInv, NEW c \in Client, NEW base \in LoginName, Login(c, base)
  PROVE  NamesInv'
<1>1. Typed /\ LoginsCounted /\ NamesUnique
  BY DEF NamesInv
<1> DEFINE taken == {name[d] : d \in Listed \ {c}}
<1>2. PICK n : n = UniqueName(base, taken)
  OBVIOUS
<1>3. n \notin taken
  BY <1>1, <1>2, NamesFinite, UniqueNameIsFree
<1>4. /\ st[c] = "in" /\ cl' = cl /\ id' = id /\ st' = st
      /\ logins' = [logins EXCEPT ![c] = @ + 1] /\ name' = [name EXCEPT ![c] = n]
      /\ made' = made + 1 /\ meid' = [meid EXCEPT ![c] = made']
  BY <1>2 DEF Login
<1>5. c \in Some
  BY DEF Some
<1>6. Typed'
  <2>1. made' \in Nat \ {0} /\ made' \in Nat
    BY <1>1, <1>4 DEF Typed
  <2>2. meid' \in [Some -> Nat]
    BY <1>1, <1>4, <2>1 DEF Typed
  <2>3. logins' \in [Client -> Nat]
    BY <1>1, <1>4 DEF Typed
  <2> QED BY <1>1, <1>4, <2>1, <2>2, <2>3 DEF Typed
<1>7. LoginsCounted'
  BY <1>1, <1>4 DEF LoginsCounted, LoggedIn, Typed
<1>8. name'[c] = n /\ \A e \in Some : e # c => name'[e] = name[e]
  BY <1>1, <1>4, <1>5 DEF Typed
<1>9. Listed' = Listed /\ Listed \subseteq Some
  BY <1>1, <1>4 DEF Listed, Typed
<1>10. \A e \in Client : e # c => (LoggedIn(e)' <=> LoggedIn(e))
  BY <1>1, <1>4 DEF LoggedIn, Typed
<1>11. \A e \in Listed : e # c => name'[e] # name'[c]
  BY <1>3, <1>8, <1>9
<1>12. NamesUnique'
  <2> SUFFICES ASSUME NEW e \in Listed, NEW f \in Listed, e = Host \/ LoggedIn(e)',
                      f = Host \/ LoggedIn(f)', name'[e] = name'[f]
               PROVE  e = f
    BY <1>9 DEF NamesUnique
  <2>1. CASE e = c \/ f = c
    BY <1>11, <2>1
  <2>2. CASE e # c /\ f # c
    <3>1. name[e] = name[f] /\ (e = Host \/ LoggedIn(e)) /\ (f = Host \/ LoggedIn(f))
      BY <1>8, <1>9, <1>10, <2>2 DEF Some
    <3> QED BY <1>1, <3>1 DEF NamesUnique
  <2> QED BY <2>1, <2>2
<1> QED BY <1>6, <1>7, <1>12 DEF NamesInv

\* The other steps give no name and add nobody to the list.
LEMMA NamesNext == NamesInv /\ [Next]_vars => NamesInv'
<1> SUFFICES ASSUME NamesInv, [Next]_vars PROVE NamesInv'
  OBVIOUS
<1>1. Typed /\ LoginsCounted /\ NamesUnique
  BY DEF NamesInv
<1>2. ASSUME st' \in [Client -> Stage],
             \A c \in Client : st'[c] = st[c] \/ st'[c] \in {"in", "bye", "done"},
             cl' = cl, id' = id, name' = name, meid' = meid, made' = made, logins' = logins
      PROVE  NamesInv'
  <2>1. Typed'
    BY <1>1, <1>2 DEF Typed
  <2>2. LoginsCounted'
    BY <1>1, <1>2 DEF LoginsCounted, LoggedIn
  <2>3. NamesUnique'
    BY <1>1, <1>2 DEF NamesUnique, Listed, LoggedIn
  <2> QED BY <2>1, <2>2, <2>3 DEF NamesInv
<1>3. ASSUME NEW c \in Client, NEW s \in {"in", "bye", "done"}, st' = [st EXCEPT ![c] = s],
             cl' = cl, id' = id, name' = name, meid' = meid, made' = made, logins' = logins
      PROVE  NamesInv'
  <2>1. st' \in [Client -> Stage]
    BY <1>1, <1>3 DEF Typed, Stage
  <2>2. \A d \in Client : st'[d] = st[d] \/ st'[d] \in {"in", "bye", "done"}
    BY <1>1, <1>3 DEF Typed
  <2> QED BY <1>2, <1>3, <2>1, <2>2
<1>4. ASSUME NEW c \in Client, FirstUpdate(c) PROVE NamesInv'
  BY <1>3, <1>4 DEF FirstUpdate
<1>5. ASSUME NEW c \in Client, RecvEnds(c) PROVE NamesInv'
  BY <1>3, <1>5 DEF RecvEnds
<1>6. ASSUME NEW c \in Client, ErasePlayer(c) PROVE NamesInv'
  BY <1>3, <1>6 DEF ErasePlayer
<1>7. CASE WaitModified
  BY <1>1, <1>2, <1>7 DEF WaitModified, Typed
<1>8. CASE UNCHANGED vars
  BY <1>1, <1>2, <1>8 DEF vars, Typed
<1> QED BY <1>4, <1>5, <1>6, <1>7, <1>8, ConnectNames, LoginNames DEF Next

\* NamesInv holds in every state.
THEOREM NamesKept == Spec => []NamesInv
BY NamesInit, NamesNext, PTL DEF Spec

\* Two clients that have logged in never have one name, however many ask for it
\* (Server.cpp:1062-1080).
THEOREM NamesAreUnique == Spec => []NamesUnique
<1>1. NamesInv => NamesUnique
  BY DEF NamesInv
<1> QED BY <1>1, NamesKept, PTL

-----------------------------------------------------------------------------
(* Players *)

Player == [oid : Nat \ {0}, playerId : Nat, race : Nat, owner : Some]

\* Players are added at the end, with object ids that grow; the server's own stays.
Roster ==
  /\ players \in Seq(Player)
  /\ \A i \in 1 .. Len(players) : players[i].oid <= made
  /\ \A i, j \in 1 .. Len(players) : i < j => players[i].oid < players[j].oid
  /\ \E i \in 1 .. Len(players) : players[i].owner = Host

Plays(c) == LoggedIn(c) /\ st[c] \in {"in", "bye"}

\* May client d be the owner of the Player with object id n?
Owns(d, n) == IF d = Host THEN n = 1 ELSE Plays(d) /\ meid[d] = n

\* The Players and the clients that play have each other.
Owners ==
  /\ \A i \in 1 .. Len(players) : \A d \in Some, n \in Nat :
       players[i].owner = d /\ players[i].oid = n => Owns(d, n)
  /\ \A c \in Client :
       /\ Plays(c) => \E i \in 1 .. Len(players) : players[i].oid = meid[c] /\ players[i].owner = c
       /\ ~LoggedIn(c) => meid[c] = 0

LoginsOnce == \A c \in Client : logins[c] <= 1

PlayersInv == NamesInv /\ LoginsOnce /\ Roster /\ Owners

\* What RemoveAt leaves, and where it was.
LEMMA Left ==
  ASSUME NEW S, NEW s \in Seq(S), NEW i \in 1 .. Len(s), NEW r, r = RemoveAt(s, i)
  PROVE  /\ r \in Seq(S)
         /\ \E at \in [1 .. Len(r) -> 1 .. Len(s)] :
              /\ \A j \in 1 .. Len(r) : r[j] = s[at[j]] /\ at[j] # i
              /\ \A j, l \in 1 .. Len(r) : j < l => at[j] < at[l]
              /\ \A k \in 1 .. Len(s) : k # i => \E j \in 1 .. Len(r) : at[j] = k
<1>1. /\ r \in Seq(S) /\ Len(r) = Len(s) - 1 /\ Len(s) \in Nat
      /\ \A j \in 1 .. Len(s) - 1 : r[j] = IF j < i THEN s[j] ELSE s[j + 1]
  BY Removed
<1> DEFINE at == [j \in 1 .. Len(r) |-> IF j < i THEN j ELSE j + 1]
<1>2. at \in [1 .. Len(r) -> 1 .. Len(s)]
  BY <1>1
<1>3. \A j \in 1 .. Len(r) : r[j] = s[at[j]] /\ at[j] # i
  BY <1>1
<1>4. \A j, l \in 1 .. Len(r) : j < l => at[j] < at[l]
  BY <1>1
<1>5. ASSUME NEW k \in 1 .. Len(s), k # i PROVE \E j \in 1 .. Len(r) : at[j] = k
  <2>1. CASE k < i
    <3>1. k \in 1 .. Len(r) /\ at[k] = k
      BY <1>1, <2>1
    <3> QED BY <3>1
  <2>2. CASE ~(k < i)
    <3>1. k - 1 \in 1 .. Len(r) /\ at[k - 1] = k
      BY <1>1, <1>5, <2>2
    <3> QED BY <3>1
  <2> QED BY <2>1, <2>2
<1> HIDE DEF at
<1> QED BY <1>1, <1>2, <1>3, <1>4, <1>5

\* The fields of a Player.
LEMMA PlayerFields ==
  ASSUME Roster, NEW i \in 1 .. Len(players)
  PROVE  /\ players[i] \in Player /\ players[i].oid \in Nat \ {0}
         /\ players[i].playerId \in Nat /\ players[i].owner \in Some
<1>1. players \in Seq(Player)
  BY DEF Roster
<1>2. players[i] \in Player
  BY <1>1
<1> QED BY <1>2 DEF Player

\* One object id, one place.
LEMMA OidsDiffer ==
  ASSUME Roster, NEW i \in 1 .. Len(players), NEW j \in 1 .. Len(players),
         players[i].oid = players[j].oid
  PROVE  i = j
<1>1. players[i].oid \in Nat /\ players[j].oid \in Nat
  BY PlayerFields
<1>2. i \in Nat /\ j \in Nat
  OBVIOUS
<1> QED BY <1>1, <1>2 DEF Roster

\* The server's own Player.
LEMMA PlayersInit == Init => PlayersInv
<1> SUFFICES ASSUME Init PROVE PlayersInv
  OBVIOUS
<1> DEFINE p == [oid |-> 1, playerId |-> 0, race |-> 0, owner |-> Host]
<1>1. players = <<p>> /\ made = 1 /\ logins = [c \in Client |-> 0]
  BY DEF Init
<1>2. p \in Player
  BY DEF Player, Some
<1>3. meid = [c \in Some |-> IF c = Host THEN 1 ELSE 0]
  BY DEF Init, Some
<1>4. \A c \in Client : ~LoggedIn(c) /\ logins[c] = 0 /\ meid[c] = 0
  <2>1. \A c \in Client : c \in Some /\ c # Host
    BY SessionsAssumption DEF Some
  <2> QED BY <1>1, <1>3, <2>1 DEF LoggedIn
<1>5. p.oid = 1 /\ p.owner = Host
  OBVIOUS
<1> HIDE DEF p
<1>6. players \in Seq(Player) /\ Len(players) = 1 /\ players[1] = p
  BY <1>1, <1>2
<1>7. Roster
  BY <1>1, <1>5, <1>6 DEF Roster
<1>8. Owners
  BY <1>4, <1>5, <1>6 DEF Owners, Owns, Plays
<1> QED BY <1>4, <1>7, <1>8, NamesInit DEF PlayersInv, LoginsOnce

\* What LOGIN adds to the list.
LEMMA LoginAdds ==
  ASSUME Typed, Roster, NEW c \in Client, NEW base \in LoginName, Login(c, base)
  PROVE  /\ players' \in Seq(Player) /\ Len(players') = Len(players) + 1
         /\ \A i \in 1 .. Len(players) : players'[i] = players[i]
         /\ players'[Len(players')].oid = made + 1
         /\ players'[Len(players')].playerId = Len(players)
         /\ players'[Len(players')].owner = c
<1> DEFINE p == [oid |-> made + 1, playerId |-> Len(players), race |-> id[c], owner |-> c]
<1>1. players \in Seq(Player) /\ Len(players) \in Nat
  BY DEF Roster
<1>2. c \in Some
  BY DEF Some
<1>3. made + 1 \in Nat \ {0} /\ id[c] \in Nat
  BY <1>2 DEF Typed
<1>4. p \in Player
  BY <1>1, <1>2, <1>3 DEF Player
<1>5. players' = Append(players, p)
  BY DEF Login
<1>6. p.oid = made + 1 /\ p.playerId = Len(players) /\ p.owner = c
  OBVIOUS
<1> HIDE DEF p
<1>7. /\ players' \in Seq(Player) /\ Len(players') = Len(players) + 1
      /\ \A i \in 1 .. Len(players) : players'[i] = players[i]
      /\ players'[Len(players) + 1] = p
  BY <1>1, <1>4, <1>5
<1> QED BY <1>6, <1>7

\* A Player for a client that has none (Server.cpp:1084-1096).
LEMMA LoginPlayers ==
  ASSUME MaxLogins <= 1, PlayersInv, NEW c \in Client, NEW base \in LoginName, Login(c, base)
  PROVE  (LoginsOnce /\ Roster /\ Owners)'
<1>1. Typed /\ LoginsCounted /\ LoginsOnce /\ Roster /\ Owners
  BY DEF PlayersInv, NamesInv
<1>2. /\ players' \in Seq(Player) /\ Len(players') = Len(players) + 1
      /\ \A i \in 1 .. Len(players) : players'[i] = players[i]
      /\ players'[Len(players')].oid = made + 1
      /\ players'[Len(players')].owner = c
  BY <1>1, LoginAdds
<1>3. /\ st[c] = "in" /\ logins[c] < MaxLogins /\ st' = st /\ made' = made + 1
      /\ logins' = [logins EXCEPT ![c] = @ + 1] /\ meid' = [meid EXCEPT ![c] = made + 1]
  BY DEF Login
<1>4. logins[c] = 0 /\ made \in Nat \ {0} /\ Len(players) \in Nat
  BY <1>1, <1>3, SessionsAssumption DEF Typed, Roster
<1>5. \A i \in 1 .. Len(players') : i \in 1 .. Len(players) \/ i = Len(players')
  BY <1>2, <1>4
<1>6. c \in Some /\ c # Host
  BY SessionsAssumption DEF Some
<1>7. /\ meid'[c] = made + 1 /\ \A d \in Some : d # c => meid'[d] = meid[d]
      /\ logins'[c] = 1 /\ \A d \in Client : d # c => logins'[d] = logins[d]
  BY <1>1, <1>3, <1>4, <1>6 DEF Typed
<1>8. LoginsOnce'
  BY <1>1, <1>7 DEF LoginsOnce
<1>9. ~Plays(c) /\ \A d \in Client : d # c => (Plays(d)' <=> Plays(d)) /\ (LoggedIn(d)' <=> LoggedIn(d))
  BY <1>3, <1>4, <1>7 DEF Plays, LoggedIn
<1>10. Plays(c)' /\ LoggedIn(c)'
  BY <1>3, <1>7 DEF Plays, LoggedIn
<1>11. Roster'
  <2>1. \A i \in 1 .. Len(players) : players[i].oid <= made /\ players[i].oid \in Nat
    BY <1>1, PlayerFields DEF Roster
  <2>2. \A i \in 1 .. Len(players') : players'[i].oid <= made'
    BY <1>2, <1>3, <1>4, <1>5, <2>1
  <2>3. ASSUME NEW i \in 1 .. Len(players'), NEW j \in 1 .. Len(players'), i < j
        PROVE  players'[i].oid < players'[j].oid
    <3>1. i \in 1 .. Len(players)
      BY <1>2, <1>4, <2>3
    <3>2. CASE j = Len(players')
      BY <1>2, <1>4, <2>1, <3>1, <3>2
    <3>3. CASE j \in 1 .. Len(players)
      BY <1>1, <1>2, <2>3, <3>1, <3>3 DEF Roster
    <3> QED BY <1>5, <3>2, <3>3
  <2>4. \E i \in 1 .. Len(players') : players'[i].owner = Host
    <3>1. PICK i \in 1 .. Len(players) : players[i].owner = Host
      BY <1>1 DEF Roster
    <3>2. i \in 1 .. Len(players') /\ players'[i].owner = Host
      BY <1>2, <1>4, <3>1
    <3> QED BY <3>2
  <2> QED BY <1>2, <2>2, <2>3, <2>4 DEF Roster
<1>12. Owners'
  <2>1. ASSUME NEW i \in 1 .. Len(players'), NEW d \in Some, NEW n \in Nat,
               players'[i].owner = d, players'[i].oid = n
        PROVE  Owns(d, n)'
    <3>1. CASE i = Len(players')
      BY <1>2, <1>6, <1>7, <1>10, <2>1, <3>1 DEF Owns
    <3>2. CASE i \in 1 .. Len(players)
      <4>1. players[i].owner = d /\ players[i].oid = n
        BY <1>2, <2>1, <3>2
      <4>2. Owns(d, n)
        BY <1>1, <3>2, <4>1 DEF Owners
      <4>3. d # c
        BY <1>6, <1>9, <4>2 DEF Owns
      <4>4. d # Host => d \in Client
        BY DEF Some
      <4> QED BY <1>7, <1>9, <4>2, <4>3, <4>4 DEF Owns
    <3> QED BY <1>5, <3>1, <3>2
  <2>2. ASSUME NEW d \in Client
        PROVE  /\ Plays(d)' => \E i \in 1 .. Len(players') :
                                 players'[i].oid = meid'[d] /\ players'[i].owner = d
               /\ ~LoggedIn(d)' => meid'[d] = 0
    <3>1. CASE d = c
      <4>1. Len(players') \in 1 .. Len(players')
        BY <1>2, <1>4
      <4> QED BY <1>2, <1>7, <1>10, <3>1, <4>1
    <3>2. CASE d # c
      <4>1. d \in Some
        BY DEF Some
      <4>2. meid'[d] = meid[d]
        BY <1>7, <3>2, <4>1
      <4>3. \A i \in 1 .. Len(players) : i \in 1 .. Len(players')
        BY <1>2, <1>4
      <4> QED BY <1>1, <1>2, <1>9, <3>2, <4>2, <4>3 DEF Owners
    <3> QED BY <3>1, <3>2
  <2> QED BY <2>1, <2>2 DEF Owners
<1> QED BY <1>8, <1>11, <1>12

\* A step that leaves the Players alone, and who plays.
LEMMA SamePlayers ==
  ASSUME LoginsOnce, Roster, Owners, \A d \in Client : Plays(d)' <=> Plays(d),
         players' = players, made' = made, meid' = meid, logins' = logins
  PROVE  (LoginsOnce /\ Roster /\ Owners)'
<1>1. LoginsOnce' /\ Roster'
  BY DEF LoginsOnce, Roster
<1>2. \A d \in Client : LoggedIn(d)' <=> LoggedIn(d)
  BY DEF LoggedIn
<1>3. \A d \in Some, n \in Nat : Owns(d, n)' <=> Owns(d, n)
  BY DEF Owns, Some
<1>4. Owners'
  <2>1. ASSUME NEW i \in 1 .. Len(players'), NEW d \in Some, NEW n \in Nat,
               players'[i].owner = d, players'[i].oid = n
        PROVE  Owns(d, n)'
    <3>1. players[i].owner = d /\ players[i].oid = n /\ i \in 1 .. Len(players)
      BY <2>1
    <3>2. Owns(d, n)
      BY <3>1 DEF Owners
    <3> QED BY <1>3, <3>2
  <2>2. ASSUME NEW d \in Client
        PROVE  /\ Plays(d)' => \E i \in 1 .. Len(players') :
                                 players'[i].oid = meid'[d] /\ players'[i].owner = d
               /\ ~LoggedIn(d)' => meid'[d] = 0
    BY <1>2 DEF Owners
  <2> QED BY <2>1, <2>2 DEF Owners
<1> QED BY <1>1, <1>4

\* The first Player with the client's meid is its own, and a client that never
\* logged in has none (Server.cpp:1186-1195).
LEMMA ErasePlayers ==
  ASSUME PlayersInv, NEW c \in Client, ErasePlayer(c)
  PROVE  (LoginsOnce /\ Roster /\ Owners)'
<1> DEFINE mine == {i \in 1 .. Len(players) : players[i].oid = meid[c]}
<1>1. Typed /\ LoginsOnce /\ Roster /\ Owners
  BY DEF PlayersInv, NamesInv
<1>2. /\ st[c] = "bye" /\ st' = [st EXCEPT ![c] = "done"]
      /\ logins' = logins /\ meid' = meid /\ made' = made
      /\ players' = IF mine = {} THEN players ELSE RemoveAt(players, Min(mine))
  BY DEF ErasePlayer
<1>3. c \in Some /\ c # Host
  BY SessionsAssumption DEF Some
<1>4. /\ \A d \in Client : LoggedIn(d)' <=> LoggedIn(d)
      /\ ~Plays(c)' /\ \A d \in Client : d # c => (Plays(d)' <=> Plays(d))
  BY <1>1, <1>2 DEF Plays, LoggedIn, Typed
<1>5. LoginsOnce'
  BY <1>1, <1>2 DEF LoginsOnce
<1>6. CASE ~LoggedIn(c)
  <2>1. meid[c] = 0
    BY <1>1, <1>6 DEF Owners
  <2>2. mine = {}
    BY <1>1, <2>1, PlayerFields
  <2>3. players' = players
    BY <1>2, <2>2
  <2>4. ~Plays(c)
    BY <1>6 DEF Plays
  <2>5. \A d \in Client : Plays(d)' <=> Plays(d)
    BY <1>4, <2>4
  <2> QED BY <1>1, <1>2, <2>3, <2>5, SamePlayers
<1>7. CASE LoggedIn(c)
  <2>1. PICK i \in 1 .. Len(players) : players[i].oid = meid[c] /\ players[i].owner = c
    BY <1>1, <1>2, <1>7 DEF Owners, Plays
  <2>2. mine = {i}
    BY <1>1, <2>1, OidsDiffer
  <2>3. Min(mine) = i
    BY <2>1, <2>2 DEF Min
  <2>4. players' = RemoveAt(players, i)
    BY <1>2, <2>2, <2>3
  <2>5. players \in Seq(Player)
    BY <1>1 DEF Roster
  <2>6. players' \in Seq(Player)
    BY <2>4, <2>5, Left
  <2>7. PICK at \in [1 .. Len(players') -> 1 .. Len(players)] :
          /\ \A j \in 1 .. Len(players') : players'[j] = players[at[j]] /\ at[j] # i
          /\ \A j, l \in 1 .. Len(players') : j < l => at[j] < at[l]
          /\ \A k \in 1 .. Len(players) : k # i => \E j \in 1 .. Len(players') : at[j] = k
    BY <2>4, <2>5, Left
  <2>8. \A j \in 1 .. Len(players') : \E k \in 1 .. Len(players) :
          at[j] = k /\ players'[j] = players[k] /\ k # i
    BY <2>7
  <2>9. Roster'
    <3>1. ASSUME NEW j \in 1 .. Len(players') PROVE players'[j].oid <= made'
      <4>1. PICK k \in 1 .. Len(players) : players'[j] = players[k]
        BY <2>8
      <4> QED BY <1>1, <1>2, <4>1 DEF Roster
    <3>2. ASSUME NEW j \in 1 .. Len(players'), NEW l \in 1 .. Len(players'), j < l
          PROVE  players'[j].oid < players'[l].oid
      <4>1. PICK k \in 1 .. Len(players) : at[j] = k /\ players'[j] = players[k]
        BY <2>8
      <4>2. PICK m \in 1 .. Len(players) : at[l] = m /\ players'[l] = players[m]
        BY <2>8
      <4>3. k < m
        BY <2>7, <3>2, <4>1, <4>2
      <4> QED BY <1>1, <4>1, <4>2, <4>3 DEF Roster
    <3>3. \E j \in 1 .. Len(players') : players'[j].owner = Host
      <4>1. PICK k \in 1 .. Len(players) : players[k].owner = Host
        BY <1>1 DEF Roster
      <4>2. k # i
        BY <1>3, <2>1, <4>1
      <4>3. PICK j \in 1 .. Len(players') : at[j] = k
        BY <2>7, <4>2
      <4>4. players'[j] = players[k]
        BY <2>7, <4>3
      <4> QED BY <4>1, <4>4
    <3> QED BY <2>6, <3>1, <3>2, <3>3 DEF Roster
  <2>10. Owners'
    <3>1. ASSUME NEW j \in 1 .. Len(players'), NEW d \in Some, NEW n \in Nat,
                 players'[j].owner = d, players'[j].oid = n
          PROVE  Owns(d, n)'
      <4>1. PICK k \in 1 .. Len(players) : players'[j] = players[k] /\ k # i
        BY <2>8
      <4>2. players[k].owner = d /\ players[k].oid = n
        BY <3>1, <4>1
      <4>3. Owns(d, n)
        BY <1>1, <4>2 DEF Owners
      <4>4. players[k].oid # players[i].oid
        BY <1>1, <4>1, OidsDiffer
      <4>5. d # c
        BY <1>3, <2>1, <4>2, <4>3, <4>4 DEF Owns
      <4>6. d # Host => d \in Client
        BY DEF Some
      <4> QED BY <1>2, <1>4, <4>3, <4>5, <4>6 DEF Owns
    <3>2. ASSUME NEW d \in Client, Plays(d)'
          PROVE  \E j \in 1 .. Len(players') : players'[j].oid = meid'[d] /\ players'[j].owner = d
      <4>1. d # c /\ Plays(d)
        BY <1>4, <3>2
      <4>2. PICK k \in 1 .. Len(players) : players[k].oid = meid[d] /\ players[k].owner = d
        BY <1>1, <4>1 DEF Owners
      <4>3. k # i
        BY <2>1, <4>1, <4>2
      <4>4. PICK j \in 1 .. Len(players') : at[j] = k
        BY <2>7, <4>3
      <4>5. players'[j] = players[k]
        BY <2>7, <4>4
      <4> QED BY <1>2, <4>2, <4>5
    <3>3. \A d \in Client : ~LoggedIn(d)' => meid'[d] = 0
      BY <1>1, <1>2, <1>4 DEF Owners
    <3> QED BY <3>1, <3>2, <3>3 DEF Owners
  <2> QED BY <1>5, <2>9, <2>10
<1> QED BY <1>6, <1>7

\* Every step of the sessions.
LEMMA PlayersNext ==
  ASSUME MaxLogins <= 1
  PROVE  PlayersInv /\ [Next]_vars => PlayersInv'
<1> SUFFICES ASSUME PlayersInv, [Next]_vars PROVE PlayersInv'
  OBVIOUS
<1>1. Typed /\ LoginsCounted /\ LoginsOnce /\ Roster /\ Owners
  BY DEF PlayersInv, NamesInv
<1>2. NamesInv'
  BY NamesNext DEF PlayersInv
<1>3. ASSUME NEW c \in Client, Connect(c) PROVE (LoginsOnce /\ Roster /\ Owners)'
  <2>1. /\ st[c] = "none" /\ \A d \in Client : d # c => st'[d] = st[d]
        /\ players' = players /\ made' = made /\ meid' = meid /\ logins' = logins
    BY <1>1, <1>3 DEF Connect, Typed
  <2>2. ~LoggedIn(c)
    BY <1>1, <2>1 DEF LoginsCounted
  <2>3. \A d \in Client : Plays(d)' <=> Plays(d)
    BY <2>1, <2>2 DEF Plays, LoggedIn
  <2> QED BY <1>1, <2>1, <2>3, SamePlayers
<1>4. ASSUME NEW c \in Client, FirstUpdate(c) PROVE (LoginsOnce /\ Roster /\ Owners)'
  <2>1. /\ st[c] = "up" /\ \A d \in Client : d # c => st'[d] = st[d]
        /\ players' = players /\ made' = made /\ meid' = meid /\ logins' = logins
    BY <1>1, <1>4 DEF FirstUpdate, Typed
  <2>2. ~LoggedIn(c)
    BY <1>1, <2>1 DEF LoginsCounted
  <2>3. \A d \in Client : Plays(d)' <=> Plays(d)
    BY <2>1, <2>2 DEF Plays, LoggedIn
  <2> QED BY <1>1, <2>1, <2>3, SamePlayers
<1>5. ASSUME NEW c \in Client, RecvEnds(c) PROVE (LoginsOnce /\ Roster /\ Owners)'
  <2>1. /\ st[c] = "in" /\ st'[c] = "bye" /\ \A d \in Client : d # c => st'[d] = st[d]
        /\ players' = players /\ made' = made /\ meid' = meid /\ logins' = logins
    BY <1>1, <1>5 DEF RecvEnds, Typed
  <2>2. \A d \in Client : Plays(d)' <=> Plays(d)
    BY <2>1 DEF Plays, LoggedIn
  <2> QED BY <1>1, <2>1, <2>2, SamePlayers
<1>6. ASSUME WaitModified \/ UNCHANGED vars PROVE (LoginsOnce /\ Roster /\ Owners)'
  <2>1. /\ st' = st /\ players' = players /\ made' = made /\ meid' = meid /\ logins' = logins
    BY <1>6 DEF WaitModified, vars
  <2>2. \A d \in Client : Plays(d)' <=> Plays(d)
    BY <2>1 DEF Plays, LoggedIn
  <2> QED BY <1>1, <2>1, <2>2, SamePlayers
<1>7. (LoginsOnce /\ Roster /\ Owners)'
  BY <1>3, <1>4, <1>5, <1>6, LoginPlayers, ErasePlayers DEF Next
<1> QED BY <1>2, <1>7 DEF PlayersInv

\* PlayersInv holds in every state, if no client sends LOGIN twice.
THEOREM PlayersKept ==
  ASSUME MaxLogins <= 1
  PROVE  Spec => []PlayersInv
<1>1. PlayersInv /\ [Next]_vars => PlayersInv'
  BY PlayersNext
<1> QED BY <1>1, PlayersInit, PTL DEF Spec

\* A client that plays has one Player in the list and one that does not has none,
\* and the server keeps its own (Server.cpp:1084-1096, 1186-1195).
THEOREM OnePlayerForEach ==
  ASSUME MaxLogins <= 1
  PROVE  Spec => []OnePlayerEach
<1>1. PlayersInv => OnePlayerEach
  <2> SUFFICES ASSUME PlayersInv PROVE OnePlayerEach
    OBVIOUS
  <2>1. Roster /\ Owners
    BY DEF PlayersInv
  <2>2. ASSUME NEW c \in Some, NEW i \in PlayersOf(c) PROVE Cardinality(PlayersOf(c)) = 1
    <3>1. i \in 1 .. Len(players) /\ players[i].owner = c
      BY DEF PlayersOf
    <3>2. ASSUME NEW j \in PlayersOf(c) PROVE j = i
      <4>1. j \in 1 .. Len(players) /\ players[j].owner = c
        BY DEF PlayersOf
      <4>2. players[i].oid \in Nat /\ players[j].oid \in Nat
        BY <2>1, <3>1, <4>1, PlayerFields
      <4>3. Owns(c, players[i].oid) /\ Owns(c, players[j].oid)
        BY <2>1, <3>1, <4>1, <4>2 DEF Owners
      <4>4. players[i].oid = players[j].oid
        BY <4>3 DEF Owns
      <4> QED BY <2>1, <3>1, <4>1, <4>4, OidsDiffer
    <3>3. PlayersOf(c) = {i}
      BY <3>2
    <3> QED BY <3>3, FS_Singleton
  <2>3. Cardinality(PlayersOf(Host)) = 1
    <3>1. PICK i \in 1 .. Len(players) : players[i].owner = Host
      BY <2>1 DEF Roster
    <3>2. i \in PlayersOf(Host) /\ Host \in Some
      BY <3>1 DEF PlayersOf, Some
    <3> QED BY <2>2, <3>2
  <2>4. ASSUME NEW c \in Client
        PROVE  Cardinality(PlayersOf(c)) = IF st[c] \in {"in", "bye"} /\ LoggedIn(c) THEN 1 ELSE 0
    <3>1. c \in Some /\ c # Host
      BY SessionsAssumption DEF Some
    <3>2. CASE Plays(c)
      <4>1. PICK i \in 1 .. Len(players) : players[i].oid = meid[c] /\ players[i].owner = c
        BY <2>1, <3>2 DEF Owners
      <4>2. i \in PlayersOf(c)
        BY <4>1 DEF PlayersOf
      <4> QED BY <2>2, <3>1, <3>2, <4>2 DEF Plays
    <3>3. CASE ~Plays(c)
      <4>1. ASSUME NEW i \in PlayersOf(c) PROVE FALSE
        <5>1. i \in 1 .. Len(players) /\ players[i].owner = c
          BY DEF PlayersOf
        <5>2. players[i].oid \in Nat
          BY <2>1, <5>1, PlayerFields
        <5>3. Owns(c, players[i].oid)
          BY <2>1, <3>1, <5>1, <5>2 DEF Owners
        <5> QED BY <3>1, <3>3, <5>3 DEF Owns
      <4>2. PlayersOf(c) = {}
        BY <4>1
      <4>3. Cardinality(PlayersOf(c)) = 0
        BY <4>2, FS_EmptySet
      <4> QED BY <3>3, <4>3 DEF Plays
    <3> QED BY <3>2, <3>3
  <2> QED BY <2>3, <2>4 DEF OnePlayerEach
<1> QED BY <1>1, PlayersKept, PTL
-----------------------------------------------------------------------------
(* The three ways of naming a Player *)

Stay == \A c \in Client : st[c] \notin {"bye", "done"}

\* As long as all stay, a client's id is its place in the list, and only the last
\* of the list may still wait for its first update.
Places ==
  /\ Len(cl) >= 1 /\ cl[1] = Host
  /\ \A i, j \in 1 .. Len(cl) : cl[i] = cl[j] => i = j
  /\ \A i \in 1 .. Len(cl) : id[cl[i]] = i - 1
  /\ \A c \in Client, i \in 1 .. Len(cl) :
       cl[i] = c => Valid(c) /\ (st[c] = "up" => i = Len(cl))
  /\ \A c \in Client : Valid(c) => \E i \in 1 .. Len(cl) : cl[i] = c

\* ... and a Player's id is its place in its list.
Ranks ==
  /\ \A i \in 1 .. Len(players) : players[i].playerId = i - 1
  /\ \A c \in Client : known[c] \subseteq PlayerSet

\* As long as they also log in in the order they came, the two lists agree.
InOrder == \A i \in 1 .. Len(players) : i <= Len(cl) /\ players[i].owner = cl[i]

IdsInv == PlayersInv /\ (Stay => Places /\ Ranks) /\ (Orderly => InOrder)

\* Nobody is cleaned off the list as long as all stay.
LEMMA NobodyCleaned ==
  ASSUME Typed, Places
  PROVE  Connected = cl
<1>1. cl \in Seq(Some)
  BY DEF Typed
<1>2. ASSUME NEW i \in 1 .. Len(cl) PROVE cl[i] = Host \/ Valid(cl[i])
  <2>1. PICK d \in Some : d = cl[i]
    BY <1>1
  <2>2. d = Host \/ d \in Client
    BY DEF Some
  <2> QED BY <2>1, <2>2 DEF Places
<1> QED BY <1>1, <1>2, AllValid

\* The server alone.
LEMMA IdsInit == Init => IdsInv
<1> SUFFICES ASSUME Init PROVE IdsInv
  OBVIOUS
<1> DEFINE p == [oid |-> 1, playerId |-> 0, race |-> 0, owner |-> Host]
<1>1. /\ cl = <<Host>> /\ id = [c \in Some |-> 0] /\ st = [c \in Client |-> "none"]
      /\ players = <<p>> /\ known = [c \in Client |-> {}]
  BY DEF Init, Some
<1>2. p.playerId = 0 /\ p.owner = Host
  OBVIOUS
<1> HIDE DEF p
<1>3. Host \in Some /\ \A c \in Client : c # Host
  BY SessionsAssumption DEF Some
<1>4. Len(cl) = 1 /\ cl[1] = Host /\ Len(players) = 1 /\ players[1] = p
  BY <1>1
<1>5. Places
  BY <1>1, <1>3, <1>4 DEF Places, Valid
<1>6. Ranks /\ InOrder
  BY <1>1, <1>2, <1>4 DEF Ranks, InOrder
<1> QED BY <1>5, <1>6, PlayersInit DEF IdsInv

\* A new client is the last of the list, and gets the list's size for an id
\* (Server.cpp:426-482).
LEMMA ConnectPlaces ==
  ASSUME Typed, Places, NEW c \in Client, Connect(c)
  PROVE  /\ Places'
         /\ Len(cl) <= Len(cl') /\ \A i \in 1 .. Len(cl) : cl'[i] = cl[i]
<1>1. Connected = cl
  BY NobodyCleaned
<1>2. /\ st[c] = "none" /\ \A d \in Client : st[d] # "up"
      /\ \/ st' = [st EXCEPT ![c] = "refused"] /\ cl' = cl /\ id' = id
         \/ st' = [st EXCEPT ![c] = "up"] /\ cl' = Append(cl, c) /\ id' = [id EXCEPT ![c] = Len(cl)]
  BY <1>1 DEF Connect, Clean
<1>3. c \in Some /\ c # Host /\ cl \in Seq(Some) /\ Len(cl) \in Nat
  BY SessionsAssumption DEF Some, Typed
<1>4. \A i \in 1 .. Len(cl) : cl[i] # c
  BY <1>2 DEF Places, Valid
<1>5. \A d \in Client : d # c => (Valid(d)' <=> Valid(d)) /\ st'[d] = st[d]
  BY <1>2 DEF Typed, Valid
<1>6. CASE st' = [st EXCEPT ![c] = "refused"] /\ cl' = cl /\ id' = id
  <2>1. ~Valid(c)'
    BY <1>6 DEF Valid, Typed
  <2> QED BY <1>3, <1>4, <1>5, <1>6, <2>1 DEF Places
<1>7. CASE /\ st' = [st EXCEPT ![c] = "up"] /\ cl' = Append(cl, c)
           /\ id' = [id EXCEPT ![c] = Len(cl)]
  <2>1. Valid(c)' /\ st'[c] = "up"
    BY <1>7 DEF Valid, Typed
  <2>2. id'[c] = Len(cl) /\ \A d \in Some : d # c => id'[d] = id[d]
    BY <1>3, <1>7 DEF Typed
  <2>3. /\ Len(cl') = Len(cl) + 1 /\ cl'[Len(cl) + 1] = c
        /\ \A i \in 1 .. Len(cl) : cl'[i] = cl[i]
    BY <1>3, <1>7
  <2>4. \A i \in 1 .. Len(cl') : i \in 1 .. Len(cl) \/ i = Len(cl) + 1
    BY <1>3, <2>3
  <2>5. \A i \in 1 .. Len(cl) : i \in 1 .. Len(cl') /\ cl[i] \in Some
    BY <1>3, <2>3
  <2>6. Len(cl) + 1 \in 1 .. Len(cl')
    BY <1>3, <2>3
  <2>7. Len(cl') >= 1 /\ cl'[1] = Host
    BY <1>3, <2>3 DEF Places
  <2>8. \A i, j \in 1 .. Len(cl') : cl'[i] = cl'[j] => i = j
    BY <1>4, <2>3, <2>4 DEF Places
  <2>9. \A i \in 1 .. Len(cl') : id'[cl'[i]] = i - 1
    <3>1. \A i \in 1 .. Len(cl) : id'[cl'[i]] = i - 1
      BY <1>4, <2>2, <2>3, <2>5 DEF Places
    <3> QED BY <1>3, <2>2, <2>3, <2>4, <3>1
  <2>10. ASSUME NEW d \in Client, NEW i \in 1 .. Len(cl'), cl'[i] = d
         PROVE  Valid(d)' /\ (st'[d] = "up" => i = Len(cl'))
    <3>1. CASE i = Len(cl) + 1
      BY <2>1, <2>3, <2>10, <3>1
    <3>2. CASE i \in 1 .. Len(cl)
      <4>1. cl[i] = d /\ d # c
        BY <1>4, <2>3, <2>10, <3>2
      <4>2. Valid(d) /\ st[d] # "up"
        BY <1>2, <3>2, <4>1 DEF Places
      <4> QED BY <1>5, <4>1, <4>2
    <3> QED BY <2>4, <3>1, <3>2
  <2>11. ASSUME NEW d \in Client, Valid(d)' PROVE \E i \in 1 .. Len(cl') : cl'[i] = d
    <3>1. CASE d = c
      BY <2>3, <2>6, <3>1
    <3>2. CASE d # c
      <4>1. PICK i \in 1 .. Len(cl) : cl[i] = d
        BY <1>5, <2>11, <3>2 DEF Places
      <4> QED BY <2>3, <2>5, <4>1
    <3> QED BY <3>1, <3>2
  <2>12. Places'
    BY <2>7, <2>8, <2>9, <2>10, <2>11 DEF Places
  <2> QED BY <1>3, <2>3, <2>12
<1> QED BY <1>2, <1>6, <1>7

\* The first update of the last of the list.
LEMMA FirstUpdatePlaces ==
  ASSUME Typed, Places, NEW c \in Client, FirstUpdate(c)
  PROVE  Places'
<1>1. st[c] = "up" /\ st' = [st EXCEPT ![c] = "in"] /\ cl' = cl /\ id' = id
  BY DEF FirstUpdate
<1>2. /\ st'[c] = "in" /\ \A d \in Client : d # c => st'[d] = st[d]
      /\ \A d \in Client : Valid(d)' <=> Valid(d)
  BY <1>1 DEF Typed, Valid
<1> QED BY <1>1, <1>2 DEF Places

\* An update leaves no client with a Player that is not in the list.
LEMMA UpdateRanks ==
  ASSUME Ranks, NEW S, Update(S), players' = players
  PROVE  Ranks'
<1>1. PlayerSet' = PlayerSet
  BY DEF PlayerSet
<1>2. ASSUME NEW c \in Client PROVE known'[c] \subseteq PlayerSet
  BY DEF Update, Ranks
<1> QED BY <1>1, <1>2 DEF Ranks

\* LOGIN of one client, while all stay (Server.cpp:1090).
LEMMA LoginRanks ==
  ASSUME Typed, Roster, Ranks, NEW c \in Client, NEW base \in LoginName, Login(c, base)
  PROVE  Ranks'
<1>1. /\ players' \in Seq(Player) /\ Len(players') = Len(players) + 1
      /\ \A i \in 1 .. Len(players) : players'[i] = players[i]
      /\ players'[Len(players')].playerId = Len(players)
  BY LoginAdds
<1>2. Len(players) \in Nat
  BY DEF Roster
<1>3. \A i \in 1 .. Len(players') : players'[i].playerId = i - 1
  <2>1. \A i \in 1 .. Len(players') : i \in 1 .. Len(players) \/ i = Len(players')
    BY <1>1, <1>2
  <2>2. \A i \in 1 .. Len(players) : players'[i].playerId = i - 1
    BY <1>1 DEF Ranks
  <2>3. (Len(players) + 1) - 1 = Len(players)
    BY <1>2
  <2> QED BY <1>1, <2>1, <2>2, <2>3
<1>4. \A i \in 1 .. Len(players) : i \in 1 .. Len(players')
  BY <1>1, <1>2
<1>5. PlayerSet \subseteq PlayerSet'
  BY <1>1, <1>4 DEF PlayerSet
<1>6. known' = known
  BY DEF Login
<1> QED BY <1>3, <1>5, <1>6 DEF Ranks

\* Orderly also before the step.
LEMMA OrderlyBefore ==
  ASSUME MaxLogins <= 1, PlayersInv, Next, Orderly'
  PROVE  Orderly
<1>1. Typed /\ LoginsCounted /\ LoginsOnce /\ Roster /\ Owners
  BY DEF PlayersInv, NamesInv
<1>2. \A d \in Client : d \in Some
  BY DEF Some
<1>3. ASSUME NEW c \in Client, Connect(c) PROVE Orderly
  <2>1. /\ st[c] = "none" /\ meid' = meid /\ logins' = logins
        /\ \A d \in Client : d # c => st'[d] = st[d] /\ id'[d] = id[d]
    BY <1>1, <1>2, <1>3 DEF Connect, Typed
  <2>2. ~LoggedIn(c) /\ \A d \in Client : LoggedIn(d)' <=> LoggedIn(d)
    BY <1>1, <2>1 DEF LoginsCounted, LoggedIn
  <2> QED BY <2>1, <2>2 DEF Orderly
<1>4. ASSUME NEW c \in Client, FirstUpdate(c) PROVE Orderly
  <2>1. /\ st[c] = "up" /\ meid' = meid /\ logins' = logins /\ id' = id
        /\ \A d \in Client : d # c => st'[d] = st[d]
    BY <1>1, <1>4 DEF FirstUpdate, Typed
  <2>2. \A d \in Client : LoggedIn(d)' <=> LoggedIn(d)
    BY <2>1 DEF LoggedIn
  <2> QED BY <2>1, <2>2 DEF Orderly
<1>5. ASSUME NEW c \in Client, RecvEnds(c) \/ ErasePlayer(c) PROVE FALSE
  <2>1. st'[c] \in {"bye", "done"}
    BY <1>1, <1>5 DEF RecvEnds, ErasePlayer, Typed
  <2> QED BY <2>1 DEF Orderly
<1>6. ASSUME WaitModified PROVE Orderly
  BY <1>6 DEF WaitModified, Orderly, LoggedIn
<1>7. ASSUME NEW b \in Client, NEW base \in LoginName, Login(b, base) PROVE Orderly
  <2>1. /\ logins[b] < MaxLogins /\ st' = st /\ id' = id
        /\ logins' = [logins EXCEPT ![b] = @ + 1] /\ meid' = [meid EXCEPT ![b] = made + 1]
    BY <1>7 DEF Login
  <2>2. logins[b] = 0 /\ ~LoggedIn(b)
    BY <1>1, <2>1, SessionsAssumption DEF Typed, LoggedIn
  <2>3. /\ meid'[b] = made + 1 /\ \A d \in Some : d # b => meid'[d] = meid[d]
        /\ \A d \in Client : d # b => (LoggedIn(d)' <=> LoggedIn(d))
    BY <1>1, <1>2, <2>1 DEF Typed, LoggedIn
  <2>4. \A d \in Client : st[d] \notin {"bye", "done"}
    BY <2>1 DEF Orderly
  <2>5. ASSUME NEW c \in Client, NEW d \in Client, st[c] = "in", LoggedIn(d), id[c] < id[d]
        PROVE  LoggedIn(c) /\ meid[c] < meid[d]
    <3>1. d # b /\ LoggedIn(d)'
      BY <2>2, <2>3, <2>5
    <3>2. LoggedIn(c)' /\ meid'[c] < meid'[d]
      BY <2>1, <2>5, <3>1 DEF Orderly
    <3>3. Plays(d)
      BY <1>1, <2>4, <2>5 DEF Plays, LoginsCounted
    <3>4. PICK i \in 1 .. Len(players) : players[i].oid = meid[d]
      BY <1>1, <3>3 DEF Owners
    <3>5. players[i].oid <= made
      BY <1>1 DEF Roster
    <3>6. meid[d] \in Nat /\ made \in Nat /\ meid[d] <= made
      BY <1>1, <1>2, <3>4, <3>5 DEF Typed
    <3>7. c # b
      BY <1>2, <2>3, <3>1, <3>2, <3>6
    <3> QED BY <1>2, <2>3, <3>1, <3>2, <3>7
  <2> QED BY <2>4, <2>5 DEF Orderly
<1> QED BY <1>3, <1>4, <1>5, <1>6, <1>7 DEF Next

\* The client whose turn it is: those before it in the list have logged in, and
\* their Players are all there are.
LEMMA LoginInOrder ==
  ASSUME MaxLogins <= 1, PlayersInv, Places, InOrder, NEW c \in Client, NEW base \in LoginName,
         Login(c, base), Orderly'
  PROVE  InOrder'
<1>1. Typed /\ LoginsCounted /\ LoginsOnce /\ Roster /\ Owners
  BY DEF PlayersInv, NamesInv
<1>2. /\ players' \in Seq(Player) /\ Len(players') = Len(players) + 1
      /\ \A i \in 1 .. Len(players) : players'[i] = players[i]
      /\ players'[Len(players')].owner = c
  BY <1>1, LoginAdds
<1>3. /\ st[c] = "in" /\ logins[c] < MaxLogins /\ cl' = cl /\ id' = id /\ st' = st
      /\ logins' = [logins EXCEPT ![c] = @ + 1]
  BY DEF Login
<1>4. /\ ~LoggedIn(c) /\ LoggedIn(c)'
      /\ \A d \in Client : d # c => (LoggedIn(d)' <=> LoggedIn(d))
  BY <1>1, <1>3, SessionsAssumption DEF Typed, LoggedIn
<1>5. /\ Len(players) \in Nat /\ Len(cl) \in Nat /\ c \in Some /\ c # Host
      /\ cl \in Seq(Some)
  BY <1>1, SessionsAssumption DEF Roster, Typed, Some
<1> DEFINE n == Len(players)
<1>6. PICK k \in 1 .. Len(cl) : cl[k] = c
  BY <1>3 DEF Places, Valid
<1>7. \A d \in Client, i \in 1 .. n : players[i].owner = d => LoggedIn(d)
  <2> SUFFICES ASSUME NEW d \in Client, NEW i \in 1 .. n, players[i].owner = d PROVE LoggedIn(d)
    OBVIOUS
  <2>1. players[i].oid \in Nat /\ d \in Some /\ d # Host
    BY <1>1, PlayerFields, SessionsAssumption DEF Some
  <2>2. Owns(d, players[i].oid)
    BY <1>1, <2>1 DEF Owners
  <2> QED BY <2>1, <2>2 DEF Owns, Plays
<1>8. k > n
  <2> SUFFICES ASSUME ~(k > n) PROVE FALSE
    OBVIOUS
  <2>1. k \in 1 .. n
    BY <1>5
  <2>2. players[k].owner = c
    BY <1>6, <2>1 DEF InOrder
  <2> QED BY <1>4, <1>7, <2>1, <2>2
<1>9. k = n + 1
  <2> SUFFICES ASSUME k # n + 1 PROVE FALSE
    OBVIOUS
  <2>1. n + 1 \in 1 .. Len(cl) /\ n + 1 < k
    BY <1>5, <1>8
  <2>2. PICK e \in Some : e = cl[n + 1]
    BY <1>5, <2>1
  <2>3. e # Host
    <3>1. PICK i \in 1 .. n : players[i].owner = Host
      BY <1>1 DEF Roster
    <3>2. 1 \in 1 .. Len(cl) /\ cl[1] = Host /\ n + 1 # 1
      BY <1>5, <3>1 DEF Places
    <3> QED BY <2>1, <2>2, <3>2 DEF Places
  <2>4. e \in Client /\ e # c
    BY <1>6, <2>1, <2>2, <2>3 DEF Some, Places
  <2>5. Valid(e) /\ st[e] # "up"
    BY <1>5, <2>1, <2>2, <2>4 DEF Places
  <2>6. st[e] = "in"
    BY <2>5 DEF Valid
  <2>7. id[e] = n /\ id[c] = k - 1
    <3>1. id[cl[n + 1]] = (n + 1) - 1 /\ id[cl[k]] = k - 1
      BY <2>1 DEF Places
    <3> QED BY <1>5, <1>6, <2>2, <3>1
  <2>8. id[e] < id[c]
    BY <1>5, <2>1, <2>7
  <2>9. LoggedIn(e)'
    BY <1>3, <1>4, <2>4, <2>6, <2>8 DEF Orderly
  <2>10. Plays(e)
    BY <1>4, <2>4, <2>6, <2>9 DEF Plays
  <2>11. PICK i \in 1 .. n : players[i].owner = e
    BY <1>1, <2>4, <2>10 DEF Owners
  <2>12. i \in 1 .. Len(cl) /\ cl[i] = e
    BY <1>5, <2>11 DEF InOrder
  <2>13. i = n + 1
    BY <2>1, <2>2, <2>12 DEF Places
  <2> QED BY <1>5, <2>11, <2>13
<1>10. ASSUME NEW i \in 1 .. Len(players') PROVE i <= Len(cl) /\ players'[i].owner = cl[i]
  <2>1. CASE i = Len(players')
    BY <1>2, <1>6, <1>9, <2>1
  <2>2. CASE i \in 1 .. n
    BY <1>2, <2>2 DEF InOrder
  <2>3. i \in 1 .. n \/ i = Len(players')
    BY <1>2, <1>5
  <2> QED BY <2>1, <2>2, <2>3
<1> QED BY <1>3, <1>10 DEF InOrder

\* Every step of the sessions.
LEMMA IdsNext ==
  ASSUME MaxLogins <= 1
  PROVE  IdsInv /\ [Next]_vars => IdsInv'
<1> SUFFICES ASSUME IdsInv, [Next]_vars PROVE IdsInv'
  OBVIOUS
<1>1. PlayersInv /\ Typed /\ Roster
  BY DEF IdsInv, PlayersInv, NamesInv
<1>2. PlayersInv'
  BY <1>1, PlayersNext
<1>3. CASE UNCHANGED vars
  <2>1. (Stay' <=> Stay) /\ (Orderly' <=> Orderly)
    BY <1>3 DEF vars, Stay, Orderly, LoggedIn
  <2>2. (Places => Places') /\ (Ranks => Ranks') /\ (InOrder => InOrder')
    BY <1>3 DEF vars, Places, Valid, Ranks, PlayerSet, InOrder
  <2> QED BY <1>2, <2>1, <2>2 DEF IdsInv
<1>4. CASE Next
  <2>1. Stay' => Stay
    <3> SUFFICES ASSUME Stay' PROVE Stay
      OBVIOUS
    <3>1. ASSUME NEW c \in Client, Connect(c) PROVE Stay
      BY <1>1, <3>1 DEF Connect, Stay, Typed
    <3>2. ASSUME NEW c \in Client, FirstUpdate(c) PROVE Stay
      BY <1>1, <3>2 DEF FirstUpdate, Stay, Typed
    <3>3. ASSUME NEW c \in Client, RecvEnds(c) \/ ErasePlayer(c) PROVE FALSE
      BY <1>1, <3>3 DEF RecvEnds, ErasePlayer, Stay, Typed
    <3>4. ASSUME st' = st PROVE Stay
      BY <3>4 DEF Stay
    <3> QED BY <1>4, <3>1, <3>2, <3>3, <3>4 DEF Next, Login, WaitModified
  <2>2. Orderly' => Orderly /\ Stay'
    BY <1>1, <1>4, OrderlyBefore DEF Orderly, Stay
  <2>3. ASSUME Stay' PROVE Places' /\ Ranks'
    <3>1. Places /\ Ranks
      BY <2>1, <2>3 DEF IdsInv
    <3>2. ASSUME NEW c \in Client, Connect(c) PROVE Places' /\ Ranks'
      <4>1. Ranks'
        BY <3>1, <3>2 DEF Connect, Ranks, PlayerSet
      <4> QED BY <1>1, <3>1, <3>2, <4>1, ConnectPlaces
    <3>3. ASSUME NEW c \in Client, FirstUpdate(c) PROVE Places' /\ Ranks'
      <4>1. Ranks'
        BY <3>1, <3>3, UpdateRanks DEF FirstUpdate
      <4> QED BY <1>1, <3>1, <3>3, <4>1, FirstUpdatePlaces
    <3>4. ASSUME NEW c \in Client, RecvEnds(c) \/ ErasePlayer(c) PROVE FALSE
      BY <1>1, <2>3, <3>4 DEF RecvEnds, ErasePlayer, Stay, Typed
    <3>5. ASSUME cl' = cl, id' = id, st' = st PROVE Places'
      BY <3>1, <3>5 DEF Places, Valid
    <3>6. ASSUME NEW c \in Client, NEW base \in LoginName, Login(c, base) PROVE Places' /\ Ranks'
      BY <1>1, <3>1, <3>5, <3>6, LoginRanks DEF Login
    <3>7. ASSUME WaitModified PROVE Places' /\ Ranks'
      BY <3>1, <3>5, <3>7, UpdateRanks DEF WaitModified
    <3> QED BY <1>4, <3>2, <3>3, <3>4, <3>6, <3>7 DEF Next
  <2>4. ASSUME Orderly' PROVE InOrder'
    <3>1. Orderly /\ Stay'
      BY <2>2, <2>4
    <3>2. Places /\ InOrder
      BY <2>1, <3>1 DEF IdsInv
    <3>3. ASSUME NEW c \in Client, Connect(c) PROVE InOrder'
      <4>1. Len(cl) <= Len(cl') /\ \A i \in 1 .. Len(cl) : cl'[i] = cl[i]
        BY <1>1, <3>2, <3>3, ConnectPlaces
      <4>2. Len(cl) \in Nat /\ Len(cl') \in Nat
        BY <1>1, <1>2 DEF Typed, PlayersInv, NamesInv
      <4>3. players' = players
        BY <3>3 DEF Connect
      <4>4. ASSUME NEW i \in 1 .. Len(players) PROVE i <= Len(cl') /\ players[i].owner = cl'[i]
        <5>1. i \in 1 .. Len(cl) /\ players[i].owner = cl[i]
          BY <3>2, <4>2 DEF InOrder
        <5> QED BY <4>1, <4>2, <5>1
      <4> QED BY <4>3, <4>4 DEF InOrder
    <3>4. ASSUME players' = players, cl' = cl PROVE InOrder'
      BY <3>2, <3>4 DEF InOrder
    <3>5. ASSUME NEW c \in Client, RecvEnds(c) \/ ErasePlayer(c) PROVE FALSE
      BY <1>1, <3>1, <3>5 DEF RecvEnds, ErasePlayer, Stay, Typed
    <3>6. ASSUME NEW c \in Client, NEW base \in LoginName, Login(c, base) PROVE InOrder'
      BY <1>1, <2>4, <3>2, <3>6, LoginInOrder
    <3> QED BY <1>4, <3>3, <3>4, <3>5, <3>6 DEF Next, FirstUpdate, WaitModified
  <2> QED BY <1>2, <2>3, <2>4 DEF IdsInv
<1> QED BY <1>3, <1>4

\* IdsInv holds in every state, if no client sends LOGIN twice.
THEOREM IdsKept ==
  ASSUME MaxLogins <= 1
  PROVE  Spec => []IdsInv
<1>1. IdsInv /\ [Next]_vars => IdsInv'
  BY IdsNext
<1> QED BY <1>1, IdsInit, PTL DEF Spec

\* As long as clients log in in the order in which they came and none has left,
\* commands are judged by the Player of their client, and each client finds its
\* own (Server.cpp:1090, Entity.cpp:1427-1430, gltestplus.cpp:1412-1422).
THEOREM IdsAgree ==
  ASSUME MaxLogins <= 1
  PROVE  Spec => []IdsAgreeWhileAllStay
<1>1. IdsInv => IdsAgreeWhileAllStay
  <2> SUFFICES ASSUME IdsInv, Orderly PROVE PlayerIdsUnique /\ CommandsOfOwnPlayer /\ ClientFindsItsPlayer
    BY DEF IdsAgreeWhileAllStay
  <2>1. Stay
    BY DEF Orderly, Stay
  <2>2. Typed /\ Roster /\ Owners /\ Places /\ Ranks /\ InOrder
    BY <2>1 DEF IdsInv, PlayersInv, NamesInv
  <2>3. PlayerIdsUnique
    BY <2>2 DEF PlayerIdsUnique, Ranks
  <2>4. ASSUME NEW c \in Client, st[c] = "in", LoggedIn(c)
        PROVE  \E i \in 1 .. Len(players) :
                 players[i].owner = c /\ cl[i] = c /\ i \in 1 .. Len(cl) /\ id[c] = i - 1
    <3>1. PICK i \in 1 .. Len(players) : players[i].owner = c
      BY <2>2, <2>4 DEF Owners, Plays
    <3>2. i \in 1 .. Len(cl) /\ cl[i] = c
      BY <2>2, <3>1 DEF InOrder, Typed
    <3>3. id[c] = i - 1
      BY <2>2, <3>2 DEF Places
    <3> QED BY <3>1, <3>2, <3>3
  <2>5. CommandsOfOwnPlayer
    <3> SUFFICES ASSUME NEW c \in Client, st[c] = "in", LoggedIn(c)
                 PROVE  id[c] + 1 \in 1 .. Len(players) /\ CommandPlayer(c).owner = c
      BY DEF CommandsOfOwnPlayer
    <3>1. PICK i \in 1 .. Len(players) : players[i].owner = c /\ id[c] = i - 1
      BY <2>4
    <3>2. id[c] + 1 = i
      BY <3>1
    <3> QED BY <3>1, <3>2 DEF CommandPlayer
  <2>6. ClientFindsItsPlayer
    <3> SUFFICES ASSUME NEW c \in Client, st[c] = "in", LoggedIn(c), UpToDate(c)
                 PROVE  LET found == {p \in known[c] : p.playerId = thisad[c]}
                        IN  /\ found # {}
                            /\ \A p \in found :
                                 (\A q \in found : p.oid <= q.oid) => p.owner = c
      BY DEF ClientFindsItsPlayer
    <3>1. PICK i \in 1 .. Len(players) :
            players[i].owner = c /\ cl[i] = c /\ i \in 1 .. Len(cl) /\ id[c] = i - 1
      BY <2>4
    <3>2. Sent = cl
      BY <2>2, NobodyCleaned DEF Sent
    <3>3. Len(cl) \in Nat
      BY <2>2 DEF Typed
    <3>4. PlaceSent(c) = i - 1
      <4>1. i - 1 \in 0 .. Len(cl) - 1 /\ cl[(i - 1) + 1] = c
        BY <3>1, <3>3
      <4>2. \A j \in 0 .. Len(cl) - 1 : cl[j + 1] = c => j = i - 1
        <5>1. \A j \in 0 .. Len(cl) - 1 : j + 1 \in 1 .. Len(cl)
          BY <3>3
        <5> QED BY <2>2, <3>1, <5>1 DEF Places
      <4>3. PlaceSent(c) = CHOOSE j \in 0 .. Len(cl) - 1 : cl[j + 1] = c
        BY <3>2 DEF PlaceSent
      <4> QED BY <4>1, <4>2, <4>3
    <3>5. thisad[c] = i - 1 /\ known[c] = PlayerSet
      BY <2>2, <3>4 DEF UpToDate, Ranks
    <3>6. players[i] \in PlayerSet /\ players[i].playerId = i - 1
      BY <2>2 DEF PlayerSet, Ranks
    <3>7. \A p \in PlayerSet : p.playerId = i - 1 => p.owner = c
      <4> SUFFICES ASSUME NEW j \in 1 .. Len(players), players[j].playerId = i - 1
                   PROVE  players[j].owner = c
        BY DEF PlayerSet
      <4>1. j = i
        BY <2>2 DEF Ranks
      <4> QED BY <3>1, <4>1
    <3> QED BY <3>5, <3>6, <3>7
  <2> QED BY <2>3, <2>5, <2>6
<1> QED BY <1>1, IdsKept, PTL
=============================================================================
