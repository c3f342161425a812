--------------------------- MODULE ClientStreamProofs --------------------------
(***************************************************************************)
(* A client's frames are its server's, whole and in order, for any number  *)
(* of frames, in whatever pieces recv() brings their bytes, if none of     *)
(* them ends between CR and LF.  Invariant: the buffer and the wire hold   *)
(* the line that was not read yet and the frames that were not consumed    *)
(* (InStep); a greeting comes with the limit's frame (Greeted), whose size *)
(* has no byte of a line end; and while RecvThread is in its update, the   *)
(* update stays whole at the beginning of the buffer (Updating).           *)
(***************************************************************************)
EXTENDS ClientStream, BinDiffProofs

Byte == 0 .. 255
Buffer == {<<n>> : n \in 1 .. MaxFrames + 1}
Ends == {CR, LF}

\* The bytes of the frames behind the d-th.
Pending(frames, d) == FlattenSeq([i \in 1 .. Len(frames) - d |-> Bytes(frames[d + i])])

Histories == sent \in Seq(Frame) /\ got \in Seq(Frame) /\ applied \in Seq(Buffer)

Greeted ==
  /\ greeting = <<>> => wire = <<>> /\ lbuf = <<>> /\ sent = <<>> /\ mode = -1
  /\ greeting = Full => closed /\ sent = <<>>
  /\ greeting \in {Welcome, OtherVersion} => Len(sent) > 0 /\ sent[1] = Limit
  /\ mode = -1 => done = 0
  /\ pc \in {"frames", "update"} => mode = 0

Updating == pc = "update" => Whole(lbuf) /\ Parsed(lbuf).kind = U

Taken == wpc = "taken" => sbuf = IF recvbuf = <<>> THEN <<>> ELSE Head(recvbuf)

IInv == TypeOK /\ Histories /\ Greeted /\ InStep /\ Updating /\ AppliedInOrder /\ Taken

-----------------------------------------------------------------------------
(* Sequences *)

\* A sequence that begins in two ways: what one beginning is longer by.
LEMMA SplitAt ==
  ASSUME NEW S, NEW a \in Seq(S), NEW b \in Seq(S), NEW c \in Seq(S), NEW d \in Seq(S),
         Cat(a, b) = Cat(c, d), Len(c) <= Len(a)
  PROVE  \E e \in Seq(S) : a = Cat(c, e) /\ d = Cat(e, b)
<1>11. a \o b = c \o d
  BY DEF Cat
<1>1. Len(a) \in Nat /\ Len(c) \in Nat
  OBVIOUS
<1>2. ASSUME NEW i \in 1 .. Len(c) PROVE a[i] = c[i]
  <2>1. (a \o b)[i] = a[i]
    BY <1>1, ConcatProperties
  <2>2. (c \o d)[i] = c[i]
    BY <1>1, ConcatProperties
  <2> QED BY <1>11, <2>1, <2>2
<1>3. SubSeq(a, 1, Len(c)) \in Seq(S) /\ Len(SubSeq(a, 1, Len(c))) = Len(c)
      /\ \A i \in 1 .. Len(c) : SubSeq(a, 1, Len(c))[i] = a[i]
  <2>1. \A i \in 1 .. Len(c) : a[i] \in S
    BY <1>1
  <2> QED BY <1>1, <2>1, SubSeqProperties
<1>4. SubSeq(a, 1, Len(c)) = c
  BY <1>2, <1>3, SeqEqual
<1>5. PICK e : e = SubSeq(a, Len(c) + 1, Len(a))
  OBVIOUS
<1>6. e \in Seq(S)
  BY <1>1, <1>5, SubSeqProperties
<1>7. c \o e = a
  <2>1. 1 \in 1 .. Len(a) + 1 /\ Len(c) \in 1 - 1 .. Len(a) /\ Len(a) \in Len(c) .. Len(a)
    BY <1>1
  <2>2. SubSeq(a, 1, Len(c)) \o SubSeq(a, Len(c) + 1, Len(a)) = SubSeq(a, 1, Len(a))
    BY <2>1, ConcatAdjacentSubSeq
  <2> QED BY <1>4, <1>5, <2>2, SubSeqFull
<1>8. c \o (e \o b) = c \o d
  <2>1. Cat(Cat(c, e), b) = Cat(c, Cat(e, b))
    BY <1>6, CatCat
  <2>2. Cat(c, e) = a
    BY <1>7 DEF Cat
  <2>3. Cat(c, d) = Cat(c, Cat(e, b))
    BY <2>1, <2>2
  <2> QED BY <2>3 DEF Cat
<1>9. e \o b \in Seq(S)
  BY <1>6, ConcatProperties
<1>10. e \o b = d
  BY <1>8, <1>9, ConcatSimplifications
<1> QED BY <1>6, <1>7, <1>10 DEF Cat

\* The end of two joined sequences.
LEMMA CatEnd ==
  ASSUME NEW S, NEW c \in Seq(S), NEW e \in Seq(S), NEW a, a = c \o e
  PROVE  SubSeq(a, Len(c) + 1, Len(a)) = e
<1>1. Len(c) \in Nat /\ Len(e) \in Nat
  OBVIOUS
<1>2. a \in Seq(S) /\ Len(a) = Len(c) + Len(e)
      /\ \A i \in 1 .. Len(c) + Len(e) : a[i] = IF i <= Len(c) THEN c[i] ELSE e[i - Len(c)]
  BY ConcatProperties
<1>3. PICK x : x = SubSeq(a, Len(c) + 1, Len(a))
  OBVIOUS
<1>4. x \in Seq(S) /\ Len(x) = Len(e) /\ \A i \in 1 .. Len(e) : x[i] = a[Len(c) + i]
  <2>1. \A i \in Len(c) + 1 .. Len(a) : a[i] \in S
    BY <1>1, <1>2
  <2>2. /\ x \in Seq(S)
        /\ Len(x) = IF Len(c) + 1 <= Len(a) THEN Len(a) - (Len(c) + 1) + 1 ELSE 0
        /\ \A i \in 1 .. Len(a) - (Len(c) + 1) + 1 : x[i] = a[Len(c) + 1 + i - 1]
    BY <1>1, <1>2, <1>3, <2>1, SubSeqProperties
  <2>3. Len(x) = Len(e) /\ Len(a) - (Len(c) + 1) + 1 = Len(e)
    BY <1>1, <1>2, <2>2
  <2>4. \A i \in 1 .. Len(e) : Len(c) + 1 + i - 1 = Len(c) + i
    BY <1>1
  <2> QED BY <2>2, <2>3, <2>4
<1>5. ASSUME NEW i \in 1 .. Len(x) PROVE x[i] = e[i]
  <2>1. Len(c) + i \in 1 .. Len(c) + Len(e) /\ ~(Len(c) + i <= Len(c)) /\ Len(c) + i - Len(c) = i
    BY <1>1, <1>4
  <2> QED BY <1>2, <1>4, <2>1
<1> QED BY <1>3, <1>4, <1>5, SeqEqual

\* f is the recursion in FlattenSeq.
Flattens(f, q) ==
  \A i \in 1 .. Len(q) : f[i] = IF i = 1 THEN q[i] ELSE Cat(f[i - 1], q[i])

\* The recursion over the sequence is well founded.
LEMMA FlatDef ==
  ASSUME NEW q, Len(q) \in Nat \ {0}
  PROVE  \E f : Flattens(f, q) /\ FlattenSeq(q) = f[Len(q)]
<1> DEFINE body(g, i) == IF i = 1 THEN q[i] ELSE g[i - 1] \o q[i]
           Part(g, n) == \A i \in 1 .. n : g[i] = body(g, i)
           N == {n \in Nat : \E g : Part(g, n)}
<1>1. 0 \in N
  OBVIOUS
<1>2. ASSUME NEW n \in Nat, n \in N PROVE n + 1 \in N
  <2>1. PICK g : Part(g, n)
    BY <1>2
  <2> DEFINE h == [i \in 1 .. n + 1 |-> body(g, i)]
  <2>2. \A i \in 1 .. n : h[i] = g[i]
    BY <2>1
  <2>3. ASSUME NEW i \in 1 .. n + 1 PROVE h[i] = body(h, i)
    <3>1. h[i] = body(g, i)
      OBVIOUS
    <3>2. i # 1 => h[i - 1] = g[i - 1]
      <4>1. i # 1 => i - 1 \in 1 .. n
        OBVIOUS
      <4> HIDE DEF h
      <4> QED BY <2>2, <4>1
    <3> HIDE DEF h
    <3> QED BY <3>1, <3>2
  <2> HIDE DEF h, body
  <2>4. Part(h, n + 1) /\ n + 1 \in Nat
    BY <2>3
  <2> HIDE DEF Part
  <2> QED BY <2>4
<1> HIDE DEF N
<1>3. Len(q) \in N
  BY <1>1, <1>2, SetInduction
<1>4. PICK g : Part(g, Len(q))
  BY <1>3 DEF N
<1> DEFINE Is(f) == f = [i \in 1 .. Len(q) |-> body(f, i)]
<1>5. \E f : Is(f)
  <2> DEFINE h == [i \in 1 .. Len(q) |-> g[i]]
  <2>1. ASSUME NEW i \in 1 .. Len(q) PROVE body(h, i) = body(g, i)
    OBVIOUS
  <2>2. ASSUME NEW i \in 1 .. Len(q) PROVE g[i] = body(g, i)
    BY <1>4
  <2> HIDE DEF body
  <2>3. Is(h)
    BY <2>1, <2>2
  <2> QED BY <2>3
<1> DEFINE flatten == CHOOSE f : Is(f)
<1>6. Is(flatten)
  BY <1>5
<1>7. FlattenSeq(q) = flatten[Len(q)]
  BY DEF FlattenSeq
<1> HIDE DEF flatten
<1>8. Flattens(flatten, q)
  BY <1>6 DEF Flattens, Cat
<1> QED BY <1>7, <1>8

\* Nothing is flattened.
LEMMA FlatNone == FlattenSeq(<<>>) = <<>>
BY DEF FlattenSeq

\* One sequence.
LEMMA FlatOne ==
  ASSUME NEW X, NEW e \in Seq(X)
  PROVE  FlattenSeq(<<e>>) = e
<1>1. Len(<<e>>) = 1 /\ <<e>>[1] = e
  OBVIOUS
<1>2. PICK q : q = <<e>>
  OBVIOUS
<1>3. Len(q) = 1 /\ q[1] = e /\ Len(q) \in Nat \ {0}
  BY <1>1, <1>2
<1>4. PICK f : Flattens(f, q) /\ FlattenSeq(q) = f[Len(q)]
  BY <1>3, FlatDef
<1>5. f[1] = e
  BY <1>3, <1>4 DEF Flattens
<1> QED BY <1>2, <1>3, <1>4, <1>5

\* One sequence more is flattened.
LEMMA FlatMore ==
  ASSUME NEW X, NEW q \in Seq(Seq(X)), NEW e \in Seq(X)
  PROVE  FlattenSeq(Append(q, e)) = FlattenSeq(q) \o e
<1>1. CASE q = <<>>
  <2>1. Append(q, e) = <<e>> /\ FlattenSeq(q) = <<>>
    BY <1>1, FlatNone
  <2> QED BY <2>1, FlatOne, ConcatEmptySeq
<1>2. CASE q # <<>>
  <2> DEFINE len == Len(q)
             more == Append(q, e)
  <2>1. len \in Nat \ {0} /\ Len(more) = len + 1 /\ more[len + 1] = e /\ \A n \in 1 .. len : more[n] = q[n]
    BY <1>2
  <2> HIDE DEF more
  <2>2. PICK f : Flattens(f, q) /\ FlattenSeq(q) = f[Len(q)]
    BY <2>1, FlatDef
  <2>3. PICK g : Flattens(g, more) /\ FlattenSeq(more) = g[Len(more)]
    <3>1. Len(more) \in Nat \ {0}
      BY <2>1
    <3> QED BY <3>1, FlatDef
  <2>4. \A i \in 1 .. len : f[i] = IF i = 1 THEN q[i] ELSE Cat(f[i - 1], q[i])
    BY <2>2 DEF Flattens
  <2>5. \A i \in 1 .. len + 1 : g[i] = IF i = 1 THEN more[i] ELSE Cat(g[i - 1], more[i])
    BY <2>1, <2>3 DEF Flattens
  <2> DEFINE N == {n \in Nat : n + 1 <= len => g[n + 1] = f[n + 1]}
  <2>6. 0 \in N
    <3>1. 1 \in 1 .. len /\ 1 \in 1 .. len + 1 /\ 0 + 1 = 1
      BY <2>1
    <3> HIDE DEF len
    <3> QED BY <2>1, <2>4, <2>5, <3>1
  <2>7. ASSUME NEW n \in Nat, n \in N PROVE n + 1 \in N
    <3>1. SUFFICES ASSUME n + 1 + 1 <= len PROVE g[n + 1 + 1] = f[n + 1 + 1]
      OBVIOUS
    <3>2. PICK m \in Nat : m = n + 1
      OBVIOUS
    <3>3. g[m] = f[m]
      BY <2>1, <2>7, <3>1, <3>2
    <3>4. m + 1 \in 1 .. len /\ m + 1 \in 1 .. len + 1 /\ m + 1 # 1 /\ m + 1 - 1 = m
      BY <2>1, <3>1, <3>2
    <3> HIDE DEF len
    <3>5. f[m + 1] = Cat(f[m], q[m + 1])
      <4>1. f[m + 1] = IF m + 1 = 1 THEN q[m + 1] ELSE Cat(f[m + 1 - 1], q[m + 1])
        BY <2>4, <3>4
      <4> QED BY <3>4, <4>1
    <3>6. g[m + 1] = Cat(g[m], more[m + 1])
      <4>1. g[m + 1] = IF m + 1 = 1 THEN more[m + 1] ELSE Cat(g[m + 1 - 1], more[m + 1])
        BY <2>5, <3>4
      <4> QED BY <3>4, <4>1
    <3>7. more[m + 1] = q[m + 1]
      BY <2>1, <3>4
    <3> QED BY <3>2, <3>3, <3>5, <3>6, <3>7
  <2> HIDE DEF N
  <2>8. Nat \subseteq N
    BY <2>6, <2>7, SetInduction
  <2>9. g[len] = f[len]
    <3>1. len - 1 \in N /\ len - 1 \in Nat /\ len - 1 + 1 = len
      BY <2>1, <2>8
    <3> HIDE DEF len
    <3> QED BY <2>1, <3>1 DEF N
  <2>10. g[len + 1] = Cat(g[len], e)
    <3>1. PICK n \in Nat : n = len + 1
      BY <2>1
    <3>2. n \in 1 .. len + 1 /\ n # 1 /\ n - 1 = len
      BY <2>1, <3>1
    <3> HIDE DEF len
    <3>3. g[n] = IF n = 1 THEN more[n] ELSE Cat(g[n - 1], more[n])
      BY <2>5, <3>2
    <3> QED BY <2>1, <3>1, <3>2, <3>3
  <2>11. FlattenSeq(more) = Cat(FlattenSeq(q), e)
    BY <2>1, <2>2, <2>3, <2>9, <2>10
  <2> QED BY <2>11 DEF more, Cat
<1> QED BY <1>1, <1>2

\* What is flattened is a sequence.
LEMMA FlatType ==
  ASSUME NEW X, NEW q \in Seq(Seq(X))
  PROVE  FlattenSeq(q) \in Seq(X)
<1> DEFINE Y == {s \in Seq(Seq(X)) : FlattenSeq(s) \in Seq(X)}
<1>1. <<>> \in Y
  <2>1. <<>> \in Seq(Seq(X)) /\ <<>> \in Seq(X)
    OBVIOUS
  <2>2. FlattenSeq(<<>>) \in Seq(X)
    BY <2>1, FlatNone
  <2> QED BY <2>1, <2>2
<1>2. ASSUME NEW s \in Seq(Seq(X)), NEW e \in Seq(X), s \in Y PROVE Append(s, e) \in Y
  <2>1. FlattenSeq(s) \o e \in Seq(X)
    BY <1>2, ConcatProperties
  <2>2. Append(s, e) \in Seq(Seq(X))
    OBVIOUS
  <2> QED BY <2>1, <2>2, FlatMore
<1> HIDE DEF Y
<1>3. Seq(Seq(X)) \subseteq Y
  BY <1>1, <1>2, SeqInduction
<1> QED BY <1>3 DEF Y

\* The first of the sequences comes first.
LEMMA FlatFirst ==
  ASSUME NEW X, NEW e \in Seq(X), NEW q \in Seq(Seq(X))
  PROVE  FlattenSeq(<<e>> \o q) = e \o FlattenSeq(q)
<1> DEFINE Y == {s \in Seq(Seq(X)) : FlattenSeq(<<e>> \o s) = e \o FlattenSeq(s)}
<1>9. <<e>> \in Seq(Seq(X))
  OBVIOUS
<1>1. <<>> \in Y
  <2>1. <<e>> \o <<>> = <<e>> /\ e \o <<>> = e
    BY <1>9, ConcatEmptySeq
  <2>2. <<>> \in Seq(Seq(X))
    OBVIOUS
  <2> QED BY <2>1, <2>2, FlatNone, FlatOne
<1>2. ASSUME NEW s \in Seq(Seq(X)), NEW x \in Seq(X), s \in Y PROVE Append(s, x) \in Y
  <2>1. FlattenSeq(<<e>> \o s) = e \o FlattenSeq(s)
    BY <1>2
  <2>2. PICK t \in Seq(Seq(X)) : t = <<e>> \o s
    BY <1>9, ConcatProperties
  <2>3. <<e>> \o Append(s, x) = Append(t, x)
    <3>1. Append(s, x) = s \o <<x>> /\ Append(t, x) = t \o <<x>> /\ <<x>> \in Seq(Seq(X))
      BY AppendIsConcat
    <3>2. PICK a \in Seq(Seq(X)) : a = <<e>>
      BY <1>9
    <3>3. PICK c \in Seq(Seq(X)) : c = <<x>>
      BY <3>1
    <3>4. Cat(Cat(a, s), c) = Cat(a, Cat(s, c))
      BY CatCat
    <3> QED BY <2>2, <3>1, <3>2, <3>3, <3>4 DEF Cat
  <2>4. FlattenSeq(Append(t, x)) = FlattenSeq(t) \o x
    BY FlatMore
  <2>5. FlattenSeq(Append(s, x)) = FlattenSeq(s) \o x
    BY FlatMore
  <2>6. (e \o FlattenSeq(s)) \o x = e \o (FlattenSeq(s) \o x)
    <3>1. FlattenSeq(s) \in Seq(X)
      BY FlatType
    <3> QED BY <3>1, ConcatAssociative
  <2>7. Append(s, x) \in Seq(Seq(X))
    OBVIOUS
  <2>8. FlattenSeq(<<e>> \o Append(s, x)) = e \o FlattenSeq(Append(s, x))
    BY <2>1, <2>2, <2>3, <2>4, <2>5, <2>6
  <2> QED BY <2>7, <2>8
<1> HIDE DEF Y
<1>3. Seq(Seq(X)) \subseteq Y
  BY <1>1, <1>2, SeqInduction
<1> QED BY <1>3 DEF Y

-----------------------------------------------------------------------------
(* Frames *)

\* What the bytes of each kind of frame are (Server.cpp:266-271, 304-318, 500-507).
Shaped(f, b) ==
  \/ /\ f = Limit /\ Len(b) = 5
     /\ b[1] = 3 /\ b[2] = 0 /\ b[3] = L /\ b[4] = 2 /\ b[5] = 0
  \/ /\ f = [kind |-> U, buf |-> <<>>] /\ Len(b) = 4
     /\ b[1] = 2 /\ b[2] = 0 /\ b[3] = U /\ b[4] = 0
  \/ \E n \in 1 .. MaxFrames + 1, k \in {U, M} :
       /\ f = [kind |-> k, buf |-> <<n>>] /\ Len(b) = 5
       /\ b[1] = 3 /\ b[2] = 0 /\ b[3] = k /\ b[4] = 1 /\ b[5] = n

\* One byte and others.
LEMMA OneAndMore ==
  ASSUME NEW S, NEW x \in S, NEW q \in Seq(S), NEW r, r = <<x>> \o q
  PROVE  /\ r \in Seq(S) /\ Len(r) = Len(q) + 1 /\ r[1] = x
         /\ \A i \in 1 .. Len(q) : r[i + 1] = q[i]
<1>1. PICK t \in Seq(S) : t = <<x>>
  <2>1. <<x>> \in Seq(S)
    OBVIOUS
  <2> QED BY <2>1
<1>2. Len(t) = 1 /\ t[1] = x /\ Len(q) \in Nat
  BY <1>1
<1>3. /\ r \in Seq(S) /\ Len(r) = Len(t) + Len(q)
      /\ \A i \in 1 .. Len(t) + Len(q) : r[i] = IF i <= Len(t) THEN t[i] ELSE q[i - Len(t)]
  BY <1>1, ConcatProperties
<1>4. Len(t) + Len(q) = Len(q) + 1 /\ 1 \in 1 .. Len(q) + 1
  BY <1>2
<1>5. ASSUME NEW i \in 1 .. Len(q) PROVE r[i + 1] = q[i]
  <2>1. i + 1 \in 1 .. Len(t) + Len(q) /\ ~(i + 1 <= Len(t)) /\ i + 1 - Len(t) = i
    BY <1>2
  <2> QED BY <1>3, <2>1
<1> QED BY <1>2, <1>3, <1>4, <1>5

\* Two bytes and others.
LEMMA TwoAndMore ==
  ASSUME NEW S, NEW x \in S, NEW y \in S, NEW q \in Seq(S), NEW r, r = <<x, y>> \o q
  PROVE  /\ r \in Seq(S) /\ Len(r) = Len(q) + 2 /\ r[1] = x /\ r[2] = y
         /\ \A i \in 1 .. Len(q) : r[i + 2] = q[i]
<1>1. PICK t \in Seq(S) : t = <<x, y>>
  <2>1. <<x, y>> \in Seq(S)
    OBVIOUS
  <2> QED BY <2>1
<1>2. Len(t) = 2 /\ t[1] = x /\ t[2] = y /\ Len(q) \in Nat
  BY <1>1
<1>3. /\ r \in Seq(S) /\ Len(r) = Len(t) + Len(q)
      /\ \A i \in 1 .. Len(t) + Len(q) : r[i] = IF i <= Len(t) THEN t[i] ELSE q[i - Len(t)]
  BY <1>1, ConcatProperties
<1>4. Len(t) + Len(q) = Len(q) + 2 /\ 1 \in 1 .. Len(q) + 2 /\ 2 \in 1 .. Len(q) + 2
  BY <1>2
<1>5. ASSUME NEW i \in 1 .. Len(q) PROVE r[i + 2] = q[i]
  <2>1. i + 2 \in 1 .. Len(t) + Len(q) /\ ~(i + 2 <= Len(t)) /\ i + 2 - Len(t) = i
    BY <1>2
  <2> QED BY <1>3, <2>1
<1> QED BY <1>2, <1>3, <1>4, <1>5

\* The size of a frame is that of what follows it (Server.cpp:266-271).
LEMMA SizeAndBody ==
  ASSUME NEW f, NEW q \in Seq(Byte), q = Body(f), NEW n \in {2, 3}, Len(q) = n
  PROVE  /\ Bytes(f) \in Seq(Byte) /\ Len(Bytes(f)) = n + 2
         /\ Bytes(f)[1] = n /\ Bytes(f)[2] = 0
         /\ \A i \in 1 .. n : Bytes(f)[i + 2] = q[i]
<1>1. n % 256 = n /\ n \div 256 = 0 /\ n \in Byte /\ 0 \in Byte
  BY DEF Byte
<1>2. PICK r : r = Bytes(f)
  OBVIOUS
<1>3. r = <<n, 0>> \o q
  BY <1>1, <1>2 DEF Bytes
<1>4. /\ r \in Seq(Byte) /\ Len(r) = Len(q) + 2 /\ r[1] = n /\ r[2] = 0
      /\ \A i \in 1 .. Len(q) : r[i + 2] = q[i]
  BY <1>1, <1>3, TwoAndMore
<1> QED BY <1>2, <1>4

\* The bytes of a frame (Server.cpp:266-271, 304-318, 500-507).
LEMMA FrameShaped ==
  ASSUME NEW f \in Frame
  PROVE  Bytes(f) \in Seq(Byte) /\ Shaped(f, Bytes(f))
<1>1. L \in Byte /\ U \in Byte /\ M \in Byte /\ 0 \in Byte /\ 1 \in Byte /\ 2 \in Byte
  BY DEF L, U, M, Byte
<1>2. PICK b : b = Bytes(f)
  OBVIOUS
<1>3. PICK q : q = Body(f)
  OBVIOUS
<1>4. CASE f = Limit
  <2>1. PICK t \in Seq(Byte) : t = <<2, 0>>
    <3>1. <<2, 0>> \in Seq(Byte)
      BY <1>1
    <3> QED BY <3>1
  <2>2. Len(t) = 2 /\ t[1] = 2 /\ t[2] = 0
    BY <2>1
  <2>3. f.kind = L /\ f.buf = t
    BY <1>4, <2>1 DEF Limit
  <2>4. q = <<L>> \o t
    BY <1>3, <2>3 DEF Body
  <2>5. q \in Seq(Byte) /\ Len(q) = Len(t) + 1 /\ q[1] = L /\ \A i \in 1 .. Len(t) : q[i + 1] = t[i]
    BY <1>1, <2>4, OneAndMore
  <2>6. Len(q) = 3 /\ q[1] = L /\ q[1 + 1] = 2 /\ q[2 + 1] = 0
    BY <2>2, <2>5
  <2>7. b \in Seq(Byte) /\ Len(b) = 3 + 2 /\ b[1] = 3 /\ b[2] = 0 /\ \A i \in 1 .. 3 : b[i + 2] = q[i]
    BY <1>2, <1>3, <2>5, <2>6, SizeAndBody
  <2>8. b[1 + 2] = q[1] /\ b[2 + 2] = q[1 + 1] /\ b[3 + 2] = q[2 + 1]
    BY <2>7
  <2>9. Len(b) = 5 /\ b[3] = L /\ b[4] = 2 /\ b[5] = 0
    BY <2>6, <2>7, <2>8
  <2> QED BY <1>2, <1>4, <2>7, <2>9 DEF Shaped
<1>5. CASE f = [kind |-> U, buf |-> <<>>]
  <2>1. PICK t \in Seq(Byte) : t = <<>>
    <3>1. <<>> \in Seq(Byte)
      OBVIOUS
    <3> QED BY <3>1
  <2>2. Len(t) = 0
    BY <2>1
  <2>3. f.kind = U /\ f.kind # L /\ f.buf = t
    BY <1>5, <2>1 DEF L, U
  <2>4. q = <<U, 0>> \o t
    BY <1>3, <2>2, <2>3 DEF Body
  <2>5. q \in Seq(Byte) /\ Len(q) = 2 /\ q[1] = U /\ q[2] = 0
    BY <1>1, <2>2, <2>4, TwoAndMore
  <2>6. b \in Seq(Byte) /\ Len(b) = 2 + 2 /\ b[1] = 2 /\ b[2] = 0 /\ \A i \in 1 .. 2 : b[i + 2] = q[i]
    BY <1>2, <1>3, <2>5, SizeAndBody
  <2>7. b[1 + 2] = q[1] /\ b[2 + 2] = q[2]
    BY <2>6
  <2>8. Len(b) = 4 /\ b[3] = U /\ b[4] = 0
    BY <2>5, <2>6, <2>7
  <2> QED BY <1>2, <1>5, <2>6, <2>8 DEF Shaped
<1>6. ASSUME NEW n \in 1 .. MaxFrames + 1, NEW k \in {U, M}, f = [kind |-> k, buf |-> <<n>>]
      PROVE  b \in Seq(Byte) /\ Shaped(f, b)
  <2>1. n \in Byte /\ k \in Byte
    BY <1>1, StreamAssumption DEF Byte
  <2>2. PICK t \in Seq(Byte) : t = <<n>>
    <3>1. <<n>> \in Seq(Byte)
      BY <2>1
    <3> QED BY <3>1
  <2>3. Len(t) = 1 /\ t[1] = n
    BY <2>2
  <2>4. f.kind = k /\ f.kind # L /\ f.buf = t
    BY <1>6, <2>2 DEF L, U, M
  <2>5. q = <<k, 1>> \o t
    BY <1>3, <2>3, <2>4 DEF Body
  <2>6. q \in Seq(Byte) /\ Len(q) = Len(t) + 2 /\ q[1] = k /\ q[2] = 1
        /\ \A i \in 1 .. Len(t) : q[i + 2] = t[i]
    BY <1>1, <2>1, <2>5, TwoAndMore
  <2>7. Len(q) = 3 /\ q[1 + 2] = n
    BY <2>3, <2>6
  <2>8. b \in Seq(Byte) /\ Len(b) = 3 + 2 /\ b[1] = 3 /\ b[2] = 0 /\ \A i \in 1 .. 3 : b[i + 2] = q[i]
    BY <1>2, <1>3, <2>6, <2>7, SizeAndBody
  <2>9. b[1 + 2] = q[1] /\ b[2 + 2] = q[2] /\ b[3 + 2] = q[1 + 2]
    BY <2>8
  <2>10. Len(b) = 5 /\ b[3] = k /\ b[4] = 1 /\ b[5] = n
    BY <2>6, <2>7, <2>8, <2>9
  <2> QED BY <1>6, <2>8, <2>10 DEF Shaped
<1>7. CASE \E n \in 1 .. MaxFrames + 1 : f \in FrameNo(n)
  <2>1. PICK n \in 1 .. MaxFrames + 1 : f \in FrameNo(n)
    BY <1>7
  <2>2. CASE f = [kind |-> U, buf |-> <<n>>]
    BY <1>2, <1>6, <2>2
  <2>3. CASE f = [kind |-> M, buf |-> <<n>>]
    BY <1>2, <1>6, <2>3
  <2> QED BY <1>5, <2>1, <2>2, <2>3 DEF FrameNo
<1> QED BY <1>4, <1>7 DEF Frame

\* The bytes of a frame are bytes.
LEMMA FrameBytes ==
  ASSUME NEW f \in Frame
  PROVE  Bytes(f) \in Seq(Byte)
BY FrameShaped

\* The frames that were not consumed have bytes.
LEMMA PendingType ==
  ASSUME NEW frames \in Seq(Frame), NEW d \in 0 .. Len(frames)
  PROVE  /\ Pending(frames, d) \in Seq(Byte)
         /\ [i \in 1 .. Len(frames) - d |-> Bytes(frames[d + i])] \in Seq(Seq(Byte))
<1>1. Len(frames) \in Nat /\ Len(frames) - d \in Nat
  OBVIOUS
<1>2. ASSUME NEW i \in 1 .. Len(frames) - d PROVE Bytes(frames[d + i]) \in Seq(Byte)
  <2>1. d + i \in 1 .. Len(frames)
    BY <1>1
  <2>2. frames[d + i] \in Frame
    BY <2>1
  <2> QED BY <2>2, FrameBytes
<1>3. PICK q : q = [i \in 1 .. Len(frames) - d |-> Bytes(frames[d + i])]
  OBVIOUS
<1>4. q \in Seq(Seq(Byte))
  BY <1>1, <1>2, <1>3, IsASeq
<1> QED BY <1>3, <1>4, FlatType DEF Pending

\* When every frame was consumed nothing is left.
LEMMA PendingNone ==
  ASSUME NEW frames \in Seq(Frame)
  PROVE  Pending(frames, Len(frames)) = <<>>
<1>1. Len(frames) \in Nat
  OBVIOUS
<1>2. 1 .. Len(frames) - Len(frames) = {}
  BY <1>1
<1>3. PICK q : q = [i \in 1 .. Len(frames) - Len(frames) |-> Bytes(frames[Len(frames) + i])]
  OBVIOUS
<1>4. q = <<>>
  BY <1>2, <1>3
<1> QED BY <1>3, <1>4, FlatNone DEF Pending

\* A frame that is sent comes behind the others (Server.cpp:266-271).
LEMMA PendingMore ==
  ASSUME NEW frames \in Seq(Frame), NEW d \in 0 .. Len(frames), NEW f \in Frame
  PROVE  Pending(Append(frames, f), d) = Pending(frames, d) \o Bytes(f)
<1>1. PICK n \in Nat : n = Len(frames) - d
  OBVIOUS
<1>2. PICK more \in Seq(Frame) : more = Append(frames, f)
  BY AppendProperties
<1>3. Len(more) - d = n + 1 /\ more[d + n + 1] = f /\ d + n = Len(frames)
      /\ \A i \in 1 .. n : more[d + i] = frames[d + i]
  <2>1. Len(frames) \in Nat /\ d + n = Len(frames)
    BY <1>1
  <2>2. Len(more) = Len(frames) + 1 /\ more[Len(frames) + 1] = f
        /\ \A i \in 1 .. Len(frames) : more[i] = frames[i]
    BY <1>2, AppendProperties
  <2>3. Len(more) - d = n + 1 /\ d + n + 1 = Len(frames) + 1
    BY <2>1, <2>2
  <2>4. ASSUME NEW i \in 1 .. n PROVE more[d + i] = frames[d + i]
    <3>1. d + i \in 1 .. Len(frames)
      BY <2>1
    <3> QED BY <2>2, <3>1
  <2> QED BY <2>1, <2>2, <2>3, <2>4
<1>4. PICK q \in Seq(Seq(Byte)) : q = [i \in 1 .. n |-> Bytes(frames[d + i])]
  BY <1>1, PendingType
<1>5. PICK r \in Seq(Seq(Byte)) : r = [i \in 1 .. n + 1 |-> Bytes(more[d + i])]
  <2>1. d \in 0 .. Len(more) /\ Len(more) - d = n + 1
    BY <1>2, <1>3
  <2> QED BY <2>1, PendingType
<1>6. PICK a \in Seq(Seq(Byte)) : a = Append(q, Bytes(f))
  BY FrameBytes, AppendProperties
<1>7. r = a
  <2>1. Len(q) = n /\ Len(r) = n + 1 /\ Len(a) = n + 1 /\ a[n + 1] = Bytes(f)
    BY <1>4, <1>5, <1>6, FrameBytes
  <2>2. ASSUME NEW i \in 1 .. n PROVE r[i] = a[i]
    <3>1. a[i] = q[i]
      BY <1>6, <2>1, FrameBytes
    <3>2. q[i] = Bytes(frames[d + i]) /\ r[i] = Bytes(more[d + i])
      BY <1>4, <1>5
    <3> QED BY <1>3, <3>1, <3>2
  <2>3. r[n + 1] = a[n + 1]
    <3>1. n + 1 \in 1 .. n + 1 /\ d + (n + 1) = d + n + 1
      OBVIOUS
    <3>2. r[n + 1] = Bytes(more[d + (n + 1)])
      BY <1>5, <3>1
    <3> QED BY <1>3, <2>1, <3>1, <3>2
  <2>4. \A i \in 1 .. Len(r) : r[i] = a[i]
    BY <2>1, <2>2, <2>3
  <2> QED BY <2>1, <2>4, SeqEqual
<1>8. FlattenSeq(a) = FlattenSeq(q) \o Bytes(f)
  BY <1>6, FrameBytes, FlatMore
<1>9. Pending(more, d) = FlattenSeq(r)
  BY <1>3, <1>5 DEF Pending
<1>10. Pending(frames, d) = FlattenSeq(q)
  BY <1>1, <1>4 DEF Pending
<1> QED BY <1>2, <1>7, <1>8, <1>9, <1>10

\* The next frame is at the beginning.
LEMMA PendingFirst ==
  ASSUME NEW frames \in Seq(Frame), NEW d \in 0 .. Len(frames), d < Len(frames)
  PROVE  Pending(frames, d) = Bytes(frames[d + 1]) \o Pending(frames, d + 1)
<1>1. PICK n \in Nat : n = Len(frames) - d - 1
  <2>1. Len(frames) - d - 1 \in Nat
    OBVIOUS
  <2> QED BY <2>1
<1>2. d + 1 \in 0 .. Len(frames) /\ Len(frames) - (d + 1) = n /\ Len(frames) - d = n + 1
      /\ frames[d + 1] \in Frame
  BY <1>1
<1>3. PICK q \in Seq(Seq(Byte)) : q = [i \in 1 .. n |-> Bytes(frames[d + 1 + i])]
  BY <1>2, PendingType
<1>4. PICK r \in Seq(Seq(Byte)) : r = [i \in 1 .. n + 1 |-> Bytes(frames[d + i])]
  BY <1>2, PendingType
<1>5. PICK e \in Seq(Byte) : e = Bytes(frames[d + 1])
  BY <1>2, FrameBytes
<1>6. <<e>> \in Seq(Seq(Byte)) /\ Len(<<e>>) = 1 /\ <<e>>[1] = e
  OBVIOUS
<1>7. Len(q) = n /\ Len(r) = n + 1
  BY <1>3, <1>4
<1>8. PICK a \in Seq(Seq(Byte)) : a = <<e>> \o q
  BY <1>6, ConcatProperties
<1>9. Len(a) = n + 1 /\ \A i \in 1 .. n + 1 : a[i] = IF i <= 1 THEN <<e>>[i] ELSE q[i - 1]
  <2>1. Len(a) = Len(<<e>>) + Len(q)
        /\ \A i \in 1 .. Len(<<e>>) + Len(q) : a[i] = IF i <= Len(<<e>>) THEN <<e>>[i] ELSE q[i - Len(<<e>>)]
    BY <1>6, <1>8, ConcatProperties
  <2>2. 1 + n = n + 1
    OBVIOUS
  <2> QED BY <1>6, <1>7, <2>1, <2>2
<1>10. ASSUME NEW i \in 1 .. n + 1 PROVE r[i] = a[i]
  <2>1. r[i] = Bytes(frames[d + i])
    BY <1>4
  <2>2. CASE i = 1
    BY <1>5, <1>6, <1>9, <2>1, <2>2
  <2>3. CASE i # 1
    <3>1. i - 1 \in 1 .. n /\ d + 1 + (i - 1) = d + i /\ ~(i <= 1)
      BY <2>3
    <3>2. q[i - 1] = Bytes(frames[d + 1 + (i - 1)])
      BY <1>3, <3>1
    <3> QED BY <1>9, <2>1, <3>1, <3>2
  <2> QED BY <2>2, <2>3
<1>11. r = a
  BY <1>7, <1>9, <1>10, SeqEqual
<1>12. FlattenSeq(a) = e \o FlattenSeq(q)
  BY <1>8, FlatFirst
<1>13. Pending(frames, d) = FlattenSeq(r)
  BY <1>2, <1>4 DEF Pending
<1>14. Pending(frames, d + 1) = FlattenSeq(q)
  BY <1>2, <1>3 DEF Pending
<1> QED BY <1>5, <1>11, <1>12, <1>13, <1>14

\* One byte of a buffer.
LEMMA CutOne ==
  ASSUME NEW S, NEW s \in Seq(S), NEW i \in 1 .. Len(s)
  PROVE  SubSeq(s, i, i) = <<s[i]>>
<1>1. SubSeq(s, i, i) = <<s[i]>> \o SubSeq(s, i + 1, i)
  BY SubSeqRecursiveFirst
<1>2. SubSeq(s, i + 1, i) = <<>>
  BY SubSeqEmpty
<1>3. <<s[i]>> \in Seq(S)
  OBVIOUS
<1> QED BY <1>1, <1>2, <1>3, ConcatEmptySeq

\* Two bytes.
LEMMA CutTwo ==
  ASSUME NEW S, NEW s \in Seq(S), NEW i \in 1 .. Len(s), i + 1 \in 1 .. Len(s)
  PROVE  SubSeq(s, i, i + 1) = <<s[i], s[i + 1]>>
<1>1. PICK x : x = SubSeq(s, i, i + 1)
  OBVIOUS
<1>2. PICK t : t = <<s[i], s[i + 1]>>
  OBVIOUS
<1>3. /\ x \in Seq(S) /\ Len(x) = IF i <= i + 1 THEN i + 1 - i + 1 ELSE 0
      /\ \A j \in 1 .. i + 1 - i + 1 : x[j] = s[i + j - 1]
  <2>1. \A j \in i .. i + 1 : s[j] \in S
    OBVIOUS
  <2> QED BY <1>1, <2>1, SubSeqProperties
<1>4. Len(x) = 2 /\ i + 1 - i + 1 = 2 /\ i + 1 - 1 = i /\ i + 2 - 1 = i + 1
  BY <1>3
<1>5. x[1] = s[i] /\ x[2] = s[i + 1]
  BY <1>3, <1>4
<1>6. t \in Seq(S) /\ Len(t) = 2 /\ t[1] = s[i] /\ t[2] = s[i + 1]
  BY <1>2
<1>7. ASSUME NEW j \in 1 .. Len(x) PROVE x[j] = t[j]
  <2>1. j = 1 \/ j = 2
    BY <1>4
  <2> QED BY <1>5, <1>6, <2>1
<1> QED BY <1>1, <1>2, <1>3, <1>4, <1>6, <1>7, SeqEqual

\* A frame that is whole in the buffer is read as it was sent, and nothing else is
\* consumed (Client.cpp:105-183).
LEMMA FrameRead ==
  ASSUME NEW f \in Frame, NEW s \in Seq(Byte), NEW w \in Seq(Byte), NEW rest \in Seq(Byte),
         Cat(s, w) = Cat(Bytes(f), rest), Whole(s)
  PROVE  Parsed(s) = f /\ Consume(s) \in Seq(Byte) /\ Cat(Consume(s), w) = rest
<1>1. PICK b \in Seq(Byte) : b = Bytes(f)
  BY FrameBytes
<1>2. Shaped(f, b)
  BY <1>1, FrameShaped
<1>3. Len(b) \in {4, 5} /\ b[1] = Len(b) - 2 /\ b[2] = 0
  <2>1. \/ Len(b) = 5 /\ b[1] = 3 /\ b[2] = 0
        \/ Len(b) = 4 /\ b[1] = 2 /\ b[2] = 0
    BY <1>2, Zenon DEF Shaped
  <2>2. CASE Len(b) = 5 /\ b[1] = 3 /\ b[2] = 0
    BY <2>2
  <2>3. CASE Len(b) = 4 /\ b[1] = 2 /\ b[2] = 0
    BY <2>3
  <2> QED BY <2>1, <2>2, <2>3
<1>4. Len(s) \in Nat /\ 2 <= Len(s) /\ s[1] + 256 * s[2] + 2 <= Len(s)
  BY <1>1 DEF Whole, Word, FrameSize
<1>5. s[1] = b[1] /\ s[2] = b[2]
  <2>1. \A i \in 1 .. Len(s) + Len(w) : (s \o w)[i] = IF i <= Len(s) THEN s[i] ELSE w[i - Len(s)]
    BY ConcatProperties
  <2>2. \A i \in 1 .. Len(b) + Len(rest) : (b \o rest)[i] = IF i <= Len(b) THEN b[i] ELSE rest[i - Len(b)]
    BY ConcatProperties
  <2>3. PICK x : x = s \o w
    OBVIOUS
  <2>4. x = b \o rest
    BY <1>1, <2>3 DEF Cat
  <2>5. Len(w) \in Nat /\ Len(rest) \in Nat
    OBVIOUS
  <2>6. \A i \in {1, 2} : i \in 1 .. Len(s) + Len(w) /\ i <= Len(s) /\ i \in 1 .. Len(b) + Len(rest) /\ i <= Len(b)
    BY <1>3, <1>4, <2>5
  <2>7. \A i \in {1, 2} : x[i] = s[i]
    BY <2>1, <2>3, <2>6
  <2>8. \A i \in {1, 2} : x[i] = b[i]
    BY <2>2, <2>4, <2>6
  <2> QED BY <2>7, <2>8
<1>6. FrameSize(s) + Word = Len(b) /\ Len(b) <= Len(s) /\ FrameSize(s) + Word + 1 = Len(b) + 1
  BY <1>3, <1>4, <1>5 DEF FrameSize, Word
<1>7. PICK e \in Seq(Byte) : s = b \o e /\ rest = e \o w
  <2>1. Cat(s, w) = Cat(b, rest)
    BY <1>1
  <2>2. \E e \in Seq(Byte) : s = Cat(b, e) /\ rest = Cat(e, w)
    BY <1>6, <2>1, SplitAt
  <2> QED BY <2>2 DEF Cat
<1>8. Consume(s) = e
  <2>1. SubSeq(s, Len(b) + 1, Len(s)) = e
    BY <1>7, CatEnd
  <2> QED BY <1>6, <2>1 DEF Consume
<1>9. ASSUME NEW i \in 1 .. Len(b) PROVE s[i] = b[i]
  <2>1. \A j \in 1 .. Len(b) + Len(e) : s[j] = IF j <= Len(b) THEN b[j] ELSE e[j - Len(b)]
    BY <1>7, ConcatProperties
  <2>2. i \in 1 .. Len(b) + Len(e) /\ i <= Len(b)
    OBVIOUS
  <2> QED BY <2>1, <2>2
<1>10. Parsed(s) = f
  <2>1. CASE f = Limit /\ Len(b) = 5 /\ b[3] = L /\ b[4] = 2 /\ b[5] = 0
    <3>1. s[3] = L /\ s[4] = 2 /\ s[5] = 0
      BY <1>9, <2>1
    <3>2. SubSeq(s, 4, 5) = <<2, 0>>
      <4>1. 4 \in 1 .. Len(s) /\ 4 + 1 \in 1 .. Len(s) /\ 4 + 1 = 5
        BY <1>4, <1>6, <2>1
      <4> QED BY <3>1, <4>1, CutTwo
    <3> QED BY <2>1, <3>1, <3>2 DEF Parsed, Limit
  <2>2. CASE f = [kind |-> U, buf |-> <<>>] /\ Len(b) = 4 /\ b[3] = U /\ b[4] = 0
    <3>1. s[3] = U /\ s[4] = 0 /\ 4 + s[4] = 4
      BY <1>9, <2>2
    <3>2. SubSeq(s, 5, 4) = <<>>
      BY SubSeqEmpty
    <3>3. s[3] # L
      BY <3>1 DEF L, U
    <3> QED BY <2>2, <3>1, <3>2, <3>3 DEF Parsed
  <2>3. ASSUME NEW n \in 1 .. MaxFrames + 1, NEW k \in {U, M}, f = [kind |-> k, buf |-> <<n>>],
               Len(b) = 5, b[3] = k, b[4] = 1, b[5] = n
        PROVE  Parsed(s) = f
    <3>1. s[3] = k /\ s[4] = 1 /\ s[5] = n /\ 4 + s[4] = 5
      BY <1>9, <2>3
    <3>2. SubSeq(s, 5, 5) = <<n>>
      <4>1. 5 \in 1 .. Len(s)
        BY <1>4, <1>6, <2>3
      <4> QED BY <3>1, <4>1, CutOne
    <3>3. s[3] # L
      BY <3>1 DEF L, U, M
    <3> QED BY <2>3, <3>1, <3>2, <3>3 DEF Parsed
  <2> QED BY <1>2, <2>1, <2>2, <2>3 DEF Shaped
<1> QED BY <1>7, <1>8, <1>10 DEF Cat

\* What one frame more puts into the queue of the window loop (Client.cpp:120-150).
Piece(f) == IF f.kind = U /\ f.buf # <<>> THEN <<f.buf>> ELSE <<>>

\* What a frame puts into the queue.
LEMMA PieceType ==
  ASSUME NEW f \in Frame
  PROVE  Piece(f) \in Seq(Buffer) /\ (f.kind = U => f.buf = <<>> \/ f.buf \in Buffer)
<1>1. CASE f = Limit
  BY <1>1 DEF Piece, Limit, L, U
<1>2. CASE f = [kind |-> U, buf |-> <<>>]
  BY <1>2 DEF Piece
<1>3. ASSUME NEW n \in 1 .. MaxFrames + 1, NEW k \in {U, M}, f = [kind |-> k, buf |-> <<n>>]
      PROVE  Piece(f) \in Seq(Buffer) /\ f.buf \in Buffer
  <2>1. f.buf \in Buffer
    BY <1>3 DEF Buffer
  <2>2. <<f.buf>> \in Seq(Buffer) /\ <<>> \in Seq(Buffer)
    BY <2>1
  <2> QED BY <2>1, <2>2 DEF Piece
<1> QED BY <1>1, <1>2, <1>3 DEF Frame, FrameNo

\* No frame, no buffer.
LEMMA BuffersNone == Buffers(<<>>) = <<>>
<1>1. PICK q : q = [i \in 1 .. Len(<<>>) |-> Piece(<<>>[i])]
  OBVIOUS
<1>2. Len(<<>>) = 0 /\ 1 .. 0 = {}
  OBVIOUS
<1>3. q = <<>>
  BY <1>1, <1>2
<1> QED BY <1>1, <1>3, FlatNone DEF Buffers, Piece

\* A frame more adds its buffer.
LEMMA BuffersMore ==
  ASSUME NEW frames \in Seq(Frame), NEW f \in Frame
  PROVE  /\ Buffers(Append(frames, f)) = Buffers(frames) \o Piece(f)
         /\ Buffers(frames) \in Seq(Buffer)
<1>1. PICK n \in Nat : n = Len(frames)
  OBVIOUS
<1>2. PICK more \in Seq(Frame) : more = Append(frames, f)
  BY AppendProperties
<1>3. Len(more) = n + 1 /\ more[n + 1] = f /\ \A i \in 1 .. n : more[i] = frames[i]
  BY <1>1, <1>2
<1>4. PICK q \in Seq(Seq(Buffer)) : q = [i \in 1 .. n |-> Piece(frames[i])]
  <2>1. \A i \in 1 .. n : Piece(frames[i]) \in Seq(Buffer)
    BY <1>1, PieceType
  <2>2. [i \in 1 .. n |-> Piece(frames[i])] \in Seq(Seq(Buffer))
    BY <2>1, IsASeq
  <2> QED BY <2>2
<1>5. PICK a \in Seq(Seq(Buffer)) : a = Append(q, Piece(f))
  BY PieceType, AppendProperties
<1>6. PICK r \in Seq(Seq(Buffer)) : r = [i \in 1 .. n + 1 |-> Piece(more[i])]
  <2>1. \A i \in 1 .. n + 1 : Piece(more[i]) \in Seq(Buffer)
    BY <1>2, <1>3, PieceType
  <2>2. [i \in 1 .. n + 1 |-> Piece(more[i])] \in Seq(Seq(Buffer))
    BY <2>1, IsASeq
  <2> QED BY <2>2
<1>7. r = a
  <2>1. Len(q) = n /\ Len(r) = n + 1
    BY <1>4, <1>6
  <2>2. Len(a) = n + 1 /\ a[n + 1] = Piece(f) /\ \A i \in 1 .. n : a[i] = q[i]
    BY <1>5, <2>1, PieceType, AppendProperties
  <2>3. ASSUME NEW i \in 1 .. n PROVE r[i] = a[i]
    <3>1. r[i] = Piece(more[i]) /\ q[i] = Piece(frames[i])
      BY <1>4, <1>6
    <3> QED BY <1>3, <2>2, <3>1
  <2>4. r[n + 1] = a[n + 1]
    <3>1. n + 1 \in 1 .. n + 1
      OBVIOUS
    <3>2. r[n + 1] = Piece(more[n + 1])
      BY <1>6, <3>1
    <3> QED BY <1>3, <2>2, <3>2
  <2>5. \A i \in 1 .. Len(r) : r[i] = a[i]
    BY <2>1, <2>3, <2>4
  <2> QED BY <2>1, <2>2, <2>5, SeqEqual
<1>8. FlattenSeq(a) = FlattenSeq(q) \o Piece(f)
  BY <1>5, PieceType, FlatMore
<1>9. Buffers(more) = FlattenSeq(r)
  BY <1>3, <1>6 DEF Buffers, Piece
<1>10. Buffers(frames) = FlattenSeq(q)
  BY <1>1, <1>4 DEF Buffers, Piece
<1> QED BY <1>2, <1>7, <1>8, <1>9, <1>10, FlatType

-----------------------------------------------------------------------------
(* Lines *)

\* No line ends where each end of a line is behind a NUL (Client.cpp:54).
LEMMA LineEndNone ==
  ASSUME NEW s \in Seq(Byte), \A i \in 1 .. Len(s) : s[i] \in Ends => \E j \in 1 .. i : s[j] = NUL
  PROVE  LineEnd(s) = 0
<1>1. DOMAIN s = 1 .. Len(s)
  OBVIOUS
<1>2. {i \in DOMAIN s : s[i] \in {CR, LF} /\ \A j \in 1 .. i : s[j] # NUL} = {}
  BY <1>1 DEF Ends
<1> QED BY <1>2 DEF LineEnd

\* The first end of a line, if no NUL is before it (Client.cpp:54).
LEMMA LineEndAt ==
  ASSUME NEW s \in Seq(Byte), NEW i \in 1 .. Len(s), s[i] \in Ends,
         \A j \in 1 .. i : s[j] # NUL, \A j \in 1 .. i - 1 : s[j] \notin Ends
  PROVE  LineEnd(s) = i
<1>1. DOMAIN s = 1 .. Len(s)
  OBVIOUS
<1>2. PICK ends : ends = {k \in DOMAIN s : s[k] \in {CR, LF} /\ \A j \in 1 .. k : s[j] # NUL}
  OBVIOUS
<1>3. i \in ends
  BY <1>1, <1>2 DEF Ends
<1>4. ASSUME NEW k \in ends PROVE i <= k
  <2>1. k \in 1 .. Len(s) /\ s[k] \in Ends
    BY <1>1, <1>2, <1>4 DEF Ends
  <2> QED BY <2>1
<1>5. ends \subseteq Int
  BY <1>1, <1>2
<1>6. \A k \in ends : (\A j \in ends : k <= j) => k = i
  BY <1>3, <1>4, <1>5
<1>7. (CHOOSE k \in ends : \A j \in ends : k <= j) = i
  BY <1>3, <1>4, <1>6
<1>8. LineEnd(s) = IF ends = {} THEN 0 ELSE CHOOSE k \in ends : \A j \in ends : k <= j
  BY <1>2 DEF LineEnd
<1> QED BY <1>3, <1>7, <1>8

\* There is no end of a line, or strpbrk() finds one (Client.cpp:54).
LEMMA LineEndType ==
  ASSUME NEW s \in Seq(Byte)
  PROVE  LineEnd(s) = 0 \/ (LineEnd(s) \in 1 .. Len(s) /\ s[LineEnd(s)] \in Ends)
<1>1. DOMAIN s = 1 .. Len(s)
  OBVIOUS
<1>2. PICK ends : ends = {k \in DOMAIN s : s[k] \in {CR, LF} /\ \A j \in 1 .. k : s[j] # NUL}
  OBVIOUS
<1>3. LineEnd(s) = IF ends = {} THEN 0 ELSE CHOOSE k \in ends : \A j \in ends : k <= j
  BY <1>2 DEF LineEnd
<1>4. ends \in SUBSET Nat
  BY <1>1, <1>2
<1>5. CASE ends # {}
  <2>1. \E k \in ends : \A j \in ends : k <= j
    BY <1>4, <1>5, Least
  <2>2. LineEnd(s) \in ends
    BY <1>3, <1>5, <2>1
  <2> QED BY <1>1, <1>2, <2>2 DEF Ends
<1> QED BY <1>3, <1>5

\* The line ends from i to k are skipped when no other follows (Client.cpp:55-60).
LEMMA AfterLineAt ==
  ASSUME NEW s \in Seq(Byte), NEW i \in 1 .. Len(s), NEW k \in i .. Len(s),
         \A j \in i .. k : s[j] \in Ends, k = Len(s) \/ s[k + 1] \notin Ends
  PROVE  AfterLine(s, i) = SubSeq(s, k + 1, Len(s))
<1> DEFINE Is(n) == /\ \A j \in i .. n : s[j] \in {CR, LF}
                    /\ n = Len(s) \/ s[n + 1] \notin {CR, LF}
<1>1. Is(k)
  BY DEF Ends
<1>2. ASSUME NEW n \in i .. Len(s), Is(n) PROVE n = k
  <2>1. CASE n < k
    <3>1. n + 1 \in i .. k /\ n # Len(s)
      BY <2>1
    <3> QED BY <1>2, <3>1 DEF Ends
  <2>2. CASE n > k
    <3>1. k + 1 \in i .. n /\ k # Len(s)
      BY <2>2
    <3> QED BY <1>2, <3>1 DEF Ends
  <2> QED BY <2>1, <2>2
<1>3. AfterLine(s, i) = SubSeq(s, (CHOOSE n \in i .. Len(s) : Is(n)) + 1, Len(s))
  BY DEF AfterLine
<1> HIDE DEF Is
<1>4. (CHOOSE n \in i .. Len(s) : Is(n)) = k
  BY <1>1, <1>2
<1> QED BY <1>3, <1>4

\* What is left is shorter.
LEMMA AfterLineShorter ==
  ASSUME NEW s \in Seq(Byte), NEW i \in 1 .. Len(s), s[i] \in Ends
  PROVE  AfterLine(s, i) \in Seq(Byte) /\ Len(AfterLine(s, i)) < Len(s)
<1> DEFINE Stops == {k \in Nat : i <= k /\ k <= Len(s) /\ (k = Len(s) \/ s[k + 1] \notin Ends)}
<1>1. Len(s) \in Stops /\ Stops \in SUBSET Nat
  OBVIOUS
<1>2. PICK k \in Stops : \A j \in Stops : k <= j
  BY <1>1, Least
<1>3. k \in i .. Len(s) /\ (k = Len(s) \/ s[k + 1] \notin Ends)
  BY <1>2
<1>4. ASSUME NEW j \in i .. k PROVE s[j] \in Ends
  <2>1. CASE j = i
    BY <2>1
  <2>2. CASE j # i
    <3>1. PICK m \in Nat : m = j - 1
      <4>1. j - 1 \in Nat
        BY <1>3
      <4> QED BY <4>1
    <3>2. m + 1 = j /\ i <= m /\ m <= Len(s) /\ m < k
      BY <1>3, <2>2, <3>1
    <3>3. m \notin Stops
      BY <1>2, <3>2
    <3> QED BY <3>2, <3>3
  <2> QED BY <2>1, <2>2
<1> HIDE DEF Stops
<1>5. AfterLine(s, i) = SubSeq(s, k + 1, Len(s))
  BY <1>3, <1>4, AfterLineAt
<1>6. PICK t : t = SubSeq(s, k + 1, Len(s))
  OBVIOUS
<1>7. \A j \in k + 1 .. Len(s) : s[j] \in Byte
  BY <1>3
<1>8. t \in Seq(Byte) /\ Len(t) = IF k + 1 <= Len(s) THEN Len(s) - (k + 1) + 1 ELSE 0
  BY <1>3, <1>6, <1>7, SubSeqProperties
<1>9. Len(t) < Len(s)
  BY <1>3, <1>8
<1> QED BY <1>5, <1>6, <1>8, <1>9

\* A turn of the loop over the lines, given what the later turns make of the rest.
LineOf(s, more) ==
  LET i == LineEnd(s)
      verdict == Verdict(SubSeq(s, 1, i - 1))
  IN  CASE i = 0 -> [verdict |-> "none", left |-> s]
        [] i > 0 /\ verdict # "welcome" -> [verdict |-> verdict, left |-> s]
        [] OTHER -> [more EXCEPT !.verdict = IF @ = "none" THEN "welcome" ELSE @]

Rest(s) == AfterLine(s, LineEnd(s))

\* The last turn needs nothing of the rest, and a rest is shorter.
LEMMA LineOfRest ==
  ASSUME NEW s \in Seq(Byte), NEW a, NEW b, Rest(s) \in Seq(Byte) /\ Len(Rest(s)) < Len(s) => a = b
  PROVE  LineOf(s, a) = LineOf(s, b)
<1>1. CASE LineEnd(s) = 0
  BY <1>1 DEF LineOf
<1>2. CASE LineEnd(s) # 0
  <2>1. Rest(s) \in Seq(Byte) /\ Len(Rest(s)) < Len(s)
    BY <1>2, LineEndType, AfterLineShorter DEF Rest
  <2> QED BY <2>1
<1> QED BY <1>1, <1>2

\* The loop ends: its recursion is well founded (Client.cpp:53-95).
LEMMA LinesDef ==
  ASSUME NEW s \in Seq(Byte)
  PROVE  Lines[s] = LineOf(s, Lines[Rest(s)])
<1> DEFINE T(n) == {x \in Seq(Byte) : Len(x) <= n}
           Part(g, n) == \A x \in T(n) : g[x] = LineOf(x, g[Rest(x)])
           N == {n \in Nat : \E g : Part(g, n)}
           Same == {n \in Nat : \A g, h : Part(g, n) /\ Part(h, n) => \A x \in T(n) : g[x] = h[x]}
<1>1. 0 \in N
  <2> DEFINE g == [x \in Seq(Byte) |-> LineOf(x, 0)]
  <2>1. ASSUME NEW x \in T(0) PROVE g[x] = LineOf(x, g[Rest(x)])
    <3>1. ~(Rest(x) \in Seq(Byte) /\ Len(Rest(x)) < Len(x))
      BY <2>1
    <3>2. g[x] = LineOf(x, 0)
      OBVIOUS
    <3> HIDE DEF g
    <3> QED BY <3>1, <3>2, LineOfRest
  <2> HIDE DEF g
  <2>2. Part(g, 0)
    BY <2>1
  <2> HIDE DEF Part
  <2> QED BY <2>2
<1>2. ASSUME NEW n \in Nat, n \in N PROVE n + 1 \in N
  <2>1. PICK g : Part(g, n)
    BY <1>2
  <2> DEFINE h == [x \in Seq(Byte) |-> LineOf(x, g[Rest(x)])]
  <2>2. \A x \in Seq(Byte) : h[x] = LineOf(x, g[Rest(x)])
    OBVIOUS
  <2> HIDE DEF h
  <2>3. \A x \in T(n) : h[x] = g[x]
    BY <2>1, <2>2
  <2>4. ASSUME NEW x \in T(n + 1) PROVE h[x] = LineOf(x, h[Rest(x)])
    <3>1. x \in Seq(Byte) /\ Len(x) <= n + 1 /\ Len(x) \in Nat
      OBVIOUS
    <3>2. Rest(x) \in Seq(Byte) /\ Len(Rest(x)) < Len(x) => Rest(x) \in T(n)
      BY <3>1
    <3>3. Rest(x) \in Seq(Byte) /\ Len(Rest(x)) < Len(x) => g[Rest(x)] = h[Rest(x)]
      BY <2>3, <3>2
    <3>4. LineOf(x, g[Rest(x)]) = LineOf(x, h[Rest(x)])
      BY <3>1, <3>3, LineOfRest
    <3> QED BY <2>2, <3>1, <3>4
  <2>5. Part(h, n + 1) /\ n + 1 \in Nat
    BY <2>4
  <2> HIDE DEF Part
  <2> QED BY <2>5
<1>3. 0 \in Same
  <2>1. ASSUME NEW g, NEW h, Part(g, 0), Part(h, 0), NEW x \in T(0) PROVE g[x] = h[x]
    <3>1. ~(Rest(x) \in Seq(Byte) /\ Len(Rest(x)) < Len(x)) /\ x \in Seq(Byte)
      BY <2>1
    <3>2. LineOf(x, g[Rest(x)]) = LineOf(x, h[Rest(x)])
      BY <3>1, LineOfRest
    <3> QED BY <2>1, <3>2
  <2> HIDE DEF Part, T
  <2> QED BY <2>1
<1>4. ASSUME NEW n \in Nat, n \in Same PROVE n + 1 \in Same
  <2>1. ASSUME NEW g, NEW h, Part(g, n + 1), Part(h, n + 1), NEW x \in T(n + 1) PROVE g[x] = h[x]
    <3>1. T(n) \subseteq T(n + 1)
      OBVIOUS
    <3>2. Part(g, n) /\ Part(h, n)
      BY <2>1, <3>1
    <3>3. \A y \in T(n) : g[y] = h[y]
      BY <1>4, <3>2
    <3>4. Rest(x) \in Seq(Byte) /\ Len(Rest(x)) < Len(x) => Rest(x) \in T(n)
      OBVIOUS
    <3>5. LineOf(x, g[Rest(x)]) = LineOf(x, h[Rest(x)])
      BY <3>3, <3>4, LineOfRest
    <3> QED BY <2>1, <3>5
  <2> HIDE DEF Part, T
  <2> QED BY <2>1
<1>5. Nat \subseteq N
  <2> HIDE DEF N
  <2> QED BY <1>1, <1>2, SetInduction
<1>6. Nat \subseteq Same
  <2> HIDE DEF Same
  <2> QED BY <1>3, <1>4, SetInduction
<1> DEFINE G(n) == CHOOSE g : Part(g, n)
<1>7. ASSUME NEW n \in Nat PROVE Part(G(n), n)
  <2>1. \E g : Part(g, n)
    BY <1>5
  <2> HIDE DEF Part
  <2> QED BY <2>1
<1> HIDE DEF G
<1>8. ASSUME NEW n \in Nat, NEW m \in Nat, m <= n, NEW x \in T(m) PROVE G(n)[x] = G(m)[x]
  <2>1. T(m) \subseteq T(n)
    BY <1>8
  <2>2. Part(G(n), m) /\ Part(G(m), m)
    BY <1>7, <2>1
  <2>3. m \in Same
    BY <1>6
  <2> HIDE DEF Part, T
  <2> QED BY <1>8, <2>2, <2>3
<1> DEFINE lines == [x \in Seq(Byte) |-> G(Len(x))[x]]
<1>9. \A x \in Seq(Byte) : lines[x] = G(Len(x))[x]
  OBVIOUS
<1> HIDE DEF lines
<1>10. ASSUME NEW x \in Seq(Byte) PROVE lines[x] = LineOf(x, lines[Rest(x)])
  <2>1. Len(x) \in Nat /\ x \in T(Len(x))
    OBVIOUS
  <2>2. G(Len(x))[x] = LineOf(x, G(Len(x))[Rest(x)])
    BY <1>7, <2>1
  <2>3. Rest(x) \in Seq(Byte) /\ Len(Rest(x)) < Len(x) => G(Len(x))[Rest(x)] = lines[Rest(x)]
    <3>1. SUFFICES ASSUME Rest(x) \in Seq(Byte), Len(Rest(x)) < Len(x)
                   PROVE  G(Len(x))[Rest(x)] = lines[Rest(x)]
      OBVIOUS
    <3>2. Len(Rest(x)) \in Nat /\ Rest(x) \in T(Len(Rest(x))) /\ Len(Rest(x)) <= Len(x)
      BY <3>1
    <3>3. G(Len(x))[Rest(x)] = G(Len(Rest(x)))[Rest(x)]
      BY <1>8, <2>1, <3>2
    <3> QED BY <1>9, <3>1, <3>3
  <2>4. LineOf(x, G(Len(x))[Rest(x)]) = LineOf(x, lines[Rest(x)])
    BY <2>3, LineOfRest
  <2> QED BY <1>9, <2>2, <2>4
<1> DEFINE Is(f) == f = [x \in Seq(0 .. 255) |->
                           LET i == LineEnd(x)
                               verdict == Verdict(SubSeq(x, 1, i - 1))
                               more == f[AfterLine(x, i)]
                           IN  CASE i = 0 -> [verdict |-> "none", left |-> x]
                                 [] i > 0 /\ verdict # "welcome" -> [verdict |-> verdict, left |-> x]
                                 [] OTHER -> [more EXCEPT !.verdict = IF @ = "none" THEN "welcome" ELSE @]]
<1>11. \A f : Is(f) <=> f = [x \in Seq(Byte) |-> LineOf(x, f[Rest(x)])]
  BY DEF LineOf, Rest, Byte
<1>12. Lines = CHOOSE f : Is(f)
  BY DEF Lines
<1> HIDE DEF Is
<1>13. \E f : Is(f)
  <2>1. lines = [x \in Seq(Byte) |-> LineOf(x, lines[Rest(x)])]
    <3>1. lines = [x \in Seq(Byte) |-> lines[x]]
      BY DEF lines
    <3> QED BY <1>10, <3>1
  <2> QED BY <1>11, <2>1
<1>14. Is(Lines)
  BY <1>12, <1>13
<1>15. Lines = [x \in Seq(Byte) |-> LineOf(x, Lines[Rest(x)])]
  BY <1>11, <1>14
<1> QED BY <1>15

\* What begins with a line end nowhere is left in the buffer.
LEMMA LinesNone ==
  ASSUME NEW s \in Seq(Byte), LineEnd(s) = 0
  PROVE  Lines[s] = [verdict |-> "none", left |-> s]
<1>1. Lines[s] = LineOf(s, Lines[Rest(s)])
  BY LinesDef
<1> QED BY <1>1 DEF LineOf

\* What the client takes a line for (Client.cpp:61-90).
LEMMA Verdicts ==
  ASSUME NEW g \in {Welcome, OtherVersion, Full}
  PROVE  /\ g \in Seq(21 .. 24) /\ g \in Seq(Byte) /\ Len(g) \in {1, 2}
         /\ Verdict(g) = IF g = Welcome THEN "welcome" ELSE "refused"
<1>1. CASE g = Welcome
  <2>1. <<21, 22>> \in Seq(21 .. 24) /\ <<21, 22>> \in Seq(0 .. 255) /\ Len(<<21, 22>>) = 2
    OBVIOUS
  <2>2. g \in Seq(21 .. 24) /\ g \in Seq(Byte) /\ Len(g) = 2
    BY <1>1, <2>1 DEF Welcome, Byte
  <2>3. Verdict(g) = "welcome"
    <3>1. Welcome # OtherVersion /\ Welcome # Full
      BY DEF Welcome, OtherVersion, Full
    <3> QED BY <1>1, <3>1 DEF Verdict
  <2> QED BY <1>1, <2>2, <2>3
<1>2. CASE g = OtherVersion
  <2>1. <<21, 23>> \in Seq(21 .. 24) /\ <<21, 23>> \in Seq(0 .. 255) /\ Len(<<21, 23>>) = 2
    OBVIOUS
  <2>2. g \in Seq(21 .. 24) /\ g \in Seq(Byte) /\ Len(g) = 2
    BY <1>2, <2>1 DEF OtherVersion, Byte
  <2>3. g # Welcome
    BY <1>2 DEF OtherVersion, Welcome
  <2>4. Verdict(g) = "refused"
    BY <1>2, <2>3 DEF Verdict
  <2> QED BY <2>2, <2>3, <2>4
<1>3. CASE g = Full
  <2>1. <<24>> \in Seq(21 .. 24) /\ <<24>> \in Seq(0 .. 255) /\ Len(<<24>>) = 1
    OBVIOUS
  <2>2. g \in Seq(21 .. 24) /\ g \in Seq(Byte) /\ Len(g) = 1
    BY <1>3, <2>1 DEF Full, Byte
  <2>3. g # Welcome
    BY <1>3 DEF Full, Welcome
  <2>4. Verdict(g) = "refused"
    BY <1>3, <2>3 DEF Verdict
  <2> QED BY <2>2, <2>3, <2>4
<1> QED BY <1>1, <1>2, <1>3

\* The bytes behind a greeting are none, or begin with the size of the limit's frame.
Limits(t) == Len(t) > 0 => t[1] = 3 /\ (Len(t) > 1 => t[2] = 0)

\* No line ends in them, since the size has a NUL (Client.cpp:54).
LEMMA LimitsNoEnd ==
  ASSUME NEW t \in Seq(Byte), Limits(t)
  PROVE  LineEnd(t) = 0
<1>1. 3 \notin Ends
  BY StreamAssumption DEF Ends
<1>2. ASSUME NEW i \in 1 .. Len(t), t[i] \in Ends PROVE \E j \in 1 .. i : t[j] = NUL
  <2>1. Len(t) \in Nat /\ t[1] = 3
    BY DEF Limits
  <2>2. i # 1
    BY <1>1, <1>2, <2>1
  <2>3. 2 \in 1 .. i /\ Len(t) > 1 /\ Len(t) > 0
    BY <2>1, <2>2
  <2>4. t[2] = NUL
    BY <2>3 DEF Limits, NUL
  <2> QED BY <2>3, <2>4
<1> QED BY <1>2, LineEndNone

Eol == <<CR, LF>>

\* The bytes that end a line.
LEMMA EolBytes ==
  /\ Eol \in Seq(Byte) /\ Len(Eol) = 2 /\ Eol[1] = CR /\ Eol[2] = LF
  /\ CR # NUL /\ LF # NUL /\ CR \in Ends /\ LF \in Ends /\ 3 \notin Ends
  /\ \A b \in 21 .. 24 : b # NUL /\ b \notin Ends
<1>1. \A b \in {CR, LF} : b \in 1 .. 255 /\ b # 3 /\ b \notin 21 .. 24
  BY StreamAssumption
<1>2. CR \in Byte /\ LF \in Byte /\ CR # NUL /\ LF # NUL
  BY <1>1 DEF Byte, NUL
<1>3. Eol \in Seq(Byte) /\ Len(Eol) = 2 /\ Eol[1] = CR /\ Eol[2] = LF
  BY <1>2 DEF Eol
<1>4. CR \in Ends /\ LF \in Ends /\ 3 \notin Ends
  BY <1>1 DEF Ends
<1>5. ASSUME NEW b \in 21 .. 24 PROVE b # NUL /\ b \notin Ends
  BY <1>1 DEF Ends, NUL
<1> QED BY <1>2, <1>3, <1>4, <1>5

\* What two joined sequences have where.
Joined(S, a, b, r) ==
  /\ r \in Seq(S) /\ Len(r) = Len(a) + Len(b)
  /\ \A i \in 1 .. Len(a) : r[i] = a[i]
  /\ \A i \in 1 .. Len(b) : r[Len(a) + i] = b[i]

\* Joined sequences.
LEMMA CatJoined ==
  ASSUME NEW S, NEW a \in Seq(S), NEW b \in Seq(S)
  PROVE  Joined(S, a, b, Cat(a, b))
<1>1. PICK r : r = Cat(a, b)
  OBVIOUS
<1>2. /\ r \in Seq(S) /\ Len(r) = Len(a) + Len(b)
      /\ \A i \in 1 .. Len(a) + Len(b) : r[i] = IF i <= Len(a) THEN a[i] ELSE b[i - Len(a)]
  BY <1>1, ConcatProperties DEF Cat
<1>3. Len(a) \in Nat /\ Len(b) \in Nat
  OBVIOUS
<1>4. \A i \in 1 .. Len(a) : i \in 1 .. Len(a) + Len(b) /\ i <= Len(a)
  BY <1>3
<1>5. \A i \in 1 .. Len(b) :
        Len(a) + i \in 1 .. Len(a) + Len(b) /\ ~(Len(a) + i <= Len(a)) /\ Len(a) + i - Len(a) = i
  BY <1>3
<1>6. \A i \in 1 .. Len(a) : r[i] = a[i]
  BY <1>2, <1>4
<1>7. \A i \in 1 .. Len(b) : r[Len(a) + i] = b[i]
  BY <1>2, <1>5
<1> QED BY <1>1, <1>2, <1>6, <1>7 DEF Joined

\* A line, the two bytes of its end, and what follows.
Greets(g, h, t, s) ==
  /\ s \in Seq(Byte) /\ Len(s) = Len(g) + 2 + Len(t)
  /\ h \in Seq(Byte) /\ Len(h) = Len(g) + 2
  /\ \A i \in 1 .. Len(g) : s[i] = g[i]
  /\ s[Len(g) + 1] = CR /\ s[Len(g) + 2] = LF
  /\ (Len(t) > 0 => s[Len(g) + 3] = t[1])

\* Where their bytes are.
LEMMA GreetingAt ==
  ASSUME NEW g \in Seq(Byte), NEW t \in Seq(Byte)
  PROVE  Greets(g, Cat(g, Eol), t, Cat(Cat(g, Eol), t))
<1>1. PICK h : h = Cat(g, Eol)
  OBVIOUS
<1>2. PICK s : s = Cat(h, t)
  OBVIOUS
<1>3. Len(g) \in Nat /\ Len(t) \in Nat /\ Len(Eol) = 2
  BY EolBytes
<1>4. /\ h \in Seq(Byte) /\ Len(h) = Len(g) + Len(Eol)
      /\ \A i \in 1 .. Len(g) : h[i] = g[i]
      /\ \A i \in 1 .. Len(Eol) : h[Len(g) + i] = Eol[i]
  <2>1. Joined(Byte, g, Eol, h)
    BY <1>1, EolBytes, CatJoined
  <2> QED BY <2>1 DEF Joined
<1>5. /\ s \in Seq(Byte) /\ Len(s) = Len(h) + Len(t)
      /\ \A i \in 1 .. Len(h) : s[i] = h[i]
      /\ \A i \in 1 .. Len(t) : s[Len(h) + i] = t[i]
  <2>1. Joined(Byte, h, t, s)
    BY <1>2, <1>4, CatJoined
  <2> QED BY <2>1 DEF Joined
<1>6. Len(h) = Len(g) + 2 /\ Len(s) = Len(g) + 2 + Len(t)
  BY <1>3, <1>4, <1>5
<1>7. ASSUME NEW i \in 1 .. Len(g) PROVE s[i] = g[i]
  <2>1. i \in 1 .. Len(h)
    BY <1>3, <1>6
  <2> QED BY <1>4, <1>5, <2>1
<1>8. s[Len(g) + 1] = CR /\ s[Len(g) + 2] = LF
  <2>1. Len(g) + 1 \in 1 .. Len(h) /\ Len(g) + 2 \in 1 .. Len(h) /\ 1 \in 1 .. Len(Eol) /\ 2 \in 1 .. Len(Eol)
    BY <1>3, <1>6
  <2>2. s[Len(g) + 1] = h[Len(g) + 1] /\ s[Len(g) + 2] = h[Len(g) + 2]
    BY <1>5, <2>1
  <2>3. h[Len(g) + 1] = Eol[1] /\ h[Len(g) + 2] = Eol[2]
    BY <1>4, <2>1
  <2> QED BY <2>2, <2>3, EolBytes
<1>9. ASSUME Len(t) > 0 PROVE s[Len(g) + 3] = t[1]
  <2>1. 1 \in 1 .. Len(t) /\ Len(h) + 1 = Len(g) + 3
    BY <1>3, <1>6, <1>9
  <2> QED BY <1>5, <2>1
<1>10. Greets(g, h, t, s)
  BY <1>4, <1>5, <1>6, <1>7, <1>8, <1>9 DEF Greets
<1> QED BY <1>1, <1>2, <1>10

Turn(s, i, verdict, more) ==
  CASE i = 0 -> [verdict |-> "none", left |-> s]
    [] i > 0 /\ verdict # "welcome" -> [verdict |-> verdict, left |-> s]
    [] OTHER -> [more EXCEPT !.verdict = IF @ = "none" THEN "welcome" ELSE @]

\* A turn of the loop over the lines (Client.cpp:54-90).
LEMMA LineOfLine ==
  ASSUME NEW s, NEW n \in Nat, n # 0, LineEnd(s) = n, NEW g, SubSeq(s, 1, n - 1) = g
  PROVE  /\ Verdict(g) # "welcome" =>
              \A more : LineOf(s, more) = [verdict |-> Verdict(g), left |-> s]
         /\ Verdict(g) = "welcome" =>
              \A t : LineOf(s, [verdict |-> "none", left |-> t]) = [verdict |-> "welcome", left |-> t]
<1>1. \A more : LineOf(s, more) = Turn(s, LineEnd(s), Verdict(SubSeq(s, 1, LineEnd(s) - 1)), more)
  BY DEF LineOf, Turn
<1>2. \A more : LineOf(s, more) = Turn(s, n, Verdict(g), more)
  BY <1>1
<1>3. ASSUME NEW verdict, verdict # "welcome", NEW more
      PROVE  Turn(s, n, verdict, more) = [verdict |-> verdict, left |-> s]
  BY <1>3 DEF Turn
<1>4. ASSUME NEW t
      PROVE  Turn(s, n, "welcome", [verdict |-> "none", left |-> t]) = [verdict |-> "welcome", left |-> t]
  BY DEF Turn
<1> QED BY <1>2, <1>3, <1>4

\* The loop over the lines understands a greeting, and leaves what is behind it
\* alone (Client.cpp:53-95).
LEMMA LinesGreeting ==
  ASSUME NEW g \in {Welcome, OtherVersion, Full}, NEW t \in Seq(Byte), Limits(t),
         NEW s, s = Cat(Cat(g, Eol), t)
  PROVE  Lines[s] = IF g = Welcome THEN [verdict |-> "welcome", left |-> t]
                    ELSE [verdict |-> "refused", left |-> s]
<1>1. /\ g \in Seq(21 .. 24) /\ g \in Seq(Byte) /\ Len(g) \in Nat
      /\ Verdict(g) = IF g = Welcome THEN "welcome" ELSE "refused"
  BY Verdicts
<1>2. PICK n \in Nat : n = Len(g) + 1
  <2>1. Len(g) + 1 \in Nat
    BY <1>1
  <2> QED BY <2>1
<1>3. PICK h : h = Cat(g, Eol)
  OBVIOUS
<1>4. /\ s \in Seq(Byte) /\ Len(s) = n + 1 + Len(t) /\ Len(t) \in Nat
      /\ h \in Seq(Byte) /\ Len(h) = n + 1
      /\ \A i \in 1 .. n - 1 : s[i] = g[i]
      /\ s[n] = CR /\ s[n + 1] = LF
      /\ Len(t) > 0 => s[n + 1 + 1] = t[1]
  <2>1. Greets(g, h, t, s)
    BY <1>1, <1>3, GreetingAt
  <2>2. Len(g) = n - 1 /\ Len(g) + 2 = n + 1 /\ Len(g) + 3 = n + 1 + 1
    BY <1>1, <1>2
  <2> QED BY <1>2, <2>1, <2>2 DEF Greets
<1>5. \A i \in 1 .. n - 1 : g[i] \in 21 .. 24
  BY <1>1, <1>2
<1>6. LineEnd(s) = n
  <2>1. n \in 1 .. Len(s) /\ s[n] \in Ends
    BY <1>2, <1>4, EolBytes
  <2>2. ASSUME NEW i \in 1 .. n - 1 PROVE s[i] # NUL /\ s[i] \notin Ends
    BY <1>4, <1>5, EolBytes
  <2>3. s[n] # NUL
    BY <1>4, EolBytes
  <2>4. \A i \in 1 .. n : s[i] # NUL
    BY <2>2, <2>3
  <2> QED BY <1>4, <2>1, <2>2, <2>4, LineEndAt
<1>7. SubSeq(s, 1, n - 1) = g
  <2>1. PICK x : x = SubSeq(s, 1, n - 1)
    OBVIOUS
  <2>2. \A i \in 1 .. n - 1 : s[i] \in Byte
    BY <1>4
  <2>3. /\ x \in Seq(Byte) /\ Len(x) = IF 1 <= n - 1 THEN n - 1 - 1 + 1 ELSE 0
        /\ \A i \in 1 .. n - 1 - 1 + 1 : x[i] = s[1 + i - 1]
    BY <2>1, <2>2, SubSeqProperties
  <2>4. Len(x) = n - 1 /\ Len(g) = n - 1 /\ n - 1 - 1 + 1 = n - 1
    BY <1>1, <1>2, <2>3
  <2>5. ASSUME NEW i \in 1 .. n - 1 PROVE x[i] = g[i]
    <3>1. 1 + i - 1 = i
      OBVIOUS
    <3> QED BY <1>4, <2>3, <2>4, <3>1
  <2> QED BY <1>1, <2>1, <2>3, <2>4, <2>5, SeqEqual
<1>8. Lines[s] = LineOf(s, Lines[Rest(s)])
  BY <1>4, LinesDef
<1>9. CASE g # Welcome
  <2>1. Verdict(g) # "welcome" /\ Verdict(g) = "refused"
    BY <1>1, <1>9
  <2>2. LineOf(s, Lines[Rest(s)]) = [verdict |-> "refused", left |-> s]
    BY <1>2, <1>6, <1>7, <2>1, LineOfLine
  <2> QED BY <1>8, <1>9, <2>2
<1>10. CASE g = Welcome
  <2>1. AfterLine(s, n) = SubSeq(s, n + 1 + 1, Len(s))
    <3>1. n \in 1 .. Len(s) /\ n + 1 \in n .. Len(s)
      BY <1>2, <1>4
    <3>2. ASSUME NEW i \in n .. n + 1 PROVE s[i] \in Ends
      <4>1. i = n \/ i = n + 1
        OBVIOUS
      <4>2. s[n] \in Ends /\ s[n + 1] \in Ends
        BY <1>4, EolBytes
      <4> QED BY <4>1, <4>2
    <3>3. n + 1 = Len(s) \/ s[n + 1 + 1] \notin Ends
      <4>1. CASE Len(t) = 0
        BY <1>4, <4>1
      <4>2. CASE Len(t) # 0
        <5>1. s[n + 1 + 1] = 3
          BY <1>4, <4>2 DEF Limits
        <5> QED BY <5>1, EolBytes
      <4> QED BY <4>1, <4>2
    <3> QED BY <1>4, <3>1, <3>2, <3>3, AfterLineAt
  <2>2. SubSeq(s, Len(h) + 1, Len(s)) = t
    BY <1>3, <1>4, CatEnd DEF Cat
  <2>3. Rest(s) = t
    BY <1>4, <1>6, <2>1, <2>2 DEF Rest
  <2>4. Lines[t] = [verdict |-> "none", left |-> t]
    BY LimitsNoEnd, LinesNone
  <2>5. LineOf(s, [verdict |-> "none", left |-> t]) = [verdict |-> "welcome", left |-> t]
    <3>1. Verdict(g) = "welcome"
      BY <1>1, <1>10
    <3> QED BY <1>2, <1>6, <1>7, <3>1, LineOfLine
  <2> QED BY <1>8, <1>10, <2>3, <2>4, <2>5
<1> QED BY <1>9, <1>10

-----------------------------------------------------------------------------
(* The invariant *)

Line(m, g) == IF m = -1 /\ g # <<>> THEN Cat(g, Eol) ELSE <<>>

\* The place in the stream (InStep).
InPlace(l, w, m, g, frames, d) == Cat(l, w) = Cat(Line(m, g), Pending(frames, d))

Reads(p) == p \in {"recv", "frames", "update"}

\* InStep, by the names used here, of a state and of the next one.
LEMMA InStepIs ==
  /\ InStep <=> (Reads(pc) => InPlace(lbuf, wire, mode, greeting, sent, done))
  /\ InStep' <=> (Reads(pc)' => InPlace(lbuf', wire', mode', greeting', sent', done'))
BY DEF InStep, Reads, InPlace, Cat, Line, Pending, Eol

\* Nothing is in front, or the line.
LEMMA LineType ==
  ASSUME NEW m, NEW g \in {<<>>, Welcome, OtherVersion, Full}
  PROVE  Line(m, g) \in Seq(Byte) /\ (m # -1 => Line(m, g) = <<>>)
<1>1. CASE m = -1 /\ g # <<>>
  <2>1. g \in Seq(Byte)
    BY <1>1, Verdicts
  <2>2. Joined(Byte, g, Eol, Cat(g, Eol))
    BY <2>1, EolBytes, CatJoined
  <2> QED BY <1>1, <2>2 DEF Line, Joined
<1>2. CASE ~(m = -1 /\ g # <<>>)
  <2>1. <<>> \in Seq(Byte)
    OBVIOUS
  <2> QED BY <1>2, <2>1 DEF Line
<1> QED BY <1>1, <1>2

\* The first states: nothing was sent.
LEMMA StreamInit == Init => IInv
<1> SUFFICES ASSUME Init PROVE IInv
  OBVIOUS
<1>1. /\ wire = <<>> /\ greeting = <<>> /\ closed = FALSE
      /\ pc = "recv" /\ lbuf = <<>> /\ mode = -1
      /\ hGameMutex = "free" /\ recvbuf = <<>>
      /\ wpc = "idle" /\ timeouts = 0
      /\ sent = <<>> /\ done = 0 /\ got = <<>> /\ applied = <<>>
  BY DEF Init
<1>2. TypeOK /\ Histories
  <2>1. 0 \in 0 .. MaxTimeouts
    BY StreamAssumption
  <2>2. Len(sent) = 0 /\ 0 \in 0 .. 0
    BY <1>1
  <2>3. recvbuf \in Seq({<<n>> : n \in 1 .. MaxFrames + 1}) /\ timeouts \in 0 .. MaxTimeouts
        /\ done \in 0 .. Len(sent) /\ greeting \in {<<>>, Welcome, OtherVersion, Full}
    BY <1>1, <2>1, <2>2
  <2>4. wire \in Seq(0 .. 255) /\ lbuf \in Seq(0 .. 255)
    BY <1>1
  <2>5. TypeOK
    BY <1>1, <2>3, <2>4 DEF TypeOK
  <2>6. Histories
    BY <1>1 DEF Histories
  <2> QED BY <2>5, <2>6
<1>3. Greeted
  <2>1. <<>> # Full /\ <<>> # Welcome /\ <<>> # OtherVersion
    BY DEF Full, Welcome, OtherVersion
  <2> QED BY <1>1, <2>1 DEF Greeted
<1>4. InStep
  <2>1. <<>> \in Seq(Frame) /\ <<>> \in Seq(Byte) /\ Len(<<>>) = 0
    OBVIOUS
  <2>2. Pending(<<>>, 0) = <<>>
    BY <2>1, PendingNone
  <2>3. InPlace(<<>>, <<>>, -1, <<>>, <<>>, 0)
    BY <2>2 DEF InPlace, Line
  <2> QED BY <1>1, <2>3, InStepIs
<1>5. Updating /\ Taken
  BY <1>1 DEF Updating, Taken
<1>6. AppliedInOrder
  <2>1. <<>> \o <<>> = <<>>
    OBVIOUS
  <2> QED BY <1>1, <2>1, BuffersNone DEF AppliedInOrder
<1> QED BY <1>2, <1>3, <1>4, <1>5, <1>6 DEF IInv

\* The whole frame that RecvThread sees is the next one (Client.cpp:105).
LEMMA NextFrame ==
  ASSUME IInv, pc \in {"frames", "update"}, Whole(lbuf)
  PROVE  /\ done < Len(sent) /\ sent[done + 1] \in Frame /\ Parsed(lbuf) = sent[done + 1]
         /\ Consume(lbuf) \in Seq(Byte)
         /\ Cat(Consume(lbuf), wire) = Pending(sent, done + 1)
<1>1. /\ lbuf \in Seq(Byte) /\ wire \in Seq(Byte) /\ sent \in Seq(Frame) /\ done \in 0 .. Len(sent)
      /\ mode # -1
  BY DEF IInv, TypeOK, Histories, Greeted, Byte
<1>2. Cat(lbuf, wire) = Pending(sent, done)
  <2>1. InPlace(lbuf, wire, mode, greeting, sent, done)
    BY InStepIs DEF IInv, Reads
  <2>2. Line(mode, greeting) = <<>>
    BY <1>1 DEF Line
  <2>3. Cat(<<>>, Pending(sent, done)) = Pending(sent, done)
    BY <1>1, PendingType, CatNone
  <2> QED BY <2>1, <2>2, <2>3 DEF InPlace
<1>3. done < Len(sent)
  <2>1. SUFFICES ASSUME done = Len(sent) PROVE FALSE
    BY <1>1
  <2>2. Cat(lbuf, wire) = <<>>
    BY <1>1, <1>2, <2>1, PendingNone
  <2>3. lbuf = <<>>
    BY <1>1, <2>2, ConcatEqualIffEmpty DEF Cat
  <2>4. Len(lbuf) = 0
    BY <2>3
  <2> QED BY <2>4 DEF Whole, Word
<1>4. sent[done + 1] \in Frame /\ done + 1 \in 0 .. Len(sent)
  BY <1>1, <1>3
<1>5. PICK rest \in Seq(Byte) : rest = Pending(sent, done + 1)
  BY <1>1, <1>4, PendingType
<1>6. Cat(lbuf, wire) = Cat(Bytes(sent[done + 1]), rest)
  BY <1>1, <1>2, <1>3, <1>5, PendingFirst DEF Cat
<1>7. Parsed(lbuf) = sent[done + 1] /\ Consume(lbuf) \in Seq(Byte) /\ Cat(Consume(lbuf), wire) = rest
  <2>1. PICK f \in Frame : f = sent[done + 1]
    BY <1>4
  <2>2. Cat(lbuf, wire) = Cat(Bytes(f), rest)
    BY <1>6, <2>1
  <2>3. Parsed(lbuf) = f /\ Consume(lbuf) \in Seq(Byte) /\ Cat(Consume(lbuf), wire) = rest
    BY <1>1, <2>2, FrameRead
  <2> QED BY <2>1, <2>3
<1> QED BY <1>3, <1>4, <1>5, <1>7

-----------------------------------------------------------------------------
(* Steps that leave the stream where it is *)

\* The server closes (Server.cpp:529).
LEMMA CloseKeeps == IInv /\ CloseStream => IInv'
<1> SUFFICES ASSUME IInv, CloseStream PROVE IInv'
  OBVIOUS
<1>1. closed' = TRUE /\ UNCHANGED <<wire, greeting, sent, pc, lbuf, mode, hGameMutex, recvbuf, timeouts, done, got, wpc, sbuf, applied>>
  BY DEF CloseStream, window
<1>2. TypeOK' /\ Histories'
  BY <1>1 DEF IInv, TypeOK, Histories
<1>3. Greeted' /\ Updating' /\ Taken'
  BY <1>1 DEF IInv, Greeted, Updating, Taken
<1>4. InStep'
  BY <1>1, InStepIs DEF IInv
<1>5. AppliedInOrder'
  BY <1>1 DEF IInv, AppliedInOrder
<1> QED BY <1>2, <1>3, <1>4, <1>5 DEF IInv

\* RecvThread ends (Client.cpp:44), has seen the last whole frame, or gets the mutex
\* for an update (Client.cpp:105, 121).
LEMMA MovesOnKeeps == IInv /\ (RecvEnds \/ NoMoreFrames \/ LockUpdate) => IInv'
<1> SUFFICES ASSUME IInv, RecvEnds \/ NoMoreFrames \/ LockUpdate PROVE IInv'
  OBVIOUS
<1>1. UNCHANGED <<wire, lbuf, mode, recvbuf, timeouts, done, got, greeting, closed, sent, wpc, sbuf, applied>>
  BY DEF RecvEnds, NoMoreFrames, LockUpdate, server, window
<1>2. \/ pc = "recv" /\ pc' = "ended" /\ hGameMutex' = hGameMutex
      \/ pc = "frames" /\ pc' = "recv" /\ hGameMutex' = hGameMutex
      \/ /\ pc = "frames" /\ Whole(lbuf) /\ Parsed(lbuf).kind = U
         /\ pc' = "update" /\ hGameMutex = "free" /\ hGameMutex' = "recv"
  BY DEF RecvEnds, NoMoreFrames, LockUpdate
<1>3. TypeOK' /\ Histories'
  BY <1>1, <1>2 DEF IInv, TypeOK, Histories
<1>4. Greeted'
  BY <1>1, <1>2 DEF IInv, Greeted
<1>5. Updating' /\ Taken'
  BY <1>1, <1>2 DEF IInv, Updating, Taken
<1>6. InStep'
  <2>1. Reads(pc)
    BY <1>2 DEF Reads
  <2> QED BY <1>1, <2>1, InStepIs DEF IInv
<1>7. AppliedInOrder'
  BY <1>1 DEF IInv, AppliedInOrder
<1> QED BY <1>3, <1>4, <1>5, <1>6, <1>7 DEF IInv

\* The window loop reads the oldest buffer (gltestplus.cpp:1331).
LEMMA TakeKeeps == IInv /\ Take => IInv'
<1> SUFFICES ASSUME IInv, Take PROVE IInv'
  OBVIOUS
<1>1. /\ wpc = "idle" /\ hGameMutex = "free" /\ hGameMutex' = "window" /\ wpc' = "taken"
      /\ sbuf' = IF recvbuf = <<>> THEN <<>> ELSE Head(recvbuf)
      /\ UNCHANGED <<wire, lbuf, pc, mode, recvbuf, timeouts, done, got, applied, greeting, closed, sent>>
  BY DEF Take, server
<1>2. TypeOK' /\ Histories'
  BY <1>1 DEF IInv, TypeOK, Histories
<1>3. Greeted' /\ Updating' /\ Taken'
  BY <1>1 DEF IInv, Greeted, Updating, Taken
<1>4. InStep'
  BY <1>1, InStepIs DEF IInv
<1>5. AppliedInOrder'
  BY <1>1 DEF IInv, AppliedInOrder
<1> QED BY <1>2, <1>3, <1>4, <1>5 DEF IInv

\* It interprets that buffer and pops it (gltestplus.cpp:1344-1436).
LEMMA PopKeeps == IInv /\ Pop => IInv'
<1> SUFFICES ASSUME IInv, Pop PROVE IInv'
  OBVIOUS
<1>1. /\ wpc = "taken" /\ hGameMutex' = "free" /\ wpc' = "idle" /\ sbuf' = <<>>
      /\ applied' = IF sbuf = <<>> THEN applied ELSE Append(applied, sbuf)
      /\ recvbuf' = IF recvbuf = <<>> THEN recvbuf ELSE Tail(recvbuf)
      /\ UNCHANGED <<wire, lbuf, pc, mode, timeouts, done, got, greeting, closed, sent>>
  BY DEF Pop, server
<1>2. recvbuf \in Seq(Buffer) /\ applied \in Seq(Buffer) /\ hGameMutex = "window"
  BY <1>1 DEF IInv, TypeOK, Histories, Buffer
<1>3. recvbuf' \in Seq(Buffer) /\ applied' \in Seq(Buffer) /\ applied' \o recvbuf' = applied \o recvbuf
  <2>1. sbuf = IF recvbuf = <<>> THEN <<>> ELSE Head(recvbuf)
    BY <1>1 DEF IInv, Taken
  <2>2. CASE recvbuf = <<>>
    BY <1>1, <1>2, <2>1, <2>2
  <2>3. CASE recvbuf # <<>>
    <3>1. Head(recvbuf) \in Buffer /\ Tail(recvbuf) \in Seq(Buffer)
      BY <1>2, <2>3
    <3>2. Head(recvbuf) # <<>>
      <4>1. PICK n \in 1 .. MaxFrames + 1 : Head(recvbuf) = <<n>>
        BY <3>1, Zenon DEF Buffer
      <4>2. Len(<<n>>) = 1 /\ Len(<<>>) = 0
        OBVIOUS
      <4> QED BY <4>1, <4>2
    <3>3. applied' = Append(applied, Head(recvbuf)) /\ recvbuf' = Tail(recvbuf)
      BY <1>1, <2>1, <2>3, <3>2
    <3>4. Append(applied, Head(recvbuf)) \o Tail(recvbuf) = applied \o recvbuf
      <4>1. PICK h \in Buffer : h = Head(recvbuf)
        BY <3>1
      <4>2. PICK t \in Seq(Buffer) : t = Tail(recvbuf)
        BY <3>1
      <4>3. recvbuf = <<h>> \o t
        BY <1>2, <2>3, <4>1, <4>2
      <4>4. Append(applied, h) = applied \o <<h>>
        BY <1>2, AppendIsConcat
      <4>5. <<h>> \in Seq(Buffer)
        OBVIOUS
      <4>6. (applied \o <<h>>) \o t = applied \o (<<h>> \o t)
        BY <1>2, <4>5, ConcatAssociative
      <4> QED BY <4>1, <4>2, <4>3, <4>4, <4>6
    <3> QED BY <1>2, <3>1, <3>3, <3>4
  <2> QED BY <2>2, <2>3
<1>4. TypeOK' /\ Histories'
  BY <1>1, <1>2, <1>3 DEF IInv, TypeOK, Histories, Buffer
<1>5. Greeted' /\ Updating' /\ Taken'
  BY <1>1 DEF IInv, Greeted, Updating, Taken
<1>6. InStep'
  BY <1>1, InStepIs DEF IInv
<1>7. AppliedInOrder'
  BY <1>1, <1>3 DEF IInv, AppliedInOrder
<1> QED BY <1>4, <1>5, <1>6, <1>7 DEF IInv

-----------------------------------------------------------------------------
(* Steps that consume a frame *)

\* The next frame is moved to the front: everything but the histories of what was
\* interpreted (Client.cpp:183).
LEMMA Consumed ==
  ASSUME IInv, pc \in {"frames", "update"}, Whole(lbuf),
         lbuf' = Consume(lbuf), done' = done + 1, pc' = "frames",
         UNCHANGED <<wire, mode, greeting, closed, sent, wpc>>
  PROVE  /\ lbuf' \in Seq(Byte) /\ done' \in 0 .. Len(sent)
         /\ Greeted' /\ Updating' /\ InStep'
<1>1. /\ done < Len(sent) /\ Consume(lbuf) \in Seq(Byte)
      /\ Cat(Consume(lbuf), wire) = Pending(sent, done + 1)
  BY NextFrame
<1>2. /\ sent \in Seq(Frame) /\ done \in 0 .. Len(sent) /\ mode = 0 /\ greeting # <<>>
  <2>1. sent \in Seq(Frame) /\ done \in 0 .. Len(sent) /\ mode \in {-1, 0}
    BY DEF IInv, TypeOK, Histories
  <2>2. mode = 0
    BY DEF IInv, Greeted
  <2>3. greeting # <<>>
    BY <2>2 DEF IInv, Greeted
  <2> QED BY <2>1, <2>2, <2>3
<1>3. done' \in 0 .. Len(sent)
  BY <1>1, <1>2
<1>4. Greeted'
  BY <1>2 DEF IInv, Greeted
<1>5. Updating'
  BY DEF Updating
<1>6. InStep'
  <2>1. Pending(sent, done') \in Seq(Byte)
    BY <1>2, <1>3, PendingType
  <2>2. Line(mode, greeting) = <<>>
    BY <1>2 DEF Line
  <2>3. Cat(<<>>, Pending(sent, done')) = Pending(sent, done')
    BY <2>1, CatNone
  <2>4. InPlace(lbuf', wire, mode, greeting, sent, done')
    BY <1>1, <2>2, <2>3 DEF InPlace
  <2> QED BY <2>4, InStepIs
<1> QED BY <1>1, <1>3, <1>4, <1>5, <1>6

\* A frame that is interpreted adds its buffer to what the window loop will see.
LEMMA GotMore ==
  ASSUME NEW frames \in Seq(Frame), NEW f \in Frame, NEW a \in Seq(Buffer), NEW q \in Seq(Buffer),
         a \o q = Buffers(frames)
  PROVE  /\ Append(frames, f) \in Seq(Frame)
         /\ a \o (q \o Piece(f)) = Buffers(Append(frames, f))
<1>1. Append(frames, f) \in Seq(Frame)
  BY AppendProperties
<1>2. PICK p \in Seq(Buffer) : p = Piece(f)
  BY PieceType
<1>3. Cat(Cat(a, q), p) = Cat(a, Cat(q, p))
  BY CatCat
<1> QED BY <1>1, <1>2, <1>3, BuffersMore DEF Cat

\* Frames that need no mutex (Client.cpp:107-118, 166-181).
LEMMA InterpretKeeps == IInv /\ Interpret => IInv'
<1> SUFFICES ASSUME IInv, Interpret PROVE IInv'
  OBVIOUS
<1>1. /\ pc = "frames" /\ Whole(lbuf) /\ Parsed(lbuf).kind \in {L, M}
      /\ got' = Append(got, Parsed(lbuf)) /\ lbuf' = Consume(lbuf) /\ done' = done + 1
      /\ UNCHANGED <<wire, pc, mode, hGameMutex, recvbuf, timeouts, greeting, closed, sent, wpc, sbuf, applied>>
  BY DEF Interpret, server, window
<1>2. PICK f \in Frame : f = Parsed(lbuf)
  BY <1>1, NextFrame
<1>3. /\ lbuf' \in Seq(Byte) /\ done' \in 0 .. Len(sent) /\ Greeted' /\ Updating' /\ InStep'
  BY <1>1, Consumed
<1>4. recvbuf \in Seq(Buffer) /\ applied \in Seq(Buffer) /\ got \in Seq(Frame)
      /\ applied \o recvbuf = Buffers(got)
  BY DEF IInv, TypeOK, Histories, AppliedInOrder, Buffer
<1>5. got' \in Seq(Frame) /\ applied \o recvbuf = Buffers(got')
  <2>1. Piece(f) = <<>>
    BY <1>1, <1>2 DEF Piece, L, U, M
  <2>2. recvbuf \o <<>> = recvbuf
    BY <1>4
  <2>3. Append(got, f) \in Seq(Frame) /\ applied \o (recvbuf \o Piece(f)) = Buffers(Append(got, f))
    BY <1>4, GotMore
  <2> QED BY <1>1, <1>2, <2>1, <2>2, <2>3
<1>6. TypeOK' /\ Histories'
  BY <1>1, <1>3, <1>5 DEF IInv, TypeOK, Histories, Byte
<1>7. AppliedInOrder' /\ Taken'
  BY <1>1, <1>5 DEF IInv, AppliedInOrder, Taken
<1> QED BY <1>3, <1>6, <1>7 DEF IInv

\* An update is queued (Client.cpp:133-149).
LEMMA UpdateKeeps == IInv /\ Update => IInv'
<1> SUFFICES ASSUME IInv, Update PROVE IInv'
  OBVIOUS
<1>1. /\ pc = "update"
      /\ recvbuf' = IF Parsed(lbuf).buf = <<>> THEN recvbuf ELSE Append(recvbuf, Parsed(lbuf).buf)
      /\ got' = Append(got, Parsed(lbuf)) /\ lbuf' = Consume(lbuf) /\ done' = done + 1
      /\ hGameMutex' = "free" /\ pc' = "frames"
      /\ UNCHANGED <<wire, mode, timeouts, greeting, closed, sent, wpc, sbuf, applied>>
  BY DEF Update, server, window
<1>2. Whole(lbuf) /\ Parsed(lbuf).kind = U
  BY <1>1 DEF IInv, Updating
<1>3. PICK f \in Frame : f = Parsed(lbuf)
  BY <1>1, <1>2, NextFrame
<1>4. /\ lbuf' \in Seq(Byte) /\ done' \in 0 .. Len(sent) /\ Greeted' /\ Updating' /\ InStep'
  BY <1>1, <1>2, Consumed
<1>5. recvbuf \in Seq(Buffer) /\ applied \in Seq(Buffer) /\ got \in Seq(Frame)
      /\ applied \o recvbuf = Buffers(got) /\ wpc # "taken"
  BY <1>1 DEF IInv, TypeOK, Histories, AppliedInOrder, Buffer
<1>6. recvbuf' = recvbuf \o Piece(f) /\ recvbuf' \in Seq(Buffer)
  <2>1. CASE f.buf = <<>>
    <3>1. Piece(f) = <<>> /\ recvbuf' = recvbuf
      BY <1>1, <1>3, <2>1 DEF Piece
    <3> QED BY <1>5, <3>1
  <2>2. CASE f.buf # <<>>
    <3>1. PICK b \in Buffer : b = f.buf
      BY <1>2, <1>3, <2>2, PieceType
    <3>2. Piece(f) = <<b>> /\ recvbuf' = Append(recvbuf, b)
      BY <1>1, <1>2, <1>3, <2>2, <3>1 DEF Piece
    <3>3. Append(recvbuf, b) = recvbuf \o <<b>> /\ Append(recvbuf, b) \in Seq(Buffer)
      BY <1>5, AppendIsConcat, AppendProperties
    <3> QED BY <3>2, <3>3
  <2> QED BY <2>1, <2>2
<1>7. got' \in Seq(Frame) /\ applied \o recvbuf' = Buffers(got')
  <2>1. Append(got, f) \in Seq(Frame) /\ applied \o (recvbuf \o Piece(f)) = Buffers(Append(got, f))
    BY <1>5, GotMore
  <2> QED BY <1>1, <1>3, <1>6, <2>1
<1>8. TypeOK' /\ Histories'
  BY <1>1, <1>4, <1>5, <1>6, <1>7 DEF IInv, TypeOK, Histories, Byte, Buffer
<1>9. AppliedInOrder' /\ Taken'
  BY <1>1, <1>5, <1>7 DEF AppliedInOrder, Taken
<1> QED BY <1>4, <1>8, <1>9 DEF IInv

\* An update is given up after ten seconds (Client.cpp:156-161).
LEMMA GivingUpKeeps == IInv /\ GiveUp => IInv'
<1> SUFFICES ASSUME IInv, GiveUp PROVE IInv'
  OBVIOUS
<1>1. /\ pc = "frames" /\ Whole(lbuf) /\ timeouts < MaxTimeouts
      /\ timeouts' = timeouts + 1 /\ lbuf' = Consume(lbuf) /\ done' = done + 1
      /\ UNCHANGED <<wire, pc, mode, hGameMutex, recvbuf, got, greeting, closed, sent, wpc, sbuf, applied>>
  BY DEF GiveUp, server, window
<1>2. /\ lbuf' \in Seq(Byte) /\ done' \in 0 .. Len(sent) /\ Greeted' /\ Updating' /\ InStep'
  BY <1>1, Consumed
<1>3. timeouts' \in 0 .. MaxTimeouts
  BY <1>1, StreamAssumption DEF IInv, TypeOK
<1>4. TypeOK' /\ Histories'
  BY <1>1, <1>2, <1>3 DEF IInv, TypeOK, Histories, Byte
<1>5. AppliedInOrder' /\ Taken'
  BY <1>1 DEF IInv, AppliedInOrder, Taken
<1> QED BY <1>2, <1>4, <1>5 DEF IInv

-----------------------------------------------------------------------------
(* The server's steps *)

\* The greeting, and the limit's frame with it (Server.cpp:187-214).
LEMMA GreetKeeps ==
  ASSUME IInv, NEW line \in {Welcome, OtherVersion, Full}, Greet(line)
  PROVE  IInv'
<1>1. /\ greeting = <<>> /\ greeting' = line
      /\ wire' = wire \o line \o <<CR, LF>> \o (IF line = Full THEN <<>> ELSE Bytes(Limit))
      /\ sent' = (IF line = Full THEN sent ELSE Append(sent, Limit))
      /\ closed' = (line = Full)
      /\ UNCHANGED <<pc, lbuf, mode, hGameMutex, recvbuf, timeouts, done, got, wpc, sbuf, applied>>
  BY DEF Greet, window
<1>2. wire = <<>> /\ lbuf = <<>> /\ sent = <<>> /\ mode = -1 /\ done = 0
  BY <1>1 DEF IInv, Greeted
<1>3. line \in Seq(Byte) /\ line # <<>>
  <2>1. line \in Seq(Byte) /\ Len(line) \in {1, 2}
    BY Verdicts
  <2>2. Len(<<>>) = 0 /\ 0 \notin {1, 2}
    OBVIOUS
  <2> QED BY <2>1, <2>2
<1>4. Limit \in Frame /\ Append(<<>>, Limit) \in Seq(Frame) /\ <<>> \in Seq(Frame)
      /\ Len(Append(<<>>, Limit)) = 1 /\ Append(<<>>, Limit)[1] = Limit
  <2>1. Limit \in Frame
    BY DEF Frame
  <2> QED BY <2>1
<1>5. PICK x \in Seq(Byte) : x = IF line = Full THEN <<>> ELSE Bytes(Limit)
  <2>1. <<>> \in Seq(Byte) /\ Bytes(Limit) \in Seq(Byte)
    BY <1>4, FrameBytes
  <2> QED BY <2>1
<1>6. sent' \in Seq(Frame) /\ 0 \in 0 .. Len(sent') /\ Pending(sent', 0) = x
  <2>1. Len(<<>>) = 0 /\ 0 \in 0 .. Len(<<>>) /\ Pending(<<>>, 0) = <<>>
    <3>1. Len(<<>>) = 0
      OBVIOUS
    <3>2. Pending(<<>>, 0) = <<>>
      BY <1>4, <3>1, PendingNone
    <3> QED BY <3>1, <3>2
  <2>2. CASE line = Full
    BY <1>1, <1>2, <1>4, <1>5, <2>1, <2>2
  <2>3. CASE line # Full
    <3>1. Pending(Append(<<>>, Limit), 0) = Pending(<<>>, 0) \o Bytes(Limit)
      BY <1>4, <2>1, PendingMore
    <3>2. <<>> \o x = x
      OBVIOUS
    <3>3. sent' = Append(<<>>, Limit) /\ x = Bytes(Limit)
      BY <1>1, <1>2, <1>5, <2>3
    <3>4. 0 \in 0 .. Len(sent')
      BY <1>4, <3>3
    <3> QED BY <1>4, <2>1, <3>1, <3>2, <3>3, <3>4
  <2> QED BY <2>2, <2>3
<1>7. wire' \in Seq(Byte) /\ wire' = Cat(Cat(line, Eol), x)
  <2>1. <<>> \o line = line
    BY <1>3
  <2>2. wire' = line \o <<CR, LF>> \o x
    BY <1>1, <1>2, <1>5, <2>1
  <2>3. Cat(line, Eol) \in Seq(Byte)
    BY <1>3, EolBytes, CatType
  <2>4. Cat(Cat(line, Eol), x) \in Seq(Byte)
    BY <2>3, CatType
  <2> QED BY <2>2, <2>4 DEF Cat, Eol
<1>8. TypeOK' /\ Histories'
  BY <1>1, <1>2, <1>6, <1>7 DEF IInv, TypeOK, Histories, Byte
<1>9. Greeted'
  <2>1. greeting' = Full => closed' /\ sent' = <<>>
    BY <1>1, <1>2
  <2>2. greeting' \in {Welcome, OtherVersion} => Len(sent') > 0 /\ sent'[1] = Limit
    <3>1. Full # Welcome /\ Full # OtherVersion
      BY DEF Full, Welcome, OtherVersion
    <3>2. ASSUME greeting' \in {Welcome, OtherVersion} PROVE sent' = Append(<<>>, Limit)
      BY <1>1, <1>2, <3>1, <3>2
    <3> QED BY <1>4, <3>2
  <2>3. (mode' = -1 => done' = 0) /\ (pc' \in {"frames", "update"} => mode' = 0)
    BY <1>1, <1>2 DEF IInv, Greeted
  <2> QED BY <1>1, <1>3, <2>1, <2>2, <2>3 DEF Greeted
<1>10. InStep'
  <2>1. Line(mode, line) = Cat(line, Eol)
    BY <1>2, <1>3 DEF Line
  <2>2. Cat(lbuf, wire') = wire'
    BY <1>2, <1>7, CatNone
  <2>3. InPlace(lbuf, wire', mode, line, sent', 0)
    BY <1>6, <1>7, <2>1, <2>2 DEF InPlace
  <2> QED BY <1>1, <1>2, <2>3, InStepIs
<1>11. Updating' /\ AppliedInOrder' /\ Taken'
  BY <1>1 DEF IInv, Updating, AppliedInOrder, Taken
<1> QED BY <1>8, <1>9, <1>10, <1>11 DEF IInv

\* A frame is sent behind the others (Server.cpp:266-271).
LEMMA SendKeeps ==
  ASSUME IInv, NEW f \in Frame, SendFrame(f)
  PROVE  IInv'
<1>1. /\ ~closed /\ greeting # <<>> /\ wire' = wire \o Bytes(f) /\ sent' = Append(sent, f)
      /\ UNCHANGED <<greeting, closed, pc, lbuf, mode, hGameMutex, recvbuf, timeouts, done, got, wpc, sbuf, applied>>
  BY DEF SendFrame, window
<1>2. /\ wire \in Seq(Byte) /\ lbuf \in Seq(Byte) /\ sent \in Seq(Frame) /\ done \in 0 .. Len(sent)
      /\ greeting \in {<<>>, Welcome, OtherVersion, Full}
  BY DEF IInv, TypeOK, Histories, Byte
<1>3. PICK b \in Seq(Byte) : b = Bytes(f)
  BY FrameBytes
<1>4. sent' \in Seq(Frame) /\ done \in 0 .. Len(sent')
      /\ Len(sent') = Len(sent) + 1 /\ \A i \in 1 .. Len(sent) : sent'[i] = sent[i]
  <2>1. sent' \in Seq(Frame) /\ Len(sent') = Len(sent) + 1 /\ \A i \in 1 .. Len(sent) : sent'[i] = sent[i]
    BY <1>1, <1>2, AppendProperties
  <2>2. Len(sent) \in Nat
    BY <1>2
  <2> QED BY <1>2, <2>1, <2>2
<1>5. wire' \in Seq(Byte) /\ wire' = Cat(wire, b)
  BY <1>1, <1>2, <1>3, CatType DEF Cat
<1>6. TypeOK' /\ Histories'
  BY <1>1, <1>2, <1>4, <1>5 DEF IInv, TypeOK, Histories, Byte
<1>7. Greeted'
  <2>1. greeting # Full
    BY <1>1 DEF IInv, Greeted
  <2>2. Len(sent) > 0 /\ sent[1] = Limit
    BY <1>1, <1>2, <2>1 DEF IInv, Greeted
  <2>3. Len(sent') > 0 /\ sent'[1] = Limit
    <3>1. Len(sent) \in Nat
      BY <1>2
    <3>2. 1 \in 1 .. Len(sent)
      BY <2>2, <3>1
    <3> QED BY <1>4, <2>2, <3>1, <3>2
  <2>4. (mode = -1 => done = 0) /\ (pc \in {"frames", "update"} => mode = 0)
    BY DEF IInv, Greeted
  <2> QED BY <1>1, <2>1, <2>3, <2>4 DEF Greeted
<1>8. InStep'
  <2>1. ASSUME Reads(pc) PROVE InPlace(lbuf, wire', mode, greeting, sent', done)
    <3>1. PICK p \in Seq(Byte) : p = Pending(sent, done)
      BY <1>2, PendingType
    <3>2. Pending(sent', done) = Cat(p, b)
      BY <1>1, <1>2, <1>3, <3>1, PendingMore DEF Cat
    <3>3. PICK g \in Seq(Byte) : g = Line(mode, greeting)
      BY <1>2, LineType
    <3>4. Cat(lbuf, wire) = Cat(g, p)
      BY <2>1, <3>1, <3>3, InStepIs DEF IInv, InPlace
    <3>5. Cat(lbuf, Cat(wire, b)) = Cat(Cat(lbuf, wire), b)
      BY <1>2, CatCat
    <3>6. Cat(Cat(g, p), b) = Cat(g, Cat(p, b))
      BY CatCat
    <3> QED BY <1>5, <3>2, <3>3, <3>4, <3>5, <3>6 DEF InPlace
  <2> QED BY <1>1, <2>1, InStepIs DEF Reads
<1>9. Updating' /\ AppliedInOrder' /\ Taken'
  BY <1>1 DEF IInv, Updating, AppliedInOrder, Taken
<1> QED BY <1>6, <1>7, <1>8, <1>9 DEF IInv

-----------------------------------------------------------------------------
(* What recv() brings *)

\* The bytes that recv() takes, and those that stay on the way.
LEMMA Taking ==
  ASSUME NEW w \in Seq(Byte), NEW k \in 1 .. Len(w)
  PROVE  \E x, r \in Seq(Byte) :
            /\ x = SubSeq(w, 1, k) /\ r = SubSeq(w, k + 1, Len(w))
            /\ w = Cat(x, r) /\ Len(x) = k /\ Len(w) = k + Len(r)
            /\ x[k] = w[k] /\ (Len(r) > 0 => r[1] = w[k + 1])
<1>1. Len(w) \in Nat /\ k \in Nat
  OBVIOUS
<1>2. PICK x : x = SubSeq(w, 1, k)
  OBVIOUS
<1>3. PICK r : r = SubSeq(w, k + 1, Len(w))
  OBVIOUS
<1>4. x \in Seq(Byte) /\ r \in Seq(Byte) /\ Len(x) = k
  <2>1. \A i \in 1 .. k : w[i] \in Byte
    BY <1>1
  <2>2. \A i \in k + 1 .. Len(w) : w[i] \in Byte
    BY <1>1
  <2> QED BY <1>1, <1>2, <1>3, <2>1, <2>2, SubSeqProperties
<1>5. w = Cat(x, r)
  <2>1. 1 \in 1 .. Len(w) + 1 /\ k \in 1 - 1 .. Len(w) /\ Len(w) \in k .. Len(w)
    BY <1>1
  <2>2. SubSeq(w, 1, k) \o SubSeq(w, k + 1, Len(w)) = SubSeq(w, 1, Len(w))
    BY <2>1, ConcatAdjacentSubSeq
  <2> QED BY <1>2, <1>3, <2>2, SubSeqFull DEF Cat
<1>6. Len(w) = k + Len(r) /\ (\A i \in 1 .. k : w[i] = x[i]) /\ (\A i \in 1 .. Len(r) : w[k + i] = r[i])
  <2>1. Joined(Byte, x, r, w)
    BY <1>4, <1>5, CatJoined
  <2> QED BY <1>4, <2>1 DEF Joined
<1>7. x[k] = w[k] /\ (Len(r) > 0 => r[1] = w[k + 1])
  <2>1. k \in 1 .. k /\ Len(r) \in Nat
    BY <1>4
  <2>2. Len(r) > 0 => 1 \in 1 .. Len(r)
    BY <2>1
  <2> QED BY <1>6, <2>1, <2>2
<1> WITNESS x \in Seq(Byte), r \in Seq(Byte)
<1> QED BY <1>2, <1>3, <1>4, <1>5, <1>6, <1>7

\* What the lines of s come to when r is still on the way and p follows the greeting.
Looks(lines, s, r, p) ==
  \/ lines = [verdict |-> "none", left |-> s]
  \/ lines = [verdict |-> "refused", left |-> s]
  \/ \E t \in Seq(Byte) : lines = [verdict |-> "welcome", left |-> t] /\ Cat(t, r) = p

\* What the buffer can hold before the greeting was read: the client waits for the
\* rest of the line, or the greeting is all there (Client.cpp:53-95).
LEMMA Reading ==
  ASSUME NEW g \in {Welcome, OtherVersion, Full}, NEW p \in Seq(Byte), Limits(p),
         NEW s \in Seq(Byte), NEW r \in Seq(Byte), Cat(s, r) = Cat(Cat(g, Eol), p),
         ~(Len(s) = Len(g) + 1 /\ s[Len(s)] = CR /\ Len(r) > 0 /\ r[1] = LF)
  PROVE  Looks(Lines[s], s, r, p)
<1>1. g \in Seq(21 .. 24) /\ g \in Seq(Byte) /\ Len(g) \in Nat
  BY Verdicts
<1>2. PICK n \in Nat : n = Len(g)
  BY <1>1
<1>3. PICK h : h = Cat(g, Eol)
  OBVIOUS
<1>4. PICK a : a = Cat(s, r)
  OBVIOUS
<1>5. /\ Len(a) = n + 2 + Len(p) /\ h \in Seq(Byte) /\ Len(h) = n + 2
      /\ \A i \in 1 .. n : a[i] = g[i]
      /\ a[n + 1] = CR /\ a[n + 2] = LF
  <2>1. Greets(g, h, p, a)
    BY <1>1, <1>3, <1>4, GreetingAt
  <2> QED BY <1>2, <2>1 DEF Greets
<1>6. /\ Len(a) = Len(s) + Len(r)
      /\ \A i \in 1 .. Len(s) : a[i] = s[i]
      /\ \A i \in 1 .. Len(r) : a[Len(s) + i] = r[i]
  <2>1. Joined(Byte, s, r, a)
    BY <1>4, CatJoined
  <2> QED BY <2>1 DEF Joined
<1>7. Len(s) \in Nat /\ Len(r) \in Nat /\ Len(p) \in Nat
  OBVIOUS
<1>8. Len(s) # n + 1
  <2>1. SUFFICES ASSUME Len(s) = n + 1 PROVE FALSE
    OBVIOUS
  <2>2. n + 1 \in 1 .. Len(s) /\ 1 \in 1 .. Len(r) /\ Len(s) + 1 = n + 2
    BY <1>5, <1>6, <1>7, <2>1
  <2>3. s[n + 1] = CR
    BY <1>5, <1>6, <2>2
  <2>4. r[1] = LF
    <3>1. a[Len(s) + 1] = r[1]
      BY <1>6, <2>2
    <3> QED BY <1>5, <2>2, <3>1
  <2>5. Len(r) > 0
    BY <1>7, <2>2
  <2> QED BY <1>2, <2>1, <2>3, <2>4, <2>5
<1>9. CASE Len(s) <= n
  <2>1. ASSUME NEW i \in 1 .. Len(s) PROVE s[i] \notin Ends
    <3>1. i \in 1 .. n
      BY <1>7, <1>9
    <3>2. s[i] = g[i] /\ g[i] \in 21 .. 24
      BY <1>1, <1>2, <1>5, <1>6, <3>1
    <3> QED BY <3>2, EolBytes
  <2>2. LineEnd(s) = 0
    BY <2>1, LineEndNone
  <2> QED BY <2>2, LinesNone DEF Looks
<1>10. CASE ~(Len(s) <= n)
  <2>1. Len(h) <= Len(s)
    BY <1>5, <1>7, <1>8, <1>10
  <2>2. PICK t \in Seq(Byte) : s = Cat(h, t) /\ p = Cat(t, r)
    <3>1. Cat(s, r) = Cat(h, p)
      BY <1>3
    <3> QED BY <1>5, <2>1, <3>1, SplitAt
  <2>3. Limits(t)
    <3>1. Len(p) = Len(t) + Len(r) /\ \A i \in 1 .. Len(t) : p[i] = t[i]
      <4>1. Joined(Byte, t, r, p)
        BY <2>2, CatJoined
      <4> QED BY <4>1 DEF Joined
    <3>2. Len(t) \in Nat
      OBVIOUS
    <3>3. ASSUME Len(t) > 0 PROVE t[1] = 3
      <4>1. 1 \in 1 .. Len(t) /\ Len(p) > 0
        BY <1>7, <3>1, <3>2, <3>3
      <4> QED BY <3>1, <4>1 DEF Limits
    <3>4. ASSUME Len(t) > 1 PROVE t[2] = 0
      <4>1. 2 \in 1 .. Len(t) /\ Len(p) > 1 /\ Len(p) > 0
        BY <1>7, <3>1, <3>2, <3>4
      <4> QED BY <3>1, <4>1 DEF Limits
    <3> QED BY <3>3, <3>4 DEF Limits
  <2>4. Lines[s] = IF g = Welcome THEN [verdict |-> "welcome", left |-> t]
                   ELSE [verdict |-> "refused", left |-> s]
    <3>1. s = Cat(Cat(g, Eol), t)
      BY <1>3, <2>2
    <3> QED BY <2>3, <3>1, LinesGreeting
  <2> QED BY <2>2, <2>4 DEF Looks
<1> QED BY <1>9, <1>10

\* What comes with a greeting begins with the size of the limit's frame.
LEMMA LimitComes ==
  ASSUME NEW frames \in Seq(Frame), Len(frames) > 0 => frames[1] = Limit
  PROVE  Pending(frames, 0) \in Seq(Byte) /\ Limits(Pending(frames, 0))
<1>1. Len(frames) \in Nat /\ 0 \in 0 .. Len(frames)
  OBVIOUS
<1>2. CASE Len(frames) = 0
  <2>1. Pending(frames, 0) = <<>>
    BY <1>2, PendingNone
  <2>2. PICK e \in Seq(Byte) : e = <<>>
    <3>1. <<>> \in Seq(Byte)
      OBVIOUS
    <3> QED BY <3>1
  <2>3. Len(e) = 0
    BY <2>2
  <2>4. Limits(e)
    BY <2>3 DEF Limits
  <2> QED BY <2>1, <2>2, <2>4
<1>3. CASE Len(frames) # 0
  <2>1. 0 \in 0 .. Len(frames) - 1 /\ 0 + 1 \in 0 .. Len(frames) /\ Limit \in Frame /\ frames[0 + 1] = Limit
    BY <1>1, <1>3 DEF Frame
  <2>2. PICK b \in Seq(Byte) : b = Bytes(Limit)
    BY <2>1, FrameBytes
  <2>3. PICK r \in Seq(Byte) : r = Pending(frames, 0 + 1)
    BY <2>1, PendingType
  <2>4. Pending(frames, 0) = Cat(b, r)
    BY <1>1, <1>3, <2>1, <2>2, <2>3, PendingFirst DEF Cat
  <2>5. Len(b) \in {4, 5} /\ b[1] = 3 /\ b[2] = 0
    <3>1. Shaped(Limit, b)
      BY <2>1, <2>2, FrameShaped
    <3>2. Limit.kind = L /\ L # U /\ L # M
      BY DEF Limit, L, U, M
    <3>3. Limit # [kind |-> U, buf |-> <<>>]
      BY <3>2
    <3>4. ASSUME NEW n, NEW k \in {U, M} PROVE Limit # [kind |-> k, buf |-> <<n>>]
      BY <3>2
    <3>5. Len(b) = 5 /\ b[1] = 3 /\ b[2] = 0
      BY <3>1, <3>3, <3>4, Zenon DEF Shaped
    <3> QED BY <3>5
  <2>6. PICK a : a = Cat(b, r)
    OBVIOUS
  <2>7. a \in Seq(Byte) /\ \A i \in 1 .. Len(b) : a[i] = b[i]
    <3>1. Joined(Byte, b, r, a)
      BY <2>6, CatJoined
    <3> QED BY <3>1 DEF Joined
  <2>8. a[1] = 3 /\ a[2] = 0
    <3>1. 1 \in 1 .. Len(b) /\ 2 \in 1 .. Len(b)
      BY <2>5
    <3> QED BY <2>5, <2>7, <3>1
  <2> QED BY <2>4, <2>6, <2>7, <2>8 DEF Limits
<1> QED BY <1>2, <1>3

\* What RecvThread makes of them.
Looked(lines, l, m, p) ==
  /\ l = lines.left
  /\ m = IF lines.verdict = "welcome" THEN 0 ELSE -1
  /\ p = IF lines.verdict \in {"none", "welcome"} THEN "recv" ELSE lines.verdict

\* recv() brings bytes, and before the greeting was read its lines are looked at
\* (Client.cpp:44-103).
LEMMA RecvKeeps ==
  ASSUME ~SplitLineEnd, IInv, NEW k, Recv(k)
  PROVE  IInv'
<1>1. /\ pc = "recv" /\ k \in 1 .. Len(wire)
      /\ mode = -1 /\ ~SplitLineEnd /\ k < Len(wire) => ~(wire[k] = CR /\ wire[k + 1] = LF)
      /\ wire' = SubSeq(wire, k + 1, Len(wire))
      /\ mode = 0 => pc' = "frames" /\ lbuf' = lbuf \o SubSeq(wire, 1, k) /\ mode' = mode
      /\ UNCHANGED <<hGameMutex, recvbuf, timeouts, done, got, greeting, closed, sent, wpc, sbuf, applied>>
  BY DEF Recv, server, window
<1>2. /\ wire \in Seq(Byte) /\ lbuf \in Seq(Byte) /\ sent \in Seq(Frame) /\ done \in 0 .. Len(sent)
      /\ greeting \in {<<>>, Welcome, OtherVersion, Full} /\ mode \in {-1, 0}
  BY DEF IInv, TypeOK, Histories, Byte
<1>3. PICK x \in Seq(Byte), r \in Seq(Byte) :
            /\ x = SubSeq(wire, 1, k) /\ r = SubSeq(wire, k + 1, Len(wire))
            /\ wire = Cat(x, r) /\ Len(x) = k /\ Len(wire) = k + Len(r)
            /\ x[k] = wire[k] /\ (Len(r) > 0 => r[1] = wire[k + 1])
  BY <1>1, <1>2, Taking
<1>4. PICK s \in Seq(Byte) : s = Cat(lbuf, x)
  BY <1>2, CatType
<1>5. Cat(s, r) = Cat(Line(mode, greeting), Pending(sent, done))
  <2>1. InPlace(lbuf, wire, mode, greeting, sent, done)
    BY <1>1, InStepIs DEF IInv, Reads
  <2>2. Cat(Cat(lbuf, x), r) = Cat(lbuf, Cat(x, r))
    BY <1>2, CatCat
  <2> QED BY <1>3, <1>4, <2>1, <2>2 DEF InPlace
<1>6. Pending(sent, done) \in Seq(Byte)
  BY <1>2, PendingType
<1>7. greeting # <<>>
  <2>1. SUFFICES ASSUME greeting = <<>> PROVE FALSE
    OBVIOUS
  <2>2. wire = <<>>
    BY <2>1 DEF IInv, Greeted
  <2>3. Len(<<>>) = 0
    OBVIOUS
  <2> QED BY <1>1, <2>2, <2>3
<1>8. /\ pc' \in {"recv", "frames", "refused"} /\ lbuf' \in Seq(Byte) /\ mode' \in {-1, 0}
      /\ (mode' = -1 => mode = -1) /\ (pc' = "frames" => mode' = 0)
      /\ (Reads(pc') => Cat(lbuf', r) = Cat(Line(mode', greeting), Pending(sent, done)))
  <2>1. CASE mode = 0
    BY <1>1, <1>3, <1>4, <1>5, <2>1 DEF Cat
  <2>2. CASE mode = -1
    <3>1. PICK lines : lines = Lines[s]
      OBVIOUS
    <3>2. Looked(lines, lbuf', mode', pc')
      <4>1. Looked(Lines[lbuf \o SubSeq(wire, 1, k)], lbuf', mode', pc')
        BY <2>2 DEF Recv, Looked
      <4> QED BY <1>3, <1>4, <3>1, <4>1 DEF Cat
    <3>3. PICK p \in Seq(Byte) : p = Pending(sent, 0) /\ Limits(p)
      <4>1. Len(sent) > 0 => sent[1] = Limit
        <5>1. CASE greeting = Full
          <6>1. sent = <<>>
            BY <5>1 DEF IInv, Greeted
          <6>2. Len(<<>>) = 0
            OBVIOUS
          <6> QED BY <6>1, <6>2
        <5>2. CASE greeting # Full
          BY <1>2, <1>7, <5>2 DEF IInv, Greeted
        <5> QED BY <5>1, <5>2
      <4> QED BY <1>2, <4>1, LimitComes
    <3>4. done = 0 /\ greeting \in {Welcome, OtherVersion, Full}
      BY <1>2, <1>7, <2>2 DEF IInv, Greeted
    <3>5. Cat(s, r) = Cat(Cat(greeting, Eol), p)
      BY <1>5, <1>7, <2>2, <3>3, <3>4 DEF Line
    <3>6. ~(Len(s) = Len(greeting) + 1 /\ s[Len(s)] = CR /\ Len(r) > 0 /\ r[1] = LF)
      <4>1. ASSUME s[Len(s)] = CR, Len(r) > 0, r[1] = LF PROVE FALSE
        <5>1. s[Len(s)] = x[k]
          <6>1. Len(s) = Len(lbuf) + k /\ \A i \in 1 .. k : s[Len(lbuf) + i] = x[i]
            <7>1. Joined(Byte, lbuf, x, s)
              BY <1>2, <1>4, CatJoined
            <7> QED BY <1>3, <7>1 DEF Joined
          <6>2. k \in 1 .. k
            BY <1>1
          <6> QED BY <6>1, <6>2
        <5>2. k < Len(wire)
          <6>1. k \in Nat /\ Len(r) \in Nat
            BY <1>1
          <6> QED BY <1>3, <4>1, <6>1
        <5> QED BY <1>1, <1>3, <2>2, <4>1, <5>1, <5>2
      <4> QED BY <4>1
    <3>7. Looks(lines, s, r, p)
      BY <3>1, <3>3, <3>4, <3>5, <3>6, Reading
    <3>8. CASE lines = [verdict |-> "none", left |-> s]
      <4>1. lbuf' = s /\ mode' = -1 /\ pc' = "recv"
        BY <3>2, <3>8 DEF Looked
      <4> QED BY <1>5, <2>2, <4>1
    <3>9. CASE lines = [verdict |-> "refused", left |-> s]
      <4>1. lbuf' = s /\ mode' = -1 /\ pc' = "refused"
        BY <3>2, <3>9 DEF Looked
      <4> QED BY <2>2, <4>1 DEF Reads
    <3>10. ASSUME NEW t \in Seq(Byte), lines = [verdict |-> "welcome", left |-> t], Cat(t, r) = p
           PROVE  lbuf' = t /\ mode' = 0 /\ pc' = "recv" /\ Cat(t, r) = Cat(Line(0, greeting), Pending(sent, done))
      <4>1. lbuf' = t /\ mode' = 0 /\ pc' = "recv"
        BY <3>2, <3>10 DEF Looked
      <4>2. Line(0, greeting) = <<>>
        BY DEF Line
      <4>3. Cat(<<>>, p) = p
        BY CatNone
      <4> QED BY <3>3, <3>4, <3>10, <4>1, <4>2, <4>3
    <3> QED BY <3>7, <3>8, <3>9, <3>10 DEF Looks
  <2> QED BY <1>2, <2>1, <2>2
<1>9. TypeOK' /\ Histories'
  <2>1. wire' \in Seq(Byte) /\ hGameMutex # "recv"
    BY <1>1, <1>3 DEF IInv, TypeOK
  <2>2. pc' # "update"
    BY <1>8
  <2> QED BY <1>1, <1>8, <2>1, <2>2 DEF IInv, TypeOK, Histories, Byte
<1>10. Greeted'
  BY <1>1, <1>7, <1>8 DEF IInv, Greeted
<1>11. InStep'
  <2>1. wire' = r
    BY <1>1, <1>3
  <2>2. Reads(pc') => InPlace(lbuf', wire', mode', greeting', sent', done')
    BY <1>1, <1>8, <2>1 DEF InPlace
  <2> QED BY <2>2, InStepIs DEF Reads
<1>12. Updating' /\ AppliedInOrder' /\ Taken'
  BY <1>1, <1>8 DEF IInv, Updating, AppliedInOrder, Taken
<1> QED BY <1>9, <1>10, <1>11, <1>12 DEF IInv

-----------------------------------------------------------------------------
(* Theorems *)

\* Nothing changes.
LEMMA StutterKeeps == IInv /\ UNCHANGED vars => IInv'
<1> SUFFICES ASSUME IInv, UNCHANGED vars PROVE IInv'
  OBVIOUS
<1>1. UNCHANGED <<wire, lbuf, pc, mode, hGameMutex, recvbuf, timeouts, done, got, greeting, closed, sent, wpc, sbuf, applied>>
  BY DEF vars, server, window
<1>2. TypeOK' /\ Histories'
  BY <1>1 DEF IInv, TypeOK, Histories
<1>3. Greeted' /\ Updating' /\ AppliedInOrder' /\ Taken'
  BY <1>1 DEF IInv, Greeted, Updating, AppliedInOrder, Taken
<1>4. InStep'
  BY <1>1, InStepIs DEF IInv, Reads
<1> QED BY <1>2, <1>3, <1>4 DEF IInv

\* The invariant of the client's stream.
THEOREM StreamInvariant ==
  ASSUME ~SplitLineEnd
  PROVE  Spec => []IInv
<1>1. Init => IInv
  BY StreamInit
<1>2. IInv /\ [Next]_vars => IInv'
  <2> SUFFICES ASSUME IInv, [Next]_vars PROVE IInv'
    OBVIOUS
  <2>1. ASSUME NEW line \in {Welcome, OtherVersion, Full}, Greet(line) PROVE IInv'
    BY <2>1, GreetKeeps
  <2>2. ASSUME NEW f \in Frame, SendFrame(f) PROVE IInv'
    BY <2>2, SendKeeps
  <2>3. CASE CloseStream
    BY <2>3, CloseKeeps
  <2>4. ASSUME NEW k \in 1 .. Len(wire), Recv(k) PROVE IInv'
    BY <2>4, RecvKeeps
  <2>5. CASE RecvEnds \/ NoMoreFrames \/ LockUpdate
    BY <2>5, MovesOnKeeps
  <2>6. CASE Interpret
    BY <2>6, InterpretKeeps
  <2>7. CASE Update
    BY <2>7, UpdateKeeps
  <2>8. CASE GiveUp
    BY <2>8, GivingUpKeeps
  <2>9. CASE Take
    BY <2>9, TakeKeeps
  <2>10. CASE Pop
    BY <2>10, PopKeeps
  <2>11. CASE UNCHANGED vars
    BY <2>11, StutterKeeps
  <2> QED BY <2>1, <2>2, <2>3, <2>4, <2>5, <2>6, <2>7, <2>8, <2>9, <2>10, <2>11
      DEF Next, Server, RecvThread
<1> QED BY <1>1, <1>2, PTL DEF Spec

\* Every variable of the client has its type, and RecvThread owns hGameMutex just in
\* its update (Client.cpp:121, 149).
THEOREM StreamTyped ==
  ASSUME ~SplitLineEnd
  PROVE  Spec => []TypeOK
<1>1. IInv => TypeOK
  BY DEF IInv
<1> QED BY <1>1, StreamInvariant, PTL

\* RecvThread never loses its place in the stream (Client.cpp:93, 183).
THEOREM StaysInStep ==
  ASSUME ~SplitLineEnd
  PROVE  Spec => []InStep
<1>1. IInv => InStep
  BY DEF IInv
<1> QED BY <1>1, StreamInvariant, PTL

\* The window loop interprets every buffer that was queued, in order and once
\* (gltestplus.cpp:1434).
THEOREM BuffersInOrder ==
  ASSUME ~SplitLineEnd
  PROVE  Spec => []AppliedInOrder
<1>1. IInv => AppliedInOrder
  BY DEF IInv
<1> QED BY <1>1, StreamInvariant, PTL

\* A step of the connection is a step of the channel, or none.
LEMMA StepMaps == IInv /\ [Next]_vars => [Channel!Next]_Channel!vars
<1> SUFFICES ASSUME IInv, [Next]_vars PROVE [Channel!Next]_Channel!vars
  OBVIOUS
<1>1. ASSUME NEW f \in Frame, sent' = Append(sent, f), UNCHANGED <<done, got>>
      PROVE  Channel!Next
  <2>1. Channel!Send(f)
    BY <1>1 DEF Channel!Send
  <2> QED BY <2>1 DEF Channel!Next
<1>2. ASSUME pc \in {"frames", "update"}, Whole(lbuf), done' = done + 1,
             got' = Append(got, Parsed(lbuf)), UNCHANGED sent
      PROVE  Channel!Next
  <2>1. done < Len(sent) /\ Parsed(lbuf) = sent[done + 1]
    BY <1>2, NextFrame
  <2>2. Channel!Deliver
    BY <1>2, <2>1 DEF Channel!Deliver
  <2> QED BY <2>2 DEF Channel!Next
<1>3. ASSUME UNCHANGED <<sent, done, got>> PROVE UNCHANGED Channel!vars
  BY <1>3 DEF Channel!vars
<1>4. ASSUME NEW line \in {Welcome, OtherVersion, Full}, Greet(line)
      PROVE  [Channel!Next]_Channel!vars
  <2>1. Limit \in Frame
    BY DEF Frame
  <2>2. CASE line = Full
    BY <1>3, <1>4, <2>2 DEF Greet
  <2>3. CASE line # Full
    <3>1. sent' = Append(sent, Limit) /\ UNCHANGED <<done, got>>
      BY <1>4, <2>3 DEF Greet
    <3> QED BY <1>1, <2>1, <3>1
  <2> QED BY <2>2, <2>3
<1>5. ASSUME NEW f \in Frame, SendFrame(f) PROVE Channel!Next
  <2>1. sent' = Append(sent, f) /\ UNCHANGED <<done, got>>
    BY <1>5 DEF SendFrame
  <2> QED BY <1>1, <2>1
<1>6. CASE Interpret
  <2>1. /\ pc \in {"frames", "update"} /\ Whole(lbuf) /\ done' = done + 1
        /\ got' = Append(got, Parsed(lbuf)) /\ UNCHANGED sent
    BY <1>6 DEF Interpret, server
  <2> QED BY <1>2, <2>1
<1>7. CASE Update
  <2>1. /\ pc \in {"frames", "update"} /\ Whole(lbuf) /\ done' = done + 1
        /\ got' = Append(got, Parsed(lbuf)) /\ UNCHANGED sent
    BY <1>7 DEF Update, server, IInv, Updating
  <2> QED BY <1>2, <2>1
<1>8. CASE GiveUp
  <2>1. /\ pc \in {"frames", "update"} /\ Whole(lbuf) /\ done' = done + 1
        /\ Parsed(lbuf).kind = U /\ UNCHANGED <<sent, got>>
    BY <1>8 DEF GiveUp, server
  <2>2. done < Len(sent) /\ sent[done + 1] \in Frame /\ Parsed(lbuf) = sent[done + 1]
    BY <2>1, NextFrame
  <2>3. sent[done + 1] \in {f \in Frame : f.kind = U}
    BY <2>1, <2>2
  <2>4. Channel!GiveUp
    BY <2>1, <2>2, <2>3 DEF Channel!GiveUp
  <2> QED BY <2>4 DEF Channel!Next
<1>9. CASE \/ CloseStream \/ RecvEnds \/ NoMoreFrames \/ LockUpdate \/ Take \/ Pop
           \/ (\E k \in 1 .. Len(wire) : Recv(k)) \/ UNCHANGED vars
  <2>1. UNCHANGED <<sent, done, got>>
    BY <1>9 DEF CloseStream, RecvEnds, NoMoreFrames, LockUpdate, Take, Pop, Recv, vars, server
  <2> QED BY <1>3, <2>1
<1> QED BY <1>4, <1>5, <1>6, <1>7, <1>8, <1>9 DEF Next, Server, RecvThread

\* However the bytes arrive, the frames come out whole, in order and once; only an
\* update may be given up (Server.cpp:187, Client.cpp:105-183).
THEOREM StreamKeepsPromise ==
  ASSUME ~SplitLineEnd
  PROVE  Spec => KeepsPromise
<1>1. Init => Channel!Init
  BY DEF Init, Channel!Init
<1>2. IInv /\ [Next]_vars => [Channel!Next]_Channel!vars
  BY StepMaps
<1> QED BY <1>1, <1>2, StreamInvariant, PTL DEF Spec, Channel!Spec, KeepsPromise

=============================================================================
