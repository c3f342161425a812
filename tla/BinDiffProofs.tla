------------------------------ MODULE BinDiffProofs -----------------------------
(***************************************************************************)
(* The differences that BinDiff makes of two byte streams rewrite the one  *)
(* into the other, whatever the streams and the gap that is merged over.   *)
(*                                                                         *)
(* The loops of put() and applyPatches() are recursive functions; they are *)
(* unfolded once (PutNothing, PutOneMore, ApplyNone, ApplyOneMore), and    *)
(* then stay closed.  Partial is the invariant of put(): src is a, c and   *)
(* what is unread, what was fed is b and u, the closed patches rewrite a   *)
(* to b, and the open one, if there is one, replaces c by u.  A byte keeps *)
(* it (one lemma for each branch), and close() makes a whole diff of it.   *)
(*                                                                         *)
(* Induction, over numbers and over sequences, is for a property given as  *)
(* the set of the values that have it: a proof defines that set, hides its *)
(* definition, and cites SetInduction or SeqInduction.  The proofs of the  *)
(* other modules use these lemmas too, and those about sequences.          *)
(***************************************************************************)
EXTENDS BinDiff, FiniteSets, SequencesExt, FiniteSetTheorems, WellFoundedInduction,
        SequenceTheorems, TLAPS

-----------------------------------------------------------------------------
(* Induction *)

\* The natural numbers are well ordered: 0 .. m is a minimal element of the sets
\* 0 .. n ordered by strict inclusion.  What SetInduction rests on.
LEMMA Least ==
  ASSUME NEW S \in SUBSET Nat, S # {}
  PROVE  \E m \in S : \A k \in S : m <= k
<1> DEFINE T == {0 .. n : n \in S}
<1>1. T \subseteq FiniteSubsetsOf(Nat)
  <2>1. ASSUME NEW n \in S PROVE 0 .. n \in SUBSET Nat /\ IsFiniteSet(0 .. n)
    <3>1. n \in Int /\ 0 \in Int
      OBVIOUS
    <3> QED BY <3>1, FS_Interval
  <2> QED BY <2>1 DEF FiniteSubsetsOf
<1>2. \E x \in T : \A y \in T : <<y, x>> \notin StrictSubsetOrdering(Nat)
  <2>1. T # {}
    OBVIOUS
  <2> QED BY <1>1, <2>1, FS_StrictSubsetOrderingWellFounded, WFMin
<1>3. PICK m \in S : \A k \in S : <<0 .. k, 0 .. m>> \notin StrictSubsetOrdering(Nat)
  BY <1>2
<1>4. ASSUME NEW k \in S, k < m PROVE FALSE
  <2>1. (0 .. k) \subseteq (0 .. m) /\ m \in 0 .. m /\ m \notin 0 .. k
    BY <1>4
  <2>2. 0 .. k \in SUBSET Nat /\ 0 .. m \in SUBSET Nat
    OBVIOUS
  <2> QED BY <1>3, <2>1, <2>2 DEF StrictSubsetOrdering
<1> QED BY <1>4

\* Induction over the natural numbers, for the recursive functions of the models.
LEMMA SetInduction ==
  ASSUME NEW S, 0 \in S, \A n \in Nat : n \in S => n + 1 \in S
  PROVE  Nat \subseteq S
<1> SUFFICES ASSUME Nat \ S # {} PROVE FALSE
  OBVIOUS
<1>1. PICK m \in Nat \ S : \A k \in Nat \ S : m <= k
  BY Least
<1>2. m - 1 \in Nat /\ m - 1 \in S
  BY <1>1
<1> QED BY <1>1, <1>2

\* Induction over sequences that grow at their end.
LEMMA SeqInduction ==
  ASSUME NEW S, NEW X, <<>> \in X,
         \A q \in Seq(S) : \A e \in S : q \in X => Append(q, e) \in X
  PROVE  Seq(S) \subseteq X
<1> DEFINE N == {n \in Nat : \A q \in Seq(S) : Len(q) = n => q \in X}
<1>1. 0 \in N
  OBVIOUS
<1>2. ASSUME NEW n \in Nat, n \in N PROVE n + 1 \in N
  <2>1. SUFFICES ASSUME NEW q \in Seq(S), Len(q) = n + 1 PROVE q \in X
    OBVIOUS
  <2> DEFINE f == SubSeq(q, 1, n)
  <2>2. f \in Seq(S) /\ Len(f) = n /\ q[n + 1] \in S
    BY <2>1
  <2>3. q = Append(f, q[n + 1])
    BY <2>1, <2>2
  <2>4. f \in X
    BY <1>2, <2>2
  <2> HIDE DEF f
  <2> QED BY <2>2, <2>3, <2>4
<1> HIDE DEF N
<1>3. Nat \subseteq N
  BY <1>1, <1>2, SetInduction
<1> QED BY <1>3 DEF N

\* RemoveAt closes the gap, as memmove() and the containers' erase() do.
LEMMA Removed ==
  ASSUME NEW S, NEW s \in Seq(S), NEW i \in 1 .. Len(s)
  PROVE  /\ RemoveAt(s, i) \in Seq(S) /\ Len(RemoveAt(s, i)) = Len(s) - 1
         /\ \A j \in 1 .. Len(s) - 1 : RemoveAt(s, i)[j] = IF j < i THEN s[j] ELSE s[j + 1]
<1>1. /\ SubSeq(s, 1, i - 1) \in Seq(S) /\ Len(SubSeq(s, 1, i - 1)) = i - 1
      /\ \A j \in 1 .. i - 1 : SubSeq(s, 1, i - 1)[j] = s[j]
  OBVIOUS
<1>2. /\ SubSeq(s, i + 1, Len(s)) \in Seq(S) /\ Len(SubSeq(s, i + 1, Len(s))) = Len(s) - i
      /\ \A j \in 1 .. Len(s) - i : SubSeq(s, i + 1, Len(s))[j] = s[i + j]
  OBVIOUS
<1>3. PICK p \in Seq(S), q \in Seq(S) : p = SubSeq(s, 1, i - 1) /\ q = SubSeq(s, i + 1, Len(s))
  BY <1>1, <1>2
<1>4. /\ p \o q \in Seq(S) /\ Len(p \o q) = Len(p) + Len(q)
      /\ \A j \in 1 .. Len(p) + Len(q) : (p \o q)[j] = IF j <= Len(p) THEN p[j] ELSE q[j - Len(p)]
  OBVIOUS
<1>5. PICK r \in Seq(S) : r = p \o q
  BY <1>4
<1>6. RemoveAt(s, i) = r
  BY <1>3, <1>5 DEF RemoveAt
<1>7. Len(s) \in Nat /\ i \in Nat /\ i <= Len(s)
  OBVIOUS
<1>8. Len(p) = i - 1 /\ Len(q) = Len(s) - i
  BY <1>1, <1>2, <1>3
<1>9. Len(r) = Len(s) - 1
  BY <1>4, <1>5, <1>7, <1>8
<1>10. ASSUME NEW j \in 1 .. Len(s) - 1 PROVE r[j] = IF j < i THEN s[j] ELSE s[j + 1]
  <2>1. r[j] = IF j <= i - 1 THEN p[j] ELSE q[j - (i - 1)]
    <3>1. j \in 1 .. Len(p) + Len(q)
      BY <1>7, <1>8
    <3> QED BY <1>4, <1>5, <1>8, <3>1
  <2>2. CASE j < i
    <3>1. j \in 1 .. i - 1 /\ j <= i - 1
      BY <1>7, <2>2
    <3>2. p[j] = s[j]
      BY <1>1, <1>3, <3>1
    <3> QED BY <2>1, <2>2, <3>1, <3>2
  <2>3. CASE ~(j < i)
    <3>1. j - (i - 1) \in 1 .. Len(s) - i /\ ~(j <= i - 1) /\ i + (j - (i - 1)) = j + 1
      BY <1>7, <2>3
    <3>2. q[j - (i - 1)] = s[i + (j - (i - 1))]
      BY <1>2, <1>3, <3>1
    <3> QED BY <2>1, <2>3, <3>1, <3>2
  <2> QED BY <2>2, <2>3
<1> QED BY <1>5, <1>6, <1>9, <1>10

\* What is in a queue that has grown at its end, or lost its head.
LEMMA Queued ==
  ASSUME NEW S, NEW s \in Seq(S)
  PROVE  /\ \A e \in S : /\ Append(s, e) \in Seq(S)
                         /\ \A k \in 1 .. Len(Append(s, e)) :
                              \/ Append(s, e)[k] = e
                              \/ \E j \in 1 .. Len(s) : Append(s, e)[k] = s[j]
         /\ s # <<>> => /\ Head(s) \in S /\ Tail(s) \in Seq(S)
                        /\ \E j \in 1 .. Len(s) : Head(s) = s[j]
                        /\ \A k \in 1 .. Len(Tail(s)) : \E j \in 1 .. Len(s) : Tail(s)[k] = s[j]
<1>1. ASSUME NEW e \in S
      PROVE  /\ Append(s, e) \in Seq(S)
             /\ \A k \in 1 .. Len(Append(s, e)) :
                  \/ Append(s, e)[k] = e
                  \/ \E j \in 1 .. Len(s) : Append(s, e)[k] = s[j]
  <2>1. /\ Append(s, e) \in Seq(S) /\ Len(Append(s, e)) = Len(s) + 1
        /\ Append(s, e)[Len(s) + 1] = e
        /\ \A j \in 1 .. Len(s) : Append(s, e)[j] = s[j]
    OBVIOUS
  <2>2. \A k \in 1 .. Len(s) + 1 : k = Len(s) + 1 \/ k \in 1 .. Len(s)
    OBVIOUS
  <2> QED BY <2>1, <2>2
<1>2. ASSUME s # <<>>
      PROVE  /\ Head(s) \in S /\ Tail(s) \in Seq(S)
             /\ \E j \in 1 .. Len(s) : Head(s) = s[j]
             /\ \A k \in 1 .. Len(Tail(s)) : \E j \in 1 .. Len(s) : Tail(s)[k] = s[j]
  <2>1. 1 \in 1 .. Len(s) /\ Head(s) = s[1] /\ Head(s) \in S
    BY <1>2
  <2>2. /\ Tail(s) \in Seq(S) /\ Len(Tail(s)) = Len(s) - 1
        /\ \A k \in 1 .. Len(s) - 1 : Tail(s)[k] = s[k + 1] /\ k + 1 \in 1 .. Len(s)
    BY <1>2
  <2> QED BY <2>1, <2>2
<1> QED BY <1>1, <1>2

-----------------------------------------------------------------------------
(* The loops *)

\* f are the states that the loops of put() and of applyPatches() go through.
Putting(f, src, d, bytes) ==
  /\ f[0] = d
  /\ \A n \in 0 .. Len(bytes) - 1 : f[n + 1] = PutByte(src, f[n], bytes[n + 1])
Applying(f, r, ps) ==
  /\ f[0] = r
  /\ \A n \in 0 .. Len(ps) - 1 : f[n + 1] = ApplyPatch(f[n], ps[Len(ps) - n])

\* put() of no byte, and of one byte more: the loop of put() (BinDiff.cpp:7-42).
LEMMA PutDef ==
  ASSUME NEW src, NEW d, NEW bytes, Len(bytes) \in Nat
  PROVE  \E f : Putting(f, src, d, bytes) /\ Put(src, d, bytes) = f[Len(bytes)]
<1> DEFINE Run(f, m) ==
      f = [n \in 0 .. m |-> IF n = 0 THEN d ELSE PutByte(src, f[n - 1], bytes[n])]
<1> DEFINE N == {m \in Nat : \E f : Run(f, m)}
<1>1. 0 \in N
  <2>1. Run([n \in 0 .. 0 |-> d], 0)
    OBVIOUS
  <2> QED BY <2>1
<1>2. ASSUME NEW m \in Nat, m \in N PROVE m + 1 \in N
  <2>1. PICK f : Run(f, m)
    BY <1>2
  <2> DEFINE g == [n \in 0 .. m + 1 |-> IF n = m + 1 THEN PutByte(src, f[m], bytes[m + 1]) ELSE f[n]]
  <2>2. Run(g, m + 1)
    <3>1. ASSUME NEW n \in 0 .. m + 1
          PROVE  g[n] = IF n = 0 THEN d ELSE PutByte(src, g[n - 1], bytes[n])
      <4>1. CASE n = m + 1
        <5>1. g[n - 1] = f[m] /\ g[n] = PutByte(src, f[m], bytes[m + 1])
          BY <4>1
        <5> QED BY <4>1, <5>1
      <4>2. CASE n # m + 1
        <5>1. n \in 0 .. m /\ g[n] = f[n] /\ (n # 0 => g[n - 1] = f[n - 1])
          BY <4>2
        <5>2. f[n] = IF n = 0 THEN d ELSE PutByte(src, f[n - 1], bytes[n])
          BY <2>1, <5>1
        <5> QED BY <5>1, <5>2
      <4> QED BY <4>1, <4>2
    <3>2. g = [n \in 0 .. m + 1 |-> g[n]]
      OBVIOUS
    <3> HIDE DEF g
    <3>3. [n \in 0 .. m + 1 |-> g[n]]
          = [n \in 0 .. m + 1 |-> IF n = 0 THEN d ELSE PutByte(src, g[n - 1], bytes[n])]
      BY <3>1
    <3> QED BY <3>2, <3>3
  <2> HIDE DEF Run, g
  <2> QED BY <2>2
<1> HIDE DEF N
<1>3. Len(bytes) \in N
  BY <1>1, <1>2, SetInduction
<1>4. \E f : Run(f, Len(bytes))
  BY <1>3 DEF N
<1> DEFINE put == CHOOSE f : Run(f, Len(bytes))
<1>5. Run(put, Len(bytes))
  BY <1>4
<1>6. Put(src, d, bytes) = put[Len(bytes)]
  BY DEF Put
<1> HIDE DEF put
<1> DEFINE L == Len(bytes)
<1>7. \A n \in 0 .. L :
        put[n] = IF n = 0 THEN d ELSE PutByte(src, put[n - 1], bytes[n])
  BY <1>5
<1>8. put[0] = d
  BY <1>7
<1>9. ASSUME NEW n \in 0 .. L - 1 PROVE put[n + 1] = PutByte(src, put[n], bytes[n + 1])
  <2>1. n + 1 \in 0 .. L /\ n + 1 # 0 /\ n + 1 - 1 = n
    OBVIOUS
  <2>2. put[n + 1] = IF n + 1 = 0 THEN d ELSE PutByte(src, put[n + 1 - 1], bytes[n + 1])
    BY <1>7, <2>1
  <2> QED BY <2>1, <2>2
<1> QED BY <1>6, <1>8, <1>9 DEF Putting

\* put() of no byte leaves the BinDiff alone: its loop does not run (BinDiff.cpp:8).
LEMMA PutNothing ==
  ASSUME NEW src, NEW d PROVE Put(src, d, <<>>) = d
<1>1. Len(<<>>) = 0
  OBVIOUS
<1>2. PICK f : Putting(f, src, d, <<>>) /\ Put(src, d, <<>>) = f[Len(<<>>)]
  BY <1>1, PutDef
<1> QED BY <1>1, <1>2 DEF Putting

\* put() of one byte more is one turn of its loop more (BinDiff.cpp:8-39).
LEMMA PutOneMore ==
  ASSUME NEW src, NEW d, NEW B, NEW bytes \in Seq(B), NEW b \in B
  PROVE  Put(src, d, Append(bytes, b)) = PutByte(src, Put(src, d, bytes), b)
<1> DEFINE L == Len(bytes)
           more == Append(bytes, b)
<1>1. L \in Nat /\ Len(more) = L + 1 /\ more[L + 1] = b /\ \A n \in 1 .. L : more[n] = bytes[n]
  OBVIOUS
<1> HIDE DEF more
<1>2. PICK f : Putting(f, src, d, bytes) /\ Put(src, d, bytes) = f[Len(bytes)]
  BY <1>1, PutDef
<1>3. PICK g : Putting(g, src, d, more) /\ Put(src, d, more) = g[Len(more)]
  <2>1. Len(more) \in Nat
    BY <1>1
  <2> QED BY <2>1, PutDef
<1>4. /\ f[0] = d
      /\ \A n \in 0 .. L - 1 : f[n + 1] = PutByte(src, f[n], bytes[n + 1])
      /\ Put(src, d, bytes) = f[L]
  BY <1>2 DEF Putting
<1>5. /\ g[0] = d
      /\ \A n \in 0 .. L + 1 - 1 : g[n + 1] = PutByte(src, g[n], more[n + 1])
      /\ Put(src, d, more) = g[L + 1]
  BY <1>1, <1>3 DEF Putting
<1> HIDE DEF L
<1> DEFINE N == {n \in Nat : n <= L => g[n] = f[n]}
<1>6. 0 \in N
  BY <1>1, <1>4, <1>5
<1>7. ASSUME NEW n \in Nat, n \in N PROVE n + 1 \in N
  <2>1. SUFFICES ASSUME n + 1 <= L PROVE g[n + 1] = f[n + 1]
    OBVIOUS
  <2>2. g[n] = f[n]
    BY <1>1, <1>7, <2>1
  <2>3. n \in 0 .. L - 1 /\ n \in 0 .. L + 1 - 1 /\ more[n + 1] = bytes[n + 1]
    BY <1>1, <2>1
  <2>4. f[n + 1] = PutByte(src, f[n], bytes[n + 1])
    BY <1>4, <2>3
  <2>5. g[n + 1] = PutByte(src, g[n], more[n + 1])
    BY <1>5, <2>3
  <2> QED BY <2>2, <2>3, <2>4, <2>5
<1> HIDE DEF N
<1>8. L \in N
  BY <1>1, <1>6, <1>7, SetInduction
<1>9. g[L] = f[L]
  BY <1>1, <1>8 DEF N
<1>10. g[L + 1] = PutByte(src, g[L], more[L + 1])
  <2>1. L \in 0 .. L + 1 - 1
    BY <1>1
  <2> QED BY <1>5, <2>1
<1> QED BY <1>1, <1>4, <1>5, <1>9, <1>10 DEF more

\* applyPatches() of no patch, and with one patch more at the end, which is
\* applied first (BinDiff.cpp:55-71).
LEMMA ApplyDef ==
  ASSUME NEW r, NEW ps, Len(ps) \in Nat
  PROVE  \E f : Applying(f, r, ps) /\ applyPatches(r, ps) = f[Len(ps)]
<1> DEFINE Run(f, m) ==
      f = [n \in 0 .. m |-> IF n = 0 THEN r ELSE ApplyPatch(f[n - 1], ps[Len(ps) - n + 1])]
<1> DEFINE N == {m \in Nat : \E f : Run(f, m)}
<1>1. 0 \in N
  <2>1. Run([n \in 0 .. 0 |-> r], 0)
    OBVIOUS
  <2> QED BY <2>1
<1>2. ASSUME NEW m \in Nat, m \in N PROVE m + 1 \in N
  <2>1. PICK f : Run(f, m)
    BY <1>2
  <2> DEFINE p == ps[Len(ps) - (m + 1) + 1]
             g == [n \in 0 .. m + 1 |-> IF n = m + 1 THEN ApplyPatch(f[m], p) ELSE f[n]]
  <2>2. Run(g, m + 1)
    <3>1. ASSUME NEW n \in 0 .. m + 1
          PROVE  g[n] = IF n = 0 THEN r ELSE ApplyPatch(g[n - 1], ps[Len(ps) - n + 1])
      <4>1. CASE n = m + 1
        <5>1. g[n - 1] = f[m] /\ g[n] = ApplyPatch(f[m], p)
          BY <4>1
        <5> QED BY <4>1, <5>1
      <4>2. CASE n # m + 1
        <5>1. n \in 0 .. m /\ g[n] = f[n] /\ (n # 0 => g[n - 1] = f[n - 1])
          BY <4>2
        <5>2. f[n] = IF n = 0 THEN r ELSE ApplyPatch(f[n - 1], ps[Len(ps) - n + 1])
          BY <2>1, <5>1
        <5> QED BY <5>1, <5>2
      <4> QED BY <4>1, <4>2
    <3>2. g = [n \in 0 .. m + 1 |-> g[n]]
      OBVIOUS
    <3> HIDE DEF g
    <3>3. [n \in 0 .. m + 1 |-> g[n]]
          = [n \in 0 .. m + 1 |-> IF n = 0 THEN r ELSE ApplyPatch(g[n - 1], ps[Len(ps) - n + 1])]
      BY <3>1
    <3> QED BY <3>2, <3>3
  <2> HIDE DEF Run, g
  <2> QED BY <2>2
<1> HIDE DEF N
<1>3. Len(ps) \in N
  BY <1>1, <1>2, SetInduction
<1>4. \E f : Run(f, Len(ps))
  BY <1>3 DEF N
<1> DEFINE apply == CHOOSE f : Run(f, Len(ps))
<1>5. Run(apply, Len(ps))
  BY <1>4
<1>6. applyPatches(r, ps) = apply[Len(ps)]
  BY DEF applyPatches
<1> HIDE DEF apply
<1> DEFINE L == Len(ps)
<1>7. \A n \in 0 .. L :
        apply[n] = IF n = 0 THEN r ELSE ApplyPatch(apply[n - 1], ps[L - n + 1])
  BY <1>5
<1>8. apply[0] = r
  BY <1>7
<1>9. ASSUME NEW n \in 0 .. L - 1 PROVE apply[n + 1] = ApplyPatch(apply[n], ps[L - n])
  <2>1. n + 1 \in 0 .. L /\ n + 1 # 0 /\ n + 1 - 1 = n /\ L - (n + 1) + 1 = L - n
    OBVIOUS
  <2>2. apply[n + 1]
        = IF n + 1 = 0 THEN r ELSE ApplyPatch(apply[n + 1 - 1], ps[L - (n + 1) + 1])
    BY <1>7, <2>1
  <2> QED BY <2>1, <2>2
<1> QED BY <1>6, <1>8, <1>9 DEF Applying

\* No patch changes nothing (BinDiff.cpp:57).
LEMMA ApplyNone ==
  ASSUME NEW r PROVE applyPatches(r, <<>>) = r
<1>1. Len(<<>>) = 0
  OBVIOUS
<1>2. PICK f : Applying(f, r, <<>>) /\ applyPatches(r, <<>>) = f[Len(<<>>)]
  BY <1>1, ApplyDef
<1> QED BY <1>1, <1>2 DEF Applying

\* The last patch is applied first (BinDiff.cpp:55-57).
LEMMA ApplyOneMore ==
  ASSUME NEW r, NEW P, NEW ps \in Seq(P), NEW p \in P
  PROVE  applyPatches(r, Append(ps, p)) = applyPatches(ApplyPatch(r, p), ps)
<1> DEFINE L == Len(ps)
           more == Append(ps, p)
           a == ApplyPatch(r, p)
<1>1. L \in Nat /\ Len(more) = L + 1 /\ more[L + 1] = p /\ \A n \in 1 .. L : more[n] = ps[n]
  OBVIOUS
<1> HIDE DEF more, a
<1>2. PICK f : Applying(f, a, ps) /\ applyPatches(a, ps) = f[Len(ps)]
  BY <1>1, ApplyDef
<1>3. PICK g : Applying(g, r, more) /\ applyPatches(r, more) = g[Len(more)]
  <2>1. Len(more) \in Nat
    BY <1>1
  <2> QED BY <2>1, ApplyDef
<1>4. /\ f[0] = a
      /\ \A n \in 0 .. L - 1 : f[n + 1] = ApplyPatch(f[n], ps[L - n])
      /\ applyPatches(a, ps) = f[L]
  BY <1>2 DEF Applying
<1>5. /\ g[0] = r
      /\ \A n \in 0 .. L + 1 - 1 : g[n + 1] = ApplyPatch(g[n], more[L + 1 - n])
      /\ applyPatches(r, more) = g[L + 1]
  BY <1>1, <1>3 DEF Applying
<1> HIDE DEF L
<1> DEFINE N == {n \in Nat : n <= L => g[n + 1] = f[n]}
<1>6. 0 \in N
  <2>1. 0 \in 0 .. L + 1 - 1 /\ 0 + 1 = 1 /\ L + 1 - 0 = L + 1
    BY <1>1
  <2>2. g[0 + 1] = ApplyPatch(g[0], more[L + 1 - 0])
    BY <1>5, <2>1
  <2>3. g[0] = r /\ g[1] = ApplyPatch(g[0], more[L + 1])
    BY <1>5, <2>1, <2>2
  <2> QED BY <1>1, <1>4, <2>3 DEF a
<1>7. ASSUME NEW n \in Nat, n \in N PROVE n + 1 \in N
  <2>1. SUFFICES ASSUME n + 1 <= L PROVE g[n + 2] = f[n + 1]
    OBVIOUS
  <2>2. g[n + 1] = f[n]
    BY <1>1, <1>7, <2>1
  <2>3. /\ n \in 0 .. L - 1 /\ n + 1 \in 0 .. L + 1 - 1 /\ L - n \in 1 .. L
        /\ L + 1 - (n + 1) = L - n /\ n + 1 + 1 = n + 2
    BY <1>1, <2>1
  <2>4. f[n + 1] = ApplyPatch(f[n], ps[L - n])
    BY <1>4, <2>3
  <2>5. g[n + 1 + 1] = ApplyPatch(g[n + 1], more[L + 1 - (n + 1)])
    BY <1>5, <2>3
  <2>6. more[L - n] = ps[L - n]
    BY <1>1, <2>3
  <2> QED BY <2>2, <2>3, <2>4, <2>5, <2>6
<1> HIDE DEF N
<1>8. L \in N
  BY <1>1, <1>6, <1>7, SetInduction
<1>9. g[L + 1] = f[L]
  BY <1>1, <1>8 DEF N
<1> QED BY <1>1, <1>4, <1>5, <1>9 DEF more, a

\* Each patch fits at its turn: no patch, and one patch more at the end.
LEMMA FitNone ==
  ASSUME NEW r PROVE AllFit(r, <<>>)
BY DEF AllFit

\* The patches that are applied before the k-th one.
LEMMA Later ==
  ASSUME NEW P, NEW ps \in Seq(P), NEW p \in P, NEW k \in 1 .. Len(ps)
  PROVE  SubSeq(Append(ps, p), k + 1, Len(ps) + 1) = Append(SubSeq(ps, k + 1, Len(ps)), p)
         /\ SubSeq(ps, k + 1, Len(ps)) \in Seq(P)
<1> DEFINE L == Len(ps)
           more == Append(ps, p)
           x == SubSeq(more, k + 1, L + 1)
           y == SubSeq(ps, k + 1, L)
<1>1. L \in Nat /\ Len(more) = L + 1 /\ more[L + 1] = p /\ \A n \in 1 .. L : more[n] = ps[n]
  OBVIOUS
<1>2. y \in Seq(P) /\ Len(y) = L - k /\ \A i \in 1 .. L - k : y[i] = ps[k + i]
  BY <1>1
<1>3. x \in Seq(P) /\ Len(x) = L - k + 1 /\ \A i \in 1 .. L - k + 1 : x[i] = more[k + i]
  BY <1>1
<1>4. Append(y, p) \in Seq(P) /\ Len(Append(y, p)) = L - k + 1
      /\ \A i \in 1 .. L - k + 1 : Append(y, p)[i] = IF i = L - k + 1 THEN p ELSE y[i]
  BY <1>2, AppendProperties
<1> HIDE DEF x, y, more
<1>5. ASSUME NEW i \in 1 .. L - k + 1 PROVE x[i] = Append(y, p)[i]
  <2>1. CASE i = L - k + 1
    BY <1>1, <1>3, <1>4, <2>1
  <2>2. CASE i # L - k + 1
    <3>1. i \in 1 .. L - k /\ k + i \in 1 .. L
      BY <1>1, <2>2
    <3> QED BY <1>1, <1>2, <1>3, <1>4, <2>2, <3>1
  <2> QED BY <2>1, <2>2
<1>6. x = Append(y, p)
  BY <1>3, <1>4, <1>5, SeqEqual
<1> QED BY <1>2, <1>6 DEF x, y, more

\* All of a list fit if the last fits and the others fit what it leaves
\* (BinDiff.cpp:55-72).
LEMMA FitOneMore ==
  ASSUME NEW r, NEW P, NEW ps \in Seq(P), NEW p \in P
  PROVE  AllFit(r, Append(ps, p)) <=> Fits(r, p) /\ AllFit(ApplyPatch(r, p), ps)
<1> DEFINE L == Len(ps)
           more == Append(ps, p)
           Fit(k) == Fits(applyPatches(r, SubSeq(more, k + 1, L + 1)), more[k])
<1>1. L \in Nat /\ Len(more) = L + 1 /\ more[L + 1] = p /\ \A n \in 1 .. L : more[n] = ps[n]
  OBVIOUS
<1>2. SubSeq(more, L + 1 + 1, L + 1) = <<>>
  OBVIOUS
<1>3. ASSUME NEW k \in 1 .. L
      PROVE  Fit(k) <=> Fits(applyPatches(ApplyPatch(r, p), SubSeq(ps, k + 1, L)), ps[k])
  <2>1. PICK y \in Seq(P) : y = SubSeq(ps, k + 1, L) /\ SubSeq(more, k + 1, L + 1) = Append(y, p)
    BY Later
  <2> HIDE DEF more
  <2>2. applyPatches(r, Append(y, p)) = applyPatches(ApplyPatch(r, p), y)
    BY ApplyOneMore
  <2> QED BY <1>1, <2>1, <2>2
<1> HIDE DEF more
<1>4. Fit(L + 1) <=> Fits(r, p)
  BY <1>1, <1>2, ApplyNone
<1>5. AllFit(r, more) <=> \A k \in 1 .. L + 1 : Fit(k)
  BY <1>1 DEF AllFit
<1>6. AllFit(ApplyPatch(r, p), ps)
      <=> \A k \in 1 .. L : Fits(applyPatches(ApplyPatch(r, p), SubSeq(ps, k + 1, L)), ps[k])
  BY DEF AllFit
<1>7. (\A k \in 1 .. L + 1 : Fit(k)) <=> Fit(L + 1) /\ \A k \in 1 .. L : Fit(k)
  <2> HIDE DEF Fit
  <2>1. 1 .. L + 1 = (1 .. L) \cup {L + 1}
    BY <1>1
  <2> QED BY <2>1
<1> HIDE DEF Fit
<1>8. AllFit(r, more) <=> Fits(r, p) /\ AllFit(ApplyPatch(r, p), ps)
  BY <1>3, <1>4, <1>5, <1>6, <1>7
<1> QED BY <1>8 DEF more

-----------------------------------------------------------------------------
\* A patch of bytes of B.
Patch(B) == [start : Nat, size : Nat, buf : Seq(B)]

\* The patch of u for c, behind a.
Replace(a, c, u) == [start |-> Len(a), size |-> Len(c), buf |-> u]

\* It fits a buffer that has c there, and does what it is for.
Replaced(a, c, u, t) ==
  /\ Fits(a \o (c \o t), Replace(a, c, u))
  /\ ApplyPatch(a \o (c \o t), Replace(a, c, u)) = a \o (u \o t)

\* The patches are disjoint, ascending, and inside the first m bytes.
Ordered(ps, m) ==
  \A k \in 1 .. Len(ps) :
    /\ ps[k].start + ps[k].size <= m
    /\ k < Len(ps) => ps[k].start + ps[k].size <= ps[k + 1].start

\* The patches turn a into b, whatever comes behind a, and each fits at its turn.
Rewrites(B, ps, a, b) ==
  /\ Ordered(ps, Len(a))
  /\ \A t \in Seq(B) : applyPatches(a \o t, ps) = b \o t /\ AllFit(a \o t, ps)

\* A patch that fits leaves a buffer of bytes; one that does not would write or read
\* behind it.
LEMMA PatchType ==
  ASSUME NEW B, NEW r \in Seq(B), NEW p \in Patch(B), Fits(r, p)
  PROVE  ApplyPatch(r, p) \in Seq(B)
<1> DEFINE u == p.buf
           L == Len(r)
           n == L + Len(u) - p.size
           v == ApplyPatch(r, p)
<1>1. /\ u \in Seq(B) /\ p.start \in Nat /\ p.size \in Nat /\ L \in Nat /\ Len(u) \in Nat
      /\ \A i \in 1 .. Len(u) : u[i] \in B
  BY DEF Patch
<1>2. \A i \in 1 .. L : r[i] \in B
  OBVIOUS
<1>3. p.start + p.size <= L
  BY DEF Fits
<1>4. v = [i \in 1 .. n |->
             CASE p.start < i /\ i <= p.start + Len(u) -> u[i - p.start]
               [] i > p.start + Len(u) /\ p.size # Len(u) /\ p.start + p.size < L
                    -> r[i + (p.size - Len(u))]
               [] OTHER -> r[i]]
  BY DEF ApplyPatch
<1> HIDE DEF u, L, v
<1>5. n \in Nat
  BY <1>1, <1>3
<1>6. ASSUME NEW i \in 1 .. n PROVE v[i] \in B
  <2>1. CASE i <= p.start
    <3>1. v[i] = r[i] /\ i \in 1 .. L
      BY <1>1, <1>3, <1>4, <2>1
    <3> QED BY <1>2, <3>1
  <2>2. CASE p.start < i /\ i <= p.start + Len(u)
    <3>1. v[i] = u[i - p.start] /\ i - p.start \in 1 .. Len(u)
      BY <1>1, <1>4, <2>2
    <3> QED BY <1>1, <3>1
  <2>3. CASE i > p.start + Len(u)
    <3>1. i + (p.size - Len(u)) \in 1 .. L /\ p.start + p.size < L
      BY <1>1, <1>3, <2>3
    <3>2. v[i] = r[i + (p.size - Len(u))]
      <4>1. CASE p.size # Len(u)
        BY <1>1, <1>4, <2>3, <3>1, <4>1
      <4>2. CASE p.size = Len(u)
        <5>1. v[i] = r[i] /\ i + (p.size - Len(u)) = i
          BY <1>1, <1>4, <2>3, <4>2
        <5> QED BY <5>1
      <4> QED BY <4>1, <4>2
    <3> QED BY <1>2, <3>1, <3>2
  <2> QED BY <1>1, <2>1, <2>2, <2>3
<1> HIDE DEF n
<1>7. v = [i \in 1 .. n |-> v[i]]
  BY <1>4
<1>8. v \in [1 .. n -> B]
  BY <1>6, <1>7
<1>9. v \in Seq(B)
  BY <1>5, <1>8, SeqDef
<1> QED BY <1>9 DEF v

\* Patches that fit, each at its turn, leave a buffer of bytes.
LEMMA PatchesType ==
  ASSUME NEW B, NEW r \in Seq(B), NEW ps \in Seq(Patch(B)), AllFit(r, ps)
  PROVE  applyPatches(r, ps) \in Seq(B)
<1> DEFINE X == {q \in Seq(Patch(B)) :
                   \A s \in Seq(B) : AllFit(s, q) => applyPatches(s, q) \in Seq(B)}
<1>1. <<>> \in X
  BY ApplyNone
<1>2. ASSUME NEW q \in Seq(Patch(B)), NEW p \in Patch(B), q \in X PROVE Append(q, p) \in X
  <2>1. Append(q, p) \in Seq(Patch(B))
    OBVIOUS
  <2>2. ASSUME NEW s \in Seq(B), AllFit(s, Append(q, p))
        PROVE  applyPatches(s, Append(q, p)) \in Seq(B)
    <3>1. Fits(s, p) /\ AllFit(ApplyPatch(s, p), q)
      BY <2>2, FitOneMore
    <3>2. ApplyPatch(s, p) \in Seq(B)
      BY <3>1, PatchType
    <3>3. applyPatches(s, Append(q, p)) = applyPatches(ApplyPatch(s, p), q)
      BY ApplyOneMore
    <3> QED BY <1>2, <3>1, <3>2, <3>3
  <2> QED BY <2>1, <2>2
<1> HIDE DEF X
<1>3. ps \in X
  BY <1>1, <1>2, SeqInduction
<1> QED BY <1>3 DEF X

\* Joined sequences and sequences of one element, whose definitions the proofs below
\* keep folded.
Cat(a, b) == a \o b
One(h) == <<h>>

\* Joining is associative.
LEMMA CatCat ==
  ASSUME NEW B, NEW a \in Seq(B), NEW b \in Seq(B), NEW c \in Seq(B)
  PROVE  Cat(Cat(a, b), c) = Cat(a, Cat(b, c))
BY ConcatAssociative DEF Cat

\* Where the elements of three joined sequences are.
LEMMA Concat3 ==
  ASSUME NEW B, NEW a \in Seq(B), NEW c \in Seq(B), NEW t \in Seq(B),
         NEW x, x = a \o (c \o t)
  PROVE  /\ x \in Seq(B) /\ Len(x) = Len(a) + Len(c) + Len(t)
         /\ \A i \in 1 .. Len(a) : x[i] = a[i]
         /\ \A i \in 1 .. Len(c) : x[Len(a) + i] = c[i]
         /\ \A i \in 1 .. Len(t) : x[Len(a) + Len(c) + i] = t[i]
<1> DEFINE y == c \o t
<1>1. y \in Seq(B) /\ Len(y) = Len(c) + Len(t)
      /\ \A i \in 1 .. Len(c) + Len(t) : y[i] = IF i <= Len(c) THEN c[i] ELSE t[i - Len(c)]
  BY ConcatProperties
<1> HIDE DEF y
<1>2. y \in Seq(B) /\ x = a \o y
  BY <1>1 DEF y
<1>3. x \in Seq(B) /\ Len(x) = Len(a) + Len(y)
      /\ \A i \in 1 .. Len(a) + Len(y) : x[i] = IF i <= Len(a) THEN a[i] ELSE y[i - Len(a)]
  BY <1>2, ConcatProperties
<1>4. Len(a) \in Nat /\ Len(c) \in Nat /\ Len(t) \in Nat
  OBVIOUS
<1>5. Len(x) = Len(a) + Len(c) + Len(t)
  BY <1>1, <1>3, <1>4
<1>6. ASSUME NEW i \in 1 .. Len(a) PROVE x[i] = a[i]
  BY <1>1, <1>3, <1>4
<1>7. ASSUME NEW i \in 1 .. Len(c) PROVE x[Len(a) + i] = c[i]
  <2>1. Len(a) + i \in 1 .. Len(a) + Len(y) /\ Len(a) + i > Len(a) /\ Len(a) + i - Len(a) = i
        /\ i \in 1 .. Len(c) + Len(t)
    BY <1>1, <1>4
  <2> QED BY <1>1, <1>3, <2>1
<1>8. ASSUME NEW i \in 1 .. Len(t) PROVE x[Len(a) + Len(c) + i] = t[i]
  <2> DEFINE j == Len(a) + Len(c) + i
             k == Len(c) + i
  <2>1. j \in 1 .. Len(a) + Len(y) /\ j \in Nat /\ ~(j <= Len(a)) /\ j - Len(a) = k
        /\ k \in 1 .. Len(c) + Len(t) /\ k > Len(c) /\ k - Len(c) = i
    BY <1>1, <1>4
  <2> HIDE DEF j, k
  <2>2. x[j] = y[k]
    <3>1. x[j] = IF j <= Len(a) THEN a[j] ELSE y[j - Len(a)]
      BY <1>3, <2>1
    <3> QED BY <2>1, <3>1
  <2>3. y[k] = t[i]
    BY <1>1, <1>4, <2>1
  <2> QED BY <2>2, <2>3 DEF j
<1> QED BY <1>3, <1>5, <1>6, <1>7, <1>8

\* One patch replaces the bytes it is for by its own, whether they are fewer or
\* more, and moves those behind them (BinDiff.cpp:58-69).
LEMMA OnePatch ==
  ASSUME NEW B, NEW a \in Seq(B), NEW c \in Seq(B), NEW t \in Seq(B), NEW u \in Seq(B)
  PROVE  Replaced(a, c, u, t)
<1> DEFINE p == Replace(a, c, u)
           r == a \o (c \o t)
           w == a \o (u \o t)
<1> DEFINE A == Len(a)
           C == Len(c)
           T == Len(t)
           U == Len(u)
<1>1. A \in Nat /\ C \in Nat /\ T \in Nat /\ U \in Nat
  OBVIOUS
<1>2. p.start = A /\ p.size = C /\ Len(p.buf) = U /\ p.buf = u
  BY DEF Replace
<1>3. /\ Len(r) = A + C + T
      /\ \A i \in 1 .. A : r[i] = a[i]
      /\ \A i \in 1 .. T : r[A + C + i] = t[i]
  BY Concat3
<1>4. /\ w \in Seq(B) /\ Len(w) = A + U + T
      /\ \A i \in 1 .. A : w[i] = a[i]
      /\ \A i \in 1 .. U : w[A + i] = u[i]
      /\ \A i \in 1 .. T : w[A + U + i] = t[i]
  BY Concat3
<1>5. /\ Len(r) = A + C + T /\ Len(w) = A + U + T /\ w \in Seq(B)
      /\ \A i \in 1 .. A : r[i] = a[i] /\ w[i] = a[i]
      /\ \A i \in 1 .. U : w[A + i] = u[i]
      /\ \A i \in 1 .. T : r[A + C + i] = t[i] /\ w[A + U + i] = t[i]
  BY <1>3, <1>4
<1> HIDE DEF p, r, w, A, C, T, U
<1>6. Fits(r, p)
  BY <1>1, <1>2, <1>5 DEF Fits
<1> DEFINE v == ApplyPatch(r, p)
<1>7. v = [i \in 1 .. A + U + T |->
              CASE A < i /\ i <= A + U -> u[i - A]
                [] i > A + U /\ C # U /\ A + C < Len(r) -> r[i + (C - U)]
                [] OTHER -> r[i]]
  <2>1. Len(r) + Len(p.buf) - p.size = A + U + T
    BY <1>1, <1>2, <1>5
  <2> QED BY <1>2, <2>1 DEF ApplyPatch
<1> HIDE DEF v
<1>8. ASSUME NEW i \in 1 .. A + U + T PROVE v[i] = w[i]
  <2>1. CASE i <= A
    <3>1. v[i] = r[i] /\ i \in 1 .. A
      BY <1>1, <1>7, <2>1
    <3> QED BY <1>5, <3>1
  <2>2. CASE A < i /\ i <= A + U
    <3>1. v[i] = u[i - A] /\ i - A \in 1 .. U /\ A + (i - A) = i
      BY <1>1, <1>7, <2>2
    <3>2. w[A + (i - A)] = u[i - A]
      BY <1>5, <3>1
    <3> QED BY <3>1, <3>2
  <2>3. CASE i > A + U
    <3> DEFINE k == i - A - U
    <3>1. k \in 1 .. T /\ A + U + k = i /\ A + C + k = i + (C - U) /\ A + C < Len(r)
      BY <1>1, <1>5, <2>3
    <3> HIDE DEF k
    <3>2. v[i] = r[i + (C - U)]
      <4>1. CASE C # U
        BY <1>1, <1>7, <2>3, <3>1, <4>1
      <4>2. CASE C = U
        <5>1. v[i] = r[i] /\ i + (C - U) = i
          BY <1>1, <1>7, <2>3, <4>2
        <5> QED BY <5>1
      <4> QED BY <4>1, <4>2
    <3>3. r[A + C + k] = t[k] /\ w[A + U + k] = t[k]
      BY <1>5, <3>1
    <3> QED BY <3>1, <3>2, <3>3
  <2> QED BY <1>1, <2>1, <2>2, <2>3
<1>9. v = [i \in 1 .. A + U + T |-> w[i]]
  <2>1. v = [i \in 1 .. A + U + T |-> v[i]]
    BY <1>7
  <2> QED BY <1>8, <2>1
<1>10. w = [i \in 1 .. A + U + T |-> w[i]]
  BY <1>5
<1> QED BY <1>6, <1>9, <1>10 DEF p, r, w, v, Replaced

\* Patches of a stream serve a longer one that goes on with the same bytes.
LEMMA RewritesMore ==
  ASSUME NEW B, NEW ps \in Seq(Patch(B)), NEW a \in Seq(B), NEW b \in Seq(B), NEW e \in Seq(B),
         Rewrites(B, ps, a, b)
  PROVE  Rewrites(B, ps, a \o e, b \o e)
<1>1. a \o e \in Seq(B) /\ Len(a) <= Len(a \o e) /\ Len(a \o e) \in Nat
  BY ConcatProperties
<1>2. ASSUME NEW t \in Seq(B)
      PROVE  applyPatches((a \o e) \o t, ps) = (b \o e) \o t /\ AllFit((a \o e) \o t, ps)
  <2>1. (a \o e) \o t = a \o (e \o t)
    <3>1. Cat(Cat(a, e), t) = Cat(a, Cat(e, t))
      BY CatCat
    <3> QED BY <3>1 DEF Cat
  <2>2. (b \o e) \o t = b \o (e \o t)
    <3>1. Cat(Cat(b, e), t) = Cat(b, Cat(e, t))
      BY CatCat
    <3> QED BY <3>1 DEF Cat
  <2>3. e \o t \in Seq(B)
    BY ConcatProperties
  <2> QED BY <2>1, <2>2, <2>3 DEF Rewrites
<1>3. Ordered(ps, Len(a \o e))
  <2>1. ASSUME NEW k \in 1 .. Len(ps) PROVE ps[k].start + ps[k].size \in Nat
    <3>1. ps[k] \in Patch(B)
      BY ElementOfSeq, Zenon
    <3> QED BY <3>1 DEF Patch
  <2>2. Ordered(ps, Len(a)) /\ Len(a) \in Nat
    BY DEF Rewrites
  <2> QED BY <1>1, <2>1, <2>2 DEF Ordered
<1> QED BY <1>2, <1>3 DEF Rewrites

\* One patch more, for the bytes that follow.
LEMMA RewritesPatch ==
  ASSUME NEW B, NEW ps \in Seq(Patch(B)), NEW a \in Seq(B), NEW b \in Seq(B), NEW c \in Seq(B),
         NEW u \in Seq(B), Rewrites(B, ps, a, b)
  PROVE  Rewrites(B, Append(ps, Replace(a, c, u)), a \o c, b \o u)
<1> DEFINE p == Replace(a, c, u)
           more == Append(ps, p)
           L == Len(ps)
<1>1. p \in Patch(B) /\ p.start = Len(a) /\ p.size = Len(c)
  BY DEF Replace, Patch
<1> HIDE DEF p
<1>2. L \in Nat /\ Len(more) = L + 1 /\ more[L + 1] = p /\ \A n \in 1 .. L : more[n] = ps[n]
  BY <1>1
<1>3. ASSUME NEW t \in Seq(B)
      PROVE  applyPatches((a \o c) \o t, more) = (b \o u) \o t
             /\ AllFit((a \o c) \o t, more)
  <2>1. (a \o c) \o t = a \o (c \o t)
    <3>1. Cat(Cat(a, c), t) = Cat(a, Cat(c, t))
      BY CatCat
    <3> QED BY <3>1 DEF Cat
  <2>2. (b \o u) \o t = b \o (u \o t)
    <3>1. Cat(Cat(b, u), t) = Cat(b, Cat(u, t))
      BY CatCat
    <3> QED BY <3>1 DEF Cat
  <2>3. u \o t \in Seq(B)
    BY ConcatProperties
  <2>4. Fits(a \o (c \o t), p) /\ ApplyPatch(a \o (c \o t), p) = a \o (u \o t)
    <3>1. Replaced(a, c, u, t)
      BY OnePatch
    <3> QED BY <3>1 DEF Replaced, p
  <2>5. applyPatches(a \o (u \o t), ps) = b \o (u \o t) /\ AllFit(a \o (u \o t), ps)
    BY <2>3 DEF Rewrites
  <2>6. applyPatches(a \o (c \o t), more) = applyPatches(a \o (u \o t), ps)
    <3>1. applyPatches(a \o (c \o t), more) = applyPatches(ApplyPatch(a \o (c \o t), p), ps)
      BY <1>1, ApplyOneMore
    <3> QED BY <2>4, <3>1
  <2>7. AllFit(a \o (c \o t), more)
    <3>1. PICK r : r = a \o (c \o t)
      OBVIOUS
    <3>2. Fits(r, p) /\ AllFit(ApplyPatch(r, p), ps)
      BY <2>4, <2>5, <3>1
    <3> HIDE DEF more
    <3>3. AllFit(r, Append(ps, p))
      BY <1>1, <3>2, FitOneMore
    <3> QED BY <3>1, <3>3 DEF more
  <2> QED BY <2>1, <2>2, <2>5, <2>6, <2>7
<1> HIDE DEF more
<1>4. Len(a \o c) = Len(a) + Len(c) /\ Len(a) \in Nat /\ Len(c) \in Nat
  BY ConcatProperties
<1>5. Ordered(more, Len(a \o c))
  <2>1. ASSUME NEW k \in 1 .. L
        PROVE  /\ ps[k].start + ps[k].size <= Len(a) /\ ps[k].start + ps[k].size \in Nat
               /\ k < L => ps[k].start + ps[k].size <= ps[k + 1].start
    <3>1. ps[k] \in Patch(B)
      BY ElementOfSeq, Zenon
    <3>2. ps[k].start + ps[k].size \in Nat
      BY <3>1 DEF Patch
    <3>3. Ordered(ps, Len(a))
      BY DEF Rewrites
    <3> QED BY <3>2, <3>3 DEF Ordered
  <2>2. SUFFICES ASSUME NEW k \in 1 .. L + 1
                 PROVE  /\ more[k].start + more[k].size <= Len(a) + Len(c)
                        /\ k < L + 1 => more[k].start + more[k].size <= more[k + 1].start
    BY <1>2, <1>4 DEF Ordered
  <2>3. CASE k = L + 1
    BY <1>1, <1>2, <1>4, <2>3
  <2>4. CASE k \in 1 .. L /\ k = L
    <3>1. more[k] = ps[k] /\ more[k + 1] = p
      BY <1>2, <2>4
    <3> QED BY <1>1, <1>4, <2>1, <2>4, <3>1
  <2>5. CASE k \in 1 .. L /\ k # L
    <3>1. k < L /\ more[k] = ps[k] /\ more[k + 1] = ps[k + 1]
      BY <1>2, <2>5
    <3> QED BY <1>4, <2>1, <2>5, <3>1
  <2> QED BY <1>2, <2>3, <2>4, <2>5
<1> QED BY <1>3, <1>5 DEF Rewrites, more, p

-----------------------------------------------------------------------------
\* The states of a BinDiff over bytes of B.
State(B) == [cur : Nat, srcdiff : Int, patches : Seq(Patch(B)), patchClosed : BOOLEAN]

\* The fields of a BinDiff.
IsState(B, d, cur, srcdiff, ps, patchClosed) ==
  /\ d \in State(B)
  /\ d.cur = cur /\ d.srcdiff = srcdiff /\ d.patches = ps /\ d.patchClosed = patchClosed
Opens(B, d, cur, srcdiff, ps) == IsState(B, d, cur, srcdiff, ps, FALSE)

\* src and fed, cut where the last patch begins: those before it turn a into b, and
\* it replaces c by u, while rest is still to come.  At the end of src it may have
\* more bytes than it replaces.
Cut(B, ps, a, c, rest, b, u, src, fed) ==
  /\ src = Cat(a, Cat(c, rest)) /\ fed = Cat(b, u)
  /\ Len(b) = Len(a) /\ Len(c) <= Len(u)
  /\ rest # <<>> => Len(c) = Len(u)
  /\ Rewrites(B, ps, a, b)

\* No patch is open: c and u are empty.
IsClosed(B, d, ps, a, rest, src, fed) ==
  /\ IsState(B, d, Len(fed), NoDiff, ps, TRUE)
  /\ Cut(B, ps, a, <<>>, rest, fed, <<>>, src, fed)

\* One is open: in the middle of src some byte was different.
IsOpen(B, d, ps, a, c, rest, b, u, src, fed) ==
  /\ IsState(B, d, Len(fed), d.srcdiff, Append(ps, Replace(a, c, u)), FALSE)
  /\ Cut(B, ps, a, c, rest, b, u, src, fed)
  /\ rest # <<>> => d.srcdiff # NoDiff

\* d is what put() makes of a new BinDiff when it is fed the bytes fed.
Partial(B, d, src, fed) ==
  \E ps \in Seq(Patch(B)), a \in Seq(B), rest \in Seq(B) :
    \/ IsClosed(B, d, ps, a, rest, src, fed)
    \/ \E c \in Seq(B), b \in Seq(B), u \in Seq(B) : IsOpen(B, d, ps, a, c, rest, b, u, src, fed)

\* What is used of them.
LEMMA CatType ==
  ASSUME NEW B, NEW a \in Seq(B), NEW b \in Seq(B)
  PROVE  Cat(a, b) \in Seq(B) /\ Len(Cat(a, b)) = Len(a) + Len(b) /\ Len(a) \in Nat /\ Len(b) \in Nat
BY ConcatProperties DEF Cat

\* Nothing is joined.
LEMMA CatNone ==
  ASSUME NEW B, NEW a \in Seq(B)
  PROVE  Cat(a, <<>>) = a /\ Cat(<<>>, a) = a /\ <<>> \in Seq(B) /\ Len(<<>>) = 0
BY ConcatEmptySeq DEF Cat

\* One byte is joined, which is what push_back does to a buffer (BinDiff.cpp:17,35).
LEMMA CatOne ==
  ASSUME NEW B, NEW a \in Seq(B), NEW h \in B
  PROVE  /\ One(h) \in Seq(B) /\ Len(One(h)) = 1 /\ One(h) # <<>>
         /\ Append(a, h) = Cat(a, One(h))
<1>1. Append(a, h) = a \o <<h>>
  BY AppendIsConcat
<1> QED BY <1>1 DEF One, Cat

\* The byte behind a.
LEMMA CatAt ==
  ASSUME NEW B, NEW a \in Seq(B), NEW h \in B, NEW t \in Seq(B)
  PROVE  /\ Cat(a, Cat(One(h), t))[Len(a) + 1] = h
         /\ Len(Cat(a, Cat(One(h), t))) = Len(a) + 1 + Len(t)
         /\ Cat(One(h), t) # <<>>
<1>1. <<h>> \in Seq(B) /\ Len(<<h>>) = 1
  OBVIOUS
<1>2. Len(a) \in Nat /\ Len(t) \in Nat
  OBVIOUS
<1> DEFINE x == a \o (<<h>> \o t)
<1>3. /\ Len(x) = Len(a) + Len(<<h>>) + Len(t)
      /\ \A i \in 1 .. Len(<<h>>) : x[Len(a) + i] = <<h>>[i]
  BY <1>1, Concat3
<1> HIDE DEF x
<1>4. x[Len(a) + 1] = h /\ Len(x) = Len(a) + 1 + Len(t)
  BY <1>1, <1>2, <1>3
<1>5. <<h>> \o t # <<>>
  BY <1>1, ConcatEqualIffEmpty
<1> QED BY <1>4, <1>5 DEF x, Cat, One

\* A sequence that is not empty has a first element.
LEMMA CatFirst ==
  ASSUME NEW S, NEW q \in Seq(S), q # <<>>
  PROVE  \E h \in S, t \in Seq(S) : q = Cat(One(h), t)
<1>1. Len(q) \in Nat \ {0}
  BY EmptySeq
<1>2. SubSeq(q, 1, Len(q)) = <<q[1]>> \o SubSeq(q, 2, Len(q))
  BY <1>1, SubSeqRecursiveFirst
<1>3. SubSeq(q, 1, Len(q)) = q
  BY SubSeqFull
<1>4. SubSeq(q, 2, Len(q)) \in Seq(S)
  BY <1>1, SubSeqProperties
<1>5. q[1] \in S
  BY <1>1
<1> QED BY <1>2, <1>3, <1>4, <1>5 DEF Cat, One

\* The lemmas about patches, for joined sequences.
LEMMA CatMore ==
  ASSUME NEW B, NEW ps \in Seq(Patch(B)), NEW a \in Seq(B), NEW b \in Seq(B), NEW e \in Seq(B),
         Rewrites(B, ps, a, b)
  PROVE  Rewrites(B, ps, Cat(a, e), Cat(b, e))
BY RewritesMore DEF Cat

\* A patch more rewrites what follows (BinDiff.cpp:26-35).
LEMMA CatPatch ==
  ASSUME NEW B, NEW ps \in Seq(Patch(B)), NEW a \in Seq(B), NEW b \in Seq(B), NEW c \in Seq(B),
         NEW u \in Seq(B), Rewrites(B, ps, a, b)
  PROVE  Rewrites(B, Append(ps, Replace(a, c, u)), Cat(a, c), Cat(b, u))
BY RewritesPatch DEF Cat

\* The constructor's state, fed nothing.
LEMMA NewPartial ==
  ASSUME NEW B, NEW src \in Seq(B) PROVE Partial(B, NewBinDiff, src, <<>>)
<1>1. Rewrites(B, <<>>, <<>>, <<>>)
  BY ApplyNone, FitNone, ConcatEmptySeq DEF Rewrites, Ordered
<1>2. /\ <<>> \in Seq(B) /\ <<>> \in Seq(Patch(B)) /\ Len(<<>>) = 0
      /\ <<>> = Cat(<<>>, <<>>) /\ src = Cat(<<>>, Cat(<<>>, src))
  BY ConcatEmptySeq DEF Cat
<1>3. IsState(B, NewBinDiff, Len(<<>>), NoDiff, <<>>, TRUE)
  BY DEF IsState, State, NewBinDiff, NoDiff
<1>4. Cut(B, <<>>, <<>>, <<>>, src, <<>>, <<>>, src, <<>>)
  BY <1>1, <1>2 DEF Cut
<1>5. IsClosed(B, NewBinDiff, <<>>, <<>>, src, src, <<>>)
  BY <1>3, <1>4 DEF IsClosed
<1> QED BY <1>2, <1>5 DEF Partial

-----------------------------------------------------------------------------
\* The last element of a sequence is replaced.
LEMMA AppendExcept ==
  ASSUME NEW S, NEW ps \in Seq(S), NEW p \in S, NEW q \in S
  PROVE  [Append(ps, p) EXCEPT ![Len(ps) + 1] = q] = Append(ps, q)
<1> DEFINE L == Len(ps)
           more == Append(ps, p)
           x == [more EXCEPT ![L + 1] = q]
           y == Append(ps, q)
<1>1. /\ L \in Nat /\ more \in Seq(S) /\ Len(more) = L + 1 /\ L + 1 \in 1 .. Len(more)
      /\ \A i \in 1 .. L : more[i] = ps[i]
  OBVIOUS
<1>2. y \in Seq(S) /\ Len(y) = L + 1 /\ y[L + 1] = q /\ \A i \in 1 .. L : y[i] = ps[i]
  OBVIOUS
<1> HIDE DEF more, y, L
<1>3. x \in Seq(S) /\ Len(x) = Len(more)
      /\ \A i \in 1 .. Len(more) : x[i] = IF i = L + 1 THEN q ELSE more[i]
  BY <1>1, ExceptSeq
<1> HIDE DEF x
<1>4. ASSUME NEW i \in 1 .. L + 1 PROVE x[i] = y[i]
  <2>1. CASE i = L + 1
    BY <1>1, <1>2, <1>3, <2>1
  <2>2. CASE i \in 1 .. L
    BY <1>1, <1>2, <1>3, <2>2
  <2> QED BY <1>1, <2>1, <2>2
<1>5. x = y
  BY <1>1, <1>2, <1>3, <1>4, SeqEqual
<1> QED BY <1>5 DEF x, y, more, L

\* A byte joins the last patch.
LEMMA ExtendedIs ==
  ASSUME NEW B, NEW ps \in Seq(Patch(B)), NEW p \in Patch(B), NEW byte \in B, NEW k \in Nat,
         NEW cur, NEW srcdiff, NEW closed, NEW d, IsState(B, d, cur, srcdiff, Append(ps, p), closed)
  PROVE  IsState(B, Extended(d, byte, k), cur, srcdiff,
            Append(ps, [start |-> p.start, size |-> p.size + k, buf |-> Append(p.buf, byte)]),
            closed)
<1> DEFINE more == Append(ps, p)
           L == Len(ps) + 1
           q == [start |-> p.start, size |-> p.size + k, buf |-> Append(p.buf, byte)]
<1>1. more[L] = p /\ L = Len(more)
  OBVIOUS
<1>2. q \in Patch(B)
  <2>1. Append(p.buf, byte) \in Seq(B) /\ p.size + k \in Nat
    BY DEF Patch
  <2> QED BY <2>1 DEF Patch
<1> HIDE DEF q
<1>3. [more EXCEPT ![L] = q] = Append(ps, q)
  BY <1>2, AppendExcept
<1>4. d.patches = more
  BY DEF IsState
<1> HIDE DEF more, L
<1>5. Extended(d, byte, k) = [d EXCEPT !.patches = [more EXCEPT ![L] = q]]
  BY <1>1, <1>4 DEF Extended, q
<1>6. IsState(B, [d EXCEPT !.patches = Append(ps, q)], cur, srcdiff, Append(ps, q), closed)
  <2>1. Append(ps, q) \in Seq(Patch(B))
    BY <1>2
  <2> QED BY <2>1 DEF IsState, State
<1> QED BY <1>3, <1>5, <1>6 DEF q

\* The last patch, if it is open, or a new one.
LEMMA OpenedIs ==
  ASSUME NEW B, NEW ps \in Seq(Patch(B)), NEW cur, NEW srcdiff, NEW d,
         IsState(B, d, cur, srcdiff, ps, TRUE)
  PROVE  IsState(B, Opened(d), cur, srcdiff,
            Append(ps, [start |-> cur, size |-> 0, buf |-> <<>>]), FALSE)
<1> DEFINE p == [start |-> cur, size |-> 0, buf |-> <<>>]
<1>1. p \in Patch(B)
  BY DEF Patch, IsState, State
<1>2. Append(ps, p) \in Seq(Patch(B))
  BY <1>1
<1>3. Opened(d) = [d EXCEPT !.patches = Append(ps, p), !.patchClosed = FALSE]
  BY DEF IsState, Opened
<1> HIDE DEF p
<1> QED BY <1>2, <1>3 DEF IsState, State, p

\* Past the end of src, a byte joins the open patch or a new one, in put().
LEMMA BytePast ==
  ASSUME NEW B, NEW d, NEW src, NEW byte, NEW cur \in Nat, NEW srcdiff, NEW ps, NEW closed,
         IsState(B, Extended(Opened(d), byte, 0), cur, srcdiff, ps, closed),
         Len(src) <= d.cur
  PROVE  IsState(B, PutByte(src, d, byte), cur + 1, srcdiff, ps, closed)
BY DEF PutByte, IsState, State

\* A byte that is not equal: likewise, and it is the last one that differs.
LEMMA ByteDiffers ==
  ASSUME NEW B, NEW d, NEW src, NEW byte, NEW cur \in Nat, NEW srcdiff, NEW ps, NEW closed,
         IsState(B, Extended(Opened([d EXCEPT !.srcdiff = d.cur]), byte, 1), cur, srcdiff, ps, closed),
         Len(src) > d.cur, src[d.cur + 1] # byte,
         Len(src) \in Nat, d.cur \in Nat
  PROVE  IsState(B, PutByte(src, d, byte), cur + 1, srcdiff, ps, closed)
BY DEF PutByte, IsState, State

\* An equal byte while the last that differed is near: likewise.
LEMMA ByteNear ==
  ASSUME NEW B, NEW d, NEW src, NEW byte, NEW cur \in Nat, NEW srcdiff, NEW ps, NEW closed,
         IsState(B, Extended(Opened(d), byte, 1), cur, srcdiff, ps, closed),
         Len(src) > d.cur, src[d.cur + 1] = byte,
         d.srcdiff # NoDiff, d.cur - d.srcdiff <= Gap,
         Len(src) \in Nat, d.cur \in Nat, d.srcdiff \in Int
  PROVE  IsState(B, PutByte(src, d, byte), cur + 1, srcdiff, ps, closed)
<1>1. PutByte(src, d, byte) = [Extended(Opened(d), byte, 1) EXCEPT !.cur = @ + 1]
  BY GapAssumption DEF PutByte
<1> QED BY <1>1 DEF IsState, State

\* An equal byte when that one is too far: the patch is closed.
LEMMA ByteFar ==
  ASSUME NEW B, NEW d, NEW src, NEW byte, NEW cur \in Nat, NEW srcdiff, NEW ps, NEW closed,
         IsState(B, d, cur, srcdiff, ps, closed),
         Len(src) > cur, src[cur + 1] = byte, srcdiff # NoDiff, Gap < cur - srcdiff,
         Len(src) \in Nat, srcdiff \in Int
  PROVE  IsState(B, PutByte(src, d, byte), cur + 1, NoDiff, ps, TRUE)
<1>1. d \in State(B) /\ d.cur = cur /\ d.srcdiff = srcdiff /\ d.patches = ps /\ d.patchClosed = closed
  BY DEF IsState
<1>2. PutByte(src, d, byte) = [Ended(d) EXCEPT !.cur = @ + 1]
  BY <1>1, GapAssumption DEF PutByte
<1>3. ASSUME NEW i \in Int, NEW b \in BOOLEAN
      PROVE  IsState(B, [d EXCEPT !.srcdiff = i, !.patchClosed = b], cur, i, ps, b)
  BY <1>1 DEF State, IsState
<1>4. IsState(B, Ended(d), cur, NoDiff, ps, TRUE)
  <2>1. NoDiff \in Int
    BY DEF NoDiff
  <2> QED BY <1>3, <2>1 DEF Ended
<1> QED BY <1>2, <1>4 DEF IsState, State

\* An equal byte when none differed since the last patch was closed.
LEMMA ByteEqual ==
  ASSUME NEW B, NEW d, NEW src, NEW byte, NEW cur \in Nat, NEW ps, NEW closed,
         IsState(B, d, cur, NoDiff, ps, closed),
         Len(src) > cur, src[cur + 1] = byte, Len(src) \in Nat
  PROVE  IsState(B, PutByte(src, d, byte), cur + 1, NoDiff, ps, closed)
<1>1. d \in State(B) /\ d.cur = cur /\ d.srcdiff = NoDiff /\ d.patches = ps /\ d.patchClosed = closed
  BY DEF IsState
<1>2. PutByte(src, d, byte) = [d EXCEPT !.cur = @ + 1]
  BY <1>1 DEF PutByte
<1> QED BY <1>1, <1>2 DEF IsState, State

\* Where put() stands in src.
Placed(B, a, c, rest, b, u, src, fed) ==
  /\ src \in Seq(B) /\ fed \in Seq(B) /\ Cat(a, c) \in Seq(B)
  /\ src = Cat(Cat(a, c), rest) /\ fed = Cat(b, u)
  /\ Len(Cat(a, c)) = Len(a) + Len(c) /\ Len(fed) = Len(b) + Len(u)
  /\ Len(src) = Len(a) + Len(c) + Len(rest)
  /\ Len(a) \in Nat /\ Len(b) \in Nat /\ Len(c) \in Nat /\ Len(u) \in Nat

\* cur - src is the length of what was read, whatever part of it is patched
\* (BinDiff.cpp:9,13).
LEMMA CutPlace ==
  ASSUME NEW B, NEW ps \in Seq(Patch(B)), NEW a \in Seq(B), NEW c \in Seq(B), NEW rest \in Seq(B),
         NEW b \in Seq(B), NEW u \in Seq(B), NEW src, NEW fed,
         Cut(B, ps, a, c, rest, b, u, src, fed)
  PROVE  Placed(B, a, c, rest, b, u, src, fed)
<1>1. Cat(Cat(a, c), rest) = Cat(a, Cat(c, rest))
  BY CatCat
<1>2. PICK ac \in Seq(B) : ac = Cat(a, c) /\ Len(ac) = Len(a) + Len(c)
                           /\ Len(a) \in Nat /\ Len(c) \in Nat
  BY CatType, Zenon
<1>3. Cat(ac, rest) \in Seq(B) /\ Len(Cat(ac, rest)) = Len(ac) + Len(rest)
  BY CatType, Zenon
<1>4. Cat(b, u) \in Seq(B) /\ Len(Cat(b, u)) = Len(b) + Len(u) /\ Len(b) \in Nat /\ Len(u) \in Nat
  BY CatType
<1> QED BY <1>1, <1>2, <1>3, <1>4 DEF Cut, Placed

\* At the end of src.
LEMMA CutEnd ==
  ASSUME NEW B, NEW ps \in Seq(Patch(B)), NEW a \in Seq(B), NEW c \in Seq(B), NEW rest \in Seq(B),
         NEW b \in Seq(B), NEW u \in Seq(B), NEW src, NEW fed, NEW e \in Seq(B),
         rest = <<>>, Cut(B, ps, a, c, rest, b, u, src, fed)
  PROVE  /\ Len(src) \in Nat /\ Len(src) <= Len(fed)
         /\ Cut(B, ps, a, c, rest, b, Cat(u, e), src, Cat(fed, e))
<1>1. /\ src = Cat(Cat(a, c), rest) /\ Cat(a, c) \in Seq(B) /\ fed = Cat(b, u)
      /\ Len(Cat(a, c)) = Len(a) + Len(c) /\ Len(fed) = Len(b) + Len(u)
      /\ Len(a) \in Nat /\ Len(b) \in Nat /\ Len(c) \in Nat /\ Len(u) \in Nat
  <2>1. Placed(B, a, c, rest, b, u, src, fed)
    BY CutPlace
  <2> QED BY <2>1 DEF Placed
<1>2. src = Cat(a, c)
  BY <1>1, CatNone
<1>3. Len(b) = Len(a) /\ Len(c) <= Len(u)
  BY DEF Cut
<1>4. Cat(fed, e) = Cat(b, Cat(u, e))
  BY <1>1, CatCat
<1>5. Len(Cat(u, e)) = Len(u) + Len(e) /\ Len(e) \in Nat
  BY CatType
<1>6. Cut(B, ps, a, c, rest, b, Cat(u, e), src, Cat(fed, e))
  BY <1>1, <1>3, <1>4, <1>5 DEF Cut
<1> QED BY <1>1, <1>2, <1>3, <1>6

\* h is the byte of src that put() looks at.
At(src, fed, h) == Len(src) \in Nat /\ Len(src) > Len(fed) /\ src[Len(fed) + 1] = h

\* At a byte h of src: that byte is the one that put() looks at, and it may join the
\* last patch with the byte that is fed.
LEMMA CutMore ==
  ASSUME NEW B, NEW ps \in Seq(Patch(B)), NEW a \in Seq(B), NEW c \in Seq(B), NEW h \in B,
         NEW t \in Seq(B), NEW b \in Seq(B), NEW u \in Seq(B), NEW src, NEW fed, NEW byte \in B,
         NEW rest \in Seq(B), rest = Cat(One(h), t), Cut(B, ps, a, c, rest, b, u, src, fed)
  PROVE  /\ rest # <<>> /\ At(src, fed, h)
         /\ Cut(B, ps, a, Cat(c, One(h)), t, b, Cat(u, One(byte)), src, Cat(fed, One(byte)))
<1>1. /\ src = Cat(Cat(a, c), rest) /\ Cat(a, c) \in Seq(B) /\ fed = Cat(b, u)
      /\ Len(Cat(a, c)) = Len(a) + Len(c) /\ Len(fed) = Len(b) + Len(u)
      /\ Len(a) \in Nat /\ Len(b) \in Nat /\ Len(c) \in Nat /\ Len(u) \in Nat
  <2>1. Placed(B, a, c, rest, b, u, src, fed)
    BY CutPlace
  <2> QED BY <2>1 DEF Placed
<1>2. One(h) \in Seq(B) /\ One(byte) \in Seq(B) /\ Len(One(h)) = 1 /\ Len(One(byte)) = 1
  BY CatOne
<1>3. /\ Cat(Cat(a, c), Cat(One(h), t))[Len(Cat(a, c)) + 1] = h
      /\ Len(Cat(Cat(a, c), Cat(One(h), t))) = Len(Cat(a, c)) + 1 + Len(t)
      /\ rest # <<>>
  <2>1. PICK x \in Seq(B) : x = Cat(a, c)
    BY <1>1
  <2>2. /\ Cat(x, Cat(One(h), t))[Len(x) + 1] = h
        /\ Len(Cat(x, Cat(One(h), t))) = Len(x) + 1 + Len(t)
        /\ Cat(One(h), t) # <<>>
    BY CatAt
  <2> QED BY <2>1, <2>2
<1>4. Len(b) = Len(a) /\ Len(c) = Len(u) /\ Rewrites(B, ps, a, b) /\ src = Cat(a, Cat(c, rest))
  BY <1>3 DEF Cut
<1>5. Len(src) \in Nat /\ Len(src) > Len(fed) /\ src[Len(fed) + 1] = h
  <2>1. Len(t) \in Nat
    OBVIOUS
  <2> QED BY <1>1, <1>3, <1>4, <2>1
<1>6. Cat(fed, One(byte)) = Cat(b, Cat(u, One(byte)))
  BY <1>1, <1>2, CatCat
<1>7. Cat(c, rest) = Cat(Cat(c, One(h)), t)
  BY <1>2, CatCat
<1>8. Len(Cat(c, One(h))) = Len(c) + 1 /\ Len(Cat(u, One(byte))) = Len(u) + 1
  BY <1>2, CatType
<1>9. Cut(B, ps, a, Cat(c, One(h)), t, b, Cat(u, One(byte)), src, Cat(fed, One(byte)))
  BY <1>1, <1>4, <1>6, <1>7, <1>8 DEF Cut
<1> QED BY <1>3, <1>5, <1>9 DEF At

\* An equal byte ends the last patch, which is among qs then, and passes.
LEMMA CutClose ==
  ASSUME NEW B, NEW ps \in Seq(Patch(B)), NEW a \in Seq(B), NEW c \in Seq(B), NEW h \in B,
         NEW t \in Seq(B), NEW b \in Seq(B), NEW u \in Seq(B), NEW src, NEW fed,
         NEW qs \in Seq(Patch(B)), Rewrites(B, qs, Cat(a, c), Cat(b, u)),
         NEW rest \in Seq(B), rest = Cat(One(h), t), rest # <<>>,
         Cut(B, ps, a, c, rest, b, u, src, fed)
  PROVE  \E x \in Seq(B) :
           Cut(B, qs, x, <<>>, t, Cat(fed, One(h)), <<>>, src, Cat(fed, One(h)))
<1>1. /\ src = Cat(Cat(a, c), rest) /\ Cat(a, c) \in Seq(B) /\ fed = Cat(b, u) /\ fed \in Seq(B)
      /\ Len(Cat(a, c)) = Len(a) + Len(c) /\ Len(fed) = Len(b) + Len(u)
      /\ Len(a) \in Nat /\ Len(b) \in Nat /\ Len(c) \in Nat /\ Len(u) \in Nat
  <2>1. Placed(B, a, c, rest, b, u, src, fed)
    BY CutPlace
  <2> QED BY <2>1 DEF Placed
<1>2. One(h) \in Seq(B) /\ Len(One(h)) = 1
  BY CatOne
<1>3. Len(b) = Len(a) /\ Len(c) = Len(u)
  BY DEF Cut
<1>4. PICK x \in Seq(B) : x = Cat(Cat(a, c), One(h)) /\ Len(x) = Len(Cat(a, c)) + Len(One(h))
  <2>1. Cat(a, c) \in Seq(B) /\ One(h) \in Seq(B)
    BY <1>1, <1>2
  <2>2. /\ Cat(Cat(a, c), One(h)) \in Seq(B)
        /\ Len(Cat(Cat(a, c), One(h))) = Len(Cat(a, c)) + Len(One(h))
    BY <2>1, CatType
  <2> QED BY <2>2
<1>5. PICK y \in Seq(B) : y = Cat(fed, One(h)) /\ Len(y) = Len(fed) + Len(One(h))
  <2>1. fed \in Seq(B) /\ One(h) \in Seq(B)
    BY <1>1, <1>2
  <2>2. Cat(fed, One(h)) \in Seq(B) /\ Len(Cat(fed, One(h))) = Len(fed) + Len(One(h))
    BY <2>1, CatType
  <2> QED BY <2>2
<1>6. src = Cat(x, t)
  BY <1>1, <1>2, <1>4, CatCat
<1>7. Rewrites(B, qs, x, y)
  BY <1>1, <1>2, <1>4, <1>5, CatMore
<1>8. Cat(<<>>, t) = t /\ Cat(y, <<>>) = y /\ Len(<<>>) = 0
  BY CatNone
<1>9. Len(x) = Len(y)
  BY <1>1, <1>2, <1>3, <1>4, <1>5
<1>10. Cut(B, qs, x, <<>>, t, y, <<>>, src, y)
  BY <1>6, <1>7, <1>8, <1>9 DEF Cut
<1> QED BY <1>5, <1>10

\* One byte more.
LEMMA CatNext ==
  ASSUME NEW B, NEW a \in Seq(B), NEW h \in B
  PROVE  Cat(a, One(h)) \in Seq(B) /\ Len(Cat(a, One(h))) = Len(a) + 1
<1>1. One(h) \in Seq(B) /\ Len(One(h)) = 1
  BY CatOne
<1>2. Cat(a, One(h)) \in Seq(B) /\ Len(Cat(a, One(h))) = Len(a) + Len(One(h))
  BY <1>1, CatType
<1> QED BY <1>1, <1>2

\* A byte, and the byte of the source that it replaces, if any, join the last patch.
LEMMA ExtendedReplace ==
  ASSUME NEW B, NEW ps \in Seq(Patch(B)), NEW a \in Seq(B), NEW c \in Seq(B), NEW u \in Seq(B),
         NEW byte \in B, NEW h \in B, NEW cur, NEW srcdiff, NEW closed, NEW d,
         IsState(B, d, cur, srcdiff, Append(ps, Replace(a, c, u)), closed)
  PROVE  /\ IsState(B, Extended(d, byte, 0), cur, srcdiff,
               Append(ps, Replace(a, c, Cat(u, One(byte)))), closed)
         /\ IsState(B, Extended(d, byte, 1), cur, srcdiff,
               Append(ps, Replace(a, Cat(c, One(h)), Cat(u, One(byte)))), closed)
<1> DEFINE p == Replace(a, c, u)
           q(k) == [start |-> p.start, size |-> p.size + k, buf |-> Append(p.buf, byte)]
<1>1. p \in Patch(B) /\ p.start = Len(a) /\ p.size = Len(c) /\ p.buf = u /\ Len(c) \in Nat
  BY DEF Replace, Patch
<1> HIDE DEF p
<1>2. Append(u, byte) = Cat(u, One(byte))
  BY CatOne
<1>3. Len(Cat(c, One(h))) = Len(c) + 1
  BY CatNext
<1>4. q(0) = Replace(a, c, Cat(u, One(byte)))
  BY <1>1, <1>2 DEF Replace
<1>5. q(1) = Replace(a, Cat(c, One(h)), Cat(u, One(byte)))
  BY <1>1, <1>2, <1>3 DEF Replace
<1>6. ASSUME NEW k \in Nat
      PROVE  IsState(B, Extended(d, byte, k), cur, srcdiff, Append(ps, q(k)), closed)
  <2>1. IsState(B, d, cur, srcdiff, Append(ps, p), closed)
    BY DEF p
  <2> QED BY <1>1, <2>1, ExtendedIs
<1> HIDE DEF q
<1>7. IsState(B, Extended(d, byte, 0), cur, srcdiff, Append(ps, q(0)), closed)
  BY <1>6
<1>8. IsState(B, Extended(d, byte, 1), cur, srcdiff, Append(ps, q(1)), closed)
  BY <1>6
<1> QED BY <1>4, <1>5, <1>7, <1>8

\* What put() starts from when a byte joins the last patch or a new one: d itself,
\* or d with the last difference noted.
Joins(B, d, ps, a, c, rest, b, u, src, fed, srcdiff) ==
  /\ IsState(B, Opened(d), Len(fed), srcdiff, Append(ps, Replace(a, c, u)), FALSE)
  /\ Cut(B, ps, a, c, rest, b, u, src, fed)

\* A closed list opens a new patch where put() stands (BinDiff.cpp:26-32).
LEMMA ClosedJoins ==
  ASSUME NEW B, NEW d, NEW ps \in Seq(Patch(B)), NEW a \in Seq(B), NEW rest, NEW fed, NEW src,
         NEW srcdiff, IsState(B, d, Len(fed), srcdiff, ps, TRUE),
         Cut(B, ps, a, <<>>, rest, fed, <<>>, src, fed)
  PROVE  Joins(B, d, ps, a, <<>>, rest, fed, <<>>, src, fed, srcdiff)
<1>1. Len(fed) = Len(a) /\ Len(<<>>) = 0
  BY DEF Cut
<1>2. Replace(a, <<>>, <<>>) = [start |-> Len(fed), size |-> 0, buf |-> <<>>]
  BY <1>1 DEF Replace
<1>3. IsState(B, Opened(d), Len(fed), srcdiff,
         Append(ps, [start |-> Len(fed), size |-> 0, buf |-> <<>>]), FALSE)
  BY OpenedIs
<1> QED BY <1>2, <1>3 DEF Joins

\* An open one goes on with its last patch (BinDiff.cpp:26).
LEMMA OpenJoins ==
  ASSUME NEW B, NEW d, NEW ps \in Seq(Patch(B)), NEW a, NEW c, NEW rest, NEW b, NEW u,
         NEW fed, NEW src, NEW srcdiff,
         IsState(B, d, Len(fed), srcdiff, Append(ps, Replace(a, c, u)), FALSE),
         Cut(B, ps, a, c, rest, b, u, src, fed)
  PROVE  Joins(B, d, ps, a, c, rest, b, u, src, fed, srcdiff)
<1>1. Opened(d) = d
  BY DEF Opened, IsState
<1> QED BY <1>1 DEF Joins

\* The same with the last difference noted.
IsNoted(e, d) == e = [d EXCEPT !.srcdiff = d.cur]

\* srcdiff = cur changes nothing else (BinDiff.cpp:24-25).
LEMMA Noted ==
  ASSUME NEW B, NEW d, NEW cur \in Nat, NEW srcdiff, NEW ps, NEW closed,
         IsState(B, d, cur, srcdiff, ps, closed)
  PROVE  IsState(B, [d EXCEPT !.srcdiff = d.cur], cur, cur, ps, closed)
BY DEF IsState, State

\* What becomes of it: an open patch ...
LEMMA JoinsOpen ==
  ASSUME NEW B, NEW d, NEW ps \in Seq(Patch(B)), NEW a \in Seq(B), NEW c \in Seq(B),
         NEW rest \in Seq(B), NEW b \in Seq(B), NEW u \in Seq(B), NEW src, NEW fed,
         NEW srcdiff, Opens(B, d, Len(fed), srcdiff, Append(ps, Replace(a, c, u))),
         rest = <<>> \/ srcdiff # NoDiff, Cut(B, ps, a, c, rest, b, u, src, fed)
  PROVE  Partial(B, d, src, fed)
<1>1. d.srcdiff = srcdiff
  BY DEF IsState, Opens
<1>2. IsOpen(B, d, ps, a, c, rest, b, u, src, fed)
  BY <1>1 DEF IsOpen, Opens
<1> QED BY <1>2 DEF Partial

\* ... in each of the three cases.
LEMMA JoinsPast ==
  ASSUME NEW B, NEW d, NEW ps \in Seq(Patch(B)), NEW a \in Seq(B), NEW c \in Seq(B),
         NEW rest \in Seq(B), NEW b \in Seq(B), NEW u \in Seq(B), NEW src, NEW fed \in Seq(B),
         NEW byte \in B, NEW srcdiff, Joins(B, d, ps, a, c, rest, b, u, src, fed, srcdiff),
         rest = <<>>, d.cur = Len(fed)
  PROVE  Partial(B, PutByte(src, d, byte), src, Cat(fed, One(byte)))
<1>1. One(byte) \in Seq(B) /\ Len(fed) \in Nat
  BY CatOne
<1>2. /\ Len(src) <= Len(fed)
      /\ Cut(B, ps, a, c, rest, b, Cat(u, One(byte)), src, Cat(fed, One(byte)))
  BY <1>1, CutEnd DEF Joins
<1>3. IsState(B, Extended(Opened(d), byte, 0), Len(fed), srcdiff,
         Append(ps, Replace(a, c, Cat(u, One(byte)))), FALSE)
  <2>1. IsState(B, Opened(d), Len(fed), srcdiff, Append(ps, Replace(a, c, u)), FALSE)
    BY DEF Joins
  <2> QED BY <2>1, ExtendedReplace
<1>4. IsState(B, PutByte(src, d, byte), Len(fed) + 1, srcdiff,
         Append(ps, Replace(a, c, Cat(u, One(byte)))), FALSE)
  BY <1>1, <1>2, <1>3, BytePast
<1>5. PICK w \in Seq(B) : w = Cat(u, One(byte))
  BY CatNext
<1>6. Opens(B, PutByte(src, d, byte), Len(Cat(fed, One(byte))), srcdiff,
            Append(ps, Replace(a, c, w)))
  BY <1>4, <1>5, CatNext DEF Opens
<1>7. Cut(B, ps, a, c, rest, b, w, src, Cat(fed, One(byte)))
  BY <1>2, <1>5
<1> QED BY <1>6, <1>7, JoinsOpen

\* An equal byte too close behind a difference joins the patch
\* (BinDiff.cpp:19,23,33-35).
LEMMA JoinsNear ==
  ASSUME NEW B, NEW d, NEW ps \in Seq(Patch(B)), NEW a \in Seq(B), NEW c \in Seq(B),
         NEW rest \in Seq(B), NEW b \in Seq(B), NEW u \in Seq(B), NEW src, NEW fed \in Seq(B),
         NEW byte \in B, NEW t \in Seq(B), NEW srcdiff \in Int,
         Joins(B, d, ps, a, c, rest, b, u, src, fed, srcdiff),
         rest = Cat(One(byte), t), d.cur = Len(fed), d.srcdiff = srcdiff, srcdiff # NoDiff,
         d.cur - d.srcdiff <= Gap
  PROVE  Partial(B, PutByte(src, d, byte), src, Cat(fed, One(byte)))
<1>1. Len(fed) \in Nat
  OBVIOUS
<1>2. PICK w \in Seq(B), k \in Seq(B) : w = Cat(u, One(byte)) /\ k = Cat(c, One(byte))
  BY CatNext
<1>3. /\ At(src, fed, byte)
      /\ Cut(B, ps, a, k, t, b, w, src, Cat(fed, One(byte)))
  BY <1>2, CutMore DEF Joins
<1>4. IsState(B, Extended(Opened(d), byte, 1), Len(fed), srcdiff,
         Append(ps, Replace(a, k, w)), FALSE)
  <2>1. IsState(B, Opened(d), Len(fed), srcdiff, Append(ps, Replace(a, c, u)), FALSE)
    BY DEF Joins
  <2> QED BY <1>2, <2>1, ExtendedReplace
<1>5. IsState(B, PutByte(src, d, byte), Len(fed) + 1, srcdiff, Append(ps, Replace(a, k, w)), FALSE)
  BY <1>1, <1>3, <1>4, ByteNear DEF At
<1>6. Opens(B, PutByte(src, d, byte), Len(Cat(fed, One(byte))), srcdiff,
            Append(ps, Replace(a, k, w)))
  BY <1>5, CatNext DEF Opens
<1> QED BY <1>3, <1>6, JoinsOpen

\* A byte that differs joins the patch, once it is noted in srcdiff
\* (BinDiff.cpp:23-35).
LEMMA JoinsDiffers ==
  ASSUME NEW B, NEW d, NEW ps \in Seq(Patch(B)), NEW a \in Seq(B), NEW c \in Seq(B),
         NEW rest \in Seq(B), NEW b \in Seq(B), NEW u \in Seq(B), NEW src, NEW fed \in Seq(B),
         NEW byte \in B, NEW h \in B, NEW t \in Seq(B), NEW e, NEW srcdiff, srcdiff # NoDiff,
         IsNoted(e, d), Joins(B, e, ps, a, c, rest, b, u, src, fed, srcdiff),
         rest = Cat(One(h), t), h # byte, d.cur = Len(fed)
  PROVE  Partial(B, PutByte(src, d, byte), src, Cat(fed, One(byte)))
<1>1. Len(fed) \in Nat
  OBVIOUS
<1>2. PICK w \in Seq(B), k \in Seq(B) : w = Cat(u, One(byte)) /\ k = Cat(c, One(h))
  BY CatNext
<1>3. /\ At(src, fed, h)
      /\ Cut(B, ps, a, k, t, b, w, src, Cat(fed, One(byte)))
  BY <1>2, CutMore DEF Joins
<1>4. IsState(B, Extended(Opened(e), byte, 1), Len(fed), srcdiff,
         Append(ps, Replace(a, k, w)), FALSE)
  <2>1. IsState(B, Opened(e), Len(fed), srcdiff, Append(ps, Replace(a, c, u)), FALSE)
    BY DEF Joins
  <2> QED BY <1>2, <2>1, ExtendedReplace
<1>5. IsState(B, PutByte(src, d, byte), Len(fed) + 1, srcdiff, Append(ps, Replace(a, k, w)), FALSE)
  BY <1>1, <1>3, <1>4, ByteDiffers DEF At, IsNoted
<1>6. Opens(B, PutByte(src, d, byte), Len(Cat(fed, One(byte))), srcdiff,
            Append(ps, Replace(a, k, w)))
  BY <1>5, CatNext DEF Opens
<1> QED BY <1>3, <1>6, JoinsOpen

\* A byte keeps the rewriting right, when no patch is open ...
LEMMA ClosedByte ==
  ASSUME NEW B, NEW d, NEW ps \in Seq(Patch(B)), NEW a \in Seq(B), NEW rest \in Seq(B),
         NEW src, NEW fed \in Seq(B), NEW byte \in B, IsClosed(B, d, ps, a, rest, src, fed)
  PROVE  Partial(B, PutByte(src, d, byte), src, Cat(fed, One(byte)))
<1>1. /\ IsState(B, d, Len(fed), NoDiff, ps, TRUE) /\ Cut(B, ps, a, <<>>, rest, fed, <<>>, src, fed)
      /\ Len(fed) \in Nat
  <2>1. Len(fed) \in Nat
    OBVIOUS
  <2> QED BY <2>1 DEF IsClosed
<1>2. d.cur = Len(fed) /\ Len(fed) # NoDiff
  BY <1>1 DEF IsState, NoDiff
<1>3. <<>> \in Seq(B)
  OBVIOUS
<1>4. CASE rest = <<>>
  <2>1. Joins(B, d, ps, a, <<>>, rest, fed, <<>>, src, fed, NoDiff)
    BY <1>1, ClosedJoins
  <2> QED BY <1>2, <1>3, <1>4, <2>1, JoinsPast
<1>5. CASE rest # <<>>
  <2>1. PICK h \in B, t \in Seq(B) : rest = Cat(One(h), t)
    BY <1>5, CatFirst
  <2>2. CASE h = byte
    <3>1. At(src, fed, byte)
      BY <1>1, <1>3, <2>1, <2>2, CutMore
    <3>2. IsState(B, PutByte(src, d, byte), Len(fed) + 1, NoDiff, ps, TRUE)
      BY <1>1, <3>1, ByteEqual DEF At
    <3>3. Rewrites(B, ps, Cat(a, <<>>), Cat(fed, <<>>))
      <4>1. Cat(a, <<>>) = a /\ Cat(fed, <<>>) = fed
        BY CatNone
      <4> QED BY <1>1, <4>1 DEF Cut
    <3>4. PICK x \in Seq(B) :
            Cut(B, ps, x, <<>>, t, Cat(fed, One(h)), <<>>, src, Cat(fed, One(h)))
      BY <1>1, <1>3, <1>5, <2>1, <3>3, CutClose
    <3>5. Len(Cat(fed, One(byte))) = Len(fed) + 1
      BY CatNext
    <3>6. IsClosed(B, PutByte(src, d, byte), ps, x, t, src, Cat(fed, One(byte)))
      BY <2>2, <3>2, <3>4, <3>5 DEF IsClosed
    <3> QED BY <3>6 DEF Partial
  <2>3. CASE h # byte
    <3>1. PICK e : e = [d EXCEPT !.srcdiff = d.cur]
      OBVIOUS
    <3>2. IsState(B, e, Len(fed), Len(fed), ps, TRUE)
      BY <1>1, <3>1, Noted
    <3>3. Joins(B, e, ps, a, <<>>, rest, fed, <<>>, src, fed, Len(fed))
      BY <1>1, <3>2, ClosedJoins
    <3> QED BY <1>1, <1>2, <1>3, <2>1, <2>3, <3>1, <3>3, JoinsDiffers DEF IsNoted
  <2> QED BY <2>2, <2>3
<1> QED BY <1>4, <1>5

\* ... and when one is.
LEMMA OpenByte ==
  ASSUME NEW B, NEW d, NEW ps \in Seq(Patch(B)), NEW a \in Seq(B), NEW c \in Seq(B),
         NEW rest \in Seq(B), NEW b \in Seq(B), NEW u \in Seq(B), NEW src, NEW fed \in Seq(B),
         NEW byte \in B, IsOpen(B, d, ps, a, c, rest, b, u, src, fed)
  PROVE  Partial(B, PutByte(src, d, byte), src, Cat(fed, One(byte)))
<1> DEFINE qs == Append(ps, Replace(a, c, u))
<1> HIDE DEF qs
<1>1. PICK s : s = d.srcdiff /\ IsState(B, d, Len(fed), s, qs, FALSE)
               /\ Cut(B, ps, a, c, rest, b, u, src, fed) /\ Len(fed) \in Nat
               /\ (rest # <<>> => s # NoDiff)
  <2>1. Len(fed) \in Nat
    OBVIOUS
  <2> QED BY <2>1 DEF IsOpen, qs
<1>2. d.cur = Len(fed) /\ s \in Int /\ Len(fed) # NoDiff
  BY <1>1 DEF IsState, State, NoDiff
<1>3. Joins(B, d, ps, a, c, rest, b, u, src, fed, s)
  BY <1>1, OpenJoins DEF qs
<1>4. CASE rest = <<>>
  BY <1>2, <1>3, <1>4, JoinsPast
<1>5. CASE rest # <<>>
  <2>1. PICK h \in B, t \in Seq(B) : rest = Cat(One(h), t)
    BY <1>5, CatFirst
  <2>2. CASE h = byte /\ d.cur - d.srcdiff <= Gap
    BY <1>1, <1>2, <1>3, <1>5, <2>1, <2>2, JoinsNear
  <2>3. CASE h = byte /\ ~(d.cur - d.srcdiff <= Gap)
    <3>1. At(src, fed, byte)
      BY <1>1, <2>1, <2>3, CutMore
    <3>2. s # NoDiff /\ Gap < Len(fed) - s
      BY <1>1, <1>2, <1>5, <2>3, GapAssumption
    <3>3. IsState(B, PutByte(src, d, byte), Len(fed) + 1, NoDiff, qs, TRUE)
      BY <1>1, <1>2, <3>1, <3>2, ByteFar DEF At
    <3>4. Rewrites(B, qs, Cat(a, c), Cat(b, u))
      <4>1. Rewrites(B, ps, a, b)
        BY <1>1 DEF Cut
      <4> QED BY <4>1, CatPatch DEF qs
    <3>5. qs \in Seq(Patch(B))
      BY DEF qs, Replace, Patch
    <3>6. PICK x \in Seq(B) :
            Cut(B, qs, x, <<>>, t, Cat(fed, One(h)), <<>>, src, Cat(fed, One(h)))
      BY <1>1, <1>5, <2>1, <3>4, <3>5, CutClose
    <3>7. Len(Cat(fed, One(byte))) = Len(fed) + 1
      BY CatNext
    <3>8. IsClosed(B, PutByte(src, d, byte), qs, x, t, src, Cat(fed, One(byte)))
      BY <2>3, <3>3, <3>6, <3>7 DEF IsClosed
    <3> QED BY <3>5, <3>8 DEF Partial
  <2>4. CASE h # byte
    <3>1. PICK e : e = [d EXCEPT !.srcdiff = d.cur]
      OBVIOUS
    <3>2. IsState(B, e, Len(fed), Len(fed), qs, FALSE)
      BY <1>1, <3>1, Noted
    <3>3. Joins(B, e, ps, a, c, rest, b, u, src, fed, Len(fed))
      BY <1>1, <3>2, OpenJoins DEF qs
    <3> QED BY <1>1, <1>2, <2>1, <2>4, <3>1, <3>3, JoinsDiffers DEF IsNoted
  <2> QED BY <2>2, <2>3, <2>4
<1> QED BY <1>4, <1>5

\* put() keeps the rewriting right, byte after byte (BinDiff.cpp:7-40) ...
LEMMA PutBytePartial ==
  ASSUME NEW B, NEW d, NEW src, NEW fed \in Seq(B), NEW byte \in B, Partial(B, d, src, fed)
  PROVE  Partial(B, PutByte(src, d, byte), src, Append(fed, byte))
<1>1. Append(fed, byte) = Cat(fed, One(byte))
  BY CatOne
<1>2. PICK ps \in Seq(Patch(B)), a \in Seq(B), rest \in Seq(B) :
        \/ IsClosed(B, d, ps, a, rest, src, fed)
        \/ \E c \in Seq(B), b \in Seq(B), u \in Seq(B) :
             IsOpen(B, d, ps, a, c, rest, b, u, src, fed)
  BY DEF Partial
<1>3. CASE IsClosed(B, d, ps, a, rest, src, fed)
  <2>1. Partial(B, PutByte(src, d, byte), src, Cat(fed, One(byte)))
    BY <1>3, ClosedByte
  <2> QED BY <1>1, <2>1
<1>4. CASE \E c \in Seq(B), b \in Seq(B), u \in Seq(B) :
             IsOpen(B, d, ps, a, c, rest, b, u, src, fed)
  <2>1. PICK c \in Seq(B), b \in Seq(B), u \in Seq(B) :
               IsOpen(B, d, ps, a, c, rest, b, u, src, fed)
    BY <1>4
  <2>2. Partial(B, PutByte(src, d, byte), src, Cat(fed, One(byte)))
    BY <2>1, OpenByte
  <2> QED BY <1>1, <2>2
<1> QED BY <1>2, <1>3, <1>4

\* ... and field after field, however the bytes are cut into fields.
LEMMA PutPartial ==
  ASSUME NEW B, NEW d, NEW src, NEW fed \in Seq(B), Partial(B, d, src, fed),
         NEW field \in Seq(B)
  PROVE  Partial(B, Put(src, d, field), src, fed \o field)
<1> DEFINE X == {q \in Seq(B) : Partial(B, Put(src, d, q), src, fed \o q)}
<1>1. <<>> \in X
  <2>1. Put(src, d, <<>>) = d
    BY PutNothing
  <2>2. fed \o <<>> = fed
    BY ConcatEmptySeq
  <2>3. <<>> \in Seq(B)
    OBVIOUS
  <2> QED BY <2>1, <2>2, <2>3
<1>2. ASSUME NEW q \in Seq(B), NEW e \in B, q \in X PROVE Append(q, e) \in X
  <2>1. PICK f \in Seq(B) : f = fed \o q
    <3>1. fed \o q \in Seq(B)
      BY ConcatProperties
    <3> QED BY <3>1
  <2>2. Partial(B, Put(src, d, q), src, f)
    BY <1>2, <2>1
  <2>3. Partial(B, PutByte(src, Put(src, d, q), e), src, Append(f, e))
    BY <2>2, PutBytePartial
  <2>4. Put(src, d, Append(q, e)) = PutByte(src, Put(src, d, q), e)
    BY PutOneMore
  <2>5. Append(f, e) = fed \o Append(q, e)
    <3>1. Append(f, e) = Cat(f, One(e))
      BY CatOne
    <3>2. Append(q, e) = Cat(q, One(e)) /\ One(e) \in Seq(B)
      BY CatOne
    <3>3. Cat(Cat(fed, q), One(e)) = Cat(fed, Cat(q, One(e)))
      BY <3>2, CatCat
    <3>4. f = Cat(fed, q)
      BY <2>1 DEF Cat
    <3>5. Append(f, e) = Cat(fed, Append(q, e))
      BY <3>1, <3>2, <3>3, <3>4
    <3> QED BY <3>5 DEF Cat
  <2>6. Append(q, e) \in Seq(B)
    OBVIOUS
  <2> QED BY <2>3, <2>4, <2>5, <2>6
<1> HIDE DEF X
<1>3. field \in X
  BY <1>1, <1>2, SeqInduction
<1> QED BY <1>3 DEF X

-----------------------------------------------------------------------------
\* What put() has done to src so far: its first bytes x are fed, rest is to come.
Prefix(B, d, qs, x, rest, src, fed) ==
  /\ d.cur = Len(fed) /\ d.patches = qs
  /\ src = Cat(x, rest) /\ Len(src) = Len(x) + Len(rest)
  /\ IF rest = <<>> THEN Len(x) <= Len(fed) ELSE Len(x) = Len(fed)
  /\ Rewrites(B, qs, x, fed)

\* A patch that is still open is one of those patches, too.
LEMMA PartialPrefix ==
  ASSUME NEW B, NEW d, NEW src, NEW fed \in Seq(B), Partial(B, d, src, fed)
  PROVE  \E qs \in Seq(Patch(B)), x \in Seq(B), rest \in Seq(B) :
           Prefix(B, d, qs, x, rest, src, fed)
<1>1. PICK ps \in Seq(Patch(B)), a \in Seq(B), rest \in Seq(B) :
        \/ IsClosed(B, d, ps, a, rest, src, fed)
        \/ \E c \in Seq(B), b \in Seq(B), u \in Seq(B) :
             IsOpen(B, d, ps, a, c, rest, b, u, src, fed)
  BY DEF Partial
<1>2. CASE IsClosed(B, d, ps, a, rest, src, fed)
  <2>1. d.cur = Len(fed) /\ d.patches = ps /\ Cut(B, ps, a, <<>>, rest, fed, <<>>, src, fed)
    BY <1>2 DEF IsClosed, IsState
  <2>2. Cat(<<>>, rest) = rest
    BY CatNone
  <2>3. src = Cat(a, rest) /\ Len(a) = Len(fed) /\ Rewrites(B, ps, a, fed)
    BY <2>1, <2>2 DEF Cut
  <2>4. Len(src) = Len(a) + Len(rest) /\ Len(a) \in Nat
    BY <2>3, CatType
  <2>5. Prefix(B, d, ps, a, rest, src, fed)
    BY <2>1, <2>3, <2>4 DEF Prefix
  <2> QED BY <2>5
<1>3. CASE \E c \in Seq(B), b \in Seq(B), u \in Seq(B) :
             IsOpen(B, d, ps, a, c, rest, b, u, src, fed)
  <2>1. PICK c \in Seq(B), b \in Seq(B), u \in Seq(B) :
               IsOpen(B, d, ps, a, c, rest, b, u, src, fed)
    BY <1>3
  <2>2. PICK qs \in Seq(Patch(B)) : qs = Append(ps, Replace(a, c, u))
    <3>1. PICK p : p = Replace(a, c, u)
      OBVIOUS
    <3>2. p \in Patch(B)
      BY <3>1 DEF Replace, Patch
    <3>3. PICK q \in Patch(B) : q = Replace(a, c, u)
      BY <3>1, <3>2
    <3>4. Append(ps, q) \in Seq(Patch(B))
      OBVIOUS
    <3> QED BY <3>3, <3>4
  <2>3. d.cur = Len(fed) /\ d.patches = qs /\ Cut(B, ps, a, c, rest, b, u, src, fed)
    BY <2>1, <2>2 DEF IsOpen, IsState
  <2>4. Placed(B, a, c, rest, b, u, src, fed)
    BY <2>3, CutPlace
  <2>5. PICK x \in Seq(B) : x = Cat(a, c)
    BY <2>4 DEF Placed
  <2>6. src = Cat(x, rest) /\ Len(src) = Len(x) + Len(rest)
    BY <2>4, <2>5 DEF Placed
  <2>7. IF rest = <<>> THEN Len(x) <= Len(fed) ELSE Len(x) = Len(fed)
    BY <2>3, <2>4, <2>5 DEF Cut, Placed
  <2>8. Rewrites(B, ps, a, b) /\ fed = Cat(b, u)
    BY <2>3 DEF Cut
  <2>9. Rewrites(B, qs, x, fed)
    BY <2>2, <2>5, <2>8, CatPatch
  <2>10. Prefix(B, d, qs, x, rest, src, fed)
    BY <2>3, <2>6, <2>7, <2>9 DEF Prefix
  <2> QED BY <2>10
<1> QED BY <1>1, <1>2, <1>3

\* Before close(), the patches already turn the first bytes of src into those that
\* were fed; close() removes the others (BinDiff.cpp:43-52).
LEMMA CloseRewrites ==
  ASSUME NEW B, NEW d, NEW src, NEW fed \in Seq(B), Partial(B, d, src, fed)
  PROVE  /\ Close(src, d).patches \in Seq(Patch(B))
         /\ Rewrites(B, Close(src, d).patches, src, fed)
<1>1. PICK qs \in Seq(Patch(B)), x \in Seq(B), rest \in Seq(B) :
        Prefix(B, d, qs, x, rest, src, fed)
  BY PartialPrefix
<1>2. Len(x) \in Nat /\ Len(rest) \in Nat /\ Len(fed) \in Nat /\ (rest = <<>> <=> Len(rest) = 0)
  BY EmptySeq
<1>3. d.cur < Len(src) <=> rest # <<>>
  BY <1>1, <1>2 DEF Prefix
<1>4. CASE rest = <<>>
  <2>1. src = x
    BY <1>1, <1>4, CatNone DEF Prefix
  <2>2. d.patches = qs /\ Rewrites(B, qs, x, fed)
    BY <1>1 DEF Prefix
  <2>3. Close(src, d).patches = qs
    BY <1>3, <1>4, <2>2 DEF Close
  <2> QED BY <2>1, <2>2, <2>3
<1>5. CASE rest # <<>>
  <2>1. PICK p : p = Replace(x, rest, <<>>)
    OBVIOUS
  <2>2. <<>> \in Seq(B)
    OBVIOUS
  <2>3. p \in Patch(B)
    BY <1>2, <2>1, <2>2 DEF Replace, Patch
  <2>4. p = [start |-> d.cur, size |-> Len(src) - d.cur, buf |-> <<>>]
    BY <1>1, <1>2, <1>5, <2>1 DEF Prefix, Replace
  <2>5. Close(src, d).patches = Append(qs, p)
    BY <1>1, <1>3, <1>5, <2>4 DEF Close, Prefix
  <2>6. Rewrites(B, qs, x, fed) /\ src = Cat(x, rest)
    BY <1>1 DEF Prefix
  <2>7. Rewrites(B, Append(qs, p), Cat(x, rest), Cat(fed, <<>>))
    BY <2>1, <2>2, <2>6, CatPatch
  <2>8. Cat(fed, <<>>) = fed
    BY CatNone
  <2> QED BY <2>3, <2>5, <2>6, <2>7, <2>8
<1> QED BY <1>4, <1>5

\* The patches turn src into dst, each fits the buffer at its turn, and they are in
\* order and disjoint.
Transforms(src, dst, ps) ==
  /\ applyPatches(src, ps) = dst
  /\ AllFit(src, ps)
  /\ Ordered(ps, Len(src))

\* What a finished diff is to the two streams.
LEMMA RewritesAll ==
  ASSUME NEW B, NEW src \in Seq(B), NEW dst \in Seq(B), NEW ps, Rewrites(B, ps, src, dst)
  PROVE  Transforms(src, dst, ps)
<1>1. <<>> \in Seq(B) /\ src \o <<>> = src /\ dst \o <<>> = dst
  BY ConcatEmptySeq
<1>2. applyPatches(src \o <<>>, ps) = dst \o <<>> /\ AllFit(src \o <<>>, ps)
  BY <1>1 DEF Rewrites
<1>3. Ordered(ps, Len(src))
  BY DEF Rewrites
<1> QED BY <1>1, <1>2, <1>3 DEF Transforms

\* BinDiff, fed any dst against any src, makes patches that turn src into dst, fit it
\* and are in order: what the server believes a client has, it has (BinDiff.cpp).
THEOREM DiffTransforms ==
  ASSUME NEW B, NEW src \in Seq(B), NEW dst \in Seq(B)
  PROVE  Diff(src, dst) \in Seq(Patch(B)) /\ Transforms(src, dst, Diff(src, dst))
<1> DEFINE d == Put(src, NewBinDiff, dst)
<1>1. Partial(B, d, src, dst)
  <2>1. <<>> \in Seq(B)
    OBVIOUS
  <2>2. Partial(B, NewBinDiff, src, <<>>)
    BY NewPartial
  <2>3. Partial(B, d, src, <<>> \o dst)
    BY <2>1, <2>2, PutPartial
  <2>4. <<>> \o dst = dst
    BY ConcatEmptySeq
  <2> QED BY <2>3, <2>4
<1>2. Diff(src, dst) = Close(src, d).patches
  BY DEF Diff
<1> HIDE DEF d
<1>3. Diff(src, dst) \in Seq(Patch(B)) /\ Rewrites(B, Diff(src, dst), src, dst)
  BY <1>1, <1>2, CloseRewrites
<1> QED BY <1>3, RewritesAll
=============================================================================
