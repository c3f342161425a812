-------------------------------- MODULE BinDiff --------------------------------
(***************************************************************************)
(* The differences of two byte streams (src/src/BinDiff.cpp).  A BinDiff   *)
(* is fed the destination piece by piece and keeps a list of patches to    *)
(* the source; applyPatches turns the source into the destination.         *)
(*                                                                         *)
(* Offsets into the source count from 0, as in the code; a TLA+ sequence   *)
(* starts at 1, hence the + 1.                                             *)
(***************************************************************************)
EXTENDS Integers, Sequences

CONSTANT Gap   \* sizeof(patchsize_t) * 3, the size of a patch's own header

ASSUME GapAssumption == Gap \in Nat

NoDiff == -1   \* the null srcdiff

\* The object a BinDiff is constructed as: cur is the offset that is matching.
NewBinDiff == [cur |-> 0, srcdiff |-> NoDiff, patches |-> <<>>, patchClosed |-> TRUE]

\* The last patch, opened at cur if the previous one is closed.
Opened(d) ==
  IF d.patchClosed
  THEN [d EXCEPT !.patches = Append(@, [start |-> d.cur, size |-> 0, buf |-> <<>>]),
                 !.patchClosed = FALSE]
  ELSE d

\* b joins the last patch and replaces n bytes of the source.
Extended(d, b, n) ==
  LET k == Len(d.patches)
      p == d.patches[k]
      q == [start |-> p.start, size |-> p.size + n, buf |-> Append(p.buf, b)]
  IN  [d EXCEPT !.patches = [@ EXCEPT ![k] = q]]

\* The open patch ends; bytes are equal from here on.
Ended(d) == [d EXCEPT !.srcdiff = NoDiff, !.patchClosed = TRUE]

\* Mistake: a patch ends at the first byte that is equal again.
PutByteSkipsEqual(src, d, b) ==
  LET next ==
        CASE Len(src) <= d.cur -> Extended(Opened(d), b, 0)
          [] Len(src) > d.cur /\ src[d.cur + 1] # b ->
               Extended(Opened([d EXCEPT !.srcdiff = d.cur]), b, 1)
          [] OTHER -> [d EXCEPT !.patchClosed = TRUE]
  IN  [next EXCEPT !.cur = @ + 1]

\* One byte b of the destination, by the branches of the loop in put().  Equal
\* bytes still join an open patch until more than Gap of them are seen: a new
\* patch would cost more than they do.
PutByte(src, d, b) ==
  LET past  == Len(src) <= d.cur
      equal == src[d.cur + 1] = b
      next  ==
        CASE past -> Extended(Opened(d), b, 0)
          [] ~past /\ equal /\ d.srcdiff # NoDiff /\ Gap < d.cur - d.srcdiff ->
               Ended(d)
          [] ~past /\ ~equal ->
               Extended(Opened([d EXCEPT !.srcdiff = d.cur]), b, 1)
          [] ~past /\ equal /\ d.srcdiff # NoDiff /\ d.cur - d.srcdiff <= Gap ->
               Extended(Opened(d), b, 1)
          [] OTHER -> d
  IN  [next EXCEPT !.cur = @ + 1]

\* put(): one byte after the other.
Put(src, d, bytes) ==
  LET put[n \in 0 .. Len(bytes)] == IF n = 0 THEN d ELSE PutByte(src, put[n - 1], bytes[n])
  IN  put[Len(bytes)]

\* Mistake: the rest of the source is forgotten.
CloseOnly(src, d) == [d EXCEPT !.patchClosed = TRUE]

\* Mistake: the rest is removed from the beginning of the source.
CloseFromStart(src, d) ==
  [d EXCEPT !.patchClosed = TRUE,
            !.patches = IF d.cur < Len(src)
                        THEN Append(@, [start |-> 0, size |-> Len(src) - d.cur,
                                        buf |-> <<>>])
                        ELSE @]

\* What is left of the source is removed by one more patch.
Close(src, d) ==
  [d EXCEPT !.patchClosed = TRUE,
            !.patches = IF d.cur < Len(src)
                        THEN Append(@, [start |-> d.cur, size |-> Len(src) - d.cur,
                                        buf |-> <<>>])
                        ELSE @]

Diff(src, dst) == Close(src, Put(src, NewBinDiff, dst)).patches

\* A patch fits a buffer when it replaces bytes the buffer has; applyPatches
\* tests nothing, and what it does otherwise is undefined.
Fits(result, p) == p.start + p.size <= Len(result)

\* One patch: the bytes behind it are kept aside only if they have to move.
ApplyPatch(result, p) ==
  LET grown     == Len(result) + Len(p.buf) - p.size
      copyAfter == p.size # Len(p.buf) /\ p.start + p.size < Len(result)
      shift     == p.size - Len(p.buf)
  IN  [i \in 1 .. grown |->
         CASE p.start < i /\ i <= p.start + Len(p.buf) -> p.buf[i - p.start]
           [] i > p.start + Len(p.buf) /\ copyAfter    -> result[i + shift]
           [] OTHER                                     -> result[i]]

\* Patches are applied last to first: an earlier one moves what follows it.
applyPatches(result, patches) ==
  LET N == Len(patches)
      apply[n \in 0 .. N] ==
        IF n = 0 THEN result ELSE ApplyPatch(apply[n - 1], patches[N - n + 1])
  IN  apply[N]

\* Do the patches fit, each at its turn?
AllFit(result, patches) ==
  \A k \in 1 .. Len(patches) :
    Fits(applyPatches(result, SubSeq(patches, k + 1, Len(patches))), patches[k])
=============================================================================
