------------------------------- MODULE DiffStream ------------------------------
(***************************************************************************)
(* One DiffSectionStream (src/src/Server.cpp:1308): an object serializes   *)
(* itself field by field into a BinDiff against the bytes last sent for    *)
(* it, and SectBinSerializeStream::join closes the BinDiff.                *)
(***************************************************************************)
EXTENDS BinDiff

CONSTANTS
  Byte,      \* the values of a byte
  MaxSource, \* bound: length of the bytes last sent
  MaxDest,   \* bound: length of the new serialization
  MaxField   \* bound: length of one field

ASSUME DiffStreamAssumption == MaxSource \in Nat /\ MaxDest \in Nat /\ MaxField \in Nat

VARIABLES
  src,    \* the bytes last sent, the source
  fed,    \* the fields written so far, the destination
  bd,     \* DiffSectionStream::bd
  closed  \* has join() closed it?

streamVars == <<src, fed, bd, closed>>

Field == UNION {[1 .. n -> Byte] : n \in 1 .. MaxField}

InitStream ==
  /\ src \in UNION {[1 .. n -> Byte] : n \in 0 .. MaxSource}
  /\ fed = <<>> /\ bd = NewBinDiff /\ closed = FALSE

\* operator<< of one field.
Write(field) ==
  /\ ~closed /\ Len(fed) + Len(field) <= MaxDest
  /\ bd' = Put(src, bd, field)
  /\ fed' = fed \o field
  /\ UNCHANGED <<src, closed>>

Join ==
  /\ ~closed
  /\ bd' = Close(src, bd) /\ closed' = TRUE
  /\ UNCHANGED <<src, fed>>

NextStream == Join \/ \E field \in Field : Write(field)

SpecStream == InitStream /\ [][NextStream]_streamVars

-----------------------------------------------------------------------------
\* At every moment the patches so far rewrite the part of the source that has
\* been passed into what was fed, and leave the rest of the source alone, however
\* the destination is cut into fields.  After close() the rest is gone as well:
\* applyPatches(src, diff) is exactly the destination (BinDiff.cpp:7-71).
PatchesRewritePrefix ==
  applyPatches(src, bd.patches) =
    fed \o (IF closed THEN <<>> ELSE SubSeq(src, bd.cur + 1, Len(src)))

\* The patches are disjoint, in ascending order and inside the source: without
\* that no order of application would be right (BinDiff.cpp:55).
PatchesOrdered ==
  \A k \in 1 .. Len(bd.patches) :
    LET p == bd.patches[k]
    IN  /\ p.start + p.size <= Len(src)
        /\ k < Len(bd.patches) => p.start + p.size <= bd.patches[k + 1].start

\* Merging pays: between two patches that replace bytes more than Gap equal bytes
\* were skipped or carried, so a header is never spent to save fewer bytes; and an
\* unchanged object costs no patch at all (Server.cpp:663 skips it).
MergingPays ==
  /\ fed = src => bd.patches = <<>>
  /\ \A k \in 2 .. Len(bd.patches) :
       LET p == bd.patches[k - 1]
           q == bd.patches[k]
           equalEnd == {n \in 0 .. Len(p.buf) :
                          \A i \in 0 .. n - 1 : /\ p.size - i > 0
                                                /\ p.buf[Len(p.buf) - i] = src[p.start + p.size - i]}
       IN  q.buf # <<>> => \E n \in equalEnd : q.start - (p.start + p.size) + n > Gap
=============================================================================
