CONSTANTS
  Gap = 1
  Byte = {0, 1}
  MaxSource = 5
  MaxDest = 6
  MaxField = 2
SPECIFICATION SpecStream
INVARIANT PatchesRewritePrefix
INVARIANT PatchesOrdered
INVARIANT MergingPays
CHECK_DEADLOCK FALSE
