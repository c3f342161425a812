CONSTANTS
  CR = 4
  LF = 2
  MaxFrames = 3
  MaxTimeouts = 2
  SplitLineEnd = FALSE
SPECIFICATION Spec
CHECK_DEADLOCK FALSE
INVARIANT TypeOK
 
INVARIANT AppliedInOrder
PROPERTY KeepsPromise
 
