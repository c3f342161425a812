CONSTANTS
  c1 = c1
  c2 = c2
  Conn = {c1, c2}
  Dedicated = TRUE
  maxncl = 3
  MaxFrames = 1
  MaxLines = 1
  MaxConsole = 1
  NoThread = NoThread
  NoConn = NoConn
SPECIFICATION Spec
SYMMETRY ConnSymmetry
INVARIANT TypeOK
INVARIANT LiveThreadsListed
 
INVARIANT WorldInOrder
INVARIANT LockOrder
 
CHECK_DEADLOCK FALSE
