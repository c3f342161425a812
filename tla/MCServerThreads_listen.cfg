CONSTANTS
  c1 = c1
  c2 = c2
  Conn = {c1, c2}
  Dedicated = FALSE
  maxncl = 2
  MaxFrames = 1
  MaxLines = 1
  MaxConsole = 1
  NoThread = NoThread
  NoConn = NoConn
SPECIFICATION FairSpec
INVARIANT SlotBound
PROPERTY AdmittedServed
CHECK_DEADLOCK FALSE
