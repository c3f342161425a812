CONSTANTS
  c1 = c1
  c2 = c2
  Conn = {c1, c2}
  Dedicated = TRUE
  maxncl = 3
  MaxFrames = 1
  MaxLines = 0
  MaxConsole = 0
  NoThread = NoThread
  NoConn = NoConn
SPECIFICATION FairSpec
PROPERTY JoinReturns
CHECK_DEADLOCK FALSE
