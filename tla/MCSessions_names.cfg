CONSTANTS
  c1 = c1
  c2 = c2
  c3 = c3
  Client = {c1, c2, c3}
  Host = Host
  HostName <- Bob
  LoginName <- BobNames
  maxncl = 3
  MaxLogins = 1
SPECIFICATION Spec
SYMMETRY ClientSymmetry
INVARIANT NamesUnique
 
INVARIANT IdsAgreeWhileAllStay
CHECK_DEADLOCK FALSE
