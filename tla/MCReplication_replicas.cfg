CONSTANTS
  c1 = c1
  c2 = c2
  o1 = o1
  Gap = 1
  Obj = {o1}
  Client = {c1,c2}
  Content <- TwoLengths
  Absent = Absent
  MaxChanges = 3
  MaxDiffs = 2
SPECIFICATION Spec
SYMMETRY ClientSymmetry
INVARIANT TypeOK
INVARIANT ObjectsMatchEntries
INVARIANT HostFollows
INVARIANT GhostsOnlyByJoining
PROPERTY DeadStayDead
PROPERTY SyncFollowsWorld
CHECK_DEADLOCK FALSE
