CONSTANTS
  c1 = c1
  o1 = o1
  Gap = 1
  Obj = {o1}
  Client = {c1}
  Content <- TwoLengths
  Absent = Absent
  MaxChanges = 3
  MaxDiffs = 2
SPECIFICATION Spec
INVARIANT ClientFollows
CHECK_DEADLOCK FALSE
