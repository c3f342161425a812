CONSTANTS
  o1 = o1
  o2 = o2
  o3 = o3
  p1 = p1
  s1 = s1
  l1 = l1
  m1 = m1
  Object = {o1, o2, o3}
  WeakPtr = {p1}
  OSet = {s1}
  OList = {l1}
  OMap = {m1}
  NULL = NULL
  MaxCopies = 1
SPECIFICATION Spec
INVARIANT CountsMatch
INVARIANT NoDangling
INVARIANT AssertHolds
PROPERTY KeepsPromise
CHECK_DEADLOCK FALSE
