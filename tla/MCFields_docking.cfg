CONSTANTS
  Yard = Yard
  f1 = f1
  f2 = f2
  f3 = f3
  s1 = s1
  Fighter = {f1, f2}
  Shot = {s1}
  Home = Home
  Outer = Outer
  Bubble = Bubble
  Dock = Dock
  Gone = Gone
  END = END
  NULL = NULL
  dt = 1
  baytime = 2
SPECIFICATION Spec
CHECK_DEADLOCK FALSE
INVARIANT TypeOK
INVARIANT OneOwner
INVARIANT ObservesOwned
INVARIANT ListsLive
INVARIANT BubbleEmptied
PROPERTY QueueServed
