SPECIFICATION Spec
CONSTANTS
  ParentThreads = {p1, p2}
  ChildThreads = {c1, c2}
  NoTid = NoTid
  Capacity = 2
INVARIANTS
  NoLostWakeupAfterFork
