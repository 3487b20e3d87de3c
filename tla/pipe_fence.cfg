SPECIFICATION FairSpec
CONSTANTS
  Threads = {t1, t2, t3}
  NoTid = NoTid
  Capacity = 1
  MaxCalls = 3
CHECK_DEADLOCK FALSE
INVARIANTS
  TypeOK
  GuardSeesItem
  NoLostWakeup
  IInv
PROPERTIES
  AllReturn
