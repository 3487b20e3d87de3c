SPECIFICATION FairSpec
CONSTANTS
  Threads = {t1, t2}
  NoTid = NoTid
  MaxDepth = 1
  Capacity = 1
  GuardEscapes = "kept"
INVARIANTS
  TypeOK
  MutualExclusion
  NoAbort
  WaitersAreCounted
  NoLostWakeup
  IInv
PROPERTIES
  AllReturn
  ImplementsSignalLock
