SPECIFICATION FairSpec
CONSTANTS
  Threads = {t1, t2, t3}
  Interruptible = {t1}
  NoTid = NoTid
  MaxDepth = 2
  GuardEscapes = "forgotten"
INVARIANTS
  TypeOK
  MutualExclusion
  NoAbort
  NeverSleepsOnOwnGuard
  NoLostWakeup
  IInv
PROPERTIES
  RecursiveIsTrue
  AllReturn
