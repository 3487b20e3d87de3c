SPECIFICATION Spec
CONSTANTS
  Threads = {t1, t2}
  NoTid = NoTid
  MaxDepth = 1
  Capacity = 2
  GuardEscapes = "forgotten"
INVARIANTS
  NeverSleepsOnOwnGuard
