SPECIFICATION Spec
CONSTANTS
  Threads = {t1, t2, t3}
  Interruptible = {t1, t2}
  NoTid = NoTid
  MaxDepth = 1
  GuardEscapes = "kept"
PROPERTIES
  ImplementsSignalLock
