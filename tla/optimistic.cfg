SPECIFICATION FairProgram
CONSTANTS
  Threads = {t1, t2, t3}
  MaxDepth = 1
  GuardEscapes = "never"
INVARIANTS
  TypeOK
  NoSignalForgotten
  OrdinaryCodeIsNotRefused
  IInv
PROPERTIES
  AllHandled
