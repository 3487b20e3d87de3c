SPECIFICATION FairSpec
CONSTANTS
  Threads = {t1, t2}
  NoTid = NoTid
  Regions <- OneRegion
  PageSize = 2
  Ops = {"read"}
  IOErrors = TRUE
  Handlers = TRUE
  Panics = TRUE
INVARIANTS
  AccessesSurvive
  RootIsSafe
  ErrIsExplained
  IInv
PROPERTIES
  PoisonIsFinal
  AllEnd
