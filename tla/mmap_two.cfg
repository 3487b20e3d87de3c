SPECIFICATION Spec
CONSTANTS
  Threads = {t1, t2}
  NoTid = NoTid
  Regions <- TwoRegions
  PageSize = 2
  Ops = {"write"}
  IOErrors = FALSE
  Handlers = FALSE
  Panics = FALSE
SYMMETRY Symmetry
INVARIANTS
  TypeOK
  AccessesSurvive
  GuardsOwnTheirEntries
PROPERTIES
  OnlyTheFaultingMapping
