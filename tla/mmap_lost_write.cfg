SPECIFICATION Spec
CONSTANTS
  Threads = {t1, t2}
  NoTid = NoTid
  Regions <- OneRegion
  PageSize = 2
  Ops = {"read", "write"}
  IOErrors = FALSE
  Handlers = FALSE
  Panics = FALSE
PROPERTIES
  AnonymousPagesRemain
