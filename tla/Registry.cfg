SPECIFICATION RegistrySpec
CONSTANTS
  Prefixes <- PrefixesDef
  Paths <- PathsDef
  Spellings = {"get", "GET", "POST"}
  Methods = {"GET", "POST"}
  Upper <- UpperDef
  Funs = {f1, f2}
  Events = {"open", "close"}
  None = NULL
  MaxFrames = 3
  Sites <- SitesDef
  Chars <- Length
  MaxRequests = 1
  MaxDepth = 3
INVARIANTS
  StackMatchesFrames
  OneLoopUnlessStopped
  MountIsRight
PROPERTIES
  ServeStopsItsServer
  StoppedServeUnwinds
  ImplementsRoutes
  SearchEnds
CHECK_DEADLOCK FALSE
