SPECIFICATION WebSocketSpec
CONSTANTS
  Configs <- AnyConfig
  Targets <- SomeTargets
  FileRequests <- ForFiles
  AllRequests <- AllKinds
  PackageConfigs <- PackageDef
  Quota = 2
  SomeJobs <- SomeJobsDef
  MaxSome = 3
  LongJobs <- LongJobsDef
  MaxLong = 4
  Replies <- RepliesDef
  Callbacks <- CallbacksDef
  MaxHeaders = 4
  PingScripts <- PingScriptsDef
  Space = 16
  MemSize = 8
  MaxPings = 1
  Lengths <- LengthsDef
  MaxSends = 1
  Apis = {"http", "download", "ws"}
  Timeouts <- TimeoutsDef
  Default = 3
  MaxClock = 4
  MaxRequests = 3
  Interims = {TRUE, FALSE}
INVARIANTS
  PingsAreHandled
CHECK_DEADLOCK FALSE
