SPECIFICATION ServerSpec
CONSTANTS
  Conns = {c1, c2, c3, c4}
  NoConn = none
  MaxWorkers = 2
  Prespawn = 1
  SqSize = 2
  ThreadsMayFail = TRUE
  AllocMayFail = TRUE
  FewerConns = {c1, c2, c3}
  Ports = {80, 81}
  PortLists <- Lists
  MaxStarts = 3
  Lingers <- LingersDef
  MaxWritten = 3
INVARIANTS
  SocketHasOneHolder
  NoSocketWaits
  StartIsWhole
  HandlersAreCounted
  StartedServerAnswers
PROPERTIES
  ImplementsAcceptQueue
  ServerEnds
  ClosedInOrder
CHECK_DEADLOCK FALSE
