SPECIFICATION FairSpec
CONSTANTS
  NoConn = NoConn
  Workers = {w1, w2}
  MaxObjs = 3
  MaxStops = 1
  UserInterrupts = TRUE
CHECK_DEADLOCK FALSE
PROPERTIES
  StopReturns
