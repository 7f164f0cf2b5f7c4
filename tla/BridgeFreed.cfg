SPECIFICATION Spec
CONSTANTS
  NoConn = NoConn
  Workers = {w1, w2}
  MaxObjs = 4
  MaxStops = 1
  UserInterrupts = TRUE
CHECK_DEADLOCK FALSE
INVARIANTS
  NoUseAfterFree
