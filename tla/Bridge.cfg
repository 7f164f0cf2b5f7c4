SPECIFICATION Spec
CONSTANTS
  NoConn = NoConn
  Workers = {w1, w2}
  MaxObjs = 4
  MaxStops = 2
  UserInterrupts = TRUE
CHECK_DEADLOCK FALSE
INVARIANTS
  WorkersOwnLiveObjects
  ActiveIsSound
  QueueIsSound
  NoLostRequest
  AnswerMeetsItsHandler
  EventsMatchConnections
  AnchorNamesItsConnection
PROPERTIES
  StopAnswersWaiters
  ImplementsExchange
