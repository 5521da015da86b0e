SPECIFICATION Spec
CONSTANTS
  Window = {w1, w2}
  Socket = {s1, s2, s3}
  Request = {r1}
  MaxPending = 1
  MaxTimers = 2
  MaxEvents = 4
  MaxBusyEvents = 2
  NoSocket = NoSocket
  Null = Null
INVARIANTS
  TypeOK
  PendingIsWaiting
  SocketsInHand
PROPERTIES
  EveryRequestEnds
  TurnsEnd
CHECK_DEADLOCK FALSE
