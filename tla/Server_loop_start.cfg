CONSTANTS
  Phases = {"start"}
  MaxConns = 2
  Fds = {f1}
  Eventfd = eventfd
  Timerfd = timerfd
  None = None
  Causes <- AnythingThenFin
  StaleErrno = FALSE
  ResetAnyTime = FALSE
  EarlyDrop = FALSE
  LateSend = FALSE
  SndCapacity = 1
  MaxData = 1
  MaxSends = 2
  PoolSize = 2
  InOrder = FALSE
  MaxAccepts = 2
SPECIFICATION StartSpec
PROPERTY LoopsObtained
CHECK_DEADLOCK FALSE
