CONSTANTS
  Phases = {"serve"}
  MaxConns = 1
  Fds = {f1}
  Eventfd = eventfd
  Timerfd = timerfd
  None = None
  Causes <- FinAndApp
  StaleErrno = FALSE
  ResetAnyTime = FALSE
  EarlyDrop = FALSE
  LateSend = FALSE
  SndCapacity = 1
  MaxData = 0
  MaxSends = 0
  PoolSize = 2
  InOrder = FALSE
  MaxAccepts = 2
SPECIFICATION ServerSpec
INVARIANT ReleasedOnce
CHECK_DEADLOCK FALSE
