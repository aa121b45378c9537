SPECIFICATION FairSpec
CONSTANTS
  Conns = {c1, c2}
  Fds = {f1, f2}
  None = None
  MaxData = 1
  MaxTimerEvents = 0
  FinWithData = TRUE
  CloseMidBatch = FALSE
PROPERTIES
  GoneIsNoticed
CHECK_DEADLOCK FALSE
