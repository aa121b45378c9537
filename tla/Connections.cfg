SPECIFICATION Spec
CONSTANTS
  Conns = {c1, c2, c3}
  Fds = {f1, f2}
  None = None
  MaxData = 2
  MaxTimerEvents = 1
  FinWithData = TRUE
  CloseMidBatch = FALSE
SYMMETRY Symmetry
INVARIANTS
  NoLostEdge
  DisconnectedOnce
  NothingLostAtDisconnect
CHECK_DEADLOCK FALSE
