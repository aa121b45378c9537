CONSTANTS
  Parts = {"set", "wheel"}
  App = app
  Reactor = reactor
  None = None
  Intervals = {0, 1, 2}
  MaxTimers = 2
  MaxTime = 4
  Lag = TRUE
  LateCancel = TRUE
  NoTask = NoTask
  Server = server
  Capacity = 4
  IdleTimeout = 3
  Timeouts = {1, 2, 4}
  Modes = {"sub", "base"}
  ReEnable = FALSE
  MaxIds = 2
  MaxTasks = 3
  MaxLag = 2
SPECIFICATION AllTimersSpec
INVARIANTS NextIsArmed RunsAsAsked FiresOnTime EnabledIsArmed
PROPERTY DueTimersRun
CHECK_DEADLOCK FALSE
