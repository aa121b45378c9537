CONSTANTS
  Fds = {f1, f2}
  Senders = {s1}
  Acceptor = acceptor
  Reactor = reactor
  None = None
  PipeCap = 2
  ReadChunk = 1
  EdgeOnEveryWrite = TRUE
  EarlyStop = FALSE
  MaxSends = 2
  MaxSockEvents = 1
SPECIFICATION FairSpec
INVARIANTS NoLostAccept NoLostSend NoStrandedData
PROPERTIES StopStops ConnectionsServed DataFlushed
CHECK_DEADLOCK FALSE
