CONSTANTS
  Parts = {"bytes", "units", "accept", "cube"}
  Bytes = {a, b}
  Junk = Junk
  MaxLen = 3
  Payloads <- SomePayloads
  InitialCapacity = 3
  MaxPending = 6
  Senders = {t1, t2}
  Reactor = Reactor
  None = None
  Chunk = 2
  SndBuf = 2
  MaxSends = 4
  GracefulClose = TRUE
  TornSize = FALSE
  SubCount = 3
  IntWidth = 4
  SizeWidth = 8
  Backlog = 2
  MaxArrivals = 18
  Starts <- SomeStarts
  Bursts = TRUE
  OutOfFds = TRUE
  Clients = {c1, c2}
  NoClient = NoClient
  BodySizes = {1, 2}
  MaxFrames = 2
  Orderly = TRUE
SPECIFICATION LifeSpec
INVARIANTS MemoryBounded Balanced FramesAnswered WireFollowsBuffer GracefulCloseKeepsData
PROPERTIES ImplementsByteQueue DrainsUnlessBlocked
CHECK_DEADLOCK FALSE
