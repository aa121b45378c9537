CONSTANTS
  PoolThreads = {w1}
  Quotes = {"low", "high", "wide"}
  MaxQuotes = 2
  MaxResponses = 1
  Framing = "field"
  MaxCalls = 2
  MaxBeats = 1
  MaxInbound = 1
  WholeMessages = TRUE
  MaxRequests = 2
  MaxFromServer = 3
  Buffers = {b1, b2, b3}
  WORKER_THREADS = 2
  QueueSize = 2
  MaxDatagrams = 2
  NoBuffer = NoBuffer
SPECIFICATION TradeSpec
PROPERTIES LogonCompletes
CHECK_DEADLOCK FALSE
