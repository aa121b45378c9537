CONSTANTS
  Structures = {"mailbox", "ring", "buffer", "book"}
  Pushers = {s1, s2}
  Taker = r
  Items = {x, y}
  MaxPushes = 3
  Capacity = 2
  Wrap = 8
  Starts = {0, 7}
  RingProducers = {p1, p2}
  RingConsumers = {k1}
  Rings = {"MPSC", "SPSC", "MPSC_linked", "SPSC_cached", "SPSCRing", "MPSCRing", "lq", "lock_queue", "q", "system", "what", "my", "shm"}
  MultiProducer = {"MPSCRing"}
  MultiConsumer = {}
  MaxItems = 3
  NoItem = NoItem
  Chars = {"a", "n"}
  Newline = "n"
  Zero = "0"
  DefaultSize = 2
  MaxWrite = 2
  MaxReadable = 5
  Prices = {1, 2, 3, 4}
  Quantities = {1, 2}
  Shown = 2
  Unit = 2
  MaxOrders = 5
SPECIFICATION StructuresSpec
INVARIANTS TakenIsPrefix NoSharedSlot MaximalDeal LeftoversShown TradesAddUp
PROPERTIES ImplementsMailbox ServerBufferImplementsByteQueue Progress AllTaken
CHECK_DEADLOCK FALSE
