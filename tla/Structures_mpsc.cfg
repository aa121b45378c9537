CONSTANTS
  Structures = {"ring"}
  Pushers = {s1, s2}
  Taker = r
  Items = {x, y}
  MaxPushes = 3
  Capacity = 4
  Wrap = 16
  Starts = {0}
  RingProducers = {p1, p2}
  RingConsumers = {k1}
  Rings = {"MPSC_linked"}
  MultiProducer = {"MPSC_linked"}
  MultiConsumer = {}
  MaxItems = 2
  NoItem = NoItem
  Chars = {"a", "n"}
  Newline = "n"
  Zero = "0"
  DefaultSize = 2
  MaxWrite = 2
  MaxReadable = 5
  Prices = {1, 2, 3, 4}
  Quantities = {1, 2}
  Shown = 2
  Unit = 2
  MaxOrders = 5
SPECIFICATION StructuresSpec
INVARIANTS TakenIsPrefix
