SPECIFICATION Spec
CONSTANTS
  k1 = k1
  k2 = k2
  Keys = {k1}
  NoKey = NoKey
  Missing = Missing
  Linked = Linked
  Closed = Closed
  HeaderSize = 1
  EofSize = 1
  Sha256Size = 1
  PrefetchSizes = {20}
  Faults = {"partial"}
  MaxStreamSize = 1
  MaxWrites = 1
  MaxOpens = 3
INVARIANT StreamsOfOneEntry
CHECK_DEADLOCK FALSE
