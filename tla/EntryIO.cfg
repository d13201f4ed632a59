SPECIFICATION Spec
CONSTANTS
  k1 = k1
  k2 = k2
  Keys <- MCKeys
  NoKey = NoKey
  Missing = Missing
  Linked = Linked
  Closed = Closed
  HeaderSize = 1
  EofSize = 1
  Sha256Size = 1
  PrefetchSizes = {0, 20}
  Faults = {"io", "crash"}
  MaxStreamSize = 2
  MaxWrites = 2
  MaxOpens = 3
SYMMETRY MCSymmetry
INVARIANTS
  SoundEntryWorks
  ReadsReturnWritten
  ChecksumsTellDamage
  StreamsOfOneEntry
  ClosedFileSizes
CHECK_DEADLOCK FALSE
