SPECIFICATION Spec
CONSTANTS
  Missing = Missing
  Linked = Linked
  Closed = Closed
  MaxSparseData = 2
  Faults = {"io", "crash", "short"}
  MaxOffset = 3
  MaxWrites = 3
  MaxOpens = 3
INVARIANTS
  SparseReadsReturnWritten
  SparseChecksumsTellDamage
  RangesMatchFile
CHECK_DEADLOCK FALSE
