SPECIFICATION Spec
CONSTANTS
  Hashes = {h1}
  Absent = Absent
  Corrupt = Corrupt
  Whole = Whole
  NoTime = NoTime
  MaxClock = 2
  MaxWrites = 2
  MaxOperations = 2
INVARIANTS
  IndexKnowsFiles
  FreshIndexListsFiles
  OrderlyIndexListsFiles
PROPERTIES
  IndexWrittenWhole
