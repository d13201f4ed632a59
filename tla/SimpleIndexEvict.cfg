SPECIFICATION Spec
CHECK_DEADLOCK FALSE
CONSTANTS
  h1 = h1
  h2 = h2
  h3 = h3
  NoEntry = NoEntry
  EvictionMarginDivisor = 4
  EstimatedEntryOverhead = 2
  HighPriority = 1
  Hashes = {h1, h2}
  Callbacks = {}
  Hints = {0, 1}
  InitialDisks <- MCEmptyDisk
  Sizes = {2, 3}
  MaxEntrySize = 3
  MaxSizes = {4, 8}
  UseSizeHeuristic = TRUE
  PrioritizationFactor = 2
  PrioritizationPeriod = 1
  MaxNow = 3
PROPERTIES EvictsStaleAndBigFirst EvictionKeepsUp
SYMMETRY MCSymmetry
