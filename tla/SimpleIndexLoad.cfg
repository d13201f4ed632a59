SPECIFICATION FairSpec
CHECK_DEADLOCK FALSE
CONSTANTS
  h1 = h1
  h2 = h2
  h3 = h3
  NoEntry = NoEntry
  HighPriority = 0
  EvictionMarginDivisor = 4
  EstimatedEntryOverhead = 2
  Hashes = {h1, h2}
  Callbacks = {t1}
  Hints = {0}
  InitialDisks <- MCDisks2
  Sizes = {1, 3, 4}
  MaxEntrySize = 3
  MaxSizes = {4}
  UseSizeHeuristic = FALSE
  PrioritizationFactor = 1
  PrioritizationPeriod = 0
  MaxNow = 2
INVARIANTS
  TypeOK
  NoResurrection
  HasIsExact
  CacheSizeIsTotal
  SavedOrScheduled
PROPERTIES
  EvictsLeastRecentlyUsed
  CallbacksEventuallyRun
