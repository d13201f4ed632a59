SPECIFICATION Spec
CHECK_DEADLOCK FALSE
CONSTANTS
  r1 = r1
  r2 = r2
  small = small
  medium = medium
  big = big
  huge = huge
  Empty = Empty
  None = None
  Resources = {r1}
  Data = {small}
  Size <- MCSize
  InlineDataLimit = 1
  DedicatedDataLimit = 2
  MaxDataSize = 4
  Deduplicates = TRUE
  Checksum <- MCChecksum
  JavaScript = TRUE
  InMemoryCodeCache = FALSE
  Faults = {"create"}
  MaxRequests = 2
INVARIANT DoomOnlyInitialized
