SPECIFICATION Spec
CHECK_DEADLOCK FALSE
CONSTANTS
  r1 = r1
  r2 = r2
  small = small
  medium = medium
  big = big
  huge = huge
  Empty = Empty
  None = None
  Resources = {r1, r2}
  Data = {Empty, medium, big, huge}
  Size <- MCSize
  InlineDataLimit = 1
  DedicatedDataLimit = 2
  MaxDataSize = 4
  Deduplicates = TRUE
  Checksum <- MCChecksum
  JavaScript = FALSE
  InMemoryCodeCache = FALSE
  Faults = {"create", "open", "transfer", "evict", "copy"}
  MaxRequests = 4
SYMMETRY Same
CONSTRAINT FewCalls
INVARIANTS CallbackExactlyOnce FetchIsFresh DiskMatchesLastRequest
