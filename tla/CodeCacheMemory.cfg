SPECIFICATION FairSpec
CHECK_DEADLOCK FALSE
CONSTANTS
  r1 = r1
  r2 = r2
  small = small
  medium = medium
  big = big
  huge = huge
  Empty = Empty
  None = None
  Resources = {r1}
  Data = {medium, big}
  Size <- MCSize
  InlineDataLimit = 1
  DedicatedDataLimit = 2
  MaxDataSize = 4
  Deduplicates = TRUE
  Checksum <- MCChecksum
  JavaScript = TRUE
  InMemoryCodeCache = TRUE
  Faults = {"create", "open", "transfer", "evict", "forget"}
  MaxRequests = 3
INVARIANT TypeOK
PROPERTY FetchEventuallyAnswered
