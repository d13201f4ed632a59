SPECIFICATION Spec
CONSTANTS
  k1 = k1
  k2 = k2
  k3 = k3
  c1 = c1
  c2 = c2
  Keys <- MCSharedKeys
  Hashes <- MCSharedKeys
  Bytes <- MCBytes
  Bodies <- MCBodies
  Compress <- MCCompress
  Decompress <- MCDecompress
  ByteLength <- MCByteLength
  KeyLength <- MCKeyLength
  EntryHash <- MCEntryHash
  EmptyBytes <- MCEmptyBytes
  NoBytes = NoBytes
  NoLength = NoLength
  NoSum = NoSum
  None = None
  Lost = Lost
  Missing = Missing
  Malformed = Malformed
  Thrown = Thrown
  GzipVariant = "GZIP; q=1"
  InitialListing <- MCSharedListing
  Callers = {c1, c2}
  InitialFiles <- MCSharedFiles
  InitialHints = {0}
  OtherBytes <- MCSharedOtherBytes
  MaxBatch = 1
  MaxClock = 1
SYMMETRY MCCallers
INVARIANTS
  IndexDescribesFiles
PROPERTIES
  IndexKeepsEntries
  EditsAsRequested
