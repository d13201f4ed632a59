SPECIFICATION Spec
CONSTANTS
  k1 = k1
  k2 = k2
  k3 = k3
  c1 = c1
  c2 = c2
  Keys <- MCKeys
  Hashes <- MCKeys
  Bytes <- MCBytes
  Bodies <- MCBodies
  Compress <- MCCompress
  Decompress <- MCDecompress
  ByteLength <- MCByteLength
  KeyLength <- MCKeyLength
  EntryHash <- MCEntryHash
  EmptyBytes <- MCEmptyBytes
  NoBytes = NoBytes
  NoLength = NoLength
  NoSum = NoSum
  None = None
  Lost = Lost
  Missing = Missing
  Malformed = Malformed
  Thrown = Thrown
  GzipVariant = "GZIP; q=1"
  InitialListing <- MCListing
  Callers = {c1}
  InitialFiles <- MCInitialFiles
  InitialHints = {0}
  OtherBytes <- MCOtherBytes
  MaxBatch = 2
  MaxClock = 2
INVARIANTS
  TypeOK
  WrittenBodyRestored
  StoredMetadataConsistent
  IndexDescribesFiles
