--------------------------- MODULE SimpleCacheIndex ---------------------------
(***************************************************************************)
(* index-dir/the-real-index (SimpleCacheIndex.java): a list of entry       *)
(* metadata with a total size, rewritten as a whole.                       *)
(***************************************************************************)
EXTENDS Integers, Sequences, SequencesExt

CONSTANT Hashes   \* 64-bit entry hashes

REASONS == 0..3
REASON_IDLE == 2
INDEX_FILE_VERSION == 9
MIN_INDEX_FILE_VERSION == 8

\* entrySizeChunks counts blocks of 256 bytes.
IndexEntries == [hash : Hashes, lastUsedInternal : Nat,
                 entrySizeChunks : Nat, inMemoryData : 0..3]

setEntrySize(bytes) == (bytes + 255) \div 256

getEntrySize(ie) == 256 * ie.entrySizeChunks

\* new Entry(hash, lastUsedInternal, size)
newIndexEntry(hash, lastUsedInternal, bytes) ==
  [hash |-> hash, lastUsedInternal |-> lastUsedInternal,
   entrySizeChunks |-> setEntrySize(bytes), inMemoryData |-> 0]

listed(index) == { index.entries[i].hash : i \in DOMAIN index.entries }

\* Position of the first record of a listed hash.
find(index, hash) ==
  CHOOSE i \in DOMAIN index.entries :
    /\ index.entries[i].hash = hash
    /\ \A j \in 1 .. i - 1 : index.entries[j].hash # hash

\* Mutant of put: whatever the hash, the first record is taken for it.
putFirst(index, e) == [index EXCEPT !.entries[1] = e]

\* Overwrites the first record of the hash, or appends one.
put(index, e) ==
  [index EXCEPT !.entries =
     IF e.hash \in listed(index) THEN [@ EXCEPT ![find(index, e.hash)] = e]
                                 ELSE Append(@, e)]

totalSize(index) ==
  FoldSeq(LAMBDA ie, total : total + getEntrySize(ie), 0, index.entries)

recomputeCacheSize(index) == [index EXCEPT !.cacheSize = totalSize(index)]

\* serialize() writes the current version whatever version was parsed.
serializeIndex(index) == [index EXCEPT !.version = INDEX_FILE_VERSION]

=============================================================================
