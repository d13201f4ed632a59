-------------------------- MODULE SimpleCacheLibrary --------------------------
(***************************************************************************)
(* The public API (SimpleCacheLibrary.java): pure functions from the bytes *)
(* of the index and entry files to restored entries or to rewritten files. *)
(* The caller does all file I/O (see CacheDirectory).                      *)
(***************************************************************************)
EXTENDS SimpleCacheEntry, SimpleCacheIndex

CONSTANTS
  EntryHash(_),   \* first 8 bytes of SHA1(key)
  Missing,        \* no such entry file: Java's null for its bytes
  Malformed,      \* an entry file parse() rejects with an exception
  Thrown          \* the outcome of a call that throws

\* What an entry provider can find for a hash.
FileContents == EntryFiles \cup {Missing, Malformed}

\* Empty streams and a warning.
missingEntry(h) ==
  [hash |-> h, body |-> EmptyBytes, rawBody |-> EmptyBytes, encoding |-> "none",
   warnings |-> {"missing entry file"}]

\* The decoded body, or the stored bytes when they cannot be decoded.
restoredBody(e) ==
  LET decoded == decode(e.stream1, contentEncoding(e.stream0))
  IN  IF decoded = NoBytes THEN e.stream1 ELSE decoded

decodeWarnings(e) ==
  IF decode(e.stream1, contentEncoding(e.stream0)) = NoBytes
  THEN {"failed to decode content-encoding"} ELSE {}

parsedEntry(h, e) ==
  [hash |-> h, body |-> restoredBody(e), rawBody |-> e.stream1,
   encoding |-> contentEncoding(e.stream0),
   warnings |-> verify(e) \cup decodeWarnings(e)]

restoreEntry(h, contents) ==
  IF contents = Missing THEN missingEntry(h) ELSE parsedEntry(h, contents)

\* One result per index record, in the index's order.  parseEntry's exception on
\* a malformed file is not caught: it ends the whole call.
restore(index, files) ==
  IF \E h \in listed(index) : files[h] = Malformed
  THEN Thrown
  ELSE [i \in DOMAIN index.entries |->
          LET h == index.entries[i].hash IN restoreEntry(h, files[h])]

\* Mutant of storedBody: a body the caller compressed is compressed again.
storedBodyTwice(e, newBody, autoContentEncoding) ==
  encode(newBody, contentEncoding(e.stream0))

\* The bytes stream 1 is given: re-encoded only on request.
storedBody(e, newBody, autoContentEncoding) ==
  IF autoContentEncoding THEN encode(newBody, contentEncoding(e.stream0)) ELSE newBody

\* Replaces stream 1, patches content-length, recomputes every checksum.
modifyEntryBody(e, newBody, autoContentEncoding) ==
  LET stored == storedBody(e, newBody, autoContentEncoding)
  IN  serialize([e EXCEPT !.stream1 = stored,
                          !.stream0 = patchContentLength(@, ByteLength(stored))],
                hasKeySha256(e))

\* Mutant of updateIndex: the total is not recomputed.
updateIndexOldTotal(index, newEntry, lastUsedInternal) ==
  serializeIndex(put(index, newIndexEntry(EntryHash(newEntry.key), lastUsedInternal,
                                          serializedSize(newEntry))))

\* Mutant of updateIndex: the size is that of the body alone.
updateIndexBodySize(index, newEntry, lastUsedInternal) ==
  serializeIndex(recomputeCacheSize(
    put(index, newIndexEntry(EntryHash(newEntry.key), lastUsedInternal,
                             ByteLength(newEntry.stream1)))))

\* The record is replaced as a whole and the index becomes the caller's own.
updateIndex(index, newEntry, lastUsedInternal) ==
  LET record == newIndexEntry(EntryHash(newEntry.key), lastUsedInternal,
                              serializedSize(newEntry))
  IN  serializeIndex([recomputeCacheSize(put(index, record)) EXCEPT
                        !.reason = REASON_IDLE,
                        !.cacheLastModifiedInternal = lastUsedInternal])

=============================================================================
