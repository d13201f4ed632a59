--------------------------- MODULE SimpleCacheEntry ---------------------------
(***************************************************************************)
(* The <hash>_0 file of an entry (SimpleCacheEntry.java): its fields, the  *)
(* warnings parsing raises about them and what serialization recomputes.   *)
(*                                                                         *)
(* A checksum is represented by the value it was computed from, so two     *)
(* checksums are equal exactly when the data are.                          *)
(***************************************************************************)
EXTENDS HttpCacheMetadata

CONSTANTS
  Keys,           \* raw keys
  KeyLength(_),   \* length of a key
  NoSum           \* a checksum the file does not carry

HEADER_SIZE == 24
EOF_SIZE == 24
SHA256_SIZE == 32

\* A file whose records can be located; keyHash and keySha256 are the key they
\* were computed from, crc1 and crc0 the streams.
EntryFiles == [key : Keys, keyHash : Keys \cup {NoSum}, stream1 : Bytes,
               crc1 : Bytes \cup {NoSum}, stream0 : Stream0s,
               crc0 : Stream0s \cup {NoSum}, keySha256 : Keys \cup {NoSum}]

\* keyHash is the header's; it is never absent, so NoSum there is a wrong hash.
verify(e) ==
     (IF e.keyHash # e.key THEN {"header key_hash mismatch"} ELSE {})
  \cup (IF e.crc1 \notin {NoSum, e.stream1} THEN {"stream1 crc32 mismatch"} ELSE {})
  \cup (IF e.crc0 \notin {NoSum, e.stream0} THEN {"stream0 crc32 mismatch"} ELSE {})
  \cup (IF e.keySha256 \notin {NoSum, e.key} THEN {"sha256(key) mismatch"} ELSE {})

hasKeySha256(e) == e.keySha256 # NoSum

\* Mutant of serialize: the parsed checksum of stream 1 is written back.
serializeOldCrc1(e, withKeySha256) ==
  [e EXCEPT !.keyHash = e.key, !.crc0 = e.stream0,
            !.keySha256 = IF withKeySha256 THEN e.key ELSE NoSum]

\* Every checksum is computed afresh, whatever the parsed ones said.
serialize(e, withKeySha256) ==
  [e EXCEPT !.keyHash = e.key,
            !.crc1 = e.stream1,
            !.crc0 = e.stream0,
            !.keySha256 = IF withKeySha256 THEN e.key ELSE NoSum]

\* Length of the file serialize() returns.
serializedSize(e) ==
    HEADER_SIZE + KeyLength(e.key) + ByteLength(e.stream1) + EOF_SIZE
  + stream0Length(e.stream0) + (IF hasKeySha256(e) THEN SHA256_SIZE ELSE 0) + EOF_SIZE

=============================================================================
