---------------------------- MODULE CodeCacheProofs ----------------------------
(***************************************************************************)
(* Theorems about CodeCache: what the library builds, and what Chromium    *)
(* writes, is what either side reads, whatever the length of the data.     *)
(***************************************************************************)
EXTENDS CodeCache, TLAPS

-------------------------------------------------------------------------------
(* What an entry of each layout looks like to either side *)

\* The length of a sequence is a number, and zero if it is the empty one.
LEMMA Lengths ==
  ASSUME NEW s \in Seq(Byte)
  PROVE  Len(s) \in Nat /\ (s = <<>> <=> Len(s) = 0) /\ Len(<<>>) = 0
BY SMT

\* A first stream with a header, by its fields.
LEMMA HeaderFields ==
  ASSUME NEW time, NEW dataSize, NEW tail
  PROVE  LET stream0 == Header(time, dataSize, tail)
         IN /\ stream0.header = HEADER_SIZE
            /\ stream0.time = time /\ stream0.dataSize = dataSize /\ stream0.tail = tail
BY DEF Header

\* An inline entry for decode(): the tail is as long as the header says.
LEMMA DecodeInline ==
  ASSUME NEW time, NEW data, NEW n \in Nat, n = Len(data), n > 0
  PROVE  LET read == decode(Header(time, n, data), <<>>)
         IN /\ read.kind = "INLINE" /\ read.payload = data
            /\ read.dataSize = n /\ read.responseTimeInternal = time
<1> DEFINE stream0 == Header(time, n, data)
<1>1. /\ stream0.header = HEADER_SIZE /\ stream0.time = time
      /\ stream0.dataSize = n /\ stream0.tail = data
  BY HeaderFields
<1> HIDE DEF stream0
<1>2. KindOf(stream0, <<>>) = "INLINE"
  BY <1>1, SMT DEF KindOf, HEADER_SIZE
<1>3. decode(stream0, <<>>).kind = "INLINE" /\ decode(stream0, <<>>).payload = data
  BY <1>1, <1>2, SMT DEF decode
<1>4. decode(stream0, <<>>).dataSize = n /\ decode(stream0, <<>>).responseTimeInternal = time
  BY <1>1, <1>2, SMT DEF decode
<1>5. QED
  BY <1>3, <1>4 DEF stream0

\* A dedicated one: there is a second stream.
LEMMA DecodeDedicated ==
  ASSUME NEW time, NEW data, NEW n \in Nat, data # <<>>
  PROVE  LET read == decode(Header(time, n, <<>>), data)
         IN /\ read.kind = "DEDICATED" /\ read.payload = data
            /\ read.dataSize = n /\ read.responseTimeInternal = time
<1> DEFINE stream0 == Header(time, n, <<>>)
<1>1. stream0.header = HEADER_SIZE /\ stream0.time = time /\ stream0.dataSize = n
  BY HeaderFields
<1> HIDE DEF stream0
<1>2. KindOf(stream0, data) = "DEDICATED"
  BY <1>1, SMT DEF KindOf, HEADER_SIZE
<1>3. decode(stream0, data).kind = "DEDICATED" /\ decode(stream0, data).payload = data
  BY <1>2, SMT DEF decode
<1>4. decode(stream0, data).dataSize = n /\ decode(stream0, data).responseTimeInternal = time
  BY <1>1, <1>2, SMT DEF decode
<1>5. QED
  BY <1>3, <1>4 DEF stream0

\* An indirect one: the tail is a checksum, and data of a checksum's length would have
\* been inline.
LEMMA DecodeIndirect ==
  ASSUME NEW time, NEW key, NEW n \in Nat, n > SHA_KEY_LENGTH, Len(key) = SHA_KEY_LENGTH
  PROVE  LET read == decode(Header(time, n, key), <<>>)
         IN /\ read.kind = "INDIRECT" /\ read.checksumKey = key
            /\ read.dataSize = n /\ read.responseTimeInternal = time
<1> DEFINE stream0 == Header(time, n, key)
<1>1. /\ stream0.header = HEADER_SIZE /\ stream0.time = time
      /\ stream0.dataSize = n /\ stream0.tail = key
  BY HeaderFields
<1>2. Len(stream0.tail) = SHA_KEY_LENGTH
  BY <1>1
<1> HIDE DEF stream0
<1>3. n # SHA_KEY_LENGTH /\ SHA_KEY_LENGTH # 0
  BY SMT DEF SHA_KEY_LENGTH
<1>4. Len(stream0.tail) # stream0.dataSize /\ Len(stream0.tail) # 0
  BY <1>1, <1>2, <1>3
<1>5. KindOf(stream0, <<>>) = "INDIRECT"
  BY <1>1, <1>2, <1>4, SMT DEF KindOf, HEADER_SIZE
<1>6. decode(stream0, <<>>).kind = "INDIRECT" /\ decode(stream0, <<>>).checksumKey = key
  BY <1>1, <1>5, SMT DEF decode
<1>7. decode(stream0, <<>>).dataSize = n /\ decode(stream0, <<>>).responseTimeInternal = time
  BY <1>1, <1>5, SMT DEF decode
<1>8. QED
  BY <1>6, <1>7 DEF stream0

\* The entry under a checksum has no first stream.
LEMMA DecodeMerged ==
  ASSUME NEW data, data # <<>>
  PROVE  LET read == decode(NoHeader(<<>>), data)
         IN read.kind = "SHA_DEDUP" /\ read.payload = data
<1> DEFINE stream0 == NoHeader(<<>>)
<1>1. stream0.header = 0 /\ Size(stream0) = 0
  BY SMT DEF NoHeader, Size
<1> HIDE DEF stream0
<1>2. KindOf(stream0, data) = "SHA_DEDUP"
  BY <1>1, SMT DEF KindOf, HEADER_SIZE
<1>3. decode(stream0, data).kind = "SHA_DEDUP" /\ decode(stream0, data).payload = data
  BY <1>2, SMT DEF decode
<1>4. QED
  BY <1>3 DEF stream0

\* An entry without data, which is not told from an empty one.
LEMMA DecodeEmpty ==
  ASSUME NEW time
  PROVE  LET read == decode(Header(time, 0, <<>>), <<>>)
         IN read.kind = "EMPTY" /\ read.dataSize = 0 /\ read.responseTimeInternal = time
<1> DEFINE stream0 == Header(time, 0, <<>>)
<1>1. /\ stream0.header = HEADER_SIZE /\ stream0.time = time
      /\ stream0.dataSize = 0 /\ Len(stream0.tail) = 0
  BY HeaderFields, SMT
<1> HIDE DEF stream0
<1>2. KindOf(stream0, <<>>) = "EMPTY"
  BY <1>1, SMT DEF KindOf, HEADER_SIZE, SHA_KEY_LENGTH
<1>3. /\ decode(stream0, <<>>).kind = "EMPTY" /\ decode(stream0, <<>>).dataSize = 0
      /\ decode(stream0, <<>>).responseTimeInternal = time
  BY <1>1, <1>2, SMT DEF decode
<1>4. QED
  BY <1>3 DEF stream0

\* build() is WriteEntry in a cache that merges.
LEMMA BuildIsWrite ==
  ASSUME NEW data \in Seq(Byte), NEW time
  PROVE  build(data, time) = WriteEntry(data, time, TRUE)
<1>1. Len(data) \in Nat
  BY Lengths
<1>2. QED
  BY <1>1, SMT DEF build, WriteEntry, ShouldDeduplicateEntry, INLINE_LIMIT, DEDICATED_LIMIT

\* What is written, by the size of the data.
LEMMA Layouts ==
  ASSUME NEW data \in Seq(Byte), NEW time, NEW enabled \in BOOLEAN
  PROVE  LET n == Len(data)
             written == WriteEntry(data, time, enabled)
         IN /\ n <= INLINE_LIMIT =>
                 /\ written.primary.stream0 = Header(time, n, data)
                 /\ written.primary.stream1 = <<>>
            /\ n > INLINE_LIMIT /\ ~ShouldDeduplicateEntry(n, enabled) =>
                 /\ written.primary.stream0 = Header(time, n, <<>>)
                 /\ written.primary.stream1 = data
            /\ ShouldDeduplicateEntry(n, enabled) =>
                 /\ written.primary.stream0 = Header(time, n, Checksum(data))
                 /\ written.primary.stream1 = <<>>
                 /\ written.dedup[1].stream0 = NoHeader(<<>>)
                 /\ written.dedup[1].stream1 = data
<1> DEFINE n == Len(data)
           written == WriteEntry(data, time, enabled)
<1>1. n \in Nat
  BY Lengths
<1>2. n <= INLINE_LIMIT =>
        written.primary = [stream0 |-> Header(time, n, data), stream1 |-> <<>>]
  BY <1>1, SMT DEF WriteEntry, INLINE_LIMIT
<1>3. n > INLINE_LIMIT /\ ~ShouldDeduplicateEntry(n, enabled) =>
        written.primary = [stream0 |-> Header(time, n, <<>>), stream1 |-> data]
  BY <1>1, SMT DEF WriteEntry, INLINE_LIMIT
<1>4. ShouldDeduplicateEntry(n, enabled) =>
        written.primary = [stream0 |-> Header(time, n, Checksum(data)), stream1 |-> <<>>]
  BY <1>1, SMT DEF WriteEntry, ShouldDeduplicateEntry, INLINE_LIMIT, DEDICATED_LIMIT
<1>5. ShouldDeduplicateEntry(n, enabled) =>
        written.dedup[1] = [stream0 |-> NoHeader(<<>>), stream1 |-> data]
  BY <1>1, SMT DEF WriteEntry, ShouldDeduplicateEntry, INLINE_LIMIT, DEDICATED_LIMIT
<1> HIDE DEF written, n
<1>6. QED
  BY <1>2, <1>3, <1>4, <1>5 DEF written, n

\* Chromium reads the layout that the size in the header calls for.
LEMMA ChromiumReads ==
  ASSUME NEW stream0, NEW stream1, NEW n \in Nat,
         stream0.header = HEADER_SIZE, stream0.dataSize = n
  PROVE  LET valid == IsValidHeader(stream0, TRUE) /\ ReadChecks(stream0, stream1, TRUE)
             read == ReadComplete(stream0, stream1, TRUE)
         IN /\ n <= INLINE_LIMIT /\ Len(stream0.tail) = n /\ stream1 = <<>> =>
                 valid /\ read.data = stream0.tail
            /\ n > INLINE_LIMIT /\ n <= DEDICATED_LIMIT /\ Len(stream0.tail) = 0 =>
                 valid /\ read.data = stream1
            /\ n > DEDICATED_LIMIT /\ Len(stream0.tail) = SHA_KEY_LENGTH =>
                 valid /\ read.checksumKey = stream0.tail
<1>1. ASSUME n <= INLINE_LIMIT, Len(stream0.tail) = n, stream1 = <<>>
      PROVE  /\ IsValidHeader(stream0, TRUE) /\ ReadChecks(stream0, stream1, TRUE)
             /\ ReadComplete(stream0, stream1, TRUE).data = stream0.tail
  <2>1. IsValidHeader(stream0, TRUE)
    BY <1>1, SMT DEF IsValidHeader, Size, ShouldDeduplicateEntry, HEADER_SIZE, INLINE_LIMIT
  <2>2. ReadChecks(stream0, stream1, TRUE)
    BY <1>1, SMT DEF ReadChecks, ShouldDeduplicateEntry, INLINE_LIMIT, DEDICATED_LIMIT
  <2>3. stream0.dataSize <= INLINE_LIMIT /\ ~(stream0.dataSize > INLINE_LIMIT)
    BY <1>1, SMT DEF INLINE_LIMIT
  <2>4. ReadComplete(stream0, stream1, TRUE).data = stream0.tail
    BY <2>3 DEF ReadComplete
  <2>5. QED
    BY <2>1, <2>2, <2>4
<1>2. ASSUME n > INLINE_LIMIT, n <= DEDICATED_LIMIT, Len(stream0.tail) = 0
      PROVE  /\ IsValidHeader(stream0, TRUE) /\ ReadChecks(stream0, stream1, TRUE)
             /\ ReadComplete(stream0, stream1, TRUE).data = stream1
  <2>1. ~ShouldDeduplicateEntry(n, TRUE) /\ ~(n <= INLINE_LIMIT)
    BY <1>2, SMT DEF ShouldDeduplicateEntry, INLINE_LIMIT, DEDICATED_LIMIT
  <2>2. IsValidHeader(stream0, TRUE)
    BY <1>2, <2>1, SMT DEF IsValidHeader, Size, HEADER_SIZE, INLINE_LIMIT
  <2>3. ReadChecks(stream0, stream1, TRUE)
    BY <2>1 DEF ReadChecks
  <2>4. ReadComplete(stream0, stream1, TRUE).data = stream1
    BY <1>2, <2>1, SMT DEF ReadComplete, INLINE_LIMIT
  <2>5. QED
    BY <2>2, <2>3, <2>4
<1>3. ASSUME n > DEDICATED_LIMIT, Len(stream0.tail) = SHA_KEY_LENGTH
      PROVE  /\ IsValidHeader(stream0, TRUE) /\ ReadChecks(stream0, stream1, TRUE)
             /\ ReadComplete(stream0, stream1, TRUE).checksumKey = stream0.tail
  <2>1. ShouldDeduplicateEntry(n, TRUE) /\ ~(n <= INLINE_LIMIT)
    BY <1>3, SMT DEF ShouldDeduplicateEntry, INLINE_LIMIT, DEDICATED_LIMIT
  <2>2. Size(stream0) = HEADER_SIZE + SHA_KEY_LENGTH
    BY <1>3 DEF Size
  <2>3. IsValidHeader(stream0, TRUE)
    BY <2>1, <2>2, SMT DEF IsValidHeader
  <2>4. ReadChecks(stream0, stream1, TRUE)
    BY <2>1, <2>2 DEF ReadChecks
  <2>5. ReadComplete(stream0, stream1, TRUE).checksumKey = stream0.tail
    BY <2>1, SMT DEF ReadComplete
  <2>6. QED
    BY <2>3, <2>4, <2>5
<1>4. QED
  BY <1>1, <1>2, <1>3

-------------------------------------------------------------------------------
(* Theorems *)

\* decode() of what Chromium writes, and so of what build() makes, finds the layout that
\* the class comment gives for the size, the response time and the data, in the entry
\* itself or under the checksum it names.  Where nothing is merged, data of any size
\* above the inline limit is dedicated; an entry without data is not called inline, as
\* the comment has it, but empty.
THEOREM DecodeReadsWritten ==
  ASSUME NEW data \in Seq(Byte), NEW time, NEW enabled \in BOOLEAN,
         Len(Checksum(data)) = SHA_KEY_LENGTH
  PROVE  LET n == Len(data)
             written == WriteEntry(data, time, enabled)
             read == decode(written.primary.stream0, written.primary.stream1)
             code == decode(written.dedup[1].stream0, written.dedup[1].stream1)
         IN /\ read.dataSize = n /\ read.responseTimeInternal = time
            /\ n = 0 => read.kind = "EMPTY"
            /\ n > 0 /\ n <= INLINE_LIMIT => read.kind = "INLINE" /\ read.payload = data
            /\ n > INLINE_LIMIT /\ ~ShouldDeduplicateEntry(n, enabled) =>
                 read.kind = "DEDICATED" /\ read.payload = data
            /\ ShouldDeduplicateEntry(n, enabled) =>
                 /\ read.kind = "INDIRECT" /\ read.checksumKey = Checksum(data)
                 /\ code.kind = "SHA_DEDUP" /\ code.payload = data
<1> DEFINE n == Len(data)
           written == WriteEntry(data, time, enabled)
           stream0 == written.primary.stream0
           stream1 == written.primary.stream1
           merged == written.dedup[1]
<1>1. n \in Nat /\ (data = <<>> <=> n = 0)
  BY Lengths
<1>2. /\ n <= INLINE_LIMIT => stream0 = Header(time, n, data) /\ stream1 = <<>>
      /\ n > INLINE_LIMIT /\ ~ShouldDeduplicateEntry(n, enabled) =>
           stream0 = Header(time, n, <<>>) /\ stream1 = data
      /\ ShouldDeduplicateEntry(n, enabled) =>
           /\ stream0 = Header(time, n, Checksum(data)) /\ stream1 = <<>>
           /\ merged.stream0 = NoHeader(<<>>) /\ merged.stream1 = data
  BY Layouts
<1>3. ShouldDeduplicateEntry(n, enabled) => n > INLINE_LIMIT /\ n > SHA_KEY_LENGTH /\ n > 0
  BY <1>1, SMT DEF ShouldDeduplicateEntry, INLINE_LIMIT, DEDICATED_LIMIT, SHA_KEY_LENGTH
<1>4. n > INLINE_LIMIT => n > 0
  BY <1>1, SMT DEF INLINE_LIMIT
<1> HIDE DEF n, stream0, stream1, merged, written
<1> SUFFICES
      LET read == decode(stream0, stream1)
          code == decode(merged.stream0, merged.stream1)
      IN /\ read.dataSize = n /\ read.responseTimeInternal = time
         /\ n = 0 => read.kind = "EMPTY"
         /\ n > 0 /\ n <= INLINE_LIMIT => read.kind = "INLINE" /\ read.payload = data
         /\ n > INLINE_LIMIT /\ ~ShouldDeduplicateEntry(n, enabled) =>
              read.kind = "DEDICATED" /\ read.payload = data
         /\ ShouldDeduplicateEntry(n, enabled) =>
              /\ read.kind = "INDIRECT" /\ read.checksumKey = Checksum(data)
              /\ code.kind = "SHA_DEDUP" /\ code.payload = data
  BY DEF n, stream0, stream1, merged, written
<1>5. CASE n = 0
  <2>1. n <= INLINE_LIMIT /\ ~(n > 0) /\ ~(n > INLINE_LIMIT)
    BY <1>5, SMT DEF INLINE_LIMIT
  <2>2. ~ShouldDeduplicateEntry(n, enabled)
    BY <1>3, <2>1
  <2>3. stream0 = Header(time, 0, <<>>) /\ stream1 = <<>>
    BY <1>1, <1>2, <1>5, <2>1
  <2>4. QED
    BY <1>5, <2>1, <2>2, <2>3, DecodeEmpty
<1>6. CASE n > 0 /\ n <= INLINE_LIMIT
  <2>1. n # 0 /\ ~(n > INLINE_LIMIT)
    BY <1>1, <1>6, SMT DEF INLINE_LIMIT
  <2>2. stream0 = Header(time, n, data) /\ stream1 = <<>> /\ n = Len(data)
    BY <1>2, <1>6 DEF n
  <2>3. QED
    BY <1>1, <1>3, <1>6, <2>1, <2>2, DecodeInline
<1>7. CASE n > INLINE_LIMIT /\ ~ShouldDeduplicateEntry(n, enabled)
  <2>1. n # 0 /\ ~(n <= INLINE_LIMIT)
    BY <1>1, <1>7, SMT DEF INLINE_LIMIT
  <2>2. QED
    BY <1>1, <1>2, <1>7, <2>1, DecodeDedicated
<1>8. CASE ShouldDeduplicateEntry(n, enabled)
  <2>1. n # 0 /\ ~(n <= INLINE_LIMIT)
    BY <1>1, <1>3, <1>8, SMT DEF INLINE_LIMIT
  <2>2. QED
    BY <1>1, <1>2, <1>3, <1>8, <2>1, DecodeIndirect, DecodeMerged
<1>9. n = 0 \/ (n > 0 /\ n <= INLINE_LIMIT) \/ n > INLINE_LIMIT
  BY <1>1, SMT DEF INLINE_LIMIT
<1>10. QED
  BY <1>5, <1>6, <1>7, <1>8, <1>9

\* What the library builds is valid in every cache that merges, and a fetch of it is
\* answered with the data, or goes on under the key of the second entry, where the data
\* is; no CHECK of the reading side fails.
THEOREM ChromiumReadsBuilt ==
  ASSUME NEW data \in Seq(Byte), NEW time, Len(Checksum(data)) = SHA_KEY_LENGTH
  PROVE  LET n == Len(data)
             built == build(data, time)
             stream0 == built.primary.stream0
             stream1 == built.primary.stream1
             read == ReadComplete(stream0, stream1, TRUE)
         IN /\ IsValidHeader(stream0, TRUE) /\ ReadChecks(stream0, stream1, TRUE)
            /\ n <= DEDICATED_LIMIT => read.data = data
            /\ n > DEDICATED_LIMIT =>
                 read.checksumKey = Checksum(data) /\ built.dedup[1].stream1 = data
<1> DEFINE n == Len(data)
           built == WriteEntry(data, time, TRUE)
           stream0 == built.primary.stream0
           stream1 == built.primary.stream1
           read == ReadComplete(stream0, stream1, TRUE)
<1>1. n \in Nat /\ Len(<<>>) = 0
  BY Lengths
<1>2. /\ n <= INLINE_LIMIT => stream0 = Header(time, n, data) /\ stream1 = <<>>
      /\ n > INLINE_LIMIT /\ ~ShouldDeduplicateEntry(n, TRUE) =>
           stream0 = Header(time, n, <<>>) /\ stream1 = data
      /\ ShouldDeduplicateEntry(n, TRUE) =>
           /\ stream0 = Header(time, n, Checksum(data)) /\ stream1 = <<>>
           /\ built.dedup[1].stream1 = data
  BY Layouts
<1>3. ShouldDeduplicateEntry(n, TRUE) <=> n > DEDICATED_LIMIT
  BY DEF ShouldDeduplicateEntry
<1>4. SUFFICES
        /\ IsValidHeader(stream0, TRUE) /\ ReadChecks(stream0, stream1, TRUE)
        /\ n <= DEDICATED_LIMIT => read.data = data
        /\ n > DEDICATED_LIMIT =>
             read.checksumKey = Checksum(data) /\ built.dedup[1].stream1 = data
  BY BuildIsWrite
<1>5. n = Len(data)
  OBVIOUS
<1> HIDE DEF n, built, stream0, stream1
<1>6. CASE n <= INLINE_LIMIT
  <2>1. stream0.header = HEADER_SIZE /\ stream0.dataSize = n /\ stream0.tail = data
    BY <1>2, <1>6, HeaderFields
  <2>2. stream1 = <<>> /\ Len(stream0.tail) = n
    BY <1>2, <1>5, <1>6, <2>1
  <2>3. IsValidHeader(stream0, TRUE) /\ ReadChecks(stream0, stream1, TRUE) /\ read.data = data
    BY <1>1, <1>6, <2>1, <2>2, ChromiumReads
  <2>4. ~(n > DEDICATED_LIMIT)
    BY <1>1, <1>6, SMT DEF INLINE_LIMIT, DEDICATED_LIMIT
  <2>5. QED
    BY <2>3, <2>4
<1>7. CASE n > INLINE_LIMIT /\ n <= DEDICATED_LIMIT
  <2>1. ~(n > DEDICATED_LIMIT)
    BY <1>1, <1>7, SMT DEF DEDICATED_LIMIT
  <2>2. stream0 = Header(time, n, <<>>) /\ stream1 = data
    BY <1>2, <1>3, <1>7, <2>1
  <2>3. /\ stream0.header = HEADER_SIZE /\ stream0.dataSize = n
        /\ Len(stream0.tail) = 0
    BY <1>1, <2>2, HeaderFields
  <2>4. IsValidHeader(stream0, TRUE) /\ ReadChecks(stream0, stream1, TRUE) /\ read.data = data
    BY <1>1, <1>7, <2>2, <2>3, ChromiumReads
  <2>5. QED
    BY <2>1, <2>4
<1>8. CASE n > DEDICATED_LIMIT
  <2>1. ~(n <= DEDICATED_LIMIT)
    BY <1>1, <1>8, SMT DEF DEDICATED_LIMIT
  <2>2. stream0 = Header(time, n, Checksum(data))
    BY <1>2, <1>3, <1>8
  <2>3. /\ stream0.header = HEADER_SIZE /\ stream0.dataSize = n
        /\ stream0.tail = Checksum(data)
    BY <2>2, HeaderFields
  <2>4. Len(stream0.tail) = SHA_KEY_LENGTH
    BY <2>3
  <2>5. /\ IsValidHeader(stream0, TRUE) /\ ReadChecks(stream0, stream1, TRUE)
        /\ read.checksumKey = Checksum(data)
    BY <1>1, <1>8, <2>3, <2>4, ChromiumReads
  <2>6. QED
    BY <1>2, <1>3, <1>8, <2>1, <2>5
<1>9. n <= INLINE_LIMIT \/ (n > INLINE_LIMIT /\ n <= DEDICATED_LIMIT) \/ n > DEDICATED_LIMIT
  BY <1>1, SMT DEF INLINE_LIMIT, DEDICATED_LIMIT
<1>10. QED
  BY <1>6, <1>7, <1>8, <1>9

================================================================================
