------------------------------- MODULE CodeCache -------------------------------
(***************************************************************************)
(* The code cache entries that the library builds and reads               *)
(* (CodeCache.java), beside those that Chromium writes and reads           *)
(* (generated_code_cache.cc).                                              *)
(*                                                                         *)
(* Neither side marks which of the three layouts an entry has: both infer  *)
(* it, the library from the lengths of the streams, Chromium from the size *)
(* in the header.  CodeCacheProofs shows that both agree with what was     *)
(* written, for data of every length.                                      *)
(*                                                                         *)
(* A first stream is its header, if it has one, and the bytes behind it;   *)
(* one too short for a header is all `tail'.                               *)
(***************************************************************************)
EXTENDS Integers, Sequences

CONSTANTS
  Byte,
  Checksum(_),    \* the SHA-256 of the data, in hex
  NoPayload,      \* null
  NoKey           \* null

HEADER_SIZE == 12
INLINE_LIMIT == 4096
DEDICATED_LIMIT == 16384
SHA_KEY_LENGTH == 64

NoHeader(bytes) == [header |-> 0, time |-> 0, dataSize |-> 0, tail |-> bytes]
Header(time, dataSize, tail) ==
  [header |-> HEADER_SIZE, time |-> time, dataSize |-> dataSize, tail |-> tail]

Size(stream0) == stream0.header + Len(stream0.tail)

-------------------------------------------------------------------------------
(* The library *)

\* The layout, from the lengths of the streams: the first that fits.
KindOf(stream0, stream1) ==
  LET rest == Len(stream0.tail)
      isInline == rest = stream0.dataSize /\ stream0.dataSize > 0
  IN IF stream0.header = 0
     THEN CASE Size(stream0) > 0                   -> "UNKNOWN"
            [] Size(stream0) = 0 /\ stream1 # <<>> -> "SHA_DEDUP"
            [] OTHER                               -> "EMPTY"
     ELSE CASE stream1 # <<>>                                            -> "DEDICATED"
            [] stream1 = <<>> /\ isInline                                -> "INLINE"
            [] stream1 = <<>> /\ ~isInline /\ rest = SHA_KEY_LENGTH      -> "INDIRECT"
            [] stream1 = <<>> /\ ~isInline /\ rest = 0 /\ stream0.dataSize = 0 -> "EMPTY"
            [] OTHER                                                     -> "UNKNOWN"

decode(stream0, stream1) ==
  LET kind == KindOf(stream0, stream1)
  IN [kind |-> kind,
      responseTimeInternal |-> stream0.time,
      dataSize |-> IF kind = "SHA_DEDUP" THEN Len(stream1) ELSE stream0.dataSize,
      payload |-> CASE kind \in {"DEDICATED", "SHA_DEDUP"} -> stream1
                    [] kind = "INLINE"                     -> stream0.tail
                    [] OTHER                               -> NoPayload,
      checksumKey |-> IF kind = "INDIRECT" THEN stream0.tail ELSE NoKey]

\* The entry under the code cache key, and the one under the checksum if there is one.
build(data, responseTime) ==
  LET size == Len(data)
      entry(stream0, stream1) == [stream0 |-> stream0, stream1 |-> stream1]
  IN CASE size <= INLINE_LIMIT ->
            [primary |-> entry(Header(responseTime, size, data), <<>>), dedup |-> <<>>]
       [] size > INLINE_LIMIT /\ size <= DEDICATED_LIMIT ->
            [primary |-> entry(Header(responseTime, size, <<>>), data), dedup |-> <<>>]
       [] OTHER ->
            [primary |-> entry(Header(responseTime, size, Checksum(data)), <<>>),
             dedup |-> <<entry(NoHeader(<<>>), data)>>]

-------------------------------------------------------------------------------
(* Chromium *)

\* Data is merged in every cache but that of WebUI (IsDeduplicationEnabled).
ShouldDeduplicateEntry(dataSize, enabled) == dataSize > DEDICATED_LIMIT /\ enabled

WriteEntry(data, responseTime, enabled) ==
  LET size == Len(data)
      entry(stream0, stream1) == [stream0 |-> stream0, stream1 |-> stream1]
  IN CASE size <= INLINE_LIMIT ->
            [primary |-> entry(Header(responseTime, size, data), <<>>), dedup |-> <<>>]
       [] size > INLINE_LIMIT /\ ~ShouldDeduplicateEntry(size, enabled) ->
            [primary |-> entry(Header(responseTime, size, <<>>), data), dedup |-> <<>>]
       [] OTHER ->
            [primary |-> entry(Header(responseTime, size, Checksum(data)), <<>>),
             dedup |-> <<entry(NoHeader(<<>>), data)>>]

IsValidHeader(stream0, enabled) ==
  /\ stream0.header = HEADER_SIZE
  /\ Size(stream0) = HEADER_SIZE +
       (CASE stream0.dataSize <= INLINE_LIMIT -> stream0.dataSize
          [] /\ stream0.dataSize > INLINE_LIMIT
             /\ ~ShouldDeduplicateEntry(stream0.dataSize, enabled) -> 0
          [] OTHER -> SHA_KEY_LENGTH)

\* What a fetch is answered with, or the key of the second fetch it makes.
ReadComplete(stream0, stream1, enabled) ==
  LET read(data, key) == [data |-> data, checksumKey |-> key]
  IN CASE stream0.dataSize <= INLINE_LIMIT -> read(stream0.tail, NoKey)
       [] /\ stream0.dataSize > INLINE_LIMIT
          /\ ~ShouldDeduplicateEntry(stream0.dataSize, enabled) -> read(stream1, NoKey)
       [] OTHER -> read(NoPayload, stream0.tail)

\* The CHECKs on the way there.
ReadChecks(stream0, stream1, enabled) ==
  /\ stream0.dataSize <= INLINE_LIMIT => stream1 = <<>>
  /\ ShouldDeduplicateEntry(stream0.dataSize, enabled) =>
       Size(stream0) = HEADER_SIZE + SHA_KEY_LENGTH

================================================================================
