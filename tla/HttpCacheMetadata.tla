-------------------------- MODULE HttpCacheMetadata --------------------------
(***************************************************************************)
(* The persisted HttpResponseInfo pickle in stream 0, as far as            *)
(* HttpCacheMetadata.java understands it: the offset of the header block,  *)
(* the two headers the library reads, and the byte counts around them.     *)
(***************************************************************************)
EXTENDS ContentEncoding, FiniteSets

CONSTANT NoLength   \* no content-length header

ASSUME LengthAssumption == NoLength \notin Nat

\* Stream 0.  `start` is the offset of "HTTP/1.", or -1 when there is no header
\* block; `other` counts the bytes of the block that are not digits of the
\* content-length; `rest` those after the block's 4-byte aligned end; and
\* `payloadSize` is the pickle's first field.
Stream0s == [start : Int, other : Nat, encoding : HeaderEncodings,
             contentLength : Nat \cup {NoLength}, rest : Nat, payloadSize : Int]

\* Length of Integer.toString(n), n a non-negative int.
Digits(n) == 1 + Cardinality({ d \in 1..9 : n >= 10 ^ d })

align4(n) == 4 * ((n + 3) \div 4)

hasHeaderBlock(s0) == s0.start >= 4

blockLength(s0) ==
  s0.other + (IF s0.contentLength = NoLength THEN 0 ELSE Digits(s0.contentLength))

stream0Length(s0) ==
  IF hasHeaderBlock(s0) THEN align4(s0.start + blockLength(s0)) + s0.rest
                        ELSE s0.other

contentEncoding(s0) == IF hasHeaderBlock(s0) THEN s0.encoding ELSE "none"

\* The pickle's length field counts everything after itself.
pickleConsistent(s0) ==
  hasHeaderBlock(s0) => s0.payloadSize = stream0Length(s0) - 4

\* Mutant of patchContentLength: the pickle keeps its length.
patchContentLengthSamePayload(s0, newLength) ==
  IF ~hasHeaderBlock(s0) \/ s0.contentLength = NoLength
  THEN s0 ELSE [s0 EXCEPT !.contentLength = newLength]

\* Rewrites the header's digits, pads the block back to a multiple of four and
\* resets the pickle's length; without the header the input is returned as is.
patchContentLength(s0, newLength) ==
  IF ~hasHeaderBlock(s0) \/ s0.contentLength = NoLength
  THEN s0
  ELSE LET newBlock == s0.other + Digits(newLength)
           pad == (4 - ((s0.start + newBlock) % 4)) % 4
       IN  [s0 EXCEPT !.contentLength = newLength,
                      !.payloadSize = s0.start + newBlock + pad + s0.rest - 4]

=============================================================================
