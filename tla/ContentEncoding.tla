--------------------------- MODULE ContentEncoding ---------------------------
(***************************************************************************)
(* Content encodings of a response body (ContentEncoding.java).            *)
(*                                                                         *)
(* A byte string is an opaque value.  The zip library is external: what    *)
(* matters of it is that it undoes its own work, and that bytes it did not *)
(* produce do not decompress.                                              *)
(***************************************************************************)
EXTENDS Integers

CONSTANTS
  Bytes,             \* the byte strings a stored stream can be
  Bodies,            \* those a caller passes in as a plain body
  Compress(_, _),    \* java.util.zip: bytes, "gzip" or "deflate" -> bytes
  Decompress(_, _),  \* the inverse; NoBytes when the stream is malformed
  ByteLength(_),     \* length of a byte string
  EmptyBytes,        \* new byte[0]
  NoBytes,           \* Java's null for a byte[]
  GzipVariant        \* a header value such as "GZIP; q=1"

\* The values normalize() returns for which the class has a codec.
Codecs == {"gzip", "deflate"}

\* Values of a content-encoding header; "none" is an absent or empty header.
HeaderEncodings == Codecs \cup {"br", "none", GzipVariant}

ASSUME ZipAssumption ==
  /\ NoBytes \notin Bytes
  /\ GzipVariant \notin Codecs \cup {"br", "none"}
  /\ \A b \in Bytes : ByteLength(b) \in Nat
  /\ Bodies \subseteq Bytes /\ EmptyBytes \in Bytes
  /\ \A b \in Bytes, e \in Codecs : Decompress(b, e) \in Bytes \cup {NoBytes}
  /\ \A b \in Bodies, e \in Codecs :
        /\ Compress(b, e) \in Bytes
        /\ Decompress(Compress(b, e), e) = b

\* Trims, lowercases and drops the parameters of a header value.
normalize(encoding) == IF encoding = GzipVariant THEN "gzip" ELSE encoding

isCompressed(encoding) == normalize(encoding) \in Codecs

\* A malformed stream gives NoBytes; any other encoding is left alone.
decode(data, encoding) ==
  IF isCompressed(encoding) THEN Decompress(data, normalize(encoding)) ELSE data

\* Mutant of encode: any header at all means compressed.
encodeAnyHeader(data, encoding) ==
  IF encoding # "none" THEN Compress(data, normalize(encoding)) ELSE data

encode(data, encoding) ==
  IF isCompressed(encoding) THEN Compress(data, normalize(encoding)) ELSE data

=============================================================================
