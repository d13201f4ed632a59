--------------------------- MODULE MCCacheDirectory ---------------------------
(***************************************************************************)
(* Small directories for CacheDirectory: a gzip response, an entry with no *)
(* codec ("br"), a code cache entry, a damaged entry, a malformed file and *)
(* a missing one.                                                          *)
(***************************************************************************)
EXTENDS CacheDirectory

CONSTANTS k1, k2, k3, c1, c2

\* A plain body is <<name>>; compressing puts the codec in front.
MCBodies == {<<>>, <<"long">>}
MCBytes == MCBodies \cup {<<"old">>, <<"bad">>} \cup
             { <<e>> \o b : e \in {"gzip", "deflate"}, b \in MCBodies \cup {<<"old">>} }
MCEmptyBytes == <<>>
MCCompress(b, e) == <<e>> \o b
MCDecompress(b, e) == IF b # <<>> /\ Head(b) = e THEN Tail(b) ELSE NoBytes

\* Lengths on both sides of a decimal digit and of a 256-byte block: with 102 other
\* bytes from 20 on, a content-length of three digits takes the header block over
\* the 4-byte boundary that one of one or two digits is padded to.
MCByteLength(b) ==
  CASE b = <<>> -> 0
    [] b = <<"long">> -> 300
    [] b = <<"gzip", "long">> -> 120
    [] b \in {<<"gzip">>, <<"deflate">>} -> 20
    [] OTHER -> 7
MCKeyLength(k) == 30
MCEntryHash(k) == k

header(encoding, length) ==
  [start |-> 20, other |-> 102, encoding |-> encoding, contentLength |-> length,
   rest |-> 40, payloadSize |-> 0]

consistent(s0) == [s0 EXCEPT !.payloadSize = stream0Length(s0) - 4]

entry(k, s0, s1, sha) ==
  serialize([key |-> k, keyHash |-> k, stream1 |-> s1, crc1 |-> NoSum,
             stream0 |-> s0, crc0 |-> NoSum, keySha256 |-> NoSum], sha)

gzipEntry(k) == entry(k, consistent(header("gzip", 7)), <<"gzip", "old">>, FALSE)
plainEntry(k) == entry(k, consistent(header("br", NoLength)), <<"old">>, TRUE)
codeCacheEntry(k) ==
  entry(k, [header("none", NoLength) EXCEPT !.start = -1, !.other = 16], <<"old">>, TRUE)
damagedEntry(k) ==
  [entry(k, consistent(header(GzipVariant, 7)), <<"bad">>, FALSE) EXCEPT !.crc1 = <<"old">>]

files(a, b, c) == k1 :> a @@ k2 :> b @@ k3 :> c

\* One caller edits chains of two; the second file is not listed at first.
MCInitialFiles ==
  { files(gzipEntry(k1), damagedEntry(k2), Missing),
    files(plainEntry(k1), codeCacheEntry(k2), Missing) }

\* Two callers, of the same two files: one compressed, one damaged and unlisted.
MCSharedKeys == {k1, k2}
MCSharedFiles == { k1 :> gzipEntry(k1) @@ k2 :> damagedEntry(k2) }
MCSharedListing == {k1}
MCSharedOtherBytes == k1 :> 200 @@ k2 :> 0

MCCallers == Permutations({c1, c2})

\* Two sound files.
MCSoundFiles == { files(gzipEntry(k1), codeCacheEntry(k2), Missing) }

\* The first entry has stream 2, and only that of the third was left by a crash.
MCOtherBytes == k1 :> 200 @@ k2 :> 0 @@ k3 :> 60

MCKeys == {k1, k2, k3}
MCListing == {k1, k3}

=============================================================================
