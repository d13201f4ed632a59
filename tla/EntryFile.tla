-------------------------------- MODULE EntryFile ------------------------------
(***************************************************************************)
(* One file of an entry: a sequence of cells.  A byte of a stream is a     *)
(* cell, and so is each record; the checksum of a run of cells is the run  *)
(* itself, so that two runs have one checksum only if they are equal.      *)
(* The calls on a file (net/disk_cache/cache_file.h) are records, so that  *)
(* a handler is the sequence of the calls it makes, and a failure or a     *)
(* crash in it is a prefix of that sequence.                               *)
(***************************************************************************)
EXTENDS Integers, SequencesExt

Byte(v) == [kind |-> "byte", value |-> v]

\* SimpleFileHeader and the key.  `born' is a ghost: the creation of the entry
\* that wrote it.
Header(key, born) == [kind |-> "header", key |-> key, born |-> born]

Sha256(key) == [kind |-> "sha256", key |-> key]

\* SimpleFileEOF.  The record of stream 0 has its size, and says that the
\* SHA-256 of the key is in front of it.
Eof(hasCrc, crc, size, hasSha) ==
  [kind |-> "eof", hasCrc |-> hasCrc, crc |-> IF hasCrc THEN crc ELSE <<>>,
   size |-> size, hasSha |-> hasSha]

IncrementalCrc32(previous, cells) == previous \o cells

CellAt(file, offset) ==
  IF offset \in 0 .. Len(file) - 1 THEN file[offset + 1] ELSE Byte(0)

\* The bytes [offset, offset + length), cut at the end of the file.
Cells(file, offset, length) == SubSeq(file, offset + 1, offset + length)

Readable(file, offset, length) ==
  offset >= 0 /\ offset + length <= Len(file)

SetLength(file, length) ==
  LET old == Len(file)
  IN [i \in 1 .. length |-> IF i <= old THEN file[i] ELSE Byte(0)]

WriteAt(file, offset, cells) ==
  IF cells = <<>> THEN file
  ELSE LET end == offset + Len(cells)
           padded == SetLength(file, IF Len(file) > end THEN Len(file) ELSE end)
       IN [i \in DOMAIN padded |->
             IF i > offset /\ i <= end THEN cells[i - offset] ELSE padded[i]]

WriteCall(file, offset, cells) ==
  [call |-> "write", file |-> file, offset |-> offset, cells |-> cells]
SetLengthCall(file, length) ==
  [call |-> "setlength", file |-> file, length |-> length]
CreateCall(file) == [call |-> "create", file |-> file]

\* `files' is a function from file indices to contents.
Call(files, c) ==
  [files EXCEPT ![c.file] =
     CASE c.call = "create"    -> <<>>
       [] c.call = "setlength" -> SetLength(@, c.length)
       [] c.call = "write"     -> WriteAt(@, c.offset, c.cells)]

After(files, calls) == FoldLeft(Call, files, calls)

\* What a call that fails may have done: a write any part of it from the start.
Torn(files, c) ==
  IF c.call = "write"
  THEN {[files EXCEPT ![c.file] = WriteAt(@, c.offset, SubSeq(c.cells, 1, n))]
          : n \in 0 .. Len(c.cells) - 1}
  ELSE {files}

\* The files when call number i is the one that fails, or dies.
TornAt(files, calls, i) == Torn(After(files, SubSeq(calls, 1, i - 1)), calls[i])

================================================================================
