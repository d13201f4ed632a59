------------------------------ MODULE EntryLayout ------------------------------
(***************************************************************************)
(* Where the streams of an entry are in its files (class SimpleEntryStat   *)
(* and simple_util.cc).                                                    *)
(*                                                                         *)
(*   <hash>_0 : header and key | stream 1 | EOF 1 | stream 0 | SHA | EOF 0 *)
(*   <hash>_1 : header and key | stream 2 | EOF 2                          *)
(*                                                                         *)
(* `size' is a function from the streams to their lengths.                 *)
(***************************************************************************)
EXTENDS Integers

CONSTANTS
  HeaderSize,   \* SimpleFileHeader and the key behind it
  EofSize,      \* sizeof(SimpleFileEOF)
  Sha256Size    \* sizeof(net::SHA256HashValue), written behind stream 0

ASSUME SizesAssumption ==
  /\ HeaderSize \in Nat \ {0}
  /\ EofSize \in Nat \ {0}
  /\ Sha256Size \in Nat

Streams == 0 .. 2
FileIndices == 0 .. 1

GetFileIndexFromStreamIndex(stream) == IF stream = 2 THEN 1 ELSE 0

\* Only the file of stream 2 may be left out.
CanOmitEmptyFile(file) == file = GetFileIndexFromStreamIndex(2)

GetOffsetInFile(size, offset, stream) ==
  HeaderSize + offset + (IF stream = 0 THEN size[1] + EofSize ELSE 0)

\* Mutant of GetEOFOffsetInFile: the SHA-256 is forgotten.
GetEOFOffsetInFileNoSha(size, stream) == GetOffsetInFile(size, size[stream], stream)

GetEOFOffsetInFile(size, stream) ==
  (IF stream = 0 THEN Sha256Size ELSE 0)
    + GetOffsetInFile(size, size[stream], stream)

\* Stream 1 is followed by stream 0, whose EOF record ends the file.
GetLastEOFOffsetInFile(size, stream) ==
  GetEOFOffsetInFile(size, IF stream = 1 THEN 0 ELSE stream)

GetFileSizeFromDataSize(dataSize) == dataSize + HeaderSize + EofSize
GetDataSizeFromFileSize(fileSize) == fileSize - HeaderSize - EofSize

GetFileSize(size, file) ==
  GetFileSizeFromDataSize(IF file = 0
                          THEN size[0] + size[1] + Sha256Size + EofSize
                          ELSE size[2])

================================================================================
