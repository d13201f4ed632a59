-------------------------- MODULE SimpleSynchronousEntry -----------------------
(***************************************************************************)
(* The files of one entry as the worker thread opens, creates, reads,      *)
(* writes, dooms and closes them (simple_synchronous_entry.cc), call by    *)
(* call, with failing calls and crashes between any two of them.           *)
(*                                                                         *)
(* SimpleEntryImpl, which is not part of the repository, is modelled as    *)
(* far as the requests it makes: it runs one operation at a time, holds    *)
(* stream 0 in memory, says at the close which streams were written and    *)
(* which have a checksum, and after a failure makes no request but Close.  *)
(* The sparse file is modelled in SparseFile.                              *)
(***************************************************************************)
EXTENDS EntryLayout, EntryFile, FiniteSets

CONSTANTS
  Keys,            \* keys with the hash of these files
  NoKey,           \* opened by hash, the key unknown
  Missing,         \* no such file
  Linked,          \* the name is that of the file the entry has open
  Closed,          \* no entry is open
  PrefetchSizes,   \* how much of the end of <hash>_0 an open may read at once
  Faults,          \* "io": a call fails; "crash"; "partial": some of the files
                   \* of a doomed entry keep their names
  MaxStreamSize,   \* bound: bytes of a stream
  MaxWrites,       \* bound: writes, each of a byte of its own
  MaxOpens         \* bound: opens and creates

ASSUME EntryAssumption ==
  /\ HeaderSize = 1 /\ EofSize = 1 /\ Sha256Size = 1    \* records are cells
  /\ NoKey \notin Keys
  /\ Faults \subseteq {"io", "crash", "partial"}
  /\ MaxStreamSize \in Nat /\ MaxWrites \in Nat /\ MaxOpens \in Nat

VARIABLES
  disk,      \* what is under the two names of the hash
  entry,     \* the open entry, or Closed
  answer,    \* what the last operation answered
  content,   \* ghost: what the streams hold for the user
  lawful,    \* ghost: for each stream, all it has held since its creation
  damaged,   \* ghost: since it was created the entry was not always closed
  writes, opens

vars == <<disk, entry, answer, content, lawful, damaged, writes, opens>>

-------------------------------------------------------------------------------
(* The open entry *)

Omitted(e, i) == e.file[i] = Missing

\* The name of a file that is open is given back, or gone if it was renamed.
Released(d, file) ==
  [i \in FileIndices |-> IF d[i] = Linked THEN file[i] ELSE d[i]]

\* Which files lose their names when both should.
Unlinked(d, files) ==
  LET without(S) == [i \in FileIndices |-> IF i \in S THEN Missing ELSE d[i]]
  IN IF "partial" \in Faults THEN {without(S) : S \in SUBSET files}
                             ELSE {without(files)}

\* The files an entry has open are renamed; one that is omitted is not there.
DoomInternal(d, e) ==
  IF e.doomed THEN {d}
  ELSE Unlinked(d, {i \in FileIndices : ~Omitted(e, i)})

DeleteFilesForEntryHash(d) == Unlinked(d, FileIndices)

CheckHeaderAndKey(file, key) ==
  LET header == CellAt(file, 0)
  IN header.kind = "header" /\ key \in {NoKey, header.key}

EofRecord(file, offset) ==
  /\ Readable(file, offset, EofSize)
  /\ CellAt(file, offset).kind = "eof"

\* Mutant of CrcMatches: FLAG_HAS_CRC32 is tested the wrong way round.
CrcMatchesInverted(record, cells) == record.hasCrc \/ record.crc = cells

\* A checksum that is there must match.
CrcMatches(record, cells) == record.hasCrc => record.crc = cells

Fresh(key, born) ==
  [key |-> key, born |-> born,
   file |-> [i \in FileIndices |-> IF i = 0 THEN <<Header(key, born)>> ELSE Missing],
   headerCheckNeeded |-> FALSE,
   size |-> [s \in Streams |-> 0], stream0 |-> <<>>,
   written |-> [s \in Streams |-> TRUE],
   crcEnd |-> [s \in Streams |-> 0], crc |-> [s \in Streams |-> <<>>],
   doomed |-> FALSE, failed |-> FALSE]

-------------------------------------------------------------------------------
(* Create and open: the set of all outcomes of a call.  An outcome is the   *)
(* directory, the entry if it is now open, and how the call ended.          *)

Outcome(d, e, result) == [disk |-> d, entry |-> e, result |-> result]

\* The first file is created, then its header is written; a file that is there,
\* or cannot be created, is no reason to doom anything.
CreateEntry(d, key, born) ==
  LET started(file) == [d EXCEPT ![0] = file] IN
  IF d[0] # Missing THEN {Outcome(d, Closed, "exists")}
  ELSE {Outcome(started(Linked), Fresh(key, born), "ok")}
       \cup (IF "io" \in Faults
             THEN {Outcome(d, Closed, "exists")}
                  \cup {Outcome(u, Closed, "broken") :
                          u \in Unlinked(started(<<>>), {0})}
             ELSE {})
       \cup (IF "crash" \in Faults THEN {Outcome(started(<<>>), Closed, "crashed")} ELSE {})

\* Mutant of KeyVerified: the header check is elided whatever the SHA-256 is.
KeyVerifiedUnread(file, key, hasSha, sha) == hasSha \/ CheckHeaderAndKey(file, key)

\* The SHA-256 behind stream 0 spares a look at the header.
KeyVerified(file, key, hasSha, sha) ==
  IF hasSha THEN sha = Sha256(key) ELSE CheckHeaderAndKey(file, key)

\* PrefetchData: is all from `offset' to the end of the file in the buffer?
HasData(file, offset, prefetch) == offset >= Len(file) - prefetch

\* How the tail of <hash>_0 gives the sizes of streams 0 and 1, and stream 0.
Invalid == [ok |-> FALSE]

ReadAndValidateStream0AndMaybe1(file, key, prefetch) ==
  LET fileSize == Len(file)
      eof0 == CellAt(file, fileSize - EofSize)
      extra == IF eof0.hasSha THEN Sha256Size ELSE 0
      size1 == fileSize - 2 * EofSize - eof0.size - HeaderSize - extra
      size == [s \in Streams |-> CASE s = 0 -> eof0.size [] s = 1 -> size1 [] s = 2 -> 0]
      stream0 == Cells(file, GetOffsetInFile(size, 0, 0), eof0.size)
      stream1 == Cells(file, GetOffsetInFile(size, 0, 1), size1)
      sha == CellAt(file, GetOffsetInFile(size, eof0.size, 0))
      eof1Offset == GetEOFOffsetInFile(size, 1)
      prefetched == eof0.hasSha /\ HasData(file, GetOffsetInFile(size, 0, 1), prefetch)
  IN CASE ~EofRecord(file, fileSize - EofSize) -> Invalid
       [] eof0.size > fileSize \/ size1 < 0 -> Invalid
       [] ~CrcMatches(eof0, stream0) -> Invalid
       [] prefetched /\ ~(/\ EofRecord(file, eof1Offset)
                          /\ CrcMatches(CellAt(file, eof1Offset), stream1)) -> Invalid
       [] ~KeyVerified(file, key, eof0.hasSha, sha) -> Invalid
       [] OTHER -> [ok |-> TRUE, size |-> size, stream0 |-> stream0,
                    stream1 |-> IF prefetched THEN stream1 ELSE <<>>]

\* Stream 2 is kept if it is not empty and its file ends as it should.
Stream2Size(file) ==
  LET n == GetDataSizeFromFileSize(Len(file))
  IN IF n > 0 /\ EofRecord(file, HeaderSize + n) THEN n ELSE 0

\* Stream 2 may be found unreadable: the sizes of its file or its last record cannot be
\* had.  The open goes on without it.
InitializeForOpen(d, key, prefetch, stream2Read) ==
  LET knownKey == IF key = NoKey THEN CellAt(d[0], 0).key ELSE key
      v == ReadAndValidateStream0AndMaybe1(d[0], knownKey, prefetch)
      size2 == IF d[1] = Missing \/ ~stream2Read THEN 0 ELSE Stream2Size(d[1])
      crcEnd1 == Len(v.stream1)
  IN CASE key = NoKey /\ ~CheckHeaderAndKey(d[0], NoKey) -> Closed
       [] ~v.ok -> Closed
       [] OTHER ->
          [key |-> knownKey, born |-> CellAt(d[0], 0).born,
           file |-> [i \in FileIndices |-> IF i = 1 /\ size2 = 0 THEN Missing ELSE d[i]],
           headerCheckNeeded |-> size2 > 0,
           size |-> [v.size EXCEPT ![2] = size2], stream0 |-> v.stream0,
           written |-> [s \in Streams |-> FALSE],
           crcEnd |-> [s \in Streams |-> CASE s = 0 -> v.size[0] [] s = 1 -> crcEnd1
                                           [] s = 2 -> 0],
           crc |-> [s \in Streams |-> CASE s = 0 -> v.stream0 [] s = 1 -> v.stream1
                                        [] s = 2 -> <<>>],
           doomed |-> FALSE, failed |-> FALSE]

\* An entry as it was opened; a second file that is broken, empty or could not be read
\* is removed.
Opened(d, e, result) ==
  LET linked(u) == [i \in FileIndices |-> IF Omitted(e, i) THEN u[i] ELSE Linked]
      left == IF d[1] # Missing /\ Omitted(e, 1) THEN Unlinked(d, {1}) ELSE {d}
  IN {Outcome(linked(u), e, result) : u \in left}

\* An open that fails leaves no files.
OpenEntry(d, key, prefetch) ==
  LET e == IF d[0] = Missing THEN Closed ELSE InitializeForOpen(d, key, prefetch, TRUE)
      unread == IF d[0] = Missing THEN Closed ELSE InitializeForOpen(d, key, prefetch, FALSE)
      gone == DeleteFilesForEntryHash(d)
  IN (IF e = Closed THEN {Outcome(u, Closed, "failed") : u \in gone} ELSE Opened(d, e, "ok"))
     \cup (IF "io" \in Faults /\ d[0] # Missing
           THEN {Outcome(u, Closed, "broken") : u \in gone} ELSE {})
     \cup (IF "io" \in Faults /\ unread # Closed THEN Opened(d, unread, "unread") ELSE {})

\* Create if the index knows no such entry, else open and, if that fails, create.
OpenOrCreateEntry(d, key, indexMiss, optimisticCreate, prefetch, born) ==
  LET thenCreate(os) == UNION {IF o.result \in {"failed", "broken"}
                               THEN CreateEntry(o.disk, key, born) ELSE {o} : o \in os}
      openFirst(u) == thenCreate(OpenEntry(u, key, prefetch))
      afterCreate(o) ==
        CASE o.result # "exists" -> {o}
          [] o.result = "exists" /\ optimisticCreate ->
               UNION {CreateEntry(u, key, born) : u \in DeleteFilesForEntryHash(o.disk)}
          [] OTHER -> openFirst(o.disk)
  IN IF indexMiss THEN UNION {afterCreate(o) : o \in CreateEntry(d, key, born)}
                  ELSE openFirst(d)

-------------------------------------------------------------------------------
(* Answers and ghosts *)

None == [kind |-> "none"]

NoContent == [s \in Streams |-> <<>>]
NoHistory == [s \in Streams |-> {<<>>}]

\* What the streams of an entry are for the code.
Seen(e) ==
  [s \in Streams |->
     IF s = 0 THEN e.stream0
     ELSE LET i == GetFileIndexFromStreamIndex(s)
          IN IF Omitted(e, i) THEN <<>>
             ELSE Cells(e.file[i], GetOffsetInFile(e.size, 0, s), e.size[s])]

\* Nothing can be opened any more: the next entry starts anew.
Forget == content' = NoContent /\ lawful' = NoHistory /\ damaged' = FALSE

\* An operation failed: the entry is doomed and only Close is left to do.
Fails(e) ==
  \E d \in DoomInternal(disk, e) :
    /\ disk' = d
    /\ entry' = [e EXCEPT !.doomed = TRUE, !.failed = TRUE]

\* No entry is open any more, and `d' is what is left under its names.
LeavesBehind(d, broken) ==
  /\ disk' = d
  /\ entry' = Closed
  /\ answer' = None
  /\ IF d[0] = Missing THEN Forget
     ELSE damaged' = (damaged \/ broken) /\ UNCHANGED <<content, lawful>>

Init ==
  /\ disk = [i \in FileIndices |-> Missing]
  /\ entry = Closed
  /\ answer = None
  /\ content = NoContent /\ lawful = NoHistory /\ damaged = FALSE
  /\ writes = 0 /\ opens = 0

-------------------------------------------------------------------------------
(* Operations *)

\* What the user can make of an open or a create.
Started(o, key) ==
  /\ disk' = o.disk
  /\ entry' = o.entry
  /\ opens' = opens + 1
  /\ LET created == o.entry # Closed /\ o.entry.born = opens + 1
     IN /\ answer' = [kind |-> "open", ok |-> o.entry # Closed, created |-> created,
                      excused |-> \/ o.result \in {"broken", "crashed", "exists"}
                                  \/ damaged
                                  \/ disk[0] = Missing
                                  \/ key # NoKey /\ ~CheckHeaderAndKey(disk[0], key)]
        /\ IF created \/ (o.entry = Closed /\ o.disk[0] = Missing) THEN Forget
           ELSE /\ damaged' = (damaged \/ o.result \in {"crashed", "failed", "broken"})
                /\ content' = IF o.entry # Closed /\ damaged THEN Seen(o.entry)
                              ELSE IF o.result = "unread" THEN [content EXCEPT ![2] = <<>>]
                              ELSE content
                /\ UNCHANGED lawful
  /\ UNCHANGED writes

Open ==
  /\ entry = Closed /\ opens < MaxOpens
  /\ \E key \in Keys \cup {NoKey}, prefetch \in PrefetchSizes :
       \E o \in OpenEntry(disk, key, prefetch) : Started(o, key)

Create ==
  /\ entry = Closed /\ opens < MaxOpens
  /\ \E key \in Keys : \E o \in CreateEntry(disk, key, opens + 1) : Started(o, key)

OpenOrCreate ==
  /\ entry = Closed /\ opens < MaxOpens
  /\ \E key \in Keys, indexMiss, optimisticCreate \in BOOLEAN, prefetch \in PrefetchSizes :
       \E o \in OpenOrCreateEntry(disk, key, indexMiss, optimisticCreate, prefetch, opens + 1) :
         Started(o, key)

Ready == entry # Closed /\ ~entry.failed

\* The checksum of stream `s' is known up to `offset': a request there goes on.
AdvanceCrc(e, s, offset, cells) ==
  IF e.crcEnd[s] = offset
  THEN [e EXCEPT !.crc[s] = IncrementalCrc32(IF offset = 0 THEN <<>> ELSE @, cells),
                 !.crcEnd[s] = offset + Len(cells)]
  ELSE e

\* Reads [offset, offset + length) of a stream that is not empty.
ReadData(s, offset, length) ==
  LET i == GetFileIndexFromStreamIndex(s)
      checked == [entry EXCEPT !.headerCheckNeeded = @ /\ i = 0]
      cells == Cells(entry.file[i], GetOffsetInFile(entry.size, offset, s), length)
      e == AdvanceCrc(checked, s, offset, cells)
      toTheEnd == /\ entry.crcEnd[s] = offset /\ ~entry.written[s]
                  /\ offset + length = entry.size[s]
      eofOffset == GetEOFOffsetInFile(entry.size, s)
      eof == CellAt(entry.file[i], eofOffset)
      answered(ok, io) ==
        [kind |-> "read", ok |-> ok, stream |-> s, offset |-> offset, length |-> length,
         cells |-> IF ok THEN cells ELSE <<>>, excused |-> io \/ damaged,
         verified |-> IF ok /\ toTheEnd /\ eof.hasCrc THEN {e.crc[s]} ELSE {}]
  IN /\ \/ /\ i = 1 /\ entry.headerCheckNeeded
           /\ ~CheckHeaderAndKey(entry.file[1], entry.key)
           /\ Fails(entry) /\ answer' = answered(FALSE, FALSE)
        \/ /\ i = 1 /\ entry.headerCheckNeeded => CheckHeaderAndKey(entry.file[1], entry.key)
           /\ IF toTheEnd /\ ~(/\ EofRecord(entry.file[i], eofOffset)
                               /\ CrcMatches(eof, e.crc[s]))
              THEN Fails(checked) /\ answer' = answered(FALSE, FALSE)
              ELSE entry' = e /\ answer' = answered(TRUE, FALSE) /\ UNCHANGED disk
        \/ "io" \in Faults /\ Fails(entry) /\ answer' = answered(FALSE, TRUE)
     /\ UNCHANGED <<content, lawful, damaged, writes, opens>>

Read ==
  /\ Ready
  /\ \E s \in Streams \ {0}, offset, length \in 0 .. MaxStreamSize :
       /\ length > 0 /\ offset + length <= entry.size[s]
       /\ ReadData(s, offset, length)

\* The stream with bytes written at an offset, and cut there or not.
Written(bytes, offset, data, truncate) ==
  LET w == WriteAt(SetLength(bytes, IF Len(bytes) < offset THEN offset ELSE Len(bytes)),
                   offset, data)
  IN IF truncate THEN SetLength(w, offset + Len(data)) ELSE w

\* The calls a write makes: the file of stream 2 is created when it is first
\* needed, a file that will grow is first cut at the stream's end, so that what
\* follows the stream is gone, and cut again where the file now ends.
WriteCalls(e, s, offset, data, truncate) ==
  LET i == GetFileIndexFromStreamIndex(s)
      length == Len(data)
      extending == offset + length > e.size[s]
      cutLast == truncate \/ (length = 0 /\ extending)
      resized == [e.size EXCEPT ![s] = offset + length]
  IN (IF Omitted(e, i)
      THEN <<CreateCall(i), WriteCall(i, 0, <<Header(e.key, e.born)>>)>> ELSE <<>>)
     \o (IF extending THEN <<SetLengthCall(i, GetEOFOffsetInFile(e.size, s))>> ELSE <<>>)
     \o (IF length > 0
         THEN <<WriteCall(i, GetOffsetInFile(e.size, offset, s), data)>> ELSE <<>>)
     \o (IF cutLast THEN <<SetLengthCall(i, GetLastEOFOffsetInFile(resized, s))>> ELSE <<>>)

\* Mutant of Displaced: stream 0 is thought to be where it was.
DisplacedNone(s) == {s}

\* The streams a write moves or changes: stream 0 is behind stream 1.
Displaced(s) == {s} \cup (IF s = 1 THEN {0} ELSE {})

\* After a successful write.  SimpleEntryImpl starts the checksum over when a part
\* it covers is overwritten; a write to stream 1 displaces stream 0.
AfterWrite(e, s, offset, data, truncate) ==
  LET end == offset + Len(data)
      restarted == [e EXCEPT !.crcEnd[s] = IF offset < @ THEN 0 ELSE @]
      crced == IF data = <<>> THEN restarted ELSE AdvanceCrc(restarted, s, offset, data)
  IN [crced EXCEPT !.file = After(@, WriteCalls(e, s, offset, data, truncate)),
                   !.size[s] = IF truncate \/ end > @ THEN end ELSE @,
                   !.written = [t \in Streams |-> @[t] \/ t \in Displaced(s)]]

\* A file of stream 2 that was left out cannot be created over another.
NameTaken(e, i) == Omitted(e, i) /\ ~e.doomed /\ disk[i] # Missing

WriteData(s, offset, data, truncate) ==
  LET i == GetFileIndexFromStreamIndex(s)
      calls == WriteCalls(entry, s, offset, data, truncate)
      e == AfterWrite(entry, s, offset, data, truncate)
      new == [content EXCEPT ![s] = Written(@, offset, data, truncate)]
      linked(file) == IF Omitted(entry, i) /\ file[i] # Missing /\ ~entry.doomed
                      THEN [disk EXCEPT ![i] = Linked] ELSE disk
      unreadable == /\ i = 1 /\ entry.headerCheckNeeded
                    /\ ~CheckHeaderAndKey(entry.file[1], entry.key)
      rejected == Omitted(entry, i) /\ entry.doomed
      cannotCreate == NameTaken(entry, i)
      interrupted(file) == [entry EXCEPT !.file = file]
  IN \/ /\ unreadable \/ cannotCreate
        /\ Fails(entry)
        /\ answer' = [kind |-> "write", ok |-> FALSE, excused |-> damaged]
        /\ UNCHANGED <<content, lawful, damaged>>
     \/ /\ ~unreadable /\ rejected
        /\ entry' = [entry EXCEPT !.failed = TRUE]
        /\ answer' = [kind |-> "write", ok |-> FALSE, excused |-> TRUE]
        /\ UNCHANGED <<disk, content, lawful, damaged>>
     \/ /\ ~unreadable /\ ~rejected /\ ~cannotCreate
        /\ entry' = [e EXCEPT !.headerCheckNeeded = @ /\ i = 0]
        /\ disk' = linked(e.file)
        /\ answer' = None
        /\ content' = new
        /\ lawful' = [lawful EXCEPT ![s] = @ \cup {new[s]}]
        /\ UNCHANGED damaged
     \/ /\ ~unreadable /\ ~rejected /\ ~cannotCreate
        /\ \E n \in DOMAIN calls : \E file \in TornAt(entry.file, calls, n) :
             \/ /\ "io" \in Faults
                /\ \E d \in DoomInternal(linked(file), interrupted(file)) :
                     /\ disk' = d
                     /\ entry' = [interrupted(file) EXCEPT !.doomed = TRUE, !.failed = TRUE]
                /\ answer' = None /\ damaged' = TRUE
                /\ UNCHANGED <<content, lawful>>
             \/ /\ "crash" \in Faults
                /\ LeavesBehind(Released(linked(file), file), TRUE)

\* A write of nothing that changes no size never gets here.
Write ==
  /\ Ready /\ writes < MaxWrites
  /\ \E s \in Streams \ {0}, offset, length \in 0 .. MaxStreamSize, truncate \in BOOLEAN :
       /\ offset + length <= MaxStreamSize
       /\ length = 0 => IF truncate THEN offset # entry.size[s] ELSE offset > entry.size[s]
       /\ WriteData(s, offset, [n \in 1 .. length |-> Byte(writes + 1)], truncate)
  /\ writes' = writes + 1
  /\ UNCHANGED opens

\* Stream 0 is replaced in memory; Close writes it.
WriteStream0 ==
  /\ Ready /\ writes < MaxWrites
  /\ \E length \in 0 .. MaxStreamSize :
       LET data == [n \in 1 .. length |-> Byte(writes + 1)]
       IN /\ entry' = [entry EXCEPT !.stream0 = data, !.size[0] = length,
                                    !.written[0] = TRUE, !.crcEnd[0] = 0]
          /\ content' = [content EXCEPT ![0] = data]
          /\ lawful' = [lawful EXCEPT ![0] = @ \cup {data}]
  /\ writes' = writes + 1
  /\ answer' = None
  /\ UNCHANGED <<disk, damaged, opens>>

\* The record written behind a stream.
EofOf(e, s) ==
  IF s = 0 THEN Eof(TRUE, e.stream0, e.size[0], TRUE)
  ELSE LET known == e.crcEnd[s] = e.size[s]
       IN Eof(known, IF e.size[s] = 0 THEN <<>> ELSE e.crc[s], 0, FALSE)

\* Mutant of PayloadCalls: the rest of a longer stream 0 stays in the file.
PayloadCallsUncut(e, s) ==
  LET start == GetOffsetInFile(e.size, 0, 0)
  IN IF s # 0 THEN <<>>
     ELSE <<WriteCall(0, start, e.stream0),
            WriteCall(0, start + e.size[0], <<Sha256(e.key)>>)>>

\* Stream 0 is written whole, with the SHA-256 of the key, and the file cut there.
PayloadCalls(e, s) ==
  LET start == GetOffsetInFile(e.size, 0, 0)
  IN IF s # 0 THEN <<>>
     ELSE <<WriteCall(0, start, e.stream0),
            WriteCall(0, start + e.size[0], <<Sha256(e.key)>>),
            SetLengthCall(0, GetEOFOffsetInFile(e.size, 0))>>

\* What Close writes for a stream that changed.
CloseCalls(e, s) ==
  LET i == GetFileIndexFromStreamIndex(s)
  IN IF e.failed \/ ~e.written[s] \/ Omitted(e, i) THEN <<>>
     ELSE PayloadCalls(e, s)
            \o <<WriteCall(i, GetEOFOffsetInFile(e.size, s), <<EofOf(e, s)>>)>>

AllCloseCalls(e) == CloseCalls(e, 0) \o CloseCalls(e, 1) \o CloseCalls(e, 2)

Close ==
  /\ entry # Closed
  /\ LET calls == AllCloseCalls(entry)
         file == After(entry.file, calls)
         mismatch == /\ entry.headerCheckNeeded /\ ~Omitted(entry, 1)
                     /\ ~CheckHeaderAndKey(file[1], entry.key)
         left == IF mismatch THEN DoomInternal(disk, entry) ELSE {disk}
         \* Writes of stream 0 and of its SHA-256 that fail do not end the loop.
         failedAt(n) ==
           {After(torn, IF n <= 2 /\ CloseCalls(entry, 0) # <<>>
                        THEN SubSeq(calls, n + 1, Len(calls)) ELSE <<>>)
              : torn \in TornAt(entry.file, calls, n)}
     IN \/ \E d \in left : LeavesBehind(Released(d, file), FALSE)
        \/ /\ "io" \in Faults
           /\ \E n \in DOMAIN calls : \E f \in failedAt(n) :
                \E d \in DoomInternal(disk, entry) : LeavesBehind(Released(d, f), TRUE)
        \/ /\ "crash" \in Faults
           /\ \E n \in DOMAIN calls : \E f \in TornAt(entry.file, calls, n) :
                LeavesBehind(Released(disk, f), TRUE)
  /\ UNCHANGED <<writes, opens>>

\* The user dooms the entry and may go on using it.
Doom ==
  /\ Ready /\ ~entry.doomed
  /\ \E d \in DoomInternal(disk, entry) : disk' = d
  /\ entry' = [entry EXCEPT !.doomed = TRUE]
  /\ answer' = None
  /\ UNCHANGED <<content, lawful, damaged, writes, opens>>

\* The entry is deleted while nobody has it open.
DeleteEntryFiles ==
  /\ entry = Closed /\ disk[0] # Missing
  /\ \E d \in DeleteFilesForEntryHash(disk) : LeavesBehind(d, TRUE)
  /\ UNCHANGED <<writes, opens>>

\* The process dies between two operations.
Crash ==
  /\ "crash" \in Faults /\ entry # Closed
  /\ LeavesBehind(Released(disk, entry.file), TRUE)
  /\ UNCHANGED <<writes, opens>>

Next ==
  \/ Open \/ Create \/ OpenOrCreate
  \/ Read \/ Write \/ WriteStream0
  \/ Close \/ Doom \/ DeleteEntryFiles \/ Crash

Spec == Init /\ [][Next]_vars

-------------------------------------------------------------------------------
(* Properties *)

\* What is closed can be opened again, and every operation on an entry that met
\* neither a failing call nor a crash succeeds (InitializeForOpen, CheckEOFRecord).
SoundEntryWorks ==
  answer.kind \in {"open", "read", "write"} /\ ~answer.excused => answer.ok

\* An entry opens with the streams it was closed with, or without stream 2 for good if an
\* open could not read its record (InitializeForOpen), and every read returns the bytes
\* last written there (WriteData moves and cuts, ReadData finds them).
ReadsReturnWritten ==
  /\ entry # Closed /\ ~damaged =>
       /\ entry.stream0 = content[0]
       /\ \A s \in Streams : entry.size[s] = Len(content[s])
  /\ answer.kind = "read" /\ answer.ok =>
       answer.cells = Cells(content[answer.stream], answer.offset, answer.length)

\* After crashes and failures, stream 0 and every stream read through to a checksum
\* is one that the user had written, whole (CheckEOFRecord).
ChecksumsTellDamage ==
  /\ entry # Closed => entry.stream0 \in lawful[0]
  /\ answer.kind = "read" => answer.verified \subseteq lawful[answer.stream]

\* No entry has streams that belong to another: neither to one of another key nor
\* to an earlier one of the same key.  The file of stream 2 may be found out only
\* when it is first used (CheckHeaderAndKey, ReadAndValidateStream0AndMaybe1).
StreamsOfOneEntry ==
  Ready => \A i \in FileIndices :
    Omitted(entry, i) \/ (i = 1 /\ entry.headerCheckNeeded)
      \/ CellAt(entry.file[i], 0) = Header(entry.key, entry.born)

\* The files of a closed entry have the sizes its index record is given (Close,
\* GetFileSize), though an open may have dropped stream 2 and its file.
ClosedFileSizes ==
  entry = Closed /\ ~damaged /\ disk[0] # Missing =>
    LET size == [s \in Streams |-> Len(content[s])]
    IN \A i \in FileIndices :
         IF disk[i] = Missing THEN size[2] = 0 ELSE Len(disk[i]) = GetFileSize(size, i)

================================================================================
