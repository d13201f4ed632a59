-------------------------------- MODULE SparseFile -----------------------------
(***************************************************************************)
(* The sparse file of one entry (the sparse part of                        *)
(* simple_synchronous_entry.cc): ranges of bytes, each behind a header of  *)
(* its own, appended in the order they were first written and overwritten  *)
(* in place.  Where they are is kept in memory and found again by a scan.  *)
(*                                                                         *)
(*   <hash>_s : header and key | extent, crc | bytes | extent, crc | bytes *)
(*                                                                         *)
(* The other files of the entry are modelled in SimpleSynchronousEntry;    *)
(* here they matter only by being there, and by opening or not.            *)
(***************************************************************************)
EXTENDS EntryFile, FiniteSets

CONSTANTS
  Missing,         \* no file has the name
  Linked,          \* the name is that of the file the entry has open
  Closed,          \* no entry is open
  MaxSparseData,   \* max_sparse_data_size
  Faults,          \* "io": a call fails; "crash"; "short": an append writes less
                   \* than it should and is not told so
  MaxOffset,       \* bound: the offsets used are below it
  MaxWrites,       \* bound: writes, each of a byte of its own
  MaxOpens         \* bound: opens and creates

ASSUME SparseAssumption ==
  /\ Faults \subseteq {"io", "crash", "short"}
  /\ {MaxSparseData, MaxOffset, MaxWrites, MaxOpens} \subseteq Nat

VARIABLES
  disk,      \* what is under the name of the sparse file
  others,    \* the files of the streams: "none", "valid", or "broken" if they
             \* will not open
  entry,     \* the open entry, or Closed
  content,   \* ghost: the bytes the user has written, by their offsets
  lawful,    \* ghost: all writes since the file was created
  damaged,   \* ghost: there was a crash or a failure since then
  writes, opens

vars == <<disk, others, entry, content, lawful, damaged, writes, opens>>

-------------------------------------------------------------------------------
(* Ranges *)

HeaderSize == 1        \* SimpleFileHeader and the key
RangeHeaderSize == 2   \* SimpleFileSparseRangeHeader

\* Cells of a range header: where the range is, and its checksum or, if it has
\* none, the empty run.
Extent(offset, length) == [kind |-> "extent", offset |-> offset, length |-> length]
DataCrc32(cells) == [kind |-> "crc", crc |-> cells]

NoRanges == [o \in {} |-> 0]

\* sparse_ranges_.emplace keeps what is there.
Emplaced(ranges, r) ==
  [o \in DOMAIN ranges \cup {r.offset} |-> IF o \in DOMAIN ranges THEN ranges[o] ELSE r]

\* Ranges by their offsets.
SortedRanges(ranges) ==
  LET isSorted(f) == \A i, j \in DOMAIN f : i < j => f[i] < f[j]
      offsets == CHOOSE f \in [1 .. Cardinality(DOMAIN ranges) -> DOMAIN ranges] : isSorted(f)
  IN [i \in DOMAIN offsets |-> ranges[offsets[i]]]

\* The ranges from which a request at `offset' goes on: the last that begins
\* before it, if it reaches beyond it, and all that begin at or after it.
From(ranges, offset) ==
  LET before == {o \in DOMAIN ranges : o < offset}
      isLast(o) == \A p \in before : p <= o
      reached == {o \in before : isLast(o) /\ o + ranges[o].length > offset}
  IN SortedRanges(Restrict(ranges, reached \cup (DOMAIN ranges \ before)))

Smaller(a, b) == IF a < b THEN a ELSE b
Larger(a, b) == IF a < b THEN b ELSE a

\* The part of a range that a request at `offset' begins with.
OffsetInRange(r, offset) == Larger(0, offset - r.offset)

-------------------------------------------------------------------------------
(* Scanning: ScanSparseFile *)

\* One header after another, until nothing can be read where the next would be;
\* the bytes themselves are not looked at.
ScanStep(file, acc) ==
  LET extent == CellAt(file, acc.tail)
      crc == CellAt(file, acc.tail + 1)
      r == [offset |-> extent.offset, length |-> extent.length, crc |-> crc.crc,
            at |-> acc.tail + RangeHeaderSize]
      ended == ~acc.ok \/ acc.tail >= Len(file)
  IN CASE ended -> acc
       [] ~ended /\ (~Readable(file, acc.tail, RangeHeaderSize) \/ extent.kind # "extent") ->
            [acc EXCEPT !.ok = FALSE]
       [] OTHER -> [ok |-> TRUE, ranges |-> Emplaced(acc.ranges, r),
                    tail |-> r.at + r.length, size |-> acc.size + r.length]

\* No file holds more headers than cells.
ScanSparseFile(file) ==
  LET start == [ok |-> Readable(file, 0, HeaderSize) /\ CellAt(file, 0).kind = "header",
                ranges |-> NoRanges, tail |-> HeaderSize, size |-> 0]
  IN FoldLeft(LAMBDA acc, cell : ScanStep(file, acc), start, file)

-------------------------------------------------------------------------------
(* Reading: what a request returns *)

\* Mutant of ReadSparseRange: the checksum is not compared.
ReadSparseRangeUnchecked(file, r, offsetInRange, length) ==
  LET readable == Readable(file, r.at + offsetInRange, length)
      cells == IF readable THEN Cells(file, r.at + offsetInRange, length) ELSE <<>>
  IN [ok |-> readable, cells |-> cells, checked |-> length = r.length /\ r.crc # <<>>]

\* A range read whole is compared with its checksum if it has one.
ReadSparseRange(file, r, offsetInRange, length) ==
  LET readable == Readable(file, r.at + offsetInRange, length)
      cells == IF readable THEN Cells(file, r.at + offsetInRange, length) ELSE <<>>
  IN [ok |-> /\ readable
             /\ length = r.length /\ r.crc # <<>> => cells = r.crc,
      cells |-> cells, checked |-> length = r.length /\ r.crc # <<>>]

ReadStep(e, offset, length, acc, r) ==
  LET inRange == OffsetInRange(r, offset)
      part == ReadSparseRange(e.file, r, inRange,
                              Smaller(length - Len(acc.cells), r.length - inRange))
      contiguous == r.offset + inRange = offset + Len(acc.cells)
  IN IF ~acc.ok \/ Len(acc.cells) >= length \/ ~contiguous THEN acc
     ELSE [ok |-> part.ok, cells |-> acc.cells \o part.cells,
           whole |-> acc.whole \cup (IF part.checked THEN {r} ELSE {})]

\* All contiguous ranges from `offset' on; `whole' are those that were checked.
ReadSparseData(e, offset, length) ==
  FoldLeft(LAMBDA acc, r : ReadStep(e, offset, length, acc, r),
           [ok |-> TRUE, cells |-> <<>>, whole |-> {}], From(e.ranges, offset))

\* Mutant of AvailableStep: a range behind a gap is counted in.
AvailableStepGap(offset, length, acc, r) ==
  IF acc.start + acc.available >= offset + length THEN acc
  ELSE [acc EXCEPT !.available = @ + r.length - OffsetInRange(r, offset)]

AvailableStep(offset, length, acc, r) ==
  IF \/ acc.start + acc.available >= offset + length
     \/ Larger(r.offset, offset) # acc.start + acc.available
  THEN acc
  ELSE [acc EXCEPT !.available = @ + r.length - OffsetInRange(r, offset)]

\* How many bytes there are from `start' on, in the ranges ahead.
Available(ahead, start, offset, length) ==
  FoldLeft(LAMBDA acc, r : AvailableStep(offset, length, acc, r),
           [start |-> start, available |-> 0], ahead).available

\* Where the first bytes at or after `offset' begin and how many there are.
GetAvailableRange(e, offset, length) ==
  LET ahead == From(e.ranges, offset)
      start == IF ahead # <<>> /\ ahead[1].offset < offset + length
               THEN Larger(ahead[1].offset, offset) ELSE offset
  IN [start |-> start,
      length |-> Smaller(Available(ahead, start, offset, length), length - (start - offset))]

-------------------------------------------------------------------------------
(* Writing: a plan is the calls to make and the entry when they are made *)

Write(offset, cells) == WriteCall("sparse", offset, cells)

FileAfter(file, calls) == After([sparse |-> file], calls).sparse
FilesTornAt(file, calls, n) == {f.sparse : f \in TornAt([sparse |-> file], calls, n)}

RangeHeader(r) == <<Extent(r.offset, r.length), DataCrc32(r.crc)>>

\* A range written whole has a checksum, one written in part has none any more;
\* the header is written first, and only if it changes.
WriteSparseRange(plan, r, offsetInRange, data) ==
  LET crc == IF Len(data) = r.length THEN data ELSE <<>>
      new == [r EXCEPT !.crc = crc]
  IN [plan EXCEPT
        !.calls = @ \o (IF crc = r.crc THEN <<>>
                        ELSE <<Write(r.at - RangeHeaderSize, RangeHeader(new))>>)
                    \o <<Write(r.at + offsetInRange, data)>>,
        !.ranges[r.offset] = new]

\* Both writes take what they are told was written for all of it.  The range at
\* `lost' is cut short by a byte.
AppendSparseRange(plan, offset, data, lost) ==
  LET r == [offset |-> offset, length |-> Len(data), crc |-> data,
            at |-> plan.tail + RangeHeaderSize]
      isCut == offset = lost /\ Len(data) > 1
      written == IF isCut THEN Front(data) ELSE data
  IN [plan EXCEPT
        !.calls = @ \o <<Write(plan.tail, RangeHeader(r)), Write(r.at, written)>>,
        !.ranges = Emplaced(@, r), !.tail = r.at + Len(written),
        !.appended = @ + Len(data), !.short = @ \/ isCut]

\* From where the plan has got to: append up to the range, then overwrite in it.
WriteStep(plan, r, offset, data, lost) ==
  LET here == offset + plan.done
      gap == Larger(0, r.offset - here)
      inRange == OffsetInRange(r, offset)
      part == Smaller(Len(data) - plan.done - gap, r.length - inRange)
      filled == IF gap = 0 THEN plan
                ELSE AppendSparseRange(plan, here, SubSeq(data, plan.done + 1, plan.done + gap),
                                       lost)
      from == plan.done + gap
  IN IF plan.done >= Len(data) \/ r.offset >= offset + Len(data) THEN plan
     ELSE [WriteSparseRange(filled, r, inRange, SubSeq(data, from + 1, from + part))
             EXCEPT !.done = from + part]

\* Through all the ranges there are, ...
OverRanges(e, offset, data, lost) ==
  LET start == [calls |-> <<>>, ranges |-> e.ranges, tail |-> e.tail,
                done |-> 0, appended |-> 0, short |-> e.short]
  IN FoldLeft(LAMBDA plan, r : WriteStep(plan, r, offset, data, lost),
              start, From(e.ranges, offset))

\* ... and what is left is appended.
WritePlan(e, offset, data, lost) ==
  LET over == OverRanges(e, offset, data, lost)
  IN IF over.done = Len(data) THEN over
     ELSE AppendSparseRange(over, offset + over.done,
                            SubSeq(data, over.done + 1, Len(data)), lost)

\* CreateSparseFile: create, write the header and the key.
CreateCalls(born) ==
  <<CreateCall("sparse"), Write(0, <<Header("key", born)>>)>>

Created(e) ==
  [e EXCEPT !.open = TRUE, !.file = FileAfter(<<>>, CreateCalls(e.born)),
            !.ranges = NoRanges, !.tail = HeaderSize]

\* Mutant of Truncated: the ranges stay in memory.
TruncatedOnDisk(e) ==
  [e EXCEPT !.file = SetLength(@, HeaderSize), !.size = 0]

Truncated(e) ==
  [e EXCEPT !.file = SetLength(@, HeaderSize), !.size = 0,
            !.ranges = NoRanges, !.tail = HeaderSize]

\* The entry as it is when a write begins: the file is cut if all of the data,
\* taken as new, would be too much.  A cut that fails is not noticed.
WhenWriting(e, length) ==
  IF e.size + length <= MaxSparseData THEN {e}
  ELSE {Truncated(e)} \cup (IF "io" \in Faults THEN {[e EXCEPT !.size = 0]} ELSE {})

-------------------------------------------------------------------------------
(* The entry *)

NoContent == [o \in {} |-> 0]

\* Where an append may be cut short, or nowhere.
LostAt(offset, length) ==
  {MaxOffset} \cup (IF "short" \in Faults THEN offset .. offset + length - 1 ELSE {})

Fresh(born) ==
  [born |-> born, open |-> FALSE, file |-> <<>>, ranges |-> NoRanges, tail |-> 0,
   size |-> 0, isNew |-> TRUE, short |-> FALSE, doomed |-> FALSE, failed |-> FALSE]

Init ==
  /\ disk = Missing /\ others = "none" /\ entry = Closed
  /\ content = NoContent /\ lawful = {} /\ damaged = FALSE
  /\ writes = 0 /\ opens = 0

\* A sparse file that an earlier entry left behind is not looked for.
Create ==
  /\ entry = Closed /\ others = "none" /\ opens < MaxOpens
  /\ entry' = Fresh(opens + 1)
  /\ others' = "valid"
  /\ opens' = opens + 1
  /\ IF disk = Missing THEN content' = NoContent /\ lawful' = {} /\ damaged' = FALSE
                       ELSE UNCHANGED <<content, lawful, damaged>>
  /\ UNCHANGED <<disk, writes>>

\* The sparse file is opened last; one that cannot be scanned fails the open, and
\* the doom that follows does not rename what is not open.  If no file could be
\* opened, it deletes them all.
Open ==
  /\ entry = Closed /\ others # "none" /\ opens < MaxOpens
  /\ opens' = opens + 1
  /\ LET scan == ScanSparseFile(IF disk = Missing THEN <<>> ELSE disk)
         e == Fresh(opens + 1)
     IN \/ /\ others = "valid" /\ disk = Missing
           /\ entry' = [e EXCEPT !.isNew = FALSE]
           /\ UNCHANGED <<disk, others, damaged>>
        \/ /\ others = "valid" /\ disk # Missing /\ scan.ok
           /\ entry' = [e EXCEPT !.isNew = FALSE, !.open = TRUE, !.file = disk,
                                 !.ranges = scan.ranges, !.tail = scan.tail,
                                 !.size = scan.size]
           /\ disk' = Linked
           /\ UNCHANGED <<others, damaged>>
        \/ /\ others = "broken" \/ (disk # Missing /\ ~scan.ok) \/ "io" \in Faults
           /\ others' = "none" /\ damaged' = TRUE
           /\ UNCHANGED <<disk, entry>>
        \/ /\ "io" \in Faults
           /\ others' = "none" /\ disk' = Missing
           /\ UNCHANGED <<entry, damaged>>
  /\ UNCHANGED <<content, lawful, writes>>

Ready == entry # Closed /\ ~entry.failed

\* DoomInternal: the sparse file is renamed if it is open.
Unlinked(d) == IF d = Linked THEN Missing ELSE d

Fails(e, d) ==
  /\ entry' = [e EXCEPT !.failed = TRUE, !.doomed = TRUE]
  /\ disk' = IF e.doomed THEN d ELSE Unlinked(d)
  /\ others' = "none"
  /\ damaged' = TRUE

\* The process dies: a name is given back, and files of a new entry, which has not
\* written its records yet, will not open.
Dies(e, d) ==
  /\ entry' = Closed
  /\ disk' = IF d = Linked THEN e.file ELSE d
  /\ others' \in IF e.doomed THEN {others} ELSE IF e.isNew THEN {"broken"} ELSE {"valid", "broken"}
  /\ damaged' = TRUE

Ended(e, d) ==
  \/ "io" \in Faults /\ Fails(e, d)
  \/ "crash" \in Faults /\ Dies(e, d)

Bytes(length) == [n \in 1 .. length |-> Byte(writes + 1)]

\* The first write creates the file; it cannot if the name is taken, and a file
\* that is not whole is not open yet.
NotCreated ==
  \/ ~entry.doomed /\ disk # Missing /\ Fails(entry, disk)
  \/ /\ entry.doomed \/ disk = Missing
     /\ \E n \in DOMAIN CreateCalls(entry.born) :
          \E file \in FilesTornAt(<<>>, CreateCalls(entry.born), n) :
            Ended(entry, IF entry.doomed THEN disk ELSE file)

\* The content after a write: it is gone if the file was cut before.
ContentAfter(cut, offset, length) ==
  LET left == IF cut.ranges = NoRanges THEN NoContent ELSE content
      written == offset .. offset + length - 1
  IN [o \in DOMAIN left \cup written |-> IF o \in written THEN writes + 1 ELSE left[o]]

WriteTo(e, d, offset, length) ==
  \E cut \in WhenWriting(e, length), lost \in LostAt(offset, length) :
    LET plan == WritePlan(cut, offset, Bytes(length), lost)
    IN \/ /\ entry' = [cut EXCEPT !.file = FileAfter(@, plan.calls),
                                  !.ranges = plan.ranges, !.tail = plan.tail,
                                  !.size = @ + plan.appended, !.short = plan.short]
          /\ disk' = d
          /\ content' = ContentAfter(cut, offset, length)
          /\ damaged' = (damaged \/ plan.short \/ (cut.size # e.size /\ cut.ranges # NoRanges))
          /\ UNCHANGED others
       \/ /\ \E n \in DOMAIN plan.calls :
               \E file \in FilesTornAt(cut.file, plan.calls, n) :
                 Ended([cut EXCEPT !.file = file], d)
          /\ UNCHANGED content

WriteSparseData(offset, length) ==
  /\ Ready /\ writes < MaxWrites
  /\ \/ entry.open /\ WriteTo(entry, disk, offset, length)
     \/ ~entry.open /\ NotCreated /\ UNCHANGED content
     \/ /\ ~entry.open /\ (entry.doomed \/ disk = Missing)
        /\ WriteTo(Created(entry), IF entry.doomed THEN disk ELSE Linked, offset, length)
  /\ lawful' = lawful \cup {[offset |-> offset, length |-> length, byte |-> writes + 1]}
  /\ writes' = writes + 1
  /\ UNCHANGED opens

\* A read that succeeds changes nothing; one that does not dooms the entry.
FailRead ==
  /\ Ready /\ entry.open
  /\ \/ "io" \in Faults
     \/ \E offset \in 0 .. MaxOffset - 1, length \in 1 .. MaxOffset :
          ~ReadSparseData(entry, offset, length).ok
  /\ Fails(entry, disk)
  /\ UNCHANGED <<content, lawful, writes, opens>>

\* CloseSparseFile; the file of a doomed entry is deleted.  If the records of the other
\* files cannot be written, the entry is doomed first.
Close ==
  /\ entry # Closed
  /\ entry' = Closed
  /\ \/ disk' = (IF disk = Linked THEN entry.file ELSE disk) /\ UNCHANGED others
     \/ "io" \in Faults /\ ~entry.doomed /\ disk' = Unlinked(disk) /\ others' = "none"
  /\ UNCHANGED <<content, lawful, damaged, writes, opens>>

\* The user dooms the entry and may go on using it.
Doom ==
  /\ Ready /\ ~entry.doomed
  /\ entry' = [entry EXCEPT !.doomed = TRUE]
  /\ disk' = Unlinked(disk)
  /\ others' = "none"
  /\ UNCHANGED <<content, lawful, damaged, writes, opens>>

\* The entry is deleted while nobody has it open, its sparse file last.
DeleteFilesForEntryHash ==
  /\ entry = Closed
  /\ others # "none" \/ disk # Missing
  /\ others' = "none"
  /\ \/ disk' = Missing /\ UNCHANGED damaged
     \/ "crash" \in Faults /\ damaged' = TRUE /\ UNCHANGED disk
  /\ UNCHANGED <<entry, content, lawful, writes, opens>>

\* The process dies between two operations.
Crash ==
  /\ "crash" \in Faults /\ entry # Closed
  /\ Dies(entry, disk)
  /\ UNCHANGED <<content, lawful, writes, opens>>

Next ==
  \/ Create \/ Open \/ FailRead
  \/ \E offset \in 0 .. MaxOffset - 1 : \E length \in 1 .. MaxOffset - offset :
       WriteSparseData(offset, length)
  \/ Close \/ Doom \/ DeleteFilesForEntryHash \/ Crash

Spec == Init /\ [][Next]_vars

-------------------------------------------------------------------------------
(* Properties *)

Requests == {r \in (0 .. MaxOffset - 1) \X (1 .. MaxOffset) : r[1] + r[2] <= MaxOffset}

\* The bytes from `offset' on that have been written, up to a limit.
WrittenFrom(offset, length) ==
  LET isWritten(n) == offset .. offset + n - 1 \subseteq DOMAIN content
      n == Max({n \in 0 .. length : isWritten(n)})
  IN [i \in 1 .. n |-> Byte(content[offset + i - 1])]

FirstWritten(offset, length) ==
  LET held == {o \in offset .. offset + length - 1 : o \in DOMAIN content}
      start == IF held = {} THEN offset ELSE Min(held)
  IN [start |-> start, length |-> Len(WrittenFrom(start, length - (start - offset)))]

\* An entry that met neither crash nor failure has a sparse file to which reads and
\* queries answer as to one array of bytes, however the ranges came to be, and
\* over any number of opens (WriteSparseData, ReadSparseData, GetAvailableRange).
SparseReadsReturnWritten ==
  Ready /\ ~damaged => \A r \in Requests :
    LET read == ReadSparseData(entry, r[1], r[2])
    IN /\ read.ok /\ read.cells = WrittenFrom(r[1], r[2])
       /\ GetAvailableRange(entry, r[1], r[2]) = FirstWritten(r[1], r[2])

\* A range that is read whole and has a checksum holds bytes of one write, whatever
\* crashes, failures and short writes there were (ReadSparseRange).
SparseChecksumsTellDamage ==
  Ready => \A r \in Requests :
    LET read == ReadSparseData(entry, r[1], r[2])
    IN read.ok => \A range \in read.whole : \E w \in lawful :
         /\ w.offset <= range.offset
         /\ range.offset + range.length <= w.offset + w.length
         /\ Range(Cells(entry.file, range.at, range.length)) = {Byte(w.byte)}

\* What is kept in memory is what a scan of the file would find, no two ranges
\* overlap, and the size is counted rightly and not above the limit but by a single
\* write that is (ScanSparseFile, AppendSparseRange, TruncateSparseFile).
RangesMatchFile ==
  Ready /\ entry.open /\ ~entry.short =>
    LET scan == ScanSparseFile(entry.file)
    IN /\ scan.ok /\ scan.ranges = entry.ranges /\ scan.tail = entry.tail
       /\ ~damaged => /\ scan.size = entry.size
                      /\ \/ entry.size <= MaxSparseData
                         \/ \E w \in lawful : w.length >= entry.size
       /\ \A o, p \in DOMAIN entry.ranges : o < p => o + entry.ranges[o].length <= p

================================================================================
