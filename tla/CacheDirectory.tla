---------------------------- MODULE CacheDirectory ----------------------------
(***************************************************************************)
(* A cache directory edited through SimpleCacheLibrary.  The library is    *)
(* stateless: its callers read the-real-index and the <hash>_0 files,      *)
(* chain any number of modify() calls, and write the entry files and then  *)
(* the index back in place, as section 3 of the repository's README.md     *)
(* tells them to.  A caller may die between any two steps, or inside a     *)
(* write, which leaves a file that does not parse: Files.write truncates   *)
(* the file and writes it in place.                                        *)
(***************************************************************************)
EXTENDS SimpleCacheLibrary

CONSTANTS
  Callers,        \* threads or processes that use the library
  InitialFiles,   \* what Chromium may have left: functions from hashes to files
  InitialListing, \* the hashes Chromium's index lists
  InitialHints,   \* values of inMemoryData in its records
  OtherBytes,     \* OtherBytes[h]: the size of h's <h>_1, which the library ignores
  Lost,           \* no body can be restored
  None,           \* nothing held, or nothing written yet
  MaxBatch,       \* bound: modify() calls chained on one index
  MaxClock        \* bound: distinct last-used times

\* Distinct keys have distinct hashes, and Chromium names files by their key.
ASSUME DirectoryAssumption ==
  /\ IsFiniteSet(Hashes)
  /\ \A k \in Keys : EntryHash(k) \in Hashes /\ KeyLength(k) \in Nat
  /\ InitialFiles \subseteq [Hashes -> FileContents]
  /\ \A f \in InitialFiles, h \in Hashes :
        f[h] \in EntryFiles => EntryHash(f[h].key) = h
  /\ InitialListing \subseteq Hashes /\ InitialHints \subseteq 0..3
  /\ OtherBytes \in [Hashes -> Nat]
  /\ {Missing, Malformed} \cap EntryFiles = {} /\ Missing # Malformed
  /\ None \notin Bytes \cup EntryFiles \cup {Missing, Malformed}

VARIABLES
  indexFile,   \* index-dir/the-real-index, or Malformed
  file,        \* file[h]: the <h>_0 file
  clock,       \* System.currentTimeMillis()
  pc,          \* pc[c]: how far caller c has come
  index,       \* index[c]: the index c works on, None when idle
  loaded,      \* loaded[c]: the entry file c has read and not yet modified
  results,     \* results[c]: edits not yet written, oldest first
  body,        \* history: the plain body of the last write to each entry file
  editedAt,    \* history: and the time of that edit, 0 if Chromium rebuilt the index since
  behind,      \* history: entries index[c] is out of date about
  torn         \* history: entries indexFile is out of date about

callVars == <<pc, index, loaded, results>>
history == <<body, editedAt, behind, torn>>
vars == <<indexFile, file, clock, callVars, history>>

-----------------------------------------------------------------------------

entryBytes(contents) == IF contents \in EntryFiles THEN serializedSize(contents) ELSE 0

\* The size Chromium gives an entry, in blocks: of the sum of its files while it
\* is used, the sum of the rounded sizes when the files are scanned.
sizeInUse(h, contents) == setEntrySize(entryBytes(contents) + OtherBytes[h])

sizeScanned(h, contents) ==
  setEntrySize(entryBytes(contents)) + setEntrySize(OtherBytes[h])

\* What Chromium's index says of the files it left, or has found.
chromiumIndex(files, hashes, hint, scanned) ==
  LET list == SetToSeq(hashes)
      size(h) == IF scanned THEN sizeScanned(h, files[h]) ELSE sizeInUse(h, files[h])
  IN  recomputeCacheSize(
        [version |-> MIN_INDEX_FILE_VERSION, reason |-> 0,
         cacheSize |-> 0, cacheLastModifiedInternal |-> 0,
         entries |-> [i \in DOMAIN list |->
           [hash |-> list[i], lastUsedInternal |-> 0,
            entrySizeChunks |-> size(list[i]), inMemoryData |-> hint]]])

Init ==
  /\ file \in InitialFiles
  /\ \E hint \in InitialHints : indexFile = chromiumIndex(file, InitialListing, hint, FALSE)
  /\ clock = 1
  /\ pc = [c \in Callers |-> "idle"]
  /\ index = [c \in Callers |-> None]
  /\ loaded = [c \in Callers |-> None]
  /\ results = [c \in Callers |-> <<>>]
  /\ body = [h \in Hashes |-> None]
  /\ editedAt = [h \in Hashes |-> 0]
  /\ behind = [c \in Callers |-> {}]
  /\ torn = {}

ReadIndex(c) ==
  /\ pc[c] = "idle" /\ indexFile # Malformed
  /\ pc' = [pc EXCEPT ![c] = "editing"]
  /\ index' = [index EXCEPT ![c] = indexFile]
  /\ behind' = [behind EXCEPT ![c] = torn]
  /\ UNCHANGED <<indexFile, file, clock, loaded, results, body, editedAt, torn>>

\* The bytes of one entry file, listed or not; only present files are edited.
ReadEntry(c, h) ==
  /\ pc[c] = "editing" /\ loaded[c] = None
  /\ Len(results[c]) < MaxBatch
  /\ file[h] # Missing
  /\ loaded' = [loaded EXCEPT ![c] = file[h]]
  /\ UNCHANGED <<indexFile, file, clock, pc, index, results, history>>

\* modify(), or modifyEntryBody(.., false) with a body compressed beforehand
\* and then updateIndex(); the result is filed under the hash of its key.
Modify(c, b, autoContentEncoding) ==
  /\ loaded[c] \in EntryFiles
  /\ LET e == loaded[c]
         newBody == IF autoContentEncoding THEN b
                    ELSE encode(b, contentEncoding(e.stream0))
         newEntry == modifyEntryBody(e, newBody, autoContentEncoding)
         hash == EntryHash(newEntry.key)
     IN  /\ results' = [results EXCEPT ![c] =
                          Append(@, [hash |-> hash, entryFile |-> newEntry,
                                     body |-> b, time |-> clock])]
         /\ index' = [index EXCEPT ![c] = updateIndex(@, newEntry, clock)]
  /\ loaded' = [loaded EXCEPT ![c] = None]
  /\ UNCHANGED <<indexFile, file, clock, pc, history>>

\* The batch is over, or its caller dead: nothing it held is left.
Forget(c) ==
  /\ pc' = [pc EXCEPT ![c] = "idle"]
  /\ index' = [index EXCEPT ![c] = None]
  /\ loaded' = [loaded EXCEPT ![c] = None]
  /\ results' = [results EXCEPT ![c] = <<>>]

\* Another's index does not know of a write to h that c makes, or dies in.
Outdate(c, h) ==
  /\ torn' = torn \cup {h}
  /\ behind' = [d \in Callers |-> IF d = c THEN behind[d] \ {h} ELSE behind[d] \cup {h}]

EntryToWrite(c) == loaded[c] = None /\ results[c] # <<>>

IndexToWrite(c) == pc[c] = "writing" /\ results[c] = <<>>

\* Files.write(<hash>_0, result.entryFile), in the order of the edits.
WriteEntry(c) ==
  /\ EntryToWrite(c)
  /\ LET r == Head(results[c])
     IN  /\ file' = [file EXCEPT ![r.hash] = r.entryFile]
         /\ body' = [body EXCEPT ![r.hash] = r.body]
         /\ editedAt' = [editedAt EXCEPT ![r.hash] = r.time]
         /\ Outdate(c, r.hash)
  /\ results' = [results EXCEPT ![c] = Tail(@)]
  /\ pc' = [pc EXCEPT ![c] = "writing"]
  /\ UNCHANGED <<indexFile, clock, index, loaded>>

\* Files.write(the-real-index, result.indexFile).
WriteIndex(c) ==
  /\ IndexToWrite(c)
  /\ indexFile' = index[c]
  /\ torn' = behind[c]
  /\ Forget(c)
  /\ UNCHANGED <<file, clock, body, editedAt, behind>>

\* The caller dies inside WriteEntry or WriteIndex.
CrashInWrite(c) ==
  /\ \/ /\ EntryToWrite(c)
        /\ LET h == Head(results[c]).hash
           IN  /\ file' = [file EXCEPT ![h] = Malformed]
               /\ body' = [body EXCEPT ![h] = None]
               /\ Outdate(c, h)
        /\ UNCHANGED indexFile
     \/ /\ IndexToWrite(c)
        /\ indexFile' = Malformed
        /\ UNCHANGED <<file, body, behind, torn>>
  /\ Forget(c)
  /\ UNCHANGED <<clock, editedAt>>

\* The caller dies between two steps, or modify() throws on a malformed file:
\* what it had not written is lost, what it had written stays.
Abandon(c) ==
  /\ pc[c] # "idle"
  /\ Forget(c)
  /\ UNCHANGED <<indexFile, file, clock, history>>

\* The hashes some file of the directory is named after.
hashesOnDisk == { h \in Hashes : file[h] # Missing \/ OtherBytes[h] > 0 }

\* Chromium finds an index it cannot load and lists the files by their names.
SyncRestoreFromDisk ==
  /\ indexFile = Malformed
  /\ indexFile' = chromiumIndex(file, hashesOnDisk, 0, TRUE)
  /\ torn' = {}
  /\ behind' = [c \in Callers |-> Hashes]
  /\ editedAt' = [h \in Hashes |-> 0]
  /\ UNCHANGED <<file, clock, callVars, body>>

Tick ==
  /\ clock < MaxClock
  /\ clock' = clock + 1
  /\ UNCHANGED <<indexFile, file, callVars, history>>

Next ==
  \/ \E c \in Callers :
       \/ ReadIndex(c)
       \/ \E h \in Hashes : ReadEntry(c, h)
       \/ \E b \in Bodies, auto \in BOOLEAN : Modify(c, b, auto)
       \/ WriteEntry(c)
       \/ WriteIndex(c)
       \/ CrashInWrite(c)
       \/ Abandon(c)
  \/ SyncRestoreFromDisk
  \/ Tick

Spec == Init /\ [][Next]_vars

-----------------------------------------------------------------------------

\* The body restore() returns for an entry file, whatever is wrong with it.
bodyOf(contents) ==
  CASE contents = Missing -> EmptyBytes
    [] contents = Malformed -> Lost
    [] OTHER -> restoredBody(contents)

Edits == [hash : Hashes, entryFile : EntryFiles, body : Bodies, time : Nat]

\* An index with the fields of its format and no hash twice; its total is
\* IndexDescribesFiles' concern.
IsIndex(idx) ==
  /\ DOMAIN idx = {"version", "reason", "cacheSize", "cacheLastModifiedInternal", "entries"}
  /\ idx.version \in MIN_INDEX_FILE_VERSION .. INDEX_FILE_VERSION
  /\ idx.reason \in REASONS /\ idx.cacheLastModifiedInternal \in Nat
  /\ idx.entries \in Seq(IndexEntries)
  /\ \A i, j \in DOMAIN idx.entries : idx.entries[i].hash = idx.entries[j].hash => i = j

\* Every variable stays in the range the code gives it; in particular a modified
\* entry is again an entry file, under the hash of its key, and an index that was
\* updated is again an index, which lists no hash twice.
TypeOK ==
  /\ indexFile = Malformed \/ IsIndex(indexFile)
  /\ DOMAIN index = Callers
  /\ \A c \in Callers : IF pc[c] = "idle" THEN index[c] = None ELSE IsIndex(index[c])
  /\ file \in [Hashes -> FileContents]
  /\ clock \in Nat \ {0}
  /\ pc \in [Callers -> {"idle", "editing", "writing"}]
  /\ loaded \in [Callers -> FileContents \cup {None}]
  /\ results \in [Callers -> Seq(Edits)]
  /\ body \in [Hashes -> Bodies \cup {None}]
  /\ editedAt \in [Hashes -> Nat]
  /\ behind \in [Callers -> SUBSET Hashes]
  /\ torn \subseteq Hashes

\* A written entry restores to exactly the plain body that was asked for, with no
\* warning, after any interleaving of callers and any crash
\* (modifyEntryBody, serialize and restore agree).
WrittenBodyRestored ==
  \A h \in Hashes : body[h] # None =>
    /\ file[h] \in EntryFiles
    /\ parsedEntry(h, file[h]).body = body[h]
    /\ parsedEntry(h, file[h]).warnings = {}

\* The headers Chromium will trust describe the stored stream: content-length
\* counts the stored (compressed) bytes and the pickle's length its own
\* (patchContentLength on the length of what was stored, not of what was passed).
StoredMetadataConsistent ==
  \A h \in Hashes : body[h] # None =>
    LET s0 == file[h].stream0 IN
    /\ hasHeaderBlock(s0) =>
         s0.contentLength \in {NoLength, ByteLength(file[h].stream1)}
    /\ pickleConsistent(s0)

\* The size the index should have for an entry: of both its files, as Chromium
\* counts them, or since an edit that of the <hash>_0 file alone.
describedSizes(h) ==
  IF editedAt[h] = 0 THEN {sizeInUse(h, file[h]), sizeScanned(h, file[h])}
                     ELSE {setEntrySize(serializedSize(file[h]))}

\* The index has the size of each entry it lists and the time of its last edit,
\* but for the files written by someone whose index is not the one on disk: an
\* index written last is right about all that its writer wrote, and all that
\* nobody wrote since it was read.  Its total is always that of its records, and
\* through it restore() finds every body last written, unless a file cut short by
\* a crash makes it throw for all of them.
IndexDescribesFiles ==
  indexFile # Malformed =>
    /\ LET restored == restore(indexFile, file) IN
       restored = Thrown \/ \A i \in DOMAIN restored :
         body[restored[i].hash] \in {None, restored[i].body}
    /\ indexFile.cacheSize = totalSize(indexFile)
    /\ \A i \in DOMAIN indexFile.entries :
         LET ie == indexFile.entries[i] IN
         ie.hash \notin torn /\ file[ie.hash] \in EntryFiles =>
           /\ ie.entrySizeChunks \in describedSizes(ie.hash)
           /\ ie.lastUsedInternal = editedAt[ie.hash]

\* No entry that has a file disappears from a rewritten index, unless its record
\* there is out of date for the same reason (put never drops a record).
IndexKeepsEntries ==
  [][ Malformed \notin {indexFile, indexFile'} =>
        \A h \in listed(indexFile) \ torn' :
          file[h] # Missing => h \in listed(indexFile') ]_vars

\* The edits callers have made and not yet written.
pendingEdits ==
  UNION { { <<results[c][i].hash, results[c][i].body>> : i \in 1 .. Len(results[c]) } :
            c \in Callers }

\* Callers together do what EditedBodies promises: an entry's body changes only
\* to one asked for, for that entry, by a caller still alive, and only a write of
\* it can lose it.
Promise == INSTANCE EditedBodies WITH
  restored <- [h \in Hashes |-> bodyOf(file[h])], pending <- pendingEdits
EditsAsRequested == Promise!Spec

=============================================================================
