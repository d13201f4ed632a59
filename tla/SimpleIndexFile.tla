--------------------------- MODULE SimpleIndexFile ---------------------------
(***************************************************************************)
(* The index on disk, over many lives of a cache.  Entries are created and *)
(* doomed in memory at once and in the directory later, by workers; sets   *)
(* of entries are written to index-dir/the-real-index through a temporary  *)
(* file, stamped with the directory's modification time; the next life     *)
(* trusts an index whose stamp is not older than the directory, and lists  *)
(* the directory otherwise.  A process may end in order or crash.          *)
(*                                                                         *)
(* An entry file may come to be unknown to an index that is trusted, and   *)
(* then nothing evicts it.  The history fields missed, raced and sameTick  *)
(* say exactly when.                                                       *)
(***************************************************************************)
EXTENDS Integers, Sequences, FiniteSets

CONSTANTS
  Hashes,         \* the entries
  Absent,         \* no such file
  Corrupt,        \* a file whose checksum or contents are wrong
  Whole,          \* a temporary file as it was to be written
  NoTime,         \* not stamped yet
  MaxClock,       \* bound: the ticks of file times
  MaxWrites,      \* bound: index writes posted and not done
  MaxOperations   \* bound: operations on the files of one entry not done

ASSUME IndexFileAssumption ==
  /\ NoTime \notin Nat /\ Absent # Corrupt
  /\ MaxWrites \in Nat /\ MaxOperations \in Nat

VARIABLES
  files,        \* the entries that have files in the directory
  dirMtime,     \* the directory's modification time
  clock,        \* the time, as coarse as file times are
  indexFile,    \* index-dir/the-real-index
  tempFile,     \* index-dir/temp-index
  backend,      \* down, loading, ready, or closed with tasks left
  known,        \* entries_set_
  removed,      \* removed_entries_
  timer,        \* write_to_disk_timer_ is running
  load,         \* the load under way
  operations,   \* operations[h]: what workers are to do to h's files
  writes,       \* index writes posted to the cache runner
  stage,        \* how far the first of them has come
  missed,       \* history: entry files this life cannot know of
  orderly       \* history: no crash, failed write or failed deletion in this life

memory == <<backend, known, removed, timer, load>>
disk == <<files, dirMtime, indexFile, tempFile>>
vars == <<disk, clock, memory, operations, writes, stage, missed, orderly>>

-----------------------------------------------------------------------------

\* A set of entries as written to the index file, with the directory's time.
Snapshots ==
  [entries : SUBSET Hashes,
   seen : Nat \cup {NoTime},
   missed : SUBSET Hashes,     \* history: what the life that wrote it did not know
   raced : SUBSET Hashes,      \* history: files made, or not yet deleted, after it was
                               \* serialized and before it was stamped
   sameTick : SUBSET Hashes]   \* history: files made later, in the tick of the stamp

ASSUME SnapshotAssumption == Absent \notin Snapshots /\ Corrupt \notin Snapshots

Dooming(h) == \E i \in DOMAIN operations[h] : operations[h][i] = "doom"

Serialize(entries, unknown) ==
  [entries |-> entries, seen |-> NoTime, missed |-> unknown,
   raced |-> { h \in Hashes : Dooming(h) }, sameTick |-> {}]

NoLoad ==
  [stage |-> "none", mtime |-> 0, entries |-> {}, left |-> {}, missed |-> {},
   flush |-> FALSE]

Idle == [h \in Hashes |-> <<>>]

\* The cache is new, has an index, or has been edited so that none can be loaded.
Init ==
  /\ files \in SUBSET Hashes
  /\ dirMtime = 0 /\ clock = 0
  /\ operations = Idle
  /\ indexFile \in {Absent, Corrupt,
       [Serialize(files, {}) EXCEPT !.seen = 0]}
  /\ tempFile = Absent
  /\ backend = "down" /\ known = {} /\ removed = {} /\ timer = FALSE
  /\ load = NoLoad
  /\ writes = <<>> /\ stage = "idle"
  /\ missed = {} /\ orderly = FALSE

-----------------------------------------------------------------------------
\* One life of the cache.

\* History: what an earlier life left out is as good as missed by it.
Inherited(snapshot) ==
  IF snapshot \in {Absent, Corrupt} THEN snapshot
  ELSE [snapshot EXCEPT !.missed = @ \cup snapshot.raced \cup snapshot.sameTick]

\* InitCacheStructureOnDisk, then Initialize.  The cleanup tracker holds a new
\* backend back until the tasks of the last one are done.
InitializeIndex ==
  /\ backend \in {"down", "closed"} /\ writes = <<>> /\ operations = Idle
  /\ backend' = "loading"
  /\ load' = [NoLoad EXCEPT !.stage = "index", !.mtime = dirMtime]
  /\ known' = {} /\ removed' = {} /\ timer' = FALSE
  /\ missed' = {} /\ orderly' = TRUE
  /\ indexFile' = Inherited(indexFile)
  /\ UNCHANGED <<files, dirMtime, tempFile, clock, operations, writes, stage>>

\* The index was stamped no earlier than the directory was changed.
Fresh(mtime) == indexFile \notin {Absent, Corrupt} /\ mtime <= indexFile.seen

\* SyncLoadIndexEntries trusts the index file ...
LoadFresh ==
  /\ load.stage = "index" /\ Fresh(load.mtime)
  /\ load' = [load EXCEPT !.stage = "loaded", !.entries = indexFile.entries,
                          !.missed = indexFile.missed]
  /\ UNCHANGED <<disk, clock, backend, known, removed, timer, operations, writes, stage,
                 missed, orderly>>

\* ... or deletes it, if that succeeds, and lists the directory, file by file.
LoadStale ==
  /\ load.stage = "index" /\ ~Fresh(load.mtime)
  /\ indexFile' \in {indexFile, Absent}
  /\ load' = [load EXCEPT !.stage = "scan", !.left = Hashes]
  /\ UNCHANGED <<files, dirMtime, tempFile, clock, backend, known, removed, timer,
                 operations, writes, stage, missed, orderly>>

ProcessEntryFile(h) ==
  /\ load.stage = "scan" /\ h \in load.left
  /\ load' = [load EXCEPT !.left = @ \ {h}, !.entries = @ \cup ({h} \cap files)]
  /\ UNCHANGED <<disk, clock, backend, known, removed, timer, operations, writes, stage,
                 missed, orderly>>

\* The scan has ended, or the enumerator has an error and what it has seen counts.
RestoreDone ==
  /\ load.stage = "scan"
  /\ load' = [load EXCEPT !.stage = "loaded", !.missed = load.left,
                          !.flush = (load.left = {})]
  /\ UNCHANGED <<disk, clock, backend, known, removed, timer, operations, writes, stage,
                 missed, orderly>>

\* WriteToDisk, if there is a reason to.
WriteToDisk(reason, entries, unknown) ==
  IF reason THEN /\ Len(writes) < MaxWrites
                 /\ writes' = Append(writes, Serialize(entries, unknown))
                 /\ timer' = FALSE
  ELSE UNCHANGED <<writes, timer>>

\* Mutant of MergeInitializingSet: the index file wins over what is in memory.
MergeInitializingSetFromDisk ==
  /\ load.stage = "loaded"
  /\ known' = load.entries \ removed
  /\ removed' = {}
  /\ missed' = (missed \cup load.missed) \ known'
  /\ backend' = "ready" /\ load' = NoLoad
  /\ WriteToDisk(load.flush, known', missed')
  /\ UNCHANGED <<disk, clock, operations, stage, orderly>>

MergeInitializingSet ==
  /\ load.stage = "loaded"
  /\ known' = (load.entries \ removed) \cup known
  /\ removed' = {}
  /\ missed' = (missed \cup load.missed) \ known'
  /\ backend' = "ready" /\ load' = NoLoad
  /\ WriteToDisk(load.flush, known', missed')
  /\ UNCHANGED <<disk, clock, operations, stage, orderly>>

\* The idle timer fires, or Android stops the application.
WriteIndex ==
  /\ backend = "ready" /\ WriteToDisk(TRUE, known, missed)
  /\ UNCHANGED <<disk, clock, backend, known, removed, load, operations, stage, missed,
                 orderly>>

\* Mutant of Shutdown: a pending write is dropped with its timer.
ShutdownUnsaved ==
  /\ backend \in {"loading", "ready"}
  /\ backend' = "closed" /\ known' = {} /\ removed' = {} /\ load' = NoLoad
  /\ timer' = FALSE /\ missed' = {}
  /\ UNCHANGED <<disk, clock, operations, writes, stage, orderly>>

\* ~SimpleBackendImpl: a pending write is made at once.
Shutdown ==
  /\ backend \in {"loading", "ready"}
  /\ backend' = "closed" /\ known' = {} /\ removed' = {} /\ load' = NoLoad
  /\ WriteToDisk(timer, known, missed)
  /\ missed' = {}
  /\ UNCHANGED <<disk, clock, operations, stage, orderly>>

\* The process dies; what is in the directory stays.
Crash ==
  /\ backend # "down"
  /\ backend' = "down" /\ known' = {} /\ removed' = {} /\ timer' = FALSE
  /\ load' = NoLoad
  /\ operations' = Idle
  /\ writes' = <<>> /\ stage' = "idle"
  /\ missed' = {} /\ orderly' = FALSE
  /\ UNCHANGED <<disk, clock>>

-----------------------------------------------------------------------------
\* Entries come and go: in the index first, in the directory when a worker is free.

Enqueue(h, operation) ==
  /\ Len(operations[h]) < MaxOperations
  /\ operations' = [operations EXCEPT ![h] = Append(@, operation)]

PostponeWritingToDisk(changed) == timer' = (timer \/ (changed /\ backend = "ready"))

\* An entry is created, or opened though the index does not know it.
Insert(h) ==
  /\ backend \in {"loading", "ready"}
  /\ known' = known \cup {h}
  /\ removed' = IF backend = "loading" THEN removed \ {h} ELSE removed
  /\ PostponeWritingToDisk(h \notin known)
  /\ Enqueue(h, "create")
  /\ missed' = missed \ {h}
  /\ UNCHANGED <<disk, clock, backend, load, writes, stage, orderly>>

\* An entry is doomed, by a client or by an eviction.
Remove(h) ==
  /\ backend \in {"loading", "ready"}
  /\ known' = known \ {h}
  /\ removed' = IF backend = "loading" THEN removed \cup {h} ELSE removed
  /\ PostponeWritingToDisk(h \in known)
  /\ Enqueue(h, "doom")
  /\ UNCHANGED <<disk, clock, backend, load, writes, stage, missed, orderly>>

\* History: a snapshot in the making does not know of a new file.
Raced(snapshot, h) ==
  IF snapshot \in {Absent, Corrupt} \/ snapshot.seen \notin {NoTime, clock} THEN snapshot
  ELSE IF snapshot.seen = NoTime THEN [snapshot EXCEPT !.raced = @ \cup {h}]
                                 ELSE [snapshot EXCEPT !.sameTick = @ \cup {h}]

\* A worker creates the files of an entry, or opens the ones that are there.
CreateEntryFiles(h) ==
  /\ operations[h] # <<>> /\ Head(operations[h]) = "create"
  /\ operations' = [operations EXCEPT ![h] = Tail(@)]
  /\ IF h \in files THEN UNCHANGED <<disk, writes>>
     ELSE /\ files' = files \cup {h}
          /\ dirMtime' = clock
          /\ writes' = [i \in DOMAIN writes |-> Raced(writes[i], h)]
          /\ indexFile' = Raced(indexFile, h)
          /\ UNCHANGED tempFile
  /\ UNCHANGED <<clock, memory, stage, missed, orderly>>

DeleteEntryFiles(h) ==
  /\ operations[h] # <<>> /\ Head(operations[h]) = "doom"
  /\ operations' = [operations EXCEPT ![h] = Tail(@)]
  /\ files' = files \ {h}
  /\ dirMtime' = IF h \in files THEN clock ELSE dirMtime
  /\ UNCHANGED <<indexFile, tempFile, clock, memory, writes, stage, missed, orderly>>

\* The files could not be deleted: nothing tells the index.
DeleteEntryFails(h) ==
  /\ operations[h] # <<>> /\ Head(operations[h]) = "doom" /\ h \in files
  /\ operations' = [operations EXCEPT ![h] = Tail(@)]
  /\ missed' = missed \cup (IF backend = "closed" THEN {} ELSE {h} \ known)
  /\ orderly' = FALSE
  /\ UNCHANGED <<disk, clock, memory, writes, stage>>

\* Files of entries that are not in Hashes come and go, or half-deleted ones, todelete_.
ChangeOtherFiles ==
  /\ dirMtime # clock /\ dirMtime' = clock
  /\ UNCHANGED <<files, indexFile, tempFile, clock, memory, operations, writes, stage,
                 missed, orderly>>

-----------------------------------------------------------------------------
\* SyncWriteToDiskInternal, for the first of the posted writes.

Step(from, to) == writes # <<>> /\ stage = from /\ stage' = to

\* Mutant of SerializeFinalData: file times are rounded up.
SerializeFinalDataRoundedUp ==
  /\ Step("idle", "opened")
  /\ writes' = [writes EXCEPT ![1].seen = dirMtime + 1]
  /\ tempFile' = Corrupt
  /\ UNCHANGED <<files, dirMtime, indexFile, clock, memory, operations, missed, orderly>>

\* Mutant of SerializeFinalData: the index is written in place.
SerializeFinalDataInPlace ==
  /\ Step("idle", "opened")
  /\ writes' = [writes EXCEPT ![1].seen = dirMtime]
  /\ indexFile' = Corrupt
  /\ UNCHANGED <<files, dirMtime, tempFile, clock, memory, operations, missed, orderly>>

\* The pickle gets its stamp, and the temporary file is opened with
\* FLAG_CREATE_ALWAYS ...
SerializeFinalData ==
  /\ Step("idle", "opened")
  /\ writes' = [writes EXCEPT ![1].seen = dirMtime]
  /\ tempFile' = Corrupt
  /\ UNCHANGED <<files, dirMtime, indexFile, clock, memory, operations, missed, orderly>>

\* ... then written ...
WritePickleFile ==
  /\ Step("opened", "written")
  /\ tempFile' = Whole
  /\ UNCHANGED <<files, dirMtime, indexFile, clock, memory, operations, writes, missed,
                 orderly>>

\* ... and renamed.
ReplaceFile ==
  /\ Step("written", "idle") /\ tempFile = Whole
  /\ indexFile' = Head(writes) /\ tempFile' = Absent
  /\ writes' = Tail(writes)
  /\ UNCHANGED <<files, dirMtime, clock, memory, operations, missed, orderly>>

\* Any of these steps fails.  A temporary file that could not be written is deleted,
\* one that could not be renamed stays.
WriteFails ==
  /\ writes # <<>> /\ writes' = Tail(writes) /\ stage' = "idle"
  /\ tempFile' = IF stage = "opened" THEN Absent ELSE tempFile
  /\ orderly' = FALSE
  /\ UNCHANGED <<files, dirMtime, indexFile, clock, memory, operations, missed>>

-----------------------------------------------------------------------------

Tick ==
  /\ clock < MaxClock /\ clock' = clock + 1
  /\ UNCHANGED <<disk, memory, operations, writes, stage, missed, orderly>>

Next ==
  \/ InitializeIndex \/ LoadFresh \/ LoadStale \/ RestoreDone \/ MergeInitializingSet
  \/ WriteIndex \/ Shutdown \/ Crash
  \/ \E h \in Hashes : \/ ProcessEntryFile(h) \/ Insert(h) \/ Remove(h)
                       \/ CreateEntryFiles(h) \/ DeleteEntryFiles(h) \/ DeleteEntryFails(h)
  \/ SerializeFinalData \/ WritePickleFile \/ ReplaceFile \/ WriteFails
  \/ ChangeOtherFiles \/ Tick

Spec == Init /\ [][Next]_vars

-----------------------------------------------------------------------------

\* Once loaded, the index knows every entry that has files, or is having them
\* deleted, but for those the load could not tell it of: however creations, dooms
\* and the listing of the directory interleave (MergeInitializingSet).
IndexKnowsFiles ==
  backend = "ready" =>
    \A h \in files : h \in known \/ Dooming(h) \/ h \in missed

\* An index file the next life would trust lists every entry that has files, but
\* for those its writer did not know, those that were created or still to be deleted
\* when it was already serialized and not yet stamped, and those created in the tick
\* of the stamp (cache_last_modified <= last_cache_seen_by_index).
FreshIndexListsFiles ==
  Fresh(dirMtime) =>
    files \subseteq indexFile.entries \cup indexFile.missed
                      \cup indexFile.raced \cup indexFile.sameTick

\* After a life that ended in order, and whose index could be written, there are
\* no such races: all changes after a write cause another, at the latest in the
\* destructor (HasPendingWrite).
OrderlyIndexListsFiles ==
  /\ backend = "closed" /\ orderly /\ writes = <<>> /\ operations = Idle
  /\ Fresh(dirMtime)
  => files \subseteq indexFile.entries \cup indexFile.missed \cup indexFile.sameTick

\* The index file holds one of the sets posted to it, whole and in their order,
\* whenever the process dies or a step fails (temporary file and ReplaceFile).
Register == INSTANCE IndexRegister WITH
  Contents <- SUBSET Hashes,
  file <- IF indexFile \in {Absent, Corrupt} THEN indexFile ELSE indexFile.entries,
  posted <- [i \in DOMAIN writes |-> writes[i].entries]
IndexWrittenWhole == Register!Spec

=============================================================================
