# A TLA+ development of SimpleCache-Tool

SimpleCache-Tool reads and rewrites Chromium "simple cache" directories. The
repository holds a Java library (`src/src/com/cfks/simplecache`), an example
that drives it (`src/examples/LibraryTest.java`) and, under
`src/reference/chromium`, the parts of Chromium that own such a directory. The
library is pure functions on bytes; what makes it right or wrong is how its
results are chained and written by its callers, and what Chromium makes of the
files afterwards. The modules here model both sides.

## 1. The system

| Component | State | Operations | Interacts with |
|---|---|---|---|
| `ContentEncoding.java` | none | normalize, isSupported, isCompressed, decode, encode | java.util.zip |
| `HttpCacheMetadata.java` | none | contentLength, contentEncoding, headerValue, patchContentLength | the pickle in stream 0 |
| `SimpleCacheEntry.java` | one `<hash>_0` file | parse, verify, serialize, serializedSize | format helpers |
| `SimpleCacheIndex.java` | one `the-real-index` | parse, find, put, recomputeCacheSize, serialize | format helpers |
| `SimpleCacheLibrary.java` | none | restore, modifyEntryBody, updateIndex, modify | all of the above |
| `CodeCache.java` | one code cache payload | parse, build, modify | entry streams |
| a caller (section 3 of `src/README.md`; `LibraryTest.java`) | index in hand, edits not yet written | read, edit, write entries, write index | the directory |
| `simple_index.cc` | entries, size, removed set, timer, tasks | Insert, Remove, UseIfExists, UpdateEntrySize, SetMaxSize, eviction, load and merge, write | index file (worker thread), backend |
| `simple_index_file.cc` | index file, temporary file | load, restore from the directory, write and replace | file system |
| `simple_backend_impl.cc` | active entries, dooms in progress | open, create, doom, mass doom, iterate | index, entries |
| `simple_synchronous_entry.cc` | the files of an entry | open, create, read, write, doom, close, sparse ranges | file system |
| `generated_code_cache.cc` | pending operations, a queue per key, in-memory cache | WriteEntry, FetchEntry, DeleteEntry, GetBackend, ClearInMemoryCache | backend callbacks |

What is hard about it, and what correctness means:

* **Library and callers.** A batch of edits is read, chained through the index
  each `modify` returns, and written file by file. Callers may overlap and may
  die between or inside writes. Right means: a body that was written is the one
  restored, all headers and checksums that describe it agree with it, and the
  index describes the files except where a crash or another caller intervened.
* **In-memory index.** Everything happens on one sequence, but the index file
  is loaded by a worker while entries already come and go, evictions are
  asynchronous, and writes are postponed by a timer. Right means: nothing that
  was removed comes back, the total is the total, changes reach the disk, no
  waiting task is lost.
* **Index file.** Files of entries appear and disappear behind the in-memory
  index, which is written through a temporary file and trusted later by its
  time stamp. Right means: the file is whole whatever dies or fails, and a
  trusted index lists every entry that has files, or nothing would ever evict
  it.
* **Backend.** Active entries are found by hash, dooms take time, and what is
  asked meanwhile waits for the doom, or for an open that knows only the hash; a
  create may be answered before the doom it is behind. Right means: no request
  is served what an earlier one doomed, what nobody doomed is found, every
  request is answered, once, and index and disk agree when all is done.
* **Synchronous entry.** Two files hold three streams, the offsets of which
  follow from each other's lengths; every file call may fail and the process may
  die between any two. Right means: what was closed is found again, a read
  returns the last write, checksums tell damage from data, and no entry is given
  the streams of another. The sparse file adds ranges that are appended,
  overwritten in parts, cut at a limit and found again by a scan.
* **Code cache.** Requests queue per key; large code takes two operations on
  two keys; opens, reads and writes complete later and may fail; the backend
  may not start. Right means: every fetch is answered once, with code its
  resource was given last, and a failed step leaves no half-written entry.

`PROJECT.json` lists every hazard at its line with the properties about it.

## 2. The modules

| Module | Models |
|---|---|
| `ContentEncoding`, `HttpCacheMetadata`, `SimpleCacheEntry`, `SimpleCacheIndex`, `SimpleCacheLibrary` | the Java classes of the same names, as operators |
| `CacheDirectory` | callers of the library at work on one directory; Chromium's rebuild of a broken index |
| `EditedBodies` | what the directory promises: bodies change only to what was asked for |
| `SimpleIndex` | `simple_index.cc` with its load worker and the backend's mass doom |
| `SimpleIndexFile` | `simple_index_file.cc`, with the parts of the index, the backend and the entries that decide what is written and when |
| `IndexRegister` | what the index file promises: it holds one of the sets posted, whole and in order |
| `SimpleBackendImpl` | `simple_backend_impl.cc`: requests, active entries, waiting, dooms of many entries, the iterator |
| `EntryLayout` | where streams and records are in the files (`simple_util.cc`, `SimpleEntryStat`), as operators |
| `EntryFile` | a file as a sequence of cells, and what its calls do to it |
| `SimpleSynchronousEntry` | `<hash>_0` and `<hash>_1` through `simple_synchronous_entry.cc`, call by call |
| `SparseFile` | `<hash>_s` through the sparse part of the same file |
| `GeneratedCodeCache` | `generated_code_cache.cc` on an abstract disk |
| `CodeCache` | `CodeCache.java` beside the writer and the reader of `generated_code_cache.cc`, as operators |
| `CacheDirectoryProofs` | theorems about `CacheDirectory`: its files, and its index |
| `SimpleIndexProofs` | theorems about `SimpleIndex`: its membership, sizes and evictions |
| `SimpleSynchronousEntryProofs` | theorems about `SimpleSynchronousEntry`: whose its files are, and what its streams hold |
| `SparseFileProofs` | theorems about `SparseFile`: reads, checksums, and the ranges in memory and in the file |
| `SimpleIndexFileProofs`, `SimpleBackendImplProofs`, `GeneratedCodeCacheProofs`, `CodeCacheProofs` | theorems about the modules of these names |
| `MCCacheDirectory`, `MCSimpleIndex`, `MCSimpleIndexFile`, `MCSimpleBackendImpl`, `MCSimpleSynchronousEntry`, `MCGeneratedCodeCache` | constants for TLC |

`CacheDirectory` extends the five library modules and instantiates
`EditedBodies`; `SimpleIndexFile` instantiates `IndexRegister`;
`SimpleSynchronousEntry` extends `EntryLayout` and `EntryFile`, `SparseFile`
only the latter. The backend, the index, the index file and the entries are
modelled apart, each with the others as it uses them; what they ask of each
other is named below.

**Data.** Bytes are opaque values. Compression is a function with an inverse; a
checksum is represented by what it was computed from, so two checksums agree
exactly when the data do; an entry hash is an injective function of the key. A
pickle in stream 0 is a record of the lengths the code computes with, since the
arithmetic on them (digits of content-length, alignment to four) is a place
where the code could go wrong. Sizes in `SimpleIndex` are in its own unit,
blocks of 256 bytes.

**CacheDirectory.** `indexFile` and `file` are the directory. For a caller `c`,
`index[c]` is the index it has read and chained its edits on, `loaded[c]` the
entry file it holds, `results[c]` the `ModifyResult`s not written yet. The
caller is the one section 3 of the repository's README.md describes: it edits the
directory in place. (`LibraryTest.main` reads and chains in the same way, but writes
its copy of the files to a separate directory, where nothing of this can go wrong.)
Its actions are `ReadIndex`, `ReadEntry`, `Modify` (all of
`modify()`: parse, re-encode, patch, serialize, put, recompute), `WriteEntry`,
`WriteIndex`. `CrashInWrite` leaves a truncated file, `Abandon` is a death
between steps or an exception. `SyncRestoreFromDisk` is what Chromium does with
an index it cannot load. The library knows an entry by its `<hash>_0` alone;
Chromium's sizes count its other files as well (`OtherBytes`): their sum is rounded
up to blocks while the entry is used, each file by itself when the directory is
scanned (`sizeInUse`, `sizeScanned`). The clock starts at 1, as 0 is the time of a
record that a scan made.

Four history variables say what the properties compare the directory with:
`body` and `editedAt` are the plain body and the time of the last write to each
entry file; `torn` is the set of entries `indexFile` does not know the last
write of, and `behind[c]` the same for the index in caller `c`'s hands. A write
of an entry puts it in `torn` and in every other caller's `behind`; writing the
index leaves in `torn` what its writer was behind about. So
`IndexDescribesFiles` and `IndexKeepsEntries` hold with any number of callers
and crashes, and say exactly which records overlapping callers may get wrong:
those written by a caller whose index is not the one on disk.

`EditedBodies` sees only two things: `restored`, what `restore()` would return
for each entry, and `pending`, the edits asked for and not yet written. An edit
is requested, applied, lost with the body it was replacing, or withdrawn.

**SimpleIndex.** Each public method is one action, with the eviction it may
start inside it. `LoadIndexEntries` is the worker's step; `MergeInitializingSet`
its reply, which writes the index at once if the load asks for it (`flush`) and
otherwise leaves what was merged unwritten. `UpdateEntrySize` turns down sizes beyond
`MaxEntrySize`, which a record has no bits for. Tasks for `ExecuteWhenReady` go
through `toRun` and `posted`. `last`, `ran`, `saved` and `unwritten` are history
variables: the last is what a merge that did not flush left in memory, the one state
in which the index may differ from the disk with no timer running.

**SimpleIndexFile.** Many lives of a cache. `files` and `dirMtime` are the
directory, `indexFile` and `tempFile` the two files in `index-dir`; `known`,
`removed` and `timer` are what `SimpleIndex` keeps about membership (its sizes
and times are left to the other module); `operations[h]` is what workers still
have to do to the files of entry `h`, `writes` the sets posted to the cache
runner. Writing is three steps, `SerializeFinalData` (stamp and open),
`WritePickleFile` and `ReplaceFile`, each of which may fail (`WriteFails`) or be
cut off (`Crash`). Loading is `LoadFresh`, or `LoadStale` and then one
`ProcessEntryFile` per entry while files change, ended by `RestoreDone`, early
if the enumerator has an error. `ChangeOtherFiles` stands for all other entries,
which matter only by touching the directory.

A trusted index may well miss an entry that has files, and the code accepts it.
History fields say exactly when: `missed`, what the life that wrote the index
could not know of (a partial scan, a file that could not be deleted, or what it
inherited); `raced`, what was created between serializing the set and stamping
it, or was doomed and not yet deleted when it was serialized; `sameTick`, what
was created in the tick of the stamp. `FreshIndexListsFiles` says there is no
fourth way, `OrderlyIndexListsFiles` that a life that ends in order leaves no
races behind.

**SimpleBackendImpl.** What lives on the main sequence is one record,
`backend`: `active` (the map of active entries), the entry objects with the
operations each has still to do, the closures that wait in the two tables
(`postDoom`, `postOpenByHash`), the barriers of the dooms of many entries, the
index's set of hashes, and the requests with their answers. It is one record
because the handlers run lists of closures, each of which may do all that a
request does: they are operators from record to record, and a list is a fold.
`disk` is what lies under each hash. `Request` is any public operation on a key,
on all entries, on what an iterator finds, or on an entry a caller holds;
`CloseEntry` drops a reference; `Execute` is a worker doing the operation at
the front of an entry object, with its reply; `DoomEntriesComplete` is the reply
to a deletion of files of entries that were not active. Three parts are not in
the repository and are modelled as the backend uses them: the waiter table,
`SimpleEntryImpl` (one queue of operations per object), and the callers, who
create only what the index does not list. A CHECK or DCHECK that does not hold
adds its name to `failedChecks` and the model goes on.

One assumption on `SimpleEntryImpl` carries weight. An entry that was opened by
hash and could not be opened is off the map, as if doomed, when
`OnEntryOpenedFromHash` is run (`Lost`). The backend relies on it: the comment in
`OpenEntryFromHash` says that the open under way will take care of the queue,
and `CHECK(post_operation)` in `CreateOrFindActiveOrDoomedEntry` takes for granted
that an entry on the map whose key is not known is still being opened. If the
entry were still on the map while the waiting requests are run again, that CHECK
would fail, with five requests or more.

Three properties speak of the answers that were there when a request was made
(`before`), not of the order of the requests. `DoomedIsNotServed` and
`UndoomedIsFound` count a doom against an entry only if it could have met it: an
entry whose creator was answered before the doom was asked for, a doom that was
not yet answered when the creator asked. `RemovesOnlyOlder` likewise says that
what is removed was removed for a request that was still open when the entry was
asked for, or came later. From five requests on, a request that had to wait may
create after a later one was served, so that the order of requests alone says
nothing.

**SimpleSynchronousEntry.** `disk` holds the two names of a hash, `entry` the open
entry with its files, sizes, stream 0 and pending checksums, `answer` what the last
operation answered. A file is a sequence of cells: a header with its key, a byte, a
SHA-256, an EOF record with what it was computed from; so the records are one cell
long and the lengths of keys do not matter. An operation is the list of file calls
that the code makes, in its order; with `"io"` any of them may fail and the code's
error path is taken. Not every error path is a failure of the operation: an open
that cannot read the record of stream 2 (or the size of its file) succeeds without
that stream and removes `<hash>_1` (`unread`); from then on the entry is one without
stream 2, which is what `content` says. With `"crash"` the list may be cut off
before any call, with `"partial"` a deletion may leave one of its files. A prefetch
reads the end of the file if it is short enough, and so changes which checks are
made and when. The ghosts say what to compare with: `content` is what the user's
streams hold, `lawful` all they have ever held since the creation, and `damaged`
that a failure or a crash came between.

**SparseFile.** `disk`, `others` (whether the other files of the hash open) and
`entry` are the state; `content`, `lawful` and `damaged` are ghosts as above. A
range is a header of two cells and its bytes; `WriteSparseData` is the plan of calls
that the code makes for the ranges the write meets: overwrite part of one, all of
one, or append. With `"short"` an append writes less than asked, and is not told so;
the data is cut by one byte, which is enough to make the file disagree with the
header, and the header itself is written whole or not at all. A close that fails to
close the file dooms the entry. Reads and `GetAvailableRange` change nothing and are
operators; the properties ask for all of them in every state.

**CodeCache.** Neither side marks the layout of an entry. `decode` infers it
from the lengths of the two streams, Chromium from the size in the header. Both
are written out, with the writer of each, over data of every length; a first
stream is its header, if it is long enough to have one, and a tail. The module
has no state and is there to be proved about.

**GeneratedCodeCache.** `queue[k]` is `active_entries_map_[k]`; its front moves
through the stages opening, small and large as callbacks arrive. A call issues
an operation it brings to the front at once, so no other step is possible while
a front is still `queued` (`Settled`). `disk` is the backend: entries may fail
to open, fail to transfer, or be evicted, as `Faults` says. An open for a write makes
an entry with two empty streams; each of the two writes that follow may fail on its
own, and leaves its stream as it was, cut, or written all the same
(`WriteData`); only when both callbacks are in is the entry doomed if either failed
(`WriteBufferComplete`). A write may have no data: it is then stored inline, and
remembered in memory like any other. It is rejected if the backend failed or the
data is too large, and also, after it was remembered, if its copy for hashing comes
out shorter (`"copy"`). Merged data that is there already is told by its size, as the
code does. `lru` is the in-memory cache, whose own evictions are external.

## 3. What TLC checks

| Run | Instance | Question | Properties |
|---|---|---|---|
| `directory_single` | one caller, entries of every kind, one with a second file, batches of two, two times | is everything right with one caller and crashes? | `TypeOK`, `WrittenBodyRestored`, `StoredMetadataConsistent`, `IndexDescribesFiles` |
| `directory_shared` | two callers (symmetric), two files, one edit per batch | what survives if callers overlap? | `IndexDescribesFiles`, `IndexKeepsEntries`, `EditsAsRequested` |
| `index_load` | two entries, one on disk, one task, sizes 1, 3 and 4, the last too large to be recorded, a limit of 4 | load, merge, write and eviction order in a code cache | `TypeOK`, `NoResurrection`, `HasIsExact`, `CacheSizeIsTotal`, `SavedOrScheduled`, `EvictsLeastRecentlyUsed`, `CallbacksEventuallyRun` |
| `index_evict` | two entries with and without priority, two limits | eviction in an HTTP cache | `EvictsStaleAndBigFirst`, `EvictionKeepsUp` |
| `index_file` | one entry and the rest, three ticks, two posted writes, two operations per entry | what may a trusted index file miss, after any number of lives? | `IndexKnowsFiles`, `FreshIndexListsFiles`, `OrderlyIndexListsFiles`, `IndexWrittenWhole` |
| `backend` | two keys of one hash or of two, three requests of every kind, optimistic and not, failing dooms | are requests kept in order around dooms and opens by hash? | `TypeOK`, `ChecksHold`, `DoomedIsNotServed`, `UndoomedIsFound`, `IdleIsClean`, `RemovesOnlyOlder`, `EveryRequestAnswered` |
| `entry_io` | two keys of one hash, streams of two bytes, two writes, three opens, prefetching or not, failing calls and crashes | are the files of an entry right whatever happens between two calls? | `SoundEntryWorks`, `ReadsReturnWritten`, `ChecksumsTellDamage`, `StreamsOfOneEntry`, `ClosedFileSizes` |
| `sparse` | offsets below three, a limit of two, three writes, three opens, failing and short writes and crashes | do ranges act as one array of bytes? | `SparseReadsReturnWritten`, `SparseChecksumsTellDamage`, `RangesMatchFile` |
| `code_ops` | two symmetric resources; empty, dedicated, merged and too large data; four calls on one resource with one blob, else three, on both resources with merged code | does the queue keep order through every failure? | `CallbackExactlyOnce`, `FetchIsFresh`, `DiskMatchesLastRequest` |
| `code_memory` | one resource, dedicated and merged code, three calls, in-memory cache on, forgetting included | is every fetch still answered? | `TypeOK`, `FetchEventuallyAnswered` |

**Bounds.** Two entries give `SimpleIndex` every relation of two entries at a
merge or an eviction (before and after, bigger and smaller, same and different
hint); operations on other entries commute with them. Sizes and limits are
chosen so that one insertion may reach the watermark and two must. In
`CacheDirectory` the files cover a compressed entry, an entry with an encoding
the library leaves alone, one without HTTP headers, a damaged and a missing
one, listed in the index or not; a batch of two is the smallest that chains;
body lengths are chosen so that content-length changes its number of digits, the
header block crosses a 4-byte boundary (it ends at 123, 124 or 125, for one, two and
three digits) and the file its number of blocks. In `SimpleIndexFile` every
property is about one entry at a time, and another entry can only change the
directory's time, so one is enough; three ticks order a write, a change before
and a change after it, two posted writes overlap and two operations re-create an
entry that is being doomed. Two callers who each read, edit, write and write
the index, any number of times, meet in every way two can; their batches of one
edit keep the instance small, chaining being the other run's subject. Four calls
give `GeneratedCodeCache` a write, a write or delete to race it, a fetch, and
one more; with merged code these are up to eight operations on two queues. Three
calls on two resources are the fewest with which one may write, and the other
fetch or delete, what both share.

Three requests give the backend an entry, its doom and one request that meets both;
two keys of one hash are needed for an open by hash to find the other key, and two
hashes for a doom of many to find one entry active and one not. There is no bound on
the entry objects. In `SimpleSynchronousEntry` two writes of up to two bytes are
enough to extend a stream, to shorten it, to leave a gap and to move what lies
behind it; three opens give a file a past, a life in which it breaks and one in
which that is noticed. In `SparseFile` three writes below offset three meet a range
at its start, at its end, inside, across two and across a gap; with the limit at two
the third may overflow it. The instance with offsets below four, a limit of three
and two opens passes as well.

Only `MaxBatch`, `MaxClock`, `MaxNow`, `MaxRequests`, `MaxWrites`, `MaxOperations`,
`MaxStreamSize`, `MaxOffset` and `MaxOpens` are bounds the code does not have;
`MaxSparseData` is the code's own. `FewCalls` in `MCGeneratedCodeCache` makes of the
one bound `MaxRequests` four calls on one resource with one blob or three with any,
and three on two resources that write merged code. Deadlock is not checked where the
calls are bounded or the owner may destroy the object: there a model that stops has
simply nothing left to do.

**Fairness.** `SimpleIndex` assumes that the load worker finishes, its reply is
delivered, and posted tasks run; nothing makes clients call or timers fire.
`GeneratedCodeCache` assumes that the backend's start ends (well or not), that
pending operations are issued, and that the step or callback a queue's front
waits for comes. `SimpleBackendImpl` assumes that work that is posted to the
workers and to the main sequence is run, one piece or another
(`[]<>Idle \/ []<><<Work>>_vars`, weak fairness of `Work`, which is enabled
exactly when the backend is not idle); callers need neither ask nor close. All
of these are tasks the process has already posted or I/O
it has started; failures remain possible at every one.

**Disagreements found** (runs expected to end in a violation):

* `entry_mixed`: a file of stream 2 that a deletion could not remove is opened
  with the next entry of its key, and serves the old one's stream 2.
* `code_doom`: a delete issued when the backend has failed to start dooms
  through a null backend.

Others were met while modelling. They follow from one line each and have no run:

* One entry file that does not parse makes `restore()` throw, though it
  "restores every live entry listed in the index" (`IndexDescribesFiles` excepts
  directories with such a file).
* Changes made before a load that does not ask for a flush wait, with no timer,
  for the next change (`SavedOrScheduled` allows for just that state).
* `UseIfExists` before the load does not record the use of an entry that only
  the disk knows, though its comment says it will be merged.
* With the in-memory code cache on, a fetch in flight brings deleted code back;
  `FetchIsFresh` is stated for the disk and checked without that cache.
* A doom does not rename a sparse file that is not open, and later entries find
  it; the properties of `SparseFile` except those entries.
* `decode` calls an entry without data `EMPTY`, whereas the class comment has
  small data inline.

## 4. What is proved

| Theorem | For every | Statement |
|---|---|---|
| `SimpleIndexProofs!RemovedStaysRemoved` | set of entries, sizes, limits, heuristics | `Spec => []NoResurrection` |
| `SimpleIndexProofs!HasExact` | same | `Spec => []HasIsExact` |
| `SimpleIndexProofs!IndexTypeOK` | finite set of entries, sizes, limits, heuristics | `Spec => []TypeOK` |
| `SimpleIndexProofs!CacheSizeExact` | same | `Spec => []CacheSizeIsTotal` |
| `SimpleIndexProofs!ChangesReachTheDisk` | same | `Spec => []SavedOrScheduled` |
| `SimpleIndexProofs!EvictionKeepsUpWithGrowth` | same | `Spec => EvictionKeepsUp` |
| `SimpleIndexProofs!EvictionIsLRU` | same | `Spec => EvictsLeastRecentlyUsed` |
| `SimpleIndexProofs!EvictionTakesStaleAndBig` | same, if entries have an overhead and no use is later than now | `Spec => EvictsStaleAndBigFirst` |
| `CacheDirectoryProofs!DirectoryTyped` | callers, entries, bodies, batch size | `Spec => []TypeOK` |
| `CacheDirectoryProofs!WrittenRestored` | same | `Spec => []WrittenBodyRestored` |
| `CacheDirectoryProofs!StoredDescribed` | same, if the initial files' lengths agree | `Spec => []StoredMetadataConsistent` |
| `CacheDirectoryProofs!DirectoryImplementsEditedBodies` | same | `Spec => EditsAsRequested` |
| `CacheDirectoryProofs!IndexDescribes` | same | `Spec => []IndexDescribesFiles` |
| `CacheDirectoryProofs!RewrittenIndexKeeps` | same | `Spec => IndexKeepsEntries` |
| `SimpleIndexFileProofs!IndexKnows` | set of entries, number of lives, of posted writes and of operations, file times | `Spec => []IndexKnowsFiles` |
| `SimpleIndexFileProofs!FreshIndexLists` | same | `Spec => []FreshIndexListsFiles` |
| `SimpleIndexFileProofs!OrderlyIndexLists` | same | `Spec => []OrderlyIndexListsFiles` |
| `SimpleIndexFileProofs!IndexImplementsRegister` | same | `Spec => IndexWrittenWhole` |
| `SimpleBackendImplProofs!ChecksAlwaysHold` | keys, finite set of hashes, hash function, kinds of requests and their number, optimistic or not, failing dooms or not | `Spec => []ChecksHold` |
| `SimpleBackendImplProofs!BackendIsTyped` | same | `Spec => []TypeOK` |
| `SimpleBackendImplProofs!IdleWaitsForNothing` | same | `Spec => [](Idle => NothingWaits)` |
| `GeneratedCodeCacheProofs!CodeCacheTypeOK` | resources, data, layouts, failures, number of calls | `Spec => []TypeOK` |
| `GeneratedCodeCacheProofs!AnsweredExactlyOnce` | same | `Spec => []CallbackExactlyOnce` |
| `GeneratedCodeCacheProofs!FetchesAreFresh` | same, without the in-memory cache | `Spec => []FetchIsFresh` |
| `GeneratedCodeCacheProofs!DiskIsLastRequest` | same | `Spec => []DiskMatchesLastRequest` |
| `SimpleSynchronousEntryProofs!FilesAreOwned` | keys, sizes of streams and prefetches, number of writes and opens, failures but for deletions in part | `Spec => []OwnerInv` |
| `SimpleSynchronousEntryProofs!EntryHasItsOwnFiles` | same | `Spec => []StreamsOfOneEntry` |
| `SimpleSynchronousEntryProofs!SoundEntriesWork` | same | `Spec => []SoundEntryWorks` |
| `SimpleSynchronousEntryProofs!ReadsAreOfWhatWasWritten` | same | `Spec => []ReadsReturnWritten` |
| `SimpleSynchronousEntryProofs!ChecksumsAreOfWhatWasWritten` | same | `Spec => []ChecksumsTellDamage` |
| `SimpleSynchronousEntryProofs!ClosedFilesHaveTheirSizes` | same | `Spec => []ClosedFileSizes` |
| `SparseFileProofs!SparseFileIsSound` | offsets, limit, number of writes and opens, failures, short writes and crashes in any call | `Spec => []Inv` |
| `SparseFileProofs!SparseReadsAreOfWhatWasWritten` | same | `Spec => []SparseReadsReturnWritten` |
| `SparseFileProofs!SparseChecksumsAreOfOneWrite` | same | `Spec => []SparseChecksumsTellDamage` |
| `SparseFileProofs!RangesInMemoryAreInTheFile` | same | `Spec => []RangesMatchFile` |
| `CodeCacheProofs!DecodeReadsWritten` | data of every length, merging or not | `decode` finds the layout, the time and the data in what Chromium or `build` writes |
| `CodeCacheProofs!ChromiumReadsBuilt` | data of every length | what `build` makes has a valid header, fails no CHECK, and a fetch finds the data |

The assumptions are the named ones of the modules: there are finitely many
entries (a directory is finite; the totals need it), compression is undone by
decompression, hashes of keys are hashes and files lie under the hash of their
key, `NoEntry` and `None` are no entries, and (`IndexFileAssumption`) `NoTime`
is not a time and an absent file is not a corrupt one. `SnapshotAssumption` says
that neither is a snapshot. `BackendAssumption` has finitely many hashes (they
are 64 bits long) and values for no key, file, queue and object that are none of
these. The theorems about code cache payloads assume of the
checksum only that it is 64 characters long.

*The index.* Before the merge the index knows only what was done to it, after
it also what was on disk, so neither property is inductive. `IndexInv` adds:
before the merge a live entry was inserted and a removed one is in
`removedEntries` (`BeforeMerge`); the worker's result is exact if complete, and
lists only what the disk has otherwise (`LoadIsExact`); after the merge the
maps agree (`AfterMerge`). The merge is the one step that needs all three.

*The directory.* A written file is right because the edit it came from was,
possibly many steps earlier and by another caller. `DirectoryInv` therefore says
of every edit still in some `results[c]` what `WrittenBodyRestored` says of
files: `Sound(e, b)`, that the file parses without warnings to body `b`. Such an
edit is made by `modifyEntryBody`, where the lemma `ModifySound` rests on
`ZipAssumption` and on `serialize` recomputing every checksum. `StoredDescribed`
adds the arithmetic of `patchContentLength` and `align4`. The refinement maps
`Modify` to `Request`, `WriteEntry` to `Apply`, a crash in the write of an entry
to `Lose`, and the steps that end a batch to `Withdraw`; what each does to
`pendingEdits`, a union over the callers, is the lemma `OneCallerChanges`.

*The sizes of the index.* The total is a fold over a set. Claims about every
total are proved without induction over operators, from a smallest set that the
claim fails for: strict inclusion is well founded on the subsets of a finite set
(`SmallestSubset`), from which follow that the totals exist, agree, and change by
what is put in or dropped (`TotalPut`, `TotalDrop`). `SizeInv` is `IndexInv`, the
types, and `CacheSizeIsTotal`. `EvictionTakesStaleAndBig` has two
hypotheses. `EstimatedEntryOverhead # 0` is 512 in the code: without it an empty
entry has sort value 0 whatever its age. `ClockNotSetBack`, carried along by
`TimesPast`, says that nothing was used in the future; else the code's unsigned
difference wraps.

*The index of the directory.* A caller's index is ahead of the files by the edits
it has not written, and behind by what others wrote since it was read. So what
`IndexDescribesFiles` says of the file on disk is, of an index in somebody's
hands, true only in part: `Accounts` says that the record of an entry with edits
to write describes the last of them, and any other the file, unless it is one
somebody else wrote. For `IndexKeepsEntries` every index must know of a file
that any index lists, or be behind on it (`IndexesAgree`): writing one index over
another then loses nothing its writer was not behind on.

*The index file.* `FreshIndexListsFiles` speaks of a file that was serialized
earlier, maybe in another life, from a set that was itself loaded from such a
file; `IndexKnowsFiles` of that set. Neither is inductive without the other.
`IndexInv` therefore has, besides `Types` and `Phases` (which variables go with
which stage of the backend), `SnapshotsCover`: every snapshot that may still be
stamped, is in the temporary file or is the index file accounts for every entry
that has files, by listing it or by one of the three history fields; and
`MemoryInv`: an entry whose last operation under way is a create is in the index
(`CreatedIsKnown`), one that was removed and still has files is being doomed or
otherwise accounted for (`RemovedIsKnown`), and a load under way finds or will
find what memory does not have (`LoadFinds`). `OrderlyIndexLists` adds
`OrderlyInv`, about the last snapshot of a life that ends in order: an entry it
left loose has a deletion among its operations, so when all is idle its files
are gone. The refinement maps the file to `contents` and the queue of sets to
`posted`; posting, replacing and dropping a set are the steps of
`IndexRegister`.

*The backend.* A handler is a chain of small changes of one record, and the end of
an operation runs a list of closures, each of which may do all that a request
does, start the same operation again included. An invariant of the states
between two actions is not enough for that: the proof needs one of the states
between two closures. `BackendInv(b, owed, told)` is such an invariant:
`owed` are the hashes of a doom of many that is over and whose queues are still
to be run, `told` is the entry, if any, that is about to hear that the doom before
it is over. Between actions they are `{}` and `0`.

Its parts are about a few fields each, and a change of the other fields leaves a
part alone. Of a single entry `Sound` says which of its flags go together: it is
opened by hash only first and only while its key is not known; it has told the
backend of its doom (`waited`) only if it is doomed and the doom is still in its
queue. `OnMap` says that the map of active entries and the entries that are not
doomed are the same. What is under way and what waits for it must match: a doom that
an entry or a deletion of many has under way has a queue (`DoomsWaited`), no two
have the same (`OneDoom`), no queue is without a doom (`SomeDoom`), and likewise for
opens by hash (`OpensUnderWay`). An entry created ahead of a doom is the first in
that doom's queue (`Notified`) and the only one that can be on the map meanwhile
(`BehindDoom`). Of what waits, `Queues` says that it is about the hash it waits for:
a request is run again where it belongs, so that it can only wait in the queues of
its own hash.

The lemmas follow the operators: what `EntryDoom`, `AddEntry`, `Settled`
and the others keep, then the requests, then one closure, and from that every
list of closures by counting along it (`QueueKeeps`). A doom of
many is a fold over a set, which is unfolded into a function on the subsets of
the set and followed from the empty set up (`CompleteDoomsKeeps`).
`ChecksHold` is a conjunct of `BackendInv`, and every conjunct is needed for it:
the CHECKs are about the very agreement of map, dooms and queues.
`IdleWaitsForNothing` is the part of `IdleIsClean` that rules out a deadlock: with
nothing left to run there is no doom and no open by hash, so no queue, so no
entry behind a doom, so no operation that could not be run. That
every wait ends is then a matter of fairness (`EveryRequestAnswered`, by TLC).

*Code cache payloads.* The layouts overlap only if a length can be read as
another's: 12 bytes and the data, a header alone, or a header and 64
characters. The proofs go by the layout written and show that every earlier
test of `KindOf` fails for it, at 0, 4096 and 16384 bytes included.

*The code cache.* An operation is found in `pending_ops_` or in some queue, at a
place; the invariant speaks of all places at once. `Stages` says that only fronts
are worked on; `OpsSound` what each operation knows, per type: a fetch of merged
data waits under the checksum of what was written to its own resource. `InOrder`
says that operations on a resource wait in the order of their calls, be it in
`pending_ops_` or in its queue. From these the order that matters is in two parts:
`DiskSound`, what is on disk was asked for and everything asked after it is still to
come, and `NothingOvertakes`, the same of every operation waiting. `DiskSound` can
say so only of entries that no write is at work on (`Writing`): between the two
writes the disk holds one stream of a new request and one of an old. What is known
then is that the first write, if it did not fail, is still there, or the entry was
evicted (`WriteLanded`): nothing else may have written that key meanwhile. So when
the second is done either both are in place or the entry is doomed, and the key is
again one nobody writes. `CallbackExactlyOnce` needs `CallbacksDistinct`, since the
place at which a callback waits changes with its operation. `FetchesAreFresh`
assumes `~InMemoryCodeCache`; with that cache the property is false, as section 3
says.

*The entry's files.* Whatever an operation does to the files is a list of calls
of which any first part may be all that happens. `After` is a fold, so what holds
after every first part is proved by counting up along the list (`AfterFirst`,
`CountUp`), from a law that each call obeys: it writes behind the header, only
bytes, records with a size and the SHA-256 of the entry's own key
(`PlainCalls`), or first creates a file and writes its header
(`CreatingCalls`). `OwnerInv` says of an open entry that its files
have its header and its names are its own (`NamesOK`), and of the directory
between two opens that one entry owns all of it: a first file with no header has
no second file beside it. An open that knows only the hash takes the key from the
header; one that knows the key compares it with the header or with the SHA-256 at
the end, and `ValidTail` says that either is that of the header. The
theorems have two hypotheses. `AllOrNone` excludes deletions in part:
`EntryMixed` shows what they lead to. `Distinct` says that the values that stand
for no file, a file in use and no entry are none of the files and entries.
`FilesAreOwned` is stronger than what TLC checks of the same kind: it covers the
second file before it is first used.

*The entry's streams.* What a read returns was decided by writes, cuts and closes
long before, with crashes in between, and the sizes of streams 0 and 1 are not in
the files: an open computes them from the file's length and the record at its
end. `StreamsInv`, which stands on `OwnerInv`, has three parts. Of the files at
any time, even torn ones, `SoundFiles` says that every record that is in them,
wherever it is, has the checksum of a stream the user had written, and
`TailUnique` and `TailBehind` that at most one is of stream 0, behind every other and
behind the record of stream 1: after a crash an open can take nothing else for
the file's end. From these alone follows `ChecksumsTellDamage`. Of an open entry that
has not failed, `StreamsHeld` says that each stream is in its file at its offset, `CrcsOK`
that a checksum under way is of the first bytes of its stream, and
`UnwrittenExact` that what was not written since the open is still as the last
close left it, record included, which is why a close may leave it alone. An open
that does not read stream 2 opens what a directory without the second file would
(`UnreadIsDropped`), and such a directory is as sound as it was with it, of a content
without stream 2 (`DroppedIsOwned`, `DroppedIsOK`). Of the
files of an entry that was always closed in order, `Exact` says where each
stream, the SHA-256 and each record is, from which `ExactOpens` follows: the
checks of an open all succeed. A write is the hard step: what it cuts must be
the records only, and the part of stream 1 or 2 that it does not cover must
survive cutting, writing and cutting again (`WriteCalls`), also when only some of
these calls were made. `CloseStates` follows the three lists of calls of a close
from `Closing` through `Stream0Closed` and `Stream1Closed` to `Exact`, or to any
first part of them. The hypotheses are `AllOrNone` and `Distinct` again.

*The sparse file.* Where a range is in the file was decided by all the writes that
came before it, and a scan finds it again only by adding up the lengths in the
headers. The invariant (`Inv`, of one `Core`) has four grades. `Sound` holds of a
file at any time, torn in the middle of a write included: the ranges are of
different bytes (`Disjoint`) and at different places (`Placed`), and an extent in
the file is where a range begins, with that range's length, or is the last cell of
one that was cut short (`Marked`). So a scan that lands anywhere but on a range
fails, and one that succeeds has found some of the ranges, whole (`ScanFinds`,
`ScanKeeps`). `Whole` holds between two calls; `Exact`, that range follows range up
to the end, while no append was short; `Holds`, that the ranges hold the user's
bytes and no others, while there was no damage. A checksum is of bytes of one write
or is empty in every grade (`LawfulCrc`), which is all that
`SparseChecksumsAreOfOneWrite` needs.

`WritePlan`, reads and queries are folds over the ranges from an offset on. As for
the other folds there is no induction over operators: a fold is turned into a
function of how far it has got (`FoldUnfolds`) and followed by counting up. A read
has at each place taken the content up to there (`ReadGoesOn`), a query counted it
(`CountGoesOn`), a scan taken ranges up to its tail (`ScanGoesOn`). A plan is a
list of calls and what memory will be after them; `PlanKept` says of it that the
file then matches memory, and that a file torn at any of its calls is `Sound` (or,
as the model of the next open has it, `Soundable`). Appending and overwriting keep
this (`AppendPlan`, `RewritePlan`), so the whole plan does (`PlanIs`), and the
content is overlaid with what was written (`Overlay`). The one hypothesis,
`Distinct`, says that `Missing` and `Linked` are no files and `Closed` no entry.

*Only model-checked:* of `SimpleBackendImpl`, what relates the answers of
different requests (`DoomedIsNotServed`, `UndoomedIsFound`, `RemovesOnlyOlder`) and
what else is clean when it is idle (one answer for each request, the index and the
disk agree: the rest of `IdleIsClean`); and everything under fairness, which the
proof system does not treat (`CallbacksEventuallyRun`, `FetchEventuallyAnswered`,
`EveryRequestAnswered`).

## 5. What is not modelled

* Byte layouts, hashes and bit mixing (`SimpleCacheFormat.java`, `hash.cc`,
  `superfasthash.c`, `simple_util.cc`): represented by injective functions.
* Histograms, traces and `CollectStatistics`: no effect on state.
* APP_CACHE mode of the index: a different eviction and trailer sizes, not used by
  the caches this tool reads.
* In `SimpleBackendImpl`: limits and priorities, size queries, callbacks that a
  destroyed backend no longer runs, and requests before the index is loaded
  (`SimpleIndex` has the load). The tasks that `OpenNextEntry` and `DoomAllEntries`
  post to wait for the index, and the iterator's continuation, run in the step that
  posts them. Of the CHECKs and DCHECKs those on the map of active entries and the
  two tables are modelled; those of lines 102 (the count of a barrier), 333 (a doom
  under way answers later) and those about keys and arguments are not, and line 189
  is checked where a doom takes an entry off the map. `SimpleEntryImpl`, the waiter
  table and the file operations under `EntryFile` are not in the repository and are
  external.
* In the entry's files: `TruncateEntryFiles`, the limit on open files, the 64-bit
  overflow checks of sparse sizes, an open-or-create of a sparse file, and a sparse
  range whose header is itself written short.
* In `CodeCache`: the strings of keys (`cacheKey`, `urlFromKey`), `buildSimple`,
  which fills in fields, and sizes of 2^31 and more in foreign headers.
* `LibraryTest`, which works on a copy of the directory, and the fake `index` file,
  whose 24 bytes never change.
* In `SimpleIndexFile`: creations that fail (they leave an index entry without
  files, until it is opened), a load of an earlier backend that ends after its
  shutdown (it can only delete an index), and a backend whose directory cannot be
  set up.
* The 32-bit wrap of times in the eviction order when the clock is set back.
* Build scripts and empty files.

## 6. Plan

1. Compositions: an edited merged entry met by the code cache, whose second
   read may then never be completed; an edit by the library followed by
   Chromium's load of the index, by its time stamp.
2. A clock that is set back in the eviction order of `SimpleIndex`.
3. An abstract specification of the backend (operations on one key behave as if
   done one after the other) and `SimpleBackendImpl` as its refinement.
4. Proofs that every request of the backend is answered once and that index and disk
   agree when it is idle, from `BackendInv` and where each request is.
