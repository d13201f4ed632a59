-------------------------- MODULE GeneratedCodeCache --------------------------
(***************************************************************************)
(* Chromium's code cache (generated_code_cache.cc).  Requests made before  *)
(* the disk backend is up wait in pending_ops_; afterwards each key has a  *)
(* queue whose front alone is worked on.  Big data is stored once, under   *)
(* its checksum, by a second operation on a second key.  A small in-memory *)
(* cache is kept beside the disk.                                          *)
(*                                                                         *)
(* Everything runs on one sequence.  A call issues the operation it brings *)
(* to the front of a queue before anything else happens: while some front  *)
(* is not issued, only Issue steps are possible (Settled).                 *)
(***************************************************************************)
EXTENDS Integers, FiniteSets, Sequences, SequencesExt

CONSTANTS
  Resources,        \* cache keys of <resource url, origin lock>
  Data,             \* the buffers that are written; Empty may be one of them
  Empty,            \* an empty buffer: no code, a miss, or a stream with no data
  Size(_),          \* the bytes of a buffer
  InlineDataLimit,  \* kInlineDataLimit
  DedicatedDataLimit,  \* kDedicatedDataLimit
  MaxDataSize,      \* std::numeric_limits<int32_t>::max()
  Deduplicates,     \* IsDeduplicationEnabled()
  Checksum(_),      \* hex SHA-256 of a blob, the key its merged entry is under
  None,             \* absent
  JavaScript,       \* cache_type_ = kJavaScript, which has the in-memory cache
  InMemoryCodeCache,  \* the feature of that name: fetches consult that cache
  Faults,           \* what may go wrong: see CodeCacheAssumption
  MaxRequests       \* bound: calls of the public methods

Checksums == { Checksum(d) : d \in Data }
Keys == Resources \cup Checksums

ASSUME CodeCacheAssumption ==
  /\ Size(Empty) = 0 /\ \A d \in Data : Size(d) \in Nat
  /\ {InlineDataLimit, DedicatedDataLimit, MaxDataSize} \subseteq Nat
  /\ \A c, d \in Data : Checksum(c) = Checksum(d) => c = d
  /\ Empty \notin Checksums /\ None \notin Data \cup Keys \cup {Empty}
  /\ Resources \cap Checksums = {} /\ Data \cap Checksums = {}
  /\ {Deduplicates, JavaScript, InMemoryCodeCache} \subseteq BOOLEAN
  \* The backend does not come up; an open, a read or a write fails; an entry is
  \* evicted from the disk or from memory; shared memory cannot be copied.
  /\ Faults \subseteq {"create", "open", "transfer", "evict", "forget", "copy"}
  /\ MaxRequests \in Nat

VARIABLES
  backendState,   \* backend_state_
  pendingOps,     \* pending_ops_
  queue,          \* active_entries_map_: queue[k], <<>> when k has none
  lru,            \* lru_cache_: lru[k] = [time, data] or None
  disk,           \* the backend's entries: disk[k] = [small, large] or None
  crashed,        \* backend_ was dereferenced while null
  log,            \* history: the calls made; a call's position is its time
  answers         \* history: answers[c], what the callback of call c was run with

vars == <<backendState, pendingOps, queue, lru, disk, crashed, log, answers>>

Calls == 1 .. MaxRequests

\* An operation.  `callback` is the call it must answer, 0 when there is none;
\* `stage` tells how far it has come; `small` and `large` are its buffers.
NewOp(type, key) ==
  [type |-> type, key |-> key, stage |-> "queued", callback |-> 0, time |-> 0,
   small |-> Empty, large |-> Empty, succeeded |-> TRUE]

\* A response time with the data, or with the checksum that stands for it.
Stamped(time, data) == [time |-> time, data |-> data]

front(k) == Head(queue[k])

StampType == [time : Calls, data : Data \cup Checksums \cup {Empty}]

Settled ==
  /\ ~crashed
  /\ \A k \in Keys : queue[k] # <<>> => front(k).stage # "queued"
  /\ backendState # "initializing" => pendingOps = <<>>

Init ==
  /\ backendState = "initializing"
  /\ pendingOps = <<>>
  /\ queue = [k \in Keys |-> <<>>]
  /\ lru = [k \in Keys |-> None]
  /\ disk = [k \in Keys |-> None]
  /\ crashed = FALSE
  /\ log = <<>>
  /\ answers = [c \in Calls |-> <<>>]

-----------------------------------------------------------------------------
\* Helpers shared by the operations.

\* EnqueueOperation, applied to a sequence of operations on different keys.
EnqueueOperations(ops) ==
  IF backendState # "initialized"
  THEN pendingOps' = pendingOps \o ops /\ UNCHANGED queue
  ELSE /\ queue' = [k \in Keys |-> IF \E op \in ToSet(ops) : op.key = k
                                   THEN Append(queue[k], CHOOSE op \in ToSet(ops) : op.key = k)
                                   ELSE queue[k]]
       /\ UNCHANGED pendingOps

\* DequeueOperation of the front of k.
Dequeued(k) == [queue EXCEPT ![k] = Tail(@)]

\* The front of k becomes op.
Advance(k, op) == queue' = [queue EXCEPT ![k][1] = op]

\* Entries are doomed at once as far as later operations on the key can tell.
DoomEntry(k) == disk' = [disk EXCEPT ![k] = None]

Answer(call, time, data) ==
  answers' = [answers EXCEPT ![call] = Append(@, Stamped(time, data))]

\* Mutant of RunReadCallback: a miss is remembered like a hit.
RunReadCallbackPutsMiss(op, time, data) ==
  /\ Answer(op.callback, time, data)
  /\ lru' = IF JavaScript /\ lru[op.key] = None
            THEN [lru EXCEPT ![op.key] = Stamped(time, data)] ELSE lru

\* Answers the fetch, and remembers what was found if nothing is remembered yet.
RunReadCallback(op, time, data) ==
  /\ Answer(op.callback, time, data)
  /\ lru' = IF JavaScript /\ data # Empty /\ lru[op.key] = None
            THEN [lru EXCEPT ![op.key] = Stamped(time, data)]
            ELSE lru

\* Mutant of Miss: the callback is dropped.
MissSilently(op) == UNCHANGED <<answers, lru>>

Miss(op) == RunReadCallback(op, 0, Empty)

-----------------------------------------------------------------------------
\* The public methods.

Called(method, r, data) ==
  /\ Settled /\ Len(log) < MaxRequests
  /\ log' = Append(log, [method |-> method, resource |-> r, data |-> data])

ShouldDeduplicateEntry(size) == size > DedicatedDataLimit /\ Deduplicates

Layout(data) ==
  IF Size(data) <= InlineDataLimit THEN "inline"
  ELSE IF ShouldDeduplicateEntry(Size(data)) THEN "indirect" ELSE "dedicated"

\* The operations of the three layouts; the merged one writes the data under its
\* checksum first.
WriteOps(r, time, data) ==
  LET write == NewOp("write", r)
  IN  CASE Layout(data) = "inline" ->
             << [write EXCEPT !.small = Stamped(time, data)] >>
        [] Layout(data) = "dedicated" ->
             << [write EXCEPT !.small = Stamped(time, Empty), !.large = data] >>
        [] Layout(data) = "indirect" ->
             << [NewOp("writeWithSHAKey", Checksum(data)) EXCEPT !.large = data],
                [write EXCEPT !.small = Stamped(time, Checksum(data))] >>

\* Remembers the data at once, writes it later.  A write is not taken when there is
\* no backend, when the data is too large, or when shared memory could not be copied
\* whole; by then the data is remembered.
WriteEntry(r, data) ==
  LET refused == backendState = "failed" \/ Size(data) >= MaxDataSize
      Remember == lru' = IF JavaScript
                         THEN [lru EXCEPT ![r] = Stamped(Len(log'), data)] ELSE lru
  IN  /\ \/ /\ refused /\ Called("rejectedWrite", r, data)
            /\ UNCHANGED <<pendingOps, queue, lru>>
         \/ /\ ~refused /\ Called("write", r, data) /\ Remember
            /\ EnqueueOperations(WriteOps(r, Len(log'), data))
         \/ /\ ~refused /\ "copy" \in Faults /\ Layout(data) = "indirect"
            /\ Called("rejectedWrite", r, data) /\ Remember
            /\ UNCHANGED <<pendingOps, queue>>
      /\ UNCHANGED <<backendState, disk, crashed, answers>>

FetchEntry(r) ==
  /\ Called("fetch", r, Empty)
  /\ IF backendState = "failed"
     THEN Answer(Len(log'), 0, Empty) /\ UNCHANGED <<pendingOps, queue>>
     ELSE /\ EnqueueOperations(<< [NewOp("fetch", r) EXCEPT !.callback = Len(log')] >>)
          /\ UNCHANGED answers
  /\ UNCHANGED <<backendState, lru, disk, crashed>>

\* Forgets the data at once, dooms the entry later.  The time of a delete is history.
DeleteEntry(r) ==
  /\ Called("delete", r, Empty)
  /\ IF backendState = "failed"
     THEN UNCHANGED <<pendingOps, queue, lru>>
     ELSE /\ EnqueueOperations(<< [NewOp("delete", r) EXCEPT !.time = Len(log')] >>)
          /\ lru' = [lru EXCEPT ![r] = None]
  /\ UNCHANGED <<backendState, disk, crashed, answers>>

GetBackend ==
  /\ Called("getBackend", None, Empty)
  /\ IF backendState = "initializing"
     THEN /\ pendingOps' = Append(pendingOps,
                             [NewOp("getBackend", None) EXCEPT !.callback = Len(log')])
          /\ UNCHANGED answers
     ELSE Answer(Len(log'), 0, Empty) /\ UNCHANGED pendingOps
  /\ UNCHANGED <<backendState, queue, lru, disk, crashed>>

ClearInMemoryCache ==
  /\ Settled
  /\ lru' = [k \in Keys |-> None]
  /\ UNCHANGED <<backendState, pendingOps, queue, disk, crashed, log, answers>>

\* The in-memory cache drops an entry to make room for another (an external LRU
\* cache): which one is its own choice.
LruEvicts(k) ==
  /\ "forget" \in Faults /\ Settled /\ lru[k] # None
  /\ lru' = [lru EXCEPT ![k] = None]
  /\ UNCHANGED <<backendState, pendingOps, queue, disk, crashed, log, answers>>

\* The disk backend evicts an entry to stay under its size limit.
BackendEvicts(k) ==
  /\ "evict" \in Faults /\ Settled /\ disk[k] # None
  /\ DoomEntry(k)
  /\ UNCHANGED <<backendState, pendingOps, queue, lru, crashed, log, answers>>

-----------------------------------------------------------------------------
\* From pending_ops_ to the queues, and from a queue to the backend.

DidCreateBackend ==
  /\ backendState = "initializing"
  /\ \/ backendState' = "initialized"
     \/ "create" \in Faults /\ backendState' = "failed"
  /\ UNCHANGED <<pendingOps, queue, lru, disk, crashed, log, answers>>

\* One round of the loop in IssuePendingOperations; what it brings to the front of
\* a queue is issued before the next round.
IssuePendingOperation ==
  LET op == Head(pendingOps)
  IN  /\ ~crashed /\ backendState # "initializing" /\ pendingOps # <<>>
      /\ \A k \in Keys : queue[k] # <<>> => front(k).stage # "queued"
      /\ pendingOps' = Tail(pendingOps)
      /\ IF op.type = "getBackend"
         THEN Answer(op.callback, 0, Empty) /\ UNCHANGED queue
         ELSE queue' = [queue EXCEPT ![op.key] = Append(@, op)] /\ UNCHANGED answers
      /\ UNCHANGED <<backendState, lru, disk, crashed, log>>

Queued(k, types) ==
  /\ ~crashed /\ queue[k] # <<>>
  /\ front(k).stage = "queued" /\ front(k).type \in types

Open(k) ==
  /\ Advance(k, [front(k) EXCEPT !.stage = "opening"])
  /\ UNCHANGED <<lru, answers>>

FetchEntryImpl(k) ==
  /\ Queued(k, {"fetch", "fetchWithSHAKey"})
  /\ IF InMemoryCodeCache /\ lru[k] # None
     THEN RunReadCallback(front(k), lru[k].time, lru[k].data) /\ queue' = Dequeued(k)
     ELSE IF backendState # "initialized"
     THEN Miss(front(k)) /\ queue' = Dequeued(k)
     ELSE Open(k)
  /\ UNCHANGED <<backendState, pendingOps, disk, crashed, log>>

\* Mutant of WriteEntryImpl: with no backend it returns without closing the operation.
WriteEntryImplStuck(k) ==
  /\ Queued(k, {"write", "writeWithSHAKey"})
  /\ IF backendState # "initialized"
     THEN Advance(k, [front(k) EXCEPT !.stage = "failed"]) /\ UNCHANGED <<lru, answers>>
     ELSE Open(k)
  /\ UNCHANGED <<backendState, pendingOps, disk, crashed, log>>

WriteEntryImpl(k) ==
  /\ Queued(k, {"write", "writeWithSHAKey"})
  /\ IF backendState # "initialized"
     THEN queue' = Dequeued(k) /\ UNCHANGED <<lru, answers>>
     ELSE Open(k)
  /\ UNCHANGED <<backendState, pendingOps, disk, crashed, log>>

\* Mutant of DeleteEntryImpl: the operation is closed, the entry stays.
DeleteEntryImplKeeps(k) ==
  /\ Queued(k, {"delete"})
  /\ queue' = Dequeued(k)
  /\ UNCHANGED <<backendState, pendingOps, lru, disk, crashed, log, answers>>

\* DoomEntry uses backend_ whatever became of it.
DeleteEntryImpl(k) ==
  /\ Queued(k, {"delete"})
  /\ IF backendState # "initialized"
     THEN crashed' = TRUE /\ UNCHANGED <<disk, queue>>
     ELSE DoomEntry(k) /\ queue' = Dequeued(k) /\ UNCHANGED crashed
  /\ UNCHANGED <<backendState, pendingOps, lru, log, answers>>

-----------------------------------------------------------------------------
\* Completions.  The backend works on the operations of one entry in order, so the
\* small stream is done before the large one.

At(k, stage, types) ==
  /\ Settled /\ queue[k] # <<>>
  /\ front(k).stage = stage /\ front(k).type \in types

Writes == {"write", "writeWithSHAKey"}
Fetches == {"fetch", "fetchWithSHAKey"}

\* An open that fails dooms the entry (simple_synchronous_entry.cc).
OpenFailedForWrite(k) ==
  /\ "open" \in Faults /\ At(k, "opening", Writes)
  /\ DoomEntry(k) /\ queue' = Dequeued(k)
  /\ UNCHANGED <<backendState, pendingOps, lru, crashed, log, answers>>

\* The entry is opened or created; merged data that is there already, going by its
\* size, is not written again.
OpenCompleteForWrite(k) ==
  LET op == front(k)
      entry == IF disk[k] = None THEN [small |-> Empty, large |-> Empty] ELSE disk[k]
      identical == entry.small = Empty /\ Size(entry.large) = Size(op.large)
  IN  /\ At(k, "opening", Writes)
      /\ disk' = [disk EXCEPT ![k] = entry]
      /\ IF op.type = "writeWithSHAKey" /\ identical
         THEN queue' = Dequeued(k) ELSE Advance(k, [op EXCEPT !.stage = "small"])
      /\ UNCHANGED <<backendState, pendingOps, lru, crashed, log, answers>>

\* A stream of the entry of k is truncated and written; a failing write leaves it as
\* it was, cut or written all the same.  What a doomed entry is given is not found.
WriteData(k, stream, data, succeeded) ==
  IF disk[k] = None THEN UNCHANGED disk
  ELSE \E stored \in {data} \cup IF succeeded THEN {} ELSE {disk[k][stream], Empty} :
         disk' = [disk EXCEPT ![k] = [@ EXCEPT ![stream] = stored]]

\* Mutant of WriteBufferComplete: what was written by half stays.
WriteBufferCompleteKeeps(k, succeeded) ==
  LET op == [front(k) EXCEPT !.succeeded = @ /\ succeeded]
  IN  /\ \/ /\ At(k, "small", Writes)
            /\ WriteData(k, "small", op.small, succeeded)
            /\ Advance(k, [op EXCEPT !.stage = "large"])
         \/ /\ At(k, "large", Writes)
            /\ WriteData(k, "large", op.large, succeeded)
            /\ queue' = Dequeued(k)
      /\ UNCHANGED <<backendState, pendingOps, lru, crashed, log, answers>>

\* WriteSmallBufferComplete, then WriteLargeBufferComplete with WriteComplete, which
\* dooms the entry when either failed.
WriteBufferComplete(k, succeeded) ==
  LET op == [front(k) EXCEPT !.succeeded = @ /\ succeeded]
  IN  /\ \/ /\ At(k, "small", Writes)
            /\ WriteData(k, "small", op.small, succeeded)
            /\ Advance(k, [op EXCEPT !.stage = "large"])
         \/ /\ At(k, "large", Writes)
            /\ IF op.succeeded THEN WriteData(k, "large", op.large, TRUE) ELSE DoomEntry(k)
            /\ queue' = Dequeued(k)
      /\ UNCHANGED <<backendState, pendingOps, lru, crashed, log, answers>>

\* Nothing there, or an open that failed and doomed what was there.
OpenMissedForRead(k) ==
  /\ disk[k] = None \/ "open" \in Faults
  /\ At(k, "opening", Fetches)
  /\ DoomEntry(k) /\ Miss(front(k)) /\ queue' = Dequeued(k)
  /\ UNCHANGED <<backendState, pendingOps, crashed, log>>

\* The streams are read from the entry as it is now: a doomed entry that is open
\* keeps its data.
OpenCompleteForRead(k) ==
  /\ At(k, "opening", Fetches) /\ disk[k] # None
  /\ Advance(k, [front(k) EXCEPT !.stage = "small",
                                 !.small = disk[k].small, !.large = disk[k].large])
  /\ UNCHANGED <<backendState, pendingOps, lru, disk, crashed, log, answers>>

\* Answers, unless the data is under its checksum: then a second fetch, with this
\* one's response time and callback, is put on the checksum's queue.
ReadComplete(k, op) ==
  IF ~op.succeeded
  THEN Miss(op) /\ DoomEntry(k) /\ queue' = Dequeued(k)
  ELSE /\ UNCHANGED disk
       /\ CASE op.type = "fetchWithSHAKey" ->
                 RunReadCallback(op, op.time, op.large) /\ queue' = Dequeued(k)
            [] op.type = "fetch" /\ op.small.data \in Data \ {Empty} ->
                 RunReadCallback(op, op.small.time, op.small.data) /\ queue' = Dequeued(k)
            [] op.type = "fetch" /\ op.small.data = Empty ->
                 RunReadCallback(op, op.small.time, op.large) /\ queue' = Dequeued(k)
            [] op.type = "fetch" /\ op.small.data \in Checksums ->
                 /\ queue' = [Dequeued(k) EXCEPT ![op.small.data] =
                       Append(@, [NewOp("fetchWithSHAKey", op.small.data) EXCEPT
                                    !.callback = op.callback, !.time = op.small.time])]
                 /\ UNCHANGED <<lru, answers>>

\* A header is written with what belongs behind it or not at all.
IsValidHeader(small) == small # Empty

\* ReadSmallBufferComplete, which ends the read when there is no large data, and
\* ReadLargeBufferComplete.
ReadBufferComplete(k, succeeded) ==
  LET valid == front(k).type = "fetch" => IsValidHeader(front(k).small)
      op == [front(k) EXCEPT !.succeeded = @ /\ succeeded /\ valid]
  IN  /\ \/ /\ At(k, "small", Fetches) /\ op.large # Empty
            /\ Advance(k, [op EXCEPT !.stage = "large"])
            /\ UNCHANGED <<disk, lru, answers>>
         \/ At(k, "small", Fetches) /\ op.large = Empty /\ ReadComplete(k, op)
         \/ At(k, "large", Fetches) /\ ReadComplete(k, op)
      /\ UNCHANGED <<backendState, pendingOps, crashed, log>>

-----------------------------------------------------------------------------
Complete(k) ==
  \/ OpenFailedForWrite(k) \/ OpenCompleteForWrite(k)
  \/ OpenMissedForRead(k) \/ OpenCompleteForRead(k)
  \/ \E succeeded \in {TRUE} \cup IF "transfer" \in Faults THEN {FALSE} ELSE {} :
       WriteBufferComplete(k, succeeded) \/ ReadBufferComplete(k, succeeded)

IssueNextOperation(k) == FetchEntryImpl(k) \/ WriteEntryImpl(k) \/ DeleteEntryImpl(k)

Next ==
  \/ \E r \in Resources :
       FetchEntry(r) \/ DeleteEntry(r) \/ \E data \in Data : WriteEntry(r, data)
  \/ GetBackend \/ ClearInMemoryCache
  \/ DidCreateBackend \/ IssuePendingOperation
  \/ \E k \in Keys :
       IssueNextOperation(k) \/ Complete(k) \/ LruEvicts(k) \/ BackendEvicts(k)

Spec == Init /\ [][Next]_vars

\* The backend comes up or fails, and completes what it was asked.
Fairness ==
  /\ WF_vars(DidCreateBackend) /\ WF_vars(IssuePendingOperation)
  /\ \A k \in Keys : WF_vars(IssueNextOperation(k)) /\ WF_vars(Complete(k))

FairSpec == Spec /\ Fairness

-----------------------------------------------------------------------------
(* Properties *)

OpType(keys) ==
  [type : Writes \cup Fetches \cup {"delete", "getBackend"}, key : keys,
   stage : {"queued", "opening", "small", "large"}, callback : 0 .. MaxRequests,
   time : 0 .. MaxRequests, small : {Empty} \cup StampType, large : Data \cup {Empty},
   succeeded : BOOLEAN]

\* TypeOK: the state of the code cache has its type; in particular what the in-memory
\* cache remembers is stamped with the time of a call: never a miss (RunReadCallback
\* puts hits only), though a write of no data is remembered (WriteEntry).
TypeOK ==
  /\ backendState \in {"initializing", "initialized", "failed"}
  /\ \A op \in ToSet(pendingOps) : op \in OpType(Keys \cup {None})
  /\ \A k \in Keys : \A op \in ToSet(queue[k]) : op \in OpType({k})
  /\ lru \in [Keys -> {None} \cup [time : Calls, data : Data]]
  /\ disk \in [Keys -> {None} \cup [small : {Empty} \cup StampType, large : Data \cup {Empty}]]
  /\ crashed \in BOOLEAN
  /\ Len(log) <= MaxRequests
  /\ \A c \in Calls : Len(answers[c]) <= 1

Asked == { c \in DOMAIN log : log[c].method \in {"fetch", "getBackend"} }

\* The places where an operation that must answer call c waits.
Waiting(c) ==
  ({None} \X { i \in DOMAIN pendingOps : pendingOps[i].callback = c }) \cup
  UNION { {k} \X { i \in DOMAIN queue[k] : queue[k][i].callback = c } : k \in Keys }

\* CallbackExactlyOnce: a fetch or GetBackend is answered once, or there is exactly
\* one operation that will answer it: the callback survives the wait for the
\* backend, the move to the checksum's queue and every failure, and is never run
\* twice (TakeReadCallback, RunReadCallback, CloseOperationAndIssueNext).
CallbackExactlyOnce ==
  \A c \in Asked : Len(answers[c]) + Cardinality(Waiting(c)) = 1

\* Calls that change what r's entry should be: writes that were taken, and deletes.
Changes(r) == { n \in DOMAIN log : log[n].resource = r /\ log[n].method \in {"write", "delete"} }

\* FetchIsFresh: what a fetch returns, if it is not a miss, was written to that very
\* resource, with that response time, and no write or delete of it was made between
\* that write and the fetch: the queue of the key keeps their order, whatever fails,
\* is written by half or is evicted.
FetchIsFresh ==
  \A c \in Asked : \A a \in ToSet(answers[c]) : a.time # 0 =>
    /\ log[a.time] = [method |-> "write", resource |-> log[c].resource, data |-> a.data]
    /\ \A n \in Changes(log[c].resource) : n <= a.time \/ n >= c

\* DiskMatchesLastRequest: when nothing is pending, an entry on disk is what the
\* last write of its resource asked for, both streams of it: one of two writes that
\* failed, a failed open or a delete in between leaves no entry (WriteComplete,
\* DeleteEntryImpl).  Merged data that no write is at work on is whole, under its
\* checksum, as the CHECKs of OpenCompleteForWrite and OpenCompleteForRead expect.
DiskMatchesLastRequest ==
  /\ (Settled /\ \A k \in Keys : queue[k] = <<>>) =>
       \A r \in Resources : disk[r] # None =>
         \E n \in Changes(r) :
           /\ log[n].method = "write" /\ \A m \in Changes(r) : m <= n
           /\ LET write == Last(WriteOps(r, n, log[n].data))
              IN  disk[r] = [small |-> write.small, large |-> write.large]
  /\ \A d \in Data :
       LET k == Checksum(d)
       IN  (queue[k] = <<>> \/ front(k).type \notin Writes \/ front(k).stage \in {"queued", "opening"}) =>
             disk[k] \in {None, [small |-> Empty, large |-> d]}

\* DoomOnlyInitialized: no entry is doomed through a backend that is not there.  The
\* comment in DoomEntry says so.
DoomOnlyInitialized == ~crashed

\* FetchEventuallyAnswered: every fetch and GetBackend is answered, if the process
\* lives: no key's queue is left with an operation nobody will issue or close.
FetchEventuallyAnswered ==
  \A c \in Calls : (c \in Asked) ~> (crashed \/ answers[c] # <<>>)

=============================================================================
