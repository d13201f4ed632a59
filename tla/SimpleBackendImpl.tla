---------------------------- MODULE SimpleBackendImpl --------------------------
(***************************************************************************)
(* How the backend (simple_backend_impl.cc) keeps requests for one hash in *)
(* order: the map of active entries, the operations that wait for a doom   *)
(* or for an open by hash, the optimistic create behind a doom, the dooms  *)
(* of many entries and the iterator.  The index is loaded; its loading is  *)
(* in SimpleIndex.                                                         *)
(*                                                                         *)
(* Three classes are not part of the repository and are modelled as the    *)
(* backend uses them: SimplePostOperationWaiterTable, a queue of closures  *)
(* for each hash that are run in order when the operation is complete;     *)
(* SimpleEntryImpl, which runs its requests one after the other on worker  *)
(* threads; and the callers, who may ask for anything at any time, but     *)
(* create only what the index does not list.                               *)
(*                                                                         *)
(* All that lives on the main sequence is one record, `backend', so that   *)
(* a handler that runs a list of closures is a fold over it.               *)
(***************************************************************************)
EXTENDS Integers, SequencesExt, FiniteSetsExt

CONSTANTS
  Keys, Hashes,
  NoKey,          \* an entry opened by hash whose key is not yet known
  NoFile,         \* no entry on the disk
  NoQueue,        \* no operation to wait for
  Gone,           \* no such entry object
  Operations,     \* what the callers ask for
  Modes,          \* entry_operations_mode_: may it be optimistic?
  Faults,         \* may a doom or a deletion fail?
  MaxRequests     \* bound: requests

\* Requests for a key; the others are for what the index lists or for an entry.
KeyedOperations == {"open", "create", "openOrCreate", "doom"}

\* What waits for an operation on a hash.
Closures ==
  [op : {"notify"}, slot : Nat] \cup [op : {"request"}, r : Nat]
    \cup [op : {"openFromHash", "doomFromHash"}, r : Nat, hash : Hashes]

\* The entry objects, what is in the queue of one, and what is on the disk.
EntryOperations ==
  [op : {"open", "openFromHash", "create", "openOrCreate", "doom", "close"},
   r : Nat, told : BOOLEAN]
EntryObjects ==
  [hash : Hashes, key : Keys \cup {NoKey}, born : Nat, queue : Seq(EntryOperations),
   state : {"uninitialized", "ready", "failure"}, doomed : BOOLEAN,
   createPendingDoom : {"none", "create", "followedByDoom"}, waited : BOOLEAN, users : Nat]
Files == [key : Keys, born : Nat]

ASSUME BackendAssumption ==
  /\ Operations \subseteq KeyedOperations \cup {"next", "doomAll", "doomHeld"}
  /\ Modes \subseteq BOOLEAN /\ Faults \in BOOLEAN
  /\ MaxRequests \in Nat
  /\ IsFiniteSet(Hashes)
  /\ NoKey \notin Keys /\ NoFile \notin Files
  /\ NoQueue \notin Seq(Closures) /\ Gone \notin EntryObjects

VARIABLES
  hashOf,       \* GetEntryHashKey
  optimistic,   \* entry_operations_mode_
  backend,
  disk          \* the entry under each hash: its key, and who created it

vars == <<hashOf, optimistic, backend, disk>>

Tables == {"postDoom", "postOpenByHash"}

\* CHECKs and DCHECKs of the code that did not hold.
Check(b, condition, name) ==
  IF condition THEN b ELSE [b EXCEPT !.failedChecks = @ \cup {name}]

-------------------------------------------------------------------------------
(* SimplePostOperationWaiterTable *)

Waiting(b, table, hash) == b[table][hash] # NoQueue

OnOperationStart(b, table, hash) ==
  [Check(b, ~Waiting(b, table, hash), "OnOperationStart") EXCEPT ![table][hash] = <<>>]

Wait(b, table, hash, closure) == [b EXCEPT ![table][hash] = Append(@, closure)]

-------------------------------------------------------------------------------
(* Callbacks.  A request is its number, and 0 is nobody. *)

\* Mutant of BarrierCompletionCallbackImpl: an error does not stop the counting.
BarrierGoesOn(b, r, result) ==
  LET count == b.barrier[r].count + 1
      done == count = b.barrier[r].expected
      counted == [b EXCEPT !.barrier[r].count = count]
  IN IF done \/ result # "ok"
     THEN [counted EXCEPT !.requests[r].result = result, !.requests[r].calls = @ + 1]
     ELSE counted

\* The first error, or the last success, is the answer.
BarrierCompletionCallbackImpl(b, r, result) ==
  LET count == b.barrier[r].count + 1
      done == count = b.barrier[r].expected
      answered == [b EXCEPT !.requests[r].result = result, !.requests[r].calls = @ + 1]
  IN CASE b.barrier[r].hadError -> b
       [] ~b.barrier[r].hadError /\ result # "ok" ->
            [answered EXCEPT !.barrier[r].hadError = TRUE]
       [] OTHER -> [(IF done THEN answered ELSE b) EXCEPT !.barrier[r].count = count]

Tell(b, r, result, born) ==
  CASE r = 0 -> b
    [] r # 0 /\ b.requests[r].op = "doomAll" -> BarrierCompletionCallbackImpl(b, r, result)
    [] OTHER -> [b EXCEPT !.requests[r].result = result,
                          !.requests[r].born = born, !.requests[r].calls = @ + 1]

-------------------------------------------------------------------------------
(* SimpleEntryImpl: the calls of the backend *)

NewEntry(hash, key, createPendingDoom) ==
  [hash |-> hash, key |-> key, born |-> 0, queue |-> <<>>, state |-> "uninitialized",
   doomed |-> FALSE, createPendingDoom |-> createPendingDoom, waited |-> FALSE, users |-> 0]

\* The objects that there are; a new one takes the place of one that is gone.
Entries(b) == {s \in DOMAIN b.entry : b.entry[s] # Gone}
NewSlot(b) == CHOOSE s \in 1 .. Len(b.entry) + 1 : s \notin Entries(b)

\* A new object, and the proxy that takes it off the map when it ends.
AddEntry(b, entry) ==
  LET s == NewSlot(b)
  IN [Check(b, b.active[entry.hash] = 0, "insert_result.second")
        EXCEPT !.entry = IF s > Len(@) THEN Append(@, entry) ELSE [@ EXCEPT ![s] = entry],
               !.active[entry.hash] = s]

Enqueue(b, s, op, r, told) ==
  [b EXCEPT !.entry[s].queue = Append(@, [op |-> op, r |-> r, told |-> told])]

\* May a create be answered at once?
Quiet(b, s) ==
  optimistic /\ b.entry[s].state = "uninitialized" /\ b.entry[s].queue = <<>>

Optimistically(b, s, op, r, result) ==
  [Tell(Enqueue(b, s, op, r, TRUE), r, result, r) EXCEPT
     !.entry[s].users = @ + 1, !.index = @ \cup {b.entry[s].hash}]

EntryOpen(b, s, r) == Enqueue(b, s, "open", r, FALSE)

EntryCreate(b, s, r) ==
  IF Quiet(b, s) THEN Optimistically(b, s, "create", r, "ok")
  ELSE [Enqueue(b, s, "create", r, FALSE) EXCEPT !.index = @ \cup {b.entry[s].hash}]

EntryOpenOrCreate(b, s, r) ==
  IF Quiet(b, s) /\ b.entry[s].hash \notin b.index
  THEN Optimistically(b, s, "openOrCreate", r, "created")
  ELSE Enqueue(b, s, "openOrCreate", r, FALSE)

\* SimpleBackendImpl::OnDoomStart.
OnDoomStart(b, hash) == OnOperationStart(b, "postDoom", hash)

\* A doomed entry leaves the index and the map at once, its files later.  One that
\* was created behind a doom tells the backend of its own doom when that is done.
EntryDoom(b, s, r) ==
  LET e == b.entry[s]
      marked == [Check(b, b.active[e.hash] = s, "active_entries_.count")
                   EXCEPT !.index = @ \ {e.hash}, !.active[e.hash] = 0,
                          !.entry[s].doomed = TRUE]
      started == IF e.createPendingDoom = "none"
                 THEN [OnDoomStart(marked, e.hash) EXCEPT !.entry[s].waited = TRUE]
                 ELSE [marked EXCEPT !.entry[s].createPendingDoom = "followedByDoom"]
  IN IF e.doomed THEN Tell(b, r, "ok", 0) ELSE Enqueue(started, s, "doom", r, FALSE)

NotifyDoomBeforeCreateComplete(b, s) ==
  LET e == b.entry[s]
      started == IF e.createPendingDoom = "followedByDoom"
                 THEN [OnDoomStart(b, e.hash) EXCEPT !.entry[s].waited = TRUE] ELSE b
  IN [started EXCEPT !.entry[s].createPendingDoom = "none"]

-------------------------------------------------------------------------------
(* The requests *)

\* Mutant of CreateOrFindActiveOrDoomedEntry: it does not look for a doom.
CreateOrFindActiveEntry(b, hash, key) ==
  LET found(c, s, table) == [b |-> c, slot |-> s, table |-> table]
      s == b.active[hash]
      added == AddEntry(b, NewEntry(hash, key, "none"))
  IN CASE s = 0 -> found(added, added.active[hash], "none")
       [] s # 0 /\ b.entry[s].key = NoKey -> found(b, 0, "postOpenByHash")
       [] s # 0 /\ b.entry[s].key = key -> found(b, s, "none")
       [] OTHER -> found(EntryDoom(b, s, 0), 0, "postDoom")

\* Which entry a request is for, or which queue it has to wait in.
CreateOrFindActiveOrDoomedEntry(b, hash, key) ==
  LET found(c, s, table) == [b |-> c, slot |-> s, table |-> table]
      s == b.active[hash]
      added == AddEntry(b, NewEntry(hash, key, "none"))
      dooming == EntryDoom(b, s, 0)
      doomed == Waiting(b, "postDoom", hash)
  IN CASE doomed -> found(b, 0, "postDoom")
       [] ~doomed /\ s = 0 -> found(added, added.active[hash], "none")
       [] ~doomed /\ s # 0 /\ b.entry[s].key = key -> found(b, s, "none")
       [] ~doomed /\ s # 0 /\ b.entry[s].key = NoKey ->
            found(Check(b, Waiting(b, "postOpenByHash", hash), "post_operation"),
                  0, "postOpenByHash")
       [] OTHER ->   \* collision
            found(Check(dooming, dooming.active[hash] = 0 /\ Waiting(dooming, "postDoom", hash),
                        "post_doom_waiting_->Has"),
                  0, "postDoom")

\* Mutant of FirstInLine: others may be waiting already.
AnyInLine(b, table, hash) == table = "postDoom" /\ optimistic

\* Only the first to wait for a doom can be answered ahead of it.
FirstInLine(b, table, hash) ==
  table = "postDoom" /\ b.postDoom[hash] = <<>> /\ optimistic

MaybeOptimisticCreateForPostDoom(b, hash, key) ==
  LET added == AddEntry(b, NewEntry(hash, key, "create"))
  IN Wait(added, "postDoom", hash, [op |-> "notify", slot |-> added.active[hash]])

Retry(b, table, hash, r) == Wait(b, table, hash, [op |-> "request", r |-> r])

OpenEntry(b, hash, key, r) ==
  LET f == CreateOrFindActiveOrDoomedEntry(b, hash, key)
  IN CASE f.slot # 0 -> EntryOpen(f.b, f.slot, r)
       [] f.slot = 0 /\ FirstInLine(f.b, f.table, hash) -> Tell(f.b, r, "failed", 0)
       [] OTHER -> Retry(f.b, f.table, hash, r)

CreateEntry(b, hash, key, r) ==
  LET f == CreateOrFindActiveOrDoomedEntry(b, hash, key)
      ahead == MaybeOptimisticCreateForPostDoom(f.b, hash, key)
  IN CASE f.slot # 0 -> EntryCreate(f.b, f.slot, r)
       [] f.slot = 0 /\ FirstInLine(f.b, f.table, hash)
            -> EntryCreate(ahead, ahead.active[hash], r)
       [] OTHER -> Retry(f.b, f.table, hash, r)

OpenOrCreateEntry(b, hash, key, r) ==
  LET f == CreateOrFindActiveOrDoomedEntry(b, hash, key)
      ahead == MaybeOptimisticCreateForPostDoom(f.b, hash, key)
  IN CASE f.slot # 0 -> EntryOpenOrCreate(f.b, f.slot, r)
       [] f.slot = 0 /\ FirstInLine(f.b, f.table, hash)
            -> EntryCreate(ahead, ahead.active[hash], r)
       [] OTHER -> Retry(f.b, f.table, hash, r)

DoomEntry(b, hash, key, r) ==
  LET f == CreateOrFindActiveOrDoomedEntry(b, hash, key)
  IN IF f.slot # 0 THEN EntryDoom(f.b, f.slot, r) ELSE Retry(f.b, f.table, hash, r)

\* The key is not known until the entry is open; meanwhile keyed requests wait.
OpenEntryFromHash(b, hash, r) ==
  LET added == AddEntry(b, NewEntry(hash, NoKey, "none"))
  IN CASE Waiting(b, "postDoom", hash)
            -> Wait(b, "postDoom", hash, [op |-> "openFromHash", r |-> r, hash |-> hash])
       [] ~Waiting(b, "postDoom", hash) /\ b.active[hash] = 0
            -> Enqueue(OnOperationStart(added, "postOpenByHash", hash),
                       added.active[hash], "openFromHash", r, FALSE)
       [] OTHER -> EntryOpen(b, b.active[hash], r)

\* SimpleIterator: the next hash it was given that is still in the index.
OpenNextEntryImpl(b, r) ==
  LET left == b.requests[r].left \cap b.index
      hash == CHOOSE h \in left : TRUE
  IN IF left = {} THEN Tell([b EXCEPT !.requests[r].left = {}], r, "failed", 0)
     ELSE OpenEntryFromHash([b EXCEPT !.requests[r].left = left \ {hash}], hash, r)

\* CheckIterationReturnValue: an iterator passes over what cannot be opened.
OpenFailed(b, r) ==
  IF r # 0 /\ b.requests[r].op = "next" THEN OpenNextEntryImpl(b, r)
                                        ELSE Tell(b, r, "failed", 0)

StartDooms(b, hashes) == FoldSet(LAMBDA h, c : OnDoomStart(c, h), b, hashes)

\* Deletes the files of entries that nobody uses.
DoomEnMasse(b, hashes, r) ==
  [StartDooms(b, hashes) EXCEPT !.index = @ \ hashes,
                                !.massDooms = Append(@, [hashes |-> hashes, r |-> r])]

DoomEntryFromHash(b, hash, r) ==
  CASE Waiting(b, "postDoom", hash)
         -> Wait(b, "postDoom", hash, [op |-> "doomFromHash", r |-> r, hash |-> hash])
    [] ~Waiting(b, "postDoom", hash) /\ b.active[hash] # 0
         -> EntryDoom(b, b.active[hash], r)
    [] OTHER -> DoomEnMasse(b, {hash}, r)

\* Mutant of UsedHashes: an active entry is doomed by its files alone.
UsedHashesDooming(b, hashes) == {h \in hashes : Waiting(b, "postDoom", h)}

\* These are doomed one by one.
UsedHashes(b, hashes) ==
  {h \in hashes : b.active[h] # 0 \/ Waiting(b, "postDoom", h)}

DoomEach(b, hashes, r) == FoldSet(LAMBDA h, c : DoomEntryFromHash(c, h, r), b, hashes)

DoomEntries(b, hashes, r) ==
  LET used == UsedHashes(b, hashes)
      barred == [b EXCEPT !.barrier[r].expected = Cardinality(used) + 1]
      doomed == [DoomEach(barred, used, r) EXCEPT !.index = @ \ used]
  IN DoomEnMasse(doomed, hashes \ used, r)

Issue(b, r) ==
  LET q == b.requests[r]
      hash == hashOf[q.key]
  IN CASE q.op = "open"         -> OpenEntry(b, hash, q.key, r)
       [] q.op = "create"       -> CreateEntry(b, hash, q.key, r)
       [] q.op = "openOrCreate" -> OpenOrCreateEntry(b, hash, q.key, r)
       [] q.op = "doom"         -> DoomEntry(b, hash, q.key, r)
       [] q.op = "next"         -> OpenNextEntryImpl(b, r)
       [] q.op = "doomAll"      -> DoomEntries(b, b.index, r)
       [] q.op = "doomHeld"     -> EntryDoom(b, q.slot, r)

RunClosure(b, c) ==
  CASE c.op = "notify"       -> NotifyDoomBeforeCreateComplete(b, c.slot)
    [] c.op = "request"      -> Issue(b, c.r)
    [] c.op = "openFromHash" -> OpenEntryFromHash(b, c.hash, c.r)
    [] c.op = "doomFromHash" -> DoomEntryFromHash(b, c.hash, c.r)

\* Mutant of OnOperationComplete: the last to wait is forgotten.
OnOperationCompleteShort(b, table, hash) ==
  LET queue == b[table][hash]
  IN FoldLeft(RunClosure, [b EXCEPT ![table][hash] = NoQueue],
              SubSeq(queue, 1, IF Len(queue) > 1 THEN Len(queue) - 1 ELSE Len(queue)))

\* The operation is over before those that waited for it are run again, in order.
OnOperationComplete(b, table, hash) ==
  LET over == [Check(b, Waiting(b, table, hash), "OnOperationComplete")
                 EXCEPT ![table][hash] = NoQueue]
  IN FoldLeft(RunClosure, over, IF Waiting(b, table, hash) THEN b[table][hash] ELSE <<>>)

-------------------------------------------------------------------------------
(* SimpleEntryImpl: the execution of a request, from its start on a worker *)
(* thread to the reply.                                                    *)

\* Somebody holds the object, or it has something to do.
InUse(b, s) ==
  LET e == b.entry[s]
  IN e.users > 0 \/ e.queue # <<>> \/ e.state = "ready" \/ e.createPendingDoom # "none"

\* Mutant of Settled: the proxy leaves it on the map.
SettledOnMap(b, s) ==
  IF InUse(b, s) THEN b
  ELSE [b EXCEPT !.entry[s] = Gone]

\* An object that nobody uses ends, and its proxy takes it off the map.
Settled(b, s) ==
  IF InUse(b, s) THEN b
  ELSE [b EXCEPT !.entry[s] = Gone,
                 !.active[b.entry[s].hash] = IF @ = s THEN 0 ELSE @]

\* A doomed entry is out of the index for good.
Indexed(b, s) ==
  IF b.entry[s].doomed THEN b.index ELSE b.index \cup {b.entry[s].hash}
Unindexed(b, s) ==
  IF b.entry[s].doomed THEN b.index ELSE b.index \ {b.entry[s].hash}

Opened(b, s, op, key, born, result) ==
  [(IF op.told THEN b ELSE Tell(b, op.r, result, born)) EXCEPT
     !.entry[s].state = "ready", !.entry[s].key = key, !.entry[s].born = born,
     !.entry[s].users = IF op.told THEN @ ELSE @ + 1,
     !.index = Indexed(b, s)]

\* OnEntryOpenedFromHash comes between an open by hash and its callback.
AfterOpen(b, hash, op) ==
  IF op.op = "openFromHash" THEN OnOperationComplete(b, "postOpenByHash", hash) ELSE b

\* The entry could not be opened.  One that was opened by hash is off the map when
\* the backend is told: else who waited for it finds no operation to wait for.
Lost(b, s, op) ==
  LET unlisted == [b EXCEPT !.index = Unindexed(b, s)]
  IN IF op.op = "openFromHash"
     THEN [unlisted EXCEPT !.active[b.entry[s].hash] = IF @ = s THEN 0 ELSE @,
                           !.entry[s].doomed = TRUE, !.entry[s].state = "failure"]
     ELSE unlisted

ExecuteOpen(b, s, op) ==
  LET e == b.entry[s]
      file == disk[e.hash]
      there == file # NoFile /\ e.key \in {NoKey, file.key}
      inUse == [b EXCEPT !.entry[s].users = @ + 1]
      known == [b EXCEPT !.entry[s].state = "ready", !.entry[s].key = file.key,
                         !.entry[s].born = file.born, !.entry[s].users = @ + 1,
                         !.index = Indexed(b, s)]
  IN \/ /\ e.state = "ready"
        /\ backend' = Tell(inUse, op.r, "ok", e.born)
        /\ UNCHANGED disk
     \/ /\ e.state = "failure"
        /\ backend' = Settled(OpenFailed(b, op.r), s)
        /\ UNCHANGED disk
     \/ /\ e.state = "uninitialized" /\ there
        /\ backend' = Tell(AfterOpen(known, e.hash, op), op.r, "ok", file.born)
        /\ UNCHANGED disk
     \/ /\ e.state = "uninitialized" /\ ~there
        /\ backend' = OpenFailed(AfterOpen(Settled(Lost(b, s, op), s), e.hash, op), op.r)
        /\ disk' = [disk EXCEPT ![e.hash] = NoFile]

ExecuteCreate(b, s, op) ==
  LET e == b.entry[s]
      refused == IF op.told THEN b ELSE Tell(b, op.r, "failed", 0)
  IN \/ /\ e.state = "uninitialized" /\ disk[e.hash] = NoFile
        /\ backend' = Opened(b, s, op, e.key, op.r, "ok")
        /\ disk' = [disk EXCEPT ![e.hash] = [key |-> e.key, born |-> op.r]]
     \/ /\ e.state = "uninitialized" => disk[e.hash] # NoFile
        /\ backend' = Settled([refused EXCEPT !.entry[s].state =
                                 IF @ = "ready" THEN @ ELSE "failure"], s)
        /\ UNCHANGED disk

ExecuteOpenOrCreate(b, s, op) ==
  LET e == b.entry[s]
      file == disk[e.hash]
      there == file # NoFile /\ file.key = e.key /\ ~op.told
  IN \/ /\ e.state = "ready"
        /\ backend' = Tell([b EXCEPT !.entry[s].users = @ + 1], op.r, "ok", e.born)
        /\ UNCHANGED disk
     \/ /\ e.state = "failure"
        /\ backend' = Settled(Tell(b, op.r, "failed", 0), s)
        /\ UNCHANGED disk
     \/ /\ e.state = "uninitialized" /\ there
        /\ backend' = Opened(b, s, op, e.key, file.born, "ok")
        /\ UNCHANGED disk
     \/ /\ e.state = "uninitialized" /\ ~there
        /\ backend' = Opened(b, s, op, e.key, op.r, "created")
        /\ disk' = [disk EXCEPT ![e.hash] = [key |-> e.key, born |-> op.r]]

ExecuteDoom(b, s, op) ==
  LET e == b.entry[s]
      complete(c) == IF e.waited
                     THEN OnOperationComplete([c EXCEPT !.entry[s].waited = FALSE],
                                              "postDoom", e.hash)
                     ELSE c
      done(result) == Settled(complete(Tell(b, op.r, result, 0)), s)
  IN \/ backend' = done("ok") /\ disk' = [disk EXCEPT ![e.hash] = NoFile]
     \/ Faults /\ backend' = [done("failed") EXCEPT !.leftover = TRUE] /\ UNCHANGED disk

ExecuteClose(b, s) ==
  /\ backend' = Settled([b EXCEPT !.entry[s].state = "uninitialized"], s)
  /\ UNCHANGED disk

\* An entry that waits for an earlier doom runs nothing.
Execute(s) ==
  /\ LET e == backend.entry[s]
         b == [backend EXCEPT !.entry[s].queue = Tail(@)]
         op == Head(e.queue)
     IN /\ e.queue # <<>> /\ e.createPendingDoom = "none"
        /\ \/ op.op \in {"open", "openFromHash"} /\ ExecuteOpen(b, s, op)
           \/ op.op = "create" /\ ExecuteCreate(b, s, op)
           \/ op.op = "openOrCreate" /\ ExecuteOpenOrCreate(b, s, op)
           \/ op.op = "doom" /\ ExecuteDoom(b, s, op)
           \/ op.op = "close" /\ ExecuteClose(b, s)
  /\ UNCHANGED <<hashOf, optimistic>>

-------------------------------------------------------------------------------
Init ==
  /\ hashOf \in [Keys -> Hashes]
  /\ optimistic \in Modes
  /\ backend = [active |-> [h \in Hashes |-> 0],
                postDoom |-> [h \in Hashes |-> NoQueue],
                postOpenByHash |-> [h \in Hashes |-> NoQueue],
                index |-> {}, entry |-> <<>>,
                massDooms |-> <<>>,
                barrier |-> [r \in 1 .. MaxRequests |->
                               [expected |-> 0, count |-> 0, hadError |-> FALSE]],
                requests |-> <<>>, failedChecks |-> {}, leftover |-> FALSE]
  /\ disk = [h \in Hashes |-> NoFile]

Answered(b) == {r \in DOMAIN b.requests : b.requests[r].calls > 0}

\* A caller asks: the backend, or an entry it was given for its doom.
Request ==
  /\ Len(backend.requests) < MaxRequests
  /\ \E op \in Operations, key \in Keys \cup {NoKey}, slot \in Entries(backend) \cup {0} :
       /\ key = NoKey <=> op \in {"next", "doomAll", "doomHeld"}
       /\ slot = 0 <=> op # "doomHeld"
       /\ op = "create" => hashOf[key] \notin backend.index
       /\ op = "doomHeld" => backend.entry[slot].users > 0
       /\ LET request == [op |-> op, key |-> key, slot |-> slot,
                          result |-> "none", born |-> 0, calls |-> 0,
                          left |-> IF op = "next" THEN backend.index ELSE {},
                          dooms |-> CASE op = "doomAll" -> backend.index
                                      [] op = "doomHeld" ->
                                           {h \in Hashes : backend.active[h] = slot}
                                      [] OTHER -> {},
                          before |-> Answered(backend)]
          IN backend' = Issue([backend EXCEPT !.requests = Append(@, request)],
                              Len(backend.requests) + 1)
  /\ UNCHANGED <<hashOf, optimistic, disk>>

\* A caller closes an entry it was given.
CloseEntry ==
  /\ \E s \in Entries(backend) :
       /\ backend.entry[s].users > 0
       /\ LET b == [backend EXCEPT !.entry[s].users = @ - 1]
          IN backend' = IF b.entry[s].users = 0 THEN Enqueue(b, s, "close", 0, TRUE) ELSE b
  /\ UNCHANGED <<hashOf, optimistic, disk>>

CompleteDooms(b, hashes) ==
  FoldSet(LAMBDA h, c : OnOperationComplete(c, "postDoom", h), b, hashes)

\* DeleteEntrySetFiles has run; the waiting requests come before the callback.
DoomEntriesComplete(i) ==
  LET m == backend.massDooms[i]
      b == [backend EXCEPT !.massDooms = RemoveAt(@, i)]
      complete == CompleteDooms(b, m.hashes)
  IN /\ \/ /\ backend' = Tell(complete, m.r, "ok", 0)
           /\ disk' = [h \in Hashes |-> IF h \in m.hashes THEN NoFile ELSE disk[h]]
        \/ /\ Faults /\ m.hashes # {}
           /\ backend' = [Tell(complete, m.r, "failed", 0) EXCEPT !.leftover = TRUE]
           /\ UNCHANGED disk
     /\ UNCHANGED <<hashOf, optimistic>>

Work ==
  \/ \E s \in Entries(backend) : Execute(s)
  \/ \E i \in DOMAIN backend.massDooms : DoomEntriesComplete(i)

Next == Request \/ CloseEntry \/ Work

Spec == Init /\ [][Next]_vars

\* Nothing is left to run.
Idle ==
  /\ \A s \in Entries(backend) :
       LET e == backend.entry[s] IN e.queue = <<>> \/ e.createPendingDoom # "none"
  /\ backend.massDooms = <<>>

\* The worker threads and the main sequence run what was posted to them; no caller
\* has to do anything.  This is WF_vars(Work), for Work is enabled unless Idle.
FairSpec == Spec /\ ([]<>Idle \/ []<><<Work>>_vars)

-------------------------------------------------------------------------------
(* Properties *)

Requests == DOMAIN backend.requests

\* What is where; and what is on the map of active entries is an entry that is there,
\* is of that hash and not doomed (ActiveEntryProxy, OnDoomStart).
TypeOK ==
  /\ disk \in [Hashes -> Files \cup {NoFile}]
  /\ backend.entry \in Seq(EntryObjects \cup {Gone})
  /\ \A t \in Tables : backend[t] \in [Hashes -> Seq(Closures) \cup {NoQueue}]
  /\ backend.index \subseteq Hashes
  /\ \A r \in Requests : backend.requests[r].result \in {"none", "ok", "created", "failed"}
  /\ \A h \in Hashes :
       LET s == backend.active[h]
       IN s # 0 => /\ s \in Entries(backend)
                   /\ backend.entry[s].hash = h /\ ~backend.entry[s].doomed

\* The checks about the map of active entries and the two tables of waiting requests
\* hold: the map has room for what is inserted, a doomed entry was on it, whoever is
\* told to wait finds the queue to wait in, and operations are begun and ended once
\* (ActiveEntryProxy, MaybeOptimisticCreateForPostDoom, CreateOrFindActiveOrDoomedEntry).
ChecksHold == backend.failedChecks = {}

\* Is request d about a key of hash h?
About(d, h) ==
  LET key == backend.requests[d].key IN key # NoKey /\ hashOf[key] = h

\* Does request d ask that what is under hash h be doomed?
Dooms(d, h) ==
  LET q == backend.requests[d]
  IN \/ q.op = "doom" /\ About(d, h)
     \/ h \in q.dooms

\* No request is given an entry that was there, its creator answered, when an earlier
\* request doomed it.  An iterator may be faster than a doom that still waits for
\* another iterator, but not than one that was answered
\* (CreateOrFindActiveOrDoomedEntry).
DoomedIsNotServed ==
  \A r, d \in Requests :
    LET q == backend.requests[r]
    IN /\ q.born \in backend.requests[d].before /\ d < r
       /\ q.op = "next" => d \in q.before
       /\ backend.requests[d].result # "failed"
       => ~Dooms(d, hashOf[backend.requests[q.born].key])

\* An entry that was created and never doomed is found: an open fails only if
\* another request may have removed it (MaybeOptimisticCreateForPostDoom,
\* DoomEntries).
UndoomedIsFound ==
  \A r, c \in Requests :
    LET q == backend.requests[r]
        h == hashOf[q.key]
    IN /\ q.op = "open" /\ q.result = "failed" /\ ~backend.leftover
       /\ c \in q.before /\ backend.requests[c].born = c /\ backend.requests[c].key = q.key
       => \E d \in Requests \ {c} :
            /\ d \notin backend.requests[c].before
            /\ Dooms(d, h) \/ (About(d, h) /\ backend.requests[d].key # q.key)

\* Nobody waits, for an operation on a hash or for his turn with an entry.
NothingWaits ==
  /\ \A t \in Tables, h \in Hashes : ~Waiting(backend, t, h)
  /\ \A s \in Entries(backend) : backend.entry[s].queue = <<>>

\* When nothing is under way nothing waits, and the index lists exactly what is on
\* the disk, except for the files that could not be deleted
\* (SimplePostOperationWaiterTable, BarrierCompletionCallbackImpl).
IdleIsClean ==
  Idle =>
    /\ NothingWaits
    /\ \A r \in Requests : backend.requests[r].calls = 1
    /\ \A h \in backend.index : disk[h] # NoFile
    /\ ~backend.leftover => \A h \in Hashes : disk[h] # NoFile => h \in backend.index

\* What is removed is removed for a request that was not answered when the entry was
\* asked for: a doom that is over takes nothing that comes after it (DoomEntries,
\* DoomEntry).
RemovesOnlyOlder ==
  [][\A h \in Hashes :
       disk[h] # NoFile /\ disk'[h] # disk[h] =>
         \E r \in Requests \ (backend.requests[disk[h].born].before \cup {disk[h].born}) :
           Dooms(r, h) \/ About(r, h)]_vars

\* Every request is answered, whatever waits for whatever (OnOperationComplete).
EveryRequestAnswered == []<>(\A r \in Requests : backend.requests[r].calls > 0)

================================================================================
