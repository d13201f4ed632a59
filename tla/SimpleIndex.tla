------------------------------ MODULE SimpleIndex ------------------------------
(***************************************************************************)
(* Chromium's in-memory index of a simple cache (simple_index.cc): which   *)
(* entries exist, how big they are and when they were last used.  Entries  *)
(* come and go while the index file is still being loaded by a worker; the *)
(* two are merged when the load is done.  All methods run on one sequence. *)
(* Sizes are in blocks of 256 bytes.  APP_CACHE mode is left out.          *)
(***************************************************************************)
EXTENDS Integers, FiniteSets, FiniteSetsExt, Sequences

CONSTANTS
  Hashes,            \* entry hashes
  Callbacks,         \* ids of the tasks given to ExecuteWhenReady
  Hints,             \* values of in_memory_data_
  NoEntry,           \* not in the map
  HighPriority,      \* the hint that makes eviction spare an entry
  InitialDisks,      \* what the index file or the directory may list at startup
  Sizes,             \* entry sizes, in blocks
  MaxEntrySize,      \* the largest size SetEntrySize takes, in blocks
  MaxSizes,          \* values SetMaxSize is given, in blocks
  EvictionMarginDivisor,      \* kEvictionMarginDivisor
  EstimatedEntryOverhead,     \* kEstimatedEntryOverhead, in blocks
  UseSizeHeuristic,           \* false for the generated code caches
  PrioritizationFactor,       \* caching_prioritization_factor_, 1 = feature off
  PrioritizationPeriod,       \* caching_prioritization_period_in_seconds_
  MaxNow                      \* bound: readings of base::Time::Now()

\* Metadata of one entry (EntryMetadata); 0 is the null time.
Metadata == [lastUsed : Nat, size : Nat, hint : Hints]

\* SimpleIndexLoadResult: the entries found, flush_required, did_load.
LoadResults == [entries : [Hashes -> Metadata \cup {NoEntry}],
                flush : BOOLEAN, complete : BOOLEAN]

ASSUME IndexAssumption ==
  /\ IsFiniteSet(Hashes)
  /\ 0 \in Hints /\ HighPriority \in Hints
  /\ NoEntry \notin Metadata \cup LoadResults \cup [Hashes -> Metadata \cup {NoEntry}]
  /\ InitialDisks \subseteq [Hashes -> Metadata \cup {NoEntry}]
  /\ Sizes \subseteq Nat /\ MaxEntrySize \in Nat /\ MaxSizes \subseteq Nat
  /\ EvictionMarginDivisor \in Nat \ {0} /\ EstimatedEntryOverhead \in Nat
  /\ UseSizeHeuristic \in BOOLEAN
  /\ PrioritizationFactor \in Nat \ {0} /\ PrioritizationPeriod \in Nat

VARIABLES
  entriesSet,           \* entries_set_: hash -> metadata or NoEntry
  cacheSize,            \* cache_size_
  maxSize,              \* max_size_; the two watermarks are functions of it
  evictionInProgress,   \* eviction_in_progress_
  removedEntries,       \* removed_entries_
  initialized,          \* initialized_
  timerRunning,         \* write_to_disk_timer_
  toRun,                \* to_run_when_initialized_
  posted,               \* tasks posted to task_runner_: <<callback, result>>
  alive,                \* the index has not been destroyed
  now,                  \* base::Time::Now()
  loadResult,           \* the worker's result, NoEntry until the load is done;
                        \* empty once it is merged
  onDisk,               \* what the disk lists when Initialize() is called
  last,                 \* history: the last of Insert and Remove for each hash
  ran,                  \* history: results each callback was run with
  saved,                \* history: the entries as of the last write, or on disk
  unwritten             \* history: the entries as of a merge that wrote nothing;
                        \* NoEntry before it and after the next write

memory == <<entriesSet, cacheSize, evictionInProgress, removedEntries>>
callbackVars == <<toRun, posted, ran>>
vars == <<memory, maxSize, initialized, timerRunning, callbackVars, alive, now,
          loadResult, onDisk, last, saved, unwritten>>

-----------------------------------------------------------------------------

live(entries) == { h \in Hashes : entries[h] # NoEntry }

totalSize(entries) == FoldSet(LAMBDA h, sum : sum + entries[h].size, 0, live(entries))

sizeOf(entries, hashes) == FoldSet(LAMBDA h, sum : sum + entries[h].size, 0, hashes)

highWatermark(max) == max - max \div EvictionMarginDivisor
lowWatermark(max) == max - 2 * (max \div EvictionMarginDivisor)

\* Mutant of sortValue: by the last use itself instead of the time since.
sortValueFreshest(m) == m.lastUsed

\* Mutant of sortValue: the time since the last use is forgotten.
sortValueSizeOnly(m) == m.size + EstimatedEntryOverhead

\* The more stale and the bigger, the sooner evicted.
sortValue(m) ==
  LET unused == now - m.lastUsed
      weighted == unused * (m.size + EstimatedEntryOverhead)
      spared == unused < PrioritizationPeriod /\ m.hint = HighPriority
  IN  IF ~UseSizeHeuristic THEN unused
      ELSE IF spared THEN weighted \div PrioritizationFactor ELSE weighted

\* The entries an eviction may pick: a shortest prefix, in the order of their
\* values, that frees the amount.  Entries of equal value are in any order.
victims(entries, amount) ==
  { picked \in SUBSET live(entries) :
      /\ \A h \in picked, k \in live(entries) \ picked :
           sortValue(entries[h]) >= sortValue(entries[k])
      /\ sizeOf(entries, picked) >= amount \/ picked = live(entries)
      /\ \E h \in picked :
           /\ \A k \in picked : sortValue(entries[k]) >= sortValue(entries[h])
           /\ sizeOf(entries, picked \ {h}) < amount }

Drop(entries, hashes) ==
  [h \in Hashes |-> IF h \in hashes THEN NoEntry ELSE entries[h]]

Init ==
  /\ entriesSet = [h \in Hashes |-> NoEntry]
  /\ cacheSize = 0
  /\ maxSize \in MaxSizes
  /\ evictionInProgress = FALSE
  /\ removedEntries = {}
  /\ initialized = FALSE
  /\ timerRunning = FALSE
  /\ toRun = <<>> /\ posted = <<>>
  /\ alive = TRUE
  /\ now = 1
  /\ loadResult = NoEntry
  /\ onDisk \in InitialDisks
  /\ last = [h \in Hashes |-> "untouched"]
  /\ ran = [c \in Callbacks |-> <<>>]
  /\ saved = onDisk
  /\ unwritten = NoEntry

\* Nothing is written before the load is done.
PostponeWritingToDisk == timerRunning' = (timerRunning \/ initialized)

Insert(h) ==
  /\ alive
  /\ removedEntries' = IF initialized THEN removedEntries ELSE removedEntries \ {h}
  /\ last' = [last EXCEPT ![h] = "inserted"]
  /\ IF entriesSet[h] = NoEntry
     THEN /\ entriesSet' = [entriesSet EXCEPT ![h] =
                              [lastUsed |-> now, size |-> 0, hint |-> 0]]
          /\ PostponeWritingToDisk
     ELSE UNCHANGED <<entriesSet, timerRunning>>
  /\ UNCHANGED <<cacheSize, maxSize, evictionInProgress, initialized, callbackVars,
                 alive, now, loadResult, onDisk, saved, unwritten>>

Remove(h) ==
  /\ alive
  /\ removedEntries' = IF initialized THEN removedEntries ELSE removedEntries \cup {h}
  /\ last' = [last EXCEPT ![h] = "removed"]
  /\ IF entriesSet[h] # NoEntry
     THEN /\ cacheSize' = cacheSize - entriesSet[h].size
          /\ entriesSet' = [entriesSet EXCEPT ![h] = NoEntry]
          /\ PostponeWritingToDisk
     ELSE UNCHANGED <<cacheSize, entriesSet, timerRunning>>
  /\ UNCHANGED <<maxSize, evictionInProgress, initialized, callbackVars,
                 alive, now, loadResult, onDisk, saved, unwritten>>

\* Before the load is done the answer is yes for any entry: go to the disk.
Has(h) == initialized => entriesSet[h] # NoEntry

UseIfExists(h) ==
  /\ alive
  /\ entriesSet[h] # NoEntry
  /\ entriesSet' = [entriesSet EXCEPT ![h].lastUsed = now]
  /\ PostponeWritingToDisk
  /\ UNCHANGED <<cacheSize, maxSize, evictionInProgress, removedEntries, initialized,
                 callbackVars, alive, now, loadResult, onDisk, last, saved, unwritten>>

\* Does not schedule a write.
SetEntryInMemoryData(h, value) ==
  /\ alive
  /\ entriesSet[h] # NoEntry
  /\ entriesSet' = [entriesSet EXCEPT ![h].hint = value]
  /\ UNCHANGED <<cacheSize, maxSize, evictionInProgress, removedEntries, initialized,
                 timerRunning, callbackVars, alive, now, loadResult, onDisk, last, saved, unwritten>>

\* Mutant of StartEvictionIfNeeded: evicts down to the high watermark only.
StartEvictionToHigh(entries, size, max) ==
  IF evictionInProgress \/ size <= highWatermark(max)
  THEN entriesSet' = entries /\ cacheSize' = size
       /\ UNCHANGED <<evictionInProgress, removedEntries, last>>
  ELSE \E doomed \in victims(entries, size - highWatermark(max)) :
         /\ entriesSet' = Drop(entries, doomed)
         /\ cacheSize' = size - sizeOf(entries, doomed)
         /\ evictionInProgress' = TRUE
         /\ last' = [h \in Hashes |-> IF h \in doomed THEN "removed" ELSE last[h]]
         /\ UNCHANGED removedEntries

\* Given the entries as the caller has just updated them: over the watermark, the
\* delegate dooms the victims, which removes each of them at once and reports
\* EvictionDone later.
StartEvictionIfNeeded(entries, size, max) ==
  IF evictionInProgress \/ size <= highWatermark(max)
  THEN /\ entriesSet' = entries
       /\ cacheSize' = size
       /\ UNCHANGED <<evictionInProgress, removedEntries, last>>
  ELSE \E doomed \in victims(entries, size - lowWatermark(max)) :
         /\ entriesSet' = Drop(entries, doomed)
         /\ cacheSize' = size - sizeOf(entries, doomed)
         /\ evictionInProgress' = TRUE
         /\ removedEntries' = IF initialized THEN removedEntries
                                             ELSE removedEntries \cup doomed
         /\ last' = [h \in Hashes |-> IF h \in doomed THEN "removed" ELSE last[h]]

\* Mutant of UpdateEntrySize: the old and the new size are swapped.
UpdateEntrySizeSwapped(h, size) ==
  /\ alive
  /\ entriesSet[h] # NoEntry /\ entriesSet[h].size # size
  /\ StartEvictionIfNeeded([entriesSet EXCEPT ![h].size = size],
                           cacheSize + entriesSet[h].size - size, maxSize)
  /\ PostponeWritingToDisk
  /\ UNCHANGED <<maxSize, initialized, callbackVars, alive, now, loadResult, onDisk, saved, unwritten>>

\* A size that SetEntrySize does not take, like one that is the old one, changes
\* nothing.
UpdateEntrySize(h, size) ==
  /\ alive
  /\ entriesSet[h] # NoEntry /\ size <= MaxEntrySize /\ entriesSet[h].size # size
  /\ StartEvictionIfNeeded([entriesSet EXCEPT ![h].size = size],
                           cacheSize - entriesSet[h].size + size, maxSize)
  /\ PostponeWritingToDisk
  /\ UNCHANGED <<maxSize, initialized, callbackVars, alive, now, loadResult, onDisk, saved, unwritten>>

\* Only a smaller limit starts an eviction; the victims' removal asks for a write.
SetMaxSize(max) ==
  /\ alive
  /\ maxSize' = max
  /\ IF max < maxSize
     THEN /\ StartEvictionIfNeeded(entriesSet, cacheSize, max)
          /\ IF entriesSet' # entriesSet THEN PostponeWritingToDisk
                                         ELSE UNCHANGED timerRunning
     ELSE UNCHANGED <<memory, last, timerRunning>>
  /\ UNCHANGED <<initialized, callbackVars, alive, now, loadResult, onDisk, saved, unwritten>>

EvictionDone ==
  /\ alive /\ evictionInProgress
  /\ evictionInProgress' = FALSE
  /\ UNCHANGED <<entriesSet, cacheSize, removedEntries, maxSize, initialized, timerRunning,
                 callbackVars, alive, now, loadResult, onDisk, last, saved, unwritten>>

\* Mutant of ExecuteWhenReady: it does not look whether the load is done.
ExecuteWhenReadyLate(c) ==
  /\ alive /\ ran[c] = <<>>
  /\ \A i \in DOMAIN toRun : toRun[i] # c
  /\ toRun' = Append(toRun, c)
  /\ UNCHANGED <<memory, maxSize, initialized, timerRunning, posted, ran, alive, now,
                 loadResult, onDisk, last, saved, unwritten>>

ExecuteWhenReady(c) ==
  /\ alive
  /\ ran[c] = <<>> /\ \A i \in DOMAIN toRun : toRun[i] # c
  /\ \A i \in DOMAIN posted : posted[i][1] # c
  /\ IF initialized THEN posted' = Append(posted, <<c, "OK">>) /\ UNCHANGED toRun
                    ELSE toRun' = Append(toRun, c) /\ UNCHANGED posted
  /\ UNCHANGED <<memory, maxSize, initialized, timerRunning, ran, alive, now,
                 loadResult, onDisk, last, saved, unwritten>>

RunPostedTask ==
  /\ posted # <<>>
  /\ ran' = [ran EXCEPT ![Head(posted)[1]] = Append(@, Head(posted)[2])]
  /\ posted' = Tail(posted)
  /\ UNCHANGED <<memory, maxSize, initialized, timerRunning, toRun, alive, now,
                 loadResult, onDisk, last, saved, unwritten>>

\* What a scan of the directory may see of h: an entry created or doomed in the
\* meantime has its old files, its new ones or none.
scanned(h) ==
  IF last[h] = "untouched" THEN {onDisk[h]}
  ELSE {onDisk[h], NoEntry} \cup { [lastUsed |-> now, size |-> s, hint |-> 0] :
                                s \in { x \in Sizes : x <= MaxEntrySize } }

Scans == { f \in [Hashes -> UNION { scanned(h) : h \in Hashes }] :
             \A h \in Hashes : f[h] \in scanned(h) }

\* The worker finds a fresh index file, or lists the directory and asks for the
\* result to be written, or fails half way through the listing.
LoadIndexEntries ==
  /\ loadResult = NoEntry
  /\ \/ loadResult' = [entries |-> onDisk, flush |-> FALSE, complete |-> TRUE]
     \/ \E f \in Scans :
          loadResult' = [entries |-> f, flush |-> TRUE, complete |-> TRUE]
     \/ \E f \in Scans, lost \in SUBSET Hashes :
          loadResult' = [entries |-> Drop(f, lost), flush |-> FALSE, complete |-> FALSE]
  /\ UNCHANGED <<memory, maxSize, initialized, timerRunning, callbackVars, alive, now,
                 onDisk, last, saved, unwritten>>

\* Cancels the timer; the file's content is fixed here, its I/O happens elsewhere.
WriteToDisk ==
  IF initialized THEN timerRunning' = FALSE /\ saved' = entriesSet /\ unwritten' = NoEntry
                 ELSE UNCHANGED <<timerRunning, saved, unwritten>>

\* Mutant of merged: what was removed meanwhile is not erased.
mergedWithRemoved ==
  [h \in Hashes |-> IF entriesSet[h] # NoEntry THEN entriesSet[h] ELSE loadResult.entries[h]]

\* Mutant of merged: what was inserted meanwhile is lost.
mergedFromDisk ==
  [h \in Hashes |-> IF h \in removedEntries THEN NoEntry ELSE loadResult.entries[h]]

\* In-memory entries win over loaded ones, entries removed meanwhile are dropped.
merged ==
  [h \in Hashes |->
     IF entriesSet[h] # NoEntry THEN entriesSet[h]
     ELSE IF h \in removedEntries THEN NoEntry ELSE loadResult.entries[h]]

\* Mutant of MergeInitializingSet: a merge that should be written is not.
MergeInitializingSetUnwritten ==
  /\ alive /\ ~initialized /\ loadResult # NoEntry
  /\ entriesSet' = merged
  /\ cacheSize' = totalSize(merged)
  /\ removedEntries' = {}
  /\ initialized' = TRUE
  /\ unwritten' = merged
  /\ posted' = posted \o [i \in DOMAIN toRun |-> <<toRun[i], "OK">>]
  /\ toRun' = <<>>
  /\ loadResult' = [loadResult EXCEPT !.entries = [h \in Hashes |-> NoEntry]]
  /\ UNCHANGED <<maxSize, evictionInProgress, timerRunning, ran, alive, now, onDisk, last,
                 saved>>

\* Without flush_required nothing is written, whatever the merge changed.  The load
\* result is consumed.
MergeInitializingSet ==
  /\ alive /\ ~initialized /\ loadResult # NoEntry
  /\ entriesSet' = merged
  /\ cacheSize' = totalSize(merged)
  /\ removedEntries' = {}
  /\ initialized' = TRUE
  /\ IF loadResult.flush THEN timerRunning' = FALSE /\ saved' = merged /\ unwritten' = NoEntry
                         ELSE unwritten' = merged /\ UNCHANGED <<timerRunning, saved>>
  /\ posted' = posted \o [i \in DOMAIN toRun |-> <<toRun[i], "OK">>]
  /\ toRun' = <<>>
  /\ loadResult' = [loadResult EXCEPT !.entries = [h \in Hashes |-> NoEntry]]
  /\ UNCHANGED <<maxSize, evictionInProgress, ran, alive, now, onDisk, last>>

\* write_to_disk_timer_ fires.
TimerFires ==
  /\ alive /\ timerRunning
  /\ WriteToDisk
  /\ UNCHANGED <<memory, maxSize, initialized, callbackVars, alive, now, loadResult,
                 onDisk, last>>

\* The app went to the background.
OnApplicationStateChange ==
  /\ alive
  /\ WriteToDisk
  /\ UNCHANGED <<memory, maxSize, initialized, callbackVars, alive, now, loadResult,
                 onDisk, last>>

\* ~SimpleBackendImpl() writes what is pending; ~SimpleIndex() fails the callbacks
\* still waiting.  Callbacks bound to the index no longer run, posted tasks do.
Destroy ==
  /\ alive
  /\ alive' = FALSE
  /\ IF timerRunning THEN WriteToDisk ELSE UNCHANGED <<timerRunning, saved, unwritten>>
  /\ ran' = [c \in Callbacks |->
               IF \E i \in DOMAIN toRun : toRun[i] = c
               THEN Append(ran[c], "ERR_ABORTED") ELSE ran[c]]
  /\ toRun' = <<>>
  /\ UNCHANGED <<memory, maxSize, initialized, posted, now, loadResult, onDisk, last>>

Tick ==
  /\ now < MaxNow
  /\ now' = now + 1
  /\ UNCHANGED <<memory, maxSize, initialized, timerRunning, callbackVars, alive,
                 loadResult, onDisk, last, saved, unwritten>>

Next ==
  \/ \E h \in Hashes :
       \/ Insert(h)
       \/ Remove(h)
       \/ UseIfExists(h)
       \/ \E value \in Hints : SetEntryInMemoryData(h, value)
       \/ \E size \in Sizes : UpdateEntrySize(h, size)
  \/ \E max \in MaxSizes : SetMaxSize(max)
  \/ EvictionDone
  \/ \E c \in Callbacks : ExecuteWhenReady(c)
  \/ RunPostedTask
  \/ LoadIndexEntries
  \/ MergeInitializingSet
  \/ TimerFires
  \/ OnApplicationStateChange
  \/ Destroy
  \/ Tick

Spec == Init /\ [][Next]_vars

\* The worker finishes its load and the task runner runs what is posted to it.
Fairness == WF_vars(LoadIndexEntries) /\ WF_vars(MergeInitializingSet) /\ WF_vars(RunPostedTask)

FairSpec == Spec /\ Fairness

-----------------------------------------------------------------------------

\* Every variable stays in the range its C++ type and use give it; in particular
\* cache_size_, an unsigned sum of differences, never wraps below zero.
TypeOK ==
  /\ entriesSet \in [Hashes -> Metadata \cup {NoEntry}]
  /\ cacheSize \in Nat
  /\ maxSize \in MaxSizes
  /\ evictionInProgress \in BOOLEAN
  /\ removedEntries \subseteq Hashes
  /\ initialized \in BOOLEAN
  /\ timerRunning \in BOOLEAN
  /\ toRun \in Seq(Callbacks)
  /\ posted \in Seq(Callbacks \X {"OK"})
  /\ alive \in BOOLEAN
  /\ now \in Nat
  /\ loadResult \in LoadResults \cup {NoEntry}
  /\ onDisk \in InitialDisks
  /\ last \in [Hashes -> {"untouched", "inserted", "removed"}]
  /\ ran \in [Callbacks -> Seq({"OK", "ERR_ABORTED"})]
  /\ saved \in [Hashes -> Metadata \cup {NoEntry}]
  /\ unwritten \in [Hashes -> Metadata \cup {NoEntry}] \cup {NoEntry}

\* An entry removed while the index was loading does not come back with the merge,
\* and one removed and created again does (removed_entries_).
NoResurrection ==
  \A h \in Hashes :
    /\ last[h] = "removed" => entriesSet[h] = NoEntry
    /\ last[h] = "inserted" => entriesSet[h] # NoEntry

\* Has() answers no only for entries that do not exist: once a complete load is
\* merged the index is what was on disk, with what was done to it since.
HasIsExact ==
  initialized /\ loadResult.complete =>
    \A h \in Hashes :
      Has(h) <=> \/ last[h] = "inserted"
                 \/ last[h] = "untouched" /\ onDisk[h] # NoEntry

\* cache_size_ is the total of the entries, through evictions, merges and size
\* updates in any order: evictions start from it.
CacheSizeIsTotal == cacheSize = totalSize(entriesSet)

withoutHint(m) == IF m = NoEntry THEN NoEntry ELSE <<m.lastUsed, m.size>>

sameButHints(entries, others) ==
  \A h \in Hashes : withoutHint(entries[h]) = withoutHint(others[h])

\* Once loaded, the index is on disk but for its hints, or the timer that writes it
\* runs, unless it is just what a merge that had not to be written has left: changes
\* made before such a merge wait for the next one (PostponeWritingToDisk, WriteToDisk,
\* flush_required, ~SimpleBackendImpl).
SavedOrScheduled ==
  initialized =>
    \/ timerRunning
    \/ sameButHints(entriesSet, saved)
    \/ ~loadResult.flush /\ unwritten # NoEntry /\ sameButHints(entriesSet, unwritten)

\* A cache that grows past its watermark while loaded is being evicted from, and
\* an eviction leaves it at its low watermark or empty (StartEvictionIfNeeded).
EvictionKeepsUp ==
  [][ /\ initialized /\ cacheSize' > cacheSize =>
           evictionInProgress' \/ cacheSize' <= highWatermark(maxSize')
      /\ ~evictionInProgress /\ evictionInProgress' =>
           cacheSize' <= lowWatermark(maxSize') \/ live(entriesSet') = {} ]_vars

\* In a generated code cache only the time of the last use counts: no entry is
\* evicted before one that was used earlier, whatever their sizes.
EvictsLeastRecentlyUsed ==
  [][ ~UseSizeHeuristic /\ ~evictionInProgress /\ evictionInProgress' =>
        \A h, k \in live(entriesSet) :
          entriesSet'[h] = NoEntry /\ entriesSet'[k] # NoEntry =>
            entriesSet[h].lastUsed <= entriesSet[k].lastUsed ]_vars

\* In an HTTP cache an entry used later and no bigger than one without a priority
\* hint is not evicted while that one stays (sort_value).  Stated of evictions that
\* a lower limit starts, so that no size changes in the same step.
EvictsStaleAndBigFirst ==
  [][ UseSizeHeuristic /\ maxSize' < maxSize =>
        \A h, k \in live(entriesSet) :
          /\ entriesSet[h].lastUsed > entriesSet[k].lastUsed
          /\ entriesSet[h].size <= entriesSet[k].size
          /\ entriesSet[k].hint # HighPriority
          /\ entriesSet'[k] # NoEntry
          => entriesSet'[h] # NoEntry ]_vars

\* A task given to ExecuteWhenReady is run, once and for all: with OK only after
\* the load, and aborted only by the destructor (ExecuteWhenReady, ~SimpleIndex).
CallbacksEventuallyRun ==
  \A c \in Callbacks :
    (\E i \in DOMAIN toRun : toRun[i] = c) ~>
      [](\/ ran[c] = <<"OK">> /\ initialized
         \/ ran[c] = <<"ERR_ABORTED">> /\ ~alive)

=============================================================================
