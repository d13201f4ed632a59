--------------------------- MODULE SimpleIndexProofs ---------------------------
(***************************************************************************)
(* The index, for any set of hashes, any disk and any load: what it says   *)
(* of the existence of an entry (NoResurrection, HasIsExact), and, for a   *)
(* finite set, its size and evictions (CacheSizeIsTotal and what rests on  *)
(* it).                                                                    *)
(*                                                                         *)
(* Neither of the first two is inductive.  Until the merge the index holds *)
(* exactly the entries inserted last, removed_entries_ exactly those       *)
(* removed last, and a complete load exactly the disk for the hashes       *)
(* nobody touched; the merge turns these three into the two properties.    *)
(*                                                                         *)
(* A total is a fold, a recursive function on the subsets of a set.  A     *)
(* claim about every total is proved from a smallest set that it is false  *)
(* of: strict inclusion is well founded on the subsets of a finite set.    *)
(***************************************************************************)
EXTENDS SimpleIndex, TLAPS, FiniteSetTheorems, WellFoundedInduction

MapsTyped ==
  /\ entriesSet \in [Hashes -> Metadata \cup {NoEntry}]
  /\ last \in [Hashes -> {"untouched", "inserted", "removed"}]
  /\ now \in Nat
  /\ loadResult \in LoadResults \cup {NoEntry}
  /\ onDisk \in [Hashes -> Metadata \cup {NoEntry}]
  /\ initialized \in BOOLEAN

\* The index and removed_entries_ while the load is under way.
BeforeMerge ==
  ~initialized =>
    \A h \in Hashes :
      /\ entriesSet[h] # NoEntry <=> last[h] = "inserted"
      /\ h \in removedEntries <=> last[h] = "removed"

\* A complete load, not yet merged, is right about the hashes nobody touched.
LoadIsExact ==
  ~initialized /\ loadResult # NoEntry /\ loadResult.complete =>
    \A h \in Hashes : last[h] = "untouched" => loadResult.entries[h] = onDisk[h]

\* After the merge.
AfterMerge ==
  initialized =>
    /\ loadResult # NoEntry
    /\ \A h \in Hashes :
         loadResult.complete /\ last[h] = "untouched" =>
           (entriesSet[h] # NoEntry <=> onDisk[h] # NoEntry)

IndexInv == MapsTyped /\ NoResurrection /\ BeforeMerge /\ LoadIsExact /\ AfterMerge

-----------------------------------------------------------------------------

LEMMA InitIndexInv == Init => IndexInv
<1> SUFFICES ASSUME Init PROVE IndexInv
  OBVIOUS
<1>1. MapsTyped
  BY IndexAssumption DEF IndexAssumption, Init, MapsTyped
<1>2. NoResurrection /\ BeforeMerge /\ LoadIsExact /\ AfterMerge
  BY DEF Init, NoResurrection, BeforeMerge, LoadIsExact, AfterMerge
<1> QED BY <1>1, <1>2 DEF IndexInv

\* An eviction only turns entries that exist into removed ones, whatever their
\* sort values are.
LEMMA EvictionDrops ==
  ASSUME MapsTyped, NEW entries \in [Hashes -> Metadata \cup {NoEntry}],
         NEW size, NEW max,
         StartEvictionIfNeeded(entries, size, max)
  PROVE  \E doomed \in SUBSET Hashes :
           /\ \A h \in doomed : entries[h] # NoEntry
           /\ entriesSet' = [h \in Hashes |-> IF h \in doomed THEN NoEntry ELSE entries[h]]
           /\ last' = [h \in Hashes |-> IF h \in doomed THEN "removed" ELSE last[h]]
           /\ ~initialized => removedEntries' = removedEntries \cup doomed
<1>1. CASE evictionInProgress \/ size <= highWatermark(max)
  <2>1. entriesSet' = entries /\ last' = last /\ removedEntries' = removedEntries
    BY <1>1 DEF StartEvictionIfNeeded
  <2>2. entries = [h \in Hashes |-> IF h \in {} THEN NoEntry ELSE entries[h]]
    OBVIOUS
  <2>3. last = [h \in Hashes |-> IF h \in {} THEN "removed" ELSE last[h]]
    BY DEF MapsTyped
  <2>4. removedEntries' = removedEntries \cup {} /\ {} \in SUBSET Hashes
    BY <2>1
  <2> WITNESS {} \in SUBSET Hashes
  <2> QED BY <2>1, <2>2, <2>3, <2>4
<1>2. CASE ~(evictionInProgress \/ size <= highWatermark(max))
  <2>1. PICK doomed \in victims(entries, size - lowWatermark(max)) :
          /\ entriesSet' = Drop(entries, doomed)
          /\ removedEntries' = IF initialized THEN removedEntries
                                             ELSE removedEntries \cup doomed
          /\ last' = [h \in Hashes |-> IF h \in doomed THEN "removed" ELSE last[h]]
    BY <1>2 DEF StartEvictionIfNeeded
  <2>2. doomed \in SUBSET Hashes /\ \A h \in doomed : entries[h] # NoEntry
    BY DEF victims, live
  <2> QED BY <2>1, <2>2 DEF Drop
<1> QED BY <1>1, <1>2

\* The invariant survives an eviction that starts from the same set of entries.
LEMMA EvictionPreserves ==
  ASSUME IndexInv, NEW entries \in [Hashes -> Metadata \cup {NoEntry}],
         NEW size, NEW max,
         \A h \in Hashes : entries[h] = NoEntry <=> entriesSet[h] = NoEntry,
         StartEvictionIfNeeded(entries, size, max),
         UNCHANGED <<initialized, now, loadResult, onDisk>>
  PROVE  IndexInv'
<1>1. PICK doomed \in SUBSET Hashes :
        /\ \A h \in doomed : entries[h] # NoEntry
        /\ entriesSet' = [h \in Hashes |-> IF h \in doomed THEN NoEntry ELSE entries[h]]
        /\ last' = [h \in Hashes |-> IF h \in doomed THEN "removed" ELSE last[h]]
        /\ ~initialized => removedEntries' = removedEntries \cup doomed
  BY EvictionDrops DEF IndexInv
<1>2. MapsTyped'
  BY <1>1 DEF IndexInv, MapsTyped
<1>3. NoResurrection'
  BY <1>1 DEF IndexInv, MapsTyped, NoResurrection
<1>4. BeforeMerge'
  BY <1>1 DEF IndexInv, MapsTyped, BeforeMerge
<1>5. LoadIsExact' /\ AfterMerge'
  BY <1>1 DEF IndexInv, MapsTyped, LoadIsExact, AfterMerge
<1> QED BY <1>2, <1>3, <1>4, <1>5 DEF IndexInv

LEMMA InsertPreserves ==
  ASSUME IndexInv, NEW h \in Hashes, Insert(h)
  PROVE  IndexInv'
<1> USE DEF Insert, IndexInv
<1>1. [lastUsed |-> now, size |-> 0, hint |-> 0] \in Metadata
  BY IndexAssumption DEF IndexAssumption, MapsTyped, Metadata
<1>2. [lastUsed |-> now, size |-> 0, hint |-> 0] # NoEntry
  BY <1>1, IndexAssumption DEF IndexAssumption
<1>3. entriesSet'[h] # NoEntry /\ \A k \in Hashes \ {h} : entriesSet'[k] = entriesSet[k]
  BY <1>2 DEF MapsTyped
<1>4. MapsTyped'
  BY <1>1 DEF MapsTyped
<1>5. NoResurrection' /\ LoadIsExact' /\ AfterMerge'
  BY <1>3 DEF MapsTyped, NoResurrection, LoadIsExact, AfterMerge
<1>6. BeforeMerge'
  BY <1>3 DEF MapsTyped, BeforeMerge
<1> QED BY <1>4, <1>5, <1>6

LEMMA RemovePreserves ==
  ASSUME IndexInv, NEW h \in Hashes, Remove(h)
  PROVE  IndexInv'
<1> USE DEF Remove, IndexInv
<1>1. entriesSet'[h] = NoEntry /\ \A k \in Hashes \ {h} : entriesSet'[k] = entriesSet[k]
  BY DEF MapsTyped
<1>2. MapsTyped'
  BY DEF MapsTyped
<1>3. NoResurrection' /\ LoadIsExact' /\ AfterMerge'
  BY <1>1 DEF MapsTyped, NoResurrection, LoadIsExact, AfterMerge
<1>4. BeforeMerge'
  BY <1>1 DEF MapsTyped, BeforeMerge
<1> QED BY <1>2, <1>3, <1>4

\* An entry's metadata change, its existence does not.
LEMMA UpdatePreserves ==
  ASSUME IndexInv, NEW h \in Hashes, NEW m \in Metadata, entriesSet[h] # NoEntry,
         entriesSet' = [entriesSet EXCEPT ![h] = m],
         UNCHANGED <<removedEntries, initialized, now, loadResult, onDisk, last>>
  PROVE  IndexInv'
<1>1. m # NoEntry
  BY IndexAssumption DEF IndexAssumption
<1> QED
  BY <1>1 DEF IndexInv, MapsTyped, NoResurrection, BeforeMerge, LoadIsExact, AfterMerge

LEMMA UseIfExistsPreserves ==
  ASSUME IndexInv, NEW h \in Hashes, UseIfExists(h)
  PROVE  IndexInv'
<1> DEFINE m == [entriesSet[h] EXCEPT !.lastUsed = now]
<1>1. entriesSet[h] \in Metadata
  BY DEF UseIfExists, IndexInv, MapsTyped
<1>2. m \in Metadata
  BY <1>1 DEF IndexInv, MapsTyped, Metadata
<1>3. entriesSet' = [entriesSet EXCEPT ![h] = m]
  BY DEF UseIfExists
<1> QED BY <1>2, <1>3, UpdatePreserves DEF UseIfExists

LEMMA SetEntryInMemoryDataPreserves ==
  ASSUME IndexInv, NEW h \in Hashes, NEW value \in Hints, SetEntryInMemoryData(h, value)
  PROVE  IndexInv'
<1> DEFINE m == [entriesSet[h] EXCEPT !.hint = value]
<1>1. entriesSet[h] \in Metadata
  BY DEF SetEntryInMemoryData, IndexInv, MapsTyped
<1>2. m \in Metadata
  BY <1>1 DEF Metadata
<1>3. entriesSet' = [entriesSet EXCEPT ![h] = m]
  BY DEF SetEntryInMemoryData
<1> QED BY <1>2, <1>3, UpdatePreserves DEF SetEntryInMemoryData

LEMMA UpdateEntrySizePreserves ==
  ASSUME IndexInv, NEW h \in Hashes, NEW size \in Sizes, UpdateEntrySize(h, size)
  PROVE  IndexInv'
<1> DEFINE m == [entriesSet[h] EXCEPT !.size = size]
           entries == [entriesSet EXCEPT ![h] = m]
           total == cacheSize - entriesSet[h].size + size
<1>1. entriesSet[h] \in Metadata
  BY DEF UpdateEntrySize, IndexInv, MapsTyped
<1>2. m \in Metadata /\ m # NoEntry
  BY <1>1, IndexAssumption DEF IndexAssumption, Metadata
<1>3. entries \in [Hashes -> Metadata \cup {NoEntry}]
  BY <1>2 DEF IndexInv, MapsTyped
<1>4. \A k \in Hashes : entries[k] = NoEntry <=> entriesSet[k] = NoEntry
  BY <1>1, <1>2, IndexAssumption DEF IndexAssumption, IndexInv, MapsTyped
<1>5. StartEvictionIfNeeded(entries, total, maxSize)
  BY DEF UpdateEntrySize
<1>6. UNCHANGED <<initialized, now, loadResult, onDisk>>
  BY DEF UpdateEntrySize
<1> HIDE DEF entries, total
<1> QED BY <1>3, <1>4, <1>5, <1>6, EvictionPreserves

LEMMA SetMaxSizePreserves ==
  ASSUME IndexInv, NEW max \in MaxSizes, SetMaxSize(max)
  PROVE  IndexInv'
<1>1. UNCHANGED <<initialized, now, loadResult, onDisk>>
  BY DEF SetMaxSize
<1>2. CASE max < maxSize
  <2>1. StartEvictionIfNeeded(entriesSet, cacheSize, max)
    BY <1>2 DEF SetMaxSize
  <2> QED BY <1>1, <2>1, EvictionPreserves DEF IndexInv, MapsTyped
<1>3. CASE ~(max < maxSize)
  BY <1>1, <1>3
  DEF SetMaxSize, memory, IndexInv, MapsTyped, NoResurrection, BeforeMerge, LoadIsExact,
      AfterMerge
<1> QED BY <1>2, <1>3

\* What a scan sees of a hash nobody touched is what is on disk.
LEMMA LoadPreserves ==
  ASSUME IndexInv, LoadIndexEntries
  PROVE  IndexInv'
<1> USE DEF IndexInv
<1> DEFINE Entries == [Hashes -> Metadata \cup {NoEntry}]
<1>1. \A h \in Hashes : scanned(h) \subseteq Metadata \cup {NoEntry}
  <2> SUFFICES ASSUME NEW h \in Hashes PROVE scanned(h) \subseteq Metadata \cup {NoEntry}
    OBVIOUS
  <2>1. onDisk[h] \in Metadata \cup {NoEntry} /\ now \in Nat
    BY DEF MapsTyped
  <2>2. 0 \in Hints /\ \A s \in Sizes : s \in Nat
    BY IndexAssumption
  <2>3. \A s \in Sizes : [lastUsed |-> now, size |-> s, hint |-> 0] \in Metadata
    BY <2>1, <2>2 DEF Metadata
  <2> QED BY <2>1, <2>3 DEF scanned
<1>2. \A f \in Scans : /\ f \in Entries
                       /\ \A h \in Hashes : last[h] = "untouched" => f[h] = onDisk[h]
  <2> SUFFICES ASSUME NEW f \in Scans
               PROVE  /\ f \in Entries
                      /\ \A h \in Hashes : last[h] = "untouched" => f[h] = onDisk[h]
    OBVIOUS
  <2>1. \A h \in Hashes : f[h] \in scanned(h)
    BY DEF Scans
  <2>2. f \in [Hashes -> UNION { scanned(h) : h \in Hashes }]
    BY DEF Scans
  <2>3. f \in Entries
    BY <1>1, <2>1, <2>2
  <2>4. \A h \in Hashes : last[h] = "untouched" => f[h] = onDisk[h]
    BY <2>1 DEF scanned
  <2> QED BY <2>3, <2>4
<1>3. \A lost : \A f \in Entries : Drop(f, lost) \in Entries
  BY DEF Drop
<1>4. \E f \in Entries, flush \in BOOLEAN, complete \in BOOLEAN :
        /\ loadResult' = [entries |-> f, flush |-> flush, complete |-> complete]
        /\ complete => \A h \in Hashes : last[h] = "untouched" => f[h] = onDisk[h]
  <2> HIDE DEF Entries
  <2>0. onDisk \in Entries
    BY DEF MapsTyped, Entries
  <2>1. CASE loadResult' = [entries |-> onDisk, flush |-> FALSE, complete |-> TRUE]
    BY <2>0, <2>1
  <2>2. CASE \E f \in Scans :
               loadResult' = [entries |-> f, flush |-> TRUE, complete |-> TRUE]
    BY <1>2, <2>2
  <2>3. CASE \E f \in Scans, lost \in SUBSET Hashes :
               loadResult' = [entries |-> Drop(f, lost), flush |-> FALSE, complete |-> FALSE]
    BY <1>2, <1>3, <2>3
  <2> QED BY <2>1, <2>2, <2>3 DEF LoadIndexEntries
<1>5. ~initialized
  BY DEF LoadIndexEntries, AfterMerge
<1>6. UNCHANGED <<entriesSet, removedEntries, initialized, now, onDisk, last>>
  BY DEF LoadIndexEntries, memory
<1>7. loadResult' \in LoadResults
  BY <1>4 DEF LoadResults
<1>8. MapsTyped' /\ NoResurrection' /\ BeforeMerge' /\ AfterMerge'
  BY <1>5, <1>6, <1>7 DEF MapsTyped, NoResurrection, BeforeMerge, AfterMerge
<1>9. LoadIsExact'
  BY <1>4, <1>6 DEF LoadIsExact
<1> QED BY <1>8, <1>9

LEMMA MergePreserves ==
  ASSUME IndexInv, MergeInitializingSet
  PROVE  IndexInv'
<1> USE DEF IndexInv
<1>1. ~initialized /\ initialized' /\ loadResult \in LoadResults
  BY DEF MergeInitializingSet, MapsTyped
<1>2. loadResult.entries \in [Hashes -> Metadata \cup {NoEntry}]
  BY <1>1 DEF LoadResults
<1>3. entriesSet' = merged /\ UNCHANGED <<now, onDisk, last>>
  BY DEF MergeInitializingSet
<1>4. merged \in [Hashes -> Metadata \cup {NoEntry}]
  BY <1>2 DEF merged, MapsTyped
<1>5. loadResult' = [loadResult EXCEPT !.entries = [h \in Hashes |-> NoEntry]]
  BY DEF MergeInitializingSet
<1>6. loadResult' \in LoadResults /\ loadResult'.complete = loadResult.complete
  BY <1>1, <1>5 DEF LoadResults
<1>7. loadResult' # NoEntry /\ loadResult # NoEntry
  BY <1>1, <1>6, IndexAssumption DEF IndexAssumption
<1>8. \A h \in Hashes :
        /\ last[h] = "inserted" => merged[h] # NoEntry
        /\ last[h] = "removed" => merged[h] = NoEntry
        /\ last[h] = "untouched" => merged[h] = loadResult.entries[h]
  BY <1>1 DEF merged, BeforeMerge
<1>9. MapsTyped'
  BY <1>1, <1>3, <1>4, <1>6 DEF MapsTyped
<1>10. NoResurrection'
  BY <1>3, <1>8 DEF NoResurrection
<1>11. BeforeMerge' /\ LoadIsExact'
  BY <1>1 DEF BeforeMerge, LoadIsExact
<1>12. AfterMerge'
  BY <1>1, <1>3, <1>6, <1>7, <1>8 DEF AfterMerge, LoadIsExact
<1> QED BY <1>9, <1>10, <1>11, <1>12

\* Steps that leave the entries, the load and the history alone.
LEMMA OthersPreserve ==
  ASSUME IndexInv, now' \in Nat,
         UNCHANGED <<entriesSet, removedEntries, initialized, loadResult, onDisk, last>>
  PROVE  IndexInv'
  BY DEF IndexInv, MapsTyped, NoResurrection, BeforeMerge, LoadIsExact, AfterMerge

LEMMA NextIndexInv == IndexInv /\ [Next]_vars => IndexInv'
<1> SUFFICES ASSUME IndexInv, [Next]_vars
             PROVE  IndexInv'
  OBVIOUS
<1>0. now \in Nat
  BY DEF IndexInv, MapsTyped
<1>1. ASSUME NEW h \in Hashes, Insert(h) PROVE IndexInv'
  BY <1>1, InsertPreserves
<1>2. ASSUME NEW h \in Hashes, Remove(h) PROVE IndexInv'
  BY <1>2, RemovePreserves
<1>3. ASSUME NEW h \in Hashes, UseIfExists(h) PROVE IndexInv'
  BY <1>3, UseIfExistsPreserves
<1>4. ASSUME NEW h \in Hashes, NEW value \in Hints, SetEntryInMemoryData(h, value)
      PROVE IndexInv'
  BY <1>4, SetEntryInMemoryDataPreserves
<1>5. ASSUME NEW h \in Hashes, NEW size \in Sizes, UpdateEntrySize(h, size)
      PROVE IndexInv'
  BY <1>5, UpdateEntrySizePreserves
<1>6. ASSUME NEW max \in MaxSizes, SetMaxSize(max) PROVE IndexInv'
  BY <1>6, SetMaxSizePreserves
<1>7. CASE EvictionDone
  BY <1>0, <1>7, OthersPreserve DEF EvictionDone
<1>8. ASSUME NEW c \in Callbacks, ExecuteWhenReady(c) PROVE IndexInv'
  BY <1>0, <1>8, OthersPreserve DEF ExecuteWhenReady, memory
<1>9. CASE RunPostedTask
  BY <1>0, <1>9, OthersPreserve DEF RunPostedTask, memory
<1>10. CASE LoadIndexEntries
  BY <1>10, LoadPreserves
<1>11. CASE MergeInitializingSet
  BY <1>11, MergePreserves
<1>12. CASE TimerFires
  BY <1>0, <1>12, OthersPreserve DEF TimerFires, memory
<1>13. CASE OnApplicationStateChange
  BY <1>0, <1>13, OthersPreserve DEF OnApplicationStateChange, memory
<1>14. CASE Destroy
  BY <1>0, <1>14, OthersPreserve DEF Destroy, memory
<1>15. CASE Tick
  BY <1>0, <1>15, OthersPreserve DEF Tick, memory
<1>16. CASE UNCHANGED vars
  BY <1>0, <1>16, OthersPreserve DEF vars, memory
<1> QED
  BY <1>1, <1>2, <1>3, <1>4, <1>5, <1>6, <1>7, <1>8, <1>9, <1>10, <1>11, <1>12, <1>13,
     <1>14, <1>15, <1>16 DEF Next

LEMMA IndexInvHolds == Spec => []IndexInv
  BY InitIndexInv, NextIndexInv, PTL DEF Spec

-----------------------------------------------------------------------------

\* An entry removed while the index file was being loaded is not brought back by
\* the merge, by an eviction or by anything else, and one created stays, until it
\* is removed (removed_entries_, MergeInitializingSet).
THEOREM RemovedStaysRemoved == Spec => []NoResurrection
<1>1. IndexInv => NoResurrection
  BY DEF IndexInv
<1> QED BY <1>1, IndexInvHolds, PTL

\* Once a complete load is merged, Has() is exactly the disk's listing with every
\* insertion, removal and eviction since applied to it.
THEOREM HasExact == Spec => []HasIsExact
<1>1. IndexInv => HasIsExact
  BY DEF IndexInv, HasIsExact, Has, NoResurrection, AfterMerge, MapsTyped
<1> QED BY <1>1, IndexInvHolds, PTL

-------------------------------------------------------------------------------
(* Totals *)

\* Among sets of subsets of a finite set there is a smallest one.
LEMMA SmallestSubset ==
  ASSUME NEW S, IsFiniteSet(S), NEW B, B \subseteq SUBSET S, B # {}
  PROVE  \E T \in B : \A U \in B : U \subseteq T => U = T
<1>1. SUBSET S \subseteq FiniteSubsetsOf(S)
  BY FS_Subset DEF FiniteSubsetsOf
<1>2. IsWellFoundedOn(StrictSubsetOrdering(S), FiniteSubsetsOf(S))
  BY FS_StrictSubsetOrderingWellFounded
<1>3. PICK T \in B : \A U \in B : ~ (<<U, T>> \in StrictSubsetOrdering(S))
  BY <1>1, <1>2, WFMin
<1> QED BY <1>3 DEF StrictSubsetOrdering

pick(s) == CHOOSE x \in s : TRUE

\* g holds the total of every subset of S.
Totals(g, e, S) ==
  g = [s \in SUBSET S |-> IF s = {} THEN 0 ELSE g[s \ {pick(s)}] + e[pick(s)].size]

LEMMA SizeOfTotals ==
  ASSUME NEW e, NEW S
  PROVE  sizeOf(e, S) = (CHOOSE g : Totals(g, e, S))[S]
  BY DEF sizeOf, FoldSet, MapThenFoldSet, Totals, pick

LEMMA TotalsUnfold ==
  ASSUME NEW e, NEW S, NEW g, Totals(g, e, S)
  PROVE  /\ g[{}] = 0
         /\ \A s \in SUBSET S : s # {} =>
              /\ pick(s) \in s /\ s \ {pick(s)} \in SUBSET S
              /\ g[s] = g[s \ {pick(s)}] + e[pick(s)].size
  BY DEF Totals, pick

LEMMA TotalsAgree ==
  ASSUME NEW e, NEW S, IsFiniteSet(S), NEW T \in SUBSET S, NEW U \in SUBSET S,
         NEW g, Totals(g, e, T), NEW h, Totals(h, e, U),
         NEW s \in SUBSET T, s \in SUBSET U
  PROVE  g[s] = h[s]
<1> DEFINE B == { t \in SUBSET S : t \subseteq T /\ t \subseteq U /\ g[t] # h[t] }
<1>1. SUFFICES ASSUME B # {} PROVE FALSE
  OBVIOUS
<1>2. PICK t \in B : \A u \in B : u \subseteq t => u = t
  <2>1. B \subseteq SUBSET S
    OBVIOUS
  <2> HIDE DEF B
  <2> QED BY <1>1, <2>1, SmallestSubset
<1>3. t # {}
  <2>1. g[{}] = 0 /\ h[{}] = 0
    BY TotalsUnfold
  <2> QED BY <2>1
<1>4. /\ pick(t) \in t /\ t \ {pick(t)} \in SUBSET S
      /\ g[t] = g[t \ {pick(t)}] + e[pick(t)].size
      /\ h[t] = h[t \ {pick(t)}] + e[pick(t)].size
  BY <1>3, TotalsUnfold
<1>5. t \ {pick(t)} \in B
  BY <1>4
<1> QED BY <1>2, <1>4, <1>5

LEMMA TotalsExist ==
  ASSUME NEW e, NEW S, IsFiniteSet(S)
  PROVE  \E g : Totals(g, e, S)
<1> DEFINE B == { T \in SUBSET S : ~ \E g : Totals(g, e, T) }
<1>1. SUFFICES ASSUME B # {} PROVE FALSE
  OBVIOUS
<1>2. PICK T \in B : \A U \in B : U \subseteq T => U = T
  <2>1. B \subseteq SUBSET S
    OBVIOUS
  <2> HIDE DEF B
  <2> QED BY <1>1, <2>1, SmallestSubset
<1> DEFINE total(U) == (CHOOSE h : Totals(h, e, U))[U]
           g == [s \in SUBSET T |->
                   IF s = {} THEN 0 ELSE total(s \ {pick(s)}) + e[pick(s)].size]
<1>3. ASSUME NEW U, U \subseteq T, U # T
      PROVE  /\ Totals(CHOOSE h : Totals(h, e, U), e, U)
             /\ U = {} => total(U) = 0
             /\ U # {} => total(U) = total(U \ {pick(U)}) + e[pick(U)].size
  <2>1. PICK h : h = CHOOSE k : Totals(k, e, U)
    OBVIOUS
  <2>2. Totals(h, e, U)
    BY <1>2, <1>3, <2>1
  <2>3. total(U) = h[U]
    BY <2>1
  <2>4. ASSUME U # {}
        PROVE  total(U) = total(U \ {pick(U)}) + e[pick(U)].size
    <3>1. pick(U) \in U /\ h[U] = h[U \ {pick(U)}] + e[pick(U)].size
      BY <2>2, <2>4, TotalsUnfold
    <3>2. PICK V, k : V = U \ {pick(U)} /\ k = CHOOSE f : Totals(f, e, V)
      OBVIOUS
    <3>3. V \subseteq T /\ V # T
      BY <1>3, <3>1, <3>2
    <3>4. Totals(k, e, V)
      BY <1>2, <3>2, <3>3
    <3>5. h[V] = k[V]
      <4>1. U \in SUBSET S /\ V \in SUBSET S /\ V \in SUBSET U /\ V \in SUBSET V
        BY <1>2, <1>3, <3>2
      <4> HIDE DEF total, g, B
      <4> QED BY SMTT(30), <2>2, <3>4, <4>1, TotalsAgree
    <3> QED BY <2>3, <3>1, <3>2, <3>5
  <2>5. U = {} => total(U) = 0
    BY <2>2, <2>3, TotalsUnfold
  <2> QED BY <2>1, <2>2, <2>4, <2>5
<1>4. ASSUME NEW s \in SUBSET T, s # {}
      PROVE  g[s \ {pick(s)}] = total(s \ {pick(s)})
  <2>1. pick(s) \in s
    BY <1>4 DEF pick
  <2>2. PICK U : U = s \ {pick(s)}
    OBVIOUS
  <2>3. U \subseteq T /\ U # T /\ U \in SUBSET T
    BY <2>1, <2>2
  <2>4. CASE U = {}
    <3>1. g[U] = 0
      BY <2>3, <2>4
    <3>2. total(U) = 0
      BY <1>3, <2>3, <2>4
    <3> QED BY <2>2, <3>1, <3>2
  <2>5. CASE U # {}
    <3>1. g[U] = total(U \ {pick(U)}) + e[pick(U)].size
      BY <2>3, <2>5
    <3>2. total(U) = total(U \ {pick(U)}) + e[pick(U)].size
      BY <1>3, <2>3, <2>5
    <3> QED BY <2>2, <3>1, <3>2
  <2> QED BY <2>4, <2>5
<1>5. PICK f : f = g
  OBVIOUS
<1>6. \A s \in SUBSET T : f[s] = IF s = {} THEN 0 ELSE f[s \ {pick(s)}] + e[pick(s)].size
  <2>1. ASSUME NEW s \in SUBSET T, s = {}
        PROVE  f[s] = 0
    BY <1>5, <2>1
  <2>2. ASSUME NEW s \in SUBSET T, s # {}
        PROVE  f[s] = f[s \ {pick(s)}] + e[pick(s)].size
    <3>1. g[s] = total(s \ {pick(s)}) + e[pick(s)].size
      BY <2>2
    <3>2. g[s \ {pick(s)}] = total(s \ {pick(s)})
      BY <1>4, <2>2
    <3> HIDE DEF g, total
    <3> QED BY <1>5, <3>1, <3>2
  <2> QED BY <2>1, <2>2
<1>7. DOMAIN f = SUBSET T /\ f = [s \in DOMAIN f |-> f[s]]
  BY <1>5
<1>8. Totals(f, e, T)
  <2> HIDE DEF g, B, total
  <2> QED BY <1>6, <1>7 DEF Totals
<1> QED BY <1>2, <1>8

\* The total of nothing is 0, that of a set comes from the total without one element.
LEMMA SizeUnfolds ==
  ASSUME NEW e, NEW S, IsFiniteSet(S)
  PROVE  /\ sizeOf(e, {}) = 0
         /\ S # {} => /\ pick(S) \in S
                      /\ sizeOf(e, S) = sizeOf(e, S \ {pick(S)}) + e[pick(S)].size
<1>1. ASSUME NEW T \in SUBSET S
      PROVE  \E g : Totals(g, e, T) /\ sizeOf(e, T) = g[T]
  <2>1. IsFiniteSet(T)
    BY FS_Subset
  <2>2. PICK g : g = CHOOSE h : Totals(h, e, T)
    OBVIOUS
  <2>3. Totals(g, e, T)
    BY <2>1, <2>2, TotalsExist
  <2> QED BY <2>2, <2>3, SizeOfTotals
<1>2. sizeOf(e, {}) = 0
  BY <1>1, TotalsUnfold
<1>3. ASSUME S # {}
      PROVE  pick(S) \in S /\ sizeOf(e, S) = sizeOf(e, S \ {pick(S)}) + e[pick(S)].size
  <2>1. PICK g : Totals(g, e, S) /\ sizeOf(e, S) = g[S]
    BY <1>1
  <2>2. pick(S) \in S /\ g[S] = g[S \ {pick(S)}] + e[pick(S)].size
    BY <1>3, <2>1, TotalsUnfold
  <2>3. PICK T : T = S \ {pick(S)}
    OBVIOUS
  <2>4. PICK h : Totals(h, e, T) /\ sizeOf(e, T) = h[T]
    BY <1>1, <2>3
  <2>5. g[T] = h[T]
    <3>1. S \in SUBSET S /\ T \in SUBSET S /\ T \in SUBSET T
      BY <2>3
    <3> QED BY <2>1, <2>4, <3>1, TotalsAgree
  <2> QED BY <2>1, <2>2, <2>3, <2>4, <2>5
<1> QED BY <1>2, <1>3

\* The entries of S have sizes.
Sized(e, S) == IsFiniteSet(S) /\ \A h \in S : e[h].size \in Nat

LEMMA SizeIsNat ==
  ASSUME NEW e, NEW S, Sized(e, S)
  PROVE  sizeOf(e, S) \in Nat
<1> DEFINE B == { T \in SUBSET S : sizeOf(e, T) \notin Nat }
<1>1. SUFFICES ASSUME B # {} PROVE FALSE
  OBVIOUS
<1>2. PICK T \in B : \A U \in B : U \subseteq T => U = T
  <2>1. B \subseteq SUBSET S /\ IsFiniteSet(S)
    BY DEF Sized
  <2> HIDE DEF B
  <2> QED BY <1>1, <2>1, SmallestSubset
<1>3. IsFiniteSet(T)
  BY FS_Subset DEF Sized
<1>4. T # {}
  <2>1. sizeOf(e, {}) = 0
    BY <1>3, SizeUnfolds
  <2> QED BY <2>1
<1>5. pick(T) \in T /\ sizeOf(e, T) = sizeOf(e, T \ {pick(T)}) + e[pick(T)].size
  BY <1>3, <1>4, SizeUnfolds
<1>6. sizeOf(e, T \ {pick(T)}) \in Nat
  BY <1>2, <1>5
<1>7. e[pick(T)].size \in Nat
  BY <1>5 DEF Sized
<1>8. sizeOf(e, T) \notin Nat
  BY <1>2
<1> HIDE DEF B
<1> QED BY <1>5, <1>6, <1>7, <1>8

\* Only the entries that are added up count.
LEMMA SizeSame ==
  ASSUME NEW e, NEW f, NEW S, IsFiniteSet(S), \A h \in S : e[h].size = f[h].size
  PROVE  sizeOf(e, S) = sizeOf(f, S)
<1> DEFINE B == { T \in SUBSET S : sizeOf(e, T) # sizeOf(f, T) }
<1>1. SUFFICES ASSUME B # {} PROVE FALSE
  OBVIOUS
<1>2. PICK T \in B : \A U \in B : U \subseteq T => U = T
  <2>1. B \subseteq SUBSET S
    OBVIOUS
  <2> HIDE DEF B
  <2> QED BY <1>1, <2>1, SmallestSubset
<1>3. IsFiniteSet(T)
  BY FS_Subset
<1>4. T # {}
  <2>1. sizeOf(e, {}) = 0 /\ sizeOf(f, {}) = 0
    BY <1>3, SizeUnfolds
  <2> QED BY <2>1
<1>5. /\ pick(T) \in T
      /\ sizeOf(e, T) = sizeOf(e, T \ {pick(T)}) + e[pick(T)].size
      /\ sizeOf(f, T) = sizeOf(f, T \ {pick(T)}) + f[pick(T)].size
  BY <1>3, <1>4, SizeUnfolds
<1>6. sizeOf(e, T \ {pick(T)}) = sizeOf(f, T \ {pick(T)})
  BY <1>2, <1>5
<1> QED BY <1>5, <1>6

\* Any entry may be taken out.
LEMMA SizeWithout ==
  ASSUME NEW e, NEW S, Sized(e, S), NEW h \in S
  PROVE  sizeOf(e, S) = sizeOf(e, S \ {h}) + e[h].size
<1> DEFINE B == { T \in SUBSET S : \E x \in T : sizeOf(e, T) # sizeOf(e, T \ {x}) + e[x].size }
<1>1. SUFFICES ASSUME B # {} PROVE FALSE
  OBVIOUS
<1>2. PICK T \in B : \A U \in B : U \subseteq T => U = T
  <2>1. B \subseteq SUBSET S /\ IsFiniteSet(S)
    BY DEF Sized
  <2> HIDE DEF B
  <2> QED BY <1>1, <2>1, SmallestSubset
<1>3. PICK x \in T : sizeOf(e, T) # sizeOf(e, T \ {x}) + e[x].size
  OBVIOUS
<1>4. \A U \in SUBSET S : IsFiniteSet(U) /\ sizeOf(e, U) \in Nat
  <2>1. ASSUME NEW U \in SUBSET S PROVE Sized(e, U)
    BY FS_Subset DEF Sized
  <2> QED BY <2>1, SizeIsNat DEF Sized
<1>5. PICK p : p = pick(T)
  OBVIOUS
<1>6. p \in T /\ sizeOf(e, T) = sizeOf(e, T \ {p}) + e[p].size
  BY <1>3, <1>4, <1>5, SizeUnfolds
<1>7. p # x
  BY <1>3, <1>6
<1>8. sizeOf(e, T \ {p}) = sizeOf(e, (T \ {p}) \ {x}) + e[x].size
  <2>1. T \ {p} \in SUBSET S /\ T \ {p} \subseteq T /\ T \ {p} # T /\ x \in T \ {p}
    BY <1>6, <1>7
  <2> QED BY <1>2, <2>1
<1>9. sizeOf(e, T \ {x}) = sizeOf(e, (T \ {x}) \ {p}) + e[p].size
  <2>1. T \ {x} \in SUBSET S /\ T \ {x} \subseteq T /\ T \ {x} # T /\ p \in T \ {x}
    BY <1>6, <1>7
  <2> QED BY <1>2, <2>1
<1>10. (T \ {x}) \ {p} = (T \ {p}) \ {x} /\ (T \ {x}) \ {p} \in SUBSET S
  OBVIOUS
<1>11. e[p].size \in Nat /\ e[x].size \in Nat /\ sizeOf(e, (T \ {x}) \ {p}) \in Nat
  BY <1>4, <1>6, <1>10 DEF Sized
<1> HIDE DEF B
<1> QED BY <1>3, <1>6, <1>8, <1>9, <1>10, <1>11

\* A set of entries and the others.
LEMMA SizeSplits ==
  ASSUME NEW e, NEW S, Sized(e, S), NEW D \in SUBSET S
  PROVE  sizeOf(e, S) = sizeOf(e, D) + sizeOf(e, S \ D)
<1> DEFINE B == { T \in SUBSET D : sizeOf(e, S) # sizeOf(e, T) + sizeOf(e, S \ T) }
<1>1. \A U \in SUBSET S : Sized(e, U) /\ IsFiniteSet(U) /\ sizeOf(e, U) \in Nat
  <2>1. ASSUME NEW U \in SUBSET S PROVE Sized(e, U)
    BY FS_Subset DEF Sized
  <2> QED BY <2>1, SizeIsNat DEF Sized
<1>2. SUFFICES ASSUME B # {} PROVE FALSE
  <2>1. D \in SUBSET D
    OBVIOUS
  <2> QED BY <2>1
<1>3. PICK T \in B : \A U \in B : U \subseteq T => U = T
  <2>1. B \subseteq SUBSET D /\ IsFiniteSet(D)
    BY <1>1
  <2> HIDE DEF B
  <2> QED BY <1>2, <2>1, SmallestSubset
<1>4. T \subseteq D /\ T \subseteq S /\ sizeOf(e, S) # sizeOf(e, T) + sizeOf(e, S \ T)
  OBVIOUS
<1>5. T # {}
  <2>1. sizeOf(e, {}) = 0 /\ S \ {} = S /\ sizeOf(e, S) \in Nat
    BY <1>1, SizeUnfolds
  <2> QED BY <1>4, <2>1
<1>6. PICK x \in T, U \in SUBSET T : U = T \ {x}
  BY <1>5
<1>7. sizeOf(e, S) = sizeOf(e, U) + sizeOf(e, S \ U)
  <2>1. U \in SUBSET D /\ U \subseteq T /\ U # T
    BY <1>4, <1>6
  <2> QED BY <1>3, <2>1
<1>8. sizeOf(e, T) = sizeOf(e, U) + e[x].size
  BY <1>1, <1>4, <1>6, SizeWithout
<1>9. sizeOf(e, S \ U) = sizeOf(e, S \ T) + e[x].size
  <2>1. x \in S \ U /\ (S \ U) \ {x} = S \ T /\ S \ U \in SUBSET S
    BY <1>4, <1>6
  <2> QED BY <1>1, <2>1, SizeWithout
<1>10. /\ sizeOf(e, U) \in Nat /\ sizeOf(e, T) \in Nat /\ sizeOf(e, S \ T) \in Nat
       /\ sizeOf(e, S \ U) \in Nat /\ e[x].size \in Nat
  BY <1>1, <1>4, <1>6 DEF Sized
<1> HIDE DEF B
<1> QED BY <1>4, <1>7, <1>8, <1>9, <1>10

-------------------------------------------------------------------------------
(* The total of an index *)

Entries == [Hashes -> Metadata \cup {NoEntry}]

LEMMA TotalFacts ==
  ASSUME NEW e \in Entries
  PROVE  /\ live(e) \subseteq Hashes /\ IsFiniteSet(live(e)) /\ Sized(e, live(e))
         /\ \A h \in live(e) : e[h] \in Metadata
         /\ totalSize(e) = sizeOf(e, live(e)) /\ totalSize(e) \in Nat
<1>1. live(e) \subseteq Hashes /\ \A h \in live(e) : e[h] \in Metadata
  BY DEF live, Entries
<1>2. IsFiniteSet(live(e))
  BY <1>1, FS_Subset, IndexAssumption
<1>3. Sized(e, live(e))
  BY <1>1, <1>2 DEF Sized, Metadata
<1>4. totalSize(e) = sizeOf(e, live(e))
  BY DEF totalSize, sizeOf
<1> QED BY <1>1, <1>2, <1>3, <1>4, SizeIsNat

\* Doomed entries take their sizes with them.
LEMMA TotalDrop ==
  ASSUME NEW e \in Entries, NEW doomed \in SUBSET live(e)
  PROVE  /\ Drop(e, doomed) \in Entries
         /\ live(Drop(e, doomed)) = live(e) \ doomed
         /\ sizeOf(e, doomed) \in Nat
         /\ totalSize(Drop(e, doomed)) = totalSize(e) - sizeOf(e, doomed)
<1>1. PICK f : f = Drop(e, doomed)
  OBVIOUS
<1>2. f \in Entries /\ live(f) = live(e) \ doomed
  BY <1>1 DEF Drop, Entries, live
<1>3. /\ Sized(e, live(e)) /\ totalSize(e) = sizeOf(e, live(e)) /\ totalSize(e) \in Nat
      /\ totalSize(f) = sizeOf(f, live(f)) /\ totalSize(f) \in Nat /\ IsFiniteSet(live(f))
  BY <1>2, TotalFacts
<1>4. sizeOf(f, live(f)) = sizeOf(e, live(f))
  <2>1. \A h \in live(f) : f[h].size = e[h].size
    BY <1>1, <1>2 DEF Drop, live
  <2> QED BY <1>3, <2>1, SizeSame
<1>5. sizeOf(e, live(e)) = sizeOf(e, doomed) + sizeOf(e, live(f))
  BY <1>2, <1>3, SizeSplits
<1>6. sizeOf(e, doomed) \in Nat
  <2>1. Sized(e, doomed)
    BY <1>3, FS_Subset DEF Sized
  <2> QED BY <2>1, SizeIsNat
<1> QED BY <1>1, <1>2, <1>3, <1>4, <1>5, <1>6

\* An entry is put in, or changes its metadata.
LEMMA TotalPut ==
  ASSUME NEW e \in Entries, NEW h \in Hashes, NEW m \in Metadata,
         NEW f, f = [e EXCEPT ![h] = m]
  PROVE  /\ f \in Entries
         /\ e[h] = NoEntry => totalSize(f) = totalSize(e) + m.size
         /\ e[h] # NoEntry => totalSize(f) = totalSize(e) - e[h].size + m.size
<1>1. f \in Entries /\ f[h] = m /\ m # NoEntry /\ m.size \in Nat
      /\ \A k \in Hashes : k # h => f[k] = e[k]
  BY IndexAssumption DEF Entries, Metadata
<1>2. live(f) = live(e) \cup {h}
  BY <1>1 DEF live
<1>3. PICK S : S = live(e) \ {h}
  OBVIOUS
<1>4. S = live(f) \ {h} /\ h \in live(f) /\ S \subseteq live(e)
  BY <1>2, <1>3
<1>5. /\ Sized(e, live(e)) /\ totalSize(e) = sizeOf(e, live(e)) /\ totalSize(e) \in Nat
      /\ Sized(f, live(f)) /\ totalSize(f) = sizeOf(f, live(f))
      /\ \A k \in live(e) : e[k].size \in Nat
  BY <1>1, TotalFacts DEF Sized
<1>6. totalSize(f) = sizeOf(f, S) + m.size
  <2>1. sizeOf(f, live(f)) = sizeOf(f, live(f) \ {h}) + f[h].size
    BY <1>4, <1>5, SizeWithout
  <2> QED BY <1>1, <1>4, <1>5, <2>1
<1>7. sizeOf(f, S) = sizeOf(e, S) /\ sizeOf(e, S) \in Nat
  <2>1. IsFiniteSet(S) /\ Sized(e, S)
    BY <1>4, <1>5, FS_Subset DEF Sized
  <2>2. \A k \in S : f[k].size = e[k].size
    BY <1>1, <1>3, <1>4 DEF live
  <2>3. sizeOf(f, S) = sizeOf(e, S)
    BY ONLY SMTT(30), <2>1, <2>2, SizeSame
  <2> QED BY <2>1, <2>3, SizeIsNat
<1>8. CASE e[h] = NoEntry
  <2>1. S = live(e)
    BY <1>3, <1>8 DEF live
  <2> QED BY <1>1, <1>5, <1>6, <1>7, <1>8, <2>1
<1>9. CASE e[h] # NoEntry
  <2>1. h \in live(e)
    BY <1>9 DEF live
  <2>2. totalSize(e) = sizeOf(e, S) + e[h].size
    BY <1>3, <1>5, <2>1, SizeWithout
  <2>3. e[h].size \in Nat
    BY <1>5, <2>1
  <2> QED BY <1>1, <1>5, <1>6, <1>7, <1>9, <2>2, <2>3
<1> QED BY <1>1, <1>8, <1>9

\* An eviction that starts from the right total leaves the right total.
LEMMA EvictionTotal ==
  ASSUME NEW e \in Entries, NEW max, StartEvictionIfNeeded(e, totalSize(e), max)
  PROVE  entriesSet' \in Entries /\ cacheSize' = totalSize(entriesSet')
<1>1. CASE evictionInProgress \/ totalSize(e) <= highWatermark(max)
  <2>1. entriesSet' = e /\ cacheSize' = totalSize(e)
    BY <1>1 DEF StartEvictionIfNeeded
  <2> QED BY <2>1
<1>2. CASE ~(evictionInProgress \/ totalSize(e) <= highWatermark(max))
  <2>1. PICK doomed \in victims(e, totalSize(e) - lowWatermark(max)) :
          entriesSet' = Drop(e, doomed) /\ cacheSize' = totalSize(e) - sizeOf(e, doomed)
    BY <1>2 DEF StartEvictionIfNeeded
  <2>2. doomed \in SUBSET live(e)
    BY DEF victims
  <2> QED BY <2>1, <2>2, TotalDrop
<1> QED BY <1>1, <1>2

-------------------------------------------------------------------------------
(* cache_size_ *)

LEMMA InsertTotal ==
  ASSUME MapsTyped, CacheSizeIsTotal, NEW h \in Hashes, Insert(h)
  PROVE  CacheSizeIsTotal'
<1>1. CASE entriesSet[h] = NoEntry
  <2>1. PICK m : m = [lastUsed |-> now, size |-> 0, hint |-> 0]
    OBVIOUS
  <2>2. m \in Metadata /\ m.size = 0
    BY <2>1, IndexAssumption DEF MapsTyped, Metadata
  <2>3. entriesSet' = [entriesSet EXCEPT ![h] = m] /\ cacheSize' = cacheSize
    BY <1>1, <2>1 DEF Insert
  <2>4. entriesSet \in Entries
    BY DEF MapsTyped, Entries
  <2>5. totalSize(entriesSet') = totalSize(entriesSet) + 0
    BY <1>1, <2>2, <2>3, <2>4, TotalPut
  <2> QED BY <2>3, <2>4, <2>5, TotalFacts DEF CacheSizeIsTotal
<1>2. CASE entriesSet[h] # NoEntry
  BY <1>2 DEF Insert, CacheSizeIsTotal
<1> QED BY <1>1, <1>2

LEMMA RemoveTotal ==
  ASSUME MapsTyped, CacheSizeIsTotal, NEW h \in Hashes, Remove(h)
  PROVE  CacheSizeIsTotal' /\ cacheSize' <= cacheSize
<1>1. entriesSet \in Entries
  BY DEF MapsTyped, Entries
<1>2. cacheSize = totalSize(entriesSet) /\ cacheSize \in Nat
  BY <1>1, TotalFacts DEF CacheSizeIsTotal
<1>3. CASE entriesSet[h] = NoEntry
  <2>1. UNCHANGED <<entriesSet, cacheSize>>
    BY <1>3 DEF Remove
  <2> QED BY <1>2, <2>1 DEF CacheSizeIsTotal
<1>4. CASE entriesSet[h] # NoEntry
  <2>1. cacheSize' = cacheSize - entriesSet[h].size
        /\ entriesSet' = [entriesSet EXCEPT ![h] = NoEntry]
    BY <1>4 DEF Remove
  <2>2. entriesSet' = Drop(entriesSet, {h}) /\ h \in live(entriesSet)
    BY <1>1, <1>4, <2>1 DEF Drop, Entries, live
  <2>3. /\ sizeOf(entriesSet, {h}) \in Nat
        /\ totalSize(entriesSet') = totalSize(entriesSet) - sizeOf(entriesSet, {h})
    <3>1. {h} \in SUBSET live(entriesSet)
      BY <2>2
    <3> QED BY <1>1, <2>2, <3>1, TotalDrop
  <2>4. sizeOf(entriesSet, {h}) = entriesSet[h].size
    <3>1. Sized(entriesSet, {h}) /\ entriesSet[h].size \in Nat
      BY <1>1, <2>2, TotalFacts, FS_Singleton DEF Sized
    <3>2. sizeOf(entriesSet, {h}) = sizeOf(entriesSet, {h} \ {h}) + entriesSet[h].size
      BY <3>1, SizeWithout
    <3>3. {h} \ {h} = {} /\ sizeOf(entriesSet, {}) = 0
      BY SizeUnfolds, FS_EmptySet
    <3> QED BY <3>1, <3>2, <3>3
  <2> QED BY <1>2, <2>1, <2>3, <2>4 DEF CacheSizeIsTotal
<1> QED BY <1>3, <1>4

\* Neither the time of the last use nor the hint is a size.
LEMMA TouchTotal ==
  ASSUME MapsTyped, CacheSizeIsTotal, NEW h \in Hashes,
         \/ UseIfExists(h)
         \/ \E value \in Hints : SetEntryInMemoryData(h, value)
  PROVE  CacheSizeIsTotal' /\ cacheSize' = cacheSize
<1>1. entriesSet \in Entries /\ entriesSet[h] # NoEntry /\ cacheSize' = cacheSize
  BY DEF MapsTyped, Entries, UseIfExists, SetEntryInMemoryData
<1>2. entriesSet[h] \in Metadata
  BY <1>1 DEF Entries
<1>3. \E m \in Metadata : /\ m.size = entriesSet[h].size
                          /\ entriesSet' = [entriesSet EXCEPT ![h] = m]
  <2>1. CASE UseIfExists(h)
    <3>1. PICK m : m = [entriesSet[h] EXCEPT !.lastUsed = now]
      OBVIOUS
    <3>2. m \in Metadata /\ m.size = entriesSet[h].size
      BY <1>2, <3>1 DEF MapsTyped, Metadata
    <3> QED BY <2>1, <3>1, <3>2 DEF UseIfExists
  <2>2. ASSUME NEW value \in Hints, SetEntryInMemoryData(h, value)
        PROVE  \E m \in Metadata : /\ m.size = entriesSet[h].size
                                   /\ entriesSet' = [entriesSet EXCEPT ![h] = m]
    <3>1. PICK m : m = [entriesSet[h] EXCEPT !.hint = value]
      OBVIOUS
    <3>2. m \in Metadata /\ m.size = entriesSet[h].size
      BY <1>2, <3>1 DEF Metadata
    <3> QED BY <2>2, <3>1, <3>2 DEF SetEntryInMemoryData
  <2> QED BY <2>1, <2>2
<1>4. totalSize(entriesSet') = totalSize(entriesSet) - entriesSet[h].size + entriesSet[h].size
  <2>1. PICK m \in Metadata : /\ m.size = entriesSet[h].size
                              /\ entriesSet' = [entriesSet EXCEPT ![h] = m]
    BY <1>3
  <2>2. PICK e, f : e = entriesSet /\ f = entriesSet'
    OBVIOUS
  <2>3. totalSize(f) = totalSize(e) - e[h].size + m.size
    BY <1>1, <2>1, <2>2, TotalPut
  <2> QED BY <2>1, <2>2, <2>3
<1>5. totalSize(entriesSet) \in Nat /\ entriesSet[h].size \in Nat
  BY <1>1, <1>2, TotalFacts DEF Metadata
<1> QED BY <1>1, <1>4, <1>5 DEF CacheSizeIsTotal

\* UpdateEntrySize and SetMaxSize start an eviction from the right total.
LEMMA UpdateEntrySizeEvicts ==
  ASSUME MapsTyped, CacheSizeIsTotal, NEW h \in Hashes, NEW size \in Sizes,
         UpdateEntrySize(h, size)
  PROVE  \E e \in Entries : /\ StartEvictionIfNeeded(e, totalSize(e), maxSize)
                            /\ live(e) = live(entriesSet) /\ UNCHANGED maxSize
                            /\ \A k \in live(e) : e[k].lastUsed = entriesSet[k].lastUsed
<1>1. entriesSet \in Entries /\ entriesSet[h] # NoEntry
  BY DEF MapsTyped, Entries, UpdateEntrySize
<1>2. entriesSet[h] \in Metadata
  BY <1>1 DEF Entries
<1>3. PICK m : m = [entriesSet[h] EXCEPT !.size = size]
  OBVIOUS
<1>4. m \in Metadata /\ m.size = size /\ m.lastUsed = entriesSet[h].lastUsed /\ m # NoEntry
  BY <1>2, <1>3, IndexAssumption DEF Metadata
<1>5. PICK e : e = [entriesSet EXCEPT ![h] = m]
  OBVIOUS
<1>6. e \in Entries /\ totalSize(e) = totalSize(entriesSet) - entriesSet[h].size + size
  BY <1>1, <1>4, <1>5, TotalPut
<1>7. StartEvictionIfNeeded(e, totalSize(e), maxSize) /\ UNCHANGED maxSize
  <2>1. StartEvictionIfNeeded(e, cacheSize - entriesSet[h].size + size, maxSize)
    BY <1>3, <1>5 DEF UpdateEntrySize
  <2>2. cacheSize - entriesSet[h].size + size = totalSize(e)
    BY <1>6 DEF CacheSizeIsTotal
  <2> QED BY <2>1, <2>2 DEF UpdateEntrySize
<1>8. /\ live(e) = live(entriesSet)
      /\ \A k \in live(e) : e[k].lastUsed = entriesSet[k].lastUsed
  <2>1. e[h] = m /\ \A k \in Hashes : k # h => e[k] = entriesSet[k]
    BY <1>1, <1>5 DEF Entries
  <2>2. live(e) = live(entriesSet)
    BY <1>1, <1>4, <2>1 DEF live
  <2>3. \A k \in live(e) : e[k].lastUsed = entriesSet[k].lastUsed
    BY <1>4, <2>1 DEF live
  <2> QED BY <2>2, <2>3
<1> QED BY <1>6, <1>7, <1>8

LEMMA NextTotal ==
  ASSUME MapsTyped, CacheSizeIsTotal, [Next]_vars
  PROVE  CacheSizeIsTotal'
<1>1. entriesSet \in Entries /\ cacheSize = totalSize(entriesSet)
  BY DEF MapsTyped, Entries, CacheSizeIsTotal
<1>2. ASSUME NEW h \in Hashes,
             \/ Insert(h) \/ Remove(h) \/ UseIfExists(h)
             \/ \E value \in Hints : SetEntryInMemoryData(h, value)
      PROVE  CacheSizeIsTotal'
  BY <1>2, InsertTotal, RemoveTotal, TouchTotal
<1>3. ASSUME NEW h \in Hashes, NEW size \in Sizes, UpdateEntrySize(h, size)
      PROVE  CacheSizeIsTotal'
  <2>1. PICK e \in Entries : StartEvictionIfNeeded(e, totalSize(e), maxSize)
    BY <1>3, UpdateEntrySizeEvicts
  <2> QED BY <2>1, EvictionTotal DEF CacheSizeIsTotal
<1>4. ASSUME NEW max \in MaxSizes, SetMaxSize(max)
      PROVE  CacheSizeIsTotal'
  <2>1. CASE max < maxSize
    <3>1. StartEvictionIfNeeded(entriesSet, totalSize(entriesSet), max)
      BY <1>1, <1>4, <2>1 DEF SetMaxSize
    <3> QED BY <1>1, <3>1, EvictionTotal DEF CacheSizeIsTotal
  <2>2. CASE ~(max < maxSize)
    BY <1>4, <2>2 DEF SetMaxSize, memory, CacheSizeIsTotal
  <2> QED BY <2>1, <2>2
<1>5. CASE MergeInitializingSet
  BY <1>5 DEF MergeInitializingSet, CacheSizeIsTotal
<1>6. CASE UNCHANGED <<entriesSet, cacheSize>>
  BY <1>6 DEF CacheSizeIsTotal
<1>7. ASSUME \/ EvictionDone \/ \E c \in Callbacks : ExecuteWhenReady(c)
             \/ RunPostedTask \/ LoadIndexEntries \/ TimerFires
             \/ OnApplicationStateChange \/ Destroy \/ Tick \/ UNCHANGED vars
      PROVE  UNCHANGED <<entriesSet, cacheSize>>
  BY <1>7 DEF EvictionDone, ExecuteWhenReady, RunPostedTask, LoadIndexEntries, TimerFires,
              OnApplicationStateChange, Destroy, Tick, vars, memory
<1> QED BY <1>2, <1>3, <1>4, <1>5, <1>6, <1>7 DEF Next

-------------------------------------------------------------------------------
(* The other types *)

OtherTypes ==
  /\ maxSize \in MaxSizes /\ evictionInProgress \in BOOLEAN /\ removedEntries \subseteq Hashes
  /\ timerRunning \in BOOLEAN /\ alive \in BOOLEAN
  /\ toRun \in Seq(Callbacks) /\ posted \in Seq(Callbacks \X {"OK"})
  /\ ran \in [Callbacks -> Seq({"OK", "ERR_ABORTED"})]
  /\ onDisk \in InitialDisks /\ saved \in [Hashes -> Metadata \cup {NoEntry}]
  /\ unwritten \in [Hashes -> Metadata \cup {NoEntry}] \cup {NoEntry}

\* The callbacks: what a step does to them, and to nothing else of OtherTypes.
CallbackTypes ==
  /\ toRun \in Seq(Callbacks) /\ posted \in Seq(Callbacks \X {"OK"})
  /\ ran \in [Callbacks -> Seq({"OK", "ERR_ABORTED"})]

LEMMA ExecuteWhenReadyTypes ==
  ASSUME CallbackTypes, NEW c \in Callbacks, ExecuteWhenReady(c)
  PROVE  CallbackTypes'
<1>1. CASE initialized
  <2>1. posted' = Append(posted, <<c, "OK">>) /\ UNCHANGED <<toRun, ran>>
    BY <1>1 DEF ExecuteWhenReady
  <2> QED BY <2>1 DEF CallbackTypes
<1>2. CASE ~initialized
  <2>1. toRun' = Append(toRun, c) /\ UNCHANGED <<posted, ran>>
    BY <1>2 DEF ExecuteWhenReady
  <2> QED BY <2>1 DEF CallbackTypes
<1> QED BY <1>1, <1>2

LEMMA RunPostedTaskTypes ==
  ASSUME CallbackTypes, RunPostedTask
  PROVE  CallbackTypes'
<1>1. posted \in Seq(Callbacks \X {"OK"}) /\ posted # <<>>
  BY DEF CallbackTypes, RunPostedTask
<1>2. Head(posted) \in Callbacks \X {"OK"} /\ Tail(posted) \in Seq(Callbacks \X {"OK"})
  BY <1>1
<1>3. PICK c, r : c = Head(posted)[1] /\ r = Head(posted)[2]
  OBVIOUS
<1>4. c \in Callbacks /\ r \in {"OK", "ERR_ABORTED"}
  BY <1>2, <1>3
<1>5. /\ ran' = [ran EXCEPT ![c] = Append(ran[c], r)]
      /\ posted' = Tail(posted) /\ UNCHANGED toRun
  BY <1>3 DEF RunPostedTask
<1>6. Append(ran[c], r) \in Seq({"OK", "ERR_ABORTED"})
  <2>1. ran[c] \in Seq({"OK", "ERR_ABORTED"})
    BY <1>4 DEF CallbackTypes
  <2> QED BY <1>4, <2>1
<1>7. ran' \in [Callbacks -> Seq({"OK", "ERR_ABORTED"})]
  BY <1>4, <1>5, <1>6 DEF CallbackTypes
<1> QED BY <1>2, <1>5, <1>7 DEF CallbackTypes

LEMMA MergeTypes ==
  ASSUME CallbackTypes, MergeInitializingSet
  PROVE  CallbackTypes'
<1>1. PICK s : s = [i \in DOMAIN toRun |-> <<toRun[i], "OK">>]
  OBVIOUS
<1>2. s \in Seq(Callbacks \X {"OK"})
  <2>1. toRun \in Seq(Callbacks)
    BY DEF CallbackTypes
  <2>2. DOMAIN toRun = 1 .. Len(toRun) /\ Len(toRun) \in Nat
        /\ \A i \in 1 .. Len(toRun) : toRun[i] \in Callbacks
    BY <2>1
  <2>3. s \in [1 .. Len(toRun) -> Callbacks \X {"OK"}]
    BY <1>1, <2>2
  <2> QED BY <2>2, <2>3
<1>3. posted' = posted \o s /\ toRun' = <<>> /\ UNCHANGED ran
  BY <1>1 DEF MergeInitializingSet
<1>4. posted \o s \in Seq(Callbacks \X {"OK"})
  BY <1>2 DEF CallbackTypes
<1> QED BY <1>3, <1>4 DEF CallbackTypes

LEMMA DestroyTypes ==
  ASSUME CallbackTypes, Destroy
  PROVE  CallbackTypes'
<1>1. /\ ran' = [c \in Callbacks |-> IF \E i \in DOMAIN toRun : toRun[i] = c
                                     THEN Append(ran[c], "ERR_ABORTED") ELSE ran[c]]
      /\ toRun' = <<>> /\ UNCHANGED posted
  BY DEF Destroy
<1>2. \A c \in Callbacks : /\ ran[c] \in Seq({"OK", "ERR_ABORTED"})
                           /\ Append(ran[c], "ERR_ABORTED") \in Seq({"OK", "ERR_ABORTED"})
  BY DEF CallbackTypes
<1>3. ran' \in [Callbacks -> Seq({"OK", "ERR_ABORTED"})]
  BY <1>1, <1>2
<1> QED BY <1>1, <1>3 DEF CallbackTypes

\* An eviction changes removed_entries_ and eviction_in_progress_ only.
LEMMA EvictionTypes ==
  ASSUME OtherTypes, NEW e, NEW size, NEW max, StartEvictionIfNeeded(e, size, max)
  PROVE  evictionInProgress' \in BOOLEAN /\ removedEntries' \subseteq Hashes
<1>1. CASE evictionInProgress \/ size <= highWatermark(max)
  BY <1>1 DEF StartEvictionIfNeeded, OtherTypes
<1>2. CASE ~(evictionInProgress \/ size <= highWatermark(max))
  <2>1. PICK doomed \in victims(e, size - lowWatermark(max)) :
          /\ evictionInProgress' = TRUE
          /\ removedEntries' = IF initialized THEN removedEntries ELSE removedEntries \cup doomed
    BY <1>2 DEF StartEvictionIfNeeded
  <2>2. doomed \subseteq Hashes
    BY DEF victims, live
  <2> QED BY <2>1, <2>2 DEF OtherTypes
<1> QED BY <1>1, <1>2

LEMMA NextOtherTypes ==
  ASSUME MapsTyped, MapsTyped', OtherTypes, [Next]_vars
  PROVE  OtherTypes'
<1>1. CallbackTypes /\ entriesSet' \in [Hashes -> Metadata \cup {NoEntry}]
  BY DEF OtherTypes, CallbackTypes, MapsTyped
<1>2. ASSUME NEW h \in Hashes,
             \/ Insert(h) \/ Remove(h) \/ UseIfExists(h)
             \/ \E value \in Hints : SetEntryInMemoryData(h, value)
      PROVE  OtherTypes'
  <2>1. /\ removedEntries' \subseteq Hashes /\ timerRunning' \in BOOLEAN
        /\ UNCHANGED <<maxSize, evictionInProgress, toRun, posted, ran, alive, onDisk, saved, unwritten>>
    BY <1>2 DEF Insert, Remove, UseIfExists, SetEntryInMemoryData, PostponeWritingToDisk,
                OtherTypes, MapsTyped, callbackVars
  <2> QED BY <2>1 DEF OtherTypes
<1>3. ASSUME NEW h \in Hashes, NEW size \in Sizes, UpdateEntrySize(h, size)
      PROVE  OtherTypes'
  <2>1. /\ timerRunning' \in BOOLEAN
        /\ UNCHANGED <<maxSize, toRun, posted, ran, alive, onDisk, saved, unwritten>>
    BY <1>3 DEF UpdateEntrySize, PostponeWritingToDisk, OtherTypes, MapsTyped, callbackVars
  <2>2. evictionInProgress' \in BOOLEAN /\ removedEntries' \subseteq Hashes
    BY <1>3, EvictionTypes DEF UpdateEntrySize
  <2> QED BY <2>1, <2>2 DEF OtherTypes
<1>4. ASSUME NEW max \in MaxSizes, SetMaxSize(max)
      PROVE  OtherTypes'
  <2>1. /\ timerRunning' \in BOOLEAN /\ maxSize' \in MaxSizes
        /\ UNCHANGED <<toRun, posted, ran, alive, onDisk, saved, unwritten>>
    BY <1>4 DEF SetMaxSize, PostponeWritingToDisk, OtherTypes, MapsTyped, callbackVars
  <2>2. evictionInProgress' \in BOOLEAN /\ removedEntries' \subseteq Hashes
    <3>1. CASE max < maxSize
      BY <1>4, <3>1, EvictionTypes DEF SetMaxSize
    <3>2. CASE ~(max < maxSize)
      BY <1>4, <3>2 DEF SetMaxSize, memory, OtherTypes
    <3> QED BY <3>1, <3>2
  <2> QED BY <2>1, <2>2 DEF OtherTypes
<1>5. ASSUME \/ EvictionDone \/ LoadIndexEntries \/ TimerFires \/ OnApplicationStateChange
             \/ Tick \/ UNCHANGED vars
      PROVE  OtherTypes'
  <2>1. /\ UNCHANGED <<maxSize, removedEntries, toRun, posted, ran, alive, onDisk>>
        /\ timerRunning' \in BOOLEAN /\ evictionInProgress' \in BOOLEAN
        /\ saved' \in [Hashes -> Metadata \cup {NoEntry}]
        /\ unwritten' \in [Hashes -> Metadata \cup {NoEntry}] \cup {NoEntry}
    BY <1>5 DEF EvictionDone, LoadIndexEntries, TimerFires, OnApplicationStateChange, Tick,
                vars, WriteToDisk, OtherTypes, MapsTyped, callbackVars, memory
  <2> QED BY <2>1 DEF OtherTypes
<1>6. ASSUME NEW c \in Callbacks, ExecuteWhenReady(c)
      PROVE  OtherTypes'
  BY <1>1, <1>6, ExecuteWhenReadyTypes DEF ExecuteWhenReady, CallbackTypes, OtherTypes, memory
<1>7. CASE RunPostedTask
  BY <1>1, <1>7, RunPostedTaskTypes DEF RunPostedTask, CallbackTypes, OtherTypes, memory
<1>8. CASE MergeInitializingSet
  <2>1. CallbackTypes'
    BY <1>1, <1>8, MergeTypes
  <2>2. /\ UNCHANGED <<maxSize, evictionInProgress, alive, onDisk>>
        /\ removedEntries' = {} /\ timerRunning' \in BOOLEAN
        /\ saved' \in {saved, entriesSet'} /\ unwritten' \in {NoEntry, entriesSet'}
    BY <1>8 DEF MergeInitializingSet, OtherTypes
  <2> QED BY <1>1, <2>1, <2>2 DEF CallbackTypes, OtherTypes
<1>9. CASE Destroy
  <2>1. CallbackTypes'
    BY <1>1, <1>9, DestroyTypes
  <2>2. /\ UNCHANGED <<maxSize, evictionInProgress, removedEntries, onDisk>>
        /\ timerRunning' \in BOOLEAN /\ alive' \in BOOLEAN
        /\ saved' \in [Hashes -> Metadata \cup {NoEntry}]
        /\ unwritten' \in [Hashes -> Metadata \cup {NoEntry}] \cup {NoEntry}
    BY <1>9 DEF Destroy, WriteToDisk, memory, OtherTypes, MapsTyped
  <2> QED BY <2>1, <2>2 DEF CallbackTypes, OtherTypes
<1> QED BY <1>2, <1>3, <1>4, <1>5, <1>6, <1>7, <1>8, <1>9 DEF Next

-------------------------------------------------------------------------------
(* The theorems *)

SizeInv == IndexInv /\ OtherTypes /\ CacheSizeIsTotal

LEMMA InitSizeInv == Init => SizeInv
<1> SUFFICES ASSUME Init PROVE SizeInv
  OBVIOUS
<1>1. IndexInv
  BY InitIndexInv
<1>2. OtherTypes
  <2>1. /\ onDisk \in InitialDisks /\ saved = onDisk /\ InitialDisks \subseteq Entries
        /\ unwritten = NoEntry
    BY IndexAssumption DEF Init, Entries
  <2>2. ran \in [Callbacks -> Seq({"OK", "ERR_ABORTED"})]
    BY DEF Init
  <2>3. toRun \in Seq(Callbacks) /\ posted \in Seq(Callbacks \X {"OK"})
    BY DEF Init
  <2>4. saved \in [Hashes -> Metadata \cup {NoEntry}]
    BY <2>1 DEF Entries
  <2> QED BY <2>1, <2>2, <2>3, <2>4 DEF Init, OtherTypes
<1>3. CacheSizeIsTotal
  <2>1. entriesSet \in Entries /\ live(entriesSet) = {} /\ cacheSize = 0
    BY DEF Init, Entries, live
  <2>2. totalSize(entriesSet) = sizeOf(entriesSet, {})
    BY <2>1, TotalFacts
  <2> QED BY <2>1, <2>2, SizeUnfolds, FS_EmptySet DEF CacheSizeIsTotal
<1> QED BY <1>1, <1>2, <1>3 DEF SizeInv

LEMMA SizeInvHolds == Spec => []SizeInv
<1>1. SizeInv /\ [Next]_vars => SizeInv'
  <2> SUFFICES ASSUME SizeInv, [Next]_vars PROVE SizeInv'
    OBVIOUS
  <2>1. IndexInv'
    BY NextIndexInv DEF SizeInv
  <2>2. OtherTypes'
    BY <2>1, NextOtherTypes DEF SizeInv, IndexInv
  <2>3. CacheSizeIsTotal'
    BY NextTotal DEF SizeInv, IndexInv
  <2> QED BY <2>1, <2>2, <2>3 DEF SizeInv
<1> QED BY <1>1, InitSizeInv, PTL DEF Spec

\* cache_size_ is the total of the sizes of the entries, whatever is inserted, removed,
\* resized, evicted or merged (UpdateEntryIteratorSize, MergeInitializingSet).
THEOREM CacheSizeExact == Spec => []CacheSizeIsTotal
<1>1. SizeInv => CacheSizeIsTotal
  BY DEF SizeInv
<1> QED BY <1>1, SizeInvHolds, PTL

\* Every variable keeps its type; in particular cache_size_, which is unsigned, never
\* drops below zero.
THEOREM IndexTypeOK == Spec => []TypeOK
<1>1. SizeInv => TypeOK
  <2> SUFFICES ASSUME SizeInv PROVE TypeOK
    OBVIOUS
  <2>1. cacheSize \in Nat
    <3>1. entriesSet \in Entries
      BY DEF SizeInv, IndexInv, MapsTyped, Entries
    <3> QED BY <3>1, TotalFacts DEF SizeInv, CacheSizeIsTotal
  <2> QED BY <2>1 DEF TypeOK, SizeInv, IndexInv, MapsTyped, OtherTypes
<1> QED BY <1>1, SizeInvHolds, PTL

-------------------------------------------------------------------------------
(* Evictions *)

\* A watermark passed is evicted below, all the way down to the low one if need be by
\* evicting everything.
LEMMA EvictionLowers ==
  ASSUME NEW e \in Entries, NEW max \in MaxSizes, StartEvictionIfNeeded(e, totalSize(e), max)
  PROVE  /\ evictionInProgress' \/ cacheSize' <= highWatermark(max)
         /\ ~evictionInProgress /\ evictionInProgress' =>
              cacheSize' <= lowWatermark(max) \/ live(entriesSet') = {}
<1>1. CASE evictionInProgress
  BY <1>1 DEF StartEvictionIfNeeded
<1>2. CASE totalSize(e) <= highWatermark(max)
  BY <1>2 DEF StartEvictionIfNeeded
<1>3. CASE ~(evictionInProgress \/ totalSize(e) <= highWatermark(max))
  <2>1. PICK doomed \in victims(e, totalSize(e) - lowWatermark(max)) :
          /\ entriesSet' = Drop(e, doomed) /\ cacheSize' = totalSize(e) - sizeOf(e, doomed)
          /\ evictionInProgress' = TRUE
    BY <1>3 DEF StartEvictionIfNeeded
  <2>2. doomed \in SUBSET live(e)
    BY DEF victims
  <2>3. sizeOf(e, doomed) >= totalSize(e) - lowWatermark(max) \/ doomed = live(e)
    BY DEF victims
  <2>4. CASE doomed = live(e)
    BY <2>1, <2>2, <2>4, TotalDrop
  <2>5. CASE sizeOf(e, doomed) >= totalSize(e) - lowWatermark(max)
    <3>1. sizeOf(e, doomed) \in Nat /\ totalSize(e) \in Nat
      BY <2>2, TotalDrop, TotalFacts
    <3>2. max \in Nat /\ EvictionMarginDivisor \in Nat \ {0}
      BY IndexAssumption
    <3>3. max \div EvictionMarginDivisor \in Int
      BY <3>2
    <3>4. lowWatermark(max) \in Int
      BY <3>2, <3>3 DEF lowWatermark
    <3> QED BY <2>1, <2>5, <3>1, <3>4
  <2> QED BY <2>1, <2>3, <2>4, <2>5
<1> QED BY <1>1, <1>2, <1>3

\* A cache that grows past its watermark is being evicted from, and every eviction
\* brings it down to the low watermark or leaves nothing (StartEvictionIfNeeded).
THEOREM EvictionKeepsUpWithGrowth == Spec => EvictionKeepsUp
<1>1. ASSUME SizeInv, [Next]_vars
      PROVE  /\ initialized /\ cacheSize' > cacheSize =>
                  evictionInProgress' \/ cacheSize' <= highWatermark(maxSize')
             /\ ~evictionInProgress /\ evictionInProgress' =>
                  cacheSize' <= lowWatermark(maxSize') \/ live(entriesSet') = {}
  <2> DEFINE Kept == /\ initialized /\ cacheSize' > cacheSize =>
                          evictionInProgress' \/ cacheSize' <= highWatermark(maxSize')
                     /\ ~evictionInProgress /\ evictionInProgress' =>
                          cacheSize' <= lowWatermark(maxSize') \/ live(entriesSet') = {}
  <2>1. /\ MapsTyped /\ CacheSizeIsTotal /\ entriesSet \in Entries /\ cacheSize \in Nat
        /\ maxSize \in MaxSizes /\ evictionInProgress \in BOOLEAN
    <3>1. MapsTyped /\ CacheSizeIsTotal /\ OtherTypes /\ entriesSet \in Entries
      BY <1>1 DEF SizeInv, IndexInv, MapsTyped, Entries
    <3> QED BY <3>1, TotalFacts DEF CacheSizeIsTotal, OtherTypes
  <2>2. ASSUME cacheSize' \in Int, cacheSize' <= cacheSize \/ ~initialized,
               UNCHANGED evictionInProgress \/ evictionInProgress' = FALSE
        PROVE  Kept
    BY <2>1, <2>2
  <2>3. ASSUME NEW h \in Hashes,
               \/ Insert(h) \/ Remove(h) \/ UseIfExists(h)
               \/ \E value \in Hints : SetEntryInMemoryData(h, value)
        PROVE  Kept
    <3>1. UNCHANGED evictionInProgress
      BY <2>3 DEF Insert, Remove, UseIfExists, SetEntryInMemoryData
    <3>2. cacheSize' \in Int /\ cacheSize' <= cacheSize
      <4>1. CASE UNCHANGED cacheSize
        BY <2>1, <4>1
      <4>2. CASE Remove(h)
        <5>1. cacheSize' <= cacheSize
          BY <2>1, <4>2, RemoveTotal
        <5>2. cacheSize' = totalSize(entriesSet') /\ entriesSet' \in Entries
          <6>1. CacheSizeIsTotal'
            BY <2>1, <4>2, RemoveTotal
          <6>2. IndexInv'
            BY <1>1, NextIndexInv DEF SizeInv
          <6> QED BY <6>1, <6>2 DEF CacheSizeIsTotal, IndexInv, MapsTyped, Entries
        <5> QED BY <5>1, <5>2, TotalFacts
      <4> QED BY <2>3, <4>1, <4>2 DEF Insert, UseIfExists, SetEntryInMemoryData
    <3> QED BY <2>2, <3>1, <3>2
  <2>4. ASSUME NEW h \in Hashes, NEW size \in Sizes, UpdateEntrySize(h, size)
        PROVE  Kept
    <3>1. PICK e \in Entries : StartEvictionIfNeeded(e, totalSize(e), maxSize) /\ UNCHANGED maxSize
      BY <2>1, <2>4, UpdateEntrySizeEvicts
    <3> QED BY <2>1, <3>1, EvictionLowers
  <2>5. ASSUME NEW max \in MaxSizes, SetMaxSize(max)
        PROVE  Kept
    <3>1. maxSize' = max
      BY <2>5 DEF SetMaxSize
    <3>2. CASE max < maxSize
      <4>1. StartEvictionIfNeeded(entriesSet, totalSize(entriesSet), max)
        BY <2>1, <2>5, <3>2 DEF SetMaxSize, CacheSizeIsTotal
      <4> QED BY <2>1, <3>1, <4>1, EvictionLowers
    <3>3. CASE ~(max < maxSize)
      BY <2>1, <2>2, <2>5, <3>3 DEF SetMaxSize, memory
    <3> QED BY <3>2, <3>3
  <2>6. CASE MergeInitializingSet
    <3>1. ~initialized /\ UNCHANGED evictionInProgress
      BY <2>6 DEF MergeInitializingSet
    <3> QED BY <3>1
  <2>7. ASSUME \/ EvictionDone \/ \E c \in Callbacks : ExecuteWhenReady(c)
               \/ RunPostedTask \/ LoadIndexEntries \/ TimerFires
               \/ OnApplicationStateChange \/ Destroy \/ Tick \/ UNCHANGED vars
        PROVE  Kept
    <3>1. /\ UNCHANGED cacheSize
          /\ UNCHANGED evictionInProgress \/ evictionInProgress' = FALSE
      BY <2>7 DEF EvictionDone, ExecuteWhenReady, RunPostedTask, LoadIndexEntries, TimerFires,
                  OnApplicationStateChange, Destroy, Tick, vars, memory
    <3> QED BY <2>1, <2>2, <3>1
  <2> QED BY <1>1, <2>3, <2>4, <2>5, <2>6, <2>7 DEF Next
<1> QED BY <1>1, SizeInvHolds, PTL DEF Spec, EvictionKeepsUp

-------------------------------------------------------------------------------
(* What is on disk *)

\* Every change but that of a hint goes with a timer once the index is loaded.
LEMMA NextSaved ==
  ASSUME MapsTyped, AfterMerge, SavedOrScheduled, timerRunning \in BOOLEAN, [Next]_vars
  PROVE  SavedOrScheduled'
<1>1. ASSUME PostponeWritingToDisk, UNCHANGED initialized PROVE SavedOrScheduled'
  BY <1>1 DEF PostponeWritingToDisk, SavedOrScheduled
<1>2. ASSUME UNCHANGED <<initialized, timerRunning, entriesSet, saved, unwritten, loadResult>>
      PROVE  SavedOrScheduled'
  BY <1>2 DEF SavedOrScheduled, sameButHints
<1>3. ASSUME WriteToDisk, UNCHANGED <<initialized, entriesSet>> PROVE SavedOrScheduled'
  BY <1>3 DEF WriteToDisk, SavedOrScheduled, sameButHints
<1>4. ASSUME NEW h \in Hashes, Insert(h) \/ Remove(h) \/ UseIfExists(h)
      PROVE  SavedOrScheduled'
  <2>1. UNCHANGED <<initialized, saved, unwritten, loadResult>>
    BY <1>4 DEF Insert, Remove, UseIfExists
  <2>2. PostponeWritingToDisk \/ UNCHANGED <<timerRunning, entriesSet>>
    BY <1>4 DEF Insert, Remove, UseIfExists
  <2> QED BY <1>1, <1>2, <2>1, <2>2
<1>5. ASSUME NEW h \in Hashes, NEW value \in Hints, SetEntryInMemoryData(h, value)
      PROVE  SavedOrScheduled'
  <2>1. entriesSet[h] \in Metadata /\ entriesSet[h] # NoEntry
    BY <1>5 DEF SetEntryInMemoryData, MapsTyped
  <2>2. PICK m : m = [entriesSet[h] EXCEPT !.hint = value]
    OBVIOUS
  <2>3. m \in Metadata /\ m.lastUsed = entriesSet[h].lastUsed /\ m.size = entriesSet[h].size
    BY <2>1, <2>2 DEF Metadata
  <2>4. m # NoEntry
    BY <2>3, IndexAssumption
  <2>5. entriesSet' = [entriesSet EXCEPT ![h] = m] /\ UNCHANGED <<initialized, timerRunning, saved, unwritten, loadResult>>
    BY <1>5, <2>2 DEF SetEntryInMemoryData
  <2>6. ASSUME NEW k \in Hashes PROVE withoutHint(entriesSet'[k]) = withoutHint(entriesSet[k])
    <3>1. CASE k = h
      BY <2>1, <2>3, <2>4, <2>5, <3>1 DEF MapsTyped, withoutHint
    <3>2. CASE k # h
      BY <2>5, <3>2 DEF MapsTyped
    <3> QED BY <3>1, <3>2
  <2>7. ASSUME NEW others, sameButHints(entriesSet, others)
        PROVE  sameButHints(entriesSet', others)
    BY <2>6, <2>7 DEF sameButHints
  <2>8. UNCHANGED <<initialized, timerRunning, saved, unwritten, loadResult>>
    BY <2>5
  <2>9. sameButHints(entriesSet, saved) => sameButHints(entriesSet', saved)
    BY <2>7
  <2>10. sameButHints(entriesSet, unwritten) => sameButHints(entriesSet', unwritten)
    BY <2>7
  <2>11. /\ SavedOrScheduled' <=>
              (initialized => \/ timerRunning \/ sameButHints(entriesSet', saved)
                              \/ ~loadResult.flush /\ unwritten # NoEntry
                                 /\ sameButHints(entriesSet', unwritten))
    BY <2>8 DEF SavedOrScheduled, sameButHints
  <2> QED BY ONLY SavedOrScheduled, <2>9, <2>10, <2>11 DEF SavedOrScheduled
<1>6. ASSUME NEW h \in Hashes, NEW size \in Sizes, UpdateEntrySize(h, size)
      PROVE  SavedOrScheduled'
  BY <1>1, <1>6 DEF UpdateEntrySize
<1>7. ASSUME NEW max \in MaxSizes, SetMaxSize(max)
      PROVE  SavedOrScheduled'
  <2>1. UNCHANGED <<initialized, saved, unwritten, loadResult>>
    BY <1>7 DEF SetMaxSize
  <2>2. PostponeWritingToDisk \/ UNCHANGED <<timerRunning, entriesSet>>
    BY <1>7 DEF SetMaxSize, memory
  <2> QED BY <1>1, <1>2, <2>1, <2>2
<1>8. CASE MergeInitializingSet
  <2>1. loadResult \in LoadResults /\ loadResult' = [loadResult EXCEPT !.entries = [h \in Hashes |-> NoEntry]]
    BY <1>8 DEF MergeInitializingSet, MapsTyped
  <2>2. loadResult'.flush = loadResult.flush
    BY <2>1 DEF LoadResults
  <2>3. entriesSet' = merged /\ merged # NoEntry
    <3>1. loadResult.entries \in [Hashes -> Metadata \cup {NoEntry}]
      BY <2>1 DEF LoadResults
    <3>2. merged \in [Hashes -> Metadata \cup {NoEntry}]
      BY <3>1 DEF merged, MapsTyped
    <3> QED BY <1>8, <3>2, IndexAssumption DEF MergeInitializingSet
  <2>4. sameButHints(entriesSet', entriesSet')
    BY DEF sameButHints
  <2>5. \/ saved' = entriesSet'
        \/ ~loadResult'.flush /\ unwritten' # NoEntry /\ unwritten' = entriesSet'
    BY <1>8, <2>2, <2>3 DEF MergeInitializingSet
  <2> QED BY <2>4, <2>5 DEF SavedOrScheduled, sameButHints
<1>9. CASE TimerFires \/ OnApplicationStateChange
  BY <1>3, <1>9 DEF TimerFires, OnApplicationStateChange, memory
<1>10. CASE Destroy
  BY <1>2, <1>3, <1>10 DEF Destroy, memory
<1>11. ASSUME \/ EvictionDone \/ \E c \in Callbacks : ExecuteWhenReady(c)
              \/ RunPostedTask \/ LoadIndexEntries \/ Tick \/ UNCHANGED vars
       PROVE  SavedOrScheduled'
  <2>1. /\ UNCHANGED <<initialized, timerRunning, entriesSet, saved, unwritten>>
        /\ UNCHANGED loadResult \/ loadResult = NoEntry
    BY <1>11 DEF EvictionDone, ExecuteWhenReady, RunPostedTask, LoadIndexEntries, Tick, vars,
                 memory
  <2>2. CASE UNCHANGED loadResult
    BY <1>2, <2>1, <2>2
  <2>3. CASE loadResult = NoEntry
    <3>1. ~initialized
      BY <2>3 DEF AfterMerge
    <3> QED BY <2>1, <3>1 DEF SavedOrScheduled
  <2> QED BY <2>1, <2>2, <2>3
<1> QED BY <1>4, <1>5, <1>6, <1>7, <1>8, <1>9, <1>10, <1>11 DEF Next

\* Nothing that the index learns after the merge, hints excepted, can be lost by a
\* clean end: it is on disk or the timer that writes it runs, through evictions,
\* lowered limits and the destructor.  Only what a merge that had not to be written
\* has left waits for the first change after it (PostponeWritingToDisk, WriteToDisk).
THEOREM ChangesReachTheDisk == Spec => []SavedOrScheduled
<1>1. Init => SavedOrScheduled
  BY DEF Init, SavedOrScheduled
<1>2. SizeInv /\ SavedOrScheduled /\ [Next]_vars => SavedOrScheduled'
  BY NextSaved DEF SizeInv, IndexInv, OtherTypes
<1> QED BY <1>1, <1>2, SizeInvHolds, PTL DEF Spec

-------------------------------------------------------------------------------
(* The order of eviction *)

\* What an eviction that starts in this step leaves is worth no more, by sortValue,
\* than anything it takes.
LEMMA EvictionStarts ==
  ASSUME NEW e \in Entries, NEW size, NEW max, StartEvictionIfNeeded(e, size, max),
         ~evictionInProgress, evictionInProgress',
         NEW h \in live(e), NEW k \in live(e),
         entriesSet'[h] = NoEntry, entriesSet'[k] # NoEntry
  PROVE  sortValue(e[h]) >= sortValue(e[k])
<1>1. ~(evictionInProgress \/ size <= highWatermark(max))
  BY DEF StartEvictionIfNeeded
<1>2. PICK doomed \in victims(e, size - lowWatermark(max)) : entriesSet' = Drop(e, doomed)
  BY <1>1 DEF StartEvictionIfNeeded
<1>3. h \in Hashes /\ k \in Hashes /\ e[h] # NoEntry
  BY DEF live
<1>4. h \in doomed /\ k \notin doomed
  BY <1>2, <1>3 DEF Drop
<1>5. \A a \in doomed, b \in live(e) \ doomed : sortValue(e[a]) >= sortValue(e[b])
  BY DEF victims
<1> QED BY <1>4, <1>5

\* Without the size heuristic an eviction takes the entries used longest ago, whatever
\* their sizes: none goes while one that was used before it stays
\* (EvictionWithoutSizeHeuristic in StartEvictionIfNeeded).
THEOREM EvictionIsLRU == Spec => EvictsLeastRecentlyUsed
<1>1. ASSUME SizeInv, [Next]_vars, ~UseSizeHeuristic, ~evictionInProgress, evictionInProgress',
             NEW h \in live(entriesSet), NEW k \in live(entriesSet),
             entriesSet'[h] = NoEntry, entriesSet'[k] # NoEntry
      PROVE  entriesSet[h].lastUsed <= entriesSet[k].lastUsed
  <2>1. MapsTyped /\ CacheSizeIsTotal /\ entriesSet \in Entries /\ now \in Nat
        /\ evictionInProgress \in BOOLEAN
    BY <1>1 DEF SizeInv, IndexInv, MapsTyped, Entries, OtherTypes
  <2>2. ASSUME NEW e \in Entries, NEW size, NEW max, StartEvictionIfNeeded(e, size, max),
               live(e) = live(entriesSet),
               \A x \in live(entriesSet) : e[x].lastUsed = entriesSet[x].lastUsed
        PROVE  entriesSet[h].lastUsed <= entriesSet[k].lastUsed
    <3>1. sortValue(e[h]) >= sortValue(e[k])
      BY <1>1, <2>2, EvictionStarts
    <3>2. e[h] \in Metadata /\ e[k] \in Metadata
      BY <1>1, <2>2 DEF live, Entries
    <3>3. PICK a \in Nat, b \in Nat : a = e[h].lastUsed /\ b = e[k].lastUsed
      BY <3>2 DEF Metadata
    <3>4. now - a >= now - b
      BY <1>1, <3>1, <3>3 DEF sortValue
    <3>5. a <= b
      BY <2>1, <3>3, <3>4
    <3> QED BY <1>1, <2>2, <3>3, <3>5
  <2>3. ASSUME NEW x \in Hashes, NEW size \in Sizes, UpdateEntrySize(x, size)
        PROVE  entriesSet[h].lastUsed <= entriesSet[k].lastUsed
    BY <2>1, <2>2, <2>3, UpdateEntrySizeEvicts
  <2>4. ASSUME NEW max \in MaxSizes, SetMaxSize(max)
        PROVE  entriesSet[h].lastUsed <= entriesSet[k].lastUsed
    <3>1. StartEvictionIfNeeded(entriesSet, cacheSize, max)
      BY <1>1, <2>4 DEF SetMaxSize, memory
    <3> QED BY <2>1, <2>2, <3>1
  <2>5. ASSUME NEW x \in Hashes,
               \/ Insert(x) \/ Remove(x) \/ UseIfExists(x)
               \/ \E value \in Hints : SetEntryInMemoryData(x, value)
        PROVE  FALSE
    BY <1>1, <2>5 DEF Insert, Remove, UseIfExists, SetEntryInMemoryData
  <2>6. ASSUME \/ EvictionDone \/ \E c \in Callbacks : ExecuteWhenReady(c)
               \/ RunPostedTask \/ LoadIndexEntries \/ MergeInitializingSet \/ TimerFires
               \/ OnApplicationStateChange \/ Destroy \/ Tick \/ UNCHANGED vars
        PROVE  FALSE
    <3>1. UNCHANGED evictionInProgress \/ evictionInProgress' = FALSE
      BY <2>6 DEF EvictionDone, ExecuteWhenReady, RunPostedTask, LoadIndexEntries,
                  MergeInitializingSet, TimerFires, OnApplicationStateChange, Destroy, Tick,
                  vars, memory
    <3> QED BY <1>1, <3>1
  <2> QED BY <1>1, <2>3, <2>4, <2>5, <2>6 DEF Next
<1>2. SizeInv /\ [Next]_vars =>
        (~UseSizeHeuristic /\ ~evictionInProgress /\ evictionInProgress' =>
           \A h, k \in live(entriesSet) :
             entriesSet'[h] = NoEntry /\ entriesSet'[k] # NoEntry =>
               entriesSet[h].lastUsed <= entriesSet[k].lastUsed)
  BY <1>1
<1> QED BY <1>2, SizeInvHolds, PTL DEF Spec, EvictsLeastRecentlyUsed

\* Nothing was last used in the future.
UsedBefore(e, t) == \A h \in Hashes : e[h] # NoEntry => e[h].lastUsed <= t

TimesPast ==
  /\ now \in Nat /\ now >= 1
  /\ UsedBefore(entriesSet, now) /\ UsedBefore(onDisk, now)
  /\ loadResult # NoEntry => UsedBefore(loadResult.entries, now)

LEMMA NextTimesPast ==
  ASSUME IndexInv, CacheSizeIsTotal, TimesPast, [Next]_vars
  PROVE  TimesPast'
<1> USE DEF TimesPast, UsedBefore
<1>0. /\ entriesSet \in [Hashes -> Metadata \cup {NoEntry}] /\ NoEntry \notin Metadata
      /\ \A m \in Metadata : m.lastUsed \in Nat
  BY IndexAssumption DEF IndexInv, MapsTyped, Metadata
<1>1. ASSUME UNCHANGED <<now, onDisk, loadResult>>,
             \A h \in Hashes : entriesSet'[h] # NoEntry =>
               \/ entriesSet[h] # NoEntry /\ entriesSet'[h].lastUsed = entriesSet[h].lastUsed
               \/ entriesSet'[h].lastUsed = now
      PROVE  TimesPast'
  BY <1>1
<1>2. ASSUME NEW h \in Hashes,
             \/ Insert(h) \/ Remove(h) \/ UseIfExists(h)
             \/ \E value \in Hints : SetEntryInMemoryData(h, value)
      PROVE  TimesPast'
  <2>1. UNCHANGED <<now, onDisk, loadResult>>
    BY <1>2 DEF Insert, Remove, UseIfExists, SetEntryInMemoryData
  <2>2. \A k \in Hashes : k # h => entriesSet'[k] = entriesSet[k]
    BY <1>0, <1>2 DEF Insert, Remove, UseIfExists, SetEntryInMemoryData
  <2>3. CASE Insert(h)
    <3>1. PICK m : m = [lastUsed |-> now, size |-> 0, hint |-> 0]
      OBVIOUS
    <3>2. UNCHANGED entriesSet \/ entriesSet' = [entriesSet EXCEPT ![h] = m]
      BY <2>3, <3>1 DEF Insert
    <3>3. m.lastUsed = now
      BY <3>1
    <3> QED BY <1>0, <1>1, <2>1, <2>2, <3>2, <3>3
  <2>4. CASE Remove(h)
    <3>1. UNCHANGED entriesSet \/ entriesSet' = [entriesSet EXCEPT ![h] = NoEntry]
      BY <2>4 DEF Remove
    <3> QED BY <1>0, <1>1, <2>1, <2>2, <3>1
  <2>5. CASE UseIfExists(h)
    <3>1. entriesSet[h] \in Metadata
      BY <1>0, <2>5 DEF UseIfExists
    <3>2. PICK m : m = [entriesSet[h] EXCEPT !.lastUsed = now]
      OBVIOUS
    <3>3. m.lastUsed = now
      BY <3>1, <3>2 DEF Metadata
    <3>4. entriesSet' = [entriesSet EXCEPT ![h] = m]
      BY <2>5, <3>2 DEF UseIfExists
    <3> QED BY <1>0, <1>1, <2>1, <2>2, <3>3, <3>4
  <2>6. ASSUME NEW value \in Hints, SetEntryInMemoryData(h, value) PROVE TimesPast'
    <3>1. entriesSet[h] \in Metadata /\ entriesSet[h] # NoEntry
      BY <1>0, <2>6 DEF SetEntryInMemoryData
    <3>2. PICK m : m = [entriesSet[h] EXCEPT !.hint = value]
      OBVIOUS
    <3>3. m.lastUsed = entriesSet[h].lastUsed
      BY <3>1, <3>2 DEF Metadata
    <3>4. entriesSet' = [entriesSet EXCEPT ![h] = m]
      BY <2>6, <3>2 DEF SetEntryInMemoryData
    <3> QED BY <1>0, <1>1, <2>1, <2>2, <3>1, <3>3, <3>4
  <2> QED BY <1>2, <2>3, <2>4, <2>5, <2>6
<1>3. ASSUME NEW e \in Entries, NEW size, NEW max, StartEvictionIfNeeded(e, size, max),
             live(e) = live(entriesSet),
             \A k \in live(e) : e[k].lastUsed = entriesSet[k].lastUsed,
             UNCHANGED <<now, onDisk, loadResult>>
      PROVE  TimesPast'
  <2>1. MapsTyped /\ e \in [Hashes -> Metadata \cup {NoEntry}]
    BY <1>3 DEF IndexInv, Entries
  <2>2. PICK doomed \in SUBSET Hashes :
          entriesSet' = [h \in Hashes |-> IF h \in doomed THEN NoEntry ELSE e[h]]
    BY <1>3, <2>1, EvictionDrops
  <2>3. \A h \in Hashes : entriesSet'[h] # NoEntry =>
          entriesSet[h] # NoEntry /\ entriesSet'[h].lastUsed = entriesSet[h].lastUsed
    BY <1>3, <2>2 DEF live
  <2> QED BY <1>1, <1>3, <2>3
<1>4. ASSUME NEW h \in Hashes, NEW size \in Sizes, UpdateEntrySize(h, size)
      PROVE  TimesPast'
  <2>1. UNCHANGED <<now, onDisk, loadResult>>
    BY <1>4 DEF UpdateEntrySize
  <2> QED BY <1>3, <1>4, <2>1, UpdateEntrySizeEvicts DEF IndexInv
<1>5. ASSUME NEW max \in MaxSizes, SetMaxSize(max)
      PROVE  TimesPast'
  <2>1. UNCHANGED <<now, onDisk, loadResult>>
    BY <1>5 DEF SetMaxSize
  <2>2. CASE max < maxSize
    BY <1>0, <1>3, <1>5, <2>1, <2>2 DEF SetMaxSize, Entries
  <2>3. CASE ~(max < maxSize)
    BY <1>1, <1>5, <2>1, <2>3 DEF SetMaxSize, memory
  <2> QED BY <2>2, <2>3
<1>6. CASE LoadIndexEntries
  <2>1. \A h \in Hashes : \A m \in scanned(h) : m # NoEntry => m.lastUsed <= now
    BY DEF scanned
  <2>2. \A f \in Scans : UsedBefore(f, now)
    BY <2>1 DEF Scans
  <2>3. \A f, lost : UsedBefore(f, now) => UsedBefore(Drop(f, lost), now)
    BY DEF Drop
  <2>4. UsedBefore(loadResult'.entries, now)
    <3>1. CASE loadResult' = [entries |-> onDisk, flush |-> FALSE, complete |-> TRUE]
      BY <3>1
    <3>2. CASE \E f \in Scans :
                 loadResult' = [entries |-> f, flush |-> TRUE, complete |-> TRUE]
      BY <2>2, <3>2
    <3>3. CASE \E f \in Scans, lost \in SUBSET Hashes :
                 loadResult' = [entries |-> Drop(f, lost), flush |-> FALSE, complete |-> FALSE]
      <4>1. PICK f \in Scans, lost \in SUBSET Hashes : loadResult'.entries = Drop(f, lost)
        BY <3>3
      <4>2. UsedBefore(Drop(f, lost), now)
        BY <2>2, <2>3
      <4> QED BY <4>1, <4>2
    <3> QED BY <1>6, <3>1, <3>2, <3>3 DEF LoadIndexEntries
  <2> QED BY <1>6, <2>4 DEF LoadIndexEntries, memory
<1>7. CASE MergeInitializingSet
  <2>1. /\ loadResult \in LoadResults /\ loadResult # NoEntry
        /\ entriesSet' = merged /\ UNCHANGED <<now, onDisk>>
        /\ loadResult' = [loadResult EXCEPT !.entries = [h \in Hashes |-> NoEntry]]
    BY <1>7 DEF MergeInitializingSet, IndexInv, MapsTyped
  <2>2. UsedBefore(merged, now)
    BY <2>1 DEF merged
  <2>3. loadResult'.entries = [h \in Hashes |-> NoEntry]
    BY <2>1 DEF LoadResults
  <2> QED BY <2>1, <2>2, <2>3
<1>8. CASE Tick
  <2>1. /\ now' = now + 1 /\ UNCHANGED <<entriesSet, onDisk, loadResult>>
    BY <1>8 DEF Tick, memory
  <2>2. ASSUME NEW e, e \in [Hashes -> Metadata \cup {NoEntry}], UsedBefore(e, now)
        PROVE  UsedBefore(e, now + 1)
    <3>1. ASSUME NEW h \in Hashes, e[h] # NoEntry PROVE e[h].lastUsed <= now + 1
      <4>1. e[h].lastUsed \in Nat /\ e[h].lastUsed <= now
        BY <1>0, <2>2, <3>1
      <4> QED BY <4>1
    <3> QED BY <3>1
  <2>3. onDisk \in [Hashes -> Metadata \cup {NoEntry}]
    BY DEF IndexInv, MapsTyped
  <2>4. loadResult # NoEntry => loadResult.entries \in [Hashes -> Metadata \cup {NoEntry}]
    BY DEF IndexInv, MapsTyped, LoadResults
  <2>5. UsedBefore(entriesSet, now + 1) /\ UsedBefore(onDisk, now + 1)
    BY <1>0, <2>2, <2>3
  <2>6. loadResult # NoEntry => UsedBefore(loadResult.entries, now + 1)
    BY <2>2, <2>4
  <2> QED BY <2>1, <2>5, <2>6
<1>9. ASSUME \/ EvictionDone \/ \E c \in Callbacks : ExecuteWhenReady(c)
             \/ RunPostedTask \/ TimerFires \/ OnApplicationStateChange \/ Destroy
             \/ UNCHANGED vars
      PROVE  TimesPast'
  <2>1. UNCHANGED <<now, entriesSet, onDisk, loadResult>>
    BY <1>9 DEF EvictionDone, ExecuteWhenReady, RunPostedTask, TimerFires,
                OnApplicationStateChange, Destroy, vars, memory
  <2> QED BY <2>1
<1> QED BY <1>2, <1>4, <1>5, <1>6, <1>7, <1>8, <1>9 DEF Next

\* a * x < b * y: more stale and no smaller is worth more.
LEMMA WeightsGrow ==
  ASSUME NEW a \in Nat, NEW b \in Nat, NEW x \in Nat, NEW y \in Nat, a < b, x <= y, y # 0
  PROVE  a * x < b * y
<1>1. PICK d \in Nat : b = a + d /\ d > 0
  <2>1. b - a \in Nat /\ b = a + (b - a) /\ b - a > 0
    OBVIOUS
  <2> QED BY <2>1
<1>2. PICK f \in Nat : y = x + f
  <2>1. y - x \in Nat /\ y = x + (y - x)
    OBVIOUS
  <2> QED BY <2>1
<1>3. b * y = a * y + d * y /\ a * y = a * x + a * f
  BY <1>1, <1>2
<1>4. d * y > 0 /\ a * f >= 0 /\ a * x \in Nat /\ d * y \in Nat /\ a * f \in Nat
  BY <1>1
<1> QED BY <1>3, <1>4

LEMMA SparedIsLess ==
  ASSUME NEW w \in Nat, NEW f \in Nat \ {0}
  PROVE  w \div f \in Nat /\ w \div f <= w
<1>1. w \div f \in Int /\ f * (w \div f) <= w /\ w \div f >= 0
  OBVIOUS
<1>2. PICK q \in Nat : q = w \div f
  BY <1>1
<1>3. f * q >= q
  <2>1. PICK g \in Nat : f = g + 1
    <3>1. f - 1 \in Nat /\ f = (f - 1) + 1
      OBVIOUS
    <3> QED BY <3>1
  <2>2. f * q = g * q + q /\ g * q \in Nat
    BY <2>1
  <2> QED BY <2>2
<1> QED BY <1>1, <1>2, <1>3

\* An entry used later and no bigger has the smaller value, unless the other is spared.
LEMMA StaleAndBigIsWorse ==
  ASSUME now \in Nat, UseSizeHeuristic, EstimatedEntryOverhead # 0,
         NEW m \in Metadata, NEW n \in Metadata,
         m.lastUsed > n.lastUsed, m.lastUsed <= now, m.size <= n.size, n.hint # HighPriority
  PROVE  ~(sortValue(m) >= sortValue(n))
<1>0. /\ m.lastUsed \in Nat /\ n.lastUsed \in Nat /\ m.size \in Nat /\ n.size \in Nat
      /\ EstimatedEntryOverhead \in Nat /\ PrioritizationFactor \in Nat \ {0}
  BY IndexAssumption DEF Metadata
<1>1. PICK a \in Nat, b \in Nat : a = now - m.lastUsed /\ b = now - n.lastUsed /\ a < b
  BY <1>0
<1>2. PICK x \in Nat, y \in Nat : /\ x = m.size + EstimatedEntryOverhead
                                  /\ y = n.size + EstimatedEntryOverhead /\ x <= y /\ y # 0
  BY <1>0
<1>3. sortValue(n) = b * y
  BY <1>1, <1>2 DEF sortValue
<1>4. sortValue(m) = a * x \/ sortValue(m) = (a * x) \div PrioritizationFactor
  BY <1>1, <1>2 DEF sortValue
<1>5. PICK w \in Nat, v \in Nat : w = a * x /\ v = b * y /\ w < v
  <2>1. a * x \in Nat /\ b * y \in Nat /\ a * x < b * y
    BY <1>1, <1>2, WeightsGrow
  <2> QED BY <2>1
<1>6. w \div PrioritizationFactor \in Nat /\ w \div PrioritizationFactor <= w
  BY <1>0, SparedIsLess
<1>7. sortValue(m) \in Nat /\ sortValue(m) <= w
  BY <1>4, <1>5, <1>6
<1> QED BY <1>3, <1>5, <1>7

\* No entry of the disk was last used after the program's start: the clock was not set
\* back since.  Otherwise the difference wraps in 32 bits.
ClockNotSetBack == \A disk \in InitialDisks : UsedBefore(disk, 1)

\* With the size heuristic an eviction that a lowered limit starts does not take an
\* entry used later and no bigger than one that stays and has no priority (sort_value
\* in StartEvictionIfNeeded), provided that an entry has some overhead (512 bytes in
\* the code), which keeps the value of an empty entry positive.
THEOREM EvictionTakesStaleAndBig ==
  ASSUME EstimatedEntryOverhead # 0, ClockNotSetBack
  PROVE  Spec => EvictsStaleAndBigFirst
<1>1. Init => TimesPast
  <2> SUFFICES ASSUME Init PROVE TimesPast
    OBVIOUS
  <2>1. now = 1 /\ onDisk \in InitialDisks /\ loadResult = NoEntry
        /\ entriesSet = [h \in Hashes |-> NoEntry]
    BY DEF Init
  <2> QED BY <2>1 DEF TimesPast, UsedBefore, ClockNotSetBack
<1>2. SizeInv /\ TimesPast /\ [Next]_vars => TimesPast'
  BY NextTimesPast DEF SizeInv
<1>3. ASSUME SizeInv, TimesPast, [Next]_vars, UseSizeHeuristic, maxSize' < maxSize,
             NEW h \in live(entriesSet), NEW k \in live(entriesSet),
             entriesSet[h].lastUsed > entriesSet[k].lastUsed,
             entriesSet[h].size <= entriesSet[k].size,
             entriesSet[k].hint # HighPriority,
             entriesSet'[k] # NoEntry, entriesSet'[h] = NoEntry
      PROVE  FALSE
  <2>1. /\ entriesSet \in Entries /\ now \in Nat /\ maxSize \in Nat
        /\ evictionInProgress \in BOOLEAN
    BY <1>3, IndexAssumption DEF SizeInv, IndexInv, MapsTyped, Entries, OtherTypes
  <2>2. PICK max \in MaxSizes : SetMaxSize(max)
    <3>1. ASSUME NEW x \in Hashes,
                 \/ Insert(x) \/ Remove(x) \/ UseIfExists(x)
                 \/ \E value \in Hints : SetEntryInMemoryData(x, value)
                 \/ \E size \in Sizes : UpdateEntrySize(x, size)
          PROVE  UNCHANGED maxSize
      BY <3>1 DEF Insert, Remove, UseIfExists, SetEntryInMemoryData, UpdateEntrySize
    <3>2. ASSUME \/ EvictionDone \/ \E c \in Callbacks : ExecuteWhenReady(c)
                 \/ RunPostedTask \/ LoadIndexEntries \/ MergeInitializingSet \/ TimerFires
                 \/ OnApplicationStateChange \/ Destroy \/ Tick \/ UNCHANGED vars
          PROVE  UNCHANGED maxSize
      BY <3>2 DEF EvictionDone, ExecuteWhenReady, RunPostedTask, LoadIndexEntries,
                  MergeInitializingSet, TimerFires, OnApplicationStateChange, Destroy, Tick,
                  vars
    <3>3. ~(UNCHANGED maxSize)
      BY <1>3, <2>1
    <3> QED BY <1>3, <3>1, <3>2, <3>3 DEF Next
  <2>3. StartEvictionIfNeeded(entriesSet, cacheSize, max)
    BY <1>3, <2>2 DEF SetMaxSize
  <2>4. ~evictionInProgress /\ evictionInProgress'
    <3>1. entriesSet' # entriesSet
      BY <1>3 DEF live
    <3> QED BY <2>3, <3>1 DEF StartEvictionIfNeeded
  <2>5. sortValue(entriesSet[h]) >= sortValue(entriesSet[k])
    BY <1>3, <2>1, <2>3, <2>4, EvictionStarts
  <2>6. entriesSet[h] \in Metadata /\ entriesSet[k] \in Metadata
        /\ entriesSet[h].lastUsed <= now
    BY <1>3, <2>1 DEF live, Entries, TimesPast, UsedBefore
  <2> QED BY <1>3, <2>1, <2>5, <2>6, StaleAndBigIsWorse
<1>4. SizeInv /\ TimesPast /\ [Next]_vars =>
        (UseSizeHeuristic /\ maxSize' < maxSize =>
           \A h, k \in live(entriesSet) :
             /\ entriesSet[h].lastUsed > entriesSet[k].lastUsed
             /\ entriesSet[h].size <= entriesSet[k].size
             /\ entriesSet[k].hint # HighPriority
             /\ entriesSet'[k] # NoEntry
             => entriesSet'[h] # NoEntry)
  BY <1>3
<1> QED BY <1>1, <1>2, <1>4, SizeInvHolds, PTL DEF Spec, EvictsStaleAndBigFirst

===============================================================================
