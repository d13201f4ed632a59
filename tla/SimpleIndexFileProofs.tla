------------------------- MODULE SimpleIndexFileProofs -------------------------
(***************************************************************************)
(* For any set of entries, and any number of lives, writes and operations: *)
(* a loaded index knows every entry that has files (IndexKnows), and an    *)
(* index file that will be trusted lists them (FreshIndexLists), but for   *)
(* those the history fields name.                                          *)
(*                                                                         *)
(* The two need each other.  What is written comes from what the index     *)
(* knows, and what the index knows from the file it loaded, by a worker    *)
(* that looked at it, or at the directory, while entries came and went.    *)
(***************************************************************************)
EXTENDS SimpleIndexFile, TLAPS

HasDoom(q) == \E i \in DOMAIN q : q[i] = "doom"

-------------------------------------------------------------------------------
(* The inductive invariant *)

Types ==
  /\ files \subseteq Hashes
  /\ dirMtime \in Nat /\ clock \in Nat /\ dirMtime <= clock
  /\ indexFile \in Snapshots \cup {Absent, Corrupt}
  /\ backend \in {"down", "loading", "ready", "closed"}
  /\ known \subseteq Hashes /\ removed \subseteq Hashes /\ timer \in BOOLEAN
  /\ load \in [stage : {"none", "index", "scan", "loaded"}, mtime : Nat,
               entries : SUBSET Hashes, left : SUBSET Hashes, missed : SUBSET Hashes,
               flush : BOOLEAN]
  /\ operations \in [Hashes -> Seq({"create", "doom"})]
  /\ writes \in Seq(Snapshots)
  /\ stage \in {"idle", "opened", "written"}
  /\ missed \subseteq Hashes

\* What the parts of a life have to do with each other.
Phases ==
  /\ timer => backend = "ready"
  /\ backend = "loading" => load.stage # "none" /\ writes = <<>>
  /\ backend # "loading" => load.stage = "none" /\ removed = {}
  /\ stage # "idle" => writes # <<>>
  /\ \A i \in DOMAIN writes : writes[i].seen = NoTime <=> (stage = "idle" \/ i # 1)

\* A snapshot that may still be stamped, or is trusted as things are, accounts for
\* every entry that has files.
Covers(snapshot, present, mtime, now) ==
  /\ snapshot.seen # NoTime => snapshot.seen <= now
  /\ snapshot.seen = NoTime \/ mtime <= snapshot.seen =>
       present \subseteq snapshot.entries \cup snapshot.missed
                           \cup snapshot.raced \cup snapshot.sameTick

SnapshotsCover ==
  /\ indexFile \notin {Absent, Corrupt} =>
       indexFile.seen # NoTime /\ Covers(indexFile, files, dirMtime, clock)
  /\ \A i \in DOMAIN writes : Covers(writes[i], files, dirMtime, clock)

\* An entry the index accounts for as things are in memory.
Known(h) == h \in known \/ Dooming(h) \/ h \in missed

\* If the last thing a worker will do to an entry is to create it, the index has it.
CreatedIsKnown ==
  backend \in {"loading", "ready"} =>
    \A h \in Hashes :
      operations[h] # <<>> /\ operations[h][Len(operations[h])] = "create" => h \in known

\* What the merge will take for removed is not in the directory for long.
RemovedIsKnown == \A h \in removed \cap files : Known(h)

\* At every stage of the load, what it has found or is still going to find, less what
\* was removed meanwhile, makes up for what is not known.
Found(h) ==
  \/ /\ load.stage = "index"
     /\ Fresh(load.mtime) => \/ h \in indexFile.entries \ removed
                             \/ h \in indexFile.missed
  \/ load.stage = "scan" /\ (h \in load.left \/ h \in load.entries \ removed)
  \/ load.stage = "loaded" /\ (h \in load.missed \/ h \in load.entries \ removed)

LoadFinds == backend = "loading" => \A h \in files : Known(h) \/ Found(h)

MemoryInv == CreatedIsKnown /\ RemovedIsKnown /\ LoadFinds /\ IndexKnowsFiles

IndexInv == Types /\ Phases /\ SnapshotsCover /\ MemoryInv

-------------------------------------------------------------------------------
(* Sequences *)

Operations == {"create", "doom"}

LEMMA DoomAppended ==
  ASSUME NEW q \in Seq(Operations), NEW op \in Operations
  PROVE  /\ Append(q, op) \in Seq(Operations) /\ Append(q, op) # <<>>
         /\ Append(q, op)[Len(Append(q, op))] = op
         /\ HasDoom(Append(q, op)) <=> HasDoom(q) \/ op = "doom"
<1>1. /\ Append(q, op) \in Seq(Operations) /\ Append(q, op) # <<>>
      /\ Append(q, op)[Len(Append(q, op))] = op
  OBVIOUS
<1>2. HasDoom(q) => HasDoom(Append(q, op))
  BY DEF HasDoom
<1>3. op = "doom" => HasDoom(Append(q, op))
  BY Len(q) + 1 \in DOMAIN Append(q, op) DEF HasDoom
<1>4. HasDoom(Append(q, op)) => HasDoom(q) \/ op = "doom"
  BY DEF HasDoom
<1> QED BY <1>1, <1>2, <1>3, <1>4

LEMMA DoomTail ==
  ASSUME NEW q \in Seq(Operations), q # <<>>
  PROVE  /\ Tail(q) \in Seq(Operations)
         /\ Head(q) = "create" => (HasDoom(Tail(q)) <=> HasDoom(q))
         /\ Tail(q) # <<>> => Tail(q)[Len(Tail(q))] = q[Len(q)]
         /\ Tail(q) = <<>> => q[Len(q)] = Head(q)
         /\ q[Len(q)] # "create" => HasDoom(q)
<1>1. /\ Tail(q) \in Seq(Operations)
      /\ Tail(q) # <<>> => Tail(q)[Len(Tail(q))] = q[Len(q)]
      /\ Tail(q) = <<>> => q[Len(q)] = Head(q)
  OBVIOUS
<1>2. q[Len(q)] # "create" => HasDoom(q)
  BY Len(q) \in DOMAIN q, q[Len(q)] \in Operations DEF HasDoom, Operations
<1>3. HasDoom(Tail(q)) => HasDoom(q)
  <2> SUFFICES ASSUME NEW i \in DOMAIN Tail(q), Tail(q)[i] = "doom" PROVE HasDoom(q)
    BY DEF HasDoom
  <2> QED BY i + 1 \in DOMAIN q, q[i + 1] = "doom" DEF HasDoom
<1>4. Head(q) = "create" /\ HasDoom(q) => HasDoom(Tail(q))
  <2> SUFFICES ASSUME Head(q) = "create", NEW i \in DOMAIN q, q[i] = "doom"
               PROVE  HasDoom(Tail(q))
    BY DEF HasDoom
  <2>1. i # 1
    OBVIOUS
  <2> QED BY <2>1, i - 1 \in DOMAIN Tail(q), Tail(q)[i - 1] = "doom" DEF HasDoom
<1> QED BY <1>1, <1>2, <1>3, <1>4

LEMMA PostedOnce ==
  ASSUME NEW S, NEW w \in Seq(S), NEW s \in S
  PROVE  /\ Append(w, s) \in Seq(S)
         /\ w # <<>> => Append(w, s) # <<>> /\ Append(w, s)[1] = w[1]
         /\ \A i \in DOMAIN Append(w, s) :
              Append(w, s)[i] = s \/ (i \in DOMAIN w /\ Append(w, s)[i] = w[i])
OBVIOUS

LEMMA FirstWritten ==
  ASSUME NEW S, NEW w \in Seq(S), w # <<>>
  PROVE  /\ Head(w) = w[1] /\ w[1] \in S /\ 1 \in DOMAIN w
         /\ Tail(w) \in Seq(S)
         /\ \A i \in DOMAIN Tail(w) : i + 1 \in DOMAIN w /\ Tail(w)[i] = w[i + 1]
OBVIOUS

\* A sequence whose elements are all replaced.
LEMMA MappedIsSequence ==
  ASSUME NEW S, NEW w \in Seq(S), NEW F(_), \A i \in DOMAIN w : F(i) \in S
  PROVE  [i \in DOMAIN w |-> F(i)] \in Seq(S)
OBVIOUS

-------------------------------------------------------------------------------
(* Types *)

LEMMA SerializedIsSnapshot ==
  ASSUME NEW entries \in SUBSET Hashes, NEW unknown \in SUBSET Hashes
  PROVE  Serialize(entries, unknown) \in Snapshots
BY DEF Serialize, Snapshots

LEMMA RacedIsSnapshot ==
  ASSUME NEW s \in Snapshots \cup {Absent, Corrupt}, NEW h \in Hashes
  PROVE  /\ Raced(s, h) \in Snapshots \cup {Absent, Corrupt}
         /\ s \in Snapshots => Raced(s, h) \in Snapshots
<1>1. CASE s \in {Absent, Corrupt}
  BY <1>1, SnapshotAssumption DEF Raced
<1>2. CASE s \in Snapshots /\ s \notin {Absent, Corrupt}
  BY <1>2 DEF Raced, Snapshots
<1> QED BY <1>1, <1>2

LEMMA PostingTypes ==
  ASSUME Types, NEW reason \in BOOLEAN,
         NEW entries \in SUBSET Hashes, NEW unknown \in SUBSET Hashes,
         WriteToDisk(reason, entries, unknown)
  PROVE  writes' \in Seq(Snapshots) /\ timer' \in BOOLEAN
<1>1. Append(writes, Serialize(entries, unknown)) \in Seq(Snapshots)
  BY SerializedIsSnapshot, PostedOnce DEF Types
<1>2. CASE reason
  BY <1>1, <1>2 DEF WriteToDisk
<1>3. CASE ~reason
  BY <1>3 DEF WriteToDisk, Types
<1> QED BY <1>2, <1>3

LEMMA InitTypes == Init => Types
<1> SUFFICES ASSUME Init PROVE Types
  OBVIOUS
<1>1. Serialize(files, {}) \in Snapshots
  BY SerializedIsSnapshot DEF Init
<1>2. [Serialize(files, {}) EXCEPT !.seen = 0] \in Snapshots
  BY <1>1 DEF Snapshots
<1>3. operations \in [Hashes -> Seq({"create", "doom"})]
  BY DEF Init, Idle
<1>4. load \in [stage : {"none", "index", "scan", "loaded"}, mtime : Nat,
                entries : SUBSET Hashes, left : SUBSET Hashes, missed : SUBSET Hashes,
                flush : BOOLEAN]
  BY DEF Init, NoLoad
<1>5. writes \in Seq(Snapshots)
  BY DEF Init
<1>6. indexFile \in Snapshots \cup {Absent, Corrupt}
  <2>1. indexFile \in {Absent, Corrupt, [Serialize(files, {}) EXCEPT !.seen = 0]}
    BY DEF Init
  <2> QED BY <1>2, <2>1
<1>7. /\ files \subseteq Hashes
      /\ dirMtime \in Nat /\ clock \in Nat /\ dirMtime <= clock
      /\ backend \in {"down", "loading", "ready", "closed"}
      /\ known \subseteq Hashes /\ removed \subseteq Hashes /\ timer \in BOOLEAN
      /\ stage \in {"idle", "opened", "written"}
      /\ missed \subseteq Hashes
  <2>1. /\ files \in SUBSET Hashes /\ dirMtime = 0 /\ clock = 0 /\ backend = "down"
        /\ known = {} /\ removed = {} /\ timer = FALSE /\ stage = "idle" /\ missed = {}
    BY Zenon DEF Init
  <2>2. known \subseteq Hashes /\ removed \subseteq Hashes /\ missed \subseteq Hashes
    BY <2>1
  <2>3. dirMtime \in Nat /\ clock \in Nat /\ dirMtime <= clock
    BY <2>1
  <2>4. timer \in BOOLEAN
    BY <2>1, Zenon
  <2> QED BY <2>1, <2>2, <2>3, <2>4, Zenon
<1> QED BY <1>3, <1>4, <1>5, <1>6, <1>7 DEF Types

LEMMA TypesStep == Types /\ [Next]_vars => Types'
<1> SUFFICES ASSUME Types, [Next]_vars PROVE Types'
  OBVIOUS
<1> USE DEF Types
<1>1. CASE InitializeIndex
  <2>1. Inherited(indexFile) \in Snapshots \cup {Absent, Corrupt}
    BY DEF Inherited, Snapshots
  <2> QED BY <1>1, <2>1 DEF InitializeIndex, NoLoad
<1>2. CASE LoadFresh
  BY <1>2 DEF LoadFresh, Fresh, Snapshots, disk
<1>3. CASE LoadStale
  BY <1>3 DEF LoadStale
<1>4. CASE RestoreDone
  BY <1>4 DEF RestoreDone, disk
<1>5. CASE MergeInitializingSet
  <2>1. known' \subseteq Hashes /\ missed' \subseteq Hashes
    BY <1>5 DEF MergeInitializingSet
  <2>2. writes' \in Seq(Snapshots) /\ timer' \in BOOLEAN
    BY <1>5, <2>1, PostingTypes DEF MergeInitializingSet
  <2> QED BY <1>5, <2>1, <2>2 DEF MergeInitializingSet, NoLoad, disk
<1>6. CASE WriteIndex
  <2>1. writes' \in Seq(Snapshots) /\ timer' \in BOOLEAN
    BY <1>6, PostingTypes DEF WriteIndex
  <2> QED BY <1>6, <2>1 DEF WriteIndex, disk
<1>7. CASE Shutdown
  <2>1. writes' \in Seq(Snapshots) /\ timer' \in BOOLEAN
    BY <1>7, PostingTypes DEF Shutdown
  <2> QED BY <1>7, <2>1 DEF Shutdown, NoLoad, disk
<1>8. CASE Crash
  <2>1. operations' \in [Hashes -> Seq({"create", "doom"})]
    BY <1>8 DEF Crash, Idle
  <2>2. writes' \in Seq(Snapshots)
    BY <1>8 DEF Crash
  <2> QED BY <1>8, <2>1, <2>2 DEF Crash, NoLoad, disk
<1>9. ASSUME NEW h \in Hashes, ProcessEntryFile(h) PROVE Types'
  BY <1>9 DEF ProcessEntryFile, disk
<1>10. ASSUME NEW h \in Hashes, Insert(h) PROVE Types'
  <2>1. operations' \in [Hashes -> Seq({"create", "doom"})]
    BY <1>10, DoomAppended DEF Insert, Enqueue, Operations
  <2> QED BY <1>10, <2>1 DEF Insert, PostponeWritingToDisk, disk
<1>11. ASSUME NEW h \in Hashes, Remove(h) PROVE Types'
  <2>1. operations' \in [Hashes -> Seq({"create", "doom"})]
    BY <1>11, DoomAppended DEF Remove, Enqueue, Operations
  <2> QED BY <1>11, <2>1 DEF Remove, PostponeWritingToDisk, disk
<1>12. ASSUME NEW h \in Hashes, CreateEntryFiles(h) PROVE Types'
  <2>1. operations' \in [Hashes -> Seq({"create", "doom"})]
    BY <1>12, DoomTail DEF CreateEntryFiles, Operations
  <2>2. /\ indexFile' \in Snapshots \cup {Absent, Corrupt}
        /\ writes' \in Seq(Snapshots)
    <3>1. CASE h \in files
      BY <1>12, <3>1 DEF CreateEntryFiles, disk
    <3>2. CASE h \notin files
      <4>1. indexFile' = Raced(indexFile, h)
            /\ writes' = [i \in DOMAIN writes |-> Raced(writes[i], h)]
        BY <1>12, <3>2 DEF CreateEntryFiles
      <4>2. \A i \in DOMAIN writes : Raced(writes[i], h) \in Snapshots
        BY RacedIsSnapshot
      <4>3. writes' \in Seq(Snapshots)
        <5>1. writes \in Seq(Snapshots)
          OBVIOUS
        <5>2. \A i \in DOMAIN writes : Raced(writes[i], h) \in Snapshots
          BY <4>2
        <5> HIDE DEF Types
        <5> QED BY <4>1, <5>1, <5>2, MappedIsSequence
      <4>4. indexFile' \in Snapshots \cup {Absent, Corrupt}
        BY <4>1, RacedIsSnapshot
      <4> QED BY <4>3, <4>4
    <3> QED BY <3>1, <3>2
  <2> QED BY <1>12, <2>1, <2>2 DEF CreateEntryFiles, disk, memory
<1>13. ASSUME NEW h \in Hashes, DeleteEntryFiles(h) PROVE Types'
  <2>1. operations' \in [Hashes -> Seq({"create", "doom"})]
    BY <1>13, DoomTail DEF DeleteEntryFiles, Operations
  <2> QED BY <1>13, <2>1 DEF DeleteEntryFiles, memory
<1>14. ASSUME NEW h \in Hashes, DeleteEntryFails(h) PROVE Types'
  <2>1. operations' \in [Hashes -> Seq({"create", "doom"})]
    BY <1>14, DoomTail DEF DeleteEntryFails, Operations
  <2> QED BY <1>14, <2>1 DEF DeleteEntryFails, memory, disk
<1>15. CASE SerializeFinalData
  <2>1. writes' \in Seq(Snapshots)
    <3>1. writes # <<>> /\ writes[1] \in Snapshots
      BY <1>15, FirstWritten DEF SerializeFinalData, Step
    <3>2. [writes[1] EXCEPT !.seen = dirMtime] \in Snapshots
      BY <3>1 DEF Snapshots
    <3>3. writes' = [writes EXCEPT ![1] = [writes[1] EXCEPT !.seen = dirMtime]]
      BY <1>15 DEF SerializeFinalData
    <3> QED BY <3>1, <3>2, <3>3
  <2> QED BY <1>15, <2>1 DEF SerializeFinalData, Step, memory
<1>16. CASE WritePickleFile
  BY <1>16 DEF WritePickleFile, Step, memory
<1>17. CASE ReplaceFile
  BY <1>17, FirstWritten DEF ReplaceFile, Step, memory
<1>18. CASE WriteFails
  BY <1>18, FirstWritten DEF WriteFails, memory
<1>19. CASE ChangeOtherFiles
  BY <1>19 DEF ChangeOtherFiles, memory
<1>20. CASE Tick
  BY <1>20 DEF Tick, disk, memory
<1>21. CASE UNCHANGED vars
  BY <1>21 DEF vars, disk, memory
<1> QED
  BY <1>1, <1>2, <1>3, <1>4, <1>5, <1>6, <1>7, <1>8, <1>9, <1>10, <1>11, <1>12, <1>13,
     <1>14, <1>15, <1>16, <1>17, <1>18, <1>19, <1>20, <1>21 DEF Next

-------------------------------------------------------------------------------
(* The parts of a life *)

LEMMA RacedKeeps ==
  ASSUME NEW s \in Snapshots, NEW h \in Hashes
  PROVE  /\ Raced(s, h).seen = s.seen /\ Raced(s, h).entries = s.entries
         /\ Raced(s, h).missed = s.missed
         /\ s.raced \subseteq Raced(s, h).raced
         /\ s.sameTick \subseteq Raced(s, h).sameTick
         /\ s.seen = NoTime => h \in Raced(s, h).raced
         /\ s.seen = clock /\ s.seen # NoTime => h \in Raced(s, h).sameTick
<1>1. s \notin {Absent, Corrupt}
  BY SnapshotAssumption
<1>2. CASE s.seen = NoTime
  <2>1. Raced(s, h) = [s EXCEPT !.raced = @ \cup {h}]
    BY <1>1, <1>2 DEF Raced
  <2> QED BY <1>2, <2>1 DEF Snapshots
<1>3. CASE s.seen # NoTime /\ s.seen = clock
  <2>1. Raced(s, h) = [s EXCEPT !.sameTick = @ \cup {h}]
    BY <1>1, <1>3 DEF Raced
  <2> QED BY <1>3, <2>1 DEF Snapshots
<1>4. CASE s.seen \notin {NoTime, clock}
  BY <1>4 DEF Raced
<1> QED BY <1>2, <1>3, <1>4

\* The index writes a step posts, if it posts any.
LEMMA PostingPhases ==
  ASSUME Types, Phases, NEW reason \in BOOLEAN,
         NEW entries \in SUBSET Hashes, NEW unknown \in SUBSET Hashes,
         WriteToDisk(reason, entries, unknown), stage' = stage
  PROVE  /\ stage' # "idle" => writes' # <<>>
         /\ \A i \in DOMAIN writes' :
              writes'[i].seen = NoTime <=> (stage' = "idle" \/ i # 1)
<1>1. CASE reason
  <2> DEFINE s == Serialize(entries, unknown)
  <2>1. s \in Snapshots /\ s.seen = NoTime
    BY SerializedIsSnapshot DEF Serialize
  <2>2. writes' = Append(writes, s)
    BY <1>1 DEF WriteToDisk
  <2>3. writes \in Seq(Snapshots)
    BY DEF Types
  <2> HIDE DEF s
  <2>4. stage' # "idle" => writes' # <<>>
    BY <2>1, <2>2, <2>3, PostedOnce DEF Phases
  <2>5. ASSUME NEW i \in DOMAIN writes'
        PROVE  writes'[i].seen = NoTime <=> (stage' = "idle" \/ i # 1)
    <3>1. CASE i \in DOMAIN writes /\ writes'[i] = writes[i]
      BY <3>1 DEF Phases
    <3>2. CASE writes'[i] = s /\ i \notin DOMAIN writes
      <4>1. stage # "idle" => i # 1
        BY <3>2, <2>3, FirstWritten DEF Phases
      <4> QED BY <3>2, <4>1, <2>1
    <3> QED BY <3>1, <3>2, <2>1, <2>2, <2>3
  <2> QED BY <2>4, <2>5
<1>2. CASE ~reason
  BY <1>2 DEF WriteToDisk, Phases
<1> QED BY <1>1, <1>2

LEMMA PhasesStep == Types /\ Phases /\ [Next]_vars => Phases'
<1> SUFFICES ASSUME Types, Phases, [Next]_vars PROVE Phases'
  OBVIOUS
<1>1. CASE InitializeIndex
  BY <1>1 DEF InitializeIndex, NoLoad, Phases
<1>2. CASE LoadFresh
  BY <1>2 DEF LoadFresh, disk, Phases, Types
<1>3. CASE LoadStale
  BY <1>3 DEF LoadStale, Phases, Types
<1>4. CASE RestoreDone
  BY <1>4 DEF RestoreDone, disk, Phases, Types
<1>5. CASE MergeInitializingSet
  <2>1. known' \in SUBSET Hashes /\ missed' \in SUBSET Hashes
    BY <1>5 DEF MergeInitializingSet, Types
  <2>2. load.flush \in BOOLEAN /\ WriteToDisk(load.flush, known', missed') /\ stage' = stage
    BY <1>5 DEF MergeInitializingSet, Types
  <2>3. /\ stage' # "idle" => writes' # <<>>
        /\ \A i \in DOMAIN writes' :
             writes'[i].seen = NoTime <=> (stage' = "idle" \/ i # 1)
    BY <2>1, <2>2, PostingPhases
  <2> QED BY <1>5, <2>3 DEF MergeInitializingSet, NoLoad, Phases
<1>6. CASE WriteIndex
  <2>1. /\ stage' # "idle" => writes' # <<>>
        /\ \A i \in DOMAIN writes' :
             writes'[i].seen = NoTime <=> (stage' = "idle" \/ i # 1)
    BY <1>6, PostingPhases DEF WriteIndex, Types
  <2> QED BY <1>6, <2>1 DEF WriteIndex, WriteToDisk, Phases
<1>7. CASE Shutdown
  <2>1. /\ stage' # "idle" => writes' # <<>>
        /\ \A i \in DOMAIN writes' :
             writes'[i].seen = NoTime <=> (stage' = "idle" \/ i # 1)
    BY <1>7, PostingPhases DEF Shutdown, Types
  <2>2. ~timer'
    BY <1>7 DEF Shutdown, WriteToDisk, Types
  <2> QED BY <1>7, <2>1, <2>2 DEF Shutdown, NoLoad, Phases
<1>8. CASE Crash
  BY <1>8 DEF Crash, NoLoad, Phases
<1>9. ASSUME NEW h \in Hashes, ProcessEntryFile(h) PROVE Phases'
  BY <1>9 DEF ProcessEntryFile, disk, Phases, Types
<1>10. ASSUME NEW h \in Hashes, Insert(h) PROVE Phases'
  BY <1>10 DEF Insert, PostponeWritingToDisk, Phases
<1>11. ASSUME NEW h \in Hashes, Remove(h) PROVE Phases'
  BY <1>11 DEF Remove, PostponeWritingToDisk, Phases
<1>12. ASSUME NEW h \in Hashes, CreateEntryFiles(h) PROVE Phases'
  <2>1. CASE h \in files
    BY <1>12, <2>1 DEF CreateEntryFiles, disk, memory, Phases
  <2>2. CASE h \notin files
    <3>1. /\ DOMAIN writes' = DOMAIN writes /\ stage' = stage
          /\ \A i \in DOMAIN writes : writes'[i] = Raced(writes[i], h)
      BY <1>12, <2>2 DEF CreateEntryFiles
    <3>2. \A i \in DOMAIN writes : writes[i] \in Snapshots
      BY DEF Types
    <3>3. \A i \in DOMAIN writes : writes'[i].seen = writes[i].seen
      BY <3>1, <3>2, RacedKeeps
    <3>4. writes' = <<>> <=> writes = <<>>
      <4>1. writes \in Seq(Snapshots) /\ writes' \in Seq(Snapshots)
        BY TypesStep DEF Types
      <4> QED BY <3>1, <4>1
    <3> QED BY <1>12, <3>1, <3>3, <3>4 DEF CreateEntryFiles, memory, Phases
  <2> QED BY <2>1, <2>2
<1>13. ASSUME NEW h \in Hashes, DeleteEntryFiles(h) PROVE Phases'
  BY <1>13 DEF DeleteEntryFiles, memory, Phases
<1>14. ASSUME NEW h \in Hashes, DeleteEntryFails(h) PROVE Phases'
  BY <1>14 DEF DeleteEntryFails, memory, Phases
<1>15. CASE SerializeFinalData
  <2>1. /\ writes \in Seq(Snapshots) /\ writes # <<>>
        /\ writes' = [writes EXCEPT ![1] = [writes[1] EXCEPT !.seen = dirMtime]]
        /\ stage' = "opened" /\ stage = "idle"
    BY <1>15 DEF SerializeFinalData, Step, Types
  <2>2. writes[1] \in Snapshots /\ 1 \in DOMAIN writes
    BY <2>1, FirstWritten
  <2>3. writes'[1].seen # NoTime
    BY <2>1, <2>2, IndexFileAssumption DEF Snapshots, Types
  <2>4. writes' # <<>> /\ DOMAIN writes' = DOMAIN writes
    BY <2>1, <2>2
  <2>5. \A i \in DOMAIN writes : i # 1 => writes'[i] = writes[i]
    BY <2>1
  <2> QED BY <1>15, <2>1, <2>3, <2>4, <2>5 DEF SerializeFinalData, memory, Phases
<1>16. CASE WritePickleFile
  BY <1>16 DEF WritePickleFile, Step, memory, Phases
<1>17. CASE ReplaceFile \/ WriteFails
  <2>1. /\ writes \in Seq(Snapshots) /\ writes # <<>>
        /\ writes' = Tail(writes) /\ stage' = "idle"
        /\ UNCHANGED <<backend, removed, timer, load>>
    BY <1>17 DEF ReplaceFile, WriteFails, Step, memory, Types
  <2>2. \A i \in DOMAIN writes' : writes'[i].seen = NoTime
    BY <2>1, FirstWritten DEF Phases
  <2> QED BY <2>1, <2>2 DEF Phases
<1>19. CASE ChangeOtherFiles
  BY <1>19 DEF ChangeOtherFiles, memory, Phases
<1>20. CASE Tick
  BY <1>20 DEF Tick, disk, memory, Phases
<1>21. CASE UNCHANGED vars
  BY <1>21 DEF vars, disk, memory, Phases
<1> QED
  BY <1>1, <1>2, <1>3, <1>4, <1>5, <1>6, <1>7, <1>8, <1>9, <1>10, <1>11, <1>12, <1>13,
     <1>14, <1>15, <1>16, <1>17, <1>19, <1>20, <1>21 DEF Next

-------------------------------------------------------------------------------
(* Memory *)

\* Steps that leave alone what the index knows, the files and what is to be done to
\* them, and the load too if there is one.
LEMMA MemoryKept ==
  ASSUME Types, MemoryInv,
         UNCHANGED <<files, backend, known, removed, operations, missed>>,
         backend = "loading" => UNCHANGED <<load, indexFile>>
  PROVE  MemoryInv'
<1>1. \A h : Known(h)' <=> Known(h)
  BY DEF Known, Dooming
<1>2. backend = "loading" => \A h : Found(h)' <=> Found(h)
  BY DEF Found, Fresh
<1>3. CreatedIsKnown' /\ RemovedIsKnown'
  BY <1>1 DEF MemoryInv, CreatedIsKnown, RemovedIsKnown
<1>4. LoadFinds'
  BY <1>1, <1>2 DEF MemoryInv, LoadFinds
<1>5. IndexKnowsFiles'
  BY DEF MemoryInv, IndexKnowsFiles, Dooming
<1> QED BY <1>3, <1>4, <1>5 DEF MemoryInv

\* Steps of the load.
LEMMA MemoryLoading ==
  ASSUME Types, MemoryInv,
         UNCHANGED <<files, backend, known, removed, operations, missed>>,
         \A h \in files : Found(h) => Found(h)' \/ Known(h)
  PROVE  MemoryInv'
<1>1. \A h : Known(h)' <=> Known(h)
  BY DEF Known, Dooming
<1>3. CreatedIsKnown' /\ RemovedIsKnown'
  BY <1>1 DEF MemoryInv, CreatedIsKnown, RemovedIsKnown
<1>4. LoadFinds'
  BY <1>1 DEF MemoryInv, LoadFinds
<1>5. IndexKnowsFiles'
  BY DEF MemoryInv, IndexKnowsFiles, Dooming
<1> QED BY <1>3, <1>4, <1>5 DEF MemoryInv

\* The life is over.
LEMMA MemoryGone ==
  ASSUME backend' \in {"down", "closed"}, removed' = {}
  PROVE  MemoryInv'
BY DEF MemoryInv, CreatedIsKnown, RemovedIsKnown, LoadFinds, IndexKnowsFiles

\* Something happens to h, in memory or in the directory; others stay as they are.
LEMMA MemoryChanged ==
  ASSUME Types, Phases, MemoryInv, NEW h \in Hashes,
         backend' = backend, load' = load,
         removed' \subseteq removed \cup {h}, files' \subseteq files \cup {h},
         backend \notin {"loading"} => removed' = {},
         \A g \in Hashes \ {h} :
           /\ operations'[g] = operations[g]
           /\ g \in known => g \in known'
           /\ g \in missed => g \in missed',
         backend = "loading" /\ load.stage = "index" =>
           \A g \in files' \ {h} : Found(g) => Found(g)',
         backend \in {"loading", "ready"} =>
           /\ operations'[h] # <<>> /\ operations'[h][Len(operations'[h])] = "create"
                => h \in known'
           /\ h \in files' => Known(h)' \/ (backend = "loading" /\ Found(h)')
           /\ h \in removed' \cap files' => Known(h)'
  PROVE  MemoryInv'
<1>1. ASSUME NEW g \in Hashes \ {h}, Known(g) PROVE Known(g)'
  BY <1>1 DEF Known, Dooming
<1>2. ASSUME NEW g \in files' \ {h}, backend = "loading", Found(g) PROVE Found(g)'
  BY <1>2 DEF Found
<1>3. CreatedIsKnown'
  BY DEF MemoryInv, CreatedIsKnown
<1>4. RemovedIsKnown'
  <2> SUFFICES ASSUME NEW g \in removed' \cap files' PROVE Known(g)'
    BY DEF RemovedIsKnown
  <2>1. backend = "loading" /\ g \in Hashes
    BY DEF Types
  <2> QED BY <2>1, <1>1 DEF MemoryInv, RemovedIsKnown
<1>5. LoadFinds'
  <2> SUFFICES ASSUME backend = "loading", NEW g \in files' PROVE Known(g)' \/ Found(g)'
    BY DEF LoadFinds
  <2> QED BY <1>1, <1>2 DEF MemoryInv, LoadFinds, Types
<1>6. IndexKnowsFiles'
  <2> SUFFICES ASSUME backend = "ready", NEW g \in files' PROVE Known(g)'
    BY DEF IndexKnowsFiles, Known
  <2>1. CASE g = h
    BY <2>1
  <2>2. CASE g # h
    <3>1. g \in files /\ Known(g)
      BY <2>2 DEF MemoryInv, IndexKnowsFiles, Known
    <3> QED BY <2>2, <3>1, <1>1 DEF Types
  <2> QED BY <2>1, <2>2
<1> QED BY <1>3, <1>4, <1>5, <1>6 DEF MemoryInv

LEMMA MemoryStep ==
  Types /\ Phases /\ SnapshotsCover /\ MemoryInv /\ [Next]_vars => MemoryInv'
<1> SUFFICES ASSUME Types, Phases, SnapshotsCover, MemoryInv, [Next]_vars
             PROVE  MemoryInv'
  OBVIOUS
<1>1. CASE InitializeIndex
  <2>1. /\ backend' = "loading" /\ removed' = {} /\ operations' = Idle
        /\ files' = files /\ indexFile' = Inherited(indexFile)
        /\ load'.stage = "index" /\ load'.mtime = dirMtime
    BY <1>1 DEF InitializeIndex, NoLoad
  <2>2. ASSUME NEW h \in files, Fresh(load.mtime)'
        PROVE  h \in indexFile'.entries \cup indexFile'.missed
    <3>1. CASE indexFile \in {Absent, Corrupt}
      BY <2>1, <2>2, <3>1 DEF Inherited, Fresh
    <3>2. CASE indexFile \notin {Absent, Corrupt}
      <4>1. indexFile \in Snapshots
        BY <3>2 DEF Types
      <4>2. indexFile' = [indexFile EXCEPT !.missed =
                            @ \cup indexFile.raced \cup indexFile.sameTick]
        BY <2>1, <3>2 DEF Inherited
      <4>3. /\ indexFile'.entries = indexFile.entries
            /\ indexFile'.seen = indexFile.seen
            /\ indexFile'.missed =
                 indexFile.missed \cup indexFile.raced \cup indexFile.sameTick
        BY <4>1, <4>2 DEF Snapshots
      <4>4. dirMtime <= indexFile.seen
        BY <2>1, <2>2, <4>3 DEF Fresh
      <4>5. files \subseteq indexFile.entries \cup indexFile.missed
                               \cup indexFile.raced \cup indexFile.sameTick
        BY <3>2, <4>4 DEF SnapshotsCover, Covers
      <4> QED BY <4>3, <4>5
    <3> QED BY <3>1, <3>2
  <2>3. LoadFinds'
    BY <2>1, <2>2 DEF LoadFinds, Found
  <2>4. CreatedIsKnown' /\ RemovedIsKnown' /\ IndexKnowsFiles'
    BY <2>1 DEF CreatedIsKnown, RemovedIsKnown, IndexKnowsFiles, Idle
  <2> QED BY <2>3, <2>4 DEF MemoryInv
<1>2. CASE LoadFresh
  <2>1. /\ UNCHANGED <<files, backend, known, removed, operations, missed>>
        /\ load.stage = "index" /\ Fresh(load.mtime)
        /\ load'.stage = "loaded" /\ load'.entries = indexFile.entries
        /\ load'.missed = indexFile.missed
    BY <1>2 DEF LoadFresh, disk, Types
  <2>2. \A h \in files : Found(h) => Found(h)'
    BY <2>1 DEF Found
  <2> QED BY <2>1, <2>2, MemoryLoading
<1>3. CASE LoadStale
  <2>1. /\ UNCHANGED <<files, backend, known, removed, operations, missed>>
        /\ load'.stage = "scan" /\ load'.left = Hashes
    BY <1>3 DEF LoadStale, Types
  <2>2. \A h \in files : Found(h)'
    BY <2>1 DEF Found, Types
  <2> QED BY <2>1, <2>2, MemoryLoading
<1>4. CASE RestoreDone
  <2>1. /\ UNCHANGED <<files, backend, known, removed, operations, missed>>
        /\ load.stage = "scan" /\ load'.stage = "loaded"
        /\ load'.missed = load.left /\ load'.entries = load.entries
    BY <1>4 DEF RestoreDone, disk, Types
  <2>2. \A h \in files : Found(h) => Found(h)'
    BY <2>1 DEF Found
  <2> QED BY <2>1, <2>2, MemoryLoading
<1>5. CASE MergeInitializingSet
  <2>1. /\ UNCHANGED <<files, operations>>
        /\ backend' = "ready" /\ removed' = {} /\ load.stage = "loaded"
        /\ known' = (load.entries \ removed) \cup known
        /\ missed' = (missed \cup load.missed) \ known'
    BY <1>5 DEF MergeInitializingSet, disk
  <2>2. backend = "loading"
    BY <2>1 DEF Phases
  <2>3. CreatedIsKnown' /\ RemovedIsKnown' /\ LoadFinds'
    BY <2>1, <2>2 DEF MemoryInv, CreatedIsKnown, RemovedIsKnown, LoadFinds
  <2>4. IndexKnowsFiles'
    <3> SUFFICES ASSUME NEW h \in files PROVE Known(h)'
      BY <2>1 DEF IndexKnowsFiles, Known
    <3>1. Known(h) \/ Found(h)
      BY <2>2 DEF MemoryInv, LoadFinds
    <3>2. Known(h) => Known(h)'
      BY <2>1 DEF Known, Dooming
    <3>3. Found(h) => Known(h)'
      BY <2>1 DEF Known, Found
    <3> QED BY <3>1, <3>2, <3>3
  <2> QED BY <2>3, <2>4 DEF MemoryInv
<1>6. CASE WriteIndex
  BY <1>6, MemoryKept DEF WriteIndex, disk
<1>7. CASE Shutdown \/ Crash
  BY <1>7, MemoryGone DEF Shutdown, Crash
<1>9. ASSUME NEW h \in Hashes, ProcessEntryFile(h) PROVE MemoryInv'
  <2>1. /\ UNCHANGED <<files, backend, known, removed, operations, missed>>
        /\ load.stage = "scan" /\ load'.stage = "scan"
        /\ load'.left = load.left \ {h} /\ load'.entries = load.entries \cup ({h} \cap files)
    BY <1>9 DEF ProcessEntryFile, disk, Types
  <2>2. ASSUME NEW g \in files, Found(g) PROVE Found(g)' \/ Known(g)
    <3>1. CASE g = h
      BY <2>1, <3>1 DEF Found, MemoryInv, RemovedIsKnown
    <3>2. CASE g # h
      BY <2>1, <2>2, <3>2 DEF Found
    <3> QED BY <3>1, <3>2
  <2> QED BY <2>1, <2>2, MemoryLoading
<1>10. ASSUME NEW h \in Hashes, Insert(h) PROVE MemoryInv'
  <2>1. /\ UNCHANGED <<files, backend, load, indexFile>>
        /\ backend \in {"loading", "ready"}
        /\ known' = known \cup {h} /\ missed' = missed \ {h}
        /\ removed' = IF backend = "loading" THEN removed \ {h} ELSE removed
        /\ operations' = [operations EXCEPT ![h] = Append(operations[h], "create")]
    BY <1>10 DEF Insert, Enqueue, disk
  <2>2. removed' \subseteq removed /\ (backend # "loading" => removed' = {})
    BY <2>1 DEF Phases
  <2>3. \A g \in Hashes \ {h} : operations'[g] = operations[g]
    BY <2>1 DEF Types
  <2>4. \A g \in Hashes : Found(g) => Found(g)'
    BY <2>1, <2>2 DEF Found, Fresh
  <2>5. Known(h)'
    BY <2>1 DEF Known
  <2> QED BY <2>1, <2>2, <2>3, <2>4, <2>5, MemoryChanged DEF Types
<1>11. ASSUME NEW h \in Hashes, Remove(h) PROVE MemoryInv'
  <2>1. /\ UNCHANGED <<files, backend, load, indexFile, missed>>
        /\ backend \in {"loading", "ready"}
        /\ known' = known \ {h}
        /\ removed' = IF backend = "loading" THEN removed \cup {h} ELSE removed
        /\ operations' = [operations EXCEPT ![h] = Append(operations[h], "doom")]
    BY <1>11 DEF Remove, Enqueue, disk
  <2>2. removed' \subseteq removed \cup {h} /\ (backend # "loading" => removed' = {})
    BY <2>1 DEF Phases
  <2>3. /\ \A g \in Hashes \ {h} : operations'[g] = operations[g]
        /\ operations'[h] = Append(operations[h], "doom")
    BY <2>1 DEF Types
  <2>4. \A g \in Hashes \ {h} : Found(g) => Found(g)'
    BY <2>1, <2>2 DEF Found, Fresh
  <2>5. /\ operations'[h][Len(operations'[h])] = "doom"
        /\ HasDoom(operations'[h])
    BY <2>3, DoomAppended DEF Types, Operations
  <2>6. Known(h)'
    BY <2>5 DEF Known, Dooming, HasDoom
  <2> QED BY <2>1, <2>2, <2>3, <2>4, <2>5, <2>6, MemoryChanged DEF Types
<1>12. ASSUME NEW h \in Hashes, CreateEntryFiles(h) PROVE MemoryInv'
  <2>1. /\ UNCHANGED <<backend, load, missed, known, removed>>
        /\ files' \subseteq files \cup {h}
        /\ operations[h] # <<>> /\ Head(operations[h]) = "create"
        /\ operations' = [operations EXCEPT ![h] = Tail(operations[h])]
    BY <1>12 DEF CreateEntryFiles, disk, memory
  <2>2. backend # "loading" => removed' = {}
    BY <2>1 DEF Phases
  <2>3. /\ \A g \in Hashes \ {h} : operations'[g] = operations[g]
        /\ operations'[h] = Tail(operations[h])
        /\ operations[h] \in Seq(Operations)
    BY <2>1 DEF Types, Operations
  <2>4. ASSUME NEW g \in Hashes, Found(g), load.stage = "index" PROVE Found(g)'
    <3>1. CASE indexFile' = indexFile
      BY <2>1, <2>4, <3>1 DEF Found, Fresh
    <3>2. CASE indexFile' = Raced(indexFile, h) /\ indexFile \notin {Absent, Corrupt}
      <4>1. indexFile \in Snapshots
        BY <3>2 DEF Types
      <4>2. /\ indexFile'.seen = indexFile.seen /\ indexFile'.entries = indexFile.entries
            /\ indexFile'.missed = indexFile.missed
        BY <3>2, <4>1, RacedKeeps
      <4> QED BY <2>1, <2>4, <3>2, <4>2 DEF Found, Fresh
    <3>3. CASE indexFile' = Raced(indexFile, h) /\ indexFile \in {Absent, Corrupt}
      BY <2>1, <2>4, <3>3 DEF Found, Fresh, Raced
    <3> QED BY <1>12, <3>1, <3>2, <3>3 DEF CreateEntryFiles, disk
  <2>5. /\ operations'[h] # <<>> => operations'[h][Len(operations'[h])] =
                                      operations[h][Len(operations[h])]
        /\ HasDoom(operations[h]) => HasDoom(operations'[h])
        /\ operations[h][Len(operations[h])] # "create" => HasDoom(operations[h])
    BY <2>1, <2>3, DoomTail
  <2>6. backend \in {"loading", "ready"} => Known(h)'
    BY <2>1, <2>5 DEF Known, Dooming, HasDoom, MemoryInv, CreatedIsKnown
  <2>7. backend \in {"loading", "ready"} /\ operations'[h] # <<>>
          /\ operations'[h][Len(operations'[h])] = "create" => h \in known'
    BY <2>1, <2>5 DEF MemoryInv, CreatedIsKnown
  <2> QED BY <2>1, <2>2, <2>3, <2>4, <2>6, <2>7, MemoryChanged DEF Types
<1>13. ASSUME NEW h \in Hashes, DeleteEntryFiles(h) PROVE MemoryInv'
  <2>1. /\ UNCHANGED <<backend, load, missed, known, removed, indexFile>>
        /\ files' = files \ {h} /\ operations[h] # <<>>
        /\ operations' = [operations EXCEPT ![h] = Tail(operations[h])]
    BY <1>13 DEF DeleteEntryFiles, memory
  <2>2. backend # "loading" => removed' = {}
    BY <2>1 DEF Phases
  <2>3. /\ \A g \in Hashes \ {h} : operations'[g] = operations[g]
        /\ operations'[h] = Tail(operations[h])
        /\ operations[h] \in Seq(Operations)
    BY <2>1 DEF Types, Operations
  <2>4. \A g \in Hashes : Found(g) => Found(g)'
    BY <2>1 DEF Found, Fresh
  <2>5. operations'[h] # <<>> => operations'[h][Len(operations'[h])] =
                                   operations[h][Len(operations[h])]
    BY <2>1, <2>3, DoomTail
  <2>6. backend \in {"loading", "ready"} /\ operations'[h] # <<>>
          /\ operations'[h][Len(operations'[h])] = "create" => h \in known'
    BY <2>1, <2>5 DEF MemoryInv, CreatedIsKnown
  <2> QED BY <2>1, <2>2, <2>3, <2>4, <2>6, MemoryChanged DEF Types
<1>14. ASSUME NEW h \in Hashes, DeleteEntryFails(h) PROVE MemoryInv'
  <2>1. /\ UNCHANGED <<backend, load, known, removed, files, indexFile>>
        /\ operations[h] # <<>> /\ missed \subseteq missed'
        /\ backend # "closed" => h \in known \/ h \in missed'
        /\ operations' = [operations EXCEPT ![h] = Tail(operations[h])]
    BY <1>14 DEF DeleteEntryFails, memory, disk
  <2>2. backend # "loading" => removed' = {}
    BY <2>1 DEF Phases
  <2>3. /\ \A g \in Hashes \ {h} : operations'[g] = operations[g]
        /\ operations'[h] = Tail(operations[h])
        /\ operations[h] \in Seq(Operations)
    BY <2>1 DEF Types, Operations
  <2>4. \A g \in Hashes : Found(g) => Found(g)'
    BY <2>1 DEF Found, Fresh
  <2>5. operations'[h] # <<>> => operations'[h][Len(operations'[h])] =
                                   operations[h][Len(operations[h])]
    BY <2>1, <2>3, DoomTail
  <2>6. backend \in {"loading", "ready"} /\ operations'[h] # <<>>
          /\ operations'[h][Len(operations'[h])] = "create" => h \in known'
    BY <2>1, <2>5 DEF MemoryInv, CreatedIsKnown
  <2>7. backend # "closed" => Known(h)'
    BY <2>1 DEF Known
  <2> QED BY <2>1, <2>2, <2>3, <2>4, <2>6, <2>7, MemoryChanged DEF Types
<1>15. CASE SerializeFinalData
  BY <1>15, MemoryKept DEF SerializeFinalData, memory
<1>16. CASE WritePickleFile
  BY <1>16, MemoryKept DEF WritePickleFile, memory
<1>17. CASE ReplaceFile
  <2>1. backend # "loading"
    BY <1>17 DEF ReplaceFile, Step, Phases
  <2> QED BY <1>17, <2>1, MemoryKept DEF ReplaceFile, memory
<1>18. CASE WriteFails
  BY <1>18, MemoryKept DEF WriteFails, memory
<1>19. CASE ChangeOtherFiles
  BY <1>19, MemoryKept DEF ChangeOtherFiles, memory
<1>20. CASE Tick
  BY <1>20, MemoryKept DEF Tick, memory, disk
<1>21. CASE UNCHANGED vars
  BY <1>21, MemoryKept DEF vars, memory, disk
<1> QED
  BY <1>1, <1>2, <1>3, <1>4, <1>5, <1>6, <1>7, <1>9, <1>10, <1>11, <1>12, <1>13,
     <1>14, <1>15, <1>16, <1>17, <1>18, <1>19, <1>20, <1>21 DEF Next

-------------------------------------------------------------------------------
(* Snapshots *)

\* Files may go, and time and the directory's time move on.
LEMMA CoversKept ==
  ASSUME NEW s \in Snapshots, NEW present, NEW present2 \in SUBSET present,
         NEW mtime \in Nat, NEW mtime2 \in Nat, NEW now \in Nat, NEW now2 \in Nat,
         mtime <= mtime2, now <= now2, Covers(s, present, mtime, now)
  PROVE  Covers(s, present2, mtime2, now2)
BY DEF Covers, Snapshots

LEMMA SnapshotsKept ==
  ASSUME Types, Types', SnapshotsCover, files' \subseteq files,
         dirMtime <= dirMtime', clock <= clock',
         indexFile' \in {indexFile, Absent},
         writes' \in {writes, <<>>} \/ (writes # <<>> /\ writes' = Tail(writes))
  PROVE  SnapshotsCover'
<1>1. indexFile' \notin {Absent, Corrupt} =>
        indexFile'.seen # NoTime /\ Covers(indexFile', files', dirMtime', clock')
  BY CoversKept DEF Types, SnapshotsCover
<1>2. ASSUME NEW i \in DOMAIN writes' PROVE Covers(writes'[i], files', dirMtime', clock')
  <2>1. PICK j \in DOMAIN writes : writes'[i] = writes[j]
    <3>1. CASE writes' = writes
      BY <3>1
    <3>2. CASE writes' = <<>>
      BY <3>2
    <3>3. CASE writes' = Tail(writes) /\ writes # <<>>
      BY <3>3, FirstWritten DEF Types
    <3> QED BY <3>1, <3>2, <3>3
  <2>2. writes[j] \in Snapshots
    BY DEF Types
  <2> QED BY <2>1, <2>2, CoversKept DEF Types, SnapshotsCover
<1> QED BY <1>1, <1>2 DEF SnapshotsCover, Covers

\* The index is written as it knows the files.
LEMMA PostingCovers ==
  ASSUME Types, SnapshotsCover, NEW reason \in BOOLEAN,
         NEW entries \in SUBSET Hashes, NEW unknown \in SUBSET Hashes,
         WriteToDisk(reason, entries, unknown),
         UNCHANGED <<disk, clock>>,
         reason => \A h \in files : h \in entries \/ Dooming(h) \/ h \in unknown
  PROVE  SnapshotsCover'
<1>1. UNCHANGED <<files, dirMtime, clock, indexFile>>
  BY DEF disk
<1>2. ASSUME NEW i \in DOMAIN writes' PROVE Covers(writes'[i], files, dirMtime, clock)
  <2>1. CASE i \in DOMAIN writes /\ writes'[i] = writes[i]
    BY <2>1 DEF SnapshotsCover
  <2>2. CASE reason /\ writes'[i] = Serialize(entries, unknown)
    <3>1. files \subseteq entries \cup unknown \cup { h \in Hashes : Dooming(h) }
      BY <2>2 DEF Types
    <3> QED BY <2>2, <3>1 DEF Covers, Serialize
  <2>3. reason => writes' = Append(writes, Serialize(entries, unknown))
    BY DEF WriteToDisk
  <2>4. ~reason => writes' = writes
    BY DEF WriteToDisk
  <2>5. Serialize(entries, unknown) \in Snapshots /\ writes \in Seq(Snapshots)
    BY SerializedIsSnapshot DEF Types
  <2>6. CASE reason
    BY <2>1, <2>2, <2>3, <2>5, <2>6, PostedOnce
  <2> QED BY <2>1, <2>4, <2>6
<1> QED BY <1>1, <1>2 DEF SnapshotsCover, Covers

\* A file made now is raced with, or made in the tick of the stamp, or after it.
LEMMA CoversRaced ==
  ASSUME Types, NEW s \in Snapshots, NEW h \in Hashes,
         Covers(s, files, dirMtime, clock)
  PROVE  Covers(Raced(s, h), files \cup {h}, clock, clock)
<1>1. /\ Raced(s, h).seen = s.seen /\ Raced(s, h).entries = s.entries
      /\ Raced(s, h).missed = s.missed
      /\ s.raced \subseteq Raced(s, h).raced
      /\ s.sameTick \subseteq Raced(s, h).sameTick
      /\ s.seen = NoTime => h \in Raced(s, h).raced
      /\ s.seen = clock /\ s.seen # NoTime => h \in Raced(s, h).sameTick
  BY RacedKeeps
<1>2. CASE s.seen = NoTime
  BY <1>1, <1>2 DEF Covers
<1>3. CASE s.seen # NoTime
  <2>1. s.seen \in Nat /\ s.seen <= clock
    BY <1>3 DEF Covers, Snapshots
  <2>2. CASE s.seen = clock
    BY <1>1, <1>3, <2>1, <2>2 DEF Covers, Types
  <2>3. CASE s.seen # clock
    BY <1>1, <1>3, <2>1, <2>3 DEF Covers, Types
  <2> QED BY <2>2, <2>3
<1> QED BY <1>2, <1>3

LEMMA SnapshotsStep ==
  IndexInv /\ [Next]_vars /\ MemoryInv' => SnapshotsCover'
<1> SUFFICES ASSUME Types, Phases, SnapshotsCover, MemoryInv, [Next]_vars, MemoryInv'
             PROVE  SnapshotsCover'
  BY DEF IndexInv
<1>0. Types'
  BY TypesStep
<1>t. dirMtime <= dirMtime /\ clock <= clock /\ dirMtime <= clock
  BY DEF Types
<1>1. CASE InitializeIndex
  <2>1. /\ UNCHANGED <<files, dirMtime, clock, writes>>
        /\ indexFile' = Inherited(indexFile)
    BY <1>1 DEF InitializeIndex
  <2>2. CASE indexFile \in {Absent, Corrupt}
    BY <2>1, <2>2 DEF Inherited, SnapshotsCover, Covers
  <2>3. CASE indexFile \notin {Absent, Corrupt}
    <3>1. indexFile \in Snapshots
      BY <2>3 DEF Types
    <3>2. indexFile' = [indexFile EXCEPT !.missed =
                          @ \cup indexFile.raced \cup indexFile.sameTick]
      BY <2>1, <2>3 DEF Inherited
    <3>3. /\ indexFile'.seen = indexFile.seen /\ indexFile'.entries = indexFile.entries
          /\ indexFile'.raced = indexFile.raced
          /\ indexFile'.sameTick = indexFile.sameTick
          /\ indexFile.missed \subseteq indexFile'.missed
      BY <3>1, <3>2 DEF Snapshots
    <3> QED BY <2>1, <2>3, <3>3 DEF SnapshotsCover, Covers
  <2> QED BY <2>2, <2>3
<1>2. CASE LoadFresh
  BY <1>0, <1>t, <1>2, SnapshotsKept DEF LoadFresh, disk
<1>3. CASE LoadStale
  BY <1>0, <1>t, <1>3, SnapshotsKept DEF LoadStale
<1>4. CASE RestoreDone
  BY <1>0, <1>t, <1>4, SnapshotsKept DEF RestoreDone, disk
<1>5. CASE MergeInitializingSet
  <2>1. /\ known' \in SUBSET Hashes /\ missed' \in SUBSET Hashes
        /\ load.flush \in BOOLEAN
        /\ WriteToDisk(load.flush, known', missed') /\ UNCHANGED <<disk, clock>>
    BY <1>0, <1>5 DEF MergeInitializingSet, Types
  <2>2. backend' = "ready" /\ UNCHANGED <<files, operations>>
    BY <1>5 DEF MergeInitializingSet, disk
  <2>3. \A h \in files : h \in known' \/ Dooming(h) \/ h \in missed'
    BY <2>2 DEF MemoryInv, IndexKnowsFiles, Dooming
  <2> QED BY <2>1, <2>3, PostingCovers
<1>6. CASE WriteIndex
  <2>1. \A h \in files : h \in known \/ Dooming(h) \/ h \in missed
    BY <1>6 DEF WriteIndex, MemoryInv, IndexKnowsFiles
  <2> QED BY <1>6, <2>1, PostingCovers DEF WriteIndex, Types
<1>7. CASE Shutdown
  <2>1. timer => \A h \in files : h \in known \/ Dooming(h) \/ h \in missed
    BY DEF Phases, MemoryInv, IndexKnowsFiles
  <2>2. /\ timer \in BOOLEAN /\ known \in SUBSET Hashes /\ missed \in SUBSET Hashes
        /\ WriteToDisk(timer, known, missed) /\ UNCHANGED <<disk, clock>>
    BY <1>7 DEF Shutdown, Types
  <2> QED BY <2>1, <2>2, PostingCovers
<1>8. CASE Crash
  BY <1>0, <1>t, <1>8, SnapshotsKept DEF Crash, disk
<1>9. ASSUME NEW h \in Hashes, ProcessEntryFile(h) PROVE SnapshotsCover'
  BY <1>0, <1>t, <1>9, SnapshotsKept DEF ProcessEntryFile, disk
<1>10. ASSUME NEW h \in Hashes, Insert(h) \/ Remove(h) PROVE SnapshotsCover'
  BY <1>0, <1>t, <1>10, SnapshotsKept DEF Insert, Remove, disk
<1>12. ASSUME NEW h \in Hashes, CreateEntryFiles(h) PROVE SnapshotsCover'
  <2>1. CASE h \in files
    BY <1>0, <1>t, <1>12, <2>1, SnapshotsKept DEF CreateEntryFiles, disk
  <2>2. CASE h \notin files
    <3>1. /\ files' = files \cup {h} /\ dirMtime' = clock /\ clock' = clock
          /\ writes' = [i \in DOMAIN writes |-> Raced(writes[i], h)]
          /\ indexFile' = Raced(indexFile, h)
      BY <1>12, <2>2 DEF CreateEntryFiles
    <3>2. indexFile' \notin {Absent, Corrupt} =>
            indexFile'.seen # NoTime /\ Covers(indexFile', files', clock, clock)
      <4>1. CASE indexFile \in {Absent, Corrupt}
        BY <3>1, <4>1 DEF Raced
      <4>2. CASE indexFile \notin {Absent, Corrupt}
        <5>1. indexFile \in Snapshots /\ indexFile.seen # NoTime
              /\ Covers(indexFile, files, dirMtime, clock)
          BY <4>2 DEF Types, SnapshotsCover
        <5> QED BY <3>1, <5>1, RacedKeeps, CoversRaced
      <4> QED BY <4>1, <4>2
    <3>3. ASSUME NEW i \in DOMAIN writes PROVE Covers(writes'[i], files', clock, clock)
      <4>1. writes[i] \in Snapshots /\ Covers(writes[i], files, dirMtime, clock)
        BY DEF Types, SnapshotsCover
      <4> QED BY <3>1, <4>1, CoversRaced
    <3>4. DOMAIN writes' = DOMAIN writes
      BY <3>1
    <3> QED BY <3>1, <3>2, <3>3, <3>4 DEF SnapshotsCover, Covers
  <2> QED BY <2>1, <2>2
<1>13. ASSUME NEW h \in Hashes, DeleteEntryFiles(h) PROVE SnapshotsCover'
  <2>1. dirMtime <= dirMtime'
    BY <1>13, <1>t DEF DeleteEntryFiles
  <2> QED BY <1>0, <1>t, <1>13, <2>1, SnapshotsKept DEF DeleteEntryFiles
<1>14. ASSUME NEW h \in Hashes, DeleteEntryFails(h) PROVE SnapshotsCover'
  BY <1>0, <1>t, <1>14, SnapshotsKept DEF DeleteEntryFails, disk
<1>15. CASE SerializeFinalData
  <2>1. /\ writes \in Seq(Snapshots) /\ writes # <<>> /\ stage = "idle"
        /\ writes' = [writes EXCEPT ![1] = [writes[1] EXCEPT !.seen = dirMtime]]
        /\ UNCHANGED <<files, dirMtime, indexFile, clock>>
    BY <1>15 DEF SerializeFinalData, Step, Types
  <2>2. writes[1] \in Snapshots /\ 1 \in DOMAIN writes
    BY <2>1, FirstWritten
  <2>3. writes[1].seen = NoTime /\ Covers(writes[1], files, dirMtime, clock)
    BY <2>1, <2>2 DEF Phases, SnapshotsCover
  <2>4. Covers([writes[1] EXCEPT !.seen = dirMtime], files, dirMtime, clock)
    BY <2>2, <2>3, <1>t DEF Covers, Snapshots
  <2>5. \A i \in DOMAIN writes' : Covers(writes'[i], files, dirMtime, clock)
    BY <2>1, <2>2, <2>4 DEF SnapshotsCover
  <2> QED BY <2>1, <2>5 DEF SnapshotsCover, Covers
<1>16. CASE WritePickleFile
  BY <1>0, <1>t, <1>16, SnapshotsKept DEF WritePickleFile
<1>17. CASE ReplaceFile
  <2>1. /\ writes \in Seq(Snapshots) /\ writes # <<>> /\ stage = "written"
        /\ writes' = Tail(writes) /\ indexFile' = writes[1]
        /\ UNCHANGED <<files, dirMtime, clock>>
    BY <1>17, FirstWritten DEF ReplaceFile, Step, Types
  <2>2. writes[1].seen # NoTime /\ Covers(writes[1], files, dirMtime, clock)
    BY <2>1, FirstWritten DEF Phases, SnapshotsCover
  <2>3. \A i \in DOMAIN writes' : Covers(writes'[i], files, dirMtime, clock)
    BY <2>1, FirstWritten DEF SnapshotsCover
  <2> QED BY <2>1, <2>2, <2>3 DEF SnapshotsCover, Covers
<1>18. CASE WriteFails
  BY <1>0, <1>t, <1>18, SnapshotsKept DEF WriteFails
<1>19. CASE ChangeOtherFiles
  BY <1>0, <1>t, <1>19, SnapshotsKept DEF ChangeOtherFiles
<1>20. CASE Tick
  <2>1. clock <= clock'
    BY <1>20 DEF Tick, Types
  <2> QED BY <1>0, <1>t, <1>20, <2>1, SnapshotsKept DEF Tick, disk
<1>21. CASE UNCHANGED vars
  BY <1>0, <1>t, <1>21, SnapshotsKept DEF vars, disk
<1> QED
  BY <1>1, <1>2, <1>3, <1>4, <1>5, <1>6, <1>7, <1>8, <1>9, <1>10, <1>12, <1>13,
     <1>14, <1>15, <1>16, <1>17, <1>18, <1>19, <1>20, <1>21 DEF Next

-------------------------------------------------------------------------------
(* The theorems *)

LEMMA InitInv == Init => IndexInv
<1> SUFFICES ASSUME Init PROVE IndexInv
  OBVIOUS
<1>1. Types
  BY InitTypes
<1>2. /\ files \in SUBSET Hashes /\ dirMtime = 0 /\ clock = 0
      /\ operations = Idle /\ backend = "down" /\ removed = {} /\ timer = FALSE
      /\ load = NoLoad /\ writes = <<>> /\ stage = "idle"
      /\ indexFile \in {Absent, Corrupt, [Serialize(files, {}) EXCEPT !.seen = 0]}
  BY Zenon DEF Init
<1>3. Phases
  BY <1>2 DEF Phases, NoLoad
<1>4. MemoryInv
  BY <1>2 DEF MemoryInv, CreatedIsKnown, RemovedIsKnown, LoadFinds, IndexKnowsFiles
<1>5. SnapshotsCover
  <2>1. CASE indexFile \in {Absent, Corrupt}
    BY <1>2, <2>1 DEF SnapshotsCover
  <2>2. CASE indexFile = [Serialize(files, {}) EXCEPT !.seen = 0]
    <3>1. /\ indexFile.seen = 0 /\ indexFile.entries = files
          /\ indexFile.missed = {} /\ indexFile.sameTick = {}
      BY <2>2 DEF Serialize
    <3> QED BY <1>2, <3>1, IndexFileAssumption DEF SnapshotsCover, Covers
  <2> QED BY <1>2, <2>1, <2>2
<1> QED BY <1>1, <1>3, <1>4, <1>5 DEF IndexInv

LEMMA InvStep == IndexInv /\ [Next]_vars => IndexInv'
<1> SUFFICES ASSUME IndexInv, [Next]_vars PROVE IndexInv'
  OBVIOUS
<1>1. Types' /\ Phases' /\ MemoryInv'
  BY TypesStep, PhasesStep, MemoryStep DEF IndexInv
<1>2. SnapshotsCover'
  BY <1>1, SnapshotsStep
<1> QED BY <1>1, <1>2 DEF IndexInv

LEMMA IndexInvariant == Spec => []IndexInv
BY InitInv, InvStep, PTL DEF Spec

\* However creations, dooms and the listing of the directory interleave, and whatever
\* index was loaded, a loaded index knows every entry that has files, but for those
\* the load could not tell it of (SimpleIndex::MergeInitializingSet).
THEOREM IndexKnows == Spec => []IndexKnowsFiles
<1>1. IndexInv => IndexKnowsFiles
  BY DEF IndexInv, MemoryInv
<1> QED BY <1>1, IndexInvariant, PTL

\* Crashes, failed writes and races with the workers included, an index file that is
\* not older than the directory lists its entries, but for those the history fields
\* name (SimpleIndexFile::SyncLoadIndexEntries, SyncWriteToDiskInternal).
THEOREM FreshIndexLists == Spec => []FreshIndexListsFiles
<1>1. IndexInv => FreshIndexListsFiles
  <2> SUFFICES ASSUME IndexInv, Fresh(dirMtime) PROVE FreshIndexListsFiles
    BY DEF FreshIndexListsFiles
  <2>1. /\ indexFile \notin {Absent, Corrupt} /\ dirMtime <= indexFile.seen
    BY DEF Fresh
  <2> QED BY <2>1 DEF IndexInv, SnapshotsCover, Covers, FreshIndexListsFiles
<1> QED BY <1>1, IndexInvariant, PTL

-------------------------------------------------------------------------------
(* Refinement: the index file is a register *)

contents == IF indexFile \in {Absent, Corrupt} THEN indexFile ELSE indexFile.entries

\* The sets of entries of some snapshots.
EntriesOf(w) == [i \in DOMAIN w |-> w[i].entries]

posted == EntriesOf(writes)

LEMMA SequenceIsFunction ==
  ASSUME NEW S, NEW w \in Seq(S)
  PROVE  w = [i \in DOMAIN w |-> w[i]]
OBVIOUS

LEMMA PostedContents ==
  ASSUME NEW w \in Seq(Snapshots)
  PROVE  /\ EntriesOf(w) \in Seq(SUBSET Hashes) /\ Len(EntriesOf(w)) = Len(w)
         /\ \A s \in Snapshots :
              EntriesOf(Append(w, s)) = Append(EntriesOf(w), s.entries)
         /\ w # <<>> => /\ EntriesOf(w) # <<>> /\ Head(EntriesOf(w)) = Head(w).entries
                        /\ EntriesOf(Tail(w)) = Tail(EntriesOf(w))
<1>1. EntriesOf(w) \in Seq(SUBSET Hashes) /\ Len(EntriesOf(w)) = Len(w)
  <2>1. ASSUME NEW i \in DOMAIN w PROVE w[i].entries \in SUBSET Hashes
    <3>1. w[i] \in Snapshots
      OBVIOUS
    <3> QED BY <3>1 DEF Snapshots
  <2>2. EntriesOf(w) \in Seq(SUBSET Hashes)
    BY <2>1, MappedIsSequence DEF EntriesOf
  <2> QED BY <2>2 DEF EntriesOf
<1>2. ASSUME NEW s \in Snapshots
      PROVE  EntriesOf(Append(w, s)) = Append(EntriesOf(w), s.entries)
  <2>1. s.entries \in SUBSET Hashes
    BY DEF Snapshots
  <2>2. DOMAIN Append(EntriesOf(w), s.entries) = DOMAIN Append(w, s)
    BY <1>1, <2>1
  <2>3. \A i \in DOMAIN Append(w, s) :
          Append(w, s)[i].entries = Append(EntriesOf(w), s.entries)[i]
    BY <1>1, <2>1 DEF EntriesOf
  <2>4. Append(EntriesOf(w), s.entries) =
          [i \in DOMAIN Append(EntriesOf(w), s.entries) |-> Append(EntriesOf(w), s.entries)[i]]
    BY <1>1, <2>1
  <2> QED BY <2>2, <2>3, <2>4 DEF EntriesOf
<1>3. ASSUME w # <<>>
      PROVE  /\ EntriesOf(w) # <<>> /\ Head(EntriesOf(w)) = Head(w).entries
             /\ EntriesOf(Tail(w)) = Tail(EntriesOf(w))
  <2>1. EntriesOf(w) # <<>> /\ Head(EntriesOf(w)) = Head(w).entries
    BY <1>1, <1>3 DEF EntriesOf
  <2>2. DOMAIN Tail(EntriesOf(w)) = DOMAIN Tail(w)
    BY <1>1, <1>3, <2>1
  <2>3. \A i \in DOMAIN Tail(w) : Tail(w)[i].entries = Tail(EntriesOf(w))[i]
    BY <1>1, <1>3, <2>1, FirstWritten DEF EntriesOf
  <2>4. Tail(EntriesOf(w)) = [i \in DOMAIN Tail(EntriesOf(w)) |-> Tail(EntriesOf(w))[i]]
    <3>1. Tail(EntriesOf(w)) \in Seq(SUBSET Hashes)
      BY <1>1, <2>1
    <3> QED BY <3>1, SequenceIsFunction
  <2> QED BY <2>1, <2>2, <2>3, <2>4 DEF EntriesOf
<1> QED BY <1>1, <1>2, <1>3

LEMMA PostingRefines ==
  ASSUME Types, NEW reason \in BOOLEAN,
         NEW entries \in SUBSET Hashes, NEW unknown \in SUBSET Hashes,
         WriteToDisk(reason, entries, unknown), indexFile' = indexFile
  PROVE  /\ contents' = contents
         /\ posted' = Append(posted, entries) \/ posted' = posted
<1>1. contents' = contents
  BY DEF contents
<1>2. CASE reason
  <2>1. writes' = Append(writes, Serialize(entries, unknown))
    BY <1>2 DEF WriteToDisk
  <2>2. Serialize(entries, unknown) \in Snapshots /\ Serialize(entries, unknown).entries = entries
    BY SerializedIsSnapshot DEF Serialize
  <2>3. posted' = Append(posted, entries)
    BY <2>1, <2>2, PostedContents DEF Types, posted
  <2> QED BY <1>1, <2>3
<1>3. CASE ~reason
  BY <1>1, <1>3 DEF WriteToDisk, posted, EntriesOf
<1> QED BY <1>2, <1>3

LEMMA InitRefines == Init => Register!Init
<1> SUFFICES ASSUME Init PROVE Register!Init
  OBVIOUS
<1>1. Types /\ writes = <<>>
  BY InitTypes DEF Init
<1>2. contents \in (SUBSET Hashes) \cup {Absent, Corrupt}
  BY <1>1 DEF Types, Snapshots, contents
<1>3. posted = <<>>
  BY <1>1 DEF posted, EntriesOf
<1> QED BY <1>2, <1>3 DEF Register!Init, contents, posted, EntriesOf

LEMMA NextRefines ==
  IndexInv /\ [Next]_vars => Register!Next \/ UNCHANGED <<contents, posted>>
<1> SUFFICES ASSUME Types, Phases, [Next]_vars
             PROVE  Register!Next \/ UNCHANGED <<contents, posted>>
  BY DEF IndexInv
<1>0. writes \in Seq(Snapshots)
  BY DEF Types
<1>1. CASE indexFile' = indexFile /\ writes' = writes
  BY <1>1 DEF contents, posted, EntriesOf
<1>2. CASE InitializeIndex
  <2>1. contents' = contents
    <3>1. CASE indexFile \in {Absent, Corrupt}
      BY <1>2, <3>1 DEF InitializeIndex, Inherited, contents
    <3>2. CASE indexFile \notin {Absent, Corrupt}
      <4>1. indexFile \in Snapshots
        BY <3>2 DEF Types
      <4>2. indexFile' = [indexFile EXCEPT !.missed =
                            @ \cup indexFile.raced \cup indexFile.sameTick]
        BY <1>2, <3>2 DEF InitializeIndex, Inherited
      <4>3. indexFile' \in Snapshots /\ indexFile'.entries = indexFile.entries
        BY <4>1, <4>2 DEF Snapshots
      <4> QED BY <3>2, <4>3, SnapshotAssumption DEF contents
    <3> QED BY <3>1, <3>2
  <2> QED BY <1>2, <2>1 DEF InitializeIndex, posted, EntriesOf
<1>3. CASE LoadStale
  <2>1. CASE indexFile' = indexFile
    BY <1>3, <2>1 DEF LoadStale, contents, posted, EntriesOf
  <2>2. CASE indexFile' = Absent
    BY <1>3, <2>2 DEF LoadStale, Register!Next, Register!Discard
  <2> QED BY <1>3, <2>1, <2>2 DEF LoadStale
<1>4. CASE MergeInitializingSet
  <2>1. /\ known' \in SUBSET Hashes /\ missed' \in SUBSET Hashes
        /\ load.flush \in BOOLEAN /\ indexFile' = indexFile
        /\ WriteToDisk(load.flush, known', missed')
    BY <1>4, TypesStep DEF MergeInitializingSet, Types, disk
  <2>2. contents' = contents /\ (posted' = Append(posted, known') \/ posted' = posted)
    BY <2>1, PostingRefines
  <2> QED BY <2>1, <2>2 DEF Register!Next, Register!Post, contents, posted, EntriesOf
<1>5. CASE WriteIndex \/ Shutdown
  <2>1. PICK reason \in BOOLEAN : WriteToDisk(reason, known, missed)
    BY <1>5 DEF WriteIndex, Shutdown, Types
  <2>2. /\ known \in SUBSET Hashes /\ missed \in SUBSET Hashes /\ indexFile' = indexFile
    BY <1>5 DEF WriteIndex, Shutdown, Types, disk
  <2>3. contents' = contents /\ (posted' = Append(posted, known) \/ posted' = posted)
    BY <2>1, <2>2, PostingRefines
  <2> QED BY <2>2, <2>3 DEF Register!Next, Register!Post, contents, posted, EntriesOf
<1>6. CASE Crash
  <2>1. posted' = <<>>
    BY <1>6 DEF Crash, posted, EntriesOf
  <2> QED BY <1>6, <2>1
          DEF Crash, disk, Register!Next, Register!Forget, posted, EntriesOf
<1>7. ASSUME NEW h \in Hashes, CreateEntryFiles(h) PROVE UNCHANGED <<contents, posted>>
  <2>1. CASE h \in files
    BY <1>7, <2>1 DEF CreateEntryFiles, disk, contents, posted, EntriesOf
  <2>2. CASE h \notin files
    <3>1. /\ indexFile' = Raced(indexFile, h)
          /\ writes' = [i \in DOMAIN writes |-> Raced(writes[i], h)]
      BY <1>7, <2>2 DEF CreateEntryFiles
    <3>2. contents' = contents
      <4>1. CASE indexFile \in {Absent, Corrupt}
        BY <3>1, <4>1 DEF Raced, contents
      <4>2. CASE indexFile \in Snapshots
        BY <3>1, <4>2, RacedKeeps, RacedIsSnapshot, SnapshotAssumption DEF contents
      <4> QED BY <4>1, <4>2 DEF Types
    <3>3. \A i \in DOMAIN writes : Raced(writes[i], h).entries = writes[i].entries
      BY RacedKeeps DEF Types
    <3>4. posted' = posted
      BY <3>1, <3>3 DEF posted, EntriesOf
    <3> QED BY <3>2, <3>4
  <2> QED BY <2>1, <2>2
<1>8. CASE SerializeFinalData
  <2>1. /\ writes # <<>> /\ indexFile' = indexFile
        /\ writes' = [writes EXCEPT ![1] = [writes[1] EXCEPT !.seen = dirMtime]]
    BY <1>8 DEF SerializeFinalData, Step
  <2>2. writes[1] \in Snapshots
    BY <1>0, <2>1, FirstWritten
  <2>3. [writes[1] EXCEPT !.seen = dirMtime].entries = writes[1].entries
    BY <2>2 DEF Snapshots
  <2>4. /\ DOMAIN writes' = DOMAIN writes
        /\ \A i \in DOMAIN writes : writes'[i].entries = writes[i].entries
    BY <1>0, <2>1, <2>3
  <2> QED BY <2>1, <2>4 DEF contents, posted, EntriesOf
<1>9. CASE ReplaceFile
  <2>1. writes # <<>> /\ indexFile' = Head(writes) /\ writes' = Tail(writes)
    BY <1>9 DEF ReplaceFile, Step
  <2>2. Head(writes) \in Snapshots
    BY <1>0, <2>1, FirstWritten
  <2>3. contents' = Head(posted) /\ posted' = Tail(posted) /\ posted # <<>>
    BY <1>0, <2>1, <2>2, PostedContents, SnapshotAssumption DEF contents, posted
  <2> QED BY <2>3 DEF Register!Next, Register!Write, contents, posted, EntriesOf
<1>10. CASE WriteFails
  <2>1. writes # <<>> /\ indexFile' = indexFile /\ writes' = Tail(writes)
    BY <1>10 DEF WriteFails
  <2>2. contents' = contents /\ posted' = Tail(posted) /\ posted # <<>>
    BY <1>0, <2>1, PostedContents DEF contents, posted
  <2> QED BY <2>2 DEF Register!Next, Register!Fail, contents, posted, EntriesOf
<1>11. CASE LoadFresh \/ RestoreDone \/ ChangeOtherFiles \/ Tick \/ UNCHANGED vars
            \/ WritePickleFile
  BY <1>1, <1>11 DEF LoadFresh, RestoreDone, ChangeOtherFiles, Tick, WritePickleFile,
                     vars, disk
<1>12. ASSUME NEW h \in Hashes,
              \/ ProcessEntryFile(h) \/ Insert(h) \/ Remove(h)
              \/ DeleteEntryFiles(h) \/ DeleteEntryFails(h)
       PROVE  UNCHANGED <<contents, posted>>
  BY <1>12 DEF ProcessEntryFile, Insert, Remove, DeleteEntryFiles, DeleteEntryFails,
               disk, contents, posted, EntriesOf
<1> QED
  BY <1>2, <1>3, <1>4, <1>5, <1>6, <1>7, <1>8, <1>9, <1>10, <1>11, <1>12 DEF Next

\* The temporary file and its renaming make one step of each write: whenever the
\* process dies or a step fails, the index file holds one of the sets posted to it,
\* whole and in their order (SyncWriteToDiskInternal).
THEOREM IndexImplementsRegister == Spec => IndexWrittenWhole
<1>1. Register!Next \/ UNCHANGED <<contents, posted>>
        => [Register!Next]_<<
             IF indexFile \in {Absent, Corrupt} THEN indexFile ELSE indexFile.entries,
             [i \in DOMAIN writes |-> writes[i].entries]>>
  BY DEF contents, posted, EntriesOf
<1> QED
  BY <1>1, InitRefines, NextRefines, IndexInvariant, PTL
  DEF Spec, IndexWrittenWhole, Register!Spec

-------------------------------------------------------------------------------
(* A life that ends in order *)

\* What the index file will hold when nothing is posted any more and no write fails.
Last == IF writes = <<>> THEN indexFile ELSE writes[Len(writes)]

\* What a snapshot does not list, and is raced with or still may be.
Loose(s) ==
  (IF s.seen = NoTime THEN Hashes ELSE s.raced) \ (s.entries \cup s.missed \cup s.sameTick)

LooseLast == IF Last \in {Absent, Corrupt} THEN {} ELSE Loose(Last)

\* The workers leave no files of h.
WillBeGone(h) ==
  IF operations[h] = <<>> THEN h \notin files
                          ELSE operations[h][Len(operations[h])] = "doom"

\* Without a write to come, the last one misses only what will be gone; and an entry
\* of which that is true is created again only if it is new to the index, so that
\* there is a write to come.
OrderlyInv ==
  orderly /\ ~timer =>
    /\ \A h \in LooseLast : WillBeGone(h)
    /\ backend = "loading" => LooseLast = {}
    /\ backend = "ready" => known \cap LooseLast = {}

LEMMA LastIsSnapshot == Types => Last \in Snapshots \cup {Absent, Corrupt}
BY DEF Types, Last

LEMMA TailKeepsLast ==
  ASSUME NEW S, NEW w \in Seq(S), w # <<>>, Len(w) # 1
  PROVE  Tail(w) # <<>> /\ Tail(w)[Len(Tail(w))] = w[Len(w)]
<1>1. Tail(w) \in Seq(S) /\ Len(Tail(w)) = Len(w) - 1 /\ Len(w) \in Nat \ {0}
  OBVIOUS
<1>2. Tail(w) # <<>>
  <2>1. Len(Tail(w)) # 0
    BY <1>1
  <2>2. Len(<<>>) = 0
    OBVIOUS
  <2> QED BY <2>1, <2>2
<1>3. Len(Tail(w)) \in DOMAIN Tail(w) /\ Len(Tail(w)) + 1 = Len(w)
  <2>1. DOMAIN Tail(w) = 1 .. Len(Tail(w))
    BY <1>1
  <2>2. Len(w) - 1 \in 1 .. Len(w) - 1
    BY <1>1
  <2> QED BY <1>1, <2>1, <2>2
<1>4. \A i \in DOMAIN Tail(w) : Tail(w)[i] = w[i + 1]
  BY FirstWritten
<1> QED BY <1>2, <1>3, <1>4

LEMMA OrderlyKept ==
  ASSUME OrderlyInv, orderly' => orderly, ~timer' => ~timer,
         LooseLast' \subseteq LooseLast,
         \A h \in LooseLast' : WillBeGone(h) => WillBeGone(h)',
         backend' = "loading" => backend = "loading",
         backend' = "ready" =>
           \/ backend = "loading"
           \/ backend = "ready" /\ known' \cap LooseLast' \subseteq known
  PROVE  OrderlyInv'
BY DEF OrderlyInv

\* A snapshot of what is known lists all that will not be gone.
LEMMA SerializedLists ==
  ASSUME Types, backend \in {"loading", "ready"}, CreatedIsKnown,
         NEW entries \in SUBSET Hashes, NEW unknown \in SUBSET Hashes,
         known \subseteq entries,
         \A h \in files : h \in entries \/ Dooming(h) \/ h \in unknown,
         NEW h \in Loose(Serialize(entries, unknown))
  PROVE  h \notin entries /\ WillBeGone(h)
<1>1. h \in Hashes /\ h \notin entries /\ h \notin unknown
  BY DEF Loose, Serialize
<1>2. operations[h] \in Seq(Operations)
  BY <1>1 DEF Types, Operations
<1>3. CASE operations[h] = <<>>
  <2>1. ~Dooming(h)
    BY <1>3 DEF Dooming
  <2> QED BY <1>1, <1>3, <2>1 DEF WillBeGone
<1>4. CASE operations[h] # <<>>
  <2>1. operations[h][Len(operations[h])] # "create"
    BY <1>1, <1>4 DEF CreatedIsKnown
  <2>2. operations[h][Len(operations[h])] \in Operations
    BY <1>2, <1>4
  <2> QED BY <1>1, <1>4, <2>1, <2>2 DEF WillBeGone, Operations
<1> QED BY <1>1, <1>3, <1>4

\* Another write makes good for what the last one missed.
LEMMA PostedIsLast ==
  ASSUME Types, NEW entries \in SUBSET Hashes, NEW unknown \in SUBSET Hashes,
         writes' = Append(writes, Serialize(entries, unknown))
  PROVE  LooseLast' = Loose(Serialize(entries, unknown))
<1> DEFINE s == Serialize(entries, unknown)
<1>1. s \in Snapshots /\ writes \in Seq(Snapshots)
  BY SerializedIsSnapshot DEF Types
<1> HIDE DEF s
<1>2. writes' # <<>> /\ writes'[Len(writes')] = s
  <2>1. writes' = Append(writes, s)
    BY DEF s
  <2> QED BY <1>1, <2>1
<1>3. Last' = s
  BY <1>2 DEF Last
<1> QED BY <1>1, <1>3, SnapshotAssumption DEF LooseLast, s

LEMMA OrderlyStep ==
  IndexInv /\ OrderlyInv /\ [Next]_vars /\ IndexInv' => OrderlyInv'
<1> SUFFICES ASSUME Types, Phases, SnapshotsCover, MemoryInv, OrderlyInv, [Next]_vars,
                    Types', MemoryInv'
             PROVE  OrderlyInv'
  BY DEF IndexInv
<1>0. writes \in Seq(Snapshots) /\ CreatedIsKnown /\ CreatedIsKnown'
  BY DEF Types, MemoryInv
<1>1. CASE InitializeIndex
  <2>1. /\ writes' = <<>> /\ indexFile' = Inherited(indexFile)
    BY <1>1 DEF InitializeIndex
  <2>2. LooseLast' = {}
    <3>1. CASE indexFile \in {Absent, Corrupt}
      BY <2>1, <3>1 DEF Inherited, LooseLast, Last
    <3>2. CASE indexFile \notin {Absent, Corrupt}
      <4>1. indexFile \in Snapshots /\ indexFile.seen # NoTime
        BY <3>2 DEF Types, SnapshotsCover
      <4>2. indexFile' = [indexFile EXCEPT !.missed =
                            @ \cup indexFile.raced \cup indexFile.sameTick]
        BY <2>1, <3>2 DEF Inherited
      <4>3. /\ indexFile'.seen # NoTime /\ indexFile'.raced = indexFile.raced
            /\ indexFile.raced \subseteq indexFile'.missed
        BY <4>1, <4>2 DEF Snapshots
      <4> QED BY <2>1, <4>3 DEF LooseLast, Last, Loose
    <3> QED BY <3>1, <3>2
  <2> QED BY <2>2 DEF OrderlyInv
<1>2. CASE UNCHANGED <<orderly, timer, writes, indexFile, operations, files, backend, known>>
  BY <1>2 DEF OrderlyInv, LooseLast, Last, WillBeGone
<1>3. CASE LoadStale
  <2>1. backend = "loading"
    BY <1>3 DEF LoadStale, Phases
  <2>2. LooseLast' = LooseLast \/ LooseLast' = {}
    BY <1>3 DEF LoadStale, LooseLast, Last
  <2>3. \A h : WillBeGone(h)' <=> WillBeGone(h)
    BY <1>3 DEF LoadStale, WillBeGone
  <2> QED BY <1>3, <2>1, <2>2, <2>3, OrderlyKept DEF LoadStale
<1>4. CASE MergeInitializingSet
  <2>1. /\ UNCHANGED <<files, operations, indexFile, orderly>>
        /\ backend = "loading" /\ backend' = "ready"
        /\ known' \in SUBSET Hashes /\ missed' \in SUBSET Hashes
        /\ WriteToDisk(load.flush, known', missed')
    BY <1>4 DEF MergeInitializingSet, disk, Phases, Types
  <2>2. \A h : WillBeGone(h)' <=> WillBeGone(h)
    BY <2>1 DEF WillBeGone
  <2>3. CASE load.flush
    <3>1. LooseLast' = Loose(Serialize(known', missed'))
      BY <2>1, <2>3, PostedIsLast DEF WriteToDisk
    <3>2. \A h \in files : h \in known' \/ Dooming(h) \/ h \in missed'
      BY <2>1 DEF MemoryInv, IndexKnowsFiles, Dooming
    <3>3. known \subseteq known'
      BY <1>4 DEF MergeInitializingSet
    <3>4. \A h \in Loose(Serialize(known', missed')) : h \notin known' /\ WillBeGone(h)
      BY <1>0, <2>1, <3>2, <3>3, SerializedLists
    <3> QED BY <2>1, <2>2, <3>1, <3>4 DEF OrderlyInv
  <2>4. CASE ~load.flush
    <3>1. writes' = writes /\ timer' = timer
      BY <2>1, <2>4 DEF WriteToDisk
    <3>2. LooseLast' = LooseLast
      BY <2>1, <3>1 DEF LooseLast, Last
    <3> QED BY <2>1, <2>2, <3>1, <3>2, OrderlyKept
  <2> QED BY <2>3, <2>4
<1>5. CASE WriteIndex \/ (Shutdown /\ timer)
  <2>1. /\ UNCHANGED <<files, operations, orderly>> /\ backend = "ready"
        /\ writes' = Append(writes, Serialize(known, missed))
        /\ backend' = "ready" => known' = known
        /\ backend' # "loading"
    BY <1>5 DEF WriteIndex, Shutdown, WriteToDisk, disk, Phases
  <2>2. LooseLast' = Loose(Serialize(known, missed))
    BY <2>1, PostedIsLast DEF Types
  <2>3. \A h \in Loose(Serialize(known, missed)) : h \notin known /\ WillBeGone(h)
    BY <1>0, <2>1, SerializedLists DEF MemoryInv, IndexKnowsFiles, Types
  <2> QED BY <2>1, <2>2, <2>3 DEF OrderlyInv, WillBeGone
<1>6. CASE Shutdown /\ ~timer
  <2>1. /\ UNCHANGED <<files, operations, orderly, writes, timer, indexFile>>
        /\ backend' = "closed"
    BY <1>6 DEF Shutdown, WriteToDisk, disk, Types
  <2> QED BY <2>1 DEF OrderlyInv, LooseLast, Last, WillBeGone
<1>7. CASE Crash \/ WriteFails \/ \E h \in Hashes : DeleteEntryFails(h)
  BY <1>7 DEF Crash, WriteFails, DeleteEntryFails, OrderlyInv
<1>8. ASSUME NEW h \in Hashes, Insert(h) PROVE OrderlyInv'
  <2>1. /\ UNCHANGED <<files, backend, writes, indexFile, orderly>>
        /\ backend \in {"loading", "ready"} /\ known' = known \cup {h}
        /\ timer' = (timer \/ (h \notin known /\ backend = "ready"))
        /\ \A g \in Hashes \ {h} : operations'[g] = operations[g]
    BY <1>8 DEF Insert, PostponeWritingToDisk, Enqueue, disk, Types
  <2>2. LooseLast' = LooseLast
    BY <2>1 DEF LooseLast, Last
  <2>3. LooseLast \subseteq Hashes
    BY LastIsSnapshot DEF LooseLast, Loose, Snapshots
  <2>4. orderly /\ ~timer' => h \notin LooseLast
    BY <2>1 DEF OrderlyInv
  <2>5. \A g \in Hashes \ {h} : WillBeGone(g) => WillBeGone(g)'
    BY <2>1 DEF WillBeGone
  <2> QED BY <2>1, <2>2, <2>3, <2>4, <2>5 DEF OrderlyInv
<1>9. ASSUME NEW h \in Hashes, Remove(h) PROVE OrderlyInv'
  <2>1. /\ UNCHANGED <<files, backend, writes, indexFile, orderly>>
        /\ known' \subseteq known /\ timer \in BOOLEAN
        /\ timer' = (timer \/ (h \in known /\ backend = "ready"))
        /\ \A g \in Hashes \ {h} : operations'[g] = operations[g]
        /\ operations'[h] = Append(operations[h], "doom")
        /\ operations[h] \in Seq(Operations)
    BY <1>9 DEF Remove, PostponeWritingToDisk, Enqueue, disk, Types, Operations
  <2>2. LooseLast' = LooseLast
    BY <2>1 DEF LooseLast, Last
  <2>3. LooseLast \subseteq Hashes
    BY LastIsSnapshot DEF LooseLast, Loose, Snapshots
  <2>4. WillBeGone(h)'
    BY <2>1, DoomAppended DEF WillBeGone, Operations
  <2>5. \A g \in Hashes \ {h} : WillBeGone(g) => WillBeGone(g)'
    BY <2>1 DEF WillBeGone
  <2> QED BY <2>1, <2>2, <2>3, <2>4, <2>5 DEF OrderlyInv
<1>10. ASSUME NEW h \in Hashes, CreateEntryFiles(h) PROVE OrderlyInv'
  <2>1. /\ UNCHANGED <<backend, known, timer, orderly>>
        /\ \A g \in Hashes \ {h} : operations'[g] = operations[g] /\ (g \in files' => g \in files)
        /\ operations[h] # <<>> /\ Head(operations[h]) = "create"
        /\ operations'[h] = Tail(operations[h])
        /\ operations[h] \in Seq(Operations)
    BY <1>10 DEF CreateEntryFiles, disk, memory, Types, Operations
  <2>2. \A g \in Hashes : WillBeGone(g) => WillBeGone(g)'
    <3>1. WillBeGone(h) => WillBeGone(h)'
      BY <2>1, DoomTail DEF WillBeGone
    <3>2. \A g \in Hashes \ {h} : WillBeGone(g) => WillBeGone(g)'
      BY <2>1 DEF WillBeGone
    <3> QED BY <3>1, <3>2
  <2>3. LooseLast' \subseteq LooseLast
    <3>1. CASE h \in files
      BY <1>10, <3>1 DEF CreateEntryFiles, disk, LooseLast, Last
    <3>2. CASE h \notin files
      <4>1. /\ indexFile' = Raced(indexFile, h)
            /\ writes' = [i \in DOMAIN writes |-> Raced(writes[i], h)]
        BY <1>10, <3>2 DEF CreateEntryFiles
      <4>2. Last' = Raced(Last, h)
        <5>1. CASE writes = <<>>
          BY <4>1, <5>1 DEF Last
        <5>2. CASE writes # <<>>
          <6>1. writes' \in Seq(Snapshots)
            BY DEF Types
          <6>2. Len(writes') = Len(writes) /\ Len(writes) \in DOMAIN writes
            BY <1>0, <4>1, <5>2, <6>1
          <6> QED BY <4>1, <5>2, <6>1, <6>2 DEF Last
        <5> QED BY <5>1, <5>2
      <4>3. CASE Last \in {Absent, Corrupt}
        BY <4>2, <4>3 DEF Raced, LooseLast
      <4>4. CASE Last \in Snapshots
        <5>1. Loose(Raced(Last, h)) \subseteq Loose(Last)
          <6>1. CASE Last.seen = NoTime
            BY <4>4, <6>1, RacedKeeps DEF Loose
          <6>2. CASE Last.seen # NoTime
            <7>1. Raced(Last, h).raced = Last.raced
              BY <4>4, <6>2 DEF Raced, Snapshots
            <7> QED BY <4>4, <6>2, <7>1, RacedKeeps DEF Loose
          <6> QED BY <6>1, <6>2
        <5> QED BY <4>2, <4>4, <5>1, SnapshotAssumption DEF LooseLast
      <4> QED BY <4>3, <4>4, LastIsSnapshot
    <3> QED BY <3>1, <3>2
  <2>4. LooseLast' \subseteq Hashes
    BY <2>3, LastIsSnapshot DEF LooseLast, Loose, Snapshots
  <2> QED BY <2>1, <2>2, <2>3, <2>4, OrderlyKept
<1>11. ASSUME NEW h \in Hashes, DeleteEntryFiles(h) PROVE OrderlyInv'
  <2>1. /\ UNCHANGED <<backend, known, timer, orderly, writes, indexFile>>
        /\ files' = files \ {h}
        /\ \A g \in Hashes \ {h} : operations'[g] = operations[g]
        /\ operations[h] # <<>> /\ operations'[h] = Tail(operations[h])
        /\ operations[h] \in Seq(Operations)
    BY <1>11 DEF DeleteEntryFiles, memory, Types, Operations
  <2>2. \A g \in Hashes : WillBeGone(g) => WillBeGone(g)'
    <3>1. WillBeGone(h) => WillBeGone(h)'
      BY <2>1, DoomTail DEF WillBeGone
    <3>2. \A g \in Hashes \ {h} : WillBeGone(g) => WillBeGone(g)'
      BY <2>1 DEF WillBeGone
    <3> QED BY <3>1, <3>2
  <2>3. LooseLast' = LooseLast /\ LooseLast \subseteq Hashes
    BY <2>1, LastIsSnapshot DEF LooseLast, Last, Loose, Snapshots
  <2> QED BY <2>1, <2>2, <2>3, OrderlyKept
<1>12. CASE SerializeFinalData
  <2>1. /\ UNCHANGED <<backend, known, timer, orderly, operations, files, indexFile>>
        /\ writes # <<>> /\ stage = "idle"
        /\ writes' = [writes EXCEPT ![1] = [writes[1] EXCEPT !.seen = dirMtime]]
    BY <1>12 DEF SerializeFinalData, Step, memory
  <2>2. /\ writes' # <<>> /\ Len(writes') = Len(writes) /\ Len(writes) \in DOMAIN writes
        /\ 1 \in DOMAIN writes /\ writes[1] \in Snapshots
    BY <1>0, <2>1
  <2>3. CASE Len(writes) = 1
    <3>1. Last = writes[1] /\ Last' = [writes[1] EXCEPT !.seen = dirMtime]
      BY <1>0, <2>1, <2>2, <2>3 DEF Last
    <3>2. Last' \in Snapshots /\ writes[1].seen = NoTime
      BY <2>1, <2>2, <3>1 DEF Snapshots, Types, Phases
    <3>3. LooseLast' \subseteq LooseLast
      BY <2>2, <3>1, <3>2, SnapshotAssumption DEF LooseLast, Loose, Snapshots
    <3> QED BY <2>1, <3>3, OrderlyKept DEF WillBeGone
  <2>4. CASE Len(writes) # 1
    <3>1. Last' = Last
      BY <1>0, <2>1, <2>2, <2>4 DEF Last
    <3> QED BY <2>1, <3>1, OrderlyKept DEF LooseLast, WillBeGone
  <2> QED BY <2>3, <2>4
<1>13. CASE ReplaceFile
  <2>1. /\ UNCHANGED <<backend, known, timer, orderly, operations, files>>
        /\ writes # <<>> /\ indexFile' = Head(writes) /\ writes' = Tail(writes)
    BY <1>13 DEF ReplaceFile, Step, memory
  <2>2. Last' = Last
    <3>1. CASE Len(writes) = 1
      <4>1. writes' = <<>> /\ writes[Len(writes)] = Head(writes)
        BY <1>0, <2>1, <3>1
      <4> QED BY <2>1, <4>1 DEF Last
    <3>2. CASE Len(writes) # 1
      <4>1. writes' # <<>> /\ writes'[Len(writes')] = writes[Len(writes)]
        BY <1>0, <2>1, <3>2, TailKeepsLast
      <4> QED BY <2>1, <4>1 DEF Last
    <3> QED BY <3>1, <3>2
  <2> QED BY <2>1, <2>2, OrderlyKept DEF LooseLast, WillBeGone
<1>14. LoadFresh \/ RestoreDone \/ WritePickleFile \/ ChangeOtherFiles \/ Tick
         \/ (\E h \in Hashes : ProcessEntryFile(h)) \/ UNCHANGED vars
       => UNCHANGED <<orderly, timer, writes, indexFile, operations, files, backend, known>>
  BY DEF LoadFresh, RestoreDone, WritePickleFile, ChangeOtherFiles, Tick, ProcessEntryFile,
         vars, disk, memory
<1>15. timer \in BOOLEAN
  BY DEF Types
<1> QED
  BY <1>1, <1>2, <1>3, <1>4, <1>5, <1>6, <1>7, <1>8, <1>9, <1>10, <1>11, <1>12, <1>13,
     <1>14, <1>15 DEF Next

\* After a life that ended in order and whose index could be written, the index file
\* misses nothing to a race: whatever changed after a write has caused another, at
\* the latest in the destructor (SimpleBackendImpl::~SimpleBackendImpl).
THEOREM OrderlyIndexLists == Spec => []OrderlyIndexListsFiles
<1>1. Init => OrderlyInv
  BY DEF Init, OrderlyInv
<1>2. IndexInv /\ OrderlyInv => OrderlyIndexListsFiles
  <2> SUFFICES ASSUME IndexInv, OrderlyInv, backend = "closed", orderly, writes = <<>>,
                      operations = Idle, Fresh(dirMtime), NEW h \in files
               PROVE  h \in indexFile.entries \cup indexFile.missed \cup indexFile.sameTick
    BY DEF OrderlyIndexListsFiles
  <2>1. /\ indexFile \notin {Absent, Corrupt} /\ dirMtime <= indexFile.seen
    BY DEF Fresh
  <2>2. /\ indexFile.seen # NoTime
        /\ h \in indexFile.entries \cup indexFile.missed
                    \cup indexFile.raced \cup indexFile.sameTick
    BY <2>1 DEF IndexInv, SnapshotsCover, Covers
  <2>3. LooseLast = Loose(indexFile) /\ ~timer
    <3>1. LooseLast = Loose(indexFile)
      BY <2>1 DEF LooseLast, Last
    <3>2. ~timer
      BY DEF IndexInv, Phases, Types
    <3> QED BY <3>1, <3>2
  <2>4. ~WillBeGone(h)
    BY DEF WillBeGone, Idle, IndexInv, Types
  <2> QED BY <2>2, <2>3, <2>4 DEF OrderlyInv, Loose
<1> QED BY <1>1, <1>2, OrderlyStep, IndexInvariant, PTL DEF Spec

================================================================================
