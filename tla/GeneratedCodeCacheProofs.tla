------------------------ MODULE GeneratedCodeCacheProofs -----------------------
(***************************************************************************)
(* What GeneratedCodeCache promises, for every set of resources, blobs and *)
(* faults and any number of calls.                                         *)
(*                                                                         *)
(* The argument: the operations of a resource stand in one line, its queue *)
(* and then pending_ops_, in the order of the calls that made them; what   *)
(* was asked after an operation that still waits is still to come; so the  *)
(* front of the queue finds on disk what the last change before it left.   *)
(***************************************************************************)
EXTENDS GeneratedCodeCache, FiniteSetTheorems, SequenceTheorems, TLAPS

-------------------------------------------------------------------------------
(* Types *)

CallType ==
  [method : {"write", "rejectedWrite", "fetch", "delete", "getBackend"},
   resource : Resources \cup {None}, data : Data \cup {Empty}]

AnswerType == [time : 0 .. MaxRequests, data : Data \cup {Empty}]

Types ==
  /\ backendState \in {"initializing", "initialized", "failed"}
  /\ pendingOps \in Seq(OpType(Keys \cup {None}))
  /\ queue \in [Keys -> Seq(OpType(Keys))]
  /\ lru \in [Keys -> {None} \cup [time : Calls, data : Data]]
  /\ disk \in [Keys -> {None} \cup [small : {Empty} \cup StampType, large : Data \cup {Empty}]]
  /\ crashed \in BOOLEAN
  /\ log \in Seq(CallType) /\ Len(log) <= MaxRequests
  /\ answers \in [Calls -> Seq(AnswerType)]

\* Where operations wait: in the queue of a key, or in pending_ops_.
Places == ({None} \X DOMAIN pendingOps) \cup UNION { {k} \X DOMAIN queue[k] : k \in Keys }

OpAt(p) == IF p[1] = None THEN pendingOps[p[2]] ELSE queue[p[1]][p[2]]

\* Only the front of a queue is worked on, and only with a backend.
Stages ==
  /\ \A p \in Places :
       \/ p[1] = None /\ OpAt(p).stage = "queued"
       \/ /\ p[1] # None /\ OpAt(p).key = p[1]
          /\ OpAt(p).stage = "queued" \/ (p[2] = 1 /\ backendState = "initialized")
  /\ backendState = "initializing" => \A k \in Keys : queue[k] = <<>>

-------------------------------------------------------------------------------
(* What an operation knows *)

\* The streams that a write of d at time t leaves under its resource.
SmallOf(t, d) ==
  Stamped(t, CASE Layout(d) = "inline" -> d
               [] Layout(d) = "dedicated" -> Empty
               [] Layout(d) = "indirect" -> Checksum(d))
LargeOf(d) == IF Layout(d) = "dedicated" THEN d ELSE Empty

Written(r, t, d) ==
  t \in DOMAIN log /\ log[t] = [method |-> "write", resource |-> r, data |-> d]

\* The streams are those of a write of resource r.
Stored(r, small, large) ==
  /\ small \in StampType
  /\ \E d \in Data : /\ Written(r, small.time, d)
                     /\ small = SmallOf(small.time, d) /\ large = LargeOf(d)

\* No write or delete of the resource came between time t and the fetch c.
Fresh(c, t) == \A n \in Changes(log[c].resource) : n <= t \/ n >= c

IsCall(c, method) == c \in DOMAIN log /\ log[c].method = method

\* The buffers are in use, be it to write them.
Reading(op) == op.stage \in {"small", "large"}

SoundWrite(op) ==
  /\ op.callback = 0
  /\ op.key \in Resources /\ Stored(op.key, op.small, op.large)

SoundMergedWrite(op) ==
  /\ op.callback = 0
  /\ \E d \in Data : /\ op.key = Checksum(d) /\ op.small = Empty /\ op.large = d
                     /\ Layout(d) = "indirect"

SoundFetch(op) ==
  /\ op.key \in Resources
  /\ IsCall(op.callback, "fetch") /\ log[op.callback].resource = op.key
  /\ Reading(op) => /\ Stored(op.key, op.small, op.large)
                    /\ Fresh(op.callback, op.small.time)

SoundMergedFetch(op) ==
  /\ IsCall(op.callback, "fetch")
  /\ \E d \in Data : /\ op.key = Checksum(d)
                     /\ Written(log[op.callback].resource, op.time, d)
                     /\ Reading(op) => op.large = d
  /\ Fresh(op.callback, op.time)

SoundDelete(op) ==
  /\ op.callback = 0
  /\ op.key \in Resources
  /\ IsCall(op.time, "delete") /\ log[op.time].resource = op.key

SoundGetBackend(op) == op.key = None /\ IsCall(op.callback, "getBackend")

Sound(op) ==
  \/ op.type = "write" /\ SoundWrite(op)
  \/ op.type = "writeWithSHAKey" /\ SoundMergedWrite(op)
  \/ op.type = "fetch" /\ SoundFetch(op)
  \/ op.type = "fetchWithSHAKey" /\ SoundMergedFetch(op)
  \/ op.type = "delete" /\ SoundDelete(op)
  \/ op.type = "getBackend" /\ SoundGetBackend(op)

OpsSound == \A p \in Places : Sound(OpAt(p))

-------------------------------------------------------------------------------
(* The order of the operations of a resource *)

\* The call that made an operation on a resource.
CallOf(op) ==
  IF op.type = "write" THEN op.small.time
  ELSE IF op.type = "delete" THEN op.time ELSE op.callback

Before(p, q) ==
  \/ p[1] = q[1] /\ p[2] < q[2]
  \/ p[1] # None /\ q[1] = None

InOrder ==
  \A p, q \in Places :
    OpAt(p).key \in Resources /\ OpAt(p).key = OpAt(q).key /\ Before(p, q) =>
      CallOf(OpAt(p)) < CallOf(OpAt(q))

Changing(op) == op.type \in {"write", "delete"}

\* The operation of change n of resource r still waits.
ToCome(r, n) ==
  \E p \in Places :
    OpAt(p).key = r /\ Changing(OpAt(p)) /\ CallOf(OpAt(p)) = n

LaterToCome(r, n) == \A m \in Changes(r) : m > n => ToCome(r, m)

\* What was asked after an operation that still waits is to come, unless there is
\* no backend to ask.
NothingOvertakes ==
  backendState # "failed" =>
    \A p \in Places : OpAt(p).key \in Resources => LaterToCome(OpAt(p).key, CallOf(OpAt(p)))

\* A write is at work on the entry of k.
Writing(k) ==
  /\ <<k, 1>> \in Places
  /\ OpAt(<<k, 1>>).type \in Writes /\ Reading(OpAt(<<k, 1>>))

\* An entry on disk that no write is at work on was asked for, whole, and all that was
\* asked later is to come.
DiskSound ==
  /\ \A r \in Resources : disk[r] # None /\ ~Writing(r) =>
       /\ Stored(r, disk[r].small, disk[r].large)
       /\ LaterToCome(r, disk[r].small.time)
  /\ \A d \in Data : ~Writing(Checksum(d)) =>
       disk[Checksum(d)] \in {None, [small |-> Empty, large |-> d]}
  /\ backendState # "initialized" => \A k \in Keys : disk[k] = None

\* The first of the two writes of op was done and did not fail.
HalfDone(op) == op.type \in Writes /\ op.stage = "large" /\ op.succeeded

\* What it wrote is on disk, unless the entry was evicted since.
WriteLanded ==
  \A p \in Places : HalfDone(OpAt(p)) =>
    disk[OpAt(p).key] = None \/ disk[OpAt(p).key].small = OpAt(p).small

-------------------------------------------------------------------------------
(* Callbacks *)

\* Nobody is to be answered by two operations.
CallbacksDistinct ==
  \A p, q \in Places :
    OpAt(p).callback # 0 /\ OpAt(p).callback = OpAt(q).callback => p = q

HasWaiting(c) == \E p \in Places : OpAt(p).callback = c

\* A call waits or was answered, once.
AnsweredOrWaiting ==
  \A c \in Calls :
    /\ Len(answers[c]) <= 1
    /\ HasWaiting(c) => answers[c] = <<>>
    /\ c \in Asked => HasWaiting(c) \/ answers[c] # <<>>
    /\ c \notin Asked => answers[c] = <<>>

AnswersFresh ==
  ~InMemoryCodeCache =>
    \A c \in Calls : \A i \in DOMAIN answers[c] :
      answers[c][i].time # 0 =>
        /\ Written(log[c].resource, answers[c][i].time, answers[c][i].data)
        /\ Fresh(c, answers[c][i].time)

\* The lines of operations.
LinesInv == Stages /\ OpsSound /\ InOrder /\ NothingOvertakes /\ CallbacksDistinct

CodeCacheInv ==
  /\ Types /\ LinesInv /\ DiskSound /\ WriteLanded
  /\ AnsweredOrWaiting /\ AnswersFresh

-------------------------------------------------------------------------------
(* Places *)

LEMMA KeysFacts ==
  /\ None \notin Keys /\ Resources \subseteq Keys /\ Checksums \subseteq Keys
  /\ Resources \cap Checksums = {} /\ None \notin Resources
  /\ Empty \notin Checksums /\ Data \cap Checksums = {}
  /\ \A d \in Data : Checksum(d) \in Checksums
  BY CodeCacheAssumption DEF Keys, Checksums

\* The three layouts of WriteEntry; only data of some size is merged.
LEMMA LayoutFacts ==
  /\ \A d : Layout(d) \in {"inline", "dedicated", "indirect"}
  /\ \A d \in Data : Layout(d) = "indirect" => Size(d) \in Nat /\ Size(d) > 0
  BY CodeCacheAssumption DEF Layout, ShouldDeduplicateEntry

PlacesForm ==
  /\ DOMAIN pendingOps = 1 .. Len(pendingOps) /\ Len(pendingOps) \in Nat
  /\ \A k \in Keys : DOMAIN queue[k] = 1 .. Len(queue[k]) /\ Len(queue[k]) \in Nat
  /\ \A i \in 1 .. Len(pendingOps) :
       /\ <<None, i>> \in Places /\ OpAt(<<None, i>>) = pendingOps[i]
       /\ pendingOps[i] \in OpType(Keys \cup {None})
  /\ \A k \in Keys : \A i \in 1 .. Len(queue[k]) :
       /\ <<k, i>> \in Places /\ OpAt(<<k, i>>) = queue[k][i]
       /\ queue[k][i] \in OpType(Keys)
  /\ \A p \in Places :
       /\ p = <<p[1], p[2]>> /\ p[2] \in Nat
       /\ \/ p[1] = None /\ p[2] \in 1 .. Len(pendingOps)
          \/ p[1] # None /\ p[1] \in Keys /\ p[2] \in 1 .. Len(queue[p[1]])

\* The places are those of the queues and of pending_ops_.
LEMMA PlacesFacts == Types => PlacesForm
<1> SUFFICES ASSUME Types PROVE PlacesForm
  OBVIOUS
<1>1. /\ DOMAIN pendingOps = 1 .. Len(pendingOps) /\ Len(pendingOps) \in Nat
      /\ \A k \in Keys : DOMAIN queue[k] = 1 .. Len(queue[k]) /\ Len(queue[k]) \in Nat
      /\ \A i \in 1 .. Len(pendingOps) : pendingOps[i] \in OpType(Keys \cup {None})
      /\ \A k \in Keys : \A i \in 1 .. Len(queue[k]) : queue[k][i] \in OpType(Keys)
  BY DEF Types
<1>2. ASSUME NEW i \in 1 .. Len(pendingOps)
      PROVE  <<None, i>> \in Places /\ OpAt(<<None, i>>) = pendingOps[i]
  BY <1>1 DEF Places, OpAt
<1>3. ASSUME NEW k \in Keys, NEW i \in 1 .. Len(queue[k])
      PROVE  <<k, i>> \in Places /\ OpAt(<<k, i>>) = queue[k][i]
  <2>1. <<k, i>> \in {k} \X DOMAIN queue[k]
    BY <1>1
  <2>2. k # None
    BY KeysFacts
  <2> QED BY <2>1, <2>2 DEF Places, OpAt
<1>4. ASSUME NEW p \in Places
      PROVE  /\ p = <<p[1], p[2]>> /\ p[2] \in Nat
             /\ \/ p[1] = None /\ p[2] \in 1 .. Len(pendingOps)
                \/ p[1] # None /\ p[1] \in Keys /\ p[2] \in 1 .. Len(queue[p[1]])
  <2>1. CASE p \in {None} \X DOMAIN pendingOps
    BY <1>1, <2>1
  <2>2. ASSUME NEW k \in Keys, p \in {k} \X DOMAIN queue[k]
        PROVE  /\ p = <<p[1], p[2]>> /\ p[2] \in Nat
               /\ p[1] # None /\ p[1] \in Keys /\ p[2] \in 1 .. Len(queue[p[1]])
    BY <1>1, <2>2, KeysFacts
  <2> QED BY <2>1, <2>2 DEF Places
<1> QED BY <1>1, <1>2, <1>3, <1>4 DEF PlacesForm

LEMMA PlacesFactsNext == (Types => PlacesForm)'
  BY PlacesFacts, PTL

LEMMA TailFacts ==
  ASSUME NEW S, NEW s \in Seq(S), s # <<>>
  PROVE  /\ Tail(s) \in Seq(S) /\ Len(s) \in Nat /\ Len(s) >= 1
         /\ Len(Tail(s)) = Len(s) - 1 /\ Head(s) = s[1]
         /\ \A i \in 1 .. Len(s) - 1 : Tail(s)[i] = s[i + 1]
  BY HeadTailProperties, LenProperties

LEMMA SeqWidens ==
  ASSUME NEW S, NEW T, S \subseteq T, NEW s \in Seq(S)
  PROVE  s \in Seq(T)
<1>1. Len(s) \in Nat /\ s \in [1 .. Len(s) -> S]
  BY LenProperties
<1>2. s \in [1 .. Len(s) -> T]
  BY <1>1
<1> QED BY <1>1, <1>2

LEMMA AppendFacts ==
  ASSUME NEW S, NEW s \in Seq(S), NEW e
  PROVE  /\ Len(s) \in Nat /\ Len(Append(s, e)) = Len(s) + 1
         /\ \A i \in 1 .. Len(s) : Append(s, e)[i] = s[i]
         /\ Append(s, e)[Len(s) + 1] = e
<1>1. s \in Seq(S \cup {e})
  <2>1. Len(s) \in Nat /\ s \in [1 .. Len(s) -> S]
    BY LenProperties
  <2> QED BY <2>1
<1> QED BY <1>1, AppendProperties, LenProperties

-------------------------------------------------------------------------------
(* Operations move in the lines *)

\* What the others see of an operation.
Alike(a, b) ==
  /\ a.key = b.key /\ a.type = b.type /\ a.callback = b.callback
  /\ CallOf(a) = CallOf(b)

\* Operations move, advance or leave: o tells where each was before.
Moved(o) ==
  /\ \A p \in Places' : /\ o[p] \in Places
                        /\ OpAt(p)'.callback = OpAt(o[p]).callback
                        /\ OpAt(p)'.key \in Resources => Alike(OpAt(p)', OpAt(o[p]))
  /\ \A p, q \in Places' :
       /\ o[p] = o[q] => p = q
       /\ OpAt(p)'.key \in Resources /\ OpAt(q)'.key = OpAt(p)'.key /\ Before(p, q)
            => Before(o[p], o[q])

\* Only the operation at place d may leave, and it was the first of its line.
OthersStay(o, d) ==
  /\ \A q \in Places : q # d => \E p \in Places' : o[p] = q /\ Alike(OpAt(p)', OpAt(q))
  /\ d \in Places => \A q \in Places :
       q # d /\ OpAt(d).key \in Resources /\ OpAt(q).key = OpAt(d).key => Before(d, q)

\* What is read or written was read or written before.
Carried == \A p \in Places' : Reading(OpAt(p)') => \E q \in Places : OpAt(p)' = OpAt(q)

\* Moves keep the order of the lines, and callbacks apart (CloseOperationAndIssueNext,
\* IssuePendingOperations).
LEMMA LinesKept ==
  ASSUME InOrder, CallbacksDistinct, NEW ACTION o, Moved(o)
  PROVE  InOrder' /\ CallbacksDistinct'
<1>1. InOrder'
  <2> SUFFICES ASSUME NEW p \in Places', NEW q \in Places',
                      OpAt(p)'.key \in Resources, OpAt(p)'.key = OpAt(q)'.key, Before(p, q)
               PROVE  CallOf(OpAt(p)') < CallOf(OpAt(q)')
    BY DEF InOrder
  <2> QED BY DEF InOrder, Alike, Moved
<1>2. CallbacksDistinct'
  <2> SUFFICES ASSUME NEW p \in Places', NEW q \in Places',
                      OpAt(p)'.callback # 0, OpAt(p)'.callback = OpAt(q)'.callback
               PROVE  p = q
    BY DEF CallbacksDistinct
  <2> QED BY DEF CallbacksDistinct, Moved
<1> QED BY <1>1, <1>2

LEMMA CallOfType ==
  ASSUME Types, OpsSound, NEW p \in Places, OpAt(p).key \in Resources
  PROVE  /\ CallOf(OpAt(p)) \in DOMAIN log /\ CallOf(OpAt(p)) \in Nat
         /\ OpAt(p).type \in {"write", "fetch", "delete"}
<1>1. DOMAIN log = 1 .. Len(log) /\ Len(log) \in Nat
  BY DEF Types
<1>2. Sound(OpAt(p))
  BY DEF OpsSound
<1>3. OpAt(p).type \in {"write", "fetch", "delete"}
  BY <1>2, KeysFacts DEF Sound, SoundMergedWrite, SoundMergedFetch, SoundGetBackend
<1>4. CASE OpAt(p).type = "write"
  <2>1. Stored(OpAt(p).key, OpAt(p).small, OpAt(p).large)
    BY <1>2, <1>4 DEF Sound, SoundWrite
  <2>2. OpAt(p).small.time \in DOMAIN log
    BY <2>1 DEF Stored, Written
  <2> QED BY <1>1, <1>4, <2>2 DEF CallOf
<1>5. CASE OpAt(p).type = "fetch"
  BY <1>1, <1>2, <1>5 DEF Sound, SoundFetch, IsCall, CallOf
<1>6. CASE OpAt(p).type = "delete"
  BY <1>1, <1>2, <1>6 DEF Sound, SoundDelete, IsCall, CallOf
<1> QED BY <1>3, <1>4, <1>5, <1>6

\* What an operation of resource r that stays will do is still to come; that of one
\* that leaves came before all others (DequeueOperation).
LEMMA ToComeKept ==
  ASSUME Types, OpsSound, InOrder, NEW ACTION o, NEW d, Moved(o), OthersStay(o, d),
         NEW r \in Resources, NEW m, ToCome(r, m)
  PROVE  \/ ToCome(r, m)'
         \/ d \in Places /\ OpAt(d).key = r /\ Changing(OpAt(d)) /\ CallOf(OpAt(d)) = m
<1>1. PICK q \in Places : OpAt(q).key = r /\ Changing(OpAt(q)) /\ CallOf(OpAt(q)) = m
  BY DEF ToCome
<1>2. CASE q # d
  <2>1. PICK p \in Places' : o[p] = q /\ Alike(OpAt(p)', OpAt(q))
    BY <1>2 DEF OthersStay
  <2> QED BY <1>1, <2>1 DEF ToCome, Alike, Changing
<1> QED BY <1>1, <1>2

LEMMA NothingOvertakesKept ==
  ASSUME Types, OpsSound, InOrder, NothingOvertakes, UNCHANGED log,
         backendState' # "failed" => backendState # "failed",
         NEW ACTION o, NEW d, Moved(o), OthersStay(o, d)
  PROVE  NothingOvertakes'
<1> SUFFICES ASSUME backendState' # "failed", NEW p \in Places', NEW r \in Resources,
                    OpAt(p)'.key = r,
                    NEW m \in Changes(r)', m > CallOf(OpAt(p)')
             PROVE  ToCome(r, m)'
  BY DEF NothingOvertakes, LaterToCome
<1> DEFINE q == o[p]
<1>1. q \in Places /\ OpAt(q).key = r /\ CallOf(OpAt(q)) = CallOf(OpAt(p)')
  BY DEF Moved, Alike
<1>2. m \in Changes(r) /\ m \in Nat
  <2>1. DOMAIN log = 1 .. Len(log) /\ Len(log) \in Nat
    BY DEF Types
  <2> QED BY <2>1 DEF Changes
<1>3. ToCome(r, m)
  BY <1>1, <1>2 DEF NothingOvertakes, LaterToCome
<1>4. CASE d \in Places /\ OpAt(d).key = r /\ Changing(OpAt(d)) /\ CallOf(OpAt(d)) = m
  <2>1. q # d
    BY <1>1, <1>2, <1>4, CallOfType
  <2>2. CallOf(OpAt(d)) < CallOf(OpAt(q))
    BY <1>1, <1>4, <2>1 DEF OthersStay, InOrder
  <2> QED BY <1>1, <1>2, <1>4, <2>2, CallOfType
<1> QED BY <1>3, <1>4, ToComeKept

\* All that a step that moves operations in the lines keeps.
LEMMA MoveKeeps ==
  ASSUME Types, OpsSound, InOrder, CallbacksDistinct, NothingOvertakes, UNCHANGED log,
         backendState' # "failed" => backendState # "failed",
         NEW ACTION o, NEW d, Moved(o), OthersStay(o, d)
  PROVE  /\ InOrder' /\ CallbacksDistinct' /\ NothingOvertakes'
         /\ \A r \in Resources : \A m :
              ToCome(r, m) => \/ ToCome(r, m)'
                              \/ /\ d \in Places /\ OpAt(d).key = r
                                 /\ Changing(OpAt(d)) /\ CallOf(OpAt(d)) = m
         /\ \A c : HasWaiting(c)' => HasWaiting(c)
         /\ \A c : HasWaiting(c) => HasWaiting(c)' \/ (d \in Places /\ OpAt(d).callback = c)
<1>1. InOrder' /\ CallbacksDistinct'
  BY LinesKept
<1>2. NothingOvertakes'
  BY NothingOvertakesKept
<1>3. ASSUME NEW r \in Resources, NEW m, ToCome(r, m)
      PROVE  ToCome(r, m)' \/ (/\ d \in Places /\ OpAt(d).key = r
                               /\ Changing(OpAt(d)) /\ CallOf(OpAt(d)) = m)
  BY <1>3, ToComeKept
<1>4. ASSUME NEW c, HasWaiting(c)'
      PROVE  HasWaiting(c)
  BY <1>4 DEF HasWaiting, Moved
<1>5. ASSUME NEW c, HasWaiting(c)
      PROVE  HasWaiting(c)' \/ (d \in Places /\ OpAt(d).callback = c)
  BY <1>5 DEF HasWaiting, OthersStay, Alike
<1> QED BY <1>1, <1>2, <1>3, <1>4, <1>5

LEMMA SoundSame ==
  ASSUME UNCHANGED log, NEW op, Sound(op)
  PROVE  Sound(op)'
  BY DEF Sound, SoundWrite, SoundMergedWrite, SoundFetch, SoundMergedFetch, SoundDelete,
         SoundGetBackend, Stored, Written, Fresh, Changes, IsCall

LEMMA OpsSoundKept ==
  ASSUME UNCHANGED log,
         \A p \in Places' : Sound(OpAt(p)')
  PROVE  OpsSound'
<1> SUFFICES ASSUME NEW p \in Places', NEW op, op = OpAt(p)'
             PROVE  Sound(op)'
  BY DEF OpsSound
<1> QED BY SoundSame

-------------------------------------------------------------------------------
(* The front of a queue leaves *)

\* DequeueOperation and CloseOperationAndIssueNext.
LEMMA DequeueMoves ==
  ASSUME Types, Types', LinesInv, UNCHANGED <<log, pendingOps, backendState>>,
         NEW k \in Keys, queue[k] # <<>>, queue' = Dequeued(k)
  PROVE  /\ LinesInv' /\ Carried
         /\ \A r \in Resources : \A m :
              ToCome(r, m) => \/ ToCome(r, m)'
                              \/ /\ front(k).key = r /\ Changing(front(k))
                                 /\ CallOf(front(k)) = m
         /\ \A c : c # 0 =>
              (HasWaiting(c)' <=> HasWaiting(c) /\ front(k).callback # c)
<1> DEFINE d == <<k, 1>>
           o == [p \in Places' |-> IF p[1] = k THEN <<k, p[2] + 1>> ELSE p]
<1>1. PlacesForm /\ PlacesForm' /\ k # None
  BY PlacesFacts, PlacesFactsNext, KeysFacts
<1>2. /\ Len(queue[k]) \in Nat /\ Len(queue[k]) >= 1 /\ front(k) = queue[k][1]
      /\ Len(queue'[k]) = Len(queue[k]) - 1
      /\ \A i \in 1 .. Len(queue[k]) - 1 : queue'[k][i] = queue[k][i + 1]
      /\ \A l \in Keys : l # k => queue'[l] = queue[l]
  <2>1. queue[k] \in Seq(OpType(Keys)) /\ queue'[k] = Tail(queue[k])
        /\ \A l \in Keys : l # k => queue'[l] = queue[l]
    BY DEF Types, Dequeued
  <2> QED BY <2>1, TailFacts DEF front
<1>3. d \in Places /\ OpAt(d) = front(k)
  BY <1>1, <1>2 DEF PlacesForm
<1>4. ASSUME NEW p \in Places'
      PROVE  o[p] \in Places /\ OpAt(p)' = OpAt(o[p]) /\ o[p] # d
  <2>1. CASE p[1] = k
    <3>1. /\ p = <<k, p[2]>> /\ p[2] \in 1 .. Len(queue[k]) - 1 /\ OpAt(p)' = queue'[k][p[2]]
          /\ o[p] = <<k, p[2] + 1>>
      BY <1>1, <1>2, <2>1 DEF PlacesForm
    <3>2. queue'[k][p[2]] = queue[k][p[2] + 1] /\ p[2] + 1 \in 1 .. Len(queue[k])
      BY <1>2, <3>1
    <3> HIDE DEF o
    <3> QED BY <1>1, <3>1, <3>2 DEF PlacesForm
  <2>2. CASE p[1] # k
    BY SMTT(30), <1>1, <1>2, <2>2 DEF PlacesForm
  <2> QED BY <2>1, <2>2
<1>5. ASSUME NEW q \in Places, q # d
      PROVE  \E p \in Places' : o[p] = q
  <2>1. CASE q[1] = k
    <3>1. <<k, q[2] - 1>> \in Places'
      BY <1>1, <1>2, <1>5, <2>1 DEF PlacesForm
    <3> QED BY <1>1, <1>2, <1>5, <2>1, <3>1 DEF PlacesForm
  <2>2. CASE q[1] # k
    BY SMTT(30), <1>1, <1>2, <2>2 DEF PlacesForm
  <2> QED BY <2>1, <2>2
<1> HIDE DEF o
<1>6. Moved(o)
  <2>1. ASSUME NEW p \in Places', NEW q \in Places', o[p] = o[q]
        PROVE  p = q
    BY <1>1, <2>1 DEF o, PlacesForm
  <2>2. ASSUME NEW p \in Places', NEW q \in Places', Before(p, q)
        PROVE  Before(o[p], o[q])
    BY <1>1, <2>2 DEF o, PlacesForm, Before
  <2> QED BY <1>4, <2>1, <2>2 DEF Moved, Alike
<1>7. OthersStay(o, d)
  <2>1. ASSUME NEW q \in Places, q # d, OpAt(d).key \in Resources, OpAt(q).key = OpAt(d).key
        PROVE  Before(d, q)
    BY <1>1, <1>3, <2>1 DEF PlacesForm, LinesInv, Stages, Before
  <2> QED BY <1>4, <1>5, <2>1 DEF OthersStay, Alike
<1>8. Stages'
  <2>1. ASSUME NEW p \in Places'
        PROVE \/ p[1] = None /\ OpAt(p)'.stage = "queued"
              \/ /\ p[1] # None /\ OpAt(p)'.key = p[1]
                 /\ OpAt(p)'.stage = "queued" \/ (p[2] = 1 /\ backendState = "initialized")
    <3>1. /\ OpAt(p)' = OpAt(o[p]) /\ p[2] \in Nat
          /\ \/ o[p] = p /\ p[1] # k
             \/ p[1] = k /\ o[p][1] = k /\ o[p][2] = p[2] + 1 /\ p[2] >= 1
      BY <1>1, <1>4 DEF o, PlacesForm
    <3>2. o[p] \in Places
      BY <1>4
    <3>3. CASE o[p] = p
      BY <3>1, <3>2, <3>3 DEF LinesInv, Stages
    <3>4. CASE p[1] = k /\ o[p][1] = k /\ o[p][2] = p[2] + 1 /\ p[2] >= 1
      <4>1. /\ OpAt(o[p]).key = k
            /\ OpAt(o[p]).stage = "queued" \/ o[p][2] = 1
        BY <1>1, <3>2, <3>4 DEF LinesInv, Stages
      <4> QED BY <1>1, <3>1, <3>4, <4>1
    <3> QED BY <3>1, <3>3, <3>4
  <2>2. backendState # "initializing"
    BY DEF LinesInv, Stages
  <2> QED BY <2>1, <2>2 DEF Stages
<1>9. OpsSound'
  BY <1>4, OpsSoundKept DEF LinesInv, OpsSound
<1>10. ASSUME NEW c, c # 0, front(k).callback = c
       PROVE  HasWaiting(c) /\ ~HasWaiting(c)'
  BY <1>3, <1>4, <1>10 DEF HasWaiting, LinesInv, CallbacksDistinct
<1>11. Carried
  BY <1>4 DEF Carried
<1> HIDE DEF d
<1> QED BY <1>11, <1>3, <1>6, <1>7, <1>8, <1>9, <1>10, MoveKeeps DEF LinesInv

\* The front of a queue comes further: its buffers and its stage change.
LEMMA AdvanceMoves ==
  ASSUME Types, Types', LinesInv, UNCHANGED <<log, pendingOps, backendState>>,
         backendState = "initialized",
         NEW k \in Keys, queue[k] # <<>>, NEW op, Advance(k, op),
         Alike(op, front(k)), Sound(op)
  PROVE  /\ LinesInv'
         /\ \A p \in Places' : OpAt(p)' = op \/ (p \in Places /\ OpAt(p)' = OpAt(p))
         /\ \A r \in Resources : \A m : ToCome(r, m) => ToCome(r, m)'
         /\ \A c : HasWaiting(c)' <=> HasWaiting(c)
<1> DEFINE o == [p \in Places' |-> p]
           d == <<k, 0>>
<1>1. PlacesForm /\ PlacesForm' /\ k # None
  BY PlacesFacts, PlacesFactsNext, KeysFacts
<1>2. /\ Len(queue[k]) \in Nat /\ Len(queue[k]) >= 1 /\ front(k) = queue[k][1]
      /\ Len(queue'[k]) = Len(queue[k]) /\ queue'[k][1] = op
      /\ \A i \in 1 .. Len(queue[k]) : i # 1 => queue'[k][i] = queue[k][i]
      /\ \A l \in Keys : l # k => queue'[l] = queue[l]
  <2>1. queue[k] \in Seq(OpType(Keys)) /\ queue'[k] = [queue[k] EXCEPT ![1] = op]
        /\ \A l \in Keys : l # k => queue'[l] = queue[l]
    BY DEF Types, Advance
  <2> QED BY <2>1, TailFacts, ExceptSeq DEF front
<1>3. <<k, 1>> \in Places /\ OpAt(<<k, 1>>) = front(k) /\ OpAt(<<k, 1>>)' = op
  BY <1>1, <1>2 DEF PlacesForm
<1>4. ASSUME NEW p \in Places'
      PROVE  p \in Places /\ (p # <<k, 1>> => OpAt(p)' = OpAt(p))
  <2>1. CASE p[1] = k
    BY <1>1, <1>2, <2>1 DEF PlacesForm
  <2>2. CASE p[1] # k
    BY <1>1, <1>2, <2>2 DEF PlacesForm
  <2> QED BY <2>1, <2>2
<1>5. ASSUME NEW q \in Places
      PROVE  q \in Places'
  <2>1. CASE q[1] = k
    BY <1>1, <1>2, <2>1 DEF PlacesForm
  <2>2. CASE q[1] # k
    BY <1>1, <1>2, <2>2 DEF PlacesForm
  <2> QED BY <2>1, <2>2
<1>6. \A p \in Places' : Alike(OpAt(p)', OpAt(p))
  <2> TAKE p \in Places'
  <2>1. CASE p = <<k, 1>>
    BY <1>3, <2>1
  <2>2. CASE p # <<k, 1>>
    BY <1>4, <2>2 DEF Alike
  <2> QED BY <2>1, <2>2
<1>7. Moved(o)
  BY <1>4, <1>6 DEF Moved, Alike
<1>8. OthersStay(o, d) /\ d \notin Places
  <2>1. d \notin Places
    BY <1>1 DEF PlacesForm
  <2> QED BY <1>5, <1>6, <2>1 DEF OthersStay
<1>9. Stages'
  <2>1. ASSUME NEW p \in Places'
        PROVE \/ p[1] = None /\ OpAt(p)'.stage = "queued"
              \/ /\ p[1] # None /\ OpAt(p)'.key = p[1]
                 /\ OpAt(p)'.stage = "queued" \/ (p[2] = 1 /\ backendState = "initialized")
    <3>1. CASE p = <<k, 1>>
      BY <1>1, <1>3, <3>1 DEF LinesInv, Stages, Alike
    <3>2. CASE p # <<k, 1>>
      BY <1>4, <3>2 DEF LinesInv, Stages
    <3> QED BY <3>1, <3>2
  <2> QED BY <2>1 DEF Stages
<1>10. OpsSound'
  <2>1. ASSUME NEW p \in Places'
        PROVE  Sound(OpAt(p)')
    BY <1>3, <1>4 DEF LinesInv, OpsSound
  <2> QED BY <2>1, OpsSoundKept
<1> HIDE DEF o, d
<1> QED BY <1>3, <1>4, <1>7, <1>8, <1>9, <1>10, MoveKeeps DEF LinesInv

HandsOver(k, h, op) ==
  /\ op.key = h /\ op.stage = "queued" /\ op.callback = front(k).callback
  /\ queue' = [Dequeued(k) EXCEPT ![h] = Append(@, op)]

\* A fetch that found a checksum leaves its queue, and its callback waits at the end
\* of the checksum's queue (ReadComplete).
LEMMA FetchMoves ==
  ASSUME Types, Types', LinesInv, UNCHANGED <<log, pendingOps, backendState>>,
         NEW k \in Keys, queue[k] # <<>>, NEW h \in Keys, h # k, h \notin Resources, NEW op,
         HandsOver(k, h, op), Sound(op)
  PROVE  /\ LinesInv' /\ Carried
         /\ \A r \in Resources : \A m :
              ToCome(r, m) => \/ ToCome(r, m)'
                              \/ /\ front(k).key = r /\ Changing(front(k))
                                 /\ CallOf(front(k)) = m
         /\ \A c : HasWaiting(c)' <=> HasWaiting(c)
<1>0. PICK n : n = <<h, Len(queue[h]) + 1>>
  OBVIOUS
<1> DEFINE d == <<k, 1>>
           o == [p \in Places' |-> IF p = n THEN d ELSE IF p[1] = k THEN <<k, p[2] + 1>> ELSE p]
<1>1. PlacesForm /\ PlacesForm' /\ k # None /\ h # None
  BY PlacesFacts, PlacesFactsNext, KeysFacts
<1>2. /\ Len(queue[k]) \in Nat /\ Len(queue[k]) >= 1 /\ front(k) = queue[k][1]
      /\ Len(queue'[k]) = Len(queue[k]) - 1
      /\ \A i \in 1 .. Len(queue[k]) - 1 : queue'[k][i] = queue[k][i + 1]
      /\ Len(queue[h]) \in Nat /\ Len(queue'[h]) = Len(queue[h]) + 1
      /\ \A i \in 1 .. Len(queue[h]) : queue'[h][i] = queue[h][i]
      /\ queue'[h][Len(queue[h]) + 1] = op
      /\ \A l \in Keys : l # k /\ l # h => queue'[l] = queue[l]
  <2>1. queue[k] \in Seq(OpType(Keys)) /\ queue'[k] = Tail(queue[k])
    BY DEF Types, Dequeued, HandsOver
  <2>2. queue[h] \in Seq(OpType(Keys)) /\ queue'[h] = Append(queue[h], op)
        /\ \A l \in Keys : l # k /\ l # h => queue'[l] = queue[l]
    BY DEF Types, Dequeued, HandsOver
  <2>3. /\ Len(queue[k]) \in Nat /\ Len(queue[k]) >= 1 /\ front(k) = queue[k][1]
        /\ Len(queue'[k]) = Len(queue[k]) - 1
        /\ \A i \in 1 .. Len(queue[k]) - 1 : queue'[k][i] = queue[k][i + 1]
    BY <2>1, TailFacts DEF front
  <2>4. /\ Len(queue[h]) \in Nat /\ Len(queue'[h]) = Len(queue[h]) + 1
        /\ \A i \in 1 .. Len(queue[h]) : queue'[h][i] = queue[h][i]
        /\ queue'[h][Len(queue[h]) + 1] = op
    BY <2>2, AppendFacts
  <2> QED BY <2>2, <2>3, <2>4
<1>3. d \in Places /\ OpAt(d) = front(k) /\ n \in Places' /\ OpAt(n)' = op
  BY <1>0, <1>1, <1>2 DEF PlacesForm
<1>3a. /\ n[1] = h /\ n[2] = Len(queue[h]) + 1
       /\ \A p \in Places' : p # n /\ p[1] = h => p[2] \in 1 .. Len(queue[h])
  BY <1>0, <1>1, <1>2 DEF PlacesForm
<1>4. ASSUME NEW p \in Places', p # n
      PROVE  o[p] \in Places /\ OpAt(p)' = OpAt(o[p]) /\ o[p] # d
  <2>1. CASE p[1] = k
    <3>1. /\ p = <<k, p[2]>> /\ p[2] \in 1 .. Len(queue[k]) - 1 /\ OpAt(p)' = queue'[k][p[2]]
          /\ o[p] = <<k, p[2] + 1>>
      BY <1>1, <1>2, <1>4, <2>1 DEF PlacesForm
    <3>2. queue'[k][p[2]] = queue[k][p[2] + 1] /\ p[2] + 1 \in 1 .. Len(queue[k])
      BY <1>2, <3>1
    <3> HIDE DEF o
    <3> QED BY <1>1, <3>1, <3>2 DEF PlacesForm
  <2>2. CASE p[1] = h
    <3>1. /\ p = <<h, p[2]>> /\ p[2] \in 1 .. Len(queue[h]) /\ OpAt(p)' = queue'[h][p[2]]
          /\ o[p] = p
      BY <1>1, <1>3a, <1>4, <2>2 DEF PlacesForm
    <3>2. queue'[h][p[2]] = queue[h][p[2]]
      BY <1>2, <3>1
    <3> HIDE DEF o
    <3> QED BY <1>1, <2>2, <3>1, <3>2 DEF PlacesForm
  <2>3. CASE p[1] # k /\ p[1] # h
    BY <1>1, <1>2, <1>3a, <1>4, <2>3 DEF PlacesForm
  <2> QED BY <2>1, <2>2, <2>3
<1>5. ASSUME NEW q \in Places, q # d
      PROVE  \E p \in Places' : p # n /\ o[p] = q
  <2>1. CASE q[1] = k
    <3>1. <<k, q[2] - 1>> \in Places'
      BY <1>1, <1>2, <1>3a, <1>5, <2>1 DEF PlacesForm
    <3> QED BY <1>1, <1>2, <1>3a, <1>5, <2>1, <3>1 DEF PlacesForm
  <2>2. CASE q[1] = h
    BY <1>0, <1>1, <1>2, <2>2 DEF PlacesForm
  <2>3. CASE q[1] # k /\ q[1] # h
    BY <1>0, <1>1, <1>2, <2>3 DEF PlacesForm
  <2> QED BY <2>1, <2>2, <2>3
<1>6. Moved(o)
  <2>1. ASSUME NEW p \in Places', NEW q \in Places', o[p] = o[q]
        PROVE  p = q
    <3>1. o[n] = d
      BY <1>3
    <3>2. CASE p # n /\ q # n
      BY <1>0, <1>1, <2>1, <3>2 DEF PlacesForm
    <3> QED BY <1>4, <2>1, <3>1, <3>2
  <2>2. ASSUME NEW p \in Places', NEW q \in Places', Before(p, q), p # n, q # n
        PROVE  Before(o[p], o[q])
    BY <1>0, <1>1, <2>2 DEF PlacesForm, Before
  <2>3. o[n] = d
    BY <1>3
  <2> HIDE DEF o
  <2> QED BY <1>3, <1>4, <2>1, <2>2, <2>3 DEF Moved, Alike, HandsOver
<1>7. OthersStay(o, d)
  <2>1. ASSUME NEW q \in Places, q # d, OpAt(d).key \in Resources, OpAt(q).key = OpAt(d).key
        PROVE  Before(d, q)
    BY <1>1, <1>3, <2>1 DEF PlacesForm, LinesInv, Stages, Before
  <2> HIDE DEF o
  <2> QED BY <1>4, <1>5, <2>1 DEF OthersStay, Alike
<1>8. Stages'
  <2>1. ASSUME NEW p \in Places'
        PROVE \/ p[1] = None /\ OpAt(p)'.stage = "queued"
              \/ /\ p[1] # None /\ OpAt(p)'.key = p[1]
                 /\ OpAt(p)'.stage = "queued" \/ (p[2] = 1 /\ backendState = "initialized")
    <3>1. CASE p = n
      BY <1>0, <1>1, <1>3, <3>1 DEF HandsOver
    <3>2. CASE p # n /\ p[1] # k
      BY ZenonT(60), <1>4, <3>2 DEF LinesInv, Stages
    <3>3. CASE p # n /\ p[1] = k
      <4>1. /\ OpAt(p)' = OpAt(o[p]) /\ o[p] \in Places
            /\ o[p][1] = k /\ o[p][2] = p[2] + 1 /\ p[2] \in Nat /\ p[2] >= 1
        BY <1>1, <1>4, <3>3 DEF PlacesForm
      <4>2. /\ OpAt(o[p]).key = k
            /\ OpAt(o[p]).stage = "queued" \/ o[p][2] = 1
        BY <1>1, <4>1 DEF LinesInv, Stages
      <4> QED BY <1>1, <3>3, <4>1, <4>2
    <3> QED BY <3>1, <3>2, <3>3
  <2>2. backendState # "initializing"
    BY DEF LinesInv, Stages
  <2> QED BY <2>1, <2>2 DEF Stages
<1>9. OpsSound'
  <2>1. ASSUME NEW p \in Places'
        PROVE  Sound(OpAt(p)')
    BY <1>3, <1>4 DEF LinesInv, OpsSound
  <2> QED BY <2>1, OpsSoundKept
<1>10. \A c : c = front(k).callback => HasWaiting(c)'
  BY <1>3 DEF HasWaiting, HandsOver
<1>11. Carried
  BY <1>3, <1>4 DEF Carried, HandsOver, Reading
<1> HIDE DEF d, o
<1> QED BY <1>11, <1>3, <1>6, <1>7, <1>8, <1>9, <1>10, MoveKeeps DEF LinesInv

-------------------------------------------------------------------------------
(* The front of pending_ops_ leaves *)

Issues(h) ==
  /\ pendingOps # <<>> /\ pendingOps' = Tail(pendingOps)
  /\ Head(pendingOps).key = h
  /\ queue' = [queue EXCEPT ![h] = Append(@, Head(pendingOps))]

\* The end of the queue follows its front and precedes pending_ops_: nothing overtakes
\* (IssuePendingOperations).
LEMMA IssueMoves ==
  ASSUME Types, Types', LinesInv, UNCHANGED <<log, backendState>>,
         backendState # "initializing", NEW h \in Keys, Issues(h)
  PROVE  /\ LinesInv' /\ Carried
         /\ \A r \in Resources : \A m : ToCome(r, m) => ToCome(r, m)'
         /\ \A c : HasWaiting(c)' <=> HasWaiting(c)
<1>0. PICK n : n = <<h, Len(queue[h]) + 1>>
  OBVIOUS
<1> DEFINE d == <<None, 0>>
           f == <<None, 1>>
           o == [p \in Places' |-> IF p[1] = None THEN <<None, p[2] + 1>>
                                   ELSE IF p = n THEN f ELSE p]
<1>1. PlacesForm /\ PlacesForm' /\ h # None
  BY PlacesFacts, PlacesFactsNext, KeysFacts
<1>2. PICK op : op = Head(pendingOps)
  OBVIOUS
<1>3. /\ Len(pendingOps) \in Nat /\ Len(pendingOps) >= 1 /\ op = pendingOps[1] /\ op.key = h
      /\ Len(pendingOps') = Len(pendingOps) - 1
      /\ \A i \in 1 .. Len(pendingOps) - 1 : pendingOps'[i] = pendingOps[i + 1]
  <2>1. pendingOps \in Seq(OpType(Keys \cup {None}))
    BY DEF Types
  <2> QED BY <1>2, <2>1, TailFacts DEF Issues
<1>4. /\ Len(queue[h]) \in Nat /\ Len(queue'[h]) = Len(queue[h]) + 1
      /\ \A i \in 1 .. Len(queue[h]) : queue'[h][i] = queue[h][i]
      /\ queue'[h][Len(queue[h]) + 1] = op
      /\ \A l \in Keys : l # h => queue'[l] = queue[l]
  <2>1. queue[h] \in Seq(OpType(Keys)) /\ queue'[h] = Append(queue[h], op)
        /\ \A l \in Keys : l # h => queue'[l] = queue[l]
    BY <1>2 DEF Types, Issues
  <2> QED BY <2>1, AppendFacts
<1>5. /\ f \in Places /\ OpAt(f) = op /\ n \in Places' /\ OpAt(n)' = op
      /\ n[1] = h /\ n[2] = Len(queue[h]) + 1
      /\ \A p \in Places' : p # n /\ p[1] = h => p[2] \in 1 .. Len(queue[h])
  BY SMTT(30), <1>0, <1>1, <1>3, <1>4 DEF PlacesForm
<1>6. ASSUME NEW p \in Places'
      PROVE  o[p] \in Places /\ OpAt(p)' = OpAt(o[p])
  <2>1. CASE p[1] = None
    <3>1. /\ p = <<None, p[2]>> /\ p[2] \in 1 .. Len(pendingOps) - 1
          /\ OpAt(p)' = pendingOps'[p[2]] /\ o[p] = <<None, p[2] + 1>>
      BY <1>1, <1>3, <2>1 DEF PlacesForm
    <3>2. pendingOps'[p[2]] = pendingOps[p[2] + 1] /\ p[2] + 1 \in 1 .. Len(pendingOps)
      BY <1>3, <3>1
    <3> HIDE DEF o
    <3> QED BY <1>1, <3>1, <3>2 DEF PlacesForm
  <2>2. CASE p = n
    BY <1>1, <1>5, <2>2
  <2>3. CASE p # n /\ p[1] = h
    <3>1. /\ p = <<h, p[2]>> /\ p[2] \in 1 .. Len(queue[h]) /\ OpAt(p)' = queue'[h][p[2]]
          /\ o[p] = p
      BY <1>1, <1>5, <2>3 DEF PlacesForm
    <3>2. queue'[h][p[2]] = queue[h][p[2]]
      BY <1>4, <3>1
    <3> HIDE DEF o
    <3> QED BY <1>1, <2>3, <3>1, <3>2 DEF PlacesForm
  <2>4. CASE p[1] # None /\ p[1] # h
    BY <1>1, <1>4, <1>5, <2>4 DEF PlacesForm
  <2> QED BY <2>1, <2>2, <2>3, <2>4
<1>7. ASSUME NEW q \in Places
      PROVE  \E p \in Places' : o[p] = q
  <2>1. CASE q = f
    BY <1>1, <1>5, <2>1
  <2>2. CASE q # f /\ q[1] = None
    <3>1. q = <<None, q[2]>> /\ q[2] \in Nat /\ q[2] - 1 \in 1 .. Len(pendingOps) - 1
      BY <1>1, <2>2 DEF PlacesForm
    <3>2. <<None, q[2] - 1>> \in Places'
      BY <1>1, <1>3, <3>1 DEF PlacesForm
    <3>3. o[<<None, q[2] - 1>>] = <<None, q[2]>>
      BY <3>1, <3>2
    <3> QED BY <3>1, <3>2, <3>3
  <2>3. CASE q[1] = h
    <3>1. q = <<h, q[2]>> /\ q[2] \in 1 .. Len(queue[h])
      BY <1>1, <2>3 DEF PlacesForm
    <3>2. q \in Places' /\ q # n
      BY <1>1, <1>4, <1>5, <3>1 DEF PlacesForm
    <3> QED BY <1>1, <2>3, <3>2
  <2>4. CASE q[1] # None /\ q[1] # h
    <3>1. q \in Places' /\ q # n
      BY <1>1, <1>4, <1>5, <2>4 DEF PlacesForm
    <3> QED BY <2>4, <3>1
  <2> QED BY <2>1, <2>2, <2>3, <2>4
<1>8. Moved(o)
  <2>1. ASSUME NEW p \in Places', NEW q \in Places', o[p] = o[q]
        PROVE  p = q
    BY SMTT(30), <1>1, <1>5, <2>1 DEF PlacesForm
  <2>2. ASSUME NEW p \in Places', NEW q \in Places', Before(p, q)
        PROVE  Before(o[p], o[q])
    <3>1. CASE p[1] = q[1]
      BY <1>1, <1>5, <2>2, <3>1 DEF PlacesForm, Before
    <3>2. CASE p[1] # None /\ q[1] = None
      BY <1>1, <1>5, <3>2 DEF PlacesForm, Before
    <3> QED BY <2>2, <3>1, <3>2 DEF Before
  <2> HIDE DEF o
  <2> QED BY <1>6, <2>1, <2>2 DEF Moved, Alike
<1>9. OthersStay(o, d) /\ d \notin Places
  <2>1. d \notin Places
    BY <1>1 DEF PlacesForm
  <2> HIDE DEF o
  <2> QED BY <1>6, <1>7, <2>1 DEF OthersStay, Alike
<1>10. Stages'
  <2>1. ASSUME NEW p \in Places'
        PROVE \/ p[1] = None /\ OpAt(p)'.stage = "queued"
              \/ /\ p[1] # None /\ OpAt(p)'.key = p[1]
                 /\ OpAt(p)'.stage = "queued" \/ (p[2] = 1 /\ backendState = "initialized")
    <3>1. CASE p[1] = None
      <4>1. o[p] \in Places /\ o[p][1] = None /\ OpAt(p)' = OpAt(o[p])
        BY <1>6, <3>1
      <4> QED BY <3>1, <4>1 DEF LinesInv, Stages
    <3>2. CASE p = n
      BY <1>1, <1>3, <1>5, <3>2 DEF LinesInv, Stages
    <3>3. CASE p[1] # None /\ p # n
      BY ZenonT(60), <1>6, <3>3 DEF LinesInv, Stages
    <3> QED BY <3>1, <3>2, <3>3
  <2> QED BY <2>1 DEF Stages
<1>11. OpsSound'
  BY <1>6, OpsSoundKept DEF LinesInv, OpsSound
<1>12. Carried
  BY <1>6 DEF Carried
<1> HIDE DEF d, o, f
<1> QED BY <1>12, <1>8, <1>9, <1>10, <1>11, MoveKeeps DEF LinesInv

\* A GetBackend that waited is answered.
LEMMA AnswerMoves ==
  ASSUME Types, Types', LinesInv, UNCHANGED <<log, backendState, queue>>,
         pendingOps # <<>>, pendingOps' = Tail(pendingOps), Head(pendingOps).key = None
  PROVE  /\ LinesInv' /\ Carried
         /\ \A r \in Resources : \A m : ToCome(r, m) => ToCome(r, m)'
         /\ \A c : c # 0 =>
              (HasWaiting(c)' <=> HasWaiting(c) /\ Head(pendingOps).callback # c)
<1> DEFINE d == <<None, 1>>
           o == [p \in Places' |-> IF p[1] = None THEN <<None, p[2] + 1>> ELSE p]
<1>1. PlacesForm /\ PlacesForm'
  BY PlacesFacts, PlacesFactsNext
<1>2. PICK op : op = Head(pendingOps)
  OBVIOUS
<1>3. /\ Len(pendingOps) \in Nat /\ Len(pendingOps) >= 1 /\ op = pendingOps[1] /\ op.key = None
      /\ Len(pendingOps') = Len(pendingOps) - 1
      /\ \A i \in 1 .. Len(pendingOps) - 1 : pendingOps'[i] = pendingOps[i + 1]
  <2>1. pendingOps \in Seq(OpType(Keys \cup {None}))
    BY DEF Types
  <2> QED BY <1>2, <2>1, TailFacts
<1>4. d \in Places /\ OpAt(d) = op
  BY <1>1, <1>3 DEF PlacesForm
<1>5. ASSUME NEW p \in Places'
      PROVE  o[p] \in Places /\ OpAt(p)' = OpAt(o[p]) /\ o[p] # d
  <2>1. CASE p[1] = None
    <3>1. /\ p = <<None, p[2]>> /\ p[2] \in 1 .. Len(pendingOps) - 1
          /\ OpAt(p)' = pendingOps'[p[2]] /\ o[p] = <<None, p[2] + 1>>
      BY <1>1, <1>3, <2>1 DEF PlacesForm
    <3>2. pendingOps'[p[2]] = pendingOps[p[2] + 1] /\ p[2] + 1 \in 1 .. Len(pendingOps)
      BY <1>3, <3>1
    <3> HIDE DEF o
    <3> QED BY <1>1, <3>1, <3>2 DEF PlacesForm
  <2>2. CASE p[1] # None
    BY <1>1, <2>2 DEF PlacesForm
  <2> QED BY <2>1, <2>2
<1>6. ASSUME NEW q \in Places, q # d
      PROVE  \E p \in Places' : o[p] = q
  <2>1. CASE q[1] = None
    <3>1. q = <<None, q[2]>> /\ q[2] \in Nat /\ q[2] - 1 \in 1 .. Len(pendingOps) - 1
      BY <1>1, <1>6, <2>1 DEF PlacesForm
    <3>2. <<None, q[2] - 1>> \in Places'
      BY <1>1, <1>3, <3>1 DEF PlacesForm
    <3>3. o[<<None, q[2] - 1>>] = <<None, q[2]>>
      BY <3>1, <3>2
    <3> QED BY <3>1, <3>2, <3>3
  <2>2. CASE q[1] # None
    <3>1. q \in Places'
      BY <1>1, <2>2 DEF PlacesForm
    <3> QED BY <2>2, <3>1
  <2> QED BY <2>1, <2>2
<1>7. Moved(o)
  <2>1. ASSUME NEW p \in Places', NEW q \in Places', o[p] = o[q]
        PROVE  p = q
    BY <1>1, <2>1 DEF PlacesForm
  <2>2. ASSUME NEW p \in Places', NEW q \in Places', Before(p, q)
        PROVE  Before(o[p], o[q])
    BY <1>1, <2>2 DEF PlacesForm, Before
  <2> HIDE DEF o
  <2> QED BY <1>5, <2>1, <2>2 DEF Moved, Alike
<1>8. OthersStay(o, d)
  <2>1. OpAt(d).key \notin Resources
    BY <1>3, <1>4, KeysFacts
  <2> HIDE DEF o
  <2> QED BY <1>5, <1>6, <2>1 DEF OthersStay, Alike
<1>9. Stages'
  <2>1. ASSUME NEW p \in Places'
        PROVE \/ p[1] = None /\ OpAt(p)'.stage = "queued"
              \/ /\ p[1] # None /\ OpAt(p)'.key = p[1]
                 /\ OpAt(p)'.stage = "queued" \/ (p[2] = 1 /\ backendState = "initialized")
    <3>1. o[p] \in Places /\ OpAt(p)' = OpAt(o[p])
          /\ ((p[1] = None /\ o[p][1] = None) \/ (p[1] # None /\ o[p] = p))
      BY <1>5
    <3> HIDE DEF o
    <3> QED BY <3>1 DEF LinesInv, Stages
  <2> QED BY <2>1 DEF LinesInv, Stages
<1>10. OpsSound'
  BY <1>5, OpsSoundKept DEF LinesInv, OpsSound
<1>12. Carried
  BY <1>5 DEF Carried
<1> HIDE DEF d, o
<1>11. ASSUME NEW c, c # 0, op.callback = c
       PROVE  HasWaiting(c) /\ ~HasWaiting(c)'
  <2>1. OpAt(d).callback = c
    BY <1>4, <1>11
  <2> QED BY <1>4, <1>5, <1>11, <2>1 DEF HasWaiting, LinesInv, CallbacksDistinct
<1> QED BY <1>12, <1>2, <1>4, <1>3, <1>7, <1>8, <1>9, <1>10, <1>11, KeysFacts, MoveKeeps DEF LinesInv

-------------------------------------------------------------------------------
(* A call adds operations *)

\* The call is written down as the one at time n.
Makes(call, n) == log' = Append(log, call) /\ n = Len(log) + 1

\* The operations ops, on different keys, come last in their lines.
Adds(ops) ==
  /\ \A p \in Places : p \in Places' /\ OpAt(p)' = OpAt(p)
  /\ \A q \in Places' : q \notin Places =>
       /\ OpAt(q)' \in ops
       /\ q[1] # None => OpAt(q)'.key = q[1]
       /\ \A p \in Places : OpAt(p).key = OpAt(q)'.key => ~Before(q, p)
  /\ \A p, q \in Places' :
       p \notin Places /\ q \notin Places /\ OpAt(p)' = OpAt(q)' => p = q
  /\ \A op \in ops : \E p \in Places' : p \notin Places /\ OpAt(p)' = op
  /\ \A a, b \in ops : a # b => a.key # b.key

\* What the call at time n makes of its operations.
MadeBy(ops, call, n) ==
  /\ \A op \in ops :
       /\ op.stage = "queued" /\ op.callback \in {0, n}
       /\ op.key \in Resources => op.key = call.resource /\ CallOf(op) = n
  /\ \A a, b \in ops : a.callback = n /\ b.callback = n => a = b
  /\ call.method \in {"write", "delete"} /\ backendState # "failed" =>
       \E op \in ops : op.key = call.resource /\ Changing(op)
  /\ \A op \in ops : call.resource \notin Resources => op.key \notin Resources

LEMMA LogFacts ==
  ASSUME Types, Types', NEW call, NEW n, Makes(call, n)
  PROVE  /\ n \in Nat /\ n \in Calls /\ n >= 1 /\ Len(log) = n - 1
         /\ DOMAIN log = 1 .. n - 1 /\ DOMAIN log' = 1 .. n /\ log'[n] = call
         /\ \A i \in 1 .. n - 1 : log'[i] = log[i]
<1>1. log \in Seq(CallType) /\ log' \in Seq(CallType) /\ Len(log') <= MaxRequests
  BY DEF Types
<1>2. Len(log) \in Nat /\ Len(log') = n /\ log'[n] = call
      /\ \A i \in 1 .. Len(log) : log'[i] = log[i]
  BY <1>1, AppendFacts DEF Makes
<1>3. n = Len(log) + 1
  BY DEF Makes
<1> QED BY <1>1, <1>2, <1>3, LenProperties, CodeCacheAssumption DEF Calls

\* What is known of an operation stays known: later calls do not make it stale.
LEMMA SoundGrows ==
  ASSUME Types, Types', NEW call, NEW n, Makes(call, n)
  PROVE  /\ \A r, t, d : Written(r, t, d) => Written(r, t, d)'
         /\ \A r, a, b : Stored(r, a, b) => Stored(r, a, b)'
         /\ \A c, t : c \in DOMAIN log /\ Fresh(c, t) => Fresh(c, t)'
         /\ \A op : Sound(op) => Sound(op)'
<1>1. /\ n \in Nat /\ DOMAIN log = 1 .. n - 1 /\ DOMAIN log' = 1 .. n
      /\ \A i \in 1 .. n - 1 : log'[i] = log[i]
  BY LogFacts
<1>2. \A r, t, d : Written(r, t, d) => Written(r, t, d)'
  BY <1>1 DEF Written
<1>3. \A r, a, b : Stored(r, a, b) => Stored(r, a, b)'
  BY <1>2 DEF Stored
<1>4. ASSUME NEW c, NEW t, c \in DOMAIN log, Fresh(c, t)
      PROVE  Fresh(c, t)'
  <2>1. log'[c] = log[c] /\ c \in 1 .. n - 1
    BY <1>1, <1>4
  <2>2. ASSUME NEW m \in Changes(log[c].resource)'
        PROVE  m \in Changes(log[c].resource) \/ m = n
    BY <1>1, <2>1 DEF Changes
  <2>3. \A r : r = log[c].resource => \A m \in Changes(r)' : m \in Changes(r) \/ m = n
    BY <1>1 DEF Changes
  <2> QED BY <1>1, <1>4, <2>1, <2>3 DEF Fresh
<1>5. \A c, m : IsCall(c, m) => IsCall(c, m)' /\ log'[c] = log[c] /\ c \in DOMAIN log
  BY <1>1 DEF IsCall
<1>6. ASSUME NEW op, Sound(op)
      PROVE  Sound(op)'
  <2>1. CASE op.type = "write" /\ SoundWrite(op)
    BY <1>3, <2>1 DEF Sound, SoundWrite
  <2>2. CASE op.type = "writeWithSHAKey" /\ SoundMergedWrite(op)
    BY <2>2 DEF Sound, SoundMergedWrite
  <2>3. CASE op.type = "fetch" /\ SoundFetch(op)
    BY <1>3, <1>4, <1>5, <2>3 DEF Sound, SoundFetch
  <2>4. CASE op.type = "fetchWithSHAKey" /\ SoundMergedFetch(op)
    BY <1>2, <1>4, <1>5, <2>4 DEF Sound, SoundMergedFetch
  <2>5. CASE op.type = "delete" /\ SoundDelete(op)
    BY <1>5, <2>5 DEF Sound, SoundDelete
  <2>6. CASE op.type = "getBackend" /\ SoundGetBackend(op)
    BY <1>5, <2>6 DEF Sound, SoundGetBackend
  <2> QED BY <1>6, <2>1, <2>2, <2>3, <2>4, <2>5, <2>6 DEF Sound
<1> QED BY <1>2, <1>3, <1>4, <1>6

\* A call comes after all that wait, and its change is to come (EnqueueOperation).
LEMMA CallAdds ==
  ASSUME Types, Types', LinesInv, UNCHANGED backendState, NEW call, NEW n, Makes(call, n),
         backendState = "initializing" => UNCHANGED queue,
         NEW ops, Adds(ops), MadeBy(ops, call, n), \A op \in ops : Sound(op)'
  PROVE  /\ LinesInv' /\ Carried
         /\ \A r \in Resources : \A m : ToCome(r, m) => ToCome(r, m)'
         /\ backendState # "failed" =>
              \A r \in Resources : \A t : LaterToCome(r, t) => LaterToCome(r, t)'
         /\ \A c : HasWaiting(c)' <=> HasWaiting(c) \/ \E op \in ops : op.callback = c
<1>1. /\ n \in Nat /\ n >= 1 /\ DOMAIN log = 1 .. n - 1 /\ DOMAIN log' = 1 .. n
      /\ log'[n] = call /\ \A i \in 1 .. n - 1 : log'[i] = log[i]
  BY LogFacts
<1>2. Stages'
  <2>1. ASSUME NEW p \in Places'
        PROVE \/ p[1] = None /\ OpAt(p)'.stage = "queued"
              \/ /\ p[1] # None /\ OpAt(p)'.key = p[1]
                 /\ OpAt(p)'.stage = "queued" \/ (p[2] = 1 /\ backendState = "initialized")
    <3>1. CASE p \in Places
      BY <3>1 DEF LinesInv, Stages, Adds
    <3>2. CASE p \notin Places
      BY <3>2 DEF Adds, MadeBy
    <3> QED BY <3>1, <3>2
  <2> QED BY <2>1 DEF LinesInv, Stages
<1>3. OpsSound'
  <2> SUFFICES ASSUME NEW p \in Places', NEW op, op = OpAt(p)'
               PROVE  Sound(op)'
    BY DEF OpsSound
  <2>1. CASE p \in Places
    BY <2>1, SoundGrows DEF Adds, LinesInv, OpsSound
  <2>2. CASE p \notin Places
    BY <2>2 DEF Adds
  <2> QED BY <2>1, <2>2
<1>4. ASSUME NEW p \in Places, OpAt(p).key \in Resources
      PROVE  CallOf(OpAt(p)) \in Nat /\ CallOf(OpAt(p)) < n
  BY <1>1, <1>4, CallOfType DEF LinesInv
<1>5. InOrder'
  <2> SUFFICES ASSUME NEW p \in Places', NEW q \in Places',
                      OpAt(p)'.key \in Resources, OpAt(p)'.key = OpAt(q)'.key, Before(p, q)
               PROVE  CallOf(OpAt(p)') < CallOf(OpAt(q)')
    BY DEF InOrder
  <2>1. CASE p \in Places /\ q \in Places
    BY <2>1 DEF LinesInv, InOrder, Adds
  <2>2. CASE p \in Places /\ q \notin Places
    <3>1. CallOf(OpAt(p)) < n /\ OpAt(p)' = OpAt(p)
      BY <1>4, <2>2 DEF Adds
    <3>2. CallOf(OpAt(q)') = n
      BY <2>2 DEF Adds, MadeBy
    <3> QED BY <3>1, <3>2
  <2>3. CASE p \notin Places /\ q \in Places
    BY <2>3 DEF Adds
  <2>4. CASE p \notin Places /\ q \notin Places
    <3>1. p = q
      BY <2>4 DEF Adds
    <3>2. p \in Places' => p[2] \in Nat
      BY PlacesFactsNext DEF PlacesForm
    <3> QED BY <1>1, <2>4, <3>1, <3>2, PlacesFactsNext, KeysFacts DEF Before, PlacesForm
  <2> QED BY <2>1, <2>2, <2>3, <2>4
<1>6. CallbacksDistinct'
  <2> SUFFICES ASSUME NEW p \in Places', NEW q \in Places',
                      OpAt(p)'.callback # 0, OpAt(p)'.callback = OpAt(q)'.callback
               PROVE  p = q
    BY DEF CallbacksDistinct
  <2>1. ASSUME NEW a \in Places
        PROVE  OpAt(a)'.callback # n
    <3>1. OpAt(a).callback = 0 \/ OpAt(a).callback \in DOMAIN log
      BY DEF LinesInv, OpsSound, Sound, SoundWrite, SoundMergedWrite, SoundFetch,
             SoundMergedFetch, SoundDelete, SoundGetBackend, IsCall
    <3> QED BY <1>1, <3>1 DEF Adds
  <2>2. ASSUME NEW a \in Places', a \notin Places, OpAt(a)'.callback # 0
        PROVE  OpAt(a)' \in ops /\ OpAt(a)'.callback = n
    BY <2>2 DEF Adds, MadeBy
  <2>3. CASE p \in Places /\ q \in Places
    BY <2>3 DEF LinesInv, CallbacksDistinct, Adds
  <2>4. CASE p \notin Places /\ q \notin Places
    BY <2>2, <2>4 DEF Adds, MadeBy
  <2> QED BY <2>1, <2>2, <2>3, <2>4
<1>7. ASSUME NEW r \in Resources, NEW m, ToCome(r, m)
      PROVE  ToCome(r, m)'
  BY <1>7 DEF ToCome, Adds
<1>8. ASSUME backendState # "failed", NEW r \in Resources, NEW m \in Changes(r)'
      PROVE  m \in Changes(r) \/ (m = n /\ ToCome(r, m)')
  <2>1. CASE m = n
    <3>1. call.method \in {"write", "delete"} /\ call.resource = r
      BY <1>1, <2>1 DEF Changes
    <3>2. PICK op \in ops : op.key = r /\ Changing(op)
      BY <1>8, <3>1 DEF MadeBy
    <3>3. CallOf(op) = n
      BY <3>2 DEF MadeBy
    <3> QED BY <2>1, <3>2, <3>3 DEF Adds, ToCome
  <2>2. CASE m # n
    BY <1>1, <2>2 DEF Changes
  <2> QED BY <2>1, <2>2
<1>9. ASSUME backendState # "failed", NEW r \in Resources, NEW t, LaterToCome(r, t)
      PROVE  LaterToCome(r, t)'
  BY <1>7, <1>8, <1>9 DEF LaterToCome
<1>10. NothingOvertakes'
  <2> SUFFICES ASSUME backendState' # "failed", NEW p \in Places', NEW r \in Resources,
                      OpAt(p)'.key = r, NEW t, t = CallOf(OpAt(p)')
               PROVE  LaterToCome(r, t)'
    BY DEF NothingOvertakes, LaterToCome
  <2>1. CASE p \in Places
    BY <1>9, <2>1 DEF Adds, LinesInv, NothingOvertakes
  <2>2. CASE p \notin Places
    <3>1. t = n
      BY <2>2 DEF Adds, MadeBy
    <3> QED BY <1>1, <3>1 DEF LaterToCome, Changes
  <2> QED BY <2>1, <2>2
<1>11. ASSUME NEW c
       PROVE  HasWaiting(c)' <=> HasWaiting(c) \/ \E op \in ops : op.callback = c
  BY DEF HasWaiting, Adds
<1>12. Carried
  BY DEF Carried, Adds, MadeBy, Reading
<1> QED BY <1>12, <1>2, <1>3, <1>5, <1>6, <1>7, <1>9, <1>10, <1>11 DEF LinesInv

KeysApart(s) == \A i, j \in 1 .. Len(s) : s[i].key = s[j].key => i = j

LEMMA PendingAdds ==
  ASSUME Types, Types', NEW S, NEW s \in Seq(S), KeysApart(s),
         pendingOps' = pendingOps \o s, UNCHANGED queue
  PROVE  Adds(ToSet(s))
<1>1. PlacesForm /\ PlacesForm'
  BY PlacesFacts, PlacesFactsNext
<1>2. /\ Len(pendingOps) \in Nat /\ Len(s) \in Nat
      /\ Len(pendingOps') = Len(pendingOps) + Len(s)
      /\ \A i \in 1 .. Len(pendingOps) : pendingOps'[i] = pendingOps[i]
      /\ \A i \in 1 .. Len(s) : pendingOps'[Len(pendingOps) + i] = s[i]
  <2>1. pendingOps \in Seq(OpType(Keys \cup {None}))
    BY DEF Types
  <2>2. Len(pendingOps) \in Nat /\ Len(s) \in Nat
    BY <2>1, LenProperties
  <2>3. Len(pendingOps \o s) = Len(pendingOps) + Len(s)
    BY <2>1
  <2>4. \A i \in 1 .. Len(pendingOps) + Len(s) :
          (pendingOps \o s)[i] = IF i <= Len(pendingOps) THEN pendingOps[i]
                                 ELSE s[i - Len(pendingOps)]
    BY <2>1
  <2>5. ASSUME NEW i \in 1 .. Len(s)
        PROVE  pendingOps'[Len(pendingOps) + i] = s[i]
    <3>1. /\ Len(pendingOps) + i \in 1 .. Len(pendingOps) + Len(s)
          /\ ~(Len(pendingOps) + i <= Len(pendingOps))
          /\ (Len(pendingOps) + i) - Len(pendingOps) = i
      BY <2>2
    <3> QED BY <2>4, <3>1
  <2> QED BY <2>2, <2>3, <2>4, <2>5
<1>3. /\ DOMAIN s = 1 .. Len(s)
      /\ \A i \in 1 .. Len(s) : s[i] \in ToSet(s)
      /\ \A op \in ToSet(s) : \E i \in 1 .. Len(s) : op = s[i]
  BY LenProperties DEF ToSet
<1>4. ASSUME NEW p \in Places
      PROVE  p \in Places' /\ OpAt(p)' = OpAt(p)
  <2>1. CASE p[1] = None
    BY <1>1, <1>2, <2>1 DEF PlacesForm
  <2>2. CASE p[1] # None
    BY SMTT(30), <1>1, <2>2 DEF PlacesForm
  <2> QED BY <2>1, <2>2
<1>5. ASSUME NEW q \in Places', q \notin Places
      PROVE  /\ q = <<None, q[2]>> /\ q[2] - Len(pendingOps) \in 1 .. Len(s) /\ q[2] \in Nat
             /\ OpAt(q)' = s[q[2] - Len(pendingOps)]
  <2>1. q[1] = None
    BY <1>1, <1>5 DEF PlacesForm
  <2>2. q = <<None, q[2]>> /\ q[2] \in 1 .. Len(pendingOps') /\ OpAt(q)' = pendingOps'[q[2]]
    BY <1>1, <2>1 DEF PlacesForm
  <2>3. ~(q[2] <= Len(pendingOps))
    BY <1>1, <1>2, <1>5, <2>2 DEF PlacesForm
  <2>4. q[2] - Len(pendingOps) \in 1 .. Len(s)
    BY <1>2, <2>2, <2>3
  <2>5. q[2] = Len(pendingOps) + (q[2] - Len(pendingOps))
    BY <1>2, <2>2
  <2> QED BY <1>2, <2>2, <2>4, <2>5
<1>6. ASSUME NEW i \in 1 .. Len(s)
      PROVE  \E p \in Places' : p \notin Places /\ OpAt(p)' = s[i]
  <2>1. Len(pendingOps) + i \in 1 .. Len(pendingOps') /\ Len(pendingOps) + i \notin 1 .. Len(pendingOps)
    BY <1>2
  <2>2. <<None, Len(pendingOps) + i>> \notin Places
    BY <1>1, <2>1 DEF PlacesForm
  <2>3. PICK j : j = Len(pendingOps) + i
    OBVIOUS
  <2>4. <<None, j>> \in Places' /\ OpAt(<<None, j>>)' = s[i]
    BY <1>1, <1>2, <2>1, <2>3 DEF PlacesForm
  <2> QED BY <2>2, <2>3, <2>4
<1>7. ASSUME NEW q \in Places', q \notin Places, NEW p \in Places
      PROVE  ~Before(q, p)
  <2>1. p[2] \in Nat /\ (p[1] = None => p[2] <= Len(pendingOps))
    BY <1>1 DEF PlacesForm
  <2> QED BY <1>2, <1>5, <1>7, <2>1 DEF Before
<1>8. ASSUME NEW p \in Places', NEW q \in Places', p \notin Places, q \notin Places,
             OpAt(p)' = OpAt(q)'
      PROVE  p = q
  <2>1. p[2] - Len(pendingOps) = q[2] - Len(pendingOps)
    BY <1>5, <1>8 DEF KeysApart
  <2> QED BY SMTT(30), <1>2, <1>5, <1>8, <2>1
<1>9. ASSUME NEW a \in ToSet(s), NEW b \in ToSet(s), a # b
      PROVE  a.key # b.key
  BY <1>3, <1>9 DEF KeysApart
<1> QED BY <1>3, <1>4, <1>5, <1>6, <1>7, <1>8, <1>9 DEF Adds

LEMMA QueueAdds ==
  ASSUME Types, Types', NEW S, NEW s \in Seq(S), KeysApart(s),
         \A i \in 1 .. Len(s) : s[i].key \in Keys,
         UNCHANGED pendingOps, pendingOps = <<>>,
         queue' = [k \in Keys |-> IF \E op \in ToSet(s) : op.key = k
                                  THEN Append(queue[k], CHOOSE op \in ToSet(s) : op.key = k)
                                  ELSE queue[k]]
  PROVE  Adds(ToSet(s))
<1>1. PlacesForm /\ PlacesForm' /\ None \notin Keys
  BY PlacesFacts, PlacesFactsNext, KeysFacts
<1>2. /\ DOMAIN s = 1 .. Len(s)
      /\ \A i \in 1 .. Len(s) : s[i] \in ToSet(s)
      /\ \A op \in ToSet(s) : \E i \in 1 .. Len(s) : op = s[i]
  BY LenProperties DEF ToSet
<1>3. \A a, b \in ToSet(s) : a.key = b.key => a = b
  BY <1>2 DEF KeysApart
<1>4. ASSUME NEW op \in ToSet(s), NEW k, op.key = k
      PROVE  /\ k \in Keys /\ Len(queue[k]) \in Nat /\ Len(queue'[k]) = Len(queue[k]) + 1
             /\ \A i \in 1 .. Len(queue[k]) : queue'[k][i] = queue[k][i]
             /\ queue'[k][Len(queue[k]) + 1] = op
  <2>1. k \in Keys
    BY <1>2, <1>4
  <2>1a. queue[k] \in Seq(OpType(Keys))
    BY <2>1 DEF Types
  <2>2. (CHOOSE e \in ToSet(s) : e.key = k) = op
    BY <1>3, <1>4
  <2>3. queue'[k] = Append(queue[k], op)
    BY <1>4, <2>1, <2>2
  <2> QED BY <2>1, <2>1a, <2>3, AppendFacts
<1>5. ASSUME NEW k \in Keys, ~\E op \in ToSet(s) : op.key = k
      PROVE  queue'[k] = queue[k]
  BY <1>5
<1>6. ASSUME NEW p \in Places
      PROVE  /\ p \in Places' /\ OpAt(p)' = OpAt(p)
             /\ p = <<p[1], p[2]>> /\ p[1] \in Keys /\ p[2] \in 1 .. Len(queue[p[1]])
  <2>1. p = <<p[1], p[2]>> /\ p[1] \in Keys /\ p[2] \in 1 .. Len(queue[p[1]])
        /\ OpAt(p) = queue[p[1]][p[2]]
    BY <1>1 DEF PlacesForm
  <2>2. p[2] \in 1 .. Len(queue'[p[1]]) /\ queue'[p[1]][p[2]] = queue[p[1]][p[2]]
    <3>1. CASE \E op \in ToSet(s) : op.key = p[1]
      BY <1>4, <2>1, <3>1
    <3>2. CASE ~\E op \in ToSet(s) : op.key = p[1]
      BY <1>5, <2>1, <3>2
    <3> QED BY <3>1, <3>2
  <2> QED BY <1>1, <2>1, <2>2 DEF PlacesForm
<1>7. ASSUME NEW q \in Places', q \notin Places
      PROVE  /\ q = <<q[1], q[2]>> /\ q[1] \in Keys /\ q[2] = Len(queue[q[1]]) + 1
             /\ OpAt(q)' \in ToSet(s) /\ OpAt(q)'.key = q[1]
  <2>1. q = <<q[1], q[2]>> /\ q[1] \in Keys /\ q[2] \in 1 .. Len(queue'[q[1]])
        /\ OpAt(q)' = queue'[q[1]][q[2]]
    <3>1. q[1] # None
      BY <1>1 DEF PlacesForm
    <3>2. q = <<q[1], q[2]>> /\ q[1] \in Keys /\ q[2] \in 1 .. Len(queue'[q[1]])
      BY <1>1, <3>1 DEF PlacesForm
    <3> QED BY <1>1, <3>2 DEF PlacesForm
  <2>2. q[2] \notin 1 .. Len(queue[q[1]])
    BY <1>1, <1>7, <2>1 DEF PlacesForm
  <2>3. PICK op \in ToSet(s) : op.key = q[1]
    BY <1>5, <2>1, <2>2
  <2> QED BY <1>4, <2>1, <2>2, <2>3
<1>8. ASSUME NEW op \in ToSet(s)
      PROVE  \E p \in Places' : p \notin Places /\ OpAt(p)' = op
  <2>1. PICK k, j : k = op.key /\ j = Len(queue[k]) + 1
    OBVIOUS
  <2>2. k \in Keys /\ j \in 1 .. Len(queue'[k]) /\ queue'[k][j] = op
        /\ j \notin 1 .. Len(queue[k])
    BY <1>4, <2>1
  <2>3. <<k, j>> \in Places' /\ OpAt(<<k, j>>)' = op
    BY <1>1, <2>2 DEF PlacesForm
  <2>4. <<k, j>> \notin Places
    BY <1>1, <2>2 DEF PlacesForm
  <2> QED BY <2>3, <2>4
<1>9. ASSUME NEW q \in Places', q \notin Places, NEW p \in Places
      PROVE  ~Before(q, p)
  <2>1. q[1] # None /\ p[1] # None /\ Len(queue[q[1]]) \in Nat
    BY <1>1, <1>6, <1>7, <1>9 DEF PlacesForm
  <2> QED BY <1>6, <1>7, <1>9, <2>1 DEF Before
<1>10. ASSUME NEW p \in Places', NEW q \in Places', p \notin Places, q \notin Places,
             OpAt(p)' = OpAt(q)'
       PROVE  p = q
  BY <1>7, <1>10
<1> QED BY <1>2, <1>3, <1>6, <1>7, <1>8, <1>9, <1>10 DEF Adds

LEMMA NoneAdds ==
  ASSUME Types, Types', UNCHANGED <<queue, pendingOps>>
  PROVE  Adds({})
<1>1. PlacesForm /\ PlacesForm'
  BY PlacesFacts, PlacesFactsNext
<1>2. ASSUME NEW p \in Places
      PROVE  p \in Places' /\ OpAt(p)' = OpAt(p)
  BY <1>1 DEF PlacesForm
<1>3. ASSUME NEW p \in Places'
      PROVE  p \in Places
  BY <1>1 DEF PlacesForm
<1> QED BY <1>2, <1>3 DEF Adds

\* EnqueueOperation: pending_ops_ until there is a backend, the queues afterwards.
LEMMA EnqueueAdds ==
  ASSUME Types, Types', Settled, backendState # "failed",
         NEW S, NEW s \in Seq(S), KeysApart(s), \A i \in 1 .. Len(s) : s[i].key \in Keys,
         EnqueueOperations(s)
  PROVE  Adds(ToSet(s)) /\ (backendState = "initializing" => UNCHANGED queue)
<1>1. CASE backendState = "initialized"
  <2>1. pendingOps = <<>>
    BY <1>1 DEF Settled
  <2> QED BY <1>1, <2>1, QueueAdds DEF EnqueueOperations
<1>2. CASE backendState = "initializing"
  BY <1>2, PendingAdds DEF EnqueueOperations
<1> QED BY <1>1, <1>2 DEF Types

-------------------------------------------------------------------------------
(* Answers *)

LEMMA WaitingAsked ==
  ASSUME Types, OpsSound, NEW c, HasWaiting(c)
  PROVE  c = 0 \/ (c \in Asked /\ c \in Calls /\ c # 0)
<1>1. log \in Seq(CallType) /\ Len(log) <= MaxRequests
  BY DEF Types
<1>2. DOMAIN log = 1 .. Len(log) /\ Len(log) \in Nat /\ DOMAIN log \subseteq Calls /\ 0 \notin DOMAIN log
  BY <1>1, LenProperties, CodeCacheAssumption DEF Calls
<1>3. PICK p \in Places : OpAt(p).callback = c
  BY DEF HasWaiting
<1>4. Sound(OpAt(p))
  BY DEF OpsSound
<1>5. c = 0 \/ IsCall(c, "fetch") \/ IsCall(c, "getBackend")
  BY <1>3, <1>4 DEF Sound, SoundWrite, SoundMergedWrite, SoundFetch, SoundMergedFetch,
                    SoundDelete, SoundGetBackend
<1> QED BY <1>2, <1>5 DEF IsCall, Asked

LEMMA AnswersSame ==
  ASSUME AnsweredOrWaiting, AnswersFresh, UNCHANGED <<log, answers>>,
         \A c \in Calls : HasWaiting(c)' <=> HasWaiting(c)
  PROVE  AnsweredOrWaiting' /\ AnswersFresh'
<1>1. AnsweredOrWaiting'
  BY DEF AnsweredOrWaiting, Asked
<1>2. AnswersFresh'
  BY DEF AnswersFresh, Written, Fresh, Changes
<1> QED BY <1>1, <1>2

\* What a call is answered with is fresh.
FreshAnswer(c, time, data) ==
  ~InMemoryCodeCache /\ time # 0 =>
    Written(log[c].resource, time, data) /\ Fresh(c, time)

LEMMA AnswerAppends ==
  ASSUME Types, NEW c \in Calls, NEW time, NEW data, Answer(c, time, data),
         answers[c] = <<>>
  PROVE  /\ \A e \in Calls : e # c => answers'[e] = answers[e]
         /\ answers'[c] = <<[time |-> time, data |-> data]>>
         /\ Len(answers'[c]) = 1 /\ answers'[c] # <<>>
         /\ DOMAIN answers'[c] = {1} /\ answers'[c][1] = [time |-> time, data |-> data]
<1>1. answers \in [Calls -> Seq(AnswerType)]
  BY DEF Types
<1>2. /\ \A e \in Calls : e # c => answers'[e] = answers[e]
      /\ answers'[c] = Append(<<>>, [time |-> time, data |-> data])
  BY <1>1 DEF Answer, Stamped
<1>3. answers'[c] = <<[time |-> time, data |-> data]>>
  BY <1>2
<1> QED BY <1>2, <1>3

\* The callback of an operation that leaves is run (TakeReadCallback).
LEMMA Answered ==
  ASSUME Types, OpsSound, AnsweredOrWaiting, AnswersFresh, UNCHANGED log,
         NEW c, HasWaiting(c), c # 0,
         NEW time, NEW data, Answer(c, time, data), FreshAnswer(c, time, data),
         \A e : e # 0 => (HasWaiting(e)' <=> HasWaiting(e) /\ c # e)
  PROVE  AnsweredOrWaiting' /\ AnswersFresh'
<1>1. c \in Calls /\ c \in Asked /\ answers[c] = <<>>
  BY WaitingAsked DEF AnsweredOrWaiting
<1>2. 0 \notin Calls
  BY CodeCacheAssumption DEF Calls
<1>3. /\ \A e \in Calls : e # c => answers'[e] = answers[e]
      /\ Len(answers'[c]) = 1 /\ answers'[c] # <<>>
      /\ DOMAIN answers'[c] = {1} /\ answers'[c][1] = [time |-> time, data |-> data]
  BY <1>1, AnswerAppends
<1>4. AnsweredOrWaiting'
  <2>1. Asked' = Asked
    BY DEF Asked
  <2>2. ASSUME NEW e \in Calls
        PROVE /\ Len(answers'[e]) <= 1
              /\ HasWaiting(e)' => answers'[e] = <<>>
              /\ e \in Asked => HasWaiting(e)' \/ answers'[e] # <<>>
              /\ e \notin Asked => answers'[e] = <<>>
    <3>1. CASE e = c
      <4>1. ~HasWaiting(e)'
        BY <1>2, <3>1
      <4>2. Len(answers'[e]) = 1
        BY <1>3, <3>1
      <4>3. answers'[e] # <<>>
        BY <1>3, <3>1
      <4>4. e \in Asked
        BY <1>1, <3>1
      <4> QED BY <4>1, <4>2, <4>3, <4>4
    <3>2. CASE e # c
      BY <1>2, <1>3, <3>2 DEF AnsweredOrWaiting
    <3> QED BY <3>1, <3>2
  <2> QED BY <2>1, <2>2 DEF AnsweredOrWaiting
<1>5. AnswersFresh'
  <2> SUFFICES ASSUME ~InMemoryCodeCache, NEW e \in Calls, NEW i \in DOMAIN answers'[e],
                      answers'[e][i].time # 0
               PROVE  /\ Written(log[e].resource, answers'[e][i].time, answers'[e][i].data)
                      /\ Fresh(e, answers'[e][i].time)
    BY DEF AnswersFresh, Written, Fresh, Changes
  <2>1. CASE e = c
    BY <1>3, <2>1 DEF FreshAnswer
  <2>2. CASE e # c
    BY <1>3, <2>2 DEF AnswersFresh
  <2> QED BY <2>1, <2>2
<1> QED BY <1>4, <1>5

\* The calls that are answered.
Asks(call) == call.method \in {"fetch", "getBackend"}

\* A call is new, and is answered at once or is the only one to wait for its answer.
LEMMA CallAnswers ==
  ASSUME Types, Types', OpsSound, AnsweredOrWaiting, AnswersFresh,
         NEW call, NEW n, Makes(call, n),
         \/ /\ UNCHANGED answers
            /\ \A c \in Calls : HasWaiting(c)' <=> HasWaiting(c) \/ (c = n /\ Asks(call))
         \/ /\ Answer(n, 0, Empty) /\ Asks(call)
            /\ \A c \in Calls : HasWaiting(c)' <=> HasWaiting(c)
  PROVE  AnsweredOrWaiting' /\ AnswersFresh'
<1>1. /\ n \in Nat /\ n >= 1 /\ n \in Calls /\ DOMAIN log = 1 .. n - 1 /\ DOMAIN log' = 1 .. n
      /\ log'[n] = call /\ \A i \in 1 .. n - 1 : log'[i] = log[i]
  BY LogFacts
<1>2. n \notin Asked /\ \A c : c \in Asked' <=> c \in Asked \/ (c = n /\ Asks(call))
  <2>1. n \notin Asked
    BY <1>1 DEF Asked, Asks
  <2>2. ASSUME NEW c
        PROVE  c \in Asked' <=> c \in Asked \/ (c = n /\ Asks(call))
    <3>1. CASE c = n
      BY <1>1, <2>1, <3>1 DEF Asked, Asks
    <3>2. CASE c # n
      BY <1>1, <3>2 DEF Asked, Asks
    <3> QED BY <3>1, <3>2
  <2> QED BY <2>1, <2>2
<1>3. answers[n] = <<>> /\ ~HasWaiting(n) /\ n # 0
  BY <1>1, <1>2, WaitingAsked, CodeCacheAssumption DEF AnsweredOrWaiting, Calls
<1>4. ASSUME NEW e \in Calls, e # n
      PROVE  answers'[e] = answers[e] /\ (HasWaiting(e)' <=> HasWaiting(e))
  <2>1. CASE Answer(n, 0, Empty)
    BY <1>1, <1>3, <1>4, <2>1, AnswerAppends
  <2>2. CASE UNCHANGED answers
    BY <1>4, <2>2
  <2>3. HasWaiting(e)' <=> HasWaiting(e)
    BY <1>4
  <2> QED BY <2>1, <2>2, <2>3
<1>5. /\ Len(answers'[n]) <= 1
      /\ \/ answers'[n] = <<>> /\ (HasWaiting(n)' <=> Asks(call))
         \/ /\ Asks(call) /\ ~HasWaiting(n)' /\ answers'[n] # <<>> /\ Len(answers'[n]) = 1
            /\ DOMAIN answers'[n] = {1} /\ answers'[n][1] = [time |-> 0, data |-> Empty]
  <2>1. CASE /\ UNCHANGED answers
             /\ \A c \in Calls : HasWaiting(c)' <=> HasWaiting(c) \/ (c = n /\ Asks(call))
    BY <1>1, <1>3, <2>1
  <2>2. CASE /\ Answer(n, 0, Empty) /\ Asks(call)
             /\ \A c \in Calls : HasWaiting(c)' <=> HasWaiting(c)
    <3>1. /\ Len(answers'[n]) = 1 /\ answers'[n] # <<>>
          /\ DOMAIN answers'[n] = {1} /\ answers'[n][1] = [time |-> 0, data |-> Empty]
      BY <1>1, <1>3, <2>2, AnswerAppends
    <3>2. ~HasWaiting(n)'
      BY <1>1, <1>3, <2>2
    <3> QED BY <2>2, <3>1, <3>2
  <2> QED BY <2>1, <2>2
<1>6. AnsweredOrWaiting'
  <2>1. ASSUME NEW e \in Calls
        PROVE /\ Len(answers'[e]) <= 1
              /\ HasWaiting(e)' => answers'[e] = <<>>
              /\ e \in Asked' => HasWaiting(e)' \/ answers'[e] # <<>>
              /\ e \notin Asked' => answers'[e] = <<>>
    <3>1. CASE e = n
      <4>1. \/ answers'[e] = <<>> /\ (HasWaiting(e)' <=> Asks(call))
            \/ Asks(call) /\ ~HasWaiting(e)' /\ answers'[e] # <<>> /\ Len(answers'[e]) = 1
        BY <1>5, <3>1
      <4>2. e \in Asked' <=> Asks(call)
        BY <1>2, <3>1
      <4>3. Len(answers'[e]) <= 1
        BY <1>5, <3>1
      <4> QED BY <4>1, <4>2, <4>3
    <3>2. CASE e # n
      BY <1>2, <1>4, <3>2 DEF AnsweredOrWaiting
    <3> QED BY <3>1, <3>2
  <2> QED BY <2>1 DEF AnsweredOrWaiting
<1>7. AnswersFresh'
  <2> SUFFICES ASSUME ~InMemoryCodeCache, NEW e \in Calls, NEW i \in DOMAIN answers'[e],
                      answers'[e][i].time # 0
               PROVE  \A r, t, d : r = log'[e].resource /\ t = answers'[e][i].time
                                   /\ d = answers'[e][i].data => Written(r, t, d)' /\ Fresh(e, t)'
    BY DEF AnswersFresh, Written, Fresh, Changes
  <2>1. e # n
    BY <1>5
  <2>2. answers'[e] = answers[e]
    BY <1>4, <2>1
  <2>3. e \in DOMAIN log /\ log'[e] = log[e]
    BY <1>1, <2>2 DEF AnsweredOrWaiting, Asked
  <2>4. \A r, t, d : r = log[e].resource /\ t = answers[e][i].time /\ d = answers[e][i].data
                       => Written(r, t, d) /\ Fresh(e, t)
    BY <2>2 DEF AnswersFresh
  <2> QED BY <2>2, <2>3, <2>4, SoundGrows
<1> QED BY <1>6, <1>7

-------------------------------------------------------------------------------
(* The disk *)

\* What the first write of op did is on disk after the step, if it did not fail.
Lands(op) ==
  HalfDone(op) => disk'[op.key] = None \/ disk'[op.key].small = op.small

LEMMA StoredTime ==
  ASSUME Types, NEW r, NEW small, NEW large, Stored(r, small, large)
  PROVE  small.time \in DOMAIN log /\ small.time \in Nat /\ small.time \in Calls
<1>1. log \in Seq(CallType) /\ Len(log) <= MaxRequests
  BY DEF Types
<1>2. DOMAIN log = 1 .. Len(log) /\ Len(log) \in Nat /\ DOMAIN log \subseteq Calls
  BY <1>1, LenProperties, CodeCacheAssumption DEF Calls
<1>3. small.time \in DOMAIN log
  BY DEF Stored, Written
<1> QED BY <1>2, <1>3

\* The front of k stays, if there is one.
FrontStays(k) == Len(queue[k]) >= 1 => Len(queue'[k]) >= 1 /\ queue'[k][1] = queue[k][1]

LEMMA WritingStays ==
  ASSUME Types, Types', NEW k \in Keys, FrontStays(k), Writing(k)
  PROVE  Writing(k)'
<1>1. PlacesForm /\ PlacesForm' /\ k # None
  BY PlacesFacts, PlacesFactsNext, KeysFacts
<1>2. <<k, 1>> \in Places /\ OpAt(<<k, 1>>).type \in Writes /\ Reading(OpAt(<<k, 1>>))
  BY DEF Writing
<1>3. Len(queue[k]) >= 1 /\ OpAt(<<k, 1>>) = queue[k][1]
  BY <1>1, <1>2 DEF PlacesForm
<1>4. Len(queue'[k]) >= 1 /\ Len(queue'[k]) \in Nat /\ queue'[k][1] = queue[k][1]
  BY <1>1, <1>3 DEF FrontStays, PlacesForm
<1>5. <<k, 1>> \in Places' /\ OpAt(<<k, 1>>)' = OpAt(<<k, 1>>)
  BY <1>1, <1>3, <1>4 DEF PlacesForm
<1>6. OpAt(<<k, 1>>)'.type \in Writes /\ Reading(OpAt(<<k, 1>>)')
  BY <1>2, <1>5 DEF Reading
<1> QED BY <1>5, <1>6 DEF Writing, Reading

\* Entries stay, go, or are written; a write or delete that left came before what is on
\* disk.
LEMMA DiskChanges ==
  ASSUME Types, OpsSound, DiskSound, WriteLanded, UNCHANGED <<log, backendState>>,
         \A k \in Keys : disk'[k] = disk[k] \/ disk'[k] = None
                         \/ (Writing(k)' /\ backendState = "initialized"),
         \A k \in Keys : Writing(k) /\ disk'[k] # None => Writing(k)',
         \A r \in Resources : \A m : disk'[r] # None /\ ToCome(r, m) =>
           ToCome(r, m)' \/ m <= disk[r].small.time \/ Writing(r)',
         \A p \in Places' : Reading(OpAt(p)') =>
           \/ Lands(OpAt(p)')
           \/ \E q \in Places : OpAt(p)' = OpAt(q) /\ disk'[OpAt(q).key] \in {None, disk[OpAt(q).key]}
  PROVE  DiskSound' /\ WriteLanded'
<1>1. ASSUME NEW r \in Resources, disk'[r] # None, ~Writing(r)'
      PROVE  /\ disk'[r] = disk[r] /\ Stored(r, disk[r].small, disk[r].large)
             /\ \A t : t = disk[r].small.time => LaterToCome(r, t)'
  <2>1. r \in Keys /\ disk'[r] = disk[r] /\ ~Writing(r)
    BY <1>1, KeysFacts
  <2>2. Stored(r, disk[r].small, disk[r].large) /\ LaterToCome(r, disk[r].small.time)
    BY <1>1, <2>1 DEF DiskSound
  <2>3. disk[r].small.time \in Nat
    BY <2>2, StoredTime
  <2>4. ASSUME NEW m \in Changes(r)', m > disk[r].small.time
        PROVE  ToCome(r, m)'
    <3>1. m \in Changes(r) /\ m \in Nat
      <4>1. DOMAIN log = 1 .. Len(log) /\ Len(log) \in Nat
        BY DEF Types
      <4> QED BY <4>1 DEF Changes
    <3>2. ToCome(r, m)
      BY <2>2, <2>4, <3>1 DEF LaterToCome
    <3> QED BY <1>1, <2>3, <2>4, <3>1, <3>2
  <2> QED BY <2>1, <2>2, <2>4 DEF LaterToCome
<1>2. DiskSound'
  <2>1. ASSUME NEW r \in Resources, disk'[r] # None, ~Writing(r)'
        PROVE  Stored(r, disk[r].small, disk[r].large)' /\ LaterToCome(r, disk[r].small.time)'
    <3>1. PICK a, b, t : a = disk[r].small /\ b = disk[r].large /\ t = disk[r].small.time
      OBVIOUS
    <3>2. disk'[r] = disk[r] /\ Stored(r, a, b) /\ LaterToCome(r, t)'
      BY <1>1, <2>1, <3>1
    <3>3. Stored(r, disk[r].small, disk[r].large)'
      BY <3>1, <3>2 DEF Stored, Written
    <3>4. LaterToCome(r, disk[r].small.time)'
      BY <3>1, <3>2 DEF LaterToCome
    <3> QED BY <3>3, <3>4
  <2>2. ASSUME NEW d \in Data, ~Writing(Checksum(d))'
        PROVE  disk'[Checksum(d)] \in {None, [small |-> Empty, large |-> d]}
    <3>1. PICK k \in Keys : k = Checksum(d)
      BY KeysFacts
    <3>2. ~Writing(k)'
      BY <2>2, <3>1 DEF Writing
    <3>3. disk'[k] = disk[k] \/ disk'[k] = None
      BY <3>2
    <3>4. CASE disk'[k] # None
      <4>1. ~Writing(k)
        BY <3>2, <3>4
      <4>2. ~Writing(Checksum(d))
        BY <3>1, <4>1
      <4> QED BY <3>1, <3>3, <3>4, <4>2 DEF DiskSound
    <3> QED BY <3>1, <3>4
  <2>3. backendState' # "initialized" => \A k \in Keys : disk'[k] = None
    BY DEF DiskSound
  <2> QED BY <2>1, <2>2, <2>3 DEF DiskSound
<1>3. WriteLanded'
  <2> SUFFICES ASSUME NEW p \in Places', NEW op, op = OpAt(p)', HalfDone(op)
               PROVE  disk'[op.key] = None \/ disk'[op.key].small = op.small
    BY DEF WriteLanded, HalfDone
  <2>0. Reading(OpAt(p)')
    BY DEF HalfDone, Reading
  <2>1. CASE Lands(OpAt(p)')
    BY <2>1 DEF Lands
  <2>2. CASE \E q \in Places : OpAt(p)' = OpAt(q) /\ disk'[OpAt(q).key] \in {None, disk[OpAt(q).key]}
    <3>1. PICK q \in Places : op = OpAt(q) /\ disk'[op.key] \in {None, disk[op.key]}
      BY <2>2
    <3>2. disk[op.key] = None \/ disk[op.key].small = op.small
      BY <3>1 DEF WriteLanded
    <3> QED BY <3>1, <3>2
  <2> QED BY <2>0, <2>1, <2>2
<1> QED BY <1>2, <1>3

\* Entries stay or go.
LEMMA DiskStays ==
  ASSUME Types, OpsSound, DiskSound, WriteLanded, UNCHANGED <<log, backendState>>,
         \A k \in Keys : disk'[k] = disk[k] \/ disk'[k] = None,
         \A k \in Keys : Writing(k) /\ disk'[k] # None => Writing(k)',
         \A r \in Resources : \A m : disk'[r] # None /\ ToCome(r, m) =>
           ToCome(r, m)' \/ m <= disk[r].small.time,
         \A p \in Places' : Reading(OpAt(p)') =>
           (\E q \in Places : OpAt(p)' = OpAt(q)) \/ Lands(OpAt(p)')
  PROVE  DiskSound' /\ WriteLanded'
<1>1. ASSUME NEW p \in Places', Reading(OpAt(p)')
      PROVE  \/ Lands(OpAt(p)')
             \/ \E q \in Places : OpAt(p)' = OpAt(q) /\ disk'[OpAt(q).key] \in {None, disk[OpAt(q).key]}
  <2>1. CASE Lands(OpAt(p)')
    BY <2>1
  <2>2. CASE \E q \in Places : OpAt(p)' = OpAt(q)
    <3>1. PICK q \in Places : OpAt(p)' = OpAt(q)
      BY <2>2
    <3>2. CASE OpAt(q).key \in Keys
      BY <3>1, <3>2
    <3>3. CASE OpAt(q).key \notin Keys
      <4>1. Sound(OpAt(q))
        BY DEF OpsSound
      <4>2. OpAt(q).type \notin Writes
        BY <3>3, <4>1, KeysFacts DEF Writes, Sound, SoundWrite, SoundMergedWrite
      <4>3. Lands(OpAt(q))
        BY <4>2 DEF Lands, HalfDone
      <4> QED BY <3>1, <4>3
    <3> QED BY <3>2, <3>3
  <2> QED BY <1>1, <2>1, <2>2
<1> QED BY <1>1, DiskChanges

\* A call does not touch the disk.
LEMMA DiskAtCall ==
  ASSUME Types, Types', OpsSound, DiskSound, WriteLanded, UNCHANGED <<disk, backendState>>,
         NEW call, NEW n, Makes(call, n), Carried, NEW ops, Adds(ops),
         backendState # "failed" =>
           \A r \in Resources : \A t : LaterToCome(r, t) => LaterToCome(r, t)'
  PROVE  DiskSound' /\ WriteLanded'
<1>0. ASSUME NEW k, Writing(k)
      PROVE  Writing(k)'
  <2>1. <<k, 1>> \in Places' /\ OpAt(<<k, 1>>)' = OpAt(<<k, 1>>)
    BY <1>0 DEF Writing, Adds
  <2> QED BY <1>0, <2>1 DEF Writing, Reading
<1>1. DiskSound'
  <2>1. ASSUME NEW r \in Resources, disk[r] # None, ~Writing(r)
        PROVE  \A a, b, t : a = disk[r].small /\ b = disk[r].large /\ t = disk[r].small.time =>
                              Stored(r, a, b)' /\ LaterToCome(r, t)'
    <3>1. backendState = "initialized"
      BY <2>1, KeysFacts DEF DiskSound
    <3> QED BY <2>1, <3>1, SoundGrows DEF DiskSound
  <2>2. ASSUME NEW r \in Resources, disk'[r] # None, ~Writing(r)'
        PROVE  Stored(r, disk[r].small, disk[r].large)' /\ LaterToCome(r, disk[r].small.time)'
    <3>0. disk[r] # None /\ ~Writing(r)
      BY <1>0, <2>2
    <3>1. PICK a, b, t : a = disk[r].small /\ b = disk[r].large /\ t = disk[r].small.time
      OBVIOUS
    <3>2. Stored(r, a, b)' /\ LaterToCome(r, t)'
      BY <2>1, <3>0, <3>1
    <3>3. Stored(r, disk[r].small, disk[r].large)'
      BY <3>1, <3>2 DEF Stored, Written
    <3>4. LaterToCome(r, disk[r].small.time)'
      BY <3>1, <3>2 DEF LaterToCome
    <3> QED BY <3>3, <3>4
  <2>3. ASSUME NEW d \in Data, ~Writing(Checksum(d))'
        PROVE  disk'[Checksum(d)] \in {None, [small |-> Empty, large |-> d]}
    <3>1. PICK k : k = Checksum(d)
      OBVIOUS
    <3>2. ~Writing(k)'
      BY <2>3, <3>1 DEF Writing
    <3>3. ~Writing(Checksum(d))
      BY <1>0, <3>1, <3>2
    <3> QED BY <3>3 DEF DiskSound
  <2> QED BY <2>2, <2>3 DEF DiskSound
<1>2. WriteLanded'
  <2> SUFFICES ASSUME NEW p \in Places', NEW op, op = OpAt(p)', HalfDone(op)
               PROVE  disk[op.key] = None \/ disk[op.key].small = op.small
    BY DEF WriteLanded, HalfDone
  <2>1. Reading(OpAt(p)')
    BY DEF HalfDone, Reading
  <2>2. PICK q \in Places : op = OpAt(q)
    BY <2>1 DEF Carried
  <2> QED BY <2>2 DEF WriteLanded
<1> QED BY <1>1, <1>2

-------------------------------------------------------------------------------
(* The steps *)

QueueType == [Keys -> Seq(OpType(Keys))]
LruType == [Keys -> {None} \cup [time : Calls, data : Data]]
DiskType == [Keys -> {None} \cup [small : {Empty} \cup StampType, large : Data \cup {Empty}]]

LEMMA FrontFacts ==
  ASSUME CodeCacheInv, NEW k \in Keys, queue[k] # <<>>
  PROVE  /\ <<k, 1>> \in Places /\ OpAt(<<k, 1>>) = front(k) /\ front(k) \in OpType(Keys)
         /\ front(k).key = k /\ Sound(front(k)) /\ HasWaiting(front(k).callback)
         /\ front(k).stage # "queued" => backendState = "initialized"
         /\ backendState # "initializing"
<1>1. PlacesForm /\ k # None
  BY PlacesFacts, KeysFacts DEF CodeCacheInv
<1>2. queue[k] \in Seq(OpType(Keys))
  BY DEF CodeCacheInv, Types
<1>3. Len(queue[k]) >= 1 /\ Len(queue[k]) \in Nat /\ front(k) = queue[k][1]
  BY <1>2, TailFacts DEF front
<1>4. <<k, 1>> \in Places /\ OpAt(<<k, 1>>) = front(k) /\ front(k) \in OpType(Keys)
  BY <1>1, <1>3 DEF PlacesForm
<1>5. /\ front(k).key = k /\ Sound(front(k))
      /\ front(k).stage # "queued" => backendState = "initialized"
      /\ backendState # "initializing"
  BY <1>1, <1>4 DEF CodeCacheInv, LinesInv, Stages, OpsSound
<1> QED BY <1>4, <1>5 DEF HasWaiting

LEMMA QueueTypes ==
  ASSUME Types, NEW k \in Keys, queue[k] # <<>>
  PROVE  /\ Dequeued(k) \in QueueType
         /\ \A op \in OpType(Keys) : Advance(k, op) => queue' \in QueueType
         /\ \A op \in OpType(Keys) : \A h \in Keys :
              h # k /\ HandsOver(k, h, op) => queue' \in QueueType
<1>1. queue \in QueueType /\ queue[k] \in Seq(OpType(Keys)) /\ Tail(queue[k]) \in Seq(OpType(Keys))
      /\ Len(queue[k]) \in Nat /\ Len(queue[k]) >= 1
  <2>1. queue \in QueueType /\ queue[k] \in Seq(OpType(Keys))
    BY DEF Types, QueueType
  <2> QED BY <2>1, TailFacts
<1>2. Dequeued(k) \in QueueType
  BY <1>1 DEF QueueType, Dequeued
<1>3. ASSUME NEW op \in OpType(Keys), Advance(k, op)
      PROVE  queue' \in QueueType
  <2>1. queue' = [queue EXCEPT ![k] = [queue[k] EXCEPT ![1] = op]]
    BY <1>3 DEF Advance
  <2>2. [queue[k] EXCEPT ![1] = op] \in Seq(OpType(Keys))
    BY <1>1, ExceptSeq
  <2> QED BY <1>1, <2>1, <2>2 DEF QueueType
<1>4. ASSUME NEW op \in OpType(Keys), NEW h \in Keys, h # k, HandsOver(k, h, op)
      PROVE  queue' \in QueueType
  <2>1. Append(Dequeued(k)[h], op) \in Seq(OpType(Keys))
    BY <1>2, AppendProperties DEF QueueType
  <2> QED BY <1>2, <1>4, <2>1 DEF HandsOver, QueueType
<1> QED BY <1>2, <1>3, <1>4

\* Only the front of k leaves, and if it was at work on its entry that is gone.
LEMMA DequeueWriting ==
  ASSUME CodeCacheInv, Types', NEW k \in Keys, queue[k] # <<>>,
         \A l \in Keys : l # k => FrontStays(l),
         front(k).type \in Writes /\ Reading(front(k)) => disk'[k] = None
  PROVE  \A l \in Keys : Writing(l) /\ disk'[l] # None => Writing(l)'
<1>1. OpAt(<<k, 1>>) = front(k)
  BY FrontFacts
<1>2. Writing(k) => disk'[k] = None
  BY <1>1 DEF Writing
<1>3. ASSUME NEW l \in Keys, l # k, Writing(l)
      PROVE  Writing(l)'
  BY <1>3, WritingStays DEF CodeCacheInv
<1> QED BY <1>2, <1>3

LEMMA DequeuedFronts ==
  ASSUME Types, NEW k \in Keys, queue' = Dequeued(k)
  PROVE  \A l \in Keys : l # k => FrontStays(l)
  BY DEF Types, Dequeued, FrontStays

LEMMA RunTypes ==
  ASSUME Types, NEW op, NEW time \in 0 .. MaxRequests, NEW data \in Data \cup {Empty},
         data # Empty => time \in Calls, RunReadCallback(op, time, data)
  PROVE  lru' \in LruType /\ answers' \in [Calls -> Seq(AnswerType)]
<1>1. answers \in [Calls -> Seq(AnswerType)] /\ lru \in LruType
  BY DEF Types, LruType
<1>2. Stamped(time, data) \in AnswerType
  BY DEF Stamped, AnswerType
<1>3. answers' \in [Calls -> Seq(AnswerType)]
  BY <1>1, <1>2, AppendProperties DEF RunReadCallback, Answer
<1>4. data # Empty => Stamped(time, data) \in [time : Calls, data : Data]
  BY DEF Stamped
<1>5. lru' \in LruType
  BY <1>1, <1>4 DEF RunReadCallback, LruType
<1> QED BY <1>3, <1>5

\* An entry that is doomed, or that stays.
LEMMA DoomTypes ==
  ASSUME Types, NEW k \in Keys, disk' = disk \/ DoomEntry(k)
  PROVE  /\ disk' \in DiskType
         /\ \A l \in Keys : disk'[l] = disk[l] \/ disk'[l] = None
         /\ DoomEntry(k) => disk'[k] = None
  BY DEF Types, DiskType, DoomEntry

\* CloseOperationAndIssueNext of an operation with a callback.
LEMMA CloseAnswers ==
  ASSUME CodeCacheInv, UNCHANGED <<log, pendingOps, backendState, crashed>>,
         NEW k \in Keys, queue[k] # <<>>, queue' = Dequeued(k), front(k).type \in Fetches,
         disk' = disk \/ DoomEntry(k),
         NEW op, op.callback = front(k).callback,
         NEW time \in 0 .. MaxRequests, NEW data \in Data \cup {Empty},
         data # Empty => time \in Calls, RunReadCallback(op, time, data),
         FreshAnswer(front(k).callback, time, data)
  PROVE  CodeCacheInv'
<1>1. Types'
  BY QueueTypes, RunTypes, DoomTypes
     DEF CodeCacheInv, Types, QueueType, LruType, DiskType
<1>2. /\ LinesInv' /\ Carried
      /\ \A r \in Resources : \A m :
           ToCome(r, m) => \/ ToCome(r, m)'
                           \/ front(k).key = r /\ Changing(front(k)) /\ CallOf(front(k)) = m
      /\ \A c : c # 0 =>
           (HasWaiting(c)' <=> HasWaiting(c) /\ front(k).callback # c)
  BY <1>1, DequeueMoves DEF CodeCacheInv
<1>3. ~Changing(front(k)) /\ front(k).callback # 0 /\ HasWaiting(front(k).callback)
  <2>1. Sound(front(k)) /\ HasWaiting(front(k).callback)
    BY FrontFacts
  <2>2. \A c : IsCall(c, "fetch") => c # 0
    BY DEF IsCall, CodeCacheInv, Types
  <2> QED BY <2>1, <2>2 DEF Sound, SoundFetch, SoundMergedFetch, Fetches, Changing
<1>4. DiskSound' /\ WriteLanded'
  <2>1. \A l \in Keys : disk'[l] = disk[l] \/ disk'[l] = None
    BY DoomTypes DEF CodeCacheInv
  <2>2. front(k).type \notin Writes
    BY DEF Writes, Fetches
  <2>3. \A l \in Keys : Writing(l) /\ disk'[l] # None => Writing(l)'
    BY <1>1, <2>2, DequeueWriting, DequeuedFronts DEF CodeCacheInv
  <2> QED BY <1>2, <1>3, <2>1, <2>3, DiskStays DEF CodeCacheInv, LinesInv, Carried
<1>5. AnsweredOrWaiting' /\ AnswersFresh'
  BY <1>2, <1>3, Answered DEF CodeCacheInv, LinesInv, RunReadCallback
<1> QED BY <1>1, <1>2, <1>4, <1>5 DEF CodeCacheInv

\* CloseOperationAndIssueNext of an operation that has nothing on disk, or was not
\* begun.
LEMMA CloseSilently ==
  ASSUME CodeCacheInv, UNCHANGED <<log, pendingOps, backendState, lru, answers>>,
         crashed' \in BOOLEAN,
         NEW k \in Keys, queue[k] # <<>>, queue' = Dequeued(k),
         disk' = disk \/ DoomEntry(k), front(k).callback = 0,
         Changing(front(k)) \/ Reading(front(k)) => disk'[k] = None
  PROVE  CodeCacheInv'
<1>1. Types'
  BY QueueTypes, DoomTypes DEF CodeCacheInv, Types, QueueType, DiskType
<1>2. /\ LinesInv' /\ Carried
      /\ \A r \in Resources : \A m :
           ToCome(r, m) => \/ ToCome(r, m)'
                           \/ front(k).key = r /\ Changing(front(k)) /\ CallOf(front(k)) = m
      /\ \A c : c # 0 =>
           (HasWaiting(c)' <=> HasWaiting(c) /\ front(k).callback # c)
  BY <1>1, DequeueMoves DEF CodeCacheInv
<1>3. ASSUME NEW r \in Resources, NEW m, disk'[r] # None, ToCome(r, m)
      PROVE  ToCome(r, m)'
  <2>1. front(k).key = k
    BY FrontFacts
  <2> QED BY <1>2, <1>3, <2>1
<1>4. DiskSound' /\ WriteLanded'
  <2>1. \A l \in Keys : disk'[l] = disk[l] \/ disk'[l] = None
    BY DoomTypes DEF CodeCacheInv
  <2>2. \A l \in Keys : Writing(l) /\ disk'[l] # None => Writing(l)'
    BY <1>1, DequeueWriting, DequeuedFronts DEF CodeCacheInv
  <2> QED BY <1>2, <1>3, <2>1, <2>2, DiskStays DEF CodeCacheInv, LinesInv, Carried
<1>5. 0 \notin Calls
  BY CodeCacheAssumption DEF Calls
<1>6. AnsweredOrWaiting' /\ AnswersFresh'
  BY <1>2, <1>5, AnswersSame DEF CodeCacheInv
<1> QED BY <1>1, <1>2, <1>4, <1>6 DEF CodeCacheInv

\* WriteComplete of a write both streams of which are on disk, unless the entry was
\* evicted: what was asked later is to come.
LEMMA CloseWritten ==
  ASSUME CodeCacheInv, UNCHANGED <<log, pendingOps, backendState, lru, answers, crashed>>,
         NEW k \in Keys, queue[k] # <<>>, queue' = Dequeued(k),
         front(k).type \in Writes, Reading(front(k)), disk' \in DiskType,
         \A l \in Keys : l # k => disk'[l] = disk[l],
         disk'[k] \in {None, [small |-> front(k).small, large |-> front(k).large]}
  PROVE  CodeCacheInv'
<1>1. Types'
  BY QueueTypes DEF CodeCacheInv, Types, QueueType, DiskType
<1>2. /\ LinesInv' /\ Carried
      /\ \A r \in Resources : \A m :
           ToCome(r, m) => \/ ToCome(r, m)'
                           \/ front(k).key = r /\ Changing(front(k)) /\ CallOf(front(k)) = m
      /\ \A c : c # 0 =>
           (HasWaiting(c)' <=> HasWaiting(c) /\ front(k).callback # c)
  BY <1>1, DequeueMoves DEF CodeCacheInv
<1>3. /\ <<k, 1>> \in Places /\ OpAt(<<k, 1>>) = front(k) /\ front(k) \in OpType(Keys)
      /\ front(k).key = k /\ Sound(front(k)) /\ backendState = "initialized"
      /\ front(k).callback = 0 /\ k # None
  BY FrontFacts, KeysFacts DEF Writes, Sound, SoundWrite, SoundMergedWrite, Reading
<1>4. ASSUME NEW l \in Keys, l # k, Writing(l)
      PROVE  Writing(l)'
  BY <1>1, <1>4, WritingStays, DequeuedFronts DEF CodeCacheInv
<1>5. DiskSound'
  <2>1. ASSUME NEW r \in Resources, disk'[r] # None, ~Writing(r)'
        PROVE  \A a, b, t : a = disk'[r].small /\ b = disk'[r].large /\ t = disk'[r].small.time =>
                 Stored(r, a, b) /\ LaterToCome(r, t)'
    <3>1. ASSUME NEW t, LaterToCome(r, t), r = k => t = CallOf(front(k)) /\ t \in Nat
          PROVE  LaterToCome(r, t)'
      <4> SUFFICES ASSUME NEW m \in Changes(r), m > t
                   PROVE  ToCome(r, m)'
        BY DEF LaterToCome, Changes
      <4>1. ToCome(r, m) /\ m \in Nat
        <5>1. DOMAIN log = 1 .. Len(log) /\ Len(log) \in Nat
          BY DEF CodeCacheInv, Types
        <5> QED BY <3>1, <5>1 DEF LaterToCome, Changes
      <4>2. CASE r = k
        BY <1>2, <3>1, <4>1, <4>2
      <4>3. CASE r # k
        BY <1>2, <1>3, <4>1, <4>3
      <4> QED BY <4>2, <4>3
    <3>2. CASE r = k
      <4>1. front(k).type = "write" /\ SoundWrite(front(k))
        BY <1>3, <3>2, KeysFacts DEF Writes, Sound, SoundMergedWrite
      <4>2. Stored(k, front(k).small, front(k).large)
        BY <1>3, <4>1 DEF SoundWrite
      <4>3. LaterToCome(k, CallOf(front(k)))
        BY <1>3, <3>2 DEF CodeCacheInv, LinesInv, NothingOvertakes
      <4>4. CallOf(front(k)) = front(k).small.time /\ front(k).small.time \in Nat
        BY <4>1, <4>2, StoredTime DEF CallOf, CodeCacheInv
      <4>5. disk'[r].small = front(k).small /\ disk'[r].large = front(k).large
        BY <2>1, <3>2
      <4>6. ASSUME NEW t, t = disk'[r].small.time
            PROVE  LaterToCome(r, t)'
        <5>1. t = CallOf(front(k)) /\ t \in Nat
          BY <4>4, <4>5, <4>6
        <5>2. LaterToCome(r, t)
          BY <3>2, <4>3, <5>1
        <5> QED BY <3>1, <5>1, <5>2
      <4> QED BY <3>2, <4>2, <4>5, <4>6
    <3>3. CASE r # k
      <4>1. disk'[r] = disk[r] /\ ~Writing(r)
        BY <1>4, <2>1, <3>3, KeysFacts
      <4>2. Stored(r, disk[r].small, disk[r].large) /\ LaterToCome(r, disk[r].small.time)
        BY <2>1, <4>1 DEF CodeCacheInv, DiskSound
      <4>3. PICK t : t = disk[r].small.time
        OBVIOUS
      <4>4. LaterToCome(r, t)'
        BY <3>1, <3>3, <4>2, <4>3
      <4> QED BY <4>1, <4>2, <4>3, <4>4
    <3> QED BY <3>2, <3>3
  <2>2. ASSUME NEW r \in Resources, disk'[r] # None, ~Writing(r)'
        PROVE  Stored(r, disk[r].small, disk[r].large)' /\ LaterToCome(r, disk[r].small.time)'
    <3>1. PICK a, b, t : a = disk'[r].small /\ b = disk'[r].large /\ t = disk'[r].small.time
      OBVIOUS
    <3>2. Stored(r, a, b) /\ LaterToCome(r, t)'
      BY <2>1, <2>2, <3>1
    <3>3. Stored(r, disk[r].small, disk[r].large)'
      BY <3>1, <3>2 DEF Stored, Written
    <3>4. LaterToCome(r, disk[r].small.time)'
      BY <3>1, <3>2 DEF LaterToCome
    <3> QED BY <3>3, <3>4
  <2>3. ASSUME NEW d \in Data, ~Writing(Checksum(d))'
        PROVE  disk'[Checksum(d)] \in {None, [small |-> Empty, large |-> d]}
    <3>1. CASE Checksum(d) = k
      <4>1. PICK e \in Data : k = Checksum(e) /\ front(k).small = Empty /\ front(k).large = e
        BY <1>3, <3>1, KeysFacts DEF Writes, Sound, SoundWrite, SoundMergedWrite
      <4>2. e = d
        BY <3>1, <4>1, CodeCacheAssumption
      <4> QED BY <3>1, <4>1, <4>2
    <3>2. CASE Checksum(d) # k
      <4>1. PICK l \in Keys : l = Checksum(d)
        BY KeysFacts
      <4>2. ~Writing(l)
        BY <1>4, <2>3, <3>2, <4>1 DEF Writing
      <4>3. ~Writing(Checksum(d))
        BY <4>1, <4>2
      <4> QED BY <3>2, <4>1, <4>3 DEF CodeCacheInv, DiskSound
    <3> QED BY <3>1, <3>2
  <2> QED BY <1>3, <2>2, <2>3 DEF DiskSound
<1>6. WriteLanded'
  <2> SUFFICES ASSUME NEW p \in Places', NEW op, op = OpAt(p)', HalfDone(op)
               PROVE  disk'[op.key] = None \/ disk'[op.key].small = op.small
    BY DEF WriteLanded, HalfDone
  <2>1. Reading(OpAt(p)')
    BY DEF HalfDone, Reading
  <2>2. PICK q \in Places : op = OpAt(q)
    BY <1>2, <2>1 DEF Carried
  <2>3. CASE op.key = k
    <3>1. PlacesForm
      BY PlacesFacts DEF CodeCacheInv
    <3>2. q[1] = k /\ q[2] = 1
      BY <2>1, <2>2, <2>3 DEF CodeCacheInv, LinesInv, Stages, Reading
    <3>3. q = <<k, 1>>
      BY <2>2, <3>1, <3>2 DEF PlacesForm
    <3> QED BY <1>3, <2>2, <2>3, <3>3
  <2>4. CASE op.key # k
    <3>1. op.key \in Keys
      BY <2>2, KeysFacts
         DEF HalfDone, Writes, CodeCacheInv, LinesInv, OpsSound, Sound, SoundWrite, SoundMergedWrite
    <3> QED BY <2>2, <2>4, <3>1 DEF CodeCacheInv, WriteLanded
  <2> QED BY <2>3, <2>4
<1>7. AnsweredOrWaiting' /\ AnswersFresh'
  <2>1. 0 \notin Calls
    BY CodeCacheAssumption DEF Calls
  <2> QED BY <1>2, <1>3, <2>1, AnswersSame DEF CodeCacheInv
<1> QED BY <1>1, <1>2, <1>5, <1>6, <1>7 DEF CodeCacheInv

\* The front comes further, and only its own entry changes, under a write.
LEMMA AdvanceKeeps ==
  ASSUME CodeCacheInv, UNCHANGED <<log, pendingOps, backendState, lru, answers, crashed>>,
         backendState = "initialized", disk' \in DiskType,
         NEW k \in Keys, queue[k] # <<>>, NEW op \in OpType(Keys), Advance(k, op),
         Alike(op, front(k)), Sound(op), Reading(op) => Lands(op),
         Reading(front(k)) => Reading(op),
         \A l \in Keys : disk'[l] # disk[l] => l = k /\ op.type \in Writes /\ Reading(op)
  PROVE  CodeCacheInv'
<1>1. Types'
  BY QueueTypes DEF CodeCacheInv, Types, QueueType, DiskType
<1>2. /\ LinesInv'
      /\ \A p \in Places' : OpAt(p)' = op \/ (p \in Places /\ OpAt(p)' = OpAt(p))
      /\ \A r \in Resources : \A m : ToCome(r, m) => ToCome(r, m)'
      /\ \A c : HasWaiting(c)' <=> HasWaiting(c)
  BY <1>1, AdvanceMoves DEF CodeCacheInv
<1>3. /\ OpAt(<<k, 1>>) = front(k) /\ front(k).key = k /\ PlacesForm /\ PlacesForm' /\ k # None
      /\ op.key = k /\ op.type = front(k).type
  BY <1>1, FrontFacts, PlacesFacts, PlacesFactsNext, KeysFacts DEF CodeCacheInv, Alike
<1>4. /\ <<k, 1>> \in Places' /\ OpAt(<<k, 1>>)' = op
      /\ \A l \in Keys : l # k => queue'[l] = queue[l]
  <2>1. /\ queue[k] \in Seq(OpType(Keys)) /\ queue'[k] = [queue[k] EXCEPT ![1] = op]
        /\ \A l \in Keys : l # k => queue'[l] = queue[l]
    BY DEF CodeCacheInv, Types, Advance
  <2>2. Len(queue'[k]) \in Nat /\ Len(queue'[k]) >= 1 /\ queue'[k][1] = op
    BY <2>1, TailFacts, ExceptSeq
  <2> QED BY <1>3, <2>1, <2>2 DEF PlacesForm
<1>5. op.type \in Writes /\ Reading(op) => Writing(k)'
  BY <1>4 DEF Writing, Reading
<1>6. DiskSound' /\ WriteLanded'
  <2>1. ASSUME NEW l \in Keys, Writing(l)
        PROVE  Writing(l)'
    <3>1. CASE l = k
      BY <1>3, <1>5, <2>1, <3>1 DEF Writing
    <3>2. CASE l # k
      BY <1>1, <1>4, <2>1, <3>2, WritingStays DEF FrontStays, CodeCacheInv
    <3> QED BY <3>1, <3>2
  <2>2. \A l \in Keys : disk'[l] = disk[l] \/ disk'[l] = None
                        \/ (Writing(l)' /\ backendState = "initialized")
    <3>1. ASSUME NEW l \in Keys, disk'[l] # disk[l]
          PROVE  Writing(l)'
      <4>1. l = k /\ op.type \in Writes /\ Reading(op)
        BY <3>1
      <4>2. Writing(k)'
        BY <1>5, <4>1
      <4> QED BY <4>1, <4>2
    <3> QED BY <3>1
  <2>3. ASSUME NEW p \in Places', Reading(OpAt(p)')
        PROVE  \/ Lands(OpAt(p)')
               \/ \E q \in Places : OpAt(p)' = OpAt(q) /\ disk'[OpAt(q).key] \in {None, disk[OpAt(q).key]}
    <3>1. CASE OpAt(p)' = op
      <4>1. Reading(op)
        BY <2>3, <3>1 DEF Reading
      <4> QED BY <3>1, <4>1
    <3>2. CASE OpAt(p)' # op
      <4>1. p \in Places /\ OpAt(p)' = OpAt(p)
        BY <1>2, <3>2
      <4>2. CASE OpAt(p).key \in Keys /\ OpAt(p).key # k
        BY <4>1, <4>2
      <4>3. CASE OpAt(p).key \notin Keys
        <5>1. Sound(OpAt(p))
          BY <4>1 DEF CodeCacheInv, LinesInv, OpsSound
        <5>2. OpAt(p).type \notin Writes
          BY <4>3, <5>1, KeysFacts DEF Writes, Sound, SoundWrite, SoundMergedWrite
        <5> QED BY <4>1, <5>2 DEF Lands, HalfDone
      <4>4. CASE OpAt(p).key = k
        <5>1. p[1] = k /\ p[2] = 1
          BY <2>3, <4>1, <4>4 DEF CodeCacheInv, LinesInv, Stages, Reading
        <5>2. p = <<k, 1>>
          BY <1>3, <4>1, <5>1 DEF PlacesForm
        <5> QED BY <1>4, <3>2, <5>2
      <4> QED BY <4>2, <4>3, <4>4
    <3> QED BY <3>1, <3>2
  <2> QED BY <1>2, <2>1, <2>2, <2>3, DiskChanges DEF CodeCacheInv, LinesInv
<1>7. AnsweredOrWaiting' /\ AnswersFresh'
  BY <1>2, AnswersSame DEF CodeCacheInv
<1> QED BY <1>1, <1>2, <1>6, <1>7 DEF CodeCacheInv

\* A fetch waits on, on the queue of the checksum it found.
LEMMA HandOverKeeps ==
  ASSUME CodeCacheInv, UNCHANGED <<log, pendingOps, backendState, lru, answers, disk, crashed>>,
         NEW k \in Keys, queue[k] # <<>>, front(k).type = "fetch",
         NEW h \in Checksums, NEW op \in OpType(Keys), HandsOver(k, h, op), Sound(op)
  PROVE  CodeCacheInv'
<1>1. h \in Keys /\ h \notin Resources /\ h # k
  <2>1. k \in Resources
    BY FrontFacts DEF Sound, SoundFetch
  <2> QED BY <2>1, KeysFacts
<1>2. Types'
  BY <1>1, QueueTypes DEF CodeCacheInv, Types, QueueType
<1>3. /\ LinesInv' /\ Carried
      /\ \A r \in Resources : \A m :
           ToCome(r, m) => \/ ToCome(r, m)'
                           \/ front(k).key = r /\ Changing(front(k)) /\ CallOf(front(k)) = m
      /\ \A c : HasWaiting(c)' <=> HasWaiting(c)
  BY <1>1, <1>2, FetchMoves DEF CodeCacheInv
<1>4. DiskSound' /\ WriteLanded'
  <2>1. ~Changing(front(k)) /\ front(k).type \notin Writes
    BY DEF Changing, Writes
  <2>2. ASSUME NEW l \in Keys, l # k
        PROVE  FrontStays(l)
    <3>1. queue[h] \in Seq(OpType(Keys)) /\ queue' = [queue EXCEPT ![k] = Tail(@), ![h] = Append(@, op)]
      BY <1>1 DEF CodeCacheInv, Types, HandsOver, Dequeued
    <3>2. /\ l # h => queue'[l] = queue[l]
          /\ l = h => queue'[l] = Append(queue[l], op)
      BY <1>1, <2>2, <3>1 DEF CodeCacheInv, Types
    <3>3. CASE l # h
      BY <3>2, <3>3 DEF FrontStays
    <3>4. CASE l = h
      <4>1. \A i \in 1 .. Len(queue[h]) : Append(queue[h], op)[i] = queue[h][i]
            /\ Len(queue[h]) \in Nat /\ Len(Append(queue[h], op)) = Len(queue[h]) + 1
        BY <3>1, AppendFacts
      <4> QED BY <3>2, <3>4, <4>1 DEF FrontStays
    <3> QED BY <3>3, <3>4
  <2>3. \A l \in Keys : Writing(l) /\ disk'[l] # None => Writing(l)'
    BY <1>2, <2>1, <2>2, DequeueWriting
  <2> QED BY <1>3, <2>1, <2>3, DiskStays DEF CodeCacheInv, LinesInv, Carried
<1>5. AnsweredOrWaiting' /\ AnswersFresh'
  BY <1>3, AnswersSame DEF CodeCacheInv
<1> QED BY <1>2, <1>3, <1>4, <1>5 DEF CodeCacheInv

\* Steps that leave the operations alone; entries may leave the disk.
LEMMA StillKeeps ==
  ASSUME CodeCacheInv, UNCHANGED <<backendState, pendingOps, queue, log, answers>>,
         lru' \in LruType, crashed' \in BOOLEAN, disk' \in DiskType,
         \A k \in Keys : disk'[k] = disk[k] \/ disk'[k] = None
  PROVE  CodeCacheInv'
<1>1. Types'
  BY DEF CodeCacheInv, Types, LruType, DiskType
<1>2. Places' = Places /\ \A p : OpAt(p)' = OpAt(p)
  BY DEF Places, OpAt
<1>3. LinesInv'
  <2> USE DEF CodeCacheInv, LinesInv
  <2>1. Stages'
    BY DEF Stages, Places, OpAt
  <2>2. OpsSound'
    <3>1. \A p \in Places' : Sound(OpAt(p)')
      BY <1>2 DEF OpsSound
    <3> QED BY <3>1, OpsSoundKept
  <2>3. InOrder' /\ CallbacksDistinct'
    BY DEF InOrder, CallbacksDistinct, Places, OpAt
  <2>4. NothingOvertakes'
    BY DEF NothingOvertakes, LaterToCome, ToCome, Changes, Places, OpAt
  <2> QED BY <2>1, <2>2, <2>3, <2>4
<1>4. DiskSound' /\ WriteLanded'
  <2>1. \A r \in Resources : \A m : ToCome(r, m) => ToCome(r, m)'
    BY DEF ToCome, Places, OpAt
  <2>2. \A k \in Keys : Writing(k) => Writing(k)'
    BY DEF Writing, Reading, Places, OpAt
  <2> QED BY <1>2, <2>1, <2>2, DiskStays DEF CodeCacheInv, LinesInv
<1>5. AnsweredOrWaiting' /\ AnswersFresh'
  <2>1. \A c \in Calls : HasWaiting(c)' <=> HasWaiting(c)
    BY DEF HasWaiting, Places, OpAt
  <2> QED BY <2>1, AnswersSame DEF CodeCacheInv
<1> QED BY <1>1, <1>3, <1>4, <1>5 DEF CodeCacheInv

LEMMA OpenKeeps ==
  ASSUME CodeCacheInv, UNCHANGED <<log, pendingOps, backendState, disk, crashed>>,
         backendState = "initialized", NEW k \in Keys, queue[k] # <<>>, ~Reading(front(k)), Open(k)
  PROVE  CodeCacheInv'
<1>1. PICK op : op = [front(k) EXCEPT !.stage = "opening"]
  OBVIOUS
<1>2. front(k) \in OpType(Keys) /\ Sound(front(k))
  BY FrontFacts
<1>3. /\ op \in OpType(Keys) /\ op.type = front(k).type /\ op.key = front(k).key
      /\ op.callback = front(k).callback /\ op.time = front(k).time
      /\ op.small = front(k).small /\ op.large = front(k).large /\ op.stage = "opening"
  BY <1>1, <1>2 DEF OpType
<1>4. Alike(op, front(k)) /\ ~Reading(op)
  BY <1>3 DEF Alike, CallOf, Reading
<1>5. Sound(op)
  BY <1>2, <1>3, <1>4 DEF Sound, SoundWrite, SoundMergedWrite, SoundFetch, SoundMergedFetch,
                          SoundDelete, SoundGetBackend
<1>6. disk' \in DiskType
  BY DEF CodeCacheInv, Types, DiskType
<1> QED BY <1>1, <1>3, <1>4, <1>5, <1>6, AdvanceKeeps DEF Open, Lands, HalfDone, Reading

LEMMA FetchEntryImplInv ==
  ASSUME CodeCacheInv, NEW k \in Keys, FetchEntryImpl(k)
  PROVE  CodeCacheInv'
<1>1. /\ queue[k] # <<>> /\ front(k).type \in Fetches /\ ~Reading(front(k))
      /\ UNCHANGED <<backendState, pendingOps, disk, crashed, log>>
  BY DEF FetchEntryImpl, Queued, Fetches, Reading
<1>2. CASE InMemoryCodeCache /\ lru[k] # None
  <2>1. PICK time, data : time = lru[k].time /\ data = lru[k].data
    OBVIOUS
  <2>2. lru[k] \in [time : Calls, data : Data]
    BY <1>2 DEF CodeCacheInv, Types
  <2>3. time \in Calls /\ time \in 0 .. MaxRequests /\ data \in Data
    BY <2>1, <2>2, CodeCacheAssumption DEF Calls
  <2>4. RunReadCallback(front(k), time, data) /\ queue' = Dequeued(k)
    BY <1>2, <2>1 DEF FetchEntryImpl
  <2>5. FreshAnswer(front(k).callback, time, data)
    BY <1>2 DEF FreshAnswer
  <2> QED BY <1>1, <2>3, <2>4, <2>5, CloseAnswers
<1>3. CASE ~(InMemoryCodeCache /\ lru[k] # None) /\ backendState # "initialized"
  <2>1. RunReadCallback(front(k), 0, Empty) /\ queue' = Dequeued(k)
    BY <1>3 DEF FetchEntryImpl, Miss
  <2>2. 0 \in 0 .. MaxRequests
    BY CodeCacheAssumption
  <2> QED BY <1>1, <2>1, <2>2, CloseAnswers DEF FreshAnswer
<1>4. CASE ~(InMemoryCodeCache /\ lru[k] # None) /\ backendState = "initialized"
  BY <1>1, <1>4, OpenKeeps DEF FetchEntryImpl
<1> QED BY <1>2, <1>3, <1>4

LEMMA WriteEntryImplInv ==
  ASSUME CodeCacheInv, NEW k \in Keys, WriteEntryImpl(k)
  PROVE  CodeCacheInv'
<1>1. /\ queue[k] # <<>> /\ front(k).type \in Writes /\ ~Reading(front(k))
      /\ UNCHANGED <<backendState, pendingOps, disk, crashed, log>>
  BY DEF WriteEntryImpl, Queued, Writes, Reading
<1>2. CASE backendState # "initialized"
  <2>1. disk'[k] = None /\ crashed' \in BOOLEAN
    BY <1>1, <1>2 DEF CodeCacheInv, DiskSound, Types
  <2>2. front(k).callback = 0
    BY <1>1, FrontFacts DEF Writes, Sound, SoundWrite, SoundMergedWrite
  <2> QED BY <1>1, <1>2, <2>1, <2>2, CloseSilently DEF WriteEntryImpl
<1>3. CASE backendState = "initialized"
  BY <1>1, <1>3, OpenKeeps DEF WriteEntryImpl
<1> QED BY <1>2, <1>3

LEMMA DeleteEntryImplInv ==
  ASSUME CodeCacheInv, NEW k \in Keys, DeleteEntryImpl(k)
  PROVE  CodeCacheInv'
<1>1. /\ queue[k] # <<>> /\ front(k).type = "delete"
      /\ UNCHANGED <<backendState, pendingOps, lru, log, answers>>
  BY DEF DeleteEntryImpl, Queued
<1>2. CASE backendState # "initialized"
  <2>1. UNCHANGED <<queue, disk>> /\ crashed' \in BOOLEAN
    BY <1>2 DEF DeleteEntryImpl
  <2> QED BY <1>1, <2>1, StillKeeps DEF CodeCacheInv, Types, LruType, DiskType
<1>3. CASE backendState = "initialized"
  <2>1. DoomEntry(k) /\ queue' = Dequeued(k) /\ crashed' = crashed
    BY <1>3 DEF DeleteEntryImpl
  <2>2. disk'[k] = None /\ crashed' \in BOOLEAN
    BY <2>1, DoomTypes DEF CodeCacheInv, Types
  <2>3. front(k).callback = 0
    BY <1>1, FrontFacts DEF Sound, SoundDelete
  <2> QED BY <1>1, <2>1, <2>2, <2>3, CloseSilently
<1> QED BY <1>2, <1>3

LEMMA OpenFailedForWriteInv ==
  ASSUME CodeCacheInv, NEW k \in Keys, OpenFailedForWrite(k)
  PROVE  CodeCacheInv'
<1>1. /\ queue[k] # <<>> /\ front(k).type \in Writes /\ DoomEntry(k) /\ queue' = Dequeued(k)
      /\ UNCHANGED <<backendState, pendingOps, lru, crashed, log, answers>>
  BY DEF OpenFailedForWrite, At
<1>2. disk'[k] = None /\ crashed' \in BOOLEAN
  BY <1>1, DoomTypes DEF CodeCacheInv, Types
<1>3. front(k).callback = 0
  BY <1>1, FrontFacts DEF Writes, Sound, SoundWrite, SoundMergedWrite
<1> QED BY <1>1, <1>2, <1>3, CloseSilently

\* Only merged data that is there already is not written again: data of some size.
LEMMA OpenCompleteForWriteInv ==
  ASSUME CodeCacheInv, NEW k \in Keys, OpenCompleteForWrite(k)
  PROVE  CodeCacheInv'
<1>1. /\ queue[k] # <<>> /\ front(k).type \in Writes /\ front(k).stage = "opening"
      /\ UNCHANGED <<backendState, pendingOps, lru, crashed, log, answers>>
  BY DEF OpenCompleteForWrite, At
<1>2. /\ front(k) \in OpType(Keys) /\ front(k).key = k /\ Sound(front(k))
      /\ backendState = "initialized" /\ front(k).callback = 0
  BY <1>1, FrontFacts DEF Writes, Sound, SoundWrite, SoundMergedWrite
<1>3. PICK entry : entry = IF disk[k] = None THEN [small |-> Empty, large |-> Empty] ELSE disk[k]
  OBVIOUS
<1>4. PICK op : op = [front(k) EXCEPT !.stage = "small"]
  OBVIOUS
<1>5. /\ disk' = [disk EXCEPT ![k] = entry]
      /\ \/ /\ front(k).type = "writeWithSHAKey" /\ entry.small = Empty
            /\ Size(entry.large) = Size(front(k).large) /\ queue' = Dequeued(k)
         \/ Advance(k, op)
  BY <1>3, <1>4 DEF OpenCompleteForWrite
<1>6. disk \in DiskType /\ disk' \in DiskType /\ \A l \in Keys : l # k => disk'[l] = disk[l]
  <2>1. disk \in DiskType
    BY DEF CodeCacheInv, Types, DiskType
  <2>2. entry \in {None} \cup [small : {Empty} \cup StampType, large : Data \cup {Empty}]
    BY <1>3, <2>1 DEF DiskType
  <2> QED BY <1>5, <2>1, <2>2 DEF DiskType
<1>7. CASE front(k).type = "writeWithSHAKey" /\ entry.small = Empty
           /\ Size(entry.large) = Size(front(k).large) /\ queue' = Dequeued(k)
  <2>1. PICK d \in Data : front(k).large = d /\ Layout(d) = "indirect"
    BY <1>2, <1>7 DEF Sound, SoundMergedWrite
  <2>2. Size(entry.large) > 0
    BY <1>7, <2>1, LayoutFacts
  <2>3. disk[k] # None
    BY <1>3, <2>2, CodeCacheAssumption
  <2>4. disk' = disk
    BY <1>3, <1>5, <1>6, <2>3 DEF DiskType
  <2>5. ~Changing(front(k)) /\ ~Reading(front(k)) /\ crashed' \in BOOLEAN
    BY <1>1, <1>7 DEF Changing, Reading, CodeCacheInv, Types
  <2> QED BY <1>1, <1>2, <1>7, <2>4, <2>5, CloseSilently
<1>8. CASE Advance(k, op)
  <2>1. /\ op \in OpType(Keys) /\ op.type = front(k).type /\ op.key = k
        /\ op.callback = front(k).callback /\ op.time = front(k).time
        /\ op.small = front(k).small /\ op.large = front(k).large /\ op.stage = "small"
    BY <1>2, <1>4 DEF OpType
  <2>2. Alike(op, front(k)) /\ Sound(op)
    BY <1>1, <1>2, <2>1 DEF Alike, CallOf, Writes, Sound, SoundWrite, SoundMergedWrite
  <2>3. Lands(op) /\ Reading(op) /\ op.type \in Writes
    BY <1>1, <2>1 DEF Lands, HalfDone, Reading
  <2> QED BY <1>1, <1>2, <1>6, <1>8, <2>1, <2>2, <2>3, AdvanceKeeps
<1> QED BY <1>5, <1>7, <1>8

\* A write of a stream changes that stream of that entry, if it is there.
LEMMA WriteDataFacts ==
  ASSUME disk \in DiskType, NEW k \in Keys, NEW stream \in {"small", "large"}, NEW data,
         NEW succeeded \in BOOLEAN, WriteData(k, stream, data, succeeded),
         stream = "small" => data \in {Empty} \cup StampType,
         stream = "large" => data \in Data \cup {Empty}
  PROVE  /\ disk' \in DiskType /\ \A l \in Keys : l # k => disk'[l] = disk[l]
         /\ disk[k] = None => disk'[k] = None
         /\ disk[k] # None /\ stream = "small" => (succeeded => disk'[k].small = data)
         /\ disk[k] # None /\ stream = "large" =>
              disk'[k].small = disk[k].small /\ (succeeded => disk'[k].large = data)
<1>1. CASE disk[k] = None
  BY <1>1 DEF WriteData
<1>2. CASE disk[k] # None
  <2>1. PICK stored \in {data} \cup IF succeeded THEN {} ELSE {disk[k][stream], Empty} :
          disk' = [disk EXCEPT ![k] = [disk[k] EXCEPT ![stream] = stored]]
    BY <1>2 DEF WriteData
  <2>2. disk[k] \in [small : {Empty} \cup StampType, large : Data \cup {Empty}]
    BY <1>2 DEF DiskType
  <2>3. succeeded => stored = data
    BY <2>1
  <2>4. CASE stream = "small"
    <3>1. stored \in {Empty} \cup StampType
      BY <2>1, <2>2, <2>4
    <3>2. [disk[k] EXCEPT ![stream] = stored] = [small |-> stored, large |-> disk[k].large]
      BY <2>2, <2>4
    <3>3. disk' = [disk EXCEPT ![k] = [small |-> stored, large |-> disk[k].large]]
      BY <2>1, <3>2
    <3>4. [small |-> stored, large |-> disk[k].large]
             \in [small : {Empty} \cup StampType, large : Data \cup {Empty}]
      BY <2>2, <3>1
    <3> QED BY <1>2, <2>3, <2>4, <3>3, <3>4 DEF DiskType
  <2>5. CASE stream = "large"
    <3>1. stored \in Data \cup {Empty}
      BY <2>1, <2>2, <2>5
    <3>2. [disk[k] EXCEPT ![stream] = stored] = [small |-> disk[k].small, large |-> stored]
      BY <2>2, <2>5
    <3>3. disk' = [disk EXCEPT ![k] = [small |-> disk[k].small, large |-> stored]]
      BY <2>1, <3>2
    <3>4. [small |-> disk[k].small, large |-> stored]
             \in [small : {Empty} \cup StampType, large : Data \cup {Empty}]
      BY <2>2, <3>1
    <3> QED BY <1>2, <2>3, <2>5, <3>3, <3>4 DEF DiskType
  <2> QED BY <2>4, <2>5
<1> QED BY <1>1, <1>2

\* The second of two writes that did not fail leaves what was asked for; after a failure
\* the entry goes.
LEMMA WriteBufferCompleteInv ==
  ASSUME CodeCacheInv, NEW k \in Keys, NEW succeeded \in BOOLEAN,
         WriteBufferComplete(k, succeeded)
  PROVE  CodeCacheInv'
<1>1. /\ queue[k] # <<>> /\ front(k).type \in Writes /\ Reading(front(k))
      /\ UNCHANGED <<backendState, pendingOps, lru, crashed, log, answers>>
  BY DEF WriteBufferComplete, At, Reading
<1>2. /\ front(k) \in OpType(Keys) /\ front(k).key = k /\ Sound(front(k))
      /\ backendState = "initialized" /\ front(k).callback = 0
      /\ <<k, 1>> \in Places /\ OpAt(<<k, 1>>) = front(k) /\ disk \in DiskType
  BY <1>1, FrontFacts
     DEF Writes, Sound, SoundWrite, SoundMergedWrite, Reading, CodeCacheInv, Types, DiskType
<1>3. /\ front(k).small \in {Empty} \cup StampType /\ front(k).large \in Data \cup {Empty}
      /\ front(k).succeeded \in BOOLEAN
  BY <1>2 DEF OpType
<1>4. PICK op : op = [front(k) EXCEPT !.succeeded = @ /\ succeeded]
  OBVIOUS
<1>5. /\ op \in OpType(Keys) /\ op.type = front(k).type /\ op.key = k
      /\ op.callback = front(k).callback /\ op.time = front(k).time
      /\ op.small = front(k).small /\ op.large = front(k).large
      /\ op.succeeded = (front(k).succeeded /\ succeeded)
  BY <1>2, <1>3, <1>4 DEF OpType
<1>6. CASE front(k).stage = "small"
  <2>1. PICK new : new = [op EXCEPT !.stage = "large"]
    OBVIOUS
  <2>2. WriteData(k, "small", front(k).small, succeeded) /\ Advance(k, new)
    BY <1>4, <1>5, <1>6, <2>1 DEF WriteBufferComplete, At
  <2>3. /\ new \in OpType(Keys) /\ new.type = front(k).type /\ new.key = k
        /\ new.callback = front(k).callback /\ new.time = front(k).time
        /\ new.small = front(k).small /\ new.large = front(k).large
        /\ new.stage = "large" /\ new.succeeded = op.succeeded
    BY <1>5, <2>1 DEF OpType
  <2>4. Alike(new, front(k)) /\ Sound(new)
    BY <1>1, <1>2, <2>3 DEF Alike, CallOf, Writes, Sound, SoundWrite, SoundMergedWrite
  <2>5. /\ disk' \in DiskType /\ \A l \in Keys : l # k => disk'[l] = disk[l]
        /\ disk[k] = None => disk'[k] = None
        /\ disk[k] # None => (succeeded => disk'[k].small = front(k).small)
    BY <1>2, <1>3, <2>2, WriteDataFacts
  <2>6. Lands(new) /\ Reading(new) /\ new.type \in Writes
    BY <1>1, <1>5, <2>3, <2>5 DEF Lands, HalfDone, Reading
  <2> QED BY <1>1, <1>2, <2>2, <2>3, <2>4, <2>5, <2>6, AdvanceKeeps
<1>7. CASE front(k).stage = "large"
  <2>1. /\ queue' = Dequeued(k)
        /\ IF op.succeeded THEN WriteData(k, "large", op.large, TRUE) ELSE DoomEntry(k)
    BY <1>4, <1>7 DEF WriteBufferComplete, At
  <2>2. CASE op.succeeded
    <3>1. WriteData(k, "large", front(k).large, TRUE)
      BY <1>5, <2>1, <2>2
    <3>2. /\ disk' \in DiskType /\ \A l \in Keys : l # k => disk'[l] = disk[l]
          /\ disk[k] = None => disk'[k] = None
          /\ disk[k] # None => disk'[k].small = disk[k].small /\ disk'[k].large = front(k).large
      BY <1>2, <1>3, <3>1, WriteDataFacts
    <3>3. disk[k] = None \/ disk[k].small = front(k).small
      BY <1>1, <1>2, <1>3, <1>5, <1>7, <2>2 DEF CodeCacheInv, WriteLanded, HalfDone
    <3>4. disk'[k] \in {None, [small |-> front(k).small, large |-> front(k).large]}
      <4>1. disk'[k] \in {None} \cup [small : {Empty} \cup StampType, large : Data \cup {Empty}]
        BY <3>2 DEF DiskType
      <4> QED BY <3>2, <3>3, <4>1
    <3> QED BY <1>1, <2>1, <3>2, <3>4, CloseWritten
  <2>3. CASE ~op.succeeded
    <3>1. DoomEntry(k)
      BY <2>1, <2>3
    <3>2. disk'[k] = None /\ crashed' \in BOOLEAN
      BY <1>1, <3>1, DoomTypes DEF CodeCacheInv, Types
    <3> QED BY <1>1, <1>2, <2>1, <3>1, <3>2, CloseSilently
  <2> QED BY <2>2, <2>3
<1> QED BY <1>1, <1>6, <1>7 DEF Reading

LEMMA OpenMissedForReadInv ==
  ASSUME CodeCacheInv, NEW k \in Keys, OpenMissedForRead(k)
  PROVE  CodeCacheInv'
<1>1. /\ queue[k] # <<>> /\ front(k).type \in Fetches
      /\ UNCHANGED <<backendState, pendingOps, crashed, log>>
      /\ DoomEntry(k) /\ RunReadCallback(front(k), 0, Empty) /\ queue' = Dequeued(k)
  BY DEF OpenMissedForRead, At, Miss
<1>2. 0 \in 0 .. MaxRequests
  BY CodeCacheAssumption
<1> QED BY <1>1, <1>2, CloseAnswers DEF FreshAnswer

\* What a fetch finds on disk was asked for last before it: what was asked after that
\* is to come, and comes after the fetch.
LEMMA OpenCompleteForReadInv ==
  ASSUME CodeCacheInv, NEW k \in Keys, OpenCompleteForRead(k)
  PROVE  CodeCacheInv'
<1>1. /\ queue[k] # <<>> /\ front(k).type \in Fetches /\ front(k).stage = "opening"
      /\ disk[k] # None
      /\ UNCHANGED <<backendState, pendingOps, lru, disk, crashed, log, answers>>
  BY DEF OpenCompleteForRead, At
<1>2. /\ front(k) \in OpType(Keys) /\ front(k).key = k /\ Sound(front(k))
      /\ backendState = "initialized"
      /\ <<k, 1>> \in Places /\ OpAt(<<k, 1>>) = front(k) /\ k # None
  BY <1>1, FrontFacts, KeysFacts
<1>9. ~Writing(k) /\ disk' \in DiskType /\ ~Reading(front(k))
  <2>1. front(k).type \notin Writes
    BY <1>1 DEF Fetches, Writes
  <2> QED BY <1>1, <1>2, <2>1 DEF Writing, Reading, CodeCacheInv, Types, DiskType
<1>3. PICK op : op = [front(k) EXCEPT !.stage = "small",
                                      !.small = disk[k].small, !.large = disk[k].large]
  OBVIOUS
<1>4. Advance(k, op)
  BY <1>3 DEF OpenCompleteForRead
<1>5. /\ op \in OpType(Keys) /\ op.type = front(k).type /\ op.key = k
      /\ op.callback = front(k).callback /\ op.time = front(k).time
      /\ op.small = disk[k].small /\ op.large = disk[k].large
  <2>1. disk[k] \in [small : {Empty} \cup StampType, large : Data \cup {Empty}]
    BY <1>1 DEF CodeCacheInv, Types
  <2> QED BY <1>2, <1>3, <2>1 DEF OpType
<1>6. Alike(op, front(k)) /\ ~Changing(front(k))
  <2>1. front(k).type # "write" /\ front(k).type # "delete"
    BY <1>1 DEF Fetches
  <2>2. CallOf(op) = CallOf(front(k))
    BY <1>5, <2>1 DEF CallOf
  <2> QED BY <1>2, <1>5, <2>1, <2>2 DEF Alike, Changing
<1>7. CASE front(k).type = "fetch"
  <2>1. /\ k \in Resources /\ IsCall(op.callback, "fetch") /\ log[op.callback].resource = k
        /\ CallOf(front(k)) = op.callback
    BY <1>2, <1>5, <1>7 DEF Sound, SoundFetch, CallOf
  <2>2. Stored(k, op.small, op.large) /\ LaterToCome(k, op.small.time)
    BY <1>1, <1>5, <1>9, <2>1 DEF CodeCacheInv, DiskSound
  <2>3. Fresh(op.callback, op.small.time)
    <3> SUFFICES ASSUME NEW m \in Changes(k), ~(m <= op.small.time)
                 PROVE  m >= op.callback
      BY <2>1 DEF Fresh
    <3>1. m \in Nat /\ op.small.time \in Nat
      <4>1. DOMAIN log = 1 .. Len(log) /\ Len(log) \in Nat
        BY DEF CodeCacheInv, Types
      <4> QED BY <2>2, <4>1, StoredTime DEF CodeCacheInv, Changes
    <3>2. ToCome(k, m)
      BY <2>2, <3>1 DEF LaterToCome
    <3>3. PICK p \in Places : OpAt(p).key = k /\ Changing(OpAt(p)) /\ CallOf(OpAt(p)) = m
      BY <3>2 DEF ToCome
    <3>4. PlacesForm
      BY PlacesFacts DEF CodeCacheInv
    <3>5. p # <<k, 1>> /\ (p[1] = k \/ p[1] = None)
      BY <1>2, <1>6, <3>3 DEF CodeCacheInv, LinesInv, Stages
    <3>6. Before(<<k, 1>>, p)
      BY <1>2, <3>4, <3>5 DEF PlacesForm, Before
    <3>7. op.callback < m
      BY <1>2, <2>1, <3>3, <3>6 DEF CodeCacheInv, LinesInv, InOrder
    <3>8. op.callback \in Nat
      BY <1>2, <2>1, CallOfType DEF CodeCacheInv, LinesInv
    <3> QED BY <3>1, <3>7, <3>8
  <2>4. Sound(op)
    BY <1>5, <1>7, <2>1, <2>2, <2>3 DEF Sound, SoundFetch
  <2>5. Lands(op)
    BY <1>5, <1>7 DEF Lands, HalfDone, Writes
  <2> QED BY <1>1, <1>2, <1>4, <1>5, <1>6, <1>9, <2>4, <2>5, AdvanceKeeps
<1>8. CASE front(k).type = "fetchWithSHAKey"
  <2>1. PICK d \in Data : k = Checksum(d) /\ Written(log[op.callback].resource, op.time, d)
    BY <1>2, <1>5, <1>8 DEF Sound, SoundMergedFetch
  <2>2. op.large = d
    BY <1>1, <1>5, <1>9, <2>1 DEF CodeCacheInv, DiskSound
  <2>3. Sound(op)
    BY <1>2, <1>5, <1>8, <2>1, <2>2 DEF Sound, SoundMergedFetch
  <2>4. Lands(op)
    BY <1>5, <1>8 DEF Lands, HalfDone, Writes
  <2> QED BY <1>1, <1>2, <1>4, <1>5, <1>6, <1>9, <2>3, <2>4, AdvanceKeeps
<1> QED BY <1>1, <1>7, <1>8 DEF Fetches

\* The four ends of a read.
LEMMA ReadCompleteCases ==
  ASSUME NEW k \in Keys, NEW op, op.type \in Fetches, ReadComplete(k, op),
         op.small.data \in Data \cup Checksums \cup {Empty}
  PROVE  \/ Miss(op) /\ DoomEntry(k) /\ queue' = Dequeued(k)
         \/ /\ op.type = "fetchWithSHAKey" /\ UNCHANGED disk
            /\ RunReadCallback(op, op.time, op.large) /\ queue' = Dequeued(k)
         \/ /\ op.type = "fetch" /\ op.small.data \in Data \ {Empty} /\ UNCHANGED disk
            /\ RunReadCallback(op, op.small.time, op.small.data) /\ queue' = Dequeued(k)
         \/ /\ op.type = "fetch" /\ op.small.data = Empty /\ UNCHANGED disk
            /\ RunReadCallback(op, op.small.time, op.large) /\ queue' = Dequeued(k)
         \/ /\ op.type = "fetch" /\ op.small.data \in Checksums /\ UNCHANGED <<disk, lru, answers>>
            /\ queue' = [Dequeued(k) EXCEPT ![op.small.data] =
                  Append(@, [NewOp("fetchWithSHAKey", op.small.data) EXCEPT
                               !.callback = op.callback, !.time = op.small.time])]
<1>1. Empty \notin Checksums /\ Data \cap Checksums = {}
  BY KeysFacts
<1>2. CASE ~op.succeeded
  BY <1>2 DEF ReadComplete
<1>3. CASE op.succeeded /\ op.type = "fetchWithSHAKey"
  BY <1>3 DEF ReadComplete
<1>4. CASE op.succeeded /\ op.type = "fetch" /\ op.small.data \in Data \ {Empty}
  BY <1>1, <1>4 DEF ReadComplete
<1>5. CASE op.succeeded /\ op.type = "fetch" /\ op.small.data = Empty
  BY <1>1, <1>5 DEF ReadComplete
<1>6. CASE op.succeeded /\ op.type = "fetch" /\ op.small.data \in Checksums
  BY <1>1, <1>6 DEF ReadComplete
<1> QED BY <1>2, <1>3, <1>4, <1>5, <1>6 DEF Fetches

\* The streams of an entry tell its data, or the checksum it is under.
LEMMA StoredData ==
  ASSUME NEW r, NEW small, NEW large, Stored(r, small, large)
  PROVE  \E d \in Data :
           /\ Written(r, small.time, d)
           /\ \/ small.data = d /\ large = Empty
              \/ small.data = Empty /\ large = d
              \/ small.data = Checksum(d)
<1>1. PICK d \in Data : Written(r, small.time, d) /\ small = SmallOf(small.time, d)
                        /\ large = LargeOf(d)
  BY DEF Stored
<1>2. CASE Layout(d) = "inline"
  <2>1. small.data = d /\ large = Empty
    BY <1>1, <1>2 DEF SmallOf, LargeOf, Stamped
  <2> QED BY <1>1, <2>1
<1>3. CASE Layout(d) = "dedicated"
  <2>1. small.data = Empty /\ large = d
    BY <1>1, <1>3 DEF SmallOf, LargeOf, Stamped
  <2> QED BY <1>1, <2>1
<1>4. CASE Layout(d) = "indirect"
  <2>1. small.data = Checksum(d)
    BY <1>1, <1>4 DEF SmallOf, Stamped
  <2> QED BY <1>1, <2>1
<1> QED BY <1>2, <1>3, <1>4, LayoutFacts

LEMMA ReadCompleteInv ==
  ASSUME CodeCacheInv, NEW k \in Keys, queue[k] # <<>>, front(k).type \in Fetches,
         Reading(front(k)), UNCHANGED <<backendState, pendingOps, crashed, log>>,
         NEW op, op.type = front(k).type, op.callback = front(k).callback,
         op.time = front(k).time, op.small = front(k).small, op.large = front(k).large,
         ReadComplete(k, op)
  PROVE  CodeCacheInv'
<1>1. /\ front(k) \in OpType(Keys) /\ front(k).key = k /\ Sound(front(k))
  BY FrontFacts
<1>2. 0 \in 0 .. MaxRequests /\ Calls \subseteq 0 .. MaxRequests
  BY CodeCacheAssumption DEF Calls
<1>3. \A t : t \in DOMAIN log => t \in Calls
  <2>1. log \in Seq(CallType) /\ Len(log) <= MaxRequests
    BY DEF CodeCacheInv, Types
  <2> QED BY <2>1, LenProperties, CodeCacheAssumption DEF Calls
<1>4. CASE Miss(op) /\ DoomEntry(k) /\ queue' = Dequeued(k)
  BY <1>2, <1>4, CloseAnswers DEF Miss, FreshAnswer
<1>5. CASE front(k).type = "fetchWithSHAKey"
  <2>1. PICK d \in Data : /\ Written(log[op.callback].resource, op.time, d)
                          /\ op.large = d /\ Fresh(op.callback, op.time)
    BY <1>1, <1>5 DEF Sound, SoundMergedFetch
  <2>2. op.time \in Calls
    BY <1>3, <2>1 DEF Written
  <2>3. CASE /\ UNCHANGED disk
             /\ RunReadCallback(op, op.time, op.large) /\ queue' = Dequeued(k)
    BY <1>2, <2>1, <2>2, <2>3, CloseAnswers DEF FreshAnswer
  <2>4. \/ Miss(op) /\ DoomEntry(k) /\ queue' = Dequeued(k)
        \/ /\ UNCHANGED disk
           /\ RunReadCallback(op, op.time, op.large) /\ queue' = Dequeued(k)
    BY <1>5 DEF ReadComplete
  <2> QED BY <1>4, <2>3, <2>4
<1>6. CASE front(k).type = "fetch"
  <2>1. /\ k \in Resources /\ IsCall(op.callback, "fetch") /\ log[op.callback].resource = k
        /\ Stored(k, op.small, op.large) /\ Fresh(op.callback, op.small.time)
    BY <1>1, <1>6 DEF Sound, SoundFetch
  <2>2. PICK d \in Data :
           /\ Written(k, op.small.time, d)
           /\ \/ op.small.data = d /\ op.large = Empty
              \/ op.small.data = Empty /\ op.large = d
              \/ op.small.data = Checksum(d)
    BY <2>1, StoredData
  <2>3. op.small.time \in Calls
    BY <1>3, <2>2 DEF Written
  <2>4. op.small.data \in Data \cup Checksums \cup {Empty}
    BY <2>1 DEF Stored, StampType
  <2>5. CASE /\ op.small.data \in Data \ {Empty} /\ UNCHANGED disk
             /\ RunReadCallback(op, op.small.time, op.small.data) /\ queue' = Dequeued(k)
    <3>1. op.small.data = d
      BY <2>2, <2>5, KeysFacts
    <3>2. FreshAnswer(front(k).callback, op.small.time, op.small.data)
      BY <2>1, <2>2, <3>1 DEF FreshAnswer
    <3> QED BY <1>2, <2>3, <2>5, <3>2, CloseAnswers
  <2>6. CASE /\ op.small.data = Empty /\ UNCHANGED disk
             /\ RunReadCallback(op, op.small.time, op.large) /\ queue' = Dequeued(k)
    <3>1. op.large = d
      BY <2>2, <2>6, KeysFacts
    <3>2. FreshAnswer(front(k).callback, op.small.time, op.large)
      BY <2>1, <2>2, <3>1 DEF FreshAnswer
    <3> QED BY <1>2, <2>3, <2>6, <3>1, <3>2, CloseAnswers
  <2>7. CASE /\ op.small.data \in Checksums /\ UNCHANGED <<disk, lru, answers>>
             /\ queue' = [Dequeued(k) EXCEPT ![op.small.data] =
                   Append(@, [NewOp("fetchWithSHAKey", op.small.data) EXCEPT
                                !.callback = op.callback, !.time = op.small.time])]
    <3>1. PICK h, new : /\ h = op.small.data
                        /\ new = [NewOp("fetchWithSHAKey", op.small.data) EXCEPT
                                    !.callback = op.callback, !.time = op.small.time]
      OBVIOUS
    <3>2. h = Checksum(d) /\ h \in Checksums /\ h \in Keys
      BY <2>2, <2>7, <3>1, KeysFacts
    <3>3. /\ new.type = "fetchWithSHAKey" /\ new.key = h /\ new.stage = "queued"
          /\ new.callback = front(k).callback /\ new.time = op.small.time
      BY <3>1 DEF NewOp
    <3>4. new \in OpType(Keys)
      <4>1. op.callback \in 0 .. MaxRequests /\ op.small.time \in 0 .. MaxRequests
        BY <1>1, <1>2, <2>3 DEF OpType
      <4> QED BY <3>1, <3>2, <4>1 DEF NewOp, OpType, Fetches
    <3>5. Sound(new)
      BY <2>1, <2>2, <3>2, <3>3 DEF Sound, SoundMergedFetch, Reading
    <3>6. HandsOver(k, h, new)
      BY <2>7, <3>1, <3>3 DEF HandsOver
    <3> QED BY <1>6, <2>7, <3>2, <3>4, <3>5, <3>6, HandOverKeeps
  <2>8. op.type = "fetch" /\ op.type # "fetchWithSHAKey" /\ op.type \in Fetches
    BY <1>6 DEF Fetches
  <2>9. \/ Miss(op) /\ DoomEntry(k) /\ queue' = Dequeued(k)
        \/ /\ op.small.data \in Data \ {Empty} /\ UNCHANGED disk
           /\ RunReadCallback(op, op.small.time, op.small.data) /\ queue' = Dequeued(k)
        \/ /\ op.small.data = Empty /\ UNCHANGED disk
           /\ RunReadCallback(op, op.small.time, op.large) /\ queue' = Dequeued(k)
        \/ /\ op.small.data \in Checksums /\ UNCHANGED <<disk, lru, answers>>
           /\ queue' = [Dequeued(k) EXCEPT ![op.small.data] =
                 Append(@, [NewOp("fetchWithSHAKey", op.small.data) EXCEPT
                              !.callback = op.callback, !.time = op.small.time])]
    BY <2>4, <2>8, ReadCompleteCases
  <2> QED BY <1>4, <2>5, <2>6, <2>7, <2>9
<1> QED BY <1>5, <1>6 DEF Fetches

LEMMA ReadBufferCompleteInv ==
  ASSUME CodeCacheInv, NEW k \in Keys, NEW succeeded \in BOOLEAN,
         ReadBufferComplete(k, succeeded)
  PROVE  CodeCacheInv'
<1>1. /\ queue[k] # <<>> /\ front(k).type \in Fetches /\ Reading(front(k))
      /\ UNCHANGED <<backendState, pendingOps, crashed, log>>
  BY DEF ReadBufferComplete, At, Reading
<1>2. /\ front(k) \in OpType(Keys) /\ front(k).key = k /\ Sound(front(k))
      /\ backendState = "initialized" /\ disk \in DiskType
  BY <1>1, FrontFacts DEF Reading, CodeCacheInv, Types, DiskType
<1>3. PICK op : op = [front(k) EXCEPT !.succeeded = @ /\ succeeded /\
                        (front(k).type = "fetch" => IsValidHeader(front(k).small))]
  OBVIOUS
<1>4. /\ op \in OpType(Keys) /\ op.type = front(k).type /\ op.key = k
      /\ op.callback = front(k).callback /\ op.time = front(k).time
      /\ op.small = front(k).small /\ op.large = front(k).large
  BY <1>2, <1>3 DEF OpType
<1>5. CASE Advance(k, [op EXCEPT !.stage = "large"]) /\ UNCHANGED <<disk, lru, answers>>
  <2>1. PICK new : new = [op EXCEPT !.stage = "large"]
    OBVIOUS
  <2>2. /\ new \in OpType(Keys) /\ new.type = front(k).type /\ new.key = k
        /\ new.callback = front(k).callback /\ new.time = front(k).time
        /\ new.small = front(k).small /\ new.large = front(k).large /\ new.stage = "large"
    BY <1>4, <2>1 DEF OpType
  <2>3. CallOf(new) = CallOf(front(k))
    BY <2>2 DEF CallOf
  <2>4. Alike(new, front(k))
    BY <1>2, <2>2, <2>3 DEF Alike
  <2>5. Sound(new)
    BY <1>1, <1>2, <2>2 DEF Fetches, Sound, SoundFetch, SoundMergedFetch
  <2>6. Lands(new) /\ Reading(new)
    BY <1>1, <2>2 DEF Fetches, Writes, Lands, HalfDone, Reading
  <2> QED BY <1>1, <1>2, <1>5, <2>1, <2>2, <2>4, <2>5, <2>6, AdvanceKeeps
<1>6. CASE ReadComplete(k, op)
  BY <1>1, <1>4, <1>6, ReadCompleteInv
<1>7. \/ Advance(k, [op EXCEPT !.stage = "large"]) /\ UNCHANGED <<disk, lru, answers>>
      \/ ReadComplete(k, op)
  BY <1>3 DEF ReadBufferComplete
<1> QED BY <1>5, <1>6, <1>7

LEMMA IssuePendingOperationInv ==
  ASSUME CodeCacheInv, IssuePendingOperation
  PROVE  CodeCacheInv'
<1>1. /\ backendState # "initializing" /\ pendingOps # <<>> /\ pendingOps' = Tail(pendingOps)
      /\ UNCHANGED <<backendState, lru, disk, crashed, log>>
  BY DEF IssuePendingOperation
<1>2. PICK op : op = Head(pendingOps)
  OBVIOUS
<1>3. /\ op \in OpType(Keys \cup {None}) /\ Sound(op) /\ HasWaiting(op.callback)
      /\ pendingOps' \in Seq(OpType(Keys \cup {None}))
  <2>1. PlacesForm
    BY PlacesFacts DEF CodeCacheInv
  <2>2. /\ pendingOps \in Seq(OpType(Keys \cup {None})) /\ Len(pendingOps) \in Nat
        /\ Len(pendingOps) >= 1 /\ op = pendingOps[1] /\ pendingOps' \in Seq(OpType(Keys \cup {None}))
    <3>1. pendingOps \in Seq(OpType(Keys \cup {None}))
      BY DEF CodeCacheInv, Types
    <3> QED BY <1>1, <1>2, <3>1, TailFacts
  <2>3. <<None, 1>> \in Places /\ OpAt(<<None, 1>>) = op /\ op \in OpType(Keys \cup {None})
    BY <2>1, <2>2 DEF PlacesForm
  <2>4. Sound(op)
    BY <2>3 DEF CodeCacheInv, LinesInv, OpsSound
  <2> QED BY <2>2, <2>3, <2>4 DEF HasWaiting
<1>4. CASE op.type = "getBackend"
  <2>1. Answer(op.callback, 0, Empty) /\ UNCHANGED queue
    BY <1>2, <1>4 DEF IssuePendingOperation
  <2>2. op.key = None /\ op.callback # 0
    <3>1. SoundGetBackend(op)
      BY <1>3, <1>4 DEF Sound
    <3> QED BY <3>1 DEF SoundGetBackend, IsCall, CodeCacheInv, Types
  <2>3. answers' \in [Calls -> Seq(AnswerType)]
    <3>1. Stamped(0, Empty) \in AnswerType
      BY CodeCacheAssumption DEF Stamped, AnswerType
    <3> QED BY <2>1, <3>1, AppendProperties DEF CodeCacheInv, Types, Answer
  <2>4. Types'
    BY <1>1, <1>3, <2>1, <2>3 DEF CodeCacheInv, Types
  <2>5. /\ LinesInv' /\ Carried
        /\ \A r \in Resources : \A m : ToCome(r, m) => ToCome(r, m)'
        /\ \A c : c # 0 => (HasWaiting(c)' <=> HasWaiting(c) /\ op.callback # c)
    BY <1>1, <1>2, <2>1, <2>2, <2>4, AnswerMoves DEF CodeCacheInv
  <2>6. \A l \in Keys : Writing(l) => Writing(l)'
    BY <2>1, <2>4, WritingStays DEF CodeCacheInv, FrontStays
  <2>8. DiskSound' /\ WriteLanded'
    BY <1>1, <2>5, <2>6, DiskStays DEF CodeCacheInv, LinesInv, Carried
  <2>7. AnsweredOrWaiting' /\ AnswersFresh'
    BY <1>1, <1>3, <2>1, <2>2, <2>5, Answered DEF CodeCacheInv, LinesInv, FreshAnswer
  <2> QED BY <2>4, <2>5, <2>7, <2>8 DEF CodeCacheInv
<1>5. CASE op.type # "getBackend"
  <2>1. PICK h : h = op.key
    OBVIOUS
  <2>2. h \in Keys
    BY <1>3, <1>5, <2>1, KeysFacts DEF Sound, SoundWrite, SoundMergedWrite, SoundFetch,
                                       SoundMergedFetch, SoundDelete
  <2>3. Issues(h) /\ UNCHANGED answers
    BY <1>1, <1>2, <1>5, <2>1 DEF IssuePendingOperation, Issues
  <2>4. queue' \in QueueType
    <3>1. op \in OpType(Keys)
      BY <1>3, <2>1, <2>2 DEF OpType
    <3>2. queue \in QueueType /\ queue[h] \in Seq(OpType(Keys))
      BY <2>2 DEF CodeCacheInv, Types, QueueType
    <3>3. Append(queue[h], op) \in Seq(OpType(Keys))
      BY <3>1, <3>2, AppendProperties
    <3> QED BY <1>2, <2>3, <3>2, <3>3 DEF Issues, QueueType
  <2>5. Types'
    BY <1>1, <1>3, <2>3, <2>4 DEF CodeCacheInv, Types, QueueType
  <2>6. /\ LinesInv' /\ Carried
        /\ \A r \in Resources : \A m : ToCome(r, m) => ToCome(r, m)'
        /\ \A c : HasWaiting(c)' <=> HasWaiting(c)
    BY <1>1, <2>2, <2>3, <2>5, IssueMoves DEF CodeCacheInv
  <2>9. ASSUME NEW l \in Keys
        PROVE  FrontStays(l)
    <3>1. /\ queue \in QueueType /\ queue[h] \in Seq(OpType(Keys))
          /\ queue' = [queue EXCEPT ![h] = Append(queue[h], op)]
      BY <1>2, <2>2, <2>3 DEF CodeCacheInv, Types, QueueType, Issues
    <3>2. CASE l # h
      BY <3>1, <3>2 DEF FrontStays, QueueType
    <3>3. CASE l = h
      <4>1. \A i \in 1 .. Len(queue[h]) : Append(queue[h], op)[i] = queue[h][i]
            /\ Len(queue[h]) \in Nat /\ Len(Append(queue[h], op)) = Len(queue[h]) + 1
        BY <3>1, AppendFacts
      <4> QED BY <2>2, <3>1, <3>3, <4>1 DEF FrontStays, QueueType
    <3> QED BY <3>2, <3>3
  <2>10. \A l \in Keys : Writing(l) => Writing(l)'
    BY <2>5, <2>9, WritingStays DEF CodeCacheInv
  <2>7. DiskSound' /\ WriteLanded'
    BY <1>1, <2>6, <2>10, DiskStays DEF CodeCacheInv, LinesInv, Carried
  <2>8. AnsweredOrWaiting' /\ AnswersFresh'
    BY <1>1, <2>3, <2>6, AnswersSame DEF CodeCacheInv
  <2> QED BY <2>5, <2>6, <2>7, <2>8 DEF CodeCacheInv
<1> QED BY <1>4, <1>5

LEMMA DidCreateBackendInv ==
  ASSUME CodeCacheInv, DidCreateBackend
  PROVE  CodeCacheInv'
<1>1. /\ backendState = "initializing" /\ backendState' \in {"initialized", "failed"}
      /\ UNCHANGED <<pendingOps, queue, lru, disk, crashed, log, answers>>
  BY DEF DidCreateBackend
<1>2. Places' = Places /\ \A p : OpAt(p)' = OpAt(p)
  BY <1>1 DEF Places, OpAt
<1>3. Types'
  BY <1>1 DEF CodeCacheInv, Types
<1>4. /\ \A k \in Keys : disk[k] = None /\ queue[k] = <<>>
      /\ \A p \in Places : p[1] = None
  <2>1. \A k \in Keys : disk[k] = None /\ queue[k] = <<>>
    BY <1>1 DEF CodeCacheInv, DiskSound, LinesInv, Stages
  <2>2. PlacesForm
    BY PlacesFacts DEF CodeCacheInv
  <2> QED BY <2>1, <2>2 DEF PlacesForm
<1>5. LinesInv'
  <2>1. Stages'
    BY <1>1, <1>2, <1>4 DEF CodeCacheInv, LinesInv, Stages
  <2>2. OpsSound'
    <3>1. \A p \in Places' : Sound(OpAt(p)')
      BY <1>2 DEF CodeCacheInv, LinesInv, OpsSound
    <3> QED BY <1>1, <3>1, OpsSoundKept
  <2>3. InOrder' /\ CallbacksDistinct'
    BY <1>1 DEF CodeCacheInv, LinesInv, InOrder, CallbacksDistinct, Places, OpAt
  <2>4. NothingOvertakes'
    BY <1>1 DEF CodeCacheInv, LinesInv, NothingOvertakes, LaterToCome, ToCome, Changes, Places, OpAt
  <2> QED BY <2>1, <2>2, <2>3, <2>4 DEF LinesInv
<1>6. DiskSound'
  BY <1>1, <1>4, KeysFacts DEF DiskSound
<1>7. WriteLanded'
  BY <1>1, <1>2 DEF CodeCacheInv, WriteLanded, HalfDone
<1>8. AnsweredOrWaiting' /\ AnswersFresh'
  <2>1. \A c \in Calls : HasWaiting(c)' <=> HasWaiting(c)
    BY <1>1 DEF HasWaiting, Places, OpAt
  <2> QED BY <1>1, <2>1, AnswersSame DEF CodeCacheInv
<1> QED BY <1>3, <1>5, <1>6, <1>7, <1>8 DEF CodeCacheInv

LEMMA EvictionInv ==
  ASSUME CodeCacheInv,
         ClearInMemoryCache \/ \E k \in Keys : LruEvicts(k) \/ BackendEvicts(k)
  PROVE  CodeCacheInv'
<1>1. lru \in LruType /\ disk \in DiskType /\ crashed \in BOOLEAN
  BY DEF CodeCacheInv, Types, LruType, DiskType
<1>2. CASE ClearInMemoryCache
  <2>1. lru' \in LruType
    BY <1>2 DEF ClearInMemoryCache, LruType
  <2> QED BY <1>1, <1>2, <2>1, StillKeeps DEF ClearInMemoryCache
<1>3. ASSUME NEW k \in Keys, LruEvicts(k)
      PROVE  CodeCacheInv'
  <2>1. lru' \in LruType
    BY <1>1, <1>3 DEF LruEvicts, LruType
  <2> QED BY <1>1, <1>3, <2>1, StillKeeps DEF LruEvicts
<1>4. ASSUME NEW k \in Keys, BackendEvicts(k)
      PROVE  CodeCacheInv'
  <2>1. disk' \in DiskType /\ \A l \in Keys : disk'[l] = disk[l] \/ disk'[l] = None
    BY <1>4, DoomTypes DEF CodeCacheInv, BackendEvicts
  <2> QED BY <1>1, <1>4, <2>1, StillKeeps DEF BackendEvicts
<1> QED BY <1>2, <1>3, <1>4

-------------------------------------------------------------------------------
(* The calls *)

\* A call that enqueues the operations s, or none.
LEMMA CallKeeps ==
  ASSUME CodeCacheInv, Types', NEW call, NEW n, Makes(call, n), call.method # "getBackend",
         UNCHANGED <<backendState, disk, crashed>>,
         NEW ops, Adds(ops), MadeBy(ops, call, n), \A op \in ops : Sound(op)',
         backendState = "initializing" => UNCHANGED queue,
         \/ /\ UNCHANGED answers
            /\ call.method = "fetch" <=> \E op \in ops : op.callback = n
         \/ /\ Answer(n, 0, Empty) /\ call.method = "fetch" /\ ops = {}
  PROVE  CodeCacheInv'
<1>1. /\ LinesInv' /\ Carried
      /\ backendState # "failed" =>
           \A r \in Resources : \A t : LaterToCome(r, t) => LaterToCome(r, t)'
      /\ \A c : HasWaiting(c)' <=> HasWaiting(c) \/ \E op \in ops : op.callback = c
  BY CallAdds DEF CodeCacheInv
<1>2. DiskSound' /\ WriteLanded'
  BY <1>1, DiskAtCall DEF CodeCacheInv, LinesInv
<1>3. ASSUME NEW c \in Calls
      PROVE  (\E op \in ops : op.callback = c) <=> c = n /\ \E op \in ops : op.callback = n
  BY CodeCacheAssumption DEF MadeBy, Calls
<1>4. AnsweredOrWaiting' /\ AnswersFresh'
  <2>1. CASE /\ UNCHANGED answers
             /\ call.method = "fetch" <=> \E op \in ops : op.callback = n
    <3>1. \A c \in Calls : HasWaiting(c)' <=> HasWaiting(c) \/ (c = n /\ Asks(call))
      BY <1>1, <1>3, <2>1 DEF Asks
    <3> QED BY <2>1, <3>1, CallAnswers DEF CodeCacheInv, LinesInv
  <2>2. CASE Answer(n, 0, Empty) /\ call.method = "fetch" /\ ops = {}
    <3>1. \A c \in Calls : HasWaiting(c)' <=> HasWaiting(c)
      BY <1>1, <2>2
    <3> QED BY <2>2, <3>1, CallAnswers DEF CodeCacheInv, LinesInv, Asks
  <2> QED BY <2>1, <2>2
<1> QED BY <1>1, <1>2, <1>4 DEF CodeCacheInv

LEMMA EnqueueTypes ==
  ASSUME Types, NEW s \in Seq(OpType(Keys)), EnqueueOperations(s)
  PROVE  pendingOps' \in Seq(OpType(Keys \cup {None})) /\ queue' \in QueueType
<1>1. pendingOps \in Seq(OpType(Keys \cup {None})) /\ queue \in QueueType
  BY DEF Types, QueueType
<1>2. CASE backendState # "initialized"
  <2>1. s \in Seq(OpType(Keys \cup {None}))
    <3>1. OpType(Keys) \subseteq OpType(Keys \cup {None})
      BY DEF OpType
    <3> QED BY <3>1, SeqWidens
  <2> QED BY <1>1, <1>2, <2>1, ConcatProperties DEF EnqueueOperations
<1>3. CASE backendState = "initialized"
  <2>1. DOMAIN s = 1 .. Len(s) /\ \A i \in 1 .. Len(s) : s[i] \in OpType(Keys)
    BY LenProperties
  <2>2. \A op \in ToSet(s) : op \in OpType(Keys)
    BY <2>1 DEF ToSet
  <2>3. ASSUME NEW k \in Keys
        PROVE  (IF \E op \in ToSet(s) : op.key = k
                THEN Append(queue[k], CHOOSE op \in ToSet(s) : op.key = k)
                ELSE queue[k]) \in Seq(OpType(Keys))
    <3>1. queue[k] \in Seq(OpType(Keys))
      BY <1>1 DEF QueueType
    <3>2. CASE \E op \in ToSet(s) : op.key = k
      <4>1. PICK e : e = CHOOSE op \in ToSet(s) : op.key = k
        OBVIOUS
      <4>2. e \in OpType(Keys)
        BY <2>2, <3>2, <4>1
      <4> QED BY <3>1, <3>2, <4>1, <4>2, AppendProperties
    <3> QED BY <3>1, <3>2
  <2> QED BY <1>1, <1>3, <2>3 DEF EnqueueOperations, QueueType
<1> QED BY <1>2, <1>3

\* A call that enqueues s.
LEMMA EnqueueKeeps ==
  ASSUME CodeCacheInv, Settled, NEW call \in CallType, NEW n, Makes(call, n), Len(log) < MaxRequests,
         call.method # "getBackend", backendState # "failed",
         UNCHANGED <<backendState, disk, crashed, answers>>, lru' \in LruType,
         NEW s \in Seq(OpType(Keys)), KeysApart(s), EnqueueOperations(s),
         MadeBy(ToSet(s), call, n), \A op \in ToSet(s) : Sound(op)',
         call.method = "fetch" <=> \E op \in ToSet(s) : op.callback = n
  PROVE  CodeCacheInv'
<1>1. log' \in Seq(CallType) /\ Len(log') <= MaxRequests
  <2>1. log \in Seq(CallType) /\ Len(log) \in Nat
    BY DEF CodeCacheInv, Types
  <2> QED BY <2>1, AppendProperties, CodeCacheAssumption DEF Makes
<1>2. Types'
  BY <1>1, EnqueueTypes DEF CodeCacheInv, Types, QueueType, LruType
<1>3. \A i \in 1 .. Len(s) : s[i].key \in Keys
  <2>1. \A i \in 1 .. Len(s) : s[i] \in OpType(Keys)
    BY LenProperties
  <2> QED BY <2>1 DEF OpType
<1>4. Adds(ToSet(s)) /\ (backendState = "initializing" => UNCHANGED queue)
  BY <1>2, <1>3, EnqueueAdds DEF CodeCacheInv
<1> QED BY <1>2, <1>4, CallKeeps

\* A call while there is no backend, or a write that is not taken: a fetch is a miss, the
\* others ask for nothing.
LEMMA CallFailsInv ==
  ASSUME CodeCacheInv, NEW call \in CallType, NEW n, Makes(call, n), Len(log) < MaxRequests,
         call.method # "getBackend", backendState = "failed" \/ call.method = "rejectedWrite",
         UNCHANGED <<backendState, pendingOps, queue, disk, crashed>>, lru' \in LruType,
         IF call.method = "fetch" THEN Answer(n, 0, Empty) ELSE UNCHANGED answers
  PROVE  CodeCacheInv'
<1>1. log' \in Seq(CallType) /\ Len(log') <= MaxRequests
  <2>1. log \in Seq(CallType) /\ Len(log) \in Nat
    BY DEF CodeCacheInv, Types
  <2> QED BY <2>1, AppendProperties, CodeCacheAssumption DEF Makes
<1>2. answers' \in [Calls -> Seq(AnswerType)]
  <2>0. answers \in [Calls -> Seq(AnswerType)]
    BY DEF CodeCacheInv, Types
  <2>1. Stamped(0, Empty) \in AnswerType
    BY CodeCacheAssumption DEF Stamped, AnswerType
  <2>2. CASE call.method = "fetch"
    <3>1. answers' = [answers EXCEPT ![n] = Append(answers[n], Stamped(0, Empty))]
      BY <2>2 DEF Answer
    <3>2. n \in Calls => Append(answers[n], Stamped(0, Empty)) \in Seq(AnswerType)
      BY <2>0, <2>1, AppendProperties
    <3> QED BY <2>0, <3>1, <3>2
  <2> QED BY <2>0, <2>2
<1>3. Types'
  BY <1>1, <1>2 DEF CodeCacheInv, Types, LruType
<1>4. Adds({})
  BY <1>3, NoneAdds DEF CodeCacheInv
<1>5. MadeBy({}, call, n)
  BY DEF MadeBy
<1> QED BY <1>3, <1>4, <1>5, CallKeeps

LEMMA CalledFacts ==
  ASSUME CodeCacheInv, NEW method \in {"write", "rejectedWrite", "fetch", "delete", "getBackend"},
         NEW r \in Resources \cup {None}, NEW data \in Data \cup {Empty}, Called(method, r, data)
  PROVE  \E call \in CallType, n \in Calls :
           /\ call = [method |-> method, resource |-> r, data |-> data]
           /\ Makes(call, n) /\ n = Len(log') /\ n \in Calls /\ n # 0
           /\ n \in DOMAIN log' /\ log'[n] = call
           /\ Settled /\ Len(log) < MaxRequests
<1>1. PICK call, n : call = [method |-> method, resource |-> r, data |-> data] /\ n = Len(log) + 1
  OBVIOUS
<1>2. call \in CallType
  BY <1>1 DEF CallType
<1>3. log' = Append(log, call) /\ log \in Seq(CallType) /\ Settled /\ Len(log) < MaxRequests
  BY <1>1 DEF Called, CodeCacheInv, Types
<1>4. /\ Len(log') = n /\ n \in Nat /\ n >= 1 /\ n <= MaxRequests
      /\ DOMAIN log' = 1 .. n /\ log'[n] = call
  <2>1. Len(log) \in Nat /\ Len(log') = n /\ log'[n] = call
    BY <1>1, <1>3, AppendFacts
  <2>2. log' \in Seq(CallType)
    BY <1>2, <1>3, AppendProperties
  <2> QED BY <1>1, <1>3, <2>1, <2>2, CodeCacheAssumption, LenProperties
<1> QED BY <1>1, <1>2, <1>3, <1>4 DEF Makes, Calls

IsWriteOp(op, r, n, d) ==
  /\ op \in OpType(Keys) /\ op.type = "write" /\ op.key = r
  /\ op.callback = 0 /\ op.stage = "queued"
  /\ op.small = SmallOf(n, d) /\ op.large = LargeOf(d) /\ op.small.time = n
  /\ op.small \in StampType

IsMergedOp(op, d) ==
  /\ op \in OpType(Keys) /\ op.type = "writeWithSHAKey" /\ op.key = Checksum(d)
  /\ op.callback = 0 /\ op.stage = "queued"
  /\ op.small = Empty /\ op.large = d /\ Layout(d) = "indirect"

\* WriteEntry puts the data in the small stream, in the large one, or in the large one
\* of its checksum's entry.
LEMMA WriteOpsForm ==
  ASSUME NEW r \in Resources, NEW n \in Calls, NEW d \in Data
  PROVE  \E op : /\ IsWriteOp(op, r, n, d)
                 /\ \/ WriteOps(r, n, d) = <<op>>
                    \/ \E merged : IsMergedOp(merged, d) /\ WriteOps(r, n, d) = <<merged, op>>
<1>1. SmallOf(n, d) \in StampType /\ SmallOf(n, d).time = n
  BY KeysFacts, LayoutFacts DEF SmallOf, Stamped, StampType
<1>2. /\ r \in Keys /\ Checksum(d) \in Keys /\ 0 \in 0 .. MaxRequests
  BY KeysFacts, CodeCacheAssumption
<1>3. CASE Layout(d) = "inline"
  <2>1. SmallOf(n, d) = Stamped(n, d) /\ LargeOf(d) = Empty
    BY <1>3 DEF SmallOf, LargeOf
  <2>2. PICK op : op = [NewOp("write", r) EXCEPT !.small = Stamped(n, d)]
    OBVIOUS
  <2>3. WriteOps(r, n, d) = <<op>>
    BY <1>3, <2>2 DEF WriteOps
  <2>4. IsWriteOp(op, r, n, d)
    BY <1>1, <1>2, <2>1, <2>2 DEF IsWriteOp, NewOp, OpType, Writes
  <2> QED BY <2>3, <2>4
<1>4. CASE Layout(d) = "dedicated"
  <2>1. SmallOf(n, d) = Stamped(n, Empty) /\ LargeOf(d) = d
    BY <1>4 DEF SmallOf, LargeOf
  <2>2. PICK op : op = [NewOp("write", r) EXCEPT !.small = Stamped(n, Empty), !.large = d]
    OBVIOUS
  <2>3. WriteOps(r, n, d) = <<op>>
    BY <1>4, <2>2 DEF WriteOps
  <2>4. IsWriteOp(op, r, n, d)
    BY <1>1, <1>2, <2>1, <2>2 DEF IsWriteOp, NewOp, OpType, Writes
  <2> QED BY <2>3, <2>4
<1>5. CASE Layout(d) = "indirect"
  <2>1. SmallOf(n, d) = Stamped(n, Checksum(d)) /\ LargeOf(d) = Empty
    BY <1>5 DEF SmallOf, LargeOf
  <2>2. PICK op : op = [NewOp("write", r) EXCEPT !.small = Stamped(n, Checksum(d))]
    OBVIOUS
  <2>3. PICK merged : merged = [NewOp("writeWithSHAKey", Checksum(d)) EXCEPT !.large = d]
    OBVIOUS
  <2>4. WriteOps(r, n, d) = <<merged, op>>
    BY <1>5, <2>2, <2>3 DEF WriteOps
  <2>5. IsWriteOp(op, r, n, d)
    BY <1>1, <1>2, <2>1, <2>2 DEF IsWriteOp, NewOp, OpType, Writes
  <2>6. IsMergedOp(merged, d)
    BY <1>2, <1>5, <2>3 DEF IsMergedOp, NewOp, OpType, Writes
  <2> QED BY <2>4, <2>5, <2>6
<1> QED BY <1>3, <1>4, <1>5, LayoutFacts

\* WriteEntry.
LEMMA WriteEntryInv ==
  ASSUME CodeCacheInv, NEW r \in Resources, NEW data \in Data, WriteEntry(r, data)
  PROVE  CodeCacheInv'
<1>1. PICK method \in {"write", "rejectedWrite"} :
        /\ Called(method, r, data)
        /\ lru' = lru \/ lru' = [lru EXCEPT ![r] = Stamped(Len(log'), data)]
        /\ \/ method = "rejectedWrite" /\ UNCHANGED <<pendingOps, queue>>
           \/ /\ method = "write" /\ backendState # "failed"
              /\ EnqueueOperations(WriteOps(r, Len(log'), data))
  BY DEF WriteEntry
<1>2. PICK call \in CallType, n \in Calls :
        /\ call = [method |-> method, resource |-> r, data |-> data]
        /\ Makes(call, n) /\ n = Len(log') /\ n \in Calls /\ n # 0
        /\ n \in DOMAIN log' /\ log'[n] = call
        /\ Settled /\ Len(log) < MaxRequests
  BY <1>1, CalledFacts
<1>3. UNCHANGED <<backendState, disk, crashed, answers>>
  BY DEF WriteEntry
<1>4. lru' \in LruType
  <2>1. lru \in LruType
    BY DEF CodeCacheInv, Types, LruType
  <2>2. Stamped(n, data) \in [time : Calls, data : Data]
    BY <1>2 DEF Stamped
  <2> QED BY <1>1, <1>2, <2>1, <2>2 DEF LruType
<1>5. CASE method = "rejectedWrite"
  <2>1. UNCHANGED <<pendingOps, queue>> /\ call.method = "rejectedWrite"
    BY <1>1, <1>2, <1>5
  <2> QED BY <1>2, <1>3, <1>4, <2>1, CallFailsInv
<1>6. CASE method = "write"
  <2>1. PICK s : s = WriteOps(r, n, data)
    OBVIOUS
  <2>2. PICK op : /\ IsWriteOp(op, r, n, data)
                  /\ s = <<op>> \/ \E merged : IsMergedOp(merged, data) /\ s = <<merged, op>>
    BY <1>2, <2>1, WriteOpsForm
  <2>3. EnqueueOperations(s) /\ backendState # "failed"
    BY <1>1, <1>2, <1>6, <2>1
  <2>5. Sound(op)'
    <3>1. Written(r, n, data)'
      BY <1>2, <1>6 DEF Written
    <3>2. Stored(r, op.small, op.large)'
      BY <2>2, <3>1 DEF Stored, IsWriteOp
    <3> QED BY <2>2, <3>2 DEF Sound, SoundWrite, IsWriteOp
  <2>6. /\ s \in Seq(OpType(Keys)) /\ KeysApart(s) /\ \A o \in ToSet(s) : Sound(o)'
        /\ MadeBy(ToSet(s), call, n) /\ ~ \E o \in ToSet(s) : o.callback = n
    <3>1. CallOf(op) = n /\ Changing(op) /\ call.resource = r
      BY <1>2, <2>2 DEF CallOf, Changing, IsWriteOp
    <3>2. CASE s = <<op>>
      <4>1. s \in Seq(OpType(Keys)) /\ KeysApart(s) /\ ToSet(s) = {op}
        BY <2>2, <3>2 DEF ToSet, KeysApart, IsWriteOp
      <4>2. MadeBy({op}, call, n)
        BY <1>2, <1>6, <2>2, <3>1 DEF MadeBy, IsWriteOp
      <4>3. op.callback # n
        BY <1>2, <2>2 DEF IsWriteOp
      <4> QED BY <2>5, <4>1, <4>2, <4>3
    <3>3. ASSUME NEW merged, IsMergedOp(merged, data), s = <<merged, op>>
          PROVE  /\ s \in Seq(OpType(Keys)) /\ KeysApart(s) /\ \A o \in ToSet(s) : Sound(o)'
                 /\ MadeBy(ToSet(s), call, n) /\ ~ \E o \in ToSet(s) : o.callback = n
      <4>1. s \in Seq(OpType(Keys)) /\ Len(s) = 2 /\ s[1] = merged /\ s[2] = op
        BY <2>2, <3>3 DEF IsWriteOp, IsMergedOp
      <4>2. DOMAIN s = {1, 2} /\ 1 .. Len(s) = {1, 2}
        BY <4>1
      <4>3. merged.key \notin Resources /\ op.key \in Resources
        BY <2>2, <3>3, KeysFacts DEF IsWriteOp, IsMergedOp
      <4>4. KeysApart(s) /\ ToSet(s) = {merged, op}
        BY <4>1, <4>2, <4>3 DEF KeysApart, ToSet
      <4>5. Sound(merged)'
        BY <3>3 DEF Sound, SoundMergedWrite, IsMergedOp
      <4>6. MadeBy({merged, op}, call, n)
        BY <1>2, <1>6, <2>2, <3>1, <3>3, <4>3 DEF MadeBy, IsWriteOp, IsMergedOp
      <4>7. op.callback # n /\ merged.callback # n
        BY <1>2, <2>2, <3>3 DEF IsWriteOp, IsMergedOp
      <4> QED BY <2>5, <4>1, <4>4, <4>5, <4>6, <4>7
    <3> QED BY <2>2, <3>2, <3>3
  <2>7. call.method = "write"
    BY <1>2, <1>6
  <2> QED BY <1>2, <1>3, <1>4, <2>3, <2>6, <2>7, EnqueueKeeps
<1> QED BY <1>5, <1>6

\* FetchEntry.
LEMMA FetchEntryInv ==
  ASSUME CodeCacheInv, NEW r \in Resources, FetchEntry(r)
  PROVE  CodeCacheInv'
<1>1. Called("fetch", r, Empty)
  BY DEF FetchEntry
<1>2. PICK call \in CallType, n \in Calls :
        /\ call = [method |-> "fetch", resource |-> r, data |-> Empty]
        /\ Makes(call, n) /\ n = Len(log') /\ n \in Calls /\ n # 0
        /\ n \in DOMAIN log' /\ log'[n] = call
        /\ Settled /\ Len(log) < MaxRequests
  BY <1>1, CalledFacts
<1>3. UNCHANGED <<backendState, lru, disk, crashed>>
  BY DEF FetchEntry
<1>4. CASE backendState = "failed"
  <2>1. Answer(n, 0, Empty) /\ UNCHANGED <<pendingOps, queue>>
    BY <1>2, <1>4 DEF FetchEntry
  <2>2. lru' \in LruType
    BY <1>3 DEF CodeCacheInv, Types, LruType
  <2> QED BY <1>2, <1>3, <1>4, <2>1, <2>2, CallFailsInv
<1>5. CASE backendState # "failed"
  <2>1. PICK op : op = [NewOp("fetch", r) EXCEPT !.callback = n]
    OBVIOUS
  <2>2. /\ op.type = "fetch" /\ op.key = r /\ op.stage = "queued"
        /\ op.callback = n /\ op.time = 0
    BY <2>1 DEF NewOp
  <2>3. EnqueueOperations(<<op>>) /\ UNCHANGED answers
    BY <1>2, <1>5, <2>1 DEF FetchEntry
  <2>4. op \in OpType(Keys)
    <3>1. r \in Keys /\ 0 \in 0 .. MaxRequests /\ n \in 0 .. MaxRequests
      BY <1>2, KeysFacts, CodeCacheAssumption DEF Calls
    <3> QED BY <2>1, <3>1 DEF NewOp, OpType, Fetches
  <2>5. <<op>> \in Seq(OpType(Keys)) /\ ToSet(<<op>>) = {op} /\ KeysApart(<<op>>)
    BY <2>4 DEF ToSet, KeysApart
  <2>6. Sound(op)'
    <3>1. IsCall(n, "fetch")' /\ log'[n].resource = r
      BY <1>2 DEF IsCall
    <3> QED BY <2>2, <3>1 DEF Sound, SoundFetch, Reading
  <2>7. MadeBy({op}, call, n)
    BY <1>2, <2>2 DEF MadeBy, CallOf
  <2>8. lru' \in LruType
    BY <1>3 DEF CodeCacheInv, Types, LruType
  <2>9. call.method = "fetch" /\ \E o \in ToSet(<<op>>) : o.callback = n
    BY <1>2, <2>2, <2>5
  <2>10. ToSet(<<op>>) = {op} /\ \A o \in ToSet(<<op>>) : Sound(o)'
    BY <2>5, <2>6
  <2> QED BY <1>2, <1>3, <1>5, <2>3, <2>5, <2>7, <2>8, <2>9, <2>10, EnqueueKeeps
<1> QED BY <1>4, <1>5

\* DeleteEntry.
LEMMA DeleteEntryInv ==
  ASSUME CodeCacheInv, NEW r \in Resources, DeleteEntry(r)
  PROVE  CodeCacheInv'
<1>1. Called("delete", r, Empty)
  BY DEF DeleteEntry
<1>2. PICK call \in CallType, n \in Calls :
        /\ call = [method |-> "delete", resource |-> r, data |-> Empty]
        /\ Makes(call, n) /\ n = Len(log') /\ n \in Calls /\ n # 0
        /\ n \in DOMAIN log' /\ log'[n] = call
        /\ Settled /\ Len(log) < MaxRequests
  BY <1>1, CalledFacts
<1>3. UNCHANGED <<backendState, disk, crashed, answers>>
  BY DEF DeleteEntry
<1>4. CASE backendState = "failed"
  <2>1. UNCHANGED <<pendingOps, queue, lru>>
    BY <1>4 DEF DeleteEntry
  <2>2. lru' \in LruType
    BY <2>1 DEF CodeCacheInv, Types, LruType
  <2> QED BY <1>2, <1>3, <1>4, <2>1, <2>2, CallFailsInv
<1>5. CASE backendState # "failed"
  <2>1. PICK op : op = [NewOp("delete", r) EXCEPT !.time = n]
    OBVIOUS
  <2>2. /\ op.type = "delete" /\ op.key = r /\ op.stage = "queued"
        /\ op.callback = 0 /\ op.time = n
    BY <2>1 DEF NewOp
  <2>3. EnqueueOperations(<<op>>)
    BY <1>2, <1>5, <2>1 DEF DeleteEntry
  <2>4. op \in OpType(Keys)
    <3>1. r \in Keys /\ 0 \in 0 .. MaxRequests /\ n \in 0 .. MaxRequests
      BY <1>2, KeysFacts, CodeCacheAssumption DEF Calls
    <3> QED BY <2>1, <3>1 DEF NewOp, OpType
  <2>5. <<op>> \in Seq(OpType(Keys)) /\ ToSet(<<op>>) = {op} /\ KeysApart(<<op>>)
    BY <2>4 DEF ToSet, KeysApart
  <2>6. Sound(op)'
    <3>1. IsCall(n, "delete")' /\ log'[n].resource = r
      BY <1>2 DEF IsCall
    <3> QED BY <2>2, <3>1 DEF Sound, SoundDelete
  <2>7. MadeBy({op}, call, n)
    BY <1>2, <2>2 DEF MadeBy, CallOf, Changing
  <2>8. lru' \in LruType
    BY <1>5 DEF CodeCacheInv, Types, LruType, DeleteEntry
  <2>9. call.method = "delete" /\ ~ \E o \in ToSet(<<op>>) : o.callback = n
    BY <1>2, <2>2, <2>5
  <2>10. ToSet(<<op>>) = {op} /\ \A o \in ToSet(<<op>>) : Sound(o)'
    BY <2>5, <2>6
  <2> QED BY <1>2, <1>3, <1>5, <2>3, <2>5, <2>7, <2>8, <2>9, <2>10, EnqueueKeeps
<1> QED BY <1>4, <1>5

\* GetBackend.
LEMMA GetBackendInv ==
  ASSUME CodeCacheInv, GetBackend
  PROVE  CodeCacheInv'
<1>1. Called("getBackend", None, Empty)
  BY DEF GetBackend
<1>2. PICK call \in CallType, n \in Calls :
        /\ call = [method |-> "getBackend", resource |-> None, data |-> Empty]
        /\ Makes(call, n) /\ n = Len(log') /\ n \in Calls /\ n # 0
        /\ n \in DOMAIN log' /\ log'[n] = call
        /\ Settled /\ Len(log) < MaxRequests
  BY <1>1, CalledFacts
<1>3. UNCHANGED <<backendState, queue, lru, disk, crashed>>
  BY DEF GetBackend
<1>4. log' \in Seq(CallType) /\ Len(log') <= MaxRequests
  <2>1. log \in Seq(CallType) /\ Len(log) \in Nat
    BY DEF CodeCacheInv, Types
  <2> QED BY <1>2, <2>1, AppendProperties, CodeCacheAssumption DEF Makes
<1>5. CASE backendState = "initializing"
  <2>1. PICK op : op = [NewOp("getBackend", None) EXCEPT !.callback = n]
    OBVIOUS
  <2>2. /\ op.type = "getBackend" /\ op.key = None /\ op.stage = "queued" /\ op.callback = n
    BY <2>1 DEF NewOp
  <2>3. op \in OpType(Keys \cup {None})
    <3>1. 0 \in 0 .. MaxRequests /\ n \in 0 .. MaxRequests
      BY <1>2, CodeCacheAssumption DEF Calls
    <3> QED BY <2>1, <3>1 DEF NewOp, OpType
  <2>4. pendingOps' = Append(pendingOps, op) /\ UNCHANGED answers
    BY <1>2, <1>5, <2>1 DEF GetBackend
  <2>5. Types'
    <3>1. pendingOps \in Seq(OpType(Keys \cup {None}))
      BY DEF CodeCacheInv, Types
    <3>2. pendingOps' \in Seq(OpType(Keys \cup {None}))
      BY <2>3, <2>4, <3>1, AppendProperties
    <3> QED BY <1>3, <1>4, <2>4, <3>2 DEF CodeCacheInv, Types
  <2>6. /\ <<op>> \in Seq(OpType(Keys \cup {None})) /\ ToSet(<<op>>) = {op} /\ KeysApart(<<op>>)
    BY <2>3 DEF ToSet, KeysApart
  <2>7. Adds({op})
    <3>1. pendingOps' = pendingOps \o <<op>>
      <4>1. pendingOps \in Seq(OpType(Keys \cup {None}))
        BY DEF CodeCacheInv, Types
      <4> QED BY <2>3, <2>4, <4>1
    <3> QED BY <1>3, <2>5, <2>6, <3>1, PendingAdds DEF CodeCacheInv
  <2>8. MadeBy({op}, call, n)
    BY <1>2, <2>2, KeysFacts DEF MadeBy
  <2>9. Sound(op)'
    <3>1. IsCall(n, "getBackend")'
      BY <1>2 DEF IsCall
    <3> QED BY <2>2, <3>1 DEF Sound, SoundGetBackend
  <2>10. /\ LinesInv' /\ Carried
         /\ backendState # "failed" =>
              \A r \in Resources : \A t : LaterToCome(r, t) => LaterToCome(r, t)'
         /\ \A c : HasWaiting(c)' <=> HasWaiting(c) \/ \E o \in {op} : o.callback = c
    BY <1>2, <1>3, <2>5, <2>7, <2>8, <2>9, CallAdds DEF CodeCacheInv
  <2>11. DiskSound' /\ WriteLanded'
    BY <1>2, <1>3, <2>5, <2>7, <2>10, DiskAtCall DEF CodeCacheInv, LinesInv
  <2>12. AnsweredOrWaiting' /\ AnswersFresh'
    <3>1. \A c \in Calls : HasWaiting(c)' <=> HasWaiting(c) \/ (c = n /\ Asks(call))
      BY <1>2, <2>2, <2>10 DEF Asks
    <3> QED BY <1>2, <2>4, <2>5, <3>1, CallAnswers DEF CodeCacheInv, LinesInv
  <2> QED BY <2>5, <2>10, <2>11, <2>12 DEF CodeCacheInv
<1>6. CASE backendState # "initializing"
  <2>1. Answer(n, 0, Empty) /\ UNCHANGED pendingOps
    BY <1>2, <1>6 DEF GetBackend
  <2>2. answers' \in [Calls -> Seq(AnswerType)]
    <3>1. answers \in [Calls -> Seq(AnswerType)]
      BY DEF CodeCacheInv, Types
    <3>2. Stamped(0, Empty) \in AnswerType
      BY CodeCacheAssumption DEF Stamped, AnswerType
    <3>3. answers' = [answers EXCEPT ![n] = Append(answers[n], Stamped(0, Empty))]
      BY <2>1 DEF Answer
    <3>4. Append(answers[n], Stamped(0, Empty)) \in Seq(AnswerType)
      BY <1>2, <3>1, <3>2, AppendProperties
    <3> QED BY <3>1, <3>3, <3>4
  <2>3. Types'
    BY <1>3, <1>4, <2>1, <2>2 DEF CodeCacheInv, Types
  <2>4. Adds({}) /\ MadeBy({}, call, n)
    <3>1. Adds({})
      BY <1>3, <2>1, <2>3, NoneAdds DEF CodeCacheInv
    <3> QED BY <1>2, <3>1 DEF MadeBy
  <2>5. /\ LinesInv' /\ Carried
        /\ backendState # "failed" =>
             \A r \in Resources : \A t : LaterToCome(r, t) => LaterToCome(r, t)'
        /\ \A c : HasWaiting(c)' <=> HasWaiting(c) \/ \E o \in {} : o.callback = c
    BY <1>2, <1>3, <2>3, <2>4, CallAdds DEF CodeCacheInv
  <2>6. DiskSound' /\ WriteLanded'
    BY <1>2, <1>3, <2>3, <2>4, <2>5, DiskAtCall DEF CodeCacheInv, LinesInv
  <2>7. AnsweredOrWaiting' /\ AnswersFresh'
    <3>1. \A c \in Calls : HasWaiting(c)' <=> HasWaiting(c)
      BY <2>5
    <3>2. Asks(call)
      BY <1>2 DEF Asks
    <3> QED BY <1>2, <2>1, <2>3, <3>1, <3>2, CallAnswers DEF CodeCacheInv, LinesInv
  <2> QED BY <2>3, <2>5, <2>6, <2>7 DEF CodeCacheInv
<1> QED BY <1>5, <1>6

-------------------------------------------------------------------------------
(* The invariant *)

LEMMA InitInv == Init => CodeCacheInv
<1> SUFFICES ASSUME Init PROVE CodeCacheInv
  OBVIOUS
<1>1. Types
  <2>1. log \in Seq(CallType) /\ Len(log) <= MaxRequests
    <3>1. log = <<>> /\ Len(log) = 0 /\ MaxRequests \in Nat
      BY CodeCacheAssumption DEF Init
    <3> QED BY <3>1
  <2>2. backendState \in {"initializing", "initialized", "failed"} /\ crashed \in BOOLEAN
    BY DEF Init
  <2>3. pendingOps \in Seq(OpType(Keys \cup {None})) /\ queue \in [Keys -> Seq(OpType(Keys))]
    BY DEF Init
  <2>4. answers \in [Calls -> Seq(AnswerType)]
    BY DEF Init
  <2>5. /\ lru \in [Keys -> {None} \cup [time : Calls, data : Data]]
        /\ disk \in [Keys -> {None} \cup [small : {Empty} \cup StampType, large : Data \cup {Empty}]]
    BY DEF Init
  <2> QED BY <2>1, <2>2, <2>3, <2>4, <2>5 DEF Types
<1>2. Places = {}
  BY DEF Init, Places
<1>3. LinesInv
  BY <1>2 DEF Init, LinesInv, Stages, OpsSound, InOrder, NothingOvertakes, CallbacksDistinct
<1>4. DiskSound /\ WriteLanded
  BY <1>2, KeysFacts DEF Init, DiskSound, WriteLanded
<1>5. AnsweredOrWaiting /\ AnswersFresh
  BY <1>2 DEF Init, AnsweredOrWaiting, AnswersFresh, HasWaiting, Asked
<1> QED BY <1>1, <1>3, <1>4, <1>5 DEF CodeCacheInv

LEMMA StutterInv ==
  ASSUME CodeCacheInv, UNCHANGED vars
  PROVE  CodeCacheInv'
<1>1. UNCHANGED <<backendState, pendingOps, queue, lru, disk, crashed, log, answers>>
  BY DEF vars
<1>2. lru' \in LruType /\ disk' \in DiskType /\ crashed' \in BOOLEAN
  BY <1>1 DEF CodeCacheInv, Types, LruType, DiskType
<1> QED BY <1>1, <1>2, StillKeeps

\* Every step of an operation that is worked on.
LEMMA CompleteInv ==
  ASSUME CodeCacheInv, NEW k \in Keys, Complete(k)
  PROVE  CodeCacheInv'
<1>1. CASE OpenFailedForWrite(k)
  BY <1>1, OpenFailedForWriteInv
<1>2. CASE OpenCompleteForWrite(k)
  BY <1>2, OpenCompleteForWriteInv
<1>3. CASE OpenMissedForRead(k)
  BY <1>3, OpenMissedForReadInv
<1>4. CASE OpenCompleteForRead(k)
  BY <1>4, OpenCompleteForReadInv
<1>5. ASSUME NEW succeeded \in BOOLEAN,
             WriteBufferComplete(k, succeeded) \/ ReadBufferComplete(k, succeeded)
      PROVE  CodeCacheInv'
  BY <1>5, WriteBufferCompleteInv, ReadBufferCompleteInv
<1> QED BY <1>1, <1>2, <1>3, <1>4, <1>5 DEF Complete

LEMMA NextInv == CodeCacheInv /\ [Next]_vars => CodeCacheInv'
<1> SUFFICES ASSUME CodeCacheInv, [Next]_vars PROVE CodeCacheInv'
  OBVIOUS
<1>1. ASSUME NEW r \in Resources, FetchEntry(r)
      PROVE  CodeCacheInv'
  BY <1>1, FetchEntryInv
<1>2. ASSUME NEW r \in Resources, DeleteEntry(r)
      PROVE  CodeCacheInv'
  BY <1>2, DeleteEntryInv
<1>3. ASSUME NEW r \in Resources, NEW data \in Data, WriteEntry(r, data)
      PROVE  CodeCacheInv'
  BY <1>3, WriteEntryInv
<1>4. CASE GetBackend
  BY <1>4, GetBackendInv
<1>5. CASE ClearInMemoryCache
  BY <1>5, EvictionInv
<1>6. CASE DidCreateBackend
  BY <1>6, DidCreateBackendInv
<1>7. CASE IssuePendingOperation
  BY <1>7, IssuePendingOperationInv
<1>8. ASSUME NEW k \in Keys, IssueNextOperation(k)
      PROVE  CodeCacheInv'
  BY <1>8, FetchEntryImplInv, WriteEntryImplInv, DeleteEntryImplInv DEF IssueNextOperation
<1>9. ASSUME NEW k \in Keys, Complete(k)
      PROVE  CodeCacheInv'
  BY <1>9, CompleteInv
<1>10. ASSUME NEW k \in Keys, LruEvicts(k) \/ BackendEvicts(k)
       PROVE  CodeCacheInv'
  BY <1>10, EvictionInv
<1>11. CASE UNCHANGED vars
  BY <1>11, StutterInv
<1> QED BY <1>1, <1>2, <1>3, <1>4, <1>5, <1>6, <1>7, <1>8, <1>9, <1>10, <1>11 DEF Next

\* The lines of operations, the disk and the callbacks are as described, after any
\* calls, completions, failures and evictions (generated_code_cache.cc).
THEOREM CodeCacheIsInvariant == Spec => []CodeCacheInv
<1>1. Init => CodeCacheInv
  BY InitInv
<1>2. CodeCacheInv /\ [Next]_vars => CodeCacheInv'
  BY NextInv
<1> QED BY <1>1, <1>2, PTL DEF Spec

\* TypeOK, for every size of the data, every fault and any number of calls; what the
\* in-memory cache remembers is stamped with the time of a call, so it is never a miss
\* (RunReadCallback).
THEOREM CodeCacheTypeOK == Spec => []TypeOK
<1>1. CodeCacheInv => TypeOK
  <2> SUFFICES ASSUME CodeCacheInv PROVE TypeOK
    OBVIOUS
  <2>1. PlacesForm
    BY PlacesFacts DEF CodeCacheInv
  <2>2. \A op \in ToSet(pendingOps) : op \in OpType(Keys \cup {None})
    BY <2>1 DEF PlacesForm, ToSet
  <2>3. ASSUME NEW k \in Keys, NEW op \in ToSet(queue[k])
        PROVE  op \in OpType({k})
    <3>1. PICK i \in 1 .. Len(queue[k]) : op = queue[k][i]
      BY <2>1 DEF PlacesForm, ToSet
    <3>2. op \in OpType(Keys) /\ <<k, i>> \in Places /\ OpAt(<<k, i>>) = op
      BY <2>1, <3>1 DEF PlacesForm
    <3>3. op.key = k
      BY <3>2, KeysFacts DEF CodeCacheInv, LinesInv, Stages
    <3> QED BY <3>2, <3>3 DEF OpType
  <2>4. \A c \in Calls : Len(answers[c]) <= 1
    BY DEF CodeCacheInv, AnsweredOrWaiting
  <2> QED BY <2>2, <2>3, <2>4 DEF TypeOK, CodeCacheInv, Types
<1> QED BY <1>1, CodeCacheIsInvariant, PTL

\* CallbackExactlyOnce: the callback of a fetch or of GetBackend is run once, or waits
\* in exactly one operation, through every queue, move and failure.
THEOREM AnsweredExactlyOnce == Spec => []CallbackExactlyOnce
<1>1. CodeCacheInv => CallbackExactlyOnce
  <2> SUFFICES ASSUME CodeCacheInv, NEW c \in Asked
               PROVE  Len(answers[c]) + Cardinality(Waiting(c)) = 1
    BY DEF CallbackExactlyOnce
  <2>1. PlacesForm
    BY PlacesFacts DEF CodeCacheInv
  <2>2. c \in Calls /\ c # 0
    <3>1. log \in Seq(CallType) /\ Len(log) <= MaxRequests
      BY DEF CodeCacheInv, Types
    <3>2. DOMAIN log = 1 .. Len(log) /\ Len(log) \in Nat
      BY <3>1, LenProperties
    <3> QED BY <3>1, <3>2, CodeCacheAssumption DEF Asked, Calls
  <2>3. Waiting(c) = { p \in Places : OpAt(p).callback = c }
    <3>1. ASSUME NEW p \in Waiting(c)
          PROVE  p \in Places /\ OpAt(p).callback = c
      <4>1. CASE p \in {None} \X { i \in DOMAIN pendingOps : pendingOps[i].callback = c }
        BY <2>1, <4>1 DEF PlacesForm
      <4>2. ASSUME NEW k \in Keys,
                   p \in {k} \X { i \in DOMAIN queue[k] : queue[k][i].callback = c }
            PROVE  p \in Places /\ OpAt(p).callback = c
        <5>1. PICK i \in 1 .. Len(queue[k]) : p = <<k, i>> /\ queue[k][i].callback = c
          BY <2>1, <4>2 DEF PlacesForm
        <5> QED BY <2>1, <5>1 DEF PlacesForm
      <4> QED BY <4>1, <4>2 DEF Waiting
    <3>2. ASSUME NEW p \in Places, OpAt(p).callback = c
          PROVE  p \in Waiting(c)
      <4>1. CASE p[1] = None /\ p[2] \in 1 .. Len(pendingOps)
        <5>1. p = <<None, p[2]>> /\ pendingOps[p[2]].callback = c /\ p[2] \in DOMAIN pendingOps
          BY <2>1, <3>2, <4>1 DEF PlacesForm, OpAt
        <5> QED BY <5>1 DEF Waiting
      <4>2. CASE p[1] # None /\ p[1] \in Keys /\ p[2] \in 1 .. Len(queue[p[1]])
        <5>1. PICK k, i : /\ k \in Keys /\ i \in DOMAIN queue[k] /\ p = <<k, i>>
                          /\ queue[k][i].callback = c
          BY <2>1, <3>2, <4>2 DEF PlacesForm, OpAt
        <5>2. p \in {k} \X { j \in DOMAIN queue[k] : queue[k][j].callback = c }
          BY <5>1
        <5>3. k \in Keys
          BY <5>1
        <5>4. p \in UNION { {l} \X { j \in DOMAIN queue[l] : queue[l][j].callback = c } : l \in Keys }
          BY <5>2, <5>3
        <5> QED BY <5>4 DEF Waiting
      <4> QED BY <2>1, <4>1, <4>2 DEF PlacesForm
    <3> QED BY <3>1, <3>2
  <2>4. /\ answers[c] \in Seq(AnswerType) /\ Len(answers[c]) \in Nat /\ Len(answers[c]) <= 1
        /\ HasWaiting(c) => answers[c] = <<>>
        /\ HasWaiting(c) \/ answers[c] # <<>>
    <3>1. answers[c] \in Seq(AnswerType)
      BY <2>2 DEF CodeCacheInv, Types
    <3> QED BY <2>2, <3>1, LenProperties DEF CodeCacheInv, AnsweredOrWaiting
  <2>5. CASE HasWaiting(c)
    <3>1. PICK p \in Places : OpAt(p).callback = c
      BY <2>5 DEF HasWaiting
    <3>2. Waiting(c) = {p}
      BY <2>2, <2>3, <3>1 DEF CodeCacheInv, LinesInv, CallbacksDistinct
    <3>3. Cardinality(Waiting(c)) = 1
      BY <3>2, FS_Singleton
    <3> QED BY <2>4, <2>5, <3>3
  <2>6. CASE ~HasWaiting(c)
    <3>1. Waiting(c) = {}
      BY <2>3, <2>6 DEF HasWaiting
    <3>2. Cardinality(Waiting(c)) = 0
      BY <3>1, FS_EmptySet
    <3>3. Len(answers[c]) = 1
      <4>1. \A a \in Seq(AnswerType) : a # <<>> => Len(a) >= 1
        BY TailFacts
      <4>2. Len(answers[c]) >= 1
        BY <2>4, <2>6, <4>1
      <4>3. \A n \in Nat : n <= 1 /\ n >= 1 => n = 1
        OBVIOUS
      <4> QED BY <2>4, <4>2, <4>3
    <3> QED BY <3>2, <3>3
  <2> QED BY <2>5, <2>6
<1> QED BY <1>1, CodeCacheIsInvariant, PTL

\* FetchIsFresh, unless fetches consult the in-memory cache: what a fetch returns is
\* the last thing asked of its resource before it, whatever failed in between.
THEOREM FetchesAreFresh == ASSUME ~InMemoryCodeCache PROVE Spec => []FetchIsFresh
<1>1. CodeCacheInv => FetchIsFresh
  <2> SUFFICES ASSUME CodeCacheInv, NEW c \in Asked, NEW a \in ToSet(answers[c]), a.time # 0
               PROVE  /\ log[a.time] = [method |-> "write", resource |-> log[c].resource,
                                        data |-> a.data]
                      /\ \A n \in Changes(log[c].resource) : n <= a.time \/ n >= c
    BY DEF FetchIsFresh
  <2>1. c \in Calls
    <3>1. log \in Seq(CallType) /\ Len(log) <= MaxRequests
      BY DEF CodeCacheInv, Types
    <3>2. DOMAIN log = 1 .. Len(log) /\ Len(log) \in Nat
      BY <3>1, LenProperties
    <3> QED BY <3>1, <3>2, CodeCacheAssumption DEF Asked, Calls
  <2>2. PICK i \in DOMAIN answers[c] : a = answers[c][i]
    BY DEF ToSet
  <2> QED BY <2>1, <2>2 DEF CodeCacheInv, AnswersFresh, Written, Fresh
<1> QED BY <1>1, CodeCacheIsInvariant, PTL

\* DiskMatchesLastRequest: with nothing pending, both streams of an entry on disk are what
\* the last write of its resource asked for, though each of the two writes may fail and
\* leave anything (WriteComplete); merged data that no write is at work on is whole.
THEOREM DiskIsLastRequest == Spec => []DiskMatchesLastRequest
<1>1. CodeCacheInv => DiskMatchesLastRequest
  <2> SUFFICES ASSUME CodeCacheInv
               PROVE  /\ (Settled /\ \A k \in Keys : queue[k] = <<>>) =>
                           \A r \in Resources : disk[r] # None =>
                             \E n \in Changes(r) :
                               /\ log[n].method = "write" /\ \A m \in Changes(r) : m <= n
                               /\ LET write == Last(WriteOps(r, n, log[n].data))
                                  IN  disk[r] = [small |-> write.small, large |-> write.large]
                      /\ \A d \in Data : \A k : k = Checksum(d) =>
                           ((\/ queue[k] = <<>> \/ front(k).type \notin Writes
                             \/ front(k).stage \in {"queued", "opening"}) =>
                              disk[k] \in {None, [small |-> Empty, large |-> d]})
    BY DEF DiskMatchesLastRequest
  <2>1. ASSUME NEW d \in Data, NEW k, k = Checksum(d),
               \/ queue[k] = <<>> \/ front(k).type \notin Writes
               \/ front(k).stage \in {"queued", "opening"}
        PROVE  disk[k] \in {None, [small |-> Empty, large |-> d]}
    <3>1. k \in Keys /\ k # None /\ PlacesForm
      BY <2>1, KeysFacts, PlacesFacts DEF CodeCacheInv
    <3>2. ~Writing(k)
      <4> SUFFICES ASSUME Writing(k) PROVE FALSE
        OBVIOUS
      <4>1. <<k, 1>> \in Places /\ OpAt(<<k, 1>>).type \in Writes /\ Reading(OpAt(<<k, 1>>))
        BY DEF Writing
      <4>2. queue[k] # <<>>
        BY <3>1, <4>1 DEF PlacesForm
      <4>3. OpAt(<<k, 1>>) = front(k)
        BY <3>1, <4>2, FrontFacts
      <4> QED BY <2>1, <4>1, <4>2, <4>3 DEF Reading
    <3>3. ~Writing(Checksum(d))
      BY <2>1, <3>2
    <3> QED BY <2>1, <3>3 DEF CodeCacheInv, DiskSound
  <2>2. ASSUME Settled, \A k \in Keys : queue[k] = <<>>, NEW r \in Resources, disk[r] # None
        PROVE  \E n \in Changes(r) :
                 /\ log[n].method = "write" /\ \A m \in Changes(r) : m <= n
                 /\ LET write == Last(WriteOps(r, n, log[n].data))
                    IN  disk[r] = [small |-> write.small, large |-> write.large]
    <3>3. Places = {}
      <4>1. backendState = "initialized"
        BY <2>2, KeysFacts DEF CodeCacheInv, DiskSound
      <4>2. pendingOps = <<>>
        BY <2>2, <4>1 DEF Settled
      <4> QED BY <2>2, <4>2 DEF Places
    <3>0. ~Writing(r)
      BY <3>3 DEF Writing
    <3>1. Stored(r, disk[r].small, disk[r].large) /\ LaterToCome(r, disk[r].small.time)
      BY <2>2, <3>0 DEF CodeCacheInv, DiskSound
    <3>2. PICK n, d : /\ d \in Data /\ n = disk[r].small.time /\ Written(r, n, d)
                      /\ disk[r].small = SmallOf(n, d) /\ disk[r].large = LargeOf(d)
                      /\ n \in Calls
      BY <3>1 DEF Stored, StampType
    <3>4. \A m \in Changes(r) : ~(m > n)
      BY <3>1, <3>2, <3>3 DEF LaterToCome, ToCome
    <3>5. \A m \in Changes(r) : m \in Nat
      <4>1. log \in Seq(CallType)
        BY DEF CodeCacheInv, Types
      <4>2. DOMAIN log = 1 .. Len(log) /\ Len(log) \in Nat
        BY <4>1, LenProperties
      <4> QED BY <4>2 DEF Changes
    <3>6. n \in Changes(r) /\ log[n].method = "write" /\ log[n].data = d
      BY <3>2 DEF Written, Changes
    <3>7. \A m \in Changes(r) : m <= n
      BY <3>2, <3>4, <3>5 DEF Calls
    <3>8. PICK op : /\ IsWriteOp(op, r, n, d)
                    /\ \/ WriteOps(r, n, d) = <<op>>
                       \/ \E merged : WriteOps(r, n, d) = <<merged, op>>
      BY <3>2, WriteOpsForm
    <3>9. Last(WriteOps(r, n, d)) = op
      <4>1. ASSUME NEW s, s = <<op>> PROVE Last(s) = op
        BY <4>1 DEF Last
      <4>2. ASSUME NEW s, NEW merged, s = <<merged, op>> PROVE Last(s) = op
        BY <4>2 DEF Last
      <4> QED BY <3>8, <4>1, <4>2
    <3>10. disk[r] = [small |-> op.small, large |-> op.large]
      <4>1. disk[r] \in [small : {Empty} \cup StampType, large : Data \cup {Empty}]
        BY <2>2, KeysFacts DEF CodeCacheInv, Types
      <4> QED BY <3>2, <3>8, <4>1 DEF IsWriteOp
    <3> QED BY <3>6, <3>7, <3>9, <3>10
  <2> QED BY <2>1, <2>2
<1> QED BY <1>1, CodeCacheIsInvariant, PTL

================================================================================
