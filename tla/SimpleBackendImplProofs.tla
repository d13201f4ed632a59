----------------------- MODULE SimpleBackendImplProofs -------------------------
(***************************************************************************)
(* The backend, for any keys, any finite set of hashes and any number of   *)
(* requests: the CHECKs of the code hold (ChecksHold), the map of active   *)
(* entries is right (TypeOK), and what waits has something to wait for     *)
(* (IdleWaitsForNothing).                                                  *)
(*                                                                         *)
(* Every handler is a chain of small changes of one record, and what the   *)
(* changes preserve is a conjunction of parts that each look at a few of   *)
(* its fields.  A part is an operator of these fields, so that a change of *)
(* others leaves it alone.                                                 *)
(*                                                                         *)
(* When an operation is over its queue is run, closure by closure, and     *)
(* each may start another operation on the hash.  The parts therefore say  *)
(* what is under way on a hash, `owed' of which are the hashes of a doom   *)
(* of many whose queues are still to be run; `told' is an entry that is    *)
(* about to hear that the doom before it is over.                          *)
(***************************************************************************)
EXTENDS SimpleBackendImpl, TLAPS, FiniteSetTheorems, WellFoundedInduction

Live(entry) == {s \in DOMAIN entry : entry[s] # Gone}

\* The entry is being opened by its hash.
Opener(e) == e.queue # <<>> /\ e.queue[1].op = "openFromHash"

\* What holds of an entry, wherever it is.
Sound(e) ==
  /\ \A i \in 2 .. Len(e.queue) : e.queue[i].op # "openFromHash"
  /\ Opener(e) => /\ e.key = NoKey /\ e.state = "uninitialized"
                  /\ e.createPendingDoom = "none"
                  /\ e.doomed => e.waited
  /\ e.key = NoKey => e.doomed \/ Opener(e)
  /\ e.key = NoKey => \A i \in DOMAIN e.queue : e.queue[i].op \notin {"create", "openOrCreate"}
  /\ e.createPendingDoom = "create" => ~e.doomed
  /\ e.createPendingDoom = "followedByDoom" => e.doomed
  /\ e.waited => e.doomed /\ e.createPendingDoom = "none"
  /\ e.waited \/ e.createPendingDoom = "followedByDoom" =>
       \E i \in DOMAIN e.queue : e.queue[i].op = "doom"

AllSound(entry) ==
  /\ entry \in Seq(EntryObjects \cup {Gone})
  /\ \A s \in Live(entry) : Sound(entry[s])

\* The map holds the entry of a hash that is not doomed, and there is one at most.
OnMap(active, entry) ==
  /\ active \in [Hashes -> Nat]
  /\ \A h \in Hashes :
       active[h] # 0 => /\ active[h] \in Live(entry) /\ entry[active[h]].hash = h
                        /\ ~entry[active[h]].doomed
  /\ \A s \in Live(entry) : ~entry[s].doomed => active[entry[s].hash] = s

\* Requests wait for a doom that is under way ...
DoomsWaited(entry, postDoom, massDooms, owed) ==
  /\ \A h \in owed : postDoom[h] # NoQueue
  /\ \A s \in Live(entry) : entry[s].waited => postDoom[entry[s].hash] # NoQueue
  /\ \A i \in DOMAIN massDooms : \A h \in massDooms[i].hashes : postDoom[h] # NoQueue

\* ... there is one for a hash at most ...
OneDoom(entry, massDooms, owed) ==
  /\ \A s \in Live(entry) : entry[s].waited => entry[s].hash \notin owed
  /\ \A i \in DOMAIN massDooms : massDooms[i].hashes \cap owed = {}
  /\ \A s, t \in Live(entry) :
       entry[s].waited /\ entry[t].waited /\ entry[s].hash = entry[t].hash => s = t
  /\ \A s \in Live(entry), i \in DOMAIN massDooms :
       entry[s].waited => entry[s].hash \notin massDooms[i].hashes
  /\ \A i, j \in DOMAIN massDooms :
       i # j => massDooms[i].hashes \cap massDooms[j].hashes = {}

\* ... and nothing waits for one that is not.
SomeDoom(entry, postDoom, massDooms, owed) ==
  \A h \in Hashes : postDoom[h] # NoQueue =>
    \/ h \in owed
    \/ \E s \in Live(entry) : entry[s].waited /\ entry[s].hash = h
    \/ \E i \in DOMAIN massDooms : h \in massDooms[i].hashes

\* An entry that was created behind a doom waits for it, first in line.
Notified(entry, postDoom, told) ==
  /\ \A s \in Live(entry) \ {told} :
       entry[s].createPendingDoom # "none" =>
         LET queue == postDoom[entry[s].hash]
         IN queue # NoQueue /\ queue # <<>> /\ queue[1] = [op |-> "notify", slot |-> s]
  /\ \A h \in Hashes : postDoom[h] # NoQueue =>
       \A i \in DOMAIN postDoom[h] : postDoom[h][i].op = "notify" =>
         LET s == postDoom[h][i].slot
         IN i = 1 /\ s \in Live(entry) /\ entry[s].hash = h /\ entry[s].createPendingDoom # "none"

\* What is on the map during a doom was created behind it.
BehindDoom(active, entry, postDoom) ==
  \A h \in Hashes : postDoom[h] # NoQueue /\ active[h] # 0 =>
    entry[active[h]].createPendingDoom = "create"

\* The entry that is about to be told: nothing is under way for it.
Hearing(active, entry, postDoom, told) ==
  told # 0 =>
    /\ told \in Live(entry) /\ entry[told].createPendingDoom # "none"
    /\ postDoom[entry[told].hash] = NoQueue
    /\ entry[told].doomed => active[entry[told].hash] = 0

\* Requests wait for an open by hash that is under way.
OpensUnderWay(entry, postOpenByHash) ==
  /\ \A s \in Live(entry) : Opener(entry[s]) => postOpenByHash[entry[s].hash] # NoQueue
  /\ \A h \in Hashes : postOpenByHash[h] # NoQueue =>
       \E s \in Live(entry) : Opener(entry[s]) /\ entry[s].hash = h

\* What is under way, on the map and off it.
Parts(active, entry, postDoom, postOpenByHash, massDooms, owed, told) ==
  /\ massDooms \in Seq([hashes : SUBSET Hashes, r : Nat]) /\ owed \subseteq Hashes
  /\ AllSound(entry)
  /\ OnMap(active, entry)
  /\ DoomsWaited(entry, postDoom, massDooms, owed)
  /\ OneDoom(entry, massDooms, owed)
  /\ SomeDoom(entry, postDoom, massDooms, owed)
  /\ Notified(entry, postDoom, told)
  /\ Hearing(active, entry, postDoom, told)
  /\ BehindDoom(active, entry, postDoom)
  /\ OpensUnderWay(entry, postOpenByHash)

\* A request: what it asks for never changes.
Asked(requests, r, h) ==
  r \in DOMAIN requests /\ requests[r].op \in KeyedOperations /\ hashOf[requests[r].key] = h

ClosureOK(requests, h, c) ==
  /\ c.op = "request" => Asked(requests, c.r, h)
  /\ c.op \in {"openFromHash", "doomFromHash"} => c.hash = h

Queues(table, requests) ==
  /\ table \in [Hashes -> Seq(Closures) \cup {NoQueue}]
  /\ \A h \in Hashes : table[h] # NoQueue =>
       \A i \in DOMAIN table[h] : ClosureOK(requests, h, table[h][i])

OnlyRequests(postOpenByHash) ==
  \A h \in Hashes : postOpenByHash[h] # NoQueue =>
    \A i \in DOMAIN postOpenByHash[h] : postOpenByHash[h][i].op = "request"

RequestRecords ==
  [op : KeyedOperations \cup {"next", "doomAll", "doomHeld"}, key : Keys \cup {NoKey},
   slot : Nat, result : {"none", "ok", "created", "failed"}, born : Nat, calls : Nat,
   left : SUBSET Hashes, dooms : SUBSET Hashes, before : SUBSET Nat]

RequestsOK(requests) ==
  /\ requests \in Seq(RequestRecords)
  /\ \A r \in DOMAIN requests :
       /\ requests[r].op \in KeyedOperations => requests[r].key \in Keys
       /\ requests[r].op = "next" => requests[r].key = NoKey

Fields == {"active", "postDoom", "postOpenByHash", "index", "entry", "massDooms",
           "barrier", "requests", "failedChecks", "leftover"}

\* A record of the backend's fields.
Shaped(b) == b = [f \in Fields |-> b[f]]

BackendInv(b, owed, told) ==
  /\ Shaped(b)
  /\ b.index \subseteq Hashes
  /\ b.failedChecks = {}
  /\ RequestsOK(b.requests)
  /\ Parts(b.active, b.entry, b.postDoom, b.postOpenByHash, b.massDooms, owed, told)
  /\ Queues(b.postDoom, b.requests)
  /\ Queues(b.postOpenByHash, b.requests)
  /\ OnlyRequests(b.postOpenByHash)

Inv ==
  /\ hashOf \in [Keys -> Hashes]
  /\ optimistic \in BOOLEAN
  /\ disk \in [Hashes -> Files \cup {NoFile}]
  /\ BackendInv(backend, {}, 0)

-------------------------------------------------------------------------------
(* The folds *)

\* Among sets of subsets of a finite set there is a smallest one.
LEMMA SmallestSubset ==
  ASSUME NEW S, IsFiniteSet(S), NEW B, B \subseteq SUBSET S, B # {}
  PROVE  \E T \in B : \A U \in B : U \subseteq T => U = T
<1>1. SUBSET S \subseteq FiniteSubsetsOf(S)
  BY FS_Subset DEF FiniteSubsetsOf
<1>2. IsWellFoundedOn(StrictSubsetOrdering(S), FiniteSubsetsOf(S))
  BY FS_StrictSubsetOrderingWellFounded
<1>3. PICK T \in B : \A U \in B : ~ (<<U, T>> \in StrictSubsetOrdering(S))
  BY <1>1, <1>2, WFMin
<1> QED BY <1>3 DEF StrictSubsetOrdering

\* A finite set of numbers has a greatest one.
LEMMA MaxIsGreatest ==
  ASSUME NEW S, \A x \in S : x \in Nat, IsFiniteSet(S), S # {}
  PROVE  Max(S) \in S /\ \A x \in S : Max(S) >= x
<1>1. ASSUME NEW x \in S, \A y \in S : x >= y
      PROVE  Max(S) \in S /\ \A y \in S : Max(S) >= y
  BY <1>1 DEF Max
<1> DEFINE B == { T \in SUBSET S : T # {} /\ ~ \E x \in T : \A y \in T : x >= y }
<1>2. SUFFICES ASSUME B # {} PROVE FALSE
  BY <1>1
<1>0. IsFiniteSet(S)
  OBVIOUS
<1>3. PICK T \in B : \A U \in B : U \subseteq T => U = T
  <2>1. B \subseteq SUBSET S
    OBVIOUS
  <2> HIDE DEF B
  <2> QED BY <1>0, <1>2, <2>1, SmallestSubset
<1>4. PICK x \in T : TRUE
  BY <1>3
<1>5. PICK y \in T : ~ (x >= y)
  BY <1>3, <1>4
<1>6. T \ {x} \notin B
  BY <1>3, <1>4
<1>7. PICK m \in T \ {x} : \A z \in T \ {x} : m >= z
  BY <1>3, <1>5, <1>6
<1>8. x \in Nat /\ y \in Nat /\ m \in Nat /\ m >= y
  BY <1>3, <1>4, <1>5, <1>7
<1> QED BY <1>3, <1>5, <1>7, <1>8

\* A set of numbers that has 0 and every next number up to N has them all.
LEMMA CountUp ==
  ASSUME NEW N \in Nat, NEW T, 0 \in T, \A n \in 0 .. N - 1 : n \in T => n + 1 \in T
  PROVE  \A n \in 0 .. N : n \in T
<1> DEFINE G == { n \in 0 .. N : \A m \in 0 .. n : m \in T }
<1>1. /\ \A x \in G : x \in Nat
      /\ IsFiniteSet(G) /\ 0 \in G
  <2>1. IsFiniteSet(0 .. N) /\ G \subseteq 0 .. N
    BY FS_Interval
  <2> QED BY <2>1, FS_Subset
<1>2. PICK max : max = Max(G)
  OBVIOUS
<1>3. max \in G /\ \A x \in G : max >= x
  <2> HIDE DEF G
  <2> QED BY <1>1, <1>2, MaxIsGreatest
<1>4. CASE max = N
  BY <1>3, <1>4
<1>5. CASE max # N
  <2>1. max \in 0 .. N - 1 /\ max \in T
    BY <1>3, <1>5
  <2>2. max + 1 \in T
    BY <2>1
  <2>3. max + 1 \in 0 .. N /\ \A m \in 0 .. max + 1 : m \in 0 .. max \/ m = max + 1
    BY <2>1
  <2>4. max + 1 \in G
    BY <1>3, <2>2, <2>3
  <2>5. max >= max + 1
    BY <1>3, <2>4
  <2> QED BY <2>1, <2>5
<1> QED BY <1>4, <1>5

\* The folds of the handlers, as one: what is done with x, and in which order.
Step(kind, r, queue, x, c) ==
  CASE kind = "run"      -> RunClosure(c, queue[x])
    [] kind = "start"    -> OnDoomStart(c, x)
    [] kind = "doom"     -> DoomEntryFromHash(c, x, r)
    [] kind = "complete" -> OnOperationComplete(c, "postDoom", x)

Some(s) == CHOOSE x \in s : TRUE
Chosen(kind, s) == IF kind = "run" THEN Max(s) ELSE Some(s)

\* g holds what comes of every part of S.
Folded(g, kind, r, queue, base, S) ==
  g = [s \in SUBSET S |->
         IF s = {} THEN base
         ELSE Step(kind, r, queue, Chosen(kind, s), g[s \ {Chosen(kind, s)}])]

\* Every part of S has a chosen element.
Choosable(kind, S) == \A s \in SUBSET S : s # {} => Chosen(kind, s) \in s

LEMMA FoldUnfolds ==
  ASSUME NEW kind, NEW S, Choosable(kind, S), NEW r, NEW queue, NEW base, NEW g,
         Folded(g, kind, r, queue, base, S)
  PROVE  /\ g[{}] = base
         /\ \A s \in SUBSET S : s # {} =>
              /\ Chosen(kind, s) \in s /\ s \ {Chosen(kind, s)} \in SUBSET S
              /\ g[s] = Step(kind, r, queue, Chosen(kind, s), g[s \ {Chosen(kind, s)}])
BY DEF Folded, Choosable

LEMMA FoldsAgree ==
  ASSUME NEW kind, NEW S, Choosable(kind, S), IsFiniteSet(S), NEW T \in SUBSET S,
         NEW U \in SUBSET S, NEW r, NEW queue, NEW base,
         NEW g, Folded(g, kind, r, queue, base, T), NEW h, Folded(h, kind, r, queue, base, U),
         NEW s \in SUBSET T, s \in SUBSET U
  PROVE  g[s] = h[s]
<1> DEFINE B == { t \in SUBSET S : t \subseteq s /\ g[t] # h[t] }
<1>1. SUFFICES ASSUME B # {} PROVE FALSE
  OBVIOUS
<1>2. PICK t \in B : \A u \in B : u \subseteq t => u = t
  <2>1. B \subseteq SUBSET S
    OBVIOUS
  <2> HIDE DEF B
  <2> QED BY <1>1, <2>1, SmallestSubset
<1>3. Choosable(kind, T) /\ Choosable(kind, U)
  BY DEF Choosable
<1>4. t # {}
  <2>1. g[{}] = base /\ h[{}] = base
    BY <1>3, FoldUnfolds
  <2> QED BY <2>1
<1>5. PICK m : m = Chosen(kind, t)
  OBVIOUS
<1>6. m \in t /\ t \ {m} \in SUBSET S
  BY <1>3, <1>4, <1>5 DEF Choosable
<1>9. t \in SUBSET T /\ t \in SUBSET U
  OBVIOUS
<1>10. g[t] = Step(kind, r, queue, m, g[t \ {m}])
  BY <1>4, <1>5, <1>9 DEF Folded
<1>11. h[t] = Step(kind, r, queue, m, h[t \ {m}])
  BY <1>4, <1>5, <1>9 DEF Folded
<1>7. t \ {m} \in B
  BY <1>6, <1>10, <1>11
<1> QED BY <1>2, <1>6, <1>7

LEMMA FoldsExist ==
  ASSUME NEW kind, NEW S, Choosable(kind, S), IsFiniteSet(S), NEW r, NEW queue, NEW base
  PROVE  \E g : Folded(g, kind, r, queue, base, S)
<1> DEFINE B == { T \in SUBSET S : ~ \E g : Folded(g, kind, r, queue, base, T) }
<1>1. SUFFICES ASSUME B # {} PROVE FALSE
  OBVIOUS
<1>2. PICK T \in B : \A U \in B : U \subseteq T => U = T
  <2>1. B \subseteq SUBSET S
    OBVIOUS
  <2> HIDE DEF B
  <2> QED BY <1>1, <2>1, SmallestSubset
<1>0. \A U \in SUBSET T : Choosable(kind, U) /\ (U # {} => Chosen(kind, U) \in U)
  BY <1>2 DEF Choosable
<1> DEFINE done(U) == (CHOOSE h : Folded(h, kind, r, queue, base, U))[U]
           g == [s \in SUBSET T |->
                   IF s = {} THEN base
                   ELSE Step(kind, r, queue, Chosen(kind, s), done(s \ {Chosen(kind, s)}))]
<1>3. ASSUME NEW U, U \subseteq T, U # T
      PROVE  /\ U = {} => done(U) = base
             /\ U # {} => done(U) = Step(kind, r, queue, Chosen(kind, U),
                                         done(U \ {Chosen(kind, U)}))
  <2>1. PICK h : h = CHOOSE k : Folded(k, kind, r, queue, base, U)
    OBVIOUS
  <2>2. Folded(h, kind, r, queue, base, U)
    BY <1>2, <1>3, <2>1
  <2>3. done(U) = h[U]
    BY <2>1
  <2>4. ASSUME U # {}
        PROVE  done(U) = Step(kind, r, queue, Chosen(kind, U), done(U \ {Chosen(kind, U)}))
    <3>1. PICK m : m = Chosen(kind, U)
      OBVIOUS
    <3>2. m \in U /\ h[U] = Step(kind, r, queue, m, h[U \ {m}])
      BY <1>0, <1>3, <2>2, <2>4, <3>1, FoldUnfolds
    <3>3. PICK V, k : V = U \ {m} /\ k = CHOOSE f : Folded(f, kind, r, queue, base, V)
      OBVIOUS
    <3>4. V \subseteq T /\ V # T
      BY <1>3, <3>2, <3>3
    <3>5. Folded(k, kind, r, queue, base, V)
      BY <1>2, <3>3, <3>4
    <3>6. h[V] = k[V]
      <4>1. U \in SUBSET S /\ V \in SUBSET S /\ V \in SUBSET U /\ V \in SUBSET V
        BY <1>2, <1>3, <3>3
      <4> HIDE DEF done, g, B
      <4> QED BY <2>2, <3>5, <4>1, FoldsAgree
    <3> QED BY <2>3, <3>1, <3>2, <3>3, <3>6
  <2>5. U = {} => done(U) = base
    BY <1>0, <1>3, <2>2, <2>3, FoldUnfolds
  <2> QED BY <2>4, <2>5
<1>4. ASSUME NEW s \in SUBSET T, s # {}
      PROVE  g[s \ {Chosen(kind, s)}] = done(s \ {Chosen(kind, s)})
  <2>1. Chosen(kind, s) \in s
    BY <1>0, <1>4
  <2>2. PICK U : U = s \ {Chosen(kind, s)}
    OBVIOUS
  <2>3. U \subseteq T /\ U # T /\ U \in SUBSET T
    BY <2>1, <2>2
  <2>4. CASE U = {}
    <3>1. g[U] = base
      BY <2>3, <2>4
    <3>2. done(U) = base
      BY <1>3, <2>3, <2>4
    <3> QED BY <2>2, <3>1, <3>2
  <2>5. CASE U # {}
    <3>1. g[U] = Step(kind, r, queue, Chosen(kind, U), done(U \ {Chosen(kind, U)}))
      BY <2>3, <2>5
    <3>2. done(U) = Step(kind, r, queue, Chosen(kind, U), done(U \ {Chosen(kind, U)}))
      BY <1>3, <2>3, <2>5
    <3> QED BY <2>2, <3>1, <3>2
  <2> QED BY <2>4, <2>5
<1>5. PICK f : f = g
  OBVIOUS
<1>6. \A s \in SUBSET T :
        f[s] = IF s = {} THEN base
               ELSE Step(kind, r, queue, Chosen(kind, s), f[s \ {Chosen(kind, s)}])
  <2>1. ASSUME NEW s \in SUBSET T, s = {}
        PROVE  f[s] = base
    BY <1>5, <2>1
  <2>2. ASSUME NEW s \in SUBSET T, s # {}
        PROVE  f[s] = Step(kind, r, queue, Chosen(kind, s), f[s \ {Chosen(kind, s)}])
    <3>1. g[s] = Step(kind, r, queue, Chosen(kind, s), done(s \ {Chosen(kind, s)}))
      BY <2>2
    <3>2. g[s \ {Chosen(kind, s)}] = done(s \ {Chosen(kind, s)})
      BY <1>4, <2>2
    <3> HIDE DEF g, done
    <3> QED BY <1>5, <3>1, <3>2
  <2> QED BY <2>1, <2>2
<1>7. DOMAIN f = SUBSET T /\ f = [s \in DOMAIN f |-> f[s]]
  BY <1>5
<1>8. Folded(f, kind, r, queue, base, T)
  <2> HIDE DEF g, B, done
  <2> QED BY <1>6, <1>7 DEF Folded
<1> QED BY <1>2, <1>8

LEMMA SetsAreChoosable ==
  ASSUME NEW kind, kind # "run", NEW S
  PROVE  Choosable(kind, S)
BY DEF Choosable, Chosen, Some

\* The closures of a queue are run one after the other.
RunQueue(base, queue) == FoldLeft(RunClosure, base, queue)
RunsQueue(base, queue, st) ==
  /\ st[0] = base
  /\ \A i \in 1 .. Len(queue) : st[i] = RunClosure(st[i - 1], queue[i])
  /\ RunQueue(base, queue) = st[Len(queue)]

LEMMA QueueRuns ==
  ASSUME NEW base, NEW S, NEW queue, queue \in Seq(S)
  PROVE  \E st : RunsQueue(base, queue, st)
<1>1. PICK n \in Nat : n = Len(queue)
  OBVIOUS
<1>2. PICK D : D = DOMAIN queue
  OBVIOUS
<1>3. D = 1 .. n /\ IsFiniteSet(D) /\ \A x \in D : x \in Nat
  <2>1. D = 1 .. n
    BY <1>1, <1>2
  <2>2. IsFiniteSet(1 .. n)
    BY FS_Interval
  <2> QED BY <2>1, <2>2
<1>4. \A s \in SUBSET D : s # {} => Max(s) \in s /\ \A x \in s : Max(s) >= x
  <2>1. ASSUME NEW s \in SUBSET D, s # {}
        PROVE  Max(s) \in s /\ \A x \in s : Max(s) >= x
    <3>1. IsFiniteSet(s) /\ \A x \in s : x \in Nat
      BY <1>3, FS_Subset
    <3> QED BY <2>1, <3>1, MaxIsGreatest
  <2> QED BY <2>1
<1>5. Choosable("run", D)
  BY <1>4 DEF Choosable, Chosen
<1> DEFINE Runs(g) == g = [s \in SUBSET D |-> IF s = {} THEN base
                             ELSE RunClosure(g[s \ {Max(s)}], queue[Max(s)])]
<1>6. FoldLeft(RunClosure, base, queue) = (CHOOSE g : Runs(g))[D]
  BY <1>2 DEF FoldLeft, MapThenFoldSet
<1>7. \A g : Folded(g, "run", 0, queue, base, D) => Runs(g)
  BY DEF Folded, Step, Chosen
<1>8. \E g : Runs(g)
  <2>1. \E g : Folded(g, "run", 0, queue, base, D)
    BY <1>3, <1>5, FoldsExist
  <2> HIDE DEF Runs
  <2> QED BY <1>7, <2>1
<1>9. PICK g : g = CHOOSE k : Runs(k)
  OBVIOUS
<1>10. Runs(g)
  <2> HIDE DEF Runs
  <2> QED BY <1>8, <1>9
<1>11. /\ g[{}] = base
       /\ \A s \in SUBSET D : s # {} => g[s] = RunClosure(g[s \ {Max(s)}], queue[Max(s)])
  BY <1>10
<1>12. FoldLeft(RunClosure, base, queue) = g[D]
  BY <1>6, <1>9
<1> DEFINE st == [i \in 0 .. n |-> g[1 .. i]]
<1> HIDE DEF Runs
<1>13. st[0] = base
  <2>1. 1 .. 0 = {} /\ 0 \in 0 .. n
    BY <1>1
  <2> QED BY <1>11, <2>1
<1>14. ASSUME NEW i \in 1 .. n
       PROVE  st[i] = RunClosure(st[i - 1], queue[i])
  <2>1. PICK I, J : I = 1 .. i /\ J = 1 .. i - 1
    OBVIOUS
  <2>2. I \in SUBSET D /\ i \in I /\ (\A x \in I : x \in Nat /\ i >= x)
    BY <1>1, <1>3, <2>1
  <2>3. PICK m : m = Max(I)
    OBVIOUS
  <2>4. m \in I /\ \A x \in I : m >= x
    BY <1>4, <2>2, <2>3
  <2>5. m = i
    BY <2>2, <2>4
  <2>6. J = I \ {i}
    BY <1>1, <2>1
  <2>7. g[I] = RunClosure(g[J], queue[i])
    BY <1>11, <2>2, <2>3, <2>5, <2>6
  <2>8. st[i] = g[I] /\ st[i - 1] = g[J]
    BY <1>1, <2>1
  <2> QED BY <2>7, <2>8
<1>15. st[n] = g[D]
  BY <1>1, <1>3
<1>16. PICK f : f = st
  OBVIOUS
<1> HIDE DEF st
<1>17. RunsQueue(base, queue, f)
  BY <1>1, <1>12, <1>13, <1>14, <1>15, <1>16 DEF RunsQueue, RunQueue
<1> QED BY <1>17

\* What is done with each hash of a set, g[s] when it is done with those in s.
StartsEach(base, S, g) ==
  /\ g[{}] = base
  /\ \A s \in SUBSET S : s # {} => g[s] = OnDoomStart(g[s \ {Some(s)}], Some(s))
  /\ StartDooms(base, S) = g[S]

LEMMA EachStarts ==
  ASSUME NEW base, NEW S, IsFiniteSet(S)
  PROVE  \E g : StartsEach(base, S, g)
<1> DEFINE Runs(g) == g = [s \in SUBSET S |-> IF s = {} THEN base
                             ELSE OnDoomStart(g[s \ {Some(s)}], Some(s))]
<1>1. StartDooms(base, S) = (CHOOSE g : Runs(g))[S]
  BY DEF StartDooms, FoldSet, MapThenFoldSet, Some
<1>2. \A g : Folded(g, "start", 0, <<>>, base, S) => Runs(g)
  BY DEF Folded, Step, Chosen
<1>3. \E g : Folded(g, "start", 0, <<>>, base, S)
  BY SetsAreChoosable, FoldsExist
<1>4. PICK g : g = CHOOSE k : Runs(k)
  OBVIOUS
<1>5. Runs(g)
  <2> HIDE DEF Runs
  <2> QED BY <1>2, <1>3, <1>4
<1>6. /\ g[{}] = base
      /\ \A s \in SUBSET S : s # {} => g[s] = OnDoomStart(g[s \ {Some(s)}], Some(s))
  BY <1>5
<1> HIDE DEF Runs
<1>7. StartsEach(base, S, g)
  BY <1>1, <1>4, <1>6 DEF StartsEach
<1> QED BY <1>7

DoomsEach(base, S, r, g) ==
  /\ g[{}] = base
  /\ \A s \in SUBSET S : s # {} => g[s] = DoomEntryFromHash(g[s \ {Some(s)}], Some(s), r)
  /\ DoomEach(base, S, r) = g[S]

LEMMA EachDooms ==
  ASSUME NEW base, NEW S, IsFiniteSet(S), NEW r
  PROVE  \E g : DoomsEach(base, S, r, g)
<1> DEFINE Runs(g) == g = [s \in SUBSET S |-> IF s = {} THEN base
                             ELSE DoomEntryFromHash(g[s \ {Some(s)}], Some(s), r)]
<1>1. DoomEach(base, S, r) = (CHOOSE g : Runs(g))[S]
  BY DEF DoomEach, FoldSet, MapThenFoldSet, Some
<1>2. \A g : Folded(g, "doom", r, <<>>, base, S) => Runs(g)
  BY DEF Folded, Step, Chosen
<1>3. \E g : Folded(g, "doom", r, <<>>, base, S)
  BY SetsAreChoosable, FoldsExist
<1>4. PICK g : g = CHOOSE k : Runs(k)
  OBVIOUS
<1>5. Runs(g)
  <2> HIDE DEF Runs
  <2> QED BY <1>2, <1>3, <1>4
<1>6. /\ g[{}] = base
      /\ \A s \in SUBSET S : s # {} => g[s] = DoomEntryFromHash(g[s \ {Some(s)}], Some(s), r)
  BY <1>5
<1> HIDE DEF Runs
<1>7. DoomsEach(base, S, r, g)
  BY <1>1, <1>4, <1>6 DEF DoomsEach
<1> QED BY <1>7

CompletesEach(base, S, g) ==
  /\ g[{}] = base
  /\ \A s \in SUBSET S : s # {} => g[s] = OnOperationComplete(g[s \ {Some(s)}], "postDoom", Some(s))
  /\ CompleteDooms(base, S) = g[S]

LEMMA EachCompletes ==
  ASSUME NEW base, NEW S, IsFiniteSet(S)
  PROVE  \E g : CompletesEach(base, S, g)
<1> DEFINE Runs(g) == g = [s \in SUBSET S |-> IF s = {} THEN base
                             ELSE OnOperationComplete(g[s \ {Some(s)}], "postDoom", Some(s))]
<1>1. CompleteDooms(base, S) = (CHOOSE g : Runs(g))[S]
  BY DEF CompleteDooms, FoldSet, MapThenFoldSet, Some
<1>2. \A g : Folded(g, "complete", 0, <<>>, base, S) => Runs(g)
  BY DEF Folded, Step, Chosen
<1>3. \E g : Folded(g, "complete", 0, <<>>, base, S)
  BY SetsAreChoosable, FoldsExist
<1>4. PICK g : g = CHOOSE k : Runs(k)
  OBVIOUS
<1>5. Runs(g)
  <2> HIDE DEF Runs
  <2> QED BY <1>2, <1>3, <1>4
<1>6. /\ g[{}] = base
      /\ \A s \in SUBSET S : s # {} => g[s] = OnOperationComplete(g[s \ {Some(s)}], "postDoom", Some(s))
  BY <1>5
<1> HIDE DEF Runs
<1>7. CompletesEach(base, S, g)
  BY <1>1, <1>4, <1>6 DEF CompletesEach
<1> QED BY <1>7

-------------------------------------------------------------------------------
(* The entry objects *)

\* The entry objects after one has changed or has been added.
Changed(entry, next, s, e) ==
  /\ next \in Seq(EntryObjects \cup {Gone})
  /\ Live(next) = Live(entry) \cup {s}
  /\ next[s] = e
  /\ \A t \in Live(entry) : t # s => next[t] = entry[t]

\* The entry objects after one has gone.
Dropped(entry, next, s) ==
  /\ next \in Seq(EntryObjects \cup {Gone})
  /\ Live(next) = Live(entry) \ {s}
  /\ \A t \in Live(next) : next[t] = entry[t]

LEMMA LiveIsTyped ==
  ASSUME NEW entry \in Seq(EntryObjects \cup {Gone}), NEW s \in Live(entry)
  PROVE  s \in DOMAIN entry /\ s \in Nat /\ s # 0 /\ entry[s] \in EntryObjects
<1>1. s \in 1 .. Len(entry) /\ entry[s] # Gone /\ Len(entry) \in Nat
  BY DEF Live
<1>2. entry[s] \in EntryObjects \cup {Gone}
  BY <1>1
<1> QED BY <1>1, <1>2

LEMMA MassDoomIsTyped ==
  ASSUME NEW massDooms \in Seq([hashes : SUBSET Hashes, r : Nat]), NEW i \in DOMAIN massDooms
  PROVE  massDooms[i].hashes \subseteq Hashes /\ massDooms[i].r \in Nat
<1>2. PICK S : S = [hashes : SUBSET Hashes, r : Nat]
  OBVIOUS
<1>3. massDooms \in Seq(S)
  BY <1>2
<1>4. massDooms[i] \in S
  BY <1>3
<1>1. massDooms[i] \in [hashes : SUBSET Hashes, r : Nat]
  BY <1>2, <1>4
<1> QED BY <1>1

LEMMA EmptyIsQueue == <<>> \in Seq(Closures) /\ <<>> # NoQueue
<1>1. <<>> \in Seq(Closures)
  OBVIOUS
<1> QED BY <1>1, BackendAssumption

LEMMA ExceptChanges ==
  ASSUME NEW entry \in Seq(EntryObjects \cup {Gone}), NEW s \in Live(entry), NEW e \in EntryObjects
  PROVE  Changed(entry, [entry EXCEPT ![s] = e], s, e)
<1>1. PICK next : next = [entry EXCEPT ![s] = e]
  OBVIOUS
<1>2. s \in DOMAIN entry
  BY DEF Live
<1>3. next \in Seq(EntryObjects \cup {Gone}) /\ DOMAIN next = DOMAIN entry
  BY <1>1, <1>2
<1>4. next[s] = e /\ \A t \in DOMAIN entry : t # s => next[t] = entry[t]
  BY <1>1, <1>2
<1>5. e # Gone
  BY BackendAssumption
<1>6. Live(next) = Live(entry) \cup {s}
  BY <1>2, <1>3, <1>4, <1>5 DEF Live
<1> QED BY <1>1, <1>3, <1>4, <1>6 DEF Changed, Live

LEMMA ExceptDrops ==
  ASSUME NEW entry \in Seq(EntryObjects \cup {Gone}), NEW s \in Live(entry)
  PROVE  Dropped(entry, [entry EXCEPT ![s] = Gone], s)
<1>1. PICK next : next = [entry EXCEPT ![s] = Gone]
  OBVIOUS
<1>2. s \in DOMAIN entry
  BY DEF Live
<1>3. next \in Seq(EntryObjects \cup {Gone}) /\ DOMAIN next = DOMAIN entry
  BY <1>1, <1>2
<1>4. next[s] = Gone /\ \A t \in DOMAIN entry : t # s => next[t] = entry[t]
  BY <1>1, <1>2
<1>6. Live(next) = Live(entry) \ {s}
  BY <1>2, <1>3, <1>4 DEF Live
<1> QED BY <1>1, <1>3, <1>4, <1>6 DEF Dropped, Live

\* Where a new object goes.
Put(entry, s, e) == IF s > Len(entry) THEN Append(entry, e) ELSE [entry EXCEPT ![s] = e]

LEMMA PutChanges ==
  ASSUME NEW entry \in Seq(EntryObjects \cup {Gone}), NEW s \in 1 .. Len(entry) + 1,
         s \notin Live(entry), NEW e \in EntryObjects
  PROVE  Changed(entry, Put(entry, s, e), s, e)
<1>1. PICK next : next = Put(entry, s, e)
  OBVIOUS
<1>2. PICK n \in Nat : n = Len(entry)
  OBVIOUS
<1>3. DOMAIN entry = 1 .. n /\ s \in 1 .. n + 1
  BY <1>2
<1>4. e # Gone
  BY BackendAssumption
<1>5. CASE s > n
  <2>1. next = Append(entry, e) /\ s = n + 1
    BY <1>1, <1>2, <1>3, <1>5 DEF Put
  <2>2. /\ next \in Seq(EntryObjects \cup {Gone}) /\ DOMAIN next = 1 .. n + 1
        /\ next[n + 1] = e /\ \A t \in 1 .. n : next[t] = entry[t]
    BY <1>2, <2>1
  <2>3. Live(next) = Live(entry) \cup {s}
    BY <1>2, <1>3, <1>4, <2>1, <2>2 DEF Live
  <2> QED BY <1>1, <1>3, <2>1, <2>2, <2>3 DEF Changed, Live
<1>6. CASE ~ (s > n)
  <2>1. next = [entry EXCEPT ![s] = e] /\ s \in DOMAIN entry
    BY <1>1, <1>2, <1>3, <1>6 DEF Put
  <2>2. /\ next \in Seq(EntryObjects \cup {Gone}) /\ DOMAIN next = DOMAIN entry
        /\ next[s] = e /\ \A t \in DOMAIN entry : t # s => next[t] = entry[t]
    BY <2>1
  <2>3. Live(next) = Live(entry) \cup {s}
    BY <1>4, <2>1, <2>2 DEF Live
  <2> QED BY <1>1, <2>1, <2>2, <2>3 DEF Changed, Live
<1> QED BY <1>5, <1>6

LEMMA NewSlotIsFree ==
  ASSUME NEW b, b.entry \in Seq(EntryObjects \cup {Gone})
  PROVE  NewSlot(b) \in 1 .. Len(b.entry) + 1 /\ NewSlot(b) \notin Live(b.entry)
<1>1. PICK n \in Nat : n = Len(b.entry)
  OBVIOUS
<1>2. n + 1 \in 1 .. n + 1 /\ n + 1 \notin Live(b.entry)
  BY <1>1 DEF Live
<1> QED BY <1>1, <1>2 DEF NewSlot, Entries, Live

-------------------------------------------------------------------------------
(* The parts, under each kind of change *)

\* A map that has changed at one place, a table in which one queue is longer.
At(f, i, x) == [f EXCEPT ![i] = x]
Longer(table, h, k) == [table EXCEPT ![h] = Append(table[h], k)]
Begun(table, h) == At(table, h, <<>>)

\* The entry looks the same to the others.
SameFace(d, e) ==
  /\ e.hash = d.hash /\ e.doomed = d.doomed /\ e.waited = d.waited
  /\ e.createPendingDoom = d.createPendingDoom
  /\ Opener(e) <=> Opener(d)

LEMMA TouchedParts ==
  ASSUME NEW active, NEW entry, NEW postDoom, NEW postOpenByHash, NEW massDooms,
         NEW owed, NEW told,
         Parts(active, entry, postDoom, postOpenByHash, massDooms, owed, told),
         NEW s \in Live(entry), NEW e, Sound(e), SameFace(entry[s], e),
         NEW next, Changed(entry, next, s, e)
  PROVE  Parts(active, next, postDoom, postOpenByHash, massDooms, owed, told)
<1>1. next \in Seq(EntryObjects \cup {Gone}) /\ Live(next) = Live(entry)
  BY DEF Changed
<1>2. /\ next[s] = e
      /\ \A t \in Live(entry) : t # s => next[t] = entry[t]
  BY DEF Changed
<1>3. \A t \in Live(entry) :
        /\ next[t].hash = entry[t].hash /\ next[t].doomed = entry[t].doomed
        /\ next[t].waited = entry[t].waited
        /\ next[t].createPendingDoom = entry[t].createPendingDoom
        /\ Opener(next[t]) <=> Opener(entry[t])
  <2>1. ASSUME NEW t \in Live(entry)
        PROVE  SameFace(entry[t], next[t])
    BY <1>2 DEF SameFace
  <2> QED BY <2>1 DEF SameFace
<1>4. AllSound(next)
  BY <1>1, <1>2 DEF AllSound, Parts
<1>5. OnMap(active, next)
  BY <1>1, <1>3 DEF OnMap, Parts
<1>6. DoomsWaited(next, postDoom, massDooms, owed)
  BY <1>1, <1>3 DEF DoomsWaited, Parts
<1>7. OneDoom(next, massDooms, owed)
  BY <1>1, <1>3 DEF OneDoom, Parts
<1>8. SomeDoom(next, postDoom, massDooms, owed)
  <2>1. ASSUME NEW h \in Hashes, NEW t \in Live(entry), entry[t].waited, entry[t].hash = h
        PROVE  \E u \in Live(next) : next[u].waited /\ next[u].hash = h
    BY <1>1, <1>3, <2>1
  <2> QED BY <2>1 DEF SomeDoom, Parts
<1>9. Notified(next, postDoom, told)
  <2>1. ASSUME NEW t \in Live(next) \ {told}, next[t].createPendingDoom # "none",
               NEW queue, queue = postDoom[next[t].hash]
        PROVE  queue # NoQueue /\ queue # <<>> /\ queue[1] = [op |-> "notify", slot |-> t]
    BY <1>1, <1>3, <2>1 DEF Notified, Parts
  <2>2. ASSUME NEW h \in Hashes, postDoom[h] # NoQueue, NEW i \in DOMAIN postDoom[h],
               postDoom[h][i].op = "notify", NEW t, t = postDoom[h][i].slot
        PROVE  i = 1 /\ t \in Live(next) /\ next[t].hash = h
               /\ next[t].createPendingDoom # "none"
    <3>1. i = 1 /\ t \in Live(entry) /\ entry[t].hash = h
          /\ entry[t].createPendingDoom # "none"
      BY <2>2 DEF Notified, Parts
    <3> QED BY <1>1, <1>3, <3>1
  <2> QED BY <2>1, <2>2 DEF Notified
<1>10. BehindDoom(active, next, postDoom)
  BY <1>1, <1>3 DEF BehindDoom, OnMap, Parts
<1>12. Hearing(active, next, postDoom, told)
  BY <1>1, <1>3 DEF Hearing, Parts
<1>11. OpensUnderWay(next, postOpenByHash)
  BY <1>1, <1>3 DEF OpensUnderWay, Parts
<1> QED BY <1>4, <1>5, <1>6, <1>7, <1>8, <1>9, <1>10, <1>11, <1>12 DEF Parts

Notify(s) == [op |-> "notify", slot |-> s]

\* A closure that is no notification goes to the end of a queue.
LEMMA WaitParts ==
  ASSUME NEW active, NEW entry, NEW postDoom \in [Hashes -> Seq(Closures) \cup {NoQueue}],
         NEW postOpenByHash, NEW massDooms, NEW owed,
         Parts(active, entry, postDoom, postOpenByHash, massDooms, owed, 0),
         NEW h \in Hashes, postDoom[h] # NoQueue, NEW c \in Closures, c.op # "notify",
         NEW next, next = Longer(postDoom, h, c)
  PROVE  Parts(active, entry, next, postOpenByHash, massDooms, owed, 0)
<1>1. postDoom[h] \in Seq(Closures)
  OBVIOUS
<1>2. PICK n \in Nat : n = Len(postDoom[h])
  BY <1>1
<1>3. /\ next[h] \in Seq(Closures) /\ DOMAIN next[h] = 1 .. n + 1 /\ next[h][n + 1] = c
      /\ next[h] # <<>> /\ \A i \in 1 .. n : next[h][i] = postDoom[h][i]
  BY <1>1, <1>2 DEF Longer
<1>4. next[h] # NoQueue /\ \A g \in Hashes : g # h => next[g] = postDoom[g]
  BY <1>3, BackendAssumption DEF Longer
<1>5. \A g \in Hashes : next[g] # NoQueue <=> postDoom[g] # NoQueue
  BY <1>4
<1>6. \A g \in Hashes : postDoom[g] # NoQueue /\ postDoom[g] # <<>> =>
        next[g] # <<>> /\ next[g][1] = postDoom[g][1]
  BY <1>1, <1>2, <1>3, <1>4
<1>7. ASSUME NEW g \in Hashes, next[g] # NoQueue, NEW i \in DOMAIN next[g],
             next[g][i].op = "notify"
      PROVE  i \in DOMAIN postDoom[g] /\ postDoom[g][i] = next[g][i]
  BY <1>1, <1>2, <1>3, <1>4, <1>7
<1>8. \A s \in Live(entry) : entry[s].hash \in Hashes
  BY LiveIsTyped DEF Parts, AllSound, EntryObjects
<1>9. DoomsWaited(entry, next, massDooms, owed)
  <2>1. ASSUME NEW i \in DOMAIN massDooms
        PROVE  massDooms[i].hashes \subseteq Hashes
    BY MassDoomIsTyped DEF Parts
  <2> QED BY <1>5, <1>8, <2>1 DEF DoomsWaited, Parts
<1>10. SomeDoom(entry, next, massDooms, owed)
  BY <1>5 DEF SomeDoom, Parts
<1>11. Notified(entry, next, 0)
  <2>1. ASSUME NEW s \in Live(entry) \ {0}, entry[s].createPendingDoom # "none",
               NEW g, g = entry[s].hash
        PROVE  next[g] # NoQueue /\ next[g] # <<>> /\ next[g][1] = [op |-> "notify", slot |-> s]
    BY <1>5, <1>6, <1>8, <2>1 DEF Notified, Parts
  <2>2. ASSUME NEW g \in Hashes, next[g] # NoQueue, NEW i \in DOMAIN next[g],
               next[g][i].op = "notify", NEW s, s = next[g][i].slot
        PROVE  i = 1 /\ s \in Live(entry) /\ entry[s].hash = g
               /\ entry[s].createPendingDoom # "none"
    <3>1. i \in DOMAIN postDoom[g] /\ postDoom[g][i] = next[g][i] /\ postDoom[g] # NoQueue
      BY <1>5, <1>7, <2>2
    <3> QED BY <2>2, <3>1 DEF Notified, Parts
  <2> QED BY <2>1, <2>2 DEF Notified
<1>12. BehindDoom(active, entry, next)
  BY <1>5 DEF BehindDoom, Parts
<1>13. Hearing(active, entry, next, 0)
  BY DEF Hearing
<1> QED BY <1>9, <1>10, <1>11, <1>12, <1>13 DEF Parts

\* An entry with a key is added when nothing is under way for the hash.
LEMMA AddParts ==
  ASSUME NEW active, NEW entry, NEW postDoom, NEW postOpenByHash, NEW massDooms, NEW owed,
         Parts(active, entry, postDoom, postOpenByHash, massDooms, owed, 0),
         NEW h \in Hashes, active[h] = 0, postDoom[h] = NoQueue,
         NEW s \in Nat \ {0}, s \notin Live(entry),
         NEW e, Sound(e), e.hash = h, ~e.doomed, ~e.waited, e.createPendingDoom = "none",
         NEW next, Changed(entry, next, s, e),
         NEW nextOpen, IF Opener(e) THEN /\ postOpenByHash \in [Hashes -> Seq(Closures) \cup {NoQueue}]
                                         /\ nextOpen = Begun(postOpenByHash, h)
                                    ELSE nextOpen = postOpenByHash
  PROVE  Parts(At(active, h, s), next, postDoom, nextOpen, massDooms, owed, 0)
<1>1. next \in Seq(EntryObjects \cup {Gone}) /\ Live(next) = Live(entry) \cup {s}
  BY DEF Changed
<1>2. next[s] = e /\ \A t \in Live(entry) : t # s /\ next[t] = entry[t]
  BY DEF Changed
<1>3. PICK map : map = At(active, h, s) /\ map = [active EXCEPT ![h] = s]
  BY DEF At
<1>4. /\ map \in [Hashes -> Nat] /\ map[h] = s
      /\ \A g \in Hashes : g # h => map[g] = active[g]
  BY <1>3 DEF Parts, OnMap
<1>5. \A t \in Live(entry) : entry[t].hash \in Hashes
  BY LiveIsTyped DEF Parts, AllSound, EntryObjects
<1>15. \A t \in Live(entry) : t # 0
  BY LiveIsTyped DEF Parts, AllSound
<1>20. active[h] = 0
  OBVIOUS
<1>6. AllSound(next)
  BY <1>1, <1>2 DEF AllSound, Parts
<1>7. OnMap(map, next)
  <2>1. ASSUME NEW g \in Hashes, map[g] # 0
        PROVE  map[g] \in Live(next) /\ next[map[g]].hash = g /\ ~next[map[g]].doomed
    <3>1. CASE g = h
      BY <1>1, <1>2, <1>4, <3>1
    <3>2. CASE g # h
      <4>1. map[g] = active[g]
        BY <1>4, <3>2
      <4>2. active[g] \in Live(entry) /\ entry[active[g]].hash = g /\ ~entry[active[g]].doomed
        BY <2>1, <4>1 DEF OnMap, Parts
      <4> QED BY <1>1, <1>2, <4>1, <4>2
    <3> QED BY <3>1, <3>2
  <2>2. ASSUME NEW t \in Live(next), ~next[t].doomed
        PROVE  map[next[t].hash] = t
    <3>1. CASE t = s
      BY <1>2, <1>4, <3>1
    <3>2. CASE t # s
      <4>1. t \in Live(entry) /\ next[t] = entry[t] /\ t # 0
        BY <1>1, <1>2, <1>15, <3>2
      <4>2. active[entry[t].hash] = t
        BY <2>2, <4>1 DEF OnMap, Parts
      <4>3. entry[t].hash # h
        BY <1>20, <4>1, <4>2
      <4> QED BY <1>4, <1>5, <4>1, <4>2, <4>3
    <3> QED BY <3>1, <3>2
  <2> QED BY <1>4, <2>1, <2>2 DEF OnMap
<1>8. DoomsWaited(next, postDoom, massDooms, owed)
  BY <1>1, <1>2 DEF DoomsWaited, Parts
<1>9. OneDoom(next, massDooms, owed)
  BY <1>1, <1>2 DEF OneDoom, Parts
<1>10. SomeDoom(next, postDoom, massDooms, owed)
  <2>1. ASSUME NEW g \in Hashes, NEW t \in Live(entry), entry[t].waited, entry[t].hash = g
        PROVE  \E u \in Live(next) : next[u].waited /\ next[u].hash = g
    BY <1>1, <1>2, <2>1
  <2> QED BY <2>1 DEF SomeDoom, Parts
<1>11. Notified(next, postDoom, 0)
  <2>1. ASSUME NEW t \in Live(next) \ {0}, next[t].createPendingDoom # "none",
               NEW queue, queue = postDoom[next[t].hash]
        PROVE  queue # NoQueue /\ queue # <<>> /\ queue[1] = [op |-> "notify", slot |-> t]
    BY <1>1, <1>2, <2>1 DEF Notified, Parts
  <2>2. ASSUME NEW g \in Hashes, postDoom[g] # NoQueue, NEW i \in DOMAIN postDoom[g],
               postDoom[g][i].op = "notify", NEW t, t = postDoom[g][i].slot
        PROVE  i = 1 /\ t \in Live(next) /\ next[t].hash = g
               /\ next[t].createPendingDoom # "none"
    <3>1. i = 1 /\ t \in Live(entry) /\ entry[t].hash = g
          /\ entry[t].createPendingDoom # "none"
      BY <2>2 DEF Notified, Parts
    <3> QED BY <1>1, <1>2, <3>1
  <2> QED BY <2>1, <2>2 DEF Notified
<1>12. Hearing(map, next, postDoom, 0)
  BY DEF Hearing
<1>13. BehindDoom(map, next, postDoom)
  <2>1. ASSUME NEW g \in Hashes, postDoom[g] # NoQueue, map[g] # 0
        PROVE  next[map[g]].createPendingDoom = "create"
    <3>1. PICK t : t = active[g]
      OBVIOUS
    <3>2. g # h /\ map[g] = t /\ t # 0
      BY <1>4, <2>1, <3>1
    <3>3. t \in Live(entry) /\ entry[t].createPendingDoom = "create"
      BY <2>1, <3>1, <3>2 DEF BehindDoom, Parts, OnMap
    <3> QED BY <1>2, <3>2, <3>3
  <2> QED BY <2>1 DEF BehindDoom
<1>14. OpensUnderWay(next, nextOpen)
  <2>1. ASSUME NEW g \in Hashes, NEW t \in Live(entry), Opener(entry[t]), entry[t].hash = g
        PROVE  \E u \in Live(next) : Opener(next[u]) /\ next[u].hash = g
    BY <1>1, <1>2, <2>1
  <2>2. CASE Opener(e)
    <3>1. nextOpen[h] = <<>> /\ \A g \in Hashes : g # h => nextOpen[g] = postOpenByHash[g]
      BY <2>2 DEF At, Begun
    <3>2. <<>> # NoQueue
      BY EmptyIsQueue
    <3>3. \A t \in Live(next) : Opener(next[t]) => nextOpen[next[t].hash] # NoQueue
      BY <1>1, <1>2, <1>5, <3>1, <3>2 DEF OpensUnderWay, Parts
    <3>4. ASSUME NEW g \in Hashes, nextOpen[g] # NoQueue
          PROVE  \E u \in Live(next) : Opener(next[u]) /\ next[u].hash = g
      <4>1. CASE g = h
        BY <1>1, <1>2, <2>2, <4>1
      <4>2. CASE g # h
        BY <2>1, <3>1, <3>4, <4>2 DEF OpensUnderWay, Parts
      <4> QED BY <4>1, <4>2
    <3> QED BY <3>3, <3>4 DEF OpensUnderWay
  <2>3. CASE ~Opener(e)
    BY <1>1, <1>2, <2>1, <2>3 DEF OpensUnderWay, Parts
  <2> QED BY <2>2, <2>3
<1> QED
  BY <1>3, <1>6, <1>7, <1>8, <1>9, <1>10, <1>11, <1>12, <1>13, <1>14 DEF Parts

\* An entry is added behind a doom, and is the first to wait for it.
LEMMA AddBehindParts ==
  ASSUME NEW active, NEW entry, NEW postDoom \in [Hashes -> Seq(Closures) \cup {NoQueue}],
         NEW postOpenByHash, NEW massDooms, NEW owed,
         Parts(active, entry, postDoom, postOpenByHash, massDooms, owed, 0),
         NEW h \in Hashes, postDoom[h] = <<>>,
         NEW s \in Nat \ {0}, s \notin Live(entry),
         NEW e, Sound(e), e.hash = h, ~e.doomed, ~e.waited, e.createPendingDoom = "create",
         ~Opener(e), NEW next, Changed(entry, next, s, e),
         NEW nextDoom, nextDoom = At(postDoom, h, <<Notify(s)>>)
  PROVE  /\ active[h] = 0
         /\ Parts(At(active, h, s), next, nextDoom, postOpenByHash, massDooms, owed, 0)
<1>0. <<>> # NoQueue
  BY EmptyIsQueue
<1>1. next \in Seq(EntryObjects \cup {Gone}) /\ Live(next) = Live(entry) \cup {s}
  BY DEF Changed
<1>2. next[s] = e /\ \A t \in Live(entry) : t # s /\ next[t] = entry[t]
  BY DEF Changed
<1>3. PICK map : map = At(active, h, s) /\ map = [active EXCEPT ![h] = s]
  BY DEF At
<1>4. /\ map \in [Hashes -> Nat] /\ map[h] = s
      /\ \A g \in Hashes : g # h => map[g] = active[g]
  BY <1>3 DEF Parts, OnMap
<1>5. \A t \in Live(entry) : entry[t].hash \in Hashes
  BY LiveIsTyped DEF Parts, AllSound, EntryObjects
<1>15. \A t \in Live(entry) : t # 0
  BY LiveIsTyped DEF Parts, AllSound
<1>16. nextDoom[h] = <<Notify(s)>> /\ \A g \in Hashes : g # h => nextDoom[g] = postDoom[g]
  BY DEF At
<1>17. Notify(s) \in Closures
  BY DEF Notify, Closures
<1>18. nextDoom[h] # NoQueue /\ \A g \in Hashes : nextDoom[g] # NoQueue <=> postDoom[g] # NoQueue
  <2>1. <<Notify(s)>> \in Seq(Closures)
    BY <1>17
  <2> QED BY <1>0, <1>16, <2>1, BackendAssumption
<1>19. \A t \in Live(entry) : entry[t].createPendingDoom # "none" => entry[t].hash # h
  <2>1. Notified(entry, postDoom, 0)
    BY DEF Parts
  <2>2. ASSUME NEW t \in Live(entry), entry[t].createPendingDoom # "none", entry[t].hash = h
        PROVE  FALSE
    <3>1. t \in Live(entry) \ {0}
      BY <1>15
    <3>2. postDoom[entry[t].hash] # <<>>
      BY <2>1, <2>2, <3>1 DEF Notified
    <3> QED BY <2>2, <3>2
  <2> QED BY <2>2
<1>20. active[h] = 0
  <2>1. ASSUME active[h] # 0
        PROVE  FALSE
    <3>1. active[h] \in Live(entry) /\ entry[active[h]].hash = h
      BY <2>1 DEF OnMap, Parts
    <3>2. entry[active[h]].createPendingDoom = "create"
      BY <1>0, <2>1 DEF BehindDoom, Parts
    <3> QED BY <1>19, <3>1, <3>2
  <2> QED BY <2>1
<1>6. AllSound(next)
  BY <1>1, <1>2 DEF AllSound, Parts
<1>7. OnMap(map, next)
  <2>1. ASSUME NEW g \in Hashes, map[g] # 0
        PROVE  map[g] \in Live(next) /\ next[map[g]].hash = g /\ ~next[map[g]].doomed
    <3>1. CASE g = h
      BY <1>1, <1>2, <1>4, <3>1
    <3>2. CASE g # h
      <4>1. map[g] = active[g]
        BY <1>4, <3>2
      <4>2. active[g] \in Live(entry) /\ entry[active[g]].hash = g /\ ~entry[active[g]].doomed
        BY <2>1, <4>1 DEF OnMap, Parts
      <4> QED BY <1>1, <1>2, <4>1, <4>2
    <3> QED BY <3>1, <3>2
  <2>2. ASSUME NEW t \in Live(next), ~next[t].doomed
        PROVE  map[next[t].hash] = t
    <3>1. CASE t = s
      BY <1>2, <1>4, <3>1
    <3>2. CASE t # s
      <4>1. t \in Live(entry) /\ next[t] = entry[t] /\ t # 0
        BY <1>1, <1>2, <1>15, <3>2
      <4>2. active[entry[t].hash] = t
        BY <2>2, <4>1 DEF OnMap, Parts
      <4>3. entry[t].hash # h
        BY <1>20, <4>1, <4>2
      <4> QED BY <1>4, <1>5, <4>1, <4>2, <4>3
    <3> QED BY <3>1, <3>2
  <2> QED BY <1>4, <2>1, <2>2 DEF OnMap
<1>21. ASSUME NEW i \in DOMAIN massDooms
       PROVE  massDooms[i].hashes \subseteq Hashes
  BY MassDoomIsTyped DEF Parts
<1>8. DoomsWaited(next, nextDoom, massDooms, owed)
  BY <1>1, <1>2, <1>5, <1>18, <1>21 DEF DoomsWaited, Parts
<1>9. OneDoom(next, massDooms, owed)
  BY <1>1, <1>2 DEF OneDoom, Parts
<1>10. SomeDoom(next, nextDoom, massDooms, owed)
  <2>1. ASSUME NEW g \in Hashes, NEW t \in Live(entry), entry[t].waited, entry[t].hash = g
        PROVE  \E u \in Live(next) : next[u].waited /\ next[u].hash = g
    BY <1>1, <1>2, <2>1
  <2> QED BY <1>18, <2>1 DEF SomeDoom, Parts
<1>11. Notified(next, nextDoom, 0)
  <2>1. ASSUME NEW t \in Live(next) \ {0}, next[t].createPendingDoom # "none",
               NEW queue, queue = nextDoom[next[t].hash]
        PROVE  queue # NoQueue /\ queue # <<>> /\ queue[1] = [op |-> "notify", slot |-> t]
    <3>1. CASE t = s
      BY <1>2, <1>16, <1>18, <2>1, <3>1 DEF Notify
    <3>2. CASE t # s
      <4>1. t \in Live(entry) /\ next[t] = entry[t] /\ entry[t].hash # h
        BY <1>1, <1>2, <1>19, <2>1, <3>2
      <4> QED BY <1>5, <1>16, <2>1, <4>1 DEF Notified, Parts
    <3> QED BY <3>1, <3>2
  <2>2. ASSUME NEW g \in Hashes, nextDoom[g] # NoQueue, NEW i \in DOMAIN nextDoom[g],
               nextDoom[g][i].op = "notify", NEW t, t = nextDoom[g][i].slot
        PROVE  i = 1 /\ t \in Live(next) /\ next[t].hash = g
               /\ next[t].createPendingDoom # "none"
    <3>1. CASE g = h
      <4>1. i = 1 /\ nextDoom[g][i] = Notify(s)
        BY <1>16, <2>2, <3>1
      <4> QED BY <1>1, <1>2, <2>2, <3>1, <4>1 DEF Notify
    <3>2. CASE g # h
      <4>1. i = 1 /\ t \in Live(entry) /\ entry[t].hash = g
            /\ entry[t].createPendingDoom # "none"
        BY <1>16, <2>2, <3>2 DEF Notified, Parts
      <4> QED BY <1>1, <1>2, <4>1
    <3> QED BY <3>1, <3>2
  <2> QED BY <2>1, <2>2 DEF Notified
<1>12. Hearing(map, next, nextDoom, 0)
  BY DEF Hearing
<1>13. BehindDoom(map, next, nextDoom)
  <2>1. ASSUME NEW g \in Hashes, nextDoom[g] # NoQueue, map[g] # 0
        PROVE  next[map[g]].createPendingDoom = "create"
    <3>1. CASE g = h
      BY <1>2, <1>4, <3>1
    <3>2. CASE g # h
      <4>1. map[g] = active[g] /\ postDoom[g] # NoQueue
        BY <1>4, <1>18, <2>1, <3>2
      <4>2. active[g] \in Live(entry) /\ entry[active[g]].createPendingDoom = "create"
        BY <2>1, <4>1 DEF BehindDoom, OnMap, Parts
      <4> QED BY <1>2, <4>1, <4>2
    <3> QED BY <3>1, <3>2
  <2> QED BY <2>1 DEF BehindDoom
<1>14. OpensUnderWay(next, postOpenByHash)
  <2>1. ASSUME NEW g \in Hashes, NEW t \in Live(entry), Opener(entry[t]), entry[t].hash = g
        PROVE  \E u \in Live(next) : Opener(next[u]) /\ next[u].hash = g
    BY <1>1, <1>2, <2>1
  <2> QED BY <1>1, <1>2, <2>1 DEF OpensUnderWay, Parts
<1> QED
  BY <1>3, <1>6, <1>7, <1>8, <1>9, <1>10, <1>11, <1>12, <1>13, <1>14, <1>20 DEF Parts

\* An entry that did not wait for a doom is doomed, and requests wait for it.
LEMMA DoomParts ==
  ASSUME NEW active, NEW entry, NEW postDoom,
         postDoom \in [Hashes -> Seq(Closures) \cup {NoQueue}], NEW postOpenByHash, NEW massDooms, NEW owed,
         Parts(active, entry, postDoom, postOpenByHash, massDooms, owed, 0),
         NEW s \in Live(entry), ~entry[s].doomed, entry[s].createPendingDoom = "none",
         NEW h, h = entry[s].hash,
         NEW e, Sound(e), e.hash = h, e.doomed, e.waited,
         e.createPendingDoom = "none", Opener(e) <=> Opener(entry[s]),
         NEW next, Changed(entry, next, s, e)
  PROVE  /\ active[h] = s /\ postDoom[h] = NoQueue
         /\ Parts(At(active, h, 0), next, Begun(postDoom, h),
                  postOpenByHash, massDooms, owed, 0)
<1>0. <<>> # NoQueue
  BY EmptyIsQueue
<1>1. next \in Seq(EntryObjects \cup {Gone}) /\ Live(next) = Live(entry)
  BY DEF Changed
<1>2. next[s] = e /\ \A t \in Live(entry) : t # s => next[t] = entry[t]
  BY DEF Changed
<1>3. PICK map, nextDoom : /\ map = At(active, h, 0) /\ map = [active EXCEPT ![h] = 0]
                           /\ nextDoom = Begun(postDoom, h) /\ nextDoom = [postDoom EXCEPT ![h] = <<>>]
  BY DEF At, Begun
<1>5. \A t \in Live(entry) : entry[t].hash \in Hashes /\ t # 0
  BY LiveIsTyped DEF Parts, AllSound, EntryObjects
<1>4. /\ map \in [Hashes -> Nat] /\ map[h] = 0
      /\ \A g \in Hashes : g # h => map[g] = active[g]
  BY <1>3, <1>5 DEF Parts, OnMap
<1>6. active[h] = s
  BY DEF Parts, OnMap
<1>7. postDoom[h] = NoQueue
  <2>1. BehindDoom(active, entry, postDoom)
    BY DEF Parts
  <2> QED BY <1>5, <1>6, <2>1 DEF BehindDoom
<1>8. nextDoom[h] = <<>> /\ \A g \in Hashes : g # h => nextDoom[g] = postDoom[g]
  BY <1>3, <1>5
<1>9. h \in Hashes
  BY <1>5
<1>10. AllSound(next)
  BY <1>1, <1>2 DEF AllSound, Parts
<1>11. OnMap(map, next)
  <2>1. ASSUME NEW g \in Hashes, map[g] # 0
        PROVE  map[g] \in Live(next) /\ next[map[g]].hash = g /\ ~next[map[g]].doomed
    <3>1. g # h /\ map[g] = active[g]
      BY <1>4, <2>1
    <3>2. active[g] \in Live(entry) /\ entry[active[g]].hash = g /\ ~entry[active[g]].doomed
      BY <2>1, <3>1 DEF OnMap, Parts
    <3>3. active[g] # s
      BY <3>1, <3>2
    <3> QED BY <1>1, <1>2, <3>1, <3>2, <3>3
  <2>2. ASSUME NEW t \in Live(next), ~next[t].doomed
        PROVE  map[next[t].hash] = t
    <3>1. t # s /\ next[t] = entry[t]
      BY <1>1, <1>2, <2>2
    <3>2. active[entry[t].hash] = t
      BY <1>1, <2>2, <3>1 DEF OnMap, Parts
    <3>3. entry[t].hash # h
      BY <1>6, <3>1, <3>2
    <3> QED BY <1>1, <1>4, <1>5, <3>1, <3>2, <3>3
  <2> QED BY <1>4, <2>1, <2>2 DEF OnMap
<1>12. ASSUME NEW i \in DOMAIN massDooms
       PROVE  massDooms[i].hashes \subseteq Hashes
  BY MassDoomIsTyped DEF Parts
<1>13. ~entry[s].waited /\ h \notin owed
       /\ (\A t \in Live(entry) : entry[t].waited => entry[t].hash # h)
       /\ (\A i \in DOMAIN massDooms : h \notin massDooms[i].hashes)
  BY <1>7 DEF DoomsWaited, AllSound, Sound, Parts
<1>14. DoomsWaited(next, nextDoom, massDooms, owed)
  <2>1. \A g \in owed : g \in Hashes /\ nextDoom[g] # NoQueue
    BY <1>8, <1>13 DEF DoomsWaited, Parts
  <2>2. \A t \in Live(next) : next[t].waited => nextDoom[next[t].hash] # NoQueue
    BY <1>0, <1>1, <1>2, <1>5, <1>8 DEF DoomsWaited, Parts
  <2>3. \A i \in DOMAIN massDooms : \A g \in massDooms[i].hashes : nextDoom[g] # NoQueue
    BY <1>8, <1>12, <1>13 DEF DoomsWaited, Parts
  <2> QED BY <2>1, <2>2, <2>3 DEF DoomsWaited
<1>15. OneDoom(next, massDooms, owed)
  <2>1. OneDoom(entry, massDooms, owed)
    BY DEF Parts
  <2>2. \A t \in Live(next) : next[t].waited => next[t].hash \notin owed
    BY <1>1, <1>2, <1>13, <2>1 DEF OneDoom
  <2>3. \A t, u \in Live(next) :
          next[t].waited /\ next[u].waited /\ next[t].hash = next[u].hash => t = u
    BY <1>1, <1>2, <1>13, <2>1 DEF OneDoom
  <2>4. \A t \in Live(next), i \in DOMAIN massDooms :
          next[t].waited => next[t].hash \notin massDooms[i].hashes
    BY <1>1, <1>2, <1>13, <2>1 DEF OneDoom
  <2> QED BY <2>1, <2>2, <2>3, <2>4 DEF OneDoom
<1>16. SomeDoom(next, nextDoom, massDooms, owed)
  <2>1. ASSUME NEW g \in Hashes, nextDoom[g] # NoQueue
        PROVE  \/ g \in owed
               \/ \E t \in Live(next) : next[t].waited /\ next[t].hash = g
               \/ \E i \in DOMAIN massDooms : g \in massDooms[i].hashes
    <3>1. CASE g = h
      BY <1>1, <1>2, <3>1
    <3>2. CASE g # h
      <4>1. postDoom[g] # NoQueue
        BY <1>8, <2>1, <3>2
      <4>2. \/ g \in owed
            \/ \E t \in Live(entry) : entry[t].waited /\ entry[t].hash = g
            \/ \E i \in DOMAIN massDooms : g \in massDooms[i].hashes
        BY <4>1 DEF SomeDoom, Parts
      <4>3. ASSUME NEW t \in Live(entry), entry[t].waited /\ entry[t].hash = g
            PROVE  \E u \in Live(next) : next[u].waited /\ next[u].hash = g
        BY <1>1, <1>2, <1>13, <4>3
      <4> QED BY <4>2, <4>3
    <3> QED BY <3>1, <3>2
  <2> QED BY <2>1 DEF SomeDoom
<1>17. Notified(next, nextDoom, 0)
  <2>0. Notified(entry, postDoom, 0)
    BY DEF Parts
  <2>1. ASSUME NEW t \in Live(next) \ {0}, next[t].createPendingDoom # "none",
               NEW queue, queue = nextDoom[next[t].hash]
        PROVE  queue # NoQueue /\ queue # <<>> /\ queue[1] = [op |-> "notify", slot |-> t]
    <3>1. t # s /\ next[t] = entry[t] /\ t \in Live(entry) \ {0}
      BY <1>1, <1>2, <2>1
    <3>4. entry[t].createPendingDoom # "none"
      BY <2>1, <3>1
    <3>2. postDoom[entry[t].hash] # NoQueue
      BY <2>0, <3>1, <3>4 DEF Notified
    <3>3. queue = postDoom[entry[t].hash]
      BY <1>5, <1>7, <1>8, <2>1, <3>1, <3>2
    <3> QED BY <2>0, <2>1, <3>1, <3>3 DEF Notified
  <2>2. ASSUME NEW g \in Hashes, nextDoom[g] # NoQueue, NEW i \in DOMAIN nextDoom[g],
               nextDoom[g][i].op = "notify", NEW t, t = nextDoom[g][i].slot
        PROVE  i = 1 /\ t \in Live(next) /\ next[t].hash = g
               /\ next[t].createPendingDoom # "none"
    <3>1. g # h
      BY <1>8, <2>2
    <3>2. i = 1 /\ t \in Live(entry) /\ entry[t].hash = g
          /\ entry[t].createPendingDoom # "none"
      BY <1>8, <2>0, <2>2, <3>1 DEF Notified
    <3> QED BY <1>1, <1>2, <3>2
  <2> QED BY <2>1, <2>2 DEF Notified
<1>18. Hearing(map, next, nextDoom, 0)
  BY DEF Hearing
<1>19. BehindDoom(map, next, nextDoom)
  <2>1. ASSUME NEW g \in Hashes, nextDoom[g] # NoQueue, map[g] # 0
        PROVE  next[map[g]].createPendingDoom = "create"
    <3>1. g # h /\ map[g] = active[g] /\ postDoom[g] # NoQueue
      BY <1>4, <1>8, <2>1
    <3>2. active[g] \in Live(entry) /\ entry[active[g]].createPendingDoom = "create"
      BY <2>1, <3>1 DEF BehindDoom, OnMap, Parts
    <3> QED BY <1>2, <3>1, <3>2
  <2> QED BY <2>1 DEF BehindDoom
<1>20. OpensUnderWay(next, postOpenByHash)
  <2>1. \A t \in Live(entry) : next[t].hash = entry[t].hash /\ (Opener(next[t]) <=> Opener(entry[t]))
    BY <1>2
  <2> QED BY <1>1, <2>1 DEF OpensUnderWay, Parts
<1> QED
  BY <1>3, <1>6, <1>7, <1>10, <1>11, <1>14, <1>15, <1>16, <1>17, <1>18, <1>19, <1>20
     DEF Parts

\* An entry that still waits for the doom before it is doomed.
LEMMA DoomBehindParts ==
  ASSUME NEW active, NEW entry, NEW postDoom, NEW postOpenByHash, NEW massDooms, NEW owed,
         Parts(active, entry, postDoom, postOpenByHash, massDooms, owed, 0),
         NEW s \in Live(entry), ~entry[s].doomed, entry[s].createPendingDoom # "none",
         NEW h, h = entry[s].hash,
         NEW e, Sound(e), e.hash = h, e.doomed, ~e.waited,
         e.createPendingDoom = "followedByDoom", ~Opener(e),
         NEW next, Changed(entry, next, s, e)
  PROVE  /\ active[h] = s
         /\ Parts(At(active, h, 0), next, postDoom, postOpenByHash, massDooms, owed, 0)
<1>1. next \in Seq(EntryObjects \cup {Gone}) /\ Live(next) = Live(entry)
  BY DEF Changed
<1>2. next[s] = e /\ \A t \in Live(entry) : t # s => next[t] = entry[t]
  BY DEF Changed
<1>3. PICK map : map = At(active, h, 0) /\ map = [active EXCEPT ![h] = 0]
  BY DEF At
<1>5. \A t \in Live(entry) : entry[t].hash \in Hashes /\ t # 0
  BY LiveIsTyped DEF Parts, AllSound, EntryObjects
<1>4. /\ map \in [Hashes -> Nat] /\ map[h] = 0
      /\ \A g \in Hashes : g # h => map[g] = active[g]
  BY <1>3, <1>5 DEF Parts, OnMap
<1>6. active[h] = s
  BY DEF Parts, OnMap
<1>7. ~entry[s].waited /\ ~Opener(entry[s])
  BY DEF AllSound, Sound, Parts
<1>10. AllSound(next)
  BY <1>1, <1>2 DEF AllSound, Parts
<1>11. OnMap(map, next)
  <2>1. ASSUME NEW g \in Hashes, map[g] # 0
        PROVE  map[g] \in Live(next) /\ next[map[g]].hash = g /\ ~next[map[g]].doomed
    <3>1. g # h /\ map[g] = active[g]
      BY <1>4, <2>1
    <3>2. active[g] \in Live(entry) /\ entry[active[g]].hash = g /\ ~entry[active[g]].doomed
      BY <2>1, <3>1 DEF OnMap, Parts
    <3>3. active[g] # s
      BY <3>1, <3>2
    <3> QED BY <1>1, <1>2, <3>1, <3>2, <3>3
  <2>2. ASSUME NEW t \in Live(next), ~next[t].doomed
        PROVE  map[next[t].hash] = t
    <3>1. t # s /\ next[t] = entry[t]
      BY <1>1, <1>2, <2>2
    <3>2. active[entry[t].hash] = t
      BY <1>1, <2>2, <3>1 DEF OnMap, Parts
    <3>3. entry[t].hash # h
      BY <1>6, <3>1, <3>2
    <3> QED BY <1>1, <1>4, <1>5, <3>1, <3>2, <3>3
  <2> QED BY <1>4, <2>1, <2>2 DEF OnMap
<1>12. /\ \A t \in Live(entry) : /\ next[t].hash = entry[t].hash
                                 /\ next[t].waited <=> entry[t].waited
                                 /\ Opener(next[t]) <=> Opener(entry[t])
       /\ \A t \in Live(entry) :
            next[t].createPendingDoom # "none" <=> entry[t].createPendingDoom # "none"
  BY <1>2, <1>7
<1>14. DoomsWaited(next, postDoom, massDooms, owed)
  BY <1>1, <1>12 DEF DoomsWaited, Parts
<1>15. OneDoom(next, massDooms, owed)
  BY <1>1, <1>12 DEF OneDoom, Parts
<1>16. SomeDoom(next, postDoom, massDooms, owed)
  <2>1. ASSUME NEW g \in Hashes, NEW t \in Live(entry), entry[t].waited, entry[t].hash = g
        PROVE  \E u \in Live(next) : next[u].waited /\ next[u].hash = g
    BY <1>1, <1>12, <2>1
  <2> QED BY <2>1 DEF SomeDoom, Parts
<1>17. Notified(next, postDoom, 0)
  <2>0. Notified(entry, postDoom, 0)
    BY DEF Parts
  <2>1. ASSUME NEW t \in Live(next) \ {0}, next[t].createPendingDoom # "none",
               NEW queue, queue = postDoom[next[t].hash]
        PROVE  queue # NoQueue /\ queue # <<>> /\ queue[1] = [op |-> "notify", slot |-> t]
    BY <1>1, <1>12, <2>0, <2>1 DEF Notified
  <2>2. ASSUME NEW g \in Hashes, postDoom[g] # NoQueue, NEW i \in DOMAIN postDoom[g],
               postDoom[g][i].op = "notify", NEW t, t = postDoom[g][i].slot
        PROVE  i = 1 /\ t \in Live(next) /\ next[t].hash = g
               /\ next[t].createPendingDoom # "none"
    <3>2. i = 1 /\ t \in Live(entry) /\ entry[t].hash = g
          /\ entry[t].createPendingDoom # "none"
      BY <2>0, <2>2 DEF Notified
    <3> QED BY <1>1, <1>12, <3>2
  <2> QED BY <2>1, <2>2 DEF Notified
<1>18. Hearing(map, next, postDoom, 0)
  BY DEF Hearing
<1>19. BehindDoom(map, next, postDoom)
  <2>1. ASSUME NEW g \in Hashes, postDoom[g] # NoQueue, map[g] # 0
        PROVE  next[map[g]].createPendingDoom = "create"
    <3>1. g # h /\ map[g] = active[g]
      BY <1>4, <2>1
    <3>2. /\ active[g] \in Live(entry) /\ entry[active[g]].createPendingDoom = "create"
          /\ entry[active[g]].hash = g
      BY <2>1, <3>1 DEF BehindDoom, OnMap, Parts
    <3> QED BY <1>2, <3>1, <3>2
  <2> QED BY <2>1 DEF BehindDoom
<1>20. OpensUnderWay(next, postOpenByHash)
  <2>1. OpensUnderWay(entry, postOpenByHash)
    BY DEF Parts
  <2> QED BY <1>1, <1>12, <2>1 DEF OpensUnderWay
<1> QED
  BY <1>3, <1>6, <1>10, <1>11, <1>14, <1>15, <1>16, <1>17, <1>18, <1>19, <1>20 DEF Parts

\* The entry that was created behind a doom hears that it is over.
LEMMA HeardParts ==
  ASSUME NEW active, NEW entry, NEW postDoom, NEW postOpenByHash, NEW massDooms, NEW owed,
         NEW s, s # 0, Parts(active, entry, postDoom, postOpenByHash, massDooms, owed, s),
         ~entry[s].doomed,
         NEW e, Sound(e), e.hash = entry[s].hash, ~e.doomed, ~e.waited,
         e.createPendingDoom = "none", Opener(e) <=> Opener(entry[s]),
         NEW next, Changed(entry, next, s, e)
  PROVE  Parts(active, next, postDoom, postOpenByHash, massDooms, owed, 0)
<1>0. s \in Live(entry) /\ postDoom[entry[s].hash] = NoQueue
  BY DEF Parts, Hearing
<1>1. next \in Seq(EntryObjects \cup {Gone}) /\ Live(next) = Live(entry)
  BY <1>0 DEF Changed
<1>2. next[s] = e /\ \A t \in Live(entry) : t # s => next[t] = entry[t]
  BY DEF Changed
<1>3. ~entry[s].waited
  BY <1>0 DEF AllSound, Sound, Parts
<1>4. \A t \in Live(entry) : /\ next[t].hash = entry[t].hash
                             /\ next[t].waited <=> entry[t].waited
                             /\ next[t].doomed <=> entry[t].doomed
                             /\ Opener(next[t]) <=> Opener(entry[t])
  BY <1>2, <1>3
<1>5. AllSound(next)
  BY <1>0, <1>1, <1>2 DEF AllSound, Parts
<1>6. OnMap(active, next)
  BY <1>1, <1>4 DEF OnMap, Parts
<1>7. DoomsWaited(next, postDoom, massDooms, owed)
  BY <1>1, <1>4 DEF DoomsWaited, Parts
<1>8. OneDoom(next, massDooms, owed)
  BY <1>1, <1>4 DEF OneDoom, Parts
<1>9. SomeDoom(next, postDoom, massDooms, owed)
  <2>1. ASSUME NEW g \in Hashes, NEW t \in Live(entry), entry[t].waited, entry[t].hash = g
        PROVE  \E u \in Live(next) : next[u].waited /\ next[u].hash = g
    BY <1>1, <1>4, <2>1
  <2> QED BY <2>1 DEF SomeDoom, Parts
<1>10. Notified(next, postDoom, 0)
  <2>0. Notified(entry, postDoom, s)
    BY DEF Parts
  <2>1. ASSUME NEW t \in Live(next) \ {0}, next[t].createPendingDoom # "none",
               NEW queue, queue = postDoom[next[t].hash]
        PROVE  queue # NoQueue /\ queue # <<>> /\ queue[1] = [op |-> "notify", slot |-> t]
    <3>1. t # s /\ next[t] = entry[t] /\ t \in Live(entry) \ {s}
      BY <1>1, <1>2, <2>1
    <3> QED BY <2>0, <2>1, <3>1 DEF Notified
  <2>2. ASSUME NEW g \in Hashes, postDoom[g] # NoQueue, NEW i \in DOMAIN postDoom[g],
               postDoom[g][i].op = "notify", NEW t, t = postDoom[g][i].slot
        PROVE  i = 1 /\ t \in Live(next) /\ next[t].hash = g
               /\ next[t].createPendingDoom # "none"
    <3>1. i = 1 /\ t \in Live(entry) /\ entry[t].hash = g
          /\ entry[t].createPendingDoom # "none"
      BY <2>0, <2>2 DEF Notified
    <3>2. t # s
      BY <1>0, <2>2, <3>1
    <3> QED BY <1>1, <1>2, <3>1, <3>2
  <2> QED BY <2>1, <2>2 DEF Notified
<1>11. Hearing(active, next, postDoom, 0)
  BY DEF Hearing
<1>12. BehindDoom(active, next, postDoom)
  <2>1. ASSUME NEW g \in Hashes, postDoom[g] # NoQueue, active[g] # 0
        PROVE  next[active[g]].createPendingDoom = "create"
    <3>1. /\ active[g] \in Live(entry) /\ entry[active[g]].createPendingDoom = "create"
          /\ entry[active[g]].hash = g
      BY <2>1 DEF BehindDoom, OnMap, Parts
    <3>2. active[g] # s
      BY <1>0, <2>1, <3>1
    <3> QED BY <1>2, <3>1, <3>2
  <2> QED BY <2>1 DEF BehindDoom
<1>13. OpensUnderWay(next, postOpenByHash)
  BY <1>1, <1>4 DEF OpensUnderWay, Parts
<1> QED BY <1>5, <1>6, <1>7, <1>8, <1>9, <1>10, <1>11, <1>12, <1>13 DEF Parts

\* It was doomed in the meantime: its doom begins when the one before it is over.
LEMMA HeardDoomedParts ==
  ASSUME NEW active, NEW entry, NEW postDoom \in [Hashes -> Seq(Closures) \cup {NoQueue}],
         NEW postOpenByHash, NEW massDooms, NEW owed,
         NEW s, s # 0, Parts(active, entry, postDoom, postOpenByHash, massDooms, owed, s),
         entry[s].doomed, NEW h, h = entry[s].hash,
         NEW e, Sound(e), e.hash = h, e.doomed, e.waited,
         e.createPendingDoom = "none", Opener(e) <=> Opener(entry[s]),
         NEW next, Changed(entry, next, s, e)
  PROVE  Parts(active, next, Begun(postDoom, h), postOpenByHash, massDooms, owed, 0)
<1>0. /\ s \in Live(entry) /\ postDoom[h] = NoQueue /\ active[h] = 0
      /\ entry[s].createPendingDoom # "none" /\ <<>> # NoQueue
  BY EmptyIsQueue DEF Parts, Hearing
<1>1. next \in Seq(EntryObjects \cup {Gone}) /\ Live(next) = Live(entry)
  BY <1>0 DEF Changed
<1>2. next[s] = e /\ \A t \in Live(entry) : t # s => next[t] = entry[t]
  BY DEF Changed
<1>5. \A t \in Live(entry) : entry[t].hash \in Hashes /\ t # 0
  BY LiveIsTyped DEF Parts, AllSound, EntryObjects
<1>3. PICK nextDoom : nextDoom = Begun(postDoom, h) /\ nextDoom = [postDoom EXCEPT ![h] = <<>>]
  BY DEF At, Begun
<1>8. nextDoom[h] = <<>> /\ \A g \in Hashes : g # h => nextDoom[g] = postDoom[g]
  BY <1>0, <1>3, <1>5
<1>4. \A t \in Live(entry) : /\ next[t].hash = entry[t].hash
                             /\ next[t].doomed <=> entry[t].doomed
                             /\ Opener(next[t]) <=> Opener(entry[t])
  BY <1>2
<1>6. AllSound(next)
  BY <1>0, <1>1, <1>2 DEF AllSound, Parts
<1>7. OnMap(active, next)
  BY <1>1, <1>4 DEF OnMap, Parts
<1>12. ASSUME NEW i \in DOMAIN massDooms
       PROVE  massDooms[i].hashes \subseteq Hashes
  BY MassDoomIsTyped DEF Parts
<1>13. ~entry[s].waited /\ h \notin owed
       /\ (\A t \in Live(entry) : entry[t].waited => entry[t].hash # h)
       /\ (\A i \in DOMAIN massDooms : h \notin massDooms[i].hashes)
  BY <1>0 DEF DoomsWaited, AllSound, Sound, Parts
<1>14. DoomsWaited(next, nextDoom, massDooms, owed)
  <2>1. \A g \in owed : g \in Hashes /\ nextDoom[g] # NoQueue
    BY <1>8, <1>13 DEF DoomsWaited, Parts
  <2>2. \A t \in Live(next) : next[t].waited => nextDoom[next[t].hash] # NoQueue
    BY <1>0, <1>1, <1>2, <1>5, <1>8 DEF DoomsWaited, Parts
  <2>3. \A i \in DOMAIN massDooms : \A g \in massDooms[i].hashes : nextDoom[g] # NoQueue
    BY <1>8, <1>12, <1>13 DEF DoomsWaited, Parts
  <2> QED BY <2>1, <2>2, <2>3 DEF DoomsWaited
<1>15. OneDoom(next, massDooms, owed)
  <2>1. OneDoom(entry, massDooms, owed)
    BY DEF Parts
  <2>2. \A t \in Live(next) : next[t].waited => next[t].hash \notin owed
    BY <1>1, <1>2, <1>13, <2>1 DEF OneDoom
  <2>3. \A t, u \in Live(next) :
          next[t].waited /\ next[u].waited /\ next[t].hash = next[u].hash => t = u
    BY <1>1, <1>2, <1>13, <2>1 DEF OneDoom
  <2>4. \A t \in Live(next), i \in DOMAIN massDooms :
          next[t].waited => next[t].hash \notin massDooms[i].hashes
    BY <1>1, <1>2, <1>13, <2>1 DEF OneDoom
  <2> QED BY <2>1, <2>2, <2>3, <2>4 DEF OneDoom
<1>16. SomeDoom(next, nextDoom, massDooms, owed)
  <2>1. ASSUME NEW g \in Hashes, nextDoom[g] # NoQueue
        PROVE  \/ g \in owed
               \/ \E t \in Live(next) : next[t].waited /\ next[t].hash = g
               \/ \E i \in DOMAIN massDooms : g \in massDooms[i].hashes
    <3>1. CASE g = h
      BY <1>0, <1>1, <1>2, <3>1
    <3>2. CASE g # h
      <4>1. postDoom[g] # NoQueue
        BY <1>8, <2>1, <3>2
      <4>2. \/ g \in owed
            \/ \E t \in Live(entry) : entry[t].waited /\ entry[t].hash = g
            \/ \E i \in DOMAIN massDooms : g \in massDooms[i].hashes
        BY <4>1 DEF SomeDoom, Parts
      <4>3. ASSUME NEW t \in Live(entry), entry[t].waited /\ entry[t].hash = g
            PROVE  \E u \in Live(next) : next[u].waited /\ next[u].hash = g
        BY <1>1, <1>2, <1>13, <4>3
      <4> QED BY <4>2, <4>3
    <3> QED BY <3>1, <3>2
  <2> QED BY <2>1 DEF SomeDoom
<1>17. Notified(next, nextDoom, 0)
  <2>0. Notified(entry, postDoom, s)
    BY DEF Parts
  <2>1. ASSUME NEW t \in Live(next) \ {0}, next[t].createPendingDoom # "none",
               NEW queue, queue = nextDoom[next[t].hash]
        PROVE  queue # NoQueue /\ queue # <<>> /\ queue[1] = [op |-> "notify", slot |-> t]
    <3>1. t # s /\ next[t] = entry[t] /\ t \in Live(entry) \ {s}
      BY <1>1, <1>2, <2>1
    <3>4. entry[t].createPendingDoom # "none"
      BY <2>1, <3>1
    <3>2. postDoom[entry[t].hash] # NoQueue
      BY <2>0, <3>1, <3>4 DEF Notified
    <3>3. queue = postDoom[entry[t].hash]
      BY <1>0, <1>5, <1>8, <2>1, <3>1, <3>2
    <3> QED BY <2>0, <2>1, <3>1, <3>3 DEF Notified
  <2>2. ASSUME NEW g \in Hashes, nextDoom[g] # NoQueue, NEW i \in DOMAIN nextDoom[g],
               nextDoom[g][i].op = "notify", NEW t, t = nextDoom[g][i].slot
        PROVE  i = 1 /\ t \in Live(next) /\ next[t].hash = g
               /\ next[t].createPendingDoom # "none"
    <3>1. g # h
      BY <1>8, <2>2
    <3>2. i = 1 /\ t \in Live(entry) /\ entry[t].hash = g
          /\ entry[t].createPendingDoom # "none"
      BY <1>8, <2>0, <2>2, <3>1 DEF Notified
    <3> QED BY <1>1, <1>2, <3>1, <3>2
  <2> QED BY <2>1, <2>2 DEF Notified
<1>18. Hearing(active, next, nextDoom, 0)
  BY DEF Hearing
<1>19. BehindDoom(active, next, nextDoom)
  <2>1. ASSUME NEW g \in Hashes, nextDoom[g] # NoQueue, active[g] # 0
        PROVE  next[active[g]].createPendingDoom = "create"
    <3>1. g # h /\ postDoom[g] # NoQueue
      BY <1>0, <1>8, <2>1
    <3>2. /\ active[g] \in Live(entry) /\ entry[active[g]].createPendingDoom = "create"
          /\ entry[active[g]].hash = g
      BY <2>1, <3>1 DEF BehindDoom, OnMap, Parts
    <3> QED BY <1>2, <3>1, <3>2
  <2> QED BY <2>1 DEF BehindDoom
<1>20. OpensUnderWay(next, postOpenByHash)
  BY <1>1, <1>4 DEF OpensUnderWay, Parts
<1> QED BY <1>3, <1>6, <1>7, <1>14, <1>15, <1>16, <1>17, <1>18, <1>19, <1>20 DEF Parts

\* Hashes of which nothing is in use are doomed together.
LEMMA MassDoomParts ==
  ASSUME NEW active, NEW entry, NEW postDoom \in [Hashes -> Seq(Closures) \cup {NoQueue}],
         NEW postOpenByHash, NEW massDooms, NEW owed,
         Parts(active, entry, postDoom, postOpenByHash, massDooms, owed, 0),
         NEW H, H \subseteq Hashes, \A h \in H : postDoom[h] = NoQueue /\ active[h] = 0,
         NEW r \in Nat, NEW nextDoom,
         \A h \in Hashes : nextDoom[h] = IF h \in H THEN <<>> ELSE postDoom[h]
  PROVE  Parts(active, entry, nextDoom, postOpenByHash,
               Append(massDooms, [hashes |-> H, r |-> r]), owed, 0)
<1>0. <<>> # NoQueue
  BY EmptyIsQueue
<1>1. PICK S : S = [hashes : SUBSET Hashes, r : Nat]
  OBVIOUS
<1>2. PICK m : m = [hashes |-> H, r |-> r]
  OBVIOUS
<1>3. massDooms \in Seq(S) /\ m \in S /\ m.hashes = H
  BY <1>1, <1>2 DEF Parts
<1>4. PICK n \in Nat : n = Len(massDooms)
  BY <1>3
<1>5. PICK dooms : dooms = Append(massDooms, m)
  OBVIOUS
<1>6. /\ dooms \in Seq(S) /\ DOMAIN dooms = 1 .. n + 1 /\ DOMAIN massDooms = 1 .. n
      /\ dooms[n + 1] = m /\ \A i \in 1 .. n : dooms[i] = massDooms[i]
  BY <1>3, <1>4, <1>5
<1>7. /\ \A i \in DOMAIN massDooms : i \in DOMAIN dooms /\ dooms[i] = massDooms[i]
      /\ n + 1 \in DOMAIN dooms /\ dooms[n + 1].hashes = H
      /\ \A i \in DOMAIN dooms : i # n + 1 => i \in DOMAIN massDooms
  BY <1>3, <1>4, <1>6
<1>8. \A t \in Live(entry) : entry[t].hash \in Hashes
  BY LiveIsTyped DEF Parts, AllSound, EntryObjects
<1>9. ASSUME NEW i \in DOMAIN massDooms
      PROVE  massDooms[i].hashes \subseteq Hashes
  BY MassDoomIsTyped DEF Parts
<1>10. \A h \in Hashes : postDoom[h] # NoQueue => nextDoom[h] = postDoom[h]
  OBVIOUS
<1>11. DoomsWaited(entry, nextDoom, dooms, owed)
  <2>1. \A h \in owed : nextDoom[h] # NoQueue
    BY <1>10 DEF DoomsWaited, Parts
  <2>2. \A s \in Live(entry) : entry[s].waited => nextDoom[entry[s].hash] # NoQueue
    BY <1>8, <1>10 DEF DoomsWaited, Parts
  <2>3. ASSUME NEW i \in DOMAIN dooms, NEW h \in dooms[i].hashes
        PROVE  nextDoom[h] # NoQueue
    <3>1. CASE i = n + 1
      BY <1>0, <1>7, <2>3, <3>1
    <3>2. CASE i # n + 1
      BY <1>7, <1>9, <1>10, <2>3, <3>2 DEF DoomsWaited, Parts
    <3> QED BY <3>1, <3>2
  <2> QED BY <2>1, <2>2, <2>3 DEF DoomsWaited
<1>12. OneDoom(entry, dooms, owed)
  <2>0. OneDoom(entry, massDooms, owed) /\ DoomsWaited(entry, postDoom, massDooms, owed)
    BY DEF Parts
  <2>1. H \cap owed = {}
    BY <2>0 DEF DoomsWaited
  <2>2. \A s \in Live(entry) : entry[s].waited => entry[s].hash \notin H
    BY <2>0 DEF DoomsWaited
  <2>3. \A i \in DOMAIN massDooms : massDooms[i].hashes \cap H = {}
    BY <2>0 DEF DoomsWaited
  <2>4. \A i \in DOMAIN dooms : dooms[i].hashes \cap owed = {}
    BY <1>7, <2>0, <2>1 DEF OneDoom
  <2>5. \A s \in Live(entry), i \in DOMAIN dooms :
          entry[s].waited => entry[s].hash \notin dooms[i].hashes
    BY <1>7, <2>0, <2>2 DEF OneDoom
  <2>6. \A i, j \in DOMAIN dooms : i # j => dooms[i].hashes \cap dooms[j].hashes = {}
    BY <1>7, <2>0, <2>3 DEF OneDoom
  <2> QED BY <2>0, <2>4, <2>5, <2>6 DEF OneDoom
<1>13. SomeDoom(entry, nextDoom, dooms, owed)
  <2>1. ASSUME NEW g \in Hashes, nextDoom[g] # NoQueue
        PROVE  \/ g \in owed
               \/ \E t \in Live(entry) : entry[t].waited /\ entry[t].hash = g
               \/ \E i \in DOMAIN dooms : g \in dooms[i].hashes
    <3>1. CASE g \in H
      BY <1>7, <3>1
    <3>2. CASE g \notin H
      <4>1. postDoom[g] # NoQueue
        BY <2>1, <3>2
      <4> QED BY <1>7, <4>1 DEF SomeDoom, Parts
    <3> QED BY <3>1, <3>2
  <2> QED BY <2>1 DEF SomeDoom
<1>14. Notified(entry, nextDoom, 0)
  <2>0. Notified(entry, postDoom, 0)
    BY DEF Parts
  <2>1. ASSUME NEW t \in Live(entry) \ {0}, entry[t].createPendingDoom # "none",
               NEW queue, queue = nextDoom[entry[t].hash]
        PROVE  queue # NoQueue /\ queue # <<>> /\ queue[1] = [op |-> "notify", slot |-> t]
    <3>1. postDoom[entry[t].hash] # NoQueue
      BY <2>0, <2>1 DEF Notified
    <3>2. queue = postDoom[entry[t].hash]
      BY <1>8, <1>10, <2>1, <3>1
    <3> QED BY <2>0, <2>1, <3>2 DEF Notified
  <2>2. ASSUME NEW g \in Hashes, nextDoom[g] # NoQueue, NEW i \in DOMAIN nextDoom[g],
               nextDoom[g][i].op = "notify", NEW t, t = nextDoom[g][i].slot
        PROVE  i = 1 /\ t \in Live(entry) /\ entry[t].hash = g
               /\ entry[t].createPendingDoom # "none"
    <3>1. g \notin H /\ nextDoom[g] = postDoom[g]
      BY <2>2
    <3> QED BY <2>0, <2>2, <3>1 DEF Notified
  <2> QED BY <2>1, <2>2 DEF Notified
<1>15. Hearing(active, entry, nextDoom, 0)
  BY DEF Hearing
<1>16. BehindDoom(active, entry, nextDoom)
  BY DEF BehindDoom, Parts
<1> QED BY <1>1, <1>2, <1>5, <1>6, <1>11, <1>12, <1>13, <1>14, <1>15, <1>16 DEF Parts

\* Whose notification is the first of a queue, or nobody.
FirstTold(queue) ==
  IF queue # <<>> /\ queue[1].op = "notify" THEN queue[1].slot ELSE 0

\* A doom is over, and what waited for it is still to be run.
LEMMA OverParts ==
  ASSUME NEW active, NEW entry, NEW postDoom \in [Hashes -> Seq(Closures) \cup {NoQueue}],
         NEW postOpenByHash, NEW massDooms, NEW owed,
         Parts(active, entry, postDoom, postOpenByHash, massDooms, owed, 0),
         NEW h \in Hashes, postDoom[h] # NoQueue,
         NEW next, next \in Seq(EntryObjects \cup {Gone}), Live(next) = Live(entry),
         \A t \in Live(entry) :
           /\ next[t].hash = entry[t].hash /\ next[t].doomed = entry[t].doomed
           /\ next[t].createPendingDoom = entry[t].createPendingDoom
           /\ Opener(next[t]) <=> Opener(entry[t])
           /\ Sound(next[t])
           /\ next[t].waited <=> entry[t].waited /\ entry[t].hash # h,
         NEW left, left = owed \ {h},
         (\E t \in Live(entry) : entry[t].waited /\ entry[t].hash = h) \/ h \in owed
  PROVE  Parts(active, next, At(postDoom, h, NoQueue), postOpenByHash, massDooms,
               left, FirstTold(postDoom[h]))
<1>1. PICK nextDoom, told : /\ nextDoom = At(postDoom, h, NoQueue) /\ nextDoom = [postDoom EXCEPT ![h] = NoQueue]
                            /\ told = FirstTold(postDoom[h])
  BY DEF At
<1>2. nextDoom[h] = NoQueue /\ \A g \in Hashes : g # h => nextDoom[g] = postDoom[g]
  BY <1>1
<1>3. \A t \in Live(entry) : entry[t].hash \in Hashes /\ t # 0
  BY LiveIsTyped DEF Parts, AllSound, EntryObjects
<1>4. \A i \in DOMAIN massDooms : massDooms[i].hashes \subseteq Hashes
  BY MassDoomIsTyped DEF Parts
<1>5. OneDoom(entry, massDooms, owed) /\ DoomsWaited(entry, postDoom, massDooms, owed)
  BY DEF Parts
<1>6. \A i \in DOMAIN massDooms : h \notin massDooms[i].hashes
  BY <1>5 DEF OneDoom
<1>7. AllSound(next)
  BY DEF AllSound
<1>8. OnMap(active, next)
  BY DEF OnMap, Parts
<1>9. DoomsWaited(next, nextDoom, massDooms, left)
  <2>1. \A g \in left : g \in Hashes /\ nextDoom[g] # NoQueue
    BY <1>2, <1>5 DEF DoomsWaited, Parts
  <2>2. \A t \in Live(next) : next[t].waited => nextDoom[next[t].hash] # NoQueue
    BY <1>2, <1>3, <1>5 DEF DoomsWaited
  <2>3. \A i \in DOMAIN massDooms : \A g \in massDooms[i].hashes : nextDoom[g] # NoQueue
    BY <1>2, <1>4, <1>5, <1>6 DEF DoomsWaited
  <2> QED BY <2>1, <2>2, <2>3 DEF DoomsWaited
<1>10. OneDoom(next, massDooms, left)
  BY <1>5 DEF OneDoom
<1>11. SomeDoom(next, nextDoom, massDooms, left)
  <2>1. ASSUME NEW g \in Hashes, nextDoom[g] # NoQueue
        PROVE  \/ g \in left
               \/ \E t \in Live(next) : next[t].waited /\ next[t].hash = g
               \/ \E i \in DOMAIN massDooms : g \in massDooms[i].hashes
    <3>1. g # h /\ postDoom[g] # NoQueue
      BY <1>2, <2>1
    <3>2. \/ g \in owed
          \/ \E t \in Live(entry) : entry[t].waited /\ entry[t].hash = g
          \/ \E i \in DOMAIN massDooms : g \in massDooms[i].hashes
      BY <3>1 DEF SomeDoom, Parts
    <3>3. ASSUME NEW t \in Live(entry), entry[t].waited /\ entry[t].hash = g
          PROVE  \E u \in Live(next) : next[u].waited /\ next[u].hash = g
      BY <3>1, <3>3
    <3> QED BY <3>1, <3>2, <3>3
  <2> QED BY <2>1 DEF SomeDoom
<1>12. Notified(entry, postDoom, 0)
  BY DEF Parts
<1>13. \A t \in Live(entry) : entry[t].createPendingDoom # "none" /\ entry[t].hash = h => t = told
  <2>1. ASSUME NEW t \in Live(entry), entry[t].createPendingDoom # "none", entry[t].hash = h
        PROVE  t = told
    <3>1. t \in Live(entry) \ {0}
      BY <1>3
    <3>2. postDoom[h] # <<>> /\ postDoom[h][1] = [op |-> "notify", slot |-> t]
      BY <1>12, <2>1, <3>1 DEF Notified
    <3> QED BY <1>1, <3>2 DEF FirstTold
  <2> QED BY <2>1
<1>14. ASSUME told # 0
       PROVE  told \in Live(entry) /\ entry[told].hash = h /\ entry[told].createPendingDoom # "none"
  <2>1. postDoom[h] # <<>> /\ postDoom[h][1].op = "notify" /\ told = postDoom[h][1].slot
    BY <1>1, <1>14 DEF FirstTold
  <2>2. postDoom[h] \in Seq(Closures)
    OBVIOUS
  <2>3. 1 \in DOMAIN postDoom[h]
    BY <2>1, <2>2
  <2> QED BY <1>12, <2>1, <2>3 DEF Notified
<1>15. Notified(next, nextDoom, told)
  <2>1. ASSUME NEW t \in Live(next) \ {told}, next[t].createPendingDoom # "none",
               NEW queue, queue = nextDoom[next[t].hash]
        PROVE  queue # NoQueue /\ queue # <<>> /\ queue[1] = [op |-> "notify", slot |-> t]
    <3>1. /\ t \in Live(entry) \ {0} /\ entry[t].createPendingDoom # "none"
          /\ next[t].hash = entry[t].hash /\ entry[t].hash # h
      BY <1>3, <1>13, <2>1
    <3>2. queue = postDoom[entry[t].hash]
      BY <1>2, <1>3, <2>1, <3>1
    <3> QED BY <1>12, <3>1, <3>2 DEF Notified
  <2>2. ASSUME NEW g \in Hashes, nextDoom[g] # NoQueue, NEW i \in DOMAIN nextDoom[g],
               nextDoom[g][i].op = "notify", NEW t, t = nextDoom[g][i].slot
        PROVE  i = 1 /\ t \in Live(next) /\ next[t].hash = g
               /\ next[t].createPendingDoom # "none"
    <3>1. g # h /\ nextDoom[g] = postDoom[g]
      BY <1>2, <2>2
    <3>2. i = 1 /\ t \in Live(entry) /\ entry[t].hash = g
          /\ entry[t].createPendingDoom # "none"
      BY <1>12, <2>2, <3>1 DEF Notified
    <3> QED BY <3>2
  <2> QED BY <2>1, <2>2 DEF Notified
<1>16. BehindDoom(active, entry, postDoom) /\ OnMap(active, entry)
  BY DEF Parts
<1>17. BehindDoom(active, next, nextDoom)
  <2>1. ASSUME NEW g \in Hashes, nextDoom[g] # NoQueue, active[g] # 0
        PROVE  next[active[g]].createPendingDoom = "create"
    <3>1. active[g] \in Live(entry) /\ postDoom[g] # NoQueue
      BY <1>2, <1>16, <2>1 DEF OnMap
    <3>2. entry[active[g]].createPendingDoom = "create"
      BY <1>16, <2>1, <3>1 DEF BehindDoom
    <3> QED BY <3>1, <3>2
  <2> QED BY <2>1 DEF BehindDoom
<1>18. Hearing(active, next, nextDoom, told)
  <2>1. ASSUME told # 0, entry[told].doomed, active[h] # 0
        PROVE  FALSE
    <3>1. /\ active[h] \in Live(entry) /\ entry[active[h]].hash = h
          /\ ~entry[active[h]].doomed
      BY <1>16, <2>1 DEF OnMap
    <3>2. entry[active[h]].createPendingDoom = "create"
      BY <1>16, <2>1 DEF BehindDoom
    <3>3. active[h] = told
      BY <1>13, <3>1, <3>2
    <3> QED BY <2>1, <3>1, <3>3
  <2> QED BY <1>2, <1>14, <2>1 DEF Hearing
<1>19. OpensUnderWay(next, postOpenByHash)
  <2>1. OpensUnderWay(entry, postOpenByHash)
    BY DEF Parts
  <2> QED BY <2>1 DEF OpensUnderWay
<1> QED
  BY <1>1, <1>7, <1>8, <1>9, <1>10, <1>11, <1>15, <1>17, <1>18, <1>19 DEF Parts

LEMMA SubSeqIs ==
  ASSUME NEW S, NEW f \in Seq(S), NEW a \in Nat, NEW b \in Nat, a + b <= Len(f)
  PROVE  /\ SubSeq(f, a + 1, a + b) \in Seq(S) /\ Len(SubSeq(f, a + 1, a + b)) = b
         /\ \A i \in 1 .. b : SubSeq(f, a + 1, a + b)[i] = f[a + i]
<1>1. Len(SubSeq(f, a + 1, a + b)) = b
  OBVIOUS
<1>2. \A i \in 1 .. b : SubSeq(f, a + 1, a + b)[i] = f[a + i]
  OBVIOUS
<1>3. SubSeq(f, a + 1, a + b) \in Seq(S)
  OBVIOUS
<1> QED BY <1>1, <1>2, <1>3

LEMMA RemoveAtFacts ==
  ASSUME NEW S, NEW f \in Seq(S), NEW i \in DOMAIN f
  PROVE  /\ RemoveAt(f, i) \in Seq(S) /\ Len(RemoveAt(f, i)) = Len(f) - 1
         /\ \A j \in 1 .. Len(f) - 1 : RemoveAt(f, i)[j] = f[IF j < i THEN j ELSE j + 1]
<1>0. PICK n, g : n \in Nat /\ n = Len(f) /\ g = RemoveAt(f, i) /\ i \in 1 .. n
  OBVIOUS
<1>1. PICK k \in Nat, l \in Nat : i = k + 1 /\ n = k + 1 + l
  <2>1. i - 1 \in Nat /\ n - i \in Nat /\ i = (i - 1) + 1 /\ n = (i - 1) + 1 + (n - i)
    BY <1>0
  <2> QED BY <2>1
<1>2. PICK a, z : a = SubSeq(f, 1, i - 1) /\ z = SubSeq(f, i + 1, n)
  OBVIOUS
<1>3. a = SubSeq(f, 0 + 1, 0 + k) /\ z = SubSeq(f, k + 1 + 1, k + 1 + l)
  BY <1>1, <1>2
<1>4. a \in Seq(S) /\ Len(a) = k /\ \A j \in 1 .. k : a[j] = f[j]
  <2>1. a \in Seq(S) /\ Len(a) = k /\ \A j \in 1 .. k : a[j] = f[0 + j]
    <3>1. 0 + k <= Len(f)
      BY <1>0, <1>1
    <3> QED BY <1>3, <3>1, SubSeqIs
  <2> QED BY <2>1
<1>5. z \in Seq(S) /\ Len(z) = l /\ \A j \in 1 .. l : z[j] = f[k + 1 + j]
  <2>1. PICK m \in Nat : m = k + 1
    OBVIOUS
  <2>2. m + l <= Len(f) /\ z = SubSeq(f, m + 1, m + l)
    BY <1>0, <1>1, <1>3, <2>1
  <2>3. z \in Seq(S) /\ Len(z) = l /\ \A j \in 1 .. l : z[j] = f[m + j]
    BY <2>2, SubSeqIs
  <2> QED BY <2>1, <2>3
<1>6. g = a \o z
  BY <1>0, <1>2 DEF RemoveAt
<1>7. /\ g \in Seq(S) /\ Len(g) = k + l
      /\ \A j \in 1 .. k : g[j] = a[j]
      /\ \A j \in 1 .. l : g[k + j] = z[j]
  <2>0. a \in Seq(S) /\ z \in Seq(S)
    BY <1>4, <1>5
  <2>4. a \o z \in Seq(S)
    BY ONLY <2>0
  <2>5. Len(a \o z) = Len(a) + Len(z)
    BY ONLY <2>0
  <2>6. \A j \in 1 .. Len(a) : (a \o z)[j] = a[j]
    BY ONLY <2>0
  <2>7. \A j \in 1 .. Len(z) : (a \o z)[Len(a) + j] = z[j]
    <3>1. ASSUME NEW j \in 1 .. Len(z)
          PROVE  (a \o z)[Len(a) + j] = z[j]
      <4>1. /\ Len(a) + j \in 1 .. Len(a) + Len(z) /\ ~ (Len(a) + j <= Len(a))
            /\ (Len(a) + j) - Len(a) = j
        BY ONLY <2>0, j \in 1 .. Len(z)
      <4> QED BY ONLY <2>0, <4>1, j \in 1 .. Len(z)
    <3> QED BY <3>1
  <2>2. g \in Seq(S) /\ Len(g) = k + l
    BY <1>4, <1>5, <1>6, <2>4, <2>5
  <2>3. /\ \A j \in 1 .. k : g[j] = a[j]
        /\ \A j \in 1 .. l : g[k + j] = z[j]
    BY <1>4, <1>5, <1>6, <2>6, <2>7
  <2> QED BY <2>2, <2>3
<1>8. ASSUME NEW j \in 1 .. n - 1
      PROVE  g[j] = f[IF j < i THEN j ELSE j + 1]
  <2>1. CASE j < i
    <3>1. j \in 1 .. k
      BY <1>1, <2>1
    <3>2. g[j] = a[j]
      BY <1>7, <3>1
    <3> QED BY <1>4, <2>1, <3>1, <3>2
  <2>2. CASE ~ (j < i)
    <3>1. j - k \in 1 .. l /\ k + 1 + (j - k) = j + 1 /\ k + (j - k) = j
      BY <1>1, <2>2
    <3>2. g[j] = z[j - k]
      BY <1>7, <3>1
    <3> QED BY <1>5, <2>2, <3>1, <3>2
  <2> QED BY <2>1, <2>2
<1>9. k + l = n - 1
  BY <1>1
<1> QED BY <1>0, <1>7, <1>8, <1>9

\* The doom of many entries is over, and all its queues are still to be run.
LEMMA MassDoomEndsParts ==
  ASSUME NEW active, NEW entry, NEW postDoom, NEW postOpenByHash, NEW massDooms,
         Parts(active, entry, postDoom, postOpenByHash, massDooms, {}, 0),
         NEW i \in DOMAIN massDooms, NEW owed, owed = massDooms[i].hashes
  PROVE  Parts(active, entry, postDoom, postOpenByHash, RemoveAt(massDooms, i), owed, 0)
<1>1. PICK S : S = [hashes : SUBSET Hashes, r : Nat]
  OBVIOUS
<1>2. massDooms \in Seq(S)
  BY <1>1 DEF Parts
<1>3. PICK n \in Nat : n = Len(massDooms)
  BY <1>2
<1>4. PICK dooms : dooms = RemoveAt(massDooms, i)
  OBVIOUS
<1>5. DOMAIN massDooms = 1 .. n /\ i \in 1 .. n
  BY <1>2, <1>3
<1>6. /\ dooms \in Seq(S) /\ DOMAIN dooms = 1 .. n - 1
      /\ \A j \in 1 .. n - 1 : dooms[j] = massDooms[IF j < i THEN j ELSE j + 1]
  <2>1. /\ RemoveAt(massDooms, i) \in Seq(S)
        /\ Len(RemoveAt(massDooms, i)) = Len(massDooms) - 1
        /\ \A j \in 1 .. Len(massDooms) - 1 :
             RemoveAt(massDooms, i)[j] = massDooms[IF j < i THEN j ELSE j + 1]
    BY <1>2, RemoveAtFacts
  <2>2. dooms \in Seq(S) /\ Len(dooms) = n - 1
    BY <1>3, <1>4, <2>1
  <2>3. \A j \in 1 .. n - 1 : dooms[j] = massDooms[IF j < i THEN j ELSE j + 1]
    BY <1>3, <1>4, <2>1
  <2> QED BY <2>2, <2>3
<1>7. /\ \A j \in DOMAIN dooms : \E k \in DOMAIN massDooms :
           k # i /\ dooms[j] = massDooms[k] /\ k = IF j < i THEN j ELSE j + 1
      /\ \A k \in DOMAIN massDooms : k # i => \E j \in DOMAIN dooms : dooms[j] = massDooms[k]
  <2>1. ASSUME NEW j \in DOMAIN dooms
        PROVE  \E k \in DOMAIN massDooms :
                 k # i /\ dooms[j] = massDooms[k] /\ k = IF j < i THEN j ELSE j + 1
    BY <1>5, <1>6, <2>1
  <2>2. ASSUME NEW k \in DOMAIN massDooms, k # i
        PROVE  \E j \in DOMAIN dooms : dooms[j] = massDooms[k]
    <3>1. CASE k < i
      BY <1>5, <1>6, <2>2, <3>1
    <3>2. CASE k > i
      <4>1. k - 1 \in DOMAIN dooms /\ dooms[k - 1] = massDooms[k]
        BY <1>5, <1>6, <2>2, <3>2
      <4> QED BY <4>1
    <3> QED BY <1>5, <2>2, <3>1, <3>2
  <2> QED BY <2>1, <2>2
<1>8. OneDoom(entry, massDooms, {}) /\ DoomsWaited(entry, postDoom, massDooms, {})
  BY DEF Parts
<1>9. DoomsWaited(entry, postDoom, dooms, owed)
  BY <1>7, <1>8 DEF DoomsWaited
<1>10. OneDoom(entry, dooms, owed)
  <2>1. \A s \in Live(entry) : entry[s].waited => entry[s].hash \notin owed
    BY <1>8 DEF OneDoom
  <2>2. \A j \in DOMAIN dooms : dooms[j].hashes \cap owed = {}
    BY <1>7, <1>8 DEF OneDoom
  <2>3. \A s \in Live(entry), j \in DOMAIN dooms :
          entry[s].waited => entry[s].hash \notin dooms[j].hashes
    BY <1>7, <1>8 DEF OneDoom
  <2>4. ASSUME NEW j \in DOMAIN dooms, NEW k \in DOMAIN dooms, j # k
        PROVE  dooms[j].hashes \cap dooms[k].hashes = {}
    <3>1. PICK p \in DOMAIN massDooms : dooms[j] = massDooms[p] /\ p = IF j < i THEN j ELSE j + 1
      BY <1>7
    <3>2. PICK q \in DOMAIN massDooms : dooms[k] = massDooms[q] /\ q = IF k < i THEN k ELSE k + 1
      BY <1>7
    <3>4. PICK x \in Nat, y \in Nat, z \in Nat : x = j /\ y = k /\ z = i
      BY <1>5, <1>6, <2>4
    <3>3. p # q
      <4>1. x # y /\ p = (IF x < z THEN x ELSE x + 1) /\ q = (IF y < z THEN y ELSE y + 1)
        BY <2>4, <3>1, <3>2, <3>4
      <4> QED BY ONLY x \in Nat, y \in Nat, z \in Nat, <4>1
    <3> QED BY <1>8, <3>1, <3>2, <3>3 DEF OneDoom
  <2> QED BY <1>8, <2>1, <2>2, <2>3, <2>4 DEF OneDoom
<1>11. SomeDoom(entry, postDoom, dooms, owed)
  <2>1. ASSUME NEW g \in Hashes, postDoom[g] # NoQueue
        PROVE  \/ g \in owed
               \/ \E t \in Live(entry) : entry[t].waited /\ entry[t].hash = g
               \/ \E j \in DOMAIN dooms : g \in dooms[j].hashes
    <3>1. \/ \E t \in Live(entry) : entry[t].waited /\ entry[t].hash = g
          \/ \E k \in DOMAIN massDooms : g \in massDooms[k].hashes
      BY <2>1 DEF SomeDoom, Parts
    <3>2. ASSUME NEW k \in DOMAIN massDooms, g \in massDooms[k].hashes, k # i
          PROVE  \E j \in DOMAIN dooms : g \in dooms[j].hashes
      BY <1>7, <3>2
    <3> QED BY <3>1, <3>2
  <2> QED BY <2>1 DEF SomeDoom
<1>12. owed \subseteq Hashes
  BY MassDoomIsTyped DEF Parts
<1> QED BY <1>1, <1>4, <1>6, <1>9, <1>10, <1>11, <1>12 DEF Parts

\* An open by hash is over: nobody else opens the hash.
LEMMA OneOpener ==
  ASSUME NEW active, NEW entry, NEW postDoom, NEW postOpenByHash, NEW massDooms, NEW owed,
         Parts(active, entry, postDoom, postOpenByHash, massDooms, owed, 0),
         NEW s \in Live(entry), Opener(entry[s]), NEW t \in Live(entry), Opener(entry[t]),
         entry[s].hash = entry[t].hash
  PROVE  s = t
<1>1. /\ AllSound(entry) /\ OnMap(active, entry) /\ BehindDoom(active, entry, postDoom)
      /\ DoomsWaited(entry, postDoom, massDooms, owed) /\ OneDoom(entry, massDooms, owed)
  BY DEF Parts
<1>2. \A u \in Live(entry) : entry[u].hash \in Hashes /\ u # 0
  BY <1>1, LiveIsTyped DEF AllSound, EntryObjects
<1>3. ASSUME NEW u \in Live(entry), Opener(entry[u]), ~entry[u].doomed,
             NEW v \in Live(entry), Opener(entry[v]), entry[v].doomed,
             entry[u].hash = entry[v].hash
      PROVE  FALSE
  <2>1. entry[v].waited /\ entry[u].createPendingDoom = "none"
    BY <1>1, <1>3 DEF AllSound, Sound
  <2>2. active[entry[u].hash] = u /\ postDoom[entry[u].hash] # NoQueue
    BY <1>1, <1>3, <2>1 DEF OnMap, DoomsWaited
  <2>3. entry[u].createPendingDoom = "create"
    BY <1>1, <1>2, <2>2 DEF BehindDoom
  <2> QED BY <2>1, <2>3
<1>4. CASE ~entry[s].doomed /\ ~entry[t].doomed
  BY <1>1, <1>4 DEF OnMap
<1>5. CASE entry[s].doomed /\ entry[t].doomed
  <2>1. entry[s].waited /\ entry[t].waited
    BY <1>1, <1>5 DEF AllSound, Sound
  <2> QED BY <1>1, <2>1 DEF OneDoom
<1>6. CASE entry[s].doomed <=> ~entry[t].doomed
  BY <1>3, <1>6
<1> QED BY <1>4, <1>5, <1>6

\* An entry was opened by its hash, or could not be, which dooms it.
LEMMA OverOpenParts ==
  ASSUME NEW active, NEW entry, NEW postDoom,
         NEW postOpenByHash \in [Hashes -> Seq(Closures) \cup {NoQueue}],
         NEW massDooms, NEW owed,
         Parts(active, entry, postDoom, postOpenByHash, massDooms, owed, 0),
         NEW s \in Live(entry), Opener(entry[s]), NEW h, h = entry[s].hash,
         NEW e, Sound(e), e.hash = h, e.waited = entry[s].waited, e.createPendingDoom = "none",
         entry[s].doomed => e.doomed, ~Opener(e), NEW next, Changed(entry, next, s, e),
         NEW map \in [Hashes -> Nat],
         \A g \in Hashes : map[g] = IF active[g] = s /\ (e.doomed /\ ~entry[s].doomed)
                                    THEN 0 ELSE active[g],
         NEW nextOpen, nextOpen = At(postOpenByHash, h, NoQueue)
  PROVE  Parts(map, next, postDoom, nextOpen, massDooms, owed, 0)
<1>1. next \in Seq(EntryObjects \cup {Gone}) /\ Live(next) = Live(entry)
  BY DEF Changed
<1>2. next[s] = e /\ \A t \in Live(entry) : t # s => next[t] = entry[t]
  BY DEF Changed
<1>3. \A t \in Live(entry) : entry[t].hash \in Hashes /\ t # 0
  BY LiveIsTyped DEF Parts, AllSound, EntryObjects
<1>4. \A t \in Live(entry) : /\ next[t].hash = entry[t].hash
                             /\ next[t].waited = entry[t].waited
                             /\ next[t].createPendingDoom = entry[t].createPendingDoom
  <2>1. entry[s].createPendingDoom = "none"
    BY DEF Parts, AllSound, Sound
  <2> QED BY <1>2, <2>1
<1>5. \A g \in Hashes : map[g] # 0 => map[g] = active[g]
  OBVIOUS
<1>6. AllSound(next)
  BY <1>1, <1>2 DEF AllSound, Parts
<1>7. OnMap(active, entry)
  BY DEF Parts
<1>8. OnMap(map, next)
  <2>1. ASSUME NEW g \in Hashes, map[g] # 0
        PROVE  map[g] \in Live(next) /\ next[map[g]].hash = g /\ ~next[map[g]].doomed
    <3>1. map[g] \in Live(entry) /\ entry[map[g]].hash = g /\ ~entry[map[g]].doomed
      BY <1>5, <1>7, <2>1 DEF OnMap
    <3>2. CASE map[g] = s
      BY <1>1, <1>2, <1>5, <2>1, <3>1, <3>2
    <3>3. CASE map[g] # s
      BY <1>1, <1>2, <3>1, <3>3
    <3> QED BY <3>2, <3>3
  <2>2. ASSUME NEW t \in Live(next), ~next[t].doomed
        PROVE  map[next[t].hash] = t
    <3>1. t \in Live(entry) /\ next[t].hash = entry[t].hash /\ ~entry[t].doomed
      BY <1>1, <1>2, <1>4, <2>2
    <3>2. active[entry[t].hash] = t /\ entry[t].hash \in Hashes
      BY <1>3, <1>7, <3>1 DEF OnMap
    <3>3. t = s => ~e.doomed
      BY <1>2, <2>2
    <3> QED BY <3>1, <3>2, <3>3
  <2> QED BY <2>1, <2>2 DEF OnMap
<1>9. DoomsWaited(next, postDoom, massDooms, owed)
  BY <1>1, <1>4 DEF DoomsWaited, Parts
<1>10. OneDoom(next, massDooms, owed)
  BY <1>1, <1>4 DEF OneDoom, Parts
<1>11. SomeDoom(next, postDoom, massDooms, owed)
  <2>1. ASSUME NEW g \in Hashes, NEW t \in Live(entry), entry[t].waited, entry[t].hash = g
        PROVE  \E u \in Live(next) : next[u].waited /\ next[u].hash = g
    BY <1>1, <1>4, <2>1
  <2> QED BY <2>1 DEF SomeDoom, Parts
<1>12. Notified(next, postDoom, 0)
  <2>1. ASSUME NEW t \in Live(next) \ {0}, next[t].createPendingDoom # "none",
               NEW queue, queue = postDoom[next[t].hash]
        PROVE  queue # NoQueue /\ queue # <<>> /\ queue[1] = [op |-> "notify", slot |-> t]
    <3>1. /\ t \in Live(entry) \ {0} /\ entry[t].createPendingDoom # "none"
          /\ queue = postDoom[entry[t].hash]
      BY <1>1, <1>4, <2>1
    <3> QED BY <3>1 DEF Notified, Parts
  <2>2. ASSUME NEW g \in Hashes, postDoom[g] # NoQueue, NEW i \in DOMAIN postDoom[g],
               postDoom[g][i].op = "notify", NEW t, t = postDoom[g][i].slot
        PROVE  i = 1 /\ t \in Live(next) /\ next[t].hash = g
               /\ next[t].createPendingDoom # "none"
    <3>1. i = 1 /\ t \in Live(entry) /\ entry[t].hash = g
          /\ entry[t].createPendingDoom # "none"
      BY <2>2 DEF Notified, Parts
    <3> QED BY <1>1, <1>4, <3>1
  <2> QED BY <2>1, <2>2 DEF Notified
<1>13. Hearing(map, next, postDoom, 0)
  BY DEF Hearing
<1>14. BehindDoom(map, next, postDoom)
  <2>1. ASSUME NEW g \in Hashes, postDoom[g] # NoQueue, map[g] # 0
        PROVE  next[map[g]].createPendingDoom = "create"
    <3>1. active[g] \in Live(entry) /\ map[g] = active[g]
      BY <1>5, <1>7, <2>1 DEF OnMap
    <3>2. entry[active[g]].createPendingDoom = "create"
      BY <2>1, <3>1 DEF BehindDoom, Parts
    <3> QED BY <1>4, <3>1, <3>2
  <2> QED BY <2>1 DEF BehindDoom
<1>15. nextOpen[h] = NoQueue /\ \A g \in Hashes : g # h => nextOpen[g] = postOpenByHash[g]
  BY <1>3 DEF At
<1>16. \A t \in Live(entry) : t # s /\ Opener(entry[t]) => entry[t].hash # h
  BY OneOpener
<1>17. OpensUnderWay(entry, postOpenByHash)
  BY DEF Parts
<1>18. OpensUnderWay(next, nextOpen)
  <2>1. ASSUME NEW t \in Live(next), Opener(next[t])
        PROVE  nextOpen[next[t].hash] # NoQueue
    <3>1. t # s /\ t \in Live(entry) /\ next[t] = entry[t]
      BY <1>1, <1>2, <2>1
    <3>2. entry[t].hash # h /\ entry[t].hash \in Hashes /\ postOpenByHash[entry[t].hash] # NoQueue
      BY <1>3, <1>16, <1>17, <2>1, <3>1 DEF OpensUnderWay
    <3> QED BY <1>15, <3>1, <3>2
  <2>2. ASSUME NEW g \in Hashes, nextOpen[g] # NoQueue
        PROVE  \E t \in Live(next) : Opener(next[t]) /\ next[t].hash = g
    <3>1. g # h /\ postOpenByHash[g] # NoQueue
      BY <1>15, <2>2
    <3>2. PICK t \in Live(entry) : Opener(entry[t]) /\ entry[t].hash = g
      BY <1>17, <3>1 DEF OpensUnderWay
    <3>3. t # s
      BY <3>1, <3>2
    <3> QED BY <1>1, <1>2, <3>2, <3>3
  <2> QED BY <2>1, <2>2 DEF OpensUnderWay
<1>19. massDooms \in Seq([hashes : SUBSET Hashes, r : Nat]) /\ owed \subseteq Hashes
  BY DEF Parts
<1> QED
  BY <1>6, <1>8, <1>9, <1>10, <1>11, <1>12, <1>13, <1>14, <1>18, <1>19 DEF Parts

\* An object that has nothing to do ends.
LEMMA SettledParts ==
  ASSUME NEW active, NEW entry, NEW postDoom, NEW postOpenByHash, NEW massDooms, NEW owed,
         Parts(active, entry, postDoom, postOpenByHash, massDooms, owed, 0),
         NEW s \in Live(entry), entry[s].queue = <<>>, entry[s].createPendingDoom = "none",
         NEW next, Dropped(entry, next, s), NEW map \in [Hashes -> Nat],
         \A g \in Hashes : map[g] = IF active[g] = s THEN 0 ELSE active[g]
  PROVE  Parts(map, next, postDoom, postOpenByHash, massDooms, owed, 0)
<1>1. next \in Seq(EntryObjects \cup {Gone}) /\ Live(next) = Live(entry) \ {s}
      /\ \A t \in Live(next) : next[t] = entry[t]
  BY DEF Dropped
<1>2. ~Opener(entry[s]) /\ ~entry[s].waited
  <2>1. DOMAIN entry[s].queue = {}
    OBVIOUS
  <2>2. Sound(entry[s])
    BY DEF Parts, AllSound
  <2> QED BY <2>1, <2>2 DEF Sound, Opener
<1>3. \A t \in Live(entry) : t \in Live(next) <=> t # s
  BY <1>1
<1>4. \A t \in Live(entry) : entry[t].hash \in Hashes /\ t # 0
  BY LiveIsTyped DEF Parts, AllSound, EntryObjects
<1>5. \A g \in Hashes : map[g] # 0 => map[g] = active[g] /\ active[g] # s
  OBVIOUS
<1>6. AllSound(next)
  BY <1>1 DEF AllSound, Parts
<1>7. OnMap(map, next)
  <2>1. ASSUME NEW g \in Hashes, map[g] # 0
        PROVE  map[g] \in Live(next) /\ next[map[g]].hash = g /\ ~next[map[g]].doomed
    BY <1>1, <1>5, <2>1 DEF OnMap, Parts
  <2>2. ASSUME NEW t \in Live(next), ~next[t].doomed
        PROVE  map[next[t].hash] = t
    BY <1>1, <1>4, <2>2 DEF OnMap, Parts
  <2> QED BY <2>1, <2>2 DEF OnMap
<1>8. DoomsWaited(next, postDoom, massDooms, owed)
  BY <1>1 DEF DoomsWaited, Parts
<1>9. OneDoom(next, massDooms, owed)
  BY <1>1 DEF OneDoom, Parts
<1>10. SomeDoom(next, postDoom, massDooms, owed)
  <2>1. ASSUME NEW g \in Hashes, NEW t \in Live(entry), entry[t].waited, entry[t].hash = g
        PROVE  \E u \in Live(next) : next[u].waited /\ next[u].hash = g
    BY <1>1, <1>2, <2>1
  <2> QED BY <2>1 DEF SomeDoom, Parts
<1>11. Notified(next, postDoom, 0)
  <2>1. ASSUME NEW t \in Live(next) \ {0}, next[t].createPendingDoom # "none",
               NEW queue, queue = postDoom[next[t].hash]
        PROVE  queue # NoQueue /\ queue # <<>> /\ queue[1] = [op |-> "notify", slot |-> t]
    BY <1>1, <2>1 DEF Notified, Parts
  <2>2. ASSUME NEW g \in Hashes, postDoom[g] # NoQueue, NEW i \in DOMAIN postDoom[g],
               postDoom[g][i].op = "notify", NEW t, t = postDoom[g][i].slot
        PROVE  i = 1 /\ t \in Live(next) /\ next[t].hash = g
               /\ next[t].createPendingDoom # "none"
    <3>1. i = 1 /\ t \in Live(entry) /\ entry[t].hash = g
          /\ entry[t].createPendingDoom # "none"
      BY <2>2 DEF Notified, Parts
    <3> QED BY <1>1, <1>3, <3>1
  <2> QED BY <2>1, <2>2 DEF Notified
<1>12. Hearing(map, next, postDoom, 0)
  BY DEF Hearing
<1>13. BehindDoom(map, next, postDoom)
  <2>1. ASSUME NEW g \in Hashes, postDoom[g] # NoQueue, map[g] # 0
        PROVE  next[map[g]].createPendingDoom = "create"
    <3>1. active[g] \in Live(next) /\ map[g] = active[g]
      BY <1>3, <1>5, <2>1 DEF OnMap, Parts
    <3>2. entry[active[g]].createPendingDoom = "create"
      BY <2>1, <3>1 DEF BehindDoom, Parts
    <3> QED BY <1>1, <3>1, <3>2
  <2> QED BY <2>1 DEF BehindDoom
<1>14. OpensUnderWay(entry, postOpenByHash)
  BY DEF Parts
<1>15. OpensUnderWay(next, postOpenByHash)
  <2>1. ASSUME NEW g \in Hashes, postOpenByHash[g] # NoQueue
        PROVE  \E t \in Live(next) : Opener(next[t]) /\ next[t].hash = g
    BY <1>1, <1>2, <1>14, <2>1 DEF OpensUnderWay
  <2> QED BY <1>1, <1>14, <2>1 DEF OpensUnderWay
<1>16. massDooms \in Seq([hashes : SUBSET Hashes, r : Nat]) /\ owed \subseteq Hashes
  BY DEF Parts
<1> QED
  BY <1>6, <1>7, <1>8, <1>9, <1>10, <1>11, <1>12, <1>13, <1>15, <1>16 DEF Parts

-------------------------------------------------------------------------------
(* What each operation does to the fields of the record *)

\* Who asked for what is as before.
SameAsk(p, q) ==
  DOMAIN q = DOMAIN p /\ \A r \in DOMAIN p : q[r].op = p[r].op /\ q[r].key = p[r].key

LEMMA AnswerKeepsRequests ==
  ASSUME NEW p, RequestsOK(p), NEW r, NEW e, r \in DOMAIN p =>
           e \in RequestRecords /\ e.op = p[r].op /\ e.key = p[r].key
  PROVE  RequestsOK([p EXCEPT ![r] = e]) /\ SameAsk(p, [p EXCEPT ![r] = e])
<1>1. PICK q : q = [p EXCEPT ![r] = e]
  OBVIOUS
<1>2. p \in Seq(RequestRecords)
  BY DEF RequestsOK
<1>3. CASE r \in DOMAIN p
  <2>1. q \in Seq(RequestRecords) /\ DOMAIN q = DOMAIN p
    BY <1>1, <1>2, <1>3
  <2>2. q[r] = e /\ \A t \in DOMAIN p : t # r => q[t] = p[t]
    BY <1>1, <1>2, <1>3
  <2>3. SameAsk(p, q)
    BY <1>3, <2>1, <2>2 DEF SameAsk
  <2>4. RequestsOK(q)
    BY <1>3, <2>1, <2>2 DEF RequestsOK
  <2> QED BY <1>1, <2>3, <2>4
<1>4. CASE r \notin DOMAIN p
  <2>1. q = p
    BY <1>1, <1>2, <1>4
  <2> QED BY <1>1, <2>1 DEF SameAsk
<1> QED BY <1>3, <1>4

\* The fields that matter here, but for the requests.
SameWork(b, c) ==
  /\ c.active = b.active /\ c.entry = b.entry /\ c.postDoom = b.postDoom
  /\ c.postOpenByHash = b.postOpenByHash /\ c.massDooms = b.massDooms
  /\ c.index = b.index /\ c.failedChecks = b.failedChecks

LEMMA SetRequest ==
  ASSUME NEW b, Shaped(b), NEW x
  PROVE  /\ Shaped([b EXCEPT !.requests = x]) /\ SameWork(b, [b EXCEPT !.requests = x])
         /\ [b EXCEPT !.requests = x].requests = x
BY DEF Shaped, SameWork, Fields

LEMMA SetBarrier ==
  ASSUME NEW b, Shaped(b), NEW x
  PROVE  /\ Shaped([b EXCEPT !.barrier = x]) /\ SameWork(b, [b EXCEPT !.barrier = x])
         /\ [b EXCEPT !.barrier = x].requests = b.requests
BY DEF Shaped, SameWork, Fields

\* An answer changes requests and barriers, and what is asked for stays.
Tells(b, c) ==
  Shaped(c) /\ SameWork(b, c) /\ RequestsOK(c.requests) /\ SameAsk(b.requests, c.requests)

LEMMA AnswerKeeps ==
  ASSUME NEW p, RequestsOK(p), NEW r, NEW result \in {"ok", "created", "failed"},
         NEW born \in Nat
  PROVE  /\ RequestsOK([p EXCEPT ![r].result = result])
         /\ SameAsk(p, [p EXCEPT ![r].result = result])
         /\ RequestsOK([p EXCEPT ![r].born = born]) /\ SameAsk(p, [p EXCEPT ![r].born = born])
         /\ RequestsOK([p EXCEPT ![r].calls = @ + 1])
         /\ SameAsk(p, [p EXCEPT ![r].calls = @ + 1])
<1>1. ASSUME r \in DOMAIN p
      PROVE  p[r] \in RequestRecords
  BY <1>1 DEF RequestsOK
<1>2. PICK d, e, f : /\ d = [p[r] EXCEPT !.result = result]
                     /\ e = [p[r] EXCEPT !.born = born]
                     /\ f = [p[r] EXCEPT !.calls = p[r].calls + 1]
  OBVIOUS
<1>3. /\ [p EXCEPT ![r].result = result] = [p EXCEPT ![r] = d]
      /\ [p EXCEPT ![r].born = born] = [p EXCEPT ![r] = e]
      /\ [p EXCEPT ![r].calls = @ + 1] = [p EXCEPT ![r] = f]
  BY <1>2
<1>4. r \in DOMAIN p => d \in RequestRecords /\ d.op = p[r].op /\ d.key = p[r].key
  BY <1>1, <1>2 DEF RequestRecords
<1>5. r \in DOMAIN p => e \in RequestRecords /\ e.op = p[r].op /\ e.key = p[r].key
  BY <1>1, <1>2 DEF RequestRecords
<1>6. r \in DOMAIN p => f \in RequestRecords /\ f.op = p[r].op /\ f.key = p[r].key
  BY <1>1, <1>2 DEF RequestRecords
<1>7. /\ RequestsOK([p EXCEPT ![r] = d]) /\ SameAsk(p, [p EXCEPT ![r] = d])
      /\ RequestsOK([p EXCEPT ![r] = e]) /\ SameAsk(p, [p EXCEPT ![r] = e])
      /\ RequestsOK([p EXCEPT ![r] = f]) /\ SameAsk(p, [p EXCEPT ![r] = f])
  BY <1>4, <1>5, <1>6, AnswerKeepsRequests
<1> QED BY <1>3, <1>7

LEMMA AnswerFacts ==
  ASSUME NEW b, Shaped(b), RequestsOK(b.requests), NEW r \in Nat,
         NEW result \in {"ok", "created", "failed"}, NEW born \in Nat
  PROVE  /\ Tells(b, [b EXCEPT !.requests[r].result = result, !.requests[r].calls = @ + 1])
         /\ Tells(b, [b EXCEPT !.requests[r].result = result,
                               !.requests[r].born = born, !.requests[r].calls = @ + 1])
<1>1. PICK p, q, t, u : /\ p = [b.requests EXCEPT ![r].result = result]
                        /\ q = [p EXCEPT ![r].calls = @ + 1]
                        /\ t = [p EXCEPT ![r].born = born]
                        /\ u = [t EXCEPT ![r].calls = @ + 1]
  OBVIOUS
<1>2. PICK c, d :
        /\ c = [b EXCEPT !.requests[r].result = result, !.requests[r].calls = @ + 1]
        /\ d = [b EXCEPT !.requests[r].result = result,
                         !.requests[r].born = born, !.requests[r].calls = @ + 1]
  OBVIOUS
<1>3. DOMAIN b = Fields
  BY DEF Shaped
<1>8. Shaped(c) /\ SameWork(b, c)
  <2>1. DOMAIN c = Fields
    BY <1>2, <1>3
  <2>2. c = [f \in DOMAIN c |-> c[f]]
    BY <1>2
  <2>3. SameWork(b, c)
    BY <1>2, <1>3 DEF SameWork, Fields
  <2> QED BY <2>1, <2>2, <2>3 DEF Shaped
<1>9. c.requests = q
  BY <1>1, <1>2, <1>3 DEF Fields
<1>10. Shaped(d) /\ SameWork(b, d)
  <2>1. DOMAIN d = Fields
    BY <1>2, <1>3
  <2>2. d = [f \in DOMAIN d |-> d[f]]
    BY <1>2
  <2>3. SameWork(b, d)
    BY <1>2, <1>3 DEF SameWork, Fields
  <2> QED BY <2>1, <2>2, <2>3 DEF Shaped
<1>11. d.requests = u
  BY <1>1, <1>2, <1>3 DEF Fields
<1>4. RequestsOK(p) /\ SameAsk(b.requests, p)
  BY <1>1, AnswerKeeps
<1>5. RequestsOK(q) /\ SameAsk(p, q) /\ RequestsOK(t) /\ SameAsk(p, t)
  BY <1>1, <1>4, AnswerKeeps
<1>6. RequestsOK(u) /\ SameAsk(t, u)
  BY <1>1, <1>5, AnswerKeeps, ZenonT(60)
<1>7. Tells(b, c) /\ Tells(b, d)
  <2>1. SameAsk(b.requests, q) /\ SameAsk(b.requests, u)
    BY <1>4, <1>5, <1>6 DEF SameAsk
  <2> QED BY <1>5, <1>6, <1>8, <1>9, <1>10, <1>11, <2>1 DEF Tells
<1> QED BY <1>2, <1>7, Zenon

LEMMA TellsAgain ==
  ASSUME NEW b, NEW c, NEW d, Tells(b, c), Tells(c, d)
  PROVE  Tells(b, d)
BY DEF Tells, SameWork, SameAsk

LEMMA BarrierFacts ==
  ASSUME NEW b, Shaped(b), RequestsOK(b.requests), NEW r \in Nat,
         NEW result \in {"ok", "created", "failed"}
  PROVE  Tells(b, BarrierCompletionCallbackImpl(b, r, result))
<1>1. PICK a : a = [b EXCEPT !.requests[r].result = result, !.requests[r].calls = @ + 1]
  OBVIOUS
<1>2. Tells(b, a)
  <2>1. 0 \in Nat
    OBVIOUS
  <2> QED BY <1>1, <2>1, AnswerFacts, Zenon
<1>3. Tells(b, b)
  BY DEF Tells, SameWork, SameAsk
<1>4. ASSUME NEW d, Tells(b, d), NEW x
      PROVE  Tells(b, [d EXCEPT !.barrier = x])
  <2>1. Shaped([d EXCEPT !.barrier = x]) /\ SameWork(d, [d EXCEPT !.barrier = x])
        /\ [d EXCEPT !.barrier = x].requests = d.requests
    BY <1>4, SetBarrier DEF Tells
  <2> QED BY <1>4, <2>1 DEF Tells, SameWork
<1>5. PICK n : n = b.barrier[r].count + 1
  OBVIOUS
<1> DEFINE x == [a.barrier EXCEPT ![r] = [a.barrier[r] EXCEPT !.hadError = TRUE]]
           y(d) == [d.barrier EXCEPT ![r] = [d.barrier[r] EXCEPT !.count = n]]
           done == n = b.barrier[r].expected
           next == IF done THEN a ELSE b
<1>6. [a EXCEPT !.barrier[r].hadError = TRUE] = [a EXCEPT !.barrier = x]
  BY <1>2 DEF Tells, Shaped, Fields
<1>7. [next EXCEPT !.barrier[r].count = n] = [next EXCEPT !.barrier = y(next)]
  <2>1. Shaped(next)
    BY <1>2 DEF Tells
  <2> HIDE DEF next
  <2> QED BY <2>1 DEF Shaped, Fields
<1>8. Tells(b, next)
  BY <1>2, <1>3
<1> HIDE DEF x, y
<1>9. Tells(b, [a EXCEPT !.barrier = x]) /\ Tells(b, [next EXCEPT !.barrier = y(next)])
  BY <1>2, <1>4, <1>8
<1> DEFINE f == BarrierCompletionCallbackImpl(b, r, result)
<1>10. CASE b.barrier[r].hadError
  <2>1. f = b
    BY <1>10 DEF BarrierCompletionCallbackImpl
  <2> QED BY <1>3, <2>1
<1>11. CASE ~b.barrier[r].hadError /\ result # "ok"
  <2>1. f = [a EXCEPT !.barrier[r].hadError = TRUE]
    BY <1>1, <1>11 DEF BarrierCompletionCallbackImpl
  <2> QED BY <1>6, <1>9, <2>1
<1>12. CASE ~b.barrier[r].hadError /\ ~(result # "ok")
  <2>1. f = [next EXCEPT !.barrier[r].count = n]
    BY <1>1, <1>5, <1>12 DEF BarrierCompletionCallbackImpl
  <2> QED BY <1>7, <1>9, <2>1
<1> QED BY <1>10, <1>11, <1>12

LEMMA TellFacts ==
  ASSUME NEW b, Shaped(b), RequestsOK(b.requests), NEW r \in Nat,
         NEW result \in {"ok", "created", "failed"}, NEW born \in Nat
  PROVE  Tells(b, Tell(b, r, result, born))
<1>1. CASE r = 0
  <2>1. Tell(b, r, result, born) = b
    BY <1>1 DEF Tell
  <2> QED BY <2>1 DEF Tells, SameWork, SameAsk
<1>2. CASE r # 0 /\ b.requests[r].op = "doomAll"
  <2>1. Tell(b, r, result, born) = BarrierCompletionCallbackImpl(b, r, result)
    BY <1>2 DEF Tell
  <2> QED BY <2>1, BarrierFacts
<1>3. CASE r # 0 /\ ~(b.requests[r].op = "doomAll")
  <2>1. Tell(b, r, result, born) = [b EXCEPT !.requests[r].result = result,
                        !.requests[r].born = born, !.requests[r].calls = @ + 1]
    BY <1>3 DEF Tell
  <2>2. Tells(b, [b EXCEPT !.requests[r].result = result,
                           !.requests[r].born = born, !.requests[r].calls = @ + 1])
    BY AnswerFacts, Zenon
  <2> QED BY <2>1, <2>2, Zenon
<1> QED BY <1>1, <1>2, <1>3

\* Only these fields may have changed.
Only(b, c, F) == Shaped(c) /\ \A f \in Fields \ F : c[f] = b[f]

With(b, f, x) == [b EXCEPT ![f] = x]

LEMMA SetField ==
  ASSUME NEW b, Shaped(b), NEW f \in Fields, NEW x, NEW c, c = With(b, f, x)
  PROVE  Only(b, c, {f}) /\ c[f] = x
<1>1. DOMAIN b = Fields
  BY DEF Shaped
<1>2. DOMAIN c = Fields /\ c = [g \in DOMAIN c |-> c[g]]
  BY <1>1 DEF With
<1>3. c[f] = x /\ \A g \in Fields \ {f} : c[g] = b[g]
  BY <1>1 DEF With
<1> QED BY <1>2, <1>3 DEF Only, Shaped

LEMMA QueuesAgain ==
  ASSUME NEW table, NEW p, NEW q, Queues(table, p), SameAsk(p, q)
  PROVE  Queues(table, q)
<1>1. ASSUME NEW h \in Hashes, NEW c, ClosureOK(p, h, c)
      PROVE  ClosureOK(q, h, c)
  BY <1>1 DEF SameAsk, ClosureOK, Asked
<1> QED BY <1>1 DEF Queues

\* The invariant holds after, and what is asked for is as before.
Leads(b, c, owed) ==
  /\ BackendInv(c, owed, 0) /\ SameAsk(b.requests, c.requests)
  /\ Live(b.entry) \subseteq Live(c.entry)

LEMMA LeadsAgain ==
  ASSUME NEW b, NEW c, NEW d, NEW owed, NEW left, Leads(b, c, owed), Leads(c, d, left)
  PROVE  Leads(b, d, left)
BY DEF Leads, SameAsk

LEMMA TellKeeps ==
  ASSUME NEW b, NEW owed, NEW told, BackendInv(b, owed, told), NEW c, Tells(b, c)
  PROVE  BackendInv(c, owed, told)
<1>1. Queues(c.postDoom, c.requests) /\ Queues(c.postOpenByHash, c.requests)
  <2>1. SameAsk(b.requests, c.requests) /\ SameWork(b, c)
    BY DEF Tells
  <2>2. Queues(b.postDoom, b.requests) /\ Queues(b.postOpenByHash, b.requests)
    BY DEF BackendInv
  <2> QED BY <2>1, <2>2, QueuesAgain DEF SameWork
<1> QED BY <1>1 DEF BackendInv, Tells, SameWork

LEMMA TellLeads ==
  ASSUME NEW b, NEW owed, BackendInv(b, owed, 0), NEW r \in Nat,
         NEW result \in {"ok", "created", "failed"}, NEW born \in Nat
  PROVE  Leads(b, Tell(b, r, result, born), owed)
<1>1. Tells(b, Tell(b, r, result, born))
  BY TellFacts DEF BackendInv
<1> QED BY <1>1, TellKeeps DEF Leads, Tells, SameWork

\* An entry was touched; perhaps the index as well.
LEMMA TouchKeeps ==
  ASSUME NEW b, NEW owed, NEW told, BackendInv(b, owed, told),
         NEW s \in Live(b.entry), NEW e \in EntryObjects, Sound(e), SameFace(b.entry[s], e),
         NEW c, Only(b, c, {"entry", "index", "leftover"}), c.entry = [b.entry EXCEPT ![s] = e],
         c.index \subseteq Hashes
  PROVE  BackendInv(c, owed, told)
<1>1. /\ c.active = b.active /\ c.postDoom = b.postDoom /\ c.postOpenByHash = b.postOpenByHash
      /\ c.massDooms = b.massDooms /\ c.requests = b.requests
      /\ c.failedChecks = b.failedChecks /\ Shaped(c)
  BY DEF Only, Fields
<1>2. Parts(b.active, b.entry, b.postDoom, b.postOpenByHash, b.massDooms, owed, told)
  BY DEF BackendInv
<1>3. Changed(b.entry, c.entry, s, e)
  BY <1>2, ExceptChanges DEF Parts, AllSound
<1>4. Parts(b.active, c.entry, b.postDoom, b.postOpenByHash, b.massDooms, owed, told)
  BY <1>2, <1>3, TouchedParts
<1> QED BY <1>1, <1>4 DEF BackendInv

\* What can be put into a queue.
Addable(e, o) ==
  /\ o \in EntryOperations /\ o.op # "openFromHash"
  /\ o.op \in {"create", "openOrCreate"} => e.key # NoKey

Grown(e, o, queue) ==
  /\ queue \in Seq(EntryOperations) /\ queue # <<>>
  /\ queue[1].op = "openFromHash" <=> Opener(e)
  /\ \A i \in 2 .. Len(queue) : queue[i].op # "openFromHash"
  /\ e.key = NoKey => \A i \in DOMAIN queue : queue[i].op \notin {"create", "openOrCreate"}
  /\ \A i \in DOMAIN e.queue : i \in DOMAIN queue /\ queue[i] = e.queue[i]
  /\ \E i \in DOMAIN queue : queue[i] = o

LEMMA QueueGrows ==
  ASSUME NEW e \in EntryObjects, Sound(e), NEW o, Addable(e, o), NEW queue,
         queue = Append(e.queue, o)
  PROVE  Grown(e, o, queue)
<1>1. e.queue \in Seq(EntryOperations) /\ o \in EntryOperations
  BY DEF EntryObjects, Addable
<1>2. PICK n \in Nat : n = Len(e.queue)
  BY <1>1
<1>3. /\ queue \in Seq(EntryOperations) /\ queue # <<>> /\ Len(queue) = n + 1
      /\ DOMAIN queue = 1 .. n + 1 /\ DOMAIN e.queue = 1 .. n
      /\ queue[n + 1] = o /\ \A i \in 1 .. n : queue[i] = e.queue[i]
  BY <1>1, <1>2
<1>4. queue[1].op = "openFromHash" <=> Opener(e)
  <2>1. CASE n = 0
    <3>1. e.queue = <<>> /\ queue[1] = o
      BY <1>1, <1>2, <1>3, <2>1
    <3> QED BY <3>1 DEF Opener, Addable
  <2>2. CASE n # 0
    <3>1. 1 \in 1 .. n /\ e.queue # <<>>
      BY <1>2, <2>2
    <3>2. queue[1] = e.queue[1]
      BY <1>3, <3>1
    <3> QED BY <3>1, <3>2 DEF Opener
  <2> QED BY <2>1, <2>2
<1>5. ASSUME NEW i \in 2 .. Len(queue)
      PROVE  queue[i].op # "openFromHash"
  <2>1. CASE i = n + 1
    BY <1>3, <2>1 DEF Addable
  <2>2. CASE i # n + 1
    <3>1. i \in 2 .. Len(e.queue) /\ i \in 1 .. n
      BY <1>2, <1>3, <2>2
    <3> QED BY <1>3, <3>1 DEF Sound
  <2> QED BY <2>1, <2>2
<1>6. ASSUME e.key = NoKey, NEW i \in DOMAIN queue
      PROVE  queue[i].op \notin {"create", "openOrCreate"}
  <2>1. CASE i = n + 1
    BY <1>3, <1>6, <2>1 DEF Addable
  <2>2. CASE i # n + 1
    <3>1. i \in DOMAIN e.queue /\ queue[i] = e.queue[i]
      BY <1>2, <1>3, <2>2
    <3> QED BY <1>6, <3>1 DEF Sound
  <2> QED BY <2>1, <2>2
<1>7. \A i \in DOMAIN e.queue : i \in DOMAIN queue /\ queue[i] = e.queue[i]
  BY <1>2, <1>3
<1>8. \E i \in DOMAIN queue : queue[i] = o
  <2>1. n + 1 \in DOMAIN queue
    BY <1>3
  <2> QED BY <1>3, <2>1
<1> QED BY <1>3, <1>4, <1>5, <1>6, <1>7, <1>8 DEF Grown

Queued(e, o) == [e EXCEPT !.queue = Append(@, o)]

LEMMA QueuedIsSound ==
  ASSUME NEW e \in EntryObjects, Sound(e), NEW o, Addable(e, o)
  PROVE  Queued(e, o) \in EntryObjects /\ Sound(Queued(e, o)) /\ SameFace(e, Queued(e, o))
<1>1. PICK d, queue : d = Queued(e, o) /\ queue = Append(e.queue, o)
  OBVIOUS
<1>2. d = [e EXCEPT !.queue = queue]
  BY <1>1 DEF Queued
<1>3. Grown(e, o, queue)
  BY <1>1, QueueGrows
<1>4. d \in EntryObjects
  BY <1>2, <1>3 DEF EntryObjects, Grown
<1>5. /\ d.hash = e.hash /\ d.key = e.key /\ d.doomed = e.doomed /\ d.waited = e.waited
      /\ d.createPendingDoom = e.createPendingDoom /\ d.state = e.state /\ d.queue = queue
  BY <1>2 DEF EntryObjects
<1>6. Opener(d) <=> Opener(e)
  BY <1>3, <1>5 DEF Opener, Grown
<1>7. Sound(d)
  BY <1>3, <1>5, <1>6 DEF Sound, Grown
<1> QED BY <1>1, <1>4, <1>5, <1>6, <1>7 DEF SameFace

-------------------------------------------------------------------------------
(* The entries are given something to do *)

LEMMA EnqueueKeeps ==
  ASSUME NEW b, NEW owed, BackendInv(b, owed, 0), NEW s \in Live(b.entry),
         NEW op, NEW r, NEW told, Addable(b.entry[s], [op |-> op, r |-> r, told |-> told]),
         NEW c, c = Enqueue(b, s, op, r, told)
  PROVE  /\ Leads(b, c, owed) /\ Only(b, c, {"entry"})
         /\ Changed(b.entry, c.entry, s, Queued(b.entry[s], [op |-> op, r |-> r, told |-> told]))
<1>1. PICK e, o : e = b.entry[s] /\ o = [op |-> op, r |-> r, told |-> told]
  OBVIOUS
<1>2. PICK d : d = Queued(e, o)
  OBVIOUS
<1>3. b.entry \in Seq(EntryObjects \cup {Gone}) /\ Sound(e)
  BY <1>1 DEF BackendInv, Parts, AllSound
<1>4. e \in EntryObjects
  BY <1>1, <1>3, LiveIsTyped
<1>5. d \in EntryObjects /\ Sound(d) /\ SameFace(e, d)
  BY <1>1, <1>2, <1>3, <1>4, QueuedIsSound
<1>6. c = With(b, "entry", [b.entry EXCEPT ![s] = d])
  BY <1>1, <1>2 DEF Enqueue, Queued, With
<1>7. Only(b, c, {"entry"}) /\ c.entry = [b.entry EXCEPT ![s] = d]
  <2>1. Shaped(b) /\ "entry" \in Fields
    BY DEF BackendInv, Fields
  <2> QED BY <1>6, <2>1, SetField
<1>8. c.index \subseteq Hashes /\ c.requests = b.requests
      /\ Only(b, c, {"entry", "index", "leftover"})
  BY <1>7 DEF Only, Fields, BackendInv
<1>9. BackendInv(c, owed, 0)
  BY <1>1, <1>5, <1>7, <1>8, TouchKeeps
<1>10. Changed(b.entry, c.entry, s, d)
  BY <1>3, <1>5, <1>7, ExceptChanges
<1> QED BY <1>1, <1>2, <1>7, <1>8, <1>9, <1>10 DEF Leads, SameAsk, Changed

\* Another caller is given the entry, which is entered in the index.
Given(b, s, h) == [b EXCEPT !.entry[s].users = @ + 1, !.index = @ \cup {h}]

LEMMA GivenKeeps ==
  ASSUME NEW b, NEW owed, NEW told, BackendInv(b, owed, told), NEW s \in Live(b.entry),
         NEW h \in Hashes,
         NEW c, c = Given(b, s, h)
  PROVE  BackendInv(c, owed, told) /\ c.requests = b.requests /\ Live(c.entry) = Live(b.entry)
<1>1. PICK e : e = b.entry[s]
  OBVIOUS
<1>2. PICK d : d = [e EXCEPT !.users = e.users + 1]
  OBVIOUS
<1>3. b.entry \in Seq(EntryObjects \cup {Gone}) /\ Sound(e)
  BY <1>1 DEF BackendInv, Parts, AllSound
<1>4. e \in EntryObjects
  BY <1>1, <1>3, LiveIsTyped
<1>5. d \in EntryObjects /\ Sound(d) /\ SameFace(e, d)
  <2>1. d \in EntryObjects
    BY <1>2, <1>4 DEF EntryObjects
  <2>2. /\ d.hash = e.hash /\ d.key = e.key /\ d.doomed = e.doomed /\ d.waited = e.waited
        /\ d.createPendingDoom = e.createPendingDoom /\ d.state = e.state /\ d.queue = e.queue
    BY <1>2, <1>4 DEF EntryObjects
  <2> QED BY <1>3, <2>1, <2>2 DEF Sound, SameFace, Opener
<1>6. DOMAIN b = Fields /\ b.index \subseteq Hashes
  BY DEF BackendInv, Shaped
<1>7. c.entry = [b.entry EXCEPT ![s] = d] /\ c.index = b.index \cup {h}
  BY <1>1, <1>2, <1>6 DEF Fields, Given
<1>8. Only(b, c, {"entry", "index", "leftover"})
  <2>1. DOMAIN c = Fields /\ c = [f \in DOMAIN c |-> c[f]]
    BY <1>6 DEF Given
  <2>2. \A f \in Fields \ {"entry", "index", "leftover"} : c[f] = b[f]
    BY <1>6 DEF Given
  <2> QED BY <2>1, <2>2 DEF Only, Shaped
<1>9. BackendInv(c, owed, told)
  BY <1>1, <1>5, <1>6, <1>7, <1>8, TouchKeeps
<1>10. Live(c.entry) = Live(b.entry)
  <2>1. Changed(b.entry, c.entry, s, d)
    BY <1>3, <1>5, <1>7, ExceptChanges
  <2>2. s \in Live(b.entry)
    OBVIOUS
  <2> QED BY <2>1, <2>2 DEF Changed
<1> QED BY <1>8, <1>9, <1>10 DEF Only, Fields

\* The parameters of a request, or nobody's.
LEMMA EntryOpenKeeps ==
  ASSUME NEW b, NEW owed, BackendInv(b, owed, 0), NEW s \in Live(b.entry), NEW r \in Nat
  PROVE  Leads(b, EntryOpen(b, s, r), owed)
<1>1. Addable(b.entry[s], [op |-> "open", r |-> r, told |-> FALSE])
  BY DEF Addable, EntryOperations
<1> QED BY <1>1, EnqueueKeeps DEF EntryOpen

LEMMA OptimisticallyKeeps ==
  ASSUME NEW b, NEW owed, BackendInv(b, owed, 0), NEW s \in Live(b.entry), NEW r \in Nat,
         b.entry[s].key # NoKey, NEW op \in {"create", "openOrCreate"},
         NEW result \in {"ok", "created"}
  PROVE  Leads(b, Optimistically(b, s, op, r, result), owed)
<1>1. Addable(b.entry[s], [op |-> op, r |-> r, told |-> TRUE])
  BY DEF Addable, EntryOperations
<1>2. PICK c, d, e : /\ c = Enqueue(b, s, op, r, TRUE) /\ d = Tell(c, r, result, r)
                     /\ e = Optimistically(b, s, op, r, result)
  OBVIOUS
<1>3. /\ Leads(b, c, owed)
      /\ Changed(b.entry, c.entry, s, Queued(b.entry[s], [op |-> op, r |-> r, told |-> TRUE]))
  BY <1>1, <1>2, EnqueueKeeps
<1>4. Shaped(c) /\ RequestsOK(c.requests) /\ BackendInv(c, owed, 0) /\ s \in Live(c.entry)
  BY <1>3 DEF Leads, BackendInv, Changed
<1>5. Tells(c, d)
  BY <1>2, <1>4, TellFacts
<1>6. BackendInv(d, owed, 0) /\ SameAsk(c.requests, d.requests) /\ s \in Live(d.entry)
  BY <1>4, <1>5, TellKeeps DEF Tells, SameWork
<1>7. PICK h \in Hashes : h = b.entry[s].hash
  BY LiveIsTyped DEF BackendInv, Parts, AllSound, EntryObjects
<1>8. e = Given(d, s, h)
  BY <1>2, <1>7 DEF Optimistically, Given
<1>9. BackendInv(e, owed, 0) /\ e.requests = d.requests /\ Live(e.entry) = Live(d.entry)
  BY <1>6, <1>8, GivenKeeps
<1>10. d.entry = c.entry
  BY <1>5 DEF Tells, SameWork
<1> QED BY <1>2, <1>3, <1>6, <1>9, <1>10 DEF Leads, SameAsk

LEMMA EntryCreateKeeps ==
  ASSUME NEW b, NEW owed, BackendInv(b, owed, 0), NEW s \in Live(b.entry), NEW r \in Nat,
         b.entry[s].key # NoKey
  PROVE  Leads(b, EntryCreate(b, s, r), owed)
<1>1. CASE Quiet(b, s)
  <2>1. EntryCreate(b, s, r) = Optimistically(b, s, "create", r, "ok")
    BY <1>1 DEF EntryCreate
  <2> QED BY <2>1, OptimisticallyKeeps
<1>2. CASE ~Quiet(b, s)
  <2>1. Addable(b.entry[s], [op |-> "create", r |-> r, told |-> FALSE])
    BY DEF Addable, EntryOperations
  <2>2. PICK c, h : c = Enqueue(b, s, "create", r, FALSE) /\ h = b.entry[s].hash
    OBVIOUS
  <2>3. Leads(b, c, owed)
    BY <2>1, <2>2, EnqueueKeeps
  <2>10. PICK x : x = c.index \cup {h}
    OBVIOUS
  <2>4. PICK d : d = With(c, "index", x)
    OBVIOUS
  <2>5. EntryCreate(b, s, r) = d
    BY <1>2, <2>2, <2>4, <2>10 DEF EntryCreate, With
  <2>6. h \in Hashes
    BY <2>2, LiveIsTyped DEF BackendInv, Parts, AllSound, EntryObjects
  <2>7. Shaped(c) /\ "index" \in Fields
    BY <2>3 DEF Leads, BackendInv, Fields
  <2>8. Only(c, d, {"index"}) /\ d.index = x
    BY <2>4, <2>7, SetField
  <2>9. Leads(b, d, owed)
    BY <2>3, <2>6, <2>8, <2>10 DEF Leads, BackendInv, Only, Fields
  <2> QED BY <2>5, <2>9
<1> QED BY <1>1, <1>2

LEMMA EntryOpenOrCreateKeeps ==
  ASSUME NEW b, NEW owed, BackendInv(b, owed, 0), NEW s \in Live(b.entry), NEW r \in Nat,
         b.entry[s].key # NoKey
  PROVE  Leads(b, EntryOpenOrCreate(b, s, r), owed)
<1>1. CASE Quiet(b, s) /\ b.entry[s].hash \notin b.index
  <2>1. EntryOpenOrCreate(b, s, r) = Optimistically(b, s, "openOrCreate", r, "created")
    BY <1>1 DEF EntryOpenOrCreate
  <2> QED BY <2>1, OptimisticallyKeeps
<1>2. CASE ~(Quiet(b, s) /\ b.entry[s].hash \notin b.index)
  <2>1. Addable(b.entry[s], [op |-> "openOrCreate", r |-> r, told |-> FALSE])
    BY DEF Addable, EntryOperations
  <2>2. EntryOpenOrCreate(b, s, r) = Enqueue(b, s, "openOrCreate", r, FALSE)
    BY <1>2 DEF EntryOpenOrCreate
  <2> QED BY <2>1, <2>2, EnqueueKeeps
<1> QED BY <1>1, <1>2

-------------------------------------------------------------------------------
(* The queues *)

LEMMA QueuesWait ==
  ASSUME NEW table, NEW p, Queues(table, p), NEW h \in Hashes, table[h] # NoQueue,
         NEW c \in Closures, ClosureOK(p, h, c), NEW next,
         next = Longer(table, h, c)
  PROVE  /\ Queues(next, p) /\ next[h] # NoQueue
         /\ \A g \in Hashes : next[g] # NoQueue <=> table[g] # NoQueue
         /\ OnlyRequests(table) /\ c.op = "request" => OnlyRequests(next)
<1>1. table \in [Hashes -> Seq(Closures) \cup {NoQueue}] /\ table[h] \in Seq(Closures)
  BY DEF Queues
<1>2. PICK n \in Nat : n = Len(table[h])
  BY <1>1
<1>3. /\ next[h] \in Seq(Closures) /\ DOMAIN next[h] = 1 .. n + 1 /\ next[h][n + 1] = c
      /\ DOMAIN table[h] = 1 .. n /\ \A i \in 1 .. n : next[h][i] = table[h][i]
  BY <1>1, <1>2 DEF Longer
<1>4. next[h] # NoQueue /\ \A g \in Hashes : g # h => next[g] = table[g]
  BY <1>1, <1>3, BackendAssumption DEF Longer
<1>5. next \in [Hashes -> Seq(Closures) \cup {NoQueue}]
  BY <1>1, <1>3 DEF Longer
<1>6. ASSUME NEW g \in Hashes, next[g] # NoQueue, NEW i \in DOMAIN next[g]
      PROVE  \/ g = h /\ i = n + 1 /\ next[g][i] = c
             \/ table[g] # NoQueue /\ i \in DOMAIN table[g] /\ next[g][i] = table[g][i]
  <2>1. CASE g = h
    <3>1. i \in 1 .. n + 1 /\ next[h][i] = next[g][i] /\ table[g] # NoQueue
      BY <1>3, <1>6, <2>1
    <3>2. CASE i = n + 1
      BY <1>3, <2>1, <3>1, <3>2
    <3>3. CASE i # n + 1
      <4>1. i \in 1 .. n
        BY <3>1, <3>3
      <4> QED BY <1>3, <2>1, <3>1, <4>1
    <3> QED BY <3>2, <3>3
  <2>2. CASE g # h
    BY <1>4, <1>6, <2>2
  <2> QED BY <2>1, <2>2
<1>7. ASSUME NEW g \in Hashes, next[g] # NoQueue, NEW i \in DOMAIN next[g]
      PROVE  ClosureOK(p, g, next[g][i])
  <2>1. CASE g = h /\ i = n + 1 /\ next[g][i] = c
    BY <2>1
  <2>2. CASE table[g] # NoQueue /\ i \in DOMAIN table[g] /\ next[g][i] = table[g][i]
    BY <2>2 DEF Queues
  <2> QED BY <1>6, <1>7, <2>1, <2>2
<1>8. ASSUME OnlyRequests(table), c.op = "request",
             NEW g \in Hashes, next[g] # NoQueue, NEW i \in DOMAIN next[g]
      PROVE  next[g][i].op = "request"
  <2>1. CASE g = h /\ i = n + 1 /\ next[g][i] = c
    BY <1>8, <2>1
  <2>2. CASE table[g] # NoQueue /\ i \in DOMAIN table[g] /\ next[g][i] = table[g][i]
    BY <1>8, <2>2 DEF OnlyRequests
  <2> QED BY <1>6, <1>8, <2>1, <2>2
<1>9. Queues(next, p)
  BY <1>5, <1>7 DEF Queues
<1>10. OnlyRequests(table) /\ c.op = "request" => OnlyRequests(next)
  BY <1>8 DEF OnlyRequests
<1>11. \A g \in Hashes : next[g] # NoQueue <=> table[g] # NoQueue
  BY <1>4
<1> QED BY <1>4, <1>9, <1>10, <1>11

\* A queue is opened, or closed.
LEMMA QueuesReset ==
  ASSUME NEW table, NEW p, Queues(table, p), NEW h \in Hashes, NEW x \in {<<>>, NoQueue},
         NEW next, next = At(table, h, x)
  PROVE  Queues(next, p) /\ (OnlyRequests(table) => OnlyRequests(next))
<1>1. table \in [Hashes -> Seq(Closures) \cup {NoQueue}]
  BY DEF Queues
<1>2. next[h] = x /\ \A g \in Hashes : g # h => next[g] = table[g]
  BY <1>1 DEF At
<1>3. next \in [Hashes -> Seq(Closures) \cup {NoQueue}]
  BY <1>1, EmptyIsQueue DEF At
<1>4. DOMAIN <<>> = {}
  OBVIOUS
<1>5. ASSUME NEW g \in Hashes, next[g] # NoQueue, NEW i \in DOMAIN next[g]
      PROVE  g # h /\ next[g] = table[g]
  <2>1. CASE g = h
    <3>1. x = <<>> /\ i \in DOMAIN <<>>
      BY <1>2, <1>5, <2>1
    <3> QED BY <1>4, <3>1
  <2>2. CASE g # h
    BY <1>2, <2>2
  <2> QED BY <2>1, <2>2
<1>6. Queues(next, p)
  BY <1>3, <1>5 DEF Queues
<1>7. OnlyRequests(table) => OnlyRequests(next)
  BY <1>5 DEF OnlyRequests
<1> QED BY <1>6, <1>7

LEMMA StartFacts ==
  ASSUME NEW b, Shaped(b), NEW table \in Tables, NEW h, b[table][h] = NoQueue, NEW c,
         c = OnOperationStart(b, table, h)
  PROVE  Only(b, c, {table}) /\ c[table] = At(b[table], h, <<>>)
<1>1. PICK x : x = At(b[table], h, <<>>)
  OBVIOUS
<1>2. c = With(b, table, x)
  BY <1>1 DEF OnOperationStart, Check, Waiting, With, At
<1>3. table \in Fields
  BY DEF Tables, Fields
<1> QED BY <1>1, <1>2, <1>3, SetField

LEMMA WaitFacts ==
  ASSUME NEW b, Shaped(b), NEW table \in Tables, NEW h, NEW k, NEW c, c = Wait(b, table, h, k)
  PROVE  Only(b, c, {table}) /\ c[table] = Longer(b[table], h, k)
<1>1. PICK x : x = Longer(b[table], h, k)
  OBVIOUS
<1>2. c = With(b, table, x)
  BY <1>1 DEF Wait, With, Longer
<1>3. table \in Fields
  BY DEF Tables, Fields
<1>4. Only(b, c, {table}) /\ c[table] = x
  BY <1>2, <1>3, SetField
<1> QED BY ONLY <1>1, <1>4

LEMMA WaitKeeps ==
  ASSUME NEW b, NEW owed, BackendInv(b, owed, 0), NEW table \in Tables, NEW h \in Hashes,
         b[table][h] # NoQueue, NEW k \in Closures, k.op # "notify", ClosureOK(b.requests, h, k),
         table = "postOpenByHash" => k.op = "request", NEW c, c = Wait(b, table, h, k)
  PROVE  Leads(b, c, owed)
<1>1. Only(b, c, {table}) /\ c[table] = Longer(b[table], h, k)
  <2>1. Shaped(b)
    BY DEF BackendInv
  <2> QED BY <2>1, WaitFacts
<1>2. /\ c.active = b.active /\ c.entry = b.entry /\ c.massDooms = b.massDooms
      /\ c.requests = b.requests /\ c.index = b.index /\ c.failedChecks = b.failedChecks
      /\ Shaped(c)
  BY <1>1 DEF Only, Fields, Tables
<1>3. /\ Parts(b.active, b.entry, b.postDoom, b.postOpenByHash, b.massDooms, owed, 0)
      /\ Queues(b.postDoom, b.requests) /\ Queues(b.postOpenByHash, b.requests)
      /\ OnlyRequests(b.postOpenByHash)
  BY DEF BackendInv
<1>4. CASE table = "postDoom"
  <2>1. /\ c.postDoom = Longer(b.postDoom, h, k) /\ b.postDoom[h] # NoQueue
        /\ c.postOpenByHash = b.postOpenByHash
    BY <1>1, <1>4 DEF Only, Fields
  <2>2. Parts(b.active, b.entry, c.postDoom, b.postOpenByHash, b.massDooms, owed, 0)
    BY <1>3, <2>1, WaitParts DEF Queues
  <2>3. Queues(c.postDoom, b.requests)
    BY <1>3, <2>1, QueuesWait
  <2> QED BY <1>2, <1>3, <2>1, <2>2, <2>3 DEF Leads, BackendInv, SameAsk
<1>5. CASE table = "postOpenByHash"
  <2>1. /\ c.postOpenByHash = Longer(b.postOpenByHash, h, k)
        /\ b.postOpenByHash[h] # NoQueue /\ c.postDoom = b.postDoom
    BY <1>1, <1>5 DEF Only, Fields
  <2>2. /\ Queues(c.postOpenByHash, b.requests)
        /\ \A g \in Hashes : c.postOpenByHash[g] # NoQueue <=> b.postOpenByHash[g] # NoQueue
        /\ OnlyRequests(c.postOpenByHash)
    BY <1>3, <1>5, <2>1, QueuesWait
  <2>3. OpensUnderWay(b.entry, c.postOpenByHash)
    <3>1. \A s \in Live(b.entry) : b.entry[s].hash \in Hashes
      BY <1>3, LiveIsTyped DEF Parts, AllSound, EntryObjects
    <3> QED BY <1>3, <2>2, <3>1 DEF Parts, OpensUnderWay
  <2>4. Parts(b.active, b.entry, b.postDoom, c.postOpenByHash, b.massDooms, owed, 0)
    BY <1>3, <2>3 DEF Parts
  <2> QED BY <1>2, <1>3, <2>1, <2>2, <2>4 DEF Leads, BackendInv, SameAsk
<1> QED BY <1>4, <1>5 DEF Tables

LEMMA RetryKeeps ==
  ASSUME NEW b, NEW owed, BackendInv(b, owed, 0), NEW table \in Tables, NEW h \in Hashes,
         b[table][h] # NoQueue, NEW r \in Nat, Asked(b.requests, r, h)
  PROVE  Leads(b, Retry(b, table, h, r), owed)
<1>1. PICK k : k = [op |-> "request", r |-> r]
  OBVIOUS
<1>2. k \in Closures /\ k.op = "request" /\ ClosureOK(b.requests, h, k)
  BY <1>1 DEF Closures, ClosureOK
<1> QED BY <1>1, <1>2, WaitKeeps DEF Retry

-------------------------------------------------------------------------------
(* Objects are added, doomed, and hear of a doom *)

LEMMA AddFacts ==
  ASSUME NEW b, NEW owed, BackendInv(b, owed, 0), NEW e \in EntryObjects,
         b.active[e.hash] = 0, NEW s, s = NewSlot(b), NEW c, c = AddEntry(b, e)
  PROVE  /\ Only(b, c, {"entry", "active"}) /\ c.active = At(b.active, e.hash, s)
         /\ Changed(b.entry, c.entry, s, e) /\ c.active[e.hash] = s
         /\ s \in Nat \ {0} /\ s \notin Live(b.entry)
<1>1. /\ b.entry \in Seq(EntryObjects \cup {Gone}) /\ DOMAIN b = Fields /\ e.hash \in Hashes
      /\ b.active \in [Hashes -> Nat]
  BY DEF BackendInv, Shaped, Parts, AllSound, OnMap, EntryObjects
<1>2. s \in 1 .. Len(b.entry) + 1 /\ s \notin Live(b.entry)
  BY <1>1, NewSlotIsFree
<1>3. PICK x, y : x = Put(b.entry, s, e) /\ y = At(b.active, e.hash, s)
  OBVIOUS
<1>4. PICK d, f : d = With(b, "entry", x) /\ f = With(d, "active", y)
  OBVIOUS
<1>5. Only(b, d, {"entry"}) /\ d.entry = x
  <2>1. Shaped(b) /\ "entry" \in Fields
    BY DEF BackendInv, Fields
  <2> QED BY <1>4, <2>1, SetField
<1>6. Only(d, f, {"active"}) /\ f.active = y
  <2>1. Shaped(d) /\ "active" \in Fields
    BY <1>5 DEF Only, Fields
  <2> QED BY <1>4, <2>1, SetField
<1>7. Only(b, f, {"entry", "active"}) /\ f.entry = x /\ f.active = y
  BY <1>5, <1>6 DEF Only, Fields
<1>8. f = c
  BY <1>3, <1>4, <1>1 DEF AddEntry, Check, With, At, Put, Fields
<1>9. Changed(b.entry, x, s, e)
  BY <1>1, <1>2, <1>3, PutChanges
<1>10. y[e.hash] = s
  BY <1>1, <1>3 DEF At
<1>11. s \in Nat \ {0}
  BY <1>1, <1>2
<1> QED BY <1>2, <1>3, <1>7, <1>8, <1>9, <1>10, <1>11

LEMMA NewEntryIsSound ==
  ASSUME NEW h \in Hashes, NEW key \in Keys, NEW p \in {"none", "create"}, NEW e,
         e = NewEntry(h, key, p)
  PROVE  /\ e \in EntryObjects /\ Sound(e) /\ e.hash = h /\ ~e.doomed /\ ~e.waited
         /\ e.createPendingDoom = p /\ ~Opener(e) /\ e.key = key /\ e.queue = <<>>
<1>1. e \in EntryObjects
  BY DEF NewEntry, EntryObjects
<1>2. /\ e.hash = h /\ ~e.doomed /\ ~e.waited /\ e.createPendingDoom = p /\ e.key = key
      /\ e.queue = <<>> /\ e.state = "uninitialized"
  BY DEF NewEntry
<1>3. ~Opener(e)
  BY <1>2 DEF Opener
<1>4. e.key # NoKey /\ \A i \in 2 .. Len(e.queue) : FALSE
  BY <1>2, BackendAssumption
<1>5. Sound(e)
  BY <1>2, <1>3, <1>4 DEF Sound
<1> QED BY <1>1, <1>2, <1>3, <1>5

Added(b, h, key) == AddEntry(b, NewEntry(h, key, "none"))

\* An entry is added to the map.
LEMMA AddKeeps ==
  ASSUME NEW b, NEW owed, BackendInv(b, owed, 0), NEW h \in Hashes, NEW key \in Keys,
         b.active[h] = 0, b.postDoom[h] = NoQueue, NEW c,
         c = Added(b, h, key)
  PROVE  /\ Leads(b, c, owed)
         /\ c.active[h] \in Live(c.entry) /\ c.entry[c.active[h]].key = key /\ c.active[h] # 0
<1>1. PICK e, s : e = NewEntry(h, key, "none") /\ s = NewSlot(b) /\ c = AddEntry(b, e)
  BY DEF Added
<1>2. /\ e \in EntryObjects /\ Sound(e) /\ e.hash = h /\ ~e.doomed /\ ~e.waited
      /\ e.createPendingDoom = "none" /\ ~Opener(e) /\ e.key = key
  BY <1>1, NewEntryIsSound
<1>3. /\ Only(b, c, {"entry", "active"}) /\ c.active = At(b.active, h, s)
      /\ Changed(b.entry, c.entry, s, e) /\ c.active[h] = s
      /\ s \in Nat \ {0} /\ s \notin Live(b.entry)
  BY <1>1, <1>2, AddFacts
<1>4. /\ c.postDoom = b.postDoom /\ c.postOpenByHash = b.postOpenByHash
      /\ c.massDooms = b.massDooms /\ c.requests = b.requests /\ c.index = b.index
      /\ c.failedChecks = b.failedChecks /\ Shaped(c)
  BY <1>3 DEF Only, Fields
<1>5. Parts(b.active, b.entry, b.postDoom, b.postOpenByHash, b.massDooms, owed, 0)
  BY DEF BackendInv
<1>6. Parts(c.active, c.entry, b.postDoom, b.postOpenByHash, b.massDooms, owed, 0)
  BY <1>2, <1>3, <1>5, AddParts
<1>7. Leads(b, c, owed)
  BY <1>3, <1>4, <1>6 DEF Leads, BackendInv, SameAsk, Changed
<1> QED BY <1>2, <1>3, <1>7 DEF Changed

\* An entry is created behind a doom for which nobody waits yet.
LEMMA AddBehindKeeps ==
  ASSUME NEW b, NEW owed, BackendInv(b, owed, 0), NEW h \in Hashes, NEW key \in Keys,
         b.postDoom[h] = <<>>, NEW c, c = MaybeOptimisticCreateForPostDoom(b, h, key)
  PROVE  /\ Leads(b, c, owed)
         /\ c.active[h] \in Live(c.entry) /\ c.entry[c.active[h]].key = key
<1>1. PICK e, s, a : /\ e = NewEntry(h, key, "create") /\ s = NewSlot(b) /\ a = AddEntry(b, e)
  OBVIOUS
<1>2. /\ e \in EntryObjects /\ Sound(e) /\ e.hash = h /\ ~e.doomed /\ ~e.waited
      /\ e.createPendingDoom = "create" /\ ~Opener(e) /\ e.key = key
  BY <1>1, NewEntryIsSound
<1>3. /\ Parts(b.active, b.entry, b.postDoom, b.postOpenByHash, b.massDooms, owed, 0)
      /\ b.postDoom \in [Hashes -> Seq(Closures) \cup {NoQueue}]
  BY DEF BackendInv, Queues
<1>4. b.active[h] = 0
  <2>1. ASSUME b.active[h] # 0
        PROVE  FALSE
    <3>1. b.active[h] \in Live(b.entry) /\ b.entry[b.active[h]].hash = h
      BY <1>3, <2>1 DEF Parts, OnMap
    <3>2. b.postDoom[h] # NoQueue
      BY EmptyIsQueue
    <3>3. b.entry[b.active[h]].createPendingDoom = "create"
      BY <1>3, <2>1, <3>2 DEF Parts, BehindDoom
    <3>4. PICK t : t = b.active[h]
      OBVIOUS
    <3>6. t \in Live(b.entry) \ {0} /\ b.entry[t].hash = h /\ b.entry[t].createPendingDoom # "none"
      BY <2>1, <3>1, <3>3, <3>4
    <3>7. Notified(b.entry, b.postDoom, 0)
      BY <1>3 DEF Parts
    <3>5. b.postDoom[h] # <<>>
      BY <3>6, <3>7 DEF Notified
    <3> QED BY <3>5
  <2> QED BY <2>1
<1>5. /\ Only(b, a, {"entry", "active"}) /\ a.active = At(b.active, h, s)
      /\ Changed(b.entry, a.entry, s, e) /\ a.active[h] = s
      /\ s \in Nat \ {0} /\ s \notin Live(b.entry)
  BY <1>1, <1>2, <1>4, AddFacts
<1>6. c = Wait(a, "postDoom", h, Notify(s))
  BY <1>1, <1>5 DEF MaybeOptimisticCreateForPostDoom, Notify
<1>7. Only(a, c, {"postDoom"}) /\ c.postDoom = Longer(a.postDoom, h, Notify(s))
  <2>1. Shaped(a) /\ "postDoom" \in Tables
    BY <1>5 DEF Only, Tables
  <2> QED BY <1>6, <2>1, WaitFacts
<1>8. /\ c.active = a.active /\ c.entry = a.entry /\ c.postOpenByHash = b.postOpenByHash
      /\ c.massDooms = b.massDooms /\ c.requests = b.requests /\ c.index = b.index
      /\ c.failedChecks = b.failedChecks /\ Shaped(c)
      /\ c.postDoom = Longer(b.postDoom, h, Notify(s))
  BY <1>5, <1>7 DEF Only, Fields
<1>9. Longer(b.postDoom, h, Notify(s)) = At(b.postDoom, h, <<Notify(s)>>)
  <2>1. Append(b.postDoom[h], Notify(s)) = <<Notify(s)>>
    OBVIOUS
  <2> QED BY <2>1 DEF Longer, At
<1>10. Parts(c.active, c.entry, c.postDoom, b.postOpenByHash, b.massDooms, owed, 0)
  <2>1. PICK next, nextDoom : next = c.entry /\ nextDoom = c.postDoom
    OBVIOUS
  <2>2. Changed(b.entry, next, s, e) /\ nextDoom = At(b.postDoom, h, <<Notify(s)>>)
    BY <1>5, <1>8, <1>9, <2>1
  <2>3. Parts(At(b.active, h, s), next, nextDoom, b.postOpenByHash, b.massDooms, owed, 0)
    BY <1>2, <1>3, <1>5, <2>2, AddBehindParts
  <2> QED BY <1>5, <1>8, <2>1, <2>3
<1>11. Queues(c.postDoom, b.requests)
  <2>1. Notify(s) \in Closures /\ ClosureOK(b.requests, h, Notify(s))
    BY <1>5 DEF Notify, Closures, ClosureOK
  <2>2. Queues(b.postDoom, b.requests) /\ b.postDoom[h] # NoQueue
    BY EmptyIsQueue DEF BackendInv
  <2> QED BY <1>8, <2>1, <2>2, QueuesWait
<1>12. Leads(b, c, owed)
  BY <1>5, <1>8, <1>10, <1>11 DEF Leads, BackendInv, SameAsk, Changed
<1> QED BY <1>2, <1>5, <1>8, <1>12 DEF Changed

LEMMA AtChanges ==
  ASSUME NEW entry \in Seq(EntryObjects \cup {Gone}), NEW s \in Live(entry), NEW e \in EntryObjects
  PROVE  Changed(entry, At(entry, s, e), s, e)
<1>1. PICK next : next = [entry EXCEPT ![s] = e]
  OBVIOUS
<1>2. Changed(entry, next, s, e)
  BY <1>1, ExceptChanges
<1>3. At(entry, s, e) = next
  BY <1>1 DEF At
<1> QED BY <1>2, <1>3

LEMMA AtAgain ==
  ASSUME NEW entry \in Seq(EntryObjects \cup {Gone}), NEW s \in Live(entry), NEW d, NEW e
  PROVE  At(entry, s, d)[s] = d /\ At(At(entry, s, d), s, e) = At(entry, s, e)
<1>1. s \in DOMAIN entry
  BY DEF Live
<1> QED BY <1>1 DEF At

-------------------------------------------------------------------------------
(* One entry of the record changes *)

ToDo(op, r, told) == [op |-> op, r |-> r, told |-> told]
WithDoomed(e) == [e EXCEPT !.doomed = TRUE]
WithWaited(e) == [e EXCEPT !.waited = TRUE]
WithPending(e, p) == [e EXCEPT !.createPendingDoom = p]
SetWaited(b, s) == [b EXCEPT !.entry[s].waited = TRUE]
SetPending(b, s, p) == [b EXCEPT !.entry[s].createPendingDoom = p]

LEMMA SetEntry ==
  ASSUME NEW b, Shaped(b), NEW s, NEW e, NEW c, c = With(b, "entry", At(b.entry, s, e))
  PROVE  Only(b, c, {"entry"}) /\ c.entry = At(b.entry, s, e)
<1>1. PICK x : x = At(b.entry, s, e)
  OBVIOUS
<1>2. "entry" \in Fields
  BY DEF Fields
<1>3. c = With(b, "entry", x)
  BY <1>1
<1>4. Only(b, c, {"entry"}) /\ c["entry"] = x
  BY ONLY Shaped(b), <1>2, <1>3, SetField
<1> QED BY <1>1, <1>4

LEMMA EnqueueFacts ==
  ASSUME NEW b, Shaped(b), NEW s, NEW op, NEW r, NEW told, NEW c, c = Enqueue(b, s, op, r, told)
  PROVE  Only(b, c, {"entry"})
         /\ c.entry = At(b.entry, s, Queued(b.entry[s], ToDo(op, r, told)))
<1>1. c = With(b, "entry", At(b.entry, s, Queued(b.entry[s], ToDo(op, r, told))))
  BY DEF Enqueue, With, At, Queued, ToDo
<1> QED BY <1>1, SetEntry

LEMMA SetWaitedFacts ==
  ASSUME NEW b, Shaped(b), NEW s, NEW c, c = SetWaited(b, s)
  PROVE  Only(b, c, {"entry"}) /\ c.entry = At(b.entry, s, WithWaited(b.entry[s]))
<1>1. c = With(b, "entry", At(b.entry, s, WithWaited(b.entry[s])))
  BY DEF SetWaited, With, At, WithWaited
<1> QED BY <1>1, SetEntry

LEMMA SetPendingFacts ==
  ASSUME NEW b, Shaped(b), NEW s, NEW p, NEW c, c = SetPending(b, s, p)
  PROVE  Only(b, c, {"entry"}) /\ c.entry = At(b.entry, s, WithPending(b.entry[s], p))
<1>1. c = With(b, "entry", At(b.entry, s, WithPending(b.entry[s], p)))
  BY DEF SetPending, With, At, WithPending
<1> QED BY <1>1, SetEntry

\* The entry is doomed, and out of the index and off the map.
Marked(b, s, h) ==
  [b EXCEPT !.index = @ \ {h}, !.active[h] = 0, !.entry[s].doomed = TRUE]

LEMMA MarkedFacts ==
  ASSUME NEW b, Shaped(b), NEW s, NEW h, NEW c, c = Marked(b, s, h)
  PROVE  /\ Only(b, c, {"index", "active", "entry"}) /\ c.index = b.index \ {h}
         /\ c.active = At(b.active, h, 0)
         /\ c.entry = At(b.entry, s, WithDoomed(b.entry[s]))
<1>1. DOMAIN b = Fields
  BY DEF Shaped
<1>2. DOMAIN c = Fields /\ c = [f \in DOMAIN c |-> c[f]]
  BY <1>1 DEF Marked
<1>3. c.index = b.index \ {h} /\ c.active = At(b.active, h, 0)
  BY <1>1 DEF Marked, At, Fields
<1>4. c.entry = At(b.entry, s, WithDoomed(b.entry[s]))
  BY <1>1 DEF Marked, At, Fields, WithDoomed
<1>5. \A f \in Fields \ {"index", "active", "entry"} : c[f] = b[f]
  BY <1>1 DEF Marked
<1> QED BY <1>2, <1>3, <1>4, <1>5 DEF Only, Shaped

-------------------------------------------------------------------------------
(* An entry is doomed *)

EnqueueDoom(b, s, r) == Enqueue(b, s, "doom", r, FALSE)
DoomOf(r) == ToDo("doom", r, FALSE)

LEMMA DoomedIsSound ==
  ASSUME NEW e \in EntryObjects, Sound(e), ~e.doomed, NEW r \in Nat,
         NEW d, \/ e.createPendingDoom = "none" /\ d = Queued(WithWaited(WithDoomed(e)),
                                                              DoomOf(r))
                \/ e.createPendingDoom # "none"
                   /\ d = Queued(WithPending(WithDoomed(e), "followedByDoom"),
                                 DoomOf(r))
  PROVE  /\ d \in EntryObjects /\ Sound(d) /\ d.hash = e.hash /\ d.doomed
         /\ e.createPendingDoom = "none" => d.waited /\ d.createPendingDoom = "none"
         /\ e.createPendingDoom # "none" => ~d.waited /\ d.createPendingDoom = "followedByDoom"
                                            /\ ~Opener(e)
         /\ (Opener(d) <=> Opener(e))
<1>1. PICK o, queue : o = DoomOf(r) /\ queue = Append(e.queue, o)
  OBVIOUS
<1>2. o.op = "doom" /\ Addable(e, o)
  BY <1>1 DEF Addable, EntryOperations, ToDo, DoomOf
<1>3. Grown(e, o, queue)
  BY <1>1, <1>2, QueueGrows
<1>9. e.waited = FALSE
  BY DEF Sound, EntryObjects
<1>4. d \in EntryObjects
  BY <1>1, <1>3 DEF WithDoomed, WithWaited, WithPending, Queued, EntryObjects, Grown
<1>5. /\ d.hash = e.hash /\ d.key = e.key /\ d.doomed = TRUE /\ d.state = e.state
      /\ d.queue = queue
      /\ e.createPendingDoom = "none" => d.waited = TRUE /\ d.createPendingDoom = "none"
      /\ e.createPendingDoom # "none" => /\ d.waited = FALSE
                                         /\ d.createPendingDoom = "followedByDoom"
  BY <1>1, <1>9 DEF WithDoomed, WithWaited, WithPending, Queued, EntryObjects
<1>6. Opener(d) <=> Opener(e)
  BY <1>3, <1>5 DEF Opener, Grown
<1>7. \E i \in DOMAIN d.queue : d.queue[i].op = "doom"
  BY <1>2, <1>3, <1>5 DEF Grown
<1>8. Sound(d)
  <2>1. \A i \in 2 .. Len(d.queue) : d.queue[i].op # "openFromHash"
    BY <1>3, <1>5 DEF Grown
  <2>2. Opener(d) => /\ d.key = NoKey /\ d.state = "uninitialized"
                     /\ d.createPendingDoom = "none" /\ d.waited
    BY <1>5, <1>6 DEF Sound
  <2>3. d.key = NoKey => \A i \in DOMAIN d.queue : d.queue[i].op \notin {"create", "openOrCreate"}
    BY <1>3, <1>5 DEF Grown
  <2> QED BY <1>5, <1>7, <2>1, <2>2, <2>3 DEF Sound
<1>10. Opener(e) => e.createPendingDoom = "none"
  BY DEF Sound
<1> QED BY <1>4, <1>5, <1>6, <1>8, <1>10

LEMMA EntryDoomIs ==
  ASSUME NEW b, NEW s, NEW r, NEW h, h = b.entry[s].hash, NEW c, c = EntryDoom(b, s, r)
  PROVE  /\ b.entry[s].doomed => c = Tell(b, r, "ok", 0)
         /\ ~b.entry[s].doomed /\ b.active[h] = s /\ b.entry[s].createPendingDoom = "none" =>
              c = EnqueueDoom(SetWaited(OnOperationStart(Marked(b, s, h), "postDoom", h), s), s, r)
         /\ ~b.entry[s].doomed /\ b.active[h] = s /\ b.entry[s].createPendingDoom # "none" =>
              c = EnqueueDoom(SetPending(Marked(b, s, h), s, "followedByDoom"), s, r)
<1>1. b.entry[s].doomed => c = Tell(b, r, "ok", 0)
  BY DEF EntryDoom
<1>2. ASSUME ~b.entry[s].doomed, b.active[h] = s, b.entry[s].createPendingDoom = "none"
      PROVE  c = EnqueueDoom(SetWaited(OnOperationStart(Marked(b, s, h), "postDoom", h), s), s, r)
  BY <1>2 DEF EntryDoom, EnqueueDoom, OnDoomStart, Check, SetWaited, Marked
<1>3. ASSUME ~b.entry[s].doomed, b.active[h] = s, b.entry[s].createPendingDoom # "none"
      PROVE  c = EnqueueDoom(SetPending(Marked(b, s, h), s, "followedByDoom"), s, r)
  BY <1>3 DEF EntryDoom, EnqueueDoom, OnDoomStart, Check, SetPending, Marked
<1> QED BY <1>1, <1>2, <1>3

LEMMA EnqueueDoomFacts ==
  ASSUME NEW b, Shaped(b), NEW s, NEW r, NEW c, c = EnqueueDoom(b, s, r)
  PROVE  Only(b, c, {"entry"})
         /\ c.entry = At(b.entry, s, Queued(b.entry[s], DoomOf(r)))
<1>1. c = With(b, "entry", At(b.entry, s, Queued(b.entry[s], DoomOf(r))))
  BY DEF EnqueueDoom, Enqueue, With, At, Queued, ToDo, DoomOf
<1> QED BY <1>1, SetEntry

\* Other hashes are left alone.
Elsewhere(b, c, h) ==
  \A g \in Hashes : g # h => c.active[g] = b.active[g] /\ c.postDoom[g] = b.postDoom[g]

LEMMA DoomNowKeeps ==
  ASSUME NEW b, NEW owed, BackendInv(b, owed, 0), NEW s \in Live(b.entry), NEW r \in Nat,
         NEW h, h = b.entry[s].hash, NEW c, c = EntryDoom(b, s, r),
         ~b.entry[s].doomed, b.entry[s].createPendingDoom = "none"
  PROVE  Leads(b, c, owed) /\ c.active[h] = 0 /\ c.postDoom[h] # NoQueue /\ Elsewhere(b, c, h)
<1>1. PICK e, o : e = b.entry[s] /\ o = DoomOf(r)
  OBVIOUS
<1>2. /\ b.entry \in Seq(EntryObjects \cup {Gone}) /\ Sound(e) /\ Shaped(b)
      /\ Parts(b.active, b.entry, b.postDoom, b.postOpenByHash, b.massDooms, owed, 0)
      /\ b.postDoom \in [Hashes -> Seq(Closures) \cup {NoQueue}]
      /\ b.active \in [Hashes -> Nat]
  BY <1>1 DEF BackendInv, Parts, AllSound, OnMap, Queues
<1>3. e \in EntryObjects
  BY <1>1, <1>2, LiveIsTyped
<1>4. h \in Hashes
  BY <1>1, <1>3 DEF EntryObjects
<1>5. PICK d : d = Queued(WithWaited(WithDoomed(e)), o)
  OBVIOUS
<1>6. /\ d \in EntryObjects /\ Sound(d) /\ d.hash = h /\ d.doomed /\ d.waited
      /\ d.createPendingDoom = "none" /\ (Opener(d) <=> Opener(e))
  <2>1. ~e.doomed /\ e.createPendingDoom = "none" /\ e.hash = h
    BY <1>1
  <2>2. d = Queued(WithWaited(WithDoomed(e)), DoomOf(r))
    BY <1>1, <1>5
  <2> QED BY ONLY <1>2, <1>3, r \in Nat, <2>1, <2>2, DoomedIsSound
<1>7. PICK next : next = At(b.entry, s, d)
  OBVIOUS
<1>8. Changed(b.entry, next, s, d)
  BY <1>2, <1>6, <1>7, AtChanges
<1>9. /\ b.active[h] = s /\ b.postDoom[h] = NoQueue
      /\ Parts(At(b.active, h, 0), next, Begun(b.postDoom, h),
               b.postOpenByHash, b.massDooms, owed, 0)
  <2>1. Opener(d) <=> Opener(b.entry[s])
    BY <1>1, <1>6
  <2>2. /\ ~b.entry[s].doomed /\ b.entry[s].createPendingDoom = "none" /\ h = b.entry[s].hash
        /\ s \in Live(b.entry)
    OBVIOUS
  <2>3. PICK a, f, t, u, k : /\ a = b.active /\ f = b.entry /\ t = b.postDoom
                             /\ u = b.postOpenByHash /\ k = b.massDooms
    OBVIOUS
  <2>4. Parts(a, f, t, u, k, owed, 0) /\ t \in [Hashes -> Seq(Closures) \cup {NoQueue}]
    BY <1>2, <2>3
  <2>5. /\ ~f[s].doomed /\ f[s].createPendingDoom = "none" /\ h = f[s].hash
        /\ s \in Live(f) /\ Changed(f, next, s, d) /\ (Opener(d) <=> Opener(f[s]))
    BY <1>8, <2>1, <2>2, <2>3
  <2>6. a[h] = s /\ t[h] = NoQueue /\ Parts(At(a, h, 0), next, Begun(t, h), u, k, owed, 0)
    BY ONLY <1>6, <2>4, <2>5, DoomParts
  <2> QED BY <2>3, <2>6
<1>10. PICK m, q, w : /\ m = Marked(b, s, h) /\ q = OnOperationStart(m, "postDoom", h)
                      /\ w = SetWaited(q, s)
  OBVIOUS
<1>11. c = EnqueueDoom(w, s, r)
  BY <1>9, <1>10, EntryDoomIs
<1>12. /\ Only(b, m, {"index", "active", "entry"}) /\ m.index = b.index \ {h}
       /\ m.active = At(b.active, h, 0) /\ m.entry = At(b.entry, s, WithDoomed(e))
  BY <1>1, <1>2, <1>10, MarkedFacts
<1>13. m.postDoom = b.postDoom /\ Shaped(m)
  BY <1>12 DEF Only, Fields
<1>14. Only(m, q, {"postDoom"}) /\ q.postDoom = At(b.postDoom, h, <<>>)
  <2>1. "postDoom" \in Tables /\ m["postDoom"][h] = NoQueue
    BY <1>9, <1>13 DEF Tables
  <2>2. Only(m, q, {"postDoom"}) /\ q["postDoom"] = At(m["postDoom"], h, <<>>)
    BY <1>10, <1>13, <2>1, StartFacts
  <2> QED BY <1>13, <2>2
<1>15. Shaped(q) /\ q.entry = m.entry
  BY <1>14 DEF Only, Fields
<1>16. Only(q, w, {"entry"}) /\ w.entry = At(q.entry, s, WithWaited(q.entry[s]))
  BY <1>10, <1>15, SetWaitedFacts
<1>17. Shaped(w)
  BY <1>16 DEF Only
<1>18. Only(w, c, {"entry"}) /\ c.entry = At(w.entry, s, Queued(w.entry[s], o))
  <2>1. /\ Only(w, c, {"entry"})
        /\ c.entry = At(w.entry, s, Queued(w.entry[s], DoomOf(r)))
    BY ONLY <1>11, <1>17, EnqueueDoomFacts
  <2> QED BY <1>1, <2>1
<1>19. c.entry = next
  <2>1. PICK x, y : x = WithDoomed(e) /\ y = WithWaited(x)
    OBVIOUS
  <2>2. m.entry = At(b.entry, s, x) /\ m.entry[s] = x
    <3>1. s \in DOMAIN b.entry
      BY DEF Live
    <3> QED BY <1>12, <2>1, <3>1 DEF At
  <2>3. w.entry = At(At(b.entry, s, x), s, y)
    BY <1>15, <1>16, <2>1, <2>2
  <2>4. w.entry = At(b.entry, s, y) /\ At(b.entry, s, y)[s] = y
    <3>1. s \in DOMAIN b.entry
      BY DEF Live
    <3> QED BY <2>3, <3>1 DEF At
  <2>5. c.entry = At(At(b.entry, s, y), s, d)
    BY <1>5, <1>18, <2>1, <2>4
  <2> QED BY <1>2, <1>7, <2>5, AtAgain
<1>20. /\ c.active = At(b.active, h, 0) /\ c.postDoom = At(b.postDoom, h, <<>>)
       /\ c.postOpenByHash = b.postOpenByHash /\ c.massDooms = b.massDooms
       /\ c.requests = b.requests /\ c.index = b.index \ {h}
       /\ c.failedChecks = b.failedChecks /\ Shaped(c)
  <2>1. /\ c.active = m.active /\ c.postDoom = q.postDoom /\ c.index = m.index
    BY <1>14, <1>16, <1>18 DEF Only, Fields
  <2>2. /\ c.postOpenByHash = b.postOpenByHash /\ c.massDooms = b.massDooms
        /\ c.requests = b.requests /\ c.failedChecks = b.failedChecks /\ Shaped(c)
    BY <1>12, <1>14, <1>16, <1>18 DEF Only, Fields
  <2> QED BY <1>12, <1>14, <2>1, <2>2
<1>21. Queues(c.postDoom, c.requests) /\ Queues(c.postOpenByHash, c.requests)
       /\ OnlyRequests(c.postOpenByHash)
  <2>1. Queues(b.postDoom, b.requests)
    BY DEF BackendInv
  <2>2. Queues(c.postDoom, b.requests)
    BY <1>4, <1>20, <2>1, QueuesReset
  <2> QED BY <1>20, <2>2 DEF BackendInv
<1>22. BackendInv(c, owed, 0)
  <2>1. Parts(c.active, c.entry, c.postDoom, c.postOpenByHash, c.massDooms, owed, 0)
    BY <1>9, <1>19, <1>20 DEF Begun
  <2>2. c.index \subseteq Hashes /\ c.failedChecks = {} /\ RequestsOK(c.requests)
    BY <1>20 DEF BackendInv
  <2> QED BY <1>20, <1>21, <2>1, <2>2 DEF BackendInv
<1>23. c.active[h] = 0 /\ c.postDoom[h] = <<>>
  BY <1>2, <1>4, <1>20 DEF At
<1>24. Elsewhere(b, c, h)
  BY <1>2, <1>4, <1>20 DEF At, Elsewhere
<1> QED BY <1>8, <1>19, <1>20, <1>22, <1>23, <1>24, EmptyIsQueue DEF Leads, SameAsk, Changed

LEMMA DoomBehindKeeps ==
  ASSUME NEW b, NEW owed, BackendInv(b, owed, 0), NEW s \in Live(b.entry), NEW r \in Nat,
         NEW h, h = b.entry[s].hash, NEW c, c = EntryDoom(b, s, r),
         ~b.entry[s].doomed, b.entry[s].createPendingDoom # "none"
  PROVE  Leads(b, c, owed) /\ c.active[h] = 0 /\ Elsewhere(b, c, h)
<1>1. PICK e, o, p : /\ e = b.entry[s] /\ o = DoomOf(r) /\ p = "followedByDoom"
  OBVIOUS
<1>2. /\ b.entry \in Seq(EntryObjects \cup {Gone}) /\ Sound(e) /\ Shaped(b)
      /\ Parts(b.active, b.entry, b.postDoom, b.postOpenByHash, b.massDooms, owed, 0)
      /\ b.active \in [Hashes -> Nat]
  BY <1>1 DEF BackendInv, Parts, AllSound, OnMap
<1>3. e \in EntryObjects
  BY <1>1, <1>2, LiveIsTyped
<1>4. h \in Hashes
  BY <1>1, <1>3 DEF EntryObjects
<1>5. PICK d : d = Queued(WithPending(WithDoomed(e), p), o)
  OBVIOUS
<1>6. /\ d \in EntryObjects /\ Sound(d) /\ d.hash = h /\ d.doomed /\ ~d.waited
      /\ d.createPendingDoom = "followedByDoom" /\ ~Opener(d)
  <2>1. ~e.doomed /\ e.createPendingDoom # "none" /\ e.hash = h
    BY <1>1
  <2>2. d = Queued(WithPending(WithDoomed(e), "followedByDoom"), DoomOf(r))
    BY <1>1, <1>5
  <2> QED BY ONLY <1>2, <1>3, r \in Nat, <2>1, <2>2, DoomedIsSound
<1>7. PICK next : next = At(b.entry, s, d)
  OBVIOUS
<1>8. Changed(b.entry, next, s, d)
  BY <1>2, <1>6, <1>7, AtChanges
<1>9. /\ b.active[h] = s
      /\ Parts(At(b.active, h, 0), next, b.postDoom, b.postOpenByHash, b.massDooms, owed, 0)
  BY <1>1, <1>2, <1>6, <1>8, DoomBehindParts
<1>10. PICK m, w : m = Marked(b, s, h) /\ w = SetPending(m, s, p)
  OBVIOUS
<1>11. c = EnqueueDoom(w, s, r)
  <2>0. ~b.entry[s].doomed /\ b.active[h] = s /\ b.entry[s].createPendingDoom # "none"
    BY <1>9
  <2>1. c = EnqueueDoom(SetPending(Marked(b, s, h), s, "followedByDoom"), s, r)
    BY <1>9, <2>0, EntryDoomIs
  <2> QED BY <1>1, <1>10, <2>1
<1>12. /\ Only(b, m, {"index", "active", "entry"}) /\ m.index = b.index \ {h}
       /\ m.active = At(b.active, h, 0) /\ m.entry = At(b.entry, s, WithDoomed(e))
  BY <1>1, <1>2, <1>10, MarkedFacts
<1>13. Shaped(m)
  BY <1>12 DEF Only
<1>16. Only(m, w, {"entry"}) /\ w.entry = At(m.entry, s, WithPending(m.entry[s], p))
  BY <1>10, <1>13, SetPendingFacts
<1>17. Shaped(w)
  BY <1>16 DEF Only
<1>18. Only(w, c, {"entry"}) /\ c.entry = At(w.entry, s, Queued(w.entry[s], o))
  <2>1. /\ Only(w, c, {"entry"})
        /\ c.entry = At(w.entry, s, Queued(w.entry[s], DoomOf(r)))
    BY ONLY <1>11, <1>17, EnqueueDoomFacts
  <2> QED BY <1>1, <2>1
<1>19. c.entry = next
  <2>1. PICK x, y : x = WithDoomed(e) /\ y = WithPending(x, p)
    OBVIOUS
  <2>2. m.entry = At(b.entry, s, x) /\ m.entry[s] = x
    <3>1. s \in DOMAIN b.entry
      BY DEF Live
    <3> QED BY <1>12, <2>1, <3>1 DEF At
  <2>3. w.entry = At(At(b.entry, s, x), s, y)
    BY <1>16, <2>1, <2>2
  <2>4. w.entry = At(b.entry, s, y) /\ At(b.entry, s, y)[s] = y
    <3>1. s \in DOMAIN b.entry
      BY DEF Live
    <3> QED BY <2>3, <3>1 DEF At
  <2>5. c.entry = At(At(b.entry, s, y), s, d)
    BY <1>5, <1>18, <2>1, <2>4
  <2> QED BY <1>2, <1>7, <2>5, AtAgain
<1>20. /\ c.active = At(b.active, h, 0) /\ c.postDoom = b.postDoom
       /\ c.postOpenByHash = b.postOpenByHash /\ c.massDooms = b.massDooms
       /\ c.requests = b.requests /\ c.index = b.index \ {h}
       /\ c.failedChecks = b.failedChecks /\ Shaped(c)
  BY <1>12, <1>16, <1>18 DEF Only, Fields
<1>22. BackendInv(c, owed, 0)
  <2>1. Parts(c.active, c.entry, c.postDoom, c.postOpenByHash, c.massDooms, owed, 0)
    BY <1>9, <1>19, <1>20
  <2>2. c.index \subseteq Hashes
    BY <1>20 DEF BackendInv
  <2> QED BY <1>20, <2>1, <2>2 DEF BackendInv
<1>23. c.active[h] = 0
  BY <1>2, <1>4, <1>20 DEF At
<1>24. Elsewhere(b, c, h)
  BY <1>2, <1>4, <1>20 DEF At, Elsewhere
<1> QED BY <1>8, <1>19, <1>20, <1>22, <1>23, <1>24 DEF Leads, SameAsk, Changed

\* An entry is doomed, or was already.
LEMMA EntryDoomKeeps ==
  ASSUME NEW b, NEW owed, BackendInv(b, owed, 0), NEW s \in Live(b.entry), NEW r \in Nat,
         NEW h, h = b.entry[s].hash, NEW c, c = EntryDoom(b, s, r)
  PROVE  /\ Leads(b, c, owed) /\ Elsewhere(b, c, h)
         /\ ~b.entry[s].doomed => c.active[h] = 0
         /\ ~b.entry[s].doomed /\ b.entry[s].createPendingDoom = "none" =>
              c.postDoom[h] # NoQueue
<1>1. CASE b.entry[s].doomed
  <2>1. c = Tell(b, r, "ok", 0)
    BY <1>1, EntryDoomIs
  <2>2. Tells(b, c)
    BY <2>1, TellFacts DEF BackendInv
  <2>3. Elsewhere(b, c, h)
    BY <2>2 DEF Tells, SameWork, Elsewhere
  <2> QED BY <1>1, <2>1, <2>3, TellLeads
<1>2. CASE ~b.entry[s].doomed /\ b.entry[s].createPendingDoom = "none"
  BY <1>2, DoomNowKeeps
<1>3. CASE ~b.entry[s].doomed /\ b.entry[s].createPendingDoom # "none"
  BY <1>3, DoomBehindKeeps
<1> QED BY <1>1, <1>2, <1>3

-------------------------------------------------------------------------------
(* An entry hears that the doom before it is over *)

LEMMA HeardIsSound ==
  ASSUME NEW e \in EntryObjects, Sound(e), e.createPendingDoom # "none",
         NEW d, d = WithPending(IF e.createPendingDoom = "followedByDoom"
                                THEN WithWaited(e) ELSE e, "none")
  PROVE  /\ d \in EntryObjects /\ Sound(d) /\ d.hash = e.hash
         /\ d.createPendingDoom = "none" /\ ~Opener(d) /\ ~Opener(e)
         /\ e.createPendingDoom = "followedByDoom" => d.doomed /\ e.doomed /\ d.waited
         /\ e.createPendingDoom # "followedByDoom" => ~d.doomed /\ ~e.doomed /\ ~d.waited
<1>1. e.waited = FALSE /\ ~Opener(e) /\ e.createPendingDoom \in {"create", "followedByDoom"}
  BY DEF Sound, EntryObjects
<1>2. d \in EntryObjects
  BY DEF WithPending, WithWaited, EntryObjects
<1>3. /\ d.hash = e.hash /\ d.key = e.key /\ d.doomed = e.doomed /\ d.state = e.state
      /\ d.queue = e.queue /\ d.createPendingDoom = "none"
      /\ e.createPendingDoom = "followedByDoom" => d.waited = TRUE
      /\ e.createPendingDoom # "followedByDoom" => d.waited = FALSE
  BY <1>1 DEF WithPending, WithWaited, EntryObjects
<1>4. ~Opener(d)
  BY <1>1, <1>3 DEF Opener
<1>5. /\ e.createPendingDoom = "followedByDoom" =>
           e.doomed /\ \E i \in DOMAIN e.queue : e.queue[i].op = "doom"
      /\ e.createPendingDoom = "create" => ~e.doomed
      /\ \A i \in 2 .. Len(e.queue) : e.queue[i].op # "openFromHash"
      /\ e.key = NoKey => e.doomed
      /\ e.key = NoKey => \A i \in DOMAIN e.queue : e.queue[i].op \notin {"create", "openOrCreate"}
  BY <1>1 DEF Sound
<1>6. Sound(d)
  BY <1>1, <1>3, <1>4, <1>5 DEF Sound
<1> QED BY <1>1, <1>2, <1>3, <1>4, <1>5, <1>6

LEMMA NotifyIs ==
  ASSUME NEW b, NEW s, NEW h, h = b.entry[s].hash,
         NEW c, c = NotifyDoomBeforeCreateComplete(b, s)
  PROVE  /\ b.entry[s].createPendingDoom = "followedByDoom" =>
              c = SetPending(SetWaited(OnOperationStart(b, "postDoom", h), s), s, "none")
         /\ b.entry[s].createPendingDoom # "followedByDoom" => c = SetPending(b, s, "none")
<1>1. ASSUME b.entry[s].createPendingDoom = "followedByDoom"
      PROVE  c = SetPending(SetWaited(OnOperationStart(b, "postDoom", h), s), s, "none")
  BY <1>1 DEF NotifyDoomBeforeCreateComplete, OnDoomStart, SetPending, SetWaited
<1>2. ASSUME b.entry[s].createPendingDoom # "followedByDoom"
      PROVE  c = SetPending(b, s, "none")
  BY <1>2 DEF NotifyDoomBeforeCreateComplete, SetPending
<1> QED BY <1>1, <1>2

LEMMA NotifyDoomedKeeps ==
  ASSUME NEW b, NEW owed, NEW s, s # 0, BackendInv(b, owed, s),
         b.entry[s].createPendingDoom = "followedByDoom",
         NEW c, c = NotifyDoomBeforeCreateComplete(b, s)
  PROVE  Leads(b, c, owed)
<1>1. PICK e, h, p : e = b.entry[s] /\ h = b.entry[s].hash /\ p = "none"
  OBVIOUS
<1>2. /\ b.entry \in Seq(EntryObjects \cup {Gone}) /\ Shaped(b)
      /\ Parts(b.active, b.entry, b.postDoom, b.postOpenByHash, b.massDooms, owed, s)
      /\ b.postDoom \in [Hashes -> Seq(Closures) \cup {NoQueue}]
  BY <1>1 DEF BackendInv, Parts, AllSound, OnMap, Queues
<1>3. s \in Live(b.entry) /\ b.postDoom[h] = NoQueue
  BY <1>1, <1>2 DEF Parts, Hearing
<1>4. e \in EntryObjects /\ Sound(e) /\ e.createPendingDoom = "followedByDoom"
  BY <1>1, <1>2, <1>3, LiveIsTyped DEF Parts, AllSound
<1>5. h \in Hashes
  BY <1>1, <1>4 DEF EntryObjects
<1>6. PICK y, d : y = WithWaited(e) /\ d = WithPending(y, p)
  OBVIOUS
<1>7. /\ d \in EntryObjects /\ Sound(d) /\ d.hash = h /\ d.doomed /\ e.doomed /\ d.waited
      /\ d.createPendingDoom = "none" /\ ~Opener(d) /\ ~Opener(e)
  <2>1. d = WithPending(IF e.createPendingDoom = "followedByDoom" THEN WithWaited(e) ELSE e, "none")
    BY <1>1, <1>4, <1>6
  <2>2. e.createPendingDoom # "none" /\ h = e.hash
    BY <1>1, <1>4
  <2> QED BY ONLY <1>4, <2>1, <2>2, HeardIsSound
<1>8. PICK next : next = At(b.entry, s, d)
  OBVIOUS
<1>9. Changed(b.entry, next, s, d)
  BY <1>2, <1>3, <1>7, <1>8, AtChanges
<1>10. Parts(b.active, next, Begun(b.postDoom, h), b.postOpenByHash, b.massDooms, owed, 0)
  <2>3. PICK a, f, t, u, k : /\ a = b.active /\ f = b.entry /\ t = b.postDoom
                             /\ u = b.postOpenByHash /\ k = b.massDooms
    OBVIOUS
  <2>4. Parts(a, f, t, u, k, owed, s) /\ t \in [Hashes -> Seq(Closures) \cup {NoQueue}]
    BY <1>2, <2>3
  <2>5. /\ f[s].doomed /\ h = f[s].hash /\ s # 0
        /\ Changed(f, next, s, d) /\ (Opener(d) <=> Opener(f[s]))
    BY <1>1, <1>7, <1>9, <2>3
  <2>6. Parts(a, next, Begun(t, h), u, k, owed, 0)
    BY ONLY <1>7, <2>4, <2>5, HeardDoomedParts
  <2> QED BY <2>3, <2>6
<1>11. PICK q, w : q = OnOperationStart(b, "postDoom", h) /\ w = SetWaited(q, s)
  OBVIOUS
<1>12. c = SetPending(w, s, p)
  BY <1>1, <1>11, NotifyIs
<1>13. Only(b, q, {"postDoom"}) /\ q.postDoom = At(b.postDoom, h, <<>>)
  <2>1. "postDoom" \in Tables /\ b["postDoom"][h] = NoQueue
    BY <1>3 DEF Tables
  <2>2. Only(b, q, {"postDoom"}) /\ q["postDoom"] = At(b["postDoom"], h, <<>>)
    BY <1>2, <1>11, <2>1, StartFacts
  <2> QED BY <2>2
<1>14. Shaped(q) /\ q.entry = b.entry
  BY <1>13 DEF Only, Fields
<1>15. Only(q, w, {"entry"}) /\ w.entry = At(q.entry, s, WithWaited(q.entry[s]))
  BY <1>11, <1>14, SetWaitedFacts
<1>16. Shaped(w)
  BY <1>15 DEF Only
<1>17. Only(w, c, {"entry"}) /\ c.entry = At(w.entry, s, WithPending(w.entry[s], p))
  BY <1>12, <1>16, SetPendingFacts
<1>18. c.entry = next
  <2>1. w.entry = At(b.entry, s, y) /\ w.entry[s] = y
    <3>1. s \in DOMAIN b.entry
      BY <1>3 DEF Live
    <3> QED BY <1>1, <1>6, <1>14, <1>15, <3>1 DEF At
  <2>2. c.entry = At(At(b.entry, s, y), s, d)
    BY <1>6, <1>17, <2>1
  <2> QED BY <1>8, <2>2 DEF At
<1>19. /\ c.postDoom = At(b.postDoom, h, <<>>) /\ c.active = b.active
       /\ c.postOpenByHash = b.postOpenByHash /\ c.massDooms = b.massDooms
       /\ c.requests = b.requests /\ c.index = b.index
       /\ c.failedChecks = b.failedChecks /\ Shaped(c)
  <2>1. c.postDoom = q.postDoom
    BY <1>15, <1>17 DEF Only, Fields
  <2>2. /\ c.active = b.active
        /\ c.postOpenByHash = b.postOpenByHash /\ c.massDooms = b.massDooms
        /\ c.requests = b.requests /\ c.index = b.index
        /\ c.failedChecks = b.failedChecks /\ Shaped(c)
    BY <1>13, <1>15, <1>17 DEF Only, Fields
  <2> QED BY <1>13, <2>1, <2>2
<1>20. Queues(c.postDoom, c.requests)
  <2>1. Queues(b.postDoom, b.requests)
    BY DEF BackendInv
  <2>2. Queues(c.postDoom, b.requests)
    BY <1>5, <1>19, <2>1, QueuesReset
  <2> QED BY <1>19, <2>2
<1>21. BackendInv(c, owed, 0)
  <2>1. Parts(c.active, c.entry, c.postDoom, c.postOpenByHash, c.massDooms, owed, 0)
    BY <1>10, <1>18, <1>19 DEF Begun
  <2> QED BY <1>19, <1>20, <2>1 DEF BackendInv
<1> QED BY <1>9, <1>18, <1>19, <1>21 DEF Leads, SameAsk, Changed

LEMMA NotifyKeeps ==
  ASSUME NEW b, NEW owed, NEW s, s # 0, BackendInv(b, owed, s),
         NEW c, c = NotifyDoomBeforeCreateComplete(b, s)
  PROVE  Leads(b, c, owed)
<1>1. PICK e, h, p : e = b.entry[s] /\ h = b.entry[s].hash /\ p = "none"
  OBVIOUS
<1>2. /\ b.entry \in Seq(EntryObjects \cup {Gone}) /\ Shaped(b)
      /\ Parts(b.active, b.entry, b.postDoom, b.postOpenByHash, b.massDooms, owed, s)
  BY <1>1 DEF BackendInv, Parts, AllSound, OnMap
<1>3. s \in Live(b.entry) /\ e.createPendingDoom # "none"
  BY <1>1, <1>2 DEF Parts, Hearing
<1>4. e \in EntryObjects /\ Sound(e)
  BY <1>1, <1>2, <1>3, LiveIsTyped DEF Parts, AllSound
<1>5. CASE e.createPendingDoom = "followedByDoom"
  BY <1>1, <1>5, NotifyDoomedKeeps
<1>6. CASE e.createPendingDoom # "followedByDoom"
  <2>6. PICK d : d = WithPending(e, p)
    OBVIOUS
  <2>7. /\ d \in EntryObjects /\ Sound(d) /\ d.hash = h /\ ~d.doomed /\ ~e.doomed /\ ~d.waited
        /\ d.createPendingDoom = "none" /\ ~Opener(d) /\ ~Opener(e)
    <3>1. d = WithPending(IF e.createPendingDoom = "followedByDoom" THEN WithWaited(e) ELSE e, "none")
      BY <1>1, <1>6, <2>6
    <3>2. h = e.hash
      BY <1>1
    <3> QED BY ONLY <1>3, <1>4, <1>6, <3>1, <3>2, HeardIsSound
  <2>8. PICK next : next = At(b.entry, s, d)
    OBVIOUS
  <2>9. Changed(b.entry, next, s, d)
    BY <1>2, <1>3, <2>7, <2>8, AtChanges
  <2>10. Parts(b.active, next, b.postDoom, b.postOpenByHash, b.massDooms, owed, 0)
    <3>3. PICK a, f, t, u, k : /\ a = b.active /\ f = b.entry /\ t = b.postDoom
                               /\ u = b.postOpenByHash /\ k = b.massDooms
      OBVIOUS
    <3>4. Parts(a, f, t, u, k, owed, s)
      BY <1>2, <3>3
    <3>5. /\ ~f[s].doomed /\ d.hash = f[s].hash /\ s # 0
          /\ Changed(f, next, s, d) /\ (Opener(d) <=> Opener(f[s]))
      BY <1>1, <2>7, <2>9, <3>3
    <3>6. Parts(a, next, t, u, k, owed, 0)
      BY ONLY <2>7, <3>4, <3>5, HeardParts
    <3> QED BY <3>3, <3>6
  <2>11. c = SetPending(b, s, p)
    BY <1>1, <1>6, NotifyIs
  <2>12. Only(b, c, {"entry"}) /\ c.entry = next
    BY <1>1, <1>2, <2>6, <2>8, <2>11, SetPendingFacts
  <2>13. /\ c.postDoom = b.postDoom /\ c.active = b.active
         /\ c.postOpenByHash = b.postOpenByHash /\ c.massDooms = b.massDooms
         /\ c.requests = b.requests /\ c.index = b.index
         /\ c.failedChecks = b.failedChecks /\ Shaped(c)
    BY <2>12 DEF Only, Fields
  <2>14. BackendInv(c, owed, 0)
    BY <2>10, <2>12, <2>13 DEF BackendInv
  <2> QED BY <2>9, <2>12, <2>13, <2>14 DEF Leads, SameAsk, Changed
<1> QED BY <1>5, <1>6

-------------------------------------------------------------------------------
(* The requests *)

Found(b, s, table) == [b |-> b, slot |-> s, table |-> table]

LEMMA FindIs ==
  ASSUME NEW b, NEW h, NEW key \in Keys, NEW s, s = b.active[h],
         NEW f, f = CreateOrFindActiveOrDoomedEntry(b, h, key)
  PROVE  /\ b.postDoom[h] # NoQueue => f = Found(b, 0, "postDoom")
         /\ b.postDoom[h] = NoQueue /\ s # 0 /\ b.entry[s].key = key => f = Found(b, s, "none")
         /\ b.postDoom[h] = NoQueue /\ s # 0 /\ b.entry[s].key = NoKey
              /\ b.postOpenByHash[h] # NoQueue => f = Found(b, 0, "postOpenByHash")
         /\ b.postDoom[h] = NoQueue /\ s # 0 /\ b.entry[s].key # NoKey /\ b.entry[s].key # key =>
              \A d : d = EntryDoom(b, s, 0) /\ d.active[h] = 0 /\ d.postDoom[h] # NoQueue =>
                     f = Found(d, 0, "postDoom")
<1>0. NoKey # key
  BY BackendAssumption
<1>1. ASSUME b.postDoom[h] # NoQueue
      PROVE  f = Found(b, 0, "postDoom")
  BY <1>1 DEF CreateOrFindActiveOrDoomedEntry, Found, Waiting
<1>3. ASSUME b.postDoom[h] = NoQueue, s # 0, b.entry[s].key = key
      PROVE  f = Found(b, s, "none")
  <2>1. ~Waiting(b, "postDoom", h)
    BY <1>3 DEF Waiting
  <2> QED BY <1>0, <1>3, <2>1 DEF CreateOrFindActiveOrDoomedEntry, Found
<1>4. ASSUME b.postDoom[h] = NoQueue, s # 0, b.entry[s].key = NoKey, b.postOpenByHash[h] # NoQueue
      PROVE  f = Found(b, 0, "postOpenByHash")
  BY <1>0, <1>4 DEF CreateOrFindActiveOrDoomedEntry, Found, Waiting, Check
<1>5. ASSUME b.postDoom[h] = NoQueue, s # 0, b.entry[s].key # NoKey, b.entry[s].key # key,
             NEW d, d = EntryDoom(b, s, 0), d.active[h] = 0, d.postDoom[h] # NoQueue
      PROVE  f = Found(d, 0, "postDoom")
  BY <1>5 DEF CreateOrFindActiveOrDoomedEntry, Found, Waiting, Check
<1> QED BY <1>1, <1>3, <1>4, <1>5

LEMMA FoundFields ==
  ASSUME NEW b, NEW s, NEW table
  PROVE  /\ Found(b, s, table).b = b /\ Found(b, s, table).slot = s
         /\ Found(b, s, table).table = table
BY DEF Found

LEMMA LeadsItself ==
  ASSUME NEW b, NEW owed, BackendInv(b, owed, 0)
  PROVE  Leads(b, b, owed)
BY DEF Leads, SameAsk

\* The entry on the map of a hash.
LEMMA OnMapFacts ==
  ASSUME NEW b, NEW owed, BackendInv(b, owed, 0), NEW h \in Hashes, NEW s, s = b.active[h],
         s # 0
  PROVE  /\ s \in Live(b.entry) /\ b.entry[s].hash = h /\ ~b.entry[s].doomed
         /\ b.postDoom[h] = NoQueue => b.entry[s].createPendingDoom = "none"
         /\ b.entry[s].key = NoKey => b.postOpenByHash[h] # NoQueue
<1>1. Parts(b.active, b.entry, b.postDoom, b.postOpenByHash, b.massDooms, owed, 0)
  BY DEF BackendInv
<1>2. s \in Live(b.entry) /\ b.entry[s].hash = h /\ ~b.entry[s].doomed
  BY <1>1 DEF Parts, OnMap
<1>3. ASSUME b.postDoom[h] = NoQueue
      PROVE  b.entry[s].createPendingDoom = "none"
  <2>1. Notified(b.entry, b.postDoom, 0) /\ s \in Live(b.entry) \ {0}
    BY <1>1, <1>2 DEF Parts
  <2> QED BY <1>2, <1>3, <2>1 DEF Notified
<1>4. ASSUME b.entry[s].key = NoKey
      PROVE  b.postOpenByHash[h] # NoQueue
  <2>1. Sound(b.entry[s]) /\ OpensUnderWay(b.entry, b.postOpenByHash)
    BY <1>1, <1>2 DEF Parts, AllSound
  <2>2. Opener(b.entry[s])
    BY <1>2, <1>4, <2>1 DEF Sound
  <2> QED BY <1>2, <2>1, <2>2 DEF OpensUnderWay
<1> QED BY <1>2, <1>3, <1>4

LEMMA FindKeeps ==
  ASSUME NEW b, NEW owed, BackendInv(b, owed, 0), NEW h \in Hashes, NEW key \in Keys,
         NEW f, f = CreateOrFindActiveOrDoomedEntry(b, h, key)
  PROVE  /\ Leads(b, f.b, owed)
         /\ f.slot # 0 => f.slot \in Live(f.b.entry) /\ f.b.entry[f.slot].key = key
         /\ f.slot = 0 => f.table \in Tables /\ f.b[f.table][h] # NoQueue
<1>1. PICK s : s = b.active[h]
  OBVIOUS
<1>2. NoKey # key
  BY BackendAssumption
<1>3. CASE b.postDoom[h] # NoQueue
  <2>1. f = Found(b, 0, "postDoom")
    BY <1>1, <1>3, FindIs
  <2>2. f.b = b /\ f.slot = 0 /\ f.table = "postDoom"
    BY <2>1, FoundFields
  <2> QED BY <1>3, <2>2, LeadsItself DEF Tables
<1>4. CASE b.postDoom[h] = NoQueue /\ s = 0
  <2>0. PICK a : a = Added(b, h, key)
    OBVIOUS
  <2>4. b.active[h] = 0 /\ b.postDoom[h] = NoQueue
    BY <1>1, <1>4
  <2>1. f = Found(a, a.active[h], "none")
    BY <2>0, <2>4 DEF CreateOrFindActiveOrDoomedEntry, Found, Waiting, Added
  <2>2. f.b = a /\ f.slot = a.active[h]
    BY <2>1, FoundFields
  <2>3. /\ Leads(b, a, owed)
        /\ a.active[h] \in Live(a.entry) /\ a.entry[a.active[h]].key = key /\ a.active[h] # 0
    BY ONLY BackendInv(b, owed, 0), h \in Hashes, key \in Keys, <2>0, <2>4, AddKeeps
  <2> QED BY <2>2, <2>3
<1>5. CASE b.postDoom[h] = NoQueue /\ s # 0 /\ b.entry[s].key = key
  <2>1. f = Found(b, s, "none")
    BY <1>1, <1>5, FindIs
  <2>2. f.b = b /\ f.slot = s
    BY <2>1, FoundFields
  <2>3. s \in Live(b.entry)
    BY <1>1, <1>5, OnMapFacts
  <2> QED BY <1>5, <2>2, <2>3, LeadsItself
<1>6. CASE b.postDoom[h] = NoQueue /\ s # 0 /\ b.entry[s].key = NoKey
  <2>1. b.postOpenByHash[h] # NoQueue
    BY <1>1, <1>6, OnMapFacts
  <2>2. f = Found(b, 0, "postOpenByHash")
    BY <1>1, <1>6, <2>1, FindIs
  <2>3. f.b = b /\ f.slot = 0 /\ f.table = "postOpenByHash"
    BY <2>2, FoundFields
  <2> QED BY <2>1, <2>3, LeadsItself DEF Tables
<1>7. CASE b.postDoom[h] = NoQueue /\ s # 0 /\ b.entry[s].key # NoKey /\ b.entry[s].key # key
  <2>1. PICK d : d = EntryDoom(b, s, 0)
    OBVIOUS
  <2>2. /\ s \in Live(b.entry) /\ b.entry[s].hash = h /\ ~b.entry[s].doomed
        /\ b.entry[s].createPendingDoom = "none"
    BY <1>1, <1>7, OnMapFacts
  <2>3. Leads(b, d, owed) /\ d.active[h] = 0 /\ d.postDoom[h] # NoQueue
    BY <2>1, <2>2, DoomNowKeeps
  <2>4. f = Found(d, 0, "postDoom")
    BY <1>1, <1>7, <2>1, <2>3, FindIs
  <2>5. f.b = d /\ f.slot = 0 /\ f.table = "postDoom"
    BY <2>4, FoundFields
  <2> QED BY <2>3, <2>5 DEF Tables
<1> QED BY <1>3, <1>4, <1>5, <1>6, <1>7

LEMMA AskedAgain ==
  ASSUME NEW p, NEW q, SameAsk(p, q), NEW r, NEW h, Asked(p, r, h)
  PROVE  Asked(q, r, h)
BY DEF SameAsk, Asked

LEMMA OpenKeeps ==
  ASSUME NEW b, NEW owed, BackendInv(b, owed, 0), NEW h \in Hashes, NEW key \in Keys,
         NEW r \in Nat, Asked(b.requests, r, h), NEW c, c = OpenEntry(b, h, key, r)
  PROVE  Leads(b, c, owed)
<1>1. PICK f : f = CreateOrFindActiveOrDoomedEntry(b, h, key)
  OBVIOUS
<1>2. /\ Leads(b, f.b, owed)
      /\ f.slot # 0 => f.slot \in Live(f.b.entry) /\ f.b.entry[f.slot].key = key
      /\ f.slot = 0 => f.table \in Tables /\ f.b[f.table][h] # NoQueue
  BY <1>1, FindKeeps
<1>3. PICK d, s, table : d = f.b /\ s = f.slot /\ table = f.table
  OBVIOUS
<1>4. Leads(b, d, owed) /\ BackendInv(d, owed, 0) /\ Asked(d.requests, r, h)
  BY <1>2, <1>3, AskedAgain DEF Leads
<1>5. CASE s # 0
  <2>1. c = EntryOpen(d, s, r)
    BY <1>1, <1>3, <1>5 DEF OpenEntry
  <2>2. s \in Live(d.entry)
    BY <1>2, <1>3, <1>5
  <2> QED BY <1>4, <2>1, <2>2, EntryOpenKeeps, LeadsAgain
<1>6. CASE s = 0 /\ FirstInLine(d, table, h)
  <2>1. c = Tell(d, r, "failed", 0)
    BY <1>1, <1>3, <1>6 DEF OpenEntry
  <2> QED BY <1>4, <2>1, TellLeads, LeadsAgain
<1>7. CASE s = 0 /\ ~FirstInLine(d, table, h)
  <2>1. c = Retry(d, table, h, r)
    BY <1>1, <1>3, <1>7 DEF OpenEntry
  <2>2. table \in Tables /\ d[table][h] # NoQueue
    BY <1>2, <1>3, <1>7
  <2> QED BY <1>4, <2>1, <2>2, RetryKeeps, LeadsAgain
<1> QED BY <1>5, <1>6, <1>7

\* The entry that is created ahead of those who wait for the doom.
LEMMA AheadKeeps ==
  ASSUME NEW b, NEW owed, BackendInv(b, owed, 0), NEW h \in Hashes, NEW key \in Keys,
         NEW r \in Nat, NEW table, FirstInLine(b, table, h), NEW a, NEW c,
         a = MaybeOptimisticCreateForPostDoom(b, h, key), c = EntryCreate(a, a.active[h], r)
  PROVE  Leads(b, c, owed)
<1>1. b.postDoom[h] = <<>>
  BY DEF FirstInLine
<1>2. /\ Leads(b, a, owed)
      /\ a.active[h] \in Live(a.entry) /\ a.entry[a.active[h]].key = key
  BY <1>1, AddBehindKeeps
<1>3. PICK s : s = a.active[h]
  OBVIOUS
<1>4. s \in Live(a.entry) /\ a.entry[s].key # NoKey /\ BackendInv(a, owed, 0)
  BY <1>2, <1>3, BackendAssumption DEF Leads
<1>5. c = EntryCreate(a, s, r)
  BY <1>3
<1>6. Leads(a, c, owed)
  BY ONLY <1>4, <1>5, r \in Nat, EntryCreateKeeps
<1> QED BY <1>2, <1>6, LeadsAgain

LEMMA CreateKeeps ==
  ASSUME NEW b, NEW owed, BackendInv(b, owed, 0), NEW h \in Hashes, NEW key \in Keys,
         NEW r \in Nat, Asked(b.requests, r, h), NEW c, c = CreateEntry(b, h, key, r)
  PROVE  Leads(b, c, owed)
<1>1. PICK f : f = CreateOrFindActiveOrDoomedEntry(b, h, key)
  OBVIOUS
<1>2. /\ Leads(b, f.b, owed)
      /\ f.slot # 0 => f.slot \in Live(f.b.entry) /\ f.b.entry[f.slot].key = key
      /\ f.slot = 0 => f.table \in Tables /\ f.b[f.table][h] # NoQueue
  BY <1>1, FindKeeps
<1>3. PICK d, s, table : d = f.b /\ s = f.slot /\ table = f.table
  OBVIOUS
<1>4. Leads(b, d, owed) /\ BackendInv(d, owed, 0) /\ Asked(d.requests, r, h)
  BY <1>2, <1>3, AskedAgain DEF Leads
<1>5. CASE s # 0
  <2>1. c = EntryCreate(d, s, r)
    BY <1>1, <1>3, <1>5 DEF CreateEntry
  <2>2. s \in Live(d.entry) /\ d.entry[s].key # NoKey
    BY <1>2, <1>3, <1>5, BackendAssumption
  <2> QED BY <1>4, <2>1, <2>2, EntryCreateKeeps, LeadsAgain
<1>6. CASE s = 0 /\ FirstInLine(d, table, h)
  <2>1. PICK a : a = MaybeOptimisticCreateForPostDoom(d, h, key)
    OBVIOUS
  <2>2. c = EntryCreate(a, a.active[h], r)
    BY <1>1, <1>3, <1>6, <2>1 DEF CreateEntry
  <2>3. Leads(d, c, owed)
    BY <1>4, <1>6, <2>1, <2>2, AheadKeeps
  <2> QED BY <1>4, <2>3, LeadsAgain
<1>7. CASE s = 0 /\ ~FirstInLine(d, table, h)
  <2>1. c = Retry(d, table, h, r)
    BY <1>1, <1>3, <1>7 DEF CreateEntry
  <2>2. table \in Tables /\ d[table][h] # NoQueue
    BY <1>2, <1>3, <1>7
  <2> QED BY <1>4, <2>1, <2>2, RetryKeeps, LeadsAgain
<1> QED BY <1>5, <1>6, <1>7

LEMMA OpenOrCreateKeeps ==
  ASSUME NEW b, NEW owed, BackendInv(b, owed, 0), NEW h \in Hashes, NEW key \in Keys,
         NEW r \in Nat, Asked(b.requests, r, h), NEW c, c = OpenOrCreateEntry(b, h, key, r)
  PROVE  Leads(b, c, owed)
<1>1. PICK f : f = CreateOrFindActiveOrDoomedEntry(b, h, key)
  OBVIOUS
<1>2. /\ Leads(b, f.b, owed)
      /\ f.slot # 0 => f.slot \in Live(f.b.entry) /\ f.b.entry[f.slot].key = key
      /\ f.slot = 0 => f.table \in Tables /\ f.b[f.table][h] # NoQueue
  BY <1>1, FindKeeps
<1>3. PICK d, s, table : d = f.b /\ s = f.slot /\ table = f.table
  OBVIOUS
<1>4. Leads(b, d, owed) /\ BackendInv(d, owed, 0) /\ Asked(d.requests, r, h)
  BY <1>2, <1>3, AskedAgain DEF Leads
<1>5. CASE s # 0
  <2>1. c = EntryOpenOrCreate(d, s, r)
    BY <1>1, <1>3, <1>5 DEF OpenOrCreateEntry
  <2>2. s \in Live(d.entry) /\ d.entry[s].key # NoKey
    BY <1>2, <1>3, <1>5, BackendAssumption
  <2> QED BY <1>4, <2>1, <2>2, EntryOpenOrCreateKeeps, LeadsAgain
<1>6. CASE s = 0 /\ FirstInLine(d, table, h)
  <2>1. PICK a : a = MaybeOptimisticCreateForPostDoom(d, h, key)
    OBVIOUS
  <2>2. c = EntryCreate(a, a.active[h], r)
    BY <1>1, <1>3, <1>6, <2>1 DEF OpenOrCreateEntry
  <2>3. Leads(d, c, owed)
    BY <1>4, <1>6, <2>1, <2>2, AheadKeeps
  <2> QED BY <1>4, <2>3, LeadsAgain
<1>7. CASE s = 0 /\ ~FirstInLine(d, table, h)
  <2>1. c = Retry(d, table, h, r)
    BY <1>1, <1>3, <1>7 DEF OpenOrCreateEntry
  <2>2. table \in Tables /\ d[table][h] # NoQueue
    BY <1>2, <1>3, <1>7
  <2> QED BY <1>4, <2>1, <2>2, RetryKeeps, LeadsAgain
<1> QED BY <1>5, <1>6, <1>7

LEMMA DoomKeeps ==
  ASSUME NEW b, NEW owed, BackendInv(b, owed, 0), NEW h \in Hashes, NEW key \in Keys,
         NEW r \in Nat, Asked(b.requests, r, h), NEW c, c = DoomEntry(b, h, key, r)
  PROVE  Leads(b, c, owed)
<1>1. PICK f : f = CreateOrFindActiveOrDoomedEntry(b, h, key)
  OBVIOUS
<1>2. /\ Leads(b, f.b, owed)
      /\ f.slot # 0 => f.slot \in Live(f.b.entry) /\ f.b.entry[f.slot].key = key
      /\ f.slot = 0 => f.table \in Tables /\ f.b[f.table][h] # NoQueue
  BY <1>1, FindKeeps
<1>3. PICK d, s, table : d = f.b /\ s = f.slot /\ table = f.table
  OBVIOUS
<1>4. Leads(b, d, owed) /\ BackendInv(d, owed, 0) /\ Asked(d.requests, r, h)
  BY <1>2, <1>3, AskedAgain DEF Leads
<1>5. CASE s # 0
  <2>1. c = EntryDoom(d, s, r)
    BY <1>1, <1>3, <1>5 DEF DoomEntry
  <2>2. s \in Live(d.entry)
    BY <1>2, <1>3, <1>5
  <2>3. Leads(d, c, owed)
    BY <1>4, <2>1, <2>2, EntryDoomKeeps
  <2> QED BY <1>4, <2>3, LeadsAgain
<1>7. CASE s = 0
  <2>1. c = Retry(d, table, h, r)
    BY <1>1, <1>3, <1>7 DEF DoomEntry
  <2>2. table \in Tables /\ d[table][h] # NoQueue
    BY <1>2, <1>3, <1>7
  <2> QED BY <1>4, <2>1, <2>2, RetryKeeps, LeadsAgain
<1> QED BY <1>5, <1>7

EnqueueOpen(b, s, r) == Enqueue(b, s, "openFromHash", r, FALSE)
OpenOf(r) == ToDo("openFromHash", r, FALSE)
NewUnknown(h) == NewEntry(h, NoKey, "none")

LEMMA EnqueueOpenFacts ==
  ASSUME NEW b, Shaped(b), NEW s, NEW r, NEW c, c = EnqueueOpen(b, s, r)
  PROVE  Only(b, c, {"entry"})
         /\ c.entry = At(b.entry, s, Queued(b.entry[s], OpenOf(r)))
<1>1. c = With(b, "entry", At(b.entry, s, Queued(b.entry[s], OpenOf(r))))
  BY DEF EnqueueOpen, Enqueue, With, At, Queued, ToDo, OpenOf
<1> QED BY <1>1, SetEntry

LEMMA OpenerIsSound ==
  ASSUME NEW h \in Hashes, NEW r \in Nat, NEW e, e = NewUnknown(h), NEW d, d = Queued(e, OpenOf(r))
  PROVE  /\ e \in EntryObjects /\ e.hash = h
         /\ d \in EntryObjects /\ Sound(d) /\ d.hash = h /\ ~d.doomed /\ ~d.waited
         /\ d.createPendingDoom = "none" /\ Opener(d)
<1>1. PICK o, queue : o = OpenOf(r) /\ queue = <<o>>
  OBVIOUS
<1>2. o \in EntryOperations /\ o.op = "openFromHash"
  BY <1>1 DEF OpenOf, ToDo, EntryOperations
<1>3. e \in EntryObjects /\ e.hash = h /\ e.queue = <<>>
  BY DEF NewUnknown, NewEntry, EntryObjects
<1>4. Append(<<>>, o) = queue
  BY <1>1
<1>5. d = [e EXCEPT !.queue = queue]
  BY <1>1, <1>3, <1>4 DEF Queued
<1>6. /\ queue \in Seq(EntryOperations) /\ queue # <<>> /\ queue[1] = o /\ Len(queue) = 1
      /\ DOMAIN queue = {1}
  BY <1>1, <1>2
<1>7. d \in EntryObjects
  BY <1>3, <1>5, <1>6 DEF EntryObjects
<1>8. /\ d.hash = h /\ d.key = NoKey /\ d.doomed = FALSE /\ d.waited = FALSE
      /\ d.state = "uninitialized" /\ d.createPendingDoom = "none" /\ d.queue = queue
  BY <1>5 DEF NewUnknown, NewEntry
<1>9. Opener(d)
  BY <1>2, <1>6, <1>8 DEF Opener
<1>10. \A i \in 2 .. Len(queue) : FALSE
  BY <1>6
<1>11. \A i \in DOMAIN queue : queue[i].op \notin {"create", "openOrCreate"}
  BY <1>2, <1>6
<1>12. Sound(d)
  BY <1>8, <1>9, <1>10, <1>11 DEF Sound
<1> QED BY <1>3, <1>7, <1>8, <1>9, <1>12

LEMMA NothingOpens ==
  ASSUME NEW b, NEW owed, BackendInv(b, owed, 0), NEW h \in Hashes,
         b.active[h] = 0, b.postDoom[h] = NoQueue
  PROVE  b.postOpenByHash[h] = NoQueue
<1>1. Parts(b.active, b.entry, b.postDoom, b.postOpenByHash, b.massDooms, owed, 0)
  BY DEF BackendInv
<1>2. ASSUME NEW s \in Live(b.entry), Opener(b.entry[s]), b.entry[s].hash = h
      PROVE  FALSE
  <2>1. Sound(b.entry[s]) /\ s # 0
    BY <1>1, LiveIsTyped DEF Parts, AllSound
  <2>2. b.entry[s].doomed
    BY <1>1, <1>2, <2>1 DEF Parts, OnMap
  <2>3. b.entry[s].waited
    BY <1>2, <2>1, <2>2 DEF Sound
  <2> QED BY <1>1, <1>2, <2>3 DEF Parts, DoomsWaited
<1> QED BY <1>1, <1>2 DEF Parts, OpensUnderWay

LEMMA OpenFromHashIs ==
  ASSUME NEW b, NEW h, NEW r, NEW c, c = OpenEntryFromHash(b, h, r)
  PROVE  /\ b.postDoom[h] # NoQueue =>
              c = Wait(b, "postDoom", h, [op |-> "openFromHash", r |-> r, hash |-> h])
         /\ b.postDoom[h] = NoQueue /\ b.active[h] # 0 => c = EntryOpen(b, b.active[h], r)
<1>1. ASSUME b.postDoom[h] # NoQueue
      PROVE  c = Wait(b, "postDoom", h, [op |-> "openFromHash", r |-> r, hash |-> h])
  BY <1>1 DEF OpenEntryFromHash, Waiting
<1>2. ASSUME b.postDoom[h] = NoQueue, b.active[h] # 0
      PROVE  c = EntryOpen(b, b.active[h], r)
  BY <1>2 DEF OpenEntryFromHash, Waiting
<1> QED BY <1>1, <1>2

LEMMA OpenNewKeeps ==
  ASSUME NEW b, NEW owed, BackendInv(b, owed, 0), NEW h \in Hashes, NEW r \in Nat,
         b.postDoom[h] = NoQueue, b.active[h] = 0, NEW c, c = OpenEntryFromHash(b, h, r)
  PROVE  Leads(b, c, owed)
<1>1. PICK e, s, a : e = NewUnknown(h) /\ s = NewSlot(b) /\ a = AddEntry(b, e)
  OBVIOUS
<1>2. PICK d : d = Queued(e, OpenOf(r))
  OBVIOUS
<1>3. /\ e \in EntryObjects /\ e.hash = h
      /\ d \in EntryObjects /\ Sound(d) /\ d.hash = h /\ ~d.doomed /\ ~d.waited
      /\ d.createPendingDoom = "none" /\ Opener(d)
  BY <1>1, <1>2, OpenerIsSound
<1>4. /\ Only(b, a, {"entry", "active"}) /\ a.active = At(b.active, h, s)
      /\ Changed(b.entry, a.entry, s, e) /\ a.active[h] = s
      /\ s \in Nat \ {0} /\ s \notin Live(b.entry)
  BY <1>1, <1>3, AddFacts
<1>5. b.postOpenByHash[h] = NoQueue
  BY NothingOpens
<1>6. PICK o : o = OnOperationStart(a, "postOpenByHash", h)
  OBVIOUS
<1>7. c = EnqueueOpen(o, s, r)
  BY <1>1, <1>4, <1>6 DEF OpenEntryFromHash, EnqueueOpen, NewUnknown, Waiting
<1>8. a.postOpenByHash = b.postOpenByHash /\ Shaped(a)
  BY <1>4 DEF Only, Fields
<1>9. Only(a, o, {"postOpenByHash"}) /\ o.postOpenByHash = At(b.postOpenByHash, h, <<>>)
  <2>1. "postOpenByHash" \in Tables /\ a["postOpenByHash"][h] = NoQueue
    BY <1>5, <1>8 DEF Tables
  <2>2. Only(a, o, {"postOpenByHash"}) /\ o["postOpenByHash"] = At(a["postOpenByHash"], h, <<>>)
    BY <1>6, <1>8, <2>1, StartFacts
  <2> QED BY <1>8, <2>2
<1>10. Shaped(o) /\ o.entry = a.entry
  BY <1>9 DEF Only, Fields
<1>11. Only(o, c, {"entry"}) /\ c.entry = At(o.entry, s, Queued(o.entry[s], OpenOf(r)))
  BY ONLY <1>7, <1>10, EnqueueOpenFacts
<1>12. c.entry = At(a.entry, s, d)
  BY <1>2, <1>4, <1>10, <1>11 DEF Changed
<1>13. Changed(b.entry, c.entry, s, d)
  <2>1. a.entry \in Seq(EntryObjects \cup {Gone}) /\ s \in Live(a.entry)
    BY <1>4 DEF Changed
  <2>2. Changed(a.entry, At(a.entry, s, d), s, d)
    BY <1>3, <2>1, AtChanges
  <2>3. Changed(a.entry, c.entry, s, d)
    BY <1>12, <2>2
  <2>4. c.entry \in Seq(EntryObjects \cup {Gone}) /\ c.entry[s] = d
    BY <2>3 DEF Changed
  <2>5. Live(c.entry) = Live(b.entry) \cup {s}
    BY <1>4, <2>3 DEF Changed
  <2>6. \A t \in Live(b.entry) : t # s => c.entry[t] = b.entry[t]
    BY <1>4, <2>3 DEF Changed
  <2> QED BY <2>4, <2>5, <2>6 DEF Changed
<1>14. /\ c.postDoom = b.postDoom /\ c.active = At(b.active, h, s)
       /\ c.postOpenByHash = At(b.postOpenByHash, h, <<>>) /\ c.massDooms = b.massDooms
       /\ c.requests = b.requests /\ c.index = b.index
       /\ c.failedChecks = b.failedChecks /\ Shaped(c)
  <2>1. /\ c.postOpenByHash = o.postOpenByHash /\ c.active = a.active
    BY <1>9, <1>11 DEF Only, Fields
  <2>2. /\ c.postDoom = b.postDoom /\ c.massDooms = b.massDooms
        /\ c.requests = b.requests /\ c.index = b.index
        /\ c.failedChecks = b.failedChecks /\ Shaped(c)
    BY <1>4, <1>9, <1>11 DEF Only, Fields
  <2> QED BY <1>4, <1>9, <2>1, <2>2
<1>15. Parts(c.active, c.entry, c.postDoom, c.postOpenByHash, c.massDooms, owed, 0)
  <2>3. PICK v, f, t, u, k, next, nextOpen :
          /\ v = b.active /\ f = b.entry /\ t = b.postDoom
          /\ u = b.postOpenByHash /\ k = b.massDooms /\ next = c.entry /\ nextOpen = c.postOpenByHash
    OBVIOUS
  <2>4. Parts(v, f, t, u, k, owed, 0) /\ u \in [Hashes -> Seq(Closures) \cup {NoQueue}]
    BY <2>3 DEF BackendInv, Queues
  <2>5. /\ v[h] = 0 /\ t[h] = NoQueue /\ s \notin Live(f) /\ Changed(f, next, s, d)
        /\ nextOpen = Begun(u, h)
    BY <1>4, <1>13, <1>14, <2>3 DEF Begun
  <2>6. s \in Nat \ {0}
    BY <1>4
  <2>7. Parts(At(v, h, s), next, t, nextOpen, k, owed, 0)
    BY ONLY <1>3, <2>4, <2>5, <2>6, h \in Hashes, AddParts
  <2> QED BY <1>14, <2>3, <2>7
<1>16. Queues(c.postOpenByHash, c.requests) /\ OnlyRequests(c.postOpenByHash)
  <2>1. Queues(b.postOpenByHash, b.requests) /\ OnlyRequests(b.postOpenByHash)
    BY DEF BackendInv
  <2>2. Queues(c.postOpenByHash, b.requests) /\ OnlyRequests(c.postOpenByHash)
    BY <1>14, <2>1, QueuesReset
  <2> QED BY <1>14, <2>2
<1>17. BackendInv(c, owed, 0)
  BY <1>14, <1>15, <1>16 DEF BackendInv
<1> QED BY <1>13, <1>14, <1>17 DEF Leads, SameAsk, Changed

LEMMA OpenFromHashKeeps ==
  ASSUME NEW b, NEW owed, BackendInv(b, owed, 0), NEW h \in Hashes, NEW r \in Nat,
         NEW c, c = OpenEntryFromHash(b, h, r)
  PROVE  Leads(b, c, owed)
<1>1. CASE b.postDoom[h] # NoQueue
  <2>1. PICK k, table : /\ k = [op |-> "openFromHash", r |-> r, hash |-> h]
                        /\ table = "postDoom"
    OBVIOUS
  <2>2. /\ k \in Closures /\ k.op # "notify" /\ ClosureOK(b.requests, h, k)
        /\ table = "postOpenByHash" => k.op = "request"
    BY <2>1 DEF Closures, ClosureOK
  <2>3. c = Wait(b, table, h, k) /\ table \in Tables /\ b[table][h] # NoQueue
    BY <1>1, <2>1, OpenFromHashIs DEF Tables
  <2> QED BY ONLY BackendInv(b, owed, 0), h \in Hashes, <2>2, <2>3, WaitKeeps
<1>2. CASE b.postDoom[h] = NoQueue /\ b.active[h] # 0
  <2>1. PICK s : s = b.active[h]
    OBVIOUS
  <2>2. s \in Live(b.entry)
    BY <1>2, <2>1, OnMapFacts
  <2>3. c = EntryOpen(b, s, r)
    BY <1>2, <2>1, OpenFromHashIs
  <2> QED BY <2>2, <2>3, EntryOpenKeeps
<1>3. CASE b.postDoom[h] = NoQueue /\ b.active[h] = 0
  BY <1>3, OpenNewKeeps
<1> QED BY <1>1, <1>2, <1>3

-------------------------------------------------------------------------------
(* The iterator *)

Left(b, r, x) == [b EXCEPT !.requests[r].left = x]

LEMMA LeftFacts ==
  ASSUME NEW b, Shaped(b), RequestsOK(b.requests), NEW r, NEW x, x \subseteq Hashes,
         NEW c, c = Left(b, r, x)
  PROVE  Tells(b, c)
<1>1. PICK p, e, q : /\ p = b.requests /\ e = [p[r] EXCEPT !.left = x] /\ q = [p EXCEPT ![r] = e]
  OBVIOUS
<1>2. ASSUME r \in DOMAIN p
      PROVE  e \in RequestRecords /\ e.op = p[r].op /\ e.key = p[r].key
  <2>1. p[r] \in RequestRecords
    BY <1>1, <1>2 DEF RequestsOK
  <2> QED BY <1>1, <2>1 DEF RequestRecords
<1>3. RequestsOK(q) /\ SameAsk(p, q)
  BY <1>1, <1>2, AnswerKeepsRequests
<1>4. c = [b EXCEPT !.requests = q]
  BY <1>1 DEF Left
<1>5. Shaped(c) /\ SameWork(b, c) /\ c.requests = q
  BY <1>4, SetRequest
<1> QED BY <1>1, <1>3, <1>5 DEF Tells

LEMMA OpenNextKeeps ==
  ASSUME NEW b, NEW owed, BackendInv(b, owed, 0), NEW r \in Nat,
         NEW c, c = OpenNextEntryImpl(b, r)
  PROVE  Leads(b, c, owed)
<1>1. PICK left, x : left = b.requests[r].left \cap b.index /\ x = {}
  OBVIOUS
<1>2. PICK h : h = CHOOSE g \in left : TRUE
  OBVIOUS
<1>3. left \subseteq Hashes /\ Shaped(b) /\ RequestsOK(b.requests)
  BY <1>1 DEF BackendInv
<1>4. CASE left = {}
  <2>1. PICK d : d = Left(b, r, x)
    OBVIOUS
  <2>2. Tells(b, d)
    BY <1>1, <1>3, <2>1, LeftFacts
  <2>3. Leads(b, d, owed)
    BY <2>2, TellKeeps DEF Leads, Tells, SameWork
  <2>4. c = Tell(d, r, "failed", 0)
    BY <1>1, <1>4, <2>1 DEF OpenNextEntryImpl, Left
  <2>5. Leads(d, c, owed)
    BY <2>3, <2>4, TellLeads DEF Leads
  <2> QED BY <2>3, <2>5, LeadsAgain
<1>5. CASE left # {}
  <2>1. PICK d, y : y = left \ {h} /\ d = Left(b, r, y)
    OBVIOUS
  <2>2. Tells(b, d)
    BY <1>3, <2>1, LeftFacts
  <2>3. Leads(b, d, owed) /\ h \in Hashes
    BY <1>2, <1>3, <1>5, <2>2, TellKeeps DEF Leads, Tells, SameWork
  <2>4. c = OpenEntryFromHash(d, h, r)
    BY <1>1, <1>2, <1>5, <2>1 DEF OpenNextEntryImpl, Left
  <2>5. Leads(d, c, owed)
    BY <2>3, <2>4, OpenFromHashKeeps DEF Leads
  <2> QED BY <2>3, <2>5, LeadsAgain
<1> QED BY <1>4, <1>5

LEMMA OpenFailedKeeps ==
  ASSUME NEW b, NEW owed, BackendInv(b, owed, 0), NEW r \in Nat, NEW c, c = OpenFailed(b, r)
  PROVE  Leads(b, c, owed)
<1>1. c = OpenNextEntryImpl(b, r) \/ c = Tell(b, r, "failed", 0)
  BY DEF OpenFailed
<1> QED BY <1>1, OpenNextKeeps, TellLeads

-------------------------------------------------------------------------------
(* Dooms of many entries *)

LEMMA HashesAreFew ==
  ASSUME NEW S, S \subseteq Hashes
  PROVE  IsFiniteSet(S)
BY BackendAssumption, FS_Subset

\* The queues of these are opened.
BegunAll(table, next, S) ==
  /\ DOMAIN next = DOMAIN table
  /\ \A h \in DOMAIN table : next[h] = IF h \in S THEN <<>> ELSE table[h]

LEMMA BegunAgain ==
  ASSUME NEW table, NEW next, NEW U, BegunAll(table, next, U), NEW x, x \notin U,
         NEW T, T = U \cup {x}, NEW last, next = [h \in DOMAIN next |-> next[h]],
         last = At(next, x, <<>>)
  PROVE  BegunAll(table, last, T) /\ last = [h \in DOMAIN last |-> last[h]]
BY DEF BegunAll, At

LEMMA StartDoomsFacts ==
  ASSUME NEW b, Shaped(b), NEW S, S \subseteq Hashes,
         b.postDoom = [h \in DOMAIN b.postDoom |-> b.postDoom[h]], DOMAIN b.postDoom = Hashes,
         \A h \in S : b.postDoom[h] = NoQueue, NEW c, c = StartDooms(b, S)
  PROVE  Only(b, c, {"postDoom"}) /\ BegunAll(b.postDoom, c.postDoom, S)
         /\ c.postDoom = [h \in DOMAIN c.postDoom |-> c.postDoom[h]]
<1>1. IsFiniteSet(S)
  BY HashesAreFew
<1>0. PICK g : StartsEach(b, S, g)
  BY <1>1, EachStarts
<1>2. /\ g[{}] = b
      /\ \A s \in SUBSET S : s # {} => g[s] = OnDoomStart(g[s \ {Some(s)}], Some(s))
      /\ StartDooms(b, S) = g[S]
  BY <1>0 DEF StartsEach
<1> DEFINE Good(T) ==
             /\ Only(b, g[T], {"postDoom"}) /\ BegunAll(b.postDoom, g[T].postDoom, T)
             /\ g[T].postDoom = [h \in DOMAIN g[T].postDoom |-> g[T].postDoom[h]]
<1>3. Good({})
  BY <1>2 DEF Only, BegunAll
<1>4. ASSUME NEW T \in SUBSET S, T # {}, NEW x, x = Some(T), NEW U, U = T \ {x}, Good(U)
      PROVE  Good(T)
  <2>1. x \in T /\ x \in Hashes /\ x \notin U /\ T = U \cup {x}
    BY <1>4 DEF Some
  <2>2. PICK d, e : d = g[U] /\ e = g[T]
    OBVIOUS
  <2>3. e = OnOperationStart(d, "postDoom", x)
    BY <1>2, <1>4, <2>2 DEF OnDoomStart
  <2>4. Only(b, d, {"postDoom"}) /\ BegunAll(b.postDoom, d.postDoom, U)
        /\ d.postDoom = [h \in DOMAIN d.postDoom |-> d.postDoom[h]]
    BY <1>4, <2>2
  <2>5. d.postDoom[x] = NoQueue /\ Shaped(d) /\ "postDoom" \in Tables
    BY <2>1, <2>4 DEF BegunAll, Only, Tables
  <2>6. Only(d, e, {"postDoom"}) /\ e["postDoom"] = At(d["postDoom"], x, <<>>)
    BY <2>3, <2>5, StartFacts
  <2>7. Only(b, e, {"postDoom"})
    BY <2>4, <2>6 DEF Only
  <2>8. PICK p, q, t : p = d.postDoom /\ q = e.postDoom /\ t = b.postDoom
    OBVIOUS
  <2>9. q = At(p, x, <<>>) /\ BegunAll(t, p, U) /\ p = [h \in DOMAIN p |-> p[h]]
    BY <2>4, <2>6, <2>8
  <2>10. BegunAll(t, q, T) /\ q = [h \in DOMAIN q |-> q[h]]
    BY ONLY <2>1, <2>9, BegunAgain
  <2> QED BY <2>2, <2>7, <2>8, <2>10
<1> HIDE DEF Good
<1>5. \A T \in SUBSET S : Good(T)
  <2>1. SUFFICES ASSUME NEW V \in SUBSET S, ~Good(V)
                 PROVE  FALSE
    OBVIOUS
  <2>2. PICK B : B = {T \in SUBSET S : ~Good(T)}
    OBVIOUS
  <2>3. B \subseteq SUBSET S /\ B # {}
    BY <2>1, <2>2
  <2>4. PICK T \in B : \A U \in B : U \subseteq T => U = T
    BY <1>1, <2>3, SmallestSubset
  <2>5. T \in SUBSET S /\ ~Good(T)
    BY <2>2
  <2>6. T # {}
    BY <1>3, <2>5
  <2>7. PICK x, U : x = Some(T) /\ U = T \ {x}
    OBVIOUS
  <2>8. x \in T
    BY <2>6, <2>7 DEF Some
  <2>9. Good(U)
    BY <2>2, <2>4, <2>5, <2>7, <2>8
  <2> QED BY <1>4, <2>5, <2>6, <2>7, <2>9
<1>6. Good(S) /\ c = g[S]
  BY <1>2, <1>5
<1> QED BY <1>6 DEF Good

DoomOfMany(H, r) == [hashes |-> H, r |-> r]

EnMasse(d, H, r) ==
  [d EXCEPT !.index = @ \ H, !.massDooms = Append(@, DoomOfMany(H, r))]

LEMMA EnMasseFacts ==
  ASSUME NEW d, Shaped(d), NEW H, NEW r, NEW c, c = EnMasse(d, H, r)
  PROVE  /\ Only(d, c, {"index", "massDooms"}) /\ c.index = d.index \ H
         /\ c.massDooms = Append(d.massDooms, DoomOfMany(H, r))
<1>1. DOMAIN d = Fields
  BY DEF Shaped
<1>2. DOMAIN c = Fields /\ c = [f \in DOMAIN c |-> c[f]]
  BY <1>1 DEF EnMasse
<1>3. c.index = d.index \ H
  BY <1>1 DEF EnMasse, Fields
<1>4. c.massDooms = Append(d.massDooms, DoomOfMany(H, r))
  BY <1>1 DEF EnMasse, Fields
<1>5. \A f \in Fields \ {"index", "massDooms"} : c[f] = d[f]
  BY <1>1 DEF EnMasse
<1>6. Shaped(c)
  BY <1>2 DEF Shaped
<1>7. Only(d, c, {"index", "massDooms"})
  BY <1>5, <1>6 DEF Only
<1> QED BY <1>3, <1>4, <1>7

LEMMA EnMasseKeeps ==
  ASSUME NEW b, NEW owed, BackendInv(b, owed, 0), NEW H, H \subseteq Hashes,
         \A h \in H : b.postDoom[h] = NoQueue /\ b.active[h] = 0, NEW r \in Nat,
         NEW c, c = DoomEnMasse(b, H, r)
  PROVE  /\ Leads(b, c, owed)
         /\ \A h \in Hashes : /\ c.active[h] = b.active[h]
                              /\ h \notin H => c.postDoom[h] = b.postDoom[h]
<1>1. /\ Shaped(b) /\ Queues(b.postDoom, b.requests)
      /\ b.postDoom \in [Hashes -> Seq(Closures) \cup {NoQueue}]
      /\ Parts(b.active, b.entry, b.postDoom, b.postOpenByHash, b.massDooms, owed, 0)
  BY DEF BackendInv, Queues
<1>2. PICK d : d = StartDooms(b, H)
  OBVIOUS
<1>3. Only(b, d, {"postDoom"}) /\ BegunAll(b.postDoom, d.postDoom, H)
  BY <1>1, <1>2, StartDoomsFacts
<1>4. Shaped(d) /\ c = EnMasse(d, H, r)
  BY <1>2, <1>3 DEF DoomEnMasse, DoomOfMany, EnMasse, Only
<1>5. /\ Only(d, c, {"index", "massDooms"}) /\ c.index = d.index \ H
      /\ c.massDooms = Append(d.massDooms, DoomOfMany(H, r))
  BY <1>4, EnMasseFacts
<1>6. /\ c.active = b.active /\ c.entry = b.entry /\ c.postOpenByHash = b.postOpenByHash
      /\ c.requests = b.requests /\ c.failedChecks = b.failedChecks /\ Shaped(c)
  BY <1>3, <1>5 DEF Only, Fields
<1>7. /\ c.index = b.index \ H /\ c.postDoom = d.postDoom
      /\ c.massDooms = Append(b.massDooms, DoomOfMany(H, r))
  BY <1>3, <1>5 DEF Only, Fields
<1>8. /\ DOMAIN c.postDoom = Hashes
      /\ \A h \in Hashes : c.postDoom[h] = IF h \in H THEN <<>> ELSE b.postDoom[h]
  BY <1>1, <1>3, <1>7 DEF BegunAll
<1>9. Parts(c.active, c.entry, c.postDoom, c.postOpenByHash, c.massDooms, owed, 0)
  <2>3. PICK v, f, t, u, k, next :
          /\ v = b.active /\ f = b.entry /\ t = b.postDoom
          /\ u = b.postOpenByHash /\ k = b.massDooms /\ next = c.postDoom
    OBVIOUS
  <2>4. Parts(v, f, t, u, k, owed, 0) /\ t \in [Hashes -> Seq(Closures) \cup {NoQueue}]
    BY <1>1, <2>3
  <2>5. \A h \in H : t[h] = NoQueue /\ v[h] = 0
    BY <2>3
  <2>6. \A h \in Hashes : next[h] = IF h \in H THEN <<>> ELSE t[h]
    BY <1>8, <2>3
  <2>7. Parts(v, f, next, u, Append(k, [hashes |-> H, r |-> r]), owed, 0)
    BY ONLY <2>4, <2>5, <2>6, H \subseteq Hashes, r \in Nat, MassDoomParts
  <2> QED BY <1>6, <1>7, <2>3, <2>7 DEF DoomOfMany
<1>10. Queues(c.postDoom, c.requests)
  <2>1. c.postDoom \in [Hashes -> Seq(Closures) \cup {NoQueue}]
    <3>1. d.postDoom = [h \in DOMAIN d.postDoom |-> d.postDoom[h]]
      BY <1>1, <1>2, StartDoomsFacts
    <3> QED BY <1>1, <1>7, <1>8, <3>1, EmptyIsQueue
  <2>2. ASSUME NEW h \in Hashes, c.postDoom[h] # NoQueue, NEW i \in DOMAIN c.postDoom[h]
        PROVE  ClosureOK(b.requests, h, c.postDoom[h][i])
    <3>1. h \notin H
      <4>1. DOMAIN <<>> = {}
        OBVIOUS
      <4> QED BY <1>8, <2>2, <4>1
    <3>2. c.postDoom[h] = b.postDoom[h]
      BY <1>8, <3>1
    <3> QED BY <1>1, <2>2, <3>2 DEF Queues
  <2> QED BY <1>6, <2>1, <2>2 DEF Queues
<1>11. BackendInv(c, owed, 0)
  BY <1>6, <1>7, <1>9, <1>10 DEF BackendInv
<1>12. Leads(b, c, owed)
  BY <1>6, <1>11 DEF Leads, SameAsk
<1> QED BY <1>6, <1>8, <1>12

LEMMA DoomFromHashIs ==
  ASSUME NEW b, NEW h, NEW r, NEW c, c = DoomEntryFromHash(b, h, r)
  PROVE  /\ b.postDoom[h] # NoQueue =>
              c = Wait(b, "postDoom", h, [op |-> "doomFromHash", r |-> r, hash |-> h])
         /\ b.postDoom[h] = NoQueue /\ b.active[h] # 0 => c = EntryDoom(b, b.active[h], r)
         /\ b.postDoom[h] = NoQueue /\ b.active[h] = 0 => c = DoomEnMasse(b, {h}, r)
<1>1. ASSUME b.postDoom[h] # NoQueue
      PROVE  c = Wait(b, "postDoom", h, [op |-> "doomFromHash", r |-> r, hash |-> h])
  BY <1>1 DEF DoomEntryFromHash, Waiting
<1>2. ASSUME b.postDoom[h] = NoQueue, b.active[h] # 0
      PROVE  c = EntryDoom(b, b.active[h], r)
  BY <1>2 DEF DoomEntryFromHash, Waiting
<1>3. ASSUME b.postDoom[h] = NoQueue, b.active[h] = 0
      PROVE  c = DoomEnMasse(b, {h}, r)
  BY <1>3 DEF DoomEntryFromHash, Waiting
<1> QED BY <1>1, <1>2, <1>3

LEMMA DoomFromHashKeeps ==
  ASSUME NEW b, NEW owed, BackendInv(b, owed, 0), NEW h \in Hashes, NEW r \in Nat,
         NEW c, c = DoomEntryFromHash(b, h, r)
  PROVE  Leads(b, c, owed) /\ Elsewhere(b, c, h)
<1>1. CASE b.postDoom[h] # NoQueue
  <2>1. PICK k, table : /\ k = [op |-> "doomFromHash", r |-> r, hash |-> h]
                        /\ table = "postDoom"
    OBVIOUS
  <2>2. /\ k \in Closures /\ k.op # "notify" /\ ClosureOK(b.requests, h, k)
        /\ table = "postOpenByHash" => k.op = "request"
    BY <2>1 DEF Closures, ClosureOK
  <2>3. c = Wait(b, table, h, k) /\ table \in Tables /\ b[table][h] # NoQueue /\ Shaped(b)
    BY <1>1, <2>1, DoomFromHashIs DEF Tables, BackendInv
  <2>4. Leads(b, c, owed)
    BY ONLY BackendInv(b, owed, 0), h \in Hashes, <2>2, <2>3, WaitKeeps
  <2>5. Only(b, c, {table}) /\ c[table] = Longer(b[table], h, k)
    BY ONLY <2>3, WaitFacts
  <2>6. c.active = b.active /\ c.postDoom = Longer(b.postDoom, h, k)
    BY <2>1, <2>5 DEF Only, Fields
  <2>7. b.postDoom \in [Hashes -> Seq(Closures) \cup {NoQueue}]
    BY DEF BackendInv, Queues
  <2>8. Elsewhere(b, c, h)
    BY <2>6, <2>7 DEF Elsewhere, Longer
  <2> QED BY <2>4, <2>8
<1>2. CASE b.postDoom[h] = NoQueue /\ b.active[h] # 0
  <2>1. PICK s : s = b.active[h]
    OBVIOUS
  <2>2. s \in Live(b.entry) /\ h = b.entry[s].hash
    BY <1>2, <2>1, OnMapFacts
  <2>3. c = EntryDoom(b, s, r)
    BY <1>2, <2>1, DoomFromHashIs
  <2> QED BY <2>2, <2>3, EntryDoomKeeps
<1>3. CASE b.postDoom[h] = NoQueue /\ b.active[h] = 0
  <2>1. PICK H : H = {h}
    OBVIOUS
  <2>2. c = DoomEnMasse(b, H, r)
    BY <1>3, <2>1, DoomFromHashIs
  <2>3. H \subseteq Hashes /\ \A g \in H : b.postDoom[g] = NoQueue /\ b.active[g] = 0
    BY <1>3, <2>1
  <2>4. /\ Leads(b, c, owed)
        /\ \A g \in Hashes : /\ c.active[g] = b.active[g]
                             /\ g \notin H => c.postDoom[g] = b.postDoom[g]
    BY <2>2, <2>3, EnMasseKeeps
  <2> QED BY <2>1, <2>4 DEF Elsewhere
<1> QED BY <1>1, <1>2, <1>3

\* Other hashes are left alone.
Outside(b, c, S) ==
  \A g \in Hashes : g \notin S => c.active[g] = b.active[g] /\ c.postDoom[g] = b.postDoom[g]

LEMMA DoomEachKeeps ==
  ASSUME NEW b, NEW owed, BackendInv(b, owed, 0), NEW S, S \subseteq Hashes, NEW r \in Nat,
         NEW c, c = DoomEach(b, S, r)
  PROVE  Leads(b, c, owed) /\ Outside(b, c, S)
<1>1. IsFiniteSet(S)
  BY HashesAreFew
<1>0. PICK g : DoomsEach(b, S, r, g)
  BY <1>1, EachDooms
<1>2. /\ g[{}] = b
      /\ \A s \in SUBSET S : s # {} => g[s] = DoomEntryFromHash(g[s \ {Some(s)}], Some(s), r)
      /\ DoomEach(b, S, r) = g[S]
  BY <1>0 DEF DoomsEach
<1> DEFINE Good(T) == Leads(b, g[T], owed) /\ Outside(b, g[T], T)
<1>3. Good({})
  BY <1>2, LeadsItself DEF Outside
<1>4. ASSUME NEW T \in SUBSET S, T # {}, NEW x, x = Some(T), NEW U, U = T \ {x}, Good(U)
      PROVE  Good(T)
  <2>1. x \in T /\ x \in Hashes /\ T = U \cup {x}
    BY <1>4 DEF Some
  <2>2. PICK d, e : d = g[U] /\ e = g[T]
    OBVIOUS
  <2>3. e = DoomEntryFromHash(d, x, r)
    BY <1>2, <1>4, <2>2
  <2>4. Leads(b, d, owed) /\ BackendInv(d, owed, 0) /\ Outside(b, d, U)
    BY <1>4, <2>2 DEF Leads
  <2>5. Leads(d, e, owed) /\ Elsewhere(d, e, x)
    BY <2>1, <2>3, <2>4, DoomFromHashKeeps
  <2>6. Leads(b, e, owed)
    BY <2>4, <2>5, LeadsAgain
  <2>7. Outside(b, e, T)
    BY <2>1, <2>4, <2>5 DEF Outside, Elsewhere
  <2> QED BY <2>2, <2>6, <2>7
<1> HIDE DEF Good
<1>5. \A T \in SUBSET S : Good(T)
  <2>1. SUFFICES ASSUME NEW V \in SUBSET S, ~Good(V)
                 PROVE  FALSE
    OBVIOUS
  <2>2. PICK B : B = {T \in SUBSET S : ~Good(T)}
    OBVIOUS
  <2>3. B \subseteq SUBSET S /\ B # {}
    BY <2>1, <2>2
  <2>4. PICK T \in B : \A U \in B : U \subseteq T => U = T
    BY <1>1, <2>3, SmallestSubset
  <2>5. T \in SUBSET S /\ ~Good(T)
    BY <2>2
  <2>6. T # {}
    BY <1>3, <2>5
  <2>7. PICK x, U : x = Some(T) /\ U = T \ {x}
    OBVIOUS
  <2>8. x \in T
    BY <2>6, <2>7 DEF Some
  <2>9. Good(U)
    BY <2>2, <2>4, <2>5, <2>7, <2>8
  <2> QED BY <1>4, <2>5, <2>6, <2>7, <2>9
<1>6. Good(S) /\ c = g[S]
  BY <1>2, <1>5
<1> QED BY <1>6 DEF Good

Barred(b, r, n) == [b EXCEPT !.barrier[r].expected = n]

LEMMA BarredFacts ==
  ASSUME NEW b, Shaped(b), RequestsOK(b.requests), NEW r, NEW n, NEW c, c = Barred(b, r, n)
  PROVE  Tells(b, c)
<1>1. PICK x : x = [b.barrier EXCEPT ![r] = [b.barrier[r] EXCEPT !.expected = n]]
  OBVIOUS
<1>2. c = [b EXCEPT !.barrier = x]
  BY <1>1 DEF Barred
<1>3. Shaped(c) /\ SameWork(b, c) /\ c.requests = b.requests
  BY <1>2, SetBarrier
<1> QED BY <1>3 DEF Tells, SameAsk

LEMMA IndexShrinks ==
  ASSUME NEW b, NEW owed, BackendInv(b, owed, 0), NEW x, x \subseteq b.index, NEW c,
         c = With(b, "index", x)
  PROVE  Leads(b, c, owed) /\ c.active = b.active /\ c.postDoom = b.postDoom
<1>1. Shaped(b) /\ "index" \in Fields
  BY DEF BackendInv, Fields
<1>2. Only(b, c, {"index"}) /\ c["index"] = x
  BY <1>1, SetField
<1>3. /\ c.active = b.active /\ c.entry = b.entry /\ c.postDoom = b.postDoom
      /\ c.postOpenByHash = b.postOpenByHash /\ c.massDooms = b.massDooms
      /\ c.requests = b.requests /\ c.failedChecks = b.failedChecks /\ Shaped(c)
      /\ c.index = x
  BY <1>2 DEF Only, Fields
<1> QED BY <1>3 DEF BackendInv, Leads, SameAsk

LEMMA DoomEntriesKeeps ==
  ASSUME NEW b, NEW owed, BackendInv(b, owed, 0), NEW H, H \subseteq Hashes, NEW r \in Nat,
         NEW c, c = DoomEntries(b, H, r)
  PROVE  Leads(b, c, owed)
<1>1. PICK S, n : S = UsedHashes(b, H) /\ n = Cardinality(S) + 1
  OBVIOUS
<1>2. S \subseteq Hashes /\ \A h \in H \ S : b.active[h] = 0 /\ b.postDoom[h] = NoQueue
  BY <1>1 DEF UsedHashes, Waiting
<1>3. PICK d : d = Barred(b, r, n)
  OBVIOUS
<1>4. Tells(b, d)
  BY <1>3, BarredFacts DEF BackendInv
<1>5. Leads(b, d, owed) /\ BackendInv(d, owed, 0) /\ d.active = b.active /\ d.postDoom = b.postDoom
  BY <1>4, TellKeeps DEF Leads, Tells, SameWork
<1>6. PICK e : e = DoomEach(d, S, r)
  OBVIOUS
<1>7. Leads(d, e, owed) /\ BackendInv(e, owed, 0) /\ Outside(d, e, S)
  BY <1>2, <1>5, <1>6, DoomEachKeeps DEF Leads
<1>8. PICK x, f : x = e.index \ S /\ f = With(e, "index", x)
  OBVIOUS
<1>9. Leads(e, f, owed) /\ f.active = e.active /\ f.postDoom = e.postDoom
  BY <1>7, <1>8, IndexShrinks
<1>10. PICK T : T = H \ S
  OBVIOUS
<1>11. c = DoomEnMasse(f, T, r)
  BY <1>1, <1>3, <1>6, <1>8, <1>10 DEF DoomEntries, Barred, With
<1>12. T \subseteq Hashes /\ \A h \in T : f.postDoom[h] = NoQueue /\ f.active[h] = 0
  BY <1>2, <1>5, <1>7, <1>9, <1>10 DEF Outside
<1>13. Leads(f, c, owed)
  <2>1. BackendInv(f, owed, 0)
    BY <1>9 DEF Leads
  <2> QED BY ONLY <1>11, <1>12, r \in Nat, <2>1, EnMasseKeeps
<1>14. Leads(b, e, owed)
  BY <1>5, <1>7, LeadsAgain
<1>15. Leads(b, f, owed)
  BY <1>9, <1>14, LeadsAgain
<1> QED BY <1>13, <1>15, LeadsAgain

-------------------------------------------------------------------------------
(* A request is issued; a closure is run *)

\* Who asks for the doom of an entry holds it.
HoldsSlot(b, r) == b.requests[r].op = "doomHeld" => b.requests[r].slot \in Live(b.entry)

LEMMA IssueKeeps ==
  ASSUME NEW b, NEW owed, BackendInv(b, owed, 0), hashOf \in [Keys -> Hashes],
         NEW r, r \in DOMAIN b.requests, HoldsSlot(b, r), NEW c, c = Issue(b, r)
  PROVE  Leads(b, c, owed)
<1>1. PICK q : q = b.requests[r]
  OBVIOUS
<1>2. RequestsOK(b.requests) /\ b.index \subseteq Hashes
  BY DEF BackendInv
<1>3. q \in RequestRecords /\ r \in Nat /\ (q.op \in KeyedOperations => q.key \in Keys)
  BY <1>1, <1>2 DEF RequestsOK
<1>4. CASE q.op \in KeyedOperations
  <2>1. PICK h, key : h = hashOf[q.key] /\ key = q.key
    OBVIOUS
  <2>2. h \in Hashes /\ key \in Keys /\ Asked(b.requests, r, h)
    BY <1>1, <1>3, <1>4, <2>1 DEF Asked
  <2>3. CASE q.op = "open"
    <3>1. c = OpenEntry(b, h, key, r)
      BY <1>1, <2>1, <2>3 DEF Issue
    <3> QED BY <1>3, <2>2, <3>1, OpenKeeps
  <2>4. CASE q.op = "create"
    <3>1. c = CreateEntry(b, h, key, r)
      BY <1>1, <2>1, <2>4 DEF Issue
    <3> QED BY <1>3, <2>2, <3>1, CreateKeeps
  <2>5. CASE q.op = "openOrCreate"
    <3>1. c = OpenOrCreateEntry(b, h, key, r)
      BY <1>1, <2>1, <2>5 DEF Issue
    <3> QED BY <1>3, <2>2, <3>1, OpenOrCreateKeeps
  <2>6. CASE q.op = "doom"
    <3>1. c = DoomEntry(b, h, key, r)
      BY <1>1, <2>1, <2>6 DEF Issue
    <3> QED BY <1>3, <2>2, <3>1, DoomKeeps
  <2> QED BY <1>4, <2>3, <2>4, <2>5, <2>6 DEF KeyedOperations
<1>5. CASE q.op = "next"
  <2>1. c = OpenNextEntryImpl(b, r)
    BY <1>1, <1>5 DEF Issue
  <2> QED BY <1>3, <2>1, OpenNextKeeps
<1>6. CASE q.op = "doomAll"
  <2>1. PICK H : H = b.index
    OBVIOUS
  <2>2. c = DoomEntries(b, H, r)
    BY <1>1, <1>6, <2>1 DEF Issue
  <2> QED BY <1>2, <1>3, <2>1, <2>2, DoomEntriesKeeps
<1>7. CASE q.op = "doomHeld"
  <2>1. PICK s : s = q.slot
    OBVIOUS
  <2>2. c = EntryDoom(b, s, r) /\ s \in Live(b.entry)
    BY <1>1, <1>7, <2>1 DEF Issue, HoldsSlot
  <2> QED BY <1>3, <2>2, EntryDoomKeeps
<1> QED BY <1>3, <1>4, <1>5, <1>6, <1>7 DEF RequestRecords

\* What the closure is told of, when it is one that tells an entry.
LEMMA RunClosureKeeps ==
  ASSUME NEW b, NEW owed, NEW told, BackendInv(b, owed, told), hashOf \in [Keys -> Hashes],
         NEW h \in Hashes, NEW k \in Closures, ClosureOK(b.requests, h, k),
         IF k.op = "notify" THEN told = k.slot /\ told # 0 ELSE told = 0,
         NEW c, c = RunClosure(b, k)
  PROVE  Leads(b, c, owed)
<1>1. k.op \in {"notify", "request", "openFromHash", "doomFromHash"}
  BY DEF Closures
<1>2. CASE k.op = "notify"
  <2>1. PICK s : s = k.slot
    OBVIOUS
  <2>2. c = NotifyDoomBeforeCreateComplete(b, s) /\ s # 0 /\ BackendInv(b, owed, s)
    BY <1>2, <2>1 DEF RunClosure
  <2> QED BY <2>2, NotifyKeeps
<1>3. CASE k.op = "request"
  <2>1. PICK r : r = k.r
    OBVIOUS
  <2>2. c = Issue(b, r) /\ BackendInv(b, owed, 0) /\ r \in DOMAIN b.requests /\ HoldsSlot(b, r)
    BY <1>3, <2>1 DEF RunClosure, ClosureOK, Asked, KeyedOperations, HoldsSlot
  <2> QED BY <2>2, IssueKeeps
<1>4. CASE k.op = "openFromHash"
  <2>1. PICK r : r = k.r
    OBVIOUS
  <2>2. r \in Nat /\ k.hash = h
    BY <1>4, <2>1 DEF Closures, ClosureOK
  <2>3. c = OpenEntryFromHash(b, h, r) /\ BackendInv(b, owed, 0)
    BY <1>4, <2>1, <2>2 DEF RunClosure
  <2> QED BY <2>2, <2>3, OpenFromHashKeeps
<1>5. CASE k.op = "doomFromHash"
  <2>1. PICK r : r = k.r
    OBVIOUS
  <2>2. r \in Nat /\ k.hash = h
    BY <1>5, <2>1 DEF Closures, ClosureOK
  <2>3. c = DoomEntryFromHash(b, h, r) /\ BackendInv(b, owed, 0)
    BY <1>5, <2>1, <2>2 DEF RunClosure
  <2> QED BY <2>2, <2>3, DoomFromHashKeeps
<1> QED BY <1>1, <1>2, <1>3, <1>4, <1>5

-------------------------------------------------------------------------------
(* An operation is over, and what waited for it is run *)

LEMMA QueueKeeps ==
  ASSUME NEW b, NEW owed, NEW told, BackendInv(b, owed, told), hashOf \in [Keys -> Hashes],
         NEW h \in Hashes, NEW queue, queue \in Seq(Closures), told = FirstTold(queue),
         \A i \in DOMAIN queue :
           /\ ClosureOK(b.requests, h, queue[i])
           /\ queue[i].op = "notify" => i = 1 /\ queue[i].slot # 0,
         NEW c, c = RunQueue(b, queue)
  PROVE  /\ BackendInv(c, owed, 0) /\ SameAsk(b.requests, c.requests)
         /\ Live(b.entry) \subseteq Live(c.entry)
<1>1. PICK st : RunsQueue(b, queue, st)
  BY QueueRuns
<1>2. PICK n \in Nat : n = Len(queue)
  OBVIOUS
<1>3. /\ st[0] = b /\ c = st[n] /\ DOMAIN queue = 1 .. n
      /\ \A i \in 1 .. n : st[i] = RunClosure(st[i - 1], queue[i])
  BY <1>1, <1>2 DEF RunsQueue
<1>4. CASE n = 0
  <2>1. told = 0
    <3>1. queue = <<>>
      <4>1. queue \in Seq(Closures) /\ Len(queue) = 0
        BY <1>2, <1>4
      <4> QED BY ONLY <4>1
    <3> QED BY <3>1 DEF FirstTold
  <2> QED BY <1>3, <1>4, <2>1 DEF SameAsk
<1>5. CASE n # 0
  <2>1. PICK T : T = {i \in 0 .. n : i = 0 \/ Leads(b, st[i], owed)}
    OBVIOUS
  <2>2. 0 \in T
    BY <2>1
  <2>3. ASSUME NEW i \in 0 .. n - 1, i \in T
        PROVE  i + 1 \in T
    <3>1. PICK j, k, d, e : j = i + 1 /\ k = queue[j] /\ d = st[i] /\ e = st[j]
      OBVIOUS
    <3>2. j \in 1 .. n /\ j \in 0 .. n /\ i = j - 1 /\ (i # 0 => j # 1)
      BY <3>1
    <3>3. k \in Closures /\ e = RunClosure(d, k)
      BY <1>2, <1>3, <3>1, <3>2
    <3>4. /\ ClosureOK(b.requests, h, k)
          /\ k.op = "notify" => j = 1 /\ k.slot # 0
      BY <1>3, <3>1, <3>2
    <3>5. CASE i = 0
      <4>1. d = b /\ k = queue[1] /\ queue # <<>> /\ j = 1
        BY <1>2, <1>3, <1>5, <3>1, <3>5
      <4>2. IF k.op = "notify" THEN told = k.slot /\ told # 0 ELSE told = 0
        BY <3>4, <4>1 DEF FirstTold
      <4>3. e = RunClosure(b, k)
        BY <3>3, <4>1
      <4>4. Leads(b, e, owed)
        BY <3>3, <3>4, <4>2, <4>3, RunClosureKeeps
      <4> QED BY <2>1, <3>1, <3>2, <4>4
    <3>6. CASE i # 0
      <4>1. Leads(b, d, owed) /\ BackendInv(d, owed, 0)
        BY <2>1, <2>3, <3>1, <3>6 DEF Leads
      <4>2. k.op # "notify"
        BY <3>2, <3>4, <3>6
      <4>3. ClosureOK(d.requests, h, k)
        BY <3>4, <4>1, AskedAgain DEF ClosureOK, Leads
      <4>4. PICK z : z = 0
        OBVIOUS
      <4>5. BackendInv(d, owed, z) /\ IF k.op = "notify" THEN z = k.slot /\ z # 0 ELSE z = 0
        BY <4>1, <4>2, <4>4
      <4>6. Leads(d, e, owed)
        BY ONLY <3>3, <4>3, <4>5, hashOf \in [Keys -> Hashes], h \in Hashes, RunClosureKeeps
      <4>7. Leads(b, e, owed)
        BY <4>1, <4>6, LeadsAgain
      <4> QED BY <2>1, <3>1, <3>2, <4>7
    <3> QED BY <3>5, <3>6
  <2>4. n \in T
    <3>1. \A i \in 0 .. n : i \in T
      BY <2>2, <2>3, CountUp
    <3> QED BY <3>1
  <2>5. Leads(b, c, owed)
    BY <1>3, <1>5, <2>1, <2>4
  <2> QED BY <2>5 DEF Leads
<1> QED BY <1>4, <1>5

LEMMA CompleteIs ==
  ASSUME NEW b, NEW table, NEW h, b[table][h] # NoQueue, NEW t, t = At(b[table], h, NoQueue),
         NEW d, d = With(b, table, t), NEW queue, queue = b[table][h],
         NEW c, c = OnOperationComplete(b, table, h)
  PROVE  c = RunQueue(d, queue)
<1>1. Waiting(b, table, h)
  BY DEF Waiting
<1>2. [b EXCEPT ![table][h] = NoQueue] = d
  BY DEF With, At
<1>3. [Check(b, Waiting(b, table, h), "OnOperationComplete") EXCEPT ![table][h] = NoQueue] = d
  BY <1>1, <1>2 DEF Check
<1> QED BY <1>1, <1>3 DEF OnOperationComplete, RunQueue

\* The entries as they are when a doom of theirs is over.
DoomOver(entry, next, h) ==
  /\ next \in Seq(EntryObjects \cup {Gone}) /\ Live(next) = Live(entry)
  /\ \A t \in Live(entry) :
       /\ next[t].hash = entry[t].hash /\ next[t].doomed = entry[t].doomed
       /\ next[t].createPendingDoom = entry[t].createPendingDoom
       /\ Opener(next[t]) <=> Opener(entry[t])
       /\ Sound(next[t])
       /\ next[t].waited <=> entry[t].waited /\ entry[t].hash # h

\* The same, but for the entries.
Beside(b, d) ==
  /\ Shaped(d) /\ d.active = b.active /\ d.postDoom = b.postDoom
  /\ d.postOpenByHash = b.postOpenByHash /\ d.massDooms = b.massDooms
  /\ d.index \subseteq Hashes /\ d.failedChecks = b.failedChecks
  /\ RequestsOK(d.requests) /\ SameAsk(b.requests, d.requests)

LEMMA OverKeeps ==
  ASSUME NEW b, NEW owed, BackendInv(b, owed, 0), hashOf \in [Keys -> Hashes],
         NEW h \in Hashes, b.postDoom[h] # NoQueue, NEW d, Beside(b, d),
         DoomOver(b.entry, d.entry, h), NEW left, left = owed \ {h},
         (\E t \in Live(b.entry) : b.entry[t].waited /\ b.entry[t].hash = h) \/ h \in owed,
         NEW c, c = OnOperationComplete(d, "postDoom", h)
  PROVE  /\ BackendInv(c, left, 0) /\ SameAsk(b.requests, c.requests)
         /\ Live(b.entry) \subseteq Live(c.entry)
<1>1. PICK table, queue, q, e, told :
        /\ table = "postDoom" /\ queue = b.postDoom[h]
        /\ q = At(b.postDoom, h, NoQueue) /\ e = With(d, table, q) /\ told = FirstTold(queue)
  OBVIOUS
<1>2. d[table] = b.postDoom /\ Shaped(d) /\ table \in Fields
  BY <1>1 DEF Beside, Fields
<1>3. c = RunQueue(e, queue)
  <2>1. d[table][h] # NoQueue /\ queue = d[table][h] /\ q = At(d[table], h, NoQueue)
    BY <1>1, <1>2
  <2>2. c = OnOperationComplete(d, table, h) /\ e = With(d, table, q)
    BY <1>1
  <2> QED BY ONLY <2>1, <2>2, CompleteIs
<1>4. Only(d, e, {table}) /\ e[table] = q
  BY <1>1, <1>2, SetField
<1>5. /\ e.active = b.active /\ e.entry = d.entry /\ e.postDoom = q
      /\ e.postOpenByHash = b.postOpenByHash /\ e.massDooms = b.massDooms
      /\ e.requests = d.requests /\ e.index = d.index /\ e.failedChecks = b.failedChecks
      /\ Shaped(e)
  BY <1>1, <1>4 DEF Only, Fields, Beside
<1>6. /\ Queues(b.postDoom, b.requests) /\ Queues(b.postOpenByHash, b.requests)
      /\ OnlyRequests(b.postOpenByHash)
      /\ Parts(b.active, b.entry, b.postDoom, b.postOpenByHash, b.massDooms, owed, 0)
      /\ b.postDoom \in [Hashes -> Seq(Closures) \cup {NoQueue}]
  BY DEF BackendInv, Queues
<1>7. Parts(e.active, e.entry, e.postDoom, e.postOpenByHash, e.massDooms, left, told)
  <2>3. PICK v, f, t, u, k, next :
          /\ v = b.active /\ f = b.entry /\ t = b.postDoom
          /\ u = b.postOpenByHash /\ k = b.massDooms /\ next = d.entry
    OBVIOUS
  <2>4. Parts(v, f, t, u, k, owed, 0) /\ t \in [Hashes -> Seq(Closures) \cup {NoQueue}]
    BY <1>6, <2>3
  <2>5. /\ next \in Seq(EntryObjects \cup {Gone}) /\ Live(next) = Live(f)
        /\ \A s \in Live(f) :
             /\ next[s].hash = f[s].hash /\ next[s].doomed = f[s].doomed
             /\ next[s].createPendingDoom = f[s].createPendingDoom
             /\ Opener(next[s]) <=> Opener(f[s])
             /\ Sound(next[s])
             /\ next[s].waited <=> f[s].waited /\ f[s].hash # h
    BY <2>3 DEF DoomOver
  <2>6. (\E s \in Live(f) : f[s].waited /\ f[s].hash = h) \/ h \in owed
    BY <2>3
  <2>7. t[h] # NoQueue
    BY <2>3
  <2>8. Parts(v, next, At(t, h, NoQueue), u, k, left, FirstTold(t[h]))
    BY ONLY h \in Hashes, left = owed \ {h}, <2>4, <2>5, <2>6, <2>7, OverParts
  <2> QED BY <1>1, <1>5, <2>3, <2>8
<1>8. Queues(e.postDoom, e.requests) /\ Queues(e.postOpenByHash, e.requests)
      /\ OnlyRequests(e.postOpenByHash)
  <2>1. Queues(q, b.requests)
    <3>1. PICK t, p : t = b.postDoom /\ p = b.requests
      OBVIOUS
    <3>2. Queues(t, p) /\ q = At(t, h, NoQueue)
      BY <1>1, <1>6, <3>1
    <3>3. Queues(q, p)
      BY <3>2, QueuesReset
    <3> QED BY <3>1, <3>3
  <2>2. SameAsk(b.requests, d.requests)
    BY DEF Beside
  <2> QED BY <1>5, <1>6, <2>1, <2>2, QueuesAgain
<1>9. BackendInv(e, left, told)
  BY <1>5, <1>7, <1>8 DEF BackendInv, Beside
<1>10. queue \in Seq(Closures)
  BY <1>1, <1>6
<1>11. ASSUME NEW i \in DOMAIN queue
       PROVE  /\ ClosureOK(e.requests, h, queue[i])
              /\ queue[i].op = "notify" => i = 1 /\ queue[i].slot # 0
  <2>1. ClosureOK(b.requests, h, queue[i])
    BY <1>1, <1>6, <1>11 DEF Queues
  <2>2. ClosureOK(e.requests, h, queue[i])
    BY <1>5, <2>1, AskedAgain DEF ClosureOK, Beside
  <2>3. Notified(b.entry, b.postDoom, 0) /\ \A t \in Live(b.entry) : t # 0
    BY <1>6, LiveIsTyped DEF Parts, AllSound
  <2>4. queue[i].op = "notify" => i = 1 /\ queue[i].slot # 0
    BY <1>1, <1>11, <2>3 DEF Notified
  <2> QED BY <2>2, <2>4
<1>12. /\ BackendInv(c, left, 0) /\ SameAsk(e.requests, c.requests)
       /\ Live(e.entry) \subseteq Live(c.entry)
  <2>1. told = FirstTold(queue)
    BY <1>1
  <2> QED BY ONLY <1>3, <1>9, <1>10, <1>11, <2>1, hashOf \in [Keys -> Hashes], h \in Hashes, QueueKeeps
<1> QED BY <1>5, <1>12 DEF Beside, DoomOver, SameAsk

LEMMA CompleteDoomsKeeps ==
  ASSUME NEW b, NEW owed, BackendInv(b, owed, 0), hashOf \in [Keys -> Hashes],
         NEW c, c = CompleteDooms(b, owed)
  PROVE  Leads(b, c, {})
<1>1. owed \subseteq Hashes /\ IsFiniteSet(owed)
  BY HashesAreFew DEF BackendInv, Parts
<1>0. PICK g : CompletesEach(b, owed, g)
  BY <1>1, EachCompletes
<1>2. /\ g[{}] = b
      /\ \A s \in SUBSET owed : s # {} =>
           g[s] = OnOperationComplete(g[s \ {Some(s)}], "postDoom", Some(s))
      /\ CompleteDooms(b, owed) = g[owed]
  BY <1>0 DEF CompletesEach
<1> DEFINE Good(T) == Leads(b, g[T], owed \ T)
<1>3. Good({})
  <2>1. owed \ {} = owed
    OBVIOUS
  <2> QED BY <1>2, <2>1, LeadsItself
<1>4. ASSUME NEW T \in SUBSET owed, T # {}, NEW x, x = Some(T), NEW U, U = T \ {x}, Good(U)
      PROVE  Good(T)
  <2>1. x \in T /\ x \in Hashes /\ x \in owed \ U
    BY <1>1, <1>4 DEF Some
  <2>2. PICK d, e, some, left : d = g[U] /\ e = g[T] /\ some = owed \ U /\ left = some \ {x}
    OBVIOUS
  <2>3. e = OnOperationComplete(d, "postDoom", x) /\ left = owed \ T
    BY <1>2, <1>4, <2>1, <2>2
  <2>4. Leads(b, d, some) /\ BackendInv(d, some, 0)
    BY <1>4, <2>2 DEF Leads
  <2>5. /\ d.entry \in Seq(EntryObjects \cup {Gone})
        /\ \A t \in Live(d.entry) : Sound(d.entry[t])
        /\ d.postDoom[x] # NoQueue
        /\ \A t \in Live(d.entry) : d.entry[t].waited => d.entry[t].hash # x
    <3>1. x \in some
      BY <2>1, <2>2
    <3>2. /\ AllSound(d.entry) /\ DoomsWaited(d.entry, d.postDoom, d.massDooms, some)
          /\ OneDoom(d.entry, d.massDooms, some)
      BY <2>4 DEF BackendInv, Parts
    <3>3. d.entry \in Seq(EntryObjects \cup {Gone}) /\ \A t \in Live(d.entry) : Sound(d.entry[t])
      BY <3>2 DEF AllSound
    <3>4. d.postDoom[x] # NoQueue
      BY <3>1, <3>2 DEF DoomsWaited
    <3>5. \A t \in Live(d.entry) : d.entry[t].waited => d.entry[t].hash # x
      BY <3>1, <3>2 DEF OneDoom
    <3> QED BY <3>3, <3>4, <3>5
  <2>6. DoomOver(d.entry, d.entry, x)
    BY <2>5 DEF DoomOver
  <2>7. Beside(d, d)
    BY <2>4 DEF Beside, BackendInv, SameAsk
  <2>8. x \in some
    BY <2>1, <2>2
  <2>9. /\ BackendInv(e, left, 0) /\ SameAsk(d.requests, e.requests)
        /\ Live(d.entry) \subseteq Live(e.entry)
    <3>1. x \in Hashes /\ left = some \ {x} /\ BackendInv(d, some, 0) /\ d.postDoom[x] # NoQueue
      BY <2>1, <2>2, <2>4, <2>5
    <3>2. e = OnOperationComplete(d, "postDoom", x)
      BY <2>3
    <3> QED BY ONLY <3>1, <3>2, <2>6, <2>7, <2>8, hashOf \in [Keys -> Hashes], OverKeeps
  <2>10. Leads(d, e, left)
    BY <2>9 DEF Leads
  <2>11. Leads(b, e, left)
    BY <2>4, <2>10, LeadsAgain
  <2> QED BY <2>2, <2>3, <2>11
<1> HIDE DEF Good
<1>5. \A T \in SUBSET owed : Good(T)
  <2>1. SUFFICES ASSUME NEW V \in SUBSET owed, ~Good(V)
                 PROVE  FALSE
    OBVIOUS
  <2>2. PICK B : B = {T \in SUBSET owed : ~Good(T)}
    OBVIOUS
  <2>3. B \subseteq SUBSET owed /\ B # {}
    BY <2>1, <2>2
  <2>4. PICK T \in B : \A U \in B : U \subseteq T => U = T
    BY <1>1, <2>3, SmallestSubset
  <2>5. T \in SUBSET owed /\ ~Good(T)
    BY <2>2
  <2>6. T # {}
    BY <1>3, <2>5
  <2>7. PICK x, U : x = Some(T) /\ U = T \ {x}
    OBVIOUS
  <2>8. x \in T
    BY <2>6, <2>7 DEF Some
  <2>9. Good(U)
    BY <2>2, <2>4, <2>5, <2>7, <2>8
  <2> QED BY <1>4, <2>5, <2>6, <2>7, <2>9
<1>6. Good(owed) /\ c = g[owed]
  BY <1>2, <1>5
<1>7. owed \ owed = {}
  OBVIOUS
<1> QED BY <1>6, <1>7 DEF Good

\* What waited for an open by hash is run when that is over.
LEMMA OpenOverKeeps ==
  ASSUME NEW d, Shaped(d), hashOf \in [Keys -> Hashes], NEW h \in Hashes,
         d.postOpenByHash[h] # NoQueue, Queues(d.postOpenByHash, d.requests),
         OnlyRequests(d.postOpenByHash),
         NEW u, u = At(d.postOpenByHash, h, NoQueue),
         NEW e, e = With(d, "postOpenByHash", u), BackendInv(e, {}, 0),
         NEW c, c = OnOperationComplete(d, "postOpenByHash", h)
  PROVE  Leads(d, c, {})
<1>1. PICK table, queue : table = "postOpenByHash" /\ queue = d[table][h]
  OBVIOUS
<1>2. table \in Fields /\ queue \in Seq(Closures)
  BY <1>1 DEF Fields, Queues
<1>3. Only(d, e, {table})
  BY <1>1, <1>2, SetField
<1>4. e.requests = d.requests /\ e.entry = d.entry
  BY <1>1, <1>3 DEF Only, Fields
<1>5. c = RunQueue(e, queue)
  <2>1. d[table][h] # NoQueue /\ queue = d[table][h] /\ u = At(d[table], h, NoQueue)
    BY <1>1
  <2>2. c = OnOperationComplete(d, table, h) /\ e = With(d, table, u)
    BY <1>1
  <2> QED BY ONLY <2>1, <2>2, CompleteIs
<1>6. ASSUME NEW i \in DOMAIN queue
      PROVE  /\ ClosureOK(e.requests, h, queue[i]) /\ queue[i].op # "notify"
             /\ queue[i].op = "notify" => i = 1 /\ queue[i].slot # 0
  BY <1>1, <1>4, <1>6 DEF Queues, OnlyRequests
<1>7. PICK told, none : told = 0 /\ none = {}
  OBVIOUS
<1>8. told = FirstTold(queue)
  <2>1. queue # <<>> => 1 \in DOMAIN queue
    BY <1>2
  <2> QED BY <1>6, <1>7, <2>1 DEF FirstTold
<1>9. BackendInv(e, none, told)
  BY <1>7
<1>10. /\ BackendInv(c, none, 0) /\ SameAsk(e.requests, c.requests)
       /\ Live(e.entry) \subseteq Live(c.entry)
  BY ONLY <1>2, <1>5, <1>6, <1>8, <1>9, hashOf \in [Keys -> Hashes], h \in Hashes, QueueKeeps
<1> QED BY <1>4, <1>7, <1>10 DEF Leads

-------------------------------------------------------------------------------
(* An object that nobody uses ends *)

OffMap(active, h, s) == [active EXCEPT ![h] = IF @ = s THEN 0 ELSE @]
Ended(b, s, h) == [b EXCEPT !.entry[s] = Gone, !.active[h] = IF @ = s THEN 0 ELSE @]

LEMMA EndedFacts ==
  ASSUME NEW b, Shaped(b), NEW s, NEW h, NEW c, c = Ended(b, s, h)
  PROVE  /\ Only(b, c, {"entry", "active"}) /\ c.entry = At(b.entry, s, Gone)
         /\ c.active = OffMap(b.active, h, s)
<1>1. DOMAIN b = Fields
  BY DEF Shaped
<1>2. DOMAIN c = Fields /\ c = [f \in DOMAIN c |-> c[f]]
  BY <1>1 DEF Ended
<1>3. c.entry = At(b.entry, s, Gone)
  BY <1>1 DEF Ended, At, Fields
<1>4. c.active = OffMap(b.active, h, s)
  BY <1>1 DEF Ended, OffMap, Fields
<1>5. \A f \in Fields \ {"entry", "active"} : c[f] = b[f]
  BY <1>1 DEF Ended
<1> QED BY <1>2, <1>3, <1>4, <1>5 DEF Only, Shaped

LEMMA SettledIs ==
  ASSUME NEW b, NEW s, NEW h, h = b.entry[s].hash, NEW c, c = Settled(b, s)
  PROVE  /\ InUse(b, s) => c = b
         /\ ~InUse(b, s) => c = Ended(b, s, h)
  BY DEF Settled, Ended

LEMMA SettledKeeps ==
  ASSUME NEW b, NEW owed, BackendInv(b, owed, 0), NEW s \in Live(b.entry),
         NEW c, c = Settled(b, s)
  PROVE  BackendInv(c, owed, 0) /\ c.requests = b.requests
<1>1. CASE InUse(b, s)
  <2>1. c = b
    BY <1>1, SettledIs
  <2> QED BY <2>1
<1>2. CASE ~InUse(b, s)
  <2>1. PICK e, h : e = b.entry[s] /\ h = e.hash
    OBVIOUS
  <2>2. /\ b.entry \in Seq(EntryObjects \cup {Gone}) /\ Shaped(b)
        /\ Parts(b.active, b.entry, b.postDoom, b.postOpenByHash, b.massDooms, owed, 0)
        /\ b.active \in [Hashes -> Nat] /\ OnMap(b.active, b.entry)
    BY DEF BackendInv, Parts, AllSound, OnMap
  <2>3. e \in EntryObjects
    BY <2>1, <2>2, LiveIsTyped
  <2>4. h \in Hashes
    BY <2>1, <2>3 DEF EntryObjects
  <2>5. e.queue = <<>> /\ e.createPendingDoom = "none"
    BY <1>2, <2>1 DEF InUse
  <2>6. c = Ended(b, s, h)
    BY <1>2, <2>1, SettledIs
  <2>7. /\ Only(b, c, {"entry", "active"}) /\ c.entry = At(b.entry, s, Gone)
        /\ c.active = OffMap(b.active, h, s)
    BY <2>2, <2>6, EndedFacts
  <2>8. Dropped(b.entry, c.entry, s)
    BY <2>2, <2>7, ExceptDrops DEF At
  <2>9. c.active \in [Hashes -> Nat]
    BY <2>2, <2>4, <2>7 DEF OffMap
  <2>10. \A g \in Hashes : c.active[g] = IF b.active[g] = s THEN 0 ELSE b.active[g]
    <3>1. s # 0
      BY <2>2, LiveIsTyped
    <3>2. \A g \in Hashes : b.active[g] = s => g = h
      BY <2>1, <2>2, <3>1 DEF OnMap
    <3> QED BY <2>2, <2>4, <2>7, <3>2 DEF OffMap
  <2>11. Parts(c.active, c.entry, b.postDoom, b.postOpenByHash, b.massDooms, owed, 0)
    <3>1. PICK v, f, t, u, k, map, next :
            /\ v = b.active /\ f = b.entry /\ t = b.postDoom /\ u = b.postOpenByHash
            /\ k = b.massDooms /\ map = c.active /\ next = c.entry
      OBVIOUS
    <3>2. /\ Parts(v, f, t, u, k, owed, 0) /\ s \in Live(f) /\ f[s].queue = <<>>
          /\ f[s].createPendingDoom = "none" /\ Dropped(f, next, s) /\ map \in [Hashes -> Nat]
          /\ \A g \in Hashes : map[g] = IF v[g] = s THEN 0 ELSE v[g]
      BY <2>1, <2>2, <2>5, <2>8, <2>9, <2>10, <3>1
    <3>3. Parts(map, next, t, u, k, owed, 0)
      BY ONLY <3>2, SettledParts
    <3> QED BY <3>1, <3>3
  <2>12. /\ c.postDoom = b.postDoom /\ c.postOpenByHash = b.postOpenByHash
         /\ c.massDooms = b.massDooms /\ c.requests = b.requests /\ c.index = b.index
         /\ c.failedChecks = b.failedChecks /\ Shaped(c)
    BY <2>7 DEF Only, Fields
  <2> QED BY <2>11, <2>12 DEF BackendInv
<1> QED BY <1>1, <1>2

-------------------------------------------------------------------------------
(* An entry takes the first of its queue *)

Popped(e) == [e EXCEPT !.queue = Tail(@)]
Pop(b, s) == [b EXCEPT !.entry[s].queue = Tail(@)]

LEMMA PopFacts ==
  ASSUME NEW b, Shaped(b), NEW s, NEW c, c = Pop(b, s)
  PROVE  Only(b, c, {"entry"}) /\ c.entry = At(b.entry, s, Popped(b.entry[s]))
<1>1. c = With(b, "entry", At(b.entry, s, Popped(b.entry[s])))
  BY DEF Pop, With, At, Popped
<1> QED BY <1>1, SetEntry

\* What is left of the queue.
LEMMA TailFacts ==
  ASSUME NEW S, NEW queue, queue \in Seq(S), queue # <<>>, NEW rest, rest = Tail(queue)
  PROVE  /\ rest \in Seq(S)
         /\ \A i \in DOMAIN rest : i + 1 \in DOMAIN queue /\ i + 1 # 1 /\ rest[i] = queue[i + 1]
         /\ \A i \in DOMAIN queue : i # 1 => i - 1 \in DOMAIN rest /\ rest[i - 1] = queue[i]
<1>1. PICK n \in Nat : n = Len(queue)
  OBVIOUS
<1>2. n # 0 /\ DOMAIN queue = 1 .. n
  BY <1>1
<1>3. /\ rest \in Seq(S) /\ DOMAIN rest = 1 .. n - 1
      /\ \A i \in 1 .. n - 1 : rest[i] = queue[i + 1]
  BY <1>1, <1>2
<1>4. \A i \in 1 .. n : i # 1 => i - 1 \in 1 .. n - 1 /\ rest[i - 1] = queue[(i - 1) + 1]
                                 /\ (i - 1) + 1 = i
  BY <1>2, <1>3
<1>5. \A i \in 1 .. n - 1 : i + 1 \in 1 .. n /\ i + 1 # 1
  OBVIOUS
<1> QED BY <1>2, <1>3, <1>4, <1>5

\* An entry that has begun with the first of its queue.
LEMMA BegunIsSound ==
  ASSUME NEW e \in EntryObjects, Sound(e), e.queue # <<>>, e.createPendingDoom = "none",
         NEW d, d.queue = Tail(e.queue), d.createPendingDoom = "none",
         d.key = e.key \/ d.key # NoKey, d.doomed \in BOOLEAN, d.waited \in BOOLEAN,
         e.doomed => d.doomed, Opener(e) /\ d.key = NoKey => d.doomed,
         d.waited => e.waited, d.waited => e.queue[1].op # "doom"
  PROVE  Sound(d) /\ ~Opener(d)
<1>1. PICK queue, rest : queue = e.queue /\ rest = d.queue
  OBVIOUS
<1>2. queue \in Seq(EntryOperations) /\ queue # <<>> /\ rest = Tail(queue)
  BY <1>1 DEF EntryObjects
<1>3. /\ rest \in Seq(EntryOperations)
      /\ \A i \in DOMAIN rest : i + 1 \in DOMAIN queue /\ i + 1 # 1 /\ rest[i] = queue[i + 1]
      /\ \A i \in DOMAIN queue : i # 1 => i - 1 \in DOMAIN rest /\ rest[i - 1] = queue[i]
  BY ONLY <1>2, TailFacts
<1>4. \A i \in DOMAIN queue : i # 1 => queue[i].op # "openFromHash"
  <2>1. \A i \in 2 .. Len(queue) : queue[i].op # "openFromHash"
    BY <1>1 DEF Sound
  <2>2. \A i \in DOMAIN queue : i # 1 => i \in 2 .. Len(queue)
    BY <1>2
  <2> QED BY <2>1, <2>2
<1>5. \A i \in DOMAIN rest : rest[i].op # "openFromHash"
  BY <1>3, <1>4
<1>6. ~Opener(d)
  <2>1. rest # <<>> => 1 \in DOMAIN rest
    BY <1>3
  <2> QED BY <1>1, <1>5, <2>1 DEF Opener
<1>7. \A i \in 2 .. Len(d.queue) : d.queue[i].op # "openFromHash"
  <2>1. \A i \in 2 .. Len(rest) : i \in DOMAIN rest
    BY <1>3
  <2> QED BY <1>1, <1>5, <2>1
<1>8. d.key = NoKey => d.doomed
  BY DEF Sound
<1>9. d.key = NoKey => \A i \in DOMAIN d.queue : d.queue[i].op \notin {"create", "openOrCreate"}
  <2>1. e.key = NoKey => \A i \in DOMAIN queue : queue[i].op \notin {"create", "openOrCreate"}
    BY <1>1 DEF Sound
  <2>2. e.key = NoKey => \A i \in DOMAIN rest : rest[i].op \notin {"create", "openOrCreate"}
    BY <1>3, <2>1
  <2> QED BY <1>1, <2>2
<1>10. d.waited => \E i \in DOMAIN d.queue : d.queue[i].op = "doom"
  <2>1. SUFFICES ASSUME d.waited
                 PROVE  \E i \in DOMAIN rest : rest[i].op = "doom"
    BY <1>1
  <2>2. PICK i \in DOMAIN queue : queue[i].op = "doom"
    BY <1>1, <2>1 DEF Sound
  <2>3. i # 1
    BY <1>1, <2>1, <2>2
  <2> QED BY <1>3, <2>2, <2>3
<1>11. d.waited => d.doomed
  BY DEF Sound
<1> QED BY <1>6, <1>7, <1>8, <1>9, <1>10, <1>11 DEF Sound

LEMMA PoppedFacts ==
  ASSUME NEW e \in EntryObjects, e.queue # <<>>, NEW d, d = Popped(e)
  PROVE  /\ d \in EntryObjects /\ d.hash = e.hash /\ d.key = e.key /\ d.queue = Tail(e.queue)
         /\ d.state = e.state /\ d.doomed = e.doomed /\ d.waited = e.waited
         /\ d.createPendingDoom = e.createPendingDoom /\ d.users = e.users
         /\ e.queue[1] \in EntryOperations /\ Head(e.queue) = e.queue[1]
<1>1. PICK queue : queue = e.queue
  OBVIOUS
<1>2. queue \in Seq(EntryOperations) /\ queue # <<>>
  BY <1>1 DEF EntryObjects
<1>3. Tail(queue) \in Seq(EntryOperations) /\ queue[1] \in EntryOperations
      /\ Head(queue) = queue[1]
  BY <1>2
<1>4. d \in EntryObjects
  BY <1>1, <1>3 DEF Popped, EntryObjects
<1> QED BY <1>1, <1>3, <1>4 DEF Popped, EntryObjects

\* It was neither an open by hash nor the doom that others wait for.
LEMMA PopKeeps ==
  ASSUME NEW b, NEW owed, BackendInv(b, owed, 0), NEW s \in Live(b.entry),
         NEW e, e = b.entry[s], e.queue # <<>>, e.createPendingDoom = "none", ~Opener(e),
         e.waited => e.queue[1].op # "doom", NEW c, c = Pop(b, s)
  PROVE  /\ Leads(b, c, owed) /\ c.entry[s] = Popped(e) /\ ~Opener(Popped(e))
         /\ c.index = b.index /\ c.requests = b.requests
<1>1. PICK d : d = Popped(e)
  OBVIOUS
<1>2. b.entry \in Seq(EntryObjects \cup {Gone}) /\ Sound(e) /\ Shaped(b)
  BY DEF BackendInv, Parts, AllSound
<1>3. e \in EntryObjects
  BY <1>2, LiveIsTyped
<1>4. /\ d \in EntryObjects /\ d.hash = e.hash /\ d.key = e.key /\ d.queue = Tail(e.queue)
      /\ d.state = e.state /\ d.doomed = e.doomed /\ d.waited = e.waited
      /\ d.createPendingDoom = e.createPendingDoom
  BY <1>1, <1>3, PoppedFacts
<1>5. Sound(d) /\ ~Opener(d)
  <2>1. d.doomed \in BOOLEAN /\ d.waited \in BOOLEAN
    BY <1>4 DEF EntryObjects
  <2>2. d.createPendingDoom = "none" /\ (d.key = e.key \/ d.key # NoKey)
    BY <1>4
  <2>3. /\ e.doomed => d.doomed
        /\ Opener(e) /\ d.key = NoKey => d.doomed
        /\ d.waited => e.waited
        /\ d.waited => e.queue[1].op # "doom"
    BY <1>4
  <2> QED BY <1>2, <1>3, <1>4, <2>1, <2>2, <2>3, BegunIsSound
<1>6. SameFace(e, d)
  BY <1>4, <1>5 DEF SameFace
<1>7. Only(b, c, {"entry"}) /\ c.entry = At(b.entry, s, d)
  BY <1>1, <1>2, PopFacts
<1>8. /\ Only(b, c, {"entry", "index", "leftover"}) /\ c.entry = [b.entry EXCEPT ![s] = d]
      /\ c.index = b.index /\ c.requests = b.requests /\ c.index \subseteq Hashes
  BY <1>7 DEF Only, Fields, At, BackendInv
<1>9. BackendInv(c, owed, 0)
  BY <1>4, <1>5, <1>6, <1>8, TouchKeeps
<1>10. Changed(b.entry, c.entry, s, d)
  BY <1>2, <1>4, <1>8, ExceptChanges
<1> QED BY <1>1, <1>5, <1>8, <1>9, <1>10 DEF Leads, SameAsk, Changed

-------------------------------------------------------------------------------
(* An entry answers *)

\* To the backend it is the same entry.
Alike(e, d) ==
  /\ d.queue = e.queue /\ d.hash = e.hash /\ d.doomed = e.doomed /\ d.waited = e.waited
  /\ d.createPendingDoom = e.createPendingDoom
  /\ d.key = e.key \/ d.key # NoKey

LEMMA ServeKeeps ==
  ASSUME NEW b, NEW owed, BackendInv(b, owed, 0), NEW s \in Live(b.entry),
         NEW e, e = b.entry[s], ~Opener(e), NEW d \in EntryObjects, Alike(e, d),
         NEW c, Only(b, c, {"entry", "index", "leftover"}), c.entry = At(b.entry, s, d),
         c.index \subseteq Hashes
  PROVE  Leads(b, c, owed)
<1>1. b.entry \in Seq(EntryObjects \cup {Gone}) /\ Sound(e)
  BY DEF BackendInv, Parts, AllSound
<1>2. Sound(d) /\ SameFace(e, d)
  <2>1. ~Opener(d)
    BY DEF Alike, Opener
  <2> QED BY <1>1, <2>1 DEF Sound, SameFace, Alike
<1>3. c.entry = [b.entry EXCEPT ![s] = d]
  BY DEF At
<1>4. BackendInv(c, owed, 0)
  BY <1>2, <1>3, TouchKeeps
<1>5. Changed(b.entry, c.entry, s, d)
  BY <1>1, <1>3, ExceptChanges
<1>6. c.requests = b.requests
  BY DEF Only, Fields
<1> QED BY <1>4, <1>5, <1>6 DEF Leads, SameAsk, Changed

Ready(b, s, key, born, told, index) ==
  [b EXCEPT !.entry[s].state = "ready", !.entry[s].key = key, !.entry[s].born = born,
            !.entry[s].users = IF told THEN @ ELSE @ + 1, !.index = index]
MadeReady(e, key, born, told) ==
  [e EXCEPT !.state = "ready", !.key = key, !.born = born,
            !.users = IF told THEN @ ELSE @ + 1]

LEMMA ReadyFacts ==
  ASSUME NEW b, Shaped(b), NEW s, s \in DOMAIN b.entry, NEW key, NEW born, NEW told, NEW index, NEW c,
         c = Ready(b, s, key, born, told, index)
  PROVE  /\ Only(b, c, {"entry", "index"}) /\ c.index = index
         /\ c.entry = At(b.entry, s, MadeReady(b.entry[s], key, born, told))
<1>1. DOMAIN b = Fields
  BY DEF Shaped
<1>2. DOMAIN c = Fields /\ c = [f \in DOMAIN c |-> c[f]]
  BY <1>1 DEF Ready
<1>3. c.index = index
  BY <1>1 DEF Ready, Fields
<1>4. c.entry = At(b.entry, s, MadeReady(b.entry[s], key, born, told))
  BY <1>1 DEF Ready, At, Fields, MadeReady
<1>5. \A f \in Fields \ {"entry", "index"} : c[f] = b[f]
  BY <1>1 DEF Ready
<1> QED BY <1>2, <1>3, <1>4, <1>5 DEF Only, Shaped

LEMMA MadeReadyFacts ==
  ASSUME NEW e \in EntryObjects, NEW key \in Keys \cup {NoKey}, NEW born \in Nat,
         NEW told \in BOOLEAN, NEW d, d = MadeReady(e, key, born, told)
  PROVE  /\ d \in EntryObjects /\ d.queue = e.queue /\ d.hash = e.hash /\ d.doomed = e.doomed
         /\ d.waited = e.waited /\ d.createPendingDoom = e.createPendingDoom /\ d.key = key
<1>1. PICK n : n = IF told THEN e.users ELSE e.users + 1
  OBVIOUS
<1>2. n \in Nat
  BY <1>1 DEF EntryObjects
<1>3. d = [e EXCEPT !.state = "ready", !.key = key, !.born = born, !.users = n]
  BY <1>1 DEF MadeReady, EntryObjects
<1>4. d \in EntryObjects
  BY <1>2, <1>3 DEF EntryObjects
<1> QED BY <1>3, <1>4 DEF EntryObjects

LEMMA ReadyKeeps ==
  ASSUME NEW b, NEW owed, BackendInv(b, owed, 0), NEW s \in Live(b.entry),
         NEW e, e = b.entry[s], ~Opener(e), NEW key \in Keys \cup {NoKey},
         key = e.key \/ key # NoKey, NEW born \in Nat, NEW told \in BOOLEAN,
         NEW index, index \subseteq Hashes, NEW c, c = Ready(b, s, key, born, told, index)
  PROVE  Leads(b, c, owed)
<1>1. b.entry \in Seq(EntryObjects \cup {Gone}) /\ Shaped(b) /\ s \in DOMAIN b.entry
  BY DEF BackendInv, Parts, AllSound, Live
<1>2. e \in EntryObjects
  BY <1>1, LiveIsTyped
<1>3. PICK d : d = MadeReady(e, key, born, told)
  OBVIOUS
<1>4. d \in EntryObjects /\ Alike(e, d)
  BY <1>2, <1>3, MadeReadyFacts DEF Alike
<1>5. Only(b, c, {"entry", "index"}) /\ c.index = index /\ c.entry = At(b.entry, s, d)
  BY <1>1, <1>3, ReadyFacts
<1>6. Only(b, c, {"entry", "index", "leftover"}) /\ c.index \subseteq Hashes
  BY <1>5 DEF Only
<1> QED BY <1>4, <1>5, <1>6, ServeKeeps

WithState(e, x) == [e EXCEPT !.state = x]
Stated(b, s, x) == [b EXCEPT !.entry[s].state = x]
WithUser(e) == [e EXCEPT !.users = @ + 1]
Used(b, s) == [b EXCEPT !.entry[s].users = @ + 1]

LEMMA StatedKeeps ==
  ASSUME NEW b, NEW owed, BackendInv(b, owed, 0), NEW s \in Live(b.entry),
         ~Opener(b.entry[s]), NEW x \in {"uninitialized", "ready", "failure"},
         NEW c, c = Stated(b, s, x)
  PROVE  Leads(b, c, owed)
<1>1. b.entry \in Seq(EntryObjects \cup {Gone}) /\ Shaped(b)
  BY DEF BackendInv, Parts, AllSound
<1>2. PICK e, d : e = b.entry[s] /\ d = WithState(e, x)
  OBVIOUS
<1>3. e \in EntryObjects
  BY <1>1, <1>2, LiveIsTyped
<1>4. d \in EntryObjects /\ Alike(e, d)
  BY <1>2, <1>3 DEF WithState, EntryObjects, Alike
<1>5. c = With(b, "entry", At(b.entry, s, d))
  BY <1>2 DEF Stated, With, At, WithState
<1>6. Only(b, c, {"entry"}) /\ c.entry = At(b.entry, s, d)
  BY <1>1, <1>5, SetEntry
<1>7. Only(b, c, {"entry", "index", "leftover"}) /\ c.index \subseteq Hashes
  BY <1>6 DEF Only, Fields, BackendInv
<1> QED BY <1>2, <1>4, <1>6, <1>7, ServeKeeps

LEMMA UsedKeeps ==
  ASSUME NEW b, NEW owed, BackendInv(b, owed, 0), NEW s \in Live(b.entry),
         ~Opener(b.entry[s]), NEW c, c = Used(b, s)
  PROVE  Leads(b, c, owed)
<1>1. b.entry \in Seq(EntryObjects \cup {Gone}) /\ Shaped(b)
  BY DEF BackendInv, Parts, AllSound
<1>2. PICK e, d : e = b.entry[s] /\ d = WithUser(e)
  OBVIOUS
<1>3. e \in EntryObjects
  BY <1>1, <1>2, LiveIsTyped
<1>4. d \in EntryObjects /\ Alike(e, d)
  BY <1>2, <1>3 DEF WithUser, EntryObjects, Alike
<1>5. c = With(b, "entry", At(b.entry, s, d))
  BY <1>2 DEF Used, With, At, WithUser
<1>6. Only(b, c, {"entry"}) /\ c.entry = At(b.entry, s, d)
  BY <1>1, <1>5, SetEntry
<1>7. Only(b, c, {"entry", "index", "leftover"}) /\ c.index \subseteq Hashes
  BY <1>6 DEF Only, Fields, BackendInv
<1> QED BY <1>2, <1>4, <1>6, <1>7, ServeKeeps

\* An answer does not change the entries.
LEMMA TellSame ==
  ASSUME NEW b, NEW owed, BackendInv(b, owed, 0), NEW r \in Nat,
         NEW result \in {"ok", "created", "failed"}, NEW born \in Nat,
         NEW c, c = Tell(b, r, result, born)
  PROVE  Leads(b, c, owed) /\ BackendInv(c, owed, 0) /\ c.entry = b.entry /\ c.index = b.index
<1>1. Tells(b, c)
  BY TellFacts DEF BackendInv
<1>2. Leads(b, c, owed)
  BY TellLeads
<1> QED BY <1>1, <1>2 DEF Tells, SameWork, Leads

-------------------------------------------------------------------------------
(* What an entry does when it has taken the first of its queue *)

Typed(d) == d \in [Hashes -> Files \cup {NoFile}]

LEMMA DiskKeeps ==
  ASSUME NEW d, Typed(d), NEW h, NEW f \in Files \cup {NoFile}, NEW n, n = [d EXCEPT ![h] = f]
  PROVE  Typed(n)
BY DEF Typed

LEMMA FileFacts ==
  ASSUME NEW d, Typed(d), NEW h \in Hashes, NEW f, f = d[h], f # NoFile
  PROVE  f.key \in Keys /\ f.key # NoKey /\ f.born \in Nat
<1>1. f \in Files
  BY DEF Typed
<1>2. f.key \in Keys /\ f.born \in Nat
  BY <1>1 DEF Files
<1> QED BY <1>2, BackendAssumption

\* What it needs to know of itself.
Running(b, s, op) ==
  /\ BackendInv(b, {}, 0) /\ s \in Live(b.entry) /\ ~Opener(b.entry[s])
  /\ op \in EntryOperations /\ op.op # "openFromHash"

LEMMA RunningFacts ==
  ASSUME NEW b, NEW s, NEW op, Running(b, s, op)
  PROVE  /\ b.entry[s] \in EntryObjects /\ b.entry[s].hash \in Hashes /\ b.entry[s].born \in Nat
         /\ b.entry[s].key \in Keys \cup {NoKey}
         /\ op.r \in Nat /\ op.told \in BOOLEAN /\ b.index \subseteq Hashes
         /\ Indexed(b, s) \subseteq Hashes /\ Unindexed(b, s) \subseteq b.index
<1>1. b.entry \in Seq(EntryObjects \cup {Gone}) /\ b.index \subseteq Hashes
  BY DEF Running, BackendInv, Parts, AllSound
<1>2. b.entry[s] \in EntryObjects
  BY <1>1, LiveIsTyped DEF Running
<1>3. b.entry[s].hash \in Hashes /\ b.entry[s].born \in Nat /\ b.entry[s].key \in Keys \cup {NoKey}
  BY <1>2 DEF EntryObjects
<1>4. op.r \in Nat /\ op.told \in BOOLEAN
  BY DEF Running, EntryOperations
<1> QED BY <1>1, <1>2, <1>3, <1>4 DEF Indexed, Unindexed

\* After a step the entry is still there, and may end.
LEMMA ThenSettled ==
  ASSUME NEW b, NEW s, NEW op, Running(b, s, op), NEW x, Leads(b, x, {}), NEW c, c = Settled(x, s)
  PROVE  BackendInv(c, {}, 0) /\ c.requests = x.requests
<1>1. BackendInv(x, {}, 0) /\ s \in Live(x.entry)
  BY DEF Leads, Running
<1> QED BY <1>1, SettledKeeps

LEMMA OpenRuns ==
  ASSUME NEW b, NEW s, NEW op, Running(b, s, op), Typed(disk), ExecuteOpen(b, s, op)
  PROVE  BackendInv(backend', {}, 0) /\ Typed(disk')
<1>1. PICK e, h, file, none : /\ e = b.entry[s] /\ h = e.hash /\ file = disk[h] /\ none = {}
  OBVIOUS
<1>2. /\ BackendInv(b, none, 0) /\ s \in Live(b.entry) /\ ~Opener(b.entry[s]) /\ op.r \in Nat
      /\ h \in Hashes /\ e.born \in Nat
      /\ Indexed(b, s) \subseteq Hashes /\ Unindexed(b, s) \subseteq b.index
  BY <1>1, RunningFacts DEF Running
<1>3. \A x : AfterOpen(x, h, op) = x
  BY DEF AfterOpen, Running
<1>4. CASE backend' = Tell(Used(b, s), op.r, "ok", e.born) /\ disk' = disk
  <2>1. PICK x, c : x = Used(b, s) /\ c = backend'
    OBVIOUS
  <2>2. Leads(b, x, none) /\ BackendInv(x, none, 0)
    BY <1>2, <2>1, UsedKeeps DEF Leads
  <2>3. BackendInv(c, none, 0)
    BY <1>2, <1>4, <2>1, <2>2, TellSame
  <2> QED BY <1>1, <1>4, <2>1, <2>3
<1>5. CASE backend' = Settled(OpenFailed(b, op.r), s) /\ disk' = disk
  <2>1. PICK x, c : x = OpenFailed(b, op.r) /\ c = backend'
    OBVIOUS
  <2>2. Leads(b, x, none)
    BY <1>2, <2>1, OpenFailedKeeps
  <2>3. Leads(b, x, {}) /\ c = Settled(x, s)
    BY <1>1, <1>5, <2>1, <2>2
  <2>4. BackendInv(c, {}, 0)
    BY <2>3, ThenSettled
  <2> QED BY <1>5, <2>1, <2>4
<1>6. CASE /\ file # NoFile /\ disk' = disk
           /\ backend' = Tell(AfterOpen(Ready(b, s, file.key, file.born, FALSE, Indexed(b, s)), h, op),
                              op.r, "ok", file.born)
  <2>1. PICK index, x, c : index = Indexed(b, s) /\ x = Ready(b, s, file.key, file.born, FALSE, index)
                           /\ c = backend'
    OBVIOUS
  <2>2. file.key \in Keys \cup {NoKey} /\ file.key # NoKey /\ file.born \in Nat
    BY <1>1, <1>2, <1>6, FileFacts
  <2>3. Leads(b, x, none)
    BY <1>1, <1>2, <2>1, <2>2, ReadyKeeps
  <2>4. c = Tell(x, op.r, "ok", file.born) /\ BackendInv(x, none, 0)
    BY <1>3, <1>6, <2>1, <2>3 DEF Leads
  <2>5. BackendInv(c, none, 0)
    BY <1>2, <2>2, <2>4, TellSame
  <2>6. disk' = disk
    BY <1>6
  <2>7. Typed(disk')
    BY <2>6
  <2> QED BY <1>1, <2>1, <2>5, <2>7
<1>7. CASE /\ disk' = [disk EXCEPT ![h] = NoFile]
           /\ backend' = OpenFailed(AfterOpen(Settled(Lost(b, s, op), s), h, op), op.r)
  <2>1. PICK x, y, c : x = Lost(b, s, op) /\ y = Settled(x, s) /\ c = backend'
    OBVIOUS
  <2>2. PICK index : index = Unindexed(b, s)
    OBVIOUS
  <2>3. x = With(b, "index", index)
    BY <2>1, <2>2 DEF Lost, With, Running
  <2>4. Leads(b, x, none)
    BY <1>2, <2>2, <2>3, IndexShrinks
  <2>5. Leads(b, x, {})
    BY <1>1, <2>4
  <2>6. BackendInv(y, {}, 0)
    BY <2>1, <2>5, ThenSettled
  <2>7. BackendInv(y, none, 0) /\ c = OpenFailed(y, op.r)
    BY <1>1, <1>3, <1>7, <2>1, <2>6
  <2>8. BackendInv(c, none, 0)
    BY <1>2, <2>7, OpenFailedKeeps DEF Leads
  <2>9. Typed(disk')
    BY <1>7, DiskKeeps
  <2> QED BY <1>1, <2>1, <2>8, <2>9
<1>8. \/ backend' = Tell(Used(b, s), op.r, "ok", e.born) /\ disk' = disk
      \/ backend' = Settled(OpenFailed(b, op.r), s) /\ disk' = disk
      \/ /\ file # NoFile /\ disk' = disk
         /\ backend' = Tell(AfterOpen(Ready(b, s, file.key, file.born, FALSE, Indexed(b, s)), h, op),
                            op.r, "ok", file.born)
      \/ /\ disk' = [disk EXCEPT ![h] = NoFile]
         /\ backend' = OpenFailed(AfterOpen(Settled(Lost(b, s, op), s), h, op), op.r)
  BY <1>1 DEF ExecuteOpen, Used, Ready
<1> QED BY <1>4, <1>5, <1>6, <1>7, <1>8

Answers == {"ok", "created", "failed"}

LEMMA TellAnswer ==
  ASSUME NEW b, NEW owed, BackendInv(b, owed, 0), NEW r, r \in Nat,
         NEW result, result \in Answers, NEW born, born \in Nat,
         NEW c, c = Tell(b, r, result, born)
  PROVE  Leads(b, c, owed) /\ c.entry = b.entry
<1>1. Tells(b, c)
  BY TellFacts DEF BackendInv, Answers
<1>2. Leads(b, c, owed)
  BY TellLeads DEF Answers
<1> QED BY <1>1, <1>2 DEF Tells, SameWork

\* To open or to create an entry: told first, if the caller was not told already.
ToldFirst(b, op, result, born) == IF op.told THEN b ELSE Tell(b, op.r, result, born)

LEMMA ToldFirstKeeps ==
  ASSUME NEW b, NEW owed, BackendInv(b, owed, 0), NEW op, op.r \in Nat,
         NEW result, result \in Answers, NEW born, born \in Nat,
         NEW x, x = ToldFirst(b, op, result, born)
  PROVE  Leads(b, x, owed) /\ x.entry = b.entry
<1>1. CASE op.told
  BY <1>1, LeadsItself DEF ToldFirst
<1>2. CASE ~op.told
  <2>1. x = Tell(b, op.r, result, born)
    BY <1>2 DEF ToldFirst
  <2>2. PICK r : r = op.r
    OBVIOUS
  <2>3. r \in Nat /\ x = Tell(b, r, result, born)
    BY <2>1, <2>2
  <2> QED BY <2>3, TellAnswer
<1> QED BY <1>1, <1>2

LEMMA OpenedKeeps ==
  ASSUME NEW b, NEW s, NEW op, Running(b, s, op), NEW key \in Keys \cup {NoKey},
         key = b.entry[s].key \/ key # NoKey, NEW born \in Nat,
         NEW result \in {"ok", "created"}, NEW c, c = Opened(b, s, op, key, born, result)
  PROVE  BackendInv(c, {}, 0)
<1>1. PICK x, index, none, told : /\ x = ToldFirst(b, op, result, born) /\ index = Indexed(b, s)
                                  /\ none = {} /\ told = op.told
  OBVIOUS
<1>2. /\ BackendInv(b, none, 0) /\ s \in Live(b.entry) /\ ~Opener(b.entry[s]) /\ op.r \in Nat
      /\ told \in BOOLEAN /\ index \subseteq Hashes
  BY <1>1, RunningFacts DEF Running
<1>3. c = Ready(x, s, key, born, told, index)
  BY <1>1 DEF Opened, ToldFirst, Ready
<1>4. Leads(b, x, none) /\ x.entry = b.entry
  <2>1. result \in Answers
    BY DEF Answers
  <2> QED BY <1>1, <1>2, <2>1, ToldFirstKeeps
<1>5. BackendInv(x, none, 0) /\ s \in Live(x.entry) /\ ~Opener(x.entry[s])
      /\ (key = x.entry[s].key \/ key # NoKey)
  BY <1>2, <1>4 DEF Leads
<1>6. Leads(x, c, none)
  BY <1>2, <1>3, <1>5, ReadyKeeps
<1> QED BY <1>1, <1>6 DEF Leads

LEMMA CreateRuns ==
  ASSUME NEW b, NEW s, NEW op, Running(b, s, op), b.entry[s].key # NoKey, Typed(disk),
         ExecuteCreate(b, s, op)
  PROVE  BackendInv(backend', {}, 0) /\ Typed(disk')
<1>1. PICK e, h, x, none, c : /\ e = b.entry[s] /\ h = e.hash /\ x = ToldFirst(b, op, "failed", 0)
                              /\ none = {} /\ c = backend'
  OBVIOUS
<1>2. /\ BackendInv(b, none, 0) /\ s \in Live(b.entry) /\ ~Opener(b.entry[s]) /\ op.r \in Nat
      /\ op.told \in BOOLEAN /\ e.key \in Keys
  BY <1>1, RunningFacts DEF Running
<1>3. CASE /\ c = Opened(b, s, op, e.key, op.r, "ok")
           /\ disk' = [disk EXCEPT ![h] = [key |-> e.key, born |-> op.r]]
  <2>1. PICK f, key, r : f = [key |-> e.key, born |-> op.r] /\ key = e.key /\ r = op.r
    OBVIOUS
  <2>2. f \in Files \cup {NoFile} /\ key \in Keys \cup {NoKey} /\ r \in Nat
    BY <1>2, <2>1 DEF Files
  <2>3. Typed(disk')
    BY <1>3, <2>1, <2>2, DiskKeeps
  <2>4. BackendInv(c, {}, 0)
    BY <1>1, <1>3, <2>1, <2>2, OpenedKeeps
  <2> QED BY <1>1, <2>3, <2>4
<1>4. ASSUME NEW state, state = (IF x.entry[s].state = "ready" THEN x.entry[s].state ELSE "failure"),
             c = Settled(Stated(x, s, state), s), disk' = disk
      PROVE  BackendInv(backend', {}, 0) /\ Typed(disk')
  <2>1. Leads(b, x, none) /\ x.entry = b.entry
    <3>1. PICK result, born : result = "failed" /\ born = 0
      OBVIOUS
    <3>2. result \in Answers /\ born \in Nat /\ x = ToldFirst(b, op, result, born)
      BY <1>1, <3>1 DEF Answers
    <3> QED BY <1>2, <3>2, ToldFirstKeeps
  <2>2. PICK y : y = Stated(x, s, state)
    OBVIOUS
  <2>3. BackendInv(x, none, 0) /\ s \in Live(x.entry) /\ ~Opener(x.entry[s])
        /\ state \in {"uninitialized", "ready", "failure"}
    BY <1>2, <1>4, <2>1 DEF Leads
  <2>4. Leads(x, y, none)
    BY <2>2, <2>3, StatedKeeps
  <2>5. Leads(b, y, {})
    BY <1>1, <2>1, <2>4, LeadsAgain
  <2>6. BackendInv(c, {}, 0)
    BY <1>4, <2>2, <2>5, ThenSettled
  <2> QED BY <1>1, <1>4, <2>6
<1>5. \/ /\ c = Opened(b, s, op, e.key, op.r, "ok")
         /\ disk' = [disk EXCEPT ![h] = [key |-> e.key, born |-> op.r]]
      \/ \E state : /\ state = (IF x.entry[s].state = "ready" THEN x.entry[s].state ELSE "failure")
                    /\ c = Settled(Stated(x, s, state), s) /\ disk' = disk
  BY <1>1 DEF ExecuteCreate, ToldFirst, Stated
<1> QED BY <1>3, <1>4, <1>5

LEMMA OpenOrCreateRuns ==
  ASSUME NEW b, NEW s, NEW op, Running(b, s, op), b.entry[s].key # NoKey, Typed(disk),
         ExecuteOpenOrCreate(b, s, op)
  PROVE  BackendInv(backend', {}, 0) /\ Typed(disk')
<1>1. PICK e, h, none, c, file : /\ e = b.entry[s] /\ h = e.hash /\ none = {} /\ c = backend'
                                 /\ file = disk[h]
  OBVIOUS
<1>2. /\ BackendInv(b, none, 0) /\ s \in Live(b.entry) /\ ~Opener(b.entry[s]) /\ op.r \in Nat
      /\ op.told \in BOOLEAN /\ e.key \in Keys /\ h \in Hashes /\ e.born \in Nat
  BY <1>1, RunningFacts DEF Running
<1>3. CASE c = Tell(Used(b, s), op.r, "ok", e.born) /\ disk' = disk
  <2>1. PICK x : x = Used(b, s)
    OBVIOUS
  <2>2. BackendInv(x, none, 0)
    BY <1>2, <2>1, UsedKeeps DEF Leads
  <2>3. BackendInv(c, none, 0)
    BY <1>2, <1>3, <2>1, <2>2, TellSame
  <2> QED BY <1>1, <1>3, <2>3
<1>4. CASE c = Settled(Tell(b, op.r, "failed", 0), s) /\ disk' = disk
  <2>1. PICK x : x = Tell(b, op.r, "failed", 0)
    OBVIOUS
  <2>2. Leads(b, x, none)
    BY <1>2, <2>1, TellSame
  <2>3. BackendInv(c, {}, 0)
    BY <1>1, <1>4, <2>1, <2>2, ThenSettled
  <2> QED BY <1>1, <1>4, <2>3
<1>5. CASE c = Opened(b, s, op, e.key, file.born, "ok") /\ file # NoFile /\ disk' = disk
  <2>1. file.born \in Nat /\ e.key \in Keys \cup {NoKey}
    BY <1>1, <1>2, <1>5, FileFacts
  <2>2. BackendInv(c, {}, 0)
    BY <1>1, <1>5, <2>1, OpenedKeeps
  <2> QED BY <1>1, <1>5, <2>2
<1>6. CASE /\ c = Opened(b, s, op, e.key, op.r, "created")
           /\ disk' = [disk EXCEPT ![h] = [key |-> e.key, born |-> op.r]]
  <2>1. PICK f, key, r : f = [key |-> e.key, born |-> op.r] /\ key = e.key /\ r = op.r
    OBVIOUS
  <2>2. f \in Files \cup {NoFile} /\ key \in Keys \cup {NoKey} /\ r \in Nat
    BY <1>2, <2>1 DEF Files
  <2>3. Typed(disk')
    BY <1>6, <2>1, <2>2, DiskKeeps
  <2>4. BackendInv(c, {}, 0)
    BY <1>1, <1>6, <2>1, <2>2, OpenedKeeps
  <2> QED BY <1>1, <2>3, <2>4
<1>7. \/ c = Tell(Used(b, s), op.r, "ok", e.born) /\ disk' = disk
      \/ c = Settled(Tell(b, op.r, "failed", 0), s) /\ disk' = disk
      \/ c = Opened(b, s, op, e.key, file.born, "ok") /\ file # NoFile /\ disk' = disk
      \/ /\ c = Opened(b, s, op, e.key, op.r, "created")
         /\ disk' = [disk EXCEPT ![h] = [key |-> e.key, born |-> op.r]]
  BY <1>1 DEF ExecuteOpenOrCreate, Used
<1> QED BY <1>3, <1>4, <1>5, <1>6, <1>7

LEMMA CloseRuns ==
  ASSUME NEW b, NEW s, NEW op, Running(b, s, op), Typed(disk), ExecuteClose(b, s)
  PROVE  BackendInv(backend', {}, 0) /\ Typed(disk')
<1>1. PICK x, c, none : x = Stated(b, s, "uninitialized") /\ c = backend' /\ none = {}
  OBVIOUS
<1>2. BackendInv(b, none, 0) /\ s \in Live(b.entry) /\ ~Opener(b.entry[s])
  BY <1>1 DEF Running
<1>3. Leads(b, x, none)
  BY <1>1, <1>2, StatedKeeps
<1>4. c = Settled(x, s) /\ disk' = disk
  BY <1>1 DEF ExecuteClose, Stated
<1>5. BackendInv(c, {}, 0)
  BY <1>1, <1>3, <1>4, ThenSettled
<1> QED BY <1>1, <1>4, <1>5

-------------------------------------------------------------------------------
(* The doom of an entry is over *)

LEMMA LeftoverKeeps ==
  ASSUME NEW b, NEW owed, BackendInv(b, owed, 0), NEW x, NEW c, c = With(b, "leftover", x)
  PROVE  BackendInv(c, owed, 0)
<1>1. Shaped(b) /\ "leftover" \in Fields
  BY DEF BackendInv, Fields
<1>2. Only(b, c, {"leftover"})
  BY <1>1, SetField
<1>3. /\ c.active = b.active /\ c.entry = b.entry /\ c.postDoom = b.postDoom
      /\ c.postOpenByHash = b.postOpenByHash /\ c.massDooms = b.massDooms
      /\ c.requests = b.requests /\ c.failedChecks = b.failedChecks /\ c.index = b.index
      /\ Shaped(c)
  BY <1>2 DEF Only, Fields
<1> QED BY <1>3 DEF BackendInv

WithoutWaited(e) == [e EXCEPT !.waited = FALSE]
ResetWaited(b, s) == [b EXCEPT !.entry[s].waited = FALSE]

LEMMA ResetWaitedFacts ==
  ASSUME NEW b, Shaped(b), NEW s, NEW c, c = ResetWaited(b, s)
  PROVE  Only(b, c, {"entry"}) /\ c.entry = At(b.entry, s, WithoutWaited(b.entry[s]))
<1>1. c = With(b, "entry", At(b.entry, s, WithoutWaited(b.entry[s])))
  BY DEF ResetWaited, With, At, WithoutWaited
<1> QED BY <1>1, SetEntry

LEMMA WithoutWaitedFacts ==
  ASSUME NEW e \in EntryObjects, NEW d, d = WithoutWaited(e)
  PROVE  /\ d \in EntryObjects /\ d.hash = e.hash /\ d.key = e.key /\ d.queue = e.queue
         /\ d.doomed = e.doomed /\ d.createPendingDoom = e.createPendingDoom /\ d.waited = FALSE
<1>1. d \in EntryObjects
  BY DEF WithoutWaited, EntryObjects
<1> QED BY <1>1 DEF WithoutWaited, EntryObjects

\* The entries after the doom that others wait for.
LEMMA DoomIsOver ==
  ASSUME NEW b, NEW owed, BackendInv(b, owed, 0), NEW s \in Live(b.entry),
         NEW e, e = b.entry[s], e.queue # <<>>, e.createPendingDoom = "none", ~Opener(e), e.waited,
         NEW h, h = e.hash, NEW d, d = WithoutWaited(Popped(e)),
         NEW next, next = At(b.entry, s, d)
  PROVE  DoomOver(b.entry, next, h)
<1>1. /\ b.entry \in Seq(EntryObjects \cup {Gone}) /\ Sound(e)
      /\ \A t \in Live(b.entry) : Sound(b.entry[t])
      /\ OneDoom(b.entry, b.massDooms, owed)
  BY DEF BackendInv, Parts, AllSound
<1>2. e \in EntryObjects
  BY <1>1, LiveIsTyped
<1>3. PICK p : p = Popped(e)
  OBVIOUS
<1>4. /\ p \in EntryObjects /\ p.hash = e.hash /\ p.key = e.key /\ p.queue = Tail(e.queue)
      /\ p.doomed = e.doomed /\ p.createPendingDoom = e.createPendingDoom
  BY <1>2, <1>3, PoppedFacts
<1>5. /\ d \in EntryObjects /\ d.hash = e.hash /\ d.key = e.key /\ d.queue = Tail(e.queue)
      /\ d.doomed = e.doomed /\ d.createPendingDoom = "none" /\ d.waited = FALSE
  BY <1>3, <1>4, WithoutWaitedFacts
<1>6. Sound(d) /\ ~Opener(d)
  <2>1. d.doomed \in BOOLEAN /\ d.waited \in BOOLEAN
    BY <1>5 DEF EntryObjects
  <2>2. d.key = e.key \/ d.key # NoKey
    BY <1>5
  <2>3. /\ e.doomed => d.doomed
        /\ Opener(e) /\ d.key = NoKey => d.doomed
        /\ d.waited => e.waited
        /\ d.waited => e.queue[1].op # "doom"
    BY <1>5
  <2> QED BY <1>1, <1>2, <1>5, <2>1, <2>2, <2>3, BegunIsSound
<1>7. Changed(b.entry, next, s, d)
  BY <1>1, <1>5, AtChanges
<1>8. Live(next) = Live(b.entry) /\ next \in Seq(EntryObjects \cup {Gone})
  BY <1>7 DEF Changed
<1>9. ASSUME NEW t \in Live(b.entry)
      PROVE  /\ next[t].hash = b.entry[t].hash /\ next[t].doomed = b.entry[t].doomed
             /\ next[t].createPendingDoom = b.entry[t].createPendingDoom
             /\ Opener(next[t]) <=> Opener(b.entry[t])
             /\ Sound(next[t])
             /\ next[t].waited <=> b.entry[t].waited /\ b.entry[t].hash # h
  <2>1. CASE t = s
    BY <1>5, <1>6, <1>7, <2>1 DEF Changed
  <2>2. CASE t # s
    <3>1. next[t] = b.entry[t]
      BY <1>7, <2>2 DEF Changed
    <3>2. b.entry[t].waited => b.entry[t].hash # h
      BY <1>1, <2>2 DEF OneDoom
    <3> QED BY <1>1, <3>1, <3>2
  <2> QED BY <2>1, <2>2
<1> QED BY <1>8, <1>9 DEF DoomOver

DoomDone(b, s, h, r, result) ==
  OnOperationComplete(ResetWaited(Tell(Pop(b, s), r, result, 0), s), "postDoom", h)

LEMMA WaitedDoomKeeps ==
  ASSUME NEW b, BackendInv(b, {}, 0), hashOf \in [Keys -> Hashes], NEW s \in Live(b.entry),
         NEW e, e = b.entry[s], e.queue # <<>>, e.createPendingDoom = "none", ~Opener(e), e.waited,
         NEW h, h = e.hash, NEW r, r \in Nat, NEW result, result \in Answers,
         NEW c, c = DoomDone(b, s, h, r, result)
  PROVE  Leads(b, c, {})
<1>1. PICK p, t, d, none, zero : /\ p = Pop(b, s) /\ t = Tell(p, r, result, zero)
                                 /\ d = ResetWaited(t, s) /\ none = {} /\ zero = 0
  OBVIOUS
<1>2. /\ BackendInv(b, none, zero) /\ Shaped(b) /\ RequestsOK(b.requests) /\ b.index \subseteq Hashes
      /\ b.entry \in Seq(EntryObjects \cup {Gone})
      /\ Parts(b.active, b.entry, b.postDoom, b.postOpenByHash, b.massDooms, none, zero)
  BY <1>1 DEF BackendInv, Parts, AllSound
<1>3. e \in EntryObjects /\ h \in Hashes
  <2>1. e \in EntryObjects
    BY <1>2, LiveIsTyped
  <2> QED BY <2>1 DEF EntryObjects
<1>4. Only(b, p, {"entry"}) /\ p.entry = At(b.entry, s, Popped(e))
  BY <1>1, <1>2, PopFacts
<1>5. Shaped(p) /\ p.requests = b.requests /\ RequestsOK(p.requests)
  BY <1>2, <1>4 DEF Only, Fields
<1>6. Tells(p, t)
  BY <1>1, <1>5, TellFacts DEF Answers
<1>7. Shaped(t) /\ t.entry = p.entry
  BY <1>6 DEF Tells, SameWork
<1>8. Only(t, d, {"entry"}) /\ d.entry = At(t.entry, s, WithoutWaited(t.entry[s]))
  BY <1>1, <1>7, ResetWaitedFacts
<1>9. PICK x, y : x = Popped(e) /\ y = WithoutWaited(x)
  OBVIOUS
<1>10. d.entry = At(b.entry, s, y)
  <2>1. p.entry = At(b.entry, s, x) /\ At(b.entry, s, x)[s] = x
        /\ At(At(b.entry, s, x), s, y) = At(b.entry, s, y)
    BY <1>2, <1>4, <1>9, AtAgain
  <2> QED BY <1>7, <1>8, <1>9, <2>1
<1>11. DoomOver(b.entry, d.entry, h)
  <2>1. y = WithoutWaited(Popped(e)) /\ BackendInv(b, none, 0)
    BY <1>1, <1>2, <1>9
  <2> QED BY <1>10, <2>1, DoomIsOver
<1>12. Beside(b, d)
  <2>1. /\ d.active = t.active /\ d.postDoom = t.postDoom /\ d.postOpenByHash = t.postOpenByHash
        /\ d.massDooms = t.massDooms /\ d.index = t.index /\ d.failedChecks = t.failedChecks
        /\ d.requests = t.requests /\ Shaped(d)
    BY <1>8 DEF Only, Fields
  <2>2. /\ p.active = b.active /\ p.postDoom = b.postDoom /\ p.postOpenByHash = b.postOpenByHash
        /\ p.massDooms = b.massDooms /\ p.index = b.index /\ p.failedChecks = b.failedChecks
    BY <1>4 DEF Only, Fields
  <2>3. SameAsk(b.requests, t.requests) /\ RequestsOK(t.requests)
    BY <1>5, <1>6 DEF Tells
  <2> QED BY <1>2, <1>6, <2>1, <2>2, <2>3 DEF Beside, Tells, SameWork
<1>13. b.postDoom[h] # NoQueue
  BY <1>2 DEF Parts, DoomsWaited
<1>14. PICK left : left = none \ {h}
  OBVIOUS
<1>15. c = OnOperationComplete(d, "postDoom", h)
  BY <1>1 DEF DoomDone
<1>16. BackendInv(c, left, 0) /\ SameAsk(b.requests, c.requests)
       /\ Live(b.entry) \subseteq Live(c.entry)
  <2>1. (\E t1 \in Live(b.entry) : b.entry[t1].waited /\ b.entry[t1].hash = h) \/ h \in none
    OBVIOUS
  <2>2. BackendInv(b, none, 0)
    BY <1>1, <1>2
  <2> QED BY ONLY <1>3, <1>11, <1>12, <1>13, <1>14, <1>15, <2>1, <2>2,
                  hashOf \in [Keys -> Hashes], OverKeeps
<1>17. left = {}
  BY <1>1, <1>14
<1> QED BY <1>16, <1>17 DEF Leads

LEMMA DoomEnds ==
  ASSUME NEW x, BackendInv(x, {}, 0), NEW s \in Live(x.entry), NEW y, y = Settled(x, s),
         NEW c, c = y \/ c = With(y, "leftover", TRUE)
  PROVE  BackendInv(c, {}, 0)
<1>1. PICK none : none = {}
  OBVIOUS
<1>2. BackendInv(y, none, 0)
  BY <1>1, SettledKeeps
<1>3. CASE c = y
  BY <1>1, <1>2, <1>3
<1>4. CASE c = With(y, "leftover", TRUE)
  <2>1. PICK true : true = TRUE
    OBVIOUS
  <2>2. c = With(y, "leftover", true)
    BY <1>4, <2>1
  <2>3. BackendInv(c, none, 0)
    BY <1>2, <2>2, LeftoverKeeps
  <2> QED BY <1>1, <2>3
<1> QED BY <1>3, <1>4

DoneWith(b, s, h, waited, r, result) ==
  Settled(IF waited THEN OnOperationComplete(ResetWaited(Tell(b, r, result, 0), s), "postDoom", h)
          ELSE Tell(b, r, result, 0), s)

LEMMA ExecuteDoomIs ==
  ASSUME NEW b, NEW s, NEW op, ExecuteDoom(b, s, op)
  PROVE  LET e == b.entry[s]
         IN \/ /\ backend' = DoneWith(b, s, e.hash, e.waited, op.r, "ok")
               /\ disk' = [disk EXCEPT ![e.hash] = NoFile]
            \/ /\ backend' = With(DoneWith(b, s, e.hash, e.waited, op.r, "failed"), "leftover", TRUE)
               /\ disk' = disk
BY DEF ExecuteDoom, DoneWith, ResetWaited, With

LEMMA DoomRuns ==
  ASSUME BackendInv(backend, {}, 0), hashOf \in [Keys -> Hashes], Typed(disk),
         NEW s \in Live(backend.entry), NEW e, e = backend.entry[s], e.queue # <<>>,
         e.createPendingDoom = "none", NEW op, op = e.queue[1], op.op = "doom",
         NEW b, b = Pop(backend, s), ExecuteDoom(b, s, op)
  PROVE  BackendInv(backend', {}, 0) /\ Typed(disk')
<1>1. PICK h, r, c, none : h = e.hash /\ r = op.r /\ c = backend' /\ none = {}
  OBVIOUS
<1>2. /\ backend.entry \in Seq(EntryObjects \cup {Gone}) /\ Shaped(backend)
      /\ BackendInv(backend, none, 0) /\ s \in DOMAIN backend.entry
  BY <1>1 DEF BackendInv, Parts, AllSound, Live
<1>3. e \in EntryObjects /\ op \in EntryOperations /\ r \in Nat
  <2>1. e \in EntryObjects
    BY <1>2, LiveIsTyped
  <2>2. op \in EntryOperations
    BY <2>1, PoppedFacts
  <2> QED BY <1>1, <2>1, <2>2 DEF EntryOperations
<1>4. ~Opener(e)
  BY DEF Opener
<1>5. b.entry[s] = Popped(e)
  <2>1. b.entry = At(backend.entry, s, Popped(e))
    BY <1>2, PopFacts
  <2> QED BY <1>2, <2>1 DEF At
<1>6. b.entry[s].hash = h /\ b.entry[s].waited = e.waited
  BY <1>1, <1>3, <1>5, PoppedFacts
<1>7. ASSUME NEW result, result \in Answers, NEW x,
             IF e.waited THEN x = DoomDone(backend, s, h, r, result)
                         ELSE x = Tell(b, r, result, 0)
      PROVE  BackendInv(x, {}, 0) /\ s \in Live(x.entry)
  <2>1. CASE e.waited
    <3>1. x = DoomDone(backend, s, h, r, result)
      BY <1>7, <2>1
    <3>2. Leads(backend, x, {})
      BY <1>1, <1>3, <1>4, <1>7, <2>1, <3>1, WaitedDoomKeeps
    <3> QED BY <3>2 DEF Leads
  <2>2. CASE ~e.waited
    <3>1. PICK zero : zero = 0
      OBVIOUS
    <3>2. x = Tell(b, r, result, zero) /\ zero \in Nat
      BY <1>7, <2>2, <3>1
    <3>3. Leads(backend, b, none)
      BY <1>2, <1>4, <2>2, PopKeeps
    <3>4. BackendInv(b, none, 0) /\ s \in Live(b.entry)
      BY <3>3 DEF Leads
    <3>5. Leads(b, x, none)
      BY ONLY <1>3, <1>7, <3>2, <3>4, TellAnswer
    <3> QED BY <1>1, <3>4, <3>5 DEF Leads
  <2> QED BY <2>1, <2>2
<1>8. ASSUME NEW result, NEW x, x = (IF e.waited THEN DoomDone(backend, s, h, r, result)
                                     ELSE Tell(b, r, result, 0)),
             result \in Answers, NEW y, y = Settled(x, s), c = y \/ c = With(y, "leftover", TRUE)
      PROVE  BackendInv(c, {}, 0)
  <2>1. IF e.waited THEN x = DoomDone(backend, s, h, r, result) ELSE x = Tell(b, r, result, 0)
    BY <1>8
  <2>2. BackendInv(x, {}, 0) /\ s \in Live(x.entry)
    BY <1>7, <1>8, <2>1
  <2> QED BY <1>8, <2>2, DoomEnds
<1>9. \/ /\ c = Settled(IF e.waited THEN DoomDone(backend, s, h, r, "ok")
                        ELSE Tell(b, r, "ok", 0), s)
         /\ disk' = [disk EXCEPT ![h] = NoFile]
      \/ /\ c = With(Settled(IF e.waited THEN DoomDone(backend, s, h, r, "failed")
                             ELSE Tell(b, r, "failed", 0), s), "leftover", TRUE)
         /\ disk' = disk
  <2>1. \/ /\ c = DoneWith(b, s, h, e.waited, r, "ok")
           /\ disk' = [disk EXCEPT ![h] = NoFile]
        \/ /\ c = With(DoneWith(b, s, h, e.waited, r, "failed"), "leftover", TRUE)
           /\ disk' = disk
    BY <1>1, <1>6, ExecuteDoomIs
  <2>2. \A result : DoneWith(b, s, h, e.waited, r, result) =
                     Settled(IF e.waited THEN DoomDone(backend, s, h, r, result)
                             ELSE Tell(b, r, result, 0), s)
    BY DEF DoneWith, DoomDone
  <2> QED BY <2>1, <2>2
<1>10. Typed(disk')
  <2>1. CASE disk' = [disk EXCEPT ![h] = NoFile]
    BY <2>1, DiskKeeps
  <2>2. CASE disk' = disk
    BY <2>2
  <2> QED BY <1>9, <2>1, <2>2
<1>11. "ok" \in Answers /\ "failed" \in Answers
  BY DEF Answers
<1>12. BackendInv(c, {}, 0)
  <2>1. PICK x, y, u, v :
          /\ x = (IF e.waited THEN DoomDone(backend, s, h, r, "ok") ELSE Tell(b, r, "ok", 0))
          /\ y = (IF e.waited THEN DoomDone(backend, s, h, r, "failed") ELSE Tell(b, r, "failed", 0))
          /\ u = Settled(x, s) /\ v = Settled(y, s)
    OBVIOUS
  <2>2. c = u \/ c = With(v, "leftover", TRUE)
    BY <1>9, <2>1
  <2>3. CASE c = u
    BY <1>8, <1>11, <2>1, <2>3
  <2>4. CASE c = With(v, "leftover", TRUE)
    BY <1>8, <1>11, <2>1, <2>4
  <2> QED BY <2>2, <2>3, <2>4
<1> QED BY <1>1, <1>10, <1>12

-------------------------------------------------------------------------------
(* An open by hash is over *)

LEMMA SameRecord ==
  ASSUME NEW x, Shaped(x), NEW y, Shaped(y), \A f \in Fields : x[f] = y[f]
  PROVE  x = y
BY DEF Shaped

\* The entry that was opened, or was not, when what waited for it is still to be run.
LEMMA OpenerEnds ==
  ASSUME NEW b, BackendInv(b, {}, 0), NEW s \in Live(b.entry), NEW e, e = b.entry[s], Opener(e),
         NEW h, h = e.hash, NEW y \in EntryObjects, Sound(y), ~Opener(y), y.hash = h,
         y.waited = e.waited, y.createPendingDoom = "none", e.doomed => y.doomed,
         NEW k, Only(b, k, {"entry", "active", "index"}), k.entry = At(b.entry, s, y),
         k.index \subseteq Hashes,
         k.active = IF y.doomed /\ ~e.doomed THEN OffMap(b.active, h, s) ELSE b.active,
         NEW u, u = At(k.postOpenByHash, h, NoQueue), NEW m, m = With(k, "postOpenByHash", u)
  PROVE  /\ BackendInv(m, {}, 0) /\ Shaped(k) /\ h \in Hashes
         /\ k.requests = b.requests /\ s \in Live(k.entry)
         /\ k.postOpenByHash[h] # NoQueue /\ Queues(k.postOpenByHash, k.requests)
         /\ OnlyRequests(k.postOpenByHash)
<1>1. PICK v, f, t, w, d, next, map, none :
        /\ v = b.active /\ f = b.entry /\ t = b.postDoom /\ w = b.postOpenByHash
        /\ d = b.massDooms /\ next = k.entry /\ map = k.active /\ none = {}
  OBVIOUS
<1>2. /\ f \in Seq(EntryObjects \cup {Gone}) /\ Parts(v, f, t, w, d, none, 0) /\ OnMap(v, f)
      /\ OpensUnderWay(f, w) /\ v \in [Hashes -> Nat]
      /\ w \in [Hashes -> Seq(Closures) \cup {NoQueue}] /\ Queues(w, b.requests) /\ OnlyRequests(w)
  BY <1>1 DEF BackendInv, Parts, AllSound, Queues, OnMap
<1>3. e \in EntryObjects /\ h \in Hashes /\ s # 0
  <2>1. e \in EntryObjects /\ s # 0
    BY <1>1, <1>2, LiveIsTyped
  <2> QED BY <2>1 DEF EntryObjects
<1>4. w[h] # NoQueue
  BY <1>1, <1>2 DEF OpensUnderWay
<1>5. /\ k.postDoom = t /\ k.postOpenByHash = w /\ k.massDooms = d /\ k.requests = b.requests
      /\ k.failedChecks = b.failedChecks /\ Shaped(k)
  BY <1>1 DEF Only, Fields
<1>6. Changed(f, next, s, y)
  BY <1>1, <1>2, AtChanges
<1>7. map \in [Hashes -> Nat]
  BY <1>1, <1>2, <1>3 DEF OffMap
<1>8. \A g \in Hashes : map[g] = IF v[g] = s /\ (y.doomed /\ ~e.doomed) THEN 0 ELSE v[g]
  <2>1. \A g \in Hashes : v[g] = s => g = h
    BY <1>1, <1>2, <1>3 DEF OnMap
  <2>2. CASE y.doomed /\ ~e.doomed
    <3>1. map = OffMap(v, h, s)
      BY <1>1, <2>2
    <3>2. \A g \in Hashes : map[g] = IF g = h /\ v[h] = s THEN 0 ELSE v[g]
      BY <1>2, <3>1 DEF OffMap
    <3> QED BY <2>1, <2>2, <3>2
  <2>3. CASE ~(y.doomed /\ ~e.doomed)
    BY <1>1, <2>3
  <2> QED BY <2>2, <2>3
<1>9. Parts(map, next, t, u, d, none, 0)
  <2>1. /\ s \in Live(f) /\ Opener(f[s]) /\ h = f[s].hash /\ y.waited = f[s].waited
        /\ f[s].doomed => y.doomed
        /\ \A g \in Hashes : map[g] = IF v[g] = s /\ (y.doomed /\ ~f[s].doomed) THEN 0 ELSE v[g]
    BY <1>1, <1>8
  <2>2. /\ Sound(y) /\ y.hash = h /\ y.createPendingDoom = "none" /\ ~Opener(y)
        /\ u = At(w, h, NoQueue)
    BY <1>5
  <2> QED BY ONLY <1>2, <1>6, <1>7, <2>1, <2>2, OverOpenParts
<1>10. "postOpenByHash" \in Fields
  BY DEF Fields
<1>11. Only(k, m, {"postOpenByHash"}) /\ m.postOpenByHash = u
  <2>1. PICK q : q = "postOpenByHash"
    OBVIOUS
  <2>2. q \in Fields /\ m = With(k, q, u) /\ Shaped(k)
    BY <1>5, <1>10, <2>1
  <2>3. Only(k, m, {q}) /\ m[q] = u
    BY ONLY <2>2, SetField
  <2> QED BY <2>1, <2>3
<1>12. /\ m.active = map /\ m.entry = next /\ m.postDoom = t /\ m.massDooms = d
       /\ m.requests = b.requests /\ m.failedChecks = b.failedChecks /\ m.index = k.index
       /\ Shaped(m)
  BY <1>1, <1>5, <1>11 DEF Only, Fields
<1>13. Queues(u, b.requests) /\ OnlyRequests(u)
  BY <1>2, <1>3, <1>5, QueuesReset
<1>14. BackendInv(m, none, 0)
  BY <1>1, <1>9, <1>11, <1>12, <1>13 DEF BackendInv
<1>15. s \in Live(k.entry)
  BY <1>1, <1>6 DEF Changed
<1> QED BY <1>1, <1>2, <1>3, <1>4, <1>5, <1>14, <1>15

\* It may end before what waited for it is run.
LEMMA EndsAside ==
  ASSUME NEW k, Shaped(k), NEW s, NEW u, NEW m, m = With(k, "postOpenByHash", u),
         NEW d, d = Settled(k, s), NEW n, n = Settled(m, s)
  PROVE  n = With(d, "postOpenByHash", u) /\ Shaped(d) /\ d.requests = k.requests
         /\ d.postOpenByHash = k.postOpenByHash
<1>1. PICK q : q = "postOpenByHash"
  OBVIOUS
<1>2. q \in Fields /\ m = With(k, q, u)
  BY <1>1 DEF Fields
<1>3. Only(k, m, {q}) /\ m[q] = u
  BY ONLY <1>2, Shaped(k), SetField
<1>4. m.entry = k.entry /\ m.active = k.active /\ Shaped(m)
  BY <1>1, <1>3 DEF Only, Fields
<1>5. InUse(m, s) <=> InUse(k, s)
  BY <1>4 DEF InUse
<1>6. CASE InUse(k, s)
  <2>1. n = m /\ d = k
    BY <1>5, <1>6, SettledIs
  <2> QED BY <2>1
<1>7. CASE ~InUse(k, s)
  <2>1. PICK h : h = k.entry[s].hash
    OBVIOUS
  <2>2. d = Ended(k, s, h) /\ n = Ended(m, s, h)
    BY <1>4, <1>5, <1>7, <2>1, SettledIs
  <2>3. /\ Only(k, d, {"entry", "active"}) /\ d.entry = At(k.entry, s, Gone)
        /\ d.active = OffMap(k.active, h, s)
    BY <2>2, EndedFacts
  <2>4. /\ Only(m, n, {"entry", "active"}) /\ n.entry = At(k.entry, s, Gone)
        /\ n.active = OffMap(k.active, h, s)
    BY <1>4, <2>2, EndedFacts
  <2>5. PICK x : x = With(d, q, u)
    OBVIOUS
  <2>6. Shaped(d) /\ Shaped(n)
    BY <2>3, <2>4 DEF Only
  <2>7. Only(d, x, {q}) /\ x[q] = u
    BY ONLY <1>2, <2>5, <2>6, SetField
  <2>8. n = x
    <3>1. ASSUME NEW f \in Fields
          PROVE  n[f] = x[f]
      <4>1. CASE f = q
        BY <1>1, <1>3, <2>4, <2>7, <4>1 DEF Only
      <4>2. CASE f = "entry"
        BY <1>1, <2>3, <2>4, <2>7, <4>2 DEF Only
      <4>3. CASE f = "active"
        BY <1>1, <2>3, <2>4, <2>7, <4>3 DEF Only
      <4>4. CASE f \notin {q, "entry", "active"}
        BY <1>3, <2>3, <2>4, <2>7, <4>4 DEF Only
      <4> QED BY <4>1, <4>2, <4>3, <4>4
    <3>2. Shaped(x)
      BY <2>7 DEF Only
    <3> QED BY <2>6, <3>1, <3>2, SameRecord
  <2>9. d.requests = k.requests /\ d.postOpenByHash = k.postOpenByHash
    BY <2>3 DEF Only, Fields
  <2> QED BY <1>1, <2>5, <2>6, <2>8, <2>9
<1> QED BY <1>6, <1>7

LostOf(b, s, h, index) ==
  [b EXCEPT !.index = index, !.active[h] = IF @ = s THEN 0 ELSE @,
            !.entry[s].doomed = TRUE, !.entry[s].state = "failure"]
MadeLost(e) == [e EXCEPT !.doomed = TRUE, !.state = "failure"]

LEMMA LostFacts ==
  ASSUME NEW b, Shaped(b), NEW s, s \in DOMAIN b.entry, NEW h, NEW index, NEW c,
         c = LostOf(b, s, h, index)
  PROVE  /\ Only(b, c, {"entry", "active", "index"}) /\ c.index = index
         /\ c.active = OffMap(b.active, h, s)
         /\ c.entry = At(b.entry, s, MadeLost(b.entry[s]))
<1>1. DOMAIN b = Fields
  BY DEF Shaped
<1>2. DOMAIN c = Fields /\ c = [f \in DOMAIN c |-> c[f]]
  BY <1>1 DEF LostOf
<1>3. c.index = index
  BY <1>1 DEF LostOf, Fields
<1>4. c.active = OffMap(b.active, h, s)
  BY <1>1 DEF LostOf, OffMap, Fields
<1>5. c.entry = At(b.entry, s, MadeLost(b.entry[s]))
  BY <1>1 DEF LostOf, At, Fields, MadeLost
<1>6. \A f \in Fields \ {"entry", "active", "index"} : c[f] = b[f]
  BY <1>1 DEF LostOf
<1> QED BY <1>2, <1>3, <1>4, <1>5, <1>6 DEF Only, Shaped

LEMMA MadeLostFacts ==
  ASSUME NEW e \in EntryObjects, NEW d, d = MadeLost(e)
  PROVE  /\ d \in EntryObjects /\ d.queue = e.queue /\ d.hash = e.hash /\ d.doomed = TRUE
         /\ d.waited = e.waited /\ d.createPendingDoom = e.createPendingDoom /\ d.key = e.key
<1>1. PICK x : x = WithDoomed(e)
  OBVIOUS
<1>2. x \in EntryObjects
  BY <1>1 DEF WithDoomed, EntryObjects
<1>3. d = WithState(x, "failure")
  BY <1>1 DEF MadeLost, WithDoomed, WithState, EntryObjects
<1>4. d \in EntryObjects
  BY <1>2, <1>3 DEF WithState, EntryObjects
<1> QED BY <1>4 DEF MadeLost, EntryObjects

OpenedByHash(b, s, h, file, r, index) ==
  Tell(OnOperationComplete(Ready(b, s, file.key, file.born, FALSE, index), "postOpenByHash", h),
       r, "ok", file.born)
NotOpenedByHash(b, s, h, r, index) ==
  OpenFailed(OnOperationComplete(Settled(LostOf(b, s, h, index), s), "postOpenByHash", h), r)

LEMMA OpenerRunIs ==
  ASSUME NEW b, NEW s, NEW op, op.op = "openFromHash", b.entry[s].state = "uninitialized",
         NEW h, h = b.entry[s].hash, NEW file, file = disk[h], ExecuteOpen(b, s, op)
  PROVE  \/ /\ file # NoFile /\ disk' = disk
            /\ backend' = OpenedByHash(b, s, h, file, op.r, Indexed(b, s))
         \/ /\ disk' = [disk EXCEPT ![h] = NoFile]
            /\ backend' = NotOpenedByHash(b, s, h, op.r, Unindexed(b, s))
<1>1. AfterOpen(Settled(Lost(b, s, op), s), h, op) =
        OnOperationComplete(Settled(LostOf(b, s, h, Unindexed(b, s)), s), "postOpenByHash", h)
  BY DEF AfterOpen, Lost, LostOf
<1>2. \A x : AfterOpen(x, h, op) = OnOperationComplete(x, "postOpenByHash", h)
  BY DEF AfterOpen
<1> QED BY <1>1, <1>2 DEF ExecuteOpen, OpenedByHash, NotOpenedByHash, Ready

\* The entry that takes an open by hash from its queue.
LEMMA OpenerFacts ==
  ASSUME NEW b, BackendInv(b, {}, 0), NEW s \in Live(b.entry), NEW e, e = b.entry[s], Opener(e),
         NEW p, p = Pop(b, s)
  PROVE  /\ e \in EntryObjects /\ Sound(e) /\ e.queue # <<>> /\ e.createPendingDoom = "none"
         /\ e.state = "uninitialized" /\ e.hash \in Hashes /\ e.queue[1] \in EntryOperations
         /\ e.queue[1].op # "doom"
         /\ Shaped(p) /\ Only(b, p, {"entry"}) /\ s \in DOMAIN p.entry
         /\ p.entry[s] = Popped(e) /\ p.entry = At(b.entry, s, Popped(e))
         /\ Popped(e) \in EntryObjects
         /\ Indexed(p, s) \subseteq Hashes /\ Unindexed(p, s) \subseteq Hashes
<1>1. b.entry \in Seq(EntryObjects \cup {Gone}) /\ Sound(e) /\ Shaped(b) /\ s \in DOMAIN b.entry
      /\ b.index \subseteq Hashes
  BY DEF BackendInv, Parts, AllSound, Live
<1>2. e \in EntryObjects
  BY <1>1, LiveIsTyped
<1>3. /\ e.queue # <<>> /\ e.createPendingDoom = "none" /\ e.state = "uninitialized"
      /\ e.queue[1].op # "doom"
  BY <1>1 DEF Sound, Opener
<1>4. Only(b, p, {"entry"}) /\ p.entry = At(b.entry, s, Popped(e))
  BY <1>1, PopFacts
<1>5. s \in DOMAIN p.entry /\ p.entry[s] = Popped(e) /\ Shaped(p) /\ p.index = b.index
  BY <1>1, <1>4 DEF At, Only, Fields
<1>6. /\ e.hash \in Hashes /\ e.queue[1] \in EntryOperations /\ Popped(e) \in EntryObjects
      /\ Popped(e).hash = e.hash
  BY <1>2, <1>3, PoppedFacts DEF EntryObjects
<1>7. Indexed(p, s) \subseteq Hashes /\ Unindexed(p, s) \subseteq Hashes
  BY <1>1, <1>5, <1>6 DEF Indexed, Unindexed
<1> QED BY <1>1, <1>2, <1>3, <1>4, <1>5, <1>6, <1>7

LEMMA OpenedByHashKeeps ==
  ASSUME NEW b, BackendInv(b, {}, 0), hashOf \in [Keys -> Hashes], NEW s \in Live(b.entry),
         NEW e, e = b.entry[s], Opener(e), NEW h, h = e.hash, NEW p, p = Pop(b, s),
         NEW file, file.key \in Keys, file.key # NoKey, file.born \in Nat, NEW r, r \in Nat,
         NEW index, index \subseteq Hashes, NEW c, c = OpenedByHash(p, s, h, file, r, index)
  PROVE  BackendInv(c, {}, 0)
<1>1. PICK key, born, told, x, y, k, u, m, d, none, answer :
        /\ key = file.key /\ born = file.born /\ told = FALSE /\ x = Popped(e)
        /\ y = MadeReady(x, key, born, told) /\ k = Ready(p, s, key, born, told, index)
        /\ u = At(k.postOpenByHash, h, NoQueue) /\ m = With(k, "postOpenByHash", u)
        /\ d = OnOperationComplete(k, "postOpenByHash", h) /\ none = {} /\ answer = "ok"
  OBVIOUS
<1>2. /\ e \in EntryObjects /\ Sound(e) /\ e.queue # <<>> /\ e.createPendingDoom = "none"
      /\ Shaped(p) /\ Only(b, p, {"entry"}) /\ s \in DOMAIN p.entry /\ e.queue[1].op # "doom"
      /\ p.entry[s] = x /\ p.entry = At(b.entry, s, x) /\ x \in EntryObjects
  BY <1>1, OpenerFacts
<1>3. /\ x.hash = h /\ x.queue = Tail(e.queue) /\ x.doomed = e.doomed /\ x.waited = e.waited
      /\ x.createPendingDoom = "none"
  BY <1>1, <1>2, PoppedFacts
<1>4. key \in Keys \cup {NoKey} /\ key # NoKey /\ born \in Nat /\ told \in BOOLEAN
  BY <1>1
<1>5. /\ y \in EntryObjects /\ y.hash = h /\ y.queue = Tail(e.queue) /\ y.doomed = e.doomed
      /\ y.waited = e.waited /\ y.createPendingDoom = "none" /\ y.key = key
  BY <1>1, <1>2, <1>3, <1>4, MadeReadyFacts
<1>6. Sound(y) /\ ~Opener(y)
  <2>1. d = d /\ y.doomed \in BOOLEAN /\ y.waited \in BOOLEAN
    BY <1>5 DEF EntryObjects
  <2>2. y.key = e.key \/ y.key # NoKey
    BY <1>4, <1>5
  <2>3. /\ e.doomed => y.doomed
        /\ Opener(e) /\ y.key = NoKey => y.doomed
        /\ y.waited => e.waited
        /\ y.waited => e.queue[1].op # "doom"
    BY <1>2, <1>4, <1>5
  <2> QED BY <1>2, <1>5, <2>1, <2>2, <2>3, BegunIsSound
<1>7. Only(p, k, {"entry", "index"}) /\ k.index = index /\ k.entry = At(p.entry, s, y)
  BY <1>1, <1>2, ReadyFacts
<1>8. k.entry = At(b.entry, s, y)
  <2>1. b.entry \in Seq(EntryObjects \cup {Gone})
    BY DEF BackendInv, Parts, AllSound
  <2> QED BY <1>2, <1>7, <2>1, AtAgain
<1>9. Only(b, k, {"entry", "active", "index"}) /\ k.active = b.active
  BY <1>2, <1>7 DEF Only, Fields
<1>10. /\ BackendInv(m, {}, 0) /\ Shaped(k) /\ h \in Hashes
       /\ k.requests = b.requests /\ s \in Live(k.entry)
       /\ k.postOpenByHash[h] # NoQueue /\ Queues(k.postOpenByHash, k.requests)
       /\ OnlyRequests(k.postOpenByHash)
  <2>1. /\ y.waited = e.waited /\ e.doomed => y.doomed
    BY <1>5
  <2>2. k.active = IF y.doomed /\ ~e.doomed THEN OffMap(b.active, h, s) ELSE b.active
    BY <1>5, <1>9
  <2>3. k.index \subseteq Hashes
    BY <1>7
  <2> QED BY <1>1, <1>5, <1>6, <1>8, <1>9, <2>1, <2>2, <2>3, OpenerEnds
<1>11. Leads(k, d, {})
  <2>1. m = With(k, "postOpenByHash", u) /\ u = At(k.postOpenByHash, h, NoQueue)
        /\ d = OnOperationComplete(k, "postOpenByHash", h)
    BY <1>1
  <2> QED BY ONLY <1>10, <2>1, hashOf \in [Keys -> Hashes], OpenOverKeeps
<1>12. BackendInv(d, none, 0)
  BY <1>1, <1>11 DEF Leads
<1>13. c = Tell(d, r, answer, born) /\ answer \in Answers
  BY <1>1 DEF OpenedByHash, Answers
<1>14. r \in Nat /\ born \in Nat
  BY <1>4
<1>15. Leads(d, c, none)
  BY ONLY <1>12, <1>13, <1>14, TellAnswer
<1> QED BY <1>1, <1>15 DEF Leads

LEMMA NotOpenedByHashKeeps ==
  ASSUME NEW b, BackendInv(b, {}, 0), hashOf \in [Keys -> Hashes], NEW s \in Live(b.entry),
         NEW e, e = b.entry[s], Opener(e), NEW h, h = e.hash, NEW p, p = Pop(b, s),
         NEW r, r \in Nat,
         NEW index, index \subseteq Hashes, NEW c, c = NotOpenedByHash(p, s, h, r, index)
  PROVE  BackendInv(c, {}, 0)
<1>1. PICK x, y, k, u, m, q, n, d, none :
        /\ x = Popped(e) /\ y = MadeLost(x) /\ k = LostOf(p, s, h, index)
        /\ u = At(k.postOpenByHash, h, NoQueue) /\ m = With(k, "postOpenByHash", u)
        /\ q = Settled(k, s) /\ n = Settled(m, s)
        /\ d = OnOperationComplete(q, "postOpenByHash", h) /\ none = {}
  OBVIOUS
<1>2. /\ e \in EntryObjects /\ Sound(e) /\ e.queue # <<>> /\ e.createPendingDoom = "none"
      /\ Shaped(p) /\ Only(b, p, {"entry"}) /\ s \in DOMAIN p.entry /\ e.queue[1].op # "doom"
      /\ p.entry[s] = x /\ p.entry = At(b.entry, s, x) /\ x \in EntryObjects
  BY <1>1, OpenerFacts
<1>3. /\ x.hash = h /\ x.queue = Tail(e.queue) /\ x.doomed = e.doomed /\ x.waited = e.waited
      /\ x.createPendingDoom = "none" /\ x.key = e.key
  BY <1>1, <1>2, PoppedFacts
<1>5. /\ y \in EntryObjects /\ y.hash = h /\ y.queue = Tail(e.queue) /\ y.doomed = TRUE
      /\ y.waited = e.waited /\ y.createPendingDoom = "none" /\ y.key = e.key
  BY <1>1, <1>2, <1>3, MadeLostFacts
<1>6. Sound(y) /\ ~Opener(y)
  <2>1. y.doomed \in BOOLEAN /\ y.waited \in BOOLEAN
    BY <1>5 DEF EntryObjects
  <2>2. y.key = e.key \/ y.key # NoKey
    BY <1>5
  <2>3. /\ e.doomed => y.doomed
        /\ Opener(e) /\ y.key = NoKey => y.doomed
        /\ y.waited => e.waited
        /\ y.waited => e.queue[1].op # "doom"
    BY <1>2, <1>5
  <2> QED BY <1>2, <1>5, <2>1, <2>2, <2>3, BegunIsSound
<1>7. /\ Only(p, k, {"entry", "active", "index"}) /\ k.index = index
      /\ k.entry = At(p.entry, s, y) /\ k.active = OffMap(p.active, h, s)
  BY <1>1, <1>2, LostFacts
<1>8. k.entry = At(b.entry, s, y)
  <2>1. b.entry \in Seq(EntryObjects \cup {Gone})
    BY DEF BackendInv, Parts, AllSound
  <2> QED BY <1>2, <1>7, <2>1, AtAgain
<1>9. Only(b, k, {"entry", "active", "index"}) /\ k.active = OffMap(b.active, h, s)
  BY <1>2, <1>7 DEF Only, Fields
<1>10. k.active = IF y.doomed /\ ~e.doomed THEN OffMap(b.active, h, s) ELSE b.active
  <2>1. CASE e.doomed
    <3>1. OnMap(b.active, b.entry) /\ h \in Hashes /\ b.active \in [Hashes -> Nat] /\ s # 0
      <4>1. b.entry \in Seq(EntryObjects \cup {Gone}) /\ OnMap(b.active, b.entry)
        BY DEF BackendInv, Parts, AllSound
      <4>2. s # 0
        BY <4>1, LiveIsTyped
      <4> QED BY <1>2, <4>1, <4>2 DEF OnMap, EntryObjects
    <3>2. b.active[h] # s
      BY <2>1, <3>1 DEF OnMap
    <3>3. OffMap(b.active, h, s) = b.active
      BY <3>1, <3>2 DEF OffMap
    <3> QED BY <1>9, <2>1, <3>3
  <2>2. CASE ~e.doomed
    BY <1>5, <1>9, <2>2
  <2> QED BY <2>1, <2>2
<1>11. /\ BackendInv(m, {}, 0) /\ Shaped(k) /\ h \in Hashes
       /\ k.requests = b.requests /\ s \in Live(k.entry)
       /\ k.postOpenByHash[h] # NoQueue /\ Queues(k.postOpenByHash, k.requests)
       /\ OnlyRequests(k.postOpenByHash)
  <2>1. /\ y.waited = e.waited /\ e.doomed => y.doomed
    BY <1>5
  <2>3. /\ k.index \subseteq Hashes /\ BackendInv(b, {}, 0) /\ s \in Live(b.entry)
        /\ e = b.entry[s] /\ Opener(e) /\ h = e.hash
        /\ u = At(k.postOpenByHash, h, NoQueue) /\ m = With(k, "postOpenByHash", u)
    BY <1>1, <1>7
  <2>4. Only(b, k, {"entry", "active", "index"})
    BY <1>9
  <2> QED BY ONLY <1>5, <1>6, <1>8, <1>10, <2>1, <2>3, <2>4, OpenerEnds
<1>12. /\ n = With(q, "postOpenByHash", u) /\ Shaped(q) /\ q.requests = k.requests
       /\ q.postOpenByHash = k.postOpenByHash
  <2>1. /\ Shaped(k) /\ m = With(k, "postOpenByHash", u)
        /\ q = Settled(k, s) /\ n = Settled(m, s)
    BY <1>1, <1>11
  <2> QED BY ONLY <2>1, EndsAside
<1>13. BackendInv(n, {}, 0)
  <2>1. m.entry = k.entry
    <3>1. PICK z : z = "postOpenByHash"
      OBVIOUS
    <3>2. z \in Fields /\ m = With(k, z, u)
      BY <1>1, <3>1 DEF Fields
    <3>3. Only(k, m, {z})
      BY ONLY <1>11, <3>2, SetField
    <3> QED BY <3>1, <3>3 DEF Only, Fields
  <2>2. s \in Live(m.entry) /\ BackendInv(m, none, 0)
    BY <1>1, <1>11, <2>1
  <2>3. BackendInv(n, none, 0)
    BY <1>1, <2>2, SettledKeeps
  <2> QED BY <1>1, <2>3
<1>14. Leads(q, d, {})
  <2>1. /\ q.postOpenByHash[h] # NoQueue /\ Queues(q.postOpenByHash, q.requests)
        /\ OnlyRequests(q.postOpenByHash) /\ u = At(q.postOpenByHash, h, NoQueue)
    <3>1. PICK w, t : w = k.postOpenByHash /\ t = k.requests
      OBVIOUS
    <3>2. w[h] # NoQueue /\ Queues(w, t) /\ OnlyRequests(w)
      BY <1>11, <3>1
    <3>3. u = At(w, h, NoQueue)
      BY <1>1, <3>1
    <3>4. q.postOpenByHash = w /\ q.requests = t
      BY <1>12, <3>1
    <3> QED BY <3>2, <3>3, <3>4
  <2>3. d = OnOperationComplete(q, "postOpenByHash", h)
    BY <1>1
  <2>2. h \in Hashes
    BY <1>11
  <2> QED BY ONLY <1>12, <1>13, <2>1, <2>2, <2>3, hashOf \in [Keys -> Hashes], OpenOverKeeps
<1>15. BackendInv(d, none, 0) /\ c = OpenFailed(d, r)
  BY <1>1, <1>14 DEF Leads, NotOpenedByHash
<1>16. Leads(d, c, none)
  BY <1>15, OpenFailedKeeps
<1> QED BY <1>1, <1>16 DEF Leads

-------------------------------------------------------------------------------
(* The actions *)

LEMMA ExecuteKeeps ==
  ASSUME BackendInv(backend, {}, 0), hashOf \in [Keys -> Hashes], Typed(disk),
         NEW s \in Entries(backend), Execute(s)
  PROVE  BackendInv(backend', {}, 0) /\ Typed(disk')
<1>1. PICK e, op, b, none : /\ e = backend.entry[s] /\ op = Head(e.queue)
                            /\ b = Pop(backend, s) /\ none = {}
  OBVIOUS
<1>2. /\ e.queue # <<>> /\ e.createPendingDoom = "none"
      /\ \/ op.op \in {"open", "openFromHash"} /\ ExecuteOpen(b, s, op)
         \/ op.op = "create" /\ ExecuteCreate(b, s, op)
         \/ op.op = "openOrCreate" /\ ExecuteOpenOrCreate(b, s, op)
         \/ op.op = "doom" /\ ExecuteDoom(b, s, op)
         \/ op.op = "close" /\ ExecuteClose(b, s)
  BY <1>1 DEF Execute, Pop
<1>3. /\ backend.entry \in Seq(EntryObjects \cup {Gone}) /\ Sound(e) /\ s \in Live(backend.entry)
      /\ BackendInv(backend, none, 0)
  BY <1>1 DEF BackendInv, Parts, AllSound, Entries, Live
<1>4. e \in EntryObjects
  BY <1>1, <1>3, LiveIsTyped
<1>5. op = e.queue[1] /\ op \in EntryOperations /\ 1 \in DOMAIN e.queue
  <2>1. op = e.queue[1] /\ op \in EntryOperations
    BY <1>1, <1>2, <1>4, PoppedFacts
  <2>2. e.queue \in Seq(EntryOperations)
    BY <1>4 DEF EntryObjects
  <2> QED BY <1>2, <2>1, <2>2
<1>6. CASE op.op = "openFromHash"
  <2>1. Opener(e) /\ ExecuteOpen(b, s, op)
    BY <1>2, <1>5, <1>6 DEF Opener
  <2>2. PICK h, r, file : h = e.hash /\ r = op.r /\ file = disk[h]
    OBVIOUS
  <2>3. /\ e.state = "uninitialized" /\ h \in Hashes /\ b.entry[s] = Popped(e)
        /\ Indexed(b, s) \subseteq Hashes /\ Unindexed(b, s) \subseteq Hashes
    BY <1>1, <1>3, <2>1, <2>2, OpenerFacts
  <2>4. b.entry[s].state = "uninitialized" /\ h = b.entry[s].hash
    BY <1>2, <1>4, <2>2, <2>3, PoppedFacts
  <2>5. r \in Nat
    BY <1>5, <2>2 DEF EntryOperations
  <2>6. CASE /\ file # NoFile /\ disk' = disk
             /\ backend' = OpenedByHash(b, s, h, file, op.r, Indexed(b, s))
    <3>1. file.key \in Keys /\ file.key # NoKey /\ file.born \in Nat
      BY <2>2, <2>3, <2>6, FileFacts
    <3>2. PICK index, c : index = Indexed(b, s) /\ c = backend'
      OBVIOUS
    <3>3. c = OpenedByHash(b, s, h, file, r, index)
      BY <2>2, <2>6, <3>2
    <3>4. BackendInv(c, {}, 0)
      <4>1. /\ BackendInv(backend, {}, 0) /\ s \in Live(backend.entry) /\ e = backend.entry[s]
            /\ Opener(e) /\ h = e.hash /\ b = Pop(backend, s) /\ index \subseteq Hashes
        BY <1>1, <1>3, <2>1, <2>2, <2>3, <3>2
      <4> QED BY ONLY <2>5, <3>1, <3>3, <4>1, hashOf \in [Keys -> Hashes], OpenedByHashKeeps
    <3>5. disk' = disk
      BY <2>6
    <3> QED BY <3>2, <3>4, <3>5
  <2>7. CASE /\ disk' = [disk EXCEPT ![h] = NoFile]
             /\ backend' = NotOpenedByHash(b, s, h, op.r, Unindexed(b, s))
    <3>1. PICK index, c : index = Unindexed(b, s) /\ c = backend'
      OBVIOUS
    <3>2. c = NotOpenedByHash(b, s, h, r, index)
      BY <2>2, <2>7, <3>1
    <3>3. BackendInv(c, {}, 0)
      BY <1>1, <1>3, <2>1, <2>2, <2>3, <2>5, <3>1, <3>2, NotOpenedByHashKeeps
    <3>4. disk' = [disk EXCEPT ![h] = NoFile]
      BY <2>7
    <3>5. Typed(disk')
      BY <3>4, DiskKeeps
    <3> QED BY <3>1, <3>3, <3>5
  <2> QED BY <1>6, <2>1, <2>2, <2>4, <2>6, <2>7, OpenerRunIs
<1>7. CASE op.op = "doom"
  <2>1. ExecuteDoom(b, s, op)
    BY <1>2, <1>7
  <2> QED BY <1>1, <1>2, <1>3, <1>5, <1>7, <2>1, DoomRuns
<1>8. CASE op.op \notin {"openFromHash", "doom"}
  <2>1. ~Opener(e) /\ e.queue[1].op # "doom"
    BY <1>5, <1>8 DEF Opener
  <2>2. Leads(backend, b, none) /\ b.entry[s] = Popped(e) /\ ~Opener(Popped(e))
    BY <1>1, <1>2, <1>3, <2>1, PopKeeps
  <2>3. Running(b, s, op)
    BY <1>1, <1>3, <1>5, <1>8, <2>2 DEF Running, Leads
  <2>4. b.entry[s].key = e.key
    BY <1>2, <1>4, <2>2, PoppedFacts
  <2>5. op.op \in {"create", "openOrCreate"} => b.entry[s].key # NoKey
    BY <1>3, <1>5, <2>4 DEF Sound
  <2>6. CASE op.op = "open"
    <3>1. ExecuteOpen(b, s, op)
      BY <1>2, <2>6
    <3> QED BY <2>3, <3>1, OpenRuns
  <2>7. CASE op.op = "create"
    <3>1. ExecuteCreate(b, s, op)
      BY <1>2, <2>7
    <3> QED BY <2>3, <2>5, <2>7, <3>1, CreateRuns
  <2>8. CASE op.op = "openOrCreate"
    <3>1. ExecuteOpenOrCreate(b, s, op)
      BY <1>2, <2>8
    <3> QED BY <2>3, <2>5, <2>8, <3>1, OpenOrCreateRuns
  <2>9. CASE op.op = "close"
    <3>1. ExecuteClose(b, s)
      BY <1>2, <2>9
    <3> QED BY <2>3, <3>1, CloseRuns
  <2> QED BY <1>2, <1>8, <2>6, <2>7, <2>8, <2>9
<1> QED BY <1>6, <1>7, <1>8

\* The caller of an entry leaves it.
WithLess(e) == [e EXCEPT !.users = @ - 1]
Less(b, s) == [b EXCEPT !.entry[s].users = @ - 1]

LEMMA CloseEntryKeeps ==
  ASSUME BackendInv(backend, {}, 0), CloseEntry
  PROVE  BackendInv(backend', {}, 0)
<1>1. PICK s \in Entries(backend) :
        /\ backend.entry[s].users > 0
        /\ LET b == Less(backend, s)
           IN backend' = IF b.entry[s].users = 0 THEN Enqueue(b, s, "close", 0, TRUE) ELSE b
  BY DEF CloseEntry, Less
<1>2. PICK e, d, b, c, none : /\ e = backend.entry[s] /\ d = WithLess(e) /\ b = Less(backend, s)
                              /\ c = backend' /\ none = {}
  OBVIOUS
<1>3. /\ backend.entry \in Seq(EntryObjects \cup {Gone}) /\ Sound(e) /\ s \in Live(backend.entry)
      /\ BackendInv(backend, none, 0) /\ Shaped(backend) /\ backend.index \subseteq Hashes
  BY <1>2 DEF BackendInv, Parts, AllSound, Entries, Live
<1>4. e \in EntryObjects
  BY <1>2, <1>3, LiveIsTyped
<1>5. e.users \in Nat /\ e.users - 1 \in Nat
  BY <1>1, <1>2, <1>4 DEF EntryObjects
<1>6. d \in EntryObjects
  BY <1>2, <1>4, <1>5 DEF WithLess, EntryObjects
<1>7. /\ d.hash = e.hash /\ d.key = e.key /\ d.queue = e.queue /\ d.state = e.state
      /\ d.doomed = e.doomed /\ d.waited = e.waited /\ d.createPendingDoom = e.createPendingDoom
  BY <1>2, <1>4 DEF WithLess, EntryObjects
<1>8. Sound(d) /\ SameFace(e, d)
  BY <1>3, <1>7 DEF Sound, SameFace, Opener
<1>9. b = With(backend, "entry", At(backend.entry, s, d))
  BY <1>2 DEF Less, With, At, WithLess
<1>10. Only(backend, b, {"entry"}) /\ b.entry = At(backend.entry, s, d)
  BY <1>3, <1>9, SetEntry
<1>11. /\ Only(backend, b, {"entry", "index", "leftover"}) /\ b.index \subseteq Hashes
       /\ b.entry = [backend.entry EXCEPT ![s] = d]
  BY <1>3, <1>10 DEF Only, Fields, At
<1>12. BackendInv(b, none, 0)
  BY <1>2, <1>3, <1>6, <1>8, <1>11, TouchKeeps
<1>13. Changed(backend.entry, b.entry, s, d)
  BY <1>3, <1>6, <1>11, ExceptChanges
<1>14. s \in Live(b.entry)
  BY <1>13 DEF Changed
<1>15. CASE c = b
  BY <1>2, <1>12, <1>15
<1>16. CASE c = Enqueue(b, s, "close", 0, TRUE)
  <2>1. PICK op, r, told : op = "close" /\ r = 0 /\ told = TRUE
    OBVIOUS
  <2>2. Addable(b.entry[s], [op |-> op, r |-> r, told |-> told])
    BY <2>1 DEF Addable, EntryOperations
  <2>3. c = Enqueue(b, s, op, r, told)
    BY <1>16, <2>1
  <2>4. Leads(b, c, none)
    BY <1>12, <1>14, <2>2, <2>3, EnqueueKeeps
  <2> QED BY <1>2, <2>4 DEF Leads
<1> QED BY <1>1, <1>2, <1>15, <1>16

\* One more request.
Asking(b, q) == [b EXCEPT !.requests = Append(@, q)]

LEMMA AskingKeeps ==
  ASSUME NEW b, BackendInv(b, {}, 0), NEW q \in RequestRecords,
         q.op \in KeyedOperations => q.key \in Keys, q.op = "next" => q.key = NoKey,
         NEW n, n = Len(b.requests) + 1, NEW c, c = Asking(b, q)
  PROVE  /\ BackendInv(c, {}, 0) /\ n \in DOMAIN c.requests /\ c.requests[n] = q
         /\ c.entry = b.entry
<1>1. PICK p, t, k : p = b.requests /\ t = Append(p, q) /\ k = Len(p)
  OBVIOUS
<1>2. p \in Seq(RequestRecords) /\ RequestsOK(p) /\ Shaped(b)
  BY <1>1 DEF BackendInv, RequestsOK
<1>3. k \in Nat /\ DOMAIN p = 1 .. k /\ n = k + 1
  BY <1>1, <1>2
<1>4. /\ t \in Seq(RequestRecords) /\ DOMAIN t = 1 .. k + 1 /\ t[k + 1] = q
      /\ \A r \in 1 .. k : t[r] = p[r]
  BY <1>1, <1>2, <1>3
<1>5. RequestsOK(t)
  <2>1. ASSUME NEW r \in DOMAIN t
        PROVE  /\ t[r].op \in KeyedOperations => t[r].key \in Keys
               /\ t[r].op = "next" => t[r].key = NoKey
    <3>1. CASE r = k + 1
      BY <1>4, <3>1
    <3>2. CASE r # k + 1
      <4>1. r \in DOMAIN p /\ t[r] = p[r]
        BY <1>3, <1>4, <3>2
      <4> QED BY <1>2, <4>1 DEF RequestsOK
    <3> QED BY <3>1, <3>2
  <2> QED BY <1>4, <2>1 DEF RequestsOK
<1>6. \A r, h : Asked(p, r, h) => Asked(t, r, h)
  <2>1. \A r \in DOMAIN p : r \in DOMAIN t /\ t[r] = p[r]
    BY <1>3, <1>4
  <2> QED BY <2>1 DEF Asked
<1>7. \A h, x : ClosureOK(p, h, x) => ClosureOK(t, h, x)
  BY <1>6 DEF ClosureOK
<1>8. \A table : Queues(table, p) => Queues(table, t)
  BY <1>7 DEF Queues
<1>9. c = With(b, "requests", t) /\ "requests" \in Fields
  BY <1>1 DEF Asking, With, Fields
<1>10. Only(b, c, {"requests"}) /\ c.requests = t
  BY <1>2, <1>9, SetField
<1>11. /\ c.active = b.active /\ c.entry = b.entry /\ c.postDoom = b.postDoom
       /\ c.postOpenByHash = b.postOpenByHash /\ c.massDooms = b.massDooms
       /\ c.failedChecks = b.failedChecks /\ c.index = b.index /\ Shaped(c)
  BY <1>10 DEF Only, Fields
<1>12. BackendInv(c, {}, 0)
  BY <1>1, <1>5, <1>8, <1>10, <1>11 DEF BackendInv
<1>13. n \in DOMAIN c.requests /\ c.requests[n] = q
  BY <1>3, <1>4, <1>10
<1> QED BY <1>11, <1>12, <1>13

LEMMA RequestKeeps ==
  ASSUME BackendInv(backend, {}, 0), hashOf \in [Keys -> Hashes], Request
  PROVE  BackendInv(backend', {}, 0)
<1>1. PICK op \in Operations, key \in Keys \cup {NoKey}, slot \in Entries(backend) \cup {0} :
        /\ key = NoKey <=> op \in {"next", "doomAll", "doomHeld"}
        /\ slot = 0 <=> op # "doomHeld"
        /\ LET request == [op |-> op, key |-> key, slot |-> slot,
                           result |-> "none", born |-> 0, calls |-> 0,
                           left |-> IF op = "next" THEN backend.index ELSE {},
                           dooms |-> CASE op = "doomAll" -> backend.index
                                       [] op = "doomHeld" ->
                                            {h \in Hashes : backend.active[h] = slot}
                                       [] OTHER -> {},
                           before |-> Answered(backend)]
           IN backend' = Issue(Asking(backend, request), Len(backend.requests) + 1)
  BY DEF Request, Asking
<1>2. PICK left, dooms :
        /\ left = IF op = "next" THEN backend.index ELSE {}
        /\ dooms = CASE op = "doomAll" -> backend.index
                     [] op = "doomHeld" -> {h \in Hashes : backend.active[h] = slot}
                     [] OTHER -> {}
  OBVIOUS
<1>3. PICK q, b, c, n, none :
        /\ q = [op |-> op, key |-> key, slot |-> slot, result |-> "none", born |-> 0, calls |-> 0,
                left |-> left, dooms |-> dooms, before |-> Answered(backend)]
        /\ b = Asking(backend, q) /\ c = backend' /\ n = Len(backend.requests) + 1 /\ none = {}
  OBVIOUS
<1>4. c = Issue(b, n)
  BY <1>1, <1>2, <1>3
<1>5. /\ backend.entry \in Seq(EntryObjects \cup {Gone}) /\ backend.index \subseteq Hashes
      /\ backend.requests \in Seq(RequestRecords) /\ Live(backend.entry) = Entries(backend)
  BY DEF BackendInv, Parts, AllSound, RequestsOK, Live, Entries
<1>6. q \in RequestRecords
  <2>1. op \in KeyedOperations \cup {"next", "doomAll", "doomHeld"}
    BY BackendAssumption
  <2>2. slot \in Nat
    BY <1>5, LiveIsTyped
  <2>3. Answered(backend) \subseteq Nat
    BY <1>5 DEF Answered
  <2>4. left \subseteq Hashes /\ dooms \subseteq Hashes
    BY <1>2, <1>5
  <2> QED BY <1>3, <2>1, <2>2, <2>3, <2>4 DEF RequestRecords
<1>7. q.op = op /\ q.key = key /\ q.slot = slot
  BY <1>3
<1>8. (q.op \in KeyedOperations => q.key \in Keys) /\ (q.op = "next" => q.key = NoKey)
  BY <1>1, <1>7 DEF KeyedOperations
<1>9. /\ BackendInv(b, {}, 0) /\ n \in DOMAIN b.requests /\ b.requests[n] = q
      /\ b.entry = backend.entry
  BY <1>3, <1>6, <1>8, AskingKeeps
<1>10. HoldsSlot(b, n)
  BY <1>1, <1>5, <1>7, <1>9 DEF HoldsSlot
<1>11. BackendInv(b, none, 0)
  BY <1>3, <1>9
<1>12. Leads(b, c, none)
  BY <1>4, <1>9, <1>10, <1>11, IssueKeeps
<1> QED BY <1>3, <1>12 DEF Leads

\* A doom of many is over.
Done(b, i) == [b EXCEPT !.massDooms = RemoveAt(@, i)]

LEMMA DoomEntriesCompleteKeeps ==
  ASSUME BackendInv(backend, {}, 0), hashOf \in [Keys -> Hashes], Typed(disk),
         NEW i \in DOMAIN backend.massDooms, DoomEntriesComplete(i)
  PROVE  BackendInv(backend', {}, 0) /\ Typed(disk')
<1>1. PICK m, owed, r, b, d, c, none :
        /\ m = backend.massDooms[i] /\ owed = m.hashes /\ r = m.r /\ b = Done(backend, i)
        /\ d = CompleteDooms(b, owed) /\ c = backend' /\ none = {}
  OBVIOUS
<1>2. \/ /\ c = Tell(d, r, "ok", 0)
         /\ disk' = [h \in Hashes |-> IF h \in owed THEN NoFile ELSE disk[h]]
      \/ c = With(Tell(d, r, "failed", 0), "leftover", TRUE) /\ disk' = disk
  BY <1>1 DEF DoomEntriesComplete, Done, With
<1>3. PICK v, f, t, u, k, next :
        /\ v = backend.active /\ f = backend.entry /\ t = backend.postDoom
        /\ u = backend.postOpenByHash /\ k = backend.massDooms /\ next = RemoveAt(k, i)
  OBVIOUS
<1>4. Parts(v, f, t, u, k, {}, 0) /\ Shaped(backend) /\ i \in DOMAIN k /\ owed = k[i].hashes
      /\ k \in Seq([hashes : SUBSET Hashes, r : Nat])
  BY <1>1, <1>3 DEF BackendInv, Parts
<1>5. Parts(v, f, t, u, next, owed, 0)
  <2>1. Parts(v, f, t, u, RemoveAt(k, i), owed, 0)
    BY ONLY <1>4, MassDoomEndsParts
  <2> QED BY <1>3, <2>1
<1>6. r \in Nat
  BY <1>1, <1>3, <1>4, MassDoomIsTyped
<1>7. b = With(backend, "massDooms", next) /\ "massDooms" \in Fields
  BY <1>1, <1>3 DEF Done, With, Fields
<1>8. Only(backend, b, {"massDooms"}) /\ b.massDooms = next
  <2>1. PICK z : z = "massDooms"
    OBVIOUS
  <2>2. Shaped(backend) /\ z \in Fields /\ b = With(backend, z, next)
    BY <1>4, <1>7, <2>1
  <2>3. Only(backend, b, {z}) /\ b[z] = next
    BY ONLY <2>2, SetField
  <2> QED BY <2>1, <2>3
<1>9. /\ b.active = v /\ b.entry = f /\ b.postDoom = t /\ b.postOpenByHash = u
      /\ b.requests = backend.requests /\ b.failedChecks = backend.failedChecks
      /\ b.index = backend.index /\ Shaped(b)
  BY <1>3, <1>8 DEF Only, Fields
<1>10. BackendInv(b, owed, 0)
  BY <1>3, <1>5, <1>8, <1>9 DEF BackendInv
<1>11. Leads(b, d, {})
  BY <1>1, <1>10, CompleteDoomsKeeps
<1>12. BackendInv(d, none, 0)
  BY <1>1, <1>11 DEF Leads
<1>13. ASSUME NEW result, result \in Answers, NEW x, x = Tell(d, r, result, 0)
       PROVE  BackendInv(x, none, 0)
  <2>1. PICK born : born = 0
    OBVIOUS
  <2>2. born \in Nat /\ x = Tell(d, r, result, born)
    BY <1>13, <2>1
  <2>3. Leads(d, x, none)
    BY ONLY <1>6, <1>12, <1>13, <2>2, TellAnswer
  <2> QED BY <2>3 DEF Leads
<1>14. "ok" \in Answers /\ "failed" \in Answers
  BY DEF Answers
<1>15. CASE /\ c = Tell(d, r, "ok", 0)
            /\ disk' = [h \in Hashes |-> IF h \in owed THEN NoFile ELSE disk[h]]
  <2>1. BackendInv(c, none, 0)
    BY <1>13, <1>14, <1>15
  <2>2. Typed(disk')
    BY <1>15 DEF Typed
  <2> QED BY <1>1, <2>1, <2>2
<1>16. CASE c = With(Tell(d, r, "failed", 0), "leftover", TRUE) /\ disk' = disk
  <2>1. PICK x, true : x = Tell(d, r, "failed", 0) /\ true = TRUE
    OBVIOUS
  <2>2. BackendInv(x, none, 0) /\ c = With(x, "leftover", true)
    BY <1>13, <1>14, <1>16, <2>1
  <2>3. BackendInv(c, none, 0)
    BY <2>2, LeftoverKeeps
  <2> QED BY <1>1, <1>16, <2>3
<1> QED BY <1>2, <1>15, <1>16

-------------------------------------------------------------------------------
(* The specification *)

LEMMA EmptyHas ==
  /\ DOMAIN <<>> = {} /\ \A S : <<>> \in Seq(S)
<1>1. DOMAIN <<>> = {}
  OBVIOUS
<1>2. ASSUME NEW S
      PROVE  <<>> \in Seq(S)
  OBVIOUS
<1> QED BY <1>1, <1>2

LEMMA InitHolds == Init => Inv
<1> SUFFICES ASSUME Init
             PROVE  Inv
  OBVIOUS
<1>1. PICK b, none, map, table : /\ b = backend /\ none = <<>> /\ map = [h \in Hashes |-> 0]
                                 /\ table = [h \in Hashes |-> NoQueue]
  OBVIOUS
<1>2. PICK barrier : b = [active |-> map, postDoom |-> table, postOpenByHash |-> table,
                          index |-> {}, entry |-> none, massDooms |-> none,
                          barrier |-> barrier, requests |-> none, failedChecks |-> {},
                          leftover |-> FALSE]
  BY <1>1 DEF Init
<1>3. Shaped(b)
  BY <1>2 DEF Shaped, Fields
<1>4. /\ b.active = map /\ b.postDoom = table /\ b.postOpenByHash = table /\ b.index = {}
      /\ b.entry = none /\ b.massDooms = none /\ b.requests = none /\ b.failedChecks = {}
  BY <1>2
<1>5. DOMAIN none = {} /\ \A S : none \in Seq(S)
  BY <1>1
<1>6. /\ map \in [Hashes -> Nat] /\ \A h \in Hashes : map[h] = 0
  BY <1>1
<1>7. /\ table \in [Hashes -> Seq(Closures) \cup {NoQueue}] /\ \A h \in Hashes : table[h] = NoQueue
  BY <1>1
<1>8. Live(none) = {}
  BY <1>5 DEF Live
<1>9. Parts(map, none, table, table, none, {}, 0)
  <2>1. AllSound(none) /\ OnMap(map, none)
    BY <1>5, <1>6, <1>8 DEF AllSound, OnMap
  <2>2. /\ DoomsWaited(none, table, none, {}) /\ OneDoom(none, none, {})
        /\ SomeDoom(none, table, none, {})
    BY <1>5, <1>7, <1>8 DEF DoomsWaited, OneDoom, SomeDoom
  <2>3. /\ Notified(none, table, 0) /\ Hearing(map, none, table, 0) /\ BehindDoom(map, none, table)
        /\ OpensUnderWay(none, table)
    BY <1>7, <1>8 DEF Notified, Hearing, BehindDoom, OpensUnderWay
  <2> QED BY <1>5, <2>1, <2>2, <2>3 DEF Parts
<1>10. RequestsOK(none)
  BY <1>5 DEF RequestsOK
<1>11. Queues(table, none) /\ OnlyRequests(table)
  BY <1>7 DEF Queues, OnlyRequests
<1>12. BackendInv(b, {}, 0)
  BY <1>3, <1>4, <1>9, <1>10, <1>11 DEF BackendInv
<1>13. hashOf \in [Keys -> Hashes] /\ disk \in [Hashes -> Files \cup {NoFile}]
  BY DEF Init
<1>14. optimistic \in BOOLEAN
  BY BackendAssumption DEF Init
<1> QED BY <1>1, <1>12, <1>13, <1>14 DEF Inv

\* What is asked for is about hashes, and those of the keys do not change.
LEMMA InvAgain ==
  ASSUME hashOf' = hashOf, optimistic' = optimistic, hashOf \in [Keys -> Hashes],
         optimistic \in BOOLEAN, BackendInv(backend', {}, 0), Typed(disk')
  PROVE  Inv'
<1>1. Queues(backend'.postDoom, backend'.requests) /\ Queues(backend'.postOpenByHash, backend'.requests)
  BY DEF BackendInv
<1>2. Queues(backend.postDoom, backend.requests)' /\ Queues(backend.postOpenByHash, backend.requests)'
  <2>1. /\ backend'.postDoom \in [Hashes -> Seq(Closures) \cup {NoQueue}]
        /\ backend'.postOpenByHash \in [Hashes -> Seq(Closures) \cup {NoQueue}]
    BY <1>1 DEF Queues
  <2>2. ASSUME NEW h \in Hashes, backend'.postDoom[h] # NoQueue, NEW i \in DOMAIN backend'.postDoom[h]
        PROVE  ClosureOK(backend.requests, h, backend.postDoom[h][i])'
    <3>1. ClosureOK(backend'.requests, h, backend'.postDoom[h][i])
      BY <1>1, <2>2 DEF Queues
    <3> QED BY <3>1 DEF ClosureOK, Asked
  <2>3. ASSUME NEW h \in Hashes, backend'.postOpenByHash[h] # NoQueue,
               NEW i \in DOMAIN backend'.postOpenByHash[h]
        PROVE  ClosureOK(backend.requests, h, backend.postOpenByHash[h][i])'
    <3>1. ClosureOK(backend'.requests, h, backend'.postOpenByHash[h][i])
      BY <1>1, <2>3 DEF Queues
    <3> QED BY <3>1 DEF ClosureOK, Asked
  <2> QED BY <2>1, <2>2, <2>3 DEF Queues
<1>3. BackendInv(backend, {}, 0)'
  BY <1>2 DEF BackendInv
<1> QED BY <1>3 DEF Inv, Typed

LEMMA StepKeeps == Inv /\ [Next]_vars => Inv'
<1> SUFFICES ASSUME Inv, [Next]_vars
             PROVE  Inv'
  OBVIOUS
<1>1. /\ hashOf \in [Keys -> Hashes] /\ optimistic \in BOOLEAN /\ Typed(disk)
      /\ BackendInv(backend, {}, 0)
  BY DEF Inv, Typed
<1>2. CASE Request
  <2>1. hashOf' = hashOf /\ optimistic' = optimistic /\ disk' = disk
    BY <1>2 DEF Request
  <2>2. BackendInv(backend', {}, 0)
    BY <1>1, <1>2, RequestKeeps
  <2> QED BY <1>1, <2>1, <2>2, InvAgain
<1>3. CASE CloseEntry
  <2>1. hashOf' = hashOf /\ optimistic' = optimistic /\ disk' = disk
    BY <1>3 DEF CloseEntry
  <2>2. BackendInv(backend', {}, 0)
    BY <1>1, <1>3, CloseEntryKeeps
  <2> QED BY <1>1, <2>1, <2>2, InvAgain
<1>4. ASSUME NEW s \in Entries(backend), Execute(s)
      PROVE  Inv'
  <2>1. hashOf' = hashOf /\ optimistic' = optimistic
    BY <1>4 DEF Execute
  <2>2. BackendInv(backend', {}, 0) /\ Typed(disk')
    BY <1>1, <1>4, ExecuteKeeps
  <2> QED BY <1>1, <2>1, <2>2, InvAgain
<1>5. ASSUME NEW i \in DOMAIN backend.massDooms, DoomEntriesComplete(i)
      PROVE  Inv'
  <2>1. hashOf' = hashOf /\ optimistic' = optimistic
    BY <1>5 DEF DoomEntriesComplete
  <2>2. BackendInv(backend', {}, 0) /\ Typed(disk')
    BY <1>1, <1>5, DoomEntriesCompleteKeeps
  <2> QED BY <1>1, <2>1, <2>2, InvAgain
<1>6. CASE UNCHANGED vars
  <2>1. hashOf' = hashOf /\ optimistic' = optimistic /\ disk' = disk /\ backend' = backend
    BY <1>6 DEF vars
  <2>2. BackendInv(backend', {}, 0) /\ Typed(disk')
    BY <1>1, <2>1
  <2> QED BY <1>1, <2>1, <2>2, InvAgain
<1> QED BY <1>2, <1>3, <1>4, <1>5, <1>6 DEF Next, Work

LEMMA InvHolds == Spec => []Inv
<1>1. Init => Inv
  BY InitHolds
<1>2. Inv /\ [Next]_vars => Inv'
  BY StepKeeps
<1> QED BY <1>1, <1>2, PTL DEF Spec

\* None of the checks that ChecksHold names ever fails, whatever is asked for and
\* whatever a doom waits for: an operation is started once and ended once, the map of
\* active entries has room for what is inserted, and who is told to wait for an open
\* or a doom finds the queue to wait in.
THEOREM ChecksAlwaysHold == Spec => []ChecksHold
<1>1. Inv => ChecksHold
  BY DEF Inv, BackendInv, ChecksHold
<1> QED BY <1>1, InvHolds, PTL

\* What is on the map of active entries is an entry that is there, of that hash and not
\* doomed, and every queue, entry and file is of its type (CreateOrFindActiveOrDoomedEntry,
\* ActiveEntryProxy).
THEOREM BackendIsTyped == Spec => []TypeOK
<1>1. Inv => TypeOK
  <2> SUFFICES ASSUME Inv
               PROVE  TypeOK
    OBVIOUS
  <2>1. /\ disk \in [Hashes -> Files \cup {NoFile}] /\ backend.entry \in Seq(EntryObjects \cup {Gone})
        /\ backend.index \subseteq Hashes /\ OnMap(backend.active, backend.entry)
        /\ backend.requests \in Seq(RequestRecords)
    BY DEF Inv, BackendInv, Parts, AllSound, RequestsOK
  <2>2. \A t \in Tables : backend[t] \in [Hashes -> Seq(Closures) \cup {NoQueue}]
    BY DEF Inv, BackendInv, Queues, Tables
  <2>3. \A r \in Requests : backend.requests[r].result \in {"none", "ok", "created", "failed"}
    <3>1. ASSUME NEW r \in Requests
          PROVE  backend.requests[r] \in RequestRecords
      BY <2>1 DEF Requests
    <3> QED BY <3>1 DEF RequestRecords
  <2>4. ASSUME NEW h \in Hashes, NEW s, s = backend.active[h], s # 0
        PROVE  /\ s \in Entries(backend)
               /\ backend.entry[s].hash = h /\ ~backend.entry[s].doomed
    BY <2>1, <2>4 DEF OnMap, Entries, Live
  <2> QED BY <2>1, <2>2, <2>3, <2>4 DEF TypeOK
<1> QED BY <1>1, InvHolds, PTL

\* Nobody waits for nothing, so that no wait is for ever: when no thread has anything to
\* run, no request waits for a doom or an open by hash, nor in the queue of an entry, and
\* no entry still waits for the doom before it (SimplePostOperationWaiterTable,
\* MaybeOptimisticCreateForPostDoom).
THEOREM IdleWaitsForNothing == Spec => [](Idle => NothingWaits)
<1>1. Inv => (Idle => NothingWaits)
  <2> SUFFICES ASSUME Inv, Idle
               PROVE  NothingWaits
    OBVIOUS
  <2>1. PICK f, t, u, k : /\ f = backend.entry /\ t = backend.postDoom
                          /\ u = backend.postOpenByHash /\ k = backend.massDooms
    OBVIOUS
  <2>2. /\ \A s \in Live(f) : f[s].queue = <<>> \/ f[s].createPendingDoom # "none"
        /\ k = <<>> /\ Live(f) = Entries(backend)
    BY <2>1 DEF Idle, Entries, Live
  <2>3. /\ f \in Seq(EntryObjects \cup {Gone}) /\ \A s \in Live(f) : Sound(f[s])
        /\ SomeDoom(f, t, k, {}) /\ Notified(f, t, 0) /\ OpensUnderWay(f, u)
    BY <2>1 DEF Inv, BackendInv, Parts, AllSound
  <2>4. \A s \in Live(f) : f[s] \in EntryObjects /\ s # 0 /\ f[s].hash \in Hashes
    <3>1. ASSUME NEW s \in Live(f)
          PROVE  f[s] \in EntryObjects /\ s # 0
      BY <2>3, LiveIsTyped
    <3> QED BY <3>1 DEF EntryObjects
  <2>5. ASSUME NEW h \in Hashes, t[h] # NoQueue
        PROVE  FALSE
    <3>1. DOMAIN k = {}
      BY <2>2
    <3>2. PICK s \in Live(f) : f[s].waited /\ f[s].hash = h
      BY <2>3, <2>5, <3>1 DEF SomeDoom
    <3>3. /\ f[s].createPendingDoom = "none"
          /\ \E i \in DOMAIN f[s].queue : f[s].queue[i].op = "doom"
      BY <2>3, <3>2 DEF Sound
    <3>4. f[s].queue = <<>>
      BY <2>2, <3>3
    <3> QED BY <3>3, <3>4
  <2>6. ASSUME NEW h \in Hashes, u[h] # NoQueue
        PROVE  FALSE
    <3>1. PICK s \in Live(f) : Opener(f[s])
      BY <2>3, <2>6 DEF OpensUnderWay
    <3>2. f[s].queue # <<>> /\ f[s].createPendingDoom = "none"
      BY <2>3, <3>1 DEF Sound, Opener
    <3> QED BY <2>2, <3>2
  <2>7. ASSUME NEW s \in Live(f)
        PROVE  f[s].queue = <<>>
    <3>1. s # 0 /\ f[s].hash \in Hashes
      BY <2>4
    <3>2. t[f[s].hash] = NoQueue
      BY <2>5, <3>1
    <3>3. f[s].createPendingDoom = "none"
      <4>1. f[s].createPendingDoom # "none" => t[f[s].hash] # NoQueue
        BY <2>3, <3>1 DEF Notified
      <4> QED BY <3>2, <4>1
    <3> QED BY <2>2, <3>3
  <2> QED BY <2>1, <2>2, <2>5, <2>6, <2>7 DEF NothingWaits, Waiting, Tables
<1> QED BY <1>1, InvHolds, PTL
================================================================================
