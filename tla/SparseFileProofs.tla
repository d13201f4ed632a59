---------------------------- MODULE SparseFileProofs ---------------------------
(***************************************************************************)
(* The three properties of the sparse file, for files, writes, cuts and    *)
(* opens without bound.                                                    *)
(*                                                                         *)
(* Sound says what holds of a file and the ranges in it whatever crashes,  *)
(* failures and short writes there were, also in the middle of a write;    *)
(* Whole, between two calls; Exact, while no append was short; Holds, as   *)
(* long as there was no damage at all.  A scan makes a Sound file whole    *)
(* and exact, or fails.                                                    *)
(*                                                                         *)
(* First come the folds, then files cell by cell, the ranges in order, a   *)
(* scan, the calls of a write, a write, reads, and the operations.         *)
(***************************************************************************)
EXTENDS SparseFile, FiniteSetTheorems, WellFoundedInduction, TLAPS

-------------------------------------------------------------------------------
(* The invariant *)

\* A sequence, of whatever.
IsFile(f) == \E S : f \in Seq(S)

\* Where a range begins in the file, with its header, and where it ends.
Begin(r) == r.at - 2
End(r) == r.at + r.length

\* A run of n bytes of one write.
Run(b, n) == [i \in 1 .. n |-> Byte(b)]

\* The checksum of a range, if it has one, is of bytes of one write.
Within(w, o, n) == w.offset <= o /\ o + n <= w.offset + w.length
LawfulCrc(crc, o, n, L) ==
  \/ crc = <<>>
  \/ \E w \in L : Within(w, o, n) /\ crc = Run(w.byte, n)

IsRange(r, o, L) ==
  /\ r = [offset |-> o, length |-> r.length, crc |-> r.crc, at |-> r.at]
  /\ o \in Nat /\ r.length \in Nat /\ r.length > 0 /\ r.at \in Nat /\ r.at >= 3
  /\ LawfulCrc(r.crc, o, r.length, L)

IsRanges(R, L) ==
  /\ R = [o \in DOMAIN R |-> R[o]] /\ IsFiniteSet(DOMAIN R)
  /\ \A o \in DOMAIN R : IsRange(R[o], o, L)

\* No two ranges are of the same bytes, ...
Disjoint(R) == \A o, p \in DOMAIN R : o < p => o + R[o].length <= p

\* ... or at the same place, but for the last cell of one that was cut short: there
\* the next may begin.
Behind(r, q) == r.at + 1 <= Begin(q) /\ End(r) - 1 <= Begin(q)
Placed(R, T) ==
  /\ T \in Nat /\ T >= 1
  /\ \A o \in DOMAIN R : R[o].at + 1 <= T /\ End(R[o]) <= T + 1
  /\ \A o, p \in DOMAIN R : o # p => Behind(R[o], R[p]) \/ Behind(R[p], R[o])

IsExtentAt(F, n) == n < Len(F) /\ F[n + 1].kind = "extent"

\* An extent is where a range begins, and is that range's, or is the last cell of
\* one; the cell behind it is a checksum of that range, if it is there.
Marked(F, R, L) ==
  /\ \A n \in Nat : IsExtentAt(F, n) =>
       \/ \E o \in DOMAIN R : Begin(R[o]) = n /\ F[n + 1] = Extent(o, R[o].length)
       \/ \E o \in DOMAIN R : End(R[o]) - 1 = n
  /\ \A o \in DOMAIN R : R[o].at <= Len(F) =>
       \E crc : F[R[o].at] = DataCrc32(crc) /\ LawfulCrc(crc, o, R[o].length, L)

Sound(F, R, T, L) ==
  /\ IsFile(F) /\ Len(F) <= T + 1
  /\ IsRanges(R, L) /\ Disjoint(R) /\ Placed(R, T) /\ Marked(F, R, L)

\* The headers are there.
Whole(F, R) ==
  /\ Len(F) >= 1 /\ F[1].kind = "header"
  /\ \A o \in DOMAIN R : R[o].at <= Len(F)

\* One range follows another up to the end, each behind its header.
Exact(F, R, T) ==
  /\ Len(F) <= T
  /\ \A o \in DOMAIN R :
       /\ F[R[o].at - 1] = Extent(o, R[o].length) /\ F[R[o].at] = DataCrc32(R[o].crc)
       /\ End(R[o]) <= T
       /\ End(R[o]) = T \/ \E p \in DOMAIN R : Begin(R[p]) = End(R[o])
  /\ \A o, p \in DOMAIN R : o # p => End(R[o]) <= Begin(R[p]) \/ End(R[p]) <= Begin(R[o])
  /\ T = 1 \/ \E o \in DOMAIN R : Begin(R[o]) = 1

\* The ranges hold the content C and nothing else.
InRange(R, o, x) == o \in DOMAIN R /\ o <= x /\ x < o + R[o].length
Holds(F, R, C) ==
  /\ C = [x \in DOMAIN C |-> C[x]] /\ DOMAIN C \subseteq Nat
  /\ \A x \in Nat : x \in DOMAIN C <=> \E o \in DOMAIN R : InRange(R, o, x)
  /\ \A o \in DOMAIN R :
       /\ End(R[o]) <= Len(F)
       /\ \A i \in 1 .. R[o].length : F[R[o].at + i] = Byte(C[o + i - 1])
       /\ R[o].crc # <<>> =>
            R[o].crc = [i \in 1 .. R[o].length |-> Byte(C[o + i - 1])]

\* What is not a header is data.
Counted(R, T, size) == size \in Nat /\ T - 1 = size + 2 * Cardinality(DOMAIN R)
Limited(size, L) == size <= MaxSparseData \/ \E w \in L : w.length >= size

Kept(F, R, T, L, short) ==
  Sound(F, R, T, L) /\ Whole(F, R) /\ (~short => Exact(F, R, T))

\* The state of a file that nothing has happened to.
Unharmed(F, R, T, C, L, size) ==
  Holds(F, R, C) /\ Counted(R, T, size) /\ Limited(size, L)

\* A file that may be scanned at the next open; one that holds the content.
Soundable(F, L) == \E R, T : Sound(F, R, T, L)
Intact(F, C, L) ==
  \E R, T, size : Kept(F, R, T, L, FALSE) /\ Unharmed(F, R, T, C, L, size)

Fields == {"born", "open", "file", "ranges", "tail", "size", "isNew", "short", "doomed",
           "failed"}
IsEntry(e) == DOMAIN e = Fields /\ e = [f \in Fields |-> e[f]]

\* The file of an open entry.
OpenOK(e, C, L, dam) ==
  /\ IsEntry(e) /\ e.short \in BOOLEAN
  /\ Kept(e.file, e.ranges, e.tail, L, e.short)
  /\ ~dam => ~e.short /\ Unharmed(e.file, e.ranges, e.tail, C, L, e.size)

NotOpenOK(e) == e.file = <<>> /\ e.ranges = NoRanges /\ e.size = 0 /\ e.short = FALSE

\* An entry, with d under the name of the file and o of the streams.
EntryIs(e, d, o, C, L, dam) ==
  /\ IsEntry(e)
  /\ ~e.open => NotOpenOK(e) /\ (~dam => C = NoContent)
  /\ e.open /\ ~e.failed => OpenOK(e, C, L, dam) /\ (~e.doomed => d = Linked)
  /\ e.failed => e.doomed /\ dam
  /\ o = IF e.doomed THEN "none" ELSE "valid"
  /\ d = Linked => e.open /\ ~e.failed /\ ~e.doomed
  /\ ~dam => d = Missing \/ d = Linked

\* No entry.
ClosedIs(d, o, C, L, dam) ==
  /\ d # Linked
  /\ ~dam /\ d # Missing => Intact(d, C, L) /\ o # "none"
  /\ ~dam /\ d = Missing /\ o = "valid" => C = NoContent

Core(d, o, e, C, L, dam) ==
  /\ d # Missing /\ d # Linked => Soundable(d, L)
  /\ e = Closed => ClosedIs(d, o, C, L, dam)
  /\ e # Closed => EntryIs(e, d, o, C, L, dam)

Inv == Core(disk, others, entry, content, lawful, damaged)

\* Missing and Linked are not files, and Closed is not an entry.
Distinct ==
  ~ IsFile(Missing) /\ ~ IsFile(Linked) /\ Missing # Linked /\ ~ IsEntry(Closed)

-------------------------------------------------------------------------------
(* The folds *)

\* Among sets of subsets of a finite set there is a smallest one.
LEMMA SmallestSubset ==
  ASSUME NEW S, NEW B, IsFiniteSet(S), B \subseteq SUBSET S, B # {}
  PROVE  \E T \in B : \A U \in B : U \subseteq T => U = T
<1>1. SUBSET S \subseteq FiniteSubsetsOf(S)
  BY FS_Subset DEF FiniteSubsetsOf
<1>2. IsWellFoundedOn(StrictSubsetOrdering(S), FiniteSubsetsOf(S))
  BY FS_StrictSubsetOrderingWellFounded
<1>3. PICK T \in B : \A U \in B : ~ (<<U, T>> \in StrictSubsetOrdering(S))
  BY <1>1, <1>2, WFMin
<1> QED BY <1>3 DEF StrictSubsetOrdering

\* A finite set of numbers has a greatest one.
LEMMA MaxIsGreatest ==
  ASSUME NEW S, \A x \in S : x \in Nat, IsFiniteSet(S), S # {}
  PROVE  Max(S) \in S /\ \A x \in S : Max(S) >= x
<1>1. ASSUME NEW x \in S, \A y \in S : x >= y
      PROVE  Max(S) \in S /\ \A y \in S : Max(S) >= y
  BY <1>1 DEF Max
<1> DEFINE B == { T \in SUBSET S : T # {} /\ ~ \E x \in T : \A y \in T : x >= y }
<1>2. SUFFICES ASSUME B # {} PROVE FALSE
  BY <1>1
<1>0. IsFiniteSet(S)
  OBVIOUS
<1>3. PICK T \in B : \A U \in B : U \subseteq T => U = T
  <2>1. B \subseteq SUBSET S
    OBVIOUS
  <2> HIDE DEF B
  <2> QED BY <1>0, <1>2, <2>1, SmallestSubset
<1>4. PICK x \in T : TRUE
  BY <1>3
<1>5. PICK y \in T : ~ (x >= y)
  BY <1>3, <1>4
<1>6. T \ {x} \notin B
  BY <1>3, <1>4
<1>7. PICK m \in T \ {x} : \A z \in T \ {x} : m >= z
  BY <1>3, <1>5, <1>6
<1>8. x \in Nat /\ y \in Nat /\ m \in Nat /\ m >= y
  BY <1>3, <1>4, <1>5, <1>7
<1> QED BY <1>3, <1>5, <1>7, <1>8

\* A set of numbers that has 0 and every next number up to N has them all.
LEMMA CountUp ==
  ASSUME NEW N, NEW T, N \in Nat, 0 \in T, \A n \in 0 .. N - 1 : n \in T => n + 1 \in T
  PROVE  \A n \in 0 .. N : n \in T
<1> DEFINE G == { n \in 0 .. N : \A m \in 0 .. n : m \in T }
<1>1. /\ \A x \in G : x \in Nat
      /\ IsFiniteSet(G) /\ 0 \in G
  <2>1. IsFiniteSet(0 .. N) /\ G \subseteq 0 .. N
    BY FS_Interval
  <2> QED BY <2>1, FS_Subset
<1>2. PICK max : max = Max(G)
  OBVIOUS
<1>3. max \in G /\ \A x \in G : max >= x
  <2> HIDE DEF G
  <2> QED BY <1>1, <1>2, MaxIsGreatest
<1>4. CASE max = N
  BY <1>3, <1>4
<1>5. CASE max # N
  <2>1. max \in 0 .. N - 1 /\ max \in T
    BY <1>3, <1>5
  <2>2. max + 1 \in T
    BY <2>1
  <2>3. max + 1 \in 0 .. N /\ \A m \in 0 .. max + 1 : m \in 0 .. max \/ m = max + 1
    BY <2>1
  <2>4. max + 1 \in G
    BY <1>3, <2>2, <2>3
  <2>5. max >= max + 1
    BY <1>3, <2>4
  <2> QED BY <2>1, <2>5
<1> QED BY <1>4, <1>5

\* The folds of the module, as one: what comes of x after c.
Step(kind, q, x, c) ==
  CASE kind = "call"      -> Call(c, x)
    [] kind = "scan"      -> ScanStep(q, c)
    [] kind = "read"      -> ReadStep(q[1], q[2], q[3], c, x)
    [] kind = "available" -> AvailableStep(q[2], q[3], c, x)
    [] kind = "write"     -> WriteStep(c, x, q[1], q[2], q[3])

\* g holds what comes of the elements at every set of places.
Folded(g, kind, q, base, s, S) ==
  g = [t \in SUBSET S |->
         IF t = {} THEN base ELSE Step(kind, q, s[Max(t)], g[t \ {Max(t)}])]

LEMMA FoldUnfolds ==
  ASSUME NEW S, NEW kind, NEW q, NEW base, NEW s, NEW g, \A x \in S : x \in Nat,
         IsFiniteSet(S), Folded(g, kind, q, base, s, S)
  PROVE  /\ g[{}] = base
         /\ \A t \in SUBSET S : t # {} =>
              /\ Max(t) \in t /\ t \ {Max(t)} \in SUBSET S
              /\ g[t] = Step(kind, q, s[Max(t)], g[t \ {Max(t)}])
<1>1. \A t \in SUBSET S : t # {} => Max(t) \in t
  BY MaxIsGreatest, FS_Subset
<1> QED BY <1>1 DEF Folded

LEMMA FoldsAgree ==
  ASSUME NEW S, NEW T, NEW U, NEW kind, NEW q, NEW base, NEW a, NEW b, NEW g, NEW h,
         NEW s, \A x \in S : x \in Nat, IsFiniteSet(S), T \subseteq S, U \subseteq S,
         Folded(g, kind, q, base, a, T), Folded(h, kind, q, base, b, U), s \subseteq T,
         s \subseteq U, \A i \in s : a[i] = b[i]
  PROVE  g[s] = h[s]
<1> DEFINE B == { t \in SUBSET S : t \subseteq s /\ g[t] # h[t] }
<1>1. SUFFICES ASSUME B # {} PROVE FALSE
  OBVIOUS
<1>2. PICK t \in B : \A u \in B : u \subseteq t => u = t
  <2>1. B \subseteq SUBSET S
    OBVIOUS
  <2> HIDE DEF B
  <2> QED BY <1>1, <2>1, SmallestSubset
<1>3. /\ \A x \in T : x \in Nat
      /\ \A x \in U : x \in Nat
      /\ IsFiniteSet(T) /\ IsFiniteSet(U)
  BY FS_Subset
<1>8. /\ g[{}] = base
      /\ \A x \in SUBSET T : x # {} => g[x] = Step(kind, q, a[Max(x)], g[x \ {Max(x)}])
  <2>1. Folded(g, kind, q, base, a, T)
    OBVIOUS
  <2>2. IsFiniteSet(T) /\ \A x \in T : x \in Nat
    BY <1>3
  <2> QED BY ONLY <2>1, <2>2, FoldUnfolds
<1>9. /\ h[{}] = base
      /\ \A x \in SUBSET U : x # {} => h[x] = Step(kind, q, b[Max(x)], h[x \ {Max(x)}])
  <2>1. Folded(h, kind, q, base, b, U)
    OBVIOUS
  <2>2. IsFiniteSet(U) /\ \A x \in U : x \in Nat
    BY <1>3
  <2> QED BY ONLY <2>1, <2>2, FoldUnfolds
<1>4. t # {}
  BY <1>8, <1>9
<1>5. PICK m : m = Max(t)
  OBVIOUS
<1>6. /\ m \in t /\ t \ {m} \in SUBSET S
      /\ g[t] = Step(kind, q, a[m], g[t \ {m}])
      /\ h[t] = Step(kind, q, a[m], h[t \ {m}])
  <2>1. t \in SUBSET T /\ t \in SUBSET U
    OBVIOUS
  <2>2. m \in t
    BY <1>3, <1>4, <1>5, <2>1, FS_Subset, MaxIsGreatest
  <2>5. g[t] = Step(kind, q, a[m], g[t \ {m}])
    BY <1>4, <1>5, <1>8, <2>1
  <2>3. h[t] = Step(kind, q, b[m], h[t \ {m}])
    BY <1>4, <1>5, <1>9, <2>1
  <2>4. a[m] = b[m]
    BY <2>2
  <2> QED BY <2>2, <2>3, <2>4, <2>5
<1>7. t \ {m} \in B
  BY <1>6
<1> QED BY <1>2, <1>6, <1>7

LEMMA FoldsExist ==
  ASSUME NEW S, NEW kind, NEW q, NEW base, NEW s, \A x \in S : x \in Nat, IsFiniteSet(S)
  PROVE  \E g : Folded(g, kind, q, base, s, S)
<1> DEFINE B == { T \in SUBSET S : ~ \E g : Folded(g, kind, q, base, s, T) }
<1>1. SUFFICES ASSUME B # {} PROVE FALSE
  OBVIOUS
<1>2. PICK T \in B : \A U \in B : U \subseteq T => U = T
  <2>1. B \subseteq SUBSET S
    OBVIOUS
  <2> HIDE DEF B
  <2> QED BY <1>1, <2>1, SmallestSubset
<1>0. \A U \in SUBSET T : /\ \A x \in U : x \in Nat
                        /\ IsFiniteSet(U) /\ (U # {} => Max(U) \in U)
  BY <1>2, FS_Subset, MaxIsGreatest
<1> DEFINE done(U) == (CHOOSE h : Folded(h, kind, q, base, s, U))[U]
           g == [t \in SUBSET T |->
                   IF t = {} THEN base ELSE Step(kind, q, s[Max(t)], done(t \ {Max(t)}))]
<1>3. ASSUME NEW U, U \subseteq T, U # T
      PROVE  /\ U = {} => done(U) = base
             /\ U # {} => done(U) = Step(kind, q, s[Max(U)], done(U \ {Max(U)}))
  <2>1. PICK h : h = CHOOSE k : Folded(k, kind, q, base, s, U)
    OBVIOUS
  <2>2. Folded(h, kind, q, base, s, U)
    BY <1>2, <1>3, <2>1
  <2>3. done(U) = h[U]
    BY <2>1
  <2>4. ASSUME U # {}
        PROVE  done(U) = Step(kind, q, s[Max(U)], done(U \ {Max(U)}))
    <3>1. PICK m : m = Max(U)
      OBVIOUS
    <3>2. m \in U /\ h[U] = Step(kind, q, s[m], h[U \ {m}])
      BY <1>0, <1>3, <2>2, <2>4, <3>1, FoldUnfolds
    <3>3. PICK V, k : V = U \ {m} /\ k = CHOOSE f : Folded(f, kind, q, base, s, V)
      OBVIOUS
    <3>4. V \subseteq T /\ V # T
      BY <1>3, <3>2, <3>3
    <3>5. Folded(k, kind, q, base, s, V)
      BY <1>2, <3>3, <3>4
    <3>6. h[V] = k[V]
      <4>1. U \subseteq S /\ V \subseteq S /\ V \subseteq U /\ V \subseteq V
        BY <1>2, <1>3, <3>3
      <4>2. (\A x \in S : x \in Nat) /\ IsFiniteSet(S) /\ \A x \in V : s[x] = s[x]
        OBVIOUS
      <4> QED BY ONLY <2>2, <3>5, <4>1, <4>2, FoldsAgree
    <3> QED BY <2>3, <3>1, <3>2, <3>3, <3>6
  <2>5. U = {} => done(U) = base
    BY <1>0, <1>3, <2>2, <2>3, FoldUnfolds
  <2> QED BY <2>4, <2>5
<1>4. ASSUME NEW t \in SUBSET T, t # {}
      PROVE  g[t \ {Max(t)}] = done(t \ {Max(t)})
  <2>1. Max(t) \in t
    BY <1>0, <1>4
  <2>2. PICK U : U = t \ {Max(t)}
    OBVIOUS
  <2>3. U \subseteq T /\ U # T /\ U \in SUBSET T
    BY <2>1, <2>2
  <2>4. CASE U = {}
    <3>1. g[U] = base
      BY <2>3, <2>4
    <3>2. done(U) = base
      BY <1>3, <2>3, <2>4
    <3> QED BY <2>2, <3>1, <3>2
  <2>5. CASE U # {}
    <3>1. g[U] = Step(kind, q, s[Max(U)], done(U \ {Max(U)}))
      BY <2>3, <2>5
    <3>2. done(U) = Step(kind, q, s[Max(U)], done(U \ {Max(U)}))
      BY <1>3, <2>3, <2>5
    <3> QED BY <2>2, <3>1, <3>2
  <2> QED BY <2>4, <2>5
<1>5. PICK f : f = g
  OBVIOUS
<1>6. \A t \in SUBSET T :
        f[t] = IF t = {} THEN base ELSE Step(kind, q, s[Max(t)], f[t \ {Max(t)}])
  <2>1. ASSUME NEW t \in SUBSET T, t = {}
        PROVE  f[t] = base
    BY <1>5, <2>1
  <2>2. ASSUME NEW t \in SUBSET T, t # {}
        PROVE  f[t] = Step(kind, q, s[Max(t)], f[t \ {Max(t)}])
    <3>1. g[t] = Step(kind, q, s[Max(t)], done(t \ {Max(t)}))
      BY <2>2
    <3>2. g[t \ {Max(t)}] = done(t \ {Max(t)})
      BY <1>4, <2>2
    <3> HIDE DEF g, done
    <3> QED BY <1>5, <3>1, <3>2
  <2> QED BY <2>1, <2>2
<1>7. DOMAIN f = SUBSET T /\ f = [t \in DOMAIN f |-> f[t]]
  BY <1>5
<1>8. Folded(f, kind, q, base, s, T)
  <2> HIDE DEF g, B, done
  <2> QED BY <1>6, <1>7 DEF Folded
<1> QED BY <1>2, <1>8

\* What comes of the elements of a sequence, one after the other.
Runs(kind, q, base, s, st) ==
  /\ st[0] = base
  /\ \A i \in 1 .. Len(s) : st[i] = Step(kind, q, s[i], st[i - 1])

\* A fold, by its definition; `result' is the operator's value.
IsFold(kind, q, base, s, result) ==
  \E g : Folded(g, kind, q, base, s, DOMAIN s) /\ result = g[DOMAIN s]

LEMMA FoldRuns ==
  ASSUME NEW kind, NEW q, NEW base, NEW s, NEW result, IsFile(s),
         IsFold(kind, q, base, s, result)
  PROVE  \E st : Runs(kind, q, base, s, st) /\ result = st[Len(s)]
<1>1. PICK n, D : n = Len(s) /\ D = DOMAIN s
  OBVIOUS
<1>2. n \in Nat /\ D = 1 .. n /\ IsFiniteSet(D) /\ \A x \in D : x \in Nat
  <2>1. PICK S : s \in Seq(S)
    BY DEF IsFile
  <2>2. n \in Nat /\ D = 1 .. n
    BY <1>1, <2>1
  <2>3. IsFiniteSet(1 .. n)
    BY <2>2, FS_Interval
  <2> QED BY <2>2, <2>3
<1>3. PICK g : Folded(g, kind, q, base, s, D) /\ result = g[D]
  BY <1>1 DEF IsFold
<1>4. /\ g[{}] = base
      /\ \A t \in SUBSET D : t # {} => g[t] = Step(kind, q, s[Max(t)], g[t \ {Max(t)}])
  <2>1. \A x \in D : x \in Nat
    BY <1>2
  <2>2. IsFiniteSet(D)
    BY <1>2
  <2> QED BY ONLY <1>3, <2>1, <2>2, FoldUnfolds
<1> DEFINE st == [i \in 0 .. n |-> g[1 .. i]]
<1>5. st[0] = base
  <2>1. 1 .. 0 = {} /\ 0 \in 0 .. n
    BY <1>2
  <2> QED BY <1>4, <2>1
<1>6. ASSUME NEW i \in 1 .. n
      PROVE  st[i] = Step(kind, q, s[i], st[i - 1])
  <2>1. PICK I, J : I = 1 .. i /\ J = 1 .. i - 1
    OBVIOUS
  <2>2. I \in SUBSET D /\ I # {} /\ i \in I /\ (\A x \in I : x \in Nat /\ i >= x)
    <3>1. n \in Nat /\ D = 1 .. n /\ i \in 1 .. n
      BY <1>2
    <3>2. ASSUME NEW x \in I
          PROVE  x \in D /\ x \in Nat /\ i >= x
      BY ONLY <2>1, <3>1, <3>2
    <3>3. i \in I
      BY ONLY <2>1, <3>1
    <3> QED BY <3>2, <3>3
  <2>3. PICK m : m = Max(I)
    OBVIOUS
  <2>4. m \in I /\ \A x \in I : m >= x
    BY <1>2, <2>2, <2>3, FS_Subset, MaxIsGreatest
  <2>5. m = i
    BY <2>2, <2>4
  <2>6. J = I \ {i}
    BY <1>2, <2>1
  <2>7. g[I] = Step(kind, q, s[i], g[J])
    BY <1>4, <2>2, <2>3, <2>5, <2>6
  <2>8. st[i] = g[I] /\ st[i - 1] = g[J]
    BY <1>2, <2>1
  <2> QED BY <2>7, <2>8
<1>7. st[n] = g[D]
  BY <1>2
<1>8. PICK f : f = st
  OBVIOUS
<1> HIDE DEF st
<1>9. Runs(kind, q, base, s, f)
  BY <1>1, <1>5, <1>6, <1>8 DEF Runs
<1> QED BY <1>1, <1>3, <1>7, <1>8, <1>9

\* There is a fold over every sequence.
LEMMA FoldThere ==
  ASSUME NEW kind, NEW q, NEW base, NEW s, IsFile(s)
  PROVE  \E g : Folded(g, kind, q, base, s, DOMAIN s)
<1>1. PICK S : s \in Seq(S)
  BY DEF IsFile
<1>2. PICK n \in Nat : n = Len(s)
  BY <1>1
<1>3. DOMAIN s = 1 .. n
  BY <1>1, <1>2
<1>4. IsFiniteSet(1 .. n) /\ \A x \in 1 .. n : x \in Nat
  BY FS_Interval
<1> QED BY <1>3, <1>4, FoldsExist

LEMMA AfterFolds ==
  ASSUME NEW files, NEW calls, IsFile(calls)
  PROVE  IsFold("call", 0, files,
                calls, After(files, calls))
<1>1. PICK D, s, base : D = DOMAIN s /\ s = calls /\ base = files
  OBVIOUS
<1> DEFINE Here(g) == g = [t \in SUBSET D |->
                             IF t = {} THEN base
                             ELSE Call(g[t \ {Max(t)}], s[Max(t)])]
<1>2. After(files, calls) = (CHOOSE g : Here(g))[D]
  BY <1>1 DEF After, FoldLeft, MapThenFoldSet
<1>3. \A g : Here(g) <=> Folded(g, "call", 0, base, s, D)
  BY DEF Folded, Step
<1>4. \E g : Folded(g, "call", 0, base, s, D)
  BY <1>1, FoldThere
<1>5. PICK g : g = CHOOSE k : Here(k)
  OBVIOUS
<1>6. Here(g)
  <2> HIDE DEF Here
  <2> QED BY <1>3, <1>4, <1>5
<1>7. After(files, calls) = g[D]
  BY <1>2, <1>5
<1> HIDE DEF Here
<1> QED BY <1>1, <1>3, <1>6, <1>7 DEF IsFold

StartOfScan(file) ==
  [ok |-> Readable(file, 0, HeaderSize) /\ CellAt(file, 0).kind = "header",
   ranges |-> NoRanges, tail |-> HeaderSize, size |-> 0]

LEMMA ScanFolds ==
  ASSUME NEW file, IsFile(file)
  PROVE  IsFold("scan", file, StartOfScan(file),
                file, ScanSparseFile(file))
<1>1. PICK D, s, base : D = DOMAIN s /\ s = file /\ base = StartOfScan(file)
  OBVIOUS
<1> DEFINE Here(g) == g = [t \in SUBSET D |->
                             IF t = {} THEN base
                             ELSE ScanStep(file, g[t \ {Max(t)}])]
<1>2. ScanSparseFile(file) = (CHOOSE g : Here(g))[D]
  BY <1>1 DEF ScanSparseFile, StartOfScan, FoldLeft, MapThenFoldSet
<1>3. \A g : Here(g) <=> Folded(g, "scan", file, base, s, D)
  BY DEF Folded, Step
<1>4. \E g : Folded(g, "scan", file, base, s, D)
  BY <1>1, FoldThere
<1>5. PICK g : g = CHOOSE k : Here(k)
  OBVIOUS
<1>6. Here(g)
  <2> HIDE DEF Here
  <2> QED BY <1>3, <1>4, <1>5
<1>7. ScanSparseFile(file) = g[D]
  BY <1>2, <1>5
<1> HIDE DEF Here
<1> QED BY <1>1, <1>3, <1>6, <1>7 DEF IsFold

StartOfRead == [ok |-> TRUE, cells |-> <<>>, whole |-> {}]

LEMMA ReadFolds ==
  ASSUME NEW e, NEW offset, NEW length, IsFile(From(e.ranges, offset))
  PROVE  IsFold("read", <<e, offset, length>>, StartOfRead,
                From(e.ranges, offset), ReadSparseData(e, offset, length))
<1>1. PICK D, s, base : D = DOMAIN s /\ s = From(e.ranges, offset) /\ base = StartOfRead
  OBVIOUS
<1> DEFINE Here(g) == g = [t \in SUBSET D |->
                             IF t = {} THEN base
                             ELSE ReadStep(e, offset, length, g[t \ {Max(t)}], s[Max(t)])]
<1>2. ReadSparseData(e, offset, length) = (CHOOSE g : Here(g))[D]
  BY <1>1 DEF ReadSparseData, StartOfRead, FoldLeft, MapThenFoldSet
<1>3. \A g : Here(g) <=> Folded(g, "read", <<e, offset, length>>, base, s, D)
  BY DEF Folded, Step
<1>4. \E g : Folded(g, "read", <<e, offset, length>>, base, s, D)
  BY <1>1, FoldThere
<1>5. PICK g : g = CHOOSE k : Here(k)
  OBVIOUS
<1>6. Here(g)
  <2> HIDE DEF Here
  <2> QED BY <1>3, <1>4, <1>5
<1>7. ReadSparseData(e, offset, length) = g[D]
  BY <1>2, <1>5
<1> HIDE DEF Here
<1> QED BY <1>1, <1>3, <1>6, <1>7 DEF IsFold

\* GetAvailableRange: what comes of the ranges ahead.
AvailableOf(ahead, start, offset, length) ==
  FoldLeft(LAMBDA acc, r : AvailableStep(offset, length, acc, r),
           [start |-> start, available |-> 0], ahead)

LEMMA AvailableFolds ==
  ASSUME NEW ahead, NEW start, NEW offset, NEW length, IsFile(ahead)
  PROVE  IsFold("available", <<0, offset, length>>, [start |-> start, available |-> 0],
                ahead, AvailableOf(ahead, start, offset, length))
<1>1. PICK D, s, base : D = DOMAIN s /\ s = ahead /\ base = [start |-> start, available |-> 0]
  OBVIOUS
<1> DEFINE Here(g) == g = [t \in SUBSET D |->
                             IF t = {} THEN base
                             ELSE AvailableStep(offset, length, g[t \ {Max(t)}], s[Max(t)])]
<1>2. AvailableOf(ahead, start, offset, length) = (CHOOSE g : Here(g))[D]
  BY <1>1 DEF AvailableOf, FoldLeft, MapThenFoldSet
<1>3. \A g : Here(g) <=> Folded(g, "available", <<0, offset, length>>, base, s, D)
  BY DEF Folded, Step
<1>4. \E g : Folded(g, "available", <<0, offset, length>>, base, s, D)
  BY <1>1, FoldThere
<1>5. PICK g : g = CHOOSE k : Here(k)
  OBVIOUS
<1>6. Here(g)
  <2> HIDE DEF Here
  <2> QED BY <1>3, <1>4, <1>5
<1>7. AvailableOf(ahead, start, offset, length) = g[D]
  BY <1>2, <1>5
<1> HIDE DEF Here
<1> QED BY <1>1, <1>3, <1>6, <1>7 DEF IsFold

StartOfWrite(e) ==
  [calls |-> <<>>, ranges |-> e.ranges, tail |-> e.tail,
   done |-> 0, appended |-> 0, short |-> e.short]

LEMMA WriteFolds ==
  ASSUME NEW e, NEW offset, NEW data, NEW lost, IsFile(From(e.ranges, offset))
  PROVE  IsFold("write", <<offset, data, lost>>, StartOfWrite(e),
                From(e.ranges, offset), OverRanges(e, offset, data, lost))
<1>1. PICK D, s, base : D = DOMAIN s /\ s = From(e.ranges, offset) /\ base = StartOfWrite(e)
  OBVIOUS
<1> DEFINE Here(g) == g = [t \in SUBSET D |->
                             IF t = {} THEN base
                             ELSE WriteStep(g[t \ {Max(t)}], s[Max(t)], offset, data, lost)]
<1>2. OverRanges(e, offset, data, lost) = (CHOOSE g : Here(g))[D]
  BY <1>1 DEF OverRanges, StartOfWrite, FoldLeft, MapThenFoldSet
<1>3. \A g : Here(g) <=> Folded(g, "write", <<offset, data, lost>>, base, s, D)
  BY DEF Folded, Step
<1>4. \E g : Folded(g, "write", <<offset, data, lost>>, base, s, D)
  BY <1>1, FoldThere
<1>5. PICK g : g = CHOOSE k : Here(k)
  OBVIOUS
<1>6. Here(g)
  <2> HIDE DEF Here
  <2> QED BY <1>3, <1>4, <1>5
<1>7. OverRanges(e, offset, data, lost) = g[D]
  BY <1>2, <1>5
<1> HIDE DEF Here
<1> QED BY <1>1, <1>3, <1>6, <1>7 DEF IsFold

-------------------------------------------------------------------------------
(* Files and calls *)

LEMMA FileFacts ==
  ASSUME NEW f, IsFile(f)
  PROVE  /\ Len(f) \in Nat /\ DOMAIN f = 1 .. Len(f)
         /\ f = [i \in 1 .. Len(f) |-> f[i]]
         /\ (f = <<>> <=> Len(f) = 0)
<1>1. PICK S : f \in Seq(S)
  BY DEF IsFile
<1> QED BY <1>1

LEMMA FunctionIsFile ==
  ASSUME NEW f, NEW n, n \in Nat, f = [i \in 1 .. n |-> f[i]]
  PROVE  IsFile(f) /\ Len(f) = n
<1>1. PICK S : S = { f[i] : i \in 1 .. n }
  OBVIOUS
<1>2. f \in [1 .. n -> S]
  BY <1>1
<1>3. f \in Seq(S) /\ Len(f) = n
  BY <1>2
<1> QED BY <1>3 DEF IsFile

LEMMA SingleIsFile ==
  ASSUME NEW c
  PROVE  IsFile(<<c>>) /\ Len(<<c>>) = 1 /\ <<c>>[1] = c
<1>1. <<c>> \in Seq({c})
  OBVIOUS
<1> QED BY <1>1 DEF IsFile

LEMMA EmptyIsFile == IsFile(<<>>) /\ Len(<<>>) = 0
<1>1. <<>> \in Seq({})
  OBVIOUS
<1> QED BY <1>1 DEF IsFile

\* A sequence of n cells; n cells of f, from a on; n bytes of one write.
Long(f, n) == n \in Nat /\ IsFile(f) /\ Len(f) = n
IsPart(g, f, a, n) == Long(g, n) /\ \A i \in 1 .. n : g[i] = f[a + i]
IsRun(g, b, n) == Long(g, n) /\ \A i \in 1 .. n : g[i] = Byte(b)

LEMMA LongIs ==
  ASSUME NEW f, IsFile(f)
  PROVE  Long(f, Len(f))
BY FileFacts DEF Long

LEMMA CellsFacts ==
  ASSUME NEW f, NEW a, NEW n, NEW N, Long(f, N), a \in Nat, n \in Nat, a + n <= N
  PROVE  IsPart(Cells(f, a, n), f, a, n)
<1>1. PICK S : f \in Seq(S)
  BY DEF IsFile, Long
<1>2. PICK g : g = Cells(f, a, n)
  OBVIOUS
<1>3. g = SubSeq(f, a + 1, a + n) /\ N \in Nat /\ Len(f) = N
  BY <1>2 DEF Cells, Long
<1>4. Len(g) = n
  BY <1>1, <1>3
<1>5. \A i \in 1 .. n : g[i] = f[a + i]
  BY <1>1, <1>3
<1>6. g \in Seq(S)
  BY <1>1, <1>3
<1>7. IsFile(g)
  BY <1>6 DEF IsFile
<1>8. IsPart(g, f, a, n)
  BY <1>4, <1>5, <1>7 DEF IsPart, Long
<1> QED BY <1>2, <1>8

LEMMA SetLengthFacts ==
  ASSUME NEW f, NEW n, IsFile(f), n \in Nat
  PROVE  /\ IsFile(SetLength(f, n)) /\ Len(SetLength(f, n)) = n
         /\ \A i \in 1 .. n :
              SetLength(f, n)[i] = IF i <= Len(f) THEN f[i] ELSE Byte(0)
<1>1. PICK g : g = SetLength(f, n)
  OBVIOUS
<1>2. g = [i \in 1 .. n |-> IF i <= Len(f) THEN f[i] ELSE Byte(0)]
  BY <1>1 DEF SetLength
<1>3. g = [i \in 1 .. n |-> g[i]]
  BY <1>2
<1>4. IsFile(g) /\ Len(g) = n
  BY <1>3, FunctionIsFile
<1> QED BY <1>1, <1>2, <1>4

LEMMA WriteAtFacts ==
  ASSUME NEW f, NEW cells, NEW offset, IsFile(f), IsFile(cells), offset \in Nat
  PROVE  LET g == WriteAt(f, offset, cells)
             end == offset + Len(cells)
         IN /\ IsFile(g)
            /\ Len(g) = IF cells = <<>> \/ Len(f) > end THEN Len(f) ELSE end
            /\ \A i \in 1 .. Len(g) :
                 g[i] = IF i > offset /\ i <= end THEN cells[i - offset]
                        ELSE IF i <= Len(f) THEN f[i] ELSE Byte(0)
<1>1. CASE cells = <<>>
  <2>1. WriteAt(f, offset, cells) = f /\ Len(cells) = 0
    BY <1>1 DEF WriteAt
  <2> QED BY <1>1, <2>1, FileFacts
<1>2. CASE cells # <<>>
  <2>1. PICK end : end = offset + Len(cells)
    OBVIOUS
  <2>2. end \in Nat /\ Len(f) \in Nat
    BY <2>1, FileFacts
  <2>3. PICK n : n = IF Len(f) > end THEN Len(f) ELSE end
    OBVIOUS
  <2>4. PICK p : p = SetLength(f, n)
    OBVIOUS
  <2>5. /\ n \in Nat /\ IsFile(p) /\ Len(p) = n
        /\ \A i \in 1 .. n : p[i] = IF i <= Len(f) THEN f[i] ELSE Byte(0)
    BY <2>2, <2>3, <2>4, SetLengthFacts
  <2>6. DOMAIN p = 1 .. n
    BY <2>5, FileFacts
  <2>7. PICK g : g = WriteAt(f, offset, cells)
    OBVIOUS
  <2>8. g = [i \in 1 .. n |-> IF i > offset /\ i <= end THEN cells[i - offset] ELSE p[i]]
    BY <1>2, <2>1, <2>3, <2>4, <2>6, <2>7 DEF WriteAt
  <2>9. g = [i \in 1 .. n |-> g[i]]
    BY <2>8
  <2>10. IsFile(g) /\ Len(g) = n
    BY <2>5, <2>9, FunctionIsFile
  <2> QED BY <1>2, <2>1, <2>3, <2>5, <2>7, <2>8, <2>10
<1> QED BY <1>1, <1>2

LEMMA RunFacts ==
  ASSUME NEW b, NEW n, n \in Nat
  PROVE  IsRun(Run(b, n), b, n)
<1>1. PICK f : f = Run(b, n)
  OBVIOUS
<1>2. f = [i \in 1 .. n |-> Byte(b)]
  BY <1>1 DEF Run
<1>3. f = [i \in 1 .. n |-> f[i]]
  BY <1>2
<1>4. IsFile(f) /\ Len(f) = n
  BY <1>3, FunctionIsFile
<1>5. IsRun(f, b, n)
  BY <1>2, <1>4 DEF IsRun, Long
<1> QED BY <1>1, <1>5

LEMMA SameRun ==
  ASSUME NEW f, NEW b, NEW n, IsRun(f, b, n)
  PROVE  f = Run(b, n)
<1>0. n \in Nat /\ IsFile(f) /\ Len(f) = n /\ \A i \in 1 .. n : f[i] = Byte(b)
  BY DEF IsRun, Long
<1>1. f = [i \in 1 .. n |-> f[i]]
  BY <1>0, FileFacts
<1>2. PICK g : g = Run(b, n)
  OBVIOUS
<1>3. g = [i \in 1 .. n |-> Byte(b)]
  BY <1>2 DEF Run
<1>4. f = g
  BY <1>0, <1>1, <1>3
<1> QED BY <1>2, <1>4

LEMMA RunPart ==
  ASSUME NEW b, NEW n, NEW a, NEW k, n \in Nat, a \in Nat, k \in Nat, a + k <= n
  PROVE  Cells(Run(b, n), a, k) = Run(b, k)
<1>1. PICK f, g : f = Run(b, n) /\ g = Cells(f, a, k)
  OBVIOUS
<1>2. Long(f, n) /\ \A i \in 1 .. n : f[i] = Byte(b)
  BY <1>1, RunFacts DEF IsRun
<1>3. IsPart(g, f, a, k)
  BY <1>1, <1>2, CellsFacts
<1>4. ASSUME NEW i \in 1 .. k
      PROVE  g[i] = Byte(b)
  <2>1. a + i \in 1 .. n /\ g[i] = f[a + i]
    BY <1>3 DEF IsPart
  <2> QED BY <1>2, <2>1
<1>5. g = Run(b, k)
  <2>1. IsRun(g, b, k)
    BY <1>3, <1>4 DEF IsPart, IsRun
  <2> QED BY <2>1, SameRun
<1> QED BY <1>1, <1>5

LEMMA RunFront ==
  ASSUME NEW b, NEW n, NEW m, n \in Nat, m \in Nat, n = m + 1
  PROVE  Front(Run(b, n)) = Run(b, m)
<1>1. PICK f, a : f = Run(b, n) /\ a = 0
  OBVIOUS
<1>2. Cells(f, a, m) = Run(b, m)
  <2>1. a \in Nat /\ a + m <= n
    BY <1>1
  <2> QED BY <1>1, <2>1, RunPart
<1>3. Len(f) = n
  BY <1>1, RunFacts DEF IsRun, Long
<1>4. SubSeq(f, 1, m) = Run(b, m)
  BY <1>1, <1>2 DEF Cells
<1>5. Front(f) = SubSeq(f, 1, m)
  BY <1>3 DEF Front
<1> QED BY <1>1, <1>4, <1>5

LEMMA AppendFacts ==
  ASSUME NEW s, NEW c, IsFile(s)
  PROVE  /\ IsFile(Append(s, c)) /\ Len(Append(s, c)) = Len(s) + 1
         /\ Append(s, c)[Len(s) + 1] = c
         /\ \A i \in 1 .. Len(s) : Append(s, c)[i] = s[i]
         /\ s \o <<c>> = Append(s, c) /\ s \o <<>> = s
         /\ SubSeq(Append(s, c), 1, Len(s)) = s
         /\ \A i \in 0 .. Len(s) : SubSeq(Append(s, c), 1, i) = SubSeq(s, 1, i)
<1>1. PICK S : s \in Seq(S)
  BY DEF IsFile
<1>2. PICK T : T = S \cup {c}
  OBVIOUS
<1>3. s \in Seq(T) /\ c \in T
  BY <1>1, <1>2
<1>4. PICK a : a = Append(s, c)
  OBVIOUS
<1>5. /\ a \in Seq(T) /\ Len(a) = Len(s) + 1 /\ a[Len(s) + 1] = c
      /\ \A i \in 1 .. Len(s) : a[i] = s[i]
  BY <1>3, <1>4
<1>6. s \o <<c>> = Append(s, c)
  BY <1>3
<1>7. s \o <<>> = s
  BY <1>3
<1>8. ASSUME NEW i \in 0 .. Len(s)
      PROVE  SubSeq(a, 1, i) = SubSeq(s, 1, i)
  BY <1>3, <1>5
<1>9. SubSeq(s, 1, Len(s)) = s /\ Len(s) \in 0 .. Len(s)
  BY <1>3
<1>10. SubSeq(a, 1, Len(s)) = s
  BY <1>8, <1>9
<1> QED BY <1>4, <1>5, <1>6, <1>7, <1>8, <1>10 DEF IsFile

LEMMA AfterNone ==
  ASSUME NEW files
  PROVE  After(files, <<>>) = files
<1>1. PICK s : s = <<>>
  OBVIOUS
<1>2. IsFile(s) /\ Len(s) = 0
  BY <1>1, EmptyIsFile
<1>3. IsFold("call", 0, files, s, After(files, s))
  BY <1>2, AfterFolds
<1>4. PICK st : Runs("call", 0, files, s, st) /\ After(files, s) = st[Len(s)]
  BY <1>2, <1>3, FoldRuns
<1> QED BY <1>1, <1>2, <1>4 DEF Runs

LEMMA AfterAppend ==
  ASSUME NEW files, NEW s, NEW c, IsFile(s)
  PROVE  After(files, Append(s, c)) = Call(After(files, s), c)
<1>1. PICK n, t : n = Len(s) /\ t = Append(s, c)
  OBVIOUS
<1>2. PICK D, U : D = 1 .. n /\ U = 1 .. n + 1
  OBVIOUS
<1>3. /\ n \in Nat /\ DOMAIN s = D /\ DOMAIN t = U /\ IsFile(t)
      /\ t[n + 1] = c /\ \A i \in D : t[i] = s[i]
  <2>1. n \in Nat /\ DOMAIN s = D
    BY <1>1, <1>2, FileFacts
  <2>2. IsFile(t) /\ Len(t) = n + 1 /\ t[n + 1] = c /\ \A i \in 1 .. n : t[i] = s[i]
    BY <1>1, AppendFacts
  <2>3. DOMAIN t = U
    BY <1>2, <2>2, FileFacts
  <2> QED BY <1>2, <2>1, <2>2, <2>3
<1>4. /\ IsFiniteSet(U) /\ IsFiniteSet(D)
      /\ (\A x \in U : x \in Nat) /\ (\A x \in D : x \in Nat)
      /\ D \subseteq U /\ U # {} /\ D = U \ {n + 1}
  <2>1. n \in Nat
    BY <1>3
  <2>2. IsFiniteSet(D) /\ IsFiniteSet(U)
    BY <1>2, <2>1, FS_Interval
  <2>3. /\ (\A x \in U : x \in Nat) /\ (\A x \in D : x \in Nat)
        /\ D \subseteq U /\ n + 1 \in U
    BY <1>2, <2>1
  <2>4. ASSUME NEW x
        PROVE  x \in D <=> x \in U /\ x # n + 1
    BY <1>2, <2>1
  <2> QED BY <2>2, <2>3, <2>4
<1>5. Max(U) = n + 1
  <2>1. PICK m : m = Max(U)
    OBVIOUS
  <2>2. m \in U /\ \A x \in U : m >= x
    BY <1>4, <2>1, MaxIsGreatest
  <2> QED BY <1>2, <1>3, <2>1, <2>2
<1>6. PICK g : Folded(g, "call", 0, files, t, U) /\ After(files, t) = g[U]
  BY <1>3, AfterFolds DEF IsFold
<1>7. PICK h : Folded(h, "call", 0, files, s, D) /\ After(files, s) = h[D]
  BY <1>3, AfterFolds DEF IsFold
<1>8. g[U] = Step("call", 0, c, g[D])
  <2>1. U \in SUBSET U
    OBVIOUS
  <2>2. g[U] = Step("call", 0, t[Max(U)], g[U \ {Max(U)}])
    <3>1. \A x \in U : x \in Nat
      BY <1>4
    <3>2. IsFiniteSet(U) /\ U # {}
      BY <1>4
    <3>3. PICK kind, q : kind = "call" /\ q = 0
      OBVIOUS
    <3>4. Folded(g, kind, q, files, t, U)
      BY <1>6, <3>3
    <3>5. \A x \in SUBSET U : x # {} => g[x] = Step(kind, q, t[Max(x)], g[x \ {Max(x)}])
      BY ONLY <3>1, <3>2, <3>4, FoldUnfolds
    <3> QED BY <2>1, <3>2, <3>3, <3>5
  <2> QED BY <1>3, <1>4, <1>5, <2>2
<1>9. g[D] = h[D]
  <2>1. U \subseteq U /\ D \subseteq U /\ D \subseteq D
    BY <1>4
  <2>2. PICK kind, q : kind = "call" /\ q = 0
    OBVIOUS
  <2>3. Folded(g, kind, q, files, t, U) /\ Folded(h, kind, q, files, s, D)
    BY <1>6, <1>7, <2>2
  <2>4. \A i \in D : t[i] = s[i]
    BY <1>3
  <2>5. IsFiniteSet(U) /\ \A x \in U : x \in Nat
    BY <1>4
  <2> QED BY ONLY <2>1, <2>3, <2>4, <2>5, FoldsAgree
<1>10. \A x, y : Step("call", 0, x, y) = Call(y, x)
  BY DEF Step
<1> QED BY <1>1, <1>6, <1>7, <1>8, <1>9, <1>10

\* A list of writes to the sparse file, and no other.
OneFile(f) == [sparse |-> f]
OfOneFile(F, calls) == IsFile(calls) /\ After(OneFile(F), calls) = OneFile(FileAfter(F, calls))

\* Whichever of the calls is torn, a Sound file is left.
Tears(F, calls, L) ==
  /\ OfOneFile(F, calls)
  /\ \A n \in DOMAIN calls : \A g \in FilesTornAt(F, calls, n) : Soundable(g, L)

LEMMA WriteIs ==
  ASSUME NEW f, NEW o, NEW cells
  PROVE  /\ Call(OneFile(f), Write(o, cells)) = OneFile(WriteAt(f, o, cells))
         /\ Torn(OneFile(f), Write(o, cells))
              = { OneFile(WriteAt(f, o, SubSeq(cells, 1, m))) : m \in 0 .. Len(cells) - 1 }
<1>1. \A g : [OneFile(f) EXCEPT !["sparse"] = g] = OneFile(g)
  BY DEF OneFile
<1>2. OneFile(f)["sparse"] = f
  BY DEF OneFile
<1>3. Call(OneFile(f), Write(o, cells)) = [OneFile(f) EXCEPT !["sparse"] = WriteAt(OneFile(f)["sparse"], o, cells)]
  BY DEF Call, Write, WriteCall
<1>4. Torn(OneFile(f), Write(o, cells))
        = { [OneFile(f) EXCEPT !["sparse"] = WriteAt(OneFile(f)["sparse"], o, SubSeq(cells, 1, m))]
              : m \in 0 .. Len(cells) - 1 }
  BY DEF Torn, Write, WriteCall
<1> QED BY <1>1, <1>2, <1>3, <1>4

LEMMA TearsNone ==
  ASSUME NEW F, NEW L
  PROVE  Tears(F, <<>>, L) /\ FileAfter(F, <<>>) = F
<1>1. PICK s : s = <<>>
  OBVIOUS
<1>2. IsFile(s) /\ Len(s) = 0 /\ DOMAIN s = 1 .. 0
  BY <1>1, EmptyIsFile, FileFacts
<1>3. After(OneFile(F), s) = OneFile(F)
  BY <1>1, AfterNone
<1>4. FileAfter(F, s) = F
  BY <1>3 DEF FileAfter, OneFile
<1>5. 1 .. 0 = {}
  OBVIOUS
<1> QED BY <1>1, <1>2, <1>3, <1>4, <1>5 DEF Tears, OfOneFile

LEMMA TearsMore ==
  ASSUME NEW F, NEW calls, NEW L, NEW o, NEW cells, NEW f, Tears(F, calls, L),
         f = FileAfter(F, calls),
         \A m \in 0 .. Len(cells) - 1 : Soundable(WriteAt(f, o, SubSeq(cells, 1, m)), L)
  PROVE  /\ Tears(F, Append(calls, Write(o, cells)), L)
         /\ FileAfter(F, Append(calls, Write(o, cells))) = WriteAt(f, o, cells)
<1>1. PICK c, t, k : c = Write(o, cells) /\ t = Append(calls, c) /\ k = Len(calls)
  OBVIOUS
<1>2. IsFile(calls) /\ After(OneFile(F), calls) = OneFile(f)
  BY DEF Tears, OfOneFile
<1>3. /\ k \in Nat /\ IsFile(t) /\ Len(t) = k + 1 /\ DOMAIN t = 1 .. k + 1
      /\ DOMAIN calls = 1 .. k /\ t[k + 1] = c
      /\ \A i \in 1 .. k : t[i] = calls[i]
      /\ SubSeq(t, 1, k) = calls
      /\ \A i \in 0 .. k : SubSeq(t, 1, i) = SubSeq(calls, 1, i)
  BY <1>1, <1>2, AppendFacts, FileFacts
<1>4. After(OneFile(F), t) = OneFile(WriteAt(f, o, cells))
  BY <1>1, <1>2, AfterAppend, WriteIs
<1>5. FileAfter(F, t) = WriteAt(f, o, cells)
  BY <1>4 DEF FileAfter, OneFile
<1>6. ASSUME NEW n \in DOMAIN t, NEW g \in FilesTornAt(F, t, n)
      PROVE  Soundable(g, L)
  <2>1. g \in { h.sparse : h \in Torn(After(OneFile(F), SubSeq(t, 1, n - 1)), t[n]) }
    BY <1>6 DEF FilesTornAt, TornAt, OneFile
  <2>2. CASE n = k + 1
    <3>1. n - 1 = k
      BY <1>3, <2>2
    <3>2. g \in { h.sparse : h \in Torn(OneFile(f), c) }
      BY <1>2, <1>3, <2>1, <2>2, <3>1
    <3>3. Torn(OneFile(f), c)
            = { OneFile(WriteAt(f, o, SubSeq(cells, 1, m))) : m \in 0 .. Len(cells) - 1 }
      BY <1>1, WriteIs, SMTT(30)
    <3>4. PICK m \in 0 .. Len(cells) - 1 : g = OneFile(WriteAt(f, o, SubSeq(cells, 1, m))).sparse
      BY <3>2, <3>3
    <3>5. g = WriteAt(f, o, SubSeq(cells, 1, m))
      BY <3>4 DEF OneFile
    <3> QED BY <3>5
  <2>3. CASE n # k + 1
    <3>1. n \in 1 .. k /\ n - 1 \in 0 .. k
      BY <1>3, <2>3
    <3>2. SubSeq(t, 1, n - 1) = SubSeq(calls, 1, n - 1) /\ t[n] = calls[n]
      BY <1>3, <3>1
    <3>3. g \in FilesTornAt(F, calls, n)
      BY <2>1, <3>2 DEF FilesTornAt, TornAt, OneFile
    <3> QED BY <1>3, <3>1, <3>3 DEF Tears
  <2> QED BY <2>2, <2>3
<1> QED BY <1>1, <1>3, <1>4, <1>5, <1>6 DEF Tears, OfOneFile

-------------------------------------------------------------------------------
(* The ranges in order *)

Increasing(f, n, S) ==
  f \in [1 .. n -> S] /\ \A i, j \in 1 .. n : i < j => f[i] < f[j]

LEMMA OrderThere ==
  ASSUME NEW S, IsFiniteSet(S), \A x \in S : x \in Nat
  PROVE  \E f : Increasing(f, Cardinality(S), S)
<1> DEFINE B == { T \in SUBSET S : ~ \E f : Increasing(f, Cardinality(T), T) }
<1>1. SUFFICES ASSUME B # {} PROVE FALSE
  OBVIOUS
<1>2. PICK T \in B : \A U \in B : U \subseteq T => U = T
  <2>1. B \subseteq SUBSET S
    OBVIOUS
  <2> HIDE DEF B
  <2> QED BY <1>1, <2>1, SmallestSubset
<1>3. IsFiniteSet(T) /\ \A x \in T : x \in Nat
  BY <1>2, FS_Subset
<1>4. CASE T = {}
  <2>1. Cardinality(T) = 0
    BY <1>4, FS_EmptySet
  <2>2. PICK f : f = [i \in {} |-> 0]
    OBVIOUS
  <2>3. 1 .. 0 = {}
    OBVIOUS
  <2>4. Increasing(f, 0, T)
    BY <2>2, <2>3 DEF Increasing
  <2> QED BY <1>2, <2>1, <2>4
<1>5. CASE T # {}
  <2>1. PICK m, U : m = Max(T) /\ U = T \ {m}
    OBVIOUS
  <2>2. m \in T /\ \A x \in T : m >= x
    BY <1>3, <1>5, <2>1, MaxIsGreatest
  <2>3. U \notin B /\ U \in SUBSET S
    BY <1>2, <2>1, <2>2
  <2>4. PICK n : n = Cardinality(U)
    OBVIOUS
  <2>5. PICK f : Increasing(f, n, U)
    BY <2>3, <2>4
  <2>6. n \in Nat /\ Cardinality(T) = n + 1
    <3>1. IsFiniteSet(U)
      BY <1>3, <2>1, FS_Subset
    <3>2. Cardinality(U) \in Nat /\ Cardinality(T) \in Nat
      BY <1>3, <3>1, FS_CardinalityType
    <3>3. Cardinality(U) = Cardinality(T) - 1
      BY <1>3, <2>1, <2>2, FS_RemoveElement
    <3> QED BY <2>4, <3>2, <3>3
  <2>7. PICK g : g = [i \in 1 .. n + 1 |-> IF i = n + 1 THEN m ELSE f[i]]
    OBVIOUS
  <2>8. ASSUME NEW i \in 1 .. n + 1
        PROVE  /\ g[i] \in T /\ (i = n + 1 => g[i] = m)
               /\ i # n + 1 => i \in 1 .. n /\ g[i] = f[i] /\ f[i] \in U
    BY <2>1, <2>2, <2>5, <2>6, <2>7 DEF Increasing
  <2>9. ASSUME NEW i \in 1 .. n + 1, NEW j \in 1 .. n + 1, i < j
        PROVE  g[i] < g[j]
    <3>1. i # n + 1
      BY <2>6, <2>9
    <3>2. CASE j = n + 1
      <4>1. g[i] \in U /\ g[j] = m
        BY <2>8, <3>1, <3>2
      <4>2. m >= g[i] /\ m # g[i] /\ m \in Nat /\ g[i] \in Nat
        BY <1>3, <2>1, <2>2, <4>1
      <4> QED BY <4>1, <4>2
    <3>3. CASE j # n + 1
      BY <2>5, <2>8, <2>9, <3>1, <3>3 DEF Increasing
    <3> QED BY <3>2, <3>3
  <2>10. g \in [1 .. n + 1 -> T]
    BY <2>7, <2>8
  <2>11. Increasing(g, n + 1, T)
    BY <2>9, <2>10 DEF Increasing
  <2> QED BY <1>2, <2>6, <2>11
<1> QED BY <1>4, <1>5

\* A sequence has the ranges with offsets in D, in order.
InOrder(q, R, D, n, f) ==
  /\ IsFile(q) /\ n \in Nat /\ Len(q) = n
  /\ Increasing(f, n, D) /\ \A o \in D : \E i \in 1 .. n : f[i] = o
  /\ \A i \in 1 .. n : q[i] = R[f[i]]

LEMMA SortedFacts ==
  ASSUME NEW R, IsFiniteSet(DOMAIN R), \A o \in DOMAIN R : o \in Nat
  PROVE  \E n, f : InOrder(SortedRanges(R), R, DOMAIN R, n, f)
<1>1. PICK n, D : n = Cardinality(DOMAIN R) /\ D = DOMAIN R
  OBVIOUS
<1>2. n \in Nat
  BY <1>1, FS_CardinalityType
<1> DEFINE Sorts(g) == g \in [1 .. n -> D] /\ \A i, j \in DOMAIN g : i < j => g[i] < g[j]
<1>3. \E g : Sorts(g)
  <2>1. PICK g : Increasing(g, n, D)
    BY <1>1, OrderThere
  <2>2. Sorts(g)
    BY <2>1 DEF Increasing
  <2> QED BY <2>2
<1>4. PICK f : f = CHOOSE g \in [1 .. n -> D] : \A i, j \in DOMAIN g : i < j => g[i] < g[j]
  OBVIOUS
<1>5. Sorts(f)
  BY <1>3, <1>4
<1>6. PICK q : q = SortedRanges(R)
  OBVIOUS
<1>7. q = [i \in DOMAIN f |-> R[f[i]]]
  BY <1>1, <1>4, <1>6 DEF SortedRanges
<1>8. DOMAIN f = 1 .. n /\ Increasing(f, n, D)
  BY <1>5 DEF Increasing
<1>9. q = [i \in 1 .. n |-> q[i]] /\ \A i \in 1 .. n : q[i] = R[f[i]]
  BY <1>7, <1>8
<1>10. IsFile(q) /\ Len(q) = n
  BY <1>2, <1>9, FunctionIsFile
<1>11. \A o \in D : \E i \in 1 .. n : f[i] = o
  <2>1. IsFiniteSet(1 .. n) /\ Cardinality(1 .. n) = n
    BY <1>2, FS_Interval
  <2>2. f \in [1 .. n -> D]
    BY <1>5
  <2>3. ASSUME NEW i \in 1 .. n, NEW j \in 1 .. n, f[i] = f[j]
        PROVE  i = j
    <3>1. f[i] \in Nat /\ f[j] \in Nat
      BY <1>1, <2>2
    <3>2. ~ (i < j) /\ ~ (j < i)
      BY <1>8, <2>3, <3>1 DEF Increasing
    <3> QED BY <1>2, <3>2
  <2>4. f \in Injection(1 .. n, D)
    BY <2>2, <2>3 DEF Injection, IsInjective
  <2>5. f \in Surjection(1 .. n, D)
    BY <1>1, <2>1, <2>4, FS_Injection
  <2> QED BY <2>5 DEF Surjection
<1>12. InOrder(q, R, D, n, f)
  BY <1>2, <1>8, <1>9, <1>10, <1>11 DEF InOrder
<1> QED BY <1>1, <1>6, <1>12

\* What a range of a sparse file is.
LEMMA RangeFacts ==
  ASSUME NEW R, NEW L, NEW o, IsRanges(R, L), o \in DOMAIN R
  PROVE  /\ R[o].offset = o /\ o \in Nat /\ R[o].length \in Nat /\ R[o].length > 0
         /\ R[o].at \in Nat /\ R[o].at >= 3 /\ LawfulCrc(R[o].crc, o, R[o].length, L)
<1>1. PICK r : r = R[o]
  OBVIOUS
<1>2. IsRange(r, o, L)
  BY <1>1 DEF IsRanges
<1>3. r = [offset |-> o, length |-> r.length, crc |-> r.crc, at |-> r.at]
  BY <1>2 DEF IsRange
<1>4. r.offset = o
  BY <1>3
<1> QED BY <1>1, <1>2, <1>4 DEF IsRange

\* The ranges that reach beyond an offset.
Beyond(R, offset) == { o \in DOMAIN R : o + R[o].length > offset }

LEMMA FromFacts ==
  ASSUME NEW R, NEW L, NEW offset, IsRanges(R, L), Disjoint(R), offset \in Nat
  PROVE  \E n, f : InOrder(From(R, offset), R, Beyond(R, offset), n, f)
<1> DEFINE before == { o \in DOMAIN R : o < offset }
           isLast(o) == \A p \in before : p <= o
           reached == { o \in before : isLast(o) /\ o + R[o].length > offset }
<1>1. PICK D, P : D = reached \cup (DOMAIN R \ before) /\ P = Restrict(R, D)
  OBVIOUS
<1>2. \A o \in DOMAIN R : o \in Nat /\ R[o].length \in Nat /\ R[o].length > 0
  BY RangeFacts
<1>3. ASSUME NEW o \in Beyond(R, offset)
      PROVE  o \in D
  <2>1. o \in DOMAIN R /\ o + R[o].length > offset
    BY <1>3 DEF Beyond
  <2>2. CASE o < offset
    <3>1. ASSUME NEW p \in before
          PROVE  p <= o
      <4>1. p \in DOMAIN R /\ p < offset
        BY <3>1
      <4>2. o < p => o + R[o].length <= p
        BY <2>1, <4>1 DEF Disjoint
      <4> QED BY <1>2, <2>1, <4>1, <4>2
    <3> QED BY <1>1, <2>1, <2>2, <3>1
  <2>3. CASE ~ (o < offset)
    BY <1>1, <2>1, <2>3
  <2> QED BY <2>2, <2>3
<1>4. ASSUME NEW o \in D
      PROVE  o \in Beyond(R, offset)
  <2>1. o \in DOMAIN R
    BY <1>1
  <2>2. CASE o \in reached
    BY <2>1, <2>2 DEF Beyond
  <2>3. CASE o \notin before
    BY <1>2, <2>1, <2>3 DEF Beyond
  <2> QED BY <1>1, <2>2, <2>3
<1>5. D = Beyond(R, offset) /\ D \subseteq DOMAIN R
  BY <1>1, <1>3, <1>4
<1>6. DOMAIN P = D /\ \A o \in D : P[o] = R[o]
  BY <1>1 DEF Restrict
<1>7. From(R, offset) = SortedRanges(P)
  BY <1>1 DEF From
<1> HIDE DEF before, isLast, reached
<1>8. IsFiniteSet(D)
  BY <1>5, FS_Subset DEF IsRanges
<1>9. PICK n, f : InOrder(SortedRanges(P), P, D, n, f)
  BY <1>2, <1>5, <1>6, <1>8, SortedFacts
<1>10. \A i \in 1 .. n : P[f[i]] = R[f[i]]
  BY <1>6, <1>9 DEF InOrder, Increasing
<1>11. InOrder(From(R, offset), R, D, n, f)
  BY <1>7, <1>9, <1>10 DEF InOrder
<1> QED BY <1>5, <1>11

\* A walk along the ranges beyond an offset, that has got to p after i of them.
Active(R, offset, n, f, i, p) ==
  /\ p \in Nat /\ offset <= p
  /\ \A j \in 1 .. i : f[j] + R[f[j]].length <= p
  /\ \A j \in i + 1 .. n : p = offset \/ p <= f[j]

Covered(R, x) == \E o \in DOMAIN R : InRange(R, o, x)

LEMMA WalkStarts ==
  ASSUME NEW R, NEW L, NEW offset, NEW q, NEW n, NEW f, IsRanges(R, L), offset \in Nat,
         InOrder(q, R, Beyond(R, offset), n, f)
  PROVE  /\ Active(R, offset, n, f, 0, offset)
         /\ n > 0 /\ offset <= f[1] => Active(R, offset, n, f, 0, f[1])
<1>1. n \in Nat /\ Increasing(f, n, Beyond(R, offset))
  BY DEF InOrder
<1>2. \A i \in 1 .. n : f[i] \in Nat
  <2>1. \A i \in 1 .. n : f[i] \in DOMAIN R
    BY <1>1 DEF Increasing, Beyond
  <2> QED BY <2>1, RangeFacts
<1>3. Active(R, offset, n, f, 0, offset)
  BY <1>1 DEF Active
<1>4. ASSUME n > 0, offset <= f[1], NEW j \in 1 .. n
      PROVE  f[1] <= f[j]
  BY <1>1, <1>2, <1>4 DEF Increasing
<1>5. ASSUME n > 0, offset <= f[1]
      PROVE  Active(R, offset, n, f, 0, f[1])
  <2>1. f[1] \in Nat
    BY <1>1, <1>2, <1>5
  <2> QED BY <1>1, <1>4, <1>5, <2>1 DEF Active
<1> QED BY <1>3, <1>5

\* The next range begins where the walk is, or the walk is at a gap.
LEMMA WalkSteps ==
  ASSUME NEW R, NEW L, NEW offset, NEW q, NEW n, NEW f, NEW i, NEW p, NEW o, NEW c,
         NEW e, IsRanges(R, L), Disjoint(R), offset \in Nat,
         InOrder(q, R, Beyond(R, offset), n, f), i \in 0 .. n - 1,
         Active(R, offset, n, f, i, p), o = f[i + 1], c = Larger(o, offset),
         e = o + R[o].length
  PROVE  /\ o \in DOMAIN R /\ p <= c /\ c < e /\ e \in Nat /\ c \in Nat
         /\ q[i + 1] = R[o] /\ i + 1 \in 1 .. n
         /\ Active(R, offset, n, f, i + 1, e)
         /\ \A x \in Nat : p <= x /\ x < c => ~Covered(R, x)
<1>1. /\ n \in Nat /\ \A j \in 1 .. n : f[j] \in Beyond(R, offset)
      /\ \A j, k \in 1 .. n : j < k => f[j] < f[k]
      /\ \A p1 \in Beyond(R, offset) : \E j \in 1 .. n : f[j] = p1
      /\ \A j \in 1 .. n : q[j] = R[f[j]]
  BY DEF InOrder, Increasing
<1>2. i + 1 \in 1 .. n /\ o \in Beyond(R, offset) /\ q[i + 1] = R[o]
  BY <1>1
<1>3. \A x \in DOMAIN R : x \in Nat /\ R[x].length \in Nat /\ R[x].length > 0
  BY RangeFacts
<1>4. o \in DOMAIN R /\ e > offset /\ e \in Nat /\ o \in Nat /\ o < e
  BY <1>2, <1>3 DEF Beyond
<1>5. /\ p \in Nat /\ offset <= p
      /\ \A j \in 1 .. i : f[j] + R[f[j]].length <= p
      /\ \A j \in i + 1 .. n : p = offset \/ p <= f[j]
  BY DEF Active
<1>6. c \in Nat /\ o <= c /\ offset <= c /\ (c = o \/ c = offset) /\ c < e
  BY <1>4 DEF Larger
<1>7. p = offset \/ p <= o
  <2>1. i + 1 \in i + 1 .. n
    BY <1>1, <1>2
  <2> QED BY <1>5, <2>1
<1>8. ASSUME NEW j \in 1 .. n, j > i + 1
      PROVE  e <= f[j]
  <2>1. f[j] \in DOMAIN R /\ o < f[j]
    BY <1>1, <1>2, <1>8 DEF Beyond
  <2> QED BY <1>4, <2>1 DEF Disjoint
<1>9. p <= c
  BY <1>4, <1>5, <1>6, <1>7
<1>10. Active(R, offset, n, f, i + 1, e)
  <2>1. ASSUME NEW j \in 1 .. i + 1
        PROVE  f[j] + R[f[j]].length <= e
    <3>1. CASE j = i + 1
      BY <1>4, <3>1
    <3>2. CASE j # i + 1
      <4>1. j \in 1 .. n /\ j < i + 1
        BY <1>1, <3>2
      <4>2. f[j] < o /\ f[j] \in DOMAIN R
        BY <1>1, <1>2, <4>1 DEF Beyond
      <4>3. f[j] + R[f[j]].length <= o
        BY <1>4, <4>2 DEF Disjoint
      <4> QED BY <1>3, <1>4, <4>2, <4>3
    <3> QED BY <3>1, <3>2
  <2>2. ASSUME NEW j \in (i + 1) + 1 .. n
        PROVE  e <= f[j]
    <3>1. j \in 1 .. n /\ j > i + 1
      BY <1>1
    <3> QED BY <1>8, <3>1
  <2> QED BY <1>4, <2>1, <2>2 DEF Active
<1>11. ASSUME NEW x \in Nat, p <= x, x < c, Covered(R, x)
       PROVE  FALSE
  <2>1. PICK y \in DOMAIN R : y <= x /\ x < y + R[y].length
    BY <1>11 DEF Covered, InRange
  <2>2. y \in Beyond(R, offset)
    BY <1>3, <1>5, <1>11, <2>1 DEF Beyond
  <2>3. PICK j \in 1 .. n : f[j] = y
    BY <1>1, <2>2
  <2>4. CASE j <= i
    <3>1. y + R[y].length <= p
      BY <1>5, <2>3, <2>4
    <3> QED BY <1>3, <1>5, <1>11, <2>1, <3>1
  <2>5. CASE j = i + 1
    <3>1. y = o
      BY <2>3, <2>5
    <3> QED BY <1>5, <1>6, <1>11, <2>1, <3>1
  <2>6. CASE j > i + 1
    <3>1. e <= y
      BY <1>8, <2>3, <2>6
    <3> QED BY <1>3, <1>4, <1>6, <1>11, <2>1, <3>1
  <2> QED BY <1>1, <2>4, <2>5, <2>6
<1> QED BY <1>2, <1>4, <1>6, <1>9, <1>10, <1>11

\* Behind the last range there is none.
LEMMA WalkEnds ==
  ASSUME NEW R, NEW L, NEW offset, NEW q, NEW n, NEW f, NEW p, IsRanges(R, L),
         offset \in Nat, InOrder(q, R, Beyond(R, offset), n, f),
         Active(R, offset, n, f, n, p)
  PROVE  /\ \A o \in DOMAIN R : o + R[o].length <= offset \/ o + R[o].length <= p
         /\ \A x \in Nat : p <= x => ~Covered(R, x)
<1>1. \A x \in DOMAIN R : x \in Nat /\ R[x].length \in Nat /\ R[x].length > 0
  BY RangeFacts
<1>2. p \in Nat /\ offset <= p /\ \A j \in 1 .. n : f[j] + R[f[j]].length <= p
  BY DEF Active
<1>3. ASSUME NEW o \in DOMAIN R
      PROVE  o + R[o].length <= offset \/ o + R[o].length <= p
  <2>1. CASE o \in Beyond(R, offset)
    <3>1. PICK j \in 1 .. n : f[j] = o
      BY <2>1 DEF InOrder
    <3> QED BY <1>2, <3>1
  <2>2. CASE o \notin Beyond(R, offset)
    BY <1>1, <2>2 DEF Beyond
  <2> QED BY <2>1, <2>2
<1>4. ASSUME NEW x \in Nat, p <= x, Covered(R, x)
      PROVE  FALSE
  <2>1. PICK y \in DOMAIN R : y <= x /\ x < y + R[y].length
    BY <1>4 DEF Covered, InRange
  <2> QED BY <1>1, <1>2, <1>3, <1>4, <2>1
<1> QED BY <1>3, <1>4

-------------------------------------------------------------------------------
(* Reads *)

\* g is s and then t.
IsJoin(g, s, m, t, k) ==
  Long(g, m + k) /\ (\A i \in 1 .. m : g[i] = s[i]) /\ \A i \in 1 .. k : g[m + i] = t[i]

LEMMA ConcatFacts ==
  ASSUME NEW s, NEW t, NEW m, NEW k, Long(s, m), Long(t, k)
  PROVE  IsJoin(s \o t, s, m, t, k)
<1>1. PICK S : s \in Seq(S)
  BY DEF IsFile, Long
<1>2. PICK T : t \in Seq(T)
  BY DEF IsFile, Long
<1>3. s \in Seq(S \cup T) /\ t \in Seq(S \cup T)
  BY <1>1, <1>2
<1>4. m \in Nat /\ k \in Nat /\ Len(s) = m /\ Len(t) = k
  BY DEF Long
<1>5. PICK g : g = s \o t
  OBVIOUS
<1>6. g \in Seq(S \cup T) /\ Len(g) = m + k
  <2>1. s \o t \in Seq(S \cup T) /\ Len(s \o t) = Len(s) + Len(t)
    BY <1>3
  <2> QED BY <1>4, <1>5, <2>1
<1>10. \A n \in 1 .. Len(s) + Len(t) :
         (s \o t)[n] = IF n <= Len(s) THEN s[n] ELSE t[n - Len(s)]
  BY <1>3
<1>11. \A n \in 1 .. m + k : g[n] = IF n <= m THEN s[n] ELSE t[n - m]
  BY <1>4, <1>5, <1>10
<1>7. /\ \A i \in 1 .. m : g[i] = s[i]
      /\ \A i \in 1 .. k : g[m + i] = t[i]
  <2>1. ASSUME NEW i \in 1 .. m
        PROVE  g[i] = s[i]
    BY <1>4, <1>11
  <2>2. ASSUME NEW i \in 1 .. k
        PROVE  g[m + i] = t[i]
    <3>1. m + i \in 1 .. m + k /\ ~ (m + i <= m) /\ (m + i) - m = i
      BY <1>4
    <3>2. g[m + i] = t[(m + i) - m]
      BY ONLY <1>11, <3>1
    <3> QED BY <3>1, <3>2
  <2> QED BY <2>1, <2>2
<1>8. IsFile(g)
  BY <1>6 DEF IsFile
<1>9. IsJoin(g, s, m, t, k)
  BY <1>4, <1>6, <1>7, <1>8 DEF IsJoin, Long
<1> QED BY <1>5, <1>9

\* What is read of k cells of a range, that begin at a.
IsRead(part, F, r, a, k) ==
  /\ part.checked = (k = r.length /\ r.crc # <<>>)
  /\ a + k <= Len(F) =>
       part.cells = Cells(F, a, k) /\ part.ok = (part.checked => part.cells = r.crc)
  /\ part.ok =>
       a + k <= Len(F) /\ part.cells = Cells(F, a, k) /\ (part.checked => part.cells = r.crc)
  /\ IsFile(part.cells)

LEMMA PartFacts ==
  ASSUME NEW F, NEW r, NEW inRange, NEW k, NEW a, IsFile(F), a \in Nat, k \in Nat,
         r.at + inRange = a
  PROVE  IsRead(ReadSparseRange(F, r, inRange, k), F, r, a, k)
<1>1. PICK part : part = ReadSparseRange(F, r, inRange, k)
  OBVIOUS
<1>2. Readable(F, a, k) <=> a + k <= Len(F)
  BY DEF Readable
<1>3. PICK g : g = IF Readable(F, a, k) THEN Cells(F, a, k) ELSE <<>>
  OBVIOUS
<1>4. /\ part.ok = (Readable(F, a, k) /\ (k = r.length /\ r.crc # <<>> => g = r.crc))
      /\ part.cells = g /\ part.checked = (k = r.length /\ r.crc # <<>>)
  BY <1>1, <1>3 DEF ReadSparseRange
<1>5. a + k <= Len(F) => g = Cells(F, a, k)
  BY <1>2, <1>3
<1>6. IsFile(g)
  <2>1. CASE Readable(F, a, k)
    <3>1. PICK N : N = Len(F) /\ Long(F, N) /\ a + k <= N
      BY <1>2, <2>1, LongIs
    <3>2. IsPart(Cells(F, a, k), F, a, k)
      BY <3>1, CellsFacts
    <3> QED BY <1>3, <2>1, <3>2 DEF IsPart, Long
  <2>2. CASE ~Readable(F, a, k)
    BY <1>3, <2>2, EmptyIsFile
  <2> QED BY <2>1, <2>2
<1>7. IsRead(part, F, r, a, k)
  BY <1>2, <1>4, <1>5, <1>6 DEF IsRead
<1> QED BY <1>1, <1>7

\* A step of a read: of a range from o to end, the part from c on, if that is where
\* the read has got to with m bytes.
ReadsOn(next, acc, file, r, inRange, k) ==
  \E part : /\ part = ReadSparseRange(file, r, inRange, k)
            /\ next.ok = part.ok /\ next.cells = acc.cells \o part.cells
            /\ next.whole = acc.whole \cup (IF part.checked THEN {r} ELSE {})

IsReadStep(next, file, offset, length, acc, r, o, end, m, c) ==
  \/ next = acc /\ ~ (acc.ok /\ m < length /\ c = offset + m)
  \/ /\ acc.ok /\ m < length /\ c = offset + m
     /\ \E k : /\ k \in Nat /\ k > 0 /\ m + k <= length /\ c + k <= end
               /\ m + k = length \/ c + k = end
               /\ ReadsOn(next, acc, file, r, c - o, k)

LEMMA ReadStepIs ==
  ASSUME NEW R, NEW L, NEW o, NEW e, NEW offset, NEW length, NEW acc, NEW m, NEW c, NEW end,
         IsRanges(R, L), o \in DOMAIN R, offset \in Nat, length \in Nat, m \in Nat,
         c \in Nat, end \in Nat, Long(acc.cells, m), Larger(o, offset) = c,
         o + R[o].length = end, c < end
  PROVE  IsReadStep(ReadStep(e, offset, length, acc, R[o]), e.file, offset, length, acc,
                    R[o], o, end, m, c)
<1>0. PICK r, next : r = R[o] /\ next = ReadStep(e, offset, length, acc, r)
  OBVIOUS
<1>1. o \in Nat /\ r.offset = o /\ r.length \in Nat /\ r.length > 0
  BY <1>0, RangeFacts
<1>2. m \in Nat /\ Len(acc.cells) = m
  BY DEF Long
<1>3. c \in Nat /\ o <= c
  BY <1>1 DEF Larger
<1>4. OffsetInRange(r, offset) = c - o
  BY <1>1 DEF OffsetInRange, Larger
<1>5. r.offset + OffsetInRange(r, offset) = c
  BY <1>1, <1>3, <1>4
<1>6. CASE ~ (acc.ok /\ m < length /\ c = offset + m)
  <2>1. ~acc.ok \/ m >= length \/ c # offset + m
    BY <1>2, <1>6
  <2>2. \/ ~acc.ok \/ Len(acc.cells) >= length
        \/ ~ (r.offset + OffsetInRange(r, offset) = offset + Len(acc.cells))
    BY <1>2, <1>5, <2>1
  <2>3. next = acc
    BY <1>0, <2>2 DEF ReadStep
  <2>4. IsReadStep(next, e.file, offset, length, acc, r, o, end, m, c)
    BY <1>6, <2>3 DEF IsReadStep
  <2> QED BY <1>0, <2>4
<1>7. CASE acc.ok /\ m < length /\ c = offset + m
  <2>1. PICK a, b : a = length - m /\ b = end - c
    OBVIOUS
  <2>2. PICK k : k = Smaller(a, b)
    OBVIOUS
  <2>3. /\ k \in Nat /\ k > 0 /\ m + k <= length /\ c + k <= end
        /\ m + k = length \/ c + k = end
    BY <1>7, <2>1, <2>2 DEF Smaller
  <2>4. PICK part : part = ReadSparseRange(e.file, r, c - o, k)
    OBVIOUS
  <2>5. b = r.length - OffsetInRange(r, offset)
    BY <1>0, <1>1, <1>3, <1>4, <2>1
  <2>6. part = ReadSparseRange(e.file, r, OffsetInRange(r, offset),
                               Smaller(length - Len(acc.cells), r.length - OffsetInRange(r, offset)))
    BY <1>2, <1>4, <2>1, <2>2, <2>4, <2>5
  <2>7. /\ acc.ok /\ ~ (Len(acc.cells) >= length)
        /\ r.offset + OffsetInRange(r, offset) = offset + Len(acc.cells)
    BY <1>2, <1>5, <1>7
  <2>8. next = [ok |-> part.ok, cells |-> acc.cells \o part.cells,
                whole |-> acc.whole \cup (IF part.checked THEN {r} ELSE {})]
    BY <1>0, <2>6, <2>7 DEF ReadStep
  <2>9. ReadsOn(next, acc, e.file, r, c - o, k)
    BY <2>4, <2>8 DEF ReadsOn
  <2>10. IsReadStep(next, e.file, offset, length, acc, r, o, end, m, c)
    BY <1>7, <2>3, <2>9 DEF IsReadStep
  <2> QED BY <1>0, <2>10
<1> QED BY <1>6, <1>7

\* The m bytes of the content from an offset on.
ReadTo(C, offset, m) == [j \in 1 .. m |-> Byte(C[offset + j - 1])]
IsContent(g, C, offset, m) == Long(g, m) /\ \A i \in 1 .. m : g[i] = Byte(C[offset + i - 1])

LEMMA SameAsRead ==
  ASSUME NEW f, NEW C, NEW offset, NEW m, IsContent(f, C, offset, m)
  PROVE  f = ReadTo(C, offset, m)
<1>0. m \in Nat /\ IsFile(f) /\ Len(f) = m /\ \A i \in 1 .. m : f[i] = Byte(C[offset + i - 1])
  BY DEF IsContent, Long
<1>1. f = [i \in 1 .. m |-> f[i]]
  BY <1>0, FileFacts
<1>2. PICK g : g = ReadTo(C, offset, m)
  OBVIOUS
<1>3. g = [i \in 1 .. m |-> Byte(C[offset + i - 1])]
  BY <1>2 DEF ReadTo
<1>4. f = g
  BY <1>0, <1>1, <1>3
<1> QED BY <1>2, <1>4

LEMMA ReadToFacts ==
  ASSUME NEW C, NEW offset, NEW m, m \in Nat
  PROVE  IsContent(ReadTo(C, offset, m), C, offset, m)
<1>1. PICK g : g = ReadTo(C, offset, m)
  OBVIOUS
<1>2. g = [i \in 1 .. m |-> Byte(C[offset + i - 1])]
  BY <1>1 DEF ReadTo
<1>3. g = [i \in 1 .. m |-> g[i]]
  BY <1>2
<1>4. IsFile(g) /\ Len(g) = m
  BY <1>3, FunctionIsFile
<1>5. IsContent(g, C, offset, m)
  BY <1>2, <1>4 DEF IsContent, Long
<1> QED BY <1>1, <1>5

\* A part of a range that holds the content is read as the content.
LEMMA HeldPart ==
  ASSUME NEW F, NEW R, NEW L, NEW C, NEW o, NEW c, NEW k, NEW end, IsFile(F),
         IsRanges(R, L), Holds(F, R, C), o \in DOMAIN R, c \in Nat, k \in Nat,
         end \in Nat, o <= c, k > 0, c + k <= end, o + R[o].length = end
  PROVE  \A part : part = ReadSparseRange(F, R[o], c - o, k) =>
           part.ok /\ IsContent(part.cells, C, c, k)
<1>0. PICK r, at, len, N : r = R[o] /\ at = r.at /\ len = r.length /\ N = Len(F)
  OBVIOUS
<1>1. o \in Nat /\ len \in Nat /\ at \in Nat /\ N \in Nat /\ Long(F, N)
  BY <1>0, RangeFacts, FileFacts, LongIs
<1>2. PICK d, a : d = c - o /\ d \in Nat /\ a = at + d /\ a \in Nat
  BY <1>1
<1>3. /\ at + len <= N
      /\ \A i \in 1 .. len : F[at + i] = Byte(C[o + i - 1])
      /\ r.crc # <<>> => r.crc = [i \in 1 .. len |-> Byte(C[o + i - 1])]
  BY <1>0 DEF Holds, End
<1>4. a + k <= N /\ d + k <= len
  <2>1. o + len = end /\ c + k <= end /\ c \in Nat /\ k \in Nat /\ end \in Nat
    BY <1>0
  <2> QED BY ONLY <1>1, <1>2, <1>3, <2>1
<1>5. SUFFICES ASSUME NEW part, part = ReadSparseRange(F, R[o], c - o, k)
               PROVE  part.ok /\ IsContent(part.cells, C, c, k)
  OBVIOUS
<1>6. part = ReadSparseRange(F, r, d, k)
  BY <1>0, <1>2, <1>5
<1>7. IsRead(part, F, r, a, k)
  BY <1>0, <1>2, <1>6, PartFacts
<1>8. PICK g : g = Cells(F, a, k)
  OBVIOUS
<1>9. part.cells = g /\ part.ok = (part.checked => g = r.crc)
      /\ part.checked = (k = len /\ r.crc # <<>>)
  BY <1>0, <1>4, <1>7, <1>8 DEF IsRead
<1>10. IsPart(g, F, a, k)
  BY <1>1, <1>2, <1>4, <1>8, CellsFacts
<1>11. ASSUME NEW i \in 1 .. k
       PROVE  g[i] = Byte(C[c + i - 1])
  <2>1. d + i \in 1 .. len /\ at + (d + i) = a + i /\ o + (d + i) - 1 = c + i - 1
    BY <1>1, <1>2, <1>4
  <2>2. F[at + (d + i)] = Byte(C[o + (d + i) - 1])
    BY <1>3, <2>1
  <2>3. g[i] = F[a + i]
    BY <1>10 DEF IsPart
  <2> QED BY <2>1, <2>2, <2>3
<1>12. IsContent(g, C, c, k)
  BY <1>10, <1>11 DEF IsContent, IsPart
<1>13. ASSUME k = len, r.crc # <<>>
       PROVE  g = r.crc
  <2>1. c = o
    BY <1>1, <1>2, <1>4, <1>13, SMTT(30)
  <2>2. r.crc = ReadTo(C, o, k)
    BY <1>3, <1>13 DEF ReadTo
  <2>3. g = ReadTo(C, c, k)
    BY <1>12, SameAsRead
  <2> QED BY <2>1, <2>2, <2>3
<1> QED BY <1>9, <1>12, <1>13

LEMMA CoveredIsHeld ==
  ASSUME NEW F, NEW R, NEW C, NEW x, Holds(F, R, C), x \in Nat
  PROVE  x \in DOMAIN C <=> Covered(R, x)
BY DEF Holds, Covered

\* A read has got m bytes after i ranges, and goes on unless it is done or at a gap.
ReadAt(R, C, offset, length, n, f, i, acc) ==
  \E m :
    /\ m \in Nat /\ m <= length /\ acc.ok /\ IsContent(acc.cells, C, offset, m)
    /\ \A x \in offset .. offset + m - 1 : x \in DOMAIN C
    /\ \/ m = length
       \/ ~Covered(R, offset + m)
       \/ Active(R, offset, n, f, i, offset + m)

LEMMA ReadGoesOn ==
  ASSUME NEW R, NEW L, NEW offset, NEW length, NEW q, NEW n, NEW f, NEW e, NEW C, NEW i,
         NEW acc, IsRanges(R, L), Disjoint(R), offset \in Nat, length \in Nat,
         InOrder(q, R, Beyond(R, offset), n, f), IsFile(e.file), Holds(e.file, R, C),
         i \in 0 .. n - 1, ReadAt(R, C, offset, length, n, f, i, acc)
  PROVE  ReadAt(R, C, offset, length, n, f, i + 1, ReadStep(e, offset, length, acc, q[i + 1]))
<1>1. PICK m :
        /\ m \in Nat /\ m <= length /\ acc.ok /\ IsContent(acc.cells, C, offset, m)
        /\ \A x \in offset .. offset + m - 1 : x \in DOMAIN C
        /\ \/ m = length
           \/ ~Covered(R, offset + m)
           \/ Active(R, offset, n, f, i, offset + m)
  BY DEF ReadAt
<1>2. m \in Nat /\ Long(acc.cells, m)
  BY <1>1 DEF IsContent
<1>3. n \in Nat /\ i + 1 \in 1 .. n
  BY DEF InOrder
<1>4. PICK o, r, c, end : o = f[i + 1] /\ r = R[o] /\ c = Larger(o, offset) /\ end = o + R[o].length
  OBVIOUS
<1>5. o \in DOMAIN R /\ end > offset /\ q[i + 1] = r
  BY <1>3, <1>4 DEF InOrder, Increasing, Beyond
<1>6. o \in Nat /\ c \in Nat /\ end \in Nat /\ o <= c /\ c < end /\ offset \in Nat
  <2>1. o \in Nat /\ R[o].length \in Nat /\ R[o].length > 0
    BY <1>4, <1>5, RangeFacts
  <2> QED BY <1>4, <1>5, <2>1 DEF Larger
<1>7. PICK next : next = ReadStep(e, offset, length, acc, r)
  OBVIOUS
<1>8. IsReadStep(next, e.file, offset, length, acc, r, o, end, m, c)
  <2>1. IsRanges(R, L) /\ offset \in Nat /\ length \in Nat
    OBVIOUS
  <2>2. /\ Larger(o, offset) = c /\ o + R[o].length = end
        /\ next = ReadStep(e, offset, length, acc, R[o])
    BY <1>4, <1>7
  <2>3. IsReadStep(next, e.file, offset, length, acc, R[o], o, end, m, c)
    BY ONLY <1>2, <1>5, <1>6, <2>1, <2>2, ReadStepIs
  <2> QED BY <1>4, <2>3
<1>9. CASE next = acc /\ ~ (acc.ok /\ m < length /\ c = offset + m)
  <2>1. ASSUME m # length, Active(R, offset, n, f, i, offset + m)
        PROVE  ~Covered(R, offset + m)
    <3>1. /\ offset + m <= c
          /\ \A x \in Nat : offset + m <= x /\ x < c => ~Covered(R, x)
      BY <1>4, <2>1, WalkSteps
    <3>2. m < length
      BY <1>1, <2>1
    <3>3. offset + m < c /\ offset + m \in Nat
      BY <1>1, <1>2, <1>6, <1>9, <3>1, <3>2
    <3> QED BY <3>1, <3>3
  <2> QED BY <1>1, <1>5, <1>7, <1>9, <2>1 DEF ReadAt
<1>10. CASE acc.ok /\ m < length /\ c = offset + m
  <2>1. PICK k, part :
          /\ k \in Nat /\ k > 0 /\ m + k <= length /\ c + k <= end
          /\ m + k = length \/ c + k = end
          /\ part = ReadSparseRange(e.file, r, c - o, k)
          /\ next.ok = part.ok /\ next.cells = acc.cells \o part.cells
    <3>1. PICK k : /\ k \in Nat /\ k > 0 /\ m + k <= length /\ c + k <= end
                   /\ m + k = length \/ c + k = end
                   /\ ReadsOn(next, acc, e.file, r, c - o, k)
      BY <1>8, <1>10 DEF IsReadStep
    <3> QED BY <3>1 DEF ReadsOn
  <2>2. part.ok /\ IsContent(part.cells, C, c, k)
    <3>1. /\ IsFile(e.file) /\ IsRanges(R, L) /\ Holds(e.file, R, C)
          /\ o + R[o].length = end /\ part = ReadSparseRange(e.file, R[o], c - o, k)
      BY <1>4, <2>1
    <3> QED BY ONLY <1>5, <1>6, <2>1, <3>1, HeldPart
  <2>3. PICK s, t, g : s = acc.cells /\ t = part.cells /\ g = next.cells
    OBVIOUS
  <2>4. IsJoin(g, s, m, t, k)
    <3>1. Long(s, m) /\ Long(t, k) /\ g = s \o t
      BY <1>2, <2>1, <2>2, <2>3 DEF IsContent
    <3> QED BY ONLY <3>1, ConcatFacts
  <2>5. ASSUME NEW j \in 1 .. m + k
        PROVE  g[j] = Byte(C[offset + j - 1])
    <3>1. CASE j \in 1 .. m
      <4>1. s[j] = Byte(C[offset + j - 1])
        BY <1>1, <2>3, <3>1 DEF IsContent
      <4> QED BY <2>4, <3>1, <4>1 DEF IsJoin
    <3>2. CASE j \notin 1 .. m
      <4>1. PICK l : l = j - m /\ l \in 1 .. k /\ c + l - 1 = offset + j - 1 /\ m + l = j
        <5>1. PICK l : l = j - m
          OBVIOUS
        <5>2. k \in Nat
          BY <2>1
        <5> QED BY ONLY <1>2, <1>6, <1>10, <2>5, <3>2, <5>1, <5>2
      <4>2. t[l] = Byte(C[c + l - 1])
        BY <2>2, <2>3, <4>1 DEF IsContent
      <4>3. g[m + l] = t[l]
        BY <2>4, <4>1 DEF IsJoin
      <4> QED BY <4>1, <4>2, <4>3
    <3> QED BY <3>1, <3>2
  <2>6. m + k \in Nat /\ IsContent(next.cells, C, offset, m + k)
    <3>1. m + k \in Nat
      BY <1>2, <2>1
    <3>2. Long(g, m + k)
      BY <2>4 DEF IsJoin
    <3>3. IsContent(g, C, offset, m + k)
      BY <2>5, <3>2 DEF IsContent
    <3> QED BY <2>3, <3>1, <3>3
  <2>7. ASSUME NEW x \in offset .. offset + (m + k) - 1
         PROVE  x \in DOMAIN C
    <3>1. CASE x < c
      BY <1>1, <1>2, <1>6, <1>10, <3>1
    <3>2. CASE ~ (x < c)
      <4>1. x \in Nat /\ o <= x /\ x < end
        <5>1. k \in Nat /\ c + k <= end
          BY <2>1
        <5> QED BY ONLY <1>2, <1>6, <1>10, <2>7, <3>2, <5>1
      <4>2. InRange(R, o, x)
        BY <1>4, <1>5, <4>1 DEF InRange
      <4> QED BY <1>5, <4>1, <4>2 DEF Holds
    <3> QED BY <3>1, <3>2
  <2>8. ASSUME m + k # length
        PROVE  Active(R, offset, n, f, i + 1, offset + (m + k))
    <3>1. offset + (m + k) = end
      <4>1. k \in Nat /\ c + k = end
        BY <2>1, <2>8
      <4> QED BY ONLY <1>2, <1>6, <1>10, <4>1
    <3>2. Covered(R, offset + m)
      <4>1. InRange(R, o, offset + m)
        BY <1>4, <1>5, <1>6, <1>10 DEF InRange
      <4> QED BY <1>5, <4>1 DEF Covered
    <3>3. Active(R, offset, n, f, i, offset + m)
      BY <1>1, <1>10, <3>2
    <3> QED BY <1>4, <3>1, <3>3, WalkSteps
  <2>9. m + k <= length /\ next.ok
    BY <2>1, <2>2
  <2>10. ReadAt(R, C, offset, length, n, f, i + 1, next)
    BY <2>6, <2>7, <2>8, <2>9 DEF ReadAt
  <2> QED BY <1>5, <1>7, <2>10
<1> QED BY <1>8, <1>9, <1>10 DEF IsReadStep

\* What is read of a file that holds the content.
LEMMA ReadIs ==
  ASSUME NEW e, NEW L, NEW C, NEW offset, NEW length, IsRanges(e.ranges, L),
         Disjoint(e.ranges), IsFile(e.file), Holds(e.file, e.ranges, C), offset \in Nat,
         length \in Nat
  PROVE  \E m :
           /\ m \in Nat /\ m <= length /\ ReadSparseData(e, offset, length).ok
           /\ IsContent(ReadSparseData(e, offset, length).cells, C, offset, m)
           /\ \A x \in offset .. offset + m - 1 : x \in DOMAIN C
           /\ m = length \/ offset + m \notin DOMAIN C
<1>0. PICK R, q : R = e.ranges /\ q = From(R, offset)
  OBVIOUS
<1>2. PICK n, f : InOrder(q, R, Beyond(R, offset), n, f)
  BY <1>0, FromFacts
<1>3. IsFile(q) /\ Len(q) = n /\ n \in Nat
  BY <1>2 DEF InOrder
<1>4. PICK w, read : w = <<e, offset, length>> /\ read = ReadSparseData(e, offset, length)
  OBVIOUS
<1>5. IsFold("read", w, StartOfRead, q, read)
  BY <1>0, <1>3, <1>4, ReadFolds
<1>6. PICK st : Runs("read", w, StartOfRead, q, st) /\ read = st[n]
  BY <1>3, <1>5, FoldRuns
<1>7. \A i \in 1 .. n : st[i] = ReadStep(e, offset, length, st[i - 1], q[i])
  BY <1>3, <1>4, <1>6 DEF Runs, Step
<1>8. ReadAt(R, C, offset, length, n, f, 0, st[0])
  <2>1. st[0] = StartOfRead
    BY <1>6 DEF Runs
  <2>2. st[0].ok /\ st[0].cells = <<>>
    BY <2>1 DEF StartOfRead
  <2>3. IsContent(<<>>, C, offset, 0)
    BY EmptyIsFile DEF IsContent, Long
  <2>4. Active(R, offset, n, f, 0, offset)
    BY <1>0, <1>2, WalkStarts
  <2>5. 0 \in Nat /\ 0 <= length /\ offset + 0 = offset
    OBVIOUS
  <2> QED BY <2>2, <2>3, <2>4, <2>5 DEF ReadAt
<1> DEFINE T == { i \in 0 .. n : ReadAt(R, C, offset, length, n, f, i, st[i]) }
<1>9. ASSUME NEW i \in 0 .. n - 1, i \in T
      PROVE  i + 1 \in T
  <2>1. st[i + 1] = ReadStep(e, offset, length, st[i], q[i + 1])
    <3>1. i + 1 \in 1 .. n /\ (i + 1) - 1 = i
      BY <1>3
    <3> QED BY <1>7, <3>1
  <2>2. ReadAt(R, C, offset, length, n, f, i + 1, st[i + 1])
    <3>1. ReadAt(R, C, offset, length, n, f, i, st[i]) /\ i \in 0 .. n - 1
      BY <1>9
    <3>2. /\ IsRanges(R, L) /\ Disjoint(R) /\ offset \in Nat /\ length \in Nat
          /\ IsFile(e.file) /\ Holds(e.file, R, C)
      BY <1>0
    <3> QED BY ONLY <1>2, <2>1, <3>1, <3>2, ReadGoesOn
  <2> QED BY <1>3, <2>2
<1>10. 0 \in T
  BY <1>3, <1>8
<1>11. \A i \in 0 .. n : i \in T
  <2> HIDE DEF T
  <2> QED BY <1>3, <1>9, <1>10, CountUp
<1>12. ReadAt(R, C, offset, length, n, f, n, read)
  BY <1>3, <1>6, <1>11
<1>13. PICK m :
        /\ m \in Nat /\ m <= length /\ read.ok /\ IsContent(read.cells, C, offset, m)
        /\ \A x \in offset .. offset + m - 1 : x \in DOMAIN C
        /\ \/ m = length
           \/ ~Covered(R, offset + m)
           \/ Active(R, offset, n, f, n, offset + m)
  BY <1>12 DEF ReadAt
<1>14. offset + m \in Nat
  BY <1>13
<1>15. m # length => ~Covered(R, offset + m)
  BY <1>0, <1>2, <1>13, <1>14, WalkEnds
<1>16. m # length => offset + m \notin DOMAIN C
  BY <1>0, <1>14, <1>15, CoveredIsHeld
<1> QED BY <1>4, <1>13, <1>16

-------------------------------------------------------------------------------
(* What a read and a query answer *)

LEMMA WrittenIs ==
  ASSUME NEW offset, NEW length, NEW m, offset \in Nat, length \in Nat, m \in Nat,
         m <= length, \A x \in offset .. offset + m - 1 : x \in DOMAIN content,
         m = length \/ offset + m \notin DOMAIN content
  PROVE  WrittenFrom(offset, length) = ReadTo(content, offset, m)
<1>1. PICK S, n : /\ S = { k \in 0 .. length : offset .. offset + k - 1 \subseteq DOMAIN content }
                  /\ n = Max(S)
  OBVIOUS
<1>2. m \in S
  BY <1>1
<1>3. \A x \in S : x \in Nat
  BY <1>1
<1>4. IsFiniteSet(S)
  <2>1. IsFiniteSet(0 .. length) /\ S \subseteq 0 .. length
    BY <1>1, FS_Interval
  <2> QED BY <2>1, FS_Subset
<1>5. n \in S /\ \A x \in S : n >= x
  <2>1. S # {}
    BY <1>2
  <2> QED BY ONLY <1>1, <1>3, <1>4, <2>1, MaxIsGreatest
<1>6. n \in Nat /\ n >= m /\ n <= length
  BY <1>1, <1>2, <1>5
<1>7. n = m
  <2>1. SUFFICES ASSUME n # m PROVE FALSE
    OBVIOUS
  <2>2. offset + m \in offset .. offset + n - 1
    BY <1>6, <2>1
  <2>3. offset .. offset + n - 1 \subseteq DOMAIN content
    BY <1>1, <1>5
  <2>4. offset + m \in DOMAIN content
    BY <2>2, <2>3
  <2>5. m # length
    BY <1>6, <2>1
  <2> QED BY <2>4, <2>5
<1>8. WrittenFrom(offset, length) = [i \in 1 .. n |-> Byte(content[offset + i - 1])]
  BY <1>1 DEF WrittenFrom
<1> QED BY <1>7, <1>8 DEF ReadTo

\* A query has counted a bytes from `start' on, and goes on unless there are enough,
\* or it is at a gap.
CountAt(R, start, offset, limit, n, f, i, acc) ==
  \E a :
    /\ a \in Nat /\ acc = [start |-> start, available |-> a]
    /\ \A x \in start .. start + a - 1 : Covered(R, x)
    /\ \/ start + a >= limit
       \/ ~Covered(R, start + a)
       \/ Active(R, offset, n, f, i, start + a)

LEMMA CountGoesOn ==
  ASSUME NEW R, NEW L, NEW start, NEW offset, NEW length, NEW limit, NEW q, NEW n, NEW f,
         NEW i, NEW acc, IsRanges(R, L), Disjoint(R), start \in Nat, offset \in Nat,
         length \in Nat, limit \in Nat, offset + length = limit,
         InOrder(q, R, Beyond(R, offset), n, f),
         i \in 0 .. n - 1, CountAt(R, start, offset, limit, n, f, i, acc)
  PROVE  CountAt(R, start, offset, limit, n, f, i + 1, AvailableStep(offset, length, acc, q[i + 1]))
<1>1. PICK a :
        /\ a \in Nat /\ acc = [start |-> start, available |-> a]
        /\ \A x \in start .. start + a - 1 : Covered(R, x)
        /\ \/ start + a >= limit
           \/ ~Covered(R, start + a)
           \/ Active(R, offset, n, f, i, start + a)
  BY DEF CountAt
<1>2. acc.start = start /\ acc.available = a
  BY <1>1
<1>3. n \in Nat /\ i + 1 \in 1 .. n
  BY DEF InOrder
<1>4. PICK o, r, c, end, len :
        o = f[i + 1] /\ r = R[o] /\ c = Larger(o, offset) /\ end = o + R[o].length /\ len = r.length
  OBVIOUS
<1>5. o \in DOMAIN R /\ end > offset /\ q[i + 1] = r
  BY <1>3, <1>4 DEF InOrder, Increasing, Beyond
<1>6. /\ o \in Nat /\ c \in Nat /\ end \in Nat /\ o <= c /\ c < end /\ offset \in Nat /\ len \in Nat
      /\ end = o + len /\ r.offset = o
  <2>1. o \in Nat /\ R[o].length \in Nat /\ R[o].length > 0 /\ R[o].offset = o
    BY <1>4, <1>5, RangeFacts
  <2> QED BY <1>4, <1>5, <2>1 DEF Larger
<1>7. OffsetInRange(r, offset) = c - o /\ Larger(r.offset, offset) = c
  BY <1>4, <1>6 DEF OffsetInRange, Larger
<1>8. PICK next : next = AvailableStep(offset, length, acc, r)
  OBVIOUS
<1>9. CASE start + a >= limit \/ c # start + a
  <2>1. next = acc
    BY <1>2, <1>7, <1>8, <1>9 DEF AvailableStep
  <2>2. ASSUME ~ (start + a >= limit), Active(R, offset, n, f, i, start + a)
        PROVE  ~Covered(R, start + a)
    <3>1. /\ start + a <= c
          /\ \A x \in Nat : start + a <= x /\ x < c => ~Covered(R, x)
      BY <1>4, <2>2, WalkSteps
    <3>2. start + a < c /\ start + a \in Nat
      BY <1>1, <1>6, <1>9, <2>2, <3>1
    <3> QED BY <3>1, <3>2
  <2> QED BY <1>1, <1>5, <1>8, <2>1, <2>2, SMTT(30) DEF CountAt
<1>10. CASE ~ (start + a >= limit) /\ c = start + a
  <2>1. PICK b : b = a + (end - c) /\ b \in Nat
    BY <1>1, <1>6
  <2>2. next = [start |-> start, available |-> b]
    <3>1. next = [acc EXCEPT !.available = acc.available + r.length - OffsetInRange(r, offset)]
      BY <1>2, <1>7, <1>8, <1>10 DEF AvailableStep
    <3>2. acc.available + r.length - OffsetInRange(r, offset) = b
      BY <1>1, <1>2, <1>4, <1>6, <1>7, <2>1
    <3> QED BY <1>1, <3>1, <3>2
  <2>3. start + b = end
    BY <1>1, <1>6, <1>10, <2>1
  <2>4. ASSUME NEW x \in start .. start + b - 1
        PROVE  Covered(R, x)
    <3>1. CASE x < c
      BY <1>1, <1>6, <1>10, <3>1
    <3>2. CASE ~ (x < c)
      <4>1. x \in Nat /\ o <= x /\ x < end
        <5>1. x \in start .. start + b - 1 /\ start \in Nat /\ b \in Nat
          BY <2>1, <2>4
        <5> QED BY ONLY <1>6, <2>3, <3>2, <5>1
      <4>2. InRange(R, o, x)
        BY <1>4, <1>5, <4>1 DEF InRange
      <4> QED BY <1>5, <4>2 DEF Covered
    <3> QED BY <3>1, <3>2
  <2>5. Active(R, offset, n, f, i + 1, end)
    <3>1. Covered(R, start + a)
      <4>1. InRange(R, o, c)
        BY <1>4, <1>5, <1>6 DEF InRange
      <4> QED BY <1>5, <1>10, <4>1 DEF Covered
    <3>2. Active(R, offset, n, f, i, start + a)
      BY <1>1, <1>10, <3>1
    <3> QED BY <1>4, <3>2, WalkSteps
  <2> QED BY <1>5, <1>8, <2>1, <2>2, <2>3, <2>4, <2>5 DEF CountAt
<1> QED BY <1>9, <1>10

\* How many bytes there are from a place on where there are some, or where the
\* request begins.
LEMMA AvailableIs ==
  ASSUME NEW R, NEW L, NEW start, NEW offset, NEW length, NEW limit, NEW q, NEW n, NEW f,
         IsRanges(R, L), Disjoint(R), start \in Nat, offset \in Nat,
         length \in Nat, limit \in Nat, offset + length = limit,
         InOrder(q, R, Beyond(R, offset), n, f), Active(R, offset, n, f, 0, start)
  PROVE  /\ Available(q, start, offset, length) \in Nat
         /\ \A x \in start .. start + Available(q, start, offset, length) - 1 : Covered(R, x)
         /\ \/ start + Available(q, start, offset, length) >= limit
            \/ ~Covered(R, start + Available(q, start, offset, length))
<1>1. IsFile(q) /\ Len(q) = n /\ n \in Nat
  BY DEF InOrder
<1>2. PICK w, base, acc : /\ w = <<0, offset, length>> /\ base = [start |-> start, available |-> 0]
                          /\ acc = AvailableOf(q, start, offset, length)
  OBVIOUS
<1>3. IsFold("available", w, base, q, acc)
  BY <1>1, <1>2, AvailableFolds
<1>4. PICK st : Runs("available", w, base, q, st) /\ acc = st[n]
  BY <1>1, <1>3, FoldRuns
<1>5. \A i \in 1 .. n : st[i] = AvailableStep(offset, length, st[i - 1], q[i])
  BY <1>1, <1>2, <1>4 DEF Runs, Step
<1>6. CountAt(R, start, offset, limit, n, f, 0, st[0])
  <2>1. st[0] = [start |-> start, available |-> 0]
    BY <1>2, <1>4 DEF Runs
  <2>2. 0 \in Nat /\ start + 0 = start /\ start .. start + 0 - 1 = {}
    OBVIOUS
  <2> QED BY <2>1, <2>2 DEF CountAt
<1> DEFINE T == { i \in 0 .. n : CountAt(R, start, offset, limit, n, f, i, st[i]) }
<1>7. ASSUME NEW i \in 0 .. n - 1, i \in T
      PROVE  i + 1 \in T
  <2>1. st[i + 1] = AvailableStep(offset, length, st[i], q[i + 1])
    <3>1. i + 1 \in 1 .. n /\ (i + 1) - 1 = i
      BY <1>1
    <3> QED BY <1>5, <3>1
  <2>2. CountAt(R, start, offset, limit, n, f, i + 1, st[i + 1])
    <3>1. CountAt(R, start, offset, limit, n, f, i, st[i]) /\ i \in 0 .. n - 1
      BY <1>7
    <3>2. /\ IsRanges(R, L) /\ Disjoint(R) /\ offset \in Nat /\ length \in Nat /\ limit \in Nat
          /\ start \in Nat /\ offset + length = limit /\ InOrder(q, R, Beyond(R, offset), n, f)
      OBVIOUS
    <3> QED BY ONLY <2>1, <3>1, <3>2, CountGoesOn
  <2> QED BY <1>1, <2>2
<1>8. 0 \in T
  BY <1>1, <1>6
<1>9. \A i \in 0 .. n : i \in T
  <2> HIDE DEF T
  <2> QED BY <1>1, <1>7, <1>8, CountUp
<1>10. CountAt(R, start, offset, limit, n, f, n, acc)
  BY <1>1, <1>4, <1>9
<1>11. PICK a :
        /\ a \in Nat /\ acc = [start |-> start, available |-> a]
        /\ \A x \in start .. start + a - 1 : Covered(R, x)
        /\ \/ start + a >= limit
           \/ ~Covered(R, start + a)
           \/ Active(R, offset, n, f, n, start + a)
  BY <1>10 DEF CountAt
<1>12. Available(q, start, offset, length) = a
  <2>1. acc.available = a
    BY <1>11
  <2> QED BY <1>2, <2>1 DEF Available, AvailableOf
<1>13. Active(R, offset, n, f, n, start + a) => ~Covered(R, start + a)
  <2>1. start + a \in Nat
    BY <1>11
  <2> QED BY <2>1, WalkEnds
<1> QED BY <1>11, <1>12, <1>13

LEMMA MinIsLeast ==
  ASSUME NEW S, NEW m, \A x \in S : x \in Nat, m \in S, \A x \in S : m <= x
  PROVE  Min(S) = m
<1>1. \A x \in S, y \in S : (x <= y /\ y <= x) => x = y
  OBVIOUS
<1> QED BY <1>1 DEF Min

\* GetAvailableRange finds the first bytes of the content in the request.
LEMMA QueryIs ==
  ASSUME NEW e, NEW R, NEW L, NEW F, NEW offset, NEW length, R = e.ranges, IsRanges(R, L),
         Disjoint(R), Holds(F, R, content), offset \in Nat, length \in Nat,
         length > 0
  PROVE  GetAvailableRange(e, offset, length) = FirstWritten(offset, length)
<1>1. PICK q, limit : R = e.ranges /\ q = From(R, offset) /\ limit = offset + length
  OBVIOUS
<1>2. limit \in Nat /\ offset < limit
  BY <1>1
<1>3. PICK n, f : InOrder(q, R, Beyond(R, offset), n, f)
  BY <1>1, FromFacts
<1>4. /\ IsFile(q) /\ Len(q) = n /\ n \in Nat /\ (q # <<>> <=> n > 0)
      /\ \A i \in 1 .. n : q[i] = R[f[i]] /\ f[i] \in DOMAIN R /\ f[i] \in Nat
  <2>1. IsFile(q) /\ Len(q) = n /\ n \in Nat /\ \A i \in 1 .. n : q[i] = R[f[i]]
    BY <1>3 DEF InOrder
  <2>2. \A i \in 1 .. n : f[i] \in DOMAIN R
    BY <1>3 DEF InOrder, Increasing, Beyond
  <2>3. \A i \in 1 .. n : f[i] \in Nat
    BY <1>1, <2>2, RangeFacts
  <2> QED BY <2>1, <2>2, <2>3, FileFacts
<1>5. \A x \in Nat : x \in DOMAIN content <=> Covered(R, x)
  BY <1>1, CoveredIsHeld
<1>6. PICK start : start = IF q # <<>> /\ q[1].offset < offset + length
                           THEN Larger(q[1].offset, offset) ELSE offset
  OBVIOUS
<1>7. PICK held : held = { x \in offset .. offset + length - 1 : x \in DOMAIN content }
  OBVIOUS
<1>8. /\ start \in Nat /\ offset <= start /\ start < limit
      /\ Active(R, offset, n, f, 0, start)
      /\ start = IF held = {} THEN offset ELSE Min(held)
  <2>1. CASE n > 0
    <3>1. PICK o, c, end : o = f[1] /\ c = Larger(o, offset) /\ end = o + R[o].length
      OBVIOUS
    <3>2. Active(R, offset, n, f, 0, offset) /\ (offset <= o => Active(R, offset, n, f, 0, o))
      BY <1>1, <1>3, <2>1, <3>1, WalkStarts
    <3>3. /\ o \in DOMAIN R /\ offset <= c /\ c < end /\ end \in Nat /\ c \in Nat
          /\ q[1] = R[o]
          /\ \A x \in Nat : offset <= x /\ x < c => ~Covered(R, x)
      <4>1. PICK i, p : i = 0 /\ p = offset
        OBVIOUS
      <4>2. i \in 0 .. n - 1 /\ o = f[i + 1] /\ Active(R, offset, n, f, i, p) /\ i + 1 = 1
        BY <1>4, <2>1, <3>1, <3>2, <4>1
      <4>3. IsRanges(R, L) /\ Disjoint(R) /\ offset \in Nat
        BY <1>1
      <4>4. /\ o \in DOMAIN R /\ p <= c /\ c < end /\ end \in Nat /\ c \in Nat
            /\ q[i + 1] = R[o]
            /\ \A x \in Nat : p <= x /\ x < c => ~Covered(R, x)
        BY ONLY <1>3, <3>1, <4>2, <4>3, WalkSteps
      <4> QED BY <4>1, <4>2, <4>4
    <3>4. o \in Nat /\ o <= c /\ (c = o \/ c = offset) /\ q[1].offset = o
      BY <1>1, <3>1, <3>3, RangeFacts DEF Larger
    <3>5. CASE o < limit
      <4>1. start = c
        BY <1>1, <1>4, <1>6, <2>1, <3>1, <3>4, <3>5
      <4>2. c < limit
        BY <1>2, <3>4, <3>5
      <4>3. Active(R, offset, n, f, 0, start)
        BY <3>2, <3>3, <3>4, <4>1
      <4>4. c \in held
        <5>1. InRange(R, o, c)
          BY <3>1, <3>3, <3>4 DEF InRange
        <5>2. Covered(R, c)
          BY <3>3, <5>1 DEF Covered
        <5>3. c \in DOMAIN content
          BY <1>5, <3>3, <5>2
        <5>4. c \in offset .. offset + length - 1
          BY <1>1, <1>2, <3>3, <4>2
        <5> QED BY <1>7, <5>3, <5>4
      <4>5. ASSUME NEW x \in held
            PROVE  x \in Nat /\ c <= x
        <5>1. x \in offset .. offset + length - 1 /\ x \in DOMAIN content
          BY <1>7, <4>5
        <5>2. x \in Nat /\ offset <= x
          BY <5>1
        <5>3. Covered(R, x)
          BY <1>5, <5>1, <5>2
        <5> QED BY <3>3, <5>2, <5>3
      <4>6. Min(held) = c
        BY <4>4, <4>5, MinIsLeast
      <4> QED BY <3>3, <4>1, <4>2, <4>3, <4>4, <4>6
    <3>6. CASE ~ (o < limit)
      <4>1. start = offset
        BY <1>1, <1>6, <3>4, <3>6
      <4>2. ASSUME NEW x \in held
            PROVE  FALSE
        <5>1. x \in offset .. offset + length - 1 /\ x \in DOMAIN content
          BY <1>7, <4>2
        <5>2. x \in Nat /\ offset <= x /\ x < limit
          BY <1>1, <5>1
        <5>3. Covered(R, x)
          BY <1>5, <5>1, <5>2
        <5>4. x < c
          BY <1>2, <3>3, <3>4, <3>6, <5>2
        <5> QED BY <3>3, <5>2, <5>3, <5>4
      <4> QED BY <1>2, <3>2, <4>1, <4>2
    <3> QED BY <3>5, <3>6
  <2>2. CASE ~ (n > 0)
    <3>1. n = 0 /\ start = offset
      BY <1>4, <1>6, <2>2
    <3>2. Active(R, offset, n, f, 0, offset)
      BY <1>1, <1>3, WalkStarts
    <3>3. \A x \in Nat : offset <= x => ~Covered(R, x)
      BY <1>1, <1>3, <3>1, <3>2, WalkEnds
    <3>4. ASSUME NEW x \in held
          PROVE  FALSE
      <4>1. x \in offset .. offset + length - 1 /\ x \in DOMAIN content
        BY <1>7, <3>4
      <4>2. x \in Nat /\ offset <= x
        BY <4>1
      <4> QED BY <1>5, <3>3, <4>1, <4>2
    <3> QED BY <1>2, <3>1, <3>2, <3>4
  <2> QED BY <2>1, <2>2
<1>9. PICK a : a = Available(q, start, offset, length)
  OBVIOUS
<1>10. /\ a \in Nat /\ \A x \in start .. start + a - 1 : Covered(R, x)
       /\ start + a >= limit \/ ~Covered(R, start + a)
  <2>1. IsRanges(R, L) /\ Disjoint(R) /\ offset \in Nat /\ length \in Nat /\ offset + length = limit
    BY <1>1
  <2> QED BY ONLY <1>2, <1>3, <1>8, <1>9, <2>1, AvailableIs
<1>11. PICK room, m : room = length - (start - offset) /\ m = Smaller(a, room)
  OBVIOUS
<1>12. room \in Nat /\ start + room = limit
  BY <1>1, <1>2, <1>8, <1>11
<1>13. m \in Nat /\ m <= room /\ m <= a /\ (m = room \/ m = a)
  BY <1>10, <1>11, <1>12 DEF Smaller
<1>14. \A x \in start .. start + m - 1 : x \in DOMAIN content
  <2>1. SUFFICES ASSUME NEW x \in start .. start + m - 1 PROVE x \in DOMAIN content
    OBVIOUS
  <2>2. x \in Nat /\ x \in start .. start + a - 1
    BY <1>8, <1>10, <1>13, <2>1
  <2> QED BY <1>5, <1>10, <2>2
<1>15. m = room \/ start + m \notin DOMAIN content
  <2>1. SUFFICES ASSUME m # room PROVE start + m \notin DOMAIN content
    OBVIOUS
  <2>2. m = a /\ ~ (start + a >= limit) /\ start + m \in Nat
    BY <1>8, <1>10, <1>12, <1>13, <2>1
  <2> QED BY <1>5, <1>10, <2>2
<1>16. PICK g : g = WrittenFrom(start, room)
  OBVIOUS
<1>17. g = ReadTo(content, start, m)
  BY ONLY <1>8, <1>12, <1>13, <1>14, <1>15, <1>16, WrittenIs
<1>18. Len(g) = m
  BY <1>13, <1>17, ReadToFacts DEF IsContent, Long
<1>19. GetAvailableRange(e, offset, length) = [start |-> start, length |-> m]
  BY <1>1, <1>6, <1>9, <1>11 DEF GetAvailableRange
<1>20. FirstWritten(offset, length) = [start |-> start, length |-> Len(g)]
  BY <1>7, <1>8, <1>11, <1>16 DEF FirstWritten
<1> QED BY <1>18, <1>19, <1>20

-------------------------------------------------------------------------------
(* Checksums *)

\* What was checked is as it should be, as long as the read has not failed.
Checked(F, R, whole) ==
  \A r \in whole : \E o \in DOMAIN R :
    r = R[o] /\ r.crc # <<>> /\ Cells(F, r.at, r.length) = r.crc
CheckedAt(F, R, acc) == IsFile(acc.cells) /\ (acc.ok => Checked(F, R, acc.whole))

LEMMA CheckGoesOn ==
  ASSUME NEW R, NEW L, NEW e, NEW offset, NEW length, NEW acc, NEW o, IsRanges(R, L),
         IsFile(e.file), offset \in Nat, length \in Nat, o \in Beyond(R, offset),
         CheckedAt(e.file, R, acc)
  PROVE  CheckedAt(e.file, R, ReadStep(e, offset, length, acc, R[o]))
<1>1. PICK r, c, end, m, F : /\ r = R[o] /\ c = Larger(o, offset) /\ end = o + R[o].length
                             /\ m = Len(acc.cells) /\ F = e.file
  OBVIOUS
<1>2. PICK at, len : at = r.at /\ len = r.length
  OBVIOUS
<1>3. /\ o \in DOMAIN R /\ o \in Nat /\ end \in Nat /\ c \in Nat /\ o <= c /\ c < end
      /\ len \in Nat /\ at \in Nat /\ end = o + len
  <2>1. o \in DOMAIN R /\ end > offset
    BY <1>1 DEF Beyond
  <2>2. o \in Nat /\ R[o].length \in Nat /\ R[o].length > 0 /\ R[o].at \in Nat
    BY <2>1, RangeFacts
  <2> QED BY <1>1, <1>2, <2>1, <2>2 DEF Larger
<1>4. m \in Nat /\ Long(acc.cells, m)
  BY <1>1, LongIs DEF CheckedAt, Long
<1>5. PICK next : next = ReadStep(e, offset, length, acc, r)
  OBVIOUS
<1>6. IsReadStep(next, F, offset, length, acc, r, o, end, m, c)
  <2>1. IsRanges(R, L) /\ offset \in Nat /\ length \in Nat
    OBVIOUS
  <2>2. /\ Larger(o, offset) = c /\ o + R[o].length = end
        /\ next = ReadStep(e, offset, length, acc, R[o])
    BY <1>1, <1>5
  <2>3. IsReadStep(next, e.file, offset, length, acc, R[o], o, end, m, c)
    BY ONLY <1>3, <1>4, <2>1, <2>2, ReadStepIs
  <2> QED BY <1>1, <2>3
<1>7. CASE next = acc
  BY <1>1, <1>5, <1>7
<1>8. CASE next # acc
  <2>1. acc.ok
    BY <1>6, <1>8 DEF IsReadStep
  <2>2. PICK k : /\ k \in Nat /\ k > 0 /\ c + k <= end
                 /\ ReadsOn(next, acc, F, r, c - o, k)
    BY <1>6, <1>8 DEF IsReadStep
  <2>3. PICK d, a : d = c - o /\ d \in Nat /\ a = at + d /\ a \in Nat
    BY <1>3
  <2>4. PICK part :
          /\ part = ReadSparseRange(F, r, d, k)
          /\ next.ok = part.ok /\ next.cells = acc.cells \o part.cells
          /\ next.whole = acc.whole \cup (IF part.checked THEN {r} ELSE {})
    BY <2>2, <2>3 DEF ReadsOn
  <2>5. IsRead(part, F, r, a, k)
    <3>1. r.at + d = a /\ IsFile(F)
      BY <1>1, <1>2, <2>3
    <3>2. k \in Nat /\ a \in Nat
      BY <2>2, <2>3
    <3> QED BY ONLY <2>4, <3>1, <3>2, PartFacts
  <2>6. IsFile(next.cells)
    <3>1. PICK s, t, k2 : s = acc.cells /\ t = part.cells /\ k2 = Len(t) /\ Long(t, k2)
      BY <2>5, LongIs DEF IsRead
    <3>2. IsJoin(s \o t, s, m, t, k2)
      BY <1>4, <3>1, ConcatFacts
    <3> QED BY <2>4, <3>1, <3>2 DEF IsJoin, Long
  <2>7. ASSUME part.ok, part.checked
        PROVE  r.crc # <<>> /\ Cells(F, r.at, r.length) = r.crc
    <3>1. k = len /\ r.crc # <<>> /\ part.cells = Cells(F, a, k) /\ part.cells = r.crc
      BY <1>2, <2>5, <2>7 DEF IsRead
    <3>2. d = 0
      BY <1>3, <2>2, <2>3, <3>1
    <3>3. a = at
      BY <1>3, <2>3, <3>2
    <3> QED BY <1>2, <3>1, <3>3
  <2>8. next.ok => Checked(F, R, next.whole)
    <3>1. SUFFICES ASSUME part.ok, NEW x \in next.whole
                   PROVE  \E y \in DOMAIN R : x = R[y] /\ x.crc # <<>> /\ Cells(F, x.at, x.length) = x.crc
      BY <2>4 DEF Checked
    <3>2. CASE x \in acc.whole
      BY <1>1, <2>1, <3>2 DEF CheckedAt, Checked
    <3>3. CASE x \notin acc.whole
      <4>1. part.checked /\ x = r
        BY <2>4, <3>1, <3>3
      <4> QED BY <1>1, <1>3, <2>7, <3>1, <4>1
    <3> QED BY <3>2, <3>3
  <2> QED BY <1>1, <1>5, <2>6, <2>8 DEF CheckedAt
<1> QED BY <1>7, <1>8

LEMMA WholeIsChecked ==
  ASSUME NEW e, NEW L, NEW offset, NEW length, IsRanges(e.ranges, L), Disjoint(e.ranges),
         IsFile(e.file), offset \in Nat, length \in Nat,
         ReadSparseData(e, offset, length).ok
  PROVE  Checked(e.file, e.ranges, ReadSparseData(e, offset, length).whole)
<1>0. PICK R, q : R = e.ranges /\ q = From(R, offset)
  OBVIOUS
<1>2. PICK n, f : InOrder(q, R, Beyond(R, offset), n, f)
  BY <1>0, FromFacts
<1>3. /\ IsFile(q) /\ Len(q) = n /\ n \in Nat
      /\ \A i \in 1 .. n : q[i] = R[f[i]] /\ f[i] \in Beyond(R, offset)
  BY <1>2 DEF InOrder, Increasing
<1>4. PICK w, read : w = <<e, offset, length>> /\ read = ReadSparseData(e, offset, length)
  OBVIOUS
<1>5. IsFold("read", w, StartOfRead, q, read)
  BY <1>0, <1>3, <1>4, ReadFolds
<1>6. PICK st : Runs("read", w, StartOfRead, q, st) /\ read = st[n]
  BY <1>3, <1>5, FoldRuns
<1>7. \A i \in 1 .. n : st[i] = ReadStep(e, offset, length, st[i - 1], q[i])
  BY <1>3, <1>4, <1>6 DEF Runs, Step
<1>8. CheckedAt(e.file, R, st[0])
  <2>1. st[0] = StartOfRead
    BY <1>6 DEF Runs
  <2>2. st[0].whole = {} /\ st[0].cells = <<>>
    BY <2>1 DEF StartOfRead
  <2> QED BY <2>2, EmptyIsFile DEF CheckedAt, Checked
<1> DEFINE T == { i \in 0 .. n : CheckedAt(e.file, R, st[i]) }
<1>9. ASSUME NEW i \in 0 .. n - 1, i \in T
      PROVE  i + 1 \in T
  <2>1. PICK o : o = f[i + 1]
    OBVIOUS
  <2>2. st[i + 1] = ReadStep(e, offset, length, st[i], R[o]) /\ o \in Beyond(R, offset)
    <3>1. i + 1 \in 1 .. n /\ (i + 1) - 1 = i
      BY <1>3
    <3> QED BY <1>3, <1>7, <2>1, <3>1
  <2>3. CheckedAt(e.file, R, st[i + 1])
    <3>1. CheckedAt(e.file, R, st[i])
      BY <1>9
    <3>2. IsRanges(R, L) /\ offset \in Nat /\ length \in Nat /\ IsFile(e.file)
      BY <1>0
    <3> QED BY ONLY <2>2, <3>1, <3>2, CheckGoesOn
  <2> QED BY <1>3, <2>3
<1>10. 0 \in T
  BY <1>3, <1>8
<1>11. \A i \in 0 .. n : i \in T
  <2> HIDE DEF T
  <2> QED BY <1>3, <1>9, <1>10, CountUp
<1>12. CheckedAt(e.file, R, read)
  BY <1>3, <1>6, <1>11
<1> QED BY <1>0, <1>4, <1>12 DEF CheckedAt

\* A checksum is of bytes of one write, so what agrees with it is.
LEMMA CheckedIsOneWrite ==
  ASSUME NEW F, NEW R, NEW L, NEW whole, IsRanges(R, L), Checked(F, R, whole), NEW r \in whole
  PROVE  \E w \in L : /\ w.offset <= r.offset
                      /\ r.offset + r.length <= w.offset + w.length
                      /\ Range(Cells(F, r.at, r.length)) = {Byte(w.byte)}
<1>1. PICK o \in DOMAIN R : r = R[o] /\ r.crc # <<>> /\ Cells(F, r.at, r.length) = r.crc
  BY DEF Checked
<1>2. PICK n : n = r.length /\ n \in Nat /\ n > 0 /\ r.offset = o /\ LawfulCrc(r.crc, o, n, L)
  BY <1>1, RangeFacts
<1>3. PICK w \in L : Within(w, o, n) /\ r.crc = Run(w.byte, n)
  BY <1>1, <1>2 DEF LawfulCrc
<1>4. PICK g : g = Run(w.byte, n)
  OBVIOUS
<1>5. DOMAIN g = 1 .. n /\ \A i \in 1 .. n : g[i] = Byte(w.byte)
  BY <1>2, <1>4, RunFacts, FileFacts DEF IsRun, Long
<1>6. Range(g) = {Byte(w.byte)}
  <2>1. 1 \in 1 .. n
    BY <1>2
  <2> QED BY <1>5, <2>1 DEF Range
<1> QED BY <1>1, <1>2, <1>3, <1>4, <1>6 DEF Within

-------------------------------------------------------------------------------
(* Scans *)

LEMMA SpanFacts ==
  ASSUME NEW R, NEW L, NEW o, IsRanges(R, L), o \in DOMAIN R
  PROVE  /\ Begin(R[o]) \in Nat /\ Begin(R[o]) >= 1 /\ R[o].at = Begin(R[o]) + 2
         /\ End(R[o]) \in Nat /\ End(R[o]) >= Begin(R[o]) + 3 /\ End(R[o]) = R[o].at + R[o].length
<1>1. PICK at, len : at = R[o].at /\ len = R[o].length
  OBVIOUS
<1>2. at \in Nat /\ at >= 3 /\ len \in Nat /\ len > 0
  BY <1>1, RangeFacts
<1>3. PICK b, e : b = Begin(R[o]) /\ e = End(R[o])
  OBVIOUS
<1>4. b = at - 2 /\ e = at + len
  BY <1>1, <1>3 DEF Begin, End
<1>5. /\ b \in Nat /\ b >= 1 /\ at = b + 2
      /\ e \in Nat /\ e >= b + 3 /\ e = at + len
  BY ONLY <1>2, <1>4
<1> QED BY <1>1, <1>3, <1>5

\* A range as a scan finds it.
FoundRange(F, r) == [offset |-> r.offset, length |-> r.length, crc |-> F[r.at].crc, at |-> r.at]
FoundIn(F, R, V) == [o \in V |-> FoundRange(F, R[o])]

IsFound(F, r, o) == r.at <= Len(F) /\ F[r.at - 1] = Extent(o, r.length)
Apart(r, q) == End(r) <= Begin(q) \/ End(q) <= Begin(r)

\* The ranges of V cover the file up to the tail, one after the other.
Scanned(F, R, V, tail) ==
  /\ V \subseteq DOMAIN R /\ tail \in Nat /\ tail >= 1
  /\ \A o \in V : /\ IsFound(F, R[o], o) /\ End(R[o]) <= tail
                  /\ End(R[o]) = tail \/ \E p \in V : Begin(R[p]) = End(R[o])
  /\ tail = 1 \/ \E o \in V : End(R[o]) = tail
  /\ tail = 1 \/ \E o \in V : Begin(R[o]) = 1
  /\ \A n \in 1 .. tail - 1 : \E o \in V : Begin(R[o]) <= n /\ n < End(R[o])
  /\ \A o, p \in V : o # p => Apart(R[o], R[p])

LEMMA ScanMoves ==
  ASSUME NEW F, NEW R, NEW L, NEW V, NEW tail, NEW o, IsRanges(R, L),
         Scanned(F, R, V, tail), o \in DOMAIN R, Begin(R[o]) = tail, IsFound(F, R[o], o)
  PROVE  o \notin V /\ Scanned(F, R, V \cup {o}, End(R[o]))
<1>1. PICK end, W : end = End(R[o]) /\ W = V \cup {o}
  OBVIOUS
<1>2. /\ V \subseteq DOMAIN R /\ tail \in Nat /\ tail >= 1
      /\ \A p \in V : /\ IsFound(F, R[p], p) /\ End(R[p]) <= tail
                      /\ End(R[p]) = tail \/ \E p2 \in V : Begin(R[p2]) = End(R[p])
      /\ tail = 1 \/ \E p \in V : End(R[p]) = tail
      /\ tail = 1 \/ \E p \in V : Begin(R[p]) = 1
      /\ \A n \in 1 .. tail - 1 : \E p \in V : Begin(R[p]) <= n /\ n < End(R[p])
      /\ \A p, p2 \in V : p # p2 => Apart(R[p], R[p2])
  BY DEF Scanned
<1>3. \A p \in DOMAIN R : /\ Begin(R[p]) \in Nat /\ End(R[p]) \in Nat
                          /\ Begin(R[p]) >= 1 /\ End(R[p]) >= Begin(R[p]) + 3
  BY SpanFacts
<1>4. end \in Nat /\ end >= tail + 3
  BY <1>1, <1>3
<1>5. o \notin V
  BY <1>1, <1>2, <1>4
<1>6. W \subseteq DOMAIN R /\ end >= 1
  BY <1>1, <1>2, <1>4
<1>7. ASSUME NEW p \in W
      PROVE  /\ IsFound(F, R[p], p) /\ End(R[p]) <= end
             /\ End(R[p]) = end \/ \E p2 \in W : Begin(R[p2]) = End(R[p])
  <2>1. CASE p = o
    BY <1>1, <1>4, <2>1
  <2>2. CASE p # o
    <3>1. p \in V
      BY <1>1, <2>2
    <3>2. IsFound(F, R[p], p) /\ End(R[p]) <= tail /\ End(R[p]) \in Nat
      BY <1>2, <1>3, <3>1
    <3>3. End(R[p]) <= end
      BY <1>2, <1>4, <3>2
    <3>4. CASE End(R[p]) = tail
      <4>1. Begin(R[o]) = End(R[p]) /\ o \in W
        BY <1>1, <3>4
      <4> QED BY <3>2, <3>3, <4>1
    <3>5. CASE End(R[p]) # tail
      <4>1. PICK p2 \in V : Begin(R[p2]) = End(R[p])
        BY <1>2, <3>1, <3>5
      <4>2. p2 \in W
        BY <1>1
      <4> QED BY <3>2, <3>3, <4>1, <4>2
    <3> QED BY <3>4, <3>5
  <2> QED BY <2>1, <2>2
<1>8. \E p \in W : Begin(R[p]) = 1
  BY <1>1, <1>2
<1>9. ASSUME NEW n \in 1 .. end - 1
      PROVE  \E p \in W : Begin(R[p]) <= n /\ n < End(R[p])
  <2>1. CASE n < tail
    <3>1. n \in 1 .. tail - 1
      BY <1>2, <2>1
    <3> QED BY <1>1, <1>2, <3>1
  <2>2. CASE ~ (n < tail)
    <3>1. tail <= n /\ n < end
      BY <1>2, <1>4, <2>2
    <3> QED BY <1>1, <3>1
  <2> QED BY <2>1, <2>2
<1>10. ASSUME NEW p \in W, NEW p2 \in W, p # p2
       PROVE  Apart(R[p], R[p2])
  <2>1. CASE p \in V /\ p2 \in V
    BY <1>2, <1>10, <2>1
  <2>2. CASE p = o
    <3>1. p2 \in V
      BY <1>1, <1>10, <2>2
    <3>2. End(R[p2]) <= Begin(R[p])
      BY <1>2, <2>2, <3>1
    <3> QED BY <3>2 DEF Apart
  <2>3. CASE p2 = o
    <3>1. p \in V
      BY <1>1, <1>10, <2>3
    <3>2. End(R[p]) <= Begin(R[p2])
      BY <1>2, <2>3, <3>1
    <3> QED BY <3>2 DEF Apart
  <2> QED BY <1>1, <2>1, <2>2, <2>3
<1>11. o \in W /\ End(R[o]) = end
  BY <1>1
<1>12. Scanned(F, R, W, end)
  BY <1>4, <1>6, <1>7, <1>8, <1>9, <1>10, <1>11 DEF Scanned
<1> QED BY <1>1, <1>5, <1>12

\* Where a scan has got to, it finds a range or no extent.
LEMMA NextIsFound ==
  ASSUME NEW F, NEW R, NEW L, NEW V, NEW tail, IsRanges(R, L), Scanned(F, R, V, tail),
         \A o, p \in DOMAIN R : o # p => Behind(R[o], R[p]) \/ Behind(R[p], R[o]),
         Marked(F, R, L), IsExtentAt(F, tail)
  PROVE  \E o \in DOMAIN R : Begin(R[o]) = tail /\ F[tail + 1] = Extent(o, R[o].length)
<1>1. \A p \in DOMAIN R : /\ Begin(R[p]) \in Nat /\ End(R[p]) \in Nat
                          /\ Begin(R[p]) >= 1 /\ End(R[p]) >= Begin(R[p]) + 3
  BY SpanFacts
<1>2. V \subseteq DOMAIN R /\ tail \in Nat /\ (tail = 1 \/ \E o \in V : End(R[o]) = tail)
  BY DEF Scanned
<1>3. \/ \E o \in DOMAIN R : Begin(R[o]) = tail /\ F[tail + 1] = Extent(o, R[o].length)
      \/ \E o \in DOMAIN R : End(R[o]) - 1 = tail
  BY <1>2 DEF Marked
<1>4. ASSUME NEW p \in DOMAIN R, End(R[p]) - 1 = tail
      PROVE  FALSE
  <2>1. tail # 1
    BY <1>1, <1>4
  <2>2. PICK q \in V : End(R[q]) = tail
    BY <1>2, <2>1
  <2>3. q \in DOMAIN R /\ p # q
    BY <1>1, <1>2, <1>4, <2>2
  <2>4. PICK bp, ep, bq, eq : bp = Begin(R[p]) /\ ep = End(R[p]) /\ bq = Begin(R[q]) /\ eq = End(R[q])
    OBVIOUS
  <2>5. /\ bp \in Nat /\ ep \in Nat /\ bq \in Nat /\ eq \in Nat /\ ep >= bp + 3 /\ eq >= bq + 3
        /\ ep - 1 = tail /\ eq = tail
    BY <1>1, <1>4, <2>2, <2>3, <2>4
  <2>6. ep - 1 <= bq \/ eq - 1 <= bp
    BY <2>3, <2>4 DEF Behind
  <2> QED BY ONLY <1>2, <2>5, <2>6
<1> QED BY <1>3, <1>4

\* One step of a scan.
LEMMA ScanStepIs ==
  ASSUME NEW F, NEW acc, NEW N, N = Len(F), N \in Nat, acc.tail \in Nat
  PROVE  /\ ~acc.ok \/ acc.tail >= N => ScanStep(F, acc) = acc
         /\ acc.ok /\ acc.tail < N /\ ScanStep(F, acc).ok =>
              IsExtentAt(F, acc.tail) /\ acc.tail + 2 <= N
<1>1. PICK tail, next : tail = acc.tail /\ next = ScanStep(F, acc)
  OBVIOUS
<1>2. CASE ~acc.ok \/ tail >= N
  BY <1>1, <1>2 DEF ScanStep
<1>3. CASE acc.ok /\ tail < N
  <2>1. CellAt(F, tail) = F[tail + 1]
    BY <1>1, <1>3 DEF CellAt
  <2>2. CASE ~Readable(F, tail, 2) \/ CellAt(F, tail).kind # "extent"
    <3>1. next = [acc EXCEPT !.ok = FALSE]
      BY <1>1, <1>3, <2>2 DEF ScanStep, RangeHeaderSize
    <3>2. DOMAIN next = DOMAIN acc /\ ("ok" \in DOMAIN acc => next.ok = FALSE)
      BY <3>1
    <3> QED BY <1>1, <1>3, <3>1, <3>2
  <2>3. CASE ~ (~Readable(F, tail, 2) \/ CellAt(F, tail).kind # "extent")
    <3>1. tail + 2 <= N /\ F[tail + 1].kind = "extent"
      BY <2>1, <2>3 DEF Readable
    <3> QED BY <1>1, <1>3, <3>1 DEF IsExtentAt
  <2> QED BY <2>2, <2>3
<1> QED BY <1>1, <1>2, <1>3


\* A range as the scan that has got to it takes it in.
TakenIn(next, acc, r, end) ==
  /\ next.ok /\ next.ranges = Emplaced(acc.ranges, r) /\ next.tail = end
  /\ next.size = acc.size + r.length

LEMMA ScanTakes ==
  ASSUME NEW F, NEW R, NEW L, NEW acc, NEW N, NEW o, NEW tail, NEW end, IsRanges(R, L),
         o \in DOMAIN R, N = Len(F), N \in Nat, acc.ok, acc.tail = tail, tail \in Nat,
         tail + 2 <= N, Begin(R[o]) = tail, F[tail + 1] = Extent(o, R[o].length),
         End(R[o]) = end
  PROVE  TakenIn(ScanStep(F, acc), acc, FoundRange(F, R[o]), end)
<1>1. PICK at, len : at = R[o].at /\ len = R[o].length
  OBVIOUS
<1>2. at \in Nat /\ len \in Nat /\ at = tail + 2 /\ R[o].offset = o /\ end = at + len
  BY <1>1, RangeFacts, SpanFacts
<1>3. CellAt(F, tail) = Extent(o, len) /\ CellAt(F, tail + 1) = F[at]
  BY <1>1, <1>2 DEF CellAt
<1>4. PICK x, c : x = CellAt(F, tail) /\ c = CellAt(F, tail + 1)
  OBVIOUS
<1>5. x.kind = "extent" /\ x.offset = o /\ x.length = len
  BY <1>3, <1>4 DEF Extent
<1>6. PICK r : r = [offset |-> x.offset, length |-> x.length, crc |-> c.crc, at |-> tail + 2]
  OBVIOUS
<1>7. r = FoundRange(F, R[o])
  BY <1>1, <1>2, <1>3, <1>4, <1>5, <1>6 DEF FoundRange
<1>8. ~ (~acc.ok \/ tail >= N) /\ Readable(F, tail, 2)
  BY DEF Readable
<1>9. ScanStep(F, acc) = [ok |-> TRUE, ranges |-> Emplaced(acc.ranges, r),
                          tail |-> r.at + r.length, size |-> acc.size + r.length]
  BY <1>4, <1>5, <1>6, <1>8 DEF ScanStep, RangeHeaderSize
<1>10. r.at = at /\ r.length = len /\ r.at + r.length = end
  BY <1>2, <1>5, <1>6
<1>11. PICK next : next = ScanStep(F, acc)
  OBVIOUS
<1>12. next.ok /\ next.ranges = Emplaced(acc.ranges, r) /\ next.tail = r.at + r.length
       /\ next.size = acc.size + r.length
  BY <1>9, <1>11
<1>13. TakenIn(next, acc, r, end)
  BY <1>10, <1>12 DEF TakenIn
<1> QED BY <1>7, <1>11, <1>13

LEMMA FoundInMore ==
  ASSUME NEW F, NEW R, NEW V, NEW o, R[o].offset = o, o \notin V
  PROVE  Emplaced(FoundIn(F, R, V), FoundRange(F, R[o])) = FoundIn(F, R, V \cup {o})
<1>1. PICK G, r, W : G = FoundIn(F, R, V) /\ r = FoundRange(F, R[o]) /\ W = V \cup {o}
  OBVIOUS
<1>2. G = [p \in V |-> FoundRange(F, R[p])] /\ r.offset = o
  BY <1>1 DEF FoundIn, FoundRange
<1>3. Emplaced(G, r) = [p \in W |-> IF p \in V THEN G[p] ELSE r]
  BY <1>1, <1>2 DEF Emplaced
<1>4. \A p \in W : (IF p \in V THEN G[p] ELSE r) = FoundRange(F, R[p])
  BY <1>1, <1>2
<1>5. Emplaced(G, r) = [p \in W |-> FoundRange(F, R[p])]
  BY <1>3, <1>4
<1> QED BY <1>1, <1>5 DEF FoundIn

\* A scan has found the ranges of V, if it has not failed.
ScanAt(F, R, N, i, acc) ==
  acc.ok =>
    /\ N >= 1 /\ F[1].kind = "header"
    /\ \E V : /\ Scanned(F, R, V, acc.tail) /\ acc.ranges = FoundIn(F, R, V)
              /\ acc.size \in Nat /\ acc.tail - 1 = acc.size + 2 * Cardinality(V)
              /\ acc.tail >= N \/ acc.tail >= i

LEMMA ScanGoesOn ==
  ASSUME NEW F, NEW R, NEW T, NEW L, NEW N, NEW i, NEW acc, Sound(F, R, T, L), N = Len(F),
         N \in Nat, i \in Nat, ScanAt(F, R, N, i, acc)
  PROVE  ScanAt(F, R, N, i + 1, ScanStep(F, acc))
<1>1. PICK next : next = ScanStep(F, acc)
  OBVIOUS
<1>2. /\ IsRanges(R, L) /\ Marked(F, R, L)
      /\ \A o, p \in DOMAIN R : o # p => Behind(R[o], R[p]) \/ Behind(R[p], R[o])
  BY DEF Sound, Placed
<1>3. CASE ~acc.ok
  <2>1. next = acc
    BY <1>1, <1>3 DEF ScanStep
  <2> QED BY <1>1, <1>3, <2>1 DEF ScanAt
<1>4. CASE acc.ok
  <2>1. N >= 1 /\ F[1].kind = "header"
    BY <1>4 DEF ScanAt
  <2>2. PICK V : /\ Scanned(F, R, V, acc.tail) /\ acc.ranges = FoundIn(F, R, V)
                 /\ acc.size \in Nat /\ acc.tail - 1 = acc.size + 2 * Cardinality(V)
                 /\ acc.tail >= N \/ acc.tail >= i
    BY <1>4 DEF ScanAt
  <2>3. PICK tail, size : tail = acc.tail /\ size = acc.size
    OBVIOUS
  <2>4. tail \in Nat /\ size \in Nat /\ V \subseteq DOMAIN R
    BY <2>2, <2>3 DEF Scanned
  <2>5. /\ ~acc.ok \/ acc.tail >= N => next = acc
        /\ acc.ok /\ acc.tail < N /\ next.ok => IsExtentAt(F, acc.tail) /\ acc.tail + 2 <= N
    BY <1>1, <2>3, <2>4, ScanStepIs
  <2>6. CASE tail >= N
    <3>1. next = acc
      BY <2>3, <2>5, <2>6
    <3>2. next.tail >= N
      BY <2>3, <2>6, <3>1
    <3> QED BY <1>1, <2>1, <2>2, <3>1, <3>2 DEF ScanAt
  <2>7. CASE tail < N /\ ~next.ok
    BY <1>1, <2>7 DEF ScanAt
  <2>8. CASE tail < N /\ next.ok
    <3>1. IsExtentAt(F, tail) /\ tail + 2 <= N
      BY <1>4, <2>3, <2>5, <2>8
    <3>2. Scanned(F, R, V, tail)
      BY <2>2, <2>3
    <3>3. PICK o \in DOMAIN R : Begin(R[o]) = tail /\ F[tail + 1] = Extent(o, R[o].length)
      BY <1>2, <3>1, <3>2, NextIsFound
    <3>4. PICK end, len : end = End(R[o]) /\ len = R[o].length
      OBVIOUS
    <3>5. /\ R[o].offset = o /\ R[o].at = tail + 2 /\ end = tail + 2 + len
          /\ len \in Nat /\ end \in Nat
      BY <1>2, <2>4, <3>3, <3>4, SpanFacts, RangeFacts
    <3>6. TakenIn(next, acc, FoundRange(F, R[o]), end)
      BY <1>1, <1>2, <1>4, <2>3, <2>4, <3>1, <3>3, <3>4, ScanTakes
    <3>7. FoundRange(F, R[o]).length = len
      BY <3>4 DEF FoundRange
    <3>8. /\ next.ranges = Emplaced(acc.ranges, FoundRange(F, R[o])) /\ next.tail = end
          /\ next.size = size + len
      BY <2>3, <3>6, <3>7 DEF TakenIn
    <3>9. IsFound(F, R[o], o)
      <4>1. (tail + 2) - 1 = tail + 1
        BY <2>4
      <4> QED BY <3>1, <3>3, <3>5, <4>1 DEF IsFound
    <3>10. o \notin V /\ Scanned(F, R, V \cup {o}, end)
      BY <1>2, <3>2, <3>3, <3>4, <3>9, ScanMoves
    <3>11. next.ranges = FoundIn(F, R, V \cup {o})
      BY <2>2, <3>5, <3>8, <3>10, FoundInMore
    <3>12. IsFiniteSet(V)
      BY <1>2, <2>4, FS_Subset DEF IsRanges
    <3>13. PICK m : m = Cardinality(V)
      OBVIOUS
    <3>14. m \in Nat /\ Cardinality(V \cup {o}) = m + 1
      BY <3>10, <3>12, <3>13, FS_CardinalityType, FS_AddElement
    <3>15. tail - 1 = size + 2 * m /\ (tail >= N \/ tail >= i)
      BY <2>2, <2>3, <3>13
    <3>16. end - 1 = (size + len) + 2 * (m + 1) /\ end >= i + 1 /\ size + len \in Nat
      BY ONLY <2>4, <2>8, <3>5, <3>14, <3>15, i \in Nat, N \in Nat
    <3>17. \E W : /\ Scanned(F, R, W, next.tail) /\ next.ranges = FoundIn(F, R, W)
                  /\ next.size \in Nat /\ next.tail - 1 = next.size + 2 * Cardinality(W)
                  /\ next.tail >= N \/ next.tail >= i + 1
      <4>1. PICK W : W = V \cup {o}
        OBVIOUS
      <4>2. /\ Scanned(F, R, W, next.tail) /\ next.ranges = FoundIn(F, R, W)
            /\ next.size \in Nat /\ next.tail - 1 = next.size + 2 * Cardinality(W)
            /\ next.tail >= i + 1
        BY <3>8, <3>10, <3>11, <3>14, <3>16, <4>1
      <4> QED BY <4>2
    <3> QED BY <1>1, <2>1, <3>17 DEF ScanAt
  <2> QED BY <2>4, <2>6, <2>7, <2>8
<1> QED BY <1>3, <1>4

LEMMA ScanBegins ==
  ASSUME NEW F, NEW R, NEW N, IsFile(F), N = Len(F)
  PROVE  ScanAt(F, R, N, 0, StartOfScan(F))
<1>1. PICK s : s = StartOfScan(F)
  OBVIOUS
<1>2. N \in Nat
  BY FileFacts
<1>3. /\ s.ok = (Readable(F, 0, 1) /\ CellAt(F, 0).kind = "header")
      /\ s.ranges = NoRanges /\ s.tail = 1 /\ s.size = 0
  BY <1>1 DEF StartOfScan, HeaderSize
<1>4. CASE ~s.ok
  BY <1>1, <1>4 DEF ScanAt
<1>5. CASE s.ok
  <2>1. N >= 1 /\ F[1].kind = "header"
    <3>1. Readable(F, 0, 1) /\ CellAt(F, 0).kind = "header"
      BY <1>3, <1>5
    <3>2. N >= 1
      BY <1>2, <3>1 DEF Readable
    <3>3. CellAt(F, 0) = F[1]
      <4>1. 0 \in 0 .. Len(F) - 1 /\ 0 + 1 = 1
        BY <1>2, <3>2
      <4> QED BY <4>1 DEF CellAt
    <3> QED BY <3>1, <3>2, <3>3
  <2>2. s.ranges = FoundIn(F, R, {})
    BY <1>3 DEF NoRanges, FoundIn
  <2>3. Scanned(F, R, {}, 1)
    BY DEF Scanned
  <2>4. Cardinality({}) = 0
    BY FS_EmptySet
  <2>5. /\ Scanned(F, R, {}, s.tail) /\ s.ranges = FoundIn(F, R, {})
        /\ s.size \in Nat /\ s.tail - 1 = s.size + 2 * Cardinality({})
        /\ s.tail >= 0
    BY <1>3, <2>2, <2>3, <2>4
  <2> QED BY <1>1, <2>1, <2>5 DEF ScanAt
<1> QED BY <1>1, <1>4, <1>5

\* What a scan that does not fail has found.
ScanFound(F, R, V, scan) ==
  /\ Len(F) >= 1 /\ F[1].kind = "header"
  /\ Scanned(F, R, V, scan.tail) /\ scan.ranges = FoundIn(F, R, V)
  /\ scan.size \in Nat /\ scan.tail - 1 = scan.size + 2 * Cardinality(V)
  /\ scan.tail >= Len(F)

LEMMA ScanFinds ==
  ASSUME NEW F, NEW R, NEW T, NEW L, Sound(F, R, T, L), ScanSparseFile(F).ok
  PROVE  \E V : ScanFound(F, R, V, ScanSparseFile(F))
<1>1. PICK N, scan, start : N = Len(F) /\ scan = ScanSparseFile(F) /\ start = StartOfScan(F)
  OBVIOUS
<1>2. IsFile(F) /\ N \in Nat
  BY <1>1, FileFacts DEF Sound
<1>3. IsFold("scan", F, start, F, scan)
  BY <1>1, <1>2, ScanFolds
<1>4. PICK st : Runs("scan", F, start, F, st) /\ scan = st[N]
  BY <1>1, <1>2, <1>3, FoldRuns
<1>5. st[0] = start /\ \A i \in 1 .. N : st[i] = ScanStep(F, st[i - 1])
  BY <1>1, <1>4 DEF Runs, Step
<1> DEFINE S == { i \in 0 .. N : ScanAt(F, R, N, i, st[i]) }
<1>6. ASSUME NEW i \in 0 .. N - 1, i \in S
      PROVE  i + 1 \in S
  <2>1. st[i + 1] = ScanStep(F, st[i])
    <3>1. i + 1 \in 1 .. N /\ (i + 1) - 1 = i
      BY <1>2
    <3> QED BY <1>5, <3>1
  <2>2. ScanAt(F, R, N, i, st[i]) /\ i \in Nat
    BY <1>6
  <2>3. ScanAt(F, R, N, i + 1, st[i + 1])
    BY <1>1, <1>2, <2>1, <2>2, ScanGoesOn
  <2> QED BY <1>2, <2>3
<1>7. 0 \in S
  <2>1. ScanAt(F, R, N, 0, st[0])
    BY <1>1, <1>2, <1>5, ScanBegins
  <2> QED BY <1>2, <2>1
<1>8. \A i \in 0 .. N : i \in S
  <2> HIDE DEF S
  <2> QED BY <1>2, <1>6, <1>7, CountUp
<1>9. ScanAt(F, R, N, N, scan) /\ scan.ok
  BY <1>1, <1>2, <1>4, <1>8
<1>10. PICK V : /\ N >= 1 /\ F[1].kind = "header"
                /\ Scanned(F, R, V, scan.tail) /\ scan.ranges = FoundIn(F, R, V)
                /\ scan.size \in Nat /\ scan.tail - 1 = scan.size + 2 * Cardinality(V)
                /\ scan.tail >= N
  BY <1>9 DEF ScanAt
<1> QED BY <1>1, <1>10 DEF ScanFound

\* A range r as it was found where q is.
SameSpan(r, q) ==
  Begin(r) = Begin(q) /\ End(r) = End(q) /\ r.at = q.at /\ r.length = q.length
IsHeaded(F, r, o) ==
  F[r.at - 1] = Extent(o, r.length) /\ F[r.at] = DataCrc32(r.crc) /\ r.at <= Len(F)
FoundAs(F, r, q, o, L) == SameSpan(r, q) /\ IsRange(r, o, L) /\ IsHeaded(F, r, o)

LEMMA FoundFacts ==
  ASSUME NEW F, NEW R, NEW T, NEW L, NEW V, NEW o, NEW G, Sound(F, R, T, L),
         V \subseteq DOMAIN R, o \in V, IsFound(F, R[o], o), G = FoundIn(F, R, V)
  PROVE  FoundAs(F, G[o], R[o], o, L)
<1>1. PICK r : r = G[o]
  OBVIOUS
<1>2. r = [offset |-> R[o].offset, length |-> R[o].length, crc |-> F[R[o].at].crc,
           at |-> R[o].at]
  BY <1>1 DEF FoundIn, FoundRange
<1>3. PICK at, len, crc : at = R[o].at /\ len = R[o].length /\ crc = F[R[o].at].crc
  OBVIOUS
<1>4. o \in DOMAIN R /\ IsRanges(R, L)
  BY DEF Sound
<1>5. R[o].offset = o /\ o \in Nat /\ len \in Nat /\ len > 0 /\ at \in Nat /\ at >= 3
  BY <1>3, <1>4, RangeFacts
<1>6. r = [offset |-> o, length |-> len, crc |-> crc, at |-> at]
  BY <1>2, <1>3, <1>5
<1>7. r.offset = o /\ r.length = len /\ r.crc = crc /\ r.at = at
  BY <1>6
<1>8. at <= Len(F) /\ F[at - 1] = Extent(o, len)
  BY <1>3 DEF IsFound
<1>9. \E c : F[at] = DataCrc32(c) /\ LawfulCrc(c, o, len, L)
  BY <1>3, <1>4, <1>8 DEF Sound, Marked
<1>10. F[at] = DataCrc32(crc) /\ LawfulCrc(crc, o, len, L)
  <2>1. PICK c : F[at] = DataCrc32(c) /\ LawfulCrc(c, o, len, L)
    BY <1>9
  <2>2. DataCrc32(c).crc = c
    BY DEF DataCrc32
  <2>3. c = crc
    BY <1>3, <2>1, <2>2
  <2> QED BY <2>1, <2>3
<1>11. Begin(r) = Begin(R[o]) /\ End(r) = End(R[o])
  BY <1>3, <1>7 DEF Begin, End
<1>12. IsRange(r, o, L)
  BY <1>5, <1>6, <1>7, <1>10 DEF IsRange
<1>13. F[r.at - 1] = Extent(o, r.length) /\ F[r.at] = DataCrc32(r.crc) /\ r.at <= Len(F)
  BY <1>7, <1>8, <1>10
<1>14. SameSpan(r, R[o])
  BY <1>3, <1>7, <1>11 DEF SameSpan
<1>15. IsHeaded(F, r, o)
  BY <1>13 DEF IsHeaded
<1>16. FoundAs(F, r, R[o], o, L)
  BY <1>12, <1>14, <1>15 DEF FoundAs
<1> QED BY <1>1, <1>16

\* A scan of a sound file makes it whole and exact.
LEMMA ScanKeeps ==
  ASSUME NEW F, NEW R, NEW T, NEW L, NEW V, NEW scan, Sound(F, R, T, L),
         ScanFound(F, R, V, scan)
  PROVE  Kept(F, scan.ranges, scan.tail, L, FALSE) /\ Counted(scan.ranges, scan.tail, scan.size)
<1>1. PICK G, tail, size : G = FoundIn(F, R, V) /\ tail = scan.tail /\ size = scan.size
  OBVIOUS
<1>2. /\ Len(F) >= 1 /\ F[1].kind = "header" /\ Scanned(F, R, V, tail)
      /\ scan.ranges = G /\ size \in Nat /\ tail - 1 = size + 2 * Cardinality(V)
      /\ tail >= Len(F)
  BY <1>1 DEF ScanFound
<1>3. /\ V \subseteq DOMAIN R /\ tail \in Nat /\ tail >= 1
      /\ \A o \in V : /\ IsFound(F, R[o], o) /\ End(R[o]) <= tail
                      /\ End(R[o]) = tail \/ \E p \in V : Begin(R[p]) = End(R[o])
      /\ tail = 1 \/ \E o \in V : Begin(R[o]) = 1
      /\ \A n \in 1 .. tail - 1 : \E o \in V : Begin(R[o]) <= n /\ n < End(R[o])
      /\ \A o, p \in V : o # p => Apart(R[o], R[p])
  BY <1>2 DEF Scanned
<1>4. /\ IsFile(F) /\ IsRanges(R, L) /\ Disjoint(R) /\ Marked(F, R, L)
      /\ \A o, p \in DOMAIN R : o # p => Behind(R[o], R[p]) \/ Behind(R[p], R[o])
  BY DEF Sound, Placed
<1>5. Len(F) \in Nat
  BY <1>4, FileFacts
<1>6. DOMAIN G = V /\ G = [o \in V |-> G[o]]
  BY <1>1 DEF FoundIn
<1>7. \A o \in V :
        /\ Begin(G[o]) = Begin(R[o]) /\ End(G[o]) = End(R[o])
        /\ G[o].at = R[o].at /\ G[o].length = R[o].length /\ IsRange(G[o], o, L)
        /\ F[G[o].at - 1] = Extent(o, G[o].length) /\ F[G[o].at] = DataCrc32(G[o].crc)
        /\ G[o].at <= Len(F)
  <2>1. SUFFICES ASSUME NEW o \in V
                 PROVE  /\ Begin(G[o]) = Begin(R[o]) /\ End(G[o]) = End(R[o])
                        /\ G[o].at = R[o].at /\ G[o].length = R[o].length /\ IsRange(G[o], o, L)
                        /\ F[G[o].at - 1] = Extent(o, G[o].length) /\ F[G[o].at] = DataCrc32(G[o].crc)
                        /\ G[o].at <= Len(F)
    OBVIOUS
  <2>2. IsFound(F, R[o], o)
    BY <1>3
  <2>3. FoundAs(F, G[o], R[o], o, L)
    <3>1. Sound(F, R, T, L) /\ V \subseteq DOMAIN R /\ o \in V /\ G = FoundIn(F, R, V)
      BY <1>1, <1>3
    <3> QED BY ONLY <2>2, <3>1, FoundFacts
  <2> QED BY <2>3 DEF FoundAs, SameSpan, IsHeaded
<1>8. \A o \in V : /\ o \in DOMAIN R /\ Begin(R[o]) \in Nat /\ Begin(R[o]) >= 1 /\ R[o].at = Begin(R[o]) + 2
                   /\ End(R[o]) \in Nat /\ End(R[o]) >= Begin(R[o]) + 3
  BY <1>3, <1>4, SpanFacts
<1>9. IsRanges(G, L)
  <2>1. IsFiniteSet(V)
    BY <1>3, <1>4, FS_Subset DEF IsRanges
  <2> QED BY <1>6, <1>7, <2>1 DEF IsRanges
<1>10. Disjoint(G)
  BY <1>3, <1>4, <1>6, <1>7 DEF Disjoint
<1>11. \A o \in V : G[o].at + 1 <= tail /\ End(G[o]) <= tail + 1
  <2>1. SUFFICES ASSUME NEW o \in V
                 PROVE  G[o].at + 1 <= tail /\ End(G[o]) <= tail + 1
    OBVIOUS
  <2>2. PICK b, e : b = Begin(R[o]) /\ e = End(R[o])
    OBVIOUS
  <2>3. b \in Nat /\ e \in Nat /\ e >= b + 3 /\ e <= tail /\ G[o].at = b + 2 /\ End(G[o]) = e
    BY <1>3, <1>7, <1>8, <2>2
  <2> QED BY <1>3, <2>3
<1>12. \A o, p \in V : o # p => Behind(G[o], G[p]) \/ Behind(G[p], G[o])
  <2>1. ASSUME NEW o \in V, NEW p \in V, End(R[o]) <= Begin(R[p])
        PROVE  Behind(G[o], G[p])
    <3>1. PICK b, e, c : b = Begin(R[o]) /\ e = End(R[o]) /\ c = Begin(R[p])
      OBVIOUS
    <3>2. b \in Nat /\ e \in Nat /\ c \in Nat /\ e >= b + 3 /\ e <= c
      BY <1>8, <2>1, <3>1
    <3>3. G[o].at = b + 2 /\ End(G[o]) = e /\ Begin(G[p]) = c
      BY <1>7, <1>8, <3>1
    <3>4. G[o].at + 1 <= Begin(G[p]) /\ End(G[o]) - 1 <= Begin(G[p])
      BY <3>2, <3>3
    <3> QED BY <3>4 DEF Behind
  <2> QED BY <1>3, <2>1 DEF Apart
<1>13. Placed(G, tail)
  BY <1>3, <1>6, <1>11, <1>12 DEF Placed
<1>14. ASSUME NEW n \in Nat, IsExtentAt(F, n)
       PROVE  \/ \E o \in V : Begin(G[o]) = n /\ F[n + 1] = Extent(o, G[o].length)
              \/ \E o \in V : End(G[o]) - 1 = n
  <2>1. n < Len(F) /\ F[n + 1].kind = "extent"
    BY <1>14 DEF IsExtentAt
  <2>2. n # 0
    BY <1>2, <2>1
  <2>3. n \in 1 .. tail - 1
    BY <1>2, <1>3, <1>5, <2>1, <2>2
  <2>4. PICK p \in V : Begin(R[p]) <= n /\ n < End(R[p])
    BY <1>3, <2>3
  <2>5. PICK bp, ep : bp = Begin(R[p]) /\ ep = End(R[p])
    OBVIOUS
  <2>6. bp \in Nat /\ ep \in Nat /\ ep >= bp + 3 /\ R[p].at = bp + 2 /\ bp <= n /\ n < ep
    BY <1>8, <2>4, <2>5
  <2>7. Begin(G[p]) = bp /\ End(G[p]) = ep /\ F[bp + 1] = Extent(p, G[p].length)
    <3>1. G[p].at - 1 = bp + 1
      BY <1>7, <2>6
    <3> QED BY <1>7, <2>5, <3>1
  <2>8. CASE n = bp
    BY <2>7, <2>8
  <2>9. CASE n = ep - 1
    BY <2>7, <2>9
  <2>10. CASE n # bp /\ n # ep - 1
    <3>1. ASSUME NEW o \in DOMAIN R, o # p, Begin(R[o]) <= n, n < End(R[o])
          PROVE  n = End(R[p]) - 1 \/ n = Begin(R[p])
      <4>1. PICK b, e : b = Begin(R[o]) /\ e = End(R[o])
        OBVIOUS
      <4>2. b \in Nat /\ e \in Nat /\ e >= b + 3 /\ R[o].at = b + 2 /\ b <= n /\ n < e
        BY <1>4, <3>1, <4>1, SpanFacts
      <4>3. Behind(R[o], R[p]) \/ Behind(R[p], R[o])
        BY <1>3, <1>4, <3>1
      <4>4. (e - 1 <= bp) \/ (ep - 1 <= b)
        BY <2>5, <4>1, <4>3 DEF Behind
      <4>5. n = ep - 1 \/ n = bp
        BY ONLY <2>6, <4>2, <4>4, n \in Nat
      <4> QED BY <2>5, <4>5
    <3>2. \/ \E o \in DOMAIN R : Begin(R[o]) = n /\ F[n + 1] = Extent(o, R[o].length)
          \/ \E o \in DOMAIN R : End(R[o]) - 1 = n
      BY <1>4, <1>14 DEF Marked
    <3>3. CASE \E o \in DOMAIN R : Begin(R[o]) = n /\ F[n + 1] = Extent(o, R[o].length)
      <4>1. PICK o \in DOMAIN R : Begin(R[o]) = n
        BY <3>3
      <4>2. o # p /\ n < End(R[o])
        BY <1>4, <2>5, <2>10, <4>1, SpanFacts
      <4> QED BY <2>5, <2>10, <3>1, <4>1, <4>2
    <3>4. CASE \E o \in DOMAIN R : End(R[o]) - 1 = n
      <4>1. PICK o \in DOMAIN R : End(R[o]) - 1 = n
        BY <3>4
      <4>2. o # p /\ n < End(R[o]) /\ Begin(R[o]) <= n
        BY <1>4, <2>5, <2>10, <4>1, SpanFacts
      <4> QED BY <2>5, <2>10, <3>1, <4>2
    <3> QED BY <3>2, <3>3, <3>4
  <2> QED BY <2>8, <2>9, <2>10
<1>15. Marked(F, G, L)
  <2>1. ASSUME NEW o \in V
        PROVE  \E crc : F[G[o].at] = DataCrc32(crc) /\ LawfulCrc(crc, o, G[o].length, L)
    <3>1. IsRange(G[o], o, L) /\ F[G[o].at] = DataCrc32(G[o].crc)
      BY <1>7
    <3> QED BY <3>1 DEF IsRange
  <2> QED BY <1>6, <1>14, <2>1 DEF Marked
<1>16. Len(F) <= tail + 1
  BY <1>2, <1>3, <1>5
<1>17. Sound(F, G, tail, L)
  BY <1>4, <1>9, <1>10, <1>13, <1>15, <1>16 DEF Sound
<1>18. Whole(F, G)
  BY <1>2, <1>6, <1>7 DEF Whole
<1>19. Exact(F, G, tail)
  <2>1. Len(F) <= tail
    BY <1>2, <1>3, <1>5
  <2>2. ASSUME NEW o \in V
        PROVE  /\ F[G[o].at - 1] = Extent(o, G[o].length) /\ F[G[o].at] = DataCrc32(G[o].crc)
               /\ End(G[o]) <= tail
               /\ End(G[o]) = tail \/ \E p \in V : Begin(G[p]) = End(G[o])
    BY <1>3, <1>7
  <2>3. \A o, p \in V : o # p => End(G[o]) <= Begin(G[p]) \/ End(G[p]) <= Begin(G[o])
    BY <1>3, <1>7 DEF Apart
  <2>4. tail = 1 \/ \E o \in V : Begin(G[o]) = 1
    BY <1>3, <1>7
  <2> QED BY <1>6, <2>1, <2>2, <2>3, <2>4 DEF Exact
<1>20. Counted(G, tail, size)
  BY <1>2, <1>6 DEF Counted
<1>21. Kept(F, G, tail, L, FALSE)
  BY <1>17, <1>18, <1>19 DEF Kept
<1> QED BY <1>1, <1>2, <1>20, <1>21

\* In a file that is whole and exact, a scan finds what there is.
NextAt(F, R, tail) ==
  \E o \in DOMAIN R : /\ Begin(R[o]) = tail /\ tail + 2 <= Len(F)
                      /\ F[tail + 1] = Extent(o, R[o].length)

LEMMA NextIsThere ==
  ASSUME NEW F, NEW R, NEW T, NEW L, NEW V, NEW tail, Kept(F, R, T, L, FALSE),
         Scanned(F, R, V, tail), tail < T
  PROVE  NextAt(F, R, tail)
<1>1. IsRanges(R, L) /\ Whole(F, R) /\ Exact(F, R, T)
  BY DEF Kept, Sound
<1>2. V \subseteq DOMAIN R /\ tail \in Nat /\ (tail = 1 \/ \E o \in V : End(R[o]) = tail)
  BY DEF Scanned
<1>3. T \in Nat
  BY DEF Kept, Sound, Placed
<1>4. \E o \in DOMAIN R : Begin(R[o]) = tail
  <2>1. CASE tail = 1
    <3>1. T # 1
      BY <1>3, <2>1
    <3> QED BY <1>1, <2>1, <3>1 DEF Exact
  <2>2. CASE tail # 1
    <3>1. PICK q \in V : End(R[q]) = tail
      BY <1>2, <2>2
    <3>2. q \in DOMAIN R /\ End(R[q]) # T
      BY <1>2, <1>3, <3>1
    <3>3. End(R[q]) = T \/ \E p \in DOMAIN R : Begin(R[p]) = End(R[q])
      BY <1>1, <3>2 DEF Exact
    <3> QED BY <3>1, <3>2, <3>3
  <2> QED BY <2>1, <2>2
<1>5. PICK o \in DOMAIN R : Begin(R[o]) = tail
  BY <1>4
<1>6. R[o].at = tail + 2
  BY <1>1, <1>5, SpanFacts
<1>7. R[o].at <= Len(F)
  BY <1>1 DEF Whole
<1>8. F[R[o].at - 1] = Extent(o, R[o].length)
  BY <1>1 DEF Exact
<1>9. R[o].at - 1 = tail + 1
  BY <1>2, <1>6
<1> QED BY <1>5, <1>6, <1>7, <1>8, <1>9 DEF NextAt

LEMMA ScanFindsAll ==
  ASSUME NEW F, NEW R, NEW T, NEW L, NEW V, NEW scan, Kept(F, R, T, L, FALSE),
         ScanFound(F, R, V, scan)
  PROVE  scan.ranges = R /\ scan.tail = T /\ Counted(R, T, scan.size)
<1>1. PICK G, tail, size, N : G = FoundIn(F, R, V) /\ tail = scan.tail /\ size = scan.size /\ N = Len(F)
  OBVIOUS
<1>2. /\ Scanned(F, R, V, tail)
      /\ scan.ranges = G /\ size \in Nat /\ tail - 1 = size + 2 * Cardinality(V)
      /\ tail >= N
  BY <1>1 DEF ScanFound
<1>3. /\ V \subseteq DOMAIN R /\ tail \in Nat
      /\ \A o \in V : End(R[o]) <= tail
      /\ \A n \in 1 .. tail - 1 : \E o \in V : Begin(R[o]) <= n /\ n < End(R[o])
      /\ tail = 1 \/ \E o \in V : End(R[o]) = tail
  BY <1>2 DEF Scanned
<1>4. IsFile(F) /\ IsRanges(R, L) /\ Exact(F, R, T) /\ T \in Nat /\ T >= 1
  BY DEF Kept, Sound, Placed
<1>5. N \in Nat
  BY <1>1, <1>4, FileFacts
<1>6. tail = T
  <2>1. ASSUME tail < T
        PROVE  FALSE
    <3>1. tail + 2 <= N
      BY <1>1, <1>2, <2>1, NextIsThere DEF NextAt
    <3> QED BY <1>2, <1>3, <1>5, <3>1
  <2>2. tail <= T
    <3>1. CASE tail = 1
      BY <1>4, <3>1
    <3>2. CASE tail # 1
      <4>1. PICK o \in V : End(R[o]) = tail
        BY <1>3, <3>2
      <4>2. o \in DOMAIN R
        BY <1>3
      <4> QED BY <1>4, <4>1, <4>2 DEF Exact
    <3> QED BY <3>1, <3>2
  <2> QED BY <1>3, <1>4, <2>1, <2>2
<1>7. ASSUME NEW o \in DOMAIN R, o \notin V
      PROVE  FALSE
  <2>1. PICK b, e : b = Begin(R[o]) /\ e = End(R[o])
    OBVIOUS
  <2>2. b \in Nat /\ b >= 1 /\ e \in Nat /\ e >= b + 3 /\ e <= T
    <3>1. End(R[o]) <= T
      BY <1>4 DEF Exact
    <3> QED BY <1>4, <2>1, <3>1, SpanFacts
  <2>3. b \in 1 .. tail - 1
    BY <1>4, <1>6, <2>2
  <2>4. PICK p \in V : Begin(R[p]) <= b /\ b < End(R[p])
    BY <1>3, <2>3
  <2>5. PICK c, f : c = Begin(R[p]) /\ f = End(R[p])
    OBVIOUS
  <2>6. c \in Nat /\ f \in Nat /\ c <= b /\ b < f
    BY <1>3, <1>4, <2>4, <2>5, SpanFacts
  <2>7. p # o /\ p \in DOMAIN R
    BY <1>3, <1>7
  <2>8. e <= c \/ f <= b
    BY <1>4, <2>1, <2>5, <2>7 DEF Exact
  <2> QED BY ONLY <2>2, <2>6, <2>8
<1>8. V = DOMAIN R
  BY <1>3, <1>7
<1>9. G = R
  <2>1. ASSUME NEW o \in DOMAIN R
        PROVE  FoundRange(F, R[o]) = R[o]
    <3>1. PICK r : r = R[o]
      OBVIOUS
    <3>2. r = [offset |-> o, length |-> r.length, crc |-> r.crc, at |-> r.at]
      BY <1>4, <3>1 DEF IsRanges, IsRange
    <3>3. F[r.at] = DataCrc32(r.crc)
      BY <1>4, <3>1 DEF Exact
    <3>4. DataCrc32(r.crc).crc = r.crc
      BY DEF DataCrc32
    <3>5. F[r.at].crc = r.crc
      BY <3>3, <3>4
    <3>6. r.offset = o
      BY <3>2
    <3>7. FoundRange(F, r) = [offset |-> o, length |-> r.length, crc |-> r.crc, at |-> r.at]
      BY <3>5, <3>6 DEF FoundRange
    <3> QED BY <3>1, <3>2, <3>7
  <2>2. G = [o \in DOMAIN R |-> FoundRange(F, R[o])]
    BY <1>1, <1>8 DEF FoundIn
  <2>3. R = [o \in DOMAIN R |-> R[o]]
    BY <1>4 DEF IsRanges
  <2> QED BY <2>1, <2>2, <2>3
<1>10. Counted(R, T, size)
  BY <1>2, <1>6, <1>8 DEF Counted
<1> QED BY <1>1, <1>2, <1>6, <1>9, <1>10

LEMMA ScanIsOk ==
  ASSUME NEW F, NEW R, NEW T, NEW L, Kept(F, R, T, L, FALSE)
  PROVE  ScanSparseFile(F).ok
<1>1. PICK N, scan, start : N = Len(F) /\ scan = ScanSparseFile(F) /\ start = StartOfScan(F)
  OBVIOUS
<1>2. /\ IsFile(F) /\ N \in Nat /\ Sound(F, R, T, L) /\ Whole(F, R) /\ IsRanges(R, L)
      /\ T \in Nat /\ N <= T
  BY <1>1, FileFacts DEF Kept, Sound, Placed, Exact
<1>3. IsFold("scan", F, start, F, scan)
  BY <1>1, <1>2, ScanFolds
<1>4. PICK st : Runs("scan", F, start, F, st) /\ scan = st[N]
  BY <1>1, <1>2, <1>3, FoldRuns
<1>5. st[0] = start /\ \A i \in 1 .. N : st[i] = ScanStep(F, st[i - 1])
  BY <1>1, <1>4 DEF Runs, Step
<1> DEFINE S == { i \in 0 .. N : ScanAt(F, R, N, i, st[i]) /\ st[i].ok }
<1>6. ASSUME NEW i \in 0 .. N - 1, i \in S
      PROVE  i + 1 \in S
  <2>1. PICK acc, next : acc = st[i] /\ next = st[i + 1]
    OBVIOUS
  <2>2. next = ScanStep(F, acc)
    <3>1. i + 1 \in 1 .. N /\ (i + 1) - 1 = i
      BY <1>2
    <3> QED BY <1>5, <2>1, <3>1
  <2>3. ScanAt(F, R, N, i, acc) /\ acc.ok /\ i \in Nat
    BY <1>6, <2>1
  <2>4. ScanAt(F, R, N, i + 1, next)
    BY <1>1, <1>2, <2>2, <2>3, ScanGoesOn
  <2>5. next.ok
    <3>1. PICK V : Scanned(F, R, V, acc.tail)
      BY <2>3 DEF ScanAt
    <3>2. PICK tail : tail = acc.tail
      OBVIOUS
    <3>3. tail \in Nat /\ Scanned(F, R, V, tail)
      BY <3>1, <3>2 DEF Scanned
    <3>4. CASE tail >= N
      <4>1. next = acc
        BY <1>1, <2>2, <3>2, <3>4 DEF ScanStep
      <4> QED BY <2>3, <4>1
    <3>5. CASE tail < N
      <4>1. tail < T
        BY <1>2, <3>3, <3>5
      <4>2. PICK o \in DOMAIN R : /\ Begin(R[o]) = tail /\ tail + 2 <= N
                                  /\ F[tail + 1] = Extent(o, R[o].length)
        <5>1. Kept(F, R, T, L, FALSE) /\ Scanned(F, R, V, tail) /\ tail \in Nat /\ T \in Nat
          BY <1>2, <3>3
        <5>2. NextAt(F, R, tail)
          BY ONLY <4>1, <5>1, NextIsThere
        <5> QED BY <1>1, <5>2 DEF NextAt
      <4>3. PICK end : end = End(R[o])
        OBVIOUS
      <4>4. TakenIn(next, acc, FoundRange(F, R[o]), end)
        BY <1>1, <1>2, <2>2, <2>3, <3>2, <3>3, <4>2, <4>3, ScanTakes
      <4> QED BY <4>4 DEF TakenIn
    <3> QED BY <1>2, <3>3, <3>4, <3>5
  <2> QED BY <1>2, <2>1, <2>4, <2>5
<1>7. 0 \in S
  <2>1. ScanAt(F, R, N, 0, st[0])
    BY <1>1, <1>2, <1>5, ScanBegins
  <2>2. start.ok
    <3>1. N >= 1 /\ F[1].kind = "header"
      BY <1>1, <1>2 DEF Whole
    <3>2. CellAt(F, 0) = F[1]
      <4>1. 0 \in 0 .. Len(F) - 1 /\ 0 + 1 = 1
        BY <1>1, <1>2, <3>1
      <4> QED BY <4>1 DEF CellAt
    <3>3. Readable(F, 0, 1)
      BY <1>1, <1>2, <3>1 DEF Readable
    <3>4. start.ok = (Readable(F, 0, 1) /\ CellAt(F, 0).kind = "header")
      BY <1>1 DEF StartOfScan, HeaderSize
    <3> QED BY <3>1, <3>2, <3>3, <3>4
  <2> QED BY <1>2, <1>5, <2>1, <2>2
<1>8. \A i \in 0 .. N : i \in S
  <2> HIDE DEF S
  <2> QED BY <1>2, <1>6, <1>7, CountUp
<1> QED BY <1>1, <1>2, <1>4, <1>8

\* What a scan of a whole and exact file finds.
IsScanOf(scan, R, T) ==
  scan.ok /\ scan.ranges = R /\ scan.tail = T /\ Counted(R, T, scan.size)

LEMMA ScanIs ==
  ASSUME NEW F, NEW R, NEW T, NEW L, NEW scan, Kept(F, R, T, L, FALSE),
         scan = ScanSparseFile(F)
  PROVE  IsScanOf(scan, R, T)
<1>1. scan.ok
  BY ScanIsOk
<1>2. Sound(F, R, T, L)
  BY DEF Kept
<1>3. PICK V : ScanFound(F, R, V, scan)
  BY <1>1, <1>2, ScanFinds
<1>4. scan.ranges = R /\ scan.tail = T /\ Counted(R, T, scan.size)
  <2>1. Kept(F, R, T, L, FALSE)
    OBVIOUS
  <2> QED BY ONLY <1>3, <2>1, ScanFindsAll
<1> QED BY <1>1, <1>4 DEF IsScanOf

-------------------------------------------------------------------------------
(* The calls of a write *)

\* g is f with the k cells of s at a; f has N cells and g has M.
Overlays(g, f, a, s, k, N, M) ==
  /\ Long(g, M) /\ N <= M /\ (M = N \/ M = a + k) /\ (k > 0 => a + k <= M)
  /\ \A i \in 1 .. M : i > a /\ i <= a + k => g[i] = s[i - a]
  /\ \A i \in 1 .. N : i <= a \/ i > a + k => g[i] = f[i]
  /\ \A i \in N + 1 .. M : i <= a \/ i > a + k => g[i] = Byte(0)

LEMMA WriteAtIs ==
  ASSUME NEW f, NEW s, NEW a, NEW k, NEW N, Long(f, N), Long(s, k), a \in Nat
  PROVE  \E M : Overlays(WriteAt(f, a, s), f, a, s, k, N, M)
<1>1. /\ IsFile(f) /\ Len(f) = N /\ N \in Nat
      /\ IsFile(s) /\ Len(s) = k /\ k \in Nat
  BY DEF Long
<1>2. PICK g, M : g = WriteAt(f, a, s) /\ M = Len(g)
  OBVIOUS
<1>3. s = <<>> <=> k = 0
  BY <1>1, FileFacts
<1>4. /\ IsFile(g)
      /\ Len(g) = IF s = <<>> \/ Len(f) > a + Len(s) THEN Len(f) ELSE a + Len(s)
      /\ \A i \in 1 .. Len(g) :
           g[i] = IF i > a /\ i <= a + Len(s) THEN s[i - a]
                  ELSE IF i <= Len(f) THEN f[i] ELSE Byte(0)
  BY <1>1, <1>2, WriteAtFacts
<1>5. M = IF k = 0 \/ N > a + k THEN N ELSE a + k
  BY <1>1, <1>2, <1>3, <1>4
<1>6. \A i \in 1 .. M :
         g[i] = IF i > a /\ i <= a + k THEN s[i - a] ELSE IF i <= N THEN f[i] ELSE Byte(0)
  BY <1>1, <1>2, <1>4
<1>7. M \in Nat /\ N <= M /\ (M = N \/ M = a + k) /\ (k > 0 => a + k <= M)
  BY <1>1, <1>5
<1>8. Long(g, M)
  BY <1>2, <1>4, <1>7 DEF Long
<1>9. /\ \A i \in 1 .. M : i > a /\ i <= a + k => g[i] = s[i - a]
      /\ \A i \in 1 .. N : i <= a \/ i > a + k => g[i] = f[i]
      /\ \A i \in N + 1 .. M : i <= a \/ i > a + k => g[i] = Byte(0)
  BY <1>1, <1>6, <1>7
<1>10. Overlays(g, f, a, s, k, N, M)
  BY <1>7, <1>8, <1>9 DEF Overlays
<1> QED BY <1>2, <1>10

LEMMA KeptIsSoundable ==
  ASSUME NEW F, NEW R, NEW T, NEW L, NEW short, Kept(F, R, T, L, short)
  PROVE  Soundable(F, L)
BY DEF Kept, Soundable

\* Bytes in a range, and nothing else.
LEMMA DataKeeps ==
  ASSUME NEW F, NEW R, NEW T, NEW L, NEW short, NEW o, NEW a, NEW k, NEW b, NEW s, NEW N,
         NEW M, NEW G, Kept(F, R, T, L, short), o \in DOMAIN R, a \in Nat, k \in Nat,
         R[o].at <= a, a + k <= End(R[o]), N \in Nat, N = Len(F),
         IsRun(s, b, k), Overlays(G, F, a, s, k, N, M)
  PROVE  Kept(G, R, T, L, short)
<1>1. /\ IsFile(F) /\ N <= T + 1 /\ IsRanges(R, L) /\ Disjoint(R) /\ Placed(R, T)
      /\ Marked(F, R, L) /\ Whole(F, R) /\ (~short => Exact(F, R, T)) /\ T \in Nat
  BY DEF Kept, Sound, Placed
<1>2. PICK b0, e0 : b0 = Begin(R[o]) /\ e0 = End(R[o])
  OBVIOUS
<1>3. /\ b0 \in Nat /\ b0 >= 1 /\ R[o].at = b0 + 2 /\ e0 \in Nat /\ e0 >= b0 + 3
      /\ b0 + 2 <= a /\ a + k <= e0
  BY <1>1, <1>2, SpanFacts
<1>4. /\ Long(G, M) /\ N <= M /\ (M = N \/ M = a + k)
      /\ \A i \in 1 .. M : i > a /\ i <= a + k => G[i] = s[i - a]
      /\ \A i \in 1 .. N : i <= a \/ i > a + k => G[i] = F[i]
      /\ \A i \in N + 1 .. M : i <= a \/ i > a + k => G[i] = Byte(0)
  BY DEF Overlays
<1>5. IsFile(G) /\ Len(G) = M /\ M \in Nat
  BY <1>4 DEF Long
<1>6. e0 <= T + 1 /\ (~short => e0 <= T /\ N <= T)
  <2>1. End(R[o]) <= T + 1
    BY <1>1 DEF Placed
  <2>2. ~short => End(R[o]) <= T /\ Len(F) <= T
    BY <1>1 DEF Exact
  <2> QED BY <1>2, <2>1, <2>2
<1>7. M <= T + 1 /\ (~short => M <= T)
  BY <1>1, <1>3, <1>4, <1>5, <1>6
<1>8. ASSUME NEW i \in 1 .. M, G[i].kind = "extent"
      PROVE  i <= N /\ G[i] = F[i]
  <2>1. CASE i > a /\ i <= a + k
    <3>1. i - a \in 1 .. k
      BY <1>5, <2>1
    <3>2. s[i - a] = Byte(b)
      BY <3>1 DEF IsRun
    <3>3. G[i].kind = "byte"
      BY <1>4, <2>1, <3>2 DEF Byte
    <3> QED BY <1>8, <3>3
  <2>2. CASE ~ (i > a /\ i <= a + k)
    <3>1. i <= a \/ i > a + k
      BY <2>2
    <3>2. CASE i <= N
      <4>1. i \in 1 .. N
        BY <3>2
      <4> QED BY <1>4, <3>1, <3>2, <4>1
    <3>3. CASE ~ (i <= N)
      <4>1. i \in N + 1 .. M
        BY <1>5, <3>3
      <4>2. G[i].kind = "byte"
        BY <1>4, <3>1, <4>1 DEF Byte
      <4> QED BY <1>8, <4>2
    <3> QED BY <3>2, <3>3
  <2> QED BY <2>1, <2>2
<1>9. ASSUME NEW p \in DOMAIN R
      PROVE  /\ R[p].at \in Nat /\ R[p].at <= N /\ G[R[p].at] = F[R[p].at]
             /\ ~short => G[R[p].at - 1] = F[R[p].at - 1]
  <2>1. PICK b1, e1, at : b1 = Begin(R[p]) /\ e1 = End(R[p]) /\ at = R[p].at
    OBVIOUS
  <2>2. b1 \in Nat /\ b1 >= 1 /\ at = b1 + 2 /\ e1 \in Nat /\ e1 >= b1 + 3
    BY <1>1, <2>1, SpanFacts
  <2>3. at <= N
    BY <1>1, <2>1 DEF Whole
  <2>4. at <= a \/ at > a + k
    <3>1. CASE p = o
      BY <1>2, <1>3, <2>1, <2>2, <3>1
    <3>2. CASE p # o
      <4>1. Behind(R[o], R[p]) \/ Behind(R[p], R[o])
        BY <1>1, <3>2 DEF Placed
      <4>2. (e0 - 1 <= b1) \/ (at + 1 <= b0)
        BY <1>2, <2>1, <4>1 DEF Behind
      <4> QED BY ONLY <1>3, <2>2, <4>2, a \in Nat, k \in Nat
    <3> QED BY <3>1, <3>2
  <2>5. ~short => at - 1 <= a \/ at - 1 > a + k
    <3>1. CASE p = o
      BY <1>2, <1>3, <2>1, <2>2, <3>1
    <3>2. CASE p # o /\ ~short
      <4>1. End(R[o]) <= Begin(R[p]) \/ End(R[p]) <= Begin(R[o])
        BY <1>1, <3>2 DEF Exact
      <4>2. e0 <= b1 \/ e1 <= b0
        BY <1>2, <2>1, <4>1
      <4> QED BY ONLY <1>3, <2>2, <4>2, a \in Nat, k \in Nat
    <3> QED BY <3>1, <3>2
  <2>6. at \in 1 .. N /\ at - 1 \in 1 .. N
    BY <2>2, <2>3
  <2>7. G[at] = F[at] /\ (~short => G[at - 1] = F[at - 1])
    BY <1>4, <2>4, <2>5, <2>6
  <2> QED BY <2>1, <2>2, <2>3, <2>7
<1>10. Marked(G, R, L)
  <2>1. ASSUME NEW n \in Nat, IsExtentAt(G, n)
        PROVE  \/ \E p \in DOMAIN R : Begin(R[p]) = n /\ G[n + 1] = Extent(p, R[p].length)
               \/ \E p \in DOMAIN R : End(R[p]) - 1 = n
    <3>1. n < M /\ G[n + 1].kind = "extent"
      BY <1>5, <2>1 DEF IsExtentAt
    <3>2. n + 1 \in 1 .. M
      BY <1>5, <3>1
    <3>3. n + 1 <= N /\ G[n + 1] = F[n + 1]
      BY <1>8, <3>1, <3>2
    <3>4. IsExtentAt(F, n)
      BY <3>1, <3>3 DEF IsExtentAt
    <3>5. \/ \E p \in DOMAIN R : Begin(R[p]) = n /\ F[n + 1] = Extent(p, R[p].length)
          \/ \E p \in DOMAIN R : End(R[p]) - 1 = n
      BY <1>1, <3>4 DEF Marked
    <3> QED BY <3>3, <3>5
  <2>2. ASSUME NEW p \in DOMAIN R
        PROVE  \E crc : G[R[p].at] = DataCrc32(crc) /\ LawfulCrc(crc, p, R[p].length, L)
    <3>1. R[p].at <= Len(F) /\ G[R[p].at] = F[R[p].at]
      BY <1>9
    <3>2. \E crc : F[R[p].at] = DataCrc32(crc) /\ LawfulCrc(crc, p, R[p].length, L)
      BY <1>1, <3>1 DEF Marked
    <3> QED BY <3>1, <3>2
  <2> QED BY <2>1, <2>2 DEF Marked
<1>11. Whole(G, R)
  <2>1. N >= 1 /\ F[1].kind = "header"
    BY <1>1 DEF Whole
  <2>2. 1 \in 1 .. N /\ 1 <= a
    BY <1>3, <2>1
  <2>3. G[1] = F[1]
    BY <1>4, <2>2
  <2>4. M >= 1
    BY <1>4, <1>5, <2>1
  <2>5. \A p \in DOMAIN R : R[p].at <= M
    BY <1>4, <1>5, <1>9
  <2> QED BY <1>5, <2>1, <2>3, <2>4, <2>5 DEF Whole
<1>12. CASE ~short
  <2>1. \A p \in DOMAIN R : /\ G[R[p].at - 1] = Extent(p, R[p].length)
                            /\ G[R[p].at] = DataCrc32(R[p].crc)
    BY <1>1, <1>9, <1>12 DEF Exact
  <2>2. Exact(G, R, T)
    BY <1>1, <1>5, <1>7, <1>12, <2>1 DEF Exact
  <2>3. Sound(G, R, T, L)
    BY <1>1, <1>5, <1>7, <1>10 DEF Sound
  <2> QED BY <1>11, <2>2, <2>3 DEF Kept
<1>13. CASE short
  <2>1. Sound(G, R, T, L)
    BY <1>1, <1>5, <1>7, <1>10 DEF Sound
  <2> QED BY <1>11, <1>13, <2>1 DEF Kept
<1> QED BY <1>12, <1>13

\* S is R with r at o, in place of what was there, or new.
Puts(S, R, o, r) ==
  /\ S = [p \in DOMAIN S |-> S[p]] /\ DOMAIN S = DOMAIN R \cup {o} /\ S[o] = r
  /\ \A p \in DOMAIN R : p # o => S[p] = R[p]

RangeOf(o, len, crc, at) == [offset |-> o, length |-> len, crc |-> crc, at |-> at]

LEMMA PutsRanges ==
  ASSUME NEW R, NEW S, NEW L, NEW o, NEW len, NEW crc, NEW at, IsRanges(R, L),
         Puts(S, R, o, RangeOf(o, len, crc, at)), o \in Nat, len \in Nat, len > 0,
         at \in Nat, at >= 3, LawfulCrc(crc, o, len, L)
  PROVE  IsRanges(S, L)
<1>1. PICK r : r = RangeOf(o, len, crc, at)
  OBVIOUS
<1>2. r.length = len /\ r.crc = crc /\ r.at = at
  BY <1>1 DEF RangeOf
<1>3. r = [offset |-> o, length |-> r.length, crc |-> r.crc, at |-> r.at]
  BY <1>1, <1>2 DEF RangeOf
<1>4. IsRange(r, o, L)
  BY <1>2, <1>3 DEF IsRange
<1>5. /\ S = [p \in DOMAIN S |-> S[p]] /\ DOMAIN S = DOMAIN R \cup {o} /\ S[o] = r
      /\ \A p \in DOMAIN R : p # o => S[p] = R[p]
  BY <1>1 DEF Puts
<1>6. IsFiniteSet(DOMAIN S)
  BY <1>5, FS_AddElement DEF IsRanges
<1>7. \A p \in DOMAIN R : IsRange(R[p], p, L)
  BY DEF IsRanges
<1>8. \A p \in DOMAIN S : IsRange(S[p], p, L)
  BY <1>4, <1>5, <1>7
<1> QED BY <1>5, <1>6, <1>8 DEF IsRanges

\* g is f with the header of the range at o again, and what checksum it has.
Reheaded(g, f, at, o, len, crc, N) ==
  /\ Long(g, N) /\ g[at - 1] = Extent(o, len) /\ g[at] = DataCrc32(crc)
  /\ \A i \in 1 .. N : i # at - 1 /\ i # at => g[i] = f[i]

\* The range at o is of so many bytes, at at.
IsOf(R, o, len, at) == o \in DOMAIN R /\ len = R[o].length /\ at = R[o].at

LEMMA HeaderKeeps ==
  ASSUME NEW F, NEW R, NEW T, NEW L, NEW short, NEW o, NEW len, NEW at, NEW crc, NEW N,
         NEW G, NEW S, Kept(F, R, T, L, short), IsOf(R, o, len, at), Long(F, N),
         LawfulCrc(crc, o, len, L),
         Puts(S, R, o, RangeOf(o, len, crc, at)), Reheaded(G, F, at, o, len, crc, N)
  PROVE  Kept(G, S, T, L, short)
<1>0. /\ o \in DOMAIN R /\ len = R[o].length /\ at = R[o].at /\ N \in Nat /\ N = Len(F)
  BY DEF IsOf, Long
<1>1. /\ IsFile(F) /\ N <= T + 1 /\ IsRanges(R, L) /\ Disjoint(R) /\ Placed(R, T)
      /\ Marked(F, R, L) /\ Whole(F, R) /\ (~short => Exact(F, R, T)) /\ T \in Nat
  BY <1>0 DEF Kept, Sound, Placed
<1>2. PICK b0, e0 : b0 = Begin(R[o]) /\ e0 = End(R[o])
  OBVIOUS
<1>3. /\ b0 \in Nat /\ b0 >= 1 /\ at = b0 + 2 /\ e0 \in Nat /\ e0 >= b0 + 3
      /\ o \in Nat /\ len \in Nat /\ len > 0 /\ at \in Nat /\ at >= 3
  BY <1>0, <1>1, <1>2, SpanFacts, RangeFacts
<1>4. IsRanges(S, L)
  BY <1>0, <1>1, <1>3, PutsRanges
<1>5. /\ S = [p \in DOMAIN S |-> S[p]] /\ DOMAIN S = DOMAIN R
      /\ S[o] = RangeOf(o, len, crc, at)
      /\ \A p \in DOMAIN R : p # o => S[p] = R[p]
  BY <1>0 DEF Puts
<1>6. \A p \in DOMAIN R : /\ S[p].at = R[p].at /\ S[p].length = R[p].length
                          /\ Begin(S[p]) = Begin(R[p]) /\ End(S[p]) = End(R[p])
  <2>1. SUFFICES ASSUME NEW p \in DOMAIN R
                 PROVE  /\ S[p].at = R[p].at /\ S[p].length = R[p].length
                        /\ Begin(S[p]) = Begin(R[p]) /\ End(S[p]) = End(R[p])
    OBVIOUS
  <2>2. CASE p = o
    <3>1. PICK r : r = RangeOf(o, len, crc, at)
      OBVIOUS
    <3>2. r.at = at /\ r.length = len
      BY <1>0, <3>1 DEF RangeOf
    <3>3. S[p] = r /\ R[p].at = at /\ R[p].length = len
      BY <1>0, <1>5, <2>2, <3>1
    <3> QED BY <1>0, <3>2, <3>3 DEF Begin, End
  <2>3. CASE p # o
    BY <1>0, <1>5, <2>3
  <2> QED BY <1>0, <2>2, <2>3
<1>7. /\ IsFile(G) /\ Len(G) = N /\ G[at - 1] = Extent(o, len) /\ G[at] = DataCrc32(crc)
      /\ \A i \in 1 .. N : i # at - 1 /\ i # at => G[i] = F[i]
  BY <1>0 DEF Reheaded, Long
<1>8. Disjoint(S)
  BY <1>0, <1>1, <1>5, <1>6 DEF Disjoint
<1>9. Placed(S, T)
  BY <1>0, <1>1, <1>5, <1>6 DEF Placed, Behind
<1>10. at <= N
  BY <1>0, <1>1 DEF Whole
<1>11. ASSUME NEW p \in DOMAIN R, p # o
       PROVE  /\ R[p].at \in Nat /\ R[p].at <= N /\ G[R[p].at] = F[R[p].at]
              /\ ~short => G[R[p].at - 1] = F[R[p].at - 1]
  <2>1. PICK b1, e1, at1 : b1 = Begin(R[p]) /\ e1 = End(R[p]) /\ at1 = R[p].at
    OBVIOUS
  <2>2. b1 \in Nat /\ b1 >= 1 /\ at1 = b1 + 2 /\ e1 \in Nat /\ e1 >= b1 + 3
    BY <1>0, <1>1, <2>1, SpanFacts
  <2>3. at1 <= N
    BY <1>0, <1>1, <2>1 DEF Whole
  <2>4. Behind(R[o], R[p]) \/ Behind(R[p], R[o])
    BY <1>0, <1>1, <1>11 DEF Placed
  <2>5. at + 1 <= b1 \/ at1 + 1 <= b0
    BY <1>0, <1>2, <2>1, <2>4 DEF Behind
  <2>6. /\ at1 \in 1 .. N /\ at1 # at - 1 /\ at1 # at
        /\ at1 - 1 \in 1 .. N /\ at1 - 1 # at - 1 /\ at1 - 1 # at
    BY ONLY <1>0, <1>3, <2>2, <2>3, <2>5
  <2>7. G[at1] = F[at1] /\ G[at1 - 1] = F[at1 - 1]
    BY <1>0, <1>7, <2>6
  <2> QED BY <1>0, <2>1, <2>2, <2>3, <2>7
<1>12. Marked(G, S, L)
  <2>1. ASSUME NEW n \in Nat, IsExtentAt(G, n)
        PROVE  \/ \E p \in DOMAIN S : Begin(S[p]) = n /\ G[n + 1] = Extent(p, S[p].length)
               \/ \E p \in DOMAIN S : End(S[p]) - 1 = n
    <3>1. n < N /\ G[n + 1].kind = "extent"
      BY <1>0, <1>7, <2>1 DEF IsExtentAt
    <3>2. CASE n = b0
      <4>1. n + 1 = at - 1
        BY <1>0, <1>3, <3>2
      <4>2. G[n + 1] = Extent(o, S[o].length) /\ Begin(S[o]) = n
        BY <1>0, <1>2, <1>6, <1>7, <3>2, <4>1
      <4> QED BY <1>0, <1>5, <4>2
    <3>3. CASE n # b0
      <4>1. n + 1 # at
        <5>1. G[at].kind # "extent"
          BY <1>0, <1>7 DEF DataCrc32
        <5> QED BY <1>0, <3>1, <5>1
      <4>2. n + 1 \in 1 .. N /\ n + 1 # at - 1
        BY <1>0, <1>3, <3>1, <3>3
      <4>3. G[n + 1] = F[n + 1]
        BY <1>0, <1>7, <4>1, <4>2
      <4>4. IsExtentAt(F, n)
        BY <1>0, <3>1, <4>3 DEF IsExtentAt
      <4>5. \/ \E p \in DOMAIN R : Begin(R[p]) = n /\ F[n + 1] = Extent(p, R[p].length)
            \/ \E p \in DOMAIN R : End(R[p]) - 1 = n
        BY <1>0, <1>1, <4>4 DEF Marked
      <4> QED BY <1>0, <1>5, <1>6, <4>3, <4>5
    <3> QED BY <1>0, <3>2, <3>3
  <2>2. ASSUME NEW p \in DOMAIN S
        PROVE  \E c : G[S[p].at] = DataCrc32(c) /\ LawfulCrc(c, p, S[p].length, L)
    <3>1. CASE p = o
      BY <1>0, <1>5, <1>6, <1>7, <3>1
    <3>2. CASE p # o
      <4>1. p \in DOMAIN R /\ R[p].at <= Len(F) /\ G[R[p].at] = F[R[p].at]
        BY <1>0, <1>5, <1>11, <3>2
      <4>2. \E c : F[R[p].at] = DataCrc32(c) /\ LawfulCrc(c, p, R[p].length, L)
        BY <1>0, <1>1, <4>1 DEF Marked
      <4> QED BY <1>0, <1>6, <4>1, <4>2
    <3> QED BY <1>0, <3>1, <3>2
  <2> QED BY <1>0, <2>1, <2>2 DEF Marked
<1>13. Whole(G, S)
  <2>1. N >= 1 /\ F[1].kind = "header" /\ \A p \in DOMAIN R : R[p].at <= N
    BY <1>0, <1>1 DEF Whole
  <2>2. 1 \in 1 .. N /\ 1 # at - 1 /\ 1 # at
    BY <1>0, <1>3, <2>1
  <2>3. G[1] = F[1]
    BY <1>0, <1>7, <2>2
  <2> QED BY <1>0, <1>5, <1>6, <1>7, <2>1, <2>3 DEF Whole
<1>14. Sound(G, S, T, L)
  BY <1>0, <1>1, <1>4, <1>7, <1>8, <1>9, <1>12 DEF Sound
<1>15. CASE ~short
  <2>1. ASSUME NEW p \in DOMAIN S
        PROVE  G[S[p].at - 1] = Extent(p, S[p].length) /\ G[S[p].at] = DataCrc32(S[p].crc)
    <3>1. CASE p = o
      <4>1. S[p].crc = crc
        BY <1>0, <1>5, <3>1 DEF RangeOf
      <4> QED BY <1>0, <1>5, <1>6, <1>7, <3>1, <4>1
    <3>2. CASE p # o
      <4>1. p \in DOMAIN R /\ S[p] = R[p]
        BY <1>0, <1>5, <3>2
      <4>2. F[R[p].at - 1] = Extent(p, R[p].length) /\ F[R[p].at] = DataCrc32(R[p].crc)
        BY <1>0, <1>1, <1>15, <4>1 DEF Exact
      <4> QED BY <1>0, <1>11, <1>15, <3>2, <4>1, <4>2
    <3> QED BY <1>0, <3>1, <3>2
  <2>2. Exact(F, R, T)
    BY <1>0, <1>1, <1>15
  <2>3. Len(G) <= T
    BY <1>0, <1>7, <2>2 DEF Exact
  <2>4. \A p \in DOMAIN S : /\ End(S[p]) <= T
                            /\ End(S[p]) = T \/ \E q \in DOMAIN S : Begin(S[q]) = End(S[p])
    BY <1>0, <1>5, <1>6, <2>2 DEF Exact
  <2>5. \A p, q \in DOMAIN S : p # q => End(S[p]) <= Begin(S[q]) \/ End(S[q]) <= Begin(S[p])
    BY <1>0, <1>5, <1>6, <2>2 DEF Exact
  <2>6. T = 1 \/ \E p \in DOMAIN S : Begin(S[p]) = 1
    BY <1>0, <1>5, <1>6, <2>2 DEF Exact
  <2>7. Exact(G, S, T)
    BY <1>0, <2>1, <2>3, <2>4, <2>5, <2>6 DEF Exact
  <2> QED BY <1>0, <1>13, <1>14, <2>7 DEF Kept
<1>16. CASE short
  BY <1>0, <1>13, <1>14, <1>16 DEF Kept
<1> QED BY <1>0, <1>15, <1>16

\* No range has a byte between p and c.
Free(R, p, c) == \A o \in DOMAIN R : o + R[o].length <= p \/ c <= o

\* g is f with the header of a new range, or the first cell of it, at t.
Headed(g, f, t, o, len, crc, N, M) ==
  /\ Long(g, M) /\ (M = t + 1 \/ M = t + 2)
  /\ g[t + 1] = Extent(o, len) /\ (M = t + 2 => g[t + 2] = DataCrc32(crc))
  /\ \A i \in 1 .. t : i <= N => g[i] = f[i]
  /\ \A i \in 1 .. t : i > N => g[i] = Byte(0)

\* There is room for a range of len bytes at o, and the file will end at U with it.
Room(R, T, o, len, at, U, short, cut) ==
  /\ o \in Nat /\ len \in Nat /\ len > 0 /\ Free(R, o, o + len) /\ T \in Nat /\ at = T + 2
  /\ U \in Nat /\ (U = at + len \/ (U = at + len - 1 /\ len > 1 /\ cut)) /\ (short => cut)

LEMMA AppendKeeps ==
  ASSUME NEW F, NEW R, NEW T, NEW L, NEW short, NEW o, NEW len, NEW at, NEW crc, NEW N,
         NEW M, NEW G, NEW S, NEW U, NEW cut, Kept(F, R, T, L, short), Long(F, N),
         Room(R, T, o, len, at, U, short, cut), LawfulCrc(crc, o, len, L),
         Puts(S, R, o, RangeOf(o, len, crc, at)), Headed(G, F, T, o, len, crc, N, M)
  PROVE  /\ Sound(G, S, U, L)
         /\ M = T + 2 => Kept(G, S, U, L, cut)
<1> PICK end : end = o + len
  OBVIOUS
<1>0. /\ o \in Nat /\ len \in Nat /\ len > 0 /\ end = o + len /\ Free(R, o, end)
      /\ T \in Nat /\ at = T + 2 /\ N \in Nat /\ N = Len(F) /\ U \in Nat
      /\ U = at + len \/ (U = at + len - 1 /\ len > 1 /\ cut)
      /\ short => cut
  BY DEF Room, Long
<1>1. /\ IsFile(F) /\ N <= T + 1 /\ IsRanges(R, L) /\ Disjoint(R) /\ Placed(R, T)
      /\ Marked(F, R, L) /\ Whole(F, R) /\ (~short => Exact(F, R, T)) /\ T >= 1
  BY <1>0 DEF Kept, Sound, Placed
<1>2. at \in Nat /\ at >= 3 /\ end \in Nat /\ end > o
  BY <1>0, <1>1
<1>3. IsRanges(S, L)
  BY <1>0, <1>1, <1>2, PutsRanges
<1>4. o \notin DOMAIN R
  <2>1. ASSUME o \in DOMAIN R
        PROVE  FALSE
    <3>1. R[o].length \in Nat /\ R[o].length > 0
      BY <1>0, <1>1, <2>1, RangeFacts
    <3>2. o + R[o].length <= o \/ end <= o
      BY <1>0, <2>1 DEF Free
    <3> QED BY <1>0, <1>2, <3>1, <3>2
  <2> QED BY <1>0, <2>1
<1>5. /\ S = [p \in DOMAIN S |-> S[p]] /\ DOMAIN S = DOMAIN R \cup {o}
      /\ S[o] = RangeOf(o, len, crc, at)
      /\ \A p \in DOMAIN R : S[p] = R[p]
  BY <1>0, <1>4 DEF Puts
<1>6. /\ S[o].at = at /\ S[o].length = len /\ S[o].crc = crc
      /\ Begin(S[o]) = T /\ End(S[o]) = at + len
  <2>1. PICK r : r = S[o]
    OBVIOUS
  <2>2. r.at = at /\ r.length = len /\ r.crc = crc
    BY <1>0, <1>5, <2>1 DEF RangeOf
  <2>3. Begin(r) = T /\ End(r) = at + len
    BY <1>0, <1>2, <2>2 DEF Begin, End
  <2> QED BY <1>0, <2>1, <2>2, <2>3
<1>7. /\ IsFile(G) /\ Len(G) = M /\ M \in Nat /\ (M = T + 1 \/ M = T + 2)
      /\ G[T + 1] = Extent(o, len) /\ (M = T + 2 => G[T + 2] = DataCrc32(crc))
      /\ \A i \in 1 .. T : i <= N => G[i] = F[i]
      /\ \A i \in 1 .. T : i > N => G[i] = Byte(0)
  BY <1>0 DEF Headed, Long
<1>8. \A p \in DOMAIN R :
        /\ Begin(R[p]) \in Nat /\ Begin(R[p]) >= 1 /\ R[p].at = Begin(R[p]) + 2
        /\ End(R[p]) \in Nat /\ End(R[p]) >= Begin(R[p]) + 3
        /\ R[p].at <= N /\ R[p].at + 1 <= T /\ End(R[p]) <= T + 1
  <2>1. SUFFICES ASSUME NEW p \in DOMAIN R
                 PROVE  /\ Begin(R[p]) \in Nat /\ Begin(R[p]) >= 1 /\ R[p].at = Begin(R[p]) + 2
                        /\ End(R[p]) \in Nat /\ End(R[p]) >= Begin(R[p]) + 3
                        /\ R[p].at <= N /\ R[p].at + 1 <= T /\ End(R[p]) <= T + 1
    OBVIOUS
  <2>2. R[p].at <= N
    BY <1>0, <1>1 DEF Whole
  <2>3. R[p].at + 1 <= T /\ End(R[p]) <= T + 1
    BY <1>0, <1>1 DEF Placed
  <2> QED BY <1>0, <1>1, <2>2, <2>3, SpanFacts
<1>9. Disjoint(S)
  <2>1. ASSUME NEW p \in DOMAIN S, NEW q \in DOMAIN S, p < q
        PROVE  p + S[p].length <= q
    <3>1. CASE p \in DOMAIN R /\ q \in DOMAIN R
      BY <1>0, <1>1, <1>5, <2>1, <3>1 DEF Disjoint
    <3>2. CASE p = o /\ q \in DOMAIN R
      <4>1. PICK l : l = R[q].length
        OBVIOUS
      <4>2. l \in Nat /\ q \in Nat
        BY <1>0, <1>1, <3>2, <4>1, RangeFacts
      <4>3. q + l <= o \/ end <= q
        BY <1>0, <3>2, <4>1 DEF Free
      <4>4. end <= q
        BY <1>0, <2>1, <3>2, <4>2, <4>3
      <4> QED BY <1>0, <1>6, <3>2, <4>4
    <3>3. CASE p \in DOMAIN R /\ q = o
      <4>1. PICK l : l = R[p].length
        OBVIOUS
      <4>2. l \in Nat /\ p \in Nat
        BY <1>0, <1>1, <3>3, <4>1, RangeFacts
      <4>3. p + l <= o \/ end <= p
        BY <1>0, <3>3, <4>1 DEF Free
      <4>4. p + l <= o
        BY <1>0, <1>2, <2>1, <3>3, <4>2, <4>3
      <4> QED BY <1>0, <1>5, <3>3, <4>1, <4>4
    <3>4. ~ (p = o /\ q = o)
      BY <1>0, <2>1
    <3> QED BY <1>0, <1>5, <3>1, <3>2, <3>3, <3>4
  <2> QED BY <1>0, <2>1 DEF Disjoint
<1>10. Placed(S, U)
  <2>1. U >= T + 3 /\ at + 1 <= U /\ at + len <= U + 1
    BY ONLY <1>0, <1>1, <1>2
  <2>2. \A p \in DOMAIN S : S[p].at + 1 <= U /\ End(S[p]) <= U + 1
    <3>1. ASSUME NEW p \in DOMAIN R
          PROVE  S[p].at + 1 <= U /\ End(S[p]) <= U + 1
      <4>1. PICK at1, e1 : at1 = R[p].at /\ e1 = End(R[p])
        OBVIOUS
      <4>2. at1 \in Nat /\ e1 \in Nat /\ at1 + 1 <= T /\ e1 <= T + 1
        BY <1>0, <1>8, <4>1
      <4>3. at1 + 1 <= U /\ e1 <= U + 1
        BY <1>0, <2>1, <4>2
      <4> QED BY <1>0, <1>5, <4>1, <4>3
    <3>2. S[o].at + 1 <= U /\ End(S[o]) <= U + 1
      BY <1>0, <1>6, <2>1
    <3> QED BY <1>0, <1>5, <3>1, <3>2
  <2>3. ASSUME NEW p \in DOMAIN R
        PROVE  Behind(S[p], S[o])
    <3>1. PICK at1, e1 : at1 = R[p].at /\ e1 = End(R[p])
      OBVIOUS
    <3>2. at1 + 1 <= T /\ e1 \in Nat /\ e1 <= T + 1
      BY <1>0, <1>8, <3>1
    <3>3. e1 - 1 <= T
      BY <1>0, <3>2
    <3>4. S[p].at = at1 /\ End(S[p]) = e1
      BY <1>0, <1>5, <3>1
    <3> QED BY <1>0, <1>6, <3>2, <3>3, <3>4 DEF Behind
  <2>4. \A p, q \in DOMAIN R : p # q => Behind(R[p], R[q]) \/ Behind(R[q], R[p])
    BY <1>0, <1>1 DEF Placed
  <2>5. ASSUME NEW p \in DOMAIN S, NEW q \in DOMAIN S, p # q
        PROVE  Behind(S[p], S[q]) \/ Behind(S[q], S[p])
    <3>1. CASE p \in DOMAIN R /\ q \in DOMAIN R
      BY <1>0, <1>5, <2>4, <2>5, <3>1
    <3>2. CASE p = o
      <4>1. q \in DOMAIN R
        BY <1>0, <1>5, <2>5, <3>2
      <4> QED BY <1>0, <2>3, <3>2, <4>1
    <3>3. CASE q = o
      <4>1. p \in DOMAIN R
        BY <1>0, <1>5, <2>5, <3>3
      <4> QED BY <1>0, <2>3, <3>3, <4>1
    <3> QED BY <1>0, <1>5, <3>1, <3>2, <3>3
  <2>6. U >= 1
    BY <1>0, <1>1, <2>1
  <2> QED BY <1>0, <2>2, <2>5, <2>6 DEF Placed
<1>11. ASSUME NEW p \in DOMAIN R
       PROVE  /\ R[p].at \in 1 .. T /\ G[R[p].at] = F[R[p].at]
              /\ G[R[p].at - 1] = F[R[p].at - 1]
  <2>1. PICK at1 : at1 = R[p].at
    OBVIOUS
  <2>2. at1 \in Nat /\ at1 >= 3 /\ at1 <= N /\ at1 + 1 <= T
    BY <1>0, <1>8, <2>1, SMTT(30)
  <2>3. at1 \in 1 .. T /\ at1 - 1 \in 1 .. T /\ at1 - 1 <= N
    BY <1>0, <2>2
  <2> QED BY <1>0, <1>7, <2>1, <2>2, <2>3, SMTT(30)
<1>12. Marked(G, S, L)
  <2>1. ASSUME NEW n \in Nat, IsExtentAt(G, n)
        PROVE  \/ \E p \in DOMAIN S : Begin(S[p]) = n /\ G[n + 1] = Extent(p, S[p].length)
               \/ \E p \in DOMAIN S : End(S[p]) - 1 = n
    <3>1. n < M /\ G[n + 1].kind = "extent"
      BY <1>0, <1>7, <2>1 DEF IsExtentAt
    <3>2. CASE n = T
      BY <1>0, <1>5, <1>6, <1>7, <3>2, SMTT(30)
    <3>3. CASE n = T + 1
      <4>1. M = T + 2 /\ n + 1 = T + 2
        BY <1>0, <1>7, <3>1, <3>3
      <4>2. G[n + 1].kind = "crc"
        BY <1>0, <1>7, <4>1 DEF DataCrc32
      <4> QED BY <1>0, <3>1, <4>2
    <3>4. CASE n < T
      <4>1. n + 1 \in 1 .. T
        BY <1>0, <3>4
      <4>2. n + 1 <= N
        <5>1. ASSUME ~ (n + 1 <= N)
              PROVE  FALSE
          <6>1. G[n + 1] = Byte(0)
            BY <1>0, <1>7, <4>1, <5>1
          <6> QED BY <1>0, <3>1, <6>1 DEF Byte
        <5> QED BY <1>0, <5>1
      <4>3. G[n + 1] = F[n + 1]
        BY <1>0, <1>7, <4>1, <4>2
      <4>4. IsExtentAt(F, n)
        BY <1>0, <3>1, <4>2, <4>3 DEF IsExtentAt
      <4>5. \/ \E p \in DOMAIN R : Begin(R[p]) = n /\ F[n + 1] = Extent(p, R[p].length)
            \/ \E p \in DOMAIN R : End(R[p]) - 1 = n
        BY <1>0, <1>1, <4>4 DEF Marked
      <4> QED BY <1>0, <1>5, <4>3, <4>5
    <3> QED BY <1>0, <1>7, <3>1, <3>2, <3>3, <3>4
  <2>2. ASSUME NEW p \in DOMAIN S, S[p].at <= Len(G)
        PROVE  \E c : G[S[p].at] = DataCrc32(c) /\ LawfulCrc(c, p, S[p].length, L)
    <3>1. CASE p = o
      <4>1. M = T + 2
        BY <1>0, <1>6, <1>7, <2>2, <3>1
      <4> QED BY <1>0, <1>6, <1>7, <3>1, <4>1
    <3>2. CASE p # o
      <4>1. p \in DOMAIN R /\ R[p].at <= Len(F) /\ G[R[p].at] = F[R[p].at]
        BY <1>0, <1>5, <1>8, <1>11, <3>2
      <4>2. \E c : F[R[p].at] = DataCrc32(c) /\ LawfulCrc(c, p, R[p].length, L)
        BY <1>0, <1>1, <4>1 DEF Marked
      <4> QED BY <1>0, <1>5, <4>1, <4>2
    <3> QED BY <1>0, <3>1, <3>2
  <2> QED BY <1>0, <2>1, <2>2 DEF Marked
<1>13. M <= U /\ M <= U + 1
  BY ONLY <1>0, <1>1, <1>7, <1>2
<1>14. Sound(G, S, U, L)
  BY <1>0, <1>3, <1>7, <1>9, <1>10, <1>12, <1>13 DEF Sound
<1>15. ASSUME M = T + 2
       PROVE  Kept(G, S, U, L, cut)
  <2>1. Whole(G, S)
    <3>1. N >= 1 /\ F[1].kind = "header"
      BY <1>0, <1>1 DEF Whole
    <3>2. 1 \in 1 .. T
      BY <1>0, <1>1
    <3>3. G[1] = F[1]
      BY <1>0, <1>7, <3>1, <3>2
    <3>4. \A p \in DOMAIN S : S[p].at <= M
      <4>1. ASSUME NEW p \in DOMAIN R
            PROVE  S[p].at <= M
        <5>1. PICK at1 : at1 = R[p].at
          OBVIOUS
        <5>2. at1 \in Nat /\ at1 + 1 <= T
          BY <1>0, <1>8, <5>1
        <5>3. at1 <= M
          BY <1>0, <1>7, <5>2
        <5> QED BY <1>0, <1>5, <5>1, <5>3
      <4> QED BY <1>0, <1>5, <1>6, <1>15, <4>1
    <3> QED BY <1>0, <1>1, <1>7, <3>1, <3>3, <3>4 DEF Whole
  <2>2. CASE ~cut
    <3>1. Exact(F, R, T) /\ U = at + len
      BY <1>0, <1>1, <2>2
    <3>2. ASSUME NEW p \in DOMAIN R
          PROVE  /\ G[S[p].at - 1] = Extent(p, S[p].length)
                 /\ G[S[p].at] = DataCrc32(S[p].crc)
                 /\ End(S[p]) <= T
                 /\ \E q \in DOMAIN S : Begin(S[q]) = End(S[p])
      <4>1. /\ F[R[p].at - 1] = Extent(p, R[p].length) /\ F[R[p].at] = DataCrc32(R[p].crc)
            /\ End(R[p]) <= T
            /\ End(R[p]) = T \/ \E q \in DOMAIN R : Begin(R[q]) = End(R[p])
        BY <1>0, <3>1 DEF Exact
      <4>2. \E q \in DOMAIN S : Begin(S[q]) = End(S[p])
        BY <1>0, <1>5, <1>6, <4>1
      <4> QED BY <1>0, <1>5, <1>11, <4>1, <4>2
    <3>3. G[S[o].at - 1] = Extent(o, S[o].length) /\ G[S[o].at] = DataCrc32(S[o].crc)
      <4>1. at - 1 = T + 1
        BY <1>0, <1>2
      <4> QED BY <1>0, <1>6, <1>7, <1>15, <4>1, SMTT(30)
    <3>4. End(S[o]) = U
      BY <1>0, <1>6, <3>1
    <3>5. T <= U
      BY <1>0, <1>2, <3>1
    <3>6. \A p \in DOMAIN S : /\ G[S[p].at - 1] = Extent(p, S[p].length)
                              /\ G[S[p].at] = DataCrc32(S[p].crc)
                              /\ End(S[p]) <= U
                              /\ End(S[p]) = U \/ \E q \in DOMAIN S : Begin(S[q]) = End(S[p])
      <4>1. ASSUME NEW p \in DOMAIN R
            PROVE  End(S[p]) <= U
        <5>1. PICK e1 : e1 = End(R[p])
          OBVIOUS
        <5>2. e1 \in Nat /\ e1 <= T
          BY <1>0, <1>5, <1>8, <3>2, <5>1
        <5>3. e1 <= U
          BY <1>0, <3>5, <5>2
        <5> QED BY <1>0, <1>5, <5>1, <5>3
      <4>2. ASSUME NEW p \in DOMAIN S
            PROVE  /\ G[S[p].at - 1] = Extent(p, S[p].length)
                   /\ G[S[p].at] = DataCrc32(S[p].crc)
                   /\ End(S[p]) <= U
                   /\ End(S[p]) = U \/ \E q \in DOMAIN S : Begin(S[q]) = End(S[p])
        <5>1. CASE p \in DOMAIN R
          BY <1>0, <3>2, <4>1, <5>1
        <5>2. CASE p = o
          <6>1. U <= U
            BY <1>0
          <6> QED BY <1>0, <3>3, <3>4, <5>2, <6>1
        <5> QED BY <1>0, <1>5, <5>1, <5>2
      <4> QED BY <1>0, <4>2
    <3>7. ASSUME NEW p \in DOMAIN S, NEW q \in DOMAIN S, p # q
          PROVE  End(S[p]) <= Begin(S[q]) \/ End(S[q]) <= Begin(S[p])
      <4>1. CASE p \in DOMAIN R /\ q \in DOMAIN R
        BY <1>0, <1>5, <3>1, <3>7, <4>1 DEF Exact
      <4>2. CASE p = o
        <5>1. q \in DOMAIN R
          BY <1>0, <1>5, <3>7, <4>2
        <5> QED BY <1>0, <1>6, <3>2, <4>2, <5>1
      <4>3. CASE q = o
        <5>1. p \in DOMAIN R
          BY <1>0, <1>5, <3>7, <4>3
        <5> QED BY <1>0, <1>6, <3>2, <4>3, <5>1
      <4> QED BY <1>0, <1>5, <4>1, <4>2, <4>3
    <3>8. \E p \in DOMAIN S : Begin(S[p]) = 1
      <4>1. CASE T = 1
        BY <1>0, <1>5, <1>6, <4>1
      <4>2. CASE T # 1
        <5>1. PICK p \in DOMAIN R : Begin(R[p]) = 1
          BY <1>0, <3>1, <4>2 DEF Exact
        <5> QED BY <1>0, <1>5, <5>1
      <4> QED BY <1>0, <4>1, <4>2
    <3>9. Exact(G, S, U)
      BY <1>0, <1>7, <1>13, <3>6, <3>7, <3>8 DEF Exact
    <3> QED BY <1>0, <1>14, <2>1, <3>9 DEF Kept
  <2>3. CASE cut
    BY <1>0, <1>14, <2>1, <2>3 DEF Kept
  <2> QED BY <1>0, <2>2, <2>3
<1> QED BY <1>0, <1>14, <1>15

\* The content C with d bytes of the write b at o.
Overlay(C, o, d, b) ==
  [x \in DOMAIN C \cup (o .. o + d - 1) |-> IF x \in o .. o + d - 1 THEN b ELSE C[x]]

IsOverlay(D, C, o, d, b) ==
  /\ D = [x \in DOMAIN D |-> D[x]] /\ DOMAIN D = DOMAIN C \cup (o .. o + d - 1)
  /\ \A x \in o .. o + d - 1 : D[x] = b
  /\ \A x \in DOMAIN C : x \notin o .. o + d - 1 => D[x] = C[x]

LEMMA OverlayFacts ==
  ASSUME NEW C, NEW o, NEW d, NEW b
  PROVE  IsOverlay(Overlay(C, o, d, b), C, o, d, b)
<1>1. PICK D, V : D = Overlay(C, o, d, b) /\ V = o .. o + d - 1
  OBVIOUS
<1>2. D = [x \in DOMAIN C \cup V |-> IF x \in V THEN b ELSE C[x]]
  BY <1>1 DEF Overlay
<1>3. /\ D = [x \in DOMAIN D |-> D[x]] /\ DOMAIN D = DOMAIN C \cup V
      /\ \A x \in V : D[x] = b
      /\ \A x \in DOMAIN C : x \notin V => D[x] = C[x]
  BY ONLY <1>2
<1>4. IsOverlay(D, C, o, d, b)
  BY <1>1, <1>3 DEF IsOverlay
<1> QED BY <1>1, <1>4

LEMMA OverlayIs ==
  ASSUME NEW C, NEW D, NEW o, NEW d, NEW b, IsOverlay(D, C, o, d, b)
  PROVE  D = Overlay(C, o, d, b)
<1>1. PICK V : V = o .. o + d - 1
  OBVIOUS
<1>2. /\ D = [x \in DOMAIN D |-> D[x]] /\ DOMAIN D = DOMAIN C \cup V
      /\ \A x \in V : D[x] = b
      /\ \A x \in DOMAIN C : x \notin V => D[x] = C[x]
  BY <1>1 DEF IsOverlay
<1>3. D = [x \in DOMAIN C \cup V |-> IF x \in V THEN b ELSE C[x]]
  BY ONLY <1>2
<1> QED BY <1>1, <1>3 DEF Overlay

LEMMA OverlayNone ==
  ASSUME NEW C, NEW o, NEW b, C = [x \in DOMAIN C |-> C[x]], o \in Nat
  PROVE  Overlay(C, o, 0, b) = C
<1>1. o .. o + 0 - 1 = {}
  OBVIOUS
<1>2. IsOverlay(C, C, o, 0, b)
  BY <1>1 DEF IsOverlay
<1> QED BY <1>2, OverlayIs

\* k bytes at c, behind d at o.
Follows(o, d, c, k, m) == o \in Nat /\ d \in Nat /\ k \in Nat /\ c = o + d /\ m = d + k

LEMMA OverlayMore ==
  ASSUME NEW C, NEW D, NEW E, NEW o, NEW d, NEW k, NEW m, NEW c, NEW b,
         Follows(o, d, c, k, m), D = Overlay(C, o, d, b), E = Overlay(D, c, k, b)
  PROVE  E = Overlay(C, o, m, b)
<1>0. o \in Nat /\ d \in Nat /\ k \in Nat /\ c = o + d /\ m = d + k
  BY DEF Follows
<1>1. IsOverlay(D, C, o, d, b) /\ IsOverlay(E, D, c, k, b)
  BY OverlayFacts
<1>2. PICK V, W, X : V = o .. o + d - 1 /\ W = c .. c + k - 1 /\ X = o .. o + m - 1
  OBVIOUS
<1>3. X = V \cup W
  BY <1>0, <1>2
<1>4. /\ D = [x \in DOMAIN D |-> D[x]] /\ DOMAIN D = DOMAIN C \cup V
      /\ \A x \in V : D[x] = b
      /\ \A x \in DOMAIN C : x \notin V => D[x] = C[x]
      /\ E = [x \in DOMAIN E |-> E[x]] /\ DOMAIN E = DOMAIN D \cup W
      /\ \A x \in W : E[x] = b
      /\ \A x \in DOMAIN D : x \notin W => E[x] = D[x]
  BY <1>1, <1>2 DEF IsOverlay
<1>5. /\ E = [x \in DOMAIN E |-> E[x]] /\ DOMAIN E = DOMAIN C \cup X
      /\ \A x \in X : E[x] = b
      /\ \A x \in DOMAIN C : x \notin X => E[x] = C[x]
  BY ONLY <1>3, <1>4
<1>6. IsOverlay(E, C, o, m, b)
  BY <1>2, <1>5 DEF IsOverlay
<1> QED BY <1>6, OverlayIs

\* After a header and then data were written in one range, ...
Rewritten(G, F, b0, at, a, k, b, N, M) ==
  /\ Long(G, M) /\ N <= M
  /\ \A i \in 1 .. M : i > a /\ i <= a + k => G[i] = Byte(b)
  /\ \A i \in 1 .. N : (i <= b0 \/ i > at) /\ (i <= a \/ i > a + k) => G[i] = F[i]

\* The k cells at a are in the range of len cells at `at', and hold the bytes at c.
Inside(o, len, at, a, k, c) ==
  a \in Nat /\ k \in Nat /\ c \in Nat /\ at <= a /\ a + k <= at + len /\ c + at = o + a

\* The checksum of a range of which k bytes were written.
OfAll(crc, k, len, b) == crc = <<>> \/ (k = len /\ crc = Run(b, len))

LEMMA HoldsWritten ==
  ASSUME NEW F, NEW R, NEW L, NEW T, NEW C, NEW o, NEW len, NEW at, NEW crc, NEW S, NEW G,
         NEW b0, NEW a, NEW k, NEW b, NEW c, NEW N, NEW M, NEW D, IsRanges(R, L), Disjoint(R),
         Exact(F, R, T), Holds(F, R, C), IsOf(R, o, len, at), b0 = Begin(R[o]),
         Inside(o, len, at, a, k, c), Long(F, N), Puts(S, R, o, RangeOf(o, len, crc, at)),
         OfAll(crc, k, len, b), Rewritten(G, F, b0, at, a, k, b, N, M), D = Overlay(C, c, k, b)
  PROVE  Holds(G, S, D)
<1>0. /\ o \in DOMAIN R /\ len = R[o].length /\ at = R[o].at
      /\ a \in Nat /\ k \in Nat /\ c \in Nat /\ at <= a /\ a + k <= at + len /\ c + at = o + a
      /\ N \in Nat /\ N = Len(F) /\ (crc = <<>> \/ (k = len /\ crc = Run(b, len)))
  BY DEF IsOf, Inside, Long, OfAll
<1>01. a \in Nat /\ k \in Nat /\ c \in Nat /\ at <= a /\ a + k <= at + len /\ c + at = o + a
  BY ONLY <1>0
<1>1. PICK e0 : e0 = End(R[o])
  OBVIOUS
<1>2. /\ b0 \in Nat /\ b0 >= 1 /\ at = b0 + 2 /\ e0 \in Nat /\ e0 = at + len
      /\ o \in Nat /\ len \in Nat /\ len > 0 /\ at \in Nat /\ at >= 3
  BY <1>0, <1>1, SpanFacts, RangeFacts
<1>3. /\ S = [p \in DOMAIN S |-> S[p]] /\ DOMAIN S = DOMAIN R
      /\ S[o] = RangeOf(o, len, crc, at)
      /\ \A p \in DOMAIN R : p # o => S[p] = R[p]
  BY <1>0 DEF Puts
<1>4. S[o].at = at /\ S[o].length = len /\ S[o].crc = crc /\ End(S[o]) = e0
  <2>1. PICK r : r = S[o]
    OBVIOUS
  <2>2. r.at = at /\ r.length = len /\ r.crc = crc
    BY <1>0, <1>3, <2>1 DEF RangeOf
  <2>3. End(r) = e0
    BY <1>0, <1>2, <2>2 DEF End
  <2> QED BY <1>0, <2>1, <2>2, <2>3
<1>5. /\ IsFile(G) /\ Len(G) = M /\ M \in Nat /\ N <= M
      /\ \A i \in 1 .. M : i > a /\ i <= a + k => G[i] = Byte(b)
      /\ \A i \in 1 .. N : (i <= b0 \/ i > at) /\ (i <= a \/ i > a + k) => G[i] = F[i]
  BY <1>0 DEF Rewritten, Long
<1>6. /\ C = [x \in DOMAIN C |-> C[x]] /\ DOMAIN C \subseteq Nat
      /\ \A x \in Nat : x \in DOMAIN C <=> \E p \in DOMAIN R : InRange(R, p, x)
      /\ \A p \in DOMAIN R :
           /\ End(R[p]) <= N
           /\ \A i \in 1 .. R[p].length : F[R[p].at + i] = Byte(C[p + i - 1])
           /\ R[p].crc # <<>> =>
                R[p].crc = [i \in 1 .. R[p].length |-> Byte(C[p + i - 1])]
  BY <1>0 DEF Holds
<1>7. /\ D = [x \in DOMAIN D |-> D[x]] /\ DOMAIN D = DOMAIN C \cup (c .. c + k - 1)
      /\ \A x \in c .. c + k - 1 : D[x] = b
      /\ \A x \in DOMAIN C : x \notin c .. c + k - 1 => D[x] = C[x]
  <2>1. IsOverlay(D, C, c, k, b)
    BY <1>0, OverlayFacts
  <2> QED BY <1>0, <2>1 DEF IsOverlay
<1>8. \A x \in c .. c + k - 1 : x \in Nat /\ o <= x /\ x < o + len
  BY ONLY <1>01, <1>2
<1>9. DOMAIN D = DOMAIN C
  <2>1. ASSUME NEW x \in c .. c + k - 1
        PROVE  x \in DOMAIN C
    <3>1. x \in Nat /\ InRange(R, o, x)
      BY <1>0, <1>8 DEF InRange
    <3> QED BY <1>0, <1>6, <3>1
  <2> QED BY <1>0, <1>7, <2>1
<1>10. \A p \in DOMAIN R : S[p].at = R[p].at /\ S[p].length = R[p].length /\ End(S[p]) = End(R[p])
  BY <1>0, <1>1, <1>3, <1>4
<1>11. \A x \in Nat : x \in DOMAIN D <=> \E p \in DOMAIN S : InRange(S, p, x)
  BY <1>0, <1>3, <1>6, <1>9, <1>10, SMTT(30) DEF InRange
<1>12. \A p \in DOMAIN R : End(S[p]) <= M
  <2>1. SUFFICES ASSUME NEW p \in DOMAIN R
                 PROVE  End(S[p]) <= M
    OBVIOUS
  <2>2. PICK e1 : e1 = End(R[p])
    OBVIOUS
  <2>3. e1 \in Nat /\ e1 <= N
    BY <1>0, <1>6, <2>2, SpanFacts
  <2> QED BY <1>0, <1>5, <1>10, <2>2, <2>3
<1>13. ASSUME NEW p \in DOMAIN R, p # o, NEW i \in 1 .. R[p].length
       PROVE  G[R[p].at + i] = F[R[p].at + i] /\ D[p + i - 1] = C[p + i - 1]
  <2>1. PICK b1, e1, at1, l1 : b1 = Begin(R[p]) /\ e1 = End(R[p]) /\ at1 = R[p].at /\ l1 = R[p].length
    OBVIOUS
  <2>2. /\ b1 \in Nat /\ at1 = b1 + 2 /\ e1 = at1 + l1 /\ p \in Nat /\ l1 \in Nat /\ at1 \in Nat
        /\ i \in 1 .. l1
    BY <1>0, <1>13, <2>1, SpanFacts, RangeFacts
  <2>3. PICK n : n = at1 + i
    OBVIOUS
  <2>4. n \in Nat /\ n > b1 + 2 /\ n <= e1
    BY <1>0, <2>2, <2>3
  <2>5. e0 <= b1 \/ e1 <= b0
    <3>1. End(R[o]) <= Begin(R[p]) \/ End(R[p]) <= Begin(R[o])
      BY <1>0, <1>13 DEF Exact
    <3> QED BY <1>0, <1>1, <2>1, <3>1
  <2>6. (n <= b0 \/ n > at) /\ (n <= a \/ n > a + k)
    BY ONLY <1>01, <1>2, <2>2, <2>4, <2>5
  <2>7. n \in 1 .. N
    <3>1. e1 <= N
      BY <1>0, <1>6, <2>1
    <3> QED BY <1>0, <2>2, <2>4, <3>1
  <2>8. G[n] = F[n]
    BY <1>0, <1>5, <2>6, <2>7
  <2>9. PICK x : x = p + i - 1
    OBVIOUS
  <2>10. x \in Nat /\ p <= x /\ x < p + l1
    BY <1>0, <2>2, <2>9
  <2>11. x \in DOMAIN C
    <3>1. InRange(R, p, x)
      BY <1>0, <2>1, <2>10 DEF InRange
    <3> QED BY <1>0, <1>6, <2>10, <3>1
  <2>12. o + len <= p \/ p + l1 <= o
    <3>0. o \in Nat /\ p \in Nat /\ o # p
      BY <1>2, <1>13, <2>2
    <3>1. o < p \/ p < o
      BY ONLY <3>0
    <3> QED BY <1>0, <2>1, <3>1 DEF Disjoint
  <2>13. x \notin c .. c + k - 1
    BY ONLY <1>01, <1>2, <1>8, <2>2, <2>10, <2>12
  <2>14. D[x] = C[x]
    BY <1>0, <1>7, <2>11, <2>13
  <2> QED BY <1>0, <2>1, <2>3, <2>8, <2>9, <2>14
<1>14. ASSUME NEW i \in 1 .. len
       PROVE  G[at + i] = Byte(D[o + i - 1])
  <2>1. PICK n, x : n = at + i /\ x = o + i - 1
    OBVIOUS
  <2>2. n \in Nat /\ x \in Nat /\ o <= x /\ x < o + len /\ n > at /\ n <= e0 /\ x + at + 1 = o + n
    BY ONLY <1>2, <2>1, i \in 1 .. len
  <2>3. n \in 1 .. N /\ n \in 1 .. M
    <3>1. e0 <= N
      BY <1>0, <1>1, <1>6
    <3> QED BY ONLY <1>0, <1>2, <1>5, <2>2, <3>1
  <2>4. CASE n > a /\ n <= a + k
    <3>1. x \in c .. c + k - 1
      BY ONLY <1>01, <1>2, <2>2, <2>4
    <3>2. G[n] = Byte(b) /\ D[x] = b
      BY <1>0, <1>5, <1>7, <2>3, <2>4, <3>1
    <3> QED BY <1>0, <2>1, <3>2
  <2>5. CASE ~ (n > a /\ n <= a + k)
    <3>1. x \notin c .. c + k - 1
      BY ONLY <1>01, <1>2, <2>2, <2>5
    <3>2. n <= a \/ n > a + k
      BY <1>0, <2>2, <2>5
    <3>3. G[n] = F[n]
      BY <1>0, <1>5, <2>2, <2>3, <3>2
    <3>4. x \in DOMAIN C
      <4>1. InRange(R, o, x)
        BY <1>0, <2>2 DEF InRange
      <4> QED BY <1>0, <1>6, <2>2, <4>1
    <3>5. D[x] = C[x]
      BY <1>0, <1>7, <3>1, <3>4
    <3>6. F[n] = Byte(C[x])
      BY <1>0, <1>6, <2>1
    <3> QED BY <1>0, <2>1, <3>3, <3>5, <3>6
  <2> QED BY <1>0, <2>4, <2>5
<1>15. ASSUME NEW p \in DOMAIN R
       PROVE  /\ \A i \in 1 .. S[p].length : G[S[p].at + i] = Byte(D[p + i - 1])
              /\ S[p].crc # <<>> =>
                   S[p].crc = [i \in 1 .. S[p].length |-> Byte(D[p + i - 1])]
  <2>1. CASE p = o
    <3>1. \A i \in 1 .. S[p].length : G[S[p].at + i] = Byte(D[p + i - 1])
      BY <1>0, <1>4, <1>14, <2>1
    <3>2. ASSUME crc # <<>>
          PROVE  crc = [i \in 1 .. len |-> Byte(D[o + i - 1])]
      <4>1. k = len /\ crc = Run(b, len)
        BY <1>0, <3>2
      <4>2. c = o
        BY ONLY <1>0, <1>2, <4>1, SMTT(30)
      <4>3. \A i \in 1 .. len : D[o + i - 1] = b
        <5>1. \A i \in 1 .. len : o + i - 1 \in c .. c + k - 1
          BY ONLY <1>0, <1>2, <4>1, <4>2, SMTT(30)
        <5>2. \A x \in c .. c + k - 1 : D[x] = b
          BY ONLY <1>7
        <5> QED BY ONLY <5>1, <5>2
      <4> QED BY <1>0, <4>1, <4>3 DEF Run
    <3> QED BY <1>0, <1>4, <2>1, <3>1, <3>2
  <2>2. CASE p # o
    <3>1. PICK r : r = R[p]
      OBVIOUS
    <3>2. S[p] = r
      BY <1>0, <1>3, <2>2, <3>1
    <3>3. \A i \in 1 .. r.length : G[r.at + i] = F[r.at + i] /\ D[p + i - 1] = C[p + i - 1]
      BY <1>0, <1>13, <2>2, <3>1
    <3>4. /\ \A i \in 1 .. r.length : F[r.at + i] = Byte(C[p + i - 1])
          /\ r.crc # <<>> => r.crc = [i \in 1 .. r.length |-> Byte(C[p + i - 1])]
      BY <1>0, <1>6, <3>1
    <3>5. /\ \A i \in 1 .. r.length : G[r.at + i] = Byte(D[p + i - 1])
          /\ r.crc # <<>> => r.crc = [i \in 1 .. r.length |-> Byte(D[p + i - 1])]
      BY <1>0, <3>3, <3>4
    <3> QED BY <1>0, <3>2, <3>5
  <2> QED BY <1>0, <2>1, <2>2
<1>16. DOMAIN D \subseteq Nat
  BY <1>0, <1>6, <1>9
<1> QED BY <1>0, <1>3, <1>5, <1>7, <1>11, <1>12, <1>15, <1>16 DEF Holds

\* ... or a range was appended at t.
Appended(G, F, t, at, len, b, N, M) ==
  /\ Long(G, M) /\ at + len <= M
  /\ \A i \in 1 .. t : i <= N => G[i] = F[i]
  /\ \A i \in 1 .. len : G[at + i] = Byte(b)

LEMMA HoldsAppended ==
  ASSUME NEW F, NEW R, NEW L, NEW T, NEW C, NEW o, NEW len, NEW at, NEW S, NEW G, NEW b,
         NEW N, NEW M, NEW D, NEW U, NEW short, NEW cut, IsRanges(R, L), Exact(F, R, T),
         Holds(F, R, C), Room(R, T, o, len, at, U, short, cut), Long(F, N), Puts(S, R, o, RangeOf(o, len, Run(b, len), at)),
         Appended(G, F, T, at, len, b, N, M), D = Overlay(C, o, len, b)
  PROVE  Holds(G, S, D)
<1> PICK end : end = o + len
  OBVIOUS
<1>0. /\ T \in Nat /\ o \in Nat /\ len \in Nat /\ len > 0 /\ at = T + 2 /\ end = o + len
      /\ N \in Nat /\ N = Len(F) /\ Free(R, o, end)
  BY DEF Room, Long
<1>1. at \in Nat /\ end \in Nat /\ end > o
  BY <1>0
<1>2. o \notin DOMAIN R
  <2>1. ASSUME o \in DOMAIN R
        PROVE  FALSE
    <3>1. R[o].length \in Nat /\ R[o].length > 0
      BY <1>0, <2>1, RangeFacts
    <3>2. o + R[o].length <= o \/ end <= o
      BY <1>0, <2>1 DEF Free
    <3> QED BY <1>0, <1>1, <3>1, <3>2
  <2> QED BY <1>0, <2>1
<1>3. /\ S = [p \in DOMAIN S |-> S[p]] /\ DOMAIN S = DOMAIN R \cup {o}
      /\ S[o] = RangeOf(o, len, Run(b, len), at)
      /\ \A p \in DOMAIN R : S[p] = R[p]
  BY <1>0, <1>2 DEF Puts
<1>4. S[o].at = at /\ S[o].length = len /\ S[o].crc = Run(b, len) /\ End(S[o]) = at + len
  <2>1. PICK r : r = S[o]
    OBVIOUS
  <2>2. r.at = at /\ r.length = len /\ r.crc = Run(b, len)
    BY <1>0, <1>3, <2>1 DEF RangeOf
  <2>3. End(r) = at + len
    BY <1>0, <2>2 DEF End
  <2> QED BY <1>0, <2>1, <2>2, <2>3
<1>5. /\ IsFile(G) /\ Len(G) = M /\ M \in Nat /\ at + len <= M
      /\ \A i \in 1 .. T : i <= N => G[i] = F[i]
      /\ \A i \in 1 .. len : G[at + i] = Byte(b)
  BY <1>0 DEF Appended, Long
<1>6. /\ C = [x \in DOMAIN C |-> C[x]] /\ DOMAIN C \subseteq Nat
      /\ \A x \in Nat : x \in DOMAIN C <=> \E p \in DOMAIN R : InRange(R, p, x)
      /\ \A p \in DOMAIN R :
           /\ End(R[p]) <= N
           /\ \A i \in 1 .. R[p].length : F[R[p].at + i] = Byte(C[p + i - 1])
           /\ R[p].crc # <<>> =>
                R[p].crc = [i \in 1 .. R[p].length |-> Byte(C[p + i - 1])]
  BY <1>0 DEF Holds
<1>7. PICK V : V = o .. o + len - 1
  OBVIOUS
<1>8. /\ D = [x \in DOMAIN D |-> D[x]] /\ DOMAIN D = DOMAIN C \cup V
      /\ \A x \in V : D[x] = b
      /\ \A x \in DOMAIN C : x \notin V => D[x] = C[x]
  <2>1. IsOverlay(D, C, o, len, b)
    BY <1>0, OverlayFacts
  <2> QED BY <1>0, <1>7, <2>1 DEF IsOverlay
<1>9. \A x : x \in V <=> x \in Nat /\ o <= x /\ x < o + len
  BY <1>0, <1>7
<1>10. ASSUME NEW x \in Nat
       PROVE  x \in DOMAIN D <=> \E p \in DOMAIN S : InRange(S, p, x)
  <2>1. x \in V <=> InRange(S, o, x)
    BY <1>0, <1>3, <1>4, <1>9 DEF InRange
  <2>2. \A p \in DOMAIN R : InRange(S, p, x) <=> InRange(R, p, x)
    BY <1>0, <1>3 DEF InRange
  <2> QED BY <1>0, <1>3, <1>6, <1>8, <2>1, <2>2
<1>11. ASSUME NEW p \in DOMAIN R
       PROVE  /\ End(S[p]) <= M
              /\ \A i \in 1 .. S[p].length : G[S[p].at + i] = Byte(D[p + i - 1])
              /\ S[p].crc # <<>> =>
                   S[p].crc = [i \in 1 .. S[p].length |-> Byte(D[p + i - 1])]
  <2>1. PICK e1, at1, l1 : e1 = End(R[p]) /\ at1 = R[p].at /\ l1 = R[p].length
    OBVIOUS
  <2>2. /\ e1 \in Nat /\ e1 = at1 + l1 /\ p \in Nat /\ l1 \in Nat /\ at1 \in Nat
    BY <1>0, <2>1, SpanFacts, RangeFacts
  <2>3. e1 <= T /\ e1 <= N
    BY <1>0, <1>6, <2>1 DEF Exact
  <2>4. p + l1 <= o \/ end <= p
    BY <1>0, <2>1 DEF Free
  <2>5. ASSUME NEW i \in 1 .. l1
        PROVE  G[at1 + i] = F[at1 + i] /\ D[p + i - 1] = C[p + i - 1]
    <3>1. PICK n, x : n = at1 + i /\ x = p + i - 1
      OBVIOUS
    <3>2. n \in 1 .. T /\ n <= N
      BY ONLY <1>0, <2>2, <2>3, <3>1, i \in 1 .. l1
    <3>3. x \in Nat /\ p <= x /\ x < p + l1
      BY ONLY <1>0, <2>2, <3>1, i \in 1 .. l1
    <3>4. x \notin V
      BY ONLY <1>0, <1>1, <1>9, <2>2, <2>4, <3>3
    <3>5. x \in DOMAIN C
      <4>1. InRange(R, p, x)
        BY <1>0, <2>1, <3>3 DEF InRange
      <4> QED BY <1>0, <1>6, <3>3, <4>1
    <3>6. G[n] = F[n] /\ D[x] = C[x]
      BY <1>0, <1>5, <1>8, <3>2, <3>4, <3>5
    <3> QED BY <1>0, <3>1, <3>6
  <2>6. PICK r : r = R[p]
    OBVIOUS
  <2>7. S[p] = r /\ r.at = at1 /\ r.length = l1
    BY <1>0, <1>3, <2>1, <2>6
  <2>8. /\ \A i \in 1 .. l1 : F[at1 + i] = Byte(C[p + i - 1])
        /\ r.crc # <<>> => r.crc = [i \in 1 .. l1 |-> Byte(C[p + i - 1])]
    BY <1>0, <1>6, <2>1, <2>6
  <2>9. /\ \A i \in 1 .. l1 : G[at1 + i] = Byte(D[p + i - 1])
        /\ r.crc # <<>> => r.crc = [i \in 1 .. l1 |-> Byte(D[p + i - 1])]
    BY <1>0, <2>5, <2>8
  <2>10. e1 <= M
    BY ONLY <1>0, <1>1, <1>5, <2>2, <2>3
  <2> QED BY <1>0, <2>1, <2>6, <2>7, <2>9, <2>10
<1>12. /\ End(S[o]) <= M
       /\ \A i \in 1 .. S[o].length : G[S[o].at + i] = Byte(D[o + i - 1])
       /\ S[o].crc # <<>> =>
            S[o].crc = [i \in 1 .. S[o].length |-> Byte(D[o + i - 1])]
  <2>1. \A i \in 1 .. len : D[o + i - 1] = b
    <3>1. \A i \in 1 .. len : o + i - 1 \in V
      BY <1>0, <1>7
    <3> QED BY <1>0, <1>8, <3>1
  <2>2. Run(b, len) = [i \in 1 .. len |-> Byte(D[o + i - 1])]
    BY <1>0, <2>1 DEF Run
  <2>3. \A i \in 1 .. len : G[at + i] = Byte(D[o + i - 1])
    BY <1>0, <1>5, <2>1
  <2> QED BY <1>0, <1>4, <1>5, <2>2, <2>3
<1>13. DOMAIN D \subseteq Nat
  BY <1>0, <1>6, <1>8, <1>9
<1>14. \A p \in DOMAIN S :
         /\ End(S[p]) <= Len(G)
         /\ \A i \in 1 .. S[p].length : G[S[p].at + i] = Byte(D[p + i - 1])
         /\ S[p].crc # <<>> =>
              S[p].crc = [i \in 1 .. S[p].length |-> Byte(D[p + i - 1])]
  BY <1>0, <1>3, <1>5, <1>11, <1>12
<1> QED BY <1>0, <1>8, <1>10, <1>13, <1>14 DEF Holds

LEMMA CountedMore ==
  ASSUME NEW R, NEW S, NEW L, NEW T, NEW U, NEW o, NEW r, NEW len, NEW size, NEW more,
         IsRanges(R, L), Puts(S, R, o, r), o \notin DOMAIN R, T \in Nat, len \in Nat,
         U = T + 2 + len, more = size + len, Counted(R, T, size)
  PROVE  Counted(S, U, more)
<1>1. IsFiniteSet(DOMAIN R) /\ DOMAIN S = DOMAIN R \cup {o}
  BY DEF IsRanges, Puts
<1>2. PICK m : m = Cardinality(DOMAIN R)
  OBVIOUS
<1>3. m \in Nat /\ Cardinality(DOMAIN S) = m + 1
  BY <1>1, <1>2, FS_CardinalityType, FS_AddElement
<1>4. size \in Nat /\ T - 1 = size + 2 * m
  BY <1>2 DEF Counted
<1>5. more \in Nat /\ U - 1 = more + 2 * (m + 1)
  BY ONLY <1>3, <1>4, T \in Nat, len \in Nat, U = T + 2 + len, more = size + len
<1> QED BY <1>3, <1>5 DEF Counted

LEMMA CountedStill ==
  ASSUME NEW R, NEW S, NEW T, NEW o, NEW r, NEW size, Puts(S, R, o, r), o \in DOMAIN R,
         Counted(R, T, size)
  PROVE  Counted(S, T, size)
<1>1. DOMAIN S = DOMAIN R
  BY DEF Puts
<1> QED BY <1>1 DEF Counted

LEMMA PrefixFacts ==
  ASSUME NEW f, NEW N, NEW m, Long(f, N), m \in Nat, m <= N
  PROVE  \E g : g = SubSeq(f, 1, m) /\ g = Cells(f, 0, m) /\ IsPart(g, f, 0, m)
<1>1. PICK g : g = Cells(f, 0, m)
  OBVIOUS
<1>2. IsPart(g, f, 0, m)
  <2>1. 0 \in Nat /\ 0 + m <= N /\ N \in Nat
    BY DEF Long
  <2>2. IsPart(Cells(f, 0, m), f, 0, m)
    BY ONLY <2>1, Long(f, N), m \in Nat, CellsFacts
  <2> QED BY <1>1, <2>2
<1>3. 0 + 1 = 1 /\ 0 + m = m
  OBVIOUS
<1>4. Cells(f, 0, m) = SubSeq(f, 1, m)
  BY <1>3 DEF Cells
<1> QED BY <1>1, <1>2, <1>4

\* The header of a range, and the part of it that a torn write leaves.
IsHeader(h, r) == Long(h, 2) /\ h[1] = Extent(r.offset, r.length) /\ h[2] = DataCrc32(r.crc)

LEMMA HeaderFacts ==
  ASSUME NEW r
  PROVE  IsHeader(RangeHeader(r), r)
<1>1. PICK x, y, h : x = Extent(r.offset, r.length) /\ y = DataCrc32(r.crc) /\ h = <<x, y>>
  OBVIOUS
<1>2. h = RangeHeader(r)
  BY <1>1 DEF RangeHeader
<1>3. h \in Seq({x, y}) /\ Len(h) = 2 /\ h[1] = x /\ h[2] = y
  BY <1>1
<1>4. Long(h, 2)
  BY <1>3 DEF Long, IsFile
<1> QED BY <1>1, <1>2, <1>3, <1>4 DEF IsHeader

\* A call that writes, one after what was called before.
Called(F, calls, a, s, L) ==
  /\ Tears(F, Append(calls, Write(a, s)), L)
  /\ FileAfter(F, Append(calls, Write(a, s))) = WriteAt(FileAfter(F, calls), a, s)

LEMMA RunPrefix ==
  ASSUME NEW b, NEW k, NEW m, k \in Nat, m \in Nat, m <= k
  PROVE  SubSeq(Run(b, k), 1, m) = Run(b, m)
<1>1. Long(Run(b, k), k)
  BY RunFacts DEF IsRun
<1>2. SubSeq(Run(b, k), 1, m) = Cells(Run(b, k), 0, m)
  BY <1>1, PrefixFacts
<1>3. Cells(Run(b, k), 0, m) = Run(b, m)
  <2>1. 0 \in Nat /\ 0 + m <= k
    OBVIOUS
  <2> QED BY ONLY <2>1, k \in Nat, m \in Nat, RunPart
<1> QED BY <1>2, <1>3

LEMMA DataWritten ==
  ASSUME NEW f, NEW R, NEW T, NEW L, NEW short, NEW o, NEW a, NEW k, NEW b,
         Kept(f, R, T, L, short), o \in DOMAIN R, a \in Nat, k \in Nat, R[o].at <= a,
         a + k <= End(R[o])
  PROVE  Kept(WriteAt(f, a, Run(b, k)), R, T, L, short)
<1>1. PICK s, N : s = Run(b, k) /\ N = Len(f)
  OBVIOUS
<1>2. IsFile(f)
  BY DEF Kept, Sound
<1>3. Long(f, N) /\ N \in Nat
  BY <1>1, <1>2, FileFacts DEF Long
<1>4. IsRun(s, b, k) /\ Long(s, k)
  BY <1>1, RunFacts DEF IsRun
<1>5. PICK M : Overlays(WriteAt(f, a, s), f, a, s, k, N, M)
  BY <1>3, <1>4, WriteAtIs
<1>6. Kept(WriteAt(f, a, s), R, T, L, short)
  BY <1>1, <1>3, <1>4, <1>5, DataKeeps
<1> QED BY <1>1, <1>6

LEMMA DataCalled ==
  ASSUME NEW F, NEW calls, NEW f, NEW R, NEW T, NEW L, NEW short, NEW o, NEW a, NEW k,
         NEW b, NEW s, Tears(F, calls, L), f = FileAfter(F, calls), s = Run(b, k),
         Kept(f, R, T, L, short), o \in DOMAIN R, a \in Nat, k \in Nat, R[o].at <= a,
         a + k <= End(R[o])
  PROVE  Called(F, calls, a, s, L) /\ Kept(WriteAt(f, a, s), R, T, L, short)
<1>1. Len(s) = k
  BY RunFacts DEF IsRun, Long
<1>2. End(R[o]) \in Nat
  BY SpanFacts DEF Kept, Sound
<1>3. ASSUME NEW m \in 0 .. Len(s) - 1
      PROVE  Soundable(WriteAt(f, a, SubSeq(s, 1, m)), L)
  <2>1. m \in Nat /\ m <= k
    BY <1>1
  <2>2. PICK end : end = End(R[o])
    OBVIOUS
  <2>3. a + m <= end
    BY ONLY <1>2, <2>1, <2>2, a \in Nat, k \in Nat, a + k <= End(R[o])
  <2>4. Kept(WriteAt(f, a, Run(b, m)), R, T, L, short)
    BY <2>1, <2>2, <2>3, DataWritten
  <2>5. SubSeq(s, 1, m) = Run(b, m)
    BY <2>1, RunPrefix
  <2> QED BY <2>4, <2>5, KeptIsSoundable
<1>4. Called(F, calls, a, s, L)
  BY <1>3, TearsMore DEF Called
<1>5. Kept(WriteAt(f, a, s), R, T, L, short)
  BY DataWritten
<1> QED BY <1>4, <1>5

LEMMA HeaderCalled ==
  ASSUME NEW F, NEW calls, NEW f, NEW R, NEW T, NEW L, NEW short, NEW o, NEW len, NEW at,
         NEW crc, NEW r, NEW h, NEW b0, NEW S, Tears(F, calls, L), f = FileAfter(F, calls),
         Kept(f, R, T, L, short), o \in DOMAIN R, len = R[o].length, at = R[o].at,
         b0 = Begin(R[o]), LawfulCrc(crc, o, len, L), r = RangeOf(o, len, crc, at),
         h = RangeHeader(r), Puts(S, R, o, r)
  PROVE  Called(F, calls, b0, h, L) /\ Kept(WriteAt(f, b0, h), S, T, L, short)
<1>1. PICK N : N = Len(f)
  OBVIOUS
<1>2. /\ IsFile(f) /\ N <= T + 1 /\ IsRanges(R, L) /\ Marked(f, R, L) /\ Whole(f, R)
      /\ T \in Nat /\ N \in Nat /\ Long(f, N)
  BY <1>1, FileFacts DEF Kept, Sound, Placed, Long
<1>3. b0 \in Nat /\ b0 >= 1 /\ at = b0 + 2 /\ at \in Nat
  BY <1>2, SpanFacts
<1>4. at <= N
  BY <1>1, <1>2 DEF Whole
<1>5. r.offset = o /\ r.length = len /\ r.crc = crc
  BY DEF RangeOf
<1>6. Long(h, 2) /\ h[1] = Extent(o, len) /\ h[2] = DataCrc32(crc)
  BY <1>5, HeaderFacts DEF IsHeader
<1>7. Kept(WriteAt(f, b0, h), S, T, L, short)
  <2>1. PICK M : Overlays(WriteAt(f, b0, h), f, b0, h, 2, N, M)
    BY <1>2, <1>3, <1>6, WriteAtIs
  <2>2. PICK g : g = WriteAt(f, b0, h)
    OBVIOUS
  <2>3. /\ Long(g, M) /\ N <= M /\ (M = N \/ M = b0 + 2)
        /\ \A i \in 1 .. M : i > b0 /\ i <= b0 + 2 => g[i] = h[i - b0]
        /\ \A i \in 1 .. N : i <= b0 \/ i > b0 + 2 => g[i] = f[i]
    BY <2>1, <2>2 DEF Overlays
  <2>4. M \in Nat
    BY <2>3 DEF Long
  <2>5. M = N
    BY ONLY <1>2, <1>3, <1>4, <2>3, <2>4
  <2>6. /\ at - 1 \in 1 .. M /\ at - 1 > b0 /\ at - 1 <= b0 + 2 /\ (at - 1) - b0 = 1
        /\ at \in 1 .. M /\ at > b0 /\ at <= b0 + 2 /\ at - b0 = 2
    BY ONLY <1>2, <1>3, <1>4, <2>5
  <2>7. g[at - 1] = Extent(o, len) /\ g[at] = DataCrc32(crc)
    BY <1>6, <2>3, <2>6
  <2>8. \A i \in 1 .. N : i # at - 1 /\ i # at => i <= b0 \/ i > b0 + 2
    BY ONLY <1>3
  <2>9. Reheaded(g, f, at, o, len, crc, N)
    BY <2>3, <2>5, <2>7, <2>8 DEF Reheaded
  <2>10. Puts(S, R, o, RangeOf(o, len, crc, at))
    OBVIOUS
  <2>11. Kept(g, S, T, L, short)
    <3>1. /\ Kept(f, R, T, L, short) /\ IsOf(R, o, len, at) /\ LawfulCrc(crc, o, len, L)
          /\ Long(f, N)
      BY <1>2 DEF IsOf
    <3> QED BY ONLY <2>9, <2>10, <3>1, HeaderKeeps
  <2> QED BY <2>2, <2>11
<1>8. ASSUME NEW m \in 0 .. Len(h) - 1
      PROVE  Soundable(WriteAt(f, b0, SubSeq(h, 1, m)), L)
  <2>1. Len(h) = 2
    BY <1>6 DEF Long
  <2>2. m = 0 \/ m = 1
    BY <2>1
  <2>3. PICK s : s = SubSeq(h, 1, m) /\ IsPart(s, h, 0, m)
    <3>1. m \in Nat /\ m <= 2
      BY <2>2
    <3> QED BY <1>6, <3>1, PrefixFacts
  <2>4. Long(s, m) /\ \A i \in 1 .. m : s[i] = h[0 + i]
    BY <2>3 DEF IsPart
  <2>5. CASE m = 0
    <3>1. s = <<>>
      <4>1. IsFile(s) /\ Len(s) = 0
        BY <2>4, <2>5 DEF Long
      <4> QED BY <4>1, FileFacts
    <3>2. WriteAt(f, b0, s) = f
      BY <3>1 DEF WriteAt
    <3> QED BY <2>3, <3>2, KeptIsSoundable
  <2>6. CASE m = 1
    <3>1. Long(s, 1) /\ s[1] = Extent(o, len)
      <4>1. 1 \in 1 .. m /\ 0 + 1 = 1
        BY <2>6
      <4>2. s[1] = h[0 + 1]
        BY <2>4, <4>1
      <4> QED BY <1>6, <2>4, <2>6, <4>1, <4>2
    <3>2. PICK M : Overlays(WriteAt(f, b0, s), f, b0, s, 1, N, M)
      <4>1. 1 \in Nat
        OBVIOUS
      <4> QED BY <1>2, <1>3, <3>1, WriteAtIs
    <3>3. PICK g : g = WriteAt(f, b0, s)
      OBVIOUS
    <3>4. /\ Long(g, M) /\ N <= M /\ (M = N \/ M = b0 + 1)
          /\ \A i \in 1 .. M : i > b0 /\ i <= b0 + 1 => g[i] = s[i - b0]
          /\ \A i \in 1 .. N : i <= b0 \/ i > b0 + 1 => g[i] = f[i]
      BY <3>2, <3>3 DEF Overlays
    <3>5. M \in Nat
      BY <3>4 DEF Long
    <3>6. M = N
      BY ONLY <1>2, <1>3, <1>4, <3>4, <3>5
    <3>7. /\ at - 1 \in 1 .. M /\ at - 1 > b0 /\ at - 1 <= b0 + 1 /\ (at - 1) - b0 = 1
          /\ at \in 1 .. N /\ at > b0 + 1
      BY ONLY <1>2, <1>3, <1>4, <3>6
    <3>8. g[at - 1] = Extent(o, len) /\ g[at] = f[at]
      BY <3>1, <3>4, <3>7
    <3>9. PICK c : f[at] = DataCrc32(c) /\ LawfulCrc(c, o, len, L)
      <4>1. R[o].at <= Len(f)
        BY <1>1, <1>4
      <4> QED BY <1>2, <4>1 DEF Marked
    <3>10. \A i \in 1 .. N : i # at - 1 /\ i # at => i <= b0 \/ i > b0 + 1
      BY ONLY <1>3
    <3>11. Reheaded(g, f, at, o, len, c, N)
      BY <3>4, <3>6, <3>8, <3>9, <3>10 DEF Reheaded
    <3>12. PICK q, Q : q = RangeOf(o, len, c, at) /\ Q = [R EXCEPT ![o] = q]
      OBVIOUS
    <3>13. R = [p \in DOMAIN R |-> R[p]]
      BY <1>2 DEF IsRanges
    <3>14. Puts(Q, R, o, q)
      BY <3>12, <3>13 DEF Puts
    <3>15. Kept(g, Q, T, L, short)
      <4>1. /\ Kept(f, R, T, L, short) /\ IsOf(R, o, len, at) /\ LawfulCrc(c, o, len, L)
            /\ Long(f, N) /\ Puts(Q, R, o, RangeOf(o, len, c, at))
        BY <1>2, <3>9, <3>12, <3>14 DEF IsOf
      <4> QED BY ONLY <3>11, <4>1, HeaderKeeps
    <3> QED BY <2>3, <3>3, <3>15, KeptIsSoundable
  <2> QED BY <2>2, <2>5, <2>6
<1>9. Called(F, calls, b0, h, L)
  BY <1>8, TearsMore DEF Called
<1> QED BY <1>7, <1>9

LEMMA AppendCalled ==
  ASSUME NEW F, NEW calls, NEW f, NEW R, NEW T, NEW L, NEW short, NEW o, NEW len, NEW at,
         NEW crc, NEW r, NEW h, NEW S, NEW U, NEW cut, Tears(F, calls, L),
         f = FileAfter(F, calls), Kept(f, R, T, L, short),
         Room(R, T, o, len, at, U, short, cut), LawfulCrc(crc, o, len, L),
         r = RangeOf(o, len, crc, at), h = RangeHeader(r), Puts(S, R, o, r)
  PROVE  Called(F, calls, T, h, L) /\ Kept(WriteAt(f, T, h), S, U, L, cut)
<1>1. PICK N : N = Len(f)
  OBVIOUS
<1>2. /\ IsFile(f) /\ N <= T + 1 /\ T \in Nat /\ N \in Nat /\ Long(f, N)
  BY <1>1, FileFacts DEF Kept, Sound, Placed, Long
<1>3. r.offset = o /\ r.length = len /\ r.crc = crc
  BY DEF RangeOf
<1>4. Long(h, 2) /\ h[1] = Extent(o, len) /\ h[2] = DataCrc32(crc)
  BY <1>3, HeaderFacts DEF IsHeader
<1>5. Puts(S, R, o, RangeOf(o, len, crc, at))
  OBVIOUS
\* What there is when a part of the header is written.
<1>6. ASSUME NEW s, NEW k, k = 1 \/ k = 2, Long(s, k), \A i \in 1 .. k : s[i] = h[i]
      PROVE  \E M : M = T + k /\ Headed(WriteAt(f, T, s), f, T, o, len, crc, N, M)
  <2>1. PICK M : Overlays(WriteAt(f, T, s), f, T, s, k, N, M)
    BY <1>2, <1>6, WriteAtIs
  <2>2. PICK g : g = WriteAt(f, T, s)
    OBVIOUS
  <2>3. /\ Long(g, M) /\ N <= M /\ (M = N \/ M = T + k) /\ (k > 0 => T + k <= M)
        /\ \A i \in 1 .. M : i > T /\ i <= T + k => g[i] = s[i - T]
        /\ \A i \in 1 .. N : i <= T \/ i > T + k => g[i] = f[i]
        /\ \A i \in N + 1 .. M : i <= T \/ i > T + k => g[i] = Byte(0)
    BY <2>1, <2>2 DEF Overlays
  <2>4. M \in Nat /\ k \in Nat
    BY <1>6, <2>3 DEF Long
  <2>5. M = T + k
    BY ONLY <1>2, <1>6, <2>3, <2>4
  <2>6. T + 1 \in 1 .. M /\ T + 1 > T /\ T + 1 <= T + k /\ (T + 1) - T = 1 /\ 1 \in 1 .. k
    BY ONLY <1>2, <1>6, <2>4, <2>5
  <2>7. g[T + 1] = Extent(o, len)
    BY <1>4, <1>6, <2>3, <2>6
  <2>8. M = T + 2 => g[T + 2] = DataCrc32(crc)
    <3>1. CASE k = 2
      <4>1. T + 2 \in 1 .. M /\ T + 2 > T /\ T + 2 <= T + k /\ (T + 2) - T = 2 /\ 2 \in 1 .. k
        BY ONLY <1>2, <2>4, <2>5, <3>1
      <4> QED BY <1>4, <1>6, <2>3, <4>1
    <3>2. CASE k = 1
      BY <1>2, <2>5, <3>2
    <3> QED BY <1>6, <3>1, <3>2
  <2>9. \A i \in 1 .. T : i <= N => g[i] = f[i]
    <3>1. \A i \in 1 .. T : i <= N => i \in 1 .. N /\ i <= T
      BY <1>2
    <3> QED BY <2>3, <3>1
  <2>10. \A i \in 1 .. T : i > N => g[i] = Byte(0)
    <3>1. \A i \in 1 .. T : i > N => i \in N + 1 .. M /\ i <= T
      BY <1>2, <2>4, <2>5
    <3> QED BY <2>3, <3>1
  <2>11. M = T + 1 \/ M = T + 2
    BY <1>6, <2>5
  <2>12. Headed(g, f, T, o, len, crc, N, M)
    BY <2>3, <2>7, <2>8, <2>9, <2>10, <2>11 DEF Headed
  <2> QED BY <2>2, <2>5, <2>12
<1>7. ASSUME NEW g, NEW M, Headed(g, f, T, o, len, crc, N, M)
      PROVE  Sound(g, S, U, L) /\ (M = T + 2 => Kept(g, S, U, L, cut))
  <2>1. /\ Kept(f, R, T, L, short) /\ Room(R, T, o, len, at, U, short, cut)
        /\ LawfulCrc(crc, o, len, L)
    OBVIOUS
  <2> QED BY ONLY <1>2, <1>5, <1>7, <2>1, AppendKeeps
<1>8. Kept(WriteAt(f, T, h), S, U, L, cut)
  <2>1. \E M : M = T + 2 /\ Headed(WriteAt(f, T, h), f, T, o, len, crc, N, M)
    BY <1>4, <1>6
  <2>2. PICK g, M : M = T + 2 /\ g = WriteAt(f, T, h) /\ Headed(g, f, T, o, len, crc, N, M)
    BY <2>1
  <2>3. Kept(g, S, U, L, cut)
    BY <1>7, <2>2
  <2> QED BY <2>2, <2>3
<1>9. ASSUME NEW m \in 0 .. Len(h) - 1
      PROVE  Soundable(WriteAt(f, T, SubSeq(h, 1, m)), L)
  <2>1. Len(h) = 2
    BY <1>4 DEF Long
  <2>2. m = 0 \/ m = 1
    BY <2>1
  <2>3. PICK s : s = SubSeq(h, 1, m) /\ IsPart(s, h, 0, m)
    <3>1. m \in Nat /\ m <= 2
      BY <2>2
    <3> QED BY <1>4, <3>1, PrefixFacts
  <2>4. Long(s, m) /\ \A i \in 1 .. m : s[i] = h[0 + i]
    BY <2>3 DEF IsPart
  <2>5. CASE m = 0
    <3>1. s = <<>>
      <4>1. IsFile(s) /\ Len(s) = 0
        BY <2>4, <2>5 DEF Long
      <4> QED BY <4>1, FileFacts
    <3>2. WriteAt(f, T, s) = f
      BY <3>1 DEF WriteAt
    <3> QED BY <2>3, <3>2, KeptIsSoundable
  <2>6. CASE m = 1
    <3>1. Long(s, 1) /\ \A i \in 1 .. 1 : s[i] = h[i]
      <4>1. \A i \in 1 .. 1 : i \in 1 .. m /\ 0 + i = i
        BY <2>6
      <4> QED BY <2>4, <2>6, <4>1
    <3>2. \E M : M = T + 1 /\ Headed(WriteAt(f, T, s), f, T, o, len, crc, N, M)
      BY <1>6, <3>1
    <3>3. PICK g, M : g = WriteAt(f, T, s) /\ Headed(g, f, T, o, len, crc, N, M)
      BY <3>2
    <3>4. Sound(g, S, U, L)
      BY <1>7, <3>3
    <3> QED BY <2>3, <3>3, <3>4 DEF Soundable
  <2> QED BY <2>2, <2>5, <2>6
<1>10. Called(F, calls, T, h, L)
  BY <1>9, TearsMore DEF Called
<1> QED BY <1>8, <1>10

LEMMA AppendTwo ==
  ASSUME NEW s, NEW x, NEW y, IsFile(s)
  PROVE  s \o <<x, y>> = Append(Append(s, x), y)
<1>1. PICK S : s \in Seq(S)
  BY DEF IsFile
<1>2. PICK T : T = S \cup {x, y}
  OBVIOUS
<1>3. s \in Seq(T) /\ x \in T /\ y \in T
  BY <1>1, <1>2
<1>4. PICK a, c : a = Append(Append(s, x), y) /\ c = s \o <<x, y>>
  OBVIOUS
<1>5. PICK n : n = Len(s)
  OBVIOUS
<1>6. n \in Nat
  BY <1>3, <1>5
<1>7. /\ Append(s, x) \in Seq(T) /\ Len(Append(s, x)) = n + 1 /\ Append(s, x)[n + 1] = x
      /\ \A i \in 1 .. n : Append(s, x)[i] = s[i]
  BY <1>3, <1>5
<1>8. /\ a \in Seq(T) /\ Len(a) = n + 2 /\ a[n + 2] = y /\ a[n + 1] = x
      /\ \A i \in 1 .. n : a[i] = s[i]
  <2>1. PICK t : t = Append(s, x)
    OBVIOUS
  <2>2. /\ t \in Seq(T) /\ Len(t) = n + 1 /\ t[n + 1] = x
        /\ \A i \in 1 .. n : t[i] = s[i]
    BY <1>7, <2>1
  <2>3. a = Append(t, y)
    BY <1>4, <2>1
  <2>4. /\ a \in Seq(T) /\ Len(a) = n + 2 /\ a[n + 2] = y
        /\ \A i \in 1 .. n + 1 : a[i] = t[i]
    BY <1>3, <1>6, <2>2, <2>3
  <2> QED BY <1>6, <2>2, <2>4
<1>9. <<x, y>> \in Seq(T) /\ Len(<<x, y>>) = 2 /\ <<x, y>>[1] = x /\ <<x, y>>[2] = y
  BY <1>3
<1>10. Long(s, n) /\ Long(<<x, y>>, 2)
  BY <1>3, <1>5, <1>6, <1>9 DEF Long, IsFile
<1>11. IsJoin(c, s, n, <<x, y>>, 2)
  BY <1>4, <1>10, ConcatFacts
<1>12. PICK t : t = <<x, y>>
  OBVIOUS
<1>13. /\ Long(c, n + 2) /\ (\A i \in 1 .. n : c[i] = s[i])
       /\ \A i \in 1 .. 2 : c[n + i] = t[i]
  BY <1>11, <1>12 DEF IsJoin
<1>14. c[n + 1] = x /\ c[n + 2] = y
  <2>1. t[1] = x /\ t[2] = y
    BY <1>12
  <2>2. 1 \in 1 .. 2 /\ 2 \in 1 .. 2
    OBVIOUS
  <2> QED BY <1>13, <2>1, <2>2
<1>15. c = [i \in 1 .. n + 2 |-> c[i]]
  BY <1>13, FileFacts DEF Long
<1>16. a = [i \in 1 .. n + 2 |-> a[i]]
  BY <1>8, FileFacts DEF IsFile
<1>17. \A i \in 1 .. n + 2 : a[i] = c[i]
  <2>1. \A i \in 1 .. n + 2 : i \in 1 .. n \/ i = n + 1 \/ i = n + 2
    BY <1>6
  <2> QED BY <1>8, <1>13, <1>14, <2>1
<1>18. a = c
  BY <1>15, <1>16, <1>17
<1> QED BY <1>4, <1>18

\* A plan, and what has come of it in a file F: f, whole and exact as far as it is
\* told, ...
IsPlan(plan) ==
  plan = [calls |-> plan.calls, ranges |-> plan.ranges, tail |-> plan.tail,
          done |-> plan.done, appended |-> plan.appended, short |-> plan.short]

PlanKept(plan, F, f, L) ==
  /\ IsPlan(plan) /\ Tears(F, plan.calls, L) /\ f = FileAfter(F, plan.calls)
  /\ Kept(f, plan.ranges, plan.tail, L, plan.short) /\ plan.short \in BOOLEAN

\* ... that holds the content D, if the file had bytes of a number of size before.
PlanHolds(plan, f, D, size) ==
  /\ Holds(f, plan.ranges, D) /\ plan.appended \in Nat
  /\ Counted(plan.ranges, plan.tail, size + plan.appended)

\* What one part of a write makes of a plan, where nothing was lost.
GoesOn(plan, f, next, g, o, k, b) ==
  ~next.short =>
    /\ ~plan.short
    /\ \A D, size : size \in Nat /\ PlanHolds(plan, f, D, size) =>
                      PlanHolds(next, g, Overlay(D, o, k, b), size)

Appends(plan, F, f, next, o, len, b, L) ==
  \E g : /\ PlanKept(next, F, g, L) /\ GoesOn(plan, f, next, g, o, len, b)
         /\ Puts(next.ranges, plan.ranges, o, RangeOf(o, len, Run(b, len), plan.tail + 2))
         /\ next.done = plan.done /\ next.appended = plan.appended + len

LEMMA EmplacedPuts ==
  ASSUME NEW R, NEW L, NEW r, NEW o, IsRanges(R, L), r.offset = o, o \notin DOMAIN R
  PROVE  Puts(Emplaced(R, r), R, o, r)
<1>1. R = [p \in DOMAIN R |-> R[p]]
  BY DEF IsRanges
<1>2. PICK S : S = Emplaced(R, r)
  OBVIOUS
<1>3. S = [x \in DOMAIN R \cup {o} |-> IF x \in DOMAIN R THEN R[x] ELSE r]
  BY <1>2 DEF Emplaced
<1>4. Puts(S, R, o, r)
  BY <1>1, <1>3 DEF Puts
<1> QED BY <1>2, <1>4

LEMMA NotFree ==
  ASSUME NEW R, NEW L, NEW o, NEW len, IsRanges(R, L), o \in Nat, len \in Nat, len > 0,
         Free(R, o, o + len)
  PROVE  o \notin DOMAIN R
<1>1. ASSUME o \in DOMAIN R
      PROVE  FALSE
  <2>1. R[o].length \in Nat /\ R[o].length > 0
    BY <1>1, RangeFacts
  <2>2. o + R[o].length <= o \/ o + len <= o
    BY <1>1 DEF Free
  <2> QED BY <2>1, <2>2
<1> QED BY <1>1

LEMMA AppendPlan ==
  ASSUME NEW plan, NEW F, NEW f, NEW L, NEW o, NEW len, NEW b, NEW data, NEW lost,
         NEW next, PlanKept(plan, F, f, L), o \in Nat, len \in Nat, len > 0,
         Free(plan.ranges, o, o + len), LawfulCrc(data, o, len, L), data = Run(b, len),
         next = AppendSparseRange(plan, o, data, lost)
  PROVE  Appends(plan, F, f, next, o, len, b, L)
<1>1. PICK calls, R, T, done, app, short :
        /\ calls = plan.calls /\ R = plan.ranges /\ T = plan.tail /\ done = plan.done
        /\ app = plan.appended /\ short = plan.short
  OBVIOUS
<1>2. /\ plan = [calls |-> calls, ranges |-> R, tail |-> T, done |-> done,
                 appended |-> app, short |-> short]
      /\ Tears(F, calls, L) /\ f = FileAfter(F, calls) /\ Kept(f, R, T, L, short)
      /\ short \in BOOLEAN
  BY <1>1 DEF PlanKept, IsPlan
<1>3. /\ IsRanges(R, L) /\ T \in Nat /\ T >= 1 /\ IsFile(f) /\ IsFile(calls)
      /\ ~short => Exact(f, R, T)
  BY <1>2 DEF Kept, Sound, Placed, Tears, OfOneFile
<1>4. PICK at, N : at = T + 2 /\ N = Len(f)
  OBVIOUS
<1>5. at \in Nat /\ N \in Nat /\ Long(f, N)
  BY <1>3, <1>4, FileFacts DEF Long
<1>6. Long(data, len) /\ \A i \in 1 .. len : data[i] = Byte(b)
  BY RunFacts DEF IsRun
<1>7. Len(data) = len
  BY <1>6 DEF Long
<1>8. PICK isCut \in BOOLEAN : isCut <=> o = lost /\ len > 1
  OBVIOUS
<1>9. PICK k : k = IF isCut THEN len - 1 ELSE len
  OBVIOUS
<1>10. k \in Nat /\ k <= len /\ (isCut => len > 1)
  BY <1>8, <1>9
<1>11. PICK written : written = IF isCut THEN Front(data) ELSE data
  OBVIOUS
<1>12. written = Run(b, k)
  <2>1. CASE isCut
    <3>1. len = k + 1
      BY <1>9, <1>10, <2>1
    <3>2. Front(data) = Run(b, k)
      BY <1>10, <3>1, RunFront
    <3> QED BY <1>11, <2>1, <3>2
  <2>2. CASE ~isCut
    BY <1>9, <1>11, <2>2
  <2> QED BY <2>1, <2>2
<1>13. Len(written) = k
  BY <1>10, <1>12, RunFacts DEF IsRun, Long
<1>14. PICK r, S, U, cut : /\ r = RangeOf(o, len, data, at) /\ S = Emplaced(R, r)
                           /\ U = at + k /\ cut = (short \/ isCut)
  OBVIOUS
<1>15. PICK h, calls1, calls2 : /\ h = RangeHeader(r) /\ calls1 = Append(calls, Write(T, h))
                                /\ calls2 = Append(calls1, Write(at, written))
  OBVIOUS
<1>16. next = [calls |-> calls2, ranges |-> S, tail |-> U, done |-> done,
               appended |-> app + len, short |-> cut]
  <2>1. (o = lost /\ Len(data) > 1) = isCut
    BY <1>7, <1>8
  <2>2. [offset |-> o, length |-> Len(data), crc |-> data, at |-> plan.tail + 2] = r
    BY <1>1, <1>4, <1>7, <1>14 DEF RangeOf
  <2>3. r.at = at
    BY <1>14 DEF RangeOf
  <2>4. calls \o <<Write(T, h), Write(at, written)>> = calls2
    BY <1>3, <1>15, AppendTwo
  <2>5. next = [plan EXCEPT !.calls = @ \o <<Write(plan.tail, RangeHeader(r)), Write(r.at, written)>>,
                            !.ranges = Emplaced(@, r), !.tail = r.at + Len(written),
                            !.appended = @ + Len(data), !.short = @ \/ isCut]
    BY <1>11, <2>1, <2>2 DEF AppendSparseRange, RangeHeaderSize
  <2>6. next = [plan EXCEPT !.calls = calls2, !.ranges = S, !.tail = U,
                            !.appended = app + len, !.short = cut]
    BY <1>1, <1>7, <1>13, <1>14, <1>15, <2>3, <2>4, <2>5
  <2> QED BY ONLY <1>2, <2>6
<1>17. /\ next.calls = calls2 /\ next.ranges = S /\ next.tail = U /\ next.done = done
       /\ next.appended = app + len /\ next.short = cut
  BY ONLY <1>16
<1>18. IsPlan(next)
  BY <1>16, <1>17 DEF IsPlan
<1>19. o \notin DOMAIN R
  BY <1>1, <1>3, NotFree
<1>20. Puts(S, R, o, r)
  <2>1. r.offset = o
    BY <1>14 DEF RangeOf
  <2> QED BY <1>3, <1>14, <1>19, <2>1, EmplacedPuts
<1>21. Room(R, T, o, len, at, U, short, cut)
  <2>1. U \in Nat /\ (U = at + len \/ (U = at + len - 1 /\ len > 1 /\ cut))
    BY <1>5, <1>9, <1>10, <1>14
  <2>2. Free(R, o, o + len)
    BY <1>1
  <2>3. short => cut
    BY <1>14
  <2> QED BY <1>3, <1>4, <2>1, <2>2, <2>3 DEF Room
<1>22. PICK f1 : f1 = WriteAt(f, T, h)
  OBVIOUS
<1>23. Called(F, calls, T, h, L) /\ Kept(f1, S, U, L, cut)
  <2>1. LawfulCrc(data, o, len, L)
    OBVIOUS
  <2>2. r = RangeOf(o, len, data, at)
    BY <1>14
  <2>3. Called(F, calls, T, h, L) /\ Kept(WriteAt(f, T, h), S, U, L, cut)
    BY ONLY <1>2, <1>15, <1>20, <1>21, <2>1, <2>2, AppendCalled
  <2> QED BY <1>22, <2>3
<1>24. Tears(F, calls1, L) /\ f1 = FileAfter(F, calls1)
  BY <1>2, <1>15, <1>22, <1>23 DEF Called
<1>25. /\ o \in DOMAIN S /\ S[o].at = at /\ End(S[o]) = at + len
  <2>1. o \in DOMAIN S /\ S[o] = r
    BY <1>20 DEF Puts
  <2>2. r.at = at /\ r.length = len
    BY <1>14 DEF RangeOf
  <2>3. End(r) = at + len
    BY <2>2 DEF End
  <2> QED BY <2>1, <2>2, <2>3
<1>26. PICK f2 : f2 = WriteAt(f1, at, written)
  OBVIOUS
<1>27. Called(F, calls1, at, written, L) /\ Kept(f2, S, U, L, cut)
  <2>1. S[o].at <= at /\ at + k <= End(S[o])
    BY <1>5, <1>10, <1>25
  <2>2. o \in DOMAIN S /\ at \in Nat /\ k \in Nat /\ Kept(f1, S, U, L, cut)
    BY <1>5, <1>10, <1>23, <1>25
  <2>3. Called(F, calls1, at, written, L) /\ Kept(WriteAt(f1, at, written), S, U, L, cut)
    BY ONLY <1>12, <1>24, <2>1, <2>2, DataCalled
  <2> QED BY <1>26, <2>3
<1>28. Tears(F, calls2, L) /\ f2 = FileAfter(F, calls2)
  BY <1>15, <1>24, <1>26, <1>27 DEF Called
<1>29. PlanKept(next, F, f2, L)
  <2>1. cut \in BOOLEAN
    BY <1>14
  <2> QED BY <1>17, <1>18, <1>27, <1>28, <2>1 DEF PlanKept
<1>30. ASSUME ~cut
       PROVE  ~short /\ \A D, size : size \in Nat /\ PlanHolds(plan, f, D, size) =>
                                       PlanHolds(next, f2, Overlay(D, o, len, b), size)
  <2>1. ~short /\ ~isCut /\ k = len
    BY <1>2, <1>9, <1>14, <1>30
  <2>2. Exact(f, R, T)
    BY <1>3, <2>1
  <2>3. Long(h, 2)
    BY <1>15, HeaderFacts DEF IsHeader
  <2>4. PICK M1 : Overlays(f1, f, T, h, 2, N, M1)
    BY <1>3, <1>5, <1>22, <2>3, WriteAtIs
  <2>5. /\ Long(f1, M1) /\ N <= M1
        /\ \A i \in 1 .. N : i <= T \/ i > T + 2 => f1[i] = f[i]
    BY <2>4 DEF Overlays
  <2>6. written = data /\ Long(written, len)
    BY <1>6, <1>12, <2>1
  <2>7. PICK M2 : Overlays(f2, f1, at, written, len, M1, M2)
    BY <1>5, <1>26, <2>5, <2>6, WriteAtIs
  <2>8. /\ Long(f2, M2) /\ M1 <= M2 /\ (len > 0 => at + len <= M2)
        /\ \A i \in 1 .. M2 : i > at /\ i <= at + len => f2[i] = written[i - at]
        /\ \A i \in 1 .. M1 : i <= at \/ i > at + len => f2[i] = f1[i]
    BY <2>7 DEF Overlays
  <2>9. M1 \in Nat /\ M2 \in Nat
    BY <2>5, <2>8 DEF Long
  <2>10. ASSUME NEW i \in 1 .. T, i <= N
         PROVE  f2[i] = f[i]
    <3>1. i \in 1 .. N /\ i <= T /\ i \in 1 .. M1 /\ i <= at
      BY ONLY <1>3, <1>4, <1>5, <2>5, <2>9, <2>10
    <3> QED BY <2>5, <2>8, <3>1
  <2>11. ASSUME NEW i \in 1 .. len
         PROVE  f2[at + i] = Byte(b)
    <3>1. at + i \in 1 .. M2 /\ at + i > at /\ at + i <= at + len /\ (at + i) - at = i
      BY ONLY <1>5, <2>8, <2>9, <2>11, len \in Nat, len > 0
    <3>2. f2[at + i] = written[i]
      BY <2>8, <3>1
    <3> QED BY <1>6, <2>6, <3>2
  <2>12. Appended(f2, f, T, at, len, b, N, M2)
    BY <2>8, <2>10, <2>11 DEF Appended
  <2>13. ASSUME NEW D, NEW size, size \in Nat, PlanHolds(plan, f, D, size)
         PROVE  PlanHolds(next, f2, Overlay(D, o, len, b), size)
    <3>1. Holds(f, R, D) /\ app \in Nat /\ Counted(R, T, size + app)
      BY <1>1, <2>13 DEF PlanHolds
    <3>2. PICK E, end : E = Overlay(D, o, len, b) /\ end = o + len
      OBVIOUS
    <3>3. Puts(S, R, o, RangeOf(o, len, Run(b, len), at)) /\ Free(R, o, end)
      BY <1>1, <1>14, <1>20, <3>2
    <3>4. o \in Nat /\ len \in Nat /\ len > 0
      OBVIOUS
    <3>5. Holds(f2, S, E)
      BY ONLY <1>3, <1>5, <1>21, <2>2, <2>12, <3>1, <3>2, <3>3, HoldsAppended
    <3>6. PICK old, more : old = size + app /\ more = old + len
      OBVIOUS
    <3>7. U = T + 2 + len
      BY <1>3, <1>4, <1>14, <2>1
    <3>8. Counted(S, U, more)
      BY ONLY <1>3, <1>19, <1>20, <3>1, <3>4, <3>6, <3>7, CountedMore
    <3>9. more = size + (app + len) /\ app + len \in Nat
      BY <2>13, <3>1, <3>6
    <3> QED BY <1>17, <3>2, <3>5, <3>8, <3>9 DEF PlanHolds
  <2> QED BY <2>1, <2>13
<1>31. GoesOn(plan, f, next, f2, o, len, b)
  BY <1>1, <1>17, <1>30 DEF GoesOn
<1>32. Puts(next.ranges, plan.ranges, o, RangeOf(o, len, Run(b, len), plan.tail + 2))
  BY <1>1, <1>4, <1>14, <1>17, <1>20
<1>33. next.done = plan.done /\ next.appended = plan.appended + len
  BY <1>1, <1>17
<1> QED BY <1>29, <1>31, <1>32, <1>33 DEF Appends

\* k bytes are written at c, in the range of len cells at o, with the data as checksum
\* if that is all of it.
Rewrites(plan, F, f, next, o, len, at, k, c, b, L) ==
  \E g, crc :
    /\ PlanKept(next, F, g, L) /\ GoesOn(plan, f, next, g, c, k, b)
    /\ Puts(next.ranges, plan.ranges, o, RangeOf(o, len, crc, at))
    /\ next.done = plan.done /\ next.appended = plan.appended

LEMMA RunIsSome ==
  ASSUME NEW b, NEW k, k \in Nat, k > 0
  PROVE  Run(b, k) # <<>>
<1>1. IsFile(Run(b, k)) /\ Len(Run(b, k)) = k
  BY RunFacts DEF IsRun, Long
<1> QED BY <1>1, FileFacts

LEMMA RewritePlan ==
  ASSUME NEW plan, NEW F, NEW f, NEW L, NEW o, NEW len, NEW at, NEW k, NEW c, NEW b,
         NEW data, NEW inRange, NEW next, PlanKept(plan, F, f, L),
         IsOf(plan.ranges, o, len, at), inRange \in Nat, k \in Nat, k > 0,
         inRange + k <= len, c = o + inRange, data = Run(b, k),
         k = len => LawfulCrc(data, o, len, L),
         next = WriteSparseRange(plan, plan.ranges[o], inRange, data)
  PROVE  Rewrites(plan, F, f, next, o, len, at, k, c, b, L)
<1>1. PICK calls, R, T, done, app, short :
        /\ calls = plan.calls /\ R = plan.ranges /\ T = plan.tail /\ done = plan.done
        /\ app = plan.appended /\ short = plan.short
  OBVIOUS
<1>2. /\ plan = [calls |-> calls, ranges |-> R, tail |-> T, done |-> done,
                 appended |-> app, short |-> short]
      /\ Tears(F, calls, L) /\ f = FileAfter(F, calls) /\ Kept(f, R, T, L, short)
      /\ short \in BOOLEAN
  BY <1>1 DEF PlanKept, IsPlan
<1>3. /\ IsRanges(R, L) /\ Disjoint(R) /\ T \in Nat /\ IsFile(f) /\ IsFile(calls)
      /\ (~short => Exact(f, R, T)) /\ Whole(f, R)
  BY <1>2 DEF Kept, Sound, Placed, Tears, OfOneFile
<1>4. PICK r, b0, N, a : /\ r = R[o] /\ b0 = Begin(R[o]) /\ N = Len(f) /\ a = at + inRange
  OBVIOUS
<1>5. o \in DOMAIN R /\ len = R[o].length /\ at = R[o].at
  BY <1>1 DEF IsOf
<1>6. /\ b0 \in Nat /\ b0 >= 1 /\ at = b0 + 2 /\ End(R[o]) = at + len
      /\ o \in Nat /\ len \in Nat /\ len > 0 /\ at \in Nat
  BY <1>3, <1>4, <1>5, SpanFacts, RangeFacts
<1>7. N \in Nat /\ Long(f, N)
  BY <1>3, <1>4, FileFacts DEF Long
<1>8. a \in Nat /\ at <= a /\ a + k <= at + len /\ c \in Nat /\ c + at = o + a /\ b0 = at - 2
  <2>1. a = at + inRange /\ b0 \in Nat /\ at = b0 + 2 /\ o \in Nat /\ len \in Nat /\ at \in Nat
    BY <1>4, <1>6
  <2> QED BY ONLY <2>1, inRange \in Nat, k \in Nat, inRange + k <= len, c = o + inRange
<1>9. /\ r = RangeOf(o, len, r.crc, at) /\ r.offset = o /\ r.length = len /\ r.at = at
      /\ LawfulCrc(r.crc, o, len, L)
  <2>1. IsRange(r, o, L) /\ r.length = len /\ r.at = at
    BY <1>3, <1>4, <1>5 DEF IsRanges
  <2> QED BY <2>1 DEF IsRange, RangeOf
<1>10. Len(data) = k /\ data # <<>>
  BY RunFacts, RunIsSome DEF IsRun, Long
<1>11. PICK crc : crc = IF k = len THEN data ELSE <<>>
  OBVIOUS
<1>12. LawfulCrc(crc, o, len, L)
  BY <1>11 DEF LawfulCrc
<1>13. PICK new : new = RangeOf(o, len, crc, at)
  OBVIOUS
<1>14. [r EXCEPT !.crc = crc] = new
  <2>1. PICK x : x = r.crc
    OBVIOUS
  <2>2. r = [offset |-> o, length |-> len, crc |-> x, at |-> at]
    BY <1>9, <2>1 DEF RangeOf
  <2>3. [r EXCEPT !.crc = crc] = [offset |-> o, length |-> len, crc |-> crc, at |-> at]
    BY ONLY <2>2
  <2> QED BY <1>13, <2>3 DEF RangeOf
<1>15. PICK S : S = [R EXCEPT ![o] = new]
  OBVIOUS
<1>16. Puts(S, R, o, new)
  <2>1. R = [p \in DOMAIN R |-> R[p]]
    BY <1>3 DEF IsRanges
  <2> QED BY <1>5, <1>15, <2>1 DEF Puts
<1>17. PICK h, w, calls1, calls2 :
         /\ h = RangeHeader(new) /\ w = Write(a, data)
         /\ calls1 = IF crc = r.crc THEN calls ELSE Append(calls, Write(b0, h))
         /\ calls2 = Append(calls1, w)
  OBVIOUS
<1>18. next = [calls |-> calls2, ranges |-> S, tail |-> T, done |-> done,
               appended |-> app, short |-> short]
  <2>1. PICK hs : hs = IF crc = r.crc THEN <<>> ELSE <<Write(b0, h)>>
    OBVIOUS
  <2>2. calls \o hs = calls1
    BY <1>3, <1>17, <2>1, AppendFacts
  <2>3. IsFile(calls1)
    BY <1>3, <1>17, AppendFacts
  <2>4. calls1 \o <<w>> = calls2
    BY <1>17, <2>3, AppendFacts
  <2>5. (IF Len(data) = r.length THEN data ELSE <<>>) = crc
    BY <1>9, <1>10, <1>11
  <2>6. next = [plan EXCEPT !.calls = (@ \o (IF crc = r.crc THEN <<>>
                                             ELSE <<Write(r.at - 2, RangeHeader(new))>>))
                                      \o <<Write(r.at + inRange, data)>>,
                            !.ranges[r.offset] = new]
    BY <1>1, <1>4, <1>14, <2>5 DEF WriteSparseRange, RangeHeaderSize
  <2>7. Write(r.at - 2, RangeHeader(new)) = Write(b0, h) /\ Write(r.at + inRange, data) = w
    BY <1>4, <1>8, <1>9, <1>17
  <2>8. next = [plan EXCEPT !.calls = (@ \o hs) \o <<w>>, !.ranges[o] = new]
    BY ONLY <1>9, <2>1, <2>6, <2>7
  <2>9. calls = plan.calls /\ R = plan.ranges
    BY <1>1
  <2>10. next = [plan EXCEPT !.calls = (calls \o hs) \o <<w>>, !.ranges = [R EXCEPT ![o] = new]]
    BY ONLY <1>2, <2>8, <2>9
  <2>11. next = [plan EXCEPT !.calls = calls2, !.ranges = S]
    BY <1>15, <2>2, <2>4, <2>10
  <2> QED BY ONLY <1>2, <2>11
<1>19. /\ next.calls = calls2 /\ next.ranges = S /\ next.tail = T /\ next.done = done
       /\ next.appended = app /\ next.short = short
  BY ONLY <1>18
<1>20. IsPlan(next)
  BY <1>18, <1>19 DEF IsPlan
\* The header, if it changes.
<1>21. PICK f1 : f1 = IF crc = r.crc THEN f ELSE WriteAt(f, b0, h)
  OBVIOUS
<1>22. Tears(F, calls1, L) /\ f1 = FileAfter(F, calls1) /\ Kept(f1, S, T, L, short)
  <2>1. CASE crc = r.crc
    <3>1. S = R
      <4>1. new = r
        BY <1>9, <1>13, <2>1
      <4>2. R = [p \in DOMAIN R |-> R[p]]
        BY <1>3 DEF IsRanges
      <4> QED BY <1>4, <1>5, <1>15, <4>1, <4>2
    <3> QED BY <1>2, <1>17, <1>21, <2>1, <3>1
  <2>2. CASE crc # r.crc
    <3>1. Called(F, calls, b0, h, L) /\ Kept(WriteAt(f, b0, h), S, T, L, short)
      BY ONLY <1>2, <1>4, <1>5, <1>12, <1>13, <1>16, <1>17, HeaderCalled
    <3> QED BY <1>2, <1>17, <1>21, <2>2, <3>1 DEF Called
  <2> QED BY <2>1, <2>2
<1>23. /\ o \in DOMAIN S /\ S[o].at = at /\ End(S[o]) = at + len
  <2>1. o \in DOMAIN S /\ S[o] = new
    BY <1>16 DEF Puts
  <2>2. new.at = at /\ new.length = len
    BY <1>13 DEF RangeOf
  <2>3. End(new) = at + len
    BY <2>2 DEF End
  <2> QED BY <2>1, <2>2, <2>3
<1>24. PICK g : g = WriteAt(f1, a, data)
  OBVIOUS
<1>25. Called(F, calls1, a, data, L) /\ Kept(g, S, T, L, short)
  <2>1. /\ o \in DOMAIN S /\ S[o].at <= a /\ a + k <= End(S[o])
        /\ a \in Nat /\ k \in Nat /\ data = Run(b, k)
    BY <1>8, <1>23
  <2>2. Called(F, calls1, a, data, L) /\ Kept(WriteAt(f1, a, data), S, T, L, short)
    BY ONLY <1>22, <2>1, DataCalled
  <2> QED BY <1>24, <2>2
<1>26. PlanKept(next, F, g, L)
  <2>1. Tears(F, calls2, L) /\ g = FileAfter(F, calls2)
    BY <1>17, <1>22, <1>24, <1>25 DEF Called
  <2> QED BY <1>2, <1>19, <1>20, <1>25, <2>1 DEF PlanKept
<1>27. \E M1 : /\ Long(f1, M1) /\ N <= M1
               /\ \A i \in 1 .. N : i <= b0 \/ i > at => f1[i] = f[i]
  <2>1. CASE crc = r.crc
    BY <1>7, <1>21, <2>1
  <2>2. CASE crc # r.crc
    <3>1. Long(h, 2)
      BY <1>17, HeaderFacts DEF IsHeader
    <3>2. PICK M1 : Overlays(WriteAt(f, b0, h), f, b0, h, 2, N, M1)
      BY <1>6, <1>7, <3>1, WriteAtIs
    <3>3. /\ Long(f1, M1) /\ N <= M1
          /\ \A i \in 1 .. N : i <= b0 \/ i > b0 + 2 => f1[i] = f[i]
      BY <1>21, <2>2, <3>2 DEF Overlays
    <3> QED BY <1>6, <3>3
  <2> QED BY <2>1, <2>2
<1>28. PICK M1 : /\ Long(f1, M1) /\ N <= M1
                 /\ \A i \in 1 .. N : i <= b0 \/ i > at => f1[i] = f[i]
  BY <1>27
<1>29. \E M : Rewritten(g, f, b0, at, a, k, b, N, M)
  <2>1. Long(data, k) /\ \A i \in 1 .. k : data[i] = Byte(b)
    BY RunFacts DEF IsRun
  <2>2. PICK M : Overlays(g, f1, a, data, k, M1, M)
    BY <1>8, <1>24, <1>28, <2>1, WriteAtIs
  <2>3. /\ Long(g, M) /\ M1 <= M
        /\ \A i \in 1 .. M : i > a /\ i <= a + k => g[i] = data[i - a]
        /\ \A i \in 1 .. M1 : i <= a \/ i > a + k => g[i] = f1[i]
    BY <2>2 DEF Overlays
  <2>4. M \in Nat /\ M1 \in Nat
    BY <1>28, <2>3 DEF Long
  <2>5. N <= M
    BY ONLY <1>7, <1>28, <2>3, <2>4
  <2>6. ASSUME NEW i \in 1 .. M, i > a, i <= a + k
        PROVE  g[i] = Byte(b)
    <3>1. i - a \in 1 .. k
      BY ONLY <1>8, <2>4, <2>6, k \in Nat
    <3> QED BY <2>1, <2>3, <2>6, <3>1
  <2>7. ASSUME NEW i \in 1 .. N, i <= b0 \/ i > at, i <= a \/ i > a + k
        PROVE  g[i] = f[i]
    <3>1. i \in 1 .. M1
      BY ONLY <1>7, <1>28, <2>4, <2>7
    <3> QED BY <1>28, <2>3, <2>7, <3>1
  <2> QED BY <2>3, <2>5, <2>6, <2>7 DEF Rewritten
<1>30. ASSUME ~short, NEW D, NEW size, size \in Nat, PlanHolds(plan, f, D, size)
       PROVE  PlanHolds(next, g, Overlay(D, c, k, b), size)
  <2>1. Holds(f, R, D) /\ app \in Nat /\ Counted(R, T, size + app)
    BY <1>1, <1>30 DEF PlanHolds
  <2>2. PICK E, M : E = Overlay(D, c, k, b) /\ Rewritten(g, f, b0, at, a, k, b, N, M)
    BY <1>29
  <2>3. Exact(f, R, T)
    BY <1>3, <1>30
  <2>4. Inside(o, len, at, a, k, c) /\ IsOf(R, o, len, at)
    BY <1>5, <1>8 DEF Inside, IsOf
  <2>5. OfAll(crc, k, len, b)
    BY <1>11 DEF OfAll
  <2>6. Puts(S, R, o, RangeOf(o, len, crc, at)) /\ b0 = Begin(R[o]) /\ IsRanges(R, L)
        /\ Disjoint(R) /\ Long(f, N)
    BY <1>3, <1>4, <1>7, <1>13, <1>16
  <2>7. Holds(g, S, E)
    BY ONLY <2>1, <2>2, <2>3, <2>4, <2>5, <2>6, HoldsWritten
  <2>8. PICK old : old = size + app
    OBVIOUS
  <2>9. Counted(S, T, old)
    BY <1>5, <1>16, <2>1, <2>8, CountedStill
  <2> QED BY <1>19, <2>1, <2>2, <2>7, <2>8, <2>9 DEF PlanHolds
<1>31. GoesOn(plan, f, next, g, c, k, b)
  BY <1>1, <1>19, <1>30 DEF GoesOn
<1>32. Puts(next.ranges, plan.ranges, o, RangeOf(o, len, crc, at))
  BY <1>1, <1>13, <1>16, <1>19
<1>33. next.done = plan.done /\ next.appended = plan.appended
  BY <1>1, <1>19
<1> QED BY <1>26, <1>31, <1>32, <1>33 DEF Rewrites

\* k cells of n, those behind the first a.
PartIs(n, a, k, s, m) ==
  n \in Nat /\ a \in Nat /\ k \in Nat /\ s = a + 1 /\ m = a + k /\ m <= n

LEMMA RunCut ==
  ASSUME NEW b, NEW n, NEW a, NEW k, NEW s, NEW m, PartIs(n, a, k, s, m)
  PROVE  SubSeq(Run(b, n), s, m) = Run(b, k)
<1>0. n \in Nat /\ a \in Nat /\ k \in Nat /\ s = a + 1 /\ m = a + k /\ a + k <= n
  BY DEF PartIs
<1>1. Cells(Run(b, n), a, k) = Run(b, k)
  BY <1>0, RunPart
<1> QED BY <1>0, <1>1 DEF Cells

\* One part of a write after another.
LEMMA GoesOnMore ==
  ASSUME NEW plan, NEW f, NEW next, NEW g, NEW last, NEW h, NEW o, NEW d, NEW c, NEW k,
         NEW m, NEW b, Follows(o, d, c, k, m), GoesOn(plan, f, next, g, o, d, b),
         GoesOn(next, g, last, h, c, k, b)
  PROVE  GoesOn(plan, f, last, h, o, m, b)
<1>1. ASSUME ~last.short
      PROVE  ~plan.short /\ ~next.short
  BY <1>1 DEF GoesOn
<1>2. ASSUME ~last.short, NEW D, NEW size, size \in Nat, PlanHolds(plan, f, D, size)
      PROVE  PlanHolds(last, h, Overlay(D, o, m, b), size)
  <2>1. PICK E, G : E = Overlay(D, o, d, b) /\ G = Overlay(E, c, k, b)
    OBVIOUS
  <2>2. PlanHolds(next, g, E, size)
    BY <1>1, <1>2, <2>1 DEF GoesOn
  <2>3. PlanHolds(last, h, G, size)
    BY <1>2, <2>1, <2>2 DEF GoesOn
  <2>4. G = Overlay(D, o, m, b)
    BY ONLY <2>1, OverlayMore, Follows(o, d, c, k, m)
  <2> QED BY <2>3, <2>4
<1> QED BY <1>1, <1>2 DEF GoesOn

LEMMA GoesOnNone ==
  ASSUME NEW plan, NEW f, NEW o, NEW b, o \in Nat
  PROVE  GoesOn(plan, f, plan, f, o, 0, b)
<1>1. ASSUME NEW D, NEW size, PlanHolds(plan, f, D, size)
      PROVE  PlanHolds(plan, f, Overlay(D, o, 0, b), size)
  <2>1. D = [x \in DOMAIN D |-> D[x]]
    BY <1>1 DEF PlanHolds, Holds
  <2>2. Overlay(D, o, 0, b) = D
    BY <2>1, OverlayNone
  <2> QED BY <1>1, <2>2
<1> QED BY <1>1 DEF GoesOn

\* A plan that has got to m.
DoneTo(plan, m) == [plan EXCEPT !.done = m]

LEMMA DoneToFacts ==
  ASSUME NEW plan, NEW F, NEW f, NEW L, NEW m, NEW next, PlanKept(plan, F, f, L),
         next = DoneTo(plan, m)
  PROVE  /\ PlanKept(next, F, f, L) /\ next.done = m /\ next.ranges = plan.ranges
         /\ next.appended = plan.appended
         /\ \A last, g, o, k, b : GoesOn(last, g, plan, f, o, k, b) => GoesOn(last, g, next, f, o, k, b)
<1>1. PICK calls, R, T, done, app, short :
        /\ calls = plan.calls /\ R = plan.ranges /\ T = plan.tail /\ done = plan.done
        /\ app = plan.appended /\ short = plan.short
  OBVIOUS
<1>2. plan = [calls |-> calls, ranges |-> R, tail |-> T, done |-> done,
              appended |-> app, short |-> short]
  BY <1>1 DEF PlanKept, IsPlan
<1>3. next = [plan EXCEPT !.done = m]
  BY DEF DoneTo
<1>4. next = [calls |-> calls, ranges |-> R, tail |-> T, done |-> m,
              appended |-> app, short |-> short]
  BY ONLY <1>2, <1>3
<1>5. /\ next.calls = calls /\ next.ranges = R /\ next.tail = T /\ next.done = m
      /\ next.appended = app /\ next.short = short
  BY ONLY <1>4
<1>6. IsPlan(next)
  BY <1>4, <1>5 DEF IsPlan
<1>7. PlanKept(next, F, f, L)
  BY <1>1, <1>5, <1>6 DEF PlanKept
<1>8. \A D, size : PlanHolds(plan, f, D, size) <=> PlanHolds(next, f, D, size)
  BY <1>1, <1>5 DEF PlanHolds
<1>9. ASSUME NEW last, NEW g, NEW o, NEW k, NEW b, GoesOn(last, g, plan, f, o, k, b)
      PROVE  GoesOn(last, g, next, f, o, k, b)
  <2>1. next.short = plan.short
    BY <1>1, <1>5
  <2> QED BY <1>8, <1>9, <2>1 DEF GoesOn
<1> QED BY <1>1, <1>5, <1>7, <1>9

\* What is written of the len bytes at offset in the range from o to end, when the
\* write has got to p: a gap up to c, then k bytes.
WritesIn(offset, len, d, p, o, l, end, c, gap, inRange, k, m) ==
  /\ offset \in Nat /\ len \in Nat /\ d \in Nat /\ o \in Nat /\ l \in Nat /\ end \in Nat
  /\ c \in Nat /\ gap \in Nat /\ inRange \in Nat /\ k \in Nat /\ d < len /\ p = offset + d
  /\ end = o + l /\ (c = o \/ c = offset) /\ o <= c /\ offset <= c /\ p <= c /\ c < end
  /\ c < offset + len /\ p + gap = c /\ o + inRange = c /\ k > 0
  /\ (c + k = end \/ c + k = offset + len) /\ c + k <= end /\ c + k <= offset + len
  /\ m = d + gap + k

LEMMA WritesInThere ==
  ASSUME NEW offset, NEW len, NEW d, NEW p, NEW o, NEW l, NEW end, NEW c, offset \in Nat,
         len \in Nat, d \in Nat, o \in Nat, l \in Nat, d < len, p = offset + d, end = o + l,
         Larger(o, offset) = c, p <= c, c < end, o < offset + len
  PROVE  \E gap, inRange, k, m : WritesIn(offset, len, d, p, o, l, end, c, gap, inRange, k, m)
<1>1. (c = o \/ c = offset) /\ o <= c /\ offset <= c /\ c \in Nat
  BY DEF Larger
<1>2. PICK gap, inRange, k, m : /\ gap = c - p /\ inRange = c - o /\ m = d + gap + k
                                /\ k = IF end <= offset + len THEN end - c ELSE offset + len - c
  OBVIOUS
<1>3. /\ gap \in Nat /\ inRange \in Nat /\ k \in Nat /\ end \in Nat /\ c < offset + len
      /\ p + gap = c /\ o + inRange = c /\ k > 0
      /\ (c + k = end \/ c + k = offset + len) /\ c + k <= end /\ c + k <= offset + len
  BY ONLY <1>1, <1>2, offset \in Nat, len \in Nat, d \in Nat, o \in Nat, l \in Nat, d < len,
          p = offset + d, end = o + l, p <= c, c < end, o < offset + len
<1>4. WritesIn(offset, len, d, p, o, l, end, c, gap, inRange, k, m)
  BY <1>1, <1>2, <1>3 DEF WritesIn
<1> QED BY <1>4

\* What is appended to fill a gap.
Filled(plan, p, gap, b, lost) ==
  IF gap = 0 THEN plan ELSE AppendSparseRange(plan, p, Run(b, gap), lost)

LEMMA WriteStepIs ==
  ASSUME NEW plan, NEW r, NEW offset, NEW len, NEW d, NEW p, NEW o, NEW l, NEW end, NEW c,
         NEW gap, NEW inRange, NEW k, NEW b, NEW lost, NEW m, d = plan.done, r.offset = o,
         r.length = l, WritesIn(offset, len, d, p, o, l, end, c, gap, inRange, k, m)
  PROVE  WriteStep(plan, r, offset, Run(b, len), lost)
           = DoneTo(WriteSparseRange(Filled(plan, p, gap, b, lost), r, inRange, Run(b, k)), m)
<1>1. /\ offset \in Nat /\ len \in Nat /\ d \in Nat /\ o \in Nat /\ l \in Nat /\ end \in Nat
      /\ c \in Nat /\ gap \in Nat /\ inRange \in Nat /\ k \in Nat /\ d < len /\ p = offset + d
      /\ end = o + l /\ (c = o \/ c = offset) /\ o <= c /\ offset <= c /\ p <= c /\ c < end
      /\ c < offset + len /\ p + gap = c /\ o + inRange = c /\ k > 0
      /\ (c + k = end \/ c + k = offset + len) /\ c + k <= end /\ c + k <= offset + len
      /\ m = d + gap + k
  BY DEF WritesIn
<1>2. PICK data : data = Run(b, len)
  OBVIOUS
<1>3. Len(data) = len
  BY <1>1, <1>2, RunFacts, SMTT(30) DEF IsRun, Long
<1>4. Larger(0, o - p) = gap
  BY ONLY <1>1 DEF Larger
<1>5. Larger(0, offset - o) = inRange
  BY ONLY <1>1 DEF Larger
<1>6. Smaller(len - d - gap, l - inRange) = k
  BY ONLY <1>1 DEF Smaller
<1>7. ~ (d >= len \/ o >= offset + len)
  BY ONLY <1>1
<1>8. SubSeq(data, d + 1, d + gap) = Run(b, gap)
  <2>1. PICK s, x : s = d + 1 /\ x = d + gap
    OBVIOUS
  <2>2. PartIs(len, d, gap, s, x)
    BY ONLY <1>1, <2>1 DEF PartIs
  <2>3. SubSeq(Run(b, len), s, x) = Run(b, gap)
    BY ONLY <2>2, RunCut
  <2> QED BY ONLY <1>2, <2>1, <2>3
<1>9. SubSeq(data, (d + gap) + 1, (d + gap) + k) = Run(b, k)
  <2>1. PICK x, s, y : x = d + gap /\ s = x + 1 /\ y = x + k
    OBVIOUS
  <2>2. PartIs(len, x, k, s, y)
    BY ONLY <1>1, <2>1 DEF PartIs
  <2>3. SubSeq(Run(b, len), s, y) = Run(b, k)
    BY ONLY <2>2, RunCut
  <2> QED BY ONLY <1>2, <2>1, <2>3
<1>10. OffsetInRange(r, offset) = inRange
  BY <1>5 DEF OffsetInRange
<1>11. WriteStep(plan, r, offset, data, lost)
         = [WriteSparseRange(IF gap = 0 THEN plan
                             ELSE AppendSparseRange(plan, p, Run(b, gap), lost),
                             r, inRange, Run(b, k)) EXCEPT !.done = (d + gap) + k]
  BY <1>1, <1>3, <1>4, <1>6, <1>7, <1>8, <1>9, <1>10 DEF WriteStep
<1> QED BY <1>1, <1>2, <1>11 DEF DoneTo, Filled

LEMMA WriteStepNone ==
  ASSUME NEW plan, NEW r, NEW offset, NEW len, NEW d, NEW o, NEW b, NEW lost, d = plan.done,
         r.offset = o, d = len \/ o >= offset + len, len \in Nat
  PROVE  WriteStep(plan, r, offset, Run(b, len), lost) = plan
<1>1. PICK data : data = Run(b, len)
  OBVIOUS
<1>2. Len(data) = len
  BY <1>1, RunFacts DEF IsRun, Long
<1>3. d >= len \/ o >= offset + len
  OBVIOUS
<1>4. WriteStep(plan, r, offset, data, lost) = plan
  BY <1>2, <1>3 DEF WriteStep
<1> QED BY <1>1, <1>4

-------------------------------------------------------------------------------
(* A write *)

\* The ranges when a write at offset has got to p: those there were, of which the
\* later are as they were, and new ones before p.
Grown(S, R, offset, p, n, ix, i) ==
  /\ \A o \in DOMAIN R : o \in DOMAIN S /\ S[o].length = R[o].length
  /\ \A j \in i + 1 .. n : S[ix[j]] = R[ix[j]]
  /\ \A o \in DOMAIN S : o \in DOMAIN R \/ (offset <= o /\ o + S[o].length <= p)

Uncovered(R, p, c) == \A x \in Nat : p <= x /\ x < c => ~Covered(R, x)

LEMMA GrownFree ==
  ASSUME NEW R, NEW S, NEW L, NEW offset, NEW p, NEW c, NEW n, NEW ix, NEW i,
         IsRanges(R, L), IsRanges(S, L), Grown(S, R, offset, p, n, ix, i), p \in Nat,
         c \in Nat, Uncovered(R, p, c), p < c
  PROVE  Free(S, p, c)
<1>1. ASSUME NEW o \in DOMAIN S
      PROVE  o + S[o].length <= p \/ c <= o
  <2>1. PICK l : l = S[o].length
    OBVIOUS
  <2>2. o \in Nat /\ l \in Nat /\ l > 0
    BY <2>1, RangeFacts
  <2>3. CASE o \in DOMAIN R
    <3>1. R[o].length = l
      BY <2>1, <2>3 DEF Grown
    <3>2. ASSUME o + l > p, o < c
          PROVE  FALSE
      <4>1. PICK x : x = IF o < p THEN p ELSE o
        OBVIOUS
      <4>2. x \in Nat /\ p <= x /\ x < c /\ o <= x /\ x < o + l
        BY ONLY <2>2, <3>2, <4>1, p \in Nat, c \in Nat, p < c
      <4>3. Covered(R, x)
        BY <2>3, <3>1, <4>2 DEF Covered, InRange
      <4> QED BY <4>2, <4>3 DEF Uncovered
    <3> QED BY <2>1, <2>2, <3>2
  <2>4. CASE o \notin DOMAIN R
    BY <2>4 DEF Grown
  <2> QED BY <2>3, <2>4
<1> QED BY <1>1 DEF Free

\* A range was appended to fill a gap, ...
LEMMA GrownByAppend ==
  ASSUME NEW R, NEW S, NEW Q, NEW L, NEW offset, NEW p, NEW gap, NEW c, NEW n, NEW ix,
         NEW i, NEW crc, NEW at, IsRanges(R, L), IsRanges(S, L),
         Grown(S, R, offset, p, n, ix, i),
         Puts(Q, S, p, RangeOf(p, gap, crc, at)), p \notin DOMAIN S, p \in Nat, gap \in Nat,
         p + gap = c, offset \in Nat, offset <= p, n \in Nat, i \in Nat,
         \A j \in 1 .. n : ix[j] \in DOMAIN R
  PROVE  Grown(Q, R, offset, c, n, ix, i)
<1>1. /\ DOMAIN Q = DOMAIN S \cup {p} /\ Q[p] = RangeOf(p, gap, crc, at)
      /\ \A o \in DOMAIN S : o # p /\ Q[o] = S[o]
  BY DEF Puts
<1>2. /\ \A o \in DOMAIN R : o \in DOMAIN S /\ S[o].length = R[o].length
      /\ \A j \in i + 1 .. n : S[ix[j]] = R[ix[j]]
      /\ \A o \in DOMAIN S : o \in DOMAIN R \/ (offset <= o /\ o + S[o].length <= p)
  BY DEF Grown
<1>3. \A o \in DOMAIN R : o \in DOMAIN Q /\ Q[o].length = R[o].length
  BY <1>1, <1>2
<1>4. ASSUME NEW j \in i + 1 .. n
      PROVE  Q[ix[j]] = R[ix[j]]
  <2>1. j \in 1 .. n
    BY <1>4
  <2>2. ix[j] \in DOMAIN S
    BY <1>2, <2>1
  <2> QED BY <1>1, <1>2, <1>4, <2>2
<1>5. ASSUME NEW o \in DOMAIN Q
      PROVE  o \in DOMAIN R \/ (offset <= o /\ o + Q[o].length <= c)
  <2>1. CASE o = p
    <3>1. PICK r : r = Q[p]
      OBVIOUS
    <3>2. r.length = gap
      BY <1>1, <3>1 DEF RangeOf
    <3> QED BY <2>1, <3>1, <3>2
  <2>2. CASE o # p
    <3>1. o \in DOMAIN S /\ Q[o] = S[o]
      BY <1>1, <2>2
    <3>2. S[o].length \in Nat /\ o \in Nat
      BY <3>1, RangeFacts
    <3>3. o \in DOMAIN R \/ (offset <= o /\ o + S[o].length <= p)
      BY <1>2, <3>1
    <3>4. PICK l : l = S[o].length
      OBVIOUS
    <3>5. o + l <= p => o + l <= c
      BY ONLY <3>2, <3>4, p \in Nat, gap \in Nat, p + gap = c
    <3> QED BY <3>1, <3>3, <3>4, <3>5
  <2> QED BY <2>1, <2>2
<1> QED BY <1>3, <1>4, <1>5 DEF Grown

\* ... or one of those there were was written.
LEMMA GrownByWrite ==
  ASSUME NEW R, NEW S, NEW Q, NEW L, NEW offset, NEW p, NEW c, NEW n, NEW ix, NEW i,
         NEW m, NEW o, NEW len, NEW crc, NEW at, IsRanges(R, L), IsRanges(S, L),
         Grown(S, R, offset, p, n, ix, i), Puts(Q, S, o, RangeOf(o, len, crc, at)),
         o \in DOMAIN R, R[o].length = len, p \in Nat, c \in Nat, p <= c, n \in Nat, i \in Nat,
         m = i + 1, \A j \in m + 1 .. n : ix[j] # o, \A j \in 1 .. n : ix[j] \in DOMAIN R
  PROVE  Grown(Q, R, offset, c, n, ix, m)
<1>1. /\ DOMAIN Q = DOMAIN S \cup {o} /\ Q[o] = RangeOf(o, len, crc, at)
      /\ \A x \in DOMAIN S : x # o => Q[x] = S[x]
  BY DEF Puts
<1>2. /\ \A x \in DOMAIN R : x \in DOMAIN S /\ S[x].length = R[x].length
      /\ \A j \in i + 1 .. n : S[ix[j]] = R[ix[j]]
      /\ \A x \in DOMAIN S : x \in DOMAIN R \/ (offset <= x /\ x + S[x].length <= p)
  BY DEF Grown
<1>3. Q[o].length = len
  <2>1. PICK r : r = Q[o]
    OBVIOUS
  <2>2. r.length = len
    BY <1>1, <2>1 DEF RangeOf
  <2> QED BY <2>1, <2>2
<1>4. \A x \in DOMAIN R : x \in DOMAIN Q /\ Q[x].length = R[x].length
  BY <1>1, <1>2, <1>3
<1>5. ASSUME NEW j \in m + 1 .. n
      PROVE  Q[ix[j]] = R[ix[j]]
  <2>1. j \in 1 .. n /\ j \in i + 1 .. n
    BY <1>5
  <2>2. ix[j] \in DOMAIN S /\ ix[j] # o
    BY <1>2, <1>5, <2>1
  <2> QED BY <1>1, <1>2, <2>1, <2>2
<1>6. ASSUME NEW x \in DOMAIN Q, x \notin DOMAIN R
      PROVE  offset <= x /\ x + Q[x].length <= c
  <2>1. x \in DOMAIN S /\ Q[x] = S[x]
    BY <1>1, <1>6
  <2>2. S[x].length \in Nat /\ x \in Nat
    BY <2>1, RangeFacts
  <2>3. PICK l : l = S[x].length
    OBVIOUS
  <2>4. offset <= x /\ x + l <= p
    BY <1>2, <1>6, <2>1, <2>3
  <2>5. x + l <= c
    BY ONLY <2>2, <2>3, <2>4, p \in Nat, c \in Nat, p <= c
  <2> QED BY <2>1, <2>3, <2>4, <2>5
<1> QED BY <1>4, <1>5, <1>6 DEF Grown

LEMMA GrownMore ==
  ASSUME NEW R, NEW S, NEW offset, NEW p, NEW n, NEW ix, NEW i, i \in Nat, n \in Nat,
         Grown(S, R, offset, p, n, ix, i)
  PROVE  Grown(S, R, offset, p, n, ix, i + 1)
<1>1. \A j \in (i + 1) + 1 .. n : j \in i + 1 .. n
  OBVIOUS
<1> QED BY <1>1 DEF Grown

LEMMA GrownNone ==
  ASSUME NEW R, NEW offset, NEW p, NEW n, NEW ix
  PROVE  Grown(R, R, offset, p, n, ix, 0)
BY DEF Grown

\* The write is of len bytes b, at offset.
WriteIn(L, offset, len, b) == \E w \in L : w.offset = offset /\ w.length = len /\ w.byte = b

LEMMA RunIsLawful ==
  ASSUME NEW L, NEW offset, NEW len, NEW b, NEW o, NEW k, WriteIn(L, offset, len, b),
         offset <= o, o + k <= offset + len
  PROVE  LawfulCrc(Run(b, k), o, k, L)
<1>1. PICK w \in L : w.offset = offset /\ w.length = len /\ w.byte = b
  BY DEF WriteIn
<1>2. Within(w, o, k)
  BY <1>1 DEF Within
<1> QED BY <1>1, <1>2 DEF LawfulCrc

\* A plan that has written d bytes, from what it was at first.
Plans(plan, first, F, L, offset, d, b) ==
  /\ \E g : PlanKept(plan, F, g, L) /\ GoesOn(first, F, plan, g, offset, d, b)
  /\ plan.appended \in Nat /\ plan.appended <= d

\* What a walk along n of the ranges R is for.
Walks(R, L, offset, len, b, n, ix) ==
  /\ IsRanges(R, L) /\ Disjoint(R) /\ offset \in Nat /\ len \in Nat /\ n \in Nat
  /\ WriteIn(L, offset, len, b) /\ \A j \in 1 .. n : ix[j] \in DOMAIN R

\* A gap of that many bytes behind d of the write.
Gap(offset, len, d, p, gap, c, m) ==
  /\ offset \in Nat /\ len \in Nat /\ d \in Nat /\ gap \in Nat /\ gap > 0 /\ p \in Nat
  /\ c \in Nat /\ p = offset + d /\ p + gap = c /\ m = d + gap /\ m \in Nat /\ m <= len

\* There is no range between p and c, as the write found it or by now.
NoneIn(R, S, p, c) == Uncovered(R, p, c) \/ Free(S, p, c)

LEMMA FillPlan ==
  ASSUME NEW plan, NEW first, NEW F, NEW L, NEW R, NEW offset, NEW len, NEW b, NEW n, NEW ix,
         NEW i, NEW d, NEW p, NEW gap, NEW c, NEW m, NEW lost, NEW next,
         Walks(R, L, offset, len, b, n, ix), i \in Nat,
         Plans(plan, first, F, L, offset, d, b), Grown(plan.ranges, R, offset, p, n, ix, i),
         Gap(offset, len, d, p, gap, c, m),
         NoneIn(R, plan.ranges, p, c),
         next = AppendSparseRange(plan, p, Run(b, gap), lost)
  PROVE  Plans(next, first, F, L, offset, m, b) /\ Grown(next.ranges, R, offset, c, n, ix, i)
<1>1. /\ IsRanges(R, L) /\ n \in Nat /\ WriteIn(L, offset, len, b)
      /\ \A j \in 1 .. n : ix[j] \in DOMAIN R
  BY DEF Walks
<1>2. /\ offset \in Nat /\ len \in Nat /\ d \in Nat /\ gap \in Nat /\ gap > 0 /\ p \in Nat
      /\ c \in Nat /\ p = offset + d /\ p + gap = c /\ m = d + gap /\ m \in Nat /\ m <= len
  BY DEF Gap
<1>3. PICK g : PlanKept(plan, F, g, L) /\ GoesOn(first, F, plan, g, offset, d, b)
  BY DEF Plans
<1>4. plan.appended \in Nat /\ plan.appended <= d
  BY DEF Plans
<1>5. PICK S : S = plan.ranges
  OBVIOUS
<1>6. IsRanges(S, L)
  BY <1>3, <1>5 DEF PlanKept, Kept, Sound
<1>7. Free(S, p, c)
  <2>1. p < c
    BY ONLY <1>2
  <2>2. Uncovered(R, p, c) \/ Free(S, p, c)
    BY <1>5 DEF NoneIn
  <2> QED BY <1>1, <1>2, <1>5, <1>6, <2>1, <2>2, GrownFree
<1>8. p \notin DOMAIN S
  <2>1. Free(S, p, p + gap)
    BY <1>2, <1>7
  <2> QED BY <1>2, <1>6, <2>1, NotFree
<1>9. PICK data : data = Run(b, gap)
  OBVIOUS
<1>10. LawfulCrc(data, p, gap, L)
  <2>1. offset <= p /\ p + gap <= offset + len
    BY ONLY <1>2
  <2> QED BY <1>1, <1>9, <2>1, RunIsLawful
<1>11. Appends(plan, F, g, next, p, gap, b, L)
  <2>1. /\ Free(plan.ranges, p, p + gap) /\ p \in Nat /\ gap \in Nat /\ gap > 0
        /\ next = AppendSparseRange(plan, p, data, lost)
    BY <1>2, <1>5, <1>7, <1>9
  <2> QED BY ONLY <1>3, <1>9, <1>10, <2>1, AppendPlan
<1>12. PICK at : at = plan.tail + 2
  OBVIOUS
<1>13. PICK h : /\ PlanKept(next, F, h, L) /\ GoesOn(plan, g, next, h, p, gap, b)
                /\ Puts(next.ranges, S, p, RangeOf(p, gap, data, at))
                /\ next.appended = plan.appended + gap
  BY <1>5, <1>9, <1>11, <1>12 DEF Appends
<1>14. Follows(offset, d, p, gap, m)
  BY <1>2 DEF Follows
<1>15. GoesOn(first, F, next, h, offset, m, b)
  BY ONLY <1>3, <1>13, <1>14, GoesOnMore
<1>16. next.appended \in Nat /\ next.appended <= m
  BY ONLY <1>2, <1>4, <1>13
<1>17. PICK Q : Q = next.ranges
  OBVIOUS
<1>18. Grown(Q, R, offset, c, n, ix, i)
  <2>1. Puts(Q, S, p, RangeOf(p, gap, data, at)) /\ offset <= p /\ Grown(S, R, offset, p, n, ix, i)
    BY <1>2, <1>5, <1>13, <1>17
  <2> QED BY ONLY <1>1, <1>2, <1>6, <1>8, <2>1, i \in Nat, GrownByAppend
<1> QED BY <1>13, <1>15, <1>16, <1>17, <1>18 DEF Plans

\* The range at o is the one behind the first i of n.
IsNext(i, i1, n, ix, R, o, l) ==
  /\ l = R[o].length
  /\ i \in Nat /\ i1 = i + 1 /\ i1 <= n /\ ix[i1] = o /\ \A j \in i1 + 1 .. n : ix[j] # o

\* k bytes of the write in the range of l bytes at o, of which it has written d, up to m.
Part(offset, len, d, o, l, inRange, c, k, m, e) ==
  /\ offset \in Nat /\ len \in Nat /\ d \in Nat /\ o \in Nat /\ l \in Nat /\ inRange \in Nat
  /\ c \in Nat /\ k \in Nat /\ k > 0 /\ m \in Nat /\ e \in Nat /\ c = offset + d
  /\ c = o + inRange /\ inRange + k <= l /\ m = d + k /\ m <= len /\ e = c + k

LEMMA OverPlan ==
  ASSUME NEW plan, NEW first, NEW F, NEW L, NEW R, NEW offset, NEW len, NEW b, NEW n, NEW ix,
         NEW i, NEW d, NEW o, NEW l, NEW r, NEW inRange, NEW c, NEW k, NEW m, NEW e, NEW i1,
         NEW next, Walks(R, L, offset, len, b, n, ix), IsNext(i, i1, n, ix, R, o, l),
         r = R[o],
         Plans(plan, first, F, L, offset, d, b), Grown(plan.ranges, R, offset, c, n, ix, i),
         Part(offset, len, d, o, l, inRange, c, k, m, e),
         next = WriteSparseRange(plan, r, inRange, Run(b, k))
  PROVE  Plans(next, first, F, L, offset, m, b) /\ Grown(next.ranges, R, offset, e, n, ix, i1)
<1>0. /\ l = R[o].length /\ i \in Nat /\ i1 = i + 1 /\ i1 <= n /\ ix[i1] = o
      /\ \A j \in i1 + 1 .. n : ix[j] # o
  BY DEF IsNext
<1>1. /\ IsRanges(R, L) /\ n \in Nat /\ WriteIn(L, offset, len, b)
      /\ \A j \in 1 .. n : ix[j] \in DOMAIN R
  BY DEF Walks
<1>2. /\ offset \in Nat /\ len \in Nat /\ d \in Nat /\ o \in Nat /\ l \in Nat /\ inRange \in Nat
      /\ c \in Nat /\ k \in Nat /\ k > 0 /\ m \in Nat /\ e \in Nat /\ c = offset + d
      /\ c = o + inRange /\ inRange + k <= l /\ m = d + k /\ m <= len /\ e = c + k
  BY DEF Part
<1>3. PICK g : PlanKept(plan, F, g, L) /\ GoesOn(first, F, plan, g, offset, d, b)
  BY DEF Plans
<1>4. plan.appended \in Nat /\ plan.appended <= d
  BY DEF Plans
<1>5. PICK S, at : S = plan.ranges /\ at = r.at
  OBVIOUS
<1>6. IsRanges(S, L)
  BY <1>3, <1>5 DEF PlanKept, Kept, Sound
<1>7. i1 \in 1 .. n /\ i1 \in i + 1 .. n /\ i1 \in Nat
  BY <1>0, <1>1
<1>8. o \in DOMAIN R /\ o \in DOMAIN S /\ S[o] = r
  <2>1. o \in DOMAIN R
    BY <1>0, <1>1, <1>7
  <2>2. S[ix[i1]] = R[ix[i1]] /\ o \in DOMAIN S
    BY <1>0, <1>5, <1>7, <2>1 DEF Grown
  <2> QED BY <1>0, <2>1, <2>2
<1>9. IsOf(plan.ranges, o, l, at)
  BY <1>0, <1>5, <1>8 DEF IsOf
<1>10. PICK data : data = Run(b, k)
  OBVIOUS
<1>11. k = l => LawfulCrc(data, o, l, L)
  <2>1. SUFFICES ASSUME k = l PROVE LawfulCrc(data, o, k, L)
    OBVIOUS
  <2>2. offset <= o /\ o + k <= offset + len
    BY ONLY <1>2, <2>1
  <2> QED BY <1>1, <1>10, <2>2, RunIsLawful
<1>12. Rewrites(plan, F, g, next, o, l, at, k, c, b, L)
  <2>1. /\ inRange \in Nat /\ k \in Nat /\ k > 0 /\ inRange + k <= l /\ c = o + inRange
        /\ next = WriteSparseRange(plan, plan.ranges[o], inRange, data)
    BY <1>2, <1>5, <1>8, <1>10
  <2> QED BY ONLY <1>3, <1>9, <1>10, <1>11, <2>1, RewritePlan
<1>13. PICK h, crc : /\ PlanKept(next, F, h, L) /\ GoesOn(plan, g, next, h, c, k, b)
                     /\ Puts(next.ranges, S, o, RangeOf(o, l, crc, at))
                     /\ next.appended = plan.appended
  BY <1>5, <1>12 DEF Rewrites
<1>14. Follows(offset, d, c, k, m)
  BY <1>2 DEF Follows
<1>15. GoesOn(first, F, next, h, offset, m, b)
  BY ONLY <1>3, <1>13, <1>14, GoesOnMore
<1>16. next.appended \in Nat /\ next.appended <= m
  BY ONLY <1>2, <1>4, <1>13
<1>17. PICK Q : Q = next.ranges
  OBVIOUS
<1>18. Grown(Q, R, offset, e, n, ix, i1)
  <2>1. /\ Puts(Q, S, o, RangeOf(o, l, crc, at)) /\ Grown(S, R, offset, c, n, ix, i)
        /\ R[o].length = l /\ o \in DOMAIN R /\ i1 = i + 1 /\ \A j \in i1 + 1 .. n : ix[j] # o
    BY <1>0, <1>5, <1>8, <1>13, <1>17
  <2>2. c <= e /\ c \in Nat /\ e \in Nat
    BY ONLY <1>2
  <2> QED BY ONLY <1>0, <1>1, <1>6, <2>1, <2>2, GrownByWrite
<1> QED BY <1>13, <1>15, <1>16, <1>17, <1>18 DEF Plans

\* A write of len bytes at offset that has come past i of the n ranges in its way.
PlanAt(plan, first, F, L, R, offset, len, b, n, ix, i) ==
  \E d, p :
    /\ d \in Nat /\ d <= len /\ plan.done = d /\ p \in Nat /\ p = offset + d
    /\ Plans(plan, first, F, L, offset, d, b) /\ Grown(plan.ranges, R, offset, p, n, ix, i)
    /\ \/ d = len
       \/ Active(R, offset, n, ix, i, p)
       \/ /\ Free(plan.ranges, p, offset + len)
          /\ \A j \in i + 1 .. n : offset + len <= ix[j]

LEMMA DonePlan ==
  ASSUME NEW plan, NEW first, NEW F, NEW L, NEW offset, NEW d, NEW b, NEW m, NEW next,
         Plans(plan, first, F, L, offset, d, b), next = DoneTo(plan, m)
  PROVE  /\ Plans(next, first, F, L, offset, d, b) /\ next.done = m
         /\ next.ranges = plan.ranges
<1>1. PICK g : PlanKept(plan, F, g, L) /\ GoesOn(first, F, plan, g, offset, d, b)
  BY DEF Plans
<1>2. /\ PlanKept(next, F, g, L) /\ next.done = m /\ next.ranges = plan.ranges
      /\ next.appended = plan.appended /\ GoesOn(first, F, next, g, offset, d, b)
  BY <1>1, DoneToFacts
<1> QED BY <1>2 DEF Plans

LEMMA WriteGoesOn ==
  ASSUME NEW plan, NEW first, NEW F, NEW L, NEW R, NEW offset, NEW len, NEW b, NEW n, NEW ix,
         NEW i, NEW q, NEW lost, NEW next, Walks(R, L, offset, len, b, n, ix),
         InOrder(q, R, Beyond(R, offset), n, ix), i \in 0 .. n - 1,
         PlanAt(plan, first, F, L, R, offset, len, b, n, ix, i),
         next = WriteStep(plan, q[i + 1], offset, Run(b, len), lost)
  PROVE  PlanAt(next, first, F, L, R, offset, len, b, n, ix, i + 1)
<1>1. /\ IsRanges(R, L) /\ Disjoint(R) /\ offset \in Nat /\ len \in Nat /\ n \in Nat
      /\ \A j \in 1 .. n : ix[j] \in DOMAIN R
  BY DEF Walks
<1>2. PICK d, p :
        /\ d \in Nat /\ d <= len /\ plan.done = d /\ p \in Nat /\ p = offset + d
        /\ Plans(plan, first, F, L, offset, d, b)
        /\ Grown(plan.ranges, R, offset, p, n, ix, i)
        /\ \/ d = len
           \/ Active(R, offset, n, ix, i, p)
           \/ /\ Free(plan.ranges, p, offset + len)
              /\ \A j \in i + 1 .. n : offset + len <= ix[j]
  BY DEF PlanAt
<1>3. PICK i1, o : i1 = i + 1 /\ o = ix[i + 1]
  OBVIOUS
<1>4. i \in Nat /\ i1 \in 1 .. n /\ i1 \in Nat /\ i1 <= n /\ i1 \in i + 1 .. n
  BY <1>1, <1>3
<1>5. PICK r, l : r = R[o] /\ l = R[o].length
  OBVIOUS
<1>6. o \in DOMAIN R /\ r.offset = o /\ r.length = l /\ o \in Nat /\ l \in Nat /\ l > 0
  <2>1. o \in DOMAIN R
    BY <1>1, <1>3, <1>4
  <2> QED BY <1>1, <1>5, <2>1, RangeFacts
<1>7. q[i + 1] = r
  BY <1>3, <1>4, <1>5 DEF InOrder
<1>8. \A j \in i1 + 1 .. n : j \in 1 .. n /\ j \in i + 1 .. n /\ o < ix[j]
  <2>1. SUFFICES ASSUME NEW j \in i1 + 1 .. n
                 PROVE  j \in 1 .. n /\ j \in i + 1 .. n /\ o < ix[j]
    OBVIOUS
  <2>2. j \in 1 .. n /\ j \in i + 1 .. n /\ i1 < j
    BY <1>1, <1>3, <1>4, <2>1
  <2>3. ix[i1] < ix[j]
    BY <1>4, <2>2 DEF InOrder, Increasing
  <2> QED BY <1>3, <2>2, <2>3
<1>9. \A j \in 1 .. n : ix[j] \in Nat
  BY <1>1, RangeFacts
<1>10. CASE d = len \/ o >= offset + len
  <2>1. next = plan
    BY <1>1, <1>2, <1>6, <1>7, <1>10, WriteStepNone
  <2>2. Grown(plan.ranges, R, offset, p, n, ix, i1)
    BY <1>1, <1>2, <1>3, <1>4, GrownMore
  <2>3. CASE d = len
    BY <1>2, <1>3, <2>1, <2>2, <2>3 DEF PlanAt
  <2>4. CASE d # len
    <3>1. d < len /\ offset + len <= o
      BY <1>1, <1>2, <1>6, <1>10, <2>4
    <3>2. \A j \in i1 + 1 .. n : offset + len <= ix[j]
      BY <1>1, <1>6, <1>8, <1>9, <3>1
    <3>3. Free(plan.ranges, p, offset + len)
      <4>1. CASE Active(R, offset, n, ix, i, p)
        <5>1. PICK c, e, end : c = Larger(o, offset) /\ e = o + R[o].length /\ end = offset + len
          OBVIOUS
        <5>2. c = o
          BY <1>1, <1>6, <3>1, <5>1 DEF Larger
        <5>3. \A x \in Nat : p <= x /\ x < c => ~Covered(R, x)
          BY <1>1, <1>3, <4>1, <5>1, WalkSteps
        <5>4. end \in Nat /\ end <= c /\ p < end
          BY <1>1, <1>2, <1>6, <3>1, <5>1, <5>2
        <5>5. Uncovered(R, p, end)
          <6>1. \A x \in Nat : x < end => x < c
            BY ONLY <1>6, <5>2, <5>4
          <6> QED BY <5>3, <6>1 DEF Uncovered
        <5>6. IsRanges(plan.ranges, L)
          BY <1>2 DEF Plans, PlanKept, Kept, Sound
        <5>7. Free(plan.ranges, p, end)
          BY <1>1, <1>2, <5>4, <5>5, <5>6, GrownFree
        <5> QED BY <5>1, <5>7
      <4> QED BY <1>2, <2>4, <4>1
    <3> QED BY <1>2, <1>3, <2>1, <2>2, <3>2, <3>3 DEF PlanAt
  <2> QED BY <2>3, <2>4
<1>11. CASE ~ (d = len \/ o >= offset + len)
  <2>1. d < len /\ o < offset + len
    BY <1>1, <1>2, <1>6, <1>11
  <2>2. Active(R, offset, n, ix, i, p)
    <3>1. ~ (offset + len <= o)
      BY <1>1, <1>6, <2>1
    <3> QED BY <1>2, <1>3, <1>4, <1>11, <3>1
  <2>3. PICK c, end : Larger(o, offset) = c /\ end = o + l
    OBVIOUS
  <2>4. /\ p <= c /\ c < end /\ end \in Nat /\ c \in Nat
        /\ Active(R, offset, n, ix, i1, end)
        /\ \A x \in Nat : p <= x /\ x < c => ~Covered(R, x)
    BY <1>1, <1>3, <1>5, <2>2, <2>3, WalkSteps
  <2>5. PICK gap, inRange, k, m : WritesIn(offset, len, d, p, o, l, end, c, gap, inRange, k, m)
    BY ONLY <1>1, <1>2, <1>6, <2>1, <2>3, <2>4, WritesInThere
  <2>6. /\ gap \in Nat /\ inRange \in Nat /\ k \in Nat /\ p + gap = c /\ o + inRange = c
        /\ k > 0 /\ (c + k = end \/ c + k = offset + len) /\ c + k <= end
        /\ c + k <= offset + len /\ m = d + gap + k
    BY <2>5 DEF WritesIn
  <2>7. PICK m0, e, filled : /\ m0 = d + gap /\ e = c + k
                             /\ filled = Filled(plan, p, gap, b, lost)
    OBVIOUS
  <2>8. /\ m0 \in Nat /\ m \in Nat /\ e \in Nat /\ m = m0 + k /\ m <= len /\ m0 <= len
        /\ c = offset + m0 /\ e = offset + m /\ c <= e /\ inRange + k <= l
    BY ONLY <1>1, <1>2, <1>6, <2>3, <2>4, <2>6, <2>7
  <2>9. Plans(filled, first, F, L, offset, m0, b) /\ Grown(filled.ranges, R, offset, c, n, ix, i)
    <3>1. CASE gap = 0
      <4>1. filled = plan /\ m0 = d /\ c = p
        BY <1>2, <2>4, <2>6, <2>7, <3>1 DEF Filled
      <4> QED BY <1>2, <4>1
    <3>2. CASE gap # 0
      <4>1. filled = AppendSparseRange(plan, p, Run(b, gap), lost)
        BY <2>7, <3>2 DEF Filled
      <4>2. Gap(offset, len, d, p, gap, c, m0)
        BY <1>1, <1>2, <2>4, <2>6, <2>7, <2>8, <3>2 DEF Gap
      <4>3. NoneIn(R, plan.ranges, p, c)
        BY <2>4 DEF NoneIn, Uncovered
      <4> QED BY ONLY <1>2, <1>4, <4>1, <4>2, <4>3, Walks(R, L, offset, len, b, n, ix), FillPlan
    <3> QED BY <3>1, <3>2
  <2>10. PICK x : x = WriteSparseRange(filled, r, inRange, Run(b, k))
    OBVIOUS
  <2>11. next = DoneTo(x, m)
    <3>1. d = plan.done /\ r.offset = o /\ r.length = l
      BY <1>2, <1>6
    <3>2. WriteStep(plan, r, offset, Run(b, len), lost)
            = DoneTo(WriteSparseRange(Filled(plan, p, gap, b, lost), r, inRange, Run(b, k)), m)
      BY ONLY <2>5, <3>1, WriteStepIs
    <3> QED BY <1>7, <2>7, <2>10, <3>2
  <2>12. Part(offset, len, m0, o, l, inRange, c, k, m, e)
    BY <1>1, <1>6, <2>4, <2>6, <2>7, <2>8 DEF Part
  <2>13. \A j \in i1 + 1 .. n : ix[j] # o
    BY <1>6, <1>8, <1>9
  <2>14. Plans(x, first, F, L, offset, m, b) /\ Grown(x.ranges, R, offset, e, n, ix, i1)
    <3>1. r = R[o] /\ IsNext(i, i1, n, ix, R, o, l)
      BY <1>3, <1>4, <1>5, <2>13 DEF IsNext
    <3> QED BY ONLY <2>9, <2>10, <2>12, <3>1, Walks(R, L, offset, len, b, n, ix), OverPlan
  <2>15. /\ Plans(next, first, F, L, offset, m, b) /\ next.done = m
         /\ Grown(next.ranges, R, offset, e, n, ix, i1)
    BY <2>11, <2>14, DonePlan
  <2>16. m = len \/ Active(R, offset, n, ix, i1, e)
    <3>1. e = end \/ e = offset + len
      BY <2>6, <2>7
    <3>2. CASE e = end
      BY <2>4, <3>2
    <3>3. CASE e = offset + len
      BY <1>1, <2>8, <3>3
    <3> QED BY <3>1, <3>2, <3>3
  <2>17. PlanAt(next, first, F, L, R, offset, len, b, n, ix, i1)
    BY <2>8, <2>15, <2>16 DEF PlanAt
  <2> QED BY <1>3, <2>17
<1> QED BY <1>10, <1>11

\* What a write makes of the file of an entry.
LEMMA PlanIs ==
  ASSUME NEW e, NEW L, NEW offset, NEW len, NEW b, NEW lost, NEW plan,
         Kept(e.file, e.ranges, e.tail, L, e.short), e.short \in BOOLEAN, offset \in Nat,
         len \in Nat, WriteIn(L, offset, len, b),
         plan = WritePlan(e, offset, Run(b, len), lost)
  PROVE  Plans(plan, StartOfWrite(e), e.file, L, offset, len, b)
<1>1. PICK R, F, q, data, first : /\ R = e.ranges /\ F = e.file /\ q = From(R, offset)
                                  /\ data = Run(b, len) /\ first = StartOfWrite(e)
  OBVIOUS
<1>2. IsRanges(R, L) /\ Disjoint(R)
  BY <1>1 DEF Kept, Sound
<1>3. PICK n, ix : InOrder(q, R, Beyond(R, offset), n, ix)
  BY <1>1, <1>2, FromFacts
<1>4. IsFile(q) /\ Len(q) = n /\ n \in Nat
  BY <1>3 DEF InOrder
<1>5. Walks(R, L, offset, len, b, n, ix)
  <2>1. \A j \in 1 .. n : ix[j] \in DOMAIN R
    BY <1>3 DEF InOrder, Increasing, Beyond
  <2> QED BY <1>2, <1>4, <2>1 DEF Walks
<1>6. PICK w, over : w = <<offset, data, lost>> /\ over = OverRanges(e, offset, data, lost)
  OBVIOUS
<1>7. IsFold("write", w, first, q, over)
  BY <1>1, <1>4, <1>6, WriteFolds
<1>8. PICK st : Runs("write", w, first, q, st) /\ over = st[n]
  BY <1>4, <1>7, FoldRuns
<1>9. \A i \in 1 .. n : st[i] = WriteStep(st[i - 1], q[i], offset, data, lost)
  BY <1>4, <1>6, <1>8 DEF Runs, Step
<1>10. PlanAt(first, first, F, L, R, offset, len, b, n, ix, 0)
  <2>1. /\ first = [calls |-> <<>>, ranges |-> R, tail |-> e.tail, done |-> 0,
                    appended |-> 0, short |-> e.short]
    BY <1>1 DEF StartOfWrite
  <2>2. /\ first.calls = <<>> /\ first.ranges = R /\ first.tail = e.tail /\ first.done = 0
        /\ first.appended = 0 /\ first.short = e.short
    BY ONLY <2>1
  <2>3. IsPlan(first)
    BY <2>1, <2>2 DEF IsPlan
  <2>4. Tears(F, <<>>, L) /\ FileAfter(F, <<>>) = F
    BY TearsNone
  <2>5. PlanKept(first, F, F, L)
    BY <1>1, <2>2, <2>3, <2>4 DEF PlanKept
  <2>6. GoesOn(first, F, first, F, offset, 0, b)
    BY GoesOnNone
  <2>7. Plans(first, first, F, L, offset, 0, b)
    BY <2>2, <2>5, <2>6 DEF Plans
  <2>8. Grown(R, R, offset, offset, n, ix, 0)
    BY GrownNone
  <2>9. Active(R, offset, n, ix, 0, offset)
    BY <1>2, <1>3, WalkStarts
  <2>10. 0 \in Nat /\ 0 <= len /\ offset = offset + 0
    OBVIOUS
  <2> QED BY <2>2, <2>7, <2>8, <2>9, <2>10 DEF PlanAt
<1> DEFINE T == { i \in 0 .. n : PlanAt(st[i], first, F, L, R, offset, len, b, n, ix, i) }
<1>11. ASSUME NEW i \in 0 .. n - 1, i \in T
       PROVE  i + 1 \in T
  <2>1. st[i + 1] = WriteStep(st[i], q[i + 1], offset, data, lost)
    <3>1. i + 1 \in 1 .. n /\ (i + 1) - 1 = i
      BY <1>4
    <3> QED BY <1>9, <3>1
  <2>2. PlanAt(st[i + 1], first, F, L, R, offset, len, b, n, ix, i + 1)
    <3>1. PlanAt(st[i], first, F, L, R, offset, len, b, n, ix, i) /\ i \in 0 .. n - 1
      BY <1>11
    <3> QED BY ONLY <1>1, <1>3, <1>5, <2>1, <3>1, WriteGoesOn
  <2> QED BY <1>4, <2>2
<1>12. 0 \in T
  <2>1. st[0] = first
    BY <1>8 DEF Runs
  <2> QED BY <1>4, <1>10, <2>1
<1>13. \A i \in 0 .. n : i \in T
  <2> HIDE DEF T
  <2> QED BY <1>4, <1>11, <1>12, CountUp
<1>14. PlanAt(over, first, F, L, R, offset, len, b, n, ix, n)
  BY <1>4, <1>8, <1>13
<1>15. PICK d, p :
         /\ d \in Nat /\ d <= len /\ over.done = d /\ p \in Nat /\ p = offset + d
         /\ Plans(over, first, F, L, offset, d, b)
         /\ Grown(over.ranges, R, offset, p, n, ix, n)
         /\ d = len \/ Active(R, offset, n, ix, n, p) \/ Free(over.ranges, p, offset + len)
  BY <1>14 DEF PlanAt
<1>16. Len(data) = len
  BY <1>1, RunFacts DEF IsRun, Long
<1>17. plan = IF d = len THEN over
              ELSE AppendSparseRange(over, p, SubSeq(data, d + 1, len), lost)
  BY <1>1, <1>6, <1>15, <1>16 DEF WritePlan
<1>18. CASE d = len
  BY <1>1, <1>15, <1>17, <1>18
<1>19. CASE d # len
  <2>1. PICK gap, s, c : gap = len - d /\ s = d + 1 /\ c = offset + len
    OBVIOUS
  <2>2. PartIs(len, d, gap, s, len) /\ Gap(offset, len, d, p, gap, c, len)
    BY <1>15, <1>19, <2>1 DEF PartIs, Gap
  <2>3. SubSeq(data, s, len) = Run(b, gap)
    BY ONLY <1>1, <2>2, RunCut
  <2>4. plan = AppendSparseRange(over, p, Run(b, gap), lost)
    BY <1>17, <1>19, <2>1, <2>3
  <2>5. NoneIn(R, over.ranges, p, c)
    <3>1. ASSUME Active(R, offset, n, ix, n, p)
          PROVE  Uncovered(R, p, c)
      BY <1>2, <1>3, <3>1, WalkEnds DEF Uncovered
    <3> QED BY <1>15, <1>19, <2>1, <3>1 DEF NoneIn
  <2>6. /\ Plans(over, first, F, L, offset, d, b)
        /\ Grown(over.ranges, R, offset, p, n, ix, n)
    BY <1>15
  <2>7. PICK m, i : m = len /\ i = n /\ i \in Nat
    BY <1>4
  <2>8. /\ Gap(offset, len, d, p, gap, c, m) /\ Grown(over.ranges, R, offset, p, n, ix, i)
        /\ i \in Nat
    BY <2>2, <2>6, <2>7
  <2>9. Plans(plan, first, F, L, offset, m, b)
    BY ONLY <1>5, <2>4, <2>5, <2>6, <2>8, FillPlan
  <2> QED BY <1>1, <2>7, <2>9
<1> QED BY <1>18, <1>19

-------------------------------------------------------------------------------
(* The file of an entry, before and after a write *)

LEMMA LawfulMore ==
  ASSUME NEW L, NEW M, L \subseteq M
  PROVE  \A crc, o, n : LawfulCrc(crc, o, n, L) => LawfulCrc(crc, o, n, M)
BY DEF LawfulCrc

LEMMA SoundMore ==
  ASSUME NEW F, NEW R, NEW T, NEW L, NEW M, L \subseteq M, Sound(F, R, T, L)
  PROVE  Sound(F, R, T, M)
<1>1. \A crc, o, n : LawfulCrc(crc, o, n, L) => LawfulCrc(crc, o, n, M)
  BY LawfulMore
<1>2. \A r, o : IsRange(r, o, L) => IsRange(r, o, M)
  BY <1>1 DEF IsRange
<1>3. IsRanges(R, M)
  BY <1>2 DEF Sound, IsRanges
<1>4. Marked(F, R, M)
  BY <1>1 DEF Sound, Marked
<1> QED BY <1>3, <1>4 DEF Sound

LEMMA KeptMore ==
  ASSUME NEW F, NEW R, NEW T, NEW L, NEW M, NEW short, L \subseteq M, Kept(F, R, T, L, short)
  PROVE  Kept(F, R, T, M, short)
BY SoundMore DEF Kept

LEMMA SoundableMore ==
  ASSUME NEW F, NEW L, NEW M, L \subseteq M, Soundable(F, L)
  PROVE  Soundable(F, M)
BY SoundMore DEF Soundable

\* A file with a header and nothing else.
LEMMA HeaderOnly ==
  ASSUME NEW F, NEW L, NEW short, Long(F, 1), F[1].kind = "header"
  PROVE  /\ Kept(F, NoRanges, 1, L, short) /\ Holds(F, NoRanges, NoContent)
         /\ Counted(NoRanges, 1, 0)
<1>1. IsFile(F) /\ Len(F) = 1
  BY DEF Long
<1>2. DOMAIN NoRanges = {} /\ NoRanges = [o \in {} |-> NoRanges[o]]
  BY DEF NoRanges
<1>3. IsFiniteSet({}) /\ Cardinality({}) = 0
  BY FS_EmptySet
<1>4. IsRanges(NoRanges, L)
  BY <1>2, <1>3 DEF IsRanges
<1>5. Disjoint(NoRanges) /\ Placed(NoRanges, 1)
  BY <1>2 DEF Disjoint, Placed
<1>6. \A n \in Nat : ~ IsExtentAt(F, n)
  <2>1. ASSUME NEW n \in Nat, IsExtentAt(F, n)
        PROVE  FALSE
    <3>1. n < 1 /\ F[n + 1].kind = "extent"
      BY <1>1, <2>1 DEF IsExtentAt
    <3>2. n + 1 = 1
      BY <3>1
    <3> QED BY <3>1, <3>2
  <2> QED BY <2>1
<1>7. Marked(F, NoRanges, L)
  BY <1>2, <1>6 DEF Marked
<1>8. Sound(F, NoRanges, 1, L)
  BY <1>1, <1>4, <1>5, <1>7 DEF Sound
<1>9. Whole(F, NoRanges) /\ Exact(F, NoRanges, 1)
  BY <1>1, <1>2 DEF Whole, Exact
<1>10. Holds(F, NoRanges, NoContent)
  <2>1. DOMAIN NoContent = {} /\ NoContent = [o \in {} |-> NoContent[o]]
    BY DEF NoContent
  <2> QED BY <1>2, <2>1 DEF Holds, InRange
<1>11. Counted(NoRanges, 1, 0)
  BY <1>2, <1>3 DEF Counted
<1> QED BY <1>8, <1>9, <1>10, <1>11 DEF Kept

\* A file with nothing at all.
LEMMA NothingIsSoundable ==
  ASSUME NEW L
  PROVE  Soundable(<<>>, L)
<1>1. PICK F : F = <<>>
  OBVIOUS
<1>2. IsFile(F) /\ Len(F) = 0
  BY <1>1, EmptyIsFile
<1>3. DOMAIN NoRanges = {} /\ NoRanges = [o \in {} |-> NoRanges[o]]
  BY DEF NoRanges
<1>4. IsRanges(NoRanges, L)
  BY <1>3, FS_EmptySet DEF IsRanges
<1>5. Disjoint(NoRanges) /\ Placed(NoRanges, 1)
  BY <1>3 DEF Disjoint, Placed
<1>6. Marked(F, NoRanges, L)
  BY <1>2, <1>3 DEF Marked, IsExtentAt
<1>7. Sound(F, NoRanges, 1, L)
  BY <1>2, <1>4, <1>5, <1>6 DEF Sound
<1> QED BY <1>1, <1>7 DEF Soundable

LEMMA NoRangesHoldNothing ==
  ASSUME NEW F, NEW C, Holds(F, NoRanges, C)
  PROVE  C = NoContent
<1>1. DOMAIN NoRanges = {}
  BY DEF NoRanges
<1>2. /\ C = [x \in DOMAIN C |-> C[x]] /\ DOMAIN C \subseteq Nat
      /\ \A x \in Nat : x \in DOMAIN C <=> \E o \in DOMAIN NoRanges : InRange(NoRanges, o, x)
  BY DEF Holds
<1>3. DOMAIN C = {}
  BY <1>1, <1>2
<1>4. C = [x \in {} |-> C[x]]
  BY <1>2, <1>3
<1> QED BY <1>4 DEF NoContent

\* An entry with another size, and one that was cut.
SameStatus(x, e) ==
  /\ x.open = e.open /\ x.short = e.short /\ x.doomed = e.doomed /\ x.failed = e.failed
  /\ x.isNew = e.isNew

LEMMA SizedFacts ==
  ASSUME NEW e, NEW x, NEW size, IsEntry(e), x = [e EXCEPT !.size = size]
  PROVE  /\ IsEntry(x) /\ SameStatus(x, e) /\ x.size = size /\ x.file = e.file
         /\ x.ranges = e.ranges /\ x.tail = e.tail
<1>1. "size" \in Fields /\ "file" \in Fields /\ "ranges" \in Fields /\ "tail" \in Fields
      /\ {"open", "short", "doomed", "failed", "isNew"} \subseteq Fields
  BY DEF Fields
<1> QED BY <1>1 DEF IsEntry, SameStatus

LEMMA TruncatedFacts ==
  ASSUME NEW e, NEW x, IsEntry(e), x = Truncated(e)
  PROVE  /\ IsEntry(x) /\ SameStatus(x, e) /\ x.size = 0 /\ x.file = SetLength(e.file, 1)
         /\ x.ranges = NoRanges /\ x.tail = 1
<1>1. "size" \in Fields /\ "file" \in Fields /\ "ranges" \in Fields /\ "tail" \in Fields
      /\ {"open", "short", "doomed", "failed", "isNew"} \subseteq Fields
  BY DEF Fields
<1>2. PICK g : g = SetLength(e.file, 1)
  OBVIOUS
<1>3. x = [e EXCEPT !.file = g, !.size = 0, !.ranges = NoRanges, !.tail = 1]
  BY <1>2 DEF Truncated, HeaderSize
<1> QED BY <1>1, <1>2, <1>3 DEF IsEntry, SameStatus

\* What is left of the content when the file was cut.
Left(cut, C) == IF cut.ranges = NoRanges THEN NoContent ELSE C
IsDamage(cut, e) == cut.size # e.size /\ cut.ranges # NoRanges

CutOK(cut, C, L, e, len, dam) ==
  /\ IsEntry(cut) /\ SameStatus(cut, e)
  /\ Kept(cut.file, cut.ranges, cut.tail, L, cut.short)
  /\ ~dam /\ ~IsDamage(cut, e) =>
       /\ Holds(cut.file, cut.ranges, Left(cut, C)) /\ Counted(cut.ranges, cut.tail, cut.size)
       /\ cut.size + len <= MaxSparseData \/ cut.size = 0

LEMMA CutIs ==
  ASSUME NEW e, NEW C, NEW L, NEW dam, NEW len, NEW cut, len \in Nat, OpenOK(e, C, L, dam),
         cut \in WhenWriting(e, len)
  PROVE  CutOK(cut, C, L, e, len, dam)
<1>1. PICK F, R, T, short, size : /\ F = e.file /\ R = e.ranges /\ T = e.tail
                                  /\ short = e.short /\ size = e.size
  OBVIOUS
<1>2. /\ IsEntry(e) /\ Kept(F, R, T, L, short)
      /\ ~dam => ~short /\ Holds(F, R, C) /\ Counted(R, T, size)
  BY <1>1 DEF OpenOK, Unharmed
<1>3. ~dam => Holds(F, R, IF R = NoRanges THEN NoContent ELSE C)
  <2>1. CASE R = NoRanges
    BY <1>2, <2>1, NoRangesHoldNothing
  <2>2. CASE R # NoRanges
    BY <1>2, <2>2
  <2> QED BY <2>1, <2>2
<1>4. CASE cut = e /\ size + len <= MaxSparseData
  <2>1. SameStatus(cut, e)
    BY <1>4 DEF SameStatus
  <2> QED BY <1>1, <1>2, <1>3, <1>4, <2>1 DEF CutOK, Left
<1>5. CASE cut = Truncated(e)
  <2>1. /\ IsEntry(cut) /\ SameStatus(cut, e) /\ cut.size = 0 /\ cut.file = SetLength(F, 1)
        /\ cut.ranges = NoRanges /\ cut.tail = 1
    BY <1>1, <1>2, <1>5, TruncatedFacts
  <2>2. PICK G : G = SetLength(F, 1)
    OBVIOUS
  <2>3. IsFile(F) /\ Len(F) >= 1 /\ F[1].kind = "header" /\ Len(F) \in Nat
    BY <1>2, FileFacts DEF Kept, Sound, Whole
  <2>4. IsFile(G) /\ Len(G) = 1 /\ G[1] = F[1]
    <3>1. /\ IsFile(G) /\ Len(G) = 1
          /\ \A i \in 1 .. 1 : G[i] = IF i <= Len(F) THEN F[i] ELSE Byte(0)
      BY <2>2, <2>3, SetLengthFacts
    <3>2. 1 \in 1 .. 1
      OBVIOUS
    <3> QED BY <2>3, <3>1, <3>2
  <2>5. Long(G, 1) /\ G[1].kind = "header"
    BY <2>3, <2>4 DEF Long
  <2>6. /\ Kept(G, NoRanges, 1, L, cut.short) /\ Holds(G, NoRanges, NoContent)
        /\ Counted(NoRanges, 1, 0)
    BY <2>5, HeaderOnly
  <2> QED BY <2>1, <2>2, <2>6 DEF CutOK, Left
<1>6. CASE cut = [e EXCEPT !.size = 0]
  <2>1. /\ IsEntry(cut) /\ SameStatus(cut, e) /\ cut.size = 0 /\ cut.file = F
        /\ cut.ranges = R /\ cut.tail = T
    BY <1>1, <1>2, <1>6, SizedFacts
  <2>2. cut.short = short
    BY <1>1, <2>1 DEF SameStatus
  <2>3. ASSUME ~dam, ~IsDamage(cut, e)
        PROVE  Counted(R, T, 0)
    <3>1. CASE size = 0
      BY <1>2, <2>3, <3>1
    <3>2. CASE R = NoRanges
      <4>1. Exact(F, R, T)
        BY <1>2, <2>3 DEF Kept
      <4>2. DOMAIN R = {}
        BY <3>2 DEF NoRanges
      <4>3. T = 1
        BY <4>1, <4>2 DEF Exact
      <4>4. Cardinality(DOMAIN R) = 0
        BY <4>2, FS_EmptySet
      <4> QED BY <4>3, <4>4 DEF Counted
    <3> QED BY <1>1, <2>1, <2>3, <3>1, <3>2 DEF IsDamage
  <2> QED BY <1>2, <1>3, <2>1, <2>2, <2>3 DEF CutOK, Left
<1> QED BY <1>1, <1>4, <1>5, <1>6 DEF WhenWriting

\* The entry when the calls of a plan are made.
Grow(cut, plan) ==
  [cut EXCEPT !.file = FileAfter(@, plan.calls), !.ranges = plan.ranges, !.tail = plan.tail,
              !.size = @ + plan.appended, !.short = plan.short]

SameUse(x, e) ==
  x.open = e.open /\ x.doomed = e.doomed /\ x.failed = e.failed /\ x.isNew = e.isNew

LEMMA GrowFacts ==
  ASSUME NEW cut, NEW plan, NEW x, IsEntry(cut), x = Grow(cut, plan)
  PROVE  /\ IsEntry(x) /\ SameUse(x, cut) /\ x.file = FileAfter(cut.file, plan.calls)
         /\ x.ranges = plan.ranges /\ x.tail = plan.tail
         /\ x.size = cut.size + plan.appended /\ x.short = plan.short
<1>1. "size" \in Fields /\ "file" \in Fields /\ "ranges" \in Fields /\ "tail" \in Fields
      /\ {"open", "short", "doomed", "failed", "isNew"} \subseteq Fields
  BY DEF Fields
<1>2. PICK g, R, T, size, short : /\ g = FileAfter(cut.file, plan.calls) /\ R = plan.ranges
                                  /\ T = plan.tail /\ size = cut.size + plan.appended
                                  /\ short = plan.short
  OBVIOUS
<1>3. x = [cut EXCEPT !.file = g, !.ranges = R, !.tail = T, !.size = size, !.short = short]
  BY <1>2 DEF Grow
<1>4. /\ IsEntry(x) /\ SameUse(x, cut) /\ x.file = g /\ x.ranges = R /\ x.tail = T
      /\ x.size = size /\ x.short = short
  BY <1>1, <1>3 DEF IsEntry, SameUse
<1> QED BY <1>2, <1>4

\* A write without damage.
Undamaged(bad, dam, plan, cut, e) == ~bad => ~dam /\ ~plan.short /\ ~IsDamage(cut, e)
TearsOf(cut, plan, L) == Tears(cut.file, plan.calls, L)

LEMMA WriteKeeps ==
  ASSUME NEW e, NEW C, NEW L, NEW M, NEW dam, NEW offset, NEW len, NEW b, NEW lost, NEW cut,
         NEW plan, NEW x, NEW D, NEW bad, OpenOK(e, C, L, dam), L \subseteq M,
         WriteIn(M, offset, len, b), offset \in Nat, len \in Nat, cut \in WhenWriting(e, len),
         plan = WritePlan(cut, offset, Run(b, len), lost), x = Grow(cut, plan),
         D = Overlay(Left(cut, C), offset, len, b), Undamaged(bad, dam, plan, cut, e)
  PROVE  OpenOK(x, D, M, bad) /\ SameUse(x, e) /\ TearsOf(cut, plan, M)
<1>0. ~bad => ~dam /\ ~plan.short /\ ~IsDamage(cut, e)
  BY DEF Undamaged
<1>1. CutOK(cut, C, L, e, len, dam)
  BY CutIs
<1>2. /\ IsEntry(cut) /\ SameStatus(cut, e)
      /\ Kept(cut.file, cut.ranges, cut.tail, L, cut.short)
      /\ ~bad =>
           /\ Holds(cut.file, cut.ranges, Left(cut, C)) /\ Counted(cut.ranges, cut.tail, cut.size)
           /\ cut.size + len <= MaxSparseData \/ cut.size = 0
  BY <1>0, <1>1 DEF CutOK
<1>3. PICK F, first : F = cut.file /\ first = StartOfWrite(cut)
  OBVIOUS
<1>4. cut.short \in BOOLEAN
  BY <1>2 DEF OpenOK, SameStatus
<1>5. Plans(plan, first, F, M, offset, len, b)
  <2>1. Kept(cut.file, cut.ranges, cut.tail, M, cut.short)
    BY <1>2, KeptMore
  <2> QED BY <1>3, <1>4, <2>1, PlanIs
<1>6. PICK g : PlanKept(plan, F, g, M) /\ GoesOn(first, F, plan, g, offset, len, b)
  BY <1>5 DEF Plans
<1>7. plan.appended \in Nat /\ plan.appended <= len
  BY <1>5 DEF Plans
<1>8. /\ IsEntry(x) /\ SameUse(x, cut) /\ x.file = FileAfter(F, plan.calls)
      /\ x.ranges = plan.ranges /\ x.tail = plan.tail
      /\ x.size = cut.size + plan.appended /\ x.short = plan.short
  BY <1>2, <1>3, GrowFacts
<1>9. /\ x.file = g /\ Tears(F, plan.calls, M) /\ plan.short \in BOOLEAN
      /\ Kept(g, plan.ranges, plan.tail, M, plan.short)
  BY <1>6, <1>8 DEF PlanKept
<1>10. ASSUME ~bad
       PROVE  ~x.short /\ Unharmed(x.file, x.ranges, x.tail, D, M, x.size)
  <2>1. first.ranges = cut.ranges /\ first.tail = cut.tail /\ first.appended = 0
    BY <1>3 DEF StartOfWrite
  <2>2. PICK size, C0 : size = cut.size /\ C0 = Left(cut, C)
    OBVIOUS
  <2>3. size \in Nat /\ size + 0 = size
    BY <1>2, <1>10, <2>2 DEF Counted
  <2>4. PlanHolds(first, F, C0, size)
    BY <1>2, <1>3, <1>10, <2>1, <2>2, <2>3 DEF PlanHolds
  <2>5. ~plan.short
    BY <1>0, <1>10
  <2>6. PlanHolds(plan, g, Overlay(C0, offset, len, b), size)
    BY ONLY <1>6, <2>3, <2>4, <2>5 DEF GoesOn
  <2>7. Holds(g, plan.ranges, D) /\ Counted(plan.ranges, plan.tail, size + plan.appended)
    BY <2>2, <2>6 DEF PlanHolds
  <2>8. Limited(size + plan.appended, M)
    <3>1. PICK app : app = plan.appended
      OBVIOUS
    <3>2. app \in Nat /\ app <= len
      BY <1>7, <3>1
    <3>3. MaxSparseData \in Nat
      BY SparseAssumption
    <3>4. size + len <= MaxSparseData \/ size = 0
      BY <1>2, <1>10, <2>2
    <3>5. size + app <= MaxSparseData \/ len >= size + app
      BY ONLY <2>3, <3>2, <3>3, <3>4, len \in Nat
    <3>6. PICK w \in M : w.length = len
      BY DEF WriteIn
    <3> QED BY <3>1, <3>5, <3>6 DEF Limited
  <2> QED BY <1>8, <1>9, <2>2, <2>5, <2>7, <2>8 DEF Unharmed
<1>11. OpenOK(x, D, M, bad)
  BY <1>8, <1>9, <1>10 DEF OpenOK
<1>12. SameUse(x, e)
  BY <1>2, <1>8 DEF SameStatus, SameUse
<1> QED BY <1>3, <1>9, <1>11, <1>12 DEF TearsOf

-------------------------------------------------------------------------------
(* A new file *)

LEMMA CreateCallsAre ==
  ASSUME NEW born
  PROVE  \E c, d, h :
           /\ c = CreateCall("sparse") /\ d = Write(0, h) /\ h = <<Header("key", born)>>
           /\ CreateCalls(born) = Append(Append(<<>>, c), d) /\ CreateCalls(born) = <<c, d>>
<1>1. PICK c, d, h : c = CreateCall("sparse") /\ d = Write(0, h) /\ h = <<Header("key", born)>>
  OBVIOUS
<1>2. CreateCalls(born) = <<c, d>>
  BY <1>1 DEF CreateCalls
<1>3. PICK s, t : s = <<>> /\ t = <<c, d>>
  OBVIOUS
<1>4. s \o t = t
  BY <1>3
<1>5. s \o <<c, d>> = Append(Append(s, c), d)
  BY <1>3, EmptyIsFile, AppendTwo
<1> QED BY <1>1, <1>2, <1>3, <1>4, <1>5

LEMMA CreateIs ==
  ASSUME NEW f
  PROVE  /\ Call(OneFile(f), CreateCall("sparse")) = OneFile(<<>>)
         /\ Torn(OneFile(f), CreateCall("sparse")) = {OneFile(f)}
<1>1. [OneFile(f) EXCEPT !["sparse"] = <<>>] = OneFile(<<>>)
  BY DEF OneFile
<1>2. Call(OneFile(f), CreateCall("sparse")) = [OneFile(f) EXCEPT !["sparse"] = <<>>]
  BY DEF Call, CreateCall
<1>3. Torn(OneFile(f), CreateCall("sparse")) = {OneFile(f)}
  BY DEF Torn, CreateCall
<1> QED BY <1>1, <1>2, <1>3

LEMMA CreatedFile ==
  ASSUME NEW born, NEW F, NEW G, F = <<>>, G = FileAfter(F, CreateCalls(born))
  PROVE  /\ Long(G, 1) /\ G[1].kind = "header"
         /\ \A n \in DOMAIN CreateCalls(born) : \A g \in FilesTornAt(F, CreateCalls(born), n) :
              g = <<>>
<1>1. PICK c, d, h :
        /\ c = CreateCall("sparse") /\ d = Write(0, h) /\ h = <<Header("key", born)>>
        /\ CreateCalls(born) = Append(Append(<<>>, c), d) /\ CreateCalls(born) = <<c, d>>
  BY CreateCallsAre
<1>2. PICK s, t, u : s = <<>> /\ t = Append(s, c) /\ u = Append(t, d)
  OBVIOUS
<1>3. u = CreateCalls(born)
  BY <1>1, <1>2
<1>4. IsFile(s) /\ Len(s) = 0
  BY <1>2, EmptyIsFile
<1>5. IsFile(t) /\ Len(t) = 1 /\ t[1] = c
  <2>1. IsFile(t) /\ Len(t) = Len(s) + 1 /\ t[Len(s) + 1] = c
    BY <1>2, <1>4, AppendFacts
  <2> QED BY <1>4, <2>1
<1>6. /\ IsFile(u) /\ Len(u) = 2 /\ u[2] = d /\ u[1] = c
      /\ SubSeq(u, 1, 1) = t /\ SubSeq(u, 1, 0) = s
  <2>1. /\ IsFile(u) /\ Len(u) = Len(t) + 1 /\ u[Len(t) + 1] = d
        /\ \A i \in 1 .. Len(t) : u[i] = t[i]
        /\ SubSeq(u, 1, Len(t)) = t
        /\ \A i \in 0 .. Len(t) : SubSeq(u, 1, i) = SubSeq(t, 1, i)
    <3>1. u = Append(t, d)
      BY <1>2
    <3> QED BY ONLY <1>5, <3>1, AppendFacts
  <2>2. SubSeq(t, 1, Len(s)) = s
    BY <1>2, <1>4, AppendFacts
  <2>3. 0 \in 0 .. 1 /\ 1 \in 1 .. 1 /\ 1 + 1 = 2
    OBVIOUS
  <2> QED BY <1>4, <1>5, <2>1, <2>2, <2>3
<1>7. DOMAIN u = 1 .. 2
  BY <1>6, FileFacts
<1>8. After(OneFile(F), s) = OneFile(F)
  BY <1>2, AfterNone
<1>9. After(OneFile(F), t) = OneFile(<<>>)
  <2>1. After(OneFile(F), t) = Call(After(OneFile(F), s), c)
    BY <1>2, <1>4, AfterAppend
  <2>2. Call(OneFile(F), c) = OneFile(<<>>)
    BY <1>1, CreateIs
  <2> QED BY ONLY <1>8, <2>1, <2>2
<1>10. After(OneFile(F), u) = OneFile(WriteAt(<<>>, 0, h))
  BY <1>1, <1>2, <1>5, <1>9, AfterAppend, WriteIs
<1>11. G = WriteAt(F, 0, h)
  BY <1>3, <1>10 DEF FileAfter, OneFile
<1>12. Long(h, 1) /\ h[1] = Header("key", born)
  BY <1>1, SingleIsFile DEF Long
<1>13. Long(G, 1) /\ G[1] = h[1]
  <2>1. Long(F, 0) /\ 0 \in Nat
    BY EmptyIsFile DEF Long
  <2>2. PICK N : Overlays(G, F, 0, h, 1, 0, N)
    BY <1>11, <1>12, <2>1, WriteAtIs
  <2>3. /\ Long(G, N) /\ (N = 0 \/ N = 0 + 1) /\ (1 > 0 => 0 + 1 <= N)
        /\ \A i \in 1 .. N : i > 0 /\ i <= 0 + 1 => G[i] = h[i - 0]
    BY <2>2 DEF Overlays
  <2>4. N = 1
    BY <2>3
  <2>5. 1 \in 1 .. 1 /\ 1 > 0 /\ 1 <= 0 + 1 /\ 1 - 0 = 1
    OBVIOUS
  <2> QED BY <2>3, <2>4, <2>5
<1>14. G[1].kind = "header"
  BY <1>12, <1>13 DEF Header
<1>15. ASSUME NEW n \in DOMAIN u, NEW g \in FilesTornAt(F, u, n)
       PROVE  g = <<>>
  <2>1. g \in { k.sparse : k \in Torn(After(OneFile(F), SubSeq(u, 1, n - 1)), u[n]) }
    BY <1>15 DEF FilesTornAt, TornAt, OneFile
  <2>2. CASE n = 1
    <3>0. n - 1 = 0
      BY <2>2
    <3>1. g \in { k.sparse : k \in Torn(OneFile(F), c) }
      BY ONLY <1>6, <1>8, <2>1, <2>2, <3>0
    <3>2. Torn(OneFile(F), c) = {OneFile(F)}
      BY <1>1, CreateIs
    <3>3. g = OneFile(F).sparse
      BY <3>1, <3>2
    <3> QED BY <3>3 DEF OneFile
  <2>3. CASE n = 2
    <3>0. n - 1 = 1
      BY <2>3
    <3>1. g \in { k.sparse : k \in Torn(OneFile(F), d) }
      <4>1. After(OneFile(F), t) = OneFile(F)
        BY <1>9
      <4> QED BY ONLY <1>6, <2>1, <2>3, <3>0, <4>1
    <3>2. Torn(OneFile(F), d)
            = { OneFile(WriteAt(F, 0, SubSeq(h, 1, m))) : m \in 0 .. Len(h) - 1 }
      <4>1. PICK o : o = 0
        OBVIOUS
      <4>2. Torn(OneFile(F), Write(o, h))
              = { OneFile(WriteAt(F, o, SubSeq(h, 1, m))) : m \in 0 .. Len(h) - 1 }
        BY ONLY WriteIs
      <4> QED BY <1>1, <4>1, <4>2
    <3>3. PICK m \in 0 .. Len(h) - 1 : g = OneFile(WriteAt(F, 0, SubSeq(h, 1, m))).sparse
      BY <3>1, <3>2
    <3>4. m = 0
      <4>1. Len(h) = 1
        BY <1>12 DEF Long
      <4> QED BY <4>1
    <3>5. SubSeq(h, 1, 0) = <<>>
      <4>1. PICK p : p = SubSeq(h, 1, 0) /\ IsPart(p, h, 0, 0)
        <5>1. PICK m0, N : m0 = 0 /\ N = 1 /\ m0 \in Nat /\ m0 <= N /\ Long(h, N)
          BY <1>12
        <5>2. \E p : p = SubSeq(h, 1, m0) /\ p = Cells(h, 0, m0) /\ IsPart(p, h, 0, m0)
          BY ONLY <5>1, PrefixFacts
        <5> QED BY <5>1, <5>2
      <4>2. IsFile(p) /\ Len(p) = 0
        BY <4>1 DEF IsPart, Long
      <4> QED BY <4>1, <4>2, FileFacts
    <3>6. WriteAt(F, 0, <<>>) = <<>>
      BY DEF WriteAt
    <3> QED BY <3>3, <3>4, <3>5, <3>6 DEF OneFile
  <2>4. n = 1 \/ n = 2
    BY <1>7
  <2> QED BY <2>2, <2>3, <2>4
<1> QED BY <1>3, <1>13, <1>14, <1>15

-------------------------------------------------------------------------------
(* How an entry ends *)

\* An entry that may fail, or die, with d under the name of the file.
Ends(e, d, M) ==
  /\ IsEntry(e) /\ (~e.open => NotOpenOK(e))
  /\ d = Linked => ~e.doomed /\ Soundable(e.file, M)
  /\ d # Missing /\ d # Linked => Soundable(d, M)

HasFailed(e, d, x, y, o, bad) ==
  /\ x = [e EXCEPT !.failed = TRUE, !.doomed = TRUE]
  /\ y = IF e.doomed THEN d ELSE Unlinked(d)
  /\ o = "none" /\ bad

HasDied(e, d, x, y, bad) == x = Closed /\ y = (IF d = Linked THEN e.file ELSE d) /\ bad

LEMMA SoundableIsFile ==
  ASSUME NEW F, NEW L, Soundable(F, L)
  PROVE  IsFile(F)
BY DEF Soundable, Sound

LEMMA EntryIsNotClosed ==
  ASSUME NEW e, IsEntry(e), Distinct
  PROVE  e # Closed
BY DEF Distinct

FailedOf(x, e) ==
  /\ IsEntry(x) /\ x.failed /\ x.doomed /\ x.open = e.open /\ x.file = e.file
  /\ x.ranges = e.ranges /\ x.size = e.size /\ x.short = e.short

LEMMA FailedFacts ==
  ASSUME NEW e, NEW d, NEW x, NEW y, NEW o, NEW bad, IsEntry(e), HasFailed(e, d, x, y, o, bad)
  PROVE  FailedOf(x, e)
<1>1. {"open", "file", "ranges", "size", "short", "doomed", "failed"} \subseteq Fields
  BY DEF Fields
<1>2. x = [e EXCEPT !.failed = TRUE, !.doomed = TRUE]
  BY DEF HasFailed
<1> QED BY <1>1, <1>2 DEF IsEntry, FailedOf

LEMMA FailsCore ==
  ASSUME NEW e, NEW d, NEW M, NEW C, NEW x, NEW y, NEW o, NEW bad, Ends(e, d, M),
         HasFailed(e, d, x, y, o, bad), Distinct
  PROVE  Core(y, o, x, C, M, bad)
<1>1. /\ IsEntry(x) /\ x.failed /\ x.doomed /\ x.open = e.open /\ x.file = e.file
      /\ x.ranges = e.ranges /\ x.size = e.size /\ x.short = e.short
  <2>1. FailedOf(x, e)
    BY FailedFacts DEF Ends
  <2> QED BY <2>1 DEF FailedOf
<1>2. x # Closed
  BY <1>1, EntryIsNotClosed
<1>3. y # Linked /\ (y = d \/ y = Missing)
  BY DEF HasFailed, Ends, Unlinked, Distinct
<1>4. y # Missing /\ y # Linked => Soundable(y, M)
  BY <1>3 DEF Ends
<1>5. ~x.open => NotOpenOK(x)
  BY <1>1 DEF Ends, NotOpenOK
<1>6. EntryIs(x, y, o, C, M, bad)
  BY <1>1, <1>3, <1>5 DEF EntryIs, HasFailed
<1> QED BY <1>2, <1>4, <1>6 DEF Core

LEMMA DiesCore ==
  ASSUME NEW e, NEW d, NEW M, NEW C, NEW x, NEW y, NEW o, NEW bad, Ends(e, d, M),
         HasDied(e, d, x, y, bad), Distinct
  PROVE  Core(y, o, x, C, M, bad)
<1>1. x = Closed /\ bad
  BY DEF HasDied
<1>2. CASE d = Linked
  <2>1. y = e.file /\ Soundable(y, M)
    BY <1>2 DEF HasDied, Ends
  <2>2. y # Linked
    BY <2>1, SoundableIsFile DEF Distinct
  <2> QED BY <1>1, <2>1, <2>2 DEF Core, ClosedIs
<1>3. CASE d # Linked
  <2>1. y = d
    BY <1>3 DEF HasDied
  <2> QED BY <1>1, <1>3, <2>1 DEF Core, ClosedIs, Ends
<1> QED BY <1>2, <1>3

\* An entry of the invariant may end at any moment.
LEMMA EntryEnds ==
  ASSUME NEW e, NEW d, NEW o, NEW C, NEW L, NEW M, NEW dam, Core(d, o, e, C, L, dam),
         e # Closed, L \subseteq M
  PROVE  Ends(e, d, M)
<1>1. EntryIs(e, d, o, C, L, dam)
  BY DEF Core
<1>2. d # Missing /\ d # Linked => Soundable(d, M)
  BY SoundableMore DEF Core
<1>3. ASSUME d = Linked
      PROVE  ~e.doomed /\ Soundable(e.file, M)
  <2>1. OpenOK(e, C, L, dam) /\ ~e.doomed
    BY <1>1, <1>3 DEF EntryIs
  <2>2. Soundable(e.file, L)
    BY <2>1 DEF OpenOK, Kept, Soundable
  <2> QED BY <2>1, <2>2, SoundableMore
<1> QED BY <1>1, <1>2, <1>3 DEF EntryIs, Ends

-------------------------------------------------------------------------------
(* A write to an open file *)

Opened(e, d, o, C, L, dam) ==
  /\ OpenOK(e, C, L, dam) /\ e.open /\ ~e.failed
  /\ o = IF e.doomed THEN "none" ELSE "valid"
  /\ d = Linked <=> ~e.doomed
  /\ d # Missing /\ d # Linked => Soundable(d, L)
  /\ ~dam => d = Missing \/ d = Linked

LEMMA OpenedCore ==
  ASSUME NEW e, NEW d, NEW o, NEW C, NEW L, NEW dam, Opened(e, d, o, C, L, dam), Distinct
  PROVE  Core(d, o, e, C, L, dam)
<1>1. IsEntry(e)
  BY DEF Opened, OpenOK
<1>2. e # Closed
  BY <1>1, EntryIsNotClosed
<1>3. EntryIs(e, d, o, C, L, dam)
  BY <1>1 DEF Opened, EntryIs
<1> QED BY <1>2, <1>3 DEF Core, Opened

LEMMA CoreOpened ==
  ASSUME NEW e, NEW d, NEW o, NEW C, NEW L, NEW dam, Core(d, o, e, C, L, dam), e # Closed,
         e.open, ~e.failed
  PROVE  Opened(e, d, o, C, L, dam)
BY DEF Core, EntryIs, Opened

\* What a write does: all that is planned, or it ends before that.
Writes(e, d, o, C, dam, offset, len, b, x, y, q, D, bad) ==
  \E cut, lost, plan :
    /\ cut \in WhenWriting(e, len)
    /\ plan = WritePlan(cut, offset, Run(b, len), lost)
    /\ \/ /\ x = Grow(cut, plan) /\ y = d /\ q = o
          /\ D = Overlay(Left(cut, C), offset, len, b)
          /\ Undamaged(bad, dam, plan, cut, e)
       \/ \E n, file, f :
            /\ n \in DOMAIN plan.calls /\ file \in FilesTornAt(cut.file, plan.calls, n)
            /\ f = [cut EXCEPT !.file = file]
            /\ HasFailed(f, d, x, y, q, bad) \/ HasDied(f, d, x, y, bad)

LEMMA TornFacts ==
  ASSUME NEW cut, NEW file, NEW f, IsEntry(cut), f = [cut EXCEPT !.file = file]
  PROVE  IsEntry(f) /\ f.file = file /\ f.open = cut.open /\ f.doomed = cut.doomed
<1>1. {"open", "file", "doomed"} \subseteq Fields
  BY DEF Fields
<1> QED BY <1>1 DEF IsEntry

LEMMA WritesCore ==
  ASSUME NEW e, NEW d, NEW o, NEW C, NEW L, NEW M, NEW dam, NEW offset, NEW len, NEW b,
         NEW x, NEW y, NEW q, NEW D, NEW bad, Opened(e, d, o, C, L, dam), L \subseteq M,
         WriteIn(M, offset, len, b), offset \in Nat, len \in Nat,
         Writes(e, d, o, C, dam, offset, len, b, x, y, q, D, bad), Distinct
  PROVE  Core(y, q, x, D, M, bad)
<1>1. OpenOK(e, C, L, dam)
  BY DEF Opened
<1>2. PICK cut, lost, plan :
        /\ cut \in WhenWriting(e, len)
        /\ plan = WritePlan(cut, offset, Run(b, len), lost)
        /\ \/ /\ x = Grow(cut, plan) /\ y = d /\ q = o
              /\ D = Overlay(Left(cut, C), offset, len, b)
              /\ Undamaged(bad, dam, plan, cut, e)
           \/ \E n, file, f :
                /\ n \in DOMAIN plan.calls /\ file \in FilesTornAt(cut.file, plan.calls, n)
                /\ f = [cut EXCEPT !.file = file]
                /\ HasFailed(f, d, x, y, q, bad) \/ HasDied(f, d, x, y, bad)
  BY DEF Writes
<1>3. d # Missing /\ d # Linked => Soundable(d, M)
  BY SoundableMore DEF Opened
<1>4. CASE /\ x = Grow(cut, plan) /\ y = d /\ q = o
           /\ D = Overlay(Left(cut, C), offset, len, b)
           /\ Undamaged(bad, dam, plan, cut, e)
  <2>1. OpenOK(x, D, M, bad) /\ SameUse(x, e)
    BY <1>1, <1>2, <1>4, WriteKeeps
  <2>2. Opened(x, y, q, D, M, bad)
    <3>1. x.open /\ ~x.failed /\ (x.doomed <=> e.doomed)
      BY <2>1 DEF SameUse, Opened
    <3>2. y = d /\ q = o /\ (~bad => ~dam)
      BY <1>4 DEF Undamaged
    <3> QED BY <1>3, <2>1, <3>1, <3>2 DEF Opened
  <2> QED BY <2>2, OpenedCore
<1>5. CASE \E n, file, f :
             /\ n \in DOMAIN plan.calls /\ file \in FilesTornAt(cut.file, plan.calls, n)
             /\ f = [cut EXCEPT !.file = file]
             /\ HasFailed(f, d, x, y, q, bad) \/ HasDied(f, d, x, y, bad)
  <2>1. PICK n, file, f :
          /\ n \in DOMAIN plan.calls /\ file \in FilesTornAt(cut.file, plan.calls, n)
          /\ f = [cut EXCEPT !.file = file]
          /\ HasFailed(f, d, x, y, q, bad) \/ HasDied(f, d, x, y, bad)
    BY <1>5
  <2>2. PICK g, E : g = Grow(cut, plan) /\ E = Overlay(Left(cut, C), offset, len, b)
    OBVIOUS
  <2>3. TearsOf(cut, plan, M)
    <3>1. Undamaged(bad, dam, plan, cut, e)
      BY <2>1 DEF HasFailed, HasDied, Undamaged
    <3>2. cut \in WhenWriting(e, len) /\ plan = WritePlan(cut, offset, Run(b, len), lost)
      BY <1>2
    <3>3. OpenOK(g, E, M, bad) /\ SameUse(g, e) /\ TearsOf(cut, plan, M)
      BY <1>1, <2>2, <3>1, <3>2, WriteKeeps
    <3> QED BY <3>3
  <2>4. Soundable(file, M)
    BY <2>1, <2>3 DEF TearsOf, Tears
  <2>5. IsEntry(cut) /\ SameStatus(cut, e)
    BY <1>1, <1>2, CutIs DEF CutOK
  <2>6. IsEntry(f) /\ f.file = file /\ f.open = cut.open /\ f.doomed = cut.doomed
    BY <2>1, <2>5, TornFacts
  <2>7. Ends(f, d, M)
    BY <1>3, <2>4, <2>5, <2>6 DEF Ends, SameStatus, Opened
  <2> QED BY <2>1, <2>7, FailsCore, DiesCore
<1> QED BY <1>2, <1>4, <1>5

-------------------------------------------------------------------------------
(* Create and Open *)

\* An entry without a sparse file.
Unopened(e) == IsEntry(e) /\ ~e.open /\ NotOpenOK(e) /\ ~e.doomed /\ ~e.failed

LEMMA FreshFacts ==
  ASSUME NEW born, NEW e, e = Fresh(born)
  PROVE  Unopened(e)
<1>1. e = [born |-> born, open |-> FALSE, file |-> <<>>, ranges |-> NoRanges, tail |-> 0,
           size |-> 0, isNew |-> TRUE, short |-> FALSE, doomed |-> FALSE, failed |-> FALSE]
  BY DEF Fresh
<1>2. DOMAIN e = Fields /\ e = [f \in Fields |-> e[f]]
  BY <1>1 DEF Fields
<1>3. /\ ~e.open /\ e.file = <<>> /\ e.ranges = NoRanges /\ e.size = 0 /\ e.short = FALSE
      /\ ~e.doomed /\ ~e.failed
  BY <1>1
<1> QED BY <1>2, <1>3 DEF Unopened, IsEntry, NotOpenOK

\* The sparse file, when the entry is opened.
OpenedOf(x, F, R, T, size) ==
  /\ IsEntry(x) /\ x.open /\ x.short = FALSE /\ ~x.doomed /\ ~x.failed /\ x.file = F
  /\ x.ranges = R /\ x.tail = T /\ x.size = size

LEMMA OpenedFacts ==
  ASSUME NEW e, NEW x, NEW F, NEW R, NEW T, NEW size, Unopened(e),
         x = [e EXCEPT !.isNew = FALSE, !.open = TRUE, !.file = F, !.ranges = R, !.tail = T,
                       !.size = size]
  PROVE  OpenedOf(x, F, R, T, size)
<1>1. /\ {"isNew", "open", "file", "ranges", "tail"} \subseteq Fields
      /\ {"size", "short", "doomed", "failed"} \subseteq Fields
  BY DEF Fields
<1>2. /\ DOMAIN e = Fields /\ e = [f \in Fields |-> e[f]]
      /\ e.short = FALSE /\ ~e.doomed /\ ~e.failed
  BY DEF Unopened, IsEntry, NotOpenOK
<1>3. x = [e EXCEPT !.isNew = FALSE, !.open = TRUE, !.file = F, !.ranges = R, !.tail = T,
                    !.size = size]
  OBVIOUS
<1>4. DOMAIN x = Fields /\ x = [f \in Fields |-> x[f]]
  BY ONLY <1>2, <1>3
<1>5. /\ x.open /\ x.short = FALSE /\ ~x.doomed /\ ~x.failed /\ x.file = F
      /\ x.ranges = R /\ x.tail = T /\ x.size = size
  BY ONLY <1>1, <1>2, <1>3
<1> QED BY <1>4, <1>5 DEF OpenedOf, IsEntry

LEMMA OldFacts ==
  ASSUME NEW e, NEW x, Unopened(e), x = [e EXCEPT !.isNew = FALSE]
  PROVE  Unopened(x)
<1>1. /\ {"isNew", "open", "file", "ranges"} \subseteq Fields
      /\ {"size", "short", "doomed", "failed"} \subseteq Fields
  BY DEF Fields
<1> QED BY <1>1 DEF Unopened, IsEntry, NotOpenOK

LEMMA UnopenedCore ==
  ASSUME NEW e, NEW d, NEW C, NEW L, NEW dam, Unopened(e), d # Linked,
         d # Missing => Soundable(d, L), ~dam => d = Missing /\ C = NoContent, Distinct
  PROVE  Core(d, "valid", e, C, L, dam)
<1>1. EntryIs(e, d, "valid", C, L, dam)
  BY DEF Unopened, EntryIs
<1>2. e # Closed
  BY EntryIsNotClosed DEF Unopened
<1> QED BY <1>1, <1>2 DEF Core

\* A file that an earlier entry left behind, after damage, is not looked for.
LEMMA CreateCore ==
  ASSUME NEW d, NEW e, NEW C, NEW L, NEW dam, NEW D, NEW M, NEW bad,
         Core(d, "none", Closed, C, L, dam), Unopened(e), d = Missing => D = NoContent,
         d # Missing => M = L /\ (dam => bad), Distinct
  PROVE  Core(d, "valid", e, D, M, bad)
<1>1. ClosedIs(d, "none", C, L, dam)
  BY DEF Core
<1>2. d # Linked /\ (d # Missing => dam)
  BY <1>1 DEF ClosedIs
<1>3. d # Missing => Soundable(d, M)
  BY <1>2 DEF Core
<1> QED BY <1>2, <1>3, UnopenedCore

LEMMA CreateKeeps ==
  ASSUME Inv, Create, Distinct
  PROVE  Inv'
<1>1. PICK d, e, C, L, dam, D, M, bad :
        /\ d = disk /\ e = entry' /\ C = content /\ L = lawful /\ dam = damaged
        /\ D = content' /\ M = lawful' /\ bad = damaged'
  OBVIOUS
<1>2. /\ entry = Closed /\ others = "none" /\ entry' = Fresh(opens + 1) /\ others' = "valid"
      /\ disk' = disk
  BY DEF Create
<1>3. Core(d, "none", Closed, C, L, dam)
  BY <1>1, <1>2 DEF Inv
<1>4. d = Missing => D = NoContent
  BY <1>1 DEF Create
<1>5. d # Missing => M = L /\ (dam => bad)
  BY <1>1 DEF Create
<1>6. Unopened(e)
  BY <1>1, <1>2, FreshFacts
<1>7. Core(d, "valid", e, D, M, bad)
  BY ONLY <1>3, <1>4, <1>5, <1>6, CreateCore, Distinct
<1> QED BY <1>1, <1>2, <1>7 DEF Inv

LEMMA CountedOnce ==
  ASSUME NEW R, NEW T, NEW m, NEW n, Counted(R, T, m), Counted(R, T, n), IsFiniteSet(DOMAIN R),
         T \in Nat
  PROVE  m = n
<1>1. PICK c : c = 2 * Cardinality(DOMAIN R)
  OBVIOUS
<1>2. c \in Nat
  BY <1>1, FS_CardinalityType
<1>3. m \in Nat /\ n \in Nat /\ T - 1 = m + c /\ T - 1 = n + c
  BY <1>1 DEF Counted
<1> QED BY ONLY <1>2, <1>3, T \in Nat

LEMMA ScanOpens ==
  ASSUME NEW F, NEW C, NEW L, NEW dam, NEW scan, Soundable(F, L), scan = ScanSparseFile(F),
         scan.ok, ~dam => Intact(F, C, L)
  PROVE  /\ Kept(F, scan.ranges, scan.tail, L, FALSE)
         /\ ~dam => Unharmed(F, scan.ranges, scan.tail, C, L, scan.size)
<1>1. PICK R, T : Sound(F, R, T, L)
  BY DEF Soundable
<1>2. PICK V : ScanFound(F, R, V, scan)
  BY <1>1, ScanFinds
<1>3. Kept(F, scan.ranges, scan.tail, L, FALSE)
  BY <1>1, <1>2, ScanKeeps
<1>4. ASSUME ~dam
      PROVE  Unharmed(F, scan.ranges, scan.tail, C, L, scan.size)
  <2>1. PICK Q, U, size : Kept(F, Q, U, L, FALSE) /\ Unharmed(F, Q, U, C, L, size)
    BY <1>4 DEF Intact
  <2>2. scan.ok /\ scan.ranges = Q /\ scan.tail = U /\ Counted(Q, U, scan.size)
    <3>1. Kept(F, Q, U, L, FALSE)
      BY <2>1
    <3>2. IsScanOf(scan, Q, U)
      BY <3>1, ScanIs
    <3> QED BY <3>2 DEF IsScanOf
  <2>3. scan.size = size
    <3>1. Counted(Q, U, size) /\ IsFiniteSet(DOMAIN Q) /\ U \in Nat
      BY <2>1 DEF Unharmed, Kept, Sound, IsRanges, Placed
    <3>2. PICK m : m = scan.size
      OBVIOUS
    <3> QED BY <2>2, <3>1, <3>2, CountedOnce
  <2> QED BY <2>1, <2>2, <2>3
<1> QED BY <1>3, <1>4

\* What Open does, with the scan of the file.
OpenDoes(d, o, dam, e, scan, x, y, q, bad) ==
  \/ /\ o = "valid" /\ d = Missing /\ x = [e EXCEPT !.isNew = FALSE]
     /\ y = d /\ q = o /\ (dam => bad)
  \/ /\ o = "valid" /\ d # Missing /\ scan.ok
     /\ x = [e EXCEPT !.isNew = FALSE, !.open = TRUE, !.file = d, !.ranges = scan.ranges,
                      !.tail = scan.tail, !.size = scan.size]
     /\ y = Linked /\ q = o /\ (dam => bad)
  \/ x = Closed /\ y = d /\ q = "none" /\ bad
  \/ x = Closed /\ y = Missing /\ q = "none"

LEMMA OpenCore ==
  ASSUME NEW d, NEW o, NEW C, NEW L, NEW dam, NEW e, NEW scan, NEW x, NEW y, NEW q, NEW bad,
         Core(d, o, Closed, C, L, dam), Unopened(e), d # Missing => scan = ScanSparseFile(d),
         OpenDoes(d, o, dam, e, scan, x, y, q, bad), Distinct
  PROVE  Core(y, q, x, C, L, bad)
<1>1. /\ d # Linked
      /\ d # Missing => Soundable(d, L)
      /\ ~dam /\ d # Missing => Intact(d, C, L)
      /\ ~dam /\ d = Missing /\ o = "valid" => C = NoContent
  BY DEF Core, ClosedIs
<1>2. CASE /\ o = "valid" /\ d = Missing /\ x = [e EXCEPT !.isNew = FALSE]
           /\ y = d /\ q = o /\ (dam => bad)
  <2>1. Unopened(x)
    BY <1>2, OldFacts
  <2>2. ~bad => y = Missing /\ C = NoContent
    BY <1>1, <1>2
  <2> QED BY <1>1, <1>2, <2>1, <2>2, UnopenedCore
<1>3. CASE /\ o = "valid" /\ d # Missing /\ scan.ok
           /\ x = [e EXCEPT !.isNew = FALSE, !.open = TRUE, !.file = d, !.ranges = scan.ranges,
                            !.tail = scan.tail, !.size = scan.size]
           /\ y = Linked /\ q = o /\ (dam => bad)
  <2>1. PICK R, T, size : R = scan.ranges /\ T = scan.tail /\ size = scan.size
    OBVIOUS
  <2>2. /\ Kept(d, R, T, L, FALSE)
        /\ ~dam => Unharmed(d, R, T, C, L, size)
    BY <1>1, <1>3, <2>1, ScanOpens
  <2>3. x = [e EXCEPT !.isNew = FALSE, !.open = TRUE, !.file = d, !.ranges = R, !.tail = T,
                      !.size = size]
    BY <1>3, <2>1
  <2>4. /\ IsEntry(x) /\ x.open /\ x.short = FALSE /\ ~x.doomed /\ ~x.failed /\ x.file = d
        /\ x.ranges = R /\ x.tail = T /\ x.size = size
    <3>1. OpenedOf(x, d, R, T, size)
      BY <2>3, OpenedFacts
    <3> QED BY <3>1 DEF OpenedOf
  <2>5. OpenOK(x, C, L, bad)
    BY <1>3, <2>2, <2>4 DEF OpenOK
  <2>6. Opened(x, y, q, C, L, bad)
    BY <1>3, <2>4, <2>5 DEF Opened
  <2> QED BY <2>6, OpenedCore
<1>4. CASE x = Closed /\ y = d /\ q = "none" /\ bad
  BY <1>1, <1>4 DEF Core, ClosedIs
<1>5. CASE x = Closed /\ y = Missing /\ q = "none"
  BY <1>5 DEF Core, ClosedIs, Distinct
<1> QED BY <1>2, <1>3, <1>4, <1>5 DEF OpenDoes

LEMMA OpenKeeps ==
  ASSUME Inv, Open, Distinct
  PROVE  Inv'
<1>1. PICK d, o, C, L, dam, e, scan, x, y, q, bad :
        /\ d = disk /\ o = others /\ C = content /\ L = lawful /\ dam = damaged
        /\ e = Fresh(opens + 1) /\ scan = ScanSparseFile(IF disk = Missing THEN <<>> ELSE disk)
        /\ x = entry' /\ y = disk' /\ q = others' /\ bad = damaged'
  OBVIOUS
<1>2. entry = Closed /\ content' = content /\ lawful' = lawful
  BY DEF Open
<1>3. Core(d, o, Closed, C, L, dam)
  BY <1>1, <1>2 DEF Inv
<1>4. Unopened(e)
  BY <1>1, FreshFacts
<1>5. d # Missing => scan = ScanSparseFile(d)
  BY <1>1
<1>6. OpenDoes(d, o, dam, e, scan, x, y, q, bad)
  BY <1>1 DEF Open, OpenDoes
<1>7. Core(y, q, x, C, L, bad)
  BY ONLY <1>3, <1>4, <1>5, <1>6, OpenCore, Distinct
<1> QED BY <1>1, <1>2, <1>7 DEF Inv

-------------------------------------------------------------------------------
(* Close, Doom, DeleteFilesForEntryHash, and what fails *)

LEMMA CloseCore ==
  ASSUME NEW d, NEW o, NEW e, NEW C, NEW L, NEW dam, NEW y, Core(d, o, e, C, L, dam),
         e # Closed, y = IF d = Linked THEN e.file ELSE d, Distinct
  PROVE  Core(y, o, Closed, C, L, dam)
<1>1. EntryIs(e, d, o, C, L, dam)
  BY DEF Core
<1>2. CASE d = Linked
  <2>1. OpenOK(e, C, L, dam) /\ o = "valid" /\ y = e.file
    BY <1>1, <1>2 DEF EntryIs
  <2>2. Soundable(y, L)
    BY <2>1 DEF OpenOK, Kept, Soundable
  <2>3. y # Linked /\ y # Missing
    BY <2>2, SoundableIsFile DEF Distinct
  <2>4. ~dam => Intact(y, C, L)
    BY <2>1 DEF OpenOK, Intact
  <2> QED BY <2>1, <2>2, <2>3, <2>4 DEF Core, ClosedIs
<1>3. CASE d # Linked
  <2>1. y = d
    BY <1>3
  <2>2. ~dam => d = Missing
    BY <1>1, <1>3 DEF EntryIs
  <2>3. ~dam /\ o = "valid" => C = NoContent
    BY <1>1, <1>3 DEF EntryIs
  <2> QED BY <1>3, <2>1, <2>2, <2>3 DEF Core, ClosedIs
<1> QED BY <1>2, <1>3

DoomedOf(x, e) ==
  /\ IsEntry(x) /\ x.doomed /\ x.open = e.open /\ x.failed = e.failed /\ x.file = e.file
  /\ x.ranges = e.ranges /\ x.tail = e.tail /\ x.size = e.size /\ x.short = e.short

LEMMA DoomedFacts ==
  ASSUME NEW e, NEW x, IsEntry(e), x = [e EXCEPT !.doomed = TRUE]
  PROVE  DoomedOf(x, e)
<1>1. /\ {"open", "file", "ranges", "tail"} \subseteq Fields
      /\ {"size", "short", "doomed", "failed"} \subseteq Fields
  BY DEF Fields
<1>2. DOMAIN e = Fields /\ e = [f \in Fields |-> e[f]]
  BY DEF IsEntry
<1>3. x = [e EXCEPT !.doomed = TRUE]
  OBVIOUS
<1>4. DOMAIN x = Fields /\ x = [f \in Fields |-> x[f]]
  BY ONLY <1>2, <1>3
<1>5. /\ x.doomed /\ x.open = e.open /\ x.failed = e.failed /\ x.file = e.file
      /\ x.ranges = e.ranges /\ x.tail = e.tail /\ x.size = e.size /\ x.short = e.short
  BY ONLY <1>1, <1>2, <1>3
<1> QED BY <1>4, <1>5 DEF DoomedOf, IsEntry

LEMMA DoomCore ==
  ASSUME NEW d, NEW o, NEW e, NEW C, NEW L, NEW dam, NEW x, NEW y, Core(d, o, e, C, L, dam),
         e # Closed, ~e.failed, x = [e EXCEPT !.doomed = TRUE], y = Unlinked(d), Distinct
  PROVE  Core(y, "none", x, C, L, dam)
<1>1. EntryIs(e, d, o, C, L, dam)
  BY DEF Core
<1>2. DoomedOf(x, e)
  BY <1>1, DoomedFacts DEF EntryIs
<1>3. y # Linked /\ (y = d \/ y = Missing) /\ (d = Linked => y = Missing)
  BY DEF Unlinked, Distinct
<1>4. ~x.open => NotOpenOK(x) /\ (~dam => C = NoContent)
  BY <1>1, <1>2 DEF EntryIs, NotOpenOK, DoomedOf
<1>5. x.open => OpenOK(x, C, L, dam)
  <2>1. x.open => OpenOK(e, C, L, dam)
    BY <1>1, <1>2 DEF EntryIs, DoomedOf
  <2> QED BY <1>2, <2>1 DEF OpenOK, DoomedOf
<1>6. x.doomed /\ ~x.failed /\ IsEntry(x)
  BY <1>2 DEF DoomedOf
<1>7. ~dam => y = Missing \/ y = Linked
  BY <1>1, <1>3 DEF EntryIs
<1>8. EntryIs(x, y, "none", C, L, dam)
  BY <1>3, <1>4, <1>5, <1>6, <1>7 DEF EntryIs
<1>9. x # Closed
  BY <1>6, EntryIsNotClosed
<1> QED BY <1>3, <1>8, <1>9 DEF Core

LEMMA DeleteCore ==
  ASSUME NEW d, NEW o, NEW C, NEW L, NEW dam, NEW y, NEW bad, Core(d, o, Closed, C, L, dam),
         y = Missing \/ (y = d /\ bad), Distinct
  PROVE  Core(y, "none", Closed, C, L, bad)
BY DEF Core, ClosedIs, Distinct

LEMMA CloseDoomsCore ==
  ASSUME NEW d, NEW o, NEW e, NEW C, NEW L, NEW dam, NEW y, Core(d, o, e, C, L, dam),
         e # Closed, y = Unlinked(d), Distinct
  PROVE  Core(y, "none", Closed, C, L, dam)
<1>1. EntryIs(e, d, o, C, L, dam)
  BY DEF Core
<1>2. y # Linked /\ (y = d \/ y = Missing) /\ (d = Linked => y = Missing)
  BY DEF Unlinked, Distinct
<1>3. ~dam => y = Missing
  BY <1>1, <1>2 DEF EntryIs
<1>4. y # Missing => Soundable(y, L)
  BY <1>2 DEF Core
<1> QED BY <1>2, <1>3, <1>4 DEF Core, ClosedIs

LEMMA CloseKeeps ==
  ASSUME Inv, Close, Distinct
  PROVE  Inv'
<1>1. PICK d, o, e, C, L, dam, y :
        /\ d = disk /\ o = others /\ e = entry /\ C = content /\ L = lawful /\ dam = damaged
        /\ y = disk'
  OBVIOUS
<1>2. /\ entry # Closed /\ entry' = Closed
      /\ content' = content /\ lawful' = lawful /\ damaged' = damaged
      /\ \/ disk' = (IF disk = Linked THEN entry.file ELSE disk) /\ others' = others
         \/ disk' = Unlinked(disk) /\ others' = "none"
  BY DEF Close
<1>3. Core(d, o, e, C, L, dam) /\ e # Closed
  BY <1>1, <1>2 DEF Inv
<1>4. CASE disk' = (IF disk = Linked THEN entry.file ELSE disk) /\ others' = others
  <2>1. y = IF d = Linked THEN e.file ELSE d
    BY <1>1, <1>4
  <2>2. Core(y, o, Closed, C, L, dam)
    BY <1>3, <2>1, CloseCore
  <2> QED BY <1>1, <1>2, <1>4, <2>2 DEF Inv
<1>5. CASE disk' = Unlinked(disk) /\ others' = "none"
  <2>1. y = Unlinked(d)
    BY <1>1, <1>5
  <2>2. Core(y, "none", Closed, C, L, dam)
    BY <1>3, <2>1, CloseDoomsCore
  <2> QED BY <1>1, <1>2, <1>5, <2>2 DEF Inv
<1> QED BY <1>2, <1>4, <1>5

LEMMA DoomKeeps ==
  ASSUME Inv, Doom, Distinct
  PROVE  Inv'
<1>1. PICK d, o, e, C, L, dam, x, y :
        /\ d = disk /\ o = others /\ e = entry /\ C = content /\ L = lawful /\ dam = damaged
        /\ x = entry' /\ y = disk'
  OBVIOUS
<1>2. /\ entry # Closed /\ ~entry.failed /\ entry' = [entry EXCEPT !.doomed = TRUE]
      /\ disk' = Unlinked(disk) /\ others' = "none"
      /\ content' = content /\ lawful' = lawful /\ damaged' = damaged
  BY DEF Doom, Ready
<1>3. Core(d, o, e, C, L, dam)
  BY <1>1 DEF Inv
<1>4. e # Closed /\ ~e.failed /\ x = [e EXCEPT !.doomed = TRUE] /\ y = Unlinked(d)
  BY <1>1, <1>2
<1>5. Core(y, "none", x, C, L, dam)
  BY <1>3, <1>4, DoomCore
<1> QED BY <1>1, <1>2, <1>5 DEF Inv

LEMMA DeleteKeeps ==
  ASSUME Inv, DeleteFilesForEntryHash, Distinct
  PROVE  Inv'
<1>1. PICK d, o, C, L, dam, y, bad :
        /\ d = disk /\ o = others /\ C = content /\ L = lawful /\ dam = damaged
        /\ y = disk' /\ bad = damaged'
  OBVIOUS
<1>2. /\ entry = Closed /\ entry' = Closed /\ others' = "none" /\ content' = content
      /\ lawful' = lawful
      /\ disk' = Missing \/ (disk' = disk /\ damaged')
  BY DEF DeleteFilesForEntryHash
<1>3. Core(d, o, Closed, C, L, dam)
  BY <1>1, <1>2 DEF Inv
<1>4. y = Missing \/ (y = d /\ bad)
  BY <1>1, <1>2
<1>5. Core(y, "none", Closed, C, L, bad)
  BY <1>3, <1>4, DeleteCore
<1> QED BY <1>1, <1>2, <1>5 DEF Inv

\* An entry that ends, in an operation that has done something or before it has.
LEMMA EndingKeeps ==
  ASSUME Inv, entry # Closed, Fails(entry, disk) \/ Dies(entry, disk), content' = content,
         lawful' = lawful, Distinct
  PROVE  Inv'
<1>1. PICK d, o, e, C, L, dam, x, y, q, bad :
        /\ d = disk /\ o = others /\ e = entry /\ C = content /\ L = lawful /\ dam = damaged
        /\ x = entry' /\ y = disk' /\ q = others' /\ bad = damaged'
  OBVIOUS
<1>2. Core(d, o, e, C, L, dam) /\ e # Closed /\ L \subseteq L
  BY <1>1 DEF Inv
<1>3. Ends(e, d, L)
  BY <1>2, EntryEnds
<1>4. HasFailed(e, d, x, y, q, bad) \/ HasDied(e, d, x, y, bad)
  BY <1>1 DEF Fails, Dies, HasFailed, HasDied
<1>5. Core(y, q, x, C, L, bad)
  BY <1>3, <1>4, FailsCore, DiesCore
<1> QED BY <1>1, <1>5 DEF Inv

-------------------------------------------------------------------------------
(* WriteSparseData *)

LEMMA WriteToDoes ==
  ASSUME NEW STATE e, NEW STATE d, NEW offset, NEW length, WriteTo(e, d, offset, length)
  PROVE  \E x, y, q, D, bad, o, C, dam, b :
           /\ x = entry' /\ y = disk' /\ q = others' /\ D = content' /\ bad = damaged'
           /\ o = others /\ C = content /\ dam = damaged /\ b = writes + 1
           /\ Writes(e, d, o, C, dam, offset, length, b, x, y, q, D, bad)
<1>1. PICK x, y, q, D, bad, o, C, dam, b :
        /\ x = entry' /\ y = disk' /\ q = others' /\ D = content' /\ bad = damaged'
        /\ o = others /\ C = content /\ dam = damaged /\ b = writes + 1
  OBVIOUS
<1>2. PICK cut \in WhenWriting(e, length), lost \in LostAt(offset, length) :
        LET plan == WritePlan(cut, offset, Bytes(length), lost)
        IN \/ /\ entry' = [cut EXCEPT !.file = FileAfter(@, plan.calls),
                                      !.ranges = plan.ranges, !.tail = plan.tail,
                                      !.size = @ + plan.appended, !.short = plan.short]
              /\ disk' = d
              /\ content' = ContentAfter(cut, offset, length)
              /\ damaged' = (damaged \/ plan.short \/ (cut.size # e.size /\ cut.ranges # NoRanges))
              /\ UNCHANGED others
           \/ /\ \E n \in DOMAIN plan.calls :
                   \E file \in FilesTornAt(cut.file, plan.calls, n) :
                     Ended([cut EXCEPT !.file = file], d)
              /\ UNCHANGED content
  BY DEF WriteTo
<1>3. PICK plan : plan = WritePlan(cut, offset, Run(b, length), lost)
  OBVIOUS
<1>4. plan = WritePlan(cut, offset, Bytes(length), lost)
  BY <1>1, <1>3 DEF Bytes, Run
<1>5. CASE /\ entry' = [cut EXCEPT !.file = FileAfter(@, plan.calls),
                                   !.ranges = plan.ranges, !.tail = plan.tail,
                                   !.size = @ + plan.appended, !.short = plan.short]
           /\ disk' = d
           /\ content' = ContentAfter(cut, offset, length)
           /\ damaged' = (damaged \/ plan.short \/ (cut.size # e.size /\ cut.ranges # NoRanges))
           /\ UNCHANGED others
  <2>1. x = Grow(cut, plan) /\ y = d /\ q = o
    BY <1>1, <1>5 DEF Grow
  <2>2. D = Overlay(Left(cut, C), offset, length, b)
    BY <1>1, <1>5 DEF ContentAfter, Overlay, Left
  <2>3. Undamaged(bad, dam, plan, cut, e)
    BY <1>1, <1>5 DEF Undamaged, IsDamage
  <2>4. Writes(e, d, o, C, dam, offset, length, b, x, y, q, D, bad)
    BY <1>2, <1>3, <2>1, <2>2, <2>3 DEF Writes
  <2> QED BY <1>1, <2>4
<1>6. CASE \E n \in DOMAIN plan.calls :
             \E file \in FilesTornAt(cut.file, plan.calls, n) :
               Ended([cut EXCEPT !.file = file], d)
  <2>0. PICK n \in DOMAIN plan.calls :
          \E file \in FilesTornAt(cut.file, plan.calls, n) : Ended([cut EXCEPT !.file = file], d)
    BY <1>6
  <2>1. PICK file \in FilesTornAt(cut.file, plan.calls, n) : Ended([cut EXCEPT !.file = file], d)
    BY <2>0
  <2>2. PICK f : f = [cut EXCEPT !.file = file]
    OBVIOUS
  <2>3. HasFailed(f, d, x, y, q, bad) \/ HasDied(f, d, x, y, bad)
    BY <1>1, <2>1, <2>2 DEF Ended, Fails, Dies, HasFailed, HasDied
  <2>4. Writes(e, d, o, C, dam, offset, length, b, x, y, q, D, bad)
    BY <1>2, <1>3, <2>1, <2>2, <2>3 DEF Writes
  <2> QED BY <1>1, <2>4
<1> QED BY <1>2, <1>4, <1>5, <1>6

LEMMA WriteToCore ==
  ASSUME NEW STATE e, NEW STATE d, NEW offset, NEW length, WriteTo(e, d, offset, length),
         Opened(e, d, others, content, lawful, damaged), lawful \subseteq lawful',
         WriteIn(lawful', offset, length, writes + 1), offset \in Nat, length \in Nat, Distinct
  PROVE  Inv'
<1>1. PICK x, y, q, D, bad, o, C, dam, b :
        /\ x = entry' /\ y = disk' /\ q = others' /\ D = content' /\ bad = damaged'
        /\ o = others /\ C = content /\ dam = damaged /\ b = writes + 1
        /\ Writes(e, d, o, C, dam, offset, length, b, x, y, q, D, bad)
  BY WriteToDoes
<1>2. PICK L, M : L = lawful /\ M = lawful'
  OBVIOUS
<1>3. Opened(e, d, o, C, L, dam) /\ L \subseteq M /\ WriteIn(M, offset, length, b)
  BY <1>1, <1>2
<1>4. Writes(e, d, o, C, dam, offset, length, b, x, y, q, D, bad)
  BY <1>1
<1>5. Core(y, q, x, D, M, bad)
  BY ONLY <1>3, <1>4, offset \in Nat, length \in Nat, Distinct, WritesCore
<1> QED BY <1>1, <1>2, <1>5 DEF Inv

\* The file that the first write creates.
CreatedOf(x, e, F) ==
  /\ IsEntry(x) /\ x.open /\ x.file = F /\ x.ranges = NoRanges /\ x.tail = 1
  /\ x.size = e.size /\ x.short = e.short /\ x.doomed = e.doomed /\ x.failed = e.failed

LEMMA CreatedFacts ==
  ASSUME NEW e, NEW x, NEW F, IsEntry(e), x = Created(e),
         F = FileAfter(<<>>, CreateCalls(e.born))
  PROVE  CreatedOf(x, e, F)
<1>1. /\ {"open", "file", "ranges", "tail"} \subseteq Fields
      /\ {"size", "short", "doomed", "failed"} \subseteq Fields
  BY DEF Fields
<1>2. DOMAIN e = Fields /\ e = [f \in Fields |-> e[f]]
  BY DEF IsEntry
<1>3. x = [e EXCEPT !.open = TRUE, !.file = F, !.ranges = NoRanges, !.tail = 1]
  BY DEF Created, HeaderSize
<1>4. DOMAIN x = Fields /\ x = [f \in Fields |-> x[f]]
  BY ONLY <1>2, <1>3
<1>5. /\ x.open /\ x.file = F /\ x.ranges = NoRanges /\ x.tail = 1
      /\ x.size = e.size /\ x.short = e.short /\ x.doomed = e.doomed /\ x.failed = e.failed
  BY ONLY <1>1, <1>2, <1>3
<1> QED BY <1>4, <1>5 DEF CreatedOf, IsEntry

LEMMA CreatedOpens ==
  ASSUME NEW e, NEW d, NEW o, NEW C, NEW L, NEW dam, NEW x, NEW y, Core(d, o, e, C, L, dam),
         e # Closed, ~e.open, ~e.failed, x = Created(e), y = IF e.doomed THEN d ELSE Linked
  PROVE  Opened(x, y, o, C, L, dam)
<1>1. EntryIs(e, d, o, C, L, dam)
  BY DEF Core
<1>2. PICK F, born : F = FileAfter(<<>>, CreateCalls(born)) /\ born = e.born
  OBVIOUS
<1>3. Long(F, 1) /\ F[1].kind = "header"
  <2>1. PICK f : f = <<>>
    OBVIOUS
  <2>2. F = FileAfter(f, CreateCalls(born))
    BY <1>2, <2>1
  <2> QED BY ONLY <2>1, <2>2, CreatedFile
<1>4. CreatedOf(x, e, F)
  BY <1>1, <1>2, CreatedFacts DEF EntryIs
<1>5. /\ Kept(F, NoRanges, 1, L, FALSE) /\ Holds(F, NoRanges, NoContent)
      /\ Counted(NoRanges, 1, 0)
  BY <1>3, HeaderOnly
<1>6. e.size = 0 /\ e.short = FALSE /\ (~dam => C = NoContent)
  BY <1>1 DEF EntryIs, NotOpenOK
<1>7. Limited(0, L)
  BY SparseAssumption DEF Limited
<1>8. OpenOK(x, C, L, dam)
  BY <1>4, <1>5, <1>6, <1>7 DEF CreatedOf, OpenOK, Unharmed
<1>9. d # Linked
  BY <1>1 DEF EntryIs
<1>10. /\ x.open /\ ~x.failed /\ (x.doomed <=> e.doomed)
  BY <1>4 DEF CreatedOf
<1>11. o = (IF e.doomed THEN "none" ELSE "valid") /\ (~dam => d = Missing \/ d = Linked)
  BY <1>1 DEF EntryIs
<1>12. d # Missing /\ d # Linked => Soundable(d, L)
  BY DEF Core
<1> QED BY <1>8, <1>9, <1>10, <1>11, <1>12 DEF Opened

\* The entry ends before the file is whole.
LEMMA NotCreatedCore ==
  ASSUME NEW e, NEW d, NEW o, NEW C, NEW L, NEW M, NEW dam, NEW file, NEW z,
         Core(d, o, e, C, L, dam), e # Closed, ~e.open, L \subseteq M, file = <<>>,
         z = IF e.doomed THEN d ELSE file, Distinct
  PROVE  Ends(e, z, M)
<1>1. Ends(e, d, M) /\ d # Linked
  <2>1. d # Linked
    BY DEF Core, EntryIs
  <2> QED BY <2>1, EntryEnds
<1>2. Soundable(file, M) /\ file # Linked
  <2>1. Soundable(file, M)
    BY NothingIsSoundable
  <2> QED BY <2>1, SoundableIsFile DEF Distinct
<1>3. CASE e.doomed
  BY <1>1, <1>3
<1>4. CASE ~e.doomed
  <2>1. z = file
    BY <1>4
  <2> QED BY <1>1, <1>2, <2>1 DEF Ends
<1> QED BY <1>3, <1>4

LEMMA NotCreatedKeeps ==
  ASSUME Inv, entry # Closed, ~entry.open, NotCreated, content' = content,
         lawful \subseteq lawful', Distinct
  PROVE  Inv'
<1>1. PICK d, o, e, C, L, M, dam, x, y, q, bad :
        /\ d = disk /\ o = others /\ e = entry /\ C = content /\ L = lawful /\ dam = damaged
        /\ x = entry' /\ y = disk' /\ q = others' /\ bad = damaged' /\ M = lawful'
  OBVIOUS
<1>2. Core(d, o, e, C, L, dam) /\ e # Closed /\ ~e.open /\ L \subseteq M
  BY <1>1 DEF Inv
<1>3. CASE Fails(entry, disk)
  <2>1. Ends(e, d, M)
    BY <1>2, EntryEnds
  <2>2. HasFailed(e, d, x, y, q, bad)
    BY <1>1, <1>3 DEF Fails, HasFailed
  <2>3. Core(y, q, x, C, M, bad)
    BY <2>1, <2>2, FailsCore
  <2> QED BY <1>1, <2>3 DEF Inv
<1>4. CASE \E n \in DOMAIN CreateCalls(entry.born) :
             \E file \in FilesTornAt(<<>>, CreateCalls(entry.born), n) :
               Ended(entry, IF entry.doomed THEN disk ELSE file)
  <2>1. PICK n \in DOMAIN CreateCalls(entry.born) :
          \E file \in FilesTornAt(<<>>, CreateCalls(entry.born), n) :
            Ended(entry, IF entry.doomed THEN disk ELSE file)
    BY <1>4
  <2>2. PICK file \in FilesTornAt(<<>>, CreateCalls(entry.born), n) :
          Ended(entry, IF entry.doomed THEN disk ELSE file)
    BY <2>1
  <2>3. file = <<>>
    <3>1. PICK f, born, calls : f = <<>> /\ born = entry.born /\ calls = CreateCalls(born)
      OBVIOUS
    <3>2. n \in DOMAIN CreateCalls(born) /\ file \in FilesTornAt(f, CreateCalls(born), n)
      BY <2>1, <2>2, <3>1
    <3>3. PICK G : G = FileAfter(f, CreateCalls(born))
      OBVIOUS
    <3>4. f = <<>>
      BY <3>1
    <3> QED BY ONLY <3>2, <3>3, <3>4, CreatedFile
  <2>4. PICK z : z = IF e.doomed THEN d ELSE file
    OBVIOUS
  <2>5. Ends(e, z, M)
    BY <1>2, <2>3, <2>4, NotCreatedCore
  <2>6. HasFailed(e, z, x, y, q, bad) \/ HasDied(e, z, x, y, bad)
    BY <1>1, <2>2, <2>4 DEF Ended, Fails, Dies, HasFailed, HasDied
  <2>7. Core(y, q, x, C, M, bad)
    BY <2>5, <2>6, FailsCore, DiesCore
  <2> QED BY <1>1, <2>7 DEF Inv
<1> QED BY <1>3, <1>4 DEF NotCreated

LEMMA WriteSparseDataKeeps ==
  ASSUME NEW offset \in Nat, NEW length \in Nat, Inv, WriteSparseData(offset, length), Distinct
  PROVE  Inv'
<1>1. entry # Closed /\ ~entry.failed
  BY DEF WriteSparseData, Ready
<1>2. lawful \subseteq lawful' /\ WriteIn(lawful', offset, length, writes + 1)
  <2>1. PICK w, b : w = [offset |-> offset, length |-> length, byte |-> b] /\ b = writes + 1
    OBVIOUS
  <2>2. lawful' = lawful \cup {w}
    BY <2>1 DEF WriteSparseData
  <2>3. w.offset = offset /\ w.length = length /\ w.byte = b
    BY <2>1
  <2> QED BY <2>1, <2>2, <2>3 DEF WriteIn
<1>3. PICK e, d, o, C, L, dam :
        /\ e = entry /\ d = disk /\ o = others /\ C = content /\ L = lawful /\ dam = damaged
  OBVIOUS
<1>4. Core(d, o, e, C, L, dam) /\ e # Closed /\ ~e.failed
  BY <1>1, <1>3 DEF Inv
<1>5. CASE entry.open /\ WriteTo(entry, disk, offset, length)
  <2>1. Opened(e, d, o, C, L, dam)
    BY <1>3, <1>4, <1>5, CoreOpened
  <2>2. Opened(entry, disk, others, content, lawful, damaged)
    BY <1>3, <2>1
  <2> QED BY <1>2, <1>5, <2>2, WriteToCore
<1>6. CASE ~entry.open /\ NotCreated /\ content' = content
  BY <1>1, <1>2, <1>6, NotCreatedKeeps
<1>7. CASE /\ ~entry.open
           /\ WriteTo(Created(entry), IF entry.doomed THEN disk ELSE Linked, offset, length)
  <2>1. PICK x, y : x = Created(entry) /\ y = IF entry.doomed THEN disk ELSE Linked
    OBVIOUS
  <2>2. Opened(x, y, o, C, L, dam)
    <3>1. x = Created(e) /\ y = (IF e.doomed THEN d ELSE Linked) /\ ~e.open
      BY <1>3, <1>7, <2>1
    <3> QED BY ONLY <1>4, <3>1, CreatedOpens
  <2>3. Opened(Created(entry), IF entry.doomed THEN disk ELSE Linked, others, content, lawful,
               damaged)
    BY <1>3, <2>1, <2>2
  <2> QED BY <1>2, <1>7, <2>3, WriteToCore
<1> QED BY <1>5, <1>6, <1>7 DEF WriteSparseData

-------------------------------------------------------------------------------
(* The invariant *)

LEMMA InvInit ==
  ASSUME Init, Distinct
  PROVE  Inv
<1>1. /\ disk = Missing /\ others = "none" /\ entry = Closed /\ content = NoContent
  BY DEF Init
<1> QED BY <1>1 DEF Inv, Core, ClosedIs, Distinct

LEMMA InvStep ==
  ASSUME Inv, Next, Distinct
  PROVE  Inv'
<1>1. CASE Create
  BY <1>1, CreateKeeps
<1>2. CASE Open
  BY <1>2, OpenKeeps
<1>3. CASE FailRead
  <2>1. /\ entry # Closed /\ Fails(entry, disk) /\ content' = content /\ lawful' = lawful
    BY <1>3 DEF FailRead, Ready
  <2> QED BY <2>1, EndingKeeps
<1>4. CASE \E offset \in 0 .. MaxOffset - 1 : \E length \in 1 .. MaxOffset - offset :
             WriteSparseData(offset, length)
  <2>1. PICK offset \in 0 .. MaxOffset - 1 :
          \E length \in 1 .. MaxOffset - offset : WriteSparseData(offset, length)
    BY <1>4
  <2>2. PICK length \in 1 .. MaxOffset - offset : WriteSparseData(offset, length)
    BY <2>1
  <2>3. MaxOffset \in Nat
    BY SparseAssumption
  <2>4. offset \in Nat /\ length \in Nat
    BY <2>3
  <2> QED BY <2>2, <2>4, WriteSparseDataKeeps
<1>5. CASE Close
  BY <1>5, CloseKeeps
<1>6. CASE Doom
  BY <1>6, DoomKeeps
<1>7. CASE DeleteFilesForEntryHash
  BY <1>7, DeleteKeeps
<1>8. CASE Crash
  <2>1. /\ entry # Closed /\ Dies(entry, disk) /\ content' = content /\ lawful' = lawful
    BY <1>8 DEF Crash
  <2> QED BY <2>1, EndingKeeps
<1> QED BY <1>1, <1>2, <1>3, <1>4, <1>5, <1>6, <1>7, <1>8 DEF Next

\* Whatever fails, is cut short or dies in whichever call of WriteSparseRange,
\* AppendSparseRange, TruncateSparseFile and CreateSparseFile, the file is one that
\* ScanSparseFile takes for what was written, or turns down.
THEOREM SparseFileIsSound ==
  ASSUME Distinct
  PROVE  Spec => []Inv
<1>1. Init => Inv
  BY InvInit
<1>2. Inv /\ [Next]_vars => Inv'
  <2>1. ASSUME Inv, Next
        PROVE  Inv'
    BY <2>1, InvStep
  <2>2. ASSUME Inv, UNCHANGED vars
        PROVE  Inv'
    BY <2>2 DEF Inv, vars
  <2> QED BY <2>1, <2>2
<1> QED BY <1>1, <1>2, PTL DEF Spec

-------------------------------------------------------------------------------
(* The properties *)

\* What reads and queries work on.
Answers(e, L) == IsRanges(e.ranges, L) /\ Disjoint(e.ranges) /\ IsFile(e.file)

LEMMA ReadyAnswers ==
  ASSUME NEW e, NEW d, NEW o, NEW C, NEW L, NEW dam, Core(d, o, e, C, L, dam), e # Closed,
         ~e.failed
  PROVE  Answers(e, L) /\ (~dam => Holds(e.file, e.ranges, C))
<1>1. EntryIs(e, d, o, C, L, dam)
  BY DEF Core
<1>2. CASE e.open
  <2>1. OpenOK(e, C, L, dam)
    BY <1>1, <1>2 DEF EntryIs
  <2> QED BY <2>1 DEF OpenOK, Kept, Sound, Unharmed, Answers
<1>3. CASE ~e.open
  <2>1. e.file = <<>> /\ e.ranges = NoRanges /\ (~dam => C = NoContent)
    BY <1>1, <1>3 DEF EntryIs, NotOpenOK
  <2>2. DOMAIN NoRanges = {} /\ NoRanges = [x \in {} |-> NoRanges[x]]
    BY DEF NoRanges
  <2>3. DOMAIN NoContent = {} /\ NoContent = [x \in {} |-> NoContent[x]]
    BY DEF NoContent
  <2>4. IsRanges(NoRanges, L) /\ Disjoint(NoRanges)
    BY <2>2, FS_EmptySet DEF IsRanges, Disjoint
  <2>5. IsFile(e.file)
    BY <2>1, EmptyIsFile
  <2>6. Holds(e.file, NoRanges, NoContent)
    BY <2>2, <2>3 DEF Holds, InRange
  <2> QED BY <2>1, <2>4, <2>5, <2>6 DEF Answers
<1> QED BY <1>2, <1>3

LEMMA RequestFacts ==
  ASSUME NEW r \in Requests
  PROVE  r[1] \in Nat /\ r[2] \in Nat /\ r[2] > 0
<1>1. MaxOffset \in Nat
  BY SparseAssumption
<1>2. r[1] \in 0 .. MaxOffset - 1 /\ r[2] \in 1 .. MaxOffset
  BY DEF Requests
<1> QED BY <1>1, <1>2

LEMMA InvReads ==
  ASSUME Inv
  PROVE  SparseReadsReturnWritten
<1>1. SUFFICES ASSUME Ready, ~damaged, NEW r \in Requests
               PROVE  /\ ReadSparseData(entry, r[1], r[2]).ok
                      /\ ReadSparseData(entry, r[1], r[2]).cells = WrittenFrom(r[1], r[2])
                      /\ GetAvailableRange(entry, r[1], r[2]) = FirstWritten(r[1], r[2])
  BY DEF SparseReadsReturnWritten
<1>2. PICK e, d, o, C, L, dam, offset, length :
        /\ e = entry /\ d = disk /\ o = others /\ C = content /\ L = lawful /\ dam = damaged
        /\ offset = r[1] /\ length = r[2]
  OBVIOUS
<1>3. offset \in Nat /\ length \in Nat /\ length > 0
  BY <1>2, RequestFacts
<1>4. Core(d, o, e, C, L, dam) /\ e # Closed /\ ~e.failed /\ ~dam
  BY <1>1, <1>2 DEF Inv, Ready
<1>5. Answers(e, L) /\ Holds(e.file, e.ranges, C)
  BY <1>4, ReadyAnswers
<1>6. IsRanges(e.ranges, L) /\ Disjoint(e.ranges) /\ IsFile(e.file)
  BY <1>5 DEF Answers
<1>7. PICK m :
        /\ m \in Nat /\ m <= length /\ ReadSparseData(e, offset, length).ok
        /\ IsContent(ReadSparseData(e, offset, length).cells, C, offset, m)
        /\ \A x \in offset .. offset + m - 1 : x \in DOMAIN C
        /\ m = length \/ offset + m \notin DOMAIN C
  BY <1>3, <1>5, <1>6, ReadIs
<1>8. WrittenFrom(offset, length) = ReadTo(content, offset, m)
  BY <1>2, <1>3, <1>7, WrittenIs
<1>9. ReadSparseData(e, offset, length).cells = ReadTo(C, offset, m)
  BY <1>7, SameAsRead
<1>10. GetAvailableRange(e, offset, length) = FirstWritten(offset, length)
  <2>1. PICK F, R : F = e.file /\ R = e.ranges
    OBVIOUS
  <2>2. Holds(F, R, content)
    BY <1>2, <1>5, <2>1
  <2>3. R = e.ranges /\ IsRanges(R, L) /\ Disjoint(R)
    BY <1>6, <2>1
  <2> QED BY ONLY <1>3, <2>2, <2>3, QueryIs
<1> QED BY <1>2, <1>7, <1>8, <1>9, <1>10

LEMMA InvChecks ==
  ASSUME Inv
  PROVE  SparseChecksumsTellDamage
<1>1. SUFFICES ASSUME Ready, NEW r \in Requests, ReadSparseData(entry, r[1], r[2]).ok,
                      NEW range \in ReadSparseData(entry, r[1], r[2]).whole
               PROVE  \E w \in lawful :
                        /\ w.offset <= range.offset
                        /\ range.offset + range.length <= w.offset + w.length
                        /\ Range(Cells(entry.file, range.at, range.length)) = {Byte(w.byte)}
  BY DEF SparseChecksumsTellDamage
<1>2. PICK e, d, o, C, L, dam, offset, length :
        /\ e = entry /\ d = disk /\ o = others /\ C = content /\ L = lawful /\ dam = damaged
        /\ offset = r[1] /\ length = r[2]
  OBVIOUS
<1>3. offset \in Nat /\ length \in Nat
  BY <1>2, RequestFacts
<1>4. Core(d, o, e, C, L, dam) /\ e # Closed /\ ~e.failed
  BY <1>1, <1>2 DEF Inv, Ready
<1>5. Answers(e, L)
  BY <1>4, ReadyAnswers
<1>6. IsRanges(e.ranges, L) /\ Disjoint(e.ranges) /\ IsFile(e.file)
  BY <1>5 DEF Answers
<1>7. Checked(e.file, e.ranges, ReadSparseData(e, offset, length).whole)
  BY <1>1, <1>2, <1>3, <1>6, WholeIsChecked
<1>8. PICK F, R, whole : /\ F = e.file /\ R = e.ranges
                         /\ whole = ReadSparseData(e, offset, length).whole
  OBVIOUS
<1>9. IsRanges(R, L) /\ Checked(F, R, whole) /\ range \in whole
  BY <1>1, <1>2, <1>6, <1>7, <1>8
<1>10. \E w \in L : /\ w.offset <= range.offset
                    /\ range.offset + range.length <= w.offset + w.length
                    /\ Range(Cells(F, range.at, range.length)) = {Byte(w.byte)}
  BY <1>9, CheckedIsOneWrite
<1> QED BY <1>2, <1>8, <1>10

LEMMA InvRanges ==
  ASSUME Inv
  PROVE  RangesMatchFile
<1>1. SUFFICES ASSUME Ready, entry.open, ~entry.short, NEW scan,
                      scan = ScanSparseFile(entry.file)
               PROVE  /\ scan.ok /\ scan.ranges = entry.ranges /\ scan.tail = entry.tail
                      /\ ~damaged => /\ scan.size = entry.size
                                     /\ \/ entry.size <= MaxSparseData
                                        \/ \E w \in lawful : w.length >= entry.size
                      /\ \A o, p \in DOMAIN entry.ranges : o < p => o + entry.ranges[o].length <= p
  BY DEF RangesMatchFile
<1>2. PICK e, d, o, C, L, dam :
        /\ e = entry /\ d = disk /\ o = others /\ C = content /\ L = lawful /\ dam = damaged
  OBVIOUS
<1>3. PICK F, R, T, size : F = e.file /\ R = e.ranges /\ T = e.tail /\ size = e.size
  OBVIOUS
<1>4. OpenOK(e, C, L, dam) /\ ~e.short
  BY <1>1, <1>2 DEF Inv, Ready, Core, EntryIs
<1>5. Kept(F, R, T, L, FALSE) /\ (~dam => Counted(R, T, size) /\ Limited(size, L))
  BY <1>3, <1>4 DEF OpenOK, Unharmed
<1>6. IsScanOf(scan, R, T)
  <2>1. scan = ScanSparseFile(F)
    BY <1>1, <1>2, <1>3
  <2> QED BY ONLY <1>5, <2>1, ScanIs
<1>7. scan.ok /\ scan.ranges = R /\ scan.tail = T
  BY <1>6 DEF IsScanOf
<1>8. ~dam => scan.size = size
  <2>1. IsFiniteSet(DOMAIN R) /\ T \in Nat
    BY <1>5 DEF Kept, Sound, IsRanges, Placed
  <2>2. PICK m : m = scan.size
    OBVIOUS
  <2>3. Counted(R, T, m)
    BY <1>6, <2>2 DEF IsScanOf
  <2> QED BY <1>5, <2>1, <2>2, <2>3, CountedOnce
<1>9. ~dam => size <= MaxSparseData \/ \E w \in L : w.length >= size
  BY <1>5 DEF Limited
<1>10. \A p, q \in DOMAIN R : p < q => p + R[p].length <= q
  BY <1>5 DEF Kept, Sound, Disjoint
<1> QED BY <1>2, <1>3, <1>7, <1>8, <1>9, <1>10

\* ReadSparseData returns what has been written and GetAvailableRange says where it
\* is, if there was no damage: however WriteSparseData split the writes into ranges.
THEOREM SparseReadsAreOfWhatWasWritten ==
  ASSUME Distinct
  PROVE  Spec => []SparseReadsReturnWritten
BY SparseFileIsSound, InvReads, PTL

\* A range whose checksum ReadSparseRange compared holds bytes of one write, whatever
\* failed, was cut short or died before.
THEOREM SparseChecksumsAreOfOneWrite ==
  ASSUME Distinct
  PROVE  Spec => []SparseChecksumsTellDamage
BY SparseFileIsSound, InvChecks, PTL

\* The ranges that AppendSparseRange and WriteSparseRange keep in memory are those
\* that ScanSparseFile would find, disjoint, counted rightly and within the limit.
THEOREM RangesInMemoryAreInTheFile ==
  ASSUME Distinct
  PROVE  Spec => []RangesMatchFile
BY SparseFileIsSound, InvRanges, PTL

================================================================================
