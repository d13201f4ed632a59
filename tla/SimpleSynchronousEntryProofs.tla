---------------------- MODULE SimpleSynchronousEntryProofs ---------------------
(***************************************************************************)
(* Whose the files of an entry are and what its streams hold, for keys,    *)
(* stream sizes, writes and opens without bound: OwnerInv, and from it     *)
(* StreamsOfOneEntry; StreamsInv, which stands on OwnerInv, and from it    *)
(* SoundEntryWorks, ReadsReturnWritten, ChecksumsTellDamage and            *)
(* ClosedFileSizes.                                                        *)
(*                                                                         *)
(* An operation is a list of calls, and the files after it a fold over the *)
(* list; a failure or a crash is a fold over a part of it.  First come the *)
(* fold and the calls, then whose cells a file has, then the operations;   *)
(* for the streams, lists of calls in parts, the records a file may have,  *)
(* and the operations again.                                               *)
(***************************************************************************)
EXTENDS SimpleSynchronousEntry, FiniteSetTheorems, WellFoundedInduction, TLAPS

-------------------------------------------------------------------------------
(* The fold *)

\* Among sets of subsets of a finite set there is a smallest one.
LEMMA SmallestSubset ==
  ASSUME NEW S, IsFiniteSet(S), NEW B, B \subseteq SUBSET S, B # {}
  PROVE  \E T \in B : \A U \in B : U \subseteq T => U = T
<1>1. SUBSET S \subseteq FiniteSubsetsOf(S)
  BY FS_Subset DEF FiniteSubsetsOf
<1>2. IsWellFoundedOn(StrictSubsetOrdering(S), FiniteSubsetsOf(S))
  BY FS_StrictSubsetOrderingWellFounded
<1>3. PICK T \in B : \A U \in B : ~ (<<U, T>> \in StrictSubsetOrdering(S))
  BY <1>1, <1>2, WFMin
<1> QED BY <1>3 DEF StrictSubsetOrdering

\* A finite set of numbers has a greatest one.
LEMMA MaxIsGreatest ==
  ASSUME NEW S, \A x \in S : x \in Nat, IsFiniteSet(S), S # {}
  PROVE  Max(S) \in S /\ \A x \in S : Max(S) >= x
<1>1. ASSUME NEW x \in S, \A y \in S : x >= y
      PROVE  Max(S) \in S /\ \A y \in S : Max(S) >= y
  BY <1>1 DEF Max
<1> DEFINE B == { T \in SUBSET S : T # {} /\ ~ \E x \in T : \A y \in T : x >= y }
<1>2. SUFFICES ASSUME B # {} PROVE FALSE
  BY <1>1
<1>0. IsFiniteSet(S)
  OBVIOUS
<1>3. PICK T \in B : \A U \in B : U \subseteq T => U = T
  <2>1. B \subseteq SUBSET S
    OBVIOUS
  <2> HIDE DEF B
  <2> QED BY <1>0, <1>2, <2>1, SmallestSubset
<1>4. PICK x \in T : TRUE
  BY <1>3
<1>5. PICK y \in T : ~ (x >= y)
  BY <1>3, <1>4
<1>6. T \ {x} \notin B
  BY <1>3, <1>4
<1>7. PICK m \in T \ {x} : \A z \in T \ {x} : m >= z
  BY <1>3, <1>5, <1>6
<1>8. x \in Nat /\ y \in Nat /\ m \in Nat /\ m >= y
  BY <1>3, <1>4, <1>5, <1>7
<1> QED BY <1>3, <1>5, <1>7, <1>8

\* g holds what comes of the calls at every set of places.
Folded(g, files, calls, S) ==
  g = [s \in SUBSET S |-> IF s = {} THEN files ELSE Call(g[s \ {Max(s)}], calls[Max(s)])]

LEMMA AfterIsFold ==
  ASSUME NEW files, NEW calls
  PROVE  After(files, calls)
           = (CHOOSE g : Folded(g, files, calls, DOMAIN calls))[DOMAIN calls]
BY DEF After, FoldLeft, MapThenFoldSet, Folded

LEMMA FoldUnfolds ==
  ASSUME NEW S, \A x \in S : x \in Nat, IsFiniteSet(S), NEW files, NEW calls, NEW g,
         Folded(g, files, calls, S)
  PROVE  /\ g[{}] = files
         /\ \A s \in SUBSET S : s # {} =>
              /\ Max(s) \in s /\ s \ {Max(s)} \in SUBSET S
              /\ g[s] = Call(g[s \ {Max(s)}], calls[Max(s)])
<1>1. \A s \in SUBSET S : s # {} => Max(s) \in s
  BY MaxIsGreatest, FS_Subset
<1> QED BY <1>1 DEF Folded

LEMMA FoldsAgree ==
  ASSUME NEW S, \A x \in S : x \in Nat, IsFiniteSet(S), NEW T \in SUBSET S, NEW U \in SUBSET S,
         NEW files, NEW a, NEW b, NEW g, Folded(g, files, a, T), NEW h, Folded(h, files, b, U),
         NEW s \in SUBSET T, s \in SUBSET U, \A i \in s : a[i] = b[i]
  PROVE  g[s] = h[s]
<1> DEFINE B == { t \in SUBSET S : t \subseteq s /\ g[t] # h[t] }
<1>1. SUFFICES ASSUME B # {} PROVE FALSE
  OBVIOUS
<1>2. PICK t \in B : \A u \in B : u \subseteq t => u = t
  <2>1. B \subseteq SUBSET S
    OBVIOUS
  <2> HIDE DEF B
  <2> QED BY <1>1, <2>1, SmallestSubset
<1>3. /\ \A x \in T : x \in Nat
      /\ \A x \in U : x \in Nat
      /\ IsFiniteSet(T) /\ IsFiniteSet(U)
  BY FS_Subset
<1>4. t # {}
  <2>1. g[{}] = files /\ h[{}] = files
    BY <1>3, FoldUnfolds
  <2> QED BY <2>1
<1>5. PICK m : m = Max(t)
  OBVIOUS
<1>6. /\ m \in t /\ t \ {m} \in SUBSET S
      /\ g[t] = Call(g[t \ {m}], a[m])
      /\ h[t] = Call(h[t \ {m}], b[m])
  BY <1>3, <1>4, <1>5, FoldUnfolds
<1>7. t \ {m} \in B
  BY <1>6
<1> QED BY <1>2, <1>6, <1>7

LEMMA FoldsExist ==
  ASSUME NEW S, \A x \in S : x \in Nat, IsFiniteSet(S), NEW files, NEW calls
  PROVE  \E g : Folded(g, files, calls, S)
<1> DEFINE B == { T \in SUBSET S : ~ \E g : Folded(g, files, calls, T) }
<1>1. SUFFICES ASSUME B # {} PROVE FALSE
  OBVIOUS
<1>2. PICK T \in B : \A U \in B : U \subseteq T => U = T
  <2>1. B \subseteq SUBSET S
    OBVIOUS
  <2> HIDE DEF B
  <2> QED BY <1>1, <2>1, SmallestSubset
<1>0. \A U \in SUBSET T : /\ \A x \in U : x \in Nat
                        /\ IsFiniteSet(U) /\ (U # {} => Max(U) \in U)
  BY <1>2, FS_Subset, MaxIsGreatest
<1> DEFINE done(U) == (CHOOSE h : Folded(h, files, calls, U))[U]
           g == [s \in SUBSET T |->
                   IF s = {} THEN files ELSE Call(done(s \ {Max(s)}), calls[Max(s)])]
<1>3. ASSUME NEW U, U \subseteq T, U # T
      PROVE  /\ U = {} => done(U) = files
             /\ U # {} => done(U) = Call(done(U \ {Max(U)}), calls[Max(U)])
  <2>1. PICK h : h = CHOOSE k : Folded(k, files, calls, U)
    OBVIOUS
  <2>2. Folded(h, files, calls, U)
    BY <1>2, <1>3, <2>1
  <2>3. done(U) = h[U]
    BY <2>1
  <2>4. ASSUME U # {}
        PROVE  done(U) = Call(done(U \ {Max(U)}), calls[Max(U)])
    <3>1. PICK m : m = Max(U)
      OBVIOUS
    <3>2. m \in U /\ h[U] = Call(h[U \ {m}], calls[m])
      BY <1>0, <1>3, <2>2, <2>4, <3>1, FoldUnfolds
    <3>3. PICK V, k : V = U \ {m} /\ k = CHOOSE f : Folded(f, files, calls, V)
      OBVIOUS
    <3>4. V \subseteq T /\ V # T
      BY <1>3, <3>2, <3>3
    <3>5. Folded(k, files, calls, V)
      BY <1>2, <3>3, <3>4
    <3>6. h[V] = k[V]
      <4>1. U \in SUBSET S /\ V \in SUBSET S /\ V \in SUBSET U /\ V \in SUBSET V
        BY <1>2, <1>3, <3>3
      <4> HIDE DEF done, g, B
      <4> QED BY <2>2, <3>5, <4>1, FoldsAgree
    <3> QED BY <2>3, <3>1, <3>2, <3>3, <3>6
  <2>5. U = {} => done(U) = files
    BY <1>0, <1>3, <2>2, <2>3, FoldUnfolds
  <2> QED BY <2>4, <2>5
<1>4. ASSUME NEW s \in SUBSET T, s # {}
      PROVE  g[s \ {Max(s)}] = done(s \ {Max(s)})
  <2>1. Max(s) \in s
    BY <1>0, <1>4
  <2>2. PICK U : U = s \ {Max(s)}
    OBVIOUS
  <2>3. U \subseteq T /\ U # T /\ U \in SUBSET T
    BY <2>1, <2>2
  <2>4. CASE U = {}
    <3>1. g[U] = files
      BY <2>3, <2>4
    <3>2. done(U) = files
      BY <1>3, <2>3, <2>4
    <3> QED BY <2>2, <3>1, <3>2
  <2>5. CASE U # {}
    <3>1. g[U] = Call(done(U \ {Max(U)}), calls[Max(U)])
      BY <2>3, <2>5
    <3>2. done(U) = Call(done(U \ {Max(U)}), calls[Max(U)])
      BY <1>3, <2>3, <2>5
    <3> QED BY <2>2, <3>1, <3>2
  <2> QED BY <2>4, <2>5
<1>5. PICK f : f = g
  OBVIOUS
<1>6. \A s \in SUBSET T :
        f[s] = IF s = {} THEN files ELSE Call(f[s \ {Max(s)}], calls[Max(s)])
  <2>1. ASSUME NEW s \in SUBSET T, s = {}
        PROVE  f[s] = files
    BY <1>5, <2>1
  <2>2. ASSUME NEW s \in SUBSET T, s # {}
        PROVE  f[s] = Call(f[s \ {Max(s)}], calls[Max(s)])
    <3>1. g[s] = Call(done(s \ {Max(s)}), calls[Max(s)])
      BY <2>2
    <3>2. g[s \ {Max(s)}] = done(s \ {Max(s)})
      BY <1>4, <2>2
    <3> HIDE DEF g, done
    <3> QED BY <1>5, <3>1, <3>2
  <2> QED BY <2>1, <2>2
<1>7. DOMAIN f = SUBSET T /\ f = [s \in DOMAIN f |-> f[s]]
  BY <1>5
<1>8. Folded(f, files, calls, T)
  <2> HIDE DEF g, B, done
  <2> QED BY <1>6, <1>7 DEF Folded
<1> QED BY <1>2, <1>8

-------------------------------------------------------------------------------
(* Lists of calls *)

LEMMA AfterNone ==
  ASSUME NEW files
  PROVE  After(files, <<>>) = files
<1>1. DOMAIN <<>> = {} /\ IsFiniteSet({})
  BY FS_EmptySet
<1>2. PICK g : g = CHOOSE h : Folded(h, files, <<>>, {})
  OBVIOUS
<1>3. Folded(g, files, <<>>, {})
  BY <1>1, <1>2, FoldsExist
<1>4. g[{}] = files
  BY <1>1, <1>3, FoldUnfolds
<1> QED BY <1>1, <1>2, <1>4, AfterIsFold

LEMMA AfterAppend ==
  ASSUME NEW files, NEW S, NEW s \in Seq(S), NEW c \in S
  PROVE  After(files, Append(s, c)) = Call(After(files, s), c)
<1>1. PICK n, t : n = Len(s) /\ t = Append(s, c)
  OBVIOUS
<1>2. PICK D, U : D = 1 .. n /\ U = 1 .. n + 1
  OBVIOUS
<1>3. /\ n \in Nat /\ DOMAIN s = D /\ DOMAIN t = U
      /\ t[n + 1] = c /\ \A i \in D : t[i] = s[i]
  BY <1>1, <1>2
<1>4. /\ IsFiniteSet(U) /\ IsFiniteSet(D)
      /\ (\A x \in U : x \in Nat) /\ (\A x \in D : x \in Nat)
      /\ D \subseteq U /\ U # {} /\ D = U \ {n + 1}
  <2>1. n \in Nat
    BY <1>3
  <2>2. IsFiniteSet(D) /\ IsFiniteSet(U)
    BY <1>2, <2>1, FS_Interval
  <2>3. /\ (\A x \in U : x \in Nat) /\ (\A x \in D : x \in Nat)
        /\ D \subseteq U /\ n + 1 \in U
    BY <1>2, <2>1
  <2>4. ASSUME NEW x
        PROVE  x \in D <=> x \in U /\ x # n + 1
    BY <1>2, <2>1
  <2> QED BY <2>2, <2>3, <2>4
<1>5. Max(U) = n + 1
  <2>1. PICK m : m = Max(U)
    OBVIOUS
  <2>2. m \in U /\ \A x \in U : m >= x
    BY <1>4, <2>1, MaxIsGreatest
  <2> QED BY <1>2, <1>3, <2>1, <2>2
<1>6. PICK g, h : /\ g = CHOOSE f : Folded(f, files, t, U)
                  /\ h = CHOOSE f : Folded(f, files, s, D)
  OBVIOUS
<1>7. Folded(g, files, t, U) /\ Folded(h, files, s, D)
  BY <1>4, <1>6, FoldsExist
<1>8. g[U] = Call(g[D], c)
  BY <1>3, <1>4, <1>5, <1>7, FoldUnfolds
<1>9. g[D] = h[D]
  <2>1. U \in SUBSET U /\ D \in SUBSET U /\ D \in SUBSET D
    BY <1>4
  <2> QED BY <1>3, <1>4, <1>7, <2>1, FoldsAgree
<1>10. After(files, t) = g[U] /\ After(files, s) = h[D]
  BY <1>3, <1>6, AfterIsFold
<1> QED BY <1>1, <1>8, <1>9, <1>10

\* A set of numbers that has 0 and every next number up to N has them all.
LEMMA CountUp ==
  ASSUME NEW N \in Nat, NEW T, 0 \in T, \A n \in 0 .. N - 1 : n \in T => n + 1 \in T
  PROVE  \A n \in 0 .. N : n \in T
<1> DEFINE G == { n \in 0 .. N : \A m \in 0 .. n : m \in T }
<1>1. /\ \A x \in G : x \in Nat
      /\ IsFiniteSet(G) /\ 0 \in G
  <2>1. IsFiniteSet(0 .. N) /\ G \subseteq 0 .. N
    BY FS_Interval
  <2> QED BY <2>1, FS_Subset
<1>2. PICK max : max = Max(G)
  OBVIOUS
<1>3. max \in G /\ \A x \in G : max >= x
  <2> HIDE DEF G
  <2> QED BY <1>1, <1>2, MaxIsGreatest
<1>4. CASE max = N
  BY <1>3, <1>4
<1>5. CASE max # N
  <2>1. max \in 0 .. N - 1 /\ max \in T
    BY <1>3, <1>5
  <2>2. max + 1 \in T
    BY <2>1
  <2>3. max + 1 \in 0 .. N /\ \A m \in 0 .. max + 1 : m \in 0 .. max \/ m = max + 1
    BY <2>1
  <2>4. max + 1 \in G
    BY <1>3, <2>2, <2>3
  <2>5. max >= max + 1
    BY <1>3, <2>4
  <2> QED BY <2>1, <2>5
<1> QED BY <1>4, <1>5

-------------------------------------------------------------------------------
(* One call *)

\* A sequence, of whatever.
IsFile(f) == \E S : f \in Seq(S)

LEMMA FileFacts ==
  ASSUME NEW f, IsFile(f)
  PROVE  /\ Len(f) \in Nat /\ DOMAIN f = 1 .. Len(f)
         /\ f = [i \in 1 .. Len(f) |-> f[i]]
         /\ (f = <<>> <=> Len(f) = 0)
<1>1. PICK S : f \in Seq(S)
  BY DEF IsFile
<1> QED BY <1>1

LEMMA FunctionIsFile ==
  ASSUME NEW f, NEW n \in Nat, f = [i \in 1 .. n |-> f[i]]
  PROVE  IsFile(f) /\ Len(f) = n
<1>1. PICK S : S = { f[i] : i \in 1 .. n }
  OBVIOUS
<1>2. f \in [1 .. n -> S]
  BY <1>1
<1>3. f \in Seq(S) /\ Len(f) = n
  BY <1>2
<1> QED BY <1>3 DEF IsFile

LEMMA SingleIsFile ==
  ASSUME NEW c
  PROVE  IsFile(<<c>>) /\ Len(<<c>>) = 1 /\ <<c>>[1] = c
<1>1. <<c>> \in Seq({c})
  OBVIOUS
<1> QED BY <1>1 DEF IsFile

LEMMA EmptyIsFile == IsFile(<<>>) /\ Len(<<>>) = 0
<1>1. <<>> \in Seq({})
  OBVIOUS
<1> QED BY <1>1 DEF IsFile

LEMMA SubSeqFacts ==
  ASSUME NEW f, IsFile(f), NEW a \in Nat, NEW b \in Nat, a + b <= Len(f)
  PROVE  /\ IsFile(SubSeq(f, a + 1, a + b)) /\ Len(SubSeq(f, a + 1, a + b)) = b
         /\ \A i \in 1 .. b : SubSeq(f, a + 1, a + b)[i] = f[a + i]
<1>1. PICK S : f \in Seq(S)
  BY DEF IsFile
<1>2. Len(SubSeq(f, a + 1, a + b)) = b
  BY <1>1
<1>3. \A i \in 1 .. b : SubSeq(f, a + 1, a + b)[i] = f[a + i]
  BY <1>1
<1>4. SubSeq(f, a + 1, a + b) \in Seq(S)
  BY <1>1
<1> QED BY <1>2, <1>3, <1>4 DEF IsFile

LEMMA SetLengthFacts ==
  ASSUME NEW f, IsFile(f), NEW n \in Nat
  PROVE  /\ IsFile(SetLength(f, n)) /\ Len(SetLength(f, n)) = n
         /\ \A i \in 1 .. n :
              SetLength(f, n)[i] = IF i <= Len(f) THEN f[i] ELSE Byte(0)
<1>1. PICK g : g = SetLength(f, n)
  OBVIOUS
<1>2. g = [i \in 1 .. n |-> IF i <= Len(f) THEN f[i] ELSE Byte(0)]
  BY <1>1 DEF SetLength
<1>3. g = [i \in 1 .. n |-> g[i]]
  BY <1>2
<1>4. IsFile(g) /\ Len(g) = n
  BY <1>3, FunctionIsFile
<1> QED BY <1>1, <1>2, <1>4

LEMMA WriteAtFacts ==
  ASSUME NEW f, IsFile(f), NEW cells, IsFile(cells), NEW offset \in Nat
  PROVE  LET g == WriteAt(f, offset, cells)
             end == offset + Len(cells)
         IN /\ IsFile(g)
            /\ Len(g) = IF cells = <<>> \/ Len(f) > end THEN Len(f) ELSE end
            /\ \A i \in 1 .. Len(g) :
                 g[i] = IF i > offset /\ i <= end THEN cells[i - offset]
                        ELSE IF i <= Len(f) THEN f[i] ELSE Byte(0)
<1>1. CASE cells = <<>>
  <2>1. WriteAt(f, offset, cells) = f /\ Len(cells) = 0
    BY <1>1 DEF WriteAt
  <2> QED BY <1>1, <2>1, FileFacts
<1>2. CASE cells # <<>>
  <2>1. PICK end : end = offset + Len(cells)
    OBVIOUS
  <2>2. end \in Nat /\ Len(f) \in Nat
    BY <2>1, FileFacts
  <2>3. PICK n : n = IF Len(f) > end THEN Len(f) ELSE end
    OBVIOUS
  <2>4. PICK p : p = SetLength(f, n)
    OBVIOUS
  <2>5. /\ n \in Nat /\ IsFile(p) /\ Len(p) = n
        /\ \A i \in 1 .. n : p[i] = IF i <= Len(f) THEN f[i] ELSE Byte(0)
    BY <2>2, <2>3, <2>4, SetLengthFacts
  <2>6. DOMAIN p = 1 .. n
    BY <2>5, FileFacts
  <2>7. PICK g : g = WriteAt(f, offset, cells)
    OBVIOUS
  <2>8. g = [i \in 1 .. n |-> IF i > offset /\ i <= end THEN cells[i - offset] ELSE p[i]]
    BY <1>2, <2>1, <2>3, <2>4, <2>6, <2>7 DEF WriteAt
  <2>9. g = [i \in 1 .. n |-> g[i]]
    BY <2>8
  <2>10. IsFile(g) /\ Len(g) = n
    BY <2>5, <2>9, FunctionIsFile
  <2> QED BY <1>2, <2>1, <2>3, <2>5, <2>7, <2>8, <2>10
<1> QED BY <1>1, <1>2

\* The files after the first n calls.
AfterFirst(files, calls, n) == After(files, SubSeq(calls, 1, n))

LEMMA AfterFirstUnfolds ==
  ASSUME NEW files, NEW calls, IsFile(calls)
  PROVE  /\ Len(calls) \in Nat
         /\ AfterFirst(files, calls, 0) = files
         /\ \A n \in 0 .. Len(calls) - 1 :
              AfterFirst(files, calls, n + 1) = Call(AfterFirst(files, calls, n), calls[n + 1])
         /\ AfterFirst(files, calls, Len(calls)) = After(files, calls)
<1>0. PICK S : calls \in Seq(S)
  BY DEF IsFile
<1>1. SubSeq(calls, 1, 0) = <<>>
  BY <1>0
<1>2. ASSUME NEW n \in 0 .. Len(calls) - 1
      PROVE  AfterFirst(files, calls, n + 1) = Call(AfterFirst(files, calls, n), calls[n + 1])
  <2>1. PICK s, c : s = SubSeq(calls, 1, n) /\ c = calls[n + 1]
    OBVIOUS
  <2>2. s \in Seq(S) /\ c \in S /\ SubSeq(calls, 1, n + 1) = Append(s, c)
    BY <1>0, <1>2, <2>1
  <2>3. After(files, Append(s, c)) = Call(After(files, s), c)
    BY <2>2, AfterAppend
  <2> QED BY <2>1, <2>2, <2>3 DEF AfterFirst
<1>3. SubSeq(calls, 1, Len(calls)) = calls /\ Len(calls) \in Nat
  BY <1>0
<1> QED BY <1>1, <1>2, <1>3, AfterNone DEF AfterFirst

LEMMA CreateIs ==
  ASSUME NEW files, NEW i
  PROVE  /\ Call(files, CreateCall(i)) = [files EXCEPT ![i] = <<>>]
         /\ Torn(files, CreateCall(i)) = {files}
         /\ CreateCall(i).file = i
  BY DEF Call, Torn, CreateCall

LEMMA SetLengthIs ==
  ASSUME NEW files, NEW i, NEW n
  PROVE  /\ Call(files, SetLengthCall(i, n)) = [files EXCEPT ![i] = SetLength(files[i], n)]
         /\ Torn(files, SetLengthCall(i, n)) = {files}
         /\ SetLengthCall(i, n).file = i
  BY DEF Call, Torn, SetLengthCall

LEMMA WriteIs ==
  ASSUME NEW files, NEW i, NEW n, NEW cells
  PROVE  /\ Call(files, WriteCall(i, n, cells)) = [files EXCEPT ![i] = WriteAt(files[i], n, cells)]
         /\ Torn(files, WriteCall(i, n, cells))
              = { [files EXCEPT ![i] = WriteAt(files[i], n, SubSeq(cells, 1, m))]
                    : m \in 0 .. Len(cells) - 1 }
         /\ WriteCall(i, n, cells).file = i
  BY DEF Call, Torn, WriteCall

-------------------------------------------------------------------------------
(* Whose cells a file has *)

\* Missing and Linked stand for no file, and Closed for no entry.
Distinct ==
  /\ ~ IsFile(Missing) /\ ~ IsFile(Linked) /\ Missing # Linked
  /\ "file" \notin DOMAIN Closed

\* A SHA-256 is that of the key, and a record has a size.
OwnCell(c, k) == /\ c.kind = "sha256" => c = Sha256(k)
                 /\ c.kind = "eof" => c.size \in Nat
OwnCells(f, k) == IsFile(f) /\ \A n \in 1 .. Len(f) : OwnCell(f[n], k)

Full(f, k, b) == OwnCells(f, k) /\ Len(f) > 0 /\ f[1] = Header(k, b)

FilesFull(files, k, b) ==
  /\ files = [i \in FileIndices |-> files[i]]
  /\ Full(files[0], k, b)
  /\ files[1] # Missing => Full(files[1], k, b)

\* The second file may have been created, and have no header yet.
FilesOwned(files, k, b) ==
  /\ files = [i \in FileIndices |-> files[i]]
  /\ Full(files[0], k, b)
  /\ files[1] \notin {Missing, <<>>} => Full(files[1], k, b)

\* A call that leaves the header alone.
Lawful(c, k) ==
  \/ \E i \in FileIndices, n \in Nat : n > 0 /\ c = SetLengthCall(i, n)
  \/ \E i \in FileIndices, n \in Nat : \E cells :
       n > 0 /\ OwnCells(cells, k) /\ c = WriteCall(i, n, cells)

LEMMA LawfulFile ==
  ASSUME NEW c, NEW k, Lawful(c, k)
  PROVE  c.file \in FileIndices
<1>1. ASSUME NEW i \in FileIndices, NEW n \in Nat, c = SetLengthCall(i, n)
      PROVE  c.file \in FileIndices
  BY <1>1, SetLengthIs
<1>2. ASSUME NEW i \in FileIndices, NEW n \in Nat, NEW cells, c = WriteCall(i, n, cells)
      PROVE  c.file \in FileIndices
  BY <1>2, WriteIs
<1> QED BY <1>1, <1>2 DEF Lawful

LEMMA PlainCells ==
  ASSUME NEW k, NEW b, NEW v
  PROVE  OwnCell(Byte(v), k) /\ OwnCell(Header(k, b), k) /\ OwnCell(Sha256(k), k)
  BY DEF OwnCell, Byte, Header, Sha256

LEMMA FullSetLength ==
  ASSUME NEW f, NEW k, NEW b, Full(f, k, b), NEW n \in Nat, n > 0
  PROVE  Full(SetLength(f, n), k, b)
<1>1. IsFile(f) /\ Len(f) \in Nat
  BY FileFacts DEF Full, OwnCells
<1>2. PICK g : g = SetLength(f, n)
  OBVIOUS
<1>3. /\ IsFile(g) /\ Len(g) = n
      /\ \A i \in 1 .. n : g[i] = IF i <= Len(f) THEN f[i] ELSE Byte(0)
  BY <1>1, <1>2, SetLengthFacts
<1>4. g[1] = f[1]
  BY <1>1, <1>3 DEF Full
<1>5. ASSUME NEW i \in 1 .. n
      PROVE  OwnCell(g[i], k)
  <2>1. CASE i <= Len(f)
    <3>1. g[i] = f[i] /\ i \in 1 .. Len(f)
      BY <1>1, <1>3, <2>1
    <3> QED BY <3>1 DEF Full, OwnCells
  <2>2. CASE ~ (i <= Len(f))
    BY <1>3, <2>2, PlainCells
  <2> QED BY <2>1, <2>2
<1> QED BY <1>2, <1>3, <1>4, <1>5 DEF Full, OwnCells

LEMMA FullWriteAt ==
  ASSUME NEW f, NEW k, NEW b, Full(f, k, b), NEW n \in Nat, n > 0,
         NEW cells, OwnCells(cells, k)
  PROVE  Full(WriteAt(f, n, cells), k, b)
<1>1. /\ IsFile(f) /\ Len(f) \in Nat /\ Len(f) > 0
      /\ IsFile(cells) /\ Len(cells) \in Nat /\ (cells = <<>> <=> Len(cells) = 0)
  BY FileFacts DEF Full, OwnCells
<1>2. PICK g, end : g = WriteAt(f, n, cells) /\ end = n + Len(cells)
  OBVIOUS
<1>3. /\ IsFile(g)
      /\ Len(g) = IF cells = <<>> \/ Len(f) > end THEN Len(f) ELSE end
      /\ \A i \in 1 .. Len(g) :
           g[i] = IF i > n /\ i <= end THEN cells[i - n]
                  ELSE IF i <= Len(f) THEN f[i] ELSE Byte(0)
  BY <1>1, <1>2, WriteAtFacts
<1>4. Len(g) \in Nat /\ Len(g) > 0 /\ end \in Nat
  BY <1>1, <1>2, <1>3
<1>5. g[1] = f[1]
  BY <1>1, <1>3, <1>4
<1>6. ASSUME NEW i \in 1 .. Len(g)
      PROVE  OwnCell(g[i], k)
  <2>1. CASE i > n /\ i <= end
    <3>1. g[i] = cells[i - n] /\ i - n \in 1 .. Len(cells)
      BY <1>1, <1>2, <1>3, <1>4, <2>1
    <3> QED BY <3>1 DEF OwnCells
  <2>2. CASE ~ (i > n /\ i <= end) /\ i <= Len(f)
    <3>1. g[i] = f[i] /\ i \in 1 .. Len(f)
      BY <1>1, <1>3, <1>4, <2>2
    <3> QED BY <3>1 DEF Full, OwnCells
  <2>3. CASE ~ (i > n /\ i <= end) /\ ~ (i <= Len(f))
    BY <1>3, <2>3, PlainCells
  <2> QED BY <2>1, <2>2, <2>3
<1> QED BY <1>2, <1>3, <1>4, <1>5, <1>6 DEF Full, OwnCells

\* A part of a run of cells.
LEMMA OwnPart ==
  ASSUME NEW f, NEW k, OwnCells(f, k), NEW a \in Nat, NEW b \in Nat, a + b <= Len(f)
  PROVE  OwnCells(SubSeq(f, a + 1, a + b), k)
<1>1. IsFile(f) /\ Len(f) \in Nat
  BY FileFacts DEF OwnCells
<1>2. PICK g : g = SubSeq(f, a + 1, a + b)
  OBVIOUS
<1>3. IsFile(g) /\ Len(g) = b /\ \A i \in 1 .. b : g[i] = f[a + i]
  BY <1>1, <1>2, SubSeqFacts
<1>4. ASSUME NEW i \in 1 .. b
      PROVE  OwnCell(g[i], k)
  <2>1. a + i \in 1 .. Len(f) /\ g[i] = f[a + i]
    BY <1>1, <1>3
  <2> QED BY <2>1 DEF OwnCells
<1> QED BY <1>2, <1>3, <1>4 DEF OwnCells

\* What a lawful call, or a part of it, does to files with headers.
LEMMA FullCall ==
  ASSUME Distinct, NEW files, NEW k, NEW b, FilesFull(files, k, b),
         NEW c, Lawful(c, k), files[c.file] # Missing
  PROVE  \A t \in Torn(files, c) \cup {Call(files, c)} :
           FilesFull(t, k, b) /\ (t[1] = Missing <=> files[1] = Missing)
<1>1. ASSUME NEW i \in FileIndices, files[i] # Missing, NEW f, Full(f, k, b),
             NEW t, t = [files EXCEPT ![i] = f]
      PROVE  FilesFull(t, k, b) /\ (t[1] = Missing <=> files[1] = Missing)
  <2>1. f # Missing
    BY <1>1 DEF Full, OwnCells, Distinct
  <2>2. /\ t = [j \in FileIndices |-> t[j]] /\ t[i] = f
        /\ \A j \in FileIndices : j # i => t[j] = files[j]
    BY <1>1 DEF FilesFull
  <2>3. CASE i = 0
    BY <1>1, <2>1, <2>2, <2>3 DEF FilesFull, FileIndices
  <2>4. CASE i = 1
    BY <1>1, <2>1, <2>2, <2>4 DEF FilesFull, FileIndices
  <2> QED BY <2>3, <2>4 DEF FileIndices
<1>2. \A i \in FileIndices : files[i] # Missing => Full(files[i], k, b)
  BY DEF FilesFull, FileIndices
<1>3. ASSUME NEW i \in FileIndices, NEW n \in Nat, n > 0, c = SetLengthCall(i, n),
             NEW t \in Torn(files, c) \cup {Call(files, c)}
      PROVE  FilesFull(t, k, b) /\ (t[1] = Missing <=> files[1] = Missing)
  <2>1. c.file = i
    BY <1>3, SetLengthIs
  <2>2. t = files \/ t = [files EXCEPT ![i] = SetLength(files[i], n)]
    <3>1. Torn(files, c) = {files}
      BY <1>3, SetLengthIs
    <3>2. Call(files, c) = [files EXCEPT ![i] = SetLength(files[i], n)]
      BY <1>3, SetLengthIs
    <3> QED BY <1>3, <3>1, <3>2
  <2>3. Full(SetLength(files[i], n), k, b)
    BY <1>2, <1>3, <2>1, FullSetLength
  <2> QED BY <1>1, <2>1, <2>2, <2>3
<1>4. ASSUME NEW i \in FileIndices, NEW n \in Nat, NEW cells, n > 0, OwnCells(cells, k),
             c = WriteCall(i, n, cells), NEW t \in Torn(files, c) \cup {Call(files, c)}
      PROVE  FilesFull(t, k, b) /\ (t[1] = Missing <=> files[1] = Missing)
  <2>1. c.file = i
    BY <1>4, WriteIs
  <2>2. PICK part : OwnCells(part, k) /\ t = [files EXCEPT ![i] = WriteAt(files[i], n, part)]
    <3>1. CASE t = Call(files, c)
      <4>1. t = [files EXCEPT ![i] = WriteAt(files[i], n, cells)]
        BY <1>4, <3>1, WriteIs
      <4> QED BY <1>4, <4>1
    <3>2. CASE t \in Torn(files, c)
      <4>1. PICK m \in 0 .. Len(cells) - 1 :
              t = [files EXCEPT ![i] = WriteAt(files[i], n, SubSeq(cells, 1, m))]
        BY <1>4, <3>2, WriteIs
      <4>2. Len(cells) \in Nat /\ m \in Nat /\ 0 + m <= Len(cells) /\ 0 + 1 = 1 /\ 0 + m = m
        BY <1>4, FileFacts DEF OwnCells
      <4>3. OwnCells(SubSeq(cells, 0 + 1, 0 + m), k)
        BY <1>4, <4>2, OwnPart
      <4> QED BY <4>1, <4>2, <4>3
    <3>3. t = Call(files, c) \/ t \in Torn(files, c)
      BY <1>4
    <3> QED BY <3>1, <3>2, <3>3
  <2>3. Full(WriteAt(files[i], n, part), k, b)
    BY <1>2, <1>4, <2>1, <2>2, FullWriteAt
  <2> QED BY <1>1, <2>1, <2>2, <2>3
<1> QED BY <1>3, <1>4 DEF Lawful

\* Lawful calls on files that are there, ...
PlainCalls(files, calls, k) ==
  /\ IsFile(calls)
  /\ \A n \in 1 .. Len(calls) : Lawful(calls[n], k) /\ files[calls[n].file] # Missing

\* ... or on the second file, which they create.
CreatingCalls(calls, k, b) ==
  /\ IsFile(calls) /\ Len(calls) >= 2
  /\ calls[1] = CreateCall(1) /\ calls[2] = WriteCall(1, 0, <<Header(k, b)>>)
  /\ \A n \in 3 .. Len(calls) : Lawful(calls[n], k)

LEMMA PlainSteps ==
  ASSUME Distinct, NEW files, NEW k, NEW b, FilesFull(files, k, b),
         NEW calls, PlainCalls(files, calls, k)
  PROVE  \A n \in 0 .. Len(calls) :
           LET t == AfterFirst(files, calls, n)
           IN FilesFull(t, k, b) /\ (t[1] = Missing <=> files[1] = Missing)
<1> DEFINE a(n) == AfterFirst(files, calls, n)
           T == { n \in 0 .. Len(calls) :
                    FilesFull(a(n), k, b) /\ (a(n)[1] = Missing <=> files[1] = Missing) }
<1>1. /\ Len(calls) \in Nat /\ a(0) = files
      /\ \A n \in 0 .. Len(calls) - 1 : a(n + 1) = Call(a(n), calls[n + 1])
  <2>1. IsFile(calls)
    BY DEF PlainCalls
  <2> QED BY <2>1, AfterFirstUnfolds
<1>2. 0 \in T
  BY <1>1
<1>3. ASSUME NEW n \in 0 .. Len(calls) - 1, n \in T
      PROVE  n + 1 \in T
  <2>1. PICK t, c : t = a(n) /\ c = calls[n + 1]
    OBVIOUS
  <2>2. FilesFull(t, k, b) /\ (t[1] = Missing <=> files[1] = Missing)
    BY <1>3, <2>1
  <2>3. n + 1 \in 1 .. Len(calls)
    BY <1>1
  <2>4. Lawful(c, k) /\ files[c.file] # Missing
    BY <2>1, <2>3 DEF PlainCalls
  <2>5. c.file \in FileIndices
    BY <2>4, LawfulFile
  <2>6. t[c.file] # Missing
    <3>1. t[0] # Missing
      BY <2>2 DEF FilesFull, Full, OwnCells, Distinct
    <3> QED BY <2>2, <2>4, <2>5, <3>1 DEF FileIndices
  <2>7. FilesFull(Call(t, c), k, b) /\ (Call(t, c)[1] = Missing <=> t[1] = Missing)
    BY <2>2, <2>4, <2>6, FullCall
  <2>8. a(n + 1) = Call(t, c)
    BY <1>1, <2>1
  <2> HIDE DEF a
  <2> QED BY <1>1, <2>2, <2>3, <2>7, <2>8
<1>4. \A n \in 0 .. Len(calls) : n \in T
  <2> HIDE DEF T
  <2> QED BY <1>1, <1>2, <1>3, CountUp
<1> QED BY <1>4

\* The second file is there from the second call on.
LEMMA CreatingSteps ==
  ASSUME Distinct, NEW files, NEW k, NEW b, FilesFull(files, k, b),
         NEW calls, CreatingCalls(calls, k, b)
  PROVE  /\ AfterFirst(files, calls, 0) = files
         /\ AfterFirst(files, calls, 1) = [files EXCEPT ![1] = <<>>]
         /\ \A n \in 2 .. Len(calls) :
              LET t == AfterFirst(files, calls, n)
              IN FilesFull(t, k, b) /\ t[1] # Missing
<1> DEFINE a(n) == AfterFirst(files, calls, n)
           T == { n \in 0 .. Len(calls) : n >= 2 => FilesFull(a(n), k, b) /\ a(n)[1] # Missing }
<1>1. /\ Len(calls) \in Nat /\ Len(calls) >= 2 /\ a(0) = files
      /\ \A n \in 0 .. Len(calls) - 1 : a(n + 1) = Call(a(n), calls[n + 1])
  <2>1. IsFile(calls)
    BY DEF CreatingCalls
  <2>2. Len(calls) >= 2
    BY DEF CreatingCalls
  <2> HIDE DEF T
  <2>3. /\ Len(calls) \in Nat /\ a(0) = files
        /\ \A n \in 0 .. Len(calls) - 1 : a(n + 1) = Call(a(n), calls[n + 1])
    BY <2>1, AfterFirstUnfolds
  <2> QED BY <2>2, <2>3
<1>2. a(1) = [files EXCEPT ![1] = <<>>]
  <2>1. 0 \in 0 .. Len(calls) - 1 /\ 0 + 1 = 1
    BY <1>1
  <2>2. a(1) = Call(files, calls[1])
    BY <1>1, <2>1
  <2> QED BY <2>2, CreateIs DEF CreatingCalls
<1>3. FilesFull(a(2), k, b) /\ a(2)[1] # Missing
  <2>1. 1 \in 0 .. Len(calls) - 1 /\ 1 + 1 = 2
    BY <1>1
  <2>2. PICK t : t = a(1)
    OBVIOUS
  <2>3. a(2) = Call(t, WriteCall(1, 0, <<Header(k, b)>>))
    BY <1>1, <2>1, <2>2 DEF CreatingCalls
  <2>4. PICK f : f = WriteAt(t[1], 0, <<Header(k, b)>>)
    OBVIOUS
  <2>5. a(2) = [t EXCEPT ![1] = f]
    BY <2>3, <2>4, WriteIs
  <2>6. t = [files EXCEPT ![1] = <<>>] /\ t[1] = <<>>
    BY <1>2, <2>2 DEF FilesFull, FileIndices
  <2>7. Full(f, k, b)
    <3>1. PICK cells : cells = <<Header(k, b)>>
      OBVIOUS
    <3>2. IsFile(cells) /\ Len(cells) = 1 /\ cells[1] = Header(k, b) /\ cells # <<>>
      BY <3>1, SingleIsFile, EmptyIsFile
    <3>3. IsFile(f) /\ Len(f) = 1 /\ f[1] = Header(k, b)
      <4>1. PICK e : e = <<>>
        OBVIOUS
      <4>2. IsFile(e) /\ Len(e) = 0 /\ f = WriteAt(e, 0, cells)
        BY <2>4, <2>6, <3>1, <4>1, EmptyIsFile
      <4>3. PICK end : end = 0 + Len(cells)
        OBVIOUS
      <4>4. /\ IsFile(f)
            /\ Len(f) = IF cells = <<>> \/ Len(e) > end THEN Len(e) ELSE end
            /\ \A i \in 1 .. Len(f) :
                 f[i] = IF i > 0 /\ i <= end THEN cells[i - 0]
                        ELSE IF i <= Len(e) THEN e[i] ELSE Byte(0)
        BY <3>2, <4>2, <4>3, WriteAtFacts
      <4>5. end = 1 /\ Len(f) = 1
        BY <3>2, <4>2, <4>3, <4>4
      <4>6. f[1] = cells[1]
        BY <4>4, <4>5
      <4> QED BY <3>2, <4>4, <4>5, <4>6
    <3>4. \A n \in 1 .. Len(f) : OwnCell(f[n], k)
      BY <3>3, PlainCells
    <3> QED BY <3>3, <3>4 DEF Full, OwnCells
  <2>8. f # Missing
    BY <2>7 DEF Full, OwnCells, Distinct
  <2>9. PICK u : u = a(2)
    OBVIOUS
  <2>10. u = [j \in FileIndices |-> u[j]] /\ u[0] = files[0] /\ u[1] = f
    BY <2>5, <2>6, <2>9, SMTT(30) DEF FilesFull, FileIndices
  <2> HIDE DEF a
  <2> QED BY <2>7, <2>8, <2>9, <2>10 DEF FilesFull
<1>4. 0 \in T
  BY <1>1
<1>5. ASSUME NEW n \in 0 .. Len(calls) - 1, n \in T
      PROVE  n + 1 \in T
  <2>1. CASE n < 2
    <3>1. n + 1 >= 2 => n + 1 = 2
      BY <2>1
    <3>2. n + 1 \in 0 .. Len(calls)
      BY <1>1
    <3> HIDE DEF a
    <3> QED BY <1>3, <3>1, <3>2
  <2>2. CASE n >= 2
    <3>1. PICK t, c : t = a(n) /\ c = calls[n + 1]
      OBVIOUS
    <3>2. FilesFull(t, k, b) /\ t[1] # Missing
      BY <1>5, <2>2, <3>1
    <3>3. n + 1 \in 3 .. Len(calls) /\ n + 1 \in 0 .. Len(calls)
      BY <1>1, <2>2
    <3>4. Lawful(c, k)
      BY <3>1, <3>3 DEF CreatingCalls
    <3>5. c.file \in FileIndices
      BY <3>4, LawfulFile
    <3>6. t[c.file] # Missing
      <4>1. t[0] # Missing
        BY <3>2 DEF FilesFull, Full, OwnCells, Distinct
      <4> QED BY <3>2, <3>5, <4>1 DEF FileIndices
    <3>7. FilesFull(Call(t, c), k, b) /\ (Call(t, c)[1] = Missing <=> t[1] = Missing)
      BY <3>2, <3>4, <3>6, FullCall
    <3>8. a(n + 1) = Call(t, c)
      BY <1>1, <3>1
    <3> HIDE DEF a
    <3> QED BY <1>1, <3>2, <3>3, <3>7, <3>8
  <2> QED BY <2>1, <2>2
<1>6. \A n \in 0 .. Len(calls) : n \in T
  <2> HIDE DEF T
  <2> QED BY <1>1, <1>4, <1>5, CountUp
<1>7. ASSUME NEW n \in 2 .. Len(calls)
      PROVE  FilesFull(a(n), k, b) /\ a(n)[1] # Missing
  <2>1. n \in 0 .. Len(calls) /\ n >= 2
    BY <1>1
  <2> QED BY <1>6, <2>1
<1> QED BY <1>1, <1>2, <1>7

LEMMA PlainTorn ==
  ASSUME Distinct, NEW files, NEW k, NEW b, FilesFull(files, k, b),
         NEW calls, PlainCalls(files, calls, k),
         NEW n \in DOMAIN calls, NEW t \in TornAt(files, calls, n)
  PROVE  FilesFull(t, k, b) /\ (t[1] = Missing <=> files[1] = Missing)
<1>1. IsFile(calls) /\ Len(calls) \in Nat /\ n \in 1 .. Len(calls) /\ n - 1 \in 0 .. Len(calls)
  <2>1. IsFile(calls)
    BY DEF PlainCalls
  <2> QED BY <2>1, FileFacts
<1>2. PICK a, c : a = AfterFirst(files, calls, n - 1) /\ c = calls[n]
  OBVIOUS
<1>3. FilesFull(a, k, b) /\ (a[1] = Missing <=> files[1] = Missing)
  BY <1>1, <1>2, PlainSteps
<1>4. Lawful(c, k) /\ files[c.file] # Missing
  BY <1>1, <1>2 DEF PlainCalls
<1>5. a[c.file] # Missing
  <2>1. a[0] # Missing
    BY <1>3 DEF FilesFull, Full, OwnCells, Distinct
  <2> QED BY <1>3, <1>4, <2>1, LawfulFile DEF FileIndices
<1>6. t \in Torn(a, c)
  BY <1>2 DEF TornAt, AfterFirst
<1> QED BY <1>3, <1>4, <1>5, <1>6, FullCall

LEMMA CreatingTorn ==
  ASSUME Distinct, NEW files, NEW k, NEW b, FilesFull(files, k, b),
         NEW calls, CreatingCalls(calls, k, b),
         NEW n \in DOMAIN calls, NEW t \in TornAt(files, calls, n)
  PROVE  FilesOwned(t, k, b) /\ (t = files \/ t[1] # Missing)
<1>1. IsFile(calls) /\ Len(calls) \in Nat /\ n \in 1 .. Len(calls)
  <2>1. IsFile(calls)
    BY DEF CreatingCalls
  <2> QED BY <2>1, FileFacts
<1>2. PICK a, c : a = AfterFirst(files, calls, n - 1) /\ c = calls[n]
  OBVIOUS
<1>3. t \in Torn(a, c)
  BY <1>2 DEF TornAt, AfterFirst
<1>4. CASE n = 1
  <2>1. a = files /\ c = CreateCall(1)
    BY <1>2, <1>4, CreatingSteps DEF CreatingCalls
  <2>2. t = files
    BY <1>3, <2>1, CreateIs
  <2> QED BY <2>2 DEF FilesFull, FilesOwned
<1>5. CASE n = 2
  <2>1. a = [files EXCEPT ![1] = <<>>] /\ c = WriteCall(1, 0, <<Header(k, b)>>)
    BY <1>2, <1>5, CreatingSteps DEF CreatingCalls
  <2>2. PICK cells : cells = <<Header(k, b)>>
    OBVIOUS
  <2>3. IsFile(cells) /\ Len(cells) = 1
    BY <2>2, SingleIsFile
  <2>4. t = [a EXCEPT ![1] = WriteAt(a[1], 0, SubSeq(cells, 1, 0))]
    <3>1. Torn(a, WriteCall(1, 0, cells))
            = {[a EXCEPT ![1] = WriteAt(a[1], 0, SubSeq(cells, 1, m))]
                 : m \in 0 .. Len(cells) - 1}
      BY WriteIs
    <3>2. PICK m \in 0 .. Len(cells) - 1 :
            t = [a EXCEPT ![1] = WriteAt(a[1], 0, SubSeq(cells, 1, m))]
      BY <1>3, <2>1, <2>2, <3>1, ZenonT(60)
    <3>3. m = 0
      BY <2>3
    <3> QED BY <3>2, <3>3
  <2>5. SubSeq(cells, 1, 0) = <<>>
    <3>1. PICK S : cells \in Seq(S)
      BY <2>3 DEF IsFile
    <3> QED BY <3>1
  <2>6. WriteAt(a[1], 0, <<>>) = a[1]
    BY DEF WriteAt
  <2>7. a = [i \in FileIndices |-> a[i]] /\ a[0] = files[0] /\ a[1] = <<>>
    BY <2>1 DEF FilesFull, FileIndices
  <2>8. t = [a EXCEPT ![1] = a[1]]
    BY <2>4, <2>5, <2>6
  <2>9. t = a
    BY <2>7, <2>8
  <2>10. <<>> # Missing
    BY EmptyIsFile DEF Distinct
  <2> QED BY <2>7, <2>9, <2>10 DEF FilesFull, FilesOwned
<1>6. CASE n >= 3
  <2>1. n - 1 \in 2 .. Len(calls) /\ n \in 3 .. Len(calls)
    BY <1>1, <1>6
  <2>2. FilesFull(a, k, b) /\ a[1] # Missing
    BY <1>2, <2>1, CreatingSteps
  <2>3. Lawful(c, k)
    BY <1>2, <2>1 DEF CreatingCalls
  <2>4. a[c.file] # Missing
    <3>1. a[0] # Missing
      BY <2>2 DEF FilesFull, Full, OwnCells, Distinct
    <3> QED BY <2>2, <2>3, <3>1, LawfulFile DEF FileIndices
  <2>5. FilesFull(t, k, b) /\ (t[1] = Missing <=> a[1] = Missing)
    BY <1>3, <2>2, <2>3, <2>4, FullCall
  <2> QED BY <2>2, <2>5 DEF FilesFull, FilesOwned
<1> QED BY <1>1, <1>4, <1>5, <1>6

-------------------------------------------------------------------------------
(* The lists of calls of the operations *)

LEMMA ConcatFacts ==
  ASSUME NEW s, IsFile(s), NEW t, IsFile(t)
  PROVE  /\ IsFile(s \o t) /\ Len(s \o t) = Len(s) + Len(t)
         /\ \A n \in 1 .. Len(s) + Len(t) :
              (s \o t)[n] = IF n <= Len(s) THEN s[n] ELSE t[n - Len(s)]
<1>1. PICK S : s \in Seq(S)
  BY DEF IsFile
<1>2. PICK T : t \in Seq(T)
  BY DEF IsFile
<1>3. s \in Seq(S \cup T) /\ t \in Seq(S \cup T)
  BY <1>1, <1>2
<1>4. s \o t \in Seq(S \cup T) /\ Len(s \o t) = Len(s) + Len(t)
  BY <1>3
<1>5. \A n \in 1 .. Len(s) + Len(t) :
        (s \o t)[n] = IF n <= Len(s) THEN s[n] ELSE t[n - Len(s)]
  BY <1>3
<1> QED BY <1>4, <1>5 DEF IsFile

\* A list that creates the second file still does so with more calls behind it.
LEMMA CreatingMore ==
  ASSUME NEW k, NEW b, NEW s, CreatingCalls(s, k, b),
         NEW t, IsFile(t), \A n \in 1 .. Len(t) : Lawful(t[n], k)
  PROVE  CreatingCalls(s \o t, k, b)
<1>1. /\ IsFile(s) /\ Len(s) \in Nat /\ Len(s) >= 2 /\ Len(t) \in Nat
      /\ s[1] = CreateCall(1) /\ s[2] = WriteCall(1, 0, <<Header(k, b)>>)
      /\ \A n \in 3 .. Len(s) : Lawful(s[n], k)
  BY FileFacts DEF CreatingCalls
<1>2. PICK u : u = s \o t
  OBVIOUS
<1>3. /\ IsFile(u) /\ Len(u) = Len(s) + Len(t)
      /\ \A n \in 1 .. Len(s) + Len(t) : u[n] = IF n <= Len(s) THEN s[n] ELSE t[n - Len(s)]
  BY <1>1, <1>2, ConcatFacts
<1>4. u[1] = s[1] /\ u[2] = s[2] /\ Len(u) >= 2
  BY <1>1, <1>3
<1>5. ASSUME NEW n \in 3 .. Len(u)
      PROVE  Lawful(u[n], k)
  <2>1. CASE n <= Len(s)
    <3>1. n \in 3 .. Len(s) /\ u[n] = s[n]
      BY <1>1, <1>3, <2>1
    <3> QED BY <1>1, <3>1
  <2>2. CASE n > Len(s)
    <3>1. n - Len(s) \in 1 .. Len(t) /\ u[n] = t[n - Len(s)]
      BY <1>1, <1>3, <2>2
    <3> QED BY <3>1
  <2> QED BY <1>1, <1>3, <2>1, <2>2
<1> QED BY <1>1, <1>2, <1>3, <1>4, <1>5 DEF CreatingCalls

LEMMA PlainMore ==
  ASSUME NEW files, NEW k, NEW s, PlainCalls(files, s, k), NEW t, PlainCalls(files, t, k)
  PROVE  PlainCalls(files, s \o t, k)
<1>1. IsFile(s) /\ Len(s) \in Nat /\ IsFile(t) /\ Len(t) \in Nat
  BY FileFacts DEF PlainCalls
<1>2. PICK u : u = s \o t
  OBVIOUS
<1>3. /\ IsFile(u) /\ Len(u) = Len(s) + Len(t)
      /\ \A n \in 1 .. Len(s) + Len(t) : u[n] = IF n <= Len(s) THEN s[n] ELSE t[n - Len(s)]
  BY <1>1, <1>2, ConcatFacts
<1>4. ASSUME NEW n \in 1 .. Len(u)
      PROVE  Lawful(u[n], k) /\ files[u[n].file] # Missing
  <2>1. CASE n <= Len(s)
    <3>1. n \in 1 .. Len(s) /\ u[n] = s[n]
      BY <1>1, <1>3, <2>1
    <3> QED BY <3>1 DEF PlainCalls
  <2>2. CASE n > Len(s)
    <3>1. n - Len(s) \in 1 .. Len(t) /\ u[n] = t[n - Len(s)]
      BY <1>1, <1>3, <2>2
    <3> QED BY <3>1 DEF PlainCalls
  <2> QED BY <1>1, <1>3, <2>1, <2>2
<1> QED BY <1>2, <1>3, <1>4 DEF PlainCalls

LEMMA PlainNone ==
  ASSUME NEW files, NEW k
  PROVE  PlainCalls(files, <<>>, k)
<1>1. PICK s : s = <<>>
  OBVIOUS
<1>2. IsFile(s) /\ Len(s) = 0
  BY <1>1, EmptyIsFile
<1> QED BY <1>1, <1>2 DEF PlainCalls

LEMMA PlainOne ==
  ASSUME NEW files, NEW k, NEW c, Lawful(c, k), files[c.file] # Missing
  PROVE  PlainCalls(files, <<c>>, k)
<1>1. PICK s : s = <<c>>
  OBVIOUS
<1>2. IsFile(s) /\ Len(s) = 1 /\ s[1] = c
  BY <1>1, SingleIsFile
<1> QED BY <1>1, <1>2 DEF PlainCalls

-------------------------------------------------------------------------------
(* The entry and the directory *)

Fields == {"key", "born", "file", "headerCheckNeeded", "size", "stream0", "written",
           "crcEnd", "crc", "doomed", "failed"}

Shape(e) ==
  /\ DOMAIN e = Fields
  /\ e.size = [s \in Streams |-> e.size[s]] /\ \A s \in Streams : e.size[s] \in Nat
  /\ DOMAIN e.crc = Streams /\ DOMAIN e.crcEnd = Streams

\* An entry has its files open under their names, or doomed.
NamesOK(e, d) ==
  d = [i \in FileIndices |-> IF e.doomed \/ e.file[i] = Missing THEN Missing ELSE Linked]

OwnedEntry(e, d) ==
  /\ Shape(e) /\ e.key \in Keys /\ NamesOK(e, d)
  /\ e.doomed \in BOOLEAN /\ e.failed \in BOOLEAN /\ (e.failed => e.doomed)
  /\ ~ e.failed => FilesFull(e.file, e.key, e.born) /\ OwnCells(e.stream0, e.key)

\* The second file of no entry is not there.
OwnedDirectory(d) ==
  /\ d = [i \in FileIndices |-> d[i]]
  /\ d[0] \in {Missing, <<>>} => d[1] = Missing
  /\ d[0] \notin {Missing, <<>>} => \E k \in Keys : \E b : FilesOwned(d, k, b)

OwnerInv ==
  IF entry = Closed THEN OwnedDirectory(disk) ELSE OwnedEntry(entry, disk)

Gone == [i \in FileIndices |-> Missing]

LEMMA GoneIsOwned == OwnedDirectory(Gone)
  BY DEF OwnedDirectory, Gone, FileIndices

\* Both names go at once.
AllOrNone == "partial" \notin Faults

LEMMA DoomLeavesNothing ==
  ASSUME AllOrNone, NEW e, NEW d, NamesOK(e, d), e.doomed \in BOOLEAN
  PROVE  DoomInternal(d, e) = {Gone}
<1>1. CASE e.doomed
  BY <1>1 DEF DoomInternal, NamesOK, Gone
<1>2. CASE ~ e.doomed
  <2>1. PICK S : S = {i \in FileIndices : ~ Omitted(e, i)}
    OBVIOUS
  <2>2. Unlinked(d, S) = {[i \in FileIndices |-> IF i \in S THEN Missing ELSE d[i]]}
    BY DEF Unlinked, AllOrNone
  <2>3. [i \in FileIndices |-> IF i \in S THEN Missing ELSE d[i]] = Gone
    BY <1>2, <2>1 DEF NamesOK, Gone, Omitted
  <2> QED BY <1>2, <2>1, <2>2, <2>3 DEF DoomInternal
<1> QED BY <1>1, <1>2

LEMMA DeleteLeavesNothing ==
  ASSUME AllOrNone, NEW d
  PROVE  DeleteFilesForEntryHash(d) = {Gone}
  BY DEF DeleteFilesForEntryHash, Unlinked, AllOrNone, Gone

\* An entry that is not doomed gives its files back.
LEMMA ReleasedIsOwned ==
  ASSUME Distinct, NEW e, NEW d, NamesOK(e, d), e.doomed \in BOOLEAN, NEW f,
         ~ e.doomed => /\ e.key \in Keys /\ FilesOwned(f, e.key, e.born)
                       /\ e.file[0] # Missing
  PROVE  OwnedDirectory(Released(d, f))
<1>1. CASE e.doomed
  <2>1. Released(d, f) = Gone
    BY <1>1 DEF Released, NamesOK, Gone, Distinct
  <2> QED BY <2>1, GoneIsOwned
<1>2. CASE ~ e.doomed
  <2>1. PICK r : r = Released(d, f)
    OBVIOUS
  <2>2. /\ r = [i \in FileIndices |-> r[i]]
        /\ r[0] = f[0] /\ (r[1] = f[1] \/ r[1] = Missing)
    BY <1>2, <2>1 DEF Released, NamesOK, FileIndices
  <2>3. FilesOwned(r, e.key, e.born)
    BY <1>2, <2>2 DEF FilesOwned
  <2>4. r[0] \notin {Missing, <<>>}
    BY <2>3, EmptyIsFile DEF FilesOwned, Full, OwnCells, Distinct
  <2> QED BY <1>2, <2>1, <2>2, <2>3, <2>4 DEF OwnedDirectory
<1> QED BY <1>1, <1>2

LEMMA EntryIsNotClosed ==
  ASSUME Distinct, NEW e, Shape(e)
  PROVE  e # Closed
  BY DEF Distinct, Shape, Fields

\* Init and the answers say nothing of the directory.
LEMMA LeavesOwned ==
  ASSUME NEW d, NEW broken, LeavesBehind(d, broken), OwnedDirectory(d)
  PROVE  OwnerInv'
  BY DEF LeavesBehind, OwnerInv

LEMMA FailsOwned ==
  ASSUME AllOrNone, Distinct, NEW e, OwnedEntry(e, disk), Fails(e)
  PROVE  OwnerInv'
<1>1. disk' = Gone /\ entry' = [e EXCEPT !.doomed = TRUE, !.failed = TRUE]
  BY DoomLeavesNothing DEF Fails, OwnedEntry
<1>2. PICK f : f = entry'
  OBVIOUS
<1>3. Shape(f) /\ f.key = e.key /\ f.file = e.file /\ f.doomed = TRUE /\ f.failed = TRUE
  BY <1>1, <1>2 DEF OwnedEntry, Shape, Fields
<1>4. NamesOK(f, Gone)
  BY <1>3 DEF NamesOK, Gone
<1>5. f # Closed
  BY <1>3, EntryIsNotClosed
<1> QED BY <1>1, <1>2, <1>3, <1>4, <1>5 DEF OwnerInv, OwnedEntry

-------------------------------------------------------------------------------
(* Where the calls of a ready entry are *)

LEMMA OffsetsBehindHeader ==
  ASSUME NEW size, \A s \in Streams : size[s] \in Nat, NEW s \in Streams, NEW offset \in Nat
  PROVE  /\ GetOffsetInFile(size, offset, s) \in Nat /\ GetOffsetInFile(size, offset, s) > 0
         /\ GetEOFOffsetInFile(size, s) \in Nat /\ GetEOFOffsetInFile(size, s) > 0
         /\ GetLastEOFOffsetInFile(size, s) \in Nat /\ GetLastEOFOffsetInFile(size, s) > 0
<1>1. HeaderSize = 1 /\ EofSize = 1 /\ Sha256Size = 1
  BY EntryAssumption
<1>2. \A t \in Streams, o \in Nat :
        GetOffsetInFile(size, o, t) \in Nat /\ GetOffsetInFile(size, o, t) > 0
  BY <1>1 DEF GetOffsetInFile, Streams
<1>3. \A t \in Streams : GetEOFOffsetInFile(size, t) \in Nat /\ GetEOFOffsetInFile(size, t) > 0
  BY <1>1, <1>2 DEF GetEOFOffsetInFile
<1>4. (IF s = 1 THEN 0 ELSE s) \in Streams
  BY DEF Streams
<1> QED BY <1>2, <1>3, <1>4 DEF GetLastEOFOffsetInFile

LEMMA WriteCallsLawful ==
  ASSUME Distinct, NEW e, Shape(e), FilesFull(e.file, e.key, e.born),
         NEW s \in {1, 2}, NEW offset \in Nat, NEW data, OwnCells(data, e.key),
         NEW truncate \in BOOLEAN
  PROVE  LET i == GetFileIndexFromStreamIndex(s)
             calls == WriteCalls(e, s, offset, data, truncate)
         IN /\ Omitted(e, i) => CreatingCalls(calls, e.key, e.born)
            /\ ~ Omitted(e, i) => PlainCalls(e.file, calls, e.key)
<1> DEFINE i == GetFileIndexFromStreamIndex(s)
           extending == offset + Len(data) > e.size[s]
           cutLast == truncate \/ (Len(data) = 0 /\ extending)
           resized == [e.size EXCEPT ![s] = offset + Len(data)]
           A == IF Omitted(e, i)
                THEN <<CreateCall(i), WriteCall(i, 0, <<Header(e.key, e.born)>>)>> ELSE <<>>
           B == IF extending THEN <<SetLengthCall(i, GetEOFOffsetInFile(e.size, s))>> ELSE <<>>
           C == IF Len(data) > 0
                THEN <<WriteCall(i, GetOffsetInFile(e.size, offset, s), data)>> ELSE <<>>
           D == IF cutLast
                THEN <<SetLengthCall(i, GetLastEOFOffsetInFile(resized, s))>> ELSE <<>>
<1>1. WriteCalls(e, s, offset, data, truncate) = A \o B \o C \o D
  BY DEF WriteCalls
<1>2. /\ i \in FileIndices /\ s \in Streams /\ Len(data) \in Nat
      /\ Omitted(e, i) => i = 1
      /\ ~ Omitted(e, i) => e.file[i] # Missing
  <2>1. e.file[0] # Missing
    BY DEF FilesFull, Full, OwnCells, Distinct
  <2>2. Len(data) \in Nat
    BY FileFacts DEF OwnCells
  <2> QED BY <2>1, <2>2 DEF GetFileIndexFromStreamIndex, FileIndices, Streams, Omitted
<1>3. \A t \in Streams : e.size[t] \in Nat /\ resized[t] \in Nat
  BY <1>2 DEF Shape
<1>4. ASSUME NEW n \in Nat, n > 0
      PROVE  Lawful(SetLengthCall(i, n), e.key) /\ SetLengthCall(i, n).file = i
  BY <1>2, <1>4, SetLengthIs DEF Lawful
<1>5. ASSUME NEW n \in Nat, n > 0
      PROVE  Lawful(WriteCall(i, n, data), e.key) /\ WriteCall(i, n, data).file = i
  BY <1>2, <1>5, WriteIs, ZenonT(60) DEF Lawful
<1>6. PICK x, y, z : /\ x = GetEOFOffsetInFile(e.size, s)
                     /\ y = GetOffsetInFile(e.size, offset, s)
                     /\ z = GetLastEOFOffsetInFile(resized, s)
  OBVIOUS
<1>7. x \in Nat /\ x > 0 /\ y \in Nat /\ y > 0 /\ z \in Nat /\ z > 0
  <2>1. x \in Nat /\ x > 0 /\ y \in Nat /\ y > 0
    BY <1>2, <1>3, <1>6, OffsetsBehindHeader
  <2>2. z \in Nat /\ z > 0
    <3>1. PICK r : r = resized
      OBVIOUS
    <3>2. \A t \in Streams : r[t] \in Nat
      BY <1>3, <3>1
    <3>3. 0 \in Nat
      OBVIOUS
    <3> QED BY <1>2, <1>6, <3>1, <3>2, <3>3, OffsetsBehindHeader
  <2> QED BY <2>1, <2>2
<1>8. PICK b, c, d : b = B /\ c = C /\ d = D
  OBVIOUS
<1>9. ASSUME NEW files, files[i] # Missing
      PROVE  /\ PlainCalls(files, b, e.key) /\ PlainCalls(files, c, e.key)
             /\ PlainCalls(files, d, e.key)
  <2>1. PlainCalls(files, <<SetLengthCall(i, x)>>, e.key)
    BY <1>4, <1>7, <1>9, PlainOne
  <2>2. PlainCalls(files, <<WriteCall(i, y, data)>>, e.key)
    BY <1>5, <1>7, <1>9, PlainOne
  <2>3. PlainCalls(files, <<SetLengthCall(i, z)>>, e.key)
    BY <1>4, <1>7, <1>9, PlainOne
  <2> QED BY <1>6, <1>8, <2>1, <2>2, <2>3, PlainNone
<1>10. CASE ~ Omitted(e, i)
  <2>1. A = <<>> /\ PlainCalls(e.file, <<>>, e.key)
    BY <1>10, PlainNone
  <2>2. PICK a : a = A
    OBVIOUS
  <2>3. PlainCalls(e.file, a \o b, e.key)
    BY <1>2, <1>9, <1>10, <2>1, <2>2, PlainMore
  <2>4. PlainCalls(e.file, (a \o b) \o c, e.key)
    BY <1>2, <1>9, <1>10, <2>3, PlainMore
  <2>5. PlainCalls(e.file, ((a \o b) \o c) \o d, e.key)
    BY <1>2, <1>9, <1>10, <2>4, PlainMore
  <2> QED BY <1>1, <1>8, <1>10, <2>2, <2>5
<1>11. CASE Omitted(e, i)
  <2>1. PICK a : a = A
    OBVIOUS
  <2>2. a = <<CreateCall(1), WriteCall(1, 0, <<Header(e.key, e.born)>>)>>
    BY <1>2, <1>11, <2>1
  <2>3. CreatingCalls(a, e.key, e.born)
    <3>1. PICK p, q : p = CreateCall(1) /\ q = WriteCall(1, 0, <<Header(e.key, e.born)>>)
      OBVIOUS
    <3>2. a = <<p, q>>
      BY <2>2, <3>1
    <3>3. a \in Seq({p, q}) /\ Len(a) = 2 /\ a[1] = p /\ a[2] = q
      BY <3>2
    <3> QED BY <3>1, <3>3 DEF CreatingCalls, IsFile
  <2>4. /\ IsFile(b) /\ \A n \in 1 .. Len(b) : Lawful(b[n], e.key)
        /\ IsFile(c) /\ \A n \in 1 .. Len(c) : Lawful(c[n], e.key)
        /\ IsFile(d) /\ \A n \in 1 .. Len(d) : Lawful(d[n], e.key)
    <3>1. PICK files : files = [j \in FileIndices |-> Linked]
      OBVIOUS
    <3>2. files[i] # Missing
      BY <1>2, <3>1 DEF Distinct
    <3> QED BY <1>9, <3>2 DEF PlainCalls
  <2>5. CreatingCalls(a \o b, e.key, e.born)
    BY <2>3, <2>4, CreatingMore
  <2>6. CreatingCalls((a \o b) \o c, e.key, e.born)
    BY <2>4, <2>5, CreatingMore
  <2>7. CreatingCalls(((a \o b) \o c) \o d, e.key, e.born)
    BY <2>4, <2>6, CreatingMore
  <2> QED BY <1>1, <1>8, <1>11, <2>1, <2>7
<1> QED BY <1>10, <1>11

LEMMA OneIsPlain ==
  ASSUME NEW files, NEW k, NEW c, PlainCalls(files, <<c>>, k)
  PROVE  Lawful(c, k) /\ files[c.file] # Missing
<1>1. PICK s : s = <<c>>
  OBVIOUS
<1>2. Len(s) = 1 /\ s[1] = c
  BY <1>1
<1> QED BY <1>1, <1>2 DEF PlainCalls

LEMMA CloseCallsLawful ==
  ASSUME Distinct, NEW e, Shape(e), FilesFull(e.file, e.key, e.born), OwnCells(e.stream0, e.key)
  PROVE  PlainCalls(e.file, AllCloseCalls(e), e.key)
<1>1. ASSUME NEW n \in Nat, n > 0, NEW cells, OwnCells(cells, e.key),
             NEW i \in FileIndices, e.file[i] # Missing
      PROVE  PlainCalls(e.file, <<WriteCall(i, n, cells)>>, e.key)
  <2>1. Lawful(WriteCall(i, n, cells), e.key) /\ WriteCall(i, n, cells).file = i
    BY <1>1, WriteIs DEF Lawful
  <2> QED BY <1>1, <2>1, PlainOne
<1>2. ASSUME NEW n \in Nat, n > 0, NEW i \in FileIndices, e.file[i] # Missing
      PROVE  PlainCalls(e.file, <<SetLengthCall(i, n)>>, e.key)
  <2>1. Lawful(SetLengthCall(i, n), e.key) /\ SetLengthCall(i, n).file = i
    BY <1>2, SetLengthIs DEF Lawful
  <2> QED BY <1>2, <2>1, PlainOne
<1>3. \A s \in Streams : e.size[s] \in Nat
  BY DEF Shape
<1>4. 0 \in FileIndices /\ 0 \in Streams /\ e.file[0] # Missing
  BY DEF FilesFull, Full, OwnCells, Distinct, FileIndices, Streams
<1>5. ASSUME NEW c, OwnCell(c, e.key)
      PROVE  OwnCells(<<c>>, e.key)
  BY <1>5, SingleIsFile DEF OwnCells
<1>6. ASSUME NEW s \in Streams
      PROVE  PlainCalls(e.file, PayloadCalls(e, s), e.key)
  <2>1. CASE s # 0
    BY <2>1, PlainNone DEF PayloadCalls
  <2>2. CASE s = 0
    <3>1. PICK x, y, z : /\ x = GetOffsetInFile(e.size, 0, 0)
                         /\ y = GetOffsetInFile(e.size, 0, 0) + e.size[0]
                         /\ z = GetEOFOffsetInFile(e.size, 0)
      OBVIOUS
    <3>2. x \in Nat /\ x > 0 /\ z \in Nat /\ z > 0
      <4>1. PICK o, t, size : o = 0 /\ t = 0 /\ size = e.size
        OBVIOUS
      <4>2. o \in Nat /\ t \in Streams /\ \A r \in Streams : size[r] \in Nat
        BY <1>3, <1>4, <4>1
      <4>3. /\ GetOffsetInFile(size, o, t) \in Nat /\ GetOffsetInFile(size, o, t) > 0
            /\ GetEOFOffsetInFile(size, t) \in Nat /\ GetEOFOffsetInFile(size, t) > 0
        BY <4>2, OffsetsBehindHeader
      <4> QED BY <3>1, <4>1, <4>3
    <3>3. y \in Nat /\ y > 0
      BY <1>3, <1>4, <3>1, <3>2
    <3>4. OwnCells(<<Sha256(e.key)>>, e.key)
      BY <1>5, PlainCells
    <3>5. PICK a, b, c : /\ a = WriteCall(0, x, e.stream0)
                         /\ b = WriteCall(0, y, <<Sha256(e.key)>>)
                         /\ c = SetLengthCall(0, z)
      OBVIOUS
    <3>6. PlainCalls(e.file, <<a>>, e.key)
      BY <1>1, <1>4, <3>2, <3>5
    <3>7. PlainCalls(e.file, <<b>>, e.key)
      BY <1>1, <1>4, <3>3, <3>4, <3>5
    <3>8. PlainCalls(e.file, <<c>>, e.key)
      BY <1>2, <1>4, <3>2, <3>5
    <3>9. PlainCalls(e.file, <<a, b, c>>, e.key)
      <4>1. PICK l : l = <<a, b, c>>
        OBVIOUS
      <4>2. l \in Seq({a, b, c}) /\ Len(l) = 3 /\ l[1] = a /\ l[2] = b /\ l[3] = c
        BY <4>1
      <4>3. \A d \in {a, b, c} : Lawful(d, e.key) /\ e.file[d.file] # Missing
        BY <3>6, <3>7, <3>8, OneIsPlain
      <4>4. \A n \in 1 .. 3 : l[n] \in {a, b, c}
        BY <4>2
      <4>5. IsFile(l)
        BY <4>2 DEF IsFile
      <4> QED BY <4>1, <4>2, <4>3, <4>4, <4>5 DEF PlainCalls
    <3>12. PayloadCalls(e, s) = <<a, b, c>>
      BY <2>2, <3>1, <3>5 DEF PayloadCalls
    <3> QED BY <3>9, <3>12
  <2> QED BY <2>1, <2>2
<1>7. ASSUME NEW s \in Streams
      PROVE  PlainCalls(e.file, CloseCalls(e, s), e.key)
  <2>1. PICK i : i = GetFileIndexFromStreamIndex(s)
    OBVIOUS
  <2>2. i \in FileIndices
    BY <2>1 DEF GetFileIndexFromStreamIndex, FileIndices
  <2>3. CASE e.failed \/ ~ e.written[s] \/ Omitted(e, i)
    BY <2>1, <2>3, PlainNone DEF CloseCalls
  <2>4. CASE ~ (e.failed \/ ~ e.written[s] \/ Omitted(e, i))
    <3>1. PICK p, n, c : /\ p = PayloadCalls(e, s) /\ n = GetEOFOffsetInFile(e.size, s)
                         /\ c = EofOf(e, s)
      OBVIOUS
    <3>2. n \in Nat /\ n > 0
      <4>1. 0 \in Nat
        OBVIOUS
      <4> QED BY <1>3, <3>1, <4>1, OffsetsBehindHeader
    <3>3. OwnCell(c, e.key)
      <4>1. c.kind = "eof" /\ c.size \in Nat
        BY <1>3, <1>4, <3>1 DEF EofOf, Eof
      <4> QED BY <4>1 DEF OwnCell
    <3>4. e.file[i] # Missing
      BY <2>4 DEF Omitted
    <3>5. PlainCalls(e.file, <<WriteCall(i, n, <<c>>)>>, e.key)
      BY <1>1, <1>5, <2>2, <3>2, <3>3, <3>4
    <3>6. PlainCalls(e.file, p, e.key)
      BY <1>6, <3>1
    <3>7. PlainCalls(e.file, p \o <<WriteCall(i, n, <<c>>)>>, e.key)
      BY <3>5, <3>6, PlainMore
    <3>8. CloseCalls(e, s) = p \o <<WriteCall(i, n, <<c>>)>>
      BY <2>1, <2>4, <3>1 DEF CloseCalls
    <3> QED BY <3>7, <3>8
  <2> QED BY <2>3, <2>4
<1>8. PICK x, y, z : x = CloseCalls(e, 0) /\ y = CloseCalls(e, 1) /\ z = CloseCalls(e, 2)
  OBVIOUS
<1>9. PlainCalls(e.file, x, e.key) /\ PlainCalls(e.file, y, e.key) /\ PlainCalls(e.file, z, e.key)
  BY <1>7, <1>8 DEF Streams
<1>10. PlainCalls(e.file, x \o y, e.key)
  BY <1>9, PlainMore
<1>11. PlainCalls(e.file, (x \o y) \o z, e.key)
  BY <1>9, <1>10, PlainMore
<1> QED BY <1>8, <1>11 DEF AllCloseCalls

LEMMA PlainAfter ==
  ASSUME Distinct, NEW files, NEW k, NEW b, FilesFull(files, k, b),
         NEW calls, PlainCalls(files, calls, k)
  PROVE  /\ FilesFull(After(files, calls), k, b)
         /\ (After(files, calls)[1] = Missing <=> files[1] = Missing)
<1>1. IsFile(calls)
  BY DEF PlainCalls
<1>2. Len(calls) \in Nat /\ AfterFirst(files, calls, Len(calls)) = After(files, calls)
  BY <1>1, AfterFirstUnfolds
<1>3. Len(calls) \in 0 .. Len(calls)
  BY <1>2
<1>4. PICK t : t = After(files, calls)
  OBVIOUS
<1>5. FilesFull(t, k, b) /\ (t[1] = Missing <=> files[1] = Missing)
  BY <1>2, <1>3, <1>4, PlainSteps
<1> QED BY <1>4, <1>5

LEMMA CreatingAfter ==
  ASSUME Distinct, NEW files, NEW k, NEW b, FilesFull(files, k, b),
         NEW calls, CreatingCalls(calls, k, b)
  PROVE  FilesFull(After(files, calls), k, b) /\ After(files, calls)[1] # Missing
<1>1. IsFile(calls) /\ Len(calls) >= 2
  BY DEF CreatingCalls
<1>2. Len(calls) \in Nat /\ AfterFirst(files, calls, Len(calls)) = After(files, calls)
  BY <1>1, AfterFirstUnfolds
<1>3. Len(calls) \in 2 .. Len(calls)
  BY <1>1, <1>2
<1> QED BY <1>2, <1>3, CreatingSteps

LEMMA FullIsOwned ==
  ASSUME NEW files, NEW k, NEW b, FilesFull(files, k, b)
  PROVE  FilesOwned(files, k, b)
  BY DEF FilesFull, FilesOwned

-------------------------------------------------------------------------------
(* The operations *)

\* The name that a write to a stream has made.
LinkedAfter(e, s, d, f) ==
  LET i == GetFileIndexFromStreamIndex(s)
  IN IF Omitted(e, i) /\ f[i] # Missing /\ ~ e.doomed THEN [d EXCEPT ![i] = Linked] ELSE d

LEMMA LinkedNames ==
  ASSUME Distinct, NEW e, NEW d, NamesOK(e, d), FilesFull(e.file, e.key, e.born),
         NEW s \in {1, 2}, NEW f, FilesOwned(f, e.key, e.born),
         NEW g, g.doomed = e.doomed, g.file = f,
         LET i == GetFileIndexFromStreamIndex(s)
         IN /\ Omitted(e, i) => ~ e.doomed /\ (f = e.file \/ f[1] # Missing)
            /\ ~ Omitted(e, i) => (f[1] = Missing <=> e.file[1] = Missing)
  PROVE  NamesOK(g, LinkedAfter(e, s, d, f))
<1>1. e.file[0] # Missing /\ f[0] # Missing
  BY DEF FilesFull, FilesOwned, Full, OwnCells, Distinct
<1>2. PICK i : i = GetFileIndexFromStreamIndex(s)
  OBVIOUS
<1>3. i = IF s = 2 THEN 1 ELSE 0
  BY <1>2 DEF GetFileIndexFromStreamIndex
<1>4. PICK l : l = LinkedAfter(e, s, d, f)
  OBVIOUS
<1>5. l = IF Omitted(e, i) /\ f[i] # Missing /\ ~ e.doomed THEN [d EXCEPT ![i] = Linked] ELSE d
  BY <1>2, <1>4 DEF LinkedAfter
<1>6. /\ Omitted(e, i) => ~ e.doomed /\ (f = e.file \/ f[1] # Missing)
      /\ ~ Omitted(e, i) => (f[1] = Missing <=> e.file[1] = Missing)
  BY <1>2
<1>7. CASE Omitted(e, i)
  <2>1. i = 1 /\ e.file[1] = Missing /\ ~ e.doomed
    BY <1>1, <1>3, <1>6, <1>7 DEF Omitted
  <2>2. CASE f[1] = Missing
    <3>1. l = d
      BY <1>5, <2>1, <2>2
    <3> QED BY <1>1, <1>4, <2>1, <2>2, <3>1 DEF NamesOK, FileIndices
  <2>3. CASE f[1] # Missing
    <3>1. l = [d EXCEPT ![1] = Linked]
      BY <1>5, <1>7, <2>1, <2>3
    <3>2. l = [j \in FileIndices |-> IF j = 1 THEN Linked ELSE d[j]]
      BY <3>1 DEF NamesOK, FileIndices
    <3> QED BY <1>1, <1>4, <2>1, <2>3, <3>2 DEF NamesOK, FileIndices
  <2> QED BY <2>2, <2>3
<1>8. CASE ~ Omitted(e, i)
  <2>1. l = d /\ (f[1] = Missing <=> e.file[1] = Missing)
    BY <1>5, <1>6, <1>8
  <2> QED BY <1>1, <1>4, <2>1 DEF NamesOK, FileIndices
<1> QED BY <1>7, <1>8

LEMMA AfterWriteFields ==
  ASSUME NEW e, Shape(e), NEW s \in {1, 2}, NEW offset \in Nat, NEW data, Len(data) \in Nat,
         NEW truncate \in BOOLEAN, NEW f, f = AfterWrite(e, s, offset, data, truncate)
  PROVE  /\ Shape(f) /\ f.file = After(e.file, WriteCalls(e, s, offset, data, truncate))
         /\ f.key = e.key /\ f.born = e.born /\ f.stream0 = e.stream0
         /\ f.doomed = e.doomed /\ f.failed = e.failed
<1> DEFINE r == [e EXCEPT !.crcEnd[s] = IF offset < @ THEN 0 ELSE @]
<1>1. PICK g : g = r
  OBVIOUS
<1>2. /\ DOMAIN g = Fields /\ g.size = e.size /\ g.file = e.file /\ g.key = e.key
      /\ g.born = e.born /\ g.stream0 = e.stream0 /\ g.doomed = e.doomed /\ g.failed = e.failed
      /\ DOMAIN g.crc = Streams /\ DOMAIN g.crcEnd = Streams
  BY <1>1 DEF Shape, Fields
<1>3. PICK h : h = IF data = <<>> THEN g ELSE AdvanceCrc(g, s, offset, data)
  OBVIOUS
<1>4. /\ DOMAIN h = Fields /\ h.size = e.size /\ h.file = e.file /\ h.key = e.key
      /\ h.born = e.born /\ h.stream0 = e.stream0 /\ h.doomed = e.doomed /\ h.failed = e.failed
      /\ DOMAIN h.crc = Streams /\ DOMAIN h.crcEnd = Streams
  <2>1. CASE h = g
    BY <1>2, <2>1
  <2>2. CASE h = AdvanceCrc(g, s, offset, data)
    BY <1>2, <2>2 DEF AdvanceCrc, Fields
  <2> QED BY <1>3, <2>1, <2>2
<1>5. PICK end, c : end = offset + Len(data) /\ c = WriteCalls(e, s, offset, data, truncate)
  OBVIOUS
<1>6. f = [h EXCEPT !.file = After(@, c),
                    !.size[s] = IF truncate \/ end > @ THEN end ELSE @,
                    !.written = [t \in Streams |-> @[t] \/ t \in Displaced(s)]]
  BY <1>1, <1>3, <1>5 DEF AfterWrite
<1>7. /\ DOMAIN f = Fields /\ f.file = After(e.file, c) /\ f.key = e.key
      /\ f.born = e.born /\ f.stream0 = e.stream0 /\ f.doomed = e.doomed /\ f.failed = e.failed
      /\ DOMAIN f.crc = Streams /\ DOMAIN f.crcEnd = Streams
  BY <1>4, <1>6 DEF Fields
<1>8. f.size = [e.size EXCEPT ![s] = IF truncate \/ end > e.size[s] THEN end ELSE e.size[s]]
  BY <1>4, <1>6 DEF Fields
<1>9. s \in Streams /\ end \in Nat
  BY <1>5 DEF Streams
<1>10. f.size = [t \in Streams |-> f.size[t]] /\ \A t \in Streams : f.size[t] \in Nat
  BY <1>8, <1>9 DEF Shape
<1> QED BY <1>5, <1>7, <1>10 DEF Shape

LEMMA WriteDataOwned ==
  ASSUME AllOrNone, Distinct, OwnedEntry(entry, disk), ~ entry.failed,
         NEW s \in {1, 2}, NEW offset \in Nat, NEW data, OwnCells(data, entry.key),
         NEW truncate \in BOOLEAN, WriteData(s, offset, data, truncate)
  PROVE  OwnerInv'
<1>1. PICK e, d, i, calls, g :
        /\ e = entry /\ d = disk /\ i = GetFileIndexFromStreamIndex(s)
        /\ calls = WriteCalls(e, s, offset, data, truncate)
        /\ g = AfterWrite(e, s, offset, data, truncate)
  OBVIOUS
<1>2. \/ Fails(e)
      \/ /\ e.doomed
         /\ entry' = [e EXCEPT !.failed = TRUE] /\ disk' = d
      \/ /\ ~ (Omitted(e, i) /\ e.doomed)
         /\ entry' = [g EXCEPT !.headerCheckNeeded = @ /\ i = 0]
         /\ disk' = LinkedAfter(e, s, d, g.file)
      \/ /\ ~ (Omitted(e, i) /\ e.doomed)
         /\ \E n \in DOMAIN calls : \E file \in TornAt(e.file, calls, n) :
              \/ \E u \in DoomInternal(LinkedAfter(e, s, d, file), [e EXCEPT !.file = file]) :
                   /\ disk' = u
                   /\ entry' = [[e EXCEPT !.file = file] EXCEPT !.doomed = TRUE, !.failed = TRUE]
              \/ LeavesBehind(Released(LinkedAfter(e, s, d, file), file), TRUE)
  BY <1>1 DEF WriteData, LinkedAfter
<1>3. /\ OwnedEntry(e, d) /\ ~ e.failed /\ Shape(e) /\ e.key \in Keys /\ NamesOK(e, d)
      /\ e.doomed \in BOOLEAN /\ e.failed \in BOOLEAN
      /\ FilesFull(e.file, e.key, e.born) /\ OwnCells(e.stream0, e.key)
  BY <1>1 DEF OwnedEntry
<1>4. /\ Omitted(e, i) => CreatingCalls(calls, e.key, e.born)
      /\ ~ Omitted(e, i) => PlainCalls(e.file, calls, e.key)
  BY <1>1, <1>3, WriteCallsLawful
<1>5. CASE Fails(e)
  BY <1>1, <1>3, <1>5, FailsOwned
<1>6. CASE e.doomed /\ entry' = [e EXCEPT !.failed = TRUE] /\ disk' = d
  <2>1. PICK f : f = entry'
    OBVIOUS
  <2>2. Shape(f) /\ f.key = e.key /\ f.file = e.file /\ f.doomed = TRUE /\ f.failed = TRUE
    BY <1>3, <1>6, <2>1 DEF Shape, Fields
  <2>3. NamesOK(f, d)
    BY <1>3, <1>6, <2>2 DEF NamesOK
  <2>4. f # Closed
    BY <2>2, EntryIsNotClosed
  <2> QED BY <1>3, <1>6, <2>1, <2>2, <2>3, <2>4 DEF OwnerInv, OwnedEntry
<1>7. CASE /\ ~ (Omitted(e, i) /\ e.doomed)
           /\ entry' = [g EXCEPT !.headerCheckNeeded = @ /\ i = 0]
           /\ disk' = LinkedAfter(e, s, d, g.file)
  <2>1. Len(data) \in Nat
    BY FileFacts DEF OwnCells
  <2>2. /\ Shape(g) /\ g.file = After(e.file, calls)
        /\ g.key = e.key /\ g.born = e.born /\ g.stream0 = e.stream0
        /\ g.doomed = e.doomed /\ g.failed = e.failed
    <3>1. g = AfterWrite(e, s, offset, data, truncate) /\ Shape(e)
      BY <1>1, <1>3
    <3>2. /\ Shape(g) /\ g.file = After(e.file, WriteCalls(e, s, offset, data, truncate))
          /\ g.key = e.key /\ g.born = e.born /\ g.stream0 = e.stream0
          /\ g.doomed = e.doomed /\ g.failed = e.failed
      BY <2>1, <3>1, AfterWriteFields
    <3> QED BY <1>1, <3>2
  <2>3. PICK h : h = entry'
    OBVIOUS
  <2>4. /\ Shape(h) /\ h.file = g.file
        /\ h.key = e.key /\ h.born = e.born /\ h.stream0 = e.stream0
        /\ h.doomed = e.doomed /\ h.failed = e.failed
    BY <1>7, <2>2, <2>3 DEF Shape, Fields
  <2>5. /\ FilesFull(g.file, e.key, e.born)
        /\ Omitted(e, i) => g.file[1] # Missing
        /\ ~ Omitted(e, i) => (g.file[1] = Missing <=> e.file[1] = Missing)
    <3>1. CASE Omitted(e, i)
      BY <1>3, <1>4, <2>2, <3>1, CreatingAfter
    <3>2. CASE ~ Omitted(e, i)
      BY <1>3, <1>4, <2>2, <3>2, PlainAfter
    <3> QED BY <3>1, <3>2
  <2>6. FilesOwned(g.file, e.key, e.born)
    BY <2>5, FullIsOwned
  <2>7. NamesOK(h, LinkedAfter(e, s, d, g.file))
    <3>1. PICK f : f = g.file
      OBVIOUS
    <3>2. /\ FilesOwned(f, e.key, e.born) /\ h.doomed = e.doomed /\ h.file = f
          /\ Omitted(e, i) => ~ e.doomed /\ (f = e.file \/ f[1] # Missing)
          /\ ~ Omitted(e, i) => (f[1] = Missing <=> e.file[1] = Missing)
      BY <1>3, <1>7, <2>4, <2>5, <2>6, <3>1
    <3>3. NamesOK(h, LinkedAfter(e, s, d, f))
      BY <1>1, <1>3, <3>2, LinkedNames
    <3> QED BY <3>1, <3>3
  <2>8. h # Closed
    BY <2>4, EntryIsNotClosed
  <2>9. OwnedEntry(h, LinkedAfter(e, s, d, g.file))
    BY <1>3, <2>4, <2>5, <2>7 DEF OwnedEntry
  <2> QED BY <1>7, <2>3, <2>8, <2>9 DEF OwnerInv
<1>8. ASSUME ~ (Omitted(e, i) /\ e.doomed),
             NEW n \in DOMAIN calls, NEW f \in TornAt(e.file, calls, n),
             \/ \E u \in DoomInternal(LinkedAfter(e, s, d, f), [e EXCEPT !.file = f]) :
                  /\ disk' = u
                  /\ entry' = [[e EXCEPT !.file = f] EXCEPT !.doomed = TRUE, !.failed = TRUE]
             \/ LeavesBehind(Released(LinkedAfter(e, s, d, f), f), TRUE)
      PROVE  OwnerInv'
  <2>1. /\ FilesOwned(f, e.key, e.born)
        /\ Omitted(e, i) => f = e.file \/ f[1] # Missing
        /\ ~ Omitted(e, i) => (f[1] = Missing <=> e.file[1] = Missing)
    <3>1. CASE Omitted(e, i)
      BY <1>3, <1>4, <1>8, <3>1, CreatingTorn
    <3>2. CASE ~ Omitted(e, i)
      BY <1>3, <1>4, <1>8, <3>2, PlainTorn, FullIsOwned
    <3> QED BY <3>1, <3>2
  <2>2. PICK h, l : h = [e EXCEPT !.file = f] /\ l = LinkedAfter(e, s, d, f)
    OBVIOUS
  <2>3. /\ Shape(h) /\ h.file = f /\ h.key = e.key /\ h.born = e.born
        /\ h.doomed = e.doomed /\ h.failed = e.failed
    BY <1>3, <2>2 DEF Shape, Fields
  <2>4. NamesOK(h, l)
    BY <1>1, <1>3, <1>8, <2>1, <2>2, <2>3, LinkedNames
  <2>5. CASE LeavesBehind(Released(l, f), TRUE)
    <3>1. h.file[0] # Missing
      BY <2>1, <2>3 DEF FilesOwned, Full, OwnCells, Distinct
    <3>2. OwnedDirectory(Released(l, f))
      BY <1>3, <2>1, <2>3, <2>4, <3>1, ReleasedIsOwned
    <3> QED BY <2>5, <3>2, LeavesOwned
  <2>6. CASE \E u \in DoomInternal(l, h) :
               disk' = u /\ entry' = [h EXCEPT !.doomed = TRUE, !.failed = TRUE]
    <3>1. DoomInternal(l, h) = {Gone}
      BY <1>3, <2>3, <2>4, DoomLeavesNothing
    <3>2. disk' = Gone /\ entry' = [h EXCEPT !.doomed = TRUE, !.failed = TRUE]
      BY <2>6, <3>1
    <3>3. PICK j : j = entry'
      OBVIOUS
    <3>4. Shape(j) /\ j.key = e.key /\ j.doomed = TRUE /\ j.failed = TRUE
      BY <2>3, <3>2, <3>3 DEF Shape, Fields
    <3>5. NamesOK(j, Gone)
      BY <3>4 DEF NamesOK, Gone
    <3>6. j # Closed
      BY <3>4, EntryIsNotClosed
    <3> QED BY <1>3, <3>2, <3>3, <3>4, <3>5, <3>6 DEF OwnerInv, OwnedEntry
  <2> QED BY <1>8, <2>2, <2>5, <2>6
<1> QED BY <1>2, <1>5, <1>6, <1>7, <1>8

LEMMA WriteOwned ==
  ASSUME AllOrNone, Distinct, OwnerInv, Write
  PROVE  OwnerInv'
<1>1. PICK s \in Streams \ {0}, offset \in 0 .. MaxStreamSize, length \in 0 .. MaxStreamSize,
           truncate \in BOOLEAN :
        WriteData(s, offset, [n \in 1 .. length |-> Byte(writes + 1)], truncate)
  BY DEF Write
<1>2. OwnedEntry(entry, disk) /\ ~ entry.failed
  BY DEF Write, Ready, OwnerInv
<1>3. PICK data, v : v = writes + 1 /\ data = [n \in 1 .. length |-> Byte(v)]
  OBVIOUS
<1>4. s \in {1, 2} /\ offset \in Nat /\ length \in Nat
  BY EntryAssumption DEF Streams
<1>5. IsFile(data) /\ Len(data) = length /\ \A n \in 1 .. length : data[n] = Byte(v)
  <2>1. data = [n \in 1 .. length |-> data[n]]
    BY <1>3
  <2> QED BY <1>3, <1>4, <2>1, FunctionIsFile
<1>6. OwnCells(data, entry.key)
  BY <1>5, PlainCells DEF OwnCells
<1>7. WriteData(s, offset, data, truncate)
  BY <1>1, <1>3
<1> QED BY <1>2, <1>4, <1>6, <1>7, WriteDataOwned

LEMMA ReadOwned ==
  ASSUME AllOrNone, Distinct, OwnerInv, Read
  PROVE  OwnerInv'
<1>1. PICK s \in Streams \ {0}, offset \in 0 .. MaxStreamSize, length \in 0 .. MaxStreamSize :
        ReadData(s, offset, length)
  BY DEF Read
<1>2. PICK e, c, cells, f :
        /\ e = entry
        /\ c = [entry EXCEPT !.headerCheckNeeded = @ /\ GetFileIndexFromStreamIndex(s) = 0]
        /\ cells = Cells(entry.file[GetFileIndexFromStreamIndex(s)],
                         GetOffsetInFile(entry.size, offset, s), length)
        /\ f = AdvanceCrc(c, s, offset, cells)
  OBVIOUS
<1>3. Fails(e) \/ Fails(c) \/ (entry' = f /\ UNCHANGED disk)
  BY <1>1, <1>2 DEF ReadData
<1>4. OwnedEntry(e, disk) /\ ~ e.failed
  BY <1>2 DEF Read, Ready, OwnerInv
<1>5. /\ Shape(c) /\ c.key = e.key /\ c.born = e.born /\ c.file = e.file
      /\ c.stream0 = e.stream0 /\ c.doomed = e.doomed /\ c.failed = e.failed
  BY <1>2, <1>4 DEF OwnedEntry, Shape, Fields
<1>6. NamesOK(c, disk) /\ OwnedEntry(c, disk)
  BY <1>4, <1>5 DEF OwnedEntry, NamesOK
<1>7. /\ Shape(f) /\ f.key = c.key /\ f.born = c.born /\ f.file = c.file
      /\ f.stream0 = c.stream0 /\ f.doomed = c.doomed /\ f.failed = c.failed
  <2>1. CASE f = c
    BY <1>5, <2>1
  <2>2. CASE c.crcEnd[s] = offset
    BY <1>2, <1>5, <2>2 DEF AdvanceCrc, Shape, Fields
  <2> QED BY <1>2, <2>1, <2>2 DEF AdvanceCrc
<1>8. NamesOK(f, disk) /\ OwnedEntry(f, disk)
  BY <1>6, <1>7 DEF OwnedEntry, NamesOK
<1>9. f # Closed
  BY <1>7, EntryIsNotClosed
<1>10. CASE Fails(e) \/ Fails(c)
  BY <1>4, <1>6, <1>10, FailsOwned
<1>11. CASE entry' = f /\ UNCHANGED disk
  BY <1>8, <1>9, <1>11 DEF OwnerInv
<1> QED BY <1>3, <1>10, <1>11

LEMMA WriteStream0Owned ==
  ASSUME Distinct, OwnerInv, WriteStream0
  PROVE  OwnerInv'
<1>1. PICK length \in 0 .. MaxStreamSize :
        entry' = [entry EXCEPT !.stream0 = [n \in 1 .. length |-> Byte(writes + 1)],
                               !.size[0] = length, !.written[0] = TRUE, !.crcEnd[0] = 0]
  BY DEF WriteStream0
<1>2. PICK e, f, data, v :
        /\ e = entry /\ f = entry' /\ v = writes + 1 /\ data = [n \in 1 .. length |-> Byte(v)]
  OBVIOUS
<1>3. OwnedEntry(e, disk) /\ ~ e.failed /\ disk' = disk
  BY <1>2 DEF WriteStream0, Ready, OwnerInv
<1>4. length \in Nat
  BY EntryAssumption
<1>5. IsFile(data) /\ Len(data) = length /\ \A n \in 1 .. length : data[n] = Byte(v)
  <2>1. data = [n \in 1 .. length |-> data[n]]
    BY <1>2
  <2> QED BY <1>2, <1>4, <2>1, FunctionIsFile
<1>6. OwnCells(data, e.key)
  BY <1>5, PlainCells DEF OwnCells
<1>7. f = [e EXCEPT !.stream0 = data, !.size[0] = length, !.written[0] = TRUE, !.crcEnd[0] = 0]
  BY <1>1, <1>2
<1>8. /\ DOMAIN f = Fields /\ f.key = e.key /\ f.born = e.born /\ f.file = e.file
      /\ f.stream0 = data /\ f.doomed = e.doomed /\ f.failed = e.failed
      /\ f.size = [e.size EXCEPT ![0] = length]
      /\ DOMAIN f.crc = Streams /\ DOMAIN f.crcEnd = Streams
  BY <1>3, <1>7 DEF OwnedEntry, Shape, Fields
<1>9. Shape(f)
  <2>1. e.size = [s \in Streams |-> e.size[s]] /\ \A s \in Streams : e.size[s] \in Nat
    BY <1>3 DEF OwnedEntry, Shape
  <2>2. PICK size : size = f.size
    OBVIOUS
  <2>3. size = [s \in Streams |-> size[s]] /\ \A s \in Streams : size[s] \in Nat
    BY <1>4, <1>8, <2>1, <2>2 DEF Streams
  <2> QED BY <1>8, <2>2, <2>3 DEF Shape
<1>10. NamesOK(f, disk)
  BY <1>3, <1>8 DEF OwnedEntry, NamesOK
<1>11. OwnedEntry(f, disk)
  BY <1>3, <1>6, <1>8, <1>9, <1>10 DEF OwnedEntry
<1> QED BY <1>2, <1>3, <1>9, <1>11, EntryIsNotClosed DEF OwnerInv

LEMMA ReleasedGone ==
  ASSUME Distinct, NEW f
  PROVE  Released(Gone, f) = Gone
  BY DEF Released, Gone, Distinct

LEMMA CloseOwned ==
  ASSUME AllOrNone, Distinct, OwnerInv, Close
  PROVE  OwnerInv'
<1>1. PICK e, d, calls : e = entry /\ d = disk /\ calls = AllCloseCalls(e)
  OBVIOUS
<1>2. OwnedEntry(e, d)
  BY <1>1 DEF Close, OwnerInv
<1>3. DoomInternal(d, e) = {Gone}
  BY <1>2, DoomLeavesNothing DEF OwnedEntry
<1>4. \/ \E u \in {d, Gone} : LeavesBehind(Released(u, After(e.file, calls)), FALSE)
      \/ \E n \in DOMAIN calls : \E t \in TornAt(e.file, calls, n) : \E rest :
           /\ rest \in {SubSeq(calls, n + 1, Len(calls)), <<>>}
           /\ LeavesBehind(Released(Gone, After(t, rest)), TRUE)
      \/ \E n \in DOMAIN calls : \E t \in TornAt(e.file, calls, n) :
           LeavesBehind(Released(d, t), TRUE)
  <2>1. CASE \E n \in DOMAIN calls : \E t \in TornAt(e.file, calls, n) :
               LeavesBehind(Released(d, t), TRUE)
    BY <2>1
  <2>2. CASE \E u \in {d, Gone} : LeavesBehind(Released(u, After(e.file, calls)), FALSE)
    BY <2>2
  <2>3. CASE \E n \in DOMAIN calls :
             \E f \in {After(t, IF n <= 2 /\ CloseCalls(e, 0) # <<>>
                                THEN SubSeq(calls, n + 1, Len(calls)) ELSE <<>>)
                         : t \in TornAt(e.file, calls, n)} :
             \E u \in DoomInternal(d, e) : LeavesBehind(Released(u, f), TRUE)
    BY <1>3, <2>3
  <2> QED BY <1>1, <1>3, <2>1, <2>2, <2>3 DEF Close
<1>5. ASSUME NEW f, ~ e.doomed => FilesOwned(f, e.key, e.born), NEW u \in {d, Gone}
      PROVE  OwnedDirectory(Released(u, f))
  <2>1. CASE u = Gone
    BY <2>1, ReleasedGone, GoneIsOwned
  <2>2. CASE u = d
    <3>1. ~ e.doomed => e.file[0] # Missing
      BY <1>2 DEF OwnedEntry, FilesFull, Full, OwnCells, Distinct
    <3> QED BY <1>2, <1>5, <2>2, <3>1, ReleasedIsOwned DEF OwnedEntry
  <2> QED BY <2>1, <2>2
<1>6. ~ e.doomed => FilesFull(e.file, e.key, e.born) /\ PlainCalls(e.file, calls, e.key)
  <2>1. ASSUME ~ e.doomed
        PROVE  FilesFull(e.file, e.key, e.born) /\ PlainCalls(e.file, calls, e.key)
    <3>1. Shape(e) /\ FilesFull(e.file, e.key, e.born) /\ OwnCells(e.stream0, e.key)
      BY <1>2, <2>1 DEF OwnedEntry
    <3> QED BY <1>1, <3>1, CloseCallsLawful
  <2> QED BY <2>1
<1>7. ASSUME NEW u \in {d, Gone}, LeavesBehind(Released(u, After(e.file, calls)), FALSE)
      PROVE  OwnerInv'
  <2>1. ~ e.doomed => FilesOwned(After(e.file, calls), e.key, e.born)
    BY <1>6, PlainAfter, FullIsOwned
  <2> QED BY <1>5, <1>7, <2>1, LeavesOwned
<1>8. ASSUME NEW f, LeavesBehind(Released(Gone, f), TRUE)
      PROVE  OwnerInv'
  BY <1>8, ReleasedGone, GoneIsOwned, LeavesOwned
<1>9. ASSUME NEW n \in DOMAIN calls, NEW t \in TornAt(e.file, calls, n),
             LeavesBehind(Released(d, t), TRUE)
      PROVE  OwnerInv'
  <2>1. ~ e.doomed => FilesOwned(t, e.key, e.born)
    BY <1>6, <1>9, PlainTorn, FullIsOwned
  <2> QED BY <1>5, <1>9, <2>1, LeavesOwned
<1> QED BY <1>4, <1>7, <1>8, <1>9

LEMMA DoomOwned ==
  ASSUME AllOrNone, Distinct, OwnerInv, Doom
  PROVE  OwnerInv'
<1>1. PICK e, f : e = entry /\ f = entry'
  OBVIOUS
<1>2. OwnedEntry(e, disk)
  BY <1>1 DEF Doom, Ready, OwnerInv
<1>3. disk' = Gone /\ f = [e EXCEPT !.doomed = TRUE]
  BY <1>1, <1>2, DoomLeavesNothing DEF Doom, OwnedEntry
<1>4. /\ Shape(f) /\ f.key = e.key /\ f.born = e.born /\ f.file = e.file
      /\ f.stream0 = e.stream0 /\ f.doomed = TRUE /\ f.failed = e.failed
  BY <1>2, <1>3 DEF OwnedEntry, Shape, Fields
<1>5. NamesOK(f, Gone)
  BY <1>4 DEF NamesOK, Gone
<1>6. OwnedEntry(f, Gone)
  BY <1>2, <1>4, <1>5 DEF OwnedEntry
<1> QED BY <1>1, <1>3, <1>4, <1>6, EntryIsNotClosed DEF OwnerInv

LEMMA DeleteOwned ==
  ASSUME AllOrNone, DeleteEntryFiles
  PROVE  OwnerInv'
<1>1. LeavesBehind(Gone, TRUE)
  BY DeleteLeavesNothing DEF DeleteEntryFiles
<1> QED BY <1>1, GoneIsOwned, LeavesOwned

LEMMA CrashOwned ==
  ASSUME Distinct, OwnerInv, Crash
  PROVE  OwnerInv'
<1>1. PICK e, d : e = entry /\ d = disk
  OBVIOUS
<1>2. OwnedEntry(e, d) /\ LeavesBehind(Released(d, e.file), TRUE)
  BY <1>1 DEF Crash, OwnerInv
<1>3. ~ e.doomed => FilesOwned(e.file, e.key, e.born) /\ e.file[0] # Missing
  <2>1. ~ e.doomed => FilesFull(e.file, e.key, e.born)
    BY <1>2 DEF OwnedEntry
  <2>2. ~ e.doomed => e.file[0] # Missing
    BY <2>1 DEF FilesFull, Full, OwnCells, Distinct
  <2> QED BY <2>1, <2>2, FullIsOwned
<1>4. OwnedDirectory(Released(d, e.file))
  BY <1>2, <1>3, ReleasedIsOwned DEF OwnedEntry
<1> QED BY <1>2, <1>4, LeavesOwned

-------------------------------------------------------------------------------
(* Create and open *)

GoodOutcome(o) ==
  /\ o.entry = Closed => OwnedDirectory(o.disk)
  /\ o.entry # Closed => OwnedEntry(o.entry, o.disk)
  /\ o.result \notin {"ok", "unread"} => o.entry = Closed

LEMMA ClosedOutcome ==
  ASSUME NEW d, OwnedDirectory(d), NEW r
  PROVE  GoodOutcome(Outcome(d, Closed, r))
  BY DEF GoodOutcome, Outcome

LEMMA CreateOutcomes ==
  ASSUME AllOrNone, Distinct, NEW d, OwnedDirectory(d), NEW key \in Keys, NEW born,
         NEW o \in CreateEntry(d, key, born)
  PROVE  GoodOutcome(o)
<1>1. CASE d[0] # Missing
  <2>1. o = Outcome(d, Closed, "exists")
    BY <1>1 DEF CreateEntry
  <2> QED BY <2>1, ClosedOutcome
<1>2. CASE d[0] = Missing
  <2>1. PICK started : started = [d EXCEPT ![0] = <<>>]
    OBVIOUS
  <2>2. \/ o = Outcome([d EXCEPT ![0] = Linked], Fresh(key, born), "ok")
        \/ o = Outcome(d, Closed, "exists")
        \/ \E u \in Unlinked(started, {0}) : o = Outcome(u, Closed, "broken")
        \/ o = Outcome(started, Closed, "crashed")
    BY <1>2, <2>1 DEF CreateEntry
  <2>3. d[1] = Missing /\ d = [i \in FileIndices |-> d[i]]
    BY <1>2 DEF OwnedDirectory
  <2>4. CASE o = Outcome(d, Closed, "exists")
    BY <2>4, ClosedOutcome
  <2>5. OwnedDirectory(started)
    <3>1. 0 \in FileIndices /\ 1 \in FileIndices
      BY DEF FileIndices
    <3>2. started = [i \in FileIndices |-> started[i]] /\ started[0] = <<>> /\ started[1] = d[1]
      BY <2>1, <2>3, <3>1
    <3> QED BY <2>3, <3>2 DEF OwnedDirectory
  <2>6. CASE o = Outcome(started, Closed, "crashed")
    BY <2>5, <2>6, ClosedOutcome
  <2>7. Unlinked(started, {0}) = {Gone}
    <3>1. Unlinked(started, {0})
            = {[i \in FileIndices |-> IF i \in {0} THEN Missing ELSE started[i]]}
      BY DEF Unlinked, AllOrNone
    <3>2. started[1] = Missing
      BY <2>1, <2>3 DEF FileIndices
    <3>3. \A i \in FileIndices : i \in {0} \/ i = 1
      BY DEF FileIndices
    <3>4. [i \in FileIndices |-> IF i \in {0} THEN Missing ELSE started[i]] = Gone
      BY <3>2, <3>3 DEF Gone
    <3> QED BY <3>1, <3>4
  <2>8. CASE \E u \in Unlinked(started, {0}) : o = Outcome(u, Closed, "broken")
    BY <2>7, <2>8, GoneIsOwned, ClosedOutcome
  <2>9. CASE o = Outcome([d EXCEPT ![0] = Linked], Fresh(key, born), "ok")
    <3>1. PICK e, u : e = Fresh(key, born) /\ u = [d EXCEPT ![0] = Linked]
      OBVIOUS
    <3>2. /\ DOMAIN e = Fields /\ e.key = key /\ e.born = born /\ e.stream0 = <<>>
          /\ e.doomed = FALSE /\ e.failed = FALSE
          /\ e.size = [s \in Streams |-> 0]
          /\ e.file = [i \in FileIndices |-> IF i = 0 THEN <<Header(key, born)>> ELSE Missing]
          /\ DOMAIN e.crc = Streams /\ DOMAIN e.crcEnd = Streams
      BY <3>1 DEF Fresh, Fields
    <3>3. Shape(e)
      BY <3>2 DEF Shape
    <3>4. OwnCells(e.stream0, key)
      <4>1. PICK x : x = <<>>
        OBVIOUS
      <4>2. IsFile(x) /\ Len(x) = 0
        BY <4>1, EmptyIsFile
      <4> QED BY <3>2, <4>1, <4>2 DEF OwnCells
    <3>5. Full(<<Header(key, born)>>, key, born)
      <4>1. PICK f, h : h = Header(key, born) /\ f = <<h>>
        OBVIOUS
      <4>2. IsFile(f) /\ Len(f) = 1 /\ f[1] = h
        BY <4>1, SingleIsFile
      <4>3. OwnCell(h, key)
        BY <4>1, PlainCells
      <4> QED BY <4>1, <4>2, <4>3 DEF Full, OwnCells
    <3>6. FilesFull(e.file, key, born)
      BY <3>2, <3>5 DEF FilesFull, FileIndices
    <3>7. NamesOK(e, u)
      <4>1. e.file[0] # Missing /\ e.file[1] = Missing
        BY <3>2, <3>6 DEF FilesFull, Full, OwnCells, Distinct, FileIndices
      <4>2. 0 \in FileIndices /\ \A i \in FileIndices : i = 0 \/ i = 1
        BY DEF FileIndices
      <4>3. u = [i \in FileIndices |-> IF i = 0 THEN Linked ELSE d[i]]
        BY <2>3, <3>1, <4>2
      <4> QED BY <2>3, <3>2, <4>1, <4>2, <4>3 DEF NamesOK
    <3>8. OwnedEntry(e, u)
      BY <3>2, <3>3, <3>4, <3>6, <3>7 DEF OwnedEntry
    <3>9. o.entry = e /\ o.disk = u /\ o.result = "ok"
      BY <2>9, <3>1 DEF Outcome
    <3> QED BY <3>3, <3>8, <3>9, EntryIsNotClosed DEF GoodOutcome
  <2> QED BY <2>2, <2>4, <2>6, <2>8, <2>9
<1> QED BY <1>1, <1>2

\* The tail of a file that has been validated is that of its own entry.
LEMMA ValidTail ==
  ASSUME NEW f, NEW k, NEW b, Full(f, k, b), k # NoKey, NEW key, key # NoKey, NEW prefetch,
         NEW v, v = ReadAndValidateStream0AndMaybe1(f, key, prefetch), v.ok
  PROVE  /\ key = k
         /\ OwnCells(v.stream0, k)
         /\ v.size = [s \in Streams |-> v.size[s]] /\ \A s \in Streams : v.size[s] \in Nat
<1>1. PICK n : n = Len(f)
  OBVIOUS
<1>2. IsFile(f) /\ n \in Nat /\ n > 0 /\ f[1] = Header(k, b)
  BY <1>1, FileFacts DEF Full, OwnCells
<1>3. HeaderSize = 1 /\ EofSize = 1 /\ Sha256Size = 1
  BY EntryAssumption
<1> DEFINE m == Len(f)
           eof0 == CellAt(f, m - EofSize)
           extra == IF eof0.hasSha THEN Sha256Size ELSE 0
           size1 == m - 2 * EofSize - eof0.size - HeaderSize - extra
           size == [s \in Streams |-> CASE s = 0 -> eof0.size [] s = 1 -> size1 [] s = 2 -> 0]
           stream0 == Cells(f, GetOffsetInFile(size, 0, 0), eof0.size)
           stream1 == Cells(f, GetOffsetInFile(size, 0, 1), size1)
           sha == CellAt(f, GetOffsetInFile(size, eof0.size, 0))
           at1 == GetEOFOffsetInFile(size, 1)
           prefetched == eof0.hasSha /\ HasData(f, GetOffsetInFile(size, 0, 1), prefetch)
<1>4. /\ eof0 = CellAt(f, m - EofSize) /\ m = n
      /\ extra = IF eof0.hasSha THEN Sha256Size ELSE 0
      /\ size1 = m - 2 * EofSize - eof0.size - HeaderSize - extra
      /\ stream0 = Cells(f, GetOffsetInFile(size, 0, 0), eof0.size)
      /\ sha = CellAt(f, GetOffsetInFile(size, eof0.size, 0))
  BY <1>1
<1>5. /\ size[0] = eof0.size /\ size[1] = size1 /\ size[2] = 0
      /\ size = [s \in Streams |-> size[s]]
  BY DEF Streams
<1>11. v = CASE ~ EofRecord(f, m - EofSize) -> Invalid
             [] eof0.size > m \/ size1 < 0 -> Invalid
             [] ~ CrcMatches(eof0, stream0) -> Invalid
             [] prefetched /\ ~ (/\ EofRecord(f, at1)
                                 /\ CrcMatches(CellAt(f, at1), stream1)) -> Invalid
             [] ~ KeyVerified(f, key, eof0.hasSha, sha) -> Invalid
             [] OTHER -> [ok |-> TRUE, size |-> size, stream0 |-> stream0,
                          stream1 |-> IF prefetched THEN stream1 ELSE <<>>]
  BY DEF ReadAndValidateStream0AndMaybe1
<1> HIDE DEF m, eof0, extra, size1, size, stream0, stream1, sha, at1, prefetched
<1>12. v.ok /\ v # Invalid
  BY DEF Invalid
<1>13. /\ EofRecord(f, n - EofSize)
       /\ ~ (size1 < 0)
       /\ KeyVerified(f, key, eof0.hasSha, sha)
       /\ v.size = size /\ v.stream0 = stream0
  <2> DEFINE A == ~ EofRecord(f, m - EofSize)
             B == eof0.size > m \/ size1 < 0
             C == ~ CrcMatches(eof0, stream0)
             D == prefetched /\ ~ (EofRecord(f, at1) /\ CrcMatches(CellAt(f, at1), stream1))
             E == ~ KeyVerified(f, key, eof0.hasSha, sha)
  <2>1. PICK valid : valid = [ok |-> TRUE, size |-> size, stream0 |-> stream0,
                              stream1 |-> IF prefetched THEN stream1 ELSE <<>>]
    OBVIOUS
  <2>2. v = CASE A -> Invalid [] B -> Invalid [] C -> Invalid [] D -> Invalid
              [] E -> Invalid [] OTHER -> valid
    BY <1>11, <2>1
  <2> HIDE DEF A, B, C, D, E
  <2>3. ~ A /\ ~ B /\ ~ C /\ ~ D /\ ~ E /\ v = valid
    BY <1>12, <2>2
  <2>4. v.size = size /\ v.stream0 = stream0
    BY <2>1, <2>3
  <2> QED BY <1>4, <2>3, <2>4 DEF A, B, E
<1>14. eof0 = f[n] /\ eof0.kind = "eof"
  BY <1>1, <1>2, <1>3, <1>4, <1>13 DEF EofRecord, CellAt
<1>15. eof0.size \in Nat /\ extra \in {0, 1}
  <2>1. n \in 1 .. Len(f)
    BY <1>1, <1>2
  <2>2. OwnCell(f[n], k)
    BY <2>1 DEF Full, OwnCells
  <2> QED BY <1>3, <1>4, <1>14, <2>2 DEF OwnCell
<1>16. size1 \in Nat /\ n = 3 + eof0.size + extra + size1
  BY <1>2, <1>3, <1>4, <1>13, <1>15
<1>17. /\ size[0] = eof0.size /\ size[1] = size1 /\ size[2] = 0
       /\ size = [s \in Streams |-> size[s]] /\ \A s \in Streams : size[s] \in Nat
  BY <1>5, <1>15, <1>16 DEF Streams
<1>18. OwnCells(stream0, k)
  <2>1. GetOffsetInFile(size, 0, 0) = size1 + 2
    BY <1>3, <1>16, <1>17 DEF GetOffsetInFile
  <2>2. PICK a, c : a = size1 + 2 /\ c = eof0.size
    OBVIOUS
  <2>3. a \in Nat /\ c \in Nat /\ a + c <= Len(f)
    BY <1>1, <1>15, <1>16, <2>2
  <2>4. OwnCells(SubSeq(f, a + 1, a + c), k)
    BY <2>3, OwnPart DEF Full
  <2>5. stream0 = SubSeq(f, a + 1, a + c)
    BY <1>4, <2>1, <2>2 DEF Cells
  <2> QED BY <2>4, <2>5
<1>19. key = k
  <2>1. CASE eof0.hasSha
    <3>1. extra = 1 /\ sha = Sha256(key)
      BY <1>3, <1>4, <1>13, <2>1 DEF KeyVerified
    <3>2. GetOffsetInFile(size, eof0.size, 0) = size1 + 2 + eof0.size
      BY <1>3, <1>15, <1>16, <1>17 DEF GetOffsetInFile
    <3>3. PICK o, j : o = size1 + 2 + eof0.size /\ j = o + 1
      OBVIOUS
    <3>6. o \in 0 .. Len(f) - 1 /\ j \in 1 .. Len(f)
      BY <1>1, <1>15, <1>16, <3>1, <3>3
    <3>4. j \in 1 .. Len(f) /\ sha = f[j]
      BY <1>4, <3>2, <3>3, <3>6 DEF CellAt
    <3>5. OwnCell(f[j], k)
      BY <3>4 DEF Full, OwnCells
    <3> QED BY <3>1, <3>4, <3>5 DEF OwnCell, Sha256
  <2>2. CASE ~ eof0.hasSha
    <3>1. CheckHeaderAndKey(f, key)
      BY <1>13, <2>2 DEF KeyVerified
    <3>2. CellAt(f, 0) = Header(k, b)
      BY <1>1, <1>2 DEF CellAt
    <3> QED BY <3>1, <3>2 DEF CheckHeaderAndKey, Header
  <2> QED BY <2>1, <2>2
<1> QED BY <1>13, <1>17, <1>18, <1>19

LEMMA OpenedIsOwned ==
  ASSUME Distinct, NEW d, OwnedDirectory(d), d[0] # Missing,
         NEW key \in Keys \cup {NoKey}, NEW prefetch,
         InitializeForOpen(d, key, prefetch, TRUE) # Closed
  PROVE  LET e == InitializeForOpen(d, key, prefetch, TRUE)
         IN /\ Shape(e) /\ e.key \in Keys /\ FilesFull(e.file, e.key, e.born)
            /\ OwnCells(e.stream0, e.key) /\ e.doomed = FALSE /\ e.failed = FALSE
<1> DEFINE knownKey == IF key = NoKey THEN CellAt(d[0], 0).key ELSE key
           v == ReadAndValidateStream0AndMaybe1(d[0], knownKey, prefetch)
           size2 == IF d[1] = Missing THEN 0 ELSE Stream2Size(d[1])
           crcEnd1 == Len(v.stream1)
           born == CellAt(d[0], 0).born
           file == [i \in FileIndices |-> IF i = 1 /\ size2 = 0 THEN Missing ELSE d[i]]
           size == [v.size EXCEPT ![2] = size2]
           crcEnd == [s \in Streams |-> CASE s = 0 -> v.size[0] [] s = 1 -> crcEnd1
                                          [] s = 2 -> 0]
           crc == [s \in Streams |-> CASE s = 0 -> v.stream0 [] s = 1 -> v.stream1
                                       [] s = 2 -> <<>>]
           opened == [key |-> knownKey, born |-> born, file |-> file,
                      headerCheckNeeded |-> size2 > 0,
                      size |-> size, stream0 |-> v.stream0,
                      written |-> [s \in Streams |-> FALSE],
                      crcEnd |-> crcEnd, crc |-> crc, doomed |-> FALSE, failed |-> FALSE]
<1>1. PICK e : e = InitializeForOpen(d, key, prefetch, TRUE)
  OBVIOUS
<1>2. e = CASE key = NoKey /\ ~ CheckHeaderAndKey(d[0], NoKey) -> Closed
            [] ~ v.ok -> Closed
            [] OTHER -> opened
  BY <1>1 DEF InitializeForOpen
<1>3. /\ ~ (key = NoKey /\ ~ CheckHeaderAndKey(d[0], NoKey)) /\ v.ok /\ e = opened
  <2> DEFINE A == key = NoKey /\ ~ CheckHeaderAndKey(d[0], NoKey)
             B == ~ v.ok
  <2>1. e # Closed
    BY <1>1
  <2> HIDE DEF opened, v
  <2>2. e = CASE A -> Closed [] B -> Closed [] OTHER -> opened
    BY <1>2
  <2> HIDE DEF A, B
  <2>3. ~ A /\ ~ B /\ e = opened
    BY <2>1, <2>2
  <2> QED BY <2>3 DEF A, B
<1>4. d[0] # <<>>
  <2>1. ASSUME d[0] = <<>>
        PROVE  FALSE
    <3>1. PICK f : f = <<>>
      OBVIOUS
    <3>2. Len(f) = 0 /\ CellAt(f, 0) = Byte(0)
      BY <3>1 DEF CellAt
    <3>3. key # NoKey
      BY <1>3, <2>1, <3>1, <3>2 DEF CheckHeaderAndKey, Byte
    <3>4. ~ EofRecord(f, Len(f) - EofSize)
      BY <3>2, EntryAssumption DEF EofRecord, Readable
    <3>5. ReadAndValidateStream0AndMaybe1(f, key, prefetch) = Invalid
      BY <3>4 DEF ReadAndValidateStream0AndMaybe1
    <3> QED BY <1>3, <2>1, <3>1, <3>3, <3>5 DEF Invalid
  <2> QED BY <2>1
<1>5a. PICK k \in Keys : \E b : FilesOwned(d, k, b)
  BY <1>4 DEF OwnedDirectory
<1>5. PICK b : FilesOwned(d, k, b)
  BY <1>5a
<1>6. Full(d[0], k, b) /\ k # NoKey /\ d = [i \in FileIndices |-> d[i]]
  BY <1>5, EntryAssumption DEF FilesOwned
<1>7. CellAt(d[0], 0) = Header(k, b)
  <2>1. IsFile(d[0]) /\ Len(d[0]) \in Nat /\ Len(d[0]) > 0 /\ d[0][1] = Header(k, b)
    BY <1>6, FileFacts DEF Full, OwnCells
  <2>2. 0 \in 0 .. Len(d[0]) - 1 /\ 0 + 1 = 1
    BY <2>1
  <2> QED BY <2>1, <2>2 DEF CellAt
<1>8. knownKey # NoKey /\ born = b
  BY <1>6, <1>7, EntryAssumption DEF Header
<1>9. /\ knownKey = k /\ OwnCells(v.stream0, k)
      /\ v.size = [s \in Streams |-> v.size[s]] /\ \A s \in Streams : v.size[s] \in Nat
  <2>1. PICK l : l = knownKey
    OBVIOUS
  <2>2. PICK f : f = d[0]
    OBVIOUS
  <2>3. PICK w : w = ReadAndValidateStream0AndMaybe1(f, l, prefetch)
    OBVIOUS
  <2>4. v = w
    BY <2>1, <2>2, <2>3
  <2> HIDE DEF knownKey, v
  <2>5. w.ok /\ l # NoKey /\ Full(f, k, b) /\ k # NoKey
    BY <1>3, <1>6, <1>8, <2>1, <2>2, <2>4
  <2>6. l = k
    BY <2>3, <2>5, ValidTail
  <2>7. OwnCells(w.stream0, k)
    BY <2>3, <2>5, ValidTail
  <2>8. w.size = [s \in Streams |-> w.size[s]]
    BY <2>3, <2>5, ValidTail
  <2>9. \A s \in Streams : w.size[s] \in Nat
    BY <2>3, <2>5, ValidTail
  <2> QED BY <2>1, <2>4, <2>6, <2>7, <2>8, <2>9
<1>10. size2 \in Nat /\ (size2 > 0 => d[1] # Missing /\ d[1] # <<>>)
  <2>1. CASE d[1] = Missing
    BY <2>1
  <2>2. CASE d[1] = <<>>
    <3>1. PICK f : f = <<>>
      OBVIOUS
    <3>2. Len(f) = 0
      BY <3>1
    <3>3. Stream2Size(f) = 0
      BY <3>2, EntryAssumption DEF Stream2Size, GetDataSizeFromFileSize
    <3> QED BY <2>2, <3>1, <3>3
  <2>3. CASE d[1] \notin {Missing, <<>>}
    <3>1. IsFile(d[1]) /\ Len(d[1]) \in Nat
      BY <1>5, <2>3, FileFacts DEF FilesOwned, Full, OwnCells
    <3>2. Stream2Size(d[1]) \in Nat
      BY <3>1, EntryAssumption DEF Stream2Size, GetDataSizeFromFileSize
    <3> QED BY <2>3, <3>2
  <2> QED BY <2>1, <2>2, <2>3
<1> HIDE DEF knownKey, born, v, size2
<1>11. FilesFull(file, k, b)
  <2>1. file = [i \in FileIndices |-> file[i]]
    OBVIOUS
  <2>2. file[0] = d[0] /\ (file[1] = Missing \/ (file[1] = d[1] /\ size2 # 0))
    BY DEF FileIndices
  <2>3. size2 # 0 => Full(d[1], k, b)
    BY <1>5, <1>10 DEF FilesOwned
  <2> QED BY <1>6, <2>1, <2>2, <2>3 DEF FilesFull
<1>12. size = [s \in Streams |-> size[s]] /\ \A s \in Streams : size[s] \in Nat
  BY <1>9, <1>10 DEF Streams
<1>13. DOMAIN crcEnd = Streams /\ DOMAIN crc = Streams
  OBVIOUS
<1> HIDE DEF file, size, crcEnd, crc
<1>14. /\ DOMAIN e = Fields /\ e.key = knownKey /\ e.born = born /\ e.file = file
       /\ e.size = size /\ e.stream0 = v.stream0 /\ e.crcEnd = crcEnd /\ e.crc = crc
       /\ e.doomed = FALSE /\ e.failed = FALSE
  BY <1>3 DEF Fields
<1> HIDE DEF opened
<1>15. Shape(e)
  BY <1>12, <1>13, <1>14 DEF Shape
<1> QED BY <1>1, <1>5, <1>8, <1>9, <1>11, <1>14, <1>15

\* What is left when the second file is.
Dropped(d) == [i \in FileIndices |-> IF i = 1 THEN Missing ELSE d[i]]

\* Not to read stream 2 is to find no file of it.
LEMMA UnreadIsDropped ==
  ASSUME NEW d, NEW key, NEW prefetch
  PROVE  InitializeForOpen(d, key, prefetch, FALSE)
           = InitializeForOpen(Dropped(d), key, prefetch, TRUE)
<1>1. PICK u : u = Dropped(d)
  OBVIOUS
<1>2. u[0] = d[0] /\ u[1] = Missing
  BY <1>1 DEF Dropped, FileIndices
<1>3. [i \in FileIndices |-> IF i = 1 /\ 0 = 0 THEN Missing ELSE u[i]]
        = [i \in FileIndices |-> IF i = 1 /\ 0 = 0 THEN Missing ELSE d[i]]
  BY <1>1 DEF Dropped
<1> DEFINE Made(b, files, size2) ==
             LET knownKey == IF key = NoKey THEN CellAt(b, 0).key ELSE key
                 v == ReadAndValidateStream0AndMaybe1(b, knownKey, prefetch)
                 crcEnd1 == Len(v.stream1)
             IN CASE key = NoKey /\ ~ CheckHeaderAndKey(b, NoKey) -> Closed
                  [] ~ v.ok -> Closed
                  [] OTHER ->
                     [key |-> knownKey, born |-> CellAt(b, 0).born, file |-> files,
                      headerCheckNeeded |-> size2 > 0,
                      size |-> [v.size EXCEPT ![2] = size2], stream0 |-> v.stream0,
                      written |-> [s \in Streams |-> FALSE],
                      crcEnd |-> [s \in Streams |-> CASE s = 0 -> v.size[0] [] s = 1 -> crcEnd1
                                                      [] s = 2 -> 0],
                      crc |-> [s \in Streams |-> CASE s = 0 -> v.stream0 [] s = 1 -> v.stream1
                                                   [] s = 2 -> <<>>],
                      doomed |-> FALSE, failed |-> FALSE]
<1>4. InitializeForOpen(d, key, prefetch, FALSE)
        = Made(d[0], [i \in FileIndices |-> IF i = 1 /\ 0 = 0 THEN Missing ELSE d[i]], 0)
  BY DEF InitializeForOpen
<1>5. InitializeForOpen(u, key, prefetch, TRUE)
        = Made(u[0], [i \in FileIndices |-> IF i = 1 /\ 0 = 0 THEN Missing ELSE u[i]], 0)
  BY <1>2 DEF InitializeForOpen
<1> HIDE DEF Made
<1> QED BY <1>1, <1>2, <1>3, <1>4, <1>5

LEMMA DroppedIsOwned ==
  ASSUME Distinct, NEW d, OwnedDirectory(d), d[0] # Missing
  PROVE  OwnedDirectory(Dropped(d)) /\ Dropped(d)[0] = d[0]
<1>1. PICK u : u = Dropped(d)
  OBVIOUS
<1>2. u[0] = d[0] /\ u[1] = Missing /\ u = [i \in FileIndices |-> u[i]]
  BY <1>1 DEF Dropped, FileIndices
<1>3. ASSUME d[0] \notin {Missing, <<>>}
      PROVE  \E k \in Keys : \E b : FilesOwned(u, k, b)
  <2>1. PICK k \in Keys : \E b : FilesOwned(d, k, b)
    BY <1>3 DEF OwnedDirectory
  <2>2. PICK b : FilesOwned(d, k, b)
    BY <2>1
  <2>3. FilesOwned(u, k, b)
    BY <1>2, <2>2 DEF FilesOwned
  <2> QED BY <2>3
<1> QED BY <1>1, <1>2, <1>3 DEF OwnedDirectory

\* An entry that is open has the names of its files.
LEMMA OpenedGood ==
  ASSUME AllOrNone, Distinct, NEW d, NEW f, Shape(f), f.key \in Keys,
         FilesFull(f.file, f.key, f.born), OwnCells(f.stream0, f.key),
         f.doomed = FALSE, f.failed = FALSE, NEW r \in {"ok", "unread"}, NEW o \in Opened(d, f, r)
  PROVE  GoodOutcome(o)
<1> DEFINE linked(u) == [i \in FileIndices |-> IF Omitted(f, i) THEN u[i] ELSE Linked]
           left == IF d[1] # Missing /\ Omitted(f, 1) THEN Unlinked(d, {1}) ELSE {d}
<1>1. PICK u \in left : o = Outcome(linked(u), f, r)
  BY DEF Opened
<1>2. f.file[0] # Missing
  BY DEF FilesFull, Full, OwnCells, Distinct
<1>3. Omitted(f, 1) => u[1] = Missing
  <2>1. CASE d[1] # Missing /\ Omitted(f, 1)
    <3>1. u \in {[i \in FileIndices |-> IF i \in {1} THEN Missing ELSE d[i]]}
      BY <1>1, <2>1 DEF Unlinked, AllOrNone
    <3>2. 1 \in FileIndices
      BY DEF FileIndices
    <3> QED BY <3>1, <3>2
  <2>2. CASE ~ (d[1] # Missing /\ Omitted(f, 1))
    BY <1>1, <2>2
  <2> QED BY <2>1, <2>2
<1>4. PICK l : l = [i \in FileIndices |-> IF Omitted(f, i) THEN u[i] ELSE Linked]
  OBVIOUS
<1>5. NamesOK(f, l)
  <2>1. \A i \in FileIndices : i = 0 \/ i = 1
    BY DEF FileIndices
  <2>2. \A i \in FileIndices :
          (IF Omitted(f, i) THEN u[i] ELSE Linked)
            = IF f.file[i] = Missing THEN Missing ELSE Linked
    BY <1>2, <1>3, <2>1 DEF Omitted
  <2> QED BY <1>4, <2>2 DEF NamesOK
<1>6. OwnedEntry(f, l)
  BY <1>5 DEF OwnedEntry
<1>7. f # Closed
  BY EntryIsNotClosed
<1>8. o = Outcome(l, f, r)
  BY <1>1, <1>4
<1> HIDE DEF linked, left
<1>9. o.disk = l /\ o.entry = f /\ o.result = r
  BY <1>8 DEF Outcome
<1> QED BY <1>6, <1>7, <1>9 DEF GoodOutcome

\* The ways an open ends.
LEMMA OpenEnds ==
  ASSUME NEW d, NEW key, NEW prefetch, NEW o \in OpenEntry(d, key, prefetch)
  PROVE  \/ /\ d[0] = Missing \/ InitializeForOpen(d, key, prefetch, TRUE) = Closed
            /\ \E u \in DeleteFilesForEntryHash(d) : o = Outcome(u, Closed, "failed")
         \/ \E u \in DeleteFilesForEntryHash(d) : o = Outcome(u, Closed, "broken")
         \/ \E f, r : /\ d[0] # Missing /\ f # Closed /\ o \in Opened(d, f, r)
                      /\ \/ r = "ok" /\ f = InitializeForOpen(d, key, prefetch, TRUE)
                         \/ r = "unread" /\ f = InitializeForOpen(Dropped(d), key, prefetch, TRUE)
<1>1. PICK e, x : e = InitializeForOpen(d, key, prefetch, TRUE)
               /\ x = InitializeForOpen(Dropped(d), key, prefetch, TRUE)
  OBVIOUS
<1>2. InitializeForOpen(d, key, prefetch, FALSE) = x
  BY <1>1, UnreadIsDropped
<1>3. CASE d[0] = Missing
  BY <1>3 DEF OpenEntry
<1>4. CASE d[0] # Missing
  <2>1. \/ e = Closed /\ \E u \in DeleteFilesForEntryHash(d) : o = Outcome(u, Closed, "failed")
        \/ e # Closed /\ o \in Opened(d, e, "ok")
        \/ \E u \in DeleteFilesForEntryHash(d) : o = Outcome(u, Closed, "broken")
        \/ x # Closed /\ o \in Opened(d, x, "unread")
    BY <1>1, <1>2, <1>4 DEF OpenEntry
  <2> QED BY <1>1, <1>4, <2>1
<1> QED BY <1>3, <1>4

LEMMA OpenOutcomes ==
  ASSUME AllOrNone, Distinct, NEW d, OwnedDirectory(d), NEW key \in Keys \cup {NoKey},
         NEW prefetch, NEW o \in OpenEntry(d, key, prefetch)
  PROVE  GoodOutcome(o)
<1>1. ASSUME NEW u \in DeleteFilesForEntryHash(d), NEW r, o = Outcome(u, Closed, r)
      PROVE  GoodOutcome(o)
  BY <1>1, DeleteLeavesNothing, GoneIsOwned, ClosedOutcome
<1>2. ASSUME d[0] # Missing, NEW f, f # Closed, NEW r \in {"ok", "unread"}, o \in Opened(d, f, r),
             \/ f = InitializeForOpen(d, key, prefetch, TRUE)
             \/ f = InitializeForOpen(Dropped(d), key, prefetch, TRUE)
      PROVE  GoodOutcome(o)
  <2>1. PICK w \in {d, Dropped(d)} : f = InitializeForOpen(w, key, prefetch, TRUE)
    BY <1>2
  <2>2. OwnedDirectory(w) /\ w[0] # Missing
    BY <1>2, <2>1, DroppedIsOwned
  <2>3. InitializeForOpen(w, key, prefetch, TRUE) # Closed
    BY <1>2, <2>1
  <2>4. /\ Shape(f) /\ f.key \in Keys /\ FilesFull(f.file, f.key, f.born)
        /\ OwnCells(f.stream0, f.key) /\ f.doomed = FALSE /\ f.failed = FALSE
    BY <2>1, <2>2, <2>3, OpenedIsOwned
  <2> QED BY <1>2, <2>4, OpenedGood
<1>3. \/ \E u \in DeleteFilesForEntryHash(d) : \E r : o = Outcome(u, Closed, r)
      \/ \E f : \E r \in {"ok", "unread"} :
           /\ d[0] # Missing /\ f # Closed /\ o \in Opened(d, f, r)
           /\ \/ f = InitializeForOpen(d, key, prefetch, TRUE)
              \/ f = InitializeForOpen(Dropped(d), key, prefetch, TRUE)
  BY OpenEnds
<1> QED BY <1>1, <1>2, <1>3

LEMMA OpenOrCreateOutcomes ==
  ASSUME AllOrNone, Distinct, NEW d, OwnedDirectory(d), NEW key \in Keys,
         NEW indexMiss, NEW optimisticCreate, NEW prefetch, NEW born,
         NEW o \in OpenOrCreateEntry(d, key, indexMiss, optimisticCreate, prefetch, born)
  PROVE  GoodOutcome(o)
<1> DEFINE thenCreate(os) == UNION {IF q.result \in {"failed", "broken"}
                                    THEN CreateEntry(q.disk, key, born) ELSE {q} : q \in os}
           openFirst(u) == thenCreate(OpenEntry(u, key, prefetch))
           afterCreate(q) ==
             CASE q.result # "exists" -> {q}
               [] q.result = "exists" /\ optimisticCreate ->
                    UNION {CreateEntry(u, key, born) : u \in DeleteFilesForEntryHash(q.disk)}
               [] OTHER -> openFirst(q.disk)
<1>1. o \in IF indexMiss THEN UNION {afterCreate(q) : q \in CreateEntry(d, key, born)}
            ELSE openFirst(d)
  BY DEF OpenOrCreateEntry
<1>2. ASSUME NEW u, OwnedDirectory(u), NEW p \in openFirst(u)
      PROVE  GoodOutcome(p)
  <2>1. PICK q \in OpenEntry(u, key, prefetch) :
          p \in IF q.result \in {"failed", "broken"} THEN CreateEntry(q.disk, key, born) ELSE {q}
    BY <1>2
  <2>2. GoodOutcome(q)
    BY <1>2, <2>1, OpenOutcomes
  <2>3. CASE q.result \in {"failed", "broken"}
    <3>1. OwnedDirectory(q.disk)
      BY <2>2, <2>3 DEF GoodOutcome
    <3>2. p \in CreateEntry(q.disk, key, born)
      BY <2>1, <2>3
    <3> QED BY <3>1, <3>2, CreateOutcomes
  <2>4. CASE q.result \notin {"failed", "broken"}
    BY <2>1, <2>2, <2>4
  <2> QED BY <2>3, <2>4
<1>3. CASE ~ indexMiss
  <2>1. o \in openFirst(d)
    BY <1>1, <1>3
  <2> HIDE DEF openFirst
  <2> QED BY <1>2, <2>1
<1>4. CASE indexMiss
  <2> HIDE DEF openFirst
  <2>1. PICK q \in CreateEntry(d, key, born) : o \in afterCreate(q)
    BY <1>1, <1>4
  <2>2. GoodOutcome(q)
    BY CreateOutcomes
  <2>3. CASE q.result # "exists"
    BY <2>1, <2>2, <2>3
  <2>4. CASE q.result = "exists" /\ optimisticCreate
    <3>1. PICK u \in DeleteFilesForEntryHash(q.disk) : o \in CreateEntry(u, key, born)
      BY <2>1, <2>4
    <3>2. OwnedDirectory(u)
      BY <3>1, DeleteLeavesNothing, GoneIsOwned
    <3> QED BY <3>1, <3>2, CreateOutcomes
  <2>5. CASE q.result = "exists" /\ ~ optimisticCreate
    <3>1. OwnedDirectory(q.disk)
      BY <2>2, <2>5 DEF GoodOutcome
    <3>2. o \in openFirst(q.disk)
      BY <2>1, <2>5
    <3> QED BY <1>2, <3>1, <3>2
  <2> QED BY <2>3, <2>4, <2>5
<1> QED BY <1>3, <1>4

LEMMA StartedOwned ==
  ASSUME NEW o, GoodOutcome(o), NEW key, Started(o, key)
  PROVE  OwnerInv'
<1>1. disk' = o.disk /\ entry' = o.entry
  BY DEF Started
<1> QED BY <1>1 DEF OwnerInv, GoodOutcome

-------------------------------------------------------------------------------
(* The invariant *)

LEMMA OwnerStep ==
  ASSUME AllOrNone, Distinct, OwnerInv, [Next]_vars
  PROVE  OwnerInv'
<1>1. CASE Open
  <2>1. PICK key \in Keys \cup {NoKey}, prefetch \in PrefetchSizes :
          \E o \in OpenEntry(disk, key, prefetch) : Started(o, key)
    BY <1>1 DEF Open
  <2>2. PICK o \in OpenEntry(disk, key, prefetch) : Started(o, key)
    BY <2>1
  <2>3. OwnedDirectory(disk)
    BY <1>1 DEF Open, OwnerInv
  <2> QED BY <2>2, <2>3, OpenOutcomes, StartedOwned
<1>2. CASE Create
  <2>1. PICK key \in Keys : \E o \in CreateEntry(disk, key, opens + 1) : Started(o, key)
    BY <1>2 DEF Create
  <2>2. PICK o \in CreateEntry(disk, key, opens + 1) : Started(o, key)
    BY <2>1
  <2>3. OwnedDirectory(disk)
    BY <1>2 DEF Create, OwnerInv
  <2> QED BY <2>2, <2>3, CreateOutcomes, StartedOwned
<1>3. CASE OpenOrCreate
  <2>1. PICK key \in Keys, indexMiss \in BOOLEAN, optimisticCreate \in BOOLEAN,
             prefetch \in PrefetchSizes :
          \E o \in OpenOrCreateEntry(disk, key, indexMiss, optimisticCreate, prefetch, opens + 1) :
            Started(o, key)
    BY <1>3 DEF OpenOrCreate
  <2>2. PICK o \in OpenOrCreateEntry(disk, key, indexMiss, optimisticCreate, prefetch, opens + 1) :
          Started(o, key)
    BY <2>1
  <2>3. OwnedDirectory(disk)
    BY <1>3 DEF OpenOrCreate, OwnerInv
  <2> QED BY <2>2, <2>3, OpenOrCreateOutcomes, StartedOwned
<1>4. CASE Read
  BY <1>4, ReadOwned
<1>5. CASE Write
  BY <1>5, WriteOwned
<1>6. CASE WriteStream0
  BY <1>6, WriteStream0Owned
<1>7. CASE Close
  BY <1>7, CloseOwned
<1>8. CASE Doom
  BY <1>8, DoomOwned
<1>9. CASE DeleteEntryFiles
  BY <1>9, DeleteOwned
<1>10. CASE Crash
  BY <1>10, CrashOwned
<1>11. CASE UNCHANGED vars
  BY <1>11 DEF vars, OwnerInv
<1> QED BY <1>1, <1>2, <1>3, <1>4, <1>5, <1>6, <1>7, <1>8, <1>9, <1>10, <1>11 DEF Next

\* An open entry has its own header at the front of both files, and under its
\* names nothing else (CreateEntryFiles, InitializeForOpen, WriteData, Close):
\* a failure, a crash or a doom leaves no file of another entry behind.
THEOREM FilesAreOwned ==
  ASSUME AllOrNone, Distinct
  PROVE  Spec => []OwnerInv
<1>1. Init => OwnerInv
  BY GoneIsOwned DEF Init, OwnerInv, Gone
<1>2. OwnerInv /\ [Next]_vars => OwnerInv'
  BY OwnerStep
<1> QED BY <1>1, <1>2, PTL DEF Spec

\* StreamsOfOneEntry, for any keys, sizes, writes and opens (CheckHeaderAndKey,
\* ReadAndValidateStream0AndMaybe1): every file of an open entry has its header.
THEOREM EntryHasItsOwnFiles ==
  ASSUME AllOrNone, Distinct
  PROVE  Spec => []StreamsOfOneEntry
<1>1. OwnerInv => StreamsOfOneEntry
  <2> SUFFICES ASSUME OwnerInv, Ready, NEW i \in FileIndices, ~ Omitted(entry, i)
               PROVE  CellAt(entry.file[i], 0) = Header(entry.key, entry.born)
    BY DEF StreamsOfOneEntry
  <2>1. FilesFull(entry.file, entry.key, entry.born)
    BY DEF OwnerInv, OwnedEntry, Ready
  <2>2. PICK f, h : f = entry.file[i] /\ h = Header(entry.key, entry.born)
    OBVIOUS
  <2>3. IsFile(f) /\ Len(f) > 0 /\ f[1] = h
    BY <2>1, <2>2 DEF FilesFull, Full, OwnCells, FileIndices, Omitted
  <2>4. Len(f) \in Nat
    BY <2>3, FileFacts
  <2>5. CellAt(f, 0) = h
    BY <2>3, <2>4 DEF CellAt
  <2> QED BY <2>2, <2>5
<1>2. Spec => []OwnerInv
  BY FilesAreOwned
<1> QED BY <1>1, <1>2, PTL

-------------------------------------------------------------------------------
(* What the files hold *)

IsEof(c) == c.kind = "eof"

\* The record of stream 0, behind the SHA-256, and the other records.
TailEof(c) == IsEof(c) /\ c.hasSha
InnerEof(c) == IsEof(c) /\ ~ c.hasSha

\* Records of stream 0 are of a stream 0 that the user had written; other records in
\* <hash>_0 are of stream 1, those in <hash>_1 of stream 2.
SoundEof(c, i, law) ==
  IF i = 0 /\ c.hasSha
  THEN c.hasCrc /\ c.crc \in law[0] /\ c.size = Len(c.crc)
  ELSE ~ c.hasSha /\ c.size = 0 /\ (c.hasCrc => c.crc \in law[i + 1])

Sound(f, i, law) == \A n \in 1 .. Len(f) : IsEof(f[n]) => SoundEof(f[n], i, law)

SoundFiles(files, law) ==
  /\ Sound(files[0], 0, law)
  /\ files[1] # Missing => Sound(files[1], 1, law)

\* There is one record of stream 0 at most, and it is behind all others.
TailUnique(f) ==
  /\ \A i, j \in 1 .. Len(f) : TailEof(f[i]) /\ TailEof(f[j]) => i = j
  /\ \A i, j \in 1 .. Len(f) : InnerEof(f[i]) /\ TailEof(f[j]) => i < j

\* It is behind the record of stream 1, if stream 1 has n bytes.
TailBehind(f, n) == \A j \in 1 .. Len(f) : TailEof(f[j]) => j >= n + 3

\* The stream is behind the first `start' cells of the file.
Holds(f, start, stream) ==
  /\ Len(f) >= start + Len(stream)
  /\ \A i \in 1 .. Len(stream) : f[start + i] = stream[i]

\* The record of a stream, as far as it says.
RecordOf(c, stream) == InnerEof(c) /\ (c.hasCrc => c.crc = stream)

\* From stream 0 to the end of <hash>_0.
TailExact(f, k, n, stream) ==
  /\ Len(f) = n + Len(stream) + 4
  /\ Holds(f, n + 2, stream)
  /\ f[n + Len(stream) + 3] = Sha256(k)
  /\ f[Len(f)] = Eof(TRUE, stream, Len(stream), TRUE)

\* The files of an entry that was closed in order.
Exact(files, k, c) ==
  /\ Holds(files[0], 1, c[1])
  /\ RecordOf(files[0][Len(c[1]) + 2], c[1])
  /\ TailExact(files[0], k, Len(c[1]), c[0])
  /\ IF files[1] = Missing THEN c[2] = <<>>
     ELSE /\ Len(files[1]) = Len(c[2]) + 2
          /\ Holds(files[1], 1, c[2])
          /\ RecordOf(files[1][Len(files[1])], c[2])

-------------------------------------------------------------------------------
(* The invariant *)

StreamsHeld(e, c) ==
  /\ Holds(e.file[0], 1, c[1])
  /\ e.file[1] = Missing => c[2] = <<>>
  /\ e.file[1] # Missing => Holds(e.file[1], 1, c[2])

\* A checksum is of the part of the stream it covers.
CrcOf(crc, end, bytes) ==
  end \in 0 .. Len(bytes) /\ (end > 0 => crc = SubSeq(bytes, 1, end))

CrcsOK(e, c) == \A s \in {1, 2} : CrcOf(e.crc[s], e.crcEnd[s], c[s])

\* What was not written is as the last Close left it.
UnwrittenExact(e, c) ==
  /\ ~ e.written[1] => /\ Len(e.file[0]) >= Len(c[1]) + 2
                       /\ RecordOf(e.file[0][Len(c[1]) + 2], c[1])
  /\ ~ e.written[0] => TailExact(e.file[0], e.key, Len(c[1]), c[0])
  /\ e.file[1] # Missing =>
       /\ Len(e.file[1]) <= Len(c[2]) + 2
       /\ ~ e.written[2] => /\ Len(e.file[1]) = Len(c[2]) + 2
                            /\ RecordOf(e.file[1][Len(c[2]) + 2], c[2])

ReadyOK(e, c, law, dmg) ==
  /\ SoundFiles(e.file, law)
  /\ TailUnique(e.file[0]) /\ TailBehind(e.file[0], e.size[1])
  /\ StreamsHeld(e, c)
  /\ CrcsOK(e, c)
  /\ DOMAIN e.written = Streams /\ \A s \in Streams : e.written[s] \in BOOLEAN
  /\ e.headerCheckNeeded \in BOOLEAN /\ (e.headerCheckNeeded => e.file[1] # Missing)
  /\ e.written[1] => e.written[0]
  /\ \A s \in {1, 2} : e.written[s] => c[s] \in law[s]
  /\ ~ dmg => UnwrittenExact(e, c)

OpenOK(e, c, law, dmg, n) ==
  /\ e.born \in 1 .. n
  /\ e.stream0 = c[0] /\ c[0] \in law[0]
  /\ \A s \in Streams : e.size[s] = Len(c[s])
  /\ ~ e.failed => ReadyOK(e, c, law, dmg)

ClosedOK(d, c, law, dmg, n) ==
  /\ d[0] = Missing => c = NoContent /\ law = NoHistory /\ dmg = FALSE
  /\ d[0] = <<>> => dmg = TRUE
  /\ d[0] \notin {Missing, <<>>} =>
       /\ SoundFiles(d, law) /\ TailUnique(d[0])
       /\ d[0][1].born \in 1 .. n
       /\ ~ dmg => Exact(d, d[0][1].key, c)

AllBytes(f) == IsFile(f) /\ \A i \in 1 .. Len(f) : f[i].kind = "byte"

HistoryOK(c, law) ==
  /\ c = [s \in Streams |-> c[s]] /\ law = [s \in Streams |-> law[s]]
  /\ \A s \in Streams : IsFile(c[s])
  /\ \A x \in law[0] : AllBytes(x)
  /\ <<>> \in law[0]

Holding(e, d, c, law, dmg, n) ==
  /\ HistoryOK(c, law) /\ dmg \in BOOLEAN /\ n \in Nat
  /\ IF e = Closed THEN ClosedOK(d, c, law, dmg, n) ELSE OpenOK(e, c, law, dmg, n)

\* What the last operation answered is as it should be.
AnswerOK(a, c, law) ==
  /\ a.kind \in {"open", "read", "write"} /\ ~ a.excused => a.ok
  /\ a.kind = "read" /\ a.ok => a.cells = Cells(c[a.stream], a.offset, a.length)
  /\ a.kind = "read" => a.verified \subseteq law[a.stream]

StreamsInv ==
  /\ Holding(entry, disk, content, lawful, damaged, opens)
  /\ AnswerOK(answer, content, lawful)

-------------------------------------------------------------------------------
(* Lists of calls in parts *)

LEMMA SameFile ==
  ASSUME NEW f, IsFile(f), NEW g, IsFile(g), Len(f) = Len(g), \A i \in 1 .. Len(f) : f[i] = g[i]
  PROVE  f = g
<1>1. f = [i \in 1 .. Len(f) |-> f[i]] /\ g = [i \in 1 .. Len(g) |-> g[i]]
  BY FileFacts
<1> QED BY <1>1

LEMMA FirstPart ==
  ASSUME NEW f, IsFile(f), NEW n \in 0 .. Len(f)
  PROVE  /\ IsFile(SubSeq(f, 1, n)) /\ Len(SubSeq(f, 1, n)) = n
         /\ \A i \in 1 .. n : SubSeq(f, 1, n)[i] = f[i]
<1>0. Len(f) \in Nat
  BY FileFacts
<1>1. PICK a, b : a = 0 /\ b = n
  OBVIOUS
<1>2. a \in Nat /\ b \in Nat /\ a + b <= Len(f)
  BY <1>0, <1>1
<1>3. PICK g : g = SubSeq(f, a + 1, a + b)
  OBVIOUS
<1>4. IsFile(g) /\ Len(g) = b /\ \A i \in 1 .. b : g[i] = f[a + i]
  BY <1>2, <1>3, SubSeqFacts
<1>5. a + 1 = 1 /\ a + b = n /\ \A i \in 1 .. n : a + i = i
  BY <1>0, <1>1
<1>6. g = SubSeq(f, 1, n) /\ \A i \in 1 .. n : g[i] = f[i]
  BY <1>1, <1>3, <1>4, <1>5
<1> QED BY <1>1, <1>4, <1>6

LEMMA PrefixOfConcat ==
  ASSUME NEW s, IsFile(s), NEW t, IsFile(t)
  PROVE  /\ \A n \in 0 .. Len(s) : SubSeq(s \o t, 1, n) = SubSeq(s, 1, n)
         /\ \A n \in 0 .. Len(t) : SubSeq(s \o t, 1, Len(s) + n) = s \o SubSeq(t, 1, n)
<1>1. PICK u : u = s \o t
  OBVIOUS
<1>2. /\ IsFile(u) /\ Len(u) = Len(s) + Len(t) /\ Len(s) \in Nat /\ Len(t) \in Nat
      /\ \A n \in 1 .. Len(s) + Len(t) : u[n] = IF n <= Len(s) THEN s[n] ELSE t[n - Len(s)]
  BY <1>1, ConcatFacts, FileFacts
<1>3. ASSUME NEW n \in 0 .. Len(s)
      PROVE  SubSeq(u, 1, n) = SubSeq(s, 1, n)
  <2>1. PICK p, q : p = SubSeq(u, 1, n) /\ q = SubSeq(s, 1, n)
    OBVIOUS
  <2>2. n \in 0 .. Len(u)
    BY <1>2
  <2>3. IsFile(p) /\ Len(p) = n /\ \A i \in 1 .. n : p[i] = u[i]
    BY <1>2, <2>1, <2>2, FirstPart
  <2>4. IsFile(q) /\ Len(q) = n /\ \A i \in 1 .. n : q[i] = s[i]
    BY <2>1, FirstPart
  <2>5. \A i \in 1 .. n : u[i] = s[i]
    BY <1>2
  <2>6. p = q
    BY <2>3, <2>4, <2>5, SameFile
  <2> QED BY <2>1, <2>6
<1>4. ASSUME NEW n \in 0 .. Len(t)
      PROVE  SubSeq(u, 1, Len(s) + n) = s \o SubSeq(t, 1, n)
  <2>1. PICK m : m = Len(s) + n
    OBVIOUS
  <2>2. PICK p, q, r : p = SubSeq(u, 1, m) /\ q = SubSeq(t, 1, n) /\ r = s \o q
    OBVIOUS
  <2>3. m \in 0 .. Len(u) /\ n \in Nat
    BY <1>2, <2>1
  <2>4. IsFile(p) /\ Len(p) = m /\ \A i \in 1 .. m : p[i] = u[i]
    BY <1>2, <2>2, <2>3, FirstPart
  <2>5. IsFile(q) /\ Len(q) = n /\ \A i \in 1 .. n : q[i] = t[i]
    BY <2>2, FirstPart
  <2>6. /\ IsFile(r) /\ Len(r) = m
        /\ \A i \in 1 .. m : r[i] = IF i <= Len(s) THEN s[i] ELSE q[i - Len(s)]
    BY <2>1, <2>2, <2>5, ConcatFacts
  <2>7. ASSUME NEW i \in 1 .. m
        PROVE  p[i] = r[i]
    <3>1. i \in 1 .. Len(s) + Len(t) /\ p[i] = u[i]
      BY <1>2, <2>1, <2>3, <2>4
    <3>2. i > Len(s) => q[i - Len(s)] = t[i - Len(s)]
      BY <1>2, <2>1, <2>3, <2>5
    <3> QED BY <1>2, <2>6, <3>1, <3>2
  <2>8. p = r
    BY <2>4, <2>6, <2>7, SameFile
  <2> QED BY <2>1, <2>2, <2>8
<1> QED BY <1>1, <1>3, <1>4

\* The calls of a list and then those of another.
LEMMA AfterConcat ==
  ASSUME NEW files, NEW s, IsFile(s), NEW t, IsFile(t)
  PROVE  After(files, s \o t) = After(After(files, s), t)
<1>1. PICK u, g : u = s \o t /\ g = After(files, s)
  OBVIOUS
<1>2. /\ IsFile(u) /\ Len(u) = Len(s) + Len(t) /\ Len(s) \in Nat /\ Len(t) \in Nat
      /\ \A n \in 1 .. Len(s) + Len(t) : u[n] = IF n <= Len(s) THEN s[n] ELSE t[n - Len(s)]
  BY <1>1, ConcatFacts, FileFacts
<1> DEFINE a(n) == AfterFirst(files, u, n)
           b(n) == AfterFirst(g, t, n)
           T == { n \in 0 .. Len(t) : a(Len(s) + n) = b(n) }
<1>3. /\ \A n \in 0 .. Len(u) - 1 : a(n + 1) = Call(a(n), u[n + 1])
      /\ a(Len(u)) = After(files, u)
  <2>1. IsFile(u)
    BY <1>2
  <2>2. /\ Len(u) \in Nat
        /\ AfterFirst(files, u, 0) = files
        /\ \A n \in 0 .. Len(u) - 1 :
              AfterFirst(files, u, n + 1) = Call(AfterFirst(files, u, n), u[n + 1])
        /\ AfterFirst(files, u, Len(u)) = After(files, u)
    BY <2>1, AfterFirstUnfolds
  <2> QED BY <2>2
<1>4. /\ b(0) = g /\ b(Len(t)) = After(g, t)
      /\ \A n \in 0 .. Len(t) - 1 : b(n + 1) = Call(b(n), t[n + 1])
  BY <1>2, AfterFirstUnfolds
<1>5. 0 \in T
  <2>1. SubSeq(u, 1, Len(s)) = SubSeq(s, 1, Len(s)) /\ SubSeq(s, 1, Len(s)) = s
    <3>1. PICK S : s \in Seq(S)
      BY DEF IsFile
    <3>2. SubSeq(s, 1, Len(s)) = s
      BY <3>1
    <3>3. Len(s) \in 0 .. Len(s)
      BY <1>2
    <3> QED BY <1>1, <3>2, <3>3, PrefixOfConcat
  <2>2. a(Len(s)) = g
    BY <1>1, <2>1 DEF AfterFirst
  <2>3. Len(s) + 0 = Len(s) /\ 0 \in 0 .. Len(t)
    BY <1>2
  <2>4. a(Len(s) + 0) = b(0)
    <3> HIDE DEF a, b, T
    <3> QED BY <1>4, <2>2, <2>3
  <2> QED BY <2>3, <2>4
<1>6. ASSUME NEW n \in 0 .. Len(t) - 1, n \in T
      PROVE  n + 1 \in T
  <2>1. PICK m : m = Len(s) + n
    OBVIOUS
  <2>2. m \in 0 .. Len(u) - 1 /\ Len(s) + (n + 1) = m + 1 /\ n + 1 \in 0 .. Len(t)
    BY <1>2, <2>1
  <2>3. u[m + 1] = t[n + 1]
    <3>1. m + 1 \in 1 .. Len(s) + Len(t) /\ ~ (m + 1 <= Len(s)) /\ (m + 1) - Len(s) = n + 1
      BY <1>2, <2>1
    <3> QED BY <1>2, <3>1
  <2>4. a(m) = b(n)
    BY <1>6, <2>1
  <2>5. a(m + 1) = Call(a(m), u[m + 1]) /\ b(n + 1) = Call(b(n), t[n + 1])
    BY <1>3, <1>4, <2>2
  <2> HIDE DEF a, b
  <2>6. a(Len(s) + (n + 1)) = b(n + 1)
    BY <2>2, <2>3, <2>4, <2>5
  <2> QED BY <2>2, <2>6
<1>7. \A n \in 0 .. Len(t) : n \in T
  <2> HIDE DEF T
  <2> QED BY <1>2, <1>5, <1>6, CountUp
<1>8. a(Len(s) + Len(t)) = b(Len(t))
  BY <1>2, <1>7
<1> QED BY <1>1, <1>2, <1>3, <1>4, <1>8

LEMMA AfterOne ==
  ASSUME NEW files, NEW c
  PROVE  After(files, <<c>>) = Call(files, c)
<1>1. PICK e : e = <<>>
  OBVIOUS
<1>2. e \in Seq({c}) /\ <<c>> = Append(e, c)
  BY <1>1
<1>3. After(files, Append(e, c)) = Call(After(files, e), c)
  BY <1>2, AfterAppend
<1> QED BY <1>1, <1>2, <1>3, AfterNone

\* What may be left of the files in the middle of a list.
TornIn(files, calls) == UNION { TornAt(files, calls, n) : n \in DOMAIN calls }

LEMMA TornConcat ==
  ASSUME NEW files, NEW s, IsFile(s), NEW t, IsFile(t), NEW x \in TornIn(files, s \o t)
  PROVE  x \in TornIn(files, s) \/ x \in TornIn(After(files, s), t)
<1>1. PICK u, g : u = s \o t /\ g = After(files, s)
  OBVIOUS
<1>2. /\ IsFile(u) /\ Len(u) = Len(s) + Len(t) /\ Len(s) \in Nat /\ Len(t) \in Nat
      /\ \A n \in 1 .. Len(s) + Len(t) : u[n] = IF n <= Len(s) THEN s[n] ELSE t[n - Len(s)]
  BY <1>1, ConcatFacts, FileFacts
<1>3. DOMAIN u = 1 .. Len(u) /\ DOMAIN s = 1 .. Len(s) /\ DOMAIN t = 1 .. Len(t)
  BY <1>2, FileFacts
<1>4. PICK n \in DOMAIN u : x \in TornAt(files, u, n)
  BY <1>1 DEF TornIn
<1>5. CASE n <= Len(s)
  <2>1. n - 1 \in 0 .. Len(s) /\ n \in DOMAIN s /\ u[n] = s[n]
    BY <1>2, <1>3, <1>5
  <2>2. SubSeq(u, 1, n - 1) = SubSeq(s, 1, n - 1)
    BY <1>1, <2>1, PrefixOfConcat
  <2>3. x \in TornAt(files, s, n)
    BY <1>4, <2>1, <2>2 DEF TornAt
  <2> QED BY <2>1, <2>3 DEF TornIn
<1>6. CASE n > Len(s)
  <2>1. PICK m : m = n - Len(s)
    OBVIOUS
  <2>2. /\ m \in DOMAIN t /\ m - 1 \in 0 .. Len(t) /\ n - 1 = Len(s) + (m - 1) /\ u[n] = t[m]
    <3>1. n \in 1 .. Len(s) + Len(t)
      BY <1>2, <1>3, <1>4
    <3>2. m \in 1 .. Len(t) /\ n - 1 = Len(s) + (m - 1)
      BY <1>2, <1>6, <2>1, <3>1
    <3>3. u[n] = t[m]
      BY <1>2, <1>6, <2>1, <3>1
    <3> QED BY <1>2, <1>3, <3>2, <3>3
  <2>3. PICK p : p = SubSeq(t, 1, m - 1)
    OBVIOUS
  <2>4. SubSeq(u, 1, n - 1) = s \o p
    <3>1. PICK k : k = m - 1
      OBVIOUS
    <3>2. k \in 0 .. Len(t) /\ n - 1 = Len(s) + k /\ p = SubSeq(t, 1, k)
      BY <2>2, <2>3, <3>1
    <3>3. \A j \in 0 .. Len(t) : SubSeq(s \o t, 1, Len(s) + j) = s \o SubSeq(t, 1, j)
      BY PrefixOfConcat
    <3>4. SubSeq(s \o t, 1, Len(s) + k) = s \o SubSeq(t, 1, k)
      BY <3>2, <3>3
    <3> QED BY <1>1, <3>2, <3>4
  <2>5. IsFile(p)
    BY <2>2, <2>3, FirstPart
  <2>6. After(files, s \o p) = After(g, p)
    BY <1>1, <2>5, AfterConcat
  <2>7. x \in TornAt(g, t, m)
    BY <1>4, <2>2, <2>3, <2>4, <2>6 DEF TornAt
  <2> QED BY <1>1, <2>2, <2>7 DEF TornIn
<1> QED BY <1>2, <1>3, <1>5, <1>6

LEMMA TornNone ==
  ASSUME NEW files
  PROVE  TornIn(files, <<>>) = {}
BY DEF TornIn

LEMMA TornOne ==
  ASSUME NEW files, NEW c
  PROVE  TornIn(files, <<c>>) = Torn(files, c)
<1>1. PICK s : s = <<c>>
  OBVIOUS
<1>2. DOMAIN s = {1} /\ s[1] = c /\ SubSeq(s, 1, 1 - 1) = <<>>
  BY <1>1
<1>3. TornAt(files, s, 1) = Torn(files, c)
  BY <1>2, AfterNone DEF TornAt
<1> QED BY <1>1, <1>2, <1>3 DEF TornIn

-------------------------------------------------------------------------------
(* Calls that write no record *)

\* Every record of g is one of f, and where it was.
FewerEofs(g, f) ==
  \A n \in 1 .. Len(g) : IsEof(g[n]) => n \in 1 .. Len(f) /\ g[n] = f[n]

NoEofs(f) == \A n \in 1 .. Len(f) : ~ IsEof(f[n])

LEMMA FewerIsSound ==
  ASSUME NEW g, NEW f, FewerEofs(g, f)
  PROVE  /\ \A i, law : Sound(f, i, law) => Sound(g, i, law)
         /\ TailUnique(f) => TailUnique(g)
         /\ \A n : TailBehind(f, n) => TailBehind(g, n)
<1>1. ASSUME NEW i, NEW law, Sound(f, i, law)
      PROVE  Sound(g, i, law)
  BY <1>1 DEF Sound, FewerEofs
<1>2. ASSUME TailUnique(f)
      PROVE  TailUnique(g)
  BY <1>2 DEF TailUnique, FewerEofs, TailEof, InnerEof
<1>3. ASSUME NEW n, TailBehind(f, n)
      PROVE  TailBehind(g, n)
  BY <1>3 DEF TailBehind, FewerEofs, TailEof
<1> QED BY <1>1, <1>2, <1>3

LEMMA FewerTrans ==
  ASSUME NEW h, NEW g, NEW f, FewerEofs(h, g), FewerEofs(g, f)
  PROVE  FewerEofs(h, f)
  BY DEF FewerEofs

LEMMA FewerSame ==
  ASSUME NEW f
  PROVE  FewerEofs(f, f)
  BY DEF FewerEofs

LEMMA BytesAreNoEofs ==
  ASSUME NEW f, AllBytes(f)
  PROVE  NoEofs(f)
  BY DEF AllBytes, NoEofs, IsEof

LEMMA FewerSetLength ==
  ASSUME NEW f, IsFile(f), NEW n \in Nat
  PROVE  FewerEofs(SetLength(f, n), f)
<1>1. PICK g : g = SetLength(f, n)
  OBVIOUS
<1>2. Len(g) = n /\ \A i \in 1 .. n : g[i] = IF i <= Len(f) THEN f[i] ELSE Byte(0)
  BY <1>1, SetLengthFacts
<1>3. Len(f) \in Nat /\ ~ IsEof(Byte(0))
  BY FileFacts DEF IsEof, Byte
<1>4. FewerEofs(g, f)
  BY <1>2, <1>3 DEF FewerEofs
<1> QED BY <1>1, <1>4

LEMMA FewerWriteAt ==
  ASSUME NEW f, IsFile(f), NEW cells, IsFile(cells), NoEofs(cells), NEW offset \in Nat
  PROVE  FewerEofs(WriteAt(f, offset, cells), f)
<1>1. PICK g, end : g = WriteAt(f, offset, cells) /\ end = offset + Len(cells)
  OBVIOUS
<1>2. /\ Len(g) = IF cells = <<>> \/ Len(f) > end THEN Len(f) ELSE end
      /\ \A i \in 1 .. Len(g) :
           g[i] = IF i > offset /\ i <= end THEN cells[i - offset]
                  ELSE IF i <= Len(f) THEN f[i] ELSE Byte(0)
  BY <1>1, WriteAtFacts
<1>3. Len(f) \in Nat /\ Len(cells) \in Nat /\ end \in Nat /\ ~ IsEof(Byte(0))
  BY <1>1, FileFacts DEF IsEof, Byte
<1>4. ASSUME NEW i \in 1 .. Len(g), IsEof(g[i])
      PROVE  i \in 1 .. Len(f) /\ g[i] = f[i]
  <2>0. Len(g) \in Nat
    BY <1>2, <1>3
  <2>1. CASE i > offset /\ i <= end
    <3>1. i - offset \in 1 .. Len(cells)
      BY <1>1, <1>3, <2>0, <2>1
    <3>2. g[i] = cells[i - offset]
      BY <1>2, <2>1
    <3> QED BY <1>4, <3>1, <3>2 DEF NoEofs
  <2>2. CASE ~ (i > offset /\ i <= end)
    BY <1>2, <1>3, <1>4, <2>0, <2>2
  <2> QED BY <2>1, <2>2
<1>5. FewerEofs(g, f)
  BY <1>4 DEF FewerEofs
<1> QED BY <1>1, <1>5

\* A record written at a place.
LEMMA OneWritten ==
  ASSUME NEW f, IsFile(f), NEW c, NEW n \in Nat, n <= Len(f)
  PROVE  LET g == WriteAt(f, n, <<c>>)
         IN /\ IsFile(g) /\ Len(g) = IF Len(f) > n THEN Len(f) ELSE n + 1
            /\ g[n + 1] = c
            /\ \A i \in 1 .. Len(g) : i # n + 1 => i \in 1 .. Len(f) /\ g[i] = f[i]
            /\ \A i \in 1 .. Len(f) : i # n + 1 => i \in 1 .. Len(g)
<1>1. PICK cells, g, end : cells = <<c>> /\ g = WriteAt(f, n, cells) /\ end = n + Len(cells)
  OBVIOUS
<1>2. IsFile(cells) /\ Len(cells) = 1 /\ cells[1] = c /\ cells # <<>> /\ Len(f) \in Nat
  BY <1>1, SingleIsFile, FileFacts
<1>3. /\ IsFile(g)
      /\ Len(g) = IF cells = <<>> \/ Len(f) > end THEN Len(f) ELSE end
      /\ \A i \in 1 .. Len(g) :
           g[i] = IF i > n /\ i <= end THEN cells[i - n]
                  ELSE IF i <= Len(f) THEN f[i] ELSE Byte(0)
  BY <1>1, <1>2, WriteAtFacts
<1>4. end = n + 1 /\ Len(g) = IF Len(f) > n THEN Len(f) ELSE n + 1
  BY <1>1, <1>2, <1>3
<1>5. g[n + 1] = c
  <2>1. n + 1 \in 1 .. Len(g) /\ (n + 1) - n = 1
    BY <1>2, <1>4
  <2> QED BY <1>2, <1>3, <1>4, <2>1
<1>6. \A i \in 1 .. Len(g) : i # n + 1 => i \in 1 .. Len(f) /\ g[i] = f[i]
  BY <1>2, <1>3, <1>4
<1>7. \A i \in 1 .. Len(f) : i # n + 1 => i \in 1 .. Len(g)
  BY <1>2, <1>4
<1> QED BY <1>1, <1>3, <1>4, <1>5, <1>6, <1>7

\* What g is when it is f cut or extended to n cells, ...
IsCut(g, f, n) ==
  /\ IsFile(g) /\ Len(g) = n /\ FewerEofs(g, f)
  /\ \A i \in 1 .. n : g[i] = IF i <= Len(f) THEN f[i] ELSE Byte(0)

LEMMA CutIs ==
  ASSUME NEW f, IsFile(f), NEW n \in Nat, NEW g, g = SetLength(f, n)
  PROVE  IsCut(g, f, n)
BY SetLengthFacts, FewerSetLength DEF IsCut

\* ... or f with cells written at an offset.
IsPut(g, f, offset, cells) ==
  LET end == offset + Len(cells)
  IN /\ IsFile(g)
     /\ Len(g) = IF cells = <<>> \/ Len(f) > end THEN Len(f) ELSE end
     /\ \A i \in 1 .. Len(g) :
          g[i] = IF i > offset /\ i <= end THEN cells[i - offset]
                 ELSE IF i <= Len(f) THEN f[i] ELSE Byte(0)

LEMMA PutIs ==
  ASSUME NEW f, IsFile(f), NEW cells, IsFile(cells), NEW offset \in Nat,
         NEW g, g = WriteAt(f, offset, cells)
  PROVE  IsPut(g, f, offset, cells)
<1>1. PICK end : end = offset + Len(cells)
  OBVIOUS
<1>2. /\ IsFile(g)
      /\ Len(g) = IF cells = <<>> \/ Len(f) > end THEN Len(f) ELSE end
      /\ \A i \in 1 .. Len(g) :
          g[i] = IF i > offset /\ i <= end THEN cells[i - offset]
                 ELSE IF i <= Len(f) THEN f[i] ELSE Byte(0)
  BY <1>1, WriteAtFacts
<1> QED BY <1>1, <1>2 DEF IsPut

-------------------------------------------------------------------------------
(* A write to a stream *)

IsWritten(w, bytes, offset, data, truncate) ==
  LET n == Len(bytes)
      end == offset + Len(data)
  IN /\ IsFile(w) /\ Len(w) = IF truncate \/ end > n THEN end ELSE n
     /\ \A i \in 1 .. Len(w) :
          w[i] = IF i > offset /\ i <= end THEN data[i - offset]
                 ELSE IF i <= n THEN bytes[i] ELSE Byte(0)

LEMMA WrittenFacts ==
  ASSUME NEW bytes, IsFile(bytes), NEW data, IsFile(data), NEW offset \in Nat,
         NEW truncate \in BOOLEAN, NEW w, w = Written(bytes, offset, data, truncate)
  PROVE  IsWritten(w, bytes, offset, data, truncate)
<1>0. PICK n, end : n = Len(bytes) /\ end = offset + Len(data)
  OBVIOUS
<1>1. n \in Nat /\ Len(data) \in Nat /\ end \in Nat /\ (data = <<>> <=> Len(data) = 0)
  BY <1>0, FileFacts
<1>2. PICK m, x, y : /\ m = IF n < offset THEN offset ELSE n
                     /\ x = SetLength(bytes, m) /\ y = WriteAt(x, offset, data)
  OBVIOUS
<1>3. w = IF truncate THEN SetLength(y, end) ELSE y
  BY <1>0, <1>2 DEF Written
<1>4. /\ m \in Nat /\ m >= offset /\ m >= n
      /\ IsFile(x) /\ Len(x) = m
      /\ \A i \in 1 .. m : x[i] = IF i <= n THEN bytes[i] ELSE Byte(0)
  <2>1. m \in Nat /\ m >= offset /\ m >= n
    BY <1>1, <1>2
  <2>2. x = SetLength(bytes, m)
    BY <1>2
  <2>3. IsCut(x, bytes, m)
    BY <2>1, <2>2, CutIs
  <2> QED BY <1>0, <2>1, <2>3 DEF IsCut
<1>5. /\ IsFile(y)
      /\ Len(y) = IF data = <<>> \/ Len(x) > end THEN Len(x) ELSE end
      /\ \A i \in 1 .. Len(y) :
           y[i] = IF i > offset /\ i <= end THEN data[i - offset]
                  ELSE IF i <= Len(x) THEN x[i] ELSE Byte(0)
  <2>1. IsPut(y, x, offset, data)
    BY <1>2, <1>4, PutIs
  <2> QED BY <1>0, <2>1 DEF IsPut
<1>6. Len(y) \in Nat /\ Len(y) >= end /\ (Len(y) = IF end > n THEN end ELSE n)
  <2>1. Len(y) = IF data = <<>> \/ m > end THEN m ELSE end
    BY <1>4, <1>5
  <2>2. /\ m = (IF n < offset THEN offset ELSE n) /\ end = offset + Len(data)
        /\ (data = <<>> => Len(data) = 0)
    BY <1>0, <1>1, <1>2
  <2>3. CASE data = <<>>
    BY <1>1, <2>1, <2>2, <2>3
  <2>4. CASE data # <<>>
    BY <1>1, <2>1, <2>2, <2>4
  <2> QED BY <2>3, <2>4
<1>7. \A i \in 1 .. Len(y) :
        y[i] = IF i > offset /\ i <= end THEN data[i - offset]
               ELSE IF i <= n THEN bytes[i] ELSE Byte(0)
  BY <1>1, <1>4, <1>5, <1>6
<1>8. CASE truncate
  <2>1. /\ IsFile(w) /\ Len(w) = end
        /\ \A i \in 1 .. end : w[i] = IF i <= Len(y) THEN y[i] ELSE Byte(0)
    <3>1. w = SetLength(y, end) /\ end \in Nat /\ IsFile(y)
      BY <1>1, <1>3, <1>5, <1>8
    <3>2. IsCut(w, y, end)
      BY <3>1, CutIs
    <3> QED BY <3>2 DEF IsCut
  <2>2. \A i \in 1 .. end : i \in 1 .. Len(y) /\ w[i] = y[i]
    BY <1>1, <1>6, <2>1
  <2> QED BY <1>0, <1>7, <1>8, <2>1, <2>2 DEF IsWritten
<1>9. CASE ~ truncate
  BY <1>0, <1>3, <1>5, <1>6, <1>7, <1>9 DEF IsWritten
<1> QED BY <1>8, <1>9

\* The file of the stream after each of the calls of WriteCalls.
CutFirst(f, n, end) == IF end > n THEN SetLength(f, n + 1) ELSE f
Put(f, offset, data) == IF Len(data) > 0 THEN WriteAt(f, offset + 1, data) ELSE f
CutLast(f, n, end, data, truncate, length) ==
  IF truncate \/ (Len(data) = 0 /\ end > n) THEN SetLength(f, length) ELSE f

\* What they are, if the file is cut at `length' in the end.
WriteSteps(f, bytes, offset, data, truncate, length) ==
  LET n == Len(bytes)
      end == offset + Len(data)
      w == Written(bytes, offset, data, truncate)
      x == CutFirst(f, n, end)
      y == Put(x, offset, data)
      z == CutLast(y, n, end, data, truncate, length)
  IN /\ IsFile(x) /\ IsFile(y) /\ IsFile(z)
     /\ FewerEofs(x, f) /\ FewerEofs(y, x) /\ FewerEofs(z, y)
     /\ end > n => Len(x) = n + 1
     /\ Holds(z, 1, w)
     /\ length = end + 1 /\ Len(f) <= n + 2 => Len(z) <= Len(w) + 2

LEMMA WrittenFile ==
  ASSUME NEW bytes, IsFile(bytes), NEW data, IsFile(data), NoEofs(data), NEW offset \in Nat,
         NEW truncate \in BOOLEAN, NEW f, IsFile(f), Holds(f, 1, bytes),
         NEW length \in Nat, length >= offset + Len(data) + 1
  PROVE  WriteSteps(f, bytes, offset, data, truncate, length)
<1> DEFINE n0 == Len(bytes)
           end0 == offset + Len(data)
           w0 == Written(bytes, offset, data, truncate)
           x0 == CutFirst(f, n0, end0)
           y0 == Put(x0, offset, data)
           z0 == CutLast(y0, n0, end0, data, truncate, length)
<1>0. PICK n, end, w, x, y, z : n = n0 /\ end = end0 /\ w = w0 /\ x = x0 /\ y = y0 /\ z = z0
  OBVIOUS
<1>a. SUFFICES /\ IsFile(x) /\ IsFile(y) /\ IsFile(z)
               /\ FewerEofs(x, f) /\ FewerEofs(y, x) /\ FewerEofs(z, y)
               /\ end > n => Len(x) = n + 1
               /\ Holds(z, 1, w)
               /\ length = end + 1 /\ Len(f) <= n + 2 => Len(z) <= Len(w) + 2
  BY <1>0 DEF WriteSteps
<1>b. /\ n = Len(bytes) /\ end = offset + Len(data) /\ length >= end + 1
      /\ w = Written(bytes, offset, data, truncate)
      /\ x = CutFirst(f, n, end) /\ y = Put(x, offset, data)
      /\ z = CutLast(y, n, end, data, truncate, length)
  BY <1>0
<1> HIDE <1>0
<1> USE <1>b
<1>1. /\ n \in Nat /\ Len(data) \in Nat /\ end \in Nat /\ (data = <<>> <=> Len(data) = 0)
      /\ Len(f) \in Nat /\ Len(f) >= n + 1
      /\ \A i \in 1 .. n : f[1 + i] = bytes[i]
  BY FileFacts DEF Holds
<1>2. /\ IsFile(w) /\ Len(w) = IF truncate \/ end > n THEN end ELSE n
      /\ \A i \in 1 .. Len(w) :
           w[i] = IF i > offset /\ i <= end THEN data[i - offset]
                  ELSE IF i <= n THEN bytes[i] ELSE Byte(0)
  <2>1. IsWritten(w, bytes, offset, data, truncate)
    BY WrittenFacts
  <2> QED BY <2>1 DEF IsWritten
<1>3. /\ IsFile(x) /\ FewerEofs(x, f)
      /\ Len(x) = IF end > n THEN n + 1 ELSE Len(f)
      /\ \A i \in 1 .. n : x[1 + i] = bytes[i]
  <2>1. CASE end > n
    <3>1. PICK m : m = n + 1
      OBVIOUS
    <3>2. m \in Nat /\ x = SetLength(f, m)
      BY <1>1, <2>1, <3>1 DEF CutFirst
    <3>3. /\ IsFile(x) /\ Len(x) = m /\ FewerEofs(x, f)
          /\ \A i \in 1 .. m : x[i] = IF i <= Len(f) THEN f[i] ELSE Byte(0)
      <4>1. IsCut(x, f, m)
        BY <3>2, CutIs
      <4> QED BY <4>1 DEF IsCut
    <3>4. FewerEofs(x, f)
      BY <3>3
    <3>5. \A i \in 1 .. n : 1 + i \in 1 .. m /\ 1 + i <= Len(f)
      BY <1>1, <3>1
    <3> QED BY <1>1, <2>1, <3>1, <3>3, <3>4, <3>5
  <2>2. CASE ~ (end > n)
    <3>1. x = f
      BY <2>2 DEF CutFirst
    <3> QED BY <1>1, <2>2, <3>1, FewerSame
  <2> QED BY <2>1, <2>2
<1>4. /\ IsFile(y) /\ FewerEofs(y, x)
      /\ Len(y) = IF Len(data) = 0 \/ Len(x) > end + 1 THEN Len(x) ELSE end + 1
      /\ \A i \in 1 .. Len(y) :
           y[i] = IF i > offset + 1 /\ i <= end + 1 THEN data[i - (offset + 1)]
                  ELSE IF i <= Len(x) THEN x[i] ELSE Byte(0)
  <2>1. CASE Len(data) > 0
    <3>1. PICK o, l : o = offset + 1 /\ l = o + Len(data)
      OBVIOUS
    <3>2. o \in Nat /\ y = WriteAt(x, o, data) /\ l = end + 1 /\ data # <<>>
      BY <1>1, <2>1, <3>1 DEF Put
    <3>3. /\ IsFile(y)
          /\ Len(y) = IF data = <<>> \/ Len(x) > l THEN Len(x) ELSE l
          /\ \A i \in 1 .. Len(y) :
               y[i] = IF i > o /\ i <= l THEN data[i - o]
                      ELSE IF i <= Len(x) THEN x[i] ELSE Byte(0)
      <4>1. IsPut(y, x, o, data)
        BY <1>3, <3>2, PutIs
      <4> QED BY <3>1, <4>1 DEF IsPut
    <3>4. FewerEofs(y, x)
      BY <1>3, <3>2, FewerWriteAt
    <3> QED BY <1>1, <2>1, <3>1, <3>2, <3>3, <3>4
  <2>2. CASE Len(data) = 0
    <3>1. y = x /\ end = offset
      BY <1>1, <2>2 DEF Put
    <3>2. \A i \in Int : ~ (i > offset + 1 /\ i <= end + 1)
      BY <3>1
    <3>3. \A i \in 1 .. Len(y) : i \in Int /\ i <= Len(x)
      BY <1>1, <1>3, <3>1
    <3> QED BY <1>1, <1>3, <2>2, <3>1, <3>2, <3>3, FewerSame
  <2> QED BY <1>1, <2>1, <2>2
<1>5. Len(x) \in Nat /\ Len(y) \in Nat /\ Len(x) >= n + 1 /\ Len(y) >= n + 1
  <2>1. /\ Len(x) = IF end > n THEN n + 1 ELSE Len(f)
        /\ Len(y) = IF Len(data) = 0 \/ Len(x) > end + 1 THEN Len(x) ELSE end + 1
    BY <1>3, <1>4
  <2>2. n \in Nat /\ end \in Nat /\ Len(f) \in Nat /\ Len(f) >= n + 1
    BY <1>1
  <2>3. Len(x) \in Nat /\ Len(x) >= n + 1
    BY <2>1, <2>2
  <2>4. Len(y) = Len(x) \/ (Len(y) = end + 1 /\ ~ (Len(x) > end + 1))
    BY <2>1
  <2> QED BY <2>2, <2>3, <2>4
<1>6. \A i \in 1 .. Len(w) : i + 1 <= Len(y) => y[1 + i] = w[i]
  <2> SUFFICES ASSUME NEW i \in 1 .. Len(w), i + 1 <= Len(y)
               PROVE  y[1 + i] = w[i]
    OBVIOUS
  <2>0. Len(w) \in Nat /\ 1 + i \in 1 .. Len(y)
    BY <1>1, <1>2, <1>5
  <2>1. CASE i > offset /\ i <= end
    <3>1. 1 + i > offset + 1 /\ 1 + i <= end + 1 /\ (1 + i) - (offset + 1) = i - offset
      BY <1>1, <2>0, <2>1
    <3> QED BY <1>2, <1>4, <2>0, <2>1, <3>1
  <2>2. CASE ~ (i > offset /\ i <= end)
    <3>1. ~ (1 + i > offset + 1 /\ 1 + i <= end + 1)
      BY <1>1, <2>0, <2>2
    <3>2. CASE i <= n
      <4>1. 1 + i <= Len(x) /\ i \in 1 .. n
        BY <1>5, <1>1, <2>0, <3>2
      <4> QED BY <1>2, <1>3, <1>4, <2>0, <2>2, <3>1, <3>2, <4>1
    <3>3. CASE ~ (i <= n)
      <4>1. end > n /\ ~ (1 + i <= Len(x))
        <5>1. /\ Len(w) = IF truncate \/ end > n THEN end ELSE n
              /\ Len(x) = IF end > n THEN n + 1 ELSE Len(f)
          BY <1>2, <1>3
        <5>2. end > n
          BY <1>1, <2>0, <3>3, <5>1
        <5> QED BY <1>1, <2>0, <3>3, <5>1, <5>2
      <4> QED BY <1>2, <1>4, <2>0, <2>2, <3>1, <3>3, <4>1
    <3> QED BY <3>2, <3>3
  <2> QED BY <2>1, <2>2
<1>7. CASE truncate \/ (Len(data) = 0 /\ end > n)
  <2>1. z = SetLength(y, length)
    BY <1>7 DEF CutLast
  <2>2. /\ IsFile(z) /\ Len(z) = length /\ FewerEofs(z, y)
        /\ \A i \in 1 .. length : z[i] = IF i <= Len(y) THEN y[i] ELSE Byte(0)
    <3>1. IsCut(z, y, length)
      BY <1>4, <2>1, CutIs
    <3> QED BY <3>1 DEF IsCut
  <2>3. Len(w) = end
    BY <1>2, <1>7
  <2>4. \A i \in 1 .. Len(w) : z[1 + i] = w[i]
    <3> SUFFICES ASSUME NEW i \in 1 .. Len(w)
                 PROVE  z[1 + i] = w[i]
      OBVIOUS
    <3>1. 1 + i \in 1 .. length
      <4>1. Len(w) = end /\ end \in Nat /\ length >= end + 1
        BY <1>1, <2>3
      <4> HIDE <1>b
      <4> QED BY <4>1
    <3>2. CASE 1 + i <= Len(y)
      BY <1>6, <2>2, <3>1, <3>2
    <3>3. CASE ~ (1 + i <= Len(y))
      <4>1. Len(data) = 0 /\ end = offset /\ i > n /\ ~ (i > offset /\ i <= end)
        BY <1>1, <1>4, <1>5, <2>3, <3>3
      <4>2. w[i] = Byte(0)
        BY <1>1, <1>2, <2>3, <4>1
      <4> QED BY <2>2, <3>1, <3>3, <4>2
    <3> QED BY <3>2, <3>3
  <2>5. Holds(z, 1, w)
    <3>1. Len(z) >= 1 + Len(w)
      BY <1>1, <2>2, <2>3
    <3> QED BY <2>4, <3>1 DEF Holds
  <2>6. length = end + 1 => Len(z) <= Len(w) + 2
    BY <1>1, <2>2, <2>3
  <2> QED BY <1>3, <1>4, <2>2, <2>5, <2>6
<1>8. CASE ~ (truncate \/ (Len(data) = 0 /\ end > n))
  <2>1. z = y
    BY <1>8 DEF CutLast
  <2>2. Len(w) = (IF end > n THEN end ELSE n) /\ Len(z) >= 1 + Len(w)
    BY <1>1, <1>2, <1>3, <1>4, <1>8, <2>1
  <2>3. \A i \in 1 .. Len(w) : z[1 + i] = w[i]
    <3>1. \A i \in 1 .. Len(w) : i + 1 <= Len(y)
      <4>1. Len(w) \in Nat /\ Len(y) >= 1 + Len(w) /\ Len(y) \in Nat
        BY <1>1, <1>5, <2>1, <2>2
      <4> QED BY <4>1
    <3> QED BY <1>6, <2>1, <3>1
  <2>4. Holds(z, 1, w)
    BY <2>2, <2>3 DEF Holds
  <2>5. Len(f) <= n + 2 => Len(z) <= Len(w) + 2
    BY <1>1, <1>3, <1>4, <1>8, <2>1, <2>2
  <2> QED BY <1>3, <1>4, <2>1, <2>4, <2>5, FewerSame
<1> QED BY <1>7, <1>8

-------------------------------------------------------------------------------
(* Calls on one file *)

With(files, i, f) == [files EXCEPT ![i] = f]

LEMMA SetLengthAfter ==
  ASSUME NEW files, NEW i, NEW n
  PROVE  After(files, <<SetLengthCall(i, n)>>) = With(files, i, SetLength(files[i], n))
BY AfterOne, SetLengthIs DEF With

LEMMA SetLengthTorn ==
  ASSUME NEW files, NEW i, NEW n
  PROVE  TornIn(files, <<SetLengthCall(i, n)>>) = {files}
BY TornOne, SetLengthIs

LEMMA WriteAfter ==
  ASSUME NEW files, NEW i, NEW n, NEW cells
  PROVE  After(files, <<WriteCall(i, n, cells)>>) = With(files, i, WriteAt(files[i], n, cells))
BY AfterOne, WriteIs DEF With

LEMMA WriteTorn ==
  ASSUME NEW files, NEW i, NEW n, NEW cells
  PROVE  \A t \in TornIn(files, <<WriteCall(i, n, cells)>>) :
           \E m \in 0 .. Len(cells) - 1 :
             t = [files EXCEPT ![i] = WriteAt(files[i], n, SubSeq(cells, 1, m))]
<1>1. TornIn(files, <<WriteCall(i, n, cells)>>) = Torn(files, WriteCall(i, n, cells))
  BY TornOne
<1> QED BY <1>1, WriteIs

LEMMA NothingDone ==
  ASSUME NEW files, NEW calls, calls = <<>>
  PROVE  After(files, calls) = files /\ TornIn(files, calls) = {} /\ IsFile(calls)
BY AfterNone, TornNone, EmptyIsFile

\* A record that is not written whole is not written.
LEMMA OneTorn ==
  ASSUME NEW files, files = [j \in FileIndices |-> files[j]], NEW i, NEW n, NEW c
  PROVE  \A t \in TornIn(files, <<WriteCall(i, n, <<c>>)>>) : t = files
<1>0. PICK calls, cells : cells = <<c>> /\ calls = <<WriteCall(i, n, cells)>>
  OBVIOUS
<1>1. SUFFICES ASSUME NEW t \in TornIn(files, calls)
               PROVE  t = files
  BY <1>0
<1>2. SubSeq(cells, 1, 0) = <<>> /\ \A m \in 0 .. Len(cells) - 1 : m = 0
  BY <1>0
<1>3. WriteAt(files[i], n, <<>>) = files[i]
  BY DEF WriteAt
<1>4. [files EXCEPT ![i] = files[i]] = files
  OBVIOUS
<1>5. PICK m \in 0 .. Len(cells) - 1 :
        t = [files EXCEPT ![i] = WriteAt(files[i], n, SubSeq(cells, 1, m))]
  <2>1. \A u \in TornIn(files, <<WriteCall(i, n, cells)>>) :
          \E m \in 0 .. Len(cells) - 1 :
            u = [files EXCEPT ![i] = WriteAt(files[i], n, SubSeq(cells, 1, m))]
    BY WriteTorn
  <2> QED BY <1>0, <1>1, <2>1
<1>6. m = 0
  BY <1>2
<1>7. SubSeq(cells, 1, m) = <<>>
  BY <1>2, <1>6
<1> QED BY <1>3, <1>4, <1>5, <1>7

\* The file of stream 2 is created, with its header.
LEMMA FileCreated ==
  ASSUME NEW files, files = [j \in FileIndices |-> files[j]], NEW h,
         NEW calls, calls = <<CreateCall(1), WriteCall(1, 0, <<h>>)>>
  PROVE  /\ After(files, calls) = [files EXCEPT ![1] = <<h>>]
         /\ \A t \in TornIn(files, calls) : t = files \/ t = [files EXCEPT ![1] = <<>>]
         /\ IsFile(calls)
<1>1. PICK a, b, x, y : /\ a = CreateCall(1) /\ b = WriteCall(1, 0, <<h>>)
                        /\ x = <<a>> /\ y = <<b>>
  OBVIOUS
<1>2. calls = x \o y
  BY <1>1
<1>3. IsFile(x) /\ IsFile(y) /\ IsFile(calls)
  <2>1. IsFile(x) /\ IsFile(y)
    BY <1>1, SingleIsFile
  <2> QED BY <1>2, <2>1, ConcatFacts
<1>4. PICK g : g = [files EXCEPT ![1] = <<>>]
  OBVIOUS
<1>5. g = [j \in FileIndices |-> g[j]] /\ g[1] = <<>> /\ [g EXCEPT ![1] = <<h>>] = [files EXCEPT ![1] = <<h>>]
  BY <1>4 DEF FileIndices
<1>6. After(files, x) = g /\ TornIn(files, x) = {files}
  <2>1. After(files, <<a>>) = Call(files, a) /\ TornIn(files, <<a>>) = Torn(files, a)
    BY AfterOne, TornOne
  <2> QED BY <1>1, <1>4, <2>1, CreateIs
<1>7. After(g, y) = [files EXCEPT ![1] = <<h>>]
  <2>1. PICK cells, e, f : cells = <<h>> /\ e = <<>> /\ f = WriteAt(e, 0, cells)
    OBVIOUS
  <2>2. /\ IsFile(cells) /\ Len(cells) = 1 /\ cells[1] = h /\ cells # <<>>
        /\ IsFile(e) /\ Len(e) = 0 /\ 0 \in Nat
    BY <2>1, SingleIsFile, EmptyIsFile
  <2>3. IsPut(f, e, 0, cells)
    BY <2>1, <2>2, PutIs
  <2>4. IsFile(f) /\ Len(f) = 1 /\ f[1] = h
    BY <2>2, <2>3 DEF IsPut
  <2>5. f = cells
    <3>1. Len(f) = Len(cells) /\ \A i \in 1 .. Len(f) : f[i] = cells[i]
      BY <2>2, <2>4
    <3> QED BY <2>2, <2>4, <3>1, SameFile
  <2>6. After(g, y) = [g EXCEPT ![1] = WriteAt(g[1], 0, cells)]
    <3>1. After(g, <<WriteCall(1, 0, cells)>>) = With(g, 1, WriteAt(g[1], 0, cells))
      BY WriteAfter
    <3> QED BY <1>1, <2>1, <3>1 DEF With
  <2> QED BY <1>5, <2>1, <2>5, <2>6
<1>8. \A t \in TornIn(g, y) : t = g
  BY <1>1, <1>5, OneTorn
<1>9. After(files, calls) = After(g, y)
  <2>1. After(files, x \o y) = After(After(files, x), y)
    BY <1>3, AfterConcat
  <2> QED BY <1>2, <1>6, <2>1
<1>10. \A t \in TornIn(files, calls) : t \in TornIn(files, x) \/ t \in TornIn(g, y)
  <2>1. \A t \in TornIn(files, x \o y) : t \in TornIn(files, x) \/ t \in TornIn(After(files, x), y)
    BY <1>3, TornConcat
  <2> QED BY <1>2, <1>6, <2>1
<1> QED BY <1>3, <1>4, <1>6, <1>7, <1>8, <1>9, <1>10

\* The file that is written: a header if it has to be created.
FileToWrite(e, i) == IF Omitted(e, i) THEN <<Header(e.key, e.born)>> ELSE e.file[i]

\* The calls of a write, and what may be left of the file when one fails.
TornWrite(t, e, i, f, x, y, offset, data) ==
  \/ t = e.file
  \/ Omitted(e, i) /\ t = [e.file EXCEPT ![i] = <<>>]
  \/ t = [e.file EXCEPT ![i] = f]
  \/ t = [e.file EXCEPT ![i] = y]
  \/ \E m \in 0 .. Len(data) - 1 :
       t = [e.file EXCEPT ![i] = WriteAt(x, offset + 1, SubSeq(data, 1, m))]

WriteStatesAre(e, s, offset, data, truncate) ==
  LET i == GetFileIndexFromStreamIndex(s)
      end == offset + Len(data)
      length == IF s = 1 THEN end + e.size[0] + 3 ELSE end + 1
      f == FileToWrite(e, i)
      x == CutFirst(f, e.size[s], end)
      y == Put(x, offset, data)
      z == CutLast(y, e.size[s], end, data, truncate, length)
      calls == WriteCalls(e, s, offset, data, truncate)
  IN /\ After(e.file, calls) = [e.file EXCEPT ![i] = z]
     /\ \A t \in TornIn(e.file, calls) : TornWrite(t, e, i, f, x, y, offset, data)

LEMMA WriteStates ==
  ASSUME Distinct, NEW e, Shape(e), FilesFull(e.file, e.key, e.born),
         NEW s \in {1, 2}, NEW offset \in Nat, NEW data, IsFile(data), NEW truncate \in BOOLEAN
  PROVE  WriteStatesAre(e, s, offset, data, truncate)
<1> DEFINE i0 == GetFileIndexFromStreamIndex(s)
           end0 == offset + Len(data)
           length0 == IF s = 1 THEN end0 + e.size[0] + 3 ELSE end0 + 1
           f0 == FileToWrite(e, i0)
           x0 == CutFirst(f0, e.size[s], end0)
           y0 == Put(x0, offset, data)
           z0 == CutLast(y0, e.size[s], end0, data, truncate, length0)
           calls0 == WriteCalls(e, s, offset, data, truncate)
<1>a. PICK i, n, end, length, f, x, y, z, calls :
        /\ i = i0 /\ n = e.size[s] /\ end = end0 /\ length = length0
        /\ f = f0 /\ x = x0 /\ y = y0 /\ z = z0 /\ calls = calls0
  OBVIOUS
<1>b. SUFFICES /\ After(e.file, calls) = [e.file EXCEPT ![i] = z]
               /\ \A t \in TornIn(e.file, calls) : TornWrite(t, e, i, f, x, y, offset, data)
  BY <1>a DEF WriteStatesAre
<1>c. /\ i = GetFileIndexFromStreamIndex(s) /\ n = e.size[s] /\ end = offset + Len(data)
      /\ length = IF s = 1 THEN end + e.size[0] + 3 ELSE end + 1
      /\ f = IF Omitted(e, i) THEN <<Header(e.key, e.born)>> ELSE e.file[i]
      /\ x = CutFirst(f, n, end) /\ y = Put(x, offset, data)
      /\ z = CutLast(y, n, end, data, truncate, length)
      /\ calls = WriteCalls(e, s, offset, data, truncate)
  BY <1>a DEF FileToWrite
<1> HIDE <1>a
<1> USE <1>c
<1> DEFINE extending == offset + Len(data) > e.size[s]
           cutLast == truncate \/ (Len(data) = 0 /\ extending)
           resized == [e.size EXCEPT ![s] = offset + Len(data)]
           A == IF Omitted(e, i)
                THEN <<CreateCall(i), WriteCall(i, 0, <<Header(e.key, e.born)>>)>> ELSE <<>>
           B == IF extending THEN <<SetLengthCall(i, GetEOFOffsetInFile(e.size, s))>> ELSE <<>>
           C == IF Len(data) > 0
                THEN <<WriteCall(i, GetOffsetInFile(e.size, offset, s), data)>> ELSE <<>>
           D == IF cutLast
                THEN <<SetLengthCall(i, GetLastEOFOffsetInFile(resized, s))>> ELSE <<>>
           G(v) == [e.file EXCEPT ![i] = v]
<1>1. calls = A \o B \o C \o D
  BY DEF WriteCalls
<1>2. /\ Len(data) \in Nat /\ end \in Nat /\ i \in FileIndices /\ s \in Streams
      /\ e.size = [r \in Streams |-> e.size[r]] /\ (\A r \in Streams : e.size[r] \in Nat)
      /\ e.file = [j \in FileIndices |-> e.file[j]] /\ (Omitted(e, i) => i = 1)
  <2>1. e.file[0] # Missing
    BY DEF FilesFull, Full, OwnCells, Distinct
  <2> QED BY <2>1, FileFacts
        DEF GetFileIndexFromStreamIndex, FileIndices, Streams, Shape, FilesFull, Omitted
<1>3. /\ GetEOFOffsetInFile(e.size, s) = n + 1
      /\ GetOffsetInFile(e.size, offset, s) = offset + 1
      /\ GetLastEOFOffsetInFile(resized, s) = length
  <2>1. HeaderSize = 1 /\ EofSize = 1 /\ Sha256Size = 1
    BY EntryAssumption
  <2>2. PICK r : r = resized
    OBVIOUS
  <2>3. r[s] = end /\ (s = 1 => r[0] = e.size[0])
    BY <1>2, <2>2 DEF Streams
  <2>4. n \in Nat /\ e.size[0] \in Nat
    BY <1>2 DEF Streams
  <2>5. GetEOFOffsetInFile(e.size, s) = n + 1 /\ GetOffsetInFile(e.size, offset, s) = offset + 1
    <3>1. s # 0
      OBVIOUS
    <3>2. GetOffsetInFile(e.size, offset, s) = offset + 1
      BY <2>1, <3>1 DEF GetOffsetInFile
    <3>3. GetOffsetInFile(e.size, e.size[s], s) = n + 1
      BY <2>1, <2>4, <3>1 DEF GetOffsetInFile
    <3> QED BY <2>4, <3>1, <3>2, <3>3 DEF GetEOFOffsetInFile
  <2>6. GetLastEOFOffsetInFile(r, s) = length
    <3>1. CASE s = 1
      <4>1. r[1] = end /\ r[0] = e.size[0] /\ end \in Nat /\ e.size[0] \in Nat
        BY <1>2, <2>3, <2>4, <3>1
      <4>2. GetOffsetInFile(r, r[0], 0) = 1 + r[0] + (r[1] + 1)
        BY <2>1, <4>1 DEF GetOffsetInFile
      <4>3. GetLastEOFOffsetInFile(r, s) = 1 + GetOffsetInFile(r, r[0], 0)
        BY <2>1, <3>1 DEF GetLastEOFOffsetInFile, GetEOFOffsetInFile
      <4>4. length = end + e.size[0] + 3
        BY <3>1
      <4>5. PICK a \in Nat, b \in Nat : a = end /\ b = e.size[0]
        BY <4>1
      <4>6. GetOffsetInFile(r, r[0], 0) = 1 + b + (a + 1)
        BY <4>1, <4>2, <4>5
      <4>7. GetLastEOFOffsetInFile(r, s) = 1 + (1 + b + (a + 1))
        BY <4>3, <4>6
      <4>8. length = a + b + 3
        BY <4>4, <4>5
      <4> QED BY ONLY <4>5, <4>7, <4>8
    <3>2. CASE s = 2
      <4>1. r[2] = end /\ end \in Nat
        BY <1>2, <2>3, <3>2
      <4>2. GetOffsetInFile(r, r[2], 2) = 1 + r[2]
        BY <2>1, <4>1 DEF GetOffsetInFile
      <4>3. GetLastEOFOffsetInFile(r, s) = GetOffsetInFile(r, r[2], 2)
        BY <2>1, <3>2, <4>1, <4>2 DEF GetLastEOFOffsetInFile, GetEOFOffsetInFile
      <4>4. length = end + 1
        BY <3>2
      <4> QED BY <4>1, <4>2, <4>3, <4>4
    <3> QED BY <3>1, <3>2
  <2> QED BY <2>2, <2>5, <2>6
<1>4. /\ G(e.file[i]) = e.file
      /\ \A v : G(v)[i] = v /\ G(v) = [j \in FileIndices |-> G(v)[j]]
      /\ \A v, w : [G(v) EXCEPT ![i] = w] = G(w)
  BY <1>2
<1>5. PICK a, b, c, d : a = A /\ b = B /\ c = C /\ d = D
  OBVIOUS
<1>6. calls = ((a \o b) \o c) \o d
  BY <1>1, <1>5
<1> HIDE DEF G
<1>7. /\ After(e.file, a) = G(f) /\ IsFile(a)
      /\ \A t \in TornIn(e.file, a) : t = e.file \/ (Omitted(e, i) /\ t = G(<<>>))
  <2>1. CASE Omitted(e, i)
    <3>1. PICK h : h = Header(e.key, e.born)
      OBVIOUS
    <3>2. a = <<CreateCall(1), WriteCall(1, 0, <<h>>)>> /\ f = <<h>> /\ i = 1
      BY <1>2, <1>5, <2>1, <3>1
    <3>3. /\ After(e.file, a) = [e.file EXCEPT ![1] = <<h>>] /\ IsFile(a)
          /\ \A t \in TornIn(e.file, a) : t = e.file \/ t = [e.file EXCEPT ![1] = <<>>]
      BY <1>2, <3>2, FileCreated
    <3> QED BY <2>1, <3>2, <3>3 DEF G
  <2>2. CASE ~ Omitted(e, i)
    <3>1. a = <<>> /\ f = e.file[i]
      BY <1>5, <2>2
    <3> QED BY <1>4, <3>1, NothingDone
  <2> QED BY <2>1, <2>2
<1>8. /\ After(G(f), b) = G(x) /\ IsFile(b)
      /\ \A t \in TornIn(G(f), b) : t = G(f)
  <2>1. CASE extending
    <3>1. b = <<SetLengthCall(i, n + 1)>> /\ x = SetLength(f, n + 1)
      BY <1>3, <1>5, <2>1 DEF CutFirst
    <3>2. PICK g : g = G(f)
      OBVIOUS
    <3>3. After(g, b) = [g EXCEPT ![i] = SetLength(g[i], n + 1)]
      <4>1. After(g, <<SetLengthCall(i, n + 1)>>) = With(g, i, SetLength(g[i], n + 1))
        BY SetLengthAfter
      <4> QED BY <3>1, <4>1 DEF With
    <3>4. TornIn(g, b) = {g}
      BY <3>1, SetLengthTorn
    <3> QED BY <1>4, <3>1, <3>2, <3>3, <3>4, SingleIsFile
  <2>2. CASE ~ extending
    <3>1. b = <<>> /\ x = f
      BY <1>5, <2>2 DEF CutFirst
    <3> QED BY <3>1, NothingDone
  <2> QED BY <2>1, <2>2
<1>9. /\ After(G(x), c) = G(y) /\ IsFile(c)
      /\ \A t \in TornIn(G(x), c) :
           \E m \in 0 .. Len(data) - 1 : t = G(WriteAt(x, offset + 1, SubSeq(data, 1, m)))
  <2>1. CASE Len(data) > 0
    <3>1. c = <<WriteCall(i, offset + 1, data)>> /\ y = WriteAt(x, offset + 1, data)
      BY <1>3, <1>5, <2>1 DEF Put
    <3>2. PICK g : g = G(x)
      OBVIOUS
    <3>3. After(g, c) = [g EXCEPT ![i] = WriteAt(g[i], offset + 1, data)] /\ IsFile(c)
      <4>1. After(g, <<WriteCall(i, offset + 1, data)>>) = With(g, i, WriteAt(g[i], offset + 1, data))
        BY WriteAfter
      <4> QED BY <3>1, <4>1, SingleIsFile DEF With
    <3>4. g[i] = x /\ \A w : [g EXCEPT ![i] = w] = G(w)
      BY <1>4, <3>2
    <3>5. ASSUME NEW t \in TornIn(g, c)
          PROVE  \E m \in 0 .. Len(data) - 1 : t = G(WriteAt(x, offset + 1, SubSeq(data, 1, m)))
      <4>1. PICK m \in 0 .. Len(data) - 1 :
              t = [g EXCEPT ![i] = WriteAt(g[i], offset + 1, SubSeq(data, 1, m))]
        <5>1. \A u \in TornIn(g, <<WriteCall(i, offset + 1, data)>>) :
                \E m \in 0 .. Len(data) - 1 :
                  u = [g EXCEPT ![i] = WriteAt(g[i], offset + 1, SubSeq(data, 1, m))]
          BY ONLY WriteTorn
        <5> QED BY <3>1, <3>5, <5>1
      <4> QED BY <3>4, <4>1
    <3>6. After(g, c) = G(y) /\ IsFile(c)
      BY <3>1, <3>3, <3>4
    <3> QED BY <3>2, <3>5, <3>6
  <2>2. CASE ~ (Len(data) > 0)
    <3>1. c = <<>> /\ y = x
      BY <1>5, <2>2 DEF Put
    <3> QED BY <3>1, NothingDone
  <2> QED BY <2>1, <2>2
<1>10. /\ After(G(y), d) = G(z) /\ IsFile(d)
       /\ \A t \in TornIn(G(y), d) : t = G(y)
  <2>1. CASE cutLast
    <3>1. d = <<SetLengthCall(i, length)>> /\ z = SetLength(y, length)
      BY <1>3, <1>5, <2>1 DEF CutLast
    <3>2. PICK g : g = G(y)
      OBVIOUS
    <3>3. After(g, d) = [g EXCEPT ![i] = SetLength(g[i], length)]
      <4>1. After(g, <<SetLengthCall(i, length)>>) = With(g, i, SetLength(g[i], length))
        BY SetLengthAfter
      <4> QED BY <3>1, <4>1 DEF With
    <3>4. TornIn(g, d) = {g}
      BY <3>1, SetLengthTorn
    <3> QED BY <1>4, <3>1, <3>2, <3>3, <3>4, SingleIsFile
  <2>2. CASE ~ cutLast
    <3>1. d = <<>> /\ z = y
      BY <1>5, <2>2 DEF CutLast
    <3> QED BY <3>1, NothingDone
  <2> QED BY <2>1, <2>2
<1>11. IsFile(a) /\ IsFile(b) /\ IsFile(c) /\ IsFile(d)
  BY <1>7, <1>8, <1>9, <1>10
<1>12. PICK p, q : p = a \o b /\ q = p \o c
  OBVIOUS
<1>13. calls = q \o d /\ IsFile(p) /\ IsFile(q)
  <2>1. IsFile(p)
    BY <1>11, <1>12, ConcatFacts
  <2> QED BY <1>6, <1>11, <1>12, <2>1, ConcatFacts
<1>14. /\ After(e.file, p) = G(x)
       /\ \A t \in TornIn(e.file, p) : t \in TornIn(e.file, a) \/ t \in TornIn(G(f), b)
  <2>1. After(e.file, a \o b) = After(After(e.file, a), b)
    BY <1>11, AfterConcat
  <2>2. \A t \in TornIn(e.file, a \o b) :
          t \in TornIn(e.file, a) \/ t \in TornIn(After(e.file, a), b)
    BY <1>11, TornConcat
  <2>3. After(e.file, a) = G(f) /\ After(G(f), b) = G(x)
    BY <1>7, <1>8
  <2> QED BY <1>12, <2>1, <2>2, <2>3
<1>15. /\ After(e.file, q) = G(y)
       /\ \A t \in TornIn(e.file, q) : t \in TornIn(e.file, p) \/ t \in TornIn(G(x), c)
  <2>1. After(e.file, p \o c) = After(After(e.file, p), c)
    BY <1>11, <1>13, AfterConcat
  <2>2. \A t \in TornIn(e.file, p \o c) :
          t \in TornIn(e.file, p) \/ t \in TornIn(After(e.file, p), c)
    BY <1>11, <1>13, TornConcat
  <2>3. After(e.file, p) = G(x) /\ After(G(x), c) = G(y)
    BY <1>9, <1>14
  <2> QED BY <1>12, <2>1, <2>2, <2>3
<1>16. /\ After(e.file, calls) = G(z)
       /\ \A t \in TornIn(e.file, calls) : t \in TornIn(e.file, q) \/ t \in TornIn(G(y), d)
  <2>1. After(e.file, q \o d) = After(After(e.file, q), d)
    BY <1>11, <1>13, AfterConcat
  <2>2. \A t \in TornIn(e.file, q \o d) :
          t \in TornIn(e.file, q) \/ t \in TornIn(After(e.file, q), d)
    BY <1>11, <1>13, TornConcat
  <2>3. After(e.file, q) = G(y) /\ After(G(y), d) = G(z)
    BY <1>10, <1>15
  <2> QED BY <1>13, <2>1, <2>2, <2>3
<1>17. ASSUME NEW t \in TornIn(e.file, calls)
       PROVE  \/ t = e.file
              \/ Omitted(e, i) /\ t = G(<<>>)
              \/ t = G(f)
              \/ t = G(y)
              \/ \E m \in 0 .. Len(data) - 1 : t = G(WriteAt(x, offset + 1, SubSeq(data, 1, m)))
  <2>1. t \in TornIn(e.file, q) \/ t = G(y)
    BY <1>10, <1>16, <1>17
  <2>2. t \in TornIn(e.file, q) => t \in TornIn(e.file, p) \/ t \in TornIn(G(x), c)
    BY <1>15
  <2>3. t \in TornIn(e.file, p) => t \in TornIn(e.file, a) \/ t = G(f)
    BY <1>8, <1>14
  <2>4. t \in TornIn(e.file, a) => t = e.file \/ (Omitted(e, i) /\ t = G(<<>>))
    BY <1>7
  <2>5. t \in TornIn(G(x), c) =>
          \E m \in 0 .. Len(data) - 1 : t = G(WriteAt(x, offset + 1, SubSeq(data, 1, m)))
    BY <1>9
  <2> QED BY <2>1, <2>2, <2>3, <2>4, <2>5
<1> QED BY <1>16, <1>17 DEF G, TornWrite

-------------------------------------------------------------------------------
(* Checksums of a part of a stream *)

\* `part' is in `target' from an offset on.
PartAt(part, target, offset) == \A i \in 1 .. Len(part) : part[i] = target[offset + i]

LEMMA Joined ==
  ASSUME NEW target, IsFile(target), NEW cells, IsFile(cells), NEW offset \in Nat,
         NEW end, end = offset + Len(cells), end <= Len(target),
         NEW front, IsFile(front), Len(front) = offset,
         PartAt(front, target, 0), PartAt(cells, target, offset)
  PROVE  front \o cells = SubSeq(target, 1, end)
<1>1. PICK x, y : x = front \o cells /\ y = SubSeq(target, 1, end)
  OBVIOUS
<1>2. Len(cells) \in Nat /\ Len(target) \in Nat /\ end \in 0 .. Len(target)
  BY FileFacts
<1>3. /\ IsFile(x) /\ Len(x) = end
      /\ \A i \in 1 .. end : x[i] = IF i <= offset THEN front[i] ELSE cells[i - offset]
  BY <1>1, ConcatFacts
<1>4. IsFile(y) /\ Len(y) = end /\ \A i \in 1 .. end : y[i] = target[i]
  BY <1>1, <1>2, FirstPart
<1>5. ASSUME NEW i \in 1 .. end
      PROVE  x[i] = y[i]
  <2>1. CASE i <= offset
    <3>1. i \in 1 .. offset
      BY <2>1
    <3>2. front[i] = target[0 + i] /\ 0 + i = i
      BY <3>1 DEF PartAt
    <3> QED BY <1>3, <1>4, <2>1, <3>2
  <2>2. CASE ~ (i <= offset)
    <3>1. i - offset \in 1 .. Len(cells) /\ offset + (i - offset) = i
      BY <1>2, <2>2
    <3>2. cells[i - offset] = target[offset + (i - offset)]
      BY <3>1 DEF PartAt
    <3> QED BY <1>3, <1>4, <2>2, <3>1, <3>2
  <2> QED BY <2>1, <2>2
<1>6. x = y
  BY <1>3, <1>4, <1>5, SameFile
<1> QED BY <1>1, <1>6

\* What AdvanceCrc makes of the checksum.
Onward(crc, offset, cells) == (IF offset = 0 THEN <<>> ELSE crc) \o cells

\* The part before an offset is not changed by what is written behind it.
LEMMA CrcKept ==
  ASSUME NEW bytes, IsFile(bytes), NEW data, IsFile(data), NEW offset \in Nat, NEW truncate,
         NEW w, IsWritten(w, bytes, offset, data, truncate),
         NEW crc, NEW q, CrcOf(crc, q, bytes), q <= offset
  PROVE  CrcOf(crc, q, w)
<1>1. PICK n, end : n = Len(bytes) /\ end = offset + Len(data)
  OBVIOUS
<1>2. n \in Nat /\ Len(data) \in Nat /\ q \in 0 .. n
  BY <1>1, FileFacts DEF CrcOf
<1>3. /\ IsFile(w) /\ Len(w) = IF truncate \/ end > n THEN end ELSE n
      /\ \A i \in 1 .. Len(w) :
           w[i] = IF i > offset /\ i <= end THEN data[i - offset]
                  ELSE IF i <= n THEN bytes[i] ELSE Byte(0)
  BY <1>1 DEF IsWritten
<1>4. q \in 0 .. Len(w)
  BY <1>1, <1>2, <1>3
<1>5. PICK x, y : x = SubSeq(bytes, 1, q) /\ y = SubSeq(w, 1, q)
  OBVIOUS
<1>6. IsFile(x) /\ Len(x) = q /\ \A i \in 1 .. q : x[i] = bytes[i]
  BY <1>1, <1>2, <1>5, FirstPart
<1>7. IsFile(y) /\ Len(y) = q /\ \A i \in 1 .. q : y[i] = w[i]
  BY <1>3, <1>4, <1>5, FirstPart
<1>8. \A i \in 1 .. q : w[i] = bytes[i]
  <2> SUFFICES ASSUME NEW i \in 1 .. q
               PROVE  w[i] = bytes[i]
    OBVIOUS
  <2>1. i \in 1 .. Len(w) /\ i <= n /\ ~ (i > offset)
    BY <1>2, <1>3, <1>4
  <2> QED BY <1>3, <2>1
<1>9. x = y
  BY <1>6, <1>7, <1>8, SameFile
<1> QED BY <1>4, <1>5, <1>9 DEF CrcOf

LEMMA CrcExtended ==
  ASSUME NEW bytes, IsFile(bytes), NEW data, IsFile(data), NEW offset \in Nat, NEW truncate,
         NEW w, IsWritten(w, bytes, offset, data, truncate),
         NEW crc, offset > 0 => CrcOf(crc, offset, bytes)
  PROVE  CrcOf(Onward(crc, offset, data), offset + Len(data), w)
<1>1. PICK n, end : n = Len(bytes) /\ end = offset + Len(data)
  OBVIOUS
<1>2. n \in Nat /\ Len(data) \in Nat /\ end \in Nat
  BY <1>1, FileFacts
<1>3. /\ IsFile(w) /\ Len(w) = IF truncate \/ end > n THEN end ELSE n
      /\ \A i \in 1 .. Len(w) :
           w[i] = IF i > offset /\ i <= end THEN data[i - offset]
                  ELSE IF i <= n THEN bytes[i] ELSE Byte(0)
  BY <1>1 DEF IsWritten
<1>4. end \in 0 .. Len(w) /\ Len(w) \in Nat
  BY <1>1, <1>2, <1>3
<1>5. PICK front : front = IF offset = 0 THEN <<>> ELSE crc
  OBVIOUS
<1>6. /\ IsFile(front) /\ Len(front) = offset
      /\ \A i \in 1 .. offset : front[i] = w[i]
  <2>1. CASE offset = 0
    BY <1>5, <2>1, EmptyIsFile
  <2>2. CASE offset > 0
    <3>1. offset \in 0 .. n /\ front = SubSeq(bytes, 1, offset)
      BY <1>1, <1>5, <2>2 DEF CrcOf
    <3>2. IsFile(front) /\ Len(front) = offset /\ \A i \in 1 .. offset : front[i] = bytes[i]
      BY <1>1, <3>1, FirstPart
    <3>3. \A i \in 1 .. offset : i \in 1 .. Len(w) /\ i <= n /\ ~ (i > offset)
      BY <1>1, <1>2, <1>4, <3>1
    <3> QED BY <1>3, <3>2, <3>3
  <2> QED BY <2>1, <2>2
<1>7. \A i \in 1 .. Len(data) : data[i] = w[offset + i]
  <2> SUFFICES ASSUME NEW i \in 1 .. Len(data)
               PROVE  data[i] = w[offset + i]
    OBVIOUS
  <2>1. offset + i \in 1 .. Len(w) /\ offset + i > offset /\ offset + i <= end /\ (offset + i) - offset = i
    BY <1>1, <1>2, <1>4
  <2> QED BY <1>3, <2>1
<1>8. front \o data = SubSeq(w, 1, end)
  <2>1. end <= Len(w) /\ end = offset + Len(data) /\ IsFile(w)
    BY <1>1, <1>3, <1>4
  <2>2. IsFile(front) /\ Len(front) = offset
    BY <1>6
  <2>3. PartAt(front, w, 0)
    BY <1>6 DEF PartAt
  <2>4. PartAt(data, w, offset)
    BY <1>7 DEF PartAt
  <2> QED BY <2>1, <2>2, <2>3, <2>4, Joined
<1> QED BY <1>1, <1>4, <1>5, <1>8 DEF CrcOf, Onward

LEMMA CrcRead ==
  ASSUME NEW bytes, IsFile(bytes), NEW offset \in Nat, NEW length \in Nat,
         offset + length <= Len(bytes), NEW cells, cells = Cells(bytes, offset, length),
         NEW crc, CrcOf(crc, offset, bytes)
  PROVE  CrcOf(Onward(crc, offset, cells), offset + length, bytes)
<1>1. IsFile(cells) /\ Len(cells) = length /\ \A i \in 1 .. length : cells[i] = bytes[offset + i]
  BY SubSeqFacts DEF Cells
<1>2. PICK end : end = offset + Len(cells)
  OBVIOUS
<1>3. Len(bytes) \in Nat /\ end = offset + length /\ end <= Len(bytes) /\ end \in 0 .. Len(bytes)
  BY <1>1, <1>2, FileFacts
<1>4. PICK front : front = IF offset = 0 THEN <<>> ELSE crc
  OBVIOUS
<1>5. /\ IsFile(front) /\ Len(front) = offset
      /\ \A i \in 1 .. offset : front[i] = bytes[i]
  <2>1. CASE offset = 0
    BY <1>4, <2>1, EmptyIsFile
  <2>2. CASE offset > 0
    <3>1. offset \in 0 .. Len(bytes) /\ front = SubSeq(bytes, 1, offset)
      BY <1>4, <2>2 DEF CrcOf
    <3> QED BY <3>1, FirstPart
  <2> QED BY <2>1, <2>2
<1>6. front \o cells = SubSeq(bytes, 1, end)
  <2>1. PartAt(front, bytes, 0)
    BY <1>5 DEF PartAt
  <2>2. PartAt(cells, bytes, offset)
    BY <1>1 DEF PartAt
  <2> QED BY <1>1, <1>2, <1>3, <1>5, <2>1, <2>2, Joined
<1> QED BY <1>3, <1>4, <1>6 DEF CrcOf, Onward

\* AdvanceCrc, field by field.
LEMMA AdvancedCrc ==
  ASSUME NEW e, Shape(e), NEW s \in Streams, NEW offset, NEW cells,
         NEW g, g = AdvanceCrc(e, s, offset, cells)
  PROVE  /\ DOMAIN g = Fields /\ DOMAIN g.crc = Streams /\ DOMAIN g.crcEnd = Streams
         /\ g.key = e.key /\ g.born = e.born /\ g.file = e.file /\ g.size = e.size
         /\ g.headerCheckNeeded = e.headerCheckNeeded /\ g.stream0 = e.stream0
         /\ g.written = e.written /\ g.doomed = e.doomed /\ g.failed = e.failed
         /\ \A t \in Streams : t # s => g.crc[t] = e.crc[t] /\ g.crcEnd[t] = e.crcEnd[t]
         /\ IF e.crcEnd[s] = offset
            THEN g.crc[s] = Onward(e.crc[s], offset, cells) /\ g.crcEnd[s] = offset + Len(cells)
            ELSE g.crc[s] = e.crc[s] /\ g.crcEnd[s] = e.crcEnd[s]
<1>1. CASE e.crcEnd[s] = offset
  <2>1. PICK x : x = Onward(e.crc[s], offset, cells)
    OBVIOUS
  <2>2. g = [e EXCEPT !.crc[s] = x, !.crcEnd[s] = offset + Len(cells)]
    BY <1>1, <2>1 DEF AdvanceCrc, IncrementalCrc32, Onward
  <2> QED BY <1>1, <2>1, <2>2 DEF Shape, Fields
<1>2. CASE e.crcEnd[s] # offset
  BY <1>2 DEF AdvanceCrc, Shape
<1> QED BY <1>1, <1>2

-------------------------------------------------------------------------------
(* A write that succeeds *)

\* The checksum of the stream before the write goes on.
Restarted(end, offset) == IF offset < end THEN 0 ELSE end

\* AfterWrite, field by field.
AfterWriteIs(g, e, s, offset, data, truncate) ==
  LET end == offset + Len(data)
      q == Restarted(e.crcEnd[s], offset)
  IN /\ Shape(g) /\ g.file = After(e.file, WriteCalls(e, s, offset, data, truncate))
     /\ g.key = e.key /\ g.born = e.born /\ g.stream0 = e.stream0
     /\ g.doomed = e.doomed /\ g.failed = e.failed
     /\ g.headerCheckNeeded = e.headerCheckNeeded
     /\ g.size[s] = IF truncate \/ end > e.size[s] THEN end ELSE e.size[s]
     /\ g.written = [t \in Streams |-> e.written[t] \/ t \in Displaced(s)]
     /\ \A t \in Streams : t # s => /\ g.size[t] = e.size[t]
                                    /\ g.crc[t] = e.crc[t] /\ g.crcEnd[t] = e.crcEnd[t]
     /\ IF data # <<>> /\ q = offset
        THEN g.crc[s] = Onward(e.crc[s], offset, data) /\ g.crcEnd[s] = end
        ELSE g.crc[s] = e.crc[s] /\ g.crcEnd[s] = q

LEMMA AfterWriteStreams ==
  ASSUME NEW e, Shape(e), DOMAIN e.written = Streams,
         NEW s \in {1, 2}, NEW offset \in Nat, NEW data, Len(data) \in Nat,
         NEW truncate \in BOOLEAN, NEW g, g = AfterWrite(e, s, offset, data, truncate)
  PROVE  AfterWriteIs(g, e, s, offset, data, truncate)
<1>a. PICK end, q : end = offset + Len(data) /\ q = Restarted(e.crcEnd[s], offset)
  OBVIOUS
<1>b. /\ Shape(g) /\ g.file = After(e.file, WriteCalls(e, s, offset, data, truncate))
      /\ g.key = e.key /\ g.born = e.born /\ g.stream0 = e.stream0
      /\ g.doomed = e.doomed /\ g.failed = e.failed
  BY AfterWriteFields
<1> DEFINE r == [e EXCEPT !.crcEnd[s] = IF offset < @ THEN 0 ELSE @]
<1>0. s \in Streams
  BY DEF Streams
<1>1. PICK x : x = r
  OBVIOUS
<1>2. /\ Shape(x) /\ x.size = e.size /\ x.headerCheckNeeded = e.headerCheckNeeded
      /\ x.written = e.written /\ x.crc = e.crc /\ x.crcEnd[s] = q
      /\ \A t \in Streams : t # s => x.crcEnd[t] = e.crcEnd[t]
  BY <1>0, <1>1, <1>a DEF Shape, Fields, Restarted
<1>3. PICK h : h = IF data = <<>> THEN x ELSE AdvanceCrc(x, s, offset, data)
  OBVIOUS
<1>4. /\ DOMAIN h = Fields /\ h.size = e.size /\ h.headerCheckNeeded = e.headerCheckNeeded
      /\ h.written = e.written
      /\ \A t \in Streams : t # s => h.crc[t] = e.crc[t] /\ h.crcEnd[t] = e.crcEnd[t]
      /\ IF data # <<>> /\ q = offset
         THEN h.crc[s] = Onward(e.crc[s], offset, data) /\ h.crcEnd[s] = end
         ELSE h.crc[s] = e.crc[s] /\ h.crcEnd[s] = q
  <2>1. CASE data = <<>>
    BY <1>2, <1>3, <2>1 DEF Shape
  <2>2. CASE data # <<>>
    <3>1. h = AdvanceCrc(x, s, offset, data)
      BY <1>3, <2>2
    <3>2. /\ DOMAIN h = Fields /\ h.size = x.size /\ h.headerCheckNeeded = x.headerCheckNeeded
          /\ h.written = x.written
          /\ \A t \in Streams : t # s => h.crc[t] = x.crc[t] /\ h.crcEnd[t] = x.crcEnd[t]
          /\ IF x.crcEnd[s] = offset
             THEN h.crc[s] = Onward(x.crc[s], offset, data) /\ h.crcEnd[s] = offset + Len(data)
             ELSE h.crc[s] = x.crc[s] /\ h.crcEnd[s] = x.crcEnd[s]
      BY <1>0, <1>2, <3>1, AdvancedCrc
    <3> QED BY <1>2, <1>a, <2>2, <3>2
  <2> QED BY <2>1, <2>2
<1>5. PICK calls : calls = WriteCalls(e, s, offset, data, truncate)
  OBVIOUS
<1>6. g = [h EXCEPT !.file = After(@, calls),
                    !.size[s] = IF truncate \/ end > @ THEN end ELSE @,
                    !.written = [t \in Streams |-> @[t] \/ t \in Displaced(s)]]
  BY <1>1, <1>3, <1>5, <1>a DEF AfterWrite
<1>7. /\ g.headerCheckNeeded = h.headerCheckNeeded /\ g.crc = h.crc /\ g.crcEnd = h.crcEnd
      /\ g.size = [h.size EXCEPT ![s] = IF truncate \/ end > @ THEN end ELSE @]
      /\ g.written = [t \in Streams |-> h.written[t] \/ t \in Displaced(s)]
  BY <1>4, <1>6 DEF Fields
<1>8. /\ g.size[s] = IF truncate \/ end > e.size[s] THEN end ELSE e.size[s]
      /\ \A t \in Streams : t # s => g.size[t] = e.size[t]
  BY <1>0, <1>4, <1>7 DEF Shape
<1> QED BY <1>4, <1>7, <1>8, <1>a, <1>b DEF AfterWriteIs

LEMMA CrcWritten ==
  ASSUME NEW bytes, IsFile(bytes), NEW data, IsFile(data), NEW offset \in Nat, NEW truncate,
         NEW w, IsWritten(w, bytes, offset, data, truncate),
         NEW crc, NEW p, CrcOf(crc, p, bytes), NEW q, q = Restarted(p, offset),
         NEW crc2, NEW q2,
         IF data # <<>> /\ q = offset
         THEN crc2 = Onward(crc, offset, data) /\ q2 = offset + Len(data)
         ELSE crc2 = crc /\ q2 = q
  PROVE  CrcOf(crc2, q2, w)
<1>1. p \in Nat /\ Len(bytes) \in Nat /\ p \in 0 .. Len(bytes)
  BY FileFacts DEF CrcOf
<1>2. q \in Nat /\ q <= offset /\ (q = 0 \/ q = p)
  BY <1>1 DEF Restarted
<1>3. CrcOf(crc, q, bytes)
  BY <1>1, <1>2 DEF CrcOf
<1>4. CASE data # <<>> /\ q = offset
  <2>1. offset > 0 => CrcOf(crc, offset, bytes)
    BY <1>3, <1>4
  <2>2. CrcOf(Onward(crc, offset, data), offset + Len(data), w)
    BY <2>1, CrcExtended
  <2> QED BY <1>4, <2>2
<1>5. CASE ~ (data # <<>> /\ q = offset)
  <2>1. CrcOf(crc, q, w)
    BY <1>2, <1>3, CrcKept
  <2> QED BY <1>5, <2>1
<1> QED BY <1>4, <1>5

\* A stream 0 or a record that was lawful stays so.
MoreLaw(law, more) == \A t \in Streams : law[t] \subseteq more[t]

LEMMA MoreIsSound ==
  ASSUME NEW law, NEW more, MoreLaw(law, more), NEW files, SoundFiles(files, law)
  PROVE  SoundFiles(files, more)
<1>1. \A t \in {0, 1, 2} : law[t] \subseteq more[t]
  BY DEF MoreLaw, Streams
<1>2. \A i \in {0, 1} : \A c : SoundEof(c, i, law) => SoundEof(c, i, more)
  <2> SUFFICES ASSUME NEW i \in {0, 1}, NEW c, SoundEof(c, i, law)
               PROVE  SoundEof(c, i, more)
    OBVIOUS
  <2>1. i + 1 \in {1, 2}
    OBVIOUS
  <2> QED BY <1>1, <2>1 DEF SoundEof
<1> QED BY <1>2 DEF SoundFiles, Sound

LEMMA FirstFileIsThere ==
  ASSUME Distinct, NEW e, FilesFull(e.file, e.key, e.born)
  PROVE  /\ IsFile(e.file[0]) /\ ~ Omitted(e, 0) /\ (e.file[1] # Missing => IsFile(e.file[1]))
         /\ e.file = [j \in FileIndices |-> e.file[j]]
BY DEF FilesFull, Full, OwnCells, Distinct, Omitted

LEMMA ToWriteFacts ==
  ASSUME Distinct, NEW e, FilesFull(e.file, e.key, e.born), NEW c, StreamsHeld(e, c),
         IsFile(c[2]), NEW s \in {1, 2}, NEW i, i = GetFileIndexFromStreamIndex(s),
         NEW f, f = FileToWrite(e, i)
  PROVE  /\ IsFile(f) /\ Holds(f, 1, c[s])
         /\ Omitted(e, i) => i = 1 /\ s = 2 /\ NoEofs(f) /\ Len(f) = 1
         /\ ~ Omitted(e, i) => f = e.file[i]
<1>1. i = IF s = 2 THEN 1 ELSE 0
  BY DEF GetFileIndexFromStreamIndex
<1>2. CASE Omitted(e, i)
  <2>1. i = 1 /\ s = 2 /\ c[2] = <<>> /\ Len(c[2]) = 0
    BY <1>1, <1>2, FirstFileIsThere DEF Omitted, StreamsHeld
  <2>2. PICK h : h = Header(e.key, e.born)
    OBVIOUS
  <2>3. f = <<h>> /\ h.kind = "header"
    BY <1>2, <2>2 DEF FileToWrite, Header
  <2>4. IsFile(f) /\ Len(f) = 1 /\ f[1] = h
    BY <2>3, SingleIsFile
  <2>5. NoEofs(f)
    BY <2>3, <2>4 DEF NoEofs, IsEof
  <2>6. Holds(f, 1, c[2])
    BY <2>1, <2>4 DEF Holds
  <2> QED BY <1>2, <2>1, <2>4, <2>5, <2>6
<1>3. CASE ~ Omitted(e, i)
  <2>1. f = e.file[i]
    BY <1>3 DEF FileToWrite
  <2> QED BY <1>1, <1>3, <2>1, FirstFileIsThere DEF Omitted, StreamsHeld
<1> QED BY <1>2, <1>3

LEMMA NoneIsFewer ==
  ASSUME NEW g, NoEofs(g), NEW f
  PROVE  FewerEofs(g, f)
BY DEF NoEofs, FewerEofs

\* The records of `files' are among those of another state of the same files.
KeepsRecords(files, old) ==
  /\ FewerEofs(files[0], old[0])
  /\ files[1] # Missing => \/ NoEofs(files[1])
                           \/ old[1] # Missing /\ FewerEofs(files[1], old[1])

LEMMA KeptIsSound ==
  ASSUME NEW files, NEW old, KeepsRecords(files, old), NEW law, SoundFiles(old, law)
  PROVE  /\ SoundFiles(files, law)
         /\ TailUnique(old[0]) => TailUnique(files[0])
         /\ \A n : TailBehind(old[0], n) => TailBehind(files[0], n)
<1>1. Sound(files[0], 0, law)
  BY FewerIsSound DEF KeepsRecords, SoundFiles
<1>2. ASSUME files[1] # Missing
      PROVE  Sound(files[1], 1, law)
  <2>1. CASE NoEofs(files[1])
    BY <2>1 DEF Sound, NoEofs
  <2>2. CASE old[1] # Missing /\ FewerEofs(files[1], old[1])
    BY <2>2, FewerIsSound DEF SoundFiles
  <2> QED BY <1>2, <2>1, <2>2 DEF KeepsRecords
<1>3. FewerEofs(files[0], old[0])
  BY DEF KeepsRecords
<1>4. /\ TailUnique(old[0]) => TailUnique(files[0])
      /\ \A n : TailBehind(old[0], n) => TailBehind(files[0], n)
  BY <1>3, FewerIsSound
<1> QED BY <1>1, <1>2, <1>4 DEF SoundFiles

\* One file changed.
LEMMA OneFileKeeps ==
  ASSUME Distinct, NEW e, FilesFull(e.file, e.key, e.born), NEW i \in FileIndices,
         NEW v, IsFile(v), NEW f, f = FileToWrite(e, i), FewerEofs(v, f),
         Omitted(e, i) => NoEofs(f), NEW t, t = [e.file EXCEPT ![i] = v]
  PROVE  KeepsRecords(t, e.file)
<1>0. e.file = [j \in FileIndices |-> e.file[j]] /\ 0 \in FileIndices /\ 1 \in FileIndices
  <2>1. e.file = [j \in FileIndices |-> e.file[j]]
    BY FirstFileIsThere
  <2> QED BY <2>1 DEF FileIndices
<1>1. t[i] = v /\ \A j \in FileIndices : j # i => t[j] = e.file[j]
  BY <1>0
<1>2. i = 0 \/ i = 1
  BY DEF FileIndices
<1>3. FewerEofs(e.file[0], e.file[0]) /\ FewerEofs(e.file[1], e.file[1])
  BY FewerSame
<1>4. CASE Omitted(e, i)
  <2>1. i = 1
    BY <1>2, <1>4, FirstFileIsThere
  <2>2. NoEofs(v)
    BY <1>4 DEF NoEofs, FewerEofs
  <2> QED BY <1>0, <1>1, <1>3, <2>1, <2>2 DEF KeepsRecords
<1>5. CASE ~ Omitted(e, i)
  <2>1. f = e.file[i] /\ e.file[i] # Missing
    BY <1>5 DEF FileToWrite, Omitted
  <2>2. CASE i = 0
    BY <1>0, <1>1, <1>3, <2>1, <2>2 DEF KeepsRecords
  <2>3. CASE i = 1
    BY <1>0, <1>1, <1>3, <2>1, <2>3 DEF KeepsRecords
  <2> QED BY <1>2, <2>2, <2>3
<1> QED BY <1>4, <1>5

\* What a write makes of the file of its stream.
WrittenTo(z, e, i, n, end, w) ==
  /\ IsFile(z) /\ Holds(z, 1, w)
  /\ KeepsRecords([e.file EXCEPT ![i] = z], e.file)
  /\ end > n => \A j \in 1 .. Len(z) : IsEof(z[j]) => j <= n + 1
  /\ i = 1 /\ Len(FileToWrite(e, i)) <= n + 2 => Len(z) <= Len(w) + 2

WriteLeaves(e, c, s, offset, data, truncate) ==
  LET i == GetFileIndexFromStreamIndex(s)
      end == offset + Len(data)
      w == Written(c[s], offset, data, truncate)
      calls == WriteCalls(e, s, offset, data, truncate)
  IN /\ \E z : /\ After(e.file, calls) = [e.file EXCEPT ![i] = z]
               /\ WrittenTo(z, e, i, e.size[s], end, w)
     /\ \A t \in TornIn(e.file, calls) : KeepsRecords(t, e.file)

LEMMA WriteFile ==
  ASSUME Distinct, NEW e, Shape(e), FilesFull(e.file, e.key, e.born),
         NEW c, StreamsHeld(e, c), IsFile(c[1]), IsFile(c[2]),
         NEW s \in {1, 2}, NEW offset \in Nat, NEW data, IsFile(data), NoEofs(data),
         NEW truncate \in BOOLEAN, e.size[s] = Len(c[s])
  PROVE  WriteLeaves(e, c, s, offset, data, truncate)
<1>a. PICK i, n, end, w, calls :
        /\ i = GetFileIndexFromStreamIndex(s) /\ n = e.size[s] /\ end = offset + Len(data)
        /\ w = Written(c[s], offset, data, truncate)
        /\ calls = WriteCalls(e, s, offset, data, truncate)
  OBVIOUS
<1>b. n = Len(c[s])
  BY <1>a
<1>c. SUFFICES
        /\ \E z : /\ After(e.file, calls) = [e.file EXCEPT ![i] = z]
                  /\ WrittenTo(z, e, i, n, end, w)
        /\ \A t \in TornIn(e.file, calls) : KeepsRecords(t, e.file)
  BY <1>a DEF WriteLeaves
<1> USE <1>a, <1>b
<1>1. PICK length, f : /\ length = IF s = 1 THEN end + e.size[0] + 3 ELSE end + 1
                       /\ f = FileToWrite(e, i)
  OBVIOUS
<1>2. PICK x : x = CutFirst(f, n, end)
  OBVIOUS
<1>3. PICK y : y = Put(x, offset, data)
  OBVIOUS
<1>4. PICK z : z = CutLast(y, n, end, data, truncate, length)
  OBVIOUS
<1>5. /\ IsFile(f) /\ Holds(f, 1, c[s])
      /\ Omitted(e, i) => i = 1 /\ s = 2 /\ NoEofs(f) /\ Len(f) = 1
      /\ ~ Omitted(e, i) => f = e.file[i]
  BY <1>1, ToWriteFacts
<1>6. /\ Len(data) \in Nat /\ end \in Nat /\ i \in FileIndices /\ e.size[0] \in Nat
      /\ length \in Nat /\ length >= end + 1 /\ (i = 1 => length = end + 1)
  <2>1. i \in FileIndices /\ (i = 1 => s # 1)
    BY DEF GetFileIndexFromStreamIndex, FileIndices
  <2>2. Len(data) \in Nat /\ end \in Nat
    BY FileFacts
  <2>3. e.size[0] \in Nat
    BY DEF Shape, Streams
  <2>4. PICK m : m = e.size[0]
    OBVIOUS
  <2>5. m \in Nat /\ length = IF s = 1 THEN end + m + 3 ELSE end + 1
    BY <1>1, <2>3, <2>4
  <2>6. length \in Nat /\ length >= end + 1 /\ (s # 1 => length = end + 1)
    BY ONLY <2>2, <2>5
  <2> QED BY <2>1, <2>2, <2>3, <2>6
<1>7. PICK bytes : bytes = c[s] /\ IsFile(bytes) /\ n = Len(bytes) /\ Holds(f, 1, bytes)
                   /\ w = Written(bytes, offset, data, truncate)
  BY <1>5
<1>8. /\ IsFile(x) /\ IsFile(y) /\ IsFile(z)
      /\ FewerEofs(x, f) /\ FewerEofs(y, x) /\ FewerEofs(z, y)
      /\ end > n => Len(x) = n + 1
      /\ Holds(z, 1, w)
      /\ length = end + 1 /\ Len(f) <= n + 2 => Len(z) <= Len(w) + 2
  <2>1. length >= offset + Len(data) + 1 /\ length \in Nat /\ IsFile(f)
    BY <1>5, <1>6
  <2>2. WriteSteps(f, bytes, offset, data, truncate, length)
    BY <1>7, <2>1, WrittenFile
  <2> QED BY <1>2, <1>3, <1>4, <1>7, <2>2 DEF WriteSteps
<1>9. /\ After(e.file, calls) = [e.file EXCEPT ![i] = z]
      /\ \A t \in TornIn(e.file, calls) :
           \/ t = e.file
           \/ Omitted(e, i) /\ t = [e.file EXCEPT ![i] = <<>>]
           \/ t = [e.file EXCEPT ![i] = f]
           \/ t = [e.file EXCEPT ![i] = y]
           \/ \E m \in 0 .. Len(data) - 1 :
                t = [e.file EXCEPT ![i] = WriteAt(x, offset + 1, SubSeq(data, 1, m))]
  <2>1. WriteStatesAre(e, s, offset, data, truncate)
    BY WriteStates
  <2>2. f = FileToWrite(e, i) /\ x = CutFirst(f, e.size[s], end)
    BY <1>1, <1>2
  <2>3. z = CutLast(y, e.size[s], end, data, truncate,
                    IF s = 1 THEN end + e.size[0] + 3 ELSE end + 1)
    BY <1>1, <1>4
  <2>4. After(e.file, calls) = [e.file EXCEPT ![i] = z]
    BY <1>3, <2>1, <2>2, <2>3 DEF WriteStatesAre
  <2>5. \A t \in TornIn(e.file, calls) : TornWrite(t, e, i, f, x, y, offset, data)
    BY <1>3, <2>1, <2>2 DEF WriteStatesAre
  <2> QED BY <2>4, <2>5 DEF TornWrite
<1>10. FewerEofs(y, f) /\ FewerEofs(z, x) /\ FewerEofs(z, f) /\ FewerEofs(f, f)
  BY <1>8, FewerTrans, FewerSame
<1>11. ASSUME NEW v, IsFile(v), FewerEofs(v, f)
       PROVE  KeepsRecords([e.file EXCEPT ![i] = v], e.file)
  BY <1>1, <1>5, <1>6, <1>11, OneFileKeeps
<1>12. WrittenTo(z, e, i, n, end, w)
  <2>1. end > n => \A j \in 1 .. Len(z) : IsEof(z[j]) => j <= n + 1
    BY <1>8, <1>10 DEF FewerEofs
  <2>2. KeepsRecords([e.file EXCEPT ![i] = z], e.file)
    BY <1>8, <1>10, <1>11
  <2> QED BY <1>1, <1>6, <1>8, <2>1, <2>2 DEF WrittenTo
<1>13. ASSUME NEW t \in TornIn(e.file, calls)
       PROVE  KeepsRecords(t, e.file)
  <2>1. CASE t = e.file
    <3>1. FewerEofs(t[0], t[0]) /\ FewerEofs(t[1], t[1])
      BY FewerSame
    <3> QED BY <2>1, <3>1 DEF KeepsRecords
  <2>2. CASE t = [e.file EXCEPT ![i] = <<>>]
    <3>1. IsFile(<<>>) /\ FewerEofs(<<>>, f)
      BY EmptyIsFile DEF FewerEofs
    <3> QED BY <1>11, <2>2, <3>1
  <2>3. CASE t = [e.file EXCEPT ![i] = f]
    BY <1>5, <1>10, <1>11, <2>3
  <2>4. CASE t = [e.file EXCEPT ![i] = y]
    BY <1>8, <1>10, <1>11, <2>4
  <2>5. ASSUME NEW m \in 0 .. Len(data) - 1,
               t = [e.file EXCEPT ![i] = WriteAt(x, offset + 1, SubSeq(data, 1, m))]
        PROVE  KeepsRecords(t, e.file)
    <3>1. PICK part, o, v : part = SubSeq(data, 1, m) /\ o = offset + 1 /\ v = WriteAt(x, o, part)
      OBVIOUS
    <3>2. /\ m \in 0 .. Len(data) /\ o \in Nat
      <4>1. Len(data) \in Nat
        BY <1>6
      <4> HIDE <1>a, <1>b
      <4> QED BY <3>1, <4>1
    <3>3. IsFile(part) /\ Len(part) = m /\ \A j \in 1 .. m : part[j] = data[j]
      BY <3>1, <3>2, FirstPart
    <3>4. NoEofs(part)
      <4>1. \A j \in 1 .. m : j \in 1 .. Len(data)
        BY <3>2, <1>6
      <4> QED BY <3>3, <4>1 DEF NoEofs
    <3>5. FewerEofs(v, x)
      BY <1>8, <3>1, <3>2, <3>3, <3>4, FewerWriteAt
    <3>6. IsFile(v)
      <4>1. IsPut(v, x, o, part)
        BY <1>8, <3>1, <3>2, <3>3, PutIs
      <4> QED BY <4>1 DEF IsPut
    <3>7. FewerEofs(v, f)
      BY <1>8, <3>5, FewerTrans
    <3> QED BY <1>11, <2>5, <3>1, <3>6, <3>7
  <2> QED BY <1>9, <2>1, <2>2, <2>3, <2>4, <2>5
<1> QED BY <1>9, <1>12, <1>13

\* A write that succeeds leaves the entry in order.
WriteIsFine(e, c, law, dmg, s, offset, data, truncate) ==
  LET w == Written(c[s], offset, data, truncate)
      new == [c EXCEPT ![s] = w]
      more == [law EXCEPT ![s] = @ \cup {w}]
      g == AfterWrite(e, s, offset, data, truncate)
      h == [g EXCEPT !.headerCheckNeeded = @ /\ GetFileIndexFromStreamIndex(s) = 0]
  IN /\ HistoryOK(new, more)
     /\ \A t \in Streams : h.size[t] = Len(new[t])
     /\ ReadyOK(h, new, more, dmg)

LEMMA WrittenReady ==
  ASSUME Distinct, NEW e, Shape(e), FilesFull(e.file, e.key, e.born),
         NEW c, NEW law, HistoryOK(c, law), NEW dmg \in BOOLEAN, ReadyOK(e, c, law, dmg),
         \A t \in Streams : e.size[t] = Len(c[t]),
         NEW s \in {1, 2}, NEW offset \in Nat, NEW data, AllBytes(data), NEW truncate \in BOOLEAN
  PROVE  WriteIsFine(e, c, law, dmg, s, offset, data, truncate)
<1>1. PICK i, n, end, w, g, calls :
        /\ i = GetFileIndexFromStreamIndex(s) /\ n = e.size[s] /\ end = offset + Len(data)
        /\ w = Written(c[s], offset, data, truncate)
        /\ g = AfterWrite(e, s, offset, data, truncate)
        /\ calls = WriteCalls(e, s, offset, data, truncate)
  OBVIOUS
<1>2. PICK new, more, h : /\ new = [c EXCEPT ![s] = w] /\ more = [law EXCEPT ![s] = @ \cup {w}]
                          /\ h = [g EXCEPT !.headerCheckNeeded = @ /\ i = 0]
  OBVIOUS
<1>3. SUFFICES /\ HistoryOK(new, more)
               /\ \A t \in Streams : h.size[t] = Len(new[t])
               /\ ReadyOK(h, new, more, dmg)
  BY <1>1, <1>2 DEF WriteIsFine
<1>4. /\ IsFile(data) /\ NoEofs(data) /\ Len(data) \in Nat /\ end \in Nat
      /\ s \in Streams /\ s # 0 /\ i \in FileIndices /\ i = IF s = 2 THEN 1 ELSE 0
  BY <1>1, FileFacts, BytesAreNoEofs
     DEF AllBytes, Streams, FileIndices, GetFileIndexFromStreamIndex
<1>5. /\ c = [t \in Streams |-> c[t]] /\ law = [t \in Streams |-> law[t]]
      /\ \A t \in Streams : IsFile(c[t])
      /\ IsFile(c[1]) /\ IsFile(c[2]) /\ IsFile(c[s])
      /\ n = Len(c[s]) /\ n \in Nat
  BY <1>1, <1>4, FileFacts DEF HistoryOK, Streams
<1>6. /\ IsWritten(w, c[s], offset, data, truncate)
      /\ IsFile(w) /\ Len(w) = IF truncate \/ end > n THEN end ELSE n
  <2>1. IsWritten(w, c[s], offset, data, truncate)
    BY <1>1, <1>4, <1>5, WrittenFacts
  <2> QED BY <1>1, <1>5, <2>1 DEF IsWritten
<1>7. /\ new[s] = w /\ more[s] = law[s] \cup {w}
      /\ \A t \in Streams : t # s => new[t] = c[t] /\ more[t] = law[t]
      /\ new = [t \in Streams |-> new[t]] /\ more = [t \in Streams |-> more[t]]
  BY <1>2, <1>4, <1>5
<1>8. HistoryOK(new, more)
  <2>1. \A t \in Streams : IsFile(new[t])
    BY <1>5, <1>6, <1>7
  <2>2. more[0] = law[0]
    BY <1>4, <1>7 DEF Streams
  <2> QED BY <1>7, <2>1, <2>2 DEF HistoryOK
<1>9. MoreLaw(law, more)
  BY <1>7 DEF MoreLaw
<1>10. /\ SoundFiles(e.file, law) /\ TailUnique(e.file[0]) /\ TailBehind(e.file[0], e.size[1])
       /\ StreamsHeld(e, c) /\ CrcsOK(e, c)
       /\ DOMAIN e.written = Streams /\ (\A t \in Streams : e.written[t] \in BOOLEAN)
       /\ e.headerCheckNeeded \in BOOLEAN /\ (e.headerCheckNeeded => e.file[1] # Missing)
       /\ e.written[1] => e.written[0]
       /\ \A t \in {1, 2} : e.written[t] => c[t] \in law[t]
       /\ ~ dmg => UnwrittenExact(e, c)
  BY DEF ReadyOK
<1>11. PICK z : After(e.file, calls) = [e.file EXCEPT ![i] = z] /\ WrittenTo(z, e, i, n, end, w)
  <2>1. WriteLeaves(e, c, s, offset, data, truncate)
    BY <1>1, <1>4, <1>5, <1>10, WriteFile
  <2> QED BY <1>1, <2>1 DEF WriteLeaves
<1>12. AfterWriteIs(g, e, s, offset, data, truncate)
  BY <1>1, <1>4, <1>10, AfterWriteStreams
<1>13. /\ Shape(g) /\ g.file = [e.file EXCEPT ![i] = z]
       /\ g.key = e.key /\ g.born = e.born /\ g.stream0 = e.stream0
  BY <1>1, <1>11, <1>12 DEF AfterWriteIs
<1>14. PICK q : /\ q = Restarted(e.crcEnd[s], offset)
                /\ g.headerCheckNeeded = e.headerCheckNeeded
                /\ g.size[s] = IF truncate \/ end > n THEN end ELSE n
                /\ g.written = [t \in Streams |-> e.written[t] \/ t \in Displaced(s)]
                /\ \A t \in Streams : t # s =>
                      /\ g.size[t] = e.size[t]
                      /\ g.crc[t] = e.crc[t] /\ g.crcEnd[t] = e.crcEnd[t]
                /\ IF data # <<>> /\ q = offset
                   THEN g.crc[s] = Onward(e.crc[s], offset, data) /\ g.crcEnd[s] = end
                   ELSE g.crc[s] = e.crc[s] /\ g.crcEnd[s] = q
  BY <1>1, <1>12 DEF AfterWriteIs
<1>15. /\ h.headerCheckNeeded = (e.headerCheckNeeded /\ i = 0)
       /\ h.file = g.file /\ h.size = g.size /\ h.written = g.written
       /\ h.crc = g.crc /\ h.crcEnd = g.crcEnd /\ h.key = e.key
  BY <1>2, <1>13, <1>14 DEF Shape, Fields
<1>16. \A t \in Streams : h.size[t] = Len(new[t])
  <2> SUFFICES ASSUME NEW t \in Streams
               PROVE  h.size[t] = Len(new[t])
    OBVIOUS
  <2>1. CASE t = s
    BY <1>6, <1>7, <1>14, <1>15, <2>1
  <2>2. CASE t # s
    BY <1>7, <1>14, <1>15, <2>2
  <2> QED BY <2>1, <2>2
<1>17. /\ h.file[i] = z /\ \A j \in FileIndices : j # i => h.file[j] = e.file[j]
  <2>1. e.file = [j \in FileIndices |-> e.file[j]]
    BY FirstFileIsThere
  <2> QED BY <1>4, <1>13, <1>15, <2>1
<1>18. /\ IsFile(z) /\ Holds(z, 1, w) /\ KeepsRecords(h.file, e.file)
       /\ end > n => \A j \in 1 .. Len(z) : IsEof(z[j]) => j <= n + 1
       /\ i = 1 /\ Len(FileToWrite(e, i)) <= n + 2 => Len(z) <= Len(w) + 2
  BY <1>11, <1>13, <1>15 DEF WrittenTo
<1>19. SoundFiles(h.file, more) /\ TailUnique(h.file[0]) /\ TailBehind(h.file[0], e.size[1])
  <2>1. SoundFiles(h.file, law) /\ TailUnique(h.file[0]) /\ TailBehind(h.file[0], e.size[1])
    BY <1>10, <1>18, KeptIsSound
  <2> QED BY <1>9, <2>1, MoreIsSound
<1>20. TailBehind(h.file[0], h.size[1])
  <2>1. CASE s = 1
    <3>1. i = 0 /\ h.file[0] = z /\ n = e.size[1]
      BY <1>1, <1>4, <1>17, <2>1
    <3>2. CASE end > n
      <4>1. \A j \in 1 .. Len(z) : TailEof(z[j]) => j <= n + 1
        BY <1>18, <3>2 DEF TailEof
      <4>2. \A j \in 1 .. Len(z) : TailEof(z[j]) => j >= n + 3
        BY <1>19, <3>1 DEF TailBehind
      <4>3. \A j \in 1 .. Len(z) : ~ TailEof(z[j])
        BY <1>5, <4>1, <4>2
      <4> QED BY <3>1, <4>3 DEF TailBehind
    <3>3. CASE ~ (end > n)
      <4>1. PICK m : m = h.size[1]
        OBVIOUS
      <4>2. m \in Nat /\ m <= n
        BY <1>4, <1>5, <1>14, <1>15, <2>1, <3>3, <4>1
      <4> QED BY <1>5, <1>19, <3>1, <4>1, <4>2 DEF TailBehind
    <3> QED BY <3>2, <3>3
  <2>2. CASE s = 2
    <3>1. h.size[1] = e.size[1]
      BY <1>14, <1>15, <2>2 DEF Streams
    <3> QED BY <1>19, <3>1
  <2> QED BY <2>1, <2>2
<1>21. StreamsHeld(h, new)
  <2>1. z # Missing
    BY <1>18 DEF Distinct
  <2>2. CASE s = 1
    <3>1. h.file[0] = z /\ h.file[1] = e.file[1] /\ new[1] = w /\ new[2] = c[2]
      BY <1>4, <1>7, <1>17, <2>2 DEF FileIndices, Streams
    <3> QED BY <1>10, <1>18, <3>1 DEF StreamsHeld
  <2>3. CASE s = 2
    <3>1. h.file[1] = z /\ h.file[0] = e.file[0] /\ new[2] = w /\ new[1] = c[1]
      BY <1>4, <1>7, <1>17, <2>3 DEF FileIndices, Streams
    <3> QED BY <1>10, <1>18, <2>1, <3>1 DEF StreamsHeld
  <2> QED BY <2>2, <2>3
<1>22. CrcsOK(h, new)
  <2> SUFFICES ASSUME NEW t \in {1, 2}
               PROVE  CrcOf(h.crc[t], h.crcEnd[t], new[t])
    BY DEF CrcsOK
  <2>1. CrcOf(e.crc[t], e.crcEnd[t], c[t]) /\ t \in Streams
    BY <1>10 DEF CrcsOK, Streams
  <2>2. CASE t = s
    <3>1. PICK crc, p, crc2, q2 : /\ crc = e.crc[s] /\ p = e.crcEnd[s]
                                  /\ crc2 = h.crc[s] /\ q2 = h.crcEnd[s]
      OBVIOUS
    <3>2. CrcOf(crc, p, c[s]) /\ q = Restarted(p, offset)
      BY <1>14, <2>1, <2>2, <3>1
    <3>3. IF data # <<>> /\ q = offset
          THEN crc2 = Onward(crc, offset, data) /\ q2 = offset + Len(data)
          ELSE crc2 = crc /\ q2 = q
      BY <1>1, <1>14, <1>15, <3>1
    <3>4. CrcOf(crc2, q2, w)
      BY <1>4, <1>5, <1>6, <3>2, <3>3, CrcWritten
    <3> QED BY <1>7, <2>2, <3>1, <3>4
  <2>3. CASE t # s
    BY <1>7, <1>14, <1>15, <2>1, <2>3
  <2> QED BY <2>2, <2>3
<1>23. /\ DOMAIN h.written = Streams /\ \A t \in Streams : h.written[t] \in BOOLEAN
       /\ \A t \in Streams : h.written[t] = (e.written[t] \/ t \in Displaced(s))
  BY <1>14, <1>15
<1>24. h.headerCheckNeeded \in BOOLEAN /\ (h.headerCheckNeeded => h.file[1] # Missing)
  <2>1. i = 0 => h.file[1] = e.file[1]
    BY <1>17 DEF FileIndices
  <2> QED BY <1>10, <1>15, <2>1
<1>25. h.written[1] => h.written[0]
  <2>1. 1 \in Displaced(s) => 0 \in Displaced(s)
    BY DEF Displaced
  <2> QED BY <1>10, <1>23, <2>1 DEF Streams
<1>26. \A t \in {1, 2} : h.written[t] => new[t] \in more[t]
  <2> SUFFICES ASSUME NEW t \in {1, 2}, h.written[t]
               PROVE  new[t] \in more[t]
    OBVIOUS
  <2>1. CASE t = s
    BY <1>7, <2>1
  <2>2. CASE t # s
    <3>1. t \notin Displaced(s) /\ t \in Streams
      BY <2>2 DEF Displaced, Streams
    <3> QED BY <1>7, <1>10, <1>23, <2>2, <3>1
  <2> QED BY <2>1, <2>2
<1>27. ASSUME ~ dmg
       PROVE  UnwrittenExact(h, new)
  <2>1. UnwrittenExact(e, c)
    BY <1>10, <1>27
  <2>2. CASE s = 1
    <3>1. h.written[0] /\ h.written[1] /\ h.file[1] = e.file[1] /\ h.written[2] = e.written[2]
          /\ new[2] = c[2]
      BY <1>4, <1>7, <1>10, <1>17, <1>23, <2>2 DEF Displaced, Streams, FileIndices
    <3> QED BY <2>1, <3>1 DEF UnwrittenExact
  <2>3. CASE s = 2
    <3>1. /\ h.written[2] /\ h.written[1] = e.written[1] /\ h.written[0] = e.written[0]
          /\ h.file[0] = e.file[0] /\ h.file[1] = z /\ new[1] = c[1] /\ new[0] = c[0]
          /\ new[2] = w
      BY <1>4, <1>7, <1>10, <1>17, <1>23, <2>3 DEF Displaced, Streams, FileIndices
    <3>2. PICK f : f = FileToWrite(e, i)
      OBVIOUS
    <3>3. Len(f) <= n + 2
      <4>1. /\ Omitted(e, i) => Len(f) = 1
            /\ ~ Omitted(e, i) => f = e.file[i]
        BY <1>1, <1>5, <1>10, <3>2, ToWriteFacts
      <4>2. CASE Omitted(e, i)
        <5>1. Len(f) = 1
          BY <4>1, <4>2
        <5>2. n \in Nat
          BY <1>5
        <5> QED BY <5>1, <5>2
      <4>3. CASE ~ Omitted(e, i)
        <5>1. i = 1 /\ f = e.file[1] /\ e.file[1] # Missing /\ n = Len(c[2])
          BY <1>4, <1>5, <2>3, <4>1, <4>3 DEF Omitted
        <5> QED BY <2>1, <5>1 DEF UnwrittenExact
      <4> QED BY <4>2, <4>3
    <3>4. Len(z) <= Len(w) + 2
      BY <1>4, <1>18, <2>3, <3>2, <3>3
    <3> QED BY <1>15, <2>1, <3>1, <3>4 DEF UnwrittenExact
  <2> QED BY <2>2, <2>3
<1>28. ReadyOK(h, new, more, dmg)
  BY <1>19, <1>20, <1>21, <1>22, <1>23, <1>24, <1>25, <1>26, <1>27 DEF ReadyOK
<1> QED BY <1>8, <1>16, <1>28

-------------------------------------------------------------------------------
(* What is left behind *)

LEMMA NoneIsOK ==
  ASSUME NEW c, NEW law
  PROVE  AnswerOK(None, c, law)
BY DEF AnswerOK, None

LEMMA NothingHeld == HistoryOK(NoContent, NoHistory)
<1>1. /\ NoContent = [s \in Streams |-> NoContent[s]] /\ NoHistory = [s \in Streams |-> NoHistory[s]]
      /\ \A s \in Streams : NoContent[s] = <<>> /\ NoHistory[s] = {<<>>}
      /\ 0 \in Streams
  BY DEF NoContent, NoHistory, Streams
<1>2. \A x \in NoHistory[0] : x = <<>>
  BY <1>1
<1>3. AllBytes(<<>>)
  BY EmptyIsFile DEF AllBytes
<1> QED BY <1>1, <1>2, <1>3, EmptyIsFile DEF HistoryOK

LEMMA OpenHolds ==
  ASSUME NEW e, e # Closed, entry' = e, HistoryOK(content', lawful'), damaged' \in BOOLEAN,
         opens' \in Nat, OpenOK(e, content', lawful', damaged', opens'),
         AnswerOK(answer', content', lawful')
  PROVE  StreamsInv'
BY DEF StreamsInv, Holding

LEMMA ClosedHolds ==
  ASSUME entry' = Closed, HistoryOK(content', lawful'), damaged' \in BOOLEAN,
         opens' \in Nat, ClosedOK(disk', content', lawful', damaged', opens'),
         AnswerOK(answer', content', lawful')
  PROVE  StreamsInv'
BY DEF StreamsInv, Holding

LEMMA GoneIsOK ==
  ASSUME Distinct, NEW n
  PROVE  ClosedOK(Gone, NoContent, NoHistory, FALSE, n)
<1>1. Gone[0] = Missing
  BY DEF Gone, FileIndices
<1> QED BY <1>1, EmptyIsFile DEF ClosedOK, Distinct

\* Nothing is left.
LEMMA NothingLeft ==
  ASSUME Distinct, NEW broken, LeavesBehind(Gone, broken), opens' \in Nat
  PROVE  StreamsInv'
<1>1. Gone[0] = Missing
  BY DEF Gone, FileIndices
<1>2. /\ disk' = Gone /\ entry' = Closed /\ answer' = None
      /\ content' = NoContent /\ lawful' = NoHistory /\ damaged' = FALSE
  BY <1>1 DEF LeavesBehind, Forget
<1> QED BY <1>2, NothingHeld, GoneIsOK, NoneIsOK, ClosedHolds

\* Files that were not closed in order.
LEMMA DamagedLeft ==
  ASSUME Distinct, NEW f, NEW k, NEW b, FilesOwned(f, k, b), LeavesBehind(f, TRUE),
         HistoryOK(content, lawful), SoundFiles(f, lawful), TailUnique(f[0]),
         b \in 1 .. opens, opens \in Nat, opens' = opens
  PROVE  StreamsInv'
<1>1. f[0] \notin {Missing, <<>>} /\ f[0][1].born = b
  BY EmptyIsFile DEF FilesOwned, Full, OwnCells, Distinct, Header
<1>2. /\ disk' = f /\ entry' = Closed /\ answer' = None
      /\ content' = content /\ lawful' = lawful /\ damaged' = TRUE
  BY <1>1 DEF LeavesBehind
<1>3. ClosedOK(f, content, lawful, TRUE, opens)
  BY <1>1 DEF ClosedOK
<1> QED BY <1>2, <1>3, NoneIsOK, ClosedHolds

\* The entry after a failure.
LEMMA FailedIsOK ==
  ASSUME NEW e, NEW c, NEW law, NEW dmg, NEW n, OpenOK(e, c, law, dmg, n),
         NEW f, f.failed, f.born = e.born, f.stream0 = e.stream0, f.size = e.size, NEW dmg2
  PROVE  OpenOK(f, c, law, dmg2, n)
BY DEF OpenOK

LEMMA ReleasedIs ==
  ASSUME Distinct, NEW e, NEW d, NamesOK(e, d), e.doomed \in BOOLEAN,
         NEW f, e.file = f, f = [i \in FileIndices |-> f[i]]
  PROVE  Released(d, f) = IF e.doomed THEN Gone ELSE f
<1>1. CASE e.doomed
  BY <1>1 DEF Released, NamesOK, Gone, Distinct
<1>2. CASE ~ e.doomed
  <2>1. \A i \in FileIndices : (IF d[i] = Linked THEN f[i] ELSE d[i]) = f[i]
    BY <1>2 DEF NamesOK, Distinct
  <2>2. Released(d, f) = [i \in FileIndices |-> f[i]]
    BY <2>1 DEF Released
  <2> QED BY <1>2, <2>2
<1> QED BY <1>1, <1>2

-------------------------------------------------------------------------------
(* Write *)

\* The header of a file that is there is that of the entry.
LEMMA HeaderIsRead ==
  ASSUME Distinct, NEW e, FilesFull(e.file, e.key, e.born), NEW i \in FileIndices, ~ Omitted(e, i)
  PROVE  CheckHeaderAndKey(e.file[i], e.key)
<1>1. Full(e.file[i], e.key, e.born)
  BY DEF FilesFull, Omitted, FileIndices
<1>2. PICK f : f = e.file[i]
  OBVIOUS
<1>3. f[1] = Header(e.key, e.born) /\ Len(f) \in Nat /\ Len(f) > 0
  BY <1>1, <1>2, FileFacts DEF Full, OwnCells
<1>4. CellAt(f, 0) = f[1]
  BY <1>3 DEF CellAt
<1> QED BY <1>2, <1>3, <1>4 DEF CheckHeaderAndKey, Header

\* What WriteData leaves when it is cut short.
TornIsOwned(e, d, s, offset, data, truncate) ==
  LET calls == WriteCalls(e, s, offset, data, truncate)
  IN \A n \in DOMAIN calls : \A f \in TornAt(e.file, calls, n) :
       /\ FilesOwned(f, e.key, e.born)
       /\ DoomInternal(LinkedAfter(e, s, d, f), [e EXCEPT !.file = f]) = {Gone}
       /\ Released(LinkedAfter(e, s, d, f), f) = IF e.doomed THEN Gone ELSE f

LEMMA TornWriteOwned ==
  ASSUME AllOrNone, Distinct, NEW e, NEW d, OwnedEntry(e, d), ~ e.failed,
         NEW s \in {1, 2}, NEW offset \in Nat, NEW data, OwnCells(data, e.key),
         NEW truncate \in BOOLEAN, ~ (Omitted(e, GetFileIndexFromStreamIndex(s)) /\ e.doomed)
  PROVE  TornIsOwned(e, d, s, offset, data, truncate)
<1>a. PICK calls : calls = WriteCalls(e, s, offset, data, truncate)
  OBVIOUS
<1>b. SUFFICES ASSUME NEW n \in DOMAIN calls, NEW f \in TornAt(e.file, calls, n)
               PROVE  /\ FilesOwned(f, e.key, e.born)
                      /\ DoomInternal(LinkedAfter(e, s, d, f), [e EXCEPT !.file = f]) = {Gone}
                      /\ Released(LinkedAfter(e, s, d, f), f) = IF e.doomed THEN Gone ELSE f
  BY <1>a DEF TornIsOwned
<1>c. PICK l, h : l = LinkedAfter(e, s, d, f) /\ h = [e EXCEPT !.file = f]
  OBVIOUS
<1>1. PICK i : i = GetFileIndexFromStreamIndex(s)
  OBVIOUS
<1>2. /\ Shape(e) /\ e.key \in Keys /\ NamesOK(e, d) /\ e.doomed \in BOOLEAN
      /\ FilesFull(e.file, e.key, e.born)
  BY DEF OwnedEntry
<1>3. /\ Omitted(e, i) => CreatingCalls(calls, e.key, e.born)
      /\ ~ Omitted(e, i) => PlainCalls(e.file, calls, e.key)
  BY <1>1, <1>2, <1>a, WriteCallsLawful
<1>4. /\ FilesOwned(f, e.key, e.born)
      /\ Omitted(e, i) => f = e.file \/ f[1] # Missing
      /\ ~ Omitted(e, i) => (f[1] = Missing <=> e.file[1] = Missing)
  <2>1. CASE Omitted(e, i)
    BY <1>2, <1>3, <2>1, CreatingTorn
  <2>2. CASE ~ Omitted(e, i)
    BY <1>2, <1>3, <2>2, PlainTorn, FullIsOwned
  <2> QED BY <2>1, <2>2
<1>5. h.file = f /\ h.doomed = e.doomed
  BY <1>2, <1>c DEF Shape, Fields
<1>6. NamesOK(h, l)
  BY <1>1, <1>2, <1>4, <1>5, <1>c, LinkedNames
<1>7. DoomInternal(l, h) = {Gone}
  BY <1>2, <1>5, <1>6, DoomLeavesNothing
<1>8. f = [j \in FileIndices |-> f[j]]
  BY <1>4 DEF FilesOwned
<1>9. Released(l, f) = IF e.doomed THEN Gone ELSE f
  <2>1. h.doomed \in BOOLEAN
    BY <1>2, <1>5
  <2>2. Released(l, f) = IF h.doomed THEN Gone ELSE f
    BY <1>5, <1>6, <1>8, <2>1, ReleasedIs
  <2> QED BY <1>5, <2>2
<1> QED BY <1>4, <1>7, <1>9, <1>c

LEMMA WriteDataHolds ==
  ASSUME AllOrNone, Distinct, OwnedEntry(entry, disk), ~ entry.failed,
         HistoryOK(content, lawful), damaged \in BOOLEAN, opens \in Nat, opens' = opens,
         OpenOK(entry, content, lawful, damaged, opens),
         NEW s \in {1, 2}, NEW offset \in Nat, NEW data, AllBytes(data), OwnCells(data, entry.key),
         NEW truncate \in BOOLEAN, WriteData(s, offset, data, truncate)
  PROVE  StreamsInv'
<1>1. PICK e, d, c, law, dmg, i, calls, g :
        /\ e = entry /\ d = disk /\ c = content /\ law = lawful /\ dmg = damaged
        /\ i = GetFileIndexFromStreamIndex(s)
        /\ calls = WriteCalls(e, s, offset, data, truncate)
        /\ g = AfterWrite(e, s, offset, data, truncate)
  OBVIOUS
<1>2. PICK w, new, more, h :
        /\ w = Written(c[s], offset, data, truncate)
        /\ new = [c EXCEPT ![s] = w] /\ more = [law EXCEPT ![s] = @ \cup {w}]
        /\ h = [g EXCEPT !.headerCheckNeeded = @ /\ i = 0]
  OBVIOUS
<1>3. /\ OwnedEntry(e, d) /\ ~ e.failed /\ Shape(e) /\ e.key \in Keys /\ NamesOK(e, d)
      /\ e.doomed \in BOOLEAN /\ FilesFull(e.file, e.key, e.born)
  BY <1>1 DEF OwnedEntry
<1>4. /\ HistoryOK(c, law) /\ dmg \in BOOLEAN /\ OpenOK(e, c, law, dmg, opens)
      /\ ReadyOK(e, c, law, dmg)
      /\ e.born \in 1 .. opens /\ e.stream0 = c[0] /\ c[0] \in law[0]
      /\ \A t \in Streams : e.size[t] = Len(c[t])
  BY <1>1, <1>3 DEF OpenOK
<1>5. i \in FileIndices /\ s \in Streams /\ s # 0
  BY <1>1 DEF GetFileIndexFromStreamIndex, FileIndices, Streams
<1>6. ~ (i = 1 /\ e.headerCheckNeeded /\ ~ CheckHeaderAndKey(e.file[1], e.key))
  <2> SUFFICES ASSUME i = 1, e.headerCheckNeeded
               PROVE  CheckHeaderAndKey(e.file[1], e.key)
    OBVIOUS
  <2>1. e.file[1] # Missing
    BY <1>4 DEF ReadyOK
  <2> QED BY <1>3, <1>5, <2>1, HeaderIsRead DEF Omitted
<1>7. ~ (Omitted(e, i) /\ ~ e.doomed /\ d[i] # Missing)
  BY <1>3, <1>5 DEF NamesOK, Omitted
<1>8. \/ /\ i = 1 /\ e.headerCheckNeeded
         /\ ~ CheckHeaderAndKey(e.file[1], e.key)
      \/ NameTaken(e, i)
      \/ /\ Omitted(e, i) /\ e.doomed
         /\ entry' = [e EXCEPT !.failed = TRUE]
         /\ answer' = [kind |-> "write", ok |-> FALSE, excused |-> TRUE]
         /\ content' = c /\ lawful' = law /\ UNCHANGED damaged
      \/ /\ entry' = [g EXCEPT !.headerCheckNeeded = @ /\ i = 0]
         /\ answer' = None
         /\ content' = [c EXCEPT ![s] = Written(@, offset, data, truncate)]
         /\ lawful' = [law EXCEPT ![s] =
                          @ \cup {[c EXCEPT ![s] = Written(@, offset, data, truncate)][s]}]
         /\ UNCHANGED damaged
      \/ /\ ~ (Omitted(e, i) /\ e.doomed)
         /\ \E n \in DOMAIN calls : \E f \in TornAt(e.file, calls, n) :
              \/ /\ entry' = [[e EXCEPT !.file = f] EXCEPT !.doomed = TRUE, !.failed = TRUE]
                 /\ answer' = None /\ damaged' = TRUE
                 /\ content' = c /\ lawful' = law
              \/ LeavesBehind(Released(LinkedAfter(e, s, disk, f), f), TRUE)
  BY <1>1, ZenonT(30) DEF WriteData, LinkedAfter
<1>8a. [c EXCEPT ![s] = Written(@, offset, data, truncate)] = new /\ new[s] = w
  BY <1>2, <1>4, <1>5 DEF HistoryOK
<1>9. CASE /\ Omitted(e, i) /\ e.doomed
           /\ entry' = [e EXCEPT !.failed = TRUE]
           /\ answer' = [kind |-> "write", ok |-> FALSE, excused |-> TRUE]
           /\ content' = c /\ lawful' = law /\ UNCHANGED damaged
  <2>0. damaged' = dmg
    BY <1>1, <1>9
  <2>1. PICK f : f = entry'
    OBVIOUS
  <2>2. Shape(f) /\ f.failed /\ f.born = e.born /\ f.stream0 = e.stream0 /\ f.size = e.size
    BY <1>3, <1>9, <2>1 DEF Shape, Fields
  <2>3. OpenOK(f, c, law, dmg, opens)
    BY <1>4, <2>2, FailedIsOK
  <2>4. AnswerOK(answer', c, law)
    BY <1>9 DEF AnswerOK
  <2>5. f # Closed
    BY <2>2, EntryIsNotClosed
  <2> QED BY <1>4, <1>9, <2>0, <2>1, <2>3, <2>4, <2>5, OpenHolds
<1>10. CASE /\ entry' = [g EXCEPT !.headerCheckNeeded = @ /\ i = 0]
            /\ answer' = None
            /\ content' = [c EXCEPT ![s] = Written(@, offset, data, truncate)]
            /\ lawful' = [law EXCEPT ![s] =
                             @ \cup {[c EXCEPT ![s] = Written(@, offset, data, truncate)][s]}]
            /\ UNCHANGED damaged
  <2>0. entry' = h /\ answer' = None /\ content' = new /\ lawful' = more /\ damaged' = dmg
    BY <1>1, <1>2, <1>8a, <1>10
  <2>1. WriteIsFine(e, c, law, dmg, s, offset, data, truncate)
    BY <1>3, <1>4, WrittenReady
  <2>2. /\ HistoryOK(new, more)
        /\ \A t \in Streams : h.size[t] = Len(new[t])
        /\ ReadyOK(h, new, more, dmg)
    BY <1>1, <1>2, <2>1 DEF WriteIsFine
  <2>3. Shape(g) /\ g.born = e.born /\ g.stream0 = e.stream0 /\ g.failed = e.failed
    <3>1. DOMAIN e.written = Streams /\ Len(data) \in Nat
      BY <1>4, FileFacts DEF ReadyOK, AllBytes
    <3>2. AfterWriteIs(g, e, s, offset, data, truncate)
      BY <1>1, <1>3, <3>1, AfterWriteStreams
    <3> QED BY <3>2 DEF AfterWriteIs
  <2>4. Shape(h) /\ h.born = e.born /\ h.stream0 = e.stream0 /\ h.failed = e.failed
    BY <1>2, <2>3 DEF Shape, Fields
  <2>5. new[0] = c[0] /\ more[0] = law[0]
    <3>1. c = [t \in Streams |-> c[t]] /\ law = [t \in Streams |-> law[t]]
      BY <1>4 DEF HistoryOK
    <3>2. 0 \in Streams
      BY DEF Streams
    <3> QED BY <1>2, <1>5, <3>1, <3>2
  <2>6. OpenOK(h, new, more, dmg, opens)
    BY <1>3, <1>4, <2>2, <2>4, <2>5 DEF OpenOK
  <2>7. h # Closed
    BY <2>4, EntryIsNotClosed
  <2> QED BY <1>4, <2>0, <2>2, <2>6, <2>7, NoneIsOK, OpenHolds
<1>11. CASE /\ ~ (Omitted(e, i) /\ e.doomed)
            /\ \E n \in DOMAIN calls : \E f \in TornAt(e.file, calls, n) :
                 \/ /\ entry' = [[e EXCEPT !.file = f] EXCEPT !.doomed = TRUE, !.failed = TRUE]
                    /\ answer' = None /\ damaged' = TRUE
                    /\ content' = c /\ lawful' = law
                 \/ LeavesBehind(Released(LinkedAfter(e, s, disk, f), f), TRUE)
  <2>a. PICK n \in DOMAIN calls : \E f \in TornAt(e.file, calls, n) :
          \/ /\ entry' = [[e EXCEPT !.file = f] EXCEPT !.doomed = TRUE, !.failed = TRUE]
             /\ answer' = None /\ damaged' = TRUE
             /\ content' = c /\ lawful' = law
          \/ LeavesBehind(Released(LinkedAfter(e, s, disk, f), f), TRUE)
    BY <1>11, Zenon
  <2>0. PICK f \in TornAt(e.file, calls, n) :
          \/ /\ entry' = [[e EXCEPT !.file = f] EXCEPT !.doomed = TRUE, !.failed = TRUE]
             /\ answer' = None /\ damaged' = TRUE
             /\ content' = c /\ lawful' = law
          \/ LeavesBehind(Released(LinkedAfter(e, s, disk, f), f), TRUE)
    BY <2>a, Zenon
  <2>1. CASE /\ entry' = [[e EXCEPT !.file = f] EXCEPT !.doomed = TRUE, !.failed = TRUE]
             /\ answer' = None /\ damaged' = TRUE /\ content' = c /\ lawful' = law
    <3>1. PICK j : j = entry'
      OBVIOUS
    <3>2. Shape(j) /\ j.failed /\ j.born = e.born /\ j.stream0 = e.stream0 /\ j.size = e.size
      BY <1>3, <2>1, <3>1 DEF Shape, Fields
    <3>3. OpenOK(j, c, law, TRUE, opens)
      BY <1>4, <3>2, FailedIsOK
    <3>4. j # Closed
      BY <3>2, EntryIsNotClosed
    <3> QED BY <1>4, <2>1, <3>1, <3>3, <3>4, NoneIsOK, OpenHolds
  <2>2. CASE LeavesBehind(Released(LinkedAfter(e, s, d, f), f), TRUE)
    <3>1. PICK l : l = LinkedAfter(e, s, d, f)
      OBVIOUS
    <3>2. FilesOwned(f, e.key, e.born) /\ Released(l, f) = IF e.doomed THEN Gone ELSE f
      <4>1. TornIsOwned(e, d, s, offset, data, truncate)
        BY <1>1, <1>3, <1>11, TornWriteOwned
      <4> QED BY <1>1, <3>1, <4>1 DEF TornIsOwned
    <3>3. CASE e.doomed
      BY <2>2, <3>1, <3>2, <3>3, NothingLeft
    <3>4. CASE ~ e.doomed
      <4>1. WriteLeaves(e, c, s, offset, data, truncate)
        <5>1. IsFile(data) /\ NoEofs(data)
          BY BytesAreNoEofs DEF AllBytes
        <5>2. IsFile(c[1]) /\ IsFile(c[2]) /\ e.size[s] = Len(c[s])
          BY <1>4, <1>5 DEF HistoryOK, Streams
        <5>3. StreamsHeld(e, c)
          BY <1>4 DEF ReadyOK
        <5> QED BY <1>3, <5>1, <5>2, <5>3, WriteFile
      <4>2. f \in TornIn(e.file, calls)
        BY DEF TornIn
      <4>3. KeepsRecords(f, e.file)
        BY <1>1, <4>1, <4>2 DEF WriteLeaves
      <4>4. SoundFiles(f, law) /\ TailUnique(f[0])
        BY <1>4, <4>3, KeptIsSound DEF ReadyOK
      <4>5. LeavesBehind(f, TRUE)
        BY <2>2, <3>1, <3>2, <3>4
      <4> QED BY <1>1, <1>4, <3>2, <4>4, <4>5, DamagedLeft
    <3> QED BY <1>3, <3>3, <3>4
  <2>3. d = disk
    BY <1>1
  <2> QED BY <2>0, <2>1, <2>2, <2>3
<1>12. ~ NameTaken(e, i)
  BY <1>1, <1>7 DEF NameTaken
<1> QED BY <1>6, <1>8, <1>9, <1>10, <1>11, <1>12, Zenon

\* The parts of the invariant while an entry is open.
LEMMA OpenInv ==
  ASSUME OwnerInv, StreamsInv, entry # Closed
  PROVE  /\ OwnedEntry(entry, disk)
         /\ HistoryOK(content, lawful) /\ damaged \in BOOLEAN /\ opens \in Nat
         /\ OpenOK(entry, content, lawful, damaged, opens)
BY DEF OwnerInv, StreamsInv, Holding

LEMMA BytesFacts ==
  ASSUME NEW length \in Nat, NEW v, NEW data, data = [n \in 1 .. length |-> Byte(v)]
  PROVE  AllBytes(data) /\ Len(data) = length /\ \A k : OwnCells(data, k)
<1>1. data = [n \in 1 .. length |-> data[n]] /\ \A n \in 1 .. length : data[n] = Byte(v)
  OBVIOUS
<1>2. IsFile(data) /\ Len(data) = length
  BY <1>1, FunctionIsFile
<1>3. \A n \in 1 .. length : data[n].kind = "byte"
  BY <1>1 DEF Byte
<1> QED BY <1>1, <1>2, <1>3, PlainCells DEF AllBytes, OwnCells

LEMMA WriteHolds ==
  ASSUME AllOrNone, Distinct, OwnerInv, StreamsInv, Write
  PROVE  StreamsInv'
<1>1. PICK s \in Streams \ {0}, offset \in 0 .. MaxStreamSize, length \in 0 .. MaxStreamSize,
           truncate \in BOOLEAN :
        WriteData(s, offset, [n \in 1 .. length |-> Byte(writes + 1)], truncate)
  BY DEF Write
<1>2. /\ OwnedEntry(entry, disk) /\ ~ entry.failed /\ opens' = opens
      /\ HistoryOK(content, lawful) /\ damaged \in BOOLEAN /\ opens \in Nat
      /\ OpenOK(entry, content, lawful, damaged, opens)
  BY OpenInv DEF Write, Ready
<1>3. PICK data, v, k : /\ v = writes + 1 /\ data = [n \in 1 .. length |-> Byte(v)]
                        /\ k = entry.key
  OBVIOUS
<1>4. s \in {1, 2} /\ offset \in Nat /\ length \in Nat
  BY EntryAssumption DEF Streams
<1>5. AllBytes(data) /\ OwnCells(data, entry.key)
  BY <1>3, <1>4, BytesFacts
<1>6. WriteData(s, offset, data, truncate)
  BY <1>1, <1>3
<1> QED BY <1>2, <1>4, <1>5, <1>6, WriteDataHolds

-------------------------------------------------------------------------------
(* The other operations on an open entry, except Read and Close *)

Stream0IsFine(e, c, law, dmg, data, f) ==
  LET new == [c EXCEPT ![0] = data]
      more == [law EXCEPT ![0] = @ \cup {data}]
  IN HistoryOK(new, more) /\ ReadyOK(f, new, more, dmg)

Stream0Put(f, e) ==
  /\ f.file = e.file /\ f.key = e.key /\ f.headerCheckNeeded = e.headerCheckNeeded
  /\ f.written = [e.written EXCEPT ![0] = TRUE]
  /\ f.size[1] = e.size[1]
  /\ \A t \in {1, 2} : f.crc[t] = e.crc[t] /\ f.crcEnd[t] = e.crcEnd[t]

LEMMA Stream0Ready ==
  ASSUME NEW e, Shape(e), NEW c, NEW law, NEW dmg, HistoryOK(c, law), ReadyOK(e, c, law, dmg),
         NEW data, AllBytes(data), NEW f, Stream0Put(f, e)
  PROVE  Stream0IsFine(e, c, law, dmg, data, f)
<1>a. PICK new, more : new = [c EXCEPT ![0] = data] /\ more = [law EXCEPT ![0] = @ \cup {data}]
  OBVIOUS
<1>b. /\ f.file = e.file /\ f.key = e.key /\ f.headerCheckNeeded = e.headerCheckNeeded
      /\ f.written = [e.written EXCEPT ![0] = TRUE]
      /\ f.size[1] = e.size[1]
      /\ \A t \in {1, 2} : f.crc[t] = e.crc[t] /\ f.crcEnd[t] = e.crcEnd[t]
  BY DEF Stream0Put
<1>1. /\ c = [t \in Streams |-> c[t]] /\ law = [t \in Streams |-> law[t]]
      /\ \A t \in Streams : IsFile(c[t])
      /\ \A x \in law[0] : AllBytes(x)
      /\ <<>> \in law[0]
  BY DEF HistoryOK
<1>2. 0 \in Streams /\ 1 \in Streams /\ 2 \in Streams
  BY DEF Streams
<1>3. /\ new[0] = data /\ more[0] = law[0] \cup {data}
      /\ \A t \in Streams : t # 0 => new[t] = c[t] /\ more[t] = law[t]
      /\ new = [t \in Streams |-> new[t]] /\ more = [t \in Streams |-> more[t]]
  BY <1>1, <1>2, <1>a
<1>4. IsFile(data)
  BY DEF AllBytes
<1>5. HistoryOK(new, more)
  BY <1>1, <1>3, <1>4 DEF HistoryOK
<1>6. MoreLaw(law, more)
  BY <1>3 DEF MoreLaw
<1>7. SoundFiles(f.file, more)
  BY <1>6, <1>b, MoreIsSound DEF ReadyOK
<1>8. new[1] = c[1] /\ new[2] = c[2] /\ more[1] = law[1] /\ more[2] = law[2]
  BY <1>2, <1>3
<1>9. /\ DOMAIN f.written = Streams /\ \A t \in Streams : f.written[t] \in BOOLEAN
      /\ f.written[0] /\ f.written[1] = e.written[1] /\ f.written[2] = e.written[2]
  <2>1. DOMAIN e.written = Streams /\ \A t \in Streams : e.written[t] \in BOOLEAN
    BY DEF ReadyOK
  <2>2. PICK u : u = e.written
    OBVIOUS
  <2>3. f.written = [u EXCEPT ![0] = TRUE] /\ DOMAIN u = Streams
    BY <1>b, <2>1, <2>2
  <2>4. /\ DOMAIN f.written = Streams /\ f.written[0] = TRUE
        /\ \A t \in Streams : t # 0 => f.written[t] = u[t]
    BY <1>2, <2>3
  <2>5. f.written[0] \in BOOLEAN /\ f.written[0]
    BY <2>4
  <2>6. ASSUME NEW t \in Streams
        PROVE  f.written[t] \in BOOLEAN
    <3>1. CASE t = 0
      BY <2>5, <3>1
    <3>2. CASE t # 0
      BY <2>1, <2>2, <2>4, <3>2
    <3> QED BY <3>1, <3>2
  <2>7. f.written[1] = e.written[1] /\ f.written[2] = e.written[2]
    BY <1>2, <2>2, <2>4
  <2> QED BY <2>4, <2>5, <2>6, <2>7
<1>10. StreamsHeld(f, new) /\ CrcsOK(f, new)
  BY <1>8, <1>b DEF ReadyOK, StreamsHeld, CrcsOK
<1>11. ~ dmg => UnwrittenExact(f, new)
  BY <1>8, <1>9, <1>b DEF ReadyOK, UnwrittenExact
<1>12. \A t \in {1, 2} : f.written[t] => new[t] \in more[t]
  BY <1>8, <1>9 DEF ReadyOK
<1>13. ReadyOK(f, new, more, dmg)
  BY <1>7, <1>8, <1>9, <1>10, <1>11, <1>12, <1>b DEF ReadyOK
<1> QED BY <1>5, <1>13, <1>a DEF Stream0IsFine

LEMMA WriteStream0Holds ==
  ASSUME Distinct, OwnerInv, StreamsInv, WriteStream0
  PROVE  StreamsInv'
<1>1. /\ OwnedEntry(entry, disk) /\ ~ entry.failed
      /\ HistoryOK(content, lawful) /\ damaged \in BOOLEAN /\ opens \in Nat
      /\ OpenOK(entry, content, lawful, damaged, opens)
  BY OpenInv DEF WriteStream0, Ready
<1>2. PICK length \in 0 .. MaxStreamSize :
        LET data == [n \in 1 .. length |-> Byte(writes + 1)]
        IN /\ entry' = [entry EXCEPT !.stream0 = data, !.size[0] = length,
                                     !.written[0] = TRUE, !.crcEnd[0] = 0]
           /\ content' = [content EXCEPT ![0] = data]
           /\ lawful' = [lawful EXCEPT ![0] = @ \cup {data}]
  BY Zenon DEF WriteStream0
<1>3. PICK v, data, e, c, law, f, new, more :
        /\ v = writes + 1 /\ data = [n \in 1 .. length |-> Byte(v)]
        /\ e = entry /\ c = content /\ law = lawful
        /\ f = entry' /\ new = content' /\ more = lawful'
  OBVIOUS
<1>4. length \in Nat
  BY EntryAssumption
<1>5. AllBytes(data) /\ Len(data) = length
  BY <1>3, <1>4, BytesFacts
<1>6. /\ f = [e EXCEPT !.stream0 = data, !.size[0] = length,
                       !.written[0] = TRUE, !.crcEnd[0] = 0]
      /\ new = [c EXCEPT ![0] = data] /\ more = [law EXCEPT ![0] = @ \cup {data}]
  BY <1>2, <1>3
<1>7. /\ Shape(e) /\ ~ e.failed /\ HistoryOK(c, law) /\ OpenOK(e, c, law, damaged, opens)
      /\ ReadyOK(e, c, law, damaged)
  BY <1>1, <1>3 DEF OwnedEntry, OpenOK
<1>8. /\ f.file = e.file /\ f.key = e.key /\ f.headerCheckNeeded = e.headerCheckNeeded
      /\ f.born = e.born /\ f.stream0 = data /\ f.failed = e.failed
      /\ f.written = [e.written EXCEPT ![0] = TRUE]
      /\ f.size = [e.size EXCEPT ![0] = length] /\ f.crc = e.crc
      /\ f.crcEnd = [e.crcEnd EXCEPT ![0] = 0] /\ "file" \in DOMAIN f
  BY <1>6, <1>7 DEF Shape, Fields
<1>9. /\ f.size[1] = e.size[1] /\ \A t \in {1, 2} : f.crc[t] = e.crc[t] /\ f.crcEnd[t] = e.crcEnd[t]
      /\ f.size[0] = length /\ \A t \in Streams : t # 0 => f.size[t] = e.size[t]
  BY <1>7, <1>8 DEF Shape, Streams
<1>10. HistoryOK(new, more) /\ ReadyOK(f, new, more, damaged)
  <2>1. Stream0Put(f, e)
    BY <1>8, <1>9 DEF Stream0Put
  <2>2. Stream0IsFine(e, c, law, damaged, data, f)
    BY <1>5, <1>7, <2>1, Stream0Ready
  <2> QED BY <1>6, <2>2 DEF Stream0IsFine
<1>11. /\ new[0] = data /\ data \in more[0] /\ \A t \in Streams : t # 0 => new[t] = c[t]
  <2>1. c = [t \in Streams |-> c[t]] /\ law = [t \in Streams |-> law[t]] /\ 0 \in Streams
    BY <1>7 DEF HistoryOK, Streams
  <2> QED BY <1>6, <2>1
<1>12. \A t \in Streams : f.size[t] = Len(new[t])
  BY <1>5, <1>7, <1>9, <1>11 DEF OpenOK
<1>13. OpenOK(f, new, more, damaged, opens)
  BY <1>7, <1>8, <1>10, <1>11, <1>12 DEF OpenOK
<1>14. f # Closed
  BY <1>8 DEF Distinct
<1>15. answer' = None /\ UNCHANGED <<damaged, opens>>
  BY DEF WriteStream0
<1> QED BY <1>1, <1>3, <1>10, <1>13, <1>14, <1>15, NoneIsOK, OpenHolds

LEMMA DoomHolds ==
  ASSUME Distinct, OwnerInv, StreamsInv, Doom
  PROVE  StreamsInv'
<1>1. /\ OwnedEntry(entry, disk) /\ ~ entry.failed
      /\ HistoryOK(content, lawful) /\ damaged \in BOOLEAN /\ opens \in Nat
      /\ OpenOK(entry, content, lawful, damaged, opens)
  BY OpenInv DEF Doom, Ready
<1>2. PICK e, f : e = entry /\ f = entry'
  OBVIOUS
<1>3. f = [e EXCEPT !.doomed = TRUE] /\ Shape(e)
  BY <1>1, <1>2 DEF Doom, OwnedEntry
<1>4. /\ f.file = e.file /\ f.key = e.key /\ f.headerCheckNeeded = e.headerCheckNeeded
      /\ f.born = e.born /\ f.stream0 = e.stream0 /\ f.failed = e.failed
      /\ f.written = e.written /\ f.size = e.size /\ f.crc = e.crc /\ f.crcEnd = e.crcEnd
      /\ "file" \in DOMAIN f
  BY <1>3 DEF Shape, Fields
<1>5. OpenOK(f, content, lawful, damaged, opens)
  BY <1>1, <1>2, <1>4 DEF OpenOK, ReadyOK, StreamsHeld, CrcsOK, UnwrittenExact
<1>6. f # Closed
  BY <1>4 DEF Distinct
<1>7. answer' = None /\ UNCHANGED <<content, lawful, damaged, opens>>
  BY DEF Doom
<1> QED BY <1>1, <1>2, <1>5, <1>6, <1>7, NoneIsOK, OpenHolds

LEMMA DeleteHolds ==
  ASSUME AllOrNone, Distinct, StreamsInv, DeleteEntryFiles
  PROVE  StreamsInv'
<1>1. PICK d \in DeleteFilesForEntryHash(disk) : LeavesBehind(d, TRUE)
  BY DEF DeleteEntryFiles
<1>2. d = Gone
  BY DeleteLeavesNothing
<1>3. opens' \in Nat
  BY DEF DeleteEntryFiles, StreamsInv, Holding
<1> QED BY <1>1, <1>2, <1>3, NothingLeft

LEMMA CrashHolds ==
  ASSUME Distinct, OwnerInv, StreamsInv, Crash
  PROVE  StreamsInv'
<1>1. /\ OwnedEntry(entry, disk)
      /\ HistoryOK(content, lawful) /\ damaged \in BOOLEAN /\ opens \in Nat
      /\ OpenOK(entry, content, lawful, damaged, opens)
  BY OpenInv DEF Crash
<1>2. PICK e, d, f : e = entry /\ d = disk /\ f = e.file
  OBVIOUS
<1>3. LeavesBehind(Released(d, f), TRUE) /\ opens' = opens
  BY <1>2 DEF Crash
<1>4. CASE e.doomed
  <2>1. Released(d, f) = Gone
    BY <1>1, <1>2, <1>4 DEF OwnedEntry, NamesOK, Released, Gone, Distinct
  <2> QED BY <1>1, <1>3, <2>1, NothingLeft
<1>5. CASE ~ e.doomed
  <2>1. /\ ~ e.failed /\ NamesOK(e, d) /\ e.doomed \in BOOLEAN
        /\ FilesFull(f, e.key, e.born)
    BY <1>1, <1>2, <1>5 DEF OwnedEntry
  <2>2. f = [i \in FileIndices |-> f[i]] /\ FilesOwned(f, e.key, e.born)
    BY <2>1, FullIsOwned DEF FilesFull
  <2>3. Released(d, f) = f
    <3>1. e.file = f
      BY <1>2
    <3>2. Released(d, f) = IF e.doomed THEN Gone ELSE f
      BY <2>1, <2>2, <3>1, ReleasedIs
    <3> QED BY <1>5, <3>2
  <2>4. SoundFiles(f, lawful) /\ TailUnique(f[0]) /\ e.born \in 1 .. opens
    BY <1>1, <1>2, <2>1 DEF OpenOK, ReadyOK
  <2> QED BY <1>1, <1>3, <2>2, <2>3, <2>4, DamagedLeft
<1> QED BY <1>4, <1>5

-------------------------------------------------------------------------------
(* Read *)

\* What is in the stream is in the file.
LEMMA HeldCells ==
  ASSUME NEW f, IsFile(f), NEW stream, IsFile(stream), NEW start \in Nat, Holds(f, start, stream),
         NEW offset \in Nat, NEW length \in Nat, offset + length <= Len(stream),
         NEW at, at = start + offset
  PROVE  Cells(f, at, length) = Cells(stream, offset, length)
<1>1. PICK x, y : x = Cells(f, at, length) /\ y = Cells(stream, offset, length)
  OBVIOUS
<1>2. Len(f) \in Nat /\ Len(stream) \in Nat /\ Len(f) >= start + Len(stream) /\ at \in Nat
      /\ at + length <= Len(f)
  BY FileFacts DEF Holds
<1>3. IsFile(x) /\ Len(x) = length /\ \A i \in 1 .. length : x[i] = f[at + i]
  BY <1>1, <1>2, SubSeqFacts DEF Cells
<1>4. IsFile(y) /\ Len(y) = length /\ \A i \in 1 .. length : y[i] = stream[offset + i]
  BY <1>1, SubSeqFacts DEF Cells
<1>5. ASSUME NEW i \in 1 .. length
      PROVE  x[i] = y[i]
  <2>1. offset + i \in 1 .. Len(stream) /\ at + i = start + (offset + i)
    BY <1>2
  <2>2. f[start + (offset + i)] = stream[offset + i]
    BY <2>1 DEF Holds
  <2> QED BY <1>3, <1>4, <2>1, <2>2
<1>6. x = y
  BY <1>3, <1>4, <1>5, SameFile
<1> QED BY <1>1, <1>6

LEMMA WholeIs ==
  ASSUME NEW f, IsFile(f)
  PROVE  SubSeq(f, 1, Len(f)) = f
<1>1. PICK x : x = SubSeq(f, 1, Len(f))
  OBVIOUS
<1>2. Len(f) \in Nat /\ Len(f) \in 0 .. Len(f)
  BY FileFacts
<1>3. IsFile(x) /\ Len(x) = Len(f) /\ \A i \in 1 .. Len(f) : x[i] = f[i]
  BY <1>1, <1>2, FirstPart
<1>4. x = f
  BY <1>3, SameFile
<1> QED BY <1>1, <1>4

\* A record that is behind a stream: in order if the entry is, and never of another
\* stream.
LEMMA RecordThere ==
  ASSUME NEW f, IsFile(f), NEW n \in Nat, NEW z, z = CellAt(f, n + 1)
  PROVE  /\ EofRecord(f, n + 1) <=> (n + 2 <= Len(f) /\ IsEof(f[n + 2]))
         /\ n + 2 <= Len(f) => z = f[n + 2]
<1>1. Len(f) \in Nat /\ EofSize = 1
  BY FileFacts, EntryAssumption
<1>2. n + 1 \in 0 .. Len(f) - 1 <=> n + 2 <= Len(f)
  BY <1>1
<1>3. (n + 1) + 1 = n + 2
  OBVIOUS
<1>4. n + 2 <= Len(f) => CellAt(f, n + 1) = f[n + 2]
  BY <1>2, <1>3 DEF CellAt
<1>5. Readable(f, n + 1, EofSize) <=> n + 2 <= Len(f)
  BY <1>1 DEF Readable
<1> QED BY <1>4, <1>5 DEF EofRecord, IsEof

\* What ReadData finds.
ReadIsFine(e, c, law, dmg, s, offset, length) ==
  LET file == e.file[GetFileIndexFromStreamIndex(s)]
      cells == Cells(file, GetOffsetInFile(e.size, offset, s), length)
      x == Onward(e.crc[s], offset, cells)
      eofOffset == GetEOFOffsetInFile(e.size, s)
      eof == CellAt(file, eofOffset)
      fits == EofRecord(file, eofOffset) /\ CrcMatches(eof, x)
  IN /\ cells = Cells(c[s], offset, length) /\ Len(cells) = length
     /\ e.crcEnd[s] = offset =>
          /\ CrcOf(x, offset + length, c[s])
          /\ ~ e.written[s] /\ offset + length = e.size[s] =>
               /\ ~ dmg => fits
               /\ fits /\ eof.hasCrc => x \in law[s]

LEMMA ReadFacts ==
  ASSUME Distinct, NEW e, Shape(e), FilesFull(e.file, e.key, e.born),
         NEW c, NEW law, HistoryOK(c, law), NEW dmg \in BOOLEAN, ReadyOK(e, c, law, dmg),
         \A t \in Streams : e.size[t] = Len(c[t]),
         NEW s \in {1, 2}, NEW offset \in Nat, NEW length \in Nat, length > 0,
         offset + length <= e.size[s]
  PROVE  ReadIsFine(e, c, law, dmg, s, offset, length)
<1>1. PICK i, f, n, b : /\ i = GetFileIndexFromStreamIndex(s) /\ f = e.file[i]
                        /\ n = e.size[s] /\ b = c[s]
  OBVIOUS
<1>2. PICK cells, x, z : /\ cells = Cells(f, GetOffsetInFile(e.size, offset, s), length)
                         /\ x = Onward(e.crc[s], offset, cells)
                         /\ z = CellAt(f, GetEOFOffsetInFile(e.size, s))
  OBVIOUS
<1>3. /\ i = IF s = 2 THEN 1 ELSE 0
      /\ s \in Streams /\ s # 0 /\ n = Len(b) /\ IsFile(b) /\ n \in Nat
  BY <1>1, FileFacts DEF GetFileIndexFromStreamIndex, Streams, HistoryOK
<1>4. /\ SoundFiles(e.file, law) /\ TailBehind(e.file[0], e.size[1])
      /\ StreamsHeld(e, c) /\ CrcOf(e.crc[s], e.crcEnd[s], b)
      /\ ~ dmg => UnwrittenExact(e, c)
  BY <1>1 DEF ReadyOK, CrcsOK
<1>5. f # Missing /\ IsFile(f) /\ Holds(f, 1, b)
  <2>1. CASE s = 1
    <3>1. f = e.file[0] /\ b = c[1]
      BY <1>1, <1>3, <2>1
    <3>2. IsFile(f)
      BY <3>1, FirstFileIsThere
    <3>3. f # Missing
      BY <3>2 DEF Distinct
    <3> QED BY <1>4, <3>1, <3>2, <3>3 DEF StreamsHeld
  <2>2. CASE s = 2
    <3>1. i = 1 /\ f = e.file[1] /\ b = c[2]
      BY <1>1, <1>3, <2>2
    <3>2. b # <<>>
      BY <1>1, <1>3, FileFacts
    <3>3. f # Missing
      BY <1>4, <3>1, <3>2 DEF StreamsHeld
    <3> QED BY <1>4, <3>1, <3>3, FirstFileIsThere DEF StreamsHeld
  <2> QED BY <2>1, <2>2
<1>6. /\ GetOffsetInFile(e.size, offset, s) = 1 + offset
      /\ GetEOFOffsetInFile(e.size, s) = n + 1
  BY <1>1, <1>3, EntryAssumption DEF GetOffsetInFile, GetEOFOffsetInFile
<1>7. cells = Cells(b, offset, length)
  BY <1>1, <1>2, <1>3, <1>5, <1>6, HeldCells
<1>8. Len(cells) = length
  BY <1>1, <1>3, <1>7, SubSeqFacts DEF Cells
<1>9. ASSUME e.crcEnd[s] = offset
      PROVE  CrcOf(x, offset + length, b)
  <2>1. CrcOf(e.crc[s], offset, b)
    BY <1>4, <1>9
  <2>2. CrcOf(Onward(e.crc[s], offset, cells), offset + length, b)
    BY <1>1, <1>3, <1>7, <2>1, CrcRead
  <2> QED BY <1>2, <2>2
<1>10. /\ EofRecord(f, n + 1) <=> (n + 2 <= Len(f) /\ IsEof(f[n + 2]))
       /\ n + 2 <= Len(f) => z = f[n + 2]
  BY <1>2, <1>3, <1>5, <1>6, RecordThere
<1>11. ASSUME e.crcEnd[s] = offset, offset + length = n
       PROVE  x = b
  <2>1. CrcOf(x, n, b) /\ n > 0
    BY <1>3, <1>9, <1>11
  <2>2. x = SubSeq(b, 1, Len(b))
    BY <1>3, <2>1 DEF CrcOf
  <2> QED BY <1>3, <2>2, WholeIs
<1>12. ASSUME ~ e.written[s], ~ dmg
       PROVE  n + 2 <= Len(f) /\ IsEof(f[n + 2]) /\ (z.hasCrc => z.crc = b)
  <2>1. n + 2 <= Len(f) /\ RecordOf(f[n + 2], b)
    <3>1. CASE s = 1
      <4>1. f = e.file[0] /\ b = c[1]
        BY <1>1, <1>3, <3>1
      <4>2. Len(f) \in Nat
        BY <1>5, FileFacts
      <4> QED BY <1>3, <1>4, <1>12, <3>1, <4>1, <4>2 DEF UnwrittenExact
    <3>2. CASE s = 2
      <4>1. f = e.file[1] /\ b = c[2]
        BY <1>1, <1>3, <3>2
      <4>2. Len(f) = n + 2 /\ RecordOf(f[n + 2], b)
        BY <1>3, <1>4, <1>5, <1>12, <3>2, <4>1 DEF UnwrittenExact
      <4> QED BY <1>3, <4>2
    <3> QED BY <3>1, <3>2
  <2>2. z = f[n + 2]
    BY <1>10, <2>1
  <2> QED BY <2>1, <2>2 DEF RecordOf, InnerEof
<1>13. ASSUME EofRecord(f, n + 1), z.hasCrc
       PROVE  z.crc \in law[s]
  <2>1. n + 2 <= Len(f) /\ IsEof(z) /\ z = f[n + 2] /\ n + 2 \in 1 .. Len(f)
    <3>1. Len(f) \in Nat
      BY <1>5, FileFacts
    <3> QED BY <1>3, <1>10, <1>13, <3>1
  <2>2. SoundEof(z, i, law)
    <3>1. CASE s = 1
      <4>1. i = 0 /\ f = e.file[0]
        BY <1>1, <1>3, <3>1
      <4>2. Sound(f, 0, law)
        BY <1>4, <4>1 DEF SoundFiles
      <4> QED BY <2>1, <4>1, <4>2 DEF Sound
    <3>2. CASE s = 2
      <4>1. i = 1 /\ f = e.file[1]
        BY <1>1, <1>3, <3>2
      <4>2. Sound(f, 1, law)
        BY <1>4, <1>5, <4>1 DEF SoundFiles
      <4> QED BY <2>1, <4>1, <4>2 DEF Sound
    <3> QED BY <3>1, <3>2
  <2>3. ~ (i = 0 /\ z.hasSha)
    <3> SUFFICES ASSUME i = 0, z.hasSha
                 PROVE  FALSE
      OBVIOUS
    <3>1. f = e.file[0] /\ n = e.size[1] /\ TailEof(f[n + 2])
      BY <1>1, <1>3, <2>1 DEF TailEof
    <3>2. n + 2 >= n + 3
      BY <1>4, <2>1, <3>1 DEF TailBehind
    <3> QED BY <1>3, <3>2
  <2>4. i + 1 = s
    BY <1>3
  <2> QED BY <1>13, <2>2, <2>3, <2>4 DEF SoundEof
<1>14. ASSUME e.crcEnd[s] = offset, ~ e.written[s], offset + length = n
       PROVE  /\ ~ dmg => EofRecord(f, n + 1) /\ CrcMatches(z, x)
              /\ EofRecord(f, n + 1) /\ CrcMatches(z, x) /\ z.hasCrc => x \in law[s]
  BY <1>10, <1>11, <1>12, <1>13, <1>14 DEF CrcMatches
<1> QED BY <1>1, <1>2, <1>6, <1>7, <1>8, <1>9, <1>14 DEF ReadIsFine

LEMMA ReadHolds ==
  ASSUME AllOrNone, Distinct, OwnerInv, StreamsInv, Read
  PROVE  StreamsInv'
<1>1. PICK s \in Streams \ {0}, offset \in 0 .. MaxStreamSize, length \in 0 .. MaxStreamSize :
        length > 0 /\ offset + length <= entry.size[s] /\ ReadData(s, offset, length)
  BY Zenon DEF Read
<1>2. /\ OwnedEntry(entry, disk) /\ ~ entry.failed
      /\ HistoryOK(content, lawful) /\ damaged \in BOOLEAN /\ opens \in Nat
      /\ OpenOK(entry, content, lawful, damaged, opens)
  BY OpenInv DEF Read, Ready
<1>3. PICK e, c, law, dmg : e = entry /\ c = content /\ law = lawful /\ dmg = damaged
  OBVIOUS
<1>4. PICK i, checked, cells, g, eofOffset, eof, toTheEnd :
        /\ i = GetFileIndexFromStreamIndex(s)
        /\ checked = [e EXCEPT !.headerCheckNeeded = @ /\ i = 0]
        /\ cells = Cells(e.file[i], GetOffsetInFile(e.size, offset, s), length)
        /\ g = AdvanceCrc(checked, s, offset, cells)
        /\ eofOffset = GetEOFOffsetInFile(e.size, s)
        /\ eof = CellAt(e.file[i], eofOffset)
        /\ toTheEnd = (e.crcEnd[s] = offset /\ ~ e.written[s] /\ offset + length = e.size[s])
  OBVIOUS
<1> DEFINE answered(ok, io) ==
             [kind |-> "read", ok |-> ok, stream |-> s, offset |-> offset, length |-> length,
              cells |-> IF ok THEN cells ELSE <<>>, excused |-> io \/ dmg,
              verified |-> IF ok /\ toTheEnd /\ eof.hasCrc THEN {g.crc[s]} ELSE {}]
           fits == EofRecord(e.file[i], eofOffset) /\ CrcMatches(eof, g.crc[s])
<1>5. /\ UNCHANGED <<content, lawful, damaged, opens>>
      /\ \/ i = 1 /\ e.headerCheckNeeded /\ ~ CheckHeaderAndKey(e.file[1], e.key)
         \/ toTheEnd /\ ~ fits /\ Fails(checked) /\ answer' = answered(FALSE, FALSE)
         \/ ~ (toTheEnd /\ ~ fits) /\ entry' = g /\ answer' = answered(TRUE, FALSE)
         \/ Fails(e) /\ answer' = answered(FALSE, TRUE)
  BY <1>1, <1>3, <1>4, ZenonT(60) DEF ReadData
<1>6. /\ Shape(e) /\ ~ e.failed /\ e.key \in Keys /\ NamesOK(e, disk) /\ e.doomed \in BOOLEAN
      /\ FilesFull(e.file, e.key, e.born)
      /\ HistoryOK(c, law) /\ dmg \in BOOLEAN /\ OpenOK(e, c, law, dmg, opens)
      /\ ReadyOK(e, c, law, dmg) /\ \A t \in Streams : e.size[t] = Len(c[t])
  BY <1>2, <1>3 DEF OwnedEntry, OpenOK
<1>7. s \in {1, 2} /\ s \in Streams /\ offset \in Nat /\ length \in Nat /\ i \in FileIndices
  BY <1>4, EntryAssumption DEF Streams, GetFileIndexFromStreamIndex, FileIndices
<1>8. ~ (i = 1 /\ e.headerCheckNeeded /\ ~ CheckHeaderAndKey(e.file[1], e.key))
  <2> SUFFICES ASSUME i = 1, e.headerCheckNeeded
               PROVE  CheckHeaderAndKey(e.file[1], e.key)
    OBVIOUS
  <2>1. e.file[1] # Missing
    BY <1>6 DEF ReadyOK
  <2> QED BY <1>6, <1>7, <2>1, HeaderIsRead DEF Omitted
<1>9. /\ Shape(checked) /\ checked.key = e.key /\ checked.born = e.born /\ checked.file = e.file
      /\ checked.headerCheckNeeded = (e.headerCheckNeeded /\ i = 0)
      /\ checked.stream0 = e.stream0 /\ checked.size = e.size /\ checked.doomed = e.doomed
      /\ checked.failed = e.failed /\ checked.written = e.written
      /\ checked.crc = e.crc /\ checked.crcEnd = e.crcEnd
  BY <1>4, <1>6 DEF Shape, Fields
<1>10. PICK x : x = Onward(e.crc[s], offset, cells)
  OBVIOUS
<1>11. /\ cells = Cells(c[s], offset, length) /\ Len(cells) = length
       /\ e.crcEnd[s] = offset => CrcOf(x, offset + length, c[s])
       /\ toTheEnd => /\ ~ dmg => EofRecord(e.file[i], eofOffset) /\ CrcMatches(eof, x)
                      /\ EofRecord(e.file[i], eofOffset) /\ CrcMatches(eof, x) /\ eof.hasCrc
                           => x \in law[s]
  <2>1. offset + length <= e.size[s] /\ length > 0
    BY <1>1, <1>3
  <2>2. ReadIsFine(e, c, law, dmg, s, offset, length)
    BY <1>6, <1>7, <2>1, ReadFacts
  <2> QED BY <1>4, <1>10, <2>2 DEF ReadIsFine
<1>12. /\ DOMAIN g = Fields /\ DOMAIN g.crc = Streams /\ DOMAIN g.crcEnd = Streams
       /\ g.key = e.key /\ g.born = e.born /\ g.file = e.file /\ g.size = e.size
       /\ g.headerCheckNeeded = (e.headerCheckNeeded /\ i = 0) /\ g.stream0 = e.stream0
       /\ g.written = e.written /\ g.doomed = e.doomed /\ g.failed = e.failed
       /\ \A t \in Streams : t # s => g.crc[t] = e.crc[t] /\ g.crcEnd[t] = e.crcEnd[t]
       /\ IF e.crcEnd[s] = offset THEN g.crc[s] = x /\ g.crcEnd[s] = offset + length
                                  ELSE g.crc[s] = e.crc[s] /\ g.crcEnd[s] = e.crcEnd[s]
  <2>1. /\ DOMAIN g = Fields /\ DOMAIN g.crc = Streams /\ DOMAIN g.crcEnd = Streams
        /\ g.key = checked.key /\ g.born = checked.born /\ g.file = checked.file
        /\ g.size = checked.size
        /\ g.headerCheckNeeded = checked.headerCheckNeeded /\ g.stream0 = checked.stream0
        /\ g.written = checked.written /\ g.doomed = checked.doomed /\ g.failed = checked.failed
        /\ \A t \in Streams : t # s => g.crc[t] = checked.crc[t] /\ g.crcEnd[t] = checked.crcEnd[t]
        /\ IF checked.crcEnd[s] = offset
           THEN /\ g.crc[s] = Onward(checked.crc[s], offset, cells)
                /\ g.crcEnd[s] = offset + Len(cells)
           ELSE g.crc[s] = checked.crc[s] /\ g.crcEnd[s] = checked.crcEnd[s]
    <3>1. s \in Streams /\ Shape(checked)
      BY <1>7, <1>9
    <3>2. g = AdvanceCrc(checked, s, offset, cells)
      BY <1>4
    <3> QED BY <3>1, <3>2, AdvancedCrc
  <2> QED BY <1>9, <1>10, <1>11, <2>1
<1>13. toTheEnd => g.crc[s] = x
  BY <1>4, <1>12
<1>14. ASSUME NEW f, f.key = e.key, f.born = e.born, f.stream0 = e.stream0, f.size = e.size,
              Shape(f), Fails(f), NEW a, answer' = a, a.kind = "read", ~ a.ok,
              a.verified = {}, a.excused \/ a.ok
       PROVE  StreamsInv'
  <2>1. PICK j : j = [f EXCEPT !.doomed = TRUE, !.failed = TRUE]
    OBVIOUS
  <2>2. entry' = j
    BY <1>14, <2>1, Zenon DEF Fails
  <2>3. Shape(j) /\ j.failed /\ j.born = e.born /\ j.stream0 = e.stream0 /\ j.size = e.size
    BY <1>14, <2>1 DEF Shape, Fields
  <2>4. OpenOK(j, c, law, dmg, opens)
    BY <1>6, <2>3, FailedIsOK
  <2>5. j # Closed
    BY <2>3, EntryIsNotClosed
  <2>6. AnswerOK(a, c, law)
    BY <1>14 DEF AnswerOK
  <2>7. content' = c /\ lawful' = law /\ damaged' = dmg /\ opens' = opens
    BY <1>3, <1>5
  <2> QED BY <1>2, <1>6, <1>14, <2>2, <2>4, <2>5, <2>6, <2>7, OpenHolds
<1>15. CASE toTheEnd /\ ~ fits /\ Fails(checked) /\ answer' = answered(FALSE, FALSE)
  <2>1. dmg
    BY <1>6, <1>11, <1>13, <1>15
  <2>2. PICK a : a = answer'
    OBVIOUS
  <2>3. a.kind = "read" /\ ~ a.ok /\ a.verified = {} /\ a.excused
    BY <1>15, <2>1, <2>2
  <2> QED BY <1>9, <1>14, <1>15, <2>2, <2>3
<1>16. CASE Fails(e) /\ answer' = answered(FALSE, TRUE)
  <2>1. PICK a : a = answer'
    OBVIOUS
  <2>2. a.kind = "read" /\ ~ a.ok /\ a.verified = {} /\ a.excused
    BY <1>16, <2>1
  <2> QED BY <1>6, <1>14, <1>16, <2>1, <2>2
<1>17. CASE ~ (toTheEnd /\ ~ fits) /\ entry' = g /\ answer' = answered(TRUE, FALSE)
  <2>1. PICK a : a = answer'
    OBVIOUS
  <2>2. /\ a.kind = "read" /\ a.ok /\ a.stream = s /\ a.offset = offset /\ a.length = length
        /\ a.cells = cells
        /\ a.verified = IF toTheEnd /\ eof.hasCrc THEN {g.crc[s]} ELSE {}
    BY <1>17, <2>1
  <2>3. toTheEnd /\ eof.hasCrc => g.crc[s] \in law[s]
    BY <1>11, <1>13, <1>17
  <2>4. AnswerOK(a, c, law)
    BY <1>11, <2>2, <2>3 DEF AnswerOK
  <2>5. CrcsOK(g, c)
    <3> SUFFICES ASSUME NEW t \in {1, 2}
                 PROVE  CrcOf(g.crc[t], g.crcEnd[t], c[t])
      BY DEF CrcsOK
    <3>1. CrcOf(e.crc[t], e.crcEnd[t], c[t]) /\ t \in Streams
      BY <1>6 DEF ReadyOK, CrcsOK, Streams
    <3>2. CASE t = s /\ e.crcEnd[s] = offset
      BY <1>11, <1>12, <3>2
    <3>3. CASE t = s /\ e.crcEnd[s] # offset
      BY <1>12, <3>1, <3>3
    <3>4. CASE t # s
      BY <1>12, <3>1, <3>4
    <3> QED BY <3>2, <3>3, <3>4
  <2>6. ReadyOK(g, c, law, dmg)
    <3>1. /\ SoundFiles(e.file, law)
          /\ TailUnique(e.file[0]) /\ TailBehind(e.file[0], e.size[1])
          /\ StreamsHeld(e, c)
          /\ DOMAIN e.written = Streams /\ \A t \in Streams : e.written[t] \in BOOLEAN
          /\ e.headerCheckNeeded \in BOOLEAN /\ (e.headerCheckNeeded => e.file[1] # Missing)
          /\ e.written[1] => e.written[0]
          /\ \A t \in {1, 2} : e.written[t] => c[t] \in law[t]
          /\ ~ dmg => UnwrittenExact(e, c)
      BY <1>6 DEF ReadyOK
    <3>2. StreamsHeld(g, c)
      BY <1>12, <3>1 DEF StreamsHeld
    <3>3. ~ dmg => UnwrittenExact(g, c)
      BY <1>12, <3>1 DEF UnwrittenExact
    <3>4. g.headerCheckNeeded \in BOOLEAN /\ (g.headerCheckNeeded => g.file[1] # Missing)
      BY <1>12, <3>1
    <3> QED BY <1>12, <2>5, <3>1, <3>2, <3>3, <3>4 DEF ReadyOK
  <2>7. OpenOK(g, c, law, dmg, opens)
    BY <1>6, <1>12, <2>6 DEF OpenOK
  <2>8. g # Closed
    BY <1>12 DEF Distinct, Fields
  <2>9. content' = c /\ lawful' = law /\ damaged' = dmg /\ opens' = opens
    BY <1>3, <1>5
  <2> QED BY <1>2, <1>6, <1>17, <2>1, <2>4, <2>7, <2>8, <2>9, OpenHolds
<1> QED BY <1>5, <1>8, <1>15, <1>16, <1>17, Zenon

-------------------------------------------------------------------------------
(* Close: stream 0 *)

\* The file with stream 0 written behind the record of stream 1, which has n bytes.
Stream0In(g, f, n, stream, sha, z) ==
  /\ IsFile(g) /\ Len(g) = n + Len(stream) + 4
  /\ \A i \in 1 .. n + 2 : g[i] = IF i <= Len(f) THEN f[i] ELSE Byte(0)
  /\ Holds(g, n + 2, stream)
  /\ g[n + Len(stream) + 3] = sha
  /\ g[n + Len(stream) + 4] = z

\* A cell written at a place of the file, or behind it.
OnePut(g, f, n, c) ==
  /\ IsFile(g) /\ Len(g) = IF Len(f) > n THEN Len(f) ELSE n + 1
  /\ g[n + 1] = c
  /\ \A i \in 1 .. Len(g) : i # n + 1 => g[i] = IF i <= Len(f) THEN f[i] ELSE Byte(0)

PutOne(f, n, c) == WriteAt(f, n, <<c>>)

LEMMA OnePutIs ==
  ASSUME NEW f, IsFile(f), NEW c, NEW n \in Nat, NEW g, g = PutOne(f, n, c)
  PROVE  OnePut(g, f, n, c)
<1>0. PICK cells : cells = <<c>>
  OBVIOUS
<1>1. PICK end : end = n + 1
  OBVIOUS
<1>2. IsFile(cells) /\ Len(cells) = 1 /\ cells[1] = c /\ cells # <<>> /\ Len(f) \in Nat
  BY <1>0, SingleIsFile, FileFacts
<1>3. g = WriteAt(f, n, cells) /\ end = n + Len(cells) /\ end \in Nat
  BY <1>0, <1>1, <1>2 DEF PutOne
<1>4. /\ IsFile(g)
      /\ Len(g) = IF cells = <<>> \/ Len(f) > end THEN Len(f) ELSE end
      /\ \A i \in 1 .. Len(g) :
           g[i] = IF i > n /\ i <= end THEN cells[i - n]
                  ELSE IF i <= Len(f) THEN f[i] ELSE Byte(0)
  <2>1. IsPut(g, f, n, cells)
    BY <1>2, <1>3, PutIs
  <2> QED BY <1>3, <2>1 DEF IsPut
<1>5. Len(g) = IF Len(f) > n THEN Len(f) ELSE n + 1
  BY <1>1, <1>2, <1>4
<1>6. g[n + 1] = c
  <2>1. n + 1 \in 1 .. Len(g) /\ n + 1 > n /\ n + 1 <= end /\ (n + 1) - n = 1
    BY <1>1, <1>2, <1>5
  <2> QED BY <1>2, <1>4, <2>1
<1>7. ASSUME NEW i \in 1 .. Len(g), i # n + 1
      PROVE  g[i] = IF i <= Len(f) THEN f[i] ELSE Byte(0)
  <2>1. ~ (i > n /\ i <= end)
    BY <1>1, <1>5, <1>7
  <2> QED BY <1>4, <2>1
<1> QED BY <1>4, <1>5, <1>6, <1>7 DEF OnePut

LEMMA Stream0Steps ==
  ASSUME NEW f, IsFile(f), NEW n \in Nat, NEW stream, IsFile(stream),
         NEW sha, NEW z, NEW m, m = Len(stream),
         NEW a, a = n + 2, NEW b, b = n + 2 + m, NEW d, d = n + m + 3,
         NEW v, v = WriteAt(f, a, stream), NEW w, w = PutOne(v, b, sha),
         NEW x, x = SetLength(w, d), NEW g, g = PutOne(x, d, z)
  PROVE  Stream0In(g, f, n, stream, sha, z) /\ IsFile(v) /\ IsFile(w) /\ IsFile(x)
<1>0. /\ Len(stream) \in Nat /\ (stream = <<>> <=> Len(stream) = 0)
      /\ Len(f) \in Nat
  BY FileFacts
<1>1. m \in Nat /\ m = Len(stream) /\ (stream = <<>> <=> m = 0)
  BY <1>0
<1>2. a = n + 2 /\ b = n + 2 + m /\ d = n + m + 3
  OBVIOUS
<1>3. a \in Nat /\ b \in Nat /\ d \in Nat /\ d = b + 1 /\ b = a + m
  BY <1>1, <1>2
<1>4. IsPut(v, f, a, stream)
  BY <1>2, <1>3, PutIs
<1>5. /\ IsFile(v)
      /\ Len(v) = IF m = 0 \/ Len(f) > b THEN Len(f) ELSE b
      /\ \A i \in 1 .. Len(v) :
           v[i] = IF i > a /\ i <= b THEN stream[i - a]
                  ELSE IF i <= Len(f) THEN f[i] ELSE Byte(0)
  BY <1>1, <1>3, <1>4 DEF IsPut
<1>6. OnePut(w, v, b, sha)
  BY <1>2, <1>3, <1>5, OnePutIs
<1>7. IsFile(w) /\ Len(v) \in Nat /\ Len(w) \in Nat
  <2>1. IsFile(w)
    BY <1>6 DEF OnePut
  <2> QED BY <1>5, <2>1, FileFacts
<1>8. IsCut(x, w, d)
  BY <1>2, <1>3, <1>7, CutIs
<1>9. IsFile(x) /\ Len(x) = d
  BY <1>8 DEF IsCut
<1>10. OnePut(g, x, d, z)
  BY <1>2, <1>3, <1>9, OnePutIs
<1>11. IsFile(g) /\ Len(g) = d + 1 /\ g[d + 1] = z
  BY <1>3, <1>9, <1>10 DEF OnePut
<1>12. \A i \in 1 .. d : g[i] = x[i]
  <2> SUFFICES ASSUME NEW i \in 1 .. d
               PROVE  g[i] = x[i]
    OBVIOUS
  <2>1. i \in 1 .. Len(g) /\ i # d + 1 /\ i <= Len(x)
    BY <1>3, <1>9, <1>11
  <2> QED BY <1>10, <2>1 DEF OnePut
<1>13. Len(w) >= d
  BY <1>3, <1>6, <1>7 DEF OnePut
<1>14. \A i \in 1 .. d : x[i] = w[i]
  <2> SUFFICES ASSUME NEW i \in 1 .. d
               PROVE  x[i] = w[i]
    OBVIOUS
  <2>1. i <= Len(w)
    BY <1>3, <1>7, <1>13
  <2> QED BY <1>8, <2>1 DEF IsCut
<1>15. g[d] = sha
  <2>1. d \in 1 .. d /\ w[d] = sha
    BY <1>3, <1>6 DEF OnePut
  <2> QED BY <1>12, <1>14, <2>1
<1>16. \A i \in 1 .. b : g[i] = IF i <= Len(v) THEN v[i] ELSE Byte(0)
  <2> SUFFICES ASSUME NEW i \in 1 .. b
               PROVE  g[i] = IF i <= Len(v) THEN v[i] ELSE Byte(0)
    OBVIOUS
  <2>1. i \in 1 .. d /\ i \in 1 .. Len(w) /\ i # b + 1
    BY <1>3, <1>7, <1>13
  <2>2. w[i] = IF i <= Len(v) THEN v[i] ELSE Byte(0)
    BY <1>6, <2>1 DEF OnePut
  <2> QED BY <1>12, <1>14, <2>1, <2>2
<1>17. \A i \in 1 .. a : g[i] = IF i <= Len(f) THEN f[i] ELSE Byte(0)
  <2> SUFFICES ASSUME NEW i \in 1 .. a
               PROVE  g[i] = IF i <= Len(f) THEN f[i] ELSE Byte(0)
    OBVIOUS
  <2>1. i \in 1 .. b /\ ~ (i > a)
    BY <1>1, <1>3
  <2>2. CASE i <= Len(v)
    <3>1. i \in 1 .. Len(v)
      BY <1>7, <2>2
    <3>2. v[i] = IF i <= Len(f) THEN f[i] ELSE Byte(0)
      BY <1>5, <2>1, <3>1
    <3> QED BY <1>16, <2>1, <2>2, <3>2
  <2>3. CASE ~ (i <= Len(v))
    <3>1. ~ (i <= Len(f))
      BY <1>0, <1>1, <1>3, <1>5, <2>1, <2>3
    <3> QED BY <1>16, <2>1, <2>3, <3>1
  <2> QED BY <2>2, <2>3
<1>18. \A i \in 1 .. m : g[a + i] = stream[i]
  <2> SUFFICES ASSUME NEW i \in 1 .. m
               PROVE  g[a + i] = stream[i]
    OBVIOUS
  <2>1. a + i \in 1 .. b /\ a + i > a /\ a + i <= b /\ (a + i) - a = i /\ a + i <= Len(v)
    BY <1>0, <1>1, <1>3, <1>5
  <2>2. a + i \in 1 .. Len(v)
    BY <1>7, <2>1
  <2>3. v[a + i] = stream[i]
    BY <1>5, <2>1, <2>2
  <2> QED BY <1>16, <2>1, <2>3
<1>19. Holds(g, n + 2, stream)
  <2>1. Len(g) >= n + 2 + Len(stream)
    BY <1>1, <1>2, <1>3, <1>11
  <2>2. \A i \in 1 .. Len(stream) : g[n + 2 + i] = stream[i]
    BY <1>1, <1>2, <1>18
  <2> QED BY <2>1, <2>2 DEF Holds
<1>20. d = n + Len(stream) + 3 /\ d + 1 = n + Len(stream) + 4 /\ a = n + 2
  BY <1>1, <1>2
<1>21. Stream0In(g, f, n, stream, sha, z)
  BY <1>11, <1>15, <1>17, <1>19, <1>20 DEF Stream0In
<1> QED BY <1>5, <1>7, <1>9, <1>21

\* It has the record of stream 0, and the other records in front of stream 0.
Stream0Fits(g, f, n, stream, sha, z, law) ==
  Stream0In(g, f, n, stream, sha, z) =>
    Sound(g, 0, law) /\ TailUnique(g) /\ TailBehind(g, n)

LEMMA Stream0Sound ==
  ASSUME NEW f, IsFile(f), NEW n \in Nat, NEW stream, AllBytes(stream), NEW law,
         stream \in law[0], NEW sha, ~ IsEof(sha),
         NEW z, z = Eof(TRUE, stream, Len(stream), TRUE),
         NEW g, Sound(f, 0, law), TailBehind(f, n)
  PROVE  Stream0Fits(g, f, n, stream, sha, z, law)
<1> SUFFICES ASSUME Stream0In(g, f, n, stream, sha, z)
             PROVE  Sound(g, 0, law) /\ TailUnique(g) /\ TailBehind(g, n)
  BY DEF Stream0Fits
<1>1. PICK m : m = Len(stream)
  OBVIOUS
<1>2. m \in Nat /\ Len(f) \in Nat
  BY <1>1, FileFacts DEF AllBytes
<1>3. /\ IsFile(g) /\ Len(g) = n + m + 4
      /\ \A i \in 1 .. n + 2 : g[i] = IF i <= Len(f) THEN f[i] ELSE Byte(0)
      /\ \A i \in 1 .. m : g[n + 2 + i] = stream[i]
      /\ g[n + m + 3] = sha /\ g[n + m + 4] = z
  BY <1>1 DEF Stream0In, Holds
<1>4. IsEof(z) /\ z.hasSha /\ z.hasCrc /\ z.crc = stream /\ z.size = m
  BY <1>1 DEF Eof, IsEof
<1>5. ASSUME NEW i \in 1 .. Len(g), IsEof(g[i]), i # Len(g)
      PROVE  i < n + 3 /\ i \in 1 .. Len(f) /\ g[i] = f[i] /\ ~ g[i].hasSha
  <2>1. CASE i <= n + 2
    <3>1. i \in 1 .. n + 2
      BY <1>2, <1>3, <2>1
    <3>2. i <= Len(f)
      BY <1>3, <1>5, <3>1 DEF Byte, IsEof
    <3>3. i \in 1 .. Len(f) /\ g[i] = f[i] /\ i < n + 3
      <4>1. i \in 1 .. Len(f) /\ i < n + 3
        BY <1>2, <3>1, <3>2
      <4>2. g[i] = f[i]
        BY <1>3, <3>1, <3>2
      <4> QED BY <4>1, <4>2
    <3>4. TailEof(f[i]) => i >= n + 3
      BY <3>3 DEF TailBehind
    <3> QED BY <1>5, <3>1, <3>3, <3>4 DEF TailEof
  <2>2. CASE i > n + 2 /\ i <= n + 2 + m
    <3>1. i - (n + 2) \in 1 .. m /\ n + 2 + (i - (n + 2)) = i
      BY <1>2, <1>3, <2>2
    <3>2. g[i] = stream[i - (n + 2)]
      BY <1>3, <3>1
    <3>3. stream[i - (n + 2)].kind = "byte"
      BY <1>1, <3>1 DEF AllBytes
    <3> QED BY <1>5, <3>2, <3>3 DEF IsEof
  <2>3. CASE i > n + 2 + m
    <3>1. i = n + m + 3
      BY <1>2, <1>3, <1>5, <2>3
    <3> QED BY <1>3, <1>5, <3>1
  <2> QED BY <1>2, <1>3, <2>1, <2>2, <2>3
<1>6. Len(g) \in 1 .. Len(g) /\ g[Len(g)] = z /\ Len(g) >= n + 3
  BY <1>2, <1>3
<1>7. Sound(g, 0, law)
  <2> SUFFICES ASSUME NEW i \in 1 .. Len(g), IsEof(g[i])
               PROVE  SoundEof(g[i], 0, law)
    BY DEF Sound
  <2>1. CASE i = Len(g)
    BY <1>1, <1>4, <1>6, <2>1 DEF SoundEof
  <2>2. CASE i # Len(g)
    BY <1>5, <2>2 DEF Sound
  <2> QED BY <2>1, <2>2
<1>8. \A i \in 1 .. Len(g) : TailEof(g[i]) => i = Len(g)
  BY <1>5 DEF TailEof
<1>9. \A i \in 1 .. Len(g) : InnerEof(g[i]) => i < Len(g)
  <2> SUFFICES ASSUME NEW i \in 1 .. Len(g), InnerEof(g[i])
               PROVE  i < Len(g)
    OBVIOUS
  <2>1. i # Len(g)
    BY <1>4, <1>6 DEF InnerEof
  <2> QED BY <1>2, <1>3, <2>1
<1> QED BY <1>6, <1>7, <1>8, <1>9 DEF TailUnique, TailBehind

\* The calls that do it.
Stream0Done(files, calls, n, stream, sha, z) ==
  /\ IsFile(calls)
  /\ \E g : /\ After(files, calls) = [files EXCEPT ![0] = g]
            /\ Stream0In(g, files[0], n, stream, sha, z)
  /\ \A t \in TornIn(files, calls) : \E h :
       t = [files EXCEPT ![0] = h] /\ IsFile(h) /\ FewerEofs(h, files[0])

IsConcat(u, s, t) ==
  /\ IsFile(u) /\ Len(u) = Len(s) + Len(t)
  /\ \A n \in 1 .. Len(s) + Len(t) : u[n] = IF n <= Len(s) THEN s[n] ELSE t[n - Len(s)]

LEMMA ConcatIs ==
  ASSUME NEW s, IsFile(s), NEW t, IsFile(t), NEW u, u = s \o t
  PROVE  IsConcat(u, s, t)
BY ConcatFacts DEF IsConcat

ThreeIs(a, b, c, l, x, y, z) == l = (x \o y) \o z

LEMMA ThreeCalls ==
  ASSUME NEW a, NEW b, NEW c, NEW l, l = <<a, b, c>>,
         NEW x, x = <<a>>, NEW y, y = <<b>>, NEW z, z = <<c>>
  PROVE  ThreeIs(a, b, c, l, x, y, z)
<1>1. PICK xy, r : xy = x \o y /\ r = xy \o z
  OBVIOUS
<1>2. l \in Seq({a, b, c}) /\ Len(l) = 3 /\ l[1] = a /\ l[2] = b /\ l[3] = c
  BY <1>1
<1>3. IsFile(l)
  BY <1>2 DEF IsFile
<1>4. /\ IsFile(x) /\ Len(x) = 1 /\ x[1] = a
      /\ IsFile(y) /\ Len(y) = 1 /\ y[1] = b
      /\ IsFile(z) /\ Len(z) = 1 /\ z[1] = c
  BY <1>1, SingleIsFile
<1>5. /\ IsFile(xy) /\ Len(xy) = Len(x) + Len(y)
      /\ \A n \in 1 .. Len(x) + Len(y) : xy[n] = IF n <= Len(x) THEN x[n] ELSE y[n - Len(x)]
  <2>1. IsConcat(xy, x, y)
    BY <1>1, <1>4, ConcatIs
  <2> QED BY <2>1 DEF IsConcat
<1>6. Len(xy) = 2 /\ xy[1] = a /\ xy[2] = b
  BY <1>4, <1>5
<1>7. /\ IsFile(r) /\ Len(r) = Len(xy) + Len(z)
      /\ \A n \in 1 .. Len(xy) + Len(z) : r[n] = IF n <= Len(xy) THEN xy[n] ELSE z[n - Len(xy)]
  <2>1. IsConcat(r, xy, z)
    BY <1>1, <1>4, <1>5, ConcatIs
  <2> QED BY <2>1 DEF IsConcat
<1>8. Len(r) = 3 /\ r[1] = a /\ r[2] = b /\ r[3] = c
  BY <1>4, <1>6, <1>7
<1>9. \A i \in 1 .. Len(l) : l[i] = r[i]
  BY <1>2, <1>8
<1>10. l = r
  BY <1>2, <1>3, <1>7, <1>8, <1>9, SameFile
<1> QED BY <1>1, <1>10 DEF ThreeIs

\* One list of calls after another.
Then(files, s, mid, t, u) ==
  /\ After(files, u) = After(mid, t) /\ IsFile(u)
  /\ \A x \in TornIn(files, u) : x \in TornIn(files, s) \/ x \in TornIn(mid, t)

LEMMA AfterTwo ==
  ASSUME NEW files, NEW s, IsFile(s), NEW t, IsFile(t), NEW mid, mid = After(files, s),
         NEW u, u = s \o t
  PROVE  Then(files, s, mid, t, u)
<1>1. After(files, s \o t) = After(After(files, s), t)
  BY AfterConcat
<1>2. \A x \in TornIn(files, s \o t) : x \in TornIn(files, s) \/ x \in TornIn(After(files, s), t)
  BY TornConcat
<1>3. IsFile(u)
  BY ConcatFacts
<1> QED BY <1>1, <1>2, <1>3 DEF Then

\* A call on the first file, when it is u.
Called(files, u, o, cells) ==
  LET k == [files EXCEPT ![0] = u]
  IN /\ After(k, <<WriteCall(0, o, cells)>>) = [files EXCEPT ![0] = WriteAt(u, o, cells)]
     /\ After(k, <<SetLengthCall(0, o)>>) = [files EXCEPT ![0] = SetLength(u, o)]
     /\ TornIn(k, <<SetLengthCall(0, o)>>) = {k}

LEMMA CalledIs ==
  ASSUME NEW files, files = [j \in FileIndices |-> files[j]], NEW u, NEW o, NEW cells
  PROVE  Called(files, u, o, cells)
<1>1. PICK k : k = [files EXCEPT ![0] = u]
  OBVIOUS
<1>2. /\ After(k, <<WriteCall(0, o, cells)>>) = With(k, 0, WriteAt(k[0], o, cells))
      /\ After(k, <<SetLengthCall(0, o)>>) = With(k, 0, SetLength(k[0], o))
      /\ TornIn(k, <<SetLengthCall(0, o)>>) = {k}
  BY WriteAfter, SetLengthAfter, SetLengthTorn
<1>3. k[0] = u /\ \A y : With(k, 0, y) = [files EXCEPT ![0] = y]
  <2>1. 0 \in FileIndices
    BY DEF FileIndices
  <2> QED BY <1>1, <2>1 DEF With
<1> QED BY <1>1, <1>2, <1>3 DEF Called

\* Stream 0, the SHA-256, the cut, and the record.
AreStream0Calls(calls, n, stream, sha, z) ==
  \E a, b, d : /\ a = n + 2 /\ b = n + 2 + Len(stream) /\ d = n + Len(stream) + 3
               /\ calls = <<WriteCall(0, a, stream), WriteCall(0, b, <<sha>>), SetLengthCall(0, d)>>
                            \o <<WriteCall(0, d, <<z>>)>>

LEMMA Stream0Calls ==
  ASSUME NEW files, files = [j \in FileIndices |-> files[j]], IsFile(files[0]),
         NEW n \in Nat, NEW stream, AllBytes(stream), NEW sha, ~ IsEof(sha), NEW z,
         NEW calls, AreStream0Calls(calls, n, stream, sha, z)
  PROVE  Stream0Done(files, calls, n, stream, sha, z)
<1>0. PICK a, b, d :
        /\ a = n + 2 /\ b = n + 2 + Len(stream) /\ d = n + Len(stream) + 3
        /\ calls = <<WriteCall(0, a, stream), WriteCall(0, b, <<sha>>), SetLengthCall(0, d)>>
                     \o <<WriteCall(0, d, <<z>>)>>
  BY Zenon DEF AreStream0Calls
<1>01. a = n + 2 /\ b = n + 2 + Len(stream) /\ d = n + Len(stream) + 3
  BY <1>0
<1> DEFINE G(u) == [files EXCEPT ![0] = u]
<1>1. PICK p, q, r, s, sha1, z1 :
        /\ sha1 = <<sha>> /\ z1 = <<z>>
        /\ p = <<WriteCall(0, a, stream)>> /\ q = <<WriteCall(0, b, sha1)>>
        /\ r = <<SetLengthCall(0, d)>> /\ s = <<WriteCall(0, d, z1)>>
  OBVIOUS
<1>2. calls = ((p \o q) \o r) \o s
  <2>1. PICK c1, c2, c3 : /\ c1 = WriteCall(0, a, stream) /\ c2 = WriteCall(0, b, sha1)
                          /\ c3 = SetLengthCall(0, d)
    OBVIOUS
  <2>2. PICK l : l = <<c1, c2, c3>>
    OBVIOUS
  <2>3. calls = l \o s /\ p = <<c1>> /\ q = <<c2>> /\ r = <<c3>>
    BY <1>0, <1>1, <2>1, <2>2
  <2>4. l = (p \o q) \o r
    <3>1. ThreeIs(c1, c2, c3, l, p, q, r)
      BY <2>2, <2>3, ThreeCalls
    <3> QED BY <3>1 DEF ThreeIs
  <2> QED BY <2>3, <2>4
<1>3. IsFile(p) /\ IsFile(q) /\ IsFile(r) /\ IsFile(s)
  BY <1>1, SingleIsFile
<1>4. PICK f, v, w, x, g, m :
        /\ f = files[0] /\ m = Len(stream) /\ v = WriteAt(f, a, stream) /\ w = PutOne(v, b, sha)
        /\ x = SetLength(w, d) /\ g = PutOne(x, d, z)
  OBVIOUS
<1>5. /\ IsFile(f) /\ IsFile(stream) /\ NoEofs(stream) /\ m \in Nat
      /\ a \in Nat /\ b \in Nat /\ d \in Nat
  <2>1. IsFile(stream) /\ IsFile(f) /\ NoEofs(stream)
    BY <1>4, BytesAreNoEofs DEF AllBytes
  <2>2. m \in Nat /\ Len(stream) \in Nat
    BY <1>4, <2>1, FileFacts
  <2> QED BY <1>01, <2>1, <2>2
<1>6. Stream0In(g, f, n, stream, sha, z) /\ IsFile(v) /\ IsFile(w) /\ IsFile(x)
  <2>1. a = n + 2 /\ b = n + 2 + m /\ d = n + m + 3
    BY <1>01, <1>4
  <2> QED BY <1>4, <1>5, <2>1, Stream0Steps
<1>7. /\ G(f) = files
      /\ \A u : G(u)[0] = u /\ G(u) = [j \in FileIndices |-> G(u)[j]]
      /\ \A u, y : [G(u) EXCEPT ![0] = y] = G(y)
  <2>1. 0 \in FileIndices
    BY DEF FileIndices
  <2> QED BY <1>4, <2>1
<1> HIDE DEF G
<1>8. TornIn(G(w), r) = {G(w)}
  <2>1. Called(files, w, d, sha1)
    BY CalledIs
  <2> QED BY <1>1, <2>1 DEF Called, G
<1>9. After(files, p) = G(v) /\ After(G(v), q) = G(w) /\ After(G(w), r) = G(x)
      /\ After(G(x), s) = G(g)
  <2>1. /\ Called(files, f, a, stream) /\ Called(files, v, b, sha1)
        /\ Called(files, w, d, sha1) /\ Called(files, x, d, z1)
    BY CalledIs
  <2>2. w = WriteAt(v, b, sha1) /\ g = WriteAt(x, d, z1)
    BY <1>1, <1>4 DEF PutOne
  <2>3. After(G(f), p) = G(v)
    BY <1>1, <1>4, <2>1 DEF Called, G
  <2>4. After(G(v), q) = G(w)
    BY <1>1, <2>1, <2>2 DEF Called, G
  <2>5. After(G(x), s) = G(g)
    BY <1>1, <2>1, <2>2 DEF Called, G
  <2>6. After(G(w), r) = G(x)
    BY <1>1, <1>4, <2>1 DEF Called, G
  <2> QED BY <1>7, <2>3, <2>4, <2>5, <2>6
<1>10. ASSUME NEW t \in TornIn(files, p)
       PROVE  \E h : t = G(h) /\ IsFile(h) /\ FewerEofs(h, f)
  <2>1. PICK i \in 0 .. Len(stream) - 1 : t = G(WriteAt(f, a, SubSeq(stream, 1, i)))
    <3>1. \A u \in TornIn(files, <<WriteCall(0, a, stream)>>) :
            \E i \in 0 .. Len(stream) - 1 :
              u = [files EXCEPT ![0] = WriteAt(files[0], a, SubSeq(stream, 1, i))]
      BY WriteTorn
    <3> QED BY <1>1, <1>4, <1>10, <3>1 DEF G
  <2>2. PICK part : part = SubSeq(stream, 1, i)
    OBVIOUS
  <2>3. IsFile(part) /\ Len(part) = i /\ \A j \in 1 .. i : part[j] = stream[j]
    <3>1. i \in 0 .. Len(stream)
      BY <1>4, <1>5
    <3> QED BY <1>5, <2>2, <3>1, FirstPart
  <2>4. NoEofs(part)
    <3>1. \A j \in 1 .. i : j \in 1 .. Len(stream)
      BY <1>4, <1>5
    <3> QED BY <1>5, <2>3, <3>1 DEF NoEofs
  <2>5. IsFile(WriteAt(f, a, part)) /\ FewerEofs(WriteAt(f, a, part), f)
    BY <1>5, <2>3, <2>4, WriteAtFacts, FewerWriteAt
  <2> QED BY <2>1, <2>2, <2>5
<1>11. FewerEofs(v, f) /\ FewerEofs(w, f) /\ FewerEofs(x, f)
  <2>1. FewerEofs(v, f)
    BY <1>4, <1>5, FewerWriteAt
  <2>2. IsFile(sha1) /\ NoEofs(sha1)
    <3>1. IsFile(sha1) /\ Len(sha1) = 1 /\ sha1[1] = sha
      BY <1>1, SingleIsFile
    <3> QED BY <3>1 DEF NoEofs
  <2>3. w = WriteAt(v, b, sha1)
    BY <1>1, <1>4 DEF PutOne
  <2>4. FewerEofs(w, v)
    BY <1>5, <1>6, <2>2, <2>3, FewerWriteAt
  <2>5. FewerEofs(x, w)
    BY <1>4, <1>5, <1>6, FewerSetLength
  <2>6. FewerEofs(w, f)
    BY <2>1, <2>4, FewerTrans
  <2> QED BY <2>1, <2>5, <2>6, FewerTrans
<1>12. /\ \A t \in TornIn(G(v), q) : t = G(v)
       /\ TornIn(G(w), r) = {G(w)}
       /\ \A t \in TornIn(G(x), s) : t = G(x)
  <2>1. PICK k, l : k = G(v) /\ l = G(x)
    OBVIOUS
  <2>2. k = [j \in FileIndices |-> k[j]] /\ l = [j \in FileIndices |-> l[j]]
    BY <1>7, <2>1
  <2>3. /\ \A t \in TornIn(k, <<WriteCall(0, b, <<sha>>)>>) : t = k
        /\ \A t \in TornIn(l, <<WriteCall(0, d, <<z>>)>>) : t = l
    BY <2>2, OneTorn
  <2> QED BY <1>1, <1>8, <2>1, <2>3
<1>13. PICK pq, pqr : pq = p \o q /\ pqr = pq \o r
  OBVIOUS
<1>14. /\ After(files, pq) = G(w) /\ IsFile(pq)
       /\ \A t \in TornIn(files, pq) : t \in TornIn(files, p) \/ t \in TornIn(G(v), q)
  <2>1. PICK mid : mid = G(v)
    OBVIOUS
  <2>2. mid = After(files, p) /\ IsFile(p) /\ IsFile(q) /\ pq = p \o q
    BY <1>3, <1>9, <1>13, <2>1
  <2>3. Then(files, p, mid, q, pq)
    BY <2>2, AfterTwo
  <2> QED BY <1>9, <2>1, <2>3 DEF Then
<1>15. /\ After(files, pqr) = G(x) /\ IsFile(pqr)
       /\ \A t \in TornIn(files, pqr) : t \in TornIn(files, pq) \/ t \in TornIn(G(w), r)
  <2>1. PICK mid : mid = G(w)
    OBVIOUS
  <2>2. mid = After(files, pq) /\ IsFile(pq) /\ IsFile(r) /\ pqr = pq \o r
    BY <1>3, <1>9, <1>13, <1>14, <2>1
  <2>3. Then(files, pq, mid, r, pqr)
    BY <2>2, AfterTwo
  <2> QED BY <1>9, <2>1, <2>3 DEF Then
<1>16. calls = pqr \o s
  BY <1>2, <1>13
<1>17. /\ After(files, calls) = G(g) /\ IsFile(calls)
       /\ \A t \in TornIn(files, calls) : t \in TornIn(files, pqr) \/ t \in TornIn(G(x), s)
  <2>1. PICK mid : mid = G(x)
    OBVIOUS
  <2>2. mid = After(files, pqr) /\ IsFile(pqr) /\ IsFile(s) /\ calls = pqr \o s
    BY <1>3, <1>9, <1>15, <1>16, <2>1
  <2>3. Then(files, pqr, mid, s, calls)
    BY <2>2, AfterTwo
  <2> QED BY <1>9, <2>1, <2>3 DEF Then
<1>18. ASSUME NEW t \in TornIn(files, calls)
       PROVE  \E h : t = G(h) /\ IsFile(h) /\ FewerEofs(h, f)
  <2>1. t \in TornIn(files, p) \/ t = G(v) \/ t = G(w) \/ t = G(x)
    BY <1>12, <1>14, <1>15, <1>17, <1>18
  <2> QED BY <1>6, <1>10, <1>11, <2>1
<1> QED BY <1>4, <1>6, <1>17, <1>18 DEF Stream0Done, G

-------------------------------------------------------------------------------
(* Close: the records of streams 1 and 2 *)

LEMMA EofOfIs ==
  ASSUME NEW e, NEW s \in {1, 2}, NEW b, IsFile(b), e.size[s] = Len(b),
         CrcOf(e.crc[s], e.crcEnd[s], b), NEW z, z = EofOf(e, s)
  PROVE  IsEof(z) /\ RecordOf(z, b) /\ z.size = 0
<1>1. PICK known, crc : /\ known = (e.crcEnd[s] = e.size[s])
                        /\ crc = IF e.size[s] = 0 THEN <<>> ELSE e.crc[s]
  OBVIOUS
<1>0. s # 0
  OBVIOUS
<1>2. z = Eof(known, crc, 0, FALSE)
  <2>1. z = Eof(e.crcEnd[s] = e.size[s], IF e.size[s] = 0 THEN <<>> ELSE e.crc[s], 0, FALSE)
    BY <1>0, ZenonT(30) DEF EofOf
  <2> QED BY <1>1, <2>1
<1>3. z.kind = "eof" /\ z.hasCrc = known /\ ~ z.hasSha /\ z.size = 0 /\ (known => z.crc = crc)
  BY <1>2 DEF Eof
<1>4. ASSUME known
      PROVE  crc = b
  <2>1. CASE e.size[s] = 0
    BY <1>1, <2>1, FileFacts
  <2>2. CASE e.size[s] # 0
    <3>0. Len(b) \in Nat
      BY FileFacts
    <3>1. e.crcEnd[s] = e.size[s]
      BY <1>1, <1>4, Zenon
    <3>2. e.crcEnd[s] = Len(b) /\ Len(b) > 0
      BY <2>2, <3>0, <3>1
    <3>3. crc = SubSeq(b, 1, Len(b))
      <4>1. crc = e.crc[s]
        BY <1>1, <2>2, Zenon
      <4> QED BY <3>2, <4>1 DEF CrcOf
    <3> QED BY <3>3, WholeIs
  <2> QED BY <2>1, <2>2
<1> QED BY <1>3, <1>4 DEF IsEof, RecordOf, InnerEof

\* The file with such a record behind the stream, which has n bytes.
RecordIn(g, f, n, z) ==
  /\ IsFile(g) /\ Len(g) = IF Len(f) > n + 2 THEN Len(f) ELSE n + 2
  /\ g[n + 2] = z
  /\ \A j \in 1 .. Len(g) : j # n + 2 => j \in 1 .. Len(f) /\ g[j] = f[j]

LEMMA RecordPut ==
  ASSUME NEW f, IsFile(f), NEW n \in Nat, Len(f) >= n + 1, NEW z,
         NEW m, m = n + 1, NEW g, g = PutOne(f, m, z)
  PROVE  RecordIn(g, f, n, z)
<1>1. OnePut(g, f, m, z) /\ Len(f) \in Nat /\ m \in Nat /\ m + 1 = n + 2
  BY OnePutIs, FileFacts
<1>2. /\ IsFile(g) /\ Len(g) = IF Len(f) > m THEN Len(f) ELSE m + 1
      /\ g[m + 1] = z
      /\ \A i \in 1 .. Len(g) : i # m + 1 => g[i] = IF i <= Len(f) THEN f[i] ELSE Byte(0)
  BY <1>1 DEF OnePut
<1>3. \A j \in 1 .. Len(g) : j # n + 2 => j \in 1 .. Len(f) /\ g[j] = f[j]
  <2> SUFFICES ASSUME NEW j \in 1 .. Len(g), j # n + 2
               PROVE  j \in 1 .. Len(f) /\ g[j] = f[j]
    OBVIOUS
  <2>1. j <= Len(f) /\ j # m + 1
    BY <1>1, <1>2
  <2> QED BY <1>1, <1>2, <2>1
<1>4. Len(g) = IF Len(f) > n + 2 THEN Len(f) ELSE n + 2
  BY <1>1, <1>2
<1> QED BY <1>1, <1>2, <1>3, <1>4 DEF RecordIn

LEMMA RecordSound ==
  ASSUME NEW f, NEW g, NEW n \in Nat, NEW z, RecordIn(g, f, n, z), NEW i \in {0, 1}, NEW law,
         IsEof(z), ~ z.hasSha, z.size = 0, z.hasCrc => z.crc \in law[i + 1], Sound(f, i, law)
  PROVE  /\ Sound(g, i, law)
         /\ TailUnique(f) /\ TailBehind(f, n) => TailUnique(g)
<1>1. /\ g[n + 2] = z
      /\ \A j \in 1 .. Len(g) : j # n + 2 => j \in 1 .. Len(f) /\ g[j] = f[j]
  BY DEF RecordIn
<1>2. SoundEof(z, i, law)
  BY DEF SoundEof
<1>3. Sound(g, i, law)
  <2> SUFFICES ASSUME NEW j \in 1 .. Len(g), IsEof(g[j])
               PROVE  SoundEof(g[j], i, law)
    BY DEF Sound
  <2>1. CASE j = n + 2
    BY <1>1, <1>2, <2>1
  <2>2. CASE j # n + 2
    BY <1>1, <2>2 DEF Sound
  <2> QED BY <2>1, <2>2
<1>4. ASSUME TailUnique(f), TailBehind(f, n)
      PROVE  TailUnique(g)
  <2>1. \A j \in 1 .. Len(g) : TailEof(g[j]) => j \in 1 .. Len(f) /\ TailEof(f[j]) /\ g[j] = f[j]
    BY <1>1 DEF TailEof
  <2>2. \A j, k \in 1 .. Len(g) : TailEof(g[j]) /\ TailEof(g[k]) => j = k
    BY <1>4, <2>1 DEF TailUnique
  <2>3. ASSUME NEW j \in 1 .. Len(g), NEW k \in 1 .. Len(g), InnerEof(g[j]), TailEof(g[k])
        PROVE  j < k
    <3>1. k \in 1 .. Len(f) /\ TailEof(f[k]) /\ k >= n + 3
      BY <1>4, <2>1, <2>3 DEF TailBehind
    <3>2. CASE j = n + 2
      BY <3>1, <3>2
    <3>3. CASE j # n + 2
      <4>1. j \in 1 .. Len(f) /\ InnerEof(f[j])
        BY <1>1, <2>3, <3>3
      <4> QED BY <1>4, <3>1, <4>1 DEF TailUnique
    <3> QED BY <3>2, <3>3
  <2> QED BY <2>2, <2>3 DEF TailUnique
<1> QED BY <1>3, <1>4

\* What is before the record stays.
LEMMA RecordLeaves ==
  ASSUME NEW f, NEW g, NEW n \in Nat, NEW z, IsFile(f), RecordIn(g, f, n, z),
         NEW b, Len(b) = n, Holds(f, 1, b)
  PROVE  /\ Holds(g, 1, b)
         /\ \A k, stream : IsFile(stream) /\ TailExact(f, k, n, stream) => TailExact(g, k, n, stream)
<1>1. /\ IsFile(g) /\ Len(g) = IF Len(f) > n + 2 THEN Len(f) ELSE n + 2
      /\ \A j \in 1 .. Len(g) : j # n + 2 => g[j] = f[j]
      /\ Len(f) \in Nat
  BY FileFacts DEF RecordIn
<1>2. Holds(g, 1, b)
  <2>1. Len(g) >= 1 + Len(b)
    BY <1>1
  <2>2. ASSUME NEW i \in 1 .. Len(b)
        PROVE  g[1 + i] = b[i]
    <3>1. 1 + i \in 1 .. Len(g) /\ 1 + i # n + 2
      BY <1>1
    <3> QED BY <1>1, <3>1 DEF Holds
  <2> QED BY <2>1, <2>2 DEF Holds
<1>3. ASSUME NEW k, NEW stream, IsFile(stream), TailExact(f, k, n, stream)
      PROVE  TailExact(g, k, n, stream)
  <2>1. PICK m : m = Len(stream)
    OBVIOUS
  <2>2. /\ m \in Nat /\ Len(f) = n + m + 4 /\ f[n + m + 3] = Sha256(k)
        /\ f[n + m + 4] = Eof(TRUE, stream, Len(stream), TRUE)
        /\ \A i \in 1 .. m : f[n + 2 + i] = stream[i]
    BY <1>3, <2>1, FileFacts DEF TailExact, Holds
  <2>3. Len(g) = n + m + 4
    BY <1>1, <2>2
  <2>4. \A j \in n + 3 .. n + m + 4 : g[j] = f[j]
    <3> SUFFICES ASSUME NEW j \in n + 3 .. n + m + 4
                 PROVE  g[j] = f[j]
      OBVIOUS
    <3>1. j \in 1 .. Len(g) /\ j # n + 2
      BY <2>2, <2>3
    <3> QED BY <1>1, <3>1
  <2>5. g[n + m + 3] = Sha256(k) /\ g[n + m + 4] = Eof(TRUE, stream, Len(stream), TRUE)
    <3>1. n + m + 3 \in n + 3 .. n + m + 4 /\ n + m + 4 \in n + 3 .. n + m + 4
      BY <2>2
    <3> QED BY <2>2, <2>4, <3>1
  <2>6. ASSUME NEW i \in 1 .. m
        PROVE  g[n + 2 + i] = stream[i]
    <3>1. n + 2 + i \in n + 3 .. n + m + 4
      BY <2>2
    <3> QED BY <2>2, <2>4, <3>1
  <2>7. Holds(g, n + 2, stream)
    <3>1. Len(g) >= n + 2 + Len(stream)
      BY <2>1, <2>2, <2>3
    <3> QED BY <2>1, <2>6, <3>1 DEF Holds
  <2> QED BY <2>1, <2>3, <2>5, <2>7 DEF TailExact
<1> QED BY <1>2, <1>3

\* What Close writes, with the offsets.
CallsOfClose(e, n0, n1, n2, z0, z1, z2) ==
  /\ CloseCalls(e, 0) =
       IF e.written[0]
       THEN <<WriteCall(0, n1 + 2, e.stream0), WriteCall(0, n1 + 2 + n0, <<Sha256(e.key)>>),
              SetLengthCall(0, n1 + n0 + 3)>> \o <<WriteCall(0, n1 + n0 + 3, <<z0>>)>>
       ELSE <<>>
  /\ CloseCalls(e, 1) = IF e.written[1] THEN <<WriteCall(0, n1 + 1, <<z1>>)>> ELSE <<>>
  /\ CloseCalls(e, 2) = IF e.written[2] /\ e.file[1] # Missing
                        THEN <<WriteCall(1, n2 + 1, <<z2>>)>> ELSE <<>>

LEMMA CloseOffsets ==
  ASSUME NEW size, NEW n0 \in Nat, NEW n1 \in Nat, NEW n2 \in Nat,
         size[0] = n0, size[1] = n1, size[2] = n2
  PROVE  /\ GetOffsetInFile(size, 0, 0) = n1 + 2
         /\ GetEOFOffsetInFile(size, 0) = n1 + n0 + 3
         /\ GetEOFOffsetInFile(size, 1) = n1 + 1
         /\ GetEOFOffsetInFile(size, 2) = n2 + 1
<1>1. HeaderSize = 1 /\ EofSize = 1 /\ Sha256Size = 1
  BY EntryAssumption
<1>2. /\ GetOffsetInFile(size, 0, 0) = n1 + 2 /\ GetOffsetInFile(size, n0, 0) = n1 + n0 + 2
      /\ GetOffsetInFile(size, n1, 1) = n1 + 1 /\ GetOffsetInFile(size, n2, 2) = n2 + 1
  BY <1>1 DEF GetOffsetInFile
<1> QED BY <1>1, <1>2 DEF GetEOFOffsetInFile

LEMMA CloseCallsAre ==
  ASSUME NEW e, ~ e.failed, ~ Omitted(e, 0), NEW n0 \in Nat, NEW n1 \in Nat, NEW n2 \in Nat,
         e.size[0] = n0, e.size[1] = n1, e.size[2] = n2,
         NEW z0, z0 = EofOf(e, 0), NEW z1, z1 = EofOf(e, 1), NEW z2, z2 = EofOf(e, 2)
  PROVE  CallsOfClose(e, n0, n1, n2, z0, z1, z2)
<1>1. /\ GetOffsetInFile(e.size, 0, 0) = n1 + 2
      /\ GetEOFOffsetInFile(e.size, 0) = n1 + n0 + 3
      /\ GetEOFOffsetInFile(e.size, 1) = n1 + 1
      /\ GetEOFOffsetInFile(e.size, 2) = n2 + 1
  BY CloseOffsets
<1>2. /\ GetFileIndexFromStreamIndex(0) = 0 /\ GetFileIndexFromStreamIndex(1) = 0
      /\ GetFileIndexFromStreamIndex(2) = 1
  BY DEF GetFileIndexFromStreamIndex
<1>3. PICK a, b, d, x1, x2 : /\ a = GetOffsetInFile(e.size, 0, 0) /\ b = a + n0
                             /\ d = GetEOFOffsetInFile(e.size, 0)
                             /\ x1 = GetEOFOffsetInFile(e.size, 1)
                             /\ x2 = GetEOFOffsetInFile(e.size, 2)
  OBVIOUS
<1>4. /\ PayloadCalls(e, 0) = <<WriteCall(0, a, e.stream0), WriteCall(0, b, <<Sha256(e.key)>>),
                                SetLengthCall(0, d)>>
      /\ PayloadCalls(e, 1) = <<>> /\ PayloadCalls(e, 2) = <<>>
  BY <1>3 DEF PayloadCalls
<1>5. PICK p, r0, r1, r2 : /\ p = PayloadCalls(e, 0)
                           /\ r0 = <<WriteCall(0, d, <<z0>>)>> /\ r1 = <<WriteCall(0, x1, <<z1>>)>>
                           /\ r2 = <<WriteCall(1, x2, <<z2>>)>>
  OBVIOUS
<1>6. CloseCalls(e, 0) = IF e.written[0] THEN p \o r0 ELSE <<>>
  BY <1>2, <1>3, <1>5, ZenonT(30) DEF CloseCalls
<1>7. CloseCalls(e, 1) = IF e.written[1] THEN <<>> \o r1 ELSE <<>>
  BY <1>2, <1>3, <1>4, <1>5, ZenonT(30) DEF CloseCalls
<1>8. CloseCalls(e, 2) = IF e.written[2] /\ e.file[1] # Missing THEN <<>> \o r2 ELSE <<>>
  BY <1>2, <1>3, <1>4, <1>5, ZenonT(30) DEF CloseCalls, Omitted
<1>9. <<>> \o r1 = r1 /\ <<>> \o r2 = r2
  <2>1. \A r : IsFile(r) => <<>> \o r = r
    <3> SUFFICES ASSUME NEW r, IsFile(r)
                 PROVE  <<>> \o r = r
      OBVIOUS
    <3>1. PICK S : r \in Seq(S)
      BY DEF IsFile
    <3> QED BY <3>1
  <2>2. IsFile(r1) /\ IsFile(r2)
    BY <1>5, SingleIsFile
  <2> QED BY <2>1, <2>2
<1>10. a = n1 + 2 /\ b = n1 + 2 + n0 /\ d = n1 + n0 + 3 /\ x1 = n1 + 1 /\ x2 = n2 + 1
  BY <1>1, <1>3
<1>11. CloseCalls(e, 0) =
         IF e.written[0]
         THEN <<WriteCall(0, n1 + 2, e.stream0), WriteCall(0, n1 + 2 + n0, <<Sha256(e.key)>>),
                SetLengthCall(0, n1 + n0 + 3)>> \o <<WriteCall(0, n1 + n0 + 3, <<z0>>)>>
         ELSE <<>>
  BY <1>4, <1>5, <1>6, <1>10, Zenon
<1>12. CloseCalls(e, 1) = IF e.written[1] THEN <<WriteCall(0, n1 + 1, <<z1>>)>> ELSE <<>>
  BY <1>5, <1>7, <1>9, <1>10, Zenon
<1>13. CloseCalls(e, 2) = IF e.written[2] /\ e.file[1] # Missing
                          THEN <<WriteCall(1, n2 + 1, <<z2>>)>> ELSE <<>>
  BY <1>5, <1>8, <1>9, <1>10, Zenon
<1> QED BY <1>11, <1>12, <1>13 DEF CallsOfClose

\* An entry that Close writes out.
Closing(e, c, law, dmg) ==
  /\ ~ e.failed /\ Shape(e) /\ FilesFull(e.file, e.key, e.born)
  /\ HistoryOK(c, law) /\ dmg \in BOOLEAN /\ ReadyOK(e, c, law, dmg)
  /\ e.stream0 = c[0] /\ c[0] \in law[0]
  /\ \A s \in Streams : e.size[s] = Len(c[s])

LEMMA ClosingFacts ==
  ASSUME Distinct, NEW e, NEW c, NEW law, NEW dmg, Closing(e, c, law, dmg)
  PROVE  /\ IsFile(e.file[0]) /\ ~ Omitted(e, 0) /\ e.file = [j \in FileIndices |-> e.file[j]]
         /\ AllBytes(c[0]) /\ IsFile(c[1]) /\ IsFile(c[2])
         /\ Len(c[0]) \in Nat /\ Len(c[1]) \in Nat /\ Len(c[2]) \in Nat
         /\ e.size[0] = Len(c[0]) /\ e.size[1] = Len(c[1]) /\ e.size[2] = Len(c[2])
         /\ \A s \in {0, 1, 2} : e.written[s] \in BOOLEAN
         /\ e.written[1] => e.written[0]
         /\ CrcOf(e.crc[1], e.crcEnd[1], c[1]) /\ CrcOf(e.crc[2], e.crcEnd[2], c[2])
         /\ e.written[1] => c[1] \in law[1]
         /\ e.written[2] => c[2] \in law[2]
<1>1. IsFile(e.file[0]) /\ ~ Omitted(e, 0) /\ e.file = [j \in FileIndices |-> e.file[j]]
  BY FirstFileIsThere DEF Closing
<1>2. 0 \in Streams /\ 1 \in Streams /\ 2 \in Streams
  BY DEF Streams
<1>3. AllBytes(c[0]) /\ IsFile(c[0]) /\ IsFile(c[1]) /\ IsFile(c[2])
  BY <1>2 DEF Closing, HistoryOK
<1>4. Len(c[0]) \in Nat /\ Len(c[1]) \in Nat /\ Len(c[2]) \in Nat
  BY <1>3, FileFacts
<1>5. e.size[0] = Len(c[0]) /\ e.size[1] = Len(c[1]) /\ e.size[2] = Len(c[2])
  BY <1>2 DEF Closing
<1>6. \A s \in {0, 1, 2} : e.written[s] \in BOOLEAN
  BY <1>2 DEF Closing, ReadyOK
<1>7. e.written[1] => e.written[0]
  BY DEF Closing, ReadyOK
<1>8. CrcOf(e.crc[1], e.crcEnd[1], c[1]) /\ CrcOf(e.crc[2], e.crcEnd[2], c[2])
  BY DEF Closing, ReadyOK, CrcsOK
<1>9. (e.written[1] => c[1] \in law[1]) /\ (e.written[2] => c[2] \in law[2])
  BY DEF Closing, ReadyOK
<1> QED BY <1>1, <1>3, <1>4, <1>5, <1>6, <1>7, <1>8, <1>9

\* The first file while Close is at work.
FirstSound(g, law) == Sound(g, 0, law) /\ TailUnique(g)

FirstHolds(g, c, law) ==
  IsFile(g) /\ FirstSound(g, law) /\ TailBehind(g, Len(c[1])) /\ Holds(g, 1, c[1])

FirstExact(g, k, c, others) ==
  /\ TailExact(g, k, Len(c[1]), c[0])
  /\ others => RecordOf(g[Len(c[1]) + 2], c[1])

Stream0Closed(e, c, law, dmg, u) ==
  /\ IsFile(u)
  /\ \E g : /\ After(e.file, u) = [e.file EXCEPT ![0] = g] /\ FirstHolds(g, c, law)
            /\ ~ dmg => FirstExact(g, e.key, c, ~ e.written[1])
  /\ \A t \in TornIn(e.file, u) : \E h : t = [e.file EXCEPT ![0] = h] /\ FirstSound(h, law)

\* Stream 0 behind stream 1: what of stream 1 and its record is as before.
FrontKept(g, f, n) ==
  /\ Len(g) >= n + 4
  /\ \A i \in 1 .. n + 2 : g[i] = IF i <= Len(f) THEN f[i] ELSE Byte(0)

StreamKept(g, f, n, b) ==
  Holds(g, 1, b) /\ (Len(f) >= n + 2 => g[n + 2] = f[n + 2])

LEMMA Stream0Behind ==
  ASSUME NEW f, IsFile(f), NEW b, IsFile(b), NEW n, n = Len(b), Holds(f, 1, b),
         NEW g, IsFile(g), FrontKept(g, f, n)
  PROVE  StreamKept(g, f, n, b)
<1>1. n \in Nat /\ Len(f) \in Nat /\ Len(f) >= 1 + n /\ \A i \in 1 .. n : f[1 + i] = b[i]
  BY FileFacts DEF Holds
<1>2. Len(g) \in Nat
  BY FileFacts
<1>3. /\ \A i \in 1 .. n + 2 : g[i] = IF i <= Len(f) THEN f[i] ELSE Byte(0)
      /\ Len(g) >= n + 4
  BY DEF FrontKept
<1>4. Len(g) >= n + 2
  BY <1>1, <1>2, <1>3
<1>5. Holds(g, 1, b)
  <2>1. ASSUME NEW i \in 1 .. n
        PROVE  g[1 + i] = b[i]
    <3>1. 1 + i \in 1 .. n + 2 /\ 1 + i <= Len(f)
      BY <1>1
    <3> QED BY <1>1, <1>3, <3>1
  <2> QED BY <1>1, <1>4, <2>1 DEF Holds
<1>6. Len(f) >= n + 2 => g[n + 2] = f[n + 2]
  <2>1. n + 2 \in 1 .. n + 2
    BY <1>1
  <2> QED BY <1>3, <2>1
<1> QED BY <1>5, <1>6 DEF StreamKept

LEMMA Stream0Close ==
  ASSUME Distinct, NEW e, NEW c, NEW law, NEW dmg, Closing(e, c, law, dmg),
         NEW u, u = CloseCalls(e, 0)
  PROVE  Stream0Closed(e, c, law, dmg, u)
<1>1. PICK f, n0, n1, n2, z0, z1, z2, sha, k :
        /\ f = e.file[0] /\ n0 = Len(c[0]) /\ n1 = Len(c[1]) /\ n2 = Len(c[2]) /\ k = e.key
        /\ z0 = EofOf(e, 0) /\ z1 = EofOf(e, 1) /\ z2 = EofOf(e, 2) /\ sha = Sha256(k)
  OBVIOUS
<1>2. /\ IsFile(f) /\ ~ Omitted(e, 0) /\ e.file = [j \in FileIndices |-> e.file[j]]
      /\ AllBytes(c[0]) /\ IsFile(c[1])
      /\ n0 \in Nat /\ n1 \in Nat /\ n2 \in Nat
      /\ e.size[0] = n0 /\ e.size[1] = n1 /\ e.size[2] = n2
      /\ e.written[0] \in BOOLEAN /\ (e.written[1] => e.written[0])
      /\ ~ e.failed /\ e.stream0 = c[0] /\ c[0] \in law[0]
  BY <1>1, ClosingFacts DEF Closing
<1>3. /\ Sound(f, 0, law) /\ TailUnique(f) /\ TailBehind(f, n1) /\ Holds(f, 1, c[1])
      /\ ~ dmg => UnwrittenExact(e, c)
  BY <1>1, <1>2 DEF Closing, ReadyOK, SoundFiles, StreamsHeld
<1>4. CallsOfClose(e, n0, n1, n2, z0, z1, z2)
  BY <1>1, <1>2, CloseCallsAre
<1>5. CASE ~ e.written[0]
  <2>1. u = <<>>
    BY <1>4, <1>5 DEF CallsOfClose
  <2>2. After(e.file, u) = e.file /\ TornIn(e.file, u) = {} /\ IsFile(u)
    BY <2>1, NothingDone
  <2>3. [e.file EXCEPT ![0] = f] = e.file
    BY <1>1, <1>2
  <2>4. FirstHolds(f, c, law)
    BY <1>1, <1>2, <1>3 DEF FirstHolds, FirstSound
  <2>5. ~ dmg => FirstExact(f, k, c, ~ e.written[1])
    BY <1>1, <1>3, <1>5 DEF FirstExact, UnwrittenExact
  <2> QED BY <1>1, <2>2, <2>3, <2>4, <2>5 DEF Stream0Closed
<1>6. CASE e.written[0]
  <2>1. PICK a, b, d : a = n1 + 2 /\ b = n1 + 2 + n0 /\ d = n1 + n0 + 3
    OBVIOUS
  <2>2. u = <<WriteCall(0, a, c[0]), WriteCall(0, b, <<sha>>), SetLengthCall(0, d)>>
              \o <<WriteCall(0, d, <<z0>>)>>
    BY <1>1, <1>2, <1>4, <1>6, <2>1 DEF CallsOfClose
  <2>3. ~ IsEof(sha)
    BY <1>1 DEF IsEof, Sha256
  <2>4. PICK files, stream : files = e.file /\ stream = c[0]
    OBVIOUS
  <2>5. Stream0Done(files, u, n1, stream, sha, z0)
    <3>1. files = [j \in FileIndices |-> files[j]] /\ IsFile(files[0]) /\ AllBytes(stream)
      BY <1>1, <1>2, <2>4
    <3>2. b = n1 + 2 + Len(stream) /\ d = n1 + Len(stream) + 3
      BY <1>1, <2>1, <2>4
    <3>3. AreStream0Calls(u, n1, stream, sha, z0)
      BY <2>1, <2>2, <2>4, <3>2, Zenon DEF AreStream0Calls
    <3> QED BY <1>2, <2>3, <3>1, <3>3, Stream0Calls
  <2>6. PICK g : /\ After(e.file, u) = [e.file EXCEPT ![0] = g]
                 /\ Stream0In(g, f, n1, stream, sha, z0)
    BY <1>1, <2>4, <2>5 DEF Stream0Done
  <2>7. z0 = Eof(TRUE, stream, Len(stream), TRUE)
    BY <1>1, <1>2, <2>4 DEF EofOf
  <2>8. Sound(g, 0, law) /\ TailUnique(g) /\ TailBehind(g, n1)
    <3>1. AllBytes(stream) /\ stream \in law[0] /\ Stream0In(g, f, n1, stream, sha, z0)
      BY <1>2, <2>4, <2>6
    <3>2. Stream0Fits(g, f, n1, stream, sha, z0, law)
      BY <1>2, <1>3, <2>3, <2>7, <3>1, Stream0Sound
    <3> QED BY <3>1, <3>2 DEF Stream0Fits
  <2>9. Holds(g, 1, c[1]) /\ (Len(f) >= n1 + 2 => g[n1 + 2] = f[n1 + 2])
    <3>1. IsFile(stream) /\ n1 = Len(c[1]) /\ Len(stream) \in Nat
      BY <1>1, <1>2, <2>4, FileFacts DEF AllBytes
    <3>2. IsFile(g) /\ FrontKept(g, f, n1)
      BY <1>2, <2>6, <3>1 DEF Stream0In, FrontKept
    <3>3. StreamKept(g, f, n1, c[1])
      BY <1>2, <1>3, <3>1, <3>2, Stream0Behind
    <3> QED BY <3>3 DEF StreamKept
  <2>10. FirstHolds(g, c, law)
    BY <1>1, <2>6, <2>8, <2>9 DEF FirstHolds, FirstSound, Stream0In
  <2>11. TailExact(g, k, n1, stream)
    <3>1. /\ Len(g) = n1 + Len(stream) + 4 /\ Holds(g, n1 + 2, stream)
          /\ g[n1 + Len(stream) + 3] = sha /\ g[n1 + Len(stream) + 4] = z0
      BY <2>6 DEF Stream0In
    <3> QED BY <1>1, <2>7, <3>1 DEF TailExact
  <2>12. ~ dmg => FirstExact(g, k, c, ~ e.written[1])
    <3>1. ASSUME ~ dmg, ~ e.written[1]
          PROVE  RecordOf(g[n1 + 2], c[1])
      <4>1. Len(f) >= n1 + 2 /\ RecordOf(f[n1 + 2], c[1])
        BY <1>1, <1>3, <3>1 DEF UnwrittenExact
      <4> QED BY <2>9, <4>1
    <3> QED BY <1>1, <2>4, <2>11, <3>1 DEF FirstExact
  <2>13. ASSUME NEW t \in TornIn(e.file, u)
         PROVE  \E h : t = [e.file EXCEPT ![0] = h] /\ FirstSound(h, law)
    <3>1. PICK h : t = [e.file EXCEPT ![0] = h] /\ IsFile(h) /\ FewerEofs(h, f)
      BY <1>1, <2>4, <2>5, <2>13 DEF Stream0Done
    <3>2. FirstSound(h, law)
      BY <1>3, <3>1, FewerIsSound DEF FirstSound
    <3> QED BY <3>1, <3>2
  <2>14. IsFile(u)
    BY <2>5 DEF Stream0Done
  <2> QED BY <1>1, <2>6, <2>10, <2>12, <2>13, <2>14 DEF Stream0Closed
<1> QED BY <1>2, <1>5, <1>6

\* The record of stream 1.
Stream1Closed(e, c, law, dmg, g, u) ==
  LET mid == [e.file EXCEPT ![0] = g]
  IN /\ IsFile(u)
     /\ \E h : /\ After(mid, u) = [e.file EXCEPT ![0] = h] /\ FirstSound(h, law)
               /\ Holds(h, 1, c[1]) /\ (~ dmg => FirstExact(h, e.key, c, TRUE))
     /\ \A t \in TornIn(mid, u) : t = mid

\* What holds of a file after its record is put there.
RecordFits(h, g, n, z, i, law) ==
  /\ Sound(h, i, law)
  /\ TailUnique(g) /\ TailBehind(g, n) => TailUnique(h)

LEMMA RecordIsSound ==
  ASSUME NEW g, NEW h, NEW n \in Nat, NEW z, RecordIn(h, g, n, z), NEW i \in {0, 1}, NEW law,
         NEW b, NEW s, s = i + 1, IsEof(z), RecordOf(z, b), z.size = 0, b \in law[s],
         Sound(g, i, law)
  PROVE  RecordFits(h, g, n, z, i, law)
<1>1. ~ z.hasSha /\ (z.hasCrc => z.crc \in law[i + 1])
  BY DEF RecordOf, InnerEof
<1> QED BY <1>1, RecordSound DEF RecordFits

LEMMA Stream1Close ==
  ASSUME Distinct, NEW e, NEW c, NEW law, NEW dmg, Closing(e, c, law, dmg),
         NEW g, FirstHolds(g, c, law), ~ dmg => FirstExact(g, e.key, c, ~ e.written[1]),
         NEW u, u = CloseCalls(e, 1)
  PROVE  Stream1Closed(e, c, law, dmg, g, u)
<1>1. PICK mid, n0, n1, n2, z0, z1, z2, k, b :
        /\ mid = [e.file EXCEPT ![0] = g] /\ b = c[1] /\ k = e.key
        /\ n0 = Len(c[0]) /\ n1 = Len(c[1]) /\ n2 = Len(c[2])
        /\ z0 = EofOf(e, 0) /\ z1 = EofOf(e, 1) /\ z2 = EofOf(e, 2)
  OBVIOUS
<1>2. /\ ~ Omitted(e, 0) /\ e.file = [j \in FileIndices |-> e.file[j]]
      /\ AllBytes(c[0]) /\ IsFile(b) /\ n1 = Len(b)
      /\ n0 \in Nat /\ n1 \in Nat /\ n2 \in Nat
      /\ e.size[0] = n0 /\ e.size[1] = n1 /\ e.size[2] = n2
      /\ e.written[1] \in BOOLEAN /\ (e.written[1] => b \in law[1])
      /\ ~ e.failed /\ CrcOf(e.crc[1], e.crcEnd[1], b)
  BY <1>1, ClosingFacts DEF Closing
<1>3. IsFile(g) /\ FirstSound(g, law) /\ TailBehind(g, n1) /\ Holds(g, 1, b)
  BY <1>1 DEF FirstHolds
<1>4. CallsOfClose(e, n0, n1, n2, z0, z1, z2)
  BY <1>1, <1>2, CloseCallsAre
<1>5. CASE ~ e.written[1]
  <2>1. u = <<>>
    BY <1>4, <1>5 DEF CallsOfClose
  <2>2. After(mid, u) = mid /\ TornIn(mid, u) = {} /\ IsFile(u)
    BY <2>1, NothingDone
  <2>3. ~ dmg => FirstExact(g, k, c, TRUE)
    BY <1>1, <1>5 DEF FirstExact
  <2> QED BY <1>1, <1>3, <2>2, <2>3 DEF Stream1Closed
<1>6. CASE e.written[1]
  <2>1. PICK m, h : m = n1 + 1 /\ h = PutOne(g, m, z1)
    OBVIOUS
  <2>2. u = <<WriteCall(0, m, <<z1>>)>>
    BY <1>4, <1>6, <2>1 DEF CallsOfClose
  <2>3. After(mid, u) = [e.file EXCEPT ![0] = h]
    <3>1. PICK z : z = <<z1>>
      OBVIOUS
    <3>2. Called(e.file, g, m, z)
      BY <1>2, CalledIs
    <3> QED BY <1>1, <2>1, <2>2, <3>1, <3>2 DEF Called, PutOne
  <2>4. RecordIn(h, g, n1, z1)
    <3>1. Len(g) >= n1 + 1
      BY <1>2, <1>3 DEF Holds
    <3> QED BY <1>2, <1>3, <2>1, <3>1, RecordPut
  <2>5. IsEof(z1) /\ RecordOf(z1, b) /\ z1.size = 0
    <3>1. PICK s \in {1, 2} : s = 1
      OBVIOUS
    <3>2. e.size[s] = Len(b) /\ CrcOf(e.crc[s], e.crcEnd[s], b) /\ z1 = EofOf(e, s)
      BY <1>1, <1>2, <3>1
    <3> QED BY <1>2, <3>2, EofOfIs
  <2>6. RecordFits(h, g, n1, z1, 0, law)
    <3>1. PICK i, s : i = 0 /\ s = 1
      OBVIOUS
    <3>2. i \in {0, 1} /\ s = i + 1 /\ b \in law[s] /\ Sound(g, i, law)
      BY <1>2, <1>3, <1>6, <3>1 DEF FirstSound
    <3>3. RecordFits(h, g, n1, z1, i, law)
      BY <1>2, <2>4, <2>5, <3>2, RecordIsSound
    <3> QED BY <3>1, <3>3
  <2>7. FirstSound(h, law)
    BY <1>3, <2>6 DEF RecordFits, FirstSound
  <2>8. /\ Holds(h, 1, b)
        /\ \A stream : IsFile(stream) /\ TailExact(g, k, n1, stream) => TailExact(h, k, n1, stream)
    BY <1>2, <1>3, <2>4, RecordLeaves
  <2>9. ~ dmg => FirstExact(h, k, c, TRUE)
    <3>1. ASSUME ~ dmg
          PROVE  TailExact(h, k, n1, c[0]) /\ RecordOf(h[n1 + 2], b)
      <4>1. IsFile(c[0]) /\ TailExact(g, k, n1, c[0])
        BY <1>1, <1>2, <3>1 DEF FirstExact, AllBytes
      <4>2. h[n1 + 2] = z1
        BY <2>4 DEF RecordIn
      <4> QED BY <2>5, <2>8, <4>1, <4>2
    <3> QED BY <1>1, <3>1 DEF FirstExact
  <2>10. IsFile(u)
    BY <2>2, SingleIsFile
  <2>11. \A t \in TornIn(mid, u) : t = mid
    <3>1. mid = [j \in FileIndices |-> mid[j]]
      BY <1>1, <1>2 DEF FileIndices
    <3>2. \A t \in TornIn(mid, <<WriteCall(0, m, <<z1>>)>>) : t = mid
      BY <3>1, OneTorn
    <3> QED BY <2>2, <3>2
  <2> QED BY <1>1, <2>3, <2>7, <2>8, <2>9, <2>10, <2>11 DEF Stream1Closed
<1> QED BY <1>2, <1>5, <1>6

\* The file of stream 2 that is closed in order.
SecondExact(w, c) ==
  IF w = Missing THEN c[2] = <<>>
  ELSE /\ Len(w) = Len(c[2]) + 2 /\ Holds(w, 1, c[2]) /\ RecordOf(w[Len(w)], c[2])

\* The record of stream 2.
Stream2Closed(e, c, law, dmg, h, u) ==
  LET mid == [e.file EXCEPT ![0] = h]
  IN /\ IsFile(u)
     /\ \E w : /\ After(mid, u) = [mid EXCEPT ![1] = w]
               /\ w # Missing => Sound(w, 1, law)
               /\ ~ dmg => SecondExact(w, c)
     /\ \A t \in TornIn(mid, u) : t = mid

LEMMA Stream2Close ==
  ASSUME Distinct, NEW e, NEW c, NEW law, NEW dmg, Closing(e, c, law, dmg),
         NEW h, NEW u, u = CloseCalls(e, 2)
  PROVE  Stream2Closed(e, c, law, dmg, h, u)
<1>1. PICK mid, f, n0, n1, n2, z0, z1, z2, b :
        /\ mid = [e.file EXCEPT ![0] = h] /\ b = c[2] /\ f = e.file[1]
        /\ n0 = Len(c[0]) /\ n1 = Len(c[1]) /\ n2 = Len(c[2])
        /\ z0 = EofOf(e, 0) /\ z1 = EofOf(e, 1) /\ z2 = EofOf(e, 2)
  OBVIOUS
<1>2. /\ ~ Omitted(e, 0) /\ e.file = [j \in FileIndices |-> e.file[j]]
      /\ IsFile(b) /\ n2 = Len(b)
      /\ n0 \in Nat /\ n1 \in Nat /\ n2 \in Nat
      /\ e.size[0] = n0 /\ e.size[1] = n1 /\ e.size[2] = n2
      /\ e.written[2] \in BOOLEAN /\ (e.written[2] => b \in law[2])
      /\ ~ e.failed /\ CrcOf(e.crc[2], e.crcEnd[2], b)
  BY <1>1, ClosingFacts DEF Closing
<1>3. /\ f # Missing => IsFile(f) /\ Sound(f, 1, law) /\ Holds(f, 1, b)
      /\ f = Missing => b = <<>>
      /\ ~ dmg /\ f # Missing =>
           /\ Len(f) <= n2 + 2
           /\ ~ e.written[2] => Len(f) = n2 + 2 /\ RecordOf(f[n2 + 2], b)
  <2>1. ReadyOK(e, c, law, dmg) /\ (f # Missing => IsFile(f))
    BY <1>1, FirstFileIsThere DEF Closing
  <2>2. (f # Missing => Sound(f, 1, law) /\ Holds(f, 1, b)) /\ (f = Missing => b = <<>>)
    BY <1>1, <2>1 DEF ReadyOK, SoundFiles, StreamsHeld
  <2>3. ~ dmg => UnwrittenExact(e, c)
    BY <2>1 DEF ReadyOK
  <2> QED BY <1>1, <2>1, <2>2, <2>3 DEF UnwrittenExact
<1>4. CallsOfClose(e, n0, n1, n2, z0, z1, z2)
  BY <1>1, <1>2, CloseCallsAre
<1>5. mid = [j \in FileIndices |-> mid[j]] /\ mid[1] = f /\ mid = [mid EXCEPT ![1] = f]
  <2>1. 0 \in FileIndices /\ 1 \in FileIndices
    BY DEF FileIndices
  <2>2. mid = [j \in FileIndices |-> mid[j]] /\ mid[1] = f
    BY <1>1, <1>2, <2>1
  <2> QED BY <2>1, <2>2
<1>6. CASE ~ e.written[2] \/ f = Missing
  <2>1. u = <<>>
    BY <1>1, <1>4, <1>6 DEF CallsOfClose
  <2>2. After(mid, u) = mid /\ TornIn(mid, u) = {} /\ IsFile(u)
    BY <2>1, NothingDone
  <2>3. ~ dmg => SecondExact(f, c)
    BY <1>1, <1>3, <1>6 DEF SecondExact
  <2>4. f # Missing => Sound(f, 1, law)
    BY <1>3
  <2> QED BY <1>1, <1>5, <2>2, <2>3, <2>4 DEF Stream2Closed
<1>7. CASE e.written[2] /\ f # Missing
  <2>1. PICK m, w : m = n2 + 1 /\ w = PutOne(f, m, z2)
    OBVIOUS
  <2>2. u = <<WriteCall(1, m, <<z2>>)>>
    BY <1>1, <1>4, <1>7, <2>1 DEF CallsOfClose
  <2>3. After(mid, u) = [mid EXCEPT ![1] = w]
    <3>1. PICK z : z = <<z2>>
      OBVIOUS
    <3>2. After(mid, <<WriteCall(1, m, z)>>) = With(mid, 1, WriteAt(mid[1], m, z))
      BY WriteAfter
    <3> QED BY <1>5, <2>1, <2>2, <3>1, <3>2 DEF With, PutOne
  <2>4. RecordIn(w, f, n2, z2)
    <3>1. Len(f) >= n2 + 1
      BY <1>2, <1>3, <1>7 DEF Holds
    <3> QED BY <1>2, <1>3, <1>7, <2>1, <3>1, RecordPut
  <2>5. IsEof(z2) /\ RecordOf(z2, b) /\ z2.size = 0
    <3>1. PICK s \in {1, 2} : s = 2
      OBVIOUS
    <3>2. e.size[s] = Len(b) /\ CrcOf(e.crc[s], e.crcEnd[s], b) /\ z2 = EofOf(e, s)
      BY <1>1, <1>2, <3>1
    <3> QED BY <1>2, <3>2, EofOfIs
  <2>6. RecordFits(w, f, n2, z2, 1, law)
    <3>1. PICK i, s : i = 1 /\ s = 2
      OBVIOUS
    <3>2. i \in {0, 1} /\ s = i + 1 /\ b \in law[s] /\ Sound(f, i, law)
      BY <1>2, <1>3, <1>7, <3>1
    <3>3. RecordFits(w, f, n2, z2, i, law)
      BY <1>2, <2>4, <2>5, <3>2, RecordIsSound
    <3> QED BY <3>1, <3>3
  <2>7. Holds(w, 1, b)
    BY <1>2, <1>3, <1>7, <2>4, RecordLeaves
  <2>8. IsFile(w) /\ Len(w) = (IF Len(f) > n2 + 2 THEN Len(f) ELSE n2 + 2) /\ w[n2 + 2] = z2
    BY <2>4 DEF RecordIn
  <2>9. w # Missing
    BY <2>8 DEF Distinct
  <2>10. ~ dmg => SecondExact(w, c)
    <3>1. ASSUME ~ dmg
          PROVE  Len(w) = n2 + 2
      <4>1. Len(f) \in Nat /\ Len(f) <= n2 + 2
        BY <1>3, <1>7, <3>1, FileFacts
      <4> QED BY <1>2, <2>8, <4>1
    <3> QED BY <1>1, <2>5, <2>7, <2>8, <2>9, <3>1 DEF SecondExact
  <2>11. IsFile(u)
    BY <2>2, SingleIsFile
  <2>12. \A t \in TornIn(mid, u) : t = mid
    <3>1. \A t \in TornIn(mid, <<WriteCall(1, m, <<z2>>)>>) : t = mid
      BY <1>5, OneTorn
    <3> QED BY <2>2, <3>1
  <2>13. w # Missing => Sound(w, 1, law)
    BY <2>6 DEF RecordFits
  <2> QED BY <1>1, <2>3, <2>10, <2>11, <2>12, <2>13 DEF Stream2Closed
<1> QED BY <1>2, <1>6, <1>7

\* What Close leaves, and what it may leave when the process dies in it.
CloseLeaves(e, c, law, dmg) ==
  LET calls == AllCloseCalls(e)
      f == After(e.file, calls)
  IN /\ SoundFiles(f, law) /\ TailUnique(f[0]) /\ (~ dmg => Exact(f, e.key, c))
     /\ \A t \in TornIn(e.file, calls) : SoundFiles(t, law) /\ TailUnique(t[0])

LEMMA CloseStates ==
  ASSUME Distinct, NEW e, NEW c, NEW law, NEW dmg, Closing(e, c, law, dmg)
  PROVE  CloseLeaves(e, c, law, dmg)
<1>1. PICK u0, u1, u2, files :
        /\ u0 = CloseCalls(e, 0) /\ u1 = CloseCalls(e, 1) /\ u2 = CloseCalls(e, 2)
        /\ files = e.file
  OBVIOUS
<1>2. files = [j \in FileIndices |-> files[j]] /\ SoundFiles(files, law)
  BY <1>1, ClosingFacts DEF Closing, ReadyOK
<1>3. 0 \in FileIndices /\ 1 \in FileIndices
  BY DEF FileIndices
<1>4. ASSUME NEW x, FirstSound(x, law), NEW t, t = [files EXCEPT ![0] = x]
      PROVE  SoundFiles(t, law) /\ TailUnique(t[0]) /\ t = [j \in FileIndices |-> t[j]]
  <2>1. t[0] = x /\ t[1] = files[1] /\ t = [j \in FileIndices |-> t[j]]
    BY <1>2, <1>3, <1>4
  <2> QED BY <1>2, <1>4, <2>1 DEF SoundFiles, FirstSound
<1>5. Stream0Closed(e, c, law, dmg, u0)
  BY <1>1, Stream0Close
<1>6. PICK g, m1 : /\ m1 = [files EXCEPT ![0] = g] /\ After(files, u0) = m1
                   /\ FirstHolds(g, c, law) /\ (~ dmg => FirstExact(g, e.key, c, ~ e.written[1]))
  BY <1>1, <1>5 DEF Stream0Closed
<1>7. Stream1Closed(e, c, law, dmg, g, u1)
  BY <1>1, <1>6, Stream1Close
<1>8. PICK h, m2 : /\ m2 = [files EXCEPT ![0] = h] /\ After(m1, u1) = m2 /\ FirstSound(h, law)
                   /\ Holds(h, 1, c[1]) /\ (~ dmg => FirstExact(h, e.key, c, TRUE))
  BY <1>1, <1>6, <1>7 DEF Stream1Closed
<1>9. Stream2Closed(e, c, law, dmg, h, u2)
  BY <1>1, Stream2Close
<1>10. PICK w, m3 : /\ m3 = [m2 EXCEPT ![1] = w] /\ After(m2, u2) = m3
                    /\ w # Missing => Sound(w, 1, law)
                    /\ ~ dmg => SecondExact(w, c)
  BY <1>1, <1>8, <1>9 DEF Stream2Closed
<1>11. IsFile(u0) /\ IsFile(u1) /\ IsFile(u2)
  BY <1>5, <1>7, <1>9 DEF Stream0Closed, Stream1Closed, Stream2Closed
<1>12. PICK v, calls : v = u0 \o u1 /\ calls = v \o u2
  OBVIOUS
<1>13. calls = AllCloseCalls(e)
  BY <1>1, <1>12 DEF AllCloseCalls
<1>14. Then(files, u0, m1, u1, v)
  BY <1>6, <1>11, <1>12, AfterTwo
<1>15. /\ After(files, v) = m2 /\ IsFile(v)
       /\ \A t \in TornIn(files, v) : t \in TornIn(files, u0) \/ t \in TornIn(m1, u1)
  BY <1>8, <1>14 DEF Then
<1>16. Then(files, v, m2, u2, calls)
  BY <1>11, <1>12, <1>15, AfterTwo
<1>17. /\ After(files, calls) = m3
       /\ \A t \in TornIn(files, calls) : t \in TornIn(files, v) \/ t \in TornIn(m2, u2)
  BY <1>10, <1>16 DEF Then
<1>18. m3[0] = h /\ m3[1] = w
  <2>1. m2 = [j \in FileIndices |-> m2[j]] /\ m2[0] = h
    BY <1>2, <1>3, <1>8
  <2> QED BY <1>3, <1>10, <2>1
<1>19. SoundFiles(m3, law) /\ TailUnique(m3[0])
  BY <1>8, <1>10, <1>18 DEF SoundFiles, FirstSound
<1>20. ~ dmg => Exact(m3, e.key, c)
  BY <1>8, <1>10, <1>18 DEF Exact, FirstExact, SecondExact
<1>21. ASSUME NEW t \in TornIn(files, calls)
       PROVE  SoundFiles(t, law) /\ TailUnique(t[0])
  <2>1. \E x : t = [files EXCEPT ![0] = x] /\ FirstSound(x, law)
    <3>1. CASE t \in TornIn(files, u0)
      BY <1>1, <1>5, <3>1 DEF Stream0Closed
    <3>2. CASE t \in TornIn(m1, u1)
      <4>1. t = m1
        BY <1>1, <1>6, <1>7, <3>2 DEF Stream1Closed
      <4> QED BY <1>6, <4>1 DEF FirstHolds
    <3>3. CASE t \in TornIn(m2, u2)
      <4>1. t = m2
        BY <1>1, <1>8, <1>9, <3>3 DEF Stream2Closed
      <4> QED BY <1>8, <4>1
    <3> QED BY <1>15, <1>17, <1>21, <3>1, <3>2, <3>3
  <2> QED BY <1>4, <2>1
<1> QED BY <1>1, <1>13, <1>17, <1>19, <1>20, <1>21 DEF CloseLeaves

LEMMA CloseHolds ==
  ASSUME AllOrNone, Distinct, OwnerInv, StreamsInv, Close
  PROVE  StreamsInv'
<1>1. PICK e, d, calls, files : /\ e = entry /\ d = disk /\ calls = AllCloseCalls(e)
                                /\ files = After(e.file, calls)
  OBVIOUS
<1>2. entry # Closed /\ opens' = opens
  BY DEF Close
<1>3. /\ OwnedEntry(e, d)
      /\ HistoryOK(content, lawful) /\ damaged \in BOOLEAN /\ opens \in Nat
      /\ OpenOK(e, content, lawful, damaged, opens)
  BY <1>1, <1>2, OpenInv
<1>4. DoomInternal(d, e) = {Gone} /\ NamesOK(e, d) /\ e.doomed \in BOOLEAN
  BY <1>3, DoomLeavesNothing DEF OwnedEntry
<1>5. \/ \E u \in {d, Gone} : LeavesBehind(Released(u, files), FALSE)
      \/ \E f : LeavesBehind(Released(Gone, f), TRUE)
      \/ \E n \in DOMAIN calls : \E t \in TornAt(e.file, calls, n) :
           LeavesBehind(Released(d, t), TRUE)
  <2>1. CASE \E n \in DOMAIN calls : \E t \in TornAt(e.file, calls, n) :
               LeavesBehind(Released(d, t), TRUE)
    BY <2>1
  <2>2. CASE \E u \in {d, Gone} : LeavesBehind(Released(u, After(e.file, calls)), FALSE)
    BY <1>1, <2>2
  <2>3. CASE \E n \in DOMAIN calls :
             \E f \in {After(t, IF n <= 2 /\ CloseCalls(e, 0) # <<>>
                                THEN SubSeq(calls, n + 1, Len(calls)) ELSE <<>>)
                         : t \in TornAt(e.file, calls, n)} :
             \E u \in DoomInternal(d, e) : LeavesBehind(Released(u, f), TRUE)
    BY <1>4, <2>3
  <2> QED BY <1>1, <1>4, <2>1, <2>2, <2>3 DEF Close
<1>6. ASSUME NEW f, NEW broken, LeavesBehind(Released(Gone, f), broken)
      PROVE  StreamsInv'
  <2>1. Released(Gone, f) = Gone
    BY ReleasedGone
  <2> QED BY <1>2, <1>3, <1>6, <2>1, NothingLeft
<1>7. CASE ~ e.doomed
  <2>1. /\ Shape(e) /\ FilesFull(e.file, e.key, e.born) /\ OwnCells(e.stream0, e.key)
        /\ ~ e.failed
    BY <1>3, <1>7 DEF OwnedEntry
  <2>2. Closing(e, content, lawful, damaged)
    BY <1>3, <2>1 DEF Closing, OpenOK
  <2>3. CloseLeaves(e, content, lawful, damaged)
    BY <2>2, CloseStates
  <2>4. PlainCalls(e.file, calls, e.key)
    BY <1>1, <2>1, CloseCallsLawful
  <2>5. ASSUME NEW t, FilesFull(t, e.key, e.born), t[1] = Missing <=> e.file[1] = Missing
        PROVE  Released(d, t) = t
    <3>1. e.file[0] # Missing /\ t[0] # Missing /\ t = [i \in FileIndices |-> t[i]]
      BY <2>1, <2>5 DEF FilesFull, Full, OwnCells, Distinct
    <3>2. \A i \in FileIndices : (t[i] = Missing <=> e.file[i] = Missing)
      BY <2>5, <3>1 DEF FileIndices
    <3>3. \A i \in FileIndices : IF d[i] = Linked THEN TRUE ELSE d[i] = t[i]
      BY <1>4, <1>7, <3>2 DEF NamesOK
    <3> QED BY <3>1, <3>3 DEF Released
  <2>6. FilesFull(files, e.key, e.born) /\ (files[1] = Missing <=> e.file[1] = Missing)
    BY <1>1, <2>1, <2>4, PlainAfter
  <2>7. ASSUME LeavesBehind(Released(d, files), FALSE)
        PROVE  StreamsInv'
    <3>1. LeavesBehind(files, FALSE)
      BY <2>5, <2>6, <2>7
    <3>2. files[0] # Missing /\ files[0] # <<>> /\ files[0][1] = Header(e.key, e.born)
      <4>1. Full(files[0], e.key, e.born)
        BY <2>6 DEF FilesFull
      <4> QED BY <4>1, FileFacts DEF Full, OwnCells, Distinct
    <3>3. /\ disk' = files /\ entry' = Closed /\ answer' = None /\ damaged' = damaged
          /\ content' = content /\ lawful' = lawful
      BY <1>3, <3>1, <3>2 DEF LeavesBehind
    <3>4. ClosedOK(files, content, lawful, damaged, opens)
      <4>1. SoundFiles(files, lawful) /\ TailUnique(files[0]) /\ (~ damaged => Exact(files, e.key, content))
        BY <1>1, <2>3 DEF CloseLeaves
      <4>2. files[0][1].born \in 1 .. opens /\ files[0][1].key = e.key
        BY <1>3, <3>2 DEF Header, OpenOK
      <4> QED BY <3>2, <4>1, <4>2 DEF ClosedOK
    <3>5. AnswerOK(answer', content', lawful')
      BY <3>3, NoneIsOK
    <3> QED BY <1>2, <1>3, <3>3, <3>4, <3>5, ClosedHolds
  <2>8. ASSUME NEW n \in DOMAIN calls, NEW t \in TornAt(e.file, calls, n),
               LeavesBehind(Released(d, t), TRUE)
        PROVE  StreamsInv'
    <3>1. FilesFull(t, e.key, e.born) /\ (t[1] = Missing <=> e.file[1] = Missing)
      BY <2>1, <2>4, <2>8, PlainTorn
    <3>2. LeavesBehind(t, TRUE)
      BY <2>5, <2>8, <3>1
    <3>3. SoundFiles(t, lawful) /\ TailUnique(t[0])
      BY <1>1, <2>3, <2>8 DEF CloseLeaves, TornIn
    <3>4. FilesOwned(t, e.key, e.born) /\ e.born \in 1 .. opens
      BY <1>3, <3>1, FullIsOwned DEF OpenOK
    <3> QED BY <1>2, <1>3, <3>2, <3>3, <3>4, DamagedLeft
  <2> QED BY <1>5, <1>6, <2>7, <2>8
<1>8. CASE e.doomed
  <2>1. \A f : Released(d, f) = Gone
    BY <1>4, <1>8 DEF Released, NamesOK, Gone, Distinct
  <2>2. \A f : Released(d, f) = Released(Gone, f)
    BY <2>1, ReleasedGone
  <2> QED BY <1>5, <1>6, <2>2
<1> QED BY <1>4, <1>7, <1>8

-------------------------------------------------------------------------------
(* Open: what the tail of the first file says *)

\* ReadAndValidateStream0AndMaybe1 when the last record z says that stream 0 has n0
\* bytes, which leaves n1 for stream 1.
Validated(v, f, key, prefetch, z, n0, n1) ==
  LET s0 == Cells(f, n1 + 2, n0)
      s1 == Cells(f, 1, n1)
      ahead == z.hasSha /\ HasData(f, 1, prefetch)
  IN /\ v.ok <=> /\ EofRecord(f, Len(f) - 1) /\ ~ (n0 > Len(f)) /\ ~ (n1 < 0)
                 /\ CrcMatches(z, s0)
                 /\ ahead => EofRecord(f, n1 + 1) /\ CrcMatches(CellAt(f, n1 + 1), s1)
                 /\ KeyVerified(f, key, z.hasSha, CellAt(f, n1 + 2 + n0))
     /\ v.ok => /\ v.stream0 = s0 /\ v.stream1 = IF ahead THEN s1 ELSE <<>>
                /\ v.size = [s \in Streams |-> IF s = 0 THEN n0 ELSE IF s = 1 THEN n1 ELSE 0]

\* The offsets the function computes.
TailOffsets(size, n0, n1) ==
  /\ GetOffsetInFile(size, 0, 0) = n1 + 2 /\ GetOffsetInFile(size, 0, 1) = 1
  /\ GetOffsetInFile(size, n0, 0) = n1 + 2 + n0
  /\ GetEOFOffsetInFile(size, 1) = n1 + 1

LEMMA TailOffsetsAre ==
  ASSUME NEW size, NEW n0 \in Nat, NEW n1 \in Int, size[1] = n1
  PROVE  TailOffsets(size, n0, n1)
<1>1. HeaderSize = 1 /\ EofSize = 1
  BY EntryAssumption
<1>2. /\ GetOffsetInFile(size, 0, 0) = n1 + 2 /\ GetOffsetInFile(size, 0, 1) = 1
      /\ GetOffsetInFile(size, n0, 0) = n1 + 2 + n0 /\ GetOffsetInFile(size, n1, 1) = n1 + 1
  BY <1>1 DEF GetOffsetInFile
<1> QED BY <1>1, <1>2 DEF TailOffsets, GetEOFOffsetInFile

LEMMA ValidationIs ==
  ASSUME NEW f, IsFile(f), NEW key, NEW prefetch,
         NEW v, v = ReadAndValidateStream0AndMaybe1(f, key, prefetch),
         NEW z, z = CellAt(f, Len(f) - 1), NEW n0 \in Nat, z.size = n0,
         NEW n1 \in Int, n1 = Len(f) - 3 - n0 - IF z.hasSha THEN 1 ELSE 0
  PROVE  Validated(v, f, key, prefetch, z, n0, n1)
<1> DEFINE m == Len(f)
           eof0 == CellAt(f, m - EofSize)
           extra == IF eof0.hasSha THEN Sha256Size ELSE 0
           size1 == m - 2 * EofSize - eof0.size - HeaderSize - extra
           size == [s \in Streams |-> CASE s = 0 -> eof0.size [] s = 1 -> size1 [] s = 2 -> 0]
           stream0 == Cells(f, GetOffsetInFile(size, 0, 0), eof0.size)
           stream1 == Cells(f, GetOffsetInFile(size, 0, 1), size1)
           sha == CellAt(f, GetOffsetInFile(size, eof0.size, 0))
           at1 == GetEOFOffsetInFile(size, 1)
           prefetched == eof0.hasSha /\ HasData(f, GetOffsetInFile(size, 0, 1), prefetch)
<1>1. HeaderSize = 1 /\ EofSize = 1 /\ Sha256Size = 1 /\ m \in Nat
  BY EntryAssumption, FileFacts
<1>2. eof0 = z
  BY <1>1
<1>3. extra = IF z.hasSha THEN 1 ELSE 0
  BY <1>1, <1>2
<1>4. size1 = n1
  <2>1. extra \in {0, 1} /\ n1 = m - 3 - n0 - extra
    BY <1>3
  <2>2. eof0.size = n0
    BY <1>2
  <2> HIDE DEF m, eof0, extra
  <2> QED BY <1>1, <2>1, <2>2
<1>5. size = [s \in Streams |-> IF s = 0 THEN n0 ELSE IF s = 1 THEN n1 ELSE 0]
  <2>1. eof0.size = n0
    BY <1>2
  <2> HIDE DEF eof0, size1
  <2> QED BY <1>4, <2>1 DEF Streams
<1>6. TailOffsets(size, n0, n1)
  <2>1. PICK w : w = size
    OBVIOUS
  <2>2. w[1] = n1
    BY <1>5, <2>1 DEF Streams
  <2>3. TailOffsets(w, n0, n1)
    BY <2>2, TailOffsetsAre
  <2> QED BY <2>1, <2>3
<1>7. v = CASE ~ EofRecord(f, m - EofSize) -> Invalid
             [] eof0.size > m \/ size1 < 0 -> Invalid
             [] ~ CrcMatches(eof0, stream0) -> Invalid
             [] prefetched /\ ~ (/\ EofRecord(f, at1)
                                 /\ CrcMatches(CellAt(f, at1), stream1)) -> Invalid
             [] ~ KeyVerified(f, key, eof0.hasSha, sha) -> Invalid
             [] OTHER -> [ok |-> TRUE, size |-> size, stream0 |-> stream0,
                          stream1 |-> IF prefetched THEN stream1 ELSE <<>>]
  BY DEF ReadAndValidateStream0AndMaybe1
<1>8. /\ stream0 = Cells(f, GetOffsetInFile(size, 0, 0), eof0.size)
      /\ stream1 = Cells(f, GetOffsetInFile(size, 0, 1), size1)
      /\ sha = CellAt(f, GetOffsetInFile(size, eof0.size, 0))
      /\ at1 = GetEOFOffsetInFile(size, 1) /\ m = Len(f)
      /\ prefetched = (eof0.hasSha /\ HasData(f, GetOffsetInFile(size, 0, 1), prefetch))
  OBVIOUS
<1> HIDE DEF m, eof0, extra, size1, size, stream0, stream1, sha, at1, prefetched
<1>9. /\ m - EofSize = Len(f) - 1 /\ eof0.size = n0 /\ at1 = n1 + 1
      /\ stream0 = Cells(f, n1 + 2, n0) /\ stream1 = Cells(f, 1, n1)
      /\ sha = CellAt(f, n1 + 2 + n0)
      /\ prefetched = (z.hasSha /\ HasData(f, 1, prefetch))
  BY <1>1, <1>2, <1>4, <1>6, <1>8 DEF TailOffsets
<1> DEFINE A == ~ EofRecord(f, m - EofSize)
           B == eof0.size > m \/ size1 < 0
           C == ~ CrcMatches(eof0, stream0)
           D == prefetched /\ ~ (EofRecord(f, at1) /\ CrcMatches(CellAt(f, at1), stream1))
           E == ~ KeyVerified(f, key, eof0.hasSha, sha)
<1>10. PICK valid : valid = [ok |-> TRUE, size |-> size, stream0 |-> stream0,
                             stream1 |-> IF prefetched THEN stream1 ELSE <<>>]
  OBVIOUS
<1>11. v = CASE A -> Invalid [] B -> Invalid [] C -> Invalid [] D -> Invalid
             [] E -> Invalid [] OTHER -> valid
  BY <1>7, <1>10
<1>12. /\ A <=> ~ EofRecord(f, Len(f) - 1)
       /\ B <=> n0 > Len(f) \/ n1 < 0
       /\ C <=> ~ CrcMatches(z, Cells(f, n1 + 2, n0))
       /\ D <=> /\ z.hasSha /\ HasData(f, 1, prefetch)
                /\ ~ (EofRecord(f, n1 + 1) /\ CrcMatches(CellAt(f, n1 + 1), Cells(f, 1, n1)))
       /\ E <=> ~ KeyVerified(f, key, z.hasSha, CellAt(f, n1 + 2 + n0))
  <2>1. A <=> ~ EofRecord(f, Len(f) - 1)
    BY <1>9
  <2>2. B <=> n0 > Len(f) \/ n1 < 0
    BY <1>4, <1>8, <1>9
  <2>3. C <=> ~ CrcMatches(z, Cells(f, n1 + 2, n0))
    BY <1>2, <1>9
  <2>4. D <=> /\ z.hasSha /\ HasData(f, 1, prefetch)
              /\ ~ (EofRecord(f, n1 + 1) /\ CrcMatches(CellAt(f, n1 + 1), Cells(f, 1, n1)))
    BY <1>9
  <2>5. E <=> ~ KeyVerified(f, key, z.hasSha, CellAt(f, n1 + 2 + n0))
    BY <1>2, <1>9
  <2> QED BY <2>1, <2>2, <2>3, <2>4, <2>5
<1> HIDE DEF A, B, C, D, E
<1>13. (A \/ B \/ C \/ D \/ E) => v = Invalid
  BY <1>11
<1>14. ~ (A \/ B \/ C \/ D \/ E) => v = valid
  BY <1>11
<1>15. ~ Invalid.ok
  BY DEF Invalid
<1>16. /\ valid.ok /\ valid.stream0 = stream0
       /\ valid.stream1 = IF prefetched THEN stream1 ELSE <<>>
       /\ valid.size = size
  BY <1>10
<1>17. v.ok <=> ~ (A \/ B \/ C \/ D \/ E)
  BY <1>13, <1>14, <1>15, <1>16
<1>18. v.ok => /\ v.stream0 = Cells(f, n1 + 2, n0)
               /\ v.stream1 = IF z.hasSha /\ HasData(f, 1, prefetch) THEN Cells(f, 1, n1) ELSE <<>>
               /\ v.size = [s \in Streams |-> IF s = 0 THEN n0 ELSE IF s = 1 THEN n1 ELSE 0]
  BY <1>5, <1>9, <1>14, <1>16, <1>17
<1> QED BY <1>12, <1>17, <1>18 DEF Validated

LEMMA ValidHasRecord ==
  ASSUME NEW f, NEW key, NEW prefetch,
         NEW v, v = ReadAndValidateStream0AndMaybe1(f, key, prefetch), v.ok
  PROVE  EofRecord(f, Len(f) - 1)
<1>1. SUFFICES ASSUME ~ EofRecord(f, Len(f) - 1)
               PROVE  FALSE
  OBVIOUS
<1>2. ~ EofRecord(f, Len(f) - EofSize)
  BY <1>1, EntryAssumption
<1> DEFINE m == Len(f)
           eof0 == CellAt(f, m - EofSize)
           extra == IF eof0.hasSha THEN Sha256Size ELSE 0
           size1 == m - 2 * EofSize - eof0.size - HeaderSize - extra
           size == [s \in Streams |-> CASE s = 0 -> eof0.size [] s = 1 -> size1 [] s = 2 -> 0]
           stream0 == Cells(f, GetOffsetInFile(size, 0, 0), eof0.size)
           stream1 == Cells(f, GetOffsetInFile(size, 0, 1), size1)
           sha == CellAt(f, GetOffsetInFile(size, eof0.size, 0))
           at1 == GetEOFOffsetInFile(size, 1)
           prefetched == eof0.hasSha /\ HasData(f, GetOffsetInFile(size, 0, 1), prefetch)
           A == ~ EofRecord(f, m - EofSize)
           B == eof0.size > m \/ size1 < 0
           C == ~ CrcMatches(eof0, stream0)
           D == prefetched /\ ~ (EofRecord(f, at1) /\ CrcMatches(CellAt(f, at1), stream1))
           E == ~ KeyVerified(f, key, eof0.hasSha, sha)
           valid == [ok |-> TRUE, size |-> size, stream0 |-> stream0,
                     stream1 |-> IF prefetched THEN stream1 ELSE <<>>]
<1>3. v = CASE A -> Invalid [] B -> Invalid [] C -> Invalid [] D -> Invalid
            [] E -> Invalid [] OTHER -> valid
  BY DEF ReadAndValidateStream0AndMaybe1
<1>4. A
  BY <1>2
<1> HIDE DEF A, B, C, D, E, valid
<1>5. v = Invalid
  BY <1>3, <1>4
<1> QED BY <1>5 DEF Invalid

\* What an open makes of a first file it finds valid.
TailRead(v, f, law, n0, n1) ==
  /\ v.size = [s \in Streams |-> IF s = 0 THEN n0 ELSE IF s = 1 THEN n1 ELSE 0]
  /\ v.stream0 \in law[0] /\ Len(v.stream0) = n0
  /\ v.stream1 \in {<<>>, Cells(f, 1, n1)}
  /\ Len(f) >= n1 + 1 /\ TailBehind(f, n1)

LEMMA CellsFacts ==
  ASSUME NEW f, IsFile(f), NEW a \in Nat, NEW b \in Nat, a + b <= Len(f),
         NEW c, c = Cells(f, a, b)
  PROVE  IsFile(c) /\ Len(c) = b /\ \A i \in 1 .. b : c[i] = f[a + i]
BY SubSeqFacts DEF Cells

LEMMA TailSays ==
  ASSUME NEW f, IsFile(f), NEW law, Sound(f, 0, law), TailUnique(f),
         \A x \in law[0] : AllBytes(x), <<>> \in law[0], NEW key, NEW prefetch,
         NEW v, v = ReadAndValidateStream0AndMaybe1(f, key, prefetch), v.ok
  PROVE  \E n0, n1 \in Nat : TailRead(v, f, law, n0, n1)
<1>1. PICK m, z : m = Len(f) /\ z = CellAt(f, m - 1)
  OBVIOUS
<1>2. EofRecord(f, m - 1) /\ m \in Nat
  BY <1>1, ValidHasRecord, FileFacts
<1>3. m > 0 /\ z = f[m] /\ IsEof(z) /\ m \in 1 .. Len(f)
  <2>1. m - 1 >= 0 /\ z.kind = "eof"
    BY <1>1, <1>2, EntryAssumption DEF EofRecord, Readable
  <2>2. m - 1 \in 0 .. Len(f) - 1 /\ (m - 1) + 1 = m
    BY <1>1, <1>2, <2>1
  <2> QED BY <1>1, <1>2, <2>1, <2>2 DEF CellAt, IsEof
<1>4. SoundEof(z, 0, law)
  BY <1>3 DEF Sound
<1>5. PICK n0 : n0 = z.size
  OBVIOUS
<1>6. n0 \in Nat
  <2>1. CASE z.hasSha
    <3>1. z.crc \in law[0] /\ n0 = Len(z.crc)
      BY <1>4, <1>5, <2>1 DEF SoundEof
    <3>2. IsFile(z.crc)
      BY <3>1 DEF AllBytes
    <3> QED BY <3>1, <3>2, FileFacts
  <2>2. CASE ~ z.hasSha
    BY <1>4, <1>5, <2>2 DEF SoundEof
  <2> QED BY <2>1, <2>2
<1>7. PICK x : x = IF z.hasSha THEN 1 ELSE 0
  OBVIOUS
<1>8. PICK n1 : n1 = m - 3 - n0 - x
  OBVIOUS
<1>9. n1 \in Int /\ x \in {0, 1}
  BY <1>2, <1>6, <1>7, <1>8
<1>10. Validated(v, f, key, prefetch, z, n0, n1)
  <2>1. n1 = Len(f) - 3 - n0 - IF z.hasSha THEN 1 ELSE 0
    BY <1>1, <1>7, <1>8
  <2> QED BY <1>1, <1>5, <1>6, <1>9, <2>1, ValidationIs
<1>11. PICK s0, s1 : s0 = Cells(f, n1 + 2, n0) /\ s1 = Cells(f, 1, n1)
  OBVIOUS
<1>12. /\ ~ (n1 < 0) /\ CrcMatches(z, s0) /\ v.stream0 = s0 /\ v.stream1 \in {<<>>, s1}
       /\ v.size = [s \in Streams |-> IF s = 0 THEN n0 ELSE IF s = 1 THEN n1 ELSE 0]
  BY <1>10, <1>11 DEF Validated
<1>13. n1 \in Nat /\ m = n1 + n0 + x + 3
  BY <1>2, <1>6, <1>8, <1>9, <1>12
<1>14. IsFile(s0) /\ Len(s0) = n0
  <2>1. PICK a : a = n1 + 2
    OBVIOUS
  <2>2. a \in Nat /\ a + n0 <= Len(f)
    BY <1>1, <1>6, <1>9, <1>13, <2>1
  <2>3. s0 = Cells(f, a, n0)
    BY <1>11, <2>1
  <2> QED BY <1>6, <2>2, <2>3, CellsFacts
<1>15. s0 \in law[0]
  <2>1. CASE z.hasSha
    <3>1. z.hasCrc /\ z.crc \in law[0]
      BY <1>4, <2>1 DEF SoundEof
    <3> QED BY <1>12, <3>1 DEF CrcMatches
  <2>2. CASE ~ z.hasSha
    <3>1. n0 = 0
      BY <1>4, <1>5, <2>2 DEF SoundEof
    <3>2. s0 = <<>>
      BY <1>14, <3>1, FileFacts
    <3> QED BY <3>2
  <2> QED BY <2>1, <2>2
<1>16. TailBehind(f, n1)
  <2> SUFFICES ASSUME NEW j \in 1 .. Len(f), TailEof(f[j])
               PROVE  j >= n1 + 3
    BY DEF TailBehind
  <2>1. CASE z.hasSha
    <3>1. TailEof(f[m])
      BY <1>3, <2>1 DEF TailEof
    <3>2. j = m
      BY <1>3, <3>1 DEF TailUnique
    <3>3. x = 1
      BY <1>7, <2>1
    <3> QED BY <1>6, <1>13, <3>2, <3>3
  <2>2. CASE ~ z.hasSha
    <3>1. InnerEof(f[m])
      BY <1>3, <2>2 DEF InnerEof
    <3>2. m < j
      BY <1>3, <3>1 DEF TailUnique
    <3> QED BY <1>1, <1>2, <3>2
  <2> QED BY <2>1, <2>2
<1>17. Len(f) >= n1 + 1
  BY <1>1, <1>6, <1>9, <1>13
<1>18. TailRead(v, f, law, n0, n1)
  BY <1>11, <1>12, <1>14, <1>15, <1>16, <1>17 DEF TailRead
<1> QED BY <1>6, <1>13, <1>18

\* A stream is what the file holds there.
LEMMA HeldIs ==
  ASSUME NEW f, IsFile(f), NEW stream, IsFile(stream), NEW start \in Nat, Holds(f, start, stream),
         NEW n, n = Len(stream), NEW c, c = Cells(f, start, n)
  PROVE  c = stream
<1>1. n \in Nat /\ Len(f) \in Nat /\ Len(f) >= start + n
  BY FileFacts DEF Holds
<1>2. IsFile(c) /\ Len(c) = n /\ \A i \in 1 .. n : c[i] = f[start + i]
  BY <1>1, CellsFacts
<1>3. \A i \in 1 .. n : c[i] = stream[i]
  BY <1>2 DEF Holds
<1> QED BY <1>2, <1>3, SameFile

\* What an open makes of a first file that was closed in order.
ExactRead(v, k, b, stream) ==
  /\ v.ok /\ v.stream0 = stream /\ v.stream1 \in {<<>>, b}
  /\ v.size = [s \in Streams |-> IF s = 0 THEN Len(stream) ELSE IF s = 1 THEN Len(b) ELSE 0]

LEMMA ExactSays ==
  ASSUME NEW f, IsFile(f), NEW k, NEW b, IsFile(b), NEW n, n = Len(b), NEW stream, IsFile(stream),
         Holds(f, 1, b), RecordOf(f[n + 2], b), TailExact(f, k, n, stream), NEW prefetch,
         NEW v, v = ReadAndValidateStream0AndMaybe1(f, k, prefetch)
  PROVE  ExactRead(v, k, b, stream)
<1>1. PICK m, n0, z : m = Len(f) /\ n0 = Len(stream) /\ z = CellAt(f, m - 1)
  OBVIOUS
<1>2. m \in Nat /\ n0 \in Nat /\ n \in Nat
  BY <1>1, FileFacts
<1>3. /\ m = n + n0 + 4 /\ Holds(f, n + 2, stream) /\ f[n + n0 + 3] = Sha256(k)
      /\ f[m] = Eof(TRUE, stream, n0, TRUE)
  BY <1>1 DEF TailExact
<1>4. z = f[m]
  <2>1. m - 1 \in 0 .. Len(f) - 1 /\ (m - 1) + 1 = m
    BY <1>1, <1>2, <1>3
  <2> QED BY <1>1, <2>1 DEF CellAt
<1>5. IsEof(z) /\ z.hasSha /\ z.hasCrc /\ z.crc = stream /\ z.size = n0
  BY <1>3, <1>4 DEF Eof, IsEof
<1>6. Validated(v, f, k, prefetch, z, n0, n)
  <2>1. n = Len(f) - 3 - n0 - IF z.hasSha THEN 1 ELSE 0
    <3>1. n = m - 3 - n0 - 1
      BY <1>2, <1>3
    <3> QED BY <1>1, <1>5, <3>1
  <2>2. z = CellAt(f, Len(f) - 1) /\ z.size = n0 /\ n \in Int
    BY <1>1, <1>2, <1>5
  <2> QED BY <1>2, <2>1, <2>2, ValidationIs
<1>7. PICK a, s0, s1 : a = n + 2 /\ s0 = Cells(f, a, n0) /\ s1 = Cells(f, 1, n)
  OBVIOUS
<1>8. s0 = stream /\ s1 = b
  <2>1. a \in Nat /\ Holds(f, a, stream)
    BY <1>2, <1>3, <1>7
  <2> QED BY <1>1, <1>7, <2>1, HeldIs
<1>9. EofRecord(f, m - 1) /\ ~ (n0 > m) /\ ~ (n < 0) /\ CrcMatches(z, s0)
  <2>1. EofRecord(f, m - 1)
    <3>1. m - 1 >= 0 /\ m - 1 + 1 <= Len(f)
      BY <1>1, <1>2, <1>3
    <3> QED BY <1>1, <1>5, <3>1, EntryAssumption DEF EofRecord, Readable, IsEof
  <2>2. ~ (n0 > m) /\ ~ (n < 0)
    BY <1>2, <1>3
  <2> QED BY <1>5, <1>8, <2>1, <2>2 DEF CrcMatches
<1>10. EofRecord(f, n + 1) /\ CrcMatches(CellAt(f, n + 1), s1)
  <2>1. PICK y : y = CellAt(f, n + 1)
    OBVIOUS
  <2>2. n + 2 <= Len(f)
    BY <1>1, <1>2, <1>3
  <2>3. EofRecord(f, n + 1) /\ y = f[n + 2]
    BY <1>2, <2>1, <2>2, RecordThere DEF RecordOf, InnerEof
  <2> QED BY <1>8, <2>1, <2>3 DEF RecordOf, CrcMatches
<1>11. KeyVerified(f, k, z.hasSha, CellAt(f, n + 2 + n0))
  <2>1. n + 2 + n0 \in 0 .. Len(f) - 1 /\ (n + 2 + n0) + 1 = n + n0 + 3
    BY <1>1, <1>2, <1>3
  <2>2. CellAt(f, n + 2 + n0) = Sha256(k)
    BY <1>3, <2>1 DEF CellAt
  <2> QED BY <1>5, <2>2 DEF KeyVerified
<1>12. v.ok
  BY <1>1, <1>6, <1>7, <1>9, <1>10, <1>11 DEF Validated
<1>13. /\ v.stream0 = s0 /\ v.stream1 \in {<<>>, s1}
       /\ v.size = [s \in Streams |-> IF s = 0 THEN n0 ELSE IF s = 1 THEN n ELSE 0]
  BY <1>6, <1>7, <1>12 DEF Validated
<1> QED BY <1>1, <1>8, <1>12, <1>13 DEF ExactRead

\* The entry an open makes of files whose tail says v, with size2 bytes of stream 2.
OpenedAs(e, d, key, k, v, size2) ==
  IF (key = NoKey /\ ~ CheckHeaderAndKey(d[0], NoKey)) \/ ~ v.ok
  THEN e = Closed
  ELSE /\ "file" \in DOMAIN e
       /\ e.key = k /\ e.born = CellAt(d[0], 0).born /\ ~ e.failed
       /\ e.file = [i \in FileIndices |-> IF i = 1 /\ size2 = 0 THEN Missing ELSE d[i]]
       /\ e.headerCheckNeeded = (size2 > 0)
       /\ e.size = [v.size EXCEPT ![2] = size2] /\ e.stream0 = v.stream0
       /\ e.written = [s \in Streams |-> FALSE]
       /\ e.crcEnd[1] = Len(v.stream1) /\ e.crcEnd[2] = 0 /\ e.crc[1] = v.stream1

LEMMA OpenedIs ==
  ASSUME NEW d, NEW key, NEW prefetch, NEW e, e = InitializeForOpen(d, key, prefetch, TRUE),
         NEW k, k = IF key = NoKey THEN CellAt(d[0], 0).key ELSE key,
         NEW v, v = ReadAndValidateStream0AndMaybe1(d[0], k, prefetch),
         NEW size2, size2 = IF d[1] = Missing THEN 0 ELSE Stream2Size(d[1])
  PROVE  OpenedAs(e, d, key, k, v, size2)
<1>1. PICK opened :
        opened =
          [key |-> k, born |-> CellAt(d[0], 0).born,
           file |-> [i \in FileIndices |-> IF i = 1 /\ size2 = 0 THEN Missing ELSE d[i]],
           headerCheckNeeded |-> size2 > 0,
           size |-> [v.size EXCEPT ![2] = size2], stream0 |-> v.stream0,
           written |-> [s \in Streams |-> FALSE],
           crcEnd |-> [s \in Streams |-> CASE s = 0 -> v.size[0] [] s = 1 -> Len(v.stream1)
                                           [] s = 2 -> 0],
           crc |-> [s \in Streams |-> CASE s = 0 -> v.stream0 [] s = 1 -> v.stream1
                                        [] s = 2 -> <<>>],
           doomed |-> FALSE, failed |-> FALSE]
  OBVIOUS
<1>2. e = CASE key = NoKey /\ ~ CheckHeaderAndKey(d[0], NoKey) -> Closed
            [] ~ v.ok -> Closed
            [] OTHER -> opened
  <2> DEFINE knownKey == IF key = NoKey THEN CellAt(d[0], 0).key ELSE key
             w == ReadAndValidateStream0AndMaybe1(d[0], knownKey, prefetch)
             sz == IF d[1] = Missing THEN 0 ELSE Stream2Size(d[1])
             crcEnd1 == Len(w.stream1)
             made ==
               [key |-> knownKey, born |-> CellAt(d[0], 0).born,
                file |-> [i \in FileIndices |-> IF i = 1 /\ sz = 0 THEN Missing ELSE d[i]],
                headerCheckNeeded |-> sz > 0,
                size |-> [w.size EXCEPT ![2] = sz], stream0 |-> w.stream0,
                written |-> [s \in Streams |-> FALSE],
                crcEnd |-> [s \in Streams |-> CASE s = 0 -> w.size[0] [] s = 1 -> crcEnd1
                                                [] s = 2 -> 0],
                crc |-> [s \in Streams |-> CASE s = 0 -> w.stream0 [] s = 1 -> w.stream1
                                             [] s = 2 -> <<>>],
                doomed |-> FALSE, failed |-> FALSE]
  <2>1. e = CASE key = NoKey /\ ~ CheckHeaderAndKey(d[0], NoKey) -> Closed
              [] ~ w.ok -> Closed
              [] OTHER -> made
    BY DEF InitializeForOpen
  <2>2. knownKey = k /\ sz = size2
    OBVIOUS
  <2>3. w = v
    BY <2>2
  <2> HIDE DEF knownKey, w, sz
  <2>4. made = opened
    BY <1>1, <2>2, <2>3
  <2> HIDE DEF made
  <2> QED BY <2>1, <2>3, <2>4
<1>3. /\ "file" \in DOMAIN opened
      /\ opened.key = k /\ opened.born = CellAt(d[0], 0).born /\ opened.failed = FALSE
      /\ opened.file = [i \in FileIndices |-> IF i = 1 /\ size2 = 0 THEN Missing ELSE d[i]]
      /\ opened.headerCheckNeeded = (size2 > 0)
      /\ opened.size = [v.size EXCEPT ![2] = size2] /\ opened.stream0 = v.stream0
      /\ opened.written = [s \in Streams |-> FALSE]
  BY <1>1
<1>4. opened.crcEnd[1] = Len(v.stream1) /\ opened.crcEnd[2] = 0 /\ opened.crc[1] = v.stream1
  <2>1. /\ opened.crcEnd = [s \in Streams |-> CASE s = 0 -> v.size[0] [] s = 1 -> Len(v.stream1)
                                                [] s = 2 -> 0]
        /\ opened.crc = [s \in Streams |-> CASE s = 0 -> v.stream0 [] s = 1 -> v.stream1
                                             [] s = 2 -> <<>>]
    BY <1>1
  <2>2. 1 \in Streams /\ 2 \in Streams
    BY DEF Streams
  <2> QED BY <2>1, <2>2
<1> DEFINE A == key = NoKey /\ ~ CheckHeaderAndKey(d[0], NoKey)
           B == ~ v.ok
<1>5. e = CASE A -> Closed [] B -> Closed [] OTHER -> opened
  BY <1>2
<1>6. IF A \/ B THEN e = Closed ELSE e = opened
  <2> HIDE DEF A, B
  <2> QED BY <1>5
<1>7. CASE A \/ B
  BY <1>6, <1>7 DEF OpenedAs
<1>8. CASE ~ (A \/ B)
  <2>1. e = opened
    BY <1>6, <1>8
  <2> HIDE <1>1, <1>2
  <2> QED BY <1>3, <1>4, <1>8, <2>1 DEF OpenedAs
<1> QED BY <1>7, <1>8

LEMMA Stream2SizeIs ==
  ASSUME NEW f, IsFile(f), NEW n, n = Stream2Size(f)
  PROVE  /\ n \in Nat /\ (n > 0 => Len(f) = n + 2)
         /\ \A b : IsFile(b) /\ Len(f) = Len(b) + 2 /\ RecordOf(f[Len(f)], b) => n = Len(b)
<1>1. PICK l, m : l = Len(f) /\ m = l - 2
  OBVIOUS
<1>2. l \in Nat /\ m \in Int
  BY <1>1, FileFacts
<1>3. n = IF m > 0 /\ EofRecord(f, m + 1) THEN m ELSE 0
  <2>1. GetDataSizeFromFileSize(l) = m
    BY <1>1, <1>2, EntryAssumption DEF GetDataSizeFromFileSize
  <2>2. HeaderSize + m = m + 1
    BY <1>2, EntryAssumption
  <2> QED BY <1>1, <2>1, <2>2 DEF Stream2Size
<1>4. n \in Nat /\ (n > 0 => Len(f) = n + 2)
  BY <1>1, <1>2, <1>3
<1>5. ASSUME NEW b, IsFile(b), Len(f) = Len(b) + 2, RecordOf(f[Len(f)], b)
      PROVE  n = Len(b)
  <2>1. PICK x : x = Len(b)
    OBVIOUS
  <2>2. x \in Nat /\ m = x
    BY <1>1, <1>5, <2>1, FileFacts
  <2>3. EofRecord(f, m + 1)
    <3>1. m + 2 = Len(f)
      BY <1>1, <1>2
    <3>2. m + 2 <= Len(f) /\ IsEof(f[m + 2])
      BY <1>2, <1>5, <3>1 DEF RecordOf, InnerEof
    <3>3. PICK z : z = CellAt(f, m + 1)
      OBVIOUS
    <3> QED BY <2>2, <3>2, <3>3, RecordThere
  <2> QED BY <1>3, <2>1, <2>2, <2>3
<1> QED BY <1>4, <1>5

\* What an open finds.
Found(e, c, dmg) == IF dmg THEN Seen(e) ELSE c

OpenedFine(e, c, law, dmg, n) ==
  /\ HistoryOK(Found(e, c, dmg), law) /\ OpenOK(e, Found(e, c, dmg), law, dmg, n)
  /\ ~ e.failed

\* The entry of an open that could read all it looked at.
OpenedWhole(d, key, prefetch) == InitializeForOpen(d, key, prefetch, TRUE)

LEMMA OpenedStreams ==
  ASSUME Distinct, NEW d, OwnedDirectory(d), d[0] # Missing,
         NEW c, NEW law, HistoryOK(c, law), NEW dmg \in BOOLEAN, NEW n \in Nat,
         ClosedOK(d, c, law, dmg, n),
         NEW key \in Keys \cup {NoKey}, NEW prefetch,
         NEW e, e = OpenedWhole(d, key, prefetch), e # Closed
  PROVE  OpenedFine(e, c, law, dmg, n)
<1>1. /\ Shape(e) /\ e.key \in Keys /\ FilesFull(e.file, e.key, e.born)
  BY OpenedIsOwned DEF OpenedWhole
<1>2. PICK k, v, size2 :
        /\ k = IF key = NoKey THEN CellAt(d[0], 0).key ELSE key
        /\ v = ReadAndValidateStream0AndMaybe1(d[0], k, prefetch)
        /\ size2 = IF d[1] = Missing THEN 0 ELSE Stream2Size(d[1])
  OBVIOUS
<1>3. OpenedAs(e, d, key, k, v, size2)
  BY <1>2, OpenedIs DEF OpenedWhole
<1>4. /\ v.ok /\ e.key = k /\ ~ e.failed
      /\ e.file = [i \in FileIndices |-> IF i = 1 /\ size2 = 0 THEN Missing ELSE d[i]]
      /\ e.headerCheckNeeded = (size2 > 0)
      /\ e.size = [v.size EXCEPT ![2] = size2] /\ e.stream0 = v.stream0
      /\ e.written = [s \in Streams |-> FALSE]
      /\ e.crcEnd[1] = Len(v.stream1) /\ e.crcEnd[2] = 0 /\ e.crc[1] = v.stream1
  BY <1>3 DEF OpenedAs
<1>5. PICK f, f1 : f = d[0] /\ f1 = e.file[1]
  OBVIOUS
<1>6. e.file[0] = f /\ f1 = (IF size2 = 0 THEN Missing ELSE d[1])
  BY <1>4, <1>5 DEF FileIndices
<1>7. /\ IsFile(f) /\ f # <<>> /\ f # Missing /\ f[1] = Header(e.key, e.born)
      /\ f1 # Missing => IsFile(f1)
  <2>1. Full(f, e.key, e.born) /\ (f1 # Missing => Full(f1, e.key, e.born))
    BY <1>1, <1>5, <1>6 DEF FilesFull
  <2>2. IsFile(f) /\ Len(f) > 0 /\ f[1] = Header(e.key, e.born) /\ (f1 # Missing => IsFile(f1))
    BY <2>1 DEF Full, OwnCells
  <2> QED BY <2>2, FileFacts DEF Distinct
<1>8. /\ SoundFiles(d, law) /\ TailUnique(f) /\ e.born \in 1 .. n
      /\ ~ dmg => Exact(d, e.key, c)
  <2>1. /\ SoundFiles(d, law) /\ TailUnique(d[0]) /\ d[0][1].born \in 1 .. n
        /\ ~ dmg => Exact(d, d[0][1].key, c)
    BY <1>5, <1>7 DEF ClosedOK
  <2>2. d[0][1].born = e.born /\ d[0][1].key = e.key
    BY <1>5, <1>7 DEF Header
  <2> QED BY <1>5, <2>1, <2>2
<1>9. Sound(f, 0, law) /\ (d[1] # Missing => Sound(d[1], 1, law))
  BY <1>5, <1>8 DEF SoundFiles
<1>10. /\ \A x \in law[0] : AllBytes(x)
       /\ <<>> \in law[0]
       /\ law = [s \in Streams |-> law[s]] /\ c = [s \in Streams |-> c[s]]
       /\ \A s \in Streams : IsFile(c[s])
  BY DEF HistoryOK
<1>11. PICK n0 \in Nat, n1 \in Nat : TailRead(v, f, law, n0, n1)
  <2>1. v = ReadAndValidateStream0AndMaybe1(f, k, prefetch)
    BY <1>2, <1>5
  <2> QED BY <1>4, <1>7, <1>8, <1>9, <1>10, <2>1, TailSays
<1>12. /\ v.size = [s \in Streams |-> IF s = 0 THEN n0 ELSE IF s = 1 THEN n1 ELSE 0]
       /\ v.stream0 \in law[0] /\ Len(v.stream0) = n0
       /\ v.stream1 \in {<<>>, Cells(f, 1, n1)}
       /\ Len(f) >= n1 + 1 /\ TailBehind(f, n1)
  BY <1>11 DEF TailRead
<1>13. 0 \in Streams /\ 1 \in Streams /\ 2 \in Streams /\ \A s \in Streams : s \in {0, 1, 2}
  BY DEF Streams
<1>14. e.size[0] = n0 /\ e.size[1] = n1 /\ e.size[2] = size2
  BY <1>4, <1>12, <1>13
<1>15. /\ size2 \in Nat /\ (size2 > 0 => d[1] # Missing /\ IsFile(d[1]) /\ Len(d[1]) = size2 + 2)
       /\ f1 = Missing <=> size2 = 0
  <2>1. CASE size2 = 0
    BY <1>6, <2>1
  <2>2. CASE size2 # 0
    <3>1. d[1] # Missing /\ size2 = Stream2Size(d[1])
      BY <1>2, <2>2
    <3>2. f1 = d[1] /\ f1 # Missing /\ IsFile(f1)
      BY <1>6, <1>7, <2>2, <3>1
    <3>3. size2 \in Nat /\ (size2 > 0 => Len(f1) = size2 + 2)
      BY <3>1, <3>2, Stream2SizeIs
    <3> QED BY <2>2, <3>1, <3>2, <3>3
  <2> QED BY <2>1, <2>2
<1>16. PICK s1, s2 : /\ s1 = Cells(f, 1, n1)
                     /\ s2 = IF f1 = Missing THEN <<>> ELSE Cells(f1, 1, size2)
  OBVIOUS
<1>17. IsFile(s1) /\ Len(s1) = n1 /\ Holds(f, 1, s1)
  <2>1. 1 + n1 <= Len(f)
    BY <1>7, <1>12, FileFacts
  <2>2. IsFile(s1) /\ Len(s1) = n1 /\ \A i \in 1 .. n1 : s1[i] = f[1 + i]
    <3>1. IsFile(f) /\ 1 \in Nat /\ s1 = Cells(f, 1, n1)
      BY <1>7, <1>16
    <3> QED BY <2>1, <3>1, CellsFacts
  <2> QED BY <2>1, <2>2, <1>7, <1>12 DEF Holds
<1>18. IsFile(s2) /\ Len(s2) = size2 /\ (f1 # Missing => Holds(f1, 1, s2))
  <2>1. CASE f1 = Missing
    BY <1>15, <1>16, <2>1, EmptyIsFile
  <2>2. CASE f1 # Missing
    <3>1. IsFile(f1) /\ Len(f1) = size2 + 2 /\ size2 \in Nat
      BY <1>6, <1>15, <2>2
    <3>2. 1 + size2 <= Len(f1)
      BY <3>1
    <3>3. s2 = Cells(f1, 1, size2)
      BY <1>16, <2>2
    <3>4. IsFile(s2) /\ Len(s2) = size2 /\ \A i \in 1 .. size2 : s2[i] = f1[1 + i]
      BY <3>1, <3>2, <3>3, CellsFacts
    <3> QED BY <3>2, <3>4, <3>1 DEF Holds
  <2> QED BY <2>1, <2>2
<1>19. PICK new : new = Seen(e)
  OBVIOUS
<1>20. /\ new = [s \in Streams |-> new[s]]
       /\ new[0] = v.stream0 /\ new[1] = s1 /\ new[2] = s2
  <2>1. PICK size : size = e.size
    OBVIOUS
  <2>2. GetOffsetInFile(size, 0, 1) = 1 /\ GetOffsetInFile(size, 0, 2) = 1
    BY EntryAssumption DEF GetOffsetInFile
  <2>3. GetFileIndexFromStreamIndex(1) = 0 /\ GetFileIndexFromStreamIndex(2) = 1
    BY DEF GetFileIndexFromStreamIndex
  <2>4. new = [s \in Streams |-> new[s]]
    BY <1>19 DEF Seen
  <2>5. new[0] = v.stream0
    BY <1>4, <1>13, <1>19 DEF Seen
  <2>6. new[1] = IF Omitted(e, 0) THEN <<>> ELSE Cells(e.file[0], 1, n1)
    BY <1>13, <1>14, <1>19, <2>1, <2>2, <2>3 DEF Seen
  <2>7. new[2] = IF Omitted(e, 1) THEN <<>> ELSE Cells(e.file[1], 1, size2)
    BY <1>13, <1>14, <1>19, <2>1, <2>2, <2>3 DEF Seen
  <2>8. new[1] = s1
    BY <1>6, <1>7, <1>16, <2>6 DEF Omitted
  <2>9. new[2] = s2
    BY <1>5, <1>16, <2>7 DEF Omitted
  <2> QED BY <2>4, <2>5, <2>8, <2>9
<1>21. ASSUME ~ dmg
       PROVE  /\ c = new
              /\ Len(f) >= n1 + 2 /\ RecordOf(f[n1 + 2], s1) /\ TailExact(f, e.key, n1, new[0])
              /\ f1 # Missing => RecordOf(f1[size2 + 2], s2)
  <2>1. PICK b, stream, m, b2 : b = c[1] /\ stream = c[0] /\ m = Len(b) /\ b2 = c[2]
    OBVIOUS
  <2>2. IsFile(b) /\ IsFile(stream) /\ IsFile(b2) /\ m \in Nat /\ Len(stream) \in Nat
    BY <1>10, <1>13, <2>1, FileFacts
  <2>3. Holds(f, 1, b) /\ RecordOf(f[m + 2], b) /\ TailExact(f, e.key, m, stream)
    BY <1>5, <1>8, <1>21, <2>1 DEF Exact
  <2>4. IF d[1] = Missing THEN b2 = <<>>
        ELSE Len(d[1]) = Len(b2) + 2 /\ Holds(d[1], 1, b2) /\ RecordOf(d[1][Len(d[1])], b2)
    BY <1>8, <1>21, <2>1 DEF Exact
  <2>5. ExactRead(v, k, b, stream)
    <3>1. v = ReadAndValidateStream0AndMaybe1(f, k, prefetch) /\ TailExact(f, k, m, stream)
      BY <1>2, <1>4, <1>5, <2>3
    <3> QED BY <1>7, <2>1, <2>2, <2>3, <3>1, ExactSays
  <2>6. v.stream0 = stream /\ n1 = m
    BY <1>12, <1>13, <2>1, <2>5 DEF ExactRead
  <2>7. s1 = b
    BY <1>7, <1>16, <2>1, <2>2, <2>3, <2>6, HeldIs
  <2>8. s2 = b2 /\ (f1 # Missing => RecordOf(f1[size2 + 2], b2))
    <3>1. CASE d[1] = Missing
      <4>1. size2 = 0
        BY <1>2, <3>1
      <4> QED BY <1>15, <1>16, <2>4, <3>1, <4>1
    <3>2. CASE d[1] # Missing
      <4>1. PICK g : g = d[1]
        OBVIOUS
      <4>2. Len(g) = Len(b2) + 2 /\ Holds(g, 1, b2) /\ RecordOf(g[Len(g)], b2)
        BY <2>4, <3>2, <4>1
      <4>3. IsFile(g)
        <5>1. OwnedDirectory(d) /\ d[0] \notin {Missing, <<>>}
          BY <1>5, <1>7
        <5>2. g = <<>> \/ IsFile(g)
          BY <3>2, <4>1, <5>1 DEF OwnedDirectory, FilesOwned, Full, OwnCells
        <5> QED BY <5>2, EmptyIsFile
      <4>4. size2 = Len(b2)
        <5>1. size2 = Stream2Size(g)
          BY <1>2, <3>2, <4>1
        <5> QED BY <2>2, <4>2, <4>3, <5>1, Stream2SizeIs
      <4>5. CASE size2 = 0
        <5>1. b2 = <<>>
          BY <2>2, <4>4, <4>5, FileFacts
        <5> QED BY <1>15, <1>16, <4>5, <5>1
      <4>6. CASE size2 # 0
        <5>1. f1 = g /\ f1 # Missing
          BY <1>6, <1>15, <4>1, <4>6
        <5>2. s2 = Cells(g, 1, size2)
          BY <1>16, <5>1
        <5>3. s2 = b2
          BY <2>2, <4>2, <4>3, <4>4, <5>2, HeldIs
        <5>4. size2 + 2 = Len(g)
          BY <4>2, <4>4
        <5> QED BY <4>2, <5>1, <5>3, <5>4
      <4> QED BY <4>5, <4>6
    <3> QED BY <3>1, <3>2
  <2>9. c = new
    <3>1. \A s \in Streams : c[s] = new[s]
      BY <1>13, <1>20, <2>1, <2>6, <2>7, <2>8
    <3> QED BY <1>10, <1>20, <3>1
  <2>10. Len(f) >= n1 + 2
    <3>1. Len(f) = m + Len(stream) + 4
      BY <2>3 DEF TailExact
    <3> QED BY <2>2, <2>6, <3>1
  <2> QED BY <1>20, <2>3, <2>6, <2>7, <2>8, <2>9, <2>10
<1>22. HistoryOK(new, law)
  <2>1. IsFile(new[0])
    BY <1>10, <1>12, <1>20 DEF AllBytes
  <2>2. \A s \in Streams : IsFile(new[s])
    BY <1>13, <1>17, <1>18, <1>20, <2>1
  <2> QED BY <1>10, <1>20, <2>2 DEF HistoryOK
<1>23. ReadyOK(e, new, law, dmg)
  <2>1. SoundFiles(e.file, law)
    BY <1>5, <1>6, <1>9, <1>15 DEF SoundFiles
  <2>2. TailUnique(e.file[0]) /\ TailBehind(e.file[0], e.size[1])
    BY <1>6, <1>8, <1>12, <1>14
  <2>3. StreamsHeld(e, new)
    BY <1>5, <1>6, <1>16, <1>17, <1>18, <1>20 DEF StreamsHeld
  <2>4. CrcsOK(e, new)
    <3>1. CrcOf(e.crc[1], e.crcEnd[1], s1)
      <4>1. CASE v.stream1 = <<>>
        <5>1. e.crcEnd[1] = 0
          BY <1>4, <4>1, EmptyIsFile
        <5> QED BY <1>17, <5>1 DEF CrcOf
      <4>2. CASE v.stream1 = s1
        <5>1. e.crcEnd[1] = n1 /\ e.crc[1] = s1 /\ s1 = SubSeq(s1, 1, n1)
          BY <1>4, <1>17, <4>2, WholeIs
        <5> QED BY <1>17, <5>1 DEF CrcOf
      <4> QED BY <1>12, <1>16, <4>1, <4>2
    <3>2. CrcOf(e.crc[2], e.crcEnd[2], s2)
      BY <1>4, <1>15, <1>18 DEF CrcOf
    <3> QED BY <1>20, <3>1, <3>2 DEF CrcsOK
  <2>5. DOMAIN e.written = Streams /\ \A s \in Streams : e.written[s] = FALSE
    BY <1>4
  <2>6. e.headerCheckNeeded \in BOOLEAN /\ (e.headerCheckNeeded => e.file[1] # Missing)
    <3>1. PICK h, more : h = e.headerCheckNeeded /\ more = (size2 > 0)
      OBVIOUS
    <3>2. h = more /\ more \in BOOLEAN
      BY <1>4, <3>1
    <3>3. ASSUME more
          PROVE  f1 # Missing
      <4>1. size2 > 0
        BY <3>1, <3>3, Zenon
      <4>2. size2 # 0
        BY <1>15, <4>1
      <4> QED BY <1>15, <4>2
    <3> QED BY <1>5, <3>1, <3>2, <3>3
  <2>7. ~ dmg => UnwrittenExact(e, new)
    <3>1. ASSUME ~ dmg, e.file[1] # Missing
          PROVE  /\ Len(e.file[1]) = Len(new[2]) + 2
                 /\ Len(e.file[1]) <= Len(new[2]) + 2
                 /\ RecordOf(e.file[1][Len(new[2]) + 2], new[2])
      <4>1. size2 > 0 /\ f1 # Missing /\ size2 \in Nat
        BY <1>5, <1>15, <3>1
      <4>2. Len(f1) = size2 + 2
        BY <1>6, <1>15, <4>1
      <4> QED BY <1>5, <1>18, <1>20, <1>21, <3>1, <4>1, <4>2
    <3>2. ASSUME ~ dmg
          PROVE  /\ Len(e.file[0]) >= Len(new[1]) + 2
                 /\ RecordOf(e.file[0][Len(new[1]) + 2], new[1])
                 /\ TailExact(e.file[0], e.key, Len(new[1]), new[0])
      BY <1>6, <1>17, <1>20, <1>21, <3>2
    <3> QED BY <3>1, <3>2 DEF UnwrittenExact
  <2>8. ~ e.written[1] /\ ~ e.written[2]
    BY <1>13, <2>5
  <2> QED BY <2>1, <2>2, <2>3, <2>4, <2>5, <2>6, <2>7, <2>8 DEF ReadyOK
<1>24. OpenOK(e, new, law, dmg, n)
  <2>1. \A s \in Streams : e.size[s] = Len(new[s])
    BY <1>12, <1>13, <1>14, <1>17, <1>18, <1>20
  <2>2. e.stream0 = new[0] /\ new[0] \in law[0]
    BY <1>4, <1>12, <1>20
  <2> QED BY <1>8, <1>23, <2>1, <2>2 DEF OpenOK
<1>25. Found(e, c, dmg) = new
  BY <1>19, <1>21 DEF Found
<1> QED BY <1>4, <1>22, <1>24, <1>25 DEF OpenedFine

\* What was closed in order opens.
LEMMA ExactOpens ==
  ASSUME Distinct, NEW d, OwnedDirectory(d), d[0] # Missing,
         NEW c, NEW law, HistoryOK(c, law), NEW n, ClosedOK(d, c, law, FALSE, n),
         NEW key, key # NoKey => CheckHeaderAndKey(d[0], key), NEW prefetch,
         NEW e, e = InitializeForOpen(d, key, prefetch, TRUE)
  PROVE  e # Closed
<1>1. PICK f : f = d[0]
  OBVIOUS
<1>2. f # <<>> /\ f # Missing
  BY <1>1 DEF ClosedOK
<1>3. PICK k \in Keys : \E b : FilesOwned(d, k, b)
  BY <1>1, <1>2 DEF OwnedDirectory
<1>4. PICK b : FilesOwned(d, k, b)
  BY <1>3
<1>5. IsFile(f) /\ Len(f) > 0 /\ f[1] = Header(k, b)
  BY <1>1, <1>4 DEF FilesOwned, Full, OwnCells
<1>6. Exact(d, k, c)
  <2>1. Exact(d, d[0][1].key, c)
    BY <1>1, <1>2 DEF ClosedOK
  <2> QED BY <1>1, <1>5, <2>1 DEF Header
<1>7. CellAt(f, 0) = Header(k, b)
  <2>1. 0 \in 0 .. Len(f) - 1 /\ 0 + 1 = 1
    BY <1>5, FileFacts
  <2> QED BY <1>5, <2>1 DEF CellAt
<1>8. /\ CheckHeaderAndKey(f, NoKey)
      /\ k = IF key = NoKey THEN CellAt(d[0], 0).key ELSE key
  BY <1>1, <1>7 DEF CheckHeaderAndKey, Header
<1>9. PICK v, size2 : /\ v = ReadAndValidateStream0AndMaybe1(f, k, prefetch)
                      /\ size2 = IF d[1] = Missing THEN 0 ELSE Stream2Size(d[1])
  OBVIOUS
<1>10. v.ok
  <2>1. PICK s1, s0, m : s1 = c[1] /\ s0 = c[0] /\ m = Len(s1)
    OBVIOUS
  <2>2. IsFile(s1) /\ IsFile(s0)
    BY <2>1 DEF HistoryOK, Streams
  <2>3. Holds(f, 1, s1) /\ RecordOf(f[m + 2], s1) /\ TailExact(f, k, m, s0)
    BY <1>1, <1>6, <2>1 DEF Exact
  <2>4. ExactRead(v, k, s1, s0)
    BY <1>5, <1>9, <2>1, <2>2, <2>3, ExactSays
  <2> QED BY <2>4 DEF ExactRead
<1>11. OpenedAs(e, d, key, k, v, size2)
  <2>1. v = ReadAndValidateStream0AndMaybe1(d[0], k, prefetch)
    BY <1>1, <1>9
  <2> QED BY <1>8, <1>9, <2>1, OpenedIs
<1>12. "file" \in DOMAIN e
  BY <1>1, <1>8, <1>10, <1>11 DEF OpenedAs
<1> QED BY <1>12 DEF Distinct

-------------------------------------------------------------------------------
(* What an open or a create comes to *)

Unopened(d, key) ==
  d[0] = Missing \/ \E prefetch : InitializeForOpen(d, key, prefetch, TRUE) = Closed

StartOutcome(o, d, key, n) ==
  \/ /\ o.entry = Closed /\ o.disk = Gone
     /\ o.result \in {"broken", "exists"} \/ (o.result = "failed" /\ Unopened(d, key))
  \/ o.entry = Closed /\ o.disk = d /\ d[0] # Missing /\ o.result = "exists"
  \/ o.entry = Closed /\ o.disk[0] = <<>> /\ o.result = "crashed"
  \/ (\E k : o.entry = Fresh(k, n + 1)) /\ o.result = "ok"
  \/ /\ d[0] # Missing /\ o.entry # Closed
     /\ \/ /\ o.result = "ok"
           /\ \E prefetch : o.entry = InitializeForOpen(d, key, prefetch, TRUE)
        \/ /\ o.result = "unread"
           /\ \E prefetch : o.entry = InitializeForOpen(Dropped(d), key, prefetch, TRUE)

LEMMA NobodyIsGone ==
  ASSUME NEW d, OwnedDirectory(d), d[0] = Missing
  PROVE  d = Gone
<1>1. d[1] = Missing /\ d = [i \in FileIndices |-> d[i]]
  BY DEF OwnedDirectory
<1>2. \A i \in FileIndices : d[i] = Missing
  BY <1>1 DEF FileIndices
<1> QED BY <1>1, <1>2 DEF Gone

LEMMA CreateStarts ==
  ASSUME AllOrNone, Distinct, NEW d, OwnedDirectory(d), NEW key, NEW n, NEW born, born = n + 1,
         NEW o \in CreateEntry(d, key, born), NEW any
  PROVE  StartOutcome(o, d, any, n) /\ o.result # "failed"
<1>1. CASE d[0] # Missing
  <2>1. o = Outcome(d, Closed, "exists")
    BY <1>1 DEF CreateEntry
  <2> QED BY <1>1, <2>1 DEF Outcome, StartOutcome
<1>2. CASE d[0] = Missing
  <2>1. PICK started : started = [d EXCEPT ![0] = <<>>]
    OBVIOUS
  <2>2. \/ o = Outcome([d EXCEPT ![0] = Linked], Fresh(key, born), "ok")
        \/ o = Outcome(d, Closed, "exists")
        \/ \E u \in Unlinked(started, {0}) : o = Outcome(u, Closed, "broken")
        \/ o = Outcome(started, Closed, "crashed")
    BY <1>2, <2>1 DEF CreateEntry
  <2>3. d = Gone /\ d[1] = Missing /\ d = [i \in FileIndices |-> d[i]]
    BY <1>2, NobodyIsGone DEF OwnedDirectory
  <2>4. CASE o = Outcome(d, Closed, "exists")
    BY <2>3, <2>4 DEF Outcome, StartOutcome
  <2>5. started[0] = <<>> /\ started[1] = Missing
    BY <2>1, <2>3 DEF FileIndices
  <2>6. CASE o = Outcome(started, Closed, "crashed")
    BY <2>5, <2>6 DEF Outcome, StartOutcome
  <2>7. Unlinked(started, {0}) = {Gone}
    <3>1. Unlinked(started, {0})
            = {[i \in FileIndices |-> IF i \in {0} THEN Missing ELSE started[i]]}
      BY DEF Unlinked, AllOrNone
    <3>2. \A i \in FileIndices : i \in {0} \/ i = 1
      BY DEF FileIndices
    <3>3. [i \in FileIndices |-> IF i \in {0} THEN Missing ELSE started[i]] = Gone
      BY <2>5, <3>2 DEF Gone
    <3> QED BY <3>1, <3>3
  <2>8. CASE \E u \in Unlinked(started, {0}) : o = Outcome(u, Closed, "broken")
    BY <2>7, <2>8 DEF Outcome, StartOutcome
  <2>9. CASE o = Outcome([d EXCEPT ![0] = Linked], Fresh(key, born), "ok")
    <3>1. o.entry = Fresh(key, n + 1) /\ o.result = "ok"
      BY <2>9 DEF Outcome
    <3> QED BY <3>1 DEF StartOutcome
  <2> QED BY <2>2, <2>4, <2>6, <2>8, <2>9
<1> QED BY <1>1, <1>2

LEMMA OpenStarts ==
  ASSUME AllOrNone, NEW d, NEW key, NEW n, NEW prefetch, NEW o \in OpenEntry(d, key, prefetch)
  PROVE  /\ StartOutcome(o, d, key, n)
         /\ o.result \in {"failed", "broken"} => o.disk = Gone
         /\ o.result \in {"ok", "unread", "failed", "broken"}
<1>1. DeleteFilesForEntryHash(d) = {Gone}
  BY DeleteLeavesNothing
<1>2. CASE /\ d[0] = Missing \/ InitializeForOpen(d, key, prefetch, TRUE) = Closed
           /\ \E u \in DeleteFilesForEntryHash(d) : o = Outcome(u, Closed, "failed")
  <2>1. o.disk = Gone /\ o.entry = Closed /\ o.result = "failed"
    BY <1>1, <1>2 DEF Outcome
  <2>2. Unopened(d, key)
    BY <1>2 DEF Unopened
  <2> QED BY <2>1, <2>2 DEF StartOutcome
<1>3. CASE \E u \in DeleteFilesForEntryHash(d) : o = Outcome(u, Closed, "broken")
  BY <1>1, <1>3 DEF Outcome, StartOutcome
<1>4. ASSUME NEW f, NEW r, d[0] # Missing, f # Closed, o \in Opened(d, f, r),
             \/ r = "ok" /\ f = InitializeForOpen(d, key, prefetch, TRUE)
             \/ r = "unread" /\ f = InitializeForOpen(Dropped(d), key, prefetch, TRUE)
      PROVE  StartOutcome(o, d, key, n) /\ o.result \in {"ok", "unread"}
  <2>1. \E l : o = Outcome(l, f, r)
    BY <1>4 DEF Opened
  <2>2. o.entry = f /\ o.result = r
    BY <2>1 DEF Outcome
  <2> QED BY <1>4, <2>2 DEF StartOutcome
<1> QED BY <1>2, <1>3, <1>4, OpenEnds

\* What starts where nothing was, might have started anywhere.
LEMMA FromNothing ==
  ASSUME NEW o, NEW key, NEW n, StartOutcome(o, Gone, key, n), o.result # "failed", NEW d
  PROVE  StartOutcome(o, d, key, n)
<1>1. Gone[0] = Missing
  BY DEF Gone, FileIndices
<1> QED BY <1>1 DEF StartOutcome

LEMMA OpenOrCreateStarts ==
  ASSUME AllOrNone, Distinct, NEW d, OwnedDirectory(d), NEW key, NEW n, NEW born, born = n + 1,
         NEW indexMiss, NEW optimisticCreate, NEW prefetch,
         NEW o \in OpenOrCreateEntry(d, key, indexMiss, optimisticCreate, prefetch, born)
  PROVE  StartOutcome(o, d, key, n)
<1> DEFINE thenCreate(os) == UNION {IF q.result \in {"failed", "broken"}
                                    THEN CreateEntry(q.disk, key, born) ELSE {q} : q \in os}
           openFirst(u) == thenCreate(OpenEntry(u, key, prefetch))
           afterCreate(q) ==
             CASE q.result # "exists" -> {q}
               [] q.result = "exists" /\ optimisticCreate ->
                    UNION {CreateEntry(u, key, born) : u \in DeleteFilesForEntryHash(q.disk)}
               [] OTHER -> openFirst(q.disk)
           Good(p, u) == StartOutcome(p, u, key, n) /\ p.result # "failed"
<1>1. o \in IF indexMiss THEN UNION {afterCreate(q) : q \in CreateEntry(d, key, born)}
            ELSE openFirst(d)
  BY DEF OpenOrCreateEntry
<1>2. ASSUME NEW p \in CreateEntry(Gone, key, born), NEW u
      PROVE  Good(p, u)
  <2>1. StartOutcome(p, Gone, key, n) /\ p.result # "failed"
    BY <1>2, CreateStarts, GoneIsOwned
  <2> QED BY <2>1, FromNothing
<1>3. ASSUME NEW u, NEW p \in openFirst(u)
      PROVE  Good(p, u)
  <2>1. PICK q \in OpenEntry(u, key, prefetch) :
          p \in IF q.result \in {"failed", "broken"} THEN CreateEntry(q.disk, key, born) ELSE {q}
    BY <1>3
  <2>2. /\ StartOutcome(q, u, key, n)
        /\ q.result \in {"failed", "broken"} => q.disk = Gone
        /\ q.result \in {"ok", "unread", "failed", "broken"}
    BY <2>1, OpenStarts
  <2>3. CASE q.result \in {"failed", "broken"}
    BY <1>2, <2>1, <2>2, <2>3
  <2>4. CASE q.result \notin {"failed", "broken"}
    BY <2>1, <2>2, <2>4
  <2> QED BY <2>3, <2>4
<1>4. CASE ~ indexMiss
  <2>1. o \in openFirst(d)
    BY <1>1, <1>4
  <2> HIDE DEF openFirst
  <2> QED BY <1>3, <2>1
<1>5. CASE indexMiss
  <2> HIDE DEF openFirst
  <2>1. PICK q \in CreateEntry(d, key, born) : o \in afterCreate(q)
    BY <1>1, <1>5
  <2>2. StartOutcome(q, d, key, n) /\ q.result # "failed"
    BY CreateStarts
  <2>3. CASE q.result # "exists"
    BY <2>1, <2>2, <2>3
  <2>4. CASE q.result = "exists" /\ optimisticCreate
    <3>1. PICK u \in DeleteFilesForEntryHash(q.disk) : o \in CreateEntry(u, key, born)
      BY <2>1, <2>4
    <3>2. o \in CreateEntry(Gone, key, born)
      BY <3>1, DeleteLeavesNothing
    <3> QED BY <1>2, <3>2
  <2>5. CASE q.result = "exists" /\ ~ optimisticCreate
    <3>1. o \in openFirst(q.disk)
      BY <2>1, <2>5
    <3>2. q.disk = Gone \/ q.disk = d
      BY <2>2, <2>5 DEF StartOutcome
    <3>3. Good(o, q.disk)
      BY <1>3, <3>1
    <3>4. CASE q.disk = Gone
      BY <3>3, <3>4, FromNothing
    <3>5. CASE q.disk = d
      BY <3>3, <3>5
    <3> QED BY <3>2, <3>4, <3>5
  <2> QED BY <2>3, <2>4, <2>5
<1> QED BY <1>4, <1>5

\* A new entry.
LEMMA FreshIsOK ==
  ASSUME Distinct, NEW k, NEW n \in Nat, NEW e, e = Fresh(k, n + 1)
  PROVE  /\ e.born = n + 1
         /\ OpenOK(e, NoContent, NoHistory, FALSE, n + 1)
<1>1. PICK h, f : h = Header(k, n + 1) /\ f = <<h>>
  OBVIOUS
<1>2. IsFile(f) /\ Len(f) = 1 /\ f[1] = h /\ ~ IsEof(h)
  BY <1>1, SingleIsFile DEF IsEof, Header
<1>3. /\ e.born = n + 1 /\ e.stream0 = <<>> /\ e.failed = FALSE /\ e.headerCheckNeeded = FALSE
      /\ e.size = [s \in Streams |-> 0] /\ e.written = [s \in Streams |-> TRUE]
      /\ e.file = [i \in FileIndices |-> IF i = 0 THEN f ELSE Missing]
      /\ e.crcEnd = [s \in Streams |-> 0]
  BY <1>1 DEF Fresh
<1>4. e.file[0] = f /\ e.file[1] = Missing
  BY <1>3 DEF FileIndices
<1>5. PICK c, law : c = NoContent /\ law = NoHistory
  OBVIOUS
<1>6. /\ \A s \in Streams : c[s] = <<>> /\ law[s] = {<<>>}
      /\ 0 \in Streams /\ 1 \in Streams /\ 2 \in Streams
  BY <1>5 DEF NoContent, NoHistory, Streams
<1>7. PICK none : none = <<>>
  OBVIOUS
<1>8. IsFile(none) /\ Len(none) = 0
  BY <1>7, EmptyIsFile
<1>9. c[0] = none /\ c[1] = none /\ c[2] = none
  BY <1>6, <1>7
<1>10. \A i \in 1 .. Len(f) : ~ IsEof(f[i])
  BY <1>2
<1>11. Sound(f, 0, law) /\ TailUnique(f) /\ TailBehind(f, 0)
  BY <1>10 DEF Sound, TailUnique, TailBehind, TailEof, InnerEof
<1>12. Holds(f, 1, none)
  BY <1>2, <1>8 DEF Holds
<1>13. ReadyOK(e, c, law, FALSE)
  <2>1. SoundFiles(e.file, law)
    BY <1>4, <1>11 DEF SoundFiles
  <2>2. TailUnique(e.file[0]) /\ TailBehind(e.file[0], e.size[1])
    BY <1>3, <1>4, <1>6, <1>11
  <2>3. StreamsHeld(e, c)
    BY <1>4, <1>7, <1>9, <1>12 DEF StreamsHeld
  <2>4. CrcsOK(e, c)
    <3>1. e.crcEnd[1] = 0 /\ e.crcEnd[2] = 0
      BY <1>3, <1>6
    <3> QED BY <1>8, <1>9, <3>1 DEF CrcsOK, CrcOf
  <2>5. DOMAIN e.written = Streams /\ \A s \in Streams : e.written[s] = TRUE
    BY <1>3
  <2>6. UnwrittenExact(e, c)
    BY <1>4, <1>6, <2>5 DEF UnwrittenExact
  <2>7. c[1] \in law[1] /\ c[2] \in law[2]
    BY <1>6
  <2> QED BY <1>3, <1>6, <2>1, <2>2, <2>3, <2>4, <2>5, <2>6, <2>7 DEF ReadyOK
<1>14. \A s \in Streams : e.size[s] = Len(c[s])
  BY <1>3, <1>6, <1>7, <1>8
<1>15. e.stream0 = c[0] /\ c[0] \in law[0] /\ n + 1 \in 1 .. n + 1
  BY <1>3, <1>6
<1> QED BY <1>3, <1>5, <1>13, <1>14, <1>15 DEF OpenOK

\* One more open takes nothing back.
LEMMA OpensGrow ==
  ASSUME NEW n \in Nat, NEW c, NEW law, NEW dmg
  PROVE  /\ \A d : ClosedOK(d, c, law, dmg, n) => ClosedOK(d, c, law, dmg, n + 1)
         /\ \A e : OpenOK(e, c, law, dmg, n) => OpenOK(e, c, law, dmg, n + 1)
<1>1. \A b : b \in 1 .. n => b \in 1 .. n + 1 /\ b # n + 1
  OBVIOUS
<1>2. ASSUME NEW d, ClosedOK(d, c, law, dmg, n)
      PROVE  ClosedOK(d, c, law, dmg, n + 1)
  BY <1>1, <1>2, Zenon DEF ClosedOK
<1>3. ASSUME NEW e, OpenOK(e, c, law, dmg, n)
      PROVE  OpenOK(e, c, law, dmg, n + 1)
  BY <1>1, <1>3, Zenon DEF OpenOK
<1> QED BY <1>2, <1>3

LEMMA OpenAnswer ==
  ASSUME NEW ok, NEW created, NEW excused, excused \/ ok, NEW c, NEW law, NEW a,
         a = [kind |-> "open", ok |-> ok, created |-> created, excused |-> excused]
  PROVE  AnswerOK(a, c, law)
<1>1. a.kind = "open" /\ a.ok = ok /\ a.excused = excused
  OBVIOUS
<1> QED BY <1>1, Zenon DEF AnswerOK

\* An open that could not read stream 2 goes on with the rest of what was closed.
WithoutSecond(less, c) == less = [c EXCEPT ![2] = <<>>]

LEMMA DroppedIsOK ==
  ASSUME Distinct, NEW d, d[0] # Missing,
         NEW c, NEW law, HistoryOK(c, law), NEW dmg \in BOOLEAN, NEW n,
         ClosedOK(d, c, law, dmg, n),
         NEW less, WithoutSecond(less, c)
  PROVE  HistoryOK(less, law) /\ ClosedOK(Dropped(d), less, law, dmg, n)
<1>1. PICK u : u = Dropped(d)
  OBVIOUS
<1>2. u[0] = d[0] /\ u[1] = Missing
  BY <1>1 DEF Dropped, FileIndices
<1>3. /\ less = [s \in Streams |-> less[s]]
      /\ less[0] = c[0] /\ less[1] = c[1] /\ less[2] = <<>>
  BY DEF HistoryOK, Streams, WithoutSecond
<1>4. HistoryOK(less, law)
  <2>1. PICK none : none = <<>>
    OBVIOUS
  <2>2. IsFile(none)
    BY <2>1, EmptyIsFile
  <2>3. IsFile(less[0]) /\ IsFile(less[1]) /\ IsFile(less[2])
    BY <1>3, <2>1, <2>2 DEF HistoryOK, Streams
  <2>4. \A s \in Streams : IsFile(less[s])
    BY <2>3 DEF Streams
  <2> QED BY <1>3, <2>4 DEF HistoryOK
<1>5. ClosedOK(u, less, law, dmg, n)
  <2>1. SoundFiles(d, law) => SoundFiles(u, law)
    BY <1>2 DEF SoundFiles
  <2>2. ASSUME NEW k, Exact(d, k, c)
        PROVE  Exact(u, k, less)
    BY <1>2, <1>3, <2>2 DEF Exact
  <2> QED BY <1>2, <2>1, <2>2 DEF ClosedOK
<1> QED BY <1>1, <1>4, <1>5

\* However an open or a create ends, there is what the user may expect.
LEMMA StartedHolds ==
  ASSUME AllOrNone, Distinct, OwnerInv, StreamsInv, entry = Closed,
         NEW key \in Keys \cup {NoKey}, NEW o, StartOutcome(o, disk, key, opens), Started(o, key)
  PROVE  StreamsInv'
<1>1. PICK d, c, law, dmg, n : /\ d = disk /\ c = content /\ law = lawful
                               /\ dmg = damaged /\ n = opens
  OBVIOUS
<1>2. PICK e, u, r : e = o.entry /\ u = o.disk /\ r = o.result
  OBVIOUS
<1>3. /\ OwnedDirectory(d) /\ HistoryOK(c, law) /\ dmg \in BOOLEAN /\ n \in Nat
      /\ ClosedOK(d, c, law, dmg, n)
  BY <1>1 DEF OwnerInv, StreamsInv, Holding
<1> DEFINE created == e # Closed /\ e.born = n + 1
           excused == \/ r \in {"broken", "crashed", "exists"} \/ dmg \/ d[0] = Missing
                      \/ key # NoKey /\ ~ CheckHeaderAndKey(d[0], key)
           forgets == created \/ (e = Closed /\ u[0] = Missing)
<1>4. /\ disk' = u /\ entry' = e /\ opens' = n + 1
      /\ answer' = [kind |-> "open", ok |-> e # Closed, created |-> created, excused |-> excused]
      /\ IF forgets THEN Forget
         ELSE /\ damaged' = (dmg \/ r \in {"crashed", "failed", "broken"})
              /\ content' = IF e # Closed /\ dmg THEN Seen(e)
                            ELSE IF r = "unread" THEN [c EXCEPT ![2] = <<>>] ELSE c
              /\ UNCHANGED lawful
  BY <1>1, <1>2, Zenon DEF Started
<1>5. \/ /\ e = Closed /\ u = Gone
         /\ r \in {"broken", "exists"} \/ (r = "failed" /\ Unopened(d, key))
      \/ e = Closed /\ u = d /\ d[0] # Missing /\ r = "exists"
      \/ e = Closed /\ u[0] = <<>> /\ r = "crashed"
      \/ (\E k : e = Fresh(k, n + 1)) /\ r = "ok"
      \/ /\ d[0] # Missing /\ e # Closed
         /\ \/ /\ r = "ok"
               /\ \E prefetch : e = InitializeForOpen(d, key, prefetch, TRUE)
            \/ /\ r = "unread"
               /\ \E prefetch : e = InitializeForOpen(Dropped(d), key, prefetch, TRUE)
  BY <1>1, <1>2 DEF StartOutcome
<1>6. excused \/ e # Closed => \A x, y : AnswerOK(answer', x, y)
  <2> HIDE DEF excused, created
  <2> QED BY <1>4, OpenAnswer
<1> HIDE DEF excused, created
<1>7. opens' \in Nat
  BY <1>3, <1>4
<1>8. CASE /\ e = Closed /\ u = Gone
           /\ r \in {"broken", "exists"} \/ (r = "failed" /\ Unopened(d, key))
  <2>1. u[0] = Missing
    BY <1>8 DEF Gone, FileIndices
  <2>2. content' = NoContent /\ lawful' = NoHistory /\ damaged' = FALSE
    BY <1>4, <1>8, <2>1 DEF Forget
  <2>3. excused
    <3>1. CASE r \in {"broken", "exists"}
      BY <3>1 DEF excused
    <3>2. CASE r = "failed" /\ Unopened(d, key)
      <4> SUFFICES ASSUME dmg = FALSE, d[0] # Missing,
                          key # NoKey => CheckHeaderAndKey(d[0], key)
                   PROVE  FALSE
        BY <1>3 DEF excused
      <4>1. PICK prefetch : InitializeForOpen(d, key, prefetch, TRUE) = Closed
        BY <3>2 DEF Unopened
      <4> QED BY <1>3, <4>1, ExactOpens
    <3> QED BY <1>8, <3>1, <3>2
  <2>4. ClosedOK(disk', content', lawful', damaged', opens')
    BY <1>4, <1>8, <2>2, GoneIsOK
  <2> QED BY <1>4, <1>6, <1>7, <1>8, <2>2, <2>3, <2>4, NothingHeld, ClosedHolds
<1>9. CASE e = Closed /\ u = d /\ d[0] # Missing /\ r = "exists"
  <2>1. ~ forgets
    BY <1>9 DEF created
  <2>2. content' = c /\ lawful' = law /\ damaged' = dmg
    <3>1. r # "unread"
      BY <1>9
    <3> QED BY <1>1, <1>3, <1>4, <1>9, <2>1, <3>1
  <2>3. excused
    BY <1>9 DEF excused
  <2>4. ClosedOK(disk', content', lawful', damaged', opens')
    BY <1>3, <1>4, <1>9, <2>2, OpensGrow
  <2> QED BY <1>3, <1>4, <1>6, <1>7, <1>9, <2>2, <2>3, <2>4, ClosedHolds
<1>10. CASE e = Closed /\ u[0] = <<>> /\ r = "crashed"
  <2>1. u[0] # Missing
    BY <1>10, EmptyIsFile DEF Distinct
  <2>2. ~ forgets
    BY <1>10, <2>1 DEF created
  <2>3. content' = c /\ lawful' = law /\ damaged' = TRUE
    <3>1. r # "unread"
      BY <1>10
    <3> QED BY <1>1, <1>4, <1>10, <2>2, <3>1
  <2>4. excused
    BY <1>10 DEF excused
  <2>5. ClosedOK(disk', content', lawful', damaged', opens')
    BY <1>4, <1>10, <2>1, <2>3 DEF ClosedOK
  <2> QED BY <1>3, <1>4, <1>6, <1>7, <1>10, <2>3, <2>4, <2>5, ClosedHolds
<1>11. CASE (\E k : e = Fresh(k, n + 1)) /\ r = "ok"
  <2>1. PICK k : e = Fresh(k, n + 1)
    BY <1>11
  <2>2. e.born = n + 1 /\ OpenOK(e, NoContent, NoHistory, FALSE, n + 1)
    BY <1>3, <2>1, FreshIsOK
  <2>3. e # Closed
    BY <2>1 DEF Fresh, Distinct
  <2>4. content' = NoContent /\ lawful' = NoHistory /\ damaged' = FALSE
    BY <1>4, <2>2, <2>3 DEF Forget, created
  <2> QED BY <1>4, <1>6, <1>7, <2>2, <2>3, <2>4, NothingHeld, OpenHolds
<1>12. ASSUME d[0] # Missing, e # Closed, r \in {"ok", "unread"}, NEW w, NEW x, NEW prefetch,
              OwnedDirectory(w), w[0] # Missing, HistoryOK(x, law), ClosedOK(w, x, law, dmg, n),
              x = IF r = "unread" THEN [c EXCEPT ![2] = <<>>] ELSE c,
              e = InitializeForOpen(w, key, prefetch, TRUE)
       PROVE  StreamsInv'
  <2>1. OpenedFine(e, x, law, dmg, n)
    BY <1>3, <1>12, OpenedStreams DEF OpenedWhole
  <2>2. PICK held : held = Found(e, x, dmg)
    OBVIOUS
  <2>3. HistoryOK(held, law) /\ OpenOK(e, held, law, dmg, n)
    BY <2>1, <2>2 DEF OpenedFine
  <2>4. e.born # n + 1
    <3>1. e.born \in 1 .. n
      BY <2>3 DEF OpenOK
    <3> QED BY <1>3, <3>1
  <2>5. ~ forgets
    BY <1>12, <2>4 DEF created
  <2>6. content' = held
    BY <1>4, <1>12, <2>2, <2>5 DEF Found
  <2>7. lawful' = law /\ damaged' = dmg
    BY <1>1, <1>3, <1>4, <1>12, <2>5
  <2>8. OpenOK(e, held, law, dmg, n + 1)
    BY <1>3, <2>3, OpensGrow
  <2> QED BY <1>3, <1>4, <1>6, <1>7, <1>12, <2>3, <2>6, <2>7, <2>8, OpenHolds
<1>13. CASE /\ d[0] # Missing /\ e # Closed /\ r = "ok"
            /\ \E prefetch : e = InitializeForOpen(d, key, prefetch, TRUE)
  <2>1. PICK prefetch : e = InitializeForOpen(d, key, prefetch, TRUE)
    BY <1>13
  <2>2. r # "unread" /\ r \in {"ok", "unread"}
    BY <1>13
  <2> QED BY <1>3, <1>12, <1>13, <2>1, <2>2
<1>14. CASE /\ d[0] # Missing /\ e # Closed /\ r = "unread"
            /\ \E prefetch : e = InitializeForOpen(Dropped(d), key, prefetch, TRUE)
  <2>1. PICK prefetch : e = InitializeForOpen(Dropped(d), key, prefetch, TRUE)
    BY <1>14
  <2>2. PICK w, x : w = Dropped(d) /\ x = [c EXCEPT ![2] = <<>>]
    OBVIOUS
  <2>3. OwnedDirectory(w) /\ w[0] # Missing
    BY <1>3, <1>14, <2>2, DroppedIsOwned
  <2>4. HistoryOK(x, law) /\ ClosedOK(w, x, law, dmg, n)
    <3>1. HistoryOK(c, law) /\ dmg \in BOOLEAN /\ ClosedOK(d, c, law, dmg, n)
      BY <1>3
    <3>2. d[0] # Missing
      BY <1>14
    <3>3. WithoutSecond(x, c)
      BY <2>2 DEF WithoutSecond
    <3>4. HistoryOK(x, law) /\ ClosedOK(Dropped(d), x, law, dmg, n)
      BY ONLY Distinct, <3>1, <3>2, <3>3, DroppedIsOK
    <3> QED BY <2>2, <3>4
  <2>5. x = IF r = "unread" THEN [c EXCEPT ![2] = <<>>] ELSE c
    BY <1>14, <2>2
  <2>6. e = InitializeForOpen(w, key, prefetch, TRUE) /\ r \in {"ok", "unread"}
    BY <1>14, <2>1, <2>2
  <2> QED BY <1>12, <1>14, <2>3, <2>4, <2>5, <2>6
<1> QED BY <1>5, <1>8, <1>9, <1>10, <1>11, <1>13, <1>14, Zenon

-------------------------------------------------------------------------------
(* The theorems *)

LEMMA StreamsStep ==
  ASSUME AllOrNone, Distinct, OwnerInv, StreamsInv, [Next]_vars
  PROVE  StreamsInv'
<1>1. CASE Open
  <2>1. PICK key \in Keys \cup {NoKey}, prefetch \in PrefetchSizes :
          \E o \in OpenEntry(disk, key, prefetch) : Started(o, key)
    BY <1>1 DEF Open
  <2>2. PICK o \in OpenEntry(disk, key, prefetch) : Started(o, key)
    BY <2>1
  <2>3. StartOutcome(o, disk, key, opens)
    BY OpenStarts
  <2> QED BY <1>1, <2>2, <2>3, StartedHolds DEF Open
<1>2. CASE Create
  <2>1. PICK key \in Keys : \E o \in CreateEntry(disk, key, opens + 1) : Started(o, key)
    BY <1>2 DEF Create
  <2>2. PICK o \in CreateEntry(disk, key, opens + 1) : Started(o, key)
    BY <2>1
  <2>3. OwnedDirectory(disk)
    BY <1>2 DEF Create, OwnerInv
  <2>4. StartOutcome(o, disk, key, opens)
    BY <2>3, CreateStarts
  <2> QED BY <1>2, <2>2, <2>4, StartedHolds DEF Create
<1>3. CASE OpenOrCreate
  <2>1. PICK key \in Keys, indexMiss \in BOOLEAN, optimisticCreate \in BOOLEAN,
             prefetch \in PrefetchSizes :
          \E o \in OpenOrCreateEntry(disk, key, indexMiss, optimisticCreate, prefetch,
                                     opens + 1) : Started(o, key)
    BY <1>3 DEF OpenOrCreate
  <2>2. PICK o \in OpenOrCreateEntry(disk, key, indexMiss, optimisticCreate, prefetch,
                                     opens + 1) : Started(o, key)
    BY <2>1
  <2>3. OwnedDirectory(disk)
    BY <1>3 DEF OpenOrCreate, OwnerInv
  <2>4. StartOutcome(o, disk, key, opens)
    BY <2>3, OpenOrCreateStarts
  <2> QED BY <1>3, <2>2, <2>4, StartedHolds DEF OpenOrCreate
<1>4. CASE Read
  BY <1>4, ReadHolds
<1>5. CASE Write
  BY <1>5, WriteHolds
<1>6. CASE WriteStream0
  BY <1>6, WriteStream0Holds
<1>7. CASE Close
  BY <1>7, CloseHolds
<1>8. CASE Doom
  BY <1>8, DoomHolds
<1>9. CASE DeleteEntryFiles
  BY <1>9, DeleteHolds
<1>10. CASE Crash
  BY <1>10, CrashHolds
<1>11. CASE UNCHANGED vars
  BY <1>11 DEF vars, StreamsInv
<1> QED BY <1>1, <1>2, <1>3, <1>4, <1>5, <1>6, <1>7, <1>8, <1>9, <1>10, <1>11 DEF Next

\* What the streams of an entry hold (WriteData, Close, InitializeForOpen): open,
\* its files have them where its sizes say, with checksums of what was written;
\* closed in order, they have the records that an open believes.
THEOREM StreamsAreHeld ==
  ASSUME AllOrNone, Distinct
  PROVE  Spec => [](OwnerInv /\ StreamsInv)
<1>1. Init => OwnerInv /\ StreamsInv
  <2> SUFFICES ASSUME Init PROVE OwnerInv /\ StreamsInv
    OBVIOUS
  <2>1. OwnerInv
    BY GoneIsOwned DEF Init, OwnerInv, Gone
  <2>2. disk = Gone /\ entry = Closed /\ answer = None /\ opens = 0
    BY DEF Init, Gone
  <2>3. content = NoContent /\ lawful = NoHistory /\ damaged = FALSE
    BY DEF Init
  <2>4. ClosedOK(disk, content, lawful, damaged, opens) /\ HistoryOK(content, lawful)
    BY <2>2, <2>3, GoneIsOK, NothingHeld
  <2>5. AnswerOK(answer, content, lawful)
    BY <2>2, NoneIsOK
  <2> QED BY <2>1, <2>2, <2>3, <2>4, <2>5 DEF StreamsInv, Holding
<1>2. OwnerInv /\ StreamsInv /\ [Next]_vars => (OwnerInv /\ StreamsInv)'
  BY OwnerStep, StreamsStep
<1> QED BY <1>1, <1>2, PTL DEF Spec

\* SoundEntryWorks (InitializeForOpen, CheckEOFRecord, ReadData): what was closed
\* opens again, and every operation that met no failing call and no crash succeeds.
THEOREM SoundEntriesWork ==
  ASSUME AllOrNone, Distinct
  PROVE  Spec => []SoundEntryWorks
<1>1. StreamsInv => SoundEntryWorks
  BY DEF StreamsInv, AnswerOK, SoundEntryWorks
<1>2. Spec => [](OwnerInv /\ StreamsInv)
  BY StreamsAreHeld
<1> QED BY <1>1, <1>2, PTL

\* ReadsReturnWritten (WriteData, ReadData, InitializeForOpen): an entry opens with
\* the streams it was closed with, and a read returns what was last written there.
THEOREM ReadsAreOfWhatWasWritten ==
  ASSUME AllOrNone, Distinct
  PROVE  Spec => []ReadsReturnWritten
<1>1. StreamsInv => ReadsReturnWritten
  BY DEF StreamsInv, Holding, OpenOK, AnswerOK, ReadsReturnWritten
<1>2. Spec => [](OwnerInv /\ StreamsInv)
  BY StreamsAreHeld
<1> QED BY <1>1, <1>2, PTL

\* ChecksumsTellDamage (CheckEOFRecord): whatever failed or crashed, stream 0 and
\* what is read through to a checksum were written by the user, whole.
THEOREM ChecksumsAreOfWhatWasWritten ==
  ASSUME AllOrNone, Distinct
  PROVE  Spec => []ChecksumsTellDamage
<1>1. StreamsInv => ChecksumsTellDamage
  BY DEF StreamsInv, Holding, OpenOK, AnswerOK, ChecksumsTellDamage
<1>2. Spec => [](OwnerInv /\ StreamsInv)
  BY StreamsAreHeld
<1> QED BY <1>1, <1>2, PTL

\* ClosedFileSizes (Close, GetFileSize): the files of an entry closed in order have
\* the sizes that its index record is given.
THEOREM ClosedFilesHaveTheirSizes ==
  ASSUME AllOrNone, Distinct
  PROVE  Spec => []ClosedFileSizes
<1>1. OwnerInv /\ StreamsInv => ClosedFileSizes
  <2> SUFFICES ASSUME OwnerInv, StreamsInv, entry = Closed, ~ damaged, disk[0] # Missing
               PROVE  LET size == [s \in Streams |-> Len(content[s])]
                      IN \A i \in FileIndices :
                           IF disk[i] = Missing THEN size[2] = 0
                           ELSE Len(disk[i]) = GetFileSize(size, i)
    BY DEF ClosedFileSizes
  <2>1. PICK d, c, k : d = disk /\ c = content /\ k = disk[0][1].key
    OBVIOUS
  <2>2. /\ HistoryOK(c, lawful) /\ ClosedOK(d, c, lawful, damaged, opens)
        /\ OwnedDirectory(d) /\ d[0] # Missing
    BY <2>1 DEF OwnerInv, StreamsInv, Holding
  <2>3. Exact(d, k, c)
    BY <2>1, <2>2 DEF ClosedOK
  <2>4. PICK n0, n1, n2 : n0 = Len(c[0]) /\ n1 = Len(c[1]) /\ n2 = Len(c[2])
    OBVIOUS
  <2>5. n0 \in Nat /\ n1 \in Nat /\ n2 \in Nat
    BY <2>2, <2>4, FileFacts DEF HistoryOK, Streams
  <2>6. Len(d[0]) = n1 + n0 + 4
    BY <2>3, <2>4 DEF Exact, TailExact
  <2>7. IF d[1] = Missing THEN n2 = 0 ELSE Len(d[1]) = n2 + 2
    BY <2>3, <2>4, EmptyIsFile DEF Exact
  <2>8. PICK size : size = [s \in Streams |-> Len(c[s])]
    OBVIOUS
  <2>9. size[0] = n0 /\ size[1] = n1 /\ size[2] = n2
    BY <2>4, <2>8 DEF Streams
  <2>10. GetFileSize(size, 0) = n1 + n0 + 4 /\ GetFileSize(size, 1) = n2 + 2
    BY <2>5, <2>9, EntryAssumption DEF GetFileSize, GetFileSizeFromDataSize
  <2>11. ASSUME NEW i \in FileIndices
         PROVE  IF d[i] = Missing THEN size[2] = 0 ELSE Len(d[i]) = GetFileSize(size, i)
    BY <2>2, <2>6, <2>7, <2>9, <2>10 DEF FileIndices
  <2> QED BY <2>1, <2>8, <2>11
<1>2. Spec => [](OwnerInv /\ StreamsInv)
  BY StreamsAreHeld
<1> QED BY <1>1, <1>2, PTL
================================================================================
