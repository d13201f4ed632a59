-------------------------- MODULE CacheDirectoryProofs --------------------------
(***************************************************************************)
(* An edited cache directory, for any keys, bodies, callers and files:     *)
(* whatever the callers interleave and wherever they die, a written entry  *)
(* restores to the body it was given (WrittenBodyRestored), its headers    *)
(* describe what is stored (StoredMetadataConsistent), the directory       *)
(* implements EditedBodies (EditsAsRequested), and the index describes the *)
(* files (IndexDescribesFiles, IndexKeepsEntries).                         *)
(*                                                                         *)
(* The inductive invariant adds to these properties that they already hold *)
(* of the edits a caller has not written yet: modify() makes them true,    *)
(* writing a file only moves them from the result to the disk.             *)
(*                                                                         *)
(* A caller's index is ahead of the files by the edits the caller has not  *)
(* written yet, and behind them by what others wrote since it was read.    *)
(* The invariant says what is true of its records in between: the record   *)
(* of a hash with edits to write describes the last of them, any other the *)
(* file unless somebody else wrote it (Accounts); and all indexes that are *)
(* not behind on a file agree on whether it is listed (IndexesAgree).      *)
(***************************************************************************)
EXTENDS CacheDirectory, FiniteSetTheorems, TLAPS

-----------------------------------------------------------------------------
\* Lemmas about the library's operators.

\* A length has a positive number of digits.
LEMMA DigitsType == ASSUME NEW n \in Nat PROVE Digits(n) \in Nat
<1> DEFINE D == { d \in 1..9 : n >= 10 ^ d }
<1>1. D \in SUBSET Nat /\ 9 \in Nat /\ \A d \in D : d <= 9
  OBVIOUS
<1> HIDE DEF D
<1>2. IsFiniteSet(D)
  BY <1>1, FS_BoundedSetOfNaturals, Zenon
<1>3. Cardinality(D) \in Nat
  BY <1>2, FS_CardinalityType
<1> USE DEF D
<1> QED BY <1>3 DEF Digits

\* Patching the content-length gives another stream 0, with the same encoding.
LEMMA PatchType ==
  ASSUME NEW s0 \in Stream0s, NEW n \in Nat
  PROVE  /\ patchContentLength(s0, n) \in Stream0s
         /\ contentEncoding(patchContentLength(s0, n)) = contentEncoding(s0)
<1> DEFINE newBlock == s0.other + Digits(n)
           pad == (4 - ((s0.start + newBlock) % 4)) % 4
           size == s0.start + newBlock + pad + s0.rest - 4
           patched == [s0 EXCEPT !.contentLength = n, !.payloadSize = size]
<1>1. CASE ~hasHeaderBlock(s0) \/ s0.contentLength = NoLength
  BY <1>1 DEF patchContentLength
<1>2. CASE ~(~hasHeaderBlock(s0) \/ s0.contentLength = NoLength)
  <2>1. patchContentLength(s0, n) = patched
    BY <1>2 DEF patchContentLength
  <2>2. newBlock \in Int /\ s0.start \in Int /\ s0.rest \in Int
    BY DigitsType DEF Stream0s
  <2> HIDE DEF newBlock
  <2>3. pad \in Int
    BY <2>2
  <2> HIDE DEF pad
  <2>4. size \in Int
    BY <2>2, <2>3
  <2> HIDE DEF size
  <2>5. patched \in Stream0s
    BY <2>4 DEF Stream0s
  <2>6. patched.start = s0.start /\ patched.encoding = s0.encoding
    BY DEF Stream0s
  <2> QED BY <2>1, <2>5, <2>6 DEF contentEncoding, hasHeaderBlock
<1> QED BY <1>1, <1>2

\* Padding is what aligns.
LEMMA AlignPads ==
  ASSUME NEW n \in Int
  PROVE  align4(n) = n + ((4 - (n % 4)) % 4)
<1>1. PICK q \in Int, r \in 0..3 : n = 4 * q + r
  <2>1. n = 4 * (n \div 4) + (n % 4) /\ n % 4 \in 0..3 /\ n \div 4 \in Int
    OBVIOUS
  <2> QED BY <2>1
<1>2. n % 4 = r
  BY <1>1
<1>3. CASE r = 0
  BY <1>1, <1>2, <1>3 DEF align4
<1>4. CASE r # 0
  <2>1. (n + 3) \div 4 = q + 1
    BY <1>1, <1>4
  <2>2. (4 - r) % 4 = 4 - r
    BY <1>1, <1>4
  <2> QED BY <1>1, <1>2, <2>1, <2>2 DEF align4
<1> QED BY <1>3, <1>4

\* What patching promises of a header block it finds: the length it was given,
\* and the size of the padded pickle.
LEMMA PatchConsistent ==
  ASSUME NEW s0 \in Stream0s, NEW n \in Nat,
         pickleConsistent(s0)
  PROVE  LET p == patchContentLength(s0, n)
         IN  /\ hasHeaderBlock(p) => p.contentLength \in {NoLength, n}
             /\ pickleConsistent(p)
<1> DEFINE digits == Digits(n)
           newBlock == s0.other + digits
           pad == (4 - ((s0.start + newBlock) % 4)) % 4
           size == s0.start + newBlock + pad + s0.rest - 4
           patched == [s0 EXCEPT !.contentLength = n, !.payloadSize = size]
<1>1. CASE ~hasHeaderBlock(s0) \/ s0.contentLength = NoLength
  BY <1>1 DEF patchContentLength, hasHeaderBlock
<1>2. CASE hasHeaderBlock(s0) /\ s0.contentLength # NoLength
  <2>1. patchContentLength(s0, n) = patched
    BY <1>2 DEF patchContentLength
  <2>2. /\ patched.contentLength = n /\ patched.payloadSize = size
        /\ patched.start = s0.start /\ patched.other = s0.other /\ patched.rest = s0.rest
    BY DEF Stream0s
  <2>3. s0.start \in Int /\ s0.other \in Int /\ s0.rest \in Int /\ digits \in Int
    BY DigitsType DEF Stream0s
  <2>4. blockLength(patched) = newBlock /\ hasHeaderBlock(patched)
    BY <1>2, <2>2, LengthAssumption DEF blockLength, hasHeaderBlock, LengthAssumption
  <2> HIDE DEF patched, digits
  <2>5. newBlock \in Int
    BY <2>3
  <2> HIDE DEF newBlock
  <2>6. align4(s0.start + newBlock) = s0.start + newBlock + pad
    <3>1. s0.start + newBlock \in Int
      BY <2>3, <2>5
    <3> QED BY <3>1, AlignPads
  <2>7. pad \in Int
    BY <2>3, <2>5
  <2> HIDE DEF pad
  <2>8. stream0Length(patched) = s0.start + newBlock + pad + s0.rest
    BY <2>2, <2>4, <2>6 DEF stream0Length
  <2>9. patched.payloadSize = stream0Length(patched) - 4
    BY <2>2, <2>3, <2>5, <2>7, <2>8
  <2> QED BY <2>1, <2>2, <2>9 DEF pickleConsistent
<1> QED BY <1>1, <1>2

\* A plain body that is encoded for a header's encoding decodes to itself.
LEMMA EncodeType ==
  ASSUME NEW b \in Bodies, NEW encoding \in HeaderEncodings
  PROVE  encode(b, encoding) \in Bytes /\ decode(encode(b, encoding), encoding) = b
  BY ZipAssumption DEF ZipAssumption, encode, decode, isCompressed

\* Serializing recomputes every checksum, so that nothing is left to warn about.
LEMMA SerializeType ==
  ASSUME NEW e \in EntryFiles, NEW sha \in BOOLEAN
  PROVE  /\ serialize(e, sha) \in EntryFiles
         /\ verify(serialize(e, sha)) = {}
         /\ serialize(e, sha).key = e.key
         /\ serialize(e, sha).stream1 = e.stream1
         /\ serialize(e, sha).stream0 = e.stream0
  BY DEF serialize, EntryFiles, verify

\* What modify() promises of the file it returns, with the library's compression
\* or the caller's own.
Sound(e, b) ==
  /\ restoredBody(e) = b
  /\ verify(e) = {} /\ decodeWarnings(e) = {}

LEMMA ModifySound ==
  ASSUME NEW e \in EntryFiles, NEW b \in Bodies, NEW auto \in BOOLEAN,
         NEW newBody, newBody = IF auto THEN b ELSE encode(b, contentEncoding(e.stream0))
  PROVE  LET new == modifyEntryBody(e, newBody, auto)
         IN  /\ new \in EntryFiles /\ new.key = e.key
             /\ Sound(new, b)
             /\ new.stream0 = patchContentLength(e.stream0, ByteLength(new.stream1))
<1> DEFINE stored == encode(b, contentEncoding(e.stream0))
           s0 == patchContentLength(e.stream0, ByteLength(stored))
           edited == [e EXCEPT !.stream1 = stored, !.stream0 = s0]
           new == serialize(edited, hasKeySha256(e))
<1>1. storedBody(e, newBody, auto) = stored
  BY DEF storedBody
<1>2. modifyEntryBody(e, newBody, auto) = new
  BY <1>1 DEF modifyEntryBody
<1>3. contentEncoding(e.stream0) \in HeaderEncodings /\ e.stream0 \in Stream0s
  BY DEF contentEncoding, EntryFiles, Stream0s, HeaderEncodings
<1>4. /\ stored \in Bytes /\ ByteLength(stored) \in Nat
      /\ decode(stored, contentEncoding(e.stream0)) = b
  BY <1>3, EncodeType, ZipAssumption DEF ZipAssumption
<1>5. s0 \in Stream0s /\ contentEncoding(s0) = contentEncoding(e.stream0)
  BY <1>3, <1>4, PatchType
<1> HIDE DEF stored, s0
<1>6. /\ edited \in EntryFiles /\ edited.key = e.key
      /\ edited.stream1 = stored /\ edited.stream0 = s0
  BY <1>4, <1>5 DEF EntryFiles
<1> HIDE DEF edited
<1>7. /\ new \in EntryFiles /\ new.key = e.key /\ verify(new) = {}
      /\ new.stream1 = stored /\ new.stream0 = s0
  BY <1>6, SerializeType DEF hasKeySha256
<1> HIDE DEF new
<1>8. b # NoBytes
  BY ZipAssumption DEF ZipAssumption
<1>9. Sound(new, b)
  BY <1>4, <1>5, <1>7, <1>8 DEF Sound, restoredBody, decodeWarnings
<1>10. new.stream0 = patchContentLength(e.stream0, ByteLength(new.stream1))
  BY <1>7 DEF s0
<1> QED BY <1>2, <1>7, <1>9, <1>10

-----------------------------------------------------------------------------
\* The inductive invariant.

\* The part of TypeOK that is not about indexes, which DirectoryTyped adds.
FilesTyped ==
  /\ file \in [Hashes -> FileContents]
  /\ clock \in Nat \ {0}
  /\ pc \in [Callers -> {"idle", "editing", "writing"}]
  /\ loaded \in [Callers -> FileContents \cup {None}]
  /\ results \in [Callers -> Seq(Edits)]
  /\ body \in [Hashes -> Bodies \cup {None}]
  /\ editedAt \in [Hashes -> Nat]
  /\ behind \in [Callers -> SUBSET Hashes]
  /\ torn \subseteq Hashes

\* What a caller holds is already what writing it will make true.
EditsSound ==
  \A c \in Callers : \A i \in 1 .. Len(results[c]) :
    Sound(results[c][i].entryFile, results[c][i].body)

DirectoryInv == FilesTyped /\ WrittenBodyRestored /\ EditsSound

\* A sound file is one that parseEntry returns with its body and no warning.
LEMMA SoundParsed ==
  ASSUME NEW h, NEW e, NEW b
  PROVE  Sound(e, b) <=> parsedEntry(h, e).body = b /\ parsedEntry(h, e).warnings = {}
<1>1. /\ parsedEntry(h, e).body = restoredBody(e)
      /\ parsedEntry(h, e).warnings = verify(e) \cup decodeWarnings(e)
  BY DEF parsedEntry
<1>2. \A S, T : S \cup T = {} <=> S = {} /\ T = {}
  OBVIOUS
<1> QED BY <1>1, <1>2 DEF Sound

\* Nothing has been edited at first.
LEMMA InitDirectoryInv == Init => DirectoryInv
<1> SUFFICES ASSUME Init PROVE DirectoryInv
  OBVIOUS
<1>1. FilesTyped
  BY DirectoryAssumption DEF DirectoryAssumption, Init, FilesTyped
<1>2. WrittenBodyRestored
  BY DEF Init, WrittenBodyRestored
<1>3. EditsSound
  BY DEF Init, EditsSound
<1> QED BY <1>1, <1>2, <1>3 DEF DirectoryInv

\* Dropping what a caller holds.
LEMMA ForgetPreserves ==
  ASSUME DirectoryInv, NEW c \in Callers, Forget(c)
  PROVE  /\ pc' \in [Callers -> {"idle", "editing", "writing"}]
         /\ loaded' \in [Callers -> FileContents \cup {None}]
         /\ results' \in [Callers -> Seq(Edits)]
         /\ EditsSound'
<1>1. results' = [results EXCEPT ![c] = <<>>]
  BY DEF Forget
<1>2. results' \in [Callers -> Seq(Edits)]
  BY <1>1 DEF DirectoryInv, FilesTyped
<1>3. EditsSound'
  BY <1>1 DEF DirectoryInv, FilesTyped, EditsSound
<1> QED BY <1>2, <1>3 DEF Forget, DirectoryInv, FilesTyped

\* Moving the oldest edit of a caller to the disk, or losing its file.
LEMMA HeadSound ==
  ASSUME DirectoryInv, NEW c \in Callers, results[c] # <<>>
  PROVE  /\ Head(results[c]) \in Edits
         /\ Sound(Head(results[c]).entryFile, Head(results[c]).body)
         /\ Tail(results[c]) \in Seq(Edits)
         /\ \A i \in 1 .. Len(Tail(results[c])) :
              Sound(Tail(results[c])[i].entryFile, Tail(results[c])[i].body)
<1> DEFINE s == results[c]
<1>1. s \in Seq(Edits) /\ s # <<>>
  BY DEF DirectoryInv, FilesTyped
<1>2. \A i \in 1 .. Len(s) : Sound(s[i].entryFile, s[i].body)
  BY DEF DirectoryInv, EditsSound
<1> HIDE DEF s
<1>3. Head(s) = s[1] /\ 1 \in 1 .. Len(s) /\ Head(s) \in Edits /\ Tail(s) \in Seq(Edits)
  BY <1>1
<1>4. \A i \in 1 .. Len(Tail(s)) : i + 1 \in 1 .. Len(s) /\ Tail(s)[i] = s[i + 1]
  BY <1>1
<1>5. \A i \in 1 .. Len(Tail(s)) :
        Sound(Tail(s)[i].entryFile, Tail(s)[i].body)
  BY <1>2, <1>4
<1>6. Sound(Head(s).entryFile, Head(s).body)
  BY <1>2, <1>3
<1> QED BY <1>3, <1>5, <1>6 DEF s

\* An edit that modify() returns is sound.
LEMMA ModifyPreserves ==
  ASSUME DirectoryInv, NEW c \in Callers, NEW b \in Bodies, NEW auto \in BOOLEAN,
         Modify(c, b, auto)
  PROVE  DirectoryInv'
<1> DEFINE e == loaded[c]
           newBody == IF auto THEN b ELSE encode(b, contentEncoding(e.stream0))
           new == modifyEntryBody(e, newBody, auto)
           edit == [hash |-> EntryHash(new.key), entryFile |-> new, body |-> b,
                    time |-> clock]
<1>1. e \in EntryFiles
  BY DEF Modify
<1>2. new \in EntryFiles /\ new.key = e.key /\ Sound(new, b)
  <2> HIDE DEF e
  <2> QED BY <1>1, ModifySound
<1>3. results' = [results EXCEPT ![c] = Append(@, edit)]
  BY DEF Modify
<1>4. EntryHash(new.key) \in Hashes
  BY <1>1, <1>2, DirectoryAssumption DEF DirectoryAssumption, EntryFiles
<1> HIDE DEF new
<1>5. edit \in Edits
  BY <1>2, <1>4 DEF Edits, DirectoryInv, FilesTyped
<1>6. edit.hash \in Hashes /\ edit.entryFile = new /\ edit.body = b
  BY <1>4
<1> HIDE DEF edit
<1>7. results[c] \in Seq(Edits)
  BY DEF DirectoryInv, FilesTyped
<1>8. FilesTyped'
  <2>1. results' \in [Callers -> Seq(Edits)]
    BY <1>3, <1>5, <1>7 DEF DirectoryInv, FilesTyped
  <2>2. loaded' \in [Callers -> FileContents \cup {None}]
    BY DEF Modify, DirectoryInv, FilesTyped
  <2> QED BY <2>1, <2>2 DEF Modify, history, DirectoryInv, FilesTyped
<1>9. WrittenBodyRestored'
  BY DEF Modify, history, DirectoryInv, WrittenBodyRestored
<1>10. EditsSound'
  <2> SUFFICES ASSUME NEW d \in Callers, NEW i \in 1 .. Len(results'[d])
               PROVE  Sound(results'[d][i].entryFile, results'[d][i].body)
    BY DEF EditsSound
  <2>1. CASE d = c
    <3>1. results'[d] = Append(results[c], edit)
      BY <1>3, <2>1 DEF DirectoryInv, FilesTyped
    <3>2. CASE i = Len(results[c]) + 1
      <4>1. results'[d][i] = edit
        BY <3>1, <3>2, <1>7
      <4> QED BY <4>1, <1>2, <1>6
    <3>3. CASE i # Len(results[c]) + 1
      <4>1. i \in 1 .. Len(results[c]) /\ results'[d][i] = results[c][i]
        BY <3>1, <3>3, <1>7
      <4> QED BY <4>1 DEF DirectoryInv, EditsSound
    <3> QED BY <3>2, <3>3
  <2>2. CASE d # c
    <3>1. results'[d] = results[d]
      BY <1>3, <2>2 DEF DirectoryInv, FilesTyped
    <3> QED BY <3>1 DEF DirectoryInv, EditsSound
  <2> QED BY <2>1, <2>2
<1> QED BY <1>8, <1>9, <1>10 DEF DirectoryInv

\* The records of who is behind keep their types, whoever writes what.
LEMMA OutdateType ==
  ASSUME FilesTyped, NEW c \in Callers, NEW h \in Hashes, Outdate(c, h)
  PROVE  behind' \in [Callers -> SUBSET Hashes] /\ torn' \subseteq Hashes
  BY DEF FilesTyped, Outdate

\* Writing a sound edit leaves a sound file.
LEMMA WriteEntryPreserves ==
  ASSUME DirectoryInv, NEW c \in Callers, WriteEntry(c)
  PROVE  DirectoryInv'
<1> DEFINE r == Head(results[c])
<1>1. results[c] # <<>>
  BY DEF WriteEntry, EntryToWrite
<1>2. /\ r \in Edits /\ Sound(r.entryFile, r.body) /\ Tail(results[c]) \in Seq(Edits)
      /\ \A i \in 1 .. Len(Tail(results[c])) :
              Sound(Tail(results[c])[i].entryFile, Tail(results[c])[i].body)
  BY <1>1, HeadSound
<1>3. r.hash \in Hashes /\ r.entryFile \in EntryFiles /\ r.body \in Bodies /\ r.time \in Nat
  BY <1>2 DEF Edits
<1>4. /\ file' = [file EXCEPT ![r.hash] = r.entryFile]
      /\ body' = [body EXCEPT ![r.hash] = r.body]
      /\ editedAt' = [editedAt EXCEPT ![r.hash] = r.time]
      /\ Outdate(c, r.hash)
      /\ results' = [results EXCEPT ![c] = Tail(@)]
      /\ pc' = [pc EXCEPT ![c] = "writing"]
      /\ UNCHANGED <<clock, loaded>>
  BY DEF WriteEntry
<1> HIDE DEF r
<1>5. FilesTyped'
  <2>1. /\ file' \in [Hashes -> FileContents] /\ body' \in [Hashes -> Bodies \cup {None}]
        /\ editedAt' \in [Hashes -> Nat]
        /\ pc' \in [Callers -> {"idle", "editing", "writing"}]
    BY <1>3, <1>4 DEF DirectoryInv, FilesTyped, FileContents
  <2>2. results' \in [Callers -> Seq(Edits)]
    BY <1>2, <1>4 DEF DirectoryInv, FilesTyped
  <2>3. behind' \in [Callers -> SUBSET Hashes] /\ torn' \subseteq Hashes
    BY <1>3, <1>4, OutdateType DEF DirectoryInv
  <2> QED BY <1>4, <2>1, <2>2, <2>3 DEF DirectoryInv, FilesTyped
<1>6. WrittenBodyRestored'
  <2>1. \A h \in Hashes : body'[h] # None =>
          file'[h] \in EntryFiles /\ Sound(file'[h], body'[h])
    <3> SUFFICES ASSUME NEW h \in Hashes, body'[h] # None
                 PROVE  file'[h] \in EntryFiles /\ Sound(file'[h], body'[h])
      OBVIOUS
    <3>1. CASE h = r.hash
      BY <1>2, <1>3, <1>4, <3>1 DEF DirectoryInv, FilesTyped
    <3>2. CASE h # r.hash
      <4>1. file'[h] = file[h] /\ body'[h] = body[h]
        BY <1>4, <3>2 DEF DirectoryInv, FilesTyped
      <4> QED BY <4>1, SoundParsed DEF DirectoryInv, WrittenBodyRestored
    <3> QED BY <3>1, <3>2
  <2> QED BY <2>1, SoundParsed DEF WrittenBodyRestored
<1>7. EditsSound'
  BY <1>2, <1>4 DEF DirectoryInv, FilesTyped, EditsSound
<1> QED BY <1>5, <1>6, <1>7 DEF DirectoryInv

\* A crash loses a body and makes none up.
LEMMA CrashInWritePreserves ==
  ASSUME DirectoryInv, NEW c \in Callers, CrashInWrite(c)
  PROVE  DirectoryInv'
<1>1. /\ pc' \in [Callers -> {"idle", "editing", "writing"}]
      /\ loaded' \in [Callers -> FileContents \cup {None}]
      /\ results' \in [Callers -> Seq(Edits)]
      /\ EditsSound'
  BY ForgetPreserves DEF CrashInWrite
<1>2. CASE \E h \in Hashes : /\ file' = [file EXCEPT ![h] = Malformed]
                              /\ body' = [body EXCEPT ![h] = None]
                              /\ Outdate(c, h)
  <2>1. behind' \in [Callers -> SUBSET Hashes] /\ torn' \subseteq Hashes
    BY <1>2, OutdateType DEF DirectoryInv
  <2>2. FilesTyped'
    BY <1>1, <1>2, <2>1 DEF CrashInWrite, DirectoryInv, FilesTyped, FileContents
  <2>3. WrittenBodyRestored'
    BY <1>2 DEF DirectoryInv, FilesTyped, WrittenBodyRestored
  <2> QED BY <1>1, <2>2, <2>3 DEF DirectoryInv
<1>3. CASE UNCHANGED <<file, body, behind, torn>>
  <2>1. FilesTyped'
    BY <1>1, <1>3 DEF CrashInWrite, DirectoryInv, FilesTyped
  <2>2. WrittenBodyRestored'
    BY <1>3 DEF DirectoryInv, WrittenBodyRestored
  <2> QED BY <1>1, <2>1, <2>2 DEF DirectoryInv
<1>4. EntryToWrite(c) => Head(results[c]).hash \in Hashes
  BY HeadSound DEF EntryToWrite, Edits
<1> QED BY <1>2, <1>3, <1>4 DEF CrashInWrite

\* Steps that leave the files alone, and hold no new edit.
LEMMA OthersPreserve ==
  ASSUME DirectoryInv, UNCHANGED <<file, body>>,
         clock' \in Nat \ {0}, torn' \subseteq Hashes,
         editedAt' \in [Hashes -> Nat], behind' \in [Callers -> SUBSET Hashes],
         pc' \in [Callers -> {"idle", "editing", "writing"}],
         loaded' \in [Callers -> FileContents \cup {None}],
         results' \in [Callers -> Seq(Edits)],
         EditsSound'
  PROVE  DirectoryInv'
  BY DEF DirectoryInv, FilesTyped, WrittenBodyRestored

\* Every action keeps the invariant.
LEMMA NextDirectoryInv == DirectoryInv /\ [Next]_vars => DirectoryInv'
<1> SUFFICES ASSUME DirectoryInv, [Next]_vars
             PROVE  DirectoryInv'
  OBVIOUS
<1>0. FilesTyped /\ EditsSound
  BY DEF DirectoryInv
<1>1. ASSUME NEW c \in Callers, ReadIndex(c) PROVE DirectoryInv'
  BY <1>0, <1>1, OthersPreserve DEF ReadIndex, history, FilesTyped, EditsSound
<1>2. ASSUME NEW c \in Callers, NEW h \in Hashes, ReadEntry(c, h) PROVE DirectoryInv'
  <2>1. loaded' \in [Callers -> FileContents \cup {None}]
    BY <1>0, <1>2 DEF ReadEntry, FilesTyped
  <2> QED BY <1>0, <1>2, <2>1, OthersPreserve DEF ReadEntry, history, FilesTyped, EditsSound
<1>3. ASSUME NEW c \in Callers, NEW b \in Bodies, NEW auto \in BOOLEAN, Modify(c, b, auto)
      PROVE DirectoryInv'
  BY <1>3, ModifyPreserves
<1>4. ASSUME NEW c \in Callers, WriteEntry(c) PROVE DirectoryInv'
  BY <1>4, WriteEntryPreserves
<1>5. ASSUME NEW c \in Callers, WriteIndex(c) PROVE DirectoryInv'
  <2>1. Forget(c) /\ UNCHANGED <<file, clock, body, editedAt, behind>>
        /\ torn' \subseteq Hashes
    BY <1>0, <1>5 DEF WriteIndex, FilesTyped
  <2> QED BY <1>0, <2>1, ForgetPreserves, OthersPreserve DEF FilesTyped
<1>6. ASSUME NEW c \in Callers, CrashInWrite(c) PROVE DirectoryInv'
  BY <1>6, CrashInWritePreserves
<1>7. ASSUME NEW c \in Callers, Abandon(c) PROVE DirectoryInv'
  <2>1. Forget(c) /\ UNCHANGED <<file, clock, history>>
    BY <1>7 DEF Abandon
  <2> QED BY <1>0, <2>1, ForgetPreserves, OthersPreserve DEF history, FilesTyped
<1>8. CASE SyncRestoreFromDisk
  BY <1>0, <1>8, OthersPreserve DEF SyncRestoreFromDisk, callVars, FilesTyped, EditsSound
<1>9. CASE Tick
  BY <1>0, <1>9, OthersPreserve DEF Tick, callVars, history, FilesTyped, EditsSound
<1>10. CASE UNCHANGED vars
  BY <1>0, <1>10, OthersPreserve DEF vars, callVars, history, FilesTyped, EditsSound
<1> QED
  BY <1>1, <1>2, <1>3, <1>4, <1>5, <1>6, <1>7, <1>8, <1>9, <1>10 DEF Next

\* So it always holds.
LEMMA DirectoryInvHolds == Spec => []DirectoryInv
  BY InitDirectoryInv, NextDirectoryInv, PTL DEF Spec

-----------------------------------------------------------------------------

\* Whatever was last written to an entry is what restore() returns for it, without
\* a warning: for any body, codec, number of callers and crash.
THEOREM WrittenRestored == Spec => []WrittenBodyRestored
<1>1. DirectoryInv => WrittenBodyRestored
  BY DEF DirectoryInv
<1> QED BY <1>1, DirectoryInvHolds, PTL

-----------------------------------------------------------------------------
\* The headers of what is stored.

\* The files Chromium left have pickles whose length field is right.
SoundHeaders ==
  \A f \in InitialFiles, h \in Hashes :
    f[h] \in EntryFiles => pickleConsistent(f[h].stream0)

\* The headers of one file agree with its streams.
Described(e) ==
  /\ hasHeaderBlock(e.stream0) => e.stream0.contentLength \in {NoLength, ByteLength(e.stream1)}
  /\ pickleConsistent(e.stream0)

\* Files, edits read and edits made have sound headers; what was written describes itself.
HeadersInv ==
  /\ \A h \in Hashes : file[h] \in EntryFiles => pickleConsistent(file[h].stream0)
  /\ \A c \in Callers : loaded[c] \in EntryFiles => pickleConsistent(loaded[c].stream0)
  /\ \A c \in Callers : \A i \in 1 .. Len(results[c]) : Described(results[c][i].entryFile)
  /\ \A h \in Hashes : body[h] # None => Described(file[h])

\* Chromium's own files have sound headers.
LEMMA InitHeadersInv == SoundHeaders /\ Init => HeadersInv
<1> SUFFICES ASSUME SoundHeaders, Init PROVE HeadersInv
  OBVIOUS
<1>1. None \notin EntryFiles
  BY DirectoryAssumption DEF DirectoryAssumption
<1> QED BY <1>1 DEF Init, SoundHeaders, HeadersInv

\* Dropping edits disturbs no header.
LEMMA ForgetHeaders ==
  ASSUME DirectoryInv, HeadersInv, NEW c \in Callers, Forget(c)
  PROVE  /\ \A d \in Callers : loaded'[d] \in EntryFiles => pickleConsistent(loaded'[d].stream0)
         /\ \A d \in Callers : \A i \in 1 .. Len(results'[d]) : Described(results'[d][i].entryFile)
<1>1. None \notin EntryFiles
  BY DirectoryAssumption DEF DirectoryAssumption
<1> QED BY <1>1 DEF Forget, DirectoryInv, FilesTyped, HeadersInv

\* modify() patches the headers it copies.
LEMMA ModifyHeaders ==
  ASSUME DirectoryInv, HeadersInv, NEW c \in Callers, NEW b \in Bodies, NEW auto \in BOOLEAN,
         Modify(c, b, auto)
  PROVE  HeadersInv'
<1> DEFINE e == loaded[c]
           newBody == IF auto THEN b ELSE encode(b, contentEncoding(e.stream0))
           new == modifyEntryBody(e, newBody, auto)
           edit == [hash |-> EntryHash(new.key), entryFile |-> new, body |-> b,
                    time |-> clock]
<1>0. None \notin EntryFiles
  BY DirectoryAssumption DEF DirectoryAssumption
<1>1. e \in EntryFiles /\ pickleConsistent(e.stream0)
  BY DEF Modify, HeadersInv
<1>2. /\ new \in EntryFiles
      /\ new.stream0 = patchContentLength(e.stream0, ByteLength(new.stream1))
  <2> HIDE DEF e
  <2> QED BY <1>1, ModifySound
<1>3. /\ results' = [results EXCEPT ![c] = Append(@, edit)]
      /\ loaded' = [loaded EXCEPT ![c] = None]
      /\ UNCHANGED <<file, body>>
  BY DEF Modify, history
<1> HIDE DEF new
<1>4. Described(new)
  <2>1. e.stream0 \in Stream0s /\ ByteLength(new.stream1) \in Nat
    BY <1>1, <1>2, ZipAssumption DEF ZipAssumption, EntryFiles
  <2> HIDE DEF e
  <2> QED BY <1>1, <1>2, <2>1, PatchConsistent DEF Described
<1>5. edit.entryFile = new
  OBVIOUS
<1> HIDE DEF edit
<1>6. results[c] \in Seq(Edits)
  BY DEF DirectoryInv, FilesTyped
<1>7. ASSUME NEW d \in Callers, NEW i \in 1 .. Len(results'[d])
      PROVE  Described(results'[d][i].entryFile)
  <2>1. CASE d = c /\ i = Len(results[c]) + 1
    <3>1. results'[d] = Append(results[c], edit)
      BY <1>3, <2>1 DEF DirectoryInv, FilesTyped
    <3>2. results'[d][i] = edit
      BY <3>1, <2>1, <1>6
    <3> QED BY <3>2, <1>4, <1>5
  <2>2. CASE d = c /\ i # Len(results[c]) + 1
    <3>1. results'[d] = Append(results[c], edit)
      BY <1>3, <2>2 DEF DirectoryInv, FilesTyped
    <3>2. i \in 1 .. Len(results[c]) /\ results'[d][i] = results[c][i]
      BY <3>1, <2>2, <1>6
    <3> QED BY <3>2 DEF HeadersInv
  <2>3. CASE d # c
    <3>1. results'[d] = results[d]
      BY <1>3, <2>3 DEF DirectoryInv, FilesTyped
    <3> QED BY <3>1, <1>7 DEF HeadersInv
  <2> QED BY <2>1, <2>2, <2>3
<1>8. \A d \in Callers : loaded'[d] \in EntryFiles => pickleConsistent(loaded'[d].stream0)
  BY <1>0, <1>3 DEF DirectoryInv, FilesTyped, HeadersInv
<1> QED BY <1>3, <1>7, <1>8 DEF HeadersInv

\* Writing an edit moves its headers to the disk.
LEMMA WriteEntryHeaders ==
  ASSUME DirectoryInv, HeadersInv, NEW c \in Callers, WriteEntry(c)
  PROVE  HeadersInv'
<1> DEFINE r == Head(results[c])
           s == results[c]
<1>1. s \in Seq(Edits) /\ s # <<>> /\ \A i \in 1 .. Len(s) : Described(s[i].entryFile)
  BY DEF WriteEntry, EntryToWrite, DirectoryInv, FilesTyped, HeadersInv
<1>2. /\ file' = [file EXCEPT ![r.hash] = r.entryFile]
      /\ body' = [body EXCEPT ![r.hash] = r.body]
      /\ results' = [results EXCEPT ![c] = Tail(s)]
      /\ loaded' = loaded
  BY DEF WriteEntry
<1> HIDE DEF s
<1>3. r = s[1] /\ 1 \in 1 .. Len(s) /\ r \in Edits
  BY <1>1 DEF s
<1>4. Described(r.entryFile) /\ r.hash \in Hashes
  BY <1>1, <1>3 DEF Edits
<1>5. \A i \in 1 .. Len(Tail(s)) : i + 1 \in 1 .. Len(s) /\ Tail(s)[i] = s[i + 1]
  BY <1>1
<1>6. \A i \in 1 .. Len(Tail(s)) : Described(Tail(s)[i].entryFile)
  BY <1>1, <1>5
<1> HIDE DEF r
<1>7. \A d \in Callers : \A i \in 1 .. Len(results'[d]) : Described(results'[d][i].entryFile)
  BY <1>2, <1>6 DEF DirectoryInv, FilesTyped, HeadersInv
<1>8. ASSUME NEW h \in Hashes
      PROVE  /\ file'[h] \in EntryFiles => pickleConsistent(file'[h].stream0)
             /\ body'[h] # None => Described(file'[h])
  <2>1. CASE h = r.hash
    BY <1>2, <1>4, <2>1 DEF DirectoryInv, FilesTyped, Described
  <2>2. CASE h # r.hash
    BY <1>2, <2>2 DEF DirectoryInv, FilesTyped, HeadersInv
  <2> QED BY <2>1, <2>2
<1> QED BY <1>2, <1>7, <1>8 DEF HeadersInv

\* A crash leaves no headers to disagree.
LEMMA CrashInWriteHeaders ==
  ASSUME DirectoryInv, HeadersInv, NEW c \in Callers, CrashInWrite(c)
  PROVE  HeadersInv'
<1>1. Malformed \notin EntryFiles
  BY DirectoryAssumption DEF DirectoryAssumption
<1>2. Forget(c)
  BY DEF CrashInWrite
<1>3. ASSUME NEW h \in Hashes
      PROVE  /\ file'[h] \in EntryFiles => pickleConsistent(file'[h].stream0)
             /\ body'[h] # None => Described(file'[h])
  <2>1. CASE UNCHANGED <<file, body>>
    BY <2>1 DEF HeadersInv
  <2>2. CASE ~UNCHANGED <<file, body>>
    <3>1. PICK k : /\ file' = [file EXCEPT ![k] = Malformed]
                   /\ body' = [body EXCEPT ![k] = None]
      BY <2>2 DEF CrashInWrite
    <3> QED BY <1>1, <3>1 DEF DirectoryInv, FilesTyped, HeadersInv
  <2> QED BY <2>1, <2>2
<1> QED BY <1>2, <1>3, ForgetHeaders DEF HeadersInv

\* Every action keeps the headers right.
LEMMA NextHeadersInv == DirectoryInv /\ HeadersInv /\ [Next]_vars => HeadersInv'
<1> SUFFICES ASSUME DirectoryInv, HeadersInv, [Next]_vars
             PROVE  HeadersInv'
  OBVIOUS
<1>1. ASSUME NEW c \in Callers, ReadIndex(c) PROVE HeadersInv'
  BY <1>1 DEF ReadIndex, history, HeadersInv
<1>2. ASSUME NEW c \in Callers, NEW h \in Hashes, ReadEntry(c, h) PROVE HeadersInv'
  BY <1>2 DEF ReadEntry, history, HeadersInv, DirectoryInv, FilesTyped
<1>3. ASSUME NEW c \in Callers, NEW b \in Bodies, NEW auto \in BOOLEAN, Modify(c, b, auto)
      PROVE HeadersInv'
  BY <1>3, ModifyHeaders
<1>4. ASSUME NEW c \in Callers, WriteEntry(c) PROVE HeadersInv'
  BY <1>4, WriteEntryHeaders
<1>5. ASSUME NEW c \in Callers, WriteIndex(c) PROVE HeadersInv'
  <2>1. Forget(c) /\ UNCHANGED <<file, body>>
    BY <1>5 DEF WriteIndex
  <2> QED BY <2>1, ForgetHeaders DEF HeadersInv
<1>6. ASSUME NEW c \in Callers, CrashInWrite(c) PROVE HeadersInv'
  BY <1>6, CrashInWriteHeaders
<1>7. ASSUME NEW c \in Callers, Abandon(c) PROVE HeadersInv'
  <2>1. Forget(c) /\ UNCHANGED <<file, body>>
    BY <1>7 DEF Abandon, history
  <2> QED BY <2>1, ForgetHeaders DEF HeadersInv
<1>8. CASE SyncRestoreFromDisk
  BY <1>8 DEF SyncRestoreFromDisk, callVars, HeadersInv
<1>9. CASE Tick
  BY <1>9 DEF Tick, callVars, history, HeadersInv
<1>10. CASE UNCHANGED vars
  BY <1>10 DEF vars, callVars, history, HeadersInv
<1> QED
  BY <1>1, <1>2, <1>3, <1>4, <1>5, <1>6, <1>7, <1>8, <1>9, <1>10 DEF Next

\* If Chromium's own pickles are right, so are those of every file written: the
\* content-length counts the stored bytes and the pickle's length its own
\* (patchContentLength), whatever was edited before.
THEOREM StoredDescribed ==
  ASSUME SoundHeaders
  PROVE  Spec => []StoredMetadataConsistent
<1>1. Init => HeadersInv
  BY SoundHeaders, InitHeadersInv
<1>2. HeadersInv => StoredMetadataConsistent
  BY DEF HeadersInv, StoredMetadataConsistent, Described
<1> QED BY <1>1, <1>2, NextHeadersInv, DirectoryInvHolds, PTL DEF Spec

-----------------------------------------------------------------------------
\* Refinement: seen through restore(), the directory is EditedBodies.

restored == [h \in Hashes |-> bodyOf(file[h])]

\* Whatever an entry file holds, some bytes come back, or nothing does.
LEMMA BodyType ==
  ASSUME NEW contents \in FileContents
  PROVE  bodyOf(contents) \in Bytes \cup {Lost}
<1>1. CASE contents \in {Missing, Malformed}
  BY <1>1, ZipAssumption DEF ZipAssumption, bodyOf
<1>2. CASE contents \notin {Missing, Malformed}
  <2>1. contents \in EntryFiles
    BY <1>2 DEF FileContents
  <2>2. contents.stream1 \in Bytes /\ contentEncoding(contents.stream0) \in HeaderEncodings
    BY <2>1 DEF EntryFiles, Stream0s, contentEncoding, HeaderEncodings
  <2>3. decode(contents.stream1, contentEncoding(contents.stream0)) \in Bytes \cup {NoBytes}
    BY <2>2, ZipAssumption DEF ZipAssumption, decode, isCompressed
  <2> QED BY <1>2, <2>2, <2>3 DEF bodyOf, restoredBody
<1> QED BY <1>1, <1>2

\* One file replaced is one restored body replaced.
LEMMA OneBodyChanges ==
  ASSUME DirectoryInv, NEW h \in Hashes, NEW contents, file' = [file EXCEPT ![h] = contents]
  PROVE  restored' = [restored EXCEPT ![h] = bodyOf(contents)]
  BY DEF DirectoryInv, FilesTyped, restored

\* The edits in one caller's results, as EditedBodies sees them.
pairsOf(s) == { <<s[i].hash, s[i].body>> : i \in 1 .. Len(s) }

\* Only the results of one caller change: no edit appears that is not in its new
\* results, and none is withdrawn but those it dropped.
LEMMA OneCallerChanges ==
  ASSUME FilesTyped, NEW c \in Callers, NEW s, results' = [results EXCEPT ![c] = s],
         NEW new, pairsOf(s) \subseteq pairsOf(results[c]) \cup new,
         NEW old, pairsOf(results[c]) \ old \subseteq pairsOf(s)
  PROVE  /\ pendingEdits' \subseteq pendingEdits \cup new
         /\ pendingEdits \ old \subseteq pendingEdits'
         /\ pairsOf(s) \subseteq pendingEdits'
<1>1. pendingEdits = UNION { pairsOf(results[d]) : d \in Callers }
  BY DEF pendingEdits, pairsOf
<1>2. pendingEdits' = UNION { pairsOf(results'[d]) : d \in Callers }
  BY DEF pendingEdits, pairsOf
<1>3. results'[c] = s /\ \A d \in Callers \ {c} : results'[d] = results[d]
  BY DEF FilesTyped
<1> HIDE DEF pairsOf, pendingEdits
<1>4. ASSUME NEW x \in pendingEdits' PROVE x \in pendingEdits \cup new
  <2>1. PICK d \in Callers : x \in pairsOf(results'[d])
    BY <1>2, <1>4
  <2> QED BY <1>1, <1>3, <2>1
<1>5. ASSUME NEW x \in pendingEdits \ old PROVE x \in pendingEdits'
  <2>1. PICK d \in Callers : x \in pairsOf(results[d])
    BY <1>1, <1>5
  <2> QED BY <1>2, <1>3, <1>5, <2>1
<1>6. pairsOf(s) \subseteq pendingEdits'
  BY <1>2, <1>3
<1> QED BY <1>4, <1>5, <1>6

\* A caller that forgets its results withdraws them.
LEMMA ForgetWithdraws ==
  ASSUME FilesTyped, NEW c \in Callers, Forget(c)
  PROVE  pendingEdits' \subseteq pendingEdits
<1>1. pairsOf(<<>>) = {}
  BY DEF pairsOf
<1>2. results' = [results EXCEPT ![c] = <<>>]
  BY DEF Forget
<1> QED
  BY <1>1, <1>2, OneCallerChanges

\* The oldest result of a caller is pending; when it is written, nothing else is
\* withdrawn.
LEMMA HeadPending ==
  ASSUME FilesTyped, NEW c \in Callers, results[c] # <<>>,
         NEW p, p = <<Head(results[c]).hash, Head(results[c]).body>>
  PROVE  /\ p \in pendingEdits
         /\ results' = [results EXCEPT ![c] = Tail(@)] =>
              pendingEdits' \subseteq pendingEdits /\ pendingEdits \ {p} \subseteq pendingEdits'
<1> DEFINE s == results[c]
<1>1. s \in Seq(Edits) /\ s # <<>>
  BY DEF FilesTyped
<1>2. pairsOf(s) \subseteq pendingEdits
  BY DEF pendingEdits, pairsOf
<1> HIDE DEF s
<1>3. p = <<s[1].hash, s[1].body>> /\ 1 \in 1 .. Len(s)
  BY <1>1 DEF s
<1>4. \A i \in 1 .. Len(Tail(s)) : i + 1 \in 1 .. Len(s) /\ Tail(s)[i] = s[i + 1]
  BY <1>1
<1>5. \A i \in 1 .. Len(s) : i # 1 => i - 1 \in 1 .. Len(Tail(s)) /\ Tail(s)[i - 1] = s[i]
  BY <1>1
<1>6. pairsOf(Tail(s)) \subseteq pairsOf(s) /\ pairsOf(s) \ {p} \subseteq pairsOf(Tail(s))
  <2>1. \A x \in pairsOf(Tail(s)) : x \in pairsOf(s)
    BY <1>4 DEF pairsOf
  <2>2. ASSUME NEW x \in pairsOf(s), x # p PROVE x \in pairsOf(Tail(s))
    <3>1. PICK i \in 1 .. Len(s) : x = <<s[i].hash, s[i].body>>
      BY DEF pairsOf
    <3>2. i - 1 \in 1 .. Len(Tail(s)) /\ Tail(s)[i - 1] = s[i]
      BY <1>3, <1>5, <2>2, <3>1
    <3> QED BY <3>1, <3>2 DEF pairsOf
  <2> QED BY <2>1, <2>2
<1>7. p \in pairsOf(s)
  BY <1>3 DEF pairsOf
<1>8. ASSUME results' = [results EXCEPT ![c] = Tail(@)]
      PROVE  pendingEdits' \subseteq pendingEdits /\ pendingEdits \ {p} \subseteq pendingEdits'
  <2>1. results' = [results EXCEPT ![c] = Tail(s)]
    BY <1>8 DEF s
  <2>2. pairsOf(Tail(s)) \subseteq pairsOf(results[c]) \cup {}
        /\ pairsOf(results[c]) \ {p} \subseteq pairsOf(Tail(s))
    BY <1>6 DEF s
  <2>3. pendingEdits' \subseteq pendingEdits \cup {} /\ pendingEdits \ {p} \subseteq pendingEdits'
    BY <2>1, <2>2, OneCallerChanges
  <2> QED BY <2>3
<1> QED BY <1>2, <1>7, <1>8

\* A new result is a new pending edit, and the others stay.
LEMMA AppendRequests ==
  ASSUME FilesTyped, NEW c \in Callers, NEW edit \in Edits,
         results' = [results EXCEPT ![c] = Append(@, edit)]
  PROVE  pendingEdits' = pendingEdits \cup {<<edit.hash, edit.body>>}
<1> DEFINE s == results[c]
           t == Append(s, edit)
           p == <<edit.hash, edit.body>>
<1>1. s \in Seq(Edits)
  BY DEF FilesTyped
<1> HIDE DEF s
<1>2. Len(t) = Len(s) + 1 /\ Len(s) \in Nat /\ t[Len(s) + 1] = edit
  BY <1>1
<1>3. \A i \in 1 .. Len(s) : i \in 1 .. Len(t) /\ t[i] = s[i]
  BY <1>1
<1>4. \A i \in 1 .. Len(t) : i = Len(s) + 1 \/ i \in 1 .. Len(s)
  BY <1>2
<1>5. Len(s) + 1 \in 1 .. Len(t)
  BY <1>2
<1> HIDE DEF t
<1>6. pairsOf(t) = pairsOf(s) \cup {p}
  BY <1>2, <1>3, <1>4, <1>5 DEF pairsOf
<1>7. results' = [results EXCEPT ![c] = t]
  BY DEF s, t
<1>8. pairsOf(t) \subseteq pairsOf(results[c]) \cup {p} /\ pairsOf(results[c]) \ {} \subseteq pairsOf(t)
  BY <1>6 DEF s
<1> HIDE DEF p
<1>9. /\ pendingEdits' \subseteq pendingEdits \cup {p}
      /\ pendingEdits \ {} \subseteq pendingEdits'
      /\ pairsOf(t) \subseteq pendingEdits'
  BY <1>7, <1>8, OneCallerChanges, Zenon
<1> QED BY <1>6, <1>9 DEF p

\* Nobody has asked for an edit at first, and every file restores to something.
LEMMA InitRefines == Init => Promise!Init
<1> SUFFICES ASSUME Init PROVE Promise!Init
  OBVIOUS
<1>1. \A h \in Hashes : file[h] \in FileContents
  BY DirectoryAssumption DEF DirectoryAssumption, Init
<1>2. [h \in Hashes |-> bodyOf(file[h])] \in [Hashes -> Bytes \cup {Lost}]
  BY <1>1, BodyType
<1>3. \A c \in Callers : 1 .. Len(results[c]) = {}
  BY DEF Init
<1>4. pendingEdits = {}
  BY <1>3 DEF pendingEdits
<1> QED BY <1>2, <1>4 DEF Promise!Init

\* modify() asks for an edit.
LEMMA ModifyRequests ==
  ASSUME DirectoryInv, NEW c \in Callers, NEW b \in Bodies, NEW auto \in BOOLEAN,
         Modify(c, b, auto)
  PROVE  \E h \in Hashes : Promise!Request(h, b)
<1> DEFINE e == loaded[c]
           newBody == IF auto THEN b ELSE encode(b, contentEncoding(e.stream0))
           new == modifyEntryBody(e, newBody, auto)
           edit == [hash |-> EntryHash(new.key), entryFile |-> new, body |-> b,
                    time |-> clock]
<1>1. e \in EntryFiles
  BY DEF Modify
<1>2. new \in EntryFiles /\ new.key = e.key
  <2> HIDE DEF e
  <2> QED BY <1>1, ModifySound
<1>3. results' = [results EXCEPT ![c] = Append(@, edit)] /\ file' = file
  BY DEF Modify
<1>4. EntryHash(new.key) \in Hashes
  BY <1>1, <1>2, DirectoryAssumption DEF DirectoryAssumption, EntryFiles
<1> HIDE DEF new
<1>5. edit \in Edits /\ edit.body = b /\ edit.hash \in Hashes
  BY <1>2, <1>4 DEF Edits, DirectoryInv, FilesTyped
<1> HIDE DEF edit
<1>6. pendingEdits' = pendingEdits \cup {<<edit.hash, b>>}
  BY <1>3, <1>5, AppendRequests DEF DirectoryInv
<1>7. Promise!Request(edit.hash, b)
  BY <1>3, <1>6 DEF Promise!Request
<1> QED BY <1>5, <1>7

\* Writing an entry applies the edit.
LEMMA WriteEntryApplies ==
  ASSUME DirectoryInv, NEW c \in Callers, WriteEntry(c)
  PROVE  \E h \in Hashes, b \in Bodies : Promise!Apply(h, b)
<1> DEFINE r == Head(results[c])
           p == <<r.hash, r.body>>
<1>1. /\ r.hash \in Hashes /\ r.body \in Bodies /\ r.entryFile \in EntryFiles
      /\ restoredBody(r.entryFile) = r.body
  BY HeadSound DEF WriteEntry, EntryToWrite, Edits, Sound
<1>2. /\ file' = [file EXCEPT ![r.hash] = r.entryFile]
      /\ results' = [results EXCEPT ![c] = Tail(@)]
  BY DEF WriteEntry
<1>3. /\ p \in pendingEdits /\ pendingEdits' \subseteq pendingEdits
      /\ pendingEdits \ {p} \subseteq pendingEdits'
  BY <1>2, HeadPending DEF WriteEntry, EntryToWrite, DirectoryInv
<1> HIDE DEF r
<1>4. bodyOf(r.entryFile) = r.body
  BY <1>1, DirectoryAssumption DEF DirectoryAssumption, bodyOf
<1>5. restored' = [restored EXCEPT ![r.hash] = r.body]
  BY <1>1, <1>2, <1>4, OneBodyChanges
<1>6. Promise!Apply(r.hash, r.body)
  BY <1>3, <1>5 DEF Promise!Apply, restored
<1> QED BY <1>1, <1>6

\* A crash inside a write loses the body that was being replaced, and withdraws
\* the caller's edits; inside the write of the index it only withdraws them.
LEMMA CrashLoses ==
  ASSUME DirectoryInv, NEW c \in Callers, CrashInWrite(c)
  PROVE  Promise!Withdraw \/ \E h \in Hashes, b \in Bodies : Promise!Lose(h, b)
<1>1. pendingEdits' \subseteq pendingEdits
  BY ForgetWithdraws DEF CrashInWrite, DirectoryInv
<1>2. CASE UNCHANGED file
  BY <1>1, <1>2 DEF Promise!Withdraw
<1>3. CASE EntryToWrite(c) /\ file' = [file EXCEPT ![Head(results[c]).hash] = Malformed]
  <2> DEFINE r == Head(results[c])
             p == <<r.hash, r.body>>
  <2>1. r.hash \in Hashes /\ r.body \in Bodies
    BY <1>3, HeadSound DEF EntryToWrite, Edits
  <2>2. p \in pendingEdits
    BY <1>3, HeadPending DEF EntryToWrite, DirectoryInv
  <2>3. file' = [file EXCEPT ![r.hash] = Malformed]
    BY <1>3
  <2> HIDE DEF r
  <2>4. bodyOf(Malformed) = Lost
    BY DirectoryAssumption DEF DirectoryAssumption, bodyOf
  <2>5. restored' = [restored EXCEPT ![r.hash] = Lost]
    BY <2>1, <2>3, <2>4, OneBodyChanges
  <2>6. Promise!Lose(r.hash, r.body)
    BY <1>1, <2>2, <2>5 DEF Promise!Lose, restored
  <2> QED BY <2>1, <2>6
<1> QED BY <1>2, <1>3 DEF CrashInWrite

\* Every step is one of EditedBodies, or none.
LEMMA NextRefines ==
  DirectoryInv /\ [Next]_vars => [Promise!Next]_<<restored, pendingEdits>>
<1> SUFFICES ASSUME DirectoryInv, [Next]_vars
             PROVE  [Promise!Next]_<<restored, pendingEdits>>
  OBVIOUS
<1>1. UNCHANGED <<file, results>> => UNCHANGED <<restored, pendingEdits>>
  BY DEF restored, pendingEdits
<1>2. ASSUME NEW c \in Callers, ReadIndex(c) PROVE UNCHANGED <<file, results>>
  BY <1>2 DEF ReadIndex
<1>3. ASSUME NEW c \in Callers, NEW h \in Hashes, ReadEntry(c, h)
      PROVE  UNCHANGED <<file, results>>
  BY <1>3 DEF ReadEntry
<1>4. ASSUME NEW c \in Callers, NEW b \in Bodies, NEW auto \in BOOLEAN, Modify(c, b, auto)
      PROVE  Promise!Next
  BY <1>4, ModifyRequests DEF Promise!Next
<1>5. ASSUME NEW c \in Callers, WriteEntry(c) PROVE Promise!Next
  BY <1>5, WriteEntryApplies DEF Promise!Next
<1>6. ASSUME NEW c \in Callers, WriteIndex(c) \/ Abandon(c) PROVE Promise!Next
  <2>1. Forget(c) /\ file' = file
    BY <1>6 DEF WriteIndex, Abandon
  <2>2. pendingEdits' \subseteq pendingEdits
    BY <2>1, ForgetWithdraws DEF DirectoryInv
  <2>3. Promise!Withdraw
    BY <2>1, <2>2 DEF Promise!Withdraw
  <2> QED BY <2>3 DEF Promise!Next
<1>7. ASSUME NEW c \in Callers, CrashInWrite(c) PROVE Promise!Next
  BY <1>7, CrashLoses DEF Promise!Next
<1>8. SyncRestoreFromDisk \/ Tick \/ UNCHANGED vars => UNCHANGED <<file, results>>
  BY DEF SyncRestoreFromDisk, Tick, vars, callVars
<1> QED
  BY <1>1, <1>2, <1>3, <1>4, <1>5, <1>6, <1>7, <1>8 DEF Next

\* Callers together, interleaved and crashing, change no body but to one asked for,
\* for that entry, by one still alive, and lose none they were not writing: the
\* directory implements EditedBodies.
THEOREM DirectoryImplementsEditedBodies == Spec => EditsAsRequested
<1>1. [Promise!Next]_<<restored, pendingEdits>>
        <=> [Promise!Next]_<<[h \in Hashes |-> bodyOf(file[h])], pendingEdits>>
  BY DEF restored
<1> QED
  BY <1>1, InitRefines, NextRefines, DirectoryInvHolds, PTL
  DEF Spec, EditsAsRequested, Promise!Spec

-------------------------------------------------------------------------------
(* Indexes *)

Records(idx) == { idx.entries[i] : i \in DOMAIN idx.entries }

\* The total of a list of records.
TotalOf(entries) == FoldSeq(LAMBDA ie, total : total + getEntrySize(ie), 0, entries)

LEMMA TotalSize == ASSUME NEW idx PROVE totalSize(idx) = TotalOf(idx.entries)
  BY DEF totalSize, TotalOf

\* IsIndex, but for the records.
IndexHeader(idx) ==
  /\ DOMAIN idx = {"version", "reason", "cacheSize", "cacheLastModifiedInternal", "entries"}
  /\ idx.version \in MIN_INDEX_FILE_VERSION .. INDEX_FILE_VERSION
  /\ idx.reason \in REASONS /\ idx.cacheLastModifiedInternal \in Nat

DistinctRecords(s) ==
  s \in Seq(IndexEntries) /\ \A i, j \in DOMAIN s : s[i].hash = s[j].hash => i = j

LEMMA IndexParts ==
  ASSUME NEW idx
  PROVE  IsIndex(idx) <=> IndexHeader(idx) /\ DistinctRecords(idx.entries)
  BY DEF IsIndex, IndexHeader, DistinctRecords

\* An index whose total is that of its records, at most one for each hash.
ProperIndex(idx) == IsIndex(idx) /\ idx.cacheSize = totalSize(idx)

LEMMA BlocksType == ASSUME NEW n \in Nat PROVE setEntrySize(n) \in Nat
  BY DEF setEntrySize

LEMMA SizeType == ASSUME NEW e \in EntryFiles PROVE serializedSize(e) \in Nat
<1>1. e.key \in Keys /\ e.stream1 \in Bytes /\ e.stream0 \in Stream0s
  BY DEF EntryFiles
<1>2. KeyLength(e.key) \in Nat /\ ByteLength(e.stream1) \in Nat
  BY <1>1, DirectoryAssumption, ZipAssumption DEF DirectoryAssumption, ZipAssumption
<1>3. blockLength(e.stream0) \in Nat
  <2>1. CASE e.stream0.contentLength = NoLength
    BY <1>1, <2>1 DEF blockLength, Stream0s
  <2>2. CASE e.stream0.contentLength # NoLength
    <3>1. Digits(e.stream0.contentLength) \in Nat
      BY <1>1, <2>2, DigitsType DEF Stream0s
    <3> QED BY <1>1, <2>2, <3>1 DEF blockLength, Stream0s
  <2> QED BY <2>1, <2>2
<1>4. stream0Length(e.stream0) \in Nat
  <2>1. /\ e.stream0.start \in Int /\ e.stream0.rest \in Nat /\ e.stream0.other \in Nat
    BY <1>1 DEF Stream0s
  <2>2. hasHeaderBlock(e.stream0) => align4(e.stream0.start + blockLength(e.stream0)) \in Nat
    BY <1>3, <2>1 DEF align4, hasHeaderBlock
  <2> QED BY <2>1, <2>2 DEF stream0Length
<1> QED BY <1>2, <1>4 DEF serializedSize, HEADER_SIZE, EOF_SIZE, SHA256_SIZE

\* Every size the index may have for an entry counts blocks.
LEMMA SizesType ==
  ASSUME NEW h \in Hashes, NEW contents
  PROVE  sizeInUse(h, contents) \in Nat /\ sizeScanned(h, contents) \in Nat
<1>1. PICK n : n = entryBytes(contents)
  OBVIOUS
<1>2. n \in Nat
  BY <1>1, SizeType DEF entryBytes
<1>3. PICK o : o = OtherBytes[h]
  OBVIOUS
<1>4. o \in Nat
  BY <1>3, DirectoryAssumption DEF DirectoryAssumption
<1>5. setEntrySize(n + o) \in Nat /\ setEntrySize(n) \in Nat /\ setEntrySize(o) \in Nat
  BY ONLY <1>2, <1>4 DEF setEntrySize
<1> QED BY <1>1, <1>3, <1>5 DEF sizeInUse, sizeScanned

\* put() replaces the record of a hash, or adds one.
LEMMA PutRecords ==
  ASSUME NEW idx, IsIndex(idx), NEW e \in IndexEntries, NEW new, new = put(idx, e)
  PROVE  /\ IsIndex(new)
         /\ \A r \in Records(new) : r = e \/ (r.hash # e.hash /\ r \in Records(idx))
         /\ listed(new) = listed(idx) \cup {e.hash}
<1>0. IndexHeader(idx) /\ DistinctRecords(idx.entries)
  BY IndexParts
<1>1. PICK s \in Seq(IndexEntries) : s = idx.entries
  BY <1>0 DEF DistinctRecords
<1>2. PICK t : t = IF e.hash \in listed(idx) THEN [s EXCEPT ![find(idx, e.hash)] = e]
                                             ELSE Append(s, e)
  OBVIOUS
<1>3. new = [idx EXCEPT !.entries = t]
  BY <1>1, <1>2 DEF put
<1>4. IndexHeader(new) /\ new.entries = t
  BY <1>0, <1>3 DEF IndexHeader
<1>5. /\ \A i, j \in DOMAIN s : s[i].hash = s[j].hash => i = j
      /\ \A i \in DOMAIN s : s[i] \in IndexEntries /\ s[i].hash \in Hashes
      /\ DOMAIN s = 1 .. Len(s) /\ Len(s) \in Nat
  <2>1. \A i, j \in DOMAIN s : s[i].hash = s[j].hash => i = j
    BY <1>0, <1>1 DEF DistinctRecords
  <2>2. \A r \in IndexEntries : r.hash \in Hashes
    BY DEF IndexEntries
  <2>3. DOMAIN s = 1 .. Len(s) /\ Len(s) \in Nat /\ \A i \in DOMAIN s : s[i] \in IndexEntries
    OBVIOUS
  <2> QED BY <2>1, <2>2, <2>3
<1>6. listed(idx) = { s[i].hash : i \in DOMAIN s } /\ listed(new) = { t[i].hash : i \in DOMAIN t }
  BY <1>1, <1>4 DEF listed
<1>7. Records(idx) = { s[i] : i \in DOMAIN s } /\ Records(new) = { t[i] : i \in DOMAIN t }
  BY <1>1, <1>4 DEF Records
<1>8. CASE e.hash \in listed(idx)
  <2>1. PICK k : k = find(idx, e.hash)
    OBVIOUS
  <2>2. k \in DOMAIN s /\ s[k].hash = e.hash
    <3>1. PICK i \in DOMAIN s : s[i].hash = e.hash
      BY <1>6, <1>8
    <3>2. \A j \in 1 .. i - 1 : s[j].hash # e.hash
      <4>1. \A j \in 1 .. i - 1 : j \in DOMAIN s /\ j # i
        BY <1>5, <3>1
      <4> QED BY <1>5, <3>1, <4>1
    <3> QED BY <1>1, <2>1, <3>1, <3>2 DEF find
  <2>3. t = [s EXCEPT ![k] = e]
    BY <1>2, <1>8, <2>1
  <2>4. t \in Seq(IndexEntries) /\ DOMAIN t = DOMAIN s /\ t[k] = e
        /\ \A i \in DOMAIN s : i # k => t[i] = s[i]
    BY <2>2, <2>3
  <2>5. \A i \in DOMAIN t : t[i].hash = s[i].hash
    BY <2>2, <2>4
  <2>6. \A i, j \in DOMAIN t : t[i].hash = t[j].hash => i = j
    BY <1>5, <2>4, <2>5
  <2>7. \A i \in DOMAIN t : t[i] = e \/ (t[i].hash # e.hash /\ t[i] \in Records(idx))
    BY <1>5, <1>7, <2>2, <2>4
  <2>8. listed(new) = listed(idx) \cup {e.hash}
    <3>1. listed(new) = listed(idx)
      BY <1>6, <2>4, <2>5
    <3> QED BY <1>8, <3>1
  <2>9. IsIndex(new)
    BY <1>4, <2>4, <2>6, IndexParts DEF DistinctRecords
  <2> QED BY <1>7, <2>7, <2>8, <2>9
<1>9. CASE e.hash \notin listed(idx)
  <2>1. t = Append(s, e)
    BY <1>2, <1>9
  <2>2. /\ t \in Seq(IndexEntries) /\ DOMAIN t = 1 .. Len(s) + 1 /\ t[Len(s) + 1] = e
        /\ \A i \in DOMAIN s : t[i] = s[i]
    BY <1>5, <2>1
  <2>3. \A i \in DOMAIN t : i \in DOMAIN s \/ i = Len(s) + 1
    BY <1>5, <2>2
  <2>4. \A i \in DOMAIN s : s[i].hash # e.hash /\ s[i] \in Records(idx) /\ i \in DOMAIN t
    BY <1>5, <1>6, <1>7, <1>9, <2>2
  <2>5. \A i, j \in DOMAIN t : t[i].hash = t[j].hash => i = j
    BY <1>5, <2>2, <2>3, <2>4
  <2>6. \A i \in DOMAIN t : t[i] = e \/ (t[i].hash # e.hash /\ t[i] \in Records(idx))
    BY <2>2, <2>3, <2>4
  <2>7. Len(s) + 1 \in DOMAIN t
    BY <1>5, <2>2
  <2>8. listed(new) = listed(idx) \cup {e.hash}
    BY <1>6, <2>2, <2>3, <2>4, <2>7
  <2>9. IsIndex(new)
    BY <1>4, <2>2, <2>5, IndexParts DEF DistinctRecords
  <2> QED BY <1>7, <2>6, <2>8, <2>9
<1> QED BY <1>8, <1>9

\* The size of a record is the one Chromium counts, or since an edit the library.
Describes(r, e, time) ==
  /\ r.lastUsedInternal = time
  /\ r.entrySizeChunks \in IF time = 0 THEN {sizeInUse(r.hash, e), sizeScanned(r.hash, e)}
                                      ELSE {setEntrySize(serializedSize(e))}

\* updateIndex() puts a record that describes the new entry, and recomputes the total.
LEMMA UpdateRecords ==
  ASSUME NEW idx, IsIndex(idx), NEW e \in EntryFiles, NEW time \in Nat \ {0},
         NEW new, new = updateIndex(idx, e, time)
  PROVE  /\ ProperIndex(new)
         /\ \A r \in Records(new) : \/ r.hash = EntryHash(e.key) /\ Describes(r, e, time)
                                    \/ r.hash # EntryHash(e.key) /\ r \in Records(idx)
         /\ listed(new) = listed(idx) \cup {EntryHash(e.key)}
<1>1. PICK m : m = newIndexEntry(EntryHash(e.key), time, serializedSize(e))
  OBVIOUS
<1>2. m \in IndexEntries /\ m.hash = EntryHash(e.key) /\ Describes(m, e, time)
  <2>1. EntryHash(e.key) \in Hashes
    BY DirectoryAssumption DEF DirectoryAssumption, EntryFiles
  <2>2. setEntrySize(serializedSize(e)) \in Nat
    BY SizeType, BlocksType
  <2> QED BY <1>1, <2>1, <2>2 DEF newIndexEntry, IndexEntries, Describes
<1>3. PICK p : p = put(idx, m)
  OBVIOUS
<1>4. /\ IsIndex(p)
      /\ \A r \in Records(p) : r = m \/ (r.hash # m.hash /\ r \in Records(idx))
      /\ listed(p) = listed(idx) \cup {m.hash}
  BY <1>2, <1>3, PutRecords
<1>5. IndexHeader(p) /\ DistinctRecords(p.entries)
  BY <1>4, IndexParts
<1>6. PICK q : q = [p EXCEPT !.cacheSize = totalSize(p)]
  OBVIOUS
<1>7. IndexHeader(q) /\ q.entries = p.entries /\ q.cacheSize = totalSize(p)
  BY <1>5, <1>6 DEF IndexHeader
<1>8. PICK u : u = [q EXCEPT !.reason = REASON_IDLE, !.cacheLastModifiedInternal = time]
  OBVIOUS
<1>9. IndexHeader(u) /\ u.entries = p.entries /\ u.cacheSize = totalSize(p)
  BY <1>7, <1>8 DEF IndexHeader, REASONS, REASON_IDLE
<1>10. new = [u EXCEPT !.version = INDEX_FILE_VERSION]
  BY <1>1, <1>3, <1>6, <1>8 DEF updateIndex, serializeIndex, recomputeCacheSize
<1>11. IndexHeader(new) /\ new.entries = p.entries /\ new.cacheSize = totalSize(p)
  BY <1>9, <1>10 DEF IndexHeader, MIN_INDEX_FILE_VERSION, INDEX_FILE_VERSION
<1>12. ProperIndex(new)
  BY <1>5, <1>11, IndexParts, TotalSize DEF ProperIndex
<1>13. Records(new) = Records(p) /\ listed(new) = listed(p)
  BY <1>11 DEF Records, listed
<1> QED BY <1>2, <1>4, <1>12, <1>13

\* SetToSeq lists every element of a finite set once.
LEMMA SetToSeqLists ==
  ASSUME NEW S, IsFiniteSet(S), NEW s, s = SetToSeq(S)
  PROVE  /\ s \in Seq(S)
         /\ \A i, j \in DOMAIN s : s[i] = s[j] => i = j
         /\ \A x \in S : \E i \in DOMAIN s : s[i] = x
<1>1. PICK n \in Nat : n = Cardinality(S) /\ ExistsBijection(1 .. n, S)
  BY FS_CardinalityType
<1>2. \E f \in [1 .. n -> S] : IsInjective(f)
  <2>1. PICK g : g \in Bijection(1 .. n, S)
    BY <1>1 DEF ExistsBijection
  <2> QED BY <2>1 DEF Bijection, Injection
<1>3. s \in [1 .. n -> S] /\ IsInjective(s)
  BY <1>1, <1>2 DEF SetToSeq
<1>4. s \in Injection(1 .. n, S)
  BY <1>3 DEF Injection
<1>5. Cardinality(1 .. n) = n
  BY FS_Interval
<1>6. s \in Surjection(1 .. n, S)
  BY <1>1, <1>4, <1>5, FS_Injection
<1> QED BY <1>3, <1>6 DEF IsInjective, Surjection

\* Every record of Chromium's index is about another file, and has its size.
LEMMA ChromiumRecords ==
  ASSUME NEW files \in [Hashes -> FileContents], NEW hashes \in SUBSET Hashes,
         NEW hint \in 0..3, NEW scanned \in BOOLEAN,
         NEW new, new = chromiumIndex(files, hashes, hint, scanned)
  PROVE  /\ ProperIndex(new)
         /\ \A r \in Records(new) : files[r.hash] \in EntryFiles => Describes(r, files[r.hash], 0)
         /\ listed(new) = hashes
<1> DEFINE size(h) == IF scanned THEN sizeScanned(h, files[h]) ELSE sizeInUse(h, files[h])
<1>1. PICK list : list = SetToSeq(hashes)
  OBVIOUS
<1>2. /\ list \in Seq(hashes)
      /\ \A i, j \in DOMAIN list : list[i] = list[j] => i = j
      /\ \A x \in hashes : \E i \in DOMAIN list : list[i] = x
  <2>1. IsFiniteSet(hashes)
    BY DirectoryAssumption, FS_Subset DEF DirectoryAssumption
  <2> QED BY <1>1, <2>1, SetToSeqLists
<1>3. DOMAIN list = 1 .. Len(list) /\ Len(list) \in Nat /\ \A i \in DOMAIN list : list[i] \in Hashes
  BY <1>2
<1>4. PICK s : s = [i \in DOMAIN list |->
                      [hash |-> list[i], lastUsedInternal |-> 0,
                       entrySizeChunks |-> size(list[i]), inMemoryData |-> hint]]
  OBVIOUS
<1>5. PICK p : p = [version |-> MIN_INDEX_FILE_VERSION, reason |-> 0, cacheSize |-> 0,
                    cacheLastModifiedInternal |-> 0, entries |-> s]
  OBVIOUS
<1>6. new = [p EXCEPT !.cacheSize = totalSize(p)]
  BY <1>1, <1>4, <1>5 DEF chromiumIndex, recomputeCacheSize
<1>7. IndexHeader(p) /\ p.entries = s
  BY <1>5 DEF IndexHeader, REASONS, MIN_INDEX_FILE_VERSION, INDEX_FILE_VERSION
<1>8. IndexHeader(new) /\ new.entries = s /\ new.cacheSize = totalSize(p)
  BY <1>6, <1>7 DEF IndexHeader
<1>9. ASSUME NEW i \in DOMAIN list
      PROVE  /\ s[i] \in IndexEntries /\ s[i].hash = list[i]
             /\ files[list[i]] \in EntryFiles => Describes(s[i], files[list[i]], 0)
  <2>1. PICK n, h : n = size(h) /\ h = list[i]
    OBVIOUS
  <2>2. h \in Hashes /\ n \in {sizeInUse(h, files[h]), sizeScanned(h, files[h])}
    BY <1>3, <2>1
  <2>3. n \in Nat
    BY <2>2, SizesType
  <2>4. s[i] = [hash |-> h, lastUsedInternal |-> 0, entrySizeChunks |-> n, inMemoryData |-> hint]
    BY <1>4, <2>1
  <2> HIDE DEF size
  <2>5. s[i] \in IndexEntries /\ s[i].hash = h /\ s[i].lastUsedInternal = 0 /\ s[i].entrySizeChunks = n
    BY <2>2, <2>3, <2>4 DEF IndexEntries
  <2> QED BY <2>1, <2>2, <2>5 DEF Describes
<1>10. s \in Seq(IndexEntries) /\ DOMAIN s = DOMAIN list
  <2>1. DOMAIN s = DOMAIN list
    BY <1>4
  <2>2. s \in [1 .. Len(list) -> IndexEntries]
    BY <1>3, <1>4, <1>9, <2>1
  <2> QED BY <1>3, <2>1, <2>2
<1>11. ProperIndex(new)
  <2>1. \A i, j \in DOMAIN s : s[i].hash = s[j].hash => i = j
    BY <1>2, <1>9, <1>10
  <2>2. new.cacheSize = totalSize(new)
    BY <1>7, <1>8, TotalSize
  <2>3. IsIndex(new)
    BY <1>8, <1>10, <2>1, IndexParts DEF DistinctRecords
  <2> QED BY <2>2, <2>3 DEF ProperIndex
<1>12. \A r \in Records(new) : files[r.hash] \in EntryFiles => Describes(r, files[r.hash], 0)
  BY <1>8, <1>9, <1>10 DEF Records
<1>13. listed(new) = hashes
  <2>1. listed(new) = { s[i].hash : i \in DOMAIN list }
    BY <1>8, <1>10 DEF listed
  <2>2. \A i \in DOMAIN list : list[i] \in hashes
    BY <1>2
  <2> QED BY <1>2, <1>9, <2>1, <2>2
<1> QED BY <1>11, <1>12, <1>13

-------------------------------------------------------------------------------
(* Edits not yet written *)

PendingIn(s, h) == \E i \in 1 .. Len(s) : s[i].hash = h

\* s[i] is the last edit of h in s.
LastEdit(s, i, h) ==
  /\ i \in 1 .. Len(s) /\ s[i].hash = h
  /\ \A j \in 1 .. Len(s) : j > i => s[j].hash # h

LastEdits(s, h) == { s[i] : i \in { j \in 1 .. Len(s) : LastEdit(s, j, h) } }

LEMMA AppendEdits ==
  ASSUME NEW s \in Seq(Edits), NEW e \in Edits, NEW t, t = Append(s, e)
  PROVE  \A h :
           /\ PendingIn(t, h) <=> PendingIn(s, h) \/ h = e.hash
           /\ \A x \in LastEdits(t, h) : \/ h = e.hash /\ x = e
                                         \/ h # e.hash /\ x \in LastEdits(s, h)
<1> SUFFICES ASSUME NEW h
             PROVE  /\ PendingIn(t, h) <=> PendingIn(s, h) \/ h = e.hash
                    /\ \A x \in LastEdits(t, h) : \/ h = e.hash /\ x = e
                                                  \/ h # e.hash /\ x \in LastEdits(s, h)
  OBVIOUS
<1>1. /\ Len(t) = Len(s) + 1 /\ Len(s) \in Nat /\ t[Len(s) + 1] = e
      /\ \A i \in 1 .. Len(s) : t[i] = s[i]
  OBVIOUS
<1>2. \A i \in 1 .. Len(t) : i \in 1 .. Len(s) \/ i = Len(s) + 1
  BY <1>1
<1>3. Len(s) + 1 \in 1 .. Len(t) /\ \A i \in 1 .. Len(s) : i \in 1 .. Len(t) /\ i < Len(s) + 1
  BY <1>1
<1>4. PendingIn(t, h) <=> PendingIn(s, h) \/ h = e.hash
  BY <1>1, <1>2, <1>3 DEF PendingIn
<1>5. ASSUME NEW i \in 1 .. Len(t), LastEdit(t, i, h)
      PROVE  \/ h = e.hash /\ t[i] = e
             \/ h # e.hash /\ t[i] \in LastEdits(s, h)
  <2>1. CASE i = Len(s) + 1
    BY <1>1, <1>5, <2>1 DEF LastEdit
  <2>2. CASE i \in 1 .. Len(s)
    <3>1. h # e.hash
      BY <1>1, <1>3, <1>5, <2>2 DEF LastEdit
    <3>2. LastEdit(s, i, h) /\ t[i] = s[i]
      BY <1>1, <1>3, <1>5, <2>2 DEF LastEdit
    <3> QED BY <2>2, <3>1, <3>2 DEF LastEdits
  <2> QED BY <1>2, <2>1, <2>2
<1>6. \A x \in LastEdits(t, h) : \/ h = e.hash /\ x = e
                                 \/ h # e.hash /\ x \in LastEdits(s, h)
  <2> SUFFICES ASSUME NEW x \in LastEdits(t, h)
               PROVE  \/ h = e.hash /\ x = e
                      \/ h # e.hash /\ x \in LastEdits(s, h)
    OBVIOUS
  <2>1. PICK i \in 1 .. Len(t) : LastEdit(t, i, h) /\ x = t[i]
    BY DEF LastEdits
  <2> QED BY <1>5, <2>1
<1> QED BY <1>4, <1>6

LEMMA TailEdits ==
  ASSUME NEW s \in Seq(Edits), s # <<>>, NEW t, t = Tail(s)
  PROVE  /\ Head(s) \in Edits /\ PendingIn(s, Head(s).hash)
         /\ \A h :
              /\ PendingIn(t, h) => PendingIn(s, h)
              /\ PendingIn(s, h) /\ ~PendingIn(t, h) =>
                   h = Head(s).hash /\ Head(s) \in LastEdits(s, h)
              /\ LastEdits(t, h) \subseteq LastEdits(s, h)
<1> SUFFICES ASSUME NEW h
             PROVE  /\ Head(s) \in Edits /\ PendingIn(s, Head(s).hash)
                    /\ PendingIn(t, h) => PendingIn(s, h)
                    /\ PendingIn(s, h) /\ ~PendingIn(t, h) =>
                         h = Head(s).hash /\ Head(s) \in LastEdits(s, h)
                    /\ LastEdits(t, h) \subseteq LastEdits(s, h)
  OBVIOUS
<1>1. /\ Len(s) = Len(t) + 1 /\ Len(t) \in Nat /\ s[1] = Head(s) /\ Head(s) \in Edits
      /\ \A i \in 1 .. Len(t) : t[i] = s[i + 1]
  OBVIOUS
<1>2. \A i \in 1 .. Len(t) : i + 1 \in 1 .. Len(s)
  BY <1>1
<1>3. \A i \in 1 .. Len(s) : i = 1 \/ (i - 1 \in 1 .. Len(t) /\ t[i - 1] = s[i])
  BY <1>1
<1>4. 1 \in 1 .. Len(s)
  BY <1>1
<1>5. PendingIn(s, Head(s).hash) /\ (PendingIn(t, h) => PendingIn(s, h))
  BY <1>1, <1>2, <1>4 DEF PendingIn
<1>6. ASSUME PendingIn(s, h), ~PendingIn(t, h)
      PROVE  h = Head(s).hash /\ Head(s) \in LastEdits(s, h)
  <2>1. \A i \in 1 .. Len(s) : i # 1 => s[i].hash # h
    BY <1>3, <1>6 DEF PendingIn
  <2>2. s[1].hash = h
    BY <1>6, <2>1 DEF PendingIn
  <2>3. \A j \in 1 .. Len(s) : j > 1 => s[j].hash # h
    BY <2>1
  <2>4. LastEdit(s, 1, h)
    BY <1>4, <2>2, <2>3 DEF LastEdit
  <2> QED BY <1>1, <1>4, <2>2, <2>4 DEF LastEdits
<1>7. ASSUME NEW i \in 1 .. Len(t), LastEdit(t, i, h)
      PROVE  t[i] \in LastEdits(s, h)
  <2>1. i \in 1 .. Len(t) /\ t[i].hash = h /\ \A j \in 1 .. Len(t) : j > i => t[j].hash # h
    BY <1>7 DEF LastEdit
  <2>2. i + 1 \in 1 .. Len(s) /\ t[i] = s[i + 1]
    BY <1>1, <1>2, <2>1
  <2>3. ASSUME NEW j \in 1 .. Len(s), j > i + 1 PROVE s[j].hash # h
    <3>1. j - 1 \in 1 .. Len(t) /\ t[j - 1] = s[j] /\ j - 1 > i
      BY <1>3, <2>1, <2>3
    <3> QED BY <2>1, <3>1
  <2>4. LastEdit(s, i + 1, h)
    BY <2>1, <2>2, <2>3 DEF LastEdit
  <2> QED BY <2>2, <2>4 DEF LastEdits
<1>8. LastEdits(t, h) \subseteq LastEdits(s, h)
  BY <1>7 DEF LastEdits
<1> QED BY <1>1, <1>5, <1>6, <1>8

-------------------------------------------------------------------------------
(* What an index says of the files f, edited last at the times at, when its holder has
   the edits s to write and others have written the files in stale. *)

Accounts(idx, s, stale, f, at) ==
  \A r \in Records(idx) :
    /\ \A x \in LastEdits(s, r.hash) : Describes(r, x.entryFile, x.time)
    /\ ~PendingIn(s, r.hash) /\ r.hash \notin stale /\ f[r.hash] \in EntryFiles =>
         Describes(r, f[r.hash], at[r.hash])

\* A caller that is not idle accounts for the files, and has listed what it edited; what
\* it holds comes from files that exist, under the hash of their key.
CallerOK(p, idx, l, s, stale, f, at) ==
  /\ p = "idle" => idx = None /\ s = <<>> /\ l \notin EntryFiles
  /\ p # "idle" => ProperIndex(idx) /\ Accounts(idx, s, stale, f, at)
  /\ p # "idle" => \A h : PendingIn(s, h) => h \in listed(idx)
  /\ l \in EntryFiles => f[EntryHash(l.key)] # Missing
  /\ \A h : PendingIn(s, h) => f[h] # Missing
  /\ \A i \in 1 .. Len(s) : EntryHash(s[i].entryFile.key) = s[i].hash

DiskOK(idx, stale, f, at) ==
  idx # Malformed => ProperIndex(idx) /\ Accounts(idx, <<>>, stale, f, at)

KeyedFiles(f) == \A h \in Hashes : f[h] \in EntryFiles => EntryHash(f[h].key) = h

\* Some index lists h because its file is there, not because its holder will write it.
Lists(h) ==
  \/ indexFile # Malformed /\ h \in listed(indexFile)
  \/ \E c \in Callers : pc[c] # "idle" /\ h \in listed(index[c]) /\ ~PendingIn(results[c], h)

\* Every index that is not behind on h lists it.
AllList(h) ==
  /\ indexFile # Malformed /\ h \notin torn => h \in listed(indexFile)
  /\ \A c \in Callers : pc[c] # "idle" /\ h \notin behind[c] => h \in listed(index[c])

IndexesAgree == \A h \in Hashes : file[h] # Missing /\ Lists(h) => AllList(h)

CallersOK ==
  \A c \in Callers :
    CallerOK(pc[c], index[c], loaded[c], results[c], behind[c], file, editedAt)

AccountsInv ==
  /\ DOMAIN index = Callers
  /\ DiskOK(indexFile, torn, file, editedAt)
  /\ KeyedFiles(file)
  /\ CallersOK
  /\ IndexesAgree

LEMMA RecordHashes ==
  ASSUME NEW idx, ProperIndex(idx)
  PROVE  \A r \in Records(idx) : r.hash \in Hashes
<1>1. idx.entries \in Seq(IndexEntries)
  BY IndexParts DEF ProperIndex, DistinctRecords
<1>2. \A i \in DOMAIN idx.entries : idx.entries[i] \in IndexEntries
  BY <1>1
<1> QED BY <1>2 DEF Records, IndexEntries

LEMMA NothingPending == \A h : ~PendingIn(<<>>, h) /\ LastEdits(<<>>, h) = {}
  BY DEF PendingIn, LastEdits

\* Somebody else writes h, or dies in it.
LEMMA AccountsOutdated ==
  ASSUME NEW idx, ProperIndex(idx), NEW s, NEW stale, NEW f, NEW at,
         Accounts(idx, s, stale, f, at),
         NEW h \in Hashes, NEW stale2, h \in stale2, stale \subseteq stale2, NEW f2, NEW at2,
         \A k \in Hashes : k # h => f2[k] = f[k] /\ at2[k] = at[k]
  PROVE  Accounts(idx, s, stale2, f2, at2)
<1> SUFFICES ASSUME NEW r \in Records(idx)
             PROVE  /\ \A x \in LastEdits(s, r.hash) : Describes(r, x.entryFile, x.time)
                    /\ ~PendingIn(s, r.hash) /\ r.hash \notin stale2 /\ f2[r.hash] \in EntryFiles =>
                         Describes(r, f2[r.hash], at2[r.hash])
  BY DEF Accounts
<1>1. r.hash \in Hashes
  BY RecordHashes
<1> QED BY <1>1 DEF Accounts

LEMMA CallerOutdated ==
  ASSUME NEW p, NEW idx, NEW l, NEW s \in Seq(Edits), NEW stale, NEW f, NEW at,
         CallerOK(p, idx, l, s, stale, f, at),
         NEW h \in Hashes, NEW stale2, h \in stale2, stale \subseteq stale2, NEW f2, NEW at2,
         \A k \in Hashes : k # h => f2[k] = f[k] /\ at2[k] = at[k], f2[h] # Missing
  PROVE  CallerOK(p, idx, l, s, stale2, f2, at2)
<1>1. p # "idle" => ProperIndex(idx) /\ Accounts(idx, s, stale2, f2, at2)
  BY AccountsOutdated DEF CallerOK
<1>2. l \in EntryFiles => f2[EntryHash(l.key)] # Missing
  <2>1. l \in EntryFiles => EntryHash(l.key) \in Hashes
    BY DirectoryAssumption DEF DirectoryAssumption, EntryFiles
  <2> QED BY <2>1 DEF CallerOK
<1>3. \A k : PendingIn(s, k) => k \in Hashes
  <2>1. \A i \in 1 .. Len(s) : s[i] \in Edits
    OBVIOUS
  <2> QED BY <2>1 DEF PendingIn, Edits
<1>4. \A k : PendingIn(s, k) => f2[k] # Missing
  BY <1>3 DEF CallerOK
<1> QED BY <1>1, <1>2, <1>4 DEF CallerOK

\* modify() adds an edit and a record that describes it.
LEMMA AccountsModify ==
  ASSUME NEW idx, NEW s \in Seq(Edits), NEW stale, NEW f, NEW at,
         Accounts(idx, s, stale, f, at),
         NEW edit \in Edits, NEW t, t = Append(s, edit), NEW new,
         \A r \in Records(new) :
           \/ r.hash = edit.hash /\ Describes(r, edit.entryFile, edit.time)
           \/ r.hash # edit.hash /\ r \in Records(idx)
  PROVE  Accounts(new, t, stale, f, at)
<1> SUFFICES ASSUME NEW r \in Records(new)
             PROVE  /\ \A x \in LastEdits(t, r.hash) : Describes(r, x.entryFile, x.time)
                    /\ ~PendingIn(t, r.hash) /\ r.hash \notin stale /\ f[r.hash] \in EntryFiles =>
                         Describes(r, f[r.hash], at[r.hash])
  BY DEF Accounts
<1>1. /\ PendingIn(t, r.hash) <=> PendingIn(s, r.hash) \/ r.hash = edit.hash
      /\ \A x \in LastEdits(t, r.hash) : \/ r.hash = edit.hash /\ x = edit
                                         \/ r.hash # edit.hash /\ x \in LastEdits(s, r.hash)
  BY AppendEdits
<1>2. CASE r.hash = edit.hash
  BY <1>1, <1>2
<1>3. CASE r.hash # edit.hash
  BY <1>1, <1>3 DEF Accounts
<1> QED BY <1>2, <1>3

\* Writing its oldest edit, a caller is no longer ahead of that file, or behind on it.
LEMMA AccountsWrite ==
  ASSUME NEW idx, ProperIndex(idx), NEW s \in Seq(Edits), s # <<>>, NEW stale,
         NEW f \in [Hashes -> FileContents], NEW at \in [Hashes -> Nat],
         Accounts(idx, s, stale, f, at),
         NEW t, t = Tail(s), NEW h, h = Head(s).hash, NEW f2, NEW at2,
         f2 = [f EXCEPT ![h] = Head(s).entryFile], at2 = [at EXCEPT ![h] = Head(s).time]
  PROVE  Accounts(idx, t, stale \ {h}, f2, at2)
<1> SUFFICES ASSUME NEW r \in Records(idx)
             PROVE  /\ \A x \in LastEdits(t, r.hash) : Describes(r, x.entryFile, x.time)
                    /\ ~PendingIn(t, r.hash) /\ r.hash \notin stale \ {h} /\ f2[r.hash] \in EntryFiles =>
                         Describes(r, f2[r.hash], at2[r.hash])
  BY DEF Accounts
<1>1. /\ Head(s) \in Edits /\ PendingIn(s, h)
      /\ PendingIn(s, r.hash) /\ ~PendingIn(t, r.hash) =>
           r.hash = h /\ Head(s) \in LastEdits(s, r.hash)
      /\ LastEdits(t, r.hash) \subseteq LastEdits(s, r.hash)
  BY TailEdits
<1>2. r.hash \in Hashes
  BY RecordHashes
<1>3. \A x \in LastEdits(t, r.hash) : Describes(r, x.entryFile, x.time)
  BY <1>1 DEF Accounts
<1>4. ASSUME ~PendingIn(t, r.hash), r.hash \notin stale \ {h}, f2[r.hash] \in EntryFiles
      PROVE  Describes(r, f2[r.hash], at2[r.hash])
  <2>1. CASE r.hash = h
    <3>1. Describes(r, Head(s).entryFile, Head(s).time)
      BY <1>1, <1>4, <2>1 DEF Accounts
    <3> QED BY <1>2, <2>1, <3>1
  <2>2. CASE r.hash # h
    BY <1>1, <1>2, <1>4, <2>2 DEF Accounts
  <2> QED BY <2>1, <2>2
<1> QED BY <1>3, <1>4

-------------------------------------------------------------------------------
(* The steps *)

\* An index the whole directory was listed for, before anything is edited.
LEMMA ChromiumAccounts ==
  ASSUME NEW f \in [Hashes -> FileContents], NEW hashes \in SUBSET Hashes, NEW hint \in 0..3,
         NEW scanned \in BOOLEAN, NEW idx, idx = chromiumIndex(f, hashes, hint, scanned), NEW at, \A h \in Hashes : at[h] = 0
  PROVE  ProperIndex(idx) /\ Accounts(idx, <<>>, {}, f, at)
<1>1. /\ ProperIndex(idx)
      /\ \A r \in Records(idx) : f[r.hash] \in EntryFiles => Describes(r, f[r.hash], 0)
  BY ChromiumRecords
<1>2. \A r \in Records(idx) : r.hash \in Hashes
  BY <1>1, RecordHashes
<1> QED BY <1>1, <1>2, NothingPending DEF Accounts

LEMMA InitAccountsInv == Init => AccountsInv
<1> SUFFICES ASSUME Init PROVE AccountsInv
  OBVIOUS
<1>1. /\ file \in InitialFiles /\ torn = {} /\ editedAt = [h \in Hashes |-> 0]
      /\ index = [c \in Callers |-> None]
  BY DEF Init
<1>2. \A c \in Callers : pc[c] = "idle" /\ loaded[c] = None /\ results[c] = <<>>
  BY DEF Init
<1>3. file \in [Hashes -> FileContents] /\ KeyedFiles(file)
  BY <1>1, DirectoryAssumption DEF DirectoryAssumption, KeyedFiles
<1>4. PICK hint \in InitialHints : indexFile = chromiumIndex(file, InitialListing, hint, FALSE)
  BY DEF Init
<1>5. DiskOK(indexFile, torn, file, editedAt)
  <2>1. hint \in 0..3 /\ InitialListing \in SUBSET Hashes
    BY DirectoryAssumption DEF DirectoryAssumption
  <2>2. \A h \in Hashes : editedAt[h] = 0
    BY <1>1
  <2>3. PICK f, idx, at : f = file /\ idx = indexFile /\ at = editedAt
    OBVIOUS
  <2>4. ProperIndex(idx) /\ Accounts(idx, <<>>, {}, f, at)
    BY FALSE \in BOOLEAN, <1>3, <1>4, <2>1, <2>2, <2>3, ChromiumAccounts
  <2> QED BY <1>1, <2>3, <2>4 DEF DiskOK
<1>6. CallersOK
  <2>1. None \notin EntryFiles
    BY DirectoryAssumption DEF DirectoryAssumption
  <2>2. \A c \in Callers : index[c] = None
    BY <1>1
  <2> QED BY <1>2, <2>1, <2>2, NothingPending DEF CallersOK, CallerOK
<1>7. IndexesAgree
  BY <1>1, <1>2 DEF IndexesAgree, Lists, AllList
<1> QED BY <1>1, <1>3, <1>5, <1>6, <1>7 DEF AccountsInv

\* A caller forgets: the others and the disk stay as they are.
LEMMA ForgetAccounts ==
  ASSUME FilesTyped, AccountsInv, NEW c \in Callers, Forget(c)
  PROVE  /\ DOMAIN index' = Callers
         /\ pc'[c] = "idle" /\ index'[c] = None /\ results'[c] = <<>> /\ loaded'[c] \notin EntryFiles
         /\ \A d \in Callers : d # c =>
              UNCHANGED <<pc[d], index[d], loaded[d], results[d]>>
  BY DirectoryAssumption DEF DirectoryAssumption, Forget, AccountsInv, FilesTyped

LEMMA IdleOK ==
  ASSUME NEW p, NEW idx, NEW l, NEW s, NEW stale, NEW f, NEW at,
         p = "idle", idx = None, s = <<>>, l \notin EntryFiles
  PROVE  CallerOK(p, idx, l, s, stale, f, at)
  BY NothingPending DEF CallerOK

LEMMA ReadIndexAccounts ==
  ASSUME FilesTyped, AccountsInv, NEW c \in Callers, ReadIndex(c)
  PROVE  AccountsInv'
<1>1. /\ pc[c] = "idle" /\ indexFile # Malformed
      /\ pc'[c] = "editing" /\ index'[c] = indexFile /\ behind'[c] = torn
      /\ UNCHANGED <<indexFile, file, loaded, results, editedAt, torn>>
      /\ DOMAIN index' = Callers
      /\ \A d \in Callers : d # c => UNCHANGED <<pc[d], index[d], behind[d]>>
  BY DEF ReadIndex, FilesTyped, AccountsInv
<1>2. results[c] = <<>> /\ loaded[c] \notin EntryFiles
  BY <1>1 DEF AccountsInv, CallersOK, CallerOK
<1>3. CallersOK'
  <2>1. CallerOK("editing", indexFile, loaded[c], <<>>, torn, file, editedAt)
    BY <1>1, <1>2, NothingPending DEF AccountsInv, DiskOK, CallerOK
  <2> QED BY <1>1, <1>2, <2>1 DEF AccountsInv, CallersOK
<1>4. IndexesAgree'
  <2>1. \A h : Lists(h)' => Lists(h)
    BY <1>1 DEF Lists
  <2> QED BY <1>1, <2>1 DEF AccountsInv, IndexesAgree, AllList
<1> QED BY <1>1, <1>3, <1>4 DEF AccountsInv

LEMMA ReadEntryAccounts ==
  ASSUME FilesTyped, AccountsInv, NEW c \in Callers, NEW h \in Hashes, ReadEntry(c, h)
  PROVE  AccountsInv'
<1>1. /\ pc[c] = "editing" /\ file[h] # Missing /\ loaded'[c] = file[h]
      /\ UNCHANGED <<indexFile, file, pc, index, results, behind, torn, editedAt>>
      /\ \A d \in Callers : d # c => UNCHANGED loaded[d]
  BY DEF ReadEntry, history, FilesTyped
<1>2. CallersOK'
  <2>1. CallerOK(pc[c], index[c], loaded[c], results[c], behind[c], file, editedAt)
    BY DEF AccountsInv, CallersOK
  <2>2. CallerOK(pc[c], index[c], file[h], results[c], behind[c], file, editedAt)
    BY <1>1, <2>1 DEF AccountsInv, KeyedFiles, CallerOK
  <2> QED BY <1>1, <2>2 DEF AccountsInv, CallersOK
<1>3. IndexesAgree'
  BY <1>1 DEF AccountsInv, IndexesAgree, Lists, AllList
<1> QED BY <1>1, <1>2, <1>3 DEF AccountsInv

LEMMA ModifyAccounts ==
  ASSUME DirectoryInv, AccountsInv, NEW c \in Callers, NEW b \in Bodies, NEW auto \in BOOLEAN,
         Modify(c, b, auto)
  PROVE  AccountsInv'
<1>1. PICK e : e = loaded[c]
  OBVIOUS
<1>2. PICK newBody : newBody = IF auto THEN b ELSE encode(b, contentEncoding(e.stream0))
  OBVIOUS
<1>3. PICK new : new = modifyEntryBody(e, newBody, auto)
  OBVIOUS
<1>4. e \in EntryFiles /\ new \in EntryFiles /\ new.key = e.key
  <2>1. e \in EntryFiles
    BY <1>1 DEF Modify
  <2> QED BY <1>2, <1>3, <2>1, ModifySound
<1>5. PICK edit : edit = [hash |-> EntryHash(new.key), entryFile |-> new, body |-> b, time |-> clock]
  OBVIOUS
<1>6. /\ edit \in Edits /\ edit.hash = EntryHash(e.key) /\ edit.entryFile = new
      /\ edit.time = clock /\ edit.hash \in Hashes
  <2>1. EntryHash(e.key) \in Hashes
    BY <1>4, DirectoryAssumption DEF DirectoryAssumption, EntryFiles
  <2> QED BY <1>4, <1>5, <2>1 DEF Edits, DirectoryInv, FilesTyped
<1>7. PICK s, t, idx, idx2 : /\ s = results[c] /\ t = Append(s, edit)
                             /\ idx = index[c] /\ idx2 = updateIndex(idx, new, clock)
  OBVIOUS
<1>8. /\ results' = [results EXCEPT ![c] = t] /\ index' = [index EXCEPT ![c] = idx2]
      /\ loaded' = [loaded EXCEPT ![c] = None]
      /\ UNCHANGED <<indexFile, file, clock, pc, behind, torn, editedAt>>
  BY <1>1, <1>2, <1>3, <1>5, <1>7 DEF Modify, history
<1>9. /\ results'[c] = t /\ index'[c] = idx2 /\ loaded'[c] = None /\ DOMAIN index' = Callers
      /\ \A d \in Callers : d # c => UNCHANGED <<results[d], index[d], loaded[d]>>
  BY <1>8 DEF AccountsInv, DirectoryInv, FilesTyped
<1>10. s \in Seq(Edits) /\ CallerOK(pc[c], idx, e, s, behind[c], file, editedAt)
  BY <1>1, <1>7 DEF AccountsInv, CallersOK, DirectoryInv, FilesTyped
<1>11. pc[c] # "idle"
  BY <1>4, <1>10 DEF CallerOK
<1>12. /\ ProperIndex(idx2)
       /\ \A r \in Records(idx2) : \/ r.hash = edit.hash /\ Describes(r, edit.entryFile, edit.time)
                                   \/ r.hash # edit.hash /\ r \in Records(idx)
       /\ listed(idx2) = listed(idx) \cup {edit.hash}
  <2>1. IsIndex(idx) /\ clock \in Nat \ {0}
    BY <1>10, <1>11 DEF CallerOK, ProperIndex, DirectoryInv, FilesTyped
  <2>2. /\ ProperIndex(idx2)
        /\ \A r \in Records(idx2) : \/ r.hash = EntryHash(new.key) /\ Describes(r, new, clock)
                                    \/ r.hash # EntryHash(new.key) /\ r \in Records(idx)
        /\ listed(idx2) = listed(idx) \cup {EntryHash(new.key)}
    BY <1>4, <1>7, <2>1, UpdateRecords
  <2> QED BY <1>4, <1>6, <2>2
<1>13. \A h : PendingIn(t, h) <=> PendingIn(s, h) \/ h = edit.hash
  BY <1>6, <1>7, <1>10, AppendEdits
<1>14. CallersOK'
  <2>1. CallerOK(pc[c], idx2, None, t, behind[c], file, editedAt)
    <3>1. Accounts(idx2, t, behind[c], file, editedAt)
      <4>1. Accounts(idx, s, behind[c], file, editedAt)
        BY <1>10, <1>11 DEF CallerOK
      <4>2. PICK stale, f, at : stale = behind[c] /\ f = file /\ at = editedAt
        OBVIOUS
      <4>3. Accounts(idx, s, stale, f, at)
        BY <4>1, <4>2
      <4>4. Accounts(idx2, t, stale, f, at)
        BY <1>6, <1>7, <1>10, <1>12, <4>3, AccountsModify
      <4> QED BY <4>2, <4>4
    <3>2. \A h : PendingIn(t, h) => h \in listed(idx2)
      BY <1>10, <1>11, <1>12, <1>13 DEF CallerOK
    <3>3. \A h : PendingIn(t, h) => file[h] # Missing
      BY <1>4, <1>6, <1>10, <1>13 DEF CallerOK
    <3>4. \A i \in 1 .. Len(t) : EntryHash(t[i].entryFile.key) = t[i].hash
      <4>1. \A i \in 1 .. Len(t) : (i \in 1 .. Len(s) /\ t[i] = s[i]) \/ t[i] = edit
        BY <1>6, <1>7, <1>10
      <4> QED BY <1>4, <1>6, <1>10, <4>1 DEF CallerOK
    <3>5. None \notin EntryFiles
      BY DirectoryAssumption DEF DirectoryAssumption
    <3> QED BY <1>11, <1>12, <3>1, <3>2, <3>3, <3>4, <3>5 DEF CallerOK
  <2> QED BY <1>8, <1>9, <2>1 DEF AccountsInv, CallersOK
<1>15. IndexesAgree'
  <2>1. ASSUME NEW h \in Hashes, Lists(h)' PROVE Lists(h)
    <3>1. CASE indexFile # Malformed /\ h \in listed(indexFile)
      BY <3>1 DEF Lists
    <3>2. ASSUME NEW d \in Callers, pc[d] # "idle", h \in listed(index'[d]), ~PendingIn(results'[d], h)
          PROVE  Lists(h)
      <4>1. CASE d = c
        BY <1>7, <1>9, <1>12, <1>13, <3>2, <4>1 DEF Lists
      <4>2. CASE d # c
        BY <1>9, <3>2, <4>2 DEF Lists
      <4> QED BY <4>1, <4>2
    <3> QED BY <1>8, <2>1, <3>1, <3>2 DEF Lists
  <2>2. \A d \in Callers : listed(index[d]) \subseteq listed(index'[d])
    BY <1>7, <1>9, <1>12
  <2> QED BY <1>8, <2>1, <2>2 DEF AccountsInv, IndexesAgree, AllList
<1> QED BY <1>8, <1>9, <1>14, <1>15 DEF AccountsInv

\* Everyone but c, and the disk's index, fall behind on h.
LEMMA OutdateAccounts ==
  ASSUME FilesTyped, AccountsInv, NEW c \in Callers, NEW h \in Hashes, Outdate(c, h),
         file'[h] # Missing,
         \A k \in Hashes : k # h => file'[k] = file[k] /\ editedAt'[k] = editedAt[k]
  PROVE  /\ DiskOK(indexFile, torn', file', editedAt')
         /\ \A d \in Callers : d # c =>
              /\ CallerOK(pc[d], index[d], loaded[d], results[d], behind'[d], file', editedAt')
              /\ behind'[d] = behind[d] \cup {h}
         /\ behind'[c] = behind[c] \ {h}
<1>1. torn' = torn \cup {h} /\ behind'[c] = behind[c] \ {h}
      /\ \A d \in Callers : d # c => behind'[d] = behind[d] \cup {h}
  BY DEF Outdate
<1>2. PICK f, at, f2, at2, stale2 : /\ f = file /\ at = editedAt /\ f2 = file' /\ at2 = editedAt'
                                    /\ stale2 = torn'
  OBVIOUS
<1>3. DiskOK(indexFile, stale2, f2, at2)
  <2>1. SUFFICES ASSUME indexFile # Malformed
                 PROVE  ProperIndex(indexFile) /\ Accounts(indexFile, <<>>, stale2, f2, at2)
    BY DEF DiskOK
  <2>2. PICK idx : idx = indexFile
    OBVIOUS
  <2>3. ProperIndex(idx) /\ Accounts(idx, <<>>, torn, f, at)
    BY <1>2, <2>1, <2>2 DEF AccountsInv, DiskOK
  <2>4. h \in stale2 /\ torn \subseteq stale2 /\ f2[h] # Missing
        /\ \A k \in Hashes : k # h => f2[k] = f[k] /\ at2[k] = at[k]
    BY <1>1, <1>2
  <2>5. PICK stale : stale = torn
    OBVIOUS
  <2>6. Accounts(idx, <<>>, stale2, f2, at2)
    BY <2>3, <2>4, <2>5, AccountsOutdated
  <2> QED BY <2>2, <2>3, <2>6
<1>4. ASSUME NEW d \in Callers, d # c
      PROVE  CallerOK(pc[d], index[d], loaded[d], results[d], behind'[d], file', editedAt')
  <2>1. PICK p, idx, l, s, stale, new : /\ p = pc[d] /\ idx = index[d] /\ l = loaded[d]
                                        /\ s = results[d] /\ stale = behind[d] /\ new = behind'[d]
    OBVIOUS
  <2>2. CallerOK(p, idx, l, s, stale, f, at) /\ s \in Seq(Edits)
    BY <1>2, <2>1 DEF AccountsInv, CallersOK, FilesTyped
  <2>3. h \in new /\ stale \subseteq new
    BY <1>1, <1>4, <2>1
  <2>4. f2[h] # Missing /\ \A k \in Hashes : k # h => f2[k] = f[k] /\ at2[k] = at[k]
    BY <1>2
  <2>5. CallerOK(p, idx, l, s, new, f2, at2)
    BY <2>2, <2>3, <2>4, CallerOutdated
  <2> QED BY <1>2, <2>1, <2>5
<1> QED BY <1>1, <1>2, <1>3, <1>4

\* The hash being written is one the caller has listed, of a file that exists.
LEMMA HeadAccounts ==
  ASSUME FilesTyped, AccountsInv, NEW c \in Callers, results[c] # <<>>
  PROVE  /\ pc[c] # "idle" /\ Head(results[c]) \in Edits
         /\ PendingIn(results[c], Head(results[c]).hash)
         /\ Head(results[c]).hash \in listed(index[c])
         /\ file[Head(results[c]).hash] # Missing
         /\ EntryHash(Head(results[c]).entryFile.key) = Head(results[c]).hash
         /\ Head(results[c]).hash \in Hashes /\ Head(results[c]).entryFile \in EntryFiles
<1>1. PICK s, k, r : s = results[c] /\ r = Head(s) /\ k = r.hash
  OBVIOUS
<1>2. CallerOK(pc[c], index[c], loaded[c], s, behind[c], file, editedAt) /\ s \in Seq(Edits) /\ s # <<>>
  BY <1>1 DEF AccountsInv, CallersOK, FilesTyped
<1>3. r \in Edits /\ PendingIn(s, k)
  BY <1>1, <1>2, TailEdits
<1>4. r = s[1] /\ 1 \in 1 .. Len(s)
  BY <1>1, <1>2
<1>5. pc[c] # "idle" /\ k \in listed(index[c]) /\ file[k] # Missing /\ EntryHash(r.entryFile.key) = r.hash
  BY <1>2, <1>3, <1>4 DEF CallerOK
<1> QED BY <1>1, <1>3, <1>5 DEF Edits

LEMMA WriteEntryAccounts ==
  ASSUME FilesTyped, AccountsInv, NEW c \in Callers, WriteEntry(c)
  PROVE  AccountsInv'
<1>1. PICK s, r, h, t : s = results[c] /\ r = Head(s) /\ h = r.hash /\ t = Tail(s)
  OBVIOUS
<1>2. /\ s # <<>> /\ loaded[c] = None
      /\ file' = [file EXCEPT ![h] = r.entryFile]
      /\ editedAt' = [editedAt EXCEPT ![h] = r.time]
      /\ Outdate(c, h)
      /\ results' = [results EXCEPT ![c] = t]
      /\ pc' = [pc EXCEPT ![c] = "writing"]
      /\ UNCHANGED <<indexFile, index, loaded>>
  BY <1>1 DEF WriteEntry, EntryToWrite
<1>3. /\ pc[c] # "idle" /\ r \in Edits /\ PendingIn(s, h) /\ h \in listed(index[c])
      /\ file[h] # Missing /\ EntryHash(r.entryFile.key) = h /\ h \in Hashes
      /\ r.entryFile \in EntryFiles
  BY <1>1, <1>2, HeadAccounts
<1>4. /\ file'[h] = r.entryFile /\ r.entryFile # Missing
      /\ \A k \in Hashes : k # h => file'[k] = file[k] /\ editedAt'[k] = editedAt[k]
  BY <1>2, <1>3, DirectoryAssumption DEF DirectoryAssumption, FilesTyped
<1>5. /\ DiskOK(indexFile, torn', file', editedAt')
      /\ \A d \in Callers : d # c =>
           /\ CallerOK(pc[d], index[d], loaded[d], results[d], behind'[d], file', editedAt')
           /\ behind'[d] = behind[d] \cup {h}
      /\ behind'[c] = behind[c] \ {h}
  BY <1>2, <1>3, <1>4, OutdateAccounts
<1>6. /\ pc'[c] = "writing" /\ results'[c] = t
      /\ \A d \in Callers : d # c => UNCHANGED <<pc[d], results[d]>>
  BY <1>2 DEF FilesTyped
<1>7. KeyedFiles(file')
  BY <1>3, <1>4 DEF AccountsInv, KeyedFiles
<1>8. s \in Seq(Edits) /\ CallerOK(pc[c], index[c], loaded[c], s, behind[c], file, editedAt)
  BY <1>1 DEF AccountsInv, CallersOK, FilesTyped
<1>9. \A k : /\ PendingIn(t, k) => PendingIn(s, k)
             /\ PendingIn(s, k) /\ ~PendingIn(t, k) => k = h
  BY <1>1, <1>2, <1>8, TailEdits
<1>10. CallersOK'
  <2>1. CallerOK("writing", index[c], None, t, behind[c] \ {h}, file', editedAt')
    <3>1. Accounts(index[c], t, behind[c] \ {h}, file', editedAt')
      <4>1. PICK idx, stale, f, at, f2, at2 :
              /\ idx = index[c] /\ stale = behind[c] /\ f = file /\ at = editedAt
              /\ f2 = file' /\ at2 = editedAt'
        OBVIOUS
      <4>2. /\ ProperIndex(idx) /\ Accounts(idx, s, stale, f, at)
            /\ f \in [Hashes -> FileContents] /\ at \in [Hashes -> Nat]
        BY <1>3, <1>8, <4>1 DEF CallerOK, FilesTyped
      <4>3. f2 = [f EXCEPT ![h] = Head(s).entryFile] /\ at2 = [at EXCEPT ![h] = Head(s).time]
        BY <1>1, <1>2, <4>1
      <4>4. h = Head(s).hash
        BY <1>1
      <4>5. Accounts(idx, t, stale \ {h}, f2, at2)
        BY <1>1, <1>2, <1>8, <4>2, <4>3, <4>4, AccountsWrite
      <4> QED BY <4>1, <4>5
    <3>2. \A k : PendingIn(t, k) => k \in listed(index[c])
      BY <1>3, <1>8, <1>9 DEF CallerOK
    <3>3. \A k : PendingIn(t, k) => file'[k] # Missing
      <4>1. \A k : PendingIn(t, k) => k \in Hashes
        <5>1. \A i \in 1 .. Len(t) : t[i] \in Edits
          BY <1>1, <1>2, <1>8
        <5> QED BY <5>1 DEF PendingIn, Edits
      <4>2. \A k : PendingIn(t, k) => file[k] # Missing
        BY <1>8, <1>9 DEF CallerOK
      <4> QED BY <1>4, <4>1, <4>2
    <3>4. \A i \in 1 .. Len(t) : EntryHash(t[i].entryFile.key) = t[i].hash
      <4>1. \A i \in 1 .. Len(t) : i + 1 \in 1 .. Len(s) /\ t[i] = s[i + 1]
        BY <1>1, <1>2, <1>8
      <4>2. \A i \in 1 .. Len(s) : EntryHash(s[i].entryFile.key) = s[i].hash
        BY <1>8 DEF CallerOK
      <4> QED BY <4>1, <4>2
    <3>5. None \notin EntryFiles
      BY DirectoryAssumption DEF DirectoryAssumption
    <3> QED BY <1>3, <1>8, <3>1, <3>2, <3>3, <3>4, <3>5 DEF CallerOK
  <2>2. ASSUME NEW d \in Callers
        PROVE  CallerOK(pc'[d], index'[d], loaded'[d], results'[d], behind'[d], file', editedAt')
    <3>1. CASE d = c
      BY <1>2, <1>5, <1>6, <2>1, <3>1
    <3>2. CASE d # c
      BY <1>2, <1>5, <1>6, <3>2
    <3> QED BY <3>1, <3>2
  <2> QED BY <2>2 DEF CallersOK
<1>11. IndexesAgree'
  <2>1. SUFFICES ASSUME NEW k \in Hashes, file'[k] # Missing, Lists(k)'
                 PROVE  AllList(k)'
    BY DEF IndexesAgree
  <2>2. torn' = torn \cup {h}
    BY <1>2 DEF Outdate
  <2>3. CASE k = h
    <3>1. k \in torn' /\ k \in listed(index[c]) /\ \A d \in Callers : d # c => k \in behind'[d]
      BY <1>3, <1>5, <2>2, <2>3
    <3> QED BY <1>2, <3>1 DEF AllList
  <2>4. CASE k # h
    <3>1. Lists(k)
      <4>1. CASE indexFile # Malformed /\ k \in listed(indexFile)
        BY <4>1 DEF Lists
      <4>2. ASSUME NEW d \in Callers, pc'[d] # "idle", k \in listed(index[d]), ~PendingIn(results'[d], k)
            PROVE  Lists(k)
        <5>1. pc[d] # "idle" /\ ~PendingIn(results[d], k)
          BY <1>1, <1>3, <1>6, <1>9, <2>4, <4>2
        <5> QED BY <4>2, <5>1 DEF Lists
      <4> QED BY <1>2, <2>1, <4>1, <4>2 DEF Lists
    <3>2. AllList(k)
      BY <1>4, <2>1, <2>4, <3>1 DEF AccountsInv, IndexesAgree
    <3>3. k \notin torn' => k \notin torn
      BY <2>2
    <3>4. \A d \in Callers : /\ pc'[d] # "idle" => pc[d] # "idle"
                             /\ k \notin behind'[d] => k \notin behind[d]
      BY <1>3, <1>5, <1>6, <2>4
    <3> QED BY <1>2, <3>2, <3>3, <3>4 DEF AllList
  <2> QED BY <2>3, <2>4
<1>12. DOMAIN index' = Callers
  BY <1>2 DEF AccountsInv
<1> QED BY <1>2, <1>5, <1>7, <1>10, <1>11, <1>12 DEF AccountsInv

LEMMA WriteIndexAccounts ==
  ASSUME FilesTyped, AccountsInv, NEW c \in Callers, WriteIndex(c)
  PROVE  AccountsInv'
<1>1. /\ pc[c] # "idle" /\ results[c] = <<>>
      /\ indexFile' = index[c] /\ torn' = behind[c] /\ Forget(c)
      /\ UNCHANGED <<file, editedAt, behind>>
  BY DEF WriteIndex, IndexToWrite
<1>2. /\ DOMAIN index' = Callers
      /\ pc'[c] = "idle" /\ index'[c] = None /\ results'[c] = <<>> /\ loaded'[c] \notin EntryFiles
      /\ \A d \in Callers : d # c => UNCHANGED <<pc[d], index[d], loaded[d], results[d]>>
  BY <1>1, ForgetAccounts
<1>3. DiskOK(index[c], behind[c], file, editedAt)
  BY <1>1 DEF AccountsInv, CallersOK, CallerOK, DiskOK
<1>4. CallersOK'
  <2>1. CallerOK(pc'[c], index'[c], loaded'[c], results'[c], behind'[c], file', editedAt')
    BY <1>2, IdleOK
  <2> QED BY <1>1, <1>2, <2>1 DEF AccountsInv, CallersOK
<1>5. IndexesAgree'
  <2>1. \A h : Lists(h)' => Lists(h)
    <3>1. \A h : h \in listed(index[c]) => Lists(h)
      BY <1>1, NothingPending DEF Lists
    <3> QED BY <1>1, <1>2, <3>1 DEF Lists
  <2> QED BY <1>1, <1>2, <2>1 DEF AccountsInv, IndexesAgree, AllList
<1> QED BY <1>1, <1>2, <1>3, <1>4, <1>5 DEF AccountsInv

LEMMA AbandonAccounts ==
  ASSUME FilesTyped, AccountsInv, NEW c \in Callers, Forget(c),
         UNCHANGED <<file, editedAt, behind, torn>>,
         UNCHANGED indexFile \/ indexFile' = Malformed
  PROVE  AccountsInv'
<1>1. /\ DOMAIN index' = Callers
      /\ pc'[c] = "idle" /\ index'[c] = None /\ results'[c] = <<>> /\ loaded'[c] \notin EntryFiles
      /\ \A d \in Callers : d # c => UNCHANGED <<pc[d], index[d], loaded[d], results[d]>>
  BY ForgetAccounts
<1>2. CallersOK'
  <2>1. CallerOK(pc'[c], index'[c], loaded'[c], results'[c], behind'[c], file', editedAt')
    BY <1>1, IdleOK
  <2> QED BY <1>1, <2>1 DEF AccountsInv, CallersOK
<1>3. DiskOK(indexFile', torn', file', editedAt')
  BY DEF AccountsInv, DiskOK
<1>4. IndexesAgree'
  <2>1. \A h : Lists(h)' => Lists(h)
    BY <1>1 DEF Lists
  <2> QED BY <1>1, <2>1 DEF AccountsInv, IndexesAgree, AllList
<1> QED BY <1>1, <1>2, <1>3, <1>4 DEF AccountsInv

LEMMA CrashInWriteAccounts ==
  ASSUME FilesTyped, AccountsInv, NEW c \in Callers, CrashInWrite(c)
  PROVE  AccountsInv'
<1>1. Forget(c) /\ UNCHANGED editedAt
  BY DEF CrashInWrite
<1>2. CASE IndexToWrite(c) /\ indexFile' = Malformed /\ UNCHANGED <<file, body, behind, torn>>
  BY <1>1, <1>2, AbandonAccounts
<1>3. ASSUME EntryToWrite(c), NEW h, h = Head(results[c]).hash,
             file' = [file EXCEPT ![h] = Malformed], Outdate(c, h), UNCHANGED indexFile
      PROVE  AccountsInv'
  <2>1. h \in Hashes /\ file[h] # Missing
    BY <1>3, HeadAccounts DEF EntryToWrite
  <2>2. /\ file'[h] = Malformed /\ Malformed # Missing /\ Malformed \notin EntryFiles
        /\ \A k \in Hashes : k # h => file'[k] = file[k] /\ editedAt'[k] = editedAt[k]
    BY <1>1, <1>3, <2>1, DirectoryAssumption DEF DirectoryAssumption, FilesTyped
  <2>8. Outdate(c, h) /\ file'[h] # Missing
    BY <1>3, <2>2
  <2>3. /\ DiskOK(indexFile, torn', file', editedAt')
        /\ \A d \in Callers : d # c =>
             /\ CallerOK(pc[d], index[d], loaded[d], results[d], behind'[d], file', editedAt')
             /\ behind'[d] = behind[d] \cup {h}
    <3>1. /\ DiskOK(indexFile, torn', file', editedAt')
          /\ \A d \in Callers : d # c =>
               /\ CallerOK(pc[d], index[d], loaded[d], results[d], behind'[d], file', editedAt')
               /\ behind'[d] = behind[d] \cup {h}
          /\ behind'[c] = behind[c] \ {h}
      BY <2>1, <2>2, <2>8, OutdateAccounts
    <3> QED BY <3>1
  <2>4. /\ DOMAIN index' = Callers
        /\ pc'[c] = "idle" /\ index'[c] = None /\ results'[c] = <<>> /\ loaded'[c] \notin EntryFiles
        /\ \A d \in Callers : d # c => UNCHANGED <<pc[d], index[d], loaded[d], results[d]>>
    BY <1>1, ForgetAccounts
  <2>5. CallersOK'
    <3>1. CallerOK(pc'[c], index'[c], loaded'[c], results'[c], behind'[c], file', editedAt')
      BY <2>4, IdleOK
    <3> QED BY <2>3, <2>4, <3>1 DEF CallersOK
  <2>6. KeyedFiles(file')
    BY <2>1, <2>2 DEF AccountsInv, KeyedFiles
  <2>7. IndexesAgree'
    <3>1. SUFFICES ASSUME NEW k \in Hashes, file'[k] # Missing, Lists(k)' PROVE AllList(k)'
      BY DEF IndexesAgree
    <3>2. torn' = torn \cup {h}
      BY <1>3 DEF Outdate
    <3>3. CASE k = h
      <4>1. k \in torn' /\ \A d \in Callers : d # c => k \in behind'[d]
        BY <2>3, <3>2, <3>3
      <4> QED BY <2>4, <4>1 DEF AllList
    <3>4. CASE k # h
      <4>1. Lists(k)
        BY <1>3, <2>4, <3>1 DEF Lists
      <4>2. AllList(k)
        BY <2>2, <3>1, <3>4, <4>1 DEF AccountsInv, IndexesAgree
      <4> QED BY <1>3, <2>3, <2>4, <3>2, <4>2 DEF AllList
    <3> QED BY <3>3, <3>4
  <2> QED BY <1>3, <2>3, <2>4, <2>5, <2>6, <2>7 DEF AccountsInv
<1> QED BY <1>2, <1>3 DEF CrashInWrite

\* A restored index lists every file, and every other index is behind on everything.
LEMMA RestoreAccounts ==
  ASSUME FilesTyped, AccountsInv, SyncRestoreFromDisk
  PROVE  AccountsInv'
<1>1. PICK idx, hashes : /\ hashes = hashesOnDisk
                         /\ idx = chromiumIndex(file, hashes, 0, TRUE)
  OBVIOUS
<1>2. /\ indexFile' = idx /\ torn' = {} /\ behind' = [c \in Callers |-> Hashes]
      /\ editedAt' = [h \in Hashes |-> 0] /\ UNCHANGED <<file, pc, index, loaded, results>>
  BY <1>1 DEF SyncRestoreFromDisk, callVars
<1>3. PICK f, at : f = file /\ at = editedAt'
  OBVIOUS
<1>4. f \in [Hashes -> FileContents] /\ hashes \in SUBSET Hashes /\ 0 \in 0..3
      /\ TRUE \in BOOLEAN /\ idx = chromiumIndex(f, hashes, 0, TRUE)
      /\ \A h \in Hashes : at[h] = 0
  BY <1>1, <1>2, <1>3 DEF FilesTyped, hashesOnDisk
<1>5. ProperIndex(idx) /\ Accounts(idx, <<>>, {}, f, at)
  BY <1>4, ChromiumAccounts
<1>6. listed(idx) = hashes
  BY <1>4, ChromiumRecords
<1>7. DiskOK(indexFile', torn', file', editedAt')
  BY <1>2, <1>3, <1>5 DEF DiskOK
<1>8. ASSUME NEW c \in Callers
      PROVE  CallerOK(pc[c], index[c], loaded[c], results[c], Hashes, file, at)
  <2>1. CallerOK(pc[c], index[c], loaded[c], results[c], behind[c], file, editedAt)
    BY DEF AccountsInv, CallersOK
  <2>2. ASSUME pc[c] # "idle"
        PROVE  Accounts(index[c], results[c], Hashes, file, at)
    <3>1. ProperIndex(index[c]) /\ Accounts(index[c], results[c], behind[c], file, editedAt)
      BY <2>1, <2>2 DEF CallerOK
    <3>2. \A r \in Records(index[c]) : r.hash \in Hashes
      BY <3>1, RecordHashes
    <3> QED BY <3>1, <3>2 DEF Accounts
  <2> QED BY <2>1, <2>2 DEF CallerOK
<1>9. CallersOK'
  <2>1. \A c \in Callers : behind'[c] = Hashes
    BY <1>2
  <2> QED BY <1>2, <1>3, <1>8, <2>1 DEF CallersOK
<1>10. IndexesAgree'
  <2>1. \A c \in Callers : behind'[c] = Hashes
    BY <1>2
  <2>2. \A h \in Hashes : file[h] # Missing => h \in listed(indexFile')
    BY <1>1, <1>2, <1>6 DEF hashesOnDisk
  <2> QED BY <1>2, <2>1, <2>2 DEF IndexesAgree, AllList
<1> QED BY <1>2, <1>7, <1>9, <1>10 DEF AccountsInv

LEMMA NextAccountsInv == DirectoryInv /\ AccountsInv /\ [Next]_vars => AccountsInv'
<1> SUFFICES ASSUME DirectoryInv, AccountsInv, [Next]_vars
             PROVE  AccountsInv'
  OBVIOUS
<1>0. FilesTyped
  BY DEF DirectoryInv
<1>1. ASSUME NEW c \in Callers, ReadIndex(c) PROVE AccountsInv'
  BY <1>0, <1>1, ReadIndexAccounts
<1>2. ASSUME NEW c \in Callers, NEW h \in Hashes, ReadEntry(c, h) PROVE AccountsInv'
  BY <1>0, <1>2, ReadEntryAccounts
<1>3. ASSUME NEW c \in Callers, NEW b \in Bodies, NEW auto \in BOOLEAN, Modify(c, b, auto)
      PROVE  AccountsInv'
  BY <1>3, ModifyAccounts
<1>4. ASSUME NEW c \in Callers, WriteEntry(c) PROVE AccountsInv'
  BY <1>0, <1>4, WriteEntryAccounts
<1>5. ASSUME NEW c \in Callers, WriteIndex(c) PROVE AccountsInv'
  BY <1>0, <1>5, WriteIndexAccounts
<1>6. ASSUME NEW c \in Callers, CrashInWrite(c) PROVE AccountsInv'
  BY <1>0, <1>6, CrashInWriteAccounts
<1>7. ASSUME NEW c \in Callers, Abandon(c) PROVE AccountsInv'
  BY <1>0, <1>7, AbandonAccounts DEF Abandon, history
<1>8. CASE SyncRestoreFromDisk
  BY <1>0, <1>8, RestoreAccounts
<1>9. CASE Tick \/ UNCHANGED vars
  <2>1. UNCHANGED <<indexFile, file, pc, index, loaded, results, editedAt, behind, torn>>
    BY <1>9 DEF Tick, vars, callVars, history
  <2>2. CallersOK' /\ IndexesAgree'
    BY <2>1 DEF AccountsInv, CallersOK, IndexesAgree, Lists, AllList
  <2> QED BY <2>1, <2>2 DEF AccountsInv
<1> QED BY <1>1, <1>2, <1>3, <1>4, <1>5, <1>6, <1>7, <1>8, <1>9 DEF Next

LEMMA AccountsInvHolds == Spec => [](DirectoryInv /\ AccountsInv)
  BY InitDirectoryInv, NextDirectoryInv, InitAccountsInv, NextAccountsInv, PTL DEF Spec

-------------------------------------------------------------------------------
(* The theorems *)

\* Every variable keeps its type: in particular a modified entry is again an entry
\* file, under the hash of its key (modify, serialize, patchContentLength), and an
\* index on disk or in a caller's hands has the fields of its format, sizes that are
\* not negative, and no hash twice (put, updateIndex).
THEOREM DirectoryTyped == Spec => []TypeOK
<1>1. DirectoryInv /\ AccountsInv => TypeOK
  <2> SUFFICES ASSUME DirectoryInv, AccountsInv PROVE TypeOK
    OBVIOUS
  <2>1. indexFile = Malformed \/ IsIndex(indexFile)
    BY DEF AccountsInv, DiskOK, ProperIndex
  <2>2. \A c \in Callers : IF pc[c] = "idle" THEN index[c] = None ELSE IsIndex(index[c])
    BY DEF AccountsInv, CallersOK, CallerOK, ProperIndex
  <2>3. DOMAIN index = Callers
    BY DEF AccountsInv
  <2>4. FilesTyped
    BY DEF DirectoryInv
  <2> QED BY <2>1, <2>2, <2>3, <2>4 DEF FilesTyped, TypeOK
<1> QED BY <1>1, AccountsInvHolds, PTL

\* restore() finds, for every record, the body last written to that entry.
LEMMA RestoredBodies ==
  ASSUME DirectoryInv, AccountsInv, indexFile # Malformed
  PROVE  LET found == restore(indexFile, file) IN
         found = Thrown \/ \A i \in DOMAIN found :
           body[found[i].hash] \in {None, found[i].body}
<1>1. PICK out : out = restore(indexFile, file)
  OBVIOUS
<1>2. CASE \E h \in listed(indexFile) : file[h] = Malformed
  BY <1>1, <1>2 DEF restore
<1>3. CASE ~ \E h \in listed(indexFile) : file[h] = Malformed
  <2>1. out = [i \in DOMAIN indexFile.entries |->
                 restoreEntry(indexFile.entries[i].hash, file[indexFile.entries[i].hash])]
    BY <1>1, <1>3 DEF restore
  <2>2. ASSUME NEW i \in DOMAIN out PROVE body[out[i].hash] \in {None, out[i].body}
    <3>1. PICK h : h = indexFile.entries[i].hash
      OBVIOUS
    <3>2. h \in Hashes
      <4>1. indexFile.entries[i] \in Records(indexFile)
        BY <2>1, <2>2 DEF Records
      <4>2. ProperIndex(indexFile)
        BY DEF AccountsInv, DiskOK
      <4> QED BY <3>1, <4>1, <4>2, RecordHashes
    <3>3. out[i] = restoreEntry(h, file[h])
      BY <2>1, <2>2, <3>1
    <3>4. out[i].hash = h
      <4>1. restoreEntry(h, Missing).hash = h /\ \A e : parsedEntry(h, e).hash = h
        BY DEF restoreEntry, missingEntry, parsedEntry
      <4>2. CASE file[h] = Missing
        BY <3>3, <4>1, <4>2
      <4>3. CASE file[h] # Missing
        BY <3>3, <4>1, <4>3 DEF restoreEntry
      <4> QED BY <4>2, <4>3
    <3>5. CASE body[h] = None
      BY <3>4, <3>5
    <3>6. CASE body[h] # None
      <4>1. file[h] \in EntryFiles /\ parsedEntry(h, file[h]).body = body[h]
        BY <3>2, <3>6 DEF DirectoryInv, WrittenBodyRestored
      <4>2. out[i] = parsedEntry(h, file[h])
        BY <3>3, <4>1, DirectoryAssumption DEF DirectoryAssumption, restoreEntry
      <4> QED BY <3>4, <4>1, <4>2
    <3> QED BY <3>5, <3>6
  <2> QED BY <1>1, <2>2
<1> QED BY <1>2, <1>3

\* The index on disk has the size and the time of every file it lists, but of those
\* written by somebody whose own index is not there yet, its total is that of its
\* records, and restore() through it finds every body last written: whatever callers
\* interleave, wherever they die, and when Chromium rebuilds it (updateIndex, put,
\* recomputeCacheSize, restore).
THEOREM IndexDescribes == Spec => []IndexDescribesFiles
<1>1. DirectoryInv /\ AccountsInv => IndexDescribesFiles
  <2> SUFFICES ASSUME DirectoryInv, AccountsInv, indexFile # Malformed
               PROVE  /\ LET found == restore(indexFile, file) IN
                         found = Thrown \/ \A i \in DOMAIN found :
                           body[found[i].hash] \in {None, found[i].body}
                      /\ indexFile.cacheSize = totalSize(indexFile)
                      /\ \A i \in DOMAIN indexFile.entries :
                           LET ie == indexFile.entries[i] IN
                           ie.hash \notin torn /\ file[ie.hash] \in EntryFiles =>
                             /\ ie.entrySizeChunks \in describedSizes(ie.hash)
                             /\ ie.lastUsedInternal = editedAt[ie.hash]
    BY DEF IndexDescribesFiles
  <2>1. ProperIndex(indexFile) /\ Accounts(indexFile, <<>>, torn, file, editedAt)
    BY DEF AccountsInv, DiskOK
  <2>2. \A r \in Records(indexFile) : r.hash \notin torn /\ file[r.hash] \in EntryFiles =>
          Describes(r, file[r.hash], editedAt[r.hash])
    BY <2>1, NothingPending DEF Accounts
  <2>3. \A i \in DOMAIN indexFile.entries : indexFile.entries[i] \in Records(indexFile)
    BY DEF Records
  <2> QED BY <2>1, <2>2, <2>3, RestoredBodies DEF ProperIndex, Describes, describedSizes
<1> QED BY <1>1, AccountsInvHolds, PTL

\* A rewritten index keeps the record of every file, unless its writer did not know of
\* it: put() never drops one, and indexes that are not behind agree.
THEOREM RewrittenIndexKeeps == Spec => IndexKeepsEntries
<1>1. ASSUME DirectoryInv, AccountsInv, [Next]_vars, Malformed \notin {indexFile, indexFile'},
             NEW h \in listed(indexFile) \ torn', file[h] # Missing
      PROVE  h \in listed(indexFile')
  <2>1. CASE UNCHANGED indexFile
    BY <1>1, <2>1
  <2>2. ASSUME NEW c \in Callers, WriteIndex(c) PROVE h \in listed(indexFile')
    <3>1. pc[c] # "idle" /\ indexFile' = index[c] /\ torn' = behind[c]
      BY <2>2 DEF WriteIndex, IndexToWrite
    <3>2. h \in Hashes
      <4>1. \A r \in Records(indexFile) : r.hash \in Hashes
        BY <1>1, RecordHashes DEF AccountsInv, DiskOK
      <4> QED BY <1>1, <4>1 DEF listed, Records
    <3>3. Lists(h)
      BY <1>1 DEF Lists
    <3>4. AllList(h)
      BY <1>1, <3>2, <3>3 DEF AccountsInv, IndexesAgree
    <3> QED BY <1>1, <3>1, <3>4 DEF AllList
  <2>3. ASSUME NEW c \in Callers,
               \/ ReadIndex(c) \/ \E k \in Hashes : ReadEntry(c, k)
               \/ \E b \in Bodies, auto \in BOOLEAN : Modify(c, b, auto)
               \/ WriteEntry(c) \/ CrashInWrite(c) \/ Abandon(c)
        PROVE  UNCHANGED indexFile
    BY <1>1, <2>3 DEF ReadIndex, ReadEntry, Modify, WriteEntry, CrashInWrite, Abandon
  <2>4. CASE SyncRestoreFromDisk \/ Tick \/ UNCHANGED vars
    BY <1>1, <2>1, <2>4 DEF SyncRestoreFromDisk, Tick, vars
  <2> QED BY <1>1, <2>1, <2>2, <2>3, <2>4 DEF Next
<1>2. DirectoryInv /\ AccountsInv /\ [Next]_vars =>
        (Malformed \notin {indexFile, indexFile'} =>
           \A h \in listed(indexFile) \ torn' : file[h] # Missing => h \in listed(indexFile'))
  BY <1>1
<1> QED BY <1>2, AccountsInvHolds, PTL DEF Spec, IndexKeepsEntries

===============================================================================
