---------------------------- MODULE IndexRegister ----------------------------
(***************************************************************************)
(* What the index file promises, whatever happens while it is written: it  *)
(* holds one of the sets of entries posted to it, whole, and they reach it *)
(* in the order they were posted.  Writes may fail, a crash forgets those  *)
(* still posted, and a load may discard the file.                          *)
(***************************************************************************)
EXTENDS Sequences

CONSTANTS Contents,   \* what can be written
          Absent, Corrupt

VARIABLES file, posted

Init == file \in Contents \cup {Absent, Corrupt} /\ posted = <<>>

Post(s) == posted' = Append(posted, s) /\ UNCHANGED file

Write == posted # <<>> /\ file' = Head(posted) /\ posted' = Tail(posted)

Fail == posted # <<>> /\ posted' = Tail(posted) /\ UNCHANGED file

Forget == posted' = <<>> /\ UNCHANGED file

Discard == file' = Absent /\ UNCHANGED posted

Next == Write \/ Fail \/ Forget \/ Discard \/ \E s \in Contents : Post(s)

Spec == Init /\ [][Next]_<<file, posted>>

=============================================================================
