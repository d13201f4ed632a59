----------------------------- MODULE EditedBodies -----------------------------
(***************************************************************************)
(* What editing a cache promises, seen through restore(): every entry has  *)
(* a body, and a body changes only to one that was asked for, for that     *)
(* entry, one entry at a time, while the edit is pending.  A crash may     *)
(* withdraw edits and lose the body it was replacing.                      *)
(***************************************************************************)
CONSTANTS Hashes, Bytes, Bodies,
  Lost   \* no body: the entry file is unreadable

VARIABLES
  restored,   \* restored[h]: the body restore() returns for entry h
  pending     \* the <<h, b>> edits asked for and not yet made

Init ==
  /\ restored \in [Hashes -> Bytes \cup {Lost}]
  /\ pending = {}

Request(h, b) ==
  /\ pending' = pending \cup {<<h, b>>}
  /\ UNCHANGED restored

\* The same edit may be pending twice.
Apply(h, b) ==
  /\ <<h, b>> \in pending
  /\ restored' = [restored EXCEPT ![h] = b]
  /\ pending \ {<<h, b>>} \subseteq pending' /\ pending' \subseteq pending

Lose(h, b) ==
  /\ <<h, b>> \in pending
  /\ restored' = [restored EXCEPT ![h] = Lost]
  /\ pending' \subseteq pending

Withdraw ==
  /\ pending' \subseteq pending
  /\ UNCHANGED restored

Next ==
  \/ Withdraw
  \/ \E h \in Hashes, b \in Bodies : Request(h, b) \/ Apply(h, b) \/ Lose(h, b)

Spec == Init /\ [][Next]_<<restored, pending>>

=============================================================================
