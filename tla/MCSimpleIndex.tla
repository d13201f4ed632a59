----------------------------- MODULE MCSimpleIndex -----------------------------
(***************************************************************************)
(* Small caches for SimpleIndex.                                           *)
(***************************************************************************)
EXTENDS SimpleIndex, TLC

CONSTANTS h1, h2, h3

stored(size) == [lastUsed |-> 0, size |-> size, hint |-> HighPriority]

\* One entry on disk, one not.
MCDisks2 == { h1 :> stored(2) @@ h2 :> NoEntry }

\* An empty cache.
MCEmptyDisk == { [h \in Hashes |-> NoEntry] }

MCSymmetry == Permutations(Hashes)

=============================================================================
