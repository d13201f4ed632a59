------------------------- MODULE MCSimpleSynchronousEntry ----------------------
(***************************************************************************)
(* SimpleSynchronousEntry for TLC.  The two keys have one hash.            *)
(***************************************************************************)
EXTENDS SimpleSynchronousEntry, TLC

CONSTANTS k1, k2

MCKeys == {k1, k2}
MCSymmetry == Permutations(MCKeys)
================================================================================
