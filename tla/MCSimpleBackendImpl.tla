--------------------------- MODULE MCSimpleBackendImpl -------------------------
(***************************************************************************)
(* SimpleBackendImpl for TLC: two keys, of one hash or of two.             *)
(***************************************************************************)
EXTENDS SimpleBackendImpl, TLC

CONSTANTS k1, k2, h1, h2

MCKeys == {k1, k2}
MCSymmetry == Permutations(MCKeys)
================================================================================
