------------------------- MODULE MCGeneratedCodeCache -------------------------
(* Small instances of GeneratedCodeCache for TLC. *)
EXTENDS GeneratedCodeCache

CONSTANTS r1, r2, small, medium, big, huge

\* One blob per layout, and one too large to be written.
MCSize(d) ==
  CASE d = Empty -> 0 [] d = small -> 1 [] d = medium -> 2 [] d = big -> 3 [] d = huge -> 4

MCChecksum(d) == <<"sha256", d>>

Same == Permutations(Resources)

\* Bound: three calls; four on one resource with one blob; on two resources only the
\* blob that they share is written, under its checksum.
FewCalls ==
  LET resources == { call.resource : call \in ToSet(log) } \ {None}
      written == { call.data : call \in { c \in ToSet(log) : c.method \in {"write", "rejectedWrite"} } }
  IN  /\ Len(log) <= IF Cardinality(resources) <= 1 /\ Cardinality(written) <= 1
                     THEN 4 ELSE 3
      /\ Cardinality(resources) > 1 => written \subseteq {big}

=============================================================================
