----------------------------- MODULE MCModelApi -----------------------------
(* Two streams, and memory for a scorer more than can be in use at a time. *)
EXTENDS ModelApi, TLC

CONSTANTS s1, s2, x1, x2, x3, x4, p1, p2, w1

MCStreams == {s1, s2}

MCScorers == {x1, x2, x3, x4}

MCPaths == {p1, p2}

MCWords == {w1}

\* Interchangeable names.
Symmetry == Permutations(MCStreams) \cup Permutations(MCScorers) \cup Permutations(MCPaths)

=============================================================================
