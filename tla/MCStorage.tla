----------------------------- MODULE MCStorage -----------------------------
(* Storage on three paths with room for two entries, two ids, and three      *)
(* values of two types.                                                      *)
EXTENDS Storage, TLC

CONSTANTS a, b, c, i1, i2, s1, n1, n2, root

MCPaths == {a, b, c}
MCValues == {i1, i2, s1}
MCTypeOf == [v \in MCValues |-> IF v = s1 THEN "text" ELSE "integer"]
MCIds == {n1, n2}
MCPrefixes == {root}
MCMatching == [r \in MCPrefixes |-> MCPaths]
MCOffsets == {-1, 1}

\* Paths, ids and the two integers are interchangeable.
MCSymmetry == Permutations(MCPaths) \cup Permutations(MCIds) \cup Permutations({i1, i2})
=============================================================================
