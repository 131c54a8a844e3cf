----------------------------- MODULE MCObsrNet -----------------------------
(* Two paths (x1 and x2 are written to a, y1 to b) and up to two clients.   *)
EXTENDS ObsrNet

CONSTANTS a, b, x1, x2, y1, c1, c2

MCPaths == {a, b}
MCValues == {x1, x2, y1}
MCOnePerPath == {x1, y1}
MCTypeOf == [v \in MCValues |-> "integer"]
MCHomeOf == [v \in MCValues |-> IF v = y1 THEN b ELSE a]
MCIds == 0..2
MCTwoClients == {c1, c2}
MCServerOnly == {Server}
MCOneClient == {c1}
MCPair == {c1, Server}
MCAllOps == {"set", "delete", "clear"}
MCSetOnly == {"set"}
MCSetDelete == {"set", "delete"}
MCAnyStart == MCIds \cup {NoId}
=============================================================================
