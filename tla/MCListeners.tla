----------------------------- MODULE MCListeners -----------------------------
(* Listeners to a, events on a and b, and a table of two slots.              *)
EXTENDS Listeners

CONSTANTS a, b

MCPaths == {a, b}
MCPrefixes == {a}
MCHears == [x \in MCPrefixes |-> {x}]
MCOffsets == {-1}
=============================================================================
