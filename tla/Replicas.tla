------------------------------ MODULE Replicas ------------------------------
(***************************************************************************)
(* What a server promises to those who only listen to it: every path goes  *)
(* through the readings its program gave it, and every replica goes through *)
(* the same readings of a path in the same order.  It may leave some out,  *)
(* it is never taken back to an earlier one, and it never reads anything   *)
(* else.  Connections are not part of the promise: they may break.         *)
(***************************************************************************)
EXTENDS Naturals, Sequences

CONSTANTS
    Paths,
    Followers,  \* the replicas
    Readings,   \* what a path may read
    Absent      \* what it reads before the first write

VARIABLES
    history,    \* the readings of each path, the first one included
    at          \* how far each replica has come on each path

vars == <<history, at>>

Init ==
    /\ history = [p \in Paths |-> <<Absent>>]
    /\ at = [c \in Followers |-> [p \in Paths |-> 1]]

\* The server's program writes, deletes or clears a path.
Write(p) ==
    /\ \E r \in Readings : history' = [history EXCEPT ![p] = Append(@, r)]
    /\ UNCHANGED at

\* A replica reads something newer of some paths.
Follow(c) ==
    /\ at' \in [Followers -> [Paths -> Nat]]
    /\ \A p \in Paths : at'[c][p] \in at[c][p]..Len(history[p])
    /\ \A d \in Followers \ {c} : at'[d] = at[d]
    /\ UNCHANGED history

Next == (\E p \in Paths : Write(p)) \/ (\E c \in Followers : Follow(c))

Spec == Init /\ [][Next]_vars
=============================================================================
