------------------------------- MODULE Channel -------------------------------
(***************************************************************************)
(* What a connection promises to who uses it (network_client and           *)
(* server_io, which hand socket_io a message and get on_message): messages *)
(* are numbered as they are accepted, and come out whole, in this order    *)
(* and once.  When the connection is cut some may be missing.              *)
(*                                                                         *)
(* socket_io has ways to break the promise; after one of them (spoilt)     *)
(* anything may happen.  Transport implements this, and ObsrNet and        *)
(* Messages use connections of this kind.                                  *)
(***************************************************************************)
EXTENDS Naturals, Sequences

VARIABLES
    sent,    \* how many messages were accepted
    heard,   \* the numbers of those that came out
    cut,     \* was the connection ever lost
    spoilt

vars == <<sent, heard, cut, spoilt>>

Init == sent = 0 /\ heard = <<>> /\ cut = FALSE /\ spoilt = FALSE

Latest == IF heard = <<>> THEN 0 ELSE heard[Len(heard)]

Send == sent' = sent + 1 /\ UNCHANGED <<heard, cut, spoilt>>

Deliver ==
    /\ \E m \in (Latest + 1)..sent :
           /\ ~cut => m = Latest + 1
           /\ heard' = Append(heard, m)
    /\ UNCHANGED <<sent, cut, spoilt>>

Lose == ~cut /\ cut' = TRUE /\ UNCHANGED <<sent, heard, spoilt>>

Spoil == spoilt' = TRUE

Next == Send \/ Deliver \/ Lose \/ Spoil

Spec == Init /\ [][Next]_vars
=============================================================================
