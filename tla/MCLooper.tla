------------------------------ MODULE MCLooper ------------------------------
(* Two descriptors, two slots and two timers; the sockets only ever append   *)
(* and remove events.                                                       *)
EXTENDS Looper

CONSTANTS f1, f2

MCFds == {f1, f2}
MCFlags == {"in", "out"}
MCKinds == {"new_events_add", "new_events_remove"}
=============================================================================
