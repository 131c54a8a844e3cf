---------------------------- MODULE MCTransport ----------------------------
(* Buffers of seven cells and messages of three to five.                    *)
EXTENDS Transport

MCSizes == 0..2
MCBlank == [is |-> "blank", of |-> 0, n |-> 0]
=============================================================================
