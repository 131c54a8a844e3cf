------------------------------- MODULE MCClock -------------------------------
(* Clocks that differ by up to two ticks, and two lost connections.         *)
EXTENDS Clock

MCSkews == -2..2
=============================================================================
