----------------------------- MODULE MCObjects -----------------------------
(* Two names, objects up to three levels deep, and a table of three slots.  *)
EXTENDS Objects, TLC

CONSTANTS a, b

MCNames == {a, b}
MCSymmetry == Permutations(MCNames)
=============================================================================
