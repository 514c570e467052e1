---------------------------- MODULE MCFadeThread ----------------------------
(* FadeThread for TLC: a table of ten entries, where neither end is met by a *)
(* whole number of increments.                                               *)
EXTENDS FadeThread

MCSteps == 9
MCInc == 2
=============================================================================
