---------------------------- MODULE MCTouchSensor ----------------------------
(* TouchSensor for TLC: a short window, a debouncer longer than it.           *)
EXTENDS TouchSensor

MCPressed == {7}
=============================================================================
