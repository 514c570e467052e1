------------------------------ MODULE MCBioLoader ------------------------------
(***************************************************************************)
(* BioLoader for TLC: programs of two chunks, two pins that may be claimed *)
(* and one that may not, a clock above the limit, every fault.             *)
(***************************************************************************)
EXTENDS BioLoader

ZeroOrOther == {1, 2}
TwoPins == {21, 22}
GoodAndBadPin == {15, 21}
TooFast == {3}
AllFaults == {"get", "write", "init", "claim", "send", "restart"}
=============================================================================
