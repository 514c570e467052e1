---------------------------- MODULE MCLightEngine ----------------------------
(* LightEngine for TLC: the sizes of the code, and the operations that leave  *)
(* an acknowledgement behind and meet it.                                     *)
EXTENDS LightEngine

OnePhenotype == {1}
ExpressAndPause == {"express", "pause"}
=============================================================================
