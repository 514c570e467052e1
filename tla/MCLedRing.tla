------------------------------ MODULE MCLedRing ------------------------------
(* LedRing for TLC: as in the code, a phenotype is longer than the FIFO and a *)
(* pause waits for one place and writes four words.                           *)
EXTENDS LedRing

MCGenes == {1}
MCPhenotypes == MCGenes \union Patterns
AllOps == {"express", "force", "jack_eyes", "pause"}
=============================================================================
