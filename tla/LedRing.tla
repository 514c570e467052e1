------------------------------- MODULE LedRing -------------------------------
(***************************************************************************)
(* The LED ring: the server of LedManager, one request at a time, and the  *)
(* FIFOs and the core of LightEngine under it.  A request that expresses a *)
(* gene or forces a phenotype returns when its last word is in FIFO 1; the *)
(* server takes the next one then, and the core renders when it comes to it*)
(***************************************************************************)
EXTENDS LedManager, LightEngine

ASSUME RingAssumption == Phenotypes = Gene

engineVars == <<fifo1, fifo2, hostVars, coreVars>>
ringVars == <<ledVars, engineVars>>

RingInit == LedInit /\ Init
-----------------------------------------------------------------------------
(* The requests.  Each is what LedManager does and the call it makes.        *)

Untouched == Idle /\ UNCHANGED engineVars

\* The gene is expressed, if there is one.
Expressed == IF gene' = None THEN Untouched ELSE CallExpress /\ sent' = shown'

RingAutogamy == Autogamy /\ Expressed
RingSyngamy == Syngamy /\ Expressed
RingGeneTest == GeneTest /\ Expressed
RingSetGene == SetGene /\ Expressed
RingClear == ClearPattern /\ Expressed
RingSelect == SelectPattern /\ Expressed
RingIgnore == SelectUnknown /\ Untouched
RingForce == ForcePhenotype /\ CallForce /\ sent' = shown'
RingEyes == ~ dead /\ CallJackEyes /\ UNCHANGED ledVars
RingPause == ~ dead /\ CallPause /\ UNCHANGED ledVars

RingHost == Host /\ UNCHANGED ledVars
RingCore == Core /\ UNCHANGED ledVars

RingNext ==
  \/ RingAutogamy \/ RingSyngamy \/ RingGeneTest \/ RingSetGene \/ RingClear \/ RingSelect
  \/ RingIgnore \/ RingForce \/ RingEyes \/ RingPause \/ RingHost \/ RingCore

RingSpec == RingInit /\ [][RingNext]_ringVars

\* The LED thread goes on inside a request and the core runs; nobody has to
\* make a request.
RingFairSpec == RingSpec /\ WF_ringVars(RingHost) /\ WF_ringVars(RingCore)
-----------------------------------------------------------------------------
\* Once FIFO 1 is empty between two requests, the core renders all of the gene
\* the server holds, unless a phenotype was forced since: no request changes
\* the gene alone, no codon is lost or of an earlier gene (leds.rs:163-260,
\* mod.rs:162-193, main.c:467-476).
RingRendersGene == Settled /\ ~ forced => \A c \in Codon : genome[c] = gene
=============================================================================
