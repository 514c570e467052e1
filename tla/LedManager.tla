------------------------------ MODULE LedManager ------------------------------
(***************************************************************************)
(* The LED server of leds.rs: it keeps the badge's light gene, sets it     *)
(* aside while a standalone pattern shows, and hands phenotypes to the     *)
(* light engine (LedRing composes the two).                                *)
(*                                                                         *)
(* A gene is a number.  A pattern's gene is as_gene of that pattern        *)
(* (LedGenes shows that it expresses as the pattern), and whatever breeding*)
(* and mutation give is one of the badge's genes, or of their offspring.   *)
(***************************************************************************)
EXTENDS Naturals

CONSTANTS Genes,          \* what applications and breeding may give
          PATTERN_COUNT   \* 9 in the code

None == 0
PatternGene(i) == 1000 + i
Patterns == {PatternGene(i) : i \in 1 .. PATTERN_COUNT}
Gene == Genes \union Patterns
Selections == 0 .. PATTERN_COUNT + 1

ASSUME LedAssumption == PATTERN_COUNT \in Nat /\ Genes \subseteq 1 .. 1000

VARIABLES gene,        \* Lightgenes::gene
          saved_gene,
          shown,       \* what the light engine was last told to render
          dead,        \* the LED thread has panicked
          forced,      \* history: the last phenotype came from Force
          own,         \* history: the gene to put back, as the badge's owner sees it
          aside,       \* history: a pattern is selected
          meddled      \* history: a gene came while a pattern showed, or a
                       \* pattern before there was a gene

ledVars == <<gene, saved_gene, shown, dead, forced, own, aside, meddled>>

LedInit ==
  /\ gene = None /\ saved_gene = None /\ shown = None /\ dead = FALSE
  /\ forced = FALSE /\ own = None /\ aside = FALSE /\ meddled = FALSE

\* Lightgenes::express: nothing is sent before there is a gene.
Express(g) ==
  IF g = None THEN UNCHANGED <<shown, forced>> ELSE shown' = g /\ forced' = FALSE

\* A request that makes g the badge's gene.
NewGene(g) == gene' = g /\ Express(g) /\ own' = g /\ meddled' = (meddled \/ aside)

\* Breeding with a random mate; without a gene it does nothing.
Autogamy ==
  /\ ~ dead
  /\ IF gene = None THEN UNCHANGED <<gene, shown, forced, own, meddled>>
                    ELSE \E g \in Genes : NewGene(g)
  /\ UNCHANGED <<saved_gene, dead, aside>>

\* Breeding with the gene received.  Without a gene of its own the badge has no
\* egg to give, and meiosis().unwrap() panics.
Syngamy ==
  /\ ~ dead
  /\ IF gene = None THEN dead' = TRUE /\ UNCHANGED <<gene, shown, forced, own, meddled>>
                    ELSE (\E g \in Genes : NewGene(g)) /\ UNCHANGED dead
  /\ UNCHANGED <<saved_gene, aside>>

ForcePhenotype ==
  /\ ~ dead
  /\ shown' \in Gene /\ forced' = TRUE
  /\ UNCHANGED <<gene, saved_gene, dead, own, aside, meddled>>

\* GeneTest and SetGene replace the gene.
GeneTest ==
  /\ ~ dead
  /\ \E g \in Genes : NewGene(g)
  /\ UNCHANGED <<saved_gene, dead, aside>>

SetGene ==
  /\ ~ dead
  /\ \E g \in Genes : NewGene(g)
  /\ UNCHANGED <<saved_gene, dead, aside>>

\* The gene comes back, if one was set aside.
TakeSaved ==
  IF saved_gene # None THEN gene' = saved_gene /\ saved_gene' = None
                       ELSE UNCHANGED <<gene, saved_gene>>

ClearPattern ==
  /\ ~ dead
  /\ TakeSaved
  /\ Express(gene')
  /\ aside' = FALSE
  /\ UNCHANGED <<dead, own, meddled>>

\* As a bug would have it: every pattern sets the gene before it aside.
SaveEach == saved_gene' = gene

SaveOnce == saved_gene' = IF saved_gene = None THEN gene ELSE saved_gene

Install(g) == gene' = g /\ Express(g)

Known(sel) == sel <= PATTERN_COUNT

SelectPattern ==
  /\ ~ dead
  /\ \E sel \in Selections \ {0} :
       Known(sel) /\ SaveOnce /\ Install(PatternGene(sel))
  /\ aside' = TRUE /\ meddled' = (meddled \/ gene = None)
  /\ UNCHANGED <<dead, own>>

\* A selection beyond the last pattern is ignored.
SelectUnknown ==
  /\ ~ dead
  /\ \E sel \in Selections \ {0} : ~ Known(sel)
  /\ UNCHANGED ledVars

LedNext == \/ Autogamy \/ Syngamy \/ ForcePhenotype \/ GeneTest \/ SetGene
           \/ ClearPattern \/ SelectPattern \/ SelectUnknown

LedSpec == LedInit /\ [][LedNext]_ledVars
-----------------------------------------------------------------------------
\* The ring shows the gene, unless a phenotype was forced since: no request
\* changes the one and not the other (leds.rs:163-260).
RingShowsGene == ~ forced => shown = gene

\* "Selecting 'gene (default)' puts back exactly what was there before"
\* (leds.rs:152-153): with no pattern selected the gene is the badge's own, the
\* one it had, whatever patterns were selected in between and in whatever order,
\* as long as there was a gene first and none came while a pattern showed.
OwnGenePutBack == ~ aside /\ ~ meddled => gene = own
=============================================================================
