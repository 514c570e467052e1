------------------------------- MODULE LedGenes -------------------------------
(***************************************************************************)
(* leds.rs builds, for each standalone pattern, a pair of strands whose    *)
(* blend is that pattern (as_gene).  The blend itself, Diploid::phenotype, *)
(* belongs to the badge's API and is not in this repository: it is modelled*)
(* from what as_gene and its comments say of it, for the four fields that  *)
(* as_gene does not merely copy.                                           *)
(***************************************************************************)
EXTENDS Naturals

CONSTANT Fields   \* the values the fields of a pattern are taken from

Byte == 0 .. 255

ASSUME FieldsAssumption == Fields \subseteq Byte

Haploid == [sat : Byte, hue_ratedir : Byte, chaser : Byte, nonlin : Byte]

Least(x, y) == IF x <= y THEN x ELSE y

\* Diploid::phenotype: saturating sums, and the drift rate by its own rule.
Saturated(x) == Least(x, 255)
BlendedRate(x, y) == (2 + (14 - Least(x + y, 14))) % 14
Phenotype(d) ==
  [sat |-> Saturated(d.a.sat + d.b.sat),
   hue_ratedir |-> BlendedRate(d.a.hue_ratedir, d.b.hue_ratedir),
   chaser |-> Saturated(d.a.chaser + d.b.chaser),
   nonlin |-> Saturated(d.a.chaser + d.b.nonlin)]

\* As a bug would have it: both strands are the pattern.
BothStrands(p) == [a |-> p, b |-> p]

\* The sum of the two strands' rates that blends to the rate wanted.
RateSum(want) == IF want >= 2 THEN 16 - want ELSE 16 - (want + 14)

as_gene(p) ==
  LET half == p.sat \div 2
      a_chaser == Least(p.chaser, p.nonlin)
  IN [a |-> [sat |-> half, hue_ratedir |-> Least(RateSum(p.hue_ratedir % 14), 14),
             chaser |-> a_chaser, nonlin |-> 0],
      b |-> [sat |-> p.sat - half, hue_ratedir |-> 0,
             chaser |-> p.chaser - a_chaser, nonlin |-> p.nonlin - a_chaser]]

\* A pattern is installed as the gene and expressed.
VARIABLES pattern, expressed
patternVars == <<pattern, expressed>>

Standalone == [sat : Fields, hue_ratedir : Fields, chaser : Fields, nonlin : Fields]

PatternInit == pattern \in Standalone /\ expressed = pattern
ExpressPattern == expressed' = Phenotype(as_gene(pattern)) /\ UNCHANGED pattern
PatternNext == ExpressPattern
PatternSpec == PatternInit /\ [][PatternNext]_patternVars
-----------------------------------------------------------------------------
\* "The pattern that was written is the pattern that renders" (leds.rs:95-97),
\* for the drift rates below 14, which are all the patterns use: the blend
\* takes the larger ones to a rate below 14.
PatternRenders == pattern.hue_ratedir < 14 => expressed = pattern

\* The strands are bytes again: none of as_gene's subtractions on u8 goes below
\* zero and no sum of it above 255, whatever the pattern (leds.rs:99-127).
StrandsAreBytes == as_gene(pattern).a \in Haploid /\ as_gene(pattern).b \in Haploid
=============================================================================
