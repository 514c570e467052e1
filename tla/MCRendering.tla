------------------------------ MODULE MCRendering ------------------------------
(* Rendering for TLC: the fields at the ends of their ranges, at the renderer's *)
(* thresholds and either side of the points where as_gene's rules turn; frames *)
(* for a slow and a fast hue, long enough for every hue and several periods.   *)
EXTENDS Rendering

EdgeValues == {0, 1, 2, 13, 14, 15, 16, 87, 88, 127, 128, 254, 255}
MCRendered ==
  {[sat |-> 255, hue_ratedir |-> 1, chaser |-> 0, nonlin |-> 0],
   [sat |-> 255, hue_ratedir |-> 13, chaser |-> 255, nonlin |-> 255],
   [sat |-> 128, hue_ratedir |-> 2, chaser |-> 88, nonlin |-> 0]}
StartOrLate == {0, 515}
MCBands == {<<0, 255>>, <<255, 0>>, <<128, 0>>, <<1, 200>>, <<255, 127>>, <<0, 0>>}
MCWaves ==
  [period : {1, 3}, rate : {0, 128}, dir : {255}]
    \union {[period |-> 3, rate |-> 0, dir |-> 0], [period |-> 255, rate |-> 255, dir |-> 128]}

\* The division of whole numbers, for words of eight bits.
ASSUME DivisionComputed ==
  /\ \A n, d \in 0 .. 255 :
       udiv_rem(256, n, d) = IF d = 0 THEN <<255, n>> ELSE <<n \div d, n % d>>
  /\ \A n \in -128 .. 127, d \in -128 .. 127 \ {0} :
       LET q == Magnitude(n) \div Magnitude(d)
       IN divsi3(256, n, d) = Signed(256, (IF (n < 0) # (d < 0) THEN -q ELSE q) % 256)
=============================================================================
