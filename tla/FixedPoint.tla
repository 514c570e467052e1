------------------------------ MODULE FixedPoint ------------------------------
(***************************************************************************)
(* The fixed-point numbers of bio/include/fp_q16.h: words with 16 bits of  *)
(* fraction, their product, quotient and cosine as the core computes them. *)
(* A loop is a function on its state that calls itself on the next one.    *)
(***************************************************************************)
EXTENDS Integers, Sequences

Magnitude(x) == IF x < 0 THEN -x ELSE x

ONE == 65536
TWO_PI == 411775
PI == 205887
HALF_PI == 102944
Fixed(x) == x * ONE
Whole(x) == x \div ONE

\* The product of the words, without its lowest 16 bits.
fp_mul(a, b) ==
  LET al == a % ONE   bl == b % ONE
  IN (a \div ONE) * b + al * (b \div ONE)
     + ((al \div 256) * bl + ((al % 256) * bl) \div 256) \div 256
-----------------------------------------------------------------------------
(* Binary restoring division.  The words are too small here for its first    *)
(* step, which keeps a divider of 32 bits from overflowing.                  *)

Division == [remainder : Nat, divider : Nat \ {0}, bit : Nat, quotient : Nat]

Align[s \in Division] ==
  IF s.divider < s.remainder
    THEN Align[[s EXCEPT !.divider = 2 * @, !.bit = 2 * @]]
    ELSE s

Subtracted(s) ==
  IF s.remainder >= s.divider
    THEN [s EXCEPT !.remainder = @ - s.divider, !.quotient = @ + s.bit]
    ELSE s

Restore[s \in Division] ==
  IF s.bit = 0 \/ s.remainder = 0
    THEN s
    ELSE Restore[[Subtracted(s) EXCEPT !.remainder = 2 * @, !.bit = @ \div 2]]

\* The last remainder rounds the quotient.
fp_div(a, b) ==
  LET s == Restore[Align[[remainder |-> Magnitude(a), divider |-> Magnitude(b),
                          bit |-> ONE, quotient |-> 0]]]
      quotient == s.quotient + (IF s.remainder >= s.divider THEN 1 ELSE 0)
  IN IF (a < 0) # (b < 0) THEN -quotient ELSE quotient
-----------------------------------------------------------------------------
(* The division of whole numbers (softdiv.h), where the core has no divider: *)
(* the numerator's bits from the highest on.  scale is twice a bit's place.  *)

LongDivision ==
  [word : Nat \ {0}, n : Nat, d : Nat \ {0}, scale : Nat, remainder : Nat, quotient : Nat]

BroughtDown(s) ==
  LET place == s.scale \div 2
      rest == ((2 * s.remainder) % s.word) + ((s.n \div place) % 2)
  IN IF rest >= s.d
     THEN [s EXCEPT !.scale = place, !.remainder = rest - s.d, !.quotient = @ + place]
     ELSE [s EXCEPT !.scale = place, !.remainder = rest]

Divide[s \in LongDivision] == IF s.scale <= 1 THEN s ELSE Divide[BroughtDown(s)]

\* Quotient and remainder of n by d, numbers below word.
udiv_rem(word, n, d) ==
  LET s == Divide[[word |-> word, n |-> n, d |-> d,
                   scale |-> word, remainder |-> 0, quotient |-> 0]]
  IN IF d = 0 THEN <<word - 1, n>> ELSE <<s.quotient, s.remainder>>

\* A word as a signed number.
Signed(word, x) == IF 2 * x >= word THEN x - word ELSE x

divsi3(word, n, d) ==
  LET q == Signed(word, udiv_rem(word, Magnitude(n), Magnitude(d))[1])
  IN IF (n < 0) # (d < 0) THEN Signed(word, (-q) % word) ELSE q
-----------------------------------------------------------------------------
(* The cosine                                                                *)

cordic_atan_table ==
  <<51472, 30386, 16055, 8150, 4091, 2047, 1024, 512, 256, 128, 64, 32, 16, 8, 4, 2>>

Vector == [i : 0 .. 16, x : Int, y : Int, z : Int]

Turned(v) ==
  LET d == IF v.z >= 0 THEN 1 ELSE -1
  IN [i |-> v.i + 1,
      x |-> v.x - d * (v.y \div 2 ^ v.i),
      y |-> v.y + d * (v.x \div 2 ^ v.i),
      z |-> v.z - d * cordic_atan_table[v.i + 1]]

\* One rotation by the i-th angle after the other, towards the angle wanted.
Rotate[v \in Vector] == IF v.i = 16 THEN v ELSE Rotate[Turned(v)]

fp_cos_cordic(angle) == Rotate[[i |-> 0, x |-> 39797, y |-> 0, z |-> angle]].x

\* The cosines of the first quarter, as a sequence.
Quarter == [k \in 1 .. HALF_PI + 1 |-> fp_cos_cordic(k - 1)] \o <<>>

\* Three of these make any distance in the quarter.
Spans == {digit * place : digit \in 1 .. 63, place \in {1, 64, 4096}}

\* A cosine falls from one, not below zero and, but for the lowest bits, no faster
\* than the angle grows.
Falls(c) ==
  /\ c[1] = ONE /\ c[HALF_PI + 1] \in 0 .. 20
  /\ \A span \in Spans : \A k \in 1 .. HALF_PI + 1 - span : c[k] - c[k + span] \in 0 .. span + 20

\* No parameter is assumed: TLC computes all the 102 945 cosines, and looks.
ASSUME QuarterComputed == Falls(Quarter)

InOneTurn(x) ==
  LET rest == x - fp_mul(Fixed(Whole(fp_div(x, TWO_PI))), TWO_PI)
  IN IF x < TWO_PI THEN x ELSE IF rest < 0 THEN rest + TWO_PI ELSE rest

\* As a bug would have it: the second half of a turn is not folded onto the first.
NoFold(x) == x

FoldTurn(x) == IF x > PI THEN TWO_PI - x ELSE x

fp_cos(angle) ==
  LET x == FoldTurn(InOneTurn(Magnitude(angle)))
  IN IF x > HALF_PI THEN - fp_cos_cordic(PI - x) ELSE fp_cos_cordic(x)
=============================================================================
