-------------------------------- MODULE Colours --------------------------------
(***************************************************************************)
(* A pixel's colour, from hue, saturation and value to the word of the     *)
(* strip (bio/lightgenes/main.c), and the exact colour it stands for.  A   *)
(* word is its three bytes, red, green and blue.                           *)
(***************************************************************************)
EXTENDS FixedPoint

\* As a bug would have it: a sixth of the circle of hues is 42.
SixthsOf42(c) == c.h \div 42

Region(c) == c.h \div 43

HsvToRgb(c) ==
  LET remainder == (c.h - Region(c) * 43) * 6
      p == (c.v * (255 - c.s)) \div 256
      q == (c.v * (255 - (c.s * remainder) \div 256)) \div 256
      t == (c.v * (255 - (c.s * (255 - remainder)) \div 256)) \div 256
  IN IF c.s = 0 THEN <<c.v, c.v, c.v>>
     ELSE CASE Region(c) = 0 -> <<c.v, t, p>>
            [] Region(c) = 1 -> <<q, c.v, p>>
            [] Region(c) = 2 -> <<p, c.v, t>>
            [] Region(c) = 3 -> <<p, q, c.v>>
            [] Region(c) = 4 -> <<t, p, c.v>>
            [] OTHER         -> <<c.v, p, q>>

SHIFT == 5
SHIFT_EYES == 3

\* Each byte of the word by itself: ledSetRGB masks what is shifted into the next.
ledSetRGB(rgb, shift) == [k \in 1 .. 3 |-> rgb[k] \div 2 ^ shift]
-----------------------------------------------------------------------------
\* How far apart two hues are on the circle of 256.
Around(x, y) == LET d == Magnitude(x - y) IN IF d <= 128 THEN d ELSE 256 - d

\* The exact colour of a hue and value, in parts of 6 * 256: each channel is full
\* for a third of the circle and goes up or down over a sixth on either side.
Ramp(hue, centre) ==
  LET far == 6 * Around(hue, centre)
  IN IF far <= 256 THEN 256 ELSE IF far >= 512 THEN 0 ELSE 512 - far

Channel(c, centre) == (c.v * (65280 - c.s * (256 - Ramp(c.h, centre)))) \div 65280

Exact(c) == <<Channel(c, 0), Channel(c, 85), Channel(c, 171)>>

\* A word of the ring is within one step of the exact colour, dimmed.
IsColour(word, c) == \A k \in 1 .. 3 : Magnitude(word[k] - ledSetRGB(Exact(c), SHIFT)[k]) <= 1
=============================================================================
