------------------------------- MODULE Rendering -------------------------------
(***************************************************************************)
(* The frames of the LED ring (do_lightgene of bio/lightgenes/main.c) for  *)
(* a phenotype that LedGenes has expressed, in the numbers of FixedPoint;  *)
(* Colours makes a pixel a word of the strip.  Until a gene comes the core *)
(* shows its test pattern.                                                 *)
(***************************************************************************)
EXTENDS LedGenes, FixedPoint, Colours

CONSTANTS Rendered,   \* the patterns whose frames are rendered
          GeneComes,  \* a bound: the frames after which the gene may come
          Bands,      \* pairs of hue_base and hue_bound
          Waves,      \* records of cd_period, cd_rate and cd_dir
          MaxLoops    \* a bound: frames rendered

LEDS == 10            \* actual_leds
LED_OFFSET == 2       \* the eyes
COUNT == LEDS - LED_OFFSET
Pixel == 0 .. COUNT - 1

ASSUME RenderingAssumption ==
  /\ Rendered \subseteq Standalone /\ Bands \subseteq Byte \X Byte
  /\ Waves \subseteq [period : Byte, rate : Byte, dir : Byte]
  /\ GeneComes \subseteq Nat /\ MaxLoops \in Nat

VARIABLES band, wave,     \* the fields of the gene that as_gene copies
          started,        \* the core has the gene
          loop_state,
          elapsed,        \* curtime - reftime_lg, in 10 ms
          eyes_on,        \* jack_eyes, as it was last told
          led_buf,        \* the words of the strip, the eyes first
          hsv             \* history: the hue and value do_lightgene chose for each pixel

clock == <<loop_state, elapsed>>
frame == <<eyes_on, led_buf, hsv>>
renderVars == <<pattern, expressed, band, wave, started, clock, frame>>
-----------------------------------------------------------------------------
(* A frame                                                                   *)

\* map(diploid.cd_rate, 0, 255, 60, 700), in 10 ms.
tau == (wave.rate * 640) \div 255 + 60

\* Out along the band for half of the 512 positions and back for the others.
Folded(t) == IF t <= 255 THEN t ELSE 511 - t

hue_dir == (expressed.hue_ratedir \div 16) % 16 > 10

hue_temp(i) ==
  LET turned == (loop_state % 512) * (expressed.hue_ratedir % 16)
      offset == (128 \div (COUNT \div 2)) * i
  IN Folded((IF hue_dir THEN offset - turned ELSE offset + turned) % 512)

\* map_16 from 0 .. 255 to the band, cast to a byte.
Hue(i) ==
  LET slope == fp_div(Fixed(band[2] - band[1]), Fixed(255))
  IN Whole(fp_mul(slope, Fixed(hue_temp(i))) + Fixed(band[1])) % 256

spacetime(i, indextime) ==
  LET space == fp_mul(TWO_PI, fp_mul(Fixed(wave.period), fp_div(Fixed(i), Fixed(COUNT - 1))))
      time == fp_div(fp_mul(TWO_PI, Fixed(indextime)), Fixed(tau))
  IN IF wave.dir > 128 THEN space + time ELSE space - time

Dimmed(v) == IF expressed.nonlin > 127 THEN ((v * v) \div 256) % 256 ELSE v

Value(i, indextime) ==
  Dimmed(Whole(fp_mul(Fixed(127), ONE + fp_cos(spacetime(i, indextime)))) % 256)
-----------------------------------------------------------------------------
(* The strip                                                                 *)

Grey(x) == <<x, x, x>>
Black == Grey(0)

HasSpot == expressed.chaser < 88

Shoot(n) == ((loop_state % 512) \div 2) % n

\* The colours of the eyes: half a turn of the spot each, or those of two pixels.
Eyes(rgb) ==
  IF ~ HasSpot THEN <<rgb[0], rgb[COUNT \div 2]>>
  ELSE IF Shoot(COUNT) < COUNT \div 2 THEN <<Grey(192), Black>> ELSE <<Black, Grey(192)>>

Strip(rgb) ==
  [k \in 0 .. LEDS - 1 |->
     IF k < LED_OFFSET
     THEN IF eyes_on' THEN ledSetRGB(Eyes(rgb)[k + 1], SHIFT_EYES) ELSE Black
     ELSE LET i == k - LED_OFFSET
          IN ledSetRGB(IF HasSpot /\ Shoot(COUNT) = i THEN Grey(160) ELSE rgb[i], SHIFT)]
-----------------------------------------------------------------------------
RenderInit ==
  /\ PatternInit
  /\ band = <<0, 0>> /\ wave = [period |-> 0, rate |-> 0, dir |-> 0]
  /\ started = FALSE /\ loop_state = 0 /\ elapsed = 0
  /\ eyes_on = FALSE /\ led_buf = [k \in 0 .. LEDS - 1 |-> Black] /\ hsv = <<>>

Followed == pattern \in Rendered /\ expressed = Phenotype(as_gene(pattern))

RenderExpress ==
  /\ ~ started /\ loop_state = 0 /\ ExpressPattern
  /\ UNCHANGED <<band, wave, started, clock, frame>>

\* 35 ms from one frame to the next; the clock is looked at in steps of 10 ms.
Later(now) ==
  /\ elapsed' = now + (IF loop_state % 2 = 0 THEN 3 ELSE 4)
  /\ loop_state' = loop_state + 1

TestPattern ==
  /\ ~ started /\ Followed /\ \E n \in GeneComes : loop_state < n
  /\ led_buf' = [k \in 0 .. LEDS - 1 |->
                   IF Shoot(LEDS) = k THEN ledSetRGB(Grey(53), IF k >= 2 THEN SHIFT ELSE SHIFT_EYES)
                   ELSE Black]
  /\ Later(elapsed)
  /\ UNCHANGED <<pattern, expressed, band, wave, started, eyes_on, hsv>>

\* The core has received the last codon.
Start ==
  /\ ~ started /\ Followed /\ loop_state \in GeneComes
  /\ started' = TRUE /\ band' \in Bands /\ wave' \in Waves
  /\ UNCHANGED <<pattern, expressed, clock, frame>>

\* A period that is over starts again.
Period == IF elapsed > tau THEN 0 ELSE elapsed

\* do_lightgene, and the eyes as they were last told to be.
Frame ==
  /\ started /\ loop_state < MaxLoops
  /\ eyes_on' \in BOOLEAN
  /\ hsv' = [i \in Pixel |-> [h |-> Hue(i), s |-> expressed.sat, v |-> Value(i, - Period)]]
  /\ led_buf' = Strip([i \in Pixel |-> HsvToRgb(hsv'[i])])
  /\ Later(Period)
  /\ UNCHANGED <<pattern, expressed, band, wave, started>>

RenderNext == RenderExpress \/ TestPattern \/ Start \/ Frame

RenderSpec == RenderInit /\ [][RenderNext]_renderVars
-----------------------------------------------------------------------------
InBand(h) ==
  LET lo == Least(band[1], band[2])
      hi == band[1] + band[2] - lo
  IN h \in lo .. hi \/ Around(h, lo) = 1 \/ Around(h, hi) = 1

Spotted(k) == led_buf[k] = ledSetRGB(Grey(160), SHIFT)

\* Every word of the ring is the spot or a colour of the gene's band, one step
\* outside it at most: map_16's rounding can take a hue below zero, which wraps
\* to 255, next to 0 on the circle.  No byte of HsvToRgb wraps or runs into the
\* next: each is within one step of the exact colour, dimmed, even where the
\* hues end at 255 (main.c:72-118, 201-216, 264-285, 334-372).
ColoursAreTrue ==
  \A i \in DOMAIN hsv :
    /\ InBand(hsv[i].h)
    /\ (HasSpot /\ Spotted(i + LED_OFFSET)) \/ IsColour(led_buf[i + LED_OFFSET], hsv[i])

\* A pixel's brightness changes no more than the wave does in 40 ms: the cosine
\* never leaves its range, so that no value wraps from dark to full, and the wave
\* goes on where its period starts again.
WaveFollows(i) == Magnitude(hsv'[i].v - hsv[i].v) <= 2 * (3200 \div tau + 2)

\* Its hue moves on by its rate along the band.
HueFollows(i) ==
  Around(hsv'[i].h, hsv[i].h)
    <= 1 + (Magnitude(band[2] - band[1]) * (expressed.hue_ratedir % 16)) \div 255

\* The spot, where the colours are too strong to look like one, stays or goes to
\* the next pixel.
SpotFollows(i) ==
  HasSpot /\ expressed.sat > 127 /\ Spotted(i + LED_OFFSET)' =>
    Spotted(i + LED_OFFSET) \/ Spotted(((i + COUNT - 1) % COUNT) + LED_OFFSET)

\* A frame follows from the one before, in brightness, hue and spot, also where the
\* loop of 512 positions closes (main.c:246-294, 325-346, fp_q16.h:283-323).
FramesFollow ==
  [][\A i \in DOMAIN hsv : WaveFollows(i) /\ HueFollows(i) /\ SpotFollows(i)]_renderVars
=============================================================================
