------------------------------ MODULE TouchSensor ------------------------------
(***************************************************************************)
(* The touch sensor: the program bio/biosao/main.c on a BIO core, and the  *)
(* `bio rx` and `bio tx` of cmds/bio.rs at the other end of FIFO 3.        *)
(*                                                                         *)
(* Once a millisecond the core discharges a pin, lets it go and counts the *)
(* clock ticks until it is high; a finger makes that longer.  The counter  *)
(* has 30 bits, and where it wraps inside a count the code's formula gives *)
(* a number that is far too large.  The words on FIFO 3 are told apart by  *)
(* where they come from; an average's upper bits in a report are not.      *)
(***************************************************************************)
EXTENDS Naturals, Sequences, Functions

CONSTANTS DEPTH,           \* samples in the average, 32 in the code
          DEBOUNCE_COUNT,  \* 100 in the code
          TOUCH_MARGIN,    \* 2 in the code
          MAX_CLOCK,       \* the largest count, 0x3fffffff in the code
          WRAP_GAP,        \* a wrap is followed by as many counts without one
          FIFO_DEPTH,      \* 8 in the code
          Lowest, Highest, \* the counts without a finger
          Pressed          \* the counts with one

Slot == 0 .. DEPTH - 1
Idle == Lowest .. Highest

\* 2^30 ticks are hundreds of loops and a count is a few ticks of each.
ASSUME TouchAssumption ==
  /\ DEPTH \in Nat \ {0} /\ DEBOUNCE_COUNT \in DEPTH + 1 .. 255
  /\ TOUCH_MARGIN \in Nat \ {0} /\ MAX_CLOCK \in Nat
  /\ WRAP_GAP \in Nat /\ WRAP_GAP >= DEPTH + DEBOUNCE_COUNT
  /\ FIFO_DEPTH \in Nat /\ FIFO_DEPTH > 1
  /\ Lowest \in 1 .. Highest /\ Highest \in 1 .. MAX_CLOCK /\ TOUCH_MARGIN * Lowest >= Highest
  /\ Pressed \subseteq TOUCH_MARGIN * Highest + 1 .. MAX_CLOCK

VARIABLES
  pc,                                  \* the core: "rise", "check", "push", "drive" or "out"
  first_time,
  samples, samp_ptr, glitch_count,     \* TouchState
  touched, baseline_done, baseline,
  out,                                 \* the output pin is high
  fifo3,                               \* "report", "old" (see Read) or "word"
  host,                                \* the console: "shell", "wait", "read" or "tx"
  finger,                              \* there is a finger
  sinceFinger,                         \* history: counts since one with a finger, to 2 * DEPTH
  sinceWrap,                           \* counts since one with a wrap, to WRAP_GAP
  wrote                                \* history: the console has written to FIFO 3

debouncer == <<glitch_count, touched>>
window == <<samples, samp_ptr, baseline_done, baseline>>
outside == <<finger, sinceFinger, sinceWrap>>
fifoVars == <<fifo3, host, wrote>>
vars == <<pc, first_time, window, debouncer, out, fifoVars, outside>>

\* touch_init, and the pins before the loop.
Init ==
  /\ pc = "rise" /\ first_time = TRUE
  /\ samples = [s \in Slot |-> 0] /\ samp_ptr = 0
  /\ glitch_count = DEBOUNCE_COUNT /\ touched = FALSE
  /\ baseline_done = FALSE /\ baseline = 0
  /\ out = FALSE /\ fifo3 = <<>> /\ host = "shell"
  /\ finger \in BOOLEAN /\ sinceFinger = 2 * DEPTH /\ sinceWrap = WRAP_GAP
  /\ wrote = FALSE
-----------------------------------------------------------------------------
(* The core                                                                  *)

\* What main computes from the two readings of the counter if it wraps
\* between them: (0x3fffffff - aclk_end) + aclk_start.
Wrapped(ticks) == 2 * MAX_CLOCK + 1 - ticks

Average(s) == FoldFunction(+, 0, s) \div DEPTH

Bound == baseline' * TOUCH_MARGIN

\* As a bug would have it: an average that is not beyond the margin is skipped.
NoReset(beyond) ==
  IF ~ beyond THEN UNCHANGED debouncer
  ELSE IF glitch_count > 1 THEN glitch_count' = glitch_count - 1 /\ UNCHANGED touched
  ELSE touched' = ~ touched /\ glitch_count' = DEBOUNCE_COUNT

\* One average: DEBOUNCE_COUNT of them beyond the margin, one after the other,
\* turn the state over.
Debounce(beyond) ==
  IF beyond /\ glitch_count > 1
  THEN glitch_count' = glitch_count - 1 /\ UNCHANGED touched
  ELSE glitch_count' = DEBOUNCE_COUNT /\ touched' = IF beyond THEN ~ touched ELSE touched

\* As a bug would have it: a touch ends at the baseline.
BareBaseline(avg) == IF touched THEN avg < baseline' ELSE avg > Bound

Beyond(avg) == IF touched THEN avg < Bound ELSE avg > Bound

\* As a bug would have it: the pointer is taken modulo DEPTH before it is looked at.
PointerFirst(avg) ==
  LET full == (samp_ptr + 1) % DEPTH = DEPTH /\ ~ baseline_done
  IN baseline_done' = (baseline_done \/ full) /\ baseline' = IF full THEN avg ELSE baseline

\* The first full window is the baseline.
TakeBaseline(avg) ==
  LET full == samp_ptr + 1 = DEPTH /\ ~ baseline_done
  IN baseline_done' = (baseline_done \/ full) /\ baseline' = IF full THEN avg ELSE baseline

\* The first count after the start is only used to initialise.
touch_update(sample) ==
  IF first_time THEN UNCHANGED <<window, debouncer>>
  ELSE /\ samples' = [samples EXCEPT ![samp_ptr] = sample]
       /\ samp_ptr' = (samp_ptr + 1) % DEPTH
       /\ TakeBaseline(Average(samples'))
       /\ IF baseline_done' THEN Debounce(Beyond(Average(samples'))) ELSE UNCHANGED debouncer

Ticks == IF finger THEN Pressed ELSE Idle

Count(sample, wraps) ==
  /\ pc = "rise"
  /\ touch_update(sample)
  /\ pc' = "check" /\ first_time' = FALSE
  /\ sinceFinger' = IF finger THEN 0
                    ELSE IF sinceFinger < 2 * DEPTH THEN sinceFinger + 1 ELSE sinceFinger
  /\ sinceWrap' = IF wraps THEN 0
                  ELSE IF sinceWrap < WRAP_GAP THEN sinceWrap + 1 ELSE sinceWrap
  /\ UNCHANGED <<out, fifoVars, finger>>

\* The pin rises, the clock not having wrapped or having wrapped.
Rise == \E t \in Ticks : Count(t, FALSE)
RiseAfterWrap == sinceWrap = WRAP_GAP /\ \E t \in Ticks : Count(Wrapped(t), TRUE)

\* As a bug would have it: a report is pushed as long as there is room.
AnyRoom == pc' = IF Len(fifo3) < FIFO_DEPTH THEN "push" ELSE "drive"

OnlyEmpty == pc' = IF fifo3 = <<>> THEN "push" ELSE "drive"

CheckEmpty ==
  /\ pc = "check"
  /\ OnlyEmpty
  /\ UNCHANGED <<first_time, window, debouncer, out, fifoVars, outside>>

PushReport ==
  /\ pc = "push" /\ Len(fifo3) < FIFO_DEPTH
  /\ fifo3' = Append(fifo3, "report")
  /\ pc' = "drive"
  /\ UNCHANGED <<first_time, window, debouncer, out, host, wrote, outside>>

\* clear_gpio_pins_n(!input_mask) is to clear the input's pin; `!` makes its
\* argument zero, and the output's pin is cleared with it.
DriveLow ==
  /\ pc = "drive"
  /\ out' = FALSE
  /\ pc' = "out"
  /\ UNCHANGED <<first_time, window, debouncer, fifoVars, outside>>

SetOutput ==
  /\ pc = "out"
  /\ out' = touched
  /\ pc' = "rise"
  /\ UNCHANGED <<first_time, window, debouncer, fifoVars, outside>>

Core == Rise \/ RiseAfterWrap \/ CheckEmpty \/ PushReport \/ DriveLow \/ SetOutput
-----------------------------------------------------------------------------
(* The console and the finger                                                *)

ofCore == <<pc, first_time, window, debouncer, out>>

BioRx == host = "shell" /\ host' = "wait" /\ UNCHANGED <<ofCore, fifo3, wrote, outside>>

\* There is a word, or the time is up; either way the FIFO is read.
Wait == host = "wait" /\ host' = "read" /\ UNCHANGED <<ofCore, fifo3, wrote, outside>>

\* The reports that a read leaves behind are old to the next one.
Read ==
  /\ host = "read"
  /\ fifo3' = IF fifo3 = <<>> THEN <<>>
              ELSE [i \in DOMAIN Tail(fifo3) |-> IF fifo3[i + 1] = "word" THEN "word" ELSE "old"]
  /\ host' \in {"wait", "shell"}
  /\ UNCHANGED <<ofCore, wrote, outside>>

BioTx == host = "shell" /\ host' = "tx" /\ UNCHANGED <<ofCore, fifo3, wrote, outside>>

\* At most one word comes between the core's look at the FIFO and its push.
Write ==
  /\ host = "tx" /\ Len(fifo3) < FIFO_DEPTH
  /\ pc = "push" => fifo3 = <<>>
  /\ fifo3' = Append(fifo3, "word") /\ wrote' = TRUE
  /\ host' \in {"tx", "shell"}
  /\ UNCHANGED <<ofCore, outside>>

WriteTimeout ==
  /\ host = "tx" /\ Len(fifo3) = FIFO_DEPTH
  /\ host' = "shell"
  /\ UNCHANGED <<ofCore, fifo3, wrote, outside>>

Console == BioRx \/ Wait \/ Read \/ BioTx \/ Write \/ WriteTimeout

Finger == finger' = ~ finger /\ UNCHANGED <<ofCore, fifoVars, sinceFinger, sinceWrap>>

Next == Core \/ Console \/ Finger

Spec == Init /\ [][Next]_vars

\* The core runs, and the pin's pull-up charges it whatever touches it.
FairSpec == Spec /\ WF_vars(Core)
-----------------------------------------------------------------------------
TypeOK ==
  /\ pc \in {"rise", "check", "push", "drive", "out"}
  /\ first_time \in BOOLEAN /\ samples \in [Slot -> Nat] /\ samp_ptr \in Slot
  /\ glitch_count \in 1 .. DEBOUNCE_COUNT /\ touched \in BOOLEAN
  /\ baseline_done \in BOOLEAN /\ baseline \in Nat /\ out \in BOOLEAN
  /\ fifo3 \in Seq({"report", "old", "word"}) /\ Len(fifo3) <= FIFO_DEPTH
  /\ host \in {"shell", "wait", "read", "tx"} /\ wrote \in BOOLEAN
  /\ finger \in BOOLEAN /\ sinceFinger \in 0 .. 2 * DEPTH /\ sinceWrap \in 0 .. WRAP_GAP

\* The state turns to touched only shortly after a count with a finger: an
\* average that a wrap of the clock has spoilt lasts DEPTH counts, which is
\* less than the debouncer asks for (main.c:51-90, 120-134).
NoFalseTouch == [][touched' /\ ~ touched => sinceFinger' < 2 * DEPTH]_vars

\* A finger that stays is seen at the output, unless the baseline was taken
\* with a finger or a wrap in its window (main.c:54-90, 143-147).
TouchIsSeen == <>[]finger => []<>(out \/ baseline > Highest)

\* When the finger has gone, the output goes low and stays so, though the clock
\* goes on wrapping (main.c:78-89, 143-147).
ReleaseIsSeen == <>[](~ finger) => <>[](~ out)

\* The report a read finds was pushed after the read before it, as long as
\* nobody writes to the FIFO from the console (main.c:136-138, bio.rs:489-513).
ReportsAreFresh == ~ wrote => \A i \in DOMAIN fifo3 : fifo3[i] # "old"
=============================================================================
