------------------------------ MODULE FadeThread ------------------------------
(***************************************************************************)
(* The fade thread of main.rs: on battery, and when the applications ask   *)
(* for it, the screen's brightness goes up and down; otherwise it is full. *)
(* The thread shares two flags with the power manager and reads them one   *)
(* after the other, once per turn.                                         *)
(*                                                                         *)
(* Brightness is the index into the gamma table, which rises from 0 to the *)
(* full brightness at STEPS.                                               *)
(***************************************************************************)
EXTENDS Naturals

CONSTANTS STEPS,  \* the display's full brightness
          INC     \* 2 in the code: table entries per turn

ASSUME FadeAssumption == STEPS \in 1 .. 255 /\ INC \in 1 .. 255

MIN == 0

VARIABLES run_led_fade, plugged_in,   \* set by the power manager
          pc,                         \* "fade", "plugged" or "act"
          do_fade, is_plugged,        \* what the thread has read
          up, t, was_fading,
          brightness,                 \* what the screen was last told
          faded                       \* history: the thread has begun to fade

shared == <<run_led_fade, plugged_in>>
thread == <<pc, do_fade, is_plugged, up, t, was_fading, brightness, faded>>
vars == <<shared, thread>>

Init ==
  /\ run_led_fade = FALSE /\ plugged_in \in BOOLEAN
  /\ pc = "fade" /\ do_fade = FALSE /\ is_plugged = FALSE
  /\ up = FALSE /\ t = MIN /\ was_fading = FALSE
  /\ brightness = STEPS /\ faded = FALSE

\* The power manager: SetFadeMode, and the handler of the VBUS interrupt.
SetFadeMode == run_led_fade' \in BOOLEAN /\ UNCHANGED <<plugged_in, thread>>
SetPluggedIn == plugged_in' \in BOOLEAN /\ UNCHANGED <<run_led_fade, thread>>

LoadFade ==
  /\ pc = "fade" /\ pc' = "plugged"
  /\ do_fade' = run_led_fade
  /\ UNCHANGED <<shared, is_plugged, up, t, was_fading, brightness, faded>>

LoadPlugged ==
  /\ pc = "plugged" /\ pc' = "act"
  /\ is_plugged' = plugged_in
  /\ UNCHANGED <<shared, do_fade, up, t, was_fading, brightness, faded>>

Down(x) == IF x > INC THEN x - INC ELSE MIN
Up(x) == IF x + INC < STEPS THEN x + INC ELSE STEPS

\* One step of the fade; it turns at either end.
Step ==
  IF up
    THEN t' = Up(t) /\ up' = (Up(t) # STEPS)
    ELSE t' = Down(t) /\ up' = (Down(t) = MIN)

Fade ==
  /\ pc = "act" /\ do_fade /\ ~ is_plugged
  /\ Step
  /\ brightness' = t' /\ faded' = TRUE
  /\ was_fading' = do_fade /\ pc' = "fade"
  /\ UNCHANGED <<shared, do_fade, is_plugged>>

\* As bugs would have it: only the cable restores the brightness, or the fade
\* goes on later from where it was.
RestoreWhenPlugged ==
  IF is_plugged THEN brightness' = STEPS /\ t' = STEPS ELSE UNCHANGED <<brightness, t>>
RestoreScreenOnly ==
  IF was_fading \/ is_plugged THEN brightness' = STEPS /\ UNCHANGED t
                              ELSE UNCHANGED <<brightness, t>>

Restore ==
  IF was_fading \/ is_plugged THEN brightness' = STEPS /\ t' = STEPS
                              ELSE UNCHANGED <<brightness, t>>

Steady ==
  /\ pc = "act" /\ ~ (do_fade /\ ~ is_plugged)
  /\ Restore
  /\ was_fading' = do_fade /\ pc' = "fade"
  /\ UNCHANGED <<shared, do_fade, is_plugged, up, faded>>

Thread == LoadFade \/ LoadPlugged \/ Fade \/ Steady

Next == SetFadeMode \/ SetPluggedIn \/ Thread

Spec == Init /\ [][Next]_vars

\* The thread's sleeps end.
FairSpec == Spec /\ WF_vars(Thread)
-----------------------------------------------------------------------------
TypeOK ==
  /\ run_led_fade \in BOOLEAN /\ plugged_in \in BOOLEAN
  /\ pc \in {"fade", "plugged", "act"}
  /\ do_fade \in BOOLEAN /\ is_plugged \in BOOLEAN
  /\ up \in BOOLEAN /\ t \in MIN .. STEPS /\ was_fading \in BOOLEAN
  /\ brightness \in MIN .. STEPS /\ faded \in BOOLEAN

Fading == run_led_fade /\ ~ plugged_in

\* A screen that is no longer to fade gets its full brightness back, however
\* the flags change while the thread is between its two loads (main.rs:97-104).
FullBrightnessComesBack == ~ Fading ~> (brightness = STEPS \/ Fading)

\* A dimmed screen is never forgotten: as long as it is, the thread remembers
\* that it was fading, or is about to act on a turn that was (main.rs:98, 104).
DimmedIsRemembered == brightness # STEPS => was_fading

\* Once it has faded for the first time the screen never gets darker by a jump,
\* even where a fade was interrupted on its way (main.rs:98-101).
DarkensInSteps ==
  [][faded /\ brightness' < brightness => brightness - brightness' <= INC]_vars

\* What DarkensInSteps rests on: a screen that has faded shows the table entry
\* the next fade starts from.
FadeResumesFromScreen == faded => brightness = t
=============================================================================
