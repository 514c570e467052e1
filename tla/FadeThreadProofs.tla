--------------------------- MODULE FadeThreadProofs ---------------------------
(***************************************************************************)
(* Theorems about FadeThread, for every table size and every increment.    *)
(***************************************************************************)
EXTENDS FadeThread, TLAPS

\* What is inductive: a dimmed screen is remembered, and a screen that has
\* faded shows the table entry the next step starts from.
IInv == TypeOK /\ DimmedIsRemembered /\ FadeResumesFromScreen

\* One step of the fade stays in the table and goes down by INC at most
\* (main.rs:84-94).
LEMMA StepBounded ==
  ASSUME TypeOK, Step
  PROVE  t' \in MIN .. STEPS /\ t - t' <= INC /\ up' \in BOOLEAN
<1> USE FadeAssumption DEF FadeAssumption, TypeOK, Step, Up, Down, MIN
<1>1. CASE up
    BY <1>1
<1>2. CASE ~ up
    BY <1>2
<1> QED BY <1>1, <1>2

\* The thread starts with a full screen (main.rs:74-77).
LEMMA InitIInv == Init => IInv
<1> SUFFICES ASSUME Init PROVE IInv
    OBVIOUS
<1>1. t \in MIN .. STEPS /\ brightness \in MIN .. STEPS
    BY FadeAssumption DEF FadeAssumption, Init, MIN
<1>2. TypeOK
    BY <1>1 DEF Init, TypeOK
<1>3. DimmedIsRemembered /\ FadeResumesFromScreen
    BY DEF Init, DimmedIsRemembered, FadeResumesFromScreen
<1> QED BY <1>2, <1>3 DEF IInv

\* Every turn of the thread, and every change of the shared flags, keeps the
\* invariant (main.rs:78-105).
LEMMA NextIInv == IInv /\ [Next]_vars => IInv'
<1> SUFFICES ASSUME IInv, [Next]_vars PROVE IInv'
    OBVIOUS
<1> USE DEF IInv, TypeOK, DimmedIsRemembered, FadeResumesFromScreen
<1>1. CASE SetFadeMode \/ SetPluggedIn
    BY <1>1 DEF SetFadeMode, SetPluggedIn, thread
<1>2. CASE LoadFade \/ LoadPlugged
    BY <1>2 DEF LoadFade, LoadPlugged, shared
<1>3. CASE Fade
    BY <1>3, StepBounded DEF Fade, shared
<1>4. CASE Steady
    BY <1>4, FadeAssumption DEF FadeAssumption, Steady, Restore, shared, MIN
<1>5. CASE UNCHANGED vars
    BY <1>5 DEF vars, shared, thread
<1> QED BY <1>1, <1>2, <1>3, <1>4, <1>5 DEF Next, Thread

\* The invariant holds in every state of every behaviour.
THEOREM Invariance == Spec => []IInv
  BY InitIInv, NextIInv, PTL DEF Spec

\* The variables keep their types: the table index never leaves the table
\* (main.rs:85, 90, 96).
THEOREM TypeCorrect == Spec => []TypeOK
  BY Invariance, PTL DEF IInv

\* A dimmed screen is never forgotten (main.rs:98, 104).
THEOREM DimmedStaysRemembered == Spec => []DimmedIsRemembered
  BY Invariance, PTL DEF IInv

\* A screen that has faded once gets darker in steps of INC at most
\* (main.rs:84-101).
THEOREM DarkensGradually == Spec => DarkensInSteps
<1> DEFINE Dark == faded /\ brightness' < brightness => brightness - brightness' <= INC
<1>1. IInv /\ [Next]_vars => [Dark]_vars
  <2> SUFFICES ASSUME IInv, [Next]_vars PROVE Dark
      OBVIOUS
  <2> USE DEF IInv, TypeOK, FadeResumesFromScreen
  <2>1. CASE Fade
      BY <2>1, StepBounded DEF Fade
  <2>2. CASE Steady
      BY <2>2, FadeAssumption DEF FadeAssumption, Steady, Restore, MIN
  <2>3. CASE UNCHANGED brightness
      BY <2>3, FadeAssumption DEF FadeAssumption, MIN
  <2> QED BY <2>1, <2>2, <2>3
      DEF Next, Thread, SetFadeMode, SetPluggedIn, LoadFade, LoadPlugged, vars, thread
<1> QED BY <1>1, Invariance, PTL DEF Spec, DarkensInSteps
=============================================================================
