----------------------------- MODULE TouchProofs -----------------------------
(***************************************************************************)
(* The touch sensor's debouncer, its FIFO and its averages, for windows,   *)
(* debouncers and FIFOs of any length.  The average is a fold, that is, a  *)
(* recursion over sets: its iterates are shown to exist and to be bounded  *)
(* by looking at a smallest set where they would not.                      *)
(***************************************************************************)
EXTENDS TouchSensor, SlotLemmas

\* The debouncer's byte neither reaches zero nor wraps.
GlitchInv == glitch_count \in 1 .. DEBOUNCE_COUNT /\ touched \in BOOLEAN

LEMMA CountIsPositive == DEBOUNCE_COUNT \in Nat /\ DEBOUNCE_COUNT > 0
BY TouchAssumption

\* What one average does to the debouncer (main.c:67-90).
LEMMA Debounced ==
  ASSUME GlitchInv, NEW beyond, Debounce(beyond)
  PROVE  /\ GlitchInv'
         /\ ~ beyond => glitch_count' = DEBOUNCE_COUNT /\ touched' = touched
         /\ glitch_count' >= glitch_count - 1
         /\ touched' # touched => beyond /\ glitch_count = 1 /\ glitch_count' = DEBOUNCE_COUNT
<1>1. /\ glitch_count \in Nat /\ glitch_count > 0 /\ glitch_count <= DEBOUNCE_COUNT
      /\ DEBOUNCE_COUNT \in Nat
  BY CountIsPositive DEF GlitchInv
<1>2. CASE beyond /\ glitch_count > 1 BY <1>1, <1>2 DEF Debounce, GlitchInv
<1>3. CASE ~ (beyond /\ glitch_count > 1)
  <2>1. glitch_count' = DEBOUNCE_COUNT BY <1>3 DEF Debounce
  <2>2. touched' = IF beyond THEN ~ touched ELSE touched BY <1>3 DEF Debounce
  <2>3. touched' # touched => beyond BY <2>2
  <2>4. beyond => glitch_count = 1 BY <1>1, <1>3
  <2>5. ~ beyond => touched' = touched BY <2>2
  <2>6. touched' \in BOOLEAN BY <2>2, Zenon DEF GlitchInv
  <2>7. GlitchInv' BY <1>1, <2>1, <2>6 DEF GlitchInv
  <2> QED BY <1>1, <2>1, <2>3, <2>4, <2>5, <2>7
<1> QED BY <1>2, <1>3

LEMMA GlitchStep == ASSUME GlitchInv, [Next]_vars PROVE GlitchInv'
<1> USE DEF GlitchInv
<1>1. ASSUME NEW beyond, Debounce(beyond) PROVE GlitchInv' BY <1>1, Debounced
<1>2. ASSUME NEW s, NEW w, Count(s, w) PROVE GlitchInv'
  <2>1. CASE UNCHANGED debouncer BY <2>1 DEF debouncer
  <2>2. CASE Debounce(Beyond(Average(samples'))) BY <1>1, <2>2
  <2> QED BY <1>2, <2>1, <2>2 DEF Count, touch_update
<1>3. ASSUME UNCHANGED debouncer PROVE GlitchInv' BY <1>3 DEF debouncer
<1>4. CASE Core
  BY <1>2, <1>3, <1>4
  DEF Core, Rise, RiseAfterWrap, CheckEmpty, PushReport, DriveLow, SetOutput
<1>5. CASE Console \/ Finger \/ UNCHANGED vars
  BY <1>3, <1>5
  DEF Console, Finger, BioRx, Wait, Read, BioTx, Write, WriteTimeout, ofCore, vars
<1> QED BY <1>4, <1>5 DEF Next

\* uint8_t glitch_count stays between 1 and DEBOUNCE_COUNT: the decrement never
\* goes below zero, and a state that turns over starts a full count (main.c:67-90).
THEOREM GlitchCountInRange == Spec => []GlitchInv
<1>1. ASSUME Init PROVE GlitchInv
  <2>1. glitch_count = DEBOUNCE_COUNT BY <1>1 DEF Init
  <2>2. touched \in BOOLEAN BY <1>1, Zenon DEF Init
  <2> QED BY <2>1, <2>2, CountIsPositive DEF GlitchInv
<1> QED BY <1>1, GlitchStep, PTL DEF Spec
-----------------------------------------------------------------------------
\* Where nobody writes, FIFO 3 holds one report at most, and none when the core
\* is about to push one.
FifoInv ==
  ~ wrote => fifo3 \in {<<>>, <<"report">>} /\ (pc = "push" => fifo3 = <<>>)

LEMMA FifoStep == ASSUME FifoInv, [Next]_vars PROVE FifoInv'
<1> USE DEF FifoInv
<1>1. ASSUME NEW s, NEW w, Count(s, w) PROVE FifoInv' BY <1>1 DEF Count, fifoVars
<1>2. CASE CheckEmpty BY <1>2 DEF CheckEmpty, OnlyEmpty, fifoVars
<1>3. CASE PushReport
  <2>1. fifo3 = <<>> => Append(fifo3, "report") = <<"report">> OBVIOUS
  <2> QED BY <1>3, <2>1 DEF PushReport
<1>4. CASE DriveLow \/ SetOutput BY <1>4 DEF DriveLow, SetOutput, fifoVars
<1>5. CASE Read
  <2>1. fifo3 = <<"report">> =>
          [i \in DOMAIN Tail(fifo3) |-> IF fifo3[i + 1] = "word" THEN "word" ELSE "old"] = <<>>
    OBVIOUS
  <2>2. UNCHANGED <<pc, wrote>> BY <1>5 DEF Read, ofCore
  <2> QED BY <1>5, <2>1, <2>2 DEF Read
<1>6. CASE Write BY <1>6 DEF Write
<1>7. CASE BioRx \/ Wait \/ BioTx \/ WriteTimeout \/ Finger \/ UNCHANGED vars
  BY <1>7 DEF BioRx, Wait, BioTx, WriteTimeout, Finger, ofCore, fifoVars, vars
<1> QED
  BY <1>1, <1>2, <1>3, <1>4, <1>5, <1>6, <1>7
  DEF Next, Core, Console, Rise, RiseAfterWrap

\* A report that is read was pushed after the read before it, whatever the FIFO's
\* depth, as long as the console does not write (main.c:136-138, bio.rs:489-513).
THEOREM ReportsFresh == Spec => []ReportsAreFresh
<1>1. Init => FifoInv BY DEF Init, FifoInv
<1>2. FifoInv => ReportsAreFresh BY DEF FifoInv, ReportsAreFresh
<1> QED BY <1>1, <1>2, FifoStep, PTL DEF Spec
-----------------------------------------------------------------------------
\* What the fold of TouchSensor's Average unfolds to.
Any(s) == CHOOSE x \in s : TRUE
Added(f, g, s) == IF s = {} THEN 0 ELSE f[Any(s)] + g[s \ {Any(s)}]
Iterates(f, S, g) == g = [s \in SUBSET S |-> Added(f, g, s)]

LEMMA Unfolded ==
  ASSUME NEW f
  PROVE  FoldFunction(+, 0, f) = (CHOOSE g : Iterates(f, DOMAIN f, g))[DOMAIN f]
BY DEF FoldFunction, FoldFunctionOnSet, MapThenFoldSet, Iterates, Added, Any

\* Taking one element away.
LEMMA OneLess ==
  ASSUME NEW S, IsFiniteSet(S), NEW s \in SUBSET S
  PROVE  /\ IsFiniteSet(s) /\ Cardinality(s) \in Nat /\ Cardinality(s) <= Cardinality(S)
         /\ s = {} <=> Cardinality(s) = 0
         /\ s # {} => /\ Any(s) \in s /\ s \ {Any(s)} \in SUBSET S
                      /\ Cardinality(s \ {Any(s)}) = Cardinality(s) - 1
<1>1. IsFiniteSet(s) /\ Cardinality(s) <= Cardinality(S) BY FS_Subset
<1>2. Cardinality(s) \in Nat BY <1>1, FS_CardinalityType
<1>3. s = {} <=> Cardinality(s) = 0 BY <1>1, FS_EmptySet
<1>4. ASSUME s # {} PROVE Any(s) \in s BY <1>4 DEF Any
<1>5. ASSUME s # {} PROVE Cardinality(s \ {Any(s)}) = Cardinality(s) - 1
  BY <1>1, <1>4, <1>5, FS_RemoveElement
<1> QED BY <1>1, <1>2, <1>3, <1>4, <1>5

\* The fold of a finite set is defined: from the iterates of the sets smaller
\* than n come those of the sets of n elements.
LEMMA IterationExists ==
  ASSUME NEW S, IsFiniteSet(S), NEW f
  PROVE  \E g : Iterates(f, S, g)
<1> DEFINE Upto(n, g) == \A s \in SUBSET S : Cardinality(s) <= n => g[s] = Added(f, g, s)
           Bad == {n \in Nat : ~ \E g : Upto(n, g)}
<1>1. Bad = {}
  <2> SUFFICES ASSUME Bad # {} PROVE FALSE OBVIOUS
  <2>1. PICK n \in Bad : \A m \in Bad : n <= m BY LeastNatural, Bad \in SUBSET Nat
  <2>2. n \in Nat /\ ~ \E g : Upto(n, g) BY <2>1
  <2>3. CASE n = 0
    <3> DEFINE g == [s \in SUBSET S |-> 0]
    <3>1. ASSUME NEW s \in SUBSET S, Cardinality(s) <= 0 PROVE g[s] = Added(f, g, s)
      <4>1. s = {}
        <5>1. Cardinality(s) \in Nat BY OneLess
        <5>2. Cardinality(s) = 0 BY <3>1, <5>1
        <5> QED BY <5>2, OneLess
      <4> QED BY <4>1 DEF Added
    <3>2. Upto(0, g) BY <3>1
    <3> QED BY <2>2, <2>3, <3>2
  <2>4. CASE n # 0
    <3>1. n - 1 \in Nat /\ n - 1 \notin Bad BY <2>1, <2>2, <2>4
    <3>2. PICK g : Upto(n - 1, g) BY <3>1
    <3> DEFINE h == [s \in SUBSET S |-> IF Cardinality(s) < n THEN g[s] ELSE Added(f, g, s)]
    <3>3. ASSUME NEW s \in SUBSET S, Cardinality(s) <= n PROVE h[s] = Added(f, h, s)
      <4>1. Added(f, h, s) = Added(f, g, s)
        <5>1. CASE s = {} BY <5>1 DEF Added
        <5>2. CASE s # {}
          <6> DEFINE t == s \ {Any(s)}
          <6>1. t \in SUBSET S /\ Cardinality(t) = Cardinality(s) - 1 /\ Cardinality(s) \in Nat
            BY <5>2, OneLess
          <6>2. Cardinality(t) < n BY <2>2, <3>3, <6>1
          <6>3. h[t] = g[t] BY <6>1, <6>2
          <6> QED BY <5>2, <6>3 DEF Added
        <5> QED BY <5>1, <5>2
      <4>2. CASE Cardinality(s) < n
        <5>3. Cardinality(s) \in Nat BY OneLess
        <5>1. Cardinality(s) <= n - 1 BY <2>2, <4>2, <5>3
        <5>2. h[s] = g[s] BY <4>2
        <5> QED BY <3>2, <4>1, <5>1, <5>2
      <4>3. CASE ~ (Cardinality(s) < n) BY <4>1, <4>3
      <4> QED BY <4>2, <4>3
    <3>4. Upto(n, h) BY <3>3
    <3> QED BY <2>2, <3>4
  <2> QED BY <2>3, <2>4
<1>2. Cardinality(S) \in Nat BY FS_CardinalityType
<1>3. PICK g : Upto(Cardinality(S), g) BY <1>1, <1>2
<1>4. ASSUME NEW s \in SUBSET S PROVE g[s] = Added(f, g, s) BY <1>3, OneLess
<1> DEFINE h == [s \in SUBSET S |-> g[s]]
<1>5. ASSUME NEW s \in SUBSET S PROVE h[s] = Added(f, h, s)
  <2>1. CASE s = {} BY <1>4, <2>1 DEF Added
  <2>2. CASE s # {}
    <3>1. s \ {Any(s)} \in SUBSET S BY <2>2
    <3>2. h[s \ {Any(s)}] = g[s \ {Any(s)}] BY <3>1
    <3> QED BY <1>4, <2>2, <3>2 DEF Added
  <2> QED BY <2>1, <2>2
<1>6. Iterates(f, S, h)
  <2>1. h = [s \in SUBSET S |-> h[s]] OBVIOUS
  <2> HIDE DEF h
  <2>2. [s \in SUBSET S |-> h[s]] = [s \in SUBSET S |-> Added(f, h, s)] BY <1>5
  <2> QED BY <2>1, <2>2 DEF Iterates
<1> QED BY <1>6

LEMMA TimesNext == \A n, h \in Nat : (n + 1) * h = n * h + h
OBVIOUS

\* A sum is at least its number of terms times what every term is at least, and
\* at most its number of terms times what every term is at most.
LEMMA SumBounds ==
  ASSUME NEW S, IsFiniteSet(S), NEW f \in [S -> Nat], NEW lo \in Nat, NEW hi \in Nat
  PROVE  /\ FoldFunction(+, 0, f) \in Nat
         /\ (\A x \in S : lo <= f[x]) => Cardinality(S) * lo <= FoldFunction(+, 0, f)
         /\ (\A x \in S : f[x] <= hi) => FoldFunction(+, 0, f) <= Cardinality(S) * hi
<1> DEFINE g == CHOOSE g : Iterates(f, S, g)
           Low == \A x \in S : lo <= f[x]
           High == \A x \in S : f[x] <= hi
<1>1. Iterates(f, S, g) BY IterationExists
<1> HIDE DEF g
<1>2. ASSUME NEW s \in SUBSET S PROVE g[s] = Added(f, g, s) BY <1>1 DEF Iterates
<1> DEFINE Within(s) == /\ g[s] \in Nat
                        /\ Low => Cardinality(s) * lo <= g[s]
                        /\ High => g[s] <= Cardinality(s) * hi
           Bad == {n \in Nat : \E s \in SUBSET S : Cardinality(s) = n /\ ~ Within(s)}
<1>3. Bad = {}
  <2> SUFFICES ASSUME Bad # {} PROVE FALSE OBVIOUS
  <2>1. PICK n \in Bad : \A m \in Bad : n <= m BY LeastNatural, Bad \in SUBSET Nat
  <2>2. PICK s \in SUBSET S : Cardinality(s) = n /\ ~ Within(s) BY <2>1
  <2>3. CASE s = {}
    <3>1. g[s] = 0 BY <1>2, <2>3 DEF Added
    <3>2. Cardinality(s) = 0 BY <2>3, OneLess
    <3>3. 0 * lo = 0 /\ 0 * hi = 0 OBVIOUS
    <3> QED BY <2>2, <3>1, <3>2, <3>3
  <2>4. CASE s # {}
    <3> DEFINE x == Any(s)   t == s \ {x}
    <3>1. /\ t \in SUBSET S /\ Cardinality(t) \in Nat /\ Cardinality(s) = Cardinality(t) + 1
          /\ x \in S
      <4>1. t \in SUBSET S OBVIOUS
      <4>2. Cardinality(t) \in Nat
        <5> HIDE DEF t
        <5> QED BY <4>1, OneLess
      <4>3. Cardinality(s) \in Nat /\ x \in s /\ Cardinality(t) = Cardinality(s) - 1
        BY <2>4, OneLess
      <4> QED BY <4>1, <4>2, <4>3
    <3>2. Cardinality(t) \notin Bad
      <4> HIDE DEF Bad, t
      <4>1. n = Cardinality(t) + 1 BY <2>2, <3>1
      <4>2. ~ (n <= Cardinality(t)) BY <3>1, <4>1
      <4> QED BY <2>1, <4>2
    <3>3. Within(t) BY <3>1, <3>2
    <3>4. g[s] = f[x] + g[t] BY <1>2, <2>4 DEF Added
    <3>5. f[x] \in Nat /\ (Low => lo <= f[x]) /\ (High => f[x] <= hi) BY <3>1
    <3> DEFINE k == Cardinality(t)
    <3>6. k \in Nat /\ Cardinality(s) = k + 1 BY <3>1
    <3>7. g[t] \in Nat /\ (Low => k * lo <= g[t]) /\ (High => g[t] <= k * hi) BY <3>3
    <3>8. /\ (k + 1) * lo = k * lo + lo /\ (k + 1) * hi = k * hi + hi
          /\ k * lo \in Nat /\ k * hi \in Nat
      <4> HIDE DEF k
      <4>1. k * lo \in Nat /\ k * hi \in Nat BY <3>6
      <4>2. (k + 1) * lo = k * lo + lo /\ (k + 1) * hi = k * hi + hi BY <3>6, TimesNext
      <4> QED BY <4>1, <4>2
    <3>9. Within(s)
      <4> HIDE DEF x, t, k, Low, High
      <4> QED BY <3>4, <3>5, <3>6, <3>7, <3>8
    <3> QED BY <2>2, <3>9
  <2> QED BY <2>3, <2>4
<1>4. Cardinality(S) \in Nat BY FS_CardinalityType
<1>5. Within(S) BY <1>3, <1>4
<1>6. FoldFunction(+, 0, f) = g[S]
  <2>1. DOMAIN f = S OBVIOUS
  <2> QED BY <2>1, Unfolded DEF g
<1> QED BY <1>5, <1>6

LEMMA QuotientBounds ==
  ASSUME NEW d \in Nat \ {0}, NEW x \in Nat, NEW lo \in Nat, NEW hi \in Nat
  PROVE  /\ x \div d \in Nat
         /\ d * lo <= x => lo <= x \div d
         /\ x <= d * hi => x \div d <= hi
OBVIOUS

\* An average is at least what every sample is at least, and at most what every
\* sample is at most (main.c:51-55).
LEMMA AverageBounds ==
  ASSUME NEW s \in [Slot -> Nat], NEW lo \in Nat, NEW hi \in Nat
  PROVE  /\ Average(s) \in Nat
         /\ (\A i \in Slot : lo <= s[i]) => lo <= Average(s)
         /\ (\A i \in Slot : s[i] <= hi) => Average(s) <= hi
<1>1. DEPTH \in Nat \ {0} BY TouchAssumption
<1>2. IsFiniteSet(Slot) /\ Cardinality(Slot) = DEPTH
  <2>1. Cardinality(0 .. DEPTH - 1) = DEPTH BY <1>1, FS_Interval
  <2> QED BY <1>1, <2>1, FS_Interval DEF Slot
<1> DEFINE sum == FoldFunction(+, 0, s)
<1>3. /\ sum \in Nat
      /\ (\A i \in Slot : lo <= s[i]) => DEPTH * lo <= sum
      /\ (\A i \in Slot : s[i] <= hi) => sum <= DEPTH * hi
  BY <1>2, SumBounds
<1>4. Average(s) = sum \div DEPTH BY DEF Average
<1> HIDE DEF sum
<1> QED BY <1>1, <1>3, <1>4, QuotientBounds
-----------------------------------------------------------------------------
\* How many counts ago the slot was filled.
Age(s) == IF s < samp_ptr THEN samp_ptr - 1 - s ELSE samp_ptr + DEPTH - 1 - s

TouchTypes ==
  /\ samples \in [Slot -> Nat] /\ samp_ptr \in Slot /\ baseline \in Nat
  /\ first_time \in BOOLEAN /\ baseline_done \in BOOLEAN /\ finger \in BOOLEAN
  /\ sinceFinger \in 0 .. 2 * DEPTH /\ sinceWrap \in 0 .. WRAP_GAP
  /\ GlitchInv

\* What was counted with neither a finger nor a wrap is small.
Small == \A s \in Slot : Age(s) < sinceFinger /\ Age(s) < sinceWrap => samples[s] <= Highest

\* Until the first window is full nothing is decided; no baseline is too small.
Begun ==
  /\ first_time => samp_ptr = 0 /\ ~ baseline_done /\ samples = [s \in Slot |-> 0]
  /\ ~ baseline_done => /\ ~ touched /\ glitch_count = DEBOUNCE_COUNT
                        /\ \A s \in Slot : s < samp_ptr => Lowest <= samples[s]
  /\ baseline_done => Lowest <= baseline

\* The debouncer does not count while the window holds neither, and where it
\* holds only a wrap, at most the averages since the wrap.
Slow ==
  ~ touched =>
    /\ sinceFinger >= DEPTH /\ sinceWrap >= DEPTH => glitch_count = DEBOUNCE_COUNT
    /\ sinceWrap < DEPTH /\ sinceFinger >= DEPTH + sinceWrap + 1 =>
         glitch_count + sinceWrap + 1 >= DEBOUNCE_COUNT

TouchInv == TouchTypes /\ Small /\ Begun /\ Slow

LEMMA TouchConstants ==
  /\ DEPTH \in Nat /\ DEPTH > 0 /\ DEBOUNCE_COUNT \in Nat /\ DEBOUNCE_COUNT > DEPTH
  /\ TOUCH_MARGIN \in Nat /\ TOUCH_MARGIN > 0 /\ MAX_CLOCK \in Nat
  /\ WRAP_GAP \in Nat /\ WRAP_GAP >= DEPTH + DEBOUNCE_COUNT
  /\ Lowest \in Nat /\ Highest \in Nat /\ 0 < Lowest /\ Lowest <= Highest /\ Highest <= MAX_CLOCK
  /\ TOUCH_MARGIN * Lowest >= Highest
  /\ Pressed \subseteq Highest .. MAX_CLOCK
<1>1. TOUCH_MARGIN * Highest >= Highest BY TouchAssumption
<1>2. TOUCH_MARGIN * Highest \in Nat BY TouchAssumption
<1>3. \A t \in TOUCH_MARGIN * Highest + 1 .. MAX_CLOCK : t \in Highest .. MAX_CLOCK
  <2>1. \A m \in Nat : m >= Highest => \A t \in m + 1 .. MAX_CLOCK : t \in Highest .. MAX_CLOCK
    BY TouchAssumption
  <2> QED BY <1>1, <1>2, <2>1
<1>4. Pressed \subseteq TOUCH_MARGIN * Highest + 1 .. MAX_CLOCK BY TouchAssumption
<1>5. Pressed \subseteq Highest .. MAX_CLOCK BY <1>3, <1>4
<1> QED BY <1>5, TouchAssumption

\* The slot that is filled becomes the youngest, the others age (main.c:48-65).
LEMMA Aging ==
  ASSUME samp_ptr \in Slot, samp_ptr' = (samp_ptr + 1) % DEPTH
  PROVE  /\ samp_ptr' \in Slot
         /\ samp_ptr' = IF samp_ptr + 1 = DEPTH THEN 0 ELSE samp_ptr + 1
         /\ \A s \in Slot : /\ Age(s)' = IF s = samp_ptr THEN 0 ELSE Age(s) + 1
                            /\ Age(s) \in 0 .. DEPTH - 1 /\ Age(s)' \in 0 .. DEPTH - 1
<1>1. samp_ptr' = IF samp_ptr + 1 = DEPTH THEN 0 ELSE samp_ptr + 1
  <2>1. CASE samp_ptr + 1 = DEPTH BY <2>1, TouchConstants
  <2>2. CASE samp_ptr + 1 # DEPTH
    <3>1. samp_ptr + 1 \in 0 .. DEPTH - 1 BY <2>2, TouchConstants DEF Slot
    <3>2. \A d \in Nat : d > 0 => \A x \in 0 .. d - 1 : x % d = x OBVIOUS
    <3> QED BY <2>2, <3>1, <3>2, TouchConstants
  <2> QED BY <2>1, <2>2
<1> QED BY <1>1, TouchConstants DEF Slot, Age

\* What a count may be (main.c:127-131).
Counted(sample, wraps) ==
  /\ sample \in Nat /\ Lowest <= sample /\ wraps \in BOOLEAN
  /\ wraps => sinceWrap = WRAP_GAP
  /\ ~ finger /\ ~ wraps => sample <= Highest

\* A count with neither a finger nor a wrap in the window leaves the average
\* small, and the first baseline is not too small.
LEMMA Windows ==
  ASSUME TouchInv, NEW sample, NEW wraps, Counted(sample, wraps), Count(sample, wraps), ~ first_time
  PROVE  /\ samples' \in [Slot -> Nat] /\ Small' /\ Average(samples') \in Nat
         /\ sinceFinger' >= DEPTH /\ sinceWrap' >= DEPTH => Average(samples') <= Highest
         /\ baseline' \in Nat /\ baseline_done' \in BOOLEAN /\ (baseline_done => baseline_done')
         /\ ~ baseline_done' => samp_ptr' = samp_ptr + 1
         /\ baseline_done' => Lowest <= baseline'
         /\ \A s \in Slot : ~ baseline_done' /\ s < samp_ptr' => Lowest <= samples'[s]
<1> USE TouchConstants DEF TouchInv
<1>1. /\ samp_ptr \in Slot /\ samples \in [Slot -> Nat] /\ baseline \in Nat
      /\ baseline_done \in BOOLEAN
  BY DEF TouchTypes
<1>2. samp_ptr' = (samp_ptr + 1) % DEPTH /\ samples' = [samples EXCEPT ![samp_ptr] = sample]
  BY DEF Count, touch_update
<1>3. sample \in Nat /\ Lowest <= sample BY DEF Counted
<1>4. samples' \in [Slot -> Nat] BY <1>1, <1>2, <1>3
<1>5. \A s \in Slot : samples'[s] = IF s = samp_ptr THEN sample ELSE samples[s] BY <1>1, <1>2
<1>6. /\ sinceFinger' = IF finger THEN 0
                        ELSE IF sinceFinger < 2 * DEPTH THEN sinceFinger + 1 ELSE sinceFinger
      /\ sinceWrap' = IF wraps THEN 0
                      ELSE IF sinceWrap < WRAP_GAP THEN sinceWrap + 1 ELSE sinceWrap
  BY DEF Count
<1>7. sinceFinger \in 0 .. 2 * DEPTH /\ sinceWrap \in 0 .. WRAP_GAP BY DEF TouchTypes
<1>8. Small'
  <2> SUFFICES ASSUME NEW s \in Slot, Age(s)' < sinceFinger', Age(s)' < sinceWrap'
               PROVE  samples'[s] <= Highest
    BY DEF Small
  <2>1. Age(s)' \in 0 .. DEPTH - 1 /\ Age(s) \in 0 .. DEPTH - 1 BY <1>1, <1>2, Aging
  <2>2. ~ finger /\ ~ wraps BY <1>6, <2>1
  <2>3. CASE s = samp_ptr BY <1>5, <2>2, <2>3 DEF Counted
  <2>4. CASE s # samp_ptr
    <3>1. Age(s)' = Age(s) + 1 BY <1>1, <1>2, <2>4, Aging
    <3>2. Age(s) < sinceFinger /\ Age(s) < sinceWrap BY <1>6, <1>7, <2>1, <2>2, <3>1
    <3> QED BY <1>5, <2>4, <3>2 DEF Small
  <2> QED BY <2>3, <2>4
<1>9. ASSUME sinceFinger' >= DEPTH, sinceWrap' >= DEPTH PROVE Average(samples') <= Highest
  <2>1. sinceFinger' \in Nat /\ sinceWrap' \in Nat BY <1>6, <1>7
  <2>2. ASSUME NEW s \in Slot PROVE samples'[s] <= Highest
    <3>1. Age(s)' \in 0 .. DEPTH - 1 BY <1>1, <1>2, Aging
    <3>2. Age(s)' < sinceFinger' /\ Age(s)' < sinceWrap' BY <1>9, <2>1, <3>1
    <3> QED BY <1>8, <3>2 DEF Small
  <2> QED BY <1>4, <2>2, AverageBounds
<1>10. Average(samples') \in Nat BY <1>4, AverageBounds
<1> DEFINE full == samp_ptr + 1 = DEPTH /\ ~ baseline_done
<1>11. /\ baseline_done' = (baseline_done \/ full)
       /\ baseline' = IF full THEN Average(samples') ELSE baseline
  BY DEF Count, touch_update, TakeBaseline
<1>12. baseline' \in Nat /\ baseline_done' \in BOOLEAN /\ (baseline_done => baseline_done')
  BY <1>1, <1>10, <1>11
<1>13. \A s \in Slot : ~ baseline_done /\ s <= samp_ptr => Lowest <= samples'[s]
  <2> SUFFICES ASSUME NEW s \in Slot, ~ baseline_done, s <= samp_ptr PROVE Lowest <= samples'[s]
    OBVIOUS
  <2>1. CASE s = samp_ptr BY <1>3, <1>5, <2>1
  <2>2. CASE s # samp_ptr
    <3>1. s < samp_ptr BY <1>1, <2>2 DEF Slot
    <3> QED BY <1>5, <2>2, <3>1 DEF Begun
  <2> QED BY <2>1, <2>2
<1>14. samp_ptr' = IF samp_ptr + 1 = DEPTH THEN 0 ELSE samp_ptr + 1 BY <1>1, <1>2, Aging
<1>15. ASSUME ~ baseline_done' PROVE ~ baseline_done /\ samp_ptr' = samp_ptr + 1
  BY <1>1, <1>11, <1>14, <1>15
<1>16. ASSUME baseline_done' PROVE Lowest <= baseline'
  <2>1. CASE full
    <3>1. \A s \in Slot : s <= samp_ptr BY <1>1, <2>1 DEF Slot
    <3>2. \A s \in Slot : Lowest <= samples'[s] BY <1>13, <2>1, <3>1
    <3>3. Lowest <= Average(samples') BY <1>4, <3>2, AverageBounds
    <3> QED BY <1>11, <2>1, <3>3
  <2>2. CASE ~ full BY <1>11, <1>16, <2>2 DEF Begun
  <2> QED BY <2>1, <2>2
<1>17. ASSUME NEW s \in Slot, ~ baseline_done', s < samp_ptr' PROVE Lowest <= samples'[s]
  <2>1. s <= samp_ptr BY <1>1, <1>15, <1>17 DEF Slot
  <2> QED BY <1>13, <1>15, <1>17, <2>1
<1> QED BY <1>4, <1>8, <1>9, <1>10, <1>12, <1>15, <1>16, <1>17

LEMMA Sizes ==
  /\ DEPTH \in Nat /\ DEPTH > 0 /\ DEBOUNCE_COUNT \in Nat /\ DEBOUNCE_COUNT > DEPTH
  /\ WRAP_GAP \in Nat /\ WRAP_GAP >= DEPTH /\ 2 * DEPTH \in Nat /\ 2 * DEPTH = DEPTH + DEPTH
BY TouchAssumption

\* The history of the finger and of the wraps, a count later.
LEMMA Histories ==
  ASSUME TouchTypes, NEW sample, NEW wraps, Counted(sample, wraps), Count(sample, wraps)
  PROVE  /\ sinceFinger' \in 0 .. 2 * DEPTH /\ sinceWrap' \in 0 .. WRAP_GAP
         /\ sinceFinger' = 0 \/ sinceFinger' = sinceFinger + 1
            \/ (sinceFinger' = 2 * DEPTH /\ sinceFinger = 2 * DEPTH)
         /\ \/ sinceWrap' = 0 /\ sinceWrap = WRAP_GAP
            \/ sinceWrap' = sinceWrap + 1
            \/ sinceWrap' = WRAP_GAP /\ sinceWrap = WRAP_GAP
<1>1. /\ sinceFinger' = IF finger THEN 0
                        ELSE IF sinceFinger < 2 * DEPTH THEN sinceFinger + 1 ELSE sinceFinger
      /\ sinceWrap' = IF wraps THEN 0
                      ELSE IF sinceWrap < WRAP_GAP THEN sinceWrap + 1 ELSE sinceWrap
  BY DEF Count
<1>2. /\ sinceFinger \in 0 .. 2 * DEPTH /\ sinceWrap \in 0 .. WRAP_GAP
      /\ wraps \in BOOLEAN /\ (wraps => sinceWrap = WRAP_GAP)
  BY DEF TouchTypes, Counted
<1>3. sinceFinger' \in {0, sinceFinger + 1, sinceFinger} BY <1>1
<1>4. sinceFinger' = sinceFinger => sinceFinger' = 0 \/ sinceFinger = 2 * DEPTH
  BY <1>1, <1>2, Sizes
<1>5. sinceFinger' = sinceFinger + 1 => sinceFinger < 2 * DEPTH
  BY <1>1, <1>2, Sizes
<1>6. sinceFinger' \in 0 .. 2 * DEPTH
  BY <1>2, <1>3, <1>5, Sizes
<1>7. CASE wraps BY <1>1, <1>2, <1>3, <1>4, <1>6, <1>7, Sizes
<1>8. CASE ~ wraps BY <1>1, <1>2, <1>3, <1>4, <1>6, <1>8, Sizes
<1> QED BY <1>2, <1>7, <1>8

\* The state that turns over, and the debouncer that counts.
LEMMA SlowStep ==
  ASSUME TouchInv, NEW sample, NEW wraps, Counted(sample, wraps), Count(sample, wraps), ~ first_time
  PROVE  /\ Slow' /\ GlitchInv'
         /\ ~ baseline_done' => UNCHANGED debouncer
         /\ touched' /\ ~ touched => sinceFinger' < 2 * DEPTH
<1> USE Sizes DEF TouchInv
<1>1. /\ sinceFinger \in 0 .. 2 * DEPTH /\ sinceWrap \in 0 .. WRAP_GAP
      /\ glitch_count \in 1 .. DEBOUNCE_COUNT /\ touched \in BOOLEAN /\ GlitchInv
  BY DEF TouchTypes, GlitchInv
<1>2. /\ sinceFinger' \in 0 .. 2 * DEPTH /\ sinceWrap' \in 0 .. WRAP_GAP
      /\ sinceFinger' = 0 \/ sinceFinger' = sinceFinger + 1
         \/ (sinceFinger' = 2 * DEPTH /\ sinceFinger = 2 * DEPTH)
      /\ \/ sinceWrap' = 0 /\ sinceWrap = WRAP_GAP
         \/ sinceWrap' = sinceWrap + 1
         \/ sinceWrap' = WRAP_GAP /\ sinceWrap = WRAP_GAP
  BY Histories
<1>5. sinceWrap' \in Nat /\ sinceFinger' \in Nat BY <1>2
<1>6. \A n \in Nat : DEBOUNCE_COUNT + n + 1 >= DEBOUNCE_COUNT OBVIOUS
<1>3. CASE ~ baseline_done'
  <2>1. ~ baseline_done /\ UNCHANGED debouncer
    <3>1. UNCHANGED debouncer BY <1>3 DEF Count, touch_update
    <3> QED BY <1>3, <3>1, Windows
  <2>2. glitch_count' = DEBOUNCE_COUNT /\ ~ touched' BY <2>1 DEF Begun, debouncer
  <2>3. touched' = touched BY <2>1 DEF debouncer
  <2>4. GlitchInv' BY <1>1, <2>1 DEF GlitchInv, debouncer
  <2>5. Slow' BY <1>5, <1>6, <2>2 DEF Slow
  <2> QED BY <2>1, <2>2, <2>4, <2>5
<1>4. CASE baseline_done'
  <2> DEFINE avg == Average(samples')   beyond == Beyond(avg)
  <2>1. Debounce(beyond) BY <1>4 DEF Count, touch_update
  <2>2. avg \in Nat /\ baseline' \in Nat /\ Lowest <= baseline' BY <1>4, Windows
  <2>3. sinceFinger' >= DEPTH /\ sinceWrap' >= DEPTH => avg <= Highest BY Windows
  <2>4. Highest <= Bound /\ Bound \in Nat
    <3>1. TOUCH_MARGIN * Lowest <= baseline' * TOUCH_MARGIN /\ baseline' * TOUCH_MARGIN \in Nat
      <4>1. \A x, y, m \in Nat : x <= y => m * x <= y * m /\ y * m \in Nat OBVIOUS
      <4> QED BY <2>2, <4>1, TouchConstants
    <3> QED BY <3>1, TouchConstants DEF Bound
  <2>5. ~ touched /\ sinceFinger' >= DEPTH /\ sinceWrap' >= DEPTH => ~ beyond
    BY <2>2, <2>3, <2>4, TouchConstants DEF Beyond
  <2> HIDE DEF avg, beyond
  <2>6. /\ GlitchInv'
        /\ ~ beyond => glitch_count' = DEBOUNCE_COUNT /\ touched' = touched
        /\ glitch_count' >= glitch_count - 1
        /\ touched' # touched => beyond /\ glitch_count = 1 /\ glitch_count' = DEBOUNCE_COUNT
    BY <1>1, <2>1, Debounced
  <2>7. glitch_count' \in 1 .. DEBOUNCE_COUNT /\ touched' \in BOOLEAN BY <2>6 DEF GlitchInv
  <2>8. ASSUME ~ touched'
        PROVE  /\ sinceFinger' >= DEPTH /\ sinceWrap' >= DEPTH => glitch_count' = DEBOUNCE_COUNT
               /\ sinceWrap' < DEPTH /\ sinceFinger' >= DEPTH + sinceWrap' + 1 =>
                    glitch_count' + sinceWrap' + 1 >= DEBOUNCE_COUNT
    <3>1. CASE touched
      <4>1. glitch_count' = DEBOUNCE_COUNT BY <2>6, <2>8, <3>1
      <4> QED BY <1>5, <1>6, <4>1
    <3>2. CASE ~ touched
      <4>1. sinceFinger' >= DEPTH /\ sinceWrap' >= DEPTH => glitch_count' = DEBOUNCE_COUNT
        BY <2>5, <2>6, <3>2
      <4>2. ASSUME sinceWrap' < DEPTH, sinceFinger' >= DEPTH + sinceWrap' + 1
            PROVE  glitch_count' + sinceWrap' + 1 >= DEBOUNCE_COUNT
        <5>1. CASE sinceWrap' = 0 /\ sinceWrap = WRAP_GAP
          <6>1. sinceFinger >= DEPTH /\ sinceWrap >= DEPTH BY <1>1, <1>2, <4>2, <5>1
          <6>2. glitch_count = DEBOUNCE_COUNT BY <3>2, <6>1 DEF Slow
          <6>3. glitch_count' \in Nat /\ glitch_count' >= DEBOUNCE_COUNT - 1 BY <2>6, <2>7, <6>2
          <6>4. \A g \in Nat : g >= DEBOUNCE_COUNT - 1 => g + 0 + 1 >= DEBOUNCE_COUNT OBVIOUS
          <6>5. glitch_count' + 0 + 1 >= DEBOUNCE_COUNT BY <6>3, <6>4
          <6> QED BY <5>1, <6>5
        <5>2. CASE sinceWrap' = sinceWrap + 1
          <6>1. sinceWrap < DEPTH /\ sinceFinger >= DEPTH + sinceWrap + 1
            BY <1>1, <1>2, <4>2, <5>2
          <6>2. glitch_count + sinceWrap + 1 >= DEBOUNCE_COUNT BY <3>2, <6>1 DEF Slow
          <6>3. glitch_count' \in Nat /\ glitch_count' >= glitch_count - 1 BY <2>6, <2>7
          <6>4. \A g, h, a \in Nat : g >= h - 1 /\ h + a + 1 >= DEBOUNCE_COUNT
                                     => g + (a + 1) + 1 >= DEBOUNCE_COUNT
            OBVIOUS
          <6>5. glitch_count \in Nat /\ sinceWrap \in Nat BY <1>1
          <6>6. glitch_count' + (sinceWrap + 1) + 1 >= DEBOUNCE_COUNT
            BY <6>2, <6>3, <6>4, <6>5
          <6> QED BY <5>2, <6>6
        <5> QED BY <1>2, <4>2, <5>1, <5>2
      <4> QED BY <4>1, <4>2
    <3> QED BY <3>1, <3>2
  <2>9. ASSUME touched', ~ touched, sinceFinger' >= 2 * DEPTH PROVE FALSE
    <3>1. beyond /\ glitch_count = 1 BY <2>6, <2>9
    <3>2. sinceWrap' < DEPTH BY <1>2, <2>5, <2>9, <3>1
    <3>3. CASE sinceWrap' = 0 /\ sinceWrap = WRAP_GAP
      <4>1. sinceFinger >= DEPTH /\ sinceWrap >= DEPTH BY <1>1, <1>2, <2>9, <3>3
      <4>2. glitch_count = DEBOUNCE_COUNT BY <2>9, <4>1 DEF Slow
      <4> QED BY <3>1, <4>2
    <3>4. CASE sinceWrap' = sinceWrap + 1
      <4>1. sinceWrap < DEPTH /\ sinceFinger >= DEPTH + sinceWrap + 1
        BY <1>1, <1>2, <2>9, <3>2, <3>4
      <4>2. glitch_count + sinceWrap + 1 >= DEBOUNCE_COUNT BY <2>9, <4>1 DEF Slow
      <4> QED BY <1>1, <1>2, <3>1, <3>2, <3>4, <4>2
    <3> QED BY <1>2, <3>2, <3>3, <3>4
  <2>10. Slow' BY <2>8 DEF Slow
  <2>11. touched' /\ ~ touched => sinceFinger' < 2 * DEPTH BY <1>2, <2>9
  <2> QED BY <1>4, <2>6, <2>10, <2>11
<1> QED BY <1>3, <1>4

\* A count: the first one only initialises (main.c:34-41, 134-135).
LEMMA CountStep ==
  ASSUME TouchInv, NEW sample, NEW wraps, Counted(sample, wraps), Count(sample, wraps)
  PROVE  TouchInv' /\ (touched' /\ ~ touched => sinceFinger' < 2 * DEPTH)
<1> USE Sizes DEF TouchInv
<1>1. /\ sinceFinger' \in 0 .. 2 * DEPTH /\ sinceWrap' \in 0 .. WRAP_GAP
      /\ first_time' = FALSE /\ finger' = finger /\ finger \in BOOLEAN
  BY Histories DEF Count, TouchTypes
<1>2. CASE first_time
  <2>1. UNCHANGED <<window, debouncer>> BY <1>2 DEF Count, touch_update
  <2>2. /\ samples' = samples /\ samp_ptr' = samp_ptr /\ baseline_done' = baseline_done
        /\ baseline' = baseline /\ glitch_count' = glitch_count /\ touched' = touched
    BY <2>1 DEF window, debouncer
  <2>3. /\ samp_ptr = 0 /\ ~ baseline_done /\ samples = [s \in Slot |-> 0]
        /\ ~ touched /\ glitch_count = DEBOUNCE_COUNT
    BY <1>2 DEF Begun
  <2>4. TouchTypes' BY <1>1, <2>2 DEF TouchTypes, GlitchInv
  <2>5. Small'
    <3>1. \A s \in Slot : samples'[s] = 0 BY <2>2, <2>3
    <3> QED BY <3>1, TouchConstants DEF Small
  <2>6. Begun' BY <1>1, <2>2, <2>3, TouchConstants DEF Begun, Slot
  <2>7. Slow'
    <3>1. glitch_count' = DEBOUNCE_COUNT BY <2>2, <2>3
    <3>2. \A n \in Nat : DEBOUNCE_COUNT + n + 1 >= DEBOUNCE_COUNT OBVIOUS
    <3>3. sinceWrap' \in Nat BY <1>1
    <3> QED BY <3>1, <3>2, <3>3 DEF Slow
  <2> QED BY <2>2, <2>4, <2>5, <2>6, <2>7
<1>3. CASE ~ first_time
  <2>1. /\ samples' \in [Slot -> Nat] /\ Small' /\ baseline' \in Nat /\ baseline_done' \in BOOLEAN
        /\ baseline_done => baseline_done'
        /\ baseline_done' => Lowest <= baseline'
        /\ \A s \in Slot : ~ baseline_done' /\ s < samp_ptr' => Lowest <= samples'[s]
    BY <1>3, Windows
  <2>2. /\ Slow' /\ GlitchInv'
        /\ ~ baseline_done' => UNCHANGED debouncer
        /\ touched' /\ ~ touched => sinceFinger' < 2 * DEPTH
    BY <1>3, SlowStep
  <2>3. samp_ptr' \in Slot
    <3>1. samp_ptr \in Slot BY DEF TouchTypes
    <3>2. samp_ptr' = (samp_ptr + 1) % DEPTH BY <1>3 DEF Count, touch_update
    <3> QED BY <3>1, <3>2, Aging
  <2>4. TouchTypes' BY <1>1, <2>1, <2>2, <2>3 DEF TouchTypes
  <2>5. ASSUME ~ baseline_done' PROVE ~ touched' /\ glitch_count' = DEBOUNCE_COUNT
    BY <2>1, <2>2, <2>5 DEF Begun, debouncer
  <2>6. Begun' BY <1>1, <2>1, <2>5 DEF Begun
  <2> QED BY <2>1, <2>2, <2>4, <2>6
<1> QED BY <1>2, <1>3

\* The counts of the core are such counts (main.c:120-134).
LEMMA TicksCounted ==
  ASSUME TouchInv, NEW t \in Ticks
  PROVE  Counted(t, FALSE) /\ (sinceWrap = WRAP_GAP => Counted(Wrapped(t), TRUE))
<1>1. finger \in BOOLEAN BY DEF TouchInv, TouchTypes
<1>2. t \in Nat /\ Lowest <= t /\ t <= MAX_CLOCK
  <2>1. CASE finger
    <3>1. t \in Highest .. MAX_CLOCK BY <2>1, TouchConstants DEF Ticks
    <3> QED BY <3>1, TouchConstants
  <2>2. CASE ~ finger BY <2>2, TouchConstants DEF Ticks, Idle
  <2> QED BY <2>1, <2>2
<1>3. ~ finger => t <= Highest BY TouchConstants DEF Ticks, Idle
<1>4. Wrapped(t) \in Nat /\ Lowest <= Wrapped(t)
  BY <1>2, TouchConstants DEF Wrapped
<1> QED BY <1>2, <1>3, <1>4 DEF Counted

LEMMA TouchStep ==
  ASSUME TouchInv, [Next]_vars
  PROVE  TouchInv' /\ (touched' /\ ~ touched => sinceFinger' < 2 * DEPTH)
<1>1. CASE Rise
  <2>1. PICK t \in Ticks : Count(t, FALSE) BY <1>1 DEF Rise
  <2> QED BY <2>1, TicksCounted, CountStep
<1>2. CASE RiseAfterWrap
  <2>1. PICK t \in Ticks : sinceWrap = WRAP_GAP /\ Count(Wrapped(t), TRUE)
    BY <1>2 DEF RiseAfterWrap
  <2> QED BY <2>1, TicksCounted, CountStep
<1>3. ASSUME UNCHANGED <<first_time, window, debouncer, sinceFinger, sinceWrap>>,
             finger' \in BOOLEAN
      PROVE  TouchInv' /\ touched' = touched
  BY <1>3
  DEF TouchInv, TouchTypes, GlitchInv, Small, Age, Begun, Slow, window, debouncer
<1>4. finger \in BOOLEAN BY DEF TouchInv, TouchTypes
<1>5. CASE CheckEmpty \/ PushReport \/ DriveLow \/ SetOutput
  BY <1>3, <1>4, <1>5 DEF CheckEmpty, PushReport, DriveLow, SetOutput, outside
<1>6. CASE Console
  BY <1>3, <1>4, <1>6
  DEF Console, BioRx, Wait, Read, BioTx, Write, WriteTimeout, ofCore, outside
<1>7. CASE Finger BY <1>3, <1>4, <1>7 DEF Finger, ofCore
<1>8. CASE UNCHANGED vars BY <1>3, <1>4, <1>8 DEF vars, outside
<1> QED BY <1>1, <1>2, <1>5, <1>6, <1>7, <1>8 DEF Next, Core

LEMMA TouchInit == ASSUME Init PROVE TouchInv
<1> USE TouchConstants
<1>1. TouchTypes
  <2>1. samples \in [Slot -> Nat] /\ samp_ptr \in Slot /\ baseline \in Nat BY DEF Init, Slot
  <2>2. sinceFinger \in 0 .. 2 * DEPTH /\ sinceWrap \in 0 .. WRAP_GAP BY DEF Init
  <2>3. first_time \in BOOLEAN /\ baseline_done \in BOOLEAN /\ finger \in BOOLEAN BY DEF Init
  <2>4. glitch_count = DEBOUNCE_COUNT BY DEF Init
  <2>5. touched \in BOOLEAN BY Zenon DEF Init
  <2>6. GlitchInv BY CountIsPositive, <2>4, <2>5 DEF GlitchInv
  <2> QED BY <2>1, <2>2, <2>3, <2>6 DEF TouchTypes
<1>2. Small BY DEF Init, Small
<1>3. Begun BY DEF Init, Begun, Slot
<1>4. Slow BY DEF Init, Slow
<1> QED BY <1>1, <1>2, <1>3, <1>4 DEF TouchInv

\* For windows and debouncers of any length, whatever the finger does and
\* wherever the clock wraps: the state turns to touched only where a count with
\* a finger is less than two windows old (main.c:51-90, 120-134).
THEOREM TouchesAreTrue == Spec => NoFalseTouch
<1>1. TouchInv /\ [Next]_vars => TouchInv' BY TouchStep
<1>2. TouchInv /\ [Next]_vars => [touched' /\ ~ touched => sinceFinger' < 2 * DEPTH]_vars
  BY TouchStep
<1> QED BY TouchInit, <1>1, <1>2, PTL DEF Spec, NoFalseTouch
=============================================================================
