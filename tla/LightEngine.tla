----------------------------- MODULE LightEngine -----------------------------
(***************************************************************************)
(* The two ends of the light engine's FIFOs: the LED thread's side         *)
(* (bio/lightgenes/mod.rs: express, force, jack_eyes, pause_rendering) and *)
(* the BIO core that renders (bio/lightgenes/main.c).  FIFO 1 carries      *)
(* words to the core, FIFO 2 carries the core's acknowledgements back.     *)
(*                                                                         *)
(* Each operation of the host is the list of what it does to the FIFOs,    *)
(* and one step takes the first element of that list, so that the core     *)
(* runs between any two of them.  A phenotype is a number: the nine codons *)
(* of a phenotype all carry it.                                            *)
(***************************************************************************)
EXTENDS Naturals, Sequences

CONSTANTS CODONS,     \* 9 in the code: codons of a phenotype
          DEPTH,      \* 8 in the hardware: words a FIFO holds
          GATE,       \* 3 in main.c: loops a pause keeps the strip dark
          Phenotypes, \* the phenotypes that are sent, as numbers above 0
          Ops,        \* the operations the LED thread calls
          Prompt,     \* the LED thread is never kept from running for 35 ms
          MaxOps      \* bound: operations in a behaviour

Codon == 0 .. CODONS - 1
Unset == 0

ASSUME EngineAssumption ==
  /\ CODONS \in Nat \ {0} /\ DEPTH \in Nat \ {0, 1} /\ GATE \in Nat \ {0} /\ MaxOps \in Nat
  /\ Phenotypes \subseteq Nat \ {Unset}
  /\ Ops \subseteq {"express", "force", "jack_eyes", "pause"}
  /\ Prompt \in BOOLEAN

\* The words of FIFO 1.  A zero word changes nothing in the core.
Zero == [kind |-> "zero", i |-> 0, v |-> 0]
CodonWord(i, p) == [kind |-> "codon", i |-> i, v |-> p]
EyesWord(f) == [kind |-> "eyes", i |-> 0, v |-> f]
GateWord == [kind |-> "gate", i |-> 0, v |-> 0]
SetupWord == [kind |-> "setup", i |-> 0, v |-> 0]  \* the pin, the number of LEDs
ModeWord(m) == [kind |-> "mode", i |-> 0, v |-> m]

\* What an operation does: writes, and the loops that wait for a level.
Write(w) == [do |-> "write", w |-> w]
Wait == [do |-> "wait", w |-> Zero]            \* until FIFO 1 has room
WaitTimed == [do |-> "waittimed", w |-> Zero]  \* the same, for a while
WaitAck == [do |-> "ack", w |-> Zero]          \* until FIFO 2 holds something, for a while
ReadTx == [do |-> "readtx", w |-> Zero]        \* reads SFR_TXF2 while FIFO 2 holds something
ReadTxTimed == [do |-> "readtxtimed", w |-> Zero] \* the same, for a while
ReadRx == [do |-> "readrx", w |-> Zero]        \* reads SFR_RXF2 while FIFO 2 holds something

\* A zero, each codon after a wait for room, and after another wait a zero.
LastWord == 2 * CODONS + 3
CodonAt(k) == (k - 3) \div 2

\* As a bug would have it: the codons are written without looking at the level.
SendUnchecked(p) ==
  [k \in 1 .. CODONS + 2 |->
     Write(IF k \in {1, CODONS + 2} THEN Zero ELSE CodonWord(k - 2, p))]

send_phenotype(p) ==
  [k \in 1 .. LastWord |->
     IF k % 2 = 0 THEN Wait ELSE Write(IF k \in {1, LastWord} THEN Zero ELSE CodonWord(CodonAt(k), p))]

express(p) == <<ReadTx>> \o send_phenotype(p)

jack_eyes_words(f) == <<Wait, Write(EyesWord(f)), Write(Zero)>>

\* As bugs would have it: the mode is told before the strip is gated, nobody
\* waits for the acknowledgement, or it is left in FIFO 2 by reading the wrong
\* register here too.
PauseModeFirst(m) ==
  <<ReadTxTimed, WaitTimed, Write(ModeWord(m)), Write(Zero), Write(GateWord), Write(Zero),
    WaitAck, ReadRx>>
PauseUnheard(m) ==
  <<ReadTxTimed, WaitTimed, Write(GateWord), Write(Zero), Write(ModeWord(m)), Write(Zero), ReadRx>>
PauseNoDrain(m) ==
  <<ReadTxTimed, WaitTimed, Write(GateWord), Write(Zero), Write(ModeWord(m)), Write(Zero),
    WaitAck, ReadTxTimed>>

pause_rendering(m) ==
  <<ReadTxTimed, WaitTimed, Write(GateWord), Write(Zero), Write(ModeWord(m)), Write(Zero),
    WaitAck, ReadRx>>

VARIABLES
  fifo1,     \* words on their way to the core
  fifo2,     \* acknowledgements on their way back: how many
  \* the LED thread
  todo,      \* what is left of the operation it is in
  acked,     \* the pause_rendering it is in was acknowledged
  calls,     \* operations called so far
  sent,      \* the phenotype of the last express or force
  mode,      \* the argument of the last pause_rendering
  eyes,      \* the argument of the last jack_eyes
  late,      \* history: a wait of pause_rendering ran out
  \* the core
  cpc,       \* "pin", "leds": the start; "poll", "transmit", "compute": the loop
  genome, init, led_gate, wfi_mode, jack_eyes

hostVars == <<todo, acked, calls, sent, mode, eyes, late>>
coreVars == <<cpc, genome, init, led_gate, wfi_mode, jack_eyes>>
vars == <<fifo1, fifo2, hostVars, coreVars>>

Init ==
  /\ fifo1 = <<SetupWord, SetupWord>> /\ fifo2 = 0
  /\ todo = <<>> /\ acked = FALSE /\ calls = 0
  /\ sent = Unset /\ mode = 0 /\ eyes = 0 /\ late = FALSE
  /\ cpc = "pin" /\ genome = [c \in Codon |-> Unset] /\ init = FALSE
  /\ led_gate = 0 /\ wfi_mode = 0 /\ jack_eyes = 0
-----------------------------------------------------------------------------
(* The LED thread *)

Idle == todo = <<>>
MayCall(op) == Idle /\ op \in Ops /\ calls < MaxOps /\ calls' = calls + 1

CallExpress ==
  /\ MayCall("express")
  /\ \E p \in Phenotypes : todo' = express(p) /\ sent' = p
  /\ acked' = FALSE
  /\ UNCHANGED <<fifo1, fifo2, mode, eyes, late, coreVars>>

CallForce ==
  /\ MayCall("force")
  /\ \E p \in Phenotypes : todo' = send_phenotype(p) /\ sent' = p
  /\ acked' = FALSE
  /\ UNCHANGED <<fifo1, fifo2, mode, eyes, late, coreVars>>

CallJackEyes ==
  /\ MayCall("jack_eyes")
  /\ \E f \in {0, 1} : todo' = jack_eyes_words(f) /\ eyes' = f
  /\ acked' = FALSE
  /\ UNCHANGED <<fifo1, fifo2, sent, mode, late, coreVars>>

CallPause ==
  /\ MayCall("pause")
  /\ \E m \in {0, 1} : todo' = pause_rendering(m) /\ mode' = m
  /\ acked' = FALSE
  /\ UNCHANGED <<fifo1, fifo2, sent, eyes, late, coreVars>>

Now(do) == ~ Idle /\ Head(todo).do = do /\ todo' = Tail(todo)

\* A write to a full FIFO is lost: those of a pause, which waits for one place
\* and writes four words, as well as those of an operation that did not wait.
Pushed(w) == IF Len(fifo1) < DEPTH THEN Append(fifo1, w) ELSE fifo1

HostWrite ==
  /\ Now("write")
  /\ fifo1' = Pushed(Head(todo).w)
  /\ UNCHANGED <<fifo2, acked, calls, sent, mode, eyes, late, coreVars>>

HostWait ==
  /\ Now("wait") \/ Now("waittimed")
  /\ Len(fifo1) <= DEPTH - 1
  /\ UNCHANGED <<fifo1, fifo2, acked, calls, sent, mode, eyes, late, coreVars>>

HostWaitTimeout ==
  /\ Now("waittimed")
  /\ Len(fifo1) = DEPTH
  /\ late' = TRUE
  /\ UNCHANGED <<fifo1, fifo2, acked, calls, sent, mode, eyes, coreVars>>

\* Reading the transmit register takes nothing out of FIFO 2: the loop that
\* does so ends when FIFO 2 is empty or, in pause_rendering, when it has been
\* tried often enough.
HostReadTx ==
  /\ Now("readtx") \/ Now("readtxtimed")
  /\ fifo2 = 0 \/ Head(todo).do = "readtxtimed"
  /\ UNCHANGED <<fifo1, fifo2, acked, calls, sent, mode, eyes, late, coreVars>>

HostAck ==
  /\ Now("ack")
  /\ fifo2 > 0
  /\ acked' = TRUE
  /\ UNCHANGED <<fifo1, fifo2, calls, sent, mode, eyes, late, coreVars>>

HostAckTimeout ==
  /\ Now("ack")
  /\ fifo2 = 0
  /\ late' = TRUE
  /\ UNCHANGED <<fifo1, fifo2, acked, calls, sent, mode, eyes, coreVars>>

HostReadRx ==
  /\ Now("readrx")
  /\ fifo2' = 0
  /\ UNCHANGED <<fifo1, acked, calls, sent, mode, eyes, late, coreVars>>
-----------------------------------------------------------------------------
(* The core *)

\* As a bug would have it: the mode only ever changes one way.
EnterMode(m) == wfi_mode' = IF m = 1 THEN 1 ELSE wfi_mode

SetEyes(v) == jack_eyes' = v
SetMode(m) == wfi_mode' = m
Acknowledge == fifo2' = IF fifo2 < DEPTH THEN fifo2 + 1 ELSE fifo2

\* The core blocks until the two words of new() are there.
CoreStart ==
  /\ cpc \in {"pin", "leds"} /\ fifo1 # <<>>
  /\ fifo1' = Tail(fifo1)
  /\ cpc' = IF cpc = "pin" THEN "leds" ELSE "poll"
  /\ UNCHANGED <<fifo2, hostVars, genome, init, led_gate, wfi_mode, jack_eyes>>

CorePop ==
  /\ cpc = "poll" /\ fifo1 # <<>>
  /\ fifo1' = Tail(fifo1)
  /\ LET w == Head(fifo1) IN
     /\ IF w.kind = "gate" THEN led_gate' = GATE ELSE UNCHANGED led_gate
     /\ IF w.kind = "eyes" THEN SetEyes(w.v) ELSE UNCHANGED jack_eyes
     /\ IF w.kind = "mode"
          THEN SetMode(w.v) /\ Acknowledge
          ELSE UNCHANGED <<wfi_mode, fifo2>>
     /\ IF w.kind = "codon"
          THEN genome' = [genome EXCEPT ![w.i % CODONS] = w.v] /\ init' = TRUE
          ELSE UNCHANGED <<genome, init>>
  /\ UNCHANGED <<hostVars, cpc>>

\* FIFO 1 is empty: the strip is written unless the gate is closed.
CoreRender ==
  /\ cpc = "poll" /\ fifo1 = <<>>
  /\ cpc' = IF led_gate = 0 THEN "transmit" ELSE "compute"
  /\ UNCHANGED <<fifo1, fifo2, hostVars, genome, init, led_gate, wfi_mode, jack_eyes>>

CoreTransmitted ==
  /\ cpc = "transmit"
  /\ cpc' = "compute"
  /\ UNCHANGED <<fifo1, fifo2, hostVars, genome, init, led_gate, wfi_mode, jack_eyes>>

\* The host's next step is one it does not have to wait for.
HostReady ==
  /\ ~ Idle
  /\ Head(todo).do \in {"wait", "waittimed"} => Len(fifo1) < DEPTH
  /\ Head(todo).do = "ack" => fifo2 > 0

\* The next frame is computed, 35 ms pass and the gate opens by one.
CoreCompute ==
  /\ cpc = "compute"
  /\ Prompt => ~ HostReady
  /\ cpc' = "poll"
  /\ led_gate' = IF led_gate > 0 THEN led_gate - 1 ELSE 0
  /\ UNCHANGED <<fifo1, fifo2, hostVars, genome, init, wfi_mode, jack_eyes>>
-----------------------------------------------------------------------------
Host ==
  \/ HostWrite \/ HostWait \/ HostWaitTimeout \/ HostReadTx \/ HostAck \/ HostAckTimeout \/ HostReadRx

Core == CoreStart \/ CorePop \/ CoreRender \/ CoreTransmitted \/ CoreCompute

Next == CallExpress \/ CallForce \/ CallJackEyes \/ CallPause \/ Host \/ Core

Spec == Init /\ [][Next]_vars

\* The LED thread and the core run; nobody has to call an operation.
FairSpec == Spec /\ WF_vars(Host) /\ WF_vars(Core)
-----------------------------------------------------------------------------
Word == {Zero, GateWord, SetupWord} \union {CodonWord(i, p) : i \in Codon, p \in Phenotypes}
          \union {EyesWord(f) : f \in {0, 1}} \union {ModeWord(m) : m \in {0, 1}}

TypeOK ==
  /\ fifo1 \in Seq(Word) /\ Len(fifo1) <= DEPTH /\ fifo2 \in 0 .. DEPTH
  /\ \A k \in 1 .. Len(todo) : todo[k].w \in Word
  /\ acked \in BOOLEAN /\ calls \in 0 .. MaxOps
  /\ sent \in Phenotypes \union {Unset} /\ mode \in {0, 1} /\ eyes \in {0, 1} /\ late \in BOOLEAN
  /\ cpc \in {"pin", "leds", "poll", "transmit", "compute"}
  /\ genome \in [Codon -> Phenotypes \union {Unset}] /\ init \in BOOLEAN
  /\ led_gate \in 0 .. GATE /\ wfi_mode \in {0, 1} /\ jack_eyes \in {0, 1}

\* Everything the host wrote has been taken in.
Settled == Idle /\ fifo1 = <<>>

\* Once the FIFO is empty the core renders all of the last phenotype that was
\* sent and nothing of an earlier one: no codon is lost, whatever else was
\* written between (mod.rs:164-176).
LastPhenotypeRendered == Settled => \A c \in Codon : genome[c] = sent

\* Likewise the eyes (mod.rs:195-205) and, as long as no wait has run out, the
\* clock mode: pause_rendering takes care to "not overflow the fifo" (mod.rs:228).
SettingsArrive ==
  Settled => jack_eyes = eyes /\ (~ late => wfi_mode = mode)

\* An acknowledgement "ensures we don't WFI-transition while the LED strip is
\* actively transmitting" (mod.rs:242-243): as long as no wait has run out, one
\* that is waited for is that of this very pause, and the core is not writing
\* the strip when it comes.
AckMeansDark == acked /\ ~ Idle /\ ~ late => wfi_mode = mode /\ cpc # "transmit"

\* No acknowledgement is left lying about: as long as no wait has run out, FIFO 2
\* holds one at most, it tells of the mode last asked for, and the pause that
\* asked for it is still to take it out.  A stray one is taken by the next pause
\* for its own (mod.rs:217-221) and stops express() for ever (mod.rs:183-186).
AcksAreAwaited ==
  fifo2 > 0 /\ ~ late => fifo2 = 1 /\ wfi_mode = mode /\ ~ Idle /\ todo[Len(todo)] = ReadRx

\* Every operation of the LED thread returns, as long as no wait has run out: it
\* comes to its end on every FIFO level the core can leave it with.
OperationsReturnInTime == ~ Idle ~> Idle \/ late

\* Every operation of the LED thread returns: express() and pause_rendering()
\* are to "drain errant Rx" (mod.rs:182, 208) and go on.
OperationsReturn == ~ Idle ~> Idle
=============================================================================
