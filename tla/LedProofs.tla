------------------------------- MODULE LedProofs -------------------------------
(***************************************************************************)
(* Theorems about the LEDs: the server, for any genes and any number of    *)
(* patterns, by itself and on top of the light engine; the strands that it *)
(* installs for a standalone pattern; the colours of the pixels, for every *)
(* hue, saturation and value; the fixed-point arithmetic; and the frames.  *)
(***************************************************************************)
EXTENDS LedRing, Rendering, SlotLemmas, SequenceTheorems, TLAPS

\* Whatever is requested, and with or without a gene, the ring shows the gene
\* unless a phenotype was forced since (leds.rs:163-260).
THEOREM RingAlwaysShowsGene == LedSpec => []RingShowsGene
<1>1. LedInit => RingShowsGene
    BY DEF LedInit, RingShowsGene
<1>2. RingShowsGene /\ [LedNext]_ledVars => RingShowsGene'
  <2> SUFFICES ASSUME RingShowsGene, [LedNext]_ledVars PROVE RingShowsGene'
      OBVIOUS
  <2> USE DEF RingShowsGene, Express, NewGene
  <2>0. \A g \in Genes : g # None
      BY LedAssumption DEF LedAssumption, None
  <2>1. CASE Autogamy
      BY <2>0, <2>1 DEF Autogamy
  <2>2. CASE Syngamy
      BY <2>0, <2>2 DEF Syngamy
  <2>3. CASE ForcePhenotype
      BY <2>3 DEF ForcePhenotype
  <2>4. CASE GeneTest \/ SetGene
      BY <2>0, <2>4 DEF GeneTest, SetGene
  <2>5. CASE ClearPattern
    <3>1. gene' = None => gene = None
        BY <2>5 DEF ClearPattern, TakeSaved
    <3> QED BY <2>5, <3>1 DEF ClearPattern, TakeSaved
  <2>6. CASE SelectPattern
    <3> PICK sel \in Selections \ {0} : Install(PatternGene(sel))
        BY <2>6 DEF SelectPattern
    <3>1. PatternGene(sel) # None
        BY LedAssumption DEF PatternGene, None, Selections, LedAssumption
    <3> QED BY <3>1 DEF Install
  <2>7. CASE SelectUnknown \/ UNCHANGED ledVars
      BY <2>7 DEF SelectUnknown, ledVars
  <2> QED BY <2>1, <2>2, <2>3, <2>4, <2>5, <2>6, <2>7 DEF LedNext
<1> QED BY <1>1, <1>2, PTL DEF LedSpec

\* The badge's own gene is the gene, or, while a pattern shows, it is what was
\* set aside; then there is one.
OwnIsHeld ==
  ~ meddled =>
    /\ ~ aside => gene = own /\ saved_gene = None
    /\ aside => saved_gene = own /\ own # None

\* Whatever patterns are picked and cleared, and for any genes: "gene (default)"
\* puts back the badge's own gene, unless a gene came while a pattern showed or
\* a pattern before any gene (leds.rs:152-153, 242-252).
THEOREM OwnGeneComesBack == LedSpec => []OwnGenePutBack
<1>1. LedInit => OwnIsHeld
    BY DEF LedInit, OwnIsHeld
<1>2. OwnIsHeld /\ [LedNext]_ledVars => OwnIsHeld'
  <2> SUFFICES ASSUME OwnIsHeld, [LedNext]_ledVars PROVE OwnIsHeld'
      OBVIOUS
  <2> USE DEF OwnIsHeld
  <2>1. CASE Autogamy \/ Syngamy \/ GeneTest \/ SetGene
      BY <2>1 DEF Autogamy, Syngamy, GeneTest, SetGene, NewGene
  <2>2. CASE ForcePhenotype
      BY <2>2 DEF ForcePhenotype
  <2>3. CASE ClearPattern
      BY <2>3 DEF ClearPattern, TakeSaved
  <2>4. CASE SelectPattern
    <3>1. saved_gene' = (IF saved_gene = None THEN gene ELSE saved_gene)
        BY <2>4 DEF SelectPattern, SaveOnce
    <3>2. aside' = TRUE /\ meddled' = (meddled \/ gene = None) /\ own' = own
        BY <2>4 DEF SelectPattern
    <3> QED BY <3>1, <3>2
  <2>5. CASE SelectUnknown \/ UNCHANGED ledVars
      BY <2>5 DEF SelectUnknown, ledVars
  <2> QED BY <2>1, <2>2, <2>3, <2>4, <2>5 DEF LedNext
<1>3. OwnIsHeld => OwnGenePutBack
    BY DEF OwnIsHeld, OwnGenePutBack
<1> QED BY <1>1, <1>2, <1>3, PTL DEF LedSpec
-----------------------------------------------------------------------------
(* On top of the light engine *)

\* The ring does what the server does, with the engine's steps in between: no
\* request waits for the core to come to a gene, or changes one behind it
\* (leds.rs:156-262).
THEOREM RingImplementsServer == RingSpec => LedSpec
<1>1. RingInit => LedInit
    BY DEF RingInit
<1>2. [RingNext]_ringVars => [LedNext]_ledVars
    BY DEF RingNext, LedNext, RingAutogamy, RingSyngamy, RingGeneTest, RingSetGene, RingClear,
           RingSelect, RingIgnore, RingForce, RingEyes, RingPause, RingHost, RingCore, ringVars
<1> QED BY <1>1, <1>2, PTL DEF RingSpec, LedSpec

\* The same of the badge's own gene, whatever the engine is doing when requests
\* come (leds.rs:152-153).
THEOREM OwnGeneOnTheRing == RingSpec => []OwnGenePutBack
BY RingImplementsServer, OwnGeneComesBack, PTL
-----------------------------------------------------------------------------
(* What the engine owes the core.  A key stands for a thing the core keeps:  *)
(* a codon, or the eyes.                                                     *)

Key == 0 .. CODONS
AnyWord == [kind : {"zero", "codon", "eyes", "gate", "setup", "mode"}, i : Nat, v : Nat]
Step == [do : {"write", "wait", "waittimed", "ack", "readtx", "readtxtimed", "readrx"}, w : AnyWord]

Keyed(w, k) ==
  IF k = CODONS THEN w.kind = "eyes" ELSE w.kind = "codon" /\ w.i = k

Wanted(k) == IF k = CODONS THEN eyes ELSE sent
Held(k) == IF k = CODONS THEN jack_eyes ELSE genome[k]

Due(j, k) == todo[j].do = "write" /\ Keyed(todo[j].w, k)

\* Every keyed word is written right after a wait for room.
WritesWait ==
  /\ todo \in Seq(Step)
  /\ \A j \in DOMAIN todo : todo[j].w.kind = "codon" => todo[j].w.i \in Codon
  /\ \A j \in DOMAIN todo, k \in Key :
       Due(j, k) =>
         /\ todo[j].w.v = Wanted(k)
         /\ IF j = 1 THEN Len(fifo1) < DEPTH ELSE todo[j - 1].do = "wait"

WordsKept ==
  /\ fifo1 \in Seq(AnyWord)
  /\ \A j \in DOMAIN fifo1 : fifo1[j].kind = "codon" => fifo1[j].i \in Codon
  /\ genome \in [Codon -> Nat] /\ jack_eyes \in Nat

\* What is wanted under a key is still to be written, or on its way with nothing
\* of that key behind it, or there with nothing of that key on the way.
OnItsWay(k) ==
  \/ \E j \in DOMAIN todo : Due(j, k)
  \/ \E i \in DOMAIN fifo1 :
       /\ Keyed(fifo1[i], k) /\ fifo1[i].v = Wanted(k)
       /\ \A n \in DOMAIN fifo1 : n > i => ~ Keyed(fifo1[n], k)
  \/ Held(k) = Wanted(k) /\ \A n \in DOMAIN fifo1 : ~ Keyed(fifo1[n], k)

EngineInv == WritesWait /\ WordsKept /\ \A k \in Key : OnItsWay(k)

LEMMA EngineConstants ==
  /\ CODONS \in Nat /\ CODONS > 0 /\ DEPTH \in Nat /\ Phenotypes \subseteq Nat
  /\ Codon = 0 .. CODONS - 1 /\ \A c \in Codon : c % CODONS = c
BY EngineAssumption DEF EngineAssumption, Codon

LEMMA EngineInit == Init => EngineInv
<1> SUFFICES ASSUME Init PROVE EngineInv OBVIOUS
<1> USE EngineConstants DEF Init
<1>1. WritesWait BY DEF WritesWait
<1>2. WordsKept
  <2>1. SetupWord \in AnyWord BY DEF SetupWord, AnyWord
  <2>2. fifo1 \in Seq(AnyWord) BY <2>1
  <2> QED BY <2>2 DEF WordsKept, SetupWord, Unset
<1>3. \A k \in Key : OnItsWay(k)
  BY DEF OnItsWay, Key, Held, Wanted, Keyed, SetupWord, Unset
<1> QED BY <1>1, <1>2, <1>3 DEF EngineInv

\* The words send_phenotype writes: every codon, each after a wait.
LEMMA SendShape ==
  ASSUME NEW p \in Nat, NEW s, s = send_phenotype(p)
  PROVE  /\ s \in Seq(Step) /\ Len(s) = LastWord /\ LastWord \in Nat /\ LastWord > 4
         /\ \A j \in DOMAIN s : s[j].w.kind = "codon" => s[j].w.i \in Codon
         /\ \A j \in DOMAIN s :
              s[j].do = "write" /\ s[j].w.kind # "zero" =>
                /\ s[j].w.kind = "codon" /\ s[j].w.v = p /\ s[j].w.i \in Codon
                /\ j > 1 /\ s[j - 1].do = "wait"
<1> USE EngineConstants
<1> DEFINE F(k) == IF k % 2 = 0 THEN Wait
                   ELSE Write(IF k \in {1, LastWord} THEN Zero ELSE CodonWord(CodonAt(k), p))
<1>1. LastWord \in Nat /\ LastWord > 4 BY DEF LastWord
<1>2. s = [k \in 1 .. LastWord |-> F(k)] BY DEF send_phenotype
<1>3. \A k \in 1 .. LastWord : k % 2 # 0 /\ k \notin {1, LastWord} => CodonAt(k) \in Codon
  BY DEF LastWord, CodonAt
<1>4. \A k \in 1 .. LastWord : F(k) \in Step
  BY <1>3 DEF Step, AnyWord, Wait, Write, Zero, CodonWord
<1>5. s \in Seq(Step) /\ Len(s) = LastWord
  <2> HIDE DEF F
  <2> QED BY <1>1, <1>2, <1>4
<1>6. ASSUME NEW j \in DOMAIN s, s[j].do = "write", s[j].w.kind # "zero"
      PROVE  /\ s[j].w.kind = "codon" /\ s[j].w.v = p /\ s[j].w.i \in Codon
             /\ j > 1 /\ s[j - 1].do = "wait"
  <2>1. j \in 1 .. LastWord /\ s[j] = F(j) BY <1>2
  <2>2. j % 2 # 0 BY <1>6, <2>1 DEF Wait
  <2>3. j \notin {1, LastWord} BY <1>6, <2>1, <2>2 DEF Write, Zero
  <2>4. s[j].w = CodonWord(CodonAt(j), p) BY <2>1, <2>2, <2>3 DEF Write
  <2>5. j - 1 \in 1 .. LastWord /\ (j - 1) % 2 = 0
    <3>1. j \in Nat /\ j > 1 BY <1>1, <2>1, <2>3
    <3>2. PICK q \in Nat : j = 2 * q + 1
      <4>1. \A n \in Nat : n % 2 # 0 => n = 2 * (n \div 2) + 1 /\ n \div 2 \in Nat OBVIOUS
      <4> QED BY <2>2, <3>1, <4>1
    <3> QED BY <1>1, <2>1, <3>1, <3>2
  <2>6. s[j - 1] = Wait BY <1>2, <2>5
  <2> QED BY <1>3, <2>1, <2>2, <2>3, <2>4, <2>6 DEF CodonWord, Wait
<1>7. ASSUME NEW j \in DOMAIN s, s[j].w.kind = "codon" PROVE s[j].w.i \in Codon
  <2>1. j \in 1 .. LastWord /\ s[j] = F(j) BY <1>2
  <2>2. s[j].w = CodonWord(CodonAt(j), p) /\ j % 2 # 0 /\ j \notin {1, LastWord}
    BY <1>7, <2>1 DEF Wait, Write, Zero
  <2> QED BY <1>3, <2>1, <2>2 DEF CodonWord
<1> QED BY <1>1, <1>5, <1>6, <1>7

LEMMA AllCodonsSent ==
  ASSUME NEW p \in Nat, NEW s, s = send_phenotype(p), NEW c \in Codon
  PROVE  \E j \in DOMAIN s : s[j].do = "write" /\ s[j].w.kind = "codon" /\ s[j].w.i = c
<1> DEFINE k == 2 * c + 3
<1>1. k \in 1 .. LastWord /\ k % 2 # 0 /\ k \notin {1, LastWord} /\ CodonAt(k) = c
  BY EngineConstants DEF LastWord, CodonAt
<1>2. k \in DOMAIN s /\ s[k] = Write(CodonWord(c, p)) BY <1>1 DEF send_phenotype
<1> HIDE DEF k
<1> QED BY <1>2 DEF Write, CodonWord

\* What no operation is under way for is there or in the FIFO, and stays so.
LEMMA StillOnItsWay ==
  ASSUME NEW k \in Key, Idle, OnItsWay(k), fifo1' = fifo1, Held(k)' = Held(k), Wanted(k)' = Wanted(k)
  PROVE  OnItsWay(k)'
BY DEF OnItsWay, Idle, Due

LEMMA SendStep ==
  ASSUME EngineInv, Idle, NEW p \in Nat, NEW s, s = send_phenotype(p), NEW d \in {0, 1},
         todo' = IF d = 0 THEN s ELSE <<ReadTx>> \o s, sent' = p,
         UNCHANGED <<fifo1, eyes, genome, jack_eyes>>
  PROVE  EngineInv'
<1>0. s \in Seq(Step) BY SendShape
<1>2. /\ todo' \in Seq(Step) /\ Len(todo') = Len(s) + d
      /\ \A j \in DOMAIN todo' : j > d => j - d \in DOMAIN s /\ todo'[j] = s[j - d]
      /\ \A j \in DOMAIN s : j + d \in DOMAIN todo' /\ todo'[j + d] = s[j]
      /\ d = 1 => todo'[1] = ReadTx
  <2>1. ReadTx \in Step BY DEF ReadTx, Step, AnyWord, Zero
  <2>2. CASE d = 0 BY <1>0, <2>2
  <2>3. CASE d = 1
    <3>1. todo' = <<ReadTx>> \o s BY <2>3
    <3>2. <<ReadTx>> \in Seq(Step) BY <2>1
    <3> QED BY <1>0, <2>3, <3>1, <3>2 DEF ReadTx
  <2> QED BY <2>2, <2>3
<1>3. ASSUME NEW j \in DOMAIN todo', NEW k \in Key, Due(j, k)'
      PROVE  todo'[j].w.v = Wanted(k)' /\ j > 1 /\ todo'[j - 1].do = "wait"
  <2>1. j > d BY <1>2, <1>3 DEF Due, ReadTx
  <2>2. j - d \in DOMAIN s /\ todo'[j] = s[j - d] BY <1>2, <2>1
  <2>3. s[j - d].do = "write" /\ Keyed(s[j - d].w, k) BY <1>3, <2>2 DEF Due, Keyed
  <2>4. s[j - d].w.kind # "zero" BY <2>3 DEF Keyed
  <2>5. /\ s[j - d].w.kind = "codon" /\ s[j - d].w.v = p
        /\ j - d > 1 /\ s[j - d - 1].do = "wait"
    BY SendShape, <2>2, <2>3, <2>4
  <2>6. k # CODONS BY <2>3, <2>5 DEF Keyed
  <2>7. todo'[j - 1] = s[j - d - 1] /\ j > 1 BY <1>0, <1>2, <2>2, <2>5
  <2> QED BY <2>2, <2>5, <2>6, <2>7 DEF Wanted
<1>4. WritesWait'
  <2>1. todo' \in Seq(Step) BY <1>2
  <2>2. \A j \in DOMAIN todo', k \in Key : Due(j, k)' =>
          todo'[j].w.v = Wanted(k)' /\ j # 1 /\ todo'[j - 1].do = "wait"
    BY <1>3
  <2>3. ASSUME NEW j \in DOMAIN todo', todo'[j].w.kind = "codon" PROVE todo'[j].w.i \in Codon
    <3>1. CASE j > d
      <4>1. j - d \in DOMAIN s /\ todo'[j] = s[j - d] BY <1>2, <3>1
      <4>2. \A n \in DOMAIN s : s[n].w.kind = "codon" => s[n].w.i \in Codon BY SendShape
      <4> QED BY <2>3, <4>1, <4>2
    <3>2. CASE ~ (j > d) BY <1>2, <2>3, <3>2 DEF ReadTx, Zero
    <3> QED BY <3>1, <3>2
  <2> QED BY <2>1, <2>2, <2>3 DEF WritesWait
<1>5. ASSUME NEW k \in Key PROVE OnItsWay(k)'
  <2>1. CASE k = CODONS BY <2>1, StillOnItsWay DEF EngineInv, Wanted, Held
  <2>2. CASE k # CODONS
    <3>1. k \in Codon BY EngineConstants, <2>2 DEF Key
    <3>2. PICK j \in DOMAIN s : s[j].do = "write" /\ s[j].w.kind = "codon" /\ s[j].w.i = k
      BY <3>1, AllCodonsSent
    <3>3. j + d \in DOMAIN todo' /\ todo'[j + d] = s[j] BY <1>2
    <3>4. Due(j + d, k)' BY <2>2, <3>2, <3>3 DEF Due, Keyed
    <3> QED BY <3>3, <3>4 DEF OnItsWay
  <2> QED BY <2>1, <2>2
<1> QED BY <1>4, <1>5 DEF EngineInv, WordsKept

LEMMA CallStep ==
  ASSUME EngineInv, CallExpress \/ CallForce \/ CallJackEyes \/ CallPause
  PROVE  EngineInv'
<1> USE EngineConstants DEF MayCall, coreVars
<1>1. CASE CallExpress
  <2> PICK p \in Phenotypes : todo' = express(p) /\ sent' = p BY <1>1 DEF CallExpress
  <2> DEFINE s == send_phenotype(p)
  <2>1. todo' = <<ReadTx>> \o s BY DEF express
  <2> HIDE DEF s
  <2>2. s = send_phenotype(p) BY DEF s
  <2>3. Idle /\ UNCHANGED <<fifo1, eyes, genome, jack_eyes>> BY <1>1 DEF CallExpress
  <2> QED BY <2>1, <2>2, <2>3, SendStep
<1>2. CASE CallForce
  <2> PICK p \in Phenotypes : todo' = send_phenotype(p) /\ sent' = p BY <1>2 DEF CallForce
  <2> QED BY <1>2, SendStep DEF CallForce
<1>3. CASE CallJackEyes
  <2> PICK f \in {0, 1} : todo' = jack_eyes_words(f) /\ eyes' = f BY <1>3 DEF CallJackEyes
  <2>1. todo' \in Seq(Step)
    <3>1. Wait \in Step /\ Write(EyesWord(f)) \in Step /\ Write(Zero) \in Step
      BY DEF Step, AnyWord, Wait, Write, EyesWord, Zero
    <3> QED BY <3>1 DEF jack_eyes_words
  <2>2. WritesWait'
    BY <2>1 DEF WritesWait, Due, Keyed, Wanted, jack_eyes_words, Wait, Write, EyesWord, Zero
  <2>3. ASSUME NEW k \in Key PROVE OnItsWay(k)'
    <3>1. CASE k = CODONS
      <4>1. 2 \in DOMAIN todo' /\ todo'[2] = Write(EyesWord(f)) BY DEF jack_eyes_words
      <4> QED BY <3>1, <4>1 DEF OnItsWay, Due, Keyed, Write, EyesWord
    <3>2. CASE k # CODONS
      BY <1>3, <3>2, StillOnItsWay DEF CallJackEyes, EngineInv, Wanted, Held
    <3> QED BY <3>1, <3>2
  <2> QED BY <1>3, <2>2, <2>3 DEF CallJackEyes, EngineInv, WordsKept
<1>4. CASE CallPause
  <2> PICK m \in {0, 1} : todo' = pause_rendering(m) BY <1>4 DEF CallPause
  <2> USE DEF Wait, WaitTimed, WaitAck, ReadTxTimed, ReadRx, Write, GateWord, ModeWord, Zero
  <2>1. todo' \in Seq(Step)
    <3>1. /\ ReadTxTimed \in Step /\ WaitTimed \in Step /\ WaitAck \in Step /\ ReadRx \in Step
          /\ Write(GateWord) \in Step /\ Write(Zero) \in Step /\ Write(ModeWord(m)) \in Step
      BY DEF Step, AnyWord
    <3> HIDE DEF Wait, WaitTimed, WaitAck, ReadTxTimed, ReadRx, Write, GateWord, ModeWord, Zero
    <3> QED BY <3>1 DEF pause_rendering
  <2>2. WritesWait'
    BY <2>1 DEF WritesWait, Due, Keyed, pause_rendering
  <2>3. ASSUME NEW k \in Key PROVE OnItsWay(k)'
    BY <1>4, StillOnItsWay DEF CallPause, EngineInv, Wanted, Held
  <2> QED BY <1>4, <2>2, <2>3 DEF CallPause, EngineInv, WordsKept
<1> QED BY <1>1, <1>2, <1>3, <1>4

LEMMA LaterDue ==
  ASSUME todo \in Seq(Step), todo # <<>>, todo' = Tail(todo),
         NEW j \in DOMAIN todo, j # 1, NEW k \in Key, Due(j, k)
  PROVE  OnItsWay(k)'
<1>1. j - 1 \in DOMAIN todo' /\ todo'[j - 1] = todo[j] OBVIOUS
<1>2. Due(j - 1, k)' BY <1>1 DEF Due, Keyed
<1> QED BY <1>1, <1>2 DEF OnItsWay

\* One step of the host: its list loses its head, and a write may add to FIFO 1.
LEMMA HostStep == ASSUME EngineInv, Host PROVE EngineInv'
<1>1. /\ todo # <<>> /\ todo' = Tail(todo) /\ todo[1] = Head(todo)
      /\ UNCHANGED <<sent, eyes, genome, jack_eyes>>
  BY DEF Host, HostWrite, HostWait, HostWaitTimeout, HostReadTx, HostAck, HostAckTimeout,
         HostReadRx, Now, Idle, coreVars
<1>2. todo \in Seq(Step) /\ fifo1 \in Seq(AnyWord)
  BY DEF EngineInv, WritesWait, WordsKept
<1>3. /\ todo' \in Seq(Step)
      /\ \A j \in DOMAIN todo' : j \in Nat /\ j > 0 /\ j + 1 \in DOMAIN todo /\ todo'[j] = todo[j + 1]
      /\ \A j \in DOMAIN todo : j > 1 => j - 1 \in DOMAIN todo'
  BY <1>1, <1>2
<1>4. 1 \in DOMAIN todo /\ todo[1] \in Step BY <1>1, <1>2
<1>5. \A k \in Key : Wanted(k)' = Wanted(k) /\ Held(k)' = Held(k)
  BY <1>1 DEF Wanted, Held
<1>6. ASSUME todo[1].do = "wait" => Len(fifo1') < DEPTH PROVE WritesWait'
  <2> SUFFICES ASSUME NEW j \in DOMAIN todo', NEW k \in Key, Due(j, k)'
               PROVE  /\ todo'[j].w.v = Wanted(k)'
                      /\ IF j = 1 THEN Len(fifo1') < DEPTH ELSE todo'[j - 1].do = "wait"
      <3>1. \A j \in DOMAIN todo' : todo'[j].w.kind = "codon" => todo'[j].w.i \in Codon
        BY <1>3 DEF EngineInv, WritesWait
      <3> QED BY <1>3, <3>1 DEF WritesWait
  <2>1. PICK n \in DOMAIN todo : n = j + 1 /\ todo'[j] = todo[n] BY <1>3
  <2>2. Due(n, k) BY <2>1 DEF Due, Keyed
  <2>3. todo[n].w.v = Wanted(k) /\ todo[j].do = "wait"
    <3>1. todo[n].w.v = Wanted(k) /\ (n # 1 => todo[n - 1].do = "wait")
      BY <2>2 DEF EngineInv, WritesWait
    <3>2. n # 1 /\ n - 1 = j BY <1>3, <2>1
    <3> QED BY <3>1, <3>2
  <2>4. CASE j = 1 BY <1>5, <1>6, <2>1, <2>3, <2>4
  <2>5. CASE j # 1
    <3>1. j - 1 \in DOMAIN todo' /\ todo'[j - 1] = todo[j] BY <1>1, <1>2, <2>5
    <3> QED BY <1>5, <2>1, <2>3, <2>5, <3>1
  <2> QED BY <2>4, <2>5
<1>7. CASE HostWrite
  <2> DEFINE w == todo[1].w
  <2>1. todo[1].do = "write" /\ fifo1' = Pushed(w) BY <1>1, <1>7 DEF HostWrite, Now
  <2>2. w \in AnyWord BY <1>4 DEF Step
  <2>3. WritesWait' BY <1>6, <2>1
  <2>4. ASSUME NEW k \in Key, Keyed(w, k)
        PROVE  Len(fifo1) < DEPTH /\ w.v = Wanted(k)
    <3>1. Due(1, k) BY <2>1, <2>4 DEF Due
    <3> QED BY <1>4, <3>1 DEF EngineInv, WritesWait
  <2> HIDE DEF w
  <2>5. \/ fifo1' = fifo1
        \/ /\ fifo1' \in Seq(AnyWord) /\ Len(fifo1') = Len(fifo1) + 1 /\ Len(fifo1) \in Nat
           /\ \A i \in DOMAIN fifo1 : i \in DOMAIN fifo1' /\ fifo1'[i] = fifo1[i]
           /\ DOMAIN fifo1' = DOMAIN fifo1 \union {Len(fifo1) + 1} /\ fifo1'[Len(fifo1) + 1] = w
           /\ DOMAIN fifo1 = 1 .. Len(fifo1)
    BY <1>2, <2>1, <2>2 DEF Pushed
  <2>6. w.kind = "codon" => w.i \in Codon
    BY <1>4 DEF EngineInv, WritesWait, w
  <2>7. WordsKept'
    BY <1>1, <1>2, <2>5, <2>6 DEF EngineInv, WordsKept
  <2>8. ASSUME NEW k \in Key PROVE OnItsWay(k)'
    <3>1. OnItsWay(k) BY DEF EngineInv
    <3>2. CASE Keyed(w, k)
      <4>1. Len(fifo1) < DEPTH /\ w.v = Wanted(k) BY <2>4, <3>2
      <4>2. fifo1' = Append(fifo1, w) BY <2>1, <4>1 DEF Pushed, w
      <4>3. PICK n \in DOMAIN fifo1' : fifo1'[n] = w /\ \A i \in DOMAIN fifo1' : ~ (i > n)
        BY <1>2, <2>2, <4>2
      <4> QED BY <1>5, <3>2, <4>1, <4>3 DEF OnItsWay, Keyed
    <3>3. CASE ~ Keyed(w, k)
      <4>1. CASE \E j \in DOMAIN todo : Due(j, k)
        <5>1. PICK j \in DOMAIN todo : Due(j, k) BY <4>1
        <5>2. j # 1 BY <3>3, <5>1 DEF Due, w
        <5> QED BY <1>1, <1>2, <5>1, <5>2, LaterDue
      <4>2. CASE \E i \in DOMAIN fifo1 :
                   /\ Keyed(fifo1[i], k) /\ fifo1[i].v = Wanted(k)
                   /\ \A n \in DOMAIN fifo1 : n > i => ~ Keyed(fifo1[n], k)
        <5> PICK i \in DOMAIN fifo1 :
                   /\ Keyed(fifo1[i], k) /\ fifo1[i].v = Wanted(k)
                   /\ \A n \in DOMAIN fifo1 : n > i => ~ Keyed(fifo1[n], k)
            BY <4>2
        <5>1. i \in DOMAIN fifo1' /\ fifo1'[i] = fifo1[i] BY <2>5
        <5>2. \A n \in DOMAIN fifo1' : n > i => ~ Keyed(fifo1'[n], k)
          BY <2>5, <3>3
        <5> QED BY <1>5, <5>1, <5>2 DEF OnItsWay, Keyed
      <4>3. CASE Held(k) = Wanted(k) /\ \A n \in DOMAIN fifo1 : ~ Keyed(fifo1[n], k)
        <5>1. \A n \in DOMAIN fifo1' : ~ Keyed(fifo1'[n], k) BY <2>5, <3>3, <4>3
        <5> QED BY <1>5, <4>3, <5>1 DEF OnItsWay, Keyed
      <4> QED BY <3>1, <4>1, <4>2, <4>3 DEF OnItsWay
    <3> QED BY <3>2, <3>3
  <2> QED BY <2>3, <2>7, <2>8 DEF EngineInv
<1>8. CASE fifo1' = fifo1 /\ todo[1].do # "write"
  <2>1. todo[1].do = "wait" => Len(fifo1') < DEPTH
    <3>1. \A n \in Nat : n <= DEPTH - 1 => n < DEPTH BY EngineConstants
    <3>2. Len(fifo1) \in Nat BY <1>2
    <3> QED
      BY <1>1, <1>8, <3>1, <3>2
      DEF Host, HostWrite, HostWait, HostWaitTimeout, HostReadTx, HostAck, HostAckTimeout,
          HostReadRx, Now
  <2>2. WritesWait' BY <1>6, <2>1
  <2>3. ASSUME NEW k \in Key PROVE OnItsWay(k)'
    <3>1. CASE \E j \in DOMAIN todo : Due(j, k)
      <4>1. PICK j \in DOMAIN todo : Due(j, k) BY <3>1
      <4>2. j # 1 BY <1>8, <4>1 DEF Due
      <4> QED BY <1>1, <1>2, <4>1, <4>2, LaterDue
    <3>2. CASE ~ \E j \in DOMAIN todo : Due(j, k)
      <4>1. OnItsWay(k) BY DEF EngineInv
      <4> QED BY <1>5, <1>8, <3>2, <4>1 DEF OnItsWay, Keyed
    <3> QED BY <3>1, <3>2
  <2> QED BY <1>1, <1>8, <2>2, <2>3 DEF EngineInv, WordsKept
<1> QED
  BY <1>1, <1>7, <1>8
  DEF Host, HostWrite, HostWait, HostWaitTimeout, HostReadTx, HostAck, HostAckTimeout, HostReadRx, Now

\* The core takes the first word of FIFO 1 and keeps what it carries.
LEMMA PopStep ==
  ASSUME EngineInv, fifo1 # <<>>, fifo1' = Tail(fifo1), UNCHANGED <<todo, sent, eyes>>,
         genome' = IF fifo1[1].kind = "codon"
                   THEN [genome EXCEPT ![fifo1[1].i] = fifo1[1].v] ELSE genome,
         jack_eyes' = IF fifo1[1].kind = "eyes" THEN fifo1[1].v ELSE jack_eyes
  PROVE  EngineInv'
<1> DEFINE w == fifo1[1]
<1>1. fifo1 \in Seq(AnyWord) /\ todo \in Seq(Step) BY DEF EngineInv, WordsKept, WritesWait
<1>2. w \in AnyWord /\ (w.kind = "codon" => w.i \in Codon) BY <1>1 DEF EngineInv, WordsKept
<1>3. /\ fifo1' \in Seq(AnyWord) /\ Len(fifo1') = Len(fifo1) - 1
      /\ Len(fifo1) \in Nat /\ Len(fifo1) > 0
      /\ \A i \in DOMAIN fifo1' : i \in Nat /\ i + 1 \in DOMAIN fifo1 /\ fifo1'[i] = fifo1[i + 1]
      /\ \A i \in DOMAIN fifo1 : i # 1 => i - 1 \in DOMAIN fifo1' /\ fifo1'[i - 1] = fifo1[i]
      /\ DOMAIN fifo1 \subseteq Nat /\ DOMAIN fifo1' \subseteq Nat
  BY <1>1
<1>4. \A k \in Key : Wanted(k)' = Wanted(k) BY DEF Wanted
<1>5. WritesWait'
  <2>1. Len(fifo1) < DEPTH => Len(fifo1') < DEPTH BY <1>3, EngineConstants
  <2>2. \A j \in DOMAIN todo, k \in Key : Due(j, k)' <=> Due(j, k) BY DEF Due, Keyed
  <2> QED BY <1>4, <2>1, <2>2 DEF EngineInv, WritesWait
<1>6. WordsKept'
  <2>1. genome' \in [Codon -> Nat] BY <1>2 DEF EngineInv, WordsKept, AnyWord
  <2>2. jack_eyes' \in Nat BY <1>2 DEF EngineInv, WordsKept, AnyWord
  <2>3. \A j \in DOMAIN fifo1' : fifo1'[j].kind = "codon" => fifo1'[j].i \in Codon
    BY <1>3 DEF EngineInv, WordsKept
  <2> QED BY <1>3, <2>1, <2>2, <2>3 DEF WordsKept
<1>7. ASSUME NEW k \in Key PROVE OnItsWay(k)'
  <2>1. CASE \E j \in DOMAIN todo : Due(j, k)
    BY <2>1 DEF OnItsWay, Due, Keyed
  <2>2. CASE \E i \in DOMAIN fifo1 :
               /\ Keyed(fifo1[i], k) /\ fifo1[i].v = Wanted(k)
               /\ \A n \in DOMAIN fifo1 : n > i => ~ Keyed(fifo1[n], k)
    <3> PICK i \in DOMAIN fifo1 :
               /\ Keyed(fifo1[i], k) /\ fifo1[i].v = Wanted(k)
               /\ \A n \in DOMAIN fifo1 : n > i => ~ Keyed(fifo1[n], k)
        BY <2>2
    <3>1. CASE i = 1
      <4>1. \A n \in DOMAIN fifo1' : ~ Keyed(fifo1'[n], k) BY <1>1, <1>3, <3>1
      <4>2. Held(k)' = fifo1[1].v
        BY <1>2, <3>1, EngineConstants DEF EngineInv, WordsKept, Keyed, Held, Key
      <4> QED BY <1>4, <3>1, <4>1, <4>2 DEF OnItsWay, Keyed
    <3>2. CASE i # 1
      <4>1. PICK m \in DOMAIN fifo1' : m = i - 1 /\ fifo1'[m] = fifo1[i] BY <1>3, <3>2
      <4>2. \A n \in DOMAIN fifo1' : n > m => ~ Keyed(fifo1'[n], k)
        BY <1>1, <1>3, <4>1
      <4> QED BY <1>4, <4>1, <4>2 DEF OnItsWay, Keyed
    <3> QED BY <3>1, <3>2
  <2>3. CASE Held(k) = Wanted(k) /\ \A n \in DOMAIN fifo1 : ~ Keyed(fifo1[n], k)
    <3>1. \A n \in DOMAIN fifo1' : ~ Keyed(fifo1'[n], k) BY <1>3, <2>3
    <3>2. ~ Keyed(fifo1[1], k) BY <1>1, <2>3
    <3>3. Held(k)' = Held(k)
      BY <1>2, <3>2, EngineConstants DEF EngineInv, WordsKept, Keyed, Held, Key
    <3> QED BY <1>4, <2>3, <3>1, <3>3 DEF OnItsWay, Keyed
  <2> QED BY <2>1, <2>2, <2>3 DEF EngineInv, OnItsWay
<1> QED BY <1>5, <1>6, <1>7 DEF EngineInv

LEMMA Stuttering ==
  ASSUME EngineInv, UNCHANGED <<fifo1, todo, sent, eyes, genome, jack_eyes>>
  PROVE  EngineInv'
BY DEF EngineInv, WritesWait, WordsKept, OnItsWay, Due, Keyed, Wanted, Held

\* Until the core has started, the two words it waits for are ahead of all others.
SetupFirst ==
  /\ fifo1 \in Seq(AnyWord)
  /\ cpc = "pin" => Len(fifo1) > 1 /\ fifo1[1].kind = "setup" /\ fifo1[2].kind = "setup"
  /\ cpc = "leds" => Len(fifo1) > 0 /\ fifo1[1].kind = "setup"

LEMMA SetupInit == Init => SetupFirst
<1> SUFFICES ASSUME Init PROVE SetupFirst OBVIOUS
<1>1. WordsKept BY EngineInit DEF EngineInv
<1> QED BY <1>1 DEF SetupFirst, WordsKept, Init, SetupWord

LEMMA SetupStep == ASSUME SetupFirst, EngineInv, EngineInv', [Next]_vars PROVE SetupFirst'
<1>0. fifo1 \in Seq(AnyWord) /\ fifo1' \in Seq(AnyWord) BY DEF EngineInv, WordsKept
<1>1. CASE UNCHANGED <<fifo1, cpc>> BY <1>1 DEF SetupFirst
<1>2. CASE HostWrite
  <2>1. Len(fifo1) > 0 => Len(fifo1') > 0 /\ fifo1'[1] = fifo1[1]
    BY <1>0, <1>2 DEF HostWrite, Pushed
  <2>2. Len(fifo1) > 1 => Len(fifo1') > 1 /\ fifo1'[2] = fifo1[2]
    BY <1>0, <1>2 DEF HostWrite, Pushed
  <2>3. cpc' = cpc BY <1>2 DEF HostWrite, coreVars
  <2> QED BY <1>0, <2>1, <2>2, <2>3 DEF SetupFirst
<1>3. CASE CoreStart
  <2>1. cpc' = (IF cpc = "pin" THEN "leds" ELSE "poll") /\ fifo1' = Tail(fifo1)
    BY <1>3 DEF CoreStart
  <2>2. Len(fifo1) > 1 => Len(fifo1') > 0 /\ fifo1'[1] = fifo1[2] BY <1>0, <2>1
  <2> QED BY <1>0, <2>1, <2>2 DEF SetupFirst
<1>4. CASE CorePop \/ CoreRender \/ CoreTransmitted \/ CoreCompute
  BY <1>0, <1>4 DEF CorePop, CoreRender, CoreTransmitted, CoreCompute, SetupFirst
<1>5. CASE CallExpress \/ CallForce \/ CallJackEyes \/ CallPause
  BY <1>1, <1>5 DEF CallExpress, CallForce, CallJackEyes, CallPause, coreVars
<1>6. CASE Host /\ ~ HostWrite
  BY <1>1, <1>6
  DEF Host, HostWait, HostWaitTimeout, HostReadTx, HostAck, HostAckTimeout, HostReadRx, coreVars
<1>7. CASE UNCHANGED vars BY <1>1, <1>7 DEF vars, coreVars
<1> QED BY <1>2, <1>3, <1>4, <1>5, <1>6, <1>7 DEF Next, Core

\* Every step keeps EngineInv.
LEMMA EngineStep == ASSUME SetupFirst, EngineInv, [Next]_vars PROVE EngineInv'
<1>1. CASE CallExpress \/ CallForce \/ CallJackEyes \/ CallPause BY <1>1, CallStep
<1>2. CASE Host BY <1>2, HostStep
<1>3. CASE CoreStart
  <2>1. fifo1 # <<>> /\ fifo1' = Tail(fifo1) BY <1>3 DEF CoreStart
  <2>2. fifo1[1].kind = "setup" BY <1>3 DEF CoreStart, SetupFirst
  <2>3. UNCHANGED <<todo, sent, eyes, genome, jack_eyes>> BY <1>3 DEF CoreStart, hostVars
  <2> QED BY <2>1, <2>2, <2>3, PopStep
<1>4. CASE CorePop
  <2>1. fifo1 # <<>> /\ fifo1' = Tail(fifo1) /\ Head(fifo1) = fifo1[1] BY <1>4 DEF CorePop
  <2>2. fifo1[1].kind = "codon" => fifo1[1].i \in Codon
    <3>1. 1 \in DOMAIN fifo1 BY <2>1 DEF EngineInv, WordsKept
    <3> QED BY <3>1 DEF EngineInv, WordsKept
  <2>3. UNCHANGED <<todo, sent, eyes>> BY <1>4 DEF CorePop, hostVars
  <2>4. genome' = IF fifo1[1].kind = "codon"
                   THEN [genome EXCEPT ![fifo1[1].i] = fifo1[1].v] ELSE genome
    BY <1>4, <2>1, <2>2, EngineConstants DEF CorePop
  <2>5. jack_eyes' = IF fifo1[1].kind = "eyes" THEN fifo1[1].v ELSE jack_eyes
    BY <1>4, <2>1 DEF CorePop, SetEyes
  <2> QED BY <2>1, <2>3, <2>4, <2>5, PopStep
<1>5. CASE CoreRender \/ CoreTransmitted \/ CoreCompute \/ UNCHANGED vars
  BY <1>5, Stuttering DEF CoreRender, CoreTransmitted, CoreCompute, vars, hostVars, coreVars
<1> QED BY <1>1, <1>2, <1>3, <1>4, <1>5 DEF Next, Core

LEMMA EngineAlways == Spec => [](SetupFirst /\ EngineInv)
BY EngineInit, SetupInit, EngineStep, SetupStep, PTL DEF Spec

\* For any number of codons and any FIFO: once everything is taken in, the core
\* renders the phenotype last sent and nothing of another (mod.rs:162-177).
THEOREM LastPhenotypeArrives == Spec => []LastPhenotypeRendered
<1>1. EngineInv => LastPhenotypeRendered
  <2> SUFFICES ASSUME EngineInv, Settled, NEW c \in Codon PROVE genome[c] = sent
      BY DEF LastPhenotypeRendered
  <2>1. c \in Key /\ c # CODONS BY EngineConstants DEF Key
  <2>2. OnItsWay(c) BY <2>1 DEF EngineInv
  <2> QED BY <2>1, <2>2 DEF OnItsWay, Due, Settled, Idle, Held, Wanted
<1> QED BY <1>1, EngineAlways, PTL

\* The same of the eyes (mod.rs:195-205).
THEOREM EyesArrive == Spec => [](Settled => jack_eyes = eyes)
<1>1. EngineInv => (Settled => jack_eyes = eyes)
  <2> SUFFICES ASSUME EngineInv, Settled PROVE jack_eyes = eyes OBVIOUS
  <2>1. CODONS \in Key BY EngineConstants DEF Key
  <2>2. OnItsWay(CODONS) BY <2>1 DEF EngineInv
  <2> QED BY <2>2 DEF OnItsWay, Due, Settled, Idle, Held, Wanted
<1> QED BY <1>1, EngineAlways, PTL

-----------------------------------------------------------------------------
(* The pauses.  Left is what is left of a pause's eight steps, or zero.      *)

Plain ==
  \A j \in DOMAIN todo :
    todo[j].do \in {"write", "wait", "readtx"} /\ todo[j].w.kind \notin {"gate", "mode"}

Left == IF Plain THEN 0 ELSE Len(todo)

PauseShape ==
  /\ todo \in Seq(Step) /\ mode \in {0, 1}
  /\ Plain \/ /\ Len(todo) \in 1 .. 8
              /\ \A j \in 1 .. Len(todo) : todo[j] = pause_rendering(mode)[8 - Len(todo) + j]

\* What the next step of the host is.
NextIs ==
  /\ Left \in 0 .. 8
  /\ Left = 0 /\ todo # <<>> =>
       /\ todo[1].do \in {"write", "wait", "readtx"}
       /\ todo[1].w.kind \notin {"gate", "mode"}
  /\ Left > 0 => Left = Len(todo) /\ todo # <<>>
  /\ Left = 8 => todo[1].do = "readtxtimed"
  /\ Left = 7 => todo[1].do = "waittimed"
  /\ Left = 6 => todo[1] = Write(GateWord)
  /\ Left \in {3, 5} => todo[1] = Write(Zero)
  /\ Left = 4 => todo[1] = Write(ModeWord(mode))
  /\ Left = 2 => todo[1].do = "ack"
  /\ Left = 1 => todo[1].do = "readrx"

LEMMA HostsNext == ASSUME PauseShape PROVE NextIs
<1>1. CASE Plain
  <2>1. Left = 0 BY <1>1 DEF Left
  <2>2. todo # <<>> => 1 \in DOMAIN todo BY DEF PauseShape
  <2> QED BY <1>1, <2>1, <2>2 DEF NextIs, Plain
<1>2. CASE ~ Plain
  <2>1. Left = Len(todo) /\ Left \in 1 .. 8 BY <1>2 DEF Left, PauseShape
  <2>2. todo[1] = pause_rendering(mode)[9 - Left]
    <3>1. todo[1] = pause_rendering(mode)[8 - Len(todo) + 1] BY <1>2, <2>1 DEF PauseShape
    <3> QED BY <2>1, <3>1
  <2>3. todo # <<>> BY <2>1
  <2>4. /\ pause_rendering(mode)[1] = ReadTxTimed /\ pause_rendering(mode)[2] = WaitTimed
        /\ pause_rendering(mode)[3] = Write(GateWord) /\ pause_rendering(mode)[4] = Write(Zero)
        /\ pause_rendering(mode)[5] = Write(ModeWord(mode))
        /\ pause_rendering(mode)[6] = Write(Zero)
        /\ pause_rendering(mode)[7] = WaitAck /\ pause_rendering(mode)[8] = ReadRx
    BY DEF pause_rendering
  <2>5. /\ ReadTxTimed.do = "readtxtimed" /\ WaitTimed.do = "waittimed"
        /\ WaitAck.do = "ack" /\ ReadRx.do = "readrx"
    BY DEF ReadTxTimed, WaitTimed, WaitAck, ReadRx
  <2>6. /\ Left = 8 => todo[1] = ReadTxTimed
        /\ Left = 7 => todo[1] = WaitTimed
        /\ Left = 6 => todo[1] = Write(GateWord)
        /\ Left = 5 => todo[1] = Write(Zero)
        /\ Left = 4 => todo[1] = Write(ModeWord(mode))
        /\ Left = 3 => todo[1] = Write(Zero)
        /\ Left = 2 => todo[1] = WaitAck
        /\ Left = 1 => todo[1] = ReadRx
    <3> HIDE DEF Left
    <3> QED BY <2>2, <2>4
  <2>7. Left \in 0 .. 8 /\ Left # 0 BY <2>1
  <2>8. /\ Left = 8 => todo[1].do = "readtxtimed"
        /\ Left = 7 => todo[1].do = "waittimed"
        /\ Left = 2 => todo[1].do = "ack"
        /\ Left = 1 => todo[1].do = "readrx"
    BY <2>5, <2>6
  <2>9. Left \in {3, 5} => todo[1] = Write(Zero) BY <2>6
  <2> QED BY <2>1, <2>3, <2>6, <2>7, <2>8, <2>9, Zenon DEF NextIs
<1> QED BY <1>1, <1>2

\* A step of the host leaves one less.
LEMMA OneLess ==
  ASSUME PauseShape, todo # <<>>, todo' = Tail(todo), mode' = mode
  PROVE  PauseShape' /\ Left' = IF Left = 0 THEN 0 ELSE Left - 1
<1>1. /\ todo' \in Seq(Step) /\ Len(todo') = Len(todo) - 1 /\ Len(todo) \in Nat /\ Len(todo) > 0
      /\ DOMAIN todo' = 1 .. Len(todo') /\ DOMAIN todo = 1 .. Len(todo)
      /\ \A j \in DOMAIN todo' : j \in Nat /\ j > 0 /\ j + 1 \in DOMAIN todo /\ todo'[j] = todo[j + 1]
  BY DEF PauseShape
<1>2. CASE Plain
  <2>1. Plain' BY <1>1, <1>2 DEF Plain
  <2> QED BY <1>1, <1>2, <2>1 DEF PauseShape, Left
<1>3. CASE ~ Plain
  <2>1. Len(todo) \in 1 .. 8 BY <1>3 DEF PauseShape
  <2>2. CASE Len(todo) = 1
    <3>1. Plain' BY <1>1, <2>2 DEF Plain
    <3> QED BY <1>1, <1>3, <2>2, <3>1 DEF PauseShape, Left
  <2>3. CASE Len(todo) # 1
    <3>1. \A j \in 1 .. Len(todo') : todo'[j] = pause_rendering(mode)[8 - Len(todo') + j]
      <4> SUFFICES ASSUME NEW j \in 1 .. Len(todo')
                   PROVE  todo'[j] = pause_rendering(mode)[8 - Len(todo') + j]
          OBVIOUS
      <4>1. j + 1 \in 1 .. Len(todo) /\ todo'[j] = todo[j + 1] BY <1>1
      <4>2. todo[j + 1] = pause_rendering(mode)[8 - Len(todo) + (j + 1)]
        BY <1>3, <4>1 DEF PauseShape
      <4>3. 8 - Len(todo) + (j + 1) = 8 - Len(todo') + j BY <1>1
      <4> QED BY <4>1, <4>2, <4>3
    <3>2. ~ Plain'
      <4>0. Len(todo') \in 1 .. Len(todo') /\ 8 - Len(todo') + Len(todo') = 8
        BY <1>1, <2>1, <2>3
      <4>1. todo'[Len(todo')] = pause_rendering(mode)[8]
        <5>1. todo'[Len(todo')] = pause_rendering(mode)[8 - Len(todo') + Len(todo')]
          BY <3>1, <4>0
        <5> QED BY <4>0, <5>1
      <4>2. pause_rendering(mode)[8] = ReadRx BY DEF pause_rendering
      <4>3. ReadRx.do = "readrx" BY DEF ReadRx
      <4>4. todo'[Len(todo')].do = "readrx" BY <4>1, <4>2, <4>3
      <4> QED BY <1>1, <4>0, <4>4 DEF Plain
    <3>3. Left = Len(todo) /\ Left' = Len(todo') /\ Len(todo') \in 1 .. 8
      <4>1. Left = Len(todo) BY <1>3 DEF Left
      <4>2. Left' = Len(todo') BY <3>2 DEF Left
      <4> QED BY <1>1, <2>1, <2>3, <4>1, <4>2, SMTT(20)
    <3>4. pause_rendering(mode') = pause_rendering(mode) /\ mode' \in {0, 1}
      BY DEF pause_rendering, PauseShape
    <3>5. PauseShape'
      <4> HIDE DEF pause_rendering
      <4> QED BY <1>1, <3>1, <3>3, <3>4 DEF PauseShape
    <3> QED BY <1>1, <2>1, <3>3, <3>5
  <2> QED BY <2>2, <2>3
<1> QED BY <1>2, <1>3

LEMMA SameLeft ==
  ASSUME UNCHANGED <<todo, mode>>
  PROVE  Left' = Left /\ (PauseShape => PauseShape')
BY DEF Left, Plain, PauseShape, pause_rendering

\* A call that is no pause leaves no pause; a pause has its eight steps to do.
LEMMA CallLeaves ==
  ASSUME PauseShape, Idle
  PROVE  /\ Left = 0
         /\ CallExpress \/ CallForce \/ CallJackEyes => PauseShape' /\ Left' = 0
         /\ CallPause => PauseShape' /\ Left' = 8
<1>1. Left = 0 BY DEF Idle, Left, Plain
<1>2. ASSUME NEW p \in Nat, NEW s, s = send_phenotype(p)
      PROVE  /\ s \in Seq(Step)
             /\ \A j \in DOMAIN s :
                  s[j].do \in {"write", "wait"} /\ s[j].w.kind \in {"zero", "codon"}
  <2>1. s \in Seq(Step) BY <1>2, SendShape
  <2>2. \A j \in DOMAIN s :
          \/ s[j] = Wait \/ s[j] = Write(Zero)
          \/ \E i : s[j] = Write(CodonWord(i, p))
    BY <1>2 DEF send_phenotype
  <2> QED BY <2>1, <2>2 DEF Wait, Write, Zero, CodonWord
<1>3. ASSUME CallExpress \/ CallForce \/ CallJackEyes PROVE todo' \in Seq(Step) /\ Plain'
  <2>1. CASE CallExpress
    <3> PICK p \in Phenotypes : todo' = express(p) BY <2>1 DEF CallExpress
    <3> DEFINE s == send_phenotype(p)
    <3>1. todo' = <<ReadTx>> \o s BY DEF express
    <3>2. p \in Nat BY EngineConstants
    <3> HIDE DEF s
    <3>3. /\ s \in Seq(Step)
          /\ \A j \in DOMAIN s :
               s[j].do \in {"write", "wait"} /\ s[j].w.kind \in {"zero", "codon"}
      <4>1. s = send_phenotype(p) BY DEF s
      <4> QED BY <1>2, <3>2, <4>1
    <3>4. <<ReadTx>> \in Seq(Step) BY DEF ReadTx, Step, AnyWord, Zero
    <3>5. /\ todo' \in Seq(Step)
          /\ \A j \in DOMAIN todo' : todo'[j] = ReadTx \/ \E n \in DOMAIN s : todo'[j] = s[n]
      BY <3>1, <3>3, <3>4
    <3> QED BY <3>3, <3>5 DEF Plain, ReadTx, Zero
  <2>2. CASE CallForce
    <3> PICK p \in Phenotypes : todo' = send_phenotype(p) BY <2>2 DEF CallForce
    <3>1. p \in Nat BY EngineConstants
    <3> QED BY <1>2, <3>1 DEF Plain
  <2>3. CASE CallJackEyes
    <3> PICK f \in {0, 1} : todo' = jack_eyes_words(f) BY <2>3 DEF CallJackEyes
    <3>1. Wait \in Step /\ Write(EyesWord(f)) \in Step /\ Write(Zero) \in Step
      BY DEF Step, AnyWord, Wait, Write, EyesWord, Zero
    <3> QED BY <3>1 DEF Plain, jack_eyes_words, Wait, Write, EyesWord, Zero
  <2> QED BY <1>3, <2>1, <2>2, <2>3
<1>4. ASSUME CallExpress \/ CallForce \/ CallJackEyes PROVE PauseShape' /\ Left' = 0
  <2>1. mode' = mode BY <1>4 DEF CallExpress, CallForce, CallJackEyes
  <2> QED BY <1>3, <1>4, <2>1 DEF PauseShape, Left
<1>5. ASSUME CallPause PROVE PauseShape' /\ Left' = 8
  <2> PICK m \in {0, 1} : todo' = pause_rendering(m) /\ mode' = m BY <1>5 DEF CallPause
  <2>1. todo' \in Seq(Step)
    <3>1. /\ ReadTxTimed \in Step /\ WaitTimed \in Step /\ WaitAck \in Step /\ ReadRx \in Step
          /\ Write(GateWord) \in Step /\ Write(Zero) \in Step /\ Write(ModeWord(m)) \in Step
      BY DEF Step, AnyWord, Wait, WaitTimed, WaitAck, ReadTxTimed, ReadRx, Write, GateWord,
             ModeWord, Zero
    <3> QED BY <3>1 DEF pause_rendering
  <2>2. Len(todo') = 8 /\ 8 \in DOMAIN todo' /\ todo'[8].do = "readrx"
    <3>1. Len(todo') = 8 /\ todo'[8] = ReadRx BY DEF pause_rendering
    <3>2. ReadRx.do = "readrx" BY DEF ReadRx
    <3> QED BY <2>1, <3>1, <3>2
  <2>3. ~ Plain' BY <2>2 DEF Plain
  <2>4. \A j \in 1 .. Len(todo') : todo'[j] = pause_rendering(mode')[8 - Len(todo') + j]
    <3>1. \A j \in 1 .. 8 : 8 - 8 + j = j OBVIOUS
    <3> QED BY <2>2, <3>1
  <2> QED BY <2>1, <2>2, <2>3, <2>4 DEF PauseShape, Left, pause_rendering
<1> QED BY <1>1, <1>4, <1>5

\* A word written is the last one of FIFO 1, or lost with FIFO 1 full.
LEMMA WriteAdds ==
  ASSUME fifo1 \in Seq(AnyWord), NEW w \in AnyWord, fifo1' = Pushed(w)
  PROVE  /\ fifo1' \in Seq(AnyWord)
         /\ \/ ~ (Len(fifo1) < DEPTH) /\ fifo1' = fifo1
            \/ \E l \in DOMAIN fifo1' :
                 /\ fifo1'[l] = w /\ l \in Nat /\ l \notin DOMAIN fifo1
                 /\ \A n \in DOMAIN fifo1' : n # l => n \in DOMAIN fifo1
                 /\ \A n \in DOMAIN fifo1 : n \in DOMAIN fifo1' /\ fifo1'[n] = fifo1[n] /\ n < l
BY DEF Pushed

\* A pop moves every word one place up and adds none.
LEMMA PopShifts ==
  ASSUME fifo1 \in Seq(AnyWord), fifo1 # <<>>, fifo1' = Tail(fifo1)
  PROVE  /\ fifo1' \in Seq(AnyWord) /\ Len(fifo1') < Len(fifo1) /\ Len(fifo1) \in Nat
         /\ Len(fifo1') \in Nat /\ 1 \in DOMAIN fifo1 /\ Head(fifo1) = fifo1[1]
         /\ \A n \in DOMAIN fifo1' : n \in Nat /\ n + 1 \in DOMAIN fifo1 /\ n + 1 # 1
                                     /\ fifo1'[n] = fifo1[n + 1]
         /\ \A n \in DOMAIN fifo1 : n \in Nat /\ (n # 1 => 1 < n /\ n - 1 \in DOMAIN fifo1')
OBVIOUS

\* The mode on its way: not in FIFO 1 or the only one there, and answered once.
NoMode == \A i \in DOMAIN fifo1 : fifo1[i].kind # "mode"
Told ==
  \E i \in DOMAIN fifo1 :
    fifo1[i] = ModeWord(mode) /\ \A n \in DOMAIN fifo1 : n # i => fifo1[n].kind # "mode"

Lost == fifo2 = 0 /\ NoMode
Coming == fifo2 = 0 /\ Told
Answered == fifo2 = 1 /\ NoMode /\ wfi_mode = mode

ModeInv ==
  ~ late =>
    /\ Left = 0 => Lost /\ wfi_mode = mode
    /\ Left \in 4 .. 8 => Lost
    /\ Left \in 2 .. 3 => Lost \/ Coming \/ Answered
    /\ Left = 1 => Answered
    /\ acked /\ ~ Idle => Left = 1

\* What a word that is written does to the mode in FIFO 1.
LEMMA WriteModes ==
  ASSUME fifo1 \in Seq(AnyWord), NEW w \in AnyWord, fifo1' = Pushed(w), mode' = mode
  PROVE  /\ NoMode /\ w.kind # "mode" => NoMode'
         /\ NoMode /\ w = ModeWord(mode) => NoMode' \/ Told'
         /\ Told /\ w.kind # "mode" => Told'
<1> USE DEF NoMode, Told, ModeWord
<1>1. CASE fifo1' = fifo1 BY <1>1
<1>2. CASE fifo1' # fifo1
  <2> PICK l \in DOMAIN fifo1' :
        /\ fifo1'[l] = w /\ l \in Nat /\ l \notin DOMAIN fifo1
        /\ \A n \in DOMAIN fifo1' : n # l => n \in DOMAIN fifo1
        /\ \A n \in DOMAIN fifo1 : n \in DOMAIN fifo1' /\ fifo1'[n] = fifo1[n] /\ n < l
      BY <1>2, WriteAdds
  <2>1. NoMode /\ w.kind # "mode" => NoMode' OBVIOUS
  <2>2. NoMode /\ w = ModeWord(mode) => Told' OBVIOUS
  <2>3. ASSUME Told, w.kind # "mode" PROVE Told'
    <3> PICK i \in DOMAIN fifo1 :
          fifo1[i] = ModeWord(mode) /\ \A n \in DOMAIN fifo1 : n # i => fifo1[n].kind # "mode"
        BY <2>3
    <3> QED BY <2>3
  <2> QED BY <2>1, <2>2, <2>3
<1> QED BY <1>1, <1>2

\* What a pop does to the mode in FIFO 1.
LEMMA PopModes ==
  ASSUME fifo1 \in Seq(AnyWord), fifo1 # <<>>, fifo1' = Tail(fifo1), mode' = mode
  PROVE  /\ NoMode => NoMode' /\ fifo1[1].kind # "mode"
         /\ Told /\ fifo1[1].kind # "mode" => Told'
         /\ Told /\ fifo1[1].kind = "mode" => fifo1[1] = ModeWord(mode) /\ NoMode'
<1> USE PopShifts DEF NoMode, Told, ModeWord
<1>1. NoMode => NoMode' /\ fifo1[1].kind # "mode" OBVIOUS
<1>2. ASSUME Told
      PROVE  /\ fifo1[1].kind # "mode" => Told'
             /\ fifo1[1].kind = "mode" => fifo1[1] = ModeWord(mode) /\ NoMode'
  <2> PICK i \in DOMAIN fifo1 :
        fifo1[i] = ModeWord(mode) /\ \A n \in DOMAIN fifo1 : n # i => fifo1[n].kind # "mode"
      BY <1>2
  <2>1. CASE i = 1 BY <2>1
  <2>2. CASE i # 1
    <3>1. i - 1 \in DOMAIN fifo1' /\ i - 1 \in Nat /\ fifo1'[i - 1] = fifo1[i] BY <2>2
    <3>2. \A n \in DOMAIN fifo1' : n # i - 1 => fifo1'[n].kind # "mode" BY <3>1
    <3>3. fifo1[1].kind # "mode" BY <2>2
    <3>4. fifo1'[i - 1] = ModeWord(mode') BY <3>1
    <3> HIDE DEF ModeWord
    <3>5. Told' BY <3>1, <3>2, <3>4, SMTT(20)
    <3> QED BY <3>3, <3>5
  <2> QED BY <2>1, <2>2
<1> QED BY <1>1, <1>2

\* What a step of the host is, by what is left of a pause.
LEMMA HostTurn ==
  ASSUME PauseShape, Host
  PROVE  /\ PauseShape' /\ Left' = (IF Left = 0 THEN 0 ELSE Left - 1) /\ Left \in 0 .. 8
         /\ ~ Idle /\ (Left = 1 => Idle')
         /\ UNCHANGED <<mode, cpc, led_gate, wfi_mode>>
         /\ HostWrite => /\ Left \in {0, 3, 4, 5, 6} /\ todo[1].w \in AnyWord
                         /\ fifo1' = Pushed(todo[1].w)
                         /\ Left = 0 => todo[1].w.kind \notin {"gate", "mode"}
                         /\ Left \in {3, 5} => todo[1].w = Zero
                         /\ Left = 4 => todo[1].w = ModeWord(mode)
                         /\ Left = 6 => todo[1].w = GateWord
         /\ HostWait => Left \in {0, 7}
         /\ HostReadTx => Left \in {0, 8}
         /\ HostAck => Left = 2
         /\ HostReadRx => Left = 1
<1> DEFINE step == todo[1]
<1>1. /\ todo # <<>> /\ todo' = Tail(todo) /\ step = Head(todo) /\ ~ Idle
      /\ UNCHANGED <<mode, cpc, led_gate, wfi_mode>>
  BY DEF Host, HostWrite, HostWait, HostWaitTimeout, HostReadTx, HostAck, HostAckTimeout,
         HostReadRx, Now, Idle, coreVars
<1>2. todo \in Seq(Step) /\ step \in Step BY <1>1 DEF PauseShape
<1>3. NextIs BY HostsNext
<1>4. PauseShape' /\ Left' = IF Left = 0 THEN 0 ELSE Left - 1 BY <1>1, OneLess
<1>5. Left = 1 => Idle'
  <2>1. Left = 1 => Len(todo) = 1 BY <1>3 DEF NextIs
  <2> QED BY <1>1, <1>2, <2>1 DEF Idle
<1>6. /\ Left \in 0 .. 8
      /\ Left = 0 => step.do \in {"write", "wait", "readtx"} /\ step.w.kind \notin {"gate", "mode"}
      /\ Left = 8 => step.do = "readtxtimed"
      /\ Left = 7 => step.do = "waittimed"
      /\ Left = 6 => step = Write(GateWord)
      /\ Left \in {3, 5} => step = Write(Zero)
      /\ Left = 4 => step = Write(ModeWord(mode))
      /\ Left = 2 => step.do = "ack"
      /\ Left = 1 => step.do = "readrx"
  BY <1>1, <1>3 DEF NextIs
<1> HIDE DEF step
<1>7. /\ Left \in {3, 4, 5, 6} => step.do = "write"
      /\ Left \in {3, 5} => step.w = Zero
      /\ Left = 4 => step.w = ModeWord(mode)
      /\ Left = 6 => step.w = GateWord
  BY <1>6 DEF Write
<1>8. step.w \in AnyWord BY <1>2 DEF Step
<1>9. ASSUME HostWrite
      PROVE  /\ Left \in {0, 3, 4, 5, 6} /\ fifo1' = Pushed(step.w)
             /\ Left = 0 => step.w.kind \notin {"gate", "mode"}
  <2>1. step.do = "write" /\ fifo1' = Pushed(step.w) BY <1>1, <1>9 DEF HostWrite, Now
  <2> QED BY <1>6, <2>1
<1>10. ASSUME HostWait PROVE Left \in {0, 7}
  <2>1. step.do \in {"wait", "waittimed"} BY <1>1, <1>10 DEF HostWait, Now
  <2> QED BY <1>6, <1>7, <2>1
<1>11. ASSUME HostReadTx PROVE Left \in {0, 8}
  <2>1. step.do \in {"readtx", "readtxtimed"} BY <1>1, <1>11 DEF HostReadTx, Now
  <2> QED BY <1>6, <1>7, <2>1
<1>12. ASSUME HostAck PROVE Left = 2
  <2>1. step.do = "ack" BY <1>1, <1>12 DEF HostAck, Now
  <2> QED BY <1>6, <1>7, <2>1
<1>13. ASSUME HostReadRx PROVE Left = 1
  <2>1. step.do = "readrx" BY <1>1, <1>13 DEF HostReadRx, Now
  <2> QED BY <1>6, <1>7, <2>1
<1> QED
  BY <1>1, <1>4, <1>5, <1>6, <1>7, <1>8, <1>9, <1>10, <1>11, <1>12, <1>13 DEF step

\* The host's steps keep the mode's part of the invariant.
LEMMA ModeHost ==
  ASSUME fifo1 \in Seq(AnyWord), PauseShape, ModeInv, Host PROVE PauseShape' /\ ModeInv'
<1> USE HostTurn
<1>1. CASE HostWaitTimeout \/ HostAckTimeout
  BY <1>1 DEF HostWaitTimeout, HostAckTimeout, ModeInv
<1>2. CASE HostWrite /\ ~ late
  <2> DEFINE w == todo[1].w
  <2>1. /\ Left \in {0, 3, 4, 5, 6} /\ w \in AnyWord /\ fifo1' = Pushed(w)
        /\ Left # 4 => w.kind # "mode"
        /\ Left = 4 => w = ModeWord(mode)
    BY <1>2 DEF Zero, GateWord
  <2> HIDE DEF w
  <2>2. UNCHANGED <<fifo2, acked, late, mode, wfi_mode>> BY <1>2 DEF HostWrite, coreVars
  <2>3. ~ acked' BY <1>2, <2>1, <2>2 DEF ModeInv
  <2>4. /\ NoMode /\ Left # 4 => NoMode'
        /\ NoMode /\ Left = 4 => NoMode' \/ Told'
        /\ Told /\ Left # 4 => Told'
    BY <2>1, <2>2, WriteModes
  <2> QED BY <1>2, <2>1, <2>2, <2>3, <2>4 DEF ModeInv, Lost, Coming, Answered
<1>3. CASE HostWait \/ HostReadTx
  <2>1. UNCHANGED <<fifo1, fifo2, acked, late, mode, wfi_mode>> /\ Left \in {0, 7, 8}
    BY <1>3 DEF HostWait, HostReadTx, coreVars
  <2>2. (NoMode <=> NoMode') /\ (Told <=> Told') BY <2>1 DEF NoMode, Told, ModeWord
  <2> QED BY <2>1, <2>2 DEF ModeInv, Lost, Coming, Answered
<1>4. CASE HostAck
  <2>1. Left = 2 /\ fifo2 > 0 /\ UNCHANGED <<fifo1, fifo2, late, mode, wfi_mode>>
    BY <1>4 DEF HostAck, coreVars
  <2>2. NoMode <=> NoMode' BY <2>1 DEF NoMode
  <2> QED BY <2>1, <2>2 DEF ModeInv, Lost, Coming, Answered
<1>5. CASE HostReadRx
  <2>1. Left = 1 /\ fifo2' = 0 /\ UNCHANGED <<fifo1, acked, late, mode, wfi_mode>>
    BY <1>5 DEF HostReadRx, coreVars
  <2>2. NoMode <=> NoMode' BY <2>1 DEF NoMode
  <2> QED BY <2>1, <2>2 DEF ModeInv, Lost, Coming, Answered
<1>6. CASE HostWrite /\ late BY <1>6 DEF HostWrite, ModeInv
<1> QED BY <1>1, <1>2, <1>3, <1>4, <1>5, <1>6 DEF Host

LEMMA ModeCall ==
  ASSUME PauseShape, ModeInv, CallExpress \/ CallForce \/ CallJackEyes \/ CallPause
  PROVE  PauseShape' /\ ModeInv'
<1>1. Idle /\ UNCHANGED <<fifo1, fifo2, late, wfi_mode>> /\ ~ acked' /\ (~ CallPause => mode' = mode)
  BY DEF CallExpress, CallForce, CallJackEyes, CallPause, MayCall, coreVars
<1>2. NoMode <=> NoMode' BY <1>1 DEF NoMode
<1>3. Left = 0 /\ (CallPause => PauseShape' /\ Left' = 8)
      /\ (~ CallPause => PauseShape' /\ Left' = 0)
  BY <1>1, CallLeaves
<1> QED BY <1>1, <1>2, <1>3 DEF ModeInv, Lost

\* The core's steps keep it.
LEMMA ModeCore ==
  ASSUME SetupFirst, PauseShape, ModeInv, Core \/ UNCHANGED vars
  PROVE  PauseShape' /\ ModeInv'
<1>0. UNCHANGED <<todo, acked, late, mode>>
  BY DEF Core, CoreStart, CorePop, CoreRender, CoreTransmitted, CoreCompute, vars, hostVars
<1>1. PauseShape' /\ Left' = Left /\ (Idle' <=> Idle) /\ Left \in 0 .. 8
  BY <1>0, SameLeft, HostsNext DEF Idle, NextIs
<1>2. CASE UNCHANGED <<fifo1, fifo2, wfi_mode>>
  <2>1. (NoMode <=> NoMode') /\ (Told <=> Told') BY <1>0, <1>2 DEF NoMode, Told, ModeWord
  <2> QED BY <1>0, <1>1, <1>2, <2>1 DEF ModeInv, Lost, Coming, Answered
<1>3. CASE /\ fifo1 # <<>> /\ fifo1' = Tail(fifo1) /\ fifo1[1].kind # "mode"
           /\ UNCHANGED <<fifo2, wfi_mode>>
  <2>1. (NoMode => NoMode') /\ (Told => Told') BY <1>0, <1>3, PopModes DEF SetupFirst
  <2> QED BY <1>0, <1>1, <1>3, <2>1 DEF ModeInv, Lost, Coming, Answered
<1>4. CASE /\ fifo1 # <<>> /\ fifo1' = Tail(fifo1) /\ fifo1[1].kind = "mode"
           /\ wfi_mode' = fifo1[1].v /\ fifo2' = IF fifo2 < DEPTH THEN fifo2 + 1 ELSE fifo2
  <2>1. ~ NoMode /\ (Told => fifo1[1] = ModeWord(mode) /\ NoMode')
    BY <1>0, <1>4, PopModes DEF SetupFirst
  <2>2. fifo2 = 0 => fifo2' = 1 BY <1>4, EngineAssumption DEF EngineAssumption
  <2>3. Coming => Answered'
    BY <1>0, <1>4, <2>1, <2>2 DEF Coming, Answered, ModeWord
  <2> QED BY <1>0, <1>1, <2>1, <2>3 DEF ModeInv, Lost, Coming, Answered
<1>5. CASE CoreStart
  <2>1. fifo1[1].kind = "setup" BY <1>5 DEF CoreStart, SetupFirst
  <2> QED BY <1>3, <1>5, <2>1 DEF CoreStart
<1>6. CASE CorePop
  <2>1. Head(fifo1) = fifo1[1] BY <1>6 DEF CorePop
  <2> QED BY <1>3, <1>4, <1>6, <2>1 DEF CorePop, SetMode, Acknowledge
<1> QED
  BY <1>2, <1>5, <1>6
  DEF Core, CoreRender, CoreTransmitted, CoreCompute, vars, coreVars

LEMMA ModeInit == Init => PauseShape /\ ModeInv
<1> SUFFICES ASSUME Init PROVE PauseShape /\ ModeInv OBVIOUS
<1>1. Plain /\ Left = 0 BY DEF Init, Plain, Left
<1>2. NoMode BY DEF Init, NoMode, SetupWord
<1> QED BY <1>1, <1>2 DEF Init, PauseShape, ModeInv, Lost

LEMMA ModeStep == ASSUME SetupFirst, PauseShape, ModeInv, [Next]_vars PROVE PauseShape' /\ ModeInv'
<1>1. fifo1 \in Seq(AnyWord) BY DEF SetupFirst
<1> QED BY <1>1, ModeCall, ModeHost, ModeCore DEF Next

LEMMA PauseAlways == Spec => [](PauseShape /\ ModeInv)
BY ModeInit, ModeStep, EngineAlways, PTL DEF Spec

\* Whatever is sent and however full the FIFO: once all is taken in, the eyes are
\* those last told and, if no wait ran out, so is the clock mode (mod.rs:195-243).
THEOREM SettingsAlwaysArrive == Spec => []SettingsArrive
<1>1. PauseShape /\ ModeInv => (Settled /\ ~ late => wfi_mode = mode)
  BY DEF ModeInv, Left, Plain, Settled, Idle
<1>2. (Settled => jack_eyes = eyes) /\ (Settled /\ ~ late => wfi_mode = mode) => SettingsArrive
  BY DEF SettingsArrive
<1> QED BY <1>1, <1>2, PauseAlways, EyesArrive, PTL

\* Whatever is sent and however full the FIFO: as long as no wait ran out, an
\* acknowledgement is only there while the pause that asked for it is to take it
\* out (mod.rs:217-257, main.c:458-461).
THEOREM AcksNeverStray == Spec => []AcksAreAwaited
<1>1. ASSUME PauseShape, ModeInv, fifo2 > 0, ~ late
      PROVE  fifo2 = 1 /\ wfi_mode = mode /\ ~ Idle /\ todo[Len(todo)] = ReadRx
  <2>1. Left \in 0 .. 8 BY <1>1, HostsNext DEF NextIs
  <2>2. Left \in 1 .. 3 /\ fifo2 = 1 /\ wfi_mode = mode
    BY <1>1, <2>1 DEF ModeInv, Lost, Coming, Answered
  <2>3. ~ Plain /\ Len(todo) \in 1 .. 8 BY <1>1, <2>2 DEF Left, PauseShape
  <2>4. todo[Len(todo)] = pause_rendering(mode)[8]
    <3> HIDE DEF pause_rendering
    <3>0. Len(todo) \in 1 .. Len(todo) BY <2>3
    <3>1. todo[Len(todo)] = pause_rendering(mode)[8 - Len(todo) + Len(todo)]
      BY <1>1, <2>3, <3>0 DEF PauseShape
    <3>2. 8 - Len(todo) + Len(todo) = 8 BY <2>3
    <3> QED BY <3>1, <3>2
  <2>5. pause_rendering(mode)[8] = ReadRx BY DEF pause_rendering
  <2>6. ~ Idle
    <3> SUFFICES ASSUME todo = <<>> PROVE FALSE BY DEF Idle
    <3>1. Len(todo) = 0 OBVIOUS
    <3> QED BY <2>3, <3>1
  <2>7. todo[Len(todo)] = ReadRx BY <2>4, <2>5
  <2> QED BY <2>2, <2>6, <2>7
<1>2. PauseShape /\ ModeInv => AcksAreAwaited BY <1>1 DEF AcksAreAwaited
<1> QED BY <1>2, PauseAlways, PTL

\* From the writing of a pause's gate to its end the strip is dark, or will be
\* before the core comes to the mode: the gate is ahead of the mode in FIFO 1, or
\* it closed the strip and has loops to go; unless the mode was lost.
GateWaits ==
  \E i \in DOMAIN fifo1 :
    fifo1[i].kind = "gate" /\ \A n \in DOMAIN fifo1 : n < i => fifo1[n].kind # "mode"

Ahead == fifo2 = 0 /\ GateWaits

Closed ==
  /\ cpc \in {"poll", "compute"} /\ led_gate \in Nat /\ led_gate > 0
  /\ fifo2 = 0 /\ (cpc = "compute" \/ Left \in 3 .. 5) => led_gate > 1

DarkInv ==
  ~ late =>
    /\ Left = 6 => Len(fifo1) < DEPTH
    /\ Left \in 4 .. 5 => Ahead \/ Closed
    /\ Left \in 2 .. 3 => Lost \/ Ahead \/ Closed
    /\ Left = 1 => Closed

\* What a word that is written does to the gates in FIFO 1.
LEMMA WriteGates ==
  ASSUME fifo1 \in Seq(AnyWord), NEW w \in AnyWord, fifo1' = Pushed(w)
  PROVE  /\ GateWaits => GateWaits'
         /\ NoMode /\ w = GateWord /\ Len(fifo1) < DEPTH => GateWaits'
<1> USE DEF GateWaits, NoMode, GateWord
<1>1. CASE ~ (Len(fifo1) < DEPTH) /\ fifo1' = fifo1 BY <1>1
<1>2. CASE \E l \in DOMAIN fifo1' :
             /\ fifo1'[l] = w /\ l \in Nat /\ l \notin DOMAIN fifo1
             /\ \A n \in DOMAIN fifo1' : n # l => n \in DOMAIN fifo1
             /\ \A n \in DOMAIN fifo1 : n \in DOMAIN fifo1' /\ fifo1'[n] = fifo1[n] /\ n < l
  <2> PICK l \in DOMAIN fifo1' :
        /\ fifo1'[l] = w /\ l \in Nat /\ l \notin DOMAIN fifo1
        /\ \A n \in DOMAIN fifo1' : n # l => n \in DOMAIN fifo1
        /\ \A n \in DOMAIN fifo1 : n \in DOMAIN fifo1' /\ fifo1'[n] = fifo1[n] /\ n < l
      BY <1>2
  <2>1. ASSUME GateWaits PROVE GateWaits'
    <3> PICK i \in DOMAIN fifo1 :
          fifo1[i].kind = "gate" /\ \A n \in DOMAIN fifo1 : n < i => fifo1[n].kind # "mode"
        BY <2>1
    <3>1. i \in Nat /\ ~ (l < i) OBVIOUS
    <3> QED BY <3>1
  <2>2. NoMode /\ w = GateWord => GateWaits'
    <3>1. ~ (l < l) OBVIOUS
    <3> QED BY <3>1
  <2> QED BY <2>1, <2>2
<1> QED BY <1>1, <1>2, WriteAdds

\* What a pop does to the gates in FIFO 1.
LEMMA PopGates ==
  ASSUME fifo1 \in Seq(AnyWord), fifo1 # <<>>, fifo1' = Tail(fifo1), GateWaits
  PROVE  fifo1[1].kind = "gate" \/ (fifo1[1].kind # "mode" /\ GateWaits')
<1> USE PopShifts DEF GateWaits
<1> PICK i \in DOMAIN fifo1 :
      fifo1[i].kind = "gate" /\ \A n \in DOMAIN fifo1 : n < i => fifo1[n].kind # "mode"
    OBVIOUS
<1>1. CASE i = 1 BY <1>1
<1>2. CASE i # 1
  <2>1. i - 1 \in DOMAIN fifo1' /\ i - 1 \in Nat /\ fifo1'[i - 1] = fifo1[i] /\ 1 < i BY <1>2
  <2>2. ASSUME NEW n \in DOMAIN fifo1', n < i - 1 PROVE fifo1'[n].kind # "mode"
    <3>1. n \in Nat /\ i \in Nat /\ n + 1 \in DOMAIN fifo1 /\ fifo1'[n] = fifo1[n + 1]
      OBVIOUS
    <3>2. n + 1 < i BY <2>2, <3>1
    <3> QED BY <3>1, <3>2
  <2> QED BY <1>2, <2>1, <2>2
<1> QED BY <1>1, <1>2

\* The host's steps keep the gate's part of the invariant.
LEMMA DarkHost ==
  ASSUME GATE > 1, fifo1 \in Seq(AnyWord), PauseShape, ModeInv, DarkInv, Host PROVE DarkInv'
<1>1. CASE HostWaitTimeout \/ HostAckTimeout
  BY <1>1 DEF HostWaitTimeout, HostAckTimeout, DarkInv
<1>2. CASE HostWrite /\ ~ late
  <2> DEFINE w == todo[1].w
  <2>1. /\ Left \in {0, 3, 4, 5, 6} /\ w \in AnyWord /\ fifo1' = Pushed(w)
        /\ Left' = IF Left = 0 THEN 0 ELSE Left - 1
        /\ Left = 6 => w = GateWord
        /\ Left = 3 => w.kind # "mode"
    BY <1>2, HostTurn DEF Zero
  <2>2. UNCHANGED <<fifo2, late, mode, cpc, led_gate>> BY <1>2 DEF HostWrite, coreVars
  <2> HIDE DEF w
  <2>3. /\ GateWaits => GateWaits'
        /\ NoMode /\ Left = 6 /\ Len(fifo1) < DEPTH => GateWaits'
        /\ NoMode /\ Left = 3 => NoMode'
    BY <2>1, <2>2, WriteGates, WriteModes
  <2>4. Left = 6 => Lost BY <1>2 DEF ModeInv
  <2>5. Left # 6 /\ Closed => Closed' BY <2>1, <2>2 DEF Closed
  <2>6. (Ahead => Ahead') /\ (Lost /\ Left = 3 => Lost') BY <2>2, <2>3 DEF Ahead, Lost
  <2>7. Left = 6 => Ahead' BY <1>2, <2>2, <2>3, <2>4 DEF DarkInv, Ahead, Lost
  <2> QED BY <1>2, <2>1, <2>5, <2>6, <2>7 DEF DarkInv
<1>3. CASE HostWait \/ HostReadTx \/ HostReadRx
  <2>1. Left' \in {0, 6, 7} BY <1>3, HostTurn
  <2>2. Left' = 6 => Len(fifo1') < DEPTH
    <3>1. Left' = 6 => HostWait BY <1>3, HostTurn
    <3>2. HostWait => Len(fifo1') < DEPTH
      <4>1. Len(fifo1) \in Nat /\ DEPTH \in Nat BY EngineConstants
      <4> QED BY <4>1 DEF HostWait
    <3> QED BY <3>1, <3>2
  <2> QED BY <2>1, <2>2 DEF DarkInv
<1>4. CASE HostAck
  <2>1. Left = 2 /\ Left' = 1 BY <1>4, HostTurn
  <2>2. fifo2 > 0 /\ UNCHANGED <<fifo2, late, cpc, led_gate>> BY <1>4 DEF HostAck, coreVars
  <2>3. ~ late => Closed BY <2>1, <2>2 DEF DarkInv, Lost, Ahead
  <2> QED BY <2>1, <2>2, <2>3 DEF DarkInv, Closed
<1>5. CASE HostWrite /\ late BY <1>5 DEF HostWrite, DarkInv
<1> QED BY <1>1, <1>2, <1>3, <1>4, <1>5 DEF Host

LEMMA DarkCall ==
  ASSUME PauseShape, CallExpress \/ CallForce \/ CallJackEyes \/ CallPause PROVE DarkInv'
<1>1. Idle BY DEF CallExpress, CallForce, CallJackEyes, CallPause, MayCall
<1>2. Left' \in {0, 8} BY <1>1, CallLeaves
<1> QED BY <1>2 DEF DarkInv

\* The core's steps keep it.
LEMMA DarkCore ==
  ASSUME Prompt, GATE > 1, SetupFirst, PauseShape, ModeInv, DarkInv, ~ late,
         Core \/ UNCHANGED vars
  PROVE  DarkInv'
<1>1. Left' = Left /\ Left \in 0 .. 8 /\ late' = late /\ mode' = mode
  <2>1. UNCHANGED <<todo, mode, late>>
    BY DEF Core, CoreStart, CorePop, CoreRender, CoreTransmitted, CoreCompute, vars, hostVars
  <2> QED BY <2>1, SameLeft, HostsNext DEF NextIs
<1>2. /\ Left \in 1 .. 8 => fifo2 \in {0, 1}
      /\ Left = 2 /\ fifo2 = 0 => Lost \/ Told
      /\ Left = 1 => fifo2 = 1
  BY DEF ModeInv, Lost, Coming, Answered
<1> USE <1>1
<1>3. CASE CoreStart
  <2>1. /\ fifo1 \in Seq(AnyWord) /\ fifo1 # <<>> /\ fifo1' = Tail(fifo1) /\ fifo2' = fifo2
        /\ fifo1[1].kind = "setup" /\ cpc \notin {"poll", "compute"}
    BY <1>3 DEF CoreStart, SetupFirst
  <2>2. (GateWaits => GateWaits') /\ (NoMode => NoMode') BY <2>1, PopGates, PopModes
  <2>3. Len(fifo1) < DEPTH => Len(fifo1') < DEPTH BY <2>1, PopShifts, EngineConstants
  <2> QED BY <2>1, <2>2, <2>3 DEF DarkInv, Ahead, Lost, Closed
<1>4. CASE CorePop
  <2>1. /\ fifo1 \in Seq(AnyWord) /\ fifo1 # <<>> /\ fifo1' = Tail(fifo1)
        /\ cpc = "poll" /\ cpc' = "poll" /\ Head(fifo1) = fifo1[1]
    BY <1>4 DEF CorePop, SetupFirst
  <2>2. /\ led_gate' = IF fifo1[1].kind = "gate" THEN GATE ELSE led_gate
        /\ fifo2' = IF fifo1[1].kind = "mode"
                      THEN IF fifo2 < DEPTH THEN fifo2 + 1 ELSE fifo2 ELSE fifo2
    BY <1>4, <2>1 DEF CorePop, Acknowledge
  <2>3. Len(fifo1) < DEPTH => Len(fifo1') < DEPTH BY <2>1, PopShifts, EngineConstants
  <2>4. CASE fifo1[1].kind = "gate"
    <3>1. Closed' BY <2>1, <2>2, <2>4, EngineAssumption DEF Closed, EngineAssumption
    <3> QED BY <2>3, <3>1 DEF DarkInv
  <2>5. CASE fifo1[1].kind # "gate"
    <3>1. Ahead => Ahead' BY <2>1, <2>2, <2>5, PopGates DEF Ahead
    <3>2. Lost => Lost' BY <2>1, <2>2, PopModes DEF Lost
    <3>3. Left \in 1 .. 8 /\ Closed => Closed'
      BY <1>2, <2>1, <2>2, <2>5, EngineConstants DEF Closed
    <3> QED BY <2>3, <3>1, <3>2, <3>3 DEF DarkInv
  <2> QED BY <2>4, <2>5
<1>5. CASE CoreRender
  <2>1. /\ fifo1 = <<>> /\ cpc = "poll" /\ cpc' = (IF led_gate = 0 THEN "transmit" ELSE "compute")
        /\ UNCHANGED <<fifo1, fifo2, led_gate>>
    BY <1>5 DEF CoreRender
  <2>2. ~ GateWaits /\ ~ Told /\ (Lost => Lost') BY <2>1 DEF GateWaits, Told, Lost, NoMode
  <2>3. Closed /\ (fifo2 = 0 => Left \in 3 .. 5) => Closed' BY <2>1 DEF Closed
  <2>4. Left = 6 => Len(fifo1') < DEPTH BY <2>1 DEF DarkInv
  <2> QED BY <1>2, <2>2, <2>3, <2>4 DEF DarkInv, Ahead
<1>6. CASE CoreTransmitted
  <2>1. cpc = "transmit" /\ UNCHANGED <<fifo1, fifo2>> BY <1>6 DEF CoreTransmitted
  <2>2. ~ Closed BY <2>1 DEF Closed
  <2> QED BY <2>1, <2>2 DEF DarkInv, Ahead, Lost, GateWaits, NoMode
<1>7. CASE CoreCompute
  <2>1. /\ cpc = "compute" /\ cpc' = "poll" /\ ~ HostReady /\ UNCHANGED <<fifo1, fifo2>>
        /\ led_gate' = IF led_gate > 0 THEN led_gate - 1 ELSE 0
    BY <1>7 DEF CoreCompute
  <2>2. Left \notin {1, 3, 4, 5} /\ (Left = 2 => fifo2 = 0)
    <3>1. /\ todo # <<>> => todo[1] = Head(todo)
          /\ Left > 0 => todo # <<>>
          /\ Left \in {3, 4, 5} => todo[1].do = "write"
          /\ Left = 2 => todo[1].do = "ack"
          /\ Left = 1 => todo[1].do = "readrx"
      BY HostsNext DEF NextIs, Write, PauseShape
    <3> QED BY <1>2, <2>1, <3>1 DEF HostReady, Idle
  <2>3. (Ahead => Ahead') /\ (Lost => Lost') /\ (Left = 2 /\ Closed => Closed')
    BY <2>1, <2>2 DEF Ahead, Lost, GateWaits, NoMode, Closed
  <2>4. Left = 6 => Len(fifo1') < DEPTH BY <2>1 DEF DarkInv
  <2> QED BY <2>2, <2>3, <2>4 DEF DarkInv
<1>8. CASE UNCHANGED vars
  BY <1>8 DEF vars, coreVars, DarkInv, Ahead, Lost, GateWaits, NoMode, Closed
<1> QED BY <1>3, <1>4, <1>5, <1>6, <1>7, <1>8 DEF Core

LEMMA DarkStep ==
  ASSUME Prompt, GATE > 1, SetupFirst, PauseShape, ModeInv, DarkInv, [Next]_vars
  PROVE  DarkInv'
<1>1. fifo1 \in Seq(AnyWord) BY DEF SetupFirst
<1>2. CASE late /\ (Core \/ UNCHANGED vars)
  BY <1>2 DEF Core, CoreStart, CorePop, CoreRender, CoreTransmitted, CoreCompute, vars, hostVars,
              DarkInv
<1> QED BY <1>1, <1>2, DarkCall, DarkHost, DarkCore DEF Next

\* For any FIFO and any gate of more than one loop: an acknowledgement that is
\* waited for in time is that of this pause, and the strip is dark when it comes
\* (mod.rs:207-249, main.c:467-540).
THEOREM AcknowledgedInTheDark ==
  ASSUME Prompt, GATE > 1
  PROVE  Spec => []AckMeansDark
<1>1. Init => DarkInv
  <2>1. Init => Left = 0 BY DEF Init, Left, Plain
  <2> QED BY <2>1 DEF DarkInv
<1>2. Spec => []DarkInv BY <1>1, DarkStep, EngineAlways, PauseAlways, PTL DEF Spec
<1>3. PauseShape /\ ModeInv /\ DarkInv => AckMeansDark
  BY DEF ModeInv, DarkInv, AckMeansDark, Answered, Closed
<1> QED BY <1>2, <1>3, PauseAlways, PTL
-----------------------------------------------------------------------------

LEMMA RingImplementsEngine == RingSpec => Spec
<1>1. RingInit => Init BY DEF RingInit
<1>2. [RingNext]_ringVars => [Next]_vars
  BY DEF RingNext, Next, RingAutogamy, RingSyngamy, RingGeneTest, RingSetGene, RingClear,
         RingSelect, RingIgnore, RingForce, RingEyes, RingPause, RingHost, RingCore,
         Expressed, Untouched, ringVars, engineVars, vars
<1> QED BY <1>1, <1>2, PTL DEF RingSpec, Spec

\* What the server told the engine to show is what the engine last sent.
SentIsShown == sent = shown

LEMMA SentIsShownStep == ASSUME SentIsShown, [RingNext]_ringVars PROVE SentIsShown'
<1> USE DEF SentIsShown
<1>1. ASSUME Expressed, gene' = None => shown' = shown PROVE SentIsShown'
  BY <1>1 DEF Expressed, Untouched, engineVars, hostVars
<1>2. CASE RingAutogamy \/ RingSyngamy \/ RingGeneTest \/ RingSetGene
  BY <1>1, <1>2 DEF RingAutogamy, RingSyngamy, RingGeneTest, RingSetGene,
                    Autogamy, Syngamy, GeneTest, SetGene, NewGene, Express
<1>3. CASE RingClear BY <1>1, <1>3 DEF RingClear, ClearPattern, Express
<1>4. CASE RingSelect BY <1>1, <1>4 DEF RingSelect, SelectPattern, Install, Express
<1>5. CASE RingIgnore \/ UNCHANGED ringVars
  BY <1>5 DEF RingIgnore, SelectUnknown, Untouched, ringVars, ledVars, engineVars, hostVars
<1>6. CASE RingForce BY <1>6 DEF RingForce
<1>7. CASE RingEyes \/ RingPause \/ RingHost \/ RingCore
  BY <1>7 DEF RingEyes, RingPause, RingHost, RingCore, CallJackEyes, CallPause, Host, Core,
              HostWrite, HostWait, HostWaitTimeout, HostReadTx, HostAck, HostAckTimeout, HostReadRx,
              CoreStart, CorePop, CoreRender, CoreTransmitted, CoreCompute, ledVars, hostVars
<1> QED BY <1>2, <1>3, <1>4, <1>5, <1>6, <1>7 DEF RingNext

\* Whatever is requested while the engine is still busy with an earlier request:
\* once it has taken everything in, the core renders all of the gene the server
\* holds, unless a phenotype was forced (leds.rs:163-260, mod.rs:162-193).
THEOREM RingRenders == RingSpec => []RingRendersGene
<1>1. RingInit => SentIsShown BY DEF RingInit, LedInit, Init, SentIsShown, Unset, None
<1>2. RingSpec => []SentIsShown BY <1>1, SentIsShownStep, PTL DEF RingSpec
<1>3. SentIsShown /\ RingShowsGene /\ LastPhenotypeRendered => RingRendersGene
  BY DEF SentIsShown, RingShowsGene, LastPhenotypeRendered, RingRendersGene
<1> QED
  BY <1>2, <1>3, RingImplementsServer, RingImplementsEngine, RingAlwaysShowsGene,
     LastPhenotypeArrives, PTL
-----------------------------------------------------------------------------
(* Types of the engine *)

\* What a word that can be sent carries.
LEMMA WordKinds ==
  ASSUME NEW w \in Word
  PROVE  /\ w.kind = "codon" => w.i \in Codon /\ w.v \in Phenotypes
         /\ w.kind \in {"eyes", "mode"} => w.v \in {0, 1}
BY DEF Word, Zero, GateWord, SetupWord, CodonWord, EyesWord, ModeWord

LEMMA StepWords ==
  /\ Wait.w = Zero /\ WaitTimed.w = Zero /\ WaitAck.w = Zero /\ ReadTx.w = Zero
  /\ ReadTxTimed.w = Zero /\ ReadRx.w = Zero /\ \A w : Write(w).w = w
BY DEF Wait, WaitTimed, WaitAck, ReadTx, ReadTxTimed, ReadRx, Write

\* An operation writes words that can be sent.
LEMMA SettingWords ==
  ASSUME NEW f \in {0, 1}
  PROVE  /\ \A k \in DOMAIN jack_eyes_words(f) : jack_eyes_words(f)[k].w \in Word
         /\ \A k \in DOMAIN pause_rendering(f) : pause_rendering(f)[k].w \in Word
<1>1. Zero \in Word /\ GateWord \in Word /\ EyesWord(f) \in Word /\ ModeWord(f) \in Word
  BY DEF Word
<1>2. \A k \in DOMAIN jack_eyes_words(f) : jack_eyes_words(f)[k].w \in Word
  BY <1>1, StepWords DEF jack_eyes_words
<1>3. \A k \in DOMAIN pause_rendering(f) : pause_rendering(f)[k].w \in Word
  BY <1>1, StepWords DEF pause_rendering
<1> QED BY <1>2, <1>3

LEMMA PhenotypeWords ==
  ASSUME NEW p \in Phenotypes
  PROVE  /\ \A k \in DOMAIN send_phenotype(p) : send_phenotype(p)[k].w \in Word
         /\ \A k \in DOMAIN express(p) : express(p)[k].w \in Word
<1> USE EngineConstants
<1>1. Zero \in Word /\ \A c \in Codon : CodonWord(c, p) \in Word
  BY DEF Word
<1>2. Wait.w = Zero /\ ReadTx.w = Zero /\ \A w : Write(w).w = w
  BY StepWords
<1>3. ASSUME NEW k \in DOMAIN send_phenotype(p) PROVE send_phenotype(p)[k].w \in Word
  <2>1. k \in 1 .. LastWord BY DEF send_phenotype
  <2>2. send_phenotype(p)[k] =
          IF k % 2 = 0 THEN Wait ELSE Write(IF k \in {1, LastWord} THEN Zero ELSE CodonWord(CodonAt(k), p))
    BY <2>1 DEF send_phenotype
  <2>3. k % 2 # 0 /\ k \notin {1, LastWord} => CodonAt(k) \in Codon
    BY <2>1 DEF LastWord, CodonAt
  <2> QED BY <1>1, <1>2, <2>2, <2>3
<1>4. ASSUME NEW k \in DOMAIN express(p) PROVE express(p)[k].w \in Word
  <2>1. send_phenotype(p) \in Seq(Step) BY SendShape
  <2>2. \/ k = 1 /\ express(p)[k] = ReadTx
        \/ k - 1 \in DOMAIN send_phenotype(p) /\ express(p)[k] = send_phenotype(p)[k - 1]
    <3>1. ReadTx \in Step BY DEF ReadTx, Step, AnyWord, Zero
    <3>2. <<ReadTx>> \in Seq(Step) BY <3>1
    <3> DEFINE s == send_phenotype(p)
    <3>3. express(p) = <<ReadTx>> \o s BY DEF express
    <3> HIDE DEF s
    <3>4. s \in Seq(Step) BY <2>1 DEF s
    <3>5. /\ \A j \in DOMAIN (<<ReadTx>> \o s) : j > 1 => j - 1 \in DOMAIN s /\ (<<ReadTx>> \o s)[j] = s[j - 1]
          /\ (<<ReadTx>> \o s)[1] = ReadTx /\ <<ReadTx>> \o s \in Seq(Step)
      BY <3>2, <3>4
    <3>6. k \in Nat /\ k > 0 /\ k \in DOMAIN (<<ReadTx>> \o s) BY <3>3, <3>5
    <3>7. \/ k = 1 /\ express(p)[k] = ReadTx
          \/ k - 1 \in DOMAIN s /\ express(p)[k] = s[k - 1]
      BY <3>3, <3>5, <3>6
    <3> QED BY <3>7 DEF s
  <2> QED BY <1>1, <1>2, <1>3, <2>2
<1> QED BY <1>3, <1>4

\* What is left of an operation, and what goes through the FIFO, are words that
\* can be sent, and the core keeps what they carry.
LEMMA TypesStep ==
  ASSUME TypeOK, EngineInv, EngineInv', [Next]_vars
  PROVE  TypeOK'
<1> USE EngineConstants, EngineAssumption DEF EngineAssumption
<1>1. /\ todo \in Seq(Step) /\ todo' \in Seq(Step)
      /\ fifo1 \in Seq(Word) /\ Len(fifo1) \in Nat /\ Len(fifo1) <= DEPTH
      /\ \A k \in DOMAIN todo : todo[k].w \in Word
  BY DEF EngineInv, WritesWait, TypeOK
<1>2. ASSUME \A k \in DOMAIN todo' : todo'[k].w \in Word
      PROVE  \A k \in 1 .. Len(todo') : todo'[k].w \in Word
  BY <1>1, <1>2
<1>3. CASE CallExpress \/ CallForce \/ CallJackEyes \/ CallPause
  <2>1. UNCHANGED <<fifo1, fifo2, late, cpc, genome, init, led_gate, wfi_mode, jack_eyes>>
    BY <1>3 DEF CallExpress, CallForce, CallJackEyes, CallPause, coreVars
  <2>2. acked' = FALSE /\ calls' \in 0 .. MaxOps
    BY <1>3 DEF CallExpress, CallForce, CallJackEyes, CallPause, MayCall, TypeOK
  <2>3. CASE \E p \in Phenotypes : /\ todo' \in {express(p), send_phenotype(p)} /\ sent' = p
                                   /\ UNCHANGED <<mode, eyes>>
    <3>1. \A k \in DOMAIN todo' : todo'[k].w \in Word
      BY <2>3, PhenotypeWords
    <3> QED BY <1>2, <2>1, <2>2, <2>3, <3>1 DEF TypeOK
  <2>4. CASE \E f \in {0, 1} : /\ todo' \in {jack_eyes_words(f), pause_rendering(f)}
                               /\ mode' \in {mode, f} /\ eyes' \in {eyes, f} /\ sent' = sent
    <3>1. \A k \in DOMAIN todo' : todo'[k].w \in Word
      BY <2>4, SettingWords
    <3>2. mode' \in {0, 1} /\ eyes' \in {0, 1} BY <2>4 DEF TypeOK
    <3> QED BY <1>2, <2>1, <2>2, <2>4, <3>1, <3>2 DEF TypeOK
  <2>5. CallExpress => <2>3!1 BY DEF CallExpress
  <2>6. CallForce => <2>3!1 BY DEF CallForce
  <2>7. CallJackEyes \/ CallPause => <2>4!1 BY DEF CallJackEyes, CallPause
  <2> QED BY <1>3, <2>3, <2>4, <2>5, <2>6, <2>7
<1>4. CASE Host
  <2>1. /\ todo # <<>> /\ todo' = Tail(todo)
        /\ UNCHANGED <<calls, sent, mode, eyes, cpc, genome, init, led_gate, wfi_mode, jack_eyes>>
    BY <1>4 DEF Host, HostWrite, HostWait, HostWaitTimeout, HostReadTx, HostAck, HostAckTimeout,
           HostReadRx, Now, Idle, coreVars
  <2>2. acked' \in BOOLEAN /\ late' \in BOOLEAN /\ fifo2' \in 0 .. DEPTH
    BY <1>4 DEF Host, HostWrite, HostWait, HostWaitTimeout, HostReadTx, HostAck, HostAckTimeout,
           HostReadRx, TypeOK
  <2>3. Head(todo).w \in Word /\ \A k \in DOMAIN todo' : todo'[k].w \in Word
    <3>1. \A k \in DOMAIN todo' : k + 1 \in DOMAIN todo /\ todo'[k] = todo[k + 1]
      BY <1>1, <2>1
    <3>2. 1 \in DOMAIN todo /\ Head(todo) = todo[1] BY <1>1, <2>1
    <3> QED BY <1>1, <3>1, <3>2
  <2>4. fifo1' \in {fifo1, Pushed(Head(todo).w)}
    BY <1>4 DEF Host, HostWrite, HostWait, HostWaitTimeout, HostReadTx, HostAck, HostAckTimeout,
           HostReadRx
  <2>5. fifo1' \in Seq(Word) /\ Len(fifo1') <= DEPTH
    BY <1>1, <2>3, <2>4, SMTT(20) DEF Pushed
  <2> QED BY <1>2, <2>1, <2>2, <2>3, <2>5 DEF TypeOK
<1>5. CASE CoreStart \/ CorePop
  <2>1. /\ fifo1 # <<>> /\ fifo1' = Tail(fifo1) /\ UNCHANGED hostVars
        /\ cpc' \in {"leds", "poll"}
    BY <1>5 DEF CoreStart, CorePop
  <2>2. fifo1' \in Seq(Word) /\ Len(fifo1') <= DEPTH /\ Head(fifo1) \in Word
    BY <1>1, <2>1
  <2>3. /\ fifo2' \in 0 .. DEPTH /\ genome' \in [Codon -> Phenotypes \union {Unset}]
        /\ init' \in BOOLEAN /\ led_gate' \in 0 .. GATE /\ wfi_mode' \in {0, 1} /\ jack_eyes' \in {0, 1}
    <3>1. CASE CoreStart BY <3>1 DEF CoreStart, TypeOK
    <3>2. CASE CorePop
      <4> DEFINE w == Head(fifo1)
      <4>1. /\ w.kind = "codon" => w.i \in Codon /\ w.v \in Phenotypes
            /\ w.kind \in {"eyes", "mode"} => w.v \in {0, 1}
        BY <2>2, WordKinds
      <4>2. fifo2' \in 0 .. DEPTH BY <3>2 DEF CorePop, Acknowledge, TypeOK
      <4>3. led_gate' \in 0 .. GATE BY <3>2 DEF CorePop, TypeOK
      <4>4. wfi_mode' \in {0, 1} /\ jack_eyes' \in {0, 1}
        BY <3>2, <4>1 DEF CorePop, SetMode, SetEyes, TypeOK
      <4>5. genome' \in [Codon -> Phenotypes \union {Unset}] /\ init' \in BOOLEAN
        BY <3>2, <4>1 DEF CorePop, TypeOK
      <4> QED BY <4>2, <4>3, <4>4, <4>5
    <3> QED BY <1>5, <3>1, <3>2
  <2> QED BY <2>1, <2>2, <2>3 DEF TypeOK, hostVars
<1>6. CASE CoreRender \/ CoreTransmitted \/ CoreCompute \/ UNCHANGED vars
  <2>1. /\ UNCHANGED <<fifo1, fifo2, hostVars, genome, init, wfi_mode, jack_eyes>>
        /\ cpc' \in {cpc, "transmit", "compute", "poll"}
        /\ led_gate' \in {led_gate, IF led_gate > 0 THEN led_gate - 1 ELSE 0}
    BY <1>6 DEF CoreRender, CoreTransmitted, CoreCompute, vars, coreVars
  <2>2. led_gate' \in 0 .. GATE BY <2>1 DEF TypeOK
  <2> QED BY <2>1, <2>2 DEF TypeOK, hostVars
<1> QED BY <1>3, <1>4, <1>5, <1>6 DEF Next, Core

LEMMA TypesInit == Init => TypeOK
<1> SUFFICES ASSUME Init PROVE TypeOK OBVIOUS
<1> USE EngineConstants, EngineAssumption DEF EngineAssumption
<1>1. SetupWord \in Word BY DEF Word
<1>2. fifo1 = <<SetupWord, SetupWord>> BY DEF Init
<1>3. fifo1 \in Seq(Word) /\ Len(fifo1) = 2 BY <1>1, <1>2
<1>4. genome \in [Codon -> Phenotypes \union {Unset}] BY DEF Init
<1>5. todo = <<>> /\ fifo2 = 0 /\ led_gate = 0 /\ wfi_mode = 0 /\ jack_eyes = 0 BY DEF Init
<1>6. /\ acked = FALSE /\ late = FALSE /\ init = FALSE /\ calls = 0 /\ mode = 0 /\ eyes = 0
      /\ sent = Unset /\ cpc = "pin"
  BY DEF Init
<1>7. Len(todo) = 0 BY <1>5
<1> QED BY <1>3, <1>4, <1>5, <1>6, <1>7 DEF TypeOK

\* The words on their way are words that can be sent, whatever is lost of them,
\* and the codons the core keeps are those of phenotypes that were sent, each at
\* its own place (mod.rs:162-260, main.c:467-505).
THEOREM EngineTypes == Spec => []TypeOK
BY TypesInit, TypesStep, EngineAlways, PTL DEF Spec
-----------------------------------------------------------------------------
(* The standalone patterns, as the strands the server installs for them      *)

\* The two rates that as_gene picks blend to the rate of the pattern
\* (leds.rs:100-102).
LEMMA RateBlends ==
  ASSUME NEW r \in 0 .. 13
  PROVE  /\ Least(RateSum(r % 14), 14) \in 0 .. 14
         /\ BlendedRate(Least(RateSum(r % 14), 14), 0) = r
<1>1. r % 14 = r
    OBVIOUS
<1>2. CASE r >= 2
  <2>1. RateSum(r) = 16 - r /\ Least(16 - r, 14) = 16 - r
      BY <1>2 DEF RateSum, Least
  <2>2. 2 + (14 - Least((16 - r) + 0, 14)) = r
      BY <1>2 DEF Least
  <2> QED BY <1>1, <1>2, <2>1, <2>2 DEF BlendedRate
<1>3. CASE r = 0
    BY <1>3 DEF RateSum, Least, BlendedRate
<1>4. CASE r = 1
    BY <1>4 DEF RateSum, Least, BlendedRate
<1> QED BY <1>2, <1>3, <1>4

\* What chaser and nonlin share: neither difference goes below zero, and adding
\* it back gives the field (leds.rs:103-106).
LEMMA SharedChaser ==
  ASSUME NEW x \in Byte, NEW y \in Byte
  PROVE  LET m == Least(x, y)
         IN /\ m \in Byte /\ x - m \in Byte /\ y - m \in Byte
            /\ Saturated(m + (x - m)) = x /\ Saturated(m + (y - m)) = y
<1>1. CASE x <= y
  <2>1. Least(x, y) = x
      BY <1>1 DEF Least
  <2> QED BY <1>1, <2>1 DEF Saturated, Least, Byte
<1>2. CASE ~ (x <= y)
  <2>1. Least(x, y) = y
      BY <1>2 DEF Least
  <2> QED BY <1>2, <2>1 DEF Saturated, Least, Byte
<1> QED BY <1>1, <1>2

\* The strands are bytes, so that no subtraction of as_gene on u8 goes below
\* zero, whatever the pattern (leds.rs:99-127).
THEOREM StrandsFitBytes ==
  ASSUME NEW p \in Haploid
  PROVE  as_gene(p).a \in Haploid /\ as_gene(p).b \in Haploid
<1> DEFINE half == p.sat \div 2
           r == Least(RateSum(p.hue_ratedir % 14), 14)
           m == Least(p.chaser, p.nonlin)
<1>1. p.sat \in Byte /\ p.hue_ratedir \in Byte /\ p.chaser \in Byte /\ p.nonlin \in Byte
    BY DEF Haploid
<1>2. half \in Byte /\ p.sat - half \in Byte
    BY <1>1 DEF Byte
<1>3. r \in Byte
  <2>1. p.hue_ratedir % 14 \in 0 .. 13
      BY <1>1 DEF Byte
  <2> QED BY <2>1 DEF RateSum, Least, Byte
<1>4. m \in Byte /\ p.chaser - m \in Byte /\ p.nonlin - m \in Byte
    BY <1>1, SharedChaser
<1>5. 0 \in Byte
    BY DEF Byte
<1> QED BY <1>2, <1>3, <1>4, <1>5 DEF as_gene, Haploid

\* "The pattern that was written is the pattern that renders" (leds.rs:95-97),
\* for every pattern whose drift rate is below 14.
THEOREM AsGeneExpresses ==
  ASSUME NEW p \in Haploid, p.hue_ratedir < 14
  PROVE  Phenotype(as_gene(p)) = p
<1> DEFINE half == p.sat \div 2
           r == Least(RateSum(p.hue_ratedir % 14), 14)
           m == Least(p.chaser, p.nonlin)
<1>1. p.sat \in Byte /\ p.hue_ratedir \in 0 .. 13 /\ p.chaser \in Byte /\ p.nonlin \in Byte
    BY DEF Haploid, Byte
<1>2. Saturated(half + (p.sat - half)) = p.sat
    BY <1>1 DEF Saturated, Least, Byte
<1>3. BlendedRate(r, 0) = p.hue_ratedir
    BY <1>1, RateBlends
<1>4. Saturated(m + (p.chaser - m)) = p.chaser /\ Saturated(m + (p.nonlin - m)) = p.nonlin
    BY <1>1, SharedChaser
<1>5. p = [sat |-> p.sat, hue_ratedir |-> p.hue_ratedir, chaser |-> p.chaser,
           nonlin |-> p.nonlin]
    BY DEF Haploid
<1> QED BY <1>2, <1>3, <1>4, <1>5 DEF Phenotype, as_gene

\* Whatever pattern is installed as the gene, the ring shows that pattern.
THEOREM PatternsRender == PatternSpec => []PatternRenders
<1> DEFINE Inv == pattern \in Haploid /\ PatternRenders
<1>1. PatternInit => Inv
    BY FieldsAssumption DEF PatternInit, Standalone, PatternRenders, FieldsAssumption, Haploid
<1>2. Inv /\ [PatternNext]_patternVars => Inv'
    BY AsGeneExpresses DEF PatternNext, ExpressPattern, patternVars, PatternRenders
<1> QED BY <1>1, <1>2, PTL DEF PatternSpec

\* Whatever pattern is installed as the gene, its strands are bytes.
THEOREM StrandsNeverWrap == PatternSpec => []StrandsAreBytes
<1>1. PatternInit => pattern \in Haploid
    BY FieldsAssumption DEF PatternInit, Standalone, FieldsAssumption, Haploid
<1>2. pattern \in Haploid /\ [PatternNext]_patternVars => (pattern \in Haploid)'
    BY DEF PatternNext, ExpressPattern, patternVars
<1>3. pattern \in Haploid => StrandsAreBytes
    BY StrandsFitBytes DEF StrandsAreBytes
<1> QED BY <1>1, <1>2, <1>3, PTL DEF PatternSpec
-----------------------------------------------------------------------------
(* The colours of the ring's pixels                                          *)

\* Two values of a channel that dimming brings within one step.
Near(x, y) == x \in 0 .. 255 /\ y \in Nat /\ x - y \in -12 .. 12

LEMMA NearDimmed ==
  ASSUME NEW x, NEW y, Near(x, y)
  PROVE  Magnitude(x \div 2 ^ SHIFT - y \div 2 ^ SHIFT) <= 1
<1>1. 2 ^ SHIFT = 32 BY DEF SHIFT
<1>2. Magnitude(x \div 32 - y \div 32) <= 1 BY DEF Near, Magnitude
<1> QED BY <1>1, <1>2

\* The products of bytes, by their bounds.
LEMMA Products ==
  ASSUME NEW a \in Int, NEW b \in Int, a <= b, NEW v \in Nat
  PROVE  v * a <= v * b
OBVIOUS

LEMMA ByteProducts ==
  ASSUME NEW a \in Nat, NEW b \in Nat, a <= 255, b <= 255
  PROVE  a * b \in Nat /\ a * b <= 65025
<1>1. a * b <= a * 255 BY Products
<1>2. a * b \in Nat OBVIOUS
<1> QED BY <1>1, <1>2

\* A quotient, by the multiple of the divisor that it stands for.
LEMMA Quotient ==
  ASSUME NEW x \in Nat, NEW d \in Nat \ {0}
  PROVE  x \div d \in Nat /\ d * (x \div d) <= x /\ x < d * (x \div d) + d
OBVIOUS

\* A channel by a weight u of 255 parts and the exact one by a weight of 256
\* parts that is less than 8 parts off, both of the saturation.
Weighs(s, u, w) == 256 * u <= s * w + 8 * s /\ s * w - 8 * s <= 256 * u + 255

LEMMA WeightsNear ==
  ASSUME NEW v \in Nat, NEW s \in Nat, NEW u \in Nat, NEW w \in Nat,
         v <= 255, s <= 255, u <= 255, w <= 256, Weighs(s, u, w)
  PROVE  Near((v * (255 - u)) \div 256, (v * (65280 - s * w)) \div 65280)
<1> DEFINE P == v * u   X == s * w   Q == v * X   R == v * s
<1>1. X \in Nat /\ X <= 65280
  <2>1. s * w <= s * 256 BY Products
  <2>2. s * w \in Nat OBVIOUS
  <2> QED BY <2>1, <2>2
<1>2. P \in Nat /\ P <= 65025 BY ByteProducts
<1>3. R \in Nat /\ R <= 65025 BY ByteProducts
<1> HIDE DEF X
<1>4. Q \in Nat /\ Q <= v * 65280 BY <1>1, Products
<1>5. v * (256 * u) <= v * (X + 8 * s) BY <1>1, Products DEF Weighs, X
<1>6. v * (X - 8 * s) <= v * (256 * u + 255) BY <1>1, Products DEF Weighs, X
<1>7. v * (256 * u) = 256 * P /\ v * (X + 8 * s) = Q + 8 * R BY <1>1
<1>8. v * (X - 8 * s) = Q - 8 * R /\ v * (256 * u + 255) = 256 * P + 255 * v BY <1>1
<1>9. v * (255 - u) = 255 * v - P /\ v * (65280 - X) = 65280 * v - Q BY <1>1
<1>10. 0 <= v * (255 - u) OBVIOUS
<1> HIDE DEF P, Q, R
<1>11. 256 * P <= Q + 8 * R /\ Q - 8 * R <= 256 * P + 255 * v BY <1>5, <1>6, <1>7, <1>8
<1>12. 255 * v - P \in Nat BY <1>2, <1>9, <1>10
<1>13. 65280 * v - Q \in Nat BY <1>4
<1> DEFINE x == (255 * v - P) \div 256   y == (65280 * v - Q) \div 65280
<1>14. x \in Nat /\ 256 * x <= 255 * v - P /\ 255 * v - P < 256 * x + 256
  BY <1>12, Quotient
<1>15. y \in Nat /\ 65280 * y <= 65280 * v - Q /\ 65280 * v - Q < 65280 * y + 65280
  BY <1>13, Quotient
<1>16. Near(x, y)
  <2> HIDE DEF x, y
  <2>1. x - y <= 12 BY <1>2, <1>3, <1>4, <1>11, <1>14, <1>15
  <2>2. y - x <= 12 BY <1>2, <1>3, <1>4, <1>11, <1>14, <1>15
  <2>3. x <= 255 BY <1>2, <1>14
  <2> QED BY <1>14, <1>15, <2>1, <2>2, <2>3 DEF Near
<1> QED BY <1>9, <1>16 DEF X

Pixels == [h : 0 .. 255, s : 0 .. 255, v : 0 .. 255]

LEMMA PixelBytes ==
  ASSUME NEW c \in Pixels
  PROVE  /\ c.h \in Nat /\ c.s \in Nat /\ c.v \in Nat
         /\ c.h <= 255 /\ c.s <= 255 /\ c.v <= 255
BY DEF Pixels

\* What the exact colour takes away: nothing, all the saturation, or some of it.
Taken(hue, centre) == 256 - Ramp(hue, centre)

LEMMA TakenBounds ==
  ASSUME NEW hue \in Nat, hue <= 255, NEW centre \in {0, 85, 171}
  PROVE  Taken(hue, centre) \in Nat /\ Taken(hue, centre) <= 256
BY DEF Taken, Ramp, Around, Magnitude

LEMMA FullNear ==
  ASSUME NEW c \in Pixels, NEW centre \in {0, 85, 171}, Taken(c.h, centre) <= 8
  PROVE  Near(c.v, Channel(c, centre))
<1> DEFINE v == c.v   s == c.s   w == Taken(c.h, centre)   X == s * w   Q == v * X
           y == (65280 * v - Q) \div 65280
<1>1. w \in Nat /\ w <= 8 BY PixelBytes, TakenBounds
<1>2. v \in Nat /\ s \in Nat /\ v <= 255 /\ s <= 255 BY PixelBytes
<1> HIDE DEF v, s, w
<1>3. X \in Nat /\ X <= 2040
  <2>1. s * w <= s * 8 BY <1>1, <1>2, Products
  <2>2. s * w \in Nat BY <1>1, <1>2
  <2> QED BY <1>2, <2>1, <2>2
<1> HIDE DEF X
<1>4. Q \in Nat /\ Q <= v * 2040 BY <1>2, <1>3, Products
<1>5. v * (65280 - X) = 65280 * v - Q BY <1>2, <1>3
<1> HIDE DEF Q
<1>6. 65280 * v - Q \in Nat BY <1>2, <1>4
<1>7. y \in Nat /\ 65280 * y <= 65280 * v - Q /\ 65280 * v - Q < 65280 * y + 65280
  BY <1>6, Quotient
<1>8. Near(v, y)
  <2> HIDE DEF y
  <2>1. v - y <= 12 BY <1>2, <1>4, <1>7
  <2>2. y - v <= 12 BY <1>2, <1>4, <1>7
  <2> QED BY <1>2, <1>7, <2>1, <2>2 DEF Near
<1>9. Channel(c, centre) = (v * (65280 - X)) \div 65280 BY DEF Channel, Taken, v, s, w, X
<1> QED BY <1>5, <1>8, <1>9 DEF v

LEMMA FloorNear ==
  ASSUME NEW c \in Pixels, NEW centre \in {0, 85, 171}, Taken(c.h, centre) >= 248
  PROVE  Near((c.v * (255 - c.s)) \div 256, Channel(c, centre))
<1> DEFINE v == c.v   s == c.s   w == Taken(c.h, centre)
<1>1. w \in Nat /\ w <= 256 /\ w >= 248 BY PixelBytes, TakenBounds
<1>2. v \in Nat /\ s \in Nat /\ v <= 255 /\ s <= 255 BY PixelBytes
<1> HIDE DEF v, s, w
<1>3. s * 248 <= s * w /\ s * w <= s * 256 BY <1>1, <1>2, Products
<1>4. s * w \in Nat BY <1>1, <1>2
<1>5. Weighs(s, s, w) BY <1>2, <1>3, <1>4 DEF Weighs
<1>6. Near((v * (255 - s)) \div 256, (v * (65280 - s * w)) \div 65280)
  BY <1>1, <1>2, <1>5, WeightsNear
<1>7. Channel(c, centre) = (v * (65280 - s * w)) \div 65280 BY DEF Channel, Taken, v, s, w
<1> QED BY <1>6, <1>7 DEF v, s

LEMMA SlopeNear ==
  ASSUME NEW c \in Pixels, NEW centre \in {0, 85, 171}, NEW x \in Nat, x <= 255,
         Taken(c.h, centre) <= x + 8, x <= Taken(c.h, centre) + 8
  PROVE  /\ (c.s * x) \div 256 \in 0 .. 255
         /\ Near((c.v * (255 - (c.s * x) \div 256)) \div 256, Channel(c, centre))
<1> DEFINE v == c.v   s == c.s   w == Taken(c.h, centre)   X == s * x   u == X \div 256
<1>1. w \in Nat /\ w <= 256 /\ w <= x + 8 /\ x <= w + 8 BY PixelBytes, TakenBounds
<1>2. v \in Nat /\ s \in Nat /\ v <= 255 /\ s <= 255 BY PixelBytes
<1> HIDE DEF v, s, w
<1>3. X \in Nat /\ X <= 65025 BY <1>2, ByteProducts
<1>4. s * w <= s * (x + 8) /\ s * x <= s * (w + 8) BY <1>1, <1>2, Products
<1>5. s * (x + 8) = X + 8 * s /\ s * (w + 8) = s * w + 8 * s BY <1>1, <1>2
<1>6. s * w <= X + 8 * s /\ X <= s * w + 8 * s BY <1>4, <1>5
<1>7. s * w \in Nat BY <1>1, <1>2
<1> HIDE DEF X
<1>8. u \in Nat /\ 256 * u <= X /\ X < 256 * u + 256 BY <1>3, Quotient
<1> HIDE DEF u
<1>9. u <= 255 BY <1>3, <1>8
<1>10. Weighs(s, u, w) BY <1>2, <1>3, <1>6, <1>7, <1>8 DEF Weighs
<1>11. Near((v * (255 - u)) \div 256, (v * (65280 - s * w)) \div 65280)
  BY <1>1, <1>2, <1>8, <1>9, <1>10, WeightsNear
<1>12. Channel(c, centre) = (v * (65280 - s * w)) \div 65280 BY DEF Channel, Taken, v, s, w
<1>13. u \in 0 .. 255 BY <1>8, <1>9
<1>14. u = (c.s * x) \div 256 BY DEF u, X, s
<1> QED BY <1>11, <1>12, <1>13, <1>14 DEF v

\* The exact circle and the code's sixths of 43 hues.  Over a sixth one channel
\* is full, one is at its floor, and one rises or falls.
Remainder(c) == (c.h - Region(c) * 43) * 6
Full(c, centre) == Taken(c.h, centre) <= 8
Floor(c, centre) == Taken(c.h, centre) >= 248
Slope(c, centre, x) == Taken(c.h, centre) <= x + 8 /\ x <= Taken(c.h, centre) + 8

\* A sixth of 43 hues has room for the 256 of them, and 6 times a place in it is
\* a byte (main.c:89-90).
LEMMA SixSectors ==
  ASSUME NEW c \in Pixels
  PROVE  /\ Region(c) \in 0 .. 5
         /\ c.h >= 43 * Region(c) /\ c.h <= 43 * Region(c) + 42
         /\ Remainder(c) \in Nat /\ Remainder(c) <= 252
         /\ Remainder(c) = 6 * c.h - 258 * Region(c)
<1> DEFINE h == c.h   r == h \div 43
<1>1. h \in Nat /\ h <= 255 BY PixelBytes
<1> HIDE DEF h
<1>2. r \in Nat /\ 43 * r <= h /\ h < 43 * r + 43 BY <1>1, Quotient
<1>3. r \in 0 .. 5 BY <1>1, <1>2
<1>4. Region(c) = r BY DEF Region, h
<1> HIDE DEF r
<1>5. (h - r * 43) * 6 = 6 * h - 258 * r BY <1>1, <1>2
<1>6. Remainder(c) = (h - r * 43) * 6 BY <1>4 DEF Remainder, h
<1> QED BY <1>1, <1>2, <1>3, <1>4, <1>5, <1>6 DEF h

LEMMA Sectors ==
  ASSUME NEW c \in Pixels
  PROVE  LET x == Remainder(c)
         IN /\ Region(c) = 0 => Full(c, 0) /\ Slope(c, 85, 255 - x) /\ Floor(c, 171)
            /\ Region(c) = 1 => Slope(c, 0, x) /\ Full(c, 85) /\ Floor(c, 171)
            /\ Region(c) = 2 => Floor(c, 0) /\ Full(c, 85) /\ Slope(c, 171, 255 - x)
            /\ Region(c) = 3 => Floor(c, 0) /\ Slope(c, 85, x) /\ Full(c, 171)
            /\ Region(c) = 4 => Slope(c, 0, 255 - x) /\ Floor(c, 85) /\ Full(c, 171)
            /\ Region(c) = 5 => Full(c, 0) /\ Floor(c, 85) /\ Slope(c, 171, x)
<1> DEFINE h == c.h   x == Remainder(c)
<1>1. h \in Nat /\ h <= 255 BY PixelBytes
<1>2. /\ h >= 43 * Region(c) /\ h <= 43 * Region(c) + 42
      /\ x = 6 * h - 258 * Region(c)
  BY SixSectors
<1> HIDE DEF h, x
<1>3. CASE Region(c) = 0
  <2>1. h <= 42 /\ x = 6 * h BY <1>1, <1>2, <1>3
  <2>2. Taken(h, 0) <= 8 BY <1>1, <2>1 DEF Taken, Ramp, Around, Magnitude
  <2>3. Taken(h, 171) >= 248 BY <1>1, <2>1 DEF Taken, Ramp, Around, Magnitude
  <2>4. Taken(h, 85) <= (255 - x) + 8 /\ 255 - x <= Taken(h, 85) + 8
    BY <1>1, <2>1 DEF Taken, Ramp, Around, Magnitude
  <2> QED BY <1>3, <2>2, <2>3, <2>4 DEF Full, Floor, Slope, h, x
<1>4. CASE Region(c) = 1
  <2>1. h >= 43 /\ h <= 85 /\ x = 6 * h - 258 BY <1>1, <1>2, <1>4
  <2>2. Taken(h, 85) <= 8 BY <1>1, <2>1 DEF Taken, Ramp, Around, Magnitude
  <2>3. Taken(h, 171) >= 248 BY <1>1, <2>1 DEF Taken, Ramp, Around, Magnitude
  <2>4. Taken(h, 0) <= x + 8 /\ x <= Taken(h, 0) + 8
    BY <1>1, <2>1 DEF Taken, Ramp, Around, Magnitude
  <2> QED BY <1>4, <2>2, <2>3, <2>4 DEF Full, Floor, Slope, h, x
<1>5. CASE Region(c) = 2
  <2>1. h >= 86 /\ h <= 128 /\ x = 6 * h - 516 BY <1>1, <1>2, <1>5
  <2>2. Taken(h, 85) <= 8 BY <1>1, <2>1 DEF Taken, Ramp, Around, Magnitude
  <2>3. Taken(h, 0) >= 248 BY <1>1, <2>1 DEF Taken, Ramp, Around, Magnitude
  <2>4. Taken(h, 171) <= (255 - x) + 8 /\ 255 - x <= Taken(h, 171) + 8
    BY <1>1, <2>1 DEF Taken, Ramp, Around, Magnitude
  <2> QED BY <1>5, <2>2, <2>3, <2>4 DEF Full, Floor, Slope, h, x
<1>6. CASE Region(c) = 3
  <2>1. h >= 129 /\ h <= 171 /\ x = 6 * h - 774 BY <1>1, <1>2, <1>6
  <2>2. Taken(h, 171) <= 8 BY <1>1, <2>1 DEF Taken, Ramp, Around, Magnitude
  <2>3. Taken(h, 0) >= 248 BY <1>1, <2>1 DEF Taken, Ramp, Around, Magnitude
  <2>4. Taken(h, 85) <= x + 8 /\ x <= Taken(h, 85) + 8
    BY <1>1, <2>1 DEF Taken, Ramp, Around, Magnitude
  <2> QED BY <1>6, <2>2, <2>3, <2>4 DEF Full, Floor, Slope, h, x
<1>7. CASE Region(c) = 4
  <2>1. h >= 172 /\ h <= 214 /\ x = 6 * h - 1032 BY <1>1, <1>2, <1>7
  <2>2. Taken(h, 171) <= 8 BY <1>1, <2>1 DEF Taken, Ramp, Around, Magnitude
  <2>3. Taken(h, 85) >= 248 BY <1>1, <2>1 DEF Taken, Ramp, Around, Magnitude
  <2>4. Taken(h, 0) <= (255 - x) + 8 /\ 255 - x <= Taken(h, 0) + 8
    BY <1>1, <2>1 DEF Taken, Ramp, Around, Magnitude
  <2> QED BY <1>7, <2>2, <2>3, <2>4 DEF Full, Floor, Slope, h, x
<1>8. CASE Region(c) = 5
  <2>1. h >= 215 /\ h <= 255 /\ x = 6 * h - 1290 BY <1>1, <1>2, <1>8
  <2>2. Taken(h, 0) <= 8 BY <1>1, <2>1 DEF Taken, Ramp, Around, Magnitude
  <2>3. Taken(h, 85) >= 248 BY <1>1, <2>1 DEF Taken, Ramp, Around, Magnitude
  <2>4. Taken(h, 171) <= x + 8 /\ x <= Taken(h, 171) + 8
    BY <1>1, <2>1 DEF Taken, Ramp, Around, Magnitude
  <2> QED BY <1>8, <2>2, <2>3, <2>4 DEF Full, Floor, Slope, h, x
<1> QED
  <2> HIDE DEF x
  <2> QED BY <1>3, <1>4, <1>5, <1>6, <1>7, <1>8 DEF x

LEMMA GreyNear ==
  ASSUME NEW c \in Pixels, NEW centre \in {0, 85, 171}, c.s = 0
  PROVE  Near(c.v, Channel(c, centre))
<1> DEFINE v == c.v   w == Taken(c.h, centre)
<1>1. w \in Nat /\ v \in Nat /\ v <= 255 BY PixelBytes, TakenBounds
<1>2. Channel(c, centre) = (v * (65280 - 0 * w)) \div 65280 BY DEF Channel, Taken
<1> HIDE DEF v, w
<1>3. 65280 - 0 * w = 65280 BY <1>1
<1>4. v * 65280 \in Nat BY <1>1
<1>5. (v * 65280) \div 65280 = v BY <1>1
<1>6. Near(v, v) BY <1>1 DEF Near
<1> QED BY <1>2, <1>3, <1>5, <1>6 DEF v

\* The colour of every pixel has bytes near the exact ones.
LEMMA ChannelsNear ==
  ASSUME NEW c \in Pixels
  PROVE  /\ Near(HsvToRgb(c)[1], Channel(c, 0))
         /\ Near(HsvToRgb(c)[2], Channel(c, 85))
         /\ Near(HsvToRgb(c)[3], Channel(c, 171))
<1> DEFINE x == Remainder(c)
           p == (c.v * (255 - c.s)) \div 256
           q == (c.v * (255 - (c.s * x) \div 256)) \div 256
           t == (c.v * (255 - (c.s * (255 - x)) \div 256)) \div 256
<1>1. HsvToRgb(c) =
        IF c.s = 0 THEN <<c.v, c.v, c.v>>
        ELSE CASE Region(c) = 0 -> <<c.v, t, p>>
               [] Region(c) = 1 -> <<q, c.v, p>>
               [] Region(c) = 2 -> <<p, c.v, t>>
               [] Region(c) = 3 -> <<p, q, c.v>>
               [] Region(c) = 4 -> <<t, p, c.v>>
               [] OTHER         -> <<c.v, p, q>>
  BY DEF HsvToRgb, Remainder
<1>2. x \in Nat /\ x <= 255 /\ 255 - x \in Nat /\ 255 - x <= 255 BY SixSectors
<1> HIDE DEF x
<1>3. ASSUME NEW centre \in {0, 85, 171}
      PROVE  /\ Full(c, centre) => Near(c.v, Channel(c, centre))
             /\ Floor(c, centre) => Near(p, Channel(c, centre))
             /\ Slope(c, centre, x) => Near(q, Channel(c, centre))
             /\ Slope(c, centre, 255 - x) => Near(t, Channel(c, centre))
  <2>1. Full(c, centre) => Near(c.v, Channel(c, centre)) BY FullNear DEF Full
  <2>2. Floor(c, centre) => Near(p, Channel(c, centre)) BY FloorNear DEF Floor
  <2>3. Slope(c, centre, x) => Near(q, Channel(c, centre)) BY <1>2, SlopeNear DEF Slope
  <2>4. Slope(c, centre, 255 - x) => Near(t, Channel(c, centre))
    <3> DEFINE z == 255 - x
    <3>1. z \in Nat /\ z <= 255 BY <1>2
    <3> HIDE DEF z
    <3>2. Slope(c, centre, z) =>
            Near((c.v * (255 - (c.s * z) \div 256)) \div 256, Channel(c, centre))
      BY <3>1, SlopeNear DEF Slope
    <3> QED BY <3>2 DEF z
  <2> QED BY <2>1, <2>2, <2>3, <2>4
<1> HIDE DEF p, q, t
<1>4. CASE c.s = 0 BY <1>1, <1>4, GreyNear
<1>5. CASE c.s # 0
  <2>1. /\ Region(c) = 0 => Full(c, 0) /\ Slope(c, 85, 255 - x) /\ Floor(c, 171)
        /\ Region(c) = 1 => Slope(c, 0, x) /\ Full(c, 85) /\ Floor(c, 171)
        /\ Region(c) = 2 => Floor(c, 0) /\ Full(c, 85) /\ Slope(c, 171, 255 - x)
        /\ Region(c) = 3 => Floor(c, 0) /\ Slope(c, 85, x) /\ Full(c, 171)
        /\ Region(c) = 4 => Slope(c, 0, 255 - x) /\ Floor(c, 85) /\ Full(c, 171)
        /\ Region(c) = 5 => Full(c, 0) /\ Floor(c, 85) /\ Slope(c, 171, x)
    BY Sectors DEF x
  <2>2. Region(c) \in {0, 1, 2, 3, 4, 5} BY SixSectors
  <2>3. CASE Region(c) = 0
    <3>1. HsvToRgb(c) = <<c.v, t, p>> BY <1>1, <1>5, <2>3
    <3> QED BY <1>3, <2>1, <2>3, <3>1
  <2>4. CASE Region(c) = 1
    <3>1. HsvToRgb(c) = <<q, c.v, p>> BY <1>1, <1>5, <2>4
    <3> QED BY <1>3, <2>1, <2>4, <3>1
  <2>5. CASE Region(c) = 2
    <3>1. HsvToRgb(c) = <<p, c.v, t>> BY <1>1, <1>5, <2>5
    <3> QED BY <1>3, <2>1, <2>5, <3>1
  <2>6. CASE Region(c) = 3
    <3>1. HsvToRgb(c) = <<p, q, c.v>> BY <1>1, <1>5, <2>6
    <3> QED BY <1>3, <2>1, <2>6, <3>1
  <2>7. CASE Region(c) = 4
    <3>1. HsvToRgb(c) = <<t, p, c.v>> BY <1>1, <1>5, <2>7
    <3> QED BY <1>3, <2>1, <2>7, <3>1
  <2>8. CASE Region(c) = 5
    <3>1. HsvToRgb(c) = <<c.v, p, q>> BY <1>1, <1>5, <2>8
    <3> QED BY <1>3, <2>1, <2>8, <3>1
  <2> QED BY <2>2, <2>3, <2>4, <2>5, <2>6, <2>7, <2>8
<1> QED BY <1>4, <1>5

\* For all the 2^24 hues, saturations and values: no byte of HsvToRgb wraps, and
\* the word of the strip is within one step of the exact colour, dimmed
\* (main.c:72-118).
THEOREM ColoursAreExact ==
  \A c \in [h : 0 .. 255, s : 0 .. 255, v : 0 .. 255] :
    /\ \A k \in 1 .. 3 : HsvToRgb(c)[k] \in 0 .. 255
    /\ IsColour(ledSetRGB(HsvToRgb(c), SHIFT), c)
<1> SUFFICES ASSUME NEW c \in Pixels
             PROVE  /\ \A k \in 1 .. 3 : HsvToRgb(c)[k] \in 0 .. 255
                    /\ IsColour(ledSetRGB(HsvToRgb(c), SHIFT), c)
  BY DEF Pixels
<1> DEFINE rgb == HsvToRgb(c)
<1>1. ASSUME NEW k \in 1 .. 3 PROVE Near(rgb[k], Exact(c)[k])
  <2>1. k = 1 \/ k = 2 \/ k = 3 OBVIOUS
  <2>2. /\ Exact(c)[1] = Channel(c, 0) /\ Exact(c)[2] = Channel(c, 85)
        /\ Exact(c)[3] = Channel(c, 171)
    BY DEF Exact
  <2> HIDE DEF rgb
  <2>3. Near(rgb[1], Channel(c, 0)) /\ Near(rgb[2], Channel(c, 85)) /\ Near(rgb[3], Channel(c, 171))
    BY ChannelsNear DEF rgb
  <2> QED BY <2>1, <2>2, <2>3
<1>2. ASSUME NEW k \in 1 .. 3 PROVE rgb[k] \in 0 .. 255 BY <1>1 DEF Near
<1>3. ASSUME NEW k \in 1 .. 3
      PROVE  Magnitude(ledSetRGB(rgb, SHIFT)[k] - ledSetRGB(Exact(c), SHIFT)[k]) <= 1
  <2>1. Magnitude(rgb[k] \div 2 ^ SHIFT - Exact(c)[k] \div 2 ^ SHIFT) <= 1
    BY <1>1, NearDimmed
  <2>2. /\ ledSetRGB(rgb, SHIFT)[k] = rgb[k] \div 2 ^ SHIFT
        /\ ledSetRGB(Exact(c), SHIFT)[k] = Exact(c)[k] \div 2 ^ SHIFT
    BY DEF ledSetRGB
  <2> HIDE DEF rgb
  <2> QED BY <2>1, <2>2
<1> QED BY <1>2, <1>3 DEF IsColour
-----------------------------------------------------------------------------
(* Loops: a function that calls itself on the next state *)

\* The elements of stop that no set can do without that holds x and, with every
\* element outside stop, the next one.
Ends(x, D, next, stop) ==
  {y \in stop : \A I \in SUBSET D :
                  x \in I /\ (\A z \in I \ stop : next[z] \in I) => y \in I}

End(S) == CHOOSE y : y \in S

\* A loop is a function: one that has the end of each state, where it ends.
LEMMA LoopDefined ==
  ASSUME NEW D, NEW next \in [D -> D], NEW stop \in SUBSET D
  PROVE  \E f : f = [x \in D |-> IF x \in stop THEN x ELSE f[next[x]]]
<1> DEFINE E(x) == Ends(x, D, next, stop)
           f == [x \in D |-> End(E(x))]
<1>1. ASSUME NEW x \in stop PROVE End(E(x)) = x
  <2>1. x \in E(x)
    <3>1. x \in stop OBVIOUS
    <3> QED BY <3>1 DEF Ends
  <2>2. ASSUME NEW y \in E(x) PROVE y = x
    <3>1. {x} \in SUBSET D /\ x \in {x} /\ \A z \in {x} \ stop : next[z] \in {x} OBVIOUS
    <3>2. y \in {x} BY <2>2, <3>1 DEF Ends
    <3> QED BY <3>2
  <2> HIDE DEF E
  <2> QED BY <2>1, <2>2 DEF End
<1>2. ASSUME NEW x \in D \ stop PROVE E(x) = E(next[x])
  <2>1. ASSUME NEW y \in E(next[x]), NEW I \in SUBSET D, x \in I,
               \A z \in I \ stop : next[z] \in I
        PROVE  y \in I
    <3>1. next[x] \in I BY <2>1
    <3> QED BY <2>1, <3>1 DEF Ends
  <2>2. ASSUME NEW y \in E(x), NEW I \in SUBSET D, next[x] \in I,
               \A z \in I \ stop : next[z] \in I
        PROVE  y \in I
    <3>1. I \union {x} \in SUBSET D /\ x \in I \union {x} OBVIOUS
    <3>2. \A z \in (I \union {x}) \ stop : next[z] \in I \union {x} BY <2>2
    <3>3. y \in I \union {x} /\ y \in stop BY <2>2, <3>1, <3>2 DEF Ends
    <3> QED BY <3>3
  <2>3. \A y \in E(next[x]) : y \in stop BY DEF Ends
  <2>4. \A y \in E(x) : y \in stop BY DEF Ends
  <2>5. E(next[x]) \subseteq E(x) BY <2>1, <2>3 DEF Ends
  <2>6. E(x) \subseteq E(next[x]) BY <2>2, <2>4 DEF Ends
  <2> QED BY <2>5, <2>6
<1> HIDE DEF E
<1>3. ASSUME NEW x \in D PROVE f[x] = IF x \in stop THEN x ELSE f[next[x]]
  <2>1. CASE x \in stop BY <1>1, <2>1
  <2>2. CASE x \notin stop
    <3>1. next[x] \in D OBVIOUS
    <3> QED BY <1>2, <2>2, <3>1
  <2> QED BY <2>1, <2>2
<1>4. f = [x \in D |-> IF x \in stop THEN x ELSE f[next[x]]]
  <2>1. f = [x \in D |-> f[x]] OBVIOUS
  <2> HIDE DEF f
  <2> QED BY <1>3, <2>1
<1> QED BY <1>4

IsLoop(f, D, next, stop) ==
  /\ next \in [D -> D] /\ stop \in SUBSET D
  /\ \A x \in D : f[x] = IF x \in stop THEN x ELSE f[next[x]]

GoesDown(m, D, next, stop) == m \in [D -> Nat] /\ \A x \in D \ stop : m[next[x]] < m[x]

IsKept(I, D, next, stop) == I \in SUBSET D /\ \A x \in I \ stop : next[x] \in I

\* Where a natural goes down with every turn, the loop ends, and what its turns
\* keep is so at the end.
LEMMA LoopEnds ==
  ASSUME NEW D, NEW next, NEW stop, NEW m, NEW f, NEW I,
         IsLoop(f, D, next, stop), GoesDown(m, D, next, stop), IsKept(I, D, next, stop)
  PROVE  \A x \in I : f[x] \in I /\ f[x] \in stop
<1> USE DEF IsLoop, GoesDown, IsKept
<1> DEFINE Bad == {n \in Nat : \E x \in I : m[x] = n /\ ~ (f[x] \in I /\ f[x] \in stop)}
<1>1. SUFFICES ASSUME Bad # {} PROVE FALSE
  <2>1. \A x \in I : m[x] \in Nat OBVIOUS
  <2> QED BY <2>1
<1>2. PICK n \in Bad : \A k \in Bad : n <= k BY <1>1, LeastNatural, Bad \in SUBSET Nat
<1>3. PICK x \in I : m[x] = n /\ ~ (f[x] \in I /\ f[x] \in stop) BY <1>2
<1>4. x \notin stop BY <1>3
<1>5. next[x] \in I /\ m[next[x]] \in Nat /\ m[next[x]] < n BY <1>3, <1>4
<1>6. f[x] = f[next[x]] BY <1>4
<1>7. m[next[x]] \in Bad
  <2>1. ~ (f[next[x]] \in I /\ f[next[x]] \in stop) BY <1>3, <1>6
  <2> QED BY <1>5, <2>1
<1>8. n \in Nat BY <1>2
<1> HIDE DEF Bad
<1>9. n <= m[next[x]] BY <1>2, <1>7
<1> QED BY <1>5, <1>8, <1>9
-----------------------------------------------------------------------------
(* Division *)

AlignNext == [s \in Division |-> [s EXCEPT !.divider = 2 * @, !.bit = 2 * @]]
Aligned == {s \in Division : ~ (s.divider < s.remainder)}

\* What one doubling of the divider does, and that it is again a division.
LEMMA AlignTypes ==
  /\ AlignNext \in [Division -> Division] /\ Aligned \in SUBSET Division
  /\ \A s \in Division : /\ AlignNext[s].remainder = s.remainder
                        /\ AlignNext[s].divider = 2 * s.divider
                        /\ AlignNext[s].bit = 2 * s.bit
                        /\ AlignNext[s].quotient = s.quotient
<1>1. ASSUME NEW s \in Division
      PROVE  /\ AlignNext[s] \in Division
             /\ AlignNext[s].remainder = s.remainder
             /\ AlignNext[s].divider = 2 * s.divider
             /\ AlignNext[s].bit = 2 * s.bit
             /\ AlignNext[s].quotient = s.quotient
  <2>1. AlignNext[s] = [s EXCEPT !.divider = 2 * @, !.bit = 2 * @] BY DEF AlignNext
  <2>2. s.divider \in Nat \ {0} /\ s.bit \in Nat BY DEF Division
  <2>3. 2 * s.divider \in Nat \ {0} /\ 2 * s.bit \in Nat BY <2>2
  <2> QED BY <2>1, <2>3 DEF Division
<1>2. AlignNext = [s \in Division |-> AlignNext[s]] BY DEF AlignNext
<1> QED BY <1>1, <1>2 DEF Aligned

\* Align is the loop of these doublings.
LEMMA AlignLoops ==
  \A s \in Division : Align[s] = IF s \in Aligned THEN s ELSE Align[AlignNext[s]]
<1> DEFINE Body(f) ==
      [s \in Division |->
         IF s.divider < s.remainder
           THEN f[[s EXCEPT !.divider = 2 * @, !.bit = 2 * @]]
           ELSE s]
<1>1. PICK f : f = [s \in Division |-> IF s \in Aligned THEN s ELSE f[AlignNext[s]]]
  BY AlignTypes, LoopDefined
<1>2. f = Body(f)
  <2>1. \A s \in Division : f[s] = IF s \in Aligned THEN s ELSE f[AlignNext[s]] BY <1>1
  <2>2. f = [s \in Division |-> f[s]] BY <1>1
  <2>3. \A s \in Division : f[s] = Body(f)[s] BY <2>1 DEF Aligned, AlignNext
  <2> QED BY <2>2, <2>3
<1>3. Align = Body(Align)
  <2>1. Align = CHOOSE g : g = Body(g) BY DEF Align
  <2> HIDE DEF Body
  <2> QED BY <1>2, <2>1
<1> QED BY <1>3 DEF Aligned, AlignNext

RestoreNext ==
  [s \in Division |-> [Subtracted(s) EXCEPT !.remainder = 2 * @, !.bit = @ \div 2]]
Restored == {s \in Division : s.bit = 0 \/ s.remainder = 0}

\* What one turn of the division loop does, and that it is again a division.
LEMMA RestoreTypes ==
  /\ RestoreNext \in [Division -> Division] /\ Restored \in SUBSET Division
  /\ \A s \in Division :
       /\ RestoreNext[s].divider = s.divider
       /\ RestoreNext[s].bit = s.bit \div 2
       /\ s.remainder >= s.divider => /\ RestoreNext[s].remainder = 2 * (s.remainder - s.divider)
                                     /\ RestoreNext[s].quotient = s.quotient + s.bit
       /\ ~ (s.remainder >= s.divider) => /\ RestoreNext[s].remainder = 2 * s.remainder
                                         /\ RestoreNext[s].quotient = s.quotient
<1>1. ASSUME NEW s \in Division
      PROVE  /\ RestoreNext[s] \in Division
             /\ RestoreNext[s].divider = s.divider
             /\ RestoreNext[s].bit = s.bit \div 2
             /\ s.remainder >= s.divider =>
                  /\ RestoreNext[s].remainder = 2 * (s.remainder - s.divider)
                  /\ RestoreNext[s].quotient = s.quotient + s.bit
             /\ ~ (s.remainder >= s.divider) =>
                  /\ RestoreNext[s].remainder = 2 * s.remainder
                  /\ RestoreNext[s].quotient = s.quotient
  <2> DEFINE t == Subtracted(s)
  <2>1. RestoreNext[s] = [t EXCEPT !.remainder = 2 * @, !.bit = @ \div 2] BY DEF RestoreNext
  <2>2. s.divider \in Nat \ {0} /\ s.bit \in Nat /\ s.remainder \in Nat /\ s.quotient \in Nat
    BY DEF Division
  <2>3. CASE s.remainder >= s.divider
    <3>1. t = [s EXCEPT !.remainder = @ - s.divider, !.quotient = @ + s.bit]
      BY <2>3 DEF Subtracted
    <3>2. s.remainder - s.divider \in Nat /\ s.quotient + s.bit \in Nat BY <2>2, <2>3
    <3>3. /\ t \in Division /\ t.divider = s.divider /\ t.bit = s.bit
          /\ t.remainder = s.remainder - s.divider /\ t.quotient = s.quotient + s.bit
      BY <3>1, <3>2 DEF Division
    <3> HIDE DEF t
    <3>4. 2 * t.remainder \in Nat /\ t.bit \div 2 \in Nat BY <2>2, <3>2, <3>3
    <3> QED BY <2>1, <2>3, <3>3, <3>4 DEF Division
  <2>4. CASE ~ (s.remainder >= s.divider)
    <3>1. t = s BY <2>4 DEF Subtracted
    <3> HIDE DEF t
    <3>2. 2 * s.remainder \in Nat /\ s.bit \div 2 \in Nat BY <2>2
    <3> QED BY <2>1, <2>4, <3>1, <3>2 DEF Division
  <2> QED BY <2>3, <2>4
<1>2. RestoreNext = [s \in Division |-> RestoreNext[s]] BY DEF RestoreNext
<1> QED BY <1>1, <1>2 DEF Restored

\* Restore is the loop of these turns.
LEMMA RestoreLoops ==
  \A s \in Division : Restore[s] = IF s \in Restored THEN s ELSE Restore[RestoreNext[s]]
<1> DEFINE Body(f) ==
      [s \in Division |->
         IF s.bit = 0 \/ s.remainder = 0
           THEN s
           ELSE f[[Subtracted(s) EXCEPT !.remainder = 2 * @, !.bit = @ \div 2]]]
<1>1. PICK f : f = [s \in Division |-> IF s \in Restored THEN s ELSE f[RestoreNext[s]]]
  BY RestoreTypes, LoopDefined
<1>2. f = Body(f)
  <2>1. \A s \in Division : f[s] = IF s \in Restored THEN s ELSE f[RestoreNext[s]] BY <1>1
  <2>2. f = [s \in Division |-> f[s]] BY <1>1
  <2>3. \A s \in Division : f[s] = Body(f)[s] BY <2>1 DEF Restored, RestoreNext
  <2> QED BY <2>2, <2>3
<1>3. Restore = Body(Restore)
  <2>1. Restore = CHOOSE g : g = Body(g) BY DEF Restore
  <2> HIDE DEF Body
  <2> QED BY <1>2, <2>1
<1> QED BY <1>3 DEF Restored, RestoreNext

\* The powers of two.
Powers ==
  {x \in Nat : \A S \in SUBSET Nat : 1 \in S /\ (\A y \in S : 2 * y \in S) => x \in S}

LEMMA PowersHalve ==
  /\ 1 \in Powers /\ Powers \subseteq Nat \ {0}
  /\ \A x \in Powers : 2 * x \in Powers
  /\ \A x \in Powers : x = 1 \/ \E y \in Powers : x = 2 * y
<1>1. 1 \in Powers BY DEF Powers
<1>2. ASSUME NEW x \in Powers PROVE 2 * x \in Powers
  <2>1. x \in Nat BY DEF Powers
  <2>2. 2 * x \in Nat BY <2>1
  <2>3. ASSUME NEW S \in SUBSET Nat, 1 \in S, \A y \in S : 2 * y \in S PROVE 2 * x \in S
    <3>1. x \in S BY <2>3 DEF Powers
    <3> QED BY <2>3, <3>1
  <2> QED BY <2>2, <2>3 DEF Powers
<1>3. ASSUME NEW x \in Powers PROVE x = 1 \/ \E y \in Powers : x = 2 * y
  <2> DEFINE S == {z \in Powers : z = 1 \/ \E y \in Powers : z = 2 * y}
  <2>1. S \in SUBSET Nat BY DEF Powers
  <2>2. 1 \in S BY <1>1
  <2>3. \A y \in S : 2 * y \in S BY <1>2
  <2> HIDE DEF S
  <2>4. x \in S BY <2>1, <2>2, <2>3 DEF Powers
  <2> QED BY <2>4 DEF S
<1>4. \A x \in Powers : x # 0
  <2> DEFINE S == Nat \ {0}
  <2>1. S \in SUBSET Nat /\ 1 \in S /\ \A y \in S : 2 * y \in S OBVIOUS
  <2> HIDE DEF S
  <2>2. \A x \in Powers : x \in S BY <2>1 DEF Powers
  <2> QED BY <2>2 DEF S
<1>5. Powers \subseteq Nat BY DEF Powers
<1> QED BY <1>1, <1>2, <1>3, <1>4, <1>5

LEMMA OneIsPower == ONE \in Powers
<1> USE PowersHalve
<1>1. 2 * 1 \in Powers /\ 4 \in Powers OBVIOUS
<1> QED BY DEF ONE

LEMMA Cancel ==
  ASSUME NEW p \in Nat \ {0}, NEW x \in Int, NEW y \in Int, p * x <= p * y
  PROVE  x <= y
<1>1. SUFFICES ASSUME y + 1 <= x PROVE FALSE OBVIOUS
<1>2. p * (y + 1) <= p * x BY <1>1
<1>3. p * (y + 1) = p * y + p OBVIOUS
<1>4. p * x \in Int /\ p * y \in Int OBVIOUS
<1> QED BY <1>2, <1>3, <1>4

\* Aligning makes the divider at least the remainder, by as many doublings as the bit.
LEMMA AlignEnds ==
  ASSUME NEW r \in Nat, NEW d \in Nat \ {0}
  PROVE  \E p \in Powers :
           Align[[remainder |-> r, divider |-> d, bit |-> ONE, quotient |-> 0]]
             = [remainder |-> r, divider |-> d * p, bit |-> ONE * p, quotient |-> 0]
           /\ r <= d * p /\ ONE * p \in Powers
<1> DEFINE start == [remainder |-> r, divider |-> d, bit |-> ONE, quotient |-> 0]
           I == {s \in Division : /\ s.remainder = r /\ s.quotient = 0 /\ s.bit \in Powers
                                  /\ \E p \in Powers : s.divider = d * p /\ s.bit = ONE * p}
           m == [s \in Division |-> IF s.divider < s.remainder THEN s.remainder - s.divider ELSE 0]
<1>1. start \in I
  <2>1. start \in Division BY DEF Division, ONE
  <2>2. 1 \in Powers /\ d = d * 1 /\ ONE = ONE * 1 BY PowersHalve DEF ONE
  <2> QED BY <2>1, <2>2, OneIsPower
<1>2. ASSUME NEW s \in I \ Aligned PROVE AlignNext[s] \in I
  <2> DEFINE t == AlignNext[s]
  <2>1. s \in Division /\ s.remainder = r /\ s.quotient = 0 /\ s.bit \in Powers OBVIOUS
  <2>2. PICK p \in Powers : s.divider = d * p /\ s.bit = ONE * p OBVIOUS
  <2>3. /\ t \in Division /\ t.remainder = r /\ t.quotient = 0
        /\ t.bit = 2 * s.bit /\ t.divider = 2 * s.divider
    BY <2>1, AlignTypes
  <2>4. 2 * p \in Powers /\ t.bit \in Powers /\ p \in Nat BY <2>1, <2>3, PowersHalve
  <2>5. 2 * (d * p) = d * (2 * p) /\ 2 * (ONE * p) = ONE * (2 * p) BY <2>4 DEF ONE
  <2>6. t.divider = d * (2 * p) /\ t.bit = ONE * (2 * p) BY <2>2, <2>3, <2>5
  <2> HIDE DEF t
  <2>7. t \in I BY <2>3, <2>4, <2>6
  <2> QED BY <2>7 DEF t
<1>3. ASSUME NEW s \in Division \ Aligned PROVE m[AlignNext[s]] < m[s]
  <2>1. s.divider \in Nat \ {0} /\ s.remainder \in Nat /\ s.divider < s.remainder
    BY DEF Division, Aligned
  <2>2. m[s] = s.remainder - s.divider BY <2>1
  <2> DEFINE t == AlignNext[s]
  <2>3. t \in Division /\ t.remainder = s.remainder /\ t.divider = 2 * s.divider BY AlignTypes
  <2>4. m[t] = IF t.divider < t.remainder THEN t.remainder - t.divider ELSE 0 BY <2>3
  <2> HIDE DEF m, t
  <2>5. m[t] < m[s] BY <2>1, <2>2, <2>3, <2>4
  <2> QED BY <2>5 DEF t
<1>4. m \in [Division -> Nat]
  <2>1. \A s \in Division : s.remainder \in Nat /\ s.divider \in Nat BY DEF Division
  <2> QED BY <2>1
<1>5. I \in SUBSET Division OBVIOUS
<1> HIDE DEF m, I
<1>6. Align[start] \in I /\ Align[start] \in Aligned
  <2>1. IsLoop(Align, Division, AlignNext, Aligned) BY AlignTypes, AlignLoops DEF IsLoop
  <2>2. GoesDown(m, Division, AlignNext, Aligned) BY <1>3, <1>4 DEF GoesDown
  <2>3. IsKept(I, Division, AlignNext, Aligned) BY <1>2, <1>5 DEF IsKept
  <2> QED BY <1>1, <2>1, <2>2, <2>3, LoopEnds
<1> DEFINE e == Align[start]
<1>7. PICK p \in Powers : e.divider = d * p /\ e.bit = ONE * p BY <1>6 DEF I
<1>8. e \in Division /\ e.remainder = r /\ e.quotient = 0 /\ e.bit \in Powers
      /\ ~ (e.divider < e.remainder)
  BY <1>6 DEF I, Aligned
<1>9. e = [remainder |-> r, divider |-> d * p, bit |-> ONE * p, quotient |-> 0]
  BY <1>7, <1>8 DEF Division
<1>10. r <= d * p /\ ONE * p \in Powers
  <2>1. d * p \in Nat BY <1>7, PowersHalve
  <2> QED BY <1>7, <1>8, <2>1
<1> QED BY <1>7, <1>9, <1>10

\* Where the divider is at least the remainder, restoring gives the quotient in
\* units of the bit, rounded to nearest.
LEMMA RestoreEnds ==
  ASSUME NEW r \in Nat, NEW d \in Nat \ {0}, r <= d, NEW b \in Powers,
         NEW e, NEW q,
         e = Restore[[remainder |-> r, divider |-> d, bit |-> b, quotient |-> 0]],
         q = e.quotient + (IF e.remainder >= e.divider THEN 1 ELSE 0)
  PROVE  q \in Nat /\ 2 * (r * b) - 2 * (d * q) \in -d .. d
<1> DEFINE start == [remainder |-> r, divider |-> d, bit |-> b, quotient |-> 0]
           Going(s) == s.bit \in Powers /\ r * b = d * s.quotient + s.remainder * s.bit
           Over(s) == s.bit = 0 /\ 2 * (r * b) = 2 * (d * s.quotient) + s.remainder
           I == {s \in Division : s.divider = d /\ s.remainder <= 2 * d /\ (Going(s) \/ Over(s))}
           m == [s \in Division |-> s.bit]
<1>1. start \in I
  <2>1. b \in Nat BY PowersHalve
  <2>2. start \in Division BY <2>1 DEF Division
  <2>3. d * 0 = 0 OBVIOUS
  <2>4. r * b = 0 + r * b BY <2>1
  <2>5. Going(start) BY <2>3, <2>4
  <2>6. r <= 2 * d OBVIOUS
  <2> HIDE DEF Going, Over
  <2> QED BY <2>2, <2>5, <2>6
<1>2. ASSUME NEW s \in I \ Restored PROVE RestoreNext[s] \in I
  <2> DEFINE t == RestoreNext[s]
  <2>1. /\ s \in Division /\ s.divider = d /\ s.remainder <= 2 * d /\ s.bit \in Powers
        /\ r * b = d * s.quotient + s.remainder * s.bit /\ s.bit # 0
    BY DEF Restored
  <2>2. s.remainder \in Nat /\ s.quotient \in Nat /\ s.bit \in Nat BY <2>1 DEF Division
  <2>3. /\ t \in Division /\ t.divider = d /\ t.bit = s.bit \div 2
        /\ s.remainder >= d => /\ t.remainder = 2 * (s.remainder - d)
                               /\ t.quotient = s.quotient + s.bit
        /\ ~ (s.remainder >= d) => /\ t.remainder = 2 * s.remainder
                                   /\ t.quotient = s.quotient
    BY <2>1, RestoreTypes
  <2> HIDE DEF t
  <2>4. t.remainder <= 2 * d
    <3>1. CASE s.remainder >= d BY <2>1, <2>2, <2>3, <3>1
    <3>2. CASE ~ (s.remainder >= d) BY <2>1, <2>2, <2>3, <3>2
    <3> QED BY <3>1, <3>2
  <2>5. ASSUME s.bit = 1 PROVE Over(t)
    <3>1. t.bit = 0 BY <2>3, <2>5
    <3>2. r * b = d * s.quotient + s.remainder
      <4>1. s.remainder * 1 = s.remainder BY <2>2
      <4> QED BY <2>1, <2>5, <4>1
    <3>3. CASE s.remainder >= d
      <4>1. d * (s.quotient + 1) = d * s.quotient + d BY <2>2
      <4>2. t.quotient = s.quotient + 1 /\ t.remainder = 2 * (s.remainder - d)
        BY <2>3, <2>5, <3>3
      <4>3. d * s.quotient \in Int BY <2>2
      <4>4. 2 * (r * b) = 2 * (d * t.quotient) + t.remainder
        BY <2>2, <3>2, <4>1, <4>2, <4>3
      <4> QED BY <3>1, <4>4
    <3>4. CASE ~ (s.remainder >= d)
      <4>1. t.quotient = s.quotient /\ t.remainder = 2 * s.remainder BY <2>3, <3>4
      <4>2. d * s.quotient \in Int BY <2>2
      <4>3. 2 * (r * b) = 2 * (d * t.quotient) + t.remainder BY <2>2, <3>2, <4>1, <4>2
      <4> QED BY <3>1, <4>3
    <3> QED BY <3>3, <3>4
  <2>6. ASSUME s.bit # 1 PROVE Going(t)
    <3>1. PICK y \in Powers : s.bit = 2 * y BY <2>1, <2>6, PowersHalve
    <3>2. y \in Nat BY PowersHalve
    <3>3. t.bit = y BY <2>3, <3>1, <3>2
    <3>4. CASE s.remainder >= d
      <4>1. t.quotient = s.quotient + 2 * y /\ t.remainder = 2 * (s.remainder - d)
        BY <2>3, <3>1, <3>4
      <4>2. d * (s.quotient + 2 * y) = d * s.quotient + 2 * (d * y) BY <2>2, <3>2
      <4>3. (2 * (s.remainder - d)) * y = 2 * (s.remainder * y) - 2 * (d * y) BY <2>2, <3>2
      <4>4. s.remainder * (2 * y) = 2 * (s.remainder * y) BY <2>2, <3>2
      <4>5. d * s.quotient \in Int /\ d * y \in Int /\ s.remainder * y \in Int BY <2>2, <3>2
      <4>6. r * b = d * t.quotient + t.remainder * t.bit
        BY <2>1, <3>1, <3>3, <4>1, <4>2, <4>3, <4>4, <4>5
      <4> QED BY <3>3, <4>6
    <3>5. CASE ~ (s.remainder >= d)
      <4>1. t.quotient = s.quotient /\ t.remainder = 2 * s.remainder BY <2>3, <3>5
      <4>2. s.remainder * (2 * y) = (2 * s.remainder) * y BY <2>2, <3>2
      <4>3. r * b = d * t.quotient + t.remainder * t.bit BY <2>1, <3>1, <3>3, <4>1, <4>2
      <4> QED BY <3>3, <4>3
    <3> QED BY <3>4, <3>5
  <2> HIDE DEF Going, Over
  <2>7. t \in I BY <2>3, <2>4, <2>5, <2>6
  <2> QED BY <2>7 DEF t
<1>3. ASSUME NEW s \in Division \ Restored PROVE m[RestoreNext[s]] < m[s]
  <2>1. s.bit \in Nat \ {0} BY DEF Restored, Division
  <2>2. RestoreNext[s] \in Division /\ RestoreNext[s].bit = s.bit \div 2 BY RestoreTypes
  <2>3. s.bit \div 2 < s.bit BY <2>1
  <2> QED BY <2>2, <2>3
<1>4. m \in [Division -> Nat]
  <2>1. \A s \in Division : s.bit \in Nat BY DEF Division
  <2> QED BY <2>1
<1>5. I \in SUBSET Division OBVIOUS
<1> HIDE DEF m, I
<1>6. e \in I /\ e \in Restored
  <2>1. IsLoop(Restore, Division, RestoreNext, Restored) BY RestoreTypes, RestoreLoops DEF IsLoop
  <2>2. GoesDown(m, Division, RestoreNext, Restored) BY <1>3, <1>4 DEF GoesDown
  <2>3. IsKept(I, Division, RestoreNext, Restored) BY <1>2, <1>5 DEF IsKept
  <2> QED BY <1>1, <2>1, <2>2, <2>3, LoopEnds
<1>7. /\ e \in Division /\ e.divider = d /\ e.remainder <= 2 * d /\ (Going(e) \/ Over(e))
      /\ e.bit = 0 \/ e.remainder = 0
  BY <1>6 DEF I, Restored
<1>8. e.remainder \in Nat /\ e.quotient \in Nat /\ d * e.quotient \in Nat BY <1>7 DEF Division
<1>9. 2 * (r * b) = 2 * (d * e.quotient) + e.remainder
  <2>1. CASE Over(e) BY <2>1
  <2>2. CASE Going(e)
    <3>1. e.bit # 0 /\ e.bit \in Nat BY <2>2, PowersHalve
    <3>2. e.remainder = 0 BY <1>7, <3>1
    <3>3. 0 * e.bit = 0 BY <3>1
    <3> QED BY <1>8, <2>2, <3>2, <3>3
  <2> QED BY <1>7, <2>1, <2>2
<1>10. CASE e.remainder >= d
  <2>1. q = e.quotient + 1 BY <1>7, <1>10
  <2>2. d * (e.quotient + 1) = d * e.quotient + d BY <1>8
  <2> HIDE DEF Going, Over
  <2> QED BY <1>7, <1>8, <1>9, <1>10, <2>1, <2>2
<1>11. CASE ~ (e.remainder >= d)
  <2>1. q = e.quotient BY <1>7, <1>8, <1>11
  <2> HIDE DEF Going, Over
  <2> QED BY <1>7, <1>8, <1>9, <1>11, <2>1
<1> QED BY <1>10, <1>11

\* Division rounds to the nearest word, for any two numbers but a divisor of zero
\* (fp_q16.h:105-171).
THEOREM QuotientRounds ==
  \A a \in Int, b \in Int \ {0} :
    fp_div(a, b) \in Int /\ 2 * Magnitude(b * fp_div(a, b) - a * ONE) <= Magnitude(b)
<1> SUFFICES ASSUME NEW a \in Int, NEW b \in Int \ {0}
             PROVE  /\ fp_div(a, b) \in Int
                    /\ 2 * Magnitude(b * fp_div(a, b) - a * ONE) <= Magnitude(b)
    OBVIOUS
<1> DEFINE r == Magnitude(a)
           d == Magnitude(b)
<1>1. r \in Nat /\ d \in Nat \ {0} BY DEF Magnitude
<1> HIDE DEF r, d
<1>2. PICK p \in Powers :
        /\ Align[[remainder |-> r, divider |-> d, bit |-> ONE, quotient |-> 0]]
             = [remainder |-> r, divider |-> d * p, bit |-> ONE * p, quotient |-> 0]
        /\ r <= d * p /\ ONE * p \in Powers
    BY <1>1, AlignEnds
<1> DEFINE e == Restore[[remainder |-> r, divider |-> d * p, bit |-> ONE * p, quotient |-> 0]]
           q == e.quotient + (IF e.remainder >= e.divider THEN 1 ELSE 0)
<1>3. p \in Nat \ {0} /\ d * p \in Nat \ {0}
  <2>1. p \in Nat \ {0} BY PowersHalve
  <2> QED BY <1>1, <2>1
<1>4. q \in Nat /\ 2 * (r * (ONE * p)) - 2 * ((d * p) * q) \in -(d * p) .. d * p
    BY <1>1, <1>2, <1>3, RestoreEnds
<1>5. fp_div(a, b) = IF (a < 0) # (b < 0) THEN -q ELSE q BY <1>2 DEF fp_div, r, d
<1> HIDE DEF e, q
<1>6. 2 * (d * q - r * ONE) <= d /\ -d <= 2 * (d * q - r * ONE)
  <2> DEFINE x == 2 * (d * q - r * ONE)
  <2>1. x \in Int BY <1>1, <1>4 DEF ONE
  <2>2. p * x = 2 * ((d * p) * q) - 2 * (r * (ONE * p)) BY <1>1, <1>3, <1>4 DEF ONE
  <2>3. p * d = d * p /\ p * (-d) = -(d * p) BY <1>1, <1>3
  <2>4. 2 * ((d * p) * q) \in Int /\ 2 * (r * (ONE * p)) \in Int BY <1>1, <1>3, <1>4 DEF ONE
  <2> HIDE DEF x
  <2>5. p * x <= p * d /\ p * (-d) <= p * x BY <1>3, <1>4, <2>2, <2>3, <2>4
  <2>6. -d \in Int /\ d \in Int BY <1>1
  <2>7. x <= d BY <1>3, <2>1, <2>5, <2>6, Cancel
  <2>8. -d <= x BY <1>3, <2>1, <2>5, <2>6, Cancel
  <2> QED BY <2>7, <2>8 DEF x
<1>7. (r = a \/ r = -a) /\ (d = b \/ d = -b) /\ (a < 0 <=> r = -a /\ a # 0) /\ (b < 0 <=> d = -b)
    BY DEF r, d, Magnitude
<1>8. b * fp_div(a, b) - a * ONE = d * q - r * ONE \/ b * fp_div(a, b) - a * ONE = -(d * q - r * ONE)
  <2>1. CASE a < 0 /\ b < 0 BY <1>1, <1>4, <1>5, <1>7, <2>1 DEF ONE
  <2>2. CASE a < 0 /\ ~ (b < 0) BY <1>1, <1>4, <1>5, <1>7, <2>2 DEF ONE
  <2>3. CASE ~ (a < 0) /\ b < 0 BY <1>1, <1>4, <1>5, <1>7, <2>3 DEF ONE, r, Magnitude
  <2>4. CASE ~ (a < 0) /\ ~ (b < 0) BY <1>1, <1>4, <1>5, <1>7, <2>4 DEF ONE, r, Magnitude
  <2> QED BY <2>1, <2>2, <2>3, <2>4
<1>9. fp_div(a, b) \in Int BY <1>4, <1>5
<1>10. d * q - r * ONE \in Int BY <1>1, <1>4 DEF ONE
<1> DEFINE y == d * q - r * ONE
           z == b * fp_div(a, b) - a * ONE
<1>11. y \in Int /\ (z = y \/ z = -y) /\ 2 * y <= d /\ -d <= 2 * y BY <1>6, <1>8, <1>10
<1> HIDE DEF y, z
<1>12. 2 * Magnitude(z) <= d BY <1>1, <1>11 DEF Magnitude
<1> QED BY <1>9, <1>12 DEF z, d

Splits(x, n, high, low) ==
  high \in Int /\ low \in Int /\ 0 <= low /\ low < n /\ x = n * high + low

LEMMA Words ==
  ASSUME NEW x \in Int
  PROVE  Splits(x, ONE, x \div ONE, x % ONE)
<1> DEFINE high == x \div 65536   low == x % 65536
<1>1. high \in Int /\ low \in Int /\ 0 <= low /\ low < 65536
    BY SMTT(20)
<1>2. x = 65536 * high + low
    BY SMTT(20)
<1>3. Splits(x, ONE, x \div ONE, x % ONE) <=> Splits(x, 65536, high, low)
    BY DEF ONE
<1> HIDE DEF high, low
<1> QED BY <1>1, <1>2, <1>3 DEF Splits

LEMMA Bytes ==
  ASSUME NEW x \in Int
  PROVE  Splits(x, 256, x \div 256, x % 256)
<1>1. x \div 256 \in Int /\ x % 256 \in 0 .. 255
    OBVIOUS
<1>2. x = 256 * (x \div 256) + (x % 256)
    OBVIOUS
<1> QED BY <1>1, <1>2 DEF Splits

\* The product loses its lowest 16 bits and nothing else (fp_q16.h:99-103).
LEMMA ProductTruncates ==
  ASSUME NEW a \in Int, NEW b \in Int
  PROVE  fp_mul(a, b) \in Int /\ fp_mul(a, b) = (a * b) \div ONE
<1> DEFINE ah == a \div ONE    al == a % ONE    bh == b \div ONE   bl == b % ONE
           hi == al \div 256   lo == al % 256
           x == lo * bl        t == x \div 256   r == x % 256
           y == hi * bl + t    u == y \div 256   v == y % 256
           w == ah * b + al * bh + u
<1>1. fp_mul(a, b) = w
    BY DEF fp_mul
<1> HIDE DEF w
<1>2. Splits(a, ONE, ah, al) /\ Splits(b, ONE, bh, bl)
    BY Words, Zenon
<1> HIDE DEF ah, al, bh, bl
<1>3. /\ ah \in Int /\ al \in Int /\ a = 65536 * ah + al
      /\ bh \in Int /\ bl \in Int /\ bl >= 0 /\ bl <= 65535 /\ b = 65536 * bh + bl
    BY <1>2 DEF Splits, ONE
<1>4. Splits(al, 256, hi, lo)
  <2>1. al \in Int
      BY <1>3
  <2> QED BY <2>1, Bytes, Zenon
<1> HIDE DEF hi, lo
<1>5. hi \in Int /\ lo \in Int /\ al = 256 * hi + lo
    BY <1>4 DEF Splits
<1>6. x \in Int
    BY <1>3, <1>5
<1> HIDE DEF x
<1>7. Splits(x, 256, t, r)
    BY <1>6, Bytes, Zenon
<1> HIDE DEF t, r
<1>8. t \in Int /\ r \in 0 .. 255 /\ x = 256 * t + r
    BY <1>7 DEF Splits
<1>9. y \in Int /\ hi * bl \in Int /\ y = hi * bl + t
    BY <1>3, <1>5, <1>8
<1> HIDE DEF y
<1>10. Splits(y, 256, u, v)
    BY <1>9, Bytes, Zenon
<1> HIDE DEF u, v
<1>11. u \in Int /\ v \in 0 .. 255 /\ y = 256 * u + v
    BY <1>10 DEF Splits
<1> DEFINE ahb == ah * b   alb == al * b   albh == al * bh   albl == al * bl
           hibl == hi * bl   p == a * b
<1>12. /\ ahb \in Int /\ albh \in Int /\ albl \in Int /\ hibl \in Int /\ p \in Int
    BY <1>3, <1>5
<1>13. hibl + t = 256 * u + v
    BY <1>9, <1>11
<1>14. albl = 256 * hibl + x
    BY <1>3, <1>5 DEF x
<1>15. alb = 65536 * albh + albl
    BY <1>3
<1>16. p = 65536 * ahb + alb
    BY <1>3
<1>17. w = ahb + albh + u
    BY DEF w
<1> HIDE DEF ahb, alb, albh, albl, hibl, p
<1>18. w \in Int
    BY <1>11, <1>12, <1>17
<1>19. albl = 65536 * u + (256 * v + r)
    BY <1>8, <1>11, <1>12, <1>13, <1>14
<1> DEFINE s == 256 * v + r
<1>20. s \in Int /\ 0 <= s /\ s <= 65535
  <2>1. r \in Int /\ 0 <= r /\ r <= 255 /\ v \in Int /\ 0 <= v /\ v <= 255
      BY <1>8, <1>11
  <2> QED BY <2>1
<1>21. albl = 65536 * u + s
    BY <1>19
<1> HIDE DEF s
<1>22. p = 65536 * w + s
    BY <1>11, <1>12, <1>15, <1>16, <1>17, <1>20, <1>21
<1>23. p \div 65536 = w
  <2>1. p \in Int
      BY <1>12
  <2> QED BY <1>18, <1>20, <1>22, <2>1
<1> QED BY <1>1, <1>18, <1>23 DEF ONE, p

\* The product with a whole number is exact.
LEMMA WholeProduct ==
  ASSUME NEW a \in Int, NEW n \in Int
  PROVE  fp_mul(a, Fixed(n)) = a * n /\ fp_mul(Fixed(n), a) = a * n
<1> DEFINE p == a * n   f == Fixed(n)
<1>1. p \in Int
    OBVIOUS
<1>2. f \in Int /\ a * f = 65536 * p /\ f * a = 65536 * p
    BY DEF Fixed, ONE
<1> HIDE DEF p, f
<1> DEFINE x == 65536 * p
<1>3. x \div 65536 = p
    BY <1>1
<1>4. x \in Int
    BY <1>1
<1>5. fp_mul(a, f) = p
  <2>1. fp_mul(a, f) = (a * f) \div 65536
      BY <1>2, ProductTruncates DEF ONE
  <2> QED BY <1>2, <1>3, <2>1
<1>6. fp_mul(f, a) = p
  <2>1. fp_mul(f, a) = (f * a) \div 65536
      BY <1>2, ProductTruncates DEF ONE
  <2> QED BY <1>2, <1>3, <2>1
<1> QED BY <1>5, <1>6 DEF p, f
-----------------------------------------------------------------------------
(* The division of whole numbers *)

DivideNext == [s \in LongDivision |-> IF s.scale <= 1 THEN s ELSE BroughtDown(s)]
Divided == {s \in LongDivision : s.scale <= 1}

\* The number that the next bit makes of the remainder.
Rest(s) == ((2 * s.remainder) % s.word) + ((s.n \div (s.scale \div 2)) % 2)

\* What the next bit does to a long division, and that it is again one.
LEMMA DivideTypes ==
  /\ DivideNext \in [LongDivision -> LongDivision] /\ Divided \in SUBSET LongDivision
  /\ \A s \in LongDivision \ Divided :
       /\ DivideNext[s].word = s.word /\ DivideNext[s].n = s.n /\ DivideNext[s].d = s.d
       /\ DivideNext[s].scale = s.scale \div 2
       /\ Rest(s) >= s.d => /\ DivideNext[s].remainder = Rest(s) - s.d
                            /\ DivideNext[s].quotient = s.quotient + s.scale \div 2
       /\ ~ (Rest(s) >= s.d) => /\ DivideNext[s].remainder = Rest(s)
                                /\ DivideNext[s].quotient = s.quotient
<1>1. ASSUME NEW s \in LongDivision \ Divided
      PROVE  /\ DivideNext[s] \in LongDivision
             /\ DivideNext[s].word = s.word /\ DivideNext[s].n = s.n /\ DivideNext[s].d = s.d
             /\ DivideNext[s].scale = s.scale \div 2
             /\ Rest(s) >= s.d => /\ DivideNext[s].remainder = Rest(s) - s.d
                                  /\ DivideNext[s].quotient = s.quotient + s.scale \div 2
             /\ ~ (Rest(s) >= s.d) => /\ DivideNext[s].remainder = Rest(s)
                                      /\ DivideNext[s].quotient = s.quotient
  <2>1. /\ s \in LongDivision /\ ~ (s.scale <= 1) /\ s.word \in Nat \ {0} /\ s.n \in Nat
        /\ s.d \in Nat \ {0} /\ s.scale \in Nat /\ s.remainder \in Nat /\ s.quotient \in Nat
    BY DEF LongDivision, Divided
  <2> DEFINE place == s.scale \div 2
             rest == Rest(s)
  <2>2. place \in Nat \ {0} BY <2>1
  <2>3. DivideNext[s] = IF rest >= s.d
                        THEN [s EXCEPT !.scale = place, !.remainder = rest - s.d,
                                       !.quotient = @ + place]
                        ELSE [s EXCEPT !.scale = place, !.remainder = rest]
    BY <2>1 DEF DivideNext, BroughtDown, Rest
  <2> HIDE DEF place
  <2>4. rest \in Nat
    <3>1. (2 * s.remainder) % s.word \in Nat BY <2>1
    <3>2. (s.n \div place) % 2 \in Nat BY <2>1, <2>2
    <3> QED BY <3>1, <3>2 DEF Rest, place
  <2> HIDE DEF rest
  <2>5. CASE rest >= s.d
    <3>1. rest - s.d \in Nat /\ s.quotient + place \in Nat BY <2>1, <2>2, <2>4, <2>5
    <3> QED BY <2>1, <2>2, <2>3, <2>5, <3>1 DEF LongDivision, rest, place
  <2>6. CASE ~ (rest >= s.d)
    <3> QED BY <2>1, <2>2, <2>3, <2>4, <2>6 DEF LongDivision, rest, place
  <2> QED BY <2>5, <2>6
<1>2. ASSUME NEW s \in Divided PROVE s \in LongDivision /\ DivideNext[s] = s
  BY DEF DivideNext, Divided
<1>3. DivideNext = [s \in LongDivision |-> DivideNext[s]] BY DEF DivideNext
<1> QED BY <1>1, <1>2, <1>3 DEF Divided

\* Divide is the loop over the bits.
LEMMA DivideLoops ==
  \A s \in LongDivision : Divide[s] = IF s \in Divided THEN s ELSE Divide[DivideNext[s]]
<1> DEFINE Body(f) ==
      [s \in LongDivision |-> IF s.scale <= 1 THEN s ELSE f[BroughtDown(s)]]
<1>1. PICK f : f = [s \in LongDivision |-> IF s \in Divided THEN s ELSE f[DivideNext[s]]]
  BY DivideTypes, LoopDefined
<1>2. f = Body(f)
  <2>1. \A s \in LongDivision : f[s] = IF s \in Divided THEN s ELSE f[DivideNext[s]] BY <1>1
  <2>2. f = [s \in LongDivision |-> f[s]] BY <1>1
  <2>3. \A s \in LongDivision : f[s] = Body(f)[s] BY <2>1 DEF Divided, DivideNext
  <2> QED BY <2>2, <2>3
<1>3. Divide = Body(Divide)
  <2>1. Divide = CHOOSE g : g = Body(g) BY DEF Divide
  <2> HIDE DEF Body
  <2> QED BY <1>2, <2>1
<1> QED BY <1>3 DEF Divided, DivideNext

\* A bit more of a number is one halving less.
LEMMA BitDown ==
  ASSUME NEW n \in Nat, NEW p \in Nat \ {0}
  PROVE  /\ n \div p \in Nat /\ n \div (2 * p) \in Nat /\ (n \div p) % 2 \in 0 .. 1
         /\ n \div p = 2 * (n \div (2 * p)) + ((n \div p) % 2)
<1> DEFINE a == n \div p
           h == n \div (2 * p)
<1>1. a \in Nat /\ p * a <= n /\ n < p * a + p BY Quotient
<1>2. h \in Nat /\ (2 * p) * h <= n /\ n < (2 * p) * h + 2 * p
  <2>1. 2 * p \in Nat \ {0} OBVIOUS
  <2> QED BY <2>1, Quotient
<1> HIDE DEF a, h
<1>3. p * a < p * (2 * h + 2)
  <2>1. p * (2 * h + 2) = (2 * p) * h + 2 * p BY <1>2
  <2> QED BY <1>1, <1>2, <2>1
<1>4. p * (2 * h) < p * (a + 1)
  <2>1. p * (a + 1) = p * a + p /\ p * (2 * h) = (2 * p) * h BY <1>1, <1>2
  <2> QED BY <1>1, <1>2, <2>1
<1>5. a <= 2 * h + 1
  <2>1. SUFFICES ASSUME 2 * h + 2 <= a PROVE FALSE BY <1>1, <1>2
  <2>2. p * (2 * h + 2) <= p * a BY <1>1, <1>2, <2>1
  <2>3. p * a \in Int /\ p * (2 * h + 2) \in Int BY <1>1, <1>2
  <2> QED BY <1>3, <2>2, <2>3
<1>6. 2 * h <= a
  <2>1. SUFFICES ASSUME a + 1 <= 2 * h PROVE FALSE BY <1>1, <1>2
  <2>2. p * (a + 1) <= p * (2 * h) BY <1>1, <1>2, <2>1
  <2>3. p * (a + 1) \in Int /\ p * (2 * h) \in Int BY <1>1, <1>2
  <2> QED BY <1>4, <2>2, <2>3
<1>7. a % 2 \in 0 .. 1 /\ a = 2 * h + (a % 2) BY <1>1, <1>2, <1>5, <1>6
<1> QED BY <1>1, <1>2, <1>7 DEF a, h

\* A quotient and a remainder, by what makes them so.
LEMMA DividesOnce ==
  ASSUME NEW n \in Nat, NEW d \in Nat \ {0}, NEW q \in Nat, NEW r \in Nat,
         r < d, n = d * q + r
  PROVE  n \div d = q /\ (n % d) = r
<1>1. n \div d \in Nat /\ d * (n \div d) <= n /\ n < d * (n \div d) + d BY Quotient
<1>2. (n % d) = n - d * (n \div d) OBVIOUS
<1> DEFINE a == n \div d
<1> HIDE DEF a
<1>3. a \in Nat /\ d * a <= n /\ n < d * a + d BY <1>1 DEF a
<1>4. a <= q
  <2>1. SUFFICES ASSUME q + 1 <= a PROVE FALSE BY <1>3
  <2>2. d * (q + 1) <= d * a BY <1>3, <2>1
  <2>3. d * (q + 1) = d * q + d /\ d * q \in Int /\ d * a \in Int BY <1>3
  <2> QED BY <1>3, <2>2, <2>3
<1>5. q <= a
  <2>1. SUFFICES ASSUME a + 1 <= q PROVE FALSE BY <1>3
  <2>2. d * (a + 1) <= d * q BY <1>3, <2>1
  <2>3. d * (a + 1) = d * a + d /\ d * q \in Int /\ d * a \in Int BY <1>3
  <2> QED BY <1>3, <2>2, <2>3
<1>6. a = q BY <1>3, <1>4, <1>5
<1>7. d * q \in Int OBVIOUS
<1> QED BY <1>2, <1>6, <1>7 DEF a

\* The quotient and the remainder are those of n by d, for words of any number of
\* bits: nothing is shifted out of the remainder.  A divisor of zero gives all ones
\* and n (softdiv.h:17-40).
THEOREM SoftwareDivides ==
  \A word \in Powers : \A n, d \in 0 .. word - 1 :
    udiv_rem(word, n, d) = IF d = 0 THEN <<word - 1, n>> ELSE <<n \div d, n % d>>
<1> SUFFICES ASSUME NEW word \in Powers, NEW n \in 0 .. word - 1, NEW d \in 1 .. word - 1
             PROVE  udiv_rem(word, n, d) = <<n \div d, n % d>>
  <2>1. ASSUME NEW word \in Powers, NEW n \in 0 .. word - 1, NEW d \in 0 .. word - 1
        PROVE  d = 0 \/ d \in 1 .. word - 1
    BY PowersHalve
  <2>2. \A word, n : udiv_rem(word, n, 0) = <<word - 1, n>> BY DEF udiv_rem
  <2>3. ASSUME NEW word \in Powers, NEW n \in 0 .. word - 1, NEW d \in 1 .. word - 1
        PROVE  d # 0
    OBVIOUS
  <2> QED BY <2>1, <2>2, <2>3
<1> DEFINE start == [word |-> word, n |-> n, d |-> d,
                     scale |-> word, remainder |-> 0, quotient |-> 0]
           Part(s, k) == /\ s.quotient = s.scale * k
                         /\ n \div s.scale = d * k + s.remainder
           I == {s \in LongDivision : /\ s.word = word /\ s.n = n /\ s.d = d
                                      /\ s.scale \in Powers /\ s.remainder < d
                                      /\ \E k \in Nat : Part(s, k)}
           m == [s \in LongDivision |-> s.scale]
<1>1. word \in Nat \ {0} /\ n \in Nat /\ n < word /\ d \in Nat \ {0} BY PowersHalve
<1>2. start \in I
  <2>1. start \in LongDivision BY <1>1 DEF LongDivision
  <2>2. n \div word = 0 BY <1>1
  <2>3. Part(start, 0)
    <3>1. word * 0 = 0 /\ d * 0 + 0 = 0 BY <1>1
    <3> QED BY <2>2, <3>1
  <2> HIDE DEF Part
  <2> QED BY <1>1, <2>1, <2>3
<1>3. ASSUME NEW s \in I \ Divided PROVE DivideNext[s] \in I
  <2> DEFINE t == DivideNext[s]
             rest == Rest(s)
  <2>1. /\ s \in LongDivision /\ s.word = word /\ s.n = n /\ s.d = d
        /\ s.scale \in Powers /\ s.scale # 1 /\ s.remainder < d
        /\ s.remainder \in Nat /\ s.quotient \in Nat
    BY DEF Divided, LongDivision
  <2>2. PICK k \in Nat : Part(s, k) OBVIOUS
  <2>3. PICK p \in Powers : s.scale = 2 * p BY <2>1, PowersHalve
  <2>4. p \in Nat \ {0} /\ s.scale \div 2 = p BY <2>3, PowersHalve
  <2>5. /\ n \div p \in Nat /\ n \div (2 * p) \in Nat /\ (n \div p) % 2 \in 0 .. 1
        /\ n \div p = 2 * (n \div (2 * p)) + ((n \div p) % 2)
    BY <1>1, <2>4, BitDown
  <2>6. n \div (2 * p) = d * k + s.remainder /\ s.quotient = (2 * p) * k BY <2>2, <2>3
  <2>7. d * k \in Nat BY <1>1
  <2>8. 2 * s.remainder < word
    <3>1. s.remainder <= n \div (2 * p) BY <2>1, <2>5, <2>6, <2>7
    <3>2. 2 * (n \div (2 * p)) <= n
      <4>1. 2 * (n \div (2 * p)) <= n \div p BY <2>5
      <4>2. n \div p <= n
        <5>1. p * (n \div p) <= n BY <1>1, <2>4, Quotient
        <5>2. n \div p <= p * (n \div p) BY <2>4, <2>5
        <5>3. p * (n \div p) \in Int BY <2>4, <2>5
        <5> QED BY <1>1, <2>5, <5>1, <5>2, <5>3
      <4> QED BY <1>1, <2>5, <4>1, <4>2
    <3> DEFINE h == n \div (2 * p)
    <3>3. h \in Nat /\ s.remainder <= h /\ 2 * h <= n BY <2>5, <3>1, <3>2
    <3> HIDE DEF h
    <3> QED BY <1>1, <2>1, <3>3
  <2>9. rest = 2 * s.remainder + ((n \div p) % 2)
    <3>1. (2 * s.remainder) % word = 2 * s.remainder BY <1>1, <2>1, <2>8
    <3> QED BY <2>1, <2>4, <3>1 DEF Rest
  <2>10. /\ t \in LongDivision /\ t.word = word /\ t.n = n /\ t.d = d /\ t.scale = p
         /\ rest >= d => t.remainder = rest - d /\ t.quotient = s.quotient + p
         /\ ~ (rest >= d) => t.remainder = rest /\ t.quotient = s.quotient
    BY <2>1, <2>4, DivideTypes
  <2> HIDE DEF t, rest, Part
  <2>11. \E j \in Nat : Part(t, j)
    <3>1. CASE rest >= d
      <4>1. t.quotient = p * (2 * k + 1)
        <5>1. p * (2 * k + 1) = (2 * p) * k + p BY <2>4
        <5> QED BY <2>6, <2>10, <3>1, <5>1
      <4>2. n \div p = d * (2 * k + 1) + t.remainder
        <5>1. d * (2 * k + 1) = 2 * (d * k) + d BY <1>1
        <5> QED BY <1>1, <2>1, <2>5, <2>6, <2>7, <2>9, <2>10, <3>1, <5>1
      <4> QED BY <2>10, <4>1, <4>2 DEF Part
    <3>2. CASE ~ (rest >= d)
      <4>1. t.quotient = p * (2 * k)
        <5>1. p * (2 * k) = (2 * p) * k BY <2>4
        <5> QED BY <2>6, <2>10, <3>2, <5>1
      <4>2. n \div p = d * (2 * k) + t.remainder
        <5>1. d * (2 * k) = 2 * (d * k) BY <1>1
        <5> QED BY <1>1, <2>1, <2>5, <2>6, <2>7, <2>9, <2>10, <3>2, <5>1
      <4> QED BY <2>10, <4>1, <4>2 DEF Part
    <3> QED BY <3>1, <3>2
  <2>12. t.remainder < d
    <3> DEFINE bit == (n \div p) % 2
    <3>1. bit \in 0 .. 1 /\ rest = 2 * s.remainder + bit BY <2>5, <2>9
    <3> HIDE DEF bit
    <3>2. rest \in Nat /\ rest < 2 * d BY <1>1, <2>1, <3>1
    <3> QED BY <1>1, <2>10, <3>2
  <2>13. t \in I BY <2>3, <2>10, <2>11, <2>12
  <2> QED BY <2>13 DEF t
<1>4. ASSUME NEW s \in LongDivision \ Divided PROVE m[DivideNext[s]] < m[s]
  <2>1. s.scale \in Nat /\ ~ (s.scale <= 1) BY DEF Divided, LongDivision
  <2>2. DivideNext[s] \in LongDivision /\ DivideNext[s].scale = s.scale \div 2 BY DivideTypes
  <2>3. s.scale \div 2 < s.scale BY <2>1
  <2> QED BY <2>2, <2>3
<1>5. m \in [LongDivision -> Nat]
  <2>1. \A s \in LongDivision : s.scale \in Nat BY DEF LongDivision
  <2> QED BY <2>1
<1>6. I \in SUBSET LongDivision OBVIOUS
<1> DEFINE e == Divide[start]
<1> HIDE DEF m, I
<1>7. e \in I /\ e \in Divided
  <2>1. IsLoop(Divide, LongDivision, DivideNext, Divided)
    BY DivideTypes, DivideLoops DEF IsLoop
  <2>2. GoesDown(m, LongDivision, DivideNext, Divided) BY <1>4, <1>5 DEF GoesDown
  <2>3. IsKept(I, LongDivision, DivideNext, Divided) BY <1>3, <1>6 DEF IsKept
  <2> QED BY <1>2, <2>1, <2>2, <2>3, LoopEnds
<1>8. udiv_rem(word, n, d) = <<e.quotient, e.remainder>> BY <1>1 DEF udiv_rem
<1>9. /\ e \in LongDivision /\ e.scale \in Powers /\ e.scale <= 1 /\ e.remainder < d
      /\ \E k \in Nat : Part(e, k)
  <2> HIDE DEF Part, e
  <2> QED BY <1>7 DEF I, Divided
<1> HIDE DEF e
<1>10. e.scale = 1 /\ e.remainder \in Nat /\ e.quotient \in Nat
  BY <1>9, PowersHalve DEF LongDivision
<1>11. n = d * e.quotient + e.remainder
  <2>1. PICK k \in Nat : Part(e, k) BY <1>9
  <2>2. n \div 1 = n /\ 1 * k = k BY <1>1
  <2> QED BY <1>10, <2>1, <2>2
<1>12. e.quotient = n \div d /\ e.remainder = (n % d)
  BY <1>1, <1>9, <1>10, <1>11, DividesOnce
<1> QED BY <1>8, <1>12

LEMMA QuotientSmaller ==
  ASSUME NEW n \in Nat, NEW d \in Nat \ {0}
  PROVE  n \div d \in Nat /\ n \div d <= n
<1>1. n \div d \in Nat /\ d * (n \div d) <= n BY Quotient
<1>2. n \div d <= d * (n \div d) BY <1>1
<1>3. d * (n \div d) \in Int BY <1>1
<1> QED BY <1>1, <1>2, <1>3

\* Of signed words the quotient is that of the magnitudes, with the sign that the two
\* make: C's division, as map() needs it.  The lowest number is left out, whose
\* quotient by -1 is no word (softdiv.h:56-63).
THEOREM SignedDivides ==
  \A half \in Powers : \A n, d \in 1 - half .. half - 1 :
    d # 0 =>
      LET q == Magnitude(n) \div Magnitude(d)
      IN divsi3(2 * half, n, d) = IF (n < 0) # (d < 0) THEN -q ELSE q
<1> SUFFICES ASSUME NEW half \in Powers,
                    NEW n \in 1 - half .. half - 1, NEW d \in 1 - half .. half - 1, d # 0
             PROVE  LET q == Magnitude(n) \div Magnitude(d)
                    IN divsi3(2 * half, n, d) = IF (n < 0) # (d < 0) THEN -q ELSE q
  OBVIOUS
<1> DEFINE word == 2 * half
           q == Magnitude(n) \div Magnitude(d)
<1>1. half \in Nat \ {0} /\ word \in Powers /\ word \in Nat BY PowersHalve
<1>2. Magnitude(n) \in 0 .. half - 1 /\ Magnitude(d) \in 1 .. half - 1
  BY <1>1 DEF Magnitude
<1>3. q \in Nat /\ q < half
  <2>1. Magnitude(n) \in Nat /\ Magnitude(d) \in Nat \ {0} BY <1>2
  <2>2. q \in Nat /\ q <= Magnitude(n) BY <2>1, QuotientSmaller
  <2> HIDE DEF q
  <2> QED BY <1>1, <1>2, <2>2
<1>4. udiv_rem(word, Magnitude(n), Magnitude(d))[1] = q
  <2>1. Magnitude(n) \in 0 .. word - 1 /\ Magnitude(d) \in 0 .. word - 1 /\ Magnitude(d) # 0
    BY <1>1, <1>2
  <2> HIDE DEF word
  <2>2. udiv_rem(word, Magnitude(n), Magnitude(d))
          = <<Magnitude(n) \div Magnitude(d), Magnitude(n) % Magnitude(d)>>
    BY <1>1, <2>1, SoftwareDivides
  <2> QED BY <2>2
<1> HIDE DEF q
<1>5. Signed(word, q) = q BY <1>1, <1>3 DEF Signed
<1>6. Signed(word, (-q) % word) = -q
  <2>1. CASE q = 0
    <3>1. (-q) % word = 0 BY <1>1, <2>1
    <3> QED BY <1>1, <2>1, <3>1 DEF Signed
  <2>2. CASE q # 0
    <3>1. (-q) % word = word - q BY <1>1, <1>3, <2>2
    <3> QED BY <1>1, <1>3, <2>2, <3>1 DEF Signed
  <2> QED BY <2>1, <2>2
<1>7. divsi3(word, n, d) = IF (n < 0) # (d < 0) THEN -q ELSE q
  BY <1>4, <1>5, <1>6 DEF divsi3
<1> QED BY <1>7 DEF q
-----------------------------------------------------------------------------
(* The cosine *)

\* The angle is reduced to less than a turn, from any angle, by whole turns
\* (fp_q16.h:287-304).
LEMMA TurnReduced ==
  ASSUME NEW x \in Nat
  PROVE  InOneTurn(x) \in Nat /\ InOneTurn(x) < TWO_PI /\ \E k \in Int : InOneTurn(x) = x - k * TWO_PI
<1> DEFINE q == fp_div(x, TWO_PI)
           n == Whole(q)
           rest == x - fp_mul(Fixed(n), TWO_PI)
<1> DEFINE y == TWO_PI * q - x * ONE
<1>1. q \in Int /\ 2 * Magnitude(y) <= Magnitude(TWO_PI)
    BY QuotientRounds DEF TWO_PI
<1> HIDE DEF q
<1>2. y \in Int /\ y = 411775 * q - 65536 * x
    BY <1>1 DEF TWO_PI, ONE
<1> HIDE DEF y
<1>3. 2 * y <= 411775 /\ -411775 <= 2 * y
    BY <1>1, <1>2 DEF TWO_PI, Magnitude
<1>4. n \in Int /\ 65536 * n <= q /\ q <= 65536 * n + 65535
  <2>1. Splits(q, ONE, n, q % ONE)
      BY <1>1, Words, Zenon DEF Whole
  <2> HIDE DEF n
  <2> QED BY <1>1, <2>1 DEF Splits, ONE
<1> HIDE DEF n
<1>5. rest \in Int /\ rest = x - 411775 * n
  <2>1. fp_mul(Fixed(n), 411775) = 411775 * n
      BY <1>4, WholeProduct
  <2> QED BY <1>4, <2>1 DEF TWO_PI
<1> HIDE DEF rest
<1>6. rest > -TWO_PI /\ rest < TWO_PI
  <2>1. 65536 * rest = 411775 * (q - 65536 * n) - y
      BY <1>1, <1>2, <1>4, <1>5
  <2> DEFINE m == q - 65536 * n
  <2>2. m \in Int /\ 0 <= m /\ m <= 65535
    <3>1. q \in Int /\ n \in Int
        BY <1>1, <1>4
    <3>2. 65536 * n <= q /\ q <= 65536 * n + 65535
        BY <1>4
    <3> QED BY <3>1, <3>2
  <2>3. 65536 * rest = 411775 * m - y
      BY <2>1
  <2> HIDE DEF m
  <2>4. y \in Int /\ rest \in Int
      BY <1>2, <1>5
  <2>5. y <= 205887 /\ -205887 <= y
      BY <1>3, <2>4
  <2>6. 411775 * m <= 26985674625 /\ 0 <= 411775 * m /\ 411775 * m \in Int
      BY <2>2
  <2>7. 65536 * rest <= 26985880512 /\ -205887 <= 65536 * rest
      BY <2>3, <2>4, <2>5, <2>6
  <2> QED BY <2>4, <2>7 DEF TWO_PI
<1>7. InOneTurn(x) = IF x < TWO_PI THEN x ELSE IF rest < 0 THEN rest + TWO_PI ELSE rest
    BY DEF InOneTurn, rest, n, q
<1>8. CASE x < TWO_PI
  <2>1. x = x - 0 * TWO_PI
      BY DEF TWO_PI
  <2>2. InOneTurn(x) = x
      BY <1>7, <1>8
  <2>3. x \in Nat /\ x < TWO_PI
      BY <1>8 DEF TWO_PI
  <2> QED BY <2>1, <2>2, <2>3
<1>9. CASE ~ (x < TWO_PI) /\ rest < 0
  <2>1. n - 1 \in Int /\ rest + TWO_PI = x - (n - 1) * TWO_PI
      BY <1>4, <1>5 DEF TWO_PI
  <2>2. InOneTurn(x) = rest + TWO_PI
      BY <1>7, <1>9
  <2>3. rest + TWO_PI \in Nat /\ rest + TWO_PI < TWO_PI
      BY <1>5, <1>6, <1>9 DEF TWO_PI
  <2> QED BY <2>1, <2>2, <2>3
<1>10. CASE ~ (x < TWO_PI) /\ ~ (rest < 0)
  <2>1. rest = x - n * TWO_PI
      BY <1>4, <1>5 DEF TWO_PI
  <2>2. InOneTurn(x) = rest
      BY <1>7, <1>10
  <2>3. rest \in Nat /\ rest < TWO_PI
      BY <1>5, <1>6, <1>10 DEF TWO_PI
  <2> QED BY <1>4, <2>1, <2>2, <2>3
<1> QED BY <1>8, <1>9, <1>10

LEMMA PowersOfTwo ==
  ASSUME NEW i \in 0 .. 15
  PROVE  2 ^ i \in Nat \ {0}
<1>1. /\ 2 ^ 0 \in Nat \ {0} /\ 2 ^ 1 \in Nat \ {0} /\ 2 ^ 2 \in Nat \ {0}
      /\ 2 ^ 3 \in Nat \ {0} /\ 2 ^ 4 \in Nat \ {0} /\ 2 ^ 5 \in Nat \ {0}
      /\ 2 ^ 6 \in Nat \ {0} /\ 2 ^ 7 \in Nat \ {0}
    OBVIOUS
<1>2. /\ 2 ^ 8 \in Nat \ {0} /\ 2 ^ 9 \in Nat \ {0} /\ 2 ^ 10 \in Nat \ {0}
      /\ 2 ^ 11 \in Nat \ {0} /\ 2 ^ 12 \in Nat \ {0} /\ 2 ^ 13 \in Nat \ {0}
      /\ 2 ^ 14 \in Nat \ {0} /\ 2 ^ 15 \in Nat \ {0}
    OBVIOUS
<1>3. \/ i = 0 \/ i = 1 \/ i = 2 \/ i = 3 \/ i = 4 \/ i = 5 \/ i = 6 \/ i = 7
      \/ i = 8 \/ i = 9 \/ i = 10 \/ i = 11 \/ i = 12 \/ i = 13 \/ i = 14 \/ i = 15
    OBVIOUS
<1> QED BY <1>1, <1>2, <1>3, Zenon

LEMMA AngleTable ==
  ASSUME NEW i \in 1 .. 16
  PROVE  cordic_atan_table[i] \in Int
<1>1. \/ i = 1 \/ i = 2 \/ i = 3 \/ i = 4 \/ i = 5 \/ i = 6 \/ i = 7 \/ i = 8
      \/ i = 9 \/ i = 10 \/ i = 11 \/ i = 12 \/ i = 13 \/ i = 14 \/ i = 15 \/ i = 16
    OBVIOUS
<1> QED BY <1>1 DEF cordic_atan_table

Turns == [v \in Vector |-> IF v.i = 16 THEN v ELSE Turned(v)]
Found == {v \in Vector : v.i = 16}

\* A rotation makes a vector of a vector.
LEMMA TurnTypes == Turns \in [Vector -> Vector]
<1> SUFFICES ASSUME NEW v \in Vector PROVE Turns[v] \in Vector
    BY DEF Turns
<1>1. v.i \in 0 .. 16 /\ v.x \in Int /\ v.y \in Int /\ v.z \in Int
    BY DEF Vector
<1>2. CASE v.i = 16
    BY <1>2 DEF Turns
<1>3. CASE v.i # 16
  <2> DEFINE d == IF v.z >= 0 THEN 1 ELSE -1
             p == 2 ^ v.i
             a == cordic_atan_table[v.i + 1]
  <2>1. v.i \in 0 .. 15 /\ v.i + 1 \in 1 .. 16
      BY <1>1, <1>3
  <2>2. p \in Nat \ {0} /\ a \in Int
      BY <2>1, PowersOfTwo, AngleTable
  <2>3. Turns[v] = [i |-> v.i + 1, x |-> v.x - d * (v.y \div p),
                    y |-> v.y + d * (v.x \div p), z |-> v.z - d * a]
      BY <1>3 DEF Turns, Turned
  <2>4. d \in Int
      OBVIOUS
  <2> HIDE DEF d, p, a
  <2>5. v.y \div p \in Int /\ v.x \div p \in Int
      BY <1>1, <2>2
  <2>6. /\ v.x - d * (v.y \div p) \in Int /\ v.y + d * (v.x \div p) \in Int
        /\ v.z - d * a \in Int
      BY <1>1, <2>2, <2>4, <2>5
  <2>7. v.i + 1 \in 0 .. 16
      BY <2>1
  <2> QED BY <2>3, <2>6, <2>7 DEF Vector
<1> QED BY <1>2, <1>3

\* Rotate is the loop of the rotations.
LEMMA RotateLoops ==
  \A v \in Vector : Rotate[v] = IF v \in Found THEN v ELSE Rotate[Turns[v]]
<1> DEFINE Body(f) == [v \in Vector |-> IF v.i = 16 THEN v ELSE f[Turned(v)]]
<1>1. PICK f : f = [v \in Vector |-> IF v \in Found THEN v ELSE f[Turns[v]]]
  <2>1. Turns \in [Vector -> Vector] /\ Found \in SUBSET Vector
      BY TurnTypes DEF Found
  <2> QED BY <2>1, LoopDefined
<1>2. f = Body(f)
  <2>1. \A v \in Vector : f[v] = IF v \in Found THEN v ELSE f[Turns[v]]
      BY <1>1
  <2>2. f = [v \in Vector |-> f[v]]
      BY <1>1
  <2>3. \A v \in Vector : f[v] = Body(f)[v]
      BY <2>1 DEF Found, Turns
  <2> QED BY <2>2, <2>3
<1>3. Rotate = Body(Rotate)
  <2>1. Rotate = CHOOSE g : g = Body(g)
      BY DEF Rotate
  <2> HIDE DEF Body
  <2> QED BY <1>2, <2>1
<1> QED BY <1>3 DEF Found, Turns

\* The rotations end, from any angle, and with a word.
LEMMA RotationEnds == ASSUME NEW angle \in Int PROVE fp_cos_cordic(angle) \in Int
<1> DEFINE m == [v \in Vector |-> 16 - v.i]
           start == [i |-> 0, x |-> 39797, y |-> 0, z |-> angle]
<1>1. start \in Vector
    BY DEF Vector
<1>2. IsLoop(Rotate, Vector, Turns, Found)
    BY TurnTypes, RotateLoops DEF IsLoop, Found
<1>3. GoesDown(m, Vector, Turns, Found)
  <2>1. m \in [Vector -> Nat]
    <3>1. \A v \in Vector : v.i \in 0 .. 16
        BY DEF Vector
    <3> QED BY <3>1
  <2>2. ASSUME NEW v \in Vector \ Found PROVE m[Turns[v]] < m[v]
    <3>1. v.i \in 0 .. 16 /\ v.i # 16
        BY DEF Vector, Found
    <3>2. Turns[v] \in Vector /\ Turns[v].i = v.i + 1
        BY <3>1, TurnTypes DEF Turns, Turned
    <3> QED BY <3>1, <3>2
  <2> HIDE DEF m
  <2> QED BY <2>1, <2>2 DEF GoesDown
<1>4. IsKept(Vector, Vector, Turns, Found)
    BY TurnTypes DEF IsKept
<1> HIDE DEF m
<1>5. Rotate[start] \in Vector
    BY <1>1, <1>2, <1>3, <1>4, LoopEnds
<1> QED BY <1>5 DEF fp_cos_cordic, Vector

\* Whatever the angle, the rotations start from one of the first quarter, as their
\* comment asks for (fp_q16.h:225-226, 283-323).
THEOREM CosineReduces ==
  \A angle \in Int :
    /\ fp_cos(angle) \in Int
    /\ \E x \in Nat : /\ x <= HALF_PI
                     /\ fp_cos(angle) \in {fp_cos_cordic(x), - fp_cos_cordic(x)}
<1> SUFFICES ASSUME NEW angle \in Int
             PROVE  /\ fp_cos(angle) \in Int
                    /\ \E x \in Nat :
                         /\ x <= HALF_PI
                         /\ fp_cos(angle) \in {fp_cos_cordic(x), - fp_cos_cordic(x)}
    OBVIOUS
<1> DEFINE y == InOneTurn(Magnitude(angle))
           x == FoldTurn(y)
<1>1. y \in Nat /\ y < TWO_PI
  <2>1. Magnitude(angle) \in Nat
      BY DEF Magnitude
  <2> QED BY <2>1, TurnReduced
<1> HIDE DEF y
<1>2. x \in Nat /\ x <= PI
    BY <1>1 DEF FoldTurn, PI, TWO_PI
<1>3. fp_cos(angle) = IF x > HALF_PI THEN - fp_cos_cordic(PI - x) ELSE fp_cos_cordic(x)
    BY DEF fp_cos, y
<1> HIDE DEF x
<1>4. CASE x > HALF_PI
  <2>1. PI - x \in Nat /\ PI - x <= HALF_PI
      BY <1>2, <1>4 DEF PI, HALF_PI
  <2>2. fp_cos_cordic(PI - x) \in Int
      BY <2>1, RotationEnds
  <2>3. fp_cos(angle) = - fp_cos_cordic(PI - x)
      BY <1>3, <1>4
  <2> DEFINE c == fp_cos_cordic(PI - x)
  <2>4. - c \in Int
      BY <2>2
  <2> QED BY <2>1, <2>3, <2>4
<1>5. CASE ~ (x > HALF_PI)
  <2>1. x <= HALF_PI
      BY <1>2, <1>5 DEF HALF_PI
  <2>2. fp_cos(angle) = fp_cos_cordic(x)
      BY <1>3, <1>5
  <2>3. fp_cos_cordic(x) \in Int
      BY <1>2, RotationEnds
  <2> QED BY <1>2, <2>1, <2>2, <2>3
<1> QED BY <1>4, <1>5

\* The computed sequence holds the cosines of the first quarter.
LEMMA QuarterHolds == \A x \in Nat : x <= HALF_PI => Quarter[x + 1] = fp_cos_cordic(x)
<1> DEFINE n == HALF_PI + 1
           s == [k \in 1 .. n |-> fp_cos_cordic(k - 1)]
<1>1. HALF_PI \in Nat /\ n \in Nat
    BY DEF HALF_PI
<1>2. s \in Seq(Int)
  <2>1. \A k \in 1 .. n : k - 1 \in Int
      OBVIOUS
  <2>2. s \in [1 .. n -> Int]
      BY <2>1, RotationEnds
  <2> HIDE DEF s
  <2> QED BY <1>1, <2>2, IsASeq
<1>3. Quarter = s
  <2>1. Quarter = s \o <<>>
      BY DEF Quarter
  <2> HIDE DEF s
  <2> QED BY <1>2, <2>1, ConcatEmptySeq
<1> SUFFICES ASSUME NEW x \in Nat, x <= HALF_PI PROVE s[x + 1] = fp_cos_cordic(x)
    BY <1>3
<1>4. x + 1 \in 1 .. n /\ (x + 1) - 1 = x
    BY <1>1
<1> QED BY <1>4

\* What was computed, of the cosine itself: over a span it falls, by little more.
LEMMA SpansFall ==
  ASSUME NEW x \in Nat, NEW span \in Spans, x + span <= HALF_PI
  PROVE  /\ span \in Nat
         /\ 0 <= fp_cos_cordic(x) - fp_cos_cordic(x + span)
         /\ fp_cos_cordic(x) - fp_cos_cordic(x + span) <= span + 20
<1>1. span \in Nat
    BY DEF Spans
<1>2. HALF_PI \in Nat
    BY DEF HALF_PI
<1>3. x + 1 \in 1 .. HALF_PI + 1 - span /\ x + 1 + span = x + span + 1 /\ x <= HALF_PI
      /\ x + span \in Nat
    BY <1>1, <1>2
<1>4. Quarter[x + 1] - Quarter[x + 1 + span] \in 0 .. span + 20
    BY <1>3, QuarterComputed DEF Falls
<1>5. Quarter[x + 1] = fp_cos_cordic(x) /\ Quarter[x + 1 + span] = fp_cos_cordic(x + span)
    BY <1>3, QuarterHolds
<1>6. fp_cos_cordic(x) - fp_cos_cordic(x + span) \in 0 .. span + 20
    BY <1>4, <1>5
<1> QED BY <1>1, <1>6

\* The same where a digit may be zero.
LEMMA DigitFalls ==
  ASSUME NEW x \in Nat, NEW y \in Nat, y <= HALF_PI,
         \E digit \in 0 .. 63, place \in {1, 64, 4096} : y = x + digit * place
  PROVE  /\ 0 <= fp_cos_cordic(x) - fp_cos_cordic(y)
         /\ fp_cos_cordic(x) - fp_cos_cordic(y) <= y - x + 20
<1>1. PICK digit \in 0 .. 63, place \in {1, 64, 4096} : y = x + digit * place
    OBVIOUS
<1>2. CASE digit = 0
  <2>1. x = y
      BY <1>1, <1>2
  <2>2. fp_cos_cordic(x) \in Int
      BY RotationEnds
  <2> QED BY <2>1, <2>2
<1>3. CASE digit # 0
  <2> DEFINE span == digit * place
  <2>1. span \in Spans
    <3>1. digit \in 1 .. 63
        BY <1>3
    <3> QED BY <3>1 DEF Spans
  <2>2. y = x + span
      BY <1>1
  <2> HIDE DEF span
  <2>3. /\ span \in Nat /\ 0 <= fp_cos_cordic(x) - fp_cos_cordic(y)
        /\ fp_cos_cordic(x) - fp_cos_cordic(y) <= span + 20
      BY <2>1, <2>2, SpansFall
  <2>4. span = y - x
      BY <2>2, <2>3
  <2> QED BY <2>3, <2>4
<1> QED BY <1>2, <1>3

\* Over any distance in the first quarter.
LEMMA QuarterFalls ==
  ASSUME NEW x \in Nat, NEW y \in Nat, x <= y, y <= HALF_PI
  PROVE  /\ 0 <= fp_cos_cordic(x) - fp_cos_cordic(y)
         /\ fp_cos_cordic(x) - fp_cos_cordic(y) <= y - x + 60
<1> DEFINE d == y - x
           rest == d \div 64
           low == d % 64   mid == rest % 64   high == rest \div 64
<1>1. d \in Nat /\ d <= 102944
    BY DEF HALF_PI
<1>2. rest \in Nat /\ low \in 0 .. 63 /\ d = 64 * rest + low /\ rest <= 1608
  <2> HIDE DEF d
  <2> QED BY <1>1
<1> HIDE DEF rest, low, d
<1>3. mid \in 0 .. 63 /\ high \in 0 .. 63 /\ rest = 64 * high + mid
    BY <1>2
<1> HIDE DEF mid, high
<1> DEFINE a == x + low * 1   b == a + mid * 64   c == b + high * 4096
<1>4. a \in Nat /\ b \in Nat /\ c \in Nat /\ a <= b /\ b <= c
    BY <1>2, <1>3
<1>5. c = y
    BY <1>1, <1>2, <1>3 DEF d
<1>6. a <= HALF_PI /\ b <= HALF_PI /\ c <= HALF_PI
  <2>1. HALF_PI \in Nat
      BY DEF HALF_PI
  <2> HIDE DEF a, b, c
  <2> QED BY <1>4, <1>5, <2>1
<1> DEFINE cx == fp_cos_cordic(x)   ca == fp_cos_cordic(a)
           cb == fp_cos_cordic(b)   cc == fp_cos_cordic(c)
<1>7. 0 <= cx - ca /\ cx - ca <= a - x + 20
  <2>1. \E digit \in 0 .. 63, place \in {1, 64, 4096} : a = x + digit * place
      BY <1>2
  <2> HIDE DEF a
  <2> QED BY <1>4, <1>6, <2>1, DigitFalls
<1>8. 0 <= ca - cb /\ ca - cb <= b - a + 20
  <2> HIDE DEF a
  <2>1. \E digit \in 0 .. 63, place \in {1, 64, 4096} : b = a + digit * place
      BY <1>3
  <2> HIDE DEF b
  <2> QED BY <1>4, <1>6, <2>1, DigitFalls
<1>9. 0 <= cb - cc /\ cb - cc <= c - b + 20
  <2> HIDE DEF a, b
  <2>1. \E digit \in 0 .. 63, place \in {1, 64, 4096} : c = b + digit * place
      BY <1>3
  <2> HIDE DEF c
  <2> QED BY <1>4, <1>6, <2>1, DigitFalls
<1>10. cx \in Int /\ ca \in Int /\ cb \in Int /\ cc \in Int
  <2> HIDE DEF a, b, c
  <2> QED BY <1>4, RotationEnds
<1> HIDE DEF a, b, c, cx, ca, cb, cc
<1>11. 0 <= cx - cc /\ cx - cc <= y - x + 60
    BY <1>4, <1>5, <1>7, <1>8, <1>9, <1>10
<1> QED BY <1>5, <1>11 DEF cx, cc

\* The cosine never leaves its range.
LEMMA QuarterBounds ==
  ASSUME NEW x \in Nat, x <= HALF_PI
  PROVE  /\ fp_cos_cordic(x) \in Int /\ 0 <= fp_cos_cordic(x) /\ fp_cos_cordic(x) <= ONE
         /\ fp_cos_cordic(HALF_PI) \in 0 .. 20
<1>1. 0 \in Nat /\ HALF_PI \in Nat /\ 0 <= HALF_PI /\ 0 <= x
    BY DEF HALF_PI
<1>2. fp_cos_cordic(0) = ONE /\ fp_cos_cordic(HALF_PI) \in 0 .. 20
  <2>1. Quarter[0 + 1] = fp_cos_cordic(0) /\ Quarter[HALF_PI + 1] = fp_cos_cordic(HALF_PI)
      BY <1>1, QuarterHolds
  <2> QED BY <2>1, QuarterComputed DEF Falls
<1>3. fp_cos_cordic(x) \in Int /\ fp_cos_cordic(0) \in Int
    BY <1>1, RotationEnds
<1>4. 0 <= fp_cos_cordic(0) - fp_cos_cordic(x)
    BY <1>1, QuarterFalls
<1>5. 0 <= fp_cos_cordic(x) - fp_cos_cordic(HALF_PI)
    BY <1>1, QuarterFalls
<1> QED BY <1>2, <1>3, <1>4, <1>5

\* The cosine of an angle of the first half turn.
HalfTurn(x) == IF x > HALF_PI THEN - fp_cos_cordic(PI - x) ELSE fp_cos_cordic(x)

\* On half a turn the cosine stays within one.
LEMMA HalfTurnBounds ==
  ASSUME NEW x \in Nat, x <= PI
  PROVE  HalfTurn(x) \in Int /\ -ONE <= HalfTurn(x) /\ HalfTurn(x) <= ONE
<1>1. CASE x > HALF_PI
  <2>1. PI - x \in Nat /\ PI - x <= HALF_PI
      BY <1>1 DEF PI, HALF_PI
  <2> DEFINE c == fp_cos_cordic(PI - x)
  <2>2. c \in Int /\ 0 <= c /\ c <= ONE
      BY <2>1, QuarterBounds
  <2>3. HalfTurn(x) = - c
      BY <1>1 DEF HalfTurn
  <2> HIDE DEF c
  <2> QED BY <2>2, <2>3 DEF ONE
<1>2. CASE ~ (x > HALF_PI)
  <2>1. x <= HALF_PI
      BY <1>2 DEF HALF_PI
  <2> DEFINE c == fp_cos_cordic(x)
  <2>2. c \in Int /\ 0 <= c /\ c <= ONE
      BY <2>1, QuarterBounds
  <2>3. HalfTurn(x) = c
      BY <1>2 DEF HalfTurn
  <2> HIDE DEF c
  <2> QED BY <2>2, <2>3 DEF ONE
<1> QED BY <1>1, <1>2

\* It falls all along, and over any distance by little more than that.
LEMMA HalfTurnFalls ==
  ASSUME NEW x \in Nat, NEW y \in Nat, x <= y, y <= PI
  PROVE  0 <= HalfTurn(x) - HalfTurn(y) /\ HalfTurn(x) - HalfTurn(y) <= y - x + 161
<1> DEFINE u == PI - x   v == PI - y
<1>1. CASE y <= HALF_PI
  <2>1. ~ (x > HALF_PI) /\ ~ (y > HALF_PI)
      BY <1>1 DEF HALF_PI
  <2>2. HalfTurn(x) = fp_cos_cordic(x) /\ HalfTurn(y) = fp_cos_cordic(y)
      BY <2>1 DEF HalfTurn
  <2>3. /\ 0 <= fp_cos_cordic(x) - fp_cos_cordic(y)
        /\ fp_cos_cordic(x) - fp_cos_cordic(y) <= y - x + 60
      BY <1>1, QuarterFalls
  <2>4. fp_cos_cordic(x) \in Int /\ fp_cos_cordic(y) \in Int
      BY RotationEnds
  <2> QED BY <2>2, <2>3, <2>4
<1>2. CASE x > HALF_PI
  <2>1. u \in Nat /\ v \in Nat /\ v <= u /\ u <= HALF_PI /\ u - v = y - x /\ y > HALF_PI
      BY <1>2 DEF PI, HALF_PI
  <2> HIDE DEF u, v
  <2>2. HalfTurn(x) = - fp_cos_cordic(u) /\ HalfTurn(y) = - fp_cos_cordic(v)
      BY <1>2, <2>1 DEF HalfTurn, u, v
  <2>3. /\ 0 <= fp_cos_cordic(v) - fp_cos_cordic(u)
        /\ fp_cos_cordic(v) - fp_cos_cordic(u) <= u - v + 60
      BY <2>1, QuarterFalls
  <2>4. fp_cos_cordic(u) \in Int /\ fp_cos_cordic(v) \in Int
      BY <2>1, RotationEnds
  <2> QED BY <2>1, <2>2, <2>3, <2>4
<1>3. CASE x <= HALF_PI /\ y > HALF_PI
  <2>1. /\ v \in Nat /\ v <= HALF_PI /\ HALF_PI \in Nat
        /\ (HALF_PI - x) + (HALF_PI - v) = y - x + 1
      BY <1>3 DEF PI, HALF_PI
  <2> DEFINE cx == fp_cos_cordic(x)   cv == fp_cos_cordic(v)   ch == fp_cos_cordic(HALF_PI)
  <2>2. HalfTurn(x) = cx /\ HalfTurn(y) = - cv
    <3>1. ~ (x > HALF_PI)
        BY <1>3 DEF HALF_PI
    <3> QED BY <1>3, <3>1 DEF HalfTurn
  <2>3. cx - ch <= HALF_PI - x + 60
      BY <1>3, <2>1, QuarterFalls
  <2> HIDE DEF v
  <2>4. cv - ch <= HALF_PI - v + 60
      BY <2>1, QuarterFalls
  <2>5. cx \in Int /\ 0 <= cx /\ ch \in 0 .. 20
      BY <1>3, QuarterBounds
  <2>6. cv \in Int /\ 0 <= cv
      BY <2>1, QuarterBounds
  <2> HIDE DEF cx, cv, ch
  <2> QED BY <2>1, <2>2, <2>3, <2>4, <2>5, <2>6
<1>4. y <= HALF_PI \/ x > HALF_PI \/ (x <= HALF_PI /\ y > HALF_PI)
    BY DEF HALF_PI
<1> QED BY <1>1, <1>2, <1>3, <1>4

\* Where an angle is on the circle: how far from the next whole turn.
Position(angle) == FoldTurn(InOneTurn(Magnitude(angle)))

IsPosition(angle, x) ==
  /\ x \in Nat /\ x <= PI
  /\ \E k \in Int : angle = x + k * TWO_PI \/ angle = - x + k * TWO_PI

\* Every angle has a place on the half turn, and its cosine is the one there.
LEMMA PositionFound ==
  ASSUME NEW angle \in Int
  PROVE  IsPosition(angle, Position(angle)) /\ fp_cos(angle) = HalfTurn(Position(angle))
<1> DEFINE m == Magnitude(angle)
           y == InOneTurn(m)
           x == FoldTurn(y)
<1>1. m \in Nat /\ (angle = m \/ angle = - m)
    BY DEF Magnitude
<1> HIDE DEF m
<1>2. y \in Nat /\ y < TWO_PI
    BY <1>1, TurnReduced
<1>3. PICK k \in Int : y = m - k * TWO_PI
    BY <1>1, TurnReduced
<1> HIDE DEF y
<1>4. x \in Nat /\ x <= PI /\ (x = y \/ x = TWO_PI - y)
    BY <1>2 DEF FoldTurn, PI, TWO_PI
<1> HIDE DEF x
<1>5. \E j \in Int : angle = x + j * TWO_PI \/ angle = - x + j * TWO_PI
  <2>1. -k \in Int /\ k + 1 \in Int /\ -(k + 1) \in Int
      OBVIOUS
  <2>2. CASE x = y /\ angle = m
    <3>1. angle = x + k * TWO_PI
        BY <1>1, <1>2, <1>3, <2>2 DEF TWO_PI
    <3> QED BY <3>1
  <2>3. CASE x = y /\ angle = - m
    <3>1. angle = - x + (-k) * TWO_PI
        BY <1>1, <1>2, <1>3, <2>3 DEF TWO_PI
    <3> QED BY <2>1, <3>1
  <2>4. CASE x = TWO_PI - y /\ angle = m
    <3>1. angle = - x + (k + 1) * TWO_PI
        BY <1>1, <1>2, <1>3, <2>4 DEF TWO_PI
    <3> QED BY <2>1, <3>1
  <2>5. CASE x = TWO_PI - y /\ angle = - m
    <3>1. angle = x + (-(k + 1)) * TWO_PI
        BY <1>1, <1>2, <1>3, <2>5 DEF TWO_PI
    <3> QED BY <2>1, <3>1
  <2> QED BY <1>1, <1>4, <2>2, <2>3, <2>4, <2>5
<1>6. Position(angle) = x
    BY DEF Position, x, y, m
<1>7. fp_cos(angle) = HalfTurn(x)
    BY DEF fp_cos, HalfTurn, x, y, m
<1> QED BY <1>4, <1>5, <1>6, <1>7 DEF IsPosition

\* Angles no further apart than d, or than d from whole turns apart, are no further
\* apart on the circle.
LEMMA PositionsFollow ==
  ASSUME NEW a \in Int, NEW b \in Int, NEW x, NEW y, IsPosition(a, x), IsPosition(b, y),
         NEW n \in Int, NEW d \in Nat, a - b + n * TWO_PI <= d, -d <= a - b + n * TWO_PI
  PROVE  x - y <= d /\ y - x <= d
<1>1. x \in Nat /\ x <= PI /\ y \in Nat /\ y <= PI
    BY DEF IsPosition
<1>2. PICK k \in Int : a = x + k * TWO_PI \/ a = - x + k * TWO_PI
    BY DEF IsPosition
<1>3. PICK j \in Int : b = y + j * TWO_PI \/ b = - y + j * TWO_PI
    BY DEF IsPosition
<1> DEFINE i == k - j + n
<1>4. i \in Int
    OBVIOUS
<1>5. \/ a - b + n * TWO_PI = x - y + i * TWO_PI
      \/ a - b + n * TWO_PI = x + y + i * TWO_PI
      \/ a - b + n * TWO_PI = - x - y + i * TWO_PI
      \/ a - b + n * TWO_PI = - x + y + i * TWO_PI
    BY <1>1, <1>2, <1>3 DEF TWO_PI
<1> DEFINE s == a - b + n * TWO_PI
<1>6. s <= d /\ -d <= s
    OBVIOUS
<1> HIDE DEF i, s
<1>7. i = 0 \/ i * TWO_PI >= TWO_PI \/ i * TWO_PI <= - TWO_PI
    BY <1>4 DEF TWO_PI
<1> DEFINE t == i * TWO_PI
<1>8. t \in Int /\ (t = 0 \/ t >= TWO_PI \/ t <= - TWO_PI)
    BY <1>4, <1>7 DEF TWO_PI
<1>9. s = x - y + t \/ s = x + y + t \/ s = - x - y + t \/ s = - x + y + t
    BY <1>5 DEF s
<1> HIDE DEF t
<1> QED BY <1>1, <1>6, <1>8, <1>9 DEF TWO_PI, PI

\* The cosine stays in its range and changes no faster than the angle, but for its
\* lowest bits, also from one turn to the next (fp_q16.h:225-323).
THEOREM CosineFollows ==
  \A a \in Int, b \in Int, n \in Int, d \in Nat :
    Magnitude(a - b + n * TWO_PI) <= d
      => /\ Magnitude(fp_cos(a)) <= ONE
         /\ Magnitude(fp_cos(a) - fp_cos(b)) <= d + 161
<1> SUFFICES ASSUME NEW a \in Int, NEW b \in Int, NEW n \in Int, NEW d \in Nat,
                    Magnitude(a - b + n * TWO_PI) <= d
             PROVE  /\ Magnitude(fp_cos(a)) <= ONE
                    /\ Magnitude(fp_cos(a) - fp_cos(b)) <= d + 161
    OBVIOUS
<1> DEFINE s == a - b + n * TWO_PI   x == Position(a)   y == Position(b)
<1>1. s \in Int /\ s <= d /\ -d <= s
  <2>1. s \in Int
      BY DEF TWO_PI
  <2>2. Magnitude(s) <= d
      OBVIOUS
  <2> HIDE DEF s
  <2> QED BY <2>1, <2>2 DEF Magnitude
<1>2. IsPosition(a, x) /\ IsPosition(b, y) /\ fp_cos(a) = HalfTurn(x) /\ fp_cos(b) = HalfTurn(y)
    BY PositionFound
<1> HIDE DEF x, y
<1>3. x \in Nat /\ x <= PI /\ y \in Nat /\ y <= PI
    BY <1>2 DEF IsPosition
<1>4. x - y <= d /\ y - x <= d
    BY <1>1, <1>2, PositionsFollow
<1> DEFINE cx == HalfTurn(x)   cy == HalfTurn(y)
<1>5. cx \in Int /\ -ONE <= cx /\ cx <= ONE /\ cy \in Int
    BY <1>3, HalfTurnBounds
<1>6. cx - cy <= d + 161 /\ cy - cx <= d + 161
  <2>1. CASE x <= y
    <3>1. 0 <= cx - cy /\ cx - cy <= y - x + 161
        BY <1>3, <2>1, HalfTurnFalls
    <3> HIDE DEF cx, cy
    <3> QED BY <1>3, <1>4, <1>5, <3>1
  <2>2. CASE y <= x
    <3>1. 0 <= cy - cx /\ cy - cx <= x - y + 161
        BY <1>3, <2>2, HalfTurnFalls
    <3> HIDE DEF cx, cy
    <3> QED BY <1>3, <1>4, <1>5, <3>1
  <2> QED BY <1>3, <2>1, <2>2
<1>7. fp_cos(a) = cx /\ fp_cos(b) = cy
    BY <1>2
<1> HIDE DEF cx, cy
<1>8. Magnitude(cx) <= ONE
    BY <1>5 DEF Magnitude, ONE
<1>9. Magnitude(cx - cy) <= d + 161
    BY <1>5, <1>6 DEF Magnitude
<1> QED BY <1>7, <1>8, <1>9
-----------------------------------------------------------------------------
(* A frame and the next *)

\* What a frame is made of, by the gene's fields and the count of frames.
TurnOf(ratedir, n, i) ==
  LET turned == (n % 512) * (ratedir % 16)
      offset == (128 \div (COUNT \div 2)) * i
  IN (IF (ratedir \div 16) % 16 > 10 THEN offset - turned ELSE offset + turned) % 512

HueBefore(b, t) ==
  LET slope == fp_div(Fixed(b[2] - b[1]), Fixed(255))
  IN Whole(fp_mul(slope, Fixed(t)) + Fixed(b[1]))

HueOf(b, ratedir, n, i) == HueBefore(b, Folded(TurnOf(ratedir, n, i))) % 256

\* The hue as a function of what it depends on.
LEMMA HueIs == ASSUME NEW i PROVE Hue(i) = HueOf(band, expressed.hue_ratedir, loop_state, i)
  BY DEF Hue, hue_temp, hue_dir, HueOf, HueBefore, TurnOf

\* A step of at most 15 along the 512 positions closes the loop at most once.
LEMMA TurnsOn ==
  ASSUME NEW x \in Int, NEW y \in Int, NEW r \in 0 .. 15, NEW m \in Int, y = x + r - 512 * m
  PROVE  y % 512 = (x % 512) + r \/ y % 512 = (x % 512) + r - 512
OBVIOUS

TurnsBy(p, q, r) ==
  /\ p \in 0 .. 511 /\ q \in 0 .. 511
  /\ q = p + r \/ q = p + r - 512 \/ p = q + r \/ p = q + r - 512

\* From one frame to the next a pixel's place on the way along the band and back
\* goes on by the rate, also where the loop of 512 positions closes.
LEMMA TurnFollows ==
  ASSUME NEW ratedir \in Byte, NEW n \in Nat, NEW i \in Pixel
  PROVE  TurnsBy(TurnOf(ratedir, n, i), TurnOf(ratedir, n + 1, i), ratedir % 16)
<1> DEFINE r == ratedir % 16
           a == n % 512   b == (n + 1) % 512
           offset == (128 \div (COUNT \div 2)) * i
           ar == a * r   br == b * r
           p == TurnOf(ratedir, n, i)   q == TurnOf(ratedir, n + 1, i)
<1>1. r \in 0 .. 15
    BY DEF Byte
<1>2. offset \in Int
    BY DEF Pixel, COUNT, LEDS, LED_OFFSET
<1>3. a \in 0 .. 511 /\ b \in 0 .. 511 /\ (b = a + 1 \/ (a = 511 /\ b = 0))
    OBVIOUS
<1>4. \/ /\ p = (offset - ar) % 512 /\ q = (offset - br) % 512
      \/ /\ p = (offset + ar) % 512 /\ q = (offset + br) % 512
    BY DEF TurnOf
<1> HIDE DEF r, a, b, offset, p, q
<1>5. ar \in Int /\ br \in Int
    BY <1>1, <1>3
<1>6. br = ar + r - 512 * 0 \/ br = ar + r - 512 * r
  <2>1. CASE b = a + 1
    <3>1. (a + 1) * r = a * r + r
        BY <1>1, <1>3
    <3> QED BY <1>1, <2>1, <3>1
  <2>2. CASE a = 511 /\ b = 0
    <3>1. 511 * r = 512 * r - r /\ 0 * r = 0
        BY <1>1
    <3> QED BY <1>1, <2>2, <3>1
  <2> QED BY <1>3, <2>1, <2>2
<1> HIDE DEF ar, br
<1>7. PICK m \in {0, r} : br = ar + r - 512 * m
    BY <1>6, Zenon
<1>8. m \in Int
    BY <1>1
<1>9. CASE p = (offset - ar) % 512 /\ q = (offset - br) % 512
  <2> DEFINE x == offset - br   y == offset - ar
  <2>1. x \in Int /\ y \in Int /\ y = x + r - 512 * m
      BY <1>1, <1>2, <1>5, <1>7, <1>8
  <2>2. p = y % 512 /\ q = x % 512
      BY <1>9
  <2> HIDE DEF x, y
  <2>3. p = q + r \/ p = q + r - 512
      BY <1>1, <2>1, <2>2, TurnsOn
  <2>4. p \in 0 .. 511 /\ q \in 0 .. 511
      BY <2>1, <2>2
  <2>5. TurnsBy(p, q, r)
      BY <2>3, <2>4 DEF TurnsBy
  <2> QED BY <2>5 DEF p, q, r
<1>10. CASE p = (offset + ar) % 512 /\ q = (offset + br) % 512
  <2> DEFINE x == offset + ar   y == offset + br
  <2>1. x \in Int /\ y \in Int /\ y = x + r - 512 * m
      BY <1>1, <1>2, <1>5, <1>7, <1>8
  <2>2. p = x % 512 /\ q = y % 512
      BY <1>10
  <2> HIDE DEF x, y
  <2>3. q = p + r \/ q = p + r - 512
      BY <1>1, <2>1, <2>2, TurnsOn
  <2>4. p \in 0 .. 511 /\ q \in 0 .. 511
      BY <2>1, <2>2
  <2>5. TurnsBy(p, q, r)
      BY <2>3, <2>4 DEF TurnsBy
  <2> QED BY <2>5 DEF p, q, r
<1> QED BY <1>4, <1>9, <1>10

\* Out along the band and back, a step is no longer than on the loop.
LEMMA FoldedFollows ==
  ASSUME NEW p, NEW q, NEW r \in 0 .. 15, TurnsBy(p, q, r)
  PROVE  /\ Folded(p) \in 0 .. 255 /\ Folded(q) \in 0 .. 255
         /\ Folded(p) - Folded(q) <= r /\ Folded(q) - Folded(p) <= r
  BY DEF Folded, TurnsBy

\* The ends of a band are bytes.
LEMMA BandBytes ==
  ASSUME NEW b \in Byte \X Byte
  PROVE  b[1] \in 0 .. 255 /\ b[2] \in 0 .. 255 /\ b[2] - b[1] \in -255 .. 255
<1> DEFINE x == b[1]   y == b[2]
<1>1. x \in 0 .. 255 /\ y \in 0 .. 255
    BY DEF Byte
<1> HIDE DEF x, y
<1>2. y - x \in -255 .. 255
    BY <1>1
<1> QED BY <1>1, <1>2 DEF x, y

IsSlope(d, slope) == slope \in Int /\ 255 * slope - 65536 * d \in -127 .. 127

\* The slope of the band is rounded to nearest.
LEMMA SlopeRounds ==
  ASSUME NEW d \in -255 .. 255
  PROVE  IsSlope(d, fp_div(Fixed(d), Fixed(255)))
<1> DEFINE slope == fp_div(Fixed(d), Fixed(255))
<1>1. Fixed(d) \in Int /\ Fixed(255) \in Int \ {0} /\ Fixed(d) = 65536 * d /\ Fixed(255) = 16711680
    BY DEF Fixed, ONE
<1>2. /\ slope \in Int
      /\ 2 * Magnitude(Fixed(255) * slope - Fixed(d) * ONE) <= Magnitude(Fixed(255))
    BY <1>1, QuotientRounds
<1> HIDE DEF slope
<1> DEFINE y == 255 * slope - 65536 * d   z == Fixed(255) * slope - Fixed(d) * ONE
<1>3. y \in Int /\ z = 65536 * y
    BY <1>1, <1>2 DEF ONE
<1>4. 2 * Magnitude(z) <= 16711680
    BY <1>1, <1>2 DEF Magnitude
<1> HIDE DEF y, z
<1>5. 2 * (65536 * y) <= 16711680 /\ -16711680 <= 2 * (65536 * y)
    BY <1>3, <1>4 DEF Magnitude
<1>6. y \in -127 .. 127
    BY <1>3, <1>5
<1> QED BY <1>2, <1>6 DEF IsSlope, slope, y

\* A hue is a point of a line, rounded down.
RoundsTo(slope, t, x, hue) ==
  /\ slope \in Int /\ hue \in Int
  /\ 65536 * hue <= slope * t + 65536 * x
  /\ slope * t + 65536 * x <= 65536 * hue + 65535

\* The hue before it is made a byte.
LEMMA HueRounds ==
  ASSUME NEW b \in Byte \X Byte, NEW t \in 0 .. 255
  PROVE  RoundsTo(fp_div(Fixed(b[2] - b[1]), Fixed(255)), t, b[1], HueBefore(b, t))
<1> DEFINE slope == fp_div(Fixed(b[2] - b[1]), Fixed(255))
           hue == HueBefore(b, t)
           z == slope * t + 65536 * b[1]
<1>1. b[1] \in Int /\ b[2] \in Int /\ b[2] - b[1] \in -255 .. 255
  <2>1. b[1] \in 0 .. 255 /\ b[2] \in 0 .. 255 /\ b[2] - b[1] \in -255 .. 255
      BY BandBytes, Zenon
  <2> HIDE DEF slope, hue, z
  <2> QED BY <2>1
<1>2. slope \in Int
  <2> DEFINE d == b[2] - b[1]
  <2>1. d \in -255 .. 255
      BY <1>1
  <2> HIDE DEF d
  <2>2. Fixed(d) \in Int /\ Fixed(255) \in Int \ {0}
      BY <2>1 DEF Fixed, ONE
  <2>3. fp_div(Fixed(d), Fixed(255)) \in Int
      BY <2>2, QuotientRounds
  <2> QED BY <2>3 DEF d
<1> HIDE DEF slope
<1>3. slope * t \in Int
    BY <1>2
<1>4. z \in Int
    BY <1>1, <1>3
<1>5. fp_mul(slope, Fixed(t)) = slope * t /\ Fixed(b[1]) = 65536 * b[1]
    BY <1>1, <1>2, WholeProduct DEF Fixed, ONE
<1>6. hue = z \div ONE
    BY <1>5 DEF HueBefore, Whole, slope
<1> HIDE DEF hue, z
<1>7. Splits(z, ONE, hue, z % ONE)
    BY <1>4, <1>6, Words, Zenon
<1>8. hue \in Int /\ 65536 * hue <= z /\ z <= 65536 * hue + 65535
    BY <1>4, <1>7 DEF Splits, ONE
<1>9. RoundsTo(slope, t, b[1], hue)
    BY <1>2, <1>8 DEF RoundsTo, z
<1> QED BY <1>9 DEF slope, hue

\* The hue keeps in the band of the gene, or one step below it, wherever it is
\* on the way.
LEMMA HueInBand ==
  ASSUME NEW b \in Byte \X Byte, NEW t \in 0 .. 255
  PROVE  LET hue == HueBefore(b, t)
         IN /\ hue \in -1 .. 255
            /\ (b[1] <= b[2] => b[1] - 1 <= hue /\ hue <= b[2])
            /\ (b[2] <= b[1] => b[2] - 1 <= hue /\ hue <= b[1])
<1> DEFINE slope == fp_div(Fixed(b[2] - b[1]), Fixed(255))
           hue == HueBefore(b, t)
           d == b[2] - b[1]
           e == 255 * slope - 65536 * d
           x == b[1]   y == b[2]
<1>1. x \in 0 .. 255 /\ y \in 0 .. 255 /\ d \in -255 .. 255
    BY BandBytes, Zenon
<1>2. d \in -255 .. 255 /\ y = x + d
  <2>1. d = y - x
      OBVIOUS
  <2> HIDE DEF slope, hue, e, x, y, d
  <2> QED BY <1>1, <2>1
<1>3. slope \in Int /\ e \in -127 .. 127
  <2> HIDE DEF d
  <2>1. IsSlope(d, fp_div(Fixed(d), Fixed(255)))
      BY <1>2, SlopeRounds, Zenon
  <2>2. IsSlope(d, slope)
      BY <2>1 DEF d
  <2> HIDE DEF slope
  <2> QED BY <2>2 DEF IsSlope
<1>4. /\ hue \in Int /\ 65536 * hue <= slope * t + 65536 * x
      /\ slope * t + 65536 * x <= 65536 * hue + 65535
  <2>1. RoundsTo(slope, t, x, hue)
      BY HueRounds, Zenon
  <2> HIDE DEF slope, hue, x
  <2> QED BY <2>1 DEF RoundsTo
<1> DEFINE st == slope * t   dt == d * t   et == e * t
<1>5. 255 * slope = 65536 * d + e
    BY <1>2, <1>3
<1> HIDE DEF slope, hue, d, e, x, y
<1>6. 255 * st = 65536 * dt + et
  <2>1. (255 * slope) * t = (65536 * d + e) * t
      BY <1>5
  <2>2. (255 * slope) * t = 255 * (slope * t)
      BY <1>3
  <2>3. (65536 * d + e) * t = 65536 * (d * t) + e * t
      BY <1>2, <1>3
  <2> QED BY <2>1, <2>2, <2>3
<1>7. et \in Int /\ -32385 <= et /\ et <= 32385
  <2>1. e * t <= 127 * t /\ -127 * t <= e * t
      BY <1>3
  <2>2. e * t \in Int
      BY <1>3
  <2> QED BY <2>1, <2>2
<1>8. dt \in Int /\ (d >= 0 => 0 <= dt /\ dt <= 255 * d) /\ (d <= 0 => dt <= 0 /\ 255 * d <= dt)
  <2>1. d * t \in Int
      BY <1>2
  <2>2. d >= 0 => 0 <= d * t /\ d * t <= d * 255
      BY <1>2
  <2>3. d <= 0 => d * t <= 0 /\ d * 255 <= d * t
      BY <1>2
  <2> QED BY <1>2, <2>1, <2>2, <2>3
<1>9. st \in Int
    BY <1>3
<1>10. 65536 * hue <= st + 65536 * x /\ st + 65536 * x <= 65536 * hue + 65535 /\ hue \in Int
    BY <1>4
<1> HIDE DEF st, dt, et
<1>11. x <= y => x - 1 <= hue /\ hue <= y
  <2> SUFFICES ASSUME x <= y PROVE x - 1 <= hue /\ hue <= y
      OBVIOUS
  <2>1. 0 <= dt /\ dt <= 255 * d
      BY <1>1, <1>2, <1>8
  <2>2. -127 <= st /\ st <= 65536 * d + 127
      BY <1>2, <1>6, <1>7, <1>8, <1>9, <2>1
  <2> QED BY <1>1, <1>2, <1>9, <1>10, <2>2
<1>12. y <= x => y - 1 <= hue /\ hue <= x
  <2> SUFFICES ASSUME y <= x PROVE y - 1 <= hue /\ hue <= x
      OBVIOUS
  <2>1. dt <= 0 /\ 255 * d <= dt
      BY <1>1, <1>2, <1>8
  <2>2. st <= 127 /\ 65536 * d - 127 <= st
      BY <1>2, <1>6, <1>7, <1>8, <1>9, <2>1
  <2> QED BY <1>1, <1>2, <1>9, <1>10, <2>2
<1>13. hue \in -1 .. 255
    BY <1>1, <1>10, <1>11, <1>12
<1> QED BY <1>11, <1>12, <1>13 DEF hue, x, y

\* One step along the band takes the hue no further than the rate's share of it.
LEMMA HueStep ==
  ASSUME NEW b \in Byte \X Byte, NEW t \in 0 .. 255, NEW u \in 0 .. 255, NEW r \in 0 .. 15,
         t - u <= r, u - t <= r
  PROVE  HueBefore(b, t) - HueBefore(b, u) <= 1 + (Magnitude(b[2] - b[1]) * r) \div 255
<1> DEFINE slope == fp_div(Fixed(b[2] - b[1]), Fixed(255))
           hue == HueBefore(b, t)   hue2 == HueBefore(b, u)
           d == b[2] - b[1]
           e == 255 * slope - 65536 * d
           x == b[1]
           width == Magnitude(d) * r   q == width \div 255
           k == t - u
<1>1. x \in 0 .. 255 /\ d \in -255 .. 255
    BY BandBytes, Zenon
<1>2. slope \in Int /\ e \in -127 .. 127
  <2> HIDE DEF d
  <2>1. IsSlope(d, fp_div(Fixed(d), Fixed(255)))
      BY <1>1, SlopeRounds, Zenon
  <2>2. IsSlope(d, slope)
      BY <2>1 DEF d
  <2> HIDE DEF slope
  <2> QED BY <2>2 DEF IsSlope
<1>3. 255 * slope = 65536 * d + e
    BY <1>1, <1>2
<1>a. RoundsTo(slope, t, x, hue) /\ RoundsTo(slope, u, x, hue2)
    BY HueRounds, Zenon
<1> HIDE DEF slope, hue, hue2, e, x
<1>4. hue \in Int /\ 65536 * hue <= slope * t + 65536 * x
    BY <1>a DEF RoundsTo
<1>5. hue2 \in Int /\ slope * u + 65536 * x <= 65536 * hue2 + 65535
    BY <1>a DEF RoundsTo
<1> DEFINE sk == slope * k   dk == d * k   ek == e * k
<1>6. slope * t - slope * u = sk
    BY <1>2
<1> DEFINE sat == slope * t   sau == slope * u
<1>7. sat \in Int /\ sau \in Int
    BY <1>2
<1>8. k \in Int /\ -r <= k /\ k <= r
    OBVIOUS
<1> HIDE DEF k
<1>9. sk \in Int /\ 255 * sk = 65536 * dk + ek
  <2>1. (255 * slope) * k = (65536 * d + e) * k
      BY <1>3
  <2>2. (255 * slope) * k = 255 * (slope * k)
      BY <1>2, <1>8
  <2>3. (65536 * d + e) * k = 65536 * (d * k) + e * k
    <3>1. d \in Int /\ e \in Int /\ k \in Int
        BY <1>1, <1>2, <1>8
    <3> QED BY <3>1
  <2>4. slope * k \in Int
      BY <1>2, <1>8
  <2> QED BY <2>1, <2>2, <2>3, <2>4
<1>10. ek \in Int /\ ek <= 1905
  <2>1. e * k \in Int
      BY <1>2, <1>8
  <2>2. k \in -15 .. 15
      BY <1>8
  <2>3. CASE e >= 0
    <3>1. e * k <= e * 15
        BY <1>2, <2>2, <2>3
    <3> QED BY <1>2, <2>1, <3>1
  <2>4. CASE e <= 0
    <3>1. e * k <= e * (-15)
        BY <1>2, <2>2, <2>4
    <3> QED BY <1>2, <2>1, <3>1
  <2> QED BY <1>2, <2>3, <2>4
<1>11. dk \in Int /\ width \in Nat /\ dk <= width
  <2>1. d * k \in Int
      BY <1>1, <1>8
  <2>2. CASE d >= 0
    <3>1. width = d * r /\ d * k <= d * r /\ d * r \in Nat
        BY <1>1, <1>8, <2>2 DEF Magnitude
    <3> QED BY <2>1, <3>1
  <2>3. CASE ~ (d >= 0)
    <3>1. width = (-d) * r /\ d * k <= d * (-r) /\ (-d) * r \in Nat /\ d * (-r) = (-d) * r
        BY <1>1, <1>8, <2>3 DEF Magnitude
    <3> QED BY <2>1, <3>1
  <2> QED BY <2>2, <2>3
<1> HIDE DEF width
<1>12. q \in Nat /\ width <= 255 * q + 254
    BY <1>11
<1> HIDE DEF d, dk, ek, q
<1>13. 255 * sk <= 65536 * (255 * q + 254) + 1905
    BY <1>9, <1>10, <1>11, <1>12
<1> HIDE DEF sk, sat, sau
<1>14. 65536 * hue - 65536 * hue2 <= sk + 65535
  <2>1. 65536 * hue <= sat + 65536 * x /\ sau + 65536 * x <= 65536 * hue2 + 65535 /\ sat - sau = sk
      BY <1>4, <1>5, <1>6 DEF sat, sau
  <2> QED BY <1>1, <1>4, <1>5, <1>7, <1>9, <2>1
<1>15. hue - hue2 <= 1 + q
    BY <1>4, <1>5, <1>9, <1>12, <1>13, <1>14
<1> QED BY <1>15 DEF hue, hue2, q, width, d

\* Two hues are as near on the circle as they were before the cast to a byte.
LEMMA AroundFollows ==
  ASSUME NEW x \in -1 .. 255, NEW y \in -1 .. 255, NEW n \in Nat, x - y <= n, y - x <= n
  PROVE  Around(x % 256, y % 256) <= n
<1>1. (x % 256 = x \/ (x = -1 /\ x % 256 = 255)) /\ (y % 256 = y \/ (y = -1 /\ y % 256 = 255))
    OBVIOUS
<1> QED BY <1>1 DEF Around, Magnitude

\* The wave at a place of the strip and a time.
Periods == 60 .. 700
PeriodOf(w) == (w.rate * 640) \div 255 + 60

TimeOf(T, t) == fp_div(fp_mul(TWO_PI, Fixed(t)), Fixed(T))

AngleOf(w, i, t) ==
  LET space == fp_mul(TWO_PI, fp_mul(Fixed(w.period), fp_div(Fixed(i), Fixed(COUNT - 1))))
  IN IF w.dir > 128 THEN space + TimeOf(PeriodOf(w), t) ELSE space - TimeOf(PeriodOf(w), t)

BrightnessAt(angle) == Whole(fp_mul(Fixed(127), ONE + fp_cos(angle)))

DimmedBy(nonlin, v) == IF nonlin > 127 THEN ((v * v) \div 256) % 256 ELSE v

ValueOf(w, nonlin, i, t) == DimmedBy(nonlin, BrightnessAt(AngleOf(w, i, t)) % 256)

\* The value as a function of what it depends on.
LEMMA ValueIs ==
  ASSUME NEW i, NEW t
  PROVE  Value(i, t) = ValueOf(wave, expressed.nonlin, i, t) /\ tau = PeriodOf(wave)
<1>1. tau = PeriodOf(wave)
    BY DEF tau, PeriodOf
<1>2. spacetime(i, t) = AngleOf(wave, i, t)
    BY <1>1 DEF spacetime, AngleOf, TimeOf
<1>3. \A v : Dimmed(v) = DimmedBy(expressed.nonlin, v)
    BY DEF Dimmed, DimmedBy
<1> QED BY <1>1, <1>2, <1>3, Zenon DEF Value, ValueOf, BrightnessAt

\* A period is 600 ms to 7 s.
LEMMA PeriodBounds == ASSUME NEW rate \in 0 .. 255 PROVE (rate * 640) \div 255 + 60 \in Periods
<1>1. (rate * 640) \div 255 \in 0 .. 640
    OBVIOUS
<1> QED BY <1>1 DEF Periods

IsTime(T, t, time) ==
  time \in Int /\ 2 * (T * time - TWO_PI * t) <= T /\ -T <= 2 * (T * time - TWO_PI * t)

\* The time of the wave is the part of the turn that has passed, to the nearest word.
LEMMA TimeRounds ==
  ASSUME NEW T \in Periods, NEW t \in Int
  PROVE  IsTime(T, t, TimeOf(T, t))
<1> USE DEF Periods
<1> DEFINE a == TWO_PI * t   time == TimeOf(T, t)   d == Fixed(T)   y == T * time - a
<1>1. a \in Int /\ TWO_PI \in Int
    BY DEF TWO_PI
<1>2. fp_mul(TWO_PI, Fixed(t)) = a
    BY <1>1, WholeProduct
<1>3. d \in Int \ {0} /\ d = 65536 * T
    BY DEF Fixed, ONE
<1>4. time = fp_div(a, d)
    BY <1>2 DEF TimeOf
<1> HIDE DEF a, d, time
<1>5. time \in Int /\ 2 * Magnitude(d * time - a * ONE) <= Magnitude(d)
    BY <1>1, <1>3, <1>4, QuotientRounds
<1> DEFINE z == d * time - a * ONE
<1>6. y \in Int /\ z = 65536 * y
  <2>1. (65536 * T) * time = 65536 * (T * time) /\ T * time \in Int
      BY <1>5
  <2> DEFINE tt == T * time
  <2> HIDE DEF tt
  <2>2. tt \in Int /\ (65536 * T) * time = 65536 * tt
      BY <2>1 DEF tt
  <2>3. z = (65536 * T) * time - a * 65536
      BY <1>3 DEF ONE
  <2>4. y = tt - a
      BY DEF tt
  <2> HIDE DEF z, y
  <2> QED BY <1>1, <2>2, <2>3, <2>4
<1>7. 2 * Magnitude(z) <= 65536 * T
    BY <1>3, <1>5 DEF Magnitude
<1> HIDE DEF y, z
<1>8. 2 * (65536 * y) <= 65536 * T /\ -(65536 * T) <= 2 * (65536 * y)
    BY <1>6, <1>7 DEF Magnitude
<1>9. 2 * y <= T /\ -T <= 2 * y
    BY <1>6, <1>8
<1> QED BY <1>5, <1>9 DEF IsTime, time, y, a

\* A frame's places in the period: n says whether the period ended between them.
AreNear(T, x, y, n) == n \in -1 .. 1 /\ x - y + n * T <= 4 /\ -4 <= x - y + n * T

IsShift(T, s) == s \in Int /\ T * s <= 1647100 + T /\ -(1647100 + T) <= T * s

\* How far the wave goes on in four steps of the clock, also over the end of its period.
LEMMA TimesFollow ==
  ASSUME NEW T \in Periods, NEW x \in Int, NEW y \in Int, NEW n, AreNear(T, x, y, n)
  PROVE  IsShift(T, TimeOf(T, x) - TimeOf(T, y) + n * TWO_PI)
<1>0. T \in 60 .. 700
    BY DEF Periods
<1> DEFINE a == TimeOf(T, x)   b == TimeOf(T, y)
           s == a - b + n * TWO_PI   k == x - y + n * T
           ta == T * a   tb == T * b
<1>14. n \in -1 .. 1 /\ x - y + n * T <= 4 /\ -4 <= x - y + n * T
    BY DEF AreNear
<1>1. IsTime(T, x, a) /\ IsTime(T, y, b)
    BY TimeRounds
<1> HIDE DEF a, b
<1>2. a \in Int /\ b \in Int
    BY <1>1 DEF IsTime
<1>3. /\ 2 * (ta - 411775 * x) <= T /\ -T <= 2 * (ta - 411775 * x)
      /\ 2 * (tb - 411775 * y) <= T /\ -T <= 2 * (tb - 411775 * y)
    BY <1>0, <1>1 DEF IsTime, TWO_PI
<1>4. ta \in Int /\ tb \in Int /\ s \in Int
    BY <1>0, <1>14, <1>2 DEF TWO_PI
<1>5. T * s = ta - tb + 411775 * (n * T)
  <2>1. CASE n = 0
      BY <1>0, <1>2, <2>1 DEF TWO_PI
  <2>2. CASE n = 1
      BY <1>0, <1>2, <2>2 DEF TWO_PI
  <2>3. CASE n = -1
      BY <1>0, <1>2, <2>3 DEF TWO_PI
  <2> QED BY <1>0, <1>14, <2>1, <2>2, <2>3
<1> DEFINE nt == n * T
<1>6. nt \in Int
    BY <1>0, <1>14
<1>7. x - y + nt <= 4 /\ -4 <= x - y + nt
    BY <1>0, <1>14
<1>8. T * s = ta - tb + 411775 * nt
    BY <1>5
<1>9. s \in Int
    BY <1>4
<1> HIDE DEF s, k, ta, tb, nt
<1>10. T * s \in Int
    BY <1>0, <1>9
<1> DEFINE ts == T * s
<1> HIDE DEF ts
<1>11. ts = ta - tb + 411775 * nt /\ ts \in Int
    BY <1>8, <1>10 DEF ts
<1>12. ts <= 1647100 + T /\ -(1647100 + T) <= ts
    BY <1>0, <1>3, <1>4, <1>6, <1>7, <1>11
<1>13. IsShift(T, s)
    BY <1>9, <1>12 DEF ts, IsShift
<1> QED BY <1>13 DEF s, a, b

\* What a turn of the angle does to the brightness.
LEMMA BrightnessRounds ==
  ASSUME NEW angle \in Int
  PROVE  LET v == BrightnessAt(angle)   c == fp_cos(angle)
         IN /\ c \in Int /\ -65536 <= c /\ c <= 65536 /\ v \in 0 .. 254
            /\ 65536 * v <= 127 * (65536 + c) /\ 127 * (65536 + c) <= 65536 * v + 65535
<1> DEFINE c == fp_cos(angle)   z == 127 * (65536 + c)   v == BrightnessAt(angle)
<1>1. c \in Int /\ -65536 <= c /\ c <= 65536
  <2> DEFINE x == Position(angle)
  <2>1. IsPosition(angle, x) /\ c = HalfTurn(x)
      BY PositionFound
  <2> HIDE DEF x
  <2>2. x \in Nat /\ x <= PI
      BY <2>1 DEF IsPosition
  <2>3. HalfTurn(x) \in Int /\ -ONE <= HalfTurn(x) /\ HalfTurn(x) <= ONE
      BY <2>2, HalfTurnBounds
  <2> DEFINE h == HalfTurn(x)
  <2> HIDE DEF h, c
  <2> QED BY <2>1, <2>3 DEF h, ONE
<1> HIDE DEF c
<1>2. z \in Int
    BY <1>1
<1>3. ONE + c \in Int
    BY <1>1 DEF ONE
<1>4. fp_mul(Fixed(127), ONE + c) = (ONE + c) * 127
    BY <1>3, WholeProduct
<1>5. (ONE + c) * 127 = z
    BY <1>1 DEF ONE
<1>6. v = z \div ONE
    BY <1>4, <1>5 DEF BrightnessAt, Whole, c
<1> HIDE DEF v, z
<1>7. Splits(z, ONE, v, z % ONE)
    BY <1>2, <1>6, Words, Zenon
<1>8. v \in Int /\ 65536 * v <= z /\ z <= 65536 * v + 65535
    BY <1>2, <1>7 DEF Splits, ONE
<1>9. v \in 0 .. 254
  <2>1. 0 <= z /\ z <= 16646144
      BY <1>1 DEF z
  <2> QED BY <1>2, <1>8, <2>1
<1> QED BY <1>1, <1>8, <1>9 DEF z, c, v

\* Two angles no more than d apart, but for m turns; d is four steps of the clock.
AreClose(T, a, b, m, d) == Magnitude(a - b + m * TWO_PI) <= d /\ T * d <= 1647100 + T

\* Times 40 ms apart, or a period and that, have angles as near, up to a turn.
LEMMA AnglesFollow ==
  ASSUME NEW w \in [period : 0 .. 255, rate : 0 .. 255, dir : 0 .. 255], NEW i \in Pixel,
         NEW x \in Int, NEW y \in Int, NEW n, AreNear(PeriodOf(w), x, y, n)
  PROVE  LET T == PeriodOf(w)   a == AngleOf(w, i, x)   b == AngleOf(w, i, y)
         IN /\ a \in Int /\ b \in Int
            /\ \E m \in -1 .. 1, d \in Nat : AreClose(T, a, b, m, d)
<1> DEFINE T == PeriodOf(w)   a == AngleOf(w, i, x)   b == AngleOf(w, i, y)
           ta == TimeOf(T, x)   tb == TimeOf(T, y)
           space == fp_mul(TWO_PI, fp_mul(Fixed(w.period), fp_div(Fixed(i), Fixed(COUNT - 1))))
           s == ta - tb + n * TWO_PI
           d == Magnitude(s)
<1>1. T \in Periods
    BY PeriodBounds DEF PeriodOf
<1>2. (a = space + ta /\ b = space + tb) \/ (a = space - ta /\ b = space - tb)
    BY DEF AngleOf
<1>3. space \in Int
  <2>1. Fixed(i) \in Int /\ Fixed(COUNT - 1) \in Int \ {0} /\ Fixed(w.period) \in Int
      BY DEF Fixed, ONE, Pixel, COUNT, LEDS, LED_OFFSET
  <2>2. fp_div(Fixed(i), Fixed(COUNT - 1)) \in Int
      BY <2>1, QuotientRounds
  <2>3. fp_mul(Fixed(w.period), fp_div(Fixed(i), Fixed(COUNT - 1))) \in Int
      BY <2>1, <2>2, ProductTruncates
  <2>4. TWO_PI \in Int
      BY DEF TWO_PI
  <2> QED BY <2>3, <2>4, ProductTruncates
<1> HIDE DEF T, space, a, b
<1>4. IsTime(T, x, ta) /\ IsTime(T, y, tb)
    BY <1>1, TimeRounds
<1>5. n \in -1 .. 1 /\ x - y + n * T <= 4 /\ -4 <= x - y + n * T
    BY DEF AreNear, T
<1>6. s \in Int /\ T * s <= 1647100 + T /\ -(1647100 + T) <= T * s
  <2>1. AreNear(T, x, y, n)
      BY DEF T
  <2>2. IsShift(T, s)
      BY <1>1, <2>1, TimesFollow, Zenon
  <2> HIDE DEF s
  <2> QED BY <2>2 DEF IsShift
<1> HIDE DEF ta, tb
<1>7. ta \in Int /\ tb \in Int
    BY <1>4 DEF IsTime
<1> DEFINE ts == T * s
<1>8. d \in Nat /\ T * d <= 1647100 + T
  <2>0. T \in Int
      BY <1>1 DEF Periods
  <2>1. s \in Int /\ ts \in Int
    <3>1. s \in Int
        BY <1>6
    <3> HIDE DEF s
    <3> QED BY <2>0, <3>1
  <2>2. ts <= 1647100 + T /\ -(1647100 + T) <= ts
      BY <1>6
  <2>3. T * d = ts \/ T * d = - ts
    <3>1. d = s \/ d = -s
        BY DEF Magnitude
    <3> HIDE DEF s, d
    <3>2. T * (-s) = - (T * s)
        BY <2>0, <2>1
    <3> QED BY <3>1, <3>2
  <2>4. d \in Nat
    <3> HIDE DEF s
    <3> QED BY <2>1 DEF Magnitude
  <2> HIDE DEF ts, s, d
  <2> QED BY <2>0, <2>1, <2>2, <2>3, <2>4
<1>9. \E m \in -1 .. 1 : a - b + m * TWO_PI = s \/ a - b + m * TWO_PI = -s
  <2>1. CASE a = space + ta /\ b = space + tb
    <3>1. a - b + n * TWO_PI = s
        BY <1>3, <1>5, <1>7, <2>1 DEF TWO_PI
    <3> HIDE DEF s
    <3> QED BY <1>5, <3>1
  <2>2. CASE a = space - ta /\ b = space - tb
    <3>1. a - b + (-n) * TWO_PI = -s
        BY <1>3, <1>5, <1>7, <2>2 DEF TWO_PI
    <3>2. -n \in -1 .. 1
        BY <1>5
    <3> HIDE DEF s
    <3> QED BY <3>1, <3>2
  <2> QED BY <1>2, <2>1, <2>2
<1>10. PICK m \in -1 .. 1 : a - b + m * TWO_PI = s \/ a - b + m * TWO_PI = -s
    BY <1>9
<1>11. Magnitude(a - b + m * TWO_PI) = d
  <2> DEFINE z == a - b + m * TWO_PI
  <2>1. z = s \/ z = -s
      BY <1>10
  <2>2. s \in Int
      BY <1>6
  <2> HIDE DEF z, s
  <2>3. Magnitude(z) = d
      BY <2>1, <2>2 DEF Magnitude
  <2> HIDE DEF d
  <2> QED BY <2>3 DEF z
<1>12. a \in Int /\ b \in Int
    BY <1>2, <1>3, <1>7
<1> HIDE DEF d
<1>13. AreClose(T, a, b, m, d)
    BY <1>8, <1>11 DEF AreClose
<1> QED BY <1>8, <1>12, <1>13 DEF T, a, b

\* How much brighter or darker a pixel becomes in four steps of the clock, at most.
StepOf(T) == 3200 \div T + 2

IsRise(T, d, u, v) ==
  /\ u \in Int /\ v \in Int /\ T * d <= 1647100 + T
  /\ 65536 * (u - v) <= 127 * (d + 161) + 65535

\* The share of 40 ms in a period, as a rise of the brightness.
LEMMA RiseBounds ==
  ASSUME NEW T \in Periods, NEW d \in Nat, NEW u, NEW v, IsRise(T, d, u, v)
  PROVE  u - v <= StepOf(T)
<1> USE DEF Periods, StepOf
<1> DEFINE q == 3200 \div T   k == u - v   tk == T * k   td == T * d   tq == T * q
<1>1. k \in Int /\ tk \in Int /\ td \in Int
    BY DEF IsRise
<1>2. 65536 * k <= 127 * d + 20447 + 65535 /\ td <= 1647100 + T
    BY DEF IsRise
<1>3. q \in Nat /\ 3201 <= tq + T
  <2>1. q \in Nat /\ 3200 <= T * q + T - 1
      OBVIOUS
  <2> HIDE DEF q
  <2> QED BY <2>1
<1> HIDE DEF q, k
<1>4. T * (65536 * k) <= T * (127 * d + 85982)
    BY <1>1, <1>2
<1>5. T * (65536 * k) = 65536 * tk
    BY <1>1
<1>6. T * (127 * d + 85982) = 127 * td + 85982 * T
    OBVIOUS
<1>7. SUFFICES ASSUME q + 3 <= k PROVE FALSE
    BY <1>1, <1>3 DEF k, q
<1>8. tq \in Int /\ tq + 3 * T <= tk
  <2>1. T * (q + 3) <= T * k
      BY <1>1, <1>3, <1>7
  <2> QED BY <1>3, <2>1
<1> HIDE DEF tk, td, tq
<1>9. 65536 * tk <= 127 * td + 85982 * T
    BY <1>4, <1>5, <1>6
<1> QED BY <1>1, <1>2, <1>3, <1>8, <1>9

\* Near angles have brightnesses within one step of the wave.
LEMMA BrightnessFollows ==
  ASSUME NEW a \in Int, NEW b \in Int, NEW m \in -1 .. 1, NEW d \in Nat, NEW T \in Periods,
         AreClose(T, a, b, m, d)
  PROVE  Magnitude(BrightnessAt(a) - BrightnessAt(b)) <= StepOf(T)
<1> DEFINE va == BrightnessAt(a)   vb == BrightnessAt(b)   ca == fp_cos(a)   cb == fp_cos(b)
           q == StepOf(T)
<1>1. Magnitude(ca - cb) <= d + 161
  <2>1. m \in Int
      OBVIOUS
  <2>2. Magnitude(a - b + m * TWO_PI) <= d
      BY DEF AreClose
  <2> QED BY <2>1, <2>2, CosineFollows
<1>2. /\ ca \in Int /\ va \in 0 .. 254
      /\ 65536 * va <= 127 * (65536 + ca) /\ 127 * (65536 + ca) <= 65536 * va + 65535
    BY BrightnessRounds
<1>3. /\ cb \in Int /\ vb \in 0 .. 254
      /\ 65536 * vb <= 127 * (65536 + cb) /\ 127 * (65536 + cb) <= 65536 * vb + 65535
    BY BrightnessRounds
<1> HIDE DEF va, vb, ca, cb
<1>4. ca - cb <= d + 161 /\ cb - ca <= d + 161
    BY <1>1, <1>2, <1>3 DEF Magnitude
<1>5. T * d <= 1647100 + T
    BY DEF AreClose
<1>6. IsRise(T, d, va, vb) /\ IsRise(T, d, vb, va)
    BY <1>2, <1>3, <1>4, <1>5 DEF IsRise
<1>7. q \in Nat
    BY DEF StepOf, Periods
<1>8. va - vb <= q /\ vb - va <= q
    BY <1>6, RiseBounds, Zenon
<1> HIDE DEF q
<1>9. va \in Int /\ vb \in Int
    BY <1>2, <1>3
<1>10. Magnitude(va - vb) <= q
    BY <1>7, <1>8, <1>9 DEF Magnitude
<1> QED BY <1>10 DEF va, vb, q

Levels == 0 .. 254
SquaresNear(x, y, m) == x * x - y * y <= 508 * m

\* Squares of near levels, over 256, are no more than twice as far apart.
LEMMA SquareStep ==
  ASSUME NEW x \in Levels, NEW y \in Levels, NEW m \in Nat, x - y <= m
  PROVE  SquaresNear(x, y, m)
<1> USE DEF Levels
<1> DEFINE k == x - y   t == x + y
<1>1. x * x - y * y = k * t
    OBVIOUS
<1>2. k \in Int /\ k <= m /\ t \in 0 .. 508
    OBVIOUS
<1> HIDE DEF k, t
<1>3. k * t <= m * t
    BY <1>2
<1>4. m * t <= m * 508
    BY <1>2
<1>5. k * t \in Int /\ m * t \in Int
    BY <1>2
<1> QED BY <1>1, <1>3, <1>4, <1>5 DEF SquaresNear, k, t

IsSquare(x) == x \in Nat /\ x <= 64516

LEMMA SquareBounds == ASSUME NEW u \in Levels PROVE IsSquare(u * u)
<1> USE DEF Levels
<1>1. u * u <= 254 * u /\ 0 <= u * u /\ u * u \in Int
    OBVIOUS
<1> DEFINE uu == u * u
<1> HIDE DEF uu
<1>2. uu <= 254 * u /\ 0 <= uu /\ uu \in Int
    BY <1>1 DEF uu
<1>3. IsSquare(uu)
    BY <1>2 DEF IsSquare
<1> QED BY <1>3 DEF uu

\* Dimmed or not, near levels stay within twice their distance.
LEMMA DimmedFollows ==
  ASSUME NEW u \in 0 .. 254, NEW v \in 0 .. 254, NEW m \in Nat, Magnitude(u - v) <= m, NEW nonlin
  PROVE  /\ DimmedBy(nonlin, u % 256) \in 0 .. 255
         /\ Magnitude(DimmedBy(nonlin, u % 256) - DimmedBy(nonlin, v % 256)) <= 2 * m
<1>1. u % 256 = u /\ v % 256 = v
    OBVIOUS
<1>2. u - v <= m /\ v - u <= m
    BY DEF Magnitude
<1> DEFINE uu == u * u   vv == v * v
<1>3. uu \in Nat /\ uu <= 64516 /\ vv \in Nat /\ vv <= 64516
  <2>1. u \in Levels /\ v \in Levels
      BY DEF Levels
  <2>2. IsSquare(uu) /\ IsSquare(vv)
      BY <2>1, SquareBounds, Zenon
  <2> HIDE DEF uu, vv
  <2> QED BY <2>2 DEF IsSquare
<1>4. uu - vv <= 508 * m /\ vv - uu <= 508 * m
  <2>1. u \in Levels /\ v \in Levels
      BY DEF Levels
  <2>2. SquaresNear(u, v, m) /\ SquaresNear(v, u, m)
      BY <1>2, <2>1, SquareStep, Zenon
  <2> QED BY <2>2 DEF SquaresNear
<1> HIDE DEF uu, vv
<1>5. (uu \div 256) % 256 = uu \div 256 /\ (vv \div 256) % 256 = vv \div 256 /\ uu \div 256 \in 0 .. 255
  <2>1. uu \div 256 \in 0 .. 255
      BY <1>3
  <2>4. vv \div 256 \in 0 .. 255
      BY <1>3
  <2> DEFINE du == uu \div 256   dv == vv \div 256
  <2>2. du \in 0 .. 255 /\ dv \in 0 .. 255
      BY <2>1, <2>4
  <2> HIDE DEF du, dv
  <2>3. du % 256 = du /\ dv % 256 = dv
      BY <2>2
  <2> QED BY <2>2, <2>3 DEF du, dv
<1>6. uu \div 256 - vv \div 256 <= 2 * m /\ vv \div 256 - uu \div 256 <= 2 * m
    BY <1>3, <1>4
<1>7. CASE nonlin > 127
  <2>1. DimmedBy(nonlin, u) = uu \div 256 /\ DimmedBy(nonlin, v) = vv \div 256
      BY <1>5, <1>7 DEF DimmedBy, uu, vv
  <2> DEFINE du == uu \div 256   dv == vv \div 256
  <2>2. du \in Int /\ dv \in Int
      BY <1>3
  <2>3. du - dv <= 2 * m /\ dv - du <= 2 * m /\ du \in 0 .. 255
      BY <1>5, <1>6
  <2> HIDE DEF du, dv
  <2>4. Magnitude(du - dv) <= 2 * m
      BY <2>2, <2>3 DEF Magnitude
  <2> QED BY <1>1, <2>1, <2>3, <2>4 DEF du, dv
<1>8. CASE ~ (nonlin > 127)
  <2>1. DimmedBy(nonlin, u) = u /\ DimmedBy(nonlin, v) = v
      BY <1>8 DEF DimmedBy
  <2>2. Magnitude(u - v) <= 2 * m
      BY <1>2 DEF Magnitude
  <2> QED BY <1>1, <2>1, <2>2
<1> QED BY <1>7, <1>8

\* From frame to frame a pixel's brightness follows the wave (main.c:273-294).
LEMMA ValueFollows ==
  ASSUME NEW w \in [period : 0 .. 255, rate : 0 .. 255, dir : 0 .. 255], NEW i \in Pixel,
         NEW x \in Int, NEW y \in Int, NEW n, AreNear(PeriodOf(w), x, y, n), NEW nonlin
  PROVE  Magnitude(ValueOf(w, nonlin, i, x) - ValueOf(w, nonlin, i, y))
           <= 2 * StepOf(PeriodOf(w))
<1> DEFINE T == PeriodOf(w)   a == AngleOf(w, i, x)   b == AngleOf(w, i, y)
           m == StepOf(T)   u == BrightnessAt(a)   v == BrightnessAt(b)
<1>1. T \in Periods
    BY PeriodBounds DEF PeriodOf
<1>2. a \in Int /\ b \in Int
    BY AnglesFollow
<1>3. PICK k \in -1 .. 1, d \in Nat : AreClose(T, a, b, k, d)
    BY AnglesFollow, Zenon
<1> HIDE DEF T, a, b
<1>4. Magnitude(u - v) <= m
    BY <1>1, <1>2, <1>3, BrightnessFollows, Zenon
<1>5. u \in 0 .. 254 /\ v \in 0 .. 254
    BY <1>2, BrightnessRounds
<1> HIDE DEF u, v
<1>6. m \in Nat
    BY <1>1 DEF StepOf, Periods
<1> HIDE DEF m
<1>7. Magnitude(DimmedBy(nonlin, u % 256) - DimmedBy(nonlin, v % 256)) <= 2 * m
    BY <1>4, <1>5, <1>6, DimmedFollows, ZenonT(30)
<1>8. /\ ValueOf(w, nonlin, i, x) = DimmedBy(nonlin, u % 256)
      /\ ValueOf(w, nonlin, i, y) = DimmedBy(nonlin, v % 256)
    BY DEF ValueOf, u, v, a, b
<1> QED BY <1>7, <1>8 DEF m, T

\* A value is a byte: nothing wraps on the way.
LEMMA ValueIsByte ==
  ASSUME NEW w \in [period : 0 .. 255, rate : 0 .. 255, dir : 0 .. 255], NEW i \in Pixel,
         NEW x \in Int, NEW nonlin
  PROVE  ValueOf(w, nonlin, i, x) \in 0 .. 255
<1> DEFINE T == PeriodOf(w)   a == AngleOf(w, i, x)   u == BrightnessAt(a)
<1>1. AreNear(T, x, x, 0)
  <2>1. T \in Int
      BY PeriodBounds DEF PeriodOf
  <2> HIDE DEF T
  <2> QED BY <2>1 DEF AreNear
<1>2. a \in Int
    BY <1>1, AnglesFollow
<1> HIDE DEF a
<1>3. u \in 0 .. 254
    BY <1>2, BrightnessRounds
<1> HIDE DEF u
<1>4. Magnitude(u - u) <= 0
    BY <1>3 DEF Magnitude
<1>6. 0 \in Nat
    OBVIOUS
<1>5. DimmedBy(nonlin, u % 256) \in 0 .. 255
    BY <1>3, <1>4, <1>6, DimmedFollows, Zenon
<1> QED BY <1>5 DEF ValueOf, u, a

ShootAt(n) == ((n % 512) \div 2) % COUNT

\* The pixels of the frame before, which the ring shows now.
FrameKept ==
  /\ loop_state # 0
  /\ \E e \in 0 .. PeriodOf(wave) :
       /\ elapsed = e + 3 \/ elapsed = e + 4
       /\ hsv = [i \in Pixel |->
                   [h |-> HueOf(band, expressed.hue_ratedir, loop_state - 1, i),
                    s |-> expressed.sat, v |-> ValueOf(wave, expressed.nonlin, i, - e)]]
  /\ \A i \in Pixel :
       led_buf[i + LED_OFFSET] =
         ledSetRGB(IF HasSpot /\ ShootAt(loop_state - 1) = i THEN Grey(160) ELSE HsvToRgb(hsv[i]), SHIFT)

GeneTyped ==
  /\ pattern \in Haploid /\ expressed \in Haploid
  /\ band \in Byte \X Byte /\ wave \in [period : Byte, rate : Byte, dir : Byte]

RenderInv ==
  /\ GeneTyped
  /\ started \in BOOLEAN /\ loop_state \in Nat /\ elapsed \in Nat
  /\ ~ started => hsv = <<>>
  /\ hsv = <<>> \/ FrameKept

\* What the types of a gene say of its fields.
LEMMA GenesAreTyped ==
  ASSUME GeneTyped
  PROVE  /\ pattern \in Haploid /\ expressed.sat \in 0 .. 255 /\ expressed.hue_ratedir \in Byte
         /\ band \in Byte \X Byte /\ wave \in [period : 0 .. 255, rate : 0 .. 255, dir : 0 .. 255]
BY DEF GeneTyped, Haploid, Byte

\* RenderInv is so at the start.
LEMMA RenderStarts == RenderInit => RenderInv
<1> SUFFICES ASSUME RenderInit PROVE RenderInv
    OBVIOUS
<1>1. pattern \in Haploid /\ expressed \in Haploid
    BY FieldsAssumption DEF RenderInit, PatternInit, Standalone, FieldsAssumption, Haploid
<1>2. band \in Byte \X Byte /\ wave \in [period : Byte, rate : Byte, dir : Byte]
    BY DEF RenderInit, Byte
<1> QED BY <1>1, <1>2 DEF RenderInit, RenderInv, GeneTyped

\* The blend of two strands that are bytes is made of bytes.
LEMMA BlendIsTyped ==
  ASSUME NEW p \in Haploid
  PROVE  Phenotype(as_gene(p)) \in Haploid
<1> DEFINE d == as_gene(p)
<1>1. d.a \in Haploid /\ d.b \in Haploid
    BY StrandsFitBytes
<1> HIDE DEF d
<1>2. /\ d.a.sat \in 0 .. 255 /\ d.a.hue_ratedir \in 0 .. 255 /\ d.a.chaser \in 0 .. 255
      /\ d.b.sat \in 0 .. 255 /\ d.b.hue_ratedir \in 0 .. 255 /\ d.b.chaser \in 0 .. 255
      /\ d.b.nonlin \in 0 .. 255
    BY <1>1 DEF Haploid, Byte
<1>3. ASSUME NEW x \in 0 .. 255, NEW y \in 0 .. 255
      PROVE  Saturated(x + y) \in 0 .. 255 /\ BlendedRate(x, y) \in 0 .. 255
    BY DEF Saturated, BlendedRate, Least
<1>4. /\ Saturated(d.a.sat + d.b.sat) \in 0 .. 255
      /\ BlendedRate(d.a.hue_ratedir, d.b.hue_ratedir) \in 0 .. 255
      /\ Saturated(d.a.chaser + d.b.chaser) \in 0 .. 255
      /\ Saturated(d.a.chaser + d.b.nonlin) \in 0 .. 255
    BY <1>2, <1>3, Zenon
<1>5. Phenotype(d) \in Haploid
    BY <1>4 DEF Phenotype, Haploid, Byte
<1> QED BY <1>5 DEF d

\* The time a frame is computed for is within its period.
LEMMA PeriodKept ==
  ASSUME RenderInv
  PROVE  Period \in 0 .. PeriodOf(wave) /\ PeriodOf(wave) \in Periods
<1>1. PeriodOf(wave) \in Periods /\ tau = PeriodOf(wave)
  <2>1. wave.rate \in 0 .. 255
      BY GenesAreTyped DEF RenderInv
  <2> QED BY <2>1, PeriodBounds, ValueIs DEF PeriodOf
<1> DEFINE T == PeriodOf(wave)
<1>2. T \in Periods /\ tau = T
    BY <1>1
<1> HIDE DEF T
<1>3. Period \in 0 .. T
    BY <1>2 DEF Period, Periods, RenderInv
<1> QED BY <1>2, <1>3 DEF T

\* What a frame leaves behind.
LEMMA FrameLeaves ==
  ASSUME RenderInv, Frame
  PROVE  /\ FrameKept' /\ HasSpot' = HasSpot
         /\ \A i \in Pixel :
              /\ hsv'[i] = [h |-> HueOf(band, expressed.hue_ratedir, loop_state, i),
                            s |-> expressed.sat, v |-> ValueOf(wave, expressed.nonlin, i, - Period)]
              /\ led_buf'[i + LED_OFFSET] =
                   ledSetRGB(IF HasSpot /\ ShootAt(loop_state) = i THEN Grey(160)
                             ELSE HsvToRgb(hsv'[i]), SHIFT)
<1>1. /\ UNCHANGED <<pattern, expressed, band, wave, started>>
      /\ loop_state' = loop_state + 1 /\ loop_state' - 1 = loop_state /\ loop_state \in Nat
      /\ elapsed' = Period + 3 \/ elapsed' = Period + 4
    BY DEF Frame, Later, RenderInv
<1>2. Period \in 0 .. PeriodOf(wave)
    BY PeriodKept
<1>3. hsv' = [i \in Pixel |-> [h |-> HueOf(band, expressed.hue_ratedir, loop_state, i),
                               s |-> expressed.sat, v |-> ValueOf(wave, expressed.nonlin, i, - Period)]]
  <2>1. ASSUME NEW i \in Pixel
        PROVE  /\ Hue(i) = HueOf(band, expressed.hue_ratedir, loop_state, i)
               /\ Value(i, - Period) = ValueOf(wave, expressed.nonlin, i, - Period)
      BY HueIs, ValueIs
  <2> QED BY <2>1, Zenon DEF Frame
<1>4. \A i \in Pixel :
        led_buf'[i + LED_OFFSET] =
          ledSetRGB(IF HasSpot /\ ShootAt(loop_state) = i THEN Grey(160) ELSE HsvToRgb(hsv'[i]), SHIFT)
  <2> SUFFICES ASSUME NEW i \in Pixel
               PROVE  led_buf'[i + LED_OFFSET] =
                        ledSetRGB(IF HasSpot /\ ShootAt(loop_state) = i
                                  THEN Grey(160) ELSE HsvToRgb(hsv'[i]), SHIFT)
      OBVIOUS
  <2> DEFINE rgb == [j \in Pixel |-> HsvToRgb(hsv'[j])]   k == i + LED_OFFSET
  <2>1. k \in 0 .. LEDS - 1 /\ ~ (k < LED_OFFSET) /\ k - LED_OFFSET = i
      BY DEF Pixel, COUNT, LEDS, LED_OFFSET
  <2>2. led_buf' = Strip(rgb)
      BY DEF Frame
  <2>3. rgb[i] = HsvToRgb(hsv'[i])
      OBVIOUS
  <2>4. Shoot(COUNT) = ShootAt(loop_state)
      BY DEF Shoot, ShootAt
  <2> HIDE DEF rgb, k
  <2>5. led_buf'[k] = ledSetRGB(IF HasSpot /\ Shoot(COUNT) = i THEN Grey(160) ELSE rgb[i], SHIFT)
      BY <2>1, <2>2, Zenon DEF Strip
  <2> QED BY <2>3, <2>4, <2>5 DEF k
<1>5. HasSpot' = HasSpot
    BY <1>1 DEF HasSpot
<1>6. FrameKept'
  <2>1. loop_state' # 0
      BY <1>1
  <2>2. \E e \in 0 .. PeriodOf(wave') :
          /\ elapsed' = e + 3 \/ elapsed' = e + 4
          /\ hsv' = [i \in Pixel |->
                       [h |-> HueOf(band', expressed'.hue_ratedir, loop_state' - 1, i),
                        s |-> expressed'.sat, v |-> ValueOf(wave', expressed'.nonlin, i, - e)]]
      BY <1>1, <1>2, <1>3, Zenon
  <2>3. \A i \in Pixel :
          led_buf'[i + LED_OFFSET] =
            ledSetRGB(IF HasSpot' /\ ShootAt(loop_state' - 1) = i
                      THEN Grey(160) ELSE HsvToRgb(hsv'[i]), SHIFT)
      BY <1>1, <1>4, <1>5, Zenon
  <2> QED BY <2>1, <2>2, <2>3, Zenon DEF FrameKept
<1>7. \A i \in Pixel :
        hsv'[i] = [h |-> HueOf(band, expressed.hue_ratedir, loop_state, i),
                   s |-> expressed.sat, v |-> ValueOf(wave, expressed.nonlin, i, - Period)]
    BY <1>3, Zenon
<1> QED BY <1>4, <1>5, <1>6, <1>7, Zenon

\* Every step keeps RenderInv.
LEMMA RenderStep == ASSUME RenderInv, [RenderNext]_renderVars PROVE RenderInv'
<1>1. CASE RenderExpress
  <2>1. /\ expressed' = Phenotype(as_gene(pattern))
        /\ ~ started /\ UNCHANGED <<pattern, band, wave, started, loop_state, elapsed, led_buf, hsv>>
      BY <1>1 DEF RenderExpress, ExpressPattern, clock, frame
  <2>2. expressed' \in Haploid
      BY <2>1, BlendIsTyped DEF RenderInv, GeneTyped
  <2> QED BY <2>1, <2>2 DEF RenderInv, GeneTyped
<1>2. CASE TestPattern
  <2>1. ~ started /\ UNCHANGED <<pattern, expressed, band, wave, started, hsv>>
      BY <1>2 DEF TestPattern
  <2>2. loop_state' \in Nat /\ elapsed' \in Nat
      BY <1>2 DEF TestPattern, Later, RenderInv
  <2> QED BY <2>1, <2>2 DEF RenderInv, GeneTyped
<1>3. CASE Start
  <2>1. /\ ~ started /\ started' = TRUE /\ band' \in Bands /\ wave' \in Waves
        /\ UNCHANGED <<pattern, expressed, loop_state, elapsed, hsv>>
      BY <1>3 DEF Start, clock, frame
  <2>2. band' \in Byte \X Byte /\ wave' \in [period : Byte, rate : Byte, dir : Byte]
      BY <2>1, RenderingAssumption DEF RenderingAssumption
  <2> QED BY <2>1, <2>2 DEF RenderInv, GeneTyped
<1>4. CASE Frame
  <2>1. FrameKept'
      BY <1>4, FrameLeaves
  <2>2. started /\ UNCHANGED <<pattern, expressed, band, wave, started>>
      BY <1>4 DEF Frame
  <2>3. loop_state' \in Nat /\ elapsed' \in Nat
    <3>1. Period \in Nat
        BY DEF Period, RenderInv
    <3> QED BY <1>4, <3>1 DEF Frame, Later, RenderInv
  <2> QED BY <2>1, <2>2, <2>3 DEF RenderInv, GeneTyped
<1>5. CASE UNCHANGED renderVars
  <2>1. UNCHANGED <<pattern, expressed, band, wave, started, loop_state, elapsed, led_buf, hsv>>
      BY <1>5 DEF renderVars, clock, frame
  <2>2. HasSpot' = HasSpot
      BY <2>1 DEF HasSpot
  <2> QED BY <2>1, <2>2 DEF RenderInv, GeneTyped, FrameKept
<1> QED BY <1>1, <1>2, <1>3, <1>4, <1>5 DEF RenderNext

\* RenderInv is always so.
LEMMA RenderAlways == RenderSpec => []RenderInv
BY RenderStarts, RenderStep, PTL DEF RenderSpec

\* Hues that are no more than n apart before they are made bytes, on the circle.
HuesNear(x, y, n) == x - y <= n /\ y - x <= n

\* A pixel's place on the band is one of 256.
LEMMA HuePlaces ==
  ASSUME GeneTyped, NEW n \in Nat, NEW i \in Pixel
  PROVE  Folded(TurnOf(expressed.hue_ratedir, n, i)) \in 0 .. 255
<1> DEFINE r == expressed.hue_ratedir   p == TurnOf(r, n, i)   q == TurnOf(r, n + 1, i)
<1>1. r \in Byte
    BY GenesAreTyped
<1> HIDE DEF r
<1>2. TurnsBy(p, q, r % 16)
    BY <1>1, TurnFollows, Zenon
<1> HIDE DEF p, q
<1>3. Folded(p) \in 0 .. 255
    BY <1>2 DEF Folded, TurnsBy
<1> QED BY <1>3 DEF p, r

\* A hue is a byte.
LEMMA HueIsByte ==
  ASSUME GeneTyped, NEW n \in Nat, NEW i \in Pixel
  PROVE  HueOf(band, expressed.hue_ratedir, n, i) \in 0 .. 255
<1> DEFINE t == Folded(TurnOf(expressed.hue_ratedir, n, i))   b == HueBefore(band, t)
           hue == HueOf(band, expressed.hue_ratedir, n, i)
<1>1. t \in 0 .. 255 /\ band \in Byte \X Byte
    BY HuePlaces, GenesAreTyped
<1>2. b \in -1 .. 255
    BY <1>1, HueInBand, Zenon
<1>3. hue = b % 256
    BY DEF HueOf
<1> HIDE DEF b, hue
<1>4. hue \in 0 .. 255
    BY <1>2, <1>3
<1> QED BY <1>4 DEF hue

LEMMA HueBytes ==
  ASSUME NEW x \in -1 .. 255
  PROVE  (x # -1 /\ x % 256 = x) \/ (x = -1 /\ x % 256 = 255)
OBVIOUS

\* A hue is in the band, or one step below it on the circle.
LEMMA BandHolds ==
  ASSUME GeneTyped, NEW t \in 0 .. 255
  PROVE  InBand(HueBefore(band, t) % 256)
<1> DEFINE hue == HueBefore(band, t)   x == band[1]   y == band[2]
           lo == Least(x, y)   hi == x + y - lo   h == hue % 256
<1>1. band \in Byte \X Byte
    BY GenesAreTyped
<1>2. x \in 0 .. 255 /\ y \in 0 .. 255
    BY <1>1, BandBytes, Zenon
<1>3. hue \in -1 .. 255 /\ (x <= y => x - 1 <= hue /\ hue <= y) /\ (y <= x => y - 1 <= hue /\ hue <= x)
    BY <1>1, HueInBand, Zenon
<1> HIDE DEF hue, x, y
<1>4. lo \in 0 .. 255 /\ hi \in 0 .. 255 /\ lo <= hi /\ lo - 1 <= hue /\ hue <= hi
    BY <1>2, <1>3 DEF Least
<1> HIDE DEF lo, hi
<1>5. h \in lo .. hi \/ Around(h, lo) = 1
  <2>1. CASE hue = -1
    <3>1. lo = 0
        BY <1>4, <2>1
    <3>2. h = 255
        BY <1>3, <2>1, HueBytes
    <3> HIDE DEF h
    <3>3. Around(h, lo) = 1
        BY <3>1, <3>2 DEF Around, Magnitude
    <3> QED BY <3>3
  <2>2. CASE hue # -1
    <3>1. h = hue /\ hue \in 0 .. 255
        BY <1>3, <2>2
    <3>2. CASE hue = lo - 1
        BY <1>4, <3>1, <3>2 DEF Around, Magnitude
    <3>3. CASE hue # lo - 1
        BY <1>4, <3>1, <3>3
    <3> QED BY <3>2, <3>3
  <2> QED BY <2>1, <2>2
<1> HIDE DEF h
<1>6. h \in lo .. hi \/ Around(h, lo) = 1 \/ Around(h, hi) = 1
    BY <1>5
<1>7. InBand(h)
    BY <1>6 DEF InBand, lo, hi, x, y
<1> QED BY <1>7 DEF h, hue

KeptPixel(i) ==
  \E e \in 0 .. PeriodOf(wave) :
    /\ elapsed = e + 3 \/ elapsed = e + 4
    /\ hsv[i].h = HueOf(band, expressed.hue_ratedir, loop_state - 1, i)
    /\ hsv[i].s = expressed.sat
    /\ hsv[i].v = ValueOf(wave, expressed.nonlin, i, - e)
    /\ hsv[i] \in [h : 0 .. 255, s : 0 .. 255, v : 0 .. 255]

\* In a frame that was shown, every pixel is as it was computed then.
LEMMA PixelsKept ==
  ASSUME RenderInv, hsv # <<>>
  PROVE  /\ started /\ DOMAIN hsv = Pixel /\ loop_state \in Nat \ {0}
         /\ \A i \in Pixel : KeptPixel(i)
<1>1. started /\ FrameKept /\ loop_state \in Nat \ {0} /\ GeneTyped /\ loop_state - 1 \in Nat
    BY DEF RenderInv, FrameKept
<1>2. PICK e \in 0 .. PeriodOf(wave) :
        /\ elapsed = e + 3 \/ elapsed = e + 4
        /\ hsv = [i \in Pixel |->
                    [h |-> HueOf(band, expressed.hue_ratedir, loop_state - 1, i),
                     s |-> expressed.sat, v |-> ValueOf(wave, expressed.nonlin, i, - e)]]
    BY <1>1, Zenon DEF FrameKept
<1>3. ASSUME NEW i \in Pixel PROVE KeptPixel(i)
  <2> DEFINE hue == HueOf(band, expressed.hue_ratedir, loop_state - 1, i)
             v == ValueOf(wave, expressed.nonlin, i, - e)
  <2>1. hsv[i] = [h |-> hue, s |-> expressed.sat, v |-> v]
      BY <1>2, Zenon
  <2>2. hue \in 0 .. 255
      BY <1>1, HueIsByte
  <2>3. v \in 0 .. 255
    <3>1. - e \in Int
      <4> DEFINE T == PeriodOf(wave)
      <4>1. T \in Periods /\ e \in 0 .. T
          BY PeriodKept, Zenon
      <4> HIDE DEF T, hue, v
      <4> QED BY <4>1 DEF Periods
    <3>2. wave \in [period : 0 .. 255, rate : 0 .. 255, dir : 0 .. 255]
        BY <1>1, GenesAreTyped
    <3> QED BY <3>1, <3>2, ValueIsByte, Zenon
  <2>4. expressed.sat \in 0 .. 255
      BY <1>1, GenesAreTyped
  <2> HIDE DEF hue, v
  <2>5. hsv[i] \in [h : 0 .. 255, s : 0 .. 255, v : 0 .. 255]
      BY <2>1, <2>2, <2>3, <2>4
  <2>6. hsv[i].h = hue /\ hsv[i].s = expressed.sat /\ hsv[i].v = v
      BY <2>1
  <2> QED BY <1>2, <2>5, <2>6, Zenon DEF KeptPixel, hue, v
<1>4. DOMAIN hsv = Pixel
    BY <1>2
<1> QED BY <1>1, <1>3, <1>4

\* A word of the ring is the spot where the spot was, else the colour of its pixel.
LEMMA PixelWords ==
  ASSUME RenderInv, hsv # <<>>, NEW i \in Pixel
  PROVE  /\ HasSpot /\ ShootAt(loop_state - 1) = i => Spotted(i + LED_OFFSET)
         /\ ~ (HasSpot /\ ShootAt(loop_state - 1) = i) =>
               led_buf[i + LED_OFFSET] = ledSetRGB(HsvToRgb(hsv[i]), SHIFT)
<1>1. FrameKept
    BY DEF RenderInv
<1> QED BY <1>1, Zenon DEF FrameKept, Spotted

\* Whatever the gene, the ring shows its colours and nothing else (main.c:264-285, 334-372).
THEOREM ColoursAlwaysTrue == RenderSpec => []ColoursAreTrue
<1>1. RenderInv => ColoursAreTrue
  <2> SUFFICES ASSUME RenderInv, NEW i \in DOMAIN hsv
               PROVE  /\ InBand(hsv[i].h)
                      /\ \/ HasSpot /\ Spotted(i + LED_OFFSET)
                         \/ IsColour(led_buf[i + LED_OFFSET], hsv[i])
      BY DEF ColoursAreTrue
  <2>1. hsv # <<>>
      OBVIOUS
  <2>2. i \in Pixel /\ KeptPixel(i) /\ loop_state - 1 \in Nat /\ GeneTyped
      BY <2>1, PixelsKept DEF RenderInv
  <2>3. InBand(hsv[i].h)
    <3> DEFINE t == Folded(TurnOf(expressed.hue_ratedir, loop_state - 1, i))
    <3>1. t \in 0 .. 255
        BY <2>2, HuePlaces
    <3>2. InBand(HueBefore(band, t) % 256)
        BY <2>2, <3>1, BandHolds
    <3>3. hsv[i].h = HueBefore(band, t) % 256
        BY <2>2 DEF KeptPixel, HueOf
    <3> QED BY <3>2, <3>3
  <2>4. hsv[i] \in [h : 0 .. 255, s : 0 .. 255, v : 0 .. 255]
      BY <2>2 DEF KeptPixel
  <2>5. IsColour(ledSetRGB(HsvToRgb(hsv[i]), SHIFT), hsv[i])
      BY <2>4, ColoursAreExact, Zenon
  <2>6. \/ HasSpot /\ Spotted(i + LED_OFFSET)
        \/ led_buf[i + LED_OFFSET] = ledSetRGB(HsvToRgb(hsv[i]), SHIFT)
      BY <2>1, <2>2, PixelWords
  <2>7. CASE HasSpot /\ Spotted(i + LED_OFFSET)
      BY <2>3, <2>7
  <2>8. CASE led_buf[i + LED_OFFSET] = ledSetRGB(HsvToRgb(hsv[i]), SHIFT)
    <3>1. IsColour(led_buf[i + LED_OFFSET], hsv[i])
        BY <2>5, <2>8, Zenon
    <3> QED BY <2>3, <3>1
  <2> QED BY <2>6, <2>7, <2>8
<1> QED BY <1>1, RenderAlways, PTL

\* A frame keeps to the wave.
LEMMA WaveStep ==
  ASSUME RenderInv, Frame, hsv # <<>>, NEW i \in Pixel
  PROVE  WaveFollows(i)
<1> DEFINE T == PeriodOf(wave)   x == - Period
<1>1. T \in Periods /\ Period \in 0 .. T /\ tau = T
    BY PeriodKept, ValueIs, Zenon
<1>2. PICK e \in 0 .. T : /\ elapsed = e + 3 \/ elapsed = e + 4
                          /\ hsv[i].v = ValueOf(wave, expressed.nonlin, i, - e)
    BY PixelsKept, Zenon DEF KeptPixel
<1> DEFINE y == - e
<1>3. Period = IF elapsed > T THEN 0 ELSE elapsed
    BY <1>1 DEF Period
<1>4. hsv'[i].v = ValueOf(wave, expressed.nonlin, i, x)
  <2>1. hsv'[i] = [h |-> HueOf(band, expressed.hue_ratedir, loop_state, i),
                   s |-> expressed.sat, v |-> ValueOf(wave, expressed.nonlin, i, x)]
      BY FrameLeaves, Zenon
  <2> QED BY <2>1
<1>5. wave \in [period : 0 .. 255, rate : 0 .. 255, dir : 0 .. 255]
    BY GenesAreTyped DEF RenderInv
<1>6. x \in Int /\ y \in Int /\ \E n \in -1 .. 1 : AreNear(T, x, y, n)
  <2> DEFINE p == Period
  <2> HIDE DEF T
  <2>1. T \in Int /\ p \in 0 .. T /\ e \in 0 .. T /\ (p = IF elapsed > T THEN 0 ELSE elapsed)
      BY <1>1, <1>3 DEF Periods
  <2>2. elapsed = e + 3 \/ elapsed = e + 4
      BY <1>2
  <2> HIDE DEF p
  <2>3. CASE elapsed > T
    <3>1. AreNear(T, - p, - e, -1)
        BY <2>1, <2>2, <2>3 DEF AreNear
    <3>2. -1 \in -1 .. 1 /\ - p \in Int /\ - e \in Int
        BY <2>1
    <3> QED BY <3>1, <3>2 DEF p
  <2>4. CASE ~ (elapsed > T)
    <3>1. AreNear(T, - p, - e, 0)
        BY <2>1, <2>2, <2>4 DEF AreNear
    <3>2. 0 \in -1 .. 1 /\ - p \in Int /\ - e \in Int
        BY <2>1
    <3> QED BY <3>1, <3>2 DEF p
  <2> QED BY <2>3, <2>4
<1>7. PICK n \in -1 .. 1 : AreNear(PeriodOf(wave), x, y, n)
    BY <1>6
<1> HIDE DEF x, y
<1>8. Magnitude(ValueOf(wave, expressed.nonlin, i, x) - ValueOf(wave, expressed.nonlin, i, y)) <= 2 * StepOf(T)
    BY <1>5, <1>6, <1>7, ValueFollows, Zenon
<1>9. hsv[i].v = ValueOf(wave, expressed.nonlin, i, y)
    BY <1>2 DEF y
<1>10. Magnitude(hsv'[i].v - hsv[i].v) <= 2 * StepOf(T)
    BY <1>4, <1>8, <1>9, Zenon
<1> HIDE DEF T
<1>11. StepOf(T) = 3200 \div tau + 2
    BY <1>1 DEF StepOf
<1> QED BY <1>10, <1>11 DEF WaveFollows

\* A frame keeps to the hue.
LEMMA HueStepOfFrame ==
  ASSUME RenderInv, Frame, hsv # <<>>, NEW i \in Pixel
  PROVE  HueFollows(i)
<1> DEFINE ratedir == expressed.hue_ratedir   r == ratedir % 16
           p == TurnOf(ratedir, loop_state - 1, i)   q == TurnOf(ratedir, loop_state, i)
           t == Folded(p)   u == Folded(q)
           x == HueBefore(band, t)   y == HueBefore(band, u)
           width == Magnitude(band[2] - band[1]) * r
           n == 1 + width \div 255
<1>1. band \in Byte \X Byte /\ ratedir \in Byte /\ loop_state - 1 \in Nat /\ loop_state - 1 + 1 = loop_state
  <2>1. GeneTyped /\ loop_state \in Nat \ {0}
      BY PixelsKept DEF RenderInv
  <2> QED BY <2>1, GenesAreTyped
<1>2. hsv[i].h = x % 256
    BY PixelsKept DEF KeptPixel, HueOf
<1>3. hsv'[i].h = y % 256
  <2>1. hsv'[i] = [h |-> HueOf(band, ratedir, loop_state, i),
                   s |-> expressed.sat, v |-> ValueOf(wave, expressed.nonlin, i, - Period)]
      BY FrameLeaves, Zenon
  <2>2. HueOf(band, ratedir, loop_state, i) = y % 256
      BY DEF HueOf
  <2> HIDE DEF ratedir, y
  <2> QED BY <2>1, <2>2
<1> HIDE DEF ratedir
<1>4. r \in 0 .. 15
    BY <1>1 DEF Byte
<1>5. TurnsBy(p, q, r)
    BY <1>1, TurnFollows, Zenon
<1> HIDE DEF p, q, r
<1>6. t \in 0 .. 255 /\ u \in 0 .. 255 /\ t - u <= r /\ u - t <= r
    BY <1>4, <1>5, FoldedFollows, Zenon
<1> HIDE DEF t, u
<1>7. x - y <= n /\ y - x <= n
    BY <1>1, <1>4, <1>6, HueStep, ZenonT(30)
<1>8. x \in -1 .. 255 /\ y \in -1 .. 255
    BY <1>1, <1>6, HueInBand, Zenon
<1> HIDE DEF x, y
<1>9. n \in Nat
  <2> DEFINE d == band[2] - band[1]
  <2>1. d \in -255 .. 255
      BY <1>1, BandBytes, Zenon
  <2> HIDE DEF d
  <2>2. Magnitude(d) \in Nat
      BY <2>1 DEF Magnitude
  <2> DEFINE m == Magnitude(d)
  <2>5. m \in Nat
      BY <2>2
  <2> HIDE DEF m
  <2>3. m * r \in Nat
      BY <1>4, <2>5
  <2>4. width = m * r
      BY DEF m, d
  <2> HIDE DEF width
  <2> QED BY <2>3, <2>4
<1> HIDE DEF n
<1>10. Around(x % 256, y % 256) <= n /\ Around(y % 256, x % 256) <= n
    BY <1>7, <1>8, <1>9, AroundFollows, Zenon
<1>11. Around(hsv'[i].h, hsv[i].h) <= n
    BY <1>2, <1>3, <1>10, Zenon
<1> QED BY <1>11, Zenon DEF HueFollows, n, width, r, ratedir

\* The spot stays or goes one pixel on.
LEMMA ShootFollows ==
  ASSUME NEW n \in Nat \ {0}
  PROVE  ShootAt(n - 1) = ShootAt(n) \/ ShootAt(n - 1) = (ShootAt(n) + COUNT - 1) % COUNT
<1> DEFINE a == (n - 1) % 512   b == n % 512   x == a \div 2   y == b \div 2
<1>1. a \in 0 .. 511 /\ (b = a + 1 \/ (a = 511 /\ b = 0))
    OBVIOUS
<1> HIDE DEF a, b
<1>2. x \in 0 .. 255 /\ (y = x \/ y = x + 1 \/ (x = 255 /\ y = 0))
    BY <1>1
<1>3. ShootAt(n - 1) = x % 8 /\ ShootAt(n) = y % 8 /\ COUNT = 8
    BY DEF ShootAt, a, b, COUNT, LEDS, LED_OFFSET
<1> HIDE DEF x, y
<1>4. x % 8 = y % 8 \/ x % 8 = ((y % 8) + 8 - 1) % 8
    BY <1>2
<1> QED BY <1>3, <1>4

\* A strong colour has a channel that is too weak for the spot's grey.
LEMMA StrongIsNoSpot ==
  ASSUME NEW c \in [h : 0 .. 255, s : 0 .. 255, v : 0 .. 255], c.s > 127
  PROVE  ledSetRGB(HsvToRgb(c), SHIFT) # ledSetRGB(Grey(160), SHIFT)
<1> DEFINE p == (c.v * (255 - c.s)) \div 256   rgb == HsvToRgb(c)
<1>1. p \in 0 .. 127
  <2> DEFINE v == c.v   w == 255 - c.s
  <2>1. v \in 0 .. 255 /\ w \in 0 .. 127
      OBVIOUS
  <2> HIDE DEF v, w
  <2>2. v * w <= 255 * w /\ 0 <= v * w /\ v * w \in Int
      BY <2>1
  <2> DEFINE vw == v * w
  <2> HIDE DEF vw
  <2>3. vw \in Int /\ 0 <= vw /\ vw <= 32385
      BY <2>1, <2>2 DEF vw
  <2>4. vw \div 256 \in 0 .. 127
      BY <2>3
  <2> QED BY <2>4 DEF vw, v, w
<1>2. c.s # 0
    OBVIOUS
<1>3. rgb[1] = p \/ rgb[2] = p \/ rgb[3] = p
    BY <1>2 DEF HsvToRgb
<1> HIDE DEF p, rgb
<1>4. PICK k \in 1 .. 3 : rgb[k] = p
    BY <1>3
<1>5. ledSetRGB(rgb, SHIFT)[k] = p \div 32
    BY <1>4 DEF ledSetRGB, SHIFT
<1>6. ledSetRGB(Grey(160), SHIFT)[k] = 5
    BY DEF ledSetRGB, SHIFT, Grey
<1>7. p \div 32 < 5
    BY <1>1
<1> HIDE DEF rgb
<1>8. ledSetRGB(rgb, SHIFT) # ledSetRGB(Grey(160), SHIFT)
    BY <1>1, <1>5, <1>6, <1>7
<1> QED BY <1>8 DEF rgb

\* A frame keeps to the spot.
LEMMA SpotStep ==
  ASSUME RenderInv, Frame, hsv # <<>>, NEW i \in Pixel
  PROVE  SpotFollows(i)
<1> SUFFICES ASSUME HasSpot, expressed.sat > 127, Spotted(i + LED_OFFSET)'
             PROVE  Spotted(i + LED_OFFSET) \/ Spotted(((i + COUNT - 1) % COUNT) + LED_OFFSET)
    BY DEF SpotFollows
<1>1. loop_state \in Nat \ {0}
    BY PixelsKept
<1> DEFINE c == hsv'[i]
<1>2. c \in [h : 0 .. 255, s : 0 .. 255, v : 0 .. 255] /\ c.s = expressed.sat
  <2> DEFINE hue == HueOf(band, expressed.hue_ratedir, loop_state, i)
             v == ValueOf(wave, expressed.nonlin, i, - Period)
  <2>1. c = [h |-> hue, s |-> expressed.sat, v |-> v]
      BY FrameLeaves, Zenon
  <2>2. GeneTyped /\ hue \in 0 .. 255
      BY <1>1, HueIsByte DEF RenderInv
  <2>3. - Period \in Int
      BY PeriodKept DEF Period, RenderInv
  <2>4. v \in 0 .. 255 /\ expressed.sat \in 0 .. 255
      BY <2>2, <2>3, GenesAreTyped, ValueIsByte
  <2> HIDE DEF c, hue, v
  <2> QED BY <2>1, <2>2, <2>4
<1>3. ShootAt(loop_state) = i
  <2>1. SUFFICES ASSUME ShootAt(loop_state) # i PROVE FALSE
      OBVIOUS
  <2>2. led_buf'[i + LED_OFFSET] = ledSetRGB(HsvToRgb(c), SHIFT)
      BY <2>1, FrameLeaves, Zenon
  <2>3. led_buf'[i + LED_OFFSET] = ledSetRGB(Grey(160), SHIFT)
      BY DEF Spotted
  <2>4. c.s > 127
      BY <1>2
  <2> HIDE DEF c
  <2> QED BY <1>2, <2>2, <2>3, <2>4, StrongIsNoSpot, Zenon
<1> DEFINE j == ShootAt(loop_state - 1)
<1>4. j = i \/ j = (i + COUNT - 1) % COUNT
    BY <1>1, <1>3, ShootFollows
<1>5. j \in Pixel
    BY <1>1 DEF ShootAt, Pixel, COUNT, LEDS, LED_OFFSET
<1>6. Spotted(j + LED_OFFSET)
    BY <1>5, PixelWords
<1> HIDE DEF j
<1> QED BY <1>4, <1>6

\* A frame follows from the one before it, whatever the gene: in brightness, hue and
\* spot (main.c:246-294, 325-346, fp_q16.h:283-323).
THEOREM FramesAlwaysFollow == RenderSpec => FramesFollow
<1> DEFINE Follows == \A i \in DOMAIN hsv : WaveFollows(i) /\ HueFollows(i) /\ SpotFollows(i)
<1>1. RenderInv /\ [RenderNext]_renderVars => [Follows]_renderVars
  <2> SUFFICES ASSUME RenderInv, RenderNext, NEW i \in DOMAIN hsv
               PROVE  WaveFollows(i) /\ HueFollows(i) /\ SpotFollows(i)
      OBVIOUS
  <2>1. hsv # <<>>
      OBVIOUS
  <2>2. i \in Pixel /\ started
      BY <2>1, PixelsKept
  <2>3. Frame
      BY <2>2 DEF RenderNext, RenderExpress, TestPattern, Start
  <2> QED BY <2>1, <2>2, <2>3, WaveStep, HueStepOfFrame, SpotStep
<1> HIDE DEF Follows
<1>2. RenderSpec => [][Follows]_renderVars
    BY <1>1, RenderAlways, PTL DEF RenderSpec
<1> QED BY <1>2 DEF FramesFollow, Follows
=============================================================================
