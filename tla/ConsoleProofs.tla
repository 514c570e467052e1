----------------------------- MODULE ConsoleProofs -----------------------------
(***************************************************************************)
(* Theorems about the console's own commands, for any lines, any number of *)
(* codes and whatever fails or happens in the vault meanwhile: the two     *)
(* processes log alike, and a number that was listed still names its code. *)
(***************************************************************************)
EXTENDS Console, SlotLemmas, SequenceTheorems

(* The two log levels *)

\* The level the vault was last told, whether it has come to it or not.
LastTold == IF levels = <<>> THEN vaultLog ELSE levels[Len(levels)]

\* Unless `debug log` is just about to tell it, or there is nobody to be told, the
\* vault was last told the console's level.
LogInv ==
  /\ levels \in Seq(BOOLEAN) /\ log \in BOOLEAN
  /\ vault = "dead" \/ (pc = "connect" /\ SetsLog) \/ LastTold = log

\* `debug log` sets one level and tells the other, with the vault's messages and
\* its death in between (debug.rs:44-80).
THEOREM LevelsAgree == Spec => []LogLevelsAgree
<1>1. Init => LogInv
  <2> SUFFICES ASSUME Init PROVE LogInv
      OBVIOUS
  <2>1. levels = <<>> /\ log = FALSE /\ vaultLog = FALSE
      BY DEF Init
  <2>2. levels \in Seq(BOOLEAN)
      BY <2>1
  <2> QED BY <2>1, <2>2 DEF LogInv, LastTold
<1>2. LogInv /\ [Next]_vars => LogInv'
  <2> SUFFICES ASSUME LogInv, [Next]_vars PROVE LogInv'
      OBVIOUS
  <2>1. levels \in Seq(BOOLEAN) /\ log \in BOOLEAN
      BY DEF LogInv
  <2>2. CASE SetLog
    <3>1. log' \in BOOLEAN /\ pc' = "connect" /\ line' = line /\ SetsLog /\ levels' = levels
        BY <2>2 DEF SetLog, vaultVars
    <3>2. SetsLog'
        BY <3>1 DEF SetsLog, Is
    <3> QED BY <2>1, <3>1, <3>2 DEF LogInv
  <2>3. CASE SendLevel
    <3>1. /\ log' = log /\ vault' = vault
          /\ (vault = "dead" /\ levels' = levels) \/ levels' = Append(levels, log)
        BY <2>3 DEF SendLevel, TellLevel
    <3>2. levels' = Append(levels, log) =>
            levels' \in Seq(BOOLEAN) /\ levels' # <<>> /\ levels'[Len(levels')] = log
        BY <2>1
    <3> QED BY <2>1, <3>1, <3>2 DEF LogInv, LastTold
  <2>4. CASE TakesLevel
    <3>1. /\ levels # <<>> /\ vaultLog' = Head(levels) /\ levels' = Tail(levels)
          /\ UNCHANGED <<pc, line, log, vault>>
        BY <2>4 DEF TakesLevel
    <3>2. levels' \in Seq(BOOLEAN)
        BY <2>1, <3>1
    <3>3. LastTold' = LastTold
      <4>1. CASE Len(levels) = 1
        <5>1. levels' = <<>> /\ Head(levels) = levels[1]
            BY <2>1, <3>1, <4>1
        <5> QED BY <3>1, <4>1, <5>1 DEF LastTold
      <4>2. CASE Len(levels) # 1
        <5>1. /\ Len(levels') = Len(levels) - 1
              /\ \A i \in 1 .. Len(levels') : levels'[i] = levels[i + 1]
            BY <2>1, <3>1, HeadTailProperties, Zenon
        <5>2. Len(levels) \in Nat /\ Len(levels) > 1
          <6>1. Len(levels) # 0 /\ Len(levels) \in Nat
              BY <2>1, <3>1, EmptySeq, LenProperties, Zenon
          <6>2. \A k \in Nat : k # 0 /\ k # 1 => k > 1
              OBVIOUS
          <6> QED BY <4>2, <6>1, <6>2, Zenon
        <5>3. levels' # <<>> /\ levels'[Len(levels')] = levels[Len(levels)]
            BY <5>1, <5>2
        <5> QED BY <3>1, <5>3 DEF LastTold
      <4> QED BY <4>1, <4>2
    <3>4. SetsLog' <=> SetsLog
        BY <3>1 DEF SetsLog, Is
    <3> QED BY <2>1, <3>1, <3>2, <3>3, <3>4 DEF LogInv
  <2>5. ASSUME UNCHANGED <<levels, log, vaultLog>>, vault = "dead" => vault' = "dead",
               pc = "connect" /\ SetsLog => pc' = "connect" /\ line' = line
        PROVE  LogInv'
    <3>1. pc = "connect" /\ SetsLog => SetsLog'
        BY <2>5 DEF SetsLog, Is
    <3>2. LastTold' = LastTold
        BY <2>5 DEF LastTold
    <3> QED BY <2>1, <2>5, <3>1, <3>2 DEF LogInv
  <2>6. CASE (\E l \in Lines : Type(l)) \/ Backspace \/ Enter
      BY <2>5, <2>6 DEF Type, Backspace, Enter, vaultVars
  <2>7. CASE DispatchHere \/ ListKeys \/ ReadCode \/ PrintList \/ PrintCode \/ Ask \/ Connect \/ NoAnswer
      BY <2>5, <2>7 DEF DispatchHere, ListKeys, ReadCode, PrintList, PrintCode, Ask, Connect,
         NoAnswer, vaultVars
  <2>8. CASE Starts \/ Dies \/ Answers \/ Scans \/ Deletes \/ UNCHANGED vars
      BY <2>5, <2>8 DEF Starts, Dies, Answers, Scans, Deletes, vars, vaultVars
  <2> QED BY <2>2, <2>3, <2>4, <2>6, <2>7, <2>8 DEF Next, Shell, Serves
<1>3. LogInv => LogLevelsAgree
    BY DEF LogInv, LogLevelsAgree, LastTold
<1> QED BY <1>1, <1>2, <1>3, PTL DEF Spec
-----------------------------------------------------------------------------
(* Types, and the codes that are read *)

\* The codes there are: the vault counts on, so that each new one is the last.
Counted == dict \subseteq 1 .. next - 1 /\ next \in 1 .. MaxCodes + 1

LEMMA CodeBounds ==
  /\ MaxCodes \in Nat /\ Code \subseteq Nat /\ Counter \notin Code
  /\ Counted => dict \subseteq Code /\ Keys \ {Counter} = dict
<1>1. MaxCodes \in Nat
    BY ConsoleAssumption DEF ConsoleAssumption
<1>2. Counted => dict \subseteq Code
    BY <1>1 DEF Counted, Code
<1> QED BY <1>1, <1>2 DEF Code, Counter, Keys

LEMMA CountedStep == Counted /\ [Next]_vars => Counted'
<1> SUFFICES ASSUME Counted, [Next]_vars PROVE Counted'
    OBVIOUS
<1>1. MaxCodes \in Nat
    BY CodeBounds
<1>2. CASE next <= MaxCodes /\ dict' = dict \union {next} /\ next' = next + 1
    BY <1>1, <1>2 DEF Counted
<1>3. CASE dict' \subseteq dict /\ next' = next
    BY <1>3 DEF Counted
<1>4. CASE (\E l \in Lines : Type(l)) \/ Backspace \/ Enter \/ Shell
    BY <1>3, <1>4 DEF Type, Backspace, Enter, Shell, DispatchHere, ListKeys, ReadCode,
       PrintList, PrintCode, SetLog, Ask, Connect, SendLevel, NoAnswer, dictionary
<1>5. CASE Starts \/ Dies \/ Serves \/ Scans \/ Deletes \/ UNCHANGED vars
    BY <1>2, <1>3, <1>5 DEF Starts, Dies, Serves, Answers, TakesLevel, Scans, Deletes, vars, dictionary
<1> QED BY <1>4, <1>5 DEF Next

\* The keys in order: the codes that are there, each once.
LEMMA SortedKeys ==
  ASSUME Counted, NEW keys \in SetToSeqs(Retain(Keys))
  PROVE  /\ keys \in Seq(Code) /\ DOMAIN keys \subseteq Nat
         /\ \A i \in DOMAIN keys : keys[i] \in dict
         /\ \A c \in dict : \E i \in DOMAIN keys : keys[i] = c
<1> DEFINE S == dict
           D == 1 .. Cardinality(S)
<1>1. Retain(Keys) = S
    BY CodeBounds DEF Retain
<1>2. keys \in [D -> S] /\ \A i, j \in D : i # j => keys[i] # keys[j]
    BY <1>1 DEF SetToSeqs
<1>3. IsFiniteSet(S) /\ Cardinality(S) \in Nat
  <2>1. next - 1 \in Int /\ S \in SUBSET (1 .. next - 1)
      BY CodeBounds DEF Counted
  <2>2. IsFiniteSet(1 .. next - 1)
      BY <2>1, FS_Interval
  <2> QED BY <2>1, <2>2, FS_Subset, FS_CardinalityType
<1>4. IsFiniteSet(D) /\ Cardinality(D) = Cardinality(S)
    BY <1>3, FS_Interval
<1> HIDE DEF D, S
<1>5. keys \in Injection(D, S)
    BY <1>2 DEF Injection, IsInjective
<1>6. keys \in Surjection(D, S)
    BY <1>3, <1>4, <1>5, FS_Injection
<1>7. \A c \in S : \E i \in D : keys[i] = c
    BY <1>6 DEF Surjection
<1>8. D = 1 .. Cardinality(S) /\ S = dict /\ S \subseteq Code
    BY CodeBounds DEF D, S
<1>9. keys \in Seq(Code) /\ DOMAIN keys = D
    BY <1>2, <1>3, <1>8
<1> QED BY <1>2, <1>3, <1>7, <1>8, <1>9

ReadInv == Counted /\ todo \in Seq(Code) /\ codes \in Seq(Code) /\ listed \in Seq(Code)

LEMMA ReadInit == Init => ReadInv
<1> SUFFICES ASSUME Init PROVE ReadInv
    OBVIOUS
<1>1. todo = <<>> /\ codes = <<>> /\ listed = <<>> /\ dict = {} /\ next = 1
    BY DEF Init
<1>2. <<>> \in Seq(Code)
    OBVIOUS
<1> QED BY <1>1, <1>2, CodeBounds DEF ReadInv, Counted

LEMMA ReadStep == ReadInv /\ [Next]_vars => ReadInv'
<1> SUFFICES ASSUME ReadInv, [Next]_vars PROVE ReadInv'
    OBVIOUS
<1>1. Counted' /\ Counted /\ todo \in Seq(Code) /\ codes \in Seq(Code) /\ listed \in Seq(Code)
    BY CountedStep DEF ReadInv
<1>2. <<>> \in Seq(Code)
    OBVIOUS
<1>3. CASE ListKeys
  <2>1. codes' = <<>> /\ listed' \in {listed, <<>>}
      BY <1>3 DEF ListKeys, listing
  <2>2. todo' \in SetToSeqs(Retain(Keys)) \/ todo' = <<>>
      BY <1>3 DEF ListKeys
  <2>3. todo' \in Seq(Code)
      BY <1>1, <1>2, <2>2, SortedKeys
  <2> QED BY <1>1, <1>2, <2>1, <2>3 DEF ReadInv
<1>4. CASE ReadCode
  <2>1. /\ todo # <<>> /\ todo' = Tail(todo) /\ listed' = listed
        /\ codes' \in {codes, Append(codes, Head(todo))}
      BY <1>4 DEF ReadCode
  <2>2. Head(todo) \in Code /\ Tail(todo) \in Seq(Code)
      BY <1>1, <2>1
  <2>3. Append(codes, Head(todo)) \in Seq(Code)
      BY <1>1, <2>2, AppendProperties
  <2> QED BY <1>1, <2>1, <2>2, <2>3 DEF ReadInv
<1>5. CASE PrintList \/ PrintCode
  <2>1. todo' = todo /\ codes' = <<>> /\ listed' \in {listed, codes}
      BY <1>5 DEF PrintList, PrintCode, listing
  <2> QED BY <1>1, <1>2, <2>1 DEF ReadInv
<1>6. ASSUME UNCHANGED <<todo, codes, listed>> PROVE ReadInv'
    BY <1>1, <1>6 DEF ReadInv
<1>7. CASE (\E l \in Lines : Type(l)) \/ Backspace \/ Enter
    BY <1>6, <1>7 DEF Type, Backspace, Enter, reading, listing
<1>8. CASE DispatchHere \/ SetLog \/ Ask \/ Connect \/ SendLevel \/ NoAnswer
    BY <1>6, <1>8 DEF DispatchHere, SetLog, Ask, Connect, SendLevel, NoAnswer, reading, listing
<1>9. CASE Starts \/ Dies \/ Serves \/ Scans \/ Deletes \/ UNCHANGED vars
    BY <1>6, <1>9 DEF Starts, Dies, Serves, Answers, TakesLevel, Scans, Deletes, vars, reading, listing
<1> QED BY <1>3, <1>4, <1>5, <1>7, <1>8, <1>9 DEF Next, Shell

\* The first of the codes there are, in order, and nothing else.
Segment(q) ==
  /\ Ascending(q)
  /\ \A i \in DOMAIN q : q[i] \in dict
  /\ \A c \in dict, i \in DOMAIN q : c <= q[i] => \E k \in DOMAIN q : q[k] = c

\* Two lists of the first codes there are give every number they both have to the
\* same code: the least number they disagree on would have its code earlier in one.
LEMMA SegmentsAgree ==
  ASSUME NEW q \in Seq(Nat), NEW r \in Seq(Nat), Segment(q), Segment(r)
  PROVE  \A n \in DOMAIN q \intersect DOMAIN r : q[n] = r[n]
<1> DEFINE Bad == {n \in DOMAIN q \intersect DOMAIN r : q[n] # r[n]}
<1> SUFFICES ASSUME Bad # {} PROVE FALSE
    OBVIOUS
<1>1. DOMAIN q \subseteq Nat /\ DOMAIN r \subseteq Nat
    OBVIOUS
<1>2. \A k, n \in Nat : (n \in DOMAIN q /\ k < n /\ k > 0 => k \in DOMAIN q)
                     /\ (n \in DOMAIN r /\ k < n /\ k > 0 => k \in DOMAIN r)
    OBVIOUS
<1>3. PICK n \in Bad : \A m \in Bad : n <= m
    BY <1>1, LeastNatural, Bad \in SUBSET Nat
<1>4. n \in DOMAIN q /\ n \in DOMAIN r /\ n \in Nat /\ q[n] \in Nat /\ r[n] \in Nat /\ q[n] # r[n]
    BY <1>1, <1>3
<1>5. ASSUME NEW f \in {q, r}, NEW g \in {q, r}, f[n] < g[n] PROVE FALSE
  <2>1. Segment(f) /\ Segment(g) /\ f \in Seq(Nat) /\ g \in Seq(Nat)
      BY <1>5
  <2>2. PICK k \in DOMAIN g : g[k] = f[n]
    <3>1. f[n] \in dict /\ n \in DOMAIN g /\ f[n] <= g[n]
        BY <1>4, <1>5, <2>1 DEF Segment
    <3> QED BY <2>1, <3>1 DEF Segment
  <2>3. k \in Nat /\ k > 0
      BY <2>1
  <2>4. k < n
    <3>1. n \in DOMAIN g
        BY <1>4, <1>5
    <3>2. ~ (n < k)
      <4>1. n < k => g[n] < g[k]
          BY <2>1, <3>1 DEF Segment, Ascending
      <4> QED BY <1>4, <1>5, <2>2, <4>1
    <3>3. n # k
        BY <1>4, <1>5, <2>2
    <3> QED BY <1>4, <2>3, <3>2, <3>3
  <2>5. k \in DOMAIN q /\ k \in DOMAIN r /\ k \notin Bad
      BY <1>2, <1>3, <1>4, <2>3, <2>4
  <2>6. q[k] = r[k]
      BY <2>5
  <2>7. f[k] < f[n]
      BY <1>4, <1>5, <2>1, <2>4, <2>5 DEF Segment, Ascending
  <2>8. f[k] = g[k]
      BY <1>5, <2>6
  <2> QED BY <1>4, <1>5, <2>2, <2>7, <2>8
<1>6. q[n] < r[n] \/ r[n] < q[n]
    BY <1>4
<1> QED BY <1>5, <1>6

\* While nothing was deleted or unreadable, what was listed last are the first of
\* the codes there are, and so are those being read.
NumbersInv ==
  ~ disturbed => Segment(listed) /\ (pc = "read" => Segment(codes \o todo))

\* Codes that are saved come after all there are.
LEMMA SegmentGrows ==
  ASSUME Counted, NEW q \in Seq(Nat), Segment(q),
         dict' = dict \/ (dict' = dict \union {next} /\ next' = next + 1)
  PROVE  Segment(q)'
<1>1. \A i \in DOMAIN q : q[i] \in dict /\ q[i] \in Nat
    BY DEF Segment
<1>2. dict \subseteq 1 .. next - 1 /\ next \in Nat
    BY CodeBounds DEF Counted
<1>3. \A c \in dict', i \in DOMAIN q : c <= q[i] => c \in dict
    BY <1>1, <1>2
<1> QED BY <1>1, <1>3 DEF Segment, Ascending

\* The next key that is read goes from one list to the end of the other.
LEMMA OneRead ==
  ASSUME NEW q \in Seq(Code), NEW r \in Seq(Code), r # <<>>
  PROVE  Append(q, Head(r)) \o Tail(r) = q \o r
<1>1. Head(r) \in Code /\ Tail(r) \in Seq(Code) /\ <<Head(r)>> \in Seq(Code)
    OBVIOUS
<1>2. Append(q, Head(r)) = q \o <<Head(r)>>
    BY <1>1, AppendIsConcat
<1>3. <<Head(r)>> \o Tail(r) = r
  <2>1. /\ Len(Tail(r)) = Len(r) - 1 /\ \A i \in 1 .. Len(Tail(r)) : Tail(r)[i] = r[i + 1]
      BY HeadTailProperties
  <2>2. Len(r) \in Nat \ {0} /\ Head(r) = r[1] /\ Len(<<Head(r)>>) = 1
      BY EmptySeq
  <2>3. /\ <<Head(r)>> \o Tail(r) \in Seq(Code) /\ Len(<<Head(r)>> \o Tail(r)) = Len(r)
        /\ \A i \in 1 .. Len(r) :
             (<<Head(r)>> \o Tail(r))[i] = IF i <= 1 THEN <<Head(r)>>[i] ELSE Tail(r)[i - 1]
      BY <1>1, <2>1, <2>2, ConcatProperties
  <2>4. \A i \in 1 .. Len(r) : (<<Head(r)>> \o Tail(r))[i] = r[i]
      BY <2>1, <2>2, <2>3
  <2> QED BY <2>3, <2>4, SeqEqual
<1> QED BY <1>1, <1>2, <1>3, ConcatAssociative

LEMMA NumbersStep == ReadInv /\ ReadInv' /\ NumbersInv /\ [Next]_vars => NumbersInv'
<1> SUFFICES ASSUME ReadInv, ReadInv', NumbersInv, [Next]_vars, ~ disturbed'
             PROVE  Segment(listed)' /\ (pc' = "read" => Segment(codes \o todo)')
    BY DEF NumbersInv
<1>1. /\ Counted /\ todo \in Seq(Code) /\ codes \in Seq(Code) /\ listed \in Seq(Code)
      /\ Code \subseteq Nat /\ Seq(Code) \subseteq Seq(Nat)
  <2>1. Code \subseteq Nat
      BY CodeBounds
  <2>2. \A q \in Seq(Code) : q \in Seq(Nat)
      BY <2>1, SeqMonotonic
  <2> QED BY <2>1, <2>2 DEF ReadInv
<1>2. codes \o todo \in Seq(Code)
    BY <1>1, ConcatProperties
<1>3. ASSUME dict' = dict, NEW q, Segment(q) PROVE Segment(q)'
    BY <1>3 DEF Segment
<1>4. Segment(<<>>)'
    BY DEF Segment, Ascending
<1>5. CASE ListKeys
  <2>1. /\ codes' = <<>> /\ dict' = dict /\ next' = next
        /\ UNCHANGED listing \/ listed' = <<>>
      BY <1>5 DEF ListKeys, dictionary
  <2>2. Segment(listed)'
      BY <1>3, <1>4, <2>1 DEF NumbersInv, listing
  <2>3. codes' \o todo' = todo'
      BY <2>1, ConcatEmptySeq DEF ReadInv
  <2>4. CASE todo' = <<>>
      BY <1>4, <2>2, <2>3, <2>4
  <2>5. CASE \E keys \in SetToSeqs(Retain(Keys)) : Ascending(keys) /\ todo' = keys
    <3>1. PICK keys \in SetToSeqs(Retain(Keys)) : Ascending(keys) /\ todo' = keys
        BY <2>5
    <3>2. /\ \A i \in DOMAIN keys : keys[i] \in dict
          /\ \A c \in dict : \E i \in DOMAIN keys : keys[i] = c
        BY <1>1, SortedKeys
    <3>3. Segment(keys)
        BY <3>1, <3>2 DEF Segment
    <3> QED BY <1>3, <2>1, <2>2, <2>3, <3>1, <3>3
  <2> QED BY <1>5, <2>4, <2>5 DEF ListKeys
<1>6. CASE ReadCode
  <2>1. /\ pc = "read" /\ todo # <<>> /\ todo' = Tail(todo) /\ dict' = dict /\ listed' = listed
        /\ disturbed' = disturbed
        /\ codes' = Append(codes, Head(todo)) \/ (Head(todo) \notin Keys /\ codes' = codes)
      BY <1>6 DEF ReadCode, dictionary
  <2>2. Segment(listed) /\ Segment(codes \o todo)
      BY <2>1 DEF NumbersInv
  <2>3. Head(todo) \in Keys
    <3>1. /\ Len(codes \o todo) = Len(codes) + Len(todo)
          /\ \A i \in 1 .. Len(codes) + Len(todo) :
               (codes \o todo)[i] = IF i <= Len(codes) THEN codes[i] ELSE todo[i - Len(codes)]
        BY <1>1, ConcatProperties
    <3>2. Len(codes) \in Nat /\ Len(todo) \in Nat \ {0} /\ Head(todo) = todo[1]
        BY <1>1, <2>1
    <3>3. Len(codes) + 1 \in DOMAIN (codes \o todo)
        BY <1>2, <3>1, <3>2
    <3>4. (codes \o todo)[Len(codes) + 1] = Head(todo)
        BY <3>1, <3>2
    <3> QED BY <2>2, <3>3, <3>4 DEF Segment, Keys
  <2>4. codes' \o todo' = codes \o todo
      BY <1>1, <2>1, <2>3, OneRead
  <2> QED BY <1>3, <2>1, <2>2, <2>4
<1>7. CASE PrintList
  <2>1. pc = "read" /\ todo = <<>> /\ listed' = codes /\ pc' = "idle" /\ UNCHANGED <<dict, disturbed>>
      BY <1>7 DEF PrintList, Answer, dictionary
  <2>2. codes \o todo = codes
      BY <1>1, <2>1, ConcatEmptySeq
  <2>3. Segment(codes)
      BY <2>1, <2>2 DEF NumbersInv
  <2> QED BY <1>3, <2>1, <2>3
<1>8. CASE PrintCode
  <2>1. pc' = "idle" /\ listed' = listed /\ UNCHANGED <<dict, disturbed>>
      BY <1>8 DEF PrintCode, Answer, dictionary, listing
  <2> QED BY <1>3, <2>1 DEF NumbersInv
<1>9. ASSUME UNCHANGED <<todo, codes, listed, disturbed>>, pc' = "read" => pc = "read",
             dict' = dict \/ (dict' = dict \union {next} /\ next' = next + 1)
      PROVE  Segment(listed)' /\ (pc' = "read" => Segment(codes \o todo)')
  <2>1. \A q \in Seq(Nat) : Segment(q) => Segment(q)'
      BY <1>1, <1>9, SegmentGrows
  <2>2. codes' \o todo' = codes \o todo /\ codes \o todo \in Seq(Nat) /\ listed \in Seq(Nat)
      BY <1>1, <1>2, <1>9
  <2> QED BY <1>9, <2>1, <2>2 DEF NumbersInv
<1>10. CASE (\E l \in Lines : Type(l)) \/ Backspace \/ Enter
    BY <1>9, <1>10 DEF Type, Backspace, Enter, reading, listing, dictionary
<1>11. CASE DispatchHere \/ SetLog \/ Ask \/ Connect \/ SendLevel \/ NoAnswer
    BY <1>9, <1>11 DEF DispatchHere, SetLog, Ask, Connect, SendLevel, NoAnswer, Answer, GiveUp,
       reading, listing, dictionary
<1>12. CASE Starts \/ Dies \/ Serves \/ Scans \/ UNCHANGED vars
    BY <1>9, <1>12 DEF Starts, Dies, Serves, Answers, TakesLevel, Scans, Answer, vars, reading,
       listing, dictionary
<1>13. ~ Deletes
    BY DEF Deletes
<1> QED BY <1>5, <1>6, <1>7, <1>8, <1>10, <1>11, <1>12, <1>13 DEF Next, Shell

\* A number that was listed still names its code, whatever was saved since or while
\* the keys were read, and whatever the console ran in between: both lists are the
\* first of the codes there are (qr.rs:40-63, 77-108).
THEOREM NumbersAreTrue == Spec => NumbersStayTrue
<1> DEFINE TrueNumber ==
      \A n \in DOMAIN listed :
        PrintCode /\ ~ disturbed /\ n = line[3] + 1 /\ answer' # <<"no code">>
          => answer' = <<"code", listed[n]>>
<1>1. Init => NumbersInv
    BY DEF Init, NumbersInv, Segment, Ascending
<1>2. ReadInv /\ NumbersInv => [TrueNumber]_vars
  <2> SUFFICES ASSUME ReadInv, NumbersInv, NEW n \in DOMAIN listed,
                      PrintCode, ~ disturbed, n = line[3] + 1, answer' # <<"no code">>
               PROVE  answer' = <<"code", listed[n]>>
      OBVIOUS
  <2>1. /\ pc = "read" /\ todo = <<>>
        /\ answer' = IF n \in DOMAIN codes THEN <<"code", codes[n]>> ELSE <<"no code">>
      BY DEF PrintCode, Answer
  <2>2. codes \in Seq(Nat) /\ listed \in Seq(Nat) /\ codes \o todo = codes
      BY <2>1, CodeBounds, SeqMonotonic, ConcatEmptySeq DEF ReadInv
  <2>3. Segment(codes) /\ Segment(listed)
      BY <2>1, <2>2 DEF NumbersInv
  <2> QED BY <2>1, <2>2, <2>3, SegmentsAgree
<1>3. Spec => []ReadInv
    BY ReadInit, ReadStep, PTL DEF Spec
<1>4. Spec => [](ReadInv /\ NumbersInv)
    BY <1>1, <1>3, NumbersStep, PTL DEF Spec
<1> QED BY <1>2, <1>4, PTL DEF NumbersStayTrue
-----------------------------------------------------------------------------
\* Types of the console, whatever is typed and whatever fails: a code that is
\* answered is one the vault has counted (shell.rs:47-98, cmds.rs:132-208,
\* qr.rs:40-108).
THEOREM ConsoleTypes == Spec => []TypeOK
<1> DEFINE Kept ==
      /\ input \in Lines \union {Blank}
      /\ pc \in {"idle", "run", "read", "connect", "reply"}
      /\ line \in Lines \union {Blank, Help}
      /\ Len(answer) = 2 => answer[2] \in Code
      /\ log \in BOOLEAN /\ vault \in {"starting", "up", "dead"} /\ vaultLog \in BOOLEAN
      /\ levels \in Seq(BOOLEAN) /\ disturbed \in BOOLEAN
<1>1. Init => Kept
  <2> SUFFICES ASSUME Init PROVE Kept
      OBVIOUS
  <2>1. levels = <<>> /\ answer = <<>> /\ <<>> \in Seq(BOOLEAN) /\ Len(<<>>) = 0
      BY DEF Init
  <2>2. levels \in Seq(BOOLEAN) /\ Len(answer) # 2
      BY <2>1
  <2>3. /\ input = Blank /\ line = Blank /\ pc = "idle" /\ log = FALSE
        /\ vault = "starting" /\ vaultLog = FALSE /\ disturbed = FALSE
      BY DEF Init
  <2> QED BY <2>2, <2>3
<1>2. Kept /\ ReadInv /\ [Next]_vars => Kept'
  <2> SUFFICES ASSUME Kept, ReadInv, [Next]_vars PROVE Kept'
      OBVIOUS
  <2>1. Typo \in Lines
      BY ConsoleAssumption DEF ConsoleAssumption
  <2>2. CASE (\E l \in Lines : Type(l)) \/ Backspace \/ Enter
    <3>1. /\ input' \in Lines \union {Blank}
          /\ line' \in Lines \union {Blank, Help} /\ pc' \in {"idle", "run"}
        BY <2>1, <2>2 DEF Type, Then, Backspace, Enter
    <3>2. UNCHANGED <<answer, log, vault, vaultLog, levels, disturbed>>
        BY <2>2 DEF Type, Backspace, Enter, vaultVars, listing
    <3> QED BY <3>1, <3>2
  <2>3. ASSUME NEW a, Answer(a), Len(a) = 2 => a[2] \in Code
        PROVE  pc' = "idle" /\ line' = Blank /\ (Len(answer') = 2 => answer'[2] \in Code)
      BY <2>3 DEF Answer
  <2>4. CASE DispatchHere
    <3>1. \E a : Answer(a) /\ (Len(a) = 2 => a[2] \in Code)
      <4>1. \E a \in {<<"help">>, answer, <<"its own">>, <<"commands">>} : Answer(a)
          BY <2>4 DEF DispatchHere
      <4>2. Len(<<"help">>) # 2 /\ Len(<<"its own">>) # 2 /\ Len(<<"commands">>) # 2
          OBVIOUS
      <4> QED BY <4>1, <4>2
    <3>2. UNCHANGED <<input, log, vault, vaultLog, levels, disturbed>>
        BY <2>4 DEF DispatchHere, vaultVars, listing
    <3> QED BY <2>3, <3>1, <3>2
  <2>5. CASE ListKeys \/ ReadCode
      BY <2>5 DEF ListKeys, ReadCode, vaultVars, listing
  <2>6. CASE PrintList \/ PrintCode
    <3>1. CASE PrintList
      <4>1. Len(<<"list">>) # 2
          OBVIOUS
      <4>2. Answer(<<"list">>)
          BY <3>1 DEF PrintList
      <4> QED BY <2>3, <3>1, <4>1, <4>2 DEF PrintList, vaultVars
    <3>2. CASE PrintCode
      <4>1. PICK n : Answer(IF n \in DOMAIN codes THEN <<"code", codes[n]>> ELSE <<"no code">>)
          BY <3>2 DEF PrintCode
      <4>2. n \in DOMAIN codes => codes[n] \in Code
          BY DEF ReadInv
      <4>3. Len(<<"no code">>) # 2
          OBVIOUS
      <4> QED BY <2>3, <3>2, <4>1, <4>2, <4>3 DEF PrintCode, vaultVars, listing
    <3> QED BY <2>6, <3>1, <3>2
  <2>7. CASE SetLog \/ Ask \/ Connect
      BY <2>7 DEF SetLog, Ask, Connect, vaultVars, listing
  <2>8. CASE SendLevel \/ NoAnswer \/ Answers
    <3>1. Len(<<"log">>) # 2 /\ Len(<<"ERR">>) # 2 /\ Len(<<"reply">>) # 2
        OBVIOUS
    <3>2. levels' \in Seq(BOOLEAN)
        BY <2>8 DEF SendLevel, TellLevel, NoAnswer, Answers, vaultVars
    <3>3. Answer(<<"log">>) \/ Answer(<<"ERR">>) \/ Answer(<<"reply">>)
        BY <2>8 DEF SendLevel, NoAnswer, GiveUp, Answers
    <3>4. UNCHANGED <<input, log, vault, vaultLog, disturbed>>
        BY <2>8 DEF SendLevel, NoAnswer, Answers, vaultVars, listing
    <3> QED BY <2>3, <3>1, <3>2, <3>3, <3>4
  <2>9. CASE Starts \/ Dies \/ TakesLevel \/ Scans \/ Deletes \/ UNCHANGED vars
    <3>1. UNCHANGED <<input, pc, line, answer, log>>
        BY <2>9 DEF Starts, Dies, TakesLevel, Scans, Deletes, vars
    <3>2. vault' \in {"starting", "up", "dead"} /\ disturbed' \in BOOLEAN
        BY <2>9 DEF Starts, Dies, TakesLevel, Scans, Deletes, vars, vaultVars, listing
    <3>3. vaultLog' \in BOOLEAN /\ levels' \in Seq(BOOLEAN)
      <4>1. CASE TakesLevel
          BY <4>1, HeadTailProperties DEF TakesLevel
      <4>2. CASE ~ TakesLevel
          BY <2>9, <4>2 DEF Starts, Dies, Scans, Deletes, vars, vaultVars
      <4> QED BY <4>1, <4>2
    <3> QED BY <3>1, <3>2, <3>3
  <2> QED BY <2>2, <2>4, <2>5, <2>6, <2>7, <2>8, <2>9 DEF Next, Shell, Serves
<1>3. Kept /\ ReadInv => TypeOK
    BY CodeBounds DEF ReadInv, Counted, TypeOK
<1>4. Spec => []ReadInv
    BY ReadInit, ReadStep, PTL DEF Spec
<1> HIDE DEF Kept
<1> QED BY <1>1, <1>2, <1>3, <1>4, PTL DEF Spec
=============================================================================
