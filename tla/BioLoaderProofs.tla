---------------------------- MODULE BioLoaderProofs ----------------------------
(***************************************************************************)
(* Theorems about the BIO loader, for any number of chunks, any pins and   *)
(* clocks, and whatever fails.                                             *)
(***************************************************************************)
EXTENDS BioLoader, SlotLemmas

\* Where chunks are taken in, a slot is empty: a full buffer is committed at once.
OpenHasRoom == pc \in {"boot", "shell", "sync"} => Filled # Chunk

\* What the keys hold was uploaded, or is a cleared key.
KeysWereUploaded == \A keys \in {mem, disk} : keys.code \in emitted \union {Solid(Zero)}

\* What is run was uploaded, and so was what the next reload would run.
ProgramsInv == KeysWereUploaded /\ RunsWholePrograms /\ RunningIsInitialised

PinsInv == ClaimsAllowedPins /\ pin_spec \subseteq ALLOWED_PINS

\* What the holding buffer needs, apart from the rest.
BufferInv == /\ chunks \in [Chunk -> Data \union {None}]
             /\ ReceivedCountsFilled /\ CommitsFullBuffer /\ OpenHasRoom

\* The invariant of the loader.
IInv == TypeOK /\ BufferInv /\ ProgramsInv /\ PinsInv

\* A cleared buffer counts as empty (bio.rs:318-323).
LEMMA ClearedBuffer ==
  ASSUME ClearBuffer
  PROVE  chunks' \in [Chunk -> Data \union {None}] /\ ReceivedCountsFilled' /\ Filled' = {}
                /\ Filled' # Chunk
<1>1. chunks' = Solid(None) /\ received_count' = 0
    BY DEF ClearBuffer
<1>2. chunks' \in [Chunk -> Data \union {None}] /\ Filled' = {}
    BY <1>1 DEF Solid, Filled
<1>3. Cardinality({}) = 0 /\ {} # Chunk
    BY LoaderAssumption, FillNone DEF LoaderAssumption, Chunk
<1> QED BY <1>1, <1>2, <1>3 DEF ReceivedCountsFilled

\* Putting a chunk, in an empty slot or a filled one, keeps count and slots
\* together, and the buffer is committed exactly when it is full (bio.rs:616-627).
LEMMA PutKeepsBuffer ==
  ASSUME BufferInv, PutChunk
  PROVE  BufferInv'
<1> PICK c \in Chunk, d \in Data : /\ chunks' = [chunks EXCEPT ![c] = d]
                                   /\ received_count' = CountNew(c)
    BY DEF PutChunk
<1>1. NUM_CHUNKS \in Nat \ {0} /\ None \notin Data
    BY LoaderAssumption DEF LoaderAssumption
<1>2. chunks' \in [Chunk -> Data \union {None}]
    BY DEF BufferInv
<1>3. Filled' = Filled \union {c}
    BY <1>1 DEF BufferInv, Filled
<1>4. Filled \in SUBSET (0 .. NUM_CHUNKS - 1) /\ c \in 0 .. NUM_CHUNKS - 1
    BY DEF Filled, Chunk
<1>5. Cardinality(Filled') = Cardinality(Filled) + (IF c \in Filled THEN 0 ELSE 1)
    BY <1>1, <1>3, <1>4, FillOne
<1>6. received_count' = Cardinality(Filled')
    BY <1>5 DEF BufferInv, ReceivedCountsFilled, CountNew, Filled
<1>7. received_count' = NUM_CHUNKS <=> Filled' = Chunk
  <2>1. Filled' \in SUBSET (0 .. NUM_CHUNKS - 1)
      BY <1>3, <1>4
  <2> QED BY <1>1, <1>6, <2>1, FilledBounds DEF Chunk
<1> QED BY <1>2, <1>6, <1>7
      DEF BufferInv, PutChunk, ReceivedCountsFilled, CommitsFullBuffer, OpenHasRoom

\* `bio pad` fills the buffer and counts what it filled (bio.rs:561-567).
LEMMA PadKeepsBuffer ==
  ASSUME BufferInv, Pad
  PROVE  BufferInv'
<1>1. NUM_CHUNKS \in Nat \ {0} /\ Zero \in Data /\ None \notin Data
    BY LoaderAssumption DEF LoaderAssumption
<1>2. chunks' = [c \in Chunk |-> IF chunks[c] = None THEN Zero ELSE chunks[c]]
    BY DEF Pad
<1>3. chunks' \in [Chunk -> Data \union {None}] /\ Filled' = Chunk
    BY <1>1, <1>2 DEF BufferInv, Filled
<1>4. Filled \in SUBSET (0 .. NUM_CHUNKS - 1) /\ Chunk \in SUBSET (0 .. NUM_CHUNKS - 1)
    BY DEF Filled, Chunk
<1>5. Cardinality(Filled) \in 0 .. NUM_CHUNKS /\ Cardinality(Chunk) = NUM_CHUNKS
    BY <1>1, <1>4, FilledBounds DEF Chunk
<1>6. received_count' = NUM_CHUNKS
    BY <1>1, <1>5 DEF Pad, PadCounted, BufferInv, ReceivedCountsFilled
<1> QED BY <1>3, <1>5, <1>6
      DEF BufferInv, Pad, ReceivedCountsFilled, CommitsFullBuffer, OpenHasRoom

\* No step of any command, failure or restart makes count and slots disagree.
LEMMA BufferStep == BufferInv /\ [Next]_vars => BufferInv'
<1> SUFFICES ASSUME BufferInv, [Next]_vars PROVE BufferInv'
    OBVIOUS
<1>1. CASE PutChunk
    BY <1>1, PutKeepsBuffer
<1>2. CASE Pad
    BY <1>2, PadKeepsBuffer
<1>3. CASE CommitWrite \/ Clear \/ ClearPanics
  <2>1. ClearBuffer /\ pc' # "commit"
      BY <1>3 DEF CommitWrite, Clear, ClearPanics
  <2> QED BY <2>1, ClearedBuffer DEF BufferInv, CommitsFullBuffer, OpenHasRoom
<1>4. CASE Restart
  <2>1. ClearBuffer /\ pc' # "commit"
      BY <1>4 DEF Restart, ClearBuffer
  <2> QED BY <2>1, ClearedBuffer DEF BufferInv, CommitsFullBuffer, OpenHasRoom
<1>5. CASE \/ Startup \/ Reload \/ RefuseChunk \/ NothingToSet \/ Sync \/ Panic \/ SetPins \/ SetClock
           \/ UNCHANGED vars
  <2>1. UNCHANGED buffer /\ (pc' # "commit" \/ UNCHANGED pc)
      BY <1>5 DEF Startup, Reload, RefuseChunk, NothingToSet, Sync, Panic, SetPins, SetClock, vars
  <2>2. pc' \in {"boot", "shell", "sync"} => pc \in {"boot", "shell", "sync"}
      BY <1>5 DEF Startup, Reload, RefuseChunk, NothingToSet, Sync, Panic, SetPins, SetClock, vars
  <2> QED BY <2>1, <2>2
        DEF BufferInv, buffer, ReceivedCountsFilled, CommitsFullBuffer, OpenHasRoom, Filled
<1> QED BY <1>1, <1>2, <1>3, <1>4, <1>5 DEF Next

\* What a message to the vault leaves behind, taken or lost (bio.rs:293, 425).
LEMMA ToldOrLost ==
  ASSUME NEW on, Tell(on)
  PROVE  /\ notice' \in {on, notice}
         /\ failed' \subseteq failed \union {"notice"} /\ failed \subseteq failed' \union {"notice"}
         /\ notice' = on \/ "notice" \in failed'
  BY DEF Tell

\* What a reload adds to what has failed, and that it tells when it starts a program.
LEMMA ReloadTells ==
  ASSUME NEW stop \in 0 .. 5, ReloadTo(stop)
  PROVE  /\ notice' \in {notice, TRUE}
         /\ failed' \subseteq failed \union {"claim", "notice"} /\ failed \subseteq failed' \union {"notice"}
         /\ stop = 5 /\ HasCode => notice' = TRUE \/ "notice" \in failed'
         /\ ~ (stop = 5 /\ HasCode) => notice' = notice /\ failed \subseteq failed'
         /\ stop = 4 => "claim" \in failed'
<1>1. CASE stop = 5 /\ HasCode
  <2>1. Tell(TRUE)
      BY <1>1 DEF ReloadTo, TellStart
  <2>2. /\ notice' \in {TRUE, notice} /\ (notice' = TRUE \/ "notice" \in failed')
        /\ failed' \subseteq failed \union {"notice"} /\ failed \subseteq failed' \union {"notice"}
      BY <2>1, ToldOrLost, Zenon
  <2>3. failed' \subseteq failed \union {"claim", "notice"} /\ stop # 4
      BY <1>1, <2>2
  <2> QED BY <1>1, <2>2, <2>3, Zenon
<1>2. CASE ~ (stop = 5 /\ HasCode)
  <2>1. notice' = notice /\ failed' = failed \union (IF stop = 4 THEN {"claim"} ELSE {})
      BY <1>2 DEF ReloadTo
  <2> QED BY <1>2, <2>1
<1> QED BY <1>1, <1>2

\* A reload, however far it comes, leaves types, programs and pins in order:
\* it starts nothing that was not uploaded and maps no pin the core may not
\* have (bio.rs:182-299).
LEMMA ReloadKeeps ==
  ASSUME TypeOK, ProgramsInv, PinsInv, NEW stop \in 0 .. 5, ReloadTo(stop), UNCHANGED <<pddb, emitted>>
  PROVE  /\ target_freq' \in 1 .. MAX_FREQ /\ core_init' \in BOOLEAN /\ notice' \in BOOLEAN
         /\ running' \in Code \union {Halted}
         /\ ProgramsInv' /\ PinsInv'
<1> USE DEF ReloadTo, pddb
<1>1. target_freq' \in 1 .. MAX_FREQ
    BY LoaderAssumption DEF LoaderAssumption, TypeOK, Frequency
<1>2. core_init' \in BOOLEAN
    BY DEF TypeOK
<1>3. notice' \in BOOLEAN
    BY ReloadTells DEF TypeOK
<1>4. running' \in {running, Halted} \/ (HasCode /\ running' = mem.code)
    OBVIOUS
<1>5. mem.code \in Code /\ (HasCode => mem.code \in emitted)
    BY DEF TypeOK, ProgramsInv, KeysWereUploaded, HasCode
<1>6. running' \in Code \union {Halted}
    BY <1>4, <1>5 DEF TypeOK
<1>7. RunsWholePrograms'
    BY <1>4, <1>5 DEF ProgramsInv, RunsWholePrograms, Halted, Solid
<1>8. RunningIsInitialised'
  <2>1. CASE ~ HasCode
    <3>1. core_init' = core_init /\ running' \in {running, Halted}
        BY <2>1
    <3> QED BY <3>1 DEF ProgramsInv, RunningIsInitialised, Halted, Solid
  <2>2. CASE HasCode /\ stop \in {3, 4}
    <3>1. running' = Halted
        BY <2>2
    <3> QED BY <3>1 DEF RunningIsInitialised, Halted, Solid
  <2>3. CASE HasCode /\ stop = 5
    <3>1. stop >= 3 /\ stop # 3
        BY <2>3
    <3>2. core_init'
        BY <2>3, <3>1, Zenon
    <3> QED BY <3>2 DEF RunningIsInitialised
  <2>4. CASE stop \in 0 .. 2
    <3>1. core_init' = core_init /\ running' = running
        BY <2>4
    <3> QED BY <3>1 DEF ProgramsInv, RunningIsInitialised, Halted, Solid
  <2> QED BY <2>1, <2>2, <2>3, <2>4
<1>9. KeysWereUploaded'
    BY DEF ProgramsInv, KeysWereUploaded
<1>10. NewPins \subseteq ALLOWED_PINS /\ ReleasePins \subseteq claimed
    BY DEF NewPins, check_pins, ReleasePins
<1>11. pin_spec' \subseteq ALLOWED_PINS
    BY <1>10 DEF PinsInv
<1>12. mapped' \subseteq ALLOWED_PINS
    BY <1>10 DEF PinsInv, ClaimsAllowedPins
<1>13. claimed' \subseteq ALLOWED_PINS
    BY <1>10 DEF PinsInv, ClaimsAllowedPins
<1> QED BY <1>1, <1>2, <1>3, <1>6, <1>7, <1>8, <1>9, <1>11, <1>12, <1>13
      DEF ProgramsInv, PinsInv, ClaimsAllowedPins

\* The buffer's part of the type invariant.
LEMMA BufferTypes ==
  ASSUME BufferInv
  PROVE  chunks \in [Chunk -> Data \union {None}] /\ received_count \in 0 .. NUM_CHUNKS
<1>1. Filled \in SUBSET (0 .. NUM_CHUNKS - 1) /\ NUM_CHUNKS \in Nat \ {0}
    BY LoaderAssumption DEF LoaderAssumption, Filled, Chunk
<1> QED BY <1>1, FilledBounds DEF BufferInv, ReceivedCountsFilled

\* The types that are not the buffer's.
OtherTypes ==
  /\ pc \in {"boot", "shell", "commit", "sync", "dead"}
  /\ target_freq \in 1 .. MAX_FREQ /\ core_init \in BOOLEAN
  /\ \A keys \in {mem, disk} : /\ DOMAIN keys = Keys
                               /\ keys.code \in Code /\ keys.clk \in Clocks \union {0}
                               /\ keys.pins \subseteq ALLOWED_PINS
  /\ running \in Code \union {Halted}
  /\ pin_spec \subseteq Nat /\ claimed \subseteq Nat /\ mapped \subseteq Nat
  /\ notice \in BOOLEAN /\ emitted \subseteq Code /\ failed \subseteq {"write", "claim", "notice"}
  /\ answer \in {"other", "SUCCESS"}

\* The two parts make up the whole, and the pins are numbers.
LEMMA TypeParts ==
  /\ TypeOK => OtherTypes
  /\ BufferInv /\ OtherTypes => TypeOK
  /\ PinsInv => pin_spec \subseteq Nat /\ claimed \subseteq Nat /\ mapped \subseteq Nat
<1>1. TypeOK => OtherTypes
    BY DEF TypeOK, OtherTypes
<1>2. BufferInv /\ OtherTypes => TypeOK
    BY BufferTypes DEF TypeOK, OtherTypes
<1>3. PinsInv => pin_spec \subseteq Nat /\ claimed \subseteq Nat /\ mapped \subseteq Nat
    BY LoaderAssumption DEF LoaderAssumption, PinsInv, ClaimsAllowedPins
<1> QED BY <1>1, <1>2, <1>3

\* A cleared key is a code, a clock and pins of the right types.
LEMMA ClearedTypes ==
  /\ DOMAIN Cleared = Keys /\ Cleared.code = Solid(Zero) /\ Solid(Zero) \in Code
  /\ Cleared.clk = 0 /\ Cleared.pins = {}
  BY LoaderAssumption DEF LoaderAssumption, Cleared, Keys, Solid, Code

\* Every step that is not one of the buffer's keeps the other types, and what
\* is kept in the PDDB, run on the core and mapped to it stays in order.
LEMMA OtherStep ==
  ASSUME IInv, [Next]_vars
  PROVE  OtherTypes' /\ ProgramsInv' /\ PinsInv'
<1>1. OtherTypes /\ BufferInv /\ ProgramsInv /\ PinsInv
    BY TypeParts DEF IInv
<1>2. CASE Startup \/ Reload
  <2>1. PICK stop \in Stops : ReloadTo(stop)
      BY <1>2 DEF Startup, Reload
  <2>2. stop \in 0 .. 5
      BY DEF Stops
  <2>3. UNCHANGED <<pddb, emitted>> /\ UNCHANGED answer
      BY <1>2 DEF Startup, Reload
  <2>4. /\ target_freq' \in 1 .. MAX_FREQ /\ core_init' \in BOOLEAN /\ notice' \in BOOLEAN
        /\ running' \in Code \union {Halted}
        /\ ProgramsInv' /\ PinsInv'
      BY <2>1, <2>2, <2>3, ReloadKeeps DEF IInv
  <2>5. pin_spec' \subseteq Nat /\ claimed' \subseteq Nat /\ mapped' \subseteq Nat
      BY <2>4, LoaderAssumption DEF LoaderAssumption, PinsInv, ClaimsAllowedPins
  <2>6. pc' \in {"boot", "shell", "commit", "sync", "dead"} /\ failed' \subseteq {"write", "claim", "notice"}
      BY <1>1, <1>2, <2>1, <2>2, ReloadTells DEF Startup, Reload, OtherTypes
  <2> QED BY <1>1, <2>3, <2>4, <2>5, <2>6 DEF OtherTypes, pddb
<1>3. CASE PutChunk \/ RefuseChunk \/ NothingToSet \/ Pad \/ Panic \/ UNCHANGED vars
  <2>1. UNCHANGED <<target_freq, core, pddb, pins, notice, emitted, failed>>
      BY <1>3 DEF PutChunk, RefuseChunk, NothingToSet, Pad, Panic, vars
  <2>2. /\ pc' \in {"boot", "shell", "commit", "sync", "dead"}
        /\ answer' \in {"other", "SUCCESS"}
      BY <1>1, <1>3 DEF PutChunk, RefuseChunk, NothingToSet, Pad, Panic, vars, OtherTypes
  <2>3. OtherTypes'
      BY <1>1, <2>1, <2>2 DEF OtherTypes, core, pddb, pins
  <2>4. ProgramsInv' /\ PinsInv'
      BY <1>1, <2>1 DEF ProgramsInv, KeysWereUploaded, RunsWholePrograms,
         RunningIsInitialised, PinsInv, ClaimsAllowedPins, core, pddb, pins
  <2> QED BY <2>3, <2>4
<1>4. CASE CommitWrite
  <2>1. /\ UNCHANGED <<target_freq, core, disk, pins, notice>> /\ pc' = "sync" /\ answer' = "SUCCESS"
        /\ failed' \subseteq {"write", "claim", "notice"}
      BY <1>1, <1>4 DEF CommitWrite, Written, Unwritten, OtherTypes
  <2>2. chunks \in Code
    <3>1. Filled = Chunk
        BY <1>1, <1>4 DEF CommitWrite, BufferInv, CommitsFullBuffer
    <3> QED BY <1>1, <3>1 DEF BufferInv, Filled, Code
  <2>3. /\ DOMAIN mem' = Keys /\ mem'.code \in {mem.code, chunks}
        /\ mem'.clk = mem.clk /\ mem'.pins = mem.pins
        /\ mem'.code = chunks => emitted' = emitted \union {chunks} \/ mem' = mem
        /\ emitted' \in {emitted, emitted \union {chunks}}
      BY <1>1, <1>4 DEF CommitWrite, Written, OtherTypes, Keys
  <2>4. OtherTypes'
      BY <1>1, <2>1, <2>2, <2>3 DEF OtherTypes, core, pins
  <2>5. KeysWereUploaded'
      BY <1>1, <2>1, <2>3 DEF ProgramsInv, KeysWereUploaded
  <2>6. RunsWholePrograms' /\ RunningIsInitialised' /\ PinsInv'
      BY <1>1, <2>1, <2>3 DEF ProgramsInv, RunsWholePrograms, RunningIsInitialised,
         PinsInv, ClaimsAllowedPins, core, pins
  <2> QED BY <2>4, <2>5, <2>6 DEF ProgramsInv
<1>5. CASE Sync
  <2>1. /\ UNCHANGED <<target_freq, core, mem, pins, notice, answer, emitted>> /\ pc' = "shell"
        /\ disk' \in {mem, disk} /\ failed' \subseteq {"write", "claim", "notice"}
      BY <1>1, <1>5 DEF Sync, SyncAll, Unwritten, OtherTypes
  <2>2. OtherTypes'
      BY <1>1, <2>1 DEF OtherTypes, core, pins
  <2>3. ProgramsInv' /\ PinsInv'
      BY <1>1, <2>1 DEF ProgramsInv, KeysWereUploaded, RunsWholePrograms,
         RunningIsInitialised, PinsInv, ClaimsAllowedPins, core, pins
  <2> QED BY <2>2, <2>3
<1>6. CASE Clear
  <2>1. /\ mem' = Cleared /\ ~ core_init' /\ core_init' \in BOOLEAN /\ running' = Halted
        /\ pin_spec' = {} /\ mapped' \subseteq mapped /\ claimed' \subseteq claimed
        /\ notice' \in {FALSE, notice} /\ failed' \subseteq failed \union {"notice"}
        /\ answer' = "other" /\ pc' = "sync"
        /\ UNCHANGED <<target_freq, disk, emitted>>
      BY <1>6, ToldOrLost DEF Clear, StopCore, ForgetPins
  <2>2. OtherTypes'
      BY <1>1, <2>1, ClearedTypes DEF OtherTypes
  <2>3. ProgramsInv' /\ PinsInv'
      BY <1>1, <2>1, ClearedTypes DEF ProgramsInv, KeysWereUploaded, RunsWholePrograms,
         RunningIsInitialised, PinsInv, ClaimsAllowedPins, Halted, Solid
  <2> QED BY <2>2, <2>3
<1>7. CASE ClearPanics
  <2>1. UNCHANGED <<target_freq, core, disk, pins, notice, answer, emitted, failed>> /\ pc' = "dead"
      BY <1>7 DEF ClearPanics
  <2>2. /\ DOMAIN mem' = Keys /\ mem'.code \in {mem.code, Cleared.code}
        /\ mem'.clk \in {mem.clk, Cleared.clk} /\ mem'.pins \in {mem.pins, Cleared.pins}
      BY <1>7 DEF ClearPanics, Keys
  <2>3. OtherTypes'
      BY <1>1, <2>1, <2>2, ClearedTypes DEF OtherTypes, core, pins
  <2>4. ProgramsInv' /\ PinsInv'
      BY <1>1, <2>1, <2>2, ClearedTypes DEF ProgramsInv, KeysWereUploaded, RunsWholePrograms,
         RunningIsInitialised, PinsInv, ClaimsAllowedPins, core, pins
  <2> QED BY <2>3, <2>4
<1>8. CASE SetPins \/ SetClock
  <2>1. UNCHANGED <<target_freq, core, disk, pins, notice, emitted>> /\ answer' = "other"
        /\ pc' \in {"shell", "sync"} /\ failed' \subseteq {"write", "claim", "notice"}
      BY <1>1, <1>8 DEF SetPins, SetClock, Written, Unwritten, OtherTypes
  <2>2. /\ DOMAIN mem' = Keys /\ mem'.code = mem.code
        /\ mem'.clk \in Clocks \union {0} /\ mem'.pins \subseteq ALLOWED_PINS
    <3>1. CASE SetPins
        BY <1>1, <3>1 DEF SetPins, Written, check_pins, OtherTypes, Keys
    <3>2. CASE SetClock
        BY <1>1, <3>2 DEF SetClock, Written, OtherTypes, Keys
    <3> QED BY <1>8, <3>1, <3>2
  <2>3. OtherTypes'
      BY <1>1, <2>1, <2>2 DEF OtherTypes, core, pins
  <2>4. ProgramsInv' /\ PinsInv'
      BY <1>1, <2>1, <2>2 DEF ProgramsInv, KeysWereUploaded, RunsWholePrograms,
         RunningIsInitialised, PinsInv, ClaimsAllowedPins, core, pins
  <2> QED BY <2>3, <2>4
<1>9. CASE Restart
  <2>1. /\ DOMAIN mem' = Keys /\ mem'.code \in {mem.code, disk.code}
        /\ mem'.clk \in {mem.clk, disk.clk} /\ mem'.pins \in {mem.pins, disk.pins}
        /\ disk' = mem'
      BY <1>9 DEF Restart, Keys
  <2>2. /\ pc' = "boot" /\ target_freq' = MAX_FREQ /\ pin_spec' = {}
        /\ core_init' \in BOOLEAN /\ notice' \in BOOLEAN
        /\ running' = Halted /\ claimed' = {} /\ mapped' = {}
        /\ answer' = "other" /\ emitted' = emitted /\ failed' = {}
      BY <1>9 DEF Restart
  <2>3. MAX_FREQ \in 1 .. MAX_FREQ
      BY LoaderAssumption DEF LoaderAssumption
  <2>4. OtherTypes'
      BY <1>1, <2>1, <2>2, <2>3 DEF OtherTypes
  <2>5. ProgramsInv' /\ PinsInv'
      BY <1>1, <2>1, <2>2 DEF ProgramsInv, KeysWereUploaded, RunsWholePrograms,
         RunningIsInitialised, PinsInv, ClaimsAllowedPins, Halted, Solid
  <2> QED BY <2>4, <2>5
<1> QED BY <1>2, <1>3, <1>4, <1>5, <1>6, <1>7, <1>8, <1>9 DEF Next

\* A badge that has never had a program starts in order.
LEMMA InitIInv == Init => IInv
<1> SUFFICES ASSUME Init PROVE IInv
    OBVIOUS
<1>1. BufferInv
  <2>1. chunks \in [Chunk -> Data \union {None}] /\ Filled = {} /\ received_count = 0
      BY DEF Init, Solid, Filled
  <2>2. Cardinality({}) = 0 /\ {} # Chunk
      BY LoaderAssumption, FillNone DEF LoaderAssumption, Chunk
  <2> QED BY <2>1, <2>2
        DEF Init, BufferInv, ReceivedCountsFilled, CommitsFullBuffer, OpenHasRoom
<1>2. OtherTypes
  <2>1. MAX_FREQ \in 1 .. MAX_FREQ
      BY LoaderAssumption DEF LoaderAssumption
  <2> QED BY <2>1, ClearedTypes DEF Init, OtherTypes
<1>3. ProgramsInv
    BY ClearedTypes DEF Init, ProgramsInv, KeysWereUploaded, RunsWholePrograms,
       RunningIsInitialised, Halted, Solid
<1>4. PinsInv
    BY DEF Init, PinsInv, ClaimsAllowedPins
<1> QED BY <1>1, <1>2, <1>3, <1>4, TypeParts DEF IInv

\* The invariant of the loader holds whatever commands, failures and restarts
\* come in whatever order.
THEOREM LoaderInvariant == Spec => []IInv
<1>1. IInv /\ [Next]_vars => IInv'
  <2> SUFFICES ASSUME IInv, [Next]_vars PROVE IInv'
      OBVIOUS
  <2>1. BufferInv'
      BY BufferStep DEF IInv
  <2>2. OtherTypes' /\ ProgramsInv' /\ PinsInv'
      BY OtherStep
  <2>3. TypeOK'
    <3>1. chunks' \in [Chunk -> Data \union {None}] /\ received_count' \in 0 .. NUM_CHUNKS
      <4>1. Filled' \in SUBSET (0 .. NUM_CHUNKS - 1) /\ NUM_CHUNKS \in Nat \ {0}
          BY LoaderAssumption DEF LoaderAssumption, Filled, Chunk
      <4> QED BY <2>1, <4>1, FilledBounds DEF BufferInv, ReceivedCountsFilled
    <3> QED BY <2>2, <3>1 DEF TypeOK, OtherTypes
  <2> QED BY <2>1, <2>2, <2>3 DEF IInv
<1> QED BY <1>1, InitIInv, PTL DEF Spec

\* The loader's variables keep their types; the clock the core gets is never
\* faster than the limit (bio.rs:196-208).
THEOREM TypeCorrect == Spec => []TypeOK
  BY LoaderInvariant, PTL DEF IInv

\* The counter stands for the slots (bio.rs:302-311): to_code, called when the
\* counter is full, finds every slot filled.
THEOREM CountStandsForSlots == Spec => [](ReceivedCountsFilled /\ CommitsFullBuffer)
<1>1. IInv => ReceivedCountsFilled /\ CommitsFullBuffer
    BY DEF IInv, BufferInv
<1> QED BY <1>1, LoaderInvariant, PTL

\* What the core runs was uploaded, whole, and the core was initialised with it,
\* whatever the PDDB, the core or a restart did in between (bio.rs:182-299).
THEOREM OnlyUploadedRuns == Spec => [](RunsWholePrograms /\ RunningIsInitialised)
<1>1. IInv => RunsWholePrograms /\ RunningIsInitialised
    BY DEF IInv, ProgramsInv
<1> QED BY <1>1, LoaderInvariant, PTL

\* Whatever pins are typed or stored, the core gets none but the allowed ones
\* (bio.rs:30-34, 270).
THEOREM OnlyAllowedPins == Spec => []ClaimsAllowedPins
<1>1. IInv => ClaimsAllowedPins
    BY DEF IInv, PinsInv
<1> QED BY <1>1, LoaderInvariant, PTL

\* However far a reload comes and whatever is typed, no path starts the core
\* without telling the vault: the notice is there, unless the message was lost
\* (bio.rs:289-297).
THEOREM StartIsAnnounced == Spec => []RunningIsAnnounced
<1>1. Init => RunningIsAnnounced
    BY DEF Init, RunningIsAnnounced
<1>2. RunningIsAnnounced /\ [Next]_vars => RunningIsAnnounced'
  <2> SUFFICES ASSUME RunningIsAnnounced, [Next]_vars PROVE RunningIsAnnounced'
      OBVIOUS
  <2> USE DEF RunningIsAnnounced
  <2>1. CASE Startup \/ Reload
    <3> PICK stop \in Stops : ReloadTo(stop)
        BY <2>1 DEF Startup, Reload
    <3>1. stop \in 0 .. 5
        BY DEF Stops
    <3>2. CASE stop = 5 /\ HasCode
        BY <3>1, <3>2, ReloadTells
    <3>3. CASE ~ (stop = 5 /\ HasCode)
      <4>1. running' = Halted \/ running' = running
          BY <3>3 DEF ReloadTo
      <4> QED BY <3>1, <3>3, <4>1, ReloadTells DEF Halted, Solid
    <3> QED BY <3>2, <3>3
  <2>2. CASE Clear \/ Restart
      BY <2>2 DEF Clear, StopCore, Restart, Halted, Solid
  <2>3. CASE \/ PutChunk \/ RefuseChunk \/ Pad \/ CommitWrite \/ Sync \/ Panic \/ ClearPanics
             \/ SetPins \/ NothingToSet \/ SetClock \/ UNCHANGED vars
    <3>1. UNCHANGED <<running, notice>> /\ failed \subseteq failed'
        BY <2>3 DEF PutChunk, RefuseChunk, Pad, CommitWrite, Sync, Panic, ClearPanics, SetPins,
           NothingToSet, SetClock, vars, core, Written, Unwritten
    <3> QED BY <3>1 DEF Halted, Solid
  <2> QED BY <2>1, <2>2, <2>3 DEF Next
<1> QED BY <1>1, <1>2, PTL DEF Spec

\* Whatever pins are set and wherever a reload stops, unless at a claim: every
\* pin the loader holds is in pin_spec, which is all the next reload releases
\* (bio.rs:210-220).
THEOREM PinsAreRemembered == Spec => []PinsAccounted
<1>1. Init => PinsAccounted
    BY DEF Init, PinsAccounted
<1>2. PinsAccounted /\ [Next]_vars => PinsAccounted'
  <2> SUFFICES ASSUME PinsAccounted, [Next]_vars PROVE PinsAccounted'
      OBVIOUS
  <2> USE DEF PinsAccounted
  <2>1. CASE Startup \/ Reload
    <3> PICK stop \in Stops : ReloadTo(stop)
        BY <2>1 DEF Startup, Reload
    <3>1. stop \in 0 .. 5
        BY DEF Stops
    <3>0. ("claim" \in failed => "claim" \in failed') /\ (stop = 4 => "claim" \in failed')
        BY <3>1, ReloadTells
    <3> USE DEF ReloadTo, ReleasePins
    <3>2. CASE stop = 0
        BY <3>0, <3>2
    <3>3. CASE stop \in 1 .. 3
        BY <3>0, <3>3
    <3>4. CASE stop = 4
        BY <3>0, <3>4
    <3>5. CASE stop = 5
        BY <3>0, <3>5
    <3> QED BY <3>1, <3>2, <3>3, <3>4, <3>5
  <2>2. CASE Clear
    <3>1. "claim" \in failed => "claim" \in failed'
        BY <2>2, ToldOrLost DEF Clear
    <3>2. mapped' = mapped \ pin_spec /\ claimed' = claimed \ pin_spec /\ pin_spec' = {}
        BY <2>2 DEF Clear, ForgetPins
    <3> QED BY <3>1, <3>2
  <2>4. CASE Restart
      BY <2>4 DEF Restart
  <2>3. CASE \/ PutChunk \/ RefuseChunk \/ Pad \/ CommitWrite \/ Sync \/ Panic \/ ClearPanics
             \/ SetPins \/ NothingToSet \/ SetClock \/ UNCHANGED vars
    <3>1. UNCHANGED pins /\ ("claim" \in failed => "claim" \in failed')
        BY <2>3 DEF PutChunk, RefuseChunk, Pad, CommitWrite, Sync, Panic, ClearPanics, SetPins,
           NothingToSet, SetClock, vars, Written, Unwritten
    <3> QED BY <3>1 DEF pins
  <2> QED BY <2>1, <2>2, <2>3, <2>4 DEF Next
<1> QED BY <1>1, <1>2, PTL DEF Spec

\* Between the write and the sync the flash is behind, and what was answered is
\* in what a read returns; at every other time the two agree.
DurableInv ==
  "write" \notin failed =>
    /\ pc \notin {"sync", "dead"} => disk.code = mem.code /\ disk.pins = mem.pins
    /\ pc # "dead" /\ answer = "SUCCESS" => mem.code \in emitted

\* What was answered is in the flash and survives, as long as no write has
\* failed since the start (bio.rs:325-338).
THEOREM AnsweredSurvives == Spec => []AnsweredIsDurable
<1>1. Init => DurableInv
    BY DEF Init, DurableInv
<1>2. TypeOK /\ DurableInv /\ [Next]_vars => DurableInv'
  <2> SUFFICES ASSUME TypeOK, DurableInv, [Next]_vars PROVE DurableInv'
      OBVIOUS
  <2> USE DEF DurableInv
  <2>0. DOMAIN mem = Keys
      BY DEF TypeOK
  <2>1. CASE Startup \/ Reload
    <3>1. UNCHANGED <<pddb, answer, emitted>> /\ pc \notin {"sync", "dead"}
        BY <2>1 DEF Startup, Reload
    <3>2. "write" \in failed => "write" \in failed'
      <4> PICK stop \in Stops : ReloadTo(stop)
          BY <2>1 DEF Startup, Reload
      <4>1. stop \in 0 .. 5
          BY DEF Stops
      <4> QED BY <4>1, ReloadTells
    <3> QED BY <3>1, <3>2 DEF pddb
  <2>2. CASE PutChunk \/ RefuseChunk \/ Pad \/ NothingToSet \/ Panic
    <3>1. /\ UNCHANGED <<pddb, emitted, failed>> /\ answer' \in {answer, "other"}
          /\ pc \notin {"sync", "dead"}
        BY <2>2 DEF PutChunk, RefuseChunk, Pad, NothingToSet, Panic
    <3> QED BY <3>1 DEF pddb
  <2>3. CASE CommitWrite
      BY <2>0, <2>3 DEF CommitWrite, Written, Unwritten, Keys
  <2>4. CASE Sync
      BY <2>4 DEF Sync, SyncAll, Unwritten
  <2>5. CASE Clear \/ ClearPanics
      BY <2>5 DEF Clear, ClearPanics
  <2>6. CASE SetPins
      BY <2>6 DEF SetPins
  <2>7. CASE SetClock
      BY <2>0, <2>7 DEF SetClock, Written, Unwritten, Keys
  <2>8. CASE Restart
      BY <2>8 DEF Restart
  <2>9. CASE UNCHANGED vars
      BY <2>9 DEF vars, pddb
  <2> QED BY <2>1, <2>2, <2>3, <2>4, <2>5, <2>6, <2>7, <2>8, <2>9 DEF Next
<1>3. DurableInv => AnsweredIsDurable
    BY DEF DurableInv, AnsweredIsDurable
<1> QED BY <1>1, <1>2, <1>3, TypeCorrect, PTL DEF Spec

\* Every step of the loader is a step of the abstract assembler, or none.
LEMMA StepRefines ==
  ASSUME IInv, [Next]_vars
  PROVE  [Assembler!Next]_(Assembler!asmVars)
<1> USE DEF Assembler!Next, Assembler!asmVars
<1>1. BufferInv /\ None \notin Data /\ Zero \in Data
    BY LoaderAssumption DEF IInv, LoaderAssumption
<1>2. CASE PutChunk
  <2>1. PICK c \in Chunk, d \in Data : chunks' = [chunks EXCEPT ![c] = d]
      BY <1>2 DEF PutChunk
  <2>2. Filled' = Filled \union {c} /\ Filled # Chunk /\ emitted' = emitted
      BY <1>1, <1>2, <2>1 DEF PutChunk, BufferInv, OpenHasRoom, Filled
  <2>3. Held' = [t \in Filled \union {c} |-> IF t = c THEN d ELSE Held[t]]
      BY <1>1, <2>1, <2>2 DEF Held, BufferInv, Filled
  <2>4. Assembler!Put(c, d)
      BY <2>2, <2>3 DEF Assembler!Put, Assembler!Full, Held
  <2> QED BY <2>4
<1>3. CASE Pad
  <2>1. chunks' = [c \in Chunk |-> IF chunks[c] = None THEN Zero ELSE chunks[c]]
      BY <1>3 DEF Pad
  <2>2. Filled' = Chunk /\ Filled # Chunk /\ emitted' = emitted
      BY <1>1, <1>3, <2>1 DEF Pad, BufferInv, OpenHasRoom, Filled, None, Zero
  <2>3. Held' = [t \in Chunk |-> IF t \in Filled THEN Held[t] ELSE Zero]
      BY <2>1, <2>2 DEF Held, Filled
  <2>4. Assembler!Pad(Zero)
      BY <2>2, <2>3 DEF Assembler!Pad, Assembler!Full, Held
  <2> QED BY <1>1, <2>4
<1>4. CASE CommitWrite \/ Clear \/ ClearPanics \/ Restart
  <2>1. chunks' = Solid(None)
      BY <1>4 DEF CommitWrite, Clear, ClearPanics, ClearBuffer, Restart
  <2>2. Held' = Assembler!Empty
      BY <2>1 DEF Held, Filled, Solid, Assembler!Empty
  <2>3. CASE emitted' = emitted
      BY <2>2, <2>3 DEF Assembler!Discard
  <2>4. CASE emitted' # emitted
    <3>1. CommitWrite /\ emitted' = emitted \union {chunks}
        BY <1>4, <2>4 DEF CommitWrite, Clear, ClearPanics, Restart
    <3>2. Filled = Chunk
        BY <1>1, <3>1 DEF CommitWrite, BufferInv, CommitsFullBuffer
    <3>3. Held = chunks /\ DOMAIN Held = Chunk
        BY <1>1, <3>2 DEF Held, BufferInv
    <3>4. Assembler!Emit
        BY <2>2, <3>1, <3>3 DEF Assembler!Emit, Assembler!Full
    <3> QED BY <3>4
  <2> QED BY <2>3, <2>4
<1>5. CASE \/ Startup \/ Reload \/ RefuseChunk \/ NothingToSet \/ Sync \/ Panic \/ SetPins \/ SetClock
           \/ UNCHANGED vars
  <2>1. UNCHANGED <<chunks, emitted>>
      BY <1>5 DEF Startup, Reload, RefuseChunk, NothingToSet, Sync, Panic, SetPins, SetClock, vars, buffer
  <2> QED BY <2>1 DEF Held, Filled
<1> QED BY <1>2, <1>3, <1>4, <1>5 DEF Next

\* The loader implements the abstract assembler: chunks in any order and any
\* number, padding, failures and restarts included, only complete buffers are
\* written, each once (bio.rs:302-339, 556-630).
THEOREM LoaderAssembles == Spec => ImplementsAssembler
<1>1. Init => Assembler!Init
  <2> SUFFICES ASSUME Init PROVE Assembler!Init
      OBVIOUS
  <2>1. Held = Assembler!Empty
      BY DEF Init, Held, Filled, Solid, Assembler!Empty
  <2> QED BY <2>1 DEF Init, Assembler!Init
<1>2. IInv /\ [Next]_vars => [Assembler!Next]_(Assembler!asmVars)
    BY StepRefines
<1> QED BY <1>1, <1>2, LoaderInvariant, PTL DEF Spec, ImplementsAssembler, Assembler!Spec
=============================================================================
