------------------------------- MODULE BioLoader -------------------------------
(***************************************************************************)
(* The `bio` command of cmds/bio.rs: it collects a program for the BIO     *)
(* co-processor in chunks, keeps it with a clock and a list of pins in the *)
(* PDDB, and loads the three onto the core it has claimed.                 *)
(*                                                                         *)
(* Each key of the PDDB has two values: what a read returns (mem) and what *)
(* the flash holds (disk); a restart may lose what was not synced.  A key  *)
(* that is absent reads as its cleared value, and loads the same way.      *)
(* A chunk's 64 bytes are a number.  The pins are a set: check_pins sorts  *)
(* them and removes duplicates.  The co-processor and the vault, which     *)
(* shows the "BIO ACTIVE" notice, are not part of this repository.         *)
(***************************************************************************)
EXTENDS Naturals, FiniteSets

CONSTANTS NUM_CHUNKS,    \* 60 in the code
          Data,          \* what an uploaded chunk may hold
          ALLOWED_PINS,  \* {21, 22, 30, 31} in the code
          TypedPins,     \* the pins users name
          MAX_FREQ,      \* 350 MHz in the code
          Clocks,        \* the frequencies users name
          Faults         \* what may fail, and whether the badge restarts

Chunk == 0 .. NUM_CHUNKS - 1
None == 0                 \* an empty slot, a core without a program
Zero == 1                 \* 64 zero bytes
Solid(v) == [c \in Chunk |-> v]
Halted == Solid(None)
Keys == {"code", "clk", "pins"}

ASSUME LoaderAssumption ==
  /\ NUM_CHUNKS \in Nat \ {0} /\ MAX_FREQ \in Nat \ {0}
  /\ Data \subseteq Nat \ {None} /\ Zero \in Data
  /\ ALLOWED_PINS \subseteq Nat /\ IsFiniteSet(ALLOWED_PINS)
  /\ TypedPins \subseteq Nat /\ Clocks \subseteq Nat
  /\ Faults \subseteq {"get",      \* the PDDB cannot open or read a key
                       "write",    \* it cannot write or sync one
                       "init",     \* the core does not take the program
                       "claim",    \* a pin cannot be claimed
                       "send",     \* the vault does not take a notice
                       "restart"}

VARIABLES
  pc,                       \* "boot", "shell", "commit", "sync" or "dead"
  chunks, received_count,   \* the holding buffer
  target_freq, pin_spec, core_init,
  mem, disk,                \* the three keys of the PDDB
  running,                  \* the program the core runs, or Halted
  claimed, mapped,          \* pins claimed for and mapped to the core
  notice,                   \* the vault shows "BIO ACTIVE"
  answer,                   \* the last answer: "SUCCESS", an upload's, or another
  emitted,                  \* history: the programs written to the PDDB
  failed                    \* history: "write" or "claim", if one has failed since the
                            \* start; "notice", if what the vault was last told was lost

buffer == <<chunks, received_count>>
pddb == <<mem, disk>>
core == <<core_init, running>>
pins == <<pin_spec, claimed, mapped>>
vars == <<pc, buffer, target_freq, core, pddb, pins, notice, answer, emitted, failed>>

Cleared == [code |-> Solid(Zero), clk |-> 0, pins |-> {}]
Filled == {c \in Chunk : chunks[c] # None}

\* BioLoader::new, before its reload.
Init ==
  /\ pc = "boot"
  /\ chunks = Solid(None) /\ received_count = 0
  /\ target_freq = MAX_FREQ /\ pin_spec = {} /\ core_init = FALSE
  /\ running = Halted /\ claimed = {} /\ mapped = {} /\ notice = FALSE
  /\ mem = Cleared /\ disk = Cleared
  /\ answer = "other" /\ emitted = {} /\ failed = {}
-----------------------------------------------------------------------------
(* reload *)

check_pins(typed) == typed \cap ALLOWED_PINS

Frequency(clk) == IF clk \in 1 .. MAX_FREQ THEN clk ELSE MAX_FREQ

\* As a bug would have it: a cleared key is loaded too.
AnyCode == TRUE

HasCode == mem.code # Solid(Zero)
NewPins == check_pins(mem.pins)

\* How far a reload comes: 0, 1, 2 it cannot read the clock, the pins or the
\* code; 3 the core cannot be initialised; 4 a pin cannot be claimed; 5 to the end.
Stops ==
  {5} \union (IF "get" \in Faults THEN {0, 1, 2} ELSE {})
      \union (IF "init" \in Faults /\ HasCode THEN {3} ELSE {})
      \union (IF "claim" \in Faults /\ NewPins # {} THEN {4} ELSE {})

\* As a bug would have it: the old pins stay claimed.
KeepPins == claimed

ReleasePins == claimed \ pin_spec

\* A message to the vault, whose error is ignored.
Tell(on) ==
  \/ notice' = on /\ failed' = failed \ {"notice"}
  \/ /\ "send" \in Faults /\ UNCHANGED notice
     /\ failed' = IF notice = on THEN failed \ {"notice"} ELSE failed \union {"notice"}

\* As a bug would have it: the vault is not told.
SilentStart == UNCHANGED <<notice, failed>>

\* The vault is told when a program is started.
TellStart == Tell(TRUE)

ReloadTo(stop) ==
  /\ target_freq' = IF stop >= 1 THEN Frequency(mem.clk) ELSE target_freq
  /\ mapped' = CASE stop = 0 -> mapped
                 [] stop \in 1 .. 4 -> mapped \ pin_spec
                 [] stop = 5 -> (mapped \ pin_spec) \union NewPins
  /\ \E some \in SUBSET NewPins :
       /\ stop = 4 => some # NewPins
       /\ claimed' = CASE stop = 0 -> claimed
                       [] stop \in 1 .. 3 -> ReleasePins
                       [] stop = 4 -> ReleasePins \union some
                       [] stop = 5 -> ReleasePins \union NewPins
  /\ core_init' = IF stop >= 3 /\ HasCode THEN stop # 3 ELSE core_init
  /\ running' = CASE stop = 5 -> IF HasCode THEN mem.code ELSE Halted
                  [] stop \in {3, 4} /\ HasCode -> Halted
                  [] OTHER -> running
  /\ pin_spec' = IF stop = 5 THEN NewPins ELSE pin_spec
  /\ IF stop = 5 /\ HasCode
       THEN TellStart
       ELSE UNCHANGED notice /\ failed' = failed \union (IF stop = 4 THEN {"claim"} ELSE {})

\* BioLoader::new ends with a reload whose failure is only logged.
Startup ==
  /\ pc = "boot" /\ pc' = "shell"
  /\ \E stop \in Stops : ReloadTo(stop)
  /\ UNCHANGED <<buffer, pddb, answer, emitted>>

Reload ==
  /\ pc = "shell"
  /\ \E stop \in Stops : ReloadTo(stop)
  /\ UNCHANGED <<pc, buffer, pddb, answer, emitted>>
-----------------------------------------------------------------------------
(* The chunks *)

CountNew(c) == received_count + (IF chunks[c] = None THEN 1 ELSE 0)

\* A chunk that passes its CRC; the one that completes the program is committed.
PutChunk ==
  /\ pc = "shell"
  /\ \E c \in Chunk, d \in Data :
       /\ chunks' = [chunks EXCEPT ![c] = d]
       /\ received_count' = CountNew(c)
  /\ IF received_count' = NUM_CHUNKS
       THEN pc' = "commit" /\ UNCHANGED answer
       ELSE pc' = pc /\ answer' = "other"
  /\ UNCHANGED <<target_freq, core, pddb, pins, notice, emitted, failed>>

\* A chunk that does not pass the length, CRC or index test.
RefuseChunk ==
  /\ pc = "shell" /\ answer' = "other"
  /\ UNCHANGED <<pc, buffer, target_freq, core, pddb, pins, notice, emitted, failed>>

PadCounted == received_count' = received_count + (NUM_CHUNKS - Cardinality(Filled))

\* `bio pad`
Pad ==
  /\ pc = "shell" /\ pc' = "commit"
  /\ chunks' = [c \in Chunk |-> IF chunks[c] = None THEN Zero ELSE chunks[c]]
  /\ PadCounted
  /\ UNCHANGED <<target_freq, core, pddb, pins, notice, answer, emitted, failed>>

\* As a bug would have it: only the count is reset.
ResetCountOnly == received_count' = 0 /\ UNCHANGED chunks

ClearBuffer == chunks' = Solid(None) /\ received_count' = 0

Written(key, v) == mem' = [mem EXCEPT ![key] = v] /\ UNCHANGED failed

\* Where writes fail, the error of one is ignored.
Unwritten == "write" \in Faults /\ failed' = failed \union {"write"}

\* commit: the key is written, or the write's error is ignored; the holding
\* buffer is reset either way.
CommitWrite ==
  /\ pc = "commit" /\ pc' = "sync"
  /\ \/ Written("code", chunks) /\ emitted' = emitted \union {chunks}
     \/ Unwritten /\ UNCHANGED <<mem, emitted>>
  /\ ClearBuffer /\ answer' = "SUCCESS"
  /\ UNCHANGED <<target_freq, core, disk, pins, notice>>

\* As a bug would have it: nothing makes the keys durable.
SyncNothing == UNCHANGED disk

SyncAll == disk' = mem

\* pddb.sync(), whose error is ignored, ends every command that calls it.
Sync ==
  /\ pc = "sync" /\ pc' = "shell"
  /\ (SyncAll /\ UNCHANGED failed) \/ (Unwritten /\ UNCHANGED disk)
  /\ UNCHANGED <<buffer, target_freq, core, mem, pins, notice, answer, emitted>>

\* The expect() on opening a key panics, and the console is gone.
Panic ==
  /\ pc \in {"shell", "commit"} /\ "get" \in Faults
  /\ pc' = "dead"
  /\ UNCHANGED <<buffer, target_freq, core, pddb, pins, notice, answer, emitted, failed>>
-----------------------------------------------------------------------------
(* The other subcommands *)

ForgetPins == mapped' = mapped \ pin_spec /\ claimed' = claimed \ pin_spec /\ pin_spec' = {}

StopCore == core_init' = FALSE /\ running' = Halted

\* `bio clear`: the buffer, the three keys, the core, the pins and the notice.
Clear ==
  /\ pc = "shell" /\ pc' = "sync"
  /\ ClearBuffer
  /\ mem' = Cleared
  /\ StopCore
  /\ ForgetPins
  /\ Tell(FALSE)
  /\ answer' = "other"
  /\ UNCHANGED <<target_freq, disk, emitted>>

\* The same, where a key cannot be opened or written and the unwrap panics:
\* the keys before it are cleared, the core runs on.
ClearPanics ==
  /\ pc = "shell" /\ {"get", "write"} \cap Faults # {} /\ pc' = "dead"
  /\ ClearBuffer
  /\ \E done \in {{}, {"code"}, {"code", "clk"}} :
       mem' = [k \in Keys |-> IF k \in done THEN Cleared[k] ELSE mem[k]]
  /\ UNCHANGED <<target_freq, core, disk, pins, notice, answer, emitted, failed>>

\* `bio pin`
SetPins ==
  /\ pc = "shell" /\ pc' = "sync"
  /\ \/ \E typed \in SUBSET TypedPins : Written("pins", check_pins(typed))
     \/ Unwritten /\ UNCHANGED mem
  /\ answer' = "other"
  /\ UNCHANGED <<buffer, target_freq, core, disk, pins, notice, emitted>>

\* `bio pin` and `bio clk` without an argument write nothing.
NothingToSet ==
  /\ pc = "shell" /\ answer' = "other"
  /\ UNCHANGED <<pc, buffer, target_freq, core, pddb, pins, notice, emitted, failed>>

\* `bio clk`: zero first, then the frequency if the argument is a number; the
\* key is not synced.
SetClock ==
  /\ pc = "shell"
  /\ \/ \E clk \in Clocks \union {0} : Written("clk", clk)
     \/ Unwritten /\ UNCHANGED mem
  /\ answer' = "other"
  /\ UNCHANGED <<pc, buffer, target_freq, core, disk, pins, notice, emitted>>

\* The badge restarts: of each key either value may be left, and the vault has
\* started afresh too.
Restart ==
  /\ "restart" \in Faults /\ pc' = "boot"
  /\ \E lost \in SUBSET Keys :
       mem' = [k \in Keys |-> IF k \in lost THEN disk[k] ELSE mem[k]]
  /\ disk' = mem'
  /\ chunks' = Solid(None) /\ received_count' = 0
  /\ target_freq' = MAX_FREQ /\ pin_spec' = {} /\ core_init' = FALSE
  /\ running' = Halted /\ claimed' = {} /\ mapped' = {} /\ notice' = FALSE
  /\ answer' = "other" /\ failed' = {} /\ UNCHANGED emitted

Next ==
  \/ Startup \/ Reload \/ PutChunk \/ RefuseChunk \/ Pad \/ CommitWrite \/ Sync
  \/ Panic \/ Clear \/ ClearPanics \/ SetPins \/ NothingToSet \/ SetClock \/ Restart

Spec == Init /\ [][Next]_vars
-----------------------------------------------------------------------------
Code == [Chunk -> Data]

TypeOK ==
  /\ pc \in {"boot", "shell", "commit", "sync", "dead"}
  /\ chunks \in [Chunk -> Data \union {None}] /\ received_count \in 0 .. NUM_CHUNKS
  /\ target_freq \in 1 .. MAX_FREQ /\ core_init \in BOOLEAN
  /\ \A keys \in {mem, disk} : /\ DOMAIN keys = Keys
                               /\ keys.code \in Code /\ keys.clk \in Clocks \union {0}
                               /\ keys.pins \subseteq ALLOWED_PINS
  /\ running \in Code \union {Halted}
  /\ pin_spec \subseteq Nat /\ claimed \subseteq Nat /\ mapped \subseteq Nat
  /\ notice \in BOOLEAN /\ emitted \subseteq Code /\ failed \subseteq {"write", "claim", "notice"}
  /\ answer \in {"other", "SUCCESS"}

\* `received_count` stands for the slots: neither a chunk sent twice nor the
\* padding makes the two disagree, so to_code's assertion and unwrap never fail
\* (bio.rs:302-311, 561-567, 616-623).
ReceivedCountsFilled == received_count = Cardinality(Filled)

\* A program is committed with every slot filled (bio.rs:306-307).
CommitsFullBuffer == pc = "commit" => Filled = Chunk

\* A core that runs has been initialised with what it runs (bio.rs:251-262, 289-291).
RunningIsInitialised == running # Halted => core_init

\* The vault shows the notice whenever a program runs: no path starts the core
\* and does not tell, or tells and leaves it halted (bio.rs:289-297, 421-425).
\* The message's error is ignored, and where the last one was lost the notice is
\* what it was before, until another is taken.
RunningIsAnnounced == running # Halted /\ "notice" \notin failed => notice

\* Every pin that is mapped to the core is claimed, and the loader remembers
\* every pin it holds: what the next reload will "release any claimed pins" from
\* (bio.rs:210).  Only a claim that has failed breaks it: that reload forgets the
\* pins it claimed before it.
PinsAccounted ==
  /\ mapped \subseteq claimed
  /\ "claim" \notin failed => claimed \subseteq pin_spec

\* Whatever users type, the core only ever gets the pins it may have (bio.rs:27-34).
ClaimsAllowedPins == claimed \union mapped \subseteq ALLOWED_PINS

\* What was answered survives: with no command running, code and pins in the
\* flash are what the console reads, and after "SUCCESS" the flash holds an
\* uploaded program: commit is to "persist the assembled code to PDDB"
\* (bio.rs:325, 337, 402, 450).  A write that failed is not noticed, and after it
\* nothing is promised until the badge starts again.
AnsweredIsDurable ==
  pc = "shell" /\ "write" \notin failed =>
    /\ disk.code = mem.code /\ disk.pins = mem.pins
    /\ answer = "SUCCESS" => disk.code \in emitted

\* The program the core runs was uploaded, whole: neither a half-filled buffer
\* nor a mixture of a cleared key and an old one is started.
RunsWholePrograms == running # Halted => running \in emitted

\* The slots that hold something, for the abstract assembler.
Held == [c \in Filled |-> chunks[c]]

Assembler == INSTANCE ChunkAssembler WITH
               Slots <- Chunk, Data <- Data, held <- Held, emitted <- emitted

\* `bio <chunk>` and `bio pad`, the counter included, do what the abstract
\* assembler promises: only complete buffers are handed on, each once.
ImplementsAssembler == Assembler!Spec
=============================================================================
