---------------------------- MODULE ChunkAssembler ----------------------------
(***************************************************************************)
(* What the two chunked loaders of the console promise (`photo put` of     *)
(* cmds/photo.rs, `bio <chunk>` of cmds/bio.rs), without the counter, the  *)
(* replies, the line the chunks travel on or the store they end up in:     *)
(* chunks arrive in any order and any number of times, the last one to     *)
(* arrive for a slot wins, and the buffer is handed on exactly when, and   *)
(* only when, every slot holds a chunk.  The buffer may be discarded at    *)
(* any moment.                                                             *)
(***************************************************************************)
CONSTANTS Slots,    \* the chunk numbers
          Data      \* what a chunk may carry

VARIABLES held,     \* the chunks held so far: a function on a subset of Slots
          emitted   \* the complete buffers handed on so far

asmVars == <<held, emitted>>

Empty == [s \in {} |-> s]

Full == DOMAIN held = Slots

TypeOK == /\ \E S \in SUBSET Slots : held \in [S -> Data]
          /\ emitted \subseteq [Slots -> Data]

Init == held = Empty /\ emitted = {}

\* A chunk is put in its slot, whether the slot was empty or not.
Put(s, d) ==
  /\ ~ Full
  /\ held' = [t \in DOMAIN held \union {s} |-> IF t = s THEN d ELSE held[t]]
  /\ UNCHANGED emitted

\* Every slot still empty is filled with the same chunk.
Pad(d) ==
  /\ ~ Full
  /\ held' = [t \in Slots |-> IF t \in DOMAIN held THEN held[t] ELSE d]
  /\ UNCHANGED emitted

\* The complete buffer is handed on and the slots are empty again.
Emit ==
  /\ Full
  /\ held' = Empty
  /\ emitted' = emitted \union {held}

\* The buffer is thrown away: on request, because what should have taken it
\* refused it, or because the badge restarted.
Discard == held' = Empty /\ UNCHANGED emitted

Next ==
  \/ Discard \/ Emit
  \/ \E d \in Data : Pad(d) \/ \E s \in Slots : Put(s, d)

Spec == Init /\ [][Next]_asmVars
=============================================================================
