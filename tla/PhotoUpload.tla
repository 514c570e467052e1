----------------------------- MODULE PhotoUpload -----------------------------
(***************************************************************************)
(* Sending a photo to the badge: the script the `upload` command prints    *)
(* (cmds/upload.rs), the serial line and the shell that turn its text into *)
(* commands (shell.rs), the `photo put` command that collects the chunks   *)
(* and stores the photo (cmds/photo.rs), and the vault, which owns the     *)
(* same album in the PDDB and is not part of this repository.              *)
(*                                                                         *)
(* A chunk's 64 bytes are the number of the upload it belongs to: the      *)
(* properties only ask whether a stored photo is all one image.  Chunk     *)
(* text, CRC and base64 are a line that arrives whole or garbled.          *)
(***************************************************************************)
EXTENDS Integers, Sequences, FiniteSets

CONSTANTS NUM_CHUNKS,   \* 32 in the code
          PHOTO_CAP,    \* the most photos the album takes
          ATTEMPTS,     \* 6 in the script: tries for one chunk
          EchoesOK,     \* the chunks whose base64 text contains "OK"
          Events,       \* what may go wrong, or happen besides (see below)
          MaxUploads,   \* bound: how often the script is run
          MaxShots,     \* bound: how many photos the camera takes
          OldKeys       \* bound: photos of earlier days have keys below this

PossibleEvents ==
  {"garble",    \* characters of a line are lost or changed
   "drop",      \* only the Enter of a line arrives
   "noenter",   \* the Enter of a line is lost
   "stall",     \* the host's port takes no more bytes, for a while or for ever
   "slow",      \* the script's four seconds end before the badge answers
   "reboot",    \* the badge restarts
   "listfail",  \* the PDDB cannot list the album
   "storefail", \* the PDDB cannot create or write a key
   "delete",    \* the vault deletes a photo
   "race"}      \* the vault saves or deletes while the console is inside store()

ASSUME UploadAssumption ==
  /\ NUM_CHUNKS \in Nat \ {0}
  /\ PHOTO_CAP \in Nat
  /\ ATTEMPTS \in Nat \ {0}
  /\ EchoesOK \subseteq 0 .. NUM_CHUNKS - 1
  /\ Events \subseteq PossibleEvents
  /\ MaxUploads \in Nat
  /\ MaxShots \in Nat
  /\ OldKeys \in Nat

Chunk == 0 .. NUM_CHUNKS - 1
None == 0                      \* an empty slot
Uploads == 1 .. MaxUploads     \* runs of the script, each with its own image
Camera == MaxUploads + 1       \* what the camera writes
Pixels == Uploads \union {None, Camera}
Bitmap == [Chunk -> Pixels]
Solid(p) == [c \in Chunk |-> p]

Line == [op : {"clear", "chunk", "garbled", "none"}, n : Chunk, u : Uploads \union {None}]
Clear == [op |-> "clear", n |-> 0, u |-> None]
PutLine(n, u) == [op |-> "chunk", n |-> n, u |-> u]
Garbled == [op |-> "garbled", n |-> 0, u |-> None]
NoText == [op |-> "none", n |-> 0, u |-> None]

Ack == {"OK", "SUCCESS"}
Reply == Ack \union {"ERR", "CLEAR", "help"}

VARIABLES
  \* the script
  phase,      \* "idle", "greet", "clear", "send", "feed", "wait", "done" or "exit"
  upload,     \* which run of the script this is
  n,          \* the chunk it is sending
  attempt,    \* tries of this chunk so far
  \* the line
  writable,   \* select() says that the host's port takes bytes
  wire,       \* lines typed at the badge and not yet read by the shell
  replies,    \* output the script has not read
  \* the badge's console
  pc,         \* "read", "entered", "create" or "write"
  input,      \* the shell's input line
  chunks,     \* Photo::chunks
  received,   \* Photo::received
  words,      \* the bitmap store() was called with
  key,        \* the key store() chose
  \* the album in the PDDB
  album,      \* a function from the keys present to what they hold
  shots,      \* photos the camera has taken
  \* history, read by the properties only
  saved,      \* bitmaps whose write succeeded
  crowded     \* the camera has saved a photo while store() ran

scriptVars == <<phase, upload, n, attempt, writable>>
consoleVars == <<pc, input, chunks, received, words, key>>
albumVars == <<album, shots, saved, crowded>>
vars == <<scriptVars, wire, replies, consoleVars, albumVars>>

Put1(f, k, v) == [x \in DOMAIN f \union {k} |-> IF x = k THEN v ELSE f[x]]
Filled == {c \in Chunk : chunks[c] # None}

\* The album is on the flash: photos of earlier days are in it.
Init ==
  /\ phase = "idle" /\ upload = 0 /\ n = 0 /\ attempt = 0 /\ writable = TRUE
  /\ wire = <<>> /\ replies = <<>>
  /\ pc = "read" /\ input = NoText
  /\ chunks = Solid(None) /\ received = 0 /\ words = Solid(None) /\ key = 0
  /\ \E old \in SUBSET (0 .. OldKeys - 1) :
       Cardinality(old) <= PHOTO_CAP /\ album = [k \in old |-> Solid(Camera)]
  /\ shots = 0 /\ saved = {} /\ crowded = FALSE
-----------------------------------------------------------------------------
(* The script *)

Feeding == phase \in {"greet", "feed"}
Running == Feeding \/ phase \in {"clear", "send", "wait"}

\* talk(): whatever has already arrived is thrown away, ...
Speak == replies' = <<>> /\ UNCHANGED wire

StartScript ==
  /\ ~ Running /\ upload < MaxUploads
  /\ phase' = "greet" /\ upload' = upload + 1 /\ n' = 0 /\ attempt' = 0
  /\ Speak
  /\ UNCHANGED <<writable, consoleVars, albumVars>>

SendChunk ==
  /\ phase = "send"
  /\ phase' = "feed" /\ attempt' = attempt + 1
  /\ Speak
  /\ UNCHANGED <<upload, n, writable, consoleVars, albumVars>>

\* ... then the line is fed to the port.  The loop has no time limit: it goes round
\* while select() does not find the port writable.  The line is there with its last
\* piece, the Enter.
Feed ==
  /\ Feeding /\ writable
  /\ phase' = IF phase = "greet" THEN "clear" ELSE "wait"
  /\ wire' = Append(wire, IF phase = "greet" THEN Clear ELSE PutLine(n, upload))
  /\ UNCHANGED <<upload, n, attempt, writable, replies, consoleVars, albumVars>>

\* The port, which only the feeding loop looks at: the host's buffer is full as long as
\* the badge does not read.
PortTurns ==
  /\ "stall" \in Events /\ Feeding
  /\ writable' = ~ writable
  /\ UNCHANGED <<phase, upload, n, attempt, wire, replies, consoleVars, albumVars>>

NextChunk ==
  IF n + 1 = NUM_CHUNKS
    THEN phase' = "done" /\ UNCHANGED <<n, attempt>>
    ELSE phase' = "send" /\ n' = n + 1 /\ attempt' = 0

\* As a bug would have it: the tries start from zero after each refusal.
TryAgainAfresh == phase' = "send" /\ attempt' = 0 /\ UNCHANGED n

TryAgain ==
  /\ phase' = IF attempt < ATTEMPTS THEN "send" ELSE "exit"
  /\ UNCHANGED <<n, attempt>>

\* As a bug would have it: what is not an error is an acknowledgement.
AcknowledgedUnlessErr(got) == "ERR" \notin got

Acknowledged(got) == got \cap Ack # {}
Refused(got) == "ERR" \in got

\* The script reads some of what has arrived; it stops at "OK", "SUCCESS" or
\* "ERR" and goes on reading after anything else.
ReadReplies ==
  /\ phase \in {"clear", "wait"}
  /\ \E k \in 1 .. Len(replies) :
       LET got == {replies[i] : i \in 1 .. k} IN
       /\ replies' = SubSeq(replies, k + 1, Len(replies))
       /\ \/ /\ phase = "clear" /\ (Acknowledged(got) \/ Refused(got))
             /\ phase' = "send" /\ UNCHANGED <<n, attempt>>
          \/ phase = "wait" /\ Acknowledged(got) /\ NextChunk
          \/ phase = "wait" /\ ~ Acknowledged(got) /\ Refused(got) /\ TryAgain
          \/ /\ ~ Acknowledged(got) /\ ~ Refused(got)
             /\ UNCHANGED <<phase, n, attempt>>
  /\ UNCHANGED <<upload, writable, wire, consoleVars, albumVars>>

\* Nothing more will come until something is typed.
Quiet == wire = <<>> /\ replies = <<>> /\ pc = "read"

\* The four seconds are over.  The reply to "photo put clear" is not looked at.
Timeout ==
  /\ phase \in {"clear", "wait"}
  /\ Quiet \/ "slow" \in Events
  /\ IF phase = "clear" THEN phase' = "send" /\ UNCHANGED <<n, attempt>> ELSE TryAgain
  /\ UNCHANGED <<upload, writable, wire, replies, consoleVars, albumVars>>
-----------------------------------------------------------------------------
(* The badge's console *)

\* What a line that was typed leaves in the shell's input: text left from a
\* line that lost its Enter comes before it.
Typed(line) == IF input = NoText THEN line ELSE Garbled

\* The echo of a chunk's text may contain the letters of an acknowledgement.
EchoOf(line) == IF line.op = "chunk" /\ line.n \in EchoesOK THEN <<"OK">> ELSE <<>>

\* The shell takes the characters of a line one at a time and echoes them.
TypeLine(outcome) ==
  /\ pc = "read" /\ wire # <<>>
  /\ wire' = Tail(wire)
  /\ LET line == Head(wire) IN
     \/ /\ outcome = "ok"
        /\ input' = Typed(line) /\ pc' = "entered"
        /\ replies' = replies \o EchoOf(line)
     \/ /\ outcome = "garble"
        /\ input' = Garbled /\ pc' = "entered"
        /\ replies' \in {replies, replies \o EchoOf(line)}
     \/ /\ outcome = "drop"
        /\ pc' = "entered" /\ UNCHANGED <<input, replies>>
     \/ /\ outcome = "noenter"
        /\ input' = Typed(line) /\ pc' = "read"
        /\ replies' = replies \o EchoOf(line)
  /\ UNCHANGED <<scriptVars, chunks, received, words, key, albumVars>>

\* The shell has finished a command: its answer is printed and it reads on.
Finish(reply) ==
  /\ pc' = "read"
  /\ replies' = Append(replies, reply)

\* Enter on an empty line, or a line whose verb did not survive, is answered
\* with a listing of the commands; a chunk that fails the length, the CRC or
\* the index test is refused.
Mistyped ==
  /\ pc = "entered" /\ input.op \in {"none", "garbled"}
  /\ \E reply \in IF input.op = "none" THEN {"help"} ELSE {"help", "ERR"} : Finish(reply)
  /\ input' = NoText
  /\ UNCHANGED <<scriptVars, wire, chunks, received, words, key, albumVars>>

\* As bugs would have it: the slots survive, or count and slots do.
ClearCountOnly == received' = 0 /\ UNCHANGED chunks
ClearNothing == UNCHANGED <<chunks, received>>

\* Photo::clear
ClearChunks == chunks' = Solid(None) /\ received' = 0

PutClear ==
  /\ pc = "entered" /\ input.op = "clear"
  /\ ClearChunks
  /\ Finish("CLEAR")
  /\ input' = NoText
  /\ UNCHANGED <<scriptVars, wire, words, key, albumVars>>

\* As a bug would have it: a chunk that comes twice counts twice.
ReceivedAfterAny(c) == received + 1

\* How many slots are filled once chunk c has been put.
ReceivedAfter(c) == IF chunks[c] = None THEN received + 1 ELSE received

\* As a bug would have it: the largest of the keys listed.
NextKeyLargest(listed) ==
  IF listed = {} THEN 0 ELSE CHOOSE k \in listed : \A j \in listed : j <= k

\* The next key: one more than the largest of the keys listed.
NextKey(listed) ==
  IF listed = {} THEN 0 ELSE 1 + (CHOOSE k \in listed : \A j \in listed : j <= k)

WithChunk == [chunks EXCEPT ![input.n] = input.u]

\* What list_keys answers; an error is taken for an empty album.
Listing == {DOMAIN album} \union (IF "listfail" \in Events THEN {{}} ELSE {})

\* As a bug would have it: one more than the cap.
HasRoomForOneMore(listed) == Cardinality(listed) <= PHOTO_CAP

HasRoom(listed) == Cardinality(listed) < PHOTO_CAP

\* A chunk that does not complete the photo.
PutChunk ==
  /\ pc = "entered" /\ input.op = "chunk"
  /\ ReceivedAfter(input.n) # NUM_CHUNKS
  /\ chunks' = WithChunk
  /\ received' = ReceivedAfter(input.n)
  /\ Finish("OK")
  /\ input' = NoText
  /\ UNCHANGED <<scriptVars, wire, words, key, albumVars>>

\* The chunk that completes the photo: the bitmap is assembled and store()
\* lists the album.  With no room the photo is dropped and so are its chunks.
PutLastChunk ==
  /\ pc = "entered" /\ input.op = "chunk"
  /\ ReceivedAfter(input.n) = NUM_CHUNKS
  /\ input' = NoText
  /\ words' = WithChunk
  /\ \E listed \in Listing :
       IF HasRoom(listed)
         THEN /\ chunks' = WithChunk
              /\ received' = ReceivedAfter(input.n)
              /\ key' = NextKey(listed)
              /\ pc' = "create"
              /\ UNCHANGED replies
         ELSE ClearChunks /\ Finish("ERR") /\ UNCHANGED key
  /\ UNCHANGED <<scriptVars, wire, albumVars>>

\* store() gives up: the caller clears the chunks and says the store is full.
StoreFails ==
  /\ pc \in {"create", "write"} /\ "storefail" \in Events
  /\ ClearChunks
  /\ Finish("ERR")
  /\ UNCHANGED <<scriptVars, wire, input, words, key, albumVars>>

\* get() with create set: the key exists afterwards; what an existing key held
\* is still there.
StoreCreate ==
  /\ pc = "create"
  /\ pc' = "write"
  /\ album' = IF key \in DOMAIN album THEN album ELSE Put1(album, key, Solid(None))
  /\ UNCHANGED <<scriptVars, wire, replies, input, chunks, received, words, key,
                 shots, saved, crowded>>

\* write_all() and sync(), then the chunks are cleared.  A key that the vault has
\* deleted meanwhile is written anew, or the write fails as in StoreFails.
StoreWrite ==
  /\ pc = "write"
  /\ album' = Put1(album, key, words)
  /\ saved' = saved \union {words}
  /\ ClearChunks
  /\ Finish("SUCCESS")
  /\ UNCHANGED <<scriptVars, wire, input, words, key, shots, crowded>>

\* The badge restarts: the chunks are gone, a key created and not yet synced
\* may be, and the script's port is closed: a read or a write of it fails.
Reboot ==
  /\ "reboot" \in Events
  /\ pc' = "read" /\ input' = NoText /\ wire' = <<>> /\ replies' = <<>>
  /\ ClearChunks
  /\ album' \in {album} \union
        (IF pc = "write" /\ key \in DOMAIN album /\ album[key] = Solid(None)
           THEN {[k \in DOMAIN album \ {key} |-> album[k]]} ELSE {})
  /\ phase' = (IF Running THEN "exit" ELSE phase) /\ writable' = TRUE
  /\ UNCHANGED <<upload, n, attempt, words, key, shots, saved, crowded>>
-----------------------------------------------------------------------------
(* The vault: not in this repository.  It names photos the same way. *)

InStore == pc \in {"create", "write"}

CameraSave ==
  /\ InStore => "race" \in Events
  /\ shots < MaxShots
  /\ Cardinality(DOMAIN album) < PHOTO_CAP
  /\ album' = Put1(album, NextKey(DOMAIN album), Solid(Camera))
  /\ shots' = shots + 1
  /\ crowded' = (crowded \/ InStore)
  /\ UNCHANGED <<scriptVars, wire, replies, consoleVars, saved>>

VaultDelete ==
  /\ "delete" \in Events
  /\ InStore => "race" \in Events
  /\ \E k \in DOMAIN album : album' = [j \in DOMAIN album \ {k} |-> album[j]]
  /\ UNCHANGED <<scriptVars, wire, replies, consoleVars, shots, saved, crowded>>
-----------------------------------------------------------------------------
Script == StartScript \/ SendChunk \/ Feed \/ ReadReplies \/ Timeout

Badge ==
  \/ TypeLine("ok")
  \/ \E o \in {"garble", "drop", "noenter"} \cap Events : TypeLine(o)
  \/ Mistyped \/ PutClear \/ PutChunk \/ PutLastChunk
  \/ StoreFails \/ StoreCreate \/ StoreWrite

Next == Script \/ PortTurns \/ Badge \/ Reboot \/ CameraSave \/ VaultDelete

Spec == Init /\ [][Next]_vars

\* The script's reads and its clock, and the shell's thread, are never held up
\* for ever; nobody has to start the script, take a photo or restart the badge.  A
\* port that goes on taking bytes is fed; that it takes them nobody promises.
FairSpec ==
  /\ Spec
  /\ WF_vars(SendChunk \/ ReadReplies \/ Timeout)
  /\ WF_vars(Feed)
  /\ WF_vars(Badge)
-----------------------------------------------------------------------------
TypeOK ==
  /\ phase \in {"idle", "greet", "clear", "send", "feed", "wait", "done", "exit"}
  /\ upload \in 0 .. MaxUploads /\ n \in Chunk /\ attempt \in 0 .. ATTEMPTS
  /\ writable \in BOOLEAN /\ wire \in Seq(Line) /\ replies \in Seq(Reply)
  /\ pc \in {"read", "entered", "create", "write"}
  /\ input \in Line
  /\ chunks \in [Chunk -> Uploads \union {None}]
  /\ received \in 0 .. NUM_CHUNKS
  /\ words \in [Chunk -> Uploads \union {None}]
  /\ key \in Nat
  /\ DOMAIN album \subseteq Nat /\ \A k \in DOMAIN album : album[k] \in Bitmap
  /\ shots \in 0 .. MaxShots
  /\ saved \subseteq Bitmap /\ crowded \in BOOLEAN

\* `received` is compared with NUM_CHUNKS in place of looking at the slots
\* (photo.rs:202-208): the count and the slots never disagree, so the photo is
\* assembled exactly when its last slot is filled and to_bitmap never meets an
\* empty one.
ReceivedCountsFilled == received = Cardinality(Filled)

\* While store() runs, the bitmap it was given is the whole buffer: nothing is
\* left out and nothing else has been put there meanwhile.
StoringTheBuffer == pc \in {"create", "write"} => words = chunks /\ Filled = Chunk

\* store() is to put the photo "under the next free key" (photo.rs:87): the
\* key it has chosen holds no photo when it is created.
NextKeyIsFree == pc = "create" => key \notin DOMAIN album

\* What the album holds under a key with a photo in it is never replaced by
\* another photo: it stays until the photo is deleted.
PhotosKept ==
  [][\A k \in DOMAIN album \cap DOMAIN album' :
        album[k] # Solid(None) => album'[k] = album[k]]_vars

\* A photo in the album is one image: never chunks of two uploads, and never a
\* photo with a chunk missing.
PhotosWhole ==
  \A b \in saved : \E u \in Uploads : b = Solid(u)

\* However often its chunks are sent again, an upload is stored at most once.
NoDuplicatePhotos ==
  \A j, k \in DOMAIN album : album[j] = album[k] /\ album[j][0] \in Uploads => j = k

\* When the script says "the photo is now in the badge's photo list"
\* (upload.rs:169), the badge has written that photo.
DoneMeansStored == phase = "done" => Solid(upload) \in saved

\* Uploads and the camera share one limit (photo.rs:43-47, 93-95).  Each of them looks
\* at it before it writes, and nothing is held in between: whatever is deleted, taken
\* and uploaded in any order, the album is over its limit only if the camera saved
\* while store() ran, and then by one photo, however often that happened.
AlbumWithinCap ==
  Cardinality(DOMAIN album) <= PHOTO_CAP + (IF crowded THEN 1 ELSE 0)

\* A script that was started ends, with the photo sent or with an error, however bad
\* the line (upload.rs:148-165); the one thing that can hold it for ever is the loop
\* that feeds a line (upload.rs:88-94), and that only with a port that again and again
\* takes no byte.
ScriptEnds == []<> ~ Running \/ (<>[] Feeding /\ []<> ~ writable)

\* The slots that hold something, for the abstract assembler.
Held == [c \in Filled |-> chunks[c]]

\* The complete buffers store() has taken, for the abstract assembler.
Assembler == INSTANCE ChunkAssembler WITH
               Slots <- Chunk, Data <- Uploads, held <- Held, emitted <- saved

\* `photo put`, its counter and its store() included, does what the abstract
\* assembler promises: only complete buffers are handed on, each once.
ImplementsAssembler == Assembler!Spec
=============================================================================
