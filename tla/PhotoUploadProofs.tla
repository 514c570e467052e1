--------------------------- MODULE PhotoUploadProofs ---------------------------
(***************************************************************************)
(* Theorems about sending photos, for photos of any number of chunks, any  *)
(* cap, any number of uploads and tries, and whatever goes wrong: `photo   *)
(* put` counts right, assembles only whole buffers, and keeps the album in *)
(* order as long as the album is listed and nobody saves at the same time. *)
(***************************************************************************)
EXTENDS PhotoUpload, SlotLemmas, SequenceTheorems

\* A line that puts a chunk carries one.
GoodLine == {l \in Line : l.op = "chunk" => l.u \in Uploads}

\* The script and the line: types, and what keeps the tries within bounds.
ScriptInv ==
  /\ phase \in {"idle", "greet", "clear", "send", "feed", "wait", "done", "exit"}
  /\ upload \in 0 .. MaxUploads /\ n \in Chunk /\ attempt \in 0 .. ATTEMPTS
  /\ Running => upload \in Uploads
  /\ phase \in {"greet", "clear", "send"} => attempt < ATTEMPTS
  /\ writable \in BOOLEAN

LineInv == wire \in Seq(GoodLine) /\ replies \in Seq(Reply) /\ input \in GoodLine

\* The buffer: counted right, whole while store() runs, and with a slot empty
\* whenever a chunk may come.
BufferInv ==
  /\ pc \in {"read", "entered", "create", "write"}
  /\ chunks \in [Chunk -> Uploads \union {None}]
  /\ words \in [Chunk -> Uploads \union {None}]
  /\ ReceivedCountsFilled /\ StoringTheBuffer
  /\ pc \in {"read", "entered"} => Filled # Chunk

\* The album: keys are numbers, and there is a largest.
AlbumInv ==
  /\ key \in Nat /\ DOMAIN album \subseteq Nat
  /\ \E b \in Nat : \A k \in DOMAIN album : k <= b
  /\ \A k \in DOMAIN album : album[k] \in Bitmap
  /\ shots \in 0 .. MaxShots /\ saved \subseteq Bitmap /\ crowded \in BOOLEAN

IInv == ScriptInv /\ LineInv /\ BufferInv /\ AlbumInv

\* Cleared chunks count as none (photo.rs:66-71).
LEMMA ClearedChunks ==
  ASSUME ClearChunks
  PROVE  /\ chunks' \in [Chunk -> Uploads \union {None}] /\ ReceivedCountsFilled'
         /\ Filled' = {} /\ Filled' # Chunk
<1>1. chunks' = Solid(None) /\ received' = 0
    BY DEF ClearChunks
<1>2. chunks' \in [Chunk -> Uploads \union {None}] /\ Filled' = {}
    BY <1>1 DEF Solid, Filled
<1>3. Cardinality({}) = 0 /\ {} # Chunk
    BY UploadAssumption, FillNone DEF UploadAssumption, Chunk
<1> QED BY <1>1, <1>2, <1>3 DEF ReceivedCountsFilled

\* The slots with chunk c put in: filled as before and c, and the count of
\* Photo::process is theirs (photo.rs:202-208).
LEMMA CountAfterPut ==
  ASSUME BufferInv, LineInv, input.op = "chunk", pc = "entered"
  PROVE  /\ input.n \in Chunk /\ input.u \in Uploads
         /\ WithChunk \in [Chunk -> Uploads \union {None}]
         /\ {c \in Chunk : WithChunk[c] # None} = Filled \union {input.n}
         /\ ReceivedAfter(input.n) = Cardinality(Filled \union {input.n})
         /\ ReceivedAfter(input.n) = NUM_CHUNKS <=> Filled \union {input.n} = Chunk
<1>1. NUM_CHUNKS \in Nat \ {0} /\ None \notin Uploads
    BY UploadAssumption DEF UploadAssumption, None, Uploads
<1>2. input.n \in Chunk /\ input.u \in Uploads
    BY DEF LineInv, GoodLine, Line
<1>3. WithChunk \in [Chunk -> Uploads \union {None}]
    BY <1>2 DEF BufferInv, WithChunk
<1>4. {c \in Chunk : WithChunk[c] # None} = Filled \union {input.n}
    BY <1>1, <1>2 DEF BufferInv, WithChunk, Filled
<1>5. Filled \in SUBSET (0 .. NUM_CHUNKS - 1) /\ input.n \in 0 .. NUM_CHUNKS - 1
    BY <1>2 DEF Filled, Chunk
<1>6. /\ Filled \union {input.n} \in SUBSET (0 .. NUM_CHUNKS - 1)
      /\ Cardinality(Filled \union {input.n})
           = Cardinality(Filled) + (IF input.n \in Filled THEN 0 ELSE 1)
    BY <1>1, <1>5, FillOne
<1>7. ReceivedAfter(input.n) = Cardinality(Filled \union {input.n})
    BY <1>2, <1>6 DEF BufferInv, ReceivedCountsFilled, ReceivedAfter, Filled
<1>8. ReceivedAfter(input.n) = NUM_CHUNKS <=> Filled \union {input.n} = Chunk
    BY <1>1, <1>6, <1>7, FilledBounds DEF Chunk
<1> QED BY <1>2, <1>3, <1>4, <1>7, <1>8

\* Neither a lost line, a repeated chunk, a failed store() nor a restart makes
\* the count and the slots disagree.
LEMMA BufferStep ==
  ASSUME BufferInv, LineInv, [Next]_vars
  PROVE  BufferInv'
<1>1. CASE PutChunk
  <2>1. /\ chunks' = WithChunk /\ received' = ReceivedAfter(input.n)
        /\ pc' = "read" /\ words' = words
      BY <1>1 DEF PutChunk, Finish
  <2>2. pc = "entered" /\ input.op = "chunk" /\ ReceivedAfter(input.n) # NUM_CHUNKS
      BY <1>1 DEF PutChunk
  <2>3. Filled' = Filled \union {input.n} /\ Filled' # Chunk
      BY <2>1, <2>2, CountAfterPut DEF Filled
  <2> QED BY <2>1, <2>2, <2>3, CountAfterPut
        DEF BufferInv, ReceivedCountsFilled, StoringTheBuffer
<1>2. CASE PutLastChunk
  <2>1. pc = "entered" /\ input.op = "chunk" /\ ReceivedAfter(input.n) = NUM_CHUNKS
      BY <1>2 DEF PutLastChunk
  <2>2. words' = WithChunk
      BY <1>2 DEF PutLastChunk
  <2>3. CASE ClearChunks /\ pc' = "read"
      BY <2>1, <2>2, <2>3, ClearedChunks, CountAfterPut DEF BufferInv, StoringTheBuffer
  <2>4. CASE chunks' = WithChunk /\ received' = ReceivedAfter(input.n) /\ pc' = "create"
    <3>1. Filled' = Filled \union {input.n} /\ Filled' = Chunk
        BY <2>1, <2>4, CountAfterPut DEF Filled
    <3> QED BY <2>1, <2>2, <2>4, <3>1, CountAfterPut
          DEF BufferInv, ReceivedCountsFilled, StoringTheBuffer
  <2> QED BY <1>2, <2>3, <2>4 DEF PutLastChunk, Finish
<1>3. CASE PutClear \/ StoreFails \/ StoreWrite \/ Reboot
  <2>1. ClearChunks /\ pc' = "read" /\ words' = words
      BY <1>3 DEF PutClear, StoreFails, StoreWrite, Reboot, Finish
  <2> QED BY <2>1, ClearedChunks DEF BufferInv, StoringTheBuffer
<1>4. CASE \/ Script \/ PortTurns \/ Mistyped \/ StoreCreate \/ CameraSave \/ VaultDelete \/ UNCHANGED vars
           \/ TypeLine("ok") \/ \E o \in {"garble", "drop", "noenter"} \cap Events : TypeLine(o)
  <2>1. UNCHANGED <<chunks, received, words>>
      BY <1>4 DEF Script, StartScript, SendChunk, Feed, ReadReplies, Timeout, PortTurns, Mistyped, StoreCreate,
         CameraSave, VaultDelete, TypeLine, vars, consoleVars
  <2>2. \/ pc' = pc
        \/ pc \in {"read", "entered"} /\ pc' \in {"read", "entered"}
        \/ pc = "create" /\ pc' = "write"
      BY <1>4 DEF Script, StartScript, SendChunk, Feed, ReadReplies, Timeout, PortTurns, Mistyped, StoreCreate,
         CameraSave, VaultDelete, TypeLine, Finish, vars, consoleVars
  <2>3. Filled' = Filled
      BY <2>1 DEF Filled
  <2> QED BY <2>1, <2>2, <2>3 DEF BufferInv, ReceivedCountsFilled, StoringTheBuffer
<1> QED BY <1>1, <1>2, <1>3, <1>4 DEF Next, Badge
-----------------------------------------------------------------------------
\* The script never tries a chunk more often than it says (upload.rs:148-168).
LEMMA ScriptStep ==
  ASSUME ScriptInv, [Next]_vars
  PROVE  ScriptInv'
<1> USE DEF ScriptInv
<1>1. 0 \in Chunk /\ ATTEMPTS \in Nat \ {0} /\ MaxUploads \in Nat
    BY UploadAssumption DEF UploadAssumption, Chunk
<1>2. CASE StartScript
    BY <1>1, <1>2 DEF StartScript, Running, Feeding, Uploads
<1>3. CASE SendChunk \/ Feed
    BY <1>1, <1>3 DEF SendChunk, Feed, Running, Feeding
<1>7. CASE PortTurns
  <2>1. UNCHANGED <<phase, upload, n, attempt>> /\ writable' = ~ writable
      BY <1>7 DEF PortTurns
  <2>2. writable' \in BOOLEAN
      BY <2>1, Zenon
  <2> QED BY <2>1, <2>2 DEF Running, Feeding
<1>4. CASE ReadReplies \/ Timeout
  <2>1. /\ upload' = upload /\ writable' = writable
        /\ \/ phase = "clear" /\ phase' = "send" /\ UNCHANGED <<n, attempt>>
           \/ phase = "wait" /\ (NextChunk \/ TryAgain)
           \/ UNCHANGED <<phase, n, attempt>>
      BY <1>4 DEF ReadReplies, Timeout
  <2>2. CASE phase = "clear" /\ phase' = "send" /\ UNCHANGED <<n, attempt>>
      BY <2>1, <2>2 DEF Running, Feeding
  <2>3. CASE phase = "wait" /\ NextChunk
      BY <1>1, <2>1, <2>3, UploadAssumption DEF UploadAssumption, NextChunk, Running, Feeding, Chunk
  <2>4. CASE phase = "wait" /\ TryAgain
      BY <2>1, <2>4 DEF TryAgain, Running, Feeding
  <2>5. CASE UNCHANGED <<phase, n, attempt>>
      BY <2>1, <2>5 DEF Running, Feeding
  <2> QED BY <2>1, <2>2, <2>3, <2>4, <2>5
<1>5. CASE Reboot
    BY <1>5 DEF Reboot, Running, Feeding
<1>6. CASE Badge \/ CameraSave \/ VaultDelete \/ UNCHANGED vars
  <2>1. UNCHANGED scriptVars
      BY <1>6 DEF Badge, TypeLine, Mistyped, PutClear, PutChunk, PutLastChunk, StoreFails,
         StoreCreate, StoreWrite, CameraSave, VaultDelete, vars
  <2> QED BY <2>1 DEF scriptVars, Running, Feeding
<1> QED BY <1>2, <1>3, <1>4, <1>5, <1>6, <1>7 DEF Next, Script

\* What the script types and what the badge answers are lines and replies.
LEMMA LineStep ==
  ASSUME ScriptInv, LineInv, [Next]_vars
  PROVE  LineInv'
<1> USE DEF LineInv
<1>1. Clear \in GoodLine /\ Garbled \in GoodLine /\ NoText \in GoodLine /\ <<>> \in Seq(Reply)
      /\ <<>> \in Seq(GoodLine)
  <2>1. 0 \in Chunk
      BY UploadAssumption DEF UploadAssumption, Chunk
  <2> QED BY <2>1 DEF Clear, Garbled, NoText, GoodLine, Line
<1>2. CASE StartScript \/ SendChunk
  <2>1. Speak /\ input' = input
      BY <1>2 DEF StartScript, SendChunk, consoleVars
  <2> QED BY <1>1, <2>1 DEF Speak
<1>3. ASSUME NEW l \in GoodLine, wire' = Append(wire, l), UNCHANGED <<replies, input>>
      PROVE  LineInv'
    BY <1>3
<1>4. CASE Feed
  <2>1. phase = "feed" => PutLine(n, upload) \in GoodLine
      BY DEF ScriptInv, Running, Feeding, PutLine, GoodLine, Line
  <2>2. /\ wire' = Append(wire, IF phase = "greet" THEN Clear ELSE PutLine(n, upload))
        /\ UNCHANGED <<replies, input>> /\ phase \in {"greet", "feed"}
      BY <1>4 DEF Feed, Feeding, consoleVars
  <2> QED BY <1>1, <1>3, <2>1, <2>2
<1>5. CASE ReadReplies
  <2>1. wire' = wire /\ input' = input
      BY <1>5 DEF ReadReplies, consoleVars
  <2>2. PICK k \in 1 .. Len(replies) : replies' = SubSeq(replies, k + 1, Len(replies))
      BY <1>5 DEF ReadReplies
  <2>3. replies' \in Seq(Reply)
      BY <2>2
  <2> QED BY <2>1, <2>3
<1>6. ASSUME NEW o \in {"ok", "garble", "drop", "noenter"}, TypeLine(o) PROVE LineInv'
  <2>1. wire # <<>> /\ wire' = Tail(wire)
      BY <1>6 DEF TypeLine
  <2>2. Head(wire) \in GoodLine /\ wire' \in Seq(GoodLine)
      BY <2>1
  <2>3. EchoOf(Head(wire)) \in Seq(Reply)
    <3>1. "OK" \in Reply
        BY DEF Reply, Ack
    <3>2. <<"OK">> \in Seq(Reply) /\ <<>> \in Seq(Reply)
        BY <3>1
    <3>3. EchoOf(Head(wire)) \in {<<"OK">>, <<>>}
        BY DEF EchoOf
    <3> QED BY <3>2, <3>3
  <2>4. replies' \in {replies, replies \o EchoOf(Head(wire))}
      BY <1>6 DEF TypeLine
  <2>5. replies' \in Seq(Reply)
      BY <2>3, <2>4, ConcatProperties
  <2>6. input' \in {input, Garbled, Head(wire)}
      BY <1>6 DEF TypeLine, Typed
  <2> QED BY <1>1, <2>2, <2>5, <2>6
<1>7. ASSUME NEW r \in Reply, Finish(r), wire' = wire, input' \in {input, NoText} PROVE LineInv'
    BY <1>1, <1>7 DEF Finish
<1>8. CASE Mistyped \/ PutClear \/ PutChunk \/ StoreFails \/ StoreWrite
  <2>1. wire' = wire /\ input' \in {input, NoText}
      BY <1>8 DEF Mistyped, PutClear, PutChunk, StoreFails, StoreWrite
  <2>2. \E r \in Reply : Finish(r)
      BY <1>8 DEF Mistyped, PutClear, PutChunk, StoreFails, StoreWrite, Reply, Ack
  <2> QED BY <1>7, <2>1, <2>2
<1>9. CASE PutLastChunk
  <2>1. wire' = wire /\ input' = NoText
      BY <1>9 DEF PutLastChunk
  <2>2. CASE Finish("ERR")
      BY <1>7, <2>1, <2>2 DEF Reply
  <2>3. CASE UNCHANGED replies
      BY <1>1, <2>1, <2>3
  <2> QED BY <1>9, <2>2, <2>3 DEF PutLastChunk
<1>10. CASE Reboot
    BY <1>1, <1>10 DEF Reboot
<1>11. CASE Timeout \/ PortTurns \/ StoreCreate \/ CameraSave \/ VaultDelete \/ UNCHANGED vars
  <2>1. UNCHANGED <<wire, replies, input>>
      BY <1>11 DEF Timeout, PortTurns, StoreCreate, CameraSave, VaultDelete, vars, consoleVars
  <2> QED BY <2>1
<1> QED BY <1>2, <1>4, <1>5, <1>6, <1>8, <1>9, <1>10, <1>11 DEF Next, Script, Badge
-----------------------------------------------------------------------------
\* The key after the largest: a number, and none of those there are.
LEMMA NextKeyFresh ==
  ASSUME NEW S \in SUBSET Nat, NEW b \in Nat, \A k \in S : k <= b
  PROVE  NextKey(S) \in Nat /\ NextKey(S) \notin S
<1>1. CASE S = {}
    BY <1>1 DEF NextKey
<1>2. CASE S # {}
  <2> DEFINE m == CHOOSE k \in S : \A j \in S : j <= k
  <2>1. \E k \in S : \A j \in S : j <= k
      BY <1>2, LargestNatural
  <2>2. m \in S /\ \A j \in S : j <= m
      BY <2>1
  <2>3. NextKey(S) = 1 + m
      BY <1>2 DEF NextKey
  <2> HIDE DEF m
  <2>4. m \in Nat
      BY <2>2
  <2>5. 1 + m \notin S
      BY <2>2, <2>4
  <2> QED BY <2>3, <2>4, <2>5
<1> QED BY <1>1, <1>2

\* A key that is put is there, and what it holds; the other keys are as before.
LEMMA PutAlbum ==
  ASSUME AlbumInv, NEW k \in Nat, NEW v \in Bitmap, album' = Put1(album, k, v)
  PROVE  /\ DOMAIN album' = DOMAIN album \union {k} /\ DOMAIN album' \subseteq Nat
         /\ \E b \in Nat : \A j \in DOMAIN album' : j <= b
         /\ album'[k] = v
         /\ \A j \in DOMAIN album' : j # k => album'[j] = album[j]
         /\ \A j \in DOMAIN album' : album'[j] \in Bitmap
<1>1. /\ DOMAIN album' = DOMAIN album \union {k} /\ album'[k] = v
      /\ \A j \in DOMAIN album' : j # k => album'[j] = album[j]
    BY DEF Put1
<1>2. DOMAIN album' \subseteq Nat
    BY <1>1 DEF AlbumInv
<1>3. \E b \in Nat : \A j \in DOMAIN album' : j <= b
  <2>1. PICK b \in Nat : \A j \in DOMAIN album : j <= b
      BY DEF AlbumInv
  <2>2. b + k \in Nat /\ \A j \in DOMAIN album' : j <= b + k
      BY <1>1, <1>2, <2>1
  <2> QED BY <2>2
<1> QED BY <1>1, <1>2, <1>3 DEF AlbumInv

\* A key that is taken out leaves the others as they were.
LEMMA CutAlbum ==
  ASSUME AlbumInv, NEW k, album' = [j \in DOMAIN album \ {k} |-> album[j]]
  PROVE  /\ DOMAIN album' = DOMAIN album \ {k} /\ DOMAIN album' \subseteq Nat
         /\ \E b \in Nat : \A j \in DOMAIN album' : j <= b
         /\ \A j \in DOMAIN album' : album'[j] = album[j] /\ album'[j] \in Bitmap
  BY DEF AlbumInv

\* Bitmaps the console or the camera writes are bitmaps.
LEMMA BitmapTypes ==
  /\ Solid(None) \in Bitmap /\ Solid(Camera) \in Bitmap
  /\ [Chunk -> Uploads \union {None}] \subseteq Bitmap
  BY DEF Bitmap, Pixels, Solid

\* Whatever is stored, taken or deleted, keys stay numbers and values bitmaps.
LEMMA AlbumStep ==
  ASSUME BufferInv, LineInv, AlbumInv, [Next]_vars
  PROVE  AlbumInv'
<1>1. CASE StoreCreate \/ StoreWrite \/ CameraSave \/ VaultDelete \/ Reboot
  <2>1. /\ DOMAIN album' \subseteq Nat
        /\ \E b \in Nat : \A k \in DOMAIN album' : k <= b
        /\ \A k \in DOMAIN album' : album'[k] \in Bitmap
    <3>1. ASSUME album' = album PROVE <2>1!1 /\ <2>1!2 /\ <2>1!3
        BY <3>1 DEF AlbumInv
    <3>2. CASE StoreCreate \/ StoreWrite
      <4>1. key \in Nat /\ words \in Bitmap /\ Solid(None) \in Bitmap
          BY BitmapTypes DEF BufferInv, AlbumInv
      <4>2. \/ album' = album \/ album' = Put1(album, key, Solid(None))
            \/ album' = Put1(album, key, words)
          BY <3>2 DEF StoreCreate, StoreWrite
      <4> QED BY <3>1, <4>1, <4>2, PutAlbum
    <3>3. CASE CameraSave
      <4>1. NextKey(DOMAIN album) \in Nat
          BY NextKeyFresh DEF AlbumInv
      <4> QED BY <3>3, <4>1, PutAlbum, BitmapTypes DEF CameraSave
    <3>4. CASE VaultDelete \/ Reboot
      <4>1. album' = album \/ \E k : album' = [j \in DOMAIN album \ {k} |-> album[j]]
          BY <3>4 DEF VaultDelete, Reboot
      <4> QED BY <3>1, <4>1, CutAlbum
    <3> QED BY <1>1, <3>2, <3>3, <3>4
  <2>2. key' = key
      BY <1>1 DEF StoreCreate, StoreWrite, CameraSave, VaultDelete, Reboot, consoleVars
  <2>3. shots' \in 0 .. MaxShots
      BY <1>1, UploadAssumption
        DEF UploadAssumption, StoreCreate, StoreWrite, CameraSave, VaultDelete, Reboot, AlbumInv
  <2>4. /\ saved' \in {saved, saved \union {words}} /\ saved' \subseteq Bitmap
        /\ crowded' \in BOOLEAN
      BY <1>1, BitmapTypes
        DEF StoreCreate, StoreWrite, CameraSave, VaultDelete, Reboot, AlbumInv, BufferInv
  <2> QED BY <2>1, <2>2, <2>3, <2>4 DEF AlbumInv
<1>2. CASE PutChunk \/ PutLastChunk
  <2>1. UNCHANGED albumVars
      BY <1>2 DEF PutChunk, PutLastChunk
  <2>2. key' \in Nat
    <3>1. NextKey({}) \in Nat
        BY NextKeyFresh
    <3>2. NextKey(DOMAIN album) \in Nat
        BY NextKeyFresh DEF AlbumInv
    <3>3. \A listed \in Listing : listed \in {{}, DOMAIN album}
        BY DEF Listing
    <3> QED BY <1>2, <3>1, <3>2, <3>3 DEF PutChunk, PutLastChunk, AlbumInv
  <2> QED BY <2>1, <2>2 DEF AlbumInv, albumVars
<1>3. CASE \/ Script \/ PortTurns \/ Mistyped \/ PutClear \/ StoreFails \/ UNCHANGED vars
           \/ TypeLine("ok") \/ \E o \in {"garble", "drop", "noenter"} \cap Events : TypeLine(o)
  <2>1. UNCHANGED <<albumVars, key>>
      BY <1>3 DEF Script, StartScript, SendChunk, Feed, ReadReplies, Timeout, PortTurns, Mistyped, PutClear,
         StoreFails, TypeLine, vars, consoleVars
  <2> QED BY <2>1 DEF AlbumInv, albumVars
<1> QED BY <1>1, <1>2, <1>3 DEF Next, Badge
-----------------------------------------------------------------------------
\* Before the first upload everything is in order.
LEMMA InitIInv == Init => IInv
<1> SUFFICES ASSUME Init PROVE IInv
    OBVIOUS
<1> USE UploadAssumption DEF UploadAssumption, Init
<1>1. 0 \in Chunk
    BY DEF Chunk
<1>2. ScriptInv
    BY <1>1 DEF ScriptInv, Running, Feeding
<1>3. LineInv
    BY <1>1 DEF LineInv, NoText, GoodLine, Line
<1>4. BufferInv
  <2>1. chunks = Solid(None) /\ Solid(None) \in [Chunk -> Uploads \union {None}] /\ Filled = {}
      BY DEF Solid, Filled
  <2>2. Cardinality({}) = 0 /\ {} # Chunk
      BY FillNone DEF Chunk
  <2> QED BY <2>1, <2>2 DEF BufferInv, ReceivedCountsFilled, StoringTheBuffer
<1>5. AlbumInv
  <2>1. PICK old \in SUBSET (0 .. OldKeys - 1) : album = [k \in old |-> Solid(Camera)]
      OBVIOUS
  <2>2. \A k \in DOMAIN album : k \in Nat /\ k <= OldKeys /\ album[k] \in Bitmap
      BY <2>1, BitmapTypes
  <2>3. OldKeys \in Nat /\ saved = {} /\ crowded = FALSE /\ key = 0 /\ shots = 0
      OBVIOUS
  <2>4. \E b \in Nat : \A k \in DOMAIN album : k <= b
      BY <2>2, <2>3
  <2>5. DOMAIN album \subseteq Nat /\ \A k \in DOMAIN album : album[k] \in Bitmap
      BY <2>2
  <2>6. key \in Nat /\ shots \in 0 .. MaxShots
      BY <2>3, MaxShots \in Nat
  <2>7. saved \subseteq Bitmap /\ crowded \in BOOLEAN
      BY <2>3, Zenon
  <2> QED BY <2>4, <2>5, <2>6, <2>7, Zenon DEF AlbumInv
<1> QED BY <1>2, <1>3, <1>4, <1>5 DEF IInv

\* The invariant holds whatever is typed, lost, garbled, sent twice or too
\* late, and whatever the PDDB, the vault and the power do.
THEOREM UploadInvariant == Spec => []IInv
<1>1. IInv /\ [Next]_vars => IInv'
    BY ScriptStep, LineStep, BufferStep, AlbumStep DEF IInv
<1> QED BY <1>1, InitIInv, PTL DEF Spec

\* The script's, the line's, the console's and the album's variables keep their
\* types; no chunk is tried more often than the script says (upload.rs:107-169).
THEOREM TypeCorrect == Spec => []TypeOK
<1>1. IInv => TypeOK
  <2> SUFFICES ASSUME IInv PROVE TypeOK
      OBVIOUS
  <2>1. wire \in Seq(Line) /\ input \in Line
      BY SeqMonotonic DEF IInv, LineInv, GoodLine
  <2>2. received \in 0 .. NUM_CHUNKS
    <3>1. Filled \in SUBSET (0 .. NUM_CHUNKS - 1) /\ NUM_CHUNKS \in Nat \ {0}
        BY UploadAssumption DEF UploadAssumption, Filled, Chunk
    <3> QED BY <3>1, FilledBounds DEF IInv, BufferInv, ReceivedCountsFilled
  <2> QED BY <2>1, <2>2 DEF IInv, ScriptInv, LineInv, BufferInv, AlbumInv, TypeOK
<1> QED BY <1>1, UploadInvariant, PTL

\* The counter stands for the slots, and store() works on the whole buffer
\* (photo.rs:202-208): to_bitmap never meets an empty slot, however many chunks
\* were lost or came twice.
THEOREM WholeBuffersAreStored == Spec => [](ReceivedCountsFilled /\ StoringTheBuffer)
<1>1. IInv => ReceivedCountsFilled /\ StoringTheBuffer
    BY DEF IInv, BufferInv
<1> QED BY <1>1, UploadInvariant, PTL
-----------------------------------------------------------------------------
\* Every step of `photo put` is a step of the abstract assembler, or none.
LEMMA StepRefines ==
  ASSUME IInv, [Next]_vars
  PROVE  [Assembler!Next]_(Assembler!asmVars)
<1> USE DEF Assembler!Next, Assembler!asmVars
<1>1. BufferInv /\ LineInv /\ None \notin Uploads
    BY UploadAssumption DEF IInv, UploadAssumption, None, Uploads
<1>2. ASSUME PutChunk \/ PutLastChunk, chunks' = WithChunk PROVE Assembler!Next
  <2>1. pc = "entered" /\ input.op = "chunk" /\ saved' = saved
      BY <1>2 DEF PutChunk, PutLastChunk, albumVars
  <2>2. input.n \in Chunk /\ input.u \in Uploads /\ Filled # Chunk
      BY <1>1, <2>1, CountAfterPut DEF BufferInv
  <2>3. Filled' = Filled \union {input.n}
      BY <1>1, <1>2, <2>1, CountAfterPut DEF Filled
  <2>4. Held' = [t \in Filled \union {input.n} |-> IF t = input.n THEN input.u ELSE Held[t]]
      BY <1>1, <1>2, <2>2, <2>3 DEF Held, WithChunk, BufferInv, Filled
  <2>5. Assembler!Put(input.n, input.u)
      BY <2>1, <2>2, <2>4 DEF Assembler!Put, Assembler!Full, Held
  <2> QED BY <2>2, <2>5
<1>3. ASSUME ClearChunks PROVE Held' = Assembler!Empty
    BY <1>3 DEF ClearChunks, Held, Filled, Solid, Assembler!Empty
<1>4. CASE StoreWrite
  <2>1. words = chunks /\ Filled = Chunk /\ saved' = saved \union {words}
      BY <1>1, <1>4 DEF StoreWrite, BufferInv, StoringTheBuffer
  <2>2. Held = chunks /\ DOMAIN Held = Chunk
      BY <1>1, <2>1 DEF Held, BufferInv
  <2>3. Assembler!Emit
      BY <1>3, <1>4, <2>1, <2>2 DEF StoreWrite, Assembler!Emit, Assembler!Full
  <2> QED BY <2>3
<1>5. ASSUME ClearChunks, saved' = saved PROVE Assembler!Next
    BY <1>3, <1>5 DEF Assembler!Discard
<1>6. CASE PutClear \/ StoreFails \/ Reboot
    BY <1>5, <1>6 DEF PutClear, StoreFails, Reboot, albumVars
<1>7. CASE PutChunk \/ PutLastChunk
  <2>1. chunks' = WithChunk \/ (ClearChunks /\ saved' = saved)
      BY <1>7 DEF PutChunk, PutLastChunk, albumVars
  <2> QED BY <1>2, <1>5, <1>7, <2>1
<1>8. CASE \/ Script \/ PortTurns \/ Mistyped \/ StoreCreate \/ CameraSave \/ VaultDelete \/ UNCHANGED vars
           \/ TypeLine("ok") \/ \E o \in {"garble", "drop", "noenter"} \cap Events : TypeLine(o)
  <2>1. UNCHANGED <<chunks, saved>>
      BY <1>8 DEF Script, StartScript, SendChunk, Feed, ReadReplies, Timeout, PortTurns, Mistyped, StoreCreate,
         CameraSave, VaultDelete, TypeLine, vars, consoleVars, albumVars
  <2> QED BY <2>1 DEF Held, Filled
<1> QED BY <1>4, <1>6, <1>7, <1>8 DEF Next, Badge

\* `photo put` implements the abstract assembler, whatever the line does to the
\* chunks and the PDDB to the album: only complete buffers are stored, each is
\* then forgotten (photo.rs:174-218).
THEOREM PhotoAssembles == Spec => ImplementsAssembler
<1>1. Init => Assembler!Init
  <2> SUFFICES ASSUME Init PROVE Assembler!Init
      OBVIOUS
  <2>1. Held = Assembler!Empty
      BY DEF Init, Held, Filled, Solid, Assembler!Empty
  <2> QED BY <2>1 DEF Init, Assembler!Init
<1>2. IInv /\ [Next]_vars => [Assembler!Next]_(Assembler!asmVars)
    BY StepRefines
<1> QED BY <1>1, <1>2, UploadInvariant, PTL DEF Spec, ImplementsAssembler, Assembler!Spec
-----------------------------------------------------------------------------
\* A listing that fails is not taken for an empty album.
ListingsHold == "listfail" \notin Events

\* How far the album may be over its limit.
Over == IF crowded THEN 1 ELSE 0

\* The limit, and for the key that store() has still to create, or to create again: it
\* has its place.
RoomInv ==
  /\ IsFiniteSet(DOMAIN album) /\ Cardinality(DOMAIN album) <= PHOTO_CAP + Over
  /\ InStore /\ key \notin DOMAIN album => Cardinality(DOMAIN album) < PHOTO_CAP + Over

LEMMA RoomStep ==
  ASSUME ListingsHold, IInv, RoomInv, [Next]_vars
  PROVE  RoomInv'
<1>1. AlbumInv /\ BufferInv /\ PHOTO_CAP \in Nat /\ crowded \in BOOLEAN
    BY UploadAssumption DEF IInv, UploadAssumption, AlbumInv
<1>2. IsFiniteSet(DOMAIN album) /\ Cardinality(DOMAIN album) \in Nat
    BY FS_CardinalityType DEF RoomInv
<1>3. ASSUME NEW k \in Nat, NEW v \in Bitmap, album' = Put1(album, k, v)
      PROVE  /\ IsFiniteSet(DOMAIN album') /\ DOMAIN album' = DOMAIN album \union {k}
             /\ Cardinality(DOMAIN album')
                  = IF k \in DOMAIN album THEN Cardinality(DOMAIN album)
                    ELSE Cardinality(DOMAIN album) + 1
  <2>1. DOMAIN album' = DOMAIN album \union {k}
      BY <1>1, <1>3, PutAlbum
  <2> QED BY <1>2, <2>1, FS_AddElement
<1>4. ASSUME NEW k, album' = [j \in DOMAIN album \ {k} |-> album[j]], crowded' = crowded,
             key' = key, pc' = pc \/ pc' = "read"
      PROVE  RoomInv'
  <2>1. DOMAIN album' = DOMAIN album \ {k}
      BY <1>4
  <2>2. /\ IsFiniteSet(DOMAIN album')
        /\ Cardinality(DOMAIN album')
             = IF k \in DOMAIN album THEN Cardinality(DOMAIN album) - 1
               ELSE Cardinality(DOMAIN album)
      BY <1>2, <2>1, FS_RemoveElement
  <2>3. CASE k \in DOMAIN album
      BY <1>1, <1>2, <1>4, <2>2, <2>3 DEF RoomInv, Over, InStore
  <2>4. CASE k \notin DOMAIN album
      BY <1>1, <1>2, <1>4, <2>1, <2>2, <2>4 DEF RoomInv, Over, InStore
  <2> QED BY <2>3, <2>4
<1>5. ASSUME UNCHANGED <<album, key, crowded>>, pc' = pc \/ pc' \notin {"create", "write"}
      PROVE  RoomInv'
    BY <1>5 DEF RoomInv, Over, InStore
<1>6. CASE PutLastChunk
  <2>1. album' = album /\ crowded' = crowded
      BY <1>6 DEF PutLastChunk, albumVars
  <2>2. CASE pc' = "read" /\ key' = key
      BY <1>5, <2>1, <2>2
  <2>3. CASE pc' = "create"
    <3>1. HasRoom(DOMAIN album)
        BY <1>6, <2>3 DEF PutLastChunk, Listing, ListingsHold, Finish
    <3>2. Cardinality(DOMAIN album) < PHOTO_CAP + Over
        BY <1>1, <1>2, <3>1 DEF HasRoom, Over
    <3> QED BY <2>1, <3>2 DEF RoomInv, Over
  <2> QED BY <1>6, <2>2, <2>3 DEF PutLastChunk, Finish
<1>7. CASE StoreCreate \/ StoreWrite
  <2>1. /\ key' = key /\ crowded' = crowded /\ InStore /\ key \in Nat
        /\ Solid(None) \in Bitmap /\ words \in Bitmap
      BY <1>1, <1>7, BitmapTypes
        DEF StoreCreate, StoreWrite, AlbumInv, BufferInv, InStore
  <2>2. \/ album' = album /\ key \in DOMAIN album
        \/ album' = Put1(album, key, Solid(None)) \/ album' = Put1(album, key, words)
      BY <1>7 DEF StoreCreate, StoreWrite
  <2>3. CASE album' = album /\ key \in DOMAIN album
      BY <2>1, <2>3 DEF RoomInv, Over
  <2>4. CASE album' = Put1(album, key, Solid(None)) \/ album' = Put1(album, key, words)
    <3>1. /\ IsFiniteSet(DOMAIN album') /\ DOMAIN album' = DOMAIN album \union {key}
          /\ Cardinality(DOMAIN album')
               = IF key \in DOMAIN album THEN Cardinality(DOMAIN album)
                 ELSE Cardinality(DOMAIN album) + 1
        BY <1>3, <2>1, <2>4
    <3>2. key' \in DOMAIN album' /\ Over' = Over /\ Over \in {0, 1}
        BY <2>1, <3>1 DEF Over
    <3>3. Cardinality(DOMAIN album') <= PHOTO_CAP + Over
        BY <1>1, <1>2, <2>1, <3>1, <3>2 DEF RoomInv
    <3> QED BY <3>1, <3>2, <3>3 DEF RoomInv
  <2> QED BY <2>2, <2>3, <2>4
<1>8. CASE CameraSave
  <2> DEFINE k == NextKey(DOMAIN album)
  <2>1. k \in Nat /\ k \notin DOMAIN album
      BY <1>1, NextKeyFresh DEF AlbumInv
  <2> HIDE DEF k
  <2>2. /\ album' = Put1(album, k, Solid(Camera)) /\ Cardinality(DOMAIN album) < PHOTO_CAP
        /\ pc' = pc /\ crowded' = (crowded \/ InStore)
      BY <1>8 DEF CameraSave, consoleVars, k
  <2>3. /\ IsFiniteSet(DOMAIN album')
        /\ Cardinality(DOMAIN album') = Cardinality(DOMAIN album) + 1
      BY <1>3, <2>1, <2>2, BitmapTypes
  <2>4. Cardinality(DOMAIN album') <= PHOTO_CAP
      BY <1>1, <1>2, <2>2, <2>3
  <2>5. InStore' => Over' = 1
      BY <2>2 DEF InStore, Over
  <2>6. Over' \in {0, 1}
      BY DEF Over
  <2> QED BY <1>1, <1>2, <2>3, <2>4, <2>5, <2>6 DEF RoomInv
<1>9. CASE VaultDelete
    BY <1>4, <1>9 DEF VaultDelete, consoleVars
<1>10. CASE Reboot
  <2>1. pc' = "read" /\ key' = key /\ crowded' = crowded
      BY <1>10 DEF Reboot
  <2>2. album' = album \/ \E k : album' = [j \in DOMAIN album \ {k} |-> album[j]]
      BY <1>10 DEF Reboot
  <2> QED BY <1>4, <1>5, <2>1, <2>2
<1>11. CASE \/ Script \/ PortTurns \/ Mistyped \/ PutClear \/ PutChunk \/ StoreFails \/ UNCHANGED vars
            \/ TypeLine("ok") \/ \E o \in {"garble", "drop", "noenter"} \cap Events : TypeLine(o)
  <2>1. UNCHANGED <<album, key, crowded>> /\ (pc' = pc \/ pc' \notin {"create", "write"})
      BY <1>11 DEF Script, StartScript, SendChunk, Feed, ReadReplies, Timeout, PortTurns, Mistyped, PutClear,
         PutChunk, StoreFails, TypeLine, Finish, vars, consoleVars, albumVars
  <2> QED BY <1>5, <2>1
<1> QED BY <1>6, <1>7, <1>8, <1>9, <1>10, <1>11 DEF Next, Badge

\* What the album holds when the badge is switched on.
LEMMA OldAlbum ==
  ASSUME Init
  PROVE  /\ IsFiniteSet(DOMAIN album) /\ Cardinality(DOMAIN album) \in Nat
         /\ Cardinality(DOMAIN album) <= PHOTO_CAP /\ pc = "read" /\ crowded = FALSE
         /\ \A k \in DOMAIN album : album[k] = Solid(Camera)
<1>1. PICK old \in SUBSET (0 .. OldKeys - 1) :
        Cardinality(old) <= PHOTO_CAP /\ album = [k \in old |-> Solid(Camera)]
    BY DEF Init
<1>2. IsFiniteSet(0 .. OldKeys - 1)
    BY UploadAssumption, FS_Interval DEF UploadAssumption
<1>3. IsFiniteSet(old) /\ DOMAIN album = old
    BY <1>1, <1>2, FS_Subset
<1>4. Cardinality(old) \in Nat
    BY <1>3, FS_CardinalityType
<1> QED BY <1>1, <1>3, <1>4 DEF Init

\* The album is never over its limit by more than one photo, and by none unless the
\* camera has saved one while store() ran (photo.rs:92-108): that the two writers each
\* look for themselves costs one photo, however long they go on.
THEOREM AlbumAtItsLimit ==
  ASSUME ListingsHold
  PROVE  Spec => []AlbumWithinCap
<1>1. Init => RoomInv
  <2> SUFFICES ASSUME Init PROVE RoomInv
      OBVIOUS
  <2>1. PHOTO_CAP \in Nat /\ Over = 0 /\ ~ InStore
      BY OldAlbum, UploadAssumption DEF UploadAssumption, Over, InStore
  <2> QED BY <2>1, OldAlbum DEF RoomInv
<1>2. IInv /\ RoomInv /\ [Next]_vars => RoomInv'
    BY RoomStep
<1>3. RoomInv => AlbumWithinCap
    BY DEF RoomInv, Over, AlbumWithinCap
<1> QED BY <1>1, <1>2, <1>3, UploadInvariant, PTL DEF Spec
-----------------------------------------------------------------------------
\* The listing is true and nobody else saves while store() runs.
AlbumIsOurs == "listfail" \notin Events /\ "race" \notin Events

\* What store() relies on between choosing a key and writing the photo.
OrderInv ==
  /\ pc = "create" => key \notin DOMAIN album
  /\ pc = "write" => key \in DOMAIN album /\ album[key] = Solid(None)

\* As long as the album is listed and nobody saves at the same time, the key
\* chosen stays free until it is created, and empty until it is written.
LEMMA OrderStep ==
  ASSUME AlbumIsOurs, IInv, OrderInv, [Next]_vars
  PROVE  /\ OrderInv'
         /\ \A k \in DOMAIN album \cap DOMAIN album' :
               album[k] # Solid(None) => album'[k] = album[k]
<1> DEFINE Kept == \A k \in DOMAIN album \cap DOMAIN album' :
                     album[k] # Solid(None) => album'[k] = album[k]
<1>1. AlbumInv /\ BufferInv
    BY DEF IInv
<1>3. ASSUME NEW k \in Nat, NEW v \in Bitmap, album' = Put1(album, k, v),
             k \in DOMAIN album => album[k] = Solid(None)
      PROVE  k \in DOMAIN album' /\ album'[k] = v /\ Kept
    BY <1>1, <1>3, PutAlbum
<1>4. ASSUME NEW k, album' = [j \in DOMAIN album \ {k} |-> album[j]],
             pc' \notin {"create", "write"}
      PROVE  OrderInv' /\ Kept
    BY <1>4 DEF OrderInv
<1>5. ASSUME album' = album, key' = key, pc' = pc \/ pc' \notin {"create", "write"}
      PROVE  OrderInv' /\ Kept
    BY <1>5 DEF OrderInv
<1>6. CASE PutLastChunk
  <2>1. album' = album
      BY <1>6 DEF PutLastChunk, albumVars
  <2>2. CASE pc' = "read" /\ key' = key
      BY <1>5, <2>1, <2>2
  <2>3. CASE pc' = "create"
    <3>1. key' = NextKey(DOMAIN album)
        BY <1>6, <2>3 DEF PutLastChunk, Listing, AlbumIsOurs, Finish
    <3>2. key' \notin DOMAIN album
        BY <1>1, <3>1, NextKeyFresh DEF AlbumInv
    <3> QED BY <2>1, <2>3, <3>2 DEF OrderInv
  <2> QED BY <1>6, <2>2, <2>3 DEF PutLastChunk, Finish
<1>7. CASE StoreCreate
  <2>1. /\ key' = key /\ pc' = "write" /\ key \notin DOMAIN album /\ key \in Nat
        /\ album' = Put1(album, key, Solid(None))
      BY <1>1, <1>7 DEF StoreCreate, OrderInv, AlbumInv
  <2>2. key \in DOMAIN album' /\ album'[key] = Solid(None) /\ Kept
      BY <1>3, <2>1, BitmapTypes
  <2> QED BY <2>1, <2>2 DEF OrderInv
<1>8. CASE StoreWrite
  <2>1. /\ key' = key /\ pc' = "read" /\ key \in DOMAIN album /\ album[key] = Solid(None)
        /\ album' = Put1(album, key, words) /\ key \in Nat /\ words \in Bitmap
      BY <1>1, <1>8, BitmapTypes DEF StoreWrite, Finish, OrderInv, AlbumInv, BufferInv
  <2>2. Kept
      BY <1>3, <2>1
  <2> QED BY <2>1, <2>2 DEF OrderInv
<1>9. CASE CameraSave
  <2> DEFINE k == NextKey(DOMAIN album)
  <2>1. k \in Nat /\ k \notin DOMAIN album
      BY <1>1, NextKeyFresh DEF AlbumInv
  <2> HIDE DEF k
  <2>2. /\ album' = Put1(album, k, Solid(Camera)) /\ pc' = pc /\ pc \notin {"create", "write"}
      BY <1>9 DEF CameraSave, InStore, AlbumIsOurs, consoleVars, k
  <2>3. Kept
      BY <1>3, <2>1, <2>2, BitmapTypes
  <2> QED BY <2>2, <2>3 DEF OrderInv
<1>10. CASE VaultDelete
    BY <1>4, <1>10 DEF VaultDelete, InStore, AlbumIsOurs, consoleVars
<1>11. CASE Reboot
  <2>1. pc' = "read" /\ key' = key
      BY <1>11 DEF Reboot
  <2>2. album' = album \/ \E k : album' = [j \in DOMAIN album \ {k} |-> album[j]]
      BY <1>11 DEF Reboot
  <2> QED BY <1>4, <1>5, <2>1, <2>2
<1>12. CASE \/ Script \/ PortTurns \/ Mistyped \/ PutClear \/ PutChunk \/ StoreFails \/ UNCHANGED vars
            \/ TypeLine("ok") \/ \E o \in {"garble", "drop", "noenter"} \cap Events : TypeLine(o)
  <2>1. UNCHANGED <<album, key>> /\ (pc' = pc \/ pc' \notin {"create", "write"})
      BY <1>12 DEF Script, StartScript, SendChunk, Feed, ReadReplies, Timeout, PortTurns, Mistyped, PutClear,
         PutChunk, StoreFails, TypeLine, Finish, vars, consoleVars, albumVars
  <2> QED BY <1>5, <2>1
<1> QED BY <1>6, <1>7, <1>8, <1>9, <1>10, <1>11, <1>12 DEF Next, Badge

\* The album stays in order.
LEMMA OrderHolds == AlbumIsOurs => (Spec => []OrderInv)
<1> SUFFICES ASSUME AlbumIsOurs PROVE Spec => []OrderInv
    OBVIOUS
<1>1. Init => OrderInv
    BY DEF Init, OrderInv
<1>2. IInv /\ OrderInv /\ [Next]_vars => OrderInv'
    BY OrderStep
<1> QED BY <1>1, <1>2, UploadInvariant, PTL DEF Spec

\* As long as the album is listed and the vault keeps out of store(), the key chosen is
\* free, and no photo is ever overwritten, by an upload or by the camera (photo.rs:87-108).
THEOREM PhotosAreKept ==
  ASSUME AlbumIsOurs
  PROVE  Spec => []NextKeyIsFree /\ PhotosKept
<1>2. OrderInv => NextKeyIsFree
    BY DEF OrderInv, NextKeyIsFree
<1>1. IInv /\ OrderInv /\ [Next]_vars =>
        [\A k \in DOMAIN album \cap DOMAIN album' :
            album[k] # Solid(None) => album'[k] = album[k]]_vars
    BY OrderStep
<1> QED BY <1>1, <1>2, OrderHolds, UploadInvariant, PTL DEF Spec, PhotosKept
-----------------------------------------------------------------------------
\* Nothing confuses the script about which line is answered, and no write of the
\* PDDB fails: its waits do not run out early and no echo reads like an answer.
AnswersInTurn == Events \cap {"slow", "storefail"} = {} /\ EchoesOK = {}

\* However the album is listed, there is room for another photo.
RoomInAlbum == \A listed \in Listing : HasRoom(listed)

LAST == NUM_CHUNKS - 1

\* What the script has typed when it waits.
Typing == IF phase = "clear" THEN Clear ELSE PutLine(n, upload)

\* One thing at a time: a line on its way, a command, or an answer.
TurnInv ==
  \/ Quiet
  \/ /\ phase \in {"clear", "wait"}
     /\ \/ wire = <<Typing>> /\ replies = <<>> /\ pc = "read"
        \/ wire = <<>> /\ replies = <<>> /\ pc # "read"
        \/ wire = <<>> /\ (\E r \in Reply : replies = <<r>>) /\ pc = "read" /\ input = NoText

\* What a lost Enter leaves in the shell's input: a chunk whose predecessors are
\* all in the buffer, and once an upload sends chunks, the one it is sending.
InputInv ==
  /\ input.op = "chunk" => \A c \in Chunk : c < input.n => chunks[c] = input.u
  /\ phase \in {"send", "feed", "wait"} /\ input.op = "chunk" => input = PutLine(n, upload)
  /\ phase \in {"send", "feed", "wait"} /\ input.op = "clear" => n = 0
  /\ phase \in {"greet", "clear"} => n = 0
  /\ phase = "clear" /\ wire = <<>> /\ pc = "read" => input.op # "chunk"
  /\ pc \in {"create", "write"} => input = NoText

\* The last slot is filled last, so that no chunk of an earlier upload completes
\* a photo; before it are this upload's chunks, up to the one it is sending.
ImageInv ==
  /\ pc \in {"read", "entered"} => chunks[LAST] = None
  /\ phase \in {"send", "feed", "wait"} /\ pc \in {"read", "entered"} /\ replies # <<"SUCCESS">>
       => \A c \in Chunk : c < n => chunks[c] = upload
  /\ phase = "wait" /\ replies = <<"OK">> => chunks[n] = upload
  /\ phase = "wait" /\ replies = <<"SUCCESS">> => n = LAST /\ Solid(upload) \in saved
  /\ pc \in {"create", "write"} =>
       /\ \E u \in Uploads : words = Solid(u)
       /\ phase = "wait" => words = Solid(upload) /\ n = LAST

UploadInv == TurnInv /\ InputInv /\ ImageInv /\ PhotosWhole /\ DoneMeansStored

LEMMA UploadInit == Init => UploadInv
<1> USE UploadAssumption DEF UploadAssumption, Init, UploadInv
<1>1. Init => LAST \in Chunk /\ chunks[LAST] = None BY DEF LAST, Chunk, Solid
<1> QED BY <1>1 DEF TurnInv, Quiet, InputInv, ImageInv, PhotosWhole, DoneMeansStored, NoText

LEMMA UploadFacts ==
  ASSUME IInv
  PROVE  /\ NUM_CHUNKS \in Nat \ {0} /\ LAST \in Chunk /\ n \in Chunk /\ n \in Nat
         /\ \A c \in Chunk : c \in Nat /\ c <= LAST
         /\ None \notin Uploads /\ (Running => upload \in Uploads)
         /\ replies \in Seq(Reply) /\ wire \in Seq(GoodLine)
         /\ input.op = "chunk" => input.n \in Chunk /\ input.u \in Uploads
<1>1. NUM_CHUNKS \in Nat \ {0} BY UploadAssumption DEF UploadAssumption
<1>2. LAST \in Chunk /\ \A c \in Chunk : c \in Nat /\ c <= LAST BY <1>1 DEF LAST, Chunk
<1>3. None \notin Uploads BY DEF None, Uploads
<1>4. input.op = "chunk" => input.n \in Chunk /\ input.u \in Uploads
  BY DEF IInv, LineInv, GoodLine, Line
<1> QED BY <1>1, <1>2, <1>3, <1>4 DEF IInv, ScriptInv, LineInv

\* The script: it types when nothing is under way and reads the answer to what
\* it typed; an acknowledged chunk is in the buffer, or in the photo stored.
LEMMA UploadScript ==
  ASSUME AnswersInTurn, IInv, UploadInv, Script PROVE UploadInv'
<1> USE UploadFacts
<1>1. CASE StartScript
  <2>1. /\ Quiet /\ wire' = <<>> /\ replies' = <<>> /\ phase' = "greet" /\ n' = 0
        /\ UNCHANGED <<pc, input, chunks, words, saved>>
    <3>1. Quiet BY <1>1 DEF StartScript, Running, Feeding, UploadInv, TurnInv
    <3> QED BY <1>1, <3>1 DEF StartScript, Speak, Quiet, consoleVars, albumVars
  <2>2. TurnInv' BY <2>1 DEF TurnInv, Quiet
  <2> QED BY <2>1, <2>2
      DEF UploadInv, InputInv, ImageInv, PhotosWhole, DoneMeansStored, Quiet
<1>2. CASE SendChunk
  <2>1. /\ Quiet /\ wire' = <<>> /\ replies' = <<>>
        /\ phase = "send" /\ phase' = "feed"
        /\ UNCHANGED <<n, upload, pc, input, chunks, words, saved>>
    BY <1>2 DEF SendChunk, UploadInv, TurnInv, Speak, Quiet, consoleVars, albumVars
  <2>2. TurnInv' BY <2>1 DEF TurnInv, Quiet
  <2>3. InputInv' BY <2>1 DEF UploadInv, InputInv, Quiet, PutLine
  <2>4. ImageInv' BY <2>1 DEF UploadInv, ImageInv, Quiet
  <2> QED BY <2>1, <2>2, <2>3, <2>4 DEF UploadInv, PhotosWhole, DoneMeansStored
<1>5. CASE Feed
  <2>1. /\ Quiet /\ replies' = replies
        /\ \/ phase = "greet" /\ phase' = "clear" /\ wire' = <<Clear>>
           \/ phase = "feed" /\ phase' = "wait" /\ wire' = <<PutLine(n, upload)>>
        /\ UNCHANGED <<n, upload, pc, input, chunks, words, saved>>
    <3>1. Quiet /\ replies' = replies /\ UNCHANGED <<n, upload, pc, input, chunks, words, saved>>
      BY <1>5 DEF Feed, Feeding, UploadInv, TurnInv, consoleVars, albumVars
    <3>2. wire = <<>> BY <3>1 DEF Quiet
    <3>3. CASE phase = "greet" BY <1>5, <3>1, <3>2, <3>3 DEF Feed
    <3>4. CASE phase = "feed" BY <1>5, <3>1, <3>2, <3>4 DEF Feed
    <3> QED BY <1>5, <3>3, <3>4 DEF Feed, Feeding
  <2>2. TurnInv'
    <3>1. replies' = <<>> /\ pc' = "read" BY <2>1 DEF Quiet
    <3>2. wire' = <<Typing'>> /\ phase' \in {"clear", "wait"} BY <2>1 DEF Typing, PutLine
    <3> QED BY <3>1, <3>2 DEF TurnInv
  <2>3. InputInv'
    <3>5. \A l : <<l>> # <<>> OBVIOUS
    <3>1. wire' # <<>> /\ input' = input /\ n' = n /\ upload' = upload /\ chunks' = chunks
      BY <2>1, <3>5, Zenon
    <3>2. pc' = "read" BY <2>1 DEF Quiet
    <3>3. CASE phase = "greet" BY <2>1, <3>1, <3>2, <3>3 DEF UploadInv, InputInv
    <3>4. CASE phase = "feed" BY <2>1, <3>1, <3>2, <3>4 DEF UploadInv, InputInv, PutLine
    <3> QED BY <2>1, <3>3, <3>4
  <2>4. ImageInv' BY <2>1 DEF UploadInv, ImageInv, Quiet
  <2> QED BY <2>1, <2>2, <2>3, <2>4 DEF UploadInv, PhotosWhole, DoneMeansStored
<1>3. CASE ReadReplies
  <2> PICK k \in 1 .. Len(replies) :
        LET got == {replies[i] : i \in 1 .. k} IN
        /\ replies' = SubSeq(replies, k + 1, Len(replies))
        /\ \/ /\ phase = "clear" /\ (Acknowledged(got) \/ Refused(got))
              /\ phase' = "send" /\ UNCHANGED <<n, attempt>>
           \/ phase = "wait" /\ Acknowledged(got) /\ NextChunk
           \/ phase = "wait" /\ ~ Acknowledged(got) /\ Refused(got) /\ TryAgain
           \/ /\ ~ Acknowledged(got) /\ ~ Refused(got)
              /\ UNCHANGED <<phase, n, attempt>>
      BY <1>3 DEF ReadReplies
  <2>1. PICK r \in Reply : replies = <<r>> /\ wire = <<>> /\ pc = "read" /\ input = NoText
    <3>1. replies # <<>> OBVIOUS
    <3> QED BY <3>1 DEF UploadInv, TurnInv, Quiet
  <2>2. k = 1 /\ {replies[i] : i \in 1 .. k} = {r} BY <2>1
  <2>3. replies' = <<>> BY <2>1, <2>2
  <2>4. /\ UNCHANGED <<upload, wire, pc, input, chunks, words, saved>>
        /\ phase \in {"clear", "wait"}
    BY <1>3 DEF ReadReplies, consoleVars, albumVars
  <2>5. \/ phase = "clear" /\ phase' = "send" /\ n' = n
        \/ phase = "wait" /\ r \in {"OK", "SUCCESS"} /\ NextChunk
        \/ phase = "wait" /\ r \notin {"OK", "SUCCESS"} /\ phase' \in {"send", "exit"} /\ n' = n
        \/ r \notin {"OK", "SUCCESS"} /\ phase' = phase /\ n' = n
    BY <2>2 DEF Acknowledged, Refused, Ack, TryAgain
  <2>6. Quiet' BY <2>1, <2>3, <2>4 DEF Quiet
  <2>7. input.op = "none" BY <2>1 DEF NoText
  <2>8. CASE phase = "clear" /\ phase' = "send" /\ n' = n
    <3>1. InputInv' BY <2>1, <2>4, <2>7, <2>8 DEF UploadInv, InputInv
    <3>2. ImageInv' BY <2>1, <2>3, <2>4, <2>8 DEF UploadInv, ImageInv, InputInv
    <3> QED BY <2>4, <2>6, <2>8, <3>1, <3>2 DEF UploadInv, TurnInv, PhotosWhole, DoneMeansStored
  <2>9. CASE phase = "wait" /\ r \in {"OK", "SUCCESS"} /\ NextChunk
    <3>1. r = "OK" => n # LAST /\ chunks[n] = upload /\ \A c \in Chunk : c < n => chunks[c] = upload
      BY <2>1, <2>9 DEF UploadInv, ImageInv, Running
    <3>2. r = "SUCCESS" => n = LAST /\ Solid(upload) \in saved
      BY <2>1, <2>9 DEF UploadInv, ImageInv
    <3>3. n + 1 = NUM_CHUNKS <=> n = LAST BY DEF LAST
    <3>4. CASE n = LAST
      <4>1. r = "SUCCESS" /\ phase' = "done" /\ n' = n BY <2>9, <3>1, <3>3, <3>4 DEF NextChunk
      <4>2. InputInv' BY <2>1, <2>4, <2>7, <4>1 DEF UploadInv, InputInv
      <4>3. ImageInv' BY <2>1, <2>3, <2>4, <4>1 DEF UploadInv, ImageInv
      <4> QED BY <2>4, <2>6, <3>2, <4>1, <4>2, <4>3
          DEF UploadInv, TurnInv, PhotosWhole, DoneMeansStored
    <3>5. CASE n # LAST
      <4>1. r = "OK" /\ phase' = "send" /\ n' = n + 1 BY <2>9, <3>2, <3>3, <3>5 DEF NextChunk
      <4>2. InputInv' BY <2>1, <2>4, <2>7, <4>1 DEF UploadInv, InputInv
      <4>3. \A c \in Chunk : c < n + 1 => chunks[c] = upload
        <5>1. \A c \in Chunk : c < n + 1 => c < n \/ c = n OBVIOUS
        <5> QED BY <3>1, <4>1, <5>1
      <4>4. ImageInv' BY <2>1, <2>3, <2>4, <4>1, <4>3 DEF UploadInv, ImageInv
      <4> QED BY <2>4, <2>6, <4>1, <4>2, <4>4
          DEF UploadInv, TurnInv, PhotosWhole, DoneMeansStored
    <3> QED BY <3>4, <3>5
  <2>10. CASE phase = "wait" /\ r \notin {"OK", "SUCCESS"} /\ phase' \in {"send", "exit"} /\ n' = n
    <3>1. InputInv' BY <2>1, <2>4, <2>7, <2>10 DEF UploadInv, InputInv
    <3>2. ImageInv' BY <2>1, <2>3, <2>4, <2>10 DEF UploadInv, ImageInv
    <3> QED BY <2>4, <2>6, <2>10, <3>1, <3>2
        DEF UploadInv, TurnInv, PhotosWhole, DoneMeansStored
  <2>11. CASE r \notin {"OK", "SUCCESS"} /\ phase' = phase /\ n' = n
    <3>1. InputInv' BY <2>1, <2>4, <2>7, <2>11 DEF UploadInv, InputInv
    <3>2. ImageInv'
      <4>1. replies # <<"SUCCESS">> /\ replies' # <<"SUCCESS">> /\ replies' # <<"OK">>
        BY <2>1, <2>3, <2>11
      <4> QED BY <2>1, <2>4, <2>11, <4>1 DEF UploadInv, ImageInv
    <3> QED BY <2>4, <2>6, <2>11, <3>1, <3>2
        DEF UploadInv, TurnInv, PhotosWhole, DoneMeansStored
  <2> QED BY <2>5, <2>8, <2>9, <2>10, <2>11
<1>4. CASE Timeout
  <2>1. /\ Quiet /\ UNCHANGED <<upload, n, wire, replies, pc, input, chunks, words, saved>>
        /\ \/ phase = "clear" /\ phase' = "send"
           \/ phase = "wait" /\ phase' \in {"send", "exit"}
    BY <1>4 DEF Timeout, AnswersInTurn, TryAgain, consoleVars, albumVars
  <2>2. TurnInv' BY <2>1 DEF TurnInv, Quiet
  <2>3. InputInv' BY <2>1 DEF UploadInv, InputInv, Quiet, PutLine
  <2>4. ImageInv' BY <2>1 DEF UploadInv, ImageInv, InputInv, Quiet
  <2> QED BY <2>1, <2>2, <2>3, <2>4 DEF UploadInv, PhotosWhole, DoneMeansStored
<1> QED BY <1>1, <1>2, <1>3, <1>4, <1>5 DEF Script

\* The shell reads the line; the answer to it is still to come.
LEMMA UploadTyped ==
  ASSUME AnswersInTurn, IInv, UploadInv, NEW o \in {"ok", "garble", "drop", "noenter"}, TypeLine(o)
  PROVE  UploadInv'
<1> USE UploadFacts
<1>1. /\ wire = <<Typing>> /\ replies = <<>> /\ phase \in {"clear", "wait"} /\ pc = "read"
  <2>1. wire # <<>> /\ pc = "read" BY DEF TypeLine
  <2> QED BY <2>1 DEF UploadInv, TurnInv, Quiet
<1>2. Head(wire) = Typing /\ Tail(wire) = <<>> BY <1>1
<1>3. EchoOf(Typing) = <<>> BY DEF EchoOf, AnswersInTurn
<1>4. /\ wire' = <<>> /\ replies' = <<>> /\ pc' \in {"read", "entered"}
      /\ input' \in {Typed(Typing), Garbled, input} /\ (pc' = "read" => input' = Typed(Typing))
      /\ UNCHANGED <<phase, upload, n, chunks, words, saved>>
  <2>1. /\ wire' = Tail(wire) /\ replies' \in {replies, replies \o EchoOf(Typing)}
        /\ pc' \in {"read", "entered"} /\ input' \in {Typed(Typing), Garbled, input}
        /\ (pc' = "read" => input' = Typed(Typing))
        /\ UNCHANGED <<phase, upload, n, chunks, words, saved>>
    BY <1>2 DEF TypeLine, scriptVars, albumVars
  <2>2. replies \o EchoOf(Typing) = <<>> BY <1>1, <1>3
  <2> QED BY <1>1, <1>2, <2>1, <2>2
<1>5. Typed(Typing) \in {Typing, Garbled} BY DEF Typed
<1>6. TurnInv' BY <1>1, <1>4 DEF TurnInv, Quiet
<1>7. InputInv'
  <2>1. Garbled.op = "garbled" /\ (phase = "clear" => Typing.op = "clear")
    BY DEF Garbled, Typing, Clear
  <2>2. phase = "wait" => /\ Typing = PutLine(n, upload) /\ Typing.op = "chunk"
                          /\ Typing.n = n /\ Typing.u = upload
    BY DEF Typing, PutLine
  <2>3. phase = "wait" => \A c \in Chunk : c < n => chunks[c] = upload
    BY <1>1 DEF UploadInv, ImageInv
  <2>4. CASE input' = input
    BY <1>1, <1>4, <1>5, <2>1, <2>4 DEF UploadInv, InputInv, PutLine
  <2>5. CASE input' = Garbled BY <1>1, <1>4, <2>1, <2>5 DEF UploadInv, InputInv
  <2>6. CASE input' = Typing
    BY <1>1, <1>4, <2>1, <2>2, <2>3, <2>6 DEF UploadInv, InputInv, PutLine
  <2> QED BY <1>4, <1>5, <2>4, <2>5, <2>6
<1>8. ImageInv' BY <1>1, <1>4 DEF UploadInv, ImageInv
<1> QED BY <1>4, <1>6, <1>7, <1>8 DEF UploadInv, PhotosWhole, DoneMeansStored

\* The answer to a command is the one thing under way.
LEMMA AnswerTurn ==
  ASSUME IInv, UploadInv, pc # "read", NEW r \in Reply, Finish(r),
         UNCHANGED <<phase, upload, n, wire>>, input' = NoText
  PROVE  /\ TurnInv' /\ phase \in {"clear", "wait"} /\ replies' = <<r>> /\ pc' = "read"
         /\ (replies' = <<"OK">> <=> r = "OK") /\ (replies' = <<"SUCCESS">> <=> r = "SUCCESS")
         /\ input'.op = "none" /\ replies # <<"SUCCESS">>
<1>1. wire = <<>> /\ replies = <<>> /\ phase \in {"clear", "wait"}
  BY DEF UploadInv, TurnInv, Quiet
<1>2. replies' = <<r>> /\ pc' = "read" BY <1>1 DEF Finish
<1> QED BY <1>1, <1>2 DEF TurnInv, Quiet, NoText

LEMMA UploadRefused == ASSUME IInv, UploadInv, Mistyped PROVE UploadInv'
<1> PICK r \in {"help", "ERR"} : Finish(r) BY DEF Mistyped
<1>1. /\ r \in Reply /\ pc = "entered" /\ input' = NoText
      /\ UNCHANGED <<phase, upload, n, wire, chunks, words, saved>>
  BY DEF Mistyped, Reply, scriptVars, albumVars
<1>2. /\ TurnInv' /\ phase \in {"clear", "wait"} /\ pc' = "read" /\ input'.op = "none"
      /\ replies' # <<"OK">> /\ replies' # <<"SUCCESS">> /\ replies # <<"SUCCESS">>
  BY <1>1, AnswerTurn
<1>3. InputInv' BY <1>1, <1>2 DEF UploadInv, InputInv
<1>4. ImageInv' BY <1>1, <1>2 DEF UploadInv, ImageInv
<1> QED BY <1>1, <1>2, <1>3, <1>4 DEF UploadInv, PhotosWhole, DoneMeansStored

LEMMA UploadCleared == ASSUME IInv, UploadInv, PutClear PROVE UploadInv'
<1> USE UploadFacts
<1>1. /\ "CLEAR" \in Reply /\ Finish("CLEAR") /\ pc = "entered" /\ input' = NoText
      /\ input.op = "clear" /\ chunks' = Solid(None)
      /\ UNCHANGED <<phase, upload, n, wire, words, saved>>
  BY DEF PutClear, Reply, ClearChunks, scriptVars, albumVars
<1>2. /\ TurnInv' /\ phase \in {"clear", "wait"} /\ pc' = "read" /\ input'.op = "none"
      /\ replies' # <<"OK">> /\ replies' # <<"SUCCESS">>
  BY <1>1, AnswerTurn
<1>3. n = 0 BY <1>1, <1>2 DEF UploadInv, InputInv
<1>4. chunks'[LAST] = None BY <1>1 DEF Solid
<1>5. InputInv' BY <1>1, <1>2 DEF UploadInv, InputInv
<1>6. ImageInv' BY <1>1, <1>2, <1>3, <1>4 DEF UploadInv, ImageInv
<1> QED BY <1>1, <1>2, <1>5, <1>6 DEF UploadInv, PhotosWhole, DoneMeansStored

\* A chunk completes the photo exactly when it is the last: then every slot before
\* it holds a chunk of the same upload.
LEMMA LastCompletes ==
  ASSUME IInv, UploadInv, pc = "entered", input.op = "chunk"
  PROVE  /\ ReceivedAfter(input.n) = NUM_CHUNKS <=> input.n = LAST
         /\ input.n = LAST => WithChunk = Solid(input.u)
<1> USE UploadFacts
<1>1. BufferInv /\ LineInv BY DEF IInv
<1>2. /\ input.n \in Chunk /\ input.u \in Uploads
      /\ WithChunk \in [Chunk -> Uploads \union {None}]
      /\ ReceivedAfter(input.n) = NUM_CHUNKS <=> Filled \union {input.n} = Chunk
  BY <1>1, CountAfterPut
<1>3. LAST \notin Filled BY DEF UploadInv, ImageInv, Filled
<1>4. \A c \in Chunk : c < input.n => chunks[c] = input.u BY DEF UploadInv, InputInv
<1>5. input.n = LAST => \A c \in Chunk : c < LAST \/ c = LAST OBVIOUS
<1>6. chunks \in [Chunk -> Uploads \union {None}] BY <1>1 DEF BufferInv
<1>7. input.n = LAST => Filled \union {input.n} = Chunk BY <1>2, <1>4, <1>5 DEF Filled
<1>8. input.n = LAST => WithChunk = Solid(input.u)
  <2>1. WithChunk = [c \in Chunk |-> WithChunk[c]] BY <1>2
  <2>2. input.n = LAST => \A c \in Chunk : WithChunk[c] = input.u
    BY <1>2, <1>4, <1>5, <1>6 DEF WithChunk
  <2> QED BY <2>1, <2>2 DEF Solid
<1> QED BY <1>2, <1>3, <1>7, <1>8

LEMMA UploadPut == ASSUME IInv, UploadInv, PutChunk PROVE UploadInv'
<1> USE UploadFacts
<1>1. /\ "OK" \in Reply /\ Finish("OK") /\ pc = "entered" /\ input' = NoText
      /\ input.op = "chunk" /\ chunks' = WithChunk /\ ReceivedAfter(input.n) # NUM_CHUNKS
      /\ UNCHANGED <<phase, upload, n, wire, words, saved>>
  BY DEF PutChunk, Reply, Ack, scriptVars, albumVars
<1>2. /\ TurnInv' /\ phase \in {"clear", "wait"} /\ pc' = "read" /\ input'.op = "none"
      /\ replies' # <<"SUCCESS">> /\ replies # <<"SUCCESS">>
  BY <1>1, AnswerTurn
<1>3. input.n # LAST BY <1>1, LastCompletes
<1>4. chunks \in [Chunk -> Uploads \union {None}] BY DEF IInv, BufferInv
<1>5. /\ \A c \in Chunk : c # input.n => chunks'[c] = chunks[c]
      /\ chunks'[input.n] = input.u
  BY <1>1, <1>4 DEF WithChunk
<1>6. phase = "wait" => input.n = n /\ input.u = upload
  BY <1>1 DEF UploadInv, InputInv, PutLine
<1>7. InputInv' BY <1>1, <1>2 DEF UploadInv, InputInv
<1>8. phase = "wait" => chunks'[n] = upload /\ \A c \in Chunk : c < n => chunks'[c] = upload
  BY <1>1, <1>2, <1>5, <1>6 DEF UploadInv, ImageInv
<1>9. chunks'[LAST] = None BY <1>1, <1>3, <1>5 DEF UploadInv, ImageInv
<1>10. ImageInv' BY <1>1, <1>2, <1>8, <1>9 DEF ImageInv
<1> QED BY <1>1, <1>2, <1>7, <1>10 DEF UploadInv, PhotosWhole, DoneMeansStored

LEMMA UploadPutLast == ASSUME IInv, UploadInv, RoomInAlbum, PutLastChunk PROVE UploadInv'
<1> USE UploadFacts
<1>1. /\ pc = "entered" /\ pc' = "create" /\ input' = NoText /\ input.op = "chunk"
      /\ words' = WithChunk /\ ReceivedAfter(input.n) = NUM_CHUNKS
      /\ UNCHANGED <<phase, upload, n, wire, replies, saved>>
  BY DEF PutLastChunk, RoomInAlbum, scriptVars, albumVars
<1>2. input.n = LAST /\ words' = Solid(input.u) BY <1>1, LastCompletes
<1>3. wire = <<>> /\ replies = <<>> /\ phase \in {"clear", "wait"}
  BY <1>1 DEF UploadInv, TurnInv, Quiet
<1>4. TurnInv' BY <1>1, <1>3 DEF TurnInv
<1>5. phase = "wait" => n = LAST /\ input.u = upload
  BY <1>1, <1>2 DEF UploadInv, InputInv, PutLine
<1>6. input'.op = "none" BY <1>1 DEF NoText
<1>7. InputInv' BY <1>1, <1>6 DEF UploadInv, InputInv
<1>8. ImageInv'
  <2>1. replies' # <<"OK">> /\ replies' # <<"SUCCESS">> BY <1>1, <1>3
  <2> QED BY <1>1, <1>2, <1>3, <1>5, <2>1 DEF ImageInv
<1> QED BY <1>1, <1>4, <1>7, <1>8 DEF UploadInv, PhotosWhole, DoneMeansStored

LEMMA UploadStored == ASSUME IInv, UploadInv, StoreWrite PROVE UploadInv'
<1> USE UploadFacts
<1>1. /\ "SUCCESS" \in Reply /\ Finish("SUCCESS") /\ pc = "write" /\ chunks' = Solid(None)
      /\ saved' = saved \union {words} /\ input' = input
      /\ UNCHANGED <<phase, upload, n, wire, words>>
  BY DEF StoreWrite, Reply, Ack, ClearChunks, scriptVars
<1>2. input = NoText BY <1>1 DEF UploadInv, InputInv
<1>3. /\ TurnInv' /\ phase \in {"clear", "wait"} /\ pc' = "read" /\ input'.op = "none"
      /\ replies' = <<"SUCCESS">> /\ replies' # <<"OK">>
  BY <1>1, <1>2, AnswerTurn
<1>4. /\ \E u \in Uploads : words = Solid(u)
      /\ phase = "wait" => words = Solid(upload) /\ n = LAST
  BY <1>1 DEF UploadInv, ImageInv
<1>5. chunks'[LAST] = None BY <1>1 DEF Solid
<1>6. InputInv' BY <1>1, <1>3 DEF UploadInv, InputInv
<1>7. ImageInv' BY <1>1, <1>3, <1>4, <1>5 DEF ImageInv
<1> QED BY <1>1, <1>3, <1>4, <1>6, <1>7 DEF UploadInv, PhotosWhole, DoneMeansStored

LEMMA UploadOther ==
  ASSUME IInv, UploadInv,
         StoreCreate \/ Reboot \/ PortTurns \/ CameraSave \/ VaultDelete \/ UNCHANGED vars
  PROVE  UploadInv'
<1> USE UploadFacts
<1>1. CASE StoreCreate
  <2>1. /\ pc = "create" /\ pc' = "write"
        /\ UNCHANGED <<phase, upload, n, wire, replies, input, chunks, words, saved>>
    BY <1>1 DEF StoreCreate, scriptVars
  <2>2. wire = <<>> /\ replies = <<>> /\ phase \in {"clear", "wait"}
    BY <2>1 DEF UploadInv, TurnInv, Quiet
  <2>3. TurnInv' BY <2>1, <2>2 DEF TurnInv
  <2>4. InputInv' BY <2>1 DEF UploadInv, InputInv, PutLine
  <2>5. ImageInv' BY <2>1 DEF UploadInv, ImageInv
  <2> QED BY <2>1, <2>3, <2>4, <2>5 DEF UploadInv, PhotosWhole, DoneMeansStored
<1>2. CASE Reboot
  <2>1. /\ pc' = "read" /\ input' = NoText /\ wire' = <<>> /\ replies' = <<>>
        /\ chunks' = Solid(None) /\ phase' = (IF Running THEN "exit" ELSE phase)
        /\ UNCHANGED <<upload, n, saved>>
    BY <1>2 DEF Reboot, ClearChunks
  <2>2. chunks'[LAST] = None /\ input'.op = "none" BY <2>1 DEF Solid, NoText
  <2>3. TurnInv' BY <2>1 DEF TurnInv, Quiet
  <2>4. /\ phase' \notin {"greet", "clear", "send", "feed", "wait"}
        /\ (phase' = "done" => phase = "done")
    BY <2>1 DEF Running, Feeding
  <2>5. InputInv' BY <2>1, <2>2, <2>4 DEF InputInv
  <2>6. ImageInv' BY <2>1, <2>2, <2>4 DEF ImageInv
  <2> QED BY <2>1, <2>3, <2>4, <2>5, <2>6 DEF UploadInv, PhotosWhole, DoneMeansStored
<1>3. CASE PortTurns \/ CameraSave \/ VaultDelete \/ UNCHANGED vars
  <2>1. UNCHANGED <<phase, upload, n, wire, replies, pc, input, chunks, words, saved>>
    BY <1>3 DEF PortTurns, CameraSave, VaultDelete, vars, scriptVars, consoleVars, albumVars
  <2>2. TurnInv' BY <2>1 DEF UploadInv, TurnInv, Quiet, Typing, PutLine, Clear
  <2>3. InputInv' BY <2>1 DEF UploadInv, InputInv, PutLine
  <2>4. ImageInv' BY <2>1 DEF UploadInv, ImageInv
  <2> QED BY <2>1, <2>2, <2>3, <2>4 DEF UploadInv, PhotosWhole, DoneMeansStored
<1> QED BY <1>1, <1>2, <1>3

LEMMA UploadStep ==
  ASSUME AnswersInTurn, IInv, UploadInv, RoomInAlbum, [Next]_vars PROVE UploadInv'
<1>1. ~ StoreFails BY DEF StoreFails, AnswersInTurn
<1>2. \A o \in {"garble", "drop", "noenter"} \cap Events : TypeLine(o) => UploadInv'
  BY UploadTyped
<1>3. TypeLine("ok") => UploadInv' BY UploadTyped
<1> QED
  BY <1>1, <1>2, <1>3, UploadScript, UploadRefused, UploadCleared, UploadPut, UploadPutLast,
     UploadStored, UploadOther
  DEF Next, Badge

LEMMA UploadHolds == AnswersInTurn => (Spec /\ []RoomInAlbum => []UploadInv)
<1> SUFFICES ASSUME AnswersInTurn PROVE Spec /\ []RoomInAlbum => []UploadInv
    OBVIOUS
<1> QED BY UploadInit, UploadStep, UploadInvariant, PTL DEF Spec

\* As long as the album has room and nothing answers out of turn, every stored
\* photo is one image, though commands to clear the buffer are lost and chunks
\* of uploads that broke off are left in it (upload.rs:107-169, photo.rs:185-228).
THEOREM PhotosAreWhole ==
  ASSUME AnswersInTurn
  PROVE  Spec /\ []RoomInAlbum => []PhotosWhole
<1>1. UploadInv => PhotosWhole BY DEF UploadInv
<1> QED BY <1>1, UploadHolds, PTL

\* And what the script reports as sent is stored, whatever lines were lost or
\* garbled on the way and whenever the badge restarted (upload.rs:107-169).
THEOREM DoneIsStored ==
  ASSUME AnswersInTurn
  PROVE  Spec /\ []RoomInAlbum => []DoneMeansStored
<1>1. UploadInv => DoneMeansStored BY DEF UploadInv
<1> QED BY <1>1, UploadHolds, PTL
-----------------------------------------------------------------------------
\* A chunk's place in the order in which the scripts come to the chunks: the
\* uploads one after the other, and each in ascending order.
Place == Nat \X Nat
NotBefore(p, q) == q[1] < p[1] \/ (q[1] = p[1] /\ q[2] <= p[2])

\* The places of the chunks that the badge may still take: the one the script has
\* come to, the one in the shell's input and those on the wire.
PlaceOf(l) == <<l.u, l.n>>
Coming ==
  {<<upload, n>>} \union (IF input.op = "chunk" THEN {PlaceOf(input)} ELSE {})
    \union {PlaceOf(wire[i]) : i \in {j \in DOMAIN wire : wire[j].op = "chunk"}}

Past(p) == \A q \in Coming : NotBefore(q, p)

\* The line keeps the order in which the script typed.
LinesInTurn ==
  /\ input.op = "chunk" => Past(PlaceOf(input))
  /\ \A i \in DOMAIN wire : wire[i].op = "chunk" =>
       /\ NotBefore(<<upload, n>>, PlaceOf(wire[i]))
       /\ \A j \in DOMAIN wire : i < j /\ wire[j].op = "chunk" =>
            NotBefore(PlaceOf(wire[j]), PlaceOf(wire[i]))

\* What is in the buffer has come, and nothing that is still to come is before it.
BufferPast == \A c \in Chunk : chunks[c] # None => Past(<<chunks[c], c>>)

\* Nor before any chunk of a photo that was stored, and what the buffer holds came
\* after that photo.
StoredPast ==
  \A b \in saved, d \in Chunk :
    /\ Past(<<b[d], d>>)
    /\ \A c \in Chunk : chunks[c] # None => NotBefore(<<chunks[c], c>>, <<b[d], d>>)

\* The photos of uploads are those that were stored, each of them once.
OnceInv ==
  /\ LinesInTurn /\ BufferPast /\ StoredPast
  /\ \A k \in DOMAIN album : album[k][0] \in Uploads => album[k] \in saved
  /\ NoDuplicatePhotos

LEMMA Order ==
  /\ \A p \in Place : NotBefore(p, p)
  /\ \A p, q, r \in Place : NotBefore(p, q) /\ NotBefore(q, r) => NotBefore(p, r)
  BY DEF Place, NotBefore

LEMMA Places ==
  ASSUME IInv
  PROVE  /\ Coming \subseteq Place /\ <<upload, n>> \in Coming
         /\ input.op = "chunk" => PlaceOf(input) \in Coming
         /\ \A i \in DOMAIN wire : wire[i].op = "chunk" => PlaceOf(wire[i]) \in Coming
         /\ \A c \in Chunk : <<chunks[c], c>> \in Place
         /\ \A b \in saved, d \in Chunk : <<b[d], d>> \in Place
         /\ Chunk \subseteq Nat /\ Uploads \subseteq Nat
<1>1. Chunk \subseteq Nat /\ Pixels \subseteq Nat /\ Uploads \subseteq Nat
    BY UploadAssumption DEF UploadAssumption, Chunk, Pixels, Uploads, None, Camera
<1>2. <<upload, n>> \in Place
    BY <1>1, UploadAssumption DEF UploadAssumption, IInv, ScriptInv, Place
<1>3. ASSUME NEW l \in GoodLine, l.op = "chunk" PROVE PlaceOf(l) \in Place
    BY <1>1, <1>3 DEF GoodLine, Line, PlaceOf, Place
<1>4. input \in GoodLine /\ \A i \in DOMAIN wire : wire[i] \in GoodLine
    BY DEF IInv, LineInv
<1>5. \A c \in Chunk : <<chunks[c], c>> \in Place
  <2> SUFFICES ASSUME NEW c \in Chunk PROVE <<chunks[c], c>> \in Place
      OBVIOUS
  <2>1. chunks[c] \in Uploads \union {None}
      BY DEF IInv, BufferInv
  <2>2. None \in Nat
      BY DEF None
  <2>3. chunks[c] \in Nat /\ c \in Nat
      BY <1>1, <2>1, <2>2
  <2> QED BY <2>3 DEF Place
<1>6. \A b \in saved, d \in Chunk : <<b[d], d>> \in Place
  <2> SUFFICES ASSUME NEW b \in saved, NEW d \in Chunk PROVE <<b[d], d>> \in Place
      OBVIOUS
  <2>1. b \in [Chunk -> Pixels]
      BY DEF IInv, AlbumInv, Bitmap
  <2> QED BY <1>1, <2>1 DEF Place
<1>7. Coming \subseteq Place
  <2> SUFFICES ASSUME NEW p \in Coming PROVE p \in Place
      OBVIOUS
  <2>1. CASE p = <<upload, n>>
      BY <1>2, <2>1
  <2>2. CASE input.op = "chunk" /\ p = PlaceOf(input)
      BY <1>3, <1>4, <2>2
  <2>3. CASE \E i \in DOMAIN wire : wire[i].op = "chunk" /\ p = PlaceOf(wire[i])
      BY <1>3, <1>4, <2>3
  <2> QED BY <2>1, <2>2, <2>3 DEF Coming
<1>8. /\ <<upload, n>> \in Coming
      /\ input.op = "chunk" => PlaceOf(input) \in Coming
      /\ \A i \in DOMAIN wire : wire[i].op = "chunk" => PlaceOf(wire[i]) \in Coming
    BY DEF Coming
<1> QED BY <1>1, <1>5, <1>6, <1>7, <1>8

LEMMA PlacesNext == IInv' => (Coming \subseteq Place)'
<1>1. IInv => Coming \subseteq Place
    BY Places
<1> QED BY <1>1, PTL

\* The script only goes forward, and the line adds nothing of its own.
Onward == \A q \in Coming' : \E p \in Coming : NotBefore(q, p)

\* So what no chunk came before, none comes before.
LEMMA StaysPast ==
  ASSUME IInv, IInv', Onward
  PROVE  \A r \in Place : (\A p \in Coming : NotBefore(p, r)) => \A q \in Coming' : NotBefore(q, r)
<1>1. Coming \subseteq Place
    BY Places
<1>2. Coming' \subseteq Place
    BY PlacesNext
<1> SUFFICES ASSUME NEW r \in Place, \A p \in Coming : NotBefore(p, r), NEW q \in Coming'
             PROVE  NotBefore(q, r)
    OBVIOUS
<1>3. PICK p \in Coming : NotBefore(q, p)
    BY DEF Onward
<1> QED BY <1>1, <1>2, <1>3, Order

\* A step that puts no chunk in the buffer and stores none keeps the invariant.
LEMMA OnceKept ==
  ASSUME IInv, IInv', OnceInv, Onward, LinesInTurn', saved' = saved,
         \A c \in Chunk : chunks'[c] \in {chunks[c], None},
         \A k \in DOMAIN album' : album'[k][0] \in Uploads => k \in DOMAIN album /\ album'[k] = album[k]
  PROVE  OnceInv'
<1>1. \A r \in Place : (\A p \in Coming : NotBefore(p, r)) => \A q \in Coming' : NotBefore(q, r)
    BY StaysPast
<1>2. \A c \in Chunk : <<chunks[c], c>> \in Place
    BY Places
<1>3. \A b \in saved, d \in Chunk : <<b[d], d>> \in Place
    BY Places
<1>4. \A c \in Chunk : chunks'[c] # None => chunks'[c] = chunks[c] /\ chunks[c] # None
    OBVIOUS
<1>5. BufferPast'
    BY <1>1, <1>2, <1>4 DEF OnceInv, BufferPast, Past
<1>6. StoredPast'
    BY <1>1, <1>3, <1>4 DEF OnceInv, StoredPast, Past
<1>7. \A k \in DOMAIN album' : album'[k][0] \in Uploads => album'[k] \in saved'
    BY DEF OnceInv
<1>8. NoDuplicatePhotos'
    BY DEF OnceInv, NoDuplicatePhotos
<1> QED BY <1>5, <1>6, <1>7, <1>8 DEF OnceInv

-----------------------------------------------------------------------------
LEMMA EndOfLine ==
  ASSUME NEW q \in Seq(GoodLine), NEW l \in GoodLine
  PROVE  \A i \in DOMAIN Append(q, l) : \/ i \in DOMAIN q /\ Append(q, l)[i] = q[i]
                                        \/ i = Len(q) + 1 /\ Append(q, l)[i] = l
<1>1. DOMAIN q = 1 .. Len(q) /\ DOMAIN Append(q, l) = 1 .. Len(q) + 1 /\ Len(q) \in Nat
    BY AppendProperties
<1>2. \A i \in 1 .. Len(q) : Append(q, l)[i] = q[i]
    BY AppendProperties
<1>3. Append(q, l)[Len(q) + 1] = l
    BY AppendProperties
<1> QED BY <1>1, <1>2, <1>3

\* Typing a line: the script has come to its place, which is not before those of
\* the lines already under way.
LEMMA TypedInTurn ==
  ASSUME IInv, IInv', OnceInv, input' = input,
         NotBefore(<<upload', n'>>, <<upload, n>>),
         \/ wire' = wire
         \/ wire' = Append(wire, Clear)
         \/ wire' = Append(wire, PutLine(n', upload'))
  PROVE  Onward /\ LinesInTurn'
<1> DEFINE here == <<upload, n>>
           there == <<upload', n'>>
<1>1. Coming \subseteq Place /\ here \in Coming
    BY Places
<1>2. Coming' \subseteq Place
    BY PlacesNext
<1>3. there \in Coming'
    BY DEF Coming
<1>4. wire \in Seq(GoodLine) /\ wire' \in Seq(GoodLine)
    BY DEF IInv, LineInv
<1>5. \A i \in DOMAIN wire' : wire'[i].op = "chunk" =>
        \/ i \in DOMAIN wire /\ wire'[i] = wire[i]
        \/ PlaceOf(wire'[i]) = there /\ i = Len(wire) + 1
  <2>1. CASE wire' = wire
      BY <2>1
  <2>2. ASSUME NEW l \in GoodLine, wire' = Append(wire, l)
        PROVE  \A i \in DOMAIN wire' : \/ i \in DOMAIN wire /\ wire'[i] = wire[i]
                                       \/ i = Len(wire) + 1 /\ wire'[i] = l
    <3>1. l \in GoodLine /\ wire \in Seq(GoodLine)
        BY <1>4
    <3>2. \A i \in DOMAIN Append(wire, l) :
            \/ i \in DOMAIN wire /\ Append(wire, l)[i] = wire[i]
            \/ i = Len(wire) + 1 /\ Append(wire, l)[i] = l
        BY <3>1, EndOfLine
    <3> QED BY <2>2, <3>2, Zenon
  <2>3. CASE wire' = Append(wire, Clear)
    <3>1. Clear.op = "clear"
        BY DEF Clear
    <3>2. Clear \in GoodLine
      <4>1. 0 \in Chunk
          BY UploadAssumption DEF UploadAssumption, Chunk
      <4> QED BY <4>1 DEF Clear, GoodLine, Line
    <3> QED BY <2>2, <2>3, <3>1, <3>2
  <2>4. CASE wire' = Append(wire, PutLine(n', upload'))
    <3>1. PlaceOf(PutLine(n', upload')) = there
        BY DEF PutLine, PlaceOf
    <3>2. wire'[Len(wire) + 1] = PutLine(n', upload')
        BY <1>4, <2>4
    <3>3. \A i \in DOMAIN wire' : (i \in DOMAIN wire /\ wire'[i] = wire[i]) \/ i = Len(wire) + 1
        BY <1>4, <2>4
    <3> QED BY <3>1, <3>2, <3>3
  <2> QED BY <2>1, <2>3, <2>4
<1> HIDE DEF there
<1>6. \A q \in Coming' : q = there \/ q \in Coming
  <2> SUFFICES ASSUME NEW q \in Coming' PROVE q = there \/ q \in Coming
      OBVIOUS
  <2>1. CASE q = there
      BY <2>1
  <2>2. CASE input'.op = "chunk" /\ q = PlaceOf(input')
      BY <2>2, Places
  <2>3. CASE \E i \in DOMAIN wire' : wire'[i].op = "chunk" /\ q = PlaceOf(wire'[i])
      BY <1>5, <2>3, Places
  <2> QED BY <2>1, <2>2, <2>3 DEF Coming, there
<1>7. there \in Place /\ NotBefore(there, here)
    BY <1>2, <1>3 DEF there
<1>8. Onward
  <2>1. \A q \in Coming : NotBefore(q, q)
      BY <1>1, Order
  <2> QED BY <1>1, <1>6, <1>7, <2>1 DEF Onward
<1>9. \A r \in Place : NotBefore(here, r) => NotBefore(there, r)
    BY <1>1, <1>7, Order
<1>10. input.op = "chunk" => Past(PlaceOf(input))'
  <2> SUFFICES ASSUME input.op = "chunk", NEW q \in Coming' PROVE NotBefore(q, PlaceOf(input))
      BY DEF Past
  <2>1. PlaceOf(input) \in Place /\ \A p \in Coming : NotBefore(p, PlaceOf(input))
      BY Places DEF OnceInv, LinesInTurn, Past
  <2> QED BY <1>1, <1>6, <1>9, <2>1
<1>11. \A i \in DOMAIN wire : wire[i].op = "chunk" =>
         NotBefore(there, PlaceOf(wire[i])) /\ PlaceOf(wire[i]) \in Place
  <2>1. \A i \in DOMAIN wire : wire[i].op = "chunk" => PlaceOf(wire[i]) \in Place
      BY Places
  <2> QED BY <1>9, <2>1 DEF OnceInv, LinesInTurn
<1>12. NotBefore(there, there)
    BY <1>7, Order
<1>13. ASSUME NEW i \in DOMAIN wire', wire'[i].op = "chunk"
       PROVE  /\ NotBefore(there, PlaceOf(wire'[i]))
              /\ \A j \in DOMAIN wire' : i < j /\ wire'[j].op = "chunk" =>
                   NotBefore(PlaceOf(wire'[j]), PlaceOf(wire'[i]))
  <2>1. CASE i \in DOMAIN wire /\ wire'[i] = wire[i]
    <3>1. NotBefore(there, PlaceOf(wire'[i]))
        BY <1>11, <1>13, <2>1
    <3>2. ASSUME NEW j \in DOMAIN wire', i < j, wire'[j].op = "chunk"
          PROVE  NotBefore(PlaceOf(wire'[j]), PlaceOf(wire'[i]))
      <4>1. CASE j \in DOMAIN wire /\ wire'[j] = wire[j]
          BY <1>13, <2>1, <3>2, <4>1 DEF OnceInv, LinesInTurn
      <4>2. CASE PlaceOf(wire'[j]) = there
          BY <3>1, <4>2
      <4> QED BY <1>5, <3>2, <4>1, <4>2
    <3> QED BY <3>1, <3>2
  <2>2. CASE PlaceOf(wire'[i]) = there /\ i = Len(wire) + 1
    <3>1. \A j \in DOMAIN wire' : ~ i < j
        BY <1>4, <2>2, Len(wire') \in {Len(wire), Len(wire) + 1}
    <3> QED BY <1>12, <2>2, <3>1
  <2> QED BY <1>5, <1>13, <2>1, <2>2
<1>14. LinesInTurn'
    BY <1>10, <1>13 DEF LinesInTurn, there
<1> QED BY <1>8, <1>14

\* The shell reads: nothing new is under way, and the lines stay in turn.
LEMMA ReadInTurn ==
  ASSUME IInv, IInv', OnceInv, UNCHANGED <<upload, n>>,
         \/ wire' \in {wire, <<>>} /\ input' \in {input, NoText}
         \/ wire # <<>> /\ wire' = Tail(wire) /\ input' \in {input, Garbled, Head(wire)}
  PROVE  Onward /\ LinesInTurn'
<1>1. Coming \subseteq Place /\ <<upload, n>> \in Coming
    BY Places
<1>2. wire \in Seq(GoodLine) /\ wire' \in Seq(GoodLine)
    BY DEF IInv, LineInv
<1>3. \A i \in DOMAIN wire' :
        /\ wire' \in {wire, <<>>} => i \in DOMAIN wire /\ wire'[i] = wire[i]
        /\ wire # <<>> /\ wire' = Tail(wire) => i + 1 \in DOMAIN wire /\ wire'[i] = wire[i + 1]
  <2> SUFFICES ASSUME NEW i \in DOMAIN wire', wire # <<>>, wire' = Tail(wire)
               PROVE  i + 1 \in DOMAIN wire /\ wire'[i] = wire[i + 1]
      OBVIOUS
  <2>1. /\ Len(wire') = Len(wire) - 1
        /\ \A k \in 1 .. Len(wire') : wire'[k] = wire[k + 1]
      BY <1>2, HeadTailProperties, Zenon
  <2>2. i \in 1 .. Len(wire') /\ Len(wire) \in Nat /\ DOMAIN wire = 1 .. Len(wire)
      BY <1>2
  <2>3. wire'[i] = wire[i + 1]
      BY <2>1, <2>2
  <2>4. i + 1 \in 1 .. Len(wire)
    <3>1. \A m \in Nat : \A k \in 1 .. m - 1 : k + 1 \in 1 .. m
        OBVIOUS
    <3>2. i \in 1 .. Len(wire) - 1
        BY <2>1, <2>2
    <3> QED BY <2>2, <3>1, <3>2
  <2> QED BY <2>2, <2>3, <2>4
<1>4. Garbled.op # "chunk" /\ NoText.op # "chunk"
    BY DEF Garbled, NoText
<1>5. wire # <<>> => 1 \in DOMAIN wire /\ Head(wire) = wire[1]
    BY <1>2
<1>6. \A i \in DOMAIN wire' : \E k \in DOMAIN wire : wire'[i] = wire[k]
    BY <1>3
<1>7. input'.op = "chunk" =>
        \/ input' = input
        \/ wire # <<>> /\ wire' = Tail(wire) /\ input' = wire[1] /\ 1 \in DOMAIN wire
    BY <1>4, <1>5
<1>8. Coming' \subseteq Coming
  <2> SUFFICES ASSUME NEW q \in Coming' PROVE q \in Coming
      OBVIOUS
  <2>1. CASE q = <<upload', n'>>
      BY <1>1, <2>1
  <2>2. CASE input'.op = "chunk" /\ q = PlaceOf(input')
      BY <1>7, <2>2, Places
  <2>3. CASE \E i \in DOMAIN wire' : wire'[i].op = "chunk" /\ q = PlaceOf(wire'[i])
      BY <1>6, <2>3, Places
  <2> QED BY <2>1, <2>2, <2>3 DEF Coming
<1>9. Onward
    BY <1>1, <1>8, Order DEF Onward
<1>10. input'.op = "chunk" => \A q \in Coming' : NotBefore(q, PlaceOf(input'))
  <2> SUFFICES ASSUME input'.op = "chunk", NEW q \in Coming'
               PROVE  NotBefore(q, PlaceOf(input'))
      OBVIOUS
  <2>1. CASE input' = input
      BY <1>8, <2>1 DEF OnceInv, LinesInTurn, Past
  <2>2. CASE wire # <<>> /\ wire' = Tail(wire) /\ input' = wire[1] /\ 1 \in DOMAIN wire
    <3>1. CASE q = <<upload', n'>>
        BY <2>2, <3>1 DEF OnceInv, LinesInTurn
    <3>2. CASE q = PlaceOf(input')
      <4>1. q \in Place
          BY <1>1, <1>8
      <4> QED BY <3>2, <4>1, Order
    <3>3. CASE \E i \in DOMAIN wire' : wire'[i].op = "chunk" /\ q = PlaceOf(wire'[i])
      <4>1. PICK i \in DOMAIN wire' : wire'[i].op = "chunk" /\ q = PlaceOf(wire'[i])
          BY <3>3
      <4>2. i + 1 \in DOMAIN wire /\ wire'[i] = wire[i + 1] /\ 1 < i + 1
          BY <1>2, <1>3, <2>2
      <4> QED BY <2>2, <4>1, <4>2 DEF OnceInv, LinesInTurn
    <3> QED BY <3>1, <3>2, <3>3 DEF Coming
  <2> QED BY <1>7, <2>1, <2>2
<1>11. ASSUME NEW i \in DOMAIN wire', wire'[i].op = "chunk"
       PROVE  /\ NotBefore(<<upload', n'>>, PlaceOf(wire'[i]))
              /\ \A j \in DOMAIN wire' : i < j /\ wire'[j].op = "chunk" =>
                   NotBefore(PlaceOf(wire'[j]), PlaceOf(wire'[i]))
  <2>1. NotBefore(<<upload', n'>>, PlaceOf(wire'[i]))
      BY <1>6, <1>11 DEF OnceInv, LinesInTurn
  <2>2. CASE wire' \in {wire, <<>>}
      BY <1>3, <1>11, <2>1, <2>2 DEF OnceInv, LinesInTurn
  <2>3. CASE wire # <<>> /\ wire' = Tail(wire)
    <3>1. ASSUME NEW j \in DOMAIN wire', i < j, wire'[j].op = "chunk"
          PROVE  NotBefore(PlaceOf(wire'[j]), PlaceOf(wire'[i]))
      <4>1. /\ i + 1 \in DOMAIN wire /\ wire'[i] = wire[i + 1]
            /\ j + 1 \in DOMAIN wire /\ wire'[j] = wire[j + 1] /\ i + 1 < j + 1
          BY <1>2, <1>3, <2>3, <3>1
      <4> QED BY <1>11, <3>1, <4>1 DEF OnceInv, LinesInTurn
    <3> QED BY <2>1, <3>1
  <2> QED BY <2>2, <2>3
<1>12. LinesInTurn'
    BY <1>10, <1>11 DEF LinesInTurn, Past
<1> QED BY <1>9, <1>12

\* Every step leaves the chunks in turn.
LEMMA TurnKept ==
  ASSUME IInv, IInv', OnceInv, [Next]_vars
  PROVE  Onward /\ LinesInTurn'
<1>1. <<upload, n>> \in Place /\ upload \in Nat /\ n \in Nat
  <2>1. <<upload, n>> \in Place
      BY Places
  <2> QED BY <2>1 DEF Place
<1>2. NotBefore(<<upload, n>>, <<upload, n>>)
    BY <1>1, Order
<1>3. CASE StartScript
  <2>1. input' = input /\ upload' = upload + 1 /\ wire' = wire
      BY <1>3 DEF StartScript, Speak, consoleVars
  <2>2. NotBefore(<<upload', n'>>, <<upload, n>>)
      BY <1>1, <2>1 DEF NotBefore
  <2> QED BY <2>1, <2>2, TypedInTurn
<1>4. CASE SendChunk \/ Feed
  <2>1. /\ input' = input /\ upload' = upload /\ n' = n
        /\ wire' \in {wire, Append(wire, Clear), Append(wire, PutLine(n, upload))}
      BY <1>4 DEF SendChunk, Speak, Feed, consoleVars
  <2> QED BY <1>2, <2>1, TypedInTurn
<1>5. CASE ReadReplies \/ Timeout
  <2>1. input' = input /\ upload' = upload /\ wire' = wire /\ n' \in {n, n + 1}
      BY <1>5 DEF ReadReplies, Timeout, NextChunk, TryAgain, consoleVars
  <2>2. NotBefore(<<upload', n'>>, <<upload, n>>)
      BY <1>1, <2>1 DEF NotBefore
  <2> QED BY <2>1, <2>2, TypedInTurn
<1>6. ASSUME NEW o \in {"ok", "garble", "drop", "noenter"}, TypeLine(o)
      PROVE  Onward /\ LinesInTurn'
  <2>1. /\ wire # <<>> /\ wire' = Tail(wire) /\ input' \in {input, Garbled, Head(wire)}
        /\ UNCHANGED <<upload, n>>
      BY <1>6 DEF TypeLine, Typed, scriptVars
  <2> QED BY <2>1, ReadInTurn
<1>7. CASE Mistyped \/ PutClear \/ PutChunk \/ PutLastChunk \/ StoreFails \/ StoreCreate
           \/ StoreWrite \/ Reboot \/ PortTurns \/ CameraSave \/ VaultDelete \/ UNCHANGED vars
  <2>1. /\ wire' \in {wire, <<>>} /\ input' \in {input, NoText} /\ UNCHANGED <<upload, n>>
      BY <1>7 DEF Mistyped, PutClear, PutChunk, PutLastChunk, StoreFails, StoreCreate,
         StoreWrite, Reboot, PortTurns, CameraSave, VaultDelete, vars, scriptVars, consoleVars
  <2> QED BY <2>1, ReadInTurn
<1> QED BY <1>3, <1>4, <1>5, <1>6, <1>7 DEF Next, Script, Badge

\* A chunk put in the buffer came after everything there is (photo.rs:185-208).
LEMMA OncePut ==
  ASSUME IInv, IInv', OnceInv, Onward, LinesInTurn', input.op = "chunk",
         chunks' = WithChunk, saved' = saved, album' = album
  PROVE  OnceInv'
<1>1. \A r \in Place : (\A p \in Coming : NotBefore(p, r)) => \A q \in Coming' : NotBefore(q, r)
    BY StaysPast
<1>2. \A c \in Chunk : <<chunks[c], c>> \in Place
    BY Places
<1>3. \A b \in saved, d \in Chunk : <<b[d], d>> \in Place
    BY Places
<1>4. PlaceOf(input) \in Coming /\ PlaceOf(input) \in Place
    BY Places
<1>5. chunks \in [Chunk -> Uploads \union {None}]
    BY DEF IInv, BufferInv
<1>6. \A c \in Chunk : \/ chunks'[c] = chunks[c]
                       \/ c = input.n /\ chunks'[c] = input.u
    BY <1>5 DEF WithChunk
<1>7. \A c \in Chunk : \/ chunks'[c] = chunks[c]
                       \/ <<chunks'[c], c>> = PlaceOf(input)
    BY <1>6 DEF PlaceOf
<1>8. BufferPast'
  <2> SUFFICES ASSUME NEW c \in Chunk, chunks'[c] # None
               PROVE  \A q \in Coming' : NotBefore(q, <<chunks'[c], c>>)
      BY DEF BufferPast, Past
  <2>1. CASE chunks'[c] = chunks[c]
      BY <1>1, <1>2, <2>1 DEF OnceInv, BufferPast, Past
  <2>2. CASE <<chunks'[c], c>> = PlaceOf(input)
      BY <1>1, <1>4, <2>2 DEF OnceInv, LinesInTurn, Past
  <2> QED BY <1>7, <2>1, <2>2
<1>9. StoredPast'
  <2>1. \A b \in saved', d \in Chunk : \A q \in Coming' : NotBefore(q, <<b[d], d>>)
      BY <1>1, <1>3 DEF OnceInv, StoredPast, Past
  <2>2. ASSUME NEW b \in saved, NEW d \in Chunk, NEW c \in Chunk, chunks'[c] # None
        PROVE  NotBefore(<<chunks'[c], c>>, <<b[d], d>>)
    <3>1. CASE chunks'[c] = chunks[c]
        BY <2>2, <3>1 DEF OnceInv, StoredPast
    <3>2. CASE <<chunks'[c], c>> = PlaceOf(input)
        BY <1>4, <2>2, <3>2 DEF OnceInv, StoredPast, Past
    <3> QED BY <1>7, <3>1, <3>2
  <2> QED BY <2>1, <2>2 DEF StoredPast, Past
<1>10. \A k \in DOMAIN album' : album'[k][0] \in Uploads => album'[k] \in saved'
    BY DEF OnceInv
<1>11. NoDuplicatePhotos'
    BY DEF OnceInv, NoDuplicatePhotos
<1> QED BY <1>8, <1>9, <1>10, <1>11 DEF OnceInv

\* A photo of two or more chunks that has been stored cannot be in the buffer again:
\* its first chunk and its second would each have to come after the other.
LEMMA NeverAgain ==
  ASSUME IInv, OnceInv, pc = "write", NUM_CHUNKS # 1
  PROVE  words \notin saved
<1>1. 0 \in Chunk /\ 1 \in Chunk
    BY UploadAssumption DEF UploadAssumption, Chunk
<1>2. \A c \in Chunk : chunks[c] # None
    BY DEF IInv, BufferInv, StoringTheBuffer, Filled
<1>3. words = chunks /\ chunks \in [Chunk -> Uploads \union {None}] /\ Uploads \subseteq Nat
    BY Places DEF IInv, BufferInv, StoringTheBuffer
<1>4. chunks[0] \in Nat /\ chunks[1] \in Nat
    BY <1>1, <1>2, <1>3
<1> SUFFICES ASSUME chunks \in saved PROVE FALSE
    BY <1>3
<1>5. /\ NotBefore(<<chunks[0], 0>>, <<chunks[1], 1>>)
      /\ NotBefore(<<chunks[1], 1>>, <<chunks[0], 0>>)
    BY <1>1, <1>2 DEF OnceInv, StoredPast
<1>6. chunks[1] < chunks[0] /\ (chunks[0] < chunks[1] \/ chunks[0] = chunks[1])
    BY <1>5 DEF NotBefore
<1> QED BY <1>4, <1>6

\* So storing it keeps the uploads' photos apart (photo.rs:83-118).
LEMMA OnceStored ==
  ASSUME IInv, IInv', OnceInv, Onward, LinesInTurn', StoreWrite, NUM_CHUNKS # 1
  PROVE  OnceInv'
<1>1. \A r \in Place : (\A p \in Coming : NotBefore(p, r)) => \A q \in Coming' : NotBefore(q, r)
    BY StaysPast
<1>2. \A c \in Chunk : <<chunks[c], c>> \in Place
    BY Places
<1>3. \A b \in saved, d \in Chunk : <<b[d], d>> \in Place
    BY Places
<1>4. /\ pc = "write" /\ album' = Put1(album, key, words) /\ saved' = saved \union {words}
      /\ chunks' = Solid(None)
    BY DEF StoreWrite, ClearChunks
<1>5. words = chunks /\ \A c \in Chunk : chunks[c] # None
    BY <1>4 DEF IInv, BufferInv, StoringTheBuffer, Filled
<1>6. words \notin saved
    BY <1>4, NeverAgain
<1>7. \A c \in Chunk : chunks'[c] = None
    BY <1>4 DEF Solid
<1>8. BufferPast'
    BY <1>7 DEF BufferPast
<1>9. StoredPast'
  <2> SUFFICES ASSUME NEW b \in saved', NEW d \in Chunk
               PROVE  \A q \in Coming' : NotBefore(q, <<b[d], d>>)
      BY <1>7 DEF StoredPast, Past
  <2>1. CASE b \in saved
      BY <1>1, <1>3, <2>1 DEF OnceInv, StoredPast, Past
  <2>2. CASE b = chunks
      BY <1>1, <1>2, <1>5, <2>2 DEF OnceInv, BufferPast, Past
  <2> QED BY <1>4, <1>5, <2>1, <2>2
<1>10. \A k \in DOMAIN album' : \/ k = key /\ album'[k] = words
                                \/ k # key /\ k \in DOMAIN album /\ album'[k] = album[k]
    BY <1>4 DEF Put1
<1>11. \A k \in DOMAIN album' : album'[k][0] \in Uploads => album'[k] \in saved'
    BY <1>4, <1>10 DEF OnceInv
<1>12. NoDuplicatePhotos'
  <2> SUFFICES ASSUME NEW j \in DOMAIN album', NEW k \in DOMAIN album',
                      album'[j] = album'[k], album'[j][0] \in Uploads
               PROVE  j = k
      BY DEF NoDuplicatePhotos
  <2>1. CASE j # key /\ k # key
      BY <1>10, <2>1 DEF OnceInv, NoDuplicatePhotos
  <2>2. CASE j = key /\ k # key
      BY <1>6, <1>10, <2>2 DEF OnceInv
  <2>3. CASE j # key /\ k = key
      BY <1>6, <1>10, <2>3 DEF OnceInv
  <2> QED BY <2>1, <2>2, <2>3
<1> QED BY <1>8, <1>9, <1>11, <1>12 DEF OnceInv

LEMMA OnceInit == Init => OnceInv
<1> SUFFICES ASSUME Init PROVE OnceInv
    OBVIOUS
<1>1. wire = <<>> /\ input = NoText /\ saved = {}
    BY DEF Init
<1>2. \A c \in Chunk : chunks[c] = None
    BY DEF Init, Solid
<1>3. LinesInTurn
    BY <1>1 DEF LinesInTurn, NoText
<1>4. \A k \in DOMAIN album : album[k][0] \notin Uploads
  <2>1. \A k \in DOMAIN album : album[k] = Solid(Camera)
      BY OldAlbum
  <2>2. 0 \in Chunk /\ Camera \notin Uploads
      BY UploadAssumption DEF UploadAssumption, Chunk, Camera, Uploads
  <2> QED BY <2>1, <2>2 DEF Solid
<1>5. BufferPast /\ StoredPast /\ NoDuplicatePhotos
    BY <1>1, <1>2, <1>4 DEF BufferPast, StoredPast, NoDuplicatePhotos
<1> QED BY <1>3, <1>4, <1>5 DEF OnceInv

\* An album that loses a key or gains one that holds no upload has no new photo of
\* an upload.
LEMMA OnlyOldPhotos ==
  ASSUME NUM_CHUNKS # 1, StoreCreate \/ Reboot \/ CameraSave \/ VaultDelete
  PROVE  \A k \in DOMAIN album' : album'[k][0] \in Uploads => k \in DOMAIN album /\ album'[k] = album[k]
<1>1. 0 \in Chunk /\ None \notin Uploads /\ Camera \notin Uploads
    BY UploadAssumption DEF UploadAssumption, Chunk, None, Camera, Uploads
<1>2. Solid(None)[0] \notin Uploads /\ Solid(Camera)[0] \notin Uploads
    BY <1>1 DEF Solid
<1>3. ASSUME NEW k, NEW v, v[0] \notin Uploads, album' = Put1(album, k, v)
      PROVE  \A j \in DOMAIN album' : album'[j][0] \in Uploads => j \in DOMAIN album /\ album'[j] = album[j]
    BY <1>3 DEF Put1
<1>4. ASSUME NEW k, album' = [j \in DOMAIN album \ {k} |-> album[j]]
      PROVE  \A j \in DOMAIN album' : j \in DOMAIN album /\ album'[j] = album[j]
    BY <1>4
<1>5. CASE StoreCreate
    BY <1>2, <1>3, <1>5 DEF StoreCreate
<1>6. CASE CameraSave
    BY <1>2, <1>3, <1>6 DEF CameraSave
<1>7. CASE Reboot \/ VaultDelete
  <2>1. album' = album \/ \E k : album' = [j \in DOMAIN album \ {k} |-> album[j]]
      BY <1>7 DEF Reboot, VaultDelete
  <2> QED BY <1>4, <2>1
<1> QED BY <1>5, <1>6, <1>7

LEMMA OnceStep ==
  ASSUME IInv, IInv', OnceInv, NUM_CHUNKS # 1, [Next]_vars
  PROVE  OnceInv'
<1>1. Onward /\ LinesInTurn'
    BY TurnKept
<1>2. ASSUME saved' = saved, ClearChunks \/ chunks' = chunks,
             \A k \in DOMAIN album' : album'[k][0] \in Uploads => k \in DOMAIN album /\ album'[k] = album[k]
      PROVE  OnceInv'
  <2>1. \A c \in Chunk : chunks'[c] \in {chunks[c], None}
      BY <1>2 DEF ClearChunks, Solid
  <2> QED BY <1>1, <1>2, <2>1, OnceKept
<1>3. CASE StoreCreate \/ Reboot \/ CameraSave \/ VaultDelete
  <2>1. saved' = saved /\ (ClearChunks \/ chunks' = chunks)
      BY <1>3 DEF StoreCreate, Reboot, CameraSave, VaultDelete, consoleVars
  <2> QED BY <1>2, <1>3, <2>1, OnlyOldPhotos
<1>4. CASE StoreWrite
    BY <1>1, <1>4, OnceStored
<1>5. CASE PutChunk \/ (PutLastChunk /\ chunks' = WithChunk)
  <2>1. input.op = "chunk" /\ chunks' = WithChunk /\ saved' = saved /\ album' = album
      BY <1>5 DEF PutChunk, PutLastChunk, albumVars
  <2> QED BY <1>1, <2>1, OncePut
<1>6. CASE \/ Script \/ PortTurns \/ Mistyped \/ PutClear \/ StoreFails \/ (PutLastChunk /\ ClearChunks)
           \/ TypeLine("ok") \/ (\E o \in {"garble", "drop", "noenter"} \cap Events : TypeLine(o))
           \/ UNCHANGED vars
  <2>1. saved' = saved /\ album' = album /\ (ClearChunks \/ chunks' = chunks)
      BY <1>6 DEF Script, StartScript, SendChunk, Feed, ReadReplies, Timeout, PortTurns, Mistyped, PutClear,
         StoreFails, PutLastChunk, TypeLine, vars, consoleVars, albumVars
  <2> QED BY <1>2, <2>1
<1>7. PutLastChunk => chunks' = WithChunk \/ ClearChunks
    BY DEF PutLastChunk
<1> QED BY <1>3, <1>4, <1>5, <1>6, <1>7 DEF Next, Badge

\* A photo of two chunks or more (32 in the code) is never in the album twice,
\* however often the script sends its chunks again, whatever answers it takes for
\* others, and whatever is lost, garbled or restarted on the way (photo.rs:185-228,
\* upload.rs:107-169): the chunks come in the script's order, and a second copy
\* would need its first chunk after its second.
THEOREM UploadsStoredOnce ==
  ASSUME NUM_CHUNKS # 1
  PROVE  Spec => []NoDuplicatePhotos
<1>1. IInv /\ IInv' /\ OnceInv /\ [Next]_vars => OnceInv'
    BY OnceStep
<1>2. OnceInv => NoDuplicatePhotos
    BY DEF OnceInv
<1> QED BY <1>1, <1>2, OnceInit, UploadInvariant, PTL DEF Spec
=============================================================================
