# A TLA+ model of the badge console

`s-cam-console` is the console process of a conference badge: a serial shell, the
commands behind it, the power manager, the LED server with its light engine on a BIO
co-processor core, and a thread that fades the screen. This directory models the parts
of it that keep state over time, checks them with TLC on small instances and proves the
most important properties for all sizes with TLAPS. Every definition is written from the
code under `src/`; `PROJECT.json` maps each one to the lines it stands for. Names are
those of the code wherever TLA+ allows it, and a line reference in a comment is to the
file named in the module's head.

Contents: [1 The system](#1-the-system), [2 The modules](#2-the-modules),
[3 The runs](#3-the-runs), [4 Fairness](#4-fairness), [5 The proofs](#5-the-proofs),
[6 Where code and comments disagree](#6-where-code-and-comments-disagree),
[7 What is left out](#7-what-is-left-out), [8 Plan](#8-plan).

## 1 The system

| Part | Source | State it keeps | Operations | Talks to |
|---|---|---|---|---|
| Shell | `shell.rs` | the line being typed | keypress, callback | REPL; echoes to the serial line |
| REPL, dispatch | `repl.rs`, `cmds.rs` | history, last verb, callbacks | line, callback | all commands |
| Photo upload | `cmds/photo.rs`, `cmds/upload.rs` | chunk slots and their count; the script on the host keeps chunk and try | `photo put`, `photo put clear`, the printed script | the album in the PDDB, shared with the vault's camera |
| BIO loader | `cmds/bio.rs` | holding buffer, clock, pins, core and pin claims | chunk, `pad`, `clear`, `pin`, `clk`, `reload`, `rx`, `tx` | the PDDB, the BIO server, the vault's notice |
| Power manager | `power.rs` | ten flags, orientation, copies of VBUS and of the RTC alarm | sixteen messages; poll, VBUS interrupt, keys, motion, boot, power-off | screen, watchdog, RTC, accelerometer, fade thread, LED server |
| Fade thread | `main.rs` | direction, table index, was it fading | one loop | two atomics shared with the power manager; the screen |
| LED server | `leds.rs` | the gene, the gene set aside | breeding, SetGene, GeneTest, Force, SetPattern, Pause | the light engine |
| Light engine, host | `bio/lightgenes/mod.rs` | none but the FIFOs' contents | express, force, jack_eyes, pause_rendering | FIFO 1 to the core, FIFO 2 back |
| Light engine, core | `bio/lightgenes/main.c` | genome, gate, mode, eyes, frame | one loop | the two FIFOs, the LED strip |
| Touch core | `bio/biosao/main.c` | window, baseline, debounce | one loop | FIFO 3, read and written by `bio rx` and `bio tx` |
| QR, debug commands | `cmds/qr.rs`, `cmds/debug.rs` | keys in the PDDB; the log level | list, get, add; log | PDDB, the vault |
| Test command | `cmds/test.rs` | none | bench checks | hardware |

What is hard here is hard to test on a bench: the script and the badge share a line that
drops and garbles characters, echoes what is typed and answers late; two processes write
one album; the power manager's handlers interleave with interrupts and threads that
change what the handler before them read; the host and the core of the light engine meet
only in two FIFOs of eight words with bounded and unbounded waits; a restart may come
between a write and its sync. `PROJECT.json` lists each of these hazards at its line with
the properties that would catch it going wrong, and says so where none does.

For each part, what makes it correct:

* **upload**: the script ends; when it says done, the photo is whole, stored, stored once,
  and has replaced nothing; the counter of chunks stands for the slots;
* **loader**: the same for the holding buffer; the core runs only whole uploaded programs,
  on allowed pins, with a clock in range; what was answered survives a restart;
* **power manager**: the watchdog guards every running badge; a dark screen can be lit; a
  badge asleep on battery has its alarm; copies of VBUS and orientation are true;
  a power-off that was asked for is never lost;
* **fade**: a dimmed screen is brought back and never jumps into the dark;
* **LEDs**: the ring shows the gene; clearing a pattern puts the own gene back; a pattern
  renders as it was written;
* **light engine**: no codon is lost; mode and eyes arrive; an acknowledgement means a dark
  strip and is taken out by the pause that asked for it; every operation returns; no hue, brightness or colour wraps, and a frame follows
  from the one before;
* **touch**: a wrapped counter is never a touch, a touch and its end are seen, a report read
  is not an old one;
* **console**: a line is answered, whatever the key queue made of it, a listed number stays
  true, the two processes log alike.

## 2 The modules

| Module | Models | State and actions |
|---|---|---|
| `ChunkAssembler` | what both chunked loaders promise | `held`, `emitted`; Put, Pad, Emit, Discard |
| `PhotoUpload` | script, line, shell, `photo put`, store(), the album | script phase, chunk and try; `wire`, `replies`; shell input; slots, count; the album as a function from keys to bitmaps |
| `BioLoader` | the `bio` command | holding buffer; three keys, each as read (`mem`) and in flash (`disk`); core, pins, notice |
| `PowerManager` | the server of `power.rs` and what sends to it | a queue of messages, one action per handler, and per half of a handler where the outside can step in between; the pins and chips it drives |
| `FadeThread` | the fade thread | two shared flags, read in two steps, then one turn |
| `LedManager` | the LED server | gene, gene set aside, what the light engine was told |
| `LightEngine` | both ends of the FIFOs | the rest of the host's operation as a list of FIFO steps; the core's loop in five steps |
| `LedRing` | the two together | each request of the server is its own action and the call into the engine it makes |
| `LedGenes` | `as_gene` against the blend | pure operators on four byte fields |
| `Colours` | a pixel's colour as the word of the strip | pure operators on hue, saturation and value, and the exact colour |
| `FixedPoint` | the numbers of `fp_q16.h` and the division of `softdiv.h` | pure operators; the loops are recursive functions |
| `Rendering` | the frames of a gene | test pattern, start, frame |
| `TouchSensor` | the touch core and the console's end of FIFO 3 | counter, window, baseline, debouncer; a loop in four steps, the reader and writer in three each |
| `Console` | shell, dispatch, `qr`, `debug log`, reading photos; the vault beside them | the line, the command it is in, the codes read so far, the vault's queue |
| `MC…` | values of the constants for TLC | |
| `…Proofs`, `SlotLemmas` | theorems | |

**PhotoUpload.** One action is one uninterruptible piece of one actor: the script throws away
what has arrived (`StartScript`, `SendChunk`), feeds a line to the host's port while select()
finds it writable (`Feed`; `PortTurns` is the port, which may stall for a while or for ever), reads part of what has arrived (`ReadReplies`) or gives up (`Timeout`);
the shell takes a line, whole or damaged (`TypeLine`), and Enter runs the command. store()
is three steps, because the vault writes the same album: listing and choosing the key
(`PutLastChunk`), creating it (`StoreCreate`), writing it (`StoreWrite`); it can fail at
either of the last two, and with the event `race` the vault saves and deletes between any two of them. A chunk's bytes are the number of the upload they belong to; CRC,
base64 and length are the alternative *garbled*: a damaged chunk is refused or not
recognised, as CRC-32 is taken to notice damage. The vault and its camera are external:
they are modelled from what `photo.rs` says of the names it shares with them.

**BioLoader.** reload() is one action with the place where it stops as its choice: the
paths differ in which of the old pins are released, the new ones claimed, and the core
halted. A commit is two steps, write and sync, and a restart may lose what was not
synced. A message to the vault may be lost, as the code ignores its error (`Tell`).
`ClearPanics` is the unwrap in `clear_key`.

**PowerManager.** The queue holds what keys, interrupts, applications, the poll thread
and the power-off thread sent. The VBUS handler is two steps (read the pin; arm the
opposite edge and the alarm), since the pin can change between, as it can at any moment. The
power-off thread's two calls after its five seconds are two steps (`OffThreadClears`,
`OffThreadSends`). A suspend is `PollSuspend`, an interrupt or `SuspendFails`, and `Resume`. Time is
what the code asks of it: how long ago the last action was, in three classes (`since`); the watchdog
is on or off, so that feeding it is no step. Two history variables name gaps of the code that
properties except: `missed` (the pin moved inside the VBUS handler, and not since) and `letGo` (a poll
gave the alarm up while power management was off, and nothing has armed it since).

**LightEngine.** Each operation of the host is a list of what it does to the FIFOs, and one
step takes the first. The core pops while there are words, then writes the strip if the
gate is open, then computes a frame for 35 ms. `Prompt` says that the LED thread is not kept
from a step it is ready for during those 35 ms.

**LedRing** composes `LedManager` with `LightEngine`: a request that expresses a gene is the
server's action and a call of the engine in one step, and the server is free again when the
operation's last word is written, long before the core has read it. RingRendersGene speaks of
both: the words of the FIFO, and the gene the server holds.

**Rendering** takes the phenotype as `LedGenes` expresses it and computes frame after frame as the
core does: products and quotients of `fp_q16.h` bit for bit, the CORDIC cosine, `map_16` and the byte
casts. The numbers are in `FixedPoint`. A loop there (aligning the divider, restoring, rotating) is a
recursive function from the loop's state to the state in which it ends. The last step, HsvToRgb and
ledSetRGB, is in `Colours`; a word of the strip is its three bytes after the shift. `hsv` is a
history variable that holds the colours before they are turned into words; `eyes_on` is the core's
`jack_eyes`, a name that the host's operation has here. Quotients of whole numbers are `\div`, which
is what the core's own division computes (`SoftwareDivides`, `SignedDivides`). Time is 35 ms a frame,
looked at in steps of 10 ms, so it advances by three or four.

**TouchSensor.** A count of clock ticks is taken once a loop; which values a finger gives and which
it does not are constants, apart by TOUCH_MARGIN. A wrap of the 30-bit counter may fall into a count,
at most once in WRAP_GAP counts: 2^30 ticks are hundreds of loops. Words on FIFO 3 are told apart by
their origin: a report, one that an earlier read left behind, a word of `bio tx`.

**Console.** A line is a sequence of words. What is typed goes through a key queue of about sixteen,
which drops what comes too fast: a text arrives, arrives spoilt (`Typo`), or not at all. The badge's
controls are ignored and are no step. `qr` reads the keys once and the records one by one, and the
vault goes on between. A message to the vault is answered by an action of the vault, or by nobody
once it is dead.

**ChunkAssembler** is the abstract specification. `PhotoUpload` and `BioLoader` implement it
under the refinement `held <- the filled slots as a function`, `emitted <- the bitmaps
stored / the programs written`: the counter, the replies, the line and the key do not
matter, a chunk twice is a chunk once, and only complete buffers are handed on.

Operators that are no part of the specification are commented "As a bug would have it":
each is a plausible wrong version of the definition after it, used in `PROJECT.json` to
show that a property notices.

## 3 The runs

`tlc -config X.cfg M` in this directory; states are distinct states found.

| Run | Module | States | Checks |
|---|---|---|---|
| `photo_line` | MCPhotoUpload | 130 605 | PhotosWhole, DoneMeansStored, PhotosKept, ScriptEnds |
| `photo_badge` | MCPhotoUpload | 2 273 284 | NoDuplicatePhotos, AlbumWithinCap, ImplementsAssembler |
| `photo_full` | MCPhotoUpload | violated | DoneMeansStored where the album is full |
| `power` | MCPowerManager | 14 358 464 | WdtGuardsTheAwake, PluggedInIsTrue, ScreenFollowsOrientation, ScreenAgreesWithFlags, SuspendedOnBatteryHasAlarm, PowerOffIsNeverLost |
| `power_cable` | MCPowerManager | violated | PollsClearTheAlarm |
| `led_ring` | MCLedRing | 1 768 537 | AcksAreAwaited, RingRendersGene, OwnGenePutBack, SettingsArrive, AckMeansDark, OperationsReturnInTime |
| `engine_spin` | MCLightEngine | violated | OperationsReturn |
| `fade_thread` | MCFadeThread | 496 | DimmedIsRemembered, FullBrightnessComesBack, DarkensInSteps |
| `rendering` | MCRendering | 167 815 | PatternRenders, ColoursAreTrue, FramesFollow |
| `bio` | MCBioLoader | 3 178 728 | RunsWholePrograms, RunningIsAnnounced, AnsweredIsDurable, PinsAccounted, ImplementsAssembler |
| `touch` | MCTouchSensor | 862 920 | ReportsAreFresh, NoFalseTouch, TouchIsSeen, ReleaseIsSeen |
| `console` | MCConsole | 985 854 | LogLevelsAgree, NumbersStayTrue, LinesAreAnswered |

The type invariants of PhotoUpload, PowerManager, BioLoader, FadeThread, LightEngine and Console are
theorems (section 5), so no run spends time on them.

What each run is for, and why its bounds are enough:

* **photo_line.** The line garbles, loses a line but its Enter, loses the Enter; the port stalls,
  for a while or for ever; the badge restarts; the vault deletes and photographs. Three chunks give a
  first, a middle and a last one; three tries, one that is damaged, one that is refused and one that gives up. Three
  runs of the script put an upload before and after a failed one. The album is larger than
  what can be stored, since with a full album DoneMeansStored is false (`photo_full`).
* **photo_badge.** Answers come after the script has moved on, writes fail, the vault deletes
  photos and saves some, inside store() too. Two chunks, a cap of two, two uploads and two shots,
  and any of the keys 0 and 1 taken before: the next key is then beyond the number of photos, and a
  deletion and two shots inside store() meet the cap from both sides. The camera checks the cap when
  it saves and store() when it lists, so the album can pass it by one and AlbumWithinCap says by no
  more, and only after a save inside store() (`crowded`). PhotosWhole is not checked here: see section 6.
* **photo_full.** Cap one and one photo taken: the last chunk is refused, its retry opens a
  new photo and is acknowledged, and the script says done.
* **power.** Every message there is, one in the queue at a time and one place more for the
  power-off key, power-off asked for once, and a pin that changes at any moment, inside its handler
  too. What a queued poll does after a wake-up is there: the poll is queued while the manager resumes.
  Any mix of booted and not, managed and not, any accelerometer routing the last boot left. For any
  queue length and any number of power-offs the same six properties are proved.
* **power_cable.** Boot, polls and the cable, nothing else: unplugged and plugged in again.
* **led_ring.** Five codons through a FIFO of four: as with the code's nine through eight, a
  phenotype is longer than the FIFO, and a pause that has waited for one place writes four words.
  One gene beside one pattern, and four operations (`MaxOps`), so that an operation meets what
  two before it left behind. A wait that runs out sets the history variable `late`; what is
  promised only before one says so in the property. For other sizes all but OperationsReturnInTime
  are proved.
* **engine_spin.** The sizes of the code: express() after a pause whose acknowledgement came late.
* **fade_thread.** Nine table steps by two, so that neither end is met by a whole number of
  increments. Checked with deadlock detection: the thread never stops.
* **rendering.** Thirteen edge values in each of the four fields, every combination, for
  PatternRenders. Of these, three patterns are rendered (slow and fast hue, with and without the
  spot and the dimming), under six bands and six waves, 530 frames each (`MaxLoops`): every position
  of the loop of 512 and its end, and several periods of the faster waves. `GeneComes`: the gene comes at
  once, or after 515 frames of the test pattern. For every gene, band and wave ColoursAreTrue and
  FramesFollow are proved. The run also evaluates two assumptions that are computations: all 102 945
  cosines of a quarter turn (`QuarterComputed`), which the proofs use, and the software division of
  all words of eight bits (`DivisionComputed`), which they do not.
* **bio.** Two chunks in any order with repetitions and padding, a good and a bad pin, a clock
  above the limit, every fault: reads, writes, core initialisation, claims and messages to the vault fail,
  and the badge restarts between any two steps.
* **touch.** A window of two counts and a debouncer of three, in the relation the code has them (32 and
  100): a spoilt average is in the window for a shorter time than the debouncer asks for. FIFO 3
  holds two words. One value with a finger, two without, every wrap WRAP_GAP apart. Checked with
  deadlock detection.
* **console.** A line for each way through the commands, three codes ever saved, one log level waiting
  in the vault's queue, every fault. Checked with deadlock detection.

Deadlock detection is off where the bounds (uploads, photos, operations, queue, frames) or a state of
the system (powered off, panicked) end a behaviour.

## 4 Fairness

* `PhotoUpload!FairSpec`: weak fairness of the script's own steps (its reads and its clock
  go on, and it writes where the port takes bytes) and of the shell's thread. Nothing says that the
  port ever takes bytes: the loop at `upload.rs:88-94` has no time limit, so ScriptEnds promises an
  end unless the script is feeding for ever and the port is found full again and again. Nobody has to
  start the script, take a photo or restart the badge, and the line may damage every line there is.
* `PowerManager` has no fairness and no liveness property: PowerOffIsNeverLost is a safety property,
  since nothing says that a suspended badge is ever woken.
* `LightEngine!FairSpec`: the LED thread and the core both run. Nobody has to call an operation.
* `LedRing!RingFairSpec`: the same of the composition; no request is ever owed.
* `TouchSensor!FairSpec`: the core runs. The finger owes nothing, nor does the console; nothing says
  that the clock does not wrap for ever.
* `Console!FairSpec`: the shell's thread runs, and a vault that runs serves its messages. Nobody has
  to type, the vault need not start and may die; LinesAreAnswered speaks of one that has started.
* `FadeThread!FairSpec`: the thread's sleeps end. The power manager owes nothing.

## 5 The proofs

Eight modules hold theorems; `tlapm M.tla` proves every obligation. Assumptions on constants
are the `ASSUME`s of the component modules, which say no more than that sizes are positive
naturals and sets are of the right kind, and what a component relies on: a FIFO of the light engine
holds two words, because `new()` writes two without asking for room (`mod.rs:105-106`), and a finger's
counts are TOUCH_MARGIN times those without. TLC evaluates them in every run. `QuarterComputed` in
`FixedPoint` is of another kind: it speaks of no constant, and is a finite computation too long for the
prover, which TLC does in run `rendering`. It says of the 102 945 cosines between 0 and a quarter turn
that they fall from one to 20 parts in 65 536 at most, and over any of 189 distances by no more than
the distance and 20.

**PhotoUploadProofs** (any number of chunks, tries, uploads; any events). `IInv` is the script's,
the line's, the buffer's and the album's part. What makes it inductive is in the buffer's part:
besides counter = filled slots, `pc \in {"read", "entered"} => Filled # Chunk` — where a chunk
can come in, a slot is empty — without which a repeated chunk on a full buffer would be
counted as the last. From it: `TypeCorrect`, `WholeBuffersAreStored` and `PhotoAssembles`
(the refinement). `AlbumAtItsLimit` assumes only that listings do not fail: `RoomInv` says that while
store() has yet to create its key the album is below its cap, or no more than at it if the camera has
saved a photo meanwhile. `PhotosAreKept` adds `OrderInv` (between choosing a key and writing it the key is free,
then empty) and assumes `AlbumIsOurs`: listings do not fail and the vault stays out of store().
Section 6 shows that both are needed.
`PhotosAreWhole` and `DoneIsStored` relate script, line and badge. They assume `AnswersInTurn` (no
`slow`, no `storefail`, no echo with "OK" in it) and, as a premise `[]RoomInAlbum`, an album with
room; section 6 shows that each is needed. `UploadInv` says that one thing is under way at a time
(`TurnInv`: a line, a command or an answer), that what a lost Enter left in the shell is a chunk whose
predecessors are in the buffer (`InputInv`), and that the buffer's last slot is empty wherever a chunk
may come in (`ImageInv`). The last is why a buffer left over by an upload that broke off, and not
cleared because `photo put clear` was lost, does no harm: only chunk NUM_CHUNKS - 1 completes a photo,
and by then the upload has put its own chunk over every slot before it.
`UploadsStoredOnce` assumes nothing of the line or the answers, so `UploadInv` is of no help to it.
`OnceInv` orders chunks by upload and number instead: whatever is on the line or in the shell is not
before what came (`LinesInTurn`), so what the buffer holds is not before any chunk of a photo that was
stored from it (`StoredPast`). A second photo of one upload would have to come wholly after the first
and not after it. That needs two chunks, hence `NUM_CHUNKS # 1`: with one, TLC finds the duplicate (a
retry of the only chunk); the code has 32.

**BioLoaderProofs** (any number of chunks, any pins, clocks, faults). `IInv` adds to the types and
the buffer that what the keys hold was uploaded or cleared (`KeysWereUploaded`): a reload takes its
program from there, so `RunsWholePrograms` alone is not inductive. Results: `TypeCorrect`,
`CountStandsForSlots`, `OnlyUploadedRuns`, `OnlyAllowedPins`, `StartIsAnnounced`,
`PinsAreRemembered`, `AnsweredSurvives` (by `DurableInv`: the flash is behind only between a commit's
write and its sync, and what was answered is in what a read returns) and `LoaderAssembles`.

**SlotLemmas** are the facts about counting slots that both use.

**PowerManagerProofs** (queues of any length, any set of requests). The actions are sorted once into
those that take a message, those that queue one and the rest, so that the queue's part of the
invariant is proved three times and not for each of 26 actions. `TypeCorrect`,
`ScreenTurnsWithBadge` and `PluggedInFlagIsTrue` are unconditional; the last by an invariant that says
where a change of the pin can be: in the interrupt, in the queue, in the armed edge, or missed.
`SleepIsGuarded` and `ScreenCanBeLit` assume that a request for deep sleep is obeyed;
`BatteryHasItsAlarm` and `PowerOffSurvives` assume it too, and that the power-off key finds a place
(QCAP > QLEN), with `FullInv`: a message beyond the others' share of the queue is an alarm key, so that
a power-off key that is dropped has one before it.

**FadeThreadProofs** (any table, any increment): the index stays in the table, a dimmed screen is
remembered, and the screen darkens in single increments, for which the invariant adds that a screen
that has faded once shows what the index says.

**LedProofs** (any genes, any number of patterns, FIFOs and phenotypes of any length). The server
first: OwnGenePutBack needs the invariant that while a pattern shows, what is set aside is the own
gene, and there is one. RingSpec implements LedSpec by the identity, so both of the server's theorems
hold of the composition. Then the engine: `LastPhenotypeArrives` and `EyesArrive` follow from
`EngineInv`: the host writes a codon or the eyes right after it has found room (`WritesWait`), and each
codon of the last phenotype is in the core, in FIFO 1 with none for the same slot behind it, or still
to be written (`OnItsWay`). LastPhenotypeRendered speaks of the moment when nothing is on its way and is
not inductive alone. `RingRenders` joins the two through `SentIsShown`: what was sent last is what the
server last told. `SettingsAlwaysArrive` and `AcknowledgedInTheDark` count what is `Left` of a pause's
eight steps. `ModeInv` says where the mode is at each of them (not sent, the only mode in FIFO 1, lost,
or answered once) and that there is no other mode word and no other answer; `DarkInv`, which needs
`Prompt` and a gate of more than one loop, that the gate is ahead of the mode in FIFO 1 or has closed
the strip, with two loops left until the core has nothing but the mode to wait for. Both hold until a
wait runs out. As RingSpec implements the engine's Spec, they hold of the composition too.
`AcksNeverStray` follows from `ModeInv` as well: the one answer there is belongs to a pause that has
yet to read it. `EngineTypes` says of the types that whatever a full FIFO loses (a pause that has
waited in vain writes four words into it, `mod.rs:226-240`), the words in it are words that were sent.

The same module has the two algorithms between the server and the strip. `PatternsRender` and
`StrandsNeverWrap`: `as_gene` for all 2^32 values of the four fields, from case lemmas on the drift
rate. `ColoursAreExact`: HsvToRgb and ledSetRGB for all 2^24 pixels. Within a sixth of the circle the
core's products are compared with the exact channel on a common denominator (`SlopeNear`, `FullNear`,
`FloorNear`), where the truncations lose less than one step of the strip; the six sixths then
differ only in which channel is which (`SixSectors`).

Then the fixed-point numbers, bit for bit. tlapm knows a recursive function only as *some* function
that satisfies its definition, if there is one. `LoopDefined` says that a loop is one: the end of a state
is what no set can do without that holds the state and goes on with the loop. `LoopEnds` is the rule for
loops, with a measure that goes down and an invariant (by a least counterexample, the induction
theorems being out of reach). With them: `QuotientRounds`, that the restoring division of any two
numbers ends and rounds to nearest; `SoftwareDivides` and `SignedDivides`, that the long division of
`softdiv.h` is division and shifts nothing out, for words of any number of bits; and that the
rotations of the cosine end. `ProductTruncates`: a product loses its lowest 16 bits and nothing else.
`CosineReduces`: whatever the angle, what is left for the rotations is between 0 and a quarter turn.
With the computed quarter, `CosineFollows`: for angles on any two turns, the cosines differ by no more
than the angles and 161 of 65 536 (three distances make any in a quarter, and a half turn is two).

The frames last. `RenderInv` says that the colours in `hsv` are those of the frame before: computed at
`loop_state - 1`, with `elapsed` three or four after the period it was computed in (`FrameKept`), from a
gene within its types (`GeneTyped`). ColoursAreTrue and FramesFollow mention neither the frame before nor
its time, so they do not follow from themselves. From it, `ColoursAlwaysTrue`: `map_16` rounds a slope that is half a part off
over at most 255 positions, which cannot leave the band by more than one (`HueInBand`), and the words
are those of ColoursAreExact. And `FramesAlwaysFollow`: a position moves by the rate, also from 511 to
0 (`TurnFollows`), and the hue by the rate's share of the band (`HueStep`); the angle of the wave moves
by no more than 40 ms of its period, or by a whole turn and that where the period starts again
(`AnglesFollow`), the brightness by as much (`BrightnessFollows`), and its square by twice that
(`DimmedFollows`); and a grey as bright as the spot cannot be the word of a strong colour, which has
a channel below it (`StrongIsNoSpot`), so that what looks like the spot is the spot.

**ConsoleProofs** (any lines, codes and any queue of the vault). `ConsoleTypes`; `LevelsAgree`
by `LogInv`, that what the vault was told last is the console's level unless
`debug log` is about to tell it. `NumbersAreTrue` is an action property. `Segment(q)` says that q are
the first of the codes there are, in the order of their keys; while nothing was deleted or unreadable,
that holds of the last listing and of the codes read so far with the keys still to be read
(`NumbersInv`), since a code is saved under a key above all others. The n-th of two such lists is the
same. For this proof the keys are read as *the* ascending sequence of them (`SetToSeqs`, `Ascending`).

**TouchProofs** (any window, debouncer, margin and FIFO): `glitch_count` stays in 1 .. DEBOUNCE_COUNT,
so the code's decrement of an unsigned byte never wraps; and `ReportsFresh`, by the invariant that the
core pushes a report only into an empty FIFO, which holds at most one until the console writes.
`TouchesAreTrue` rests on `TouchInv`: a slot of the window that was filled since the last finger and
the last wrap is small (`Small`); no baseline is below the smallest count (`Begun`); and while the
window holds no finger, the debouncer has counted at most once for each average since the wrap
(`Slow`), which is less than it asks for. The average is a fold over the window; that a fold of any
length lies between its bounds is proved by its least counterexample (`SumBounds`), the induction
theorems being out of reach.

Only model-checked: all liveness (ScriptEnds, FullBrightnessComesBack, TouchIsSeen, ReleaseIsSeen,
 LinesAreAnswered, OperationsReturnInTime), which is out of the prover's reach. Every
other property of a passing run is stated by a theorem.

## 6 Where code and comments disagree

Three runs show a disagreement between the code and what the repository says of it:
`photo_full` (a photo is reported stored that was refused; `photo.rs:210`, `upload.rs:161-169`),
`power_cable` (the VBUS handler arms the alarm and leaves `alarm_set` as it was, so that the polls of a
badge plugged in again never clear it and it goes into deep sleep on the cable; `power.rs:302-308,
511-513`) and `engine_spin` (a loop that is to drain FIFO 2 reads the register of FIFO 2's other direction and never
ends; `mod.rs:182-186`).

Others met while modelling are behind a constant, or excepted by name in the property. Each can be
seen by changing that constant in the cfg of the run named, or by dropping the exception; the property
is then violated:

| Change | In | Property | Because |
|---|---|---|---|
| `EchoesOK <- FirstEchoes` | photo_line | DoneMeansStored | the script takes an echo that contains "OK" for the answer (`upload.rs:161`) |
| add `"race"` to the events | photo_line | PhotosKept | camera and console choose the same key (`photo.rs:96-107`) |
| add `"listfail"` | photo_line, photo_badge | PhotosKept, AlbumWithinCap | a failed listing is taken for an empty album (`photo.rs:92`) |
| add `"slow"` | photo_line | PhotosWhole | an answer of the run before is taken for one of this run, and the reply to `photo put clear` is not looked at (`upload.rs:148`) |
| add `"storefail"` | photo_line | DoneMeansStored, PhotosWhole | as in `photo_full`: the retry of the refused last chunk is acknowledged, and that chunk is left for the next upload (`photo.rs:208-223`) |
| `PHOTO_CAP = 1` | photo_line | PhotosWhole | the same chunk, left by a full album, completes the next photo early when `photo put clear` is lost |
| drop `~ missed` | power | PluggedInIsTrue | the pin is read before the edge is armed (`power.rs:491-495`) |
| drop `letGo` | power | SuspendedOnBatteryHasAlarm | a poll clears the alarm while unmanaged and Enable arms none (`power.rs:273-308`) |
| drop `offSending > 0` | power | SuspendedOnBatteryHasAlarm | a poll between the clearing of the alarm and the power-off key suspends a badge that has neither (`power.rs:684-686`) |
| `SleepMayFail = TRUE` | power | WdtGuardsTheAwake, ScreenAgreesWithFlags | deep sleep is not expected to return (`power.rs:540-553`) |
| `QCAP = 1` | power | PowerOffIsNeverLost | a full queue drops the power-off key (`power.rs:685-696`) |
| drop `"notice" \notin failed` | bio | RunningIsAnnounced | the error of the message to the vault is ignored (`bio.rs:293`) |

AnsweredIsDurable and PinsAccounted say themselves where they stop, by the history variable `failed`:
commit ignores the errors of write and sync (`bio.rs:334-337`), and a failed claim returns before
`pin_spec` is set (`bio.rs:276-286`). Without those conditions `bio` violates both.

In the other direction: the album can pass its cap by one, since camera and console check it each by
itself (`photo.rs:92-108`); a port that never takes bytes holds the script for ever
(`upload.rs:88-94`); a poll queued while the badge was suspended may suspend it again at once, since
the time of the last action is the one read before the suspend (`power.rs:331`); a pause whose wait for
one place ran out writes its four words all the same and FIFO 1 loses some (`mod.rs:226-240`); a badge
that was powered off can be woken by an alarm that a key armed again in
the five seconds of the power-off thread (`power.rs:679-697`); a reload that finds no code leaves the
vault's notice up (`bio.rs:289-298`); the longer gate after the slow clock is behind a `continue`
(`lightgenes/main.c:462-467`); keys of deleted photos are used again although a comment calls them monotonic
(`photo.rs:89`); a gene set while a pattern shows is lost when the pattern is cleared (`leds.rs:242-252`);
a Syngamy before there is a gene panics the LED thread (`leds.rs:181`). In the light engine `map_16`'s
rounding takes a hue of zero to 255 at the end of some bands, one step on the circle
(`main.c:212-215`), and the spot of the test pattern jumps where the loop of 512 closes, ten LEDs not
dividing it (`main.c:400`). In the touch core `clear_gpio_pins_n(!input_mask)` is to clear one pin and
clears them all, so that a high output glitches low in every loop (`biosao/main.c:141`, `DriveLow`); and
where the counter wraps the difference is taken the wrong way round (`:130`), which only the debouncer
keeps from being a touch. `bio rx` reads the FIFO and answers OK after a time-out too
(`cmds/bio.rs:503-512`). No property states these.

## 7 What is left out

* The QR mode of the upload script; packing of the image; what the vault prints of a photo.
* The overflow of a key's number at 2^32 and of other counters no use of the badge reaches.
* Errors of the accelerometer's I2C bus; queries of the power manager; the eyes it sends to the LED
  server; the tilt key it injects is a key like any other. The start-up's read of VBUS and its arming
  are one step.
* The claiming of BIO resources by the light engine, the unwraps on the way out of a core in
  `bio clear`.
* The watchdog's time: FeedWdt and the feeding by polls; a queue that is full so long that it bites.
* The badge's controls in the shell, which it ignores.
* The history of the REPL, which nothing reads, and callbacks, which reach commands that ignore
  them; the answer to a line is a word, not its text.
* The signed remainder of `softdiv.h`, which nothing calls; `fp_q12.h`, which nothing includes; the bits
  of a word on the strip (`ws2812.h`); the saturating helpers of `main.c`, which nothing calls; SetTestRate, which only chooses a mutation rate.
* Mutation and recombination of genes, which belong to the badge's API; a gene is a number, and four
  fields of it are a record in `LedGenes`.
* The first fade after boot, which jumps from full brightness: DarkensInSteps speaks of the later ones.
* `cmds/test.rs` (bench checks, input and output only), what `debug` prints, `banner.rs`, `fxcore.rs`
  (not compiled), the generated core programs and their generator.

## 8 Plan

Done: every module of section 2 with its runs, and the theorems of section 5, which state every
property the runs check but liveness. Left:

1. **PowerManager with FadeThread** through the two flags they share; each is checked alone against
   anything the other could do.
