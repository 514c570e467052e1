----------------------------- MODULE PowerManager -----------------------------
(***************************************************************************)
(* The power manager of power.rs: one thread that takes messages from the  *)
(* queue of its server and keeps the screen, the watchdog, the RTC alarm,  *)
(* the accelerometer's interrupts and the badge's sleep in step with the   *)
(* VBUS pin, the keys, motion and requests of the applications.            *)
(*                                                                         *)
(* Time is what the code asks of it: how long ago the last action was, as  *)
(* one of three answers (`since`); the watchdog is on or off, and feeding  *)
(* it is no step.  The accelerometer's registers are the two routing bits  *)
(* of CTRL_REG3.  A powered-off badge is a final state: the next boot is   *)
(* another behaviour, and Init allows what the last one can have left in   *)
(* the RTC and in the accelerometer.                                       *)
(***************************************************************************)
EXTENDS Naturals, Sequences

CONSTANTS QLEN,          \* bound: messages that keys, interrupts and applications queue
          QCAP,          \* how many messages the queue takes: QLEN, or one more
          Inputs,        \* the messages keys, motion and applications may send
          HasAccel,      \* the accelerometer was found
          SleepMayFail,  \* the deep sleep request may not be obeyed
          MaxOff         \* bound: how often power-off is asked for

Keys == {"key", "tilt", "alarm"}

Message ==
  [op : {"KeyPress"}, arg : Keys] \union
  [op : {"Enable", "PauseAccel"}, arg : {"on", "off"}] \union
  [op : {"Poll", "MotionIrq", "VbusIrq", "Boot", "ForceDeepSleep", "ForceWfi",
         "ScreenOffRequest", "PowerOff"}, arg : {"none"}]

Msg(op) == [op |-> op, arg |-> "none"]
Key(k) == [op |-> "KeyPress", arg |-> k]

ASSUME PowerAssumption ==
  /\ QLEN \in Nat \ {0} /\ QCAP \in QLEN .. QLEN + 1 /\ MaxOff \in Nat
  /\ Inputs \subseteq Message \ {Msg("Poll"), Msg("VbusIrq"), Key("alarm")}
  /\ HasAccel \in BOOLEAN /\ SleepMayFail \in BOOLEAN

VARIABLES
  \* the server's loop
  queue,                  \* messages waiting
  pc,                     \* "loop", "vbus", "suspended", "resuming" or "off"
  pwr_mgr_enabled, booted, force_wfi, force_deep_sleep, power_off,
  wfi_awaiting_keypress, screen_off_requested,
  alarm_set, vbus_state, orientation,
  plugged_in,             \* the flag shared with the fade thread
  since,                  \* since the last action: 0 up to a second, 1 more, 2 idle
  offThreads,             \* power-off threads in their five seconds
  offSending,             \* those that have cleared the alarm and not yet sent the key
  asked,                  \* how often power-off has been asked for
  \* the hardware
  screen, flipped, wdt, alarm, motionInt, tiltInt,
  pin,                    \* VBUS is high
  edge,                   \* the level of VBUS whose arrival interrupts
  vbusIrq,                \* such an arrival that is not yet in the queue
  \* history
  letGo,                  \* a poll gave the alarm up, power management being off
  missed                  \* the pin moved inside the VBUS handler, and not since

flags == <<pwr_mgr_enabled, booted, force_wfi, force_deep_sleep, power_off>>
display == <<screen, flipped, wfi_awaiting_keypress, screen_off_requested, orientation>>
rtc == <<alarm, alarm_set, letGo>>
accel == <<motionInt, tiltInt>>
vbus == <<pin, edge, vbusIrq, vbus_state, plugged_in, missed>>
offs == <<offThreads, offSending, asked>>
vars == <<queue, pc, since, wdt, flags, display, rtc, accel, vbus, offs>>

Orientations == {"FaceUp", "FaceDown", "Unknown"}

\* power_manager() up to its loop.  The RTC alarm and the accelerometer's
\* routing are as the last boot left them; setup_accel routes the tilt.  The
\* pin is read and its edge armed as the VBUS handler does it, in one step here.
Init ==
  /\ queue = <<>> /\ pc = "loop" /\ since = 0 /\ wdt = TRUE
  /\ pwr_mgr_enabled = FALSE /\ booted = FALSE
  /\ force_wfi = FALSE /\ force_deep_sleep = FALSE /\ power_off = FALSE
  /\ screen = TRUE /\ flipped = FALSE
  /\ wfi_awaiting_keypress = FALSE /\ screen_off_requested = FALSE
  /\ orientation \in IF HasAccel THEN Orientations ELSE {"FaceUp"}
  /\ alarm \in BOOLEAN /\ alarm_set = FALSE /\ letGo = FALSE
  /\ motionInt \in IF HasAccel THEN BOOLEAN ELSE {FALSE}
  /\ tiltInt = HasAccel
  /\ pin \in BOOLEAN
  /\ vbus_state = pin /\ plugged_in = pin /\ edge = ~ pin /\ vbusIrq = FALSE
  /\ missed = FALSE
  /\ offThreads = 0 /\ offSending = 0 /\ asked = 0
-----------------------------------------------------------------------------
(* Around the server: what fills its queue *)

Awake == pc \notin {"suspended", "off"}
Room == Len(queue) < QLEN
Enqueue(m) == queue' = Append(queue, m)

\* An interrupt ends a suspend.
Wake == pc' = IF pc = "suspended" THEN "resuming" ELSE pc

\* The poll thread; what finds the queue full is dropped.
PollTick ==
  /\ Awake /\ Room /\ Enqueue(Msg("Poll"))
  /\ UNCHANGED <<pc, since, wdt, flags, display, rtc, accel, vbus, offs>>

\* A key, pressed or injected by the tilt of the badge.
KeyInput ==
  /\ pc # "off" /\ Room
  /\ \E m \in Inputs : m.op = "KeyPress" /\ Enqueue(m)
  /\ Wake
  /\ UNCHANGED <<since, wdt, flags, display, rtc, accel, vbus, offs>>

\* The accelerometer interrupts when one of its engines is routed to the pin.
MotionInput ==
  /\ pc # "off" /\ Room /\ Msg("MotionIrq") \in Inputs
  /\ motionInt \/ tiltInt
  /\ Enqueue(Msg("MotionIrq"))
  /\ Wake
  /\ UNCHANGED <<since, wdt, flags, display, rtc, accel, vbus, offs>>

\* An application sends a request.
AppInput ==
  /\ Awake /\ Room
  /\ \E m \in Inputs :
       /\ m.op \notin {"KeyPress", "MotionIrq"}
       /\ m.op = "PowerOff" => asked < MaxOff
       /\ asked' = IF m.op = "PowerOff" THEN asked + 1 ELSE asked
       /\ Enqueue(m)
  /\ UNCHANGED <<pc, since, wdt, flags, display, rtc, accel, vbus, offThreads,
                 offSending>>

\* The RTC alarm goes off; the keyboard server reports it as a key.
AlarmFires ==
  /\ pc # "off" /\ Room /\ alarm
  /\ alarm' = FALSE
  /\ Enqueue(Key("alarm"))
  /\ Wake
  /\ UNCHANGED <<since, wdt, flags, display, alarm_set, letGo, accel, vbus, offs>>

\* The cable is plugged in or pulled out; only the armed edge interrupts.
VbusChanges ==
  /\ pc # "off"
  /\ pin' = ~ pin
  /\ vbusIrq' = (vbusIrq \/ pin' = edge)
  /\ missed' = FALSE
  /\ UNCHANGED <<queue, pc, since, wdt, flags, display, rtc, accel, edge, vbus_state,
                 plugged_in, offs>>

VbusInput ==
  /\ pc # "off" /\ Room /\ vbusIrq
  /\ vbusIrq' = FALSE
  /\ Enqueue(Msg("VbusIrq"))
  /\ Wake
  /\ UNCHANGED <<since, wdt, flags, display, rtc, accel, pin, edge, vbus_state,
                 plugged_in, missed, offs>>

\* Time passes.
Later ==
  /\ pc # "off" /\ since < 2
  /\ since' = since + 1
  /\ UNCHANGED <<queue, pc, wdt, flags, display, rtc, accel, vbus, offs>>

\* As a bug would have it: the key is sent as everything else is.
SendOffKeyIfRoom == IF Room THEN Enqueue(Key("alarm")) ELSE UNCHANGED queue

SendOffKey == IF Len(queue) < QCAP THEN Enqueue(Key("alarm")) ELSE UNCHANGED queue

\* The power-off thread after its five seconds: it clears the RTC alarm ...
OffThreadClears ==
  /\ Awake /\ offThreads > 0
  /\ alarm' = FALSE
  /\ offThreads' = offThreads - 1 /\ offSending' = offSending + 1
  /\ UNCHANGED <<queue, pc, since, wdt, flags, display, alarm_set, letGo, accel, vbus, asked>>

\* ... and then sends an alarm key, unless the queue is full.
OffThreadSends ==
  /\ Awake /\ offSending > 0
  /\ offSending' = offSending - 1
  /\ SendOffKey
  /\ UNCHANGED <<pc, since, wdt, flags, display, rtc, accel, vbus, offThreads, asked>>
-----------------------------------------------------------------------------
(* The server's handlers *)

Receive(op) ==
  /\ pc = "loop" /\ queue # <<>> /\ Head(queue).op = op
  /\ queue' = Tail(queue)

Enable ==
  /\ Receive("Enable")
  /\ pwr_mgr_enabled' = (Head(queue).arg = "on")
  /\ since' \in IF since = 0 THEN {0} ELSE {1, 2}    \* idle_sec may be another
  /\ UNCHANGED <<pc, wdt, booted, force_wfi, force_deep_sleep, power_off, display, rtc,
                 accel, vbus, offs>>

\* Power management is off, or is suspended because the badge is plugged in.
NotManaging == ~ pwr_mgr_enabled \/ vbus_state

SinceForPoll == IF NotManaging THEN 0 ELSE since

PollSuspends ==
  \/ ~ wfi_awaiting_keypress /\ SinceForPoll = 2
  \/ wfi_awaiting_keypress /\ SinceForPoll >= 1
  \/ force_wfi

\* What a poll does to the RTC alarm.
PollAlarm ==
  IF NotManaging /\ alarm_set
    THEN alarm' = FALSE /\ alarm_set' = FALSE /\ letGo' = ~ pwr_mgr_enabled
    ELSE UNCHANGED rtc

Poll ==
  /\ Receive("Poll")
  /\ ~ PollSuspends
  /\ since' = SinceForPoll
  /\ PollAlarm
  /\ UNCHANGED <<pc, wdt, flags, display, accel, vbus, offs>>

\* As a bug would have it: nothing says that a key has to light the screen.
DarkenForgetting == screen' = FALSE /\ UNCHANGED wfi_awaiting_keypress

Darken == screen' = FALSE /\ wfi_awaiting_keypress' = TRUE

\* A poll that suspends the badge: dark, and without the watchdog.
PollSuspend ==
  /\ Receive("Poll")
  /\ PollSuspends
  /\ force_wfi' = FALSE
  /\ PollAlarm
  /\ Darken
  /\ wdt' = FALSE
  /\ pc' = "suspended"
  /\ since' = SinceForPoll
  /\ UNCHANGED <<pwr_mgr_enabled, booted, force_deep_sleep, power_off, flipped,
                 screen_off_requested, orientation, accel, vbus, offs>>

\* initiate_suspend fails at once.
SuspendFails ==
  /\ pc = "suspended"
  /\ pc' = "resuming"
  /\ UNCHANGED <<queue, since, wdt, flags, display, rtc, accel, vbus, offs>>

\* As a bug would have it: the watchdog stays off.
WdtForgotten == UNCHANGED wdt

WdtBack == wdt' = TRUE

\* After the suspend: the last action was before it, however long it took.
Resume ==
  /\ pc = "resuming"
  /\ pc' = "loop"
  /\ WdtBack
  /\ since' \in 0 .. 2
  /\ UNCHANGED <<queue, flags, display, rtc, accel, vbus, offs>>

PauseAccel ==
  /\ Receive("PauseAccel")
  /\ IF ~ HasAccel THEN UNCHANGED accel
     ELSE IF Head(queue).arg = "on" THEN motionInt' = FALSE /\ tiltInt' = FALSE
     ELSE tiltInt' = TRUE /\ UNCHANGED motionInt
  /\ UNCHANGED <<pc, since, wdt, flags, display, rtc, vbus, offs>>

\* The alarm is pushed out by the deep sleep horizon.
PushAlarm == alarm' = TRUE /\ alarm_set' = TRUE /\ letGo' = FALSE

PushAlarmOnBattery(onVbus) == IF onVbus THEN UNCHANGED rtc ELSE PushAlarm

\* As a bug would have it: an orientation that cannot be told is taken over.
TakeAnyOrientation(o) ==
  IF orientation # o
    THEN orientation' = o /\ flipped' = (IF o = "Unknown" THEN flipped ELSE o = "FaceDown")
    ELSE UNCHANGED <<orientation, flipped>>

\* A new orientation turns the screen and the keys.
TakeOrientation(o) ==
  IF orientation # o /\ o # "Unknown"
    THEN orientation' = o /\ flipped' = (o = "FaceDown")
    ELSE UNCHANGED <<orientation, flipped>>

\* int1, int2: the accelerometer's two engines report something.
MotionIrq ==
  /\ Receive("MotionIrq")
  /\ \E int1, int2 \in BOOLEAN, o \in Orientations :
       /\ IF HasAccel /\ int1 THEN PushAlarmOnBattery(vbus_state) ELSE UNCHANGED rtc
       /\ IF HasAccel /\ int2 THEN TakeOrientation(o) ELSE UNCHANGED <<orientation, flipped>>
  /\ UNCHANGED <<pc, since, wdt, flags, screen, wfi_awaiting_keypress,
                 screen_off_requested, accel, vbus, offs>>

\* The VBUS handler reads the pin ...
VbusRead ==
  /\ Receive("VbusIrq")
  /\ vbus_state' = pin /\ plugged_in' = pin /\ missed' = FALSE
  /\ pc' = "vbus"
  /\ UNCHANGED <<since, wdt, flags, display, rtc, accel, pin, edge, vbusIrq, offs>>

\* As bugs would have it: the same edge again, or no alarm on battery.
ArmSameEdge == edge' = vbus_state
LeaveAlarm == UNCHANGED <<alarm, letGo>>

ArmOppositeEdge == edge' = ~ vbus_state
AlarmOnBattery == alarm' = (alarm \/ ~ vbus_state) /\ letGo' = (letGo /\ vbus_state)

\* ... and then arms the opposite edge and, on battery, the alarm.  That edge
\* has come already if the pin is no longer as it was read.
VbusArm ==
  /\ pc = "vbus"
  /\ pc' = "loop"
  /\ ArmOppositeEdge
  /\ AlarmOnBattery
  /\ missed' = (pin # vbus_state)
  /\ UNCHANGED <<queue, since, wdt, flags, display, alarm_set, accel, pin, vbusIrq,
                 vbus_state, plugged_in, offs>>

KeySleeps == Head(queue).arg = "alarm" \/ force_deep_sleep

\* What may wake the badge from deep sleep: motion, unless it was powered off.
WakeSources ==
  /\ motionInt' = (HasAccel /\ ~ power_off)
  /\ tiltInt' = (HasAccel /\ ~ power_off)

\* The alarm, or any key once deep sleep was forced.
KeyPressSleeps ==
  /\ Receive("KeyPress") /\ KeySleeps
  /\ force_deep_sleep' = FALSE
  /\ WakeSources
  /\ screen' = FALSE /\ wdt' = FALSE
  /\ pc' \in {"off"} \union (IF SleepMayFail THEN {"loop"} ELSE {})
  /\ since' = 0
  /\ UNCHANGED <<pwr_mgr_enabled, booted, force_wfi, power_off, flipped,
                 wfi_awaiting_keypress, screen_off_requested, orientation, rtc, vbus, offs>>

LightScreen == screen' = (screen \/ wfi_awaiting_keypress \/ screen_off_requested)

ScreenIsLit == screen_off_requested' = FALSE /\ wfi_awaiting_keypress' = FALSE

\* Any other key: the screen is lit again and, on battery, the alarm put off.
KeyPressWakes ==
  /\ Receive("KeyPress") /\ ~ KeySleeps
  /\ LightScreen
  /\ flipped' = IF screen_off_requested THEN orientation = "FaceDown" ELSE flipped
  /\ ScreenIsLit
  /\ vbus_state' = pin
  /\ PushAlarmOnBattery(pin)
  /\ since' = 0
  /\ UNCHANGED <<pc, wdt, flags, orientation, accel, pin, edge, vbusIrq, plugged_in,
                 missed, offs>>

Boot ==
  /\ Receive("Boot")
  /\ pwr_mgr_enabled' = TRUE /\ booted' = TRUE
  /\ PushAlarm
  /\ vbus_state' = pin
  /\ IF HasAccel
       THEN /\ orientation' \in Orientations
            /\ flipped' = (orientation' = "FaceDown")
            /\ motionInt' = FALSE
       ELSE UNCHANGED <<orientation, flipped, motionInt>>
  /\ UNCHANGED <<pc, since, wdt, force_wfi, force_deep_sleep, power_off, screen,
                 wfi_awaiting_keypress, screen_off_requested, tiltInt, pin, edge, vbusIrq,
                 plugged_in, missed, offs>>

ForceDeepSleep ==
  /\ Receive("ForceDeepSleep")
  /\ force_deep_sleep' = TRUE
  /\ UNCHANGED <<pc, since, wdt, pwr_mgr_enabled, booted, force_wfi, power_off, display,
                 rtc, accel, vbus, offs>>

ForceWfi ==
  /\ Receive("ForceWfi")
  /\ force_wfi' = TRUE
  /\ UNCHANGED <<pc, since, wdt, pwr_mgr_enabled, booted, force_deep_sleep, power_off,
                 display, rtc, accel, vbus, offs>>

ScreenOffRequest ==
  /\ Receive("ScreenOffRequest")
  /\ screen_off_requested' = TRUE /\ screen' = FALSE
  /\ UNCHANGED <<pc, since, wdt, flags, flipped, wfi_awaiting_keypress, orientation, rtc,
                 accel, vbus, offs>>

StartOffThread == offThreads' = offThreads + 1

PowerOff ==
  /\ Receive("PowerOff")
  /\ power_off' = TRUE
  /\ StartOffThread
  /\ UNCHANGED <<pc, since, wdt, pwr_mgr_enabled, booted, force_wfi, force_deep_sleep,
                 display, rtc, accel, vbus, offSending, asked>>
-----------------------------------------------------------------------------
Environment ==
  \/ PollTick \/ KeyInput \/ MotionInput \/ AppInput \/ AlarmFires
  \/ VbusChanges \/ VbusInput \/ Later \/ OffThreadClears \/ OffThreadSends

Server ==
  \/ Enable \/ Poll \/ PollSuspend \/ SuspendFails \/ Resume \/ PauseAccel
  \/ MotionIrq \/ VbusRead \/ VbusArm \/ KeyPressSleeps \/ KeyPressWakes \/ Boot
  \/ ForceDeepSleep \/ ForceWfi \/ ScreenOffRequest \/ PowerOff

Next == Environment \/ Server

Spec == Init /\ [][Next]_vars
-----------------------------------------------------------------------------
TypeOK ==
  /\ queue \in Seq(Message) /\ Len(queue) <= QCAP
  /\ pc \in {"loop", "vbus", "suspended", "resuming", "off"}
  /\ pwr_mgr_enabled \in BOOLEAN /\ booted \in BOOLEAN /\ force_wfi \in BOOLEAN
  /\ force_deep_sleep \in BOOLEAN /\ power_off \in BOOLEAN
  /\ wfi_awaiting_keypress \in BOOLEAN /\ screen_off_requested \in BOOLEAN
  /\ alarm_set \in BOOLEAN /\ vbus_state \in BOOLEAN /\ plugged_in \in BOOLEAN
  /\ orientation \in Orientations /\ since \in 0 .. 2
  /\ offThreads \in Nat /\ offSending \in Nat /\ asked \in 0 .. MaxOff
  /\ letGo \in BOOLEAN /\ missed \in BOOLEAN
  /\ screen \in BOOLEAN /\ flipped \in BOOLEAN /\ wdt \in BOOLEAN /\ alarm \in BOOLEAN
  /\ motionInt \in BOOLEAN /\ tiltInt \in BOOLEAN
  /\ pin \in BOOLEAN /\ edge \in BOOLEAN /\ vbusIrq \in BOOLEAN

\* The watchdog is off only while the badge sleeps: whatever order requests,
\* keys and interrupts come in, a running server is a guarded one
\* (power.rs:320-327, 540).
WdtGuardsTheAwake == ~ wdt => pc \in {"suspended", "resuming", "off"}

\* A dark screen on a running badge is lit by the next key: one of the two
\* flags the key handler looks at is up (power.rs:318, 555-569, 668).  And a lit
\* screen has neither up: a poll would otherwise suspend a badge in use after one
\* second, not sixty (power.rs:311).
ScreenAgreesWithFlags ==
  /\ ~ screen /\ pc # "off" => wfi_awaiting_keypress \/ screen_off_requested
  /\ screen => ~ wfi_awaiting_keypress /\ ~ screen_off_requested

InQueue(m) == m \in {queue[i] : i \in 1 .. Len(queue)}

\* A badge suspended on battery has an alarm to take it into deep sleep, armed
\* or already on its way as a key (power.rs:510-513, 574-579, 636), but for two
\* gaps of the code: a power-off thread is between its two calls
\* (power.rs:684-686), or a poll gave the alarm up because power management was
\* switched off and nothing has armed it since (power.rs:297-308).
SuspendedOnBatteryHasAlarm ==
  booted /\ pc = "suspended" /\ ~ vbus_state
    => alarm \/ InQueue(Key("alarm")) \/ offSending > 0 \/ letGo

\* Once every interrupt of the VBUS pin is handled, the flag the fade thread
\* reads says whether the badge is plugged in (power.rs:491-495), unless the pin
\* moved inside the handler, between its reading and the arming of the edge, and
\* has not moved since: only that one edge can be missed.
PluggedInIsTrue ==
  pc = "loop" /\ ~ vbusIrq /\ ~ InQueue(Msg("VbusIrq")) /\ ~ missed => plugged_in = pin

\* After boot the screen is turned the way the manager believes the badge is
\* worn (power.rs:462, 559, 647).
ScreenFollowsOrientation == booted => flipped = (orientation = "FaceDown")

\* A power-off that was asked for is never lost, however full the queue and
\* however often the badge sleeps in between: until it comes, its thread or its
\* key is on the way (power.rs:677-697).
PowerOffIsNeverLost ==
  power_off /\ pc # "off" => offThreads > 0 \/ offSending > 0 \/ InQueue(Key("alarm"))

\* What the comment on the alarm's flag says: it only saves clearing the alarm
\* again, so that a poll leaves none to a booted badge that is plugged in or not
\* managed (power.rs:302-307).
PollsClearTheAlarm == [][booted /\ Receive("Poll") /\ NotManaging => ~ alarm']_vars
=============================================================================
