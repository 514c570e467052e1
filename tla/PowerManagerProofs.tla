-------------------------- MODULE PowerManagerProofs --------------------------
(***************************************************************************)
(* Theorems about the power manager, for queues of any length and whatever *)
(* messages are sent: the watchdog and the screen are as the badge's sleep *)
(* wants them, the shared VBUS flag is true, a badge suspended on battery  *)
(* has its alarm, and a power-off that was asked for is never lost.        *)
(***************************************************************************)
EXTENDS PowerManager, SequenceTheorems, TLAPS

\* What may be in the queue.
Accepted == Inputs \union {Msg("Poll"), Msg("VbusIrq"), Key("alarm")}

In(m, q) == m \in {q[i] : i \in 1 .. Len(q)}

\* What does not fit among the other messages is a power-off thread's key.
FullInv == Len(queue) > QLEN => queue[Len(queue)] = Key("alarm")

\* A message appended is in the queue, with those that were.
LEMMA InAppend ==
  ASSUME NEW S, NEW q \in Seq(S), NEW x \in S, NEW m
  PROVE  In(m, Append(q, x)) <=> In(m, q) \/ m = x
<1>1. Len(q) \in Nat /\ Len(Append(q, x)) = Len(q) + 1
    BY AppendProperties, LenProperties
<1>2. \A i \in 1 .. Len(q) + 1 : Append(q, x)[i] = IF i <= Len(q) THEN q[i] ELSE x
    BY AppendProperties
<1> QED BY <1>1, <1>2 DEF In

\* Taking the first message leaves the others in the queue.
LEMMA InTail ==
  ASSUME NEW S, NEW q \in Seq(S), q # <<>>, NEW m, In(m, q), m # Head(q)
  PROVE  In(m, Tail(q))
<1>1. PICK i \in 1 .. Len(q) : q[i] = m
    BY DEF In
<1>2. i # 1 /\ Len(q) \in Nat
    BY <1>1, LenProperties
<1>3. Len(Tail(q)) = Len(q) - 1 /\ \A j \in 1 .. Len(Tail(q)) : Tail(q)[j] = q[j + 1]
    BY HeadTailProperties
<1>4. i - 1 \in 1 .. Len(Tail(q)) /\ Tail(q)[i - 1] = m
    BY <1>1, <1>2, <1>3
<1> QED BY <1>4 DEF In

QueueInv == queue \in Seq(Accepted) /\ Len(queue) <= QCAP

\* Every message taken or queued is one the server knows.
LEMMA AcceptedMessages == Accepted \subseteq Message
  BY PowerAssumption DEF PowerAssumption, Accepted, Message, Msg, Key, Keys

\* The actions that take a message.
Handles ==
  \/ Enable \/ Poll \/ PollSuspend \/ PauseAccel \/ MotionIrq \/ VbusRead
  \/ KeyPressSleeps \/ KeyPressWakes \/ Boot \/ ForceDeepSleep \/ ForceWfi
  \/ ScreenOffRequest \/ PowerOff

\* The actions that queue one.
Feeds ==
  PollTick \/ KeyInput \/ MotionInput \/ AppInput \/ AlarmFires \/ VbusInput \/ OffThreadSends

\* And the others.
Rests ==
  VbusChanges \/ Later \/ SuspendFails \/ Resume \/ VbusArm \/ OffThreadClears

\* Every step is of one of the three kinds.
LEMMA ThreeKinds == [Next]_vars => Handles \/ Feeds \/ Rests \/ UNCHANGED vars
  BY DEF Next, Environment, Server, Handles, Feeds, Rests

\* A message is taken from the front, in the loop.
LEMMA HandlesTakes == Handles => pc = "loop" /\ queue # <<>> /\ queue' = Tail(queue)
  BY DEF Handles, Receive, Enable, Poll, PollSuspend, PauseAccel, MotionIrq, VbusRead,
     KeyPressSleeps, KeyPressWakes, Boot, ForceDeepSleep, ForceWfi, ScreenOffRequest,
     PowerOff

\* A message is queued while there is room.
LEMMA FeedsQueue ==
  ASSUME QueueInv, Feeds
  PROVE  \/ UNCHANGED queue
         \/ \E m \in Accepted : Len(queue) < QCAP /\ Enqueue(m)
<1>1. Room => Len(queue) < QCAP
    BY PowerAssumption, LenProperties DEF PowerAssumption, QueueInv, Room
<1>2. CASE PollTick \/ AlarmFires \/ VbusInput
    BY <1>1, <1>2 DEF PollTick, AlarmFires, VbusInput, Accepted
<1>3. CASE KeyInput \/ MotionInput \/ AppInput
    BY <1>1, <1>3 DEF KeyInput, MotionInput, AppInput, Accepted
<1>4. CASE OffThreadSends
    BY <1>4 DEF OffThreadSends, SendOffKey, Accepted
<1> QED BY <1>2, <1>3, <1>4 DEF Feeds

\* The other actions leave the queue alone.
LEMMA RestsQueue == Rests \/ UNCHANGED vars => UNCHANGED queue
  BY DEF Rests, VbusChanges, Later, SuspendFails, Resume, VbusArm, OffThreadClears, vars

\* The queue holds messages, and no more than it takes.
LEMMA QueueStep ==
  ASSUME QueueInv, [Next]_vars
  PROVE  QueueInv'
<1>1. CASE Handles
    BY <1>1, HandlesTakes, HeadTailProperties, LenProperties, PowerAssumption
      DEF QueueInv, PowerAssumption
<1>2. CASE Feeds
  <2>1. CASE UNCHANGED queue
      BY <2>1 DEF QueueInv
  <2>2. CASE \E m \in Accepted : Len(queue) < QCAP /\ Enqueue(m)
    <3>1. PICK m \in Accepted : Len(queue) < QCAP /\ queue' = Append(queue, m)
        BY <2>2 DEF Enqueue
    <3>2. queue' \in Seq(Accepted) /\ Len(queue') = Len(queue) + 1 /\ Len(queue) \in Nat
        BY <3>1, AppendProperties, LenProperties DEF QueueInv
    <3> QED BY <3>1, <3>2, PowerAssumption DEF QueueInv, PowerAssumption
  <2> QED BY <1>2, <2>1, <2>2, FeedsQueue
<1>3. CASE Rests \/ UNCHANGED vars
    BY <1>3, RestsQueue DEF QueueInv
<1> QED BY <1>1, <1>2, <1>3, ThreeKinds
-----------------------------------------------------------------------------
\* The types, in three parts: what the server is at, its switches and the
\* screen's and the watchdog's, and what it shares with the hardware.
ModeTypes ==
  /\ pc \in {"loop", "vbus", "suspended", "resuming", "off"}
  /\ orientation \in Orientations /\ since \in 0 .. 2
  /\ offThreads \in Nat /\ offSending \in Nat /\ asked \in 0 .. MaxOff

SwitchTypes ==
  /\ pwr_mgr_enabled \in BOOLEAN /\ booted \in BOOLEAN /\ force_wfi \in BOOLEAN
  /\ force_deep_sleep \in BOOLEAN /\ power_off \in BOOLEAN
  /\ wfi_awaiting_keypress \in BOOLEAN /\ screen_off_requested \in BOOLEAN
  /\ screen \in BOOLEAN /\ flipped \in BOOLEAN /\ wdt \in BOOLEAN

LineTypes ==
  /\ alarm_set \in BOOLEAN /\ alarm \in BOOLEAN
  /\ motionInt \in BOOLEAN /\ tiltInt \in BOOLEAN
  /\ vbus_state \in BOOLEAN /\ plugged_in \in BOOLEAN
  /\ pin \in BOOLEAN /\ edge \in BOOLEAN /\ vbusIrq \in BOOLEAN

HistoryTypes == letGo \in BOOLEAN /\ missed \in BOOLEAN

\* The state of the server keeps its type.
LEMMA ModeTypeStep ==
  ASSUME ModeTypes, [Next]_vars
  PROVE  ModeTypes'
<1> USE DEF ModeTypes, flags, display, rtc, accel, vbus, offs, PowerAssumption, Orientations
<1>1. CASE AlarmFires \/ VbusInput \/ OffThreadSends
    BY PowerAssumption, <1>1
      DEF AlarmFires, VbusInput, OffThreadSends, Wake
<1>2. CASE PollTick \/ KeyInput \/ MotionInput \/ AppInput
    BY PowerAssumption, <1>2
      DEF PollTick, KeyInput, MotionInput, AppInput, Wake
<1>3. CASE Rests
    BY PowerAssumption, <1>3
      DEF Rests, VbusChanges, Later, SuspendFails, Resume, VbusArm, OffThreadClears, WdtBack,
         ArmOppositeEdge, AlarmOnBattery
<1>4. CASE Enable \/ Poll \/ PollSuspend \/ PauseAccel
    BY PowerAssumption, <1>4
      DEF Enable, Poll, PollSuspend, PauseAccel, SinceForPoll, PollAlarm,
         Darken
<1>5. CASE MotionIrq \/ VbusRead \/ Boot
    BY PowerAssumption, <1>5
      DEF MotionIrq, VbusRead, Boot, PushAlarm, PushAlarmOnBattery, TakeOrientation
<1>6. CASE KeyPressSleeps \/ KeyPressWakes
    BY PowerAssumption, <1>6
      DEF KeyPressSleeps, KeyPressWakes, WakeSources, LightScreen,
         ScreenIsLit, PushAlarm, PushAlarmOnBattery
<1>7. CASE \/ ForceDeepSleep \/ ForceWfi \/ ScreenOffRequest \/ PowerOff
          \/ UNCHANGED vars
    BY PowerAssumption, <1>7
      DEF ForceDeepSleep, ForceWfi, ScreenOffRequest, PowerOff,
         StartOffThread, vars
<1> QED BY <1>1, <1>2, <1>3, <1>4, <1>5, <1>6, <1>7, ThreeKinds DEF Handles, Feeds

\* The switches stay booleans.
LEMMA SwitchTypeStep ==
  ASSUME SwitchTypes, [Next]_vars
  PROVE  SwitchTypes'
<1> USE DEF SwitchTypes, flags, display, rtc, accel, vbus, offs
<1>1. CASE AlarmFires \/ VbusInput \/ OffThreadSends
    BY ZenonT(60), <1>1
      DEF AlarmFires, VbusInput, OffThreadSends, Wake
<1>2. CASE PollTick \/ KeyInput \/ MotionInput \/ AppInput
    BY ZenonT(60), <1>2
      DEF PollTick, KeyInput, MotionInput, AppInput, Wake
<1>3. CASE Rests
    BY ZenonT(60), <1>3
      DEF Rests, VbusChanges, Later, SuspendFails, Resume, VbusArm, OffThreadClears, WdtBack,
         ArmOppositeEdge, AlarmOnBattery
<1>4. CASE Enable \/ Poll \/ PollSuspend \/ PauseAccel
    BY ZenonT(60), <1>4
      DEF Enable, Poll, PollSuspend, PauseAccel, SinceForPoll, PollAlarm,
         Darken
<1>5. CASE MotionIrq \/ VbusRead \/ Boot
    BY ZenonT(60), <1>5
      DEF MotionIrq, VbusRead, Boot, PushAlarm, PushAlarmOnBattery, TakeOrientation
<1>6. CASE KeyPressSleeps \/ KeyPressWakes
    BY ZenonT(60), <1>6
      DEF KeyPressSleeps, KeyPressWakes, WakeSources, LightScreen,
         ScreenIsLit, PushAlarm, PushAlarmOnBattery
<1>7. CASE \/ ForceDeepSleep \/ ForceWfi \/ ScreenOffRequest \/ PowerOff
          \/ UNCHANGED vars
    BY ZenonT(60), <1>7
      DEF ForceDeepSleep, ForceWfi, ScreenOffRequest, PowerOff,
         StartOffThread, vars
<1> QED BY <1>1, <1>2, <1>3, <1>4, <1>5, <1>6, <1>7, ThreeKinds DEF Handles, Feeds

\* So do the alarm, the interrupts and the lines.
LEMMA LineTypeStep ==
  ASSUME LineTypes, [Next]_vars
  PROVE  LineTypes'
<1> USE DEF LineTypes, flags, display, rtc, accel, vbus, offs
<1>1. CASE AlarmFires \/ VbusInput \/ OffThreadSends
    BY ZenonT(60), <1>1
      DEF AlarmFires, VbusInput, OffThreadSends, Wake
<1>2. CASE PollTick \/ KeyInput \/ MotionInput \/ AppInput
    BY ZenonT(60), <1>2
      DEF PollTick, KeyInput, MotionInput, AppInput, Wake
<1>3. CASE Rests
    BY ZenonT(60), <1>3
      DEF Rests, VbusChanges, Later, SuspendFails, Resume, VbusArm, OffThreadClears, WdtBack,
         ArmOppositeEdge, AlarmOnBattery
<1>4. CASE Enable \/ Poll \/ PollSuspend \/ PauseAccel
    BY ZenonT(60), <1>4
      DEF Enable, Poll, PollSuspend, PauseAccel, SinceForPoll, PollAlarm,
         Darken
<1>5. CASE MotionIrq \/ VbusRead \/ Boot
    BY ZenonT(60), <1>5
      DEF MotionIrq, VbusRead, Boot, PushAlarm, PushAlarmOnBattery, TakeOrientation
<1>6. CASE KeyPressSleeps \/ KeyPressWakes
    BY ZenonT(60), <1>6
      DEF KeyPressSleeps, KeyPressWakes, WakeSources, LightScreen,
         ScreenIsLit, PushAlarm, PushAlarmOnBattery
<1>7. CASE \/ ForceDeepSleep \/ ForceWfi \/ ScreenOffRequest \/ PowerOff
          \/ UNCHANGED vars
    BY ZenonT(60), <1>7
      DEF ForceDeepSleep, ForceWfi, ScreenOffRequest, PowerOff,
         StartOffThread, vars
<1> QED BY <1>1, <1>2, <1>3, <1>4, <1>5, <1>6, <1>7, ThreeKinds DEF Handles, Feeds

\* And the history.
LEMMA HistoryTypeStep ==
  ASSUME HistoryTypes, LineTypes, [Next]_vars
  PROVE  HistoryTypes'
<1> USE DEF HistoryTypes, rtc, vbus
<1>1. CASE Feeds
    BY <1>1 DEF Feeds, PollTick, KeyInput, MotionInput, AppInput, AlarmFires, VbusInput,
       OffThreadSends
<1>2. CASE Rests \/ UNCHANGED vars
    BY <1>2 DEF Rests, VbusChanges, Later, SuspendFails, Resume, VbusArm, AlarmOnBattery,
       OffThreadClears, vars
<1>3. CASE Handles
  <2>1. missed' = missed \/ missed' = FALSE
      BY <1>3 DEF Handles, Enable, Poll, PollSuspend, PauseAccel, MotionIrq, VbusRead,
         KeyPressSleeps, KeyPressWakes, Boot, ForceDeepSleep, ForceWfi, ScreenOffRequest, PowerOff
  <2>2. letGo' = letGo \/ letGo' = FALSE \/ letGo' = ~ pwr_mgr_enabled
      BY <1>3 DEF Handles, Enable, Poll, PollSuspend, PollAlarm, PauseAccel, MotionIrq, VbusRead,
         KeyPressSleeps, KeyPressWakes, Boot, ForceDeepSleep, ForceWfi, ScreenOffRequest, PowerOff,
         PushAlarm, PushAlarmOnBattery
  <2> QED BY <2>1, <2>2
<1> QED BY <1>1, <1>2, <1>3, ThreeKinds

-----------------------------------------------------------------------------
\* Without an accelerometer the screen is never turned.
TurnInv ==
  /\ ScreenFollowsOrientation
  /\ ~ HasAccel => orientation = "FaceUp" /\ ~ flipped

\* If deep sleep comes when it is asked for, no step leaves a running badge
\* without its watchdog.
LEMMA SleepStep ==
  ASSUME ~ SleepMayFail, SwitchTypes, WdtGuardsTheAwake, [Next]_vars
  PROVE  WdtGuardsTheAwake'
<1> USE PowerAssumption DEF PowerAssumption, WdtGuardsTheAwake, SwitchTypes, 
        flags, display, rtc, accel, vbus, offs
<1>1. CASE AlarmFires \/ VbusInput \/ OffThreadSends
    BY <1>1
      DEF Receive, Awake, AlarmFires, VbusInput, OffThreadSends, Wake
<1>2. CASE PollTick \/ KeyInput \/ MotionInput \/ AppInput
    BY <1>2
      DEF Receive, Awake, PollTick, KeyInput, MotionInput, AppInput, Wake
<1>3. CASE Rests
    BY <1>3
      DEF Receive, Awake, Rests, VbusChanges, Later, SuspendFails, Resume, VbusArm, OffThreadClears, WdtBack,
         ArmOppositeEdge, AlarmOnBattery
<1>4. CASE Enable \/ Poll \/ PollSuspend \/ PauseAccel
    BY <1>4
      DEF Receive, Awake, Enable, Poll, PollSuspend, PauseAccel, SinceForPoll, PollAlarm,
         Darken
<1>5. CASE MotionIrq \/ VbusRead \/ Boot
    BY <1>5
      DEF Receive, Awake, MotionIrq, VbusRead, Boot, PushAlarm, PushAlarmOnBattery, TakeOrientation
<1>6. CASE KeyPressSleeps \/ KeyPressWakes
    BY <1>6
      DEF Receive, Awake, KeyPressSleeps, KeyPressWakes, WakeSources, LightScreen,
         ScreenIsLit, PushAlarm, PushAlarmOnBattery
<1>7. CASE \/ ForceDeepSleep \/ ForceWfi \/ ScreenOffRequest \/ PowerOff
          \/ UNCHANGED vars
    BY <1>7
      DEF Receive, Awake, ForceDeepSleep, ForceWfi, ScreenOffRequest, PowerOff,
         StartOffThread, vars
<1> QED BY <1>1, <1>2, <1>3, <1>4, <1>5, <1>6, <1>7, ThreeKinds DEF Handles, Feeds

\* Nor does a step leave the screen dark with nothing to light it.
LEMMA ScreenStep ==
  ASSUME ~ SleepMayFail, SwitchTypes, ScreenAgreesWithFlags, [Next]_vars
  PROVE  ScreenAgreesWithFlags'
<1> USE PowerAssumption DEF PowerAssumption, ScreenAgreesWithFlags, SwitchTypes, 
        flags, display, rtc, accel, vbus, offs
<1>1. CASE AlarmFires \/ VbusInput \/ OffThreadSends
    BY <1>1
      DEF Receive, Awake, AlarmFires, VbusInput, OffThreadSends, Wake
<1>2. CASE PollTick \/ KeyInput \/ MotionInput \/ AppInput
    BY <1>2
      DEF Receive, Awake, PollTick, KeyInput, MotionInput, AppInput, Wake
<1>3. CASE Rests
    BY <1>3
      DEF Receive, Awake, Rests, VbusChanges, Later, SuspendFails, Resume, VbusArm, OffThreadClears, WdtBack,
         ArmOppositeEdge, AlarmOnBattery
<1>4. CASE Enable \/ Poll \/ PollSuspend \/ PauseAccel
    BY <1>4
      DEF Receive, Awake, Enable, Poll, PollSuspend, PauseAccel, SinceForPoll, PollAlarm,
         Darken
<1>5. CASE MotionIrq \/ VbusRead \/ Boot
    BY <1>5
      DEF Receive, Awake, MotionIrq, VbusRead, Boot, PushAlarm, PushAlarmOnBattery, TakeOrientation
<1>6. CASE KeyPressSleeps \/ KeyPressWakes
    BY <1>6
      DEF Receive, Awake, KeyPressSleeps, KeyPressWakes, WakeSources, LightScreen,
         ScreenIsLit, PushAlarm, PushAlarmOnBattery
<1>7. CASE \/ ForceDeepSleep \/ ForceWfi \/ ScreenOffRequest \/ PowerOff
          \/ UNCHANGED vars
    BY <1>7
      DEF Receive, Awake, ForceDeepSleep, ForceWfi, ScreenOffRequest, PowerOff,
         StartOffThread, vars
<1> QED BY <1>1, <1>2, <1>3, <1>4, <1>5, <1>6, <1>7, ThreeKinds DEF Handles, Feeds

\* The screen is turned when the orientation is taken, and not otherwise.
LEMMA TurnStep ==
  ASSUME SwitchTypes, TurnInv, [Next]_vars
  PROVE  TurnInv'
<1> USE PowerAssumption DEF PowerAssumption, TurnInv, ScreenFollowsOrientation, SwitchTypes, 
        flags, display, rtc, accel, vbus, offs
<1>1. CASE AlarmFires \/ VbusInput \/ OffThreadSends
    BY <1>1
      DEF Receive, Awake, AlarmFires, VbusInput, OffThreadSends, Wake
<1>2. CASE PollTick \/ KeyInput \/ MotionInput \/ AppInput
    BY <1>2
      DEF Receive, Awake, PollTick, KeyInput, MotionInput, AppInput, Wake
<1>3. CASE Rests
    BY <1>3
      DEF Receive, Awake, Rests, VbusChanges, Later, SuspendFails, Resume, VbusArm, OffThreadClears, WdtBack,
         ArmOppositeEdge, AlarmOnBattery
<1>4. CASE Enable \/ Poll \/ PollSuspend \/ PauseAccel
    BY <1>4
      DEF Receive, Awake, Enable, Poll, PollSuspend, PauseAccel, SinceForPoll, PollAlarm,
         Darken
<1>5. CASE MotionIrq \/ VbusRead \/ Boot
    BY <1>5
      DEF Receive, Awake, MotionIrq, VbusRead, Boot, PushAlarm, PushAlarmOnBattery, TakeOrientation
<1>6. CASE KeyPressSleeps \/ KeyPressWakes
    BY <1>6
      DEF Receive, Awake, KeyPressSleeps, KeyPressWakes, WakeSources, LightScreen,
         ScreenIsLit, PushAlarm, PushAlarmOnBattery
<1>7. CASE \/ ForceDeepSleep \/ ForceWfi \/ ScreenOffRequest \/ PowerOff
          \/ UNCHANGED vars
    BY <1>7
      DEF Receive, Awake, ForceDeepSleep, ForceWfi, ScreenOffRequest, PowerOff,
         StartOffThread, vars
<1> QED BY <1>1, <1>2, <1>3, <1>4, <1>5, <1>6, <1>7, ThreeKinds DEF Handles, Feeds
-----------------------------------------------------------------------------
\* The flag of the fade thread says what the pin says, or an interrupt is on
\* its way to the handler that will see to it, or the one edge was missed.
VbusInv ==
  /\ pc = "vbus" => plugged_in = vbus_state
  /\ pc # "vbus" => edge = ~ plugged_in
  /\ pc # "vbus" /\ plugged_in # pin => missed \/ vbusIrq \/ In(Msg("VbusIrq"), queue)

\* What queues a message leaves the server where it is, or wakes the badge.
LEMMA FeedsWake ==
  ASSUME Feeds
  PROVE  pc' = pc \/ (pc = "suspended" /\ pc' = "resuming")
<1>1. Wake => pc' = pc \/ (pc = "suspended" /\ pc' = "resuming")
    BY DEF Wake
<1>2. CASE KeyInput \/ MotionInput \/ AlarmFires \/ VbusInput
    BY <1>1, <1>2 DEF KeyInput, MotionInput, AlarmFires, VbusInput
<1>3. CASE PollTick \/ AppInput \/ OffThreadSends
    BY <1>3 DEF PollTick, AppInput, OffThreadSends
<1> QED BY <1>2, <1>3 DEF Feeds

\* Queueing a message loses none.
LEMMA FeedsKeep ==
  ASSUME QueueInv, Feeds, NEW m, In(m, queue)
  PROVE  In(m, queue')
<1>1. CASE UNCHANGED queue
    BY <1>1
<1>2. CASE \E x \in Accepted : Len(queue) < QCAP /\ Enqueue(x)
    BY <1>2, InAppend DEF Enqueue, QueueInv
<1> QED BY <1>1, <1>2, FeedsQueue

\* Taking a message loses that one only.
LEMMA HandlesKeep ==
  ASSUME QueueInv, Handles, NEW m, In(m, queue), m # Head(queue)
  PROVE  In(m, queue')
  BY HandlesTakes, InTail DEF QueueInv

\* However the pin moves, the edge armed is the one the flag does not know of,
\* and only inside the handler can it be missed (power.rs:490-514).
LEMMA VbusStep ==
  ASSUME QueueInv, LineTypes, VbusInv, [Next]_vars
  PROVE  VbusInv'
<1> USE DEF vbus
<1>1. CASE VbusRead
    BY <1>1 DEF VbusInv, VbusRead, LineTypes
<1>2. CASE VbusArm
    BY <1>2 DEF VbusInv, VbusArm, ArmOppositeEdge, LineTypes
<1>3. CASE VbusChanges
  <2>1. /\ pc' = pc /\ queue' = queue /\ pin' = ~ pin /\ vbus_state' = vbus_state
        /\ vbusIrq' = (vbusIrq \/ pin' = edge) /\ edge' = edge /\ plugged_in' = plugged_in
      BY <1>3 DEF VbusChanges
  <2> QED BY <2>1 DEF VbusInv, LineTypes
<1>4. ASSUME UNCHANGED <<pin, edge, vbusIrq, plugged_in, missed>>, pc # "vbus", pc' # "vbus",
             In(Msg("VbusIrq"), queue) => In(Msg("VbusIrq"), queue')
      PROVE  VbusInv'
    BY <1>4 DEF VbusInv
<1>5. CASE Handles /\ ~ VbusRead
  <2>1. Head(queue) # Msg("VbusIrq")
      BY <1>5 DEF Handles, Receive, Enable, Poll, PollSuspend, PauseAccel, MotionIrq,
         KeyPressSleeps, KeyPressWakes, Boot, ForceDeepSleep, ForceWfi, ScreenOffRequest, PowerOff, Msg
  <2>2. UNCHANGED <<pin, edge, vbusIrq, plugged_in, missed>> /\ pc = "loop" /\ pc' # "vbus"
      BY <1>5 DEF Handles, Receive, Enable, Poll, PollSuspend, PauseAccel, MotionIrq,
         KeyPressSleeps, KeyPressWakes, Boot, ForceDeepSleep, ForceWfi, ScreenOffRequest, PowerOff
  <2> QED BY <1>4, <1>5, <2>1, <2>2, HandlesKeep
<1>6. CASE VbusInput
  <2>1. /\ UNCHANGED <<pin, edge, plugged_in, vbus_state, missed>> /\ queue' = Append(queue, Msg("VbusIrq"))
        /\ (pc' = pc \/ (pc = "suspended" /\ pc' = "resuming"))
      BY <1>6, FeedsWake DEF VbusInput, Enqueue, Feeds
  <2>2. In(Msg("VbusIrq"), queue')
      BY <2>1, InAppend DEF QueueInv, Accepted
  <2> QED BY <2>1, <2>2 DEF VbusInv
<1>7. CASE Feeds /\ ~ VbusInput
  <2>1. UNCHANGED <<pin, edge, vbusIrq, plugged_in, vbus_state, missed>>
      BY <1>7 DEF Feeds, PollTick, KeyInput, MotionInput, AppInput, AlarmFires, OffThreadSends
  <2>2. pc' = pc \/ (pc = "suspended" /\ pc' = "resuming")
      BY <1>7, FeedsWake
  <2>3. In(Msg("VbusIrq"), queue) => In(Msg("VbusIrq"), queue')
      BY <1>7, FeedsKeep
  <2> QED BY <2>1, <2>2, <2>3 DEF VbusInv
<1>8. CASE Later \/ SuspendFails \/ Resume \/ OffThreadClears \/ UNCHANGED vars
    BY <1>8 DEF VbusInv, Later, SuspendFails, Resume, OffThreadClears, vars
<1> QED BY <1>1, <1>2, <1>3, <1>5, <1>6, <1>7, <1>8, ThreeKinds DEF Rests
-----------------------------------------------------------------------------
\* The queue is only ever too full for the others by a power-off thread's key.
LEMMA FullStep ==
  ASSUME QueueInv, FullInv, [Next]_vars
  PROVE  FullInv'
<1> USE PowerAssumption DEF PowerAssumption, QueueInv
<1>1. CASE Handles
  <2>1. Len(queue') = Len(queue) - 1 /\ Len(queue) \in Nat
      BY <1>1, HandlesTakes, HeadTailProperties, LenProperties
  <2> QED BY <2>1 DEF FullInv
<1>2. CASE UNCHANGED queue
    BY <1>2 DEF FullInv
<1>3. CASE Feeds /\ ~ OffThreadSends
  <2>1. Room /\ \E m \in Accepted : Enqueue(m)
      BY <1>3 DEF Feeds, PollTick, KeyInput, MotionInput, AppInput, AlarmFires, VbusInput,
         Accepted
  <2>2. Len(queue') = Len(queue) + 1 /\ Len(queue) \in Nat /\ Len(queue) < QLEN
      BY <2>1, AppendProperties, LenProperties DEF Enqueue, Room
  <2> QED BY <2>2 DEF FullInv
<1>4. CASE OffThreadSends
  <2>1. UNCHANGED queue \/ queue' = Append(queue, Key("alarm"))
      BY <1>4 DEF OffThreadSends, SendOffKey, Enqueue
  <2>2. ASSUME queue' = Append(queue, Key("alarm")) PROVE FullInv'
      BY <2>2, AppendProperties, LenProperties DEF FullInv, Accepted
  <2> QED BY <1>2, <2>1, <2>2
<1> QED BY <1>1, <1>2, <1>3, <1>4, ThreeKinds, RestsQueue

\* A power-off thread's key is in the queue once it was sent: if there was no
\* room for it, another's is there.
LEMMA OffKeySent ==
  ASSUME QCAP > QLEN, QueueInv, FullInv, OffThreadSends
  PROVE  In(Key("alarm"), queue')
<1>1. CASE Len(queue) < QCAP
  <2>1. queue' = Append(queue, Key("alarm"))
      BY <1>1 DEF OffThreadSends, SendOffKey, Enqueue
  <2> QED BY <2>1, InAppend DEF QueueInv, Accepted
<1>2. CASE ~ Len(queue) < QCAP
  <2>1. queue' = queue /\ Len(queue) \in Nat /\ Len(queue) > QLEN
      BY <1>2, PowerAssumption, LenProperties
        DEF OffThreadSends, SendOffKey, QueueInv, PowerAssumption
  <2>2. queue[Len(queue)] = Key("alarm") /\ Len(queue) \in 1 .. Len(queue)
      BY <2>1, PowerAssumption DEF FullInv, PowerAssumption
  <2> QED BY <2>1, <2>2 DEF In
<1> QED BY <1>1, <1>2

\* The actions that take a message and leave the server in its loop.
HandlesAwake ==
  \/ Enable \/ Poll \/ PollSuspend \/ PauseAccel \/ MotionIrq
  \/ ForceDeepSleep \/ ForceWfi \/ ScreenOffRequest

\* What takes any other message keeps a queued alarm key.
LEMMA AlarmKeyKept ==
  ASSUME QueueInv, In(Key("alarm"), queue),
         HandlesAwake \/ VbusRead \/ KeyPressWakes \/ Boot \/ PowerOff
  PROVE  In(Key("alarm"), queue')
<1>1. Head(queue) # Key("alarm")
    BY DEF HandlesAwake, Receive, Enable, Poll, PollSuspend, PauseAccel, MotionIrq, VbusRead,
       KeyPressWakes, KeySleeps, Boot, ForceDeepSleep, ForceWfi, ScreenOffRequest, PowerOff,
       Key
<1>2. Handles
    BY DEF Handles, HandlesAwake
<1> QED BY <1>1, <1>2, HandlesKeep

\* The alarm key itself, or deep sleep forced, is the end if it is obeyed.
LEMMA SleepsForGood == ASSUME ~ SleepMayFail, KeyPressSleeps PROVE pc' = "off"
  BY DEF KeyPressSleeps
-----------------------------------------------------------------------------
\* Once booted, a badge on battery has its alarm, armed or on its way, but for
\* the two gaps.
BatteryInv ==
  booted /\ ~ vbus_state /\ pc \notin {"vbus", "off"}
    => alarm \/ In(Key("alarm"), queue) \/ offSending > 0 \/ letGo

\* No order of keys, motion, polls, plugging, requests and alarms leaves a badge
\* on battery without an alarm to put it into deep sleep.
LEMMA BatteryStep ==
  ASSUME ~ SleepMayFail, QCAP > QLEN, QueueInv, FullInv, ModeTypes, LineTypes, SwitchTypes,
         BatteryInv, [Next]_vars
  PROVE  BatteryInv'
<1> USE DEF flags, rtc, vbus, offs
<1>1. ASSUME UNCHANGED <<offSending, booted, vbus_state>>, letGo => letGo',
             alarm => alarm' \/ letGo', pc' \in {"vbus", "off"} \/ pc \notin {"vbus", "off"},
             In(Key("alarm"), queue) => In(Key("alarm"), queue')
      PROVE  BatteryInv'
    BY <1>1 DEF BatteryInv
<1>2. ASSUME alarm' \/ vbus_state' \/ pc' \in {"vbus", "off"} \/ In(Key("alarm"), queue')
      PROVE  BatteryInv'
  <2>1. CASE alarm' \/ pc' \in {"vbus", "off"} \/ In(Key("alarm"), queue')
      BY <2>1 DEF BatteryInv
  <2>2. CASE vbus_state'
      BY <2>2 DEF BatteryInv
  <2> QED BY <1>2, <2>1, <2>2
<1>3. CASE AlarmFires
  <2>1. In(Key("alarm"), queue')
      BY <1>3, InAppend DEF AlarmFires, Enqueue, QueueInv, Accepted
  <2> QED BY <1>2, <2>1
<1>4. CASE OffThreadSends
    BY <1>2, <1>4, OffKeySent
<1>5. CASE Feeds /\ ~ AlarmFires /\ ~ OffThreadSends
  <2>1. /\ UNCHANGED <<offSending, booted, vbus_state, alarm, letGo>>
        /\ pc' = pc \/ (pc = "suspended" /\ pc' = "resuming")
      BY <1>5, FeedsWake DEF Feeds, PollTick, KeyInput, MotionInput, AppInput, VbusInput
  <2>2. In(Key("alarm"), queue) => In(Key("alarm"), queue')
      BY <1>5, FeedsKeep
  <2> QED BY <1>1, <2>1, <2>2
<1>6. CASE OffThreadClears
  <2>1. offSending' > 0
      BY <1>6 DEF OffThreadClears, ModeTypes
  <2> QED BY <2>1 DEF BatteryInv
<1>7. CASE VbusRead \/ KeyPressSleeps
    BY <1>2, <1>7, SleepsForGood DEF VbusRead
<1>8. CASE VbusArm
  <2>1. alarm' \/ vbus_state'
      BY <1>8 DEF VbusArm, AlarmOnBattery
  <2> QED BY <1>2, <2>1
<1>9. CASE KeyPressWakes
  <2>1. alarm' \/ vbus_state'
      BY <1>9 DEF KeyPressWakes, PushAlarmOnBattery, PushAlarm
  <2> QED BY <1>2, <2>1
<1>10. CASE Boot
    BY <1>2, <1>10 DEF Boot, PushAlarm
<1>11. CASE HandlesAwake \/ PowerOff
  <2>1. In(Key("alarm"), queue) => In(Key("alarm"), queue')
      BY <1>11, AlarmKeyKept
  <2>2. UNCHANGED <<offSending, booted, vbus_state>> /\ pc = "loop"
      BY <1>11 DEF HandlesAwake, Receive, Enable, Poll, PollSuspend, PauseAccel, MotionIrq,
         ForceDeepSleep, ForceWfi, ScreenOffRequest, PowerOff
  <2>3. CASE Poll \/ PollSuspend
    <3>1. CASE NotManaging /\ alarm_set
      <4>1. letGo' = ~ pwr_mgr_enabled
          BY <2>3, <3>1 DEF Poll, PollSuspend, PollAlarm
      <4>2. CASE pwr_mgr_enabled
        <5>1. vbus_state'
            BY <2>2, <3>1, <4>2 DEF NotManaging
        <5> QED BY <5>1 DEF BatteryInv
      <4>3. CASE ~ pwr_mgr_enabled
        <5>1. letGo'
            BY <4>1, <4>3
        <5> QED BY <5>1 DEF BatteryInv
      <4> QED BY <4>2, <4>3
    <3>2. CASE ~ (NotManaging /\ alarm_set)
      <4>1. UNCHANGED <<alarm, letGo>>
          BY <2>3, <3>2 DEF Poll, PollSuspend, PollAlarm
      <4> QED BY <1>1, <2>1, <2>2, <4>1
    <3> QED BY <3>1, <3>2
  <2>4. CASE MotionIrq
    <3>1. alarm' \/ UNCHANGED <<alarm, letGo>>
        BY <2>4 DEF MotionIrq, PushAlarmOnBattery, PushAlarm
    <3> QED BY <1>1, <1>2, <2>1, <2>2, <3>1
  <2>5. CASE Enable \/ PauseAccel \/ ForceDeepSleep \/ ForceWfi \/ ScreenOffRequest \/ PowerOff
    <3>1. UNCHANGED <<alarm, letGo>>
        BY <2>5 DEF Enable, PauseAccel, ForceDeepSleep, ForceWfi, ScreenOffRequest, PowerOff
    <3> QED BY <1>1, <2>1, <2>2, <3>1
  <2> QED BY <1>11, <2>3, <2>4, <2>5 DEF HandlesAwake
<1>12. CASE VbusChanges \/ Later \/ SuspendFails \/ Resume \/ UNCHANGED vars
  <2>1. /\ UNCHANGED <<queue, offSending, booted, vbus_state, alarm, letGo>>
        /\ pc' = pc \/ pc \in {"suspended", "resuming"}
      BY <1>12 DEF VbusChanges, Later, SuspendFails, Resume, vars
  <2>2. CASE pc' = pc
      BY <2>1, <2>2 DEF BatteryInv
  <2>3. CASE pc \in {"suspended", "resuming"}
      BY <1>1, <2>1, <2>3
  <2> QED BY <2>1, <2>2, <2>3
<1> QED BY <1>3, <1>4, <1>5, <1>6, <1>7, <1>8, <1>9, <1>10, <1>11, <1>12, ThreeKinds
      DEF Handles, HandlesAwake, Rests
-----------------------------------------------------------------------------
\* A power-off that was asked for is on its way.
OffInv == power_off /\ pc # "off" => offThreads + offSending > 0 \/ In(Key("alarm"), queue)

\* No order of steps loses a power-off.
LEMMA OffStep ==
  ASSUME ~ SleepMayFail, QCAP > QLEN, QueueInv, FullInv, ModeTypes, OffInv, [Next]_vars
  PROVE  OffInv'
<1> USE DEF flags, rtc, vbus, offs
<1>1. ASSUME UNCHANGED <<offThreads, offSending, power_off>>, pc = "off" => pc' = "off",
             In(Key("alarm"), queue) => In(Key("alarm"), queue')
      PROVE  OffInv'
    BY <1>1 DEF OffInv
<1>2. CASE AlarmFires
  <2>1. In(Key("alarm"), queue')
      BY <1>2, InAppend DEF AlarmFires, Enqueue, QueueInv, Accepted
  <2> QED BY <2>1 DEF OffInv
<1>3. CASE OffThreadSends
    BY <1>3, OffKeySent DEF OffInv
<1>4. CASE Feeds /\ ~ AlarmFires /\ ~ OffThreadSends
  <2>1. /\ UNCHANGED <<offThreads, offSending, power_off>>
        /\ pc' = pc \/ (pc = "suspended" /\ pc' = "resuming")
      BY <1>4, FeedsWake DEF Feeds, PollTick, KeyInput, MotionInput, AppInput, VbusInput
  <2>2. In(Key("alarm"), queue) => In(Key("alarm"), queue')
      BY <1>4, FeedsKeep
  <2> QED BY <1>1, <2>1, <2>2
<1>5. CASE OffThreadClears
    BY <1>5 DEF OffThreadClears, OffInv, ModeTypes
<1>6. CASE PowerOff
    BY <1>6 DEF PowerOff, StartOffThread, OffInv, ModeTypes
<1>7. CASE KeyPressSleeps
    BY <1>7, SleepsForGood DEF OffInv
<1>8. CASE HandlesAwake \/ VbusRead \/ KeyPressWakes \/ Boot
  <2>1. UNCHANGED <<offThreads, offSending, power_off>> /\ pc = "loop"
      BY <1>8 DEF HandlesAwake, Receive, Enable, Poll, PollSuspend, PauseAccel, MotionIrq,
         VbusRead, KeyPressWakes, Boot, ForceDeepSleep, ForceWfi, ScreenOffRequest
  <2>2. In(Key("alarm"), queue) => In(Key("alarm"), queue')
      BY <1>8, AlarmKeyKept
  <2> QED BY <1>1, <2>1, <2>2
<1>9. CASE VbusChanges \/ Later \/ SuspendFails \/ Resume \/ VbusArm \/ UNCHANGED vars
  <2>1. UNCHANGED <<queue, offThreads, offSending, power_off>> /\ (pc' = pc \/ pc # "off")
      BY <1>9 DEF VbusChanges, Later, SuspendFails, Resume, VbusArm, vars
  <2> QED BY <1>1, <2>1
<1> QED BY <1>2, <1>3, <1>4, <1>5, <1>6, <1>7, <1>8, <1>9, ThreeKinds
      DEF Handles, HandlesAwake, Rests
-----------------------------------------------------------------------------
\* What holds whatever the messages and the hardware.
IInv == QueueInv /\ FullInv /\ ModeTypes /\ SwitchTypes /\ LineTypes /\ HistoryTypes
        /\ TurnInv

\* A badge that has just started is in order, whatever the last boot left.
LEMMA InitInvs ==
  ASSUME Init
  PROVE  IInv /\ WdtGuardsTheAwake /\ ScreenAgreesWithFlags /\ VbusInv /\ BatteryInv /\ OffInv
<1> USE PowerAssumption DEF Init, PowerAssumption
<1>1. QueueInv /\ FullInv
    BY DEF QueueInv, FullInv
<1>2. ModeTypes
    BY DEF ModeTypes, Orientations
<1>3. SwitchTypes /\ LineTypes /\ HistoryTypes
    BY Zenon DEF SwitchTypes, LineTypes, HistoryTypes
<1>4. TurnInv
    BY DEF TurnInv, ScreenFollowsOrientation
<1>5. WdtGuardsTheAwake /\ ScreenAgreesWithFlags /\ VbusInv /\ BatteryInv /\ OffInv
    BY DEF WdtGuardsTheAwake, ScreenAgreesWithFlags, VbusInv, BatteryInv, OffInv
<1> QED BY <1>1, <1>2, <1>3, <1>4, <1>5 DEF IInv

\* The types, and the screen's turning, hold whatever the messages.
THEOREM ManagerInvariant == Spec => []IInv
<1>1. Init => IInv
    BY InitInvs
<1>2. IInv /\ [Next]_vars => IInv'
    BY QueueStep, FullStep, ModeTypeStep, SwitchTypeStep, LineTypeStep, HistoryTypeStep,
       TurnStep DEF IInv
<1> QED BY <1>1, <1>2, PTL DEF Spec

\* The manager's state keeps its types and its queue its bound (power.rs:686-696).
THEOREM TypeCorrect == Spec => []TypeOK
<1>1. IInv => TypeOK
  <2> SUFFICES ASSUME IInv PROVE TypeOK
      OBVIOUS
  <2>1. queue \in Seq(Message) /\ Len(queue) <= QCAP
      BY AcceptedMessages, SeqMonotonic DEF IInv, QueueInv
  <2> QED BY <2>1 DEF IInv, ModeTypes, SwitchTypes, LineTypes, HistoryTypes, TypeOK
<1> QED BY <1>1, ManagerInvariant, PTL

\* After boot the screen is turned as the badge is worn, with or without an
\* accelerometer (power.rs:462, 559, 647).
THEOREM ScreenTurnsWithBadge == Spec => []ScreenFollowsOrientation
<1>1. IInv => ScreenFollowsOrientation
    BY DEF IInv, TurnInv
<1> QED BY <1>1, ManagerInvariant, PTL

\* If deep sleep comes when it is asked for, only a sleeping badge is without
\* its watchdog (power.rs:320-327, 540-553).
THEOREM SleepIsGuarded == ASSUME ~ SleepMayFail PROVE Spec => []WdtGuardsTheAwake
<1>1. Init => WdtGuardsTheAwake
    BY InitInvs
<1>2. IInv /\ WdtGuardsTheAwake /\ [Next]_vars => WdtGuardsTheAwake'
    BY SleepStep DEF IInv
<1> QED BY <1>1, <1>2, ManagerInvariant, PTL DEF Spec

\* Nor is a running badge dark with no key to light it, or lit and about to be
\* suspended as if it were dark (power.rs:311-318, 555-569, 667-670).
THEOREM ScreenCanBeLit ==
  ASSUME ~ SleepMayFail
  PROVE  Spec => []ScreenAgreesWithFlags
<1>1. Init => ScreenAgreesWithFlags
    BY InitInvs
<1>2. IInv /\ ScreenAgreesWithFlags /\ [Next]_vars => ScreenAgreesWithFlags'
    BY ScreenStep DEF IInv
<1> QED BY <1>1, <1>2, ManagerInvariant, PTL DEF Spec

\* However the pin moves, the fade thread's flag is true whenever every
\* interrupt has been handled, but for the one edge that can be missed
\* (power.rs:490-514).
THEOREM PluggedInFlagIsTrue == Spec => []PluggedInIsTrue
<1>1. Init => VbusInv
    BY InitInvs
<1>2. IInv /\ VbusInv /\ [Next]_vars => VbusInv'
    BY VbusStep DEF IInv
<1>3. VbusInv => PluggedInIsTrue
    BY DEF VbusInv, PluggedInIsTrue, InQueue, In
<1> QED BY <1>1, <1>2, <1>3, ManagerInvariant, PTL DEF Spec

\* Whatever is sent, a badge suspended on battery has an alarm, armed or queued,
\* to put it into deep sleep, but for the two gaps the property names; if deep
\* sleep comes when it is asked for and the others leave the power-off key its
\* place in the queue (power.rs:285-335, 490-514, 574-579, 631-641, 677-697).
THEOREM BatteryHasItsAlarm ==
  ASSUME ~ SleepMayFail, QCAP > QLEN
  PROVE  Spec => []SuspendedOnBatteryHasAlarm
<1>1. Init => BatteryInv
    BY InitInvs
<1>2. IInv /\ BatteryInv /\ [Next]_vars => BatteryInv'
    BY BatteryStep DEF IInv
<1>3. BatteryInv => SuspendedOnBatteryHasAlarm
    BY DEF BatteryInv, SuspendedOnBatteryHasAlarm, InQueue, In
<1> QED BY <1>1, <1>2, <1>3, ManagerInvariant, PTL DEF Spec

\* Under the same two assumptions a power-off that was asked for is never lost,
\* however often it is asked for (power.rs:677-697).
THEOREM PowerOffSurvives ==
  ASSUME ~ SleepMayFail, QCAP > QLEN
  PROVE  Spec => []PowerOffIsNeverLost
<1>1. Init => OffInv
    BY InitInvs
<1>2. IInv /\ OffInv /\ [Next]_vars => OffInv'
    BY OffStep DEF IInv
<1>3. IInv /\ OffInv => PowerOffIsNeverLost
  <2>1. ModeTypes /\ offThreads + offSending > 0 => offThreads > 0 \/ offSending > 0
      BY DEF ModeTypes
  <2> QED BY <2>1 DEF IInv, OffInv, PowerOffIsNeverLost, InQueue, In
<1> QED BY <1>1, <1>2, <1>3, ManagerInvariant, PTL DEF Spec
=============================================================================
