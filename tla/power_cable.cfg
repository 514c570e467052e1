SPECIFICATION Spec
CONSTANTS
  QLEN = 1
  QCAP = 2
  Inputs <- CableInputs
  HasAccel = FALSE
  SleepMayFail = FALSE
  MaxOff = 0
CHECK_DEADLOCK FALSE
PROPERTIES PollsClearTheAlarm
