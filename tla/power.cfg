SPECIFICATION Spec
CONSTANTS
  QLEN = 1
  QCAP = 2
  Inputs <- AllInputs
  HasAccel = TRUE
  SleepMayFail = FALSE
  MaxOff = 1
CHECK_DEADLOCK FALSE
INVARIANTS WdtGuardsTheAwake PluggedInIsTrue ScreenFollowsOrientation
INVARIANTS ScreenAgreesWithFlags SuspendedOnBatteryHasAlarm 

