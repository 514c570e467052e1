---------------------------- MODULE MCPowerManager ----------------------------
(***************************************************************************)
(* PowerManager for TLC: for each run the messages it is about.            *)
(***************************************************************************)
EXTENDS PowerManager

\* Everything a user and the applications send.
AllInputs ==
  {Key("key"), Msg("MotionIrq"), Msg("Boot"), Msg("ForceWfi"), Msg("ForceDeepSleep"),
   Msg("PowerOff"), Msg("ScreenOffRequest"),
   [op |-> "Enable", arg |-> "on"], [op |-> "Enable", arg |-> "off"],
   [op |-> "PauseAccel", arg |-> "on"], [op |-> "PauseAccel", arg |-> "off"]}

\* A badge that is booted, and only plugged in and out after that.
CableInputs == {Msg("Boot")}
=============================================================================
