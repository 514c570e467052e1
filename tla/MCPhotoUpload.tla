---------------------------- MODULE MCPhotoUpload ----------------------------
(***************************************************************************)
(* PhotoUpload for TLC: photos of two or three chunks, two or three        *)
(* runs of the script, and the events each run of TLC is about.            *)
(***************************************************************************)
EXTENDS PhotoUpload

NoEchoes == {}
FirstEchoes == {0}

\* The line and the badge as the script's comments describe them.
LineEvents == {"garble", "drop", "noenter", "stall", "reboot", "delete"}

\* Answers come too late, writes fail, the vault saves and deletes meanwhile.
BadgeEvents == {"reboot", "slow", "storefail", "race", "delete"}

NoEvents == {}
=============================================================================
