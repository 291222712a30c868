----------------------------- MODULE MCCompanions -----------------------------
(***************************************************************************)
(* The kinds of gamepads that the Android and the Python companion are run *)
(* with: the d-pad as a hat, as keys and as both, the trigger with and     *)
(* without a key of its own.  Of Android's keys with a case there are the  *)
(* two that are one button; the trigger's and the d-pad's have their own.  *)
(***************************************************************************)
EXTENDS Companions, MCIosPad

MCAndroidKeys == {"Select", "Back"}
MCButton      == [key \in MCAndroidKeys |-> "Minus"]

MCPyPads ==
    {[ps3 |-> TRUE, hat |-> TRUE, dpadKeys |-> TRUE, zAxis |-> TRUE, zKey |-> TRUE],
     [ps3 |-> FALSE, hat |-> TRUE, dpadKeys |-> FALSE, zAxis |-> TRUE, zKey |-> TRUE],
     [ps3 |-> FALSE, hat |-> TRUE, dpadKeys |-> TRUE, zAxis |-> TRUE, zKey |-> FALSE]}

MCAndroidPads ==
    {[hat |-> TRUE, dpadKeys |-> FALSE, l2Key |-> TRUE],
     [hat |-> FALSE, dpadKeys |-> TRUE, l2Key |-> TRUE],
     [hat |-> TRUE, dpadKeys |-> TRUE, l2Key |-> FALSE]}
=============================================================================
