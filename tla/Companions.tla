------------------------------ MODULE Companions ------------------------------
(***************************************************************************)
(* The user starts one of the companion programs: `program` says which.    *)
(* IosPad is extended, the others are instances; variables of one name are *)
(* shared, since only the program that runs uses them, and those it does   *)
(* not have stay as they are.  "joysticks" is the half of the Go program   *)
(* that opens gamepads, and "senders" the half of the Android program that *)
(* knows addresses: neither changes anything that the other half uses.     *)
(***************************************************************************)
EXTENDS IosPad

VARIABLES
    program,
    pad, down, dpad, trigger, stick, calm, queue, work, exited, \* two or more programs
    pressed_keys, joy, dpad_is_axis, told, before,             \* AndroidPad
    crossed, keyout, dx, taken,                                \* PyPad
    hat, keys, offering, running, looping, sending,            \* GoPad
    attachedIds, born, crowded, joysticks, refs,               \* GoJoysticks
    last_ip, senders, storing, connected, ended                \* AndroidSenders

CONSTANTS
    Plain, Strange,                       \* buttons with and without a bit
    AndroidKeys, Button,                  \* on Android: key codes, and the button of each
    AndroidPads, PyPads,                  \* kinds of gamepads
    MaxQueue,                             \* bound: events that wait
    Instances,                            \* bound: gamepads that SDL ever sees
    Literals, Hosts, Wrong, Default,      \* names, and the one at first
    MaxSenders                            \* bound: activities in the life of a process

Android   == INSTANCE AndroidPad WITH Pads <- AndroidPads, Plain <- AndroidKeys
Py        == INSTANCE PyPad WITH Pads <- PyPads
Go        == INSTANCE GoPad
Joysticks == INSTANCE GoJoysticks WITH attached <- attachedIds
Senders   == INSTANCE AndroidSenders

ASSUME CompanionsAssumption ==
    /\ Android!AndroidAssumption /\ Py!PyAssumption /\ Go!GoAssumption
    /\ Joysticks!JoysticksAssumption /\ Senders!SendersAssumption

androidOnly == <<pressed_keys, joy, dpad_is_axis, told, before>>
pyOnly      == <<crossed, keyout, dx, taken>>
goOnly      == <<hat, keys, offering, running, looping, sending>>
tableOnly   == <<attachedIds, born, crowded, joysticks, refs>>
sendersOnly == <<last_ip, senders, storing, connected, ended>>
allVars     == <<vars, program, pad, down, dpad, trigger, stick, calm, queue, work, exited,
                 androidOnly, pyOnly, goOnly, tableOnly, sendersOnly>>

Off == "off"

HeldOff    == /\ pad = Off /\ down = Off /\ dpad = Off /\ trigger = Off /\ stick = Off
              /\ calm = Off /\ work = Off /\ exited = Off
AndroidOff == pressed_keys = Off /\ joy = Off /\ dpad_is_axis = Off /\ told = Off /\ before = Off
PyOff      == crossed = Off /\ keyout = Off /\ dx = Off /\ taken = Off
GoOff      == /\ hat = Off /\ keys = Off /\ offering = Off /\ running = Off
              /\ looping = Off /\ sending = Off
TableOff   == attachedIds = Off /\ born = Off /\ crowded = Off /\ joysticks = Off /\ refs = Off
SendersOff == last_ip = Off /\ senders = Off /\ storing = Off /\ connected = Off /\ ended = Off

CompanionInit ==
    /\ Init
    /\ \/ /\ program = "ios" /\ HeldOff /\ queue = Off
          /\ AndroidOff /\ PyOff /\ GoOff /\ TableOff /\ SendersOff
       \/ /\ program = "android" /\ Android!Init
          /\ exited = Off /\ PyOff /\ GoOff /\ TableOff /\ SendersOff
       \/ /\ program = "python" /\ Py!Init
          /\ AndroidOff /\ GoOff /\ TableOff /\ SendersOff
       \/ /\ program = "go" /\ Go!Init
          /\ pad = Off /\ dpad = Off /\ stick = Off /\ work = Off
          /\ AndroidOff /\ PyOff /\ TableOff /\ SendersOff
       \/ /\ program = "joysticks" /\ Joysticks!Init /\ HeldOff
          /\ AndroidOff /\ PyOff /\ GoOff /\ SendersOff
       \/ /\ program = "senders" /\ Senders!Init /\ HeldOff /\ queue = Off
          /\ AndroidOff /\ PyOff /\ GoOff /\ TableOff

\* Only the variables of the program that runs may change.
heldOnly == <<pad, down, dpad, trigger, stick, calm, work, exited>>

OnlyAndroid == program = "android" /\ UNCHANGED <<vars, program, exited, pyOnly, goOnly,
                                                  tableOnly, sendersOnly>>
OnlyPy      == program = "python" /\ UNCHANGED <<vars, program, androidOnly, goOnly, tableOnly,
                                                 sendersOnly>>
OnlyGo      == program = "go" /\ UNCHANGED <<vars, program, pad, dpad, stick, work, androidOnly,
                                             pyOnly, tableOnly, sendersOnly>>
OnlyTable   == program = "joysticks" /\ UNCHANGED <<vars, program, heldOnly, androidOnly, pyOnly,
                                                    goOnly, sendersOnly>>
OnlySenders == program = "senders" /\ UNCHANGED <<vars, program, heldOnly, queue, androidOnly,
                                                  pyOnly, goOnly, tableOnly>>
OnlyIos     == program = "ios" /\ UNCHANGED <<program, heldOnly, queue, androidOnly, pyOnly,
                                              goOnly, tableOnly, sendersOnly>>

CompanionNext ==
    \/ OnlyAndroid /\ Android!Next
    \/ OnlyPy /\ Py!Next
    \/ OnlyGo /\ Go!Next
    \/ OnlyTable /\ Joysticks!Next
    \/ OnlySenders /\ Senders!Next
    \/ OnlyIos /\ Next

\* The fairness of the program that runs.
CompanionSpec ==
    /\ CompanionInit /\ [][CompanionNext]_allVars
    /\ WF_allVars(OnlyAndroid /\ Android!Dispatch)
    /\ WF_allVars(OnlyPy /\ Py!Poller)
    /\ WF_allVars(OnlyPy /\ Py!Sender)
    /\ WF_allVars(OnlyGo /\ Go!Program)

(***************************************************************************)
(* The variables of the program that runs keep their types.                *)
(***************************************************************************)
CompanionTypeOK ==
    CASE program = "android"   -> Android!TypeOK
      [] program = "python"    -> Py!TypeOK
      [] program = "go"        -> Go!TypeOK
      [] program = "joysticks" -> Joysticks!TypeOK
      [] program = "senders"   -> Senders!TypeOK
      [] OTHER                 -> TypeOK

(***************************************************************************)
(* When all events are handled the next packet tells what is pressed, as   *)
(* far as the companion's code keeps track of it.  Android: exactly, of    *)
(* the inputs this activity was told about, and of two keys of one button  *)
(* (SELECT and BACK are both minus) of the last one.  Python: exactly, but *)
(* for a side of the hat that was left for the other at once, and for a    *)
(* half-pressed trigger.  Go: exactly, but of a diagonal hat one of its    *)
(* two directions.                                                         *)
(***************************************************************************)
AtRest ==
    CASE program = "android" -> Android!AtRestExact
      [] program = "python"  -> Py!AtRestTells
      [] program = "go"      -> Go!AtRestTells
      [] OTHER               -> TRUE

(***************************************************************************)
(* A packet the Android companion builds while it handles an event shows   *)
(* no change but the event's.                                              *)
(***************************************************************************)
NoFlicker == program = "android" => Android!NoFlicker

(***************************************************************************)
(* The Go companion hears the gamepad, unless two were attached at once.   *)
(***************************************************************************)
AttachedIsHeard == program = "joysticks" => Joysticks!AttachedIsHeard

(***************************************************************************)
(* Through replaced activities, kills and failing lookups the Android      *)
(* companion on the screen sends to the address the user was told.         *)
(***************************************************************************)
SendsWhereTold == program = "senders" => Senders!SendsWhereTold

(***************************************************************************)
(* The Android companion never stores a name that was mistyped, so that it *)
(* cannot end at every start.                                              *)
(***************************************************************************)
EndsOnlyForHosts == program = "senders" => Senders!EndsOnlyForHosts

(***************************************************************************)
(* When the user stops pressing and releasing, the packets come to tell    *)
(* what is pressed, for good.                                              *)
(***************************************************************************)
Calm    == program \in {"android", "python", "go"} => calm
Settled ==
    CASE program = "android" -> Android!Settled
      [] program = "python"  -> Py!Settled
      [] program = "go"      -> Go!Settled
      [] OTHER               -> TRUE

Settles == <>[]Calm => <>[]Settled
=============================================================================
