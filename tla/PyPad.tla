-------------------------------- MODULE PyPad --------------------------------
(***************************************************************************)
(* The Python companion, input_pc.py: a poller thread turns events of one  *)
(* gamepad into assignments to global variables, and the main thread packs *)
(* these into a packet 60 times a second, reading one after the other and  *)
(* without a lock.                                                         *)
(*                                                                         *)
(* One stick coordinate, one axis of the hat and the left trigger stand    *)
(* for all; the code treats them alike.  A stick is inside the dead zone   *)
(* of 5000 (not exactly centred) or outside; the trigger is released, half *)
(* pressed (below 500 of ABS_Z, as always on a trigger whose axis ends at  *)
(* 255), or full.  Nothing is held when the program starts.                *)
(***************************************************************************)
EXTENDS Integers, Sequences

CONSTANTS
    Plain,      \* event codes of buttons with a case in check_keys
    Strange,    \* event codes that have none
    Pads,       \* kinds of gamepads
    MaxQueue    \* bound: nothing happens on the gamepad while so many events wait

Directions == {"left", "right"}
Keys       == Plain \cup Directions \cup {"ZL"}
Positions  == {"inside", "outside"}
Coordinates == Positions \cup {"centre"}
Levels     == {"released", "half", "full"}

\* ps3: gamepad_type is the PLAYSTATION(R)3's.  What it reports: the d-pad by
\* hat or keys, the trigger as an axis or as a key (from half pressed on).
Pad == [ps3 : BOOLEAN, hat : BOOLEAN, dpadKeys : BOOLEAN, zAxis : BOOLEAN, zKey : BOOLEAN]

\* What the constants must be.
PyAssumption ==
    /\ Pads \subseteq {p \in Pad : /\ p.ps3 => p.dpadKeys /\ p.zKey
                                   /\ p.hat \/ p.dpadKeys
                                   /\ p.zAxis \/ p.zKey}
    /\ (Plain \cup Strange) \cap (Directions \cup {"ZL"}) = {}
    /\ Plain \cap Strange = {}
    /\ MaxQueue \in Nat \ {0}

VARIABLES
    pad, down, dpad, trigger, stick,  \* the gamepad and what is pressed on it
    crossed,                          \* the d-pad changed sides since it was last free
    calm,                             \* nothing is pressed or released any more
    queue,                            \* events get_gamepad has not returned
    work,                             \* assignments the poller has yet to make
    keyout, dx,                       \* the globals
    taken,                            \* keyout as pack()'s argument, or Nothing
    exited                            \* os._exit, or sendto has raised

padVars == <<pad, down, dpad, trigger, stick, crossed, calm>>
vars    == <<padVars, queue, work, keyout, dx, taken, exited>>

Nothing == {"nothing"}

Event      == [kind : {"key"}, code : Keys \cup Strange, on : BOOLEAN]
              \cup [kind : {"hat"}, at : Directions \cup {"none"}]
              \cup [kind : {"z"}, at : Levels] \cup [kind : {"stick"}, at : Positions]
Assignment == [to : {"keyout"}, bit : Keys, on : BOOLEAN] \cup [to : {"dx"}, at : Coordinates]

(***************************************************************************)
(* A type invariant; in it, keyout has only bits of the table of keys.     *)
(***************************************************************************)
TypeOK ==
    /\ pad \in Pads /\ down \subseteq Plain
    /\ dpad \in Directions \cup {"none"} /\ trigger \in Levels /\ stick \in Positions
    /\ crossed \in BOOLEAN /\ calm \in BOOLEAN
    /\ queue \in Seq(Event) /\ work \in Seq(Assignment)
    /\ keyout \subseteq Keys /\ dx \in Coordinates
    /\ taken \in (SUBSET Keys) \cup {Nothing}
    /\ exited \in BOOLEAN

Init ==
    /\ pad \in Pads /\ down = {} /\ dpad = "none" /\ trigger = "released"
    /\ stick = "inside" /\ crossed = FALSE /\ calm = FALSE
    /\ queue = <<>> /\ work = <<>>
    /\ keyout = {} /\ dx = "centre"
    /\ taken = Nothing /\ exited = FALSE

-----------------------------------------------------------------------------
(* The gamepad and its driver.                                             *)

Emit(events) ==
    /\ ~calm /\ ~exited /\ Len(queue) < MaxQueue
    /\ queue' = queue \o events
    /\ UNCHANGED <<pad, calm, work, keyout, dx, taken, exited>>

Key(code, on) == [kind |-> "key", code |-> code, on |-> on]

PressStrange(code, on) ==
    /\ UNCHANGED <<down, dpad, trigger, stick, crossed>>
    /\ Emit(<<Key(code, on)>>)

PressKey(code) ==
    /\ down' = IF code \in down THEN down \ {code} ELSE down \cup {code}
    /\ UNCHANGED <<dpad, trigger, stick, crossed>>
    /\ Emit(<<Key(code, code \notin down)>>)

\* The d-pad may go from one side to the other at once.
MoveDpad(d) ==
    LET hat  == IF pad.hat THEN <<[kind |-> "hat", at |-> d]>> ELSE <<>>
        keys == IF ~pad.dpadKeys THEN <<>>
                ELSE (IF dpad = "none" THEN <<>> ELSE <<Key(dpad, FALSE)>>)
                     \o (IF d = "none" THEN <<>> ELSE <<Key(d, TRUE)>>)
    IN  /\ d # dpad /\ dpad' = d
        /\ crossed' = (d # "none" /\ (crossed \/ dpad # "none"))
        /\ UNCHANGED <<down, trigger, stick>>
        /\ Emit(hat \o keys) \/ Emit(keys \o hat)

MoveTrigger(l) ==
    LET axis == IF pad.zAxis THEN <<[kind |-> "z", at |-> l]>> ELSE <<>>
        key  == IF pad.zKey /\ "released" \in {trigger, l}
                THEN <<Key("ZL", l # "released")>> ELSE <<>>
    IN  /\ l # trigger /\ trigger' = l
        /\ UNCHANGED <<down, dpad, stick, crossed>>
        /\ Emit(axis \o key) \/ Emit(key \o axis)

MoveStick(to) ==
    /\ to # stick /\ stick' = to
    /\ UNCHANGED <<down, dpad, trigger, crossed>>
    /\ Emit(<<[kind |-> "stick", at |-> to]>>)

CalmDown ==
    /\ ~calm /\ ~exited /\ calm' = TRUE
    /\ UNCHANGED <<pad, down, dpad, trigger, stick, crossed, queue, work, keyout, dx,
                   taken, exited>>

Gamepad == \/ \E code \in Plain : PressKey(code)
           \/ \E code \in Strange, on \in BOOLEAN : PressStrange(code, on)
           \/ \E d \in Directions \cup {"none"} : MoveDpad(d)
           \/ \E l \in Levels : MoveTrigger(l)
           \/ \E to \in Positions : MoveStick(to)
           \/ CalmDown

-----------------------------------------------------------------------------
(* input_poller.                                                           *)

Bit(key, on) == [to |-> "keyout", bit |-> key, on |-> on]
Dx(at)       == [to |-> "dx", at |-> at]

\* Mutants: a hat in the middle releases one side only; a code without a case
\* sets a bit of its own.
HatWritesOne(at) == IF at = "none" THEN <<Bit("left", FALSE)>> ELSE <<Bit(at, TRUE)>>
KeyWritesAny(e)  == <<Bit(e.code, e.on)>>

HatWrites(at) == IF at = "none" THEN <<Bit("left", FALSE), Bit("right", FALSE)>>
                 ELSE <<Bit(at, TRUE)>>
KeyWrites(e)  == IF e.code \in Keys THEN <<Bit(e.code, e.on)>> ELSE <<>>

\* The assignments an event makes.  A stick's value is stored before the dead
\* zone is applied to it; on the PS3's pad hat and trigger axis are ignored.
Writes(e) ==
    CASE e.kind = "key"   -> KeyWrites(e)
      [] e.kind = "hat"   -> IF pad.ps3 THEN <<>> ELSE HatWrites(e.at)
      [] e.kind = "z"     -> IF pad.ps3 THEN <<>> ELSE <<Bit("ZL", e.at = "full")>>
      [] e.kind = "stick" -> IF e.at = "inside" THEN <<Dx(e.at), Dx("centre")>>
                             ELSE <<Dx(e.at)>>

GetGamepad ==
    /\ ~exited /\ work = <<>> /\ queue # <<>>
    /\ queue' = Tail(queue) /\ work' = Writes(Head(queue))
    /\ UNCHANGED <<padVars, keyout, dx, taken, exited>>

\* get_gamepad raises: "Gamepad disconnected".
GamepadDisconnected ==
    /\ ~exited /\ work = <<>>
    /\ exited' = TRUE
    /\ UNCHANGED <<padVars, queue, work, keyout, dx, taken>>

CheckKeys ==
    /\ ~exited /\ work # <<>> /\ Head(work).to = "keyout"
    /\ keyout' = IF Head(work).on THEN keyout \cup {Head(work).bit}
                                  ELSE keyout \ {Head(work).bit}
    /\ work' = Tail(work)
    /\ UNCHANGED <<padVars, queue, dx, taken, exited>>

SetDx ==
    /\ ~exited /\ work # <<>> /\ Head(work).to = "dx"
    /\ dx' = Head(work).at
    /\ work' = Tail(work)
    /\ UNCHANGED <<padVars, queue, keyout, taken, exited>>

Poller == GetGamepad \/ CheckKeys \/ SetDx

-----------------------------------------------------------------------------
(* The main loop: the arguments of pack() from left to right, then sendto. *)

ReadKeyout ==
    /\ ~exited /\ taken = Nothing
    /\ taken' = keyout
    /\ UNCHANGED <<padVars, queue, work, keyout, dx, exited>>

\* Mutant of SendTo: keyout is read before the loop and never again.
SendToOnce ==
    /\ ~exited /\ taken # Nothing
    /\ UNCHANGED vars

\* dx is read now, so [keys |-> taken, dx |-> dx] is the packet that is sent.
SendTo ==
    /\ ~exited /\ taken # Nothing
    /\ taken' = Nothing
    /\ UNCHANGED <<padVars, queue, work, keyout, dx, exited>>

\* sendto raises, which nothing catches: the main thread ends, and the program.
SendFails ==
    /\ ~exited /\ taken # Nothing
    /\ exited' = TRUE
    /\ UNCHANGED <<padVars, queue, work, keyout, dx, taken>>

Sender == ReadKeyout \/ SendTo \/ SendFails

Next == Gamepad \/ Poller \/ GamepadDisconnected \/ Sender

\* Both threads run; nothing makes the user act.
Spec == Init /\ [][Next]_vars /\ WF_vars(Poller) /\ WF_vars(Sender)

-----------------------------------------------------------------------------
(* Properties.                                                             *)

\* The keys and the coordinate tell what is pressed: buttons exactly, the d-pad
\* but for a side it left for the other one at once, the trigger unless half
\* pressed, when the order of its axis and its key decides.
Tells(keys, at) ==
    /\ keys \cap Plain = down
    /\ {dpad} \ {"none"} \subseteq keys
    /\ ~crossed => keys \cap Directions \subseteq {dpad}
    /\ trigger # "half" => ("ZL" \in keys <=> trigger = "full")
    /\ at = IF stick = "outside" THEN "outside" ELSE "centre"

(***************************************************************************)
(* Whatever kind of gamepad it is and however its events are ordered, when *)
(* all of them are handled the globals tell what is pressed, but for the   *)
(* crossed hat and the half-pressed trigger of Tells.                      *)
(***************************************************************************)
AtRestTells == queue = <<>> /\ work = <<>> => Tells(keyout, dx)

(***************************************************************************)
(* A hat that goes from one side to the other leaves the first side's bit  *)
(* set.  The other side never hides what is held, and both are released    *)
(* with the next event of the hat in the middle: no direction stays        *)
(* pressed for ever.  Where the packets get when the user stops: they tell *)
(* what is pressed, also those of which parts were read between two events.*)
(***************************************************************************)
Settled == exited \/ (taken # Nothing => Tells(taken, dx))
=============================================================================
