----------------------------- MODULE AndroidPad -----------------------------
(***************************************************************************)
(* The Android companion, MainActivity.java.  The gamepad's events are     *)
(* queued and handled one after the other by the UI thread.  A sender      *)
(* thread builds a packet 60 times a second; it changes nothing and locks  *)
(* out single calls of set_key only, so it may look at any state between   *)
(* two steps of a handler: Packet is what it would send now.               *)
(*                                                                         *)
(* One stick coordinate, one pair of hat directions and the trigger L2     *)
(* stand for all: the code treats them alike, but for R2 having no key     *)
(* code.  A stick is inside the dead zone of 5000 (not exactly centred) or *)
(* outside.  When Android replaces the activity, the fields are those of   *)
(* the new one; the old one's sender goes on with what it knew last and is *)
(* left out, and so is the address that is sent to.                        *)
(***************************************************************************)
EXTENDS Integers, Sequences

CONSTANTS
    Plain,      \* key codes with a case in dispatchKeyEvent, but for the d-pad's and L2's
    Button,     \* the button that each of them sets
    Strange,    \* key codes that have no case
    Pads,       \* kinds of gamepads
    MaxQueue    \* bound: nothing happens on the gamepad while so many events wait

Directions == {"left", "right"}
Keys       == Plain \cup Directions \cup {"L2"}

\* The bit a key sets: SELECT and BACK are one, all others have their own.
ButtonOf(key) == IF key \in Plain THEN Button[key] ELSE key
Buttons       == {ButtonOf(key) : key \in Keys}

Positions  == {"inside", "outside"}
Coordinates == Positions \cup {"centre"}

\* hat, dpadKeys: how it reports the d-pad; l2Key: L2 also comes as a key.
\* The trigger comes as an axis: others are the known issue of the README.
Pad == [hat : BOOLEAN, dpadKeys : BOOLEAN, l2Key : BOOLEAN]

\* What the constants must be.
AndroidAssumption ==
    /\ Pads \subseteq Pad
    /\ (Plain \cup Strange) \cap (Directions \cup {"L2", "stick"}) = {}
    /\ Plain \cap Strange = {}
    /\ \A key \in Plain : Button[key] \notin Directions \cup {"L2", "stick"}
    /\ MaxQueue \in Nat \ {0}

VARIABLES
    pad, down, dpad, trigger, stick,  \* the gamepad and what is pressed on it
    calm,                             \* nothing is pressed or released any more
    queue,                            \* events on their way
    work,                             \* what the handler at work has yet to do
    pressed_keys, joy, dpad_is_axis,
    told,                             \* what this activity was told about, of the keys of
                                      \* one button the last
    before                            \* pressed_keys before the event at work

padVars   == <<pad, down, dpad, trigger, stick, calm>>
fieldVars == <<pressed_keys, joy, dpad_is_axis>>
vars      == <<padVars, queue, work, fieldVars, told, before>>

Motion      == [kind : {"motion"}, stick : Positions, dpad : Directions \cup {"none"},
                trigger : BOOLEAN]
Key         == [kind : {"key"}, code : Keys \cup Strange, down : BOOLEAN]
Instruction == [op : {"joy"}, to : Coordinates] \cup [op : {"set"}, key : Buttons, to : BOOLEAN]

(***************************************************************************)
(* A type invariant; in it, pressed_keys has only bits the console knows.  *)
(***************************************************************************)
TypeOK ==
    /\ pad \in Pads /\ down \subseteq Plain
    /\ dpad \in Directions \cup {"none"} /\ trigger \in BOOLEAN
    /\ stick \in Positions /\ calm \in BOOLEAN
    /\ queue \in Seq(Motion \cup Key) /\ work \in Seq(Instruction)
    /\ pressed_keys \subseteq Buttons /\ joy \in Coordinates /\ dpad_is_axis \in BOOLEAN
    /\ told \subseteq Keys \cup {"stick"} /\ before \subseteq Buttons

Init ==
    /\ pad \in Pads /\ down = {} /\ dpad = "none" /\ trigger = FALSE /\ stick = "inside"
    /\ calm = FALSE /\ queue = <<>> /\ work = <<>>
    /\ pressed_keys = {} /\ joy = "centre" /\ dpad_is_axis = TRUE
    /\ told = {} /\ before = {}

-----------------------------------------------------------------------------
(* The gamepad and Android, which turns what happens on it into events.    *)

MotionEvent == [kind    |-> "motion",
                stick   |-> stick',
                dpad    |-> IF pad.hat THEN dpad' ELSE "none",
                trigger |-> trigger']

KeyEvent(code, isDown) == [kind |-> "key", code |-> code, down |-> isDown]

Report(events) ==
    /\ ~calm /\ Len(queue) < MaxQueue
    /\ queue' = queue \o events
    /\ UNCHANGED <<pad, calm, work, fieldVars, told, before>>

\* Of the codes without a case nothing needs to be remembered.
PressStrange(code, isDown) ==
    /\ UNCHANGED <<down, dpad, trigger, stick>>
    /\ Report(<<KeyEvent(code, isDown)>>)

PressKey(code) ==
    /\ down' = IF code \in down THEN down \ {code} ELSE down \cup {code}
    /\ UNCHANGED <<dpad, trigger, stick>>
    /\ Report(<<KeyEvent(code, code \notin down)>>)

\* A d-pad may go from one side to the other at once.  One that is reported
\* twice is reported in any order.
MoveDpad(d) ==
    LET hat  == IF pad.hat THEN <<MotionEvent>> ELSE <<>>
        keys == (IF pad.dpadKeys /\ dpad # "none" THEN <<KeyEvent(dpad, FALSE)>> ELSE <<>>)
                \o (IF pad.dpadKeys /\ d # "none" THEN <<KeyEvent(d, TRUE)>> ELSE <<>>)
    IN  /\ d # dpad /\ dpad' = d
        /\ UNCHANGED <<down, trigger, stick>>
        /\ Report(hat \o keys) \/ Report(keys \o hat)

MoveTrigger ==
    LET key == IF pad.l2Key THEN <<KeyEvent("L2", ~trigger)>> ELSE <<>>
    IN  /\ trigger' = ~trigger
        /\ UNCHANGED <<down, dpad, stick>>
        /\ Report(<<MotionEvent>> \o key) \/ Report(key \o <<MotionEvent>>)

MoveStick(to) ==
    /\ to # stick /\ stick' = to
    /\ UNCHANGED <<down, dpad, trigger>>
    /\ Report(<<MotionEvent>>)

CalmDown ==
    /\ ~calm /\ calm' = TRUE
    /\ UNCHANGED <<pad, down, dpad, trigger, stick, queue, work, fieldVars, told, before>>

Gamepad == \/ \E code \in Plain : PressKey(code)
           \/ \E code \in Strange, isDown \in BOOLEAN : PressStrange(code, isDown)
           \/ \E d \in Directions \cup {"none"} : MoveDpad(d)
           \/ MoveTrigger
           \/ \E to \in Positions : MoveStick(to)
           \/ CalmDown

-----------------------------------------------------------------------------
(* The UI thread.                                                          *)

Joy(position)      == [op |-> "joy", to |-> position]
SetKey(key, state) == [op |-> "set", key |-> key, to |-> state]

\* Mutant of TriggerWork: L2 is released first and then set again.
TriggerWorkReset(e) == <<SetKey("L2", FALSE), SetKey("L2", e.trigger)>>

TriggerWork(e) == <<SetKey("L2", e.trigger)>>

\* The field first holds the raw coordinate, then the dead zone is applied.
MotionWork(e, asAxis) ==
    <<Joy(e.stick)>>
    \o (IF e.stick = "inside" THEN <<Joy("centre")>> ELSE <<>>)
    \o TriggerWork(e)
    \o (IF asAxis THEN <<SetKey("left", e.dpad = "left"), SetKey("right", e.dpad = "right")>>
                  ELSE <<>>)

NextEvent(kind) ==
    /\ queue # <<>> /\ work = <<>> /\ Head(queue).kind = kind
    /\ queue' = Tail(queue)
    /\ before' = pressed_keys
    /\ UNCHANGED <<padVars, pressed_keys, joy>>

DispatchGenericMotionEvent ==
    LET e      == Head(queue)
        asAxis == dpad_is_axis \/ e.dpad # "none"
    IN  /\ NextEvent("motion")
        /\ dpad_is_axis' = asAxis
        /\ work' = MotionWork(e, asAxis)
        /\ told' = told \cup {"stick", "L2"}
                        \cup (IF asAxis /\ pad.hat THEN Directions ELSE {})

\* Mutants: the hat still counts after a d-pad key; a code without a case sets a bit.
IsAxisAfterKey(code) == dpad_is_axis
KeyWorkAny(e)        == <<SetKey(ButtonOf(e.code), e.down)>>

IsAxisAfter(code) == dpad_is_axis /\ code \notin Directions
KeyWork(e)        == IF e.code \in Strange THEN <<>> ELSE <<SetKey(ButtonOf(e.code), e.down)>>

\* A key takes the place of another one of its button.
ToldAfter(code) ==
    IF code \in Strange THEN told
    ELSE {key \in told : ButtonOf(key) # ButtonOf(code)} \cup {code}

DispatchKeyEvent ==
    LET e == Head(queue)
    IN  /\ NextEvent("key")
        /\ dpad_is_axis' = IsAxisAfter(e.code)
        /\ work' = KeyWork(e)
        /\ told' = ToldAfter(e.code)

\* A step of a handler; `before` is of no use after the last one.
Done ==
    /\ work' = Tail(work)
    /\ before' = IF Tail(work) = <<>> THEN {} ELSE before
    /\ UNCHANGED <<padVars, queue, dpad_is_axis, told>>

\* Mutant of SetKeyTo: set_key never clears a bit.
SetKeyToOnly(key, to) == IF to THEN pressed_keys \cup {key} ELSE pressed_keys

SetKeyTo(key, to) == IF to THEN pressed_keys \cup {key} ELSE pressed_keys \ {key}

\* set_key, under singleThreadLock.
SetKeyStep ==
    /\ work # <<>> /\ Head(work).op = "set"
    /\ pressed_keys' = SetKeyTo(Head(work).key, Head(work).to)
    /\ Done
    /\ UNCHANGED joy

\* An assignment to joy_LX, without a lock.
JoyStep ==
    /\ work # <<>> /\ Head(work).op = "joy"
    /\ joy' = Head(work).to
    /\ Done
    /\ UNCHANGED pressed_keys

\* Android replaces the activity, for instance when a gamepad is connected.
OnCreate ==
    /\ ~calm /\ work = <<>>
    /\ pressed_keys' = {} /\ joy' = "centre" /\ dpad_is_axis' = TRUE
    /\ told' = {}
    /\ UNCHANGED <<padVars, queue, work, before>>

Dispatch == DispatchGenericMotionEvent \/ DispatchKeyEvent \/ SetKeyStep \/ JoyStep

Next == Gamepad \/ Dispatch \/ OnCreate

\* The UI thread handles its events.
Spec == Init /\ [][Next]_vars /\ WF_vars(Dispatch)

\* build_pkg, which the sender may call at any time.
Packet == [keys |-> pressed_keys, joy |-> joy]

-----------------------------------------------------------------------------
(* Properties.                                                             *)

Held == down \cup (IF trigger THEN {"L2"} ELSE {}) \cup ({dpad} \ {"none"})

\* The buttons of what is held, of the inputs that count.
HeldButtons == {ButtonOf(key) : key \in Held \cap told}

(***************************************************************************)
(* Whatever way the gamepad reports its d-pad, by hat, by keys or by both  *)
(* in any order, and whatever is pressed meanwhile: when all events are    *)
(* handled, a packet tells exactly what is pressed of the inputs that this *)
(* activity was told about (a key held while it was created is not).  Of   *)
(* two keys of one button the last one counts: SELECT and BACK both set    *)
(* minus, so that releasing one of them hides the other, which is held.    *)
(* No button is told of which no key is held.                              *)
(***************************************************************************)
AtRestExact ==
    queue = <<>> /\ work = <<>> =>
        /\ Packet.keys = HeldButtons
        /\ "stick" \in told => Packet.joy = IF stick = "outside" THEN "outside" ELSE "centre"

(***************************************************************************)
(* A packet that is built while an event is handled has every button that  *)
(* is set before and after the event, and none that is set neither before  *)
(* nor after: the event's own changes may be seen one by one, no other.    *)
(***************************************************************************)
Outcome ==
    LET sets(k) == {n \in DOMAIN work : work[n].op = "set" /\ work[n].key = k}
    IN  {k \in Buttons : IF sets(k) = {} THEN k \in pressed_keys
                         ELSE \E n \in sets(k) : work[n].to /\ \A m \in sets(k) : m <= n}

NoFlicker == work # <<>> =>
    /\ before \cap Outcome \subseteq Packet.keys
    /\ Packet.keys \subseteq before \cup Outcome

(***************************************************************************)
(* The packets tell what is pressed, as AtRestExact says it: where they    *)
(* get when nothing changes on the gamepad any more.                       *)
(***************************************************************************)
Settled == Packet.keys = HeldButtons /\ Packet.joy # "inside"
=============================================================================
