-------------------------------- MODULE GoPad --------------------------------
(***************************************************************************)
(* The Go companion, input_pc.go: run() waits for SDL's events, changes    *)
(* its packet and hands it to the goroutine senderLoop over an unbuffered  *)
(* channel; senderLoop sends the packet it has 80 times a second.          *)
(*                                                                         *)
(* One joystick that stays connected, of which nothing is held when the    *)
(* program starts.  The sticks are copied as they are and left out; a      *)
(* trigger's axis is at its lowest value or above it.                      *)
(***************************************************************************)
EXTENDS Integers, Sequences

CONSTANTS
    Plain,      \* buttons with a bit
    Strange,    \* buttons without one: Home and those above 10
    MaxQueue    \* bound: nothing happens while so many events wait

Directions == {"up", "right", "down", "left"}
Keys       == Plain \cup Directions \cup {"ZL"}

\* What a hat reports: no two opposite directions.
Hats == {h \in SUBSET Directions : ~({"up", "down"} \subseteq h \/ {"left", "right"} \subseteq h)}

\* What the constants must be.
GoAssumption ==
    /\ Plain \cap (Strange \cup Directions \cup {"ZL"}) = {}
    /\ MaxQueue \in Nat \ {0}

VARIABLES
    down, hat, trigger,  \* what is held
    calm,                \* nothing is pressed or released any more
    queue,               \* SDL's events
    keys,                \* pkg.keys of run()
    offering,            \* run() is at "c <- pkg"
    running,
    looping,             \* senderLoop has its connection
    sending,             \* pkg.keys of senderLoop: what every tick sends
    exited

heldVars == <<down, hat, trigger, calm>>
vars     == <<heldVars, queue, keys, offering, running, looping, sending, exited>>

Event == [kind : {"button"}, button : Plain \cup Strange, on : BOOLEAN]
         \cup [kind : {"hat"}, at : Hats] \cup [kind : {"trigger"}, on : BOOLEAN]
         \cup [kind : {"quit", "device"}]

(***************************************************************************)
(* A type invariant; in it, the packets have only bits of the table.       *)
(***************************************************************************)
TypeOK ==
    /\ down \subseteq Plain /\ hat \in Hats /\ trigger \in BOOLEAN /\ calm \in BOOLEAN
    /\ queue \in Seq(Event)
    /\ keys \subseteq Keys /\ sending \subseteq Keys
    /\ offering \in BOOLEAN /\ running \in BOOLEAN /\ looping \in BOOLEAN /\ exited \in BOOLEAN

Init ==
    /\ down = {} /\ hat = {} /\ trigger = FALSE /\ calm = FALSE
    /\ queue = <<>> /\ keys = {} /\ sending = {}
    /\ offering = FALSE /\ running = TRUE /\ looping = FALSE /\ exited = FALSE

-----------------------------------------------------------------------------
(* The joystick, the window, and SDL.                                      *)

Emit(event) ==
    /\ ~calm /\ ~exited /\ Len(queue) < MaxQueue
    /\ queue' = Append(queue, event)
    /\ UNCHANGED <<calm, keys, offering, running, looping, sending, exited>>

PressButton(b) ==
    /\ down' = IF b \in down THEN down \ {b} ELSE down \cup {b}
    /\ UNCHANGED <<hat, trigger>>
    /\ Emit([kind |-> "button", button |-> b, on |-> b \notin down])

PressStrange(b, on) ==
    /\ UNCHANGED <<down, hat, trigger>>
    /\ Emit([kind |-> "button", button |-> b, on |-> on])

MoveHat(h) ==
    /\ h # hat /\ hat' = h
    /\ UNCHANGED <<down, trigger>>
    /\ Emit([kind |-> "hat", at |-> h])

MoveTrigger ==
    /\ trigger' = ~trigger
    /\ UNCHANGED <<down, hat>>
    /\ Emit([kind |-> "trigger", on |-> ~trigger])

\* The window is closed, or another device is added or removed.
OtherEvent(kind) ==
    /\ UNCHANGED <<down, hat, trigger>>
    /\ Emit([kind |-> kind])

CalmDown ==
    /\ ~calm /\ ~exited /\ calm' = TRUE
    /\ UNCHANGED <<down, hat, trigger, queue, keys, offering, running, looping, sending,
                   exited>>

User == \/ \E b \in Plain : PressButton(b)
        \/ \E b \in Strange, on \in BOOLEAN : PressStrange(b, on)
        \/ \E h \in Hats : MoveHat(h)
        \/ MoveTrigger
        \/ \E kind \in {"quit", "device"} : OtherEvent(kind)
        \/ CalmDown

-----------------------------------------------------------------------------
(* run().                                                                  *)

\* Of two directions the hat reports, the switch takes the first.
HatKeys(h) == IF "up" \in h THEN {"up"} ELSE IF "right" \in h THEN {"right"}
              ELSE IF "down" \in h THEN {"down"} ELSE h

\* Mutants: a hat adds to what it was; a button without a bit sets one.
HatAddedTo(h) == keys \cup HatKeys(h)
BitAny(b)     == {b}

HatSetTo(h) == (keys \ Directions) \cup HatKeys(h)
Bit(b)      == {b} \cap Plain

Switched(bits, on) == IF on THEN keys \cup bits ELSE keys \ bits

Handled(e) ==
    CASE e.kind = "button"  -> Switched(Bit(e.button), e.on)
      [] e.kind = "hat"     -> HatSetTo(e.at)
      [] e.kind = "trigger" -> Switched({"ZL"}, e.on)
      [] OTHER              -> keys

\* After the QuitEvent too the inner loop goes on: break leaves the switch.
HandleEvent ==
    /\ ~exited /\ ~offering /\ queue # <<>>
    /\ queue' = Tail(queue)
    /\ keys' = Handled(Head(queue))
    /\ running' = (running /\ Head(queue).kind # "quit")
    /\ offering' = TRUE
    /\ UNCHANGED <<heldVars, looping, sending, exited>>

\* WaitEvent returns nil, an error: only then is running looked at.
WaitEventFails ==
    /\ ~exited /\ ~offering /\ ~running
    /\ exited' = TRUE
    /\ UNCHANGED <<heldVars, queue, keys, offering, running, looping, sending>>

-----------------------------------------------------------------------------
(* senderLoop.                                                             *)

Connect ==
    /\ ~exited /\ ~looping /\ looping' = TRUE
    /\ UNCHANGED <<heldVars, queue, keys, offering, running, sending, exited>>

\* No argument, or an address that is none.
ConnectFails ==
    /\ ~exited /\ ~looping /\ exited' = TRUE
    /\ UNCHANGED <<heldVars, queue, keys, offering, running, looping, sending>>

\* Mutant of TakePackage: run() does not wait, and the package is lost unless
\* senderLoop is waiting for one.
TakePackageLossy ==
    /\ ~exited /\ offering
    /\ sending' \in (IF looping THEN {keys, sending} ELSE {sending}) /\ offering' = FALSE
    /\ UNCHANGED <<heldVars, queue, keys, running, looping, exited>>

\* The two meet at the channel.
TakePackage ==
    /\ ~exited /\ looping /\ offering
    /\ sending' = keys /\ offering' = FALSE
    /\ UNCHANGED <<heldVars, queue, keys, running, looping, exited>>

Program == HandleEvent \/ Connect \/ TakePackage

Next == User \/ Program \/ WaitEventFails \/ ConnectFails

\* Both goroutines run; nothing makes the user act.
Spec == Init /\ [][Next]_vars /\ WF_vars(Program)

-----------------------------------------------------------------------------
(* Properties.                                                             *)

\* Buttons and trigger exactly; of the hat exactly one direction it has.
Tells(packet) ==
    /\ packet \cap Plain = down
    /\ "ZL" \in packet <=> trigger
    /\ packet \cap Directions \subseteq hat
    /\ hat # {} => \E d \in Directions : packet \cap Directions = {d}

(***************************************************************************)
(* No event is lost between SDL, run() and senderLoop, also while the      *)
(* sender is not connected yet: when there is none left, the ticks send    *)
(* what is held, of a diagonal hat one direction as the switch has it.     *)
(***************************************************************************)
AtRestTells == queue = <<>> /\ ~offering => Tells(sending)

(***************************************************************************)
(* run() waits for the sender at every event, and the sender for a         *)
(* connection.  Where the ticks get when the user stops: they send what is *)
(* held, or the program has ended.                                         *)
(***************************************************************************)
Settled == exited \/ Tells(sending)
=============================================================================
