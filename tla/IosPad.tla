------------------------------- MODULE IosPad -------------------------------
(***************************************************************************)
(* The iOS companion, ViewController.swift: controllers come and go, the   *)
(* user connects and disconnects, and a timer sends a packet 80 times a    *)
(* second.  All of it runs on the main thread, one callback at a time; a   *)
(* timer fires until it is invalidated, and self.timer is only a weak      *)
(* reference to the timer that was scheduled last.                         *)
(*                                                                         *)
(* The buttons of the gamepad at the time of a firing are a set; the       *)
(* sticks are left out.                                                    *)
(***************************************************************************)
EXTENDS Integers, FiniteSets

CONSTANTS
    Controllers,   \* the gamepads that may be connected to the phone
    None,          \* no controller, timer, client or socket
    Timers,        \* bound: timers that can be scheduled at once
    Sockets,       \* bound: sockets that can be open at once
    Addresses,     \* what may be entered as the console's address
    Chords         \* sets of buttons that may be pressed at a firing

Bits    == 0 .. 15
Buttons == {"a", "b", "x", "y", "l3", "r3", "l1", "r1", "l2", "r2",
            "left", "up", "right", "down"}

ASSUME IosAssumption ==
    /\ None \notin Controllers \cup Timers \cup Addresses \cup Sockets
    /\ Chords \subseteq SUBSET Buttons

VARIABLES
    attached,        \* the controllers connected to the phone
    mainController,
    scheduled,       \* the timers that fire
    timer,
    client,          \* the address of the UDPClient; None also if the lookup failed
    fd,              \* the UDPClient's socket
    opened,          \* the sockets that are open
    chosen,          \* the address the user is connected to, as they see it
    sent             \* the packet of the last callback, or {}

udpVars == <<client, fd, opened>>
vars    == <<attached, mainController, scheduled, timer, udpVars, chosen, sent>>

Packet == [to : Addresses, pressed : Chords, keys : SUBSET Bits]

(***************************************************************************)
(* One type invariant.                                                     *)
(***************************************************************************)
TypeOK ==
    /\ attached \subseteq Controllers /\ mainController \in Controllers \cup {None}
    /\ scheduled \subseteq Timers /\ timer \in scheduled \cup {None}
    /\ client \in Addresses \cup {None} /\ fd \in Sockets \cup {None} /\ opened \subseteq Sockets
    /\ chosen \in Addresses \cup {None}
    /\ sent \subseteq Packet

Init ==
    /\ attached = {} /\ mainController = None
    /\ scheduled = {} /\ timer = None
    /\ client = None /\ fd = None /\ opened = {} /\ chosen = None
    /\ sent = {}

-----------------------------------------------------------------------------
(* The keys of a packet.                                                   *)

\* Mutant of BitOf: one shift too far.
BitOfFar == [b |-> 0, a |-> 1, y |-> 2, x |-> 3, l3 |-> 4, r3 |-> 5, l1 |-> 6, r1 |-> 7,
             l2 |-> 8, r2 |-> 9, left |-> 13, up |-> 14, right |-> 15, down |-> 16]

BitOf == [b |-> 0, a |-> 1, y |-> 2, x |-> 3, l3 |-> 4, r3 |-> 5, l1 |-> 6, r1 |-> 7,
          l2 |-> 8, r2 |-> 9, left |-> 12, up |-> 13, right |-> 14, down |-> 15]

Plus      == 10
Minus     == 11
Shoulders == {"l1", "l2", "r1", "r2"}
Hidden    == {BitOf[button] : button \in {"x"} \cup Shoulders}

IsPlus(pressed)  == "x" \in pressed /\ Shoulders \subseteq pressed
IsMinus(pressed) == "right" \in pressed /\ Shoulders \subseteq pressed

\* Mutant of HiddenBy: the chord of plus does not hide its buttons.
HiddenByMinus(pressed) == IF IsMinus(pressed) THEN Hidden ELSE {}

HiddenBy(pressed) == IF IsPlus(pressed) \/ IsMinus(pressed) THEN Hidden ELSE {}

\* Two chords stand for plus and minus, and hide x and the shoulders.
Keys(pressed) ==
    ({BitOf[button] : button \in pressed} \ HiddenBy(pressed))
    \cup (IF IsPlus(pressed) THEN {Plus} ELSE {}) \cup (IF IsMinus(pressed) THEN {Minus} ELSE {})

-----------------------------------------------------------------------------
(* The callbacks.                                                          *)

ControllerWasConnected(c) ==
    /\ c \notin attached /\ attached' = attached \cup {c}
    /\ mainController' = c
    /\ sent' = {}
    /\ UNCHANGED <<scheduled, timer, udpVars, chosen>>

\* Mutant of ControllerWasDisconnected: the controller is kept.
ControllerWasDisconnectedKept(c) ==
    /\ c \in attached /\ attached' = attached \ {c}
    /\ sent' = {}
    /\ UNCHANGED <<mainController, scheduled, timer, udpVars, chosen>>

\* Whichever controller it was.
ControllerWasDisconnected(c) ==
    /\ c \in attached /\ attached' = attached \ {c}
    /\ mainController' = None
    /\ sent' = {}
    /\ UNCHANGED <<scheduled, timer, udpVars, chosen>>

\* Mutants: the timer in use is not invalidated; the client in use is not closed.
InvalidatedNot == scheduled
ClosedNot      == opened

Invalidated == scheduled \ {timer}
Closed      == opened \ {fd}

\* A UDPClient.  One whose address is not found opens no socket.
NotFound     == client' = None /\ fd' = None
NewSocket    == fd' \in (Sockets \ Closed) \cup {None}
NewClient(a) == NotFound \/ (client' = a /\ NewSocket)

\* Invalidates the timer, closes the client, opens a client, schedules a timer.
ConnectToIp(a) ==
    /\ \E t \in Timers \ Invalidated : scheduled' = Invalidated \cup {t} /\ timer' = t
    /\ NewClient(a)
    /\ opened' = Closed \cup ({fd'} \ {None})
    /\ chosen' = a /\ sent' = {}
    /\ UNCHANGED <<attached, mainController>>

\* The client is left open.
DisconnectButtonPressed ==
    /\ scheduled' = scheduled \ {timer} /\ timer' = None
    /\ chosen' = None
    /\ sent' = {}
    /\ UNCHANGED <<attached, mainController, udpVars>>

\* UDPClient.send
Send(pressed) ==
    sent' = IF fd = None THEN {}
            ELSE {[to |-> client, pressed |-> pressed, keys |-> Keys(pressed)]}

TimerFired(t, pressed) ==
    /\ t \in scheduled
    /\ IF mainController = None THEN sent' = {} ELSE Send(pressed)
    /\ UNCHANGED <<attached, mainController, scheduled, timer, udpVars, chosen>>

Next == \/ \E c \in Controllers : ControllerWasConnected(c) \/ ControllerWasDisconnected(c)
        \/ \E a \in Addresses : ConnectToIp(a)
        \/ DisconnectButtonPressed
        \/ \E t \in Timers, pressed \in Chords : TimerFired(t, pressed)

Spec == Init /\ [][Next]_vars

-----------------------------------------------------------------------------
(* Properties.                                                             *)

(***************************************************************************)
(* However often the user connects and disconnects, no timer is left that  *)
(* nothing can invalidate: packets go to the address chosen last, at one   *)
(* timer's rate, and none is sent after "disconnect".                      *)
(***************************************************************************)
OnlyToChosen ==
    /\ Cardinality(scheduled) = (IF chosen = None THEN 0 ELSE 1)
    /\ \A p \in sent : p.to = chosen

(***************************************************************************)
(* However often the user connects, to addresses that are found or not,    *)
(* the only socket open is the client's: close() reaches every one.        *)
(***************************************************************************)
OneSocket == opened = {fd} \ {None}

(***************************************************************************)
(* A packet is about a controller that is connected to the phone, so that  *)
(* the console is not told the buttons of one that is gone.                *)
(***************************************************************************)
OfAttached == sent # {} => mainController \in attached

(***************************************************************************)
(* README: "l1+l2+r1+r2+x will result in a plus".  With nothing else held  *)
(* the packet has plus and nothing else.                                   *)
(***************************************************************************)
PlusChord ==
    \A p \in sent : p.pressed = Shoulders \cup {"x"} => p.keys = {Plus}

(***************************************************************************)
(* README: "and l1+l2+r1+r2+dpad-left in a minus".  The code looks for     *)
(* dpad-right.                                                             *)
(***************************************************************************)
MinusChord ==
    \A p \in sent : p.pressed = Shoulders \cup {"left"} => Minus \in p.keys
=============================================================================
