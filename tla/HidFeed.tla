------------------------------ MODULE HidFeed ------------------------------
(***************************************************************************)
(* What hid_mitm promises its games, without threads, mutexes and scratch  *)
(* images.  Games come and go between rounds.  In a round every game that  *)
(* is there is shown, once and in any order, one complete rendering of the *)
(* pads, and all that are shown a network packet are shown the same one.   *)
(***************************************************************************)
CONSTANTS
    Games,
    Packets, NoPacket,
    Views,         \* what a game can see in its page
    Blank,         \* a page nothing has been rendered into
    Renderings     \* packet or NoPacket -> the views that present some real pads with it

VARIABLES
    games,         \* the games with a page
    toServe,       \* those the round in progress has not reached
    view,          \* what each game sees
    packet         \* the packet to present

vars == <<games, toServe, view, packet>>

TypeOK ==
    /\ games \subseteq Games /\ toServe \subseteq games
    /\ view \in [Games -> Views]
    /\ packet \in Packets \cup {NoPacket}

Init ==
    /\ games = {} /\ toServe = {}
    /\ view = [g \in Games |-> Blank]
    /\ packet = NoPacket

\* A game that opens a second page under its id sees that one from then on.
Join(g) ==
    /\ toServe = {}
    /\ games' = games \cup {g} /\ view' = [view EXCEPT ![g] = Blank]
    /\ UNCHANGED <<toServe, packet>>

Leave(g) ==
    /\ toServe = {}
    /\ games' = games \ {g} /\ view' = [view EXCEPT ![g] = Blank]
    /\ UNCHANGED <<toServe, packet>>

StartRound ==
    /\ toServe = {} /\ toServe' = games
    /\ UNCHANGED <<games, view, packet>>

\* With networking off the packet is not shown.
Serve(g) ==
    /\ g \in toServe /\ toServe' = toServe \ {g}
    /\ \E v \in Renderings[packet] \cup Renderings[NoPacket] : view' = [view EXCEPT ![g] = v]
    /\ UNCHANGED <<games, packet>>

NewPacket ==
    /\ toServe = {} /\ packet' \in Packets \cup {NoPacket}
    /\ UNCHANGED <<games, toServe, view>>

Next == \/ \E g \in Games : Join(g) \/ Leave(g) \/ Serve(g)
        \/ StartRound \/ NewPacket

Spec == Init /\ [][Next]_vars
=============================================================================
