---------------------------- MODULE IosPadProofs ----------------------------
(***************************************************************************)
(* The safety invariants of IosPad for every set of controllers, timers,   *)
(* addresses and chords.                                                   *)
(***************************************************************************)
EXTENDS IosPad, FiniteSetTheorems, TLAPS

(***************************************************************************)
(* At most one timer is scheduled, the one self.timer names, and there is  *)
(* one exactly while the user is connected; then the client is the chosen  *)
(* address's, unless it has no socket.  OnlyToChosen alone counts the timers: it does not say that  *)
(* the one which is left can be invalidated.                               *)
(***************************************************************************)
TimerInv ==
    /\ scheduled = {timer} \ {None}
    /\ chosen = None <=> timer = None
    /\ chosen # None /\ fd # None => client = chosen
    /\ fd # None => client # None

ControllerInv == mainController # None => mainController \in attached

SentInv ==
    \A p \in sent : p.to = chosen /\ mainController # None /\ p.keys = Keys(p.pressed)

\* The inductive invariant.
IosInv == TypeOK /\ TimerInv /\ OneSocket /\ ControllerInv /\ SentInv

-----------------------------------------------------------------------------
(* The bits of the keys.                                                   *)

\* Whatever is pressed, the packet has bits of the table only.
LEMMA KeysType == \A pressed \in SUBSET Buttons : Keys(pressed) \subseteq Bits
<1> SUFFICES ASSUME NEW pressed \in SUBSET Buttons, NEW bit \in Keys(pressed)
             PROVE  bit \in Bits
    OBVIOUS
<1>1. \A button \in Buttons : BitOf[button] \in Bits
    BY DEF Buttons, BitOf, Bits
<1>2. Plus \in Bits /\ Minus \in Bits
    BY DEF Plus, Minus, Bits
<1>3. \/ \E button \in pressed : bit = BitOf[button]
      \/ bit = Plus \/ bit = Minus
    BY DEF Keys, HiddenBy
<1> QED
    BY <1>1, <1>2, <1>3

\* "l1+l2+r1+r2+x will result in a plus", and nothing else.
LEMMA PlusKeys == Keys(Shoulders \cup {"x"}) = {Plus}
<1> DEFINE chord == Shoulders \cup {"x"}
<1>1. "x" \in chord /\ Shoulders \subseteq chord /\ "right" \notin chord
    BY DEF Shoulders
<1>2. {BitOf[button] : button \in chord} \ Hidden = {}
    BY DEF Hidden
<1> QED
    BY <1>1, <1>2 DEF Keys, HiddenBy, IsPlus, IsMinus
-----------------------------------------------------------------------------
(* The invariant.                                                          *)

LEMMA InitIosInv == Init => IosInv
BY IosAssumption DEF Init, IosInv, TypeOK, TimerInv, OneSocket, ControllerInv, SentInv

LEMMA NextIosInv == IosInv /\ [Next]_vars => IosInv'
<1> SUFFICES ASSUME IosInv, [Next]_vars PROVE IosInv'
    OBVIOUS
<1> USE IosAssumption DEF IosInv, TypeOK, TimerInv, OneSocket, ControllerInv, SentInv, udpVars
<1>1. ASSUME NEW c \in Controllers, ControllerWasConnected(c) PROVE IosInv'
    BY <1>1 DEF ControllerWasConnected
<1>2. ASSUME NEW c \in Controllers, ControllerWasDisconnected(c) PROVE IosInv'
    BY <1>2 DEF ControllerWasDisconnected
<1>3. ASSUME NEW a \in Addresses, ConnectToIp(a) PROVE IosInv'
  <2>1. PICK t \in Timers : scheduled' = {t} /\ timer' = t
      BY <1>3 DEF ConnectToIp, NewClient, NotFound, NewSocket, Invalidated
  <2>2. t # None /\ a # None
      OBVIOUS
  <2>3. Closed = {}
      BY DEF Closed
  <2>4. /\ opened' = {fd'} \ {None}
        /\ chosen' = a /\ sent' = {}
        /\ UNCHANGED <<attached, mainController>>
      BY <1>3, <2>3 DEF ConnectToIp, NewClient, NotFound, NewSocket
  <2>5. \/ client' = None /\ fd' = None
        \/ client' = a /\ fd' \in Sockets \cup {None}
      BY <1>3 DEF ConnectToIp, NewClient, NotFound, NewSocket
  <2> QED
      BY <2>1, <2>2, <2>4, <2>5
<1>4. CASE DisconnectButtonPressed
    BY <1>4 DEF DisconnectButtonPressed
<1>5. ASSUME NEW t \in Timers, NEW pressed \in Chords, TimerFired(t, pressed) PROVE IosInv'
  <2>1. UNCHANGED <<attached, mainController, scheduled, timer, udpVars, chosen>>
      BY <1>5 DEF TimerFired, Send
  <2>2. CASE mainController = None \/ fd = None
    <3>1. sent' = {}
        BY <1>5, <2>2 DEF TimerFired, Send
    <3> QED
        BY <2>1, <3>1
  <2>3. CASE mainController # None /\ fd # None
    <3>1. sent' = {[to |-> client, pressed |-> pressed, keys |-> Keys(pressed)]}
        BY <1>5, <2>3 DEF TimerFired, Send
    <3>2. client = chosen /\ client \in Addresses
        BY <1>5, <2>3 DEF TimerFired, Send
    <3>3. Keys(pressed) \in SUBSET Bits
        BY KeysType
    <3>4. sent' \subseteq Packet
        BY <3>1, <3>2, <3>3 DEF Packet
    <3>5. SentInv'
        BY <2>1, <2>3, <3>1, <3>2
    <3> QED
        BY <2>1, <3>4, <3>5
  <2> QED
      BY <2>2, <2>3
<1>6. CASE UNCHANGED vars
    BY <1>6 DEF vars
<1> QED
    BY <1>1, <1>2, <1>3, <1>4, <1>5, <1>6 DEF Next

LEMMA IosInvHolds == Spec => []IosInv
<1> QED
    BY InitIosInv, NextIosInv, PTL DEF Spec

-----------------------------------------------------------------------------
(***************************************************************************)
(* Every packet names a chord, an address and bits of the table.           *)
(***************************************************************************)
THEOREM TypeCorrect == Spec => []TypeOK
<1>1. IosInv => TypeOK
    BY DEF IosInv
<1> QED
    BY <1>1, IosInvHolds, PTL

(***************************************************************************)
(* However often the user connects and disconnects, exactly one timer is   *)
(* scheduled while connected and none otherwise, and every packet goes to  *)
(* the address chosen last.                                                *)
(***************************************************************************)
THEOREM SendsToChosen == Spec => []OnlyToChosen
<1>1. IosInv => OnlyToChosen
  <2> SUFFICES ASSUME IosInv PROVE OnlyToChosen
      OBVIOUS
  <2>1. CASE chosen = None
    <3>1. scheduled = {}
        BY <2>1 DEF IosInv, TimerInv
    <3> QED
        BY <2>1, <3>1, FS_EmptySet DEF OnlyToChosen, IosInv, SentInv
  <2>2. CASE chosen # None
    <3>1. scheduled = {timer}
        BY <2>2 DEF IosInv, TimerInv
    <3> QED
        BY <2>2, <3>1, FS_Singleton DEF OnlyToChosen, IosInv, SentInv
  <2> QED
      BY <2>1, <2>2
<1> QED
    BY <1>1, IosInvHolds, PTL

(***************************************************************************)
(* However often the user connects, no socket is open but the client's.    *)
(***************************************************************************)
THEOREM SocketsClosed == Spec => []OneSocket
<1>1. IosInv => OneSocket
    BY DEF IosInv
<1> QED
    BY <1>1, IosInvHolds, PTL

(***************************************************************************)
(* A packet is only about a controller that is connected to the phone.     *)
(***************************************************************************)
THEOREM ReadsAttached == Spec => []OfAttached
<1>1. IosInv => OfAttached
    BY DEF IosInv, OfAttached, ControllerInv, SentInv
<1> QED
    BY <1>1, IosInvHolds, PTL

(***************************************************************************)
(* The README's chord for plus sends plus and nothing else.                *)
(***************************************************************************)
THEOREM PlusIsSent == Spec => []PlusChord
<1>1. IosInv => PlusChord
    BY PlusKeys DEF IosInv, SentInv, PlusChord
<1> QED
    BY <1>1, IosInvHolds, PTL
=============================================================================
