---------------------------- MODULE AndroidSenders ----------------------------
(***************************************************************************)
(* Where the Android companion sends to: MainActivity's address, the one   *)
(* it stores, and the sender thread of every activity.  Android replaces   *)
(* the activity when the phone is turned or a gamepad is connected, and    *)
(* the sender of the one before goes on, with its address and the keys it  *)
(* knew last.  The process may be killed at any time; what is committed to *)
(* the preferences stays.                                                  *)
(*                                                                         *)
(* An address is the name it was looked up for.  AndroidPad says what the  *)
(* packets hold.                                                           *)
(***************************************************************************)
EXTENDS Naturals, Sequences

CONSTANTS
    Literals,     \* names that are addresses, which are always found
    Hosts,        \* names of hosts, which are found when the network is there
    Wrong,        \* names that are never found
    Default,      \* "192.168.178.22"
    None,         \* no name, no address
    MaxSenders    \* bound: activities in the life of a process

Names    == Literals \cup Hosts \cup Wrong
NoSocket == "no socket"

\* What the constants must be.
SendersAssumption ==
    /\ Default \in Literals /\ None \notin Names /\ NoSocket \notin Names \cup {None}
    /\ Literals \cap Hosts = {} /\ Wrong \cap (Literals \cup Hosts) = {}
    /\ MaxSenders \in Nat

VARIABLES
    last_ip,      \* the stored name
    senders,      \* those of the process; the last one is the activity's on the screen
    storing,      \* the name onClick has yet to commit, or None
    connected,    \* the name the user was told that the app sends to
    ended         \* why the process ended by itself: the name not found, or NoSocket

vars == <<last_ip, senders, storing, connected, ended>>

Sender == [name : Names, address : Names \cup {None}, socket : BOOLEAN]

(***************************************************************************)
(* The type invariant.                                                     *)
(***************************************************************************)
TypeOK ==
    /\ last_ip \in Names /\ connected \in Names /\ storing \in Names \cup {None}
    /\ senders \in Seq(Sender) /\ Len(senders) <= MaxSenders
    /\ ended \in Names \cup {None, NoSocket}

Init ==
    /\ last_ip = Default /\ connected = Default
    /\ senders = <<>> /\ storing = None /\ ended = None

\* What InetAddress.getByName may give.
GetByName(name) == CASE name \in Literals -> {name}
                     [] name \in Hosts    -> {name, None}
                     [] name \in Wrong    -> {None}

\* Mutant of Stored: the activity starts with the address of the factory.
StoredNot == Default
Stored    == last_ip

\* The app is started, or Android replaces the activity on the screen.
OnCreate ==
    /\ storing = None /\ Len(senders) < MaxSenders
    /\ \E address \in GetByName(Stored), socket \in BOOLEAN :
          senders' = Append(senders, [name |-> Stored, address |-> address, socket |-> socket])
    /\ ended' = None
    /\ UNCHANGED <<last_ip, storing, connected>>

\* Mutant of OnClick: the name is stored whether it is found or not.
OnClickAny(name) ==
    /\ storing = None /\ senders # <<>>
    /\ storing' = name
    /\ \E address \in GetByName(name) :
          IF address = None THEN UNCHANGED <<senders, connected>>
          ELSE /\ senders' = [senders EXCEPT ![Len(senders)].address = address]
               /\ connected' = name
    /\ UNCHANGED <<last_ip, ended>>

\* "Sending input to ... now", or "is not a valid ip!".
OnClick(name) ==
    /\ storing = None /\ senders # <<>>
    /\ \E address \in GetByName(name) :
          IF address = None THEN UNCHANGED <<senders, storing, connected>>
          ELSE /\ senders' = [senders EXCEPT ![Len(senders)].address = address]
               /\ storing' = name /\ connected' = name
    /\ UNCHANGED <<last_ip, ended>>

Commit ==
    /\ storing # None
    /\ last_ip' = storing /\ storing' = None
    /\ UNCHANGED <<senders, connected, ended>>

\* All activities go with the process, and so does what was not committed.
ProcessEnds ==
    /\ senders' = <<>> /\ storing' = None
    /\ connected' = last_ip
    /\ UNCHANGED last_ip

Killed ==
    /\ senders # <<>> /\ ProcessEnds
    /\ ended' = None

\* A sender that has an address and a socket sends, or prints that it could
\* not, and goes on; one without dies of a NullPointerException, and with it
\* the process.
SendFails ==
    /\ \E n \in DOMAIN senders :
          \/ ~senders[n].socket /\ ended' = NoSocket
          \/ senders[n].socket /\ senders[n].address = None /\ ended' = senders[n].name
    /\ ProcessEnds

Next == \/ OnCreate \/ Commit \/ Killed \/ SendFails
        \/ \E name \in Names : OnClick(name)

-----------------------------------------------------------------------------
(***************************************************************************)
(* Through replaced activities, kills and failing lookups: the activity on *)
(* the screen sends to the address the user was told, if it has one.  Only *)
(* senders of replaced activities send anywhere else.                      *)
(***************************************************************************)
SendsWhereTold ==
    senders # <<>> => senders[Len(senders)].address \in {connected, None}

(***************************************************************************)
(* A name that was mistyped is never stored, so that it cannot end the app *)
(* at every start: without a network a stored host name can, and only it.  *)
(***************************************************************************)
EndsOnlyForHosts == ended \in Hosts \cup {None, NoSocket}
===============================================================================
