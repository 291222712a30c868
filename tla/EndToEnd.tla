------------------------------ MODULE EndToEnd ------------------------------
(***************************************************************************)
(* From the player's hands to the game: a companion that keeps sending the *)
(* state of its gamepad, a network that loses, delays and maybe reorders   *)
(* and repeats its datagrams, poll_udp_input (UdpInput) called by          *)
(* net_thread, and the pass of the copy thread that shows the packet to a  *)
(* game.  networking_enabled changes when config.ini is loaded again.      *)
(*                                                                         *)
(* A packet is the number of the input it carries: the player changes the  *)
(* input a few times, and every packet holds all of it.  The console stays *)
(* at one address here; UdpInput says what a change of address does.       *)
(***************************************************************************)
EXTENDS UdpInput, SequencesExt

CONSTANT QueueCap      \* datagrams on their way or in the socket's buffer

ASSUME EndToEndAssumption ==
    /\ Messages # {} /\ Messages \subseteq Nat \ {0} /\ NoMessage = 0
    /\ QueueCap \in Nat \ {0}

VARIABLES
    input,                  \* what the player holds
    queue,                  \* datagrams sent and not received
    ordered,                \* the network keeps their order
    networking_enabled,
    net_pc,                 \* net_thread: "poll" or "store"
    cur_fakegamepad_state,  \* 0 when its magic is 0
    seen,                   \* the packet in the game's page, 0 for none
    newest                  \* the newest packet the game has seen, while they are in order

playerVars == <<input, queue, ordered>>
gameVars   == <<seen, newest>>
e2eVars    == <<vars, playerVars, networking_enabled, net_pc, cur_fakegamepad_state, gameVars>>

None == NoMessage

(***************************************************************************)
(* The type invariant of the composition.                                  *)
(***************************************************************************)
E2ETypeOK ==
    /\ TypeOK
    /\ input \in Messages
    /\ queue \in Seq(Messages) /\ Len(queue) <= QueueCap
    /\ ordered \in BOOLEAN /\ networking_enabled \in BOOLEAN
    /\ net_pc \in {"poll", "store"}
    /\ {cur_fakegamepad_state, seen, newest} \subseteq Messages \cup {None}
    /\ net_pc = "store" => pc = "idle"

E2EInit ==
    /\ Init /\ sending
    /\ input \in Messages /\ queue = <<>> /\ ordered \in BOOLEAN
    /\ networking_enabled \in BOOLEAN
    /\ net_pc = "poll" /\ cur_fakegamepad_state = None
    /\ seen = None /\ newest = None

-----------------------------------------------------------------------------
(* The player, the companion and the network.                              *)

ChangeInput ==
    /\ ~calm /\ ~exited
    /\ \E m \in Messages : m > input /\ input' = m
    /\ UNCHANGED <<vars, queue, ordered, networking_enabled, net_pc,
                   cur_fakegamepad_state, gameVars>>

\* Every companion sends its whole state many times a second.
Send ==
    /\ sending /\ Len(queue) < QueueCap /\ ~exited
    /\ queue' = Append(queue, input)
    /\ UNCHANGED <<vars, input, ordered, networking_enabled, net_pc,
                   cur_fakegamepad_state, gameVars>>

Lost(q)     == {RemoveAt(q, i) : i \in DOMAIN q}
Repeated(q) == IF Len(q) = QueueCap THEN {} ELSE {Append(q, q[i]) : i \in DOMAIN q}
Swapped(q)  == {[q EXCEPT ![i] = q[j], ![j] = q[i]] : i, j \in DOMAIN q}

Network ==
    /\ ~calm /\ ~exited
    /\ queue' \in Lost(queue) \cup (IF ordered THEN {} ELSE Repeated(queue) \cup Swapped(queue))
    /\ UNCHANGED <<vars, input, ordered, networking_enabled, net_pc,
                   cur_fakegamepad_state, gameVars>>

SwitchNetworking ==
    /\ ~calm /\ ~exited
    /\ networking_enabled' = ~networking_enabled
    /\ UNCHANGED <<vars, playerVars, net_pc, cur_fakegamepad_state, gameVars>>

\* The companion stops and nothing disturbs what is left; a companion that
\* stops for a while is no other than a network that loses its packets.
FallSilent ==
    /\ ~calm /\ ~exited
    /\ calm' = TRUE /\ sending' = FALSE
    /\ UNCHANGED <<pc, udpVars, elapsed, host, callVars, exited>>

Around ==
    /\ Asleep \/ CalmDown \/ FallSilent
    /\ UNCHANGED <<playerVars, networking_enabled, net_pc, cur_fakegamepad_state, gameVars>>

-----------------------------------------------------------------------------
(* net_thread.                                                             *)

\* A call begins while networking is on, and goes on whatever becomes of it.
Calls == pc # "idle" \/ (net_pc = "poll" /\ networking_enabled)

\* Mutant: net_thread does not wait for the answer.
AfterCallAlways == net_pc' = "store"

AfterCall == net_pc' = IF pc' = "idle" THEN "store" ELSE "poll"

\* The next packet is in the socket's buffer or still on its way.
Take ==
    /\ queue # <<>> /\ socket = "bound"
    /\ Received(Head(queue)) /\ queue' = Tail(queue)

\* With the old socket goes what it had received already.
SetupSocket ==
    /\ Setup("wake", "wake_ip")
    /\ queue' \in {SubSeq(queue, i, Len(queue)) : i \in 1 .. Len(queue) + 1}

TimeOut == ReceiveTimeout /\ (calm /\ socket = "bound" => queue = <<>>) /\ UNCHANGED queue

OtherStep ==
    /\ \/ Report \/ Third \/ CheckClock \/ WakeIP
       \/ Throttle \/ DontThrottle \/ CheckIP \/ ReceiveBad
    /\ UNCHANGED queue

NetPoll ==
    /\ Calls
    /\ Take \/ SetupSocket \/ TimeOut \/ OtherStep
    /\ AfterCall
    /\ UNCHANGED <<input, ordered, networking_enabled, cur_fakegamepad_state, gameVars>>

\* While networking is off the thread only sleeps, a second at a time.
NetSleep ==
    /\ pc = "idle" /\ net_pc = "poll" /\ ~networking_enabled /\ Late
    /\ UNCHANGED <<playerVars, networking_enabled, net_pc, cur_fakegamepad_state, gameVars>>

\* Mutant of Stored: a failure leaves the packet.
StoredAnyway == IF ret = 0 THEN buf ELSE cur_fakegamepad_state
Stored       == IF ret = 0 THEN buf ELSE None

\* What the call returned is reset where it goes out of use.
NetStore ==
    /\ net_pc = "store" /\ net_pc' = "poll" /\ ~exited
    /\ cur_fakegamepad_state' = Stored
    /\ ret' = -1 /\ buf' = None /\ age' = 0
    /\ UNCHANGED <<pc, udpVars, elapsed, envVars, exited, playerVars, networking_enabled,
                   gameVars>>

-----------------------------------------------------------------------------
\* One pass of the copy thread, in which it holds pkgMutex.
CopyPass ==
    /\ ~exited
    /\ seen' = IF networking_enabled THEN cur_fakegamepad_state ELSE None
    /\ newest' = IF ordered THEN Max({newest, seen'}) ELSE None
    /\ UNCHANGED <<vars, playerVars, networking_enabled, net_pc, cur_fakegamepad_state>>

E2ENext == \/ ChangeInput \/ Send \/ Network \/ SwitchNetworking \/ Around
           \/ NetPoll \/ NetStore \/ NetSleep \/ CopyPass
           \/ Exited /\ UNCHANGED e2eVars

(***************************************************************************)
(* net_thread and copy_thread sleep in every round and no thread outranks  *)
(* them for good; a companion that runs goes on sending.                   *)
(***************************************************************************)
E2ESpec == /\ E2EInit /\ [][E2ENext]_e2eVars
           /\ WF_e2eVars(NetPoll) /\ WF_e2eVars(NetStore)
           /\ WF_e2eVars(CopyPass) /\ WF_e2eVars(Send)

-----------------------------------------------------------------------------
(***************************************************************************)
(* Packets carry no number, calls answer from a cache, setup_socket throws *)
(* packets away, and switching networking off and on keeps both caches.    *)
(* Still, while the network keeps the order of the packets, a game never   *)
(* sees an input older than one it has seen before.                        *)
(***************************************************************************)
NoGoingBack == ordered /\ seen # None => seen = newest

\* A socket whose receives fail at once is never replaced: see Reconnects.
Held == IF sending /\ networking_enabled /\ socket # "broken" THEN input ELSE None

(***************************************************************************)
(* Whatever was lost, late or repeated before: in a console in calm, the   *)
(* game sees from some point on what the player holds and nothing else,    *)
(* or no pad once the companion is silent, networking is off or the socket *)
(* fails at every receive, also when packets were still under way.         *)
(***************************************************************************)
FollowsPlayer == <>calm => <>[](exited \/ seen = Held)
=============================================================================
