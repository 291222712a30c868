------------------------------ MODULE UdpInput ------------------------------
(***************************************************************************)
(* poll_udp_input of udp_input.c, which the network thread calls in a      *)
(* loop.  Every third call looks at the socket, the others answer from     *)
(* what is known.  The console around it may change its address, go to     *)
(* sleep, or be late; the sender may send or be silent.                    *)
(*                                                                         *)
(* The clock is abstracted to what lines 69 and 70 ask of it: has it been  *)
(* more than 100 ms since last_time, and here also why.  A receive that    *)
(* times out takes 100 ms by itself.                                       *)
(***************************************************************************)
EXTENDS Integers

CONSTANTS
    Messages,     \* input_msg values with the magic number
    NoMessage,    \* cached_msg at start: all zero, so without the magic number
    IPs,          \* what gethostid may return
    ZeroIP        \* its value without a network, and curIP at start

ASSUME UdpAssumption ==
    /\ NoMessage \notin Messages
    /\ ZeroIP \in IPs

VARIABLES
    pc,           \* "idle" between two calls, else the place in the call
    counter, failed, cached_msg, curIP,
    socket,       \* "none", "bound", or unusable: see below
    elapsed,      \* since last_time: "short", or why it is more than 100 ms
    host,         \* the console's address now
    sending,      \* packets reach the console
    calm,         \* nothing disturbs the console and the sender any more
    ret, buf,     \* what the last call returned
    age,          \* calls since the last one that received a packet
    exited        \* exit(EXIT_FAILURE)

udpVars  == <<counter, failed, cached_msg, curIP, socket>>
envVars  == <<host, sending, calm>>
callVars == <<ret, buf, age>>
vars     == <<pc, udpVars, elapsed, envVars, callVars, exited>>

(***************************************************************************)
(* Bounds.  `failed` is an int that only grows while nothing arrives; the  *)
(* code asks whether it is above 10 and a multiple of 10, so 21 is counted *)
(* as 11.  `age` only serves properties and stops at AgeCap.               *)
(***************************************************************************)
MaxFailed == 20
AgeCap    == 33

OneMoreFailure == IF failed = MaxFailed THEN 11 ELSE failed + 1
Older          == IF age = AgeCap THEN AgeCap ELSE age + 1

\* A socket that never receives anything: every receive of a dead one times
\* out, every receive of a broken one fails at once.
Unusable == {"dead", "broken"}

Places == {"idle", "clock", "wake", "wake_ip", "throttle", "ip", "ip_socket", "ip_ip", "recv"}

(***************************************************************************)
(* The variables keep the ranges the C code means them to have.            *)
(***************************************************************************)
TypeOK ==
    /\ pc \in Places
    /\ counter \in 0 .. 2
    /\ failed \in 0 .. MaxFailed
    /\ cached_msg \in Messages \cup {NoMessage}
    /\ curIP \in IPs
    /\ socket \in {"none", "bound"} \cup Unusable
    /\ elapsed \in {"short", "boot", "timeout", "late", "asleep"}
    /\ host \in IPs
    /\ sending \in BOOLEAN /\ calm \in BOOLEAN
    /\ ret \in {0, -1}
    /\ buf \in Messages \cup {NoMessage}
    /\ age \in 0 .. AgeCap
    /\ exited \in BOOLEAN

\* The start values of `failed` and of last_time, which lets the first call
\* come later than 100 ms after power on.  Mutants: connected; on time.
FailedAtStartConnected == 0
ElapsedAtStartOnTime   == "short"
FailedAtStart          == 11
ElapsedAtStart         == "boot"

Init ==
    /\ pc = "idle"
    /\ counter = 0 /\ failed = FailedAtStart /\ cached_msg = NoMessage
    /\ curIP = ZeroIP /\ socket = "none"
    /\ elapsed = ElapsedAtStart
    /\ host \in IPs /\ sending \in BOOLEAN /\ calm = FALSE
    /\ ret = -1 /\ buf = NoMessage
    /\ age = AgeCap
    /\ exited = FALSE

At(place) == ~exited /\ pc = place

\* The call returns without having received anything.
Return(result) ==
    /\ pc' = "idle"
    /\ ret' = result
    /\ age' = Older

-----------------------------------------------------------------------------
(* The call.                                                               *)

\* Which calls look at the socket, and when the cached packet is no good any
\* more.  Mutants: every fourth call; one failure later.
ReportsOnlyThree   == counter < 3
DisconnectedEleven == failed > 11
ReportsOnly        == counter < 2
Disconnected       == failed > 10

\* Two calls of three only report.
Report ==
    /\ At("idle") /\ ReportsOnly
    /\ counter' = counter + 1
    /\ IF Disconnected THEN Return(-1) /\ UNCHANGED buf
                      ELSE Return(0) /\ buf' = cached_msg
    /\ UNCHANGED <<failed, cached_msg, curIP, socket, elapsed, envVars, exited>>

Third ==
    /\ At("idle") /\ ~ReportsOnly
    /\ counter' = 0
    /\ pc' = "clock"
    /\ UNCHANGED <<failed, cached_msg, curIP, socket, elapsed, envVars, callVars, exited>>

\* tmp_time - last_time > 19200000 / 10.  Mutant: a receive that timed out
\* no longer counts as waking up.
WakingWise == elapsed \notin {"short", "timeout"}
Waking     == elapsed # "short"

\* "Wakeup detection"; on waking up the thread first sleeps half a second.
CheckClock ==
    /\ At("clock")
    /\ pc' = IF Waking THEN "wake" ELSE "throttle"
    /\ elapsed' = "short"
    /\ UNCHANGED <<udpVars, envVars, callVars, exited>>

\* setup_socket: the old socket is closed; a failing bind is not noticed.
SetupBound(from, to) ==
    /\ At(from) /\ pc' = to
    /\ socket' = "bound"
    /\ UNCHANGED <<counter, failed, cached_msg, curIP, elapsed, envVars, callVars, exited>>

SetupUnbound(from, to) ==
    /\ ~calm
    /\ At(from) /\ pc' = to
    /\ socket' \in Unusable
    /\ UNCHANGED <<counter, failed, cached_msg, curIP, elapsed, envVars, callVars, exited>>

SetupExit(from) ==
    /\ ~calm
    /\ At(from)
    /\ exited' = TRUE
    /\ UNCHANGED <<pc, udpVars, elapsed, envVars, callVars>>

Setup(from, to) == SetupBound(from, to) \/ SetupUnbound(from, to) \/ SetupExit(from)

\* curIP = gethostid(), a call later than setup_socket.
ReadIP(from, to) ==
    /\ At(from) /\ pc' = to
    /\ curIP' = host
    /\ UNCHANGED <<counter, failed, cached_msg, socket, envVars, callVars, exited>>

\* After it a thread that woke up reads the clock again: whatever took time
\* since the first look at it is forgotten, another sleep of the console too.
WakeIP == ReadIP("wake_ip", "throttle") /\ elapsed' = "short"

NewIP == ReadIP("ip_ip", "recv") /\ UNCHANGED elapsed

\* While not connected only every tenth third call receives.
Throttle ==
    /\ At("throttle") /\ Disconnected /\ failed % 10 # 0
    /\ failed' = OneMoreFailure
    /\ Return(-1)
    /\ UNCHANGED <<counter, cached_msg, curIP, socket, elapsed, envVars, buf, exited>>

DontThrottle ==
    /\ At("throttle") /\ ~(Disconnected /\ failed % 10 # 0)
    /\ pc' = "ip"
    /\ UNCHANGED <<udpVars, elapsed, envVars, callVars, exited>>

CheckIP ==
    /\ At("ip")
    /\ pc' = IF curIP # host THEN "ip_socket" ELSE "recv"
    /\ UNCHANGED <<udpVars, elapsed, envVars, callVars, exited>>

\* The cache after a packet; mutant: only the first packet is kept.
CachedAfterFirst(m) == IF cached_msg = NoMessage THEN m ELSE cached_msg
CachedAfter(m)      == m

Received(m) ==
    /\ At("recv")
    /\ failed' = 0
    /\ cached_msg' = CachedAfter(m)
    /\ buf' = m
    /\ pc' = "idle" /\ ret' = 0 /\ age' = 0
    /\ UNCHANGED <<counter, curIP, socket, elapsed, envVars, exited>>

Receive == socket = "bound" /\ sending /\ \E m \in Messages : Received(m)

\* Mutant: a receive that fails is not counted.
FailedAfterNot == failed
FailedAfter    == OneMoreFailure

\* Nothing valid was received: *buf is the cached packet in any case.
ReceiveFails ==
    /\ At("recv")
    /\ failed' = FailedAfter
    /\ buf' = cached_msg
    /\ Return(IF failed' >= 10 THEN -1 ELSE 0)
    /\ UNCHANGED <<counter, cached_msg, curIP, socket, envVars, exited>>

\* A packet that reaches a bound socket in calm times is there within 100 ms.
ReceiveTimeout ==
    /\ ~(calm /\ sending /\ socket = "bound") /\ socket # "broken"
    /\ ReceiveFails
    /\ elapsed' = IF elapsed = "asleep" THEN elapsed ELSE "timeout"

\* A packet without the magic number, or an error at once.
ReceiveBad ==
    /\ ~calm \/ socket = "broken"
    /\ ReceiveFails
    /\ UNCHANGED elapsed

Call == \/ Report \/ Third \/ CheckClock
        \/ Setup("wake", "wake_ip") \/ WakeIP
        \/ Throttle \/ DontThrottle
        \/ CheckIP \/ Setup("ip_socket", "ip_ip") \/ NewIP
        \/ Receive \/ ReceiveTimeout \/ ReceiveBad

-----------------------------------------------------------------------------
(* Around the call.                                                        *)

\* The network thread is late: networking was off, or others ran.
Late ==
    /\ ~calm /\ At("idle")
    /\ elapsed' = IF elapsed = "short" THEN "late" ELSE elapsed
    /\ UNCHANGED <<pc, udpVars, envVars, callVars, exited>>

\* What becomes of an open socket that cannot go on.
SocketGone == socket' \in IF socket = "none" THEN {"none"} ELSE Unusable

\* The console sleeps, at any point; its sockets do not survive that.
Asleep ==
    /\ ~calm /\ ~exited
    /\ elapsed' = "asleep"
    /\ SocketGone
    /\ UNCHANGED <<pc, counter, failed, cached_msg, curIP, envVars, callVars, exited>>

\* The console joins or leaves a network; an open socket stays on the old one.
ChangeIP ==
    /\ ~calm /\ ~exited
    /\ host' \in IPs \ {host}
    /\ SocketGone
    /\ UNCHANGED <<pc, counter, failed, cached_msg, curIP, elapsed, sending, calm,
                   callVars, exited>>

StartOrStopSending ==
    /\ ~calm /\ ~exited
    /\ sending' = ~sending
    /\ UNCHANGED <<pc, udpVars, elapsed, host, calm, callVars, exited>>

CalmDown ==
    /\ ~calm /\ ~exited
    /\ calm' = TRUE
    /\ UNCHANGED <<pc, udpVars, elapsed, host, sending, callVars, exited>>

Exited == exited /\ UNCHANGED vars

Environment == Late \/ Asleep \/ ChangeIP \/ StartOrStopSending \/ CalmDown

Next == Call \/ Environment \/ Exited

\* net_thread calls again and again; the environment owes nothing.
Spec     == Init /\ [][Next]_vars
FairSpec == Spec /\ WF_vars(Call)

-----------------------------------------------------------------------------
(* Properties.                                                             *)

(***************************************************************************)
(* A call that returns 0 hands out a packet that was received no more than *)
(* 32 calls ago: ten failed receives of three calls each, and two calls    *)
(* that only report.                                                       *)
(***************************************************************************)
BoundedStaleness == pc = "idle" /\ ret = 0 => age <= 32

(***************************************************************************)
(* What a call returns with 0 has the magic number, also before the first  *)
(* packet, when cached_msg is all zero: net_thread passes it on unchecked. *)
(***************************************************************************)
OnlyPackets == pc = "idle" /\ ret = 0 => buf \in Messages

(***************************************************************************)
(* No call receives before setup_socket has run: sockfd starts at -1, and  *)
(* either the clock or the address brings the first call there.            *)
(***************************************************************************)
SocketBeforeReceive == pc = "recv" => socket # "none"

(***************************************************************************)
(* Once the sender keeps sending and the console stays where it is, every  *)
(* call returns 0 from some point on, whatever the socket went through     *)
(* before: an address that changed between setup_socket and gethostid, a   *)
(* sleep during a receive or unnoticed by the clock, a bind that failed.   *)
(* It takes a receive that times out to bring setup_socket back: if the    *)
(* socket is left such that receives fail at once, every call returns -1.  *)
(***************************************************************************)
Reconnects ==
    <>(calm /\ sending) =>
        <>[](exited \/ (pc = "idle" => ret = IF socket = "broken" THEN -1 ELSE 0))

(***************************************************************************)
(* Once the sender stays silent, every call returns -1 from some point on. *)
(***************************************************************************)
Disconnects == <>(calm /\ ~sending) => <>[](exited \/ (pc = "idle" => ret = -1))

(***************************************************************************)
(* udp_input.h on poll_udp_input: "If it fails but didn't fail for the     *)
(* last 30 tries it will return a chached copy of the last successful      *)
(* poll".  After 30 failed tries it returns -1.                            *)
(***************************************************************************)
ThirtyTries == pc = "idle" /\ age >= 30 => ret = -1
=============================================================================
