--------------------------- MODULE UdpInputProofs ---------------------------
(***************************************************************************)
(* Proofs about poll_udp_input, for every set of packets and addresses.    *)
(*                                                                         *)
(* The invariants of the runs are not inductive: nothing in them says how  *)
(* `failed` and `counter` relate to the age of cached_msg.  Counted is     *)
(* that relation, Cached and Reported tie the two to what is handed out,   *)
(* and SocketInv follows the first call up to its setup_socket.            *)
(***************************************************************************)
EXTENDS UdpInput, TLAPS

\* Three calls per failed receive, and those since the last third call.
Counted ==
    failed <= 10 => age = 3 * failed + (IF pc = "idle" THEN counter ELSE 2)

MidCall == pc # "idle" => counter = 0

Cached == failed <= 10 => cached_msg \in Messages

Reported == pc = "idle" /\ ret = 0 => failed <= 10 /\ buf = cached_msg

SocketInv ==
    socket = "none" => \/ pc = "wake"
                       \/ pc \in {"idle", "clock"} /\ elapsed # "short"

IInv == TypeOK /\ Counted /\ MidCall /\ Cached /\ Reported /\ SocketInv

-----------------------------------------------------------------------------
\* The initial state: nothing received, and more than 10 failures on record.
LEMMA InitIInv == Init => IInv
<1> SUFFICES ASSUME Init PROVE IInv
  OBVIOUS
<1> USE UdpAssumption DEF Init, FailedAtStart, ElapsedAtStart
<1>1. TypeOK
  <2>1. calm \in BOOLEAN /\ exited \in BOOLEAN BY Zenon
  <2> QED BY <2>1 DEF TypeOK, Places, MaxFailed, AgeCap
<1>2. Counted /\ MidCall /\ Cached /\ Reported /\ SocketInv
  BY DEF Counted, MidCall, Cached, Reported, SocketInv
<1> QED BY <1>1, <1>2 DEF IInv

\* Steps of the call that neither receive nor return keep the strengthening.
LEMMA InsideCall ==
    ASSUME IInv,
           \/ CheckClock \/ DontThrottle \/ CheckIP
           \/ Setup("wake", "wake_ip") \/ WakeIP
           \/ Setup("ip_socket", "ip_ip") \/ NewIP
    PROVE  IInv'
<1> USE DEF IInv, TypeOK, Counted, MidCall, Cached, Reported, SocketInv, Places, At,
            Unusable, udpVars, envVars, callVars
<1>1. CASE CheckClock   BY <1>1 DEF CheckClock, Waking
<1>2. CASE DontThrottle BY <1>2 DEF DontThrottle
<1>3. CASE CheckIP      BY <1>3 DEF CheckIP
<1>4. CASE Setup("wake", "wake_ip")
  <2>1. CASE SetupBound("wake", "wake_ip")   BY <2>1 DEF SetupBound
  <2>2. CASE SetupUnbound("wake", "wake_ip") BY <2>2 DEF SetupUnbound
  <2>3. CASE SetupExit("wake")            BY <2>3 DEF SetupExit
  <2> QED BY <1>4, <2>1, <2>2, <2>3 DEF Setup
<1>5. CASE WakeIP BY <1>5 DEF WakeIP, ReadIP
<1>6. CASE Setup("ip_socket", "ip_ip")
  <2>1. CASE SetupBound("ip_socket", "ip_ip")   BY <2>1 DEF SetupBound
  <2>2. CASE SetupUnbound("ip_socket", "ip_ip") BY <2>2 DEF SetupUnbound
  <2>3. CASE SetupExit("ip_socket")            BY <2>3 DEF SetupExit
  <2> QED BY <1>6, <2>1, <2>2, <2>3 DEF Setup
<1>7. CASE NewIP BY <1>7 DEF NewIP, ReadIP
<1> QED BY <1>1, <1>2, <1>3, <1>4, <1>5, <1>6, <1>7

\* Steps that begin or end a call keep it: this is where the calls are counted.
LEMMA CallBoundary ==
    ASSUME IInv, Report \/ Third \/ Throttle \/ Receive \/ ReceiveTimeout \/ ReceiveBad
    PROVE  IInv'
<1> USE DEF IInv, TypeOK, Counted, MidCall, Cached, Reported, SocketInv, Places, At,
            Return, Older, OneMoreFailure, FailedAfter, MaxFailed, AgeCap, Unusable,
            udpVars, envVars, callVars
<1>1. CASE Report   BY <1>1 DEF Report, ReportsOnly, Disconnected
<1>2. CASE Third    BY <1>2 DEF Third, ReportsOnly
<1>3. CASE Throttle BY <1>3 DEF Throttle, Disconnected
<1>4. CASE Receive  BY <1>4 DEF Receive, Received, CachedAfter
<1>5. CASE ReceiveTimeout BY <1>5 DEF ReceiveTimeout, ReceiveFails
<1>6. CASE ReceiveBad     BY <1>6 DEF ReceiveBad, ReceiveFails
<1> QED BY <1>1, <1>2, <1>3, <1>4, <1>5, <1>6

\* What happens around a call leaves its counters alone.
LEMMA AroundCall == ASSUME IInv, Environment \/ UNCHANGED vars PROVE IInv'
<1> USE DEF IInv, TypeOK, Counted, MidCall, Cached, Reported, SocketInv, Places, At,
            Unusable, SocketGone, udpVars, envVars, callVars
<1>1. CASE Late     BY <1>1 DEF Late
<1>2. CASE Asleep   BY <1>2 DEF Asleep
<1>3. CASE ChangeIP BY <1>3 DEF ChangeIP
<1>4. CASE StartOrStopSending BY <1>4 DEF StartOrStopSending
<1>5. CASE CalmDown BY <1>5 DEF CalmDown
<1>6. CASE UNCHANGED vars BY <1>6 DEF vars
<1> QED BY <1>1, <1>2, <1>3, <1>4, <1>5, <1>6 DEF Environment

\* The strengthened invariant is inductive.
THEOREM IInvHolds == Spec => []IInv
<1>1. IInv /\ [Next]_vars => IInv'
  BY InsideCall, CallBoundary, AroundCall DEF Next, Call, Exited
<1> QED BY InitIInv, <1>1, PTL DEF Spec

\* Every variable of poll_udp_input stays in its range.
THEOREM TypeCorrect == Spec => []TypeOK
<1>1. IInv => TypeOK BY DEF IInv
<1> QED BY IInvHolds, <1>1, PTL

\* No call hands out a packet older than 32 calls.
THEOREM StalenessBounded == Spec => []BoundedStaleness
<1>1. IInv => BoundedStaleness
  BY DEF IInv, TypeOK, Counted, Reported, BoundedStaleness
<1> QED BY IInvHolds, <1>1, PTL

\* A call that returns 0 has put a received packet into the buffer.
THEOREM HandsOutPackets == Spec => []OnlyPackets
<1>1. IInv => OnlyPackets BY DEF IInv, Cached, Reported, OnlyPackets
<1> QED BY IInvHolds, <1>1, PTL

\* setup_socket has run before the first recvfrom.
THEOREM SocketFirst == Spec => []SocketBeforeReceive
<1>1. IInv => SocketBeforeReceive BY DEF IInv, SocketInv, SocketBeforeReceive
<1> QED BY IInvHolds, <1>1, PTL
=============================================================================
