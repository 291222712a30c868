---------------------------- MODULE EndToEndProofs ----------------------------
(***************************************************************************)
(* Proofs about the way of an input from the player to the game.           *)
(*                                                                         *)
(* NoGoingBack speaks of the last stage only.  The invariant orders all of *)
(* them: what the game has seen, the packet of the copy thread, the cached *)
(* packet, the datagrams under way one after the other, and the input that *)
(* the player holds.  A stage that is passed by an answer of poll_udp_input*)
(* from its cache is covered by Answered.                                  *)
(***************************************************************************)
EXTENDS EndToEnd, SequenceTheorems, TLAPS

\* Between two calls, what a call has handed out is what it keeps.
Answered == pc = "idle" /\ ret = 0 => buf = cached_msg

\* The datagrams of q from the oldest to the newest, all of them between the
\* packet received last and the input of now.
InOrder(q, last, now) ==
    /\ \A i \in DOMAIN q : last <= q[i] /\ q[i] <= now
    /\ \A i, j \in DOMAIN q : i < j => q[i] <= q[j]

Stages ==
    /\ newest <= cached_msg /\ cached_msg <= input
    /\ cur_fakegamepad_state # None => /\ newest <= cur_fakegamepad_state
                                       /\ cur_fakegamepad_state <= cached_msg
    /\ InOrder(queue, cached_msg, input)

E2EInv == E2ETypeOK /\ Answered /\ (ordered => Stages) /\ NoGoingBack

-----------------------------------------------------------------------------
(* Sequences and numbers.                                                  *)

\* Packets are numbers, and no packet is 0.
LEMMA PacketNumbers ==
    /\ Messages \subseteq Nat /\ None = 0 /\ None \in Int /\ None \notin Messages
    /\ \A m \in Messages : m > 0
    /\ \A m \in Messages \cup {None} : m \in Int /\ m >= 0
BY EndToEndAssumption DEF None

\* The greater one of two numbers.
LEMMA MaxOfTwo ==
    ASSUME NEW a \in Int, NEW b \in Int
    PROVE  Max({a, b}) = IF a >= b THEN a ELSE b
<1>1. \E x \in {a, b} : \A y \in {a, b} : x >= y OBVIOUS
<1> QED BY <1>1 DEF Max

\* What is left of a queue without one of its elements.
LEMMA RemoveAtProperties ==
    ASSUME NEW S, NEW q \in Seq(S), NEW n \in DOMAIN q
    PROVE  /\ RemoveAt(q, n) \in Seq(S) /\ Len(RemoveAt(q, n)) = Len(q) - 1
           /\ \A i \in DOMAIN RemoveAt(q, n) :
                 RemoveAt(q, n)[i] = IF i < n THEN q[i] ELSE q[i + 1]
<1> DEFINE a == SubSeq(q, 1, n - 1)
           b == SubSeq(q, n + 1, Len(q))
<1>1. n \in 1 .. Len(q) /\ Len(q) \in Nat OBVIOUS
<1>2. /\ a \in Seq(S) /\ Len(a) = n - 1 /\ \A i \in 1 .. n - 1 : a[i] = q[i]
  <2>1. \A i \in 1 .. n - 1 : q[i] \in S BY <1>1
  <2> QED BY <1>1, <2>1, SubSeqProperties
<1>3. /\ b \in Seq(S) /\ Len(b) = Len(q) - n
      /\ \A i \in 1 .. Len(q) - n : b[i] = q[n + i]
  <2>1. \A i \in n + 1 .. Len(q) : q[i] \in S BY <1>1
  <2> QED BY <1>1, <2>1, SubSeqProperties
<1>4. RemoveAt(q, n) = a \o b BY DEF RemoveAt
<1> HIDE DEF a, b
<1>5. /\ a \o b \in Seq(S) /\ Len(a \o b) = Len(a) + Len(b)
      /\ \A i \in 1 .. Len(a) + Len(b) :
            (a \o b)[i] = IF i <= Len(a) THEN a[i] ELSE b[i - Len(a)]
  BY <1>2, <1>3, ConcatProperties
<1> SUFFICES /\ a \o b \in Seq(S) /\ Len(a \o b) = Len(q) - 1
             /\ \A i \in DOMAIN (a \o b) : (a \o b)[i] = IF i < n THEN q[i] ELSE q[i + 1]
  BY <1>4
<1>6. Len(a \o b) = Len(q) - 1 /\ DOMAIN (a \o b) = 1 .. Len(q) - 1
  <2>1. Len(a) + Len(b) = Len(q) - 1 BY <1>1, <1>2, <1>3
  <2>2. a \o b \in Seq(S) /\ Len(a \o b) = Len(q) - 1 BY <1>5, <2>1
  <2>3. DOMAIN (a \o b) = 1 .. Len(a \o b) BY <2>2, LenProperties
  <2> QED BY <2>2, <2>3
<1>7. ASSUME NEW i \in DOMAIN (a \o b)
      PROVE  (a \o b)[i] = IF i < n THEN q[i] ELSE q[i + 1]
  <2>1. CASE i < n
    <3>1. i \in 1 .. n - 1 /\ i <= Len(a) BY <1>1, <1>2, <1>6, <1>7, <2>1
    <3> QED BY <1>1, <1>2, <1>3, <1>5, <1>6, <1>7, <2>1, <3>1
  <2>2. CASE ~(i < n)
    <3>1. i - (n - 1) \in 1 .. Len(q) - n /\ ~(i <= Len(a)) /\ i - Len(a) = i - (n - 1)
      BY <1>1, <1>2, <1>6, <1>7, <2>2
    <3>2. (a \o b)[i] = b[i - (n - 1)]
      BY <1>1, <1>2, <1>3, <1>5, <1>6, <1>7, <3>1
    <3>3. b[i - (n - 1)] = q[n + (i - (n - 1))] BY <1>3, <3>1
    <3>4. n + (i - (n - 1)) = i + 1 BY <1>1, <1>6, <1>7
    <3> QED BY <2>2, <3>2, <3>3, <3>4
  <2> QED BY <2>1, <2>2
<1> QED BY <1>5, <1>6, <1>7

-----------------------------------------------------------------------------
(* poll_udp_input as a part of the composition.                            *)

\* The steps of a call and of its surroundings keep the ranges of UdpInput
\* and what a finished call has handed out.
LEMMA CallKeeps ==
    ASSUME TypeOK, Answered,
           \/ OtherStep \/ SetupSocket \/ TimeOut \/ Late \/ Asleep \/ CalmDown \/ FallSilent
           \/ \E m \in Messages : Received(m)
           \/ UNCHANGED vars
    PROVE  TypeOK' /\ Answered'
<1> USE DEF TypeOK, Answered, Places, At, Return, Older, OneMoreFailure, FailedAfter,
            MaxFailed, AgeCap, udpVars, envVars, callVars
<1>1. CASE OtherStep
  <2>1. CASE Report     BY <2>1 DEF Report, ReportsOnly, Disconnected
  <2>2. CASE Third      BY <2>2 DEF Third, ReportsOnly
  <2>3. CASE CheckClock BY <2>3 DEF CheckClock, Waking
  <2>4. CASE WakeIP BY <2>4 DEF WakeIP, ReadIP
  <2>5. CASE Throttle     BY <2>5 DEF Throttle
  <2>6. CASE DontThrottle BY <2>6 DEF DontThrottle
  <2>7. CASE CheckIP      BY <2>7 DEF CheckIP
  <2>8. CASE ReceiveBad   BY <2>8 DEF ReceiveBad, ReceiveFails
  <2> QED BY <1>1, <2>1, <2>2, <2>3, <2>4, <2>5, <2>6, <2>7, <2>8 DEF OtherStep
<1>2. CASE SetupSocket
  <2>1. CASE SetupBound("wake", "wake_ip")   BY <2>1 DEF SetupBound
  <2>2. CASE SetupUnbound("wake", "wake_ip") BY <2>2 DEF SetupUnbound
  <2>3. CASE SetupExit("wake")               BY <2>3 DEF SetupExit
  <2> QED BY <1>2, <2>1, <2>2, <2>3 DEF SetupSocket, Setup
<1>3. CASE TimeOut    BY <1>3 DEF TimeOut, ReceiveTimeout, ReceiveFails
<1>4. CASE Late       BY <1>4 DEF Late
<1>5. CASE Asleep     BY <1>5 DEF Asleep, SocketGone
<1>6. CASE CalmDown   BY <1>6 DEF CalmDown
<1>7. CASE FallSilent
  <2>1. /\ calm' = TRUE /\ sending' = FALSE
        /\ UNCHANGED <<pc, counter, failed, cached_msg, curIP, socket, elapsed, host>>
        /\ UNCHANGED <<ret, buf, age, exited>>
    BY <1>7 DEF FallSilent
  <2>2. calm' \in BOOLEAN /\ sending' \in BOOLEAN /\ exited' \in BOOLEAN BY <2>1, Zenon
  <2>3. TypeOK' BY <2>1, <2>2
  <2>4. Answered' BY <2>1
  <2> QED BY <2>3, <2>4
<1>8. CASE \E m \in Messages : Received(m) BY <1>8 DEF Received, CachedAfter
<1>9. CASE UNCHANGED vars BY <1>9 DEF vars
<1> QED BY <1>1, <1>2, <1>3, <1>4, <1>5, <1>6, <1>7, <1>8, <1>9

\* Of them only a packet changes cached_msg.
LEMMA CacheStays ==
    ASSUME \/ OtherStep \/ SetupSocket \/ TimeOut \/ Late \/ Asleep \/ CalmDown \/ FallSilent
           \/ UNCHANGED vars
    PROVE  cached_msg' = cached_msg
BY DEF OtherStep, Report, Third, CheckClock, WakeIP, ReadIP, Throttle, DontThrottle, CheckIP,
       ReceiveBad, ReceiveFails, SetupSocket, Setup, SetupBound, SetupUnbound, SetupExit,
       TimeOut, ReceiveTimeout, Late, Asleep, CalmDown, FallSilent, vars, udpVars

-----------------------------------------------------------------------------
(* The datagrams under way.                                                *)

\* What a new socket has not received yet: the later part of the queue.
LEMMA LaterPart ==
    ASSUME NEW q \in Seq(Messages), NEW n \in 1 .. Len(q) + 1,
           NEW last \in Int, NEW now \in Int
    PROVE  /\ SubSeq(q, n, Len(q)) \in Seq(Messages) /\ Len(SubSeq(q, n, Len(q))) <= Len(q)
           /\ InOrder(q, last, now) => InOrder(SubSeq(q, n, Len(q)), last, now)
<1> DEFINE s == SubSeq(q, n, Len(q))
<1>1. Len(q) \in Nat /\ n \in Nat OBVIOUS
<1>2. \A i \in n .. Len(q) : q[i] \in Messages BY <1>1
<1>3. /\ s \in Seq(Messages)
      /\ Len(s) = IF n <= Len(q) THEN Len(q) - n + 1 ELSE 0
      /\ \A i \in 1 .. Len(q) - n + 1 : s[i] = q[n + i - 1]
  BY <1>1, <1>2, SubSeqProperties
<1> HIDE DEF s
<1>4. Len(s) <= Len(q) BY <1>1, <1>3
<1>5. \A i \in DOMAIN s : /\ n + i - 1 \in DOMAIN q /\ s[i] = q[n + i - 1]
                          /\ i \in Int
  BY <1>1, <1>3
<1>6. ASSUME InOrder(q, last, now) PROVE InOrder(s, last, now)
  BY <1>1, <1>5, <1>6 DEF InOrder
<1> QED BY <1>3, <1>4, <1>6 DEF s

\* The oldest datagram is received: it is the new cached packet.
LEMMA OldestTaken ==
    ASSUME NEW q \in Seq(Messages), q # <<>>, NEW last \in Int, NEW now \in Int
    PROVE  /\ Head(q) \in Messages
           /\ Tail(q) \in Seq(Messages) /\ Len(Tail(q)) <= Len(q)
           /\ InOrder(q, last, now) => /\ last <= Head(q) /\ Head(q) <= now
                                       /\ InOrder(Tail(q), Head(q), now)
<1>1. /\ Head(q) \in Messages /\ Tail(q) \in Seq(Messages) /\ Len(Tail(q)) = Len(q) - 1
      /\ \A i \in 1 .. Len(Tail(q)) : Tail(q)[i] = q[i + 1]
  BY HeadTailProperties
<1>2. Head(q) = q[1] /\ 1 \in DOMAIN q /\ Len(q) \in Nat OBVIOUS
<1> DEFINE t == Tail(q)
<1> HIDE DEF t
<1>3. \A i \in DOMAIN t : i \in Int /\ i + 1 \in DOMAIN q /\ 1 < i + 1 /\ t[i] = q[i + 1]
  BY <1>1, <1>2 DEF t
<1>4. ASSUME InOrder(q, last, now)
      PROVE  last <= Head(q) /\ Head(q) <= now /\ InOrder(t, Head(q), now)
  BY <1>2, <1>3, <1>4 DEF InOrder
<1> QED BY <1>1, <1>2, <1>4 DEF t

\* A datagram is lost.
LEMMA OneLost ==
    ASSUME NEW q \in Seq(Messages), NEW r \in Lost(q), NEW last \in Int, NEW now \in Int
    PROVE  /\ r \in Seq(Messages) /\ Len(r) <= Len(q)
           /\ InOrder(q, last, now) => InOrder(r, last, now)
<1>1. PICK n \in DOMAIN q : r = RemoveAt(q, n) BY DEF Lost
<1>2. /\ r \in Seq(Messages) /\ Len(r) = Len(q) - 1
      /\ \A i \in DOMAIN r : r[i] = IF i < n THEN q[i] ELSE q[i + 1]
  BY <1>1, RemoveAtProperties
<1>3. Len(q) \in Nat /\ n \in Int OBVIOUS
<1>4. \A i \in DOMAIN r : i \in Int /\ i \in DOMAIN q /\ i + 1 \in DOMAIN q
  BY <1>2, <1>3
<1>5. ASSUME InOrder(q, last, now) PROVE InOrder(r, last, now)
  <2>1. \A i \in DOMAIN r : last <= r[i] /\ r[i] <= now BY <1>2, <1>4, <1>5 DEF InOrder
  <2>2. ASSUME NEW i \in DOMAIN r, NEW j \in DOMAIN r, i < j PROVE r[i] <= r[j]
    <3> DEFINE ii == IF i < n THEN i ELSE i + 1
               jj == IF j < n THEN j ELSE j + 1
    <3>1. ii \in DOMAIN q /\ jj \in DOMAIN q /\ ii < jj BY <1>3, <1>4, <2>2
    <3>2. r[i] = q[ii] /\ r[j] = q[jj] BY <1>2
    <3> HIDE DEF ii, jj
    <3> QED BY <1>5, <3>1, <3>2 DEF InOrder
  <2> QED BY <2>1, <2>2 DEF InOrder
<1> QED BY <1>2, <1>3, <1>5

\* A datagram is sent, or an earlier one comes once more.
LEMMA OneMore ==
    ASSUME NEW q \in Seq(Messages), NEW m \in Messages, Len(q) < QueueCap,
           NEW last \in Int, NEW now \in Int
    PROVE  /\ Append(q, m) \in Seq(Messages) /\ Len(Append(q, m)) <= QueueCap
           /\ InOrder(q, last, now) /\ last <= now /\ m = now
                 => InOrder(Append(q, m), last, now)
<1>1. QueueCap \in Nat /\ Len(q) \in Nat BY EndToEndAssumption
<1> DEFINE s == Append(q, m)
<1>2. s \in Seq(Messages) /\ Len(s) = Len(q) + 1 OBVIOUS
<1>3. /\ \A i \in DOMAIN s : i \in Int /\ (i \in DOMAIN q \/ i = Len(q) + 1)
      /\ \A i \in DOMAIN q : s[i] = q[i] /\ i <= Len(q)
      /\ s[Len(q) + 1] = m
  BY <1>1
<1> HIDE DEF s
<1>4. ASSUME InOrder(q, last, now), last <= now, m = now PROVE InOrder(s, last, now)
  BY <1>1, <1>3, <1>4 DEF InOrder
<1> QED BY <1>1, <1>2, <1>4 DEF s

\* The player goes on.
LEMMA NewerInput ==
    ASSUME NEW q \in Seq(Messages), NEW last \in Int, NEW now \in Int, NEW later \in Int,
           now < later, InOrder(q, last, now)
    PROVE  InOrder(q, last, later)
<1>1. \A i \in DOMAIN q : q[i] \in Messages OBVIOUS
<1>2. \A i \in DOMAIN q : q[i] \in Int BY <1>1, PacketNumbers
<1> QED BY <1>2 DEF InOrder

\* Whatever the network does to a queue, its packets remain packets.
LEMMA NetworkKeeps ==
    ASSUME NEW q \in Seq(Messages), Len(q) <= QueueCap,
           NEW r \in Lost(q) \cup Repeated(q) \cup Swapped(q)
    PROVE  r \in Seq(Messages) /\ Len(r) <= QueueCap
<1>1. QueueCap \in Nat /\ Len(q) \in Nat BY EndToEndAssumption
<1>2. CASE r \in Lost(q)
  <2>1. r \in Seq(Messages) /\ Len(r) <= Len(q) BY <1>2, OneLost
  <2> QED BY <1>1, <2>1
<1>3. CASE r \in Repeated(q)
  <2>1. Len(q) < QueueCap BY <1>1, <1>3 DEF Repeated
  <2>2. PICK i \in DOMAIN q : r = Append(q, q[i]) BY <1>1, <1>3, <2>1 DEF Repeated
  <2>3. q[i] \in Messages OBVIOUS
  <2> QED BY <2>1, <2>2, <2>3, <1>1
<1>4. CASE r \in Swapped(q)
  <2>1. PICK i \in DOMAIN q, j \in DOMAIN q : r = [q EXCEPT ![i] = q[j], ![j] = q[i]]
    BY <1>4 DEF Swapped
  <2>2. q[i] \in Messages /\ q[j] \in Messages /\ i \in 1 .. Len(q) /\ j \in 1 .. Len(q)
    OBVIOUS
  <2> DEFINE q1 == [q EXCEPT ![i] = q[j]]
  <2>3. q1 \in Seq(Messages) /\ Len(q1) = Len(q) BY <2>2, ExceptSeq
  <2>4. r = [q1 EXCEPT ![j] = q[i]] BY <2>1
  <2> HIDE DEF q1
  <2>5. r \in Seq(Messages) /\ Len(r) = Len(q1) BY <2>2, <2>3, <2>4, ExceptSeq
  <2> QED BY <2>3, <2>5
<1> QED BY <1>2, <1>3, <1>4

-----------------------------------------------------------------------------
(* The steps of the composition.                                           *)

LEMMA InitE2EInv == E2EInit => E2EInv
<1> SUFFICES ASSUME E2EInit PROVE E2EInv
  OBVIOUS
<1> USE UdpAssumption, EndToEndAssumption
    DEF E2EInit, Init, FailedAtStart, ElapsedAtStart, None
<1>1. TypeOK
  <2>1. calm \in BOOLEAN /\ exited \in BOOLEAN BY Zenon
  <2> QED BY <2>1 DEF TypeOK, Places, MaxFailed, AgeCap
<1>2. E2ETypeOK
  <2>1. queue \in Seq(Messages) /\ Len(queue) = 0 OBVIOUS
  <2>2. ordered \in BOOLEAN /\ networking_enabled \in BOOLEAN BY Zenon
  <2> QED BY <1>1, <2>1, <2>2 DEF E2ETypeOK
<1>3. Answered /\ NoGoingBack BY DEF Answered, NoGoingBack
<1>4. InOrder(queue, cached_msg, input) BY DEF InOrder
<1>5. Stages BY <1>4, PacketNumbers DEF Stages
<1> QED BY <1>2, <1>3, <1>5 DEF E2EInv

\* The player, the companion and the network move the input and the queue.
LEMMA OutsideKeeps ==
    ASSUME E2EInv, ChangeInput \/ Send \/ Network \/ SwitchNetworking
    PROVE  E2EInv'
<1> USE PacketNumbers DEF E2EInv, E2ETypeOK
<1>1. TypeOK' /\ Answered' /\ NoGoingBack'
      /\ UNCHANGED <<vars, ordered, net_pc, cur_fakegamepad_state, seen, newest>>
  <2>1. UNCHANGED <<vars, ordered, net_pc, cur_fakegamepad_state, seen, newest>>
    BY DEF ChangeInput, Send, Network, SwitchNetworking, playerVars, gameVars
  <2>2. TypeOK' /\ Answered' BY <2>1, CallKeeps
  <2>3. NoGoingBack' BY <2>1 DEF NoGoingBack
  <2> QED BY <2>1, <2>2, <2>3
<1>2. cached_msg' = cached_msg /\ pc' = pc BY <1>1 DEF vars, udpVars
<1>3. cached_msg \in Int /\ input \in Int BY DEF TypeOK, None
<1>4. CASE ChangeInput
  <2>1. /\ input' \in Messages /\ input' > input
        /\ UNCHANGED <<queue, networking_enabled>>
    BY <1>4 DEF ChangeInput
  <2>2. ASSUME ordered PROVE Stages'
    <3>2. input' \in Int BY <2>1
    <3>3. InOrder(queue, cached_msg, input) BY <2>2 DEF Stages
    <3>4. InOrder(queue, cached_msg, input')
      BY <1>3, <2>1, <3>2, <3>3, NewerInput
    <3>5. InOrder(queue, cached_msg, input)' BY <1>2, <2>1, <3>4
    <3> QED BY <1>1, <1>2, <1>3, <2>1, <2>2, <3>2, <3>5 DEF Stages
  <2> QED BY <1>1, <1>2, <2>1, <2>2
<1>5. CASE Send
  <2>1. /\ queue' = Append(queue, input) /\ Len(queue) < QueueCap
        /\ UNCHANGED <<input, networking_enabled>>
    BY <1>5 DEF Send
  <2>2. queue' \in Seq(Messages) /\ Len(queue') <= QueueCap
    BY <1>3, <2>1, OneMore
  <2>3. ASSUME ordered PROVE Stages'
    <3>1. InOrder(queue', cached_msg, input) BY <1>3, <2>1, <2>3, OneMore DEF Stages
    <3>2. InOrder(queue, cached_msg, input)' BY <1>2, <2>1, <3>1
    <3> QED BY <1>1, <1>2, <2>1, <2>3, <3>2 DEF Stages
  <2> QED BY <1>1, <1>2, <2>1, <2>2, <2>3
<1>6. CASE Network
  <2>1. /\ queue' \in Lost(queue) \cup
                      (IF ordered THEN {} ELSE Repeated(queue) \cup Swapped(queue))
        /\ UNCHANGED <<input, networking_enabled>>
    BY <1>6 DEF Network
  <2>2. queue' \in Seq(Messages) /\ Len(queue') <= QueueCap
    <3>1. queue' \in Lost(queue) \cup Repeated(queue) \cup Swapped(queue) BY <2>1
    <3> QED BY <3>1, NetworkKeeps
  <2>3. ASSUME ordered PROVE Stages'
    <3>1. queue' \in Lost(queue) BY <2>1, <2>3
    <3>2. InOrder(queue', cached_msg, input) BY <1>3, <2>3, <3>1, OneLost DEF Stages
    <3>3. InOrder(queue, cached_msg, input)' BY <1>2, <2>1, <3>2
    <3> QED BY <1>1, <1>2, <2>1, <2>3, <3>3 DEF Stages
  <2> QED BY <1>1, <1>2, <2>1, <2>2, <2>3
<1>7. CASE SwitchNetworking
  <2>1. UNCHANGED playerVars /\ networking_enabled' \in BOOLEAN
    BY <1>7 DEF SwitchNetworking
  <2>2. ASSUME ordered PROVE Stages'
    BY <1>1, <1>2, <2>1, <2>2 DEF Stages, InOrder, playerVars
  <2> QED BY <1>1, <1>2, <2>1, <2>2 DEF playerVars
<1> QED BY <1>4, <1>5, <1>6, <1>7

\* A call of net_thread, its surroundings, and a thread that only sleeps.
LEMMA PollKeeps ==
    ASSUME E2EInv, NetPoll \/ NetSleep \/ Around \/ UNCHANGED e2eVars
    PROVE  E2EInv'
<1> USE PacketNumbers DEF E2EInv, E2ETypeOK
<1>1. UNCHANGED <<input, ordered, cur_fakegamepad_state, seen, newest>>
      /\ networking_enabled' \in BOOLEAN
  BY DEF NetPoll, NetSleep, Around, e2eVars, playerVars, gameVars
<1>2. NoGoingBack' BY <1>1 DEF NoGoingBack
<1>3. cached_msg \in Int /\ input \in Int BY DEF TypeOK, None
<1>4. Len(queue) \in Nat /\ QueueCap \in Nat BY EndToEndAssumption
<1>5. CASE NetPoll /\ Take
  <2>1. PICK m \in Messages : m = Head(queue)
    <3>1. queue # <<>> BY <1>5 DEF Take
    <3>2. Head(queue) \in Messages BY <1>3, <3>1, OldestTaken
    <3> QED BY <3>2
  <2>2. queue # <<>> /\ Received(m) /\ queue' = Tail(queue) BY <1>5, <2>1 DEF Take
  <2>3. TypeOK' /\ Answered' BY <2>2, CallKeeps
  <2>4. queue' \in Seq(Messages) /\ Len(queue') <= QueueCap BY <1>3, <1>4, <2>2, OldestTaken
  <2>5. pc' = "idle" /\ net_pc' = "store" BY <1>5, <2>2 DEF NetPoll, AfterCall, Received
  <2>6. ASSUME ordered PROVE Stages'
    <3>1. cached_msg' = m BY <2>2 DEF Received, CachedAfter
    <3>2. cached_msg <= m /\ m <= input /\ InOrder(queue', m, input)
      BY <1>3, <2>1, <2>2, <2>6, OldestTaken DEF Stages
    <3>3. InOrder(queue, cached_msg, input)' BY <1>1, <3>1, <3>2
    <3>4. newest \in Int /\ cur_fakegamepad_state \in Int /\ m \in Int OBVIOUS
    <3> QED BY <1>1, <1>3, <2>6, <3>1, <3>2, <3>3, <3>4 DEF Stages
  <2> QED BY <1>1, <1>2, <2>3, <2>4, <2>5, <2>6
<1>6. CASE ~(NetPoll /\ Take)
  <2>1. \/ OtherStep \/ SetupSocket \/ TimeOut \/ Late \/ Asleep \/ CalmDown \/ FallSilent
        \/ UNCHANGED vars
    BY <1>6 DEF NetPoll, NetSleep, Around, e2eVars
  <2>2. TypeOK' /\ Answered' /\ cached_msg' = cached_msg BY <2>1, CallKeeps, CacheStays
  <2>3. PICK n \in 1 .. Len(queue) + 1 : queue' = SubSeq(queue, n, Len(queue))
    <3>1. queue = SubSeq(queue, 1, Len(queue)) OBVIOUS
    <3>2. CASE UNCHANGED queue BY <1>4, <3>1, <3>2
    <3>3. CASE SetupSocket BY <3>3 DEF SetupSocket
    <3> QED BY <1>6, <3>2, <3>3
        DEF NetPoll, TimeOut, OtherStep, NetSleep, Around, playerVars, e2eVars
  <2>4. queue' \in Seq(Messages) /\ Len(queue') <= QueueCap
    BY <1>3, <1>4, <2>3, LaterPart
  <2>5. net_pc' \in {"poll", "store"} /\ (net_pc' = "store" => pc' = "idle")
    <3>1. CASE NetPoll BY <3>1 DEF NetPoll, AfterCall
    <3>2. CASE NetSleep
      BY <3>2 DEF NetSleep, Late, At
    <3>3. CASE Around
      BY <3>3 DEF Around, Asleep, CalmDown, FallSilent
    <3>4. CASE UNCHANGED e2eVars BY <3>4 DEF e2eVars, vars
    <3> QED BY <3>1, <3>2, <3>3, <3>4
  <2>6. ASSUME ordered PROVE Stages'
    <3>1. InOrder(queue', cached_msg, input) BY <1>3, <2>3, <2>6, LaterPart DEF Stages
    <3>2. InOrder(queue, cached_msg, input)' BY <1>1, <2>2, <3>1
    <3> QED BY <1>1, <2>2, <2>6, <3>2 DEF Stages
  <2> QED BY <1>1, <1>2, <2>2, <2>4, <2>5, <2>6
<1> QED BY <1>5, <1>6

\* net_thread hands a packet over to the copy thread.
LEMMA StoreKeeps == ASSUME E2EInv, NetStore PROVE E2EInv'
<1> USE PacketNumbers DEF E2EInv, E2ETypeOK, NetStore, playerVars, gameVars
<1>1. TypeOK' BY DEF TypeOK, AgeCap, udpVars, envVars, None
<1>2. Answered' BY DEF Answered
<1>3. cur_fakegamepad_state' \in {cached_msg, None} BY DEF Stored, Answered
<1>4. cached_msg' = cached_msg /\ cached_msg \in Messages \cup {None}
  BY DEF udpVars, TypeOK, None
<1>5. NoGoingBack' BY DEF NoGoingBack
<1>6. ASSUME ordered PROVE Stages'
  BY <1>3, <1>4, <1>6 DEF Stages, InOrder
<1> QED BY <1>1, <1>2, <1>3, <1>4, <1>5, <1>6

\* The copy thread shows its packet, or none, to the game.
LEMMA PassKeeps == ASSUME E2EInv, CopyPass PROVE E2EInv'
<1> USE PacketNumbers DEF E2EInv, E2ETypeOK, CopyPass
<1>1. TypeOK' /\ Answered' /\ cached_msg' = cached_msg
  BY CallKeeps, CacheStays
<1>2. /\ UNCHANGED <<pc, playerVars, networking_enabled, net_pc, cur_fakegamepad_state>>
      /\ seen' \in {cur_fakegamepad_state, None} /\ seen' \in Messages \cup {None}
  BY DEF vars
<1>3. newest' = IF ordered THEN (IF newest >= seen' THEN newest ELSE seen') ELSE None
  <2>1. newest \in Int /\ seen' \in Int BY <1>2
  <2> QED BY <2>1, MaxOfTwo
<1>4. newest' \in Messages \cup {None} BY <1>2, <1>3
<1>5. ordered' = ordered BY <1>2 DEF playerVars
<1>6. ASSUME ordered PROVE NoGoingBack' /\ Stages'
  <2>1. newest \in Int /\ newest >= 0 /\ cur_fakegamepad_state \in Int OBVIOUS
  <2>2. newest' = IF newest >= seen' THEN newest ELSE seen' BY <1>3, <1>6
  <2>3. seen' # None => seen' = cur_fakegamepad_state /\ newest <= seen'
    BY <1>2, <1>6 DEF Stages
  <2>4. cached_msg \in Int BY DEF TypeOK, None
  <2>5. newest' <= cached_msg
    <3>1. newest <= cached_msg /\ (seen' # None => seen' <= cached_msg)
      BY <1>2, <1>6 DEF Stages
    <3> QED BY <1>2, <2>1, <2>2, <2>4, <3>1
  <2>6. cur_fakegamepad_state # None =>
           newest' <= cur_fakegamepad_state /\ cur_fakegamepad_state <= cached_msg
    <3>1. cur_fakegamepad_state # None =>
             newest <= cur_fakegamepad_state /\ cur_fakegamepad_state <= cached_msg
      BY <1>6 DEF Stages
    <3> QED BY <1>2, <2>1, <2>2, <3>1
  <2>7. NoGoingBack'
    <3>1. seen' # None => seen' = newest' BY <1>2, <2>1, <2>2, <2>3
    <3> QED BY <3>1 DEF NoGoingBack
  <2>8. Stages'
    <3>1. cached_msg <= input /\ InOrder(queue, cached_msg, input) BY <1>6 DEF Stages
    <3>2. UNCHANGED <<cached_msg, input, queue, cur_fakegamepad_state>>
      BY <1>1, <1>2 DEF playerVars
    <3>3. InOrder(queue, cached_msg, input)' BY <3>1, <3>2
    <3> QED BY <2>5, <2>6, <3>1, <3>2, <3>3 DEF Stages
  <2> QED BY <2>7, <2>8
<1>7. NoGoingBack' BY <1>5, <1>6 DEF NoGoingBack
<1> QED BY <1>1, <1>2, <1>4, <1>5, <1>6, <1>7 DEF playerVars

-----------------------------------------------------------------------------
\* The order of the stages is an invariant of the composition.
THEOREM E2EInvHolds == E2ESpec => []E2EInv
<1>1. E2EInv /\ [E2ENext]_e2eVars => E2EInv'
  BY OutsideKeeps, PollKeeps, StoreKeeps, PassKeeps DEF E2ENext
<1> QED BY InitE2EInv, <1>1, PTL DEF E2ESpec

\* Every variable on the way from the player to the game stays in its range,
\* and net_thread stores an answer only between two calls.
THEOREM E2ETypeCorrect == E2ESpec => []E2ETypeOK
<1>1. E2EInv => E2ETypeOK BY DEF E2EInv
<1> QED BY E2EInvHolds, <1>1, PTL

\* While the network keeps the order of the packets, no pass of copy_thread
\* shows a game an older input than one that it has shown, for any number of
\* packets under way, any inputs and any behaviour of poll_udp_input.
THEOREM NeverGoesBack == E2ESpec => []NoGoingBack
<1>1. E2EInv => NoGoingBack BY DEF E2EInv
<1> QED BY E2EInvHolds, <1>1, PTL
=============================================================================
