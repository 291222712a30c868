--------------------------- MODULE CompanionProofs ---------------------------
(***************************************************************************)
(* Proofs about the companions, for every set of gamepads, buttons, names  *)
(* and for every length of the queues.                                     *)
(*                                                                         *)
(* A behaviour of Companions is one of a single program, so every program  *)
(* has an inductive invariant of its own, about its own variables, and the *)
(* invariant of the whole asks for that of the program that runs.          *)
(***************************************************************************)
EXTENDS Companions, IosPadProofs, SequencesExt, SequenceTheorems

\* A step is one of the program that runs, or changes none of its variables.
LEMMA OneProgram ==
    ASSUME [CompanionNext]_allVars
    PROVE  /\ program' = program
           /\ [Next]_vars
           /\ program = "android"   => [Android!Next]_Android!vars
           /\ program = "python"    => [Py!Next]_Py!vars
           /\ program = "go"        => [Go!Next]_Go!vars
           /\ program = "joysticks" => [Joysticks!Next]_Joysticks!vars
           /\ program = "senders"   => [Senders!Next]_Senders!vars
<1> USE DEF OnlyAndroid, OnlyPy, OnlyGo, OnlyTable, OnlySenders, OnlyIos
<1>1. CASE OnlyAndroid /\ Android!Next BY <1>1
<1>2. CASE OnlyPy /\ Py!Next           BY <1>2
<1>3. CASE OnlyGo /\ Go!Next           BY <1>3
<1>4. CASE OnlyTable /\ Joysticks!Next BY <1>4
<1>5. CASE OnlySenders /\ Senders!Next BY <1>5
<1>6. CASE OnlyIos /\ Next             BY <1>6
<1>7. CASE UNCHANGED allVars
  BY <1>7 DEF allVars, androidOnly, pyOnly, goOnly, tableOnly, sendersOnly,
              Android!vars, Android!padVars, Android!fieldVars, Py!vars, Py!padVars,
              Go!vars, Go!heldVars, Joysticks!vars, Senders!vars
<1> QED BY <1>1, <1>2, <1>3, <1>4, <1>5, <1>6, <1>7 DEF CompanionNext

-----------------------------------------------------------------------------
(* The Android companion's addresses.                                      *)

\* A name that is found.
Found == Literals \cup Hosts

\* What is stored, and what the user was told last.
StoredInv ==
    /\ last_ip \in Found /\ storing \in Found \cup {None}
    /\ connected = IF storing = None THEN last_ip ELSE storing

\* Every activity started with a name that was stored.
SenderInv ==
    \A n \in DOMAIN senders : /\ senders[n].name \in Found
                              /\ senders[n].name \in Literals => senders[n].address # None

SendersInv ==
    Senders!TypeOK /\ StoredInv /\ SenderInv /\ Senders!SendsWhereTold /\ Senders!EndsOnlyForHosts

\* What a name may be found as.
LEMMA NamesFound ==
    /\ \A name \in Senders!Names :
          \A address \in Senders!GetByName(name) :
             /\ address \in {name, None}
             /\ address # None => name \in Found
             /\ name \in Literals => address # None
    /\ None \notin Senders!Names /\ Found \subseteq Senders!Names
BY CompanionsAssumption DEF Senders!SendersAssumption, Senders!Names, Senders!GetByName, Found

LEMMA InitSendersInv == Senders!Init => SendersInv
<1> SUFFICES ASSUME Senders!Init PROVE SendersInv
  OBVIOUS
<1>1. senders = <<>> /\ senders \in Seq(Senders!Sender) /\ Len(senders) = 0 BY DEF Senders!Init
<1> QED BY <1>1, CompanionsAssumption
    DEF Senders!Init, Senders!SendersAssumption, SendersInv, Senders!TypeOK, StoredInv, SenderInv,
        Senders!SendsWhereTold, Senders!EndsOnlyForHosts, Senders!Names, Found

\* All senders go with the process, and what is stored decides where the next
\* one sends to.
LEMMA ProcessEndsKeeps ==
    ASSUME SendersInv, Senders!ProcessEnds, ended' \in Hosts \cup {None, Senders!NoSocket}
    PROVE  SendersInv'
<1>1. senders' = <<>> /\ senders' \in Seq(Senders!Sender) /\ Len(senders') = 0
  BY DEF Senders!ProcessEnds
<1>2. MaxSenders \in Nat BY CompanionsAssumption DEF Senders!SendersAssumption
<1>3. Senders!TypeOK'
  BY <1>1, <1>2 DEF SendersInv, Senders!TypeOK, Senders!ProcessEnds, Senders!Names
<1>4. SenderInv' /\ Senders!SendsWhereTold' BY <1>1 DEF SenderInv, Senders!SendsWhereTold
<1>5. StoredInv' BY DEF SendersInv, StoredInv, Senders!ProcessEnds
<1> QED BY <1>3, <1>4, <1>5 DEF SendersInv, Senders!EndsOnlyForHosts

LEMMA NextSendersInv ==
    ASSUME SendersInv, [Senders!Next]_Senders!vars
    PROVE  SendersInv'
<1> USE DEF SendersInv
<1>1. /\ senders \in Seq(Senders!Sender) /\ Len(senders) \in Nat
      /\ Len(senders) <= MaxSenders /\ MaxSenders \in Nat
  <2>1. senders \in Seq(Senders!Sender) /\ Len(senders) <= MaxSenders BY DEF Senders!TypeOK
  <2> QED BY <2>1, CompanionsAssumption DEF Senders!SendersAssumption
<1>2. CASE Senders!OnCreate
  <2>1. PICK address \in Senders!GetByName(last_ip), socket \in BOOLEAN :
           senders' = Append(senders, [name |-> last_ip, address |-> address, socket |-> socket])
    BY <1>2 DEF Senders!OnCreate, Senders!Stored
  <2> DEFINE new == [name |-> last_ip, address |-> address, socket |-> socket]
  <2>2. /\ address \in {last_ip, None} /\ (last_ip \in Literals => address # None)
        /\ last_ip \in Senders!Names
    BY NamesFound DEF StoredInv
  <2>3. new \in Senders!Sender BY <2>2 DEF Senders!Sender
  <2>4. new.name = last_ip /\ new.address = address OBVIOUS
  <2> HIDE DEF new
  <2>5. /\ senders' \in Seq(Senders!Sender) /\ Len(senders') = Len(senders) + 1
        /\ senders'[Len(senders')] = new
        /\ \A n \in DOMAIN senders' : \/ n \in DOMAIN senders /\ senders'[n] = senders[n]
                                      \/ senders'[n] = new
    BY <1>1, <2>1, <2>3 DEF new
  <2>6. /\ UNCHANGED <<last_ip, storing, connected>> /\ storing = None /\ ended' = None
        /\ Len(senders) < MaxSenders
    BY <1>2 DEF Senders!OnCreate
  <2>7. Senders!TypeOK'
    BY <1>1, <2>5, <2>6 DEF Senders!TypeOK
  <2>8. SenderInv' BY <2>2, <2>4, <2>5 DEF SenderInv, StoredInv
  <2>9. Senders!SendsWhereTold' BY <2>2, <2>4, <2>5, <2>6 DEF Senders!SendsWhereTold, StoredInv
  <2>10. StoredInv' /\ Senders!EndsOnlyForHosts'
    BY <2>6 DEF StoredInv, Senders!EndsOnlyForHosts
  <2> QED BY <2>7, <2>8, <2>9, <2>10
<1>3. ASSUME NEW name \in Senders!Names, Senders!OnClick(name) PROVE SendersInv'
  <2>1. PICK address \in Senders!GetByName(name) :
           IF address = None THEN UNCHANGED <<senders, storing, connected>>
           ELSE /\ senders' = [senders EXCEPT ![Len(senders)].address = address]
                /\ storing' = name /\ connected' = name
    BY <1>3 DEF Senders!OnClick
  <2>2. storing = None /\ senders # <<>> /\ UNCHANGED <<last_ip, ended>>
    BY <1>3 DEF Senders!OnClick
  <2>3. CASE address = None
    BY <2>1, <2>2, <2>3
       DEF Senders!TypeOK, StoredInv, SenderInv, Senders!SendsWhereTold, Senders!EndsOnlyForHosts
  <2>4. CASE address # None
    <3>1. address = name /\ name \in Found BY <2>4, NamesFound
    <3>2. storing' = name /\ connected' = name BY <2>1, <2>4
    <3>3. Len(senders) \in DOMAIN senders BY <1>1, <2>2
    <3>4. /\ senders' \in Seq(Senders!Sender) /\ Len(senders') = Len(senders)
          /\ DOMAIN senders' = DOMAIN senders
          /\ \A n \in DOMAIN senders : senders'[n].name = senders[n].name
          /\ \A n \in DOMAIN senders \ {Len(senders)} : senders'[n] = senders[n]
          /\ senders'[Len(senders)].address = name
      <4> DEFINE s == senders[Len(senders)]
                 new == [s EXCEPT !.address = name]
      <4>1. s \in Senders!Sender BY <1>1, <3>3
      <4>2. new \in Senders!Sender /\ new.name = s.name /\ new.address = name
        BY <4>1 DEF Senders!Sender
      <4>3. senders' = [senders EXCEPT ![Len(senders)] = new] BY <2>1, <2>4, <3>1
      <4> HIDE DEF new
      <4> QED BY <1>1, <3>3, <4>2, <4>3
    <3>5. Senders!TypeOK' BY <1>1, <2>2, <3>2, <3>4 DEF Senders!TypeOK
    <3>6. name # None BY NamesFound
    <3>7. SenderInv' BY <3>4, <3>6 DEF SenderInv
    <3>8. Senders!SendsWhereTold' BY <3>2, <3>4 DEF Senders!SendsWhereTold
    <3>9. StoredInv' /\ Senders!EndsOnlyForHosts'
      BY <2>2, <3>1, <3>2, <3>6 DEF StoredInv, Senders!EndsOnlyForHosts
    <3> QED BY <3>5, <3>7, <3>8, <3>9
  <2> QED BY <2>3, <2>4
<1>4. CASE Senders!Commit
  BY <1>4, NamesFound DEF Senders!Commit, Senders!TypeOK, StoredInv, SenderInv,
       Senders!SendsWhereTold, Senders!EndsOnlyForHosts
<1>5. CASE Senders!Killed BY <1>5, ProcessEndsKeeps DEF Senders!Killed
<1>6. CASE Senders!SendFails
  <2>1. PICK n \in DOMAIN senders :
           \/ ~senders[n].socket /\ ended' = Senders!NoSocket
           \/ senders[n].socket /\ senders[n].address = None /\ ended' = senders[n].name
    BY <1>6 DEF Senders!SendFails
  <2>2. ended' \in Hosts \cup {None, Senders!NoSocket} BY <2>1 DEF SenderInv, Found
  <2> QED BY <1>6, <2>2, ProcessEndsKeeps DEF Senders!SendFails
<1>7. CASE UNCHANGED Senders!vars
  BY <1>7 DEF Senders!vars, Senders!TypeOK, StoredInv, SenderInv, Senders!SendsWhereTold,
              Senders!EndsOnlyForHosts
<1> QED BY <1>2, <1>3, <1>4, <1>5, <1>6, <1>7 DEF Senders!Next

-----------------------------------------------------------------------------
(* The Go companion's table of joysticks.                                  *)

\* The event that is handled last.
LastEvent == queue[Len(queue)]

\* While no two gamepads are attached at once: the one that is attached is
\* heard, or the last event on its way is about it, which therefore comes after
\* every removal and still finds it under the index that the event has.
OneGamepad ==
    ~crowded =>
        /\ Len(attachedIds) <= 1
        /\ \A n \in DOMAIN queue : queue[n].kind = "added" => queue[n].which = 0
        /\ attachedIds # <<>> =>
              IF queue = <<>> THEN refs[attachedIds[1]] > 0 ELSE LastEvent.kind = "added"

JoysticksInv == Joysticks!TypeOK /\ Len(attachedIds) <= born /\ OneGamepad

LEMMA InitJoysticksInv == Joysticks!Init => JoysticksInv
<1> SUFFICES ASSUME Joysticks!Init PROVE JoysticksInv
  OBVIOUS
<1>1. /\ attachedIds = <<>> /\ attachedIds \in Seq(Joysticks!Ids) /\ Len(attachedIds) = 0
      /\ queue = <<>> /\ queue \in Seq(Joysticks!Event) /\ DOMAIN queue = {}
  BY DEF Joysticks!Init
<1>2. Instances \in Nat BY CompanionsAssumption DEF Joysticks!JoysticksAssumption
<1>3. /\ joysticks \in [Joysticks!Ids -> Joysticks!Ids \cup {None}]
      /\ refs \in [Joysticks!Ids -> Nat] /\ born = 0 /\ crowded = FALSE
  BY DEF Joysticks!Init
<1>4. Joysticks!TypeOK
  <2>1. crowded \in BOOLEAN BY <1>3, Zenon
  <2>2. born \in 0 .. Instances BY <1>2, <1>3
  <2> QED BY <1>1, <1>3, <2>1, <2>2 DEF Joysticks!TypeOK
<1>5. OneGamepad BY <1>1 DEF OneGamepad
<1> QED BY <1>1, <1>3, <1>4, <1>5 DEF JoysticksInv

\* A list with one element less.
LEMMA OneLess ==
    ASSUME NEW S, NEW q \in Seq(S), NEW n \in DOMAIN q
    PROVE  Joysticks!RemoveAt(q, n) \in Seq(S) /\ Len(Joysticks!RemoveAt(q, n)) = Len(q) - 1
<1> DEFINE a == SubSeq(q, 1, n - 1)
           b == SubSeq(q, n + 1, Len(q))
<1>1. n \in 1 .. Len(q) /\ Len(q) \in Nat OBVIOUS
<1>2. a \in Seq(S) /\ Len(a) = n - 1
  <2>1. \A i \in 1 .. n - 1 : q[i] \in S BY <1>1
  <2> QED BY <1>1, <2>1, SubSeqProperties
<1>3. b \in Seq(S) /\ Len(b) = Len(q) - n
  <2>1. \A i \in n + 1 .. Len(q) : q[i] \in S BY <1>1
  <2> QED BY <1>1, <2>1, SubSeqProperties
<1>4. Joysticks!RemoveAt(q, n) = a \o b BY DEF Joysticks!RemoveAt
<1> HIDE DEF a, b
<1>5. a \o b \in Seq(S) /\ Len(a \o b) = Len(a) + Len(b) BY <1>2, <1>3, ConcatProperties
<1> QED BY <1>1, <1>2, <1>3, <1>4, <1>5

\* What the queue is after an event was handled.
LEMMA OneEventLess ==
    ASSUME NEW S, NEW q \in Seq(S), q # <<>>
    PROVE  /\ Tail(q) \in Seq(S) /\ Head(q) = q[1] /\ Head(q) \in S
           /\ \A n \in DOMAIN Tail(q) : n + 1 \in DOMAIN q /\ Tail(q)[n] = q[n + 1]
           /\ Tail(q) # <<>> => Tail(q)[Len(Tail(q))] = q[Len(q)]
           /\ Tail(q) = <<>> => q[Len(q)] = Head(q)
<1>1. /\ Head(q) \in S /\ Tail(q) \in Seq(S) /\ Len(Tail(q)) = Len(q) - 1
      /\ \A i \in 1 .. Len(Tail(q)) : Tail(q)[i] = q[i + 1]
  BY HeadTailProperties
<1>2. Head(q) = q[1] /\ Len(q) \in Nat \ {0} OBVIOUS
<1> DEFINE t == Tail(q)
<1>3. t = <<>> <=> Len(t) = 0 BY <1>1
<1> HIDE DEF t
<1>4. /\ t \in Seq(S) /\ Len(t) = Len(q) - 1
      /\ \A i \in 1 .. Len(t) : t[i] = q[i + 1]
  BY <1>1 DEF t
<1>5. \A n \in DOMAIN t : n + 1 \in DOMAIN q /\ t[n] = q[n + 1] BY <1>2, <1>4
<1>6. t # <<>> => t[Len(t)] = q[Len(q)] BY <1>2, <1>3, <1>4
<1>7. ASSUME t = <<>> PROVE q[Len(q)] = Head(q)
  <2>1. Len(q) = 1
    <3>1. Len(t) = 0 BY <1>7
    <3> QED BY <1>2, <1>4, <3>1
  <2> QED BY <1>2, <2>1
<1> QED BY <1>1, <1>2, <1>5, <1>6, <1>7 DEF t

\* What the queue is with a new event.
LEMMA OneEventMore ==
    ASSUME NEW S, NEW q \in Seq(S), NEW e \in S
    PROVE  /\ Append(q, e) \in Seq(S) /\ Append(q, e) # <<>>
           /\ Append(q, e)[Len(Append(q, e))] = e
           /\ \A n \in DOMAIN Append(q, e) :
                 (n \in DOMAIN q /\ Append(q, e)[n] = q[n]) \/ Append(q, e)[n] = e
<1> DEFINE r == Append(q, e)
<1>1. /\ r \in Seq(S) /\ Len(r) = Len(q) + 1 /\ r[Len(q) + 1] = e
      /\ \A n \in 1 .. Len(q) : r[n] = q[n]
  OBVIOUS
<1>2. Len(q) \in Nat OBVIOUS
<1> HIDE DEF r
<1>3. r # <<>> /\ r[Len(r)] = e BY <1>1, <1>2
<1>4. \A n \in DOMAIN r : (n \in DOMAIN q /\ r[n] = q[n]) \/ r[n] = e BY <1>1, <1>2
<1> QED BY <1>1, <1>3, <1>4 DEF r

LEMMA NextJoysticksInv ==
    ASSUME JoysticksInv, [Joysticks!Next]_Joysticks!vars
    PROVE  JoysticksInv'
<1> USE DEF JoysticksInv, Joysticks!TypeOK
<1>1. /\ attachedIds \in Seq(Joysticks!Ids) /\ Len(attachedIds) \in Nat
      /\ queue \in Seq(Joysticks!Event)
      /\ Instances \in Nat /\ None \notin Nat /\ born \in Nat
  BY CompanionsAssumption DEF Joysticks!JoysticksAssumption
<1>2. attachedIds = <<>> <=> Len(attachedIds) = 0 BY <1>1
<1>3. CASE Joysticks!Attach
  <2> DEFINE e == [kind |-> "added", which |-> Len(attachedIds)]
  <2>1. /\ born < Instances /\ born' = born + 1
        /\ attachedIds' = Append(attachedIds, born) /\ queue' = Append(queue, e)
        /\ crowded' = (crowded \/ attachedIds # <<>>)
        /\ UNCHANGED <<joysticks, refs>>
    BY <1>3 DEF Joysticks!Attach
  <2>2. born \in Joysticks!Ids /\ e \in Joysticks!Event
    BY <1>1, <2>1 DEF Joysticks!Ids, Joysticks!Event
  <2>3. e.kind = "added" /\ e.which = Len(attachedIds) OBVIOUS
  <2> HIDE DEF e
  <2>4. attachedIds' \in Seq(Joysticks!Ids) /\ Len(attachedIds') = Len(attachedIds) + 1
    BY <1>1, <2>1, <2>2
  <2>5. /\ queue' \in Seq(Joysticks!Event) /\ queue' # <<>> /\ queue'[Len(queue')] = e
        /\ \A n \in DOMAIN queue' : (n \in DOMAIN queue /\ queue'[n] = queue[n]) \/ queue'[n] = e
    BY <1>1, <2>1, <2>2, OneEventMore
  <2>6. crowded' \in BOOLEAN BY <2>1, Zenon
  <2>7. ASSUME ~crowded' PROVE OneGamepad'
    <3>1. ~crowded /\ Len(attachedIds) = 0 BY <1>2, <2>1, <2>7
    <3>2. \A n \in DOMAIN queue' : queue'[n].kind = "added" => queue'[n].which = 0
      BY <2>3, <2>5, <3>1 DEF OneGamepad
    <3> QED BY <2>3, <2>4, <2>5, <3>1, <3>2 DEF OneGamepad, LastEvent
  <2>8. OneGamepad' BY <2>7 DEF OneGamepad
  <2> QED BY <1>1, <2>1, <2>4, <2>5, <2>6, <2>8
<1>4. ASSUME NEW i \in 1 .. Instances, Joysticks!Detach(i) PROVE JoysticksInv'
  <2> DEFINE e == [kind |-> "removed", which |-> attachedIds[i]]
  <2>1. /\ i \in DOMAIN attachedIds /\ attachedIds' = Joysticks!RemoveAt(attachedIds, i)
        /\ queue' = Append(queue, e)
        /\ UNCHANGED <<born, crowded, joysticks, refs>>
    BY <1>4 DEF Joysticks!Detach
  <2>2. attachedIds' \in Seq(Joysticks!Ids) /\ Len(attachedIds') = Len(attachedIds) - 1
    BY <1>1, <2>1, OneLess
  <2>3. e \in Joysticks!Event BY <1>1, <2>1 DEF Joysticks!Event
  <2>4. e.kind = "removed" OBVIOUS
  <2> HIDE DEF e
  <2>5. /\ queue' \in Seq(Joysticks!Event)
        /\ \A n \in DOMAIN queue' : (n \in DOMAIN queue /\ queue'[n] = queue[n]) \/ queue'[n] = e
    BY <1>1, <2>1, <2>3, OneEventMore
  <2>6. Len(attachedIds) > 0 BY <1>1, <2>1
  <2>7. OneGamepad'
    <3> SUFFICES ASSUME ~crowded PROVE OneGamepad'
      BY <2>1 DEF OneGamepad
    <3>1. Len(attachedIds') = 0 BY <1>1, <2>2, <2>6 DEF OneGamepad
    <3>2. attachedIds' = <<>> BY <2>2, <3>1
    <3> QED BY <2>4, <2>5, <3>1, <3>2 DEF OneGamepad
  <2> QED BY <1>1, <2>1, <2>2, <2>5, <2>7
<1>5. CASE Joysticks!JoyDeviceAdded
  <2> DEFINE e == Head(queue)
  <2>1. /\ queue # <<>> /\ e.kind = "added" /\ queue' = Tail(queue)
        /\ joysticks' = [joysticks EXCEPT ![e.which] = Joysticks!Opened(e.which)]
        /\ refs' = [i \in Joysticks!Ids |-> IF i = Joysticks!Opened(e.which)
                                            THEN refs[i] + 1 ELSE refs[i]]
        /\ UNCHANGED <<attachedIds, born, crowded>>
    BY <1>5 DEF Joysticks!JoyDeviceAdded
  <2>2. /\ queue' \in Seq(Joysticks!Event) /\ e = queue[1] /\ e \in Joysticks!Event
        /\ \A n \in DOMAIN queue' : n + 1 \in DOMAIN queue /\ queue'[n] = queue[n + 1]
        /\ queue' # <<>> => queue'[Len(queue')] = queue[Len(queue)]
    BY <1>1, <2>1, OneEventLess
  <2>3. 1 \in DOMAIN queue BY <1>1, <2>1
  <2> HIDE DEF e
  <2>4. e.which \in Joysticks!Ids BY <2>2 DEF Joysticks!Event
  <2>5. e.which \in Nat BY <2>4 DEF Joysticks!Ids
  <2>6. Joysticks!Opened(e.which) \in Joysticks!Ids \cup {None}
    BY <1>1, <2>5 DEF Joysticks!Opened
  <2>7. joysticks' \in [Joysticks!Ids -> Joysticks!Ids \cup {None}]
        /\ refs' \in [Joysticks!Ids -> Nat]
    BY <2>1, <2>4, <2>6
  <2>8. ASSUME ~crowded, attachedIds # <<>>, queue' = <<>> PROVE refs'[attachedIds[1]] > 0
    <3>1. e.which = 0 BY <2>1, <2>2, <2>3, <2>8 DEF OneGamepad
    <3>2. Len(attachedIds) > 0 BY <1>1, <1>2, <2>8
    <3>3. attachedIds[1] \in Joysticks!Ids BY <1>1, <3>2
    <3>4. Joysticks!Opened(0) = attachedIds[1] BY <3>2 DEF Joysticks!Opened
    <3> QED BY <2>1, <3>1, <3>3, <3>4
  <2>9. OneGamepad'
    <3> SUFFICES ASSUME ~crowded PROVE OneGamepad'
      BY <2>1 DEF OneGamepad
    <3>1. \A n \in DOMAIN queue' : queue'[n].kind = "added" => queue'[n].which = 0
      BY <2>2 DEF OneGamepad
    <3>2. attachedIds # <<>> /\ queue' # <<>> => LastEvent'.kind = "added"
      BY <2>1, <2>2 DEF OneGamepad, LastEvent
    <3> QED BY <2>1, <2>8, <3>1, <3>2 DEF OneGamepad
  <2> QED BY <1>1, <2>1, <2>2, <2>7, <2>9
<1>6. CASE Joysticks!JoyDeviceRemoved
  <2> DEFINE e == Head(queue)
  <2>1. /\ queue # <<>> /\ e.kind = "removed" /\ queue' = Tail(queue)
        /\ refs' = [i \in Joysticks!Ids |-> IF i = joysticks[e.which] /\ refs[i] > 0
                                            THEN refs[i] - 1 ELSE refs[i]]
        /\ UNCHANGED <<attachedIds, born, crowded, joysticks>>
    BY <1>6 DEF Joysticks!JoyDeviceRemoved
  <2>2. /\ queue' \in Seq(Joysticks!Event)
        /\ \A n \in DOMAIN queue' : n + 1 \in DOMAIN queue /\ queue'[n] = queue[n + 1]
        /\ queue' # <<>> => queue'[Len(queue')] = queue[Len(queue)]
        /\ queue' = <<>> => queue[Len(queue)] = e
    BY <1>1, <2>1, OneEventLess
  <2> HIDE DEF e
  <2>3. refs' \in [Joysticks!Ids -> Nat] BY <2>1
  <2>4. OneGamepad'
    <3> SUFFICES ASSUME ~crowded PROVE OneGamepad'
      BY <2>1 DEF OneGamepad
    <3>1. \A n \in DOMAIN queue' : queue'[n].kind = "added" => queue'[n].which = 0
      BY <2>2 DEF OneGamepad
    <3>2. attachedIds # <<>> => queue' # <<>> /\ LastEvent'.kind = "added"
      BY <2>1, <2>2 DEF OneGamepad, LastEvent
    <3> QED BY <2>1, <3>1, <3>2 DEF OneGamepad
  <2> QED BY <1>1, <2>1, <2>2, <2>3, <2>4
<1>7. CASE UNCHANGED Joysticks!vars BY <1>7 DEF Joysticks!vars, OneGamepad, LastEvent
<1> QED BY <1>3, <1>4, <1>5, <1>6, <1>7 DEF Joysticks!Next

\* The strengthened invariant says what the property says.
LEMMA JoysticksHeard == JoysticksInv => Joysticks!AttachedIsHeard
<1> SUFFICES ASSUME JoysticksInv, ~crowded, queue = <<>>,
                    NEW i \in Joysticks!ToSet(attachedIds)
             PROVE  refs[i] > 0
  BY DEF Joysticks!AttachedIsHeard
<1>1. attachedIds \in Seq(Joysticks!Ids) /\ Len(attachedIds) <= 1
  BY DEF JoysticksInv, Joysticks!TypeOK, OneGamepad
<1>2. PICK n \in DOMAIN attachedIds : i = attachedIds[n] BY <1>1 DEF Joysticks!ToSet
<1>3. n = 1 /\ attachedIds # <<>> BY <1>1, <1>2
<1> QED BY <1>2, <1>3 DEF JoysticksInv, OneGamepad

-----------------------------------------------------------------------------
(* Lists of events and of assignments.                                     *)
(*                                                                         *)
(* What a list comes to in the end is decided by the last of its elements  *)
(* that are about the matter: after it, nothing else counts.               *)

\* Those elements of q that are about something and that no sure one follows
\* are good.  Usually all that are about it are sure.
LastGood(q, about, sure, good) ==
    \A n \in DOMAIN q :
        q[n] \in about /\ (\A m \in DOMAIN q : n < m => q[m] \notin sure) => q[n] \in good

Without(q, some) == ToSet(q) \cap some = {}

LEMMA ToSetOf ==
    /\ ToSet(<<>>) = {}
    /\ \A x : ToSet(<<x>>) = {x}
    /\ \A x, y : ToSet(<<x, y>>) = {x, y}
    /\ \A S : \A q \in Seq(S) : \A n \in DOMAIN q : q[n] \in ToSet(q) /\ q[n] \in S
    /\ \A S : \A q \in Seq(S) : ToSet(q) \subseteq S
BY DEF ToSet

LEMMA ShortLists ==
    ASSUME NEW S, NEW x \in S, NEW y \in S
    PROVE  <<x>> \in Seq(S) /\ <<x, y>> \in Seq(S)
<1>1. <<x>> \in Seq(S) OBVIOUS
<1>2. <<x, y>> \in Seq(S) OBVIOUS
<1> QED BY <1>1, <1>2

\* The elements of a list with more at its end.
LEMMA ConcatElements ==
    ASSUME NEW S, NEW p \in Seq(S), NEW q \in Seq(S)
    PROVE  /\ p \o q \in Seq(S) /\ ToSet(p \o q) = ToSet(p) \cup ToSet(q)
           /\ Len(p \o q) = Len(p) + Len(q) /\ Len(p) \in Nat /\ Len(q) \in Nat
           /\ \A n \in DOMAIN p : n \in DOMAIN (p \o q) /\ n <= Len(p) /\ (p \o q)[n] = p[n]
           /\ \A n \in DOMAIN q : n + Len(p) \in DOMAIN (p \o q) /\ (p \o q)[n + Len(p)] = q[n]
           /\ \A n \in DOMAIN (p \o q) : n \in DOMAIN p \/ n - Len(p) \in DOMAIN q
<1> DEFINE r == p \o q
<1>1. /\ r \in Seq(S) /\ Len(r) = Len(p) + Len(q)
      /\ \A n \in 1 .. Len(p) + Len(q) : r[n] = IF n <= Len(p) THEN p[n] ELSE q[n - Len(p)]
  BY ConcatProperties
<1>2. Len(p) \in Nat /\ Len(q) \in Nat OBVIOUS
<1> HIDE DEF r
<1>3. \A n \in DOMAIN p : n \in DOMAIN r /\ n <= Len(p) /\ r[n] = p[n] BY <1>1, <1>2
<1>4. \A n \in DOMAIN q : n + Len(p) \in DOMAIN r /\ r[n + Len(p)] = q[n]
  <2> SUFFICES ASSUME NEW n \in DOMAIN q
               PROVE  n + Len(p) \in DOMAIN r /\ r[n + Len(p)] = q[n]
    OBVIOUS
  <2>1. n \in 1 .. Len(q) /\ n + Len(p) \in 1 .. Len(p) + Len(q) /\ ~(n + Len(p) <= Len(p))
        /\ n + Len(p) - Len(p) = n
    BY <1>2
  <2> QED BY <1>1, <1>2, <2>1
<1>5. \A n \in DOMAIN r : n \in DOMAIN p \/ n - Len(p) \in DOMAIN q BY <1>1, <1>2
<1>6. \A n \in DOMAIN r : \/ n \in DOMAIN p /\ r[n] = p[n]
                          \/ n - Len(p) \in DOMAIN q /\ r[n] = q[n - Len(p)]
  BY <1>1, <1>2
<1>7. ToSet(r) = ToSet(p) \cup ToSet(q) BY <1>3, <1>4, <1>6 DEF ToSet
<1> QED BY <1>1, <1>2, <1>3, <1>4, <1>5, <1>7 DEF r

\* The same for two lists that come in either order.
LEMMA EitherOrder ==
    ASSUME NEW S, NEW p \in Seq(S), NEW q \in Seq(S)
    PROVE  /\ p \o q \in Seq(S) /\ ToSet(p \o q) = ToSet(p) \cup ToSet(q)
           /\ q \o p \in Seq(S) /\ ToSet(q \o p) = ToSet(p) \cup ToSet(q)
<1>1. p \o q \in Seq(S) /\ ToSet(p \o q) = ToSet(p) \cup ToSet(q) BY ConcatElements
<1>2. q \o p \in Seq(S) /\ ToSet(q \o p) = ToSet(q) \cup ToSet(p) BY ConcatElements
<1> QED BY <1>1, <1>2

\* A list that has an element, or none.
LEMMA OneOrNone ==
    ASSUME NEW S, NEW x, NEW q, q = <<>> \/ (x \in S /\ q = <<x>>)
    PROVE  q \in Seq(S) /\ ToSet(q) = IF q = <<>> THEN {} ELSE {x}
<1>1. CASE q = <<>> BY <1>1, ToSetOf
<1>2. CASE x \in S /\ q = <<x>>
  <2>1. q \in Seq(S) BY <1>2, ShortLists
  <2>2. ToSet(q) = {x} BY <1>2, ToSetOf
  <2>3. q # <<>> BY <1>2
  <2> QED BY <2>1, <2>2, <2>3
<1> QED BY <1>1, <1>2

\* More at the end of a list: either it is sure, or what was good still is.
LEMMA LastGoodConcat ==
    ASSUME NEW S, NEW p \in Seq(S), NEW q \in Seq(S), NEW about, NEW sure, NEW good,
           LastGood(q, about, sure, good),
           Without(q, sure) => LastGood(p, about, sure, good)
    PROVE  LastGood(p \o q, about, sure, good)
<1> DEFINE r == p \o q
<1>1. /\ Len(p) \in Nat
      /\ \A n \in DOMAIN p : n \in DOMAIN r /\ n <= Len(p) /\ r[n] = p[n]
      /\ \A n \in DOMAIN q : n + Len(p) \in DOMAIN r /\ r[n + Len(p)] = q[n]
      /\ \A n \in DOMAIN r : n \in DOMAIN p \/ n - Len(p) \in DOMAIN q
  BY ConcatElements
<1>2. (\A n \in DOMAIN p : n \in Int) /\ (\A n \in DOMAIN q : n \in Int /\ 0 < n)
      /\ (\A n \in DOMAIN r : n \in Int)
  BY ConcatElements
<1> HIDE DEF r
<1> SUFFICES ASSUME NEW n \in DOMAIN r, r[n] \in about,
                    \A m \in DOMAIN r : n < m => r[m] \notin sure
             PROVE  r[n] \in good
  BY DEF LastGood, r
<1>3. CASE n \in DOMAIN p
  <2>1. \A m \in DOMAIN q : q[m] \notin sure
    <3> SUFFICES ASSUME NEW m \in DOMAIN q PROVE q[m] \notin sure
      OBVIOUS
    <3>1. m + Len(p) \in DOMAIN r /\ r[m + Len(p)] = q[m] /\ n < m + Len(p)
      BY <1>1, <1>2, <1>3
    <3> QED BY <3>1
  <2>2. Without(q, sure) BY <2>1 DEF Without, ToSet
  <2>3. \A m \in DOMAIN p : n < m => p[m] \notin sure BY <1>1
  <2> QED BY <1>1, <1>3, <2>2, <2>3 DEF LastGood
<1>4. CASE n - Len(p) \in DOMAIN q
  <2> DEFINE j == n - Len(p)
  <2>1. r[n] = q[j]
    <3>1. j + Len(p) = n BY <1>1, <1>2
    <3>2. r[j + Len(p)] = q[j] BY <1>1, <1>4
    <3> QED BY <3>1, <3>2
  <2>2. ASSUME NEW m \in DOMAIN q, j < m PROVE q[m] \notin sure
    <3>1. m + Len(p) \in DOMAIN r /\ r[m + Len(p)] = q[m] BY <1>1
    <3>2. n < m + Len(p) BY <1>1, <1>2, <2>2
    <3> QED BY <3>1, <3>2
  <2> QED BY <1>4, <2>1, <2>2 DEF LastGood
<1> QED BY <1>1, <1>3, <1>4

\* Less at its head: the rest is as it was, and if nothing sure remains, the
\* head was the one that counts.
LEMMA LastGoodTail ==
    ASSUME NEW S, NEW q \in Seq(S), q # <<>>, NEW about, NEW sure, NEW good,
           LastGood(q, about, sure, good)
    PROVE  /\ LastGood(Tail(q), about, sure, good)
           /\ Without(Tail(q), sure) /\ Head(q) \in about => Head(q) \in good
<1>1. /\ Tail(q) \in Seq(S) /\ Len(Tail(q)) = Len(q) - 1
      /\ \A i \in 1 .. Len(Tail(q)) : Tail(q)[i] = q[i + 1]
  BY HeadTailProperties
<1>2. Head(q) = q[1] /\ Len(q) \in Nat /\ 1 \in DOMAIN q OBVIOUS
<1> DEFINE t == Tail(q)
<1> HIDE DEF t
<1>3. /\ \A n \in DOMAIN t : n \in Int /\ 0 < n /\ n + 1 \in DOMAIN q /\ t[n] = q[n + 1]
      /\ \A n \in DOMAIN q : n \in Int /\ (n = 1 \/ n - 1 \in DOMAIN t)
  BY <1>1, <1>2 DEF t
<1>4. \A n \in DOMAIN q : n # 1 => n - 1 \in DOMAIN t /\ q[n] = t[n - 1]
  <2> SUFFICES ASSUME NEW n \in DOMAIN q, n # 1 PROVE n - 1 \in DOMAIN t /\ q[n] = t[n - 1]
    OBVIOUS
  <2>1. n - 1 \in DOMAIN t /\ (n - 1) + 1 = n BY <1>3
  <2>2. t[n - 1] = q[(n - 1) + 1] BY <1>3, <2>1
  <2> QED BY <2>1, <2>2
<1>5. LastGood(t, about, sure, good)
  <2> SUFFICES ASSUME NEW n \in DOMAIN t, t[n] \in about,
                      \A m \in DOMAIN t : n < m => t[m] \notin sure
               PROVE  t[n] \in good
    BY DEF LastGood
  <2>1. ASSUME NEW m \in DOMAIN q, n + 1 < m PROVE q[m] \notin sure
    <3>1. m # 1 /\ n < m - 1 BY <1>3, <2>1
    <3> QED BY <1>4, <3>1
  <2> QED BY <1>3, <2>1 DEF LastGood
<1>6. ASSUME Without(t, sure), Head(q) \in about PROVE Head(q) \in good
  <2>1. \A m \in DOMAIN t : t[m] \notin sure BY <1>6 DEF Without, ToSet
  <2>2. \A m \in DOMAIN q : 1 < m => q[m] \notin sure BY <1>4, <2>1
  <2> QED BY <1>2, <1>6, <2>2 DEF LastGood
<1> QED BY <1>5, <1>6 DEF t

\* The elements of what remains.
LEMMA TailElements ==
    ASSUME NEW S, NEW q \in Seq(S), q # <<>>
    PROVE  Tail(q) \in Seq(S) /\ Head(q) \in S /\ ToSet(q) = {Head(q)} \cup ToSet(Tail(q))
<1>1. /\ Head(q) \in S /\ Tail(q) \in Seq(S) /\ Len(Tail(q)) = Len(q) - 1
      /\ \A i \in 1 .. Len(Tail(q)) : Tail(q)[i] = q[i + 1]
  BY HeadTailProperties
<1>2. Head(q) = q[1] /\ Len(q) \in Nat /\ 1 \in DOMAIN q OBVIOUS
<1> DEFINE t == Tail(q)
<1> HIDE DEF t
<1>3. \A n \in DOMAIN t : n + 1 \in DOMAIN q /\ t[n] = q[n + 1]
  BY <1>1, <1>2 DEF t
<1>4. ASSUME NEW n \in DOMAIN q, n # 1 PROVE n - 1 \in DOMAIN t /\ q[n] = t[n - 1]
  <2>1. n - 1 \in DOMAIN t /\ (n - 1) + 1 = n BY <1>1, <1>2, <1>4 DEF t
  <2>2. t[n - 1] = q[(n - 1) + 1] BY <1>3, <2>1
  <2> QED BY <2>1, <2>2
<1>5. ToSet(q) = {Head(q)} \cup ToSet(t)
  <2>1. ToSet(t) \subseteq ToSet(q) BY <1>3 DEF ToSet
  <2>2. ToSet(q) \subseteq {Head(q)} \cup ToSet(t) BY <1>2, <1>4 DEF ToSet
  <2> QED BY <1>2, <2>1, <2>2 DEF ToSet
<1> QED BY <1>1, <1>5 DEF t

\* One element more.
LEMMA LastGoodAppend ==
    ASSUME NEW S, NEW q \in Seq(S), NEW e \in S, NEW about, NEW sure, NEW good,
           e \in about => e \in good,
           e \notin sure => LastGood(q, about, sure, good)
    PROVE  LastGood(Append(q, e), about, sure, good)
<1>1. <<e>> \in Seq(S) /\ Append(q, e) = q \o <<e>> OBVIOUS
<1>2. LastGood(<<e>>, about, sure, good) BY DEF LastGood
<1>3. Without(<<e>>, sure) => e \notin sure BY ToSetOf DEF Without
<1>4. LastGood(q \o <<e>>, about, sure, good) BY <1>1, <1>2, <1>3, LastGoodConcat
<1> QED BY <1>1, <1>4

LEMMA AppendElements ==
    ASSUME NEW S, NEW q \in Seq(S), NEW e \in S
    PROVE  Append(q, e) \in Seq(S) /\ ToSet(Append(q, e)) = ToSet(q) \cup {e}
<1>1. <<e>> \in Seq(S) /\ Append(q, e) = q \o <<e>> OBVIOUS
<1>2. q \o <<e>> \in Seq(S) /\ ToSet(q \o <<e>>) = ToSet(q) \cup ToSet(<<e>>)
  <2> DEFINE p == <<e>>
  <2>1. p \in Seq(S) BY <1>1
  <2> HIDE DEF p
  <2>2. q \o p \in Seq(S) /\ ToSet(q \o p) = ToSet(q) \cup ToSet(p)
    BY <2>1, ConcatElements
  <2> QED BY <2>2 DEF p
<1>3. ToSet(<<e>>) = {e} BY ToSetOf
<1> QED BY <1>1, <1>2, <1>3

-----------------------------------------------------------------------------
(* The Go companion's packets.                                             *)

\* The events about a button, about the trigger and about the hat, and what
\* the last one of them has to say when `held` is held.
ButtonEvents(b)     == {e \in Go!Event : e.kind = "button" /\ e.button = b}
ButtonSays(b, held) == {e \in ButtonEvents(b) : e.on <=> b \in held}
TriggerEvents       == {e \in Go!Event : e.kind = "trigger"}
TriggerSays(held)   == {e \in TriggerEvents : e.on <=> held}
HatEvents           == {e \in Go!Event : e.kind = "hat"}
HatSays(held)       == {e \in HatEvents : e.at = held}

\* The last event about something tells it, and so do the keys without one.
GoFollows ==
    /\ \A b \in Plain :
          /\ LastGood(queue, ButtonEvents(b), ButtonEvents(b), ButtonSays(b, down))
          /\ Without(queue, ButtonEvents(b)) => (b \in keys <=> b \in down)
    /\ LastGood(queue, TriggerEvents, TriggerEvents, TriggerSays(trigger))
    /\ Without(queue, TriggerEvents) => ("ZL" \in keys <=> trigger)
    /\ LastGood(queue, HatEvents, HatEvents, HatSays(hat))
    /\ Without(queue, HatEvents) => keys \cap Go!Directions = Go!HatKeys(hat)

GoInv == Go!TypeOK /\ GoFollows /\ (~offering => sending = keys)

\* Of a hat the switch takes one direction that it reports.
LEMMA HatKeysOfHat ==
    ASSUME NEW h \in Go!Hats
    PROVE  /\ Go!HatKeys(h) \subseteq h /\ Go!HatKeys(h) \subseteq Go!Directions
           /\ h # {} => \E d \in Go!Directions : Go!HatKeys(h) = {d}
<1>1. h \subseteq Go!Directions BY DEF Go!Hats
<1>2. CASE h \cap {"up", "right", "down"} # {} BY <1>1, <1>2 DEF Go!HatKeys, Go!Directions
<1>3. CASE h \cap {"up", "right", "down"} = {}
  <2>1. h = {} \/ h = {"left"} BY <1>1, <1>3 DEF Go!Directions
  <2> QED BY <2>1, <1>3 DEF Go!HatKeys, Go!Directions
<1> QED BY <1>2, <1>3

LEMMA InitGoInv == Go!Init => GoInv
<1> SUFFICES ASSUME Go!Init PROVE GoInv
  OBVIOUS
<1>1. queue = <<>> /\ queue \in Seq(Go!Event) /\ DOMAIN queue = {} /\ keys = {} /\ hat = {}
      /\ trigger = FALSE /\ down = {} /\ sending = {}
  BY DEF Go!Init
<1>2. Go!TypeOK
  <2>1. hat \in Go!Hats BY <1>1 DEF Go!Hats
  <2>2. /\ trigger \in BOOLEAN /\ calm \in BOOLEAN /\ offering \in BOOLEAN /\ running \in BOOLEAN
        /\ looping \in BOOLEAN /\ exited \in BOOLEAN
    BY Zenon DEF Go!Init
  <2> QED BY <1>1, <2>1, <2>2 DEF Go!TypeOK
<1>3. GoFollows BY <1>1 DEF GoFollows, LastGood, Go!HatKeys
<1> QED BY <1>1, <1>2, <1>3 DEF GoInv

\* Something happens, and SDL has an event that tells it.
LEMMA GoEmits ==
    ASSUME GoInv, NEW e \in Go!Event, Go!Emit(e),
           down' \subseteq Plain, trigger' \in BOOLEAN, hat' \in Go!Hats,
           \A b \in Plain : IF e \in ButtonEvents(b) THEN e \in ButtonSays(b, down')
                            ELSE b \in down' <=> b \in down,
           IF e \in TriggerEvents THEN e \in TriggerSays(trigger') ELSE trigger' = trigger,
           IF e \in HatEvents THEN e \in HatSays(hat') ELSE hat' = hat
    PROVE  GoInv'
<1>1. queue \in Seq(Go!Event) /\ queue' = Append(queue, e)
      /\ UNCHANGED <<calm, keys, offering, running, looping, sending, exited>>
  BY DEF Go!Emit, GoInv, Go!TypeOK
<1>2. queue' \in Seq(Go!Event) /\ ToSet(queue') = ToSet(queue) \cup {e}
  BY <1>1, AppendElements
<1>3. Go!TypeOK' BY <1>1, <1>2 DEF GoInv, Go!TypeOK
<1>4. ASSUME NEW b \in Plain
      PROVE  /\ LastGood(queue', ButtonEvents(b), ButtonEvents(b), ButtonSays(b, down'))
             /\ Without(queue', ButtonEvents(b)) => (b \in keys' <=> b \in down')
  <2>1. e \notin ButtonEvents(b) => ButtonSays(b, down') = ButtonSays(b, down)
    BY DEF ButtonSays
  <2>2. LastGood(queue, ButtonEvents(b), ButtonEvents(b), ButtonSays(b, down))
    BY DEF GoInv, GoFollows
  <2>3. LastGood(queue', ButtonEvents(b), ButtonEvents(b), ButtonSays(b, down'))
    BY <1>1, <2>1, <2>2, LastGoodAppend
  <2> QED BY <1>1, <1>2, <2>3 DEF GoInv, GoFollows, Without
<1>5. /\ LastGood(queue', TriggerEvents, TriggerEvents, TriggerSays(trigger'))
      /\ Without(queue', TriggerEvents) => ("ZL" \in keys' <=> trigger')
  <2>1. LastGood(queue, TriggerEvents, TriggerEvents, TriggerSays(trigger))
    BY DEF GoInv, GoFollows
  <2>2. e \notin TriggerEvents =>
           LastGood(queue, TriggerEvents, TriggerEvents, TriggerSays(trigger'))
    BY <2>1
  <2>3. LastGood(queue', TriggerEvents, TriggerEvents, TriggerSays(trigger'))
    BY <1>1, <2>2, LastGoodAppend
  <2> QED BY <1>1, <1>2, <2>3 DEF GoInv, GoFollows, Without
<1>6. /\ LastGood(queue', HatEvents, HatEvents, HatSays(hat'))
      /\ Without(queue', HatEvents) => keys' \cap Go!Directions = Go!HatKeys(hat')
  <2>1. LastGood(queue, HatEvents, HatEvents, HatSays(hat))
    BY DEF GoInv, GoFollows
  <2>2. e \notin HatEvents => LastGood(queue, HatEvents, HatEvents, HatSays(hat'))
    BY <2>1
  <2>3. LastGood(queue', HatEvents, HatEvents, HatSays(hat'))
    BY <1>1, <2>2, LastGoodAppend
  <2> QED BY <1>1, <1>2, <2>3 DEF GoInv, GoFollows, Without
<1>7. GoFollows' BY <1>4, <1>5, <1>6 DEF GoFollows
<1> QED BY <1>1, <1>3, <1>7 DEF GoInv

\* run() handles an event: what it is about is told now.
LEMMA GoHandles == ASSUME GoInv, Go!HandleEvent PROVE GoInv'
<1> DEFINE e == Head(queue)
<1>1. /\ queue # <<>> /\ queue' = Tail(queue) /\ keys' = Go!Handled(e)
      /\ running' = (running /\ e.kind # "quit") /\ offering' = TRUE
      /\ UNCHANGED <<down, hat, trigger, calm, looping, sending, exited>>
  BY DEF Go!HandleEvent, Go!heldVars
<1>2. queue \in Seq(Go!Event) /\ keys \subseteq Go!Keys BY DEF GoInv, Go!TypeOK
<1>3. queue' \in Seq(Go!Event) /\ e \in Go!Event /\ ToSet(queue) = {e} \cup ToSet(queue')
  BY <1>1, <1>2, TailElements
<1> HIDE DEF e
<1>4. /\ \A b \in Plain : b # "ZL" /\ b \notin Go!Directions
      /\ "ZL" \notin Go!Directions
      /\ Plain \subseteq Go!Keys /\ Go!Directions \subseteq Go!Keys /\ "ZL" \in Go!Keys
  BY CompanionsAssumption DEF Go!GoAssumption, Go!Directions, Go!Keys
<1>5. e.kind = "button" => e \in ButtonEvents(e.button)
  BY <1>3 DEF ButtonEvents
<1>6. e.kind = "hat" => e.at \in Go!Hats BY <1>3 DEF Go!Event
<1>7. e.kind = "hat" => Go!HatKeys(e.at) \subseteq Go!Directions BY <1>6, HatKeysOfHat
<1>8. \A b \in Plain : IF e \in ButtonEvents(b) THEN b \in keys' <=> e.on
                       ELSE b \in keys' <=> b \in keys
  BY <1>1, <1>3, <1>4, <1>7
     DEF ButtonEvents, Go!Handled, Go!Switched, Go!Bit, Go!HatSetTo
<1>9. IF e \in TriggerEvents THEN "ZL" \in keys' <=> e.on ELSE "ZL" \in keys' <=> "ZL" \in keys
  BY <1>1, <1>3, <1>4, <1>7
     DEF TriggerEvents, Go!Handled, Go!Switched, Go!Bit, Go!HatSetTo
<1>10. keys' \cap Go!Directions
          = IF e \in HatEvents THEN Go!HatKeys(e.at) ELSE keys \cap Go!Directions
  BY <1>1, <1>3, <1>4, <1>7
     DEF HatEvents, Go!Handled, Go!Switched, Go!Bit, Go!HatSetTo
<1>11. keys' \subseteq Go!Keys
  BY <1>1, <1>2, <1>4, <1>7 DEF Go!Handled, Go!Switched, Go!Bit, Go!HatSetTo
<1>12. running' \in BOOLEAN BY <1>1, Zenon
<1>13. Go!TypeOK' BY <1>1, <1>3, <1>11, <1>12 DEF GoInv, Go!TypeOK
<1>14. ASSUME NEW b \in Plain
       PROVE  /\ LastGood(queue', ButtonEvents(b), ButtonEvents(b), ButtonSays(b, down))
              /\ Without(queue', ButtonEvents(b)) => (b \in keys' <=> b \in down)
  <2>1. /\ LastGood(queue, ButtonEvents(b), ButtonEvents(b), ButtonSays(b, down))
        /\ Without(queue, ButtonEvents(b)) => (b \in keys <=> b \in down)
    BY DEF GoInv, GoFollows
  <2>2. /\ LastGood(queue', ButtonEvents(b), ButtonEvents(b), ButtonSays(b, down))
        /\ Without(queue', ButtonEvents(b)) /\ e \in ButtonEvents(b) => e \in ButtonSays(b, down)
    BY <1>1, <1>2, <2>1, LastGoodTail DEF e
  <2>3. Without(queue', ButtonEvents(b)) /\ e \notin ButtonEvents(b)
           => Without(queue, ButtonEvents(b))
    BY <1>3 DEF Without
  <2>4. e \in ButtonSays(b, down) => (e.on <=> b \in down) BY DEF ButtonSays
  <2> QED BY <1>8, <2>1, <2>2, <2>3, <2>4
<1>15. /\ LastGood(queue', TriggerEvents, TriggerEvents, TriggerSays(trigger))
       /\ Without(queue', TriggerEvents) => ("ZL" \in keys' <=> trigger)
  <2>1. /\ LastGood(queue, TriggerEvents, TriggerEvents, TriggerSays(trigger))
        /\ Without(queue, TriggerEvents) => ("ZL" \in keys <=> trigger)
    BY DEF GoInv, GoFollows
  <2>2. /\ LastGood(queue', TriggerEvents, TriggerEvents, TriggerSays(trigger))
        /\ Without(queue', TriggerEvents) /\ e \in TriggerEvents => e \in TriggerSays(trigger)
    BY <1>1, <1>2, <2>1, LastGoodTail DEF e
  <2>3. Without(queue', TriggerEvents) /\ e \notin TriggerEvents => Without(queue, TriggerEvents)
    BY <1>3 DEF Without
  <2>4. e \in TriggerSays(trigger) => (e.on <=> trigger) BY DEF TriggerSays
  <2> QED BY <1>9, <2>1, <2>2, <2>3, <2>4
<1>16. /\ LastGood(queue', HatEvents, HatEvents, HatSays(hat))
       /\ Without(queue', HatEvents) => keys' \cap Go!Directions = Go!HatKeys(hat)
  <2>1. /\ LastGood(queue, HatEvents, HatEvents, HatSays(hat))
        /\ Without(queue, HatEvents) => keys \cap Go!Directions = Go!HatKeys(hat)
    BY DEF GoInv, GoFollows
  <2>2. /\ LastGood(queue', HatEvents, HatEvents, HatSays(hat))
        /\ Without(queue', HatEvents) /\ e \in HatEvents => e \in HatSays(hat)
    BY <1>1, <1>2, <2>1, LastGoodTail DEF e
  <2>3. Without(queue', HatEvents) /\ e \notin HatEvents => Without(queue, HatEvents)
    BY <1>3 DEF Without
  <2>4. e \in HatSays(hat) => e.at = hat BY DEF HatSays
  <2> QED BY <1>10, <2>1, <2>2, <2>3, <2>4
<1>17. GoFollows' BY <1>1, <1>14, <1>15, <1>16 DEF GoFollows
<1> QED BY <1>1, <1>13, <1>17 DEF GoInv

LEMMA NextGoInv == ASSUME GoInv, [Go!Next]_Go!vars PROVE GoInv'
<1>1. /\ down \subseteq Plain /\ hat \in Go!Hats /\ trigger \in BOOLEAN
      /\ Plain \cap Strange = {}
  BY CompanionsAssumption DEF GoInv, Go!TypeOK, Go!GoAssumption
<1>2. ASSUME NEW b \in Plain, Go!PressButton(b) PROVE GoInv'
  <2> DEFINE e == [kind |-> "button", button |-> b, on |-> b \notin down]
  <2>1. /\ down' = IF b \in down THEN down \ {b} ELSE down \cup {b}
        /\ UNCHANGED <<hat, trigger>> /\ Go!Emit(e)
    BY <1>2 DEF Go!PressButton
  <2>2. e \in Go!Event
    <3>1. (b \notin down) \in BOOLEAN BY Zenon
    <3> QED BY <3>1 DEF Go!Event
  <2>3. e.kind = "button" /\ e.button = b /\ (e.on <=> b \notin down) OBVIOUS
  <2> HIDE DEF e
  <2>4. /\ \A c \in Plain : IF e \in ButtonEvents(c) THEN e \in ButtonSays(c, down')
                            ELSE c \in down' <=> c \in down
        /\ e \notin TriggerEvents /\ e \notin HatEvents
    BY <2>1, <2>2, <2>3 DEF ButtonEvents, ButtonSays, TriggerEvents, HatEvents
  <2> QED BY <1>1, <2>1, <2>2, <2>4, GoEmits
<1>3. ASSUME NEW b \in Strange, NEW on \in BOOLEAN, Go!PressStrange(b, on) PROVE GoInv'
  <2> DEFINE e == [kind |-> "button", button |-> b, on |-> on]
  <2>1. UNCHANGED <<down, hat, trigger>> /\ Go!Emit(e) BY <1>3 DEF Go!PressStrange
  <2>2. e \in Go!Event /\ e.kind = "button" /\ e.button = b BY DEF Go!Event
  <2> HIDE DEF e
  <2>3. /\ \A c \in Plain : e \notin ButtonEvents(c)
        /\ e \notin TriggerEvents /\ e \notin HatEvents
    BY <1>1, <2>2 DEF ButtonEvents, TriggerEvents, HatEvents
  <2> QED BY <1>1, <2>1, <2>2, <2>3, GoEmits
<1>4. ASSUME NEW h \in Go!Hats, Go!MoveHat(h) PROVE GoInv'
  <2> DEFINE e == [kind |-> "hat", at |-> h]
  <2>1. hat' = h /\ UNCHANGED <<down, trigger>> /\ Go!Emit(e) BY <1>4 DEF Go!MoveHat
  <2>2. e \in Go!Event /\ e.kind = "hat" /\ e.at = h BY DEF Go!Event
  <2> HIDE DEF e
  <2>3. /\ \A c \in Plain : e \notin ButtonEvents(c)
        /\ e \notin TriggerEvents /\ e \in HatSays(hat')
    BY <2>1, <2>2 DEF ButtonEvents, TriggerEvents, HatEvents, HatSays
  <2>4. e \in HatEvents BY <2>2 DEF HatEvents
  <2> QED BY <1>1, <2>1, <2>2, <2>3, <2>4, GoEmits
<1>5. CASE Go!MoveTrigger
  <2> DEFINE e == [kind |-> "trigger", on |-> ~trigger]
  <2>1. trigger' = ~trigger /\ UNCHANGED <<down, hat>> /\ Go!Emit(e) BY <1>5 DEF Go!MoveTrigger
  <2>2. trigger' \in BOOLEAN /\ (~trigger) \in BOOLEAN BY <2>1, Zenon
  <2>3. e \in Go!Event BY <2>2 DEF Go!Event
  <2>4. e.kind = "trigger" /\ (e.on <=> ~trigger) OBVIOUS
  <2> HIDE DEF e
  <2>5. /\ \A c \in Plain : e \notin ButtonEvents(c)
        /\ e \in TriggerEvents /\ e \in TriggerSays(trigger') /\ e \notin HatEvents
    BY <2>1, <2>3, <2>4 DEF ButtonEvents, TriggerEvents, HatEvents, TriggerSays
  <2> QED BY <1>1, <2>1, <2>2, <2>3, <2>5, GoEmits
<1>6. ASSUME NEW kind \in {"quit", "device"}, Go!OtherEvent(kind) PROVE GoInv'
  <2> DEFINE e == [kind |-> kind]
  <2>1. UNCHANGED <<down, hat, trigger>> /\ Go!Emit(e) BY <1>6 DEF Go!OtherEvent
  <2>2. e \in Go!Event /\ e.kind = kind BY DEF Go!Event
  <2> HIDE DEF e
  <2>3. /\ \A c \in Plain : e \notin ButtonEvents(c)
        /\ e \notin TriggerEvents /\ e \notin HatEvents
    BY <2>2 DEF ButtonEvents, TriggerEvents, HatEvents
  <2> QED BY <1>1, <2>1, <2>2, <2>3, GoEmits
<1>7. CASE Go!HandleEvent BY <1>7, GoHandles
<1>8. ASSUME UNCHANGED <<down, hat, trigger, queue, keys>>, Go!TypeOK',
             ~offering' => sending' = keys'
      PROVE  GoInv'
  BY <1>8 DEF GoInv, GoFollows
<1>9. CASE Go!CalmDown BY <1>8, <1>9 DEF Go!CalmDown, GoInv, Go!TypeOK
<1>10. CASE Go!Connect BY <1>8, <1>10 DEF Go!Connect, Go!heldVars, GoInv, Go!TypeOK
<1>11. CASE Go!TakePackage BY <1>8, <1>11 DEF Go!TakePackage, Go!heldVars, GoInv, Go!TypeOK
<1>12. CASE Go!WaitEventFails BY <1>8, <1>12 DEF Go!WaitEventFails, Go!heldVars, GoInv, Go!TypeOK
<1>13. CASE Go!ConnectFails BY <1>8, <1>13 DEF Go!ConnectFails, Go!heldVars, GoInv, Go!TypeOK
<1>14. CASE UNCHANGED Go!vars BY <1>8, <1>14 DEF Go!vars, Go!heldVars, GoInv, Go!TypeOK
<1> QED BY <1>2, <1>3, <1>4, <1>5, <1>6, <1>7, <1>9, <1>10, <1>11, <1>12, <1>13, <1>14
    DEF Go!Next, Go!User, Go!Program

LEMMA GoTells == GoInv => Go!AtRestTells
<1> SUFFICES ASSUME GoInv, queue = <<>>, ~offering PROVE Go!Tells(sending)
  BY DEF Go!AtRestTells
<1>1. Without(queue, HatEvents) /\ Without(queue, TriggerEvents)
      /\ \A b \in Plain : Without(queue, ButtonEvents(b))
  BY ToSetOf DEF Without
<1>2. /\ sending = keys /\ down \subseteq Plain /\ hat \in Go!Hats
      /\ \A b \in Plain : b \in keys <=> b \in down
      /\ "ZL" \in keys <=> trigger
      /\ keys \cap Go!Directions = Go!HatKeys(hat)
  BY <1>1 DEF GoInv, GoFollows, Go!TypeOK
<1>3. keys \cap Plain = down BY <1>2
<1> QED BY <1>2, <1>3, HatKeysOfHat DEF Go!Tells

-----------------------------------------------------------------------------
(* The Python companion's globals.                                         *)

\* The events and the assignments about a key, and what they make of it.
KeyEvents(k) ==
    {e \in Py!Event : \/ e.kind = "key" /\ e.code = k
                      \/ e.kind = "hat" /\ ~pad.ps3 /\ k \in Py!Directions /\ e.at \in {k, "none"}
                      \/ e.kind = "z" /\ ~pad.ps3 /\ k = "ZL"}
MakesOn(e) == \/ e.kind = "key" /\ e.on
              \/ e.kind = "hat" /\ e.at # "none"
              \/ e.kind = "z" /\ e.at = "full"
BitWrites(k) == {w \in Py!Assignment : w.to = "keyout" /\ w.bit = k}

\* What a key may be in the end.  A hat that changed sides leaves the side it
\* was on; a trigger with an axis is anything while half pressed.
MayBeOn(k) ==
    /\ k \in Plain => k \in down
    /\ k \in Py!Directions => dpad = k \/ (pad.hat /\ ~pad.ps3 /\ crossed)
    /\ k = "ZL" => trigger # "released"
MayBeOff(k) ==
    /\ k \in Plain => k \notin down
    /\ k \in Py!Directions => dpad # k
    /\ k = "ZL" => trigger # "full" /\ (pad.ps3 \/ ~pad.zAxis => trigger = "released")

KeySays(k) == {e \in KeyEvents(k) : IF MakesOn(e) THEN MayBeOn(k) ELSE MayBeOff(k)}
BitSays(k) == {w \in BitWrites(k) : IF w.on THEN MayBeOn(k) ELSE MayBeOff(k)}

\* The same for the stick.
StickEvents == {e \in Py!Event : e.kind = "stick"}
StickSays   == {e \in StickEvents : e.at = stick}
DxWrites    == {w \in Py!Assignment : w.to = "dx"}
DxSays(at)  == {w \in DxWrites : w.at = IF at = "outside" THEN "outside" ELSE "centre"}

KeyFollows(k) ==
    /\ LastGood(queue, KeyEvents(k), KeyEvents(k), KeySays(k))
    /\ Without(queue, KeyEvents(k)) =>
          /\ LastGood(work, BitWrites(k), BitWrites(k), BitSays(k))
          /\ Without(work, BitWrites(k)) => IF k \in keyout THEN MayBeOn(k) ELSE MayBeOff(k)

StickFollows ==
    /\ LastGood(queue, StickEvents, StickEvents, StickSays)
    /\ Without(queue, StickEvents) =>
          /\ LastGood(work, DxWrites, DxWrites, DxSays(stick))
          /\ Without(work, DxWrites) => dx = IF stick = "outside" THEN "outside" ELSE "centre"

PyInv == Py!TypeOK /\ (\A k \in Py!Keys : KeyFollows(k)) /\ StickFollows

LEMMA InitPyInv == Py!Init => PyInv
<1> SUFFICES ASSUME Py!Init PROVE PyInv
  OBVIOUS
<1>1. /\ queue = <<>> /\ queue \in Seq(Py!Event) /\ DOMAIN queue = {}
      /\ work = <<>> /\ work \in Seq(Py!Assignment) /\ DOMAIN work = {}
  BY DEF Py!Init
<1>2. Py!TypeOK
  <2>1. calm \in BOOLEAN /\ exited \in BOOLEAN /\ crossed \in BOOLEAN BY Zenon DEF Py!Init
  <2>2. pad \in PyPads /\ down = {} /\ dpad = "none" /\ trigger = "released" /\ stick = "inside"
        /\ keyout = {} /\ dx = "centre" /\ taken = Py!Nothing
    BY DEF Py!Init
  <2>3. keyout \subseteq Py!Keys /\ dx \in Py!Coordinates /\ taken \in (SUBSET Py!Keys) \cup {Py!Nothing}
    BY <2>2 DEF Py!Coordinates
  <2>4. stick \in Py!Positions /\ trigger \in Py!Levels /\ dpad \in Py!Directions \cup {"none"}
    BY <2>2 DEF Py!Positions, Py!Levels
  <2> QED BY <1>1, <2>1, <2>2, <2>3, <2>4 DEF Py!TypeOK
<1>3. ASSUME NEW k \in Py!Keys PROVE KeyFollows(k)
  <2>1. MayBeOff(k) BY DEF Py!Init, MayBeOff, Py!Directions
  <2> QED BY <1>1, <2>1 DEF KeyFollows, LastGood, Py!Init
<1>4. StickFollows BY <1>1 DEF StickFollows, LastGood, Py!Init
<1> QED BY <1>2, <1>3, <1>4 DEF PyInv

\* Something happens, and the driver has events that tell it.
LEMMA PyEmits ==
    ASSUME PyInv, NEW new \in Seq(Py!Event), Py!Emit(new),
           down' \subseteq Plain, dpad' \in Py!Directions \cup {"none"},
           trigger' \in Py!Levels, stick' \in Py!Positions, crossed' \in BOOLEAN,
           \A k \in Py!Keys :
              /\ \A e \in ToSet(new) : e \in KeyEvents(k) => e \in KeySays(k)'
              /\ Without(new, KeyEvents(k)) =>
                    (MayBeOn(k) => MayBeOn(k)') /\ (MayBeOff(k) => MayBeOff(k)'),
           \A e \in ToSet(new) : e \in StickEvents => e.at = stick',
           Without(new, StickEvents) => stick' = stick
    PROVE  PyInv'
<1>1. queue \in Seq(Py!Event) /\ queue' = queue \o new
      /\ UNCHANGED <<pad, calm, work, keyout, dx, taken, exited>>
  BY DEF Py!Emit, PyInv, Py!TypeOK
<1>2. queue' \in Seq(Py!Event) /\ ToSet(queue') = ToSet(queue) \cup ToSet(new)
  BY <1>1, ConcatElements
<1>3. Py!TypeOK' BY <1>1, <1>2 DEF PyInv, Py!TypeOK
<1>4. \A n \in DOMAIN new : new[n] \in ToSet(new) BY DEF ToSet
<1>5. ASSUME NEW k \in Py!Keys PROVE KeyFollows(k)'
  <2> DEFINE about == KeyEvents(k)
             good  == KeySays(k)'
  <2>1. KeyEvents(k)' = about /\ BitWrites(k)' = BitWrites(k) BY <1>1 DEF KeyEvents, BitWrites
  <2>2. LastGood(queue, about, about, KeySays(k)) BY DEF PyInv, KeyFollows
  <2>3. Without(new, about) => KeySays(k) \subseteq good /\ BitSays(k) \subseteq BitSays(k)'
    BY <2>1 DEF KeySays, BitSays
  <2>4. Without(new, about) => LastGood(queue, about, about, good)
    <3> HIDE DEF about, good
    <3> QED BY <2>2, <2>3 DEF LastGood
  <2>5. LastGood(new, about, about, good)
    <3>1. \A e \in ToSet(new) : e \in about => e \in good OBVIOUS
    <3> HIDE DEF about, good
    <3> QED BY <1>4, <3>1 DEF LastGood
  <2>6. LastGood(queue', about, about, good)
    <3> HIDE DEF about, good
    <3> QED BY <1>1, <2>4, <2>5, LastGoodConcat
  <2>7. Without(queue', about) => Without(queue, about) /\ Without(new, about)
    BY <1>2 DEF Without
  <2>8. ASSUME Without(queue', about)
        PROVE  /\ LastGood(work', BitWrites(k), BitWrites(k), BitSays(k)')
               /\ Without(work', BitWrites(k)) => IF k \in keyout' THEN MayBeOn(k)' ELSE MayBeOff(k)'
    <3>1. /\ LastGood(work, BitWrites(k), BitWrites(k), BitSays(k))
          /\ Without(work, BitWrites(k)) => IF k \in keyout THEN MayBeOn(k) ELSE MayBeOff(k)
      BY <2>7, <2>8 DEF PyInv, KeyFollows
    <3>2. LastGood(work, BitWrites(k), BitWrites(k), BitSays(k)')
      BY <2>3, <2>7, <2>8, <3>1 DEF LastGood
    <3>3. (MayBeOn(k) => MayBeOn(k)') /\ (MayBeOff(k) => MayBeOff(k)') BY <2>7, <2>8
    <3> QED BY <1>1, <3>1, <3>2, <3>3
  <2> QED BY <2>1, <2>6, <2>8 DEF KeyFollows
<1>6. StickFollows'
  <2>1. StickEvents' = StickEvents /\ DxWrites' = DxWrites /\ DxSays(stick)' = DxSays(stick')
    BY DEF StickEvents, DxWrites, DxSays
  <2>2. LastGood(queue, StickEvents, StickEvents, StickSays) BY DEF PyInv, StickFollows
  <2>3. Without(new, StickEvents) => StickSays' = StickSays BY <2>1 DEF StickSays
  <2>4. LastGood(new, StickEvents, StickEvents, StickSays')
    BY <1>4, <2>1 DEF LastGood, StickSays
  <2>5. LastGood(queue', StickEvents, StickEvents, StickSays')
    BY <1>1, <2>2, <2>3, <2>4, LastGoodConcat
  <2>6. Without(queue', StickEvents) => Without(queue, StickEvents) /\ Without(new, StickEvents)
    BY <1>2 DEF Without
  <2> QED BY <1>1, <2>1, <2>5, <2>6 DEF PyInv, StickFollows
<1> QED BY <1>3, <1>5, <1>6 DEF PyInv

\* What the poller does about an event: assignments to the keys it is about,
\* all of them of what it makes of them, and to dx if it is the stick's.
LEMMA WritesOf ==
    ASSUME NEW e \in Py!Event
    PROVE  /\ Py!Writes(e) \in Seq(Py!Assignment)
           /\ \A w \in ToSet(Py!Writes(e)) : \A k \in Py!Keys :
                 w \in BitWrites(k) => e \in KeyEvents(k) /\ (w.on <=> MakesOn(e))
           /\ \A k \in Py!Keys : e \in KeyEvents(k) => ~Without(Py!Writes(e), BitWrites(k))
           /\ e \notin StickEvents => Without(Py!Writes(e), DxWrites)
           /\ e \in StickEvents => /\ LastGood(Py!Writes(e), DxWrites, DxWrites, DxSays(e.at))
                                   /\ ~Without(Py!Writes(e), DxWrites)
<1> DEFINE ws == Py!Writes(e)
           B(k, on) == [to |-> "keyout", bit |-> k, on |-> on]
           D(at)    == [to |-> "dx", at |-> at]
<1>1. /\ \A k \in Py!Keys, on \in BOOLEAN :
            /\ B(k, on) \in Py!Assignment /\ B(k, on).to = "keyout"
            /\ B(k, on).bit = k /\ B(k, on).on = on
      /\ \A at \in Py!Coordinates :
            D(at) \in Py!Assignment /\ D(at).to = "dx" /\ D(at).at = at
  BY DEF Py!Assignment
<1>2. Py!Directions \subseteq Py!Keys /\ "ZL" \in Py!Keys
      /\ "left" \in Py!Directions /\ "right" \in Py!Directions
      /\ Py!Directions \subseteq {"left", "right"}
  BY DEF Py!Keys, Py!Directions
<1>3. CASE e.kind = "key"
  <2>1. e.code \in Py!Keys \cup Strange /\ e.on \in BOOLEAN BY <1>3 DEF Py!Event
  <2>2. e \notin StickEvents BY <1>3 DEF StickEvents
  <2>3. CASE e.code \in Py!Keys
    <3>1. ws = <<B(e.code, e.on)>> BY <1>3, <2>3 DEF Py!Writes, Py!KeyWrites, Py!Bit
    <3>2. ws \in Seq(Py!Assignment) /\ ToSet(ws) = {B(e.code, e.on)}
      BY <1>1, <2>1, <2>3, <3>1, ToSetOf
    <3> HIDE DEF ws
    <3>3. B(e.code, e.on) \in BitWrites(e.code) /\ B(e.code, e.on) \notin DxWrites
      BY <1>1, <2>1, <2>3 DEF BitWrites, DxWrites
    <3>4. \A k \in Py!Keys : B(e.code, e.on) \in BitWrites(k) => k = e.code
      BY <1>1, <2>1, <2>3 DEF BitWrites
    <3>5. \A k \in Py!Keys : e \in KeyEvents(k) <=> k = e.code
      BY <1>3 DEF KeyEvents
    <3>6. B(e.code, e.on).on <=> MakesOn(e)
      BY <1>1, <1>3, <2>1, <2>3 DEF MakesOn
    <3> HIDE DEF B
    <3> QED BY <2>2, <3>2, <3>3, <3>4, <3>5, <3>6 DEF Without, ws
  <2>4. CASE e.code \notin Py!Keys
    <3>1. ws = <<>> BY <1>3, <2>4 DEF Py!Writes, Py!KeyWrites
    <3>2. ws \in Seq(Py!Assignment) /\ ToSet(ws) = {} BY <3>1, ToSetOf
    <3>3. \A k \in Py!Keys : e \notin KeyEvents(k) BY <1>3, <2>4 DEF KeyEvents
    <3> QED BY <2>2, <3>2, <3>3 DEF Without
  <2> QED BY <2>3, <2>4
<1>4. CASE e.kind = "hat"
  <2>1. e.at \in Py!Directions \cup {"none"} BY <1>4 DEF Py!Event
  <2>2. e \notin StickEvents BY <1>4 DEF StickEvents
  <2>3. "none" \notin Py!Directions BY DEF Py!Directions
  <2>4. CASE pad.ps3
    <3>1. ws = <<>> BY <1>4, <2>4 DEF Py!Writes
    <3>2. ws \in Seq(Py!Assignment) /\ ToSet(ws) = {} BY <3>1, ToSetOf
    <3>3. \A k \in Py!Keys : e \notin KeyEvents(k) BY <1>4, <2>4 DEF KeyEvents
    <3> QED BY <2>2, <3>2, <3>3 DEF Without
  <2>5. CASE ~pad.ps3 /\ e.at = "none"
    <3>1. ws = <<B("left", FALSE), B("right", FALSE)>>
      BY <1>4, <2>5 DEF Py!Writes, Py!HatWrites, Py!Bit
    <3>2. ToSet(ws) = {B("left", FALSE), B("right", FALSE)} BY <3>1, ToSetOf
    <3>3. ws \in Seq(Py!Assignment)
      <4>1. B("left", FALSE) \in Py!Assignment /\ B("right", FALSE) \in Py!Assignment
        BY <1>1, <1>2
      <4> QED BY <3>1, <4>1
    <3> HIDE DEF ws
    <3>4. \A d \in Py!Directions : /\ B(d, FALSE) \in BitWrites(d) /\ B(d, FALSE) \notin DxWrites
                                   /\ ~B(d, FALSE).on
                                   /\ \A k \in Py!Keys : B(d, FALSE) \in BitWrites(k) => k = d
      BY <1>1, <1>2 DEF BitWrites, DxWrites
    <3>5. \A k \in Py!Keys : e \in KeyEvents(k) <=> k \in Py!Directions
      BY <1>4, <2>5 DEF KeyEvents
    <3>6. ~MakesOn(e) BY <1>4, <2>5 DEF MakesOn
    <3> DEFINE Clear(d) == B(d, FALSE)
    <3>7. \A d \in Py!Directions : /\ Clear(d) \in BitWrites(d) /\ Clear(d) \notin DxWrites
                                   /\ ~Clear(d).on
                                   /\ \A k \in Py!Keys : Clear(d) \in BitWrites(k) => k = d
      BY <3>4
    <3>8. \A w \in ToSet(ws) : \E d \in Py!Directions : w = Clear(d) BY <1>2, <3>2
    <3>9. \A d \in Py!Directions : Clear(d) \in ToSet(ws) BY <1>2, <3>2
    <3> HIDE DEF Clear, B
    <3>10. \A w \in ToSet(ws) : \A k \in Py!Keys :
             w \in BitWrites(k) => e \in KeyEvents(k) /\ (w.on <=> MakesOn(e))
      BY <3>7, <3>5, <3>6, <3>8
    <3>11. \A k \in Py!Keys : e \in KeyEvents(k) => ~Without(ws, BitWrites(k))
      BY <3>7, <3>5, <3>9 DEF Without
    <3>12. Without(ws, DxWrites) BY <3>7, <3>8 DEF Without
    <3> QED BY <2>2, <3>3, <3>10, <3>11, <3>12 DEF ws
  <2>6. CASE ~pad.ps3 /\ e.at # "none"
    <3>1. ws = <<B(e.at, TRUE)>> BY <1>4, <2>6 DEF Py!Writes, Py!HatWrites, Py!Bit
    <3>2. ws \in Seq(Py!Assignment) /\ ToSet(ws) = {B(e.at, TRUE)}
      <4>1. e.at \in Py!Keys BY <1>2, <2>1, <2>6
      <4>2. B(e.at, TRUE) \in Py!Assignment BY <1>1, <4>1
      <4> HIDE DEF B, ws
      <4>3. ToSet(ws) = {B(e.at, TRUE)} BY <3>1, ToSetOf
      <4>4. <<B(e.at, TRUE)>> \in Seq(Py!Assignment) BY <4>2, ShortLists
      <4> QED BY <3>1, <4>3, <4>4
    <3> HIDE DEF ws
    <3>3. /\ B(e.at, TRUE) \in BitWrites(e.at) /\ B(e.at, TRUE) \notin DxWrites /\ B(e.at, TRUE).on
          /\ \A k \in Py!Keys : B(e.at, TRUE) \in BitWrites(k) => k = e.at
      BY <1>1, <1>2, <2>1, <2>6 DEF BitWrites, DxWrites
    <3>4. \A k \in Py!Keys : e \in KeyEvents(k) <=> k = e.at
      BY <1>2, <1>4, <2>1, <2>3, <2>6 DEF KeyEvents
    <3>5. MakesOn(e) BY <1>4, <2>6 DEF MakesOn
    <3>6. e.at \in Py!Keys BY <1>2, <2>1, <2>6
    <3> HIDE DEF B
    <3>7. \A w \in ToSet(ws) : \A k \in Py!Keys :
             w \in BitWrites(k) => e \in KeyEvents(k) /\ (w.on <=> MakesOn(e))
      BY <3>2, <3>3, <3>4, <3>5
    <3>8. \A k \in Py!Keys : e \in KeyEvents(k) => ~Without(ws, BitWrites(k))
      BY <3>2, <3>3, <3>4 DEF Without
    <3>9. Without(ws, DxWrites) BY <3>2, <3>3 DEF Without
    <3> QED BY <2>2, <3>2, <3>7, <3>8, <3>9 DEF ws
  <2> QED BY <2>4, <2>5, <2>6
<1>5. CASE e.kind = "z"
  <2>1. e \notin StickEvents BY <1>5 DEF StickEvents
  <2>2. CASE pad.ps3
    <3>1. ws = <<>> BY <1>5, <2>2 DEF Py!Writes
    <3>2. ws \in Seq(Py!Assignment) /\ ToSet(ws) = {} BY <3>1, ToSetOf
    <3>3. \A k \in Py!Keys : e \notin KeyEvents(k) BY <1>5, <2>2 DEF KeyEvents
    <3> QED BY <2>1, <3>2, <3>3 DEF Without
  <2>3. CASE ~pad.ps3
    <3> DEFINE on == e.at = "full"
    <3>1. ws = <<B("ZL", on)>> BY <1>5, <2>3 DEF Py!Writes, Py!Bit
    <3>2. on \in BOOLEAN BY Zenon
    <3> HIDE DEF on
    <3>3. ws \in Seq(Py!Assignment) /\ ToSet(ws) = {B("ZL", on)}
      BY <1>1, <1>2, <3>1, <3>2, ToSetOf
    <3> HIDE DEF ws
    <3>4. /\ B("ZL", on) \in BitWrites("ZL") /\ B("ZL", on) \notin DxWrites
          /\ B("ZL", on).on = on
          /\ \A k \in Py!Keys : B("ZL", on) \in BitWrites(k) => k = "ZL"
      BY <1>1, <1>2, <3>2 DEF BitWrites, DxWrites
    <3>5. \A k \in Py!Keys : e \in KeyEvents(k) <=> k = "ZL"
      BY <1>2, <1>5, <2>3 DEF KeyEvents
    <3>6. on <=> MakesOn(e) BY <1>5 DEF MakesOn, on
    <3> HIDE DEF B
    <3> QED BY <2>1, <3>3, <3>4, <3>5, <3>6 DEF Without, ws
  <2> QED BY <2>2, <2>3
<1>6. CASE e.kind = "stick"
  <2>1. e.at \in Py!Positions /\ e \in StickEvents BY <1>6 DEF Py!Event, StickEvents
  <2>2. \A k \in Py!Keys : e \notin KeyEvents(k) BY <1>6 DEF KeyEvents
  <2>3. /\ \A at \in Py!Coordinates : D(at) \in DxWrites /\ D(at).at = at
        /\ \A at \in Py!Coordinates : \A k \in Py!Keys : D(at) \notin BitWrites(k)
        /\ "centre" \in Py!Coordinates /\ e.at \in Py!Coordinates
    BY <1>1, <2>1 DEF DxWrites, BitWrites, Py!Coordinates
  <2>4. CASE e.at = "inside"
    <3>1. ws = <<D(e.at), D("centre")>> BY <1>6, <2>4 DEF Py!Writes, Py!Dx
    <3>2. ws = <<D(e.at)>> \o <<D("centre")>> BY <3>1
    <3>3. <<D(e.at)>> \in Seq(Py!Assignment) /\ <<D("centre")>> \in Seq(Py!Assignment)
      BY <1>1, <2>3
    <3>4. ToSet(ws) = {D(e.at), D("centre")} BY <3>1, ToSetOf
    <3>5. D("centre") \in DxSays(e.at) BY <2>3, <2>4 DEF DxSays
    <3>6. ws \in Seq(Py!Assignment)
      BY <3>2, <3>3, ConcatElements
    <3> HIDE DEF ws, D
    <3>7. LastGood(<<D("centre")>>, DxWrites, DxWrites, DxSays(e.at)) BY <3>5 DEF LastGood
    <3>8. ~Without(<<D("centre")>>, DxWrites) BY <2>3, ToSetOf DEF Without
    <3>9. LastGood(ws, DxWrites, DxWrites, DxSays(e.at))
      BY <3>2, <3>3, <3>7, <3>8, LastGoodConcat
    <3> QED BY <2>1, <2>2, <2>3, <3>4, <3>6, <3>9 DEF Without, ws
  <2>5. CASE e.at # "inside"
    <3>1. ws = <<D(e.at)>> BY <1>6, <2>5 DEF Py!Writes, Py!Dx
    <3>2. ws \in Seq(Py!Assignment) /\ ToSet(ws) = {D(e.at)} BY <1>1, <2>3, <3>1, ToSetOf
    <3>3. e.at = "outside" BY <2>1, <2>5 DEF Py!Positions
    <3>4. D(e.at) \in DxSays(e.at) BY <2>3, <3>3 DEF DxSays
    <3> HIDE DEF D
    <3>5. LastGood(ws, DxWrites, DxWrites, DxSays(e.at)) BY <3>1, <3>4 DEF LastGood
    <3> HIDE DEF ws
    <3> QED BY <2>1, <2>2, <2>3, <3>2, <3>5 DEF Without, ws
  <2> QED BY <2>4, <2>5
<1> QED BY <1>3, <1>4, <1>5, <1>6 DEF Py!Event

\* While nothing happens on the gamepad, the matters stay what they are.
LEMMA SameGamepad ==
    ASSUME UNCHANGED <<pad, down, dpad, trigger, stick, crossed>>
    PROVE  /\ \A k : /\ KeyEvents(k)' = KeyEvents(k) /\ KeySays(k)' = KeySays(k)
                     /\ BitWrites(k)' = BitWrites(k) /\ BitSays(k)' = BitSays(k)
                     /\ MayBeOn(k)' <=> MayBeOn(k)
                     /\ MayBeOff(k)' <=> MayBeOff(k)
           /\ StickEvents' = StickEvents /\ StickSays' = StickSays
           /\ DxWrites' = DxWrites /\ DxSays(stick)' = DxSays(stick)
           /\ stick' = stick
<1>1. \A k : /\ MayBeOn(k)' <=> MayBeOn(k)
             /\ MayBeOff(k)' <=> MayBeOff(k)
  BY DEF MayBeOn, MayBeOff
<1>2. \A k : KeyEvents(k)' = KeyEvents(k) /\ BitWrites(k)' = BitWrites(k)
  BY DEF KeyEvents, BitWrites
<1>3. \A k : KeySays(k)' = KeySays(k) /\ BitSays(k)' = BitSays(k)
  BY <1>1, <1>2 DEF KeySays, BitSays, MakesOn
<1> QED BY <1>1, <1>2, <1>3 DEF StickEvents, StickSays, DxWrites, DxSays

\* Steps that leave the gamepad, its events and the assignments alone.
LEMMA PyStays ==
    ASSUME PyInv, UNCHANGED <<pad, down, dpad, trigger, stick, crossed, queue, work, keyout, dx>>,
           Py!TypeOK'
    PROVE  PyInv'
<1>1. \A k \in Py!Keys : KeyFollows(k)' BY SameGamepad DEF PyInv, KeyFollows
<1>2. StickFollows' BY SameGamepad DEF PyInv, StickFollows
<1> QED BY <1>1, <1>2 DEF PyInv

\* get_gamepad returns an event.
LEMMA PyHandles == ASSUME PyInv, Py!GetGamepad PROVE PyInv'
<1> DEFINE e == Head(queue)
<1>1. /\ queue # <<>> /\ work = <<>> /\ queue' = Tail(queue) /\ work' = Py!Writes(e)
      /\ UNCHANGED <<pad, down, dpad, trigger, stick, crossed, calm, keyout, dx, taken, exited>>
  BY DEF Py!GetGamepad, Py!padVars
<1>2. queue \in Seq(Py!Event) BY DEF PyInv, Py!TypeOK
<1>3. queue' \in Seq(Py!Event) /\ e \in Py!Event /\ ToSet(queue) = {e} \cup ToSet(queue')
  BY <1>1, <1>2, TailElements
<1>4. /\ work' \in Seq(Py!Assignment)
      /\ \A w \in ToSet(work') : \A k \in Py!Keys :
            w \in BitWrites(k) => e \in KeyEvents(k) /\ (w.on <=> MakesOn(e))
      /\ \A k \in Py!Keys : e \in KeyEvents(k) => ~Without(work', BitWrites(k))
      /\ e \notin StickEvents => Without(work', DxWrites)
      /\ e \in StickEvents => /\ LastGood(work', DxWrites, DxWrites, DxSays(e.at))
                              /\ ~Without(work', DxWrites)
  BY <1>1, <1>3, WritesOf
<1>5. \A n \in DOMAIN work' : work'[n] \in ToSet(work') BY DEF ToSet
<1>6. \A some : Without(work, some) BY <1>1, ToSetOf DEF Without
<1>7. Py!TypeOK' BY <1>1, <1>3, <1>4 DEF PyInv, Py!TypeOK, Py!padVars
<1>8. ASSUME NEW k \in Py!Keys PROVE KeyFollows(k)'
  <2>1. /\ LastGood(queue, KeyEvents(k), KeyEvents(k), KeySays(k))
        /\ Without(queue, KeyEvents(k)) => IF k \in keyout THEN MayBeOn(k) ELSE MayBeOff(k)
    BY <1>6 DEF PyInv, KeyFollows
  <2>2. /\ LastGood(queue', KeyEvents(k), KeyEvents(k), KeySays(k))
        /\ Without(queue', KeyEvents(k)) /\ e \in KeyEvents(k) => e \in KeySays(k)
    BY <1>1, <1>2, <2>1, LastGoodTail
  <2> HIDE DEF e
  <2>3. ASSUME Without(queue', KeyEvents(k))
        PROVE  /\ LastGood(work', BitWrites(k), BitWrites(k), BitSays(k))
               /\ Without(work', BitWrites(k)) => IF k \in keyout THEN MayBeOn(k) ELSE MayBeOff(k)
    <3>1. CASE e \in KeyEvents(k)
      <4>1. IF MakesOn(e) THEN MayBeOn(k) ELSE MayBeOff(k) BY <2>2, <2>3, <3>1 DEF KeySays
      <4>2. \A w \in ToSet(work') : w \in BitWrites(k) => w \in BitSays(k)
        BY <1>4, <4>1 DEF BitSays
      <4> QED BY <1>4, <1>5, <3>1, <4>2 DEF LastGood
    <3>2. CASE e \notin KeyEvents(k)
      <4>1. Without(queue, KeyEvents(k)) BY <1>3, <2>3, <3>2 DEF Without
      <4>2. \A w \in ToSet(work') : w \notin BitWrites(k) BY <1>4, <3>2
      <4> QED BY <1>5, <2>1, <4>1, <4>2 DEF LastGood
    <3> QED BY <3>1, <3>2
  <2> QED BY <1>1, <2>2, <2>3, SameGamepad DEF KeyFollows
<1>9. StickFollows'
  <2>1. /\ LastGood(queue, StickEvents, StickEvents, StickSays)
        /\ Without(queue, StickEvents) => dx = IF stick = "outside" THEN "outside" ELSE "centre"
    BY <1>6 DEF PyInv, StickFollows
  <2>2. /\ LastGood(queue', StickEvents, StickEvents, StickSays)
        /\ Without(queue', StickEvents) /\ e \in StickEvents => e \in StickSays
    BY <1>1, <1>2, <2>1, LastGoodTail
  <2> HIDE DEF e
  <2>3. ASSUME Without(queue', StickEvents)
        PROVE  /\ LastGood(work', DxWrites, DxWrites, DxSays(stick))
               /\ Without(work', DxWrites) => dx = IF stick = "outside" THEN "outside" ELSE "centre"
    <3>1. CASE e \in StickEvents
      <4>1. e.at = stick BY <2>2, <2>3, <3>1 DEF StickSays
      <4> QED BY <1>4, <3>1, <4>1
    <3>2. CASE e \notin StickEvents
      <4>1. Without(queue, StickEvents) BY <1>3, <2>3, <3>2 DEF Without
      <4>2. \A w \in ToSet(work') : w \notin DxWrites BY <1>4, <3>2 DEF Without
      <4> QED BY <1>5, <2>1, <4>1, <4>2 DEF LastGood
    <3> QED BY <3>1, <3>2
  <2> QED BY <1>1, <2>2, <2>3, SameGamepad DEF StickFollows
<1> QED BY <1>7, <1>8, <1>9 DEF PyInv

\* The poller makes an assignment.
LEMMA PyAssigns == ASSUME PyInv, Py!CheckKeys \/ Py!SetDx PROVE PyInv'
<1> DEFINE w == Head(work)
<1>1. /\ work # <<>> /\ work' = Tail(work)
      /\ UNCHANGED <<pad, down, dpad, trigger, stick, crossed, calm, queue, taken, exited>>
      /\ \/ /\ w.to = "keyout" /\ dx' = dx
            /\ keyout' = IF w.on THEN keyout \cup {w.bit} ELSE keyout \ {w.bit}
         \/ w.to = "dx" /\ dx' = w.at /\ keyout' = keyout
  BY DEF Py!CheckKeys, Py!SetDx, Py!padVars
<1>2. work \in Seq(Py!Assignment) BY DEF PyInv, Py!TypeOK
<1>3. work' \in Seq(Py!Assignment) /\ w \in Py!Assignment /\ ToSet(work) = {w} \cup ToSet(work')
  BY <1>1, <1>2, TailElements
<1>4. \A about, good :
         LastGood(work, about, about, good) =>
            /\ LastGood(work', about, about, good)
            /\ Without(work', about) /\ w \in about => w \in good
  BY <1>1, <1>2, LastGoodTail
<1> HIDE DEF w
<1>5. \A some : Without(work', some) /\ w \notin some => Without(work, some)
  BY <1>3 DEF Without
<1>6. (w.to = "keyout" => w.bit \in Py!Keys) /\ (w.to = "dx" => w.at \in Py!Coordinates)
  BY <1>3 DEF Py!Assignment
<1>7. Py!TypeOK'
  <2>1. keyout' \subseteq Py!Keys /\ dx' \in Py!Coordinates
    BY <1>1, <1>6 DEF PyInv, Py!TypeOK
  <2> QED BY <1>1, <1>3, <2>1 DEF PyInv, Py!TypeOK, Py!padVars
<1>8. ASSUME NEW k \in Py!Keys PROVE KeyFollows(k)'
  <2>1. KeyFollows(k) BY DEF PyInv
  <2>2. IF w \in BitWrites(k) THEN k \in keyout' <=> w.on ELSE k \in keyout' <=> k \in keyout
    BY <1>1, <1>3 DEF BitWrites
  <2>3. w \in BitSays(k) => IF w.on THEN MayBeOn(k) ELSE MayBeOff(k) BY DEF BitSays
  <2>4. ASSUME Without(queue, KeyEvents(k))
        PROVE  /\ LastGood(work', BitWrites(k), BitWrites(k), BitSays(k))
               /\ Without(work', BitWrites(k)) => IF k \in keyout' THEN MayBeOn(k) ELSE MayBeOff(k)
    <3>1. /\ LastGood(work, BitWrites(k), BitWrites(k), BitSays(k))
          /\ Without(work, BitWrites(k)) => IF k \in keyout THEN MayBeOn(k) ELSE MayBeOff(k)
      BY <2>1, <2>4 DEF KeyFollows
    <3> QED BY <1>4, <1>5, <2>2, <2>3, <3>1
  <2> QED BY <1>1, <2>1, <2>4, SameGamepad DEF KeyFollows
<1>9. StickFollows'
  <2>1. StickFollows BY DEF PyInv
  <2>2. IF w \in DxWrites THEN dx' = w.at ELSE dx' = dx BY <1>1, <1>3 DEF DxWrites
  <2>3. w \in DxSays(stick) => w.at = IF stick = "outside" THEN "outside" ELSE "centre"
    BY DEF DxSays
  <2>4. ASSUME Without(queue, StickEvents)
        PROVE  /\ LastGood(work', DxWrites, DxWrites, DxSays(stick))
               /\ Without(work', DxWrites) => dx' = IF stick = "outside" THEN "outside" ELSE "centre"
    <3>1. /\ LastGood(work, DxWrites, DxWrites, DxSays(stick))
          /\ Without(work, DxWrites) => dx = IF stick = "outside" THEN "outside" ELSE "centre"
      BY <2>1, <2>4 DEF StickFollows
    <3> QED BY <1>4, <1>5, <2>2, <2>3, <3>1
  <2> QED BY <1>1, <2>1, <2>4, SameGamepad DEF StickFollows
<1> QED BY <1>7, <1>8, <1>9 DEF PyInv

\* The d-pad moves: its events are about the side it leaves and the one it
\* comes to, and where its sides are not told one by one, about both of them.
LEMMA PyMovesDpad ==
    ASSUME PyInv, NEW d \in Py!Directions \cup {"none"}, Py!MoveDpad(d)
    PROVE  PyInv'
<1> DEFINE H       == [kind |-> "hat", at |-> d]
           K(c, on) == Py!Key(c, on)
           hat2    == IF pad.hat THEN <<H>> ELSE <<>>
           left2   == IF dpad = "none" THEN <<>> ELSE <<K(dpad, FALSE)>>
           right2  == IF d = "none" THEN <<>> ELSE <<K(d, TRUE)>>
           keys2   == IF ~pad.dpadKeys THEN <<>> ELSE left2 \o right2
<1>1. /\ d # dpad /\ dpad' = d /\ UNCHANGED <<down, trigger, stick>>
      /\ crossed' = (d # "none" /\ (crossed \/ dpad # "none"))
      /\ Py!Emit(hat2 \o keys2) \/ Py!Emit(keys2 \o hat2)
  BY DEF Py!MoveDpad
<1>2. /\ dpad \in Py!Directions \cup {"none"} /\ down \subseteq Plain /\ trigger \in Py!Levels
      /\ stick \in Py!Positions /\ pad' = pad
      /\ (pad.ps3 => pad.dpadKeys) /\ (pad.hat \/ pad.dpadKeys)
      /\ \A k \in Py!Directions : k \notin Plain /\ k # "ZL" /\ k # "none" /\ k \in Py!Keys
  BY <1>1, CompanionsAssumption
     DEF PyInv, Py!TypeOK, Py!Emit, Py!PyAssumption, Py!Directions, Py!Keys
<1>3. crossed' \in BOOLEAN BY <1>1, Zenon
<1>4. /\ H \in Py!Event /\ H.kind = "hat" /\ H.at = d
      /\ \A c \in Py!Directions, on \in BOOLEAN :
            K(c, on) \in Py!Event /\ K(c, on).kind = "key" /\ K(c, on).code = c /\ K(c, on).on = on
  BY <1>2 DEF Py!Event, Py!Key
<1> DEFINE Gone == K(dpad, FALSE)
           Come == K(d, TRUE)
<1>5. /\ dpad # "none" => Gone \in Py!Event /\ Gone.kind = "key" /\ Gone.code = dpad /\ ~Gone.on
      /\ d # "none" => Come \in Py!Event /\ Come.kind = "key" /\ Come.code = d /\ Come.on
  BY <1>2, <1>4
<1>6. hat2 \in Seq(Py!Event) /\ ToSet(hat2) = IF pad.hat THEN {H} ELSE {}
  <2>1. /\ hat2 = IF pad.hat THEN <<H>> ELSE <<>>
        /\ <<H>> # <<>>
    OBVIOUS
  <2>2. H \in Py!Event BY <1>4
  <2> HIDE DEF H, hat2
  <2>3. CASE pad.hat
    <3>1. hat2 = <<H>> BY <2>1, <2>3
    <3>2. hat2 \in Seq(Py!Event) /\ ToSet(hat2) = IF hat2 = <<>> THEN {} ELSE {H}
      BY <2>2, <3>1, OneOrNone
    <3> QED BY <2>1, <2>3, <3>1, <3>2
  <2>4. CASE ~pad.hat BY <2>1, <2>4, OneOrNone
  <2> QED BY <2>3, <2>4
<1>7. /\ left2 \in Seq(Py!Event) /\ ToSet(left2) = IF dpad = "none" THEN {} ELSE {Gone}
      /\ right2 \in Seq(Py!Event) /\ ToSet(right2) = IF d = "none" THEN {} ELSE {Come}
  <2>1. /\ left2 = IF dpad = "none" THEN <<>> ELSE <<Gone>>
        /\ right2 = IF d = "none" THEN <<>> ELSE <<Come>>
        /\ <<Gone>> # <<>> /\ <<Come>> # <<>>
    OBVIOUS
  <2> HIDE DEF Gone, Come, left2, right2
  <2>2. left2 \in Seq(Py!Event) /\ ToSet(left2) = IF dpad = "none" THEN {} ELSE {Gone}
    BY <1>5, <2>1, OneOrNone
  <2>3. right2 \in Seq(Py!Event) /\ ToSet(right2) = IF d = "none" THEN {} ELSE {Come}
    BY <1>5, <2>1, OneOrNone
  <2> QED BY <2>2, <2>3
<1>8. /\ keys2 \in Seq(Py!Event)
      /\ ToSet(keys2) = IF ~pad.dpadKeys THEN {}
                        ELSE (IF dpad = "none" THEN {} ELSE {Gone})
                             \cup (IF d = "none" THEN {} ELSE {Come})
  <2>1. keys2 = IF ~pad.dpadKeys THEN <<>> ELSE left2 \o right2 OBVIOUS
  <2> HIDE DEF left2, right2, Gone, Come, keys2
  <2>2. left2 \o right2 \in Seq(Py!Event)
        /\ ToSet(left2 \o right2) = ToSet(left2) \cup ToSet(right2)
    BY <1>7, EitherOrder
  <2>3. <<>> \in Seq(Py!Event) /\ ToSet(<<>>) = {} BY ToSetOf
  <2>4. CASE pad.dpadKeys BY <1>7, <2>1, <2>2, <2>4
  <2>5. CASE ~pad.dpadKeys BY <2>1, <2>3, <2>5
  <2> QED BY <2>4, <2>5
<1> HIDE DEF Gone, Come, H, hat2, keys2
<1>9. PICK new \in Seq(Py!Event) :
         /\ Py!Emit(new)
         /\ ToSet(new) = (IF pad.hat THEN {H} ELSE {})
                         \cup (IF ~pad.dpadKeys THEN {}
                               ELSE (IF dpad = "none" THEN {} ELSE {Gone})
                                    \cup (IF d = "none" THEN {} ELSE {Come}))
  <2>1. /\ hat2 \o keys2 \in Seq(Py!Event) /\ keys2 \o hat2 \in Seq(Py!Event)
        /\ ToSet(hat2 \o keys2) = ToSet(hat2) \cup ToSet(keys2)
        /\ ToSet(keys2 \o hat2) = ToSet(hat2) \cup ToSet(keys2)
    BY <1>6, <1>8, EitherOrder
  <2> QED BY <1>1, <1>6, <1>8, <2>1
<1>10. \A k : \A e \in Py!Event : KeyEvents(k)' = KeyEvents(k) /\ (MakesOn(e)' <=> MakesOn(e))
  BY <1>2 DEF KeyEvents, MakesOn
<1>11. ASSUME NEW k \in Py!Directions
       PROVE  /\ H \in KeyEvents(k) <=> ~pad.ps3 /\ d \in {k, "none"}
              /\ MakesOn(H) <=> d # "none"
              /\ dpad # "none" => (Gone \in KeyEvents(k) <=> k = dpad) /\ ~MakesOn(Gone)
              /\ d # "none" => (Come \in KeyEvents(k) <=> k = d) /\ MakesOn(Come)
  BY <1>4, <1>5 DEF KeyEvents, MakesOn
<1>12. ASSUME NEW k \in Py!Directions
       PROVE  /\ MayBeOn(k)' <=> d = k \/ (pad.hat /\ ~pad.ps3 /\ crossed')
              /\ MayBeOff(k)' <=> d # k
              /\ MayBeOn(k) <=> dpad = k \/ (pad.hat /\ ~pad.ps3 /\ crossed)
              /\ MayBeOff(k) <=> dpad # k
  BY <1>1, <1>2 DEF MayBeOn, MayBeOff
<1>13. ASSUME NEW k \in Py!Directions
       PROVE  /\ \A e \in ToSet(new) : e \in KeyEvents(k) => e \in KeySays(k)'
              /\ Without(new, KeyEvents(k)) =>
                    (MayBeOn(k) => MayBeOn(k)') /\ (MayBeOff(k) => MayBeOff(k)')
  <2>1. ASSUME NEW e \in ToSet(new), e \in KeyEvents(k) PROVE e \in KeySays(k)'
    <3>1. IF MakesOn(e) THEN d = k ELSE d # k
      BY <1>1, <1>2, <1>9, <1>11, <2>1
    <3> QED BY <1>10, <1>12, <2>1, <3>1 DEF KeySays, KeyEvents
  <2>2. ASSUME Without(new, KeyEvents(k))
        PROVE  (MayBeOn(k) => MayBeOn(k)') /\ (MayBeOff(k) => MayBeOff(k)')
    <3>1. \A e \in ToSet(new) : e \notin KeyEvents(k) BY <2>2 DEF Without
    <3>2. pad.hat /\ ~pad.ps3 => d \notin {k, "none"} BY <1>9, <1>11, <3>1
    <3>3. pad.dpadKeys => k # dpad /\ k # d BY <1>2, <1>9, <1>11, <3>1
    <3> QED BY <1>1, <1>2, <1>12, <3>2, <3>3
  <2> QED BY <2>1, <2>2
<1>14. ASSUME NEW k \in Py!Keys \ Py!Directions
       PROVE  /\ \A e \in ToSet(new) : e \notin KeyEvents(k)
              /\ (MayBeOn(k) => MayBeOn(k)') /\ (MayBeOff(k) => MayBeOff(k)')
  <2>1. \A e \in ToSet(new) : e \notin KeyEvents(k)
    BY <1>2, <1>4, <1>5, <1>9, <1>14 DEF KeyEvents
  <2> QED BY <1>1, <1>2, <2>1 DEF MayBeOn, MayBeOff
<1>15. \A e \in ToSet(new) : e \notin StickEvents BY <1>4, <1>5, <1>9 DEF StickEvents
<1> QED BY <1>1, <1>2, <1>3, <1>9, <1>13, <1>14, <1>15, PyEmits

\* The trigger moves: by its axis, by its key, or by both.
LEMMA PyMovesTrigger ==
    ASSUME PyInv, NEW l \in Py!Levels, Py!MoveTrigger(l)
    PROVE  PyInv'
<1> DEFINE Z     == [kind |-> "z", at |-> l]
           on    == l # "released"
           K     == Py!Key("ZL", on)
           axis2 == IF pad.zAxis THEN <<Z>> ELSE <<>>
           key2  == IF pad.zKey /\ "released" \in {trigger, l} THEN <<K>> ELSE <<>>
<1>1. /\ l # trigger /\ trigger' = l /\ UNCHANGED <<down, dpad, stick, crossed>>
      /\ Py!Emit(axis2 \o key2) \/ Py!Emit(key2 \o axis2)
  BY DEF Py!MoveTrigger
<1>2. /\ dpad \in Py!Directions \cup {"none"} /\ down \subseteq Plain /\ trigger \in Py!Levels
      /\ stick \in Py!Positions /\ crossed \in BOOLEAN /\ pad' = pad
      /\ (pad.ps3 => pad.zKey) /\ (pad.zAxis \/ pad.zKey)
      /\ "ZL" \in Py!Keys /\ "ZL" \notin Plain /\ "ZL" \notin Py!Directions
  BY <1>1, CompanionsAssumption
     DEF PyInv, Py!TypeOK, Py!Emit, Py!PyAssumption, Py!Directions, Py!Keys
<1>3. on \in BOOLEAN BY Zenon
<1>4. /\ Z \in Py!Event /\ Z.kind = "z" /\ Z.at = l
      /\ K \in Py!Event /\ K.kind = "key" /\ K.code = "ZL" /\ K.on = on
  BY <1>2, <1>3 DEF Py!Event, Py!Key
<1> HIDE DEF K, Z
<1>5. /\ axis2 \in Seq(Py!Event) /\ ToSet(axis2) = IF pad.zAxis THEN {Z} ELSE {}
      /\ key2 \in Seq(Py!Event)
      /\ ToSet(key2) = IF pad.zKey /\ "released" \in {trigger, l} THEN {K} ELSE {}
  <2>1. /\ axis2 = IF pad.zAxis THEN <<Z>> ELSE <<>>
        /\ key2 = IF pad.zKey /\ "released" \in {trigger, l} THEN <<K>> ELSE <<>>
        /\ <<Z>> # <<>> /\ <<K>> # <<>>
    OBVIOUS
  <2> HIDE DEF axis2, key2
  <2>2. axis2 \in Seq(Py!Event) /\ ToSet(axis2) = IF pad.zAxis THEN {Z} ELSE {}
    <3>1. axis2 = <<>> \/ (Z \in Py!Event /\ axis2 = <<Z>>) BY <1>4, <2>1
    <3>2. axis2 \in Seq(Py!Event) /\ ToSet(axis2) = IF axis2 = <<>> THEN {} ELSE {Z}
      BY <3>1, OneOrNone
    <3> QED BY <2>1, <3>2
  <2>3. /\ key2 \in Seq(Py!Event)
        /\ ToSet(key2) = IF pad.zKey /\ "released" \in {trigger, l} THEN {K} ELSE {}
    <3>1. key2 = <<>> \/ (K \in Py!Event /\ key2 = <<K>>) BY <1>4, <2>1
    <3>2. key2 \in Seq(Py!Event) /\ ToSet(key2) = IF key2 = <<>> THEN {} ELSE {K}
      BY <3>1, OneOrNone
    <3> QED BY <2>1, <3>2
  <2> QED BY <2>2, <2>3
<1> HIDE DEF axis2, key2
<1>6. PICK new \in Seq(Py!Event) :
         /\ Py!Emit(new)
         /\ ToSet(new) = (IF pad.zAxis THEN {Z} ELSE {})
                         \cup (IF pad.zKey /\ "released" \in {trigger, l} THEN {K} ELSE {})
  <2>1. /\ axis2 \o key2 \in Seq(Py!Event) /\ key2 \o axis2 \in Seq(Py!Event)
        /\ ToSet(axis2 \o key2) = ToSet(axis2) \cup ToSet(key2)
        /\ ToSet(key2 \o axis2) = ToSet(axis2) \cup ToSet(key2)
    BY <1>5, EitherOrder
  <2> QED BY <1>1, <1>5, <2>1
<1>7. \A k : \A e \in Py!Event : KeyEvents(k)' = KeyEvents(k) /\ (MakesOn(e)' <=> MakesOn(e))
  BY <1>2 DEF KeyEvents, MakesOn
<1>8. /\ Z \in KeyEvents("ZL") <=> ~pad.ps3
      /\ MakesOn(Z) <=> l = "full"
      /\ K \in KeyEvents("ZL") /\ (MakesOn(K) <=> l # "released")
  BY <1>4 DEF KeyEvents, MakesOn
<1>9. /\ MayBeOn("ZL")' <=> l # "released"
      /\ MayBeOff("ZL")' <=> l # "full" /\ (pad.ps3 \/ ~pad.zAxis => l = "released")
      /\ MayBeOn("ZL") <=> trigger # "released"
      /\ MayBeOff("ZL") <=> trigger # "full" /\ (pad.ps3 \/ ~pad.zAxis => trigger = "released")
  BY <1>1, <1>2 DEF MayBeOn, MayBeOff
<1>10. \A e \in ToSet(new) : e \in KeyEvents("ZL") => e \in KeySays("ZL")'
  <2> SUFFICES ASSUME NEW e \in ToSet(new), e \in KeyEvents("ZL") PROVE e \in KeySays("ZL")'
    OBVIOUS
  <2>1. IF MakesOn(e) THEN MayBeOn("ZL")' ELSE MayBeOff("ZL")'
    <3>1. CASE e = Z
      <4>1. pad.zAxis /\ ~pad.ps3
        BY <1>4, <1>6, <1>8, <3>1
      <4> QED BY <1>8, <1>9, <3>1, <4>1
    <3>2. CASE e = K BY <1>8, <1>9, <3>2
    <3> QED BY <1>6, <3>1, <3>2
  <2> QED BY <1>7, <2>1 DEF KeySays, KeyEvents
<1>11. Without(new, KeyEvents("ZL")) => /\ MayBeOn("ZL") => MayBeOn("ZL")'
                                        /\ MayBeOff("ZL") => MayBeOff("ZL")'
  <2> SUFFICES ASSUME Without(new, KeyEvents("ZL"))
               PROVE  /\ MayBeOn("ZL") => MayBeOn("ZL")'
                      /\ MayBeOff("ZL") => MayBeOff("ZL")'
    OBVIOUS
  <2>1. \A e \in ToSet(new) : e \notin KeyEvents("ZL") BY DEF Without
  <2>2. pad.ps3 \/ ~pad.zAxis BY <1>6, <1>8, <2>1
  <2>3. "released" \notin {trigger, l} BY <1>2, <1>6, <1>8, <2>1, <2>2
  <2> QED BY <1>9, <2>2, <2>3
<1>12. ASSUME NEW k \in Py!Keys \ {"ZL"}
       PROVE  /\ \A e \in ToSet(new) : e \notin KeyEvents(k)
              /\ (MayBeOn(k) => MayBeOn(k)') /\ (MayBeOff(k) => MayBeOff(k)')
  <2>1. \A e \in ToSet(new) : e \notin KeyEvents(k)
    BY <1>4, <1>6, <1>12 DEF KeyEvents
  <2> QED BY <1>1, <1>2, <2>1 DEF MayBeOn, MayBeOff
<1>13. \A e \in ToSet(new) : e \notin StickEvents BY <1>4, <1>6 DEF StickEvents
<1>14. ASSUME NEW k \in Py!Keys
       PROVE  /\ \A e \in ToSet(new) : e \in KeyEvents(k) => e \in KeySays(k)'
              /\ Without(new, KeyEvents(k)) =>
                    (MayBeOn(k) => MayBeOn(k)') /\ (MayBeOff(k) => MayBeOff(k)')
  BY <1>10, <1>11, <1>12
<1> QED BY <1>1, <1>2, <1>6, <1>13, <1>14, PyEmits

\* What happens on a gamepad that is one event: of a key without a case, of a
\* button, of the stick.
LEMMA PyOneEvent ==
    ASSUME PyInv, NEW e \in Py!Event, Py!Emit(<<e>>), UNCHANGED <<dpad, trigger, crossed>>,
           \/ down' = down /\ stick' = stick /\ e.kind = "key" /\ e.code \in Strange
           \/ /\ stick' = stick /\ e.kind = "key" /\ e.code \in Plain
              /\ \/ e.on /\ down' = down \cup {e.code}
                 \/ ~e.on /\ down' = down \ {e.code}
           \/ down' = down /\ e.kind = "stick" /\ stick' = e.at
    PROVE  PyInv'
<1>1. <<e>> \in Seq(Py!Event) /\ ToSet(<<e>>) = {e} BY ShortLists, ToSetOf
<1>2. Py!TypeOK /\ pad' = pad BY DEF PyInv, Py!Emit
<1>3. /\ \A k \in Strange : k \notin Py!Keys
      /\ \A k \in Plain : k \notin Py!Directions /\ k # "ZL"
  BY CompanionsAssumption DEF Py!PyAssumption, Py!Keys
<1>4. down' \subseteq Plain /\ stick' \in Py!Positions
  BY <1>2 DEF Py!TypeOK, Py!Event
<1>5. ASSUME NEW k \in Py!Keys
      PROVE  /\ e \in KeyEvents(k) => e \in KeySays(k)'
             /\ e \notin KeyEvents(k) =>
                   (MayBeOn(k) => MayBeOn(k)') /\ (MayBeOff(k) => MayBeOff(k)')
  <2>1. KeyEvents(k)' = KeyEvents(k) /\ (MakesOn(e)' <=> MakesOn(e))
    BY <1>2 DEF KeyEvents, MakesOn
  <2>2. CASE e.kind = "stick"
    BY <1>2, <2>2 DEF KeyEvents, MayBeOn, MayBeOff
  <2>3. CASE e.kind = "key" /\ e.code \in Strange
    BY <1>2, <1>3, <2>3 DEF KeyEvents, MayBeOn, MayBeOff
  <2>4. CASE e.kind = "key" /\ e.code \in Plain
    <3>1. e \in KeyEvents(k) <=> k = e.code BY <2>4 DEF KeyEvents
    <3>2. MakesOn(e) <=> e.on BY <2>4 DEF MakesOn
    <3>3. k # e.code => (MayBeOn(k) => MayBeOn(k)') /\ (MayBeOff(k) => MayBeOff(k)')
      BY <1>2, <1>3, <2>4 DEF MayBeOn, MayBeOff
    <3>4. k = e.code => IF e.on THEN MayBeOn(k)' ELSE MayBeOff(k)'
      BY <1>3, <2>4 DEF MayBeOn, MayBeOff
    <3> QED BY <2>1, <3>1, <3>2, <3>3, <3>4 DEF KeySays
  <2> QED BY <2>2, <2>3, <2>4
<1>6. IF e \in StickEvents THEN e.at = stick' ELSE stick' = stick BY DEF StickEvents
<1> QED BY <1>1, <1>2, <1>4, <1>5, <1>6, PyEmits DEF Py!TypeOK, Without

LEMMA NextPyInv == ASSUME PyInv, [Py!Next]_Py!vars PROVE PyInv'
<1>1. CASE Py!Gamepad
  <2>1. ASSUME NEW code \in Plain, Py!PressKey(code) PROVE PyInv'
    <3> DEFINE on == code \notin down
               e  == Py!Key(code, on)
    <3>1. on \in BOOLEAN BY Zenon
    <3>2. /\ e \in Py!Event /\ e.kind = "key" /\ e.code = code /\ e.on = on
      BY <3>1 DEF Py!Key, Py!Event, Py!Keys
    <3>3. /\ Py!Emit(<<e>>) /\ UNCHANGED <<dpad, trigger, stick, crossed>>
          /\ down' = IF on THEN down \cup {code} ELSE down \ {code}
      BY <2>1 DEF Py!PressKey
    <3> HIDE DEF e, on
    <3> QED BY <3>2, <3>3, PyOneEvent
  <2>2. ASSUME NEW code \in Strange, NEW on \in BOOLEAN, Py!PressStrange(code, on) PROVE PyInv'
    <3> DEFINE e == Py!Key(code, on)
    <3>1. e \in Py!Event /\ e.kind = "key" /\ e.code = code BY DEF Py!Key, Py!Event
    <3>2. Py!Emit(<<e>>) /\ UNCHANGED <<down, dpad, trigger, stick, crossed>>
      BY <2>2 DEF Py!PressStrange
    <3> HIDE DEF e
    <3> QED BY <3>1, <3>2, PyOneEvent
  <2>3. ASSUME NEW d \in Py!Directions \cup {"none"}, Py!MoveDpad(d) PROVE PyInv'
    BY <2>3, PyMovesDpad
  <2>4. ASSUME NEW l \in Py!Levels, Py!MoveTrigger(l) PROVE PyInv'
    BY <2>4, PyMovesTrigger
  <2>5. ASSUME NEW to \in Py!Positions, Py!MoveStick(to) PROVE PyInv'
    <3> DEFINE e == [kind |-> "stick", at |-> to]
    <3>1. e \in Py!Event /\ e.kind = "stick" /\ e.at = to BY DEF Py!Event
    <3>2. Py!Emit(<<e>>) /\ UNCHANGED <<down, dpad, trigger, crossed>> /\ stick' = to
      BY <2>5 DEF Py!MoveStick
    <3> HIDE DEF e
    <3> QED BY <3>1, <3>2, PyOneEvent
  <2>6. CASE Py!CalmDown
    <3>1. Py!TypeOK' BY <2>6 DEF Py!CalmDown, PyInv, Py!TypeOK
    <3> QED BY <2>6, <3>1, PyStays DEF Py!CalmDown
  <2> QED BY <1>1, <2>1, <2>2, <2>3, <2>4, <2>5, <2>6 DEF Py!Gamepad
<1>2. CASE Py!Poller BY <1>2, PyHandles, PyAssigns DEF Py!Poller
<1>3. CASE Py!GamepadDisconnected
  <2>1. Py!TypeOK' BY <1>3 DEF Py!GamepadDisconnected, Py!padVars, PyInv, Py!TypeOK
  <2> QED BY <1>3, <2>1, PyStays DEF Py!GamepadDisconnected, Py!padVars
<1>4. CASE Py!Sender
  <2>1. /\ UNCHANGED <<pad, down, dpad, trigger, stick, crossed, calm, queue, work, keyout, dx>>
        /\ \/ exited' = exited /\ (taken' = keyout \/ taken' = Py!Nothing)
           \/ exited' = TRUE /\ taken' = taken
    BY <1>4 DEF Py!Sender, Py!ReadKeyout, Py!SendTo, Py!SendFails, Py!padVars
  <2>2. Py!TypeOK' BY <2>1 DEF PyInv, Py!TypeOK
  <2> QED BY <2>1, <2>2, PyStays
<1>5. CASE UNCHANGED Py!vars
  <2>1. UNCHANGED <<pad, down, dpad, trigger, stick, crossed, calm, queue, work, keyout, dx, taken, exited>>
    BY <1>5 DEF Py!vars, Py!padVars
  <2>2. Py!TypeOK' BY <2>1 DEF PyInv, Py!TypeOK
  <2> QED BY <2>1, <2>2, PyStays
<1> QED BY <1>1, <1>2, <1>3, <1>4, <1>5 DEF Py!Next

\* With nothing left to handle, every key is what it may be in the end.
LEMMA PyTells == PyInv => Py!AtRestTells
<1> SUFFICES ASSUME PyInv, queue = <<>>, work = <<>> PROVE Py!Tells(keyout, dx)
  BY DEF Py!AtRestTells
<1>1. \A s : Without(queue, s) /\ Without(work, s) BY ToSetOf DEF Without
<1>2. \A k \in Py!Keys : IF k \in keyout THEN MayBeOn(k) ELSE MayBeOff(k)
  BY <1>1 DEF PyInv, KeyFollows
<1>3. dx = IF stick = "outside" THEN "outside" ELSE "centre"
  BY <1>1 DEF PyInv, StickFollows
<1>4. /\ keyout \subseteq Py!Keys /\ down \subseteq Plain /\ dpad \in Py!Directions \cup {"none"}
      /\ trigger \in Py!Levels /\ "none" \notin Py!Directions
      /\ Plain \subseteq Py!Keys /\ Py!Directions \subseteq Py!Keys /\ "ZL" \in Py!Keys
  BY DEF PyInv, Py!TypeOK, Py!Keys, Py!Directions
<1>5. keyout \cap Plain = down BY <1>2, <1>4 DEF MayBeOn, MayBeOff
<1>6. {dpad} \ {"none"} \subseteq keyout BY <1>2, <1>4 DEF MayBeOff
<1>7. ~crossed => keyout \cap Py!Directions \subseteq {dpad} BY <1>2, <1>4 DEF MayBeOn
<1>8. trigger # "half" => ("ZL" \in keyout <=> trigger = "full")
  BY <1>2, <1>4 DEF MayBeOn, MayBeOff, Py!Levels
<1> QED BY <1>3, <1>5, <1>6, <1>7, <1>8 DEF Py!Tells

-----------------------------------------------------------------------------
(* The Android companion's packets.                                        *)

AndroidEvent == Android!Motion \cup Android!Key
Motions      == Android!Motion

\* The events that may change a key, and those of them that do so whatever
\* dpad_is_axis is: a hat in the middle may be that of a gamepad which reports
\* its d-pad by keys.
AboutKey(k) ==
    {e \in AndroidEvent : \/ e.kind = "key" /\ e.code = k
                          \/ e.kind = "motion" /\ k = "L2"
                          \/ e.kind = "motion" /\ k \in Android!Directions /\ pad.hat}
SureOf(k) ==
    {e \in AboutKey(k) : e.kind = "motion" /\ k \in Android!Directions /\ pad.dpadKeys
                            => e.dpad # "none"}

\* What an event makes of a key, and those that make of it what it is.
Presses(e, k) == \/ e.kind = "key" /\ e.down
                 \/ e.kind = "motion" /\ k = "L2" /\ e.trigger
                 \/ e.kind = "motion" /\ k # "L2" /\ e.dpad = k
KeyTells(k)   == {e \in AboutKey(k) : Presses(e, k) <=> k \in Android!Held}

\* A key speaks for its button if it was told last, or none of them was told.
Speaks(k) == k \in told \/ \A o \in told : Android!ButtonOf(o) # Android!ButtonOf(k)

\* What is to be seen of a key in the end, and the instructions that show it.
Wanted(k)    == k \in Android!Held /\ k \in told
SetsOf(k)    == {w \in Android!Instruction : w.op = "set" /\ w.key = Android!ButtonOf(k)}
SetsRight(k) == {w \in SetsOf(k) : w.to <=> Wanted(k)}
Seen(k)      == Android!ButtonOf(k) \in pressed_keys

\* The same for the stick.
MotionTells   == {e \in Motions : e.stick = stick}
Shown(at)     == IF at = "outside" THEN "outside" ELSE "centre"
Joys          == {w \in Android!Instruction : w.op = "joy"}
JoysRight(at) == {w \in Joys : w.to = Shown(at)}

KeyShown(k) ==
    /\ LastGood(queue, AboutKey(k), SureOf(k), KeyTells(k))
    /\ Without(queue, SureOf(k)) /\ Speaks(k) =>
          /\ LastGood(work, SetsOf(k), SetsOf(k), SetsRight(k))
          /\ Without(work, SetsOf(k)) => (Seen(k) <=> Wanted(k))

StickShown ==
    /\ LastGood(queue, Motions, Motions, MotionTells)
    /\ Without(queue, Motions) =>
          /\ LastGood(work, Joys, Joys, JoysRight(stick))
          /\ Without(work, Joys) => ("stick" \in told => joy = Shown(stick))

\* In which way the d-pad is told, and that dpad_is_axis follows it.
DpadTold ==
    /\ \A e \in ToSet(queue) :
          /\ e.kind = "key" /\ e.code \in Android!Directions => pad.dpadKeys
          /\ e.kind = "motion" /\ ~pad.hat => e.dpad = "none"
    /\ ~pad.dpadKeys => dpad_is_axis
    /\ ~pad.hat /\ dpad_is_axis => told \cap Android!Directions = {}

\* A handler sets a button once, and until then it is what it was before.
SetOnce(q) == \A m, n \in DOMAIN q :
                 q[m].op = "set" /\ q[n].op = "set" /\ q[m].key = q[n].key => m = n
NotYetSet  == \A n \in DOMAIN work :
                 work[n].op = "set" => (work[n].key \in pressed_keys <=> work[n].key \in before)

AndroidInv ==
    /\ Android!TypeOK
    /\ (\A k \in Android!Keys : KeyShown(k)) /\ StickShown /\ DpadTold
    /\ SetOnce(work) /\ NotYetSet

\* The d-pad's keys and the trigger's have buttons of their own.
LEMMA OwnButtons ==
    /\ \A k \in Android!Keys : Android!ButtonOf(k) \in Android!Buttons
    /\ \A k \in Android!Directions \cup {"L2"} :
          /\ k \in Android!Keys /\ Android!ButtonOf(k) = k
          /\ \A o \in Android!Keys : Android!ButtonOf(o) = k => o = k
    /\ "stick" \notin Android!Keys
    /\ \A k \in Android!Keys : Android!ButtonOf(k) # Android!ButtonOf("stick")
<1>1. "L2" # "stick" /\ "stick" \notin Android!Directions BY DEF Android!Directions
<1>2. /\ "stick" \notin AndroidKeys
      /\ \A k \in AndroidKeys : k \notin Android!Directions \cup {"L2"}
      /\ \A k \in AndroidKeys : Button[k] \notin Android!Directions \cup {"L2", "stick"}
  BY CompanionsAssumption DEF Android!AndroidAssumption
<1>3. /\ \A k \in AndroidKeys : Android!ButtonOf(k) = Button[k]
      /\ \A k : k \notin AndroidKeys => Android!ButtonOf(k) = k
  BY DEF Android!ButtonOf
<1>4. Android!Keys = AndroidKeys \cup Android!Directions \cup {"L2"} BY DEF Android!Keys
<1>5. \A k \in Android!Keys : Android!ButtonOf(k) \in Android!Buttons BY DEF Android!Buttons
<1> QED BY <1>1, <1>2, <1>3, <1>4, <1>5

LEMMA InitAndroidInv == Android!Init => AndroidInv
<1> SUFFICES ASSUME Android!Init PROVE AndroidInv
  OBVIOUS
<1>1. /\ queue = <<>> /\ queue \in Seq(AndroidEvent) /\ DOMAIN queue = {} /\ ToSet(queue) = {}
      /\ work = <<>> /\ work \in Seq(Android!Instruction) /\ DOMAIN work = {}
  BY ToSetOf DEF Android!Init
<1>2. Android!TypeOK
  <2>1. calm \in BOOLEAN /\ trigger \in BOOLEAN /\ dpad_is_axis \in BOOLEAN BY Zenon DEF Android!Init
  <2>2. /\ pad \in AndroidPads /\ down = {} /\ dpad = "none" /\ stick = "inside" /\ pressed_keys = {}
        /\ joy = "centre" /\ told = {} /\ before = {}
    BY DEF Android!Init
  <2>3. stick \in Android!Positions /\ joy \in Android!Coordinates
    BY <2>2 DEF Android!Positions, Android!Coordinates
  <2>4. queue \in Seq(Android!Motion \cup Android!Key) BY <1>1 DEF AndroidEvent
  <2> QED BY <1>1, <2>1, <2>2, <2>3, <2>4 DEF Android!TypeOK
<1>3. ASSUME NEW k \in Android!Keys PROVE KeyShown(k)
  <2>1. ~Wanted(k) /\ ~Seen(k) BY DEF Android!Init, Wanted, Seen
  <2> QED BY <1>1, <2>1 DEF KeyShown, LastGood
<1>4. StickShown BY <1>1 DEF StickShown, LastGood, Android!Init
<1>5. DpadTold BY <1>1 DEF DpadTold, Android!Init
<1>6. SetOnce(work) /\ NotYetSet BY <1>1 DEF SetOnce, NotYetSet
<1> QED BY <1>2, <1>3, <1>4, <1>5, <1>6 DEF AndroidInv

\* Something happens, and the new events tell it.
LEMMA AndroidReports ==
    ASSUME AndroidInv, NEW new \in Seq(AndroidEvent), Android!Report(new),
           down' \subseteq AndroidKeys, dpad' \in Android!Directions \cup {"none"},
           trigger' \in BOOLEAN, stick' \in Android!Positions,
           \A k \in Android!Keys :
              /\ \A e \in ToSet(new) : e \in AboutKey(k) => e \in KeyTells(k)'
              /\ Without(new, SureOf(k)) =>
                    \/ k \in Android!Held' <=> k \in Android!Held
                    \/ k \notin told /\ Without(queue, AboutKey(k)),
           \A e \in ToSet(new) : e \in Motions => e.stick = stick',
           Without(new, Motions) => stick' = stick,
           \A e \in ToSet(new) :
              /\ e.kind = "key" /\ e.code \in Android!Directions => pad.dpadKeys
              /\ e.kind = "motion" /\ ~pad.hat => e.dpad = "none"
    PROVE  AndroidInv'
<1>1. queue \in Seq(AndroidEvent) /\ queue' = queue \o new
      /\ UNCHANGED <<pad, calm, work, pressed_keys, joy, dpad_is_axis, told, before>>
  BY DEF Android!Report, Android!fieldVars, AndroidInv, Android!TypeOK, AndroidEvent
<1>2. queue' \in Seq(AndroidEvent) /\ ToSet(queue') = ToSet(queue) \cup ToSet(new)
  BY <1>1, ConcatElements
<1>3. Android!TypeOK' BY <1>1, <1>2 DEF AndroidInv, Android!TypeOK, AndroidEvent
<1>4. \A n \in DOMAIN new : new[n] \in ToSet(new) BY DEF ToSet
<1>5. ASSUME NEW k \in Android!Keys PROVE KeyShown(k)'
  <2> DEFINE about == AboutKey(k)
             sure  == SureOf(k)
             good  == KeyTells(k)'
             held  == k \in Android!Held
  <2>1. /\ AboutKey(k)' = about /\ SureOf(k)' = sure /\ SetsOf(k)' = SetsOf(k)
        /\ (Speaks(k)' <=> Speaks(k)) /\ (Seen(k)' <=> Seen(k))
    BY <1>1 DEF AboutKey, SureOf, SetsOf, Speaks, Seen
  <2>2. LastGood(queue, about, sure, KeyTells(k)) BY DEF AndroidInv, KeyShown
  <2>3. (k \in Android!Held' <=> k \in Android!Held) => KeyTells(k)' = KeyTells(k)
    BY <2>1 DEF KeyTells, Presses
  <2>4. Without(new, sure) => LastGood(queue, about, sure, good)
    <3>1. (k \in Android!Held' <=> k \in Android!Held) => LastGood(queue, about, sure, good)
      BY <2>2, <2>3
    <3>2. Without(queue, about) => LastGood(queue, about, sure, good)
      <4> HIDE DEF about, sure, good
      <4> QED BY <1>1 DEF Without, LastGood, ToSet
    <3> QED BY <3>1, <3>2
  <2>5. LastGood(new, about, sure, good)
    <3>1. \A e \in ToSet(new) : e \in about => e \in good OBVIOUS
    <3> HIDE DEF about, sure, good
    <3> QED BY <1>4, <3>1 DEF LastGood
  <2>6. LastGood(queue', about, sure, good)
    <3> HIDE DEF about, sure, good
    <3> QED BY <1>1, <2>4, <2>5, LastGoodConcat
  <2>7. Without(queue', sure) => Without(queue, sure) /\ Without(new, sure)
    BY <1>2 DEF Without
  <2>8. ASSUME Without(queue', sure), Speaks(k)
        PROVE  /\ LastGood(work', SetsOf(k), SetsOf(k), SetsRight(k)')
               /\ Without(work', SetsOf(k)) => (Seen(k) <=> Wanted(k)')
    <3>1. /\ LastGood(work, SetsOf(k), SetsOf(k), SetsRight(k))
          /\ Without(work, SetsOf(k)) => (Seen(k) <=> Wanted(k))
      BY <2>7, <2>8 DEF AndroidInv, KeyShown
    <3>2. Wanted(k)' <=> Wanted(k) BY <1>1, <2>7, <2>8 DEF Wanted
    <3>3. SetsRight(k)' = SetsRight(k) BY <2>1, <3>2 DEF SetsRight
    <3> QED BY <1>1, <3>1, <3>2, <3>3
  <2> QED BY <2>1, <2>6, <2>8 DEF KeyShown
<1>6. StickShown'
  <2>1. Motions' = Motions /\ Joys' = Joys /\ JoysRight(stick)' = JoysRight(stick')
        /\ Shown(stick)' = Shown(stick')
    BY DEF Motions, Joys, JoysRight, Shown
  <2>2. LastGood(queue, Motions, Motions, MotionTells) BY DEF AndroidInv, StickShown
  <2>3. Without(new, Motions) => MotionTells' = MotionTells BY <2>1 DEF MotionTells
  <2>4. LastGood(new, Motions, Motions, MotionTells')
    BY <1>4, <2>1 DEF LastGood, MotionTells
  <2>5. LastGood(queue', Motions, Motions, MotionTells')
    BY <1>1, <2>2, <2>3, <2>4, LastGoodConcat
  <2>6. Without(queue', Motions) => Without(queue, Motions) /\ Without(new, Motions)
    BY <1>2 DEF Without
  <2> QED BY <1>1, <2>1, <2>5, <2>6 DEF AndroidInv, StickShown
<1>7. DpadTold' BY <1>1, <1>2 DEF AndroidInv, DpadTold
<1>8. SetOnce(work)' /\ NotYetSet' BY <1>1 DEF AndroidInv, SetOnce, NotYetSet
<1> QED BY <1>3, <1>5, <1>6, <1>7, <1>8 DEF AndroidInv

\* What the handler of a motion does: L2, and both sides of the d-pad if it
\* counts as an axis, each once, and the stick's coordinate.
LEMMA MotionWorkOf ==
    ASSUME NEW e \in Motions, NEW asAxis \in BOOLEAN
    PROVE  /\ Android!MotionWork(e, asAxis) \in Seq(Android!Instruction)
           /\ \A w \in ToSet(Android!MotionWork(e, asAxis)) : w.op = "set" =>
                 \/ w.key = "L2" /\ (w.to <=> e.trigger)
                 \/ asAxis /\ w.key \in Android!Directions /\ (w.to <=> e.dpad = w.key)
           /\ ~Without(Android!MotionWork(e, asAxis), SetsOf("L2"))
           /\ asAxis => \A k \in Android!Directions :
                           ~Without(Android!MotionWork(e, asAxis), SetsOf(k))
           /\ LastGood(Android!MotionWork(e, asAxis), Joys, Joys, JoysRight(e.stick))
           /\ ~Without(Android!MotionWork(e, asAxis), Joys)
           /\ SetOnce(Android!MotionWork(e, asAxis))
<1> DEFINE S(k, to) == [op |-> "set", key |-> k, to |-> to]
           J(at)    == [op |-> "joy", to |-> at]
           onLeft   == e.dpad = "left"
           onRight  == e.dpad = "right"
           first    == J(e.stick)
           middle   == J("centre")
           ltwo     == S("L2", e.trigger)
           left     == S("left", onLeft)
           right    == S("right", onRight)
           ws       == Android!MotionWork(e, asAxis)
           joys     == IF e.stick = "inside" THEN <<first, middle>> ELSE <<first>>
           sets     == IF asAxis THEN <<ltwo, left, right>> ELSE <<ltwo>>
<1>1. /\ e.stick \in Android!Positions /\ e.trigger \in BOOLEAN
      /\ e.stick \in Android!Coordinates /\ "centre" \in Android!Coordinates
      /\ onLeft \in BOOLEAN /\ onRight \in BOOLEAN
      /\ "left" \in Android!Buttons /\ "right" \in Android!Buttons /\ "L2" \in Android!Buttons
      /\ Android!ButtonOf("left") = "left" /\ Android!ButtonOf("right") = "right"
      /\ Android!ButtonOf("L2") = "L2"
      /\ Android!Directions = {"left", "right"}
  BY OwnButtons DEF Motions, Android!Motion, Android!Coordinates, Android!Directions
<1>2. ws = joys \o sets
  BY DEF Android!MotionWork, Android!TriggerWork, Android!Joy, Android!SetKey
<1>3. /\ first \in Android!Instruction /\ middle \in Android!Instruction
      /\ ltwo \in Android!Instruction /\ left \in Android!Instruction
      /\ right \in Android!Instruction
  BY <1>1 DEF Android!Instruction
<1>4. /\ first.op = "joy" /\ middle.op = "joy" /\ first.to = e.stick /\ middle.to = "centre"
      /\ ltwo.op = "set" /\ left.op = "set" /\ right.op = "set"
      /\ ltwo.key = "L2" /\ left.key = "left" /\ right.key = "right"
      /\ (ltwo.to <=> e.trigger) /\ (left.to <=> e.dpad = "left") /\ (right.to <=> e.dpad = "right")
  BY <1>1
<1> HIDE DEF first, middle, ltwo, left, right, ws
<1>5. /\ joys \in Seq(Android!Instruction)
      /\ ToSet(joys) = IF e.stick = "inside" THEN {first, middle} ELSE {first}
  <2>1. /\ <<first>> \in Seq(Android!Instruction) /\ <<first, middle>> \in Seq(Android!Instruction)
    BY <1>3, ShortLists
  <2> QED BY <2>1, ToSetOf
<1>6. /\ sets \in Seq(Android!Instruction)
      /\ ToSet(sets) = IF asAxis THEN {ltwo, left, right} ELSE {ltwo}
  <2>1. <<ltwo>> \in Seq(Android!Instruction) /\ ToSet(<<ltwo>>) = {ltwo}
    BY <1>3, ShortLists, ToSetOf
  <2>2. /\ <<ltwo, left, right>> \in Seq(Android!Instruction)
        /\ ToSet(<<ltwo, left, right>>) = {ltwo, left, right}
    BY <1>3 DEF ToSet
  <2> QED BY <2>1, <2>2
<1>7. SetOnce(sets) /\ (\A n \in DOMAIN joys : joys[n].op # "set")
  <2>1. SetOnce(<<ltwo>>) BY <1>4 DEF SetOnce
  <2>2. SetOnce(<<ltwo, left, right>>) BY <1>4 DEF SetOnce
  <2> QED BY <1>4, <2>1, <2>2
<1>8. LastGood(joys, Joys, Joys, JoysRight(e.stick))
  <2>1. CASE e.stick = "inside"
    <3>1. joys = <<first, middle>> BY <2>1
    <3>2. middle \in JoysRight(e.stick) /\ middle \in Joys
      BY <1>3, <1>4, <2>1 DEF JoysRight, Joys, Shown
    <3> HIDE DEF joys
    <3> QED BY <3>1, <3>2 DEF LastGood
  <2>2. CASE e.stick # "inside"
    <3>1. joys = <<first>> BY <2>2
    <3>2. e.stick = "outside" BY <1>1, <2>2 DEF Android!Positions
    <3>3. first \in JoysRight(e.stick) BY <1>3, <1>4, <3>2 DEF JoysRight, Joys, Shown
    <3> HIDE DEF joys
    <3> QED BY <3>1, <3>3 DEF LastGood
  <2> QED BY <2>1, <2>2
<1>9. first \in ToSet(joys) /\ ltwo \in ToSet(sets)
      /\ (asAxis => left \in ToSet(sets) /\ right \in ToSet(sets))
      /\ (\A w \in ToSet(joys) : w = first \/ w = middle)
      /\ (\A w \in ToSet(sets) : w = ltwo \/ (asAxis /\ (w = left \/ w = right)))
  BY <1>5, <1>6
<1> HIDE DEF joys, sets
<1>10. ws \in Seq(Android!Instruction) /\ ToSet(ws) = ToSet(joys) \cup ToSet(sets)
  <2>1. joys \in Seq(Android!Instruction) /\ sets \in Seq(Android!Instruction) BY <1>5, <1>6
  <2>2. /\ joys \o sets \in Seq(Android!Instruction)
        /\ ToSet(joys \o sets) = ToSet(joys) \cup ToSet(sets)
    BY <2>1, ConcatElements
  <2> QED BY <1>2, <2>2
<1>11. LastGood(ws, Joys, Joys, JoysRight(e.stick))
  <2>1. \A n \in DOMAIN sets : sets[n] \in ToSet(sets) BY DEF ToSet
  <2>2. \A n \in DOMAIN sets : sets[n] \notin Joys BY <1>4, <1>9, <2>1 DEF Joys
  <2>3. LastGood(sets, Joys, Joys, JoysRight(e.stick)) BY <2>2 DEF LastGood
  <2> QED BY <1>2, <1>5, <1>6, <1>8, <2>3, LastGoodConcat
<1>12. SetOnce(ws)
  <2>1. \A n \in DOMAIN ws : ws[n].op = "set" =>
           n \in Int /\ n - Len(joys) \in DOMAIN sets /\ ws[n] = sets[n - Len(joys)]
    <3> SUFFICES ASSUME NEW n \in DOMAIN ws, ws[n].op = "set"
                 PROVE  n \in Int /\ n - Len(joys) \in DOMAIN sets /\ ws[n] = sets[n - Len(joys)]
      OBVIOUS
    <3>1. n \in Int /\ Len(joys) \in Nat BY <1>5, <1>10
    <3>2. n \in DOMAIN joys => ws[n] = joys[n] BY <1>2, <1>5, <1>6, ConcatElements
    <3>3. n - Len(joys) \in DOMAIN sets BY <1>2, <1>5, <1>6, <1>7, <3>2, ConcatElements
    <3>4. ws[(n - Len(joys)) + Len(joys)] = sets[n - Len(joys)]
      BY <1>2, <1>5, <1>6, <3>3, ConcatElements
    <3> QED BY <3>1, <3>3, <3>4
  <2>2. Len(joys) \in Nat BY <1>5
  <2> SUFFICES ASSUME NEW m \in DOMAIN ws, NEW n \in DOMAIN ws,
                      ws[m].op = "set", ws[n].op = "set", ws[m].key = ws[n].key
               PROVE  m = n
    BY DEF SetOnce
  <2>3. m - Len(joys) = n - Len(joys) BY <1>7, <2>1 DEF SetOnce
  <2> QED BY <2>1, <2>2, <2>3
<1>13. \A w \in ToSet(ws) : w.op = "set" =>
          \/ w.key = "L2" /\ (w.to <=> e.trigger)
          \/ asAxis /\ w.key \in Android!Directions /\ (w.to <=> e.dpad = w.key)
  BY <1>1, <1>4, <1>9, <1>10
<1>14. /\ ~Without(ws, SetsOf("L2")) /\ ~Without(ws, Joys)
       /\ asAxis => \A k \in Android!Directions : ~Without(ws, SetsOf(k))
  BY <1>1, <1>3, <1>4, <1>9, <1>10 DEF Without, SetsOf, Joys
<1> QED BY <1>10, <1>11, <1>12, <1>13, <1>14 DEF ws

\* A handler has begun: what remains of the queue and what is to be done show
\* the keys and the stick.
LEMMA AndroidDispatches ==
    ASSUME AndroidInv, NEW kind, Android!NextEvent(kind),
           work' \in Seq(Android!Instruction), SetOnce(work'),
           told' \subseteq Android!Keys \cup {"stick"},
           dpad_is_axis' \in BOOLEAN, ~pad.dpadKeys => dpad_is_axis',
           ~pad.hat /\ dpad_is_axis' => told' \cap Android!Directions = {},
           \* what an event does to a key
           \A k \in Android!Keys :
              /\ Without(work', SetsOf(k)) => /\ Head(queue) \notin SureOf(k)
                                              /\ (k \in told' <=> k \in told)
                                              /\ (Speaks(k)' => Speaks(k))
              /\ \A w \in ToSet(work') : Speaks(k)' /\ w \in SetsOf(k) =>
                    \/ /\ Head(queue) \in AboutKey(k)
                       /\ k \in told' /\ (w.to <=> Presses(Head(queue), k))
                    \/ k \notin told' /\ ~w.to,
           \* and to the stick
           Head(queue) \in Motions => /\ LastGood(work', Joys, Joys, JoysRight(Head(queue).stick))
                                      /\ ~Without(work', Joys),
           Head(queue) \notin Motions => Without(work', Joys) /\ ("stick" \in told' <=> "stick" \in told)
    PROVE  AndroidInv'
<1> DEFINE e == Head(queue)
<1>1. /\ queue # <<>> /\ work = <<>> /\ queue' = Tail(queue) /\ before' = pressed_keys
      /\ UNCHANGED <<pad, down, dpad, trigger, stick, calm, pressed_keys, joy>>
  BY DEF Android!NextEvent, Android!padVars
<1>2. queue \in Seq(AndroidEvent) BY DEF AndroidInv, Android!TypeOK, AndroidEvent
<1>3. queue' \in Seq(AndroidEvent) /\ e \in AndroidEvent /\ ToSet(queue) = {e} \cup ToSet(queue')
  BY <1>1, <1>2, TailElements
<1>4. Android!TypeOK' BY <1>1, <1>3 DEF AndroidInv, Android!TypeOK, AndroidEvent
<1>5. \A n \in DOMAIN work' : work'[n] \in ToSet(work') BY DEF ToSet
<1>6. \A some : Without(work, some) BY <1>1, ToSetOf DEF Without
<1>7. ASSUME NEW k \in Android!Keys PROVE KeyShown(k)'
  <2>1. /\ LastGood(queue, AboutKey(k), SureOf(k), KeyTells(k))
        /\ Without(queue, SureOf(k)) /\ Speaks(k) => (Seen(k) <=> Wanted(k))
    BY <1>6 DEF AndroidInv, KeyShown
  <2>2. /\ LastGood(queue', AboutKey(k), SureOf(k), KeyTells(k))
        /\ Without(queue', SureOf(k)) /\ e \in AboutKey(k) => e \in KeyTells(k)
    BY <1>1, <1>2, <2>1, LastGoodTail
  <2>3. /\ AboutKey(k)' = AboutKey(k) /\ SureOf(k)' = SureOf(k) /\ SetsOf(k)' = SetsOf(k)
        /\ (k \in Android!Held' <=> k \in Android!Held) /\ (Seen(k)' <=> Seen(k))
    BY <1>1 DEF AboutKey, SureOf, SetsOf, Seen, Android!Held
  <2>4. KeyTells(k)' = KeyTells(k) BY <2>3 DEF KeyTells, Presses
  <2>5. /\ Without(work', SetsOf(k)) => /\ e \notin SureOf(k) /\ (k \in told' <=> k \in told)
                                        /\ (Speaks(k)' => Speaks(k))
        /\ \A w \in ToSet(work') : Speaks(k)' /\ w \in SetsOf(k) =>
              \/ e \in AboutKey(k) /\ k \in told' /\ (w.to <=> Presses(e, k))
              \/ k \notin told' /\ ~w.to
    OBVIOUS
  <2> HIDE DEF e
  <2>6. ASSUME Without(queue', SureOf(k)), Speaks(k)'
        PROVE  /\ LastGood(work', SetsOf(k), SetsOf(k), SetsRight(k)')
               /\ Without(work', SetsOf(k)) => (Seen(k) <=> Wanted(k)')
    <3>1. \A w \in ToSet(work') : w \in SetsOf(k) => (w.to <=> Wanted(k)')
      BY <2>2, <2>3, <2>5, <2>6 DEF KeyTells, Wanted
    <3>2. LastGood(work', SetsOf(k), SetsOf(k), SetsRight(k)')
      BY <1>5, <2>3, <3>1 DEF LastGood, SetsRight
    <3>3. ASSUME Without(work', SetsOf(k)) PROVE Seen(k) <=> Wanted(k)'
      <4>1. e \notin SureOf(k) /\ (k \in told' <=> k \in told) /\ Speaks(k) BY <2>5, <2>6, <3>3
      <4>2. Without(queue, SureOf(k)) BY <1>3, <2>6, <4>1 DEF Without
      <4> QED BY <2>1, <2>3, <4>1, <4>2 DEF Wanted
    <3> QED BY <3>2, <3>3
  <2> QED BY <1>1, <2>2, <2>3, <2>4, <2>6 DEF KeyShown
<1>8. StickShown'
  <2>1. /\ Motions' = Motions /\ Joys' = Joys /\ MotionTells' = MotionTells
        /\ JoysRight(stick)' = JoysRight(stick) /\ Shown(stick)' = Shown(stick)
    BY <1>1 DEF Motions, Joys, MotionTells, JoysRight, Shown
  <2>2. /\ LastGood(queue, Motions, Motions, MotionTells)
        /\ Without(queue, Motions) => ("stick" \in told => joy = Shown(stick))
    BY <1>6 DEF AndroidInv, StickShown
  <2>3. /\ LastGood(queue', Motions, Motions, MotionTells)
        /\ Without(queue', Motions) /\ e \in Motions => e \in MotionTells
    BY <1>1, <1>2, <2>2, LastGoodTail
  <2>4. /\ e \in Motions => LastGood(work', Joys, Joys, JoysRight(e.stick)) /\ ~Without(work', Joys)
        /\ e \notin Motions => Without(work', Joys) /\ ("stick" \in told' <=> "stick" \in told)
    OBVIOUS
  <2> HIDE DEF e
  <2>5. ASSUME Without(queue', Motions)
        PROVE  /\ LastGood(work', Joys, Joys, JoysRight(stick))
               /\ Without(work', Joys) => ("stick" \in told' => joy = Shown(stick))
    <3>1. CASE e \in Motions
      <4>1. e.stick = stick BY <2>3, <2>5, <3>1 DEF MotionTells
      <4> QED BY <2>4, <3>1, <4>1
    <3>2. CASE e \notin Motions
      <4>1. Without(queue, Motions) BY <1>3, <2>5, <3>2 DEF Without
      <4>2. \A n \in DOMAIN work' : work'[n] \notin Joys BY <1>5, <2>4, <3>2 DEF Without
      <4> QED BY <2>2, <2>4, <3>2, <4>1, <4>2 DEF LastGood
    <3> QED BY <3>1, <3>2
  <2> QED BY <1>1, <2>1, <2>3, <2>5 DEF StickShown
<1>9. DpadTold' BY <1>1, <1>3 DEF AndroidInv, DpadTold
<1>10. SetOnce(work)' /\ NotYetSet' BY <1>1 DEF NotYetSet, SetOnce
<1> QED BY <1>4, <1>7, <1>8, <1>9, <1>10 DEF AndroidInv

LEMMA AndroidHandlesMotion ==
    ASSUME AndroidInv, Android!DispatchGenericMotionEvent PROVE AndroidInv'
<1> DEFINE e == Head(queue)
           asAxis == dpad_is_axis \/ e.dpad # "none"
<1>1. /\ Android!NextEvent("motion") /\ dpad_is_axis' = asAxis
      /\ work' = Android!MotionWork(e, asAxis)
      /\ told' = told \cup {"stick", "L2"}
                      \cup (IF asAxis /\ pad.hat THEN Android!Directions ELSE {})
  BY DEF Android!DispatchGenericMotionEvent
<1>2. /\ queue # <<>> /\ e.kind = "motion" /\ queue \in Seq(AndroidEvent) /\ Android!TypeOK
  BY <1>1 DEF Android!NextEvent, AndroidInv, Android!TypeOK, AndroidEvent
<1>3. e \in AndroidEvent /\ e \in ToSet(queue)
  BY <1>2, TailElements
<1>4. e \in Motions BY <1>2, <1>3 DEF AndroidEvent, Motions, Android!Key
<1>5. asAxis \in BOOLEAN BY Zenon
<1>6. /\ ~pad.hat => e.dpad = "none"
      /\ ~pad.dpadKeys => dpad_is_axis
      /\ ~pad.hat /\ dpad_is_axis => told \cap Android!Directions = {}
  BY <1>2, <1>3 DEF AndroidInv, DpadTold
<1>7. dpad_is_axis' <=> dpad_is_axis \/ e.dpad # "none" BY <1>1
<1> HIDE DEF asAxis
<1>8. /\ work' \in Seq(Android!Instruction) /\ SetOnce(work')
      /\ \A w \in ToSet(work') : w.op = "set" =>
            \/ w.key = "L2" /\ (w.to <=> e.trigger)
            \/ asAxis /\ w.key \in Android!Directions /\ (w.to <=> e.dpad = w.key)
      /\ ~Without(work', SetsOf("L2"))
      /\ asAxis => \A k \in Android!Directions : ~Without(work', SetsOf(k))
      /\ LastGood(work', Joys, Joys, JoysRight(e.stick)) /\ ~Without(work', Joys)
  BY <1>1, <1>4, <1>5, MotionWorkOf
<1> HIDE DEF e
<1>9. /\ told \subseteq told' /\ told' \subseteq Android!Keys \cup {"stick"}
      /\ "L2" \in told' /\ (asAxis /\ pad.hat => Android!Directions \subseteq told')
      /\ \A k \in told' : k \in told \/ k \in {"stick", "L2"}
                                     \/ (asAxis /\ k \in Android!Directions)
  BY <1>1, <1>2 DEF Android!TypeOK, Android!Keys
<1>10. asAxis <=> dpad_is_axis \/ e.dpad # "none" BY DEF asAxis
<1>11. "L2" \notin Android!Directions /\ "stick" \notin Android!Directions
       /\ "none" \notin Android!Directions
  BY DEF Android!Directions
<1>12. ~pad.hat /\ dpad_is_axis' => told' \cap Android!Directions = {}
  BY <1>1, <1>6, <1>7, <1>11
<1>13. ASSUME NEW k \in Android!Keys
       PROVE  /\ Without(work', SetsOf(k)) => /\ e \notin SureOf(k) /\ (k \in told' <=> k \in told)
                                              /\ (Speaks(k)' => Speaks(k))
              /\ \A w \in ToSet(work') : Speaks(k)' /\ w \in SetsOf(k) =>
                    \/ e \in AboutKey(k) /\ k \in told' /\ (w.to <=> Presses(e, k))
                    \/ k \notin told' /\ ~w.to
  <2>1. k # "stick" BY OwnButtons
  <2>2. Without(work', SetsOf(k)) => e \notin SureOf(k)
    BY <1>2, <1>6, <1>8, <1>9, <1>10 DEF SureOf, AboutKey
  <2>3. Without(work', SetsOf(k)) => (k \in told' <=> k \in told) /\ (Speaks(k)' => Speaks(k))
    BY <1>8, <1>9, <2>1 DEF Speaks
  <2>4. ASSUME NEW w \in ToSet(work'), w \in SetsOf(k)
        PROVE  \/ e \in AboutKey(k) /\ k \in told' /\ (w.to <=> Presses(e, k))
               \/ k \notin told' /\ ~w.to
    <3>1. w.op = "set" /\ w.key = k
      <4>1. w.op = "set" /\ w.key = Android!ButtonOf(k) BY <2>4 DEF SetsOf
      <4>2. w.key \in Android!Directions \cup {"L2"} BY <1>8, <4>1
      <4> QED BY <4>1, <4>2, OwnButtons
    <3>2. CASE k = "L2"
      <4>1. w.to <=> e.trigger BY <1>8, <1>11, <3>1, <3>2
      <4> QED BY <1>2, <1>3, <1>9, <3>2, <4>1 DEF AboutKey, Presses
    <3>3. CASE k # "L2"
      <4>1. asAxis /\ k \in Android!Directions /\ (w.to <=> e.dpad = k) BY <1>8, <3>1, <3>3
      <4>2. CASE pad.hat BY <1>2, <1>3, <1>9, <3>3, <4>1, <4>2 DEF AboutKey, Presses
      <4>3. CASE ~pad.hat BY <1>6, <1>7, <1>10, <1>11, <1>12, <4>1, <4>3
      <4> QED BY <4>2, <4>3
    <3> QED BY <3>2, <3>3
  <2> QED BY <2>2, <2>3, <2>4
<1>14. dpad_is_axis' \in BOOLEAN /\ (~pad.dpadKeys => dpad_is_axis') BY <1>1, <1>5, <1>6, <1>7
<1> QED BY <1>1, <1>4, <1>8, <1>9, <1>12, <1>13, <1>14, AndroidDispatches DEF e

LEMMA AndroidHandlesKey == ASSUME AndroidInv, Android!DispatchKeyEvent PROVE AndroidInv'
<1> DEFINE e == Head(queue)
           W(k, to) == [op |-> "set", key |-> k, to |-> to]
           set == W(Android!ButtonOf(e.code), e.down)
<1>1. /\ Android!NextEvent("key")
      /\ dpad_is_axis' = (dpad_is_axis /\ e.code \notin Android!Directions)
      /\ work' = IF e.code \in Strange THEN <<>> ELSE <<set>>
      /\ told' = IF e.code \in Strange THEN told
                 ELSE {o \in told : Android!ButtonOf(o) # Android!ButtonOf(e.code)} \cup {e.code}
  BY DEF Android!DispatchKeyEvent, Android!IsAxisAfter, Android!KeyWork, Android!SetKey,
         Android!ToldAfter
<1>2. /\ queue # <<>> /\ e.kind = "key" /\ queue \in Seq(AndroidEvent) /\ Android!TypeOK
  BY <1>1 DEF Android!NextEvent, AndroidInv, Android!TypeOK, AndroidEvent
<1>3. e \in AndroidEvent /\ e \in ToSet(queue)
  BY <1>2, TailElements
<1>4. /\ e \in Android!Key /\ e \notin Motions
      /\ e.code \in Android!Keys \cup Strange /\ e.down \in BOOLEAN
  BY <1>2, <1>3 DEF AndroidEvent, Motions, Android!Motion, Android!Key
<1>5. /\ e.code \in Android!Directions => pad.dpadKeys
      /\ ~pad.dpadKeys => dpad_is_axis
      /\ ~pad.hat /\ dpad_is_axis => told \cap Android!Directions = {}
  BY <1>2, <1>3 DEF AndroidInv, DpadTold
<1>6. Strange \cap Android!Keys = {}
  BY CompanionsAssumption DEF Android!AndroidAssumption, Android!Keys
<1>7. /\ e.code \notin Strange => set \in Android!Instruction
      /\ set.op = "set" /\ set.key = Android!ButtonOf(e.code) /\ set.to = e.down
  BY <1>4, OwnButtons DEF Android!Instruction
<1> HIDE DEF e, set
<1>8. /\ work' \in Seq(Android!Instruction)
      /\ ToSet(work') = IF e.code \in Strange THEN {} ELSE {set}
      /\ SetOnce(work')
  <2>1. CASE e.code \in Strange
    <3>1. work' = <<>> BY <1>1, <2>1
    <3> QED BY <2>1, <3>1, ToSetOf DEF SetOnce
  <2>2. CASE e.code \notin Strange
    <3>1. work' = <<set>> BY <1>1, <2>2
    <3>2. <<set>> \in Seq(Android!Instruction) /\ ToSet(<<set>>) = {set}
      BY <1>7, <2>2, ShortLists, ToSetOf
    <3> QED BY <2>2, <3>1, <3>2 DEF SetOnce
  <2> QED BY <2>1, <2>2
<1>9. /\ told' \subseteq Android!Keys \cup {"stick"}
      /\ \A k : k \in told' => k \in told \/ (k = e.code /\ e.code \notin Strange)
      /\ e.code \notin Strange => e.code \in told'
      /\ e.code \in Strange => told' = told
      /\ \A k : Android!ButtonOf(k) # Android!ButtonOf(e.code) => (k \in told' <=> k \in told)
      /\ \A k : /\ e.code \notin Strange /\ k \in told'
               /\ Android!ButtonOf(k) = Android!ButtonOf(e.code) => k = e.code
  BY <1>1, <1>2, <1>4 DEF Android!TypeOK
<1>10. /\ dpad_is_axis' \in BOOLEAN /\ (~pad.dpadKeys => dpad_is_axis')
       /\ ~pad.hat /\ dpad_is_axis' => told' \cap Android!Directions = {}
  <2>1. dpad_is_axis' \in BOOLEAN BY <1>1, Zenon
  <2> QED BY <1>1, <1>5, <1>9, <2>1
<1>11. ASSUME NEW k \in Android!Keys
       PROVE  /\ Without(work', SetsOf(k)) => /\ e \notin SureOf(k) /\ (k \in told' <=> k \in told)
                                              /\ (Speaks(k)' => Speaks(k))
              /\ \A w \in ToSet(work') : Speaks(k)' /\ w \in SetsOf(k) =>
                    \/ e \in AboutKey(k) /\ k \in told' /\ (w.to <=> Presses(e, k))
                    \/ k \notin told' /\ ~w.to
  <2> DEFINE same == Android!ButtonOf(k) = Android!ButtonOf(e.code)
  <2>1. e \in SureOf(k) <=> k = e.code BY <1>2, <1>3 DEF SureOf, AboutKey
  <2>2. Without(work', SetsOf(k)) => e.code \in Strange \/ ~same
    BY <1>7, <1>8 DEF Without, SetsOf
  <2>3. \A w \in ToSet(work') : w \in SetsOf(k) => w = set /\ same /\ e.code \notin Strange
    BY <1>7, <1>8 DEF SetsOf
  <2>4. k = e.code => e \in AboutKey(k) /\ (set.to <=> Presses(e, k))
    BY <1>2, <1>3, <1>4, <1>7 DEF AboutKey, Presses
  <2>5. same /\ e.code \notin Strange /\ Speaks(k)' => k = e.code BY <1>9 DEF Speaks
  <2>6. e.code \in Strange \/ ~same =>
           k # e.code /\ (k \in told' <=> k \in told) /\ (Speaks(k)' => Speaks(k))
    <3>1. CASE e.code \in Strange BY <1>6, <1>9, <3>1 DEF Speaks
    <3>2. CASE ~same
      <4>1. k # e.code /\ (k \in told' <=> k \in told) BY <1>9, <3>2
      <4>2. \A o \in told : Android!ButtonOf(o) = Android!ButtonOf(k) => o \in told'
        BY <1>9, <3>2
      <4> QED BY <4>1, <4>2 DEF Speaks
    <3> QED BY <3>1, <3>2
  <2>7. k = e.code /\ e.code \notin Strange => k \in told' BY <1>9
  <2> HIDE DEF same
  <2> QED BY <2>1, <2>2, <2>3, <2>4, <2>5, <2>6, <2>7
<1>12. Without(work', Joys) BY <1>7, <1>8 DEF Without, Joys
<1>13. "stick" \in told' <=> "stick" \in told
  <2>1. CASE e.code \in Strange BY <1>9, <2>1
  <2>2. CASE e.code \notin Strange
    <3>1. Android!ButtonOf("stick") # Android!ButtonOf(e.code) BY <1>4, <2>2, OwnButtons
    <3> QED BY <1>9, <3>1
  <2> QED BY <2>1, <2>2
<1> QED BY <1>1, <1>4, <1>8, <1>9, <1>10, <1>11, <1>12, <1>13, AndroidDispatches DEF e

\* A step of a handler.
LEMMA AndroidActs ==
    ASSUME AndroidInv, Android!SetKeyStep \/ Android!JoyStep PROVE AndroidInv'
<1> DEFINE w == Head(work)
<1>1. /\ work # <<>> /\ work' = Tail(work)
      /\ before' = IF Tail(work) = <<>> THEN {} ELSE before
      /\ UNCHANGED <<pad, down, dpad, trigger, stick, calm, queue, dpad_is_axis, told>>
      /\ \/ /\ w.op = "set" /\ joy' = joy
            /\ pressed_keys' = IF w.to THEN pressed_keys \cup {w.key} ELSE pressed_keys \ {w.key}
         \/ w.op = "joy" /\ joy' = w.to /\ pressed_keys' = pressed_keys
  BY DEF Android!SetKeyStep, Android!JoyStep, Android!Done, Android!SetKeyTo, Android!padVars
<1>2. work \in Seq(Android!Instruction) BY DEF AndroidInv, Android!TypeOK
<1>3. /\ work' \in Seq(Android!Instruction) /\ w \in Android!Instruction
      /\ ToSet(work) = {w} \cup ToSet(work')
  BY <1>1, <1>2, TailElements
<1>4. \A about, good :
         LastGood(work, about, about, good) =>
            /\ LastGood(work', about, about, good)
            /\ Without(work', about) /\ w \in about => w \in good
  BY <1>1, <1>2, LastGoodTail
<1>5. /\ w = work[1] /\ 1 \in DOMAIN work
      /\ \A n \in DOMAIN work' : n \in Int /\ n + 1 \in DOMAIN work /\ work'[n] = work[n + 1]
                                 /\ n + 1 # 1
  <2>1. /\ w = work[1]
        /\ \A n \in DOMAIN work' : n + 1 \in DOMAIN work /\ work'[n] = work[n + 1]
    BY <1>1, <1>2, OneEventLess
  <2>2. 1 \in DOMAIN work BY <1>1, <1>2
  <2>3. \A n \in DOMAIN work' : n \in Int /\ n + 1 # 1 BY <1>3
  <2> QED BY <2>1, <2>2, <2>3
<1> HIDE DEF w
<1>6. \A some : Without(work', some) /\ w \notin some => Without(work, some)
  BY <1>3 DEF Without
<1>7. (w.op = "set" => w.key \in Android!Buttons) /\ (w.op = "joy" => w.to \in Android!Coordinates)
  BY <1>3 DEF Android!Instruction
<1>8. Android!TypeOK'
  <2>1. pressed_keys' \subseteq Android!Buttons /\ joy' \in Android!Coordinates
        /\ before' \subseteq Android!Buttons
    BY <1>1, <1>7 DEF AndroidInv, Android!TypeOK
  <2> QED BY <1>1, <1>3, <2>1 DEF AndroidInv, Android!TypeOK
<1>9. ASSUME NEW k \in Android!Keys PROVE KeyShown(k)'
  <2>1. KeyShown(k) BY DEF AndroidInv
  <2>2. IF w \in SetsOf(k) THEN Seen(k)' <=> w.to ELSE Seen(k)' <=> Seen(k)
    BY <1>1, <1>3 DEF SetsOf, Seen
  <2>3. w \in SetsRight(k) => (w.to <=> Wanted(k)) BY DEF SetsRight
  <2>4. /\ AboutKey(k)' = AboutKey(k) /\ SureOf(k)' = SureOf(k) /\ SetsOf(k)' = SetsOf(k)
        /\ (Wanted(k)' <=> Wanted(k)) /\ (k \in Android!Held' <=> k \in Android!Held)
        /\ (Speaks(k)' <=> Speaks(k))
    BY <1>1 DEF AboutKey, SureOf, SetsOf, Wanted, Speaks, Android!Held
  <2>5. KeyTells(k)' = KeyTells(k) /\ SetsRight(k)' = SetsRight(k)
    BY <2>4 DEF KeyTells, Presses, SetsRight
  <2>6. ASSUME Without(queue, SureOf(k)), Speaks(k)
        PROVE  /\ LastGood(work', SetsOf(k), SetsOf(k), SetsRight(k))
               /\ Without(work', SetsOf(k)) => (Seen(k)' <=> Wanted(k))
    <3>1. /\ LastGood(work, SetsOf(k), SetsOf(k), SetsRight(k))
          /\ Without(work, SetsOf(k)) => (Seen(k) <=> Wanted(k))
      BY <2>1, <2>6 DEF KeyShown
    <3> QED BY <1>4, <1>6, <2>2, <2>3, <3>1
  <2> QED BY <1>1, <2>1, <2>4, <2>5, <2>6 DEF KeyShown
<1>10. StickShown'
  <2>1. StickShown BY DEF AndroidInv
  <2>2. IF w \in Joys THEN joy' = w.to ELSE joy' = joy BY <1>1, <1>3 DEF Joys
  <2>3. w \in JoysRight(stick) => w.to = Shown(stick) BY DEF JoysRight
  <2>4. /\ Motions' = Motions /\ Joys' = Joys /\ MotionTells' = MotionTells
        /\ JoysRight(stick)' = JoysRight(stick) /\ Shown(stick)' = Shown(stick)
    BY <1>1 DEF Motions, Joys, MotionTells, JoysRight, Shown
  <2>5. ASSUME Without(queue, Motions)
        PROVE  /\ LastGood(work', Joys, Joys, JoysRight(stick))
               /\ Without(work', Joys) => ("stick" \in told => joy' = Shown(stick))
    <3>1. /\ LastGood(work, Joys, Joys, JoysRight(stick))
          /\ Without(work, Joys) => ("stick" \in told => joy = Shown(stick))
      BY <2>1, <2>5 DEF StickShown
    <3> QED BY <1>4, <1>6, <2>2, <2>3, <3>1
  <2> QED BY <1>1, <2>1, <2>4, <2>5 DEF StickShown
<1>11. DpadTold' BY <1>1 DEF AndroidInv, DpadTold
<1>12. SetOnce(work')
  <2> SUFFICES ASSUME NEW m \in DOMAIN work', NEW n \in DOMAIN work',
                      work'[m].op = "set", work'[n].op = "set", work'[m].key = work'[n].key
               PROVE  m = n
    BY DEF SetOnce
  <2>1. m + 1 = n + 1 BY <1>5 DEF AndroidInv, SetOnce
  <2> QED BY <1>5, <2>1
<1>13. NotYetSet'
  <2> SUFFICES ASSUME NEW n \in DOMAIN work', work'[n].op = "set"
               PROVE  work'[n].key \in pressed_keys' <=> work'[n].key \in before'
    BY DEF NotYetSet
  <2>1. n + 1 \in DOMAIN work /\ work'[n] = work[n + 1] /\ n + 1 # 1 BY <1>5
  <2>2. work[n + 1].key \in pressed_keys <=> work[n + 1].key \in before
    BY <2>1 DEF AndroidInv, NotYetSet
  <2>3. w.op = "set" => w.key # work[n + 1].key BY <1>5, <2>1 DEF AndroidInv, SetOnce
  <2>4. Tail(work) # <<>>
    <3>1. n \in DOMAIN Tail(work) BY <1>1
    <3> QED BY <3>1
  <2> QED BY <1>1, <2>1, <2>2, <2>3, <2>4
<1>14. SetOnce(work)' BY <1>12 DEF SetOnce
<1> QED BY <1>8, <1>9, <1>10, <1>11, <1>13, <1>14 DEF AndroidInv

\* A new activity: it was told of nothing, and shows nothing.
LEMMA AndroidRecreates == ASSUME AndroidInv, Android!OnCreate PROVE AndroidInv'
<1>1. /\ work = <<>> /\ pressed_keys' = {} /\ joy' = "centre" /\ dpad_is_axis' = TRUE /\ told' = {}
      /\ UNCHANGED <<pad, down, dpad, trigger, stick, calm, queue, work, before>>
  BY DEF Android!OnCreate, Android!padVars
<1>2. Android!TypeOK' BY <1>1 DEF AndroidInv, Android!TypeOK, Android!Coordinates
<1>3. DOMAIN work = {} BY <1>1
<1>4. ASSUME NEW k \in Android!Keys PROVE KeyShown(k)'
  <2>1. /\ AboutKey(k)' = AboutKey(k) /\ SureOf(k)' = SureOf(k)
        /\ (k \in Android!Held' <=> k \in Android!Held)
    BY <1>1 DEF AboutKey, SureOf, Android!Held
  <2>2. KeyTells(k)' = KeyTells(k) BY <2>1 DEF KeyTells, Presses
  <2>3. LastGood(queue, AboutKey(k), SureOf(k), KeyTells(k)) BY DEF AndroidInv, KeyShown
  <2>4. ~Wanted(k)' /\ ~Seen(k)' BY <1>1 DEF Wanted, Seen
  <2> QED BY <1>1, <1>3, <2>1, <2>2, <2>3, <2>4 DEF KeyShown, LastGood
<1>5. StickShown'
  <2>1. Motions' = Motions /\ MotionTells' = MotionTells BY <1>1 DEF Motions, MotionTells
  <2>2. LastGood(queue, Motions, Motions, MotionTells) BY DEF AndroidInv, StickShown
  <2>3. "stick" \notin told' BY <1>1
  <2> QED BY <1>1, <1>3, <2>1, <2>2, <2>3 DEF StickShown, LastGood
<1>6. DpadTold' BY <1>1 DEF AndroidInv, DpadTold
<1>7. SetOnce(work)' /\ NotYetSet' BY <1>1, <1>3 DEF SetOnce, NotYetSet
<1> QED BY <1>2, <1>4, <1>5, <1>6, <1>7 DEF AndroidInv

\* Steps that leave all of it alone but the bound of the model.
LEMMA AndroidStays ==
    ASSUME AndroidInv, Android!TypeOK',
           UNCHANGED <<pad, down, dpad, trigger, stick, queue, work, pressed_keys, joy, dpad_is_axis,
                       told, before>>
    PROVE  AndroidInv'
<1>1. ASSUME NEW k \in Android!Keys PROVE KeyShown(k)'
  <2>1. /\ AboutKey(k)' = AboutKey(k) /\ SureOf(k)' = SureOf(k) /\ SetsOf(k)' = SetsOf(k)
        /\ (Wanted(k)' <=> Wanted(k)) /\ (k \in Android!Held' <=> k \in Android!Held)
        /\ (Speaks(k)' <=> Speaks(k)) /\ (Seen(k)' <=> Seen(k))
    BY DEF AboutKey, SureOf, SetsOf, Wanted, Speaks, Seen, Android!Held
  <2>2. KeyTells(k)' = KeyTells(k) /\ SetsRight(k)' = SetsRight(k)
    BY <2>1 DEF KeyTells, Presses, SetsRight
  <2>3. KeyShown(k) BY DEF AndroidInv
  <2> QED BY <2>1, <2>2, <2>3 DEF KeyShown
<1>2. StickShown'
  <2>1. /\ Motions' = Motions /\ Joys' = Joys /\ MotionTells' = MotionTells
        /\ JoysRight(stick)' = JoysRight(stick) /\ Shown(stick)' = Shown(stick)
    BY DEF Motions, Joys, MotionTells, JoysRight, Shown
  <2> QED BY <2>1 DEF AndroidInv, StickShown
<1>3. DpadTold' BY DEF AndroidInv, DpadTold
<1>4. SetOnce(work)' /\ NotYetSet' BY DEF AndroidInv, SetOnce, NotYetSet
<1> QED BY <1>1, <1>2, <1>3, <1>4 DEF AndroidInv

\* What is held, key by key.
LEMMA HeldKeys ==
    ASSUME down \subseteq AndroidKeys, dpad \in Android!Directions \cup {"none"}
    PROVE  \A k \in Android!Keys :
              k \in Android!Held <=> IF k = "L2" THEN trigger
                                     ELSE IF k \in Android!Directions THEN k = dpad ELSE k \in down
BY CompanionsAssumption DEF Android!AndroidAssumption, Android!Held, Android!Keys, Android!Directions

LEMMA HeldKeysNext ==
    ASSUME down' \subseteq AndroidKeys, dpad' \in Android!Directions \cup {"none"}
    PROVE  \A k \in Android!Keys :
              k \in Android!Held' <=> IF k = "L2" THEN trigger'
                                      ELSE IF k \in Android!Directions THEN k = dpad' ELSE k \in down'
BY CompanionsAssumption DEF Android!AndroidAssumption, Android!Held, Android!Keys, Android!Directions

\* A button is pressed or released.
LEMMA AndroidPresses ==
    ASSUME AndroidInv, NEW e \in Android!Key, Android!Report(<<e>>), UNCHANGED <<dpad, trigger, stick>>,
           \/ e.code \in Strange /\ down' = down
           \/ e.code \in AndroidKeys /\ \/ e.down /\ down' = down \cup {e.code}
                                        \/ ~e.down /\ down' = down \ {e.code}
    PROVE  AndroidInv'
<1>1. /\ e \in AndroidEvent /\ e.kind = "key" /\ e \notin Motions
  BY DEF AndroidEvent, Motions, Android!Motion, Android!Key
<1>2. <<e>> \in Seq(AndroidEvent) /\ ToSet(<<e>>) = {e} BY <1>1, ShortLists, ToSetOf
<1>3. Android!TypeOK /\ pad' = pad BY DEF AndroidInv, Android!Report
<1>4. /\ down \subseteq AndroidKeys /\ down' \subseteq AndroidKeys
      /\ dpad \in Android!Directions \cup {"none"} /\ dpad' \in Android!Directions \cup {"none"}
  BY <1>3 DEF Android!TypeOK
<1>5. /\ \A k \in Strange : k \notin Android!Keys /\ k \notin Android!Directions
      /\ \A k \in AndroidKeys : k \notin Android!Directions /\ k # "L2"
  BY CompanionsAssumption DEF Android!AndroidAssumption, Android!Keys
<1>6. ASSUME NEW k \in Android!Keys
      PROVE  /\ e \in AboutKey(k) => e \in KeyTells(k)'
             /\ e \notin SureOf(k) => (k \in Android!Held' <=> k \in Android!Held)
  <2>1. (e \in AboutKey(k) <=> k = e.code) /\ (e \in SureOf(k) <=> k = e.code)
    BY <1>1 DEF AboutKey, SureOf
  <2>2. AboutKey(k)' = AboutKey(k) /\ (Presses(e, k)' <=> e.down)
    BY <1>1, <1>3 DEF AboutKey, Presses
  <2>3. k # e.code => (k \in Android!Held' <=> k \in Android!Held)
    BY <1>4, <1>5, HeldKeys, HeldKeysNext
  <2>4. k = e.code => (k \in Android!Held' <=> e.down)
    BY <1>4, <1>5, HeldKeysNext
  <2> QED BY <2>1, <2>2, <2>3, <2>4 DEF KeyTells
<1>7. e.code \in Android!Directions => pad.dpadKeys BY <1>5
<1> QED BY <1>1, <1>2, <1>3, <1>4, <1>6, <1>7, AndroidReports DEF Android!TypeOK, Without

\* A motion that tells the stick, the trigger and the hat, alone or with a key
\* event of L2.
LEMMA AndroidMoves ==
    ASSUME AndroidInv, UNCHANGED <<down, dpad>>, trigger' \in BOOLEAN, stick' \in Android!Positions,
           NEW m \in Motions, m.stick = stick', m.trigger = trigger',
           m.dpad = IF pad.hat THEN dpad ELSE "none",
           NEW new \in Seq(AndroidEvent), Android!Report(new), m \in ToSet(new),
           \A e \in ToSet(new) : e = m \/ (e.kind = "key" /\ e.code = "L2" /\ (e.down <=> trigger'))
    PROVE  AndroidInv'
<1>1. m \in AndroidEvent /\ m.kind = "motion" BY DEF AndroidEvent, Motions, Android!Motion
<1>2. Android!TypeOK /\ pad' = pad BY DEF AndroidInv, Android!Report
<1>3. /\ down \subseteq AndroidKeys /\ down' \subseteq AndroidKeys
      /\ dpad \in Android!Directions \cup {"none"} /\ dpad' \in Android!Directions \cup {"none"}
      /\ "L2" \notin Android!Directions
  BY <1>2 DEF Android!TypeOK, Android!Directions
<1>4. \A e \in ToSet(new) : e \in AndroidEvent BY ToSetOf
<1>5. ASSUME NEW k \in Android!Keys, NEW e \in ToSet(new), e \in AboutKey(k)
      PROVE  e \in KeyTells(k)'
  <2>1. e \in AboutKey(k)' BY <1>2, <1>5 DEF AboutKey
  <2>2. CASE e = m
    <3>1. k = "L2" \/ (k \in Android!Directions /\ pad.hat)
      BY <1>1, <1>5, <2>2 DEF AboutKey
    <3>2. Presses(e, k)' <=> IF k = "L2" THEN trigger' ELSE dpad' = k
      BY <1>1, <2>2, <3>1 DEF Presses
    <3> QED BY <1>3, <2>1, <3>1, <3>2, HeldKeysNext DEF KeyTells
  <2>3. CASE e # m
    <3>1. e.kind = "key" /\ e.code = "L2" /\ (e.down <=> trigger') BY <1>5, <2>3
    <3>2. k = "L2" BY <1>5, <3>1 DEF AboutKey
    <3>3. Presses(e, k)' <=> trigger' BY <3>1 DEF Presses
    <3> QED BY <1>3, <2>1, <3>2, <3>3, HeldKeysNext DEF KeyTells
  <2> QED BY <2>2, <2>3
<1>6. ASSUME NEW k \in Android!Keys, Without(new, SureOf(k))
      PROVE  k \in Android!Held' <=> k \in Android!Held
  <2>1. k # "L2" BY <1>1, <1>3, <1>6 DEF SureOf, AboutKey, Without
  <2> QED BY <1>3, <2>1, HeldKeys, HeldKeysNext
<1>7. \A e \in ToSet(new) : e \in Motions => e.stick = stick' BY DEF Motions, Android!Motion
<1>8. ~Without(new, Motions) BY DEF Without
<1>9. \A e \in ToSet(new) : /\ e.kind = "key" /\ e.code \in Android!Directions => pad.dpadKeys
                            /\ e.kind = "motion" /\ ~pad.hat => e.dpad = "none"
  BY <1>1, <1>3
<1> QED BY <1>2, <1>3, <1>5, <1>6, <1>7, <1>8, <1>9, AndroidReports

LEMMA AndroidMovesDpad ==
    ASSUME AndroidInv, NEW d \in Android!Directions \cup {"none"}, Android!MoveDpad(d)
    PROVE  AndroidInv'
<1> DEFINE M     == [kind |-> "motion", stick |-> stick, dpad |-> IF pad.hat THEN d ELSE "none",
                     trigger |-> trigger]
           Gone  == [kind |-> "key", code |-> dpad, down |-> FALSE]
           Come  == [kind |-> "key", code |-> d, down |-> TRUE]
           hat2  == IF pad.hat THEN <<M>> ELSE <<>>
           left2  == IF pad.dpadKeys /\ dpad # "none" THEN <<Gone>> ELSE <<>>
           right2 == IF pad.dpadKeys /\ d # "none" THEN <<Come>> ELSE <<>>
<1>1. /\ d # dpad /\ dpad' = d /\ UNCHANGED <<down, trigger, stick>>
      /\ \/ Android!Report(hat2 \o (left2 \o right2))
         \/ Android!Report((left2 \o right2) \o hat2)
  BY DEF Android!MoveDpad, Android!MotionEvent, Android!KeyEvent
<1>2. /\ Android!TypeOK /\ pad' = pad
  BY <1>1 DEF AndroidInv, Android!Report
<1>3. /\ down \subseteq AndroidKeys /\ down' \subseteq AndroidKeys
      /\ dpad \in Android!Directions \cup {"none"} /\ dpad' \in Android!Directions \cup {"none"}
      /\ trigger \in BOOLEAN /\ trigger' \in BOOLEAN
      /\ stick \in Android!Positions /\ stick' \in Android!Positions
      /\ "L2" \notin Android!Directions /\ "none" \notin Android!Directions
      /\ Android!Directions \subseteq Android!Keys
  BY <1>1, <1>2 DEF Android!TypeOK, Android!Directions, Android!Keys
<1>4. /\ M \in AndroidEvent /\ M.kind = "motion" /\ M.stick = stick /\ M.trigger = trigger
      /\ M.dpad = IF pad.hat THEN d ELSE "none"
  BY <1>3 DEF AndroidEvent, Android!Motion
<1>5. /\ dpad # "none" => Gone \in AndroidEvent
      /\ Gone.kind = "key" /\ Gone.code = dpad /\ ~Gone.down
      /\ d # "none" => Come \in AndroidEvent
      /\ Come.kind = "key" /\ Come.code = d /\ Come.down
  BY <1>3 DEF AndroidEvent, Android!Key
<1> HIDE DEF M, Gone, Come
<1>6. hat2 \in Seq(AndroidEvent) /\ ToSet(hat2) = IF pad.hat THEN {M} ELSE {}
  <2>1. <<M>> \in Seq(AndroidEvent) /\ <<>> \in Seq(AndroidEvent) BY <1>4, ShortLists
  <2> QED BY <2>1, ToSetOf
<1>7. /\ left2 \in Seq(AndroidEvent)
      /\ ToSet(left2) = IF pad.dpadKeys /\ dpad # "none" THEN {Gone} ELSE {}
  <2>1. dpad # "none" => <<Gone>> \in Seq(AndroidEvent) BY <1>5, ShortLists
  <2>2. <<>> \in Seq(AndroidEvent) OBVIOUS
  <2> QED BY <2>1, <2>2, ToSetOf
<1>8. /\ right2 \in Seq(AndroidEvent)
      /\ ToSet(right2) = IF pad.dpadKeys /\ d # "none" THEN {Come} ELSE {}
  <2>1. d # "none" => <<Come>> \in Seq(AndroidEvent) BY <1>5, ShortLists
  <2>2. <<>> \in Seq(AndroidEvent) OBVIOUS
  <2> QED BY <2>1, <2>2, ToSetOf
<1> HIDE DEF hat2, left2, right2
<1>9. /\ left2 \o right2 \in Seq(AndroidEvent)
      /\ ToSet(left2 \o right2) = ToSet(left2) \cup ToSet(right2)
  BY <1>7, <1>8, EitherOrder
<1>10. PICK new \in Seq(AndroidEvent) :
          Android!Report(new) /\ ToSet(new) = ToSet(hat2) \cup ToSet(left2) \cup ToSet(right2)
  <2> DEFINE both == left2 \o right2
  <2>1. both \in Seq(AndroidEvent) /\ ToSet(both) = ToSet(left2) \cup ToSet(right2) BY <1>9
  <2>2. Android!Report(hat2 \o both) \/ Android!Report(both \o hat2) BY <1>1
  <2> HIDE DEF both
  <2>3. /\ hat2 \o both \in Seq(AndroidEvent) /\ both \o hat2 \in Seq(AndroidEvent)
        /\ ToSet(hat2 \o both) = ToSet(hat2) \cup ToSet(both)
        /\ ToSet(both \o hat2) = ToSet(hat2) \cup ToSet(both)
    BY <1>6, <2>1, EitherOrder
  <2> QED BY <2>1, <2>2, <2>3
<1>11. /\ \A e \in ToSet(new) : \/ e = M /\ pad.hat
                                \/ e = Gone /\ pad.dpadKeys /\ dpad # "none"
                                \/ e = Come /\ pad.dpadKeys /\ d # "none"
       /\ pad.hat => M \in ToSet(new)
       /\ pad.dpadKeys /\ dpad # "none" => Gone \in ToSet(new)
       /\ pad.dpadKeys /\ d # "none" => Come \in ToSet(new)
  BY <1>6, <1>7, <1>8, <1>10
<1>12. ASSUME NEW k \in Android!Keys, NEW e \in ToSet(new), e \in AboutKey(k)
       PROVE  e \in KeyTells(k)'
  <2>1. e \in AboutKey(k)' BY <1>2, <1>12 DEF AboutKey
  <2>2. CASE e = M
    <3>1. k = "L2" \/ (k \in Android!Directions /\ pad.hat)
      BY <1>4, <1>12, <2>2 DEF AboutKey
    <3>2. Presses(e, k)' <=> IF k = "L2" THEN trigger ELSE d = k
      BY <1>3, <1>4, <2>2, <3>1 DEF Presses
    <3> QED BY <1>1, <1>3, <2>1, <3>1, <3>2, HeldKeysNext DEF KeyTells
  <2>3. CASE e = Gone /\ dpad # "none"
    <3>1. k = dpad BY <1>5, <1>12, <2>3 DEF AboutKey
    <3>2. ~Presses(e, k)' BY <1>5, <2>3 DEF Presses
    <3> QED BY <1>1, <1>3, <2>1, <2>3, <3>1, <3>2, HeldKeysNext DEF KeyTells
  <2>4. CASE e = Come /\ d # "none"
    <3>1. k = d BY <1>5, <1>12, <2>4 DEF AboutKey
    <3>2. Presses(e, k)' BY <1>5, <2>4 DEF Presses
    <3> QED BY <1>1, <1>3, <2>1, <2>4, <3>1, <3>2, HeldKeysNext DEF KeyTells
  <2> QED BY <1>11, <1>12, <2>2, <2>3, <2>4
<1>13. ASSUME NEW k \in Android!Keys, Without(new, SureOf(k))
       PROVE  \/ k \in Android!Held' <=> k \in Android!Held
              \/ k \notin told /\ Without(queue, AboutKey(k))
  <2>1. \A e \in ToSet(new) : e \notin SureOf(k) BY <1>13 DEF Without
  <2>2. CASE k \notin {dpad, d} \/ k \notin Android!Directions
    BY <1>1, <1>3, <2>2, HeldKeys, HeldKeysNext
  <2>3. CASE k \in {dpad, d} /\ k \in Android!Directions
    <3>1. ~pad.dpadKeys
      BY <1>3, <1>5, <1>11, <2>1, <2>3 DEF SureOf, AboutKey
    <3>2. ~pad.hat
      BY <1>4, <1>11, <2>1, <2>3, <3>1 DEF SureOf, AboutKey
    <3>3. k \notin told BY <2>3, <3>1, <3>2 DEF AndroidInv, DpadTold
    <3>4. \A e \in ToSet(queue) : e \notin AboutKey(k)
      BY <1>3, <2>3, <3>1, <3>2 DEF AndroidInv, DpadTold, AboutKey
    <3> QED BY <3>3, <3>4 DEF Without
  <2> QED BY <2>2, <2>3
<1>14. \A e \in ToSet(new) : e \in Motions => e.stick = stick'
  BY <1>1, <1>4, <1>5, <1>11 DEF Motions, Android!Motion
<1>15. \A e \in ToSet(new) : /\ e.kind = "key" /\ e.code \in Android!Directions => pad.dpadKeys
                             /\ e.kind = "motion" /\ ~pad.hat => e.dpad = "none"
  BY <1>4, <1>5, <1>11
<1> QED BY <1>1, <1>3, <1>10, <1>12, <1>13, <1>14, <1>15, AndroidReports

LEMMA NextAndroidInv == ASSUME AndroidInv, [Android!Next]_Android!vars PROVE AndroidInv'
<1>1. /\ Android!TypeOK /\ trigger \in BOOLEAN /\ stick \in Android!Positions
      /\ dpad \in Android!Directions \cup {"none"} /\ "none" \notin Android!Directions
      /\ "L2" \in Android!Keys /\ AndroidKeys \subseteq Android!Keys
  BY DEF AndroidInv, Android!TypeOK, Android!Directions, Android!Keys
<1>2. CASE Android!Gamepad
  <2>1. ASSUME NEW code \in AndroidKeys, Android!PressKey(code) PROVE AndroidInv'
    <3> DEFINE isDown == code \notin down
               e      == [kind |-> "key", code |-> code, down |-> isDown]
    <3>1. isDown \in BOOLEAN BY Zenon
    <3>2. /\ Android!Report(<<e>>) /\ UNCHANGED <<dpad, trigger, stick>>
          /\ down' = IF isDown THEN down \cup {code} ELSE down \ {code}
      BY <2>1 DEF Android!PressKey, Android!KeyEvent
    <3> HIDE DEF isDown
    <3>3. e \in Android!Key /\ e.code = code /\ e.down = isDown
      BY <1>1, <3>1 DEF Android!Key
    <3> HIDE DEF e
    <3> QED BY <3>1, <3>2, <3>3, AndroidPresses
  <2>2. ASSUME NEW code \in Strange, NEW isDown \in BOOLEAN, Android!PressStrange(code, isDown)
        PROVE  AndroidInv'
    <3> DEFINE e == [kind |-> "key", code |-> code, down |-> isDown]
    <3>1. Android!Report(<<e>>) /\ UNCHANGED <<down, dpad, trigger, stick>>
      BY <2>2 DEF Android!PressStrange, Android!KeyEvent
    <3>2. e \in Android!Key /\ e.code = code BY DEF Android!Key
    <3> HIDE DEF e
    <3> QED BY <3>1, <3>2, AndroidPresses
  <2>3. ASSUME NEW d \in Android!Directions \cup {"none"}, Android!MoveDpad(d) PROVE AndroidInv'
    BY <2>3, AndroidMovesDpad
  <2>4. CASE Android!MoveTrigger
    <3> DEFINE now == ~trigger
               m   == [kind |-> "motion", stick |-> stick, dpad |-> IF pad.hat THEN dpad ELSE "none",
                       trigger |-> now]
               e   == [kind |-> "key", code |-> "L2", down |-> now]
               key == IF pad.l2Key THEN <<e>> ELSE <<>>
    <3>1. /\ trigger' = now /\ UNCHANGED <<down, dpad, stick>>
          /\ Android!Report(<<m>> \o key) \/ Android!Report(key \o <<m>>)
      BY <2>4 DEF Android!MoveTrigger, Android!MotionEvent, Android!KeyEvent
    <3>2. now \in BOOLEAN BY Zenon
    <3> HIDE DEF now
    <3>3. /\ m \in Motions /\ m.stick = stick /\ m.trigger = now
          /\ m.dpad = IF pad.hat THEN dpad ELSE "none"
      BY <1>1, <3>2 DEF Motions, Android!Motion
    <3>4. /\ m \in AndroidEvent /\ e \in AndroidEvent /\ e.kind = "key" /\ e.code = "L2" /\ e.down = now
      BY <1>1, <3>2, <3>3 DEF AndroidEvent, Motions, Android!Key
    <3> HIDE DEF m, e
    <3> DEFINE one == <<m>>
    <3>5. one \in Seq(AndroidEvent) /\ ToSet(one) = {m} BY <3>4, ShortLists, ToSetOf
    <3>6. key \in Seq(AndroidEvent) /\ ToSet(key) \subseteq {e}
      <4>1. <<e>> \in Seq(AndroidEvent) /\ <<>> \in Seq(AndroidEvent) BY <3>4, ShortLists
      <4> QED BY <4>1, ToSetOf
    <3>7. Android!Report(one \o key) \/ Android!Report(key \o one) BY <3>1
    <3> HIDE DEF key, one
    <3>8. PICK new \in Seq(AndroidEvent) :
             Android!Report(new) /\ m \in ToSet(new) /\ ToSet(new) \subseteq {m, e}
      <4>1. /\ one \o key \in Seq(AndroidEvent) /\ key \o one \in Seq(AndroidEvent)
            /\ ToSet(one \o key) = ToSet(one) \cup ToSet(key)
            /\ ToSet(key \o one) = ToSet(one) \cup ToSet(key)
        BY <3>5, <3>6, EitherOrder
      <4>2. \A q \in {one \o key, key \o one} : m \in ToSet(q) /\ ToSet(q) \subseteq {m, e}
        BY <3>5, <3>6, <4>1
      <4> QED BY <3>7, <4>1, <4>2
    <3>9. \A x \in ToSet(new) : x = m \/ (x.kind = "key" /\ x.code = "L2" /\ (x.down <=> trigger'))
      BY <3>1, <3>4, <3>8
    <3>10. trigger' \in BOOLEAN /\ stick' \in Android!Positions /\ m.stick = stick' /\ m.trigger = trigger'
      BY <1>1, <3>1, <3>2, <3>3
    <3> QED BY <3>1, <3>3, <3>8, <3>9, <3>10, AndroidMoves
  <2>5. ASSUME NEW to \in Android!Positions, Android!MoveStick(to) PROVE AndroidInv'
    <3> DEFINE m   == [kind |-> "motion", stick |-> to, dpad |-> IF pad.hat THEN dpad ELSE "none",
                       trigger |-> trigger]
    <3>1. stick' = to /\ UNCHANGED <<down, dpad, trigger>> /\ Android!Report(<<m>>)
      BY <2>5 DEF Android!MoveStick, Android!MotionEvent
    <3>2. /\ m \in Motions /\ m.stick = to /\ m.trigger = trigger
          /\ m.dpad = IF pad.hat THEN dpad ELSE "none"
      BY <1>1 DEF Motions, Android!Motion
    <3>3. m \in AndroidEvent BY <3>2 DEF AndroidEvent, Motions
    <3> HIDE DEF m
    <3>4. <<m>> \in Seq(AndroidEvent) /\ ToSet(<<m>>) = {m} BY <3>3, ShortLists, ToSetOf
    <3>5. trigger' \in BOOLEAN /\ stick' \in Android!Positions /\ m.stick = stick' /\ m.trigger = trigger'
      BY <1>1, <3>1, <3>2
    <3>6. m \in ToSet(<<m>>) /\ \A x \in ToSet(<<m>>) : x = m BY <3>4
    <3> QED BY <3>1, <3>2, <3>4, <3>5, <3>6, AndroidMoves
  <2>6. CASE Android!CalmDown
    <3>1. UNCHANGED <<pad, down, dpad, trigger, stick, queue, work, pressed_keys, joy, dpad_is_axis,
                      told, before>>
          /\ calm' = TRUE
      BY <2>6 DEF Android!CalmDown, Android!fieldVars
    <3>2. Android!TypeOK' BY <1>1, <3>1 DEF Android!TypeOK
    <3> QED BY <3>1, <3>2, AndroidStays
  <2> QED BY <1>2, <2>1, <2>2, <2>3, <2>4, <2>5, <2>6 DEF Android!Gamepad
<1>3. CASE Android!Dispatch
  BY <1>3, AndroidHandlesMotion, AndroidHandlesKey, AndroidActs DEF Android!Dispatch
<1>4. CASE Android!OnCreate BY <1>4, AndroidRecreates
<1>5. CASE UNCHANGED Android!vars
  <2>1. UNCHANGED <<pad, down, dpad, trigger, stick, calm, queue, work, pressed_keys, joy, dpad_is_axis,
                    told, before>>
    BY <1>5 DEF Android!vars, Android!padVars, Android!fieldVars
  <2>2. Android!TypeOK' BY <1>1, <2>1 DEF Android!TypeOK
  <2> QED BY <2>1, <2>2, AndroidStays
<1> QED BY <1>2, <1>3, <1>4, <1>5 DEF Android!Next

\* With nothing left to handle, what is shown is what is held, of the keys that
\* were told last.  A key that was told speaks for its button; of a button no
\* key of which was told, any key does.
LEMMA AndroidTells == AndroidInv => Android!AtRestExact
<1> SUFFICES ASSUME AndroidInv, queue = <<>>, work = <<>>
             PROVE  /\ pressed_keys = Android!HeldButtons
                    /\ "stick" \in told => joy = IF stick = "outside" THEN "outside" ELSE "centre"
  BY DEF Android!AtRestExact, Android!Packet
<1>1. \A s : Without(queue, s) /\ Without(work, s) BY ToSetOf DEF Without
<1>2. \A k \in Android!Keys : Speaks(k) => (Seen(k) <=> k \in Android!Held /\ k \in told)
  BY <1>1 DEF AndroidInv, KeyShown, Wanted
<1>3. "stick" \in told => joy = Shown(stick) BY <1>1 DEF AndroidInv, StickShown
<1>4. /\ pressed_keys \subseteq Android!Buttons /\ Android!Held \subseteq Android!Keys
      /\ told \subseteq Android!Keys \cup {"stick"}
  BY DEF AndroidInv, Android!TypeOK, Android!Held, Android!Keys
<1>5. ASSUME NEW b \in pressed_keys PROVE b \in Android!HeldButtons
  <2>1. PICK k \in Android!Keys : b = Android!ButtonOf(k) BY <1>4 DEF Android!Buttons
  <2>2. PICK o \in Android!Keys : Android!ButtonOf(o) = b /\ Speaks(o)
    <3>1. CASE Speaks(k) BY <2>1, <3>1
    <3>2. CASE ~Speaks(k)
      <4>1. PICK o \in told : Android!ButtonOf(o) = b BY <2>1, <3>2 DEF Speaks
      <4>2. o \in Android!Keys BY <1>4, <2>1, <4>1, OwnButtons
      <4> QED BY <4>1, <4>2 DEF Speaks
    <3> QED BY <3>1, <3>2
  <2>3. o \in Android!Held /\ o \in told BY <1>2, <2>2 DEF Seen
  <2> QED BY <2>2, <2>3 DEF Android!HeldButtons
<1>6. ASSUME NEW b \in Android!HeldButtons PROVE b \in pressed_keys
  <2>1. PICK k \in Android!Held \cap told : b = Android!ButtonOf(k) BY DEF Android!HeldButtons
  <2>2. k \in Android!Keys /\ Speaks(k) BY <1>4 DEF Speaks
  <2> QED BY <1>2, <2>1, <2>2 DEF Seen
<1> QED BY <1>3, <1>5, <1>6 DEF Shown

\* A button that is yet to be set is what it was before; another is what it
\* will be.
LEMMA AndroidDoesNotFlicker == AndroidInv => Android!NoFlicker
<1> SUFFICES ASSUME AndroidInv
             PROVE  /\ before \cap Android!Outcome \subseteq pressed_keys
                    /\ pressed_keys \subseteq before \cup Android!Outcome
  BY DEF Android!NoFlicker, Android!Packet
<1> DEFINE sets(k) == {n \in DOMAIN work : work[n].op = "set" /\ work[n].key = k}
<1>1. \A k \in Android!Buttons : sets(k) = {} => (k \in Android!Outcome <=> k \in pressed_keys)
  BY DEF Android!Outcome
<1>2. \A k : sets(k) # {} => (k \in pressed_keys <=> k \in before)
  BY DEF AndroidInv, NotYetSet
<1>3. Android!Outcome \subseteq Android!Buttons BY DEF Android!Outcome
<1>4. pressed_keys \subseteq Android!Buttons BY DEF AndroidInv, Android!TypeOK
<1> HIDE DEF sets
<1> QED BY <1>1, <1>2, <1>3, <1>4

-----------------------------------------------------------------------------
(* All of them.                                                            *)

Programs == {"ios", "android", "python", "go", "joysticks", "senders"}

\* The invariant of the program that runs.
CompanionInv ==
    /\ program \in Programs
    /\ IosInv
    /\ program = "android"   => AndroidInv
    /\ program = "python"    => PyInv
    /\ program = "go"        => GoInv
    /\ program = "joysticks" => JoysticksInv
    /\ program = "senders"   => SendersInv

LEMMA InitCompanionInv == CompanionInit => CompanionInv
<1> SUFFICES ASSUME CompanionInit PROVE CompanionInv
  OBVIOUS
<1>1. IosInv BY InitIosInv DEF CompanionInit
<1>2. /\ program \in Programs
      /\ program = "android"   => Android!Init
      /\ program = "python"    => Py!Init
      /\ program = "go"        => Go!Init
      /\ program = "joysticks" => Joysticks!Init
      /\ program = "senders"   => Senders!Init
  BY DEF CompanionInit, Programs
<1> QED BY <1>1, <1>2, InitAndroidInv, InitPyInv, InitGoInv, InitJoysticksInv, InitSendersInv
        DEF CompanionInv

LEMMA NextCompanionInv == CompanionInv /\ [CompanionNext]_allVars => CompanionInv'
<1> SUFFICES ASSUME CompanionInv, [CompanionNext]_allVars PROVE CompanionInv'
  OBVIOUS
<1> USE DEF CompanionInv
<1>1. program' = program BY OneProgram
<1>2. IosInv' BY OneProgram, NextIosInv
<1>3. program = "android" => AndroidInv' BY OneProgram, NextAndroidInv
<1>4. program = "python" => PyInv' BY OneProgram, NextPyInv
<1>5. program = "go" => GoInv' BY OneProgram, NextGoInv
<1>6. program = "joysticks" => JoysticksInv' BY OneProgram, NextJoysticksInv
<1>7. program = "senders" => SendersInv' BY OneProgram, NextSendersInv
<1> QED BY <1>1, <1>2, <1>3, <1>4, <1>5, <1>6, <1>7 DEF Programs

(***************************************************************************)
(* Whichever companion is started, its invariant holds for ever: of the    *)
(* events about an input that wait for dispatchKeyEvent, the poller or     *)
(* run() the last decides, and without one the fields do.  On Android this *)
(* is said of the last key told of each button.                            *)
(***************************************************************************)
THEOREM CompanionInvHolds == CompanionSpec => []CompanionInv
BY InitCompanionInv, NextCompanionInv, PTL DEF CompanionSpec

(***************************************************************************)
(* The fields of the companions keep their types; above all, the keys of a *)
(* packet are bits that the console knows, also when a gamepad sends codes *)
(* without a case (dispatchKeyEvent, check_keys, handleButton).            *)
(***************************************************************************)
THEOREM CompanionsTypeCorrect == CompanionSpec => []CompanionTypeOK
<1>1. CompanionInv => CompanionTypeOK
  BY DEF CompanionInv, CompanionTypeOK, AndroidInv, PyInv, GoInv, JoysticksInv, SendersInv, IosInv
<1> QED BY <1>1, CompanionInvHolds, PTL

(***************************************************************************)
(* Through hats, keys and axes in any order, and however many events wait: *)
(* once build_pkg, pack() or senderLoop finds all of them handled, the     *)
(* packet tells what is pressed, as far as AtRest says.  What it excepts   *)
(* is what the code hides: the key that SELECT or BACK leaves held when    *)
(* the other is released, one direction of a diagonal hat in Go, and in    *)
(* Python a hat that crossed and a half-pressed trigger.                   *)
(***************************************************************************)
THEOREM RestIsTold == CompanionSpec => []AtRest
<1>1. CompanionInv => AtRest
  BY AndroidTells, PyTells, GoTells DEF CompanionInv, AtRest
<1> QED BY <1>1, CompanionInvHolds, PTL

(***************************************************************************)
(* build_pkg of the Android companion, called by its sender between any    *)
(* two steps of a handler, shows no key change but the event's own.        *)
(***************************************************************************)
THEOREM NothingFlickers == CompanionSpec => []NoFlicker
<1>1. CompanionInv => NoFlicker
  BY AndroidDoesNotFlicker DEF CompanionInv, NoFlicker
<1> QED BY <1>1, CompanionInvHolds, PTL

(***************************************************************************)
(* The Go companion's table of joysticks: once SDL's events are handled,   *)
(* the gamepad that is attached has its handle open, whatever was attached *)
(* and detached before, unless two were at once.                           *)
(***************************************************************************)
THEOREM AttachedStaysHeard == CompanionSpec => []AttachedIsHeard
<1>1. CompanionInv => AttachedIsHeard
  BY JoysticksHeard DEF CompanionInv, AttachedIsHeard
<1> QED BY <1>1, CompanionInvHolds, PTL

(***************************************************************************)
(* The sender of the Android activity on the screen sends to the address   *)
(* that the last "Connected to" named, through activities that Android     *)
(* replaces, kills of the process and lookups that fail.                   *)
(***************************************************************************)
THEOREM SendsToTheTold == CompanionSpec => []SendsWhereTold
<1>1. CompanionInv => SendsWhereTold
  BY DEF CompanionInv, SendersInv, SendsWhereTold
<1> QED BY <1>1, CompanionInvHolds, PTL

(***************************************************************************)
(* The Android companion ends at a name that is not found only if that is  *)
(* a host's: a mistyped one is never stored in last_ip.                    *)
(***************************************************************************)
THEOREM MistypedNeverEnds == CompanionSpec => []EndsOnlyForHosts
<1>1. CompanionInv => EndsOnlyForHosts
  BY DEF CompanionInv, SendersInv, EndsOnlyForHosts
<1> QED BY <1>1, CompanionInvHolds, PTL
=============================================================================
