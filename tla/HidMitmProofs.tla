---------------------------- MODULE HidMitmProofs ----------------------------
(***************************************************************************)
(* Proofs about the threads of hid_mitm, for any number of games, objects, *)
(* pads, buttons, files and packets.  The invariant is built in layers:    *)
(* types, then the mutexes, then the table of pages, each proved inductive *)
(* relative to the layers below it.                                        *)
(***************************************************************************)
EXTENDS HidMitm, PadImageProofs, SequenceTheorems, TLAPS

\* One name for every step of the three threads, to split a step by.
LEMMA StepCases ==
    ASSUME [Next]_vars
    PROVE  \/ \E t \in {"main", "copy"} :
                LoadOpen(t) \/ LoadLine(t) \/ LoadWild(t) \/ LoadDone(t)
           \/ Request
           \/ Acquire("main", "shmem_mutex", "add_lock", "add")
           \/ Acquire("main", "shmem_mutex", "del_lock", "del")
           \/ Acquire("main", "shmem_mutex", "exit_lock", "exit")
           \/ Acquire("main", "configMutex", "clear_lock", "clear")
           \/ StartCopy \/ StartNet \/ AddShmem \/ DelShmem
           \/ CustomHidExit \/ CustomHidExitAbort \/ Clear
           \/ Acquire("copy", "shmem_mutex", "lock_shmem", "lock_pkg")
           \/ CopyLockPkg \/ RebindLock
           \/ (\E p \in Pids : CopyIn(p)) \/ CopyApply \/ RebindSkip \/ Rebind \/ RebindEnd
           \/ CopyOut \/ CopyOutAbort \/ CopyUnlockPkg \/ CopyUnlockShmem
           \/ NetAcquire \/ NetPoll \/ NetStore \/ NetVoid \/ NetWake \/ NetExit
           \/ UNCHANGED vars
BY Zenon DEF Next, MainAcquire, MainStep, CopyAcquire, CopyStep, NetStep, Load, Halted

-----------------------------------------------------------------------------
(* Types.                                                                  *)

\* rebind_keys takes configMutex for a controller up to the handheld.
SlotInv == pc["copy"] = "rebind_held" => slot <= Handheld

TypeInv == TypeOK /\ SlotInv

\* What a line appends are pairs of buttons.
LEMMA PushedType ==
    ASSUME NEW line \in Line, NEW more \in Pushed(line)
    PROVE  more \in Seq(Buttons \X Buttons)
<1>1. PICK key \in GetKeyInd(line.name), val \in GetKeyInd(line.value) :
        /\ key # Wild /\ val # Wild
        /\ more = IF NoKey \in {key, val} THEN <<>> ELSE <<<<key, val>>>>
  BY DEF Pushed
<1>2. ASSUME NEW word, NEW k \in GetKeyInd(word), k # Wild, k # NoKey
      PROVE  k \in Buttons
  BY <1>2, HidMitmAssumption DEF GetKeyInd
<1>3. CASE NoKey \in {key, val} BY <1>1, <1>3
<1>4. CASE NoKey \notin {key, val}
  <2>1. key \in Buttons /\ val \in Buttons BY <1>1, <1>2, <1>4
  <2>2. more = <<<<key, val>>>> BY <1>1, <1>4
  <2> QED BY <2>1, <2>2
<1> QED BY <1>3, <1>4

\* The s16 range is around 0.
LEMMA HalfS16Type == HalfS16 \in Int /\ HalfS16 > 0
BY SMT DEF HalfS16

\* An int assigned to the s16 stick_deadzone is in the range of an s16.
LEMMA ToS16Type == ASSUME NEW n \in Int PROVE ToS16(n) \in S16
<1> DEFINE w == 2 * HalfS16
           m == (n + HalfS16) % w
<1>1. w \in Int /\ w > 0 BY HalfS16Type
<1>2. n + HalfS16 \in Int BY HalfS16Type
<1>3. m \in 0 .. w - 1
  <2> HIDE DEF w
  <2> QED BY <1>1, <1>2
<1> QED BY HalfS16Type, <1>3 DEF ToS16, S16

\* A line leaves the dead zone in the range of an s16.
LEMMA DeadzoneAfterType ==
    ASSUME NEW line \in Line, NEW dz \in S16
    PROVE  DeadzoneAfter(line, dz) \in S16
<1>1. line.num \in Int BY DEF Line
<1> QED BY <1>1, ToS16Type DEF DeadzoneAfter

\* A line leaves networking_enabled on or off.
LEMMA NetworkingAfterType ==
    ASSUME NEW line \in Line, NEW on \in BOOLEAN
    PROVE  NetworkingAfter(line, on) \in BOOLEAN
BY Zenon DEF NetworkingAfter

\* NoMessage is a message.
LEMMA NoMessageType == NoMessage \in Message
BY DEF NoMessage, Message

\* The initial state has its types.
LEMMA InitTypeInv == Init => TypeInv
<1> SUFFICES ASSUME Init PROVE TypeInv
  OBVIOUS
<1> USE DEF Init
<1>1. /\ pc \in [Threads -> MainLabels \cup CopyLabels \cup NetLabels]
      /\ pc["main"] \in MainLabels /\ pc["copy"] \in CopyLabels /\ pc["net"] \in NetLabels
      /\ pc["copy"] # "rebind_held"
  BY DEF Threads, MainLabels, CopyLabels, NetLabels
<1>2. mutex \in [Mutexes -> Threads \cup {Free}] OBVIOUS
<1>3. halted \in {"no", "fatal", "abort"} OBVIOUS
<1>4. /\ sharedmems \in [Pids -> Res \cup {NoRes}]
      /\ memory \in [Res -> {"unmapped", "mapped", "broken"}]
      /\ pidOf \in [Res -> Pids \cup {NoPid}]
      /\ arg \in Res \cup {NoRes}
  OBVIOUS
<1>5. session \in [Res -> BOOLEAN] BY Zenon
<1>6. fake \in [Res -> Image] /\ tmp_shmem_mem \in Image BY ZeroImageType
<1>7. rebind_config \in Seq(Buttons \X Buttons) /\ lines \in Seq(Line) OBVIOUS
<1>8. stick_deadzone \in S16 BY HalfS16Type DEF S16
<1>9. networking_enabled \in BOOLEAN BY Zenon
<1>10. cur_fakegamepad_state \in Message /\ polled \in Message BY NoMessageType
<1>11. todo \in SUBSET Pids /\ it \in Pids \cup {NoPid} /\ slot \in 0 .. Handheld + 1
  BY PadAssumption DEF Handheld
<1> QED BY <1>1, <1>2, <1>3, <1>4, <1>5, <1>6, <1>7, <1>8, <1>9, <1>10, <1>11
        DEF TypeInv, TypeOK, SlotInv

\* Moving one thread to one of its labels keeps the type of pc.
LEMMA GotoType ==
    ASSUME TypeOK, NEW t \in Threads, NEW label, Goto(t, label),
           \/ t = "main" /\ label \in MainLabels
           \/ t = "copy" /\ label \in CopyLabels
           \/ t = "net"  /\ label \in NetLabels
    PROVE  /\ pc' \in [Threads -> MainLabels \cup CopyLabels \cup NetLabels]
           /\ pc'["main"] \in MainLabels /\ pc'["copy"] \in CopyLabels
           /\ pc'["net"] \in NetLabels
           /\ pc'[t] = label
           /\ \A u \in Threads : u # t => pc'[u] = pc[u]
BY DEF Goto, TypeOK, Threads

\* Taking or releasing a mutex keeps the type of mutex.
LEMMA MutexType ==
    ASSUME TypeOK, NEW t \in Threads, NEW m \in Mutexes, Take(t, m) \/ Release(m)
    PROVE  mutex' \in [Mutexes -> Threads \cup {Free}]
BY DEF Take, Release, TypeOK

\* loadConfig keeps the types.
LEMMA LoadTypes ==
    ASSUME TypeInv, NEW t \in {"main", "copy"},
           LoadOpen(t) \/ LoadLine(t) \/ LoadWild(t) \/ LoadDone(t)
    PROVE  TypeInv'
<1> USE DEF TypeInv, TypeOK, SlotInv, At, ipcVars, pageVars, configVars, netVars, passVars
<1>0. t \in Threads /\ "configMutex" \in Mutexes BY DEF Threads, Mutexes
<1>1. CASE LoadOpen(t)
  <2>1. lines' \in Seq(Line) /\ rebind_config' \in Seq(Buttons \X Buttons)
    BY <1>1, HidMitmAssumption DEF LoadOpen
  <2>2. mutex' \in [Mutexes -> Threads \cup {Free}] BY <1>0, <1>1, MutexType DEF LoadOpen
  <2>3. /\ pc' \in [Threads -> MainLabels \cup CopyLabels \cup NetLabels]
        /\ pc'["main"] \in MainLabels /\ pc'["copy"] \in CopyLabels
        /\ pc'["net"] \in NetLabels
        /\ pc'["copy"] = "rebind_held" => pc["copy"] = "rebind_held"
    BY <1>0, <1>1, GotoType DEF LoadOpen, MainLabels, CopyLabels, Threads
  <2> QED BY <1>1, <2>1, <2>2, <2>3 DEF LoadOpen
<1>2. CASE LoadLine(t)
  <2>1. Head(lines) \in Line /\ Tail(lines) \in Seq(Line) BY <1>2 DEF LoadLine
  <2>2. networking_enabled' \in BOOLEAN
    BY <1>2, <2>1, NetworkingAfterType, Zenon DEF LoadLine
  <2>3. stick_deadzone' \in S16 BY <1>2, <2>1, DeadzoneAfterType DEF LoadLine
  <2>4. rebind_config' \in Seq(Buttons \X Buttons)
    BY <1>2, <2>1, PushedType DEF LoadLine
  <2> QED BY <1>2, <2>1, <2>2, <2>3, <2>4 DEF LoadLine
<1>3. CASE LoadWild(t) BY <1>3 DEF LoadWild
<1>4. CASE LoadDone(t)
  <2>1. mutex' \in [Mutexes -> Threads \cup {Free}] BY <1>0, <1>4, MutexType DEF LoadDone
  <2>2. /\ pc' \in [Threads -> MainLabels \cup CopyLabels \cup NetLabels]
        /\ pc'["main"] \in MainLabels /\ pc'["copy"] \in CopyLabels
        /\ pc'["net"] \in NetLabels
        /\ pc'["copy"] = "rebind_held" => pc["copy"] = "rebind_held"
    BY <1>0, <1>4, GotoType DEF LoadDone, AfterLoad, MainLabels, CopyLabels, Threads
  <2> QED BY <1>4, <2>1, <2>2 DEF LoadDone
<1> QED BY <1>1, <1>2, <1>3, <1>4

\* mutexLock keeps the types.
LEMMA AcquireTypes ==
    ASSUME TypeInv, NEW t \in Threads, NEW m \in Mutexes, NEW from, NEW to,
           Acquire(t, m, from, to),
           \/ t = "main" /\ to \in MainLabels
           \/ t = "copy" /\ to \in CopyLabels /\ (to = "rebind_held" => slot <= Handheld)
           \/ t = "net"  /\ to \in NetLabels
    PROVE  TypeInv'
<1> USE DEF TypeInv, TypeOK, SlotInv, ipcVars, pageVars, configVars, netVars, passVars
<1>1. mutex' \in [Mutexes -> Threads \cup {Free}] BY MutexType DEF Acquire
<1>2. /\ pc' \in [Threads -> MainLabels \cup CopyLabels \cup NetLabels]
      /\ pc'["main"] \in MainLabels /\ pc'["copy"] \in CopyLabels
      /\ pc'["net"] \in NetLabels
      /\ pc'["copy"] = "rebind_held" => slot <= Handheld
  BY GotoType DEF Acquire, Threads
<1> QED BY <1>1, <1>2 DEF Acquire

PcOK == /\ pc \in [Threads -> MainLabels \cup CopyLabels \cup NetLabels]
        /\ pc["main"] \in MainLabels /\ pc["copy"] \in CopyLabels /\ pc["net"] \in NetLabels

\* The steps of the IPC thread outside loadConfig keep the types.
LEMMA MainTypes ==
    ASSUME TypeInv,
           Request \/ StartCopy \/ StartNet \/ AddShmem \/ DelShmem \/ CustomHidExit
           \/ CustomHidExitAbort \/ Clear
    PROVE  TypeInv'
<1> USE DEF TypeInv, TypeOK, SlotInv, ipcVars, pageVars, configVars, netVars, passVars
<1>0. "main" \in Threads /\ "shmem_mutex" \in Mutexes /\ "configMutex" \in Mutexes
  BY DEF Threads, Mutexes
<1>g. ASSUME NEW label \in MainLabels, Goto("main", label)
      PROVE  PcOK' /\ pc'["copy"] = pc["copy"]
  BY <1>0, <1>g, GotoType DEF PcOK, Threads
<1>m. ASSUME NEW m \in Mutexes, Release(m)
      PROVE  mutex' \in [Mutexes -> Threads \cup {Free}]
  BY <1>0, <1>m, MutexType
<1>1. ASSUME NEW p \in Pids, NEW r \in Res, Create(p, r) PROVE TypeInv'
  <2>1. PcOK' /\ pc'["copy"] = pc["copy"] BY <1>1, <1>g DEF Create, MainLabels
  <2>2. fake' \in [Res -> Image] BY <1>1, ZeroImageType DEF Create
  <2>3. memory' \in [Res -> {"unmapped", "mapped", "broken"}]
    BY <1>1 DEF Create
  <2> QED BY <1>1, <2>1, <2>2, <2>3 DEF Create, PcOK
<1>2. CASE CreateFatal BY <1>2 DEF CreateFatal
<1>3. ASSUME NEW r \in Res, Close(r) PROVE TypeInv'
  <2>1. PcOK' /\ pc'["copy"] = pc["copy"] BY <1>3, <1>g DEF Close, MainLabels
  <2>2. session' \in [Res -> BOOLEAN] BY <1>3 DEF Close
  <2> QED BY <1>3, <2>1, <2>2 DEF Close, PcOK
<1>4. CASE ReloadConfig
  <2>1. PcOK' /\ pc'["copy"] = pc["copy"] BY <1>4, <1>g DEF ReloadConfig, MainLabels
  <2> QED BY <1>4, <2>1 DEF ReloadConfig, PcOK
<1>5. CASE ClearConfig
  <2>1. PcOK' /\ pc'["copy"] = pc["copy"] BY <1>5, <1>g DEF ClearConfig, MainLabels
  <2> QED BY <1>5, <2>1 DEF ClearConfig, PcOK
<1>6. CASE StartCopy
  <2>1. PcOK' /\ pc'["copy"] # "rebind_held"
    BY <1>6 DEF StartCopy, PcOK, Threads, MainLabels, CopyLabels
  <2> QED BY <1>6, <2>1 DEF StartCopy, PcOK
<1>7. CASE StartNet
  <2>1. PcOK' /\ pc'["copy"] = pc["copy"]
    BY <1>7 DEF StartNet, PcOK, Threads, MainLabels, NetLabels
  <2> QED BY <1>7, <2>1 DEF StartNet, PcOK
<1>8. CASE AddShmem
  <2>1. PcOK' /\ pc'["copy"] = pc["copy"] BY <1>8, <1>g DEF AddShmem, MainLabels
  <2>2. mutex' \in [Mutexes -> Threads \cup {Free}] BY <1>0, <1>8, <1>m DEF AddShmem
  <2>3. session' \in [Res -> BOOLEAN] /\ sharedmems' \in [Pids -> Res \cup {NoRes}]
    BY <1>8 DEF AddShmem
  <2> QED BY <1>8, <2>1, <2>2, <2>3 DEF AddShmem, PcOK
<1>9. CASE DelShmem
  <2>1. PcOK' /\ pc'["copy"] = pc["copy"] BY <1>9, <1>g DEF DelShmem, MainLabels
  <2>2. mutex' \in [Mutexes -> Threads \cup {Free}] BY <1>0, <1>9, <1>m DEF DelShmem
  <2> QED BY <1>9, <2>1, <2>2 DEF DelShmem, PcOK
<1>10. CASE CustomHidExit
  <2>1. PcOK' /\ pc'["copy"] = pc["copy"] BY <1>10, <1>g DEF CustomHidExit, MainLabels
  <2>2. mutex' \in [Mutexes -> Threads \cup {Free}] BY <1>0, <1>10, <1>m DEF CustomHidExit
  <2>3. fake' \in [Res -> Image] BY <1>10, ZeroImageType DEF CustomHidExit
  <2> QED BY <1>10, <2>1, <2>2, <2>3 DEF CustomHidExit, PcOK
<1>11. CASE Clear
  <2>1. PcOK' /\ pc'["copy"] = pc["copy"] BY <1>11, <1>g DEF Clear, MainLabels
  <2>2. mutex' \in [Mutexes -> Threads \cup {Free}] BY <1>0, <1>11, <1>m DEF Clear
  <2> QED BY <1>11, <2>1, <2>2 DEF Clear, PcOK
<1>12. CASE CustomHidExitAbort BY <1>12 DEF CustomHidExitAbort
<1> QED BY <1>1, <1>2, <1>3, <1>4, <1>5, <1>6, <1>7, <1>8, <1>9, <1>10, <1>11, <1>12 DEF Request

\* A slot up to the handheld is one of the ten, and so is the next one counted.
LEMMA SlotRange ==
    ASSUME NEW i \in 0 .. Handheld + 1, i <= Handheld
    PROVE  i \in Slots /\ i + 1 \in 0 .. Handheld + 1
BY PadAssumption DEF Slots, Handheld

\* The steps of the copy thread outside loadConfig keep the types.
LEMMA CopyTypes ==
    ASSUME TypeInv,
           \/ CopyLockPkg \/ (\E p \in Pids : CopyIn(p)) \/ CopyApply
           \/ RebindSkip \/ Rebind \/ RebindEnd
           \/ CopyOut \/ CopyOutAbort \/ CopyUnlockPkg \/ CopyUnlockShmem
    PROVE  TypeInv'
<1> USE DEF TypeInv, TypeOK, SlotInv, ipcVars, pageVars, configVars, netVars, passVars
<1>0. "copy" \in Threads /\ Mutexes = {"shmem_mutex", "pkgMutex", "configMutex"}
  BY DEF Threads, Mutexes
<1>g. ASSUME NEW label \in CopyLabels \ {"rebind_held"}, Goto("copy", label)
      PROVE  PcOK' /\ pc'["copy"] # "rebind_held"
  BY <1>0, <1>g, GotoType DEF PcOK, Threads
<1>m. ASSUME NEW m \in Mutexes, Take("copy", m) \/ Release(m)
      PROVE  mutex' \in [Mutexes -> Threads \cup {Free}]
  BY <1>0, <1>m, MutexType
<1>1. CASE CopyLockPkg
  <2>1. PcOK' /\ pc'["copy"] # "rebind_held" BY <1>1, <1>g DEF CopyLockPkg, CopyLabels
  <2>2. mutex' \in [Mutexes -> Threads \cup {Free}] BY <1>0, <1>1, <1>m DEF CopyLockPkg
  <2> QED BY <1>1, <2>1, <2>2 DEF CopyLockPkg, PcOK
<1>2. ASSUME NEW p \in Pids, CopyIn(p) PROVE TypeInv'
  <2>1. PcOK' /\ pc'["copy"] # "rebind_held" BY <1>2, <1>g DEF CopyIn, CopyLabels
  <2>2. tmp_shmem_mem' \in Image BY <1>2, ShmemCopyType, HidMitmAssumption DEF CopyIn
  <2> QED BY <1>2, <2>1, <2>2 DEF CopyIn, PcOK
<1>3. CASE CopyApply
  <2>1. PcOK' /\ pc'["copy"] # "rebind_held" BY <1>3, <1>g DEF CopyApply, CopyLabels
  <2>2. tmp_shmem_mem' \in Image BY <1>3, ApplyFakeGamepadType DEF CopyApply
  <2> QED BY <1>3, <2>1, <2>2 DEF CopyApply, PcOK
<1>4. CASE RebindSkip
  <2>1. pc["copy"] # "rebind_held" /\ pc' = pc BY <1>4 DEF RebindSkip, At
  <2>2. slot' \in 0 .. Handheld + 1 BY <1>4, SlotRange DEF RebindSkip
  <2> QED BY <1>4, <2>1, <2>2 DEF RebindSkip
<1>5. CASE Rebind
  <2>1. PcOK' /\ pc'["copy"] # "rebind_held" BY <1>5, <1>g DEF Rebind, CopyLabels
  <2>2. slot <= Handheld BY <1>5 DEF Rebind, At
  <2>3. slot \in Slots /\ slot' \in 0 .. Handheld + 1 BY <1>5, <2>2, SlotRange DEF Rebind
  <2>4. stick_deadzone \in Int BY HalfS16Type DEF S16
  <2>5. tmp_shmem_mem' \in Image BY <1>5, <2>3, <2>4, RebindKeysType DEF Rebind
  <2>6. mutex' \in [Mutexes -> Threads \cup {Free}] BY <1>0, <1>5, <1>m DEF Rebind
  <2> QED BY <1>5, <2>1, <2>3, <2>5, <2>6 DEF Rebind, PcOK
<1>6. CASE RebindEnd
  <2>1. PcOK' /\ pc'["copy"] # "rebind_held" BY <1>6, <1>g DEF RebindEnd, CopyLabels
  <2>2. slot' \in 0 .. Handheld + 1 BY <1>6, PadAssumption DEF RebindEnd, Handheld
  <2> QED BY <1>6, <2>1, <2>2 DEF RebindEnd, PcOK
<1>7. CASE CopyOut
  <2>1. PcOK' /\ pc'["copy"] # "rebind_held" BY <1>7, <1>g DEF CopyOut, CopyLabels
  <2>2. \A r \in Res : ShmemCopy(tmp_shmem_mem, fake[r]) \in Image BY ShmemCopyType
  <2>3. fake' \in [Res -> Image] BY <1>7, <2>2 DEF CopyOut
  <2> QED BY <1>7, <2>1, <2>3 DEF CopyOut, PcOK
<1>8. CASE CopyOutAbort BY <1>8 DEF CopyOutAbort
<1>9. CASE CopyUnlockPkg
  <2>1. PcOK' /\ pc'["copy"] # "rebind_held" BY <1>9, <1>g DEF CopyUnlockPkg, CopyLabels
  <2>2. mutex' \in [Mutexes -> Threads \cup {Free}] BY <1>0, <1>9, <1>m DEF CopyUnlockPkg
  <2> QED BY <1>9, <2>1, <2>2 DEF CopyUnlockPkg, PcOK
<1>10. CASE CopyUnlockShmem
  <2>1. PcOK' /\ pc'["copy"] # "rebind_held" BY <1>10, <1>g DEF CopyUnlockShmem, CopyLabels
  <2>2. mutex' \in [Mutexes -> Threads \cup {Free}]
    BY <1>0, <1>10, <1>m DEF CopyUnlockShmem
  <2> QED BY <1>10, <2>1, <2>2 DEF CopyUnlockShmem, PcOK
<1> QED BY <1>1, <1>2, <1>3, <1>4, <1>5, <1>6, <1>7, <1>8, <1>9, <1>10

\* The steps of the network thread keep the types.
LEMMA NetTypes ==
    ASSUME TypeInv, NetPoll \/ NetStore \/ NetVoid \/ NetWake \/ NetExit
    PROVE  TypeInv'
<1> USE DEF TypeInv, TypeOK, SlotInv, ipcVars, pageVars, configVars, netVars, passVars
<1>0. "net" \in Threads /\ "pkgMutex" \in Mutexes BY DEF Threads, Mutexes
<1>g. ASSUME NEW label \in NetLabels, Goto("net", label)
      PROVE  PcOK' /\ pc'["copy"] = pc["copy"]
  BY <1>0, <1>g, GotoType DEF PcOK, Threads
<1>m. ASSUME Release("pkgMutex") PROVE mutex' \in [Mutexes -> Threads \cup {Free}]
  BY <1>0, <1>m, MutexType
<1>1. CASE NetPoll
  <2>1. PcOK' /\ pc'["copy"] = pc["copy"] BY <1>1, <1>g DEF NetPoll, NetLabels
  <2>2. polled' \in Message BY <1>1, HidMitmAssumption, NoMessageType DEF NetPoll
  <2> QED BY <1>1, <2>1, <2>2 DEF NetPoll, PcOK
<1>2. CASE NetStore
  <2>1. PcOK' /\ pc'["copy"] = pc["copy"] BY <1>2, <1>g DEF NetStore, NetLabels
  <2>2. mutex' \in [Mutexes -> Threads \cup {Free}] BY <1>2, <1>m DEF NetStore
  <2> QED BY <1>2, <2>1, <2>2, NoMessageType DEF NetStore, PcOK
<1>3. CASE NetVoid
  <2>1. PcOK' /\ pc'["copy"] = pc["copy"] BY <1>3, <1>g DEF NetVoid, NetLabels
  <2>2. cur_fakegamepad_state' \in Message BY <1>3 DEF NetVoid, Message
  <2> QED BY <1>3, <2>1, <2>2 DEF NetVoid, PcOK
<1>4. CASE NetWake
  <2>1. PcOK' /\ pc'["copy"] = pc["copy"] BY <1>4, <1>g DEF NetWake, NetLabels
  <2>2. mutex' \in [Mutexes -> Threads \cup {Free}] BY <1>4, <1>m DEF NetWake
  <2> QED BY <1>4, <2>1, <2>2 DEF NetWake, PcOK
<1>5. CASE NetExit BY <1>5 DEF NetExit
<1> QED BY <1>1, <1>2, <1>3, <1>4, <1>5

\* Every step keeps the types.
LEMMA StepTypes == TypeInv /\ [Next]_vars => TypeInv'
<1> SUFFICES ASSUME TypeInv, [Next]_vars PROVE TypeInv'
  OBVIOUS
<1>0. /\ {"main", "copy", "net"} \subseteq Threads
      /\ {"shmem_mutex", "pkgMutex", "configMutex"} \subseteq Mutexes
  BY DEF Threads, Mutexes
<1>1. CASE \/ Acquire("main", "shmem_mutex", "add_lock", "add")
           \/ Acquire("main", "shmem_mutex", "del_lock", "del")
           \/ Acquire("main", "shmem_mutex", "exit_lock", "exit")
           \/ Acquire("main", "configMutex", "clear_lock", "clear")
  BY <1>0, <1>1, AcquireTypes DEF MainLabels
<1>2. CASE Acquire("copy", "shmem_mutex", "lock_shmem", "lock_pkg")
  BY <1>0, <1>2, AcquireTypes DEF CopyLabels
<1>3. CASE RebindLock BY <1>0, <1>3, AcquireTypes DEF CopyLabels, RebindLock
<1>4. CASE NetAcquire BY <1>0, <1>4, AcquireTypes DEF NetLabels, NetAcquire
<1>5. CASE UNCHANGED vars
  BY <1>5 DEF vars, TypeInv, TypeOK, SlotInv, ipcVars, pageVars, configVars, netVars, passVars
<1> QED BY <1>1, <1>2, <1>3, <1>4, <1>5, StepCases, LoadTypes, MainTypes, CopyTypes, NetTypes

\* The type invariant, with the bound on the gamepad index at mutexLock.
THEOREM TypeInvHolds == Spec => []TypeInv
BY InitTypeInv, StepTypes, PTL DEF Spec

\* Every variable of the process stays in the data the code gives it.
THEOREM TypeCorrect == Spec => []TypeOK
<1>1. TypeInv => TypeOK BY DEF TypeInv
<1> QED BY TypeInvHolds, <1>1, PTL

-----------------------------------------------------------------------------
(* Mutexes.                                                                *)

\* The threads do not exist before the IPC thread starts them.
BootInv ==
    /\ pc["main"] = "start_copy" => pc["copy"] = "off"
    /\ pc["main"] = "start_net" => pc["net"] = "off"
    /\ pc["copy"] = "off" => pc["main"] \in {"load_lock", "load", "start_copy"}
                               /\ pc["net"] = "off"

LockInv == MutexDiscipline /\ BootInv

\* At boot all mutexes are free and nobody is past a mutexLock.
LEMMA InitLockInv == Init => LockInv
BY DEF Init, LockInv, MutexDiscipline, BootInv, Holds, InPass, Threads, Mutexes, Free

(***************************************************************************)
(* A step of thread t that touches no mutex, and moves t between labels    *)
(* where it holds the same mutexes.                                        *)
(***************************************************************************)
LEMMA KeepMutex ==
    ASSUME TypeInv, LockInv, NEW t \in Threads, NEW label,
           pc' = [pc EXCEPT ![t] = label], mutex' = mutex,
           \A m \in Mutexes : Holds(t, m)' <=> Holds(t, m)
    PROVE  MutexDiscipline'
<1>1. \A u \in Threads : u # t => pc'[u] = pc[u] BY DEF TypeInv, TypeOK
<1>2. ASSUME NEW u \in Threads, NEW m \in Mutexes PROVE Holds(u, m)' <=> Holds(u, m)
  <2>1. CASE u = t BY <2>1
  <2>2. CASE u # t
    BY <1>1, <2>2 DEF Holds, InPass, Threads
  <2> QED BY <2>1, <2>2
<1> QED BY <1>2 DEF LockInv, MutexDiscipline

\* A step of t that takes the mutex m0 while it is free.
LEMMA TakeMutex ==
    ASSUME TypeInv, LockInv, NEW t \in Threads, NEW m0 \in Mutexes, NEW label,
           pc' = [pc EXCEPT ![t] = label], Take(t, m0),
           \A m \in Mutexes : Holds(t, m)' <=> Holds(t, m) \/ m = m0
    PROVE  MutexDiscipline'
<1>1. \A u \in Threads : u # t => pc'[u] = pc[u] BY DEF TypeInv, TypeOK
<1>2. ASSUME NEW u \in Threads, NEW m \in Mutexes, u # t
      PROVE  Holds(u, m)' <=> Holds(u, m)
  BY <1>1, <1>2 DEF Holds, InPass, Threads
<1>3. \A m \in Mutexes : mutex'[m] = IF m = m0 THEN t ELSE mutex[m]
  BY DEF Take, TypeInv, TypeOK
<1>4. \A u \in Threads : ~Holds(u, m0)
  BY DEF Take, LockInv, MutexDiscipline, Threads, Free
<1> QED BY <1>2, <1>3, <1>4 DEF LockInv, MutexDiscipline

\* A step of t that releases the mutex m0, which it holds.
LEMMA ReleaseMutex ==
    ASSUME TypeInv, LockInv, NEW t \in Threads, NEW m0 \in Mutexes, NEW label,
           pc' = [pc EXCEPT ![t] = label], Release(m0), Holds(t, m0),
           \A m \in Mutexes : Holds(t, m)' <=> Holds(t, m) /\ m # m0
    PROVE  MutexDiscipline'
<1>1. \A u \in Threads : u # t => pc'[u] = pc[u] BY DEF TypeInv, TypeOK
<1>2. ASSUME NEW u \in Threads, NEW m \in Mutexes, u # t
      PROVE  Holds(u, m)' <=> Holds(u, m)
  BY <1>1, <1>2 DEF Holds, InPass, Threads
<1>3. \A m \in Mutexes : mutex'[m] = IF m = m0 THEN Free ELSE mutex[m]
  BY DEF Release, TypeInv, TypeOK
<1>4. mutex[m0] = t BY DEF LockInv, MutexDiscipline
<1>5. Free \notin Threads BY DEF Free, Threads
<1> QED BY <1>2, <1>3, <1>4, <1>5 DEF LockInv, MutexDiscipline

\* loadConfig takes configMutex, holds it from line to line, and releases it.
LEMMA LoadLocks ==
    ASSUME TypeInv, LockInv, NEW t \in {"main", "copy"},
           LoadOpen(t) \/ LoadLine(t) \/ LoadWild(t) \/ LoadDone(t)
    PROVE  MutexDiscipline'
<1>0. t \in Threads /\ "configMutex" \in Mutexes BY DEF Threads, Mutexes
<1>t. \A label : pc' = [pc EXCEPT ![t] = label] => pc'[t] = label
  BY <1>0 DEF TypeInv, TypeOK
<1>1. CASE LoadOpen(t)
  <2>1. \A m \in Mutexes : Holds(t, m)' <=> Holds(t, m) \/ m = "configMutex"
    BY <1>1, <1>t DEF LoadOpen, At, Goto, Holds, InPass
  <2> QED BY <1>0, <1>1, <2>1, TakeMutex DEF LoadOpen, Goto
<1>2. CASE LoadLine(t) \/ LoadWild(t)
  BY <1>2 DEF LoadLine, LoadWild, LockInv, MutexDiscipline, Holds, InPass
<1>3. CASE LoadDone(t)
  <2>1. Holds(t, "configMutex") BY <1>3 DEF LoadDone, At, Holds
  <2>2. \A m \in Mutexes : Holds(t, m)' <=> Holds(t, m) /\ m # "configMutex"
    BY <1>3, <1>t DEF LoadDone, AfterLoad, At, Goto, Holds, InPass
  <2> QED BY <1>0, <1>3, <2>1, <2>2, ReleaseMutex DEF LoadDone, Goto
<1> QED BY <1>1, <1>2, <1>3

\* The IPC thread takes one mutex at a time and releases it on every path.
LEMMA MainLocks ==
    ASSUME TypeInv, LockInv,
           \/ Request \/ StartCopy \/ StartNet
           \/ Acquire("main", "shmem_mutex", "add_lock", "add")
           \/ Acquire("main", "shmem_mutex", "del_lock", "del")
           \/ Acquire("main", "shmem_mutex", "exit_lock", "exit")
           \/ Acquire("main", "configMutex", "clear_lock", "clear")
           \/ AddShmem \/ DelShmem \/ CustomHidExit
           \/ CustomHidExitAbort \/ Clear
    PROVE  MutexDiscipline'
<1>0. "main" \in Threads /\ "configMutex" \in Mutexes /\ "shmem_mutex" \in Mutexes
  BY DEF Threads, Mutexes
<1>t. \A label : pc' = [pc EXCEPT !["main"] = label] => pc'["main"] = label
  BY <1>0 DEF TypeInv, TypeOK
<1>1. CASE CreateFatal \/ CustomHidExitAbort
  BY <1>1 DEF CreateFatal, CustomHidExitAbort, LockInv, MutexDiscipline, Holds, InPass
<1>2. CASE Request /\ ~CreateFatal
  <2>1. PICK label \in {"add_lock", "del_lock", "load_lock", "clear_lock"} :
          pc["main"] = "idle" /\ Goto("main", label) /\ mutex' = mutex
    BY <1>2 DEF Request, Create, Close, ReloadConfig, ClearConfig, At
  <2>2. \A m \in Mutexes : Holds("main", m)' <=> Holds("main", m)
    BY <2>1, <1>t DEF Goto, Holds
  <2> QED BY <1>0, <2>1, <2>2, KeepMutex DEF Goto
<1>3. CASE StartCopy
  <2>1. pc["copy"] = "off" BY <1>3 DEF StartCopy, At, LockInv, BootInv
  <2>2. /\ pc'["main"] = "start_net" /\ pc'["copy"] = "load_lock" /\ pc'["net"] = pc["net"]
        /\ pc["main"] = "start_copy" /\ mutex' = mutex
    BY <1>3 DEF StartCopy, At, TypeInv, TypeOK, Threads
  <2> QED BY <2>1, <2>2 DEF LockInv, MutexDiscipline, Holds, InPass, Threads
<1>4. CASE StartNet
  <2>1. pc["net"] = "off" BY <1>4 DEF StartNet, At, LockInv, BootInv
  <2>2. /\ pc'["main"] = "idle" /\ pc'["net"] = "poll" /\ pc'["copy"] = pc["copy"]
        /\ pc["main"] = "start_net" /\ mutex' = mutex
    BY <1>4 DEF StartNet, At, TypeInv, TypeOK, Threads
  <2> QED BY <2>1, <2>2 DEF LockInv, MutexDiscipline, Holds, InPass, Threads
<1>5. ASSUME NEW from \in {"add_lock", "del_lock", "exit_lock"}, NEW to \in {"add", "del", "exit"},
             Acquire("main", "shmem_mutex", from, to)
      PROVE  MutexDiscipline'
  <2>1. \A m \in Mutexes : Holds("main", m)' <=> Holds("main", m) \/ m = "shmem_mutex"
    BY <1>5, <1>t DEF Acquire, At, Goto, Holds
  <2> QED BY <1>0, <1>5, <2>1, TakeMutex DEF Acquire, Goto
<1>6. CASE Acquire("main", "configMutex", "clear_lock", "clear")
  <2>1. \A m \in Mutexes : Holds("main", m)' <=> Holds("main", m) \/ m = "configMutex"
    BY <1>6, <1>t DEF Acquire, At, Goto, Holds
  <2> QED BY <1>0, <1>6, <2>1, TakeMutex DEF Acquire, Goto
<1>7. CASE AddShmem \/ DelShmem \/ CustomHidExit
  <2>1. PICK label \in {"idle", "exit_lock"} :
          /\ pc["main"] \in {"add", "del", "exit"}
          /\ Goto("main", label) /\ Release("shmem_mutex")
    BY <1>7 DEF AddShmem, DelShmem, CustomHidExit, At
  <2>2. Holds("main", "shmem_mutex") BY <2>1 DEF Holds
  <2>3. \A m \in Mutexes : Holds("main", m)' <=> Holds("main", m) /\ m # "shmem_mutex"
    BY <2>1, <1>t DEF Goto, Holds
  <2> QED BY <1>0, <2>1, <2>2, <2>3, ReleaseMutex DEF Goto
<1>8. CASE Clear
  <2>1. Holds("main", "configMutex") BY <1>8 DEF Clear, At, Holds
  <2>2. \A m \in Mutexes : Holds("main", m)' <=> Holds("main", m) /\ m # "configMutex"
    BY <1>8, <1>t DEF Clear, At, Goto, Holds
  <2> QED BY <1>0, <1>8, <2>1, <2>2, ReleaseMutex DEF Clear, Goto
<1> QED BY <1>1, <1>2, <1>3, <1>4, <1>5, <1>6, <1>7, <1>8

\* The copy thread nests the three mutexes and leaves none behind.
LEMMA CopyLocks ==
    ASSUME TypeInv, LockInv,
           \/ Acquire("copy", "shmem_mutex", "lock_shmem", "lock_pkg")
           \/ CopyLockPkg \/ RebindLock
           \/ (\E p \in Pids : CopyIn(p)) \/ CopyApply \/ RebindSkip \/ Rebind \/ RebindEnd
           \/ CopyOut \/ CopyOutAbort \/ CopyUnlockPkg \/ CopyUnlockShmem
    PROVE  MutexDiscipline'
<1>0. "copy" \in Threads /\ Mutexes = {"shmem_mutex", "pkgMutex", "configMutex"}
  BY DEF Threads, Mutexes
<1>t. \A label : pc' = [pc EXCEPT !["copy"] = label] => pc'["copy"] = label
  BY <1>0 DEF TypeInv, TypeOK
<1>1. CASE Acquire("copy", "shmem_mutex", "lock_shmem", "lock_pkg")
  <2>1. \A m \in Mutexes : Holds("copy", m)' <=> Holds("copy", m) \/ m = "shmem_mutex"
    BY <1>1, <1>t DEF Acquire, At, Goto, Holds, InPass
  <2> QED BY <1>0, <1>1, <2>1, TakeMutex DEF Acquire, Goto
<1>2. CASE CopyLockPkg
  <2>1. \A m \in Mutexes : Holds("copy", m)' <=> Holds("copy", m) \/ m = "pkgMutex"
    BY <1>2, <1>t DEF CopyLockPkg, At, Goto, Holds, InPass
  <2> QED BY <1>0, <1>2, <2>1, TakeMutex DEF CopyLockPkg, Goto
<1>3. CASE RebindLock
  <2>1. \A m \in Mutexes : Holds("copy", m)' <=> Holds("copy", m) \/ m = "configMutex"
    BY <1>3, <1>t DEF RebindLock, Acquire, At, Goto, Holds, InPass
  <2> QED BY <1>0, <1>3, <2>1, TakeMutex DEF RebindLock, Acquire, Goto
<1>4. CASE (\E p \in Pids : CopyIn(p)) \/ CopyApply \/ RebindEnd \/ CopyOut
  <2>1. PICK label \in {"apply", "rebind", "out", "pick"} :
          /\ pc["copy"] \in {"apply", "rebind", "out", "pick"}
          /\ Goto("copy", label) /\ mutex' = mutex
    BY <1>4 DEF CopyIn, CopyApply, RebindEnd, CopyOut, At
  <2>2. \A m \in Mutexes : Holds("copy", m)' <=> Holds("copy", m)
    BY <2>1, <1>t DEF Goto, Holds, InPass
  <2> QED BY <1>0, <2>1, <2>2, KeepMutex DEF Goto
<1>5. CASE RebindSkip \/ CopyOutAbort
  BY <1>5 DEF RebindSkip, CopyOutAbort, LockInv, MutexDiscipline, Holds, InPass
<1>6. CASE Rebind
  <2>1. Holds("copy", "configMutex") BY <1>6 DEF Rebind, At, Holds
  <2>2. \A m \in Mutexes : Holds("copy", m)' <=> Holds("copy", m) /\ m # "configMutex"
    BY <1>6, <1>t DEF Rebind, At, Goto, Holds, InPass
  <2> QED BY <1>0, <1>6, <2>1, <2>2, ReleaseMutex DEF Rebind, Goto
<1>7. CASE CopyUnlockPkg
  <2>1. Holds("copy", "pkgMutex") BY <1>7 DEF CopyUnlockPkg, At, Holds, InPass
  <2>2. \A m \in Mutexes : Holds("copy", m)' <=> Holds("copy", m) /\ m # "pkgMutex"
    BY <1>7, <1>t DEF CopyUnlockPkg, At, Goto, Holds, InPass
  <2> QED BY <1>0, <1>7, <2>1, <2>2, ReleaseMutex DEF CopyUnlockPkg, Goto
<1>8. CASE CopyUnlockShmem
  <2>1. Holds("copy", "shmem_mutex") BY <1>8 DEF CopyUnlockShmem, At, Holds, InPass
  <2>2. \A m \in Mutexes : Holds("copy", m)' <=> Holds("copy", m) /\ m # "shmem_mutex"
    BY <1>8, <1>t DEF CopyUnlockShmem, At, Goto, Holds, InPass
  <2> QED BY <1>0, <1>8, <2>1, <2>2, ReleaseMutex DEF CopyUnlockShmem, Goto
<1> QED BY <1>1, <1>2, <1>3, <1>4, <1>5, <1>6, <1>7, <1>8

\* The network thread keeps pkgMutex through its sleep and then releases it.
LEMMA NetLocks ==
    ASSUME TypeInv, LockInv, NetAcquire \/ NetPoll \/ NetStore \/ NetVoid \/ NetWake \/ NetExit
    PROVE  MutexDiscipline'
<1>0. "net" \in Threads /\ "pkgMutex" \in Mutexes BY DEF Threads, Mutexes
<1>t. \A label : pc' = [pc EXCEPT !["net"] = label] => pc'["net"] = label
  BY <1>0 DEF TypeInv, TypeOK
<1>1. CASE NetAcquire
  <2>1. \A m \in Mutexes : Holds("net", m)' <=> Holds("net", m) \/ m = "pkgMutex"
    BY <1>1, <1>t DEF NetAcquire, Acquire, At, Goto, Holds
  <2> QED BY <1>0, <1>1, <2>1, TakeMutex DEF NetAcquire, Acquire, Goto
<1>2. CASE NetPoll
  <2>1. \A m \in Mutexes : Holds("net", m)' <=> Holds("net", m)
    BY <1>2, <1>t DEF NetPoll, At, Goto, Holds
  <2> QED BY <1>0, <1>2, <2>1, KeepMutex DEF NetPoll, Goto
<1>3. CASE NetVoid
  <2>1. \A m \in Mutexes : Holds("net", m)' <=> Holds("net", m)
    BY <1>3, <1>t DEF NetVoid, At, Goto, Holds
  <2> QED BY <1>0, <1>3, <2>1, KeepMutex DEF NetVoid, Goto
<1>4. CASE NetStore \/ NetWake
  <2>1. Goto("net", "poll") /\ Release("pkgMutex") /\ pc["net"] \in {"store", "hold"}
    BY <1>4 DEF NetStore, NetWake, At
  <2>2. Holds("net", "pkgMutex") BY <2>1 DEF Holds
  <2>3. \A m \in Mutexes : Holds("net", m)' <=> Holds("net", m) /\ m # "pkgMutex"
    BY <2>1, <1>t DEF Goto, Holds
  <2> QED BY <1>0, <2>1, <2>2, <2>3, ReleaseMutex DEF Goto
<1>5. CASE NetExit BY <1>5 DEF NetExit, LockInv, MutexDiscipline, Holds, InPass
<1> QED BY <1>1, <1>2, <1>3, <1>4, <1>5

\* The IPC thread starts the copy thread once, and the network thread after it.
LEMMA StepBoot == ASSUME TypeInv, LockInv, [Next]_vars PROVE BootInv'
<1> USE DEF TypeInv, TypeOK, LockInv, BootInv, At, Goto, Threads
<1>1. ASSUME NEW t \in {"main", "copy"},
             LoadOpen(t) \/ LoadLine(t) \/ LoadWild(t) \/ LoadDone(t)
      PROVE  BootInv'
  BY <1>1 DEF LoadOpen, LoadLine, LoadWild, LoadDone, AfterLoad
<1>2. CASE Request
  BY <1>2 DEF Request, Create, CreateFatal, Close, ReloadConfig, ClearConfig
<1>3. CASE \/ Acquire("main", "shmem_mutex", "add_lock", "add")
           \/ Acquire("main", "shmem_mutex", "del_lock", "del")
           \/ Acquire("main", "shmem_mutex", "exit_lock", "exit")
           \/ Acquire("main", "configMutex", "clear_lock", "clear")
  BY <1>3 DEF Acquire
<1>4. CASE StartCopy \/ StartNet \/ AddShmem \/ DelShmem \/ CustomHidExit
           \/ CustomHidExitAbort \/ Clear
  BY <1>4 DEF StartCopy, StartNet, AddShmem, DelShmem, CustomHidExit, CustomHidExitAbort, Clear
<1>5. CASE \/ Acquire("copy", "shmem_mutex", "lock_shmem", "lock_pkg")
           \/ CopyLockPkg \/ RebindLock \/ (\E p \in Pids : CopyIn(p)) \/ CopyApply
           \/ RebindSkip \/ Rebind \/ RebindEnd
           \/ CopyOut \/ CopyOutAbort \/ CopyUnlockPkg \/ CopyUnlockShmem
  <2>1. /\ pc["copy"] # "off"
        /\ UNCHANGED pc \/ \E label \in CopyLabels \ {"off"} : Goto("copy", label)
    BY <1>5 DEF Acquire, CopyLockPkg, RebindLock, CopyIn, CopyApply, RebindSkip, Rebind,
                RebindEnd, CopyOut, CopyOutAbort, CopyUnlockPkg, CopyUnlockShmem, CopyLabels
  <2> QED BY <2>1
<1>6. CASE NetAcquire \/ NetPoll \/ NetStore \/ NetVoid \/ NetWake \/ NetExit
  BY <1>6 DEF NetAcquire, Acquire, NetPoll, NetStore, NetVoid, NetWake, NetExit
<1>7. CASE UNCHANGED vars BY <1>7 DEF vars
<1> QED BY <1>1, <1>2, <1>3, <1>4, <1>5, <1>6, <1>7, StepCases

\* Every step keeps the mutex invariant.
LEMMA StepLockInv == TypeInv /\ LockInv /\ [Next]_vars => LockInv'
<1> SUFFICES ASSUME TypeInv, LockInv, [Next]_vars PROVE MutexDiscipline'
  BY StepBoot DEF LockInv
<1>1. CASE UNCHANGED vars
  BY <1>1 DEF vars, LockInv, MutexDiscipline, Holds, InPass
<1>2. ASSUME NEW t \in {"main", "copy"},
             LoadOpen(t) \/ LoadLine(t) \/ LoadWild(t) \/ LoadDone(t)
      PROVE  MutexDiscipline'
  BY <1>2, LoadLocks
<1>3. CASE \/ Request \/ StartCopy \/ StartNet
           \/ Acquire("main", "shmem_mutex", "add_lock", "add")
           \/ Acquire("main", "shmem_mutex", "del_lock", "del")
           \/ Acquire("main", "shmem_mutex", "exit_lock", "exit")
           \/ Acquire("main", "configMutex", "clear_lock", "clear")
           \/ AddShmem \/ DelShmem \/ CustomHidExit
           \/ CustomHidExitAbort \/ Clear
  BY <1>3, MainLocks
<1>4. CASE \/ Acquire("copy", "shmem_mutex", "lock_shmem", "lock_pkg")
           \/ CopyLockPkg \/ RebindLock
           \/ (\E p \in Pids : CopyIn(p)) \/ CopyApply \/ RebindSkip \/ Rebind \/ RebindEnd
           \/ CopyOut \/ CopyOutAbort \/ CopyUnlockPkg \/ CopyUnlockShmem
  BY <1>4, CopyLocks
<1>5. CASE NetAcquire \/ NetPoll \/ NetStore \/ NetVoid \/ NetWake \/ NetExit
  BY <1>5, NetLocks
<1> QED BY <1>1, <1>2, <1>3, <1>4, <1>5, StepCases, Zenon

\* Types and mutexes.
THEOREM LockInvHolds == Spec => [](TypeInv /\ LockInv)
BY InitTypeInv, InitLockInv, StepTypes, StepLockInv, PTL DEF Spec

(***************************************************************************)
(* A thread owns a mutex exactly between its mutexLock and the mutexUnlock *)
(* that its path leads to.                                                 *)
(***************************************************************************)
THEOREM MutexesWellUsed == Spec => []MutexDiscipline
<1>1. LockInv => MutexDiscipline BY DEF LockInv
<1> QED BY LockInvHolds, <1>1, PTL

(***************************************************************************)
(* No deadlock.  Only the copy thread waits while it owns something, so    *)
(* whatever it waits for is owned by a thread that does not wait.          *)
(***************************************************************************)
LEMMA OwnersRun == TypeInv /\ LockInv => NoDeadlock
<1> SUFFICES ASSUME TypeInv, LockInv, NEW group \in (SUBSET Threads) \ {{}},
                    \A t \in group : \E m \in Mutexes : Wants(t, m) /\ mutex[m] \in group
             PROVE  FALSE
  BY DEF NoDeadlock
<1>1. ASSUME NEW t \in Threads, NEW m \in Mutexes, NEW n \in Mutexes,
             Wants(t, m), Holds(t, n)
      PROVE  t = "copy" /\ m # n
  BY <1>1 DEF Wants, Holds, InPass, Threads
<1>2. \A t \in Threads, m \in Mutexes : mutex[m] = t => Holds(t, m)
  BY DEF LockInv, MutexDiscipline
<1>3. ASSUME NEW t \in group PROVE "copy" \in group
  <2>1. PICK m \in Mutexes : Wants(t, m) /\ mutex[m] \in group OBVIOUS
  <2>2. PICK n \in Mutexes : Wants(mutex[m], n) /\ mutex[n] \in group BY <2>1
  <2> QED BY <2>1, <2>2, <1>1, <1>2
<1>4. "copy" \in group BY <1>3
<1>5. PICK m \in Mutexes : Wants("copy", m) /\ mutex[m] \in group BY <1>4
<1>6. mutex[m] # "copy" BY <1>1, <1>2, <1>5
<1>7. PICK n \in Mutexes : Wants(mutex[m], n) BY <1>5
<1> QED BY <1>1, <1>2, <1>5, <1>6, <1>7

\* No group of threads waits for itself.
THEOREM DeadlockFree == Spec => []NoDeadlock
BY LockInvHolds, OwnersRun, PTL

-----------------------------------------------------------------------------
(***************************************************************************)
(* The table of pages: the copy thread never follows an address that has   *)
(* been unmapped, the table does not change under its iterator, and what a *)
(* client holds stays registered.                                          *)
(*                                                                         *)
(* NoUseAfterUnmap is not inductive.  It needs to know of the object that  *)
(* the IPC thread is about to register or to unmap that no entry of the    *)
(* table leads to it, which ObjInv adds, and that the copy thread is not   *)
(* in a pass then, which the mutex invariant gives.                        *)
(***************************************************************************)

\* The request at hand is about an object, between mapping and unmapping it.
Handling == pc["main"] \in {"add_lock", "add", "del_lock", "del", "exit_lock", "exit"}

\* It is not in the table: not yet, or no longer.
Detached == pc["main"] \in {"add_lock", "add", "exit_lock", "exit"}

ObjInv ==
    /\ Handling => arg \in Res /\ memory[arg] # "unmapped" /\ ~session[arg]
    /\ Detached => \A p \in Pids : sharedmems[p] # arg
    /\ \A r \in Res : session[r] => memory[r] # "unmapped"
    /\ \A r \in Res : memory[r] # "unmapped" => pidOf[r] \in Pids

\* With one object per pid: whoever is mapped has a pid of its own.
OwnPids ==
    OnePerPid => \A q, r \in Res :
        q # r /\ memory[q] # "unmapped" /\ memory[r] # "unmapped" => pidOf[q] # pidOf[r]

PageInv == ObjInv /\ NoUseAfterUnmap /\ OwnPids /\ OpenIsRegistered

\* At boot the table is empty and nothing is mapped.
LEMMA InitPageInv == Init => PageInv
BY HidMitmAssumption
   DEF Init, PageInv, ObjInv, Handling, Detached, NoUseAfterUnmap, OwnPids, OpenIsRegistered,
       Registered, InPass, Threads

\* While the IPC thread owns shmem_mutex, the copy thread is not in a pass.
LEMMA NoPassMeanwhile ==
    ASSUME TypeInv, LockInv, pc["main"] \in {"add", "del", "exit"}
    PROVE  ~InPass
<1>1. mutex["shmem_mutex"] = "main"
  BY DEF LockInv, MutexDiscipline, Holds, Threads, Mutexes
<1>2. ~Holds("copy", "shmem_mutex")
  BY <1>1 DEF LockInv, MutexDiscipline, Threads, Mutexes
<1> QED BY <1>2 DEF Holds

(***************************************************************************)
(* A step that leaves the table and the iterator alone, and moves the      *)
(* threads only where the invariant does not look.                         *)
(***************************************************************************)
LEMMA KeepPages ==
    ASSUME PageInv, UNCHANGED <<ipcVars, todo, it>>,
           Handling' => Handling, Detached' => Detached, InPass' => InPass,
           InPass' /\ pc'["copy"] # "pick" => pc["copy"] # "pick"
    PROVE  PageInv'
BY DEF PageInv, ObjInv, NoUseAfterUnmap, OwnPids, OpenIsRegistered, Registered, ipcVars

\* loadConfig has nothing to do with pages.
LEMMA LoadPages ==
    ASSUME TypeInv, PageInv, NEW t \in {"main", "copy"},
           LoadOpen(t) \/ LoadLine(t) \/ LoadWild(t) \/ LoadDone(t)
    PROVE  PageInv'
<1>1. /\ UNCHANGED <<ipcVars, todo, it>>
      /\ UNCHANGED pc \/ \E label \in {"load", "lock_shmem", "start_copy", "idle"} :
                            pc' = [pc EXCEPT ![t] = label]
  BY DEF LoadOpen, LoadLine, LoadWild, LoadDone, AfterLoad, Goto, passVars
<1>2. /\ \A u \in Threads \ {t} : pc'[u] = pc[u]
      /\ pc'[t] # pc[t] => pc'[t] \in {"load", "lock_shmem", "start_copy", "idle"}
  BY <1>1 DEF TypeInv, TypeOK, Threads
<1>3. /\ Handling' => Handling
      /\ Detached' => Detached
      /\ InPass' => InPass
      /\ InPass' /\ pc'["copy"] # "pick" => pc["copy"] # "pick"
  BY <1>2 DEF Handling, Detached, InPass, Threads
<1> QED BY <1>1, <1>3, KeepPages

\* Registering and unregistering, mapping and unmapping.
LEMMA MainPages ==
    ASSUME TypeInv, LockInv, PageInv,
           \/ Request \/ StartCopy \/ StartNet
           \/ AddShmem \/ DelShmem \/ CustomHidExit
           \/ CustomHidExitAbort \/ Clear
    PROVE  PageInv'
<1>0. "main" \in Threads BY DEF Threads
<1>t. \A label : Goto("main", label) => pc'["main"] = label /\ pc'["copy"] = pc["copy"]
  BY <1>0 DEF Goto, TypeInv, TypeOK, Threads
<1> USE DEF PageInv, ObjInv, NoUseAfterUnmap, OwnPids, OpenIsRegistered, Registered, At
<1>1. ASSUME NEW p \in Pids, NEW r \in Res, Create(p, r) PROVE PageInv'
  <2>1. /\ pc["main"] = "idle" /\ pc'["main"] = "add_lock" /\ pc'["copy"] = pc["copy"]
        /\ memory[r] = "unmapped" /\ ~session[r]
        /\ memory' = [memory EXCEPT ![r] = memory'[r]] /\ memory'[r] \in {"mapped", "broken"}
        /\ pidOf' = [pidOf EXCEPT ![r] = p] /\ arg' = r
        /\ UNCHANGED <<sharedmems, session, todo, it>>
    BY <1>1, <1>t DEF Create, passVars, TypeInv, TypeOK
  <2>2. \A q \in Res : q # r => memory'[q] = memory[q] /\ pidOf'[q] = pidOf[q]
    BY <2>1 DEF TypeInv, TypeOK
  <2>3. \A q \in Pids : sharedmems'[q] = sharedmems[q] /\ sharedmems[q] # r
    BY <2>1, HidMitmAssumption
  <2>4. \A q \in Pids : sharedmems[q] \in Res \cup {NoRes} BY DEF TypeInv, TypeOK
  <2>5. pidOf'[r] = p BY <2>1 DEF TypeInv, TypeOK
  <2>6. NoUseAfterUnmap' BY <2>1, <2>2, <2>3, <2>4 DEF InPass
  <2>7. ObjInv' BY <2>1, <2>2, <2>3, <2>5, HidMitmAssumption DEF Handling, Detached
  <2>8. OnePerPid => \A q \in Res : memory[q] = "unmapped" \/ pidOf[q] # p
    BY <1>1 DEF Create
  <2>9. OwnPids' BY <2>1, <2>2, <2>5, <2>8
  <2>10. OpenIsRegistered' BY <2>1, <2>2
  <2> QED BY <2>6, <2>7, <2>9, <2>10
<1>2. CASE CreateFatal \/ CustomHidExitAbort
  BY <1>2 DEF CreateFatal, CustomHidExitAbort, ipcVars, passVars, Handling, Detached, InPass
<1>3. ASSUME NEW r \in Res, Close(r) PROVE PageInv'
  <2>1. /\ pc["main"] = "idle" /\ pc'["main"] = "del_lock" /\ pc'["copy"] = pc["copy"]
        /\ session[r] /\ session' = [session EXCEPT ![r] = FALSE] /\ arg' = r
        /\ UNCHANGED <<sharedmems, memory, pidOf, todo, it>>
    BY <1>3, <1>t DEF Close, passVars
  <2>2. ~session'[r] /\ \A q \in Res : session'[q] => session[q]
    BY <2>1 DEF TypeInv, TypeOK
  <2>3. NoUseAfterUnmap' BY <2>1 DEF InPass
  <2>4. ObjInv' BY <2>1, <2>2 DEF Handling, Detached
  <2>5. OwnPids' /\ OpenIsRegistered' BY <2>1, <2>2
  <2> QED BY <2>3, <2>4, <2>5
<1>4. CASE ReloadConfig \/ ClearConfig \/ Clear
  <2>1. /\ pc'["main"] \in {"load_lock", "clear_lock", "idle"} /\ pc'["copy"] = pc["copy"]
        /\ UNCHANGED <<ipcVars, todo, it>>
    BY <1>4, <1>t DEF ReloadConfig, ClearConfig, Clear, passVars
  <2> QED BY <2>1, KeepPages DEF Handling, Detached, InPass
<1>5. CASE StartCopy \/ StartNet
  <2>1. /\ pc'["main"] \in {"start_net", "idle"}
        /\ pc'["copy"] = pc["copy"] \/ pc'["copy"] = "load_lock"
        /\ UNCHANGED <<ipcVars, todo, it>>
    BY <1>5 DEF StartCopy, StartNet, passVars, TypeInv, TypeOK, Threads
  <2> QED BY <2>1, KeepPages DEF Handling, Detached, InPass
<1>6. CASE AddShmem
  <2>1. /\ pc["main"] = "add" /\ pc'["main"] = "idle" /\ pc'["copy"] = pc["copy"]
        /\ sharedmems' = [sharedmems EXCEPT ![pidOf[arg]] = arg]
        /\ session' = [session EXCEPT ![arg] = TRUE]
        /\ UNCHANGED <<memory, pidOf>>
    BY <1>6, <1>t DEF AddShmem
  <2>2. arg \in Res /\ memory[arg] # "unmapped" /\ pidOf[arg] \in Pids
    BY <2>1 DEF Handling
  <2>3. ~InPass' BY <2>1, NoPassMeanwhile DEF InPass
  <2>4. \A p \in Pids : sharedmems'[p] = IF p = pidOf[arg] THEN arg ELSE sharedmems[p]
    BY <2>1 DEF TypeInv, TypeOK
  <2>5. \A r \in Res : session'[r] = IF r = arg THEN TRUE ELSE session[r]
    BY <2>1 DEF TypeInv, TypeOK
  <2>6. NoUseAfterUnmap' BY <2>1, <2>2, <2>3, <2>4
  <2>7. ObjInv' BY <2>1, <2>2, <2>5 DEF Handling, Detached
  <2>8. OwnPids' BY <2>1
  <2>9. OpenIsRegistered' BY <2>1, <2>2, <2>4, <2>5
  <2> QED BY <2>6, <2>7, <2>8, <2>9
<1>7. CASE DelShmem
  <2>1. /\ pc["main"] = "del" /\ pc'["main"] = "exit_lock" /\ pc'["copy"] = pc["copy"]
        /\ sharedmems' = [sharedmems EXCEPT ![pidOf[arg]] = NoRes]
        /\ UNCHANGED <<memory, pidOf, session, arg>>
    BY <1>7, <1>t DEF DelShmem
  <2>2. arg \in Res /\ memory[arg] # "unmapped" /\ pidOf[arg] \in Pids /\ ~session[arg]
    BY <2>1 DEF Handling
  <2>3. ~InPass' BY <2>1, NoPassMeanwhile DEF InPass
  <2>4. \A p \in Pids : sharedmems'[p] = IF p = pidOf[arg] THEN NoRes ELSE sharedmems[p]
    BY <2>1 DEF TypeInv, TypeOK
  <2>5. \A p \in Pids : sharedmems'[p] # arg BY <2>2, <2>4, HidMitmAssumption
  <2>6. NoUseAfterUnmap' BY <2>1, <2>3, <2>4
  <2>7. ObjInv' BY <2>1, <2>2, <2>5 DEF Handling, Detached
  <2>8. OwnPids' BY <2>1
  <2>9. OpenIsRegistered' BY <2>1, <2>2, <2>4
  <2> QED BY <2>6, <2>7, <2>8, <2>9
<1>8. CASE CustomHidExit
  <2>1. /\ pc["main"] = "exit" /\ pc'["main"] = "idle" /\ pc'["copy"] = pc["copy"]
        /\ memory' = [memory EXCEPT ![arg] = "unmapped"]
        /\ pidOf' = [pidOf EXCEPT ![arg] = NoPid]
        /\ UNCHANGED <<sharedmems, session>>
    BY <1>8, <1>t DEF CustomHidExit
  <2>2. arg \in Res /\ ~session[arg] /\ \A p \in Pids : sharedmems[p] # arg
    BY <2>1 DEF Handling, Detached
  <2>3. ~InPass' BY <2>1, NoPassMeanwhile DEF InPass
  <2>4. /\ memory'[arg] = "unmapped"
        /\ \A r \in Res : r # arg => memory'[r] = memory[r] /\ pidOf'[r] = pidOf[r]
    BY <2>1, <2>2 DEF TypeInv, TypeOK
  <2>5. \A p \in Pids : sharedmems[p] \in Res \cup {NoRes} BY DEF TypeInv, TypeOK
  <2>6. NoUseAfterUnmap' BY <2>1, <2>2, <2>3, <2>4, <2>5
  <2>7. ObjInv' BY <2>1, <2>2, <2>4 DEF Handling, Detached
  <2>8. OwnPids' BY <2>1, <2>2, <2>4
  <2>9. OpenIsRegistered' BY <2>1, <2>2, <2>4
  <2> QED BY <2>6, <2>7, <2>8, <2>9
<1> QED BY <1>1, <1>2, <1>3, <1>4, <1>5, <1>6, <1>7, <1>8 DEF Request

\* Waiting for a mutex leaves the object at hand where it was.
LEMMA MainWaits ==
    ASSUME TypeInv, PageInv,
           \/ Acquire("main", "shmem_mutex", "add_lock", "add")
           \/ Acquire("main", "shmem_mutex", "del_lock", "del")
           \/ Acquire("main", "shmem_mutex", "exit_lock", "exit")
           \/ Acquire("main", "configMutex", "clear_lock", "clear")
    PROVE  PageInv'
<1>1. /\ UNCHANGED <<ipcVars, todo, it>> /\ pc'["copy"] = pc["copy"]
      /\ <<pc["main"], pc'["main"]>> \in {<<"add_lock", "add">>, <<"del_lock", "del">>,
                                          <<"exit_lock", "exit">>, <<"clear_lock", "clear">>}
  BY DEF Acquire, At, Goto, passVars, TypeInv, TypeOK, Threads
<1> QED BY <1>1, KeepPages DEF Handling, Detached, InPass

\* A pass begins with all registered games and drops each one it has served.
LEMMA CopyPages ==
    ASSUME TypeInv, PageInv,
           \/ Acquire("copy", "shmem_mutex", "lock_shmem", "lock_pkg")
           \/ CopyLockPkg \/ RebindLock
           \/ (\E p \in Pids : CopyIn(p)) \/ CopyApply \/ RebindSkip \/ Rebind \/ RebindEnd
           \/ CopyOut \/ CopyOutAbort \/ CopyUnlockPkg \/ CopyUnlockShmem
    PROVE  PageInv'
<1>0. "copy" \in Threads BY DEF Threads
<1>t. \A label : Goto("copy", label) => pc'["copy"] = label /\ pc'["main"] = pc["main"]
  BY <1>0 DEF Goto, TypeInv, TypeOK, Threads
<1>k. ASSUME UNCHANGED ipcVars, pc'["main"] = pc["main"], NoUseAfterUnmap' PROVE PageInv'
  BY <1>k DEF PageInv, ObjInv, Handling, Detached, OwnPids, OpenIsRegistered, ipcVars
<1> USE DEF NoUseAfterUnmap, Registered, InPass, At, PageInv, ipcVars
<1>1. CASE Acquire("copy", "shmem_mutex", "lock_shmem", "lock_pkg")
  BY <1>1, <1>t, <1>k DEF Acquire, passVars
<1>2. CASE CopyLockPkg BY <1>2, <1>t, <1>k DEF CopyLockPkg
<1>3. CASE RebindLock BY <1>3, <1>t, <1>k DEF RebindLock, Acquire, passVars
<1>4. CASE \E p \in Pids : CopyIn(p) BY <1>4, <1>t, <1>k DEF CopyIn
<1>5. CASE CopyApply BY <1>5, <1>t, <1>k DEF CopyApply, passVars
<1>6. CASE RebindSkip BY <1>6, <1>k DEF RebindSkip
<1>7. CASE Rebind BY <1>7, <1>t, <1>k DEF Rebind
<1>8. CASE RebindEnd BY <1>8, <1>t, <1>k DEF RebindEnd
<1>9. CASE CopyOut BY <1>9, <1>t, <1>k DEF CopyOut
<1>10. CASE CopyOutAbort BY <1>10, <1>k DEF CopyOutAbort, passVars
<1>11. CASE CopyUnlockPkg BY <1>11, <1>t, <1>k DEF CopyUnlockPkg
<1>12. CASE CopyUnlockShmem BY <1>12, <1>t, <1>k DEF CopyUnlockShmem, passVars
<1> QED BY <1>1, <1>2, <1>3, <1>4, <1>5, <1>6, <1>7, <1>8, <1>9, <1>10, <1>11, <1>12

\* The network thread has nothing to do with pages.
LEMMA NetPages ==
    ASSUME TypeInv, PageInv, NetAcquire \/ NetPoll \/ NetStore \/ NetVoid \/ NetWake \/ NetExit
    PROVE  PageInv'
<1>1. /\ UNCHANGED <<ipcVars, todo, it>>
      /\ pc'["main"] = pc["main"] /\ pc'["copy"] = pc["copy"]
  BY DEF NetAcquire, Acquire, NetPoll, NetStore, NetVoid, NetWake, NetExit, Goto, passVars,
         TypeInv, TypeOK, Threads
<1> QED BY <1>1, KeepPages DEF Handling, Detached, InPass

\* Every step keeps the invariant of the pages.
LEMMA StepPageInv == TypeInv /\ LockInv /\ PageInv /\ [Next]_vars => PageInv'
<1> SUFFICES ASSUME TypeInv, LockInv, PageInv, [Next]_vars PROVE PageInv'
  OBVIOUS
<1>1. ASSUME NEW t \in {"main", "copy"},
             LoadOpen(t) \/ LoadLine(t) \/ LoadWild(t) \/ LoadDone(t)
      PROVE  PageInv'
  BY <1>1, LoadPages
<1>2. CASE \/ Acquire("main", "shmem_mutex", "add_lock", "add")
           \/ Acquire("main", "shmem_mutex", "del_lock", "del")
           \/ Acquire("main", "shmem_mutex", "exit_lock", "exit")
           \/ Acquire("main", "configMutex", "clear_lock", "clear")
  BY <1>2, MainWaits
<1>3. CASE \/ Request \/ StartCopy \/ StartNet
           \/ AddShmem \/ DelShmem \/ CustomHidExit
           \/ CustomHidExitAbort \/ Clear
  BY <1>3, MainPages
<1>4. CASE \/ Acquire("copy", "shmem_mutex", "lock_shmem", "lock_pkg")
           \/ CopyLockPkg \/ RebindLock
           \/ (\E p \in Pids : CopyIn(p)) \/ CopyApply \/ RebindSkip \/ Rebind \/ RebindEnd
           \/ CopyOut \/ CopyOutAbort \/ CopyUnlockPkg \/ CopyUnlockShmem
  BY <1>4, CopyPages
<1>5. CASE NetAcquire \/ NetPoll \/ NetStore \/ NetVoid \/ NetWake \/ NetExit
  BY <1>5, NetPages
<1>6. CASE UNCHANGED vars
  BY <1>6, KeepPages DEF vars, passVars, Handling, Detached, InPass
<1> QED BY <1>1, <1>2, <1>3, <1>4, <1>5, <1>6, StepCases, Zenon

\* Types, mutexes and pages.
THEOREM PageInvHolds == Spec => [](TypeInv /\ LockInv /\ PageInv)
BY LockInvHolds, InitPageInv, StepPageInv, PTL DEF Spec

(***************************************************************************)
(* The copy thread goes through registered objects only, and a registered  *)
(* object's pages are not unmapped, whatever clients open and close.       *)
(***************************************************************************)
THEOREM PagesStayMapped == Spec => []NoUseAfterUnmap
<1>1. PageInv => NoUseAfterUnmap BY DEF PageInv
<1> QED BY PageInvHolds, <1>1, PTL

(***************************************************************************)
(* If no game opens a second resource, what a client holds is registered.  *)
(***************************************************************************)
THEOREM HeldIsRegistered == Spec => []OpenIsRegistered
<1>1. PageInv => OpenIsRegistered BY DEF PageInv
<1> QED BY PageInvHolds, <1>1, PTL

-----------------------------------------------------------------------------
(* What cannot happen during a pass, and what stops the process.           *)

\* A step that leaves the table alone and unmaps nothing.
Stable == /\ sharedmems' = sharedmems
          /\ \A r \in Res : memory'[r] = "unmapped" => memory[r] = "unmapped"

\* Table and mappings change only in the three sections under shmem_mutex.
LEMMA StepStable ==
    ASSUME TypeInv, LockInv, [Next]_vars, InPass
    PROVE  Stable
<1>0. pc["main"] \notin {"add", "del", "exit"} BY NoPassMeanwhile
<1>1. ASSUME UNCHANGED <<sharedmems, memory>> PROVE Stable BY <1>1 DEF Stable
<1>2. ASSUME NEW t \in {"main", "copy"},
             LoadOpen(t) \/ LoadLine(t) \/ LoadWild(t) \/ LoadDone(t)
      PROVE  Stable
  BY <1>1, <1>2 DEF LoadOpen, LoadLine, LoadWild, LoadDone, ipcVars
<1>3. CASE Request
  <2>1. ASSUME NEW p \in Pids, NEW r \in Res, Create(p, r) PROVE Stable
    BY <2>1 DEF Create, TypeInv, TypeOK, Stable
  <2>2. CASE CreateFatal \/ ReloadConfig \/ ClearConfig \/ \E r \in Res : Close(r)
    BY <1>1, <2>2 DEF CreateFatal, ReloadConfig, ClearConfig, Close, ipcVars
  <2> QED BY <1>3, <2>1, <2>2 DEF Request
<1>4. CASE AddShmem \/ DelShmem \/ CustomHidExit
  BY <1>0, <1>4 DEF AddShmem, DelShmem, CustomHidExit, At
<1>5. CASE \/ StartCopy \/ StartNet \/ CustomHidExitAbort \/ Clear
           \/ Acquire("main", "shmem_mutex", "add_lock", "add")
           \/ Acquire("main", "shmem_mutex", "del_lock", "del")
           \/ Acquire("main", "shmem_mutex", "exit_lock", "exit")
           \/ Acquire("main", "configMutex", "clear_lock", "clear")
  BY <1>1, <1>5 DEF StartCopy, StartNet, CustomHidExitAbort, Clear, Acquire, ipcVars
<1>6. CASE \/ Acquire("copy", "shmem_mutex", "lock_shmem", "lock_pkg")
           \/ CopyLockPkg \/ RebindLock
           \/ (\E p \in Pids : CopyIn(p)) \/ CopyApply \/ RebindSkip \/ Rebind \/ RebindEnd
           \/ CopyOut \/ CopyOutAbort \/ CopyUnlockPkg \/ CopyUnlockShmem
  BY <1>1, <1>6 DEF Acquire, CopyLockPkg, RebindLock, CopyIn, CopyApply, RebindSkip, Rebind,
            RebindEnd, CopyOut, CopyOutAbort, CopyUnlockPkg, CopyUnlockShmem, ipcVars
<1>7. CASE \/ NetAcquire \/ NetPoll \/ NetStore \/ NetVoid \/ NetWake \/ NetExit \/ UNCHANGED vars
  BY <1>1, <1>7 DEF NetAcquire, Acquire, NetPoll, NetStore, NetVoid, NetWake, NetExit, ipcVars, vars
<1> QED BY <1>2, <1>3, <1>4, <1>5, <1>6, <1>7, StepCases, Zenon

(***************************************************************************)
(* During a pass of the copy thread sharedmems does not change and no page *)
(* is unmapped.                                                            *)
(***************************************************************************)
THEOREM PassIsStable == Spec => StableDuringPass
<1>1. TypeInv /\ LockInv /\ [Next]_vars =>
        [InPass => /\ sharedmems' = sharedmems
                   /\ \A r \in Res : memory'[r] = "unmapped" => memory[r] = "unmapped"]_vars
  BY StepStable DEF Stable
<1> QED BY LockInvHolds, <1>1, PTL DEF Spec, StableDuringPass

\* Nothing is done once the process has stopped.
LEMMA HaltedIsFinal ==
    ASSUME [Next]_vars, halted # "no"
    PROVE  UNCHANGED vars
BY DEF Next, Request, Create, CreateFatal, Close, ReloadConfig, ClearConfig, MainAcquire,
       LoadOpen, Acquire, MainStep, Load, LoadLine, LoadWild, LoadDone, StartCopy, StartNet,
       AddShmem, DelShmem, CustomHidExit, CustomHidExitAbort, Clear, CopyAcquire,
       CopyLockPkg, RebindLock,
       CopyStep, CopyIn, CopyApply, RebindSkip, Rebind, RebindEnd, CopyOut, CopyOutAbort,
       CopyUnlockPkg, CopyUnlockShmem, NetAcquire, NetStep, NetPoll, NetStore, NetVoid,
       NetWake, NetExit, Halted, At

\* The three steps that abort.
LEMMA WhoAborts ==
    ASSUME [Next]_vars, halted' # halted, halted' = "abort"
    PROVE  LoadWild("main") \/ LoadWild("copy") \/ CopyOutAbort \/ CustomHidExitAbort
BY DEF Next, Request, Create, CreateFatal, Close, ReloadConfig, ClearConfig, MainAcquire,
       LoadOpen, Acquire, MainStep, Load, LoadLine, LoadDone, StartCopy, StartNet,
       AddShmem, DelShmem, CustomHidExit, Clear, CopyAcquire, CopyLockPkg, RebindLock,
       CopyStep, CopyIn, CopyApply, RebindSkip, Rebind, RebindEnd, CopyOut,
       CopyUnlockPkg, CopyUnlockShmem, NetAcquire, NetStep, NetPoll, NetStore, NetVoid,
       NetWake, NetExit, Halted, vars

\* A step from a state in which the pages are in order aborts only as AbortCause says.
LEMMA StepAbortCause ==
    ASSUME TypeInv, PageInv, AbortCause, [Next]_vars
    PROVE  AbortCause'
<1> SUFFICES ASSUME halted' = "abort" PROVE AbortCause'
  BY DEF AbortCause
<1>1. CASE halted # "no"
  <2>1. UNCHANGED vars BY <1>1, HaltedIsFinal
  <2> QED BY <2>1 DEF AbortCause, vars, ipcVars, passVars, configVars
<1>2. CASE halted = "no"
  <2>1. CASE \E t \in {"main", "copy"} : LoadWild(t)
    BY <2>1 DEF LoadWild, At, AbortCause, configVars
  <2>2. CASE CopyOutAbort
    <3>1. pc["copy"] = "out" /\ memory[sharedmems[it]] # "mapped" /\ UNCHANGED <<pc, ipcVars, it>>
      BY <2>2 DEF CopyOutAbort, At, passVars
    <3>2. it \in Pids /\ Registered(it)
      BY <3>1 DEF PageInv, NoUseAfterUnmap, InPass, TypeInv, TypeOK
    <3>3. sharedmems[it] \in Res /\ memory[sharedmems[it]] # "unmapped"
      BY <3>2 DEF Registered, PageInv, NoUseAfterUnmap, TypeInv, TypeOK
    <3>4. memory[sharedmems[it]] = "broken" BY <3>1, <3>3 DEF TypeInv, TypeOK
    <3> QED BY <3>1, <3>4 DEF AbortCause, ipcVars
  <2>3. CASE CustomHidExitAbort
    BY <2>3 DEF CustomHidExitAbort, At, AbortCause, ipcVars
  <2> QED BY <1>2, <2>1, <2>2, <2>3, WhoAborts
<1> QED BY <1>1, <1>2

(***************************************************************************)
(* The process aborts only where a failed shmemCreate / shmemMap was       *)
(* ignored, or where a word of config.ini overran key_names.               *)
(***************************************************************************)
THEOREM AbortsExplained == Spec => []AbortCause
<1>1. Init => AbortCause BY DEF Init, AbortCause
<1> QED BY PageInvHolds, <1>1, StepAbortCause, PTL DEF Spec
=============================================================================
