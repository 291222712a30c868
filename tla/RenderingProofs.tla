--------------------------- MODULE RenderingProofs ---------------------------
(***************************************************************************)
(* Proofs about what the games see: every shadow page presents one state   *)
(* of a real page with at most one packet under complete configurations,   *)
(* all games of a pass are given the same packet, and with that the three  *)
(* threads implement the rounds of HidFeed.                                *)
(*                                                                         *)
(* Three layers above the table of pages: ConfigInv says how far a reading *)
(* of config.ini has come, ScratchInv how far the rendering in the scratch *)
(* image has, and GameInv what is in the shadow pages.                     *)
(***************************************************************************)
EXTENDS HidMitmProofs, HidMitmFeed

-----------------------------------------------------------------------------
(* The configuration.                                                      *)

\* The recursion in Readings defines a function.
LEMMA ReadingsDefined ==
    ASSUME NEW file, Len(file) \in Nat
    PROVE  Readings(file) = [n \in 0 .. Len(file) |->
              IF n = 0 THEN {<<>>} ELSE Extended(Readings(file)[n - 1], file[n])]
<1> DEFINE Has(f, n) == f = [m \in 0 .. n |->
                              IF m = 0 THEN {<<>>} ELSE Extended(f[m - 1], file[m])]
           S == {n \in 0 .. Len(file) : \E f : Has(f, n)}
<1>1. 0 \in S
  <2>1. Has([m \in 0 .. 0 |-> {<<>>}], 0) OBVIOUS
  <2> HIDE DEF Has
  <2> QED BY <2>1
<1>2. ASSUME NEW n \in S, n < Len(file) PROVE n + 1 \in S
  <2>1. PICK f : Has(f, n) OBVIOUS
  <2> DEFINE g == [m \in 0 .. n + 1 |->
                     IF m = n + 1 THEN Extended(f[n], file[n + 1]) ELSE f[m]]
  <2>2. ASSUME NEW m \in 0 .. n + 1
        PROVE  g[m] = IF m = 0 THEN {<<>>} ELSE Extended(g[m - 1], file[m])
    <3>1. CASE m = n + 1 BY <3>1
    <3>2. CASE m \in 0 .. n
      <4>1. g[m] = f[m] /\ (m # 0 => g[m - 1] = f[m - 1]) BY <3>2
      <4>2. f[m] = IF m = 0 THEN {<<>>} ELSE Extended(f[m - 1], file[m]) BY <2>1, <3>2
      <4> HIDE DEF g
      <4> QED BY <4>1, <4>2
    <3> QED BY <3>1, <3>2
  <2>3. Has(g, n + 1)
    <3>1. g = [m \in 0 .. n + 1 |-> g[m]] OBVIOUS
    <3> HIDE DEF g
    <3> QED BY <2>2, <3>1
  <2> HIDE DEF g, Has
  <2>4. n + 1 \in 0 .. Len(file) BY <1>2
  <2> QED BY <2>3, <2>4
<1>3. Len(file) \in S
  <2> HIDE DEF S
  <2> QED BY <1>1, <1>2, UpTo
<1>4. \E f : Has(f, Len(file)) BY <1>3
<1>5. Readings(file) = CHOOSE f : Has(f, Len(file)) BY DEF Readings
<1>6. Has(Readings(file), Len(file))
  <2> HIDE DEF Has
  <2> QED BY <1>4, <1>5
<1> QED BY <1>6

\* What a line may append to one of the configurations before.
LEMMA ExtendedHas ==
    ASSUME NEW before, NEW line, NEW cfg \in before, NEW more \in Pushed(line)
    PROVE  cfg \o more \in Extended(before, line)
BY DEF Extended

Loading == pc["main"] = "load" \/ pc["copy"] = "load"

\* The first n lines of the file have been read, and rest is what follows.
ReadUpTo(file, n, rest, cfg) ==
    /\ Len(rest) = Len(file) - n
    /\ \A k \in 1 .. Len(rest) : rest[k] = file[n + k]
    /\ cfg \in Readings(file)[n]

(***************************************************************************)
(* While a thread is in the middle of config.ini, rebind_config is what    *)
(* the lines so far leave; otherwise it is what a whole file leaves.       *)
(***************************************************************************)
ConfigInv ==
    /\ stick_deadzone \in CompleteDeadzones
    /\ Loading => \E file \in Files : \E n \in 0 .. Len(file) :
                     ReadUpTo(file, n, lines, rebind_config)
    /\ ~Loading => rebind_config \in CompleteConfigs

\* Both are the empty configuration at boot.
LEMMA InitConfigInv == Init => ConfigInv
BY DEF Init, ConfigInv, Loading, Threads, CompleteConfigs, CompleteDeadzones

\* A step that reads nothing and starts or ends no reading.
LEMMA KeepConfig ==
    ASSUME ConfigInv, UNCHANGED <<rebind_config, stick_deadzone, lines>>, Loading' <=> Loading
    PROVE  ConfigInv'
BY DEF ConfigInv

\* When configMutex is free or one's own, the other thread is not reading.
LEMMA OneReader ==
    ASSUME LockInv, NEW t \in {"main", "copy"}, mutex["configMutex"] \in {t, Free}
    PROVE  \A u \in {"main", "copy"} \ {t} : pc[u] # "load"
BY DEF LockInv, MutexDiscipline, Holds, Threads, Mutexes, Free

\* loadConfig reads a file from its first line to its last.
LEMMA LoadConfigs ==
    ASSUME TypeInv, LockInv, ConfigInv, NEW t \in {"main", "copy"},
           LoadOpen(t) \/ LoadLine(t) \/ LoadWild(t) \/ LoadDone(t)
    PROVE  ConfigInv'
<1>0. t \in Threads /\ "configMutex" \in Mutexes /\ t # Free
  BY DEF Threads, Mutexes, Free
<1>1. CASE LoadOpen(t)
  <2>1. rebind_config' = <<>> /\ lines' \in Files /\ stick_deadzone' = stick_deadzone
    BY <1>1 DEF LoadOpen
  <2>2. Loading' BY <1>0, <1>1 DEF LoadOpen, Goto, Loading, TypeInv, TypeOK
  <2>3. lines' \in Seq(Line) BY <2>1, HidMitmAssumption
  <2>4. 0 \in 0 .. Len(lines') /\ rebind_config' \in Readings(lines')[0]
    BY <2>1, <2>3, ReadingsDefined
  <2>5. ReadUpTo(lines', 0, lines', rebind_config') BY <2>3, <2>4 DEF ReadUpTo
  <2> QED BY <2>1, <2>2, <2>4, <2>5 DEF ConfigInv
<1>2. CASE LoadLine(t)
  <2>1. /\ lines # <<>> /\ lines \in Seq(Line) /\ lines' = Tail(lines)
        /\ stick_deadzone' = DeadzoneAfter(Head(lines), stick_deadzone)
        /\ \E more \in Pushed(Head(lines)) : rebind_config' = rebind_config \o more
        /\ Loading /\ Loading'
    BY <1>2 DEF LoadLine, At, Loading, TypeInv, TypeOK
  <2>a. PICK file \in Files : \E n \in 0 .. Len(file) : ReadUpTo(file, n, lines, rebind_config)
    BY <2>1 DEF ConfigInv
  <2>2. PICK n \in 0 .. Len(file) : ReadUpTo(file, n, lines, rebind_config) BY <2>a
  <2>3. file \in Seq(Line) BY HidMitmAssumption
  <2>4. Len(lines) > 0 /\ Head(lines) = lines[1] BY <2>1
  <2>5. n + 1 \in 1 .. Len(file) /\ Head(lines) = file[n + 1]
    BY <2>2, <2>3, <2>4 DEF ReadUpTo
  <2>6. Readings(file)[n + 1] = Extended(Readings(file)[n], file[n + 1])
    BY <2>3, <2>5, ReadingsDefined
  <2>7. rebind_config' \in Readings(file)[n + 1]
    <3>1. PICK more \in Pushed(file[n + 1]) : rebind_config' = rebind_config \o more
      BY <2>1, <2>5
    <3>2. rebind_config \in Readings(file)[n] BY <2>2 DEF ReadUpTo
    <3>3. rebind_config' \in Extended(Readings(file)[n], file[n + 1])
      BY <3>1, <3>2, ExtendedHas
    <3> QED BY <2>6, <3>3
  <2>8. /\ Len(lines') = Len(lines) - 1
        /\ \A k \in 1 .. Len(lines') : lines'[k] = lines[k + 1]
    BY <2>1
  <2>9. ReadUpTo(file, n + 1, lines', rebind_config')
    <3>1. Len(lines') = Len(file) - (n + 1) BY <2>2, <2>3, <2>8 DEF ReadUpTo
    <3>2. ASSUME NEW k \in 1 .. Len(lines') PROVE lines'[k] = file[n + 1 + k]
      <4>1. lines'[k] = lines[k + 1] /\ k + 1 \in 1 .. Len(lines) BY <2>1, <2>8
      <4> QED BY <2>2, <4>1 DEF ReadUpTo
    <3> QED BY <2>7, <3>1, <3>2 DEF ReadUpTo
  <2>10. stick_deadzone' \in CompleteDeadzones
    <3>1. CASE file[n + 1].name = "deadzone"
      <4>1. stick_deadzone' = ToS16(file[n + 1].num) BY <2>1, <2>5, <3>1 DEF DeadzoneAfter
      <4>2. stick_deadzone' \in Deadzones(file) BY <2>3, <2>5, <3>1, <4>1 DEF Deadzones
      <4> QED BY <4>2 DEF CompleteDeadzones
    <3>2. CASE file[n + 1].name # "deadzone"
      BY <2>1, <2>5, <3>2 DEF DeadzoneAfter, ConfigInv
    <3> QED BY <3>1, <3>2
  <2> QED BY <2>1, <2>5, <2>9, <2>10 DEF ConfigInv
<1>3. CASE LoadWild(t) BY <1>3, KeepConfig DEF LoadWild, configVars, Loading
<1>4. CASE LoadDone(t)
  <2>1. /\ lines = <<>> /\ UNCHANGED <<rebind_config, stick_deadzone>>
        /\ Loading /\ pc[t] = "load"
        /\ pc' = [pc EXCEPT ![t] = AfterLoad(t)]
    BY <1>4 DEF LoadDone, At, Loading, configVars, Goto
  <2>2. mutex["configMutex"] = t
    BY <1>0, <2>1 DEF LockInv, MutexDiscipline, Holds
  <2>3. ~Loading'
    BY <1>0, <2>1, <2>2, OneReader DEF Loading, AfterLoad, TypeInv, TypeOK
  <2>a. PICK file \in Files : \E n \in 0 .. Len(file) : ReadUpTo(file, n, lines, rebind_config)
    BY <2>1 DEF ConfigInv
  <2>4. PICK n \in 0 .. Len(file) : ReadUpTo(file, n, lines, rebind_config) BY <2>a
  <2>5. file \in Seq(Line) BY HidMitmAssumption
  <2>6. n = Len(file) BY <2>1, <2>4, <2>5 DEF ReadUpTo
  <2>7. rebind_config' \in Complete(file) BY <2>1, <2>4, <2>6 DEF ReadUpTo, Complete
  <2> QED BY <2>1, <2>3, <2>7 DEF ConfigInv, CompleteConfigs
<1> QED BY <1>1, <1>2, <1>3, <1>4

\* Only loadConfig and clearConfig write the configuration.
LEMMA StepConfigInv == TypeInv /\ LockInv /\ ConfigInv /\ [Next]_vars => ConfigInv'
<1> SUFFICES ASSUME TypeInv, LockInv, ConfigInv, [Next]_vars PROVE ConfigInv'
  OBVIOUS
<1>t. ASSUME NEW t \in Threads, NEW label, Goto(t, label), label # "load", pc[t] # "load"
      PROVE  Loading' <=> Loading
  BY <1>t DEF Goto, Loading, TypeInv, TypeOK, Threads
<1>0. "main" \in Threads /\ "copy" \in Threads /\ "net" \in Threads BY DEF Threads
<1>1. ASSUME NEW t \in {"main", "copy"},
             LoadOpen(t) \/ LoadLine(t) \/ LoadWild(t) \/ LoadDone(t)
      PROVE  ConfigInv'
  BY <1>1, LoadConfigs
<1>2. CASE \/ Acquire("main", "shmem_mutex", "add_lock", "add")
           \/ Acquire("main", "shmem_mutex", "del_lock", "del")
           \/ Acquire("main", "shmem_mutex", "exit_lock", "exit")
           \/ Acquire("main", "configMutex", "clear_lock", "clear")
  <2>1. UNCHANGED configVars /\ (Loading' <=> Loading)
    BY <1>0, <1>2, <1>t DEF Acquire, At
  <2> QED BY <2>1, KeepConfig DEF configVars
<1>3. CASE Request
  <2>1. UNCHANGED configVars /\ (Loading' <=> Loading)
    BY <1>0, <1>3, <1>t DEF Request, Create, CreateFatal, Close, ReloadConfig, ClearConfig, At,
                            Loading
  <2> QED BY <2>1, KeepConfig DEF configVars
<1>4. CASE StartCopy \/ StartNet
  <2>1. UNCHANGED configVars BY <1>4 DEF StartCopy, StartNet
  <2>2. Loading' <=> Loading
    <3>1. CASE StartCopy
      <4>1. pc["copy"] = "off" BY <3>1 DEF StartCopy, At, LockInv, BootInv
      <4> QED BY <3>1, <4>1 DEF StartCopy, At, Loading, TypeInv, TypeOK, Threads
    <3>2. CASE StartNet BY <3>2 DEF StartNet, At, Loading, TypeInv, TypeOK, Threads
    <3> QED BY <1>4, <3>1, <3>2
  <2> QED BY <2>1, <2>2, KeepConfig DEF configVars
<1>5. CASE AddShmem \/ DelShmem \/ CustomHidExit \/ CustomHidExitAbort
  <2>1. UNCHANGED configVars /\ (Loading' <=> Loading)
    BY <1>0, <1>5, <1>t DEF AddShmem, DelShmem, CustomHidExit, CustomHidExitAbort, At, Loading
  <2> QED BY <2>1, KeepConfig DEF configVars
<1>6. CASE Clear
  <2>1. mutex["configMutex"] = "main"
    BY <1>6 DEF Clear, At, LockInv, MutexDiscipline, Holds, Threads, Mutexes
  <2>2. ~Loading
    BY <1>6, <2>1, OneReader DEF Clear, At, Loading
  <2>3. ~Loading' BY <1>0, <1>6, <1>t, <2>2 DEF Clear, At
  <2> QED BY <1>6, <2>3 DEF Clear, ConfigInv, CompleteConfigs
<1>7. CASE \/ Acquire("copy", "shmem_mutex", "lock_shmem", "lock_pkg")
           \/ CopyLockPkg \/ RebindLock
           \/ (\E p \in Pids : CopyIn(p)) \/ CopyApply \/ RebindSkip \/ Rebind \/ RebindEnd
           \/ CopyOut \/ CopyOutAbort \/ CopyUnlockPkg \/ CopyUnlockShmem
  <2>1. UNCHANGED configVars
    BY <1>7 DEF Acquire, CopyLockPkg, RebindLock, CopyIn, CopyApply, RebindSkip, Rebind,
                RebindEnd, CopyOut, CopyOutAbort, CopyUnlockPkg, CopyUnlockShmem
  <2>2. Loading' <=> Loading
    BY <1>0, <1>7, <1>t DEF Acquire, CopyLockPkg, RebindLock, CopyIn, CopyApply, RebindSkip, Rebind,
                RebindEnd, CopyOut, CopyOutAbort, CopyUnlockPkg, CopyUnlockShmem, At, Loading
  <2> QED BY <2>1, <2>2, KeepConfig DEF configVars
<1>8. CASE NetAcquire \/ NetPoll \/ NetStore \/ NetVoid \/ NetWake \/ NetExit
  <2>1. UNCHANGED configVars /\ (Loading' <=> Loading)
    BY <1>8 DEF NetAcquire, Acquire, NetPoll, NetStore, NetVoid, NetWake, NetExit, Goto,
                Loading, TypeInv, TypeOK, Threads
  <2> QED BY <2>1, KeepConfig DEF configVars
<1>9. CASE UNCHANGED vars BY <1>9, KeepConfig DEF vars, configVars, Loading
<1> QED BY <1>1, <1>2, <1>3, <1>4, <1>5, <1>6, <1>7, <1>8, <1>9, StepCases, Zenon

-----------------------------------------------------------------------------
(* What a game sees of a page, as PadRenderings says it.                   *)

\* Presents, with PadRenderings in the place of its two alternatives.
LEMMA PresentsBy ==
    ASSUME NEW page, NEW msg
    PROVE  Presents(page, msg) <=>
             \E img \in RealImages :
                /\ page.other = img.other
                /\ \A i \in Slots : Seen(page, i) \in PadRenderings(img, msg, i)
<1>1. ASSUME NEW img \in RealImages, NEW i \in Slots
      PROVE  Seen(page, i) \in PadRenderings(img, msg, i) <=>
               \/ i > Handheld /\ Seen(page, i) = Raw(img, msg, i)
               \/ i <= Handheld /\ \E cfg \in CompleteConfigs, dz \in CompleteDeadzones :
                                    Seen(page, i) = Rebound(Raw(img, msg, i), cfg, dz)
  <2>1. i \in Int /\ Handheld \in Int BY PadAssumption DEF Slots, Handheld
  <2>2. CASE i > Handheld BY <2>1, <2>2 DEF PadRenderings
  <2>3. CASE i <= Handheld BY <2>1, <2>3 DEF PadRenderings
  <2> QED BY <2>1, <2>2, <2>3
<1> QED BY <1>1 DEF Presents

\* A packet without the magic number presents what no packet does.
LEMMA VoidIsNone ==
    ASSUME NEW msg, ~msg.magic
    PROVE  /\ \A img, i : Raw(img, msg, i) = Raw(img, NoMessage, i)
           /\ \A img, i : Raw(img, msg, i) = Seen(img, i)
           /\ \A page : Presents(page, msg) <=> Presents(page, NoMessage)
<1>1. \A img, i : /\ Raw(img, msg, i) = Seen(img, i)
                  /\ Raw(img, NoMessage, i) = Seen(img, i)
  BY DEF Raw, NoMessage
<1>2. \A img, i : Raw(img, msg, i) = Raw(img, NoMessage, i) BY <1>1
<1>3. ASSUME NEW img, NEW i
      PROVE  PadRenderings(img, msg, i) = PadRenderings(img, NoMessage, i)
  <2>1. Raw(img, msg, i) = Raw(img, NoMessage, i) BY <1>2
  <2> QED BY <2>1 DEF PadRenderings
<1>4. ASSUME NEW page PROVE Presents(page, msg) <=> Presents(page, NoMessage)
  BY <1>3, PresentsBy
<1> QED BY <1>1, <1>2, <1>4

\* shmem_copy presents what its source presents.
LEMMA CopyPresents ==
    ASSUME NEW source \in Image, NEW dest \in Image, NEW msg
    PROVE  /\ Presents(source, msg) => Presents(ShmemCopy(source, dest), msg)
           /\ ViewOf(ShmemCopy(source, dest)) = ViewOf(source)
<1>1. /\ ShmemCopy(source, dest).other = source.other
      /\ \A i \in Slots : Seen(ShmemCopy(source, dest), i) = Seen(source, i)
  BY CopyHidesDest
<1>2. ViewOf(ShmemCopy(source, dest)) = ViewOf(source) BY <1>1 DEF ViewOf
<1>3. Presents(source, msg) => Presents(ShmemCopy(source, dest), msg)
  BY <1>1, PresentsBy
<1> QED BY <1>2, <1>3

\* Pages with the same pads in use that look alike give the network pad the same place.
LEMMA RawByView ==
    ASSUME NEW a \in Image, NEW b \in Image, NEW msg, NEW i \in Slots,
           \A j \in Slots : a.pads[j].used = b.pads[j].used /\ Seen(a, j) = Seen(b, j)
    PROVE  Raw(a, msg, i) = Raw(b, msg, i)
BY FakeSlotByUse DEF Raw

\* Adding a pad and rebinding leave touch screen, mouse and keyboard alone.
LEMMA OtherStays ==
    ASSUME NEW img \in Image, NEW msg, NEW i, NEW cfg, NEW dz
    PROVE  /\ ApplyFakeGamepad(img, msg).other = img.other
           /\ RebindKeys(img, i, cfg, dz).other = img.other
BY DEF ApplyFakeGamepad, RebindKeys, Image

-----------------------------------------------------------------------------
(* The scratch image.                                                      *)

\* The gamepads that rebind_keys has visited in the scratch image.
Visited(i) == i <= Handheld /\ (pc["copy"] = "out" \/ i < slot)

InScratch(img, msg) ==
    /\ tmp_shmem_mem.other = img.other
    /\ \A i \in Slots :
          /\ Visited(i)  => Seen(tmp_shmem_mem, i) \in PadRenderings(img, msg, i)
          /\ ~Visited(i) => Seen(tmp_shmem_mem, i) = Raw(img, msg, i)

(***************************************************************************)
(* Between two games of a pass nothing is said of the scratch image: the   *)
(* first copy hides what it held.                                          *)
(***************************************************************************)
ScratchInv ==
    /\ pc["copy"] \notin {"rebind", "rebind_held"} => slot = 0
    /\ pc["copy"] = "apply" => \E img \in RealImages :
          /\ tmp_shmem_mem.other = img.other
          /\ \A i \in Slots : /\ tmp_shmem_mem.pads[i].used = img.pads[i].used
                              /\ Seen(tmp_shmem_mem, i) = Seen(img, i)
    /\ pc["copy"] \in {"rebind", "rebind_held", "out"} =>
          \E img \in RealImages, msg \in {cur_fakegamepad_state, NoMessage} : InScratch(img, msg)

\* The copy thread is not in a pass at boot.
LEMMA InitScratchInv == Init => ScratchInv
BY DEF Init, ScratchInv, Threads

\* A step that leaves the pass where it is, with its packet.
LEMMA KeepScratch ==
    ASSUME ScratchInv, UNCHANGED <<tmp_shmem_mem, slot>>,
           \/ pc'["copy"] = pc["copy"] /\ (InPass => cur_fakegamepad_state' = cur_fakegamepad_state)
           \/ ~InPass /\ ~InPass'
           \/ ~InPass /\ pc'["copy"] = "pick"
           \/ pc["copy"] = "pick" /\ ~InPass'
           \/ pc["copy"] = "out" /\ pc'["copy"] = "pick"
           \/ /\ pc["copy"] = "rebind" /\ pc'["copy"] = "rebind_held"
              /\ cur_fakegamepad_state' = cur_fakegamepad_state
    PROVE  ScratchInv'
BY DEF ScratchInv, InPass, InScratch, Visited

\* A pad that is not in use needs no rebinding.
LEMMA NothingToRebind ==
    ASSUME NEW img, NEW msg, NEW i \in Slots, i <= Handheld, Raw(img, msg, i) = NoPad
    PROVE  NoPad \in PadRenderings(img, msg, i)
<1>1. Rebound(NoPad, <<>>, 0) = NoPad BY DEF Rebound, NoPad
<1>2. <<>> \in CompleteConfigs /\ 0 \in CompleteDeadzones
  BY DEF CompleteConfigs, CompleteDeadzones
<1>3. i \in Int /\ Handheld \in Int BY PadAssumption DEF Slots, Handheld
<1> QED BY <1>1, <1>2, <1>3 DEF PadRenderings

\* The first copy of a game puts one real page into the scratch image.
LEMMA ScratchIn ==
    ASSUME TypeInv, ScratchInv, NEW p \in Pids, CopyIn(p)
    PROVE  ScratchInv'
<1>1. pc'["copy"] = "apply" /\ slot = 0 /\ slot' = 0
  BY DEF CopyIn, At, Goto, ScratchInv, TypeInv, TypeOK, Threads
<1>2. PICK img \in RealImages : tmp_shmem_mem' = ShmemCopy(img, tmp_shmem_mem)
  BY DEF CopyIn
<1>3. img \in Image /\ tmp_shmem_mem \in Image BY HidMitmAssumption DEF TypeInv, TypeOK
<1>4. /\ tmp_shmem_mem'.other = img.other
      /\ \A i \in Slots : /\ tmp_shmem_mem'.pads[i].used = img.pads[i].used
                          /\ Seen(tmp_shmem_mem', i) = Seen(img, i)
  BY <1>2, <1>3, CopyHidesDest
<1> QED BY <1>1, <1>4 DEF ScratchInv

\* Then the pad of the packet is added, or none.
LEMMA ScratchApply ==
    ASSUME TypeInv, ScratchInv, CopyApply
    PROVE  ScratchInv'
<1>1. /\ pc["copy"] = "apply" /\ pc'["copy"] = "rebind" /\ slot = 0 /\ slot' = 0
      /\ cur_fakegamepad_state' = cur_fakegamepad_state
  BY DEF CopyApply, At, Goto, ScratchInv, TypeInv, TypeOK, Threads, passVars, netVars
<1>2. PICK img \in RealImages :
        /\ tmp_shmem_mem.other = img.other
        /\ \A i \in Slots : /\ tmp_shmem_mem.pads[i].used = img.pads[i].used
                            /\ Seen(tmp_shmem_mem, i) = Seen(img, i)
  BY <1>1 DEF ScratchInv
<1>3. img \in Image /\ tmp_shmem_mem \in Image /\ cur_fakegamepad_state \in Message
  BY HidMitmAssumption DEF TypeInv, TypeOK
<1>4. \A msg, i : i \in Slots => Raw(tmp_shmem_mem, msg, i) = Raw(img, msg, i)
  BY <1>2, <1>3, RawByView
<1>5. PICK msg \in {cur_fakegamepad_state, NoMessage} :
        /\ tmp_shmem_mem'.other = img.other
        /\ \A i \in Slots : Seen(tmp_shmem_mem', i) = Raw(img, msg, i)
  <2>1. CASE networking_enabled
    <3>1. tmp_shmem_mem' = ApplyFakeGamepad(tmp_shmem_mem, cur_fakegamepad_state)
      BY <2>1 DEF CopyApply
    <3>2. tmp_shmem_mem'.other = img.other BY <1>2, <1>3, <3>1, OtherStays
    <3>3. \A i \in Slots : Seen(tmp_shmem_mem', i) = Raw(img, cur_fakegamepad_state, i)
      BY <1>3, <1>4, <3>1, ApplyShowsPacket
    <3> QED BY <3>2, <3>3
  <2>2. CASE ~networking_enabled
    <3>1. tmp_shmem_mem' = tmp_shmem_mem BY <2>2 DEF CopyApply
    <3>2. ~NoMessage.magic BY DEF NoMessage
    <3>3. \A i \in Slots : Raw(img, NoMessage, i) = Seen(img, i) BY <3>2, VoidIsNone
    <3> QED BY <1>2, <3>1, <3>3
  <2> QED BY <2>1, <2>2
<1>6. \A i \in Slots : ~Visited(i)'
  BY <1>1, PadAssumption DEF Visited, Slots
<1>7. InScratch(img, msg)' BY <1>5, <1>6 DEF InScratch
<1> QED BY <1>1, <1>7 DEF ScratchInv

\* A gamepad that is not in use is passed over.
LEMMA ScratchSkip ==
    ASSUME TypeInv, ScratchInv, RebindSkip
    PROVE  ScratchInv'
<1>1. /\ pc["copy"] = "rebind" /\ pc' = pc /\ tmp_shmem_mem' = tmp_shmem_mem
      /\ slot <= Handheld /\ slot' = slot + 1 /\ ~tmp_shmem_mem.pads[slot].used
      /\ cur_fakegamepad_state' = cur_fakegamepad_state
  BY DEF RebindSkip, At, pageVars, netVars
<1>2. PICK img \in RealImages, msg \in {cur_fakegamepad_state, NoMessage} : InScratch(img, msg)
  BY <1>1 DEF ScratchInv
<1>3. slot \in Slots /\ slot \in Int /\ Handheld \in Int
  BY <1>1, PadAssumption DEF TypeInv, TypeOK, Slots, Handheld
<1>4. ~Visited(slot) BY <1>1, <1>3 DEF Visited
<1>5. Seen(tmp_shmem_mem, slot) = NoPad BY <1>1 DEF Seen
<1>6. Seen(tmp_shmem_mem, slot) \in PadRenderings(img, msg, slot)
  BY <1>1, <1>2, <1>3, <1>4, <1>5, NothingToRebind DEF InScratch
<1>7. \A i \in Slots : Visited(i)' <=> Visited(i) \/ i = slot
  BY <1>1, <1>3, PadAssumption DEF Visited, Slots
<1>8. InScratch(img, msg)' BY <1>1, <1>2, <1>6, <1>7 DEF InScratch
<1> QED BY <1>1, <1>8 DEF ScratchInv

\* RebindShowsRebound, for all gamepads at once.
LEMMA RebindShowsAll ==
    ASSUME NEW img \in Image, NEW i \in Slots,
           NEW cfg \in Seq(Buttons \X Buttons), NEW dz \in Int
    PROVE  \A j \in Slots : Seen(RebindKeys(img, i, cfg, dz), j) =
                             IF j = i THEN Rebound(Seen(img, i), cfg, dz) ELSE Seen(img, j)
BY RebindShowsRebound

\* A gamepad in use is rebound, under a configuration that was read to its end.
LEMMA ScratchRebind ==
    ASSUME TypeInv, LockInv, ConfigInv, ScratchInv, Rebind
    PROVE  ScratchInv'
<1>1. /\ pc["copy"] = "rebind_held" /\ pc'["copy"] = "rebind" /\ slot' = slot + 1
      /\ tmp_shmem_mem' = RebindKeys(tmp_shmem_mem, slot, rebind_config, stick_deadzone)
      /\ cur_fakegamepad_state' = cur_fakegamepad_state
      /\ slot <= Handheld
  BY DEF Rebind, At, Goto, netVars, TypeInv, TypeOK, SlotInv, Threads
<1>2. PICK img \in RealImages, msg \in {cur_fakegamepad_state, NoMessage} : InScratch(img, msg)
  BY <1>1 DEF ScratchInv
<1>3. slot \in Slots /\ slot \in Int /\ Handheld \in Int
  BY <1>1, PadAssumption DEF TypeInv, TypeOK, Slots, Handheld
<1>4. mutex["configMutex"] = "copy"
  BY <1>1 DEF LockInv, MutexDiscipline, Holds, Threads, Mutexes
<1>5. ~Loading BY <1>1, <1>4, OneReader DEF Loading
<1>6. rebind_config \in CompleteConfigs /\ stick_deadzone \in CompleteDeadzones
  BY <1>5 DEF ConfigInv
<1>7. /\ tmp_shmem_mem \in Image /\ rebind_config \in Seq(Buttons \X Buttons)
      /\ stick_deadzone \in Int
  BY HalfS16Type DEF TypeInv, TypeOK, S16
<1>8. tmp_shmem_mem'.other = img.other
  BY <1>1, <1>2, <1>7, OtherStays DEF InScratch
<1>a. \A i \in Slots : Seen(RebindKeys(tmp_shmem_mem, slot, rebind_config, stick_deadzone), i) =
         IF i = slot THEN Rebound(Seen(tmp_shmem_mem, slot), rebind_config, stick_deadzone)
         ELSE Seen(tmp_shmem_mem, i)
  <2>1. \A image \in Image, s \in Slots, cfg \in Seq(Buttons \X Buttons), dz \in Int :
           \A i \in Slots : Seen(RebindKeys(image, s, cfg, dz), i) =
              IF i = s THEN Rebound(Seen(image, s), cfg, dz) ELSE Seen(image, i)
    BY RebindShowsAll, Zenon
  <2>2. \A cfg \in Seq(Buttons \X Buttons), dz \in Int :
           \A i \in Slots : Seen(RebindKeys(tmp_shmem_mem, slot, cfg, dz), i) =
              IF i = slot THEN Rebound(Seen(tmp_shmem_mem, slot), cfg, dz)
              ELSE Seen(tmp_shmem_mem, i)
    BY <1>3, <1>7, <2>1
  <2> QED BY <1>7, <2>2
<1>b. tmp_shmem_mem' = RebindKeys(tmp_shmem_mem, slot, rebind_config, stick_deadzone)
  BY <1>1
<1>9. \A i \in Slots : i # slot => Seen(tmp_shmem_mem', i) = Seen(tmp_shmem_mem, i)
  BY <1>a, <1>b
<1>10. Seen(tmp_shmem_mem', slot)
         = Rebound(Seen(tmp_shmem_mem, slot), rebind_config, stick_deadzone)
  BY <1>3, <1>a, <1>b
<1>11. ~Visited(slot) BY <1>1, <1>3 DEF Visited
<1>12. Seen(tmp_shmem_mem, slot) = Raw(img, msg, slot)
  BY <1>2, <1>3, <1>11 DEF InScratch
<1>13. ~(slot > Handheld) BY <1>1, <1>3
<1>14. Seen(tmp_shmem_mem', slot) \in PadRenderings(img, msg, slot)
  BY <1>6, <1>10, <1>12, <1>13 DEF PadRenderings
<1>15. \A i \in Slots : Visited(i)' <=> Visited(i) \/ i = slot
  BY <1>1, <1>3, PadAssumption DEF Visited, Slots
<1>16. InScratch(img, msg)' BY <1>2, <1>8, <1>9, <1>14, <1>15 DEF InScratch
<1> QED BY <1>1, <1>16 DEF ScratchInv

\* After the handheld all gamepads have been visited.
LEMMA ScratchEnd ==
    ASSUME TypeInv, ScratchInv, RebindEnd
    PROVE  ScratchInv'
<1>1. /\ pc["copy"] = "rebind" /\ pc'["copy"] = "out" /\ slot = Handheld + 1 /\ slot' = 0
      /\ tmp_shmem_mem' = tmp_shmem_mem /\ cur_fakegamepad_state' = cur_fakegamepad_state
  BY DEF RebindEnd, At, Goto, pageVars, netVars, TypeInv, TypeOK, Threads
<1>2. PICK img \in RealImages, msg \in {cur_fakegamepad_state, NoMessage} : InScratch(img, msg)
  BY <1>1 DEF ScratchInv
<1>3. \A i \in Slots : Visited(i)' <=> Visited(i)
  BY <1>1, PadAssumption DEF Visited, Slots, Handheld
<1>4. InScratch(img, msg)' BY <1>1, <1>2, <1>3 DEF InScratch
<1> QED BY <1>1, <1>4 DEF ScratchInv

\* The packet is replaced under pkgMutex, which the copy thread holds in a pass.
LEMMA NetOutsidePass ==
    ASSUME LockInv, pc["net"] = "store"
    PROVE  ~InPass
BY DEF LockInv, MutexDiscipline, Holds, Threads, Mutexes

\* The copy of the scratch image into a shadow page ends a game's turn.
LEMMA CopyOutLabels ==
    ASSUME TypeInv, CopyOut
    PROVE  pc["copy"] = "out" /\ pc'["copy"] = "pick" /\ UNCHANGED <<tmp_shmem_mem, slot>>
BY DEF CopyOut, At, Goto, TypeInv, TypeOK, Threads

\* Every step keeps what is said of the scratch image.
LEMMA StepScratchInv ==
    TypeInv /\ LockInv /\ ConfigInv /\ ScratchInv /\ [Next]_vars => ScratchInv'
<1> SUFFICES ASSUME TypeInv, LockInv, ConfigInv, ScratchInv, [Next]_vars PROVE ScratchInv'
  OBVIOUS
<1>0. "main" \in Threads /\ "copy" \in Threads /\ "net" \in Threads BY DEF Threads
<1>t. ASSUME NEW t \in Threads, NEW label, Goto(t, label)
      PROVE  /\ t # "copy" => pc'["copy"] = pc["copy"]
             /\ t = "copy" => pc'["copy"] = label
  BY <1>t DEF Goto, TypeInv, TypeOK, Threads
<1>k. ASSUME UNCHANGED <<tmp_shmem_mem, slot, cur_fakegamepad_state>>, pc'["copy"] = pc["copy"]
      PROVE  ScratchInv'
  BY <1>k, KeepScratch
<1>o. ASSUME UNCHANGED <<tmp_shmem_mem, slot>>, ~InPass, ~InPass' PROVE ScratchInv'
  BY <1>o, KeepScratch
<1>1. ASSUME NEW t \in {"main", "copy"},
             LoadOpen(t) \/ LoadLine(t) \/ LoadWild(t) \/ LoadDone(t)
      PROVE  ScratchInv'
  <2>1. UNCHANGED <<tmp_shmem_mem, slot, cur_fakegamepad_state>>
    BY <1>1 DEF LoadOpen, LoadLine, LoadWild, LoadDone, pageVars, netVars, passVars
  <2>2. CASE t = "main"
    <3>1. pc'["copy"] = pc["copy"]
      BY <1>0, <1>1, <1>t, <2>2 DEF LoadOpen, LoadLine, LoadWild, LoadDone
    <3> QED BY <1>k, <2>1, <3>1
  <2>3. CASE t = "copy"
    <3>1. pc["copy"] \in {"load_lock", "load"}
      BY <1>1, <2>3 DEF LoadOpen, LoadLine, LoadWild, LoadDone, At
    <3>2. pc'["copy"] \in {"load", "lock_shmem"}
          \/ pc'["copy"] = pc["copy"]
      BY <1>0, <1>1, <1>t, <2>3 DEF LoadOpen, LoadLine, LoadWild, LoadDone, AfterLoad
    <3> QED BY <1>o, <2>1, <3>1, <3>2 DEF InPass
  <2> QED BY <2>2, <2>3
<1>2. CASE \/ Acquire("main", "shmem_mutex", "add_lock", "add")
           \/ Acquire("main", "shmem_mutex", "del_lock", "del")
           \/ Acquire("main", "shmem_mutex", "exit_lock", "exit")
           \/ Acquire("main", "configMutex", "clear_lock", "clear")
  BY <1>0, <1>2, <1>t, <1>k DEF Acquire, pageVars, netVars, passVars
<1>3. CASE Request
  BY <1>0, <1>3, <1>t, <1>k DEF Request, Create, CreateFatal, Close, ReloadConfig, ClearConfig,
                                pageVars, netVars, passVars
<1>4. CASE StartCopy \/ StartNet
  <2>1. UNCHANGED <<tmp_shmem_mem, slot, cur_fakegamepad_state>>
    BY <1>4 DEF StartCopy, StartNet, pageVars, netVars, passVars
  <2>2. CASE StartCopy
    <3>1. pc["copy"] = "off" /\ pc'["copy"] = "load_lock"
      BY <2>2 DEF StartCopy, At, LockInv, BootInv, TypeInv, TypeOK, Threads
    <3> QED BY <1>o, <2>1, <3>1 DEF InPass
  <2>3. CASE StartNet
    <3>1. pc'["copy"] = pc["copy"] BY <2>3 DEF StartNet, TypeInv, TypeOK, Threads
    <3> QED BY <1>k, <2>1, <3>1
  <2> QED BY <1>4, <2>2, <2>3
<1>5. CASE AddShmem \/ DelShmem \/ CustomHidExit \/ Clear
  BY <1>0, <1>5, <1>t, <1>k DEF AddShmem, DelShmem, CustomHidExit, Clear,
                                pageVars, netVars, passVars
<1>6. CASE Acquire("copy", "shmem_mutex", "lock_shmem", "lock_pkg")
  BY <1>0, <1>6, <1>t, <1>o DEF Acquire, At, InPass, pageVars, passVars
<1>7. CASE CopyLockPkg
  <2>1. ~InPass /\ pc'["copy"] = "pick" /\ UNCHANGED <<tmp_shmem_mem, slot>>
    BY <1>0, <1>7, <1>t DEF CopyLockPkg, At, InPass, pageVars
  <2> QED BY <2>1, KeepScratch
<1>8. CASE RebindLock
  <2>1. /\ pc["copy"] = "rebind" /\ pc'["copy"] = "rebind_held"
        /\ UNCHANGED <<tmp_shmem_mem, slot, cur_fakegamepad_state>>
    BY <1>0, <1>8, <1>t DEF RebindLock, Acquire, At, pageVars, netVars, passVars
  <2> QED BY <2>1, KeepScratch
<1>9. CASE CopyOut
  <2>1. pc["copy"] = "out" /\ pc'["copy"] = "pick" /\ UNCHANGED <<tmp_shmem_mem, slot>>
    BY <1>9, CopyOutLabels
  <2> QED BY <2>1, KeepScratch
<1>10. CASE CopyOutAbort \/ CustomHidExitAbort
  BY <1>10, <1>k DEF CopyOutAbort, CustomHidExitAbort, pageVars, netVars, passVars
<1>11. CASE CopyUnlockPkg
  <2>1. pc["copy"] = "pick" /\ ~InPass' /\ UNCHANGED <<tmp_shmem_mem, slot>>
    BY <1>0, <1>11, <1>t DEF CopyUnlockPkg, At, InPass, pageVars
  <2> QED BY <2>1, KeepScratch
<1>12. CASE CopyUnlockShmem
  BY <1>0, <1>12, <1>t, <1>o DEF CopyUnlockShmem, At, InPass, pageVars, passVars
<1>13. CASE NetAcquire \/ NetPoll \/ NetWake \/ NetExit
  BY <1>0, <1>13, <1>t, <1>k DEF NetAcquire, Acquire, NetPoll, NetWake, NetExit,
                                 pageVars, netVars, passVars
<1>14. CASE NetStore \/ NetVoid
  <2>1. pc["net"] = "store" /\ pc'["copy"] = pc["copy"] /\ UNCHANGED <<tmp_shmem_mem, slot>>
    BY <1>0, <1>14, <1>t DEF NetStore, NetVoid, At, pageVars, passVars
  <2>2. ~InPass BY <2>1, NetOutsidePass
  <2> QED BY <2>1, <2>2, KeepScratch
<1>15. CASE UNCHANGED vars BY <1>15, <1>k DEF vars, pageVars, netVars, passVars
<1> QED BY <1>1, <1>2, <1>3, <1>4, <1>5, <1>6, <1>7, <1>8, <1>9, <1>10, <1>11, <1>12, <1>13,
           <1>14, <1>15, ScratchIn, ScratchApply, ScratchSkip, ScratchRebind, ScratchEnd,
           StepCases, Zenon

-----------------------------------------------------------------------------
(* The shadow pages.                                                       *)

\* The steps that change what the games or HidFeed can notice, and the rest.
Quiet == UNCHANGED <<sharedmems, fake, todo, cur_fakegamepad_state>> /\ (InPass' <=> InPass)

\* Eight kinds of steps are not quiet.
LEMMA StepKinds ==
    ASSUME TypeInv, LockInv, [Next]_vars
    PROVE  \/ Quiet
           \/ \E p \in Pids, r \in Res : Create(p, r)
           \/ AddShmem \/ DelShmem \/ CustomHidExit
           \/ CopyLockPkg \/ CopyOut \/ CopyUnlockPkg
           \/ NetStore \/ NetVoid
<1>0. "main" \in Threads /\ "copy" \in Threads /\ "net" \in Threads BY DEF Threads
<1>t. ASSUME NEW t \in Threads, NEW label, Goto(t, label)
      PROVE  /\ t # "copy" => pc'["copy"] = pc["copy"]
             /\ t = "copy" => pc'["copy"] = label
  BY <1>t DEF Goto, TypeInv, TypeOK, Threads
<1>1. ASSUME NEW t \in {"main", "copy"},
             LoadOpen(t) \/ LoadLine(t) \/ LoadWild(t) \/ LoadDone(t)
      PROVE  Quiet
  <2>1. UNCHANGED <<sharedmems, fake, todo, cur_fakegamepad_state>>
    BY <1>1 DEF LoadOpen, LoadLine, LoadWild, LoadDone, ipcVars, pageVars, netVars, passVars
  <2>2. InPass' <=> InPass
    BY <1>0, <1>1, <1>t DEF LoadOpen, LoadLine, LoadWild, LoadDone, AfterLoad, At, InPass
  <2> QED BY <2>1, <2>2 DEF Quiet
<1>2. CASE \/ Acquire("main", "shmem_mutex", "add_lock", "add")
           \/ Acquire("main", "shmem_mutex", "del_lock", "del")
           \/ Acquire("main", "shmem_mutex", "exit_lock", "exit")
           \/ Acquire("main", "configMutex", "clear_lock", "clear")
           \/ Acquire("copy", "shmem_mutex", "lock_shmem", "lock_pkg")
           \/ RebindLock \/ NetAcquire
  BY <1>0, <1>2, <1>t
     DEF RebindLock, NetAcquire, Acquire, At, Quiet, InPass, ipcVars, pageVars, netVars, passVars
<1>3. CASE \/ CreateFatal \/ (\E r \in Res : Close(r)) \/ ReloadConfig \/ ClearConfig
           \/ CustomHidExitAbort \/ Clear
  BY <1>0, <1>3, <1>t
     DEF CreateFatal, Close, ReloadConfig, ClearConfig, CustomHidExitAbort, Clear, Quiet, InPass,
         ipcVars, pageVars, netVars, passVars
<1>4. CASE StartCopy \/ StartNet
  <2>1. pc'["copy"] = pc["copy"] \/ (pc["copy"] = "off" /\ pc'["copy"] = "load_lock")
    BY <1>4 DEF StartCopy, StartNet, At, LockInv, BootInv, TypeInv, TypeOK, Threads
  <2> QED BY <1>4, <2>1 DEF StartCopy, StartNet, Quiet, InPass, ipcVars, pageVars, netVars,
                            passVars
<1>5. CASE \/ (\E p \in Pids : CopyIn(p)) \/ CopyApply \/ RebindSkip \/ Rebind \/ RebindEnd
           \/ CopyOutAbort \/ CopyUnlockShmem
  <2>1. UNCHANGED <<sharedmems, fake, todo, cur_fakegamepad_state>>
    BY <1>5 DEF CopyIn, CopyApply, RebindSkip, Rebind, RebindEnd, CopyOutAbort, CopyUnlockShmem,
                ipcVars, pageVars, netVars, passVars
  <2>2. InPass' <=> InPass
    BY <1>0, <1>5, <1>t DEF CopyIn, CopyApply, RebindSkip, Rebind, RebindEnd, CopyOutAbort,
                            CopyUnlockShmem, At, InPass
  <2> QED BY <2>1, <2>2 DEF Quiet
<1>6. CASE NetPoll \/ NetWake \/ NetExit
  BY <1>0, <1>6, <1>t DEF NetPoll, NetWake, NetExit, Quiet, InPass, ipcVars, pageVars, netVars,
                          passVars
<1>7. CASE UNCHANGED vars
  BY <1>7 DEF vars, Quiet, InPass, ipcVars, pageVars, netVars, passVars
<1>8. Request => \/ \E p \in Pids, r \in Res : Create(p, r)
                 \/ CreateFatal \/ (\E r \in Res : Close(r)) \/ ReloadConfig \/ ClearConfig
  BY Zenon DEF Request
<1> QED BY <1>1, <1>2, <1>3, <1>4, <1>5, <1>6, <1>7, <1>8, StepCases, Zenon

\* A packet is what poll_udp_input returned with 0, or has lost its magic number.
PacketInv ==
    /\ polled \in Messages \cup {NoMessage}
    /\ cur_fakegamepad_state.magic => cur_fakegamepad_state \in Messages

\* Only the network thread writes packets.
LEMMA StepPacketInv == TypeInv /\ PacketInv /\ [Next]_vars => PacketInv'
<1> SUFFICES ASSUME TypeInv, PacketInv, [Next]_vars PROVE PacketInv'
  OBVIOUS
<1>1. CASE NetPoll BY <1>1 DEF NetPoll, PacketInv
<1>2. CASE NetStore BY <1>2 DEF NetStore, PacketInv
<1>3. CASE NetVoid
  BY <1>3 DEF NetVoid, PacketInv, TypeInv, TypeOK, Message
<1>4. ASSUME UNCHANGED netVars PROVE PacketInv' BY <1>4 DEF PacketInv, netVars
<1>5. \/ NetPoll \/ NetStore \/ NetVoid \/ UNCHANGED netVars
  BY StepCases
     DEF LoadOpen, LoadLine, LoadWild, LoadDone, Request, Create, CreateFatal, Close,
         ReloadConfig, ClearConfig, Acquire, StartCopy, StartNet, AddShmem, DelShmem,
         CustomHidExit, CustomHidExitAbort, Clear, CopyLockPkg, RebindLock, CopyIn, CopyApply,
         RebindSkip, Rebind,
         RebindEnd, CopyOut, CopyOutAbort, CopyUnlockPkg, CopyUnlockShmem, NetAcquire, NetWake,
         NetExit, vars
<1> QED BY <1>1, <1>2, <1>3, <1>4, <1>5

(***************************************************************************)
(* What is in the shadow pages, and that a page about to be registered is  *)
(* still as shmemCreate left it.                                           *)
(***************************************************************************)
GameInv ==
    /\ PacketInv /\ ShadowIsRendering /\ OnePacketPerPass
    /\ pc["main"] \in {"add_lock", "add"} => fake[arg] = ZeroImage

\* At boot no page has been written and no packet has come.
LEMMA InitGameInv == Init => GameInv
BY DEF Init, GameInv, PacketInv, ShadowIsRendering, OnePacketPerPass, InPass, NoMessage, Threads

\* When the last gamepad has been visited the scratch image is a rendering.
LEMMA OutPresents ==
    ASSUME TypeInv, ScratchInv, pc["copy"] = "out"
    PROVE  \E msg \in {cur_fakegamepad_state, NoMessage} : Presents(tmp_shmem_mem, msg)
<1>1. PICK img \in RealImages, msg \in {cur_fakegamepad_state, NoMessage} : InScratch(img, msg)
  BY DEF ScratchInv
<1>2. ASSUME NEW i \in Slots PROVE Seen(tmp_shmem_mem, i) \in PadRenderings(img, msg, i)
  <2>1. i \in Int /\ Handheld \in Int BY PadAssumption DEF Slots, Handheld
  <2>2. CASE i <= Handheld BY <1>1, <2>2 DEF InScratch, Visited
  <2>3. CASE i > Handheld
    BY <1>1, <2>1, <2>3 DEF InScratch, Visited, PadRenderings
  <2> QED BY <2>1, <2>2, <2>3
<1>3. Presents(tmp_shmem_mem, msg) BY <1>1, <1>2, PresentsBy DEF InScratch
<1> QED BY <1>3

\* Presenting the current packet is presenting CurrentPacket.
LEMMA CurrentPresented ==
    ASSUME PacketInv, NEW page, NEW msg \in {cur_fakegamepad_state, NoMessage},
           Presents(page, msg)
    PROVE  /\ CurrentPacket \in Messages \cup {NoMessage}
           /\ \E m \in {CurrentPacket, NoMessage} : Presents(page, m)
BY VoidIsNone DEF PacketInv, CurrentPacket

\* A page that is registered is neither created nor unmapped nor another game's.
LEMMA OwnPage ==
    ASSUME TypeInv, PageInv, NEW p \in Pids, Registered(p)
    PROVE  /\ sharedmems[p] \in Res /\ memory[sharedmems[p]] # "unmapped"
           /\ Detached => sharedmems[p] # arg
           /\ \A q \in Pids : Registered(q) /\ q # p => sharedmems[q] # sharedmems[p]
BY DEF TypeInv, TypeOK, PageInv, NoUseAfterUnmap, ObjInv, Registered

\* The game a pass is at.
LEMMA GameAtHand ==
    ASSUME TypeInv, PageInv, pc["copy"] = "out"
    PROVE  it \in Pids /\ it \in todo /\ Registered(it) /\ sharedmems[it] \in Res
BY DEF TypeInv, TypeOK, PageInv, NoUseAfterUnmap, InPass, Registered

\* What the three steps that write shadow pages do to them.
LEMMA PageWrites ==
    ASSUME TypeInv, PageInv
    PROVE  /\ \A p \in Pids, r \in Res : Create(p, r) =>
                 /\ memory[r] = "unmapped" /\ fake'[r] = ZeroImage
                 /\ \A q \in Res : q # r => fake'[q] = fake[q]
                 /\ arg' = r /\ pc'["main"] = "add_lock" /\ pc["main"] = "idle"
                 /\ pc'["copy"] = pc["copy"]
                 /\ UNCHANGED <<sharedmems, todo, cur_fakegamepad_state>>
           /\ CustomHidExit =>
                 /\ arg \in Res /\ fake'[arg] = ZeroImage
                 /\ \A q \in Res : q # arg => fake'[q] = fake[q]
                 /\ pc["main"] = "exit" /\ pc'["main"] = "idle" /\ pc'["copy"] = pc["copy"]
                 /\ UNCHANGED <<sharedmems, todo, cur_fakegamepad_state>>
           /\ CopyOut =>
                 /\ fake'[sharedmems[it]] = ShmemCopy(tmp_shmem_mem, fake[sharedmems[it]])
                 /\ \A q \in Res : q # sharedmems[it] => fake'[q] = fake[q]
                 /\ todo' = todo \ {it} /\ pc["copy"] = "out" /\ pc'["copy"] = "pick"
                 /\ pc'["main"] = pc["main"]
                 /\ UNCHANGED <<sharedmems, cur_fakegamepad_state, arg>>
<1>1. ASSUME NEW p \in Pids, NEW r \in Res, Create(p, r)
      PROVE  /\ memory[r] = "unmapped" /\ fake'[r] = ZeroImage
             /\ \A q \in Res : q # r => fake'[q] = fake[q]
             /\ arg' = r /\ pc'["main"] = "add_lock" /\ pc["main"] = "idle"
             /\ pc'["copy"] = pc["copy"]
             /\ UNCHANGED <<sharedmems, todo, cur_fakegamepad_state>>
  BY <1>1 DEF Create, At, Goto, TypeInv, TypeOK, Threads, passVars, netVars
<1>2. ASSUME CustomHidExit
      PROVE  /\ arg \in Res /\ fake'[arg] = ZeroImage
             /\ \A q \in Res : q # arg => fake'[q] = fake[q]
             /\ pc["main"] = "exit" /\ pc'["main"] = "idle" /\ pc'["copy"] = pc["copy"]
             /\ UNCHANGED <<sharedmems, todo, cur_fakegamepad_state>>
  BY <1>2 DEF CustomHidExit, At, Goto, TypeInv, TypeOK, Threads, passVars, netVars, PageInv,
              ObjInv, Handling
<1>3. ASSUME CopyOut
      PROVE  /\ fake'[sharedmems[it]] = ShmemCopy(tmp_shmem_mem, fake[sharedmems[it]])
             /\ \A q \in Res : q # sharedmems[it] => fake'[q] = fake[q]
             /\ todo' = todo \ {it} /\ pc["copy"] = "out" /\ pc'["copy"] = "pick"
             /\ pc'["main"] = pc["main"]
             /\ UNCHANGED <<sharedmems, cur_fakegamepad_state, arg>>
  <2>1. pc["copy"] = "out" BY <1>3 DEF CopyOut, At
  <2>2. sharedmems[it] \in Res BY <2>1, GameAtHand
  <2> QED BY <1>3, <2>1, <2>2 DEF CopyOut, Goto, TypeInv, TypeOK, Threads, ipcVars, netVars
<1> QED BY <1>1, <1>2, <1>3

\* A page is left alone, or it is blank, or it shows what the scratch image does.
LEMMA StepShadow ==
    ASSUME TypeInv, LockInv, PageInv, ScratchInv, PacketInv, ShadowIsRendering, [Next]_vars
    PROVE  ShadowIsRendering'
<1>0. ASSUME NEW r \in Res, fake'[r] = fake[r], fake[r] # ZeroImage
      PROVE  \E msg \in Messages \cup {NoMessage} : Presents(fake'[r], msg)
  BY <1>0 DEF ShadowIsRendering
<1>1. ASSUME fake' = fake PROVE ShadowIsRendering' BY <1>1 DEF ShadowIsRendering
<1>2. ASSUME NEW p \in Pids, NEW r \in Res, Create(p, r) PROVE ShadowIsRendering'
  BY <1>0, <1>2, PageWrites DEF ShadowIsRendering
<1>3. CASE CustomHidExit
  BY <1>0, <1>3, PageWrites DEF ShadowIsRendering
<1>4. CASE CopyOut
  <2>1. /\ fake'[sharedmems[it]] = ShmemCopy(tmp_shmem_mem, fake[sharedmems[it]])
        /\ \A q \in Res : q # sharedmems[it] => fake'[q] = fake[q]
        /\ pc["copy"] = "out" /\ sharedmems[it] \in Res
    BY <1>4, PageWrites, GameAtHand
  <2>2. PICK msg \in {cur_fakegamepad_state, NoMessage} : Presents(tmp_shmem_mem, msg)
    BY <2>1, OutPresents
  <2>3. PICK m \in Messages \cup {NoMessage} : Presents(tmp_shmem_mem, m)
    BY <2>2, CurrentPresented
  <2>4. tmp_shmem_mem \in Image /\ fake[sharedmems[it]] \in Image
    BY <2>1 DEF TypeInv, TypeOK
  <2>5. Presents(fake'[sharedmems[it]], m) BY <2>1, <2>3, <2>4, CopyPresents
  <2> QED BY <1>0, <2>1, <2>3, <2>5 DEF ShadowIsRendering
<1>5. AddShmem \/ DelShmem \/ CopyLockPkg \/ CopyUnlockPkg \/ NetStore \/ NetVoid \/ Quiet
        => fake' = fake
  BY DEF AddShmem, DelShmem, CopyLockPkg, CopyUnlockPkg, NetStore, NetVoid, Quiet, pageVars
<1> QED BY <1>1, <1>2, <1>3, <1>4, <1>5, StepKinds, Zenon

\* In a pass a game is served with the packet that the others were served with.
LEMMA StepOnePacket ==
    ASSUME TypeInv, LockInv, PageInv, ScratchInv, OnePacketPerPass, [Next]_vars
    PROVE  OnePacketPerPass'
<1> DEFINE Told(page) == \E msg \in {cur_fakegamepad_state, NoMessage} : Presents(page, msg)
<1> SUFFICES ASSUME InPass', NEW p \in Pids, Registered(p)', p \notin todo'
             PROVE  Told(fake[sharedmems[p]])'
  BY DEF OnePacketPerPass
<1>0. ASSUME InPass, Registered(p), p \notin todo, UNCHANGED <<sharedmems, cur_fakegamepad_state>>,
             fake'[sharedmems[p]] = fake[sharedmems[p]]
      PROVE  Told(fake[sharedmems[p]])'
  BY <1>0 DEF OnePacketPerPass
<1>1. CASE Quiet BY <1>0, <1>1 DEF Quiet, Registered
<1>2. ASSUME NEW q \in Pids, NEW r \in Res, Create(q, r) PROVE Told(fake[sharedmems[p]])'
  <2>1. /\ memory[r] = "unmapped" /\ UNCHANGED <<sharedmems, todo, cur_fakegamepad_state>>
        /\ \A x \in Res : x # r => fake'[x] = fake[x]
        /\ pc'["copy"] = pc["copy"]
    BY <1>2, PageWrites
  <2>2. InPass /\ Registered(p) BY <2>1 DEF InPass, Registered
  <2>3. sharedmems[p] \in Res /\ sharedmems[p] # r BY <2>1, <2>2, OwnPage
  <2> QED BY <1>0, <2>1, <2>2, <2>3
<1>3. CASE AddShmem \/ DelShmem \/ CustomHidExit
  <2>1. pc["main"] \in {"add", "del", "exit"} /\ pc'["copy"] = pc["copy"]
    BY <1>3 DEF AddShmem, DelShmem, CustomHidExit, At, Goto, TypeInv, TypeOK, Threads
  <2>2. InPass BY <2>1 DEF InPass
  <2> QED BY <2>1, <2>2, NoPassMeanwhile
<1>4. CASE CopyLockPkg
  BY <1>4 DEF CopyLockPkg, Registered, ipcVars
<1>5. CASE CopyOut
  <2>1. /\ fake'[sharedmems[it]] = ShmemCopy(tmp_shmem_mem, fake[sharedmems[it]])
        /\ \A q \in Res : q # sharedmems[it] => fake'[q] = fake[q]
        /\ todo' = todo \ {it} /\ pc["copy"] = "out"
        /\ UNCHANGED <<sharedmems, cur_fakegamepad_state>>
        /\ it \in Pids /\ Registered(it) /\ sharedmems[it] \in Res
    BY <1>5, PageWrites, GameAtHand
  <2>2. InPass /\ Registered(p) BY <2>1 DEF InPass, Registered
  <2>3. CASE p = it
    <3>1. PICK msg \in {cur_fakegamepad_state, NoMessage} : Presents(tmp_shmem_mem, msg)
      BY <2>1, OutPresents
    <3>2. tmp_shmem_mem \in Image /\ fake[sharedmems[it]] \in Image
      BY <2>1 DEF TypeInv, TypeOK
    <3>3. Presents(fake'[sharedmems[it]], msg) BY <2>1, <3>1, <3>2, CopyPresents
    <3> QED BY <2>1, <2>3, <3>3
  <2>4. CASE p # it
    <3>1. sharedmems[p] \in Res /\ sharedmems[p] # sharedmems[it]
      BY <2>1, <2>2, <2>4, OwnPage
    <3>2. fake'[sharedmems[p]] = fake[sharedmems[p]] /\ p \notin todo BY <2>1, <2>4, <3>1
    <3> QED BY <1>0, <2>1, <2>2, <3>2
  <2> QED BY <2>3, <2>4
<1>6. CASE CopyUnlockPkg
  BY <1>6 DEF CopyUnlockPkg, Goto, InPass, TypeInv, TypeOK, Threads
<1>7. CASE NetStore \/ NetVoid
  <2>1. pc["net"] = "store" /\ pc'["copy"] = pc["copy"]
    BY <1>7 DEF NetStore, NetVoid, At, Goto, TypeInv, TypeOK, Threads
  <2> QED BY <2>1, NetOutsidePass DEF InPass
<1> QED BY <1>1, <1>2, <1>3, <1>4, <1>5, <1>6, <1>7, StepKinds

\* Every step keeps what is said of the shadow pages.
LEMMA StepGameInv ==
    TypeInv /\ LockInv /\ PageInv /\ ScratchInv /\ GameInv /\ [Next]_vars => GameInv'
<1> SUFFICES ASSUME TypeInv, LockInv, PageInv, ScratchInv, GameInv, [Next]_vars PROVE GameInv'
  OBVIOUS
<1>1. PacketInv' /\ ShadowIsRendering' /\ OnePacketPerPass'
  BY StepPacketInv, StepShadow, StepOnePacket DEF GameInv
<1>2. ASSUME pc'["main"] \in {"add_lock", "add"} PROVE fake'[arg'] = ZeroImage
  <2>1. ASSUME NEW p \in Pids, NEW r \in Res, Create(p, r) PROVE fake'[arg'] = ZeroImage
    BY <2>1, PageWrites
  <2>2. CASE CopyOut
    <3>1. pc["main"] \in {"add_lock", "add"} /\ arg' = arg
      BY <1>2, <2>2, PageWrites
    <3>2. arg \in Res /\ sharedmems[it] # arg
      BY <2>2, <3>1, PageWrites, GameAtHand DEF PageInv, ObjInv, Handling, Detached
    <3> QED BY <2>2, <3>1, <3>2, PageWrites DEF GameInv
  <2>3. CASE ~CopyOut /\ ~\E p \in Pids, r \in Res : Create(p, r)
    <3>1. pc["main"] \in {"add_lock", "add"} /\ arg' = arg /\ fake' = fake
      BY <1>2, <2>3, StepCases
         DEF LoadOpen, LoadLine, LoadWild, LoadDone, AfterLoad, Request, CreateFatal, Close,
             ReloadConfig, ClearConfig, Acquire, StartCopy, StartNet, AddShmem, DelShmem,
             CustomHidExit, CustomHidExitAbort, Clear, CopyLockPkg, RebindLock, CopyIn,
             CopyApply, RebindSkip,
             Rebind, RebindEnd, CopyOutAbort, CopyUnlockPkg, CopyUnlockShmem, NetAcquire,
             NetPoll, NetStore, NetVoid, NetWake, NetExit, vars, Goto, At, TypeInv, TypeOK,
             Threads, ipcVars, pageVars
    <3> QED BY <3>1 DEF GameInv
  <2> QED BY <2>1, <2>2, <2>3
<1> QED BY <1>1, <1>2 DEF GameInv

-----------------------------------------------------------------------------
\* The whole inductive invariant of HidMitm.
RenderInv == TypeInv /\ LockInv /\ PageInv /\ ConfigInv /\ ScratchInv /\ GameInv

\* It holds at boot and is kept.
LEMMA InitRenderInv == Init => RenderInv
BY InitTypeInv, InitLockInv, InitPageInv, InitConfigInv, InitScratchInv, InitGameInv
   DEF RenderInv

\* Every step keeps it.
LEMMA StepRenderInv == RenderInv /\ [Next]_vars => RenderInv'
BY StepTypes, StepLockInv, StepPageInv, StepConfigInv, StepScratchInv, StepGameInv
   DEF RenderInv

\* It always holds.
THEOREM RenderInvHolds == Spec => []RenderInv
BY InitRenderInv, StepRenderInv, PTL DEF Spec

(***************************************************************************)
(* However clients come and go, config.ini is reloaded and packets come:   *)
(* a shadow page that has been written presents one state of a real page   *)
(* with at most one packet, each pad under one complete configuration.     *)
(***************************************************************************)
THEOREM PagesAreRenderings == Spec => []ShadowIsRendering
<1>1. RenderInv => ShadowIsRendering BY DEF RenderInv, GameInv
<1> QED BY RenderInvHolds, <1>1, PTL

(***************************************************************************)
(* All games that a pass has served present the same packet, or none.      *)
(***************************************************************************)
THEOREM GamesShareThePacket == Spec => []OnePacketPerPass
<1>1. RenderInv => OnePacketPerPass BY DEF RenderInv, GameInv
<1> QED BY RenderInvHolds, <1>1, PTL

-----------------------------------------------------------------------------
(* HidMitm implements HidFeed.                                             *)

\* What presents a packet is one of the renderings of it.
LEMMA PresentedIsRendering ==
    ASSUME NEW page, NEW msg, Presents(page, msg)
    PROVE  ViewOf(page) \in RenderingsOf(msg)
<1>1. PICK img \in RealImages :
        /\ page.other = img.other
        /\ \A i \in Slots : Seen(page, i) \in PadRenderings(img, msg, i)
  BY PresentsBy
<1> DEFINE pads == [i \in Slots |-> Seen(page, i)]
           All == UNION {PadRenderings(img, msg, i) : i \in Slots}
<1>2. pads \in [Slots -> All] /\ \A i \in Slots : pads[i] \in PadRenderings(img, msg, i)
  BY <1>1
<1>3. ViewOf(page) = [other |-> img.other, pads |-> pads] BY <1>1 DEF ViewOf
<1>4. pads \in {f \in [Slots -> All] : \A i \in Slots : f[i] \in PadRenderings(img, msg, i)}
  <2> HIDE DEF pads, All
  <2> QED BY <1>2
<1>5. ViewOf(page) \in {[other |-> img.other, pads |-> x] :
          x \in {f \in [Slots -> All] : \A i \in Slots : f[i] \in PadRenderings(img, msg, i)}}
  <2> HIDE DEF pads, All
  <2> QED BY <1>3, <1>4
<1> QED BY <1>5 DEF RenderingsOf

\* What a game is shown depends on its page alone.
LEMMA SameShown ==
    ASSUME NEW p \in Pids, sharedmems'[p] = sharedmems[p],
           Registered(p) => fake'[sharedmems[p]] = fake[sharedmems[p]]
    PROVE  ShownTo(p)' = ShownTo(p)
BY DEF ShownTo, Registered

\* The initial states of HidMitm are initial states of HidFeed.
LEMMA InitFeeds == Init => Feed!Init
<1> SUFFICES ASSUME Init PROVE Feed!Init
  OBVIOUS
<1>1. ~InPass BY DEF Init, InPass, Threads
<1>2. \A p \in Pids : ~Registered(p) BY DEF Init, Registered
<1>3. RegisteredGames = {} BY <1>2 DEF RegisteredGames
<1>4. [p \in Pids |-> ShownTo(p)] = [p \in Pids |-> ViewOf(ZeroImage)] BY <1>2 DEF ShownTo
<1>5. CurrentPacket = NoMessage BY DEF Init, CurrentPacket
<1> QED BY <1>1, <1>3, <1>4, <1>5 DEF Feed!Init

\* A step that shows every game what it saw before.
LEMMA StutterFeeds ==
    ASSUME UNCHANGED <<sharedmems, todo, CurrentPacket>>, InPass' <=> InPass,
           \A p \in Pids : ShownTo(p)' = ShownTo(p)
    PROVE  UNCHANGED Feed!vars
<1>1. RegisteredGames' = RegisteredGames BY DEF RegisteredGames, Registered
<1>2. [p \in Pids |-> ShownTo(p)]' = [p \in Pids |-> ShownTo(p)] OBVIOUS
<1> QED BY <1>1, <1>2 DEF Feed!vars

\* Nothing that the games notice.
LEMMA QuietFeeds == ASSUME Quiet PROVE UNCHANGED Feed!vars
<1>1. \A p \in Pids : ShownTo(p)' = ShownTo(p) BY SameShown DEF Quiet
<1>2. CurrentPacket' = CurrentPacket BY DEF Quiet, CurrentPacket
<1> QED BY <1>1, <1>2, StutterFeeds DEF Quiet

\* Neither a new page nor an unmapped one is in the table.
LEMMA MappingFeeds ==
    ASSUME TypeInv, LockInv, PageInv,
           CustomHidExit \/ \E p \in Pids, r \in Res : Create(p, r)
    PROVE  UNCHANGED Feed!vars
<1>1. PICK r \in Res :
        /\ \A q \in Res : q # r => fake'[q] = fake[q]
        /\ memory[r] = "unmapped" \/ (r = arg /\ Detached)
        /\ pc'["copy"] = pc["copy"]
        /\ UNCHANGED <<sharedmems, todo, cur_fakegamepad_state>>
  BY PageWrites DEF Detached
<1>2. ASSUME NEW p \in Pids PROVE ShownTo(p)' = ShownTo(p)
  BY <1>1, OwnPage, SameShown
<1>3. CurrentPacket' = CurrentPacket BY <1>1 DEF CurrentPacket
<1> QED BY <1>1, <1>2, <1>3, StutterFeeds DEF InPass

\* A game gets a blank page, or goes, between two rounds.
LEMMA TableFeeds ==
    ASSUME TypeInv, LockInv, PageInv, GameInv, AddShmem \/ DelShmem
    PROVE  \E g \in Pids : Feed!Join(g) \/ Feed!Leave(g)
<1>1. /\ pc["main"] \in {"add", "del"} /\ pc'["copy"] = pc["copy"]
      /\ UNCHANGED <<fake, todo, cur_fakegamepad_state>>
  BY DEF AddShmem, DelShmem, At, Goto, TypeInv, TypeOK, Threads, pageVars, passVars, netVars
<1>2. ~InPass /\ ~InPass' BY <1>1, NoPassMeanwhile DEF InPass
<1>3. PICK g \in Pids : arg \in Res /\ g = pidOf[arg]
  BY <1>1 DEF PageInv, ObjInv, Handling
<1>4. CurrentPacket' = CurrentPacket BY <1>1 DEF CurrentPacket
<1> DEFINE shown == [p \in Pids |-> ShownTo(p)]
<1>5. \A p \in Pids : p # g => sharedmems'[p] = sharedmems[p]
  BY <1>3 DEF AddShmem, DelShmem, TypeInv, TypeOK
<1>6. \A p \in Pids : p # g => ShownTo(p)' = ShownTo(p) BY <1>1, <1>5, SameShown
<1>7. \A p \in Pids : p # g => (Registered(p)' <=> Registered(p)) BY <1>5 DEF Registered
<1>8. ShownTo(g)' = ViewOf(ZeroImage) => shown' = [shown EXCEPT ![g] = ViewOf(ZeroImage)]
  BY <1>3, <1>6
<1>9. CASE AddShmem
  <2>1. sharedmems'[g] = arg /\ arg # NoRes
    BY <1>3, <1>9, HidMitmAssumption DEF AddShmem, TypeInv, TypeOK
  <2>2. fake[arg] = ZeroImage BY <1>9 DEF AddShmem, At, GameInv
  <2>3. ShownTo(g)' = ViewOf(ZeroImage) BY <1>1, <2>1, <2>2 DEF ShownTo
  <2>4. RegisteredGames' = RegisteredGames \cup {g}
    BY <1>3, <1>7, <2>1 DEF RegisteredGames, Registered
  <2>5. Feed!Join(g) BY <1>2, <1>4, <1>8, <2>3, <2>4 DEF Feed!Join
  <2> QED BY <1>3, <2>5
<1>10. CASE DelShmem
  <2>1. sharedmems'[g] = NoRes BY <1>3, <1>10 DEF DelShmem, TypeInv, TypeOK
  <2>2. ShownTo(g)' = ViewOf(ZeroImage) BY <2>1 DEF ShownTo, Registered
  <2>3. RegisteredGames' = RegisteredGames \ {g}
    BY <1>3, <1>7, <2>1 DEF RegisteredGames, Registered
  <2>4. Feed!Leave(g) BY <1>2, <1>4, <1>8, <2>2, <2>3 DEF Feed!Leave
  <2> QED BY <1>3, <2>4
<1> QED BY <1>9, <1>10

\* With pkgMutex a pass begins, and with it the round of all games in the table.
LEMMA LockFeeds ==
    ASSUME TypeInv, CopyLockPkg
    PROVE  Feed!StartRound
<1>1. /\ ~InPass /\ InPass' /\ UNCHANGED <<sharedmems, fake, cur_fakegamepad_state>>
      /\ todo' = {p \in Pids : sharedmems[p] # NoRes}
  BY DEF CopyLockPkg, At, Goto, InPass, TypeInv, TypeOK, Threads, ipcVars, pageVars, netVars
<1>2. todo' = RegisteredGames BY <1>1 DEF RegisteredGames, Registered
<1>3. RegisteredGames' = RegisteredGames BY <1>1 DEF RegisteredGames, Registered
<1>4. [p \in Pids |-> ShownTo(p)]' = [p \in Pids |-> ShownTo(p)]
  BY <1>1, SameShown
<1>5. CurrentPacket' = CurrentPacket BY <1>1 DEF CurrentPacket
<1> QED BY <1>1, <1>2, <1>3, <1>4, <1>5 DEF Feed!StartRound

\* The second copy serves the game of the iterator with the current packet, or none.
LEMMA OutFeeds ==
    ASSUME TypeInv, PageInv, ScratchInv, GameInv, CopyOut
    PROVE  Feed!Serve(it)
<1>1. /\ fake'[sharedmems[it]] = ShmemCopy(tmp_shmem_mem, fake[sharedmems[it]])
      /\ \A q \in Res : q # sharedmems[it] => fake'[q] = fake[q]
      /\ todo' = todo \ {it} /\ pc["copy"] = "out" /\ pc'["copy"] = "pick"
      /\ UNCHANGED <<sharedmems, cur_fakegamepad_state>>
      /\ it \in Pids /\ it \in todo /\ Registered(it) /\ sharedmems[it] \in Res
  BY PageWrites, GameAtHand
<1>2. InPass /\ InPass' BY <1>1 DEF InPass
<1>3. PICK msg \in {cur_fakegamepad_state, NoMessage} : Presents(tmp_shmem_mem, msg)
  BY <1>1, OutPresents
<1>4. PICK m \in {CurrentPacket, NoMessage} : Presents(tmp_shmem_mem, m)
  BY <1>3, CurrentPresented DEF GameInv
<1>5. CurrentPacket \in Messages \cup {NoMessage} BY <1>3, CurrentPresented DEF GameInv
<1>6. ViewOf(tmp_shmem_mem) \in FeedRenderings[CurrentPacket] \cup FeedRenderings[NoMessage]
  BY <1>4, <1>5, PresentedIsRendering DEF FeedRenderings
<1>7. tmp_shmem_mem \in Image /\ fake[sharedmems[it]] \in Image
  BY <1>1 DEF TypeInv, TypeOK
<1>8. ASSUME NEW p \in Pids, p = it PROVE ShownTo(p)' = ViewOf(tmp_shmem_mem)
  <2>1. ViewOf(fake'[sharedmems[p]]) = ViewOf(tmp_shmem_mem)
    BY <1>1, <1>7, <1>8, CopyPresents
  <2>2. ShownTo(p)' = ViewOf(fake'[sharedmems[p]]) BY <1>1, <1>8 DEF ShownTo, Registered
  <2> QED BY <2>1, <2>2
<1>9. \A p \in Pids : p # it => ShownTo(p)' = ShownTo(p) BY <1>1, OwnPage, SameShown
<1>10. [p \in Pids |-> ShownTo(p)]'
         = [[p \in Pids |-> ShownTo(p)] EXCEPT ![it] = ViewOf(tmp_shmem_mem)]
  BY <1>1, <1>8, <1>9
<1>11. RegisteredGames' = RegisteredGames BY <1>1 DEF RegisteredGames, Registered
<1>12. CurrentPacket' = CurrentPacket BY <1>1 DEF CurrentPacket
<1> QED BY <1>1, <1>2, <1>6, <1>10, <1>11, <1>12 DEF Feed!Serve

\* A pass ends when no game is left to serve.
LEMMA UnlockFeeds ==
    ASSUME TypeInv, CopyUnlockPkg
    PROVE  UNCHANGED Feed!vars
<1>1. /\ todo = {} /\ ~InPass' /\ UNCHANGED <<sharedmems, fake, cur_fakegamepad_state>>
  BY DEF CopyUnlockPkg, Goto, InPass, TypeInv, TypeOK, Threads, ipcVars, pageVars, netVars
<1>2. RegisteredGames' = RegisteredGames BY <1>1 DEF RegisteredGames, Registered
<1>3. [p \in Pids |-> ShownTo(p)]' = [p \in Pids |-> ShownTo(p)] BY <1>1, SameShown
<1>4. CurrentPacket' = CurrentPacket BY <1>1 DEF CurrentPacket
<1> QED BY <1>1, <1>2, <1>3, <1>4 DEF Feed!vars

\* The network thread replaces the packet between two rounds.
LEMMA NetFeeds ==
    ASSUME TypeInv, LockInv, GameInv, GameInv', NetStore \/ NetVoid
    PROVE  Feed!NewPacket
<1>1. /\ pc["net"] = "store" /\ pc'["copy"] = pc["copy"] /\ UNCHANGED <<sharedmems, fake>>
  BY DEF NetStore, NetVoid, At, Goto, TypeInv, TypeOK, Threads, ipcVars, pageVars
<1>2. ~InPass /\ ~InPass' BY <1>1, NetOutsidePass DEF InPass
<1>3. RegisteredGames' = RegisteredGames BY <1>1 DEF RegisteredGames, Registered
<1>4. [p \in Pids |-> ShownTo(p)]' = [p \in Pids |-> ShownTo(p)] BY <1>1, SameShown
<1>5. CurrentPacket' \in Messages \cup {NoMessage} BY DEF GameInv, PacketInv, CurrentPacket
<1> QED BY <1>2, <1>3, <1>4, <1>5 DEF Feed!NewPacket

\* Every step of HidMitm is a step of HidFeed or changes nothing there.
LEMMA StepFeeds == RenderInv /\ RenderInv' /\ [Next]_vars => [Feed!Next]_(Feed!vars)
<1> SUFFICES ASSUME RenderInv, RenderInv', [Next]_vars PROVE [Feed!Next]_(Feed!vars)
  OBVIOUS
<1> USE DEF RenderInv
<1>1. CASE Quiet BY <1>1, QuietFeeds
<1>2. CASE CustomHidExit \/ \E p \in Pids, r \in Res : Create(p, r) BY <1>2, MappingFeeds
<1>3. CASE AddShmem \/ DelShmem BY <1>3, TableFeeds DEF Feed!Next
<1>4. CASE CopyLockPkg BY <1>4, LockFeeds DEF Feed!Next
<1>5. CASE CopyOut
  <2>1. it \in Pids BY <1>5, PageWrites, GameAtHand
  <2> QED BY <1>5, <2>1, OutFeeds DEF Feed!Next
<1>6. CASE CopyUnlockPkg BY <1>6, UnlockFeeds
<1>7. CASE NetStore \/ NetVoid BY <1>7, NetFeeds DEF Feed!Next
<1> QED BY <1>1, <1>2, <1>3, <1>4, <1>5, <1>6, <1>7, StepKinds, Zenon

(***************************************************************************)
(* Three threads, three mutexes, one scratch image, a configuration and a  *)
(* packet behave towards the games like the rounds of HidFeed: registering *)
(* and unmapping, reloading config.ini and receiving packets never show in *)
(* the middle of a round.                                                  *)
(***************************************************************************)
THEOREM ImplementsFeed == Spec => FeedsGames
BY RenderInvHolds, InitFeeds, StepFeeds, PTL DEF Spec, FeedsGames, Feed!Spec
=============================================================================
