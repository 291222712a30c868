------------------------------- MODULE HidMitm -------------------------------
(***************************************************************************)
(* The hid_mitm process: the IPC thread that creates and destroys a        *)
(* shadow page per game and reloads the configuration ("main"), the thread *)
(* that renders every game's real page into its shadow page ("copy"), and  *)
(* the thread that fetches the network gamepad ("net").  They share three  *)
(* mutexes, the table of pages, one scratch image, the configuration and   *)
(* the last network packet.                                                *)
(*                                                                         *)
(* A step is one access to shared memory or one mutex operation; taking a  *)
(* mutex is a step of its own.  Copying one page is one step: what a copy  *)
(* sees when the other side writes the page meanwhile is left out here.    *)
(* Files of config.ini, real pages and network packets are chosen from the *)
(* sets the constants give; the real pages belong to another process and   *)
(* are only read, so they are not part of the state.                       *)
(***************************************************************************)
EXTENDS PadImage, RebindConfig

CONSTANTS
    Pids,         \* applet resource user ids of the games
    Res,          \* IAppletResourceMitmService objects alive at once
    NoPid, NoRes, \* no pid, no object
    OnePerPid,    \* TRUE: no game opens a second resource under its id
    RealImages,   \* what the console's HID service may show in a page
    Messages,     \* packets poll_udp_input may return with 0
    Files         \* what config.ini may contain when it is read

ASSUME HidMitmAssumption ==
    /\ NoRes \notin Res /\ NoPid \notin Pids
    /\ OnePerPid \in BOOLEAN
    /\ RealImages \subseteq Image
    /\ Messages \subseteq {m \in Message : m.magic}
    /\ Files \subseteq Seq(Line)
    /\ NamedKeys \cup StrayKeys \subseteq Buttons
    /\ NamedKeys \cap (SideKeys \cup UNION {StickKeys[s] : s \in Sticks}) = {}

Threads == {"main", "copy", "net"}
Mutexes == {"shmem_mutex", "pkgMutex", "configMutex"}
Free    == "free"

NoMessage == [magic |-> FALSE, keys |-> {}, sticks |-> [s \in Sticks |-> 0]]

VARIABLES
    pc,                    \* where each thread is
    mutex,                 \* the owner of each mutex
    halted,                \* "no", "fatal" (fatalThrow, exit) or "abort": see CopyOutAbort
    sharedmems,            \* pid -> the object whose two pages are registered
    memory,                \* an object's pages: "unmapped", "mapped" or "broken"
    pidOf,                 \* an object's pid member
    session,               \* a client holds the object
    arg,                   \* the object the request at hand is about
    fake,                  \* an object's shadow page
    tmp_shmem_mem,         \* the scratch image, one for all games
    rebind_config, stick_deadzone, networking_enabled,
    lines,                 \* what ini_parse has not read yet
    cur_fakegamepad_state, \* the packet to apply
    polled,                \* what poll_udp_input returned last
    todo, it, slot         \* locals of copy_thread: pids to come, pid, gamepad

ipcVars    == <<sharedmems, memory, pidOf, session, arg>>
pageVars   == <<fake, tmp_shmem_mem>>
configVars == <<rebind_config, stick_deadzone, networking_enabled, lines>>
netVars    == <<cur_fakegamepad_state, polled>>
passVars   == <<todo, it, slot>>
vars       == <<pc, mutex, halted, ipcVars, pageVars, configVars, netVars, passVars>>

MainLabels == {"load_lock", "load", "start_copy", "start_net", "idle", "add_lock", "add",
               "del_lock", "del", "exit_lock", "exit", "clear_lock", "clear"}
CopyLabels == {"off", "load_lock", "load", "lock_shmem", "lock_pkg", "pick", "apply",
               "rebind", "rebind_held", "out", "unlock_shmem"}
NetLabels  == {"off", "poll", "lock_pkg", "store", "hold"}

(***************************************************************************)
(* One type invariant: every variable stays in the data the code gives it. *)
(***************************************************************************)
TypeOK ==
    /\ pc \in [Threads -> MainLabels \cup CopyLabels \cup NetLabels]
    /\ pc["main"] \in MainLabels /\ pc["copy"] \in CopyLabels /\ pc["net"] \in NetLabels
    /\ mutex \in [Mutexes -> Threads \cup {Free}]
    /\ halted \in {"no", "fatal", "abort"}
    /\ sharedmems \in [Pids -> Res \cup {NoRes}]
    /\ memory \in [Res -> {"unmapped", "mapped", "broken"}]
    /\ pidOf \in [Res -> Pids \cup {NoPid}]
    /\ session \in [Res -> BOOLEAN]
    /\ arg \in Res \cup {NoRes}
    /\ fake \in [Res -> Image]
    /\ tmp_shmem_mem \in Image
    /\ rebind_config \in Seq(Buttons \X Buttons)
    /\ stick_deadzone \in S16
    /\ networking_enabled \in BOOLEAN
    /\ lines \in Seq(Line)
    /\ cur_fakegamepad_state \in Message /\ polled \in Message
    /\ todo \in SUBSET Pids /\ it \in Pids \cup {NoPid} /\ slot \in 0 .. Handheld + 1

(***************************************************************************)
(* main() after customHidInitialize: copyThreadInitialize begins with      *)
(* loadConfig; the other two threads do not exist yet.  The locals of a    *)
(* thread (arg, it, slot, polled) are reset where they go out of use.      *)
(***************************************************************************)
Init ==
    /\ pc = [t \in Threads |-> IF t = "main" THEN "load_lock" ELSE "off"]
    /\ mutex = [m \in Mutexes |-> Free]
    /\ halted = "no"
    /\ sharedmems = [p \in Pids |-> NoRes]
    /\ memory = [r \in Res |-> "unmapped"]
    /\ pidOf = [r \in Res |-> NoPid]
    /\ session = [r \in Res |-> FALSE]
    /\ arg = NoRes
    /\ fake = [r \in Res |-> ZeroImage]
    /\ tmp_shmem_mem = ZeroImage
    /\ rebind_config = <<>> /\ stick_deadzone = 0
    /\ networking_enabled = FALSE /\ lines = <<>>
    /\ cur_fakegamepad_state = NoMessage /\ polled = NoMessage
    /\ todo = {} /\ it = NoPid /\ slot = 0

At(t, label)   == halted = "no" /\ pc[t] = label
Goto(t, label) == pc' = [pc EXCEPT ![t] = label]
Take(t, m)     == mutex[m] = Free /\ mutex' = [mutex EXCEPT ![m] = t]
Release(m)     == mutex' = [mutex EXCEPT ![m] = Free]

\* mutexLock and nothing else.
Acquire(t, m, from, to) ==
    /\ At(t, from) /\ Take(t, m) /\ Goto(t, to)
    /\ UNCHANGED <<halted, ipcVars, pageVars, configVars, netVars, passVars>>

-----------------------------------------------------------------------------
(* loadConfig, run by the IPC thread and once by the copy thread.          *)

AfterLoad(t) == IF t = "copy" THEN "lock_shmem"
                ELSE IF pc["copy"] = "off" THEN "start_copy" ELSE "idle"

LoadOpen(t) ==
    /\ At(t, "load_lock") /\ Take(t, "configMutex") /\ Goto(t, "load")
    /\ rebind_config' = <<>>
    /\ lines' \in Files
    /\ UNCHANGED <<halted, ipcVars, pageVars, stick_deadzone, networking_enabled,
                   netVars, passVars>>

LoadLine(t) ==
    /\ At(t, "load") /\ lines # <<>>
    /\ networking_enabled' = NetworkingAfter(Head(lines), networking_enabled)
    /\ stick_deadzone' = DeadzoneAfter(Head(lines), stick_deadzone)
    /\ \E more \in Pushed(Head(lines)) : rebind_config' = rebind_config \o more
    /\ lines' = Tail(lines)
    /\ UNCHANGED <<pc, mutex, halted, ipcVars, pageVars, netVars, passVars>>

LoadWild(t) ==
    /\ At(t, "load") /\ lines # <<>> /\ MayGoWild(Head(lines))
    /\ halted' = "abort"
    /\ UNCHANGED <<pc, mutex, ipcVars, pageVars, configVars, netVars, passVars>>

LoadDone(t) ==
    /\ At(t, "load") /\ lines = <<>> /\ Release("configMutex") /\ Goto(t, AfterLoad(t))
    /\ UNCHANGED <<halted, ipcVars, pageVars, configVars, netVars, passVars>>

Load(t) == LoadLine(t) \/ LoadWild(t) \/ LoadDone(t)

-----------------------------------------------------------------------------
(* The IPC thread: boot, then one request at a time.                       *)

StartCopy ==
    /\ At("main", "start_copy")
    /\ pc' = [pc EXCEPT !["main"] = "start_net", !["copy"] = "load_lock"]
    /\ UNCHANGED <<mutex, halted, ipcVars, pageVars, configVars, netVars, passVars>>

StartNet ==
    /\ At("main", "start_net")
    /\ pc' = [pc EXCEPT !["main"] = "idle", !["net"] = "poll"]
    /\ UNCHANGED <<mutex, halted, ipcVars, pageVars, configVars, netVars, passVars>>

(***************************************************************************)
(* CreateAppletResource up to its call of add_shmem: customHidSetup maps   *)
(* the real page and creates the shadow page.  The results of creating and *)
(* mapping the shadow page are not looked at: when they fail, the page is  *)
(* "broken", its SharedMemory being what the stack held before.            *)
(***************************************************************************)
Create(p, r) ==
    /\ At("main", "idle") /\ Goto("main", "add_lock")
    /\ memory[r] = "unmapped"
    /\ OnePerPid => \A q \in Res : memory[q] = "unmapped" \/ pidOf[q] # p
    /\ \E outcome \in {"mapped", "broken"} : memory' = [memory EXCEPT ![r] = outcome]
    /\ pidOf' = [pidOf EXCEPT ![r] = p]
    /\ arg' = r
    /\ fake' = [fake EXCEPT ![r] = ZeroImage]
    /\ UNCHANGED <<mutex, halted, sharedmems, session, tmp_shmem_mem, configVars,
                   netVars, passVars>>

CreateFatal ==
    /\ At("main", "idle")
    /\ halted' = "fatal"
    /\ UNCHANGED <<pc, mutex, ipcVars, pageVars, configVars, netVars, passVars>>

AddShmem ==
    /\ At("main", "add") /\ Release("shmem_mutex") /\ Goto("main", "idle")
    /\ sharedmems' = [sharedmems EXCEPT ![pidOf[arg]] = arg]
    /\ session' = [session EXCEPT ![arg] = TRUE]
    /\ arg' = NoRes
    /\ UNCHANGED <<halted, memory, pidOf, pageVars, configVars, netVars, passVars>>

\* Mutant of Close: the destructor unmaps without del_shmem before.
CloseUnmaps(r) ==
    /\ At("main", "idle") /\ session[r] /\ Goto("main", "exit_lock")
    /\ session' = [session EXCEPT ![r] = FALSE]
    /\ arg' = r
    /\ UNCHANGED <<mutex, halted, sharedmems, memory, pidOf, pageVars, configVars,
                   netVars, passVars>>

\* A client closes its session or dies; the destructor of the object begins.
Close(r) ==
    /\ At("main", "idle") /\ session[r] /\ Goto("main", "del_lock")
    /\ session' = [session EXCEPT ![r] = FALSE]
    /\ arg' = r
    /\ UNCHANGED <<mutex, halted, sharedmems, memory, pidOf, pageVars, configVars,
                   netVars, passVars>>

\* Mutants of DelShmem: it erases nothing; it erases everything.
DelShmemNothing ==
    /\ At("main", "del") /\ Release("shmem_mutex") /\ Goto("main", "exit_lock")
    /\ UNCHANGED <<halted, ipcVars, pageVars, configVars, netVars, passVars>>

DelShmemAll ==
    /\ At("main", "del") /\ Release("shmem_mutex") /\ Goto("main", "exit_lock")
    /\ sharedmems' = [p \in Pids |-> NoRes]
    /\ UNCHANGED <<halted, memory, pidOf, session, arg, pageVars, configVars, netVars,
                   passVars>>


DelShmem ==
    /\ At("main", "del") /\ Release("shmem_mutex") /\ Goto("main", "exit_lock")
    /\ sharedmems' = [sharedmems EXCEPT ![pidOf[arg]] = NoRes]
    /\ UNCHANGED <<halted, memory, pidOf, session, arg, pageVars, configVars, netVars,
                   passVars>>

CustomHidExit ==
    /\ At("main", "exit") /\ Release("shmem_mutex") /\ Goto("main", "idle")
    /\ memory' = [memory EXCEPT ![arg] = "unmapped"]
    /\ fake' = [fake EXCEPT ![arg] = ZeroImage]
    /\ pidOf' = [pidOf EXCEPT ![arg] = NoPid]
    /\ arg' = NoRes
    /\ UNCHANGED <<halted, sharedmems, session, tmp_shmem_mem, configVars, netVars,
                   passVars>>

\* What was never created is unmapped and closed: if the stack held an address
\* or a handle that is in use, another game's page goes.
CustomHidExitAbort ==
    /\ At("main", "exit") /\ memory[arg] = "broken"
    /\ halted' = "abort"
    /\ UNCHANGED <<pc, mutex, ipcVars, pageVars, configVars, netVars, passVars>>

ReloadConfig ==
    /\ At("main", "idle") /\ Goto("main", "load_lock")
    /\ UNCHANGED <<mutex, halted, ipcVars, pageVars, configVars, netVars, passVars>>

ClearConfig ==
    /\ At("main", "idle") /\ Goto("main", "clear_lock")
    /\ UNCHANGED <<mutex, halted, ipcVars, pageVars, configVars, netVars, passVars>>

Clear ==
    /\ At("main", "clear") /\ Release("configMutex") /\ Goto("main", "idle")
    /\ rebind_config' = <<>>
    /\ UNCHANGED <<halted, ipcVars, pageVars, stick_deadzone, networking_enabled, lines,
                   netVars, passVars>>

Request == \/ \E p \in Pids, r \in Res : Create(p, r)
           \/ CreateFatal
           \/ \E r \in Res : Close(r)
           \/ ReloadConfig
           \/ ClearConfig

MainAcquire == \/ LoadOpen("main")
               \/ Acquire("main", "shmem_mutex", "add_lock", "add")
               \/ Acquire("main", "shmem_mutex", "del_lock", "del")
               \/ Acquire("main", "shmem_mutex", "exit_lock", "exit")
               \/ Acquire("main", "configMutex", "clear_lock", "clear")

MainStep == \/ Load("main") \/ StartCopy \/ StartNet
            \/ AddShmem \/ DelShmem \/ CustomHidExit \/ CustomHidExitAbort \/ Clear

-----------------------------------------------------------------------------
(* The copy thread.                                                        *)

\* Mutant of CopyLockPkg: shmem_mutex is given up before the pages are copied.
CopyLockPkgEarly ==
    /\ At("copy", "lock_pkg") /\ mutex["pkgMutex"] = Free /\ Goto("copy", "pick")
    /\ mutex' = [mutex EXCEPT !["pkgMutex"] = "copy", !["shmem_mutex"] = Free]
    /\ todo' = {p \in Pids : sharedmems[p] # NoRes}
    /\ UNCHANGED <<halted, ipcVars, pageVars, configVars, netVars, it, slot>>

\* mutexLock(&pkgMutex), and the iterator at sharedmems.begin().
CopyLockPkg ==
    /\ At("copy", "lock_pkg") /\ Take("copy", "pkgMutex") /\ Goto("copy", "pick")
    /\ todo' = {p \in Pids : sharedmems[p] # NoRes}
    /\ UNCHANGED <<halted, ipcVars, pageVars, configVars, netVars, it, slot>>

\* The console's HID service writes the real page whenever it likes, so the
\* copy finds any of the images.
CopyIn(p) ==
    /\ At("copy", "pick") /\ p \in todo /\ Goto("copy", "apply")
    /\ it' = p
    /\ \E img \in RealImages : tmp_shmem_mem' = ShmemCopy(img, tmp_shmem_mem)
    /\ UNCHANGED <<mutex, halted, ipcVars, fake, configVars, netVars, todo, slot>>

\* networking_enabled is read without configMutex.
CopyApply ==
    /\ At("copy", "apply") /\ Goto("copy", "rebind")
    /\ tmp_shmem_mem' = IF networking_enabled
                        THEN ApplyFakeGamepad(tmp_shmem_mem, cur_fakegamepad_state)
                        ELSE tmp_shmem_mem
    /\ UNCHANGED <<mutex, halted, ipcVars, fake, configVars, netVars, passVars>>

\* Mutant of RebindSkip: the loop over the gamepads ends one late.
RebindSkipLate ==
    /\ At("copy", "rebind") /\ slot <= Handheld + 1 /\ ~tmp_shmem_mem.pads[slot].used
    /\ slot' = slot + 1
    /\ UNCHANGED <<pc, mutex, halted, ipcVars, pageVars, configVars, netVars, todo, it>>


RebindSkip ==
    /\ At("copy", "rebind") /\ slot <= Handheld /\ ~tmp_shmem_mem.pads[slot].used
    /\ slot' = slot + 1
    /\ UNCHANGED <<pc, mutex, halted, ipcVars, pageVars, configVars, netVars, todo, it>>

\* Mutant of RebindLock: rebind_config is used without configMutex.
RebindLockNot ==
    /\ slot <= Handheld /\ tmp_shmem_mem.pads[slot].used
    /\ At("copy", "rebind") /\ Goto("copy", "rebind_held")
    /\ UNCHANGED <<mutex, halted, ipcVars, pageVars, configVars, netVars, passVars>>


RebindLock ==
    /\ slot <= Handheld /\ tmp_shmem_mem.pads[slot].used
    /\ Acquire("copy", "configMutex", "rebind", "rebind_held")

\* Mutant of Rebind: a way out of rebind_keys without mutexUnlock.
RebindKeeps ==
    /\ At("copy", "rebind_held") /\ Goto("copy", "rebind")
    /\ tmp_shmem_mem' = RebindKeys(tmp_shmem_mem, slot, rebind_config, stick_deadzone)
    /\ slot' = slot + 1
    /\ UNCHANGED <<mutex, halted, ipcVars, fake, configVars, netVars, todo, it>>


Rebind ==
    /\ At("copy", "rebind_held") /\ Release("configMutex") /\ Goto("copy", "rebind")
    /\ tmp_shmem_mem' = RebindKeys(tmp_shmem_mem, slot, rebind_config, stick_deadzone)
    /\ slot' = slot + 1
    /\ UNCHANGED <<halted, ipcVars, fake, configVars, netVars, todo, it>>

RebindEnd ==
    /\ At("copy", "rebind") /\ slot = Handheld + 1 /\ Goto("copy", "out")
    /\ slot' = 0
    /\ UNCHANGED <<mutex, halted, ipcVars, pageVars, configVars, netVars, todo, it>>

CopyOut ==
    LET r == sharedmems[it]
    IN  /\ At("copy", "out") /\ memory[r] = "mapped" /\ Goto("copy", "pick")
        /\ fake' = [fake EXCEPT ![r] = ShmemCopy(tmp_shmem_mem, @)]
        /\ todo' = todo \ {it}
        /\ UNCHANGED <<mutex, halted, ipcVars, tmp_shmem_mem, configVars, netVars,
                       it, slot>>

\* The shadow page was never created or is gone: its address is not one, or one
\* of something else.  "abort" stands for both, the end of the process and a
\* write to memory that is not the game's, after which the model says nothing.
CopyOutAbort ==
    /\ At("copy", "out") /\ memory[sharedmems[it]] # "mapped"
    /\ halted' = "abort"
    /\ UNCHANGED <<pc, mutex, ipcVars, pageVars, configVars, netVars, passVars>>

CopyUnlockPkg ==
    /\ At("copy", "pick") /\ todo = {} /\ Release("pkgMutex") /\ Goto("copy", "unlock_shmem")
    /\ it' = NoPid
    /\ UNCHANGED <<halted, ipcVars, pageVars, configVars, netVars, todo, slot>>

\* Mutant of CopyUnlockShmem: no unlock on the way that has no games.
CopyUnlockShmemNot ==
    /\ At("copy", "unlock_shmem") /\ Goto("copy", "lock_shmem")
    /\ IF \A p \in Pids : sharedmems[p] = NoRes THEN UNCHANGED mutex ELSE Release("shmem_mutex")
    /\ UNCHANGED <<halted, ipcVars, pageVars, configVars, netVars, passVars>>

\* On both paths, with or without games; then the thread sleeps.
CopyUnlockShmem ==
    /\ At("copy", "unlock_shmem") /\ Release("shmem_mutex") /\ Goto("copy", "lock_shmem")
    /\ UNCHANGED <<halted, ipcVars, pageVars, configVars, netVars, passVars>>

CopyAcquire == \/ LoadOpen("copy")
               \/ Acquire("copy", "shmem_mutex", "lock_shmem", "lock_pkg")
               \/ CopyLockPkg
               \/ RebindLock

CopyStep == \/ Load("copy") \/ (\E p \in Pids : CopyIn(p)) \/ CopyApply
            \/ RebindSkip \/ Rebind \/ RebindEnd
            \/ CopyOut \/ CopyOutAbort \/ CopyUnlockPkg \/ CopyUnlockShmem

-----------------------------------------------------------------------------
(* The network thread; while networking is off it only sleeps.             *)

NetPoll ==
    /\ At("net", "poll") /\ networking_enabled /\ Goto("net", "lock_pkg")
    /\ polled' \in Messages \cup {NoMessage}
    /\ UNCHANGED <<mutex, halted, ipcVars, pageVars, configVars, cur_fakegamepad_state,
                   passVars>>

NetStore ==
    /\ At("net", "store") /\ polled # NoMessage /\ Release("pkgMutex") /\ Goto("net", "poll")
    /\ cur_fakegamepad_state' = polled /\ polled' = NoMessage
    /\ UNCHANGED <<halted, ipcVars, pageVars, configVars, passVars>>

\* Mutants of NetVoid: it goes on without mutexUnlock; the packet stays.
NetVoidKeeps ==
    /\ At("net", "store") /\ polled = NoMessage /\ Goto("net", "poll")
    /\ cur_fakegamepad_state' = [cur_fakegamepad_state EXCEPT !.magic = FALSE]
    /\ UNCHANGED <<mutex, halted, ipcVars, pageVars, configVars, polled, passVars>>

NetVoidNot ==
    /\ At("net", "store") /\ polled = NoMessage /\ Goto("net", "hold")
    /\ UNCHANGED <<mutex, halted, ipcVars, pageVars, configVars, netVars, passVars>>

\* poll_udp_input failed: the packet is voided and the thread sleeps 10 ms,
\* still holding pkgMutex.
NetVoid ==
    /\ At("net", "store") /\ polled = NoMessage /\ Goto("net", "hold")
    /\ cur_fakegamepad_state' = [cur_fakegamepad_state EXCEPT !.magic = FALSE]
    /\ UNCHANGED <<mutex, halted, ipcVars, pageVars, configVars, polled, passVars>>

NetWake ==
    /\ At("net", "hold") /\ Release("pkgMutex") /\ Goto("net", "poll")
    /\ UNCHANGED <<halted, ipcVars, pageVars, configVars, netVars, passVars>>

\* Mutant of NetAcquire: the packet is replaced without pkgMutex.
NetAcquireNot ==
    /\ At("net", "lock_pkg") /\ Goto("net", "store")
    /\ UNCHANGED <<mutex, halted, ipcVars, pageVars, configVars, netVars, passVars>>

NetAcquire == Acquire("net", "pkgMutex", "lock_pkg", "store")

\* poll_udp_input found no socket and ended the process.
NetExit ==
    /\ At("net", "poll") /\ networking_enabled
    /\ halted' = "fatal"
    /\ UNCHANGED <<pc, mutex, ipcVars, pageVars, configVars, netVars, passVars>>

NetStep == NetPoll \/ NetStore \/ NetVoid \/ NetWake

-----------------------------------------------------------------------------
\* The process is gone.
Halted == halted # "no" /\ UNCHANGED vars

Next == \/ Request \/ MainAcquire \/ MainStep
        \/ CopyAcquire \/ CopyStep
        \/ NetAcquire \/ NetStep \/ NetExit
        \/ Halted

(***************************************************************************)
(* A thread that can run does: copy and net outrank main but sleep in      *)
(* every round.  A released mutex is handed to a waiter by the kernel, so  *)
(* a thread that waits for one that is released again and again gets it.   *)
(* Nothing makes a client send a request.                                  *)
(***************************************************************************)
Fairness == /\ WF_vars(MainStep) /\ SF_vars(MainAcquire)
            /\ WF_vars(CopyStep) /\ SF_vars(CopyAcquire)
            /\ WF_vars(NetStep)  /\ SF_vars(NetAcquire)

Spec     == Init /\ [][Next]_vars
FairSpec == Spec /\ Fairness

-----------------------------------------------------------------------------
(* Mutexes.                                                                *)

InPass == pc["copy"] \in {"pick", "apply", "rebind", "rebind_held", "out"}

Holds(t, m) ==
    \/ m = "shmem_mutex" /\ t = "main" /\ pc[t] \in {"add", "del", "exit"}
    \/ m = "shmem_mutex" /\ t = "copy" /\ (InPass \/ pc[t] \in {"lock_pkg", "unlock_shmem"})
    \/ m = "pkgMutex"    /\ t = "copy" /\ InPass
    \/ m = "pkgMutex"    /\ t = "net"  /\ pc[t] \in {"store", "hold"}
    \/ m = "configMutex" /\ t = "main" /\ pc[t] \in {"load", "clear"}
    \/ m = "configMutex" /\ t = "copy" /\ pc[t] \in {"load", "rebind_held"}

Wants(t, m) ==
    \/ m = "shmem_mutex" /\ pc[t] \in {"add_lock", "del_lock", "exit_lock", "lock_shmem"}
    \/ m = "pkgMutex"    /\ pc[t] = "lock_pkg"
    \/ m = "configMutex" /\ pc[t] \in {"load_lock", "clear_lock"}
    \/ m = "configMutex" /\ t = "copy" /\ pc[t] = "rebind" /\ slot <= Handheld
                         /\ tmp_shmem_mem.pads[slot].used

(***************************************************************************)
(* A thread owns a mutex exactly while it is between a mutexLock and the   *)
(* mutexUnlock that its path leads to, on both ways out of the copy loop   *)
(* and through the sleep of the net thread: no two threads are in sections *)
(* of one mutex, and none leaves one behind.                               *)
(***************************************************************************)
MutexDiscipline ==
    \A t \in Threads, m \in Mutexes : mutex[m] = t <=> Holds(t, m)

(***************************************************************************)
(* The copy thread nests shmem_mutex, pkgMutex and configMutex while the   *)
(* others take them singly.  In no group of threads does every one wait    *)
(* for a mutex that a thread of the group owns.                            *)
(***************************************************************************)
NoDeadlock ==
    \A group \in (SUBSET Threads) \ {{}} :
        \E t \in group : \A m \in Mutexes : Wants(t, m) => mutex[m] \notin group

-----------------------------------------------------------------------------
(* The table of pages.                                                     *)

Registered(p) == sharedmems[p] # NoRes

(***************************************************************************)
(* The copy thread follows the addresses in sharedmems, and customHidExit  *)
(* unmaps the pages behind them.  Whatever games come and go, also two     *)
(* objects of one game: a registered object is one of that game whose      *)
(* pages have not been unmapped, and the pass in progress goes through     *)
(* registered objects only.                                                *)
(***************************************************************************)
NoUseAfterUnmap ==
    /\ \A p \in Pids : Registered(p) => /\ memory[sharedmems[p]] # "unmapped"
                                        /\ pidOf[sharedmems[p]] = p
    /\ InPass => \A p \in todo : Registered(p)
    /\ InPass /\ pc["copy"] # "pick" => it \in todo

(***************************************************************************)
(* sharedmems is a hash table that CreateAppletResource and the destructor *)
(* change while the copy thread walks it with an iterator, and pages are   *)
(* unmapped while it copies: neither happens during a pass.                *)
(***************************************************************************)
StableDuringPass ==
    [][InPass => /\ sharedmems' = sharedmems
                 /\ \A r \in Res : memory'[r] = "unmapped" => memory[r] = "unmapped"]_vars

(***************************************************************************)
(* Nothing but a failed shmemCreate / shmemMap, whose results              *)
(* customHidSetup does not check, makes the copy thread write through a    *)
(* bad address or customHidExit unmap one: behaviour is undefined only     *)
(* there or in the key_names overrun.                                      *)
(***************************************************************************)
AbortCause ==
    halted = "abort" =>
        \/ pc["copy"] = "out" /\ memory[sharedmems[it]] = "broken"
        \/ pc["main"] = "exit" /\ memory[arg] = "broken"
        \/ \E t \in {"main", "copy"} : pc[t] = "load" /\ lines # <<>> /\ MayGoWild(Head(lines))

(***************************************************************************)
(* While no game opens a second applet resource (the assumption of the     *)
(* TODO above sharedmems), every object a client holds is registered: its  *)
(* shadow page is kept up to date for as long as the client may read it.   *)
(***************************************************************************)
OpenIsRegistered ==
    OnePerPid => \A r \in Res : session[r] => sharedmems[pidOf[r]] = r

-----------------------------------------------------------------------------
(* What the games see.                                                     *)

\* rebind_config and stick_deadzone as complete readings of files leave them.
CompleteConfigs   == {<<>>} \cup UNION {Complete(file) : file \in Files}
CompleteDeadzones == {0} \cup UNION {Deadzones(file) : file \in Files}

(***************************************************************************)
(* The pads in `page`, each by its newest entries, are those of a real     *)
(* page with msg's pad added, each rewritten under one complete config.    *)
(***************************************************************************)
Presents(page, msg) ==
    \E img \in RealImages :
        /\ page.other = img.other
        /\ \A i \in Slots :
              \/ i > Handheld /\ Seen(page, i) = Raw(img, msg, i)
              \/ i <= Handheld /\ \E cfg \in CompleteConfigs, dz \in CompleteDeadzones :
                                   Seen(page, i) = Rebound(Raw(img, msg, i), cfg, dz)

(***************************************************************************)
(* All games are rendered through one scratch image, with a configuration  *)
(* another thread reloads and a packet another thread replaces.  A shadow  *)
(* page that has been written presents one state of a real page with at    *)
(* most one packet, never what another game's page left in the scratch     *)
(* image, and never a config.ini read halfway.                             *)
(***************************************************************************)
ShadowIsRendering ==
    \A r \in Res : fake[r] # ZeroImage =>
        \E msg \in Messages \cup {NoMessage} : Presents(fake[r], msg)

(***************************************************************************)
(* Until the pass releases pkgMutex, every game it has served presents the *)
(* packet cur_fakegamepad_state still holds, or none: all games get the    *)
(* same input in one pass.                                                 *)
(***************************************************************************)
OnePacketPerPass ==
    InPass => \A p \in Pids : Registered(p) /\ p \notin todo =>
        \E msg \in {cur_fakegamepad_state, NoMessage} : Presents(fake[sharedmems[p]], msg)

(***************************************************************************)
(* The README: "the console will recognize it as an additional             *)
(* pro-controller".  Adding the network pad leaves every pad in use alone. *)
(***************************************************************************)
AdditionalController ==
    [][CopyApply => \A i \in Slots : tmp_shmem_mem.pads[i].used =>
                       tmp_shmem_mem'.pads[i] = tmp_shmem_mem.pads[i]]_vars

-----------------------------------------------------------------------------
(* Liveness, under FairSpec.                                               *)

(***************************************************************************)
(* Every registered game is rendered again and again, whatever clients,    *)
(* reloads and the sleeps of the net thread do, until it goes or the       *)
(* process stops.                                                          *)
(***************************************************************************)
Rendered(p) == pc["copy"] = "pick" /\ it = p /\ p \notin todo

RegisteredIsRendered ==
    \A p \in Pids : []<>(Rendered(p) \/ ~Registered(p) \/ halted # "no")

\* Every request ends: the IPC thread is not starved by the two others.
RequestsEnd == []<>(pc["main"] = "idle" \/ halted # "no")

(***************************************************************************)
(* When no packet arrives any more and the setting of networking does not  *)
(* change, the network pad disappears from every game for good.            *)
(***************************************************************************)
NothingArrives == pc["net"] = "lock_pkg" => polled = NoMessage

PadGone ==
    \A p \in Pids : Registered(p) =>
        fake[sharedmems[p]] = ZeroImage \/ Presents(fake[sharedmems[p]], NoMessage)

PadDisappears ==
    /\ <>[]NothingArrives
    /\ <>[]networking_enabled \/ <>[]~networking_enabled
    => <>[](PadGone \/ halted # "no")
=============================================================================
