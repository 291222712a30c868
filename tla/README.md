# hid-mitm in TLA+

hid-mitm is a Nintendo Switch system module that stands between games and the
console's HID service. A game that asks for the HID shared memory gets a *shadow*
page; a thread of hid-mitm renders the real page into every shadow page, adding
a gamepad whose input arrives over UDP and rebinding buttons as `config.ini`
says. Companion programs on Android, iOS and PCs send that input.

This directory holds TLA+ modules translated from the source, TLC configurations
that check them on small instances, and theorems that TLAPS proves for every
value of the constants. Paths below are relative to the repository;
`iapplet.cpp` is short for `hid_mitm/source/hid_mitm_iappletresource.cpp`.

    tlc -workers 2 -config HidMitmControl.cfg MCHidMitm.tla
    tlapm HidMitmProofs.tla

## 1. The system

### Components, their state and operations

| component | source | state | operations | module |
|---|---|---|---|---|
| IPC thread: page table and requests | `hid_mitm_service.cpp`, `hid_custom.c`, `iapplet.cpp` 20-51, 363-379, `hid_mitm_main.cpp` | `sharedmems` (pid -> two page addresses), each session object's two mappings and pid | boot; `CreateAppletResource`, session close (destructor), `ReloadConfig`, `ClearConfig` | `HidMitm` (`Main...`) |
| copy thread | `iapplet.cpp` 138-265, 298-361 | `tmp_shmem_mem`, one scratch image for all games; iterator, gamepad index | one pass over all games: `shmem_copy`, `apply_fake_gamepad`, `rebind_keys`, `shmem_copy` | `HidMitm` (`Copy...`, `Rebind...`), `PadImage` |
| rebinding configuration | `iapplet.cpp` 53-136 | `rebind_config`, `stick_deadzone`, `networking_enabled` | `loadConfig` with `handler` per line, `clearConfig` | `RebindConfig`, `HidMitm` (`Load...`, `Clear`) |
| ini parser | `hid_mitm/source/ini.c` | within a call: `prev_name`, `lineno`, `error`, the line buffer | `ini_parse`: lines to handler calls | `IniParse` |
| network thread | `iapplet.cpp` 267-293 | `cur_fakegamepad_state` | poll, store or void the packet | `HidMitm` (`Net...`), `EndToEnd` |
| UDP input | `udp_input.c` | `counter`, `failed`, `cached_msg`, `curIP`, `last_time`, `sockfd` | `setup_socket`, `poll_udp_input` | `UdpInput`, `EndToEnd` |
| Android companion | `AndroidApp/.../MainActivity.java` | `pressed_keys`, `joy_*`, `dpad_is_axis`; `address`, `last_ip` | motion and key events, `onCreate`, `onClick`, `build_pkg`, `SenderThread` | `AndroidPad`, `AndroidSenders` |
| iOS companion | `iOSApp/Hid-Mitm/ViewController.swift`, SwiftSocket's `UDPClient.swift`, `yudpsocket.c` | `mainController`, `timer`, `client` and its socket | controllers come and go, connect, disconnect, timer | `IosPad` |
| PC companion, Python | `hid_mitm/input_pc.py` | `keyout`, `dx_*`, `dy_*` | poller thread, sending loop | `PyPad` |
| PC companion, Go | `hid_mitm/input_pc.go` | `pkg` twice, a channel, `joysticks` | event loop, `senderLoop` | `GoPad`, `GoJoysticks` |
| PC companion, classic controller | `hid_mitm/input_classic.py` | none | polls and sends | not modelled |
| process start, services, heap | `hid_mitm_main.cpp` | none of its own | libnx calls | not modelled |
| app scaffolding, SwiftSocket's TCP half, `logger.py` | `AndroidApp`, `iOSApp`, `hid_mitm/logger.py` | - | generated, vendored, or pure output | not modelled |

### How they interact

    companion --UDP--> poll_udp_input --> net thread --pkgMutex--> cur_fakegamepad_state
                                                                        |
    real pages --(read)--> copy thread: scratch image, fake pad, rebind -+-> shadow pages
                              |                        |
                        shmem_mutex              configMutex
                              |                        |
    clients --IPC--> IPC thread: sharedmems      rebind_config <-- config.ini

Three mutexes connect three threads. `copy_thread` nests all of them
(`shmem_mutex`, then `pkgMutex`, then `configMutex` once per gamepad); the others
take one at a time. `networking_enabled` is shared without a mutex, and the pages
are shared with other processes that take no mutex of ours.

### What is hard, and what correctness means

`PROJECT.json` lists the hazards, each at its line. In short:

* **IPC against copy thread.** Pages are unmapped by one thread while the other
  follows their addresses; the table is a hash table that one walks and the other
  changes; removing an entry and unmapping its pages are two critical sections
  with a pass of the copy thread possible in between. *Correct: nothing
  unmapped is followed, nothing changes during a pass, a held page is rendered.*
* **Nested mutexes**, one of them held across a 10 ms sleep. *Correct: each is
  released on every path, no deadlock, no starvation.*
* **One scratch image for all games**, which `shmem_copy` only partly overwrites;
  a reload of the configuration in the middle of a pass; a new packet. *Correct:
  what a game reads is a rendering of one real page with one packet, each
  gamepad under a configuration that was read to its end.*
* **Unchecked results and an overrun**: `customHidSetup` ignores two results,
  `get_key_ind` walks 48 entries past the end of `key_names`. *Correct: the
  process stops nowhere else.*
* **Time in `poll_udp_input`**: timeouts counted three different ways, a clock that
  also counts its own waiting, an address read twice. *Correct: stale packets are
  dropped, it reconnects, it gives up.*
* **Two caches in a row.** `cached_msg` and `cur_fakegamepad_state` outlive timeouts,
  new sockets and networking that is switched off; packets carry no number.
  *Correct: while packets are in order a game never goes back, and in the end it
  sees what the player holds, or nothing.*
* **A parser that keeps a name across lines** and cuts lines and names to the size of
  its buffers. *Correct: every assignment, and every line that continues one, reaches the handler once.*
* **Event order in the companions**, and what they hold open (timers, sockets,
  joysticks). *Correct: what is sent is what is held, but for the inputs that a program's own
  code does not tell apart; these are named.*

## 2. The modules

### PadImage, RebindConfig: pure operators

`PadImage` is the shared page and the three functions that transform it. A button
word is the set of its bits, a stick is its distance from the centre (only
`rebind_keys` computes with it, and only with `dx*dx + dy*dy`); touchscreen, mouse
and keyboard are always copied together and are one value. Kept exactly: the ring
of entries per layout and which one is newest, the copying of unused
controllers (`ShmemCopy` leaves a slot alone that neither side uses), the search
loop that ends on the handheld's slot (`FakeSlot`), and the order inside
`rebind_keys` (map, drop the digital bits of a centred stick, add those of others,
add SL and SR). `Seen`, `Raw` and `Rebound` are the reference: what a game should
see, said without the scratch image.

`RebindConfig` is one line of `config.ini` as `handler` consumes it. `GetKeyInd`
returns the *set* of outcomes the build can produce, because the code reads past
the end of `key_names`: a zero word there is an empty string that matches an
empty word, with any of the 32 bits, since the index runs up to 63 and `BIT` may
wrap; anything else may be followed as a pointer. `ToS16` keeps the
truncation of `atoi`'s result to 16 bits. `Readings(file)` and `Complete(file)` are the
reference definitions: what the first so many lines of a file can leave, and the whole file.

### IniParse: the parser of config.ini

One pass of the loop in `ini_parse_stream` is one action, and each branch of it is an
action of its own: `Comment`, `Continuation`, `Section`, `Assignment`, `Malformed`; `Open`,
`OpenFails` and `Close` are `ini_parse` around it. `rest` is what `fgets` has not read,
and `Fgets` stops at the buffer's size as well as at the end of a line. Characters are
classes: one letter for all that mean nothing, one white space (`sp`), `=` for `:` too,
`semi` for the semicolon. The handler's answers follow `handler()` of `iapplet.cpp`.
`FileLines`, `Assigned`, `Heading`, `Continues`, `CallsOf` and `Broken` are the reference: what
a file means, line by line, without pointers and buffers, and which of its lines mean nothing.
Only the name that an indented line continues depends on the lines above; `KeptNames` finds it
by recursion over the lines.

### HidMitm: the process

`pc` says where each thread is, `mutex` who owns each mutex. A step is one access to
shared memory or one mutex operation. The actions are named for the functions:

| code | actions |
|---|---|
| `main`, `copyThreadInitialize` | `Load*("main")`, `StartCopy`, `StartNet` |
| `loadConfig` | `LoadOpen` (lock, clear, open), `LoadLine` (one handler call), `LoadWild` (the overrun faults), `LoadDone` |
| `CreateAppletResource` | `Create` (`customHidSetup`), `CreateFatal`, lock, `AddShmem` |
| destructor | `Close`, lock, `DelShmem`, lock, `CustomHidExit` or `CustomHidExitAbort` |
| `ReloadConfig`, `ClearConfig` | `ReloadConfig` then `Load*`; `ClearConfig`, lock, `Clear` |
| `copy_thread` | lock, `CopyLockPkg` (iterator at begin), per game `CopyIn`, `CopyApply`, `RebindSkip`/`RebindLock`/`Rebind` per gamepad, `RebindEnd`, `CopyOut` or `CopyOutAbort`; `CopyUnlockPkg`, `CopyUnlockShmem` |
| `net_thread` | `NetPoll`, `NetAcquire`, `NetStore` or `NetVoid` then `NetWake`; `NetExit` when `setup_socket` ends the process |

Abstractions: copying one page is one step (a torn copy is not modelled). The real
pages belong to another process, are only read, and may change at any time, so they
are not state: every `CopyIn` finds any image of `RealImages`. `poll_udp_input`
is represented by what it promises (any packet with the magic number, or a
failure); that promise is `OnlyPackets` of `UdpInput`. `halted` records that the
process is gone: "fatal" (`fatalThrow`, `exit`) or "abort" (a data abort). A page
whose `shmemCreate` or `shmemMap` failed is "broken": the address that is left in the
uninitialised structure is taken for one that faults when the copy thread writes through
it, and unmapping it either does nothing or faults; that it is by chance another page's
valid address is left out. The hash table's iteration order is any order. Locals of a thread are reset where
they go out of use, which only removes states that differ in dead variables.

### HidFeed, HidMitmFeed: what the process promises

`HidFeed` is the abstract specification: games come and go between rounds, and in a
round every game that is there is shown, once, one complete rendering of the pads; all
games of a round that are shown a packet are shown the same one. It has no
thread, mutex, scratch image or configuration. `HidMitmFeed` maps `HidMitm` to it: a
game is an id in `sharedmems`, a round is a pass while it holds `pkgMutex` (`toServe`
is what the iterator has not reached), `view` is the newest entries of the shadow page
registered for the id, and `packet` is `cur_fakegamepad_state` or none when its magic
is 0. `RenderingsOf` says which views present real pads with a packet: each pad that
`rebind_keys` visits under *some* complete configuration, since a reload may come
between two of them. Of the steps of `HidMitm`, `CopyOut` maps to `Serve`, `AddShmem` to `Join`,
`DelShmem` to `Leave`, `CopyLockPkg` to `StartRound`, `NetStore` and `NetVoid` to
`NewPacket`, and all others must map to no step at all.

### UdpInput: poll_udp_input

One call is several steps, since the console around it (`Asleep`, `ChangeIP`,
`StartOrStopSending`, `Late`) may act between any two. Time is what the code asks
of it: more than 100 ms since `last_time`, and for the properties also why; after waking
up the clock is read again (`WakeIP`), so that what happened since the first look is
forgotten. A socket is "dead" or "broken" when `bind` failed unnoticed, the console slept, or
its address changed since: it will never receive. `recvfrom` waits for its 100 ms
on a dead socket and fails at once on a broken one. `calm` says that the disturbances are over; it is
what "once the sender keeps sending" means in the liveness properties, and while
it is TRUE the disturbing actions, failing `bind` and invalid packets do not occur.

### EndToEnd: from the player to the game

`EndToEnd` extends `UdpInput` with what is before and behind it: a companion that sends
the whole state of its gamepad again and again, a network that loses datagrams and, when
not `ordered`, repeats and swaps them, `net_thread` (`NetPoll`, `NetStore`, `NetSleep`), a pass of
the copy thread as one step (`CopyPass`; `HidMitm` is where it has its steps), and
`networking_enabled`, which a reload may change at any time. `Take` is `Receive` with the
packet at the head of the queue; `SetupSocket` throws away what the old socket had
received; `TimeOut` needs an empty queue in calm times. Packets are numbered by the
input they carry, which is how "older" is said; the program does not see the numbers.

### AndroidPad, AndroidSenders, IosPad, PyPad, GoPad, GoJoysticks: the companions

`AndroidPad` has a gamepad that reports its d-pad as a hat, as keys or as both, and
its L2 as a trigger with or without a key code; `ButtonOf` is the bit of a key code, one
for SELECT and BACK; events are queued and handled
write by write (`work` is what is left of the handler), so that the sender thread,
which takes no lock across a handler, may look between any two. `Packet` is what
`build_pkg` would return in a state. `AndroidSenders` is where those packets go: Android
replaces the activity (its sender thread goes on, with the address and the keys it had)
or kills the process, between the assignment of `address` and the `commit` too; a
lookup of a host's name may fail at any time, and a sender without an address or a
socket takes the process with it. `IosPad` has everything on one thread; what
matters is which timers still fire and whom they send to, because `self.timer` is
a weak reference, and which bits a chord sends. `scheduled`, `attached` and
`chosen` are the run loop, the phone and the user, as far as the code depends on
them. A client is an object with a socket that only `close` gives back: `opened` are the
sockets the system has open, `fd` is the one the client knows.

`PyPad` has the poller's assignments (`CheckKeys`, `SetDx`) and the sender's reads
(`ReadKeyout`, then `SendTo` reads the stick) as single steps, since nothing locks
the globals; gamepads report d-pad and trigger by axis, by key or by both, in either
order. `Tells` says what the globals tell of the gamepad: the two things it does not
promise, a side of the d-pad that was left for the other at once and a half-pressed
trigger, are what the code really leaves open. `SendFails` is a `sendto` that raises, which
ends the program. `GoPad` is the rendezvous of `run`
and `senderLoop` on an unbuffered channel (`offering` is "at `c <- pkg`"), with a
sender that may not be connected yet, and the inner loop that goes on after
`QuitEvent`. `GoJoysticks` is the other half of `run`: SDL names a new gamepad by its
place among those that are attached now and one that is gone by a number that is
never used again, both through a queue; `refs` is SDL's count of how often a joystick is
held open.

`Companions` puts them all in one state space: `program` says which companion the
user has started. Variables of the same name are shared, and those of the programs that do
not run stay as they are. It also states what each module asks of its
constants, and is for any kinds of gamepads; `MCCompanions` names those that TLC runs it with.

### Mutants

Each module holds, next to an action, variants of it with one plausible bug (a lock
not taken, an unlock forgotten, an off-by-one), each commented as a mutant. They are
not part of `Next`. With one in the place of the original TLC finds the
property that `PROJECT.json` pairs it with violated.

## 3. What TLC checks

| run | module, cfg | shows |
|---|---|---|
| control | `MCHidMitm`, `HidMitmControl` | mutexes, no deadlock, no use after unmap, table stable during a pass, causes of aborts |
| game | `MCHidMitm`, `HidMitmGame` | `ShadowIsRendering` for one game with all kinds of pages and files |
| shared | `MCHidMitm`, `HidMitmShared` | two games through one scratch image: one packet per pass; held pages are registered; `FeedsGames`: all of it implements `HidFeed` |
| live | `MCHidMitm`, `HidMitmLive` | games are rendered again and again, requests end, a silent pad disappears |
| additional | `MCHidMitm`, `HidMitmAdditional` | *violated*, see findings |
| udp | `UdpInput`, `UdpInput` | staleness bound, only packets, socket before receive, reconnecting and giving up |
| thirty | `UdpInput`, `UdpThirty` | *violated*, see findings |
| minus | `MCIosPad`, `IosMinus` | *violated*, see findings |
| companions | `MCCompanions`, `Companions` | packets at rest, during an event and in the end, for all companions; iOS: one timer, one socket, right destination, attached controller, plus; Android: right destination, and a mistyped name cannot end the app at every start; Go: the gamepad is heard |
| ini | `MCIniParse`, `IniParse` | handler calls against a reading of the file line by line; which name is kept; which line is reported as wrong |
| ini_success | `MCIniParse`, `IniSuccess` | *violated*, see findings |
| endtoend | `EndToEnd`, `EndToEnd` | a game never goes back, and comes to see what the player holds |

### Bounds, and why they are enough

* *Two games and two objects* (control, shared) give every pairwise interference:
  two entries in a pass, one closed while the other is walked, two objects under
  one id (`OnePerPid = FALSE`), an object reused. `control` uses one page
  image, one packet and three files, because its properties speak of control only.
* *One player slot, the handheld and the unknown controller.* The code treats
  players alike except for "first unused" and "all used"; one slot has both.
  `rebind_keys` covers player and handheld and leaves the unknown one, all present.
* *One layout, a ring of one or two entries.* Layouts are independent. With two
  entries the newest may be either, and the other must be kept (game).
* *Buttons A, B, Stick, SL, Stray; one stick.* Every class of bit `rebind_keys`
  distinguishes: rebindable, digital stick, side, and bits only the overrun yields.
  The files of `game` swap A and B, set the dead zone to 65537 (cut to 1, between
  the two stick magnitudes used), and rebind to the empty word.
* *live* has one game and one object and no symmetry, which would be unsound for
  liveness.
* *UdpInput*: `failed` above 10 matters only modulo 10, so 21 is counted as 11;
  `age` stops at `AgeCap = 33`, one more than the bound to be refuted. Two
  packets show which one is handed out; three addresses include the one that
  `curIP` starts with.
* *AndroidPad*: `MaxQueue = 1`. A handler runs to its end before the next event, so
  a longer queue only delays; a gamepad change that makes two events (a d-pad that
  is hat and keys) queues both. One coordinate, one hat axis, one trigger: the code
  handles the others with the same statements. Two key codes with a case, which
  set one bit as SELECT and BACK do; a key with a bit of its own is there too (the
  trigger's and the d-pad's).
* *AndroidSenders*: three activities in the life of a process, so that two are replaced; a
  second literal address besides the factory's, a host's name, a name that is wrong. The
  process dies and starts any number of times.
* *IosPad*: two controllers, two timers and two sockets (one more than the properties
  allow), two addresses, the chords of the README and of the code.
* *PyPad*, *GoPad*: one event waiting, as for Android; three kinds of gamepads in
  Python, among them the PS3's, for which hat and trigger axis are ignored; all positions
  of a hat.
* *GoJoysticks*: four gamepads in the life of the program, of which a place of the table
  can be reused, freed late and reused again. SDL's queue is not bounded but by them.
* *IniParse*: every file of up to four characters (with a byte order mark, both
  kinds of comments, brackets), and three lines out of 19 in any order with and without
  a mark. A buffer of 8 characters and names of 2 make that lines and names are
  cut, as 200 and 50 do.
* *EndToEnd*: two inputs, so that there is an older and a newer one; two datagrams under
  way, which can be lost, swapped and repeated; ten failed receives are all there, as
  `UdpInput` keeps the code's own numbers. One address: `UdpInput` has the others.

### Fairness

The safety runs assume none. `FairSpec` of `HidMitm` has weak fairness of the steps
of each thread: the threads that outrank the IPC thread sleep in every round, so
each thread that can run does. Taking a mutex has *strong* fairness: the Horizon
kernel's `ArbitrateUnlock` hands a released mutex to a waiter, and no mutex has
more than two users, so a waiting thread gets a mutex that is released
again and again. Nothing is assumed of clients, files, the real pages or the
network. `UdpInput` is weakly fair in the call, since `net_thread` loops; the
environment owes nothing, not even ever to calm down. `AndroidPad` is weakly fair
in the UI thread's handling of events, `PyPad` and `GoPad` in their two threads;
nothing makes the user act. `EndToEnd` is weakly fair in `net_thread`, in the passes of the
copy thread (both sleep in every round, none waits for the other for good, which the run
live shows) and in the companion's sending, while it runs; the network owes
nothing before it is calm, and then only that it loses nothing more.

### Findings

1. *additional.* README.md:35 promises "an additional pro-controller". With all eight
   players in use the loop of `apply_fake_gamepad` (`iapplet.cpp`:214) stops at the
   handheld's index and the packet replaces the handheld's input.
2. *thirty.* `udp_input.h`:18 speaks of 30 tries. The counter counts receives (one
   call in three), and the two calls in between compare it with `> 10` instead
   of `>= 10`: calls 31 and 32 after the last packet still return the cached one.
   `BoundedStaleness` shows that 32 is the exact bound.
3. *minus.* README.md:53 gives dpad-left for the chord of minus; the code
   (`ViewController.swift`:134) tests dpad-right, and leaves that bit set.

4. *ini_success.* `ini.h`:45 wants nonzero from a handler that succeeded and zero on
   error; `handler` (`iapplet.cpp`:111-116) returns 0 after storing a rebinding and -1
   otherwise. `ini_parse`, which "Returns 0 on success" (`ini.h`:47), gives the line of the
   first good rebinding. `loadConfig` looks for a negative result only, so nothing
   comes of it.

An observation that contradicts no text: the "Wakeup detection" (`udp_input.c`:68-77)
also fires after every receive that timed out, because the timeout alone takes the
100 ms. The mutant of `Reconnects` shows that reconnecting depends on this: without
it a socket whose `bind` failed is never replaced. It depends on the timeout, too: if the
system fails the receives of a useless socket at once, three calls take about 30 ms, nothing
looks like a wakeup, and `poll_udp_input` reports failure until something else is slow or the
address changes; `Reconnects` says so. On Android minus is the last of SELECT and BACK that
was pressed or released (`MainActivity.java`:157): with both held, releasing one clears it.
And `AttachedIsHeard` holds only while no
two gamepads are attached at once: with two, `input_pc.go`:242 may close the joystick that
stays.

## 4. What is proved

For every number of players, layouts, entries, buttons, games, objects, every set of
files, images and packets, from the `ASSUME`s of the modules alone:

| module | theorem | property |
|---|---|---|
| `HidMitmProofs` | `TypeCorrect` | `Spec => []TypeOK` |
| | `MutexesWellUsed` | `Spec => []MutexDiscipline` |
| | `DeadlockFree` | `Spec => []NoDeadlock` |
| | `PagesStayMapped` | `Spec => []NoUseAfterUnmap` |
| | `HeldIsRegistered` | `Spec => []OpenIsRegistered` |
| | `PassIsStable` | `Spec => StableDuringPass` |
| | `AbortsExplained` | `Spec => []AbortCause` |
| `RenderingProofs` | `PagesAreRenderings` | `Spec => []ShadowIsRendering` |
| | `GamesShareThePacket` | `Spec => []OnePacketPerPass` |
| | `ImplementsFeed` | `Spec => FeedsGames`, that is, `HidMitm` implements `HidFeed` |
| `UdpInputProofs` | `TypeCorrect`, `StalenessBounded`, `HandsOutPackets`, `SocketFirst` | the four invariants of the run udp |
| `EndToEndProofs` | `E2ETypeCorrect`, `NeverGoesBack` | the two invariants of the run endtoend |
| `CompanionProofs` | `CompanionsTypeCorrect`, `RestIsTold`, `NothingFlickers`, `AttachedStaysHeard`, `SendsToTheTold`, `MistypedNeverEnds` | the six invariants of the run companions that are not about iOS |
| `IosPadProofs` | `TypeCorrect`, `SendsToChosen`, `SocketsClosed`, `ReadsAttached`, `PlusIsSent` | the five iOS invariants of the run companions |
| `IniParseProofs` | `TypeCorrect`, `KeepsTheNearest`, `FilesAreRead`, `FirstErrorReported` | the four invariants of the run ini |
| `PadImageProofs` | `FakeSlotFound`, `CopyHidesDest`, `ApplyShowsPacket`, `RebindShowsRebound` | lemmas on the pure functions |
| | `SampleConfigChangesNothing` | the sample configuration in the source rebinds nothing, whatever a game would see without it |

The arguments:

* **TypeInv** is `TypeOK` with the position of the gamepad index: `Rebind` rewrites
  `pads[slot]` and counts on, and only the step that took the mutex before it looked at
  the index. Its preservation rests on lemmas about the types of `ShmemCopy`,
  `ApplyFakeGamepad`, `RebindKeys` and a line's effect.
* **LockInv** is `MutexDiscipline` and that the threads which are not started own
  nothing and that only boot has a thread missing. `MutexDiscipline` alone is
  not inductive: `AfterLoad` decides by whether the copy thread exists. Given it,
  `NoDeadlock` needs no induction: a group of waiting threads would need the net or
  the IPC thread to want a mutex while it owns one, and neither does.
* **PageInv** adds to `NoUseAfterUnmap` where an object is on its way (`ObjInv`: the
  object between `customHidSetup` and `add_shmem` is mapped and not registered, the
  one between `del_shmem` and `customHidExit` is no longer registered under its
  id), that no other object has its id when `OnePerPid` holds (`OwnPids`), and
  `OpenIsRegistered`. The mutexes enter here: a change of the table needs
  `shmem_mutex`, which the copy thread owns throughout a pass by `MutexDiscipline`.
* **UdpInput**: while `failed` is at most 10, `age` is exactly three calls per failure
  plus `counter` (`Counted`), and `cached_msg` is a packet (`Cached`). `SocketFirst`
  needs that without a socket the clock still says more than 100 ms, or the call is
  on its way to `setup_socket` (`SocketInv`).
* **IosPad**: `OnlyToChosen` counts timers; what is inductive is that the scheduled
  timers are the one `self.timer` names or none, so that whatever is scheduled can be
  invalidated. `OneSocket` is inductive with the types.
* **PadImageProofs**: after `shmem_copy` a game sees exactly the source's pads
  whatever the destination held; the fake pad goes to the first free slot and
  changes no other pad; rebinding one controller changes what is seen of that
  controller only. These are the pure steps of `ShadowIsRendering`. `LeastOf` and `UpTo` are
  the inductions over a range of numbers that later proofs need.
* **RenderInv** is three layers on top of `TypeInv`, `LockInv` and `PageInv`.
  `ConfigInv`: while a thread is in the middle of `config.ini`, `rebind_config` is one of
  `Readings(file)[n]` for the `n` lines it has read, and otherwise it is complete; there is
  one reader at a time because reading holds `configMutex`. `ScratchInv`: each gamepad
  that `rebind_keys` has visited shows a rendering, each other one what it was after
  `apply_fake_gamepad`, of one real page and with the packet of now or none, and this from
  `CopyApply` to `CopyOut` only. Between two games nothing is said of the scratch image, which is
  the point: the first copy hides what it held. `GameInv`: the two properties, and that a
  page about to be registered is still empty. `cur_fakegamepad_state` does not change
  during a pass, since the pass holds `pkgMutex`.
* **ImplementsFeed** takes one step of `HidMitm` at a time: a table lemma for
  `AddShmem` and `DelShmem`, one for taking and one for giving back `pkgMutex`, one for
  `CopyOut`, one for `NetStore` and `NetVoid`, and `StepKinds` for all others, which
  leave the mapped variables as they are. `RenderInv` supplies that what `CopyOut` writes is a
  complete rendering.
* **E2EInv**: `NoGoingBack` speaks of the last stage only. `Stages` orders all of them: what
  the game has seen, `cur_fakegamepad_state`, `cached_msg`, the datagrams under way one after the
  other, and what the player holds. `Answered` covers an answer from the cache.
* **CompanionInv** is the invariant of the program that runs; `OneProgram` shows that a step of
  the whole is one of that program. What is waiting in a queue must be accounted for, and
  of all the events about a key only the last counts: `LastGood` says that the last one is right,
  `Without` that there is none, and a handful of lemmas say what handling one,
  queueing one and replacing the list of assignments does to both.
  * *Go* (`GoInv`): the last event about a button, the trigger or the hat tells what is
    held; without one, `keys` does.
  * *Python* (`PyInv`): the same for events and then for the poller's assignments
    that are left, with `MayBeOn` and `MayBeOff` for what the code leaves open.
  * *Android* (`AndroidInv`): a motion event with the hat in the middle releases the d-pad
    or not, depending on `dpad_is_axis`, which an earlier event in the queue may yet change.
    So only some events are *sure* to decide a key, and those after the last sure one must all
    be right. They are counted by the button they set, since SELECT and BACK are one: what is
    right of it is the last key `told`, and `OwnButtons` says that only keys with a case can
    share. `DpadTold` relates `dpad_is_axis` to the way in which the gamepad
    tells its d-pad. `NoFlicker` follows from `SetOnce` and `NotYetSet`.
  * *Joysticks* (`OneGamepad`): while the attached joystick is not open, the last event
    waiting is its own, which therefore comes after every removal.
  * *Senders*: what is stored was found once; what the user was told is stored or just being
    stored; every sender was started with a stored name.

  The proof of `AndroidTells` found an assumption that was missing in `AndroidPad`: no button may
  be called "stick", the name under which `told` counts the stick.

* **IniInv** says where the parser is: `Where`, that what is left to read starts behind line
  number `lineno` of the file; `KeptNameIsNearest`; `LinesAreRead`, that the kept name and the
  calls so far are those of the lines above; and `ErrorIsFirst`, that `error` is 0 only as long as no line above
  was broken. It speaks of files whose lines fit the buffer, which is what the
  properties do. The proof has three floors.
  * *Parts.* Every piece of a line, in the code a pointer into the buffer and a terminator
    written into it, is `SubSeq(text, i, e)`; lemmas say where `rstrip`, `lskip`,
    the search for a separator and the cut at an inline comment leave the ends of such a part
    (`RstripIs`, `LskipIs`, `FindPart`, `UncommentedPart`). `SameStrip` is the key: two parts that
    differ by white space at their ends are the same word. So `Line`, which ends in the newline
    that `fgets` keeps, and the reference's line, which does not, come to the
    same heading, assignment or neither (`CommentRead`, `SectionRead`, `PairRead`).
  * *Lines.* The reference counts starts of lines, as the cardinality of a set of positions;
    `NextStart` and `LastStart` say how the count goes on behind a newline. With them `Pass`
    finds what `Fgets` returns among the positions of the text and `LineRead` finds the line of
    that number there.
  * *Passes.* `PassKinds` says in the reference's words what a pass does: it leaves the name
    `KeptAfter` the line and adds the line's `CallsOf`; then one lemma for each
    conjunct (`NearestStep`, `WordsStep`, `ErrorStep`). `FilesRead` speaks of two recursive
    functions, `KeptNames` and the one behind `FlattenSeq`: `KeptDefined` and `FlattenDefined`
    prove with `UpTo`, an induction over a range of numbers, that
    they exist, and `NameStep` and `FlattenStep` what one line adds.

### Only model-checked

Liveness (`RegisteredIsRendered`, `RequestsEnd`, `PadDisappears`, `Reconnects`,
`Disconnects`, `Settles`, `FollowsPlayer`) depends on fairness and ENABLED, which the proof
system does not handle. They are the only properties of passing runs without a theorem. Of
files with lines longer than the buffer the theorems about `IniParse` say that the types
hold (the kept name fits, the calls are words) and no more, as the properties do.

## 5. What is not modelled, and why

* *Torn pages.* The game and the console's HID service access pages without a mutex
  while a copy runs. Who writes what when is the business of two programs that are not
  in the repository; a model would check assumptions about them and nothing of this code.
* *The leak* of the dummy object in `CreateAppletResource` and the heap's size.
* *Priorities and CPU time*: a pass that takes longer than its period.
* *Android*: which of SELECT and BACK a player means who holds both (`told` keeps the last of
  two keys of one button, as the code does); keys held while the activity is created; the
  wake lock; what a game sees while the sender of a replaced activity
  sends next to the new one's, which no text says. *iOS*, *Go*: the sticks, which are
  copied as they are.
* *Python and Go*: keys held when the program starts.
* *`ini_parse_string`* and the branches of `ini.c` that the switches of `ini.h` compile out;
  the section's name, which `handler` ignores.
* *`input_classic.py`*: polls a whole state and sends it; no state of its own.
* *Process start, services, project files, resources, SwiftSocket's TCP half, logger*: generated,
  vendored or pure I/O.

## 6. Plan

Done: all modules named above and the proofs of section 4. What remains:

1. Two companions at once, or the old and the new sender of an Android activity that
   was replaced, in `EndToEnd`.
2. A line that does not fit the buffer: which pieces `ini_parse` takes for lines, and how far
   the numbers it reports are then from those of the file.
