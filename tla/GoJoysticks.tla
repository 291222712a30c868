----------------------------- MODULE GoJoysticks -----------------------------
(***************************************************************************)
(* The table of joysticks of the Go companion, input_pc.go.  SDL tells of  *)
(* a new gamepad by its device index, its place in the list of those that  *)
(* are attached now, and of one that is gone by its instance id, which is  *)
(* never used again.  run() fills the table under the first and empties it *)
(* under the second, and it may be late: SDL's events are queued.          *)
(***************************************************************************)
EXTENDS Naturals, Sequences, SequencesExt

CONSTANTS
    Instances,    \* bound: SDL counts the gamepads it ever saw, so many
    None          \* no joystick: nil

\* What the constants must be.
JoysticksAssumption == Instances \in Nat /\ None \notin Nat

VARIABLES
    attached,     \* instance ids by device index (from 0 in SDL, from 1 here)
    born,         \* gamepads ever seen
    crowded,      \* two were attached at once some time
    queue,        \* SDL's events
    joysticks,    \* index or id -> the joystick in the table
    refs          \* how often SDL holds a joystick open: it reports events while > 0

vars == <<attached, born, crowded, queue, joysticks, refs>>

Ids   == 0 .. Instances - 1
Event == [kind : {"added", "removed"}, which : Ids]

(***************************************************************************)
(* The type invariant.                                                     *)
(***************************************************************************)
TypeOK ==
    /\ attached \in Seq(Ids) /\ born \in 0 .. Instances /\ crowded \in BOOLEAN
    /\ queue \in Seq(Event)
    /\ joysticks \in [Ids -> Ids \cup {None}] /\ refs \in [Ids -> Nat]

Init ==
    /\ attached = <<>> /\ born = 0 /\ crowded = FALSE /\ queue = <<>>
    /\ joysticks = [w \in Ids |-> None] /\ refs = [i \in Ids |-> 0]

Attach ==
    /\ born < Instances
    /\ attached' = Append(attached, born) /\ born' = born + 1
    /\ crowded' = (crowded \/ attached # <<>>)
    /\ queue' = Append(queue, [kind |-> "added", which |-> Len(attached)])
    /\ UNCHANGED <<joysticks, refs>>

Detach(i) ==
    /\ i \in DOMAIN attached
    /\ attached' = RemoveAt(attached, i)
    /\ queue' = Append(queue, [kind |-> "removed", which |-> attached[i]])
    /\ UNCHANGED <<born, crowded, joysticks, refs>>

\* Mutant of Opened: a place of the table that is in use is kept.
OpenedOnce(which) ==
    IF joysticks[which] # None THEN joysticks[which]
    ELSE IF which < Len(attached) THEN attached[which + 1] ELSE None

\* sdl.JoystickOpen: what has this index by now.
Opened(which) == IF which < Len(attached) THEN attached[which + 1] ELSE None

JoyDeviceAdded ==
    LET which == Head(queue).which
    IN  /\ queue # <<>> /\ Head(queue).kind = "added"
        /\ queue' = Tail(queue)
        /\ joysticks' = [joysticks EXCEPT ![which] = Opened(which)]
        /\ refs' = [i \in Ids |-> IF i = Opened(which) THEN refs[i] + 1 ELSE refs[i]]
        /\ UNCHANGED <<attached, born, crowded>>

\* The joystick is closed and stays in the table; SDL ignores one that is freed.
JoyDeviceRemoved ==
    /\ queue # <<>> /\ Head(queue).kind = "removed"
    /\ queue' = Tail(queue)
    /\ refs' = [i \in Ids |-> IF i = joysticks[Head(queue).which] /\ refs[i] > 0
                              THEN refs[i] - 1 ELSE refs[i]]
    /\ UNCHANGED <<attached, born, crowded, joysticks>>

Next == \/ Attach \/ \E i \in 1 .. Instances : Detach(i)
        \/ JoyDeviceAdded \/ JoyDeviceRemoved

-----------------------------------------------------------------------------
(***************************************************************************)
(* While no two gamepads are attached at once, the one that is attached is *)
(* heard once SDL's events are handled, although the table is filled under *)
(* one number and emptied under another, and although the index of an      *)
(* event may belong to a later gamepad when run() gets there.  (With two   *)
(* gamepads the removal of one may close the other.)                       *)
(***************************************************************************)
AttachedIsHeard == ~crowded /\ queue = <<>> => \A i \in ToSet(attached) : refs[i] > 0
=============================================================================
