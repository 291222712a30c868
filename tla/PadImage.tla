------------------------------ MODULE PadImage ------------------------------
(***************************************************************************)
(* The HID shared memory page as hid_mitm reads and writes it, and the     *)
(* three functions that transform it: shmem_copy, apply_fake_gamepad and   *)
(* rebind_keys of hid_mitm_iappletresource.cpp.  Everything here is a pure *)
(* operator: the functions' only effect is on the image they are given.    *)
(*                                                                         *)
(* A controller is "used" when its misc.deviceType is not 0.  Touch        *)
(* screen, mouse and keyboard are always copied together, so they are one  *)
(* opaque value.  A 64-bit button word is the set of its 1 bits, and a     *)
(* stick is its distance from the centre, the only thing rebind_keys       *)
(* looks at: two numbers dx, dy there, one magnitude here.                 *)
(***************************************************************************)
EXTENDS Integers, Sequences

CONSTANTS
    NumPlayers,   \* CONTROLLER_PLAYER_1 .. CONTROLLER_PLAYER_8: 8 in the code
    Layouts,      \* the layouts 0 .. LAYOUT_DEFAULT of a controller: 7
    RingSize,     \* entries kept per layout: 17
    Buttons,      \* the bits of a button word
    Sticks,       \* JOYSTICK_NUM_STICKS: 2
    StickKeys,    \* the digital bits of each stick: 16 .. 19 and 20 .. 23
    SideKeys,     \* SL and SR: 24 .. 27
    Screens,      \* the values of touchscreen, mouse and keyboard together
    ZeroScreens   \* their value in memory that nobody has written

ASSUME PadAssumption ==
    /\ NumPlayers \in Nat
    /\ RingSize \in Nat \ {0}
    /\ Sticks # {} /\ Layouts # {} /\ ZeroScreens \in Screens
    /\ SideKeys \subseteq Buttons
    /\ StickKeys \in [Sticks -> SUBSET Buttons]
    /\ \A s, t \in Sticks : s # t => StickKeys[s] \cap StickKeys[t] = {}
    /\ \A s \in Sticks : StickKeys[s] \cap SideKeys = {}

Players  == 0 .. NumPlayers - 1
Handheld == NumPlayers              \* CONTROLLER_HANDHELD
Slots    == 0 .. NumPlayers + 1     \* and CONTROLLER_UNKNOWN
Ring     == 0 .. RingSize - 1

Entry      == [connected : BOOLEAN, buttons : SUBSET Buttons, sticks : [Sticks -> Nat]]
Layout     == [latest : Ring, entries : [Ring -> Entry]]
Controller == [used : BOOLEAN, layouts : [Layouts -> Layout]]
Image      == [other : Screens, pads : [Slots -> Controller]]

\* struct input_msg: magic is TRUE when the word equals INPUT_MSG_MAGIC.
Message == [magic : BOOLEAN, keys : SUBSET Buttons, sticks : [Sticks -> Nat]]

\* Freshly created shared memory.
ZeroEntry == [connected |-> FALSE, buttons |-> {}, sticks |-> [s \in Sticks |-> 0]]
ZeroPad   == [used    |-> FALSE,
              layouts |-> [l \in Layouts |->
                             [latest |-> 0, entries |-> [e \in Ring |-> ZeroEntry]]]]
ZeroImage == [other |-> ZeroScreens, pads |-> [i \in Slots |-> ZeroPad]]

Latest(layout) == layout.entries[layout.latest]

SetLatest(layout, entry) == [layout EXCEPT !.entries[layout.latest] = entry]

-----------------------------------------------------------------------------
\* Mutant of ShmemCopy: a controller that the source has no more stays.
ShmemCopyUsed(source, dest) ==
    [other |-> source.other,
     pads  |-> [i \in Slots |-> IF source.pads[i].used THEN source.pads[i] ELSE dest.pads[i]]]

(***************************************************************************)
(* shmem_copy(source, dest): a controller is copied when either side uses  *)
(* it; a controller that neither uses keeps whatever dest held.            *)
(***************************************************************************)
ShmemCopy(source, dest) ==
    [other |-> source.other,
     pads  |-> [i \in Slots |-> IF dest.pads[i].used \/ source.pads[i].used
                                THEN source.pads[i] ELSE dest.pads[i]]]

(***************************************************************************)
(* apply_fake_gamepad(msg): the pad goes into the first unused player slot *)
(* and, when all of them are used, the loop ends one past PLAYER_8, which  *)
(* is the handheld's slot.  Only the newest entry of each layout is        *)
(* written; where the newest entry is, and the older ones, stay as found.  *)
(***************************************************************************)
FakeSlot(img) ==
    CHOOSE g \in Players \cup {Handheld} :
        /\ g = Handheld \/ ~img.pads[g].used
        /\ \A i \in Players : i < g => img.pads[i].used

FakeEntry(msg) == [connected |-> TRUE, buttons |-> msg.keys, sticks |-> msg.sticks]

ApplyFakeGamepad(img, msg) ==
    IF ~msg.magic THEN img
    ELSE [img EXCEPT !.pads[FakeSlot(img)] =
            [used    |-> TRUE,
             layouts |-> [l \in Layouts |-> SetLatest(@.layouts[l], FakeEntry(msg))]]]

(***************************************************************************)
(* rebind_keys: cfg is rebind_config, the pairs <<KEY, VALUE>>, and dz is  *)
(* stick_deadzone.  A stick inside the dead zone is centred and loses its  *)
(* digital bits, those a rebinding gave it too; otherwise its bits pass.   *)
(* Without any pair nothing is touched, the dead zone included.            *)
(***************************************************************************)
Centred(entry, dz) == {s \in Sticks : entry.sticks[s] * entry.sticks[s] <= dz * dz}

Mapped(buttons, cfg) == {cfg[k][2] : k \in {j \in DOMAIN cfg : cfg[j][1] \in buttons}}

RebindEntry(entry, cfg, dz) ==
    IF ~entry.connected \/ cfg = <<>> THEN entry
    ELSE [connected |-> TRUE,
          buttons   |-> (Mapped(entry.buttons, cfg)
                           \ UNION {StickKeys[s] : s \in Centred(entry, dz)})
                        \cup (entry.buttons \cap
                                UNION {StickKeys[s] : s \in Sticks \ Centred(entry, dz)})
                        \cup (entry.buttons \cap SideKeys),
          sticks    |-> [s \in Sticks |-> IF s \in Centred(entry, dz)
                                          THEN 0 ELSE entry.sticks[s]]]

RebindLayout(layout, cfg, dz) == SetLatest(layout, RebindEntry(Latest(layout), cfg, dz))

RebindKeys(img, i, cfg, dz) ==
    IF ~img.pads[i].used THEN img
    ELSE [img EXCEPT !.pads[i].layouts =
            [l \in Layouts |-> RebindLayout(@[l], cfg, dz)]]

-----------------------------------------------------------------------------
(***************************************************************************)
(* What a game sees that polls the newest entry: the pads in use and the   *)
(* newest entry of each of their layouts.  Raw and Rebound say what one    *)
(* pass of the copy thread is meant to present: the real pads, the network *)
(* pad in the first free slot if there is a message, and each entry        *)
(* rewritten by a configuration.  They do not mention the scratch image,   *)
(* which every game shares.                                                *)
(***************************************************************************)
NoPad == [l \in {} |-> l]

Seen(img, i) == IF img.pads[i].used
                THEN [l \in Layouts |-> Latest(img.pads[i].layouts[l])]
                ELSE NoPad

Rebound(pad, cfg, dz) == [l \in DOMAIN pad |-> RebindEntry(pad[l], cfg, dz)]

Raw(real, msg, i) == IF msg.magic /\ i = FakeSlot(real)
                     THEN [l \in Layouts |-> FakeEntry(msg)]
                     ELSE Seen(real, i)
=============================================================================
