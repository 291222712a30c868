--------------------------- MODULE PadImageProofs ---------------------------
(***************************************************************************)
(* Lemmas about shmem_copy, apply_fake_gamepad and rebind_keys, for every  *)
(* number of players, layouts, ring entries, sticks and buttons: what the  *)
(* three preserve, and what a game sees of a page they were applied to.    *)
(***************************************************************************)
EXTENDS PadImage, FiniteSetTheorems, TLAPS

\* Memory that nobody has written is an image.
LEMMA ZeroImageType == ZeroImage \in Image
<1>1. 0 \in Ring BY PadAssumption DEF Ring
<1>2. ZeroEntry \in Entry BY DEF ZeroEntry, Entry
<1>3. ZeroPad \in Controller BY <1>1, <1>2 DEF ZeroPad, Controller, Layout
<1> QED BY <1>3, PadAssumption DEF ZeroImage, Image

\* shmem_copy makes an image of two images.
LEMMA ShmemCopyType ==
    ASSUME NEW source \in Image, NEW dest \in Image
    PROVE  ShmemCopy(source, dest) \in Image
BY DEF ShmemCopy, Image

\* Writing the newest entry of a layout.
LEMMA SetLatestType ==
    ASSUME NEW layout \in Layout, NEW entry \in Entry
    PROVE  /\ SetLatest(layout, entry) \in Layout
           /\ SetLatest(layout, entry).latest = layout.latest
           /\ Latest(SetLatest(layout, entry)) = entry
BY DEF SetLatest, Layout, Latest

\* The newest entry of a layout is an entry.
LEMMA LatestType == ASSUME NEW layout \in Layout PROVE Latest(layout) \in Entry
BY DEF Latest, Layout

\* apply_fake_gamepad makes an image of an image.
LEMMA ApplyFakeGamepadType ==
    ASSUME NEW img \in Image, NEW msg \in Message
    PROVE  ApplyFakeGamepad(img, msg) \in Image
<1> DEFINE g == FakeSlot(img)
           pad == [used    |-> TRUE,
                   layouts |-> [l \in Layouts |->
                                  SetLatest(img.pads[g].layouts[l], FakeEntry(msg))]]
<1>1. FakeEntry(msg) \in Entry BY DEF FakeEntry, Entry, Message
<1>2. ASSUME g \in Slots PROVE pad \in Controller
  <2>1. \A l \in Layouts : img.pads[g].layouts[l] \in Layout
    BY <1>2 DEF Image, Controller
  <2> QED BY <2>1, <1>1, SetLatestType DEF Controller
<1>3. CASE msg.magic
  <2> HIDE DEF g, pad
  <2>1. [img EXCEPT !.pads[g] = pad] \in Image BY <1>2 DEF Image
  <2>2. ApplyFakeGamepad(img, msg) = [img EXCEPT !.pads[g] = pad]
    BY <1>3 DEF ApplyFakeGamepad, g, pad
  <2> QED BY <2>1, <2>2
<1>4. CASE ~msg.magic BY <1>4 DEF ApplyFakeGamepad
<1> QED BY <1>3, <1>4 DEF Message

\* A configuration that maps buttons to buttons maps entries to entries.
LEMMA RebindEntryType ==
    ASSUME NEW entry \in Entry, NEW cfg \in Seq(Buttons \X Buttons), NEW dz \in Int
    PROVE  RebindEntry(entry, cfg, dz) \in Entry
<1>1. Mapped(entry.buttons, cfg) \subseteq Buttons BY DEF Mapped
<1>2. entry.buttons \subseteq Buttons BY DEF Entry
<1>3. [s \in Sticks |-> IF s \in Centred(entry, dz) THEN 0 ELSE entry.sticks[s]]
        \in [Sticks -> Nat]
  BY DEF Entry
<1> QED BY <1>1, <1>2, <1>3 DEF RebindEntry, Entry

\* rebind_keys makes an image of an image.
LEMMA RebindKeysType ==
    ASSUME NEW img \in Image, NEW i \in Slots,
           NEW cfg \in Seq(Buttons \X Buttons), NEW dz \in Int
    PROVE  RebindKeys(img, i, cfg, dz) \in Image
<1> DEFINE ls == [l \in Layouts |-> RebindLayout(img.pads[i].layouts[l], cfg, dz)]
<1>1. ASSUME NEW l \in Layouts
      PROVE  RebindLayout(img.pads[i].layouts[l], cfg, dz) \in Layout
  <2>1. img.pads[i].layouts[l] \in Layout BY DEF Image, Controller
  <2>2. Latest(img.pads[i].layouts[l]) \in Entry BY <2>1, LatestType
  <2>3. RebindEntry(Latest(img.pads[i].layouts[l]), cfg, dz) \in Entry
    BY <2>2, RebindEntryType
  <2> QED BY <2>1, <2>3, SetLatestType DEF RebindLayout
<1>2. ls \in [Layouts -> Layout] BY <1>1
<1> HIDE DEF ls
<1>3. [img EXCEPT !.pads[i].layouts = ls] \in Image BY <1>2 DEF Image, Controller
<1>4. RebindKeys(img, i, cfg, dz) = IF ~img.pads[i].used THEN img
                                    ELSE [img EXCEPT !.pads[i].layouts = ls]
  BY DEF RebindKeys, ls
<1> QED BY <1>3, <1>4

-----------------------------------------------------------------------------
(* Induction over a range of numbers, from the finite sets it consists of. *)

\* A set of numbers up to n has a least one.
LEMMA LeastOf ==
    ASSUME NEW n \in Nat, NEW T, T \subseteq 0 .. n, T # {}
    PROVE  \E m \in T : \A k \in T : m <= k
<1> DEFINE Below(g) == 0 .. g - 1
           R == StrictSubsetOrdering(0 .. n)
           belows == {Below(g) : g \in T}
<1>1. IsFiniteSet(0 .. n) BY FS_Interval
<1>2. belows \subseteq SUBSET (0 .. n) OBVIOUS
<1>3. IsWellFoundedOn(R, SUBSET (0 .. n))
  BY <1>1, FS_FiniteSubsetsOfFinite, FS_StrictSubsetOrderingWellFounded
<1>4. belows # {} OBVIOUS
<1>5. PICK b \in belows : \A c \in belows : ~(<<c, b>> \in R)
  <2> HIDE DEF R, belows
  <2> QED BY <1>2, <1>3, <1>4, WFMin, Zenon
<1>6. PICK g \in T : b = Below(g) BY <1>5
<1>7. ASSUME NEW i \in T, i < g PROVE FALSE
  <2>1. i \in Int /\ g \in Int /\ 0 <= i OBVIOUS
  <2>2. Below(i) \subseteq Below(g) /\ i \in Below(g) /\ i \notin Below(i)
    BY <2>1, <1>7
  <2>3. Below(i) # Below(g) BY <2>2
  <2>4. <<Below(i), Below(g)>> \in R
    BY <1>2, <2>2, <2>3 DEF StrictSubsetOrdering
  <2> QED BY <1>5, <1>6, <2>4
<1> QED BY <1>6, <1>7

\* What holds of 0, and of every successor up to n, holds of all up to n.
LEMMA UpTo ==
    ASSUME NEW n \in Nat, NEW S, 0 \in S,
           \A m \in S : m < n => m + 1 \in S
    PROVE  0 .. n \subseteq S
<1> DEFINE T == (0 .. n) \ S
<1> SUFFICES ASSUME T # {} PROVE FALSE OBVIOUS
<1>1. PICK m \in T : \A k \in T : m <= k
  <2> HIDE DEF T
  <2>1. T \subseteq 0 .. n BY DEF T
  <2> QED BY <2>1, LeastOf
<1>2. m # 0 OBVIOUS
<1>3. m - 1 \in 0 .. n /\ m - 1 \notin T BY <1>1, <1>2
<1>4. m - 1 \in S /\ m - 1 < n BY <1>3
<1> QED BY <1>4

-----------------------------------------------------------------------------
(***************************************************************************)
(* There is a slot for the network pad: a player's that is not in use and  *)
(* has none before it, or else the handheld's.                             *)
(***************************************************************************)
THEOREM FakeSlotFound ==
    ASSUME NEW img \in Image
    PROVE  /\ FakeSlot(img) \in Players \cup {Handheld}
           /\ FakeSlot(img) = Handheld \/ ~img.pads[FakeSlot(img)].used
           /\ \A i \in Players : i < FakeSlot(img) => img.pads[i].used
<1> DEFINE free == {i \in Players : ~img.pads[i].used}
           ok(g) == /\ g = Handheld \/ ~img.pads[g].used
                    /\ \A i \in Players : i < g => img.pads[i].used
<1>1. \E g \in Players \cup {Handheld} : ok(g)
  <2>1. CASE free = {} BY <2>1
  <2>2. CASE free # {}
    <3>1. free \subseteq 0 .. NumPlayers BY PadAssumption DEF Players
    <3>2. PICK g \in free : \A i \in free : g <= i
      <4> HIDE DEF free
      <4> QED BY <2>2, <3>1, PadAssumption, LeastOf
    <3> QED BY <3>2, PadAssumption DEF Players
  <2> QED BY <2>1, <2>2
<1>2. ok(FakeSlot(img)) /\ FakeSlot(img) \in Players \cup {Handheld}
  BY <1>1 DEF FakeSlot
<1> QED BY <1>2

\* Which slot it is depends on the pads in use and on nothing else.
LEMMA FakeSlotByUse ==
    ASSUME NEW a \in Image, NEW b \in Image,
           \A i \in Slots : a.pads[i].used = b.pads[i].used
    PROVE  FakeSlot(a) = FakeSlot(b)
<1>1. Players \cup {Handheld} \subseteq Slots
  BY PadAssumption DEF Players, Handheld, Slots
<1>2. \A g \in Players \cup {Handheld} :
        (/\ g = Handheld \/ ~a.pads[g].used
         /\ \A i \in Players : i < g => a.pads[i].used)
        <=> (/\ g = Handheld \/ ~b.pads[g].used
             /\ \A i \in Players : i < g => b.pads[i].used)
  BY <1>1
<1> QED BY <1>2 DEF FakeSlot

(***************************************************************************)
(* shmem_copy skips controllers that neither page uses, yet what a game    *)
(* sees of the copy is what it would see of the source: nothing that dest  *)
(* held, of this game or of another, shows through.                        *)
(***************************************************************************)
THEOREM CopyHidesDest ==
    ASSUME NEW source \in Image, NEW dest \in Image
    PROVE  /\ ShmemCopy(source, dest).other = source.other
           /\ \A i \in Slots :
                 /\ ShmemCopy(source, dest).pads[i].used = source.pads[i].used
                 /\ Seen(ShmemCopy(source, dest), i) = Seen(source, i)
<1>1. ASSUME NEW i \in Slots
      PROVE  /\ ShmemCopy(source, dest).pads[i].used = source.pads[i].used
             /\ Seen(ShmemCopy(source, dest), i) = Seen(source, i)
  <2>1. CASE dest.pads[i].used \/ source.pads[i].used
    <3>1. ShmemCopy(source, dest).pads[i] = source.pads[i] BY <2>1 DEF ShmemCopy
    <3> QED BY <3>1 DEF Seen
  <2>2. CASE ~dest.pads[i].used /\ ~source.pads[i].used
    <3>1. ShmemCopy(source, dest).pads[i] = dest.pads[i] BY <2>2 DEF ShmemCopy
    <3>2. ~ShmemCopy(source, dest).pads[i].used BY <2>2, <3>1
    <3>3. dest.pads[i].used = FALSE /\ source.pads[i].used = FALSE
      BY <2>2 DEF Image, Controller
    <3> QED BY <2>2, <3>1, <3>2, <3>3 DEF Seen
  <2> QED BY <2>1, <2>2
<1>2. ShmemCopy(source, dest).other = source.other BY DEF ShmemCopy
<1> QED BY <1>1, <1>2

(***************************************************************************)
(* After apply_fake_gamepad a game sees the network pad in its slot and    *)
(* every other slot as before, whatever older entries the slot held.       *)
(***************************************************************************)
THEOREM ApplyShowsPacket ==
    ASSUME NEW img \in Image, NEW msg \in Message, NEW i \in Slots
    PROVE  Seen(ApplyFakeGamepad(img, msg), i) = Raw(img, msg, i)
<1> DEFINE g == FakeSlot(img)
           pad == [used    |-> TRUE,
                   layouts |-> [l \in Layouts |->
                                  SetLatest(img.pads[g].layouts[l], FakeEntry(msg))]]
<1>1. CASE ~msg.magic BY <1>1 DEF ApplyFakeGamepad, Raw
<1>2. CASE msg.magic
  <2>1. ApplyFakeGamepad(img, msg) = [img EXCEPT !.pads[g] = pad]
    BY <1>2 DEF ApplyFakeGamepad
  <2>2. CASE i # g
    <3> HIDE DEF g, pad
    <3>1. ApplyFakeGamepad(img, msg).pads[i] = img.pads[i] BY <2>1, <2>2 DEF Image
    <3> QED BY <3>1, <2>2 DEF Seen, Raw, g
  <2>3. CASE i = g
    <3>1. ApplyFakeGamepad(img, msg).pads[i] = pad
      <4> HIDE DEF g, pad
      <4> QED BY <2>1, <2>3 DEF Image
    <3>2. \A l \in Layouts : img.pads[i].layouts[l] \in Layout BY DEF Image, Controller
    <3>3. FakeEntry(msg) \in Entry BY DEF FakeEntry, Entry, Message
    <3>4. \A l \in Layouts : Latest(pad.layouts[l]) = FakeEntry(msg)
      BY <2>3, <3>2, <3>3, SetLatestType
    <3>5. Seen(ApplyFakeGamepad(img, msg), i) = [l \in Layouts |-> Latest(pad.layouts[l])]
      BY <3>1 DEF Seen
    <3> QED BY <3>4, <3>5, <1>2, <2>3 DEF Raw
  <2> QED BY <2>2, <2>3
<1> QED BY <1>1, <1>2 DEF Message

(***************************************************************************)
(* rebind_keys(i) rewrites what a game sees of controller i, by the rule   *)
(* for one entry, and of no other; an unused controller stays unseen.      *)
(***************************************************************************)
THEOREM RebindShowsRebound ==
    ASSUME NEW img \in Image, NEW i \in Slots, NEW j \in Slots,
           NEW cfg \in Seq(Buttons \X Buttons), NEW dz \in Int
    PROVE  Seen(RebindKeys(img, i, cfg, dz), j) =
             IF j = i THEN Rebound(Seen(img, i), cfg, dz) ELSE Seen(img, j)
<1> DEFINE ls == [l \in Layouts |-> RebindLayout(img.pads[i].layouts[l], cfg, dz)]
<1>1. CASE ~img.pads[i].used
  BY <1>1 DEF RebindKeys, Seen, NoPad, Rebound
<1>2. CASE img.pads[i].used
  <2>1. RebindKeys(img, i, cfg, dz) = [img EXCEPT !.pads[i].layouts = ls]
    BY <1>2 DEF RebindKeys
  <2>2. CASE j # i
    <3> HIDE DEF ls
    <3>1. RebindKeys(img, i, cfg, dz).pads[j] = img.pads[j] BY <2>1, <2>2 DEF Image
    <3> QED BY <3>1, <2>2 DEF Seen
  <2>3. CASE j = i
    <3>1. /\ RebindKeys(img, i, cfg, dz).pads[j].used
          /\ RebindKeys(img, i, cfg, dz).pads[j].layouts = ls
      <4> HIDE DEF ls
      <4> QED BY <1>2, <2>1, <2>3 DEF Image, Controller
    <3>2. ASSUME NEW l \in Layouts
          PROVE  Latest(ls[l]) = RebindEntry(Latest(img.pads[i].layouts[l]), cfg, dz)
      <4>1. img.pads[i].layouts[l] \in Layout BY DEF Image, Controller
      <4>2. RebindEntry(Latest(img.pads[i].layouts[l]), cfg, dz) \in Entry
        BY <4>1, LatestType, RebindEntryType
      <4> QED BY <4>1, <4>2, SetLatestType DEF RebindLayout
    <3>3. Seen(RebindKeys(img, i, cfg, dz), j) = [l \in Layouts |-> Latest(ls[l])]
      <4> HIDE DEF ls
      <4> QED BY <3>1 DEF Seen
    <3>4. Rebound(Seen(img, i), cfg, dz)
            = [l \in Layouts |-> RebindEntry(Latest(img.pads[i].layouts[l]), cfg, dz)]
      BY <1>2 DEF Rebound, Seen
    <3> HIDE DEF ls
    <3> QED BY <3>2, <3>3, <3>4, <2>3
  <2> QED BY <2>2, <2>3
<1> QED BY <1>1, <1>2

\* The buttons that some entry of a configuration rebinds.
Rebindable(cfg) == {cfg[k][1] : k \in DOMAIN cfg}

StickBits == UNION {StickKeys[s] : s \in Sticks}

(***************************************************************************)
(* The sample config in hid_mitm_iappletresource.cpp binds every button to *)
(* itself and has "deadzone=0".  rebind_keys then changes nothing that a   *)
(* game sees: no rebinding is no different from one to the same button.    *)
(* The digital bits of a stick are only set while it is off the centre.    *)
(***************************************************************************)
THEOREM SampleConfigChangesNothing ==
    ASSUME NEW entry \in Entry, NEW cfg \in Seq(Buttons \X Buttons),
           \A k \in DOMAIN cfg : cfg[k][2] = cfg[k][1],
           entry.buttons \subseteq Rebindable(cfg) \cup StickBits \cup SideKeys,
           \A s \in Sticks : entry.sticks[s] = 0 => entry.buttons \cap StickKeys[s] = {}
    PROVE  RebindEntry(entry, cfg, 0) = entry
<1> DEFINE centred == Centred(entry, 0)
           off     == UNION {StickKeys[s] : s \in centred}
           on      == UNION {StickKeys[s] : s \in Sticks \ centred}
           rebound == (Mapped(entry.buttons, cfg) \ off) \cup (entry.buttons \cap on)
                        \cup (entry.buttons \cap SideKeys)
<1>1. /\ entry.connected \in BOOLEAN /\ entry.buttons \subseteq Buttons
      /\ entry.sticks \in [Sticks -> Nat]
      /\ entry = [connected |-> entry.connected, buttons |-> entry.buttons,
                  sticks |-> entry.sticks]
  BY DEF Entry
<1>2. ASSUME NEW s \in Sticks PROVE s \in centred <=> entry.sticks[s] = 0
  <2> DEFINE x == entry.sticks[s]
  <2>1. x \in Nat BY <1>1
  <2>2. s \in centred <=> x * x <= 0 * 0 BY DEF Centred
  <2> HIDE DEF x, centred
  <2>3. x * x <= 0 * 0 <=> x = 0 BY <2>1
  <2> QED BY <2>2, <2>3 DEF x
<1> HIDE DEF centred
<1>3. centred \subseteq Sticks BY DEF centred, Centred
<1>4. entry.buttons \cap off = {} BY <1>2, <1>3
<1>5. Mapped(entry.buttons, cfg) = entry.buttons \cap Rebindable(cfg)
  BY DEF Mapped, Rebindable
<1>6. StickBits = off \cup on BY <1>3 DEF StickBits
<1>7. rebound = entry.buttons
  <2> HIDE DEF off, on
  <2> QED BY <1>4, <1>5, <1>6
<1>8. [s \in Sticks |-> IF s \in centred THEN 0 ELSE entry.sticks[s]] = entry.sticks
  BY <1>1, <1>2
<1>9. CASE entry.connected /\ cfg # <<>>
  <2>1. RebindEntry(entry, cfg, 0) =
          [connected |-> TRUE, buttons |-> rebound,
           sticks |-> [s \in Sticks |-> IF s \in centred THEN 0 ELSE entry.sticks[s]]]
    BY <1>9 DEF RebindEntry, centred
  <2>2. entry.connected = TRUE BY <1>1, <1>9
  <2> HIDE DEF rebound
  <2> QED BY <1>1, <1>7, <1>8, <2>1, <2>2
<1>10. CASE ~(entry.connected /\ cfg # <<>>) BY <1>10 DEF RebindEntry
<1> QED BY <1>9, <1>10
=============================================================================
