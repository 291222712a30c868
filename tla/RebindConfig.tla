---------------------------- MODULE RebindConfig ----------------------------
(***************************************************************************)
(* config.ini as handler() of hid_mitm_iappletresource.cpp consumes it.    *)
(* ini_parse calls the handler once per "name = value" line, in order, and *)
(* goes on whatever the handler returns, so a file is the sequence of its  *)
(* assignment lines; a file that is missing or has none is <<>>.           *)
(*                                                                         *)
(* A word of the file is a member of NamedKeys (one of key_names), the     *)
(* text "enabled" or "deadzone", Empty, or any other word.  num is what    *)
(* atoi makes of the value.                                                *)
(***************************************************************************)
EXTENDS Integers, Sequences

CONSTANTS
    NamedKeys,    \* the 16 entries of key_names
    StrayKeys,    \* bits 16 .. 31, which only the overrun of key_names returns
    Empty,        \* the empty word
    OtherWords    \* every other word a file may hold

ASSUME ConfigAssumption ==
    /\ NamedKeys \cap StrayKeys = {}
    /\ Empty \notin NamedKeys \cup OtherWords \cup {"enabled", "deadzone"}
    /\ {"enabled", "deadzone"} \cap (NamedKeys \cup OtherWords) = {}
    /\ NamedKeys \cap OtherWords = {}

Words == NamedKeys \cup OtherWords \cup {"enabled", "deadzone", Empty}

Line == [name : Words, value : Words, num : Int]

NoKey == "no key"       \* get_key_ind's -1
Wild  == "wild"         \* get_key_ind followed a wild pointer

(***************************************************************************)
(* get_key_ind: sizeof(key_names) / sizeof(char * ) is 64, but key_names   *)
(* has 16 strings, so a word that is none of them is compared with 48      *)
(* "strings" made of the memory behind the array.  A zero word there is an *)
(* empty string and equals Empty: at any index up to 63, of which BIT, a   *)
(* shift of 32 bits, leaves the lowest five bits, so that it may also be   *)
(* the bit of a named key.  Any other word is only equal to a string of    *)
(* its own length: either no word behind the array looks like that length, *)
(* or what stands next to it is followed as the pointer to the text.       *)
(***************************************************************************)
GetKeyInd(word) ==
    IF word \in NamedKeys THEN {word}
    ELSE IF word = Empty THEN {NoKey} \cup NamedKeys \cup StrayKeys
    ELSE {NoKey, Wild}

(***************************************************************************)
(* What the handler may append to rebind_config for a line: the pair, or   *)
(* nothing, or never an answer because the lookup of a word went wild.     *)
(***************************************************************************)
Pushed(line) ==
    {IF NoKey \in {key, val} THEN <<>> ELSE <<<<key, val>>>> :
        key \in GetKeyInd(line.name) \ {Wild}, val \in GetKeyInd(line.value) \ {Wild}}

MayGoWild(line) == Wild \in GetKeyInd(line.name) \cup GetKeyInd(line.value)

\* Assigning an int to the s16 stick_deadzone keeps its low 16 bits.
HalfS16  == 2^15
S16      == -HalfS16 .. HalfS16 - 1
ToS16(n) == ((n + HalfS16) % (2 * HalfS16)) - HalfS16

DeadzoneAfter(line, dz)     == IF line.name = "deadzone" THEN ToS16(line.num) ELSE dz
NetworkingAfter(line, on)   == IF line.name = "enabled" THEN line.num # 0 ELSE on

-----------------------------------------------------------------------------
(***************************************************************************)
(* Reference definitions: every rebind_config that the first n lines of a  *)
(* file can leave behind, those that the whole file can, and every dead    *)
(* zone.                                                                   *)
(***************************************************************************)
Extended(before, line) == {cfg \o more : cfg \in before, more \in Pushed(line)}

Readings(file) ==
    LET upTo[n \in 0 .. Len(file)] ==
            IF n = 0 THEN {<<>>} ELSE Extended(upTo[n - 1], file[n])
    IN  upTo

Complete(file) == Readings(file)[Len(file)]

Deadzones(file) ==
    {ToS16(file[n].num) : n \in {m \in DOMAIN file : file[m].name = "deadzone"}}
=============================================================================
