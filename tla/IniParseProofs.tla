--------------------------- MODULE IniParseProofs ---------------------------
(***************************************************************************)
(* Proofs about ini_parse, for every file, every size of the buffers and   *)
(* every set of known keys.                                                *)
(*                                                                         *)
(* Everything is said in positions of the text.  A line is a part of it,   *)
(* what the parser strips and cuts from a line is a part again, and two    *)
(* parts that differ in white space only are stripped to the same part.    *)
(***************************************************************************)
EXTENDS IniParse, SequenceTheorems, FiniteSetTheorems, TLAPS

-----------------------------------------------------------------------------
(* Numbers.                                                                *)

\* A set of numbers up to n has a least one.
LEMMA LeastOf ==
    ASSUME NEW n \in Nat, NEW T, T \subseteq 0 .. n, T # {}
    PROVE  \E m \in T : \A k \in T : m <= k
<1> DEFINE Below(g) == 0 .. g - 1
           R == StrictSubsetOrdering(0 .. n)
           belows == {Below(g) : g \in T}
<1>1. IsFiniteSet(0 .. n) BY FS_Interval
<1>2. belows \subseteq SUBSET (0 .. n) OBVIOUS
<1>3. IsWellFoundedOn(R, SUBSET (0 .. n))
  BY <1>1, FS_FiniteSubsetsOfFinite, FS_StrictSubsetOrderingWellFounded
<1>4. belows # {} OBVIOUS
<1>5. PICK b \in belows : \A c \in belows : ~(<<c, b>> \in R)
  <2> HIDE DEF R, belows
  <2> QED BY <1>2, <1>3, <1>4, WFMin, Zenon
<1>6. PICK g \in T : b = Below(g) BY <1>5
<1>7. ASSUME NEW i \in T, i < g PROVE FALSE
  <2>1. i \in Int /\ g \in Int /\ 0 <= i OBVIOUS
  <2>2. Below(i) \subseteq Below(g) /\ i \in Below(g) /\ i \notin Below(i)
    BY <2>1, <1>7
  <2>3. Below(i) # Below(g) BY <2>2
  <2>4. <<Below(i), Below(g)>> \in R
    BY <1>2, <2>2, <2>3 DEF StrictSubsetOrdering
  <2> QED BY <1>5, <1>6, <2>4
<1> QED BY <1>6, <1>7

\* What holds of 0, and of every successor up to n, holds of all up to n.
LEMMA UpTo ==
    ASSUME NEW n \in Nat, NEW S, 0 \in S,
           \A m \in S : m < n => m + 1 \in S
    PROVE  0 .. n \subseteq S
<1> DEFINE T == (0 .. n) \ S
<1> SUFFICES ASSUME T # {} PROVE FALSE OBVIOUS
<1>1. PICK m \in T : \A k \in T : m <= k
  <2> HIDE DEF T
  <2>1. T \subseteq 0 .. n BY DEF T
  <2> QED BY <2>1, LeastOf
<1>2. m # 0 OBVIOUS
<1>3. m - 1 \in 0 .. n /\ m - 1 \notin T BY <1>1, <1>2
<1>4. m - 1 \in S /\ m - 1 < n BY <1>3
<1> QED BY <1>4

\* A number of a set that is below all others is its minimum.
LEMMA MinIs ==
    ASSUME NEW T, T \subseteq Int, NEW x \in T, \A y \in T : x <= y
    PROVE  Min(T) = x
<1>1. \E z \in T : \A y \in T : z <= y OBVIOUS
<1>2. Min(T) \in T /\ \A y \in T : Min(T) <= y BY <1>1 DEF Min
<1>3. Min(T) <= x /\ x <= Min(T) /\ Min(T) \in Int /\ x \in Int BY <1>2
<1> QED BY <1>3

\* A number of a set that is above all others is its maximum.
LEMMA MaxIs ==
    ASSUME NEW T, T \subseteq Int, NEW x \in T, \A y \in T : x >= y
    PROVE  Max(T) = x
<1>1. \E z \in T : \A y \in T : z >= y OBVIOUS
<1>2. Max(T) \in T /\ \A y \in T : Max(T) >= y BY <1>1 DEF Max
<1>3. Max(T) >= x /\ x >= Max(T) /\ Max(T) \in Int /\ x \in Int BY <1>2
<1> QED BY <1>3

\* A set of numbers up to n has a minimum.
LEMMA MinOf ==
    ASSUME NEW n \in Nat, NEW T, T \subseteq 0 .. n, T # {}
    PROVE  Min(T) \in T /\ \A y \in T : Min(T) <= y
<1>1. \E z \in T : \A y \in T : z <= y BY LeastOf
<1> QED BY <1>1 DEF Min

\* And a maximum.
LEMMA GreatestOf ==
    ASSUME NEW n \in Nat, NEW T, T \subseteq 0 .. n, T # {}
    PROVE  \E m \in T : \A k \in T : k <= m
<1> DEFINE U == {n - k : k \in T}
<1>1. U \subseteq 0 .. n /\ U # {}
  <2>1. \A k \in T : k \in 0 .. n /\ n - k \in 0 .. n OBVIOUS
  <2> QED BY <2>1
<1>2. PICK u \in U : \A w \in U : u <= w
  <2>1. \E u \in U : \A w \in U : u <= w
    <3> HIDE DEF U
    <3> QED BY <1>1, LeastOf
  <2> QED BY <2>1
<1>3. PICK m \in T : u = n - m BY <1>2
<1>4. ASSUME NEW k \in T PROVE k <= m
  <2>1. n - k \in U OBVIOUS
  <2>2. u <= n - k BY <1>2, <2>1
  <2> QED BY <1>3, <2>2
<1> QED BY <1>4

-----------------------------------------------------------------------------
(* Parts of a text.                                                        *)

\* A part has the characters of the text.
LEMMA PartOf ==
    ASSUME NEW t \in Seq(Chars), NEW a \in Int, NEW b \in Int, 1 <= a, a <= b + 1, b <= Len(t)
    PROVE  /\ SubSeq(t, a, b) \in Seq(Chars)
           /\ Len(SubSeq(t, a, b)) = b - a + 1
           /\ DOMAIN SubSeq(t, a, b) = 1 .. b - a + 1
           /\ \A i \in 1 .. b - a + 1 : SubSeq(t, a, b)[i] = t[a + i - 1]
<1>1. \A i \in a .. b : t[i] \in Chars BY ElementOfSeq
<1>2. SubSeq(t, a, b) \in Seq(Chars) BY <1>1, SubSeqProperties
<1>3. Len(SubSeq(t, a, b)) = b - a + 1
  BY <1>1, SubSeqProperties
<1>4. \A i \in 1 .. b - a + 1 : SubSeq(t, a, b)[i] = t[a + i - 1] BY <1>1, SubSeqProperties
<1>5. DOMAIN SubSeq(t, a, b) = 1 .. b - a + 1 BY <1>2, <1>3, LenProperties
<1> QED BY <1>2, <1>3, <1>4, <1>5

\* A part of a part is a part.
LEMMA PartOfPart ==
    ASSUME NEW t \in Seq(Chars), NEW a \in Int, NEW b \in Int, 1 <= a, a <= b + 1, b <= Len(t),
           NEW m \in Int, NEW n \in Int, 1 <= m, m <= n + 1, n <= b - a + 1
    PROVE  SubSeq(SubSeq(t, a, b), m, n) = SubSeq(t, a + m - 1, a + n - 1)
<1> DEFINE s == SubSeq(t, a, b)
           x == SubSeq(s, m, n)
           y == SubSeq(t, a + m - 1, a + n - 1)
<1>1. /\ s \in Seq(Chars) /\ Len(s) = b - a + 1
      /\ \A i \in 1 .. b - a + 1 : s[i] = t[a + i - 1]
  BY PartOf
<1>2. /\ x \in Seq(Chars) /\ Len(x) = n - m + 1
      /\ \A i \in 1 .. n - m + 1 : x[i] = s[m + i - 1]
  <2> HIDE DEF s
  <2> QED BY <1>1, PartOf
<1>3. /\ a + m - 1 \in Int /\ a + n - 1 \in Int /\ 1 <= a + m - 1
      /\ a + m - 1 <= (a + n - 1) + 1 /\ a + n - 1 <= Len(t)
      /\ (a + n - 1) - (a + m - 1) + 1 = n - m + 1
  BY LenProperties
<1>4. /\ y \in Seq(Chars) /\ Len(y) = n - m + 1
      /\ \A i \in 1 .. n - m + 1 : y[i] = t[a + m - 1 + i - 1]
  BY <1>3, PartOf
<1>5. ASSUME NEW i \in 1 .. n - m + 1 PROVE x[i] = y[i]
  <2>1. x[i] = s[m + i - 1] /\ y[i] = t[a + m - 1 + i - 1] BY <1>2, <1>4
  <2>2. m + i - 1 \in 1 .. b - a + 1 /\ a + (m + i - 1) - 1 = a + m - 1 + i - 1 OBVIOUS
  <2> HIDE DEF x, y, s
  <2> QED BY <1>1, <2>1, <2>2
<1> HIDE DEF x, y
<1>6. x = y BY <1>2, <1>4, <1>5, SeqEqual
<1> QED BY <1>6 DEF x, y

\* All of a text is a part of it, and so is what follows its first character.
LEMMA WholePart ==
    ASSUME NEW t \in Seq(Chars)
    PROVE  /\ SubSeq(t, 1, Len(t)) = t
           /\ t # <<>> => Tail(t) = SubSeq(t, 2, Len(t))
BY SubSeqFull, TailIsSubSeq

-----------------------------------------------------------------------------
(* White space.                                                            *)

\* rstrip ends a text with the last character that is not a space.
LEMMA RstripIs ==
    ASSUME NEW s \in Seq(Chars), NEW q \in 1 .. Len(s), Black(s[q]),
           \A i \in q + 1 .. Len(s) : ~Black(s[i])
    PROVE  rstrip(s) = SubSeq(s, 1, q)
<1> DEFINE I == {i \in 1 .. Len(s) : Black(s[i])}
<1>1. I \subseteq Int /\ q \in I OBVIOUS
<1>2. \A i \in I : q >= i
  <2> SUFFICES ASSUME NEW i \in I, i > q PROVE FALSE OBVIOUS
  <2>1. i \in q + 1 .. Len(s) BY LenProperties
  <2> QED BY <2>1
<1>3. Max(I) = q
  <2> HIDE DEF I
  <2> QED BY <1>1, <1>2, MaxIs
<1>4. SelectLastInSeq(s, Black) = q BY <1>1, <1>3 DEF SelectLastInSeq
<1> QED BY <1>4 DEF rstrip

\* Nothing is left of white space.
LEMMA StripBlank ==
    ASSUME NEW s \in Seq(Chars), \A i \in 1 .. Len(s) : ~Black(s[i])
    PROVE  rstrip(s) = <<>> /\ Strip(s) = <<>>
<1>1. \A x : {i \in 1 .. Len(x) : Black(x[i])} = {} => rstrip(x) = <<>>
  <2> SUFFICES ASSUME NEW x, {i \in 1 .. Len(x) : Black(x[i])} = {} PROVE rstrip(x) = <<>>
    OBVIOUS
  <2>1. SelectLastInSeq(x, Black) = 0 BY DEF SelectLastInSeq
  <2> QED BY <2>1, SubSeqEmpty DEF rstrip
<1>2. rstrip(s) = <<>> BY <1>1
<1>3. rstrip(<<>>) = <<>>
  <2>1. Len(<<>>) = 0 BY EmptySeq
  <2>2. {i \in 1 .. Len(<<>>) : Black((<<>>)[i])} = {} BY <2>1
  <2> QED BY <1>1, <2>2
<1>4. lskip(<<>>) = <<>>
  <2>1. Len(<<>>) = 0 BY EmptySeq
  <2> QED BY <1>3, <2>1, SubSeqEmpty DEF lskip
<1> QED BY <1>2, <1>4 DEF Strip

\* lskip begins a text with the first character that is not a space.
LEMMA LskipIs ==
    ASSUME NEW s \in Seq(Chars), NEW p \in 1 .. Len(s), Black(s[p]), Black(s[Len(s)]),
           \A i \in 1 .. p - 1 : ~Black(s[i])
    PROVE  lskip(s) = SubSeq(s, p, Len(s))
<1> DEFINE I == {i \in 1 .. Len(s) : Black(s[i])}
<1>1. I \subseteq Int /\ p \in I OBVIOUS
<1>2. \A i \in I : p <= i
  <2> SUFFICES ASSUME NEW i \in I, i < p PROVE FALSE OBVIOUS
  <2>1. i \in 1 .. p - 1 BY LenProperties
  <2> QED BY <2>1
<1>3. Min(I) = p
  <2> HIDE DEF I
  <2> QED BY <1>1, <1>2, MinIs
<1>4. SelectInSeq(s, Black) = p BY <1>1, <1>3 DEF SelectInSeq
<1>5. rstrip(s) # <<>>
  <2>1. Len(s) \in 1 .. Len(s) BY LenProperties
  <2>2. rstrip(s) = SubSeq(s, 1, Len(s)) BY <2>1, RstripIs
  <2> QED BY <2>1, <2>2, SubSeqFull, EmptySeq
<1> QED BY <1>4, <1>5 DEF lskip

\* The part from p to q is what is left of the one from a to b without the
\* white space at its ends.
Inner(t, a, b, p, q) ==
    /\ p \in a .. b /\ q \in p .. b /\ Black(t[p]) /\ Black(t[q])
    /\ \A i \in a .. p - 1 : ~Black(t[i])
    /\ \A i \in q + 1 .. b : ~Black(t[i])

\* A part from its first to its last character that is not a space.
LEMMA StripPart ==
    ASSUME NEW t \in Seq(Chars), NEW a \in Int, NEW b \in Int, 1 <= a, b <= Len(t),
           NEW p \in Int, NEW q \in Int, Inner(t, a, b, p, q)
    PROVE  /\ Strip(SubSeq(t, a, b)) = SubSeq(t, p, q)
           /\ rstrip(SubSeq(t, a, b)) = SubSeq(t, a, q)
<1> USE DEF Inner
<1> DEFINE s == SubSeq(t, a, b)
           r == SubSeq(t, a, q)
<1>1. /\ s \in Seq(Chars) /\ Len(s) = b - a + 1
      /\ \A i \in 1 .. b - a + 1 : s[i] = t[a + i - 1]
  BY PartOf
<1>2. /\ r \in Seq(Chars) /\ Len(r) = q - a + 1
      /\ \A i \in 1 .. q - a + 1 : r[i] = t[a + i - 1]
  BY PartOf, LenProperties
<1>3. rstrip(s) = r
  <2>1. q - a + 1 \in 1 .. Len(s) BY <1>1
  <2>2. s[q - a + 1] = t[q] BY <1>1, <2>1
  <2>3. \A i \in q - a + 1 + 1 .. Len(s) : ~Black(s[i])
    <3> SUFFICES ASSUME NEW i \in q - a + 1 + 1 .. Len(s) PROVE ~Black(s[i]) OBVIOUS
    <3>1. i \in 1 .. b - a + 1 /\ a + i - 1 \in q + 1 .. b BY <1>1
    <3>2. s[i] = t[a + i - 1] BY <1>1, <3>1
    <3> QED BY <3>1, <3>2
  <2>4. rstrip(s) = SubSeq(s, 1, q - a + 1)
    <3> HIDE DEF s
    <3> QED BY <1>1, <2>1, <2>2, <2>3, RstripIs
  <2>5. SubSeq(s, 1, q - a + 1) = SubSeq(t, a + 1 - 1, a + (q - a + 1) - 1)
    BY PartOfPart
  <2>6. a + 1 - 1 = a /\ a + (q - a + 1) - 1 = q OBVIOUS
  <2> QED BY <2>4, <2>5, <2>6
<1>4. lskip(r) = SubSeq(t, p, q)
  <2>1. p - a + 1 \in 1 .. Len(r) /\ Len(r) \in 1 .. q - a + 1 /\ a + Len(r) - 1 = q BY <1>2
  <2>2. Black(r[p - a + 1]) /\ Black(r[Len(r)])
    <3>1. p - a + 1 \in 1 .. q - a + 1 /\ a + (p - a + 1) - 1 = p BY <2>1
    <3>2. r[p - a + 1] = t[p] BY <1>2, <3>1
    <3>3. r[Len(r)] = t[q] BY <1>2, <2>1
    <3> HIDE DEF r
    <3> QED BY <3>2, <3>3
  <2>3. \A i \in 1 .. p - a + 1 - 1 : ~Black(r[i])
    <3> SUFFICES ASSUME NEW i \in 1 .. p - a + 1 - 1 PROVE ~Black(r[i]) OBVIOUS
    <3>1. i \in 1 .. q - a + 1 /\ a + i - 1 \in a .. p - 1 BY <1>1
    <3>2. r[i] = t[a + i - 1] BY <1>2, <3>1
    <3> QED BY <3>1, <3>2
  <2>4. lskip(r) = SubSeq(r, p - a + 1, Len(r))
    <3> DEFINE k == p - a + 1
    <3>1. /\ r \in Seq(Chars) /\ k \in 1 .. Len(r) /\ Black(r[k]) /\ Black(r[Len(r)])
          /\ \A i \in 1 .. k - 1 : ~Black(r[i])
      BY <1>2, <2>1, <2>2, <2>3
    <3> HIDE DEF r, k
    <3>2. lskip(r) = SubSeq(r, k, Len(r)) BY <3>1, LskipIs
    <3> QED BY <3>2 DEF k
  <2>5. SubSeq(r, p - a + 1, q - a + 1) = SubSeq(t, a + (p - a + 1) - 1, a + (q - a + 1) - 1)
    BY PartOfPart, LenProperties
  <2>6. a + (p - a + 1) - 1 = p /\ a + (q - a + 1) - 1 = q OBVIOUS
  <2> QED BY <1>2, <2>4, <2>5, <2>6
<1> QED BY <1>3, <1>4 DEF Strip

\* A part without such a character.
LEMMA BlankPart ==
    ASSUME NEW t \in Seq(Chars), NEW a \in Int, NEW b \in Int, 1 <= a, a <= b + 1, b <= Len(t),
           \A i \in a .. b : ~Black(t[i])
    PROVE  Strip(SubSeq(t, a, b)) = <<>> /\ rstrip(SubSeq(t, a, b)) = <<>>
<1> DEFINE s == SubSeq(t, a, b)
<1>1. /\ s \in Seq(Chars) /\ Len(s) = b - a + 1
      /\ \A i \in 1 .. b - a + 1 : s[i] = t[a + i - 1]
  BY PartOf
<1>2. ASSUME NEW i \in 1 .. Len(s) PROVE ~Black(s[i])
  <2>1. i \in 1 .. b - a + 1 /\ a + i - 1 \in a .. b BY <1>1
  <2> QED BY <1>1, <2>1
<1> HIDE DEF s
<1>3. Strip(s) = <<>> /\ rstrip(s) = <<>> BY <1>1, <1>2, StripBlank
<1> QED BY <1>3 DEF s

\* A part has none, or a first and a last one.
LEMMA EndsOf ==
    ASSUME NEW t \in Seq(Chars), NEW a \in Int, NEW b \in Int, 1 <= a, a <= b + 1, b <= Len(t)
    PROVE  \/ \A i \in a .. b : ~Black(t[i])
           \/ \E p \in a .. b : \E q \in p .. b : Inner(t, a, b, p, q)
<1> DEFINE B == {i \in a .. b : Black(t[i])}
<1> SUFFICES ASSUME B # {}
             PROVE  \E p \in a .. b : \E q \in p .. b : Inner(t, a, b, p, q)
  OBVIOUS
<1>1. B \subseteq 0 .. Len(t) /\ Len(t) \in Nat BY LenProperties
<1>2. PICK p \in B : \A i \in B : p <= i
  <2>1. \E p \in B : \A i \in B : p <= i
    <3> HIDE DEF B
    <3> QED BY <1>1, LeastOf
  <2> QED BY <2>1
<1>3. PICK q \in B : \A i \in B : i <= q
  <2>1. \E q \in B : \A i \in B : i <= q
    <3> HIDE DEF B
    <3> QED BY <1>1, GreatestOf
  <2> QED BY <2>1
<1>4. p \in a .. b /\ q \in p .. b BY <1>2, <1>3
<1>5. ASSUME NEW i \in a .. b, i < p \/ i > q PROVE ~Black(t[i])
  BY <1>2, <1>3, <1>5
<1>6. \A i \in a .. p - 1 : ~Black(t[i]) BY <1>4, <1>5
<1>7. \A i \in q + 1 .. b : ~Black(t[i]) BY <1>4, <1>5
<1>8. Inner(t, a, b, p, q) BY <1>2, <1>3, <1>4, <1>6, <1>7 DEF Inner
<1> QED BY <1>4, <1>8

\* Parts that differ in white space at their ends are stripped to the same.
LEMMA SameStrip ==
    ASSUME NEW t \in Seq(Chars),
           NEW a \in Int, NEW b \in Int, 1 <= a, a <= b + 1, b <= Len(t),
           NEW c \in Int, NEW d \in Int, 1 <= c, c <= d + 1, d <= Len(t),
           a <= c, d <= b, \A i \in a .. b : Black(t[i]) => i \in c .. d
    PROVE  Strip(SubSeq(t, a, b)) = Strip(SubSeq(t, c, d))
<1>1. CASE \A i \in a .. b : ~Black(t[i])
  <2>1. \A i \in c .. d : ~Black(t[i]) BY <1>1
  <2> QED BY <1>1, <2>1, BlankPart
<1>2. ASSUME NEW p \in a .. b, NEW q \in p .. b, Inner(t, a, b, p, q)
      PROVE  Strip(SubSeq(t, a, b)) = Strip(SubSeq(t, c, d))
  <2>1. p \in Int /\ q \in Int OBVIOUS
  <2>2. Strip(SubSeq(t, a, b)) = SubSeq(t, p, q) BY <1>2, <2>1, StripPart
  <2>3. Inner(t, c, d, p, q)
    <3>1. /\ Black(t[p]) /\ Black(t[q])
          /\ \A i \in a .. p - 1 : ~Black(t[i])
          /\ \A i \in q + 1 .. b : ~Black(t[i])
      BY <1>2 DEF Inner
    <3>2. p \in c .. d /\ q \in c .. d BY <3>1
    <3>3. p \in c .. d /\ q \in p .. d BY <3>2
    <3>4. \A i \in c .. p - 1 : ~Black(t[i]) BY <3>1
    <3>5. \A i \in q + 1 .. d : ~Black(t[i]) BY <3>1
    <3> QED BY <3>1, <3>3, <3>4, <3>5 DEF Inner
  <2>4. Strip(SubSeq(t, c, d)) = SubSeq(t, p, q) BY <2>1, <2>3, StripPart
  <2> QED BY <2>2, <2>4
<1> QED BY <1>1, <1>2, EndsOf

-----------------------------------------------------------------------------
(* Comments and signs.                                                     *)

\* An inline comment begins at i, in the part that begins at p.
CommentAt(t, p, i) == t[i] = "semi" /\ i > p /\ t[i - 1] \in Space

\* Where find_chars_or_comment stops in a part.
StopAt(t, p, i, chars) == t[i] \in chars \/ CommentAt(t, p, i)

\* It stops at the first such place k, or behind the part.
Stops(t, p, q, chars, k) ==
    /\ find_chars_or_comment(SubSeq(t, p, q), chars) = k - p + 1
    /\ k <= q => StopAt(t, p, k, chars)
    /\ \A i \in p .. k - 1 : ~StopAt(t, p, i, chars)

LEMMA FindPart ==
    ASSUME NEW t \in Seq(Chars), NEW p \in Int, NEW q \in Int, 1 <= p, p <= q + 1, q <= Len(t),
           NEW chars
    PROVE  \E k \in p .. q + 1 : Stops(t, p, q, chars, k)
<1> DEFINE s == SubSeq(t, p, q)
           I == {i \in DOMAIN s : s[i] \in chars \/ IsInlineComment(s, i)} \cup {Len(s) + 1}
           m == Min(I)
<1>1. /\ s \in Seq(Chars) /\ Len(s) = q - p + 1 /\ DOMAIN s = 1 .. q - p + 1
      /\ \A i \in 1 .. q - p + 1 : s[i] = t[p + i - 1]
  BY PartOf
<1>2. I \subseteq 0 .. q - p + 2 /\ I # {} /\ q - p + 2 \in Nat
  <2> HIDE DEF s
  <2> QED BY <1>1
<1>3. m \in I /\ \A y \in I : m <= y
  <2> HIDE DEF I
  <2> QED BY <1>2, MinOf
<1>4. find_chars_or_comment(s, chars) = m BY DEF find_chars_or_comment
<1>5. ASSUME NEW i \in p .. q
      PROVE  (i - p + 1 \in I) <=> StopAt(t, p, i, chars)
  <2> DEFINE j == i - p + 1
  <2>1. j \in 1 .. q - p + 1 /\ p + j - 1 = i /\ j # Len(s) + 1 BY <1>1
  <2>2. s[j] = t[i] BY <1>1, <2>1
  <2>3. j > 1 <=> i > p OBVIOUS
  <2>4. i > p => s[j - 1] = t[i - 1]
    <3>1. i > p => j - 1 \in 1 .. q - p + 1 /\ p + (j - 1) - 1 = i - 1 OBVIOUS
    <3> HIDE DEF s, j
    <3> QED BY <1>1, <3>1
  <2>5. j \in I <=> s[j] \in chars \/ IsInlineComment(s, j)
    <3> HIDE DEF s, j
    <3> QED BY <1>1, <2>1
  <2> HIDE DEF s, j, I
  <2>6. j \in I <=> StopAt(t, p, i, chars)
    BY <2>2, <2>3, <2>4, <2>5 DEF IsInlineComment, StopAt, CommentAt
  <2> QED BY <2>6 DEF j
<1>6. m \in 1 .. q - p + 2 /\ (m # q - p + 2 => m \in 1 .. q - p + 1)
  <2> HIDE DEF s, m
  <2> QED BY <1>1, <1>3
<1> DEFINE k == m + p - 1
<1> HIDE DEF s, m, I
<1>7. k \in p .. q + 1 /\ m = k - p + 1 BY <1>6
<1>8. k <= q => StopAt(t, p, k, chars)
  <2> SUFFICES ASSUME k <= q PROVE StopAt(t, p, k, chars) OBVIOUS
  <2>1. k \in p .. q /\ k - p + 1 = m BY <1>7
  <2> HIDE DEF k
  <2> QED BY <1>3, <1>5, <2>1
<1>9. ASSUME NEW i \in p .. k - 1 PROVE ~StopAt(t, p, i, chars)
  <2>1. i \in p .. q /\ ~(m <= i - p + 1) BY <1>7
  <2> HIDE DEF k
  <2> QED BY <1>3, <1>5, <2>1
<1> HIDE DEF k
<1>10. Stops(t, p, q, chars, k) BY <1>4, <1>7, <1>8, <1>9 DEF Stops, s
<1> QED BY <1>7, <1>10

\* What the reference leaves of a line is the part before the first comment.
CutAt(t, a, b, c) ==
    /\ Uncommented(SubSeq(t, a, b)) = SubSeq(t, a, c - 1)
    /\ c <= b => t[c] = "semi" /\ t[c - 1] = "sp"
    /\ \A i \in a + 1 .. c - 1 : ~(t[i] = "semi" /\ t[i - 1] = "sp")

LEMMA UncommentedPart ==
    ASSUME NEW t \in Seq(Chars), NEW a \in Int, NEW b \in Int, 1 <= a, a <= b, b <= Len(t)
    PROVE  \E c \in a + 1 .. b + 1 : CutAt(t, a, b, c)
<1> DEFINE s == SubSeq(t, a, b)
           I == {i \in 2 .. Len(s) : s[i] = "semi" /\ s[i - 1] = "sp"} \cup {Len(s) + 1}
           m == Min(I)
<1>1. /\ s \in Seq(Chars) /\ Len(s) = b - a + 1
      /\ \A i \in 1 .. b - a + 1 : s[i] = t[a + i - 1]
  BY PartOf
<1>0. I # {} /\ \A y \in I : y \in 2 .. b - a + 2
  <2>1. Len(s) + 1 \in I OBVIOUS
  <2>2. \A y \in I : y \in 2 .. Len(s) \/ y = Len(s) + 1 OBVIOUS
  <2> HIDE DEF s, I
  <2> QED BY <1>1, <2>1, <2>2
<1>2. I \subseteq 0 .. b - a + 2 /\ I # {} /\ b - a + 2 \in Nat
  <2> HIDE DEF I
  <2> QED BY <1>0
<1>3. m \in I /\ \A y \in I : m <= y
  <2> HIDE DEF I
  <2> QED BY <1>2, MinOf
<1>4. Uncommented(s) = SubSeq(s, 1, m - 1) BY DEF Uncommented
<1>5. ASSUME NEW i \in a + 1 .. b
      PROVE  (i - a + 1 \in I) <=> t[i] = "semi" /\ t[i - 1] = "sp"
  <2> DEFINE j == i - a + 1
  <2>1. /\ j \in 1 .. b - a + 1 /\ a + j - 1 = i /\ j # Len(s) + 1 /\ j \in 2 .. Len(s)
        /\ j - 1 \in 1 .. b - a + 1 /\ a + (j - 1) - 1 = i - 1
    BY <1>1
  <2>2. s[j] = t[i] /\ s[j - 1] = t[i - 1]
    <3> HIDE DEF s, j
    <3> QED BY <1>1, <2>1
  <2>3. j \in I <=> s[j] = "semi" /\ s[j - 1] = "sp"
    <3> HIDE DEF s, j
    <3> QED BY <1>1, <2>1
  <2> HIDE DEF s, j, I
  <2>4. j \in I <=> t[i] = "semi" /\ t[i - 1] = "sp" BY <2>2, <2>3
  <2> QED BY <2>4 DEF j
<1>6. m \in 2 .. b - a + 2
  <2> HIDE DEF I
  <2> QED BY <1>0, <1>3
<1> DEFINE c == m + a - 1
<1>7. SubSeq(s, 1, m - 1) = SubSeq(t, a, c - 1)
  <2>1. SubSeq(s, 1, m - 1) = SubSeq(t, a + 1 - 1, a + (m - 1) - 1)
    <3> HIDE DEF m
    <3> QED BY <1>6, PartOfPart
  <2>2. a + 1 - 1 = a /\ a + (m - 1) - 1 = c - 1
    <3> HIDE DEF m
    <3> QED BY <1>6
  <2> HIDE DEF s, m, c
  <2> QED BY <2>1, <2>2
<1> HIDE DEF s, m, I
<1>8. c \in a + 1 .. b + 1 /\ m = c - a + 1 BY <1>6
<1>9. c <= b => t[c] = "semi" /\ t[c - 1] = "sp"
  <2> SUFFICES ASSUME c <= b PROVE t[c] = "semi" /\ t[c - 1] = "sp" OBVIOUS
  <2>1. c \in a + 1 .. b /\ c - a + 1 = m BY <1>8
  <2> HIDE DEF c
  <2> QED BY <1>3, <1>5, <2>1
<1>10. ASSUME NEW i \in a + 1 .. c - 1 PROVE ~(t[i] = "semi" /\ t[i - 1] = "sp")
  <2>1. i \in a + 1 .. b /\ ~(m <= i - a + 1) BY <1>8
  <2> HIDE DEF c
  <2> QED BY <1>3, <1>5, <2>1
<1> HIDE DEF c
<1>11. CutAt(t, a, b, c) BY <1>4, <1>7, <1>9, <1>10 DEF CutAt, s
<1> QED BY <1>8, <1>11

-----------------------------------------------------------------------------
(* What a line means, for the reference.                                   *)

\* A line, from a to b.
LineAt(t, a, b) == 1 <= a /\ a <= b + 1 /\ b <= Len(t) /\ \A i \in a .. b : t[i] # "nl"

\* Of a line that does not begin with "semi" the reference leaves what is between
\* its first character and the first comment, without the white space there.
Leaves(t, a, b, p, c, r) ==
    /\ Uncommented(SubSeq(t, a, b)) = SubSeq(t, a, c - 1)
    /\ Strip(SubSeq(t, a, c - 1)) = SubSeq(t, p, r)
    /\ r < c /\ \A i \in r + 1 .. c - 1 : ~Black(t[i])
    /\ c <= b => CommentAt(t, p, c)
    /\ \A i \in p .. c - 1 : ~CommentAt(t, p, i)

LEMMA LineLeaves ==
    ASSUME NEW t \in Seq(Chars), NEW a \in Int, NEW b \in Int, LineAt(t, a, b),
           NEW p \in Int, NEW q \in Int, Inner(t, a, b, p, q), t[p] # "semi"
    PROVE  \E c \in p + 1 .. b + 1 : \E r \in p .. q : Leaves(t, a, b, p, c, r)
<1>1. 1 <= a /\ a <= b /\ b <= Len(t) /\ p \in a .. b /\ q \in p .. b
  BY DEF LineAt, Inner
<1>c. PICK c \in a + 1 .. b + 1 : CutAt(t, a, b, c) BY <1>1, UncommentedPart
<1>2. /\ Uncommented(SubSeq(t, a, b)) = SubSeq(t, a, c - 1)
      /\ c <= b => t[c] = "semi" /\ t[c - 1] = "sp"
      /\ \A i \in a + 1 .. c - 1 : ~(t[i] = "semi" /\ t[i - 1] = "sp")
  BY <1>c DEF CutAt
<1>3. c > p
  <2> SUFFICES ASSUME c <= p PROVE FALSE BY <1>1
  <2>1. t[c] = "semi" /\ Black(t[c]) BY <1>1, <1>2 DEF Black, Space
  <2>2. c = p \/ c \in a .. p - 1 BY <1>1
  <2> QED BY <2>1, <2>2 DEF Inner
<1>x. PICK x \in a .. c - 1 : \E r \in x .. c - 1 : Inner(t, a, c - 1, x, r)
  <2> DEFINE d == c - 1
  <2>1. d \in Int /\ a <= d + 1 /\ d <= Len(t) /\ p \in a .. d BY <1>1, <1>3
  <2>2. Black(t[p]) BY DEF Inner
  <2> HIDE DEF d
  <2>3. \E x \in a .. d : \E r \in x .. d : Inner(t, a, d, x, r) BY <1>1, <2>1, <2>2, EndsOf
  <2> QED BY <2>3 DEF d
<1>d. PICK r \in x .. c - 1 : Inner(t, a, c - 1, x, r) BY <1>x
<1>4. /\ x \in a .. c - 1 /\ r \in a .. c - 1
      /\ x <= r /\ Black(t[x]) /\ Black(t[r])
      /\ \A i \in a .. x - 1 : ~Black(t[i])
      /\ \A i \in r + 1 .. c - 1 : ~Black(t[i])
  BY <1>d DEF Inner
<1>5. x = p
  <2>1. ~(p < x) BY <1>1, <1>4 DEF Inner
  <2>2. ~(x < p) BY <1>1, <1>4 DEF Inner
  <2> QED BY <1>1, <2>1, <2>2
<1>6. r \in p .. q
  <2>1. ~(r > q) BY <1>1, <1>4 DEF Inner
  <2> QED BY <1>1, <1>4, <1>5, <2>1
<1>7. Strip(SubSeq(t, a, c - 1)) = SubSeq(t, p, r)
  <2> DEFINE d == c - 1
  <2>1. d \in Int /\ d <= Len(t) /\ r \in Int BY <1>1, <1>4
  <2>2. Inner(t, a, d, p, r) BY <1>d, <1>5
  <2> HIDE DEF d
  <2>3. Strip(SubSeq(t, a, d)) = SubSeq(t, p, r) BY <1>1, <2>1, <2>2, StripPart
  <2> QED BY <2>3 DEF d
<1>8. c <= b => CommentAt(t, p, c) BY <1>1, <1>2, <1>3 DEF CommentAt, Space
<1>9. ASSUME NEW i \in p .. c - 1 PROVE ~CommentAt(t, p, i)
  <2>1. i > p => i \in a + 1 .. c - 1 /\ i - 1 \in a .. b BY <1>1
  <2>2. i > p => t[i - 1] # "nl" BY <2>1 DEF LineAt
  <2> QED BY <1>2, <2>1, <2>2 DEF CommentAt, Space
<1>10. c \in p + 1 .. b + 1 /\ r < c BY <1>1, <1>3, <1>4
<1>11. Leaves(t, a, b, p, c, r) BY <1>2, <1>4, <1>7, <1>8, <1>9, <1>10 DEF Leaves
<1> QED BY <1>6, <1>10, <1>11

\* What is assigned by a line of which the part from p to r is left.
LEMMA AssignedPart ==
    ASSUME NEW line, NEW t \in Seq(Chars), NEW p \in Int, NEW r \in Int,
           1 <= p, p <= r, r <= Len(t), Strip(Uncommented(line)) = SubSeq(t, p, r)
    PROVE  /\ t[p] \in {"semi", "#", "["} => Assigned(line) = <<>>
           /\ (\A i \in p .. r : t[i] # "=") => Assigned(line) = <<>>
           /\ \A k \in p .. r :
                 t[p] \notin {"semi", "#", "["} /\ t[k] = "=" /\ (\A i \in p .. k - 1 : t[i] # "=")
                 => Assigned(line) = <<[name  |-> Strip(SubSeq(t, p, k - 1)),
                                        value |-> Strip(SubSeq(t, k + 1, r))]>>
<1> DEFINE u   == SubSeq(t, p, r)
           eqs == {i \in DOMAIN u : u[i] = "="}
<1>1. /\ u \in Seq(Chars) /\ Len(u) = r - p + 1 /\ DOMAIN u = 1 .. r - p + 1
      /\ \A i \in 1 .. r - p + 1 : u[i] = t[p + i - 1]
  BY PartOf
<1>2. u # <<>> /\ u[1] = t[p]
  <2>1. 1 \in 1 .. r - p + 1 /\ p + 1 - 1 = p OBVIOUS
  <2>2. u[1] = t[p]
    <3> HIDE DEF u
    <3> QED BY <1>1, <2>1
  <2>3. Len(u) # 0
    <3> HIDE DEF u
    <3> QED BY <1>1
  <2> QED BY <2>2, <2>3, EmptySeq
<1>3. Assigned(line) =
         IF u[1] \in {"semi", "#", "["} \/ eqs = {} THEN <<>>
         ELSE <<[name  |-> Strip(SubSeq(u, 1, Min(eqs) - 1)),
                 value |-> Strip(SubSeq(u, Min(eqs) + 1, Len(u)))]>>
  BY <1>2 DEF Assigned
<1>4. ASSUME \A i \in p .. r : t[i] # "=" PROVE eqs = {}
  <2> SUFFICES ASSUME NEW i \in eqs PROVE FALSE OBVIOUS
  <2>1. i \in 1 .. r - p + 1 /\ u[i] = "="
    <3>1. i \in DOMAIN u /\ u[i] = "=" OBVIOUS
    <3> HIDE DEF u
    <3> QED BY <1>1, <3>1
  <2>2. p + i - 1 \in p .. r BY <2>1
  <2>3. u[i] = t[p + i - 1]
    <3> HIDE DEF u
    <3> QED BY <1>1, <2>1
  <2> QED BY <1>4, <2>1, <2>2, <2>3
<1>5. ASSUME NEW k \in p .. r, t[k] = "=", \A i \in p .. k - 1 : t[i] # "="
      PROVE  /\ eqs # {}
             /\ SubSeq(u, 1, Min(eqs) - 1) = SubSeq(t, p, k - 1)
             /\ SubSeq(u, Min(eqs) + 1, Len(u)) = SubSeq(t, k + 1, r)
  <2> DEFINE m == k - p + 1
  <2>1. m \in 1 .. r - p + 1 /\ p + m - 1 = k OBVIOUS
  <2>2. m \in eqs
    <3> HIDE DEF u, m
    <3>1. u[m] = "=" BY <1>1, <1>5, <2>1
    <3> QED BY <1>1, <2>1, <3>1
  <2>3. ASSUME NEW i \in eqs PROVE m <= i
    <3>1. i \in DOMAIN u /\ u[i] = "=" OBVIOUS
    <3>2. i \in 1 .. r - p + 1 /\ t[p + i - 1] = "="
      <4> HIDE DEF u
      <4> QED BY <1>1, <3>1
    <3>3. ~(p + i - 1 \in p .. k - 1) BY <1>5, <3>2
    <3> QED BY <3>2, <3>3
  <2>4. eqs \subseteq Int
    <3> HIDE DEF u
    <3> QED BY <1>1
  <2>5. Min(eqs) = m
    <3> HIDE DEF m, eqs
    <3> QED BY <2>2, <2>3, <2>4, MinIs
  <2>6. SubSeq(u, 1, m - 1) = SubSeq(t, p, k - 1)
    <3>1. SubSeq(u, 1, m - 1) = SubSeq(t, p + 1 - 1, p + (m - 1) - 1)
      <4> HIDE DEF m
      <4> QED BY <2>1, PartOfPart
    <3>2. p + 1 - 1 = p /\ p + (m - 1) - 1 = k - 1 BY <2>1
    <3> HIDE DEF u, m
    <3> QED BY <3>1, <3>2
  <2>7. SubSeq(u, m + 1, r - p + 1) = SubSeq(t, k + 1, r)
    <3>1. SubSeq(u, m + 1, r - p + 1) = SubSeq(t, p + (m + 1) - 1, p + (r - p + 1) - 1)
      <4> HIDE DEF m
      <4> QED BY <2>1, PartOfPart
    <3>2. p + (m + 1) - 1 = k + 1 /\ p + (r - p + 1) - 1 = r BY <2>1
    <3> HIDE DEF u, m
    <3> QED BY <3>1, <3>2
  <2> HIDE DEF u, m, eqs
  <2> QED BY <1>1, <2>2, <2>5, <2>6, <2>7
<1> HIDE DEF u, eqs
<1> QED BY <1>2, <1>3, <1>4, <1>5

-----------------------------------------------------------------------------
(* What the parser makes of the same line.                                 *)

\* A part that does not begin with white space is stripped by rstrip alone.
LEMMA RstripStrips ==
    ASSUME NEW t \in Seq(Chars), NEW p \in Int, NEW d \in Int, 1 <= p, p <= d + 1, d <= Len(t),
           p <= d => Black(t[p])
    PROVE  rstrip(SubSeq(t, p, d)) = Strip(SubSeq(t, p, d))
<1>1. CASE \A i \in p .. d : ~Black(t[i]) BY <1>1, BlankPart
<1>2. ASSUME NEW x \in p .. d, NEW q \in x .. d, Inner(t, p, d, x, q)
      PROVE  rstrip(SubSeq(t, p, d)) = Strip(SubSeq(t, p, d))
  <2>1. x = p
    <3> SUFFICES ASSUME p < x PROVE FALSE OBVIOUS
    <3>1. p \in p .. x - 1 /\ p <= d OBVIOUS
    <3> QED BY <1>2, <3>1 DEF Inner
  <2>2. /\ Strip(SubSeq(t, p, d)) = SubSeq(t, x, q)
        /\ rstrip(SubSeq(t, p, d)) = SubSeq(t, p, q)
    BY <1>2, StripPart
  <2> QED BY <2>1, <2>2
<1> QED BY <1>1, <1>2, EndsOf

\* A line begins, without white space around it, with the part from p to q.
StartAt(t, p, q) == 1 <= p /\ p <= q /\ q <= Len(t) /\ Start = SubSeq(t, p, q)

\* What is at a place of the text that is left of the line.
LEMMA StartIs ==
    ASSUME NEW t \in Seq(Chars), NEW p \in Int, NEW q \in Int, StartAt(t, p, q)
    PROVE  /\ Start \in Seq(Chars) /\ Start # <<>> /\ Len(Start) = q - p + 1 /\ First = t[p]
           /\ \A i \in 1 .. q - p + 2 : \A c : Found(i, c) <=> i <= q - p + 1 /\ t[p + i - 1] = c
<1> USE DEF StartAt
<1>1. /\ Start \in Seq(Chars) /\ Len(Start) = q - p + 1
      /\ \A i \in 1 .. q - p + 1 : Start[i] = t[p + i - 1]
  BY PartOf
<1>2. Start # <<>> BY <1>1, EmptySeq
<1>3. 1 \in 1 .. q - p + 1 /\ p + 1 - 1 = p OBVIOUS
<1>4. First = t[p] BY <1>1, <1>2, <1>3 DEF First
<1>5. ASSUME NEW i \in 1 .. q - p + 2, NEW c
      PROVE  Found(i, c) <=> i <= q - p + 1 /\ t[p + i - 1] = c
  <2>1. i <= q - p + 1 => i \in 1 .. q - p + 1 OBVIOUS
  <2>2. i <= q - p + 1 => Start[i] = t[p + i - 1] BY <1>1, <2>1
  <2> QED BY <1>1, <2>2 DEF Found
<1> QED BY <1>1, <1>2, <1>4, <1>5

\* The value ends at the same place as for the reference.
LEMMA ValueEnds ==
    ASSUME NEW t \in Seq(Chars), NEW p \in Int, NEW q \in Int, NEW b \in Int,
           1 <= p, p <= q, q <= b, b <= Len(t), \A i \in p .. b : t[i] # "nl",
           NEW c \in p + 1 .. b + 1, NEW r \in p .. q, r < c,
           \A i \in r + 1 .. c - 1 : ~Black(t[i]), c <= b => CommentAt(t, p, c),
           \A i \in p .. c - 1 : ~CommentAt(t, p, i),
           NEW k \in p .. r, t[k] = "=",
           NEW x \in k + 1 .. q + 1, x <= q => StopAt(t, k + 1, x, {}),
           \A i \in k + 1 .. x - 1 : ~StopAt(t, k + 1, i, {})
    PROVE  /\ r < x
           /\ \A i \in k + 1 .. x - 1 : Black(t[i]) => i \in k + 1 .. r
<1>1. r < x
  <2> SUFFICES ASSUME x <= r PROVE FALSE OBVIOUS
  <2>1. CommentAt(t, k + 1, x) BY DEF StopAt
  <2>2. CommentAt(t, p, x) BY <2>1 DEF CommentAt
  <2> QED BY <2>2
<1>2. ASSUME NEW i \in k + 1 .. x - 1, Black(t[i]), i > r PROVE FALSE
  <2>1. c <= i /\ c <= b
    <3> SUFFICES ASSUME i < c PROVE FALSE OBVIOUS
    <3>1. i \in r + 1 .. c - 1 BY <1>2
    <3> QED BY <1>2, <3>1
  <2>2. t[c] = "semi" /\ t[c - 1] \in Space BY <2>1 DEF CommentAt
  <2>3. c > k
    <3> SUFFICES ASSUME c <= k PROVE FALSE OBVIOUS
    <3> QED OBVIOUS
  <2>4. c - 1 # k BY <2>2 DEF Space
  <2>5. c \in k + 1 .. x - 1 /\ c > k + 1 BY <2>1, <2>3, <2>4
  <2>6. StopAt(t, k + 1, c, {}) BY <2>2, <2>5 DEF StopAt, CommentAt
  <2> QED BY <2>5, <2>6
<1>3. ASSUME NEW i \in k + 1 .. x - 1, Black(t[i]) PROVE i \in k + 1 .. r
  <2>1. ~(i > r) BY <1>2, <1>3
  <2> QED BY <2>1
<1> QED BY <1>1, <1>3

\* An assignment is found where the reference has one, with the same words.
LEMMA PairRead ==
    ASSUME NEW t \in Seq(Chars), NEW a \in Int, NEW b \in Int, LineAt(t, a, b),
           NEW p \in Int, NEW q \in Int, Inner(t, a, b, p, q),
           Start = SubSeq(t, p, q), t[p] \notin {"semi", "#", "["}
    PROVE  /\ Found(Separator, "=") =>
                 Assigned(SubSeq(t, a, b)) = <<[name |-> Name, value |-> Value]>>
           /\ ~Found(Separator, "=") => Assigned(SubSeq(t, a, b)) = <<>>
<1>0. /\ 1 <= a /\ a <= b /\ b <= Len(t) /\ p \in a .. b /\ q \in p .. b
      /\ \A i \in p .. b : t[i] # "nl"
  <2>1. 1 <= a /\ b <= Len(t) /\ \A i \in a .. b : t[i] # "nl" BY DEF LineAt
  <2>2. p \in a .. b /\ q \in p .. b BY DEF Inner
  <2> QED BY <2>1, <2>2
<1>n. /\ Len(t) \in Nat /\ 1 <= p /\ p <= q /\ p <= q + 1 /\ q <= b /\ q <= Len(t)
  BY <1>0, LenProperties
<1>s. StartAt(t, p, q) BY <1>n DEF StartAt
<1>c. PICK c \in p + 1 .. b + 1, r \in p .. q : Leaves(t, a, b, p, c, r)
  <2>1. t[p] # "semi" OBVIOUS
  <2> QED BY <2>1, LineLeaves
<1>1. /\ Uncommented(SubSeq(t, a, b)) = SubSeq(t, a, c - 1)
      /\ Strip(SubSeq(t, a, c - 1)) = SubSeq(t, p, r)
      /\ r < c /\ \A i \in r + 1 .. c - 1 : ~Black(t[i])
      /\ c <= b => CommentAt(t, p, c)
      /\ \A i \in p .. c - 1 : ~CommentAt(t, p, i)
  BY <1>c DEF Leaves
<1>k. PICK k \in p .. q + 1 : Stops(t, p, q, {"="}, k) BY <1>n, FindPart
<1>2. /\ find_chars_or_comment(SubSeq(t, p, q), {"="}) = k - p + 1
      /\ k <= q => StopAt(t, p, k, {"="})
      /\ \A i \in p .. k - 1 : ~StopAt(t, p, i, {"="})
  BY <1>k DEF Stops
<1>3. Separator = k - p + 1 BY <1>2 DEF Separator
<1>4. Found(Separator, "=") <=> k <= q /\ t[k] = "="
  <2>1. /\ Separator \in 1 .. q - p + 2 /\ p + Separator - 1 = k
        /\ Separator <= q - p + 1 <=> k <= q
    BY <1>n, <1>3
  <2>2. Found(Separator, "=") <=> Separator <= q - p + 1 /\ t[p + Separator - 1] = "="
    BY <1>s, <2>1, StartIs
  <2> QED BY <2>1, <2>2
<1>5. Strip(Uncommented(SubSeq(t, a, b))) = SubSeq(t, p, r) BY <1>1
<1>r. r \in Int /\ p <= r /\ r <= Len(t) BY <1>n
<1>6. CASE k <= q /\ t[k] = "="
  <2>1. k < c
    <3> SUFFICES ASSUME c <= k PROVE FALSE BY <1>0
    <3>0. c <= b BY <1>n, <1>6
    <3>1. CommentAt(t, p, c) /\ t[c] # "=" BY <1>1, <3>0 DEF CommentAt
    <3>2. c \in p .. k - 1 BY <1>0, <1>6, <3>1
    <3> QED BY <1>2, <3>1, <3>2 DEF StopAt
  <2>2. k \in p .. r
    <3> SUFFICES ASSUME k > r PROVE FALSE BY <1>0
    <3>1. k \in r + 1 .. c - 1 BY <2>1
    <3> QED BY <1>1, <1>6, <3>1 DEF Black, Space
  <2>3. \A i \in p .. k - 1 : t[i] # "=" BY <1>2 DEF StopAt
  <2>4. Assigned(SubSeq(t, a, b)) = <<[name  |-> Strip(SubSeq(t, p, k - 1)),
                                       value |-> Strip(SubSeq(t, k + 1, r))]>>
    BY <1>n, <1>r, <1>5, <1>6, <2>2, <2>3, AssignedPart
  <2>5. Name = Strip(SubSeq(t, p, k - 1))
    <3>1. Name = rstrip(SubSeq(Start, 1, k - p)) BY <1>3 DEF Name
    <3>2. SubSeq(Start, 1, k - p) = SubSeq(t, p + 1 - 1, p + (k - p) - 1)
      BY <1>0, <1>6, PartOfPart
    <3>3. p + 1 - 1 = p /\ p + (k - p) - 1 = k - 1 OBVIOUS
    <3>4. Black(t[p]) BY DEF Inner
    <3>5. k - 1 \in Int /\ p <= k - 1 + 1 /\ k - 1 <= Len(t) BY <1>n
    <3>6. rstrip(SubSeq(t, p, k - 1)) = Strip(SubSeq(t, p, k - 1))
      BY <1>n, <3>4, <3>5, RstripStrips
    <3> QED BY <3>1, <3>2, <3>3, <3>6
  <2>6. Value = Strip(SubSeq(t, k + 1, r))
    <3>1. SubSeq(Start, Separator + 1, Len(Start)) = SubSeq(t, k + 1, q)
      <4>1. Len(Start) = q - p + 1 BY <1>s, StartIs
      <4>2. SubSeq(Start, k - p + 1 + 1, q - p + 1)
              = SubSeq(t, p + (k - p + 1 + 1) - 1, p + (q - p + 1) - 1)
        BY <1>n, <1>6, PartOfPart
      <4>3. p + (k - p + 1 + 1) - 1 = k + 1 /\ p + (q - p + 1) - 1 = q OBVIOUS
      <4> QED BY <1>3, <4>1, <4>2, <4>3
    <3>x. PICK x \in k + 1 .. q + 1 : Stops(t, k + 1, q, {}, x)
      <4>1. /\ k + 1 \in Int /\ 1 <= k + 1 /\ k + 1 <= q + 1 BY <1>n, <1>6
      <4> QED BY <1>n, <4>1, FindPart
    <3>2. /\ find_chars_or_comment(SubSeq(t, k + 1, q), {}) = x - (k + 1) + 1
          /\ x <= q => StopAt(t, k + 1, x, {})
          /\ \A i \in k + 1 .. x - 1 : ~StopAt(t, k + 1, i, {})
      BY <3>x DEF Stops
    <3>3. Value = Strip(SubSeq(SubSeq(t, k + 1, q), 1, x - (k + 1)))
      <4> DEFINE v == SubSeq(Start, Separator + 1, Len(Start))
      <4>1. Value = Strip(SubSeq(v, 1, find_chars_or_comment(v, {}) - 1)) BY DEF Value
      <4>2. v = SubSeq(t, k + 1, q) BY <3>1
      <4> HIDE DEF v
      <4>3. find_chars_or_comment(v, {}) = x - (k + 1) + 1 BY <3>2, <4>2
      <4>4. x - (k + 1) + 1 - 1 = x - (k + 1) BY <1>n
      <4> QED BY <4>1, <4>2, <4>3, <4>4
    <3>4. SubSeq(SubSeq(t, k + 1, q), 1, x - (k + 1)) = SubSeq(t, k + 1, x - 1)
      <4>1. SubSeq(SubSeq(t, k + 1, q), 1, x - (k + 1))
              = SubSeq(t, k + 1 + 1 - 1, k + 1 + (x - (k + 1)) - 1)
        <5>1. /\ k + 1 \in Int /\ 1 <= k + 1 /\ k + 1 <= q + 1
              /\ x - (k + 1) \in Int /\ 1 <= x - (k + 1) + 1 /\ x - (k + 1) <= q - (k + 1) + 1
          BY <1>n, <1>6, <3>2
        <5> QED BY <1>n, <5>1, PartOfPart
      <4>2. k + 1 + 1 - 1 = k + 1 /\ k + 1 + (x - (k + 1)) - 1 = x - 1 OBVIOUS
      <4> QED BY <4>1, <4>2
    <3>5. r < x /\ \A i \in k + 1 .. x - 1 : Black(t[i]) => i \in k + 1 .. r
      BY <1>0, <1>n, <1>1, <1>6, <2>2, <3>2, ValueEnds
    <3>6. Strip(SubSeq(t, k + 1, x - 1)) = Strip(SubSeq(t, k + 1, r))
      <4>1. /\ k + 1 \in Int /\ x - 1 \in Int /\ 1 <= k + 1 /\ k + 1 <= x - 1 + 1
            /\ x - 1 <= Len(t) /\ k + 1 <= r + 1 /\ r <= Len(t) /\ r <= x - 1
        BY <1>n, <2>2, <3>2, <3>5
      <4> DEFINE from == k + 1
                 to   == x - 1
      <4>2. /\ from \in Int /\ to \in Int /\ 1 <= from /\ from <= to + 1 /\ from <= from
            /\ to <= Len(t) /\ from <= r + 1 /\ r <= to
            /\ \A i \in from .. to : Black(t[i]) => i \in from .. r
        BY <3>5, <4>1
      <4> HIDE DEF from, to
      <4>3. Strip(SubSeq(t, from, to)) = Strip(SubSeq(t, from, r)) BY <1>r, <4>2, SameStrip
      <4> QED BY <4>3 DEF from, to
    <3> QED BY <3>3, <3>4, <3>6
  <2> QED BY <1>4, <1>6, <2>4, <2>5, <2>6
<1>7. CASE ~(k <= q /\ t[k] = "=")
  <2>1. ASSUME NEW i \in p .. r, t[i] = "=" PROVE FALSE
    <3>1. StopAt(t, p, i, {"="}) BY <2>1 DEF StopAt
    <3>2. k <= i BY <1>0, <1>2, <3>1
    <3>3. CommentAt(t, p, k) BY <1>0, <1>2, <1>7, <3>2 DEF StopAt
    <3>4. k \in p .. c - 1 BY <1>1, <3>2
    <3> QED BY <1>1, <3>3, <3>4
  <2>2. Assigned(SubSeq(t, a, b)) = <<>> BY <1>n, <1>r, <1>5, <2>1, AssignedPart
  <2> QED BY <1>4, <1>7, <2>2
<1> QED BY <1>6, <1>7

\* A section has no assignment, and has its bracket where the reference has it;
\* what is a section for the parser is a heading when it is not indented.
LEMMA SectionRead ==
    ASSUME NEW t \in Seq(Chars), NEW a \in Int, NEW b \in Int, LineAt(t, a, b),
           NEW p \in Int, NEW q \in Int, Inner(t, a, b, p, q),
           Start = SubSeq(t, p, q), t[p] = "["
    PROVE  /\ Assigned(SubSeq(t, a, b)) = <<>>
           /\ Heading(SubSeq(t, a, b)) <=> Found(SectionEnd, "]")
<1>0. /\ 1 <= a /\ a <= b /\ b <= Len(t) /\ p \in a .. b /\ q \in p .. b
  <2>1. 1 <= a /\ b <= Len(t) BY DEF LineAt
  <2>2. p \in a .. b /\ q \in p .. b BY DEF Inner
  <2> QED BY <2>1, <2>2
<1>n. /\ Len(t) \in Nat /\ 1 <= p /\ p <= q /\ p <= q + 1 /\ q <= b /\ q <= Len(t)
  BY <1>0, LenProperties
<1>s. StartAt(t, p, q) BY <1>n DEF StartAt
<1>c. PICK c \in p + 1 .. b + 1, r \in p .. q : Leaves(t, a, b, p, c, r)
  <2>1. t[p] # "semi" OBVIOUS
  <2> QED BY <2>1, LineLeaves
<1>1. /\ Uncommented(SubSeq(t, a, b)) = SubSeq(t, a, c - 1)
      /\ Strip(SubSeq(t, a, c - 1)) = SubSeq(t, p, r)
      /\ r < c /\ \A i \in r + 1 .. c - 1 : ~Black(t[i])
      /\ c <= b => CommentAt(t, p, c)
      /\ \A i \in p .. c - 1 : ~CommentAt(t, p, i)
  BY <1>c DEF Leaves
<1>2. Assigned(SubSeq(t, a, b)) = <<>>
  <2>1. r \in Int /\ p <= r /\ r <= Len(t) BY <1>n
  <2> QED BY <1>n, <1>1, <2>1, AssignedPart
<1>3. Tail(Start) = SubSeq(t, p + 1, q)
  <2>1. Start \in Seq(Chars) /\ Start # <<>> /\ Len(Start) = q - p + 1
    BY <1>s, StartIs
  <2>2. Tail(Start) = SubSeq(Start, 2, q - p + 1) BY <2>1, TailIsSubSeq
  <2>3. SubSeq(SubSeq(t, p, q), 2, q - p + 1) = SubSeq(t, p + 2 - 1, p + (q - p + 1) - 1)
    <3>1. /\ q - p + 1 \in Int /\ 1 <= 2 /\ 2 <= q - p + 1 + 1 /\ q - p + 1 <= q - p + 1
      BY <1>n
    <3> QED BY <1>n, <3>1, PartOfPart
  <2>4. p + 2 - 1 = p + 1 /\ p + (q - p + 1) - 1 = q OBVIOUS
  <2> QED BY <2>2, <2>3, <2>4
<1>k. PICK k \in p + 1 .. q + 1 : Stops(t, p + 1, q, {"]"}, k)
  <2>1. p + 1 \in Int /\ 1 <= p + 1 /\ p + 1 <= q + 1 BY <1>n
  <2> QED BY <1>n, <2>1, FindPart
<1>4. /\ find_chars_or_comment(SubSeq(t, p + 1, q), {"]"}) = k - (p + 1) + 1
      /\ k <= q => StopAt(t, p + 1, k, {"]"})
      /\ \A i \in p + 1 .. k - 1 : ~StopAt(t, p + 1, i, {"]"})
  BY <1>k DEF Stops
<1>5. SectionEnd = k - p + 1
  <2>1. SectionEnd = k - (p + 1) + 1 + 1 BY <1>3, <1>4 DEF SectionEnd
  <2>2. k - (p + 1) + 1 + 1 = k - p + 1 OBVIOUS
  <2> QED BY <2>1, <2>2
<1>6. Found(SectionEnd, "]") <=> k <= q /\ t[k] = "]"
  <2>1. /\ SectionEnd \in 1 .. q - p + 2 /\ p + SectionEnd - 1 = k
        /\ SectionEnd <= q - p + 1 <=> k <= q
    BY <1>n, <1>5
  <2>2. Found(SectionEnd, "]") <=> SectionEnd <= q - p + 1 /\ t[p + SectionEnd - 1] = "]"
    BY <1>s, <2>1, StartIs
  <2> QED BY <2>1, <2>2
<1> DEFINE d == c - 1
           s == SubSeq(t, a, d)
<1>7. d \in Int /\ a <= d + 1 /\ d <= Len(t) /\ a <= d BY <1>0, <1>n
<1>8. /\ DOMAIN s = 1 .. d - a + 1
      /\ \A i \in 1 .. d - a + 1 : s[i] = t[a + i - 1]
  <2> HIDE DEF d
  <2> QED BY <1>0, <1>7, PartOf
<1>9. ASSUME Heading(SubSeq(t, a, b)) PROVE Found(SectionEnd, "]")
  <2>1. PICK j \in a .. c - 1 : t[j] = "]"
    <3>1. "]" \in Range(s) BY <1>1, <1>9 DEF Heading
    <3> HIDE DEF d
    <3>2. PICK i \in DOMAIN s : s[i] = "]"
      <4> HIDE DEF s
      <4>1. \E i \in DOMAIN s : s[i] = "]" BY <3>1, Zenon DEF Range
      <4> QED BY <4>1
    <3>3. a + i - 1 \in a .. d
      <4> HIDE DEF s
      <4> QED BY <1>7, <1>8
    <3>4. t[a + i - 1] = "]" BY <1>8, <3>2
    <3> QED BY <3>3, <3>4 DEF d
  <2>2. p < j
    <3>1. Black(t[j]) BY <2>1 DEF Black, Space
    <3>2. ~(j \in a .. p - 1) BY <3>1 DEF Inner
    <3>3. j # p BY <2>1
    <3> QED BY <3>2, <3>3
  <2>3. j <= q
    <3>1. Black(t[j]) BY <2>1 DEF Black, Space
    <3>2. ~(j \in q + 1 .. b) BY <3>1 DEF Inner
    <3> QED BY <3>2
  <2>4. k <= j
    <3>1. StopAt(t, p + 1, j, {"]"}) BY <2>1 DEF StopAt
    <3> SUFFICES ASSUME j < k PROVE FALSE OBVIOUS
    <3>2. j \in p + 1 .. k - 1 BY <2>2
    <3> QED BY <1>4, <3>1, <3>2
  <2>5. t[k] = "]"
    <3> SUFFICES ASSUME CommentAt(t, p + 1, k) PROVE FALSE BY <1>4, <2>3, <2>4 DEF StopAt
    <3>1. CommentAt(t, p, k) BY DEF CommentAt
    <3>2. k \in p .. c - 1 BY <2>1, <2>4
    <3> QED BY <1>1, <3>1, <3>2
  <2>6. k <= q BY <2>3, <2>4
  <2> QED BY <1>6, <2>5, <2>6
<1>10. ASSUME Found(SectionEnd, "]") PROVE Heading(SubSeq(t, a, b))
  <2>1. k <= q /\ t[k] = "]" BY <1>6, <1>10
  <2>2. k < c
    <3> SUFFICES ASSUME c <= k PROVE FALSE BY <1>0
    <3>1. CommentAt(t, p, c) BY <1>0, <1>1, <2>1
    <3>2. c # p + 1 BY <3>1 DEF CommentAt, Space
    <3>3. StopAt(t, p + 1, c, {"]"}) BY <3>1, <3>2 DEF StopAt, CommentAt
    <3>4. c # k BY <2>1, <3>1 DEF CommentAt
    <3>5. c \in p + 1 .. k - 1 BY <3>4
    <3> QED BY <1>4, <3>3, <3>5
  <2>3. "]" \in Range(s)
    <3> DEFINE i == k - a + 1
    <3>1. i \in 1 .. d - a + 1 /\ a + i - 1 = k BY <1>0, <2>2
    <3> HIDE DEF i, d
    <3>2. i \in DOMAIN s /\ s[i] = "]" BY <1>8, <2>1, <3>1
    <3> HIDE DEF s
    <3> QED BY <3>2, Zenon DEF Range
  <2>4. "]" \in Range(Uncommented(SubSeq(t, a, b))) BY <1>1, <2>3
  <2>5. Strip(SubSeq(t, a, b)) = Start BY <1>0, <1>n, StripPart
  <2>6. Start # <<>> /\ Start[1] = "["
    <3>1. Start # <<>> /\ First = t[p] BY <1>s, StartIs
    <3> QED BY <3>1 DEF First
  <2> QED BY <2>4, <2>5, <2>6 DEF Heading, Remark
<1> QED BY <1>2, <1>9, <1>10

\* A comment and an empty line mean nothing to the reference.
LEMMA CommentRead ==
    ASSUME NEW t \in Seq(Chars), NEW a \in Int, NEW b \in Int, LineAt(t, a, b),
           NEW p \in Int, NEW q \in Int, Inner(t, a, b, p, q), t[p] \in {"semi", "#"}
    PROVE  Assigned(SubSeq(t, a, b)) = <<>>
<1>0. /\ 1 <= a /\ a <= b /\ b <= Len(t) /\ p \in a .. b /\ q \in p .. b
  <2>1. 1 <= a /\ b <= Len(t) BY DEF LineAt
  <2>2. p \in a .. b /\ q \in p .. b BY DEF Inner
  <2> QED BY <2>1, <2>2
<1>n. Len(t) \in Nat /\ 1 <= p BY <1>0, LenProperties
<1>c. PICK c \in a + 1 .. b + 1 : CutAt(t, a, b, c) BY <1>0, UncommentedPart
<1>1. /\ Uncommented(SubSeq(t, a, b)) = SubSeq(t, a, c - 1)
      /\ c <= b => t[c] = "semi" /\ t[c - 1] = "sp"
      /\ \A i \in a + 1 .. c - 1 : ~(t[i] = "semi" /\ t[i - 1] = "sp")
  BY <1>c DEF CutAt
<1> DEFINE d == c - 1
<1>2. d \in Int /\ a <= d /\ d <= b /\ d <= Len(t) BY <1>0, <1>n
<1>3. CASE p <= d
  <2> HIDE DEF d
  <2>1. Black(t[p]) BY DEF Inner
  <2>2. ~(\A i \in a .. d : ~Black(t[i])) BY <1>0, <1>3, <2>1
  <2>x. PICK x \in a .. d : \E r \in x .. d : Inner(t, a, d, x, r)
    <3>1. 1 <= a /\ a <= d + 1 BY <1>0, <1>2
    <3> QED BY <1>2, <2>2, <3>1, EndsOf
  <2>3. PICK r \in x .. d : Inner(t, a, d, x, r) BY <2>x
  <2>4. /\ x \in a .. d /\ r \in x .. d /\ Black(t[x])
        /\ \A i \in a .. x - 1 : ~Black(t[i])
    BY <2>3 DEF Inner
  <2>5. ~(p < x)
    <3> SUFFICES ASSUME p < x PROVE FALSE OBVIOUS
    <3>1. p \in a .. x - 1 BY <1>0
    <3> QED BY <2>1, <2>4, <3>1
  <2>6. ~(x < p)
    <3> SUFFICES ASSUME x < p PROVE FALSE OBVIOUS
    <3>1. x \in a .. p - 1 BY <1>2
    <3> QED BY <2>4, <3>1 DEF Inner
  <2>7. x = p BY <2>5, <2>6
  <2>8. Strip(SubSeq(t, a, d)) = SubSeq(t, p, r)
    <3>1. Inner(t, a, d, p, r) /\ r \in Int BY <1>2, <2>3, <2>7
    <3> QED BY <1>0, <1>2, <3>1, StripPart
  <2>9. r \in Int /\ p <= r /\ r <= Len(t) BY <1>2, <2>7
  <2>10. Strip(Uncommented(SubSeq(t, a, b))) = SubSeq(t, p, r) BY <1>1, <2>8 DEF d
  <2> QED BY <1>n, <2>9, <2>10, AssignedPart
<1>4. CASE ~(p <= d)
  <2>1. \A i \in a .. d : ~Black(t[i])
    <3> SUFFICES ASSUME NEW i \in a .. d PROVE ~Black(t[i]) OBVIOUS
    <3> HIDE DEF d
    <3>1. i \in a .. p - 1 BY <1>2, <1>4
    <3> QED BY <3>1 DEF Inner
  <2> HIDE DEF d
  <2>2. Strip(SubSeq(t, a, d)) = <<>> BY <1>0, <1>2, <2>1, BlankPart
  <2>3. Strip(Uncommented(SubSeq(t, a, b))) = <<>> BY <1>1, <2>2 DEF d
  <2> QED BY <2>3 DEF Assigned
<1> QED BY <1>3, <1>4

\* A line without a black character has no assignment.
LEMMA BlankRead ==
    ASSUME NEW t \in Seq(Chars), NEW a \in Int, NEW b \in Int, LineAt(t, a, b),
           \A i \in a .. b : ~Black(t[i])
    PROVE  Assigned(SubSeq(t, a, b)) = <<>>
<1>0. 1 <= a /\ a <= b + 1 /\ b <= Len(t) BY DEF LineAt
<1>1. CASE a > b
  <2> DEFINE s == SubSeq(t, a, b)
  <2>1. s = <<>> BY <1>1, SubSeqEmpty
  <2>3. Len(s) = 0 BY <2>1, EmptySeq
  <2>4. Uncommented(s) = <<>>
    <3> DEFINE I == {i \in 2 .. Len(s) : s[i] = "semi" /\ s[i - 1] = "sp"}
    <3>1. I = {}
      <4>1. 2 .. Len(s) = {} BY <2>3
      <4> QED BY <4>1
    <3>2. Min(I \cup {Len(s) + 1}) = 1
      <4>1. I \cup {Len(s) + 1} = {1} BY <2>3, <3>1
      <4> HIDE DEF I, s
      <4>2. {1} \subseteq Int /\ 1 \in {1} /\ \A y \in {1} : 1 <= y OBVIOUS
      <4>3. Min({1}) = 1 BY <4>2, MinIs
      <4> QED BY <4>1, <4>3
    <3>3. Uncommented(s) = SubSeq(s, 1, Min(I \cup {Len(s) + 1}) - 1) BY DEF Uncommented
    <3>4. Uncommented(s) = SubSeq(s, 1, 1 - 1) BY <3>2, <3>3
    <3>5. 1 - 1 < 1 /\ 1 - 1 \in Int OBVIOUS
    <3> QED BY <3>4, <3>5, SubSeqEmpty
  <2>5. Strip(<<>>) = <<>>
    <3>1. <<>> \in Seq(Chars) /\ Len(<<>>) = 0 BY EmptySeq
    <3>2. \A i \in 1 .. Len(<<>>) : ~Black((<<>>)[i]) BY <3>1
    <3> QED BY <3>1, <3>2, StripBlank
  <2> HIDE DEF s
  <2>6. Strip(Uncommented(s)) = <<>> BY <2>4, <2>5
  <2>7. Assigned(s) = <<>> BY <2>6 DEF Assigned
  <2> QED BY <2>7 DEF s
<1>2. CASE a <= b
  <2>c. PICK c \in a + 1 .. b + 1 : CutAt(t, a, b, c) BY <1>0, <1>2, UncommentedPart
  <2>1. Uncommented(SubSeq(t, a, b)) = SubSeq(t, a, c - 1) BY <2>c DEF CutAt
  <2> DEFINE d == c - 1
  <2>2. d \in Int /\ a <= d + 1 /\ d <= Len(t) /\ \A i \in a .. d : ~Black(t[i])
    BY <1>0, LenProperties
  <2> HIDE DEF d
  <2>3. Strip(SubSeq(t, a, d)) = <<>> BY <1>0, <2>2, BlankPart
  <2>4. Strip(Uncommented(SubSeq(t, a, b))) = <<>> BY <2>1, <2>3 DEF d
  <2> QED BY <2>4 DEF Assigned
<1> QED BY <1>1, <1>2

-----------------------------------------------------------------------------
(* fgets, and the types.                                                   *)

\* fgets reads up to the end of a line, of the text or of the buffer.
LEMMA FgetsPart ==
    ASSUME NEW t \in Seq(Chars), NEW i \in 1 .. Len(t)
    PROVE  \E e \in i .. Len(t) :
              /\ Fgets(SubSeq(t, i, Len(t))) = SubSeq(t, i, e)
              /\ \A j \in i .. e - 1 : t[j] # "nl"
              /\ e = Len(t) \/ t[e] = "nl" \/ e = i + max_line - 2
              /\ e <= i + max_line - 2
<1> DEFINE s == SubSeq(t, i, Len(t))
           I == {j \in DOMAIN s : s[j] = "nl"} \cup {max_line - 1, Len(s)}
           m == Min(I)
<1>0. Len(t) \in Nat /\ max_line \in Nat /\ max_line > 1 BY LenProperties, IniAssumption
<1>1. /\ s \in Seq(Chars) /\ Len(s) = Len(t) - i + 1 /\ DOMAIN s = 1 .. Len(t) - i + 1
      /\ \A j \in 1 .. Len(t) - i + 1 : s[j] = t[i + j - 1]
  BY <1>0, PartOf
<1>2. I \subseteq 0 .. Len(t) + max_line /\ I # {} /\ Len(t) + max_line \in Nat
  <2> HIDE DEF s
  <2> QED BY <1>0, <1>1
<1>3. m \in I /\ \A y \in I : m <= y
  <2> HIDE DEF I
  <2> QED BY <1>2, MinOf
<1>4. Fgets(s) = SubSeq(s, 1, m) BY DEF Fgets
<1>5. /\ m \in 1 .. Len(t) - i + 1 /\ m <= max_line - 1
      /\ m = max_line - 1 \/ m = Len(t) - i + 1 \/ s[m] = "nl"
  <2>1. Len(s) \in I /\ max_line - 1 \in I OBVIOUS
  <2> HIDE DEF s, m
  <2> QED BY <1>0, <1>1, <1>3, <2>1
<1>6. ASSUME NEW j \in 1 .. m - 1 PROVE s[j] # "nl"
  <2> SUFFICES ASSUME s[j] = "nl" PROVE FALSE OBVIOUS
  <2>1. j \in DOMAIN s /\ ~(m <= j)
    <3> HIDE DEF s, m
    <3> QED BY <1>1, <1>5
  <2>2. j \in I BY <2>1
  <2> QED BY <1>3, <2>1, <2>2
<1> DEFINE e == i + m - 1
<1> HIDE DEF s, m
<1>7. e \in i .. Len(t) /\ e <= i + max_line - 2 BY <1>0, <1>5
<1>8. e = Len(t) \/ t[e] = "nl" \/ e = i + max_line - 2
  <2>1. s[m] = t[e] BY <1>1, <1>5
  <2> QED BY <1>0, <1>5, <2>1
<1>9. ASSUME NEW j \in i .. e - 1 PROVE t[j] # "nl"
  <2>1. j - i + 1 \in 1 .. m - 1 /\ j - i + 1 \in 1 .. Len(t) - i + 1
        /\ i + (j - i + 1) - 1 = j
    BY <1>0, <1>5
  <2> QED BY <1>1, <1>6, <2>1
<1>10. SubSeq(s, 1, m) = SubSeq(t, i, e)
  <2>1. SubSeq(SubSeq(t, i, Len(t)), 1, m) = SubSeq(t, i + 1 - 1, i + m - 1)
    <3>1. /\ 1 <= i /\ i <= Len(t) + 1 /\ m \in Int /\ 1 <= m + 1 /\ m <= Len(t) - i + 1
          /\ Len(t) \in Int /\ i \in Int
      BY <1>0, <1>5
    <3> QED BY <3>1, PartOfPart
  <2>2. i + 1 - 1 = i OBVIOUS
  <2> QED BY <2>1, <2>2 DEF s
<1> HIDE DEF e
<1> QED BY <1>4, <1>7, <1>8, <1>9, <1>10 DEF s

\* What is stripped of a text is a text.
LEMMA StripSeq ==
    ASSUME NEW s \in Seq(Chars)
    PROVE  Strip(s) \in Seq(Chars) /\ rstrip(s) \in Seq(Chars)
<1>1. Len(s) \in Int /\ 1 <= Len(s) + 1 /\ Len(s) <= Len(s) BY LenProperties
<1>2. SubSeq(s, 1, Len(s)) = s BY WholePart
<1>3. CASE \A i \in 1 .. Len(s) : ~Black(s[i])
  <2>1. Strip(s) = <<>> /\ rstrip(s) = <<>> BY <1>3, StripBlank
  <2> QED BY <2>1, EmptySeq
<1>4. ASSUME NEW p \in 1 .. Len(s), NEW q \in p .. Len(s), Inner(s, 1, Len(s), p, q)
      PROVE  Strip(s) \in Seq(Chars) /\ rstrip(s) \in Seq(Chars)
  <2>1. /\ Strip(SubSeq(s, 1, Len(s))) = SubSeq(s, p, q)
        /\ rstrip(SubSeq(s, 1, Len(s))) = SubSeq(s, 1, q)
    BY <1>1, <1>4, StripPart
  <2>2. /\ p \in Int /\ q \in Int /\ 1 <= p /\ p <= q + 1 /\ 1 <= q + 1 /\ q <= Len(s)
    BY <1>1
  <2>3. SubSeq(s, p, q) \in Seq(Chars) /\ SubSeq(s, 1, q) \in Seq(Chars) BY <2>2, PartOf
  <2> QED BY <1>2, <2>1, <2>3
<1>5. \/ \A i \in 1 .. Len(s) : ~Black(s[i])
      \/ \E p \in 1 .. Len(s) : \E q \in p .. Len(s) : Inner(s, 1, Len(s), p, q)
  <2> DEFINE n == Len(s)
  <2>1. n \in Int /\ 1 <= n + 1 /\ n <= Len(s) /\ 1 \in Int /\ 1 <= 1 BY <1>1
  <2> HIDE DEF n
  <2>2. \/ \A i \in 1 .. n : ~Black(s[i])
        \/ \E p \in 1 .. n : \E q \in p .. n : Inner(s, 1, n, p, q)
    BY <2>1, EndsOf
  <2> QED BY <2>2 DEF n
<1> QED BY <1>3, <1>4, <1>5

\* The end of a name and of a value are in the text or behind it.
LEMMA FindRange ==
    ASSUME NEW s \in Seq(Chars), NEW chars
    PROVE  find_chars_or_comment(s, chars) \in 1 .. Len(s) + 1
<1> DEFINE I == {i \in DOMAIN s : s[i] \in chars \/ IsInlineComment(s, i)} \cup {Len(s) + 1}
<1>1. Len(s) \in Nat /\ DOMAIN s = 1 .. Len(s) BY LenProperties
<1>2. I \subseteq 1 .. Len(s) + 1 /\ I \subseteq 0 .. Len(s) + 1 /\ I # {} BY <1>1
<1>3. Len(s) + 1 \in Nat BY <1>1
<1>4. find_chars_or_comment(s, chars) = Min(I) BY DEF find_chars_or_comment
<1> HIDE DEF I
<1>5. Min(I) \in I BY <1>2, <1>3, MinOf
<1> QED BY <1>2, <1>4, <1>5

\* A name that is kept fits its buffer.
LEMMA CopyFits ==
    ASSUME NEW s \in Seq(Chars)
    PROVE  strncpy0(s, MaxName) \in Seq(Chars) /\ Len(strncpy0(s, MaxName)) < MaxName
<1> DEFINE I == {Len(s), MaxName - 1}
           m == Min(I)
<1>1. Len(s) \in Nat /\ MaxName \in Nat \ {0} BY LenProperties, IniAssumption
<1>2. I \subseteq 0 .. Len(s) + MaxName /\ I # {} /\ Len(s) + MaxName \in Nat BY <1>1
<1>3. m \in I /\ \A y \in I : m <= y
  <2> HIDE DEF I
  <2> QED BY <1>2, MinOf
<1>4. m \in Int /\ 0 <= m /\ m <= Len(s) /\ m <= MaxName - 1
  <2>1. Len(s) \in I /\ MaxName - 1 \in I OBVIOUS
  <2> HIDE DEF m, I
  <2>2. m <= Len(s) /\ m <= MaxName - 1 BY <1>3, <2>1
  <2>3. m \in 0 .. Len(s) + MaxName BY <1>2, <1>3
  <2> QED BY <2>2, <2>3
<1>5. strncpy0(s, MaxName) = SubSeq(s, 1, m) BY DEF strncpy0
<1> HIDE DEF m
<1>6. SubSeq(s, 1, m) \in Seq(Chars) /\ Len(SubSeq(s, 1, m)) = m - 1 + 1 BY <1>4, PartOf
<1> QED BY <1>1, <1>4, <1>5, <1>6

\* What a pass of the loop takes its words from.
LEMMA PassTypes ==
    ASSUME rest \in Seq(Chars), rest # <<>>
    PROVE  /\ Line \in Seq(Chars) /\ Line # <<>> /\ Start \in Seq(Chars)
           /\ SubSeq(rest, Len(Line) + 1, Len(rest)) \in Seq(Chars)
<1>1. Len(rest) \in Nat \ {0} /\ 1 \in 1 .. Len(rest) BY EmptySeq
<1>2. PICK e \in 1 .. Len(rest) : Fgets(SubSeq(rest, 1, Len(rest))) = SubSeq(rest, 1, e)
  BY <1>1, FgetsPart
<1>3. Line = SubSeq(rest, 1, e) BY <1>2, WholePart DEF Line
<1>4. 1 <= e + 1 /\ e <= Len(rest) /\ e \in Int BY <1>1
<1>5. Line \in Seq(Chars) /\ Len(Line) = e BY <1>3, <1>4, PartOf
<1>6. Line # <<>> BY <1>4, <1>5, EmptySeq
<1>7. Unmarked \in Seq(Chars) BY <1>5, <1>6, HeadTailProperties DEF Unmarked
<1>8. Start \in Seq(Chars) BY <1>7, StripSeq DEF Start
<1>9. SubSeq(rest, e + 1, Len(rest)) \in Seq(Chars)
  <2>1. e + 1 \in Int /\ 1 <= e + 1 /\ e + 1 <= Len(rest) + 1 /\ Len(rest) \in Int BY <1>1, <1>4
  <2> QED BY <2>1, PartOf
<1> QED BY <1>5, <1>6, <1>8, <1>9

\* The name and the value of an assignment are words.
LEMMA WordTypes ==
    ASSUME Start \in Seq(Chars), Found(Separator, "=")
    PROVE  Name \in Seq(Chars) /\ Value \in Seq(Chars)
<1>1. Separator \in 1 .. Len(Start) + 1 BY FindRange DEF Separator
<1>2. Len(Start) \in Nat /\ Separator <= Len(Start) BY LenProperties DEF Found
<1> DEFINE d == Separator - 1
           v == SubSeq(Start, Separator + 1, Len(Start))
<1>3. d \in Int /\ 1 <= d + 1 /\ d <= Len(Start) BY <1>1, <1>2
<1>4. SubSeq(Start, 1, d) \in Seq(Chars)
  <2> HIDE DEF d
  <2> QED BY <1>3, PartOf
<1>5. Name \in Seq(Chars) BY <1>4, StripSeq DEF Name
<1>6. v \in Seq(Chars)
  <2> DEFINE k == Separator + 1
  <2>1. k \in Int /\ 1 <= k /\ k <= Len(Start) + 1 /\ Len(Start) \in Int BY <1>1, <1>2
  <2> HIDE DEF k
  <2>2. SubSeq(Start, k, Len(Start)) \in Seq(Chars) BY <2>1, PartOf
  <2> QED BY <2>2 DEF k
<1> HIDE DEF v
<1> DEFINE m == find_chars_or_comment(v, {}) - 1
<1>7. m \in Int /\ 1 <= m + 1 /\ m <= Len(v)
  <2>1. find_chars_or_comment(v, {}) \in 1 .. Len(v) + 1 BY <1>6, FindRange
  <2>2. Len(v) \in Nat BY <1>6, LenProperties
  <2> QED BY <2>1, <2>2
<1>8. SubSeq(v, 1, m) \in Seq(Chars)
  <2> HIDE DEF m
  <2> QED BY <1>6, <1>7, PartOf
<1>9. Value \in Seq(Chars) BY <1>8, StripSeq DEF Value, v
<1> QED BY <1>5, <1>9

\* A call of the handler is kept as a call.
LEMMA CallTypes ==
    ASSUME calls \in Seq(Call), NEW name \in Seq(Chars), NEW value \in Seq(Chars)
    PROVE  Append(calls, [name |-> name, value |-> value]) \in Seq(Call)
<1>1. [name |-> name, value |-> value] \in Call BY DEF Call
<1> QED BY <1>1, AppendProperties

\* The error that is remembered is a line that was read.
LEMMA ErrorRange ==
    ASSUME lineno \in Nat, error \in 0 .. lineno, NEW wrong \in BOOLEAN
    PROVE  ErrorIf(wrong) \in 0 .. lineno + 1
BY DEF ErrorIf

\* TypeOK of IniParse: the kept name never fills its buffer, the error that is
\* reported is a line that was read, and the handler is given words.
THEOREM TypeCorrect == Spec => []TypeOK
<1>1. Init => TypeOK
  <2> SUFFICES ASSUME Init PROVE TypeOK OBVIOUS
  <2>1. <<>> \in Seq(Chars) /\ <<>> \in Seq(Call) /\ Len(<<>>) = 0 BY EmptySeq
  <2>2. 0 < MaxName BY IniAssumption
  <2> QED BY <2>1, <2>2 DEF Init, TypeOK, NotOpened
<1>2. TypeOK /\ [Next]_vars => TypeOK'
  <2> SUFFICES ASSUME TypeOK, [Next]_vars PROVE TypeOK' OBVIOUS
  <2>t. /\ text \in Seq(Chars) /\ rest \in Seq(Chars)
        /\ lineno \in Nat /\ error \in 0 .. lineno
        /\ prev_name \in Seq(Chars) /\ Len(prev_name) < MaxName
        /\ calls \in Seq(Call)
        /\ result \in {NotOpened, Reading, -1} \cup 0 .. lineno
    BY DEF TypeOK
  <2>n. ASSUME NextLine
        PROVE  /\ text' \in Seq(Chars) /\ rest' \in Seq(Chars) /\ lineno' \in Nat
               /\ lineno' = lineno + 1
               /\ result' \in {NotOpened, Reading, -1} \cup 0 .. lineno'
               /\ Start \in Seq(Chars)
               /\ \A wrong \in BOOLEAN : ErrorIf(wrong) \in 0 .. lineno'
               /\ error \in 0 .. lineno'
    <3>1. rest # <<>> /\ result = Reading /\ lineno' = lineno + 1
          /\ rest' = SubSeq(rest, Len(Line) + 1, Len(rest)) /\ text' = text /\ result' = result
      BY <2>n DEF NextLine
    <3>2. rest' \in Seq(Chars) /\ Start \in Seq(Chars) BY <2>t, <3>1, PassTypes
    <3>3. \A wrong \in BOOLEAN : ErrorIf(wrong) \in 0 .. lineno + 1 BY <2>t, ErrorRange
    <3>4. error \in 0 .. lineno + 1 BY <2>t
    <3> QED BY <2>t, <3>1, <3>2, <3>3, <3>4
  <2>1. CASE Comment BY <2>t, <2>n, <2>1 DEF Comment, TypeOK
  <2>2. CASE Continuation
    <3>1. NextLine /\ CallHandler(prev_name, Start) /\ prev_name' = prev_name
      BY <2>2 DEF Continuation
    <3>2. /\ calls' = Append(calls, [name |-> prev_name, value |-> Start])
          /\ \E answer \in BOOLEAN : error' = ErrorIf(~answer)
      BY <3>1 DEF CallHandler
    <3>3. calls' \in Seq(Call) BY <2>t, <2>n, <3>1, <3>2, CallTypes
    <3> QED BY <2>t, <2>n, <3>1, <3>2, <3>3 DEF TypeOK
  <2>3. CASE Section
    <3>1. NextLine /\ prev_name' = <<>> /\ error' = error /\ calls' = calls
      BY <2>3 DEF Section
    <3>2. <<>> \in Seq(Chars) /\ Len(<<>>) < MaxName BY IniAssumption, EmptySeq
    <3> QED BY <2>t, <2>n, <3>1, <3>2 DEF TypeOK
  <2>4. CASE Assignment
    <3>1. /\ NextLine /\ CallHandler(Name, Value) /\ Found(Separator, "=")
          /\ prev_name' = strncpy0(Name, MaxName)
      BY <2>4 DEF Assignment
    <3>2. /\ calls' = Append(calls, [name |-> Name, value |-> Value])
          /\ \E answer \in BOOLEAN : error' = ErrorIf(~answer)
      BY <3>1 DEF CallHandler
    <3>3. Name \in Seq(Chars) /\ Value \in Seq(Chars) BY <2>n, <3>1, WordTypes
    <3>4. calls' \in Seq(Call) BY <2>t, <3>2, <3>3, CallTypes
    <3>5. prev_name' \in Seq(Chars) /\ Len(prev_name') < MaxName BY <3>1, <3>3, CopyFits
    <3> QED BY <2>n, <3>1, <3>2, <3>4, <3>5 DEF TypeOK
  <2>5. CASE Malformed BY <2>t, <2>n, <2>5 DEF Malformed, TypeOK
  <2>6. CASE Open
    <3>1. PICK t \in Texts : text' = t /\ rest' = t BY <2>6 DEF Open
    <3>2. t \in Seq(Chars) BY IniAssumption
    <3> QED BY <2>t, <2>6, <3>1, <3>2 DEF Open, TypeOK
  <2>7. CASE OpenFails BY <2>t, <2>7 DEF OpenFails, TypeOK
  <2>8. CASE Close BY <2>t, <2>8 DEF Close, TypeOK
  <2>9. CASE UNCHANGED vars BY <2>t, <2>9 DEF vars, TypeOK
  <2> QED BY <2>1, <2>2, <2>3, <2>4, <2>5, <2>6, <2>7, <2>8, <2>9 DEF Next
<1> QED BY <1>1, <1>2, PTL DEF Spec

-----------------------------------------------------------------------------
(* The lines of a file.                                                    *)

\* A file without the mark, the places where its lines start, and where the
\* line that starts at i ends.
Body(t) == IF t # <<>> /\ t[1] = "bom" THEN Tail(t) ELSE t

Starts(u) == {i \in 1 .. Len(u) : i = 1 \/ u[i - 1] = "nl"}

EndOf(u, i) == Min({j \in i .. Len(u) : u[j] = "nl"} \cup {Len(u) + 1})

UpToStart(u, i) == {j \in Starts(u) : j <= i}

\* The n-th line starts at i.
NthStart(u, n, i) == i \in Starts(u) /\ Cardinality(UpToStart(u, i)) = n

\* They are finitely many.
LEMMA StartsFinite ==
    ASSUME NEW u \in Seq(Chars), NEW i
    PROVE  /\ IsFiniteSet(Starts(u)) /\ Cardinality(Starts(u)) \in Nat
           /\ IsFiniteSet(UpToStart(u, i)) /\ Cardinality(UpToStart(u, i)) \in Nat
           /\ UpToStart(u, i) \subseteq Starts(u) /\ Starts(u) \subseteq 1 .. Len(u)
           /\ Cardinality(UpToStart(u, i)) <= Cardinality(Starts(u))
<1>1. Len(u) \in Nat BY LenProperties
<1>2. Starts(u) \subseteq 1 .. Len(u) BY DEF Starts
<1>3. IsFiniteSet(1 .. Len(u)) BY <1>1, FS_Interval
<1>4. IsFiniteSet(Starts(u)) BY <1>2, <1>3, FS_Subset
<1>5. UpToStart(u, i) \subseteq Starts(u) BY DEF UpToStart
<1>6. /\ IsFiniteSet(UpToStart(u, i))
      /\ Cardinality(UpToStart(u, i)) <= Cardinality(Starts(u))
  BY <1>4, <1>5, FS_Subset
<1> QED BY <1>2, <1>4, <1>5, <1>6, FS_CardinalityType

\* The first line starts at 1.
LEMMA FirstStart ==
    ASSUME NEW u \in Seq(Chars), u # <<>>
    PROVE  NthStart(u, 1, 1)
<1>1. Len(u) \in Nat \ {0} BY EmptySeq
<1>2. 1 \in Starts(u) BY <1>1 DEF Starts
<1>3. UpToStart(u, 1) = {1} BY <1>2 DEF UpToStart, Starts
<1>4. Cardinality({1}) = 1 BY FS_Singleton
<1> QED BY <1>2, <1>3, <1>4 DEF NthStart

\* The next one starts behind the end of the line.
LEMMA NextStart ==
    ASSUME NEW u \in Seq(Chars), NEW n \in Nat, NEW i \in Int, NthStart(u, n, i),
           NEW e \in Int, i <= e, e < Len(u), u[e] = "nl", \A j \in i .. e - 1 : u[j] # "nl"
    PROVE  NthStart(u, n + 1, e + 1)
<1>1. i \in Starts(u) /\ Cardinality(UpToStart(u, i)) = n BY DEF NthStart
<1>2. Len(u) \in Nat /\ i \in 1 .. Len(u) BY <1>1, LenProperties DEF Starts
<1>3. e + 1 \in 1 .. Len(u) /\ e + 1 - 1 = e BY <1>2
<1>4. e + 1 \in Starts(u) BY <1>3 DEF Starts
<1>5. UpToStart(u, e + 1) = UpToStart(u, i) \cup {e + 1}
  <2>1. ASSUME NEW j \in Starts(u), j <= e + 1, j # e + 1 PROVE j <= i
    <3> SUFFICES ASSUME j > i PROVE FALSE BY <1>2 DEF Starts
    <3>1. j \in 1 .. Len(u) /\ (j = 1 \/ u[j - 1] = "nl") BY DEF Starts
    <3>2. j - 1 \in i .. e - 1 BY <1>2, <2>1, <3>1
    <3>3. j # 1 BY <1>2
    <3> QED BY <3>1, <3>2, <3>3
  <2>2. ASSUME NEW j \in Starts(u), j <= i PROVE j <= e + 1 BY <1>2, <2>2 DEF Starts
  <2> QED BY <1>3, <1>4, <2>1, <2>2 DEF UpToStart
<1>6. e + 1 \notin UpToStart(u, i) BY <1>2 DEF UpToStart
<1>7. IsFiniteSet(UpToStart(u, i)) BY StartsFinite
<1>8. Cardinality(UpToStart(u, i) \cup {e + 1}) = n + 1 BY <1>1, <1>6, <1>7, FS_AddElement
<1> QED BY <1>4, <1>5, <1>8 DEF NthStart

\* Without a further end there is no further line.
LEMMA LastStart ==
    ASSUME NEW u \in Seq(Chars), NEW n \in Nat, NEW i \in Int, NthStart(u, n, i),
           \A j \in i .. Len(u) - 1 : u[j] # "nl"
    PROVE  Cardinality(Starts(u)) = n
<1>1. i \in Starts(u) /\ Cardinality(UpToStart(u, i)) = n BY DEF NthStart
<1>2. Len(u) \in Nat /\ i \in 1 .. Len(u) BY <1>1, LenProperties DEF Starts
<1>3. ASSUME NEW j \in Starts(u) PROVE j <= i
  <2> SUFFICES ASSUME j > i PROVE FALSE BY <1>2 DEF Starts
  <2>1. j \in 1 .. Len(u) /\ (j = 1 \/ u[j - 1] = "nl") BY DEF Starts
  <2>2. j - 1 \in i .. Len(u) - 1 /\ j # 1 BY <1>2, <2>1
  <2> QED BY <2>1, <2>2
<1>4. UpToStart(u, i) = Starts(u) BY <1>3 DEF UpToStart
<1> QED BY <1>1, <1>4

\* Two starts with the same number are the same.
LEMMA OneStart ==
    ASSUME NEW u \in Seq(Chars), NEW n, NEW i, NthStart(u, n, i), NEW j, NthStart(u, n, j)
    PROVE  i = j
<1>1. /\ i \in Starts(u) /\ j \in Starts(u) /\ i \in Int /\ j \in Int
      /\ Cardinality(UpToStart(u, i)) = n /\ Cardinality(UpToStart(u, j)) = n
  BY DEF NthStart, Starts
<1>2. ASSUME NEW x \in Starts(u), NEW y \in Starts(u), x < y,
             Cardinality(UpToStart(u, x)) = Cardinality(UpToStart(u, y))
      PROVE  FALSE
  <2>0. x \in Int /\ y \in Int BY DEF Starts
  <2>1. UpToStart(u, x) \subseteq UpToStart(u, y)
    <3> SUFFICES ASSUME NEW k \in Starts(u), k <= x PROVE k <= y BY DEF UpToStart
    <3>1. k \in Int BY DEF Starts
    <3> QED BY <1>2, <2>0, <3>1
  <2>2. y \in UpToStart(u, y) /\ y \notin UpToStart(u, x) BY <1>2, <2>0 DEF UpToStart
  <2>3. IsFiniteSet(UpToStart(u, y)) BY StartsFinite
  <2>4. UpToStart(u, x) = UpToStart(u, y) BY <1>2, <2>1, <2>3, FS_Subset
  <2> QED BY <2>2, <2>4
<1>3. ~(i < j) BY <1>1, <1>2
<1>4. ~(j < i) BY <1>1, <1>2
<1> QED BY <1>1, <1>3, <1>4

\* The reference's lines, by the places where they start.
LEMMA LinesAre ==
    ASSUME NEW t \in Seq(Chars)
    PROVE  /\ DOMAIN FileLines(t) = 1 .. Cardinality(Starts(Body(t)))
           /\ \A n \in Nat, i \in Int :
                 NthStart(Body(t), n, i) =>
                     /\ n \in DOMAIN FileLines(t)
                     /\ FileLines(t)[n] = SubSeq(Body(t), i, EndOf(Body(t), i) - 1)
<1> DEFINE u == Body(t)
           K == Cardinality(Starts(u))
           Pick(n) == CHOOSE i \in Starts(u) : Cardinality(UpToStart(u, i)) = n
<1>1. u \in Seq(Chars) BY HeadTailProperties DEF Body
<1>2. FileLines(t) = [n \in 1 .. K |-> SubSeq(u, Pick(n), EndOf(u, Pick(n)) - 1)]
  BY DEF FileLines, Body, Starts, UpToStart, EndOf
<1>3. ASSUME NEW n \in Nat, NEW i \in Int, NthStart(u, n, i)
      PROVE  n \in 1 .. K /\ Pick(n) = i
  <2>1. i \in Starts(u) /\ Cardinality(UpToStart(u, i)) = n BY <1>3 DEF NthStart
  <2>2. n <= K /\ K \in Nat
    <3> HIDE DEF u
    <3> QED BY <1>1, <2>1, StartsFinite
  <2>3. n # 0
    <3>1. i \in UpToStart(u, i) BY <2>1 DEF UpToStart
    <3>2. IsFiniteSet(UpToStart(u, i))
      <4> HIDE DEF u
      <4> QED BY <1>1, StartsFinite
    <3> QED BY <2>1, <3>1, <3>2, FS_EmptySet
  <2>4. Pick(n) \in Starts(u) /\ Cardinality(UpToStart(u, Pick(n))) = n BY <2>1
  <2>5. NthStart(u, n, Pick(n)) BY <2>4 DEF NthStart
  <2>6. Pick(n) = i
    <3> HIDE DEF u, Pick
    <3> QED BY <1>1, <1>3, <2>5, OneStart
  <2> QED BY <2>2, <2>3, <2>6
<1> HIDE DEF u, K, Pick
<1>4. DOMAIN FileLines(t) = 1 .. K BY <1>2
<1>5. ASSUME NEW n \in Nat, NEW i \in Int, NthStart(u, n, i)
      PROVE  n \in DOMAIN FileLines(t) /\ FileLines(t)[n] = SubSeq(u, i, EndOf(u, i) - 1)
  BY <1>2, <1>3, <1>4, <1>5
<1> QED BY <1>4, <1>5 DEF u, K

\* A line without its end.
LEMMA LineIs ==
    ASSUME NEW u \in Seq(Chars), NEW i \in Int, NEW e \in Int, 1 <= i, i <= e, e <= Len(u),
           \A j \in i .. e - 1 : u[j] # "nl", e = Len(u) \/ u[e] = "nl"
    PROVE  \E b \in Int :
              /\ b = EndOf(u, i) - 1 /\ LineAt(u, i, b) /\ i - 1 <= b /\ b <= e
              /\ b < e => b = e - 1 /\ u[e] = "nl"
              /\ Strip(SubSeq(u, i, e)) = Strip(SubSeq(u, i, b))
<1> DEFINE b == IF u[e] = "nl" THEN e - 1 ELSE e
           I == {j \in i .. Len(u) : u[j] = "nl"} \cup {Len(u) + 1}
<1>1. Len(u) \in Nat BY LenProperties
<1>2. /\ b \in Int /\ i - 1 <= b /\ b <= e /\ b <= Len(u)
      /\ b < e => b = e - 1 /\ u[e] = "nl"
      /\ b = e => u[e] # "nl"
      /\ b = e - 1 => u[e] = "nl"
  BY <1>1
<1>3. b + 1 \in I BY <1>1
<1>4. \A j \in i .. b : u[j] # "nl" BY <1>1
<1> HIDE DEF b
<1>5. I \subseteq Int BY <1>1
<1>6. ASSUME NEW j \in I PROVE b + 1 <= j
  <2> SUFFICES ASSUME j < b + 1 PROVE FALSE BY <1>2, <1>5
  <2>1. j = Len(u) + 1 \/ (j \in i .. Len(u) /\ u[j] = "nl") OBVIOUS
  <2>2. j \in i .. b BY <1>1, <1>2, <2>1
  <2> QED BY <1>1, <1>2, <1>4, <2>1, <2>2
<1>7. EndOf(u, i) = b + 1
  <2>1. EndOf(u, i) = Min(I) BY DEF EndOf
  <2> HIDE DEF I
  <2> QED BY <1>3, <1>5, <1>6, <2>1, MinIs
<1>8. LineAt(u, i, b) BY <1>2, <1>4 DEF LineAt
<1>9. Strip(SubSeq(u, i, e)) = Strip(SubSeq(u, i, b))
  <2>1. CASE b = e BY <2>1
  <2>2. CASE b = e - 1
    <3>1. ~Black(u[e]) BY <1>2, <2>2 DEF Black, Space
    <3>2. \A j \in i .. e : Black(u[j]) => j \in i .. b BY <2>2, <3>1
    <3>3. i <= e + 1 /\ i <= b + 1 /\ i <= i /\ b <= e /\ b <= Len(u) BY <1>2
    <3> QED BY <1>2, <3>2, <3>3, SameStrip
  <2> QED BY <1>2, <2>1, <2>2
<1>10. b = EndOf(u, i) - 1 BY <1>2, <1>7
<1> QED BY <1>2, <1>8, <1>9, <1>10

-----------------------------------------------------------------------------
(* A pass of the loop reads a line of the file.                            *)

\* Every part of a text that could fill the buffer has an end of a line.
Short(u) == \A i \in 1 .. Len(u) : i + max_line - 2 <= Len(u) =>
                \E j \in i .. i + max_line - 2 : u[j] = "nl"

\* A file without its mark is a part of it.
LEMMA BodyIs ==
    ASSUME NEW t \in Seq(Chars)
    PROVE  /\ Body(t) \in Seq(Chars)
           /\ t # <<>> /\ t[1] = "bom" => /\ Body(t) = SubSeq(t, 2, Len(t))
                                          /\ Len(Body(t)) = Len(t) - 1
                                          /\ \A i \in 1 .. Len(t) - 1 : Body(t)[i] = t[i + 1]
           /\ ~(t # <<>> /\ t[1] = "bom") => Body(t) = t
<1>1. CASE t # <<>> /\ t[1] = "bom"
  <2>1. Body(t) = SubSeq(t, 2, Len(t)) BY <1>1, WholePart DEF Body
  <2>2. 1 <= 2 /\ 2 <= Len(t) + 1 /\ Len(t) \in Int /\ Len(t) <= Len(t) BY <1>1, EmptySeq
  <2>3. /\ SubSeq(t, 2, Len(t)) \in Seq(Chars) /\ Len(SubSeq(t, 2, Len(t))) = Len(t) - 2 + 1
        /\ \A i \in 1 .. Len(t) - 2 + 1 : SubSeq(t, 2, Len(t))[i] = t[2 + i - 1]
    <3> DEFINE n == Len(t)
    <3>1. 2 \in Int /\ n \in Int /\ 1 <= 2 /\ 2 <= n + 1 /\ n <= Len(t) BY <2>2
    <3> HIDE DEF n
    <3>2. /\ SubSeq(t, 2, n) \in Seq(Chars) /\ Len(SubSeq(t, 2, n)) = n - 2 + 1
          /\ \A i \in 1 .. n - 2 + 1 : SubSeq(t, 2, n)[i] = t[2 + i - 1]
      BY <3>1, PartOf
    <3> QED BY <3>2 DEF n
  <2>4. \A i \in 1 .. Len(t) - 1 : SubSeq(t, 2, Len(t))[i] = t[i + 1]
    <3> SUFFICES ASSUME NEW i \in 1 .. Len(t) - 1 PROVE SubSeq(t, 2, Len(t))[i] = t[i + 1]
      OBVIOUS
    <3>1. i \in 1 .. Len(t) - 2 + 1 /\ 2 + i - 1 = i + 1 BY <2>2
    <3> QED BY <2>3, <3>1
  <2>5. Len(t) - 2 + 1 = Len(t) - 1 BY <2>2
  <2> QED BY <1>1, <2>1, <2>3, <2>4, <2>5
<1>2. CASE ~(t # <<>> /\ t[1] = "bom") BY <1>2 DEF Body
<1> QED BY <1>1, <1>2

\* The mark is not the end of a line, so that without it the lines stay short.
LEMMA BodyShort ==
    ASSUME text \in Seq(Chars), ShortLines
    PROVE  Short(text) /\ Short(Body(text))
<1>1. Len(text) \in Nat /\ DOMAIN text = 1 .. Len(text) /\ max_line \in Nat
  BY LenProperties, IniAssumption
<1>2. Short(text) BY <1>1 DEF ShortLines, Short
<1>3. CASE text # <<>> /\ text[1] = "bom"
  <2> DEFINE u == Body(text)
  <2>1. Len(u) = Len(text) - 1 /\ \A i \in 1 .. Len(text) - 1 : u[i] = text[i + 1]
    BY <1>3, BodyIs
  <2> HIDE DEF u
  <2>2. ASSUME NEW i \in 1 .. Len(u), i + max_line - 2 <= Len(u)
        PROVE  \E j \in i .. i + max_line - 2 : u[j] = "nl"
    <3>1. /\ i + 1 \in 1 .. Len(text) /\ (i + 1) + max_line - 2 <= Len(text)
      BY <1>1, <2>1, <2>2
    <3>2. PICK j \in i + 1 .. (i + 1) + max_line - 2 : text[j] = "nl" BY <1>2, <3>1 DEF Short
    <3>3. j - 1 \in i .. i + max_line - 2 /\ j - 1 \in 1 .. Len(text) - 1 /\ j - 1 + 1 = j
      BY <1>1, <3>1, <3>2
    <3>4. u[j - 1] = "nl" BY <2>1, <3>2, <3>3
    <3> QED BY <3>3, <3>4
  <2>3. Short(u) BY <2>2 DEF Short
  <2> QED BY <1>2, <2>3 DEF u
<1>4. CASE ~(text # <<>> /\ text[1] = "bom")
  <2>1. Body(text) = text BY <1>4, BodyIs
  <2> QED BY <1>2, <2>1
<1> QED BY <1>3, <1>4

\* fgets reads from i to the end of the line.
LEMMA PassAt ==
    ASSUME NEW u \in Seq(Chars), Short(u), NEW i \in 1 .. Len(u), rest = SubSeq(u, i, Len(u))
    PROVE  \E e \in i .. Len(u) :
              /\ Line = SubSeq(u, i, e) /\ Len(Line) = e - i + 1 /\ Line[1] = u[i]
              /\ \A j \in i .. e - 1 : u[j] # "nl"
              /\ e = Len(u) \/ u[e] = "nl"
              /\ SubSeq(rest, Len(Line) + 1, Len(rest)) = SubSeq(u, e + 1, Len(u))
<1>0. Len(u) \in Nat /\ max_line \in Nat BY LenProperties, IniAssumption
<1>1. PICK e \in i .. Len(u) :
         /\ Fgets(SubSeq(u, i, Len(u))) = SubSeq(u, i, e)
         /\ \A j \in i .. e - 1 : u[j] # "nl"
         /\ e = Len(u) \/ u[e] = "nl" \/ e = i + max_line - 2
         /\ e <= i + max_line - 2
  BY FgetsPart
<1>2. Line = SubSeq(u, i, e) BY <1>1 DEF Line
<1>3. /\ 1 <= i /\ i <= e + 1 /\ e <= Len(u) /\ i \in Int /\ e \in Int
      /\ i <= Len(u) + 1 /\ Len(u) \in Int /\ Len(u) <= Len(u)
  BY <1>0
<1>4. Len(Line) = e - i + 1 /\ \A j \in 1 .. e - i + 1 : Line[j] = u[i + j - 1]
  BY <1>2, <1>3, PartOf
<1>5. Line[1] = u[i]
  <2>1. 1 \in 1 .. e - i + 1 /\ i + 1 - 1 = i BY <1>0
  <2> QED BY <1>4, <2>1
<1>6. e = Len(u) \/ u[e] = "nl"
  <2> SUFFICES ASSUME e = i + max_line - 2 PROVE u[e] = "nl" BY <1>1
  <2>1. PICK j \in i .. e : u[j] = "nl" BY <1>3 DEF Short
  <2>2. j = e \/ j \in i .. e - 1 BY <1>0
  <2> QED BY <1>1, <2>1, <2>2
<1>7. Len(rest) = Len(u) - i + 1 BY <1>3, PartOf
<1>8. SubSeq(rest, e - i + 1 + 1, Len(u) - i + 1) = SubSeq(u, e + 1, Len(u))
  <2> DEFINE m == e - i + 1 + 1
             n == Len(u) - i + 1
  <2>1. m \in Int /\ n \in Int /\ 1 <= m /\ m <= n + 1 /\ n <= Len(u) - i + 1 BY <1>0
  <2>2. i + m - 1 = e + 1 /\ i + n - 1 = Len(u) BY <1>0
  <2> HIDE DEF m, n
  <2>3. SubSeq(SubSeq(u, i, Len(u)), m, n) = SubSeq(u, i + m - 1, i + n - 1)
    BY <1>3, <2>1, PartOfPart
  <2> QED BY <2>2, <2>3 DEF m, n
<1>9. SubSeq(rest, Len(Line) + 1, Len(rest)) = SubSeq(u, e + 1, Len(u))
  BY <1>4, <1>7, <1>8
<1> QED BY <1>1, <1>2, <1>4, <1>5, <1>6, <1>9

\* What is left to read begins with the next line.
Where ==
    LET u == Body(text)
    IN  /\ lineno = 0 => rest = text
        /\ lineno > 0 /\ rest # <<>> =>
              \E i \in 1 .. Len(u) : NthStart(u, lineno + 1, i) /\ rest = SubSeq(u, i, Len(u))
        /\ lineno > 0 /\ rest = <<>> => lineno = Cardinality(Starts(u)) \/ u = <<>>

\* The pass reads the line from i to e.
Reads(u, i, e) ==
    /\ NthStart(u, lineno + 1, i) /\ e \in i .. Len(u)
    /\ \A j \in i .. e - 1 : u[j] # "nl"
    /\ e = Len(u) \/ u[e] = "nl"
    /\ Unmarked = SubSeq(u, i, e)
    /\ lineno > 0 => Line[1] = u[i]
    /\ SubSeq(rest, Len(Line) + 1, Len(rest)) = SubSeq(u, e + 1, Len(u))

\* Every pass reads a line, except for that of a file with nothing but a mark.
LEMMA Pass ==
    ASSUME text \in Seq(Chars), lineno \in Nat, ShortLines, Where, rest # <<>>
    PROVE  \/ /\ Body(text) = <<>> /\ lineno = 0 /\ Unmarked = <<>>
              /\ SubSeq(rest, Len(Line) + 1, Len(rest)) = <<>>
           \/ \E i \in Int : \E e \in Int : Reads(Body(text), i, e)
<1> DEFINE u == Body(text)
<1>1. u \in Seq(Chars) /\ Short(text) /\ Short(u) BY BodyIs, BodyShort
<1>2. ASSUME NEW i \in 1 .. Len(u), NthStart(u, lineno + 1, i), rest = SubSeq(u, i, Len(u)),
             ~(lineno = 0 /\ u[i] = "bom")
      PROVE  \E e \in Int : Reads(u, i, e)
  <2> HIDE DEF u
  <2>1. PICK e \in i .. Len(u) :
           /\ Line = SubSeq(u, i, e) /\ Line[1] = u[i]
           /\ \A j \in i .. e - 1 : u[j] # "nl"
           /\ e = Len(u) \/ u[e] = "nl"
           /\ SubSeq(rest, Len(Line) + 1, Len(rest)) = SubSeq(u, e + 1, Len(u))
    BY <1>1, <1>2, PassAt
  <2>2. Unmarked = Line BY <1>2, <2>1 DEF Unmarked
  <2> QED BY <1>2, <2>1, <2>2 DEF Reads
<1>3. CASE lineno > 0
  <2>1. PICK i \in 1 .. Len(u) : NthStart(u, lineno + 1, i) /\ rest = SubSeq(u, i, Len(u))
    BY <1>3 DEF Where
  <2>2. \E e \in Int : Reads(u, i, e) BY <1>2, <1>3, <2>1
  <2> QED BY <2>2
<1>4. CASE lineno = 0 /\ text[1] # "bom"
  <2>1. rest = text /\ u = text BY <1>4, BodyIs DEF Where
  <2>2. u # <<>> /\ rest = SubSeq(u, 1, Len(u)) /\ u[1] # "bom" BY <1>1, <1>4, <2>1, WholePart
  <2>3. Len(u) \in Nat \ {0}
    <3> HIDE DEF u
    <3> QED BY <1>1, <2>2, EmptySeq
  <2>4. NthStart(u, 1, 1)
    <3> HIDE DEF u
    <3> QED BY <1>1, <2>2, FirstStart
  <2>5. 1 \in 1 .. Len(u) /\ lineno + 1 = 1 BY <1>4, <2>3
  <2>6. \E e \in Int : Reads(u, 1, e) BY <1>2, <2>2, <2>4, <2>5
  <2> QED BY <2>6
<1>5. CASE lineno = 0 /\ text[1] = "bom"
  <2>1. rest = text BY <1>5 DEF Where
  <2>2. /\ u = SubSeq(text, 2, Len(text)) /\ Len(u) = Len(text) - 1
        /\ \A i \in 1 .. Len(text) - 1 : u[i] = text[i + 1]
    BY <1>5, <2>1, BodyIs
  <2>3. Len(text) \in Nat \ {0} /\ 1 \in 1 .. Len(text) BY <2>1, EmptySeq
  <2>4. rest = SubSeq(text, 1, Len(text)) BY <2>1, WholePart
  <2>5. PICK f \in 1 .. Len(text) :
           /\ Line = SubSeq(text, 1, f) /\ Len(Line) = f - 1 + 1 /\ Line[1] = text[1]
           /\ \A j \in 1 .. f - 1 : text[j] # "nl"
           /\ f = Len(text) \/ text[f] = "nl"
           /\ SubSeq(rest, Len(Line) + 1, Len(rest)) = SubSeq(text, f + 1, Len(text))
    BY <1>1, <2>3, <2>4, PassAt
  <2>6. f \in Int /\ 1 <= f /\ 1 <= f + 1 /\ 2 <= f + 1 /\ f <= Len(text) BY <2>3
  <2>7. Unmarked = SubSeq(text, 2, f)
    <3>1. Line \in Seq(Chars) /\ Len(Line) = f BY <2>5, <2>6, PartOf
    <3>2. Line # <<>> BY <2>6, <3>1, EmptySeq
    <3>3. Unmarked = SubSeq(Line, 2, f) BY <1>5, <2>5, <3>1, <3>2, WholePart DEF Unmarked
    <3>4. SubSeq(SubSeq(text, 1, f), 2, f) = SubSeq(text, 1 + 2 - 1, 1 + f - 1)
      <4>1. 1 <= 1 /\ 1 <= 2 /\ f <= f - 1 + 1 BY <2>6
      <4> QED BY <2>6, <4>1, PartOfPart
    <3>5. 1 + 2 - 1 = 2 /\ 1 + f - 1 = f BY <2>6
    <3> QED BY <2>5, <3>3, <3>4, <3>5
  <2>8. CASE f = 1
    <3>1. f = Len(text) BY <1>5, <2>5, <2>8
    <3>2. 1 < 2 /\ 1 \in Int /\ 2 \in Int OBVIOUS
    <3>3. SubSeq(text, 2, 1) = <<>> BY <3>2, SubSeqEmpty
    <3>4. f + 1 = 2 /\ Len(text) = 1 BY <2>8, <3>1
    <3> QED BY <1>5, <2>2, <2>5, <2>7, <2>8, <3>3, <3>4
  <2>9. CASE f # 1
    <3> DEFINE e == f - 1
    <3>1. e \in 1 .. Len(u) /\ e + 1 = f BY <2>2, <2>6, <2>9
    <3>2. \A a \in 1 .. Len(u), b \in 0 .. Len(u) :
             a <= b + 1 => SubSeq(u, a, b) = SubSeq(text, a + 1, b + 1)
      <4> SUFFICES ASSUME NEW a \in 1 .. Len(u), NEW b \in 0 .. Len(u), a <= b + 1
                   PROVE  SubSeq(u, a, b) = SubSeq(text, a + 1, b + 1)
        OBVIOUS
      <4> HIDE DEF e, u
      <4>1. /\ 2 \in Int /\ Len(text) \in Int /\ 1 <= 2 /\ 2 <= Len(text) + 1
            /\ Len(text) <= Len(text) /\ a \in Int /\ b \in Int /\ 1 <= a
            /\ b <= Len(text) - 2 + 1
        BY <2>2, <2>3
      <4>2. SubSeq(SubSeq(text, 2, Len(text)), a, b) = SubSeq(text, 2 + a - 1, 2 + b - 1)
        BY <4>1, PartOfPart
      <4>3. 2 + a - 1 = a + 1 /\ 2 + b - 1 = b + 1 BY <4>1
      <4> QED BY <2>2, <4>2, <4>3
    <3> HIDE DEF e, u
    <3>3. Len(u) \in Nat BY <1>1, LenProperties
    <3>4. Unmarked = SubSeq(u, 1, e)
      <4>1. 1 \in 1 .. Len(u) /\ e \in 0 .. Len(u) /\ 1 <= e + 1 /\ 1 + 1 = 2 BY <3>1, <3>3
      <4>2. SubSeq(u, 1, e) = SubSeq(text, 1 + 1, e + 1) BY <3>2, <4>1
      <4> QED BY <2>7, <3>1, <4>1, <4>2
    <3>5. SubSeq(rest, Len(Line) + 1, Len(rest)) = SubSeq(u, e + 1, Len(u))
      <4>1. CASE e = Len(u)
        <5>1. e + 1 > Len(u) /\ f + 1 > Len(text) /\ e + 1 \in Int /\ f + 1 \in Int
              /\ Len(u) \in Int /\ Len(text) \in Int
          BY <2>2, <2>3, <2>6, <3>1, <3>3, <4>1
        <5>2. SubSeq(u, e + 1, Len(u)) = <<>> BY <5>1, SubSeqEmpty
        <5>3. SubSeq(text, f + 1, Len(text)) = <<>> BY <5>1, SubSeqEmpty
        <5> QED BY <2>5, <5>2, <5>3
      <4>2. CASE e # Len(u)
        <5> DEFINE a == e + 1
        <5>1. a \in 1 .. Len(u) /\ Len(u) \in 0 .. Len(u) /\ a <= Len(u) + 1
              /\ a + 1 = f + 1 /\ Len(u) + 1 = Len(text)
          BY <2>2, <2>3, <3>1, <3>3, <4>2
        <5> HIDE DEF a
        <5>2. SubSeq(u, a, Len(u)) = SubSeq(text, a + 1, Len(u) + 1) BY <3>2, <5>1
        <5> QED BY <2>5, <5>1, <5>2 DEF a
      <4> QED BY <4>1, <4>2
    <3>6. \A j \in 1 .. e - 1 : u[j] # "nl"
      <4> SUFFICES ASSUME NEW j \in 1 .. e - 1 PROVE u[j] # "nl" OBVIOUS
      <4>1. j + 1 \in 1 .. f - 1 /\ j \in 1 .. Len(text) - 1 BY <2>2, <3>1, <3>3
      <4> QED BY <2>2, <2>5, <4>1
    <3>7. e = Len(u) \/ u[e] = "nl"
      <4>1. e \in 1 .. Len(text) - 1 BY <2>2, <3>1
      <4>2. f = Len(text) => e = Len(u) BY <2>2, <2>3, <3>1, <3>3
      <4> QED BY <2>2, <2>5, <3>1, <4>1, <4>2
    <3>8. u # <<>> BY <3>1, <3>3, EmptySeq
    <3>9. NthStart(u, 1, 1) BY <1>1, <3>8, FirstStart
    <3>10. lineno + 1 = 1 /\ ~(lineno > 0) BY <1>5
    <3>11. Reads(u, 1, e) BY <3>1, <3>4, <3>5, <3>6, <3>7, <3>9, <3>10 DEF Reads
    <3>12. 1 \in Int /\ e \in Int BY <3>1
    <3> QED BY <3>11, <3>12 DEF u
  <2> QED BY <2>3, <2>8, <2>9
<1> QED BY <1>3, <1>4, <1>5

\* What the pass takes a line for is what the reference takes it for.
LineMeant(line) ==
    /\ Strip(line) = Start
    /\ IsComment <=> Remark(line)
    /\ IsComment => Assigned(line) = <<>>
    /\ lineno > 0 /\ ~IsComment => (Line[1] \in Space <=> IndentedLine(line))
    /\ First # "[" => ~Heading(line)
    /\ ~IsComment /\ First = "[" =>
          Assigned(line) = <<>> /\ (Heading(line) <=> Found(SectionEnd, "]"))
    /\ ~IsComment /\ First # "[" /\ Found(Separator, "=") =>
          Assigned(line) = <<[name |-> Name, value |-> Value]>>
    /\ ~IsComment /\ First # "[" /\ ~Found(Separator, "=") => Assigned(line) = <<>>

\* So it is of every line that is read.
LEMMA LineRead ==
    ASSUME text \in Seq(Chars), lineno \in Nat,
           NEW i \in Int, NEW e \in Int, Reads(Body(text), i, e)
    PROVE  /\ lineno + 1 \in DOMAIN FileLines(text)
           /\ LineMeant(FileLines(text)[lineno + 1])
<1> DEFINE u == Body(text)
           line == FileLines(text)[lineno + 1]
<1>1. u \in Seq(Chars) BY BodyIs
<1>2. /\ NthStart(u, lineno + 1, i) /\ e \in i .. Len(u)
      /\ \A j \in i .. e - 1 : u[j] # "nl"
      /\ e = Len(u) \/ u[e] = "nl"
      /\ Unmarked = SubSeq(u, i, e)
      /\ lineno > 0 => Line[1] = u[i]
  BY DEF Reads
<1>3. lineno + 1 \in DOMAIN FileLines(text) /\ line = SubSeq(u, i, EndOf(u, i) - 1)
  BY <1>2, LinesAre
<1> HIDE DEF u, line
<1>4. 1 <= i /\ i <= e /\ e <= Len(u) /\ Len(u) \in Nat
  <2>1. i \in 1 .. Len(u) BY <1>2 DEF NthStart, Starts
  <2> QED BY <1>1, <1>2, <2>1, LenProperties
<1>5. PICK b \in Int :
         /\ b = EndOf(u, i) - 1 /\ LineAt(u, i, b) /\ i - 1 <= b /\ b <= e
         /\ b < e => b = e - 1 /\ u[e] = "nl"
         /\ Strip(SubSeq(u, i, e)) = Strip(SubSeq(u, i, b))
  BY <1>1, <1>2, <1>4, LineIs
<1>6. line = SubSeq(u, i, b) /\ Start = Strip(SubSeq(u, i, b))
  BY <1>2, <1>3, <1>5 DEF Start
<1>7. /\ 1 <= i /\ i <= b + 1 /\ b <= Len(u) /\ \A j \in i .. b : u[j] # "nl"
  BY <1>5 DEF LineAt
<1>8. /\ Len(line) = b - i + 1
      /\ line # <<>> => i <= b
      /\ i <= b => line # <<>> /\ line[1] = u[i]
  <2>1. /\ line \in Seq(Chars) /\ Len(line) = b - i + 1
        /\ \A j \in 1 .. b - i + 1 : line[j] = u[i + j - 1]
    BY <1>1, <1>6, <1>7, PartOf
  <2>2. line # <<>> => i <= b
    <3>1. line # <<>> => Len(line) # 0 BY <2>1, EmptySeq
    <3> QED BY <1>7, <2>1, <3>1
  <2>3. i <= b => line # <<>> /\ line[1] = u[i]
    <3> SUFFICES ASSUME i <= b PROVE line # <<>> /\ line[1] = u[i] OBVIOUS
    <3>1. 1 \in 1 .. b - i + 1 /\ i + 1 - 1 = i OBVIOUS
    <3>2. line[1] = u[i] BY <2>1, <3>1
    <3>3. line # <<>> BY <2>1, <3>1, EmptySeq
    <3> QED BY <3>2, <3>3
  <2> QED BY <2>1, <2>2, <2>3
<1>h. First # "[" => ~Heading(line)
  <2> SUFFICES ASSUME Heading(line) PROVE First = "[" OBVIOUS
  <2>1. Start # <<>> /\ Start[1] = "[" BY <1>6 DEF Heading, Remark
  <2> QED BY <2>1 DEF First
<1>9. CASE \A j \in i .. b : ~Black(u[j])
  <2>1. Start = <<>> BY <1>1, <1>6, <1>7, <1>9, BlankPart
  <2>2. IsComment /\ First # "[" BY <2>1 DEF IsComment, First
  <2>3. Assigned(line) = <<>> BY <1>1, <1>5, <1>6, <1>9, BlankRead
  <2>4. Remark(line) BY <1>6, <2>1 DEF Remark
  <2> QED BY <1>3, <1>6, <1>h, <2>2, <2>3, <2>4 DEF LineMeant, line
<1>10. ASSUME NEW p \in i .. b, NEW q \in p .. b, Inner(u, i, b, p, q)
       PROVE  LineMeant(line)
  <2>1. Inner(u, i, b, p, q) /\ p \in Int /\ q \in Int BY <1>10
  <2>2. Start = SubSeq(u, p, q)
    <3>1. Strip(SubSeq(u, i, b)) = SubSeq(u, p, q) BY <1>1, <1>7, <2>1, StripPart
    <3> QED BY <1>6, <3>1
  <2>3. First = u[p] /\ Start # <<>>
    <3>1. StartAt(u, p, q) BY <1>7, <2>2 DEF StartAt
    <3> QED BY <1>1, <2>1, <3>1, StartIs
  <2>4. u[p] \in Chars
    <3>1. p \in 1 .. Len(u) BY <1>7
    <3> QED BY <1>1, <3>1, ElementOfSeq
  <2>5. IsComment <=> u[p] \in {"semi", "#"} BY <2>3, <2>4 DEF IsComment, Chars
  <2>6. IsComment <=> Remark(line)
    <3>1. Start[1] = u[p] BY <2>3 DEF First
    <3> QED BY <1>6, <2>3, <2>5, <3>1 DEF Remark
  <2>7. LineAt(u, i, b) BY <1>5
  <2>8. IsComment => Assigned(line) = <<>> BY <1>1, <1>6, <2>1, <2>5, <2>7, CommentRead
  <2>9. lineno > 0 => (Line[1] \in Space <=> IndentedLine(line))
    <3> SUFFICES ASSUME lineno > 0 PROVE Line[1] \in Space <=> IndentedLine(line) OBVIOUS
    <3>1. i <= b OBVIOUS
    <3>2. u[i] # "nl" /\ Line[1] = u[i] BY <1>2, <1>7, <3>1
    <3>3. line # <<>> /\ line[1] = u[i] BY <1>8, <3>1
    <3> QED BY <3>2, <3>3 DEF IndentedLine, Space
  <2>10. ASSUME u[p] = "["
         PROVE  Assigned(line) = <<>> /\ (Heading(line) <=> Found(SectionEnd, "]"))
    BY <1>1, <1>6, <2>1, <2>2, <2>7, <2>10, SectionRead
  <2>11. ASSUME u[p] \notin {"semi", "#", "["}
         PROVE  /\ Found(Separator, "=") =>
                      Assigned(line) = <<[name |-> Name, value |-> Value]>>
                /\ ~Found(Separator, "=") => Assigned(line) = <<>>
    BY <1>1, <1>6, <2>1, <2>2, <2>7, <2>11, PairRead
  <2>12. ~IsComment /\ First # "[" => u[p] \notin {"semi", "#", "["} BY <2>3, <2>5
  <2>13. Strip(line) = Start BY <1>6
  <2>14. ~IsComment /\ First = "[" =>
            Assigned(line) = <<>> /\ (Heading(line) <=> Found(SectionEnd, "]"))
    BY <2>3, <2>10
  <2>15. ~IsComment /\ First # "[" /\ Found(Separator, "=") =>
            Assigned(line) = <<[name |-> Name, value |-> Value]>>
    BY <2>11, <2>12
  <2>16. ~IsComment /\ First # "[" /\ ~Found(Separator, "=") => Assigned(line) = <<>>
    BY <2>11, <2>12
  <2> QED BY <1>h, <2>6, <2>8, <2>9, <2>13, <2>14, <2>15, <2>16 DEF LineMeant
<1>11. \/ \A j \in i .. b : ~Black(u[j])
       \/ \E p \in i .. b : \E q \in p .. b : Inner(u, i, b, p, q)
  BY <1>1, <1>7, EndsOf
<1>12. LineMeant(line)
  <2>1. CASE \A j \in i .. b : ~Black(u[j]) BY <1>9, <2>1 DEF line
  <2>2. CASE \E p \in i .. b : \E q \in p .. b : Inner(u, i, b, p, q)
    BY <1>10, <2>2
  <2> QED BY <1>11, <2>1, <2>2
<1> QED BY <1>3, <1>12 DEF line

\* The next pass begins with the next line, or the file has no more of them.
LEMMA WhereNext ==
    ASSUME text \in Seq(Chars), lineno \in Nat, ShortLines, Where, NextLine
    PROVE  Where'
<1> DEFINE u == Body(text)
<1>1. u \in Seq(Chars) BY BodyIs
<1>2. /\ rest # <<>> /\ text' = text /\ lineno' = lineno + 1
      /\ rest' = SubSeq(rest, Len(Line) + 1, Len(rest))
  BY DEF NextLine
<1>3. lineno' > 0 /\ ~(lineno' = 0) BY <1>2
<1>4. CASE u = <<>> /\ rest' = <<>>
  BY <1>2, <1>3, <1>4 DEF Where
<1>5. ASSUME NEW i \in Int, NEW e \in Int, Reads(u, i, e) PROVE Where'
  <2> HIDE DEF u
  <2>1. /\ NthStart(u, lineno + 1, i) /\ e \in i .. Len(u)
        /\ \A j \in i .. e - 1 : u[j] # "nl"
        /\ e = Len(u) \/ u[e] = "nl"
        /\ rest' = SubSeq(u, e + 1, Len(u))
    BY <1>2, <1>5 DEF Reads
  <2>2. Len(u) \in Nat /\ i \in 1 .. Len(u) BY <1>1, <2>1, LenProperties DEF NthStart, Starts
  <2>3. CASE e = Len(u)
    <3>1. rest' = <<>>
      <4>1. Len(u) < e + 1 /\ e + 1 \in Int BY <2>2, <2>3
      <4> QED BY <2>1, <2>2, <4>1, SubSeqEmpty
    <3>2. Cardinality(Starts(u)) = lineno + 1
      <4>1. \A j \in i .. Len(u) - 1 : u[j] # "nl" BY <2>1, <2>3
      <4>2. lineno + 1 \in Nat OBVIOUS
      <4> QED BY <1>1, <2>1, <4>1, <4>2, LastStart
    <3> QED BY <1>2, <1>3, <3>1, <3>2 DEF Where, u
  <2>4. CASE e # Len(u)
    <3>1. e \in Int /\ i <= e /\ e < Len(u) /\ u[e] = "nl" BY <2>1, <2>2, <2>4
    <3>2. NthStart(u, lineno + 1 + 1, e + 1)
      <4>1. lineno + 1 \in Nat OBVIOUS
      <4> QED BY <1>1, <2>1, <3>1, <4>1, NextStart
    <3>3. e + 1 \in 1 .. Len(u) BY <2>2, <3>1
    <3>4. rest' # <<>>
      <4>1. e + 1 \in Int /\ 1 <= e + 1 /\ e + 1 <= Len(u) + 1 /\ Len(u) <= Len(u)
            /\ Len(u) \in Int
        BY <2>2, <3>3
      <4> DEFINE a == e + 1
      <4>2. a \in Int /\ 1 <= a /\ a <= Len(u) + 1 BY <4>1
      <4> HIDE DEF a
      <4>3. Len(SubSeq(u, a, Len(u))) = Len(u) - a + 1 BY <1>1, <4>1, <4>2, PartOf
      <4>4. Len(u) - a + 1 # 0 BY <2>2, <3>1 DEF a
      <4> QED BY <2>1, <4>3, <4>4, EmptySeq DEF a
    <3>5. lineno' + 1 = lineno + 1 + 1 BY <1>2
    <3>6. NthStart(u, lineno' + 1, e + 1) BY <3>2, <3>5
    <3>7. \E k \in 1 .. Len(u) : NthStart(u, lineno' + 1, k) /\ rest' = SubSeq(u, k, Len(u))
      BY <2>1, <3>3, <3>6
    <3> QED BY <1>2, <1>3, <3>4, <3>7 DEF Where, u
  <2> QED BY <2>3, <2>4
<1>6. \/ u = <<>> /\ rest' = <<>>
      \/ \E i \in Int : \E e \in Int : Reads(u, i, e)
  BY <1>2, Pass
<1> QED BY <1>4, <1>5, <1>6

-----------------------------------------------------------------------------
(* The calls of a file, line after line.                                   *)

\* FlattenSeq is the last element of this function.
Flattened(ss) ==
    LET flatten[i \in 1 .. Len(ss)] == IF i = 1 THEN ss[i] ELSE flatten[i - 1] \o ss[i]
    IN  flatten

\* What the first k sequences are together.
UpToLine(ss, k) == IF k = 0 THEN <<>> ELSE Flattened(ss)[k]

\* The function is what its definition says.
LEMMA FlattenDefined ==
    ASSUME NEW ss, Len(ss) \in Nat
    PROVE  Flattened(ss) = [i \in 1 .. Len(ss) |->
              IF i = 1 THEN ss[i] ELSE Flattened(ss)[i - 1] \o ss[i]]
<1> DEFINE Has(f, n) == f = [i \in 1 .. n |-> IF i = 1 THEN ss[i] ELSE f[i - 1] \o ss[i]]
           S == {n \in 0 .. Len(ss) : \E f : Has(f, n)}
<1>1. 0 \in S
  <2> DEFINE g == [i \in 1 .. 0 |-> <<>>]
  <2>1. Has(g, 0) OBVIOUS
  <2> HIDE DEF Has, g
  <2> QED BY <2>1
<1>2. ASSUME NEW n \in S, n < Len(ss) PROVE n + 1 \in S
  <2>1. PICK f : Has(f, n) OBVIOUS
  <2> DEFINE g == [i \in 1 .. n + 1 |->
                     IF i = n + 1 THEN IF n = 0 THEN ss[1] ELSE f[n] \o ss[n + 1] ELSE f[i]]
  <2>2. ASSUME NEW i \in 1 .. n + 1
        PROVE  g[i] = IF i = 1 THEN ss[i] ELSE g[i - 1] \o ss[i]
    <3>1. CASE i = n + 1
      <4>1. n # 0 => n \in 1 .. n + 1 /\ n # n + 1 OBVIOUS
      <4>2. n # 0 => g[n] = f[n] BY <4>1
      <4> QED BY <3>1, <4>2
    <3>2. CASE i \in 1 .. n
      <4>1. g[i] = f[i] /\ (i # 1 => g[i - 1] = f[i - 1]) BY <3>2
      <4>2. f[i] = IF i = 1 THEN ss[i] ELSE f[i - 1] \o ss[i] BY <2>1, <3>2
      <4> HIDE DEF g
      <4> QED BY <4>1, <4>2
    <3> QED BY <3>1, <3>2
  <2>3. Has(g, n + 1)
    <3>1. g = [i \in 1 .. n + 1 |-> g[i]] OBVIOUS
    <3> HIDE DEF g
    <3> QED BY <2>2, <3>1
  <2> HIDE DEF g, Has
  <2>4. n + 1 \in 0 .. Len(ss) BY <1>2
  <2> QED BY <2>3, <2>4
<1>3. Len(ss) \in S
  <2> HIDE DEF S
  <2>1. 0 .. Len(ss) \subseteq S BY <1>1, <1>2, UpTo
  <2> QED BY <2>1
<1>4. \E f : Has(f, Len(ss)) BY <1>3
<1>5. Flattened(ss) = CHOOSE f : Has(f, Len(ss)) BY DEF Flattened
<1>6. Has(Flattened(ss), Len(ss))
  <2> HIDE DEF Has
  <2> QED BY <1>4, <1>5
<1> QED BY <1>6

\* One sequence more is put behind.
LEMMA FlattenStep ==
    ASSUME NEW ss \in Seq(Seq(Call))
    PROVE  /\ \A k \in 0 .. Len(ss) : UpToLine(ss, k) \in Seq(Call)
           /\ \A k \in Nat : k < Len(ss) =>
                 UpToLine(ss, k + 1) = UpToLine(ss, k) \o ss[k + 1]
           /\ FlattenSeq(ss) = UpToLine(ss, Len(ss))
<1> DEFINE f == Flattened(ss)
           S == {k \in 0 .. Len(ss) : UpToLine(ss, k) \in Seq(Call)}
<1>1. Len(ss) \in Nat BY LenProperties
<1>2. ASSUME NEW i \in 1 .. Len(ss)
      PROVE  f[i] = IF i = 1 THEN ss[i] ELSE f[i - 1] \o ss[i]
  <2>1. f = [j \in 1 .. Len(ss) |-> IF j = 1 THEN ss[j] ELSE f[j - 1] \o ss[j]]
    BY <1>1, FlattenDefined
  <2> HIDE DEF f
  <2> QED BY <2>1
<1>3. 0 \in S
  <2>1. UpToLine(ss, 0) = <<>> /\ 0 \in 0 .. Len(ss) BY <1>1 DEF UpToLine
  <2>2. <<>> \in Seq(Call) BY EmptySeq
  <2> QED BY <2>1, <2>2
<1>4. ASSUME NEW k \in Nat, k < Len(ss)
      PROVE  /\ ss[k + 1] \in Seq(Call)
             /\ UpToLine(ss, k + 1) = IF k = 0 THEN ss[1] ELSE UpToLine(ss, k) \o ss[k + 1]
  <2>1. k + 1 \in 1 .. Len(ss) /\ k + 1 # 0 /\ k + 1 - 1 = k BY <1>1, <1>4
  <2>2. ss[k + 1] \in Seq(Call) BY <2>1, ElementOfSeq
  <2> HIDE DEF f
  <2>3. f[k + 1] = IF k + 1 = 1 THEN ss[k + 1] ELSE f[k + 1 - 1] \o ss[k + 1]
    <3> DEFINE i == k + 1
    <3>1. i \in 1 .. Len(ss) BY <2>1
    <3> HIDE DEF i
    <3>2. f[i] = IF i = 1 THEN ss[i] ELSE f[i - 1] \o ss[i] BY <1>2, <3>1
    <3> QED BY <3>2 DEF i
  <2>4. UpToLine(ss, k + 1) = f[k + 1] BY <2>1 DEF UpToLine, f
  <2>5. k # 0 => UpToLine(ss, k) = f[k] BY DEF UpToLine, f
  <2> QED BY <2>1, <2>2, <2>3, <2>4, <2>5
<1>5. ASSUME NEW k \in S, k < Len(ss) PROVE k + 1 \in S
  <2>1. k \in Nat /\ UpToLine(ss, k) \in Seq(Call) /\ k + 1 \in 0 .. Len(ss) BY <1>5
  <2>2. /\ ss[k + 1] \in Seq(Call)
        /\ UpToLine(ss, k + 1) = IF k = 0 THEN ss[1] ELSE UpToLine(ss, k) \o ss[k + 1]
    BY <1>4, <1>5, <2>1
  <2>3. UpToLine(ss, k) \o ss[k + 1] \in Seq(Call) BY <2>1, <2>2, ConcatProperties
  <2>4. k = 0 => ss[1] \in Seq(Call) BY <2>2
  <2>5. UpToLine(ss, k + 1) \in Seq(Call) BY <2>2, <2>3, <2>4
  <2> QED BY <2>1, <2>5
<1>6. 0 .. Len(ss) \subseteq S
  <2> HIDE DEF S
  <2> QED BY <1>1, <1>3, <1>5, UpTo
<1>7. ASSUME NEW k \in Nat, k < Len(ss)
      PROVE  UpToLine(ss, k + 1) = UpToLine(ss, k) \o ss[k + 1]
  <2>1. k = 0 => UpToLine(ss, k) = <<>> /\ k + 1 = 1 BY DEF UpToLine
  <2>2. ss[k + 1] \in Seq(Call) BY <1>4, <1>7
  <2>3. <<>> \o ss[k + 1] = ss[k + 1] BY <2>2, ConcatEmptySeq
  <2> QED BY <1>4, <1>7, <2>1, <2>3
<1>8. FlattenSeq(ss) = UpToLine(ss, Len(ss))
  <2>1. CASE Len(ss) = 0
    <3>1. ss = <<>> BY <2>1, EmptySeq
    <3>2. FlattenSeq(ss) = ss BY <2>1 DEF FlattenSeq
    <3> QED BY <2>1, <3>1, <3>2 DEF UpToLine
  <2>2. CASE Len(ss) # 0
    <3>1. FlattenSeq(ss) = Flattened(ss)[Len(ss)] BY <2>2 DEF FlattenSeq, Flattened
    <3> QED BY <2>2, <3>1 DEF UpToLine
  <2> QED BY <2>1, <2>2
<1> QED BY <1>6, <1>7, <1>8

\* What a line assigns is no call or one.
LEMMA AssignedSeq ==
    ASSUME NEW line \in Seq(Chars)
    PROVE  Assigned(line) \in Seq(Call)
<1> DEFINE I == {i \in 2 .. Len(line) : line[i] = "semi" /\ line[i - 1] = "sp"}
                   \cup {Len(line) + 1}
           m == Min(I) - 1
<1>1. Len(line) \in Nat BY LenProperties
<1>2. I \subseteq 1 .. Len(line) + 1 /\ I \subseteq 0 .. Len(line) + 1 /\ I # {}
      /\ Len(line) + 1 \in Nat
  BY <1>1
<1>3. Min(I) \in 1 .. Len(line) + 1
  <2> HIDE DEF I
  <2>1. Min(I) \in I BY <1>2, MinOf
  <2> QED BY <1>2, <2>1
<1>4. m \in Int /\ 1 <= m + 1 /\ m <= Len(line)
  <2> HIDE DEF I
  <2> QED BY <1>1, <1>3
<1>5. Uncommented(line) = SubSeq(line, 1, m) BY DEF Uncommented
<1>6. Uncommented(line) \in Seq(Chars)
  <2> HIDE DEF m
  <2> QED BY <1>4, <1>5, PartOf
<1> DEFINE u == Strip(Uncommented(line))
           eqs == {i \in DOMAIN u : u[i] = "="}
<1>7. u \in Seq(Chars) BY <1>6, StripSeq
<1> HIDE DEF u
<1>8. Len(u) \in Nat /\ DOMAIN u = 1 .. Len(u) BY <1>7, LenProperties
<1>9. ASSUME eqs # {}
      PROVE  <<[name  |-> Strip(SubSeq(u, 1, Min(eqs) - 1)),
                value |-> Strip(SubSeq(u, Min(eqs) + 1, Len(u)))]>> \in Seq(Call)
  <2>1. eqs \subseteq 0 .. Len(u) /\ eqs \subseteq 1 .. Len(u) BY <1>8
  <2>2. Min(eqs) \in 1 .. Len(u)
    <3> HIDE DEF eqs
    <3>1. Min(eqs) \in eqs BY <1>8, <1>9, <2>1, MinOf
    <3> QED BY <2>1, <3>1
  <2> HIDE DEF eqs
  <2> DEFINE x == Min(eqs) - 1
             y == Min(eqs) + 1
  <2>3. x \in Int /\ 1 <= x + 1 /\ x <= Len(u) BY <1>8, <2>2
  <2>4. y \in Int /\ 1 <= y /\ y <= Len(u) + 1 /\ Len(u) \in Int BY <1>8, <2>2
  <2> HIDE DEF x, y
  <2>5. SubSeq(u, 1, x) \in Seq(Chars) BY <1>7, <2>3, PartOf
  <2>6. SubSeq(u, y, Len(u)) \in Seq(Chars) BY <1>7, <2>4, PartOf
  <2>7. Strip(SubSeq(u, 1, x)) \in Seq(Chars) /\ Strip(SubSeq(u, y, Len(u))) \in Seq(Chars)
    BY <2>5, <2>6, StripSeq
  <2>8. [name |-> Strip(SubSeq(u, 1, x)), value |-> Strip(SubSeq(u, y, Len(u)))] \in Call
    BY <2>7 DEF Call
  <2> QED BY <2>8 DEF x, y
<1>10. Assigned(line) = IF u = <<>> \/ u[1] \in {"semi", "#", "["} \/ eqs = {} THEN <<>>
          ELSE <<[name  |-> Strip(SubSeq(u, 1, Min(eqs) - 1)),
                  value |-> Strip(SubSeq(u, Min(eqs) + 1, Len(u)))]>>
  BY DEF Assigned, u
<1> HIDE DEF eqs
<1> QED BY <1>9, <1>10, EmptySeq

\* Every number up to that of the lines is the number of a line.
LEMMA EveryStart ==
    ASSUME NEW u \in Seq(Chars), NEW n \in 1 .. Cardinality(Starts(u))
    PROVE  \E i \in Int : NthStart(u, n, i)
<1> DEFINE K == Cardinality(Starts(u))
           S == {m \in 0 .. K : m # 0 => \E i \in Int : NthStart(u, m, i)}
<1>1. K \in Nat /\ IsFiniteSet(Starts(u)) /\ Starts(u) \subseteq 1 .. Len(u) /\ Len(u) \in Nat
  BY StartsFinite, LenProperties
<1>2. 0 \in S BY <1>1
<1>3. ASSUME NEW m \in S, m < K PROVE m + 1 \in S
  <2>0. m \in Nat /\ m + 1 \in 0 .. K BY <1>1, <1>3
  <2>1. CASE m = 0
    <3>1. Starts(u) # {} BY <1>1, <1>3, <2>1, FS_EmptySet
    <3>2. 1 .. Len(u) # {} BY <1>1, <3>1
    <3>3. u # <<>> BY <1>1, <3>2, EmptySeq
    <3>4. NthStart(u, 1, 1) BY <3>3, FirstStart
    <3>5. m + 1 = 1 /\ 1 \in Int BY <2>1
    <3> QED BY <2>0, <3>4, <3>5
  <2>2. CASE m # 0
    <3>1. PICK i \in Int : NthStart(u, m, i) BY <2>2
    <3>2. i \in Starts(u) /\ Cardinality(UpToStart(u, i)) = m BY <3>1 DEF NthStart
    <3> DEFINE T == {j \in Starts(u) : j > i}
    <3>3. T # {}
      <4> SUFFICES ASSUME T = {} PROVE FALSE OBVIOUS
      <4>1. \A j \in Starts(u) : j <= i BY <1>1, <3>2
      <4>2. UpToStart(u, i) = Starts(u) BY <4>1 DEF UpToStart
      <4> QED BY <1>1, <1>3, <3>2, <4>2
    <3>4. T \subseteq 0 .. Len(u) BY <1>1
    <3>5. PICK k \in T : \A j \in T : k <= j
      <4> HIDE DEF T
      <4>1. \E k \in T : \A j \in T : k <= j BY <1>1, <3>3, <3>4, LeastOf
      <4> QED BY <4>1
    <3>6. k \in Starts(u) /\ k > i /\ k \in Int BY <1>1
    <3>7. UpToStart(u, k) = UpToStart(u, i) \cup {k}
      <4>1. ASSUME NEW j \in Starts(u), j <= k, j # k PROVE j <= i
        <5> SUFFICES ASSUME j > i PROVE FALSE BY <1>1, <3>2
        <5>1. j \in T OBVIOUS
        <5>2. k <= j BY <3>5, <5>1
        <5> QED BY <1>1, <3>6, <4>1, <5>2
      <4>2. ASSUME NEW j \in Starts(u), j <= i PROVE j <= k BY <1>1, <3>2, <3>6, <4>2
      <4> HIDE DEF T
      <4>3. \A j \in Starts(u) : j <= k <=> j <= i \/ j = k BY <3>6, <4>1, <4>2
      <4> QED BY <3>6, <4>3 DEF UpToStart
    <3>8. k \notin UpToStart(u, i) BY <3>6 DEF UpToStart
    <3>9. IsFiniteSet(UpToStart(u, i)) BY StartsFinite
    <3>10. Cardinality(UpToStart(u, i) \cup {k}) = m + 1 BY <3>2, <3>8, <3>9, FS_AddElement
    <3>11. NthStart(u, m + 1, k) BY <3>6, <3>7, <3>10 DEF NthStart
    <3> QED BY <2>0, <3>6, <3>11
  <2> QED BY <2>1, <2>2
<1>4. 0 .. K \subseteq S
  <2> HIDE DEF S, K
  <2> QED BY <1>1, <1>2, <1>3, UpTo
<1>5. n \in S /\ n # 0
  <2> HIDE DEF S
  <2> QED BY <1>1, <1>4
<1> QED BY <1>5

\* The lines of a text are a sequence of texts.
LEMMA LinesSeq ==
    ASSUME NEW t \in Seq(Chars)
    PROVE  /\ FileLines(t) \in Seq(Seq(Chars))
           /\ Len(FileLines(t)) = Cardinality(Starts(Body(t)))
<1> DEFINE u == Body(t)
           K == Cardinality(Starts(u))
           file == FileLines(t)
<1>1. u \in Seq(Chars) BY BodyIs
<1>2. K \in Nat
  <2> HIDE DEF u
  <2> QED BY <1>1, StartsFinite
<1>3. DOMAIN file = 1 .. K BY LinesAre
<1>4. ASSUME NEW n \in 1 .. K PROVE file[n] \in Seq(Chars)
  <2>1. PICK i \in Int : NthStart(u, n, i)
    <3> HIDE DEF u
    <3>1. \E i \in Int : NthStart(u, n, i) BY <1>1, EveryStart
    <3> QED BY <3>1
  <2>2. n \in Nat BY <1>2
  <2>3. file[n] = SubSeq(u, i, EndOf(u, i) - 1) BY <2>1, <2>2, LinesAre
  <2> HIDE DEF u
  <2>4. i \in 1 .. Len(u) /\ Len(u) \in Nat BY <1>1, <2>1, LenProperties DEF NthStart, Starts
  <2> DEFINE I == {j \in i .. Len(u) : u[j] = "nl"} \cup {Len(u) + 1}
             b == EndOf(u, i) - 1
  <2>5. I \subseteq i .. Len(u) + 1 /\ I \subseteq 0 .. Len(u) + 1 /\ I # {}
        /\ Len(u) + 1 \in Nat
    BY <2>4
  <2>6. EndOf(u, i) = Min(I) BY DEF EndOf
  <2>7. EndOf(u, i) \in i .. Len(u) + 1
    <3> HIDE DEF I
    <3>1. Min(I) \in I BY <2>5, MinOf
    <3> QED BY <2>5, <2>6, <3>1
  <2>8. b \in Int /\ 1 <= i /\ i <= b + 1 /\ b <= Len(u) BY <2>4, <2>7
  <2> HIDE DEF b
  <2>9. SubSeq(u, i, b) \in Seq(Chars) BY <1>1, <2>8, PartOf
  <2> QED BY <2>3, <2>9 DEF b
<1>5. file = [n \in 1 .. K |-> file[n]]
  <2> DEFINE Pick(n) == CHOOSE i \in Starts(u) : Cardinality(UpToStart(u, i)) = n
             line(n) == SubSeq(u, Pick(n), EndOf(u, Pick(n)) - 1)
  <2>1. file = [n \in 1 .. K |-> line(n)] BY DEF FileLines, Body, Starts, UpToStart, EndOf
  <2> HIDE DEF file, line, K
  <2> QED BY <2>1
<1> HIDE DEF K, u, file
<1>6. file \in [1 .. K -> Seq(Chars)] BY <1>3, <1>4, <1>5
<1>7. file \in Seq(Seq(Chars)) /\ Len(file) = K BY <1>2, <1>6
<1> QED BY <1>7 DEF K, u, file

\* A line calls the handler with words, and leaves a name.
LEMMA LineTypes ==
    ASSUME NEW line \in Seq(Chars), NEW kept \in Seq(Chars)
    PROVE  CallsOf(line, kept) \in Seq(Call) /\ KeptAfter(line, kept) \in Seq(Chars)
<1>1. Assigned(line) \in Seq(Call) BY AssignedSeq
<1>2. Strip(line) \in Seq(Chars) BY StripSeq
<1>3. CallsOf(line, kept) \in Seq(Call)
  <2>1. [name |-> kept, value |-> Strip(line)] \in Call BY <1>2 DEF Call
  <2>2. <<[name |-> kept, value |-> Strip(line)]>> \in Seq(Call) BY <2>1
  <2> QED BY <1>1, <2>2 DEF CallsOf
<1>4. Assigned(line) # <<>> => strncpy0(Assigned(line)[1].name, MaxName) \in Seq(Chars)
  <2> SUFFICES ASSUME Assigned(line) # <<>>
               PROVE  strncpy0(Assigned(line)[1].name, MaxName) \in Seq(Chars)
    OBVIOUS
  <2>1. 1 \in 1 .. Len(Assigned(line)) BY <1>1, EmptySeq, LenProperties
  <2>2. Assigned(line)[1] \in Call BY <1>1, <2>1, ElementOfSeq
  <2>3. Assigned(line)[1].name \in Seq(Chars) BY <2>2 DEF Call
  <2> QED BY <2>3, CopyFits
<1>5. <<>> \in Seq(Chars) BY EmptySeq
<1> QED BY <1>3, <1>4, <1>5 DEF KeptAfter

\* KeptNames is the function that its recursion describes.
LEMMA KeptDefined ==
    ASSUME NEW file, Len(file) \in Nat
    PROVE  KeptNames(file) = [n \in 0 .. Len(file) |->
              IF n = 0 THEN <<>> ELSE KeptAfter(file[n], KeptNames(file)[n - 1])]
<1> DEFINE Has(f, m) == f = [n \in 0 .. m |->
                               IF n = 0 THEN <<>> ELSE KeptAfter(file[n], f[n - 1])]
           S == {m \in 0 .. Len(file) : \E f : Has(f, m)}
<1>1. 0 \in S
  <2> DEFINE g == [n \in 0 .. 0 |-> <<>>]
  <2>1. Has(g, 0) OBVIOUS
  <2> HIDE DEF Has, g
  <2> QED BY <2>1
<1>2. ASSUME NEW m \in S, m < Len(file) PROVE m + 1 \in S
  <2>1. PICK f : Has(f, m) OBVIOUS
  <2> DEFINE g == [n \in 0 .. m + 1 |->
                     IF n = m + 1 THEN KeptAfter(file[m + 1], f[m]) ELSE f[n]]
  <2>2. ASSUME NEW n \in 0 .. m + 1
        PROVE  g[n] = IF n = 0 THEN <<>> ELSE KeptAfter(file[n], g[n - 1])
    <3>1. CASE n = m + 1
      <4>1. m \in 0 .. m + 1 /\ m # m + 1 /\ n - 1 = m /\ n # 0 BY <3>1
      <4>2. g[m] = f[m] BY <4>1
      <4>3. g[n] = KeptAfter(file[m + 1], f[m]) BY <3>1
      <4> HIDE DEF g
      <4> QED BY <3>1, <4>1, <4>2, <4>3
    <3>2. CASE n \in 0 .. m
      <4>1. g[n] = f[n] /\ (n # 0 => g[n - 1] = f[n - 1]) BY <3>2
      <4>2. f[n] = IF n = 0 THEN <<>> ELSE KeptAfter(file[n], f[n - 1]) BY <2>1, <3>2
      <4> HIDE DEF g
      <4> QED BY <4>1, <4>2
    <3> QED BY <3>1, <3>2
  <2>3. Has(g, m + 1)
    <3>1. g = [n \in 0 .. m + 1 |-> g[n]] OBVIOUS
    <3> HIDE DEF g
    <3> QED BY <2>2, <3>1
  <2> HIDE DEF g, Has
  <2>4. m + 1 \in 0 .. Len(file) BY <1>2
  <2> QED BY <2>3, <2>4
<1>3. Len(file) \in S
  <2> HIDE DEF S
  <2>1. 0 .. Len(file) \subseteq S BY <1>1, <1>2, UpTo
  <2> QED BY <2>1
<1>4. \E f : Has(f, Len(file)) BY <1>3
<1>5. KeptNames(file) = CHOOSE f : Has(f, Len(file)) BY DEF KeptNames
<1>6. Has(KeptNames(file), Len(file))
  <2> HIDE DEF Has
  <2> QED BY <1>4, <1>5
<1> QED BY <1>6

\* The first name is empty, and every line makes the next one from it.
LEMMA KeptStep ==
    ASSUME NEW file \in Seq(Seq(Chars))
    PROVE  /\ KeptNames(file)[0] = <<>>
           /\ \A n \in 0 .. Len(file) : KeptNames(file)[n] \in Seq(Chars)
           /\ \A n \in 1 .. Len(file) :
                 KeptNames(file)[n] = KeptAfter(file[n], KeptNames(file)[n - 1])
<1> DEFINE kept == KeptNames(file)
           S == {n \in 0 .. Len(file) : kept[n] \in Seq(Chars)}
<1>1. Len(file) \in Nat BY LenProperties
<1>2. kept = [n \in 0 .. Len(file) |->
                 IF n = 0 THEN <<>> ELSE KeptAfter(file[n], kept[n - 1])]
  BY <1>1, KeptDefined
<1> HIDE DEF kept
<1>3. kept[0] = <<>> BY <1>1, <1>2
<1>4. ASSUME NEW n \in 1 .. Len(file) PROVE kept[n] = KeptAfter(file[n], kept[n - 1])
  <2>1. n \in 0 .. Len(file) /\ n # 0 BY <1>1
  <2> QED BY <1>2, <2>1
<1>5. 0 \in S
  <2>1. kept[0] \in Seq(Chars)
    <3>1. <<>> \in Seq(Chars) BY EmptySeq
    <3> QED BY <1>3, <3>1
  <2>2. 0 \in 0 .. Len(file) BY <1>1
  <2> QED BY <2>1, <2>2
<1>6. ASSUME NEW n \in S, n < Len(file) PROVE n + 1 \in S
  <2>1. n \in Nat /\ kept[n] \in Seq(Chars) /\ n + 1 \in 0 .. Len(file) /\ n + 1 \in 1 .. Len(file)
    BY <1>1, <1>6
  <2>2. file[n + 1] \in Seq(Chars) BY <2>1, ElementOfSeq
  <2>3. KeptAfter(file[n + 1], kept[n]) \in Seq(Chars) BY <2>1, <2>2, LineTypes
  <2>4. kept[n + 1] = KeptAfter(file[n + 1], kept[n])
    <3> DEFINE m == n + 1
    <3>1. m \in 1 .. Len(file) /\ m - 1 = n BY <2>1
    <3> HIDE DEF m
    <3>2. kept[m] = KeptAfter(file[m], kept[m - 1]) BY <1>4, <3>1
    <3>3. kept[m - 1] = kept[n] BY <3>1
    <3> QED BY <3>2, <3>3 DEF m
  <2> QED BY <2>1, <2>3, <2>4
<1>7. 0 .. Len(file) \subseteq S
  <2> HIDE DEF S
  <2> QED BY <1>1, <1>5, <1>6, UpTo
<1> QED BY <1>3, <1>4, <1>7 DEF kept

\* The name in force where line n of a text begins.
NameBefore(t, n) == KeptNames(FileLines(t))[n - 1]

\* It is empty at the first line, and every line makes the next one from it.
LEMMA NameStep ==
    ASSUME NEW t \in Seq(Chars)
    PROVE  /\ NameBefore(t, 1) = <<>>
           /\ \A n \in 1 .. Len(FileLines(t)) :
                 NameBefore(t, n + 1) = KeptAfter(FileLines(t)[n], NameBefore(t, n))
<1> DEFINE file == FileLines(t)
           kept == KeptNames(file)
           Before(n) == kept[n - 1]
<1>1. file \in Seq(Seq(Chars)) BY LinesSeq
<1> HIDE DEF file
<1>2. /\ kept[0] = <<>>
      /\ \A n \in 1 .. Len(file) : kept[n] = KeptAfter(file[n], kept[n - 1])
  BY <1>1, KeptStep
<1>3. Len(file) \in Nat BY <1>1, LenProperties
<1> HIDE DEF kept
<1>4. \A m \in Int, n \in Int : m - 1 = n => Before(m) = kept[n] OBVIOUS
<1>5. Before(1) = <<>>
  <2>1. 1 - 1 = 0 OBVIOUS
  <2> QED BY <1>2, <1>4, <2>1
<1>6. ASSUME NEW n \in 1 .. Len(file) PROVE Before(n + 1) = KeptAfter(file[n], Before(n))
  <2>1. n + 1 \in Int /\ n \in Int /\ n + 1 - 1 = n BY <1>3
  <2>2. Before(n + 1) = kept[n] BY <1>4, <2>1
  <2> QED BY <1>2, <2>2
<1>7. \A n : NameBefore(t, n) = Before(n) BY DEF NameBefore, kept, file
<1> HIDE DEF Before
<1> QED BY <1>5, <1>6, <1>7 DEF file

\* The calls that the lines of a text stand for, one by one.
Words(t) == [n \in DOMAIN FileLines(t) |-> CallsOf(FileLines(t)[n], NameBefore(t, n))]

\* They are a sequence of sequences of calls, one for every line.
LEMMA WordsAre ==
    ASSUME NEW t \in Seq(Chars)
    PROVE  /\ Words(t) \in Seq(Seq(Call))
           /\ Len(Words(t)) = Cardinality(Starts(Body(t)))
<1> DEFINE file == FileLines(t)
           K == Len(file)
<1>1. file \in Seq(Seq(Chars)) /\ K = Cardinality(Starts(Body(t))) BY LinesSeq
<1> HIDE DEF file
<1>2. K \in Nat /\ DOMAIN file = 1 .. K BY <1>1, LenProperties
<1>3. ASSUME NEW n \in 1 .. K PROVE CallsOf(file[n], KeptNames(file)[n - 1]) \in Seq(Call)
  <2>1. file[n] \in Seq(Chars) BY <1>1, ElementOfSeq
  <2>2. n - 1 \in 0 .. K BY <1>2
  <2>3. KeptNames(file)[n - 1] \in Seq(Chars) BY <1>1, <2>2, KeptStep
  <2> QED BY <2>1, <2>3, LineTypes
<1>4. Words(t) = [n \in 1 .. K |-> CallsOf(file[n], KeptNames(file)[n - 1])]
  BY <1>2 DEF Words, NameBefore, file
<1> HIDE DEF K
<1>5. Words(t) \in [1 .. K -> Seq(Call)] BY <1>3, <1>4
<1>6. Words(t) \in Seq(Seq(Call)) /\ Len(Words(t)) = K BY <1>2, <1>5
<1> QED BY <1>1, <1>6

\* A text without lines.
LEMMA NoLines ==
    ASSUME NEW t \in Seq(Chars), Body(t) = <<>>
    PROVE  Cardinality(Starts(Body(t))) = 0 /\ DOMAIN FileLines(t) = {}
<1>1. Len(Body(t)) = 0 BY EmptySeq
<1>2. Starts(Body(t)) = {} BY <1>1 DEF Starts
<1>3. Cardinality(Starts(Body(t))) = 0 BY <1>2, FS_EmptySet
<1>4. DOMAIN FileLines(t) = 1 .. 0 BY <1>3, LinesAre
<1> QED BY <1>3, <1>4

-----------------------------------------------------------------------------
(* The inductive invariant.                                                *)

\* The name kept and the calls so far are those of the lines that were read.
LinesAreRead ==
    ShortLines =>
        IF Body(text) = <<>> THEN prev_name = <<>> /\ calls = <<>>
        ELSE /\ lineno <= Cardinality(Starts(Body(text)))
             /\ prev_name = NameBefore(text, lineno + 1)
             /\ calls = UpToLine(Words(text), lineno)

\* The first error so far is that of a line that was read, and none is later
\* than a broken line.
ErrorIsFirst ==
    LET file == FileLines(text)
    IN  ShortLines =>
            /\ \A n \in DOMAIN file :
                  n <= lineno /\ Broken(file[n], NameBefore(text, n)) => error \in 1 .. n
            /\ error > 0 => /\ error \in DOMAIN file
                            /\ \/ Broken(file[error], NameBefore(text, error))
                               \/ CallsOf(file[error], NameBefore(text, error)) # <<>>

IniInv ==
    /\ result = NotOpened => lineno = 0
    /\ lineno = 0 => prev_name = <<>> /\ calls = <<>> /\ rest = text
    /\ result >= 0 => result = error /\ rest = <<>>
    /\ ShortLines => Where
    /\ KeptNameIsNearest
    /\ LinesAreRead
    /\ ErrorIsFirst

\* What a pass does with the line it reads, in the words of the reference.
PassDoes(line) ==
    /\ prev_name' = KeptAfter(line, prev_name)
    /\ calls' = calls \o CallsOf(line, prev_name)
    /\ \/ /\ CallsOf(line, prev_name) = <<>> /\ ~Broken(line, prev_name)
          /\ error' = error
       \/ Broken(line, prev_name) /\ error' = ErrorIf(TRUE)
       \/ /\ CallsOf(line, prev_name) # <<>>
          /\ \E wrong \in BOOLEAN : error' = ErrorIf(wrong)

\* Every pass does one of these, but for that of a file with nothing but a mark.
LEMMA PassKinds ==
    ASSUME TypeOK, IniInv, ShortLines, Next, NextLine
    PROVE  \/ /\ Body(text) = <<>> /\ prev_name' = <<>> /\ calls' = calls /\ error' = error
           \/ /\ lineno + 1 \in DOMAIN FileLines(text)
              /\ PassDoes(FileLines(text)[lineno + 1])
<1> DEFINE line == FileLines(text)[lineno + 1]
<1>1. /\ text \in Seq(Chars) /\ rest \in Seq(Chars) /\ lineno \in Nat /\ Where /\ rest # <<>>
      /\ lineno = 0 => prev_name = <<>>
      /\ result = Reading
  BY DEF TypeOK, IniInv, NextLine
<1>2. Comment \/ Continuation \/ Section \/ Assignment \/ Malformed
  BY <1>1 DEF Next, Open, OpenFails, Close, Reading, NotOpened
<1>3. CASE Body(text) = <<>> /\ lineno = 0 /\ Unmarked = <<>>
  <2>1. Start = <<>>
    <3>1. <<>> \in Seq(Chars) /\ Len(<<>>) = 0 BY EmptySeq
    <3>2. \A i \in 1 .. Len(<<>>) : ~Black((<<>>)[i]) BY <3>1
    <3> QED BY <1>3, <3>1, <3>2, StripBlank DEF Start
  <2>2. IsComment BY <2>1 DEF IsComment, First
  <2>3. Comment
    BY <1>2, <2>2 DEF Continuation, Section, Assignment, Malformed, IsContinuation,
      IsSection, IsPair
  <2> QED BY <1>1, <1>3, <2>3 DEF Comment
<1>4. ASSUME NEW i \in Int, NEW e \in Int, Reads(Body(text), i, e)
      PROVE  lineno + 1 \in DOMAIN FileLines(text) /\ PassDoes(line)
  <2>1. lineno + 1 \in DOMAIN FileLines(text) /\ LineMeant(line) BY <1>1, <1>4, LineRead
  <2>2. Start \in Seq(Chars) /\ calls \in Seq(Call) BY <1>1, PassTypes DEF TypeOK
  <2> HIDE DEF line
  <2>3. calls \o <<>> = calls BY <2>2, ConcatEmptySeq
  <2>4. prev_name # <<>> => lineno > 0 BY <1>1
  <2>5. ASSUME ~IsContinuation PROVE ~Continues(line, prev_name)
    BY <2>1, <2>4, <2>5 DEF LineMeant, IsContinuation, Continues
  <2>6. CASE Comment
    <3>1. IsComment /\ prev_name' = prev_name /\ error' = error /\ calls' = calls
      BY <2>6 DEF Comment
    <3>2. Remark(line) /\ Assigned(line) = <<>> BY <2>1, <3>1 DEF LineMeant
    <3>3. ~Continues(line, prev_name) /\ ~Heading(line) BY <3>2 DEF Continues, Heading
    <3>4. CallsOf(line, prev_name) = <<>> BY <3>2, <3>3 DEF CallsOf
    <3>5. KeptAfter(line, prev_name) = prev_name BY <3>2, <3>3 DEF KeptAfter
    <3>6. ~Broken(line, prev_name) BY <3>2 DEF Broken
    <3> QED BY <2>1, <2>3, <3>1, <3>4, <3>5, <3>6 DEF PassDoes
  <2>7. CASE Continuation
    <3>1. /\ ~IsComment /\ prev_name # <<>> /\ Line[1] \in Space /\ prev_name' = prev_name
          /\ calls' = Append(calls, [name |-> prev_name, value |-> Start])
          /\ \E answer \in BOOLEAN : error' = ErrorIf(~answer)
      BY <2>7 DEF Continuation, IsContinuation, CallHandler
    <3>2. Continues(line, prev_name) BY <2>1, <2>4, <3>1 DEF LineMeant, Continues
    <3>3. CallsOf(line, prev_name) = <<[name |-> prev_name, value |-> Start]>>
      <4>1. Strip(line) = Start BY <2>1 DEF LineMeant
      <4> QED BY <3>2, <4>1 DEF CallsOf
    <3>4. KeptAfter(line, prev_name) = prev_name BY <3>2 DEF KeptAfter
    <3>5. calls' = calls \o CallsOf(line, prev_name)
      <4>1. prev_name \in Seq(Chars) BY DEF TypeOK
      <4>2. [name |-> prev_name, value |-> Start] \in Call BY <2>2, <4>1 DEF Call
      <4> QED BY <2>2, <3>1, <3>3, <4>2, AppendIsConcat
    <3>6. CallsOf(line, prev_name) # <<>> BY <3>3
    <3>7. \E wrong \in BOOLEAN : error' = ErrorIf(wrong) BY <3>1
    <3> QED BY <2>1, <3>1, <3>4, <3>5, <3>6, <3>7 DEF PassDoes
  <2>8. CASE Section
    <3>1. /\ ~IsComment /\ ~IsContinuation /\ First = "[" /\ prev_name' = <<>>
          /\ calls' = calls /\ error' = error /\ Found(SectionEnd, "]")
      BY <2>8 DEF Section, IsSection
    <3>2. Assigned(line) = <<>> /\ Heading(line) BY <2>1, <3>1 DEF LineMeant
    <3>3. ~Continues(line, prev_name) BY <2>5, <3>1
    <3>4. CallsOf(line, prev_name) = <<>> BY <3>2, <3>3 DEF CallsOf
    <3>5. KeptAfter(line, prev_name) = <<>> BY <3>2, <3>3 DEF KeptAfter
    <3>6. ~Broken(line, prev_name) BY <3>2 DEF Broken
    <3> QED BY <2>1, <2>3, <3>1, <3>4, <3>5, <3>6 DEF PassDoes
  <2>9. CASE Assignment
    <3>1. /\ ~IsComment /\ ~IsContinuation /\ First # "[" /\ Found(Separator, "=")
          /\ prev_name' = strncpy0(Name, MaxName)
          /\ calls' = Append(calls, [name |-> Name, value |-> Value])
          /\ \E answer \in BOOLEAN : error' = ErrorIf(~answer)
      BY <2>9 DEF Assignment, IsPair, CallHandler
    <3>2. Name \in Seq(Chars) /\ Value \in Seq(Chars) BY <2>2, <3>1, WordTypes
    <3> DEFINE call == [name |-> Name, value |-> Value]
    <3>3. call \in Call /\ call.name = Name BY <3>2 DEF Call
    <3>4. Assigned(line) = <<call>> /\ ~Heading(line) BY <2>1, <3>1 DEF LineMeant
    <3>5. calls' = Append(calls, call) BY <3>1
    <3>6. \E wrong \in BOOLEAN : error' = ErrorIf(wrong) BY <3>1
    <3>7. ~Continues(line, prev_name) BY <2>5, <3>1
    <3> HIDE DEF call
    <3>8. CallsOf(line, prev_name) = <<call>> BY <3>4, <3>7 DEF CallsOf
    <3>9. KeptAfter(line, prev_name) = strncpy0(Name, MaxName)
      <4>1. Assigned(line) # <<>> /\ Assigned(line)[1] = call BY <3>4
      <4> QED BY <3>3, <3>4, <3>7, <4>1 DEF KeptAfter
    <3>10. calls' = calls \o CallsOf(line, prev_name)
      BY <2>2, <3>3, <3>5, <3>8, AppendIsConcat
    <3>11. CallsOf(line, prev_name) # <<>> BY <3>8
    <3> QED BY <2>1, <3>1, <3>6, <3>9, <3>10, <3>11 DEF PassDoes
  <2>10. CASE Malformed
    <3>1. /\ prev_name' = prev_name /\ calls' = calls /\ ~IsComment /\ ~IsContinuation
          /\ error' = ErrorIf(TRUE)
          /\ \/ First = "[" /\ ~Found(SectionEnd, "]")
             \/ First # "[" /\ ~Found(Separator, "=")
      BY <2>10 DEF Malformed, IsSection, IsPair
    <3>2. Assigned(line) = <<>> /\ ~Heading(line) /\ ~Remark(line)
      BY <2>1, <3>1 DEF LineMeant
    <3>3. ~Continues(line, prev_name) BY <2>5, <3>1
    <3>4. CallsOf(line, prev_name) = <<>> BY <3>2, <3>3 DEF CallsOf
    <3>5. KeptAfter(line, prev_name) = prev_name BY <3>2, <3>3 DEF KeptAfter
    <3>6. Broken(line, prev_name) BY <3>2, <3>4 DEF Broken
    <3> QED BY <2>1, <2>3, <3>1, <3>4, <3>5, <3>6 DEF PassDoes
  <2> QED BY <1>2, <2>1, <2>6, <2>7, <2>8, <2>9, <2>10
<1>5. \/ Body(text) = <<>> /\ lineno = 0 /\ Unmarked = <<>>
      \/ \E i \in Int : \E e \in Int : Reads(Body(text), i, e)
  BY <1>1, Pass
<1> QED BY <1>3, <1>4, <1>5

\* The nearest assignment stays the nearest, or the line just read is it.
LEMMA NearestStep ==
    ASSUME TypeOK, IniInv, Next, NextLine
    PROVE  KeptNameIsNearest'
<1> DEFINE file == FileLines(text)
           Near(name, k) ==
               \E n \in 1 .. k :
                  /\ Assigned(file[n]) # <<>>
                  /\ name = strncpy0(Assigned(file[n])[1].name, MaxName)
                  /\ \A m \in n + 1 .. k :
                        \/ IndentedLine(file[m])
                        \/ Assigned(file[m]) = <<>> /\ ~Heading(file[m])
<1>1. text' = text /\ lineno' = lineno + 1 /\ lineno \in Nat BY DEF NextLine, TypeOK
<1>2. prev_name # <<>> /\ ShortLines => Near(prev_name, lineno)
  BY DEF IniInv, KeptNameIsNearest
<1>3. ASSUME prev_name' # <<>>, ShortLines PROVE Near(prev_name', lineno + 1)
  <2>1. PassDoes(file[lineno + 1])
    <3>1. ~(Body(text) = <<>> /\ prev_name' = <<>>) BY <1>3
    <3> QED BY <1>3, <3>1, PassKinds
  <2> HIDE DEF file
  <2>2. CASE /\ prev_name' = prev_name
             /\ \/ IndentedLine(file[lineno + 1])
                \/ Assigned(file[lineno + 1]) = <<>> /\ ~Heading(file[lineno + 1])
    <3>1. PICK n \in 1 .. lineno :
             /\ Assigned(file[n]) # <<>>
             /\ prev_name = strncpy0(Assigned(file[n])[1].name, MaxName)
             /\ \A m \in n + 1 .. lineno :
                   \/ IndentedLine(file[m])
                   \/ Assigned(file[m]) = <<>> /\ ~Heading(file[m])
      BY <1>2, <1>3, <2>2
    <3>2. \A m \in n + 1 .. lineno + 1 : m \in n + 1 .. lineno \/ m = lineno + 1 BY <1>1
    <3>3. \A m \in n + 1 .. lineno + 1 :
             \/ IndentedLine(file[m])
             \/ Assigned(file[m]) = <<>> /\ ~Heading(file[m])
      BY <2>2, <3>1, <3>2
    <3>4. n \in 1 .. lineno + 1 BY <1>1
    <3> QED BY <2>2, <3>1, <3>3, <3>4
  <2>3. CASE /\ Assigned(file[lineno + 1]) # <<>>
             /\ prev_name' = strncpy0(Assigned(file[lineno + 1])[1].name, MaxName)
    <3>1. lineno + 1 \in 1 .. lineno + 1 /\ lineno + 1 + 1 .. lineno + 1 = {} BY <1>1
    <3> QED BY <2>3, <3>1
  <2>4. \/ /\ prev_name' = prev_name
           /\ \/ IndentedLine(file[lineno + 1])
              \/ Assigned(file[lineno + 1]) = <<>> /\ ~Heading(file[lineno + 1])
        \/ /\ Assigned(file[lineno + 1]) # <<>>
           /\ prev_name' = strncpy0(Assigned(file[lineno + 1])[1].name, MaxName)
    <3> DEFINE line == file[lineno + 1]
    <3> HIDE DEF line
    <3>1. prev_name' = KeptAfter(line, prev_name) BY <2>1 DEF PassDoes, line
    <3>2. Continues(line, prev_name) => IndentedLine(line) BY DEF Continues
    <3>3. \/ /\ prev_name' = prev_name
             /\ IndentedLine(line) \/ (Assigned(line) = <<>> /\ ~Heading(line))
          \/ /\ Assigned(line) # <<>>
             /\ prev_name' = strncpy0(Assigned(line)[1].name, MaxName)
      BY <1>3, <3>1, <3>2 DEF KeptAfter
    <3> QED BY <3>3 DEF line
  <2> QED BY <2>2, <2>3, <2>4
<1>4. ShortLines' <=> ShortLines BY <1>1 DEF ShortLines
<1> QED BY <1>1, <1>3, <1>4 DEF KeptNameIsNearest

\* The calls of the line just read are put behind the calls before.
LEMMA WordsStep ==
    ASSUME TypeOK, IniInv, Next, NextLine
    PROVE  LinesAreRead'
<1> DEFINE u == Body(text)
           K == Cardinality(Starts(u))
           file == FileLines(text)
           words == Words(text)
<1>1. /\ text' = text /\ lineno' = lineno + 1 /\ lineno \in Nat /\ text \in Seq(Chars)
  BY DEF NextLine, TypeOK
<1>2. ShortLines' <=> ShortLines BY <1>1 DEF ShortLines
<1>3. CASE ShortLines
  <2>1. IF u = <<>> THEN prev_name = <<>> /\ calls = <<>>
        ELSE /\ lineno <= K /\ prev_name = NameBefore(text, lineno + 1)
             /\ calls = UpToLine(words, lineno)
    BY <1>3 DEF IniInv, LinesAreRead
  <2>2. CASE u = <<>> /\ prev_name' = <<>> /\ calls' = calls
    BY <1>1, <2>1, <2>2 DEF LinesAreRead
  <2>3. CASE lineno + 1 \in DOMAIN file /\ PassDoes(file[lineno + 1])
    <3>1. file \in Seq(Seq(Chars)) /\ Len(file) = K BY <1>1, LinesSeq
    <3>2. words \in Seq(Seq(Call)) /\ Len(words) = K BY <1>1, WordsAre
    <3>3. u # <<>>
      <4> SUFFICES ASSUME u = <<>> PROVE FALSE OBVIOUS
      <4>1. DOMAIN file = {} BY <1>1, NoLines
      <4> HIDE DEF file
      <4> QED BY <2>3, <4>1
    <3>4. words[lineno + 1] = CallsOf(file[lineno + 1], NameBefore(text, lineno + 1))
      BY <2>3 DEF Words
    <3> HIDE DEF words, K, u, file
    <3>5. lineno < Len(file) /\ lineno < Len(words) /\ lineno + 1 <= K
      <4>1. K \in Nat /\ DOMAIN file = 1 .. K BY <3>1, LenProperties
      <4> QED BY <1>1, <2>3, <3>1, <3>2, <4>1
    <3>6. UpToLine(words, lineno + 1) = UpToLine(words, lineno) \o words[lineno + 1]
      BY <1>1, <3>2, <3>5, FlattenStep
    <3>7. NameBefore(text, lineno + 1 + 1)
             = KeptAfter(file[lineno + 1], NameBefore(text, lineno + 1))
      <4> DEFINE n == lineno + 1
      <4>1. n \in 1 .. Len(file) BY <1>1, <3>1, <3>5, LenProperties
      <4> HIDE DEF n
      <4>2. NameBefore(text, n + 1) = KeptAfter(file[n], NameBefore(text, n))
        BY <1>1, <4>1, NameStep DEF file
      <4> QED BY <4>2 DEF n
    <3>8. prev_name = NameBefore(text, lineno + 1) /\ calls = UpToLine(words, lineno)
      BY <2>1, <3>3
    <3>9. /\ prev_name' = KeptAfter(file[lineno + 1], prev_name)
          /\ calls' = calls \o CallsOf(file[lineno + 1], prev_name)
      BY <2>3 DEF PassDoes
    <3>10. prev_name' = NameBefore(text, lineno + 1 + 1) BY <3>7, <3>8, <3>9
    <3>11. calls' = UpToLine(words, lineno + 1) BY <3>4, <3>6, <3>8, <3>9
    <3> QED BY <1>1, <3>3, <3>5, <3>10, <3>11 DEF LinesAreRead, words, K, u
  <2> QED BY <1>3, <2>2, <2>3, PassKinds
<1>4. CASE ~ShortLines BY <1>2, <1>4 DEF LinesAreRead
<1> QED BY <1>3, <1>4

\* The first error stays, and a broken line becomes it if there was none.
LEMMA ErrorStep ==
    ASSUME TypeOK, IniInv, Next, NextLine
    PROVE  ErrorIsFirst'
<1> DEFINE file == FileLines(text)
           Wrong(n) == Broken(file[n], NameBefore(text, n))
           Calls(n) == CallsOf(file[n], NameBefore(text, n)) # <<>>
           First0(e, k) ==
              /\ \A n \in DOMAIN file : n <= k /\ Wrong(n) => e \in 1 .. n
              /\ e > 0 => e \in DOMAIN file /\ (Wrong(e) \/ Calls(e))
<1>1. /\ text' = text /\ lineno' = lineno + 1 /\ lineno \in Nat /\ text \in Seq(Chars)
      /\ error \in 0 .. lineno
  BY DEF NextLine, TypeOK
<1>2. ShortLines' <=> ShortLines BY <1>1 DEF ShortLines
<1>3. ShortLines => First0(error, lineno) BY DEF IniInv, ErrorIsFirst
<1>4. ASSUME ShortLines PROVE First0(error', lineno + 1)
  <2>1. First0(error, lineno) BY <1>3, <1>4
  <2>2. DOMAIN file = 1 .. Cardinality(Starts(Body(text))) BY <1>1, LinesAre
  <2>d. \A n \in DOMAIN file : n \in Int /\ n >= 1 BY <2>2
  <2>3. CASE Body(text) = <<>> /\ error' = error
    <3>1. DOMAIN file = {} BY <1>1, <2>3, NoLines
    <3> HIDE DEF file
    <3> QED BY <2>1, <2>3, <3>1
  <2>4. CASE lineno + 1 \in DOMAIN file /\ PassDoes(file[lineno + 1])
    <3>1. Body(text) # <<>>
      <4> SUFFICES ASSUME Body(text) = <<>> PROVE FALSE OBVIOUS
      <4>1. DOMAIN file = {} BY <1>1, NoLines
      <4> HIDE DEF file
      <4> QED BY <2>4, <4>1
    <3>2. prev_name = NameBefore(text, lineno + 1) BY <1>4, <3>1 DEF IniInv, LinesAreRead
    <3>4. \/ ~Wrong(lineno + 1) /\ error' = error
          \/ Wrong(lineno + 1) /\ error' = ErrorIf(TRUE)
          \/ /\ Calls(lineno + 1) /\ ~Wrong(lineno + 1)
             /\ \E wrong \in BOOLEAN : error' = ErrorIf(wrong)
      <4>1. Calls(lineno + 1) => ~Wrong(lineno + 1) BY DEF Broken
      <4>2. /\ Wrong(lineno + 1) <=> Broken(file[lineno + 1], prev_name)
            /\ Calls(lineno + 1) <=> CallsOf(file[lineno + 1], prev_name) # <<>>
        BY <3>2
      <4> HIDE DEF Wrong, Calls, file
      <4> QED BY <2>4, <4>1, <4>2 DEF PassDoes
    <3> HIDE DEF Wrong, Calls, file
    <3>5. \/ error' = error /\ (Wrong(lineno + 1) => error # 0)
          \/ /\ error = 0 /\ error' = lineno + 1
             /\ Wrong(lineno + 1) \/ Calls(lineno + 1)
      BY <1>1, <3>4 DEF ErrorIf
    <3>6. CASE error' = error /\ (Wrong(lineno + 1) => error # 0)
      <4>1. ASSUME NEW n \in DOMAIN file, n <= lineno + 1, Wrong(n)
            PROVE  error \in 1 .. n
        <5>1. CASE n <= lineno BY <2>1, <4>1, <5>1
        <5>2. CASE n = lineno + 1 BY <1>1, <3>6, <4>1, <5>2
        <5> QED BY <1>1, <2>d, <4>1, <5>1, <5>2
      <4> QED BY <2>1, <3>6, <4>1
    <3>7. CASE /\ error = 0 /\ error' = lineno + 1
               /\ Wrong(lineno + 1) \/ Calls(lineno + 1)
      <4>1. ASSUME NEW n \in DOMAIN file, n <= lineno + 1, Wrong(n)
            PROVE  error' \in 1 .. n
        <5>1. ~(n <= lineno) BY <2>1, <3>7, <4>1
        <5>2. n = lineno + 1 BY <1>1, <2>d, <4>1, <5>1
        <5> QED BY <1>1, <3>7, <5>2
      <4> QED BY <2>4, <3>7, <4>1
    <3> QED BY <3>5, <3>6, <3>7
  <2> QED BY <1>4, <2>1, <2>3, <2>4, PassKinds
<1> QED BY <1>1, <1>2, <1>4 DEF ErrorIsFirst

\* The loop keeps its place in the file, the name it continues and the calls
\* in step with the reference, whatever the file, the buffers and the keys are.
THEOREM IniInvHolds == Spec => []IniInv
<1>1. Init => IniInv
  <2> SUFFICES ASSUME Init PROVE IniInv OBVIOUS
  <2>1. /\ text = <<>> /\ rest = <<>> /\ calls = <<>> /\ result = NotOpened
        /\ lineno = 0 /\ prev_name = <<>>
    BY DEF Init
  <2>2. Where BY <2>1 DEF Where
  <2>3. KeptNameIsNearest BY <2>1 DEF KeptNameIsNearest
  <2>4. Body(text) = <<>> BY <2>1 DEF Body
  <2>5. LinesAreRead BY <2>1, <2>4 DEF LinesAreRead
  <2>6. ErrorIsFirst
    <3>1. error = 0 BY DEF Init
    <3>2. DOMAIN FileLines(text) = 1 .. Cardinality(Starts(<<>>))
      <4>1. text \in Seq(Chars) BY <2>1, EmptySeq
      <4> QED BY <2>4, <4>1, LinesAre
    <3>3. Starts(<<>>) = {}
      <4>1. Len(<<>>) = 0 BY EmptySeq
      <4> QED BY <4>1 DEF Starts
    <3>4. DOMAIN FileLines(text) = {} BY <3>2, <3>3, FS_EmptySet
    <3> QED BY <3>1, <3>4 DEF ErrorIsFirst
  <2> QED BY <2>1, <2>2, <2>3, <2>5, <2>6 DEF IniInv, NotOpened
<1>2. TypeOK /\ IniInv /\ [Next]_vars => IniInv'
  <2> SUFFICES ASSUME TypeOK, IniInv, [Next]_vars PROVE IniInv' OBVIOUS
  <2>i. /\ result = NotOpened => lineno = 0
        /\ lineno = 0 => prev_name = <<>> /\ calls = <<>> /\ rest = text
        /\ ShortLines => Where
        /\ result >= 0 => result = error /\ rest = <<>>
        /\ KeptNameIsNearest /\ LinesAreRead /\ ErrorIsFirst
        /\ error \in 0 .. lineno
        /\ lineno \in Nat /\ text \in Seq(Chars)
    BY DEF IniInv, TypeOK
  <2>1. CASE Next /\ NextLine
    <3>1. /\ text' = text /\ lineno' = lineno + 1 /\ result' = Reading
      BY <2>1 DEF NextLine
    <3>2. lineno' # 0 /\ result' # NotOpened /\ ~(result' >= 0)
      BY <2>i, <3>1 DEF Reading, NotOpened
    <3>3. ShortLines' <=> ShortLines BY <3>1 DEF ShortLines
    <3>4. ShortLines => Where' BY <2>i, <2>1, WhereNext
    <3>5. KeptNameIsNearest' /\ LinesAreRead' /\ ErrorIsFirst'
      BY <2>1, NearestStep, WordsStep, ErrorStep
    <3> QED BY <3>2, <3>3, <3>4, <3>5 DEF IniInv
  <2>2. CASE Open
    <3>1. /\ lineno = 0 /\ lineno' = 0 /\ prev_name' = <<>> /\ calls' = <<>>
          /\ rest' = text' /\ text' \in Texts /\ error' = 0 /\ ~(result' >= 0)
      BY <2>i, <2>2 DEF Open, Reading
    <3>2. text' \in Seq(Chars) BY <3>1, IniAssumption
    <3>3. Where' BY <3>1 DEF Where
    <3>4. KeptNameIsNearest' BY <3>1 DEF KeptNameIsNearest
    <3>5. LinesAreRead'
      <4>1. Words(text') \in Seq(Seq(Call)) /\ Body(text') \in Seq(Chars)
        BY <3>2, WordsAre, BodyIs
      <4>2. Cardinality(Starts(Body(text'))) \in Nat BY <4>1, StartsFinite
      <4>3. UpToLine(Words(text'), 0) = <<>> BY DEF UpToLine
      <4>5. NameBefore(text', lineno' + 1) = <<>>
        <5>1. NameBefore(text', 1) = <<>> BY <3>2, NameStep
        <5>2. lineno' + 1 = 1 BY <3>1
        <5> QED BY <5>1, <5>2
      <4>4. lineno' <= Cardinality(Starts(Body(text'))) BY <3>1, <4>2
      <4> QED BY <3>1, <4>3, <4>4, <4>5 DEF LinesAreRead
    <3>6. ErrorIsFirst'
      <4>1. DOMAIN FileLines(text') = 1 .. Cardinality(Starts(Body(text'))) BY <3>2, LinesAre
      <4>2. \A n \in DOMAIN FileLines(text') : n >= 1 /\ n \in Int BY <4>1
      <4> QED BY <3>1, <4>2 DEF ErrorIsFirst
    <3> QED BY <3>1, <3>3, <3>4, <3>5, <3>6 DEF IniInv
  <2>3. CASE /\ UNCHANGED <<text, rest, lineno, prev_name, calls, error>>
             /\ result' = NotOpened => result = NotOpened
             /\ result' >= 0 => result' = error /\ rest = <<>>
    <3>1. /\ KeptNameIsNearest' /\ LinesAreRead' /\ ErrorIsFirst'
          /\ (ShortLines => Where') /\ (ShortLines' <=> ShortLines)
      BY <2>i, <2>3 DEF KeptNameIsNearest, LinesAreRead, ErrorIsFirst, ShortLines, Where
    <3> QED BY <2>i, <2>3, <3>1 DEF IniInv
  <2>4. OpenFails \/ Close \/ UNCHANGED vars =>
           /\ UNCHANGED <<text, rest, lineno, prev_name, calls, error>>
           /\ result' = NotOpened => result = NotOpened
           /\ result' >= 0 => result' = error /\ rest = <<>>
    <3>1. OpenFails => /\ UNCHANGED <<text, rest, lineno, prev_name, calls, error>>
                       /\ result' # NotOpened /\ ~(result' >= 0)
      BY DEF OpenFails, NotOpened
    <3>2. Close => /\ UNCHANGED <<text, rest, lineno, prev_name, calls, error>>
                   /\ result' # NotOpened /\ result' = error /\ rest = <<>>
      BY <2>i DEF Close, NotOpened
    <3>3. UNCHANGED vars => /\ UNCHANGED <<text, rest, lineno, prev_name, calls, error>>
                            /\ result' = result
      BY DEF vars
    <3> QED BY <2>i, <3>1, <3>2, <3>3
  <2>5. Comment \/ Continuation \/ Section \/ Assignment \/ Malformed => Next /\ NextLine
    BY DEF Comment, Continuation, Section, Assignment, Malformed, Next
  <2> QED BY <2>1, <2>2, <2>3, <2>4, <2>5 DEF Next
<1>3. Spec => []TypeOK BY TypeCorrect
<1> QED BY <1>1, <1>2, <1>3, PTL DEF Spec

\* KeptNameIsNearest of IniParse: an indented line continues the nearest
\* assignment above it, and never one of another section.
THEOREM KeepsTheNearest == Spec => []KeptNameIsNearest
<1>1. IniInv => KeptNameIsNearest BY DEF IniInv
<1> QED BY <1>1, IniInvHolds, PTL

\* FilesRead of IniParse: once a file whose lines fit the buffer is read, the
\* handler was called for each of its assignments and for each line that
\* continues one, in order, with the words that the reference finds there, and
\* for nothing else.
THEOREM FilesAreRead == Spec => []FilesRead
<1>1. TypeOK /\ IniInv => FilesRead
  <2> SUFFICES ASSUME TypeOK, IniInv, rest = <<>>, ShortLines
               PROVE  calls = FlattenSeq(Words(text))
    BY DEF FilesRead, Words, NameBefore
  <2> DEFINE u == Body(text)
             K == Cardinality(Starts(u))
  <2>1. /\ text \in Seq(Chars) /\ lineno \in Nat /\ Where
        /\ lineno = 0 => calls = <<>> /\ rest = text
        /\ IF u = <<>> THEN calls = <<>>
           ELSE calls = UpToLine(Words(text), lineno)
    BY DEF TypeOK, IniInv, LinesAreRead
  <2>2. /\ Words(text) \in Seq(Seq(Call)) /\ Len(Words(text)) = K BY <2>1, WordsAre
  <2>3. FlattenSeq(Words(text)) = UpToLine(Words(text), K) BY <2>2, FlattenStep
  <2>4. CASE u = <<>>
    <3>1. K = 0 BY <2>1, <2>4, NoLines
    <3>2. UpToLine(Words(text), 0) = <<>> BY DEF UpToLine
    <3> QED BY <2>1, <2>3, <2>4, <3>1, <3>2
  <2>5. CASE u # <<>>
    <3>1. lineno # 0
      <4> SUFFICES ASSUME lineno = 0 PROVE FALSE OBVIOUS
      <4>1. text = <<>> BY <2>1
      <4> QED BY <2>5, <4>1 DEF Body
    <3>2. lineno = K BY <2>1, <2>5, <3>1 DEF Where
    <3> QED BY <2>1, <2>3, <2>5, <3>2
  <2> QED BY <2>4, <2>5
<1> QED BY <1>1, IniInvHolds, TypeCorrect, PTL

\* BrokenLinesReported of IniParse: ini_parse answers with a line that is wrong
\* or that the handler was given, and no broken line comes before it.
THEOREM FirstErrorReported == Spec => []BrokenLinesReported
<1>1. TypeOK /\ IniInv => BrokenLinesReported
  <2> DEFINE file == FileLines(text)
             u == Body(text)
             K == Cardinality(Starts(u))
             Wrong(n) == Broken(file[n], NameBefore(text, n))
             Calls(n) == CallsOf(file[n], NameBefore(text, n)) # <<>>
  <2> SUFFICES ASSUME TypeOK, IniInv, result >= 0, ShortLines
               PROVE  /\ \A n \in DOMAIN file : Wrong(n) => result \in 1 .. n
                      /\ result > 0 => result \in DOMAIN file /\ (Wrong(result) \/ Calls(result))
    BY DEF BrokenLinesReported, NameBefore
  <2>1. /\ text \in Seq(Chars) /\ lineno \in Nat /\ Where /\ result = error /\ rest = <<>>
        /\ lineno = 0 => rest = text
        /\ \A n \in DOMAIN file : n <= lineno /\ Wrong(n) => error \in 1 .. n
        /\ error > 0 => error \in DOMAIN file /\ (Wrong(error) \/ Calls(error))
    BY DEF TypeOK, IniInv, ErrorIsFirst
  <2>2. DOMAIN file = 1 .. K BY <2>1, LinesAre
  <2>3. ASSUME NEW n \in DOMAIN file PROVE n <= lineno
    <3>1. CASE u = <<>>
      <4>1. DOMAIN file = {} BY <2>1, <3>1, NoLines
      <4> HIDE DEF file
      <4> QED BY <4>1
    <3>2. CASE u # <<>>
      <4>1. lineno # 0
        <5> SUFFICES ASSUME lineno = 0 PROVE FALSE OBVIOUS
        <5>1. text = <<>> BY <2>1
        <5> QED BY <3>2, <5>1 DEF Body
      <4>2. lineno = K BY <2>1, <3>2, <4>1 DEF Where
      <4> HIDE DEF file, K
      <4> QED BY <2>2, <4>2
    <3> QED BY <3>1, <3>2
  <2> HIDE DEF file, Wrong, Calls
  <2> QED BY <2>1, <2>3
<1> QED BY <1>1, IniInvHolds, TypeCorrect, PTL
=============================================================================
