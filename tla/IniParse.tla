------------------------------ MODULE IniParse ------------------------------
(***************************************************************************)
(* ini_parse of ini.c, as loadConfig calls it for config.ini: a file is    *)
(* read with fgets into a buffer of max_line characters, and handler() is  *)
(* called for every assignment.  One pass of ini_parse_stream's loop is    *)
(* one action, and every branch of it an action of its own.                *)
(*                                                                         *)
(* A text is a sequence of characters; one letter stands for all that mean *)
(* nothing to the parser, "=" for ':' too, "semi" is a semicolon, and "sp" *)
(* every white space but the end of a line, which is "nl".  The three      *)
(* bytes of the mark at the start of a UTF-8 file are one, "bom".          *)
(***************************************************************************)
EXTENDS Integers, SequencesExt

CONSTANTS
    Texts,       \* what config.ini may contain
    max_line,    \* INI_MAX_LINE: 200
    MaxName,     \* MAX_NAME: 50
    KnownKeys    \* the words get_key_ind finds in key_names

Chars == {"a", "sp", "=", "semi", "#", "[", "]", "nl", "bom"}
Space == {"sp", "nl"}

ASSUME IniAssumption ==
    /\ max_line \in Nat /\ max_line > 1 /\ MaxName \in Nat \ {0}
    /\ Texts \subseteq Seq(Chars)
    /\ KnownKeys \subseteq Seq({"a"}) \ {<<>>}

VARIABLES
    text,        \* the whole file, <<>> before it is opened
    rest,        \* what fgets has not read yet
    lineno, prev_name, error,
    calls,       \* the handler's calls so far
    result       \* what ini_parse returned, NotOpened or Reading

vars == <<text, rest, lineno, prev_name, error, calls, result>>

NotOpened == -3
Reading   == -2
Call     == [name : Seq(Chars), value : Seq(Chars)]

(***************************************************************************)
(* The type invariant; a kept name fits its buffer.                        *)
(***************************************************************************)
TypeOK ==
    /\ text \in Seq(Chars) /\ rest \in Seq(Chars)
    /\ lineno \in Nat /\ error \in 0 .. lineno
    /\ prev_name \in Seq(Chars) /\ Len(prev_name) < MaxName
    /\ calls \in Seq(Call)
    /\ result \in {NotOpened, Reading, -1} \cup 0 .. lineno

Init ==
    /\ text = <<>> /\ rest = <<>> /\ calls = <<>> /\ result = NotOpened
    /\ lineno = 0 /\ prev_name = <<>> /\ error = 0

-----------------------------------------------------------------------------
(* The helpers; indexes count from 1, and Len(s) + 1 is the end of s.      *)

Black(c)  == c \notin Space
rstrip(s) == SubSeq(s, 1, SelectLastInSeq(s, Black))
lskip(s)  == SubSeq(s, IF rstrip(s) = <<>> THEN Len(s) + 1 ELSE SelectInSeq(s, Black), Len(s))
Strip(s)  == lskip(rstrip(s))

\* Mutant: a comment needs no white space before it.
IsInlineCommentAny(s, i) == s[i] = "semi"

IsInlineComment(s, i) == s[i] = "semi" /\ i > 1 /\ s[i - 1] \in Space

find_chars_or_comment(s, chars) ==
    Min({i \in DOMAIN s : s[i] \in chars \/ IsInlineComment(s, i)} \cup {Len(s) + 1})

\* Mutant: no room is left for the end of the string.
strncpy0Full(s, size) == SubSeq(s, 1, Min({Len(s), size}))

strncpy0(s, size) == SubSeq(s, 1, Min({Len(s), size - 1}))

\* fgets: up to the end of the line, but no more than the buffer holds.
Fgets(s) == SubSeq(s, 1, Min({i \in DOMAIN s : s[i] = "nl"} \cup {max_line - 1, Len(s)}))

-----------------------------------------------------------------------------
(* One pass of the loop.                                                   *)

Line     == Fgets(rest)
Unmarked == IF lineno = 0 /\ Line[1] = "bom" THEN Tail(Line) ELSE Line
Start    == Strip(Unmarked)

\* *start; strchr finds the end of a string in every string.
First    == IF Start = <<>> THEN "end" ELSE Start[1]

IsComment      == First \in {"semi", "#", "end"}
IsContinuation == ~IsComment /\ prev_name # <<>> /\ Line[1] \in Space
IsSection      == ~IsComment /\ ~IsContinuation /\ First = "["
IsPair         == ~IsComment /\ ~IsContinuation /\ First # "["

SectionEnd == find_chars_or_comment(Tail(Start), {"]"}) + 1
Separator  == find_chars_or_comment(Start, {"="})
Found(i, c) == i <= Len(Start) /\ Start[i] = c
Name       == rstrip(SubSeq(Start, 1, Separator - 1))
Value      == LET v == SubSeq(Start, Separator + 1, Len(Start))
              IN  Strip(SubSeq(v, 1, find_chars_or_comment(v, {}) - 1))

(***************************************************************************)
(* What handler() of hid_mitm_iappletresource.cpp may answer: zero (FALSE) *)
(* after it has stored a rebinding, -1 (TRUE) otherwise.  An empty word    *)
(* may be found behind the end of key_names (see RebindConfig).            *)
(***************************************************************************)
Handler(name, value, answer) ==
    \/ answer  /\ ~({name, value} \subseteq KnownKeys)
    \/ ~answer /\ {name, value} \subseteq KnownKeys \cup {<<>>}

\* Mutant: the last error is kept.
ErrorIfLast(wrong) == IF wrong THEN lineno + 1 ELSE error

ErrorIf(wrong) == IF wrong /\ error = 0 THEN lineno + 1 ELSE error

\* if (!HANDLER(...) && !error) error = lineno;
CallHandler(name, value) ==
    /\ calls' = Append(calls, [name |-> name, value |-> value])
    /\ \E answer \in BOOLEAN : Handler(name, value, answer) /\ error' = ErrorIf(~answer)

NextLine == /\ result = Reading /\ rest # <<>>
            /\ lineno' = lineno + 1
            /\ rest' = SubSeq(rest, Len(Line) + 1, Len(rest))
            /\ UNCHANGED <<text, result>>

Comment ==
    /\ NextLine /\ IsComment
    /\ UNCHANGED <<prev_name, error, calls>>

Continuation ==
    /\ NextLine /\ IsContinuation
    /\ CallHandler(prev_name, Start)
    /\ UNCHANGED prev_name

\* Mutant of Section: the name of the section before stays.
SectionKeeps ==
    /\ NextLine /\ IsSection /\ Found(SectionEnd, "]")
    /\ UNCHANGED <<prev_name, error, calls>>

\* handler() does not look at the section's name.
Section ==
    /\ NextLine /\ IsSection /\ Found(SectionEnd, "]")
    /\ prev_name' = <<>>
    /\ UNCHANGED <<error, calls>>

Assignment ==
    /\ NextLine /\ IsPair /\ Found(Separator, "=")
    /\ prev_name' = strncpy0(Name, MaxName)
    /\ CallHandler(Name, Value)

\* A section without its bracket, or an assignment without a sign.
Malformed ==
    /\ NextLine
    /\ \/ IsSection /\ ~Found(SectionEnd, "]")
       \/ IsPair /\ ~Found(Separator, "=")
    /\ error' = ErrorIf(TRUE)
    /\ UNCHANGED <<prev_name, calls>>

Open ==
    /\ result = NotOpened /\ result' = Reading
    /\ \E t \in Texts : text' = t /\ rest' = t
    /\ UNCHANGED <<lineno, prev_name, error, calls>>

OpenFails ==
    /\ result = NotOpened /\ result' = -1
    /\ UNCHANGED <<text, rest, lineno, prev_name, error, calls>>

Close ==
    /\ result = Reading /\ rest = <<>> /\ result' = error
    /\ UNCHANGED <<text, rest, lineno, prev_name, error, calls>>

Next == \/ Open \/ OpenFails
        \/ Comment \/ Continuation \/ Section \/ Assignment \/ Malformed
        \/ Close

Spec == Init /\ [][Next]_vars

-----------------------------------------------------------------------------
(* What a file means, told line by line and without the parser.            *)

\* The lines of a file without their ends, and without the mark.
FileLines(t) ==
    LET u      == IF t # <<>> /\ t[1] = "bom" THEN Tail(t) ELSE t
        starts == {i \in 1 .. Len(u) : i = 1 \/ u[i - 1] = "nl"}
        end(i) == Min({j \in i .. Len(u) : u[j] = "nl"} \cup {Len(u) + 1})
    IN  [n \in 1 .. Cardinality(starts) |->
            LET i == CHOOSE i \in starts : Cardinality({j \in starts : j <= i}) = n
            IN  SubSeq(u, i, end(i) - 1)]

\* No line is longer than the buffer, so that a call of fgets reads one line.
ShortLines == \A i \in DOMAIN text : i + max_line - 2 <= Len(text) =>
                  \E j \in i .. i + max_line - 2 : text[j] = "nl"

Uncommented(line) ==
    SubSeq(line, 1, Min({i \in 2 .. Len(line) : line[i] = "semi" /\ line[i - 1] = "sp"}
                        \cup {Len(line) + 1}) - 1)

\* What a line assigns that continues no other: no call or one.
Assigned(line) ==
    LET u   == Strip(Uncommented(line))
        eqs == {i \in DOMAIN u : u[i] = "="}
    IN  IF u = <<>> \/ u[1] \in {"semi", "#", "["} \/ eqs = {} THEN <<>>
        ELSE <<[name  |-> Strip(SubSeq(u, 1, Min(eqs) - 1)),
                value |-> Strip(SubSeq(u, Min(eqs) + 1, Len(u)))]>>

IndentedLine(line) == line # <<>> /\ line[1] = "sp"
Remark(line)       == Strip(line) = <<>> \/ Strip(line)[1] \in {"semi", "#"}
Heading(line)      == ~Remark(line) /\ Strip(line)[1] = "[" /\ "]" \in Range(Uncommented(line))

\* An indented line continues the assignment whose name, kept, is still in force.
Continues(line, kept) == kept # <<>> /\ IndentedLine(line) /\ ~Remark(line)

CallsOf(line, kept) ==
    IF Continues(line, kept) THEN <<[name |-> kept, value |-> Strip(line)]>>
    ELSE Assigned(line)

\* A heading ends the name, an assignment sets it anew.
KeptAfter(line, kept) ==
    IF Continues(line, kept) \/ (Assigned(line) = <<>> /\ ~Heading(line)) THEN kept
    ELSE IF Heading(line) THEN <<>>
    ELSE strncpy0(Assigned(line)[1].name, MaxName)

\* The name in force after the first n lines, by recursion on n.
KeptNames(file) ==
    LET kept[n \in 0 .. Len(file)] ==
            IF n = 0 THEN <<>> ELSE KeptAfter(file[n], kept[n - 1])
    IN  kept

(***************************************************************************)
(* Whatever comments, spaces, sections and broken lines are between them,  *)
(* every assignment of a file, and every line that continues one, reaches  *)
(* the handler once, in order, with its words free of spaces, the words of *)
(* an assignment free of comments, and nothing else does.  Only a line     *)
(* that is longer than the buffer is read differently.                     *)
(***************************************************************************)
FilesRead ==
    LET file == FileLines(text)
        kept == KeptNames(file)
    IN  rest = <<>> /\ ShortLines =>
            calls = FlattenSeq([n \in DOMAIN file |-> CallsOf(file[n], kept[n - 1])])

(***************************************************************************)
(* An indented line continues the assignment above it.  The name kept for  *)
(* it is that of the nearest assignment above: no section has begun since, *)
(* and nothing but indented, empty and broken lines and comments followed. *)
(***************************************************************************)
KeptNameIsNearest ==
    LET file == FileLines(text)
    IN  prev_name # <<>> /\ ShortLines =>
            \E n \in 1 .. lineno :
                /\ Assigned(file[n]) # <<>>
                /\ prev_name = strncpy0(Assigned(file[n])[1].name, MaxName)
                /\ \A m \in n + 1 .. lineno :
                      \/ IndentedLine(file[m])
                      \/ Assigned(file[m]) = <<>> /\ ~Heading(file[m])

\* A line that is neither empty, a comment, a heading, an assignment nor its continuation.
Broken(line, kept) == ~Remark(line) /\ ~Heading(line) /\ CallsOf(line, kept) = <<>>

(***************************************************************************)
(* ini.h: ini_parse returns the "line number of first error on parse error *)
(* (doesn't stop on first error)".  No broken line of a file goes          *)
(* unreported, what is reported is no later line, and it is a broken line  *)
(* or one that the handler was given.                                      *)
(***************************************************************************)
BrokenLinesReported ==
    LET file == FileLines(text)
        kept == KeptNames(file)
    IN  result >= 0 /\ ShortLines =>
            /\ \A n \in DOMAIN file : Broken(file[n], kept[n - 1]) => result \in 1 .. n
            /\ result > 0 =>
                  /\ result \in DOMAIN file
                  /\ \/ Broken(file[result], kept[result - 1])
                     \/ CallsOf(file[result], kept[result - 1]) # <<>>

\* A line that handler() has nothing to say against.
Understood(line) ==
    \/ Strip(line) = <<>> \/ Heading(line)
    \/ \E call \in Range(Assigned(line)) : {call.name, call.value} \subseteq KnownKeys

(***************************************************************************)
(* ini.h: "Handler should return nonzero on success, zero on error", and   *)
(* ini_parse "Returns 0 on success, line number of first error on parse    *)
(* error".  A file whose every line is in order gives 0.                   *)
(***************************************************************************)
SuccessIsZero ==
    LET file == FileLines(text)
    IN  result >= 0 /\ ShortLines
        /\ (\A n \in DOMAIN file : Understood(file[n]) /\ ~IndentedLine(file[n])) =>
            result = 0
=============================================================================
