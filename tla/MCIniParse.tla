----------------------------- MODULE MCIniParse -----------------------------
(***************************************************************************)
(* Files for IniParse: every text of up to four characters, and every file *)
(* of up to three of the lines below, with a buffer of 8 and names of 2    *)
(* characters, so that lines and names are cut.                            *)
(***************************************************************************)
EXTENDS IniParse

MCKnown == {<<"a">>, <<"a", "a">>}

MCLines == {<<>>, <<"a", "=", "a">>, <<"a", "a", "=", "a">>, <<"a", "=">>, <<"a">>,
            <<"sp", "a">>, <<"sp", "a", "=", "a">>, <<"semi", "a">>, <<"#", "=">>,
            <<"sp", "semi", "=">>, <<"a", "sp", "semi", "=", "a">>,
            <<"a", "sp", "=", "sp", "semi", "a">>, <<"a", "=", "semi", "a", "sp">>,
            <<"[", "a", "]">>, <<"[", "a">>, <<"sp", "[", "]">>, <<"[", "sp", "semi", "]">>,
            <<"a", "a", "a", "a", "a", "a", "=", "a">>,
            <<"semi", "a", "a", "a", "a", "a", "a", "=", "a">>}

Ended(line) == Append(line, "nl")

MCTexts == UNION {[1 .. n -> Chars] : n \in 0 .. 4}
           \cup {mark \o Ended(x) \o Ended(y) \o z :
                    mark \in {<<>>, <<"bom">>}, x \in MCLines, y \in MCLines, z \in MCLines}
=============================================================================
