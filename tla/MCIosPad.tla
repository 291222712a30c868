------------------------------ MODULE MCIosPad ------------------------------
(***************************************************************************)
(* The chords of the README, the one of the code, and what comes before.   *)
(***************************************************************************)
EXTENDS IosPad

MCChords == {{}, {"a"}, {"down"}, {"right"}, Shoulders, Shoulders \cup {"x"}, Shoulders \cup {"left"},
             Shoulders \cup {"right"}, Shoulders \cup {"x", "right"}}
=============================================================================
