------------------------------ MODULE MCHidMitm ------------------------------
(***************************************************************************)
(* Small instances of HidMitm for TLC: one player slot, the handheld and   *)
(* the unknown controller, one layout, one stick with one digital bit, and *)
(* the button bits A, B (named in config.ini), Stick, SL and Stray.        *)
(***************************************************************************)
EXTENDS HidMitmFeed, TLC

MCButtons   == {"A", "B", "Stick", "SL", "Stray"}
MCNamedKeys == {"A", "B"}
MCStray     == {"Stray"}
MCLayouts   == {"default"}
MCSticks    == {"left"}
MCStickKeys == [s \in MCSticks |-> {"Stick"}]
MCSideKeys  == {"SL"}
MCScreens   == {"zero", "touch 1", "touch 2"}
MCOther     == {"other"}

\* A pad whose newest entry holds the buttons, with the stick off centre by mag.
MCPad(latest, buttons, mag) ==
    [ZeroPad EXCEPT !.used = TRUE,
        !.layouts = [l \in Layouts |->
            [latest  |-> latest,
             entries |-> [e \in Ring |->
                IF e = latest
                THEN [connected |-> TRUE, buttons |-> buttons, sticks |-> [s \in Sticks |-> mag]]
                ELSE ZeroEntry]]]]

\* Pads of player 1, handheld and unknown, of which a page shows some.
MCPage(other, pads) ==
    [other |-> other,
     pads  |-> [i \in Slots |-> IF i \in DOMAIN pads THEN pads[i] ELSE ZeroPad]]

MCPlayerPage   == MCPage("touch 1", [i \in {0} |-> MCPad(0, {"A", "Stick", "SL"}, 2)])
MCHandheldPage == MCPage("touch 2", [i \in {1} |-> MCPad(RingSize - 1, {"B", "Stick"}, 1)])
MCFullPage     == MCPage("touch 1", [i \in {0, 1} |-> MCPad(0, {"A", "Stick", "SL"}, 2)])

MCMessage(keys, mag) == [magic |-> TRUE, keys |-> keys, sticks |-> [s \in Sticks |-> mag]]

Assign(name, value, num) == [name |-> name, value |-> value, num |-> num]
MCEnable  == Assign("enabled", "other", 1)
MCDisable == Assign("enabled", "other", 0)

\* Control: who runs when; the data are as few as can be.
ControlImages   == {MCPlayerPage}
ControlMessages == {MCMessage({"B"}, 0)}
ControlFiles    == {<<>>, <<MCEnable>>, <<MCDisable>>}

\* Games and objects are interchangeable; for the runs without liveness.
MCSymmetry == Permutations(Pids) \cup Permutations(Res)

\* One game and what it is shown: files that rebind, networking always on.
GameImages   == {MCHandheldPage, MCFullPage}
GameMessages == {MCMessage({"B"}, 2)}
GameFiles    == {<<MCEnable, Assign("A", "B", 0), Assign("B", "A", 0),
                   Assign("deadzone", "other", 65537)>>,
                 <<Assign("B", Empty, 0)>>}

\* Two games that share the scratch image; one file, read again and again.
SharedImages   == {MCPlayerPage, MCHandheldPage}
SharedMessages == {MCMessage({"B"}, 2)}
SharedFiles    == {<<MCEnable, Assign("A", "B", 0)>>}
=============================================================================
