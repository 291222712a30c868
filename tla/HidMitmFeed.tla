---------------------------- MODULE HidMitmFeed ----------------------------
(***************************************************************************)
(* HidMitm implements HidFeed.  A game is an id in sharedmems, a round is  *)
(* a pass of the copy thread while it holds pkgMutex, and a game sees the  *)
(* newest entries of the shadow page that is registered for it.            *)
(***************************************************************************)
EXTENDS HidMitm

SeenPads == {NoPad} \cup [Layouts -> Entry]
FeedView == [other : Screens, pads : [Slots -> SeenPads]]

ViewOf(page) == [other |-> page.other, pads |-> [i \in Slots |-> Seen(page, i)]]

\* The pads of a real page and a packet, the pads that rebind_keys visits
\* each under some complete configuration.
PadRenderings(img, msg, i) ==
    IF i > Handheld THEN {Raw(img, msg, i)}
    ELSE {Rebound(Raw(img, msg, i), cfg, dz) : cfg \in CompleteConfigs, dz \in CompleteDeadzones}

RenderingsOf(msg) ==
    UNION {{[other |-> img.other, pads |-> pads] :
               pads \in {f \in [Slots -> UNION {PadRenderings(img, msg, i) : i \in Slots}] :
                            \A i \in Slots : f[i] \in PadRenderings(img, msg, i)}} :
           img \in RealImages}

FeedRenderings == [msg \in Messages \cup {NoMessage} |-> RenderingsOf(msg)]

RegisteredGames == {p \in Pids : Registered(p)}

ShownTo(p) == IF Registered(p) THEN ViewOf(fake[sharedmems[p]]) ELSE ViewOf(ZeroImage)

CurrentPacket == IF cur_fakegamepad_state.magic THEN cur_fakegamepad_state ELSE NoMessage

Feed == INSTANCE HidFeed WITH
            Games      <- Pids,
            Packets    <- Messages,
            NoPacket   <- NoMessage,
            Views      <- FeedView,
            Blank      <- ViewOf(ZeroImage),
            Renderings <- FeedRenderings,
            games      <- RegisteredGames,
            toServe    <- IF InPass THEN todo ELSE {},
            view       <- [p \in Pids |-> ShownTo(p)],
            packet     <- CurrentPacket

(***************************************************************************)
(* Three threads that share three mutexes, a hash table, a scratch image,  *)
(* a configuration and a packet behave towards the games like the simple   *)
(* rounds of HidFeed: registering and unmapping, reloading config.ini and  *)
(* receiving packets never show in the middle of a round.                  *)
(***************************************************************************)
FeedsGames == Feed!Spec
=============================================================================
