------------------------------ MODULE RushPanel ------------------------------
(***************************************************************************)
(* The game's screen: StarRushPanel, with its adapter, its bet sheet and   *)
(* its renderer StarRushGame.  The round is the server's; the adapter      *)
(* shows it late (RoundFeed tells how).  Commands outlive the screen: one  *)
(* whose panel is gone goes on with the adapter as it was left.            *)
(* X_Something is a wrong form of X no action uses.                        *)
(***************************************************************************)
EXTENDS Orders

CONSTANT MaxRounds  \* bound: rounds
ASSUME RoundsAssumption == MaxRounds \in Nat \ {0}

VARIABLES
    srv,         \* the server's round: [round, phase]
    bets,        \* rounds the user has a bet in, the queued one included
    out,         \* rounds the user has cashed out of
    panel,       \* "out", or how far the screen's bootstrap has come
    live,        \* the adapter's snapshot: [round, phase, mine]
    conn,        \* the adapter is connected
    sheet,       \* PlaceBetModal is open
    scene        \* the renderer, or None

roundVars == <<srv, bets, out>>
panelVars == <<panel, live, conn, sheet, scene>>

Phase == <<"PREPARING", "RUNNING", "CRASHED", "RESETTING">>
Blank == [round |-> 0, phase |-> "PREPARING", mine |-> FALSE]

PanelInit ==
    /\ srv = [round |-> 1, phase |-> "PREPARING"]
    /\ bets = {} /\ out = {}
    /\ panel = "out" /\ live = Blank /\ conn = FALSE
    /\ sheet = FALSE /\ scene = None

Mounted == panel # "out"
Own(c) == c.kind \in {"bet", "cashout"} /\ c.left = None
Busy == \E c \in cmds : Own(c)

-----------------------------------------------------------------------------
(* The renderer.                                                            *)

NewScene == [ready |-> FALSE, pending |-> None, round |-> 0, phase |-> "PREPARING",
             rocket |-> FALSE, crashDone |-> 0]

ResetRound(s) == [s EXCEPT !.rocket = FALSE]
DoCrash(s) == [s EXCEPT !.rocket = FALSE, !.crashDone = s.round]

ApplyPhaseTransition(s, moved) ==
    LET seen == IF moved THEN [s EXCEPT !.crashDone = 0] ELSE s
    IN CASE s.phase = "PREPARING" -> ResetRound(seen)
         [] s.phase = "CRASHED" /\ seen.crashDone # s.round -> DoCrash(seen)
         [] OTHER -> seen

Shows(s, snap) ==
    ApplyPhaseTransition([s EXCEPT !.round = snap.round, !.phase = snap.phase],
                         s.round # snap.round)
ApplySnapshot_FirstKept(s, snap) ==
    IF s.ready THEN Shows(s, snap)
    ELSE IF s.pending = None THEN [s EXCEPT !.pending = snap] ELSE s

\* Before its scene is created the last snapshot waits.
ApplySnapshot(s, snap) ==
    IF s.ready THEN Shows(s, snap) ELSE [s EXCEPT !.pending = snap]

\* Phaser creates the scene when it has loaded its assets.
SceneCreated ==
    /\ scene # None /\ ~scene.ready
    /\ scene' = Shows([scene EXCEPT !.ready = TRUE, !.pending = None], scene.pending)
    /\ UNCHANGED <<ordersVars, roundVars, panel, live, conn, sheet>>

TickRocket(s) == [s EXCEPT !.rocket = (s.phase = "RUNNING")]

\* A frame; none is drawn while the connection is suspended.
Frame ==
    /\ scene # None /\ scene.ready /\ conn
    /\ scene' = TickRocket(scene)
    /\ UNCHANGED <<ordersVars, roundVars, panel, live, conn, sheet>>

-----------------------------------------------------------------------------
(* The screen's bootstrap, the adapter's news, the connection.              *)

\* An adapter takes itself for connected before it has opened a socket.
Mount ==
    /\ panel = "out"
    /\ panel' = "starting" /\ live' = Blank /\ conn' = TRUE
    /\ UNCHANGED <<sheet, scene>>

\* The commands under way keep the adapter that is destroyed, as it was: a bet
\* may go on trying or not.
TakesBets == live.phase \in {"PREPARING", "RUNNING"}
Left == IF TakesBets /\ conn THEN "trying" ELSE "ending"
Unmount ==
    /\ Mounted
    /\ panel' = "out" /\ live' = Blank /\ conn' = FALSE
    /\ sheet' = FALSE /\ scene' = None
    /\ cmds' = {IF Own(c) THEN [c EXCEPT !.left = Left] ELSE c : c \in cmds}

\* start(), the wallets, the renderer's module; an error on the way is shown,
\* and the screen stays without a renderer.
BootGoesOn ==
    /\ \/ panel = "starting" /\ panel' = "wallets" /\ UNCHANGED scene
       \/ panel = "wallets" /\ panel' = "import" /\ UNCHANGED scene
       \/ /\ panel = "import" /\ panel' = "on"
          /\ scene' = ApplySnapshot(NewScene, live)
    /\ UNCHANGED <<ordersVars, roundVars, live, conn, sheet>>
BootFails ==
    /\ panel \in {"wallets", "import"} /\ Fault
    /\ panel' = "failed"
    /\ UNCHANGED <<effects, cmds, roundVars, live, conn, sheet, scene>>

SnapshotNow == [round |-> srv.round, phase |-> srv.phase,
                mine |-> srv.round \in bets \ out]

\* The adapter's subscription: whatever is new goes to the renderer as well.
AdapterEmits ==
    /\ Mounted /\ live # SnapshotNow
    /\ live' = SnapshotNow
    /\ scene' = IF scene = None THEN None ELSE ApplySnapshot(scene, SnapshotNow)
    /\ UNCHANGED <<ordersVars, roundVars, panel, conn, sheet>>

Connected ==
    /\ Mounted /\ panel # "starting" /\ ~conn
    /\ conn' = TRUE
    /\ UNCHANGED <<ordersVars, roundVars, panel, live, sheet, scene>>

\* The socket closes or does not open; the sheet closes, also under a command
\* that goes on.
Disconnected ==
    /\ Mounted /\ panel # "starting" /\ conn /\ Fault
    /\ conn' = FALSE /\ sheet' = FALSE
    /\ UNCHANGED <<effects, cmds, roundVars, panel, live, scene>>

-----------------------------------------------------------------------------
(* The main button, the sheet, and their commands.                          *)

Command(kind, step) == [order |-> Next1, kind |-> kind, step |-> step, left |-> None]

CanCashOut == live.phase = "RUNNING" /\ live.mine

\* Which of the two the button does, and whether the sheet lets a bet go, is the
\* view's to tell (RoundView); here the round's phase decides at the server.
OnMainAction ==
    /\ Mounted /\ conn /\ ~Busy /\ ~sheet
    /\ IF CanCashOut
       THEN Order(Command("cashout", "post")) /\ UNCHANGED sheet
       ELSE sheet' = TRUE /\ UNCHANGED ordersVars
    /\ UNCHANGED <<roundVars, panel, live, conn, scene>>

CloseSheet ==
    /\ sheet /\ ~Busy
    /\ sheet' = FALSE
    /\ UNCHANGED <<ordersVars, roundVars, panel, live, conn, scene>>

OnPlaceFromModal ==
    /\ sheet /\ ~Busy
    /\ Order(Command("bet", "post"))
    /\ UNCHANGED <<roundVars, panelVars>>

\* The round a bet counts for: this one, or the next while this one flies.
Target ==
    CASE srv.phase = "PREPARING" -> srv.round
      [] srv.phase = "RUNNING" -> srv.round + 1
      [] OTHER -> 0
BetFits == Target # 0 /\ Target \notin bets

\* Anything but the round's change ends a bet with a message.
BetAnswered_RetriesAll(c) ==
    /\ c.kind = "bet" /\ c.step = "post"
    /\ \/ /\ BetFits /\ bets' = bets \cup {Target}
          /\ Carried(c.order) /\ UNCHANGED faults
          /\ Goes(c, [c EXCEPT !.step = "refresh"])
       \/ /\ UNCHANGED <<bets, effects, faults>>
          /\ Goes(c, [c EXCEPT !.step = "retry"]) \/ (~BetFits /\ Ends(c))
       \/ /\ Fault
          /\ \/ UNCHANGED <<bets, effects>>
             \/ BetFits /\ bets' = bets \cup {Target} /\ Carried(c.order)
          /\ Goes(c, [c EXCEPT !.step = "retry"])
    /\ UNCHANGED <<srv, out, panelVars>>

BetAnswered(c) ==
    /\ c.kind = "bet" /\ c.step = "post"
    /\ \/ /\ BetFits /\ bets' = bets \cup {Target}
          /\ Carried(c.order) /\ UNCHANGED faults
          /\ Goes(c, [c EXCEPT !.step = "refresh"])
       \/ /\ UNCHANGED <<bets, effects, faults>>
          /\ Goes(c, [c EXCEPT !.step = "retry"]) \/ (~BetFits /\ Ends(c))
       \/ /\ Fault
          /\ \/ UNCHANGED <<bets, effects>>
             \/ BetFits /\ bets' = bets \cup {Target} /\ Carried(c.order)
          /\ Ends(c)
    /\ UNCHANGED <<srv, out, panelVars>>

\* Every ROUND_SWITCH_RETRY_STEP_MS, while the snapshot takes bets, until
\* ROUND_SWITCH_RETRY_WINDOW_MS are over.
BetRetries(c) ==
    /\ c.step = "retry"
    /\ \/ /\ IF c.left = None THEN TakesBets /\ conn ELSE c.left = "trying"
          /\ Goes(c, [c EXCEPT !.step = "post"])
       \/ Ends(c)
    /\ UNCHANGED <<effects, faults, roundVars, panelVars>>

CashedOut == srv.phase = "RUNNING" /\ srv.round \in bets \ out

CashoutAnswered(c) ==
    /\ c.kind = "cashout" /\ c.step = "post"
    /\ \/ /\ CashedOut /\ out' = out \cup {srv.round}
          /\ Carried(c.order) /\ UNCHANGED faults
          /\ Goes(c, [c EXCEPT !.step = "refresh"])
       \/ ~CashedOut /\ Ends(c) /\ UNCHANGED <<out, effects, faults>>
       \/ /\ Fault /\ Ends(c)
          /\ \/ UNCHANGED <<out, effects>>
             \/ CashedOut /\ out' = out \cup {srv.round} /\ Carried(c.order)
    /\ UNCHANGED <<srv, bets, panelVars>>

\* The wallets are refreshed before the sheet closes; if that throws, the
\* sheet stays open over a bet that was placed.
WalletsRefreshed(c) ==
    /\ c.kind \in {"bet", "cashout"} /\ c.step = "refresh" /\ Ends(c)
    /\ \/ /\ sheet' = (sheet /\ ~(c.kind = "bet" /\ c.left = None))
          /\ UNCHANGED faults
       \/ Fault /\ UNCHANGED sheet
    /\ UNCHANGED <<effects, roundVars, panel, live, conn, scene>>

\* The worker's round goes on; while no panel looks it may as well wait.
RoundGoesOn ==
    /\ Mounted
    /\ LET i == CHOOSE n \in DOMAIN Phase : Phase[n] = srv.phase
       IN IF i < Len(Phase)
          THEN srv' = [srv EXCEPT !.phase = Phase[i + 1]]
          ELSE /\ srv.round < MaxRounds
               /\ srv' = [round |-> srv.round + 1, phase |-> Phase[1]]
    /\ UNCHANGED <<ordersVars, bets, out, panelVars>>

-----------------------------------------------------------------------------
PanelStep ==
    \/ SceneCreated \/ Frame \/ BootGoesOn \/ BootFails \/ AdapterEmits
    \/ Connected \/ Disconnected \/ CloseSheet \/ OnPlaceFromModal
    \/ RoundGoesOn
    \/ \E c \in {d \in cmds : d.kind \in {"bet", "cashout"}} :
          BetAnswered(c) \/ BetRetries(c) \/ CashoutAnswered(c) \/ WalletsRefreshed(c)

\* What the renderer draws is what the adapter says, also when the news came
\* before the renderer or while it was loading: the round and its phase, one
\* explosion for a crash, no rocket before the flight (the panel's bootstrap
\* and subscription, StarRushScene.create and applySnapshot).
SceneTellsRound ==
    scene # None =>
        IF scene.ready
        THEN /\ <<scene.round, scene.phase>> = <<live.round, live.phase>>
             /\ scene.phase = "CRASHED" => scene.crashDone = scene.round
             /\ scene.rocket => scene.phase \in {"RUNNING", "RESETTING"}
        ELSE scene.pending = live
=============================================================================
