------------------------------- MODULE MiniApp -------------------------------
(***************************************************************************)
(* The Mini App: after its launch one of three tabs is mounted, the game,  *)
(* staking or the profile, and a dialog may lie over it.  A tab that is    *)
(* left is unmounted; what it has asked the server for goes on.  The       *)
(* overview of the wallets, which only reads, is left out.                 *)
(***************************************************************************)
EXTENDS Launch, RushPanel, StakingScreen, DepositDialog

CONSTANTS
    DialogTabs,  \* bound: tabs a deposit is made from
    MaxMoves     \* bound: tabs left and orders together

VARIABLES
    tab,         \* activeTab
    withdrawing, \* walletActionMode is "withdraw"
    visits       \* how many tabs have been left

appVars == <<tab, withdrawing, visits>>
clientVars == <<ordersVars, roundVars, panelVars, stakingVars, dialogVars, appVars>>
vars == <<launchVars, clientVars>>

Tabs == {"mine", "staking", "profile"}
ASSUME MovesAssumption == MaxMoves \in Nat
ASSUME NoneAssumption == None \notin Tabs

Init ==
    /\ LaunchInit /\ OrdersInit /\ PanelInit /\ ScreenInit /\ DialogInit
    /\ tab = None /\ withdrawing = FALSE /\ visits = 0

Overlay == open \/ withdrawing \/ sheet \/ action # None

-----------------------------------------------------------------------------
(* The tabs.                                                                *)

\* The app's first screen is the game.
ShowApp ==
    /\ AppShown /\ tab = None
    /\ tab' = "mine" /\ Mount
    /\ UNCHANGED <<launchVars, ordersVars, roundVars, stakingVars, dialogVars>>
    /\ UNCHANGED <<withdrawing, visits>>

LeaveTab(from) ==
    CASE from = "mine" -> Unmount /\ UNCHANGED stakingVars
      [] from = "staking" -> LeaveStaking /\ UNCHANGED panelVars
      [] OTHER -> UNCHANGED <<cmds, panelVars, stakingVars>>

\* One motion ends before the next begins: the old tab is gone first.
TabLeft(from) ==
    /\ tab = from /\ ~Overlay
    /\ visits' = visits + 1
    /\ tab' = "between" /\ LeaveTab(from)
    /\ UNCHANGED <<launchVars, effects, faults, roundVars, dialogVars, withdrawing>>

TabEntered(to) ==
    /\ tab = "between" /\ tab' = to
    /\ CASE to = "mine" -> Mount /\ UNCHANGED stakingVars
         [] to = "staking" -> EnterStaking /\ UNCHANGED panelVars
         [] OTHER -> UNCHANGED <<panelVars, stakingVars>>
    /\ UNCHANGED <<launchVars, ordersVars, roundVars, dialogVars, withdrawing, visits>>

DepositClicked ==
    /\ tab \in DialogTabs /\ ~Overlay
    /\ OpenDialog
    /\ UNCHANGED <<launchVars, roundVars, panelVars, stakingVars, appVars>>

-----------------------------------------------------------------------------
(* The withdrawal dialog: the order, then wallets and ledger are read; only *)
(* then it closes.                                                          *)

Withdrawals == {c \in cmds : c.kind = "withdraw"}
OnlyWithdrawing ==
    UNCHANGED <<launchVars, roundVars, panelVars, stakingVars, dialogVars, tab>>

WithdrawClicked ==
    /\ tab = "profile" /\ ~Overlay /\ withdrawing' = TRUE
    /\ UNCHANGED <<ordersVars, visits>> /\ OnlyWithdrawing
WithdrawClosed ==
    /\ withdrawing /\ Withdrawals = {} /\ withdrawing' = FALSE
    /\ UNCHANGED <<ordersVars, visits>> /\ OnlyWithdrawing

WithdrawSubmitted ==
    /\ withdrawing /\ Withdrawals = {}
    /\ Order([order |-> Next1, kind |-> "withdraw", step |-> "post"])
    /\ UNCHANGED <<withdrawing, visits>> /\ OnlyWithdrawing

\* A refusal leaves the dialog open, and so does a request that throws, even
\* one of the two reads after a withdrawal that was made.
WithdrawGoesOn(c) ==
    /\ \/ /\ c.step = "post" /\ UNCHANGED <<faults, withdrawing>>
          /\ \/ Carried(c.order) /\ Goes(c, [c EXCEPT !.step = "wallets"])
             \/ Ends(c) /\ UNCHANGED effects
       \/ /\ c.step = "wallets" /\ Goes(c, [c EXCEPT !.step = "ledger"])
          /\ UNCHANGED <<effects, faults, withdrawing>>
       \/ /\ c.step = "ledger" /\ Ends(c) /\ withdrawing' = FALSE
          /\ UNCHANGED <<effects, faults>>
       \/ /\ Fault /\ Ends(c) /\ UNCHANGED withdrawing
          /\ UNCHANGED effects \/ (c.step = "post" /\ Carried(c.order))
    /\ UNCHANGED visits /\ OnlyWithdrawing

-----------------------------------------------------------------------------
Launching ==
    LaunchNext /\ tab = None /\ UNCHANGED clientVars
\* No press reaches what lies under a dialog.
Panel ==
    /\ PanelStep \/ (~Overlay /\ OnMainAction)
    /\ UNCHANGED <<launchVars, stakingVars, dialogVars, appVars>>
OnlyStaking == UNCHANGED <<launchVars, roundVars, panelVars, dialogVars, appVars>>
Staking ==
    /\ \/ StakingGoesOn
       \/ tab = "staking" /\ (ScreenStep \/ (~Overlay /\ ScreenPress))
    /\ OnlyStaking
OnlyDialog == UNCHANGED <<launchVars, roundVars, panelVars, stakingVars, appVars>>
Dialog == DialogStep /\ OnlyDialog

Step ==
    \/ Launching \/ ShowApp \/ Panel \/ Staking \/ Dialog
    \/ \E t \in Tabs : TabLeft(t) \/ TabEntered(t)
    \/ DepositClicked \/ WithdrawClicked \/ WithdrawClosed \/ WithdrawSubmitted
    \/ \E c \in Withdrawals : WithdrawGoesOn(c)
Next == Step /\ visits' + Len(effects') <= MaxMoves

\* The timers of a screen that is shown go off, what is asked is answered or
\* fails, and what is set is rendered; users need not do anything.
Fairness ==
    /\ WF_vars(tab = "staking" /\ SilentRead /\ OnlyStaking)
    /\ WF_vars(\E r \in reads : (OverviewArrives(r) \/ OverviewFails(r)) /\ OnlyStaking)
    /\ WF_vars(PollSent /\ OnlyDialog)
    /\ WF_vars(\E p \in polls : (PollArrives(p) \/ PollLost(p)) /\ OnlyDialog)
    /\ WF_vars(Render /\ OnlyDialog)

Spec == Init /\ [][Next]_vars /\ Fairness

-----------------------------------------------------------------------------
\* Every part is in its type; and one tab is mounted, one dialog lies over it,
\* and a dialog stays for the order it has made (the page's tabs and overlays).
TypeOK ==
    /\ LaunchTypeOK
    /\ effects \in Seq(Nat) /\ Len(effects) <= MaxOrders /\ faults \in 0..MaxFaults
    /\ \A c \in cmds : c.order \in DOMAIN effects
    /\ srv \in [round : 1..MaxRounds, phase : {Phase[i] : i \in DOMAIN Phase}]
    /\ bets \subseteq 1..(MaxRounds + 1) /\ out \subseteq bets
    /\ panel \in {"out", "starting", "wallets", "import", "on", "failed"}
    /\ {conn, sheet, open, fired, withdrawing} \subseteq BOOLEAN
    /\ shown \in [Assets -> Nat \cup {None}] /\ srvAssets \in [Assets -> Nat]
    /\ claiming \in Assets \cup {None} /\ action \in Assets \cup {None}
    /\ \A i \in DOMAIN intents : intents[i] \in {Pending} \cup Final
    /\ {next.id, drawn.id} \subseteq 0..Len(intents)
    /\ tab \in Tabs \cup {None, "between"} /\ visits \in 0..MaxMoves
    /\ panel # "out" => tab = "mine"
    /\ shown # NoAssets => tab = "staking"
    /\ Cardinality({o \in {"d", "w", "s", "a"} :
          \/ o = "d" /\ open
          \/ o = "w" /\ withdrawing
          \/ o = "s" /\ sheet
          \/ o = "a" /\ action # None}) <= 1
    /\ Withdrawals # {} => withdrawing
    /\ Paying => open

\* A screen that stays open comes to show what the server has: staking its
\* assets, whatever read or answer came late or not at all, and the deposit
\* dialog the end of its intent (refreshOverviewSilent's and the poll's
\* intervals).
PollsCatchUp ==
    /\ []<>(tab = "staking" => shown = srvAssets)
    /\ []<>(open /\ drawn.id # 0 /\ intents[drawn.id] # Pending => drawn.status # Pending)
=============================================================================
