---------------------------- MODULE StakingScreen ----------------------------
(***************************************************************************)
(* The staking tab: StakingContent with its action sheet.  It shows the    *)
(* assets of the last answer that arrived, whichever request it answers:   *)
(* the overview's first read, the silent ones of every 15 seconds, claims, *)
(* stakes and unstakes.  What an asset says is a version of it; the user's *)
(* orders make new ones (those of time and of other users are left out).   *)
(* X_Something is a wrong form of X no action uses.                        *)
(***************************************************************************)
EXTENDS Orders, FiniteSets

CONSTANTS
    Assets,
    MaxReads     \* bound: overview reads in flight

VARIABLES
    srvAssets,   \* the server's assets: their versions
    shown,       \* the screen's, None for one it does not have
    reads,       \* overview reads in flight
    claiming,    \* claimingAssetId
    action       \* the asset of actionState

stakingVars == <<srvAssets, shown, reads, claiming, action>>
screenVars == <<shown, reads, claiming, action>>

NoAssets == [a \in Assets |-> None]

\* buildOverviewWithinTransaction: every asset as the tables have it.
Overview == srvAssets
OverviewRead(first) == [first |-> first, seen |-> Overview]

ScreenClosed == shown = NoAssets /\ reads = {} /\ claiming = None /\ action = None
ScreenInit == srvAssets = [a \in Assets |-> 0] /\ ScreenClosed

StakingCommand(c) == c.kind \in {"claim", "act"}

EnterStaking ==
    /\ reads' = {OverviewRead(TRUE)}
    /\ UNCHANGED <<srvAssets, shown, claiming, action>>

\* No answer to what the screen has asked finds it any more; a claim goes on,
\* and so does the rest of a claim of all assets.
LeaveStaking ==
    /\ shown' = NoAssets /\ reads' = {} /\ claiming' = None /\ action' = None
    /\ cmds' = {IF StakingCommand(c) THEN [c EXCEPT !.left = TRUE] ELSE c : c \in cmds}
    /\ UNCHANGED srvAssets

-----------------------------------------------------------------------------
(* The overview.                                                            *)

SilentRead_WhenShown ==
    /\ Cardinality(reads) < MaxReads /\ shown # NoAssets
    /\ reads' = reads \cup {OverviewRead(FALSE)}
    /\ UNCHANGED <<ordersVars, srvAssets, shown, claiming, action>>

SilentRead ==
    /\ Cardinality(reads) < MaxReads
    /\ reads' = reads \cup {OverviewRead(FALSE)}
    /\ UNCHANGED <<ordersVars, srvAssets, shown, claiming, action>>

OverviewArrives(r) ==
    /\ shown' = r.seen /\ reads' = reads \ {r}
    /\ UNCHANGED <<ordersVars, srvAssets, claiming, action>>

\* A failed first read empties the screen, a failed silent one is not noticed.
OverviewFails(r) ==
    /\ Fault
    /\ shown' = IF r.first THEN NoAssets ELSE shown
    /\ reads' = reads \ {r}
    /\ UNCHANGED <<effects, cmds, srvAssets, claiming, action>>

-----------------------------------------------------------------------------
(* Claims, and the sheet's stake or unstake.                                *)

StakingOrder(kind, asset, rest) ==
    [order |-> Next1, kind |-> kind, step |-> "post", left |-> FALSE,
     asset |-> asset, rest |-> rest, got |-> None]

\* Its button waits for a claim of the same asset only.
Claim(a) ==
    /\ shown[a] # None /\ claiming # a /\ action = None
    /\ Order(StakingOrder("claim", a, <<>>))
    /\ claiming' = a
    /\ UNCHANGED <<srvAssets, shown, reads, action>>

\* One order per asset, taken one after the other.
ClaimAll(queue) ==
    /\ \A i \in DOMAIN queue : shown[queue[i]] # None
    /\ claiming = None /\ action = None
    /\ Len(effects) + Len(queue) <= MaxOrders
    /\ effects' = effects \o [i \in DOMAIN queue |-> 0]
    /\ cmds' = cmds \cup {StakingOrder("claim", Head(queue), Tail(queue))}
    /\ claiming' = Head(queue)
    /\ UNCHANGED <<faults, srvAssets, shown, reads, action>>

Submitting == \E c \in cmds : c.kind = "act" /\ ~c.left

OpenAction(a) ==
    /\ shown[a] # None /\ action = None
    /\ action' = a
    /\ UNCHANGED <<ordersVars, srvAssets, shown, reads, claiming>>

CloseAction ==
    /\ action # None /\ ~Submitting
    /\ action' = None
    /\ UNCHANGED <<ordersVars, srvAssets, shown, reads, claiming>>

SubmitAction ==
    /\ action # None /\ ~Submitting
    /\ Order(StakingOrder("act", action, <<>>))
    /\ UNCHANGED stakingVars

\* Any claim that ends clears the flag, whichever set it.
FlagCleared(c) ==
    claiming' = IF c.kind = "claim" /\ ~c.left THEN None ELSE claiming

CarriedOut(c) ==
    /\ Carried(c.order)
    /\ srvAssets' = [srvAssets EXCEPT ![c.asset] = @ + 1]

StakingHandled(c) ==
    /\ StakingCommand(c) /\ c.step = "post"
    /\ \/ CarriedOut(c) /\ Goes(c, [c EXCEPT !.step = "read"])
       \/ UNCHANGED <<effects, srvAssets>> /\ Goes(c, [c EXCEPT !.step = "answer"])
    /\ UNCHANGED <<faults, screenVars>>

\* getStakingAssetOverview, which the answer tells of, is read after the commit.
AssetRead(c) ==
    /\ StakingCommand(c) /\ c.step = "read"
    /\ Goes(c, [c EXCEPT !.step = "answer", !.got = Overview[c.asset]])
    /\ UNCHANGED <<effects, faults, stakingVars>>

\* A request that throws takes the rest of the claims with it, and may have been
\* carried out.
StakingLost(c) ==
    /\ StakingCommand(c) /\ c.step \in {"post", "read"} /\ Fault /\ Ends(c)
    /\ UNCHANGED <<effects, srvAssets>>
    /\ FlagCleared(c)
    /\ UNCHANGED <<shown, reads, action>>

StakingAnswered(c) ==
    /\ StakingCommand(c) /\ c.step = "answer"
    /\ UNCHANGED <<effects, faults, srvAssets, reads>>
    /\ IF c.rest = <<>>
       THEN Ends(c) /\ FlagCleared(c)
       ELSE /\ Goes(c, [c EXCEPT !.step = "post", !.order = @ + 1, !.got = None,
                                 !.asset = Head(c.rest), !.rest = Tail(c.rest)])
            /\ claiming' = IF c.left THEN claiming ELSE Head(c.rest)
    /\ IF c.got = None \/ c.left
       THEN UNCHANGED <<shown, action>>
       ELSE /\ shown' = [shown EXCEPT ![c.asset] = c.got]
            /\ action' = IF c.kind = "act" THEN None ELSE action

-----------------------------------------------------------------------------
\* What is pressed on the screen, what else it does while it is open, and what
\* its commands do without it.
ScreenPress ==
    \/ \E a \in Assets : Claim(a) \/ OpenAction(a)
    \/ \E a, b \in Assets : a # b /\ ClaimAll(<<a, b>>)
ScreenStep ==
    \/ SilentRead \/ CloseAction \/ SubmitAction
    \/ \E r \in reads : OverviewArrives(r) \/ OverviewFails(r)
StakingGoesOn ==
    \E c \in cmds :
       StakingHandled(c) \/ AssetRead(c) \/ StakingLost(c) \/ StakingAnswered(c)
=============================================================================
