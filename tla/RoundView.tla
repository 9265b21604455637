------------------------------ MODULE RoundView ------------------------------
(***************************************************************************)
(* The browser's view of the round: BackendRoundStateAdapter, which merges *)
(* the gateway's messages with the snapshots it fetches over HTTP.  A      *)
(* handler is given as the view it leaves, with `stale' set when it asks   *)
(* for a resync.  Coefficients, countdowns, history and the number of      *)
(* players online are left out.                                            *)
(*                                                                         *)
(* X_Something is a wrong form of X no action uses.                        *)
(***************************************************************************)
EXTENDS Integers, Sequences, SequencesExt

CONSTANTS
    Users, Me,      \* the players, the one of this browser
    Nobody,
    PendingLimit    \* PENDING_PLAYER_EVENT_LIMIT

ASSUME UsersAssumption == Me \in Users /\ Nobody \notin Users
ASSUME PendingAssumption == PendingLimit \in Nat \ {0}

NoPlayers == [u \in Users |-> "none"]

InitialView ==
    [round   |-> 0,              \* "round-0"
     phase   |-> "PREPARING",
     players |-> NoPlayers,      \* the status shown for each user, if any
     mine    |-> {},             \* players marked isCurrentUser
     queued  |-> FALSE,          \* queuedBet
     active  |-> Nobody,         \* the player of userActiveBet
     canBet  |-> TRUE,
     canCash |-> FALSE,
     applied |-> FALSE,          \* hasAppliedSnapshot
     pending |-> << >>,          \* pendingPlayerEvents
     stale   |-> FALSE]

-----------------------------------------------------------------------------
(* What GameWsClient lets through.                                          *)

BackendStatus == {"WAITING", "RUNNING", "CRASHED", "FINISHED"}
PlayerStatus == {"ACTIVE", "CASHED_OUT", "LOST"}

\* WS_MESSAGE_SCHEMA.
WellFormed(e) ==
    /\ e.type \in {"round_state", "round_crashed", "round_finished", "multiplier",
                  "PLAYER_BET", "PLAYER_CASHOUT"}
    /\ e.type \in {"round_state", "multiplier"} => e.round # 0

\* SNAPSHOT_SCHEMA.
SnapshotWellFormed(s) ==
    /\ s.round # 0 /\ s.status \in BackendStatus
    /\ \A u \in Users : s.players[u] \in PlayerStatus \cup {"none"}
    /\ {s.queued, s.canBet, s.canCash} \subseteq BOOLEAN

\* Each player of a snapshot, as the list shows it: the name apart, as it comes.
PlayerShown(s, u) == s.players[u]

StatusToPhase(s) ==
    CASE s = "RUNNING" -> "RUNNING" [] s = "CRASHED" -> "CRASHED"
      [] s = "FINISHED" -> "RESETTING" [] OTHER -> "PREPARING"

-----------------------------------------------------------------------------
(* Round events.                                                            *)

\* applyRoundStateEvent.  A new round empties the list; a bet waiting for it is
\* shown as active when the first thing heard of the round is that it runs.
AfterRoundState(v, r, s) ==
    LET changed == v.round # r
        carried == changed /\ s = "RUNNING" /\ v.queued /\ v.active = Nobody
        active == IF carried THEN Me ELSE IF changed THEN Nobody ELSE v.active
    IN [v EXCEPT !.round = r, !.phase = StatusToPhase(s), !.stale = TRUE,
          !.players = IF carried THEN [NoPlayers EXCEPT ![Me] = "ACTIVE"]
                      ELSE IF changed THEN NoPlayers ELSE @,
          !.mine = IF carried THEN {Me} ELSE IF changed THEN {} ELSE @,
          !.queued = @ /\ ~changed,
          !.active = active,
          !.canBet = s = "WAITING",
          !.canCash = s = "RUNNING" /\ active # Nobody]

\* applyRoundCrashedEvent and applyRoundFinishedEvent.
AfterRoundEnd_ButtonKept(v, r, s) ==
    [v EXCEPT !.round = r, !.phase = StatusToPhase(s), !.canBet = FALSE, !.stale = TRUE]

AfterRoundEnd(v, r, s) ==
    [v EXCEPT !.round = r, !.phase = StatusToPhase(s),
              !.canBet = FALSE, !.canCash = FALSE, !.stale = TRUE]

\* applyMultiplierEvent: the phase stays as it is.
AfterMultiplier_NoResync(v, r) == v

AfterMultiplier(v, r) == IF r # v.round THEN [v EXCEPT !.stale = TRUE] ELSE v

-----------------------------------------------------------------------------
(* Player events.  The gateway does not say whose they are.                  *)

\* resolveIsCurrentUserForBet and resolveIsCurrentUserForCashout guess from the
\* user that is known and from the round, amount and time of the last bet asked
\* for: one may be taken for the user's own that is not, and the other way round.
Guesses == BOOLEAN

Enqueue(v, e) ==
    LET all == Append(v.pending, e)
    IN [v EXCEPT !.pending = IF Len(all) > PendingLimit THEN Tail(all) ELSE all]

\* A user is in the list once, whatever was known before.
UpsertPlayer(players, u, s) == [players EXCEPT ![u] = s]

\* applyPlayerBetEvent, once there is a snapshot and the rounds agree.  The list
\* is sorted by amount: which of two own bets comes first is left to CHOOSE.
ShowBet(v, e, own) ==
    LET u == e.what
        players == UpsertPlayer(v.players, u, "ACTIVE")
        mine == IF own THEN v.mine \cup {u} ELSE v.mine
        flying == {w \in mine : players[w] = "ACTIVE"}
        active == IF flying = {} THEN Nobody ELSE CHOOSE w \in flying : TRUE
    IN [v EXCEPT !.players = players, !.mine = mine, !.active = active,
          !.canBet = @ /\ active # u,
          !.canCash = v.phase = "RUNNING" /\ active # Nobody]

\* applyPlayerCashoutEvent, likewise.
ShowCashout(v, e, own) ==
    LET u == e.what
        mine == IF own THEN v.mine \cup {u} ELSE v.mine
    IN [v EXCEPT !.players = UpsertPlayer(@, u, "CASHED_OUT"), !.mine = mine,
          !.active = IF u \in mine \/ @ = u THEN Nobody ELSE @,
          !.canCash = @ /\ u \notin mine /\ v.active # u]

AfterPlayerEvent(v, e, own) ==
    IF ~v.applied THEN Enqueue(v, e)
    ELSE IF e.round # v.round THEN [v EXCEPT !.stale = TRUE]
    ELSE IF e.type = "PLAYER_BET" THEN ShowBet(v, e, own) ELSE ShowCashout(v, e, own)

\* The handler of each message.
AfterMessage(v, e, own) ==
    CASE e.type = "round_state" -> AfterRoundState(v, e.round, e.what)
      [] e.type \in {"round_crashed", "round_finished"} ->
            AfterRoundEnd(v, e.round, e.what)
      [] e.type = "multiplier" -> AfterMultiplier(v, e.round)
      [] OTHER -> AfterPlayerEvent(v, e, own)

-----------------------------------------------------------------------------
(* applySnapshot: everything is taken from the snapshot, whatever messages   *)
(* have said since it was read; then the player events are caught up with.   *)

FlushPendingPlayerEvents(v, own) ==
    FoldLeft(LAMBDA w, e : AfterPlayerEvent(w, e, own),
             [v EXCEPT !.pending = << >>], v.pending)

AfterSnapshot(v, s, own) ==
    LET mine == {u \in {Me} : s.players[u] # "none"}
        base == [v EXCEPT !.round = s.round, !.phase = StatusToPhase(s.status),
                   !.players = [u \in Users |-> PlayerShown(s, u)],
                   !.mine = mine, !.queued = s.queued,
                   !.active = IF s.players[Me] = "ACTIVE" THEN Me ELSE Nobody,
                   !.canBet = s.canBet, !.canCash = s.canCash,
                   !.applied = TRUE]
    IN FlushPendingPlayerEvents(base, own)
=============================================================================
