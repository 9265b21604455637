---------------------------- MODULE MCRoundFeed ----------------------------
(***************************************************************************)
(* The gateway has followed a first round into its flight when the browser *)
(* of a player starts who has a bet in it.                                 *)
(***************************************************************************)
EXTENDS RoundFeed

InFlight ==
    /\ round = 1 /\ status = "RUNNING" /\ queued = {}
    /\ bets = [r \in Rounds |-> IF r = 1 THEN [NoPlayers EXCEPT ![Me] = "ACTIVE"] ELSE NoPlayers]
    /\ announcing = None /\ late = {}
    /\ gw = "up" /\ subscribed = TRUE /\ resolved = 0
    /\ current = 1
    /\ rooms = [r \in Rounds |->
          IF r = 1 THEN [payload |-> "RUNNING", state |-> "RUNNING", ticked |-> TRUE]
          ELSE NewRoom]
    /\ conn = "none" /\ member = 0 /\ closing = 0 /\ held = {} /\ wire = << >>
    /\ view = InitialView /\ sock = "starting"
    /\ fetch = [direct |-> Asked, resync |-> Idle]
    /\ asked = FALSE /\ moves = 0 /\ LimiterInit

MidSpec == InFlight /\ [][Next]_vars /\ Fairness
=============================================================================
