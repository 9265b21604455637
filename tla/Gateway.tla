------------------------------- MODULE Gateway -------------------------------
(***************************************************************************)
(* The WebSocket gateway: it subscribes to the game events on Redis, keeps *)
(* a room per round, and sends each event to the connections in its room.  *)
(* Only the connection of one user is followed; the other connections go   *)
(* through the same rooms.  Left out: the heartbeat's cleanup of the rooms *)
(* that nobody is in, which are not entered again.  X_Something is a wrong *)
(* form of X no action uses.                                               *)
(***************************************************************************)
EXTENDS Integers, Sequences

CONSTANT MaxRound   \* bound: rounds created
ASSUME RoundsAssumption == MaxRound \in Nat \ {0}
Rounds == 1..MaxRound

VARIABLES
    gw,          \* "down", "booting": not yet listening, "up"
    subscribed,  \* whether Redis sends it the game's channels
    resolved,    \* the round boot has read as the current one, 0 for none
    current,     \* RoundRoomManager.currentRoundId, 0 for none
    rooms,       \* RoundRoomManager.rooms: what each remembers
    conn,        \* the connection: "none", "auth": being authenticated, "in"
    member,      \* the room it is in, 0 for none
    closing,     \* number of its sockets that closed while being authenticated
    held         \* the rooms that such a socket was put in afterwards

ghosts == <<closing, held>>
gatewayVars == <<gw, subscribed, resolved, current, rooms, conn, member, ghosts>>

NewRoom == [payload |-> "none", state |-> "none", ticked |-> FALSE]

GatewayInit ==
    /\ gw = "up" /\ subscribed = TRUE /\ resolved = 0
    /\ current = 0 /\ rooms = [r \in Rounds |-> NewRoom]
    /\ conn = "none" /\ member = 0 /\ closing = 0 /\ held = {}

\* boot: the subscription is asked for but not awaited, the current round is.
BootReads(r) ==
    /\ gw = "down"
    /\ gw' = "booting" /\ resolved' = r
    /\ UNCHANGED <<subscribed, current, rooms, conn, member, ghosts>>

Subscribe ==
    /\ gw # "down" /\ ~subscribed
    /\ subscribed' = TRUE
    /\ UNCHANGED <<gw, resolved, current, rooms, conn, member, ghosts>>

\* The round that boot read may be older than one an event has set meanwhile.
BootReady ==
    /\ gw = "booting"
    /\ gw' = "up" /\ resolved' = 0
    /\ current' = IF resolved # 0 THEN resolved ELSE current
    /\ UNCHANGED <<subscribed, rooms, conn, member, ghosts>>

-----------------------------------------------------------------------------
(* Events.  An event and a message is a kind, a round, and a status or user. *)

Message(type, r, what) == [type |-> type, round |-> r, what |-> what]

SetsCurrent(e) == e.type = "round" /\ e.what \in {"WAITING", "RUNNING"}

\* normalizePlayerBetPayload and normalizePlayerCashoutPayload: what the services
\* publish has a user already.
PlayerMessage(e) == Message(e.type, e.round, e.what)

\* mapEvent, and the multiplier's own channel.
MapEvent(e) ==
    CASE e.type \in {"PLAYER_BET", "PLAYER_CASHOUT"} -> PlayerMessage(e)
      [] e.type = "multiplier" -> e
      [] e.type = "round" /\ e.what = "CRASHED" -> Message("round_crashed", e.round, "CRASHED")
      [] e.type = "round" /\ e.what = "FINISHED" -> Message("round_finished", e.round, "FINISHED")
      [] OTHER -> Message("round_state", e.round, e.what)

\* A crash or an end sets the room's state and leaves its payload as it was.
Remember(rm, e) ==
    CASE SetsCurrent(e) -> [rm EXCEPT !.payload = e.what, !.state = e.what]
      [] e.type = "round" /\ ~SetsCurrent(e) -> [rm EXCEPT !.state = e.what]
      [] e.type = "multiplier" -> [rm EXCEPT !.ticked = TRUE]
      [] OTHER -> rm

\* Whoever is in some room goes along, closed or not; a connection that is in no
\* room stays out.
MoveAllToCurrent(now) ==
    /\ member' = IF member # 0 THEN now ELSE 0
    /\ held' = IF held # {} THEN {now} ELSE {}

HandleEvent_MovesWhenWaiting(e) ==
    /\ IF SetsCurrent(e) THEN current' = e.round ELSE UNCHANGED current
    /\ IF e.what = "WAITING" THEN MoveAllToCurrent(e.round) ELSE UNCHANGED <<member, held>>
    /\ rooms' = [rooms EXCEPT ![e.round] = Remember(@, e)]
    /\ UNCHANGED <<gw, subscribed, resolved, conn, closing>>

HandleEvent(e) ==
    /\ IF SetsCurrent(e)
       THEN current' = e.round /\ MoveAllToCurrent(e.round)
       ELSE UNCHANGED <<current, member, held>>
    /\ rooms' = [rooms EXCEPT ![e.round] = Remember(@, e)]
    /\ UNCHANGED <<gw, subscribed, resolved, conn, closing>>

\* What the followed connection is sent for e, once it has been moved.
Sends(e) == IF member' = e.round THEN <<MapEvent(e)>> ELSE << >>

-----------------------------------------------------------------------------
(* The connection.                                                          *)

Accept ==
    /\ gw = "up" /\ conn = "none"
    /\ conn' = "auth"
    /\ UNCHANGED <<gw, subscribed, resolved, current, rooms, member, ghosts>>

\* Without a current round it enters no room.
Join ==
    /\ conn = "auth"
    /\ conn' = "in" /\ member' = current
    /\ UNCHANGED <<gw, subscribed, resolved, current, rooms, ghosts>>

\* The same for a socket that has closed meanwhile, which nothing takes out of the
\* room again: its handler of `close` is registered after that event.
LateJoin ==
    /\ closing > 0
    /\ closing' = closing - 1
    /\ held' = IF current # 0 THEN held \cup {current} ELSE held
    /\ UNCHANGED <<gw, subscribed, resolved, current, rooms, conn, member>>

\* A new connection is told what the room remembers: the last payload, although
\* the round may have crashed since.
Greeting ==
    IF current = 0 THEN << >>
    ELSE LET room == rooms[current]
             state == IF room.payload # "none" THEN room.payload ELSE room.state
         IN (IF state # "none" THEN <<Message("round_state", current, state)>> ELSE << >>)
            \o (IF room.ticked THEN <<Message("multiplier", current, "")>> ELSE << >>)

Disconnect ==
    /\ conn' = "none" /\ member' = 0
    /\ closing' = IF conn = "auth" THEN closing + 1 ELSE closing
    /\ UNCHANGED <<gw, subscribed, resolved, current, rooms, held>>

GatewayCrash ==
    /\ gw # "down"
    /\ gw' = "down" /\ subscribed' = FALSE /\ resolved' = 0
    /\ current' = 0 /\ rooms' = [r \in Rounds |-> NewRoom]
    /\ conn' = "none" /\ member' = 0 /\ closing' = 0 /\ held' = {}
=============================================================================
