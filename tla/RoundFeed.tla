------------------------------ MODULE RoundFeed ------------------------------
(***************************************************************************)
(* How a round reaches a player: the round services publish events through *)
(* Redis, the gateway sends them to the browser, and the browser fetches   *)
(* snapshots of the database over HTTP in between.  Nothing orders the two *)
(* ways.  The browser sends bets and cashouts over HTTP as well.           *)
(*                                                                         *)
(* The rounds are seen as CrashGame commits them: one worker, one round at *)
(* a time; risk limits and balances may refuse any bet.                    *)
(***************************************************************************)
EXTENDS Gateway, GatewayCommands, FiniteSets

CONSTANTS
    WireMax,        \* bound: messages on their way to the browser
    MaxMoves,       \* bound: requests and commands of users, crashes, broken
                    \* connections, failed calls, together
    AnswersLost     \* whether the answer to a bet or cashout may be lost

ASSUME BoundsAssumption ==
    /\ WireMax \in Nat \ {0} /\ MaxMoves \in Nat /\ AnswersLost \in BOOLEAN

VARIABLES
    round, status,   \* the newest round and its status, 0 and "NONE" before it
    bets,            \* bets[r][u]: RoundPlayer.status, "none" without a row
    queued,          \* the users with a RoundQueuedBet
    announcing,      \* the round event the gateway has yet to get, if any
    late,            \* committed player events the gateway has yet to get
    wire,            \* messages on their way to the browser
    view,            \* what the browser shows
    sock,            \* the browser's socket: "starting", "connecting", "open",
                     \* "waiting" to reconnect
    fetch,           \* the snapshot requests: "resync", and "direct" ones
    asked,           \* whether the browser waits for an answer to a bet or cashout
    moves

roundVars == <<round, status, bets, queued, announcing, late>>
browserVars == <<view, sock, fetch, asked>>
rest == <<limiter, moves>>
vars == <<roundVars, gatewayVars, wire, browserVars, rest>>

Slots == {"direct", "resync"}
Idle == [at |-> "idle"]
Asked == [at |-> "asked"]
None == Message("none", 0, "")

Init ==
    /\ round = 0 /\ status = "NONE"
    /\ bets = [r \in Rounds |-> NoPlayers] /\ queued = {}
    /\ announcing = None /\ late = {}
    /\ GatewayInit /\ LimiterInit
    /\ wire = << >>
    /\ view = InitialView /\ sock = "starting"
    /\ fetch = [direct |-> Asked, resync |-> Idle]
    /\ asked = FALSE /\ moves = 0

Move == moves < MaxMoves /\ moves' = moves + 1

\* What is published reaches a subscribed gateway, or nobody: the time until then
\* is part of the time until it is published.
Publish(e) ==
    IF subscribed
    THEN HandleEvent(e) /\ Len(wire) < WireMax /\ wire' = wire \o Sends(e)
    ELSE UNCHANGED <<gatewayVars, wire>>

-----------------------------------------------------------------------------
(* The rounds.  Each transition commits, then its event is published.       *)

Commit(r, s) ==
    /\ announcing = None
    /\ round' = r /\ status' = s
    /\ announcing' = Message("round", r, s)
    /\ UNCHANGED <<late, gatewayVars, wire, browserVars, rest>>

\* The queued bets that still can be served become bets; some are only dropped.
NewRound ==
    /\ round < MaxRound /\ status \in {"NONE", "FINISHED"}
    /\ Commit(round + 1, "WAITING")
    /\ \E gone \in SUBSET queued : \E served \in SUBSET gone :
          /\ queued' = queued \ gone
          /\ bets' = [bets EXCEPT ![round + 1] =
                         [u \in Users |-> IF u \in served THEN "ACTIVE" ELSE "none"]]

Advance_PublishedFirst(from, to) ==
    /\ status = from /\ announcing = None
    /\ \/ Publish(Message("round", round, to)) /\ UNCHANGED <<round, status>>
       \/ round' = round /\ status' = to /\ UNCHANGED <<gatewayVars, wire>>
    /\ UNCHANGED <<announcing, late, bets, queued, browserVars, rest>>

Advance(from, to) ==
    /\ status = from
    /\ Commit(round, to)
    /\ UNCHANGED <<bets, queued>>

StartRound == Advance("WAITING", "RUNNING")
CrashRound == Advance("RUNNING", "CRASHED")
FinishRound == Advance("CRASHED", "FINISHED")

AnnounceRound ==
    /\ announcing # None
    /\ Publish(announcing)
    /\ announcing' = None
    /\ UNCHANGED <<round, status, bets, queued, late, browserVars, rest>>

AnnounceFails ==
    /\ announcing # None /\ announcing' = None
    /\ Move
    /\ UNCHANGED <<round, status, bets, queued, late, gatewayVars, limiter, wire,
                   browserVars>>

Tick ==
    /\ status = "RUNNING" /\ announcing = None
    /\ Publish(Message("multiplier", round, ""))
    /\ UNCHANGED <<roundVars, browserVars, rest>>

-----------------------------------------------------------------------------
(* Bets and cashouts.                                                       *)

\* A request on its way changes nothing, so it is seen when it is handled, with
\* whatever the buttons have become.  Any may be refused, and a refusal that says
\* the view was wrong is answered like a success.
Asks(u) == IF u = Me THEN ~asked /\ asked' = TRUE ELSE UNCHANGED asked

Handled(u) ==
    /\ Move
    /\ Asks(u)
    /\ UNCHANGED <<round, status, announcing, gatewayVars, limiter, wire,
                   view, sock, fetch>>

\* With the event that is published after it.  Bound: one is unpublished at a time.
Commits(r, u, s, type) ==
    /\ late = {} /\ late' = {Message(type, r, u)}
    /\ bets' = [bets EXCEPT ![r][u] = s]
    /\ UNCHANGED queued

Place(u) ==
    /\ status = "WAITING" /\ bets[round][u] = "none"
    /\ Commits(round, u, "ACTIVE", "PLAYER_BET")

\* A bet for the next round is not announced.
Queue(u) ==
    /\ status = "RUNNING" /\ u \notin queued
    /\ queued' = queued \cup {u}
    /\ UNCHANGED <<bets, late>>

Leave(r, u) ==
    /\ r = round /\ status = "RUNNING" /\ bets[r][u] = "ACTIVE"
    /\ Commits(r, u, "CASHED_OUT", "PLAYER_CASHOUT")

Refused == UNCHANGED <<bets, queued, late>>

PlaceBet(u) == Place(u) /\ Handled(u)
QueueBet(u) == Queue(u) /\ Handled(u)
Cashout(u) == Leave(round, u) /\ Handled(u)
Refuse == Refused /\ Handled(Me)

\* The same over the socket.  The browser does not send these, another program
\* of the other users may; it hears the answer, and nobody else.  Their cashout
\* is of the round the gateway takes for current.
Command(u, command) ==
    /\ gw = "up" /\ u # Me
    /\ Move
    /\ Allowed(u, current, command) /\ Takes(u, current, command)
    /\ UNCHANGED <<round, status, announcing, gatewayVars, wire, browserVars>>

CommandBet(u) == Command(u, "bet") /\ (Place(u) \/ Queue(u) \/ Refused)
CommandCashout(u) == Command(u, "cashout") /\ (Leave(current, u) \/ Refused)

CommandsEnd(u) ==
    /\ limiter[u] # Unused(0)
    /\ Forget(u)
    /\ UNCHANGED <<roundVars, gatewayVars, wire, browserVars, moves>>

PublishPlayer(e) ==
    /\ e \in late
    /\ Publish(e)
    /\ late' = late \ {e}
    /\ UNCHANGED <<round, status, bets, queued, announcing, browserVars, rest>>

-----------------------------------------------------------------------------
(* The gateway, and the socket between it and the browser.                  *)

OnlyGateway == UNCHANGED <<roundVars, wire, browserVars, rest>>

\* The round Redis names, which createRound changes last.
Found == {round} \cup (IF announcing.what = "WAITING" /\ round > 1 THEN {round - 1} ELSE {})

Boot == (\E r \in Found : BootReads(r)) /\ OnlyGateway

GatewayStep == (Subscribe \/ BootReady \/ LateJoin) /\ OnlyGateway

JoinRoom ==
    /\ Join
    /\ wire' = wire \o Greeting
    /\ UNCHANGED <<roundVars, browserVars, rest>>

\* An open socket fetches a snapshot at once.
SocketOpens ==
    /\ sock \in {"connecting", "waiting"} /\ fetch.direct = Idle
    /\ Accept
    /\ sock' = "open" /\ fetch' = [fetch EXCEPT !.direct = Asked]
    /\ UNCHANGED <<roundVars, wire, view, asked, rest>>

ConnectFails ==
    /\ sock = "connecting" /\ gw # "up"
    /\ sock' = "waiting"
    /\ UNCHANGED <<roundVars, gatewayVars, wire, view, fetch, asked, rest>>

\* A socket that is still being authenticated has no handler of `close` yet.
SocketBreaks ==
    /\ sock = "open"
    /\ Move
    /\ Disconnect
    /\ IF conn = "in" THEN Forget(Me) ELSE UNCHANGED limiter
    /\ sock' = "waiting" /\ wire' = << >>
    /\ UNCHANGED <<roundVars, view, fetch, asked>>

Crash ==
    /\ Move
    /\ GatewayCrash /\ limiter' = [u \in Users |-> Unused(0)]
    /\ wire' = << >>
    /\ sock' = IF sock = "open" THEN "waiting" ELSE sock
    /\ UNCHANGED <<roundVars, view, fetch, asked>>

-----------------------------------------------------------------------------
(* The browser.                                                             *)

\* requestResync is dropped while one is in flight.
Resync(f) == IF f.resync = Idle THEN [f EXCEPT !.resync = Asked] ELSE f

\* What a handler leaves; inside a resync's own answer no other can be asked for.
Show(v, f) ==
    /\ view' = [v EXCEPT !.stale = FALSE]
    /\ fetch' = IF v.stale THEN Resync(f) ELSE f

Receive ==
    /\ wire # << >>
    /\ wire' = Tail(wire)
    /\ IF WellFormed(Head(wire))
       THEN \E own \in Guesses : Show(AfterMessage(view, Head(wire), own), fetch)
       ELSE UNCHANGED <<view, fetch>>
    /\ UNCHANGED <<roundVars, gatewayVars, sock, asked, rest>>

\* mapPlayerStatus.
Shown(s, b) == IF b = "ACTIVE" /\ s \in {"CRASHED", "FINISHED"} THEN "LOST" ELSE b

StatusOf(r) == IF r = round THEN status ELSE "FINISHED"

\* What getCurrentRoundSnapshot makes of the round it has read, and of the rows
\* of its players and the queued bet it reads next.
Snapshot(r, s, rows, waits) ==
    LET players == [u \in Users |-> Shown(s, rows[u])]
    IN [at |-> "ready", round |-> r, status |-> s, players |-> players, queued |-> waits,
        canBet |-> \/ s = "WAITING" /\ players[Me] # "ACTIVE"
                   \/ s = "RUNNING" /\ ~waits,
        canCash |-> s = "RUNNING" /\ players[Me] = "ACTIVE"]

\* The rows are taken as they are when the round is read.
SnapshotRead(slot) ==
    /\ fetch[slot] = Asked /\ round > 0
    /\ \E r \in Found :
          fetch' = [fetch EXCEPT ![slot] =
                       Snapshot(r, StatusOf(r), bets[r], Me \in queued)]
    /\ UNCHANGED <<roundVars, gatewayVars, wire, view, sock, asked, rest>>

\* The first fetch is awaited before the socket is opened.
Answered(slot) ==
    sock' = IF slot = "direct" /\ sock = "starting" THEN "connecting" ELSE sock

SnapshotArrives(slot) ==
    /\ fetch[slot].at = "ready" /\ SnapshotWellFormed(fetch[slot])
    /\ \E own \in Guesses :
          LET v == AfterSnapshot(view, fetch[slot], own) IN
          Show([v EXCEPT !.stale = @ /\ slot = "direct"], [fetch EXCEPT ![slot] = Idle])
    /\ Answered(slot)
    /\ UNCHANGED <<roundVars, gatewayVars, wire, asked, rest>>

\* Without a round the answer is 404; one that does not parse is dropped.
NoSnapshot(slot) ==
    /\ fetch[slot] # Idle
    /\ IF \/ fetch[slot] = Asked /\ round = 0
          \/ fetch[slot].at = "ready" /\ ~SnapshotWellFormed(fetch[slot])
       THEN UNCHANGED moves ELSE Move
    /\ fetch' = [fetch EXCEPT ![slot] = Idle]
    /\ Answered(slot)
    /\ UNCHANGED <<roundVars, gatewayVars, limiter, wire, view, asked>>

\* placeBet and cashOut when their answer arrives.  A bet's event is published
\* before its answer.
CommandAnswered ==
    /\ asked /\ asked' = FALSE
    /\ \A r \in Rounds : Message("PLAYER_BET", r, Me) \notin late
    /\ fetch' = Resync(fetch)
    /\ UNCHANGED <<roundVars, gatewayVars, wire, view, sock, rest>>

\* A network error: no resync follows.
CommandLost ==
    /\ asked /\ asked' = FALSE
    /\ AnswersLost
    /\ UNCHANGED <<roundVars, gatewayVars, wire, view, sock, fetch, rest>>

-----------------------------------------------------------------------------
(* The specification.                                                       *)

Browse == \/ Receive \/ SocketOpens \/ ConnectFails \/ CommandAnswered
          \/ \E slot \in Slots : SnapshotRead(slot) \/ SnapshotArrives(slot)

Next ==
    \/ NewRound \/ StartRound \/ CrashRound \/ FinishRound
    \/ AnnounceRound \/ AnnounceFails \/ Tick
    \/ \E u \in Users : PlaceBet(u) \/ QueueBet(u) \/ Cashout(u)
    \/ Refuse
    \/ \E u \in Users : CommandBet(u) \/ CommandCashout(u) \/ CommandsEnd(u)
    \/ \E e \in late : PublishPlayer(e)
    \/ Boot \/ GatewayStep \/ JoinRoom \/ Crash
    \/ Browse \/ SocketBreaks \/ CommandLost
    \/ \E slot \in Slots : NoSnapshot(slot)

\* Messages arrive, a resync is answered, and the worker announces its round and
\* ticks while it runs.  No round has to start or end, nobody has to bet, nothing
\* has to break, and neither a boot nor another request has to come to its end.
Fairness ==
    /\ WF_vars(AnnounceRound) /\ SF_vars(Tick) /\ WF_vars(Receive)
    /\ WF_vars(SnapshotRead("resync") \/ SnapshotArrives("resync"))

Spec == Init /\ [][Next]_vars
FairSpec == Spec /\ Fairness

-----------------------------------------------------------------------------
(* Properties.                                                              *)

Rank(p) == CASE p = "PREPARING" -> 1 [] p = "RUNNING" -> 2
             [] p = "CRASHED" -> 3 [] p = "RESETTING" -> 4

\* The browser never shows a round or a phase that the database has not reached:
\* a transition is committed before it is announced, whatever is lost, delayed or
\* overtaken on the two ways to the browser.
ViewNeverAhead ==
    /\ view.round <= round
    /\ view.round = round /\ round > 0 => Rank(view.phase) <= Rank(StatusToPhase(status))

\* The cashout button is enabled only while the view shows a flying round with a
\* bet in it, and the bet button only while it shows one that takes bets, however
\* messages and snapshots are mixed.
ButtonsMatchView ==
    /\ view.canCash => /\ view.phase = "RUNNING" /\ view.active \in view.mine
                       /\ view.players[view.active] = "ACTIVE"
    /\ view.canBet => view.phase \in {"PREPARING", "RUNNING"}

\* A connection that is in a room is in the one the gateway takes for current, so
\* that it hears what is sent there with every connection that joins later.  The
\* room of another round holds nobody and can be dropped, although a socket that
\* closed while it was being authenticated stays in the rooms for good: it goes
\* from one current round to the next like the others, and what is sent skips it.
ListenersFollowRound ==
    /\ member # 0 => member = current /\ conn = "in"
    /\ held \subseteq {current}

\* A browser that listens to the room of a round that keeps flying shows this
\* round in the end, whichever events it has missed: while Redis serves the gateway
\* the multiplier's ticks make it fetch a snapshot.
RunningRoundShown ==
    <>[](status = "RUNNING" /\ subscribed /\ member = round /\ view.applied)
        => <>[](view.round = round)
=============================================================================
