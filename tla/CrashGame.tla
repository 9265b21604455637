----------------------------- MODULE CrashGame ------------------------------
(***************************************************************************)
(* The crash game as it runs: the one round worker of the deployment, the  *)
(* players' requests, Redis beside the database of GameDb, and what can    *)
(* fail.  The worker's tick is cut at every call to the database or Redis: *)
(* pc says which call comes next, so a crash, an error or another process  *)
(* can come between any two of them.                                       *)
(*                                                                         *)
(* Where the worker waits at Repair or Activate for a transaction whose    *)
(* conditions do not hold, the code would throw.  None is ever refused:    *)
(* the worker would stop there for good, and the run would report a        *)
(* deadlock or an unfinished round.                                        *)
(***************************************************************************)
EXTENDS GameDb

CONSTANTS
    BatchSize, MaxBatches,   \* options of settleLosses (50 and 50)
    FaultKinds,              \* which faults may happen
    MaxFaults                \* bound: how many of them in a behaviour

ASSUME BatchAssumption == BatchSize \in Nat \ {0} /\ MaxBatches \in Nat \ {0}
ASSUME FaultAssumption ==
    FaultKinds \subseteq {"crash", "error", "flush"} /\ MaxFaults \in Nat

VARIABLES
    current,     \* Redis game:round:current, 0 when the key is absent
    rstate,      \* Redis game:round:<r>:state, "NONE" when absent
    mult,        \* Redis game:round:<r>:multiplier, 0 when absent
    settledKey,  \* the rounds whose Redis losses_settled key is set
    req,         \* req[u]: the round a bet request of u has resolved to
    pc,          \* the worker's next call
    tick,        \* the worker's locals, see NoTick
    faults       \* faults so far

redisVars  == <<current, rstate, mult, settledKey>>
workerVars == <<pc, tick>>
vars == <<dbVars, redisVars, req, workerVars, faults>>

NoRequest == [round |-> 0, mode |-> "none"]
Request == {NoRequest} \cup [round : Rounds, mode : {"active", "queued"}]

BootPc == {"down", "recoverState", "listWallets", "repair"}
TickPc == {"start", "publishStart", "ackStart", "crash", "publishCrash",
           "checkSettled", "list", "settle", "markSettled", "cooldown",
           "finish", "publishFinish", "create", "activate", "publish", "clear"}
Pc == BootPc \cup TickPc \cup {"idle"}

\* round and state: the round of this tick (0 for none) and the state it was
\* found in; todo: players or wallets of the batch still to be handled; batch,
\* did, skipped: settleLosses' batches so far, and whether the current one has
\* settled or failed anyone.
NoTick == [round |-> 0, state |-> "NONE", todo |-> {}, batch |-> 0,
           did |-> FALSE, skipped |-> FALSE]
Locals == [round : {0} \cup Rounds, state : RoundStatus, todo : SUBSET Users,
           batch : 0..MaxBatches, did : BOOLEAN, skipped : BOOLEAN]
rd == tick.round

GameInit ==
    /\ Init
    /\ current = 0
    /\ rstate = [r \in Rounds |-> "NONE"]
    /\ mult = [r \in Rounds |-> 0]
    /\ settledKey = {}
    /\ req = [u \in Users |-> NoRequest]
    /\ pc = "down" /\ tick = NoTick
    /\ faults = 0

\* The newest round (orderBy createdAt desc) in one of the given states, or 0.
NewestIn(S) ==
    LET R == {r \in Rounds : status[r] \in S} IN IF R = {} THEN 0 ELSE Max(R)

-----------------------------------------------------------------------------
(* Players.  A bet request first finds the round, outside any transaction, *)
(* and runs its transaction on that round some time later.                 *)

\* resolveCurrentRound and the status test of placeBet.
ResolvedRound ==
    IF current # 0 THEN current ELSE NewestIn({"WAITING", "RUNNING"})

ResolveCurrentRound(u) ==
    /\ req[u] = NoRequest
    /\ ResolvedRound # 0 /\ status[ResolvedRound] \in {"WAITING", "RUNNING"}
    /\ req' = [req EXCEPT ![u] =
         [round |-> ResolvedRound,
          mode |-> IF status[ResolvedRound] = "WAITING" THEN "active" ELSE "queued"]]
    /\ UNCHANGED <<dbVars, redisVars, workerVars, faults>>

PlaceBet(u) ==
    /\ req[u] # NoRequest
    /\ \E a \in Stakes :
         \/ req[u].mode = "active" /\ PlaceBetForCurrentRound(req[u].round, u, a)
         \/ req[u].mode = "queued" /\ QueueBetForNextRound(req[u].round, u, a)
    /\ req' = [req EXCEPT ![u] = NoRequest]
    /\ UNCHANGED <<redisVars, workerVars, faults>>

\* The transaction throws, or the client gives up.
BetRejected(u) ==
    /\ req[u] # NoRequest
    /\ req' = [req EXCEPT ![u] = NoRequest]
    /\ UNCHANGED <<dbVars, redisVars, workerVars, faults>>

\* The live multiplier cashoutPlayer may read: what the worker published
\* last, or without the key the curve itself, which is below the crash point
\* until the clock is due.
LiveMultiplier(r) ==
    IF mult[r] # 0 THEN {mult[r]}
    ELSE IF clock[r] = "due" THEN {crash[r]} ELSE 1..(crash[r] - 1)

Cashout(u) ==
    /\ \E r \in Rounds : \E m \in LiveMultiplier(r) : CashoutPlayer(r, u, m)
    /\ UNCHANGED <<redisVars, req, workerVars, faults>>

-----------------------------------------------------------------------------
(* The worker boots: recoverActiveRound, then repairLockedBalances.        *)

Unfinished_NoWaiting == {"RUNNING", "CRASHED"}

\* The states recoverActiveRound looks for.
Unfinished == {"WAITING", "RUNNING", "CRASHED"}

\* The next call, with the locals it finds; a tick that ends forgets them.
Goto(label, locals) == pc' = label /\ tick' = locals
EndTick == Goto("idle", NoTick)

RecoverActiveRound ==
    /\ pc = "down"
    /\ LET r == NewestIn(Unfinished)
       IN IF r = 0 THEN /\ Goto("listWallets", NoTick)
                        /\ UNCHANGED current
                   ELSE /\ Goto("recoverState", [NoTick EXCEPT !.round = r])
                        /\ current' = r
    /\ UNCHANGED <<dbVars, rstate, mult, settledKey, req, faults>>

RecoverState ==
    /\ pc = "recoverState"
    /\ rstate' = [rstate EXCEPT ![rd] = status[rd]]
    /\ Goto("listWallets", NoTick)
    /\ UNCHANGED <<dbVars, current, mult, settledKey, req, faults>>

\* The wallets that hold a lock, read before any of them is locked.
ListWallets ==
    /\ pc = "listWallets"
    /\ Goto("repair", [tick EXCEPT !.todo = {u \in Users : locked[u] > 0}])
    /\ UNCHANGED <<dbVars, redisVars, req, faults>>

Repair ==
    /\ pc = "repair"
    /\ \/ tick.todo = {} /\ EndTick /\ UNCHANGED dbVars
       \/ \E u \in tick.todo :
            /\ RepairWallet(u)
            /\ Goto("repair", [tick EXCEPT !.todo = @ \ {u}])
    /\ UNCHANGED <<redisVars, req, faults>>

-----------------------------------------------------------------------------
(* tickRound.  The tick starts from the round Redis names and the state    *)
(* Redis gives it, or the database's where the key is absent.              *)

TickState(r) == IF rstate[r] # "NONE" THEN rstate[r] ELSE status[r]

\* The tick of the current round finds it in a state, and makes its first call.
Tick(state, label) ==
    /\ pc = "idle"
    /\ current # 0 /\ TickState(current) = state
    /\ Goto(label, [NoTick EXCEPT !.round = current, !.state = state])
    /\ UNCHANGED <<dbVars, redisVars, req, faults>>

TickNoRound ==
    /\ pc = "idle" /\ current = 0
    /\ Goto("create", NoTick)
    /\ UNCHANGED <<dbVars, redisVars, req, faults>>

\* Elapsed times: a round that has moved on in the database is past them.
WaitingOver(r) == status[r] # "WAITING" \/ clock[r] = "due"
CurveAtCrash(r) == status[r] # "RUNNING" \/ clock[r] = "due"
CooldownOver(r) == status[r] # "CRASHED" \/ clock[r] = "due"

TickWaiting_RedisFirst == Tick("WAITING", "publishStart") /\ WaitingOver(current)
TickCrashing_SettleFirst == Tick("RUNNING", "checkSettled") /\ CurveAtCrash(current)

TickWaiting  == Tick("WAITING", "start") /\ WaitingOver(current)
TickCrashing == Tick("RUNNING", "crash") /\ CurveAtCrash(current)
TickCrashed  == Tick("CRASHED", "checkSettled")
TickFinished == Tick("FINISHED", "create")

\* A RUNNING tick before the crash point publishes the multiplier.
TickMultiplier ==
    /\ pc = "idle"
    /\ current # 0 /\ TickState(current) = "RUNNING" /\ ~CurveAtCrash(current)
    /\ \E m \in 1..(crash[current] - 1) :
         /\ m >= mult[current]
         /\ mult' = [mult EXCEPT ![current] = m]
    /\ UNCHANGED <<dbVars, current, rstate, settledKey, req, workerVars, faults>>

\* startRound: the database first; a round already started is returned as is.
StartDb ==
    /\ pc = "start"
    /\ \/ /\ \E c \in 2..MaxCrash : StartRound(rd, c)
          /\ Goto("publishStart", tick)
       \/ /\ status[rd] # "WAITING" /\ UNCHANGED dbVars
          /\ Goto("ackStart", tick)
    /\ UNCHANGED <<redisVars, req, faults>>

PublishStart ==
    /\ pc = "publishStart"
    /\ rstate' = [rstate EXCEPT ![rd] = "RUNNING"]
    /\ mult' = [mult EXCEPT ![rd] = 1]
    /\ Goto("ackStart", tick)
    /\ UNCHANGED <<dbVars, current, settledKey, req, faults>>

\* tickRound repeats the state after startRound returns.
AckStart ==
    /\ pc = "ackStart"
    /\ rstate' = [rstate EXCEPT ![rd] = "RUNNING"]
    /\ EndTick
    /\ UNCHANGED <<dbVars, current, mult, settledKey, req, faults>>

CrashDb ==
    /\ pc = "crash"
    /\ \E c \in 2..MaxCrash : CrashRound(rd, c)
    /\ Goto("publishCrash", tick)
    /\ UNCHANGED <<redisVars, req, faults>>

PublishCrash ==
    /\ pc = "publishCrash"
    /\ rstate' = [rstate EXCEPT ![rd] = "CRASHED"]
    /\ Goto("checkSettled", tick)
    /\ UNCHANGED <<dbVars, current, mult, settledKey, req, faults>>

\* After settlement a RUNNING tick ends; a CRASHED one goes on to the cooldown.
AfterSettlement ==
    IF tick.state = "CRASHED"
    THEN Goto("cooldown", [NoTick EXCEPT !.round = rd, !.state = "CRASHED"])
    ELSE EndTick

CheckSettled ==
    /\ pc = "checkSettled"
    /\ IF rd \in settledKey THEN AfterSettlement ELSE Goto("list", tick)
    /\ UNCHANGED <<dbVars, redisVars, req, faults>>

\* settleLosses: the next batch of open bets; none ends the settlement.
ListBatch ==
    /\ pc = "list"
    /\ IF Placed(rd) = {} THEN Goto("markSettled", tick)
       ELSE \E S \in SUBSET Placed(rd) :
              /\ \/ Cardinality(S) = BatchSize
                 \/ Cardinality(S) < BatchSize /\ S = Placed(rd)
              /\ Goto("settle", [tick EXCEPT !.todo = S, !.batch = @ + 1,
                                             !.did = FALSE, !.skipped = FALSE])
    /\ UNCHANGED <<dbVars, redisVars, req, faults>>

\* One player of the batch.  A transaction that gets past its first statement
\* settles the bet, or finds it closed and counts it as processed; one that
\* throws is caught, and the player skipped.  The first never happens where
\* LossSettles is FALSE, the second may happen to any player.
SettleOne ==
    /\ pc = "settle"
    /\ \E u \in tick.todo :
         \/ /\ LossSettles
            /\ IF StillPlaced(rd, u) THEN SettleLoss(rd, u) ELSE UNCHANGED dbVars
            /\ Goto("settle", [tick EXCEPT !.todo = @ \ {u}, !.did = TRUE])
         \/ /\ Goto("settle", [tick EXCEPT !.todo = @ \ {u}, !.skipped = TRUE])
            /\ UNCHANGED dbVars
    /\ UNCHANGED <<redisVars, req, faults>>

\* The batch is done: stop after MaxBatches or a batch of failures only.
EndBatch ==
    /\ pc = "settle" /\ tick.todo = {}
    /\ Goto(IF tick.batch >= MaxBatches \/ (~tick.did /\ tick.skipped)
            THEN "markSettled" ELSE "list", tick)
    /\ UNCHANGED <<dbVars, redisVars, req, faults>>

MarkSettled ==
    /\ pc = "markSettled"
    /\ settledKey' = settledKey \cup {rd}
    /\ AfterSettlement
    /\ UNCHANGED <<dbVars, current, rstate, mult, req, faults>>

Cooldown ==
    /\ pc = "cooldown"
    /\ IF CooldownOver(rd) THEN Goto("finish", tick) ELSE EndTick
    /\ UNCHANGED <<dbVars, redisVars, req, faults>>

FinishDb ==
    /\ pc = "finish"
    /\ FinishRound(rd)
    /\ Goto("publishFinish", tick)
    /\ UNCHANGED <<redisVars, req, faults>>

PublishFinish ==
    /\ pc = "publishFinish"
    /\ rstate' = [rstate EXCEPT ![rd] = "FINISHED"]
    /\ mult' = [mult EXCEPT ![rd] = 0]
    /\ Goto("create", tick)
    /\ UNCHANGED <<dbVars, current, settledKey, req, faults>>

CreateDb_NoActivation ==
    /\ pc = "create"
    /\ \E r \in Rounds : CreateRound(r)
    /\ Goto("publish", tick)
    /\ UNCHANGED <<redisVars, req, faults>>

\* createRound: the row, then the queue, then Redis.
CreateDb ==
    /\ pc = "create"
    /\ \E r \in Rounds : CreateRound(r)
    /\ Goto("activate", tick)
    /\ UNCHANGED <<redisVars, req, faults>>

\* The round createRound has just inserted.
NewRound == NewestIn(RoundStatus \ {"NONE"})

Activate ==
    /\ pc = "activate"
    /\ ActivateQueuedBets(NewRound)
    /\ Goto("publish", tick)
    /\ UNCHANGED <<redisVars, req, faults>>

Publish ==
    /\ pc = "publish"
    /\ current' = NewRound
    /\ rstate' = [rstate EXCEPT ![NewRound] = "WAITING"]
    /\ mult' = [mult EXCEPT ![NewRound] = 1]
    /\ IF tick.state = "CRASHED" THEN Goto("clear", tick) ELSE EndTick
    /\ UNCHANGED <<dbVars, settledKey, req, faults>>

ClearSettled ==
    /\ pc = "clear"
    /\ settledKey' = settledKey \ {rd}
    /\ EndTick
    /\ UNCHANGED <<dbVars, current, rstate, mult, req, faults>>

\* The bound NumRounds is reached: no more round can be created.
Exhausted ==
    /\ pc = "create" /\ \A r \in Rounds : Exists(r)
    /\ UNCHANGED vars

-----------------------------------------------------------------------------
(* Faults.                                                                 *)

Fault(kind) == kind \in FaultKinds /\ faults < MaxFaults /\ faults' = faults + 1

\* The worker process dies and the container restarts it.
WorkerCrash ==
    /\ Fault("crash") /\ pc # "down"
    /\ Goto("down", NoTick)
    /\ UNCHANGED <<dbVars, redisVars, req>>

\* A database or Redis call throws.  While recovering the process exits; in
\* the repair or in a tick the error is logged and the loop goes on.
CallThrows ==
    /\ Fault("error") /\ pc \notin {"idle", "settle", "activate"}
    /\ IF pc \in {"down", "recoverState"} THEN Goto("down", NoTick) ELSE EndTick
    /\ UNCHANGED <<dbVars, redisVars, req>>

\* createRound catches the error of activateQueuedBetsForRound and goes on.
ActivationFails ==
    /\ Fault("error") /\ pc = "activate"
    /\ Goto("publish", tick)
    /\ UNCHANGED <<dbVars, redisVars, req>>

\* Redis comes back without its keys.
RedisFlush ==
    /\ Fault("flush")
    /\ current' = 0
    /\ rstate' = [r \in Rounds |-> "NONE"]
    /\ mult' = [r \in Rounds |-> 0]
    /\ settledKey' = {}
    /\ UNCHANGED <<dbVars, req, workerVars>>

-----------------------------------------------------------------------------
TimeStep(r) == TimePasses(r) /\ UNCHANGED <<redisVars, req, workerVars, faults>>

Client(u) == ResolveCurrentRound(u) \/ PlaceBet(u) \/ BetRejected(u) \/ Cashout(u)

Worker ==
    \/ RecoverActiveRound \/ RecoverState \/ ListWallets \/ Repair
    \/ TickNoRound \/ TickWaiting \/ TickMultiplier \/ TickCrashing
    \/ TickCrashed \/ TickFinished
    \/ StartDb \/ PublishStart \/ AckStart
    \/ CrashDb \/ PublishCrash \/ CheckSettled
    \/ ListBatch \/ SettleOne \/ EndBatch \/ MarkSettled
    \/ Cooldown \/ FinishDb \/ PublishFinish
    \/ CreateDb \/ Activate \/ Publish \/ ClearSettled

Failure == WorkerCrash \/ CallThrows \/ ActivationFails \/ RedisFlush

Next ==
    \/ \E u \in Users : Client(u)
    \/ \E r \in Rounds : TimeStep(r)
    \/ Worker
    \/ Failure
    \/ Exhausted

Spec == GameInit /\ [][Next]_vars

\* The worker's loop runs whenever its process does, and time passes; nothing
\* is assumed of the players, and faults need not happen.
Fairness == WF_vars(Worker) /\ \A r \in Rounds : WF_vars(TimeStep(r))
FairSpec == Spec /\ Fairness

-----------------------------------------------------------------------------
(* Properties.                                                             *)

\* Redis, the requests and the worker's locals hold what the code can put
\* there.
GameTypeOK ==
    /\ TypeOK
    /\ current \in {0} \cup Rounds
    /\ rstate \in [Rounds -> RoundStatus]
    /\ mult \in [Rounds -> 0..MaxCrash]
    /\ settledKey \subseteq Rounds
    /\ req \in [Users -> Request]
    /\ pc \in Pc /\ tick \in Locals
    /\ faults \in 0..MaxFaults

Rank(s) == CASE s = "NONE" -> 0 [] s = "WAITING" -> 1 [] s = "RUNNING" -> 2
             [] s = "CRASHED" -> 3 [] s = "FINISHED" -> 4

\* Redis follows the database and never runs ahead of it: a state the worker
\* or a client reads there is one the round has reached.
RedisNeverAhead == \A r \in Rounds : Rank(rstate[r]) <= Rank(status[r])

\* A bet is lost only in a round that has crashed, whatever the tick that
\* settled it was working from.
NoLossBeforeCrash ==
    \A r \in Rounds, u \in Users :
        player[r][u] = "LOST" => status[r] \in {"CRASHED", "FINISHED"}

RoundStep ==
    \A r \in Rounds : /\ Rank(status[r]) <= Rank(status'[r])
                      /\ crash[r] # 0 => crash'[r] = crash[r]

\* Although crashRound and finishRound overwrite the status they find, a
\* round never goes back, and its crash point never changes once it is set.
RoundsOnlyAdvance == [][RoundStep]_vars

\* The round Redis names is at most one of the unfinished ones: a worker that
\* is killed anywhere in its tick and restarted never runs two rounds.
SingleActiveRound ==
    Cardinality({r \in Rounds : status[r] \notin {"NONE", "FINISHED"}}) <= 1

\* Once losses_settled is set or the round is finished, no bet of it is open:
\* every lock it held has been released or debited, as
\* scripts/settlement_hardening_test.ts expects of settleLosses.
FinishedRoundSettled ==
    \A r \in Rounds :
        r \in settledKey \/ status[r] = "FINISHED" => Placed(r) = {}

Over == {"CRASHED", "FINISHED"}

NoStaleBets == \A r \in Rounds : status[r] \in Over => Placed(r) = {}

\* When the worker has booted, no bet is open in a round that is over,
\* although the wallets to repair were listed by the lock they held, before
\* any was locked, and bets and cashouts went on in between.
RepairLeavesNoneBehind == pc = "repair" /\ tick.todo = {} => NoStaleBets

\* What the open bets of a round that takes bets can win, up to the greatest
\* multiplier it may reach, is within the cap of a round on the bankroll: the
\* exposure that docs/todo.md reckons with is "sum(BET_PLACED stakes for
\* round+currency) * (round.maxCrash - 1)".
ExposureWithinDocumentedCap ==
    \A r \in Rounds :
        status[r] = "WAITING" =>
            StakesOn(r) * (MaxCrash - 1) * 100 <= house * PctPerRound

\* A stake queued during a round is served when the next one is created: no
\* request that resolved while the round flew slips into the queue after that,
\* to wait a round longer than promised.  (A worker killed between creating
\* the round and serving the queue does leave it to the round after.)
QueueServedByNextRound ==
    faults = 0 => \A r \in Rounds :
        current = r /\ status[r] = "WAITING" => InQueue = {}

\* Bets that a crashed round has left open are lost with the next boot of the
\* worker, or with the one after a boot that was killed in the repair.
BootResolves == pc = "down" /\ ~NoStaleBets ~> NoStaleBets

\* A round that exists is played to its end.
EveryRoundFinishes ==
    \A r \in Rounds : Exists(r) ~> status[r] = "FINISHED"

\* The stakes seen without locks, ledgers, Redis and worker.
Escrow == INSTANCE BetEscrow WITH
    funds <- balance,
    bank  <- house,
    stage <- [r \in Rounds |->
                CASE status[r] = "NONE" -> "none"
                  [] status[r] = "WAITING" -> "betting"
                  [] status[r] = "RUNNING" -> "flying"
                  [] OTHER -> "over"],
    claim <- [u \in Users |-> [k \in {0} \cup Rounds |->
                IF k = 0 THEN queued[u]
                ELSE IF StillPlaced(k, u) THEN stake[k][u] ELSE 0]]

\* Stakes are held, won, lost and given back as BetEscrow promises, whatever
\* fails: what a player may stake is what no open bet holds, wins come from a
\* round in flight, losses from one that is over.
EscrowRefined == Escrow!Spec
=============================================================================
