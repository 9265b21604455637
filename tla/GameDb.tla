------------------------------- MODULE GameDb -------------------------------
(***************************************************************************)
(* The PostgreSQL side of the crash game: rounds, bets, the queue for the  *)
(* next round, player wallets and the house wallet of one currency, and    *)
(* the two ledgers.  Each action is one database transaction of the        *)
(* services (game-round, game-betting, game-settlement, reconciliation),   *)
(* atomic because every one of them holds the rows it decides upon         *)
(* (SELECT ... FOR UPDATE) from the first read it trusts to its commit.    *)
(* What the callers read before they open a transaction, and the order in  *)
(* which they open them, is left to CrashGame; DbSpec lets them come in    *)
(* any order at all.                                                       *)
(*                                                                         *)
(* An operator named X_Something, before X, is a wrong form of X: no       *)
(* action uses it.  Putting it in the place of X breaks a property, which  *)
(* shows that the property depends on that line of the code.               *)
(***************************************************************************)
EXTENDS Integers, FiniteSets, FiniteSetsExt

CONSTANTS
    Users,                   \* players (each with one wallet of the currency)
    NumRounds,               \* bound: how many rounds are ever created
    Stakes,                  \* the stakes a player may choose
    MaxCrash,                \* GAME_MAX_CRASH, in whole multiples
    RiskAcceptanceMaxMultiplier,   \* RISK_ACCEPTANCE_MAX_MULTIPLIER
    PctPerBet, PctPerRound,  \* RISK_MAX_..._FRACTION_PER_{BET,ROUND}, in percent
    InitialBalance,          \* of every player's wallet
    InitialBankroll,         \* HOUSE_BANKROLL_INITIAL
    LossSettles              \* whether settleLosses can commit a loss, see SettleLoss

ASSUME UsersAssumption == IsFiniteSet(Users)
ASSUME NumRoundsAssumption == NumRounds \in Nat \ {0}
ASSUME StakesAssumption == Stakes \subseteq Nat \ {0}
ASSUME MultiplierAssumption ==
    /\ MaxCrash \in Nat /\ MaxCrash > 1
    /\ RiskAcceptanceMaxMultiplier \in Nat /\ RiskAcceptanceMaxMultiplier > 1
ASSUME RiskAssumption == PctPerBet \in 1..100 /\ PctPerRound \in 1..100
ASSUME MoneyAssumption == InitialBalance \in Nat /\ InitialBankroll \in Nat
ASSUME SettlesAssumption == LossSettles \in BOOLEAN

VARIABLES
    status,      \* status[r]: Round.status, "NONE" while r is not created
    crash,       \* crash[r]: Round.crashMultiplier, 0 until it is computed
    clock,       \* clock[r]: where the current phase of r stands, see TimePasses
    player,      \* player[r][u]: RoundPlayer.status, "NONE" without a row
    stake,       \* stake[r][u]: RoundPlayer.betAmount, 0 without a row
    queued,      \* queued[u]: RoundQueuedBet.betAmount, 0 without a row
    place,       \* place[u]: rank of u's queue row by createdAt
    balance, locked,         \* Wallet.balance, Wallet.lockedBalance
    house,                   \* HouseWallet.balance
    ledger, houseLedger      \* LedgerEntry and HouseLedgerEntry rows that move money

roundVars == <<status, crash, clock>>
betVars   == <<player, stake>>
queueVars == <<queued, place>>
moneyVars == <<balance, locked, house, ledger, houseLedger>>
dbVars    == <<status, crash, clock, player, stake, queued, place,
               balance, locked, house, ledger, houseLedger>>

Rounds == 1..NumRounds          \* in the order of createdAt
RoundStatus == {"NONE", "WAITING", "RUNNING", "CRASHED", "FINISHED"}
PlayerStatus == {"NONE", "BET_PLACED", "CASHED_OUT", "LOST"}
Clock == {"early", "open", "due"}
SettlementType == {"BET_WIN", "BET_LOSS_SETTLEMENT"}
Entry == [type : SettlementType, round : Rounds, user : Users, amount : Int]

Init ==
    /\ status = [r \in Rounds |-> "NONE"]
    /\ crash = [r \in Rounds |-> 0]
    /\ clock = [r \in Rounds |-> "open"]
    /\ player = [r \in Rounds |-> [u \in Users |-> "NONE"]]
    /\ stake = [r \in Rounds |-> [u \in Users |-> 0]]
    /\ queued = [u \in Users |-> 0]
    /\ place = [u \in Users |-> 0]
    /\ balance = [u \in Users |-> InitialBalance]
    /\ locked = [u \in Users |-> 0]
    /\ house = InitialBankroll
    /\ ledger = {}
    /\ houseLedger = {}

-----------------------------------------------------------------------------
(* Wallets and ledgers (lib/ledger.service, lib/house-ledger.service).     *)

Available(u) == balance[u] - locked[u]

\* The unique keys (walletId, referenceId, type) and (roundId, userId, type).
Recorded(book, type, r, u) ==
    \E e \in book : e.type = type /\ e.round = r /\ e.user = u

EntryOf(type, r, u, amount) ==
    [type |-> type, round |-> r, user |-> u, amount |-> amount]

\* The wallet row of u gains db on the balance and dl on the lock; the CHECK
\* constraints abort a transaction that leaves 0 <= locked <= balance.
MoveFunds(u, db, dl) ==
    LET b == balance[u] + db
        l == locked[u] + dl
    IN /\ 0 <= l /\ l <= b
       /\ balance' = [balance EXCEPT ![u] = b]
       /\ locked' = [locked EXCEPT ![u] = l]

\* createTransaction + applyTransaction of a settlement entry: a second row
\* with the same key fails the transaction.
RecordSettlement(type, r, u, amount) ==
    /\ ~Recorded(ledger, type, r, u)
    /\ ledger' = ledger \cup {EntryOf(type, r, u, amount)}

\* creditHouse / debitHouse: idempotent per (round, user, type), and a debit
\* beyond the bankroll throws HOUSE_INSUFFICIENT_BANKROLL.
MutateHouse_NoEntry(type, r, u, amount) ==
    /\ ~Recorded(houseLedger, type, r, u)
    /\ house + amount >= 0
    /\ house' = house + amount
    /\ UNCHANGED houseLedger

MutateHouse_Overdraws(type, r, u, amount) ==
    IF Recorded(houseLedger, type, r, u)
    THEN UNCHANGED <<house, houseLedger>>
    ELSE /\ house' = house + amount
         /\ houseLedger' = houseLedger \cup {EntryOf(type, r, u, amount)}

MutateHouse(type, r, u, amount) ==
    IF Recorded(houseLedger, type, r, u)
    THEN UNCHANGED <<house, houseLedger>>
    ELSE /\ house + amount >= 0
         /\ house' = house + amount
         /\ houseLedger' = houseLedger \cup {EntryOf(type, r, u, amount)}

-----------------------------------------------------------------------------
(* Risk limits (game-risk.service).                                        *)

FallbackRiskMultiplier ==
    IF MaxCrash < RiskAcceptanceMaxMultiplier THEN MaxCrash
                                              ELSE RiskAcceptanceMaxMultiplier

RiskMultiplier(r) ==
    IF status[r] = "WAITING" \/ crash[r] = 0 THEN FallbackRiskMultiplier
                                             ELSE crash[r]

RiskActive(r) == status[r] \in {"WAITING", "RUNNING"}

StillPlaced(r, u) == player[r][u] = "BET_PLACED"
Placed(r) == {u \in Users : StillPlaced(r, u)}
StakesOn(r) == SumFunctionOnSet(stake[r], Placed(r))
InQueue == {u \in Users : queued[u] > 0}
QueuedBy(S) == SumFunctionOnSet(queued, S)

RoundExposure(r) ==
    IF RiskActive(r) THEN StakesOn(r) * (RiskMultiplier(r) - 1) ELSE 0
QueuedExposure == QueuedBy(InQueue) * (FallbackRiskMultiplier - 1)

\* Both caps at once: worst is the new bet's worst case, exposure what is
\* already accepted against the same bankroll.
WithinCaps(bankroll, worst, exposure) ==
    /\ worst * 100 <= bankroll * PctPerBet
    /\ (exposure + worst) * 100 <= bankroll * PctPerRound

\* assertCanAcceptBet, with extra the exposure this transaction itself has
\* just added to the round.
CanAcceptBet(r, a, extra) ==
    /\ RiskActive(r)
    /\ WithinCaps(house, a * (RiskMultiplier(r) - 1),
                  RoundExposure(r) + extra * (RiskMultiplier(r) - 1))

CanAcceptQueuedBet(r, a) ==
    /\ status[r] = "RUNNING"
    /\ house - RoundExposure(r) > 0
    /\ WithinCaps(house - RoundExposure(r), a * (FallbackRiskMultiplier - 1),
                  QueuedExposure)

-----------------------------------------------------------------------------
(* Rounds (game-round.service).  The two unconditional updates, crash and  *)
(* finish, do not look at the status they overwrite.                       *)

Exists(r) == status[r] # "NONE"

CreateRound(r) ==
    /\ ~Exists(r)
    /\ \A q \in 1..(r - 1) : Exists(q)
    /\ status' = [status EXCEPT ![r] = "WAITING"]
    /\ clock' = [clock EXCEPT ![r] = "open"]
    /\ UNCHANGED <<crash, betVars, queueVars, moneyVars>>

StartRound_NoStatusCheck(r, c) ==
    /\ Exists(r)
    /\ c \in 2..MaxCrash
    /\ status' = [status EXCEPT ![r] = "RUNNING"]
    /\ crash' = [crash EXCEPT ![r] = c]
    /\ clock' = [clock EXCEPT ![r] = "early"]
    /\ UNCHANGED <<betVars, queueVars, moneyVars>>

StartRound(r, c) ==
    /\ status[r] = "WAITING"
    /\ c \in 2..MaxCrash
    /\ status' = [status EXCEPT ![r] = "RUNNING"]
    /\ crash' = [crash EXCEPT ![r] = c]
    /\ clock' = [clock EXCEPT ![r] = "early"]
    /\ UNCHANGED <<betVars, queueVars, moneyVars>>

\* The crash point is a function of the round's seed: computing it again
\* gives what StartRound stored.
CrashRound(r, c) ==
    /\ Exists(r)
    /\ c \in 2..MaxCrash
    /\ crash[r] # 0 => c = crash[r]
    /\ status' = [status EXCEPT ![r] = "CRASHED"]
    /\ crash' = [crash EXCEPT ![r] = c]
    /\ clock' = [clock EXCEPT ![r] = IF status[r] = "CRASHED" THEN @ ELSE "open"]
    /\ UNCHANGED <<betVars, queueVars, moneyVars>>

FinishRound(r) ==
    /\ Exists(r)
    /\ status' = [status EXCEPT ![r] = "FINISHED"]
    /\ UNCHANGED <<crash, clock, betVars, queueVars, moneyVars>>

\* The wall clock, as the comparisons of the code see it.  WAITING: "open"
\* while bets are taken, "due" once they are closed and the round may start.
\* RUNNING: "early" within BET_SAFETY_WINDOW_MS of the start, "due" once the
\* multiplier curve has reached the crash point.  CRASHED: "due" once the
\* cooldown is over.
TimePasses(r) ==
    /\ status[r] \in {"WAITING", "RUNNING", "CRASHED"}
    /\ \E t \in IF clock[r] = "early" THEN {"open", "due"} ELSE {"due"} :
          /\ t # clock[r]
          /\ clock' = [clock EXCEPT ![r] = t]
    /\ UNCHANGED <<status, crash, betVars, queueVars, moneyVars>>

-----------------------------------------------------------------------------
(* Bets (game-betting.service).                                            *)

\* placeBet on a WAITING round.  The BET_LOCK ledger row moves no balance and
\* is left out of ledger.
PlaceBetForCurrentRound(r, u, a) ==
    /\ status[r] = "WAITING" /\ clock[r] = "open"
    /\ a \in Stakes /\ a <= Available(u)
    /\ CanAcceptBet(r, a, 0)
    /\ player[r][u] = "NONE"                            \* else DUPLICATE_BET
    /\ player' = [player EXCEPT ![r][u] = "BET_PLACED"]
    /\ stake' = [stake EXCEPT ![r][u] = a]
    /\ MoveFunds(u, 0, a)
    /\ UNCHANGED <<roundVars, queueVars, house, ledger, houseLedger>>

\* placeBet while r is RUNNING: the bet is kept for the next round.
QueueBetForNextRound(r, u, a) ==
    /\ status[r] = "RUNNING"
    /\ queued[u] = 0                                    \* else QUEUED_BET_EXISTS
    /\ a \in Stakes /\ a <= Available(u)
    /\ CanAcceptQueuedBet(r, a)
    /\ queued' = [queued EXCEPT ![u] = a]
    /\ place' = [place EXCEPT ![u] = Cardinality(InQueue) + 1]
    /\ MoveFunds(u, 0, a)
    /\ UNCHANGED <<roundVars, betVars, house, ledger, houseLedger>>

\* The queue rows that become bets of r: taken by createdAt, each is held
\* against the caps together with those accepted before it.
Accepts_NoPlayerCheck(r, accepted) ==
    \A u \in InQueue :
        u \in accepted <=>
            CanAcceptBet(r, queued[u],
                         QueuedBy({v \in accepted : place[v] < place[u]}))

Accepts_EachAlone(r, accepted) ==
    \A u \in InQueue :
        u \in accepted <=>
            player[r][u] = "NONE" /\ CanAcceptBet(r, queued[u], 0)

Accepts(r, accepted) ==
    \A u \in InQueue :
        u \in accepted <=>
            /\ player[r][u] = "NONE"
            /\ CanAcceptBet(r, queued[u],
                            QueuedBy({v \in accepted : place[v] < place[u]}))

\* activateQueuedBetsForRound: one transaction empties the queue.  A row that
\* is refused, or whose player is in r already, gives its stake back
\* (releaseQueuedStakeAndDelete); a lock that does not cover it aborts all.
ActivateQueuedBets(r) ==
    /\ Exists(r)
    /\ \E accepted \in SUBSET InQueue :
          /\ Accepts(r, accepted)
          /\ \A u \in InQueue \ accepted : queued[u] <= locked[u]
          /\ player' = [player EXCEPT ![r] = [u \in Users |->
                          IF u \in accepted THEN "BET_PLACED" ELSE @[u]]]
          /\ stake' = [stake EXCEPT ![r] = [u \in Users |->
                          IF u \in accepted THEN queued[u] ELSE @[u]]]
          /\ locked' = [u \in Users |->
                          IF u \in InQueue \ accepted THEN locked[u] - queued[u]
                                                      ELSE locked[u]]
    /\ queued' = [u \in Users |-> 0]
    /\ place' = [u \in Users |-> 0]
    /\ UNCHANGED <<roundVars, balance, house, ledger, houseLedger>>

-----------------------------------------------------------------------------
(* Settlement (game-settlement.service) and repair (reconciliation).       *)

Resolve_NoRecheck(r, u, outcome) ==
    /\ player[r][u] # "NONE"
    /\ player' = [player EXCEPT ![r][u] = outcome]

Resolve(r, u, outcome) ==
    /\ StillPlaced(r, u)
    /\ player' = [player EXCEPT ![r][u] = outcome]

\* The payout is stake * m, in whole units; profit is what exceeds the stake.
Profit(r, u, m) == stake[r][u] * m - stake[r][u]

CashoutOpen_AfterCrash(r) ==
    status[r] \in {"RUNNING", "CRASHED"} /\ clock[r] # "early"

CashoutOpen(r) == status[r] = "RUNNING" /\ clock[r] # "early"

\* cashoutPlayer at the live multiplier m it reads under the round's lock.
\* A house that cannot pay rolls the whole transaction back.
CashoutPlayer(r, u, m) ==
    /\ CashoutOpen(r)
    /\ m >= 1 /\ m < crash[r]
    /\ Resolve(r, u, "CASHED_OUT")
    /\ RecordSettlement("BET_WIN", r, u, Profit(r, u, m))
    /\ MoveFunds(u, Profit(r, u, m), -stake[r][u])
    /\ IF Profit(r, u, m) > 0
       THEN MutateHouse("BET_WIN", r, u, -Profit(r, u, m))
       ELSE UNCHANGED <<house, houseLedger>>
    /\ UNCHANGED <<roundVars, stake, queueVars>>

\* One player's transaction of settleLosses: it re-reads the bet under the
\* locks, but never the status of the round.  As written it commits for
\* nobody: its first statement, SET LOCAL lock_timeout with a bound value, is
\* one PostgreSQL refuses, and the transaction throws before it has locked a
\* row.  LossSettles = FALSE is the code as written, TRUE the code with that
\* statement mended.
SettleLoss(r, u) ==
    /\ LossSettles
    /\ Resolve(r, u, "LOST")
    /\ RecordSettlement("BET_LOSS_SETTLEMENT", r, u, -stake[r][u])
    /\ MoveFunds(u, -stake[r][u], -stake[r][u])
    /\ MutateHouse("BET_LOSS_SETTLEMENT", r, u, stake[r][u])
    /\ UNCHANGED <<roundVars, stake, queueVars>>

BetsOf(u, S) == {r \in Rounds : StillPlaced(r, u) /\ status[r] \in S}
StakesBy(u, R) == SumFunction([r \in R |-> stake[r][u]])

\* The open bets whose round is over.
StaleBets_FinishedOnly(u) == BetsOf(u, {"FINISHED"})

StaleBets(u) == BetsOf(u, {"CRASHED", "FINISHED"})

ExpectedLock_NoQueue(u) == StakesBy(u, BetsOf(u, {"WAITING", "RUNNING"}))

\* The lock a wallet should have: its active bets and its queued one.
ExpectedLock(u) == StakesBy(u, BetsOf(u, {"WAITING", "RUNNING"})) + queued[u]

\* One wallet of repairLockedBalances: settle as lost the bets whose round is
\* over, then overwrite the lock with what the active and queued bets need.
\* The lock must cover the losses (LOCKED_FUNDS_MISMATCH) and the CHECK
\* constraints hold on the outcome, or the transaction rolls back.  The three
\* reads of the code are one step: at boot the one worker is alone in moving
\* rounds, and a lock that a bet takes meanwhile waits for the wallet's row.
RepairWallet(u) ==
    LET stale  == StaleBets(u)
        unpaid == {r \in stale : ~Recorded(houseLedger, "BET_LOSS_SETTLEMENT", r, u)}
    IN \E owed \in 0..locked[u], credit \in 0..locked[u],
          expected \in 0..balance[u] :
         /\ owed = StakesBy(u, stale)
         /\ credit = StakesBy(u, unpaid)
         /\ expected = ExpectedLock(u)
         /\ expected <= balance[u] - owed
         /\ \A r \in stale : ~Recorded(ledger, "BET_LOSS_SETTLEMENT", r, u)
         /\ ledger' = ledger \cup
              {EntryOf("BET_LOSS_SETTLEMENT", r, u, -stake[r][u]) : r \in stale}
         /\ houseLedger' = houseLedger \cup
              {EntryOf("BET_LOSS_SETTLEMENT", r, u, stake[r][u]) : r \in unpaid}
         /\ player' = [r \in Rounds |->
              IF r \in stale THEN [player[r] EXCEPT ![u] = "LOST"] ELSE player[r]]
         /\ balance' = [balance EXCEPT ![u] = @ - owed]
         /\ locked' = [locked EXCEPT ![u] = expected]
         /\ house' = house + credit
         /\ UNCHANGED <<roundVars, stake, queueVars>>

-----------------------------------------------------------------------------
(* Every transaction of any number of clients and workers, in any order.   *)

DbNext ==
    \/ \E r \in Rounds :
          \/ CreateRound(r)
          \/ FinishRound(r)
          \/ TimePasses(r)
          \/ ActivateQueuedBets(r)
          \/ \E c \in 2..MaxCrash : StartRound(r, c) \/ CrashRound(r, c)
    \/ \E r \in Rounds, u \in Users :
          \/ SettleLoss(r, u)
          \/ \E a \in Stakes : PlaceBetForCurrentRound(r, u, a)
                               \/ QueueBetForNextRound(r, u, a)
          \/ \E m \in 1..MaxCrash : CashoutPlayer(r, u, m)
    \/ \E u \in Users : RepairWallet(u)

DbSpec == Init /\ [][DbNext]_dbVars

-----------------------------------------------------------------------------
(* Properties.                                                             *)

\* Every value is of its column's type, and no wallet or bankroll is
\* overdrawn: the lock never exceeds the balance and the house never owes.
TypeOK ==
    /\ status \in [Rounds -> RoundStatus]
    /\ crash \in [Rounds -> Nat]
    /\ clock \in [Rounds -> Clock]
    /\ player \in [Rounds -> [Users -> PlayerStatus]]
    /\ stake \in [Rounds -> [Users -> Nat]]
    /\ queued \in [Users -> Nat]
    /\ place \in [Users -> Nat]
    /\ balance \in [Users -> Nat]
    /\ locked \in [Users -> Nat]
    /\ \A u \in Users : locked[u] <= balance[u]
    /\ house \in Nat
    /\ ledger \subseteq Entry
    /\ houseLedger \subseteq Entry

Unresolved(u) == StakesBy(u, {r \in Rounds : StillPlaced(r, u)}) + queued[u]

\* lockedBalance is exactly the stake of the player's unresolved bets, those
\* waiting in the queue included: no cashout, loss, release, activation or
\* repair leaves a stake locked that no bet holds, or a bet without its lock.
LockedMatchesUnresolved == \A u \in Users : locked[u] = Unresolved(u)

SumOf(book) == SumFunction([e \in book |-> e.amount])

\* The ledgers explain the money: every wallet holds its deposit plus its
\* ledger entries, and the bankroll its endowment plus the house entries.
LedgerExplainsMoney ==
    /\ \A u \in Users :
         balance[u] = InitialBalance + SumOf({e \in ledger : e.user = u})
    /\ house = InitialBankroll + SumOf(houseLedger)

\* A bet is settled once: a cashed-out bet has its BET_WIN entry and no loss,
\* a lost one its loss entry and no win, an open one neither; and the house
\* entries are the mirror image of the players'.
OneOutcomePerBet ==
    \A r \in Rounds, u \in Users :
        /\ Recorded(ledger, "BET_WIN", r, u) <=> player[r][u] = "CASHED_OUT"
        /\ Recorded(ledger, "BET_LOSS_SETTLEMENT", r, u) <=> player[r][u] = "LOST"
        /\ Recorded(houseLedger, "BET_LOSS_SETTLEMENT", r, u)
             <=> player[r][u] = "LOST"
        /\ Recorded(houseLedger, "BET_WIN", r, u) => player[r][u] = "CASHED_OUT"

Became(r, u) == player[r][u] = "NONE" /\ player'[r][u] = "BET_PLACED"

QueuedStakeMoves(u) ==
    /\ queued'[u] = 0
    /\ \/ /\ \E r \in Rounds : Became(r, u) /\ stake'[r][u] = queued[u]
          /\ \A q, r \in Rounds : Became(q, u) /\ Became(r, u) => q = r
          /\ locked'[u] = locked[u]
       \/ /\ \A r \in Rounds : ~Became(r, u)
          /\ locked'[u] = locked[u] - queued[u]

QueueStep ==
    \A u \in Users : queued[u] > 0 /\ queued'[u] # queued[u] => QueuedStakeMoves(u)

\* A queued stake leaves the queue in one of two ways, and never otherwise:
\* it becomes the bet of exactly one round with its lock kept, or it becomes
\* no bet and is available again (todo.md: "no silent fund loss").
QueueConsumedOnce == [][QueueStep]_dbVars

CapStep ==
    \A r \in Rounds :
        StakesOn(r)' > StakesOn(r) =>
            StakesOn(r)' * (RiskMultiplier(r) - 1) * 100 <= house * PctPerRound

\* However stakes come into a round, one request at a time or a whole queue in
\* one transaction, whatever adds to its open bets leaves them within the
\* round's share of the bankroll, at the multiplier the code reckons with:
\* bets accepted earlier, others of the same queue and a bankroll that
\* cashouts have drained since the stakes were queued included.
StakesAcceptedWithinCap == [][CapStep]_dbVars
=============================================================================
