------------------------------- MODULE Staking -------------------------------
(***************************************************************************)
(* The staking pools (services/staking.service and its routes).  One HTTP  *)
(* request runs one database transaction: it reads the time, waits for the *)
(* user's advisory lock, pays that user's matured withdrawals, waits for   *)
(* the row of the pool it works on, reads that row and the position, and   *)
(* writes back what it computed from those reads.  Nothing it writes is    *)
(* seen before its commit.  The waits are steps of their own here: what a  *)
(* request read is only good because of the locks it holds, and the pool   *)
(* rows are locked in an order that depends on the withdrawals it finds.   *)
(*                                                                         *)
(* Each pool has the wallet of its own currency.  Money is counted in      *)
(* parts of a unit, Scale to the unit, so that the rounding of Stars       *)
(* rewards shows.  X_Something is a wrong form of X that no action uses.   *)
(***************************************************************************)
EXTENDS Integers, FiniteSets, FiniteSetsExt

CONSTANTS
    Users, Pools,
    IntegerPools,        \* pools that pay whole units (Currency.STARS)
    Requests,            \* bound: the HTTP requests, each handled once
    AuditKeys,           \* the requestId values of the admin form
    Amounts,             \* what a user may ask to stake or to withdraw
    MinStake,
    Rates,               \* reward per part staked and tick (aprBps)
    Deltas,              \* changes of the reserve an admin may ask for
    Cooldown,            \* unstakeCooldownHours, in ticks
    MaxTime,             \* bound: ticks of the clock
    Scale,
    OpeningBalance, OpeningStake, OpeningReserve,
    Opening,             \* id of a withdrawal asked for before the first step
    NoOne                \* holder of a free lock, user of an admin request, no row

ASSUME UsersAssumption == IsFiniteSet(Users)
ASSUME PoolsAssumption == IntegerPools \subseteq Pools
ASSUME NamesAssumption ==
    NoOne \notin Requests \cup Users \cup Pools /\ Opening \notin Requests
ASSUME AmountsAssumption == Amounts \subseteq Nat \ {0} /\ MinStake \in Nat
ASSUME RatesAssumption == Rates \subseteq Nat /\ Rates # {} /\ Deltas \subseteq Int
ASSUME TimeAssumption == Cooldown \in Nat /\ MaxTime \in Nat
ASSUME OpeningAssumption ==
    /\ Scale \in Nat \ {0}
    /\ OpeningBalance \in Nat /\ OpeningStake \in Nat \ {0} /\ OpeningReserve \in Nat

VARIABLES
    clock,       \* Date.now
    pool,        \* StakingPool rows
    position,    \* position[u][p]: StakingPosition row
    unstakes,    \* StakingUnstakeRequest rows
    wallet,      \* wallet[u][p]: Wallet.balance in the currency of p
    ledger,      \* LedgerEntry rows of the staking types
    audit,       \* AdminAuditLog rows of pool updates: requestId and change
    pc,          \* where each request stands
    tx,          \* what each running request was asked and has read
    userLock,    \* holder of a user's advisory lock
    poolLock     \* holder of a pool's row lock

rows == <<pool, position, unstakes, wallet, ledger, audit>>
vars == <<clock, rows, pc, tx, userLock, poolLock>>

Kind == {"stake", "claim", "unstake", "sync", "admin"}
PC == {"new", "user", "mature", "pool", "write", "done"}
PoolRow == [enabled : BOOLEAN, rate : Nat, staked : Int, reserve : Nat]
PositionRow == [principal : Nat, pending : Nat, claimed : Nat, at : Nat]
UnstakeRow == [id : Requests \cup {Opening}, user : Users, pool : Pools,
               amount : Nat, due : Nat, status : {"PENDING", "COMPLETED"}]
EntryType == {"STAKING_STAKE", "STAKING_UNSTAKE", "STAKING_REWARD"}

Pending(u, p) ==
    {x \in unstakes : x.user = u /\ x.pool = p /\ x.status = "PENDING"}

\* Positions exist, and some users have a withdrawal under way in one pool.  A
\* position row with nothing staked says no more than a row yet to be created.
Init ==
    /\ clock = 0
    /\ \E r \in Rates : pool = [p \in Pools |->
          [enabled |-> TRUE, rate |-> r, reserve |-> OpeningReserve,
           staked |-> OpeningStake * Cardinality(Users)]]
    /\ position = [u \in Users |-> [p \in Pools |->
          [principal |-> OpeningStake, pending |-> 0, claimed |-> 0, at |-> 0]]]
    /\ \E asked \in SUBSET (Users \X Pools) :
          /\ \A x, y \in asked : x[1] = y[1] => x = y
          /\ unstakes = {[id |-> Opening, user |-> x[1], pool |-> x[2],
                          amount |-> OpeningStake, due |-> 1,
                          status |-> "PENDING"] : x \in asked}
    /\ wallet = [u \in Users |-> [p \in Pools |-> OpeningBalance]]
    /\ ledger = {}
    /\ audit = {}
    /\ pc = [q \in Requests |-> "new"]
    /\ tx = [q \in Requests |-> NoOne]
    /\ userLock = [u \in Users |-> NoOne]
    /\ poolLock = [p \in Pools |-> NoOne]

-----------------------------------------------------------------------------
(* Amounts.                                                                *)

\* calculateAccruedReward: nothing when the request's time is not after the
\* last accrual.
Accrued(row, rate, now) ==
    IF now > row.at THEN row.principal * rate * (now - row.at) ELSE 0

\* settleAccruedPosition moves the mark to the request's time, be it before.
Settled(row, rate, now) ==
    [row EXCEPT !.pending = @ + Accrued(row, rate, now), !.at = now]

\* claimableRewardForPool: Stars are paid in whole units.
Claimable(p, amount) ==
    IF p \in IntegerPools THEN amount - (amount % Scale) ELSE amount

ValidAmount(p, a) == p \in IntegerPools => a % Scale = 0

\* The unique key of a ledger entry (walletId, referenceId, type); reference
\* is the time of the request, or the withdrawal's id.
Recorded(type, u, p, reference) ==
    \E e \in ledger : /\ e.type = type /\ e.user = u
                      /\ e.pool = p /\ e.reference = reference

Entry(type, u, p, reference, amount) ==
    [type |-> type, user |-> u, pool |-> p, reference |-> reference, amount |-> amount]

-----------------------------------------------------------------------------
(* A request takes its locks.                                              *)

Running(q) == pc[q] \in {"user", "mature", "pool", "write"}

\* The route has parsed the request; the service opens the transaction and
\* takes the time.  An admin update looks for its requestId first, and takes
\* no user's lock.
Begin(q, kind, u, p, a) ==
    /\ pc[q] = "new"
    /\ tx' = [tx EXCEPT ![q] = [kind |-> kind, user |-> u, pool |-> p,
                                amount |-> a, now |-> clock, todo |-> {},
                                paid |-> {}, credit |-> [r \in Pools |-> 0],
                                row |-> NoOne, pos |-> NoOne, busy |-> FALSE]]
    /\ pc' = [pc EXCEPT ![q] = IF kind = "admin" THEN "pool" ELSE "user"]
    /\ UNCHANGED <<clock, rows, userLock, poolLock>>

BeginUser(q) ==
    \E u \in Users :
        \/ Begin(q, "sync", u, NoOne, 0)
        \/ \E p \in Pools : \/ Begin(q, "claim", u, p, 0)
                            \/ \E kind \in {"stake", "unstake"}, a \in Amounts :
                                  Begin(q, kind, u, p, a)

\* findAdminAuditByRequestId runs before the transaction; amount carries the key.
BeginAdmin(q) ==
    \E k \in AuditKeys, p \in Pools :
        /\ \A x \in audit : x.key # k
        /\ Begin(q, "admin", NoOne, p, k)

\* The loop over them, and what follows it.
Matured(t, todo) ==
    CASE todo # {} -> "mature" [] t.kind = "sync" -> "write" [] OTHER -> "pool"

\* acquireStakingUserLock, then the withdrawals processMatureUnstakes finds.
TakeUserLock_DueOrNot(q) ==
    LET t == tx[q]
        found == {x \in unstakes : x.user = t.user /\ x.status = "PENDING"}
    IN /\ pc[q] = "user"
       /\ userLock[t.user] = NoOne
       /\ userLock' = [userLock EXCEPT ![t.user] = q]
       /\ tx' = [tx EXCEPT ![q].todo = found]
       /\ pc' = [pc EXCEPT ![q] = Matured(t, found)]
       /\ UNCHANGED <<clock, rows, poolLock>>

TakeUserLock(q) ==
    LET t == tx[q]
        found == {x \in unstakes : /\ x.user = t.user /\ x.status = "PENDING"
                                  /\ x.due <= t.now}
    IN /\ pc[q] = "user"
       /\ userLock[t.user] = NoOne
       /\ userLock' = [userLock EXCEPT ![t.user] = q]
       /\ tx' = [tx EXCEPT ![q].todo = found]
       /\ pc' = [pc EXCEPT ![q] = Matured(t, found)]
       /\ UNCHANGED <<clock, rows, poolLock>>

MayLock(q, p) == poolLock[p] \in {NoOne, q}

\* One round of processMatureUnstakes: lock the withdrawal's pool and pay it,
\* unless it was paid meanwhile.
Mature(q, x) ==
    LET t == tx[q]
        rest == t.todo \ {x}
    IN /\ pc[q] = "mature"
       /\ x \in t.todo
       /\ IF x \notin unstakes
          THEN /\ tx' = [tx EXCEPT ![q].todo = rest]
               /\ UNCHANGED poolLock
          ELSE /\ MayLock(q, x.pool)
               /\ ~Recorded("STAKING_UNSTAKE", x.user, x.pool, x.id)
               /\ poolLock' = [poolLock EXCEPT ![x.pool] = q]
               /\ tx' = [tx EXCEPT ![q].todo = rest, ![q].paid = @ \cup {x},
                                   ![q].credit[x.pool] = @ + x.amount]
       /\ pc' = [pc EXCEPT ![q] = Matured(t, rest)]
       /\ UNCHANGED <<clock, rows, userLock>>

\* getPoolOrThrow locks the row and reads it; the position and the pending
\* withdrawal are read after it.
LockPool_NoWait(q) ==
    LET t == tx[q] IN
    /\ pc[q] = "pool"
    /\ poolLock' = [poolLock EXCEPT ![t.pool] = q]
    /\ tx' = [tx EXCEPT
          ![q].row = pool[t.pool],
          ![q].pos = IF t.kind = "admin" THEN NoOne ELSE position[t.user][t.pool],
          ![q].busy = t.kind # "admin" /\ Pending(t.user, t.pool) \ t.paid # {}]
    /\ pc' = [pc EXCEPT ![q] = "write"]
    /\ UNCHANGED <<clock, rows, userLock>>

LockPool(q) ==
    LET t == tx[q] IN
    /\ pc[q] = "pool"
    /\ MayLock(q, t.pool)
    /\ poolLock' = [poolLock EXCEPT ![t.pool] = q]
    /\ tx' = [tx EXCEPT
          ![q].row = pool[t.pool],
          ![q].pos = IF t.kind = "admin" THEN NoOne ELSE position[t.user][t.pool],
          ![q].busy = t.kind # "admin" /\ Pending(t.user, t.pool) \ t.paid # {}]
    /\ pc' = [pc EXCEPT ![q] = "write"]
    /\ UNCHANGED <<clock, rows, userLock>>

\* Commit or rollback: the locks go, and the request is answered.
EndRequest(q) ==
    /\ pc' = [pc EXCEPT ![q] = "done"]
    /\ tx' = [tx EXCEPT ![q] = NoOne]
    /\ userLock' = [u \in Users |-> IF userLock[u] = q THEN NoOne ELSE userLock[u]]
    /\ poolLock' = [p \in Pools |-> IF poolLock[p] = q THEN NoOne ELSE poolLock[p]]
    /\ UNCHANGED clock

-----------------------------------------------------------------------------
(* What it writes.                                                         *)

\* The withdrawals paid on the way are written whatever the request was for.
PaidUnstakes_NotMarked(t) == unstakes

PaidUnstakes(t) ==
    {IF x \in t.paid THEN [x EXCEPT !.status = "COMPLETED"] ELSE x : x \in unstakes}
PaidEntries(t) ==
    {Entry("STAKING_UNSTAKE", x.user, x.pool, x.id, x.amount) : x \in t.paid}

\* The user's wallets gain what was paid on the way, the pool's own gains more.
WalletAfter(t, own) ==
    [wallet EXCEPT ![t.user] =
        [p \in Pools |-> @[p] + t.credit[p] + IF p = t.pool THEN own ELSE 0]]

\* A request's own ledger entry is named after its time.
Fresh(type, t) == ~Recorded(type, t.user, t.pool, t.now)
OwnEntry(type, t, amount) == Entry(type, t.user, t.pool, t.now, amount)

Earned(t) == Settled(t.pos, t.row.rate, t.now)
Payable(t) == Claimable(t.pool, Earned(t).pending)

\* The conditions under which no error is thrown, by what was asked.
MayStake(t) ==
    /\ t.row.enabled
    /\ t.amount >= MinStake /\ ValidAmount(t.pool, t.amount)
    /\ t.amount <= wallet[t.user][t.pool] + t.credit[t.pool]
    /\ Fresh("STAKING_STAKE", t)

MayClaim_ReserveNotChecked(t) == Payable(t) > 0 => Fresh("STAKING_REWARD", t)

MayClaim(t) ==
    Payable(t) > 0 => t.row.reserve >= Payable(t) /\ Fresh("STAKING_REWARD", t)

MayUnstake_PendingNotChecked(t) ==
    /\ ValidAmount(t.pool, t.amount)
    /\ t.pos.principal >= t.amount

MayUnstake(t) ==
    /\ ValidAmount(t.pool, t.amount)
    /\ t.pos.principal >= t.amount
    /\ ~t.busy                                         \* PENDING_UNSTAKE_EXISTS

\* The audit row's requestId is unique.
MayUpdate(t) == \A x \in audit : x.key # t.amount

Accepted(t) ==
    \/ t.kind = "sync"
    \/ t.kind = "stake" /\ MayStake(t)
    \/ t.kind = "claim" /\ MayClaim(t)
    \/ t.kind = "unstake" /\ MayUnstake(t)
    \/ t.kind = "admin" /\ MayUpdate(t)

Commits(q, kind) ==
    /\ pc[q] = "write" /\ tx[q].kind = kind /\ Accepted(tx[q])
    /\ EndRequest(q)

\* syncStakingOverview.
CommitSync(q) ==
    LET t == tx[q] IN
    /\ Commits(q, "sync")
    /\ unstakes' = PaidUnstakes(t)
    /\ ledger' = ledger \cup PaidEntries(t)
    /\ wallet' = WalletAfter(t, 0)
    /\ UNCHANGED <<pool, position, audit>>

\* stakeAsset.
CommitStake(q) ==
    LET t == tx[q] IN
    /\ Commits(q, "stake")
    /\ position' = [position EXCEPT ![t.user][t.pool] =
                      [Earned(t) EXCEPT !.principal = @ + t.amount]]
    /\ pool' = [pool EXCEPT ![t.pool] = [t.row EXCEPT !.staked = @ + t.amount]]
    /\ unstakes' = PaidUnstakes(t)
    /\ ledger' = ledger \cup PaidEntries(t)
                        \cup {OwnEntry("STAKING_STAKE", t, -t.amount)}
    /\ wallet' = WalletAfter(t, -t.amount)
    /\ UNCHANGED audit

\* claimAssetRewards; with nothing to pay only the accrual is written.
CommitClaim(q) ==
    LET t == tx[q]
        c == Payable(t)
    IN /\ Commits(q, "claim")
       /\ position' = [position EXCEPT ![t.user][t.pool] =
                         [Earned(t) EXCEPT !.pending = @ - c, !.claimed = @ + c]]
       /\ pool' = IF c > 0 THEN [pool EXCEPT ![t.pool] = [t.row EXCEPT !.reserve = @ - c]]
                           ELSE pool
       /\ unstakes' = PaidUnstakes(t)
       /\ ledger' = ledger \cup PaidEntries(t)
                           \cup IF c > 0 THEN {OwnEntry("STAKING_REWARD", t, c)} ELSE {}
       /\ wallet' = WalletAfter(t, c)
       /\ UNCHANGED audit

\* requestAssetUnstake: the amount leaves the position now, and reaches the
\* wallet when a later request of the user finds it due.
CommitUnstake(q) ==
    LET t == tx[q] IN
    /\ Commits(q, "unstake")
    /\ position' = [position EXCEPT ![t.user][t.pool] =
                      [Earned(t) EXCEPT !.principal = @ - t.amount]]
    /\ pool' = [pool EXCEPT ![t.pool] = [t.row EXCEPT !.staked = @ - t.amount]]
    /\ unstakes' = PaidUnstakes(t) \cup
          {[id |-> q, user |-> t.user, pool |-> t.pool, amount |-> t.amount,
            due |-> t.now + Cooldown, status |-> "PENDING"]}
    /\ ledger' = ledger \cup PaidEntries(t)
    /\ wallet' = WalletAfter(t, 0)
    /\ UNCHANGED audit

\* updateStakingPoolConfig, and the audit row in the same transaction.
CommitAdmin(q) ==
    LET t == tx[q] IN
    /\ Commits(q, "admin")
    /\ \E on \in BOOLEAN, rate \in Rates, d \in Deltas :
          /\ t.row.reserve + d >= 0                  \* REWARD_RESERVE_UNDERFLOW
          /\ pool' = [pool EXCEPT ![t.pool] =
                [t.row EXCEPT !.enabled = on, !.rate = rate, !.reserve = @ + d]]
          /\ audit' = audit \cup {[key |-> t.amount, pool |-> t.pool, delta |-> d]}
    /\ UNCHANGED <<position, unstakes, wallet, ledger>>

-----------------------------------------------------------------------------
(* What it leaves when it fails: nothing, the matured withdrawals included. *)

\* A StakingError, a second ledger entry of the same name, a requestId twice.
Reject(q) ==
    /\ pc[q] = "write" /\ ~Accepted(tx[q])
    /\ EndRequest(q)
    /\ UNCHANGED rows

\* lock_timeout, set by acquireStakingUserLock for the whole transaction.
Waits(q) ==
    \/ pc[q] = "user" /\ userLock[tx[q].user] # NoOne
    \/ pc[q] = "mature" /\ \E x \in tx[q].todo : ~MayLock(q, x.pool)
    \/ pc[q] = "pool" /\ ~MayLock(q, tx[q].pool)

LockTimeout_OnlyForTheUser(q) ==
    /\ pc[q] = "user" /\ Waits(q)
    /\ EndRequest(q)
    /\ UNCHANGED rows

LockTimeout(q) ==
    /\ Waits(q) /\ tx[q].kind # "admin"
    /\ EndRequest(q)
    /\ UNCHANGED rows

\* The server or its connection dies: the database rolls back.
ConnectionLost(q) ==
    /\ Running(q)
    /\ EndRequest(q)
    /\ UNCHANGED rows

Tick ==
    /\ clock < MaxTime
    /\ clock' = clock + 1
    /\ UNCHANGED <<rows, pc, tx, userLock, poolLock>>

Commit(q) == \/ CommitSync(q) \/ CommitStake(q) \/ CommitClaim(q)
             \/ CommitUnstake(q) \/ CommitAdmin(q)

Progress(q) ==
    \/ TakeUserLock(q)
    \/ pc[q] = "mature" /\ \E x \in tx[q].todo : Mature(q, x)
    \/ LockPool(q)
    \/ Commit(q) \/ Reject(q) \/ LockTimeout(q)

Next ==
    \/ Tick
    \/ \E q \in Requests : BeginUser(q) \/ BeginAdmin(q)
                          \/ Progress(q) \/ ConnectionLost(q)

\* A transaction under way goes on; nobody owes the system a request.
Fairness == \A q \in Requests : WF_vars(Progress(q))

Spec == Init /\ [][Next]_vars
FairSpec == Spec /\ Fairness

-----------------------------------------------------------------------------
(* Properties.                                                             *)

\* Every column holds a value of its type; no wallet, position or reserve is
\* ever below zero.
TypeOK ==
    /\ clock \in Nat
    /\ pool \in [Pools -> PoolRow]
    /\ position \in [Users -> [Pools -> PositionRow]]
    /\ unstakes \subseteq UnstakeRow
    /\ wallet \in [Users -> [Pools -> Nat]]
    /\ pc \in [Requests -> PC]
    /\ userLock \in [Users -> Requests \cup {NoOne}]
    /\ poolLock \in [Pools -> Requests \cup {NoOne}]

\* A user has at most one withdrawal under way in a pool, whatever requests
\* run side by side: no constraint of the schema says so, only the locks that
\* the check for one is made under (SBP-001).
OnePendingUnstake ==
    \A u \in Users, p \in Pools, x, y \in unstakes :
        x \in Pending(u, p) /\ y \in Pending(u, p) => x = y

OwedTo(u, p) ==
    IF Pending(u, p) = {} THEN 0 ELSE (CHOOSE x \in Pending(u, p) : TRUE).amount

OpeningOf(u, p) ==
    OpeningBalance + OpeningStake +
    IF \E x \in unstakes : x.id = Opening /\ x.user = u /\ x.pool = p
    THEN OpeningStake ELSE 0

\* A user's money is in the wallet, in the position or on its way back, and
\* grows by the rewards claimed and by nothing else: concurrent stakes, claims
\* and withdrawals neither mint nor lose any (SBP-001, SBP-002).
MoneyConserved ==
    \A u \in Users, p \in Pools :
        wallet[u][p] + position[u][p].principal + OwedTo(u, p)
            = OpeningOf(u, p) + position[u][p].claimed

\* A withdrawal is COMPLETED exactly when the ledger has its entry, for its
\* amount, and not before it was due.
UnstakePaidOnce ==
    \A x \in unstakes :
        /\ x.status = "COMPLETED" <=> Recorded("STAKING_UNSTAKE", x.user, x.pool, x.id)
        /\ x.status = "COMPLETED" =>
              /\ x.due <= clock
              /\ Entry("STAKING_UNSTAKE", x.user, x.pool, x.id, x.amount) \in ledger

\* The pool row agrees with the positions it stands for, although each request
\* writes back a row it read earlier: totalStaked is the sum of the principals,
\* and the reserve is what admins put in, each requestId once, less what users
\* have claimed.
PoolMatchesPositions ==
    \A p \in Pools :
        /\ pool[p].staked = SumFunction([u \in Users |-> position[u][p].principal])
        /\ pool[p].reserve + SumFunction([u \in Users |-> position[u][p].claimed])
              = OpeningReserve
                + SumFunction([x \in {y \in audit : y.pool = p} |-> x.delta])

\* Every interval is rewarded once: lastAccruedAt never goes back, or the time
\* since then accrues again (SBP-002: "reject duplicate reward claims against
\* the same accrual window").  The code takes its time before it waits for the
\* locks and writes it back unseen, and breaks this.
AccrualWindowOnce ==
    [][\A u \in Users, p \in Pools : position'[u][p].at >= position[u][p].at]_vars

\* A request that has begun is answered: two users whose withdrawals make them
\* lock the same two pools in opposite orders do not wait for ever.
RequestsEnd == \A q \in Requests : Running(q) ~> pc[q] = "done"
=============================================================================
