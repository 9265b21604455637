--------------------------- MODULE Staking_proofs ---------------------------
(***************************************************************************)
(* Theorems of Staking for every set of users, pools and requests and      *)
(* every order of their steps: what a request has read is still so when it *)
(* commits, because of the locks it holds, so nothing is minted, lost or   *)
(* paid twice.                                                             *)
(***************************************************************************)
EXTENDS Staking, Sums, FiniteSetTheorems, TLAPS

-----------------------------------------------------------------------------
(* The inductive invariant.                                                 *)

Tx == [kind : Kind, user : Users \cup {NoOne}, pool : Pools \cup {NoOne},
       amount : Amounts \cup AuditKeys \cup {0}, now : Nat,
       todo : SUBSET UnstakeRow, paid : SUBSET UnstakeRow, credit : [Pools -> Nat],
       row : PoolRow \cup {NoOne}, pos : PositionRow \cup {NoOne}, busy : BOOLEAN]

\* What each request can be asked.
Asked(t) ==
    /\ t.kind = "admin" \/ t.user \in Users
    /\ IF t.kind = "sync" THEN t.pool = NoOne ELSE t.pool \in Pools
    /\ t.kind \in {"stake", "unstake"} => t.amount \in Amounts

OwnsPool(t) == t.kind # "sync"
OwnsPosition(t) == t.kind \in {"stake", "claim", "unstake"}

\* The withdrawals a request has found, and paid, are due and still to be paid.
PaysWhatIsDue(t) ==
    /\ \A x \in t.todo \cup t.paid :
          x \in unstakes /\ x.user = t.user /\ x.status = "PENDING" /\ x.due <= t.now
    /\ t.todo \cap t.paid = {}
    /\ \A p \in Pools :
          t.credit[p] = IF \E x \in t.paid : x.pool = p THEN OwedTo(t.user, p) ELSE 0

\* What q has read is still so, for the locks it holds.
Knows(q) ==
    LET t == tx[q] IN
    /\ t \in Tx /\ Asked(t) /\ t.now <= clock /\ PaysWhatIsDue(t)
    /\ pc[q] \in {"user", "mature"} => t.kind # "admin"
    /\ pc[q] = "pool" => OwnsPool(t)
    /\ pc[q] = "user" \/ t.kind = "admin" => t.todo = {} /\ t.paid = {}
    /\ pc[q] # "user" /\ t.kind # "admin" => userLock[t.user] = q
    /\ \A x \in t.paid : poolLock[x.pool] = q
    /\ pc[q] = "write" /\ OwnsPool(t) =>
          poolLock[t.pool] = q /\ t.row = pool[t.pool]
    /\ pc[q] = "write" /\ OwnsPosition(t) =>
          /\ t.pos = position[t.user][t.pool]
          /\ t.busy <=> Pending(t.user, t.pool) \ t.paid # {}

RequestsKnow == \A q \in Requests : Running(q) => Knows(q)

\* A withdrawal is named by its request, and the ones there were at first by
\* their user.
RowsNamed ==
    /\ \A x, y \in unstakes : x.id = y.id /\ x.user = y.user /\ x.pool = y.pool => x = y
    /\ \A x \in unstakes : x.id # Opening => pc[x.id] = "done"

\* The entry of a withdrawal that was paid is of a withdrawal there is.
EntriesNamed ==
    \A e \in ledger : e.type = "STAKING_UNSTAKE" =>
        \E x \in unstakes : x.id = e.reference /\ x.user = e.user /\ x.pool = e.pool

\* An audit row tells a number, and there are finitely many.
AuditRows ==
    /\ IsFiniteSet(audit)
    /\ \A x \in audit : x.delta \in Int

TxTyped == tx \in [Requests -> Tx \cup {NoOne}]

IInv ==
    /\ TypeOK /\ TxTyped /\ RequestsKnow /\ RowsNamed /\ EntriesNamed /\ AuditRows
    /\ OnePendingUnstake /\ UnstakePaidOnce /\ MoneyConserved /\ PoolMatchesPositions

-----------------------------------------------------------------------------
(* Amounts.                                                                 *)

LEMMA SettledTyped ==
    ASSUME NEW row \in PositionRow, NEW rate \in Nat, NEW now \in Nat
    PROVE  /\ Settled(row, rate, now) \in PositionRow
           /\ Settled(row, rate, now).principal = row.principal
           /\ Settled(row, rate, now).claimed = row.claimed
<1>1. Accrued(row, rate, now) \in Nat
  <2>1. row.principal \in Nat /\ row.at \in Nat
    BY DEF PositionRow
  <2>2. row.principal * rate \in Nat
    BY <2>1
  <2>3. ASSUME now > row.at PROVE row.principal * rate * (now - row.at) \in Nat
    <3>1. now - row.at \in Nat
      BY <2>1, <2>3
    <3> QED
      BY <2>2, <3>1
  <2> QED
    BY <2>3 DEF Accrued
<1>2. row.pending + Accrued(row, rate, now) \in Nat
  BY <1>1 DEF PositionRow
<1> QED
  BY <1>2 DEF Settled, PositionRow

\* Of what is due only whole units are paid, and never more.
LEMMA ClaimableTyped ==
    ASSUME NEW p \in Pools, NEW n \in Nat
    PROVE  Claimable(p, n) \in Nat /\ Claimable(p, n) <= n
<1>1. n % Scale \in Nat /\ n % Scale <= n
  BY OpeningAssumption
<1> QED
  BY <1>1 DEF Claimable

-----------------------------------------------------------------------------
(* What a user's request writes: the principal changes by a, c is claimed,  *)
(* and w is withdrawn, to be paid later.                                    *)

Mine(t, u, p) == u = t.user /\ p = t.pool

NewUnstake(q, w) ==
    [id |-> q, user |-> tx[q].user, pool |-> tx[q].pool, amount |-> w,
     due |-> tx[q].now + Cooldown, status |-> "PENDING"]

PositionsMove(t, a, c) ==
    /\ position' \in [Users -> [Pools -> PositionRow]]
    /\ \A u \in Users : u # t.user => position'[u] = position[u]
    /\ \A u \in Users, p \in Pools :
          /\ position'[u][p].principal
               = position[u][p].principal + IF Mine(t, u, p) THEN a ELSE 0
          /\ position'[u][p].claimed
               = position[u][p].claimed + IF Mine(t, u, p) THEN c ELSE 0

WalletsMove(t, own) ==
    /\ wallet' \in [Users -> [Pools -> Nat]]
    /\ \A u \in Users, p \in Pools :
          wallet'[u][p] = wallet[u][p] + (IF u = t.user THEN t.credit[p] ELSE 0)
                            + IF Mine(t, u, p) THEN own ELSE 0

PoolsMove(t, a, c) ==
    /\ pool' \in [Pools -> PoolRow]
    /\ \A p \in Pools :
          /\ p # t.pool => pool'[p] = pool[p]
          /\ pool'[p].staked = pool[p].staked + IF p = t.pool THEN a ELSE 0
          /\ pool'[p].reserve = pool[p].reserve - IF p = t.pool THEN c ELSE 0

LedgerGains(t, own) ==
    /\ ledger' = ledger \cup PaidEntries(t) \cup own
    /\ \A e \in own : e.type # "STAKING_UNSTAKE"

Asks(q, w) ==
    w > 0 => /\ tx[q].user \in Users /\ tx[q].pool \in Pools
             /\ Pending(tx[q].user, tx[q].pool) \subseteq tx[q].paid

Effect(q, a, c, w) ==
    LET t == tx[q] IN
    /\ a \in Int /\ c \in Nat /\ w \in Nat /\ Asks(q, w)
    /\ pc[q] = "write" /\ t.kind # "admin" /\ EndRequest(q)
    /\ PositionsMove(t, a, c) /\ PoolsMove(t, a, c) /\ WalletsMove(t, c - a - w)
    /\ unstakes' = PaidUnstakes(t) \cup (IF w = 0 THEN {} ELSE {NewUnstake(q, w)})
    /\ \E own : LedgerGains(t, own)
    /\ UNCHANGED audit

\* A request at its end has a row and a position of their kind.
LEMMA ReadTyped ==
    ASSUME TypeOK, NEW q \in Requests, pc[q] = "write", Knows(q)
    PROVE  LET t == tx[q] IN
           /\ t \in Tx /\ Asked(t) /\ t.now \in Nat
           /\ \A p \in Pools : t.credit[p] \in Nat
           /\ OwnsPool(t) => t.pool \in Pools /\ t.row = pool[t.pool] /\ t.row \in PoolRow
           /\ OwnsPosition(t) =>
                /\ t.user \in Users /\ t.pool \in Pools
                /\ t.pos = position[t.user][t.pool] /\ t.pos \in PositionRow
                /\ Earned(t) \in PositionRow
                /\ Earned(t).principal = t.pos.principal
                /\ Earned(t).claimed = t.pos.claimed
<1> DEFINE t == tx[q]
<1>1. /\ t \in Tx /\ Asked(t) /\ t.now \in Nat
      /\ \A p \in Pools : t.credit[p] \in Nat
  BY DEF Knows, Tx
<1>2. ASSUME OwnsPool(t)
      PROVE  t.pool \in Pools /\ t.row = pool[t.pool] /\ t.row \in PoolRow
  BY <1>1, <1>2 DEF Knows, Asked, OwnsPool, TypeOK
<1>3. ASSUME OwnsPosition(t)
      PROVE  /\ t.user \in Users /\ t.pool \in Pools
             /\ t.pos = position[t.user][t.pool] /\ t.pos \in PositionRow
             /\ t.row \in PoolRow
  <2>1. OwnsPool(t) /\ t.user \in Users
    BY <1>1, <1>3 DEF OwnsPosition, OwnsPool, Asked
  <2> QED
    BY <1>1, <1>2, <1>3, <2>1 DEF Knows, TypeOK
<1>4. ASSUME OwnsPosition(t)
      PROVE  /\ Earned(t) \in PositionRow
             /\ Earned(t).principal = t.pos.principal
             /\ Earned(t).claimed = t.pos.claimed
  <2>1. t.row.rate \in Nat
    BY <1>3, <1>4 DEF PoolRow
  <2> QED
    BY <1>1, <1>3, <1>4, <2>1, SettledTyped DEF Earned
<1> QED
  BY <1>1, <1>2, <1>3, <1>4

\* One row of a table of rows is replaced.
LEMMA PositionsMoved ==
    ASSUME TypeOK, NEW t, t.user \in Users, t.pool \in Pools,
           NEW row \in PositionRow, NEW a \in Int, NEW c \in Nat,
           position' = [position EXCEPT ![t.user][t.pool] = row],
           row.principal = position[t.user][t.pool].principal + a,
           row.claimed = position[t.user][t.pool].claimed + c
    PROVE  PositionsMove(t, a, c)
<1>1. position' \in [Users -> [Pools -> PositionRow]]
  BY DEF TypeOK
<1>2. \A u \in Users, p \in Pools :
         position'[u][p] = IF Mine(t, u, p) THEN row ELSE position[u][p]
  BY DEF TypeOK, Mine
<1>3. \A u \in Users : u # t.user => position'[u] = position[u]
  BY DEF TypeOK
<1>4. \A u \in Users, p \in Pools :
         position[u][p].principal \in Nat /\ position[u][p].claimed \in Nat
  BY DEF TypeOK, PositionRow
<1>5. ASSUME NEW u \in Users, NEW p \in Pools
      PROVE  /\ position'[u][p].principal
                  = position[u][p].principal + IF Mine(t, u, p) THEN a ELSE 0
             /\ position'[u][p].claimed
                  = position[u][p].claimed + IF Mine(t, u, p) THEN c ELSE 0
  <2>1. CASE Mine(t, u, p)
    BY <1>2, <2>1 DEF Mine
  <2>2. CASE ~Mine(t, u, p)
    BY <1>2, <1>4, <2>2
  <2> QED
    BY <2>1, <2>2
<1> QED
  BY <1>1, <1>3, <1>5 DEF PositionsMove

LEMMA PoolsMoved ==
    ASSUME TypeOK, NEW t, t.pool \in Pools,
           NEW row \in PoolRow, NEW a \in Int, NEW c \in Nat,
           pool' = [pool EXCEPT ![t.pool] = row],
           row.staked = pool[t.pool].staked + a,
           row.reserve = pool[t.pool].reserve - c
    PROVE  PoolsMove(t, a, c)
<1>1. pool' \in [Pools -> PoolRow]
  BY DEF TypeOK
<1>2. \A p \in Pools : pool'[p] = IF p = t.pool THEN row ELSE pool[p]
  BY DEF TypeOK
<1>3. \A p \in Pools : pool[p].staked \in Int /\ pool[p].reserve \in Nat
  BY DEF TypeOK, PoolRow
<1>4. ASSUME NEW p \in Pools
      PROVE  /\ pool'[p].staked = pool[p].staked + IF p = t.pool THEN a ELSE 0
             /\ pool'[p].reserve = pool[p].reserve - IF p = t.pool THEN c ELSE 0
  <2>1. CASE p = t.pool
    BY <1>2, <2>1
  <2>2. CASE p # t.pool
    BY <1>2, <1>3, <2>2
  <2> QED
    BY <2>1, <2>2
<1> QED
  BY <1>1, <1>2, <1>4 DEF PoolsMove

LEMMA NothingMoves ==
    ASSUME TypeOK, NEW t
    PROVE  /\ UNCHANGED position => PositionsMove(t, 0, 0)
           /\ UNCHANGED pool => PoolsMove(t, 0, 0)
<1>1. \A u \in Users, p \in Pools :
         position[u][p].principal \in Nat /\ position[u][p].claimed \in Nat
  BY DEF TypeOK, PositionRow
<1>2. \A p \in Pools : pool[p].staked \in Int /\ pool[p].reserve \in Nat
  BY DEF TypeOK, PoolRow
<1>3. UNCHANGED position => PositionsMove(t, 0, 0)
  BY <1>1 DEF PositionsMove, TypeOK
<1>4. UNCHANGED pool => PoolsMove(t, 0, 0)
  BY <1>2 DEF PoolsMove, TypeOK
<1> QED
  BY <1>3, <1>4

LEMMA WalletsMoved ==
    ASSUME TypeOK, NEW t \in Tx, t.user \in Users, NEW own \in Int,
           t.pool \in Pools => wallet[t.user][t.pool] + t.credit[t.pool] + own >= 0,
           t.pool \notin Pools => own = 0,
           wallet' = WalletAfter(t, own)
    PROVE  WalletsMove(t, own)
<1>1. \A p \in Pools : t.credit[p] \in Nat
  BY DEF Tx
<1>2. \A u \in Users, p \in Pools : wallet[u][p] \in Nat
  BY DEF TypeOK
<1>3. \A u \in Users, p \in Pools :
         wallet'[u][p] = IF u = t.user
                         THEN wallet[u][p] + t.credit[p] + IF p = t.pool THEN own ELSE 0
                         ELSE wallet[u][p]
  BY DEF WalletAfter, TypeOK
<1>4. \A u \in Users, p \in Pools :
         wallet'[u][p] = wallet[u][p] + (IF u = t.user THEN t.credit[p] ELSE 0)
                            + IF Mine(t, u, p) THEN own ELSE 0
  BY <1>1, <1>2, <1>3 DEF Mine
<1>5. \A u \in Users, p \in Pools : wallet'[u][p] \in Nat
  BY <1>1, <1>2, <1>3
<1>6. wallet' \in [Users -> [Pools -> Nat]]
  <2>1. wallet' = [wallet EXCEPT ![t.user] =
           [p \in Pools |-> wallet[t.user][p] + t.credit[p]
                              + IF p = t.pool THEN own ELSE 0]]
    BY DEF WalletAfter, TypeOK
  <2> QED
    BY <1>5, <2>1 DEF TypeOK
<1> QED
  BY <1>4, <1>6 DEF WalletsMove

LEMMA EffectSync ==
    ASSUME TypeOK, NEW q \in Requests, Knows(q), CommitSync(q)
    PROVE  Effect(q, 0, 0, 0)
<1> DEFINE t == tx[q]
<1>1. /\ pc[q] = "write" /\ t.kind = "sync" /\ EndRequest(q)
      /\ unstakes' = PaidUnstakes(t) /\ ledger' = ledger \cup PaidEntries(t)
      /\ wallet' = WalletAfter(t, 0)
      /\ UNCHANGED <<pool, position, audit>>
  BY DEF CommitSync, Commits
<1>2. t \in Tx /\ t.user \in Users
  BY <1>1, ReadTyped DEF Asked
<1>3. \A p \in Pools : t.credit[p] \in Nat /\ wallet[t.user][p] \in Nat
  BY <1>2 DEF Tx, TypeOK
<1>4. WalletsMove(t, 0)
  BY <1>1, <1>2, <1>3, WalletsMoved
<1>5. PositionsMove(t, 0, 0) /\ PoolsMove(t, 0, 0)
  BY <1>1, NothingMoves
<1>7. \E own : LedgerGains(t, own)
  <2>1. LedgerGains(t, {})
    BY <1>1 DEF LedgerGains
  <2> QED
    BY <2>1
<1> QED
  BY <1>1, <1>4, <1>5, <1>7 DEF Effect, Asks

LEMMA EffectStake ==
    ASSUME TypeOK, NEW q \in Requests, Knows(q), CommitStake(q)
    PROVE  Effect(q, tx[q].amount, 0, 0)
<1> DEFINE t == tx[q]
           a == t.amount
           row == [t.row EXCEPT !.staked = @ + a]
           pos == [Earned(t) EXCEPT !.principal = @ + a]
           own == {OwnEntry("STAKING_STAKE", t, -a)}
<1>1. /\ pc[q] = "write" /\ t.kind = "stake" /\ EndRequest(q) /\ MayStake(t)
      /\ position' = [position EXCEPT ![t.user][t.pool] = pos]
      /\ pool' = [pool EXCEPT ![t.pool] = row]
      /\ unstakes' = PaidUnstakes(t)
      /\ ledger' = ledger \cup PaidEntries(t) \cup own
      /\ wallet' = WalletAfter(t, -a)
      /\ UNCHANGED audit
  BY DEF CommitStake, Commits, Accepted
<1>2. OwnsPool(t) /\ OwnsPosition(t)
  BY <1>1 DEF OwnsPool, OwnsPosition
<1>3. /\ t \in Tx /\ t.user \in Users /\ t.pool \in Pools
      /\ t.row \in PoolRow /\ t.row = pool[t.pool]
      /\ t.pos = position[t.user][t.pool] /\ Earned(t) \in PositionRow
      /\ Earned(t).principal = t.pos.principal /\ Earned(t).claimed = t.pos.claimed
  BY <1>1, <1>2, ReadTyped
<1>4. a \in Nat
  BY <1>1, AmountsAssumption, ReadTyped DEF Asked
<1>5. /\ row \in PoolRow /\ row.staked = t.row.staked + a /\ row.reserve = t.row.reserve - 0
  BY <1>3, <1>4 DEF PoolRow
<1>6. /\ pos \in PositionRow /\ pos.principal = t.pos.principal + a
      /\ pos.claimed = t.pos.claimed + 0
  BY <1>3, <1>4 DEF PositionRow
<1> HIDE DEF a, row, pos, own
<1>0. a \in Int /\ 0 \in Nat
  BY <1>4
<1>7. PositionsMove(t, a, 0)
  <2>1. /\ pos.principal = position[t.user][t.pool].principal + a
        /\ pos.claimed = position[t.user][t.pool].claimed + 0
    BY <1>3, <1>6
  <2> QED
    BY <1>0, <1>1, <1>3, <1>6, <2>1, PositionsMoved
<1>8. PoolsMove(t, a, 0)
  <2>1. /\ row.staked = pool[t.pool].staked + a
        /\ row.reserve = pool[t.pool].reserve - 0
    BY <1>3, <1>5
  <2> QED
    BY <1>0, <1>1, <1>3, <1>5, <2>1, PoolsMoved
<1>9. WalletsMove(t, -a)
  <2>1. wallet[t.user][t.pool] \in Nat /\ t.credit[t.pool] \in Nat
    BY <1>3 DEF TypeOK, Tx
  <2>2. a <= wallet[t.user][t.pool] + t.credit[t.pool]
    BY <1>1 DEF MayStake, a
  <2> QED
    BY <1>1, <1>3, <1>4, <2>1, <2>2, WalletsMoved
<1>10. LedgerGains(t, own)
  BY <1>1 DEF own, OwnEntry, Entry, LedgerGains
<1>11. 0 - a - 0 = -a /\ a \in Int
  BY <1>4
<1>12. Effect(q, a, 0, 0)
  BY <1>1, <1>7, <1>8, <1>9, <1>10, <1>11 DEF Effect, Asks
<1> QED
  BY <1>12 DEF a

LEMMA EffectUnstake ==
    ASSUME TypeOK, NEW q \in Requests, Knows(q), CommitUnstake(q)
    PROVE  Effect(q, -tx[q].amount, 0, tx[q].amount)
<1> DEFINE t == tx[q]
           a == t.amount
           row == [t.row EXCEPT !.staked = @ - a]
           pos == [Earned(t) EXCEPT !.principal = @ - a]
<1>1. /\ pc[q] = "write" /\ t.kind = "unstake" /\ EndRequest(q) /\ MayUnstake(t)
      /\ position' = [position EXCEPT ![t.user][t.pool] = pos]
      /\ pool' = [pool EXCEPT ![t.pool] = row]
      /\ unstakes' = PaidUnstakes(t) \cup {NewUnstake(q, a)}
      /\ ledger' = ledger \cup PaidEntries(t)
      /\ wallet' = WalletAfter(t, 0)
      /\ UNCHANGED audit
  BY DEF CommitUnstake, Commits, Accepted, NewUnstake
<1>2. OwnsPool(t) /\ OwnsPosition(t)
  BY <1>1 DEF OwnsPool, OwnsPosition
<1>3. /\ t \in Tx /\ t.user \in Users /\ t.pool \in Pools
      /\ t.row \in PoolRow /\ t.row = pool[t.pool]
      /\ t.pos = position[t.user][t.pool] /\ Earned(t) \in PositionRow
      /\ Earned(t).principal = t.pos.principal /\ Earned(t).claimed = t.pos.claimed
  BY <1>1, <1>2, ReadTyped
<1>4. a \in Nat \ {0}
  BY <1>1, AmountsAssumption, ReadTyped DEF Asked
<1>5. row \in PoolRow /\ row.staked = t.row.staked + (-a) /\ row.reserve = t.row.reserve - 0
  BY <1>3, <1>4 DEF PoolRow
<1>6. /\ pos \in PositionRow /\ pos.principal = t.pos.principal + (-a)
      /\ pos.claimed = t.pos.claimed + 0
  <2>1. a <= Earned(t).principal
    BY <1>1, <1>3 DEF MayUnstake
  <2> QED
    BY <1>3, <1>4, <2>1 DEF PositionRow
<1>7. Asks(q, a)
  <2>1. ~t.busy
    BY <1>1 DEF MayUnstake
  <2>2. Pending(t.user, t.pool) \ t.paid = {}
    BY <1>1, <1>2, <2>1 DEF Knows
  <2> QED
    BY <1>3, <2>2 DEF Asks
<1> HIDE DEF a, row, pos
<1>8. -a \in Int /\ 0 - (-a) - a = 0 /\ a \in Nat /\ a # 0
  BY <1>4
<1>9. PositionsMove(t, -a, 0)
  BY <1>1, <1>3, <1>6, <1>8, PositionsMoved
<1>10. PoolsMove(t, -a, 0)
  BY <1>1, <1>3, <1>5, <1>8, PoolsMoved
<1>11. WalletsMove(t, 0)
  <2>1. wallet[t.user][t.pool] \in Nat /\ t.credit[t.pool] \in Nat
    BY <1>3 DEF TypeOK, Tx
  <2> QED
    BY <1>1, <1>3, <2>1, WalletsMoved
<1>12. \E own : LedgerGains(t, own)
  <2>1. LedgerGains(t, {})
    BY <1>1 DEF LedgerGains
  <2> QED
    BY <2>1
<1>13. Effect(q, -a, 0, a)
  BY <1>1, <1>7, <1>8, <1>9, <1>10, <1>11, <1>12 DEF Effect
<1> QED
  BY <1>13 DEF a

LEMMA EffectClaim ==
    ASSUME TypeOK, NEW q \in Requests, Knows(q), CommitClaim(q)
    PROVE  Effect(q, 0, Payable(tx[q]), 0)
<1> DEFINE t == tx[q]
           c == Payable(t)
           row == [t.row EXCEPT !.reserve = @ - c]
           pos == [Earned(t) EXCEPT !.pending = @ - c, !.claimed = @ + c]
           own == IF c > 0 THEN {OwnEntry("STAKING_REWARD", t, c)} ELSE {}
<1>1. /\ pc[q] = "write" /\ t.kind = "claim" /\ EndRequest(q) /\ MayClaim(t)
      /\ position' = [position EXCEPT ![t.user][t.pool] = pos]
      /\ pool' = IF c > 0 THEN [pool EXCEPT ![t.pool] = row] ELSE pool
      /\ unstakes' = PaidUnstakes(t)
      /\ ledger' = ledger \cup PaidEntries(t) \cup own
      /\ wallet' = WalletAfter(t, c)
      /\ UNCHANGED audit
  BY DEF CommitClaim, Commits, Accepted
<1>2. OwnsPool(t) /\ OwnsPosition(t)
  BY <1>1 DEF OwnsPool, OwnsPosition
<1>3. /\ t \in Tx /\ t.user \in Users /\ t.pool \in Pools
      /\ t.row \in PoolRow /\ t.row = pool[t.pool]
      /\ t.pos = position[t.user][t.pool] /\ Earned(t) \in PositionRow
      /\ Earned(t).principal = t.pos.principal /\ Earned(t).claimed = t.pos.claimed
  BY <1>1, <1>2, ReadTyped
<1>4. c \in Nat /\ c <= Earned(t).pending
  <2>1. Earned(t).pending \in Nat
    BY <1>3 DEF PositionRow
  <2> QED
    BY <1>3, <2>1, ClaimableTyped DEF Payable
<1>5. c > 0 => /\ row \in PoolRow /\ row.staked = t.row.staked + 0
               /\ row.reserve = t.row.reserve - c
  <2>1. c > 0 => t.row.reserve >= c
    BY <1>1 DEF MayClaim
  <2> QED
    BY <1>3, <1>4, <2>1 DEF PoolRow
<1>6. /\ pos \in PositionRow /\ pos.principal = t.pos.principal + 0
      /\ pos.claimed = t.pos.claimed + c
  <2> HIDE DEF c
  <2>1. Earned(t).pending - c \in Nat /\ Earned(t).claimed + c \in Nat
    BY <1>3, <1>4 DEF PositionRow
  <2>2. pos \in PositionRow /\ pos.principal = Earned(t).principal
        /\ pos.claimed = Earned(t).claimed + c
    BY <1>3, <2>1 DEF PositionRow
  <2>3. t.pos.principal + 0 = t.pos.principal
    BY <1>3 DEF PositionRow
  <2> QED
    BY <1>3, <2>2, <2>3
<1>7. LedgerGains(t, own)
  BY <1>1 DEF OwnEntry, Entry, LedgerGains
<1> HIDE DEF c, row, pos, own
<1>8. PositionsMove(t, 0, c)
  <2>1. /\ position' = [position EXCEPT ![t.user][t.pool] = pos]
        /\ pos.principal = position[t.user][t.pool].principal + 0
        /\ pos.claimed = position[t.user][t.pool].claimed + c
    BY <1>1, <1>3, <1>6
  <2>2. 0 \in Int
    OBVIOUS
  <2> QED
    BY <1>3, <1>4, <1>6, <2>1, <2>2, PositionsMoved
<1>9. PoolsMove(t, 0, c)
  <2>1. CASE c > 0
    <3>1. /\ pool' = [pool EXCEPT ![t.pool] = row]
          /\ row.staked = pool[t.pool].staked + 0
          /\ row.reserve = pool[t.pool].reserve - c
      BY <1>1, <1>3, <1>5, <2>1
    <3>2. 0 \in Int
      OBVIOUS
    <3> QED
      BY <1>3, <1>4, <1>5, <2>1, <3>1, <3>2, PoolsMoved
  <2>2. CASE ~(c > 0)
    <3>1. c = 0
      BY <1>4, <2>2
    <3> QED
      BY <1>1, <2>2, <3>1, NothingMoves
  <2> QED
    BY <2>1, <2>2
<1>10. WalletsMove(t, c)
  <2>1. wallet[t.user][t.pool] \in Nat /\ t.credit[t.pool] \in Nat
    BY <1>3 DEF TypeOK, Tx
  <2> QED
    BY <1>1, <1>3, <1>4, <2>1, WalletsMoved
<1>11. c - 0 - 0 = c
  BY <1>4
<1>12. Effect(q, 0, c, 0)
  BY <1>1, <1>4, <1>7, <1>8, <1>9, <1>10, <1>11 DEF Effect, Asks
<1> QED
  BY <1>12 DEF c

LEMMA UserEffect ==
    ASSUME TypeOK, NEW q \in Requests, Knows(q), Commit(q), tx[q].kind # "admin"
    PROVE  \E a \in Int, c \in Nat, w \in Nat : Effect(q, a, c, w)
<1> DEFINE Some == \E a \in Int, c \in Nat, w \in Nat : Effect(q, a, c, w)
<1> SUFFICES Some
  OBVIOUS
<1>1. ASSUME NEW a, NEW c, NEW w, Effect(q, a, c, w) PROVE Some
  BY <1>1 DEF Effect
<1>2. ~CommitAdmin(q)
  BY DEF CommitAdmin, Commits
<1>3. CASE CommitSync(q)
  BY <1>1, <1>3, EffectSync
<1>4. CASE CommitStake(q)
  BY <1>1, <1>4, EffectStake
<1>5. CASE CommitClaim(q)
  BY <1>1, <1>5, EffectClaim
<1>6. CASE CommitUnstake(q)
  BY <1>1, <1>6, EffectUnstake
<1> HIDE DEF Some
<1> QED
  BY <1>2, <1>3, <1>4, <1>5, <1>6 DEF Commit

-----------------------------------------------------------------------------
(* Withdrawals.                                                             *)

\* The withdrawals after a commit: those paid are marked, a new one is added.
LEMMA RowsAfter ==
    ASSUME TypeOK, NEW q \in Requests, Knows(q), NEW a, NEW c, NEW w, Effect(q, a, c, w)
    PROVE  LET t == tx[q] IN
           /\ \A x \in t.paid : x \in unstakes /\ x \in UnstakeRow
                                /\ x.user = t.user /\ x.status = "PENDING"
                                /\ x.due <= t.now
           /\ \A y \in unstakes' :
                 \/ y \in unstakes \ t.paid
                 \/ \E x \in t.paid : y = [x EXCEPT !.status = "COMPLETED"]
                 \/ w > 0 /\ y = NewUnstake(q, w)
           /\ \A x \in unstakes \ t.paid : x \in unstakes'
           /\ \A x \in t.paid : [x EXCEPT !.status = "COMPLETED"] \in unstakes'
           /\ w > 0 => NewUnstake(q, w) \in unstakes' /\ NewUnstake(q, w) \in UnstakeRow
<1> DEFINE t == tx[q]
           New == IF w = 0 THEN {} ELSE {NewUnstake(q, w)}
<1>1. unstakes' = PaidUnstakes(t) \cup New /\ w \in Nat
  BY DEF Effect
<1>2. \A x \in t.paid : x \in unstakes /\ x \in UnstakeRow /\ x.user = t.user
                        /\ x.status = "PENDING" /\ x.due <= t.now
  BY DEF Knows, PaysWhatIsDue, TypeOK
<1>3. w > 0 => NewUnstake(q, w) \in UnstakeRow
  <2>1. w > 0 => t.user \in Users /\ t.pool \in Pools
    BY DEF Effect, Asks
  <2>2. t.now + Cooldown \in Nat
    BY TimeAssumption DEF Knows, Tx
  <2> QED
    BY <1>1, <2>1, <2>2 DEF NewUnstake, UnstakeRow
<1>4. \A x \in unstakes \ t.paid : x \in PaidUnstakes(t)
  BY DEF PaidUnstakes
<1>5. \A x \in t.paid : [x EXCEPT !.status = "COMPLETED"] \in PaidUnstakes(t)
  BY <1>2 DEF PaidUnstakes
<1>6. \A y \in PaidUnstakes(t) :
         \/ y \in unstakes \ t.paid
         \/ \E x \in t.paid : y = [x EXCEPT !.status = "COMPLETED"]
  BY DEF PaidUnstakes
<1>7. /\ \A y \in New : w > 0 /\ y = NewUnstake(q, w)
      /\ w > 0 => NewUnstake(q, w) \in New
  BY <1>1
<1> HIDE DEF New, t
<1>8. /\ \A y \in unstakes' :
             \/ y \in unstakes \ t.paid
             \/ \E x \in t.paid : y = [x EXCEPT !.status = "COMPLETED"]
             \/ w > 0 /\ y = NewUnstake(q, w)
      /\ \A x \in unstakes \ t.paid : x \in unstakes'
      /\ \A x \in t.paid : [x EXCEPT !.status = "COMPLETED"] \in unstakes'
      /\ w > 0 => NewUnstake(q, w) \in unstakes'
  BY <1>1, <1>4, <1>5, <1>6, <1>7
<1> QED
  BY <1>2, <1>3, <1>8 DEF t

LEMMA PendingAfter ==
    ASSUME TypeOK, NEW q \in Requests, Knows(q), NEW a, NEW c, NEW w, Effect(q, a, c, w),
           NEW u \in Users, NEW p \in Pools
    PROVE  Pending(u, p)' = (Pending(u, p) \ tx[q].paid)
                              \cup IF w > 0 /\ Mine(tx[q], u, p)
                                   THEN {NewUnstake(q, w)} ELSE {}
<1> DEFINE t == tx[q]
           New == IF w > 0 /\ Mine(t, u, p) THEN {NewUnstake(q, w)} ELSE {}
<1>1. ASSUME NEW x \in t.paid
      PROVE  /\ [x EXCEPT !.status = "COMPLETED"].status = "COMPLETED"
             /\ x \in UnstakeRow
  BY RowsAfter DEF UnstakeRow
<1>2. /\ NewUnstake(q, w).status = "PENDING" /\ NewUnstake(q, w).user = t.user
      /\ NewUnstake(q, w).pool = t.pool
  BY DEF NewUnstake
<1>3. ASSUME NEW y \in Pending(u, p)' PROVE y \in (Pending(u, p) \ t.paid) \cup New
  <2>1. y \in unstakes' /\ y.user = u /\ y.pool = p /\ y.status = "PENDING"
    BY DEF Pending
  <2>2. y \in unstakes \ t.paid \/ (w > 0 /\ y = NewUnstake(q, w))
    <3>1. ~ \E x \in t.paid : y = [x EXCEPT !.status = "COMPLETED"]
      BY <1>1, <2>1
    <3> QED
      BY <2>1, <3>1, RowsAfter
  <2> QED
    BY <1>2, <2>1, <2>2 DEF Pending, Mine
<1>4. ASSUME NEW y \in (Pending(u, p) \ t.paid) \cup New PROVE y \in Pending(u, p)'
  <2>1. CASE y \in Pending(u, p) \ t.paid
    BY <2>1, RowsAfter DEF Pending
  <2>2. CASE y \in New
    BY <1>2, <2>2, RowsAfter DEF Pending, Mine
  <2> QED
    BY <2>1, <2>2
<1> QED
  BY <1>3, <1>4

LEMMA OwedIs ==
    ASSUME TypeOK, OnePendingUnstake, NEW u \in Users, NEW p \in Pools
    PROVE  /\ \A x \in Pending(u, p) : Pending(u, p) = {x} /\ OwedTo(u, p) = x.amount
           /\ Pending(u, p) = {} => OwedTo(u, p) = 0
           /\ OwedTo(u, p) \in Nat
<1>1. ASSUME NEW x \in Pending(u, p)
      PROVE  Pending(u, p) = {x} /\ OwedTo(u, p) = x.amount /\ x.amount \in Nat
  <2>1. x \in unstakes /\ Pending(u, p) \subseteq unstakes
    BY DEF Pending
  <2>2. Pending(u, p) = {x}
    BY <2>1 DEF OnePendingUnstake
  <2>3. x.amount \in Nat
    BY <2>1 DEF TypeOK, UnstakeRow
  <2> QED
    BY <2>2, <2>3 DEF OwedTo
<1> QED
  BY <1>1 DEF OwedTo

LEMMA OnePendingAfter ==
    ASSUME TypeOK, OnePendingUnstake, NEW q \in Requests, Knows(q), NEW a, NEW c, NEW w,
           Effect(q, a, c, w)
    PROVE  OnePendingUnstake'
<1> DEFINE t == tx[q]
<1>1. SUFFICES ASSUME NEW u \in Users, NEW p \in Pools,
                      NEW x \in Pending(u, p)', NEW y \in Pending(u, p)'
               PROVE  x = y
  BY DEF OnePendingUnstake
<1>2. CASE w > 0 /\ Mine(t, u, p)
  <2>1. Pending(u, p) \subseteq t.paid
    BY <1>2 DEF Effect, Asks, Mine
  <2>2. Pending(u, p)' = {NewUnstake(q, w)}
    BY <1>2, <2>1, PendingAfter
  <2> QED
    BY <2>2
<1>3. CASE ~(w > 0 /\ Mine(t, u, p))
  <2>1. Pending(u, p)' = Pending(u, p) \ t.paid
    BY <1>3, PendingAfter
  <2>2. Pending(u, p) \subseteq unstakes
    BY DEF Pending
  <2> QED
    BY <2>1, <2>2 DEF OnePendingUnstake
<1> QED
  BY <1>2, <1>3

\* What a user is owed: less what was paid, more what was just asked for.
LEMMA OwedAfter ==
    ASSUME TypeOK, TypeOK', OnePendingUnstake, NEW q \in Requests, Knows(q),
           NEW a, NEW c, NEW w, Effect(q, a, c, w), NEW u \in Users, NEW p \in Pools
    PROVE  OwedTo(u, p)' = OwedTo(u, p) - (IF u = tx[q].user THEN tx[q].credit[p] ELSE 0)
                             + IF Mine(tx[q], u, p) THEN w ELSE 0
<1> DEFINE t == tx[q]
           paid == \E x \in t.paid : x.pool = p /\ x.user = u
           asks == w > 0 /\ Mine(t, u, p)
<1>0. w \in Nat /\ OnePendingUnstake'
  BY OnePendingAfter DEF Effect
<1>1. u = t.user => t.credit[p] = IF paid THEN OwedTo(u, p) ELSE 0
  <2>1. \A x \in t.paid : x.user = t.user
    BY RowsAfter
  <2> QED
    BY <2>1 DEF Knows, PaysWhatIsDue
<1>2. paid => u = t.user
  BY RowsAfter
<1>3. paid => Pending(u, p) \ t.paid = {}
  <2> SUFFICES ASSUME NEW x \in t.paid, x.pool = p, x.user = u
               PROVE  Pending(u, p) \ t.paid = {}
    OBVIOUS
  <2>1. x \in Pending(u, p)
    BY RowsAfter DEF Pending
  <2> QED
    BY <2>1, OwedIs
<1>4. ~paid => Pending(u, p) \ t.paid = Pending(u, p)
  BY DEF Pending
<1>5. asks => Pending(u, p) \ t.paid = {}
  BY DEF Effect, Asks, Mine
<1>6. Pending(u, p)' = (Pending(u, p) \ t.paid)
                         \cup IF asks THEN {NewUnstake(q, w)} ELSE {}
  BY PendingAfter
<1>7. asks => OwedTo(u, p)' = w
  <2>1. asks => NewUnstake(q, w) \in Pending(u, p)'
    BY <1>6
  <2>2. NewUnstake(q, w).amount = w
    BY DEF NewUnstake
  <2>3. asks => OwedTo(u, p)' = NewUnstake(q, w).amount
    <3>1. ASSUME asks PROVE Pending(u, p)' = {NewUnstake(q, w)}
      BY <1>5, <1>6, <3>1
    <3> QED
      BY <3>1 DEF OwedTo
  <2> QED
    BY <2>2, <2>3
<1>8. ~asks /\ paid => OwedTo(u, p)' = 0
  BY <1>3, <1>6 DEF OwedTo
<1>9. ~asks /\ ~paid => OwedTo(u, p)' = OwedTo(u, p)
  <2> SUFFICES ASSUME Pending(u, p)' = Pending(u, p) PROVE OwedTo(u, p)' = OwedTo(u, p)
    BY <1>4, <1>6
  <2> QED
    BY DEF OwedTo
<1>10. asks /\ ~paid => OwedTo(u, p) = 0
  BY <1>4, <1>5, OwedIs
<1>11. OwedTo(u, p) \in Nat
  BY OwedIs
<1>12. asks => Mine(t, u, p) /\ u = t.user
  BY DEF Mine
<1>13. Mine(t, u, p) /\ ~asks => w = 0
  BY <1>0
<1> HIDE DEF paid, asks, t
<1> QED
  BY <1>0, <1>1, <1>2, <1>7, <1>8, <1>9, <1>10, <1>11, <1>12, <1>13 DEF t

LEMMA RowsNamedAfter ==
    ASSUME TypeOK, RowsNamed, NEW q \in Requests, Knows(q), NEW a, NEW c, NEW w,
           Effect(q, a, c, w)
    PROVE  RowsNamed'
<1> DEFINE t == tx[q]
           Marked(x) == [x EXCEPT !.status = "COMPLETED"]
           Named(x, y) == x.id = y.id /\ x.user = y.user /\ x.pool = y.pool
<1>1. pc[q] = "write" /\ pc' = [pc EXCEPT ![q] = "done"] /\ q # Opening
  BY NamesAssumption DEF Effect, EndRequest
<1>2. \A x \in t.paid : Marked(x).id = x.id /\ Marked(x).user = x.user
                        /\ Marked(x).pool = x.pool
  BY RowsAfter DEF UnstakeRow
\* Every row after the commit has the name of a row there was, or of q.
<1>3. ASSUME NEW y \in unstakes'
      PROVE  \/ \E x \in unstakes : Named(y, x) /\ y = IF x \in t.paid THEN Marked(x) ELSE x
             \/ y = NewUnstake(q, w)
  <2>1. CASE y \in unstakes \ t.paid
    BY <2>1
  <2>2. ASSUME NEW x \in t.paid, y = Marked(x)
        PROVE  Named(y, x) /\ x \in unstakes
    BY <1>2, <2>2, RowsAfter
  <2> QED
    BY <2>1, <2>2, RowsAfter
<1>4. \A x \in unstakes : x.id # q
  BY <1>1 DEF RowsNamed
<1>5. NewUnstake(q, w).id = q
  BY DEF NewUnstake
<1>6. ASSUME NEW y \in unstakes', NEW z \in unstakes', Named(y, z) PROVE y = z
  <2>1. CASE y = NewUnstake(q, w) \/ z = NewUnstake(q, w)
    BY <1>3, <1>4, <1>5, <1>6, <2>1
  <2>2. CASE y # NewUnstake(q, w) /\ z # NewUnstake(q, w)
    <3>1. PICK x \in unstakes : Named(y, x) /\ y = IF x \in t.paid THEN Marked(x) ELSE x
      BY <1>3, <2>2
    <3>2. PICK x2 \in unstakes :
             Named(z, x2) /\ z = IF x2 \in t.paid THEN Marked(x2) ELSE x2
      BY <1>3, <2>2
    <3>3. x = x2
      <4>1. Named(y, x) /\ Named(z, x2) /\ Named(y, z)
        BY <1>6, <3>1, <3>2
      <4>2. Named(x, x2)
        BY <4>1
      <4> QED
        BY <4>2 DEF RowsNamed
    <3> QED
      BY <3>1, <3>2, <3>3
  <2> QED
    BY <2>1, <2>2
<1>7. ASSUME NEW y \in unstakes', y.id # Opening PROVE pc'[y.id] = "done"
  <2>1. CASE y = NewUnstake(q, w)
    BY <1>1, <1>5, <2>1 DEF TypeOK
  <2>2. ASSUME NEW x \in unstakes, Named(y, x) PROVE pc'[y.id] = "done"
    <3>1. pc[y.id] = "done" /\ y.id \in Requests
      BY <1>7, <2>2 DEF RowsNamed, TypeOK, UnstakeRow
    <3> QED
      BY <1>1, <3>1 DEF TypeOK
  <2> QED
    BY <1>3, <2>1, <2>2
<1> QED
  BY <1>6, <1>7 DEF RowsNamed

LEMMA EntriesNamedAfter ==
    ASSUME TypeOK, EntriesNamed, NEW q \in Requests, Knows(q), NEW a, NEW c, NEW w,
           Effect(q, a, c, w)
    PROVE  EntriesNamed'
<1> DEFINE t == tx[q]
           Of(x, e) == x.id = e.reference /\ x.user = e.user /\ x.pool = e.pool
<1>1. PICK own : LedgerGains(t, own)
  BY DEF Effect
<1>2. ASSUME NEW x \in unstakes PROVE \E y \in unstakes' : y.id = x.id /\ y.user = x.user
                                                          /\ y.pool = x.pool
  <2>1. CASE x \in t.paid
    <3> DEFINE y == [x EXCEPT !.status = "COMPLETED"]
    <3>1. y \in unstakes' /\ y.id = x.id /\ y.user = x.user /\ y.pool = x.pool
      BY <2>1, RowsAfter DEF UnstakeRow
    <3> HIDE DEF y
    <3> QED
      BY <3>1
  <2>2. CASE x \notin t.paid
    BY <2>2, RowsAfter
  <2> QED
    BY <2>1, <2>2
<1>3. ASSUME NEW e \in ledger', e.type = "STAKING_UNSTAKE"
      PROVE  \E x \in unstakes : Of(x, e)
  <2>1. e \in ledger \/ e \in PaidEntries(t)
    BY <1>1, <1>3 DEF LedgerGains
  <2>2. CASE e \in ledger
    BY <1>3, <2>2 DEF EntriesNamed
  <2>3. CASE e \in PaidEntries(t)
    <3>1. PICK x \in t.paid : e = Entry("STAKING_UNSTAKE", x.user, x.pool, x.id, x.amount)
      BY <2>3 DEF PaidEntries
    <3> QED
      BY <3>1, RowsAfter DEF Entry
  <2> QED
    BY <2>1, <2>2, <2>3
<1> QED
  BY <1>2, <1>3 DEF EntriesNamed

\* The entries of withdrawals after a commit are those there were and those of
\* the withdrawals it paid.
LEMMA RecordedAfter ==
    ASSUME TypeOK, NEW q \in Requests, NEW a, NEW c, NEW w, Effect(q, a, c, w),
           NEW u, NEW p, NEW r
    PROVE  Recorded("STAKING_UNSTAKE", u, p, r)'
             <=> \/ Recorded("STAKING_UNSTAKE", u, p, r)
                 \/ \E x \in tx[q].paid : x.user = u /\ x.pool = p /\ x.id = r
<1> DEFINE t == tx[q]
<1>1. PICK own : LedgerGains(t, own)
  BY DEF Effect
<1>2. \A e \in ledger' : e.type = "STAKING_UNSTAKE" => e \in ledger \/ e \in PaidEntries(t)
  BY <1>1 DEF LedgerGains
<1>3. /\ \A e \in PaidEntries(t) : \E x \in t.paid :
             e = Entry("STAKING_UNSTAKE", x.user, x.pool, x.id, x.amount)
      /\ \A x \in t.paid :
             Entry("STAKING_UNSTAKE", x.user, x.pool, x.id, x.amount) \in ledger'
  BY <1>1 DEF PaidEntries, LedgerGains
<1>4. ASSUME NEW x PROVE LET e == Entry("STAKING_UNSTAKE", x.user, x.pool, x.id, x.amount)
                         IN  /\ e.type = "STAKING_UNSTAKE" /\ e.user = x.user
                             /\ e.pool = x.pool /\ e.reference = x.id
  BY DEF Entry
<1>5. ledger \subseteq ledger'
  BY <1>1 DEF LedgerGains
<1>6. ASSUME Recorded("STAKING_UNSTAKE", u, p, r)'
      PROVE  \/ Recorded("STAKING_UNSTAKE", u, p, r)
             \/ \E x \in t.paid : x.user = u /\ x.pool = p /\ x.id = r
  <2>1. PICK e \in ledger' : /\ e.type = "STAKING_UNSTAKE" /\ e.user = u
                             /\ e.pool = p /\ e.reference = r
    BY <1>6 DEF Recorded
  <2> QED
    BY <1>2, <1>3, <1>4, <2>1 DEF Recorded
<1>7. ASSUME Recorded("STAKING_UNSTAKE", u, p, r)
      PROVE  Recorded("STAKING_UNSTAKE", u, p, r)'
  BY <1>5, <1>7 DEF Recorded
<1>8. ASSUME NEW x \in t.paid, x.user = u, x.pool = p, x.id = r
      PROVE  Recorded("STAKING_UNSTAKE", u, p, r)'
  BY <1>3, <1>4, <1>8 DEF Recorded
<1> QED
  BY <1>6, <1>7, <1>8

PaidRight(x) ==
    /\ x.status = "COMPLETED" <=> Recorded("STAKING_UNSTAKE", x.user, x.pool, x.id)
    /\ x.status = "COMPLETED" =>
          /\ x.due <= clock
          /\ Entry("STAKING_UNSTAKE", x.user, x.pool, x.id, x.amount) \in ledger

LEMMA PaidOnceAfter ==
    ASSUME TypeOK, RowsNamed, EntriesNamed, UnstakePaidOnce, NEW q \in Requests, Knows(q),
           NEW a, NEW c, NEW w, Effect(q, a, c, w)
    PROVE  UnstakePaidOnce'
<1> DEFINE t == tx[q]
           Paid(x) == Recorded("STAKING_UNSTAKE", x.user, x.pool, x.id)
<1>1. \A x \in unstakes : PaidRight(x)
  BY DEF UnstakePaidOnce, PaidRight
<1>2. SUFFICES ASSUME NEW y \in unstakes' PROVE PaidRight(y)'
  BY DEF UnstakePaidOnce, PaidRight
<1>3. PICK own : LedgerGains(t, own)
  BY DEF Effect
<1>4. clock' = clock /\ pc[q] = "write" /\ ledger \subseteq ledger'
  BY <1>3 DEF Effect, EndRequest, LedgerGains
<1>5. CASE y \in unstakes \ t.paid
  <2>1. PaidRight(y)
    BY <1>1, <1>5
  <2>2. ~ \E x \in t.paid : x.user = y.user /\ x.pool = y.pool /\ x.id = y.id
    BY <1>5, RowsAfter DEF RowsNamed
  <2>3. Paid(y)' <=> Paid(y)
    BY <2>2, RecordedAfter
  <2> QED
    BY <1>4, <2>1, <2>3 DEF PaidRight
<1>6. ASSUME NEW x \in t.paid, y = [x EXCEPT !.status = "COMPLETED"]
      PROVE  PaidRight(y)'
  <2>1. /\ y.status = "COMPLETED" /\ y.user = x.user /\ y.pool = x.pool /\ y.id = x.id
        /\ y.amount = x.amount /\ y.due = x.due /\ x.due <= t.now
        /\ x.due \in Nat
    BY <1>6, RowsAfter DEF UnstakeRow
  <2>2. Paid(y)'
    BY <2>1, RecordedAfter
  <2>3. x.due <= clock
    <3>1. t.now \in Nat /\ t.now <= clock /\ clock \in Nat
      BY DEF Knows, Tx, TypeOK
    <3> QED
      BY <2>1, <3>1
  <2>4. Entry("STAKING_UNSTAKE", x.user, x.pool, x.id, x.amount) \in ledger'
    BY <1>3 DEF PaidEntries, LedgerGains
  <2> QED
    BY <1>4, <2>1, <2>2, <2>3, <2>4 DEF PaidRight
<1>7. CASE y = NewUnstake(q, w)
  <2>1. y.status = "PENDING" /\ y.id = q /\ q # Opening
    BY <1>7, NamesAssumption DEF NewUnstake
  <2>2. \A x \in unstakes : x.id # q
    BY <1>4, <2>1 DEF RowsNamed
  <2>3. ~Paid(y)
    BY <2>1, <2>2 DEF EntriesNamed, Recorded
  <2>4. ~ \E x \in t.paid : x.user = y.user /\ x.pool = y.pool /\ x.id = y.id
    BY <2>1, <2>2, RowsAfter
  <2>5. ~Paid(y)'
    BY <2>3, <2>4, RecordedAfter
  <2> QED
    BY <2>1, <2>5 DEF PaidRight
<1> QED
  BY <1>5, <1>6, <1>7, RowsAfter

-----------------------------------------------------------------------------
(* Money.                                                                   *)

LEMMA OpeningAfter ==
    ASSUME TypeOK, NEW q \in Requests, Knows(q), NEW a, NEW c, NEW w, Effect(q, a, c, w),
           NEW u, NEW p
    PROVE  OpeningOf(u, p)' = OpeningOf(u, p)
<1> DEFINE Opened(x) == x.id = Opening /\ x.user = u /\ x.pool = p
<1>1. (\E y \in unstakes' : Opened(y)) <=> (\E x \in unstakes : Opened(x))
  <2>1. ASSUME NEW x \in unstakes, Opened(x) PROVE \E y \in unstakes' : Opened(y)
    <3>1. CASE x \in tx[q].paid
      <4> DEFINE y == [x EXCEPT !.status = "COMPLETED"]
      <4>1. y \in unstakes' /\ Opened(y)
        BY <2>1, <3>1, RowsAfter DEF UnstakeRow
      <4> QED
        BY <4>1
    <3>2. CASE x \notin tx[q].paid
      BY <2>1, <3>2, RowsAfter
    <3> QED
      BY <3>1, <3>2
  <2>2. ASSUME NEW y \in unstakes', Opened(y) PROVE \E x \in unstakes : Opened(x)
    <3>1. y # NewUnstake(q, w)
      BY <2>2, NamesAssumption DEF NewUnstake
    <3>2. ASSUME NEW x \in tx[q].paid, y = [x EXCEPT !.status = "COMPLETED"]
          PROVE  x \in unstakes /\ Opened(x)
      BY <2>2, <3>2, RowsAfter DEF UnstakeRow
    <3> QED
      BY <2>2, <3>1, <3>2, RowsAfter
  <2> QED
    BY <2>1, <2>2
<1> QED
  BY <1>1 DEF OpeningOf

LEMMA MoneyAfter ==
    ASSUME TypeOK, TypeOK', OnePendingUnstake, MoneyConserved, NEW q \in Requests,
           Knows(q), NEW a, NEW c, NEW w, Effect(q, a, c, w)
    PROVE  MoneyConserved'
<1> DEFINE t == tx[q]
<1>1. SUFFICES ASSUME NEW u \in Users, NEW p \in Pools
               PROVE  wallet'[u][p] + position'[u][p].principal + OwedTo(u, p)'
                        = OpeningOf(u, p)' + position'[u][p].claimed
  BY DEF MoneyConserved
<1> DEFINE credit == IF u = t.user THEN t.credit[p] ELSE 0
           bal == wallet[u][p]
           principal == position[u][p].principal
           claimed == position[u][p].claimed
           owed == OwedTo(u, p)
           opening == OpeningOf(u, p)
           mine == Mine(t, u, p)
<1>2. wallet'[u][p] = bal + credit + IF mine THEN c - a - w ELSE 0
  BY DEF Effect, WalletsMove
<1>3. position'[u][p].principal = principal + IF mine THEN a ELSE 0
  BY DEF Effect, PositionsMove
<1>4. position'[u][p].claimed = claimed + IF mine THEN c ELSE 0
  BY DEF Effect, PositionsMove
<1>5. OwedTo(u, p)' = owed - credit + IF mine THEN w ELSE 0
  BY OwedAfter
<1>6. OpeningOf(u, p)' = opening
  BY OpeningAfter
<1>7. bal + principal + owed = opening + claimed
  BY DEF MoneyConserved
<1>8. bal \in Nat /\ principal \in Nat /\ claimed \in Nat
  BY DEF TypeOK, PositionRow
<1>9. owed \in Nat /\ opening \in Nat /\ credit \in Nat
  <2>1. opening \in Nat
    BY OpeningAssumption DEF OpeningOf
  <2>2. credit \in Nat
    BY DEF Knows, Tx
  <2> QED
    BY <2>1, <2>2, OwedIs
<1>10. a \in Int /\ c \in Nat /\ w \in Nat
  BY DEF Effect
<1> HIDE DEF credit, bal, principal, claimed, owed, opening, mine, t
<1> QED
  BY <1>2, <1>3, <1>4, <1>5, <1>6, <1>7, <1>8, <1>9, <1>10

-----------------------------------------------------------------------------
(* The pool row and the positions it stands for.                            *)

Principals(m, p) == [u \in Users |-> m[u][p].principal]
Claims(m, p) == [u \in Users |-> m[u][p].claimed]
DeltasOf(S) == [x \in S |-> x.delta]
AuditOf(S, p) == {x \in S : x.pool = p}

PoolMatches(p) ==
    /\ pool[p].staked = SumFunction(Principals(position, p))
    /\ pool[p].reserve + SumFunction(Claims(position, p))
          = OpeningReserve + SumFunction(DeltasOf(AuditOf(audit, p)))

LEMMA MatchesByPool ==
    /\ PoolMatchesPositions <=> \A p \in Pools : PoolMatches(p)
    /\ PoolMatchesPositions' <=> \A p \in Pools : PoolMatches(p)'
  BY DEF PoolMatchesPositions, PoolMatches, Principals, Claims, DeltasOf, AuditOf

\* One user's number changes by d.
LEMMA SumMoves ==
    ASSUME NEW f \in [Users -> Int], NEW g \in [Users -> Int], NEW u \in Users,
           NEW d \in Int, g[u] = f[u] + d, \A v \in Users \ {u} : g[v] = f[v]
    PROVE  SumFunction(g) = SumFunction(f) + d /\ SumFunction(f) \in Int
<1>1. /\ SumFunction(f) = SumFunctionOnSet(f, Users)
      /\ SumFunction(g) = SumFunctionOnSet(g, Users)
  BY DEF SumFunction
<1>2. Numbers(f, Users) /\ IsFiniteSet(Users)
  BY UsersAssumption DEF Numbers
<1>3. SumFunctionOnSet(g, Users) = SumFunctionOnSet(f, Users) - f[u] + g[u]
  BY <1>2, SumChanged
<1>4. SumFunctionOnSet(f, Users) \in Int
  BY <1>2, SumType
<1>5. f[u] \in Int
  OBVIOUS
<1> QED
  BY <1>1, <1>3, <1>4, <1>5

LEMMA ColumnsTyped ==
    ASSUME NEW m \in [Users -> [Pools -> PositionRow]], NEW p \in Pools
    PROVE  /\ Principals(m, p) \in [Users -> Int] /\ Claims(m, p) \in [Users -> Int]
           /\ \A u \in Users : Principals(m, p)[u] = m[u][p].principal
           /\ \A u \in Users : Claims(m, p)[u] = m[u][p].claimed
<1>1. \A u \in Users : m[u][p].principal \in Int /\ m[u][p].claimed \in Int
  BY DEF PositionRow
<1> QED
  BY <1>1 DEF Principals, Claims

\* The deltas of the audit rows of a pool add up to a number.
LEMMA AuditSum ==
    ASSUME NEW S, IsFiniteSet(S), \A x \in S : x.delta \in Int, NEW p
    PROVE  /\ SumFunction(DeltasOf(AuditOf(S, p))) \in Int
           /\ IsFiniteSet(AuditOf(S, p))
<1> DEFINE A == AuditOf(S, p)
           f == DeltasOf(A)
<1>1. IsFiniteSet(A)
  BY FS_Subset DEF AuditOf
<1>2. Numbers(f, A) /\ SumFunction(f) = SumFunctionOnSet(f, A)
  BY DEF Numbers, DeltasOf, SumFunction, AuditOf
<1> HIDE DEF A, f
<1>3. SumFunctionOnSet(f, A) \in Int
  BY <1>1, <1>2, SumType
<1> QED
  BY <1>1, <1>2, <1>3 DEF A, f

LEMMA PoolAfter ==
    ASSUME TypeOK, AuditRows, PoolMatchesPositions, NEW q \in Requests, Knows(q),
           NEW a, NEW c, NEW w, Effect(q, a, c, w)
    PROVE  PoolMatchesPositions'
<1> DEFINE t == tx[q]
<1>1. SUFFICES ASSUME NEW p \in Pools PROVE PoolMatches(p)'
  BY MatchesByPool
<1> DEFINE f == Principals(position, p)
           g == Principals(position', p)
           h == Claims(position, p)
           k == Claims(position', p)
           audited == SumFunction(DeltasOf(AuditOf(audit, p)))
           da == IF p = t.pool THEN a ELSE 0
           dc == IF p = t.pool THEN c ELSE 0
<1>2. /\ pool[p].staked = SumFunction(f)
      /\ pool[p].reserve + SumFunction(h) = OpeningReserve + audited
  BY MatchesByPool DEF PoolMatches
<1>3. /\ pool'[p].staked = pool[p].staked + da
      /\ pool'[p].reserve = pool[p].reserve - dc
      /\ UNCHANGED audit
  BY DEF Effect, PoolsMove
<1>4. position' \in [Users -> [Pools -> PositionRow]]
      /\ position \in [Users -> [Pools -> PositionRow]]
  BY DEF Effect, PositionsMove, TypeOK
<1>5. f \in [Users -> Int] /\ g \in [Users -> Int] /\ h \in [Users -> Int]
      /\ k \in [Users -> Int]
  BY <1>4, ColumnsTyped
<1>6. t.user \in Users
  BY DEF Knows, Asked, Effect
<1>7. \A u \in Users : /\ g[u] = f[u] + IF Mine(t, u, p) THEN a ELSE 0
                       /\ k[u] = h[u] + IF Mine(t, u, p) THEN c ELSE 0
  <2>1. \A u \in Users : /\ f[u] = position[u][p].principal
                         /\ h[u] = position[u][p].claimed
    BY <1>4, ColumnsTyped
  <2>2. \A u \in Users : /\ g[u] = position'[u][p].principal
                         /\ k[u] = position'[u][p].claimed
    BY <1>4, ColumnsTyped
  <2>3. PositionsMove(t, a, c)
    BY DEF Effect
  <2> HIDE DEF f, g, h, k, t
  <2> QED
    BY <2>1, <2>2, <2>3 DEF PositionsMove
<1>8. g[t.user] = f[t.user] + da /\ k[t.user] = h[t.user] + dc
  BY <1>6, <1>7 DEF Mine
<1>9. \A v \in Users \ {t.user} : g[v] = f[v] /\ k[v] = h[v]
  <2>1. \A v \in Users \ {t.user} : ~Mine(t, v, p)
    BY DEF Mine
  <2>2. \A v \in Users : f[v] \in Int /\ h[v] \in Int
    BY <1>5
  <2> HIDE DEF f, g, h, k
  <2> QED
    BY <1>7, <2>1, <2>2
<1>10. da \in Int /\ dc \in Int
  BY DEF Effect
<1>11. audited \in Int /\ OpeningReserve \in Nat /\ pool[p].reserve \in Nat
       /\ pool[p].staked \in Int
  BY AuditSum, OpeningAssumption DEF AuditRows, TypeOK, PoolRow
<1>12. PoolMatches(p)' <=> /\ pool'[p].staked = SumFunction(g)
                           /\ pool'[p].reserve + SumFunction(k) = OpeningReserve + audited
  BY <1>3 DEF PoolMatches
<1> HIDE DEF f, g, h, k, da, dc, audited, t
<1>13. SumFunction(g) = SumFunction(f) + da /\ SumFunction(f) \in Int
  BY <1>5, <1>6, <1>8, <1>9, <1>10, SumMoves
<1>14. SumFunction(k) = SumFunction(h) + dc /\ SumFunction(h) \in Int
  BY <1>5, <1>6, <1>8, <1>9, <1>10, SumMoves
<1> QED
  BY <1>2, <1>3, <1>10, <1>11, <1>12, <1>13, <1>14

\* An administrator's update: the row it read with another reserve, and the
\* audit row that says by how much.
LEMMA AdminEffect ==
    ASSUME TypeOK, NEW q \in Requests, Knows(q), CommitAdmin(q)
    PROVE  LET t == tx[q] IN
           /\ pc[q] = "write" /\ t.kind = "admin" /\ EndRequest(q) /\ t.pool \in Pools
           /\ UNCHANGED <<position, unstakes, wallet, ledger>>
           /\ \E x :
                 /\ x \notin audit /\ x.pool = t.pool /\ x.delta \in Int
                 /\ audit' = audit \cup {x}
                 /\ pool' \in [Pools -> PoolRow]
                 /\ \A p \in Pools :
                       /\ p # t.pool => pool'[p] = pool[p]
                       /\ pool'[p].staked = pool[p].staked
                       /\ pool'[p].reserve
                            = pool[p].reserve + IF p = t.pool THEN x.delta ELSE 0
<1> DEFINE t == tx[q]
<1>1. /\ pc[q] = "write" /\ t.kind = "admin" /\ EndRequest(q) /\ MayUpdate(t)
      /\ UNCHANGED <<position, unstakes, wallet, ledger>>
  BY DEF CommitAdmin, Commits, Accepted
<1>2. PICK on \in BOOLEAN, rate \in Rates, d \in Deltas :
         /\ t.row.reserve + d >= 0
         /\ pool' = [pool EXCEPT ![t.pool] =
               [t.row EXCEPT !.enabled = on, !.rate = rate, !.reserve = @ + d]]
         /\ audit' = audit \cup {[key |-> t.amount, pool |-> t.pool, delta |-> d]}
  BY DEF CommitAdmin
<1> DEFINE x == [key |-> t.amount, pool |-> t.pool, delta |-> d]
           row == [t.row EXCEPT !.enabled = on, !.rate = rate, !.reserve = @ + d]
<1>3. t.pool \in Pools /\ t.row \in PoolRow /\ t.row = pool[t.pool]
  BY <1>1, ReadTyped DEF OwnsPool
<1>4. d \in Int /\ rate \in Nat
  BY RatesAssumption
<1>5. row \in PoolRow /\ row.staked = t.row.staked /\ row.reserve = t.row.reserve + d
  <2>1. t.row.reserve + d \in Nat
    BY <1>2, <1>3, <1>4 DEF PoolRow
  <2> QED
    BY <1>3, <1>4, <2>1 DEF PoolRow
<1>6. x \notin audit /\ x.pool = t.pool /\ x.delta = d
  BY <1>1 DEF MayUpdate
<1>7. pool' = [pool EXCEPT ![t.pool] = row] /\ audit' = audit \cup {x}
  BY <1>2
<1> HIDE DEF x, row
<1>8. pool' \in [Pools -> PoolRow]
      /\ \A p \in Pools : pool'[p] = IF p = t.pool THEN row ELSE pool[p]
  BY <1>3, <1>5, <1>7 DEF TypeOK
<1>9. \A p \in Pools : /\ p # t.pool => pool'[p] = pool[p]
                       /\ pool'[p].staked = pool[p].staked
                       /\ pool'[p].reserve = pool[p].reserve + IF p = t.pool THEN d ELSE 0
  <2>1. \A p \in Pools : pool[p].reserve \in Nat
    BY DEF TypeOK, PoolRow
  <2> QED
    BY <1>3, <1>5, <1>8, <2>1
<1> QED
  BY <1>1, <1>3, <1>4, <1>6, <1>7, <1>8, <1>9

LEMMA PoolAdmin ==
    ASSUME TypeOK, AuditRows, PoolMatchesPositions, NEW q \in Requests, Knows(q),
           CommitAdmin(q)
    PROVE  PoolMatchesPositions' /\ AuditRows'
<1> DEFINE t == tx[q]
<1>1. PICK x :
         /\ x \notin audit /\ x.pool = t.pool /\ x.delta \in Int
         /\ audit' = audit \cup {x}
         /\ \A p \in Pools :
               /\ pool'[p].staked = pool[p].staked
               /\ pool'[p].reserve = pool[p].reserve + IF p = t.pool THEN x.delta ELSE 0
  BY AdminEffect
<1> DEFINE d == x.delta
<1>2. UNCHANGED position
  BY AdminEffect
<1>3. AuditRows'
  BY <1>1, FS_AddElement DEF AuditRows
<1>4. ASSUME NEW p \in Pools PROVE PoolMatches(p)'
  <2> DEFINE A == AuditOf(audit, p)
             B == AuditOf(audit', p)
             f == DeltasOf(A)
             g == DeltasOf(B)
             claimed == SumFunction(Claims(position, p))
  <2>1. /\ pool[p].staked = SumFunction(Principals(position, p))
        /\ pool[p].reserve + claimed = OpeningReserve + SumFunction(f)
    BY MatchesByPool DEF PoolMatches
  <2>2. PoolMatches(p)' <=> /\ pool'[p].staked = SumFunction(Principals(position, p))
                            /\ pool'[p].reserve + claimed = OpeningReserve + SumFunction(g)
    BY <1>2 DEF PoolMatches
  <2>3. B = IF p = t.pool THEN A \cup {x} ELSE A
    BY <1>1 DEF AuditOf
  <2>4. IsFiniteSet(A) /\ SumFunction(f) \in Int
    BY AuditSum DEF AuditRows
  <2>5. claimed \in Int /\ pool[p].reserve \in Nat /\ OpeningReserve \in Nat
    <3>1. Claims(position, p) \in [Users -> Int] /\ IsFiniteSet(Users)
      BY UsersAssumption, ColumnsTyped DEF TypeOK
    <3>2. Numbers(Claims(position, p), Users)
      BY <3>1 DEF Numbers
    <3>3. claimed = SumFunctionOnSet(Claims(position, p), Users)
      BY <3>1 DEF SumFunction
    <3> QED
      BY <3>1, <3>2, <3>3, SumType, OpeningAssumption DEF TypeOK, PoolRow
  <2>6. CASE p # t.pool
    BY <1>1, <2>1, <2>2, <2>3, <2>5, <2>6
  <2>7. CASE p = t.pool
    <3>1. SumFunction(g) = SumFunction(f) + d
      <4>1. B = A \cup {x} /\ x \notin A
        BY <1>1, <2>3, <2>7 DEF AuditOf
      <4>2. /\ SumFunction(f) = SumFunctionOnSet(f, A)
            /\ SumFunction(g) = SumFunctionOnSet(g, B)
            /\ \A y \in A : f[y] = y.delta
            /\ \A y \in B : g[y] = y.delta
        BY DEF SumFunction, DeltasOf
      <4>3. \A y \in B : y.delta \in Int
        BY <1>3 DEF AuditRows, AuditOf
      <4> HIDE DEF A, B, f, g
      <4>4. Numbers(f, A) /\ Numbers(g, A \cup {x}) /\ \A y \in A : g[y] = f[y]
        BY <4>1, <4>2, <4>3 DEF Numbers
      <4>5. SumFunctionOnSet(g, A \cup {x}) = SumFunctionOnSet(g, A) + g[x]
        BY <2>4, <4>1, <4>4, SumWith
      <4>6. SumFunctionOnSet(g, A) = SumFunctionOnSet(f, A)
        BY <2>4, <4>4, SumSame
      <4>7. g[x] = d
        BY <1>1, <4>1, <4>2
      <4> QED
        BY <4>1, <4>2, <4>5, <4>6, <4>7
    <3>2. pool'[p].staked = pool[p].staked /\ pool'[p].reserve = pool[p].reserve + d
      BY <1>1, <2>7
    <3>3. d \in Int
      BY <1>1
    <3> HIDE DEF d, f, g, claimed
    <3>4. pool'[p].reserve + claimed = OpeningReserve + SumFunction(g)
      BY <2>1, <2>4, <2>5, <3>1, <3>2, <3>3
    <3> QED
      BY <2>1, <2>2, <3>2, <3>4
  <2> QED
    BY <2>6, <2>7
<1> QED
  BY <1>3, <1>4, MatchesByPool

-----------------------------------------------------------------------------
(* What the locks keep.                                                     *)

RowsOf(u) == {x \in unstakes : x.user = u}

\* The rows behind the locks of q, and the locks, stay as they are.
LocksKeep(q) ==
    /\ \A u \in Users : userLock[u] = q =>
          userLock'[u] = q /\ RowsOf(u)' = RowsOf(u) /\ position'[u] = position[u]
    /\ \A p \in Pools : poolLock[p] = q => poolLock'[p] = q /\ pool'[p] = pool[p]

LEMMA RowsKept ==
    ASSUME NEW u, NEW p, RowsOf(u)' = RowsOf(u)
    PROVE  Pending(u, p)' = Pending(u, p) /\ OwedTo(u, p)' = OwedTo(u, p)
<1>1. Pending(u, p) = {x \in RowsOf(u) : x.pool = p /\ x.status = "PENDING"}
  BY DEF Pending, RowsOf
<1>2. Pending(u, p)' = {x \in RowsOf(u)' : x.pool = p /\ x.status = "PENDING"}
  BY DEF Pending, RowsOf
<1>3. Pending(u, p)' = Pending(u, p)
  BY <1>1, <1>2
<1> QED
  BY <1>3 DEF OwedTo

LEMMA OthersKnow ==
    ASSUME TypeOK, NEW q \in Requests, Knows(q), LocksKeep(q),
           pc'[q] = pc[q], tx'[q] = tx[q], clock' \in Nat, clock <= clock'
    PROVE  Knows(q)'
<1> DEFINE t == tx[q]
<1>1. /\ t \in Tx /\ Asked(t) /\ t.now <= clock /\ PaysWhatIsDue(t)
      /\ t.now \in Nat /\ clock \in Nat
  BY DEF Knows, Tx, TypeOK
<1>2. t.now <= clock'
  BY <1>1
<1>3. PaysWhatIsDue(t)'
  <2>1. CASE t.todo = {} /\ t.paid = {}
    BY <1>1, <2>1 DEF PaysWhatIsDue
  <2>2. CASE ~(t.todo = {} /\ t.paid = {})
    <3>1. t.user \in Users /\ userLock[t.user] = q
      BY <1>1, <2>2 DEF Knows, Asked
    <3>2. RowsOf(t.user)' = RowsOf(t.user)
      BY <3>1 DEF LocksKeep
    <3>3. \A p \in Pools : OwedTo(t.user, p)' = OwedTo(t.user, p)
      BY <3>2, RowsKept
    <3>4. \A x \in t.todo \cup t.paid : x \in unstakes'
      BY <1>1, <3>2 DEF PaysWhatIsDue, RowsOf
    <3> QED
      BY <1>1, <3>3, <3>4 DEF PaysWhatIsDue
  <2> QED
    BY <2>1, <2>2
<1>4. \A x \in t.paid : poolLock'[x.pool] = q
  <2>1. \A x \in t.paid : x.pool \in Pools
    BY <1>1 DEF Tx, UnstakeRow
  <2> QED
    BY <2>1 DEF Knows, LocksKeep
<1>5. pc[q] # "user" /\ t.kind # "admin" => userLock'[t.user] = q
  BY <1>1 DEF Knows, Asked, LocksKeep
<1>6. pc[q] = "write" /\ OwnsPool(t) => poolLock'[t.pool] = q /\ t.row = pool'[t.pool]
  BY <1>1 DEF Knows, Asked, OwnsPool, LocksKeep
<1>7. pc[q] = "write" /\ OwnsPosition(t) =>
          /\ t.pos = position'[t.user][t.pool]
          /\ t.busy <=> Pending(t.user, t.pool)' \ t.paid # {}
  <2> SUFFICES ASSUME pc[q] = "write", OwnsPosition(t)
               PROVE  /\ t.pos = position'[t.user][t.pool]
                      /\ t.busy <=> Pending(t.user, t.pool)' \ t.paid # {}
    OBVIOUS
  <2>1. t.user \in Users /\ userLock[t.user] = q
    BY <1>1 DEF Knows, Asked, OwnsPosition
  <2>2. RowsOf(t.user)' = RowsOf(t.user) /\ position'[t.user] = position[t.user]
    BY <2>1 DEF LocksKeep
  <2>3. Pending(t.user, t.pool)' = Pending(t.user, t.pool)
    BY <2>2, RowsKept
  <2> QED
    BY <2>2, <2>3 DEF Knows
<1>8. tx'[q] = t /\ pc'[q] = pc[q] /\ t \in Tx /\ Asked(t)
  BY <1>1
<1>9. /\ pc[q] \in {"user", "mature"} => t.kind # "admin"
      /\ pc[q] = "pool" => OwnsPool(t)
      /\ pc[q] = "user" \/ t.kind = "admin" => t.todo = {} /\ t.paid = {}
  BY DEF Knows
<1> QED
  BY <1>2, <1>3, <1>4, <1>5, <1>6, <1>7, <1>8, <1>9 DEF Knows, OwnsPool, OwnsPosition

-----------------------------------------------------------------------------
(* The steps of a request before its last: they write no row.               *)

\* A step of q, or of no request, leaves what the others know.
LEMMA OthersStay ==
    ASSUME TypeOK, RequestsKnow, NEW q, clock' \in Nat, clock <= clock',
           \A r \in Requests \ {q} : pc'[r] = pc[r] /\ tx'[r] = tx[r] /\ LocksKeep(r),
           q \in Requests /\ Running(q)' => Knows(q)'
    PROVE  RequestsKnow'
<1> SUFFICES ASSUME NEW r \in Requests, r # q, Running(r)'
             PROVE  Knows(r)'
  BY DEF RequestsKnow
<1>1. pc'[r] = pc[r] /\ tx'[r] = tx[r] /\ LocksKeep(r)
  OBVIOUS
<1>2. Knows(r)
  BY <1>1 DEF RequestsKnow, Running
<1> QED
  BY <1>1, <1>2, OthersKnow

\* While no row is written the time may pass.
LEMMA RowsStay ==
    ASSUME TypeOK, RowsNamed, EntriesNamed, AuditRows, OnePendingUnstake, UnstakePaidOnce,
           MoneyConserved, PoolMatchesPositions, UNCHANGED rows,
           clock' \in Nat, clock <= clock',
           \A r \in Requests : pc[r] = "done" => pc'[r] = "done"
    PROVE  /\ RowsNamed' /\ EntriesNamed' /\ AuditRows' /\ OnePendingUnstake'
           /\ UnstakePaidOnce' /\ MoneyConserved' /\ PoolMatchesPositions'
<1>1. /\ pool' = pool /\ position' = position /\ unstakes' = unstakes
      /\ wallet' = wallet /\ ledger' = ledger /\ audit' = audit
  BY DEF rows
<1>2. RowsNamed'
  BY <1>1 DEF RowsNamed, TypeOK, UnstakeRow
<1>3. EntriesNamed' /\ AuditRows'
  BY <1>1 DEF EntriesNamed, AuditRows
<1>4. \A u, p : Pending(u, p)' = Pending(u, p) /\ OwedTo(u, p)' = OwedTo(u, p)
  BY <1>1, RowsKept DEF RowsOf
<1>5. OnePendingUnstake'
  BY <1>1, <1>4 DEF OnePendingUnstake
<1>6. UnstakePaidOnce'
  <2>1. \A u, p, r : Recorded("STAKING_UNSTAKE", u, p, r)'
                       <=> Recorded("STAKING_UNSTAKE", u, p, r)
    BY <1>1 DEF Recorded
  <2> SUFFICES ASSUME NEW x \in unstakes
               PROVE  PaidRight(x)'
    BY <1>1 DEF UnstakePaidOnce, PaidRight
  <2>2. PaidRight(x) /\ x.due \in Nat /\ clock \in Nat
    BY DEF UnstakePaidOnce, PaidRight, TypeOK, UnstakeRow
  <2>3. x.due <= clock => x.due <= clock'
    BY <2>2
  <2> QED
    BY <1>1, <2>1, <2>2, <2>3 DEF PaidRight
<1>7. MoneyConserved'
  <2>1. \A u, p : OpeningOf(u, p)' = OpeningOf(u, p)
    BY <1>1 DEF OpeningOf
  <2> QED
    BY <1>1, <1>4, <2>1 DEF MoneyConserved
<1>8. PoolMatchesPositions'
  BY <1>1 DEF PoolMatchesPositions
<1> QED
  BY <1>2, <1>3, <1>5, <1>6, <1>7, <1>8

\* Nobody takes a lock that another holds.
LEMMA LocksStay ==
    ASSUME UNCHANGED rows, NEW q, NEW r \in Requests, r # q,
           \A u \in Users : userLock[u] \in {NoOne, q} \/ userLock'[u] = userLock[u],
           \A p \in Pools : poolLock[p] \in {NoOne, q} \/ poolLock'[p] = poolLock[p]
    PROVE  LocksKeep(r)
<1>1. r # NoOne
  BY NamesAssumption
<1>2. pool' = pool /\ position' = position /\ unstakes' = unstakes
  BY DEF rows
<1> QED
  BY <1>1, <1>2 DEF LocksKeep, RowsOf

LEMMA OwedStays ==
    ASSUME UNCHANGED rows
    PROVE  \A u, p : Pending(u, p)' = Pending(u, p) /\ OwedTo(u, p)' = OwedTo(u, p)
<1>1. \A u : RowsOf(u)' = RowsOf(u)
  BY DEF rows, RowsOf
<1> QED
  BY <1>1, RowsKept

\* What a step of q that writes no row leaves behind.
Reads(q) ==
    /\ TypeOK' /\ TxTyped' /\ UNCHANGED <<clock, rows>>
    /\ \A r \in Requests \ {q} : pc'[r] = pc[r] /\ tx'[r] = tx[r] /\ LocksKeep(r)
    /\ pc[q] # "done"
    /\ Running(q)' => Knows(q)'

\* The request has begun.
LEMMA BegunKnows ==
    ASSUME TypeOK, TxTyped, NEW q \in Requests, NEW kind \in Kind,
           NEW u \in Users \cup {NoOne}, NEW p \in Pools \cup {NoOne},
           NEW a \in Amounts \cup AuditKeys \cup {0},
           kind = "admin" \/ u \in Users,
           IF kind = "sync" THEN p = NoOne ELSE p \in Pools,
           kind \in {"stake", "unstake"} => a \in Amounts,
           Begin(q, kind, u, p, a)
    PROVE  Reads(q)
<1> DEFINE s == [kind |-> kind, user |-> u, pool |-> p, amount |-> a, now |-> clock,
                 todo |-> {}, paid |-> {}, credit |-> [r \in Pools |-> 0],
                 row |-> NoOne, pos |-> NoOne, busy |-> FALSE]
<1>1. /\ pc[q] = "new" /\ tx' = [tx EXCEPT ![q] = s]
      /\ pc' = [pc EXCEPT ![q] = IF kind = "admin" THEN "pool" ELSE "user"]
      /\ UNCHANGED <<clock, rows, userLock, poolLock>>
  BY DEF Begin
<1>2. clock \in Nat /\ tx \in [Requests -> Tx \cup {NoOne}] /\ pc \in [Requests -> PC]
  BY DEF TypeOK, TxTyped
<1>3. s \in Tx
  BY <1>2 DEF Tx
<1>4. tx'[q] = s /\ TxTyped'
  BY <1>1, <1>2, <1>3 DEF TxTyped
<1>5. TypeOK'
  <2>1. pc' \in [Requests -> PC]
    BY <1>1, <1>2 DEF PC
  <2> QED
    BY <1>1, <2>1 DEF TypeOK, rows
<1>6. \A r \in Requests \ {q} : pc'[r] = pc[r] /\ tx'[r] = tx[r] /\ LocksKeep(r)
  BY <1>1, <1>2, LocksStay
<1>7. /\ s.kind = kind /\ s.user = u /\ s.pool = p /\ s.amount = a /\ s.now = clock
      /\ s.todo = {} /\ s.paid = {} /\ s.credit = [r \in Pools |-> 0]
  OBVIOUS
<1>8. pc'[q] = IF kind = "admin" THEN "pool" ELSE "user"
  BY <1>1, <1>2
<1> HIDE DEF s
<1>9. PaysWhatIsDue(tx[q])'
  BY <1>4, <1>7 DEF PaysWhatIsDue
<1>10. Asked(tx'[q])
  BY <1>4, <1>7 DEF Asked
<1>11. Knows(q)'
  BY <1>1, <1>2, <1>3, <1>4, <1>7, <1>8, <1>9, <1>10 DEF Knows, OwnsPool, Kind
<1> QED
  BY <1>1, <1>4, <1>5, <1>6, <1>11 DEF Reads

\* It has its user's lock, and what has matured.
LEMMA UserLockKnows ==
    ASSUME TypeOK, TxTyped, NEW q \in Requests, Knows(q), TakeUserLock(q)
    PROVE  Reads(q)
<1> DEFINE t == tx[q]
           found == {x \in unstakes : /\ x.user = t.user /\ x.status = "PENDING"
                                     /\ x.due <= t.now}
           s == [t EXCEPT !.todo = found]
<1>1. /\ pc[q] = "user" /\ userLock[t.user] = NoOne
      /\ userLock' = [userLock EXCEPT ![t.user] = q]
      /\ tx' = [tx EXCEPT ![q].todo = found]
      /\ pc' = [pc EXCEPT ![q] = Matured(t, found)]
      /\ UNCHANGED <<clock, rows, poolLock>>
  BY DEF TakeUserLock
<1>2. /\ tx \in [Requests -> Tx \cup {NoOne}] /\ pc \in [Requests -> PC]
      /\ userLock \in [Users -> Requests \cup {NoOne}] /\ unstakes \subseteq UnstakeRow
  BY DEF TypeOK, TxTyped
<1>3. /\ t \in Tx /\ Asked(t) /\ t.now <= clock /\ PaysWhatIsDue(t)
      /\ t.kind # "admin" /\ t.todo = {} /\ t.paid = {} /\ t.user \in Users
  BY <1>1 DEF Knows, Asked
<1>4. s \in Tx
  <2>1. found \in SUBSET UnstakeRow
    BY <1>2
  <2> HIDE DEF found
  <2> QED
    BY <1>3, <2>1 DEF Tx
<1>5. tx'[q] = s /\ TxTyped'
  <2>1. tx' = [tx EXCEPT ![q] = s]
    BY <1>1
  <2> HIDE DEF s
  <2> QED
    BY <1>2, <1>4, <2>1 DEF TxTyped
<1>6. /\ s.kind = t.kind /\ s.user = t.user /\ s.pool = t.pool /\ s.amount = t.amount
      /\ s.now = t.now /\ s.todo = found /\ s.paid = {} /\ s.credit = t.credit
  BY <1>3 DEF Tx
<1>7. /\ pc'[q] = Matured(t, found) /\ pc'[q] \in PC /\ pc'[q] \notin {"user", "new"}
      /\ pc'[q] = "pool" => t.kind # "sync"
      /\ pc'[q] = "write" => t.kind = "sync"
  BY <1>1, <1>2 DEF Matured, PC
<1>8. userLock'[t.user] = q
  BY <1>1, <1>2, <1>3
<1>9. TypeOK'
  <2>1. pc' \in [Requests -> PC]
    <3>1. Matured(t, found) \in PC
      BY <1>7
    <3> QED
      BY <1>1, <1>2, <3>1
  <2>2. userLock' \in [Users -> Requests \cup {NoOne}]
    BY <1>1, <1>2
  <2> QED
    BY <1>1, <2>1, <2>2 DEF TypeOK, rows
<1>10. \A r \in Requests \ {q} : pc'[r] = pc[r] /\ tx'[r] = tx[r] /\ LocksKeep(r)
  <2>1. /\ \A u \in Users : userLock[u] \in {NoOne, q} \/ userLock'[u] = userLock[u]
        /\ poolLock' = poolLock /\ UNCHANGED rows
    BY <1>1, <1>2
  <2>2. \A r \in Requests \ {q} : LocksKeep(r)
    BY <2>1, LocksStay
  <2> QED
    BY <1>1, <1>2, <2>2
<1>11. PaysWhatIsDue(tx[q])'
  <2>1. \A p \in Pools : t.credit[p] = 0
    BY <1>3 DEF PaysWhatIsDue
  <2>2. unstakes' = unstakes
    BY <1>1 DEF rows
  <2>3. \A x \in found : /\ x \in unstakes /\ x.user = t.user /\ x.status = "PENDING"
                         /\ x.due <= t.now
    OBVIOUS
  <2> HIDE DEF s, found, t
  <2> QED
    BY <1>5, <1>6, <2>1, <2>2, <2>3 DEF PaysWhatIsDue
<1>12. Asked(s)
  BY <1>3, <1>6 DEF Asked
<1>13. Knows(q)'
  <2>1. clock' = clock
    BY <1>1
  <2> HIDE DEF s, found, t
  <2> QED
    BY <1>3, <1>4, <1>5, <1>6, <1>7, <1>8, <1>11, <1>12, <2>1
       DEF Knows, OwnsPool, OwnsPosition
<1> QED
  BY <1>1, <1>5, <1>9, <1>10, <1>13 DEF Reads

\* It has the lock of the pool of x, and pays x; nobody else can have paid it.
LEMMA MatureKnows ==
    ASSUME TypeOK, TxTyped, OnePendingUnstake, NEW q \in Requests, Knows(q),
           NEW x \in tx[q].todo, Mature(q, x)
    PROVE  Reads(q)
<1> DEFINE t == tx[q]
           rest == t.todo \ {x}
           s == [t EXCEPT !.todo = rest, !.paid = @ \cup {x},
                          !.credit[x.pool] = @ + x.amount]
<1>1. /\ pc[q] = "mature"
      /\ pc' = [pc EXCEPT ![q] = Matured(t, rest)]
      /\ UNCHANGED <<clock, rows, userLock>>
  BY DEF Mature
<1>2. /\ tx \in [Requests -> Tx \cup {NoOne}] /\ pc \in [Requests -> PC]
      /\ poolLock \in [Pools -> Requests \cup {NoOne}] /\ unstakes \subseteq UnstakeRow
  BY DEF TypeOK, TxTyped
<1>3. /\ t \in Tx /\ Asked(t) /\ t.now <= clock /\ PaysWhatIsDue(t)
      /\ t.kind # "admin" /\ t.user \in Users /\ userLock[t.user] = q
      /\ \A y \in t.paid : poolLock[y.pool] = q
  BY <1>1 DEF Knows, Asked
<1>4. /\ x \in unstakes /\ x.user = t.user /\ x.status = "PENDING" /\ x.due <= t.now
      /\ x \in UnstakeRow /\ x.pool \in Pools /\ x.amount \in Nat /\ x \notin t.paid
  <2>1. x \in unstakes /\ x.user = t.user /\ x.status = "PENDING" /\ x.due <= t.now
        /\ x \notin t.paid
    BY <1>3 DEF PaysWhatIsDue
  <2> QED
    BY <1>2, <2>1 DEF UnstakeRow
<1>5. /\ MayLock(q, x.pool)
      /\ poolLock' = [poolLock EXCEPT ![x.pool] = q]
      /\ tx' = [tx EXCEPT ![q].todo = rest, ![q].paid = @ \cup {x},
                          ![q].credit[x.pool] = @ + x.amount]
  BY <1>4 DEF Mature
<1>6. /\ s.kind = t.kind /\ s.user = t.user /\ s.pool = t.pool /\ s.amount = t.amount
      /\ s.now = t.now /\ s.todo = rest /\ s.paid = t.paid \cup {x}
      /\ s.credit = [t.credit EXCEPT ![x.pool] = @ + x.amount]
  BY <1>3 DEF Tx
<1>7. s \in Tx
  <2> DEFINE more == [t.credit EXCEPT ![x.pool] = @ + x.amount]
             paid == t.paid \cup {x}
  <2>1. rest \in SUBSET UnstakeRow /\ paid \in SUBSET UnstakeRow
    BY <1>3, <1>4 DEF Tx
  <2>2. more \in [Pools -> Nat]
    <3>1. t.credit \in [Pools -> Nat]
      BY <1>3 DEF Tx
    <3>2. t.credit[x.pool] + x.amount \in Nat
      BY <1>4, <3>1
    <3> QED
      BY <3>1, <3>2
  <2>3. s = [t EXCEPT !.todo = rest, !.paid = paid, !.credit = more]
    BY <1>3 DEF Tx
  <2> HIDE DEF rest, more, paid, s, t
  <2> QED
    BY <1>3, <2>1, <2>2, <2>3 DEF Tx
<1>8. tx'[q] = s /\ TxTyped' /\ \A r \in Requests \ {q} : tx'[r] = tx[r]
  <2>1. tx' = [tx EXCEPT ![q] = s]
    BY <1>5
  <2> HIDE DEF s
  <2> QED
    BY <1>2, <1>7, <2>1 DEF TxTyped
<1>9. /\ pc'[q] = Matured(t, rest) /\ pc'[q] \in PC /\ pc'[q] \notin {"user", "new"}
      /\ pc'[q] = "pool" => t.kind # "sync"
      /\ pc'[q] = "write" => t.kind = "sync"
  BY <1>1, <1>2 DEF Matured, PC
<1>10. TypeOK'
  <2>1. pc' \in [Requests -> PC]
    <3>1. Matured(t, rest) \in PC
      BY <1>9
    <3> QED
      BY <1>1, <1>2, <3>1
  <2>2. poolLock' \in [Pools -> Requests \cup {NoOne}]
    BY <1>2, <1>4, <1>5
  <2> QED
    BY <1>1, <2>1, <2>2 DEF TypeOK, rows
<1>11. \A r \in Requests \ {q} : pc'[r] = pc[r] /\ tx'[r] = tx[r] /\ LocksKeep(r)
  <2>1. /\ \A p \in Pools : poolLock[p] \in {NoOne, q} \/ poolLock'[p] = poolLock[p]
        /\ userLock' = userLock /\ UNCHANGED rows
    BY <1>1, <1>2, <1>4, <1>5 DEF MayLock
  <2>2. \A r \in Requests \ {q} : LocksKeep(r)
    BY <2>1, LocksStay
  <2> QED
    BY <1>1, <1>2, <1>8, <2>2
<1>12. \A p \in Pools : s.credit[p] = IF \E y \in s.paid : y.pool = p
                                      THEN OwedTo(t.user, p) ELSE 0
  <2> SUFFICES ASSUME NEW p \in Pools
               PROVE  s.credit[p] = IF \E y \in s.paid : y.pool = p
                                    THEN OwedTo(t.user, p) ELSE 0
    OBVIOUS
  <2>0. /\ t.credit[p] = IF \E y \in t.paid : y.pool = p THEN OwedTo(t.user, p) ELSE 0
        /\ t.credit \in [Pools -> Nat]
    BY <1>3 DEF PaysWhatIsDue, Tx
  <2>1. CASE p # x.pool
    <3>1. s.credit[p] = t.credit[p]
      BY <1>6, <2>0, <2>1
    <3>2. (\E y \in s.paid : y.pool = p) <=> \E y \in t.paid : y.pool = p
      BY <1>6, <2>1
    <3> QED
      BY <2>0, <3>1, <3>2
  <2>2. CASE p = x.pool
    <3>1. x \in Pending(t.user, p)
      BY <1>4, <2>2 DEF Pending
    <3>2. Pending(t.user, p) = {x} /\ OwedTo(t.user, p) = x.amount
      BY <1>3, <3>1, OwedIs
    <3>3. ~ \E y \in t.paid : y.pool = p
      <4> SUFFICES ASSUME NEW y \in t.paid, y.pool = p
                   PROVE  FALSE
        OBVIOUS
      <4>1. y \in Pending(t.user, p)
        BY <1>3 DEF PaysWhatIsDue, Pending
      <4> QED
        BY <1>4, <3>2, <4>1
    <3>4. s.credit[p] = t.credit[p] + x.amount /\ t.credit[p] = 0
      BY <1>6, <2>0, <2>2, <3>3
    <3>5. \E y \in s.paid : y.pool = p
      BY <1>6, <2>2
    <3> HIDE DEF s, t
    <3> QED
      BY <1>4, <3>2, <3>4, <3>5
  <2> QED
    BY <2>1, <2>2
<1>13. PaysWhatIsDue(tx[q])'
  <2>1. unstakes' = unstakes /\ \A u, p : OwedTo(u, p)' = OwedTo(u, p)
    BY <1>1, OwedStays DEF rows
  <2>2. /\ \A y \in s.todo \cup s.paid :
               y \in unstakes' /\ y.user = t.user /\ y.status = "PENDING" /\ y.due <= t.now
        /\ s.todo \cap s.paid = {}
    BY <1>3, <1>4, <1>6, <2>1 DEF PaysWhatIsDue
  <2> QED
    BY <1>6, <1>8, <1>12, <2>1, <2>2 DEF PaysWhatIsDue
<1>14. Asked(s)
  BY <1>3, <1>6 DEF Asked
<1>15. \A y \in s.paid : poolLock'[y.pool] = q
  <2>1. \A y \in t.paid : y.pool \in Pools
    BY <1>3 DEF Tx, UnstakeRow
  <2> HIDE DEF s, t
  <2> QED
    BY <1>2, <1>3, <1>4, <1>5, <1>6, <2>1
<1>16. Knows(q)'
  <2>1. clock' = clock /\ userLock' = userLock
    BY <1>1
  <2> HIDE DEF s, rest, t
  <2> QED
    BY <1>3, <1>6, <1>7, <1>8, <1>9, <1>13, <1>14, <1>15, <2>1
       DEF Knows, OwnsPool, OwnsPosition
<1> QED
  BY <1>1, <1>8, <1>10, <1>11, <1>16 DEF Reads

\* It has the pool's lock and reads the pool, and under its user's lock the
\* position and the withdrawals under way.
LEMMA PoolLockKnows ==
    ASSUME TypeOK, TxTyped, NEW q \in Requests, Knows(q), LockPool(q)
    PROVE  Reads(q)
<1> DEFINE t == tx[q]
           row == pool[t.pool]
           pos == IF t.kind = "admin" THEN NoOne ELSE position[t.user][t.pool]
           busy == t.kind # "admin" /\ Pending(t.user, t.pool) \ t.paid # {}
           s == [t EXCEPT !.row = row, !.pos = pos, !.busy = busy]
<1>1. /\ pc[q] = "pool" /\ MayLock(q, t.pool)
      /\ poolLock' = [poolLock EXCEPT ![t.pool] = q]
      /\ tx' = [tx EXCEPT ![q].row = row, ![q].pos = pos, ![q].busy = busy]
      /\ pc' = [pc EXCEPT ![q] = "write"]
      /\ UNCHANGED <<clock, rows, userLock>>
  BY DEF LockPool
<1>2. /\ tx \in [Requests -> Tx \cup {NoOne}] /\ pc \in [Requests -> PC]
      /\ poolLock \in [Pools -> Requests \cup {NoOne}] /\ pool \in [Pools -> PoolRow]
      /\ position \in [Users -> [Pools -> PositionRow]]
  BY DEF TypeOK, TxTyped
<1>3. /\ t \in Tx /\ Asked(t) /\ t.now <= clock /\ PaysWhatIsDue(t) /\ t.kind # "sync"
      /\ t.pool \in Pools
      /\ t.kind # "admin" => t.user \in Users /\ userLock[t.user] = q
      /\ t.kind = "admin" => t.todo = {} /\ t.paid = {}
      /\ \A x \in t.paid : poolLock[x.pool] = q
  <2>1. /\ t \in Tx /\ Asked(t) /\ t.now <= clock /\ PaysWhatIsDue(t)
        /\ t.kind # "sync"
        /\ t.kind # "admin" => userLock[t.user] = q
        /\ t.kind = "admin" => t.todo = {} /\ t.paid = {}
        /\ \A x \in t.paid : poolLock[x.pool] = q
    BY <1>1 DEF Knows, OwnsPool
  <2> QED
    BY <2>1 DEF Asked
<1>4. s \in Tx
  <2>1. row \in PoolRow \cup {NoOne} /\ pos \in PositionRow \cup {NoOne}
    BY <1>2, <1>3
  <2>2. busy \in BOOLEAN
    OBVIOUS
  <2> HIDE DEF row, pos, busy, t
  <2> QED
    BY <1>3, <2>1, <2>2 DEF Tx
<1>5. tx'[q] = s /\ TxTyped' /\ \A r \in Requests \ {q} : tx'[r] = tx[r]
  <2>1. tx' = [tx EXCEPT ![q] = s]
    BY <1>1
  <2> HIDE DEF s
  <2> QED
    BY <1>2, <1>4, <2>1 DEF TxTyped
<1>6. /\ s.kind = t.kind /\ s.user = t.user /\ s.pool = t.pool /\ s.amount = t.amount
      /\ s.now = t.now /\ s.todo = t.todo /\ s.paid = t.paid /\ s.credit = t.credit
      /\ s.row = row /\ s.pos = pos /\ s.busy = busy
  <2> HIDE DEF row, pos, busy, t
  <2> QED
    BY <1>3 DEF Tx
<1>7. pc'[q] = "write" /\ \A r \in Requests \ {q} : pc'[r] = pc[r]
  BY <1>1, <1>2
<1>8. TypeOK'
  <2>1. pc' \in [Requests -> PC]
    BY <1>1, <1>2 DEF PC
  <2>2. poolLock' \in [Pools -> Requests \cup {NoOne}]
    BY <1>1, <1>2
  <2> QED
    BY <1>1, <2>1, <2>2 DEF TypeOK, rows
<1>9. \A r \in Requests \ {q} : LocksKeep(r)
  <2>1. /\ \A p \in Pools : poolLock[p] \in {NoOne, q} \/ poolLock'[p] = poolLock[p]
        /\ userLock' = userLock /\ UNCHANGED rows
    BY <1>1, <1>2 DEF MayLock
  <2> QED
    BY <2>1, LocksStay
<1>10. /\ \A u, p : Pending(u, p)' = Pending(u, p) /\ OwedTo(u, p)' = OwedTo(u, p)
       /\ unstakes' = unstakes /\ pool' = pool /\ position' = position
       /\ clock' = clock /\ userLock' = userLock
  BY <1>1, OwedStays DEF rows
<1>11. PaysWhatIsDue(tx[q])'
  <2>1. /\ \A x \in t.todo \cup t.paid :
               x \in unstakes /\ x.user = t.user /\ x.status = "PENDING" /\ x.due <= t.now
        /\ t.todo \cap t.paid = {}
        /\ \A p \in Pools :
               t.credit[p] = IF \E x \in t.paid : x.pool = p THEN OwedTo(t.user, p) ELSE 0
    BY <1>3 DEF PaysWhatIsDue
  <2> HIDE DEF s, t
  <2> QED
    BY <1>5, <1>6, <1>10, <2>1 DEF PaysWhatIsDue
<1>12. Asked(s)
  BY <1>3, <1>6 DEF Asked
<1>13. (\A x \in s.paid : poolLock'[x.pool] = q) /\ poolLock'[s.pool] = q
  <2>1. \A x \in t.paid : x.pool \in Pools
    BY <1>3 DEF Tx, UnstakeRow
  <2> HIDE DEF s, t
  <2> QED
    BY <1>1, <1>2, <1>3, <1>6, <2>1
<1>14. s.row = pool'[s.pool]
  BY <1>6, <1>10
<1>15. OwnsPosition(s) =>
          /\ s.pos = position'[s.user][s.pool]
          /\ s.busy <=> Pending(s.user, s.pool) \ s.paid # {}
  BY <1>6, <1>10 DEF OwnsPosition
<1>16. Knows(q)'
  <2>1. /\ s.kind # "admin" => userLock'[s.user] = q
        /\ s.kind = "admin" => s.todo = {} /\ s.paid = {}
        /\ s.now <= clock'
    BY <1>3, <1>6, <1>10
  <2>2. OwnsPosition(s) =>
          /\ s.pos = position'[s.user][s.pool]
          /\ s.busy <=> Pending(tx[q].user, tx[q].pool)' \ s.paid # {}
    BY <1>5, <1>10, <1>15
  <2> HIDE DEF s, t
  <2> QED
    BY <1>4, <1>5, <1>7, <1>11, <1>12, <1>13, <1>14, <2>1, <2>2
       DEF Knows, OwnsPool, OwnsPosition
<1> QED
  BY <1>1, <1>5, <1>7, <1>8, <1>9, <1>16 DEF Reads

-----------------------------------------------------------------------------
(* The last step of a request.                                              *)

LEMMA Ended ==
    ASSUME TypeOK, TxTyped, NEW q \in Requests, EndRequest(q)
    PROVE  /\ pc' \in [Requests -> PC] /\ TxTyped' /\ clock' = clock /\ ~Running(q)'
           /\ userLock' \in [Users -> Requests \cup {NoOne}]
           /\ poolLock' \in [Pools -> Requests \cup {NoOne}]
           /\ \A r \in Requests : pc[r] = "done" => pc'[r] = "done"
           /\ \A r \in Requests \ {q} :
                 /\ pc'[r] = pc[r] /\ tx'[r] = tx[r]
                 /\ \A u \in Users : userLock[u] = r => userLock'[u] = r
                 /\ \A p \in Pools : poolLock[p] = r => poolLock'[p] = r
<1>1. /\ tx \in [Requests -> Tx \cup {NoOne}] /\ pc \in [Requests -> PC]
      /\ userLock \in [Users -> Requests \cup {NoOne}]
      /\ poolLock \in [Pools -> Requests \cup {NoOne}]
  BY DEF TypeOK, TxTyped
<1>2. /\ pc' = [pc EXCEPT ![q] = "done"] /\ tx' = [tx EXCEPT ![q] = NoOne]
      /\ userLock' = [u \in Users |-> IF userLock[u] = q THEN NoOne ELSE userLock[u]]
      /\ poolLock' = [p \in Pools |-> IF poolLock[p] = q THEN NoOne ELSE poolLock[p]]
      /\ clock' = clock
  BY DEF EndRequest
<1>3. TxTyped'
  BY <1>1, <1>2 DEF TxTyped
<1>4. pc' \in [Requests -> PC] /\ pc'[q] = "done" /\ ~Running(q)'
  BY <1>1, <1>2 DEF PC, Running
<1>5. \A r \in Requests : pc[r] = "done" => pc'[r] = "done"
  BY <1>1, <1>2, <1>4
<1>6. /\ userLock' \in [Users -> Requests \cup {NoOne}]
      /\ poolLock' \in [Pools -> Requests \cup {NoOne}]
  BY <1>1, <1>2
<1>7. \A r \in Requests \ {q} :
          /\ pc'[r] = pc[r] /\ tx'[r] = tx[r]
          /\ \A u \in Users : userLock[u] = r => userLock'[u] = r
          /\ \A p \in Pools : poolLock[p] = r => poolLock'[p] = r
  BY <1>1, <1>2
<1> QED
  BY <1>2, <1>3, <1>4, <1>5, <1>6, <1>7

\* It fails, and leaves every row as it was.
LEMMA FailureInductive ==
    ASSUME IInv, NEW q \in Requests, EndRequest(q), UNCHANGED rows
    PROVE  IInv'
<1>1. TypeOK /\ TxTyped /\ RequestsKnow
  BY DEF IInv
<1>2. TypeOK'
  BY <1>1, Ended DEF TypeOK, rows
<1>3. clock \in Nat /\ clock' \in Nat /\ clock <= clock'
  BY <1>1, Ended DEF TypeOK
<1>4. \A r \in Requests \ {q} : pc'[r] = pc[r] /\ tx'[r] = tx[r] /\ LocksKeep(r)
  BY <1>1, Ended DEF LocksKeep, RowsOf, rows
<1>5. ~Running(q)'
  BY <1>1, Ended
<1>6. RequestsKnow'
  BY <1>1, <1>3, <1>4, <1>5, OthersStay
<1>7. /\ RowsNamed' /\ EntriesNamed' /\ AuditRows' /\ OnePendingUnstake'
      /\ UnstakePaidOnce' /\ MoneyConserved' /\ PoolMatchesPositions'
  <2>1. \A r \in Requests : pc[r] = "done" => pc'[r] = "done"
    BY <1>1, Ended
  <2> QED
    BY <1>1, <1>3, <2>1, RowsStay DEF IInv
<1>8. TxTyped'
  BY <1>1, Ended
<1> QED
  BY <1>2, <1>6, <1>7, <1>8 DEF IInv

\* What a commit writes is behind the locks of the request that commits.
LEMMA EffectKeeps ==
    ASSUME TypeOK, TxTyped, NEW q \in Requests, Knows(q), NEW a, NEW c, NEW w,
           Effect(q, a, c, w)
    PROVE  TypeOK' /\ \A r \in Requests \ {q} : LocksKeep(r)
<1> DEFINE t == tx[q]
<1>1. /\ pc[q] = "write" /\ t.kind # "admin" /\ EndRequest(q)
      /\ PositionsMove(t, a, c) /\ PoolsMove(t, a, c) /\ WalletsMove(t, c - a - w)
  BY DEF Effect
<1>2. unstakes' \subseteq UnstakeRow
  <2> SUFFICES ASSUME NEW y \in unstakes'
               PROVE  y \in UnstakeRow
    OBVIOUS
  <2>1. CASE y \in unstakes \ t.paid
    BY <2>1 DEF TypeOK
  <2>2. ASSUME NEW x \in t.paid, y = [x EXCEPT !.status = "COMPLETED"]
        PROVE  y \in UnstakeRow
    BY <2>2, RowsAfter DEF UnstakeRow
  <2>3. CASE w > 0 /\ y = NewUnstake(q, w)
    BY <2>3, RowsAfter
  <2> QED
    BY <2>1, <2>2, <2>3, RowsAfter
<1>3. TypeOK'
  BY <1>1, <1>2, Ended DEF TypeOK, PositionsMove, PoolsMove, WalletsMove
<1>4. ASSUME NEW r \in Requests \ {q}
      PROVE  LocksKeep(r)
  <2>1. userLock[t.user] = q /\ t.user \in Users
    BY <1>1 DEF Knows, Asked
  <2>2. t.pool \in Pools => poolLock[t.pool] = q
    BY <1>1, NamesAssumption DEF Knows, Asked, OwnsPool
  <2>3. ASSUME NEW u \in Users, userLock[u] = r
        PROVE  userLock'[u] = r /\ RowsOf(u)' = RowsOf(u) /\ position'[u] = position[u]
    <3>1. u # t.user
      BY <2>1, <2>3
    <3>2. \A x \in t.paid : x.user = t.user /\ x \in UnstakeRow
      BY RowsAfter
    <3>3. ASSUME NEW x \in RowsOf(u) PROVE x \in RowsOf(u)'
      BY <3>1, <3>2, RowsAfter DEF RowsOf
    <3>4. ASSUME NEW y \in RowsOf(u)' PROVE y \in RowsOf(u)
      <4>1. y \in unstakes' /\ y.user = u
        BY DEF RowsOf
      <4>2. ASSUME NEW x \in t.paid, y = [x EXCEPT !.status = "COMPLETED"]
            PROVE  FALSE
        BY <3>1, <3>2, <4>1, <4>2 DEF UnstakeRow
      <4>3. y # NewUnstake(q, w)
        BY <3>1, <4>1 DEF NewUnstake
      <4>4. y \in unstakes
        BY <4>1, <4>2, <4>3, RowsAfter
      <4> QED
        BY <4>1, <4>4 DEF RowsOf
    <3>5. position'[u] = position[u]
      BY <1>1, <3>1 DEF PositionsMove
    <3>6. userLock'[u] = r
      BY <1>1, <2>3, Ended
    <3>7. RowsOf(u)' = RowsOf(u)
      <4> DEFINE A == RowsOf(u)
                 B == RowsOf(u)'
      <4>1. A \subseteq B /\ B \subseteq A
        BY <3>3, <3>4
      <4> HIDE DEF A, B
      <4>2. A = B
        BY <4>1
      <4> QED
        BY <4>2 DEF A, B
    <3> QED
      BY <3>5, <3>6, <3>7
  <2>4. ASSUME NEW p \in Pools, poolLock[p] = r
        PROVE  poolLock'[p] = r /\ pool'[p] = pool[p]
    <3>1. p # t.pool
      BY <2>2, <2>4
    <3> QED
      BY <1>1, <2>4, <3>1, Ended DEF PoolsMove
  <2> QED
    BY <2>3, <2>4 DEF LocksKeep
<1> QED
  BY <1>3, <1>4

LEMMA UserCommitInductive ==
    ASSUME IInv, NEW q \in Requests, Knows(q), NEW a, NEW c, NEW w, Effect(q, a, c, w)
    PROVE  IInv'
<1>1. /\ TypeOK /\ TxTyped /\ RequestsKnow /\ RowsNamed /\ EntriesNamed /\ AuditRows
      /\ OnePendingUnstake /\ UnstakePaidOnce /\ MoneyConserved /\ PoolMatchesPositions
  BY DEF IInv
<1>2. EndRequest(q) /\ UNCHANGED audit
  BY DEF Effect
<1>3. TypeOK' /\ \A r \in Requests \ {q} : LocksKeep(r)
  BY <1>1, EffectKeeps
<1>4. TxTyped' /\ RequestsKnow'
  <2>1. clock' \in Nat /\ clock <= clock'
    BY <1>1, <1>2, Ended DEF TypeOK
  <2>2. /\ TxTyped' /\ ~Running(q)'
        /\ \A r \in Requests \ {q} : pc'[r] = pc[r] /\ tx'[r] = tx[r]
    BY <1>1, <1>2, Ended
  <2> QED
    BY <1>1, <1>3, <2>1, <2>2, OthersStay
<1>5. RowsNamed'
  BY <1>1, RowsNamedAfter
<1>6. EntriesNamed'
  BY <1>1, EntriesNamedAfter
<1>7. AuditRows'
  BY <1>1, <1>2 DEF AuditRows
<1>8. OnePendingUnstake'
  BY <1>1, OnePendingAfter
<1>9. UnstakePaidOnce'
  BY <1>1, PaidOnceAfter
<1>10. MoneyConserved'
  BY <1>1, <1>3, MoneyAfter
<1>11. PoolMatchesPositions'
  BY <1>1, PoolAfter
<1> QED
  BY <1>3, <1>4, <1>5, <1>6, <1>7, <1>8, <1>9, <1>10, <1>11 DEF IInv

LEMMA AdminCommitInductive ==
    ASSUME IInv, NEW q \in Requests, Knows(q), CommitAdmin(q)
    PROVE  IInv'
<1> DEFINE t == tx[q]
<1>1. /\ TypeOK /\ TxTyped /\ RequestsKnow /\ RowsNamed /\ EntriesNamed /\ AuditRows
      /\ OnePendingUnstake /\ UnstakePaidOnce /\ MoneyConserved /\ PoolMatchesPositions
  BY DEF IInv
<1>2. /\ pc[q] = "write" /\ t.kind = "admin" /\ EndRequest(q) /\ t.pool \in Pools
      /\ UNCHANGED <<position, unstakes, wallet, ledger>>
      /\ pool' \in [Pools -> PoolRow] /\ \A p \in Pools : p # t.pool => pool'[p] = pool[p]
  BY <1>1, AdminEffect
<1>3. poolLock[t.pool] = q
  BY <1>2 DEF Knows, OwnsPool
<1>4. TypeOK'
  BY <1>1, <1>2, Ended DEF TypeOK
<1>5. clock' = clock /\ clock \in Nat
  BY <1>1, <1>2, Ended DEF TypeOK
<1>6. RequestsKnow' /\ TxTyped'
  <2>1. \A r \in Requests \ {q} : LocksKeep(r)
    BY <1>1, <1>2, <1>3, Ended DEF LocksKeep, RowsOf
  <2>2. /\ TxTyped' /\ ~Running(q)'
        /\ \A r \in Requests \ {q} : pc'[r] = pc[r] /\ tx'[r] = tx[r]
    BY <1>1, <1>2, Ended
  <2>3. clock' \in Nat /\ clock <= clock'
    BY <1>5
  <2> QED
    BY <1>1, <2>1, <2>2, <2>3, OthersStay
<1>7. RowsNamed' /\ EntriesNamed'
  <2>1. \A r \in Requests : pc[r] = "done" => pc'[r] = "done"
    BY <1>1, <1>2, Ended
  <2> QED
    BY <1>1, <1>2, <2>1 DEF RowsNamed, EntriesNamed, TypeOK, UnstakeRow
<1>8. OnePendingUnstake'
  BY <1>1, <1>2 DEF OnePendingUnstake, Pending
<1>9. UnstakePaidOnce'
  BY <1>1, <1>2, <1>5 DEF UnstakePaidOnce, Recorded
<1>10. MoneyConserved'
  <2>1. \A u, p : RowsOf(u)' = RowsOf(u) /\ OpeningOf(u, p)' = OpeningOf(u, p)
    BY <1>2 DEF RowsOf, OpeningOf
  <2>2. \A u, p : OwedTo(u, p)' = OwedTo(u, p)
    BY <2>1, RowsKept
  <2> QED
    BY <1>1, <1>2, <2>1, <2>2 DEF MoneyConserved
<1>11. PoolMatchesPositions' /\ AuditRows'
  BY <1>1, PoolAdmin
<1> QED
  BY <1>4, <1>6, <1>7, <1>8, <1>9, <1>10, <1>11 DEF IInv

-----------------------------------------------------------------------------
(* At first.                                                                *)

\* A user has at most one of the withdrawals there are at first.
LEMMA InitialRows ==
    ASSUME Init
    PROVE  /\ \A x \in unstakes : /\ x \in UnstakeRow /\ x.id = Opening /\ x.status = "PENDING"
                                  /\ x.amount = OpeningStake
           /\ \A x, y \in unstakes : x.user = y.user => x = y
<1> DEFINE RowOf(x) == [id |-> Opening, user |-> x[1], pool |-> x[2],
                        amount |-> OpeningStake, due |-> 1, status |-> "PENDING"]
<1>1. PICK asked \in SUBSET (Users \X Pools) :
          /\ \A x, y \in asked : x[1] = y[1] => x = y
          /\ unstakes = {RowOf(x) : x \in asked}
  BY DEF Init
<1>2. \A x \in asked :
          /\ RowOf(x).user = x[1] /\ RowOf(x).id = Opening /\ RowOf(x).status = "PENDING"
          /\ RowOf(x).amount = OpeningStake /\ RowOf(x) \in UnstakeRow
  BY OpeningAssumption DEF UnstakeRow
<1> HIDE DEF RowOf
<1>3. \A y \in unstakes : \E x \in asked : y = RowOf(x)
  BY <1>1
<1> QED
  BY <1>1, <1>2, <1>3

LEMMA InitialMoney ==
    ASSUME Init
    PROVE  OnePendingUnstake /\ MoneyConserved
<1>1. OnePendingUnstake
  BY InitialRows DEF OnePendingUnstake, Pending
<1>2. ASSUME NEW u \in Users, NEW p \in Pools
      PROVE  wallet[u][p] + position[u][p].principal + OwedTo(u, p)
               = OpeningOf(u, p) + position[u][p].claimed
  <2>1. /\ wallet[u][p] = OpeningBalance /\ position[u][p].principal = OpeningStake
        /\ position[u][p].claimed = 0
    BY DEF Init
  <2>2. CASE \E x \in unstakes : x.id = Opening /\ x.user = u /\ x.pool = p
    <3>1. PICK x \in unstakes : x.id = Opening /\ x.user = u /\ x.pool = p
      BY <2>2
    <3>2. Pending(u, p) # {} /\ \A y \in Pending(u, p) : y.amount = OpeningStake
      BY <3>1, InitialRows DEF Pending
    <3>3. OwedTo(u, p) = OpeningStake
      BY <3>2 DEF OwedTo
    <3>4. OpeningOf(u, p) = OpeningBalance + OpeningStake + OpeningStake
      BY <2>2 DEF OpeningOf
    <3> QED
      BY <2>1, <3>3, <3>4, OpeningAssumption
  <2>3. CASE ~ \E x \in unstakes : x.id = Opening /\ x.user = u /\ x.pool = p
    <3>1. Pending(u, p) = {}
      BY <2>3, InitialRows DEF Pending
    <3>2. OwedTo(u, p) = 0
      BY <3>1 DEF OwedTo
    <3>3. OpeningOf(u, p) = OpeningBalance + OpeningStake + 0
      BY <2>3 DEF OpeningOf
    <3> QED
      BY <2>1, <3>2, <3>3, OpeningAssumption
  <2> QED
    BY <2>2, <2>3
<1> QED
  BY <1>1, <1>2 DEF MoneyConserved

LEMMA InitialPools ==
    ASSUME Init
    PROVE  PoolMatchesPositions
<1> SUFFICES ASSUME NEW p \in Pools
             PROVE  PoolMatches(p)
  BY MatchesByPool
<1> DEFINE f == Principals(position, p)
           h == Claims(position, p)
           d == DeltasOf(AuditOf(audit, p))
<1>1. /\ pool[p].staked = OpeningStake * Cardinality(Users)
      /\ pool[p].reserve = OpeningReserve /\ audit = {}
      /\ \A u \in Users : position[u][p].principal = OpeningStake /\ position[u][p].claimed = 0
  BY DEF Init
<1>2. /\ DOMAIN f = Users /\ \A u \in Users : f[u] = OpeningStake
      /\ DOMAIN h = Users /\ \A u \in Users : h[u] = 0
      /\ DOMAIN d = {}
  BY <1>1 DEF Principals, Claims, DeltasOf, AuditOf
<1> HIDE DEF f, h, d
<1>3. SumFunction(f) = OpeningStake * Cardinality(Users)
  <2>1. OpeningStake \in Int
    BY OpeningAssumption
  <2>2. SumFunctionOnSet(f, Users) = OpeningStake * Cardinality(Users)
    BY <1>2, <2>1, UsersAssumption, SumConstant
  <2> QED
    BY <1>2, <2>2 DEF SumFunction
<1>4. SumFunction(h) = 0
  BY <1>2, UsersAssumption, SumZero DEF SumFunction
<1>5. SumFunction(d) = 0
  BY <1>2, SumEmpty DEF SumFunction
<1>6. /\ pool[p].staked = SumFunction(f)
      /\ pool[p].reserve + SumFunction(h) = OpeningReserve + SumFunction(d)
  BY <1>1, <1>3, <1>4, <1>5, OpeningAssumption
<1> QED
  BY <1>6 DEF PoolMatches, f, h, d

LEMMA InitialInvariant == Init => IInv
<1> SUFFICES ASSUME Init PROVE IInv
  OBVIOUS
<1>1. TypeOK
  <2>1. Cardinality(Users) \in Nat
    BY UsersAssumption, FS_CardinalityType
  <2>2. OpeningStake * Cardinality(Users) \in Int
    BY <2>1, OpeningAssumption
  <2>3. PICK r \in Rates : pool = [p \in Pools |->
            [enabled |-> TRUE, rate |-> r, reserve |-> OpeningReserve,
             staked |-> OpeningStake * Cardinality(Users)]]
    BY DEF Init
  <2> DEFINE staked == OpeningStake * Cardinality(Users)
  <2>4. staked \in Int /\ r \in Nat /\ OpeningReserve \in Nat
    BY <2>2, RatesAssumption, OpeningAssumption
  <2>5. pool = [p \in Pools |-> [enabled |-> TRUE, rate |-> r, reserve |-> OpeningReserve,
                                 staked |-> staked]]
    BY <2>3
  <2> HIDE DEF staked
  <2>6. pool \in [Pools -> PoolRow]
    BY <2>4, <2>5 DEF PoolRow
  <2>7. position \in [Users -> [Pools -> PositionRow]]
    BY OpeningAssumption DEF Init, PositionRow
  <2>8. unstakes \subseteq UnstakeRow
    BY InitialRows
  <2>9. wallet \in [Users -> [Pools -> Nat]]
    BY OpeningAssumption DEF Init
  <2>10. /\ clock \in Nat /\ pc \in [Requests -> PC]
         /\ userLock \in [Users -> Requests \cup {NoOne}]
         /\ poolLock \in [Pools -> Requests \cup {NoOne}]
    BY DEF Init, PC
  <2> QED
    BY <2>6, <2>7, <2>8, <2>9, <2>10 DEF TypeOK
<1>2. TxTyped /\ RequestsKnow
  BY DEF Init, TxTyped, RequestsKnow, Running
<1>3. RowsNamed /\ EntriesNamed /\ UnstakePaidOnce
  <2>1. ledger = {}
    BY DEF Init
  <2> QED
    BY <2>1, InitialRows DEF RowsNamed, EntriesNamed, UnstakePaidOnce, Recorded
<1>4. AuditRows
  BY FS_EmptySet DEF Init, AuditRows
<1> QED
  BY <1>1, <1>2, <1>3, <1>4, InitialMoney, InitialPools DEF IInv

-----------------------------------------------------------------------------
(* Every step.                                                              *)

LEMMA ReadsInductive ==
    ASSUME IInv, NEW q \in Requests, Reads(q)
    PROVE  IInv'
<1>1. TypeOK' /\ TxTyped' /\ UNCHANGED <<clock, rows>>
  BY DEF Reads
<1>2. clock' \in Nat /\ clock <= clock'
  BY <1>1 DEF IInv, TypeOK
<1>3. RequestsKnow'
  BY <1>2, OthersStay DEF Reads, IInv
<1>4. \A r \in Requests : pc[r] = "done" => pc'[r] = "done"
  <2>1. pc \in [Requests -> PC] /\ pc' \in [Requests -> PC]
    BY <1>1 DEF IInv, TypeOK
  <2> QED
    BY <2>1 DEF Reads
<1> QED
  BY <1>1, <1>2, <1>3, <1>4, RowsStay DEF IInv

LEMMA BeginInductive ==
    ASSUME IInv, NEW q \in Requests, BeginUser(q) \/ BeginAdmin(q)
    PROVE  IInv'
<1>1. TypeOK /\ TxTyped
  BY DEF IInv
<1> SUFFICES Reads(q)
  BY ReadsInductive
<1>2. CASE BeginUser(q)
  <2>1. PICK u \in Users :
            \/ Begin(q, "sync", u, NoOne, 0)
            \/ \E p \in Pools : \/ Begin(q, "claim", u, p, 0)
                                \/ \E kind \in {"stake", "unstake"}, a \in Amounts :
                                      Begin(q, kind, u, p, a)
    BY <1>2 DEF BeginUser
  <2>2. CASE Begin(q, "sync", u, NoOne, 0)
    BY <1>1, <2>2, BegunKnows DEF Kind
  <2>3. ASSUME NEW p \in Pools, Begin(q, "claim", u, p, 0)
        PROVE  Reads(q)
    BY <1>1, <2>3, BegunKnows DEF Kind
  <2>4. ASSUME NEW p \in Pools, NEW kind \in {"stake", "unstake"}, NEW a \in Amounts,
               Begin(q, kind, u, p, a)
        PROVE  Reads(q)
    BY <1>1, <2>4, BegunKnows DEF Kind
  <2> QED
    BY <2>1, <2>2, <2>3, <2>4
<1>3. CASE BeginAdmin(q)
  <2>1. PICK k \in AuditKeys, p \in Pools : Begin(q, "admin", NoOne, p, k)
    BY <1>3 DEF BeginAdmin
  <2> QED
    BY <1>1, <2>1, BegunKnows DEF Kind
<1> QED
  BY <1>2, <1>3

LEMMA ProgressInductive ==
    ASSUME IInv, NEW q \in Requests, Progress(q)
    PROVE  IInv'
<1>1. TypeOK /\ TxTyped /\ RequestsKnow /\ OnePendingUnstake
  BY DEF IInv
<1>2. CASE TakeUserLock(q)
  <2>1. Knows(q)
    BY <1>1, <1>2 DEF TakeUserLock, RequestsKnow, Running
  <2> QED
    BY <1>1, <1>2, <2>1, UserLockKnows, ReadsInductive
<1>3. CASE pc[q] = "mature" /\ \E x \in tx[q].todo : Mature(q, x)
  <2>1. Knows(q)
    BY <1>1, <1>3 DEF RequestsKnow, Running
  <2> QED
    BY <1>1, <1>3, <2>1, MatureKnows, ReadsInductive
<1>4. CASE LockPool(q)
  <2>1. Knows(q)
    BY <1>1, <1>4 DEF LockPool, RequestsKnow, Running
  <2> QED
    BY <1>1, <1>4, <2>1, PoolLockKnows, ReadsInductive
<1>5. CASE Commit(q)
  <2>1. pc[q] = "write"
    BY <1>5 DEF Commit, CommitSync, CommitStake, CommitClaim, CommitUnstake, CommitAdmin,
                Commits
  <2>2. Knows(q)
    BY <1>1, <2>1 DEF RequestsKnow, Running
  <2>3. CASE tx[q].kind = "admin"
    <3>1. CommitAdmin(q)
      BY <1>5, <2>3 DEF Commit, CommitSync, CommitStake, CommitClaim, CommitUnstake, Commits
    <3> QED
      BY <2>2, <3>1, AdminCommitInductive
  <2>4. CASE tx[q].kind # "admin"
    BY <1>1, <1>5, <2>2, <2>4, UserEffect, UserCommitInductive
  <2> QED
    BY <2>3, <2>4
<1>6. CASE Reject(q)
  BY <1>6, FailureInductive DEF Reject
<1>7. CASE LockTimeout(q)
  BY <1>7, FailureInductive DEF LockTimeout
<1> QED
  BY <1>2, <1>3, <1>4, <1>5, <1>6, <1>7 DEF Progress

LEMMA TickInductive ==
    ASSUME IInv, UNCHANGED <<rows, pc, tx, userLock, poolLock>>, clock' \in {clock, clock + 1}
    PROVE  IInv'
<1>1. TypeOK /\ TxTyped /\ RequestsKnow
  BY DEF IInv
<1>2. clock' \in Nat /\ clock <= clock'
  BY <1>1 DEF TypeOK
<1>3. TypeOK' /\ TxTyped'
  BY <1>1, <1>2 DEF TypeOK, TxTyped, rows
<1>4. \A r \in Requests \ {NoOne} : pc'[r] = pc[r] /\ tx'[r] = tx[r] /\ LocksKeep(r)
  BY DEF LocksKeep, RowsOf, rows
<1>5. RequestsKnow'
  BY <1>1, <1>2, <1>4, NamesAssumption, OthersStay
<1>6. /\ RowsNamed' /\ EntriesNamed' /\ AuditRows' /\ OnePendingUnstake'
      /\ UnstakePaidOnce' /\ MoneyConserved' /\ PoolMatchesPositions'
  BY <1>1, <1>2, RowsStay DEF IInv
<1> QED
  BY <1>3, <1>5, <1>6 DEF IInv

LEMMA NextInductive == IInv /\ [Next]_vars => IInv'
<1> SUFFICES ASSUME IInv, [Next]_vars PROVE IInv'
  OBVIOUS
<1>1. CASE UNCHANGED vars
  BY <1>1, TickInductive DEF vars
<1>2. CASE Tick
  BY <1>2, TickInductive DEF Tick
<1>3. ASSUME NEW q \in Requests, BeginUser(q) \/ BeginAdmin(q)
      PROVE  IInv'
  BY <1>3, BeginInductive
<1>4. ASSUME NEW q \in Requests, Progress(q)
      PROVE  IInv'
  BY <1>4, ProgressInductive
<1>5. ASSUME NEW q \in Requests, ConnectionLost(q)
      PROVE  IInv'
  BY <1>5, FailureInductive DEF ConnectionLost
<1> QED
  BY <1>1, <1>2, <1>3, <1>4, <1>5 DEF Next

-----------------------------------------------------------------------------
(* The theorems.                                                            *)

\* Every property below is a part of this invariant.
LEMMA StakingInvariant == Spec => []IInv
<1> QED
  BY InitialInvariant, NextInductive, PTL DEF Spec

\* No wallet, position or reserve goes below zero, whatever requests run side
\* by side: the balances the services/staking.service checks are the ones it
\* then writes.
THEOREM StakingTypeCorrect == Spec => []TypeOK
<1>1. IInv => TypeOK
  BY DEF IInv
<1> QED
  BY <1>1, StakingInvariant, PTL

\* The check for a withdrawal under way and the row that follows it are under
\* one lock: a user never has two in a pool (SBP-001).
THEOREM OneUnstakeUnderWay == Spec => []OnePendingUnstake
<1>1. IInv => OnePendingUnstake
  BY DEF IInv
<1> QED
  BY <1>1, StakingInvariant, PTL

\* A withdrawal that matures is paid by one request, once, for its amount, and
\* not before it is due.
THEOREM UnstakesArePaidOnce == Spec => []UnstakePaidOnce
<1>1. IInv => UnstakePaidOnce
  BY DEF IInv
<1> QED
  BY <1>1, StakingInvariant, PTL

\* No interleaving of stakes, claims, withdrawals and failures mints or loses
\* a user's money (SBP-001, SBP-002).
THEOREM MoneyIsConserved == Spec => []MoneyConserved
<1>1. IInv => MoneyConserved
  BY DEF IInv
<1> QED
  BY <1>1, StakingInvariant, PTL

\* The pool rows that requests write back from what they read are never stale:
\* totalStaked is the sum of the principals, and the reserve is what
\* administrators put in less what was claimed.
THEOREM PoolsMatchPositions == Spec => []PoolMatchesPositions
<1>1. IInv => PoolMatchesPositions
  BY DEF IInv
<1> QED
  BY <1>1, StakingInvariant, PTL
=============================================================================
