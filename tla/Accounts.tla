------------------------------ MODULE Accounts ------------------------------
(***************************************************************************)
(* Money outside the rounds: logins that open wallets, deposits and        *)
(* withdrawals at the wallet routes, the internal ledger route, referral   *)
(* rewards, administrators' adjustments of users and of the treasury.      *)
(* A request is a sequence of transactions; createTransaction and          *)
(* applyTransaction are two of them unless the code wraps them in one.     *)
(* Every write transaction locks the wallet it moves before it reads it,   *)
(* so each is one step; applyTransaction reads its entry before the lock.  *)
(* One currency.  A bet is only what it does to the wallet (GameDb has the *)
(* rest).  X_Something is a wrong form of X no action uses.                *)
(***************************************************************************)
EXTENDS Integers, FiniteSetsExt

CONSTANTS
    Users, Founder,      \* Founder has an account and money from the start
    House, World,        \* HouseWallet, and everything outside
    Requests,            \* bound: requests
    Refs,                \* referenceIds and requestIds that callers choose
    Amount,              \* the amount of every request and stake
    Profit,              \* what a won stake earns
    RatePercent,         \* REFERRAL_DEPOSIT_RATE
    FounderFunds, Bankroll,
    CallerTerms,         \* what callers of the internal route ask for: see Terms
    MaxFaults,           \* bound: requests that die between two steps
    MaxBoots,            \* bound: starts of the worker, which repairs locks
    Nobody

ASSUME UsersAssumption ==
    /\ Founder \in Users
    /\ House \notin Users /\ World \notin Users \cup {House}
    /\ Nobody \notin Users \cup {House, World}
ASSUME AmountsAssumption ==
    /\ Amount \in Nat \ {0} /\ Profit \in Nat \ {0}
    /\ RatePercent \in Int
    /\ FounderFunds \in Nat /\ Bankroll \in Nat
ASSUME BoundsAssumption == MaxFaults \in Nat /\ MaxBoots \in Nat

VARIABLES
    referrer,    \* User rows: referrer[u] is referredById, or Nobody
    session,     \* users with a session
    wallet,      \* Wallet rows: wallet[u] = [balance, locked]
    house,       \* HouseWallet.balance
    ledger,      \* LedgerEntry rows
    houseLedger, \* HouseLedgerEntry rows
    audit,       \* AdminAuditLog: the requestIds
    bet,         \* bet[u]: "none", "placed", "lost" or "won"
    pc, req,     \* each request's next step and its locals
    exposed,     \* users a claim of whom has lost its lock to another write
    faults, boots

rowVars == <<referrer, session>>
moneyVars == <<wallet, house, ledger, houseLedger>>
procVars == <<pc, req>>
vars == <<rowVars, moneyVars, audit, bet, procVars, exposed, faults, boots>>

EntryType == {"DEPOSIT", "WITHDRAW", "REWARD", "ADJUSTMENT",
              "BET_LOSS_SETTLEMENT", "BET_WIN"}
Kind == {"login", "deposit", "withdraw", "internal", "adjust", "treasury", "fund"}
PC == {"idle", "user", "wallets", "session", "create", "apply", "move",
       "referral", "reward", "audit", "adjust", "treasury", "fund", "done"}
\* A referenceId: who chose it, and what makes it unique.
Ref == ({"dev"} \X Requests) \cup ({"call", "admin"} \X Refs)
         \cup ({"bet"} \X Users)
Rewarded == {"referral"} \X Users \X Ref
Row == [balance : Int, locked : Int]
\* RECORDED is COMPLETED too, for the code: a row that its caller created so
\* and for which no money moved.  held is what its creation reserved.
Applied == {"COMPLETED", "RECORDED"}
LedgerRow == [user : Users, ref : Ref \cup Rewarded, type : EntryType, amount : Int,
              status : Applied \cup {"PENDING", "FAILED"}, held : {0, Amount}]
HouseRow == [user : Users \cup {Nobody}, ref : Ref, amount : Int,
             type : {"HOUSE_FUND", "ADJUSTMENT", "BET_LOSS_SETTLEMENT", "BET_WIN"}]
\* lockFunds, autoApply and status, which the internal route lets a caller
\* choose, and what the wallet routes make of them
Terms == [lock : BOOLEAN, apply : BOOLEAN, status : {"PENDING", "RECORDED", "FAILED"}]
ASSUME TermsAssumption == CallerTerms \subseteq Terms
Usual == [lock |-> TRUE, apply |-> TRUE, status |-> "PENDING"]
\* who: whose wallet; cand: the referrer a login has found
Local == [kind : Kind, who : Users, amount : {Amount, -Amount}, ref : Ref,
          cand : Users \cup {Nobody}, terms : Terms]

Init ==
    /\ referrer = [u \in {Founder} |-> Nobody]
    /\ session = {Founder}
    /\ wallet = [u \in {Founder} |-> [balance |-> FounderFunds, locked |-> 0]]
    /\ house = Bankroll
    /\ ledger = {} /\ houseLedger = {} /\ audit = {}
    /\ bet = [u \in Users |-> "none"]
    /\ pc = [r \in Requests |-> "idle"]
    /\ req = [r \in Requests |-> Nobody]
    /\ exposed = {} /\ faults = 0 /\ boots = 0

-----------------------------------------------------------------------------
(* The ledger service.                                                      *)

Known == DOMAIN referrer
HasWallet(u) == u \in DOMAIN wallet
Available(u) == wallet[u].balance - wallet[u].locked
NameTaken(u, ref, type) ==
    \E e \in ledger : e.user = u /\ e.ref = ref /\ e.type = type
Entry(u, ref, type, amount, status, held) ==
    [user |-> u, ref |-> ref, type |-> type, amount |-> amount, status |-> status,
     held |-> held]

\* upsert with nothing to update: the row there is, or this one
Upserted(rows, key, row) ==
    [k \in DOMAIN rows \cup {key} |-> IF k \in DOMAIN rows THEN rows[k] ELSE row]
WithWallet(u) == Upserted(wallet, u, [balance |-> 0, locked |-> 0])

\* A debit gives up its amount of the lock when applied, reserved or not.
Debit(amount) == IF amount < 0 THEN -amount ELSE 0
Moved(w, amount) ==
    [balance |-> w.balance + amount, locked |-> w.locked - Debit(amount)]

\* The database refuses a row that is overdrawn or reserves more than it has.
Fits(w) == 0 <= w.locked /\ w.locked <= w.balance

MayCreate_BalanceOnly(u, ref, type, need) ==
    /\ HasWallet(u)
    /\ need > 0 => wallet[u].balance >= need
    /\ ~NameTaken(u, ref, type)

\* need: what it has to reserve
MayCreate(u, ref, type, need) ==
    /\ HasWallet(u)
    /\ need > 0 => Available(u) >= need
    /\ ~NameTaken(u, ref, type)

\* createTransaction and applyTransaction inside one transaction
Completed(u, ref, type, amount) ==
    /\ wallet' = [wallet EXCEPT ![u].balance = @ + amount]
    /\ ledger' = ledger \cup {Entry(u, ref, type, amount, "COMPLETED", 0)}

\* mutateHouseBalance inside a transaction
HouseCovers(amount) == house + amount >= 0
HouseMoves(u, ref, type, amount) ==
    /\ house' = house + amount
    /\ houseLedger' = houseLedger \cup
         {[user |-> u, ref |-> ref, type |-> type, amount |-> amount]}

-----------------------------------------------------------------------------
(* Requests.                                                                *)

Start(r, first, kind, u, amount, ref, cand, terms) ==
    /\ pc[r] = "idle"
    /\ pc' = [pc EXCEPT ![r] = first]
    /\ req' = [req EXCEPT ![r] = [kind |-> kind, who |-> u, amount |-> amount,
                                  ref |-> ref, cand |-> cand, terms |-> terms]]
    /\ UNCHANGED <<rowVars, moneyVars, audit, bet, exposed, faults, boots>>

Goto(r, step) == pc' = [pc EXCEPT ![r] = step] /\ UNCHANGED req
Answer(r) == Goto(r, "done")

\* A referral link names a user: one that exists, and not the one who logs in.
BeginLogin(r, u, link) ==
    Start(r, "user", "login", u, Amount, <<"dev", r>>,
          IF link \in Known \ {u} THEN link ELSE Nobody, Usual)

\* getSession finds a token's session in the cache or the table; its end is far.
HasSession(u) == u \in session

BeginDeposit(r, u) ==
    /\ HasSession(u)
    /\ Start(r, "create", "deposit", u, Amount, <<"dev", r>>, Nobody, Usual)

BeginWithdraw(r, u) ==
    /\ HasSession(u)
    /\ Start(r, "create", "withdraw", u, -Amount, <<"dev", r>>, Nobody, Usual)

\* By default it locks nothing, applies, and starts as PENDING.
BeginInternal(r, u, amount, ref, terms) ==
    Start(r, "create", "internal", u, amount, <<"call", ref>>, Nobody, terms)

\* The form's requestId; the same one when a caller repeats its call.
BeginAdmin(r, u, kind, amount, ref) ==
    Start(r, "audit", kind, u, amount, <<"admin", ref>>, Nobody, Usual)

BeginFund(r, u) ==
    Start(r, "fund", "fund", u, Amount, <<"dev", r>>, Nobody, Usual)

Type(r) == IF req[r].amount > 0 THEN "DEPOSIT" ELSE "WITHDRAW"
Need(r) == IF req[r].terms.lock THEN Debit(req[r].amount) ELSE 0
Own(r, status) ==
    Entry(req[r].who, req[r].ref, Type(r), req[r].amount, status, Need(r))

-----------------------------------------------------------------------------
(* Login: the user's row, the wallets, the session.                         *)

UpsertUser_Overwrites(r) ==
    /\ pc[r] = "user"
    /\ referrer' = [u \in Known \cup {req[r].who} |->
                      IF u = req[r].who THEN req[r].cand ELSE referrer[u]]
    /\ Goto(r, "wallets")
    /\ UNCHANGED <<session, moneyVars, audit, bet, exposed, faults, boots>>

UpsertUser(r) ==
    /\ pc[r] = "user"
    /\ referrer' = Upserted(referrer, req[r].who, req[r].cand)
    /\ Goto(r, "wallets")
    /\ UNCHANGED <<session, moneyVars, audit, bet, exposed, faults, boots>>

UpsertWallets(r) ==
    /\ pc[r] = "wallets"
    /\ wallet' = WithWallet(req[r].who)
    /\ Goto(r, "session")
    /\ UNCHANGED <<rowVars, house, ledger, houseLedger, audit, bet, exposed, faults, boots>>

CreateSession(r) ==
    /\ pc[r] = "session"
    /\ session' = session \cup {req[r].who}
    /\ Answer(r)
    /\ UNCHANGED <<referrer, moneyVars, audit, bet, exposed, faults, boots>>

-----------------------------------------------------------------------------
(* Deposits, withdrawals and the internal route: create, then apply.        *)

AfterApply(r) == IF Type(r) = "DEPOSIT" THEN "referral" ELSE "done"
AfterCreate(r) ==
    IF req[r].terms.apply THEN "apply"
    ELSE IF req[r].terms.status = "RECORDED" THEN AfterApply(r) ELSE "done"

CreateTransaction_ReturnsExisting(r) ==
    /\ pc[r] = "create"
    /\ IF MayCreate(req[r].who, req[r].ref, Type(r), Need(r))
       THEN /\ ledger' = ledger \cup {Own(r, req[r].terms.status)}
            /\ wallet' = [wallet EXCEPT ![req[r].who].locked = @ + Need(r)]
            /\ Goto(r, AfterCreate(r))
       ELSE /\ UNCHANGED <<ledger, wallet>>
            /\ Goto(r, IF NameTaken(req[r].who, req[r].ref, Type(r))
                       THEN "apply" ELSE "done")
    /\ UNCHANGED <<rowVars, house, houseLedger, audit, bet, exposed, faults, boots>>

\* A name already taken aborts the transaction, so a repeated call fails here.
CreateTransaction(r) ==
    /\ pc[r] = "create"
    /\ IF MayCreate(req[r].who, req[r].ref, Type(r), Need(r))
       THEN /\ ledger' = ledger \cup {Own(r, req[r].terms.status)}
            /\ wallet' = [wallet EXCEPT ![req[r].who].locked = @ + Need(r)]
            /\ Goto(r, AfterCreate(r))
       ELSE UNCHANGED <<ledger, wallet>> /\ Answer(r)
    /\ UNCHANGED <<rowVars, house, houseLedger, audit, bet, exposed, faults, boots>>

\* Its first read, before the wallet's lock.
ReadEntry(r) ==
    /\ pc[r] = "apply"
    /\ Goto(r, IF \E s \in Applied : Own(r, s) \in ledger THEN AfterApply(r)
               ELSE IF Own(r, "FAILED") \in ledger THEN "done" ELSE "move")
    /\ UNCHANGED <<rowVars, moneyVars, audit, bet, exposed, faults, boots>>

ApplyTransaction_LockKept(r) ==
    /\ pc[r] = "move"
    /\ wallet' = [wallet EXCEPT ![req[r].who].balance = @ + req[r].amount]
    /\ ledger' = (ledger \ {Own(r, "PENDING")}) \cup {Own(r, "COMPLETED")}
    /\ Goto(r, AfterApply(r))
    /\ UNCHANGED <<rowVars, house, houseLedger, audit, bet, exposed, faults, boots>>

\* Its writes.  A debit larger than the lock is refused (LOCKED_FUNDS_MISMATCH);
\* one that reserved nothing takes the lock of another claim.
ApplyTransaction(r) ==
    /\ pc[r] = "move"
    /\ LET u == req[r].who
           w == Moved(wallet[u], req[r].amount)
       IN IF Fits(w)
          THEN /\ wallet' = [wallet EXCEPT ![u] = w]
               /\ ledger' = (ledger \ {Own(r, "PENDING")}) \cup {Own(r, "COMPLETED")}
               /\ exposed' = IF Need(r) < Debit(req[r].amount)
                             THEN exposed \cup {u} ELSE exposed
               /\ Goto(r, AfterApply(r))
          ELSE UNCHANGED <<wallet, ledger, exposed>> /\ Answer(r)
    /\ UNCHANGED <<rowVars, house, houseLedger, audit, bet, faults, boots>>

-----------------------------------------------------------------------------
(* The referral reward of a deposit, if somebody referred the depositor.    *)

RewardRef(r) == <<"referral", req[r].who, req[r].ref>>

\* parseRate keeps the configured rate between 0 and 1.
Rate == IF RatePercent <= 0 THEN 0 ELSE IF RatePercent >= 100 THEN 100 ELSE RatePercent
Reward == (Amount * Rate) \div 100

\* The deposit, the referrer and the rate are read, and the wallet opened.
FindReferrer(r) ==
    /\ pc[r] = "referral"
    /\ LET by == referrer[req[r].who]
       IN IF by # Nobody /\ Reward > 0
          THEN wallet' = WithWallet(by) /\ Goto(r, "reward")
          ELSE UNCHANGED wallet /\ Answer(r)
    /\ UNCHANGED <<rowVars, house, ledger, houseLedger, audit, bet, exposed, faults, boots>>

PayReward(r) ==
    /\ pc[r] = "reward"
    /\ Completed(referrer[req[r].who], RewardRef(r), "REWARD", Reward)
    /\ Answer(r)
    /\ UNCHANGED <<rowVars, house, houseLedger, audit, bet, exposed, faults, boots>>

-----------------------------------------------------------------------------
(* Administrators: an adjustment is named by the form's requestId.          *)

FindAudit(r) ==
    /\ pc[r] = "audit"
    /\ Goto(r, IF req[r].ref \in audit THEN "done" ELSE req[r].kind)
    /\ UNCHANGED <<rowVars, moneyVars, audit, bet, exposed, faults, boots>>

\* The audit row's requestId is unique: another's commits in between undo this.
MayAdjust(r) ==
    /\ MayCreate(req[r].who, req[r].ref, "ADJUSTMENT", Debit(req[r].amount))
    /\ HouseCovers(-req[r].amount)
    /\ req[r].ref \notin audit

\* The user's side, the house's side and the audit row are one transaction.
AdjustUserWallet(r) ==
    /\ pc[r] = "adjust"
    /\ IF MayAdjust(r)
       THEN /\ Completed(req[r].who, req[r].ref, "ADJUSTMENT", req[r].amount)
            /\ HouseMoves(req[r].who, req[r].ref, "ADJUSTMENT", -req[r].amount)
            /\ audit' = audit \cup {req[r].ref}
       ELSE UNCHANGED <<moneyVars, audit>>
    /\ Answer(r)
    /\ UNCHANGED <<rowVars, bet, exposed, faults, boots>>

MayAdjustHouse_CheckedBefore(r) == HouseCovers(req[r].amount)

MayAdjustHouse(r) == HouseCovers(req[r].amount) /\ req[r].ref \notin audit

AdjustHouseWallet(r) ==
    /\ pc[r] = "treasury"
    /\ IF MayAdjustHouse(r)
       THEN /\ HouseMoves(Nobody, req[r].ref, "ADJUSTMENT", req[r].amount)
            /\ audit' = audit \cup {req[r].ref}
       ELSE UNCHANGED <<house, houseLedger, audit>>
    /\ Answer(r)
    /\ UNCHANGED <<rowVars, wallet, ledger, bet, exposed, faults, boots>>

FundTreasury(r) ==
    /\ pc[r] = "fund"
    /\ HouseMoves(Nobody, req[r].ref, "HOUSE_FUND", Amount)
    /\ Answer(r)
    /\ UNCHANGED <<rowVars, wallet, ledger, audit, bet, exposed, faults, boots>>

-----------------------------------------------------------------------------
(* The game and the worker, as far as they touch these rows.                *)

PlaceStake(u) ==
    /\ HasSession(u) /\ bet[u] = "none" /\ Available(u) >= Amount
    /\ wallet' = [wallet EXCEPT ![u].locked = @ + Amount]
    /\ bet' = [bet EXCEPT ![u] = "placed"]
    /\ UNCHANGED <<rowVars, house, ledger, houseLedger, audit, procVars, exposed, faults, boots>>

\* The loss of a stake whose lock is gone fails, and the settlement skips it.
LoseStake(u) ==
    /\ bet[u] = "placed" /\ Fits(Moved(wallet[u], -Amount))
    /\ wallet' = [wallet EXCEPT ![u] = Moved(@, -Amount)]
    /\ ledger' = ledger \cup
         {Entry(u, <<"bet", u>>, "BET_LOSS_SETTLEMENT", -Amount, "COMPLETED", 0)}
    /\ HouseMoves(u, <<"bet", u>>, "BET_LOSS_SETTLEMENT", Amount)
    /\ bet' = [bet EXCEPT ![u] = "lost"]
    /\ UNCHANGED <<rowVars, audit, procVars, exposed, faults, boots>>

WinStake(u) ==
    /\ bet[u] = "placed" /\ wallet[u].locked >= Amount /\ HouseCovers(-Profit)
    /\ wallet' = [wallet EXCEPT ![u] = [balance |-> @.balance + Profit,
                                        locked |-> @.locked - Amount]]
    /\ ledger' = ledger \cup {Entry(u, <<"bet", u>>, "BET_WIN", Profit, "COMPLETED", 0)}
    /\ HouseMoves(u, <<"bet", u>>, "BET_WIN", -Profit)
    /\ bet' = [bet EXCEPT ![u] = "won"]
    /\ UNCHANGED <<rowVars, audit, procVars, exposed, faults, boots>>

Staked(u) == IF bet[u] = "placed" THEN Amount ELSE 0
Pending(u) ==
    SumFunction([e \in {d \in ledger : d.user = u /\ d.status # "COMPLETED"} |-> e.held])

\* A starting worker sets every lock to the stakes it knows, and stops at the
\* first wallet that cannot hold them.
RepairLockedBalances ==
    /\ boots < MaxBoots
    /\ boots' = boots + 1
    /\ LET Locked == {u \in DOMAIN wallet : wallet[u].locked > 0}
           Ok == {u \in Locked : Staked(u) <= wallet[u].balance}
       IN \E S \in SUBSET Ok :
            /\ Ok = Locked => S = Ok
            /\ wallet' = [u \in DOMAIN wallet |->
                 IF u \in S THEN [wallet[u] EXCEPT !.locked = Staked(u)] ELSE wallet[u]]
            /\ exposed' = exposed \cup {u \in S : Pending(u) > 0}
    /\ UNCHANGED <<rowVars, house, ledger, houseLedger, audit, bet, procVars, faults>>

\* A request dies between two of its transactions: killed, or an error.
RequestDies(r) ==
    /\ pc[r] \notin {"idle", "done"} /\ faults < MaxFaults
    /\ faults' = faults + 1
    /\ Answer(r)
    /\ UNCHANGED <<rowVars, moneyVars, audit, bet, exposed, boots>>

-----------------------------------------------------------------------------
Begin(r) ==
    \/ \E u \in Users, link \in Users \cup {Nobody} : BeginLogin(r, u, link)
    \/ \E u \in Users : BeginDeposit(r, u) \/ BeginWithdraw(r, u)
    \/ \E u \in Users, amount \in {Amount, -Amount}, ref \in Refs :
          \/ \E terms \in CallerTerms : BeginInternal(r, u, amount, ref, terms)
          \/ BeginAdmin(r, u, "adjust", amount, ref)
    \/ \E amount \in {Amount, -Amount}, ref \in Refs :
          BeginAdmin(r, Founder, "treasury", amount, ref)
    \/ BeginFund(r, Founder)

Step(r) ==
    \/ UpsertUser(r) \/ UpsertWallets(r) \/ CreateSession(r)
    \/ CreateTransaction(r) \/ ReadEntry(r) \/ ApplyTransaction(r)
    \/ FindReferrer(r) \/ PayReward(r)
    \/ FindAudit(r) \/ AdjustUserWallet(r) \/ AdjustHouseWallet(r)
    \/ FundTreasury(r)

Next ==
    \/ \E r \in Requests : Begin(r) \/ Step(r) \/ RequestDies(r)
    \/ \E u \in Users : PlaceStake(u) \/ LoseStake(u) \/ WinStake(u)
    \/ RepairLockedBalances

Spec == Init /\ [][Next]_vars

-----------------------------------------------------------------------------
\* The rows are what the schema and its constraints say: no overdrawn wallet
\* or treasury, no lock above its balance, names unique.
TypeOK ==
    /\ Known \subseteq Users /\ \A u \in Known : referrer[u] \in (Users \ {u}) \cup {Nobody}
    /\ session \subseteq DOMAIN wallet /\ DOMAIN wallet \subseteq Known
    /\ \A u \in DOMAIN wallet : wallet[u] \in Row /\ Fits(wallet[u])
    /\ house \in Nat
    /\ ledger \subseteq LedgerRow /\ houseLedger \subseteq HouseRow
    /\ audit \subseteq Ref
    /\ bet \in [Users -> {"none", "placed", "lost", "won"}]
    /\ pc \in [Requests -> PC]
    /\ \A r \in Requests : pc[r] # "idle" => req[r] \in Local
    /\ exposed \subseteq Users /\ faults \in 0..MaxFaults /\ boots \in 0..MaxBoots

\* No lock is more than what stands behind it, the open stake and what rows
\* not yet applied have reserved, those of dead requests included: no money
\* stays locked for nothing.  It is exactly that, unless a starting worker
\* rewrote it from the stakes alone or a debit that reserved nothing took it
\* (createTransaction and applyTransaction against repairLockedBalances).
LocksCoverPending ==
    \A u \in DOMAIN wallet :
        /\ wallet[u].locked <= Staked(u) + Pending(u)
        /\ u \notin exposed => wallet[u].locked = Staked(u) + Pending(u)

\* A reward belongs to the user who referred the depositor and still does, is
\* for a deposit that the ledger shows as completed, and is not more than its share
\* (applyReferralRewardForDeposit, and the login's upsert).
RewardsFollowReferral ==
    \A e \in ledger : e.type = "REWARD" =>
        /\ referrer[e.ref[2]] = e.user /\ e.user # e.ref[2]
        /\ \E d \in ledger :
              /\ d.user = e.ref[2] /\ d.ref = e.ref[3]
              /\ d.type = "DEPOSIT" /\ d.status \in Applied
              /\ 100 * e.amount <= d.amount * Rate

\* The audit log names exactly the adjustments made, each of them made once,
\* of one user or of the treasury, however its call is repeated or two calls
\* with one requestId meet (adjustUserWallet, adjustHouseWallet).
AuditTellsAdjustments ==
    LET Made == {h \in houseLedger : h.type = "ADJUSTMENT"}
        OfUsers == {e \in ledger : e.type = "ADJUSTMENT"}
    IN /\ audit = {h.ref : h \in Made}
       /\ \A h, g \in Made : h.ref = g.ref => h = g
       /\ {[user |-> e.user, ref |-> e.ref, amount |-> -e.amount] : e \in OfUsers}
            = {[user |-> h.user, ref |-> h.ref, amount |-> h.amount] :
                 h \in {g \in Made : g.user # Nobody}}

Against(type) ==
    IF type \in {"ADJUSTMENT", "BET_LOSS_SETTLEMENT", "BET_WIN"} THEN House ELSE World
Posted ==
    {[id |-> <<e.user, e.ref, e.type>>, account |-> e.user,
      against |-> Against(e.type), amount |-> e.amount] :
       e \in {d \in ledger : d.status = "COMPLETED"}}
    \cup {[id |-> <<House, h.ref, h.type>>, account |-> House,
           against |-> World, amount |-> h.amount] :
            h \in {g \in houseLedger : g.user = Nobody}}
Postings ==
    [id : (Users \cup {House}) \X (Ref \cup Rewarded) \X (EntryType \cup {"HOUSE_FUND"}),
     account : Users \cup {House}, against : {House, World}, amount : Int]

\* Every request, however its steps interleave, die or are repeated, is one
\* posting of double-entry bookkeeping or none.
Books == INSTANCE Book WITH
    Account <- Users \cup {House},
    Opening <- [a \in Users \cup {House} |->
                  CASE a = House -> Bankroll [] a = Founder -> FounderFunds [] OTHER -> 0],
    Posting <- Postings,
    funds <- [a \in Users \cup {House} |->
                CASE a = House -> house
                  [] a \in DOMAIN wallet -> wallet[a].balance
                  [] OTHER -> 0],
    posted <- Posted
BookRefined == Books!Spec
=============================================================================
