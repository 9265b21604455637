---------------------------- MODULE Accounts_proofs ----------------------------
(***************************************************************************)
(* Theorems of Accounts for every set of users and requests and every      *)
(* order of their steps: the rows the wallet, ledger, referral and admin   *)
(* services write agree with one another whatever runs side by side, dies  *)
(* half-way or is repeated.                                                *)
(***************************************************************************)
EXTENDS Accounts, Sums, FiniteSetTheorems, TLAPS

-----------------------------------------------------------------------------
(* The inductive invariant.                                                 *)

\* A link leads to a user there is, who is another one.
ReferrersKnown ==
    \A u \in Known : referrer[u] \in (Known \ {u}) \cup {Nobody}

\* The unique key of the ledger, and the wallet its rows belong to.
NamesUnique ==
    \A d, e \in ledger :
        d.user = e.user /\ d.ref = e.ref /\ d.type = e.type => d = e
EntriesHaveWallets == \A e \in ledger : HasWallet(e.user)

\* A stake is of a user with a wallet, and is settled once.
BetsHaveWallets == \A u \in Users : bet[u] # "none" => HasWallet(u)
BetsSettleOnce ==
    \A e \in ledger :
        e.type \in {"BET_LOSS_SETTLEMENT", "BET_WIN"} => bet[e.user] \in {"lost", "won"}

\* The treasury is funded by requests that are over.
FundsDone ==
    \A h \in houseLedger : h.type = "HOUSE_FUND" =>
        \E r \in Requests : h.ref = <<"dev", r>> /\ pc[r] = "done"

Moving == {"apply", "move"}
Paying == {"referral", "reward"}

NeverRewarded(r) == \A e \in ledger : e.type = "REWARD" => e.ref # RewardRef(r)

\* What a request may rely on when it takes its next step.
Ready(r) ==
    /\ pc[r] = "user" => req[r].cand \in (Known \ {req[r].who}) \cup {Nobody}
    /\ pc[r] = "wallets" => req[r].who \in Known
    /\ pc[r] = "session" => HasWallet(req[r].who)
    /\ pc[r] = "apply" => Own(r, req[r].terms.status) \in ledger
    /\ pc[r] = "move" => Own(r, "PENDING") \in ledger
    /\ pc[r] \in Paying => req[r].amount > 0 /\ \E s \in Applied : Own(r, s) \in ledger
    /\ pc[r] = "reward" => HasWallet(referrer[req[r].who])
    /\ (pc[r] \in Moving \cup Paying /\ req[r].amount > 0) => NeverRewarded(r)
    /\ pc[r] = "fund" => req[r].ref = <<"dev", r>>
    /\ pc[r] = "audit" => req[r].kind \in {"adjust", "treasury"}

AllReady == \A r \in Requests : Ready(r)

\* No two requests move the money of one entry.
Mover(r) == pc[r] \in Moving \cup Paying
SameName(r, s) ==
    req[r].who = req[s].who /\ req[r].ref = req[s].ref /\ Type(r) = Type(s)
OneMover ==
    \A r, s \in Requests : (Mover(r) /\ Mover(s) /\ SameName(r, s)) => r = s

Rows ==
    /\ IsFiniteSet(ledger) /\ wallet \in [DOMAIN wallet -> Row]
    /\ req \in [Requests -> Local \cup {Nobody}]

IInv ==
    /\ TypeOK /\ Rows /\ ReferrersKnown /\ NamesUnique /\ EntriesHaveWallets
    /\ BetsHaveWallets /\ BetsSettleOnce /\ FundsDone /\ AllReady /\ OneMover
    /\ LocksCoverPending /\ RewardsFollowReferral /\ AuditTellsAdjustments

-----------------------------------------------------------------------------
(* What a step writes to a wallet and to the ledger.                        *)

LEMMA UpsertedIs ==
    ASSUME NEW f, NEW k, NEW v
    PROVE  /\ DOMAIN Upserted(f, k, v) = DOMAIN f \cup {k}
           /\ \A x \in DOMAIN f : Upserted(f, k, v)[x] = f[x]
           /\ k \notin DOMAIN f => Upserted(f, k, v)[k] = v
  BY DEF Upserted

\* The balance of u changes by b and its lock by k.
Changes(u, b, k) ==
    /\ HasWallet(u)
    /\ DOMAIN wallet' = DOMAIN wallet /\ wallet' \in [DOMAIN wallet -> Row]
    /\ wallet'[u].balance = wallet[u].balance + b
    /\ wallet'[u].locked = wallet[u].locked + k
    /\ Fits(wallet'[u])
    /\ \A v \in DOMAIN wallet \ {u} : wallet'[v] = wallet[v]

Adds(e) ==
    /\ e \in LedgerRow /\ HasWallet(e.user) /\ ~NameTaken(e.user, e.ref, e.type)
    /\ ledger' = ledger \cup {e}

Done(e) == [e EXCEPT !.status = "COMPLETED"]

Completes(e) ==
    /\ e \in ledger /\ e.status = "PENDING"
    /\ ledger' = (ledger \ {e}) \cup {Done(e)}

\* What the rows of S not yet applied hold for u.
ClaimsOf(S, u) == {d \in S : d.user = u /\ d.status # "COMPLETED"}
Sizes(S) == [e \in S |-> e.held]
Sum(S) == SumFunction(Sizes(S))

LEMMA PendingIsSum == \A u : /\ Pending(u) = Sum(ClaimsOf(ledger, u))
                             /\ Pending(u)' = Sum(ClaimsOf(ledger', u))
  BY DEF Pending, ClaimsOf, Sum, Sizes

Claims(S) == \A e \in S : e.held \in Nat

LEMMA SumOfClaims ==
    ASSUME NEW S, IsFiniteSet(S), Claims(S)
    PROVE  Sum(S) \in Nat /\ (S = {} => Sum(S) = 0)
<1> DEFINE f == Sizes(S)
<1>1. Sum(S) = SumFunctionOnSet(f, S) /\ \A e \in S : f[e] = e.held
  BY DEF Sum, Sizes, SumFunction
<1>2. \A e \in S : f[e] \in Nat
  BY <1>1 DEF Claims
<1> HIDE DEF f
<1>3. SumFunctionOnSet(f, S) \in Nat
  BY <1>2, SumNatural
<1>4. SumFunctionOnSet(f, {}) = 0
  BY SumEmpty
<1> QED
  BY <1>1, <1>3, <1>4

LEMMA SumOneMore ==
    ASSUME NEW S, IsFiniteSet(S), Claims(S), NEW e, e \notin S, e.held \in Nat
    PROVE  Sum(S \cup {e}) = Sum(S) + e.held
<1> DEFINE T == S \cup {e}
           f == Sizes(S)
           g == Sizes(T)
<1>1. /\ Sum(S) = SumFunctionOnSet(f, S) /\ Sum(T) = SumFunctionOnSet(g, T)
      /\ \A d \in S : f[d] = d.held /\ g[d] = f[d]
      /\ g[e] = e.held
  BY DEF Sum, Sizes, SumFunction
<1>2. Numbers(f, S) /\ Numbers(g, S \cup {e})
  BY <1>1 DEF Claims, Numbers
<1> HIDE DEF f, g
<1>3. SumFunctionOnSet(g, S \cup {e}) = SumFunctionOnSet(g, S) + g[e]
  BY <1>2, SumWith
<1>4. SumFunctionOnSet(g, S) = SumFunctionOnSet(f, S)
  BY <1>1, <1>2, SumSame
<1> QED
  BY <1>1, <1>3, <1>4

LEMMA ClaimsFinite ==
    ASSUME NEW S, IsFiniteSet(S), S \subseteq LedgerRow, NEW u
    PROVE  IsFiniteSet(ClaimsOf(S, u)) /\ Claims(ClaimsOf(S, u))
<1>1. IsFiniteSet(ClaimsOf(S, u))
  BY FS_Subset DEF ClaimsOf
<1> QED
  BY <1>1, AmountsAssumption DEF ClaimsOf, Claims, LedgerRow

LEMMA PendingTyped ==
    ASSUME TypeOK, Rows, NEW u
    PROVE  /\ Pending(u) \in Nat
           /\ (\A e \in ledger : e.user # u) => Pending(u) = 0
<1>1. IsFiniteSet(ClaimsOf(ledger, u)) /\ Claims(ClaimsOf(ledger, u))
  BY ClaimsFinite DEF TypeOK, Rows
<1>2. (\A e \in ledger : e.user # u) => ClaimsOf(ledger, u) = {}
  BY DEF ClaimsOf
<1> QED
  BY <1>1, <1>2, SumOfClaims, PendingIsSum

LEMMA PendingAdds ==
    ASSUME TypeOK, Rows, NEW e, Adds(e), NEW u
    PROVE  Pending(u)' = Pending(u) + IF u = e.user /\ e.status # "COMPLETED"
                                      THEN e.held ELSE 0
<1> DEFINE A == ClaimsOf(ledger, u)
           B == ClaimsOf(ledger', u)
<1>1. IsFiniteSet(A) /\ Claims(A)
  BY ClaimsFinite DEF TypeOK, Rows
<1>2. e \notin ledger /\ e.held \in Nat
  BY AmountsAssumption DEF Adds, NameTaken, LedgerRow
<1>3. Sum(A) \in Nat
  BY <1>1, SumOfClaims
<1>4. CASE u = e.user /\ e.status # "COMPLETED"
  <2>1. B = A \cup {e} /\ e \notin A
    BY <1>2, <1>4 DEF ClaimsOf, Adds
  <2> HIDE DEF A, B
  <2>2. Sum(B) = Sum(A) + e.held
    BY <1>1, <1>2, <1>4, <2>1, SumOneMore
  <2> QED
    BY <1>2, <1>3, <1>4, <2>2, PendingIsSum DEF A, B
<1>5. CASE ~(u = e.user /\ e.status # "COMPLETED")
  <2>1. B = A
    BY <1>5 DEF ClaimsOf, Adds
  <2> QED
    BY <1>2, <1>3, <1>5, <2>1, PendingIsSum
<1> QED
  BY <1>4, <1>5

LEMMA PendingCompletes ==
    ASSUME TypeOK, Rows, NEW e, Completes(e), NEW u
    PROVE  Pending(u)' = Pending(u) - IF u = e.user THEN e.held ELSE 0
<1> DEFINE A == ClaimsOf(ledger, u)
           B == ClaimsOf(ledger', u)
<1>1. e \in ledger /\ e.status = "PENDING" /\ e.held \in Nat /\ e \in LedgerRow
  BY AmountsAssumption DEF Completes, TypeOK, LedgerRow
<1>2. Done(e).status = "COMPLETED"
  BY <1>1 DEF Done, LedgerRow
<1>3. B = A \ {e}
  BY <1>2 DEF ClaimsOf, Completes
<1>4. IsFiniteSet(A) /\ Claims(A) /\ IsFiniteSet(A \ {e}) /\ Claims(A \ {e})
  <2>1. IsFiniteSet(A) /\ Claims(A)
    BY ClaimsFinite DEF TypeOK, Rows
  <2> HIDE DEF A
  <2> QED
    BY <2>1, FS_Subset DEF Claims
<1>5. Sum(A) \in Nat /\ Sum(A \ {e}) \in Nat
  BY <1>4, SumOfClaims
<1>6. CASE u = e.user
  <2>1. e \in A /\ A = (A \ {e}) \cup {e}
    BY <1>1, <1>6 DEF ClaimsOf
  <2> DEFINE C == A \ {e}
  <2>2. A = C \cup {e} /\ e \notin C /\ IsFiniteSet(C) /\ Claims(C) /\ Sum(C) \in Nat
    BY <1>4, <1>5, <2>1
  <2> HIDE DEF A, B, C
  <2>3. Sum(C \cup {e}) = Sum(C) + e.held
    BY <1>1, <1>6, <2>2, SumOneMore
  <2>4. Sum(A) = Sum(C) + e.held
    BY <2>2, <2>3
  <2>5. Sum(B) = Sum(A) - e.held
    BY <1>1, <1>3, <2>2, <2>4 DEF C
  <2> QED
    BY <1>1, <1>5, <1>6, <2>5, PendingIsSum DEF A, B
<1>7. CASE u # e.user
  <2>1. B = A
    BY <1>3, <1>7 DEF ClaimsOf
  <2> QED
    BY <1>1, <1>5, <1>7, <2>1, PendingIsSum
<1> QED
  BY <1>6, <1>7

-----------------------------------------------------------------------------
(* The kinds of steps, by what they do to money.                            *)

HouseGains(h) ==
    /\ h \in HouseRow /\ houseLedger' = houseLedger \cup {h}
    /\ house' = house + h.amount /\ house' \in Nat

Quiet ==
    /\ UNCHANGED <<house, ledger, houseLedger, audit, bet, exposed>>
    /\ wallet' = wallet \/ \E u \in Known : wallet' = WithWallet(u)

Creates(e) ==
    /\ Adds(e) /\ e.status # "COMPLETED" /\ e.type \in {"DEPOSIT", "WITHDRAW"}
    /\ Changes(e.user, 0, e.held)
    /\ UNCHANGED <<house, houseLedger, audit, bet, exposed>>

Applies(e) ==
    /\ Completes(e) /\ e.type \in {"DEPOSIT", "WITHDRAW"}
    /\ Changes(e.user, e.amount, -Debit(e.amount)) /\ e.held \in {0, Debit(e.amount)}
    /\ exposed' = IF e.held = Debit(e.amount) THEN exposed ELSE exposed \cup {e.user}
    /\ UNCHANGED <<house, houseLedger, audit, bet>>

\* e is a share of the deposit d by a user whom e.user referred.
RewardOf(e, d) ==
    /\ d \in ledger /\ d.type = "DEPOSIT" /\ d.status \in Applied
    /\ e.ref[2] = d.user /\ e.ref[3] = d.ref
    /\ e.user = referrer[d.user] /\ 100 * e.amount <= d.amount * Rate

Pays(e) ==
    /\ Adds(e) /\ e.status = "COMPLETED" /\ e.type = "REWARD"
    /\ Changes(e.user, e.amount, 0) /\ \E d : RewardOf(e, d)
    /\ UNCHANGED <<house, houseLedger, audit, bet, exposed>>

Adjusts(e) ==
    /\ Adds(e) /\ e.status = "COMPLETED" /\ e.type = "ADJUSTMENT" /\ e.ref \in Ref
    /\ Changes(e.user, e.amount, 0)
    /\ HouseGains([user |-> e.user, ref |-> e.ref, type |-> "ADJUSTMENT",
                   amount |-> -e.amount])
    /\ e.ref \notin audit /\ audit' = audit \cup {e.ref}
    /\ UNCHANGED <<bet, exposed>>

AdjustsHouse(h) ==
    /\ HouseGains(h) /\ h.type = "ADJUSTMENT" /\ h.user = Nobody
    /\ h.ref \notin audit /\ audit' = audit \cup {h.ref}
    /\ UNCHANGED <<wallet, ledger, bet, exposed>>

FundsHouse(h) ==
    /\ HouseGains(h) /\ h.type = "HOUSE_FUND" /\ h.user = Nobody
    /\ \A g \in houseLedger : g.type = "HOUSE_FUND" => g.ref # h.ref
    /\ UNCHANGED <<wallet, ledger, audit, bet, exposed>>

Places(u) ==
    /\ u \in Users /\ bet[u] = "none" /\ bet' = [bet EXCEPT ![u] = "placed"]
    /\ Changes(u, 0, Amount)
    /\ UNCHANGED <<house, ledger, houseLedger, audit, exposed>>

Settles(e, how) ==
    /\ Adds(e) /\ e.status = "COMPLETED" /\ e.ref \in Ref
    /\ e.type \in {"BET_LOSS_SETTLEMENT", "BET_WIN"}
    /\ bet[e.user] = "placed" /\ how \in {"lost", "won"}
    /\ bet' = [bet EXCEPT ![e.user] = how]
    /\ Changes(e.user, e.amount, -Amount)
    /\ HouseGains([user |-> e.user, ref |-> e.ref, type |-> e.type, amount |-> -e.amount])
    /\ UNCHANGED <<audit, exposed>>

RepairsOf(S) ==
    /\ S \subseteq DOMAIN wallet /\ \A u \in S : Staked(u) <= wallet[u].balance
    /\ wallet' = [u \in DOMAIN wallet |->
          IF u \in S THEN [wallet[u] EXCEPT !.locked = Staked(u)] ELSE wallet[u]]
    /\ exposed' = exposed \cup {u \in S : Pending(u) > 0}
    /\ UNCHANGED <<house, ledger, houseLedger, audit, bet>>

KindOfStep ==
    \/ Quiet
    \/ \E e : Creates(e) \/ Applies(e) \/ Pays(e) \/ Adjusts(e)
    \/ \E h : AdjustsHouse(h) \/ FundsHouse(h)
    \/ \E u : Places(u)
    \/ \E e, how : Settles(e, how)
    \/ \E S : RepairsOf(S)

\* The wallets after any of them.
LEMMA WalletsAfter ==
    ASSUME TypeOK, Rows, KindOfStep
    PROVE  /\ DOMAIN wallet \subseteq DOMAIN wallet' /\ DOMAIN wallet' \subseteq Known
           /\ wallet' \in [DOMAIN wallet' -> Row]
           /\ \A u \in DOMAIN wallet' : wallet'[u] \in Row /\ Fits(wallet'[u])
<1>1. /\ \A u \in DOMAIN wallet : wallet[u] \in Row /\ Fits(wallet[u])
      /\ DOMAIN wallet \subseteq Known /\ wallet \in [DOMAIN wallet -> Row]
      /\ \A u \in Users : Staked(u) \in Nat
  BY AmountsAssumption DEF TypeOK, Rows, Staked
<1>2. CASE wallet' = wallet
  BY <1>1, <1>2
<1>3. ASSUME NEW u \in Known, wallet' = WithWallet(u)
      PROVE  /\ DOMAIN wallet' = DOMAIN wallet \cup {u} /\ wallet' \in [DOMAIN wallet' -> Row]
             /\ \A v \in DOMAIN wallet' : Fits(wallet'[v])
  <2> DEFINE row == [balance |-> 0, locked |-> 0]
  <2>1. row \in Row /\ Fits(row)
    BY DEF Row, Fits
  <2> HIDE DEF row
  <2>2. wallet' = [k \in DOMAIN wallet \cup {u} |-> IF k \in DOMAIN wallet THEN wallet[k] ELSE row]
    BY <1>3 DEF WithWallet, Upserted, row
  <2> QED
    BY <1>1, <2>1, <2>2
<1>4. ASSUME NEW u, NEW b, NEW k, Changes(u, b, k)
      PROVE  /\ DOMAIN wallet' = DOMAIN wallet /\ wallet' \in [DOMAIN wallet' -> Row]
             /\ \A v \in DOMAIN wallet' : Fits(wallet'[v])
  BY <1>1, <1>4 DEF Changes
<1>5. ASSUME NEW S, RepairsOf(S)
      PROVE  /\ DOMAIN wallet' = DOMAIN wallet /\ wallet' \in [DOMAIN wallet' -> Row]
             /\ \A v \in DOMAIN wallet' : Fits(wallet'[v])
  <2>1. DOMAIN wallet \subseteq Users
    BY <1>1 DEF TypeOK
  <2> DEFINE new(u) == IF u \in S THEN [wallet[u] EXCEPT !.locked = Staked(u)] ELSE wallet[u]
  <2>2. wallet' = [u \in DOMAIN wallet |-> new(u)]
    BY <1>5 DEF RepairsOf
  <2>3. \A u \in DOMAIN wallet : new(u) \in Row /\ Fits(new(u))
    BY <1>1, <1>5, <2>1 DEF RepairsOf, Row, Fits
  <2> HIDE DEF new
  <2> QED
    BY <2>2, <2>3
<1>6. Quiet => wallet' = wallet \/ \E u \in Known : wallet' = WithWallet(u)
  BY DEF Quiet
<1>7. \A e : Creates(e) \/ Applies(e) \/ Pays(e) \/ Adjusts(e) => \E u, b, k : Changes(u, b, k)
  BY DEF Creates, Applies, Pays, Adjusts
<1>8. \A u, e, how : Places(u) \/ Settles(e, how) => \E v, b, k : Changes(v, b, k)
  BY DEF Places, Settles
<1>9. \A h : AdjustsHouse(h) \/ FundsHouse(h) => wallet' = wallet
  BY DEF AdjustsHouse, FundsHouse
<1>10. \/ wallet' = wallet \/ \E u \in Known : wallet' = WithWallet(u)
       \/ \E u, b, k : Changes(u, b, k)
       \/ \E S : RepairsOf(S)
  BY <1>6, <1>7, <1>8, <1>9 DEF KindOfStep
<1>11. \/ wallet' = wallet
       \/ /\ \E u \in Known : DOMAIN wallet' = DOMAIN wallet \cup {u}
          /\ wallet' \in [DOMAIN wallet' -> Row] /\ \A v \in DOMAIN wallet' : Fits(wallet'[v])
       \/ /\ DOMAIN wallet' = DOMAIN wallet
          /\ wallet' \in [DOMAIN wallet' -> Row] /\ \A v \in DOMAIN wallet' : Fits(wallet'[v])
  BY <1>3, <1>4, <1>5, <1>10
<1> QED
  BY <1>1, <1>11

\* The ledger after any of them.
LEMMA LedgerAfter ==
    ASSUME KindOfStep
    PROVE  ledger' = ledger \/ \E e : Adds(e) \/ Completes(e)
  BY DEF KindOfStep, Quiet, Creates, Applies, Pays, Adjusts, AdjustsHouse, FundsHouse,
         Places, Settles, RepairsOf

-----------------------------------------------------------------------------
(* The ledger's rows.                                                       *)

LEMMA DoneIs ==
    ASSUME NEW e \in LedgerRow
    PROVE  /\ Done(e) \in LedgerRow /\ Done(e).status = "COMPLETED"
           /\ Done(e).user = e.user /\ Done(e).ref = e.ref /\ Done(e).type = e.type
           /\ Done(e).amount = e.amount
  BY DEF Done, LedgerRow, Applied

\* Every row after a step has the name and the amount of one there was, or is new.
LEMMA RowsAfter ==
    ASSUME TypeOK, NEW e, Completes(e)
    PROVE  /\ Done(e) \in ledger' /\ Done(e) \in LedgerRow
           /\ \A d \in ledger : d # e => d \in ledger'
           /\ \A d \in ledger' : d = Done(e) \/ (d \in ledger /\ d # e)
           /\ e \in LedgerRow /\ e \notin ledger'
<1>1. e \in LedgerRow /\ e.status = "PENDING"
  BY DEF Completes, TypeOK
<1>2. Done(e) \in LedgerRow /\ Done(e).status = "COMPLETED"
  BY <1>1, DoneIs
<1> QED
  BY <1>1, <1>2 DEF Completes

LEMMA LedgerKept ==
    ASSUME TypeOK, Rows, NamesUnique, EntriesHaveWallets, KindOfStep
    PROVE  /\ ledger' \subseteq LedgerRow /\ IsFiniteSet(ledger')
           /\ NamesUnique' /\ EntriesHaveWallets'
<1> DEFINE Same(d, e) == d.user = e.user /\ d.ref = e.ref /\ d.type = e.type
<1>1. /\ ledger \subseteq LedgerRow /\ IsFiniteSet(ledger)
      /\ \A e \in ledger : e.user \in DOMAIN wallet
      /\ DOMAIN wallet \subseteq DOMAIN wallet'
  BY WalletsAfter DEF TypeOK, Rows, EntriesHaveWallets, HasWallet
<1>2. CASE ledger' = ledger
  BY <1>1, <1>2 DEF NamesUnique, EntriesHaveWallets, HasWallet
<1>3. ASSUME NEW e, Adds(e)
      PROVE  /\ ledger' \subseteq LedgerRow /\ IsFiniteSet(ledger')
             /\ NamesUnique' /\ EntriesHaveWallets'
  <2>1. /\ ledger' = ledger \cup {e} /\ e \in LedgerRow /\ e.user \in DOMAIN wallet
        /\ \A d \in ledger : ~Same(d, e)
    BY <1>3 DEF Adds, HasWallet, NameTaken
  <2>2. IsFiniteSet(ledger')
    BY <1>1, <2>1, FS_AddElement
  <2>3. NamesUnique'
    BY <2>1 DEF NamesUnique
  <2> QED
    BY <1>1, <2>1, <2>2, <2>3 DEF EntriesHaveWallets, HasWallet
<1>4. ASSUME NEW e, Completes(e)
      PROVE  /\ ledger' \subseteq LedgerRow /\ IsFiniteSet(ledger')
             /\ NamesUnique' /\ EntriesHaveWallets'
  <2>1. /\ Done(e) \in ledger' /\ Done(e) \in LedgerRow /\ e \in ledger
        /\ \A d \in ledger' : d = Done(e) \/ (d \in ledger /\ d # e)
        /\ Same(Done(e), e)
    BY <1>4, RowsAfter, DoneIs DEF Completes
  <2>2. IsFiniteSet(ledger')
    <3>1. IsFiniteSet(ledger \ {e})
      BY <1>1, FS_Subset
    <3> QED
      BY <1>4, <3>1, FS_AddElement DEF Completes
  <2> HIDE DEF Same
  <2>3. NamesUnique'
    <3>1. \A c, d \in ledger : Same(c, d) => c = d
      BY DEF NamesUnique, Same
    <3>2. \A c, d \in ledger' : Same(c, d) => c = d
      <4> SUFFICES ASSUME NEW c \in ledger', NEW d \in ledger', Same(c, d)
                   PROVE  c = d
        OBVIOUS
      <4>1. CASE c = Done(e) /\ d \in ledger
        <5>1. Same(e, d)
          BY <2>1, <4>1 DEF Same
        <5> QED
          BY <2>1, <3>1, <4>1, <5>1
      <4>2. CASE d = Done(e) /\ c \in ledger
        <5>1. Same(e, c)
          BY <2>1, <4>2 DEF Same
        <5> QED
          BY <2>1, <3>1, <4>2, <5>1
      <4> QED
        BY <2>1, <3>1, <4>1, <4>2
    <3> QED
      BY <3>2 DEF NamesUnique, Same
  <2>4. EntriesHaveWallets'
    BY <1>1, <2>1 DEF EntriesHaveWallets, HasWallet, Same
  <2> QED
    BY <1>1, <2>1, <2>2, <2>3, <2>4
<1> QED
  BY <1>2, <1>3, <1>4, LedgerAfter

\* A stake's wallet stays, and a stake once settled stays so.
LEMMA BetsKept ==
    ASSUME TypeOK, Rows, BetsHaveWallets, BetsSettleOnce, KindOfStep
    PROVE  /\ bet' \in [Users -> {"none", "placed", "lost", "won"}]
           /\ BetsHaveWallets' /\ BetsSettleOnce'
<1>1. /\ bet \in [Users -> {"none", "placed", "lost", "won"}] /\ ledger \subseteq LedgerRow
      /\ DOMAIN wallet \subseteq DOMAIN wallet'
  BY WalletsAfter DEF TypeOK
<1> DEFINE Over == {"lost", "won"}
       Stay == /\ bet' \in [Users -> {"none", "placed", "lost", "won"}]
               /\ \A u \in Users : bet[u] \in Over => bet'[u] \in Over
               /\ \A u \in Users : bet'[u] # "none" => bet[u] # "none" \/ HasWallet(u)
<1>2. Stay
  <2>1. CASE bet' = bet
    BY <1>1, <2>1
  <2>2. ASSUME NEW u, Places(u)
        PROVE  Stay
    BY <1>1, <2>2 DEF Places, Changes
  <2>3. ASSUME NEW e, NEW how, Settles(e, how)
        PROVE  Stay
    BY <1>1, <2>3 DEF Settles, Adds, LedgerRow
  <2>4. \/ bet' = bet \/ (\E u : Places(u)) \/ \E e, how : Settles(e, how)
    BY DEF KindOfStep, Quiet, Creates, Applies, Pays, Adjusts, AdjustsHouse, FundsHouse,
           RepairsOf
  <2> HIDE DEF Stay
  <2> QED
    BY <2>1, <2>2, <2>3, <2>4
<1>3. BetsHaveWallets'
  BY <1>1, <1>2 DEF BetsHaveWallets, HasWallet
<1>4. \A e \in ledger' :
          \/ e \in ledger
          \/ \E d \in ledger : d.type = e.type /\ d.user = e.user
          \/ e.type \notin {"BET_LOSS_SETTLEMENT", "BET_WIN"}
          \/ bet'[e.user] \in Over /\ e.user \in Users
  <2>1. CASE ledger' = ledger
    BY <2>1
  <2>2. ASSUME NEW e, Completes(e), NEW d \in ledger'
        PROVE  d \in ledger \/ \E c \in ledger : c.type = d.type /\ c.user = d.user
    BY <2>2, RowsAfter, DoneIs DEF Completes
  <2>3. ASSUME NEW e, Creates(e) \/ Pays(e) \/ Adjusts(e), NEW d \in ledger'
        PROVE  d \in ledger \/ d.type \notin {"BET_LOSS_SETTLEMENT", "BET_WIN"}
    BY <2>3 DEF Creates, Pays, Adjusts, Adds
  <2>4. ASSUME NEW e, NEW how, Settles(e, how), NEW d \in ledger'
        PROVE  d \in ledger \/ (bet'[d.user] \in Over /\ d.user \in Users)
    <3>1. d \in ledger \/ d = e
      BY <2>4 DEF Settles, Adds
    <3>2. e.user \in Users /\ bet'[e.user] = how /\ how \in Over
      BY <1>1, <2>4 DEF Settles, Adds, LedgerRow
    <3> QED
      BY <3>1, <3>2
  <2> QED
    BY <2>1, <2>2, <2>3, <2>4 DEF KindOfStep, Quiet, Applies, Places,
         AdjustsHouse, FundsHouse, RepairsOf
<1>5. BetsSettleOnce'
  <2> SUFFICES ASSUME NEW e \in ledger', e.type \in {"BET_LOSS_SETTLEMENT", "BET_WIN"}
               PROVE  bet'[e.user] \in Over
    BY DEF BetsSettleOnce
  <2>1. CASE bet'[e.user] \in Over
    BY <2>1
  <2>2. CASE \E d \in ledger : d.type = e.type /\ d.user = e.user
    <3>1. PICK d \in ledger : d.type = e.type /\ d.user = e.user
      BY <2>2
    <3>2. bet[d.user] \in Over /\ d.user \in Users
      BY <1>1, <3>1 DEF BetsSettleOnce, LedgerRow
    <3> QED
      BY <1>2, <3>1, <3>2
  <2> QED
    BY <1>4, <2>1, <2>2
<1> QED
  BY <1>2, <1>3, <1>5

-----------------------------------------------------------------------------
(* Locks and what they stand for.                                           *)

\* A step that changes a lock by no more than what it stands for, and by less
\* only for a user it exposes.
LEMMA LocksChange ==
    ASSUME TypeOK, Rows, LocksCoverPending, NEW v, NEW b, NEW k \in Int, NEW s \in Int,
           NEW p \in Int, Changes(v, b, k), exposed \subseteq exposed', k <= s + p,
           k = s + p \/ v \in exposed',
           \A u \in DOMAIN wallet : /\ Staked(u)' = Staked(u) + IF u = v THEN s ELSE 0
                                    /\ Pending(u)' = Pending(u) + IF u = v THEN p ELSE 0
    PROVE  LocksCoverPending'
<1> SUFFICES ASSUME NEW u \in DOMAIN wallet'
             PROVE  /\ wallet'[u].locked <= Staked(u)' + Pending(u)'
                    /\ u \notin exposed' => wallet'[u].locked = Staked(u)' + Pending(u)'
  BY DEF LocksCoverPending
<1>1. /\ u \in DOMAIN wallet /\ u \in Users /\ wallet[u].locked \in Int
      /\ wallet[u].locked <= Staked(u) + Pending(u)
      /\ u \notin exposed => wallet[u].locked = Staked(u) + Pending(u)
  BY DEF Changes, TypeOK, Rows, Row, LocksCoverPending
<1>2. Staked(u) \in Nat /\ Pending(u) \in Nat
  BY AmountsAssumption, PendingTyped DEF Staked
<1>3. /\ Staked(u)' = Staked(u) + IF u = v THEN s ELSE 0
      /\ Pending(u)' = Pending(u) + IF u = v THEN p ELSE 0
  BY <1>1
<1>4. wallet'[u].locked = wallet[u].locked + IF u = v THEN k ELSE 0
  BY <1>1 DEF Changes
<1>5. u \notin exposed' => u \notin exposed /\ (u = v => k = s + p)
  OBVIOUS
<1> QED
  BY <1>1, <1>2, <1>3, <1>4, <1>5

LEMMA PendingStays ==
    ASSUME TypeOK, Rows,
           \/ ledger' = ledger
           \/ \E e : Adds(e) /\ e.status = "COMPLETED"
    PROVE  \A u : Pending(u)' = Pending(u)
<1>1. CASE ledger' = ledger
  BY <1>1, PendingIsSum
<1>2. ASSUME NEW e, Adds(e), e.status = "COMPLETED", NEW u
      PROVE  Pending(u)' = Pending(u)
  <2>1. Pending(u)' = Pending(u) + IF u = e.user /\ e.status # "COMPLETED"
                                   THEN e.held ELSE 0
    BY <1>2, PendingAdds
  <2>2. Pending(u) \in Nat
    BY PendingTyped
  <2> QED
    BY <1>2, <2>1, <2>2
<1> QED
  BY <1>1, <1>2

LEMMA LocksKept ==
    ASSUME TypeOK, Rows, EntriesHaveWallets, BetsHaveWallets, LocksCoverPending, KindOfStep
    PROVE  LocksCoverPending'
<1>1. /\ DOMAIN wallet \subseteq Users /\ ledger \subseteq LedgerRow
      /\ bet \in [Users -> {"none", "placed", "lost", "won"}]
      /\ \A u \in Users : Staked(u) \in Nat /\ Pending(u) \in Nat
      /\ Amount \in Nat \ {0}
  BY AmountsAssumption, PendingTyped DEF TypeOK, Staked
<1>2. ASSUME bet' = bet PROVE \A u : Staked(u)' = Staked(u)
  BY <1>2 DEF Staked
<1>3. CASE Quiet
  <2>1. \A u : Staked(u)' = Staked(u) /\ Pending(u)' = Pending(u)
    BY <1>2, <1>3, PendingStays DEF Quiet
  <2>2. CASE wallet' = wallet
    BY <1>3, <2>1, <2>2 DEF Quiet, LocksCoverPending
  <2>3. ASSUME NEW v \in Known, wallet' = WithWallet(v)
        PROVE  LocksCoverPending'
    <3>1. /\ DOMAIN wallet' = DOMAIN wallet \cup {v}
          /\ \A u \in DOMAIN wallet : wallet'[u] = wallet[u]
          /\ v \notin DOMAIN wallet => wallet'[v] = [balance |-> 0, locked |-> 0]
      <4> DEFINE row == [balance |-> 0, locked |-> 0]
      <4>1. wallet' = Upserted(wallet, v, row)
        BY <2>3 DEF WithWallet
      <4> HIDE DEF row
      <4>2. /\ DOMAIN wallet' = DOMAIN wallet \cup {v}
            /\ \A u \in DOMAIN wallet : wallet'[u] = wallet[u]
            /\ v \notin DOMAIN wallet => wallet'[v] = row
        BY <4>1 DEF Upserted
      <4> QED
        BY <4>2 DEF row
    <3>2. v \notin DOMAIN wallet => Staked(v) = 0 /\ Pending(v) = 0
      <4> SUFFICES ASSUME v \notin DOMAIN wallet PROVE Staked(v) = 0 /\ Pending(v) = 0
        OBVIOUS
      <4>1. v \in Users
        BY DEF TypeOK
      <4>2. bet[v] = "none"
        BY <4>1 DEF BetsHaveWallets, HasWallet
      <4>3. \A e \in ledger : e.user # v
        BY DEF EntriesHaveWallets, HasWallet
      <4> QED
        BY <4>2, <4>3, PendingTyped DEF Staked
    <3>3. exposed' = exposed
      BY <1>3 DEF Quiet
    <3> QED
      BY <2>1, <3>1, <3>2, <3>3 DEF LocksCoverPending
  <2> QED
    BY <1>3, <2>2, <2>3 DEF Quiet
<1>4. ASSUME NEW e, Creates(e)
      PROVE  LocksCoverPending'
  <2>1. e.held \in Int
    BY <1>1, <1>4 DEF Creates, Adds, LedgerRow
  <2>2. \A u : Staked(u)' = Staked(u)
    BY <1>2, <1>4 DEF Creates
  <2>3. \A u : Pending(u)' = Pending(u) + IF u = e.user THEN e.held ELSE 0
    BY <1>4, PendingAdds DEF Creates
  <2> DEFINE k == e.held
  <2>4. Changes(e.user, 0, k) /\ exposed' = exposed
    BY <1>4 DEF Creates
  <2>5. k \in Int /\ 0 \in Int /\ k = 0 + k /\ k <= 0 + k
    BY <2>1
  <2>6. \A u \in DOMAIN wallet : /\ Staked(u)' = Staked(u) + IF u = e.user THEN 0 ELSE 0
                                 /\ Pending(u)' = Pending(u) + IF u = e.user THEN k ELSE 0
    BY <1>1, <2>2, <2>3
  <2> HIDE DEF k
  <2> QED
    BY <2>4, <2>5, <2>6, LocksChange
<1>5. ASSUME NEW e, Applies(e)
      PROVE  LocksCoverPending'
  <2>1. e \in LedgerRow /\ e.amount \in Int /\ Debit(e.amount) \in Nat /\ e.held \in Int
    BY <1>1, <1>5 DEF Applies, Completes, LedgerRow, Debit
  <2>2. \A u : Staked(u)' = Staked(u)
    BY <1>2, <1>5 DEF Applies
  <2>3. \A u : Pending(u)' = Pending(u) - IF u = e.user THEN e.held ELSE 0
    BY <1>5, PendingCompletes DEF Applies
  <2> DEFINE k == -Debit(e.amount)
             p == -e.held
  <2>4. Changes(e.user, e.amount, k) /\ exposed \subseteq exposed'
    BY <1>5 DEF Applies
  <2>5. k = p \/ (p = 0 /\ e.user \in exposed')
    BY <1>5, <2>1 DEF Applies
  <2>6. k \in Int /\ p \in Int /\ 0 \in Int /\ k <= 0 + p /\ (k = 0 + p \/ e.user \in exposed')
    BY <2>1, <2>5
  <2>7. \A u \in DOMAIN wallet : /\ Staked(u)' = Staked(u) + IF u = e.user THEN 0 ELSE 0
                                 /\ Pending(u)' = Pending(u) + IF u = e.user THEN p ELSE 0
    BY <1>1, <2>1, <2>2, <2>3
  <2> HIDE DEF k, p
  <2> QED
    BY <2>4, <2>6, <2>7, LocksChange
<1>6. ASSUME NEW e, Pays(e) \/ Adjusts(e)
      PROVE  LocksCoverPending'
  <2>1. /\ Adds(e) /\ e.status = "COMPLETED" /\ Changes(e.user, e.amount, 0)
        /\ bet' = bet /\ exposed' = exposed
    BY <1>6 DEF Pays, Adjusts
  <2>2. \A u : Staked(u)' = Staked(u) /\ Pending(u)' = Pending(u)
    BY <1>2, <2>1, PendingStays
  <2>3. \A u \in DOMAIN wallet : /\ Staked(u)' = Staked(u) + IF u = e.user THEN 0 ELSE 0
                                 /\ Pending(u)' = Pending(u) + IF u = e.user THEN 0 ELSE 0
    BY <1>1, <2>2
  <2>4. 0 \in Int /\ 0 = 0 + 0 /\ 0 <= 0 + 0
    OBVIOUS
  <2> QED
    BY <2>1, <2>3, <2>4, LocksChange
<1>7. ASSUME NEW h, AdjustsHouse(h) \/ FundsHouse(h)
      PROVE  LocksCoverPending'
  <2>1. wallet' = wallet /\ ledger' = ledger /\ bet' = bet /\ exposed' = exposed
    BY <1>7 DEF AdjustsHouse, FundsHouse
  <2>2. \A u : Staked(u)' = Staked(u) /\ Pending(u)' = Pending(u)
    BY <1>2, <2>1, PendingStays
  <2> QED
    BY <2>1, <2>2 DEF LocksCoverPending
<1>8. ASSUME NEW v, Places(v)
      PROVE  LocksCoverPending'
  <2>1. Changes(v, 0, Amount) /\ exposed' = exposed /\ ledger' = ledger /\ v \in Users
    BY <1>8 DEF Places
  <2>2. \A u : Pending(u)' = Pending(u)
    BY <2>1, PendingStays
  <2>3. \A u \in Users : Staked(u)' = Staked(u) + IF u = v THEN Amount ELSE 0
    BY <1>1, <1>8 DEF Places, Staked
  <2>4. \A u \in DOMAIN wallet : /\ Staked(u)' = Staked(u) + IF u = v THEN Amount ELSE 0
                                 /\ Pending(u)' = Pending(u) + IF u = v THEN 0 ELSE 0
    BY <1>1, <2>2, <2>3
  <2>5. Amount \in Int /\ 0 \in Int /\ Amount = Amount + 0 /\ Amount <= Amount + 0
    BY <1>1
  <2> QED
    BY <2>1, <2>4, <2>5, LocksChange
<1>9. ASSUME NEW e, NEW how, Settles(e, how)
      PROVE  LocksCoverPending'
  <2>1. /\ Adds(e) /\ e.status = "COMPLETED" /\ Changes(e.user, e.amount, -Amount)
        /\ exposed' = exposed /\ e.user \in Users
    BY <1>9 DEF Settles, Adds, LedgerRow
  <2>2. \A u : Pending(u)' = Pending(u)
    BY <2>1, PendingStays
  <2>3. \A u \in Users : Staked(u)' = Staked(u) + IF u = e.user THEN -Amount ELSE 0
    BY <1>1, <1>9, <2>1 DEF Settles, Staked
  <2>4. \A u \in DOMAIN wallet : /\ Staked(u)' = Staked(u) + IF u = e.user THEN -Amount ELSE 0
                                 /\ Pending(u)' = Pending(u) + IF u = e.user THEN 0 ELSE 0
    BY <1>1, <2>2, <2>3
  <2>5. -Amount \in Int /\ 0 \in Int /\ -Amount = -Amount + 0 /\ -Amount <= -Amount + 0
    BY <1>1
  <2> QED
    BY <2>1, <2>4, <2>5, LocksChange
<1>10. ASSUME NEW S, RepairsOf(S)
       PROVE  LocksCoverPending'
  <2>1. \A u : Staked(u)' = Staked(u) /\ Pending(u)' = Pending(u)
    BY <1>2, <1>10, PendingStays DEF RepairsOf
  <2> SUFFICES ASSUME NEW u \in DOMAIN wallet'
               PROVE  /\ wallet'[u].locked <= Staked(u) + Pending(u)
                      /\ u \notin exposed' => wallet'[u].locked = Staked(u) + Pending(u)
    BY <2>1 DEF LocksCoverPending
  <2>2. /\ u \in DOMAIN wallet /\ u \in Users /\ wallet[u] \in Row
        /\ u \notin exposed' => u \notin exposed
    BY <1>1, <1>10 DEF RepairsOf, Rows
  <2>3. CASE u \notin S
    BY <1>10, <2>2, <2>3 DEF RepairsOf, LocksCoverPending
  <2>4. CASE u \in S
    <3>1. u \notin exposed' => Pending(u) = 0
      BY <1>1, <1>10, <2>2, <2>4 DEF RepairsOf
    <3>2. wallet'[u].locked = Staked(u)
      BY <1>10, <2>2, <2>4 DEF RepairsOf, Row
    <3> QED
      BY <1>1, <2>2, <3>1, <3>2
  <2> QED
    BY <2>3, <2>4
<1> QED
  BY <1>3, <1>4, <1>5, <1>6, <1>7, <1>8, <1>9, <1>10 DEF KindOfStep

-----------------------------------------------------------------------------
(* Rewards, and the audit log.                                              *)

LEMMA RewardsKept ==
    ASSUME TypeOK, Rows, ReferrersKnown, EntriesHaveWallets, RewardsFollowReferral, KindOfStep,
           \A u \in Known : referrer'[u] = referrer[u]
    PROVE  RewardsFollowReferral'
<1>1. /\ ledger \subseteq LedgerRow
      /\ \A e \in ledger : e.user \in Known
      /\ DOMAIN wallet \subseteq Known
  BY DEF TypeOK, EntriesHaveWallets, HasWallet
<1>2. ASSUME NEW d \in ledger, d.status \in Applied
      PROVE  d \in ledger'
  <2>1. CASE ledger' = ledger
    BY <2>1
  <2>2. ASSUME NEW e, Adds(e) PROVE d \in ledger'
    BY <2>2 DEF Adds
  <2>3. ASSUME NEW e, Completes(e) PROVE d \in ledger'
    BY <1>2, <2>3 DEF Completes, Applied
  <2> QED
    BY <2>1, <2>2, <2>3, LedgerAfter
<1>3. ASSUME NEW e \in ledger', e.type = "REWARD"
      PROVE  \E d : RewardOf(e, d)
  <2>1. CASE e \in ledger
    <3>1. PICK d \in ledger : /\ d.user = e.ref[2] /\ d.ref = e.ref[3]
                              /\ d.type = "DEPOSIT" /\ d.status \in Applied
                              /\ 100 * e.amount <= d.amount * Rate
      BY <1>3, <2>1 DEF RewardsFollowReferral
    <3>2. referrer[d.user] = e.user
      BY <1>3, <2>1, <3>1 DEF RewardsFollowReferral
    <3>3. RewardOf(e, d)
      BY <3>1, <3>2 DEF RewardOf
    <3> QED
      BY <3>3
  <2>2. ASSUME NEW c, Pays(c), e \notin ledger PROVE \E d : RewardOf(e, d)
    BY <2>2 DEF Pays, Adds
  <2>3. ASSUME NEW c, Creates(c) \/ Adjusts(c) PROVE e \in ledger
    BY <1>3, <2>3 DEF Creates, Adjusts, Adds
  <2>4. ASSUME NEW c, Applies(c) PROVE e \in ledger
    <3>1. c \in LedgerRow /\ c.type # "REWARD"
      BY <1>1, <2>4 DEF Applies, Completes
    <3>2. Done(c).type # "REWARD"
      BY <3>1, DoneIs
    <3> QED
      BY <1>3, <2>4, <3>2 DEF Applies, Completes
  <2>5. ASSUME NEW c, NEW how, Settles(c, how) PROVE e \in ledger
    BY <1>3, <2>5 DEF Settles, Adds
  <2>6. CASE ledger' = ledger
    BY <2>1, <2>6
  <2>7. \/ ledger' = ledger
        \/ \E c : Creates(c) \/ Applies(c) \/ Pays(c) \/ Adjusts(c)
        \/ \E c, how : Settles(c, how)
    BY DEF KindOfStep, Quiet, AdjustsHouse, FundsHouse, Places, RepairsOf
  <2> QED
    BY <2>1, <2>2, <2>3, <2>4, <2>5, <2>6, <2>7
<1> SUFFICES ASSUME NEW e \in ledger', e.type = "REWARD"
             PROVE  /\ referrer'[e.ref[2]] = e.user /\ e.user # e.ref[2]
                    /\ \E d \in ledger' :
                          /\ d.user = e.ref[2] /\ d.ref = e.ref[3]
                          /\ d.type = "DEPOSIT" /\ d.status \in Applied
                          /\ 100 * e.amount <= d.amount * Rate
  BY DEF RewardsFollowReferral
<1>4. PICK d : RewardOf(e, d)
  BY <1>3
<1>5. d \in ledger /\ d.status \in Applied /\ d.user \in Known
  BY <1>1, <1>4 DEF RewardOf
<1>6. referrer'[d.user] = referrer[d.user] /\ d \in ledger'
  BY <1>2, <1>5
<1>7. e.user # d.user
  <2>1. e.user \in Users
    <3>1. ledger' = ledger \/ \E c : Adds(c) \/ Completes(c)
      BY LedgerAfter
    <3>2. e \in LedgerRow
      BY <1>1, <3>1, RowsAfter DEF Adds
    <3> QED
      BY <3>2 DEF LedgerRow
  <2> QED
    BY <1>4, <1>5, <2>1, UsersAssumption DEF RewardOf, ReferrersKnown
<1> QED
  BY <1>4, <1>6, <1>7 DEF RewardOf

MadeOf(H) == {h \in H : h.type = "ADJUSTMENT"}
AdjustmentsOf(L) == {e \in L : e.type = "ADJUSTMENT"}
Side(x) == [user |-> x.user, ref |-> x.ref, amount |-> x.amount]
Opposite(x) == [user |-> x.user, ref |-> x.ref, amount |-> -x.amount]
UserSide(A) == {Opposite(e) : e \in A}
HouseSide(M) == {Side(h) : h \in {g \in M : g.user # Nobody}}

\* The audit log names the adjustments M and A of the two ledgers.
AuditOf(a, M, A) ==
    /\ a = {h.ref : h \in M} /\ \A h, g \in M : h.ref = g.ref => h = g
    /\ UserSide(A) = HouseSide(M)

LEMMA AuditIs ==
    /\ AuditTellsAdjustments <=> AuditOf(audit, MadeOf(houseLedger), AdjustmentsOf(ledger))
    /\ AuditTellsAdjustments'
         <=> AuditOf(audit', MadeOf(houseLedger'), AdjustmentsOf(ledger'))
  BY DEF AuditTellsAdjustments, AuditOf, MadeOf, AdjustmentsOf, UserSide, HouseSide,
         Side, Opposite

LEMMA AuditKept ==
    ASSUME TypeOK, AuditTellsAdjustments, KindOfStep
    PROVE  AuditTellsAdjustments'
<1> DEFINE M == MadeOf(houseLedger)
           N == MadeOf(houseLedger')
           A == AdjustmentsOf(ledger)
           B == AdjustmentsOf(ledger')
<1>1. AuditOf(audit, M, A)
  BY AuditIs
<1>2. CASE audit' = audit /\ N = M /\ B = A
  BY <1>1, <1>2, AuditIs
<1>3. (ledger' = ledger => B = A) /\ (houseLedger' = houseLedger => N = M)
  OBVIOUS
<1>4. ASSUME NEW e, Adds(e), e.type # "ADJUSTMENT"
      PROVE  B = A
  BY <1>4 DEF Adds, AdjustmentsOf
<1>5. ASSUME NEW h, HouseGains(h), h.type # "ADJUSTMENT"
      PROVE  N = M
  BY <1>5 DEF HouseGains, MadeOf
<1>6. CASE Quiet \/ (\E u : Places(u)) \/ (\E S : RepairsOf(S)) \/ \E h : FundsHouse(h)
  <2>1. audit' = audit /\ N = M /\ B = A
    BY <1>3, <1>5, <1>6 DEF Quiet, Places, RepairsOf, FundsHouse
  <2> QED
    BY <1>2, <2>1
<1>7. ASSUME NEW e, Creates(e) \/ Pays(e) PROVE AuditTellsAdjustments'
  <2>1. audit' = audit /\ N = M /\ B = A
    BY <1>3, <1>4, <1>7 DEF Creates, Pays
  <2> QED
    BY <1>2, <2>1
<1>8. ASSUME NEW e, Applies(e) PROVE AuditTellsAdjustments'
  <2>1. Done(e).type # "ADJUSTMENT" /\ e.type # "ADJUSTMENT"
    BY <1>8, DoneIs DEF Applies, Completes, TypeOK
  <2>2. B = A
    BY <1>8, <2>1 DEF Applies, Completes, AdjustmentsOf
  <2>3. audit' = audit /\ N = M
    BY <1>3, <1>8 DEF Applies
  <2> QED
    BY <1>2, <2>2, <2>3
<1>9. ASSUME NEW e, NEW how, Settles(e, how) PROVE AuditTellsAdjustments'
  <2>1. B = A
    BY <1>4, <1>9 DEF Settles
  <2> DEFINE h == [user |-> e.user, ref |-> e.ref, type |-> e.type, amount |-> -e.amount]
  <2>2. HouseGains(h) /\ h.type # "ADJUSTMENT" /\ audit' = audit
    BY <1>9 DEF Settles
  <2>3. N = M
    BY <1>5, <2>2
  <2> QED
    BY <1>2, <2>1, <2>2, <2>3
<1>10. ASSUME NEW e, Adjusts(e) PROVE AuditTellsAdjustments'
  <2> DEFINE h == [user |-> e.user, ref |-> e.ref, type |-> "ADJUSTMENT", amount |-> -e.amount]
  <2>1. /\ HouseGains(h) /\ e.ref \notin audit /\ audit' = audit \cup {e.ref}
        /\ ledger' = ledger \cup {e} /\ e.type = "ADJUSTMENT" /\ e.user \in Users
    BY <1>10 DEF Adjusts, Adds, LedgerRow
  <2>2. /\ h.type = "ADJUSTMENT" /\ h.ref = e.ref /\ h.user # Nobody /\ h.user = e.user
        /\ Side(h) = Opposite(e)
    BY <2>1, UsersAssumption DEF Side, Opposite
  <2> HIDE DEF h
  <2>3. N = M \cup {h} /\ B = A \cup {e}
    BY <2>1, <2>2 DEF HouseGains, MadeOf, AdjustmentsOf
  <2> HIDE DEF M, N, A, B
  <2>4. UserSide(B) = UserSide(A) \cup {Opposite(e)}
    BY <2>3 DEF UserSide
  <2>5. HouseSide(N) = HouseSide(M) \cup {Side(h)}
    BY <2>2, <2>3 DEF HouseSide
  <2>6. AuditOf(audit', N, B)
    <3>1. /\ audit = {g.ref : g \in M} /\ \A g, k \in M : g.ref = k.ref => g = k
          /\ UserSide(A) = HouseSide(M)
      BY <1>1 DEF AuditOf
    <3>2. audit' = {g.ref : g \in N}
      BY <2>1, <2>2, <2>3, <3>1
    <3>3. \A g, k \in N : g.ref = k.ref => g = k
      BY <2>1, <2>2, <2>3, <3>1
    <3>4. UserSide(B) = HouseSide(N)
      BY <2>2, <2>4, <2>5, <3>1
    <3> QED
      BY <3>2, <3>3, <3>4 DEF AuditOf
  <2> QED
    BY <2>6, AuditIs DEF N, B
<1>11. ASSUME NEW h, AdjustsHouse(h) PROVE AuditTellsAdjustments'
  <2>1. /\ HouseGains(h) /\ h.ref \notin audit /\ audit' = audit \cup {h.ref}
        /\ ledger' = ledger /\ h.type = "ADJUSTMENT" /\ h.user = Nobody
    BY <1>11 DEF AdjustsHouse
  <2>2. N = M \cup {h} /\ B = A
    BY <2>1 DEF HouseGains, MadeOf
  <2> HIDE DEF M, N, A, B
  <2>3. HouseSide(N) = HouseSide(M)
    BY <2>1, <2>2 DEF HouseSide
  <2>4. AuditOf(audit', N, B)
    BY <1>1, <2>1, <2>2, <2>3 DEF AuditOf
  <2> QED
    BY <2>4, AuditIs DEF N, B
<1> QED
  BY <1>6, <1>7, <1>8, <1>9, <1>10, <1>11 DEF KindOfStep

-----------------------------------------------------------------------------
(* Every step is of one of the kinds.                                       *)

LEMMA LocalIs ==
    ASSUME TypeOK, NEW r \in Requests, pc[r] # "idle"
    PROVE  /\ req[r] \in Local /\ req[r].who \in Users /\ req[r].ref \in Ref
           /\ req[r].amount \in {Amount, -Amount} /\ req[r].amount \in Int
           /\ req[r].amount # 0 /\ req[r].kind \in Kind
           /\ Type(r) = "DEPOSIT" <=> req[r].amount > 0
           /\ Type(r) \in {"DEPOSIT", "WITHDRAW"}
           /\ req[r].amount > 0 => req[r].amount = Amount
           /\ Need(r) \in {0, Amount} /\ Need(r) \in {0, Debit(req[r].amount)}
           /\ Debit(req[r].amount) \in Nat
           /\ req[r].terms.status \in {"PENDING", "RECORDED", "FAILED"}
<1>1. req[r] \in Local /\ Amount \in Nat \ {0}
  BY AmountsAssumption DEF TypeOK
<1>2. req[r].terms \in Terms /\ req[r].amount \in {Amount, -Amount}
  BY <1>1 DEF Local
<1>3. req[r].terms.status \in {"PENDING", "RECORDED", "FAILED"}
  BY <1>2 DEF Terms
<1>4. Debit(req[r].amount) \in {0, Amount}
  BY <1>1, <1>2 DEF Debit
<1>5. Need(r) \in {0, Debit(req[r].amount)}
  BY DEF Need
<1> QED
  BY <1>1, <1>2, <1>3, <1>4, <1>5 DEF Local, Type

LEMMA OwnIs ==
    ASSUME NEW r, NEW status
    PROVE  /\ Own(r, status).user = req[r].who /\ Own(r, status).ref = req[r].ref
           /\ Own(r, status).type = Type(r) /\ Own(r, status).amount = req[r].amount
           /\ Own(r, status).status = status /\ Own(r, status).held = Need(r)
  BY DEF Own, Entry

LEMMA QuietKind ==
    ASSUME UNCHANGED <<moneyVars, audit, bet, exposed>>
    PROVE  KindOfStep
  BY DEF KindOfStep, Quiet, moneyVars

LEMMA WalletKind ==
    ASSUME NEW u \in Known, wallet' = WithWallet(u),
           UNCHANGED <<house, ledger, houseLedger, audit, bet, exposed>>
    PROVE  KindOfStep
  BY DEF KindOfStep, Quiet

LEMMA CreateKind ==
    ASSUME TypeOK, Rows, NEW r \in Requests, CreateTransaction(r)
    PROVE  KindOfStep
<1> DEFINE u == req[r].who
           n == Need(r)
           e == Own(r, req[r].terms.status)
<1>1. /\ u \in Users /\ req[r].ref \in Ref /\ req[r].amount \in Int
      /\ Type(r) \in {"DEPOSIT", "WITHDRAW"}
      /\ n \in {0, Amount} /\ n \in Nat
      /\ req[r].terms.status \in {"PENDING", "RECORDED", "FAILED"}
  BY LocalIs, AmountsAssumption DEF CreateTransaction
<1>2. CASE MayCreate(u, req[r].ref, Type(r), n)
  <2>1. /\ ledger' = ledger \cup {e} /\ wallet' = [wallet EXCEPT ![u].locked = @ + n]
        /\ UNCHANGED <<house, houseLedger, audit, bet, exposed>>
    BY <1>2 DEF CreateTransaction
  <2>2. /\ e.status # "COMPLETED" /\ e.type = Type(r) /\ e.user = u /\ e.ref = req[r].ref
        /\ e.held = n
    BY <1>1, OwnIs
  <2>3. e \in LedgerRow
    BY <1>1 DEF Own, Entry, LedgerRow, EntryType, Applied
  <2>4. /\ HasWallet(u) /\ (n > 0 => Available(u) >= n)
        /\ ~NameTaken(u, req[r].ref, Type(r))
    BY <1>2 DEF MayCreate
  <2> HIDE DEF e
  <2>5. Adds(e)
    BY <2>1, <2>2, <2>3, <2>4 DEF Adds
  <2>6. Changes(u, 0, n)
    <3>1. u \in DOMAIN wallet /\ wallet[u] \in Row /\ Fits(wallet[u])
      BY <2>4 DEF TypeOK, HasWallet
    <3> DEFINE w == [wallet[u] EXCEPT !.locked = @ + n]
    <3>2. /\ w \in Row /\ w.balance = wallet[u].balance + 0
          /\ w.locked = wallet[u].locked + n /\ Fits(w)
      BY <1>1, <2>4, <3>1 DEF Row, Fits, Available
    <3>3. wallet' = [wallet EXCEPT ![u] = w]
      BY <2>1
    <3> HIDE DEF w, u, n
    <3> QED
      BY <2>4, <3>1, <3>2, <3>3 DEF Changes, Rows
  <2>7. Creates(e)
    BY <1>1, <2>1, <2>2, <2>5, <2>6 DEF Creates
  <2> QED
    BY <2>7 DEF KindOfStep
<1>3. CASE ~MayCreate(u, req[r].ref, Type(r), n)
  BY <1>3, QuietKind DEF CreateTransaction, moneyVars
<1> QED
  BY <1>2, <1>3

LEMMA ApplyKind ==
    ASSUME TypeOK, Rows, EntriesHaveWallets, NEW r \in Requests, Ready(r), ApplyTransaction(r)
    PROVE  KindOfStep
<1> DEFINE u == req[r].who
           a == req[r].amount
           e == Own(r, "PENDING")
           w == Moved(wallet[u], a)
<1>1. /\ u \in Users /\ a \in Int /\ Type(r) \in {"DEPOSIT", "WITHDRAW"}
      /\ e \in ledger /\ Need(r) \in {0, Debit(a)} /\ Debit(a) \in Nat
  BY LocalIs DEF ApplyTransaction, Ready
<1>2. CASE Fits(w)
  <2>1. /\ ledger' = (ledger \ {e}) \cup {Own(r, "COMPLETED")}
        /\ wallet' = [wallet EXCEPT ![u] = w]
        /\ exposed' = IF Need(r) < Debit(a) THEN exposed \cup {u} ELSE exposed
        /\ UNCHANGED <<house, houseLedger, audit, bet>>
    BY <1>2 DEF ApplyTransaction
  <2>2. /\ e.status = "PENDING" /\ e.type = Type(r) /\ e.user = u /\ e.amount = a
        /\ e.held = Need(r) /\ Done(e) = Own(r, "COMPLETED")
    BY DEF Own, Entry, Done
  <2>3. u \in DOMAIN wallet /\ HasWallet(u)
    BY <1>1, <2>2 DEF EntriesHaveWallets, HasWallet
  <2>4. exposed' = IF Need(r) = Debit(a) THEN exposed ELSE exposed \cup {u}
    BY <1>1, <2>1
  <2> HIDE DEF e
  <2>5. Completes(e)
    BY <1>1, <2>1, <2>2 DEF Completes
  <2>6. Changes(u, a, -Debit(a))
    <3>1. wallet[u] \in Row
      BY <2>3 DEF TypeOK
    <3>2. /\ w \in Row /\ w.balance = wallet[u].balance + a
          /\ w.locked = wallet[u].locked + -Debit(a)
      BY <1>1, <3>1 DEF Moved, Row
    <3> HIDE DEF w, u
    <3> QED
      BY <1>2, <2>1, <2>3, <3>2 DEF Changes, Rows
  <2>7. Applies(e)
    BY <1>1, <2>1, <2>2, <2>4, <2>5, <2>6 DEF Applies
  <2> QED
    BY <2>7 DEF KindOfStep
<1>3. CASE ~Fits(w)
  BY <1>3, QuietKind DEF ApplyTransaction, moneyVars
<1> QED
  BY <1>2, <1>3

\* A share of a deposit, whatever rate is configured.
LEMMA RewardIs == Reward \in Nat /\ 100 * Reward <= Amount * Rate
<1>1. Rate \in 0..100
  BY AmountsAssumption DEF Rate
<1> DEFINE n == Amount * Rate
<1>2. n \in Nat
  <2>1. Amount \in Nat /\ Rate \in Nat
    BY <1>1, AmountsAssumption
  <2> QED
    BY <2>1
<1>3. Reward = n \div 100
  BY DEF Reward
<1> HIDE DEF n
<1>4. n \div 100 \in Nat /\ 100 * (n \div 100) <= n
  BY <1>2
<1> QED
  BY <1>3, <1>4 DEF n

LEMMA PayKind ==
    ASSUME TypeOK, Rows, ReferrersKnown, EntriesHaveWallets, NEW r \in Requests, Ready(r),
           PayReward(r)
    PROVE  KindOfStep
<1> DEFINE u == req[r].who
           by == referrer[u]
           e == Entry(by, RewardRef(r), "REWARD", Reward, "COMPLETED", 0)
<1>1. /\ u \in Users /\ req[r].ref \in Ref /\ Type(r) = "DEPOSIT" /\ req[r].amount = Amount
      /\ HasWallet(by) /\ NeverRewarded(r) /\ \E s \in Applied : Own(r, s) \in ledger
  BY LocalIs DEF PayReward, Ready, Moving, Paying
<1>0. PICK s \in Applied : Own(r, s) \in ledger
  BY <1>1
<1> DEFINE d == Own(r, s)
<1>2. /\ ledger' = ledger \cup {e} /\ wallet' = [wallet EXCEPT ![by].balance = @ + Reward]
      /\ UNCHANGED <<house, houseLedger, audit, bet, exposed>>
  BY DEF PayReward, Completed
<1>3. /\ d.user = u /\ d.ref = req[r].ref /\ d.type = "DEPOSIT" /\ d.status \in Applied
      /\ d.amount = Amount /\ d \in ledger
  BY <1>0, <1>1, OwnIs
<1>4. by \in Users
  BY <1>1 DEF TypeOK, HasWallet
<1>5. /\ e.user = by /\ e.ref = RewardRef(r) /\ e.type = "REWARD" /\ e.status = "COMPLETED"
      /\ e.amount = Reward
  BY DEF Entry
<1>6. RewardRef(r) \in Rewarded /\ RewardRef(r)[2] = u /\ RewardRef(r)[3] = req[r].ref
  BY <1>1 DEF RewardRef, Rewarded
<1>7. e \in LedgerRow
  BY <1>4, <1>6, RewardIs DEF Entry, LedgerRow, EntryType, Applied
<1> HIDE DEF e, d
<1>8. Adds(e)
  BY <1>1, <1>2, <1>5, <1>7 DEF Adds, NameTaken, NeverRewarded
<1>9. Changes(by, Reward, 0)
  <2>1. by \in DOMAIN wallet /\ wallet[by] \in Row /\ Fits(wallet[by])
    BY <1>1 DEF TypeOK, HasWallet
  <2> DEFINE w == [wallet[by] EXCEPT !.balance = @ + Reward]
  <2>2. /\ w \in Row /\ w.balance = wallet[by].balance + Reward
        /\ w.locked = wallet[by].locked + 0 /\ Fits(w)
    BY <2>1, RewardIs DEF Row, Fits
  <2>3. wallet' = [wallet EXCEPT ![by] = w]
    BY <1>2
  <2> HIDE DEF w, by
  <2> QED
    BY <1>1, <2>1, <2>2, <2>3 DEF Changes, Rows
<1>10. RewardOf(e, d)
  BY <1>1, <1>3, <1>5, <1>6, RewardIs DEF RewardOf
<1>11. Pays(e)
  BY <1>2, <1>5, <1>8, <1>9, <1>10 DEF Pays
<1> QED
  BY <1>11 DEF KindOfStep

LEMMA AdjustKind ==
    ASSUME TypeOK, Rows, NEW r \in Requests, AdjustUserWallet(r)
    PROVE  KindOfStep
<1> DEFINE u == req[r].who
           a == req[r].amount
           e == Entry(u, req[r].ref, "ADJUSTMENT", a, "COMPLETED", 0)
           h == [user |-> u, ref |-> req[r].ref, type |-> "ADJUSTMENT", amount |-> -a]
<1>1. u \in Users /\ req[r].ref \in Ref /\ a \in Int /\ house \in Nat
  BY LocalIs DEF AdjustUserWallet, TypeOK
<1>2. CASE MayAdjust(r)
  <2>1. /\ ledger' = ledger \cup {e} /\ wallet' = [wallet EXCEPT ![u].balance = @ + a]
        /\ house' = house + -a /\ houseLedger' = houseLedger \cup {h}
        /\ audit' = audit \cup {req[r].ref} /\ UNCHANGED <<bet, exposed>>
    BY <1>2 DEF AdjustUserWallet, Completed, HouseMoves
  <2>2. /\ HasWallet(u) /\ (a < 0 => Available(u) >= -a)
        /\ ~NameTaken(u, req[r].ref, "ADJUSTMENT")
        /\ house + -a >= 0 /\ req[r].ref \notin audit
    BY <1>1, <1>2 DEF MayAdjust, MayCreate, HouseCovers, Debit
  <2>3. /\ e.user = u /\ e.ref = req[r].ref /\ e.type = "ADJUSTMENT" /\ e.amount = a
        /\ e.status = "COMPLETED" /\ e \in LedgerRow
    BY <1>1 DEF Entry, LedgerRow, EntryType, Applied
  <2>4. h \in HouseRow /\ h.amount = -a
    BY <1>1 DEF HouseRow
  <2> HIDE DEF e
  <2>5. Adds(e)
    BY <2>1, <2>2, <2>3 DEF Adds
  <2>6. HouseGains(h)
    <3> HIDE DEF h
    <3> QED
      BY <1>1, <2>1, <2>2, <2>4 DEF HouseGains
  <2>7. Changes(u, a, 0)
    <3>1. u \in DOMAIN wallet /\ wallet[u] \in Row /\ Fits(wallet[u])
      BY <2>2 DEF TypeOK, HasWallet
    <3> DEFINE w == [wallet[u] EXCEPT !.balance = @ + a]
    <3>2. /\ w \in Row /\ w.balance = wallet[u].balance + a
          /\ w.locked = wallet[u].locked + 0 /\ Fits(w)
      BY <1>1, <2>2, <3>1 DEF Row, Fits, Available
    <3>3. wallet' = [wallet EXCEPT ![u] = w]
      BY <2>1
    <3> HIDE DEF w, u
    <3> QED
      BY <2>2, <3>1, <3>2, <3>3 DEF Changes, Rows
  <2>8. Adjusts(e)
    BY <1>1, <2>1, <2>2, <2>3, <2>5, <2>6, <2>7 DEF Adjusts
  <2> QED
    BY <2>8 DEF KindOfStep
<1>3. CASE ~MayAdjust(r)
  BY <1>3, QuietKind DEF AdjustUserWallet, moneyVars
<1> QED
  BY <1>2, <1>3

LEMMA AdjustHouseKind ==
    ASSUME TypeOK, NEW r \in Requests, AdjustHouseWallet(r)
    PROVE  KindOfStep
<1> DEFINE a == req[r].amount
           h == [user |-> Nobody, ref |-> req[r].ref, type |-> "ADJUSTMENT", amount |-> a]
<1>1. req[r].ref \in Ref /\ a \in Int /\ house \in Nat
  BY LocalIs DEF AdjustHouseWallet, TypeOK
<1>2. CASE MayAdjustHouse(r)
  <2>1. /\ house' = house + a /\ houseLedger' = houseLedger \cup {h}
        /\ audit' = audit \cup {req[r].ref} /\ UNCHANGED <<wallet, ledger, bet, exposed>>
        /\ house + a >= 0 /\ req[r].ref \notin audit
    BY <1>2 DEF AdjustHouseWallet, HouseMoves, MayAdjustHouse, HouseCovers
  <2>2. /\ h \in HouseRow /\ h.amount = a /\ h.user = Nobody /\ h.type = "ADJUSTMENT"
        /\ h.ref = req[r].ref
    BY <1>1 DEF HouseRow
  <2> HIDE DEF h
  <2>3. AdjustsHouse(h)
    BY <1>1, <2>1, <2>2 DEF AdjustsHouse, HouseGains
  <2> QED
    BY <2>3 DEF KindOfStep
<1>3. CASE ~MayAdjustHouse(r)
  BY <1>3, QuietKind DEF AdjustHouseWallet, moneyVars
<1> QED
  BY <1>2, <1>3

LEMMA FundKind ==
    ASSUME TypeOK, FundsDone, NEW r \in Requests, Ready(r), FundTreasury(r)
    PROVE  /\ KindOfStep
           /\ \A h \in houseLedger' : h \in houseLedger \/ h.ref = <<"dev", r>>
<1> DEFINE h == [user |-> Nobody, ref |-> req[r].ref, type |-> "HOUSE_FUND",
                 amount |-> Amount]
<1>1. /\ req[r].ref \in Ref /\ Amount \in Nat /\ house \in Nat /\ req[r].ref = <<"dev", r>>
      /\ pc[r] = "fund"
  BY LocalIs, AmountsAssumption DEF FundTreasury, TypeOK, Ready
<1>2. /\ house' = house + Amount /\ houseLedger' = houseLedger \cup {h}
      /\ UNCHANGED <<wallet, ledger, audit, bet, exposed>>
  BY DEF FundTreasury, HouseMoves
<1>3. /\ h \in HouseRow /\ h.amount = Amount /\ h.user = Nobody /\ h.type = "HOUSE_FUND"
      /\ h.ref = req[r].ref
  BY <1>1 DEF HouseRow
<1>4. \A g \in houseLedger : g.type = "HOUSE_FUND" => g.ref # req[r].ref
  BY <1>1 DEF FundsDone
<1> HIDE DEF h
<1>5. FundsHouse(h)
  BY <1>1, <1>2, <1>3, <1>4 DEF FundsHouse, HouseGains
<1> QED
  BY <1>1, <1>2, <1>3, <1>5 DEF KindOfStep

LEMMA PlaceKind ==
    ASSUME TypeOK, Rows, NEW u \in Users, PlaceStake(u)
    PROVE  KindOfStep
<1>1. /\ u \in DOMAIN wallet /\ Available(u) >= Amount /\ bet[u] = "none"
      /\ wallet' = [wallet EXCEPT ![u].locked = @ + Amount]
      /\ bet' = [bet EXCEPT ![u] = "placed"]
      /\ UNCHANGED <<house, ledger, houseLedger, audit, exposed>>
  BY DEF PlaceStake, HasSession, TypeOK
<1> DEFINE w == [wallet[u] EXCEPT !.locked = @ + Amount]
<1>2. wallet[u] \in Row /\ Fits(wallet[u])
  BY <1>1 DEF TypeOK
<1>3. /\ w \in Row /\ w.balance = wallet[u].balance + 0
      /\ w.locked = wallet[u].locked + Amount /\ Fits(w)
  BY <1>1, <1>2, AmountsAssumption DEF Row, Fits, Available
<1>4. wallet' = [wallet EXCEPT ![u] = w]
  BY <1>1
<1> HIDE DEF w
<1>5. Changes(u, 0, Amount)
  BY <1>1, <1>3, <1>4 DEF Changes, Rows, HasWallet
<1> QED
  BY <1>1, <1>5 DEF KindOfStep, Places

\* A stake is settled: e is its entry.
LEMMA SettleKind ==
    ASSUME TypeOK, Rows, BetsHaveWallets, BetsSettleOnce, NEW u \in Users, bet[u] = "placed",
           NEW type \in {"BET_LOSS_SETTLEMENT", "BET_WIN"}, NEW a \in Int,
           NEW how \in {"lost", "won"}, bet' = [bet EXCEPT ![u] = how],
           NEW w, wallet' = [wallet EXCEPT ![u] = w], Fits(w), w \in Row,
           w.balance = wallet[u].balance + a, w.locked = wallet[u].locked + -Amount,
           ledger' = ledger \cup {Entry(u, <<"bet", u>>, type, a, "COMPLETED", 0)},
           HouseMoves(u, <<"bet", u>>, type, -a), house + -a >= 0,
           UNCHANGED <<audit, exposed>>
    PROVE  KindOfStep
<1> DEFINE e == Entry(u, <<"bet", u>>, type, a, "COMPLETED", 0)
           h == [user |-> u, ref |-> <<"bet", u>>, type |-> type, amount |-> -a]
<1>1. <<"bet", u>> \in Ref
  BY DEF Ref
<1>2. /\ e.user = u /\ e.ref = <<"bet", u>> /\ e.type = type /\ e.amount = a
      /\ e.status = "COMPLETED" /\ e \in LedgerRow
  BY <1>1 DEF Entry, LedgerRow, EntryType, Applied
<1>3. /\ h \in HouseRow /\ h.amount = -a
      /\ h = [user |-> e.user, ref |-> e.ref, type |-> e.type, amount |-> -e.amount]
  BY <1>1, <1>2 DEF HouseRow
<1>4. house' = house + -a /\ houseLedger' = houseLedger \cup {h} /\ house \in Nat
  BY DEF HouseMoves, TypeOK
<1>5. HouseGains(h)
  <2> HIDE DEF h
  <2> QED
    BY <1>3, <1>4 DEF HouseGains
<1>6. u \in DOMAIN wallet
  BY DEF BetsHaveWallets, HasWallet
<1>7. ~NameTaken(u, <<"bet", u>>, type)
  BY DEF NameTaken, BetsSettleOnce
<1> HIDE DEF e, h
<1>8. Adds(e)
  BY <1>2, <1>6, <1>7 DEF Adds, HasWallet, e
<1>9. Changes(u, a, -Amount)
  BY <1>6 DEF Changes, Rows, HasWallet
<1>10. Settles(e, how)
  BY <1>1, <1>2, <1>3, <1>5, <1>8, <1>9 DEF Settles
<1> QED
  BY <1>10 DEF KindOfStep

LEMMA StakeKind ==
    ASSUME TypeOK, Rows, BetsHaveWallets, BetsSettleOnce, NEW u \in Users,
           LoseStake(u) \/ WinStake(u)
    PROVE  KindOfStep
<1>1. Amount \in Nat /\ -Amount \in Int /\ Profit \in Nat /\ house \in Nat
  BY AmountsAssumption DEF TypeOK
<1>2. bet[u] = "placed" /\ UNCHANGED <<audit, exposed>>
  BY DEF LoseStake, WinStake
<1>3. wallet[u] \in Row /\ Fits(wallet[u])
  BY <1>2 DEF TypeOK, BetsHaveWallets, HasWallet
<1>4. CASE LoseStake(u)
  <2> DEFINE w == Moved(wallet[u], -Amount)
  <2>1. /\ w \in Row /\ w.balance = wallet[u].balance + -Amount
        /\ w.locked = wallet[u].locked + -Amount
    BY <1>1, <1>3, AmountsAssumption DEF Moved, Row, Debit
  <2>2. /\ Fits(w) /\ wallet' = [wallet EXCEPT ![u] = w]
        /\ ledger' = ledger \cup
             {Entry(u, <<"bet", u>>, "BET_LOSS_SETTLEMENT", -Amount, "COMPLETED", 0)}
        /\ bet' = [bet EXCEPT ![u] = "lost"]
    BY <1>4 DEF LoseStake
  <2>3. -(-Amount) = Amount /\ house + Amount >= 0
    BY <1>1
  <2>4. HouseMoves(u, <<"bet", u>>, "BET_LOSS_SETTLEMENT", -(-Amount))
    BY <1>4, <2>3 DEF LoseStake
  <2> HIDE DEF w
  <2> QED
    BY <1>1, <1>2, <2>1, <2>2, <2>3, <2>4, SettleKind
<1>5. CASE WinStake(u)
  <2> DEFINE w == [balance |-> wallet[u].balance + Profit,
                   locked |-> wallet[u].locked - Amount]
  <2>1. wallet[u].locked >= Amount /\ house + -Profit >= 0
    BY <1>5 DEF WinStake, HouseCovers
  <2>4. /\ wallet[u].balance \in Int /\ wallet[u].locked \in Int
        /\ 0 <= wallet[u].locked /\ wallet[u].locked <= wallet[u].balance
    BY <1>3 DEF Row, Fits
  <2>2. /\ w \in Row /\ w.balance = wallet[u].balance + Profit
        /\ w.locked = wallet[u].locked + -Amount /\ Fits(w)
    BY <1>1, <2>1, <2>4 DEF Row, Fits
  <2>3. /\ wallet' = [wallet EXCEPT ![u] = w]
        /\ ledger' = ledger \cup {Entry(u, <<"bet", u>>, "BET_WIN", Profit, "COMPLETED", 0)}
        /\ HouseMoves(u, <<"bet", u>>, "BET_WIN", -Profit)
        /\ bet' = [bet EXCEPT ![u] = "won"]
    BY <1>5 DEF WinStake, w
  <2>6. Profit \in Int /\ "BET_WIN" \in {"BET_LOSS_SETTLEMENT", "BET_WIN"}
        /\ "won" \in {"lost", "won"}
    BY <1>1
  <2> QED
    BY <1>2, <2>1, <2>2, <2>3, <2>6, SettleKind
<1> QED
  BY <1>4, <1>5

LEMMA RepairKind ==
    ASSUME RepairLockedBalances
    PROVE  KindOfStep
<1> DEFINE Locked == {u \in DOMAIN wallet : wallet[u].locked > 0}
           Ok == {u \in Locked : Staked(u) <= wallet[u].balance}
<1>1. PICK S \in SUBSET Ok :
          /\ wallet' = [u \in DOMAIN wallet |->
               IF u \in S THEN [wallet[u] EXCEPT !.locked = Staked(u)] ELSE wallet[u]]
          /\ exposed' = exposed \cup {u \in S : Pending(u) > 0}
  BY DEF RepairLockedBalances
<1>2. RepairsOf(S)
  BY <1>1 DEF RepairsOf, RepairLockedBalances
<1> QED
  BY <1>2 DEF KindOfStep

-----------------------------------------------------------------------------
(* The requests.                                                            *)

LEMMA SameRequest ==
    ASSUME NEW s, req'[s] = req[s]
    PROVE  /\ \A status : Own(s, status)' = Own(s, status)
           /\ RewardRef(s)' = RewardRef(s) /\ Type(s)' = Type(s)
  BY DEF Own, Need, RewardRef, Type

\* How a request begins.
LEMMA BeginIs ==
    ASSUME TypeOK, NEW r \in Requests, Begin(r)
    PROVE  \E first \in {"user", "create", "audit", "fund"}, kind \in Kind, u \in Users,
              amount \in {Amount, -Amount}, ref \in Ref, cand \in Users \cup {Nobody},
              terms \in Terms :
              /\ Start(r, first, kind, u, amount, ref, cand, terms)
              /\ first = "user" => cand \in (Known \ {u}) \cup {Nobody}
              /\ first = "fund" => ref = <<"dev", r>>
              /\ first = "audit" => kind \in {"adjust", "treasury"}
<1> DEFINE Goal == \E first \in {"user", "create", "audit", "fund"}, kind \in Kind, u \in Users,
              amount \in {Amount, -Amount}, ref \in Ref, cand \in Users \cup {Nobody},
              terms \in Terms :
              /\ Start(r, first, kind, u, amount, ref, cand, terms)
              /\ first = "user" => cand \in (Known \ {u}) \cup {Nobody}
              /\ first = "fund" => ref = <<"dev", r>>
              /\ first = "audit" => kind \in {"adjust", "treasury"}
<1>1. /\ <<"dev", r>> \in Ref /\ \A ref \in Refs : <<"call", ref>> \in Ref /\ <<"admin", ref>> \in Ref
      /\ {"login", "deposit", "withdraw", "internal", "adjust", "treasury", "fund"} \subseteq Kind
      /\ Founder \in Users /\ Usual \in Terms
  BY UsersAssumption DEF Ref, Kind, Usual, Terms
<1>2. ASSUME NEW u \in Users, NEW link \in Users \cup {Nobody}, BeginLogin(r, u, link)
      PROVE  Goal
  <2>1. PICK cand \in Users \cup {Nobody} : /\ cand \in (Known \ {u}) \cup {Nobody}
                  /\ Start(r, "user", "login", u, Amount, <<"dev", r>>, cand, Usual)
    BY <1>2 DEF BeginLogin
  <2> QED
    BY <1>1, <2>1
<1>3. ASSUME NEW u \in Users, BeginDeposit(r, u) \/ BeginWithdraw(r, u)
      PROVE  Goal
  BY <1>1, <1>3 DEF BeginDeposit, BeginWithdraw
<1>4. ASSUME NEW u \in Users, NEW amount \in {Amount, -Amount}, NEW ref \in Refs,
             NEW terms \in CallerTerms, BeginInternal(r, u, amount, ref, terms)
      PROVE  Goal
  BY <1>1, <1>4, TermsAssumption DEF BeginInternal
<1>5. ASSUME NEW u \in Users, NEW kind \in {"adjust", "treasury"},
             NEW amount \in {Amount, -Amount}, NEW ref \in Refs,
             BeginAdmin(r, u, kind, amount, ref)
      PROVE  Goal
  BY <1>1, <1>5 DEF BeginAdmin
<1>6. ASSUME BeginFund(r, Founder)
      PROVE  Goal
  BY <1>1, <1>6 DEF BeginFund
<1>0. SUFFICES Goal
  OBVIOUS
<1> HIDE DEF Goal
<1>7. "adjust" \in {"adjust", "treasury"} /\ "treasury" \in {"adjust", "treasury"}
  OBVIOUS
<1>8. CASE \E u \in Users, link \in Users \cup {Nobody} : BeginLogin(r, u, link)
  BY <1>2, <1>8
<1>9. CASE \E u \in Users : BeginDeposit(r, u) \/ BeginWithdraw(r, u)
  BY <1>3, <1>9
<1>10. CASE \E u \in Users, amount \in {Amount, -Amount}, ref \in Refs :
             \/ \E terms \in CallerTerms : BeginInternal(r, u, amount, ref, terms)
             \/ BeginAdmin(r, u, "adjust", amount, ref)
  <2>1. PICK u \in Users, amount \in {Amount, -Amount}, ref \in Refs :
             \/ \E terms \in CallerTerms : BeginInternal(r, u, amount, ref, terms)
             \/ BeginAdmin(r, u, "adjust", amount, ref)
    BY <1>10
  <2> QED
    BY <1>4, <1>5, <1>7, <2>1
<1>11. CASE \E amount \in {Amount, -Amount}, ref \in Refs :
             BeginAdmin(r, Founder, "treasury", amount, ref)
  <2>1. PICK amount \in {Amount, -Amount}, ref \in Refs :
             BeginAdmin(r, Founder, "treasury", amount, ref)
    BY <1>11
  <2> QED
    BY <1>1, <1>5, <1>7, <2>1
<1> QED
  BY <1>6, <1>8, <1>9, <1>10, <1>11 DEF Begin

\* A step takes its request, and no other, to its next place.
LEMMA StepMoves ==
    ASSUME TypeOK, NEW r \in Requests, Ready(r), Step(r) \/ RequestDies(r)
    PROVE  /\ pc[r] \notin {"idle", "done"} /\ req' = req
           /\ \E x \in PC \ {"idle"} : pc' = [pc EXCEPT ![r] = x]
           /\ boots' = boots /\ faults' \in 0..MaxFaults
<1>1. {"user", "wallets", "session", "create", "apply", "move", "referral", "reward", "audit",
       "adjust", "treasury", "fund", "done"} \subseteq PC \ {"idle"}
  BY DEF PC
<1>2. faults \in 0..MaxFaults
  BY DEF TypeOK
<1>3. CASE UpsertUser(r) \/ UpsertWallets(r) \/ CreateSession(r)
  BY <1>1, <1>2, <1>3 DEF UpsertUser, UpsertWallets, CreateSession, Goto, Answer
<1>4. CASE CreateTransaction(r)
  BY <1>1, <1>2, <1>4 DEF CreateTransaction, AfterCreate, AfterApply, Goto, Answer
<1>5. CASE ReadEntry(r) \/ ApplyTransaction(r)
  BY <1>1, <1>2, <1>5 DEF ReadEntry, ApplyTransaction, AfterApply, Goto, Answer
<1>6. CASE FindReferrer(r) \/ PayReward(r)
  BY <1>1, <1>2, <1>6 DEF FindReferrer, PayReward, Goto, Answer
<1>7. CASE FindAudit(r)
  BY <1>1, <1>2, <1>7 DEF FindAudit, Goto, Ready
<1>8. CASE AdjustUserWallet(r) \/ AdjustHouseWallet(r) \/ FundTreasury(r)
  BY <1>1, <1>2, <1>8 DEF AdjustUserWallet, AdjustHouseWallet, FundTreasury, Goto, Answer
<1>9. CASE RequestDies(r)
  <2>1. faults' = faults + 1 /\ faults < MaxFaults /\ boots' = boots
    BY <1>9 DEF RequestDies
  <2>2. faults' \in 0..MaxFaults
    BY <1>2, <2>1, BoundsAssumption
  <2>3. pc[r] \notin {"idle", "done"} /\ req' = req /\ pc' = [pc EXCEPT ![r] = "done"]
    BY <1>9 DEF RequestDies, Goto, Answer
  <2> QED
    BY <1>1, <2>1, <2>2, <2>3
<1> QED
  BY <1>3, <1>4, <1>5, <1>6, <1>7, <1>8, <1>9 DEF Step

\* The request after it has begun or stepped, and the others.
LEMMA RequestsKept ==
    ASSUME TypeOK, Rows, NEW r \in Requests, Ready(r), Begin(r) \/ Step(r) \/ RequestDies(r)
    PROVE  /\ pc' \in [Requests -> PC] /\ req' \in [Requests -> Local \cup {Nobody}]
           /\ \A s \in Requests : pc'[s] # "idle" => req'[s] \in Local
           /\ \A s \in Requests : s # r => pc'[s] = pc[s] /\ req'[s] = req[s]
           /\ pc[r] # "done" /\ pc'[r] # "idle"
           /\ boots' = boots /\ faults' \in 0..MaxFaults
<1>1. /\ pc \in [Requests -> PC] /\ req \in [Requests -> Local \cup {Nobody}]
      /\ \A s \in Requests : pc[s] # "idle" => req[s] \in Local
      /\ faults \in 0..MaxFaults
  BY DEF TypeOK, Rows
<1>2. CASE Begin(r)
  <2>1. PICK first \in {"user", "create", "audit", "fund"}, kind \in Kind, u \in Users,
              amount \in {Amount, -Amount}, ref \in Ref, cand \in Users \cup {Nobody},
              terms \in Terms :
              /\ Start(r, first, kind, u, amount, ref, cand, terms)
              /\ first = "user" => cand \in (Known \ {u}) \cup {Nobody}
              /\ first = "fund" => ref = <<"dev", r>>
              /\ first = "audit" => kind \in {"adjust", "treasury"}
    BY <1>2, BeginIs
  <2> DEFINE l == [kind |-> kind, who |-> u, amount |-> amount, ref |-> ref, cand |-> cand,
                   terms |-> terms]
  <2>2. l \in Local /\ first \in PC /\ first # "idle"
    BY DEF Local, PC
  <2>3. /\ pc[r] = "idle" /\ pc' = [pc EXCEPT ![r] = first] /\ req' = [req EXCEPT ![r] = l]
        /\ boots' = boots /\ faults' = faults
    BY <2>1 DEF Start
  <2> HIDE DEF l
  <2> QED
    BY <1>1, <2>2, <2>3
<1>3. CASE Step(r) \/ RequestDies(r)
  <2>1. /\ pc[r] \notin {"idle", "done"} /\ req' = req
        /\ \E x \in PC \ {"idle"} : pc' = [pc EXCEPT ![r] = x]
        /\ boots' = boots /\ faults' \in 0..MaxFaults
    BY <1>3, StepMoves
  <2> QED
    BY <1>1, <2>1
<1> QED
  BY <1>2, <1>3

-----------------------------------------------------------------------------
(* What a request leaves to the others, and to itself.                      *)

\* No step removes an entry, rewards or funds the treasury but these.
Leaves(r) ==
    /\ \A d \in ledger : d \in ledger' \/ (pc[r] = "move" /\ d = Own(r, "PENDING"))
    /\ \A d \in ledger' : d.type = "REWARD" =>
          d \in ledger \/ (pc[r] = "reward" /\ d.ref = RewardRef(r))
    /\ \A h \in houseLedger : h \in houseLedger'
    /\ \A h \in houseLedger' : h.type = "HOUSE_FUND" =>
          h \in houseLedger \/ (h.ref = <<"dev", r>> /\ pc'[r] = "done")

LEMMA LeavesAll ==
    ASSUME NEW r, UNCHANGED <<ledger, houseLedger>>
    PROVE  Leaves(r)
  BY DEF Leaves

LEMMA StepLeaves ==
    ASSUME TypeOK, FundsDone, NEW r \in Requests, Ready(r), Step(r) \/ RequestDies(r)
    PROVE  Leaves(r)
<1>1. /\ pc[r] # "idle" /\ pc \in [Requests -> PC]
      /\ Type(r) # "REWARD" /\ "ADJUSTMENT" # "REWARD"
  BY StepMoves, LocalIs DEF TypeOK
<1>2. CASE UNCHANGED <<ledger, houseLedger>>
  BY <1>2, LeavesAll
<1>3. CASE CreateTransaction(r)
  <2> DEFINE e == Own(r, req[r].terms.status)
  <2>1. (ledger' = ledger \/ ledger' = ledger \cup {e}) /\ UNCHANGED houseLedger
    BY <1>3 DEF CreateTransaction
  <2>2. e.type = Type(r)
    BY OwnIs
  <2> HIDE DEF e
  <2> QED
    BY <1>1, <2>1, <2>2 DEF Leaves
<1>4. CASE ApplyTransaction(r)
  <2>1. /\ \/ ledger' = ledger
           \/ ledger' = (ledger \ {Own(r, "PENDING")}) \cup {Own(r, "COMPLETED")}
        /\ UNCHANGED houseLedger /\ pc[r] = "move"
    BY <1>4 DEF ApplyTransaction
  <2>2. Own(r, "COMPLETED").type = Type(r)
    BY OwnIs
  <2> QED
    BY <1>1, <2>1, <2>2 DEF Leaves
<1>5. CASE PayReward(r)
  <2> DEFINE e == Entry(referrer[req[r].who], RewardRef(r), "REWARD", Reward, "COMPLETED", 0)
  <2>1. ledger' = ledger \cup {e} /\ UNCHANGED houseLedger /\ pc[r] = "reward"
    BY <1>5 DEF PayReward, Completed
  <2>2. e.ref = RewardRef(r)
    BY DEF Entry
  <2> HIDE DEF e
  <2> QED
    BY <2>1, <2>2 DEF Leaves
<1>6. CASE AdjustUserWallet(r)
  <2> DEFINE e == Entry(req[r].who, req[r].ref, "ADJUSTMENT", req[r].amount, "COMPLETED", 0)
             h == [user |-> req[r].who, ref |-> req[r].ref, type |-> "ADJUSTMENT",
                   amount |-> -req[r].amount]
  <2>1. \/ UNCHANGED <<ledger, houseLedger>>
        \/ ledger' = ledger \cup {e} /\ houseLedger' = houseLedger \cup {h}
    BY <1>6 DEF AdjustUserWallet, Completed, HouseMoves, moneyVars
  <2>2. e.type = "ADJUSTMENT" /\ h.type = "ADJUSTMENT"
    BY DEF Entry
  <2> HIDE DEF e, h
  <2> QED
    BY <2>1, <2>2 DEF Leaves
<1>7. CASE AdjustHouseWallet(r)
  <2> DEFINE h == [user |-> Nobody, ref |-> req[r].ref, type |-> "ADJUSTMENT",
                   amount |-> req[r].amount]
  <2>1. UNCHANGED ledger /\ (houseLedger' = houseLedger \/ houseLedger' = houseLedger \cup {h})
    BY <1>7 DEF AdjustHouseWallet, HouseMoves
  <2>2. h.type = "ADJUSTMENT"
    OBVIOUS
  <2> HIDE DEF h
  <2> QED
    BY <2>1, <2>2 DEF Leaves
<1>8. CASE FundTreasury(r)
  <2>1. \A h \in houseLedger' : h \in houseLedger \/ h.ref = <<"dev", r>>
    BY <1>8, FundKind
  <2>2. UNCHANGED ledger /\ pc'[r] = "done" /\ \A h \in houseLedger : h \in houseLedger'
    BY <1>1, <1>8 DEF FundTreasury, HouseMoves, Answer, Goto
  <2> QED
    BY <2>1, <2>2 DEF Leaves
<1>9. CASE UpsertUser(r) \/ UpsertWallets(r) \/ CreateSession(r) \/ ReadEntry(r)
           \/ FindReferrer(r) \/ FindAudit(r) \/ RequestDies(r)
  BY <1>2, <1>9 DEF UpsertUser, UpsertWallets, CreateSession, ReadEntry, FindReferrer,
     FindAudit, RequestDies, moneyVars
<1> QED
  BY <1>3, <1>4, <1>5, <1>6, <1>7, <1>8, <1>9 DEF Step

\* The users after a step.
PeopleKept ==
    /\ Known \subseteq Known' /\ \A u \in Known : referrer'[u] = referrer[u]
    /\ ReferrersKnown' /\ Known' \subseteq Users
    /\ \A u \in Known' : referrer'[u] \in (Users \ {u}) \cup {Nobody}
    /\ \A u \in session' : u \in session \/ HasWallet(u)

LEMMA SamePeople ==
    ASSUME TypeOK, ReferrersKnown, UNCHANGED rowVars
    PROVE  PeopleKept
<1>1. referrer' = referrer /\ session' = session /\ Known' = Known
  BY DEF rowVars, Known
<1> QED
  BY <1>1 DEF PeopleKept, TypeOK, ReferrersKnown

LEMMA StepPeople ==
    ASSUME TypeOK, ReferrersKnown, NEW r \in Requests, Ready(r),
           Begin(r) \/ Step(r) \/ RequestDies(r)
    PROVE  PeopleKept
<1>1. CASE UNCHANGED rowVars
  BY <1>1, SamePeople
<1>2. CASE UpsertUser(r)
  <2> DEFINE u == req[r].who
             c == req[r].cand
  <2>1. /\ referrer' = Upserted(referrer, u, c) /\ session' = session
        /\ c \in (Known \ {u}) \cup {Nobody} /\ u \in Users
    BY <1>2, LocalIs DEF UpsertUser, Ready
  <2>2. /\ Known' = Known \cup {u} /\ \A v \in Known : referrer'[v] = referrer[v]
        /\ u \notin Known => referrer'[u] = c
    BY <2>1 DEF Known, Upserted
  <2>3. Known \subseteq Users /\ \A v \in Known : referrer[v] \in (Known \ {v}) \cup {Nobody}
    BY DEF TypeOK, ReferrersKnown
  <2> HIDE DEF u, c
  <2>4. \A v \in Known' : referrer'[v] \in (Known \ {v}) \cup {Nobody}
    BY <2>1, <2>2, <2>3
  <2> QED
    BY <2>1, <2>2, <2>3, <2>4 DEF PeopleKept, ReferrersKnown
<1>3. CASE CreateSession(r)
  <2>1. /\ referrer' = referrer /\ session' = session \cup {req[r].who} /\ Known' = Known
        /\ HasWallet(req[r].who)
    BY <1>3 DEF CreateSession, Ready, Known
  <2> QED
    BY <2>1 DEF PeopleKept, TypeOK, ReferrersKnown
<1>4. CASE Begin(r)
  <2>1. UNCHANGED rowVars
    BY <1>4, BeginIs DEF Start
  <2> QED
    BY <2>1, <1>1
<1>5. CASE UpsertWallets(r) \/ CreateTransaction(r) \/ ReadEntry(r) \/ ApplyTransaction(r)
           \/ FindReferrer(r) \/ PayReward(r) \/ FindAudit(r) \/ AdjustUserWallet(r)
           \/ AdjustHouseWallet(r) \/ FundTreasury(r) \/ RequestDies(r)
  BY <1>1, <1>5 DEF UpsertWallets, CreateTransaction, ReadEntry, ApplyTransaction, FindReferrer,
     PayReward, FindAudit, AdjustUserWallet, AdjustHouseWallet, FundTreasury, RequestDies
<1> QED
  BY <1>2, <1>3, <1>4, <1>5 DEF Step

\* Every step of a request is of one of the kinds.
LEMMA RequestKind ==
    ASSUME IInv, NEW r \in Requests, Begin(r) \/ Step(r) \/ RequestDies(r)
    PROVE  KindOfStep
<1>0. Ready(r) /\ TypeOK /\ Rows /\ ReferrersKnown /\ EntriesHaveWallets /\ FundsDone
  BY DEF IInv, AllReady
<1>1. CASE Begin(r)
  BY <1>0, <1>1, BeginIs, QuietKind DEF Start
<1>2. CASE UpsertWallets(r)
  BY <1>0, <1>2, WalletKind DEF UpsertWallets, Ready
<1>3. CASE FindReferrer(r)
  <2> DEFINE by == referrer[req[r].who]
  <2>1. req[r].who \in Known /\ pc[r] = "referral"
    <3>1. pc[r] = "referral" /\ \E s \in Applied : Own(r, s) \in ledger
      BY <1>0, <1>3 DEF FindReferrer, Ready, Paying
    <3>0. PICK s \in Applied : Own(r, s) \in ledger
      BY <3>1
    <3>2. HasWallet(Own(r, s).user)
      BY <1>0, <3>0 DEF EntriesHaveWallets
    <3> QED
      BY <1>0, <3>1, <3>2, OwnIs DEF HasWallet, TypeOK
  <2>2. by # Nobody => by \in Known
    BY <1>0, <2>1 DEF ReferrersKnown
  <2>3. UNCHANGED <<house, ledger, houseLedger, audit, bet, exposed>>
    BY <1>3 DEF FindReferrer
  <2>4. UNCHANGED wallet \/ (by # Nobody /\ wallet' = WithWallet(by))
    BY <1>3 DEF FindReferrer
  <2> HIDE DEF by
  <2>5. CASE UNCHANGED wallet
    BY <2>3, <2>5, QuietKind DEF moneyVars
  <2>6. CASE by # Nobody /\ wallet' = WithWallet(by)
    BY <2>2, <2>3, <2>6, WalletKind
  <2> QED
    BY <2>4, <2>5, <2>6
<1>4. CASE CreateTransaction(r)
  BY <1>0, <1>4, CreateKind
<1>5. CASE ApplyTransaction(r)
  BY <1>0, <1>5, ApplyKind
<1>6. CASE PayReward(r)
  BY <1>0, <1>6, PayKind
<1>7. CASE AdjustUserWallet(r)
  BY <1>0, <1>7, AdjustKind
<1>8. CASE AdjustHouseWallet(r)
  BY <1>0, <1>8, AdjustHouseKind
<1>9. CASE FundTreasury(r)
  BY <1>0, <1>9, FundKind
<1>10. CASE UpsertUser(r) \/ CreateSession(r) \/ ReadEntry(r) \/ FindAudit(r) \/ RequestDies(r)
  BY <1>10, QuietKind DEF UpsertUser, CreateSession, ReadEntry, FindAudit, RequestDies
<1> QED
  BY <1>1, <1>2, <1>3, <1>4, <1>5, <1>6, <1>7, <1>8, <1>9, <1>10 DEF Step

-----------------------------------------------------------------------------
(* Requests stay ready, and apart.                                          *)

\* What the others rely on is left to them.
LEMMA OthersReady ==
    ASSUME NEW r \in Requests, NEW s \in Requests, s # r, AllReady, OneMover,
           Leaves(r), PeopleKept, DOMAIN wallet \subseteq DOMAIN wallet',
           EntriesHaveWallets, DOMAIN wallet \subseteq Known,
           pc'[s] = pc[s], req'[s] = req[s]
    PROVE  Ready(s)'
<1>1. Ready(r) /\ Ready(s)
  BY DEF AllReady
<1>2. /\ \A status : Own(s, status)' = Own(s, status)
      /\ RewardRef(s)' = RewardRef(s)
  BY SameRequest
<1>3. ASSUME NEW x, pc[s] \in Moving \cup Paying, Own(s, x) \in ledger
      PROVE  Own(s, x) \in ledger'
  <2> SUFFICES ASSUME pc[r] = "move", Own(s, x) = Own(r, "PENDING")
               PROVE  FALSE
    BY <1>3 DEF Leaves
  <2>1. SameName(r, s)
    BY OwnIs DEF SameName
  <2> QED
    BY <1>3, <2>1 DEF OneMover, Mover, Moving
<1>4. /\ pc[s] = "apply" => Own(s, req[s].terms.status) \in ledger'
      /\ pc[s] = "move" => Own(s, "PENDING") \in ledger'
      /\ pc[s] \in Paying => \E x \in Applied : Own(s, x) \in ledger'
  BY <1>1, <1>3 DEF Ready, Moving, Paying
<1>5. (pc[s] \in Moving \cup Paying /\ req[s].amount > 0) => NeverRewarded(s)'
  <2> SUFFICES ASSUME pc[s] \in Moving \cup Paying, req[s].amount > 0, pc[r] = "reward",
                      RewardRef(r) = RewardRef(s)
               PROVE  FALSE
    BY <1>1, <1>2 DEF Leaves, NeverRewarded, Ready
  <2>1. req[r].who = req[s].who /\ req[r].ref = req[s].ref
    BY DEF RewardRef
  <2>2. req[r].amount > 0
    BY <1>1 DEF Ready, Paying
  <2>3. SameName(r, s)
    BY <2>1, <2>2 DEF SameName, Type
  <2> QED
    BY <2>3 DEF OneMover, Mover, Paying
<1>6. pc[s] = "user" => req[s].cand \in (Known' \ {req[s].who}) \cup {Nobody}
  BY <1>1 DEF Ready, PeopleKept
<1>7. pc[s] = "wallets" => req[s].who \in Known'
  BY <1>1 DEF Ready, PeopleKept
<1>8. pc[s] = "session" => HasWallet(req[s].who)'
  BY <1>1 DEF Ready, HasWallet
<1>9. pc[s] = "reward" => HasWallet(referrer[req[s].who])'
  <2> SUFFICES ASSUME pc[s] = "reward"
               PROVE  /\ HasWallet(referrer[req[s].who])
                      /\ referrer'[req[s].who] = referrer[req[s].who]
    BY DEF HasWallet
  <2>1. (\E x \in Applied : Own(s, x) \in ledger) /\ HasWallet(referrer[req[s].who])
    BY <1>1 DEF Ready, Paying
  <2>2. req[s].who \in Known
    BY <2>1, OwnIs DEF EntriesHaveWallets, HasWallet
  <2> QED
    BY <2>1, <2>2 DEF PeopleKept
<1>10. pc[s] \in Paying => req[s].amount > 0
  BY <1>1 DEF Ready
<1>11. /\ pc[s] = "fund" => req[s].ref = <<"dev", s>>
       /\ pc[s] = "audit" => req[s].kind \in {"adjust", "treasury"}
  BY <1>1 DEF Ready
<1> QED
  BY <1>2, <1>4, <1>5, <1>6, <1>7, <1>8, <1>9, <1>10, <1>11 DEF Ready

\* The request itself.
LEMMA OwnReady ==
    ASSUME IInv, NEW r \in Requests, Begin(r) \/ Step(r) \/ RequestDies(r),
           Leaves(r), PeopleKept, DOMAIN wallet \subseteq DOMAIN wallet'
    PROVE  Ready(r)'
<1>0. Ready(r) /\ TypeOK /\ Rows /\ RewardsFollowReferral /\ EntriesHaveWallets
  BY DEF IInv, AllReady
<1>1. pc \in [Requests -> PC] /\ req \in [Requests -> Local \cup {Nobody}]
  BY <1>0 DEF TypeOK, Rows
<1>2. CASE Begin(r)
  <2>1. PICK first \in {"user", "create", "audit", "fund"}, kind \in Kind, u \in Users,
              amount \in {Amount, -Amount}, ref \in Ref, cand \in Users \cup {Nobody},
              terms \in Terms :
              /\ Start(r, first, kind, u, amount, ref, cand, terms)
              /\ first = "user" => cand \in (Known \ {u}) \cup {Nobody}
              /\ first = "fund" => ref = <<"dev", r>>
              /\ first = "audit" => kind \in {"adjust", "treasury"}
    BY <1>0, <1>2, BeginIs
  <2> DEFINE l == [kind |-> kind, who |-> u, amount |-> amount, ref |-> ref, cand |-> cand,
                   terms |-> terms]
  <2>2. pc'[r] = first /\ req'[r] = l
    BY <1>1, <2>1 DEF Start
  <2>3. l.kind = kind /\ l.who = u /\ l.ref = ref /\ l.cand = cand
    OBVIOUS
  <2> HIDE DEF l
  <2> QED
    BY <2>1, <2>2, <2>3 DEF Ready, Moving, Paying, PeopleKept
<1>3. ASSUME Step(r) \/ RequestDies(r)
      PROVE  /\ req' = req /\ \A status : Own(r, status)' = Own(r, status)
             /\ RewardRef(r)' = RewardRef(r) /\ pc[r] # "idle"
  BY <1>0, <1>3, StepMoves, SameRequest
<1>4. ASSUME Step(r), pc'[r] \notin Moving \cup Paying \cup
                         {"user", "wallets", "session", "fund", "audit"}
      PROVE  Ready(r)'
  BY <1>4 DEF Ready, Moving, Paying
<1>5. CASE UpsertUser(r)
  <2>1. referrer' = Upserted(referrer, req[r].who, req[r].cand) /\ pc'[r] = "wallets"
        /\ req' = req
    BY <1>1, <1>5 DEF UpsertUser, Goto
  <2>2. req[r].who \in Known'
    BY <2>1 DEF Upserted, Known
  <2> QED
    BY <2>1, <2>2 DEF Ready, Moving, Paying
<1>6. CASE UpsertWallets(r)
  <2>1. wallet' = WithWallet(req[r].who) /\ pc'[r] = "session" /\ req' = req
    BY <1>1, <1>6 DEF UpsertWallets, Goto
  <2>2. HasWallet(req[r].who)'
    BY <2>1 DEF WithWallet, Upserted, HasWallet
  <2> QED
    BY <2>1, <2>2 DEF Ready, Moving, Paying
<1>7. CASE CreateTransaction(r)
  <2> DEFINE u == req[r].who
             a == req[r].amount
             status == req[r].terms.status
  <2>1. CASE ~MayCreate(u, req[r].ref, Type(r), Need(r))
    <3>1. pc'[r] = "done"
      BY <1>1, <1>7, <2>1 DEF CreateTransaction, Goto, Answer
    <3> QED
      BY <1>4, <1>7, <3>1 DEF Step, Moving, Paying
  <2>2. CASE MayCreate(u, req[r].ref, Type(r), Need(r))
    <3>1. /\ pc'[r] = AfterCreate(r) /\ req' = req /\ ledger' = ledger \cup {Own(r, status)}
      BY <1>1, <1>7, <2>2 DEF CreateTransaction, Goto
    <3>2. ~NameTaken(u, req[r].ref, Type(r))
      BY <2>2 DEF MayCreate
    <3>3. a > 0 => NeverRewarded(r)'
      <4> SUFFICES ASSUME a > 0, NEW e \in ledger', e.type = "REWARD", e.ref = RewardRef(r)
                   PROVE  FALSE
        BY <1>3, <1>7 DEF NeverRewarded, Step
      <4>1. e \in ledger
        BY <1>7, OwnIs, <3>1, <1>0, <1>3, LocalIs DEF Step
      <4>2. e.ref[2] = u /\ e.ref[3] = req[r].ref
        BY DEF RewardRef
      <4>3. PICK d \in ledger : d.user = u /\ d.ref = req[r].ref /\ d.type = "DEPOSIT"
        BY <1>0, <4>1, <4>2 DEF RewardsFollowReferral
      <4>4. Type(r) = "DEPOSIT"
        BY DEF Type
      <4> QED
        BY <3>2, <4>3, <4>4 DEF NameTaken
    <3>4. /\ Own(r, status)' \in ledger' /\ \A x : Own(r, x)' = Own(r, x)
      BY <1>3, <1>7, <3>1 DEF Step
    <3>5. \/ AfterCreate(r) \in {"apply", "done"}
          \/ AfterCreate(r) = "referral" /\ a > 0 /\ status \in Applied
      BY DEF AfterCreate, AfterApply, Type, Applied
    <3> QED
      BY <3>1, <3>3, <3>4, <3>5 DEF Ready, Moving, Paying
  <2> QED
    BY <2>1, <2>2
<1>8. ASSUME NeverRewarded(r), pc[r] # "reward", Step(r)
      PROVE  NeverRewarded(r)'
  BY <1>3, <1>8 DEF Leaves, NeverRewarded
<1>9. CASE ReadEntry(r)
  <2>1. /\ pc[r] = "apply" /\ req' = req /\ ledger' = ledger
        /\ \/ pc'[r] = AfterApply(r) /\ \E s \in Applied : Own(r, s) \in ledger
           \/ pc'[r] = "done"
           \/ /\ pc'[r] = "move" /\ Own(r, "FAILED") \notin ledger
              /\ \A s \in Applied : Own(r, s) \notin ledger
    BY <1>1, <1>9 DEF ReadEntry, Goto, moneyVars
  <2>6. Own(r, req[r].terms.status) \in ledger /\ (req[r].amount > 0 => NeverRewarded(r))
    BY <1>0, <2>1 DEF Ready, Moving
  <2>2. pc'[r] = "move" => Own(r, "PENDING") \in ledger
    BY <1>0, <2>1, <2>6, LocalIs DEF Applied, AfterApply
  <2>3. req[r].amount > 0 => NeverRewarded(r)'
    BY <1>8, <1>9, <2>1, <2>6 DEF Step
  <2>4. AfterApply(r) = IF req[r].amount > 0 THEN "referral" ELSE "done"
    BY DEF AfterApply, Type
  <2>5. /\ \A status : Own(r, status)' = Own(r, status)
    BY <1>3, <1>9 DEF Step
  <2> QED
    BY <2>1, <2>2, <2>3, <2>4, <2>5 DEF Ready, Moving, Paying
<1>10. CASE ApplyTransaction(r)
  <2>1. CASE pc'[r] = "done"
    BY <1>4, <1>10, <2>1 DEF Step, Moving, Paying
  <2>2. CASE pc'[r] # "done"
    <3>1. /\ pc[r] = "move" /\ req' = req /\ pc'[r] = AfterApply(r)
          /\ ledger' = (ledger \ {Own(r, "PENDING")}) \cup {Own(r, "COMPLETED")}
      BY <1>1, <1>10, <2>2 DEF ApplyTransaction, Goto, Answer
    <3>2. req[r].amount > 0 => NeverRewarded(r)
      BY <1>0, <3>1 DEF Ready, Moving
    <3>3. req[r].amount > 0 => NeverRewarded(r)'
      BY <1>8, <1>10, <3>1, <3>2 DEF Step
    <3>4. AfterApply(r) = IF req[r].amount > 0 THEN "referral" ELSE "done"
      BY DEF AfterApply, Type
    <3>5. \E s \in Applied : Own(r, s)' \in ledger'
      BY <1>3, <1>10, <3>1 DEF Step, Applied
    <3> QED
      BY <3>1, <3>3, <3>4, <3>5, <2>2 DEF Ready, Moving, Paying
  <2> QED
    BY <2>1, <2>2
<1>11. CASE FindReferrer(r)
  <2> DEFINE by == referrer[req[r].who]
  <2>1. CASE pc'[r] = "done"
    BY <1>4, <1>11, <2>1 DEF Step, Moving, Paying
  <2>2. CASE pc'[r] # "done"
    <3>1. /\ pc[r] = "referral" /\ req' = req /\ pc'[r] = "reward"
          /\ wallet' = WithWallet(by) /\ ledger' = ledger /\ referrer' = referrer
      BY <1>1, <1>11, <2>2 DEF FindReferrer, Goto, Answer, rowVars
    <3>2. req[r].amount > 0 /\ NeverRewarded(r) /\ \E s \in Applied : Own(r, s) \in ledger
      BY <1>0, <3>1 DEF Ready, Paying
    <3>3. NeverRewarded(r)'
      BY <1>8, <1>11, <3>1, <3>2 DEF Step
    <3>4. HasWallet(referrer[req[r].who])'
      BY <3>1 DEF WithWallet, Upserted, HasWallet
    <3>5. \E s \in Applied : Own(r, s)' \in ledger'
      BY <1>3, <1>11, <3>1, <3>2 DEF Step
    <3> QED
      BY <3>1, <3>2, <3>3, <3>4, <3>5 DEF Ready, Moving, Paying
  <2> QED
    BY <2>1, <2>2
<1>12. CASE FindAudit(r)
  <2>1. pc'[r] \in {"done", "adjust", "treasury"}
    BY <1>0, <1>1, <1>12 DEF FindAudit, Goto, Ready
  <2> QED
    BY <1>4, <1>12, <2>1 DEF Step, Moving, Paying
<1>13. CASE CreateSession(r) \/ PayReward(r) \/ AdjustUserWallet(r) \/ AdjustHouseWallet(r)
            \/ FundTreasury(r) \/ RequestDies(r)
  <2>1. pc'[r] = "done"
    BY <1>1, <1>13 DEF CreateSession, PayReward, AdjustUserWallet, AdjustHouseWallet,
       FundTreasury, RequestDies, Answer, Goto
  <2> QED
    BY <2>1 DEF Ready, Moving, Paying
<1> QED
  BY <1>2, <1>5, <1>6, <1>7, <1>9, <1>10, <1>11, <1>12, <1>13 DEF Step

\* A request becomes a mover under a name of its own.
LEMMA MoversKept ==
    ASSUME IInv, NEW r \in Requests, Begin(r) \/ Step(r) \/ RequestDies(r)
    PROVE  OneMover'
<1>0. Ready(r) /\ TypeOK /\ Rows /\ OneMover /\ AllReady
  BY DEF IInv, AllReady
<1>1. \A s \in Requests : s # r => pc'[s] = pc[s] /\ req'[s] = req[s]
  BY <1>0, RequestsKept
<1>2. \A s \in Requests : s # r =>
          /\ Mover(s)' <=> Mover(s)
          /\ Type(s)' = Type(s)
  BY <1>1 DEF Mover, Type
<1>3. ASSUME NEW s \in Requests, s # r, Mover(r)', Mover(s)', SameName(r, s)' \/ SameName(s, r)'
      PROVE  FALSE
  <2>1. pc \in [Requests -> PC]
    BY <1>0 DEF TypeOK
  <2>2. CASE Begin(r)
    <3>1. PICK first \in {"user", "create", "audit", "fund"}, kind \in Kind, u \in Users,
              amount \in {Amount, -Amount}, ref \in Ref, cand \in Users \cup {Nobody},
              terms \in Terms :
              /\ Start(r, first, kind, u, amount, ref, cand, terms)
              /\ first = "user" => cand \in (Known \ {u}) \cup {Nobody}
              /\ first = "fund" => ref = <<"dev", r>>
              /\ first = "audit" => kind \in {"adjust", "treasury"}
      BY <1>0, <2>2, BeginIs
    <3>2. pc'[r] = first
      BY <2>1, <3>1 DEF Start
    <3> QED
      BY <1>3, <3>1, <3>2 DEF Mover, Moving, Paying
  <2>3. CASE Step(r) \/ RequestDies(r)
    <3>1. req' = req /\ Type(r)' = Type(r)
      BY <1>0, <2>3, StepMoves, SameRequest
    <3>2. SameName(r, s)
      BY <1>1, <1>2, <1>3, <3>1 DEF SameName
    <3>3. CASE Mover(r)
      BY <1>0, <1>2, <1>3, <3>2, <3>3 DEF OneMover
    <3>4. CASE CreateTransaction(r)
      <4>1. ~NameTaken(req[r].who, req[r].ref, Type(r))
        BY <1>3, <2>1, <3>4 DEF CreateTransaction, MayCreate, Goto, Answer, Mover, Moving, Paying
      <4>2. PICK status : Own(s, status) \in ledger
        BY <1>0, <1>2, <1>3 DEF AllReady, Ready, Mover, Moving, Paying
      <4> QED
        BY <3>2, <4>1, <4>2, OwnIs DEF NameTaken, SameName
    <3>5. CASE UpsertUser(r) \/ UpsertWallets(r) \/ CreateSession(r) \/ FindAudit(r)
               \/ AdjustUserWallet(r) \/ AdjustHouseWallet(r) \/ FundTreasury(r)
               \/ RequestDies(r)
      <4>1. pc'[r] \in {"wallets", "session", "done", "adjust", "treasury"}
        BY <1>0, <2>1, <3>5 DEF UpsertUser, UpsertWallets, CreateSession, FindAudit, Ready,
           AdjustUserWallet, AdjustHouseWallet, FundTreasury, RequestDies, Answer, Goto
      <4> QED
        BY <1>3, <4>1 DEF Mover, Moving, Paying
    <3>6. CASE ReadEntry(r) \/ ApplyTransaction(r) \/ FindReferrer(r) \/ PayReward(r)
      <4>1. Mover(r)
        BY <3>6 DEF ReadEntry, ApplyTransaction, FindReferrer, PayReward, Mover, Moving, Paying
      <4> QED
        BY <3>3, <4>1
    <3> QED
      BY <2>3, <3>4, <3>5, <3>6 DEF Step
  <2> QED
    BY <2>2, <2>3
<1>4. ASSUME NEW s \in Requests, NEW t \in Requests, Mover(s)', Mover(t)', SameName(s, t)',
             s # t
      PROVE  FALSE
  <2>1. CASE s = r
    BY <1>3, <1>4, <2>1
  <2>2. CASE t = r
    BY <1>3, <1>4, <2>2
  <2>3. CASE s # r /\ t # r
    <3>1. SameName(s, t) /\ Mover(s) /\ Mover(t)
      BY <1>1, <1>2, <1>4, <2>3 DEF SameName
    <3> QED
      BY <1>0, <1>4, <3>1 DEF OneMover
  <2> QED
    BY <2>1, <2>2, <2>3
<1> QED
  BY <1>4 DEF OneMover

LEMMA RequestStep ==
    ASSUME IInv, NEW r \in Requests, Begin(r) \/ Step(r) \/ RequestDies(r)
    PROVE  /\ KindOfStep /\ PeopleKept /\ AllReady' /\ OneMover' /\ FundsDone'
           /\ pc' \in [Requests -> PC] /\ req' \in [Requests -> Local \cup {Nobody}]
           /\ \A s \in Requests : pc'[s] # "idle" => req'[s] \in Local
           /\ boots' \in 0..MaxBoots /\ faults' \in 0..MaxFaults
<1>0. /\ Ready(r) /\ TypeOK /\ Rows /\ OneMover /\ AllReady /\ ReferrersKnown
      /\ EntriesHaveWallets /\ FundsDone
  BY DEF IInv, AllReady
<1>1. KindOfStep /\ PeopleKept
  BY <1>0, RequestKind, StepPeople
<1>2. DOMAIN wallet \subseteq DOMAIN wallet' /\ DOMAIN wallet \subseteq Known
  BY <1>0, <1>1, WalletsAfter DEF TypeOK
<1>3. /\ pc' \in [Requests -> PC] /\ req' \in [Requests -> Local \cup {Nobody}]
      /\ \A s \in Requests : pc'[s] # "idle" => req'[s] \in Local
      /\ \A s \in Requests : s # r => pc'[s] = pc[s] /\ req'[s] = req[s]
      /\ pc[r] # "done" /\ boots' \in 0..MaxBoots /\ faults' \in 0..MaxFaults
  BY <1>0, RequestsKept DEF TypeOK
<1>4. Leaves(r)
  <2>1. CASE Begin(r)
    <3>1. UNCHANGED <<ledger, houseLedger>>
      BY <1>0, <2>1, BeginIs DEF Start, moneyVars
    <3> QED
      BY <3>1, LeavesAll
  <2>2. CASE Step(r) \/ RequestDies(r)
    BY <1>0, <2>2, StepLeaves
  <2> QED
    BY <2>1, <2>2
<1>5. \A s \in Requests : Ready(s)'
  <2> SUFFICES ASSUME NEW s \in Requests PROVE Ready(s)'
    OBVIOUS
  <2>1. CASE s = r
    BY <1>1, <1>2, <1>4, <2>1, OwnReady
  <2>2. CASE s # r
    BY <1>0, <1>1, <1>2, <1>3, <1>4, <2>2, OthersReady
  <2> QED
    BY <2>1, <2>2
<1>6. FundsDone'
  BY <1>0, <1>3, <1>4 DEF FundsDone, Leaves
<1>7. OneMover'
  BY MoversKept
<1> QED
  BY <1>1, <1>3, <1>5, <1>6, <1>7 DEF AllReady

\* A step of the game or the worker, or none, leaves the requests alone.
LEMMA OtherStep ==
    ASSUME IInv, \/ \E u \in Users : PlaceStake(u) \/ LoseStake(u) \/ WinStake(u)
                 \/ RepairLockedBalances
                 \/ UNCHANGED vars
    PROVE  /\ KindOfStep /\ PeopleKept /\ AllReady' /\ OneMover' /\ FundsDone'
           /\ pc' \in [Requests -> PC] /\ req' \in [Requests -> Local \cup {Nobody}]
           /\ \A s \in Requests : pc'[s] # "idle" => req'[s] \in Local
           /\ boots' \in 0..MaxBoots /\ faults' \in 0..MaxFaults
<1>0. /\ TypeOK /\ Rows /\ OneMover /\ AllReady /\ ReferrersKnown /\ BetsHaveWallets
      /\ BetsSettleOnce /\ FundsDone
  BY DEF IInv
<1>1. KindOfStep
  <2>1. CASE \E u \in Users : PlaceStake(u) \/ LoseStake(u) \/ WinStake(u)
    BY <1>0, <2>1, PlaceKind, StakeKind
  <2>2. CASE RepairLockedBalances
    BY <2>2, RepairKind
  <2>3. CASE UNCHANGED vars
    BY <2>3, QuietKind DEF vars
  <2> QED
    BY <2>1, <2>2, <2>3
<1>2. UNCHANGED <<rowVars, procVars, faults>>
  BY DEF PlaceStake, LoseStake, WinStake, RepairLockedBalances, vars
<1>3. PeopleKept /\ pc' = pc /\ req' = req /\ faults' = faults
  BY <1>0, <1>2, SamePeople DEF procVars
<1>4. boots' \in 0..MaxBoots
  <2>1. CASE RepairLockedBalances
    BY <1>0, <2>1, BoundsAssumption DEF RepairLockedBalances, TypeOK
  <2>2. CASE boots' = boots
    BY <1>0, <2>2 DEF TypeOK
  <2> QED
    BY <2>1, <2>2 DEF PlaceStake, LoseStake, WinStake, vars
<1>5. /\ \A d \in ledger : d \in ledger'
      /\ \A d \in ledger' : d.type = "REWARD" => d \in ledger
      /\ \A h \in houseLedger' : h.type = "HOUSE_FUND" => h \in houseLedger
  <2>1. CASE UNCHANGED <<ledger, houseLedger>>
    BY <2>1
  <2>2. ASSUME NEW u \in Users, LoseStake(u) \/ WinStake(u)
        PROVE  \E type \in {"BET_LOSS_SETTLEMENT", "BET_WIN"}, a \in {Profit, -Amount} : \E b :
                  /\ ledger' = ledger \cup {Entry(u, <<"bet", u>>, type, a, "COMPLETED", 0)}
                  /\ HouseMoves(u, <<"bet", u>>, type, b)
    BY <2>2 DEF LoseStake, WinStake
  <2>3. CASE \E u \in Users : LoseStake(u) \/ WinStake(u)
    <3>0. PICK u \in Users, type \in {"BET_LOSS_SETTLEMENT", "BET_WIN"},
               a \in {Profit, -Amount} : \E b :
                  /\ ledger' = ledger \cup {Entry(u, <<"bet", u>>, type, a, "COMPLETED", 0)}
                  /\ HouseMoves(u, <<"bet", u>>, type, b)
      BY <2>2, <2>3
    <3>1. PICK b :
                  /\ ledger' = ledger \cup {Entry(u, <<"bet", u>>, type, a, "COMPLETED", 0)}
                  /\ HouseMoves(u, <<"bet", u>>, type, b)
      BY <3>0
    <3> DEFINE e == Entry(u, <<"bet", u>>, type, a, "COMPLETED", 0)
               h == [user |-> u, ref |-> <<"bet", u>>, type |-> type, amount |-> b]
    <3>2. ledger' = ledger \cup {e} /\ houseLedger' = houseLedger \cup {h}
      BY <3>1 DEF HouseMoves
    <3>3. e.type = type /\ h.type = type /\ type # "REWARD" /\ type # "HOUSE_FUND"
      BY DEF Entry
    <3> HIDE DEF e, h
    <3> QED
      BY <3>2, <3>3
  <2> QED
    BY <2>1, <2>3 DEF PlaceStake, RepairLockedBalances, vars, moneyVars
<1>6. DOMAIN wallet \subseteq DOMAIN wallet'
  BY <1>0, <1>1, WalletsAfter
<1>7. \A s \in Requests : Ready(s)'
  <2> SUFFICES ASSUME NEW s \in Requests PROVE Ready(s)'
    OBVIOUS
  <2>1. Ready(s)
    BY <1>0 DEF AllReady
  <2>2. /\ \A status : Own(s, status)' = Own(s, status)
        /\ RewardRef(s)' = RewardRef(s)
    BY <1>3, SameRequest
  <2>3. referrer' = referrer /\ Known' = Known
    BY <1>2 DEF rowVars, Known
  <2>4. NeverRewarded(s) => NeverRewarded(s)'
    BY <1>5, <2>2 DEF NeverRewarded
  <2>5. \A u \in {req[s].who, referrer[req[s].who]} : HasWallet(u) => HasWallet(u)'
    BY <1>6 DEF HasWallet
  <2> QED
    BY <1>3, <1>5, <2>1, <2>2, <2>3, <2>4, <2>5 DEF Ready, HasWallet
<1>8. OneMover'
  BY <1>0, <1>3 DEF OneMover, Mover, SameName, Type
<1>9. FundsDone'
  BY <1>0, <1>3, <1>5 DEF FundsDone
<1> QED
  BY <1>0, <1>1, <1>3, <1>4, <1>7, <1>8, <1>9 DEF AllReady, TypeOK, Rows

\* What else a step of one of the kinds writes.
LEMMA MoneyKept ==
    ASSUME TypeOK, KindOfStep
    PROVE  /\ house' \in Nat /\ houseLedger' \subseteq HouseRow /\ audit' \subseteq Ref
           /\ exposed' \subseteq Users
<1>1. /\ house \in Nat /\ houseLedger \subseteq HouseRow /\ audit \subseteq Ref
      /\ exposed \subseteq Users /\ DOMAIN wallet \subseteq Users
  BY DEF TypeOK
<1>2. ASSUME NEW h, HouseGains(h)
      PROVE  /\ house' \in Nat /\ houseLedger' \subseteq HouseRow
             /\ h.ref \in Ref
  BY <1>1, <1>2 DEF HouseGains, HouseRow
<1>3. CASE Quiet
  BY <1>1, <1>3 DEF Quiet
<1>4. ASSUME NEW e, Creates(e) \/ Pays(e)
      PROVE  UNCHANGED <<house, houseLedger, audit, exposed>>
  BY <1>4 DEF Creates, Pays
<1>10. ASSUME NEW e, Applies(e)
       PROVE  UNCHANGED <<house, houseLedger, audit>> /\ exposed' \subseteq Users
  <2>1. e.user \in Users
    BY <1>10 DEF Applies, Completes, TypeOK, LedgerRow
  <2> QED
    BY <1>1, <1>10, <2>1 DEF Applies
<1>5. ASSUME NEW e, Adjusts(e)
      PROVE  /\ house' \in Nat /\ houseLedger' \subseteq HouseRow /\ audit' \subseteq Ref
             /\ exposed' = exposed
  BY <1>1, <1>2, <1>5 DEF Adjusts
<1>6. ASSUME NEW h, AdjustsHouse(h) \/ FundsHouse(h)
      PROVE  /\ house' \in Nat /\ houseLedger' \subseteq HouseRow /\ audit' \subseteq Ref
             /\ exposed' = exposed
  BY <1>1, <1>2, <1>6 DEF AdjustsHouse, FundsHouse
<1>7. ASSUME NEW u, Places(u)
      PROVE  UNCHANGED <<house, houseLedger, audit, exposed>>
  BY <1>7 DEF Places
<1>8. ASSUME NEW e, NEW how, Settles(e, how)
      PROVE  /\ house' \in Nat /\ houseLedger' \subseteq HouseRow
             /\ UNCHANGED <<audit, exposed>>
  BY <1>1, <1>2, <1>8 DEF Settles
<1>9. ASSUME NEW S, RepairsOf(S)
      PROVE  exposed' \subseteq Users /\ UNCHANGED <<house, houseLedger, audit>>
  BY <1>1, <1>9 DEF RepairsOf
<1> QED
  BY <1>1, <1>3, <1>4, <1>5, <1>6, <1>7, <1>8, <1>9, <1>10 DEF KindOfStep

LEMMA InitInv == Init => IInv
<1> SUFFICES ASSUME Init PROVE IInv
  OBVIOUS
<1>1. /\ ledger = {} /\ houseLedger = {} /\ audit = {} /\ exposed = {}
      /\ referrer = [u \in {Founder} |-> Nobody] /\ session = {Founder}
      /\ wallet = [u \in {Founder} |-> [balance |-> FounderFunds, locked |-> 0]]
      /\ house = Bankroll /\ bet = [u \in Users |-> "none"]
      /\ pc = [r \in Requests |-> "idle"] /\ req = [r \in Requests |-> Nobody]
      /\ faults = 0 /\ boots = 0 /\ Founder \in Users /\ Known = {Founder}
      /\ FounderFunds \in Nat /\ Bankroll \in Nat
      /\ wallet[Founder] = [balance |-> FounderFunds, locked |-> 0]
  BY UsersAssumption, AmountsAssumption DEF Init, Known
<1>2. wallet[Founder] \in Row /\ Fits(wallet[Founder]) /\ DOMAIN wallet = {Founder}
  BY <1>1 DEF Row, Fits
<1>3. 0 \in 0..MaxFaults /\ 0 \in 0..MaxBoots
  BY BoundsAssumption
<1>4. TypeOK
  BY <1>1, <1>2, <1>3 DEF TypeOK, PC
<1>5. Rows
  <2>1. IsFiniteSet(ledger)
    BY <1>1, FS_EmptySet
  <2>2. wallet \in [DOMAIN wallet -> Row]
    BY <1>1, <1>2
  <2> QED
    BY <1>1, <2>1, <2>2 DEF Rows
<1>6. ReferrersKnown /\ NamesUnique /\ EntriesHaveWallets /\ BetsHaveWallets /\ BetsSettleOnce
  BY <1>1 DEF ReferrersKnown, NamesUnique, EntriesHaveWallets, BetsHaveWallets, BetsSettleOnce
<1>7. FundsDone /\ OneMover /\ RewardsFollowReferral
  BY <1>1 DEF FundsDone, OneMover, Mover, Moving, Paying, RewardsFollowReferral
<1>8. AllReady
  BY <1>1 DEF AllReady, Ready, Moving, Paying
<1>9. AuditTellsAdjustments
  BY <1>1 DEF AuditTellsAdjustments
<1>10. LocksCoverPending
  <2>1. \A u : ClaimsOf(ledger, u) = {}
    BY <1>1 DEF ClaimsOf
  <2>2. Sum({}) = 0
    BY SumOfClaims, FS_EmptySet DEF Claims
  <2>3. \A u : Pending(u) = 0
    BY <2>1, <2>2, PendingIsSum
  <2>4. Staked(Founder) = 0
    BY <1>1 DEF Staked
  <2>5. wallet[Founder].locked = 0
    BY <1>1
  <2> QED
    BY <1>2, <2>3, <2>4, <2>5 DEF LocksCoverPending
<1> QED
  BY <1>4, <1>5, <1>6, <1>7, <1>8, <1>9, <1>10 DEF IInv

LEMMA NextInductive == IInv /\ [Next]_vars => IInv'
<1> SUFFICES ASSUME IInv, [Next]_vars PROVE IInv'
  OBVIOUS
<1>0. /\ TypeOK /\ Rows /\ ReferrersKnown /\ NamesUnique /\ EntriesHaveWallets
      /\ BetsHaveWallets /\ BetsSettleOnce /\ FundsDone /\ AllReady /\ OneMover
      /\ LocksCoverPending /\ RewardsFollowReferral /\ AuditTellsAdjustments
  BY DEF IInv
<1>1. /\ KindOfStep /\ PeopleKept /\ AllReady' /\ OneMover' /\ FundsDone'
      /\ pc' \in [Requests -> PC] /\ req' \in [Requests -> Local \cup {Nobody}]
      /\ \A s \in Requests : pc'[s] # "idle" => req'[s] \in Local
      /\ boots' \in 0..MaxBoots /\ faults' \in 0..MaxFaults
  <2>1. CASE \E r \in Requests : Begin(r) \/ Step(r) \/ RequestDies(r)
    BY <2>1, RequestStep
  <2>2. CASE \/ \E u \in Users : PlaceStake(u) \/ LoseStake(u) \/ WinStake(u)
             \/ RepairLockedBalances
             \/ UNCHANGED vars
    BY <2>2, OtherStep
  <2> QED
    BY <2>1, <2>2 DEF Next
<1>2. /\ DOMAIN wallet \subseteq DOMAIN wallet' /\ DOMAIN wallet' \subseteq Known
      /\ wallet' \in [DOMAIN wallet' -> Row]
      /\ \A u \in DOMAIN wallet' : wallet'[u] \in Row /\ Fits(wallet'[u])
  BY <1>0, <1>1, WalletsAfter
<1>3. ledger' \subseteq LedgerRow /\ IsFiniteSet(ledger') /\ NamesUnique' /\ EntriesHaveWallets'
  BY <1>0, <1>1, LedgerKept
<1>4. /\ bet' \in [Users -> {"none", "placed", "lost", "won"}]
      /\ BetsHaveWallets' /\ BetsSettleOnce'
  BY <1>0, <1>1, BetsKept
<1>5. /\ house' \in Nat /\ houseLedger' \subseteq HouseRow /\ audit' \subseteq Ref
      /\ exposed' \subseteq Users
  BY <1>0, <1>1, MoneyKept
<1>6. LocksCoverPending'
  BY <1>0, <1>1, LocksKept
<1>7. RewardsFollowReferral'
  BY <1>0, <1>1, RewardsKept DEF PeopleKept
<1>8. AuditTellsAdjustments'
  BY <1>0, <1>1, AuditKept
<1>9. TypeOK'
  <2>1. session' \subseteq DOMAIN wallet'
    BY <1>0, <1>1, <1>2 DEF PeopleKept, TypeOK, HasWallet
  <2>2. Known' \subseteq Users /\ DOMAIN wallet' \subseteq Known'
    BY <1>1, <1>2 DEF PeopleKept
  <2>3. \A u \in Known' : referrer'[u] \in (Users \ {u}) \cup {Nobody}
    BY <1>1 DEF PeopleKept
  <2> QED
    BY <1>1, <1>2, <1>3, <1>4, <1>5, <2>1, <2>2, <2>3 DEF TypeOK
<1>10. Rows'
  BY <1>1, <1>2, <1>3 DEF Rows
<1> QED
  BY <1>1, <1>3, <1>4, <1>6, <1>7, <1>8, <1>9, <1>10 DEF IInv, PeopleKept

LEMMA Invariant == Spec => []IInv
  BY InitInv, NextInductive, PTL DEF Spec

-----------------------------------------------------------------------------
(* The theorems.                                                            *)

\* The rows stay what the schema says: no wallet and no treasury is overdrawn,
\* no lock is above its balance, whatever requests, rounds and repairs do.
THEOREM AccountsTypeCorrect == Spec => []TypeOK
<1>1. IInv => TypeOK
  BY DEF IInv
<1> QED
  BY Invariant, <1>1, PTL

\* No lock is more than the open stake and what rows not yet applied reserved,
\* and it is that exactly unless a starting worker rewrote it or a debit that
\* had reserved nothing took it (createTransaction, applyTransaction, the
\* internal route's lockFunds, repairLockedBalances).
THEOREM LocksStandForSomething == Spec => []LocksCoverPending
<1>1. IInv => LocksCoverPending
  BY DEF IInv
<1> QED
  BY Invariant, <1>1, PTL

\* A referral reward is the referrer's share of a completed deposit.
THEOREM RewardsAreEarned == Spec => []RewardsFollowReferral
<1>1. IInv => RewardsFollowReferral
  BY DEF IInv
<1> QED
  BY Invariant, <1>1, PTL

\* The audit log names each adjustment made, once.
THEOREM AuditIsTrue == Spec => []AuditTellsAdjustments
<1>1. IInv => AuditTellsAdjustments
  BY DEF IInv
<1> QED
  BY Invariant, <1>1, PTL

-----------------------------------------------------------------------------
(* The rows are double-entry bookkeeping: the funds and the postings that   *)
(* Books reads off them.                                                    *)

Accts == Users \cup {House}
Funds == [a \in Accts |->
            CASE a = House -> house
              [] a \in DOMAIN wallet -> wallet[a].balance
              [] OTHER -> 0]

PostOf(e) == [id |-> <<e.user, e.ref, e.type>>, account |-> e.user,
              against |-> Against(e.type), amount |-> e.amount]
HousePost(h) == [id |-> <<House, h.ref, h.type>>, account |-> House,
                 against |-> World, amount |-> h.amount]
UserPosts(L) == {PostOf(e) : e \in {d \in L : d.status = "COMPLETED"}}
HousePosts(H) == {HousePost(h) : h \in {g \in H : g.user = Nobody}}

LEMMA PostedIs ==
    /\ Posted = UserPosts(ledger) \cup HousePosts(houseLedger)
    /\ Posted' = UserPosts(ledger') \cup HousePosts(houseLedger')
  BY DEF Posted, UserPosts, HousePosts, PostOf, HousePost

\* One posting, whoever makes it.
LEMMA BookPosts ==
    ASSUME NEW p \in Postings, \A q \in Posted : q.id # p.id,
           Posted' = Posted \cup {p},
           \A a \in Accts : /\ Funds'[a] = Funds[a] + (CASE a = p.account -> p.amount
                                                         [] a = p.against -> -p.amount
                                                         [] OTHER -> 0)
                            /\ Funds'[a] >= 0
    PROVE  Books!Next
<1>1. p \in (Posted' \ Posted) \cap Postings
  OBVIOUS
<1>2. Funds' = [a \in Accts |-> Funds[a] + (CASE a = p.account -> p.amount
                                              [] a = p.against -> -p.amount
                                              [] OTHER -> 0)]
  <2>1. Funds' = [a \in Accts |-> Funds'[a]]
    BY DEF Funds
  <2> QED
    BY <2>1
<1>3. Books!Post(p)
  BY <1>2 DEF Books!Post, Funds, Accts
<1> QED
  BY <1>1, <1>3 DEF Books!Next

Fund(a) == IF a = House THEN house ELSE IF HasWallet(a) THEN wallet[a].balance ELSE 0

LEMMA FundsAt ==
    ASSUME TypeOK, TypeOK', NEW a \in Accts
    PROVE  Funds[a] = Fund(a) /\ Funds'[a] = Fund(a)'
<1>1. House \notin DOMAIN wallet /\ House \notin DOMAIN wallet'
  BY UsersAssumption DEF TypeOK
<1>2. CASE a = House
  BY <1>1, <1>2 DEF Funds, Fund, HasWallet
<1>3. ASSUME a # House PROVE Funds[a] = Fund(a)
  BY <1>3 DEF Funds, Fund, HasWallet
<1>4. ASSUME a # House PROVE Funds'[a] = Fund(a)'
  BY <1>4 DEF Funds, Fund, HasWallet
<1> QED
  BY <1>2, <1>3, <1>4

LEMMA FundsNat ==
    ASSUME TypeOK, TypeOK'
    PROVE  \A a \in Accts : Funds[a] \in Nat /\ Funds'[a] \in Nat
<1>1. house \in Nat /\ \A u \in DOMAIN wallet : wallet[u].balance \in Nat
  BY DEF TypeOK, Row, Fits
<1>2. house' \in Nat /\ \A u \in DOMAIN wallet' : wallet'[u].balance \in Nat
  BY DEF TypeOK, Row, Fits
<1> QED
  BY <1>1, <1>2, FundsAt DEF Fund, HasWallet

\* No posting has the name of an entry that is not completed yet, or not there.
LEMMA NewName ==
    ASSUME TypeOK, NEW e \in LedgerRow,
           \A d \in ledger : d.status = "COMPLETED" =>
               ~(d.user = e.user /\ d.ref = e.ref /\ d.type = e.type)
    PROVE  \A q \in Posted : q.id # PostOf(e).id
<1>1. PostOf(e).id = <<e.user, e.ref, e.type>> /\ e.user \in Users
  BY DEF PostOf, LedgerRow
<1>2. \A q \in UserPosts(ledger) : q.id # PostOf(e).id
  BY <1>1 DEF UserPosts, PostOf
<1>3. \A q \in HousePosts(houseLedger) : q.id # PostOf(e).id
  BY <1>1, UsersAssumption DEF HousePosts, HousePost
<1> QED
  BY <1>2, <1>3, PostedIs

\* An entry is completed: its amount is its user's, against the house's or not.
LEMMA BookEntry ==
    ASSUME TypeOK, TypeOK', NEW e \in LedgerRow, e.status = "COMPLETED",
           NEW k, Changes(e.user, e.amount, k),
           house' = house + (IF Against(e.type) = House THEN -e.amount ELSE 0),
           \A q \in Posted : q.id # PostOf(e).id, Posted' = Posted \cup {PostOf(e)}
    PROVE  Books!Next
<1> DEFINE p == PostOf(e)
<1>1. /\ p.account = e.user /\ p.against = Against(e.type) /\ p.amount = e.amount
      /\ e.user \in Users /\ e.amount \in Int /\ e.type \in EntryType
      /\ Against(e.type) \in {House, World}
      /\ House \notin Users /\ World \notin Accts
  BY UsersAssumption DEF PostOf, LedgerRow, Against, Accts
<1>2. p \in Postings
  BY <1>1 DEF PostOf, Postings, LedgerRow
<1>3. \A a \in Accts : Funds[a] \in Nat /\ Funds'[a] \in Nat
  BY FundsNat
<1>4. /\ Funds[House] = house /\ Funds'[House] = house'
      /\ \A u \in Users : Funds[u] = Fund(u) /\ Funds'[u] = Fund(u)'
  BY <1>1, FundsAt DEF Fund, Accts
<1>5. /\ e.user \in DOMAIN wallet /\ DOMAIN wallet' = DOMAIN wallet
      /\ wallet'[e.user].balance = wallet[e.user].balance + e.amount
      /\ \A v \in DOMAIN wallet \ {e.user} : wallet'[v] = wallet[v]
  BY DEF Changes, HasWallet
<1>6. Funds'[e.user] = Funds[e.user] + e.amount
  BY <1>1, <1>4, <1>5 DEF Fund, HasWallet
<1>7. \A v \in Users \ {e.user} : Funds'[v] = Funds[v]
  BY <1>1, <1>4, <1>5 DEF Fund, HasWallet
<1>8. \A v \in Users \ {e.user} : Funds'[v] = Funds[v] + 0
  BY <1>3, <1>7 DEF Accts
<1> HIDE DEF p
<1>9. ASSUME NEW a \in Accts
      PROVE  Funds'[a] = Funds[a] + (CASE a = p.account -> p.amount
                                       [] a = p.against -> -p.amount
                                       [] OTHER -> 0)
  <2>1. CASE a = e.user
    BY <1>1, <1>6, <2>1
  <2>2. CASE a \in Users \ {e.user}
    BY <1>1, <1>8, <2>2 DEF Accts
  <2>3. CASE a = House /\ Against(e.type) = House
    BY <1>1, <1>4, <2>3
  <2>4. CASE a = House /\ Against(e.type) # House
    <3>1. Funds'[House] = Funds[House] + 0
      BY <1>4, <2>4
    <3> QED
      BY <1>1, <2>4, <3>1
  <2> QED
    BY <2>1, <2>2, <2>3, <2>4 DEF Accts
<1>10. \A a \in Accts : Funds'[a] >= 0
  BY <1>3
<1> QED
  BY <1>2, <1>9, <1>10, BookPosts DEF p

\* The treasury is given or takes an amount.
LEMMA BookHouse ==
    ASSUME TypeOK, TypeOK', NEW h, HouseGains(h), h.user = Nobody,
           UNCHANGED <<wallet, ledger>>, \A q \in Posted : q.id # HousePost(h).id
    PROVE  Books!Next
<1> DEFINE p == HousePost(h)
<1>1. /\ p.account = House /\ p.against = World /\ p.amount = h.amount
      /\ h.amount \in Int /\ h \in HouseRow
      /\ World \notin Accts /\ House \notin Users
  BY UsersAssumption DEF HousePost, Accts, HouseGains, HouseRow
<1>2. p \in Postings
  BY <1>1 DEF HousePost, Postings, HouseRow, EntryType
<1>3. \A a \in Accts : Funds[a] \in Nat /\ Funds'[a] \in Nat
  BY FundsNat
<1>4. Posted' = Posted \cup {p}
  <2>1. houseLedger' = houseLedger \cup {h}
    BY DEF HouseGains
  <2>2. HousePosts(houseLedger') = HousePosts(houseLedger) \cup {p}
    BY <2>1 DEF HousePosts
  <2> QED
    BY <2>2, PostedIs
<1>5. Funds'[House] = Funds[House] + h.amount /\ \A u \in Users : Funds'[u] = Funds[u]
  BY <1>1, FundsAt DEF Fund, Accts, HouseGains, HasWallet
<1>6. \A u \in Users : Funds'[u] = Funds[u] + 0
  BY <1>3, <1>5 DEF Accts
<1> HIDE DEF p
<1>7. ASSUME NEW a \in Accts
      PROVE  Funds'[a] = Funds[a] + (CASE a = p.account -> p.amount
                                       [] a = p.against -> -p.amount
                                       [] OTHER -> 0)
  BY <1>1, <1>5, <1>6 DEF Accts
<1>8. \A a \in Accts : Funds'[a] >= 0
  BY <1>3
<1> QED
  BY <1>2, <1>4, <1>7, <1>8, BookPosts DEF p

\* What a new entry, or one completed, adds to the postings.
LEMMA PostedAdds ==
    ASSUME NEW e, Adds(e), HousePosts(houseLedger') = HousePosts(houseLedger)
    PROVE  Posted' = IF e.status = "COMPLETED" THEN Posted \cup {PostOf(e)} ELSE Posted
<1>1. ledger' = ledger \cup {e}
  BY DEF Adds
<1>2. UserPosts(ledger') =
        IF e.status = "COMPLETED" THEN UserPosts(ledger) \cup {PostOf(e)} ELSE UserPosts(ledger)
  BY <1>1 DEF UserPosts
<1> QED
  BY <1>2, PostedIs

LEMMA PostedCompletes ==
    ASSUME TypeOK, NEW e, Completes(e), houseLedger' = houseLedger
    PROVE  Posted' = Posted \cup {PostOf(Done(e))}
<1>1. e \in LedgerRow /\ e.status = "PENDING" /\ ledger' = (ledger \ {e}) \cup {Done(e)}
  BY DEF Completes, TypeOK
<1>2. Done(e).status = "COMPLETED"
  BY <1>1, DoneIs
<1>3. UserPosts(ledger') = UserPosts(ledger) \cup {PostOf(Done(e))}
  BY <1>1, <1>2 DEF UserPosts
<1> QED
  BY <1>3, PostedIs

\* The house's row of a user's entry is not a posting of its own.
LEMMA UserSideOnly ==
    ASSUME NEW h, h.user # Nobody, houseLedger' = houseLedger \cup {h}
    PROVE  HousePosts(houseLedger') = HousePosts(houseLedger)
  BY DEF HousePosts

LEMMA AddsNewName ==
    ASSUME TypeOK, NEW e, Adds(e)
    PROVE  \A q \in Posted : q.id # PostOf(e).id
  BY NewName DEF Adds, NameTaken

\* Money comes with a new entry.
LEMMA BookAdds ==
    ASSUME TypeOK, TypeOK', NEW e, Adds(e), e.status = "COMPLETED", NEW k,
           Changes(e.user, e.amount, k),
           \/ Against(e.type) = World /\ UNCHANGED <<house, houseLedger>>
           \/ /\ Against(e.type) = House
              /\ HouseGains([user |-> e.user, ref |-> e.ref, type |-> e.type,
                             amount |-> -e.amount])
    PROVE  Books!Next
<1>1. e \in LedgerRow /\ e.user \in Users /\ Nobody \notin Users /\ World # House /\ e.amount \in Int
  BY UsersAssumption DEF Adds, LedgerRow
<1>2. \A q \in Posted : q.id # PostOf(e).id
  BY AddsNewName
<1>3. /\ house' = house + (IF Against(e.type) = House THEN -e.amount ELSE 0)
      /\ HousePosts(houseLedger') = HousePosts(houseLedger)
  <2>1. CASE Against(e.type) = World /\ UNCHANGED <<house, houseLedger>>
    <3>1. house \in Nat
      BY DEF TypeOK
    <3> QED
      BY <1>1, <2>1, <3>1
  <2>2. CASE /\ Against(e.type) = House
             /\ HouseGains([user |-> e.user, ref |-> e.ref, type |-> e.type,
                            amount |-> -e.amount])
    <3> DEFINE h == [user |-> e.user, ref |-> e.ref, type |-> e.type, amount |-> -e.amount]
    <3>1. h.user # Nobody /\ h.amount = -e.amount
      BY <1>1
    <3>2. HouseGains(h)
      BY <2>2
    <3> HIDE DEF h
    <3> QED
      BY <2>2, <3>1, <3>2, UserSideOnly DEF HouseGains
  <2> QED
    BY <2>1, <2>2
<1>4. Posted' = Posted \cup {PostOf(e)}
  BY <1>3, PostedAdds
<1> QED
  BY <1>1, <1>2, <1>3, <1>4, BookEntry

LEMMA BookStep ==
    ASSUME TypeOK, TypeOK', Rows, NamesUnique, AuditTellsAdjustments, KindOfStep
    PROVE  Books!Next \/ (Funds' = Funds /\ Posted' = Posted)
<1> DEFINE Goal == Books!Next \/ (Funds' = Funds /\ Posted' = Posted)
<1>0. SUFFICES Goal
  OBVIOUS
<1>1. ASSUME UNCHANGED <<house, ledger, houseLedger>>,
             \A u \in Users : Fund(u)' = Fund(u)
      PROVE  Goal
  <2>1. \A a \in Accts : Funds'[a] = Funds[a]
    BY <1>1, FundsAt DEF Fund, Accts
  <2>2. Funds' = Funds
    BY <2>1 DEF Funds
  <2> QED
    BY <1>1, <2>2, PostedIs
<1>2. House \notin Users /\ World \notin Accts /\ Nobody \notin Users
  BY UsersAssumption DEF Accts
<1> HIDE DEF Goal
<1>3. CASE Quiet
  <2>1. UNCHANGED <<house, ledger, houseLedger>>
    BY <1>3 DEF Quiet
  <2>2. \A u \in Users : Fund(u)' = Fund(u)
    <3>1. CASE wallet' = wallet
      BY <1>2, <3>1 DEF Fund, HasWallet
    <3>2. ASSUME NEW v \in Known, wallet' = WithWallet(v)
          PROVE  \A u \in Users : Fund(u)' = Fund(u)
      <4> DEFINE new == [balance |-> 0, locked |-> 0]
      <4>1. wallet' = [k \in DOMAIN wallet \cup {v} |->
                          IF k \in DOMAIN wallet THEN wallet[k] ELSE new]
        BY <3>2 DEF WithWallet, Upserted
      <4>2. new.balance = 0
        OBVIOUS
      <4> HIDE DEF new
      <4> QED
        BY <1>2, <4>1, <4>2 DEF Fund, HasWallet
    <3> QED
      BY <1>3, <3>1, <3>2 DEF Quiet
  <2> QED
    BY <1>1, <2>1, <2>2
<1>4. ASSUME NEW u, NEW k, Changes(u, 0, k)
      PROVE  \A v \in Users : Fund(v)' = Fund(v)
  <2>1. /\ u \in DOMAIN wallet /\ DOMAIN wallet' = DOMAIN wallet
        /\ wallet'[u].balance = wallet[u].balance + 0
        /\ \A v \in DOMAIN wallet \ {u} : wallet'[v] = wallet[v]
    BY <1>4 DEF Changes, HasWallet
  <2>2. wallet[u].balance \in Int
    BY <2>1 DEF TypeOK, Row
  <2>3. \A v \in DOMAIN wallet : wallet'[v].balance = wallet[v].balance
    BY <2>1, <2>2
  <2> QED
    BY <1>2, <2>1, <2>3 DEF Fund, HasWallet
<1>5. ASSUME NEW e, Creates(e)
      PROVE  Goal
  <2>1. /\ Adds(e) /\ e.status # "COMPLETED" /\ UNCHANGED <<house, houseLedger>>
        /\ Changes(e.user, 0, e.held)
    BY <1>5 DEF Creates
  <2>2. Posted' = Posted
    BY <2>1, PostedAdds
  <2>3. \A v \in Users : Fund(v)' = Fund(v)
    BY <1>4, <2>1
  <2>4. \A a \in Accts : Funds'[a] = Funds[a]
    BY <2>1, <2>3, FundsAt DEF Fund, Accts
  <2>5. Funds' = Funds
    BY <2>4 DEF Funds
  <2> QED
    BY <2>2, <2>5 DEF Goal
<1>6. ASSUME NEW e, Applies(e)
      PROVE  Goal
  <2>1. /\ Completes(e) /\ e.type \in {"DEPOSIT", "WITHDRAW"} /\ UNCHANGED <<house, houseLedger>>
        /\ Changes(e.user, e.amount, -Debit(e.amount)) /\ e \in ledger
        /\ e.status = "PENDING" /\ e \in LedgerRow /\ house \in Nat
    BY <1>6 DEF Applies, Completes, TypeOK
  <2>2. /\ Done(e) \in LedgerRow /\ Done(e).status = "COMPLETED"
        /\ Done(e).user = e.user /\ Done(e).ref = e.ref /\ Done(e).type = e.type
        /\ Done(e).amount = e.amount
    BY <2>1, DoneIs
  <2>3. Posted' = Posted \cup {PostOf(Done(e))}
    BY <2>1, PostedCompletes
  <2>4. \A q \in Posted : q.id # PostOf(Done(e)).id
    BY <2>1, <2>2, NewName DEF NamesUnique
  <2>5. Against(Done(e).type) = World /\ World # House
    BY <2>1, <2>2, UsersAssumption DEF Against
  <2>6. house' = house + (IF Against(Done(e).type) = House THEN -Done(e).amount ELSE 0)
    BY <2>1, <2>5
  <2> QED
    BY <2>1, <2>2, <2>3, <2>4, <2>6, BookEntry DEF Goal
<1>7. ASSUME NEW e, Pays(e)
      PROVE  Goal
  <2>1. Against("REWARD") = World
    BY DEF Against
  <2> QED
    BY <1>7, <2>1, BookAdds DEF Pays, Goal
<1>8. ASSUME NEW e, Adjusts(e)
      PROVE  Goal
  <2>1. Against("ADJUSTMENT") = House
    BY DEF Against
  <2> QED
    BY <1>8, <2>1, BookAdds DEF Adjusts, Goal
<1>9. ASSUME NEW e, NEW how, Settles(e, how)
      PROVE  Goal
  <2>1. Against(e.type) = House
    BY <1>9 DEF Against, Settles
  <2> QED
    BY <1>9, <2>1, BookAdds DEF Settles, Goal
<1>10. ASSUME NEW h, AdjustsHouse(h) \/ FundsHouse(h)
       PROVE  Goal
  <2>1. HouseGains(h) /\ h.user = Nobody /\ UNCHANGED <<wallet, ledger>>
    BY <1>10 DEF AdjustsHouse, FundsHouse
  <2>2. \A g \in houseLedger : ~(g.ref = h.ref /\ g.type = h.type)
    <3>1. CASE AdjustsHouse(h)
      BY <3>1 DEF AdjustsHouse, AuditTellsAdjustments
    <3>2. CASE FundsHouse(h)
      BY <3>2 DEF FundsHouse
    <3> QED
      BY <1>10, <3>1, <3>2
  <2>3. HousePost(h).id = <<House, h.ref, h.type>>
    BY DEF HousePost
  <2>4. \A q \in HousePosts(houseLedger) : q.id # HousePost(h).id
    BY <2>2, <2>3 DEF HousePosts, HousePost
  <2>5. \A q \in UserPosts(ledger) : q.id # HousePost(h).id
    <3>1. \A d \in ledger : d.user \in Users
      BY DEF TypeOK, LedgerRow
    <3> QED
      BY <1>2, <2>3, <3>1 DEF UserPosts, PostOf
  <2>6. \A q \in Posted : q.id # HousePost(h).id
    BY <2>4, <2>5, PostedIs
  <2> QED
    BY <2>1, <2>6, BookHouse DEF Goal
<1>11. ASSUME NEW u, Places(u)
       PROVE  Goal
  <2>1. UNCHANGED <<house, ledger, houseLedger>> /\ Changes(u, 0, Amount)
    BY <1>11 DEF Places
  <2> QED
    BY <1>1, <1>4, <2>1
<1>12. ASSUME NEW S, RepairsOf(S)
       PROVE  Goal
  <2>1. /\ UNCHANGED <<house, ledger, houseLedger>>
        /\ wallet' = [u \in DOMAIN wallet |->
              IF u \in S THEN [wallet[u] EXCEPT !.locked = Staked(u)] ELSE wallet[u]]
    BY <1>12 DEF RepairsOf
  <2>2. \A u \in DOMAIN wallet : wallet[u] \in Row
    BY DEF TypeOK
  <2>3. \A u \in DOMAIN wallet : wallet'[u].balance = wallet[u].balance
    BY <2>1, <2>2 DEF Row
  <2>4. DOMAIN wallet' = DOMAIN wallet
    BY <2>1
  <2>5. \A u \in Users : Fund(u)' = Fund(u)
    BY <1>2, <2>3, <2>4 DEF Fund, HasWallet
  <2> QED
    BY <1>1, <2>1, <2>5
<1> QED
  BY <1>3, <1>5, <1>6, <1>7, <1>8, <1>9, <1>10, <1>11, <1>12 DEF KindOfStep

LEMMA BookStart == Init => Books!Init
<1> SUFFICES ASSUME Init PROVE Books!Init
  OBVIOUS
<1>1. /\ ledger = {} /\ houseLedger = {} /\ house = Bankroll
      /\ wallet = [u \in {Founder} |-> [balance |-> FounderFunds, locked |-> 0]]
      /\ House # Founder
  BY UsersAssumption DEF Init
<1>2. Posted = {}
  BY <1>1, PostedIs DEF UserPosts, HousePosts
<1>3. Funds = [a \in Accts |-> CASE a = House -> Bankroll
                                 [] a = Founder -> FounderFunds [] OTHER -> 0]
  <2>1. \A a \in Accts : Funds[a] = CASE a = House -> Bankroll
                                      [] a = Founder -> FounderFunds [] OTHER -> 0
    BY <1>1 DEF Funds
  <2> QED
    BY <2>1 DEF Funds
<1> QED
  BY <1>2, <1>3 DEF Books!Init, Funds, Accts

\* Every request, however its steps interleave, die or are repeated, is one
\* posting of double-entry bookkeeping or none (createTransaction,
\* applyTransaction, the adjustments, the treasury, the settlement of stakes).
THEOREM BookIsRefined == Spec => BookRefined
<1>1. Init => Books!Init
  BY BookStart
<1>2. IInv /\ IInv' /\ [Next]_vars => [Books!Next]_<<Funds, Posted>>
  <2> SUFFICES ASSUME IInv, IInv', [Next]_vars
               PROVE  Books!Next \/ (Funds' = Funds /\ Posted' = Posted)
    OBVIOUS
  <2>1. KindOfStep
    BY RequestStep, OtherStep DEF Next
  <2> QED
    BY <2>1, BookStep DEF IInv
<1>3. [Books!Next]_<<Funds, Posted>> => [Books!Next]_(Books!vars)
  BY DEF Books!vars, Funds, Accts
<1> QED
  BY <1>1, <1>2, <1>3, Invariant, PTL DEF Spec, BookRefined, Books!Spec
=============================================================================
