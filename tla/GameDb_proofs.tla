--------------------------- MODULE GameDb_proofs ----------------------------
(***************************************************************************)
(* Theorems of GameDb for every set of players, number of rounds, stakes   *)
(* and risk configuration, and for every order of the transactions.        *)
(* The sums over bets and entries are taken apart with the lemmas of Sums. *)
(***************************************************************************)
EXTENDS GameDb, Sums, FiniteSetTheorems, TLAPS

\* The vocabulary the leaves below share.
LEMMA EntryTyped ==
    ASSUME NEW type \in SettlementType, NEW r \in Rounds, NEW u \in Users,
           NEW a \in Int
    PROVE  EntryOf(type, r, u, a) \in Entry
  BY DEF EntryOf, Entry

\* A wallet movement that commits leaves the wallet sound (CHECK constraints).
LEMMA MoveFundsTyped ==
    ASSUME TypeOK, NEW u \in Users, NEW db \in Int, NEW dl \in Int,
           MoveFunds(u, db, dl)
    PROVE  /\ balance' \in [Users -> Nat]
           /\ locked' \in [Users -> Nat]
           /\ \A v \in Users : locked'[v] <= balance'[v]
<1> DEFINE b == balance[u] + db
           l == locked[u] + dl
<1>1. b \in Int /\ l \in Int
  BY DEF TypeOK
<1>2. 0 <= l /\ l <= b /\ balance' = [balance EXCEPT ![u] = b]
      /\ locked' = [locked EXCEPT ![u] = l]
  BY DEF MoveFunds
<1>3. b \in Nat /\ l \in Nat
  BY <1>1, <1>2
<1> HIDE DEF b, l
<1>4. \A v \in Users : locked'[v] <= balance'[v]
  BY <1>2, <1>3 DEF TypeOK
<1>5. QED
  BY <1>2, <1>3, <1>4 DEF TypeOK

\* The house wallet is never overdrawn, and its ledger stays a set of entries.
LEMMA MutateHouseTyped ==
    ASSUME TypeOK, NEW type \in SettlementType, NEW r \in Rounds,
           NEW u \in Users, NEW a \in Int, MutateHouse(type, r, u, a)
    PROVE  house' \in Nat /\ houseLedger' \subseteq Entry
<1>1. EntryOf(type, r, u, a) \in Entry
  BY EntryTyped
<1>2. CASE Recorded(houseLedger, type, r, u)
  BY <1>2 DEF MutateHouse, TypeOK
<1>3. CASE ~Recorded(houseLedger, type, r, u)
  BY <1>1, <1>3 DEF MutateHouse, TypeOK
<1>4. QED
  BY <1>2, <1>3

LEMMA RecordSettlementTyped ==
    ASSUME TypeOK, NEW type \in SettlementType, NEW r \in Rounds,
           NEW u \in Users, NEW a \in Int, RecordSettlement(type, r, u, a)
    PROVE  ledger' \subseteq Entry
  BY EntryTyped DEF RecordSettlement, TypeOK

LEMMA ResolveTyped ==
    ASSUME TypeOK, NEW r \in Rounds, NEW u \in Users,
           NEW outcome \in PlayerStatus, Resolve(r, u, outcome)
    PROVE  player' \in [Rounds -> [Users -> PlayerStatus]]
<1>1. [player[r] EXCEPT ![u] = outcome] \in [Users -> PlayerStatus]
  BY DEF TypeOK
<1>2. player' = [player EXCEPT ![r] = [player[r] EXCEPT ![u] = outcome]]
  BY DEF Resolve
<1>3. QED
  BY <1>1, <1>2 DEF TypeOK

-----------------------------------------------------------------------------
(* Type correctness, one lemma per transaction.                            *)

LEMMA TypeInit == Init => TypeOK
  BY MoneyAssumption
     DEF Init, TypeOK, RoundStatus, Clock, PlayerStatus, Entry

LEMMA TypeRounds ==
    ASSUME TypeOK, NEW r \in Rounds,
           \/ CreateRound(r)
           \/ FinishRound(r)
           \/ TimePasses(r)
           \/ \E c \in 2..MaxCrash : StartRound(r, c) \/ CrashRound(r, c)
    PROVE  TypeOK'
<1>1. CASE CreateRound(r)
  BY <1>1 DEF CreateRound, TypeOK, RoundStatus, Clock, betVars, queueVars, moneyVars
<1>2. CASE FinishRound(r)
  BY <1>2 DEF FinishRound, TypeOK, RoundStatus, betVars, queueVars, moneyVars
<1>3. CASE TimePasses(r)
  BY <1>3 DEF TimePasses, TypeOK, Clock, betVars, queueVars, moneyVars
<1>4. ASSUME NEW c \in 2..MaxCrash, StartRound(r, c)
      PROVE  TypeOK'
  <2>1. c \in Nat
    BY MultiplierAssumption
  <2>2. QED
    BY <1>4, <2>1
       DEF StartRound, TypeOK, RoundStatus, Clock, betVars, queueVars, moneyVars
<1>5. ASSUME NEW c \in 2..MaxCrash, CrashRound(r, c)
      PROVE  TypeOK'
  <2>1. c \in Nat
    BY MultiplierAssumption
  <2>2. clock' \in [Rounds -> Clock]
    BY <1>5 DEF CrashRound, TypeOK, Clock
  <2>3. QED
    BY <1>5, <2>1, <2>2
       DEF CrashRound, TypeOK, RoundStatus, betVars, queueVars, moneyVars
<1>6. QED
  BY <1>1, <1>2, <1>3, <1>4, <1>5

LEMMA TypePlaceBet ==
    ASSUME TypeOK, NEW r \in Rounds, NEW u \in Users, NEW a \in Stakes,
           PlaceBetForCurrentRound(r, u, a)
    PROVE  TypeOK'
<1>1. a \in Nat /\ MoveFunds(u, 0, a)
  BY StakesAssumption DEF PlaceBetForCurrentRound
<1>2. /\ balance' \in [Users -> Nat]
      /\ locked' \in [Users -> Nat]
      /\ \A v \in Users : locked'[v] <= balance'[v]
  BY <1>1, MoveFundsTyped
<1>3. [player[r] EXCEPT ![u] = "BET_PLACED"] \in [Users -> PlayerStatus]
  BY DEF TypeOK, PlayerStatus
<1>4. [stake[r] EXCEPT ![u] = a] \in [Users -> Nat]
  BY <1>1 DEF TypeOK
<1>5. /\ player' = [player EXCEPT ![r] = [player[r] EXCEPT ![u] = "BET_PLACED"]]
      /\ stake' = [stake EXCEPT ![r] = [stake[r] EXCEPT ![u] = a]]
      /\ UNCHANGED <<roundVars, queueVars, house, ledger, houseLedger>>
  BY DEF PlaceBetForCurrentRound
<1>6. QED
  BY <1>2, <1>3, <1>4, <1>5 DEF TypeOK, roundVars, queueVars

LEMMA TypeQueueBet ==
    ASSUME TypeOK, NEW r \in Rounds, NEW u \in Users, NEW a \in Stakes,
           QueueBetForNextRound(r, u, a)
    PROVE  TypeOK'
<1>1. a \in Nat /\ MoveFunds(u, 0, a)
  BY StakesAssumption DEF QueueBetForNextRound
<1>2. /\ balance' \in [Users -> Nat]
      /\ locked' \in [Users -> Nat]
      /\ \A v \in Users : locked'[v] <= balance'[v]
  BY <1>1, MoveFundsTyped
<1>3. Cardinality(InQueue) + 1 \in Nat
  BY UsersAssumption, FS_Subset, FS_CardinalityType DEF InQueue
<1>4. QED
  BY <1>1, <1>2, <1>3 DEF QueueBetForNextRound, TypeOK, roundVars, betVars

LEMMA TypeActivate ==
    ASSUME TypeOK, NEW r \in Rounds, ActivateQueuedBets(r)
    PROVE  TypeOK'
<1>1. PICK accepted \in SUBSET InQueue :
        /\ \A u \in InQueue \ accepted : queued[u] <= locked[u]
        /\ player' = [player EXCEPT ![r] = [u \in Users |->
                        IF u \in accepted THEN "BET_PLACED" ELSE player[r][u]]]
        /\ stake' = [stake EXCEPT ![r] = [u \in Users |->
                        IF u \in accepted THEN queued[u] ELSE stake[r][u]]]
        /\ locked' = [u \in Users |->
                        IF u \in InQueue \ accepted THEN locked[u] - queued[u]
                                                    ELSE locked[u]]
  BY DEF ActivateQueuedBets, TypeOK
<1>2. player' \in [Rounds -> [Users -> PlayerStatus]]
  <2>1. [u \in Users |-> IF u \in accepted THEN "BET_PLACED" ELSE player[r][u]]
          \in [Users -> PlayerStatus]
    BY DEF TypeOK, PlayerStatus
  <2>2. QED
    BY <1>1, <2>1 DEF TypeOK
<1>3. stake' \in [Rounds -> [Users -> Nat]]
  <2>1. [u \in Users |-> IF u \in accepted THEN queued[u] ELSE stake[r][u]]
          \in [Users -> Nat]
    BY DEF TypeOK
  <2>2. QED
    BY <1>1, <2>1 DEF TypeOK
<1>4. \A u \in Users : locked'[u] \in Nat /\ locked'[u] <= locked[u]
  BY <1>1 DEF TypeOK
<1>5. locked' \in [Users -> Nat]
  BY <1>1, <1>4
<1>6. balance' = balance /\ house' = house /\ ledger' = ledger
      /\ houseLedger' = houseLedger /\ UNCHANGED roundVars
      /\ queued' = [u \in Users |-> 0] /\ place' = [u \in Users |-> 0]
  BY DEF ActivateQueuedBets
<1>7. \A u \in Users : locked'[u] <= balance'[u]
  BY <1>4, <1>6 DEF TypeOK
<1>8. QED
  BY <1>2, <1>3, <1>5, <1>6, <1>7 DEF TypeOK, roundVars

LEMMA TypeCashout ==
    ASSUME TypeOK, NEW r \in Rounds, NEW u \in Users, NEW m \in 1..MaxCrash,
           CashoutPlayer(r, u, m)
    PROVE  TypeOK'
<1> DEFINE p == Profit(r, u, m)
<1>1. p \in Int /\ -p \in Int /\ stake[r][u] \in Nat /\ -stake[r][u] \in Int
  <2>1. m \in Int /\ stake[r][u] \in Nat
    BY MultiplierAssumption DEF TypeOK
  <2>2. QED
    BY <2>1 DEF Profit
<1>2. /\ Resolve(r, u, "CASHED_OUT")
      /\ RecordSettlement("BET_WIN", r, u, p)
      /\ MoveFunds(u, p, -stake[r][u])
      /\ MutateHouse("BET_WIN", r, u, -p) \/ UNCHANGED <<house, houseLedger>>
      /\ UNCHANGED <<roundVars, stake, queueVars>>
  BY DEF CashoutPlayer
<1>3. "BET_WIN" \in SettlementType /\ "CASHED_OUT" \in PlayerStatus
  BY DEF SettlementType, PlayerStatus
<1> HIDE DEF p
<1>4. player' \in [Rounds -> [Users -> PlayerStatus]]
  BY <1>2, <1>3, ResolveTyped
<1>5. /\ balance' \in [Users -> Nat]
      /\ locked' \in [Users -> Nat]
      /\ \A v \in Users : locked'[v] <= balance'[v]
  BY <1>1, <1>2, MoveFundsTyped
<1>6. ledger' \subseteq Entry
  BY <1>1, <1>2, <1>3, RecordSettlementTyped
<1>7. house' \in Nat /\ houseLedger' \subseteq Entry
  <2>1. CASE MutateHouse("BET_WIN", r, u, -p)
    BY <2>1, <1>1, <1>3, MutateHouseTyped
  <2>2. CASE UNCHANGED <<house, houseLedger>>
    BY <2>2 DEF TypeOK
  <2>3. QED
    BY <2>1, <2>2, <1>2
<1>8. QED
  BY <1>2, <1>4, <1>5, <1>6, <1>7 DEF TypeOK, roundVars, queueVars

LEMMA TypeSettleLoss ==
    ASSUME TypeOK, NEW r \in Rounds, NEW u \in Users, SettleLoss(r, u)
    PROVE  TypeOK'
<1>1. stake[r][u] \in Int /\ -stake[r][u] \in Int
  BY DEF TypeOK
<1>2. /\ Resolve(r, u, "LOST")
      /\ RecordSettlement("BET_LOSS_SETTLEMENT", r, u, -stake[r][u])
      /\ MoveFunds(u, -stake[r][u], -stake[r][u])
      /\ MutateHouse("BET_LOSS_SETTLEMENT", r, u, stake[r][u])
      /\ UNCHANGED <<roundVars, stake, queueVars>>
  BY DEF SettleLoss
<1>3. "BET_LOSS_SETTLEMENT" \in SettlementType /\ "LOST" \in PlayerStatus
  BY DEF SettlementType, PlayerStatus
<1>4. player' \in [Rounds -> [Users -> PlayerStatus]]
  BY <1>2, <1>3, ResolveTyped
<1>5. /\ balance' \in [Users -> Nat]
      /\ locked' \in [Users -> Nat]
      /\ \A v \in Users : locked'[v] <= balance'[v]
  BY <1>1, <1>2, MoveFundsTyped
<1>6. ledger' \subseteq Entry
  BY <1>1, <1>2, <1>3, RecordSettlementTyped
<1>7. house' \in Nat /\ houseLedger' \subseteq Entry
  BY <1>1, <1>2, <1>3, MutateHouseTyped
<1>8. QED
  BY <1>2, <1>4, <1>5, <1>6, <1>7 DEF TypeOK, roundVars, queueVars

LEMMA TypeRepair ==
    ASSUME TypeOK, NEW u \in Users, RepairWallet(u)
    PROVE  TypeOK'
<1> DEFINE stale  == StaleBets(u)
           unpaid == {r \in stale :
                        ~Recorded(houseLedger, "BET_LOSS_SETTLEMENT", r, u)}
<1>1. PICK owed \in 0..locked[u], credit \in 0..locked[u],
           expected \in 0..balance[u] :
        /\ expected <= balance[u] - owed
        /\ ledger' = ledger \cup
             {EntryOf("BET_LOSS_SETTLEMENT", r, u, -stake[r][u]) : r \in stale}
        /\ houseLedger' = houseLedger \cup
             {EntryOf("BET_LOSS_SETTLEMENT", r, u, stake[r][u]) : r \in unpaid}
        /\ player' = [r \in Rounds |->
             IF r \in stale THEN [player[r] EXCEPT ![u] = "LOST"] ELSE player[r]]
        /\ balance' = [balance EXCEPT ![u] = @ - owed]
        /\ locked' = [locked EXCEPT ![u] = expected]
        /\ house' = house + credit
        /\ UNCHANGED <<roundVars, stake, queueVars>>
  BY DEF RepairWallet
<1>2. stale \subseteq Rounds /\ unpaid \subseteq stale
  BY DEF StaleBets, BetsOf
<1>3. /\ locked[u] \in Nat /\ balance[u] \in Nat
      /\ owed \in Nat /\ credit \in Nat /\ expected \in Nat
      /\ balance[u] - owed \in Nat
  BY <1>1 DEF TypeOK
<1> HIDE DEF stale, unpaid
<1>4. /\ balance' \in [Users -> Nat]
      /\ locked' \in [Users -> Nat]
      /\ \A v \in Users : locked'[v] <= balance'[v]
  BY <1>1, <1>3 DEF TypeOK
<1>5. house' \in Nat
  BY <1>1, <1>3 DEF TypeOK
<1>6. player' \in [Rounds -> [Users -> PlayerStatus]]
  BY <1>1 DEF TypeOK, PlayerStatus
<1>7. \A r \in stale : stake[r][u] \in Int /\ -stake[r][u] \in Int
  BY <1>2 DEF TypeOK
<1>8. \A r \in stale :
        /\ EntryOf("BET_LOSS_SETTLEMENT", r, u, -stake[r][u]) \in Entry
        /\ EntryOf("BET_LOSS_SETTLEMENT", r, u, stake[r][u]) \in Entry
  BY <1>2, <1>7, EntryTyped DEF SettlementType
<1>9. ledger' \subseteq Entry /\ houseLedger' \subseteq Entry
  BY <1>1, <1>2, <1>8 DEF TypeOK
<1>10. QED
  BY <1>1, <1>4, <1>5, <1>6, <1>9 DEF TypeOK, roundVars, queueVars

LEMMA TypeStep == TypeOK /\ [DbNext]_dbVars => TypeOK'
<1> SUFFICES ASSUME TypeOK, [DbNext]_dbVars PROVE TypeOK'
  OBVIOUS
<1>1. CASE UNCHANGED dbVars
  BY <1>1 DEF TypeOK, dbVars
<1>2. CASE DbNext
  <2>1. ASSUME NEW r \in Rounds,
               \/ CreateRound(r)
               \/ FinishRound(r)
               \/ TimePasses(r)
               \/ \E c \in 2..MaxCrash : StartRound(r, c) \/ CrashRound(r, c)
        PROVE  TypeOK'
    BY <2>1, TypeRounds
  <2>2. ASSUME NEW r \in Rounds, ActivateQueuedBets(r) PROVE TypeOK'
    BY <2>2, TypeActivate
  <2>3. ASSUME NEW r \in Rounds, NEW u \in Users, SettleLoss(r, u) PROVE TypeOK'
    BY <2>3, TypeSettleLoss
  <2>4. ASSUME NEW r \in Rounds, NEW u \in Users, NEW a \in Stakes,
               PlaceBetForCurrentRound(r, u, a)
        PROVE  TypeOK'
    BY <2>4, TypePlaceBet
  <2>5. ASSUME NEW r \in Rounds, NEW u \in Users, NEW a \in Stakes,
               QueueBetForNextRound(r, u, a)
        PROVE  TypeOK'
    BY <2>5, TypeQueueBet
  <2>6. ASSUME NEW r \in Rounds, NEW u \in Users, NEW m \in 1..MaxCrash,
               CashoutPlayer(r, u, m)
        PROVE  TypeOK'
    BY <2>6, TypeCashout
  <2>7. ASSUME NEW u \in Users, RepairWallet(u) PROVE TypeOK'
    BY <2>7, TypeRepair
  <2>8. QED
    BY <1>2, <2>1, <2>2, <2>3, <2>4, <2>5, <2>6, <2>7 DEF DbNext
<1>3. QED
  BY <1>1, <1>2

\* In every order of the transactions, no wallet and no bankroll is ever
\* overdrawn and no lock exceeds the balance it is part of.
THEOREM TypeCorrect == DbSpec => []TypeOK
<1>1. Init => TypeOK
  BY TypeInit
<1>2. TypeOK /\ [DbNext]_dbVars => TypeOK'
  BY TypeStep
<1>3. QED
  BY <1>1, <1>2, PTL DEF DbSpec
-----------------------------------------------------------------------------
(* One outcome per bet: inductive together with TypeOK.  A transaction that *)
(* resolves a bet tests StillPlaced, so by the invariant no entry of the    *)
(* bet is on either book yet.                                               *)

LEMMA RecordedAdd ==
    ASSUME NEW book, NEW type, NEW r, NEW u, NEW a, NEW t, NEW q, NEW v
    PROVE  Recorded(book \cup {EntryOf(type, r, u, a)}, t, q, v)
             <=> \/ Recorded(book, t, q, v)
                 \/ t = type /\ q = r /\ v = u
<1> DEFINE x == EntryOf(type, r, u, a)
<1>1. x.type = type /\ x.round = r /\ x.user = u
  BY DEF EntryOf
<1> HIDE DEF x
<1>2. (\E e \in book \cup {x} : e.type = t /\ e.round = q /\ e.user = v)
        <=> \/ \E e \in book : e.type = t /\ e.round = q /\ e.user = v
            \/ x.type = t /\ x.round = q /\ x.user = v
  OBVIOUS
<1>3. QED
  BY <1>1, <1>2 DEF Recorded, x

\* What OneOutcomePerBet says of one bet.
BetAccounted(r, u) ==
    /\ Recorded(ledger, "BET_WIN", r, u) <=> player[r][u] = "CASHED_OUT"
    /\ Recorded(ledger, "BET_LOSS_SETTLEMENT", r, u) <=> player[r][u] = "LOST"
    /\ Recorded(houseLedger, "BET_LOSS_SETTLEMENT", r, u) <=> player[r][u] = "LOST"
    /\ Recorded(houseLedger, "BET_WIN", r, u) => player[r][u] = "CASHED_OUT"

LEMMA OneOutcomeByBet ==
    OneOutcomePerBet <=> \A r \in Rounds, u \in Users : BetAccounted(r, u)
  BY DEF OneOutcomePerBet, BetAccounted

LEMMA OutcomeInit == Init => OneOutcomePerBet
  BY DEF Init, OneOutcomePerBet, Recorded

\* A step that writes no entry and opens bets only where there were none.
LEMMA OutcomeNoEntry ==
    ASSUME OneOutcomePerBet, UNCHANGED <<ledger, houseLedger>>,
           \A r \in Rounds, u \in Users :
              \/ player'[r][u] = player[r][u]
              \/ player[r][u] = "NONE" /\ player'[r][u] = "BET_PLACED"
    PROVE  OneOutcomePerBet'
  BY DEF OneOutcomePerBet, Recorded

LEMMA OutcomePlaceBet ==
    ASSUME TypeOK, OneOutcomePerBet, NEW r \in Rounds, NEW u \in Users,
           NEW a \in Stakes, PlaceBetForCurrentRound(r, u, a)
    PROVE  OneOutcomePerBet'
<1>1. /\ UNCHANGED <<ledger, houseLedger>> /\ player[r][u] = "NONE"
      /\ player' = [player EXCEPT ![r][u] = "BET_PLACED"]
  BY DEF PlaceBetForCurrentRound
<1>2. \A q \in Rounds, v \in Users :
        \/ player'[q][v] = player[q][v]
        \/ player[q][v] = "NONE" /\ player'[q][v] = "BET_PLACED"
  BY <1>1 DEF TypeOK
<1>3. QED
  BY <1>1, <1>2, OutcomeNoEntry

LEMMA OutcomeActivate ==
    ASSUME TypeOK, OneOutcomePerBet, NEW r \in Rounds, ActivateQueuedBets(r)
    PROVE  OneOutcomePerBet'
<1>1. PICK accepted \in SUBSET InQueue :
        /\ Accepts(r, accepted)
        /\ player' = [player EXCEPT ![r] = [u \in Users |->
                        IF u \in accepted THEN "BET_PLACED" ELSE player[r][u]]]
  BY DEF ActivateQueuedBets, TypeOK
<1>2. \A u \in accepted : player[r][u] = "NONE"
  BY <1>1 DEF Accepts
<1>3. \A q \in Rounds, v \in Users :
        \/ player'[q][v] = player[q][v]
        \/ player[q][v] = "NONE" /\ player'[q][v] = "BET_PLACED"
  BY <1>1, <1>2 DEF TypeOK
<1>4. UNCHANGED <<ledger, houseLedger>>
  BY DEF ActivateQueuedBets
<1>5. QED
  BY <1>3, <1>4, OutcomeNoEntry

LEMMA OutcomeCashout ==
    ASSUME TypeOK, OneOutcomePerBet, NEW r \in Rounds, NEW u \in Users,
           NEW m \in 1..MaxCrash, CashoutPlayer(r, u, m)
    PROVE  OneOutcomePerBet'
<1> DEFINE p == Profit(r, u, m)
<1>1. /\ player[r][u] = "BET_PLACED"
      /\ player' = [player EXCEPT ![r][u] = "CASHED_OUT"]
      /\ ledger' = ledger \cup {EntryOf("BET_WIN", r, u, p)}
      /\ \/ houseLedger' = houseLedger
         \/ houseLedger' = houseLedger \cup {EntryOf("BET_WIN", r, u, -p)}
  BY DEF CashoutPlayer, Resolve, StillPlaced, RecordSettlement, MutateHouse
<1> HIDE DEF p
<1>2. SUFFICES ASSUME NEW q \in Rounds, NEW v \in Users PROVE BetAccounted(q, v)'
  BY OneOutcomeByBet DEF OneOutcomePerBet, BetAccounted
<1>3. BetAccounted(q, v)
  BY OneOutcomeByBet
<1>4. player'[q][v] = IF q = r /\ v = u THEN "CASHED_OUT" ELSE player[q][v]
  BY <1>1 DEF TypeOK
<1>5. /\ Recorded(ledger', "BET_WIN", q, v)
           <=> Recorded(ledger, "BET_WIN", q, v) \/ (q = r /\ v = u)
      /\ Recorded(ledger', "BET_LOSS_SETTLEMENT", q, v)
           <=> Recorded(ledger, "BET_LOSS_SETTLEMENT", q, v)
  BY <1>1, RecordedAdd
<1>6. /\ Recorded(houseLedger', "BET_WIN", q, v)
           => Recorded(houseLedger, "BET_WIN", q, v) \/ (q = r /\ v = u)
      /\ Recorded(houseLedger', "BET_LOSS_SETTLEMENT", q, v)
           <=> Recorded(houseLedger, "BET_LOSS_SETTLEMENT", q, v)
  BY <1>1, RecordedAdd
<1>7. QED
  BY <1>1, <1>3, <1>4, <1>5, <1>6 DEF BetAccounted

LEMMA OutcomeSettleLoss ==
    ASSUME TypeOK, OneOutcomePerBet, NEW r \in Rounds, NEW u \in Users,
           SettleLoss(r, u)
    PROVE  OneOutcomePerBet'
<1>1. /\ player[r][u] = "BET_PLACED"
      /\ player' = [player EXCEPT ![r][u] = "LOST"]
      /\ ledger' = ledger \cup
           {EntryOf("BET_LOSS_SETTLEMENT", r, u, -stake[r][u])}
      /\ \/ /\ Recorded(houseLedger, "BET_LOSS_SETTLEMENT", r, u)
            /\ houseLedger' = houseLedger
         \/ houseLedger' = houseLedger \cup
              {EntryOf("BET_LOSS_SETTLEMENT", r, u, stake[r][u])}
  BY DEF SettleLoss, Resolve, StillPlaced, RecordSettlement, MutateHouse
<1>2. SUFFICES ASSUME NEW q \in Rounds, NEW v \in Users PROVE BetAccounted(q, v)'
  BY OneOutcomeByBet DEF OneOutcomePerBet, BetAccounted
<1>3. BetAccounted(q, v)
  BY OneOutcomeByBet
<1>4. player'[q][v] = IF q = r /\ v = u THEN "LOST" ELSE player[q][v]
  BY <1>1 DEF TypeOK
<1>5. /\ Recorded(ledger', "BET_LOSS_SETTLEMENT", q, v)
           <=> Recorded(ledger, "BET_LOSS_SETTLEMENT", q, v) \/ (q = r /\ v = u)
      /\ Recorded(ledger', "BET_WIN", q, v) <=> Recorded(ledger, "BET_WIN", q, v)
  BY <1>1, RecordedAdd
<1>6. /\ Recorded(houseLedger', "BET_LOSS_SETTLEMENT", q, v)
           <=> Recorded(houseLedger, "BET_LOSS_SETTLEMENT", q, v) \/ (q = r /\ v = u)
      /\ Recorded(houseLedger', "BET_WIN", q, v)
           <=> Recorded(houseLedger, "BET_WIN", q, v)
  BY <1>1, RecordedAdd
<1>7. QED
  BY <1>1, <1>3, <1>4, <1>5, <1>6 DEF BetAccounted

LEMMA EntryFields ==
    ASSUME NEW type, NEW r, NEW u, NEW a
    PROVE  /\ EntryOf(type, r, u, a).type = type
           /\ EntryOf(type, r, u, a).round = r
           /\ EntryOf(type, r, u, a).user = u
  BY DEF EntryOf

\* S holds entries of one type and player, one for each round of R.
EntriesFor(S, type, R, u) ==
    /\ \A e \in S : e.type = type /\ e.user = u /\ e.round \in R
    /\ \A r \in R : \E e \in S : e.round = r

LEMMA RecordedAddAll ==
    ASSUME NEW book, NEW type, NEW R, NEW u, NEW S, EntriesFor(S, type, R, u),
           NEW t, NEW q, NEW v
    PROVE  Recorded(book \cup S, t, q, v)
             <=> \/ Recorded(book, t, q, v)
                 \/ t = type /\ q \in R /\ v = u
<1>1. Recorded(book \cup S, t, q, v)
        <=> Recorded(book, t, q, v) \/ Recorded(S, t, q, v)
  BY DEF Recorded
<1>2. Recorded(S, t, q, v) <=> t = type /\ q \in R /\ v = u
  BY DEF Recorded, EntriesFor
<1>3. QED
  BY <1>1, <1>2

LEMMA OutcomeRepair ==
    ASSUME TypeOK, OneOutcomePerBet, NEW u \in Users, RepairWallet(u)
    PROVE  OneOutcomePerBet'
<1> DEFINE stale  == StaleBets(u)
           unpaid == {r \in stale :
                        ~Recorded(houseLedger, "BET_LOSS_SETTLEMENT", r, u)}
           lost   == {EntryOf("BET_LOSS_SETTLEMENT", r, u, -stake[r][u]) : r \in stale}
           taken  == {EntryOf("BET_LOSS_SETTLEMENT", r, u, stake[r][u]) : r \in unpaid}
<1>1. /\ ledger' = ledger \cup lost
      /\ houseLedger' = houseLedger \cup taken
      /\ player' = [r \in Rounds |->
           IF r \in stale THEN [player[r] EXCEPT ![u] = "LOST"] ELSE player[r]]
  BY DEF RepairWallet
<1>2. \A r \in stale : r \in Rounds /\ player[r][u] = "BET_PLACED"
  BY DEF StaleBets, BetsOf, StillPlaced
<1>3. unpaid = stale
  BY <1>2 DEF OneOutcomePerBet
<1>4. EntriesFor(lost, "BET_LOSS_SETTLEMENT", stale, u)
  BY EntryFields DEF EntriesFor
<1>5. EntriesFor(taken, "BET_LOSS_SETTLEMENT", unpaid, u)
  BY EntryFields DEF EntriesFor
<1> HIDE DEF stale, unpaid, lost, taken
<1>6. SUFFICES ASSUME NEW q \in Rounds, NEW v \in Users PROVE BetAccounted(q, v)'
  BY OneOutcomeByBet DEF OneOutcomePerBet, BetAccounted
<1>7. BetAccounted(q, v)
  BY OneOutcomeByBet
<1>8. player'[q][v] = IF q \in stale /\ v = u THEN "LOST" ELSE player[q][v]
  BY <1>1 DEF TypeOK
<1>9. ASSUME NEW t
      PROVE  Recorded(ledger', t, q, v)
               <=> \/ Recorded(ledger, t, q, v)
                   \/ t = "BET_LOSS_SETTLEMENT" /\ q \in stale /\ v = u
  BY <1>1, <1>4, RecordedAddAll
<1>10. ASSUME NEW t
      PROVE  Recorded(houseLedger', t, q, v)
               <=> \/ Recorded(houseLedger, t, q, v)
                   \/ t = "BET_LOSS_SETTLEMENT" /\ q \in stale /\ v = u
  BY <1>1, <1>3, <1>5, RecordedAddAll
<1>11. CASE q \in stale /\ v = u
  BY <1>2, <1>7, <1>8, <1>9, <1>10, <1>11 DEF BetAccounted
<1>12. CASE ~(q \in stale /\ v = u)
  BY <1>7, <1>8, <1>9, <1>10, <1>12 DEF BetAccounted
<1>13. QED
  BY <1>11, <1>12

LEMMA OutcomeStep == TypeOK /\ OneOutcomePerBet /\ [DbNext]_dbVars => OneOutcomePerBet'
<1> SUFFICES ASSUME TypeOK, OneOutcomePerBet, [DbNext]_dbVars
             PROVE  OneOutcomePerBet'
  OBVIOUS
<1>1. ASSUME UNCHANGED <<player, ledger, houseLedger>> PROVE OneOutcomePerBet'
  BY <1>1 DEF OneOutcomePerBet
<1>2. CASE UNCHANGED dbVars
  BY <1>1, <1>2 DEF dbVars
<1>3. CASE DbNext
  <2>1. ASSUME NEW r \in Rounds,
               \/ CreateRound(r)
               \/ FinishRound(r)
               \/ TimePasses(r)
               \/ \E c \in 2..MaxCrash : StartRound(r, c) \/ CrashRound(r, c)
        PROVE  OneOutcomePerBet'
    BY <1>1, <2>1 DEF CreateRound, FinishRound, TimePasses, StartRound,
                      CrashRound, betVars, moneyVars
  <2>2. ASSUME NEW r \in Rounds, ActivateQueuedBets(r) PROVE OneOutcomePerBet'
    BY <2>2, OutcomeActivate
  <2>3. ASSUME NEW r \in Rounds, NEW u \in Users, SettleLoss(r, u)
        PROVE  OneOutcomePerBet'
    BY <2>3, OutcomeSettleLoss
  <2>4. ASSUME NEW r \in Rounds, NEW u \in Users, NEW a \in Stakes,
               PlaceBetForCurrentRound(r, u, a)
        PROVE  OneOutcomePerBet'
    BY <2>4, OutcomePlaceBet
  <2>5. ASSUME NEW r \in Rounds, NEW u \in Users, NEW a \in Stakes,
               QueueBetForNextRound(r, u, a)
        PROVE  OneOutcomePerBet'
    BY <1>1, <2>5 DEF QueueBetForNextRound, betVars
  <2>6. ASSUME NEW r \in Rounds, NEW u \in Users, NEW m \in 1..MaxCrash,
               CashoutPlayer(r, u, m)
        PROVE  OneOutcomePerBet'
    BY <2>6, OutcomeCashout
  <2>7. ASSUME NEW u \in Users, RepairWallet(u) PROVE OneOutcomePerBet'
    BY <2>7, OutcomeRepair
  <2>8. QED
    BY <1>3, <2>1, <2>2, <2>3, <2>4, <2>5, <2>6, <2>7 DEF DbNext
<1>4. QED
  BY <1>2, <1>3

\* In every order of cashouts, losses and repairs, a bet has exactly the
\* ledger entries of its one outcome, on the player's side and the house's.
THEOREM OneOutcome == DbSpec => []OneOutcomePerBet
<1>1. Init => OneOutcomePerBet
  BY OutcomeInit
<1>2. TypeOK /\ OneOutcomePerBet /\ [DbNext]_dbVars => OneOutcomePerBet'
  BY OutcomeStep
<1>3. QED
  BY <1>1, <1>2, TypeCorrect, PTL DEF DbSpec

-----------------------------------------------------------------------------
(* The queue is emptied by activation only, and then as a whole.           *)

LEMMA QueueActivate ==
    ASSUME TypeOK, NEW r \in Rounds, ActivateQueuedBets(r)
    PROVE  QueueStep
<1>1. PICK accepted \in SUBSET InQueue :
        /\ Accepts(r, accepted)
        /\ player' = [player EXCEPT ![r] = [u \in Users |->
                        IF u \in accepted THEN "BET_PLACED" ELSE player[r][u]]]
        /\ stake' = [stake EXCEPT ![r] = [u \in Users |->
                        IF u \in accepted THEN queued[u] ELSE stake[r][u]]]
        /\ locked' = [u \in Users |->
                        IF u \in InQueue \ accepted THEN locked[u] - queued[u]
                                                    ELSE locked[u]]
  BY DEF ActivateQueuedBets, TypeOK
<1>2. SUFFICES ASSUME NEW u \in Users, queued[u] > 0 PROVE QueuedStakeMoves(u)
  BY DEF QueueStep
<1>3. u \in InQueue /\ queued'[u] = 0
  BY <1>2 DEF InQueue, ActivateQueuedBets
<1>4. \A q \in Rounds : q # r => player'[q][u] = player[q][u]
  BY <1>1 DEF TypeOK
<1>5. \A q \in Rounds : Became(q, u) => q = r
  BY <1>4 DEF Became
<1>6. CASE u \in accepted
  <2>1. Became(r, u) /\ stake'[r][u] = queued[u] /\ locked'[u] = locked[u]
    BY <1>1, <1>3, <1>6 DEF Became, Accepts, TypeOK
  <2>2. QED
    BY <1>3, <1>5, <2>1 DEF QueuedStakeMoves
<1>7. CASE u \notin accepted
  <2>1. player'[r][u] = player[r][u] /\ locked'[u] = locked[u] - queued[u]
    BY <1>1, <1>3, <1>7 DEF TypeOK
  <2>2. ~Became(r, u)
    BY <2>1 DEF Became
  <2>3. QED
    BY <1>3, <1>5, <2>1, <2>2 DEF QueuedStakeMoves
<1>8. QED
  BY <1>6, <1>7

LEMMA QueueStepHolds == TypeOK /\ [DbNext]_dbVars => QueueStep
<1> SUFFICES ASSUME TypeOK, [DbNext]_dbVars PROVE QueueStep
  OBVIOUS
<1>1. ASSUME UNCHANGED queued PROVE QueueStep
  BY <1>1 DEF QueueStep
<1>2. CASE UNCHANGED dbVars
  BY <1>1, <1>2 DEF dbVars
<1>3. ASSUME NEW r \in Rounds, ActivateQueuedBets(r) PROVE QueueStep
  BY <1>3, QueueActivate
<1>4. ASSUME NEW r \in Rounds, NEW u \in Users, NEW a \in Stakes,
             QueueBetForNextRound(r, u, a)
      PROVE  QueueStep
  <2>1. \A v \in Users : queued[v] > 0 => queued'[v] = queued[v]
    BY <1>4 DEF QueueBetForNextRound, TypeOK
  <2>2. QED
    BY <2>1 DEF QueueStep
<1>5. CASE DbNext
  <2>1. ASSUME NEW r \in Rounds,
               \/ CreateRound(r)
               \/ FinishRound(r)
               \/ TimePasses(r)
               \/ \E c \in 2..MaxCrash : StartRound(r, c) \/ CrashRound(r, c)
        PROVE  QueueStep
    BY <1>1, <2>1 DEF CreateRound, FinishRound, TimePasses, StartRound,
                      CrashRound, queueVars
  <2>2. ASSUME NEW r \in Rounds, NEW u \in Users, SettleLoss(r, u)
        PROVE  QueueStep
    BY <1>1, <2>2 DEF SettleLoss, queueVars
  <2>3. ASSUME NEW r \in Rounds, NEW u \in Users, NEW a \in Stakes,
               PlaceBetForCurrentRound(r, u, a)
        PROVE  QueueStep
    BY <1>1, <2>3 DEF PlaceBetForCurrentRound, queueVars
  <2>4. ASSUME NEW r \in Rounds, NEW u \in Users, NEW m \in 1..MaxCrash,
               CashoutPlayer(r, u, m)
        PROVE  QueueStep
    BY <1>1, <2>4 DEF CashoutPlayer, queueVars
  <2>5. ASSUME NEW u \in Users, RepairWallet(u) PROVE QueueStep
    BY <1>1, <2>5 DEF RepairWallet, queueVars
  <2>6. QED
    BY <1>3, <1>4, <1>5, <2>1, <2>2, <2>3, <2>4, <2>5 DEF DbNext
<1>6. QED
  BY <1>2, <1>5

\* A queued stake is never lost on the way: it becomes one bet, or it is
\* available again.
THEOREM QueueConsumed == DbSpec => QueueConsumedOnce
<1>1. TypeOK /\ [DbNext]_dbVars => [QueueStep]_dbVars
  BY QueueStepHolds
<1>2. QED
  BY <1>1, TypeCorrect, PTL DEF DbSpec, QueueConsumedOnce

-----------------------------------------------------------------------------
(* The stakes a wallet has locked: a sum over rounds, of which a           *)
(* transaction changes one term or none.                                   *)

LEMMA RoundsFinite == \A R \in SUBSET Rounds : IsFiniteSet(R)
<1>1. IsFiniteSet(Rounds)
  BY NumRoundsAssumption, FS_Interval DEF Rounds
<1> QED
  BY <1>1, FS_Subset

\* The stakes of one player, from a table like stake (or stake').
Column(m, u) == [r \in Rounds |-> m[r][u]]

LEMMA ColumnSum ==
    ASSUME NEW m, NEW u, NEW R \in SUBSET Rounds, \A r \in Rounds : m[r][u] \in Nat
    PROVE  /\ IsFiniteSet(R) /\ Numbers(Column(m, u), R)
           /\ \A r \in Rounds : Column(m, u)[r] = m[r][u]
           /\ SumFunction([r \in R |-> m[r][u]]) = SumFunctionOnSet(Column(m, u), R)
           /\ SumFunctionOnSet(Column(m, u), R) \in Nat
<1> DEFINE c == Column(m, u)
           f == [r \in R |-> m[r][u]]
<1>1. IsFiniteSet(R)
  BY RoundsFinite
<1>2. /\ \A r \in Rounds : c[r] = m[r][u]
      /\ \A r \in R : c[r] \in Nat /\ f[r] = c[r]
      /\ SumFunction(f) = SumFunctionOnSet(f, R)
  BY DEF Column, SumFunction
<1> HIDE DEF c, f
<1>3. Numbers(c, R)
  BY <1>2 DEF Numbers
<1>4. SumFunctionOnSet(f, R) = SumFunctionOnSet(c, R)
  BY <1>1, <1>2, <1>3, SumSame
<1>5. SumFunctionOnSet(c, R) \in Nat
  BY <1>1, <1>2, SumNatural
<1> QED
  BY <1>1, <1>2, <1>3, <1>4, <1>5 DEF c, f

BetsHeld(u) == {r \in Rounds : StillPlaced(r, u)}
Held(u) == SumFunctionOnSet(Column(stake, u), BetsHeld(u))

LEMMA UnresolvedIsHeld ==
    /\ TypeOK => \A u \in Users : Unresolved(u) = Held(u) + queued[u] /\ Held(u) \in Nat
    /\ TypeOK' => \A u \in Users : Unresolved(u)' = Held(u)' + queued'[u] /\ Held(u)' \in Nat
<1>1. ASSUME TypeOK, NEW u \in Users
      PROVE  Unresolved(u) = Held(u) + queued[u] /\ Held(u) \in Nat
  <2>1. BetsHeld(u) \in SUBSET Rounds /\ \A r \in Rounds : stake[r][u] \in Nat
    BY <1>1 DEF BetsHeld, TypeOK
  <2>2. /\ SumFunction([r \in BetsHeld(u) |-> stake[r][u]]) = Held(u)
        /\ Held(u) \in Nat
    BY <2>1, ColumnSum DEF Held
  <2> QED
    BY <2>2 DEF Unresolved, StakesBy, BetsHeld
<1>2. ASSUME TypeOK', NEW u \in Users
      PROVE  Unresolved(u)' = Held(u)' + queued'[u] /\ Held(u)' \in Nat
  <2>1. BetsHeld(u)' \in SUBSET Rounds /\ \A r \in Rounds : stake'[r][u] \in Nat
    BY <1>2 DEF BetsHeld, TypeOK
  <2>2. /\ SumFunction([r \in BetsHeld(u)' |-> stake'[r][u]]) = Held(u)'
        /\ Held(u)' \in Nat
    BY <2>1, ColumnSum DEF Held
  <2> QED
    BY <2>2 DEF Unresolved, StakesBy, BetsHeld
<1> QED
  BY <1>1, <1>2

\* What a step does to the bets u holds: nothing; one more; one less.
LEMMA HeldSame ==
    ASSUME TypeOK, NEW u \in Users,
           \A r \in Rounds : /\ StillPlaced(r, u)' <=> StillPlaced(r, u)
                             /\ StillPlaced(r, u) => stake'[r][u] = stake[r][u]
    PROVE  Held(u)' = Held(u)
<1>1. /\ BetsHeld(u)' = BetsHeld(u) /\ BetsHeld(u) \in SUBSET Rounds
      /\ \A r \in BetsHeld(u) : Column(stake', u)[r] = Column(stake, u)[r]
      /\ \A r \in Rounds : stake[r][u] \in Nat
  BY DEF BetsHeld, Column, TypeOK
<1>2. IsFiniteSet(BetsHeld(u)) /\ Numbers(Column(stake, u), BetsHeld(u))
  BY <1>1, ColumnSum
<1>3. SumFunctionOnSet(Column(stake', u), BetsHeld(u))
        = SumFunctionOnSet(Column(stake, u), BetsHeld(u))
  BY <1>1, <1>2, SumSame
<1> QED
  BY <1>1, <1>3 DEF Held

LEMMA HeldMore ==
    ASSUME TypeOK, TypeOK', NEW u \in Users, NEW r \in Rounds,
           ~StillPlaced(r, u), StillPlaced(r, u)',
           \A q \in Rounds \ {r} : /\ StillPlaced(q, u)' <=> StillPlaced(q, u)
                                   /\ stake'[q][u] = stake[q][u]
    PROVE  Held(u)' = Held(u) + stake'[r][u]
<1> DEFINE c == Column(stake, u)
           d == Column(stake', u)
           old == BetsHeld(u)
           new == BetsHeld(u)'
<1>1. r \in new /\ new \ {r} = old /\ old \in SUBSET Rounds /\ new \in SUBSET Rounds
  BY DEF BetsHeld
<1>2. \A q \in Rounds : stake[q][u] \in Nat /\ stake'[q][u] \in Nat
  BY DEF TypeOK
<1>3. \A q \in old : d[q] = c[q]
  BY DEF BetsHeld, Column
<1> HIDE DEF old, new
<1>4. IsFiniteSet(old) /\ Numbers(c, old)
  BY <1>1, <1>2, ColumnSum
<1>5. IsFiniteSet(new) /\ Numbers(d, new) /\ d[r] = stake'[r][u]
  BY <1>1, <1>2, ColumnSum
<1>6. SumFunctionOnSet(c, old) \in Nat
  BY <1>1, <1>2, ColumnSum
<1> HIDE DEF c, d
<1>7. SumFunctionOnSet(d, new) = d[r] + SumFunctionOnSet(d, new \ {r})
  BY <1>1, <1>5, SumWithout
<1>8. SumFunctionOnSet(d, old) = SumFunctionOnSet(c, old)
  BY <1>3, <1>4, SumSame
<1>9. SumFunctionOnSet(d, new) = SumFunctionOnSet(c, old) + stake'[r][u]
  <2>1. SumFunctionOnSet(d, new) = stake'[r][u] + SumFunctionOnSet(c, old)
    BY <1>1, <1>5, <1>7, <1>8
  <2> QED
    BY <1>2, <1>6, <2>1
<1> QED
  BY <1>9 DEF Held, c, d, old, new

LEMMA HeldLess ==
    ASSUME TypeOK, NEW u \in Users, NEW R \in SUBSET BetsHeld(u),
           BetsHeld(u)' = BetsHeld(u) \ R, UNCHANGED stake
    PROVE  /\ Held(u) = Held(u)' + StakesBy(u, R)
           /\ StakesBy(u, R) \in Nat
<1> DEFINE c == Column(stake, u)
<1>1. /\ BetsHeld(u) \in SUBSET Rounds /\ R \in SUBSET Rounds
      /\ \A q \in Rounds : stake[q][u] \in Nat
  BY DEF BetsHeld, TypeOK
<1>2. /\ IsFiniteSet(BetsHeld(u)) /\ Numbers(c, BetsHeld(u))
      /\ StakesBy(u, R) = SumFunctionOnSet(c, R) /\ StakesBy(u, R) \in Nat
  <2>1. IsFiniteSet(BetsHeld(u)) /\ Numbers(c, BetsHeld(u))
    BY <1>1, ColumnSum
  <2>2. StakesBy(u, R) = SumFunctionOnSet(c, R) /\ StakesBy(u, R) \in Nat
    <3>1. SumFunction([r \in R |-> stake[r][u]]) = SumFunctionOnSet(c, R)
      BY <1>1, ColumnSum
    <3>2. SumFunctionOnSet(c, R) \in Nat
      BY <1>1, ColumnSum
    <3> QED
      BY <3>1, <3>2 DEF StakesBy
  <2> QED
    BY <2>1, <2>2
<1>3. SumFunctionOnSet(c, BetsHeld(u)) \in Nat /\ SumFunctionOnSet(c, BetsHeld(u) \ R) \in Nat
  BY <1>1, ColumnSum
<1> HIDE DEF c
<1>4. SumFunctionOnSet(c, BetsHeld(u))
        = SumFunctionOnSet(c, R) + SumFunctionOnSet(c, BetsHeld(u) \ R)
  BY <1>2, SumParts
<1> QED
  BY <1>2, <1>3, <1>4 DEF Held, c

LEMMA StakesByOne ==
    ASSUME TypeOK, NEW u \in Users, NEW r \in Rounds
    PROVE  StakesBy(u, {r}) = stake[r][u]
<1> DEFINE c == Column(stake, u)
<1>1. {r} \in SUBSET Rounds /\ r \in {r} /\ {r} \ {r} = {}
      /\ \A q \in Rounds : stake[q][u] \in Nat
  BY DEF TypeOK
<1>2. /\ IsFiniteSet({r}) /\ Numbers(c, {r}) /\ c[r] = stake[r][u]
      /\ StakesBy(u, {r}) = SumFunctionOnSet(c, {r})
  BY <1>1, ColumnSum DEF StakesBy
<1> HIDE DEF c
<1>3. SumFunctionOnSet(c, {r}) = c[r] + SumFunctionOnSet(c, {})
  BY <1>1, <1>2, SumWithout
<1> QED
  BY <1>1, <1>2, <1>3, SumEmpty

\* A bet is on a round that exists, and a lock is the stakes it stands for.
BetsHaveRounds == \A r \in Rounds, u \in Users : StillPlaced(r, u) => Exists(r)
LocksInv == BetsHaveRounds /\ LockedMatchesUnresolved

LEMMA LockedIsHeld ==
    /\ TypeOK => (LockedMatchesUnresolved
                    <=> \A u \in Users : locked[u] = Held(u) + queued[u])
    /\ TypeOK' => (LockedMatchesUnresolved'
                    <=> \A u \in Users : locked'[u] = Held(u)' + queued'[u])
  BY UnresolvedIsHeld DEF LockedMatchesUnresolved

\* A step that leaves the bets, the queue and the locks alone.
LEMMA LocksKept ==
    ASSUME LocksInv, UNCHANGED <<player, stake, queued, locked>>,
           \A r \in Rounds : Exists(r) => Exists(r)'
    PROVE  LocksInv'
<1>1. BetsHaveRounds'
  BY DEF LocksInv, BetsHaveRounds, StillPlaced
<1>2. LockedMatchesUnresolved'
  BY DEF LocksInv, LockedMatchesUnresolved, Unresolved, StakesBy, StillPlaced
<1> QED
  BY <1>1, <1>2 DEF LocksInv

\* One wallet's lock follows its unresolved stakes; the others are as before.
LEMMA LocksFollow ==
    ASSUME TypeOK, TypeOK', LocksInv, NEW u \in Users,
           locked'[u] = Held(u)' + queued'[u],
           \A v \in Users \ {u} : /\ locked'[v] = locked[v] /\ queued'[v] = queued[v]
                                  /\ Held(v)' = Held(v),
           BetsHaveRounds'
    PROVE  LocksInv'
<1>1. \A v \in Users : locked[v] = Held(v) + queued[v]
  BY LockedIsHeld DEF LocksInv
<1>2. \A v \in Users : locked'[v] = Held(v)' + queued'[v]
  BY <1>1
<1> QED
  BY <1>2, LockedIsHeld DEF LocksInv

\* The bet of u on r is closed, and no other bet is touched.
LEMMA HeldAfterResolve ==
    ASSUME TypeOK, NEW r \in Rounds, NEW u \in Users, NEW outcome,
           outcome # "BET_PLACED", Resolve(r, u, outcome), UNCHANGED stake
    PROVE  /\ Held(u) = Held(u)' + stake[r][u] /\ stake[r][u] \in Nat
           /\ \A v \in Users \ {u} : Held(v)' = Held(v)
           /\ \A q \in Rounds, v \in Users : StillPlaced(q, v)' => StillPlaced(q, v)
<1>1. /\ StillPlaced(r, u)
      /\ \A q \in Rounds, v \in Users :
            player'[q][v] = IF q = r /\ v = u THEN outcome ELSE player[q][v]
  BY DEF Resolve, TypeOK
<1>2. {r} \in SUBSET BetsHeld(u) /\ BetsHeld(u)' = BetsHeld(u) \ {r}
  BY <1>1 DEF BetsHeld, StillPlaced
<1>3. Held(u) = Held(u)' + StakesBy(u, {r})
  BY <1>2, HeldLess
<1>4. ASSUME NEW v \in Users \ {u} PROVE Held(v)' = Held(v)
  <2>1. \A q \in Rounds : /\ StillPlaced(q, v)' <=> StillPlaced(q, v)
                          /\ StillPlaced(q, v) => stake'[q][v] = stake[q][v]
    BY <1>1 DEF StillPlaced
  <2> QED
    BY <2>1, HeldSame
<1>5. stake[r][u] \in Nat /\ StakesBy(u, {r}) = stake[r][u]
  BY StakesByOne DEF TypeOK
<1> QED
  BY <1>1, <1>3, <1>4, <1>5 DEF StillPlaced

LEMMA LocksPlaceBet ==
    ASSUME TypeOK, TypeOK', LocksInv, NEW r \in Rounds, NEW u \in Users,
           NEW a \in Stakes, PlaceBetForCurrentRound(r, u, a)
    PROVE  LocksInv'
<1>1. /\ status[r] = "WAITING" /\ player[r][u] = "NONE"
      /\ \A q \in Rounds, v \in Users :
           /\ player'[q][v] = IF q = r /\ v = u THEN "BET_PLACED" ELSE player[q][v]
           /\ stake'[q][v] = IF q = r /\ v = u THEN a ELSE stake[q][v]
      /\ \A v \in Users : locked'[v] = IF v = u THEN locked[u] + a ELSE locked[v]
      /\ UNCHANGED <<status, queued>>
  BY DEF PlaceBetForCurrentRound, MoveFunds, TypeOK, roundVars, queueVars
<1>2. Held(u)' = Held(u) + stake'[r][u]
  <2>1. /\ ~StillPlaced(r, u) /\ StillPlaced(r, u)'
        /\ \A q \in Rounds \ {r} : /\ StillPlaced(q, u)' <=> StillPlaced(q, u)
                                   /\ stake'[q][u] = stake[q][u]
    BY <1>1 DEF StillPlaced
  <2> QED
    BY <2>1, HeldMore
<1>3. ASSUME NEW v \in Users \ {u} PROVE Held(v)' = Held(v)
  <2>1. \A q \in Rounds : /\ StillPlaced(q, v)' <=> StillPlaced(q, v)
                          /\ StillPlaced(q, v) => stake'[q][v] = stake[q][v]
    BY <1>1 DEF StillPlaced
  <2> QED
    BY <2>1, HeldSame
<1>4. locked'[u] = Held(u)' + queued'[u]
  <2>1. locked[u] = Held(u) + queued[u] /\ Held(u) \in Nat /\ queued[u] \in Nat /\ a \in Nat
    BY LockedIsHeld, UnresolvedIsHeld, StakesAssumption DEF LocksInv, TypeOK
  <2> QED
    BY <1>1, <1>2, <2>1
<1>5. BetsHaveRounds'
  BY <1>1 DEF LocksInv, BetsHaveRounds, StillPlaced, Exists
<1> QED
  BY <1>1, <1>3, <1>4, <1>5, LocksFollow

LEMMA LocksQueueBet ==
    ASSUME TypeOK, TypeOK', LocksInv, NEW r \in Rounds, NEW u \in Users,
           NEW a \in Stakes, QueueBetForNextRound(r, u, a)
    PROVE  LocksInv'
<1>1. /\ queued[u] = 0
      /\ \A v \in Users : /\ queued'[v] = IF v = u THEN a ELSE queued[v]
                          /\ locked'[v] = IF v = u THEN locked[u] + a ELSE locked[v]
      /\ UNCHANGED <<status, player, stake>>
  BY DEF QueueBetForNextRound, MoveFunds, TypeOK, roundVars, betVars
<1>2. \A v \in Users : Held(v)' = Held(v)
  BY <1>1, HeldSame DEF StillPlaced
<1>3. locked'[u] = Held(u)' + queued'[u]
  <2>1. locked[u] = Held(u) + queued[u] /\ Held(u) \in Nat
    BY LockedIsHeld, UnresolvedIsHeld DEF LocksInv
  <2> QED
    BY <1>1, <1>2, <2>1
<1>4. BetsHaveRounds'
  BY <1>1 DEF LocksInv, BetsHaveRounds, StillPlaced, Exists
<1> QED
  BY <1>1, <1>2, <1>3, <1>4, LocksFollow

\* A queued stake that becomes a bet keeps its lock, one that does not loses it.
LEMMA LocksActivate ==
    ASSUME TypeOK, TypeOK', LocksInv, NEW r \in Rounds, ActivateQueuedBets(r)
    PROVE  LocksInv'
<1>1. PICK accepted \in SUBSET InQueue :
        /\ Accepts(r, accepted)
        /\ player' = [player EXCEPT ![r] = [u \in Users |->
                        IF u \in accepted THEN "BET_PLACED" ELSE player[r][u]]]
        /\ stake' = [stake EXCEPT ![r] = [u \in Users |->
                        IF u \in accepted THEN queued[u] ELSE stake[r][u]]]
        /\ locked' = [u \in Users |->
                        IF u \in InQueue \ accepted THEN locked[u] - queued[u]
                                                    ELSE locked[u]]
  BY DEF ActivateQueuedBets, TypeOK
<1>2. /\ \A q \in Rounds, v \in Users :
           /\ player'[q][v] = IF q = r /\ v \in accepted THEN "BET_PLACED"
                                                         ELSE player[q][v]
           /\ stake'[q][v] = IF q = r /\ v \in accepted THEN queued[v] ELSE stake[q][v]
      /\ \A v \in Users : queued'[v] = 0
      /\ Exists(r) /\ UNCHANGED status
  BY <1>1 DEF ActivateQueuedBets, TypeOK, roundVars
<1>3. ASSUME NEW v \in Users PROVE locked'[v] = Held(v)' + queued'[v]
  <2>1. /\ locked[v] = Held(v) + queued[v] /\ Held(v) \in Nat /\ queued[v] \in Nat
        /\ queued'[v] = 0 /\ (v \in InQueue <=> queued[v] > 0)
    BY <1>2, LockedIsHeld, UnresolvedIsHeld DEF LocksInv, TypeOK, InQueue
  <2>2. CASE v \in accepted
    <3>1. /\ ~StillPlaced(r, v) /\ StillPlaced(r, v)'
          /\ \A q \in Rounds \ {r} : /\ StillPlaced(q, v)' <=> StillPlaced(q, v)
                                     /\ stake'[q][v] = stake[q][v]
      <4>1. player[r][v] = "NONE"
        BY <1>1, <2>2 DEF Accepts
      <4> QED
        BY <1>2, <2>2, <4>1 DEF StillPlaced
    <3>2. Held(v)' = Held(v) + stake'[r][v]
      BY <3>1, HeldMore
    <3>3. stake'[r][v] = queued[v] /\ locked'[v] = locked[v]
      BY <1>1, <1>2, <2>2
    <3> QED
      BY <2>1, <3>2, <3>3
  <2>3. CASE v \notin accepted
    <3>1. \A q \in Rounds : /\ StillPlaced(q, v)' <=> StillPlaced(q, v)
                            /\ StillPlaced(q, v) => stake'[q][v] = stake[q][v]
      BY <1>2, <2>3 DEF StillPlaced
    <3>2. Held(v)' = Held(v)
      BY <3>1, HeldSame
    <3>3. locked'[v] = IF v \in InQueue THEN locked[v] - queued[v] ELSE locked[v]
      BY <1>1, <2>3
    <3> QED
      BY <2>1, <3>2, <3>3
  <2> QED
    BY <2>2, <2>3
<1>4. BetsHaveRounds'
  BY <1>2 DEF LocksInv, BetsHaveRounds, StillPlaced, Exists
<1> QED
  BY <1>3, <1>4, LockedIsHeld DEF LocksInv

LEMMA LocksCashout ==
    ASSUME TypeOK, TypeOK', LocksInv, NEW r \in Rounds, NEW u \in Users,
           NEW m \in 1..MaxCrash, CashoutPlayer(r, u, m)
    PROVE  LocksInv'
<1>1. /\ Resolve(r, u, "CASHED_OUT") /\ UNCHANGED <<status, stake, queued>>
      /\ \A v \in Users : locked'[v] = IF v = u THEN locked[u] + -stake[r][u]
                                                ELSE locked[v]
  BY DEF CashoutPlayer, MoveFunds, TypeOK, roundVars, queueVars
<1>2. /\ Held(u) = Held(u)' + stake[r][u] /\ stake[r][u] \in Nat
      /\ \A v \in Users \ {u} : Held(v)' = Held(v)
      /\ \A q \in Rounds, v \in Users : StillPlaced(q, v)' => StillPlaced(q, v)
  BY <1>1, HeldAfterResolve
<1>3. locked'[u] = Held(u)' + queued'[u]
  <2>1. locked[u] = Held(u) + queued[u] /\ Held(u)' \in Nat /\ queued[u] \in Nat
    BY LockedIsHeld, UnresolvedIsHeld DEF LocksInv, TypeOK
  <2> QED
    BY <1>1, <1>2, <2>1
<1>4. BetsHaveRounds'
  BY <1>1, <1>2 DEF LocksInv, BetsHaveRounds, Exists
<1> QED
  BY <1>1, <1>2, <1>3, <1>4, LocksFollow

LEMMA LocksSettleLoss ==
    ASSUME TypeOK, TypeOK', LocksInv, NEW r \in Rounds, NEW u \in Users,
           SettleLoss(r, u)
    PROVE  LocksInv'
<1>1. /\ Resolve(r, u, "LOST") /\ UNCHANGED <<status, stake, queued>>
      /\ \A v \in Users : locked'[v] = IF v = u THEN locked[u] + -stake[r][u]
                                                ELSE locked[v]
  BY DEF SettleLoss, MoveFunds, TypeOK, roundVars, queueVars
<1>2. /\ Held(u) = Held(u)' + stake[r][u] /\ stake[r][u] \in Nat
      /\ \A v \in Users \ {u} : Held(v)' = Held(v)
      /\ \A q \in Rounds, v \in Users : StillPlaced(q, v)' => StillPlaced(q, v)
  BY <1>1, HeldAfterResolve
<1>3. locked'[u] = Held(u)' + queued'[u]
  <2>1. locked[u] = Held(u) + queued[u] /\ Held(u)' \in Nat /\ queued[u] \in Nat
    BY LockedIsHeld, UnresolvedIsHeld DEF LocksInv, TypeOK
  <2> QED
    BY <1>1, <1>2, <2>1
<1>4. BetsHaveRounds'
  BY <1>1, <1>2 DEF LocksInv, BetsHaveRounds, Exists
<1> QED
  BY <1>1, <1>2, <1>3, <1>4, LocksFollow

\* The repair overwrites the lock: what is left of the bets is what it counts.
LEMMA LocksRepair ==
    ASSUME TypeOK, TypeOK', LocksInv, NEW u \in Users, RepairWallet(u)
    PROVE  LocksInv'
<1> DEFINE stale == StaleBets(u)
<1>1. /\ player' = [r \in Rounds |->
           IF r \in stale THEN [player[r] EXCEPT ![u] = "LOST"] ELSE player[r]]
      /\ locked' = [locked EXCEPT ![u] = ExpectedLock(u)]
      /\ UNCHANGED <<status, stake, queued>>
  BY DEF RepairWallet, roundVars, queueVars
<1>2. stale \subseteq Rounds
  BY DEF StaleBets, BetsOf
<1> HIDE DEF stale
<1>3. /\ \A r \in Rounds, v \in Users :
           player'[r][v] = IF r \in stale /\ v = u THEN "LOST" ELSE player[r][v]
      /\ \A v \in Users : locked'[v] = IF v = u THEN ExpectedLock(u) ELSE locked[v]
  BY <1>1 DEF TypeOK
<1>4. BetsHeld(u)' = BetsOf(u, {"WAITING", "RUNNING"})
  <2>1. \A r \in Rounds : StillPlaced(r, u) =>
           status[r] \in {"WAITING", "RUNNING"} \/ status[r] \in {"CRASHED", "FINISHED"}
    BY DEF LocksInv, BetsHaveRounds, Exists, TypeOK, RoundStatus
  <2>2. \A r \in Rounds : StillPlaced(r, u)' <=> StillPlaced(r, u) /\ r \notin stale
    BY <1>3 DEF StillPlaced
  <2>3. \A r \in Rounds : StillPlaced(r, u)'
           <=> StillPlaced(r, u) /\ status[r] \in {"WAITING", "RUNNING"}
    BY <2>1, <2>2 DEF stale, StaleBets, BetsOf
  <2> QED
    BY <2>3 DEF BetsHeld, BetsOf
<1>5. locked'[u] = Held(u)' + queued'[u]
  <2>1. BetsHeld(u)' \in SUBSET Rounds /\ \A r \in Rounds : stake[r][u] \in Nat
    BY DEF BetsHeld, TypeOK
  <2>2. StakesBy(u, BetsHeld(u)') = SumFunctionOnSet(Column(stake, u), BetsHeld(u)')
    BY <2>1, ColumnSum DEF StakesBy
  <2>3. StakesBy(u, BetsHeld(u)') = Held(u)'
    BY <1>1, <2>2 DEF Held
  <2> QED
    BY <1>1, <1>3, <1>4, <2>3 DEF ExpectedLock
<1>6. ASSUME NEW v \in Users \ {u} PROVE Held(v)' = Held(v)
  <2>1. \A q \in Rounds : /\ StillPlaced(q, v)' <=> StillPlaced(q, v)
                          /\ StillPlaced(q, v) => stake'[q][v] = stake[q][v]
    BY <1>1, <1>3 DEF StillPlaced
  <2> QED
    BY <2>1, HeldSame
<1>7. BetsHaveRounds'
  BY <1>1, <1>3 DEF LocksInv, BetsHaveRounds, StillPlaced, Exists
<1> QED
  BY <1>1, <1>3, <1>5, <1>6, <1>7, LocksFollow

LEMMA LocksInit == Init => LocksInv
<1> SUFFICES ASSUME Init PROVE LocksInv
  OBVIOUS
<1>1. TypeOK
  BY TypeInit
<1>2. BetsHaveRounds /\ \A u \in Users : BetsHeld(u) = {}
  BY DEF Init, BetsHaveRounds, StillPlaced, BetsHeld
<1>3. \A u \in Users : Held(u) = 0 /\ queued[u] = 0 /\ locked[u] = 0
  BY <1>2, SumEmpty DEF Held, Init
<1> QED
  BY <1>1, <1>2, <1>3, LockedIsHeld DEF LocksInv

LEMMA LocksStep == TypeOK /\ LocksInv /\ [DbNext]_dbVars => LocksInv'
<1> SUFFICES ASSUME TypeOK, LocksInv, [DbNext]_dbVars PROVE LocksInv'
  OBVIOUS
<1>1. TypeOK'
  BY TypeStep
<1>2. CASE UNCHANGED dbVars
  BY <1>2, LocksKept DEF dbVars, Exists
<1>3. CASE DbNext
  <2>1. ASSUME NEW r \in Rounds,
               \/ CreateRound(r)
               \/ FinishRound(r)
               \/ TimePasses(r)
               \/ \E c \in 2..MaxCrash : StartRound(r, c) \/ CrashRound(r, c)
        PROVE  LocksInv'
    <3>1. UNCHANGED <<player, stake, queued, locked>>
      BY <2>1 DEF CreateRound, FinishRound, TimePasses, StartRound, CrashRound,
                  betVars, queueVars, moneyVars
    <3>2. status' = status \/ \E s \in RoundStatus \ {"NONE"} :
                                 status' = [status EXCEPT ![r] = s]
      BY <2>1 DEF CreateRound, FinishRound, TimePasses, StartRound, CrashRound,
                  RoundStatus
    <3>3. \A q \in Rounds : Exists(q) => Exists(q)'
      BY <3>2 DEF Exists, TypeOK
    <3> QED
      BY <3>1, <3>3, LocksKept
  <2>2. ASSUME NEW r \in Rounds, ActivateQueuedBets(r) PROVE LocksInv'
    BY <1>1, <2>2, LocksActivate
  <2>3. ASSUME NEW r \in Rounds, NEW u \in Users, SettleLoss(r, u) PROVE LocksInv'
    BY <1>1, <2>3, LocksSettleLoss
  <2>4. ASSUME NEW r \in Rounds, NEW u \in Users, NEW a \in Stakes,
               PlaceBetForCurrentRound(r, u, a)
        PROVE  LocksInv'
    BY <1>1, <2>4, LocksPlaceBet
  <2>5. ASSUME NEW r \in Rounds, NEW u \in Users, NEW a \in Stakes,
               QueueBetForNextRound(r, u, a)
        PROVE  LocksInv'
    BY <1>1, <2>5, LocksQueueBet
  <2>6. ASSUME NEW r \in Rounds, NEW u \in Users, NEW m \in 1..MaxCrash,
               CashoutPlayer(r, u, m)
        PROVE  LocksInv'
    BY <1>1, <2>6, LocksCashout
  <2>7. ASSUME NEW u \in Users, RepairWallet(u) PROVE LocksInv'
    BY <1>1, <2>7, LocksRepair
  <2>8. QED
    BY <1>3, <2>1, <2>2, <2>3, <2>4, <2>5, <2>6, <2>7 DEF DbNext
<1>4. QED
  BY <1>2, <1>3

\* In every order of the transactions, the locked part of a wallet is exactly
\* the stakes of the player's open bets and queued bet.
THEOREM LocksMatch == DbSpec => []LockedMatchesUnresolved
<1>1. Init => LocksInv
  BY LocksInit
<1>2. TypeOK /\ LocksInv /\ [DbNext]_dbVars => LocksInv'
  BY LocksStep
<1>3. LocksInv => LockedMatchesUnresolved
  BY DEF LocksInv
<1>4. QED
  BY <1>1, <1>2, <1>3, TypeCorrect, PTL DEF DbSpec

-----------------------------------------------------------------------------
(* The money as the ledgers have it: sums over sets of entries, to which a *)
(* transaction adds entries that were not there.                           *)

Amounts == [e \in Entry |-> e.amount]

LEMMA BookSum ==
    ASSUME NEW S \in SUBSET Entry, IsFiniteSet(S)
    PROVE  /\ Numbers(Amounts, S)
           /\ SumOf(S) = SumFunctionOnSet(Amounts, S)
           /\ SumOf(S) \in Int
<1> DEFINE f == [e \in S |-> e.amount]
<1>1. \A e \in S : f[e] = Amounts[e] /\ Amounts[e] \in Int
  BY DEF Amounts, Entry
<1>2. SumOf(S) = SumFunctionOnSet(f, S)
  BY DEF SumOf, SumFunction
<1> HIDE DEF f
<1>3. Numbers(Amounts, S)
  BY <1>1 DEF Numbers
<1>4. SumFunctionOnSet(f, S) = SumFunctionOnSet(Amounts, S)
  BY <1>1, <1>3, SumSame
<1> QED
  BY <1>2, <1>3, <1>4, SumType

LEMMA BookWithAll ==
    ASSUME NEW S \in SUBSET Entry, IsFiniteSet(S),
           NEW T \in SUBSET Entry, IsFiniteSet(T), S \cap T = {}
    PROVE  /\ SumOf(S \cup T) = SumOf(S) + SumOf(T)
           /\ IsFiniteSet(S \cup T) /\ SumOf(S \cup T) \in Int
           /\ SumOf(S) \in Int /\ SumOf(T) \in Int
<1> DEFINE A == S \cup T
<1>1. A \in SUBSET Entry /\ S \in SUBSET A /\ A \ S = T /\ IsFiniteSet(A)
  BY FS_Union
<1> HIDE DEF A
<1>2. Numbers(Amounts, A) /\ SumOf(A) = SumFunctionOnSet(Amounts, A) /\ SumOf(A) \in Int
  BY <1>1, BookSum
<1>3. /\ SumOf(S) = SumFunctionOnSet(Amounts, S) /\ SumOf(S) \in Int
      /\ SumOf(T) = SumFunctionOnSet(Amounts, T) /\ SumOf(T) \in Int
  BY BookSum
<1>4. SumFunctionOnSet(Amounts, A)
        = SumFunctionOnSet(Amounts, S) + SumFunctionOnSet(Amounts, A \ S)
  BY <1>1, <1>2, SumParts
<1> QED
  BY <1>1, <1>2, <1>3, <1>4 DEF A

\* Entries of one type and player, one for each round r of R, of a[r].
EntriesOf(S, type, R, u, a) ==
    /\ \A r \in R : EntryOf(type, r, u, a[r]) \in S
    /\ \A e \in S : \E r \in R : e = EntryOf(type, r, u, a[r])

LEMMA EntriesSum ==
    ASSUME NEW type \in SettlementType, NEW u \in Users, NEW R \in SUBSET Rounds,
           NEW a, Numbers(a, R), NEW S, EntriesOf(S, type, R, u, a)
    PROVE  /\ S \in SUBSET Entry /\ IsFiniteSet(S)
           /\ SumOf(S) = SumFunctionOnSet(a, R)
<1> DEFINE h == [r \in R |-> EntryOf(type, r, u, a[r])]
<1>1. IsFiniteSet(R)
  BY RoundsFinite
<1>2. \A r \in R : h[r] \in Entry /\ h[r].amount = a[r] /\ h[r].round = r
  BY EntryTyped DEF Numbers, EntryOf
<1>3. (\A r \in R : h[r] \in S) /\ \A e \in S : \E r \in R : e = h[r]
  BY DEF EntriesOf
<1> HIDE DEF h
<1>4. S \in SUBSET Entry
  BY <1>2, <1>3
<1>5. \A r \in R : Amounts[h[r]] = a[r]
  BY <1>2 DEF Amounts
<1>6. Renames(h, R, S)
  BY <1>2, <1>3 DEF Renames
<1>7. SumFunctionOnSet(Amounts, S) = SumFunctionOnSet(a, R) /\ IsFiniteSet(S)
  BY <1>1, <1>5, <1>6, SumImage
<1>8. SumOf(S) = SumFunctionOnSet(Amounts, S)
  BY <1>4, <1>7, BookSum
<1> QED
  BY <1>4, <1>7, <1>8

LEMMA OneEntrySum ==
    ASSUME NEW x \in Entry
    PROVE  SumOf({x}) = x.amount /\ IsFiniteSet({x}) /\ {x} \in SUBSET Entry
<1>1. x \in {x} /\ {x} \ {x} = {} /\ {x} \in SUBSET Entry
  OBVIOUS
<1>2. IsFiniteSet({x}) /\ IsFiniteSet({})
  BY FS_Singleton, FS_EmptySet
<1>3. Numbers(Amounts, {x}) /\ SumOf({x}) = SumFunctionOnSet(Amounts, {x})
  BY <1>1, <1>2, BookSum
<1>4. SumFunctionOnSet(Amounts, {x}) = Amounts[x] + SumFunctionOnSet(Amounts, {})
  BY <1>1, <1>2, <1>3, SumWithout
<1>5. Amounts[x] = x.amount /\ x.amount \in Int
  BY DEF Amounts, Entry
<1> QED
  BY <1>1, <1>2, <1>3, <1>4, <1>5, SumEmpty

BookOf(book, u) == {e \in book : e.user = u}

\* New entries of u change what the book says of u, and of nobody else.
LEMMA BookOfWithAll ==
    ASSUME NEW book \in SUBSET Entry, IsFiniteSet(book),
           NEW T \in SUBSET Entry, IsFiniteSet(T), book \cap T = {},
           NEW u, \A e \in T : e.user = u
    PROVE  /\ IsFiniteSet(book \cup T)
           /\ SumOf(BookOf(book \cup T, u)) = SumOf(BookOf(book, u)) + SumOf(T)
           /\ \A v : v # u => BookOf(book \cup T, v) = BookOf(book, v)
           /\ SumOf(BookOf(book, u)) \in Int
<1>1. /\ BookOf(book \cup T, u) = BookOf(book, u) \cup T
      /\ BookOf(book, u) \in SUBSET Entry /\ BookOf(book, u) \cap T = {}
      /\ \A v : v # u => BookOf(book \cup T, v) = BookOf(book, v)
  BY DEF BookOf
<1>2. IsFiniteSet(BookOf(book, u))
  BY FS_Subset DEF BookOf
<1>3. IsFiniteSet(book \cup T)
  BY FS_Union
<1>4. SumOf(BookOf(book, u) \cup T) = SumOf(BookOf(book, u)) + SumOf(T)
      /\ SumOf(BookOf(book, u)) \in Int
  BY <1>1, <1>2, BookWithAll
<1> QED
  BY <1>1, <1>3, <1>4

LedgerInv ==
    IsFiniteSet(ledger) /\ IsFiniteSet(houseLedger) /\ LedgerExplainsMoney

WalletsExplained ==
    /\ IsFiniteSet(ledger)
    /\ \A u \in Users : balance[u] = InitialBalance + SumOf(BookOf(ledger, u))
HouseExplained ==
    /\ IsFiniteSet(houseLedger)
    /\ house = InitialBankroll + SumOf(houseLedger)

LEMMA TwoBooks ==
    /\ LedgerInv <=> WalletsExplained /\ HouseExplained
    /\ LedgerInv' <=> WalletsExplained' /\ HouseExplained'
  BY DEF LedgerInv, LedgerExplainsMoney, WalletsExplained, HouseExplained, BookOf

\* Entries T of u are added, and the wallet of u moves by what they add up to.
LEMMA WalletsFollow ==
    ASSUME TypeOK, WalletsExplained, NEW u \in Users,
           NEW T \in SUBSET Entry, IsFiniteSet(T), ledger \cap T = {},
           \A e \in T : e.user = u, ledger' = ledger \cup T,
           \A v \in Users : balance'[v] = IF v = u THEN balance[u] + SumOf(T)
                                                   ELSE balance[v]
    PROVE  WalletsExplained'
<1>1. ledger \in SUBSET Entry /\ IsFiniteSet(ledger)
  BY DEF TypeOK, WalletsExplained
<1>2. /\ IsFiniteSet(ledger \cup T)
      /\ SumOf(BookOf(ledger \cup T, u)) = SumOf(BookOf(ledger, u)) + SumOf(T)
      /\ \A v : v # u => BookOf(ledger \cup T, v) = BookOf(ledger, v)
      /\ SumOf(BookOf(ledger, u)) \in Int
  BY <1>1, BookOfWithAll
<1>3. SumOf(T) \in Int
  BY BookSum
<1>4. ASSUME NEW v \in Users
      PROVE  balance'[v] = InitialBalance + SumOf(BookOf(ledger', v))
  <2>1. balance[v] = InitialBalance + SumOf(BookOf(ledger, v))
    BY DEF WalletsExplained
  <2>2. CASE v = u
    <3>1. balance[u] + SumOf(T) = InitialBalance + (SumOf(BookOf(ledger, u)) + SumOf(T))
      BY <1>2, <1>3, <2>1, <2>2, MoneyAssumption
    <3> QED
      BY <1>2, <2>2, <3>1
  <2>3. CASE v # u
    BY <1>2, <2>1, <2>3
  <2> QED
    BY <2>2, <2>3
<1> QED
  BY <1>2, <1>4 DEF WalletsExplained, BookOf

LEMMA HouseFollows ==
    ASSUME TypeOK, HouseExplained,
           NEW T \in SUBSET Entry, IsFiniteSet(T), houseLedger \cap T = {},
           houseLedger' = houseLedger \cup T, house' = house + SumOf(T)
    PROVE  HouseExplained'
<1>1. houseLedger \in SUBSET Entry /\ IsFiniteSet(houseLedger)
  BY DEF TypeOK, HouseExplained
<1>2. /\ SumOf(houseLedger \cup T) = SumOf(houseLedger) + SumOf(T)
      /\ IsFiniteSet(houseLedger \cup T)
      /\ SumOf(houseLedger) \in Int /\ SumOf(T) \in Int
  BY <1>1, BookWithAll
<1>3. house + SumOf(T) = InitialBankroll + (SumOf(houseLedger) + SumOf(T))
  BY <1>2, MoneyAssumption DEF HouseExplained
<1> QED
  BY <1>2, <1>3 DEF HouseExplained

LEMMA NotRecorded ==
    ASSUME NEW book, NEW type, NEW r, NEW u, NEW a, ~Recorded(book, type, r, u)
    PROVE  EntryOf(type, r, u, a) \notin book
<1> DEFINE x == EntryOf(type, r, u, a)
<1>1. x.type = type /\ x.round = r /\ x.user = u
  BY EntryFields
<1> HIDE DEF x
<1>2. x \notin book
  BY <1>1 DEF Recorded
<1> QED
  BY <1>2 DEF x

LEMMA WalletsRecord ==
    ASSUME TypeOK, WalletsExplained, NEW type \in SettlementType, NEW r \in Rounds,
           NEW u \in Users, NEW a \in Int, NEW dl, RecordSettlement(type, r, u, a),
           MoveFunds(u, a, dl)
    PROVE  WalletsExplained'
<1> DEFINE x == EntryOf(type, r, u, a)
<1>1. x \in Entry /\ x \notin ledger /\ ledger' = ledger \cup {x}
      /\ x.user = u /\ x.amount = a
  BY EntryTyped, NotRecorded DEF RecordSettlement, EntryOf
<1>2. \A v \in Users : balance'[v] = IF v = u THEN balance[u] + a ELSE balance[v]
  BY DEF MoveFunds, TypeOK
<1> HIDE DEF x
<1>3. {x} \in SUBSET Entry /\ IsFiniteSet({x}) /\ SumOf({x}) = a /\ ledger \cap {x} = {}
      /\ \A e \in {x} : e.user = u
  BY <1>1, OneEntrySum
<1> QED
  BY <1>1, <1>2, <1>3, WalletsFollow

LEMMA HouseRecord ==
    ASSUME TypeOK, HouseExplained, NEW type \in SettlementType, NEW r \in Rounds,
           NEW u \in Users, NEW a \in Int, MutateHouse(type, r, u, a)
    PROVE  HouseExplained'
<1> DEFINE x == EntryOf(type, r, u, a)
<1>1. CASE Recorded(houseLedger, type, r, u)
  BY <1>1 DEF MutateHouse, HouseExplained
<1>2. CASE ~Recorded(houseLedger, type, r, u)
  <2>1. x \in Entry /\ x \notin houseLedger /\ houseLedger' = houseLedger \cup {x}
        /\ x.amount = a /\ house' = house + a
    BY <1>2, EntryTyped, NotRecorded DEF MutateHouse, EntryOf
  <2> HIDE DEF x
  <2>2. {x} \in SUBSET Entry /\ IsFiniteSet({x}) /\ SumOf({x}) = a
        /\ houseLedger \cap {x} = {}
    BY <2>1, OneEntrySum
  <2> QED
    BY <2>1, <2>2, HouseFollows
<1> QED
  BY <1>1, <1>2

LEMMA LedgerKept ==
    ASSUME LedgerInv, UNCHANGED <<balance, house, ledger, houseLedger>>
    PROVE  LedgerInv'
  BY DEF LedgerInv, LedgerExplainsMoney

LEMMA LedgerCashout ==
    ASSUME TypeOK, LedgerInv, NEW r \in Rounds, NEW u \in Users,
           NEW m \in 1..MaxCrash, CashoutPlayer(r, u, m)
    PROVE  LedgerInv'
<1> DEFINE p == Profit(r, u, m)
<1>1. p \in Int /\ -p \in Int
  <2>1. m \in Int /\ stake[r][u] \in Nat
    BY MultiplierAssumption DEF TypeOK
  <2>2. QED
    BY <2>1 DEF Profit
<1>2. /\ RecordSettlement("BET_WIN", r, u, p)
      /\ MoveFunds(u, p, -stake[r][u])
      /\ MutateHouse("BET_WIN", r, u, -p) \/ UNCHANGED <<house, houseLedger>>
      /\ "BET_WIN" \in SettlementType
  BY DEF CashoutPlayer, SettlementType
<1> HIDE DEF p
<1>3. WalletsExplained /\ HouseExplained
  BY TwoBooks
<1>4. WalletsExplained'
  BY <1>1, <1>2, <1>3, WalletsRecord
<1>5. HouseExplained'
  <2>1. CASE MutateHouse("BET_WIN", r, u, -p)
    BY <1>1, <1>2, <1>3, <2>1, HouseRecord
  <2>2. CASE UNCHANGED <<house, houseLedger>>
    BY <1>3, <2>2 DEF HouseExplained
  <2> QED
    BY <1>2, <2>1, <2>2
<1> QED
  BY <1>4, <1>5, TwoBooks

LEMMA LedgerSettleLoss ==
    ASSUME TypeOK, LedgerInv, NEW r \in Rounds, NEW u \in Users, SettleLoss(r, u)
    PROVE  LedgerInv'
<1>1. stake[r][u] \in Int /\ -stake[r][u] \in Int
  BY DEF TypeOK
<1>2. /\ RecordSettlement("BET_LOSS_SETTLEMENT", r, u, -stake[r][u])
      /\ MoveFunds(u, -stake[r][u], -stake[r][u])
      /\ MutateHouse("BET_LOSS_SETTLEMENT", r, u, stake[r][u])
      /\ "BET_LOSS_SETTLEMENT" \in SettlementType
  BY DEF SettleLoss, SettlementType
<1>3. WalletsExplained /\ HouseExplained
  BY TwoBooks
<1>4. WalletsExplained'
  BY <1>1, <1>2, <1>3, WalletsRecord
<1>5. HouseExplained'
  BY <1>1, <1>2, <1>3, HouseRecord
<1> QED
  BY <1>4, <1>5, TwoBooks

LEMMA LedgerRepair ==
    ASSUME TypeOK, LedgerInv, NEW u \in Users, RepairWallet(u)
    PROVE  LedgerInv'
<1> DEFINE type   == "BET_LOSS_SETTLEMENT"
           stale  == StaleBets(u)
           unpaid == {r \in stale : ~Recorded(houseLedger, type, r, u)}
           c      == Column(stake, u)
           n      == [r \in Rounds |-> -stake[r][u]]
           lost   == {EntryOf(type, r, u, n[r]) : r \in stale}
           taken  == {EntryOf(type, r, u, c[r]) : r \in unpaid}
<1>1. /\ stale \in SUBSET Rounds /\ unpaid \in SUBSET Rounds
      /\ \A r \in Rounds : stake[r][u] \in Nat
      /\ type \in SettlementType
  BY DEF StaleBets, BetsOf, TypeOK, SettlementType
<1>2. \A r \in Rounds : n[r] = -c[r] /\ n[r] = -stake[r][u] /\ c[r] = stake[r][u]
  BY DEF Column
<1>3. /\ {EntryOf(type, r, u, -stake[r][u]) : r \in stale} = lost
      /\ {EntryOf(type, r, u, stake[r][u]) : r \in unpaid} = taken
  BY <1>1, <1>2
<1>4. /\ ledger' = ledger \cup lost /\ houseLedger' = houseLedger \cup taken
      /\ \A r \in stale : ~Recorded(ledger, type, r, u)
      /\ house' = house + StakesBy(u, unpaid)
      /\ balance' = [balance EXCEPT ![u] = @ - StakesBy(u, stale)]
  BY <1>3 DEF RepairWallet
<1>5. /\ IsFiniteSet(stale) /\ Numbers(c, stale)
      /\ StakesBy(u, stale) = SumFunctionOnSet(c, stale)
      /\ SumFunctionOnSet(c, stale) \in Nat
  BY <1>1, ColumnSum DEF StakesBy
<1>6. /\ Numbers(c, unpaid)
      /\ StakesBy(u, unpaid) = SumFunctionOnSet(c, unpaid)
  BY <1>1, ColumnSum DEF StakesBy
<1> HIDE DEF stale, unpaid, c, n, type
<1>7. Numbers(n, stale)
  BY <1>1, <1>2 DEF Numbers
<1>8. SumFunctionOnSet(n, stale) = -SumFunctionOnSet(c, stale)
  BY <1>1, <1>2, <1>5, SumNegated
<1>9. ledger \cap lost = {} /\ \A e \in lost : e.user = u
  BY <1>4, NotRecorded, EntryFields
<1>10. houseLedger \cap taken = {}
  BY NotRecorded DEF unpaid
<1>11. lost \in SUBSET Entry /\ IsFiniteSet(lost) /\ SumOf(lost) = -StakesBy(u, stale)
  <2>1. EntriesOf(lost, type, stale, u, n)
    BY DEF EntriesOf
  <2> HIDE DEF lost
  <2>2. lost \in SUBSET Entry /\ IsFiniteSet(lost)
        /\ SumOf(lost) = SumFunctionOnSet(n, stale)
    BY <1>1, <1>7, <2>1, EntriesSum
  <2> QED
    BY <1>5, <1>8, <2>2
<1>12. taken \in SUBSET Entry /\ IsFiniteSet(taken) /\ SumOf(taken) = StakesBy(u, unpaid)
  <2>1. EntriesOf(taken, type, unpaid, u, c)
    BY DEF EntriesOf
  <2> HIDE DEF taken
  <2> QED
    BY <1>1, <1>6, <2>1, EntriesSum
<1> HIDE DEF lost, taken
<1>13. WalletsExplained /\ HouseExplained
  BY TwoBooks
<1>14. WalletsExplained'
  <2>1. \A v \in Users : balance'[v] = IF v = u THEN balance[u] + SumOf(lost)
                                                ELSE balance[v]
    BY <1>4, <1>5, <1>11 DEF TypeOK
  <2> QED
    BY <1>4, <1>11, <1>9, <1>13, <2>1, WalletsFollow
<1>15. HouseExplained'
  BY <1>4, <1>10, <1>12, <1>13, HouseFollows
<1> QED
  BY <1>14, <1>15, TwoBooks

LEMMA LedgerInit == Init => LedgerInv
<1> SUFFICES ASSUME Init PROVE LedgerInv
  OBVIOUS
<1>1. SumOf({}) = 0
  BY SumEmpty DEF SumOf, SumFunction
<1>2. \A u \in Users : {e \in {} : e.user = u} = {}
  OBVIOUS
<1> QED
  BY <1>1, <1>2, FS_EmptySet, MoneyAssumption DEF Init, LedgerInv, LedgerExplainsMoney

LEMMA LedgerStep == TypeOK /\ LedgerInv /\ [DbNext]_dbVars => LedgerInv'
<1> SUFFICES ASSUME TypeOK, LedgerInv, [DbNext]_dbVars PROVE LedgerInv'
  OBVIOUS
<1>1. CASE UNCHANGED dbVars
  BY <1>1, LedgerKept DEF dbVars
<1>2. CASE DbNext
  <2>1. ASSUME NEW r \in Rounds,
               \/ CreateRound(r)
               \/ FinishRound(r)
               \/ TimePasses(r)
               \/ ActivateQueuedBets(r)
               \/ \E c \in 2..MaxCrash : StartRound(r, c) \/ CrashRound(r, c)
        PROVE  LedgerInv'
    BY <2>1, LedgerKept DEF CreateRound, FinishRound, TimePasses, StartRound,
                            CrashRound, ActivateQueuedBets, moneyVars
  <2>2. ASSUME NEW r \in Rounds, NEW u \in Users, SettleLoss(r, u) PROVE LedgerInv'
    BY <2>2, LedgerSettleLoss
  <2>3. ASSUME NEW r \in Rounds, NEW u \in Users, NEW a \in Stakes,
               PlaceBetForCurrentRound(r, u, a) \/ QueueBetForNextRound(r, u, a)
        PROVE  LedgerInv'
    <3>1. a \in Nat
      BY StakesAssumption
    <3>2. MoveFunds(u, 0, a) /\ UNCHANGED <<house, ledger, houseLedger>>
      BY <2>3 DEF PlaceBetForCurrentRound, QueueBetForNextRound
    <3>3. balance' = balance
      BY <3>2 DEF MoveFunds, TypeOK
    <3> QED
      BY <3>2, <3>3, LedgerKept
  <2>4. ASSUME NEW r \in Rounds, NEW u \in Users, NEW m \in 1..MaxCrash,
               CashoutPlayer(r, u, m)
        PROVE  LedgerInv'
    BY <2>4, LedgerCashout
  <2>5. ASSUME NEW u \in Users, RepairWallet(u) PROVE LedgerInv'
    BY <2>5, LedgerRepair
  <2>6. QED
    BY <1>2, <2>1, <2>2, <2>3, <2>4, <2>5 DEF DbNext
<1>3. QED
  BY <1>1, <1>2

\* In every order of the transactions, the balance of a wallet is its deposit
\* plus its ledger entries, and the bankroll its endowment plus the house's.
THEOREM LedgerExplains == DbSpec => []LedgerExplainsMoney
<1>1. Init => LedgerInv
  BY LedgerInit
<1>2. TypeOK /\ LedgerInv /\ [DbNext]_dbVars => LedgerInv'
  BY LedgerStep
<1>3. LedgerInv => LedgerExplainsMoney
  BY DEF LedgerInv
<1>4. QED
  BY <1>1, <1>2, <1>3, TypeCorrect, PTL DEF DbSpec

-----------------------------------------------------------------------------
(* An open bet has a stake.                                                *)

StakesPositive == \A r \in Rounds, u \in Users : StillPlaced(r, u) => stake[r][u] > 0

LEMMA PositiveStep == TypeOK /\ StakesPositive /\ [DbNext]_dbVars => StakesPositive'
<1> SUFFICES ASSUME TypeOK, StakesPositive, [DbNext]_dbVars PROVE StakesPositive'
  OBVIOUS
<1>1. ASSUME UNCHANGED stake,
             \A r \in Rounds, u \in Users : StillPlaced(r, u)' => StillPlaced(r, u)
      PROVE  StakesPositive'
  BY <1>1 DEF StakesPositive
<1>2. ASSUME UNCHANGED <<player, stake>> PROVE StakesPositive'
  BY <1>2 DEF StakesPositive, StillPlaced
<1>3. ASSUME NEW r \in Rounds, ActivateQueuedBets(r) PROVE StakesPositive'
  <2>1. PICK accepted \in SUBSET InQueue :
          /\ player' = [player EXCEPT ![r] = [u \in Users |->
                          IF u \in accepted THEN "BET_PLACED" ELSE player[r][u]]]
          /\ stake' = [stake EXCEPT ![r] = [u \in Users |->
                          IF u \in accepted THEN queued[u] ELSE stake[r][u]]]
    BY <1>3 DEF ActivateQueuedBets, TypeOK
  <2>2. \A u \in accepted : queued[u] > 0
    BY DEF InQueue
  <2>3. \A q \in Rounds, u \in Users :
          \/ player'[q][u] = player[q][u] /\ stake'[q][u] = stake[q][u]
          \/ stake'[q][u] > 0
    BY <2>1, <2>2 DEF TypeOK
  <2> QED
    BY <2>3 DEF StakesPositive, StillPlaced
<1>4. ASSUME NEW r \in Rounds, NEW u \in Users, NEW a \in Stakes,
             PlaceBetForCurrentRound(r, u, a)
      PROVE  StakesPositive'
  <2>1. a > 0 /\ player' = [player EXCEPT ![r][u] = "BET_PLACED"]
              /\ stake' = [stake EXCEPT ![r][u] = a]
    BY <1>4, StakesAssumption DEF PlaceBetForCurrentRound
  <2> QED
    BY <2>1 DEF StakesPositive, StillPlaced, TypeOK
<1>5. CASE UNCHANGED dbVars
  BY <1>2, <1>5 DEF dbVars
<1>6. CASE DbNext
  <2>1. ASSUME NEW r \in Rounds,
               \/ CreateRound(r)
               \/ FinishRound(r)
               \/ TimePasses(r)
               \/ \E c \in 2..MaxCrash : StartRound(r, c) \/ CrashRound(r, c)
        PROVE  StakesPositive'
    BY <1>2, <2>1 DEF CreateRound, FinishRound, TimePasses, StartRound, CrashRound,
                      betVars
  <2>2. ASSUME NEW r \in Rounds, NEW u \in Users,
               \/ SettleLoss(r, u)
               \/ \E m \in 1..MaxCrash : CashoutPlayer(r, u, m)
        PROVE  StakesPositive'
    <3>1. /\ UNCHANGED stake
          /\ \E s \in {"LOST", "CASHED_OUT"} : player' = [player EXCEPT ![r][u] = s]
      BY <2>2 DEF SettleLoss, CashoutPlayer, Resolve
    <3>2. \A q \in Rounds, v \in Users : StillPlaced(q, v)' => StillPlaced(q, v)
      BY <3>1 DEF StillPlaced, TypeOK
    <3> QED
      BY <1>1, <3>1, <3>2
  <2>3. ASSUME NEW r \in Rounds, NEW u \in Users, NEW a \in Stakes,
               QueueBetForNextRound(r, u, a)
        PROVE  StakesPositive'
    BY <1>2, <2>3 DEF QueueBetForNextRound, betVars
  <2>4. ASSUME NEW u \in Users, RepairWallet(u) PROVE StakesPositive'
    <3>1. PICK stale : player' = [r \in Rounds |->
              IF r \in stale THEN [player[r] EXCEPT ![u] = "LOST"] ELSE player[r]]
      BY <2>4 DEF RepairWallet
    <3>2. UNCHANGED stake
      BY <2>4 DEF RepairWallet
    <3>3. \A q \in Rounds, v \in Users : StillPlaced(q, v)' => StillPlaced(q, v)
      BY <3>1 DEF StillPlaced, TypeOK
    <3> QED
      BY <1>1, <3>2, <3>3
  <2>5. QED
    BY <1>3, <1>4, <1>6, <2>1, <2>2, <2>3, <2>4 DEF DbNext
<1>7. QED
  BY <1>5, <1>6

\* The parts of the inductive invariant, for who builds on GameDb.
DbInv == TypeOK /\ LocksInv /\ OneOutcomePerBet /\ StakesPositive

LEMMA DbInvariant == DbSpec => []DbInv
<1>1. Init => DbInv
  BY TypeInit, LocksInit, OutcomeInit DEF DbInv, Init, StakesPositive, StillPlaced
<1>2. DbInv /\ [DbNext]_dbVars => DbInv'
  BY TypeStep, LocksStep, OutcomeStep, PositiveStep DEF DbInv
<1>3. QED
  BY <1>1, <1>2, PTL DEF DbSpec

-----------------------------------------------------------------------------
(* The queue is served in the order its rows were made: their ranks are     *)
(* distinct, so of any rows one is the last.                                *)

Ranked ==
    /\ \A u \in InQueue : place[u] \in 1..Cardinality(InQueue)
    /\ \A u, v \in InQueue : place[u] = place[v] => u = v

LEMMA RankedStep == TypeOK /\ Ranked /\ [DbNext]_dbVars => Ranked'
<1> SUFFICES ASSUME TypeOK, Ranked, [DbNext]_dbVars PROVE Ranked'
  OBVIOUS
<1>1. CASE UNCHANGED queueVars
  <2>1. queued' = queued /\ place' = place /\ InQueue' = InQueue
    BY <1>1 DEF queueVars, InQueue
  <2> QED
    BY <2>1 DEF Ranked
<1>2. ASSUME queued' = [u \in Users |-> 0] PROVE Ranked'
  <2>1. InQueue' = {}
    BY <1>2 DEF InQueue
  <2> QED
    BY <2>1 DEF Ranked
<1>3. ASSUME NEW r \in Rounds, NEW u \in Users, NEW a \in Stakes,
             QueueBetForNextRound(r, u, a)
      PROVE  Ranked'
  <2> DEFINE n == Cardinality(InQueue)
  <2>1. /\ a > 0 /\ queued[u] = 0 /\ queued' = [queued EXCEPT ![u] = a]
        /\ place' = [place EXCEPT ![u] = n + 1]
    BY <1>3, StakesAssumption DEF QueueBetForNextRound
  <2>2. InQueue' = InQueue \cup {u} /\ u \notin InQueue
    BY <2>1 DEF InQueue, TypeOK
  <2>3. IsFiniteSet(InQueue)
    BY UsersAssumption, FS_Subset DEF InQueue
  <2>4. n \in Nat /\ Cardinality(InQueue') = n + 1
    BY <2>2, <2>3, FS_AddElement, FS_CardinalityType
  <2>5. \A v \in InQueue : place'[v] = place[v] /\ place[v] \in 1..n
    BY <2>1, <2>2 DEF Ranked, TypeOK, InQueue
  <2>6. place'[u] = n + 1
    BY <2>1 DEF TypeOK
  <2> HIDE DEF n
  <2>7. \A v \in InQueue' : place'[v] \in 1..(n + 1)
    BY <2>2, <2>4, <2>5, <2>6
  <2>8. ASSUME NEW v \in InQueue', NEW w \in InQueue', place'[v] = place'[w]
        PROVE  v = w
    <3>1. CASE v \in InQueue /\ w \in InQueue
      BY <2>5, <2>8, <3>1 DEF Ranked
    <3>2. CASE v = u \/ w = u
      BY <2>2, <2>4, <2>5, <2>6, <2>8, <3>2
    <3> QED
      BY <2>2, <3>1, <3>2
  <2> QED
    BY <2>4, <2>7, <2>8 DEF Ranked
<1>4. ASSUME NEW r \in Rounds, ActivateQueuedBets(r) PROVE Ranked'
  BY <1>2, <1>4 DEF ActivateQueuedBets
<1>5. ASSUME NEW r \in Rounds,
             \/ CreateRound(r) \/ FinishRound(r) \/ TimePasses(r)
             \/ \E c \in 2..MaxCrash : StartRound(r, c) \/ CrashRound(r, c)
      PROVE  UNCHANGED queueVars
  BY <1>5 DEF CreateRound, FinishRound, TimePasses, StartRound, CrashRound
<1>6. ASSUME NEW r \in Rounds, NEW u \in Users,
             \/ SettleLoss(r, u)
             \/ \E a \in Stakes : PlaceBetForCurrentRound(r, u, a)
             \/ \E m \in 1..MaxCrash : CashoutPlayer(r, u, m)
      PROVE  UNCHANGED queueVars
  BY <1>6 DEF SettleLoss, PlaceBetForCurrentRound, CashoutPlayer
<1>7. ASSUME NEW u \in Users, RepairWallet(u) PROVE UNCHANGED queueVars
  BY <1>7 DEF RepairWallet
<1>8. CASE UNCHANGED dbVars
  BY <1>1, <1>8 DEF dbVars, queueVars
<1> QED
  BY <1>1, <1>3, <1>4, <1>5, <1>6, <1>7, <1>8 DEF DbNext

LEMMA QueueRanked == DbSpec => []Ranked
<1>1. Init => Ranked
  BY DEF Init, Ranked, InQueue
<1> QED
  BY <1>1, RankedStep, TypeCorrect, PTL DEF DbSpec

-----------------------------------------------------------------------------
(* A bet that is open has its stake locked.                                *)

LEMMA LockedIfPlaced ==
    ASSUME DbInv, NEW r \in Rounds, NEW u \in Users, StillPlaced(r, u)
    PROVE  locked[u] > 0
<1> DEFINE c == Column(stake, u)
           H == BetsHeld(u)
<1>1. TypeOK /\ LockedMatchesUnresolved /\ StakesPositive
  BY DEF DbInv, LocksInv
<1>2. locked[u] = Held(u) + queued[u] /\ queued[u] \in Nat
  BY <1>1, LockedIsHeld DEF TypeOK
<1>3. H \in SUBSET Rounds /\ r \in H /\ H \ {r} \in SUBSET Rounds
      /\ \A q \in Rounds : stake[q][u] \in Nat
  BY <1>1 DEF BetsHeld, TypeOK
<1>4. IsFiniteSet(H) /\ Numbers(c, H) /\ c[r] = stake[r][u]
  BY <1>3, ColumnSum
<1>5. SumFunctionOnSet(c, H \ {r}) \in Nat
  BY <1>3, ColumnSum
<1>6. Held(u) = SumFunctionOnSet(c, H)
  BY DEF Held
<1>7. stake[r][u] \in Nat /\ stake[r][u] > 0
  BY <1>1 DEF StakesPositive, TypeOK
<1> HIDE DEF c, H
<1>8. SumFunctionOnSet(c, H) = c[r] + SumFunctionOnSet(c, H \ {r})
  BY <1>3, <1>4, SumWithout
<1> QED
  BY <1>2, <1>4, <1>5, <1>6, <1>7, <1>8

-----------------------------------------------------------------------------
(* The caps.  What adds to the open bets of a round is one bet held against *)
(* all the others of the round, or a queue of which the last row was held   *)
(* against the round's bets and all the rows accepted before it.            *)

LEMMA MaxExists ==
    ASSUME NEW N \in Nat, NEW R \in SUBSET (1..N), R # {}
    PROVE  Max(R) \in R /\ \A q \in R : q <= Max(R)
<1> DEFINE after(r) == {q \in 1..N : q > r}
           T == {after(r) : r \in R}
<1>1. IsFiniteSet(1..N) /\ FiniteSubsetsOf(1..N) = SUBSET (1..N)
  BY FS_Interval, FS_FiniteSubsetsOfFinite
<1>2. T \subseteq SUBSET (1..N) /\ T # {}
  OBVIOUS
<1>3. PICK x \in T : \A y \in T : <<y, x>> \notin StrictSubsetOrdering(1..N)
  <2> HIDE DEF T
  <2> QED
    BY <1>1, <1>2, WFMin, FS_StrictSubsetOrderingWellFounded
<1>4. PICK m \in R : x = after(m)
  OBVIOUS
<1>5. ASSUME NEW q \in R PROVE m >= q
  <2>1. SUFFICES ASSUME q > m PROVE FALSE
    OBVIOUS
  <2>2. after(q) \subseteq after(m) /\ q \in after(m) /\ q \notin after(q)
    BY <2>1
  <2>3. <<after(q), after(m)>> \in StrictSubsetOrdering(1..N)
    BY <2>2 DEF StrictSubsetOrdering
  <2>4. QED
    BY <1>3, <1>4, <2>3
<1>6. QED
  BY <1>5 DEF Max

LEMMA PlacedFinite ==
    ASSUME NEW r
    PROVE  /\ IsFiniteSet(Placed(r)) /\ Placed(r) \subseteq Users
           /\ \A S \in SUBSET Users : IsFiniteSet(S) /\ Cardinality(S) \in Nat
                                      /\ Cardinality(S) <= Cardinality(Users)
  BY UsersAssumption, FS_Subset, FS_CardinalityType DEF Placed

LEMMA Distribute ==
    ASSUME NEW s \in Nat, NEW t \in Nat, NEW k \in Nat
    PROVE  (s + t) * k = s * k + t * k /\ s * k \in Nat /\ t * k \in Nat
  OBVIOUS

LEMMA StakesTyped ==
    ASSUME TypeOK, NEW r \in Rounds
    PROVE  /\ IsFiniteSet(Placed(r)) /\ Placed(r) \subseteq Users
           /\ Numbers(stake[r], Users) /\ Numbers(stake[r], Placed(r))
           /\ StakesOn(r) \in Nat
<1>1. IsFiniteSet(Placed(r)) /\ Placed(r) \subseteq Users
  BY PlacedFinite
<1>2. \A u \in Users : stake[r][u] \in Nat
  BY DEF TypeOK
<1>3. SumFunctionOnSet(stake[r], Placed(r)) \in Nat
  BY <1>1, <1>2, SumNatural
<1> QED
  BY <1>1, <1>2, <1>3 DEF Numbers, StakesOn

\* Bets of r are only closed: the stakes on it do not grow.
LEMMA StakesFewer ==
    ASSUME TypeOK, NEW r \in Rounds, stake'[r] = stake[r],
           Placed(r)' \subseteq Placed(r)
    PROVE  StakesOn(r)' \in Nat /\ StakesOn(r)' <= StakesOn(r)
<1> DEFINE S == Placed(r)
           T == Placed(r)'
           f == stake[r]
<1>1. IsFiniteSet(S) /\ Numbers(f, S) /\ T \in SUBSET S
  BY StakesTyped
<1>2. \A u \in S : f[u] \in Nat
  BY StakesTyped DEF TypeOK
<1>3. StakesOn(r) = SumFunctionOnSet(f, S) /\ StakesOn(r)' = SumFunctionOnSet(f, T)
  BY DEF StakesOn
<1> HIDE DEF S, T, f
<1>4. SumFunctionOnSet(f, S) = SumFunctionOnSet(f, T) + SumFunctionOnSet(f, S \ T)
  BY <1>1, SumParts
<1>5. IsFiniteSet(T) /\ IsFiniteSet(S \ T)
  BY <1>1, FS_Subset
<1>6. SumFunctionOnSet(f, T) \in Nat
  BY <1>1, <1>2, <1>5, SumNatural
<1>7. SumFunctionOnSet(f, S \ T) \in Nat
  BY <1>2, <1>5, SumNatural
<1> QED
  BY <1>3, <1>4, <1>6, <1>7

\* The bets A are added to those of r.
LEMMA StakesMore ==
    ASSUME TypeOK, TypeOK', NEW r \in Rounds, NEW A \in SUBSET Users,
           Placed(r)' = Placed(r) \cup A, A \cap Placed(r) = {},
           \A u \in Placed(r) : stake'[r][u] = stake[r][u]
    PROVE  StakesOn(r)' = StakesOn(r) + SumFunctionOnSet(stake'[r], A)
<1> DEFINE S == Placed(r)
           T == Placed(r)'
           f == stake[r]
           g == stake'[r]
<1>1. /\ IsFiniteSet(S) /\ Numbers(f, S)
      /\ IsFiniteSet(T) /\ Numbers(g, T)
  <2>1. IsFiniteSet(T) /\ T \subseteq Users
    BY UsersAssumption, FS_Subset DEF Placed
  <2>2. \A u \in Users : g[u] \in Int
    BY DEF TypeOK
  <2> QED
    BY <2>1, <2>2, StakesTyped DEF Numbers
<1>2. /\ StakesOn(r) = SumFunctionOnSet(f, S) /\ StakesOn(r)' = SumFunctionOnSet(g, T)
      /\ \A u \in S : g[u] = f[u]
  BY DEF StakesOn
<1>3. A \in SUBSET T /\ T \ A = S
  OBVIOUS
<1> HIDE DEF S, T, f, g
<1>4. SumFunctionOnSet(g, T) = SumFunctionOnSet(g, A) + SumFunctionOnSet(g, T \ A)
  BY <1>1, <1>3, SumParts
<1>5. SumFunctionOnSet(g, S) = SumFunctionOnSet(f, S)
  BY <1>1, <1>2, SumSame
<1>6. SumFunctionOnSet(f, S) \in Int
  BY <1>1, SumType
<1>7. SumFunctionOnSet(g, A) \in Int
  <2>1. IsFiniteSet(A) /\ Numbers(g, A)
    BY <1>1, <1>3, FS_Subset DEF Numbers
  <2> QED
    BY <2>1, SumType
<1>8. SumFunctionOnSet(g, T) = SumFunctionOnSet(f, S) + SumFunctionOnSet(g, A)
  <2>1. SumFunctionOnSet(g, T \ A) = SumFunctionOnSet(f, S)
    BY <1>3, <1>5
  <2> QED
    BY <1>4, <1>6, <1>7, <2>1
<1> QED
  BY <1>2, <1>8 DEF g

\* What an accepted bet may reach with the bets it was held against.
Within(r, total) ==
    total * (RiskMultiplier(r) - 1) * 100 <= house * PctPerRound

LEMMA CapsBound ==
    ASSUME TypeOK, NEW r \in Rounds,
           NEW a \in Nat, NEW e \in Nat, CanAcceptBet(r, a, e)
    PROVE  Within(r, StakesOn(r) + e + a)
<1> DEFINE k == RiskMultiplier(r) - 1
           s == StakesOn(r)
<1>1. /\ RoundExposure(r) = s * k
      /\ (RoundExposure(r) + e * k + a * k) * 100 <= house * PctPerRound
  BY DEF CanAcceptBet, WithinCaps, RoundExposure
<1>2. k \in Nat /\ s \in Nat
  <2>1. FallbackRiskMultiplier \in Nat \ {0}
    BY MultiplierAssumption DEF FallbackRiskMultiplier
  <2>2. RiskMultiplier(r) \in Nat \ {0}
    BY <2>1 DEF RiskMultiplier, TypeOK
  <2> QED
    BY <2>2, StakesTyped
<1>3. Within(r, s + e + a) <=> (s + e + a) * k * 100 <= house * PctPerRound
  BY DEF Within
<1> HIDE DEF k, s
<1>4. (s + e) * k = s * k + e * k /\ s * k \in Nat /\ e * k \in Nat
  BY <1>2, Distribute
<1>5. ((s + e) + a) * k = (s + e) * k + a * k
  <2>1. s + e \in Nat
    BY <1>2
  <2> QED
    BY <1>2, <2>1, Distribute
<1>6. (s + e + a) * k = s * k + e * k + a * k
  BY <1>2, <1>4, <1>5
<1> QED
  BY <1>1, <1>3, <1>6 DEF s

\* The bets A come to r, and no other open bet of it changes.
LEMMA CapsAdded ==
    ASSUME TypeOK, TypeOK', NEW r \in Rounds, NEW A \in SUBSET Users,
           Placed(r)' = Placed(r) \cup A, A \cap Placed(r) = {},
           \A u \in Placed(r) : stake'[r][u] = stake[r][u],
           NEW n \in Nat, SumFunctionOnSet(stake'[r], A) = n,
           n > 0 => Within(r, StakesOn(r) + n)
    PROVE  StakesOn(r)' > StakesOn(r) => Within(r, StakesOn(r)')
<1>1. StakesOn(r)' = StakesOn(r) + n
  BY StakesMore
<1>2. StakesOn(r) \in Nat
  BY StakesTyped
<1> QED
  BY <1>1, <1>2

LEMMA CapsPlaceBet ==
    ASSUME TypeOK, TypeOK', NEW r \in Rounds, NEW u \in Users, NEW a \in Stakes,
           PlaceBetForCurrentRound(r, u, a)
    PROVE  StakesOn(r)' > StakesOn(r) => Within(r, StakesOn(r)')
<1>1. /\ player[r][u] = "NONE" /\ CanAcceptBet(r, a, 0)
      /\ player' = [player EXCEPT ![r][u] = "BET_PLACED"]
      /\ stake' = [stake EXCEPT ![r][u] = a]
      /\ a \in Nat
  BY StakesAssumption DEF PlaceBetForCurrentRound
<1>2. Placed(r)' = Placed(r) \cup {u} /\ {u} \cap Placed(r) = {}
  BY <1>1 DEF TypeOK, Placed, StillPlaced
<1>3. \A v \in Placed(r) : stake'[r][v] = stake[r][v]
  BY <1>1 DEF TypeOK, Placed, StillPlaced
<1>4. SumFunctionOnSet(stake'[r], {u}) = a
  <2>1. stake'[r][u] = a /\ Numbers(stake'[r], {u})
    BY <1>1 DEF TypeOK, Numbers
  <2>2. SumFunctionOnSet(stake'[r], {} \cup {u})
          = SumFunctionOnSet(stake'[r], {}) + stake'[r][u]
    <3>1. IsFiniteSet({}) /\ u \notin {} /\ Numbers(stake'[r], {} \cup {u})
      BY <2>1, FS_EmptySet
    <3> QED
      BY <3>1, SumWith
  <2>3. SumFunctionOnSet(stake'[r], {}) = 0 /\ {} \cup {u} = {u}
    BY SumEmpty
  <2> QED
    BY <1>1, <2>1, <2>2, <2>3
<1>5. Within(r, StakesOn(r) + 0 + a)
  BY <1>1, CapsBound
<1>6. StakesOn(r) + 0 + a = StakesOn(r) + a
  BY <1>1, StakesTyped
<1>7. Within(r, StakesOn(r) + a)
  BY <1>5, <1>6
<1> QED
  BY <1>1, <1>2, <1>3, <1>4, <1>7, CapsAdded

\* Of the accepted rows the last is held against all the others.
LEMMA LastAccepted ==
    ASSUME Ranked, NEW A \in SUBSET InQueue, A # {}
    PROVE  \E u \in A : {v \in A : place[v] < place[u]} = A \ {u}
<1> DEFINE R == {place[v] : v \in A}
           n == Cardinality(InQueue)
<1>1. n \in Nat /\ R \in SUBSET (1..n) /\ R # {}
  <2>1. IsFiniteSet(InQueue)
    BY UsersAssumption, FS_Subset DEF InQueue
  <2> QED
    BY <2>1, FS_CardinalityType DEF Ranked
<1> HIDE DEF n
<1>2. Max(R) \in R /\ \A q \in R : q <= Max(R)
  BY <1>1, MaxExists
<1>3. PICK u \in A : place[u] = Max(R)
  BY <1>2
<1>4. ASSUME NEW v \in A PROVE v # u <=> place[v] < place[u]
  <2>1. place[v] <= place[u] /\ place[v] \in Nat /\ place[u] \in Nat
    <3>1. place[v] \in R /\ place[u] \in R
      OBVIOUS
    <3> HIDE DEF R
    <3>2. place[v] <= place[u]
      BY <1>2, <1>3, <3>1
    <3>3. place[v] \in 1..n /\ place[u] \in 1..n
      BY <1>1, <3>1
    <3> QED
      BY <1>1, <3>2, <3>3
  <2>2. place[v] = place[u] => v = u
    BY DEF Ranked
  <2> QED
    BY <2>1, <2>2
<1> QED
  BY <1>4

LEMMA CapsActivate ==
    ASSUME TypeOK, TypeOK', Ranked, NEW r \in Rounds, ActivateQueuedBets(r)
    PROVE  StakesOn(r)' > StakesOn(r) => Within(r, StakesOn(r)')
<1>1. PICK A \in SUBSET InQueue :
         /\ Accepts(r, A)
         /\ player' = [player EXCEPT ![r] = [u \in Users |->
                         IF u \in A THEN "BET_PLACED" ELSE @[u]]]
         /\ stake' = [stake EXCEPT ![r] = [u \in Users |->
                         IF u \in A THEN queued[u] ELSE @[u]]]
  BY DEF ActivateQueuedBets
<1>3. \A u \in A : player[r][u] = "NONE"
  BY <1>1 DEF Accepts
<1>4. A \in SUBSET Users /\ IsFiniteSet(A)
  BY UsersAssumption, FS_Subset DEF InQueue
<1>5. Placed(r)' = Placed(r) \cup A /\ A \cap Placed(r) = {}
  BY <1>1, <1>3, <1>4 DEF TypeOK, Placed, StillPlaced
<1>6. \A u \in Placed(r) : stake'[r][u] = stake[r][u]
  BY <1>1, <1>4, <1>5 DEF TypeOK, Placed
<1>7. Numbers(queued, A) /\ \A u \in A : queued[u] \in Nat
  BY <1>4 DEF TypeOK, Numbers
<1>8. SumFunctionOnSet(stake'[r], A) = QueuedBy(A)
  <2>1. \A u \in A : stake'[r][u] = queued[u]
    BY <1>1, <1>4 DEF TypeOK
  <2> QED
    BY <1>4, <1>7, <2>1, SumSame DEF QueuedBy
<1>9. QueuedBy(A) \in Nat
  BY <1>4, <1>7, SumNatural DEF QueuedBy
<1>10. ASSUME QueuedBy(A) > 0
       PROVE  Within(r, StakesOn(r) + QueuedBy(A))
  <2>1. A # {}
    <3>1. SumFunctionOnSet(queued, {}) = 0
      BY SumEmpty
    <3> QED
      BY <1>10, <3>1 DEF QueuedBy
  <2>2. PICK u \in A : {v \in A : place[v] < place[u]} = A \ {u}
    BY <2>1, LastAccepted
  <2>3. CanAcceptBet(r, queued[u], QueuedBy(A \ {u}))
    BY <1>1, <2>2 DEF Accepts
  <2>4. QueuedBy(A) = queued[u] + QueuedBy(A \ {u})
    BY <1>4, <1>7, SumWithout DEF QueuedBy
  <2>5. QueuedBy(A \ {u}) \in Nat
    <3>1. IsFiniteSet(A \ {u})
      BY <1>4, FS_Subset
    <3> QED
      BY <1>7, <3>1, SumNatural DEF QueuedBy
  <2>6. Within(r, StakesOn(r) + QueuedBy(A \ {u}) + queued[u])
    BY <1>7, <2>3, <2>5, CapsBound
  <2>7. StakesOn(r) + QueuedBy(A \ {u}) + queued[u] = StakesOn(r) + QueuedBy(A)
    BY <1>7, <2>4, <2>5, StakesTyped
  <2> QED
    BY <2>6, <2>7
<1> QED
  BY <1>4, <1>5, <1>6, <1>8, <1>9, <1>10, CapsAdded

\* Nothing comes to the round q.
LEMMA CapsIdle ==
    ASSUME TypeOK, NEW q \in Rounds, stake'[q] = stake[q], Placed(q)' \subseteq Placed(q)
    PROVE  StakesOn(q)' > StakesOn(q) => Within(q, StakesOn(q)')
<1>1. StakesOn(q)' \in Nat /\ StakesOn(q)' <= StakesOn(q)
  BY StakesFewer
<1>2. StakesOn(q) \in Nat
  BY StakesTyped
<1> QED
  BY <1>1, <1>2

LEMMA CapsStep ==
    ASSUME TypeOK, TypeOK', Ranked, [DbNext]_dbVars
    PROVE  CapStep
<1>1. SUFFICES ASSUME NEW q \in Rounds
               PROVE  StakesOn(q)' > StakesOn(q) => Within(q, StakesOn(q)')
  BY DEF CapStep, Within
<1> DEFINE Kept == stake'[q] = stake[q] /\ Placed(q)' \subseteq Placed(q)
<1>2. SUFFICES ASSUME ~Kept
               PROVE  StakesOn(q)' > StakesOn(q) => Within(q, StakesOn(q)')
  BY CapsIdle
<1>3. ASSUME stake'[q] = stake[q], player'[q] = player[q] PROVE Kept
  BY <1>3 DEF Placed, StillPlaced
<1>4. ~UNCHANGED dbVars
  BY <1>2, <1>3 DEF dbVars
<1>5. ASSUME NEW r \in Rounds,
             \/ CreateRound(r) \/ FinishRound(r) \/ TimePasses(r)
             \/ \E c \in 2..MaxCrash : StartRound(r, c) \/ CrashRound(r, c)
      PROVE  Kept
  BY <1>3, <1>5 DEF CreateRound, FinishRound, TimePasses, StartRound, CrashRound, betVars
<1>6. ASSUME NEW r \in Rounds, ActivateQueuedBets(r)
      PROVE  StakesOn(q)' > StakesOn(q) => Within(q, StakesOn(q)')
  <2>1. CASE r = q
    BY <1>6, <2>1, CapsActivate
  <2>2. CASE r # q
    <3>1. player'[q] = player[q] /\ stake'[q] = stake[q]
      BY <1>6, <2>2 DEF ActivateQueuedBets, TypeOK
    <3> QED
      BY <1>2, <1>3, <3>1
  <2> QED
    BY <2>1, <2>2
<1>7. ASSUME NEW r \in Rounds, NEW u \in Users, NEW a \in Stakes,
             PlaceBetForCurrentRound(r, u, a)
      PROVE  StakesOn(q)' > StakesOn(q) => Within(q, StakesOn(q)')
  <2>1. CASE r = q
    BY <1>7, <2>1, CapsPlaceBet
  <2>2. CASE r # q
    <3>1. player'[q] = player[q] /\ stake'[q] = stake[q]
      BY <1>7, <2>2 DEF PlaceBetForCurrentRound, TypeOK
    <3> QED
      BY <1>2, <1>3, <3>1
  <2> QED
    BY <2>1, <2>2
<1>8. ASSUME NEW r \in Rounds, NEW u \in Users, NEW a \in Stakes,
             QueueBetForNextRound(r, u, a)
      PROVE  Kept
  BY <1>3, <1>8 DEF QueueBetForNextRound, betVars
<1>9. ASSUME NEW r \in Rounds, NEW u \in Users,
             \/ SettleLoss(r, u)
             \/ \E m \in 1..MaxCrash : CashoutPlayer(r, u, m)
      PROVE  Kept
  <2>1. /\ UNCHANGED stake
        /\ \E s \in {"LOST", "CASHED_OUT"} : player' = [player EXCEPT ![r][u] = s]
    BY <1>9 DEF SettleLoss, CashoutPlayer, Resolve
  <2>2. Placed(q)' \subseteq Placed(q)
    BY <2>1 DEF Placed, StillPlaced, TypeOK
  <2> QED
    BY <2>1, <2>2
<1>10. ASSUME NEW u \in Users, RepairWallet(u) PROVE Kept
  <2>1. PICK stale : player' = [r \in Rounds |->
            IF r \in stale THEN [player[r] EXCEPT ![u] = "LOST"] ELSE player[r]]
    BY <1>10 DEF RepairWallet
  <2>2. UNCHANGED stake
    BY <1>10 DEF RepairWallet
  <2>3. Placed(q)' \subseteq Placed(q)
    BY <2>1 DEF Placed, StillPlaced, TypeOK
  <2> QED
    BY <2>2, <2>3
<1> HIDE DEF Kept
<1> QED
  BY <1>2, <1>4, <1>5, <1>6, <1>7, <1>8, <1>9, <1>10 DEF DbNext

\* Whatever adds to the open bets of a round leaves them within its share of
\* the bankroll, at the multiplier the code reckons with: for any stakes, caps
\* and bankroll, and whatever was accepted, queued or paid out before.
THEOREM StakesWithinCap == DbSpec => StakesAcceptedWithinCap
<1>1. TypeOK /\ TypeOK' /\ Ranked /\ [DbNext]_dbVars => [CapStep]_dbVars
  BY CapsStep
<1> QED
  BY <1>1, TypeCorrect, QueueRanked, PTL DEF DbSpec, StakesAcceptedWithinCap
=============================================================================
