----------------------------- MODULE BetEscrow ------------------------------
(***************************************************************************)
(* What the crash game promises about stakes, without a word on how it is  *)
(* run: no lock column, no ledger, no Redis, no worker.  A stake is a claim *)
(* on the player's own funds, held by a round or by the queue; it is won   *)
(* only while the round flies, lost only after it is over, and what a      *)
(* player may stake is what no claim holds.                                *)
(***************************************************************************)
EXTENDS Integers, FiniteSets, FiniteSetsExt

CONSTANTS Users, NumRounds

VARIABLES
    funds,      \* funds[u]: the player's money, claimed or not
    bank,       \* the house's money
    stage,      \* stage[r]: "none", "betting", "flying" or "over"
    claim       \* claim[u][k]: the stake of u that round k holds, k = Queue included

vars == <<funds, bank, stage, claim>>

Rounds == 1..NumRounds
Queue == 0
Slots == Rounds \cup {Queue}
Stage == <<"none", "betting", "flying", "over">>

Free(u) == funds[u] - SumFunctionOnSet(claim[u], Slots)
Waiting == {u \in Users : claim[u][Queue] > 0}

Init ==
    /\ funds \in [Users -> Nat]
    /\ bank \in Nat
    /\ stage = [r \in Rounds |-> "none"]
    /\ claim = [u \in Users |-> [k \in Slots |-> 0]]

\* A round moves to its next stage.
Advance(r) ==
    /\ \E i \in 1..3 : /\ stage[r] = Stage[i]
                       /\ stage' = [stage EXCEPT ![r] = Stage[i + 1]]
    /\ UNCHANGED <<funds, bank, claim>>

\* A stake on a round that takes bets, or in the queue while a round flies.
Hold(u, k) ==
    /\ claim[u][k] = 0
    /\ IF k = Queue THEN \E r \in Rounds : stage[r] = "flying"
                    ELSE stage[k] = "betting"
    /\ \E a \in 1..Free(u) : claim' = [claim EXCEPT ![u][k] = a]
    /\ UNCHANGED <<funds, bank, stage>>

\* The whole queue is served at once: each stake moves to r or goes back.
Serve(r) ==
    /\ stage[r] = "betting"
    /\ \E moved \in SUBSET {u \in Waiting : claim[u][r] = 0} :
         claim' = [u \in Users |-> [k \in Slots |->
                     IF k = Queue THEN 0
                     ELSE IF k = r /\ u \in moved THEN claim[u][Queue]
                     ELSE claim[u][k]]]
    /\ UNCHANGED <<funds, bank, stage>>

\* The house pays a profit it has, and the stake is free again.
Win(u, r) ==
    /\ stage[r] = "flying" /\ claim[u][r] > 0
    /\ \E p \in 0..bank :
         /\ funds' = [funds EXCEPT ![u] = @ + p]
         /\ bank' = bank - p
    /\ claim' = [claim EXCEPT ![u][r] = 0]
    /\ UNCHANGED stage

\* Stakes on rounds that are over go to the house.
Lose(u, R) ==
    LET owed == SumFunctionOnSet(claim[u], R)
    IN /\ R # {}
       /\ \A r \in R : stage[r] = "over" /\ claim[u][r] > 0
       /\ funds' = [funds EXCEPT ![u] = @ - owed]
       /\ bank' = bank + owed
       /\ claim' = [claim EXCEPT ![u] = [k \in Slots |->
                      IF k \in R THEN 0 ELSE @[k]]]
       /\ UNCHANGED stage

Next ==
    \/ \E r \in Rounds : Advance(r) \/ Serve(r)
    \/ \E u \in Users :
          \/ \E k \in Slots : Hold(u, k)
          \/ \E r \in Rounds : Win(u, r)
          \/ \E R \in SUBSET Rounds : Lose(u, R)

Spec == Init /\ [][Next]_vars
=============================================================================
