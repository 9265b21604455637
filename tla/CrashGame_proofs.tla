-------------------------- MODULE CrashGame_proofs --------------------------
(***************************************************************************)
(* Theorems of CrashGame: every step of the running system is a database   *)
(* transaction of GameDb or leaves the database alone, so the theorems of  *)
(* GameDb carry over; and an inductive invariant ties the worker's next    *)
(* call to what Redis and the database hold, whatever fails.               *)
(***************************************************************************)
EXTENDS CrashGame, GameDb_proofs

\* What Redis may still say of a round the database has in state d.
Agree(s, d) ==
    \/ s = "NONE" \/ s = d
    \/ s = "WAITING" /\ d = "RUNNING"
    \/ s = "RUNNING" /\ d = "CRASHED"
    \/ s = "CRASHED" /\ d = "FINISHED"

RedisLags == \A r \in Rounds : Agree(rstate[r], status[r])

Contiguous == \A q, r \in Rounds : q < r /\ Exists(r) => Exists(q)

CrashPoints ==
    \A r \in Rounds : /\ crash[r] \in 0..MaxCrash
                      /\ status[r] \in {"NONE", "WAITING"} => crash[r] = 0

\* The worker's call pc, made for round rd, finds the database in one of D and
\* Redis in one of R; Redis may always have lost the key.
Finds(labels, D, R) ==
    pc \in labels => /\ rd \in Rounds
                     /\ status[rd] \in D
                     /\ rstate[rd] \in R \cup {"NONE"}

WorkerKnows ==
    /\ Finds({"recoverState"}, RoundStatus \ {"NONE"}, RoundStatus)
    /\ Finds({"start"}, {"WAITING", "RUNNING"}, {"WAITING"})
    /\ Finds({"publishStart", "ackStart"}, {"RUNNING"}, {"WAITING", "RUNNING"})
    /\ Finds({"crash"}, {"RUNNING", "CRASHED"}, {"RUNNING"})
    /\ Finds({"publishCrash"}, {"CRASHED"}, {"RUNNING"})
    /\ Finds({"checkSettled", "list", "settle", "markSettled", "cooldown", "finish"},
             {"CRASHED", "FINISHED"}, {"CRASHED"})
    /\ Finds({"publishFinish"}, {"FINISHED"}, {"CRASHED"})
    /\ pc \in {"activate", "publish"} =>
         NewRound \in Rounds /\ status[NewRound] = "WAITING"

\* The batches of settleLosses are counted from none, up to MaxBatches.
BatchesCounted ==
    /\ pc \in {"crash", "publishCrash", "checkSettled"} => tick.batch = 0
    /\ pc = "list" => tick.batch < MaxBatches

IInv ==
    /\ GameTypeOK
    /\ Contiguous
    /\ CrashPoints
    /\ RedisLags
    /\ WorkerKnows
    /\ BatchesCounted
    /\ NoLossBeforeCrash

-----------------------------------------------------------------------------
(* The newest round of a set: a finite set of rounds has a greatest member. *)

LEMMA NewestRound ==
    ASSUME NEW st, NEW S, NEW n,
           n = LET R == {r \in Rounds : st[r] \in S} IN IF R = {} THEN 0 ELSE Max(R)
    PROVE  /\ n \in {0} \cup Rounds
           /\ n # 0 => st[n] \in S
           /\ \A r \in Rounds : st[r] \in S => n \in Rounds /\ r <= n
<1> DEFINE R == {r \in Rounds : st[r] \in S}
<1>1. n = IF R = {} THEN 0 ELSE Max(R)
  OBVIOUS
<1>2. NumRounds \in Nat /\ R \in SUBSET (1..NumRounds)
  BY NumRoundsAssumption DEF Rounds
<1>3. CASE R = {}
  BY <1>1, <1>3
<1>4. CASE R # {}
  <2>1. Max(R) \in R /\ \A q \in R : q <= Max(R)
    <3> HIDE DEF R
    <3> QED
      BY <1>2, <1>4, MaxExists
  <2>2. 0 \notin Rounds
    BY DEF Rounds
  <2>3. QED
    BY <1>1, <1>4, <2>1, <2>2
<1>5. QED
  BY <1>3, <1>4

LEMMA Newest ==
    ASSUME NEW S
    PROVE  /\ NewestIn(S) \in {0} \cup Rounds
           /\ NewestIn(S) # 0 => status[NewestIn(S)] \in S
           /\ \A r \in Rounds : status[r] \in S =>
                NewestIn(S) \in Rounds /\ r <= NewestIn(S)
  BY NewestRound DEF NewestIn

-----------------------------------------------------------------------------
(* The running system takes the transactions of GameDb and no others.      *)

LEMMA LiveMultiplierBounded ==
    ASSUME GameTypeOK, CrashPoints, NEW r \in Rounds, NEW m \in LiveMultiplier(r),
           NEW u \in Users, CashoutPlayer(r, u, m)
    PROVE  m \in 1..MaxCrash
<1>1. m \in Int
  BY DEF LiveMultiplier, GameTypeOK, CrashPoints
<1>2. m >= 1 /\ m < crash[r] /\ crash[r] \in 0..MaxCrash
  BY DEF CashoutPlayer, CrashPoints
<1>3. QED
  BY <1>1, <1>2, MultiplierAssumption

LEMMA DbStep == IInv /\ [Next]_vars => [DbNext]_dbVars
<1> SUFFICES ASSUME GameTypeOK, CrashPoints, WorkerKnows, [Next]_vars
             PROVE  DbNext \/ UNCHANGED dbVars
  BY DEF IInv
<1>0. CASE UNCHANGED vars
  BY <1>0 DEF vars
<1>1. ASSUME NEW u \in Users, Client(u) PROVE DbNext \/ UNCHANGED dbVars
  <2>1. CASE ResolveCurrentRound(u)
    BY <2>1 DEF ResolveCurrentRound
  <2>2. CASE PlaceBet(u)
    <3>1. req[u].round \in Rounds
      BY <2>2 DEF PlaceBet, GameTypeOK, Request
    <3>2. QED
      BY <2>2, <3>1 DEF PlaceBet, DbNext
  <2>3. CASE BetRejected(u)
    BY <2>3 DEF BetRejected
  <2>4. CASE Cashout(u)
    BY <2>4, LiveMultiplierBounded DEF Cashout, DbNext
  <2>5. QED
    BY <1>1, <2>1, <2>2, <2>3, <2>4 DEF Client
<1>2. ASSUME NEW r \in Rounds, TimeStep(r) PROVE DbNext
  BY <1>2 DEF TimeStep, DbNext
<1>3. CASE Worker
  <2>1. CASE Repair
    BY <2>1 DEF Repair, DbNext, GameTypeOK, Locals
  <2>2. CASE StartDb
    BY <2>2 DEF StartDb, DbNext, WorkerKnows, Finds
  <2>3. CASE CrashDb
    BY <2>3 DEF CrashDb, DbNext, WorkerKnows, Finds
  <2>4. CASE SettleOne
    <3>1. rd \in Rounds
      BY <2>4 DEF SettleOne, WorkerKnows, Finds
    <3>2. tick.todo \subseteq Users
      BY DEF GameTypeOK, Locals
    <3>3. QED
      BY <2>4, <3>1, <3>2 DEF SettleOne, DbNext
  <2>5. CASE FinishDb
    BY <2>5 DEF FinishDb, DbNext, WorkerKnows, Finds
  <2>6. CASE CreateDb
    BY <2>6 DEF CreateDb, DbNext
  <2>7. CASE Activate
    BY <2>7 DEF Activate, DbNext, WorkerKnows
  <2>8. CASE \/ RecoverActiveRound \/ RecoverState \/ ListWallets
             \/ TickNoRound \/ TickWaiting \/ TickMultiplier \/ TickCrashing
             \/ TickCrashed \/ TickFinished
    BY <2>8 DEF RecoverActiveRound, RecoverState, ListWallets, TickNoRound,
                TickWaiting, TickMultiplier, TickCrashing, TickCrashed,
                TickFinished, Tick
  <2>9. CASE \/ PublishStart \/ AckStart \/ PublishCrash \/ CheckSettled
             \/ ListBatch \/ EndBatch \/ MarkSettled \/ Cooldown
             \/ PublishFinish \/ Publish \/ ClearSettled
    BY <2>9 DEF PublishStart, AckStart, PublishCrash, CheckSettled, ListBatch,
                EndBatch, MarkSettled, Cooldown, PublishFinish, Publish,
                ClearSettled
  <2>10. QED
    BY <1>3, <2>1, <2>2, <2>3, <2>4, <2>5, <2>6, <2>7, <2>8, <2>9 DEF Worker
<1>4. CASE Failure
  BY <1>4 DEF Failure, WorkerCrash, CallThrows, ActivationFails,
              RedisFlush
<1>5. CASE Exhausted
  BY <1>5 DEF Exhausted, vars
<1>6. QED
  BY <1>0, <1>1, <1>2, <1>3, <1>4, <1>5 DEF Next

-----------------------------------------------------------------------------
(* What any transaction keeps: rounds are created in order, and a crash    *)
(* point is drawn once, when the round leaves WAITING.                     *)

LEMMA RoundsKept ==
    ASSUME TypeOK, Contiguous, CrashPoints, [DbNext]_dbVars
    PROVE  Contiguous' /\ CrashPoints'
<1>1. CASE UNCHANGED <<status, crash>>
  BY <1>1 DEF Contiguous, Exists, CrashPoints
<1>2. ASSUME NEW r \in Rounds, CreateRound(r) PROVE Contiguous' /\ CrashPoints'
  <2>1. status' = [status EXCEPT ![r] = "WAITING"] /\ crash' = crash
        /\ status[r] = "NONE" /\ \A q \in 1..(r - 1) : status[q] # "NONE"
    BY <1>2 DEF CreateRound, Exists
  <2>2. CrashPoints'
    BY <2>1 DEF CrashPoints, TypeOK
  <2>3. Contiguous'
    BY <2>1, NumRoundsAssumption DEF Contiguous, Exists, TypeOK, Rounds
  <2>4. QED
    BY <2>2, <2>3
<1>3. ASSUME NEW r \in Rounds, NEW s \in RoundStatus \ {"NONE", "WAITING"},
             status[r] # "NONE", status' = [status EXCEPT ![r] = s],
             \/ crash' = crash
             \/ \E c \in 2..MaxCrash : crash' = [crash EXCEPT ![r] = c]
      PROVE  Contiguous' /\ CrashPoints'
  <2>1. CrashPoints'
    BY <1>3, MultiplierAssumption DEF CrashPoints, TypeOK
  <2>2. Contiguous'
    BY <1>3 DEF Contiguous, Exists, TypeOK
  <2>3. QED
    BY <2>1, <2>2
<1>4. ASSUME NEW r \in Rounds,
             FinishRound(r) \/ \E c \in 2..MaxCrash : StartRound(r, c) \/ CrashRound(r, c)
      PROVE  Contiguous' /\ CrashPoints'
  <2>1. CASE FinishRound(r)
    BY <1>3, <2>1 DEF FinishRound, Exists, RoundStatus
  <2>2. CASE \E c \in 2..MaxCrash : StartRound(r, c)
    BY <1>3, <2>2 DEF StartRound, RoundStatus
  <2>3. CASE \E c \in 2..MaxCrash : CrashRound(r, c)
    BY <1>3, <2>3 DEF CrashRound, Exists, RoundStatus
  <2>4. QED
    BY <1>4, <2>1, <2>2, <2>3
<1>5. CASE DbNext
  <2>1. ASSUME NEW r \in Rounds, TimePasses(r) \/ ActivateQueuedBets(r)
        PROVE  UNCHANGED <<status, crash>>
    BY <2>1 DEF TimePasses, ActivateQueuedBets, roundVars
  <2>2. ASSUME NEW r \in Rounds, NEW u \in Users,
               \/ SettleLoss(r, u)
               \/ \E a \in Stakes : PlaceBetForCurrentRound(r, u, a)
                                    \/ QueueBetForNextRound(r, u, a)
               \/ \E m \in 1..MaxCrash : CashoutPlayer(r, u, m)
        PROVE  UNCHANGED <<status, crash>>
    BY <2>2 DEF SettleLoss, PlaceBetForCurrentRound, QueueBetForNextRound,
                CashoutPlayer, roundVars
  <2>3. ASSUME NEW u \in Users, RepairWallet(u) PROVE UNCHANGED <<status, crash>>
    BY <2>3 DEF RepairWallet, roundVars
  <2>4. QED
    BY <1>1, <1>2, <1>4, <1>5, <2>1, <2>2, <2>3 DEF DbNext
<1>6. QED
  BY <1>1, <1>5 DEF dbVars

-----------------------------------------------------------------------------
(* The worker.  Each of its steps keeps the types of what it writes, and    *)
(* leaves Redis, the database and its next call in agreement.               *)

RunTypeOK ==
    /\ current \in {0} \cup Rounds
    /\ rstate \in [Rounds -> RoundStatus]
    /\ mult \in [Rounds -> 0..MaxCrash]
    /\ settledKey \subseteq Rounds
    /\ req \in [Users -> Request]
    /\ pc \in Pc /\ tick \in Locals
    /\ faults \in 0..MaxFaults

RunInv == RunTypeOK /\ RedisLags /\ WorkerKnows /\ BatchesCounted

LEMMA RoundNotZero == 0 \notin Rounds
  BY DEF Rounds

LEMMA NoTickTyped == NoTick \in Locals
  BY BatchAssumption DEF NoTick, Locals, RoundStatus

\* The locals of a tick, or of a boot, that starts with round r.
LEMMA NewTickTyped ==
    ASSUME NEW r \in Rounds, NEW s \in RoundStatus, NEW t,
           \/ t = [NoTick EXCEPT !.round = r]
           \/ t = [NoTick EXCEPT !.round = r, !.state = s]
    PROVE  t \in Locals /\ t.round = r /\ t.batch = 0
<1>1. PICK z \in RoundStatus :
        t = [round |-> r, state |-> z, todo |-> {}, batch |-> 0,
             did |-> FALSE, skipped |-> FALSE]
  <2>1. CASE t = [NoTick EXCEPT !.round = r]
    BY <2>1 DEF NoTick, RoundStatus
  <2>2. CASE t = [NoTick EXCEPT !.round = r, !.state = s]
    BY <2>2 DEF NoTick
  <2>3. QED
    BY <2>1, <2>2
<1>2. 0 \in 0..MaxBatches
  BY BatchAssumption
<1>3. QED
  BY <1>1, <1>2 DEF Locals

\* Where the worker holds nothing about a round, there is nothing to keep.
LEMMA AtRest ==
    ASSUME RunInv, UNCHANGED <<status, rstate>>, RunTypeOK',
           pc' \in {"down", "idle", "listWallets", "repair", "create"}
    PROVE  RunInv'
  BY DEF RunInv, RedisLags, WorkerKnows, Finds, BatchesCounted

\* Players, time and a wallet's repair leave the worker where it is.
LEMMA Bystander ==
    ASSUME RunInv, UNCHANGED <<status, redisVars, workerVars>>, RunTypeOK'
    PROVE  RunInv'
<1>1. /\ status' = status /\ rstate' = rstate /\ pc' = pc /\ tick' = tick
      /\ NewRound' = NewRound
  BY DEF redisVars, workerVars, NewRound, NewestIn
<1>2. RedisLags' /\ BatchesCounted'
  BY <1>1 DEF RunInv, RedisLags, BatchesCounted
<1>3. WorkerKnows'
  BY <1>1 DEF RunInv, WorkerKnows, Finds, rd
<1>4. QED
  BY <1>2, <1>3 DEF RunInv

LEMMA RunClient ==
    ASSUME RunInv, NEW u \in Users, Client(u)
    PROVE  RunInv'
<1>1. UNCHANGED <<status, redisVars, workerVars, faults>>
  BY DEF Client, ResolveCurrentRound, PlaceBet, BetRejected, Cashout, dbVars,
         PlaceBetForCurrentRound, QueueBetForNextRound, CashoutPlayer, roundVars
<1>2. req' \in [Users -> Request]
  <2>1. CASE ResolveCurrentRound(u)
    <3>1. ResolvedRound \in Rounds
      BY <2>1, Newest DEF ResolveCurrentRound, ResolvedRound, RunInv, RunTypeOK
    <3>2. QED
      BY <2>1, <3>1 DEF ResolveCurrentRound, RunInv, RunTypeOK, Request
  <2>2. CASE PlaceBet(u) \/ BetRejected(u)
    BY <2>2 DEF PlaceBet, BetRejected, RunInv, RunTypeOK, Request
  <2>3. CASE Cashout(u)
    BY <2>3 DEF Cashout, RunInv, RunTypeOK
  <2>4. QED
    BY <2>1, <2>2, <2>3 DEF Client
<1>3. RunTypeOK'
  BY <1>1, <1>2 DEF RunInv, RunTypeOK, redisVars, workerVars
<1>4. QED
  BY <1>1, <1>3, Bystander

LEMMA RunTime ==
    ASSUME RunInv, NEW r \in Rounds, TimeStep(r)
    PROVE  RunInv'
<1>1. UNCHANGED <<status, redisVars, req, workerVars, faults>>
  BY DEF TimeStep, TimePasses
<1>2. RunTypeOK'
  BY <1>1 DEF RunInv, RunTypeOK, redisVars, workerVars
<1>3. QED
  BY <1>1, <1>2, Bystander

LEMMA RunBoot ==
    ASSUME TypeOK, RunInv,
           RecoverActiveRound \/ RecoverState \/ ListWallets \/ Repair
    PROVE  RunInv'
<1>1. CASE RecoverActiveRound
  <2> DEFINE r == NewestIn(Unfinished)
  <2>1. r \in {0} \cup Rounds /\ (r # 0 => status[r] \in RoundStatus \ {"NONE"})
    BY Newest DEF Unfinished, RoundStatus
  <2>2. UNCHANGED <<status, rstate, mult, settledKey, req, faults>>
    BY <1>1 DEF RecoverActiveRound, dbVars
  <2>3. CASE r = 0
    <3>1. pc' = "listWallets" /\ tick' = NoTick /\ current' = current
      BY <1>1, <2>3 DEF RecoverActiveRound, Goto
    <3>2. RunTypeOK'
      BY <2>2, <3>1, NoTickTyped DEF RunInv, RunTypeOK, Pc, BootPc
    <3>3. QED
      BY <2>2, <3>1, <3>2, AtRest
  <2>4. CASE r # 0
    <3>1. pc' = "recoverState" /\ tick' = [NoTick EXCEPT !.round = r] /\ current' = r
      BY <1>1, <2>4 DEF RecoverActiveRound, Goto
    <3> HIDE DEF r
    <3>2. r \in Rounds /\ tick' \in Locals /\ tick'.round = r
      BY <2>1, <2>4, <3>1, NewTickTyped DEF RoundStatus
    <3>3. RunTypeOK'
      BY <2>2, <3>1, <3>2 DEF RunInv, RunTypeOK, Pc, BootPc
    <3>4. RedisLags' /\ BatchesCounted'
      BY <2>2, <3>1 DEF RunInv, RedisLags, BatchesCounted
    <3>5. status'[r] \in RoundStatus \ {"NONE"} /\ rstate'[r] \in RoundStatus
      BY <2>1, <2>2, <2>4, <3>2 DEF RunInv, RunTypeOK, r
    <3>6. WorkerKnows'
      BY <3>1, <3>2, <3>5 DEF WorkerKnows, Finds, rd
    <3>7. QED
      BY <3>3, <3>4, <3>6 DEF RunInv
  <2>5. QED
    BY <2>3, <2>4
<1>2. CASE RecoverState
  <2>1. /\ pc' = "listWallets" /\ tick' = NoTick
        /\ rd \in Rounds /\ status[rd] \in RoundStatus
        /\ rstate' = [rstate EXCEPT ![rd] = status[rd]]
        /\ UNCHANGED <<status, current, mult, settledKey, req, faults>>
    BY <1>2 DEF RecoverState, Goto, RunInv, WorkerKnows, Finds, dbVars
  <2>2. RunTypeOK'
    BY <2>1, NoTickTyped DEF RunInv, RunTypeOK, Pc, BootPc
  <2>3. RedisLags'
    BY <2>1 DEF RunInv, RunTypeOK, RedisLags, Agree
  <2>4. QED
    BY <2>1, <2>2, <2>3 DEF RunInv, WorkerKnows, Finds, BatchesCounted
<1>3. CASE ListWallets
  <2>1. /\ pc' = "repair" /\ tick' = [tick EXCEPT !.todo = {u \in Users : locked[u] > 0}]
        /\ UNCHANGED <<status, redisVars, req, faults>>
    BY <1>3 DEF ListWallets, Goto, dbVars
  <2>2. RunTypeOK'
    BY <2>1 DEF RunInv, RunTypeOK, Pc, BootPc, Locals, redisVars
  <2>3. QED
    BY <2>1, <2>2, AtRest DEF redisVars
<1>4. CASE Repair
  <2>1. /\ UNCHANGED <<status, redisVars, req, faults>>
        /\ \/ pc' = "idle" /\ tick' = NoTick
           \/ \E u \in tick.todo : pc' = "repair" /\ tick' = [tick EXCEPT !.todo = @ \ {u}]
    BY <1>4 DEF Repair, Goto, EndTick, RepairWallet, roundVars, dbVars
  <2>2. tick' \in Locals
    <3>1. ASSUME NEW u \in tick.todo PROVE [tick EXCEPT !.todo = @ \ {u}] \in Locals
      BY DEF RunInv, RunTypeOK, Locals
    <3>2. QED
      BY <2>1, <3>1, NoTickTyped
  <2>3. RunTypeOK'
    BY <2>1, <2>2 DEF RunInv, RunTypeOK, Pc, BootPc, redisVars
  <2>4. QED
    BY <2>1, <2>3, AtRest DEF redisVars
<1>5. QED
  BY <1>1, <1>2, <1>3, <1>4

\* The round a tick starts from, as Redis and the database have it.
LEMMA TickFinds ==
    ASSUME TypeOK, RunInv, NEW state \in RoundStatus \ {"NONE"}, NEW label \in TickPc,
           Tick(state, label)
    PROVE  /\ current \in Rounds
           /\ rstate[current] \in {state, "NONE"}
           /\ Agree(state, status[current])
           /\ pc' = label /\ tick' \in Locals /\ tick'.round = current
           /\ tick'.batch = 0
           /\ UNCHANGED <<status, redisVars, req, faults>>
<1>1. /\ current # 0 /\ current \in {0} \cup Rounds
      /\ TickState(current) = state /\ pc' = label
      /\ tick' = [NoTick EXCEPT !.round = current, !.state = state]
      /\ UNCHANGED <<status, redisVars, req, faults>>
  BY DEF Tick, Goto, RunInv, RunTypeOK, dbVars
<1>2. current \in Rounds
  BY <1>1
<1>3. rstate[current] \in {state, "NONE"} /\ Agree(state, status[current])
  BY <1>1, <1>2 DEF TickState, RunInv, RedisLags, Agree
<1>4. tick' \in Locals /\ tick'.round = current /\ tick'.batch = 0
  BY <1>1, <1>2, NewTickTyped
<1>5. QED
  BY <1>1, <1>2, <1>3, <1>4

LEMMA RunTick ==
    ASSUME TypeOK, CrashPoints, RunInv,
           \/ TickNoRound \/ TickWaiting \/ TickMultiplier \/ TickCrashing
           \/ TickCrashed \/ TickFinished
    PROVE  RunInv'
<1>1. CASE TickNoRound
  <2>1. /\ pc' = "create" /\ tick' = NoTick
        /\ UNCHANGED <<status, redisVars, req, faults>>
    BY <1>1 DEF TickNoRound, Goto, dbVars
  <2>2. RunTypeOK'
    BY <2>1, NoTickTyped DEF RunInv, RunTypeOK, redisVars, Pc, TickPc
  <2>3. QED
    BY <2>1, <2>2, AtRest DEF redisVars
<1>2. CASE TickMultiplier
  <2>1. /\ UNCHANGED <<status, current, rstate, settledKey, req, workerVars, faults>>
        /\ \E m \in 1..(crash[current] - 1) : mult' = [mult EXCEPT ![current] = m]
        /\ current \in Rounds
    BY <1>2 DEF TickMultiplier, RunInv, RunTypeOK, dbVars
  <2>2. mult' \in [Rounds -> 0..MaxCrash]
    BY <2>1, MultiplierAssumption DEF RunInv, RunTypeOK, CrashPoints
  <2>3. RunTypeOK'
    BY <2>1, <2>2 DEF RunInv, RunTypeOK, workerVars
  <2>4. NewRound' = NewRound /\ pc' = pc /\ tick' = tick
    BY <2>1 DEF NewRound, NewestIn, workerVars
  <2>5. RedisLags' /\ BatchesCounted'
    BY <2>1, <2>4 DEF RunInv, RedisLags, BatchesCounted
  <2>6. WorkerKnows'
    BY <2>1, <2>4 DEF RunInv, WorkerKnows, Finds, rd
  <2>7. QED
    BY <2>3, <2>5, <2>6 DEF RunInv
<1>3. ASSUME NEW state \in RoundStatus \ {"NONE"}, NEW label \in TickPc,
             Tick(state, label),
             \/ state = "WAITING" /\ label = "start"
             \/ state = "RUNNING" /\ label = "crash"
             \/ state = "CRASHED" /\ label = "checkSettled"
             \/ state = "FINISHED" /\ label = "create"
      PROVE  RunInv'
  <2>1. /\ current \in Rounds
        /\ rstate[current] \in {state, "NONE"}
        /\ Agree(state, status[current])
        /\ pc' = label /\ tick' \in Locals /\ tick'.round = current
        /\ tick'.batch = 0
        /\ UNCHANGED <<status, redisVars, req, faults>>
    BY <1>3, TickFinds
  <2>2. RunTypeOK'
    BY <2>1 DEF RunInv, RunTypeOK, redisVars, Pc
  <2>3. RedisLags' /\ BatchesCounted'
    BY <1>3, <2>1 DEF RunInv, RedisLags, BatchesCounted, redisVars
  <2>4. status' = status /\ rstate' = rstate /\ rd' = current
    BY <2>1 DEF redisVars, rd
  <2>5. WorkerKnows'
    BY <1>3, <2>1, <2>4 DEF WorkerKnows, Finds, Agree
  <2>6. QED
    BY <2>2, <2>3, <2>5 DEF RunInv
<1>4. /\ {"WAITING", "RUNNING", "CRASHED", "FINISHED"} \subseteq RoundStatus \ {"NONE"}
      /\ {"start", "crash", "checkSettled", "create"} \subseteq TickPc
  BY DEF RoundStatus, TickPc
<1>5. QED
  BY <1>1, <1>2, <1>3, <1>4 DEF TickWaiting, TickCrashing, TickCrashed, TickFinished

\* A step of a tick under way keeps its round, and makes one call.  How the
\* database and Redis then stand on that round is what the next call finds.
LEMMA RunStart ==
    ASSUME TypeOK, RunInv, StartDb \/ PublishStart \/ AckStart
    PROVE  RunInv'
<1>1. CASE StartDb
  <2>1. /\ pc = "start" /\ rd \in Rounds
        /\ status[rd] \in {"WAITING", "RUNNING"} /\ rstate[rd] \in {"WAITING", "NONE"}
    BY <1>1 DEF StartDb, RunInv, WorkerKnows, Finds
  <2>2. /\ tick' = tick /\ pc' \in {"publishStart", "ackStart"}
        /\ status' = [status EXCEPT ![rd] = "RUNNING"]
        /\ UNCHANGED <<redisVars, req, faults>>
    BY <1>1, <2>1 DEF StartDb, StartRound, Goto, dbVars, TypeOK
  <2>3. RunTypeOK'
    BY <2>2 DEF RunInv, RunTypeOK, redisVars, Pc, TickPc
  <2>4. RedisLags' /\ BatchesCounted'
    BY <2>1, <2>2 DEF RunInv, RedisLags, Agree, BatchesCounted, redisVars, TypeOK
  <2>5. rd' = rd /\ rstate' = rstate /\ status'[rd] = "RUNNING"
    BY <2>1, <2>2 DEF rd, redisVars, TypeOK
  <2>6. WorkerKnows'
    BY <2>1, <2>2, <2>5 DEF WorkerKnows, Finds
  <2>7. QED
    BY <2>3, <2>4, <2>6 DEF RunInv
<1>2. CASE PublishStart \/ AckStart
  <2>1. /\ rd \in Rounds /\ status[rd] = "RUNNING"
        /\ rstate' = [rstate EXCEPT ![rd] = "RUNNING"]
        /\ mult' = mult \/ mult' = [mult EXCEPT ![rd] = 1]
        /\ \/ pc' = "ackStart" /\ tick' = tick
           \/ pc' = "idle" /\ tick' = NoTick
        /\ UNCHANGED <<status, current, settledKey, req, faults>>
    BY <1>2 DEF PublishStart, AckStart, Goto, EndTick, RunInv, WorkerKnows, Finds, dbVars
  <2>2. RunTypeOK'
    BY <2>1, NoTickTyped, MultiplierAssumption
       DEF RunInv, RunTypeOK, Pc, TickPc, RoundStatus
  <2>3. RedisLags' /\ BatchesCounted'
    BY <2>1 DEF RunInv, RunTypeOK, RedisLags, Agree, BatchesCounted
  <2>4. WorkerKnows'
    <3>1. CASE pc' = "idle"
      BY <3>1 DEF WorkerKnows, Finds
    <3>2. CASE pc' = "ackStart" /\ tick' = tick
      <4>1. rd' = rd /\ status'[rd] = "RUNNING" /\ rstate'[rd] = "RUNNING"
        BY <2>1, <3>2 DEF rd, RunInv, RunTypeOK
      <4>2. QED
        BY <2>1, <3>2, <4>1 DEF WorkerKnows, Finds
    <3>3. QED
      BY <2>1, <3>1, <3>2
  <2>5. QED
    BY <2>2, <2>3, <2>4 DEF RunInv
<1>3. QED
  BY <1>1, <1>2

LEMMA RunCrash ==
    ASSUME TypeOK, RunInv, CrashDb \/ PublishCrash
    PROVE  RunInv'
<1>1. CASE CrashDb
  <2>1. /\ pc = "crash" /\ rd \in Rounds /\ tick.batch = 0
        /\ status[rd] \in {"RUNNING", "CRASHED"} /\ rstate[rd] \in {"RUNNING", "NONE"}
    BY <1>1 DEF CrashDb, RunInv, WorkerKnows, Finds, BatchesCounted
  <2>2. /\ tick' = tick /\ pc' = "publishCrash"
        /\ status' = [status EXCEPT ![rd] = "CRASHED"]
        /\ UNCHANGED <<redisVars, req, faults>>
    BY <1>1 DEF CrashDb, CrashRound, Goto
  <2>3. RunTypeOK'
    BY <2>2 DEF RunInv, RunTypeOK, redisVars, Pc, TickPc
  <2>4. RedisLags' /\ BatchesCounted'
    BY <2>1, <2>2 DEF RunInv, RedisLags, Agree, BatchesCounted, redisVars, TypeOK
  <2>5. rd' = rd /\ rstate' = rstate /\ status'[rd] = "CRASHED"
    BY <2>1, <2>2 DEF rd, redisVars, TypeOK
  <2>6. WorkerKnows'
    BY <2>1, <2>2, <2>5 DEF WorkerKnows, Finds
  <2>7. QED
    BY <2>3, <2>4, <2>6 DEF RunInv
<1>2. CASE PublishCrash
  <2>1. /\ rd \in Rounds /\ status[rd] = "CRASHED" /\ tick.batch = 0
        /\ rstate' = [rstate EXCEPT ![rd] = "CRASHED"]
        /\ pc' = "checkSettled" /\ tick' = tick
        /\ UNCHANGED <<status, current, mult, settledKey, req, faults>>
    BY <1>2 DEF PublishCrash, Goto, RunInv, WorkerKnows, Finds, BatchesCounted, dbVars
  <2>2. RunTypeOK'
    BY <2>1 DEF RunInv, RunTypeOK, Pc, TickPc, RoundStatus
  <2>3. RedisLags' /\ BatchesCounted'
    BY <2>1 DEF RunInv, RunTypeOK, RedisLags, Agree, BatchesCounted
  <2>4. rd' = rd /\ status'[rd] = "CRASHED" /\ rstate'[rd] = "CRASHED"
    BY <2>1 DEF rd, RunInv, RunTypeOK
  <2>5. WorkerKnows'
    BY <2>1, <2>4 DEF WorkerKnows, Finds
  <2>6. QED
    BY <2>2, <2>3, <2>5 DEF RunInv
<1>3. QED
  BY <1>1, <1>2

\* The calls a tick makes on a round that is over.
OverPc == {"checkSettled", "list", "settle", "markSettled", "cooldown", "finish"}

LEMMA OverStep ==
    ASSUME RunInv, pc \in OverPc, pc' \in OverPc, UNCHANGED <<status, rstate>>,
           tick'.round = rd, RunTypeOK', BatchesCounted'
    PROVE  RunInv'
<1>1. /\ rd \in Rounds /\ status[rd] \in {"CRASHED", "FINISHED"}
      /\ rstate[rd] \in {"CRASHED", "NONE"}
  BY DEF RunInv, WorkerKnows, Finds, OverPc
<1>2. rd' = rd /\ status'[rd] = status[rd] /\ rstate'[rd] = rstate[rd]
  BY DEF rd
<1>3. WorkerKnows'
  BY <1>1, <1>2 DEF WorkerKnows, Finds, OverPc
<1>4. RedisLags'
  BY DEF RunInv, RedisLags
<1>5. QED
  BY <1>3, <1>4 DEF RunInv

LEMMA RunAfterSettlement ==
    ASSUME RunInv, pc \in OverPc, AfterSettlement,
           UNCHANGED <<status, current, rstate, mult, req, faults>>,
           settledKey' \subseteq Rounds
    PROVE  RunInv'
<1>1. rd \in Rounds
  BY DEF RunInv, WorkerKnows, Finds, OverPc
<1>2. CASE pc' = "idle" /\ tick' = NoTick
  <2>1. RunTypeOK'
    BY <1>2, NoTickTyped DEF RunInv, RunTypeOK, Pc
  <2>2. QED
    BY <1>2, <2>1, AtRest
<1>3. CASE pc' = "cooldown" /\ tick' = [NoTick EXCEPT !.round = rd, !.state = "CRASHED"]
  <2>1. tick' \in Locals /\ tick'.round = rd
    BY <1>1, <1>3, NewTickTyped DEF RoundStatus
  <2>2. RunTypeOK'
    BY <1>3, <2>1 DEF RunInv, RunTypeOK, Pc, TickPc
  <2>3. BatchesCounted'
    BY <1>3 DEF BatchesCounted
  <2>4. QED
    BY <1>3, <2>1, <2>2, <2>3, OverStep DEF OverPc
<1>4. QED
  BY <1>2, <1>3 DEF AfterSettlement, EndTick, Goto

LEMMA RunSettle ==
    ASSUME TypeOK, RunInv,
           \/ CheckSettled \/ ListBatch \/ SettleOne \/ EndBatch \/ MarkSettled
    PROVE  RunInv'
<1>1. CASE CheckSettled
  <2>1. /\ pc = "checkSettled" /\ tick.batch = 0
        /\ UNCHANGED <<status, redisVars, req, faults>>
    BY <1>1 DEF CheckSettled, RunInv, BatchesCounted, dbVars
  <2>2. CASE AfterSettlement
    BY <2>1, <2>2, RunAfterSettlement DEF OverPc, redisVars, RunInv, RunTypeOK
  <2>3. CASE pc' = "list" /\ tick' = tick
    <3>1. RunTypeOK' /\ BatchesCounted'
      BY <2>1, <2>3, BatchAssumption
         DEF RunInv, RunTypeOK, BatchesCounted, redisVars, Pc, TickPc
    <3>2. QED
      BY <2>1, <2>3, <3>1, OverStep DEF OverPc, redisVars, rd
  <2>4. QED
    BY <1>1, <2>2, <2>3 DEF CheckSettled, Goto
<1>2. CASE ListBatch
  <2>1. /\ pc = "list" /\ tick.batch < MaxBatches
        /\ UNCHANGED <<status, redisVars, req, faults>>
        /\ \/ pc' = "markSettled" /\ tick' = tick
           \/ \E S \in SUBSET Placed(rd) :
                /\ pc' = "settle"
                /\ tick' = [tick EXCEPT !.todo = S, !.batch = @ + 1,
                                        !.did = FALSE, !.skipped = FALSE]
    BY <1>2 DEF ListBatch, Goto, RunInv, BatchesCounted, dbVars
  <2>2. tick \in Locals /\ tick.batch + 1 \in 0..MaxBatches
    <3>1. tick \in Locals /\ tick.batch \in 0..MaxBatches
      BY DEF RunInv, RunTypeOK, Locals
    <3>2. tick.batch < MaxBatches /\ MaxBatches \in Nat
      BY <2>1, BatchAssumption
    <3>3. QED
      BY <3>1, <3>2
  <2>3. tick' \in Locals /\ tick'.round = rd
    <3>1. CASE tick' = tick
      BY <2>2, <3>1 DEF rd
    <3>2. ASSUME NEW S \in SUBSET Placed(rd),
                 tick' = [tick EXCEPT !.todo = S, !.batch = @ + 1,
                                      !.did = FALSE, !.skipped = FALSE]
          PROVE  tick' \in Locals /\ tick'.round = rd
      <4>1. S \subseteq Users
        BY DEF Placed
      <4>2. QED
        BY <2>2, <3>2, <4>1 DEF Locals, rd
    <3>3. QED
      BY <2>1, <3>1, <3>2
  <2>4. RunTypeOK' /\ BatchesCounted'
    BY <2>1, <2>3 DEF RunInv, RunTypeOK, BatchesCounted, redisVars, Pc, TickPc
  <2>5. QED
    BY <2>1, <2>3, <2>4, OverStep DEF OverPc, redisVars
<1>3. CASE SettleOne
  <2>1. /\ pc = "settle" /\ pc' = "settle"
        /\ UNCHANGED <<status, redisVars, req>>
        /\ faults' \in {faults, faults + 1} /\ (faults' # faults => faults < MaxFaults)
        /\ \E u \in tick.todo :
             \/ tick' = [tick EXCEPT !.todo = @ \ {u}, !.did = TRUE]
             \/ tick' = [tick EXCEPT !.todo = @ \ {u}, !.skipped = TRUE]
    BY <1>3 DEF SettleOne, Fault, Goto, SettleLoss, roundVars, dbVars
  <2>2. ASSUME NEW u \in tick.todo,
               \/ tick' = [tick EXCEPT !.todo = @ \ {u}, !.did = TRUE]
               \/ tick' = [tick EXCEPT !.todo = @ \ {u}, !.skipped = TRUE]
        PROVE  tick' \in Locals /\ tick'.round = rd
    BY <2>2 DEF RunInv, RunTypeOK, Locals, rd
  <2>3. tick' \in Locals /\ tick'.round = rd
    BY <2>1, <2>2
  <2>4. RunTypeOK' /\ BatchesCounted'
    BY <2>1, <2>3, FaultAssumption
       DEF RunInv, RunTypeOK, BatchesCounted, redisVars, Pc, TickPc
  <2>5. QED
    BY <2>1, <2>3, <2>4, OverStep DEF OverPc, redisVars
<1>4. CASE EndBatch
  <2>1. /\ pc = "settle" /\ tick' = tick
        /\ \/ pc' = "markSettled"
           \/ pc' = "list" /\ ~(tick.batch >= MaxBatches)
        /\ UNCHANGED <<status, redisVars, req, faults>>
    BY <1>4 DEF EndBatch, Goto, dbVars
  <2>2. RunTypeOK' /\ BatchesCounted'
    BY <2>1, BatchAssumption
       DEF RunInv, RunTypeOK, BatchesCounted, redisVars, Pc, TickPc, Locals
  <2>3. QED
    BY <2>1, <2>2, OverStep DEF OverPc, redisVars, rd
<1>5. CASE MarkSettled
  <2>1. pc = "markSettled" /\ rd \in Rounds /\ AfterSettlement
        /\ settledKey' = settledKey \cup {rd}
        /\ UNCHANGED <<status, current, rstate, mult, req, faults>>
    BY <1>5 DEF MarkSettled, RunInv, WorkerKnows, Finds, dbVars
  <2>2. QED
    BY <2>1, RunAfterSettlement DEF OverPc, RunInv, RunTypeOK
<1>6. QED
  BY <1>1, <1>2, <1>3, <1>4, <1>5

LEMMA RunFinish ==
    ASSUME TypeOK, RunInv, Cooldown \/ FinishDb \/ PublishFinish
    PROVE  RunInv'
<1>1. CASE Cooldown
  <2>1. /\ pc = "cooldown"
        /\ UNCHANGED <<status, redisVars, req, faults>>
        /\ \/ pc' = "finish" /\ tick' = tick
           \/ pc' = "idle" /\ tick' = NoTick
    BY <1>1 DEF Cooldown, Goto, EndTick, dbVars
  <2>2. RunTypeOK' /\ BatchesCounted'
    BY <2>1, NoTickTyped DEF RunInv, RunTypeOK, BatchesCounted, redisVars, Pc, TickPc
  <2>3. CASE pc' = "finish" /\ tick' = tick
    BY <2>1, <2>2, <2>3, OverStep DEF OverPc, redisVars, rd
  <2>4. CASE pc' = "idle"
    BY <2>1, <2>2, <2>4, AtRest DEF redisVars
  <2>5. QED
    BY <2>1, <2>3, <2>4
<1>2. CASE FinishDb
  <2>1. /\ pc = "finish" /\ rd \in Rounds
        /\ status[rd] \in {"CRASHED", "FINISHED"} /\ rstate[rd] \in {"CRASHED", "NONE"}
    BY <1>2 DEF FinishDb, RunInv, WorkerKnows, Finds
  <2>2. /\ tick' = tick /\ pc' = "publishFinish"
        /\ status' = [status EXCEPT ![rd] = "FINISHED"]
        /\ UNCHANGED <<redisVars, req, faults>>
    BY <1>2 DEF FinishDb, FinishRound, Goto
  <2>3. RunTypeOK'
    BY <2>2 DEF RunInv, RunTypeOK, redisVars, Pc, TickPc
  <2>4. RedisLags' /\ BatchesCounted'
    BY <2>1, <2>2 DEF RunInv, RedisLags, Agree, BatchesCounted, redisVars, TypeOK
  <2>5. rd' = rd /\ rstate' = rstate /\ status'[rd] = "FINISHED"
    BY <2>1, <2>2 DEF rd, redisVars, TypeOK
  <2>6. WorkerKnows'
    BY <2>1, <2>2, <2>5 DEF WorkerKnows, Finds
  <2>7. QED
    BY <2>3, <2>4, <2>6 DEF RunInv
<1>3. CASE PublishFinish
  <2>1. /\ rd \in Rounds /\ status[rd] = "FINISHED"
        /\ rstate' = [rstate EXCEPT ![rd] = "FINISHED"]
        /\ mult' = [mult EXCEPT ![rd] = 0]
        /\ pc' = "create" /\ tick' = tick
        /\ UNCHANGED <<status, current, settledKey, req, faults>>
    BY <1>3 DEF PublishFinish, Goto, RunInv, WorkerKnows, Finds, dbVars
  <2>2. RunTypeOK'
    BY <2>1, MultiplierAssumption DEF RunInv, RunTypeOK, Pc, TickPc, RoundStatus
  <2>3. RedisLags' /\ BatchesCounted'
    BY <2>1 DEF RunInv, RunTypeOK, RedisLags, Agree, BatchesCounted
  <2>4. WorkerKnows'
    BY <2>1 DEF WorkerKnows, Finds
  <2>5. QED
    BY <2>2, <2>3, <2>4 DEF RunInv
<1>4. QED
  BY <1>1, <1>2, <1>3

LEMMA RunCreate ==
    ASSUME TypeOK, Contiguous, RunInv,
           CreateDb \/ Activate \/ ActivationFails \/ Publish \/ ClearSettled
    PROVE  RunInv'
<1>1. CASE CreateDb
  <2>1. PICK r \in Rounds : CreateRound(r)
    BY <1>1 DEF CreateDb
  <2>2. /\ status[r] = "NONE" /\ status' = [status EXCEPT ![r] = "WAITING"]
        /\ pc' = "activate" /\ tick' = tick
        /\ UNCHANGED <<redisVars, req, faults>>
    BY <1>1, <2>1 DEF CreateDb, CreateRound, Exists, Goto
  <2>3. RunTypeOK'
    BY <2>2 DEF RunInv, RunTypeOK, redisVars, Pc, TickPc
  <2>4. rstate[r] = "NONE"
    BY <2>2 DEF RunInv, RedisLags, Agree
  <2>5. RedisLags' /\ BatchesCounted'
    BY <2>2, <2>4 DEF RunInv, RedisLags, Agree, BatchesCounted, redisVars, TypeOK
  <2>6. NewRound' = r
    <3> DEFINE n == NewRound'
    <3>1. /\ n \in {0} \cup Rounds
          /\ n # 0 => status'[n] \in RoundStatus \ {"NONE"}
          /\ \A q \in Rounds : status'[q] \in RoundStatus \ {"NONE"} =>
               n \in Rounds /\ q <= n
      BY NewestRound DEF NewRound, NewestIn
    <3> HIDE DEF n
    <3>2. status'[r] = "WAITING"
      BY <2>2 DEF TypeOK
    <3>3. n \in Rounds /\ r <= n /\ status'[n] # "NONE"
      BY <3>1, <3>2, RoundNotZero DEF RoundStatus
    <3>4. r \in Int /\ n \in Int
      BY <3>3 DEF Rounds
    <3>5. CASE r < n
      BY <2>2, <3>3, <3>4, <3>5 DEF Contiguous, Exists, TypeOK
    <3>6. QED
      BY <3>3, <3>4, <3>5 DEF n
  <2>7. WorkerKnows'
    BY <2>2, <2>6 DEF WorkerKnows, Finds, TypeOK
  <2>8. QED
    BY <2>3, <2>5, <2>7 DEF RunInv
<1>2. CASE Activate \/ ActivationFails
  <2>1. /\ NewRound \in Rounds /\ status[NewRound] = "WAITING"
        /\ pc' = "publish" /\ tick' = tick
        /\ UNCHANGED <<status, redisVars, req>>
        /\ faults' \in {faults, faults + 1} /\ (faults' # faults => faults < MaxFaults)
    BY <1>2 DEF Activate, ActivationFails, Fault, ActivateQueuedBets, Goto, RunInv,
                WorkerKnows, roundVars, dbVars
  <2>2. RunTypeOK' /\ BatchesCounted'
    BY <2>1, FaultAssumption
       DEF RunInv, RunTypeOK, BatchesCounted, redisVars, Pc, TickPc
  <2>3. RedisLags' /\ NewRound' = NewRound
    BY <2>1 DEF RunInv, RedisLags, redisVars, NewRound, NewestIn
  <2>4. WorkerKnows'
    BY <2>1, <2>3 DEF WorkerKnows, Finds
  <2>5. QED
    BY <2>2, <2>3, <2>4 DEF RunInv
<1>3. CASE Publish
  <2>1. /\ NewRound \in Rounds /\ status[NewRound] = "WAITING"
        /\ current' = NewRound
        /\ rstate' = [rstate EXCEPT ![NewRound] = "WAITING"]
        /\ mult' = [mult EXCEPT ![NewRound] = 1]
        /\ \/ pc' = "clear" /\ tick' = tick
           \/ pc' = "idle" /\ tick' = NoTick
        /\ UNCHANGED <<status, settledKey, req, faults>>
    BY <1>3 DEF Publish, Goto, EndTick, RunInv, WorkerKnows, dbVars
  <2>2. RunTypeOK'
    BY <2>1, NoTickTyped, MultiplierAssumption
       DEF RunInv, RunTypeOK, Pc, TickPc, RoundStatus
  <2>3. RedisLags' /\ BatchesCounted'
    BY <2>1 DEF RunInv, RunTypeOK, RedisLags, Agree, BatchesCounted
  <2>4. WorkerKnows'
    BY <2>1 DEF WorkerKnows, Finds
  <2>5. QED
    BY <2>2, <2>3, <2>4 DEF RunInv
<1>4. CASE ClearSettled
  <2>1. /\ pc' = "idle" /\ tick' = NoTick /\ settledKey' = settledKey \ {rd}
        /\ UNCHANGED <<status, current, rstate, mult, req, faults>>
    BY <1>4 DEF ClearSettled, Goto, EndTick, dbVars
  <2>2. RunTypeOK'
    BY <2>1, NoTickTyped DEF RunInv, RunTypeOK, Pc
  <2>3. QED
    BY <2>1, <2>2, AtRest
<1>5. QED
  BY <1>1, <1>2, <1>3, <1>4

LEMMA RunFault ==
    ASSUME RunInv, WorkerCrash \/ CallThrows \/ RedisFlush
    PROVE  RunInv'
<1>1. faults' \in 0..MaxFaults
  BY FaultAssumption
     DEF WorkerCrash, CallThrows, RedisFlush, Fault, RunInv, RunTypeOK
<1>2. CASE WorkerCrash \/ CallThrows
  <2>1. /\ pc' \in {"down", "idle"} /\ tick' = NoTick
        /\ UNCHANGED <<status, redisVars, req>>
    BY <1>2 DEF WorkerCrash, CallThrows, Goto, EndTick, dbVars
  <2>2. RunTypeOK'
    BY <1>1, <2>1, NoTickTyped DEF RunInv, RunTypeOK, redisVars, Pc, BootPc
  <2>3. QED
    BY <2>1, <2>2, AtRest DEF redisVars
<1>3. CASE RedisFlush
  <2>1. /\ current' = 0 /\ settledKey' = {}
        /\ rstate' = [r \in Rounds |-> "NONE"] /\ mult' = [r \in Rounds |-> 0]
        /\ UNCHANGED <<status, req, pc, tick>>
    BY <1>3 DEF RedisFlush, dbVars, workerVars
  <2>2. RunTypeOK'
    BY <1>1, <2>1, MultiplierAssumption DEF RunInv, RunTypeOK, RoundStatus
  <2>3. RedisLags' /\ BatchesCounted'
    BY <2>1 DEF RunInv, RedisLags, Agree, BatchesCounted
  <2>4. rd' = rd /\ NewRound' = NewRound
    BY <2>1 DEF rd, NewRound, NewestIn
  <2>5. WorkerKnows'
    BY <2>1, <2>4 DEF RunInv, WorkerKnows, Finds
  <2>6. QED
    BY <2>2, <2>3, <2>5 DEF RunInv
<1>4. QED
  BY <1>2, <1>3

LEMMA RunStep == IInv /\ [Next]_vars => RunInv'
<1> SUFFICES ASSUME IInv, [Next]_vars PROVE RunInv'
  OBVIOUS
<1>1. TypeOK /\ Contiguous /\ CrashPoints /\ RunInv
  BY DEF IInv, GameTypeOK, RunInv, RunTypeOK
<1>2. CASE UNCHANGED vars
  <2>1. UNCHANGED <<status, redisVars, workerVars>>
    BY <1>2 DEF vars, dbVars
  <2>2. RunTypeOK'
    BY <1>1, <1>2 DEF RunInv, RunTypeOK, vars, redisVars, workerVars
  <2>3. QED
    BY <1>1, <2>1, <2>2, Bystander
<1>3. CASE Worker
  BY <1>1, <1>3, RunBoot, RunTick, RunStart, RunCrash, RunSettle, RunFinish,
     RunCreate DEF Worker
<1>4. CASE Failure
  BY <1>1, <1>4, RunFault, RunSettle, RunCreate DEF Failure
<1>5. QED
  BY <1>1, <1>2, <1>3, <1>4, RunClient, RunTime DEF Next, Exhausted

-----------------------------------------------------------------------------
(* What a step does to a round's status, and what that means for losses.   *)

LEMMA StatusByWorker ==
    ASSUME TypeOK, RunInv, [Next]_vars
    PROVE  \/ UNCHANGED <<status, crash>>
           \/ pc = "create" /\ pc' = "activate" /\ \E r \in Rounds : CreateRound(r)
           \/ rd \in Rounds /\ \E c \in 2..MaxCrash : StartRound(rd, c)
           \/ /\ rd \in Rounds /\ status[rd] \in {"RUNNING", "CRASHED"}
              /\ \E c \in 2..MaxCrash : CrashRound(rd, c)
           \/ /\ pc = "finish" /\ rd \in Rounds /\ status[rd] \in {"CRASHED", "FINISHED"}
              /\ FinishRound(rd)
<1>1. CASE UNCHANGED vars
  BY <1>1 DEF vars, dbVars
<1>2. ASSUME NEW u \in Users, Client(u) PROVE UNCHANGED <<status, crash>>
  BY <1>2 DEF Client, ResolveCurrentRound, PlaceBet, BetRejected, Cashout, dbVars,
       PlaceBetForCurrentRound, QueueBetForNextRound, CashoutPlayer, roundVars
<1>3. ASSUME NEW r \in Rounds, TimeStep(r) PROVE UNCHANGED <<status, crash>>
  BY <1>3 DEF TimeStep, TimePasses
<1>4. CASE Failure \/ Exhausted
  BY <1>4 DEF Failure, WorkerCrash, CallThrows, ActivationFails,
              RedisFlush, Exhausted, vars, dbVars
<1>5. CASE StartDb
  BY <1>5 DEF StartDb, RunInv, WorkerKnows, Finds, dbVars
<1>6. CASE CrashDb
  BY <1>6 DEF CrashDb, RunInv, WorkerKnows, Finds
<1>7. CASE FinishDb
  BY <1>7 DEF FinishDb, RunInv, WorkerKnows, Finds
<1>8. CASE CreateDb
  BY <1>8 DEF CreateDb, Goto
<1>9. CASE \/ RecoverActiveRound \/ RecoverState \/ ListWallets \/ Repair
           \/ TickNoRound \/ TickWaiting \/ TickMultiplier \/ TickCrashing
           \/ TickCrashed \/ TickFinished
  BY <1>9 DEF RecoverActiveRound, RecoverState, ListWallets, Repair, RepairWallet,
              TickNoRound, TickWaiting, TickMultiplier, TickCrashing, TickCrashed,
              TickFinished, Tick, roundVars, dbVars
<1>10. CASE \/ PublishStart \/ AckStart \/ PublishCrash \/ CheckSettled
            \/ ListBatch \/ SettleOne \/ EndBatch \/ MarkSettled \/ Cooldown
            \/ PublishFinish \/ Activate \/ Publish \/ ClearSettled
  BY <1>10 DEF PublishStart, AckStart, PublishCrash, CheckSettled, ListBatch,
               SettleOne, SettleLoss, EndBatch, MarkSettled, Cooldown,
               PublishFinish, Activate, ActivateQueuedBets, Publish,
               ClearSettled, roundVars, dbVars
<1>11. CASE Worker
  BY <1>5, <1>6, <1>7, <1>8, <1>9, <1>10, <1>11 DEF Worker
<1>12. QED
  BY <1>1, <1>2, <1>3, <1>4, <1>11 DEF Next

LEMMA RankOrder ==
    /\ \A s \in RoundStatus : Rank(s) \in 0..4 /\ Rank(s) <= Rank(s)
    /\ Rank("NONE") = 0 /\ Rank("WAITING") = 1 /\ Rank("RUNNING") = 2
    /\ Rank("CRASHED") = 3 /\ Rank("FINISHED") = 4
    /\ \A s \in RoundStatus : Rank(s) >= 3 => s \in {"CRASHED", "FINISHED"}
  BY DEF Rank, RoundStatus

LEMMA RoundStepHolds ==
    ASSUME TypeOK, CrashPoints, RunInv, [Next]_vars
    PROVE  RoundStep
<1>1. CASE UNCHANGED <<status, crash>>
  BY <1>1, RankOrder DEF RoundStep, TypeOK
<1>2. ASSUME NEW r \in Rounds, NEW s \in RoundStatus,
             status' = [status EXCEPT ![r] = s], Rank(status[r]) <= Rank(s),
             \/ crash' = crash
             \/ \E c : /\ crash' = [crash EXCEPT ![r] = c]
                       /\ crash[r] # 0 => c = crash[r]
      PROVE  RoundStep
  BY <1>2, RankOrder DEF RoundStep, TypeOK
<1>3. ASSUME NEW r \in Rounds, CreateRound(r) PROVE RoundStep
  <2>1. /\ status[r] = "NONE" /\ crash' = crash
        /\ status' = [status EXCEPT ![r] = "WAITING"]
    BY <1>3 DEF CreateRound, Exists
  <2>2. "WAITING" \in RoundStatus /\ Rank(status[r]) <= Rank("WAITING")
    BY <2>1, RankOrder DEF RoundStatus
  <2>3. QED
    BY <1>2, <2>1, <2>2
<1>4. ASSUME NEW r \in Rounds, NEW c \in 2..MaxCrash, StartRound(r, c) PROVE RoundStep
  <2>1. /\ status[r] = "WAITING" /\ crash' = [crash EXCEPT ![r] = c]
        /\ status' = [status EXCEPT ![r] = "RUNNING"] /\ crash[r] = 0
    BY <1>4 DEF StartRound, CrashPoints
  <2>2. "RUNNING" \in RoundStatus /\ Rank(status[r]) <= Rank("RUNNING")
    BY <2>1, RankOrder DEF RoundStatus
  <2>3. QED
    BY <1>2, <2>1, <2>2
<1>5. ASSUME NEW r \in Rounds, NEW c \in 2..MaxCrash, CrashRound(r, c),
             status[r] \in {"RUNNING", "CRASHED"}
      PROVE  RoundStep
  <2>1. /\ crash' = [crash EXCEPT ![r] = c] /\ (crash[r] # 0 => c = crash[r])
        /\ status' = [status EXCEPT ![r] = "CRASHED"]
    BY <1>5 DEF CrashRound
  <2>2. "CRASHED" \in RoundStatus /\ Rank(status[r]) <= Rank("CRASHED")
    BY <1>5, RankOrder DEF RoundStatus
  <2>3. QED
    BY <1>2, <2>1, <2>2
<1>6. ASSUME NEW r \in Rounds, FinishRound(r), status[r] \in {"CRASHED", "FINISHED"}
      PROVE  RoundStep
  <2>1. crash' = crash /\ status' = [status EXCEPT ![r] = "FINISHED"]
    BY <1>6 DEF FinishRound
  <2>2. "FINISHED" \in RoundStatus /\ Rank(status[r]) <= Rank("FINISHED")
    BY <1>6, RankOrder DEF RoundStatus
  <2>3. QED
    BY <1>2, <2>1, <2>2
<1>7. QED
  BY <1>1, <1>3, <1>4, <1>5, <1>6, StatusByWorker

\* Whoever loses a bet in this step loses it in a round that is over.
LEMMA LossByStep ==
    ASSUME TypeOK, RunInv, [Next]_vars, NEW r \in Rounds, NEW u \in Users,
           player'[r][u] = "LOST", player[r][u] # "LOST"
    PROVE  status[r] \in {"CRASHED", "FINISHED"}
<1>1. ASSUME UNCHANGED player PROVE FALSE
  BY <1>1
<1>2. CASE UNCHANGED vars
  BY <1>1, <1>2 DEF vars, dbVars
<1>3. ASSUME NEW v \in Users, Client(v) PROVE FALSE
  <2>1. ASSUME NEW q \in Rounds, NEW s \in {"BET_PLACED", "CASHED_OUT"},
               player' = [player EXCEPT ![q][v] = s]
        PROVE  FALSE
    BY <2>1 DEF TypeOK
  <2>2. CASE ResolveCurrentRound(v) \/ BetRejected(v)
    BY <1>1, <2>2 DEF ResolveCurrentRound, BetRejected, dbVars
  <2>3. CASE PlaceBet(v)
    <3>1. req[v].round \in Rounds
      BY <2>3 DEF PlaceBet, RunInv, RunTypeOK, Request
    <3>2. UNCHANGED player \/ player' = [player EXCEPT ![req[v].round][v] = "BET_PLACED"]
      BY <2>3 DEF PlaceBet, PlaceBetForCurrentRound, QueueBetForNextRound, betVars
    <3>3. QED
      BY <1>1, <2>1, <3>1, <3>2
  <2>4. CASE Cashout(v)
    BY <2>1, <2>4 DEF Cashout, CashoutPlayer, Resolve
  <2>5. QED
    BY <1>3, <2>2, <2>3, <2>4 DEF Client
<1>4. ASSUME NEW q \in Rounds, TimeStep(q) PROVE FALSE
  BY <1>1, <1>4 DEF TimeStep, TimePasses, betVars
<1>5. CASE Failure \/ Exhausted
  BY <1>1, <1>5 DEF Failure, WorkerCrash, CallThrows, ActivationFails,
                    RedisFlush, Exhausted, vars, dbVars
<1>6. CASE Repair
  <2>1. CASE UNCHANGED dbVars
    BY <1>1, <2>1 DEF dbVars
  <2>2. ASSUME NEW v, RepairWallet(v) PROVE status[r] \in {"CRASHED", "FINISHED"}
    <3> DEFINE stale == StaleBets(v)
    <3>1. player' = [q \in Rounds |->
            IF q \in stale THEN [player[q] EXCEPT ![v] = "LOST"] ELSE player[q]]
      BY <2>2 DEF RepairWallet
    <3>2. r \in stale
      <4> HIDE DEF stale
      <4> QED
        BY <3>1
    <3>3. QED
      BY <3>2 DEF StaleBets, BetsOf
  <2>3. QED
    BY <1>6, <2>1, <2>2 DEF Repair
<1>7. CASE SettleOne
  <2>1. rd \in Rounds /\ status[rd] \in {"CRASHED", "FINISHED"}
    BY <1>7 DEF SettleOne, RunInv, WorkerKnows, Finds
  <2>2. ASSUME r # rd PROVE FALSE
    <3>1. UNCHANGED player \/ \E v : player' = [player EXCEPT ![rd][v] = "LOST"]
      BY <1>7 DEF SettleOne, SettleLoss, Resolve, dbVars
    <3>2. QED
      BY <1>1, <2>1, <2>2, <3>1 DEF TypeOK
  <2>3. QED
    BY <2>1, <2>2
<1>8. CASE Activate
  <2>1. NewRound \in Rounds
    BY <1>8 DEF Activate, RunInv, WorkerKnows
  <2>2. \E accepted : player' = [player EXCEPT ![NewRound] = [v \in Users |->
                        IF v \in accepted THEN "BET_PLACED" ELSE player[NewRound][v]]]
    BY <1>8, <2>1 DEF Activate, ActivateQueuedBets, TypeOK
  <2>3. QED
    BY <2>1, <2>2 DEF TypeOK
<1>9. CASE \/ RecoverActiveRound \/ RecoverState \/ ListWallets
           \/ TickNoRound \/ TickWaiting \/ TickMultiplier \/ TickCrashing
           \/ TickCrashed \/ TickFinished
  BY <1>1, <1>9 DEF RecoverActiveRound, RecoverState, ListWallets, TickNoRound,
              TickWaiting, TickMultiplier, TickCrashing, TickCrashed, TickFinished,
              Tick, dbVars
<1>10. CASE \/ PublishStart \/ AckStart \/ PublishCrash \/ CheckSettled
            \/ ListBatch \/ EndBatch \/ MarkSettled \/ Cooldown
            \/ PublishFinish \/ Publish \/ ClearSettled
  BY <1>1, <1>10 DEF PublishStart, AckStart, PublishCrash, CheckSettled, ListBatch,
               EndBatch, MarkSettled, Cooldown, PublishFinish, Publish,
               ClearSettled, dbVars
<1>11. CASE StartDb \/ CrashDb \/ FinishDb \/ CreateDb
  BY <1>1, <1>11 DEF StartDb, StartRound, CrashDb, CrashRound, FinishDb,
               FinishRound, CreateDb, CreateRound, betVars, dbVars
<1>12. CASE Worker
  BY <1>6, <1>7, <1>8, <1>9, <1>10, <1>11, <1>12 DEF Worker
<1>13. QED
  BY <1>2, <1>3, <1>4, <1>5, <1>12 DEF Next

LEMMA LossesKept ==
    ASSUME TypeOK, TypeOK', RunInv, NoLossBeforeCrash, RoundStep, [Next]_vars
    PROVE  NoLossBeforeCrash'
<1> SUFFICES ASSUME NEW r \in Rounds, NEW u \in Users, player'[r][u] = "LOST"
             PROVE  status'[r] \in {"CRASHED", "FINISHED"}
  BY DEF NoLossBeforeCrash
<1>1. status[r] \in {"CRASHED", "FINISHED"}
  BY LossByStep DEF NoLossBeforeCrash
<1>2. status[r] \in RoundStatus /\ status'[r] \in RoundStatus
  BY DEF TypeOK
<1>3. Rank(status[r]) = 3 \/ Rank(status[r]) = 4
  BY <1>1, RankOrder
<1>4. Rank(status'[r]) >= 3
  <2>1. Rank(status[r]) <= Rank(status'[r]) /\ Rank(status'[r]) \in 0..4
    BY <1>2, RankOrder DEF RoundStep
  <2>2. QED
    BY <1>3, <2>1
<1>5. QED
  BY <1>2, <1>4, RankOrder

-----------------------------------------------------------------------------
(* The theorems.                                                           *)

LEMMA InvInit == GameInit => IInv
<1> SUFFICES ASSUME GameInit PROVE IInv
  OBVIOUS
<1>1. TypeOK
  BY TypeInit DEF GameInit
<1>2. RunTypeOK
  BY NoTickTyped, FaultAssumption, MultiplierAssumption
     DEF GameInit, RunTypeOK, RoundStatus, Request, Pc, BootPc
<1>3. Contiguous /\ CrashPoints /\ NoLossBeforeCrash
  BY MultiplierAssumption
     DEF GameInit, Init, Contiguous, Exists, CrashPoints, NoLossBeforeCrash
<1>4. RedisLags /\ WorkerKnows /\ BatchesCounted
  BY DEF GameInit, RedisLags, Agree, WorkerKnows, Finds, BatchesCounted
<1>5. QED
  BY <1>1, <1>2, <1>3, <1>4 DEF IInv, GameTypeOK, RunTypeOK

LEMMA InvStep == IInv /\ [Next]_vars => IInv'
<1> SUFFICES ASSUME IInv, [Next]_vars PROVE IInv'
  OBVIOUS
<1>1. TypeOK /\ Contiguous /\ CrashPoints /\ RunInv /\ NoLossBeforeCrash
  BY DEF IInv, GameTypeOK, RunInv, RunTypeOK
<1>2. [DbNext]_dbVars
  BY DbStep
<1>3. TypeOK'
  BY <1>1, <1>2, TypeStep
<1>4. Contiguous' /\ CrashPoints'
  BY <1>1, <1>2, RoundsKept
<1>5. RunInv'
  BY RunStep
<1>6. NoLossBeforeCrash'
  BY <1>1, <1>3, LossesKept, RoundStepHolds
<1>7. QED
  BY <1>3, <1>4, <1>5, <1>6 DEF IInv, GameTypeOK, RunInv, RunTypeOK

\* The worker's next call, Redis and the database agree at every step, and
\* all of them stay in their types: no tick, crash, error or lost Redis key
\* brings the worker to a call its round is not ready for.
THEOREM Invariant == Spec => []IInv
<1>1. GameInit => IInv
  BY InvInit
<1>2. IInv /\ [Next]_vars => IInv'
  BY InvStep
<1>3. QED
  BY <1>1, <1>2, PTL DEF Spec

\* In the running system no wallet or bankroll is overdrawn, and Redis, the
\* requests and the worker's locals hold only what the code puts there.
THEOREM GameTypeCorrect == Spec => []GameTypeOK
<1>1. IInv => GameTypeOK
  BY DEF IInv
<1>2. QED
  BY <1>1, Invariant, PTL

\* The running system implements the database of GameDb.
THEOREM ImplementsDb == Spec => DbSpec
<1>1. GameInit => Init
  BY DEF GameInit
<1>2. IInv /\ [Next]_vars => [DbNext]_dbVars
  BY DbStep
<1>3. QED
  BY <1>1, <1>2, Invariant, PTL DEF Spec, DbSpec

\* So in the running system too a bet has one outcome, whatever fails.
THEOREM GameOneOutcome == Spec => []OneOutcomePerBet
  BY ImplementsDb, OneOutcome, PTL

\* Nor is a queued stake lost on the way, whatever fails: not by a crash
\* between the insertion of a round and the activation of the queue.
THEOREM GameQueueConsumed == Spec => QueueConsumedOnce
  BY ImplementsDb, QueueConsumed, PTL

\* Nor does the running game accept a stake beyond the round's share of the
\* bankroll, at the multiplier it reckons with.
THEOREM GameStakesWithinCap == Spec => StakesAcceptedWithinCap
  BY ImplementsDb, StakesWithinCap, PTL

\* Redis never runs ahead of the database, whatever fails.
THEOREM RedisFollows == Spec => []RedisNeverAhead
<1>1. IInv => RedisNeverAhead
  <2> SUFFICES ASSUME IInv, NEW r \in Rounds PROVE Rank(rstate[r]) <= Rank(status[r])
    BY DEF RedisNeverAhead
  <2>1. Agree(rstate[r], status[r]) /\ status[r] \in RoundStatus
    BY DEF IInv, RedisLags, GameTypeOK, TypeOK
  <2>2. QED
    BY <2>1, RankOrder DEF Agree
<1>2. QED
  BY <1>1, Invariant, PTL

\* No tick settles losses for a round that has not crashed, whatever fails.
THEOREM LossesAfterCrash == Spec => []NoLossBeforeCrash
<1>1. IInv => NoLossBeforeCrash
  BY DEF IInv
<1>2. QED
  BY <1>1, Invariant, PTL

\* No round goes back, and none is given a second crash point.
THEOREM RoundsAdvance == Spec => RoundsOnlyAdvance
<1>1. IInv /\ [Next]_vars => [RoundStep]_vars
  BY RoundStepHolds DEF IInv, GameTypeOK, RunInv, RunTypeOK
<1>2. QED
  BY <1>1, Invariant, PTL DEF Spec, RoundsOnlyAdvance

\* In the running system too a lock is the stakes it stands for.
THEOREM GameLocksMatch == Spec => []LockedMatchesUnresolved
  BY ImplementsDb, LocksMatch, PTL

\* And the ledgers explain every balance, whatever fails.
THEOREM GameLedgerExplains == Spec => []LedgerExplainsMoney
  BY ImplementsDb, LedgerExplains, PTL

-----------------------------------------------------------------------------
(* The escrow.  Every transaction of the running system is one of its      *)
(* steps, or changes nothing of what it sees.                              *)

\* The transactions, with what the running system knows of the round.
KnowingNext ==
    \/ \E r \in Rounds :
          \/ CreateRound(r)
          \/ status[r] \in Over /\ FinishRound(r)
          \/ status[r] = "WAITING" /\ ActivateQueuedBets(r)
          \/ \E c \in 2..MaxCrash :
                \/ StartRound(r, c)
                \/ status[r] \in {"RUNNING", "CRASHED"} /\ CrashRound(r, c)
    \/ \E r \in Rounds, u \in Users :
          \/ status[r] \in Over /\ SettleLoss(r, u)
          \/ \E a \in Stakes : PlaceBetForCurrentRound(r, u, a)
                               \/ QueueBetForNextRound(r, u, a)
          \/ \E m \in 1..MaxCrash : CashoutPlayer(r, u, m)
    \/ \E u \in Users : RepairWallet(u)

LEMMA KnowingStep ==
    IInv /\ [Next]_vars
      => \/ KnowingNext
         \/ UNCHANGED <<status, player, stake, queued, balance, house>>
<1> SUFFICES ASSUME GameTypeOK, CrashPoints, WorkerKnows, [Next]_vars
             PROVE  \/ KnowingNext
                    \/ UNCHANGED <<status, player, stake, queued, balance, house>>
  BY DEF IInv
<1>0. ASSUME UNCHANGED dbVars
      PROVE  UNCHANGED <<status, player, stake, queued, balance, house>>
  BY <1>0 DEF dbVars
<1>1. CASE UNCHANGED vars
  BY <1>0, <1>1 DEF vars
<1>2. ASSUME NEW u \in Users, Client(u) PROVE KnowingNext \/ UNCHANGED dbVars
  <2>1. CASE ResolveCurrentRound(u) \/ BetRejected(u)
    BY <2>1 DEF ResolveCurrentRound, BetRejected
  <2>2. CASE PlaceBet(u)
    <3>1. req[u].round \in Rounds
      BY <2>2 DEF PlaceBet, GameTypeOK, Request
    <3>2. QED
      BY <2>2, <3>1 DEF PlaceBet, KnowingNext
  <2>3. CASE Cashout(u)
    BY <2>3, LiveMultiplierBounded DEF Cashout, KnowingNext
  <2>4. QED
    BY <1>2, <2>1, <2>2, <2>3 DEF Client
<1>3. ASSUME NEW r \in Rounds, TimeStep(r)
      PROVE  UNCHANGED <<status, player, stake, queued, balance, house>>
  BY <1>3 DEF TimeStep, TimePasses, betVars, queueVars, moneyVars
<1>4. CASE Worker
  <2>1. CASE Repair
    <3>1. tick.todo \subseteq Users
      BY DEF GameTypeOK, Locals
    <3>2. UNCHANGED dbVars \/ \E u \in Users : RepairWallet(u)
      BY <2>1, <3>1 DEF Repair
    <3> QED
      BY <1>0, <3>2 DEF KnowingNext
  <2>2. CASE StartDb
    <3>1. rd \in Rounds
      BY <2>2 DEF StartDb, WorkerKnows, Finds
    <3>2. UNCHANGED dbVars \/ \E c \in 2..MaxCrash : StartRound(rd, c)
      BY <2>2 DEF StartDb
    <3> QED
      BY <1>0, <3>1, <3>2 DEF KnowingNext
  <2>3. CASE CrashDb
    <3>1. rd \in Rounds /\ status[rd] \in {"RUNNING", "CRASHED"}
      BY <2>3 DEF CrashDb, WorkerKnows, Finds
    <3>2. \E c \in 2..MaxCrash : CrashRound(rd, c)
      BY <2>3 DEF CrashDb
    <3> QED
      BY <3>1, <3>2 DEF KnowingNext
  <2>4. CASE SettleOne
    <3>1. rd \in Rounds /\ status[rd] \in Over /\ tick.todo \subseteq Users
      BY <2>4 DEF SettleOne, WorkerKnows, Finds, Over, GameTypeOK, Locals
    <3>2. UNCHANGED dbVars \/ \E u \in Users : SettleLoss(rd, u)
      BY <2>4, <3>1 DEF SettleOne
    <3> QED
      BY <1>0, <3>1, <3>2 DEF KnowingNext
  <2>5. CASE FinishDb
    BY <2>5 DEF FinishDb, KnowingNext, WorkerKnows, Finds, Over
  <2>6. CASE CreateDb
    BY <2>6 DEF CreateDb, KnowingNext
  <2>7. CASE Activate
    BY <2>7 DEF Activate, KnowingNext, WorkerKnows
  <2>8. CASE \/ RecoverActiveRound \/ RecoverState \/ ListWallets
             \/ TickNoRound \/ TickWaiting \/ TickMultiplier \/ TickCrashing
             \/ TickCrashed \/ TickFinished
    <3>1. UNCHANGED dbVars
      BY <2>8 DEF RecoverActiveRound, RecoverState, ListWallets, TickNoRound,
                  TickWaiting, TickMultiplier, TickCrashing, TickCrashed,
                  TickFinished, Tick
    <3> QED
      BY <1>0, <3>1
  <2>9. CASE \/ PublishStart \/ AckStart \/ PublishCrash \/ CheckSettled
             \/ ListBatch \/ EndBatch \/ MarkSettled \/ Cooldown
             \/ PublishFinish \/ Publish \/ ClearSettled
    <3>1. UNCHANGED dbVars
      BY <2>9 DEF PublishStart, AckStart, PublishCrash, CheckSettled, ListBatch,
                  EndBatch, MarkSettled, Cooldown, PublishFinish, Publish,
                  ClearSettled
    <3> QED
      BY <1>0, <3>1
  <2>10. QED
    BY <1>4, <2>1, <2>2, <2>3, <2>4, <2>5, <2>6, <2>7, <2>8, <2>9 DEF Worker
<1>5. CASE Failure \/ Exhausted
  BY <1>0, <1>5 DEF Failure, WorkerCrash, CallThrows, ActivationFails,
                    RedisFlush, Exhausted, vars
<1>6. QED
  BY <1>0, <1>1, <1>2, <1>3, <1>4, <1>5 DEF Next

\* The refinement mapping, under names: the stage of a round in each state,
\* and the claims of a player.
StageOf(s) == CASE s = "NONE" -> "none" [] s = "WAITING" -> "betting"
                [] s = "RUNNING" -> "flying" [] OTHER -> "over"
Stages == [r \in Rounds |-> StageOf(status[r])]
ClaimOf(u, k) ==
    IF k = 0 THEN queued[u] ELSE IF StillPlaced(k, u) THEN stake[k][u] ELSE 0
Claims == [u \in Users |-> [k \in {0} \cup Rounds |-> ClaimOf(u, k)]]

LEMMA SlotsOf ==
    /\ Escrow!Rounds = Rounds /\ Escrow!Queue = 0
    /\ Escrow!Slots = {0} \cup Rounds /\ 0 \notin Rounds
    /\ IsFiniteSet({0} \cup Rounds)
<1>1. Escrow!Rounds = Rounds /\ Escrow!Queue = 0 /\ Escrow!Slots = {0} \cup Rounds
  BY DEF Escrow!Rounds, Escrow!Queue, Escrow!Slots, Rounds
<1>2. IsFiniteSet(Rounds \cup {0})
  BY RoundsFinite, FS_AddElement
<1> QED
  BY <1>1, <1>2, RoundNotZero

\* The sums of the escrow are the sums of the database.
LEMMA EscrowSum ==
    ASSUME NEW f, NEW S
    PROVE  Escrow!SumFunctionOnSet(f, S) = SumFunctionOnSet(f, S)
  BY DEF Escrow!SumFunctionOnSet, Escrow!FoldFunctionOnSet, Escrow!MapThenFoldSet,
         SumFunctionOnSet, FoldFunctionOnSet, MapThenFoldSet

\* What a player may stake, as the escrow counts it, is what is not locked.
LEMMA FreeIsAvailable ==
    ASSUME TypeOK, LocksInv, NEW u \in Users
    PROVE  Escrow!Free(u) = Available(u)
<1> DEFINE c == Claims[u]
           m == Column(stake, u)
           B == BetsHeld(u)
<1>1. Escrow!Free(u) = balance[u] - SumFunctionOnSet(c, {0} \cup Rounds)
  BY SlotsOf, EscrowSum DEF Escrow!Free, Claims, ClaimOf
<1>2. /\ B \in SUBSET Rounds /\ Rounds \in SUBSET Rounds /\ Rounds \ B \in SUBSET Rounds
      /\ \A r \in Rounds : stake[r][u] \in Nat
      /\ queued[u] \in Nat
  BY DEF BetsHeld, TypeOK
<1>3. /\ c[0] = queued[u]
      /\ \A r \in B : c[r] = m[r]
      /\ \A r \in Rounds \ B : c[r] = 0
      /\ \A k \in {0} \cup Rounds : c[k] \in Int
  BY <1>2, RoundNotZero DEF Claims, ClaimOf, Column, BetsHeld
<1>4. IsFiniteSet(B) /\ Numbers(m, B) /\ SumFunctionOnSet(m, B) \in Nat
  BY <1>2, ColumnSum
<1>5. IsFiniteSet(Rounds) /\ IsFiniteSet(Rounds \ B)
  BY <1>2, RoundsFinite
<1>6. SumFunctionOnSet(m, B) = Held(u)
  BY DEF Held
<1> HIDE DEF c, m, B
<1>7. Numbers(c, {0} \cup Rounds) /\ Numbers(c, Rounds)
  BY <1>3 DEF Numbers
<1>8. SumFunctionOnSet(c, {0} \cup Rounds) = c[0] + SumFunctionOnSet(c, Rounds)
  <2> DEFINE S == {0} \cup Rounds
  <2>1. 0 \in S /\ S \ {0} = Rounds /\ IsFiniteSet(S) /\ Numbers(c, S)
    BY <1>7, SlotsOf
  <2> HIDE DEF S
  <2>2. SumFunctionOnSet(c, S) = c[0] + SumFunctionOnSet(c, S \ {0})
    BY <2>1, SumWithout
  <2> QED
    BY <2>1, <2>2 DEF S
<1>9. SumFunctionOnSet(c, Rounds) = SumFunctionOnSet(c, B) + SumFunctionOnSet(c, Rounds \ B)
  BY <1>2, <1>5, <1>7, SumParts
<1>10. SumFunctionOnSet(c, Rounds \ B) = 0
  BY <1>3, <1>5, SumZero
<1>11. SumFunctionOnSet(c, B) = SumFunctionOnSet(m, B)
  BY <1>3, <1>4, SumSame
<1>12. SumFunctionOnSet(c, {0} \cup Rounds) = Held(u) + queued[u]
  BY <1>2, <1>3, <1>4, <1>6, <1>8, <1>9, <1>10, <1>11
<1>13. locked[u] = Held(u) + queued[u]
  BY LockedIsHeld DEF LocksInv
<1> QED
  BY <1>1, <1>12, <1>13 DEF Available

\* A step that keeps the claims, and moves at most one round to its next stage.
LEMMA EscrowAdvance ==
    ASSUME TypeOK, NEW r \in Rounds, NEW s \in RoundStatus \ {"NONE"},
           status' = [status EXCEPT ![r] = s],
           UNCHANGED <<player, stake, queued, balance, house>>,
           \/ status[r] = "NONE" /\ s = "WAITING"
           \/ status[r] = "WAITING" /\ s = "RUNNING"
           \/ status[r] = "RUNNING" /\ s = "CRASHED"
           \/ status[r] \in Over /\ s \in Over
    PROVE  [Escrow!Next]_(Escrow!vars)
<1>1. Claims' = Claims /\ balance' = balance /\ house' = house
  BY DEF Claims, ClaimOf, StillPlaced
<1>2. Stages' = [Stages EXCEPT ![r] = StageOf(s)]
  BY DEF Stages, TypeOK
<1>3. CASE status[r] \in Over
  <2>1. StageOf(status[r]) = StageOf(s)
    BY <1>3 DEF StageOf, Over
  <2>2. Stages' = Stages
    BY <1>2, <2>1 DEF Stages
  <2> QED
    BY <1>1, <2>2 DEF Escrow!vars, Claims, ClaimOf, Stages, StageOf
<1>4. CASE status[r] \notin Over
  <2>1. PICK i \in 1..3 : /\ Stages[r] = Escrow!Stage[i]
                          /\ StageOf(s) = Escrow!Stage[i + 1]
    <3>1. Escrow!Stage = <<"none", "betting", "flying", "over">>
      BY DEF Escrow!Stage
    <3>2. CASE status[r] = "NONE"
      <4>1. Stages[r] = Escrow!Stage[1] /\ StageOf(s) = Escrow!Stage[1 + 1] /\ 1 \in 1..3
        BY <3>1, <3>2, <1>4 DEF Stages, StageOf, Over
      <4> QED
        BY <4>1
    <3>3. CASE status[r] = "WAITING"
      <4>1. Stages[r] = Escrow!Stage[2] /\ StageOf(s) = Escrow!Stage[2 + 1] /\ 2 \in 1..3
        BY <3>1, <3>3, <1>4 DEF Stages, StageOf, Over
      <4> QED
        BY <4>1
    <3>4. CASE status[r] = "RUNNING"
      <4>1. Stages[r] = Escrow!Stage[3] /\ StageOf(s) = Escrow!Stage[3 + 1] /\ 3 \in 1..3
        BY <3>1, <3>4, <1>4 DEF Stages, StageOf, Over
      <4> QED
        BY <4>1
    <3> QED
      BY <1>4, <3>2, <3>3, <3>4
  <2>2. Stages' = [Stages EXCEPT ![r] = Escrow!Stage[i + 1]]
    BY <1>2, <2>1
  <2>3. Escrow!Advance(r)
    BY <1>1, <2>1, <2>2 DEF Escrow!Advance, Claims, ClaimOf, Stages, StageOf
  <2> QED
    BY <2>3, SlotsOf DEF Escrow!Next
<1> QED
  BY <1>3, <1>4

\* A stake taken from the player's free funds.
LEMMA EscrowHold ==
    ASSUME TypeOK, LocksInv, NEW u \in Users, NEW k \in {0} \cup Rounds,
           NEW a \in Stakes, a <= Available(u), ClaimOf(u, k) = 0,
           \A v \in Users, j \in {0} \cup Rounds :
              ClaimOf(v, j)' = IF v = u /\ j = k THEN a ELSE ClaimOf(v, j),
           UNCHANGED <<status, balance, house>>,
           IF k = 0 THEN \E r \in Rounds : status[r] = "RUNNING"
                    ELSE status[k] = "WAITING"
    PROVE  Escrow!Next
<1>1. Claims[u][k] = 0 /\ Claims' = [Claims EXCEPT ![u][k] = a]
  BY DEF Claims
<1>2. a \in 1..Escrow!Free(u)
  <2>1. Available(u) \in Int /\ a \in Nat /\ a > 0
    BY StakesAssumption DEF Available, TypeOK
  <2> QED
    BY <2>1, FreeIsAvailable
<1>3. Stages' = Stages /\ balance' = balance /\ house' = house
  BY DEF Stages
<1>4. IF k = 0 THEN \E r \in Rounds : Stages[r] = "flying" ELSE Stages[k] = "betting"
  BY DEF Stages, StageOf
<1>5. Escrow!Hold(u, k)
  BY <1>1, <1>2, <1>3, <1>4, SlotsOf
     DEF Escrow!Hold, Claims, ClaimOf, Stages, StageOf
<1> QED
  BY <1>5, SlotsOf DEF Escrow!Next

LEMMA EscrowPlaceBet ==
    ASSUME TypeOK, LocksInv, NEW r \in Rounds, NEW u \in Users, NEW a \in Stakes,
           PlaceBetForCurrentRound(r, u, a)
    PROVE  Escrow!Next
<1>1. /\ status[r] = "WAITING" /\ a <= Available(u) /\ player[r][u] = "NONE"
      /\ \A q \in Rounds, v \in Users :
           /\ player'[q][v] = IF q = r /\ v = u THEN "BET_PLACED" ELSE player[q][v]
           /\ stake'[q][v] = IF q = r /\ v = u THEN a ELSE stake[q][v]
      /\ UNCHANGED <<status, queued, balance, house>>
  BY DEF PlaceBetForCurrentRound, TypeOK, MoveFunds, roundVars, queueVars
<1>2. r # 0 /\ r \in {0} \cup Rounds
  BY RoundNotZero
<1>3. /\ ClaimOf(u, r) = 0
      /\ \A v \in Users, j \in {0} \cup Rounds :
           ClaimOf(v, j)' = IF v = u /\ j = r THEN a ELSE ClaimOf(v, j)
  BY <1>1, <1>2 DEF ClaimOf, StillPlaced
<1> QED
  BY <1>1, <1>2, <1>3, EscrowHold

LEMMA EscrowQueueBet ==
    ASSUME TypeOK, LocksInv, NEW r \in Rounds, NEW u \in Users, NEW a \in Stakes,
           QueueBetForNextRound(r, u, a)
    PROVE  Escrow!Next
<1>1. /\ status[r] = "RUNNING" /\ a <= Available(u) /\ queued[u] = 0
      /\ \A v \in Users : queued'[v] = IF v = u THEN a ELSE queued[v]
      /\ UNCHANGED <<status, player, stake, balance, house>>
  BY DEF QueueBetForNextRound, TypeOK, MoveFunds, roundVars, betVars
<1>2. /\ ClaimOf(u, 0) = 0
      /\ \A v \in Users, j \in {0} \cup Rounds :
           ClaimOf(v, j)' = IF v = u /\ j = 0 THEN a ELSE ClaimOf(v, j)
  BY <1>1 DEF ClaimOf, StillPlaced
<1>3. 0 \in {0} \cup Rounds
  OBVIOUS
<1> QED
  BY <1>1, <1>2, <1>3, EscrowHold

\* The queue is served to the round that takes bets.
LEMMA EscrowServe ==
    ASSUME TypeOK, NEW r \in Rounds, status[r] = "WAITING", ActivateQueuedBets(r)
    PROVE  Escrow!Next
<1>1. PICK accepted \in SUBSET InQueue :
        /\ Accepts(r, accepted)
        /\ player' = [player EXCEPT ![r] = [u \in Users |->
                        IF u \in accepted THEN "BET_PLACED" ELSE player[r][u]]]
        /\ stake' = [stake EXCEPT ![r] = [u \in Users |->
                        IF u \in accepted THEN queued[u] ELSE stake[r][u]]]
  BY DEF ActivateQueuedBets
<1>2. /\ queued' = [u \in Users |-> 0]
      /\ UNCHANGED <<status, balance, house>>
  BY DEF ActivateQueuedBets, roundVars
<1>3. r # 0
  BY RoundNotZero
<1>4. \A u \in accepted : u \in Users /\ queued[u] > 0 /\ player[r][u] = "NONE"
  BY <1>1 DEF Accepts, InQueue
<1>5. \A u \in Users, j \in {0} \cup Rounds :
        ClaimOf(u, j)' = IF j = 0 THEN 0
                         ELSE IF j = r /\ u \in accepted THEN ClaimOf(u, 0)
                         ELSE ClaimOf(u, j)
  <2> TAKE u \in Users, j \in {0} \cup Rounds
  <2>1. CASE j = 0
    BY <1>2, <2>1 DEF ClaimOf
  <2>2. CASE j = r
    <3>1. /\ player'[r][u] = IF u \in accepted THEN "BET_PLACED" ELSE player[r][u]
          /\ stake'[r][u] = IF u \in accepted THEN queued[u] ELSE stake[r][u]
      BY <1>1 DEF TypeOK
    <3> QED
      BY <1>3, <2>2, <3>1 DEF ClaimOf, StillPlaced
  <2>3. CASE j \in Rounds \ {r}
    <3>1. player'[j] = player[j] /\ stake'[j] = stake[j]
      BY <1>1, <2>3 DEF TypeOK
    <3> QED
      BY <2>3, <3>1, RoundNotZero DEF ClaimOf, StillPlaced
  <2> QED
    BY <2>1, <2>2, <2>3
<1>6. Claims' = [u \in Users |-> [k \in {0} \cup Rounds |->
                   IF k = 0 THEN 0
                   ELSE IF k = r /\ u \in accepted THEN Claims[u][0]
                   ELSE Claims[u][k]]]
  BY <1>5 DEF Claims
<1>7. Stages' = Stages /\ balance' = balance /\ house' = house /\ Stages[r] = "betting"
  BY <1>2 DEF Stages, StageOf
<1>8. accepted \in SUBSET {u \in {v \in Users : Claims[v][0] > 0} : Claims[u][r] = 0}
  BY <1>3, <1>4 DEF Claims, ClaimOf, StillPlaced
<1>9. Escrow!Serve(r)
  <2>1. Escrow!Waiting = {v \in Users : Claims[v][0] > 0}
    BY SlotsOf DEF Escrow!Waiting, Claims, ClaimOf
  <2>2. \E moved \in SUBSET {u \in Escrow!Waiting : Claims[u][r] = 0} :
          Claims' = [u \in Users |-> [k \in Escrow!Slots |->
                       IF k = Escrow!Queue THEN 0
                       ELSE IF k = r /\ u \in moved THEN Claims[u][Escrow!Queue]
                       ELSE Claims[u][k]]]
    BY <1>6, <1>8, <2>1, SlotsOf
  <2> QED
    BY <1>7, <2>2 DEF Escrow!Serve, Claims, ClaimOf, Stages, StageOf
<1> QED
  BY <1>9, SlotsOf DEF Escrow!Next

\* A win is paid while the round flies, out of what the house has.
LEMMA EscrowWin ==
    ASSUME DbInv, NEW r \in Rounds, NEW u \in Users, NEW m \in 1..MaxCrash,
           CashoutPlayer(r, u, m)
    PROVE  Escrow!Next
<1> DEFINE p == Profit(r, u, m)
<1>1. /\ TypeOK /\ player[r][u] = "BET_PLACED" /\ stake[r][u] \in Nat /\ stake[r][u] > 0
      /\ ~Recorded(houseLedger, "BET_WIN", r, u)
  BY DEF DbInv, CashoutPlayer, Resolve, StillPlaced, StakesPositive, OneOutcomePerBet,
         TypeOK
<1>2. p \in Nat
  <2>1. stake[r][u] * m \in Nat /\ stake[r][u] * m >= stake[r][u]
    BY <1>1, MultiplierAssumption
  <2> QED
    BY <1>1, <2>1 DEF Profit
<1>3. /\ status[r] = "RUNNING" /\ UNCHANGED <<status, stake, queued>>
      /\ player' = [player EXCEPT ![r][u] = "CASHED_OUT"]
      /\ balance' = [balance EXCEPT ![u] = balance[u] + p]
  BY DEF CashoutPlayer, CashoutOpen, Resolve, MoveFunds, roundVars, queueVars
<1>4. IF p > 0 THEN MutateHouse("BET_WIN", r, u, -p) ELSE house' = house
  BY DEF CashoutPlayer
<1> HIDE DEF p
<1>5. p \in 0..house /\ house' = house - p
  <2>1. house \in Nat
    BY <1>1 DEF TypeOK
  <2>2. CASE p > 0
    BY <1>1, <1>2, <1>4, <2>1, <2>2 DEF MutateHouse
  <2>3. CASE p = 0
    BY <1>2, <1>4, <2>1, <2>3
  <2> QED
    BY <1>2, <2>2, <2>3
<1>6. r \in {0} \cup Rounds /\ r # 0
  BY RoundNotZero
<1>7. \A v \in Users, j \in {0} \cup Rounds :
        ClaimOf(v, j)' = IF v = u /\ j = r THEN 0 ELSE ClaimOf(v, j)
  <2>1. \A q \in Rounds, v \in Users :
          player'[q][v] = IF q = r /\ v = u THEN "CASHED_OUT" ELSE player[q][v]
    BY <1>1, <1>3 DEF TypeOK
  <2> QED
    BY <1>3, <1>6, <2>1 DEF ClaimOf, StillPlaced
<1>8. Claims' = [Claims EXCEPT ![u][r] = 0] /\ Claims[u][r] > 0
  <2>1. Claims' = [Claims EXCEPT ![u][r] = 0]
    BY <1>6, <1>7 DEF Claims
  <2>2. Claims[u][r] = stake[r][u]
    BY <1>1, <1>6 DEF Claims, ClaimOf, StillPlaced
  <2> QED
    BY <1>1, <2>1, <2>2
<1>9. Stages' = Stages /\ Stages[r] = "flying"
  BY <1>3 DEF Stages, StageOf
<1>10. \E x \in 0..house : balance' = [balance EXCEPT ![u] = balance[u] + x] /\ house' = house - x
  BY <1>3, <1>5
<1>11. Escrow!Win(u, r)
  BY <1>8, <1>9, <1>10 DEF Escrow!Win, Claims, ClaimOf, Stages, StageOf
<1> QED
  BY <1>11, SlotsOf DEF Escrow!Next

\* Stakes on rounds that are over go to the house.
LEMMA EscrowLose ==
    ASSUME DbInv, NEW u \in Users, NEW R \in SUBSET BetsHeld(u), R # {},
           \A r \in R : status[r] \in Over,
           balance' = [balance EXCEPT ![u] = balance[u] - StakesBy(u, R)],
           house' = house + StakesBy(u, R),
           UNCHANGED <<status, stake, queued>>,
           \A q \in Rounds, v \in Users :
              StillPlaced(q, v)' <=> StillPlaced(q, v) /\ ~(q \in R /\ v = u)
    PROVE  Escrow!Next
<1> DEFINE c == Claims[u]
           m == Column(stake, u)
<1>1. /\ TypeOK /\ R \in SUBSET Rounds /\ \A r \in R : StillPlaced(r, u)
      /\ \A r \in Rounds : stake[r][u] \in Nat
      /\ \A r \in R : stake[r][u] > 0 /\ r # 0
  BY RoundNotZero DEF DbInv, TypeOK, BetsHeld, StakesPositive
<1>2. \A r \in R : c[r] = m[r] /\ c[r] > 0
  BY <1>1 DEF Claims, ClaimOf, Column
<1>3. /\ IsFiniteSet(R) /\ Numbers(m, R)
      /\ StakesBy(u, R) = SumFunctionOnSet(m, R)
  BY <1>1, ColumnSum DEF StakesBy
<1> HIDE DEF c, m
<1>4. SumFunctionOnSet(c, R) = StakesBy(u, R)
  BY <1>2, <1>3, SumSame
<1>5. \A v \in Users, j \in {0} \cup Rounds :
        ClaimOf(v, j)' = IF v = u /\ j \in R THEN 0 ELSE ClaimOf(v, j)
  BY <1>1 DEF ClaimOf
<1>6. Claims' = [Claims EXCEPT ![u] = [k \in {0} \cup Rounds |->
                                         IF k \in R THEN 0 ELSE Claims[u][k]]]
  BY <1>5 DEF Claims
<1>7. Stages' = Stages /\ \A r \in R : Stages[r] = "over"
  BY <1>1 DEF Stages, StageOf, Over
<1>8. /\ balance' = [balance EXCEPT ![u] = balance[u] - Escrow!SumFunctionOnSet(c, R)]
      /\ house' = house + Escrow!SumFunctionOnSet(c, R)
  BY <1>4, EscrowSum
<1>9. Escrow!Lose(u, R)
  BY <1>2, <1>6, <1>7, <1>8, SlotsOf
     DEF Escrow!Lose, Claims, ClaimOf, Stages, StageOf, c
<1> QED
  BY <1>1, <1>9, SlotsOf DEF Escrow!Next

LEMMA EscrowSettle ==
    ASSUME DbInv, NEW r \in Rounds, NEW u \in Users, status[r] \in Over, SettleLoss(r, u)
    PROVE  Escrow!Next
<1>1. /\ TypeOK /\ player[r][u] = "BET_PLACED"
      /\ ~Recorded(houseLedger, "BET_LOSS_SETTLEMENT", r, u)
  BY DEF DbInv, SettleLoss, Resolve, StillPlaced, OneOutcomePerBet
<1>2. /\ player' = [player EXCEPT ![r][u] = "LOST"]
      /\ balance' = [balance EXCEPT ![u] = balance[u] + -stake[r][u]]
      /\ house' = house + stake[r][u]
      /\ UNCHANGED <<status, stake, queued>>
  BY <1>1 DEF SettleLoss, Resolve, MoveFunds, MutateHouse, roundVars, queueVars
<1>3. /\ StakesBy(u, {r}) = stake[r][u] /\ stake[r][u] \in Nat /\ balance[u] \in Nat
      /\ {r} \in SUBSET BetsHeld(u) /\ {r} # {}
  BY <1>1, StakesByOne DEF BetsHeld, StillPlaced, TypeOK
<1>4. \A q \in Rounds, v \in Users :
        StillPlaced(q, v)' <=> StillPlaced(q, v) /\ ~(q \in {r} /\ v = u)
  BY <1>1, <1>2 DEF StillPlaced, TypeOK
<1>5. balance' = [balance EXCEPT ![u] = balance[u] - StakesBy(u, {r})]
  BY <1>2, <1>3
<1> QED
  BY <1>2, <1>3, <1>4, <1>5, EscrowLose

LEMMA EscrowRepair ==
    ASSUME DbInv, NEW u \in Users, RepairWallet(u)
    PROVE  [Escrow!Next]_(Escrow!vars)
<1> DEFINE stale == StaleBets(u)
           unpaid == {r \in stale :
                        ~Recorded(houseLedger, "BET_LOSS_SETTLEMENT", r, u)}
<1>1. /\ balance' = [balance EXCEPT ![u] = balance[u] - StakesBy(u, stale)]
      /\ house' = house + StakesBy(u, unpaid)
      /\ player' = [r \in Rounds |->
           IF r \in stale THEN [player[r] EXCEPT ![u] = "LOST"] ELSE player[r]]
      /\ UNCHANGED <<status, stake, queued>>
  BY DEF RepairWallet, roundVars, queueVars
<1>2. /\ TypeOK /\ stale \in SUBSET BetsHeld(u) /\ stale \in SUBSET Rounds
      /\ \A r \in stale : status[r] \in Over /\ player[r][u] = "BET_PLACED"
  BY DEF DbInv, StaleBets, BetsOf, BetsHeld, Over, StillPlaced
<1>3. unpaid = stale
  BY <1>2 DEF DbInv, OneOutcomePerBet
<1> HIDE DEF stale, unpaid
<1>4. \A q \in Rounds, v \in Users :
        StillPlaced(q, v)' <=> StillPlaced(q, v) /\ ~(q \in stale /\ v = u)
  BY <1>1, <1>2 DEF StillPlaced, TypeOK
<1>5. CASE stale # {}
  BY <1>1, <1>2, <1>3, <1>4, <1>5, EscrowLose
<1>6. CASE stale = {}
  <2>1. StakesBy(u, stale) = 0
    <3>1. \A r \in Rounds : stake[r][u] \in Nat
      BY <1>2 DEF TypeOK
    <3>2. StakesBy(u, stale) = SumFunctionOnSet(Column(stake, u), stale)
      BY <1>2, <3>1, ColumnSum DEF StakesBy
    <3> QED
      BY <1>6, <3>2, SumEmpty
  <2>2. balance' = balance /\ house' = house
    BY <1>1, <1>2, <1>3, <2>1 DEF TypeOK
  <2>3. Claims' = Claims /\ Stages' = Stages
    BY <1>1, <1>4, <1>6 DEF Claims, ClaimOf, Stages
  <2> QED
    BY <2>2, <2>3 DEF Escrow!vars, Claims, ClaimOf, Stages, StageOf
<1> QED
  BY <1>5, <1>6

-----------------------------------------------------------------------------

LEMMA EscrowStart == GameInit => Escrow!Init
<1> SUFFICES ASSUME GameInit PROVE Escrow!Init
  OBVIOUS
<1>1. /\ balance = [u \in Users |-> InitialBalance] /\ house = InitialBankroll
      /\ Claims = [u \in Users |-> [k \in {0} \cup Rounds |-> 0]]
      /\ Stages = [r \in Rounds |-> "none"]
  BY DEF GameInit, Init, Claims, ClaimOf, StillPlaced, Stages, StageOf
<1> QED
  BY <1>1, SlotsOf, MoneyAssumption DEF Escrow!Init, Claims, ClaimOf, Stages, StageOf

\* A round that takes its next stage.
LEMMA EscrowRounds ==
    ASSUME TypeOK, NEW r \in Rounds,
           \/ CreateRound(r)
           \/ status[r] \in Over /\ FinishRound(r)
           \/ \E c \in 2..MaxCrash :
                \/ StartRound(r, c)
                \/ status[r] \in {"RUNNING", "CRASHED"} /\ CrashRound(r, c)
    PROVE  [Escrow!Next]_(Escrow!vars)
<1>1. ASSUME NEW s \in RoundStatus \ {"NONE"}, status' = [status EXCEPT ![r] = s],
             UNCHANGED <<player, stake, queued, balance, house>>,
             \/ status[r] = "NONE" /\ s = "WAITING"
             \/ status[r] = "WAITING" /\ s = "RUNNING"
             \/ status[r] = "RUNNING" /\ s = "CRASHED"
             \/ status[r] \in Over /\ s \in Over
      PROVE  [Escrow!Next]_(Escrow!vars)
  BY <1>1, EscrowAdvance
<1>2. CASE CreateRound(r)
  BY <1>1, <1>2 DEF CreateRound, Exists, betVars, queueVars, moneyVars, RoundStatus
<1>3. CASE status[r] \in Over /\ FinishRound(r)
  BY <1>1, <1>3 DEF FinishRound, Over, betVars, queueVars, moneyVars, RoundStatus
<1>4. ASSUME NEW c \in 2..MaxCrash, StartRound(r, c)
      PROVE  [Escrow!Next]_(Escrow!vars)
  BY <1>1, <1>4 DEF StartRound, betVars, queueVars, moneyVars, RoundStatus
<1>5. ASSUME NEW c \in 2..MaxCrash, status[r] \in {"RUNNING", "CRASHED"}, CrashRound(r, c)
      PROVE  [Escrow!Next]_(Escrow!vars)
  BY <1>1, <1>5 DEF CrashRound, Over, betVars, queueVars, moneyVars, RoundStatus
<1> QED
  BY <1>2, <1>3, <1>4, <1>5

LEMMA EscrowStep ==
    DbInv /\ IInv /\ [Next]_vars => [Escrow!Next]_(Escrow!vars)
<1> SUFFICES ASSUME DbInv, IInv, [Next]_vars PROVE [Escrow!Next]_(Escrow!vars)
  OBVIOUS
<1>1. TypeOK /\ LocksInv
  BY DEF DbInv
<1>2. CASE UNCHANGED <<status, player, stake, queued, balance, house>>
  <2>1. Claims' = Claims /\ Stages' = Stages /\ balance' = balance /\ house' = house
    BY <1>2 DEF Claims, ClaimOf, StillPlaced, Stages
  <2> QED
    BY <2>1 DEF Escrow!vars, Claims, ClaimOf, Stages, StageOf
<1>3. ASSUME NEW r \in Rounds,
             \/ CreateRound(r)
             \/ status[r] \in Over /\ FinishRound(r)
             \/ \E c \in 2..MaxCrash :
                  \/ StartRound(r, c)
                  \/ status[r] \in {"RUNNING", "CRASHED"} /\ CrashRound(r, c)
      PROVE  [Escrow!Next]_(Escrow!vars)
  BY <1>1, <1>3, EscrowRounds
<1>4. ASSUME NEW r \in Rounds, status[r] = "WAITING" /\ ActivateQueuedBets(r)
      PROVE  [Escrow!Next]_(Escrow!vars)
  BY <1>1, <1>4, EscrowServe
<1>5. ASSUME NEW r \in Rounds, NEW u \in Users, status[r] \in Over /\ SettleLoss(r, u)
      PROVE  [Escrow!Next]_(Escrow!vars)
  BY <1>5, EscrowSettle
<1>6. ASSUME NEW r \in Rounds, NEW u \in Users, NEW a \in Stakes,
             PlaceBetForCurrentRound(r, u, a) \/ QueueBetForNextRound(r, u, a)
      PROVE  [Escrow!Next]_(Escrow!vars)
  BY <1>1, <1>6, EscrowPlaceBet, EscrowQueueBet
<1>7. ASSUME NEW r \in Rounds, NEW u \in Users, NEW m \in 1..MaxCrash,
             CashoutPlayer(r, u, m)
      PROVE  [Escrow!Next]_(Escrow!vars)
  BY <1>7, EscrowWin
<1>8. ASSUME NEW u \in Users, RepairWallet(u)
      PROVE  [Escrow!Next]_(Escrow!vars)
  BY <1>8, EscrowRepair
<1>9. KnowingNext \/ UNCHANGED <<status, player, stake, queued, balance, house>>
  BY KnowingStep
<1> QED
  BY <1>2, <1>3, <1>4, <1>5, <1>6, <1>7, <1>8, <1>9 DEF KnowingNext

\* The running game implements the escrow: whatever crashes, throws or is
\* flushed, a stake is held out of the player's free funds, won only while its
\* round flies, lost only once it is over, or given back.
THEOREM EscrowIsRefined == Spec => EscrowRefined
<1>1. GameInit => Escrow!Init
  BY EscrowStart
<1>2. DbInv /\ IInv /\ [Next]_vars => [Escrow!Next]_(Escrow!vars)
  BY EscrowStep
<1>3. Spec => []DbInv
  BY ImplementsDb, DbInvariant, PTL
<1>4. Spec => []IInv
  BY Invariant
<1> QED
  BY <1>1, <1>2, <1>3, <1>4, PTL DEF Spec, EscrowRefined, Escrow!Spec

-----------------------------------------------------------------------------
(* One round at a time.  A Redis that loses its keys, or a call that throws *)
(* between the new round's row and its key in Redis, does leave two rounds  *)
(* unfinished; a worker that dies, at any point and any number of times,    *)
(* does not.                                                                *)

OnlyCrashes == faults = 0 \/ FaultKinds \subseteq {"crash"}

Live(r) == status[r] \notin {"NONE", "FINISHED"}
OneLive == \A q, r \in Rounds : Live(q) /\ Live(r) => q = r

\* Redis names the unfinished round, except while a new one is on its way there
\* and while a restarted worker has not looked yet.
Unnamed == {"down", "activate", "publish"}
CurrentLive == pc \notin Unnamed => \A r \in Rounds : Live(r) => current = r

\* A round is created when all others are finished.
AllDone == pc = "create" => \A r \in Rounds : ~Live(r)

\* The calls a tick makes on the round it found in Redis.
OnRound == TickPc \ {"create", "activate", "publish", "clear"}
OnCurrent == pc \in OnRound => current = rd

Lone == OneLive /\ CurrentLive /\ AllDone /\ OnCurrent
LoneInv == OnlyCrashes => Lone

\* Faults are only ever added.
LEMMA FaultsGrow ==
    ASSUME IInv, [Next]_vars
    PROVE  faults \in Nat /\ (faults' = faults \/ faults' = faults + 1)
<1>1. faults \in Nat
  BY FaultAssumption DEF IInv, GameTypeOK
<1>2. CASE UNCHANGED vars \/ Exhausted
  BY <1>1, <1>2 DEF vars, Exhausted
<1>3. ASSUME NEW u \in Users, Client(u) PROVE faults' = faults
  BY <1>3 DEF Client, ResolveCurrentRound, PlaceBet, BetRejected, Cashout
<1>4. ASSUME NEW r \in Rounds, TimeStep(r) PROVE faults' = faults
  BY <1>4 DEF TimeStep
<1>5. CASE Failure
  BY <1>1, <1>5 DEF Failure, Fault, WorkerCrash, CallThrows,
                    ActivationFails, RedisFlush
<1>6. CASE \/ RecoverActiveRound \/ RecoverState \/ ListWallets \/ Repair
           \/ TickNoRound \/ TickWaiting \/ TickMultiplier \/ TickCrashing
           \/ TickCrashed \/ TickFinished
  BY <1>1, <1>6
     DEF RecoverActiveRound, RecoverState, ListWallets, Repair, TickNoRound,
         TickWaiting, TickMultiplier, TickCrashing, TickCrashed, TickFinished, Tick
<1>7. CASE \/ StartDb \/ PublishStart \/ AckStart \/ CrashDb \/ PublishCrash
           \/ CheckSettled \/ ListBatch \/ SettleOne \/ EndBatch \/ MarkSettled
  BY <1>1, <1>7 DEF StartDb, PublishStart, AckStart, CrashDb, PublishCrash,
                    CheckSettled, ListBatch, SettleOne, EndBatch, MarkSettled
<1>8. CASE \/ Cooldown \/ FinishDb \/ PublishFinish
           \/ CreateDb \/ Activate \/ Publish \/ ClearSettled
  BY <1>1, <1>8 DEF Cooldown, FinishDb, PublishFinish, CreateDb, Activate,
                    Publish, ClearSettled
<1> QED
  BY <1>1, <1>2, <1>3, <1>4, <1>5, <1>6, <1>7, <1>8 DEF Next, Worker

\* As long as the worker's crashes are the only faults, they were so before.
LEMMA CrashesBefore ==
    ASSUME IInv, [Next]_vars, OnlyCrashes'
    PROVE  OnlyCrashes /\ ~CallThrows /\ ~ActivationFails /\ ~RedisFlush
<1>1. faults \in Nat /\ (faults' = faults \/ faults' = faults + 1)
  BY FaultsGrow
<1>2. OnlyCrashes
  BY <1>1 DEF OnlyCrashes
<1>3. ASSUME NEW kind, kind # "crash", Fault(kind) PROVE FALSE
  BY <1>1, <1>3 DEF Fault, OnlyCrashes
<1> QED
  BY <1>2, <1>3 DEF CallThrows, ActivationFails, RedisFlush

LEMMA LiveShrinks ==
    ASSUME TypeOK, RunInv, [Next]_vars, ~(pc = "create" /\ pc' = "activate")
    PROVE  \A r \in Rounds : Live(r)' => Live(r)
<1>1. \/ UNCHANGED status
      \/ \E c \in 2..MaxCrash : rd \in Rounds /\ StartRound(rd, c)
      \/ /\ rd \in Rounds /\ status[rd] \in {"RUNNING", "CRASHED"}
         /\ \E c \in 2..MaxCrash : CrashRound(rd, c)
      \/ rd \in Rounds /\ FinishRound(rd)
  BY StatusByWorker
<1> QED
  BY <1>1 DEF StartRound, CrashRound, FinishRound, Live, TypeOK

LEMMA LoneKept ==
    ASSUME Lone, current' = current, \A r \in Rounds : Live(r)' => Live(r),
           pc \in Unnamed => pc' \in Unnamed,
           pc' = "create" => \A r \in Rounds : ~Live(r),
           pc' \in OnRound => current = rd'
    PROVE  Lone'
  BY DEF Lone, OneLive, CurrentLive, AllDone, OnCurrent

\* A tick under way keeps its round.
LEMMA TickKeepsRound ==
    ASSUME RunInv,
           \/ StartDb \/ PublishStart \/ AckStart \/ CrashDb \/ PublishCrash
           \/ CheckSettled \/ ListBatch \/ SettleOne \/ EndBatch \/ MarkSettled
           \/ Cooldown \/ FinishDb \/ PublishFinish
    PROVE  /\ pc \in OnRound /\ current' = current
           /\ pc' \in OnRound => rd' = rd
           /\ pc' \in OnRound \cup {"idle", "create"}
           /\ pc' = "create" => PublishFinish
<1>1. tick \in Locals
  BY DEF RunInv, RunTypeOK
<1>2. CASE \/ StartDb \/ PublishStart \/ AckStart \/ CrashDb \/ PublishCrash
  BY <1>2 DEF StartDb, PublishStart, AckStart, CrashDb, PublishCrash, Goto, EndTick,
              OnRound, TickPc, rd, redisVars
<1>3. CASE CheckSettled \/ MarkSettled
  BY <1>3 DEF CheckSettled, MarkSettled, AfterSettlement, NoTick, Goto, EndTick,
              OnRound, TickPc, rd, redisVars
<1>4. CASE ListBatch
  <2>1. /\ pc = "list" /\ current' = current
        /\ \/ pc' = "markSettled" /\ tick' = tick
           \/ \E S : /\ pc' = "settle"
                     /\ tick' = [tick EXCEPT !.todo = S, !.batch = @ + 1,
                                             !.did = FALSE, !.skipped = FALSE]
    BY <1>4 DEF ListBatch, Goto, redisVars
  <2> QED
    BY <1>1, <2>1 DEF Locals, OnRound, TickPc, rd
<1>5. CASE SettleOne \/ EndBatch
  BY <1>1, <1>5 DEF SettleOne, EndBatch, Goto, Locals, OnRound, TickPc, rd, redisVars
<1>6. CASE Cooldown \/ FinishDb \/ PublishFinish
  BY <1>6 DEF Cooldown, FinishDb, PublishFinish, Goto, EndTick, OnRound, TickPc, rd,
              redisVars
<1> QED
  BY <1>2, <1>3, <1>4, <1>5, <1>6

LEMMA LoneWorker ==
    ASSUME TypeOK, RunInv, Lone, Worker, [Next]_vars
    PROVE  Lone'
<1>1. CASE \/ StartDb \/ PublishStart \/ AckStart \/ CrashDb \/ PublishCrash
           \/ CheckSettled \/ ListBatch \/ SettleOne \/ EndBatch \/ MarkSettled
           \/ Cooldown \/ FinishDb \/ PublishFinish
  <2>1. /\ pc \in OnRound /\ current' = current
        /\ pc' \in OnRound => rd' = rd
        /\ pc' \in OnRound \cup {"idle", "create"}
        /\ pc' = "create" => PublishFinish
    BY <1>1, TickKeepsRound
  <2>2. \A r \in Rounds : Live(r)' => Live(r)
    BY <2>1, LiveShrinks DEF OnRound
  <2>3. ASSUME PublishFinish PROVE \A r \in Rounds : ~Live(r)
    <3>1. pc \notin Unnamed /\ pc \in OnRound /\ rd \in Rounds /\ status[rd] = "FINISHED"
      BY <2>1, <2>3 DEF PublishFinish, RunInv, WorkerKnows, Finds, Unnamed
    <3> QED
      BY <3>1 DEF Lone, CurrentLive, OnCurrent, Live
  <2>4. pc \notin Unnamed /\ current = rd
    BY <2>1 DEF OnRound, Unnamed, TickPc, Lone, OnCurrent
  <2> QED
    BY <2>1, <2>2, <2>3, <2>4, LoneKept
<1>2. CASE RecoverState \/ ListWallets \/ Repair
  <2>1. /\ pc \in {"recoverState", "listWallets", "repair"}
        /\ pc' \in {"listWallets", "repair", "idle"} /\ current' = current
    BY <1>2 DEF RecoverState, ListWallets, Repair, Goto, EndTick, redisVars
  <2>2. \A r \in Rounds : Live(r)' => Live(r)
    BY <2>1, LiveShrinks
  <2> QED
    BY <2>1, <2>2, LoneKept DEF Unnamed, OnRound, TickPc
<1>3. CASE TickMultiplier
  <2>1. pc = "idle" /\ pc' = "idle" /\ current' = current
    BY <1>3 DEF TickMultiplier, workerVars
  <2>2. \A r \in Rounds : Live(r)' => Live(r)
    BY <2>1, LiveShrinks
  <2> QED
    BY <2>1, <2>2, LoneKept DEF Unnamed, OnRound, TickPc
<1>4. CASE TickNoRound
  <2>1. pc = "idle" /\ pc' = "create" /\ current' = current /\ current = 0
    BY <1>4 DEF TickNoRound, Goto, redisVars
  <2>2. \A r \in Rounds : Live(r)' => Live(r)
    BY <2>1, LiveShrinks
  <2>3. \A r \in Rounds : ~Live(r)
    BY <2>1, RoundNotZero DEF Lone, CurrentLive, Unnamed
  <2> QED
    BY <2>1, <2>2, <2>3, LoneKept DEF Unnamed, OnRound, TickPc
<1>5. ASSUME NEW state \in RoundStatus \ {"NONE"}, NEW label \in TickPc,
             Tick(state, label),
             \/ label \in OnRound
             \/ state = "FINISHED" /\ label = "create"
      PROVE  Lone'
  <2>1. /\ current \in Rounds /\ Agree(state, status[current])
        /\ pc = "idle" /\ pc' = label /\ rd' = current /\ current' = current
    BY <1>5, TickFinds DEF Tick, rd, redisVars
  <2>2. \A r \in Rounds : Live(r)' => Live(r)
    BY <2>1, LiveShrinks
  <2>3. ASSUME state = "FINISHED" PROVE \A r \in Rounds : ~Live(r)
    BY <2>1, <2>3 DEF Lone, CurrentLive, Unnamed, Live, Agree
  <2> QED
    BY <1>5, <2>1, <2>2, <2>3, LoneKept DEF Unnamed, OnRound
<1>6. CASE TickWaiting \/ TickCrashing \/ TickCrashed \/ TickFinished
  <2>1. CASE TickWaiting
    <3>1. "WAITING" \in RoundStatus \ {"NONE"} /\ "start" \in TickPc /\ "start" \in OnRound
      BY DEF RoundStatus, TickPc, OnRound
    <3> QED
      BY <1>5, <2>1, <3>1 DEF TickWaiting
  <2>2. CASE TickCrashing
    <3>1. "RUNNING" \in RoundStatus \ {"NONE"} /\ "crash" \in TickPc /\ "crash" \in OnRound
      BY DEF RoundStatus, TickPc, OnRound
    <3> QED
      BY <1>5, <2>2, <3>1 DEF TickCrashing
  <2>3. CASE TickCrashed
    <3>1. /\ "CRASHED" \in RoundStatus \ {"NONE"}
          /\ "checkSettled" \in TickPc /\ "checkSettled" \in OnRound
      BY DEF RoundStatus, TickPc, OnRound
    <3> QED
      BY <1>5, <2>3, <3>1 DEF TickCrashed
  <2>4. CASE TickFinished
    <3>1. "FINISHED" \in RoundStatus \ {"NONE"} /\ "create" \in TickPc
      BY DEF RoundStatus, TickPc
    <3> QED
      BY <1>5, <2>4, <3>1 DEF TickFinished
  <2> QED
    BY <1>6, <2>1, <2>2, <2>3, <2>4
<1>7. CASE RecoverActiveRound
  <2> DEFINE n == NewestIn(Unfinished)
  <2>1. /\ pc = "down" /\ pc' \in {"recoverState", "listWallets"} /\ status' = status
        /\ n = 0 => current' = current
        /\ n # 0 => current' = n
    BY <1>7 DEF RecoverActiveRound, Goto, dbVars
  <2>2. \A r \in Rounds : Live(r) => n \in Rounds /\ Live(n)
    <3>1. \A r \in Rounds : Live(r) <=> status[r] \in Unfinished
      BY DEF Live, Unfinished, TypeOK, RoundStatus
    <3>2. /\ n # 0 => status[n] \in Unfinished
          /\ \A r \in Rounds : status[r] \in Unfinished => n \in Rounds
      BY Newest
    <3> QED
      BY <3>1, <3>2, RoundNotZero
  <2> HIDE DEF n
  <2>3. OneLive' /\ (\A r \in Rounds : Live(r)' => n = r /\ n # 0)
    BY <2>1, <2>2, RoundNotZero DEF Lone, OneLive, Live
  <2> QED
    BY <2>1, <2>3 DEF Lone, CurrentLive, AllDone, OnCurrent, OnRound, TickPc
<1>8. CASE CreateDb
  <2>1. pc = "create" /\ pc' = "activate" /\ \E r \in Rounds : CreateRound(r)
    BY <1>8 DEF CreateDb, Goto
  <2>2. OneLive'
    BY <2>1 DEF Lone, AllDone, OneLive, Live, CreateRound, TypeOK
  <2> QED
    BY <2>1, <2>2 DEF Lone, CurrentLive, AllDone, OnCurrent, OnRound, Unnamed
<1>9. CASE Activate
  <2>1. pc = "activate" /\ pc' = "publish" /\ current' = current
    BY <1>9 DEF Activate, Goto, redisVars
  <2>2. \A r \in Rounds : Live(r)' => Live(r)
    BY <2>1, LiveShrinks
  <2> QED
    BY <2>1, <2>2, LoneKept DEF Unnamed, OnRound, TickPc
<1>10. CASE Publish
  <2>1. /\ pc = "publish" /\ pc' \in {"clear", "idle"} /\ status' = status
        /\ current' = NewRound /\ NewRound \in Rounds /\ status[NewRound] = "WAITING"
    BY <1>10 DEF Publish, Goto, EndTick, dbVars, RunInv, WorkerKnows
  <2>2. \A q, r \in Rounds : Live(q)' /\ Live(r)' => q = r
    BY <2>1 DEF Lone, OneLive, Live
  <2>3. \A r \in Rounds : Live(r)' => current' = r
    BY <2>1, <2>2 DEF Live
  <2>4. pc' # "create" /\ pc' \notin OnRound
    BY <2>1 DEF OnRound, TickPc
  <2> QED
    BY <2>2, <2>3, <2>4 DEF Lone, OneLive, CurrentLive, AllDone, OnCurrent
<1>11. CASE ClearSettled
  <2>1. pc = "clear" /\ pc' = "idle" /\ current' = current
    BY <1>11 DEF ClearSettled, Goto, EndTick
  <2>2. \A r \in Rounds : Live(r)' => Live(r)
    BY <2>1, LiveShrinks
  <2> QED
    BY <2>1, <2>2, LoneKept DEF Unnamed, OnRound, TickPc
<1> QED
  BY <1>1, <1>2, <1>3, <1>4, <1>6, <1>7, <1>8, <1>9, <1>10, <1>11 DEF Worker

\* A step of anyone but the worker leaves it, and Redis's current round, where
\* they are; a crash leaves it "down".
LEMMA OthersStep ==
    ASSUME IInv, [Next]_vars, OnlyCrashes', ~Worker
    PROVE  /\ UNCHANGED redisVars /\ UNCHANGED status
           /\ \/ UNCHANGED workerVars
              \/ pc' = "down" /\ tick' = NoTick /\ faults' # 0
<1>1. ~CallThrows /\ ~ActivationFails /\ ~RedisFlush
  BY CrashesBefore
<1>2. CASE UNCHANGED vars
  BY <1>2 DEF vars, dbVars
<1>3. ASSUME NEW u \in Users, Client(u)
      PROVE  UNCHANGED <<status, redisVars, workerVars>>
  BY <1>3 DEF Client, ResolveCurrentRound, PlaceBet, BetRejected, Cashout, dbVars,
         PlaceBetForCurrentRound, QueueBetForNextRound, CashoutPlayer, roundVars
<1>4. ASSUME NEW r \in Rounds, TimeStep(r)
      PROVE  UNCHANGED <<status, redisVars, workerVars>>
  BY <1>4 DEF TimeStep, TimePasses
<1>5. CASE WorkerCrash
  <2>1. faults \in Nat
    BY DEF IInv, GameTypeOK
  <2> QED
    BY <1>5, <2>1 DEF WorkerCrash, Fault, Goto, dbVars
<1>6. CASE Exhausted
  BY <1>6 DEF Exhausted, vars, dbVars
<1> QED
  BY <1>1, <1>2, <1>3, <1>4, <1>5, <1>6 DEF Next, Failure

LEMMA LoneStep == IInv /\ LoneInv /\ [Next]_vars => LoneInv'
<1> SUFFICES ASSUME IInv, LoneInv, [Next]_vars, OnlyCrashes' PROVE Lone'
  BY DEF LoneInv
<1>1. Lone
  BY CrashesBefore DEF LoneInv
<1>2. TypeOK /\ RunInv
  BY DEF IInv, GameTypeOK, RunInv, RunTypeOK
<1>3. CASE Worker
  BY <1>1, <1>2, <1>3, LoneWorker
<1>4. CASE ~Worker
  <2>1. /\ current' = current /\ UNCHANGED status
        /\ \/ pc' = pc /\ tick' = tick
           \/ pc' = "down"
    BY <1>4, OthersStep DEF redisVars, workerVars
  <2>2. \A r \in Rounds : Live(r)' => Live(r)
    BY <2>1 DEF Live
  <2> QED
    BY <1>1, <2>1, <2>2, LoneKept
       DEF Lone, OnCurrent, AllDone, Unnamed, OnRound, TickPc, rd
<1> QED
  BY <1>3, <1>4

LEMMA LoneStart == GameInit => LoneInv
  BY DEF GameInit, Init, LoneInv, Lone, OneLive, CurrentLive, AllDone, OnCurrent, Live,
         Unnamed, OnRound, TickPc

LEMMA AtMostOne ==
    ASSUME NEW S, \A x, y \in S : x = y
    PROVE  Cardinality(S) <= 1
<1>1. CASE S = {}
  BY <1>1, FS_EmptySet
<1>2. CASE S # {}
  <2>1. PICK x \in S : S = {x}
    BY <1>2
  <2> QED
    BY <2>1, FS_Singleton
<1> QED
  BY <1>1, <1>2

LEMMA LoneInvariant == Spec => []LoneInv
<1>1. GameInit => LoneInv
  BY LoneStart
<1>2. IInv /\ LoneInv /\ [Next]_vars => LoneInv'
  BY LoneStep
<1> QED
  BY <1>1, <1>2, Invariant, PTL DEF Spec

\* A worker that is killed anywhere in its tick, any number of times, never runs
\* two rounds: at most one round is unfinished.
THEOREM OneRound ==
    ASSUME FaultKinds \subseteq {"crash"}
    PROVE  Spec => []SingleActiveRound
<1>1. LoneInv => SingleActiveRound
  <2> SUFFICES ASSUME Lone PROVE SingleActiveRound
    BY DEF LoneInv, OnlyCrashes
  <2> DEFINE S == {r \in Rounds : status[r] \notin {"NONE", "FINISHED"}}
  <2>1. \A x, y \in S : x = y
    BY DEF Lone, OneLive, Live
  <2> HIDE DEF S
  <2>2. Cardinality(S) <= 1
    BY <2>1, AtMostOne
  <2> QED
    BY <2>2 DEF SingleActiveRound, S
<1> QED
  BY <1>1, LoneInvariant, PTL

-----------------------------------------------------------------------------
(* The repair at boot.  The wallets are listed by their lock before any is  *)
(* locked, and a bet that is open in a round that is over has one.          *)

\* A round that is over stays so, and no bet is placed on it any more.
LEMMA OverKeeps ==
    ASSUME TypeOK, RunInv, IInv, [Next]_vars, NEW r \in Rounds, status[r] \in Over
    PROVE  status'[r] \in Over /\ Placed(r)' \subseteq Placed(r)
<1>1. status'[r] \in Over
  <2>1. \/ UNCHANGED status
        \/ \E q \in Rounds : CreateRound(q)
        \/ \E c \in 2..MaxCrash : StartRound(rd, c) \/ CrashRound(rd, c)
        \/ FinishRound(rd)
    BY StatusByWorker
  <2> QED
    BY <2>1 DEF CreateRound, Exists, StartRound, CrashRound, FinishRound, TypeOK, Over
<1>2. SUFFICES \A u \in Users : player'[r][u] = "BET_PLACED" => player[r][u] = "BET_PLACED"
  BY <1>1 DEF Placed, StillPlaced
<1>3. SUFFICES ASSUME NEW u \in Users, player'[r][u] = "BET_PLACED"
               PROVE  player[r][u] = "BET_PLACED"
  OBVIOUS
<1>4. CASE UNCHANGED player
  BY <1>3, <1>4
<1>5. ASSUME NEW q \in Rounds, status[q] = "WAITING", ActivateQueuedBets(q)
      PROVE  player[r][u] = "BET_PLACED"
  <2>1. \E f : player' = [player EXCEPT ![q] = f]
    BY <1>5 DEF ActivateQueuedBets
  <2> QED
    BY <1>3, <1>5, <2>1 DEF Over, TypeOK
<1>6. ASSUME NEW q \in Rounds, NEW v \in Users, NEW a \in Stakes,
             PlaceBetForCurrentRound(q, v, a)
      PROVE  player[r][u] = "BET_PLACED"
  <2>1. q # r /\ player' = [player EXCEPT ![q][v] = "BET_PLACED"]
    BY <1>6 DEF PlaceBetForCurrentRound, Over
  <2> QED
    BY <1>3, <2>1 DEF TypeOK
<1>7. ASSUME NEW q \in Rounds, NEW v \in Users, NEW outcome \in {"LOST", "CASHED_OUT"},
             player' = [player EXCEPT ![q][v] = outcome]
      PROVE  player[r][u] = "BET_PLACED"
  BY <1>3, <1>7 DEF TypeOK
<1>8. ASSUME NEW v \in Users, RepairWallet(v)
      PROVE  player[r][u] = "BET_PLACED"
  <2> DEFINE stale == StaleBets(v)
  <2>1. player' = [q \in Rounds |->
           IF q \in stale THEN [player[q] EXCEPT ![v] = "LOST"] ELSE player[q]]
    BY <1>8 DEF RepairWallet
  <2> HIDE DEF stale
  <2> QED
    BY <1>3, <2>1 DEF TypeOK
<1>9. KnowingNext \/ UNCHANGED player
  BY KnowingStep
<1>10. ASSUME NEW q \in Rounds,
              \/ CreateRound(q) \/ FinishRound(q)
              \/ \E c \in 2..MaxCrash : StartRound(q, c) \/ CrashRound(q, c)
       PROVE  UNCHANGED player
  BY <1>10 DEF CreateRound, FinishRound, StartRound, CrashRound, betVars
<1>11. ASSUME NEW q \in Rounds, NEW v \in Users,
              \/ SettleLoss(q, v)
              \/ \E a \in Stakes : PlaceBetForCurrentRound(q, v, a)
                                   \/ QueueBetForNextRound(q, v, a)
              \/ \E m \in 1..MaxCrash : CashoutPlayer(q, v, m)
       PROVE  player[r][u] = "BET_PLACED"
  <2>1. CASE SettleLoss(q, v)
    BY <1>7, <2>1 DEF SettleLoss, Resolve
  <2>2. CASE \E m \in 1..MaxCrash : CashoutPlayer(q, v, m)
    BY <1>7, <2>2 DEF CashoutPlayer, Resolve
  <2>3. CASE \E a \in Stakes : QueueBetForNextRound(q, v, a)
    BY <1>4, <2>3 DEF QueueBetForNextRound, betVars
  <2> QED
    BY <1>6, <1>11, <2>1, <2>2, <2>3
<1> QED
  BY <1>4, <1>5, <1>8, <1>9, <1>10, <1>11 DEF KnowingNext

RepairKnows ==
    pc = "repair" =>
        \A r \in Rounds : status[r] \in Over => Placed(r) \subseteq tick.todo

\* The steps that are taken, or end, in the repair.
LEMMA RepairSteps ==
    ASSUME IInv, [Next]_vars, pc' = "repair"
    PROVE  \/ ListWallets
           \/ pc = "repair" /\ UNCHANGED <<tick, status>>
           \/ /\ pc = "repair" /\ UNCHANGED <<status, stake>>
              /\ \E u \in tick.todo : /\ RepairWallet(u)
                                      /\ tick' = [tick EXCEPT !.todo = @ \ {u}]
<1>1. CASE UNCHANGED vars
  BY <1>1 DEF vars, dbVars, workerVars
<1>2. ASSUME NEW u \in Users, Client(u) PROVE UNCHANGED <<status, pc, tick>>
  BY <1>2 DEF Client, ResolveCurrentRound, PlaceBet, BetRejected, Cashout, dbVars,
       PlaceBetForCurrentRound, QueueBetForNextRound, CashoutPlayer, roundVars, workerVars
<1>3. ASSUME NEW r \in Rounds, TimeStep(r) PROVE UNCHANGED <<status, pc, tick>>
  BY <1>3 DEF TimeStep, TimePasses, workerVars
<1>4. CASE Failure \/ Exhausted
  BY <1>4 DEF Failure, WorkerCrash, CallThrows, ActivationFails, RedisFlush,
              Exhausted, Goto, EndTick, vars, dbVars, workerVars
<1>5. CASE Repair
  BY <1>5 DEF Repair, EndTick, Goto, RepairWallet, roundVars
<1>6. CASE \/ RecoverActiveRound \/ RecoverState \/ TickNoRound \/ TickWaiting
           \/ TickMultiplier \/ TickCrashing \/ TickCrashed \/ TickFinished
  BY <1>6 DEF RecoverActiveRound, RecoverState, TickNoRound, TickWaiting, TickMultiplier,
              TickCrashing, TickCrashed, TickFinished, Tick, Goto, workerVars
<1>7. CASE \/ StartDb \/ PublishStart \/ AckStart \/ CrashDb \/ PublishCrash
           \/ CheckSettled \/ ListBatch \/ SettleOne \/ EndBatch \/ MarkSettled
  BY <1>7 DEF StartDb, PublishStart, AckStart, CrashDb, PublishCrash, CheckSettled,
              ListBatch, SettleOne, EndBatch, MarkSettled, AfterSettlement, Goto, EndTick
<1>8. CASE \/ Cooldown \/ FinishDb \/ PublishFinish
           \/ CreateDb \/ Activate \/ Publish \/ ClearSettled
  BY <1>8 DEF Cooldown, FinishDb, PublishFinish, CreateDb, Activate, Publish,
              ClearSettled, Goto, EndTick
<1>9. CASE Worker
  BY <1>5, <1>6, <1>7, <1>8, <1>9 DEF Worker
<1> QED
  BY <1>1, <1>2, <1>3, <1>4, <1>9 DEF Next

LEMMA RepairKnowsStep ==
    ASSUME DbInv, IInv, RunInv, RepairKnows, [Next]_vars
    PROVE  RepairKnows'
<1>1. SUFFICES ASSUME pc' = "repair", NEW r \in Rounds, status'[r] \in Over,
                      NEW u \in Users, StillPlaced(r, u)'
               PROVE  u \in tick'.todo
  BY DEF RepairKnows, Placed
<1>2. TypeOK
  BY DEF DbInv
<1>3. CASE ListWallets
  <2>1. StillPlaced(r, u) /\ tick' = [tick EXCEPT !.todo = {v \in Users : locked[v] > 0}]
    BY <1>1, <1>3 DEF ListWallets, dbVars, StillPlaced, Goto
  <2>2. locked[u] > 0
    BY <2>1, LockedIfPlaced
  <2>3. tick \in Locals
    BY DEF RunInv, RunTypeOK
  <2> QED
    BY <2>1, <2>2, <2>3 DEF Locals
<1>4. CASE pc = "repair" /\ UNCHANGED <<tick, status>>
  <2>1. Placed(r)' \subseteq Placed(r)
    BY <1>1, <1>2, <1>4, OverKeeps
  <2> QED
    BY <1>1, <1>4, <2>1 DEF Placed, RepairKnows
<1>5. ASSUME pc = "repair", UNCHANGED <<status, stake>>, NEW v \in tick.todo,
             RepairWallet(v), tick' = [tick EXCEPT !.todo = @ \ {v}]
      PROVE  u \in tick'.todo
  <2>1. tick \in Locals /\ tick'.todo = tick.todo \ {v}
    BY <1>5 DEF RunInv, RunTypeOK, Locals
  <2>2. Placed(r)' \subseteq Placed(r)
    BY <1>1, <1>2, <1>5, OverKeeps
  <2>3. u \in tick.todo
    BY <1>1, <1>5, <2>2 DEF Placed, RepairKnows
  <2>4. u # v
    <3> SUFFICES ASSUME u = v PROVE FALSE
      OBVIOUS
    <3>1. StillPlaced(r, u)
      BY <1>1, <2>2 DEF Placed
    <3>2. r \in StaleBets(v)
      BY <1>1, <1>5, <3>1 DEF StaleBets, BetsOf, Over
    <3>3. player'[r] = [player[r] EXCEPT ![v] = "LOST"]
      BY <1>5, <3>2 DEF RepairWallet
    <3> QED
      BY <1>1, <1>2, <3>3 DEF StillPlaced, TypeOK
  <2> QED
    BY <2>1, <2>3, <2>4
<1> QED
  BY <1>1, <1>3, <1>4, <1>5, RepairSteps

\* When the worker has booted no bet is open in a round that is over, whatever
\* was skipped, killed or lost before, and whatever players do meanwhile.
THEOREM RepairsAll == Spec => []RepairLeavesNoneBehind
<1>1. GameInit => RepairKnows
  BY DEF GameInit, RepairKnows
<1>2. DbInv /\ IInv /\ RepairKnows /\ [Next]_vars => RepairKnows'
  <2>1. IInv => RunInv
    BY DEF IInv, GameTypeOK, RunInv, RunTypeOK
  <2> QED
    BY <2>1, RepairKnowsStep
<1>3. RepairKnows => RepairLeavesNoneBehind
  BY DEF RepairKnows, RepairLeavesNoneBehind, NoStaleBets
<1>4. Spec => DbSpec
  BY ImplementsDb
<1> QED
  BY <1>1, <1>2, <1>3, <1>4, Invariant, DbInvariant, PTL DEF Spec

-----------------------------------------------------------------------------
(* The queue.  While no fault happens the queue is empty from the moment    *)
(* the new round's activation commits until that round flies.               *)

Served ==
    /\ current # 0 => Exists(current)
    /\ pc = "down" => \A r \in Rounds : ~Exists(r)
    /\ pc = "publish" => InQueue = {}
    /\ \A r \in Rounds : current = r /\ status[r] = "WAITING" => InQueue = {}

ServedInv == faults = 0 => Served

\* The queue grows only while a round flies.
LEMMA QueueGrows ==
    ASSUME TypeOK, IInv, [Next]_vars
    PROVE  \/ InQueue' \subseteq InQueue
           \/ \E r \in Rounds : status[r] = "RUNNING" /\ status'[r] = "RUNNING"
<1>1. CASE queued' = queued
  BY <1>1 DEF InQueue
<1>2. CASE queued' = [u \in Users |-> 0]
  BY <1>2 DEF InQueue
<1>3. ASSUME NEW r \in Rounds, NEW u \in Users, NEW a \in Stakes,
             QueueBetForNextRound(r, u, a)
      PROVE  status[r] = "RUNNING" /\ status'[r] = "RUNNING"
  BY <1>3 DEF QueueBetForNextRound, roundVars
<1>4. ASSUME NEW r \in Rounds, ActivateQueuedBets(r)
      PROVE  queued' = [u \in Users |-> 0]
  BY <1>4 DEF ActivateQueuedBets
<1>5. ASSUME NEW r \in Rounds,
             \/ CreateRound(r) \/ FinishRound(r)
             \/ \E c \in 2..MaxCrash : StartRound(r, c) \/ CrashRound(r, c)
      PROVE  queued' = queued
  BY <1>5 DEF CreateRound, FinishRound, StartRound, CrashRound, queueVars
<1>6. ASSUME NEW r \in Rounds, NEW u \in Users,
             \/ SettleLoss(r, u)
             \/ \E a \in Stakes : PlaceBetForCurrentRound(r, u, a)
             \/ \E m \in 1..MaxCrash : CashoutPlayer(r, u, m)
      PROVE  queued' = queued
  BY <1>6 DEF SettleLoss, PlaceBetForCurrentRound, CashoutPlayer, queueVars
<1>7. ASSUME NEW u \in Users, RepairWallet(u) PROVE queued' = queued
  BY <1>7 DEF RepairWallet, queueVars
<1> QED
  BY <1>1, <1>2, <1>3, <1>4, <1>5, <1>6, <1>7, KnowingStep DEF KnowingNext

LEMMA ServedKept ==
    ASSUME TypeOK, IInv, Lone, Served, [Next]_vars,
           current' = current, \A r \in Rounds : Exists(r) <=> Exists(r)',
           \A r \in Rounds : status'[r] = "WAITING" => status[r] = "WAITING",
           pc' = "down" => pc = "down",
           pc' = "publish" => pc = "publish"
    PROVE  Served'
<1>1. current' # 0 => status'[current'] # "NONE"
  <2>1. SUFFICES ASSUME current # 0 PROVE status'[current] # "NONE"
    OBVIOUS
  <2>2. current \in Rounds
    BY <2>1 DEF IInv, GameTypeOK
  <2> QED
    BY <2>1, <2>2 DEF Served, Exists
<1>2. pc' = "down" => \A r \in Rounds : status'[r] = "NONE"
  BY DEF Served, Exists
<1>3. ASSUME pc' = "publish" => InQueue' = {},
             \A r \in Rounds :
                 current' = r /\ status'[r] = "WAITING" => InQueue' = {}
      PROVE  Served'
  BY <1>1, <1>2, <1>3 DEF Served, Exists
<1>4. CASE InQueue' \subseteq InQueue
  <2>1. InQueue = {} => InQueue' = {}
    BY <1>4
  <2> QED
    BY <1>3, <2>1 DEF Served
<1>5. ASSUME NEW q \in Rounds, status[q] = "RUNNING", status'[q] = "RUNNING"
      PROVE  Served'
  <2>1. \A r \in Rounds : status[r] # "WAITING"
    BY <1>5 DEF Lone, OneLive, Live
  <2>2. pc # "publish"
    BY <2>1 DEF IInv, WorkerKnows
  <2> QED
    BY <1>3, <2>1, <2>2
<1> QED
  BY <1>4, <1>5, QueueGrows

LEMMA ServedWorker ==
    ASSUME TypeOK, RunInv, IInv, Lone, Served, Worker, [Next]_vars
    PROVE  Served'
<1>1. CASE CreateDb
  <2>1. PICK q \in Rounds : CreateRound(q)
    BY <1>1 DEF CreateDb
  <2>2. /\ status' = [status EXCEPT ![q] = "WAITING"] /\ status[q] = "NONE"
        /\ current' = current /\ pc' = "activate" /\ queued' = queued
    BY <1>1, <2>1 DEF CreateDb, CreateRound, Exists, Goto, queueVars, redisVars
  <2>3. current # q
    BY <2>2, RoundNotZero DEF Served, Exists
  <2>4. \A r \in Rounds \ {q} : status'[r] = status[r]
    BY <2>2 DEF TypeOK
  <2>5. current \in {0} \cup Rounds
    BY DEF RunInv, RunTypeOK
  <2> QED
    BY <2>2, <2>3, <2>4, <2>5 DEF Served, InQueue, Exists
<1>2. CASE Activate
  <2>1. /\ pc' = "publish" /\ status' = status /\ current' = current
        /\ queued' = [u \in Users |-> 0]
    BY <1>2 DEF Activate, ActivateQueuedBets, Goto, roundVars, redisVars
  <2>2. InQueue' = {}
    BY <2>1 DEF InQueue
  <2> QED
    BY <2>1, <2>2 DEF Served, Exists
<1>3. CASE Publish
  <2>1. /\ pc = "publish" /\ pc' \in {"clear", "idle"} /\ status' = status
        /\ current' = NewRound /\ status[NewRound] = "WAITING" /\ queued' = queued
    BY <1>3 DEF Publish, Goto, EndTick, dbVars, RunInv, WorkerKnows
  <2> QED
    BY <2>1 DEF Served, Exists, InQueue
<1>4. CASE RecoverActiveRound
  <2>1. /\ pc = "down" /\ pc' \in {"recoverState", "listWallets"} /\ status' = status
        /\ queued' = queued
        /\ current' \in {current, NewestIn(Unfinished)}
        /\ NewestIn(Unfinished) # 0 \/ current' = current
    BY <1>4 DEF RecoverActiveRound, Goto, dbVars
  <2>2. \A r \in Rounds : status[r] = "NONE"
    BY <2>1 DEF Served, Exists
  <2>3. NewestIn(Unfinished) = 0
    BY <2>2, Newest DEF Unfinished
  <2> QED
    BY <2>1, <2>2, <2>3 DEF Served, Exists, InQueue
<1>5. ASSUME ~CreateDb, ~Activate, ~Publish, ~RecoverActiveRound
      PROVE  Served'
  <2>1. /\ current' = current /\ pc' \notin {"down", "publish", "activate"}
    <3>1. CASE \/ StartDb \/ PublishStart \/ AckStart \/ CrashDb \/ PublishCrash
               \/ CheckSettled \/ ListBatch \/ SettleOne \/ EndBatch \/ MarkSettled
               \/ Cooldown \/ FinishDb \/ PublishFinish
      BY <3>1, TickKeepsRound DEF OnRound, TickPc
    <3>2. CASE \/ RecoverState \/ ListWallets \/ Repair \/ TickNoRound
               \/ TickMultiplier \/ ClearSettled
      BY <3>2 DEF RecoverState, ListWallets, Repair, TickNoRound, TickMultiplier,
                  ClearSettled, Goto, EndTick, redisVars, workerVars
    <3>3. CASE TickWaiting \/ TickCrashing \/ TickCrashed \/ TickFinished
      BY <3>3 DEF TickWaiting, TickCrashing, TickCrashed, TickFinished, Tick, Goto,
                  redisVars
    <3> QED
      BY <1>5, <3>1, <3>2, <3>3 DEF Worker
  <2>2. \A r \in Rounds : /\ Exists(r) <=> Exists(r)'
                          /\ status'[r] = "WAITING" => status[r] = "WAITING"
    <3>1. \/ UNCHANGED status
          \/ \E c \in 2..MaxCrash : rd \in Rounds /\ StartRound(rd, c)
          \/ /\ rd \in Rounds /\ status[rd] \in {"RUNNING", "CRASHED"}
             /\ \E c \in 2..MaxCrash : CrashRound(rd, c)
          \/ rd \in Rounds /\ FinishRound(rd)
      BY <2>1, StatusByWorker
    <3> QED
      BY <3>1 DEF StartRound, CrashRound, FinishRound, Exists, TypeOK
  <2> QED
    BY <2>1, <2>2, ServedKept
<1> QED
  BY <1>1, <1>2, <1>3, <1>4, <1>5

LEMMA ServedStep == IInv /\ LoneInv /\ ServedInv /\ [Next]_vars => ServedInv'
<1> SUFFICES ASSUME IInv, LoneInv, ServedInv, [Next]_vars, faults' = 0 PROVE Served'
  BY DEF ServedInv
<1>1. OnlyCrashes' /\ OnlyCrashes
  BY CrashesBefore DEF OnlyCrashes
<1>2. faults = 0
  BY <1>1, FaultsGrow DEF IInv, GameTypeOK
<1>3. TypeOK /\ RunInv /\ Lone /\ Served
  BY <1>1, <1>2 DEF IInv, GameTypeOK, RunInv, RunTypeOK, LoneInv, ServedInv
<1>4. CASE Worker
  BY <1>3, <1>4, ServedWorker
<1>5. CASE ~Worker
  <2>1. current' = current /\ status' = status /\ pc' = pc
    BY <1>1, <1>5, OthersStep DEF redisVars, workerVars
  <2>2. \A r \in Rounds : /\ Exists(r) <=> Exists(r)'
                          /\ status'[r] = "WAITING" => status[r] = "WAITING"
    BY <2>1 DEF Exists
  <2> QED
    BY <1>3, <2>1, <2>2, ServedKept
<1> QED
  BY <1>4, <1>5

\* As long as nothing fails, a stake queued during a round is served when the
\* next one is created: no request that resolved while the round flew slips into
\* the queue after that.
THEOREM QueueServed == Spec => []QueueServedByNextRound
<1>1. GameInit => ServedInv
  BY DEF GameInit, Init, ServedInv, Served, Exists
<1>2. IInv /\ LoneInv /\ ServedInv /\ [Next]_vars => ServedInv'
  BY ServedStep
<1>3. ServedInv => QueueServedByNextRound
  BY DEF ServedInv, Served, QueueServedByNextRound
<1> QED
  BY <1>1, <1>2, <1>3, Invariant, LoneInvariant, PTL DEF Spec

=============================================================================
