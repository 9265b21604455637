------------------------------ MODULE Deposits ------------------------------
(***************************************************************************)
(* Deposit intents: lib/payments, the routes under api/payments and the    *)
(* Telegram webhook.  A handler reads an intent, may ask the TON chain,    *)
(* and then writes a status without looking at what the row holds by then; *)
(* a crediting transaction reads the intent without a lock.  Each read,    *)
(* remote call and write is a step, so that any number of handlers, the    *)
(* reconcile job and Telegram's redeliveries interleave between them.      *)
(*                                                                         *)
(* A payment is a TON transfer with the intent's comment, or a charge for  *)
(* the intent's invoice: its amount, sender and signature are those the    *)
(* code checks for.  X_Something is a wrong form of X no action uses.      *)
(***************************************************************************)
EXTENDS Integers, Sequences, FiniteSets

CONSTANTS
    Intents, Payment,
    Clients,             \* bound: HTTP requests of users running at a time
    Hooks,               \* bound: webhook deliveries running at a time
    Cron,                \* the internal reconcile call
    MaxFaults,           \* bound: killed handlers and failed remote calls
    Nothing              \* no payment, no intent

ASSUME ProcsAssumption ==
    /\ Cron \notin Clients \cup Hooks /\ Clients \cap Hooks = {}
ASSUME NothingAssumption == Nothing \notin Payment \cup Intents
ASSUME FaultsAssumption == MaxFaults \in Nat

Procs == Clients \cup Hooks \cup {Cron}

VARIABLES
    provider,    \* DepositIntent.provider
    status,      \* DepositIntent.status, "NONE" before the row exists
    hash,        \* whether DepositIntent.txHash is set
    reference,   \* DepositIntent.ledgerReferenceId, as the payment it names
    expired,     \* expiresAt <= new Date()
    ledger,      \* ledger[x]: DEPOSIT entries credited under the name of x
    reward,      \* reward[x]: referral rewards credited for that deposit
    chain,       \* chain[i]: transfers with the comment of i, oldest first
    charge,      \* charge[x]: where Telegram stands with the charge x
    for,         \* the intent a payment is for
    event,       \* PaymentProviderEvent.status of the update about a charge
    acked,       \* charges whose update the webhook has answered with 200
    pc, at,      \* each handler's next step and its locals
    faults       \* faults so far

rowVars == <<provider, status, hash, reference, expired>>
bookVars == <<ledger, reward>>
worldVars == <<chain, charge, for>>
hookVars == <<event, acked>>
procVars == <<pc, at>>
vars == <<rowVars, bookVars, worldVars, hookVars, procVars, faults>>

Status == {"NONE", "CREATED", "WAITING_PAYMENT", "SUBMITTED", "CONFIRMING",
           "COMPLETED", "FAILED", "EXPIRED", "CANCELED"}
EventStatus == {"NONE", "RECEIVED", "PROCESSED", "FAILED"}
Terminal == {"COMPLETED", "FAILED", "EXPIRED", "CANCELED"}
Closed == Terminal \ {"COMPLETED"}
Job == {"submit", "get", "cancel", "cron", "payment"}
PC == {"idle", "reconcile", "remote", "write", "credit", "commit",
       "referral", "mark", "event"}
\* x: the payment it is about; entry: the deposit it has found or credited; seen:
\* the status it read; to, next: the status it will write, and its step after
\* that; note: what it will write into the event's row.
Local == [job : Job, i : Intents, x : Payment \cup {Nothing},
          entry : Payment \cup {Nothing}, seen : Status,
          to : Status, next : PC, note : EventStatus]

Init ==
    /\ provider \in [Intents -> {"TON_CONNECT", "TELEGRAM_STARS"}]
    /\ status = [i \in Intents |-> "NONE"]
    /\ hash = [i \in Intents |-> FALSE]
    /\ reference = [i \in Intents |-> Nothing]
    /\ expired = [i \in Intents |-> FALSE]
    /\ ledger = [x \in Payment |-> 0]
    /\ reward = [x \in Payment |-> 0]
    /\ chain = [i \in Intents |-> << >>]
    /\ charge = [x \in Payment |-> "none"]
    /\ for = [x \in Payment |-> Nothing]
    /\ event = [x \in Payment |-> "NONE"]
    /\ acked = {}
    /\ pc = [p \in Procs |-> "idle"]
    /\ at = [p \in Procs |-> Nothing]
    /\ faults = 0

Ton(i) == provider[i] = "TON_CONNECT"

Created(i, s) ==
    /\ status[i] = "NONE"
    /\ status' = [status EXCEPT ![i] = s]
    /\ UNCHANGED <<provider, hash, reference, expired, bookVars, worldVars,
                   hookVars, procVars, faults>>

\* Nobody knows an intent's id before the answer, so creation is one step.
CreateTonIntent(i) == Ton(i) /\ Created(i, "CREATED")

\* Without its invoice link it is FAILED.
CreateStarsIntent(i) ==
    ~Ton(i) /\ \E s \in {"WAITING_PAYMENT", "FAILED"} : Created(i, s)

\* A handler starts with what it has read already.
Start(p, job, i, x, first, to, next) ==
    /\ pc[p] = "idle"
    /\ pc' = [pc EXCEPT ![p] = first]
    /\ at' = [at EXCEPT ![p] = [job |-> job, i |-> i, x |-> x, entry |-> Nothing,
                                seen |-> "NONE", to |-> to, next |-> next,
                                note |-> "NONE"]]

Goto(p, step, local) ==
    /\ pc' = [pc EXCEPT ![p] = step]
    /\ at' = [at EXCEPT ![p] = local]
Return(p) == Goto(p, "idle", Nothing)

\* The step after a reconciliation or crediting: the status route looks at the
\* expiry, the webhook records how it went, the others answer.
After(job) == CASE job = "get" -> "mark" [] job = "payment" -> "event" [] OTHER -> "idle"

Done(p, note) ==
    IF After(at[p].job) = "idle" THEN Return(p)
    ELSE Goto(p, After(at[p].job), [at[p] EXCEPT !.note = note, !.entry = Nothing])
Throw(p) == Done(p, "FAILED")

WillWrite(p, s, next) == Goto(p, "write", [at[p] EXCEPT !.to = s, !.next = next])

-----------------------------------------------------------------------------
(* The world: transfers land, Telegram asks and charges, time passes.       *)

TransferLands(x, i) ==
    /\ Ton(i) /\ status[i] # "NONE" /\ for[x] = Nothing
    /\ \E success \in BOOLEAN :
          chain' = [chain EXCEPT ![i] = Append(@, [x |-> x, success |-> success])]
    /\ for' = [for EXCEPT ![x] = i]
    /\ UNCHANGED <<rowVars, bookVars, charge, hookVars, procVars, faults>>

\* The invoice link opens a checkout, more than once if the user likes.
CheckoutOpens(x, i) ==
    /\ ~Ton(i) /\ status[i] \notin {"NONE", "FAILED"} /\ for[x] = Nothing
    /\ for' = [for EXCEPT ![x] = i]
    /\ charge' = [charge EXCEPT ![x] = "asked"]
    /\ UNCHANGED <<rowVars, bookVars, chain, hookVars, procVars, faults>>

UserPays(x) ==
    /\ charge[x] = "approved"
    /\ charge' = [charge EXCEPT ![x] = "paid"]
    /\ UNCHANGED <<rowVars, bookVars, chain, for, hookVars, procVars, faults>>

Expires(i) ==
    /\ status[i] # "NONE" /\ ~expired[i]
    /\ expired' = [expired EXCEPT ![i] = TRUE]
    /\ UNCHANGED <<provider, status, hash, reference, bookVars, worldVars,
                   hookVars, procVars, faults>>

-----------------------------------------------------------------------------
(* The routes: submit, cancel, the status of an intent, the reconcile job.  *)

OnlyProc == UNCHANGED <<rowVars, bookVars, worldVars, hookVars, faults>>

\* Each route reads the intent and decides; one that refuses changes nothing.
\* Submit does not ask for the provider.
Submit(p, i) ==
    /\ status[i] \notin Terminal \cup {"NONE"}
    /\ Start(p, "submit", i, Nothing, "write", "SUBMITTED", "reconcile")
    /\ OnlyProc

Cancel(p, i) ==
    /\ Ton(i) /\ status[i] \notin Terminal \cup {"NONE", "SUBMITTED", "CONFIRMING"}
    /\ Start(p, "cancel", i, Nothing, "write", "CANCELED", "idle")
    /\ OnlyProc

GetStatus(p, i) ==
    /\ status[i] # "NONE"
    /\ Start(p, "get", i, Nothing,
             IF Ton(i) /\ status[i] \in {"SUBMITTED", "CONFIRMING"}
             THEN "reconcile" ELSE "mark", "NONE", "idle")
    /\ OnlyProc

\* listTonIntentsForReconcile.
StartCron(i) ==
    /\ Ton(i)
    /\ status[i] = "CONFIRMING" \/ (status[i] = "SUBMITTED" /\ ~expired[i])
    /\ Start(Cron, "cron", i, Nothing, "reconcile", "NONE", "idle")
    /\ OnlyProc

\* Every status but COMPLETED is written like this: whatever the row holds now.
WriteStatus(p) ==
    LET i == at[p].i IN
    /\ pc[p] = "write"
    /\ status' = [status EXCEPT ![i] = at[p].to]
    /\ hash' = [hash EXCEPT ![i] = @ \/ at[p].to = "SUBMITTED"]
    /\ IF at[p].next = "idle" THEN Return(p)
       ELSE Goto(p, at[p].next, [at[p] EXCEPT !.to = "NONE", !.next = "idle"])
    /\ UNCHANGED <<provider, reference, expired, bookVars, worldVars, hookVars, faults>>

\* reconcileTonIntent, up to the call of the TON API.
ReadForReconcile(p) ==
    LET i == at[p].i IN
    /\ pc[p] = "reconcile"
    /\ IF ~Ton(i) \/ status[i] \in Terminal \/ (~expired[i] /\ ~hash[i])
       THEN Done(p, "NONE")
       ELSE IF ~hash[i] THEN WillWrite(p, "EXPIRED", After(at[p].job))
       ELSE Goto(p, "remote", [at[p] EXCEPT !.seen = status[i]])
    /\ OnlyProc

\* findMatchingTonTransaction: the transfers of the address come newest first, and
\* the first with the intent's comment, sender and amount is taken.
Newest(i) == chain[i][Len(chain[i])]

AskChain(p) ==
    LET i == at[p].i
    IN /\ pc[p] = "remote"
       /\ IF chain[i] = << >>
          THEN IF at[p].seen \in {"CREATED", "SUBMITTED"}
               THEN WillWrite(p, "CONFIRMING", After(at[p].job)) ELSE Done(p, "NONE")
          ELSE IF Newest(i).success
               THEN Goto(p, "credit", [at[p] EXCEPT !.x = Newest(i).x])
          ELSE WillWrite(p, "FAILED", After(at[p].job))
       /\ OnlyProc

ChainCallFails(p) ==
    /\ pc[p] = "remote" /\ faults < MaxFaults
    /\ faults' = faults + 1
    /\ Throw(p)
    /\ UNCHANGED <<rowVars, bookVars, worldVars, hookVars>>

\* markIntentExpiredIfNeeded.
LateTon(i) == Ton(i) /\ status[i] \in {"SUBMITTED", "CONFIRMING"} /\ hash[i]

ReadForExpiry(p) ==
    LET i == at[p].i IN
    /\ pc[p] = "mark"
    /\ IF status[i] \in Terminal \/ LateTon(i) \/ ~expired[i] THEN Return(p)
       ELSE WillWrite(p, "EXPIRED", "idle")
    /\ OnlyProc

-----------------------------------------------------------------------------
(* Crediting: completeDepositIntent and the referral reward.                *)

ReadForCredit_Swallowed(p) ==
    LET i == at[p].i IN
    /\ pc[p] = "credit"
    /\ IF status[i] = "COMPLETED"
       THEN IF reference[i] # Nothing
            THEN Goto(p, "referral", [at[p] EXCEPT !.entry = reference[i]])
            ELSE Throw(p)
       ELSE IF status[i] \in Closed \/ (expired[i] /\ ~LateTon(i)) THEN Done(p, "PROCESSED")
       ELSE Goto(p, "commit", at[p])
    /\ OnlyProc

\* Inside the transaction, without a lock.  The EXPIRED it would write for an
\* expired intent is rolled back by the error it throws.
ReadForCredit(p) ==
    LET i == at[p].i IN
    /\ pc[p] = "credit"
    /\ IF status[i] = "COMPLETED"
       THEN IF reference[i] # Nothing
            THEN Goto(p, "referral", [at[p] EXCEPT !.entry = reference[i]])
            ELSE Throw(p)                       \* COMPLETED_INTENT_WITHOUT_LEDGER
       ELSE IF status[i] \in Closed \/ (expired[i] /\ ~LateTon(i)) THEN Throw(p)
       ELSE Goto(p, "commit", at[p])
    /\ OnlyProc

CommitCredit_ReferenceKept(p) ==
    LET i == at[p].i
        x == at[p].x
    IN /\ pc[p] = "commit"
       /\ IF ledger[x] > 0 THEN Throw(p) /\ UNCHANGED <<ledger, status, reference, hash>>
          ELSE /\ ledger' = [ledger EXCEPT ![x] = @ + 1]
               /\ status' = [status EXCEPT ![i] = "COMPLETED"]
               /\ hash' = [hash EXCEPT ![i] = @ \/ Ton(i)]
               /\ Goto(p, "referral", [at[p] EXCEPT !.entry = x])
               /\ UNCHANGED reference
       /\ UNCHANGED <<provider, expired, reward, worldVars, hookVars, faults>>

\* The entry's unique name (walletId, referenceId, type) makes a second
\* crediting of the payment fail, with all it wrote.
CommitCredit_NoUniqueEntry(p) ==
    LET i == at[p].i
        x == at[p].x
    IN /\ pc[p] = "commit"
       /\ ledger' = [ledger EXCEPT ![x] = @ + 1]
       /\ status' = [status EXCEPT ![i] = "COMPLETED"]
       /\ reference' = [reference EXCEPT ![i] = x]
       /\ hash' = [hash EXCEPT ![i] = @ \/ Ton(i)]
       /\ Goto(p, "referral", [at[p] EXCEPT !.entry = x])
       /\ UNCHANGED <<provider, expired, reward, worldVars, hookVars, faults>>

CommitCredit(p) ==
    LET i == at[p].i
        x == at[p].x
    IN /\ pc[p] = "commit"
       /\ IF ledger[x] > 0 THEN Throw(p) /\ UNCHANGED <<ledger, status, reference, hash>>
          ELSE /\ ledger' = [ledger EXCEPT ![x] = @ + 1]
               /\ status' = [status EXCEPT ![i] = "COMPLETED"]
               /\ reference' = [reference EXCEPT ![i] = x]
               /\ hash' = [hash EXCEPT ![i] = @ \/ Ton(i)]
               /\ Goto(p, "referral", [at[p] EXCEPT !.entry = x])
       /\ UNCHANGED <<provider, expired, reward, worldVars, hookVars, faults>>

PayReferral_NoUniqueEntry(p) ==
    /\ pc[p] = "referral"
    /\ reward' = [reward EXCEPT ![at[p].entry] = @ + 1]
    /\ Done(p, "PROCESSED")
    /\ UNCHANGED <<rowVars, ledger, worldVars, hookVars, faults>>

\* applyReferralRewardForDeposit, after the commit: named after the deposit's
\* entry, and its errors are swallowed.
PayReferral(p) ==
    /\ pc[p] = "referral"
    /\ reward' = [reward EXCEPT ![at[p].entry] = 1]
    /\ Done(p, "PROCESSED")
    /\ UNCHANGED <<rowVars, ledger, worldVars, hookVars, faults>>

ReferralFails(p) ==
    /\ pc[p] = "referral" /\ faults < MaxFaults
    /\ faults' = faults + 1
    /\ Done(p, "PROCESSED")
    /\ UNCHANGED <<rowVars, bookVars, worldVars, hookVars>>

-----------------------------------------------------------------------------
(* The webhook.                                                             *)

\* resolveIntentForPayload: an invoice's payload names the intent it was made for.
IntentOf(x) == for[x]

\* Telegram asks until it has an answer, and the answer tells of the moment the
\* intent was read.  The query's event row changes nothing that a second query
\* would find, and is left out.
PreCheckout(x) ==
    LET i == IntentOf(x) IN
    /\ charge[x] = "asked"
    /\ charge' = [charge EXCEPT ![x] =
          IF ~expired[i] /\ status[i] = "WAITING_PAYMENT" THEN "approved" ELSE "refused"]
    /\ UNCHANGED <<rowVars, bookVars, chain, for, hookVars, procVars, faults>>

\* Telegram sends the payment until the webhook answers with 200; two deliveries
\* may overlap.  A row left RECEIVED or FAILED is handled again.
Sent(x) == charge[x] = "paid" /\ x \notin acked

\* handleSuccessfulPayment goes on with completeDepositIntent.
HandlePayment(p, x) == Start(p, "payment", IntentOf(x), x, "credit", "NONE", "idle")

Deliver_OnceOnly(p, x) ==
    /\ Sent(x) /\ pc[p] = "idle"
    /\ IF event[x] # "NONE"
       THEN acked' = acked \cup {x} /\ UNCHANGED <<event, procVars>>
       ELSE /\ event' = [event EXCEPT ![x] = "RECEIVED"]
            /\ HandlePayment(p, x)
            /\ UNCHANGED acked
    /\ UNCHANGED <<rowVars, bookVars, worldVars, faults>>

Deliver(p, x) ==
    /\ Sent(x) /\ pc[p] = "idle"
    /\ IF event[x] = "PROCESSED"
       THEN acked' = acked \cup {x} /\ UNCHANGED <<event, procVars>>
       ELSE /\ event' = [event EXCEPT ![x] = IF @ = "NONE" THEN "RECEIVED" ELSE @]
            /\ HandlePayment(p, x)
            /\ UNCHANGED acked
    /\ UNCHANGED <<rowVars, bookVars, worldVars, faults>>

\* The event's row, then the answer: 500 when the handler threw.
RecordEvent(p) ==
    LET x == at[p].x IN
    /\ pc[p] = "event"
    /\ event' = [event EXCEPT ![x] = at[p].note]
    /\ acked' = IF at[p].note = "FAILED" THEN acked ELSE acked \cup {x}
    /\ Return(p)
    /\ UNCHANGED <<rowVars, bookVars, worldVars, faults>>

AnswerLost(p) ==
    /\ pc[p] = "event" /\ faults < MaxFaults
    /\ faults' = faults + 1
    /\ event' = [event EXCEPT ![at[p].x] = at[p].note]
    /\ Return(p)
    /\ UNCHANGED <<rowVars, bookVars, worldVars, acked>>

\* The process dies with the handler, or the handler fails before it has done
\* anything.
Killed(p) ==
    /\ pc[p] # "idle" /\ faults < MaxFaults
    /\ faults' = faults + 1
    /\ Return(p)
    /\ UNCHANGED <<rowVars, bookVars, worldVars, hookVars>>

-----------------------------------------------------------------------------
(* The specification.                                                       *)

\* What a handler does once it has been started.
Step(p) ==
    \/ WriteStatus(p) \/ ReadForReconcile(p) \/ AskChain(p)
    \/ ReadForExpiry(p) \/ ReadForCredit(p) \/ CommitCredit(p) \/ PayReferral(p)
    \/ RecordEvent(p)

Fault(p) ==
    ChainCallFails(p) \/ ReferralFails(p) \/ AnswerLost(p) \/ Killed(p)

Next ==
    \/ \E i \in Intents : \/ CreateTonIntent(i) \/ CreateStarsIntent(i)
                          \/ Expires(i) \/ StartCron(i)
    \/ \E x \in Payment : PreCheckout(x) \/ UserPays(x)
    \/ \E x \in Payment, i \in Intents : TransferLands(x, i) \/ CheckoutOpens(x, i)
    \/ \E p \in Clients, i \in Intents : Submit(p, i) \/ Cancel(p, i) \/ GetStatus(p, i)
    \/ \E p \in Hooks, x \in Payment : Deliver(p, x)
    \/ \E p \in Procs : Step(p) \/ Fault(p)

\* A running handler goes on, and Telegram repeats an update until it is
\* answered.  Nothing in the repository calls the reconcile job or makes a user
\* ask again, so neither is fair.
Fairness ==
    /\ \A p \in Procs : WF_vars(Step(p))
    /\ \A x \in Payment : SF_vars(\E p \in Hooks : Deliver(p, x))

Spec == Init /\ [][Next]_vars
FairSpec == Spec /\ Fairness

-----------------------------------------------------------------------------
(* Properties.                                                              *)

\* Every variable holds a value of its kind; a handler's locals are set while
\* it runs and name an intent that exists; a deposit is rewarded at most once.
TypeOK ==
    /\ provider \in [Intents -> {"TON_CONNECT", "TELEGRAM_STARS"}]
    /\ status \in [Intents -> Status]
    /\ hash \in [Intents -> BOOLEAN]
    /\ reference \in [Intents -> Payment \cup {Nothing}]
    /\ expired \in [Intents -> BOOLEAN]
    /\ ledger \in [Payment -> Nat] /\ reward \in [Payment -> 0..1]
    /\ chain \in [Intents -> Seq([x : Payment, success : BOOLEAN])]
    /\ charge \in [Payment -> {"none", "asked", "approved", "refused", "paid"}]
    /\ for \in [Payment -> Intents \cup {Nothing}]
    /\ event \in [Payment -> EventStatus] /\ acked \subseteq Payment
    /\ pc \in [Procs -> PC]
    /\ at \in [Procs -> Local \cup {Nothing}]
    /\ \A p \in Procs : pc[p] # "idle" => at[p] \in Local /\ status[at[p].i] # "NONE"

Landed(x) == for[x] # Nothing /\ \E n \in 1..Len(chain[for[x]]) :
                chain[for[x]][n] = [x |-> x, success |-> TRUE]
Made == {x \in Payment : charge[x] = "paid" \/ Landed(x)}

Promise == INSTANCE Payments WITH made <- Made, credited <- ledger

\* Whatever statuses concurrent handlers overwrite, however often an update or
\* a reconciliation is repeated and wherever one dies, a payment is credited at
\* most once, and only one that was made: deposits implement Payments.
CreditsRefined == Promise!Spec

CreditedFor(i) == \E x \in Payment : for[x] = i /\ ledger[x] > 0

\* An intent is COMPLETED only with the ledger entry it refers to, so that a
\* repeated completion finds it (COMPLETED_INTENT_WITHOUT_LEDGER is never
\* thrown), and the entry is of a payment for this intent.
CompletedMeansCredited ==
    \A i \in Intents : status[i] = "COMPLETED" =>
        /\ reference[i] # Nothing
        /\ ledger[reference[i]] = 1 /\ for[reference[i]] = i

\* A payment update is marked as PROCESSED, and not delivered again, only once
\* its intent has been credited: by this charge or by another charge of the same
\* intent, whose handler then answers alreadyCompleted for this one.
ProcessedMeansCredited ==
    \A x \in Payment :
        event[x] = "PROCESSED" => CreditedFor(for[x])

\* The intent of a paid charge comes to be credited, by this charge or by another
\* of its charges, through failed handlings, killed processes and redeliveries,
\* unless it expires or is closed first.
PaidIntentCredited ==
    \A x \in Payment : charge[x] = "paid" ~> \E i \in Intents :
        for[x] = i /\ (CreditedFor(i) \/ expired[i] \/ status[i] \in Closed)
=============================================================================
