--------------------------- MODULE Deposits_proofs ---------------------------
(***************************************************************************)
(* Theorems of Deposits for every set of intents, payments and handlers,   *)
(* every number of faults and every order of their steps: the deposits     *)
(* implement Payments, and a completed intent has its ledger entry.        *)
(***************************************************************************)
EXTENDS Deposits, SequenceTheorems, TLAPS

-----------------------------------------------------------------------------
(* The inductive invariant.                                                 *)

\* The statuses that are written without a look at the row.
Written == {"SUBMITTED", "CANCELED", "EXPIRED", "CONFIRMING", "FAILED"}

\* What landed for an intent is for it, and a charge is for some intent.
WorldAgrees ==
    /\ \A i \in Intents : \A n \in 1..Len(chain[i]) : for[chain[i][n].x] = i
    /\ \A x \in Payment : charge[x] # "none" => for[x] \in Intents

\* Nobody pays for an intent that does not exist.
Opened == \A x \in Payment : for[x] # Nothing => status[for[x]] # "NONE"

\* Only payments that were made are credited, each once.
CreditsMade ==
    /\ ledger \in [Payment -> 0..1]
    /\ \A x \in Payment : ledger[x] = 1 => x \in Made

\* The reference of an intent is never given up, and outlives its statuses.
References ==
    \A i \in Intents :
        /\ status[i] = "COMPLETED" => reference[i] # Nothing
        /\ reference[i] # Nothing => ledger[reference[i]] = 1 /\ for[reference[i]] = i

\* What a running handler may rely on.
Knows(p) ==
    LET t == at[p] IN
    /\ t.job = "payment" => /\ pc[p] \in {"credit", "commit", "referral", "event"}
                            /\ t.x \in Payment /\ for[t.x] = t.i /\ charge[t.x] = "paid"
    /\ pc[p] = "event" => t.job = "payment"
    /\ pc[p] \in {"credit", "commit"} => t.x \in Payment /\ t.x \in Made /\ for[t.x] = t.i
    /\ pc[p] = "referral" => t.entry \in Payment /\ CreditedFor(t.i)
    /\ pc[p] = "event" /\ t.note = "PROCESSED" => CreditedFor(t.i)
    /\ pc[p] = "write" => t.to \in Written /\ t.next \in {"idle", "mark", "reconcile"}

HandlersKnow == \A p \in Procs : pc[p] # "idle" => Knows(p)

IInv ==
    /\ TypeOK /\ WorldAgrees /\ Opened /\ CreditsMade /\ References
    /\ HandlersKnow /\ ProcessedMeansCredited

\* What has happened stays so.
Grows ==
    /\ \A x \in Payment : for[x] # Nothing => for'[x] = for[x]
    /\ \A x \in Payment : ledger[x] = 1 => ledger'[x] = 1
    /\ \A x \in Payment : charge[x] = "paid" => charge'[x] = "paid"
    /\ \A x \in Payment : x \in Made => x \in Made'
    /\ \A i \in Intents : status[i] # "NONE" => status'[i] # "NONE"

-----------------------------------------------------------------------------
(* Steps of handlers.                                                       *)

\* A handler's step leaves every handler with locals of their kind.
LEMMA GotoTyped ==
    ASSUME TypeOK, NEW p \in Procs, NEW step \in PC, NEW local \in Local \cup {Nothing},
           step # "idle" => local \in Local /\ status'[local.i] # "NONE",
           \A i \in Intents : status[i] # "NONE" => status'[i] # "NONE",
           Goto(p, step, local)
    PROVE  /\ pc' \in [Procs -> PC]
           /\ at' \in [Procs -> Local \cup {Nothing}]
           /\ \A q \in Procs : pc'[q] # "idle" =>
                 at'[q] \in Local /\ status'[at'[q].i] # "NONE"
<1>1. pc' = [pc EXCEPT ![p] = step] /\ at' = [at EXCEPT ![p] = local]
  BY DEF Goto
<1>2. pc' \in [Procs -> PC] /\ at' \in [Procs -> Local \cup {Nothing}]
  BY <1>1 DEF TypeOK
<1>3. ASSUME NEW q \in Procs, pc'[q] # "idle"
      PROVE  at'[q] \in Local /\ status'[at'[q].i] # "NONE"
  <2>1. CASE q = p
    BY <1>1, <1>3, <2>1 DEF TypeOK
  <2>2. CASE q # p
    <3>1. pc'[q] = pc[q] /\ at'[q] = at[q]
      BY <1>1, <2>2 DEF TypeOK
    <3>2. at[q] \in Local /\ status[at[q].i] # "NONE"
      BY <1>3, <3>1 DEF TypeOK
    <3>3. at[q].i \in Intents
      BY <3>2 DEF Local
    <3>4. QED
      BY <3>1, <3>2, <3>3
  <2>3. QED
    BY <2>1, <2>2
<1>4. QED
  BY <1>2, <1>3

\* Nor does it make another handler forget.
LEMMA OthersKnow ==
    ASSUME TypeOK, CreditsMade, HandlersKnow, Grows, NEW q \in Procs,
           pc'[q] = pc[q], at'[q] = at[q], pc[q] # "idle"
    PROVE  Knows(q)'
<1> DEFINE t == at[q]
<1>1. t \in Local /\ Knows(q) /\ at'[q] = t
  BY DEF TypeOK, HandlersKnow
<1>2. t.i \in Intents /\ t.i # Nothing
  BY <1>1, NothingAssumption DEF Local
<1>3. \A x \in Payment : for[x] = t.i => for'[x] = t.i
  BY <1>2 DEF Grows
<1>4. CreditedFor(t.i) => CreditedFor(t.i)'
  <2> SUFFICES ASSUME NEW x \in Payment, for[x] = t.i, ledger[x] > 0
               PROVE  for'[x] = t.i /\ ledger'[x] > 0
    BY DEF CreditedFor
  <2>1. ledger[x] = 1
    BY DEF CreditsMade
  <2>2. QED
    BY <1>3, <2>1 DEF Grows
<1>5. QED
  BY <1>1, <1>3, <1>4 DEF Knows, Grows

\* The invariant of the handlers, from what one of them has done.
LEMMA HandlersStep ==
    ASSUME TypeOK, CreditsMade, HandlersKnow, Grows, NEW p \in Procs,
           NEW step, NEW local, Goto(p, step, local),
           pc'[p] # "idle" => Knows(p)'
    PROVE  HandlersKnow'
<1> SUFFICES ASSUME NEW q \in Procs, pc'[q] # "idle" PROVE Knows(q)'
  BY DEF HandlersKnow
<1>1. CASE q = p
  BY <1>1
<1>2. CASE q # p
  <2>1. pc'[q] = pc[q] /\ at'[q] = at[q]
    BY <1>2 DEF Goto, TypeOK
  <2>2. QED
    BY <2>1, OthersKnow
<1>3. QED
  BY <1>1, <1>2

\* What no handler has touched.
LEMMA WorldKept ==
    ASSUME WorldAgrees, UNCHANGED worldVars
    PROVE  WorldAgrees' /\ Made' = Made
  BY DEF WorldAgrees, worldVars, Made, Landed

LEMMA OpenedKept ==
    ASSUME TypeOK, Opened, Grows, UNCHANGED worldVars
    PROVE  Opened'
  BY DEF TypeOK, Opened, Grows, worldVars

LEMMA BooksKept ==
    ASSUME WorldAgrees, CreditsMade, UNCHANGED <<worldVars, ledger>>
    PROVE  CreditsMade' /\ \A i \in Intents : CreditedFor(i) => CreditedFor(i)'
<1>1. Made' = Made
  BY WorldKept
<1>2. QED
  BY <1>1 DEF CreditsMade, CreditedFor, worldVars

LEMMA RowsKept ==
    ASSUME References, UNCHANGED <<worldVars, ledger, reference>>,
           \A i \in Intents : status'[i] = "COMPLETED" => status[i] = "COMPLETED"
    PROVE  References'
  BY DEF References, worldVars

LEMMA EventsKept ==
    ASSUME ProcessedMeansCredited, UNCHANGED <<worldVars, ledger, event>>
    PROVE  ProcessedMeansCredited'
  BY DEF ProcessedMeansCredited, CreditedFor, worldVars

\* A step that leaves the world and the ledger alone makes nothing unhappen.
LEMMA GrowsKept ==
    ASSUME WorldAgrees, UNCHANGED <<worldVars, ledger>>,
           \A i \in Intents : status[i] # "NONE" => status'[i] # "NONE"
    PROVE  Grows
<1>1. Made' = Made
  BY WorldKept
<1>2. QED
  BY <1>1 DEF Grows, worldVars

\* All of it together: a handler's step that touches no row.
LEMMA QuietStep ==
    ASSUME IInv, NEW p \in Procs, NEW step \in PC, NEW local \in Local \cup {Nothing},
           Goto(p, step, local),
           step # "idle" => local \in Local /\ status[local.i] # "NONE",
           pc'[p] # "idle" => Knows(p)',
           UNCHANGED <<rowVars, bookVars, worldVars, hookVars>>
    PROVE  IInv'
<1>1. Grows
  BY GrowsKept DEF IInv, rowVars, bookVars
<1>2. TypeOK'
  <2>1. /\ pc' \in [Procs -> PC]
        /\ at' \in [Procs -> Local \cup {Nothing}]
        /\ \A q \in Procs : pc'[q] # "idle" =>
              at'[q] \in Local /\ status'[at'[q].i] # "NONE"
    BY GotoTyped DEF IInv, rowVars
  <2>2. QED
    BY <2>1 DEF IInv, TypeOK, rowVars, bookVars, worldVars, hookVars
<1>3. HandlersKnow'
  BY <1>1, HandlersStep DEF IInv
<1>4. WorldAgrees' /\ CreditsMade'
  BY WorldKept, BooksKept DEF IInv, bookVars
<1>5. References'
  BY RowsKept DEF IInv, rowVars, bookVars
<1>6. ProcessedMeansCredited'
  BY EventsKept DEF IInv, bookVars, hookVars
<1>7. Opened'
  BY <1>1, OpenedKept DEF IInv
<1>8. QED
  BY <1>2, <1>3, <1>4, <1>5, <1>6, <1>7 DEF IInv

\* How a handler ends its reconciliation or crediting.
LEMMA DoneStep ==
    ASSUME TypeOK, HandlersKnow, Grows, NEW p \in Procs, pc[p] # "idle",
           NEW note \in EventStatus, Done(p, note),
           note = "PROCESSED" /\ at[p].job = "payment" =>
               \A j \in Intents : j = at[p].i => CreditedFor(j)'
    PROVE  \E step \in PC, local \in Local \cup {Nothing} :
              /\ Goto(p, step, local)
              /\ step # "idle" => local \in Local /\ status[local.i] # "NONE"
              /\ pc'[p] # "idle" => Knows(p)'
<1> DEFINE t == at[p]
           u == [at[p] EXCEPT !.note = note, !.entry = Nothing]
<1>1. t \in Local /\ status[t.i] # "NONE" /\ Knows(p)
  BY DEF TypeOK, HandlersKnow
<1>2. u \in Local /\ u.i = t.i /\ u.job = t.job /\ u.x = t.x /\ u.note = note
  BY <1>1 DEF Local
<1>3. CASE After(t.job) = "idle"
  <2>1. Goto(p, "idle", Nothing)
    BY <1>3 DEF Done, Return
  <2>2. pc'[p] = "idle"
    BY <2>1 DEF Goto, TypeOK
  <2>3. QED
    BY <2>1, <2>2 DEF PC
<1>4. CASE After(t.job) = "mark" /\ t.job = "get"
  <2>1. Goto(p, "mark", u)
    BY <1>4 DEF Done
  <2>2. pc'[p] = "mark" /\ at'[p] = u
    BY <2>1 DEF Goto, TypeOK
  <2>3. Knows(p)'
    BY <1>2, <1>4, <2>2 DEF Knows
  <2>4. QED
    BY <1>1, <1>2, <2>1, <2>3 DEF PC
<1>5. CASE After(t.job) = "event" /\ t.job = "payment"
  <2>1. Goto(p, "event", u)
    BY <1>5 DEF Done
  <2>2. pc'[p] = "event" /\ at'[p] = u
    BY <2>1 DEF Goto, TypeOK
  <2>3. t.x \in Payment /\ for'[t.x] = t.i /\ charge'[t.x] = "paid"
    BY <1>1, <1>5, NothingAssumption DEF Knows, Grows, Local
  <2>4. note = "PROCESSED" => CreditedFor(at[p].i)'
    BY <1>1, <1>2, <1>5, <2>2 DEF Local
  <2>5. Knows(p)'
    BY <1>2, <1>5, <2>2, <2>3, <2>4 DEF Knows
  <2>6. QED
    BY <1>1, <1>2, <2>1, <2>5 DEF PC
<1>6. QED
  BY <1>3, <1>4, <1>5 DEF After

\* How it goes on to write a status.
LEMMA WriteStep ==
    ASSUME TypeOK, NEW p \in Procs, pc[p] # "idle", at[p].job # "payment",
           NEW s \in Written, NEW next \in {"idle", "mark", "reconcile"},
           WillWrite(p, s, next)
    PROVE  \E step \in PC, local \in Local \cup {Nothing} :
              /\ Goto(p, step, local)
              /\ step # "idle" => local \in Local /\ status[local.i] # "NONE"
              /\ pc'[p] # "idle" => Knows(p)'
<1> DEFINE u == [at[p] EXCEPT !.to = s, !.next = next]
<1>1. at[p] \in Local /\ status[at[p].i] # "NONE"
  BY DEF TypeOK
<1>2. /\ u \in Local /\ u.i = at[p].i /\ u.job = at[p].job
      /\ u.to = s /\ u.next = next
  BY <1>1 DEF Local, Written, Status, PC
<1>3. Goto(p, "write", u)
  BY DEF WillWrite
<1>4. pc'[p] = "write" /\ at'[p] = u
  BY <1>3 DEF Goto, TypeOK
<1>5. Knows(p)'
  BY <1>2, <1>4 DEF Knows
<1>6. QED
  BY <1>1, <1>2, <1>3, <1>5 DEF PC

\* The end of a handler.
LEMMA ReturnStep ==
    ASSUME TypeOK, NEW p \in Procs, Return(p)
    PROVE  \E step \in PC, local \in Local \cup {Nothing} :
              /\ Goto(p, step, local)
              /\ step # "idle" => local \in Local /\ status[local.i] # "NONE"
              /\ pc'[p] # "idle" => Knows(p)'
<1>1. Goto(p, "idle", Nothing)
  BY DEF Return
<1>2. pc'[p] = "idle"
  BY <1>1 DEF Goto, TypeOK
<1>3. QED
  BY <1>1, <1>2 DEF PC

\* The three of them in a step that touches no row.
LEMMA QuietDone ==
    ASSUME IInv, NEW p \in Procs,
           UNCHANGED <<rowVars, bookVars, worldVars, hookVars>>,
           \E step \in PC, local \in Local \cup {Nothing} :
              /\ Goto(p, step, local)
              /\ step # "idle" => local \in Local /\ status[local.i] # "NONE"
              /\ pc'[p] # "idle" => Knows(p)'
    PROVE  IInv'
  BY QuietStep

\* A handler that starts.
LEMMA StartStep ==
    ASSUME TypeOK, NEW p \in Procs, NEW job \in Job \ {"payment"}, NEW i \in Intents,
           NEW first \in {"reconcile", "write", "mark"},
           NEW to \in Status, NEW next \in PC,
           first = "write" => to \in Written /\ next \in {"idle", "mark", "reconcile"},
           status[i] # "NONE",
           Start(p, job, i, Nothing, first, to, next)
    PROVE  \E step \in PC, local \in Local \cup {Nothing} :
              /\ Goto(p, step, local)
              /\ step # "idle" => local \in Local /\ status[local.i] # "NONE"
              /\ pc'[p] # "idle" => Knows(p)'
<1> DEFINE u == [job |-> job, i |-> i, x |-> Nothing, entry |-> Nothing,
                 seen |-> "NONE", to |-> to, next |-> next, note |-> "NONE"]
<1>1. u \in Local /\ u.i = i /\ u.job # "payment" /\ u.to = to /\ u.next = next
  BY DEF Local, Status, EventStatus
<1>2. Goto(p, first, u)
  BY DEF Start, Goto
<1>3. pc'[p] = first /\ at'[p] = u
  BY <1>2 DEF Goto, TypeOK
<1>4. Knows(p)'
  BY <1>1, <1>3 DEF Knows
<1>5. QED
  BY <1>1, <1>2, <1>4 DEF PC

-----------------------------------------------------------------------------
(* The actions, one lemma each or per kind.                                 *)

LEMMA StartInv ==
    ASSUME IInv, NEW p \in Procs, NEW i \in Intents,
           \/ Submit(p, i) \/ Cancel(p, i) \/ GetStatus(p, i)
           \/ p = Cron /\ StartCron(i)
    PROVE  IInv'
<1> USE DEF Written, Job, Status, PC
<1>1. TypeOK
  BY DEF IInv
<1>2. UNCHANGED <<rowVars, bookVars, worldVars, hookVars>>
  BY DEF Submit, Cancel, GetStatus, StartCron, OnlyProc
<1>3. CASE Submit(p, i)
  <2>1. status[i] # "NONE"
        /\ Start(p, "submit", i, Nothing, "write", "SUBMITTED", "reconcile")
    BY <1>3 DEF Submit
  <2>2. QED
    BY <1>1, <1>2, <2>1, StartStep, QuietDone
<1>4. CASE Cancel(p, i)
  <2>1. status[i] # "NONE"
        /\ Start(p, "cancel", i, Nothing, "write", "CANCELED", "idle")
    BY <1>4 DEF Cancel
  <2>2. QED
    BY <1>1, <1>2, <2>1, StartStep, QuietDone
<1>5. CASE GetStatus(p, i)
  <2>1. PICK first \in {"reconcile", "mark"} : status[i] # "NONE"
        /\ Start(p, "get", i, Nothing, first, "NONE", "idle")
    BY <1>5 DEF GetStatus
  <2>2. QED
    BY <1>1, <1>2, <2>1, StartStep, QuietDone
<1>6. CASE p = Cron /\ StartCron(i)
  <2>1. status[i] # "NONE"
        /\ Start(p, "cron", i, Nothing, "reconcile", "NONE", "idle")
    BY <1>6 DEF StartCron
  <2>2. QED
    BY <1>1, <1>2, <2>1, StartStep, QuietDone
<1>7. QED
  BY <1>3, <1>4, <1>5, <1>6

\* What the leaves below start from.
LEMMA Standing ==
    ASSUME IInv, NEW p \in Procs, pc[p] # "idle"
    PROVE  /\ at[p] \in Local /\ at[p].i \in Intents /\ status[at[p].i] # "NONE"
           /\ Knows(p)
  BY DEF IInv, TypeOK, HandlersKnow, Local

LEMMA QuietGrows ==
    ASSUME IInv, UNCHANGED <<rowVars, bookVars, worldVars>>
    PROVE  Grows /\ \A i \in Intents : CreditedFor(i) => CreditedFor(i)'
  BY GrowsKept, BooksKept DEF IInv, rowVars, bookVars

LEMMA ReconcileInv ==
    ASSUME IInv, NEW p \in Procs, ReadForReconcile(p)
    PROVE  IInv'
<1> DEFINE next == After(at[p].job)
<1>1. pc[p] = "reconcile" /\ UNCHANGED <<rowVars, bookVars, worldVars, hookVars>>
  BY DEF ReadForReconcile, OnlyProc
<1>2. /\ at[p] \in Local /\ status[at[p].i] # "NONE" /\ at[p].job # "payment"
      /\ Grows
  BY <1>1, Standing, QuietGrows DEF Knows
<1>3. next \in {"idle", "mark", "reconcile"}
  BY <1>2 DEF After
<1>4. CASE Done(p, "NONE")
  BY <1>1, <1>2, <1>4, DoneStep, QuietDone DEF IInv, EventStatus
<1>5. CASE WillWrite(p, "EXPIRED", next)
  BY <1>1, <1>2, <1>3, <1>5, WriteStep, QuietDone DEF IInv, Written
<1>6. CASE Goto(p, "remote", [at[p] EXCEPT !.seen = status[at[p].i]])
  <2> DEFINE u == [at[p] EXCEPT !.seen = status[at[p].i]]
  <2>1. u \in Local /\ u.i = at[p].i /\ u.job = at[p].job
    BY <1>2 DEF IInv, TypeOK, Local
  <2>2. pc'[p] = "remote" /\ at'[p] = u
    BY <1>6 DEF Goto, IInv, TypeOK
  <2>3. Knows(p)'
    BY <1>2, <2>1, <2>2 DEF Knows
  <2>4. QED
    BY <1>1, <1>2, <1>6, <2>1, <2>3, QuietStep DEF PC
<1>7. QED
  BY <1>4, <1>5, <1>6 DEF ReadForReconcile

\* The transfer that is found is one for the intent, and has succeeded.
LEMMA AskChainInv ==
    ASSUME IInv, NEW p \in Procs, AskChain(p)
    PROVE  IInv'
<1> DEFINE next == After(at[p].job)
           found == chain[at[p].i]
           newest == found[Len(found)]
<1>1. pc[p] = "remote" /\ UNCHANGED <<rowVars, bookVars, worldVars, hookVars>>
  BY DEF AskChain, OnlyProc
<1>2. /\ at[p] \in Local /\ at[p].i \in Intents /\ status[at[p].i] # "NONE"
      /\ at[p].job # "payment" /\ Grows
  BY <1>1, Standing, QuietGrows DEF Knows
<1>3. next \in {"idle", "mark", "reconcile"}
  BY <1>2 DEF After
<1>4. CASE Done(p, "NONE")
  BY <1>1, <1>2, <1>4, DoneStep, QuietDone DEF IInv, EventStatus
<1>5. CASE WillWrite(p, "CONFIRMING", next) \/ WillWrite(p, "FAILED", next)
  BY <1>1, <1>2, <1>3, <1>5, WriteStep, QuietDone DEF IInv, Written
<1>6. CASE /\ found # << >> /\ newest.success
           /\ Goto(p, "credit", [at[p] EXCEPT !.x = newest.x])
  <2> DEFINE u == [at[p] EXCEPT !.x = newest.x]
  <2>1. found \in Seq([x : Payment, success : BOOLEAN])
    BY <1>2 DEF IInv, TypeOK
  <2>2. Len(found) \in 1..Len(found) /\ newest \in [x : Payment, success : BOOLEAN]
    <3>1. found # << >>
      BY <1>6
    <3>2. Len(found) \in Nat \ {0}
      BY <2>1, <3>1, EmptySeq
    <3>3. Len(found) \in 1..Len(found)
      BY <3>2
    <3>4. QED
      BY <2>1, <3>3, ElementOfSeq
  <2>3. newest.x \in Payment /\ newest = [x |-> newest.x, success |-> TRUE]
    BY <1>6, <2>2
  <2>4. for[newest.x] = at[p].i
    BY <1>2, <2>2 DEF IInv, WorldAgrees
  <2>5. newest.x \in Made
    BY <1>2, <2>2, <2>3, <2>4, NothingAssumption DEF Made, Landed
  <2>6. newest.x \in Made'
    BY <1>2, <2>3, <2>5 DEF Grows
  <2>7. u \in Local /\ u.i = at[p].i /\ u.job = at[p].job /\ u.x = newest.x
    BY <1>2, <2>3 DEF Local
  <2>8. pc'[p] = "credit" /\ at'[p] = u /\ for' = for
    BY <1>1, <1>6 DEF Goto, IInv, TypeOK, worldVars
  <2>9. Knows(p)'
    BY <1>2, <2>3, <2>4, <2>6, <2>7, <2>8 DEF Knows
  <2>10. QED
    BY <1>1, <1>2, <1>6, <2>7, <2>9, QuietStep DEF PC
<1>7. QED
  BY <1>4, <1>5, <1>6 DEF AskChain, Newest

LEMMA ExpiryInv ==
    ASSUME IInv, NEW p \in Procs, ReadForExpiry(p)
    PROVE  IInv'
<1>1. pc[p] = "mark" /\ UNCHANGED <<rowVars, bookVars, worldVars, hookVars>>
  BY DEF ReadForExpiry, OnlyProc
<1>2. at[p].job # "payment"
  BY <1>1, Standing DEF Knows
<1>3. CASE Return(p)
  BY <1>1, <1>3, ReturnStep, QuietDone DEF IInv
<1>4. CASE WillWrite(p, "EXPIRED", "idle")
  BY <1>1, <1>2, <1>4, WriteStep, QuietDone DEF IInv, Written
<1>5. QED
  BY <1>3, <1>4 DEF ReadForExpiry

\* A completed intent has the entry it refers to, so the handler that finds it
\* completed has a deposit to reward.
LEMMA ReadForCreditInv ==
    ASSUME IInv, NEW p \in Procs, ReadForCredit(p)
    PROVE  IInv'
<1> DEFINE i == at[p].i
           u == [at[p] EXCEPT !.entry = reference[i]]
<1>1. pc[p] = "credit" /\ UNCHANGED <<rowVars, bookVars, worldVars, hookVars>>
  BY DEF ReadForCredit, OnlyProc
<1>2. at[p] \in Local /\ i \in Intents /\ status[i] # "NONE" /\ Knows(p)
  BY <1>1, Standing
<1>3. Grows /\ \A j \in Intents : CreditedFor(j) => CreditedFor(j)'
  BY <1>1, QuietGrows
<1>4. CASE Throw(p)
  <2>1. Done(p, "FAILED")
    BY <1>4 DEF Throw
  <2>2. QED
    BY <1>1, <1>3, <2>1, DoneStep, QuietDone DEF IInv, EventStatus
<1>5. CASE Goto(p, "commit", at[p])
  <2>1. pc'[p] = "commit" /\ at'[p] = at[p] /\ for' = for
    BY <1>1, <1>5 DEF Goto, IInv, TypeOK, worldVars
  <2>2. Knows(p)'
    BY <1>1, <1>2, <1>3, <2>1 DEF Knows, Grows
  <2>3. QED
    BY <1>1, <1>2, <1>5, <2>2, QuietStep DEF PC
<1>6. CASE /\ status[i] = "COMPLETED" /\ reference[i] # Nothing
           /\ Goto(p, "referral", u)
  <2>1. reference[i] \in Payment /\ ledger[reference[i]] = 1 /\ for[reference[i]] = i
    BY <1>2, <1>6 DEF IInv, TypeOK, References
  <2>2. \A j \in Intents : j = i => CreditedFor(j)'
    BY <1>3, <2>1 DEF CreditedFor
  <2>3. /\ u \in Local /\ u.i = i /\ u.job = at[p].job /\ u.x = at[p].x
        /\ u.entry = reference[i]
    BY <1>2, <2>1 DEF Local
  <2>4. pc'[p] = "referral" /\ at'[p] = u /\ for' = for /\ charge' = charge
    BY <1>1, <1>6 DEF Goto, IInv, TypeOK, worldVars
  <2>5. CreditedFor(at[p].i)'
    BY <1>2, <2>2, <2>3, <2>4
  <2>6. Knows(p)'
    BY <1>2, <2>1, <2>3, <2>4, <2>5 DEF Knows
  <2>7. QED
    BY <1>1, <1>2, <1>6, <2>3, <2>6, QuietStep DEF PC
<1>7. QED
  BY <1>4, <1>5, <1>6 DEF ReadForCredit

LEMMA QuietFaultInv ==
    ASSUME IInv, NEW p \in Procs, ChainCallFails(p) \/ ReferralFails(p) \/ Killed(p)
    PROVE  IInv'
<1>1. pc[p] # "idle" /\ UNCHANGED <<rowVars, bookVars, worldVars, hookVars>>
  BY DEF ChainCallFails, ReferralFails, Killed
<1>2. Knows(p) /\ at[p].i \in Intents
      /\ Grows /\ \A j \in Intents : CreditedFor(j) => CreditedFor(j)'
  BY <1>1, Standing, QuietGrows
<1>3. CASE ChainCallFails(p)
  <2>1. Done(p, "FAILED")
    BY <1>3 DEF ChainCallFails, Throw
  <2>2. QED
    BY <1>1, <1>2, <2>1, DoneStep, QuietDone DEF IInv, EventStatus
<1>4. CASE ReferralFails(p)
  <2>1. Done(p, "PROCESSED") /\ CreditedFor(at[p].i)
    BY <1>2, <1>4 DEF ReferralFails, Knows
  <2>2. QED
    BY <1>1, <1>2, <2>1, DoneStep, QuietDone DEF IInv, EventStatus
<1>5. CASE Killed(p)
  BY <1>1, <1>5, ReturnStep, QuietDone DEF IInv, Killed
<1>6. QED
  BY <1>3, <1>4, <1>5

\* No status but COMPLETED is ever written blindly, and none of them says that
\* anything was credited.
LEMMA WriteStatusInv ==
    ASSUME IInv, NEW p \in Procs, WriteStatus(p)
    PROVE  IInv'
<1> DEFINE i == at[p].i
           s == at[p].to
           u == [at[p] EXCEPT !.to = "NONE", !.next = "idle"]
<1>1. /\ pc[p] = "write" /\ status' = [status EXCEPT ![i] = s]
      /\ hash' = [hash EXCEPT ![i] = @ \/ s = "SUBMITTED"]
      /\ UNCHANGED <<provider, reference, expired, bookVars, worldVars, hookVars>>
  BY DEF WriteStatus
<1>2. /\ at[p] \in Local /\ i \in Intents /\ s \in Written
      /\ at[p].next \in {"idle", "mark", "reconcile"} /\ at[p].job # "payment"
  BY <1>1, Standing DEF Knows
<1>3. /\ s \in Status /\ s # "NONE" /\ s # "COMPLETED"
  BY <1>2 DEF Written, Status
<1>4. /\ status' \in [Intents -> Status]
      /\ \A j \in Intents : status[j] # "NONE" => status'[j] # "NONE"
      /\ \A j \in Intents : status'[j] = "COMPLETED" => status[j] = "COMPLETED"
      /\ status'[i] # "NONE"
  BY <1>1, <1>2, <1>3 DEF IInv, TypeOK
<1>5. hash' \in [Intents -> BOOLEAN]
  BY <1>1 DEF IInv, TypeOK
<1>6. Grows
  BY <1>1, <1>4, GrowsKept DEF IInv, bookVars
<1>7. \E step \in PC, local \in Local \cup {Nothing} :
          /\ Goto(p, step, local)
          /\ step # "idle" => local \in Local /\ status'[local.i] # "NONE"
          /\ pc'[p] # "idle" => Knows(p)'
  <2>1. CASE at[p].next = "idle"
    <3>1. Return(p)
      BY <2>1 DEF WriteStatus
    <3>2. Goto(p, "idle", Nothing) /\ pc'[p] = "idle"
      BY <3>1 DEF Return, Goto, IInv, TypeOK
    <3>3. QED
      BY <3>2 DEF PC
  <2>2. CASE at[p].next # "idle"
    <3>1. Goto(p, at[p].next, u)
      BY <2>2 DEF WriteStatus
    <3>2. u \in Local /\ u.i = i /\ u.job = at[p].job
      BY <1>2 DEF Local, Status, PC
    <3>3. pc'[p] \in {"mark", "reconcile"} /\ at'[p] = u
      BY <1>2, <2>2, <3>1 DEF Goto, IInv, TypeOK
    <3>4. Knows(p)'
      BY <1>2, <3>2, <3>3 DEF Knows
    <3>5. QED
      BY <1>2, <1>4, <3>1, <3>2, <3>4 DEF PC
  <2>3. QED
    BY <2>1, <2>2
<1>8. TypeOK'
  <2>1. /\ pc' \in [Procs -> PC]
        /\ at' \in [Procs -> Local \cup {Nothing}]
        /\ \A q \in Procs : pc'[q] # "idle" =>
              at'[q] \in Local /\ status'[at'[q].i] # "NONE"
    BY <1>4, <1>7, GotoTyped DEF IInv
  <2>2. QED
    BY <1>1, <1>4, <1>5, <2>1 DEF IInv, TypeOK, bookVars, worldVars, hookVars
<1>9. HandlersKnow'
  BY <1>6, <1>7, HandlersStep DEF IInv
<1>10. WorldAgrees' /\ CreditsMade' /\ References' /\ ProcessedMeansCredited'
  BY <1>1, <1>4, WorldKept, BooksKept, RowsKept, EventsKept DEF IInv, bookVars, hookVars
<1>11. Opened'
  BY <1>1, <1>6, OpenedKept DEF IInv
<1>12. QED
  BY <1>8, <1>9, <1>10, <1>11 DEF IInv

\* The payment is made, it is for the intent, and has not been credited before.
LEMMA CommitCreditInv ==
    ASSUME IInv, NEW p \in Procs, CommitCredit(p)
    PROVE  /\ IInv'
           /\ Made' = Made
           /\ \/ ledger' = ledger
              \/ \E x \in Payment : /\ x \in Made /\ ledger[x] = 0
                                    /\ ledger' = [ledger EXCEPT ![x] = 1]
<1> DEFINE i == at[p].i
           x == at[p].x
           u == [at[p] EXCEPT !.entry = x]
<1>1. /\ pc[p] = "commit"
      /\ UNCHANGED <<provider, expired, reward, worldVars, hookVars, faults>>
  BY DEF CommitCredit
<1>2. /\ at[p] \in Local /\ i \in Intents /\ status[i] # "NONE" /\ Knows(p)
      /\ x \in Payment /\ x \in Made /\ for[x] = i
  BY <1>1, Standing DEF Knows
<1>3. Made' = Made
  BY <1>1, WorldKept DEF IInv
<1>4. CASE ledger[x] > 0
  <2>1. Throw(p) /\ UNCHANGED <<ledger, status, reference, hash>>
    BY <1>4 DEF CommitCredit
  <2>2. UNCHANGED <<rowVars, bookVars, worldVars, hookVars>>
    BY <1>1, <2>1 DEF rowVars, bookVars
  <2>3. Grows
    BY <2>2, QuietGrows
  <2>4. Done(p, "FAILED")
    BY <2>1 DEF Throw
  <2>5. IInv'
    BY <1>1, <2>2, <2>3, <2>4, DoneStep, QuietDone DEF IInv, EventStatus
  <2>6. QED
    BY <1>3, <2>1, <2>5
<1>5. CASE ~(ledger[x] > 0)
  <2>1. ledger[x] = 0
    BY <1>2, <1>5 DEF IInv, CreditsMade
  <2>2. /\ ledger' = [ledger EXCEPT ![x] = 1]
        /\ status' = [status EXCEPT ![i] = "COMPLETED"]
        /\ reference' = [reference EXCEPT ![i] = x]
        /\ hash' = [hash EXCEPT ![i] = @ \/ Ton(i)]
        /\ Goto(p, "referral", u)
    BY <1>5, <2>1 DEF CommitCredit
  <2>3. ledger' \in [Payment -> 0..1] /\ ledger'[x] = 1
        /\ \A y \in Payment : y # x => ledger'[y] = ledger[y]
    BY <1>2, <2>2 DEF IInv, CreditsMade
  <2>4. /\ status' \in [Intents -> Status]
        /\ reference' \in [Intents -> Payment \cup {Nothing}]
        /\ \A j \in Intents : status[j] # "NONE" => status'[j] # "NONE"
        /\ \A j \in Intents : j # i => status'[j] = status[j] /\ reference'[j] = reference[j]
        /\ status'[i] # "NONE" /\ reference'[i] = x
    BY <1>2, <2>2 DEF IInv, TypeOK, Status
  <2>5. hash' \in [Intents -> BOOLEAN]
    BY <2>2 DEF IInv, TypeOK, Ton
  <2>6. Grows
    BY <1>1, <1>3, <2>3, <2>4 DEF Grows, worldVars
  <2>7. u \in Local /\ u.i = i /\ u.job = at[p].job /\ u.x = x /\ u.entry = x
    BY <1>2 DEF Local
  <2>8. pc'[p] = "referral" /\ at'[p] = u /\ for' = for /\ charge' = charge
    BY <1>1, <2>2 DEF Goto, IInv, TypeOK, worldVars
  <2>9. \A j \in Intents : j = i => CreditedFor(j)'
    BY <1>2, <2>3, <2>8 DEF CreditedFor
  <2>10. CreditedFor(at[p].i)'
    BY <1>2, <2>7, <2>8, <2>9
  <2>11. Knows(p)'
    BY <1>2, <2>7, <2>8, <2>10 DEF Knows
  <2>12. HandlersKnow'
    BY <2>2, <2>6, <2>11, HandlersStep DEF IInv
  <2>13. TypeOK'
    <3>1. /\ pc' \in [Procs -> PC]
          /\ at' \in [Procs -> Local \cup {Nothing}]
          /\ \A q \in Procs : pc'[q] # "idle" =>
                at'[q] \in Local /\ status'[at'[q].i] # "NONE"
      <4>1. u \in Local /\ status'[u.i] # "NONE" /\ "referral" \in PC
        BY <2>4, <2>7 DEF PC
      <4> HIDE DEF u
      <4>2. QED
        BY <2>2, <2>4, <4>1, GotoTyped DEF IInv
    <3>2. ledger' \in [Payment -> Nat]
      BY <2>3
    <3>3. QED
      BY <1>1, <2>4, <2>5, <3>1, <3>2 DEF IInv, TypeOK, worldVars, hookVars
  <2>14. WorldAgrees' /\ CreditsMade'
    BY <1>1, <1>2, <1>3, <2>3, WorldKept DEF IInv, CreditsMade
  <2>15. References'
    <3> SUFFICES ASSUME NEW j \in Intents
                 PROVE  /\ status'[j] = "COMPLETED" => reference'[j] # Nothing
                        /\ reference'[j] # Nothing =>
                              ledger'[reference'[j]] = 1 /\ for'[reference'[j]] = j
      BY DEF References
    <3>1. CASE j = i
      BY <1>2, <2>3, <2>4, <2>8, <3>1, NothingAssumption
    <3>2. CASE j # i
      BY <2>3, <2>4, <2>8, <3>2 DEF IInv, References, TypeOK
    <3>3. QED
      BY <3>1, <3>2
  <2>16. ProcessedMeansCredited'
    <3> SUFFICES ASSUME NEW y \in Payment, event'[y] = "PROCESSED"
                 PROVE  \E z \in Payment : for'[z] = for'[y] /\ ledger'[z] > 0
      BY DEF ProcessedMeansCredited, CreditedFor
    <3>1. PICK z \in Payment : for[z] = for[y] /\ ledger[z] > 0
      BY <1>1 DEF IInv, ProcessedMeansCredited, CreditedFor, hookVars
    <3>2. QED
      BY <2>3, <2>8, <3>1
  <2>17. Opened'
    BY <1>1, <2>6, OpenedKept DEF IInv
  <2>18. QED
    BY <1>2, <1>3, <2>1, <2>2, <2>12, <2>13, <2>14, <2>15, <2>16, <2>17 DEF IInv
<1>6. QED
  BY <1>4, <1>5

LEMMA PayReferralInv ==
    ASSUME IInv, NEW p \in Procs, PayReferral(p)
    PROVE  IInv'
<1>1. /\ pc[p] = "referral" /\ reward' = [reward EXCEPT ![at[p].entry] = 1]
      /\ Done(p, "PROCESSED") /\ UNCHANGED <<rowVars, ledger, worldVars, hookVars>>
  BY DEF PayReferral
<1>2. CreditedFor(at[p].i) /\ at[p].i \in Intents
  BY <1>1, Standing DEF Knows
<1>3. Grows /\ \A j \in Intents : CreditedFor(j) => CreditedFor(j)'
  BY <1>1, GrowsKept, BooksKept DEF IInv, rowVars
<1>4. PICK step \in PC, local \in Local \cup {Nothing} :
          /\ Goto(p, step, local)
          /\ step # "idle" => local \in Local /\ status[local.i] # "NONE"
          /\ pc'[p] # "idle" => Knows(p)'
  BY <1>1, <1>2, <1>3, DoneStep DEF IInv, EventStatus
<1>5. TypeOK'
  <2>1. /\ pc' \in [Procs -> PC]
        /\ at' \in [Procs -> Local \cup {Nothing}]
        /\ \A q \in Procs : pc'[q] # "idle" =>
              at'[q] \in Local /\ status'[at'[q].i] # "NONE"
    BY <1>1, <1>4, GotoTyped DEF IInv, rowVars
  <2>2. reward' \in [Payment -> 0..1]
    <3>1. reward \in [Payment -> 0..1]
      BY DEF IInv, TypeOK
    <3> DEFINE e == at[p].entry
    <3>2. reward' = [reward EXCEPT ![e] = 1]
      BY <1>1
    <3>3. e \in Payment
      BY <1>1, Standing DEF Knows
    <3> HIDE DEF e
    <3>4. QED
      BY <3>1, <3>2, <3>3
  <2>3. QED
    BY <1>1, <2>1, <2>2 DEF IInv, TypeOK, rowVars, worldVars, hookVars
<1>6. HandlersKnow'
  BY <1>3, <1>4, HandlersStep DEF IInv
<1>7. WorldAgrees' /\ CreditsMade' /\ References' /\ ProcessedMeansCredited'
  BY <1>1, WorldKept, BooksKept, RowsKept, EventsKept DEF IInv, rowVars, hookVars
<1>8. Opened'
  BY <1>1, <1>3, OpenedKept DEF IInv
<1>9. QED
  BY <1>5, <1>6, <1>7, <1>8 DEF IInv

\* An update is delivered only for a charge that was paid.
LEMMA DeliverInv ==
    ASSUME IInv, NEW p \in Procs, NEW x \in Payment, Deliver(p, x)
    PROVE  IInv'
<1>1. charge[x] = "paid" /\ UNCHANGED <<rowVars, bookVars, worldVars>>
  BY DEF Deliver, Sent
<1>2. Grows /\ \A j \in Intents : CreditedFor(j) => CreditedFor(j)'
  BY <1>1, QuietGrows
<1>3. WorldAgrees' /\ CreditsMade' /\ References' /\ Opened' /\ Made' = Made
  BY <1>1, <1>2, WorldKept, BooksKept, RowsKept, OpenedKept DEF IInv, rowVars, bookVars
<1>4. CASE event[x] = "PROCESSED"
  <2>1. acked' = acked \cup {x} /\ UNCHANGED <<event, procVars>>
    BY <1>4 DEF Deliver
  <2>2. TypeOK'
    BY <1>1, <2>1 DEF IInv, TypeOK, rowVars, bookVars, worldVars, procVars
  <2>3. HandlersKnow'
    <3> SUFFICES ASSUME NEW q \in Procs, pc'[q] # "idle" PROVE Knows(q)'
      BY DEF HandlersKnow
    <3>1. QED
      BY <1>2, <2>1, OthersKnow DEF IInv, procVars
  <2>4. ProcessedMeansCredited'
    BY <1>1, <2>1, EventsKept DEF IInv, bookVars
  <2>5. QED
    BY <1>3, <2>2, <2>3, <2>4 DEF IInv
<1>5. CASE event[x] # "PROCESSED"
  <2> DEFINE i == for[x]
             u == [job |-> "payment", i |-> i, x |-> x, entry |-> Nothing,
                   seen |-> "NONE", to |-> "NONE", next |-> "idle", note |-> "NONE"]
  <2>1. /\ event' = [event EXCEPT ![x] = IF @ = "NONE" THEN "RECEIVED" ELSE @]
        /\ Start(p, "payment", i, x, "credit", "NONE", "idle") /\ acked' = acked
    BY <1>5 DEF Deliver, HandlePayment, IntentOf
  <2>2. i \in Intents /\ status[i] # "NONE"
    BY <1>1, NothingAssumption DEF IInv, WorldAgrees, Opened
  <2>3. /\ u \in Local /\ u.i = i /\ u.job = "payment" /\ u.x = x
    BY <2>2 DEF Local, Job, Status, PC, EventStatus
  <2>4. Goto(p, "credit", u)
    BY <2>1 DEF Start, Goto
  <2>5. pc'[p] = "credit" /\ at'[p] = u /\ for' = for /\ charge' = charge
    BY <1>1, <2>4 DEF Goto, IInv, TypeOK, worldVars
  <2>6. x \in Made'
    BY <1>1, <1>3 DEF Made
  <2>7. Knows(p)'
    BY <1>1, <2>3, <2>5, <2>6 DEF Knows
  <2>8. HandlersKnow'
    BY <1>2, <2>4, <2>7, HandlersStep DEF IInv
  <2>9. TypeOK'
    <3>1. u \in Local /\ status'[u.i] # "NONE" /\ "credit" \in PC
      BY <1>1, <2>2, <2>3 DEF PC, rowVars
    <3> HIDE DEF u
    <3>2. /\ pc' \in [Procs -> PC]
          /\ at' \in [Procs -> Local \cup {Nothing}]
          /\ \A q \in Procs : pc'[q] # "idle" =>
                at'[q] \in Local /\ status'[at'[q].i] # "NONE"
      BY <1>1, <2>4, <3>1, GotoTyped DEF IInv, rowVars
    <3>3. event' \in [Payment -> EventStatus]
      BY <2>1 DEF IInv, TypeOK, EventStatus
    <3>4. QED
      BY <1>1, <2>1, <3>2, <3>3 DEF IInv, TypeOK, rowVars, bookVars, worldVars
  <2>10. ProcessedMeansCredited'
    <3>1. \A y \in Payment : event'[y] = "PROCESSED" => event[y] = "PROCESSED"
      BY <2>1 DEF IInv, TypeOK
    <3>2. QED
      BY <1>1, <3>1 DEF IInv, ProcessedMeansCredited, CreditedFor, bookVars, worldVars
  <2>11. QED
    BY <1>3, <2>8, <2>9, <2>10 DEF IInv
<1>6. QED
  BY <1>4, <1>5

\* A payment is marked as processed by a handler that has seen it credited.
LEMMA RecordEventInv ==
    ASSUME IInv, NEW p \in Procs, RecordEvent(p) \/ AnswerLost(p)
    PROVE  IInv'
<1> DEFINE x == at[p].x
           i == at[p].i
<1>1. /\ pc[p] = "event" /\ event' = [event EXCEPT ![x] = at[p].note]
      /\ Return(p) /\ UNCHANGED <<rowVars, bookVars, worldVars>>
      /\ acked' \in {acked, acked \cup {x}}
  BY DEF RecordEvent, AnswerLost
<1>2. /\ at[p] \in Local /\ i \in Intents /\ Knows(p)
      /\ x \in Payment /\ for[x] = i /\ at[p].note \in EventStatus
  BY <1>1, Standing DEF Knows, Local
<1>3. Grows
  BY <1>1, QuietGrows
<1>4. WorldAgrees' /\ CreditsMade' /\ References' /\ Opened'
  BY <1>1, <1>3, WorldKept, BooksKept, RowsKept, OpenedKept DEF IInv, rowVars, bookVars
<1>5. PICK step \in PC, local \in Local \cup {Nothing} :
          /\ Goto(p, step, local)
          /\ step # "idle" => local \in Local /\ status[local.i] # "NONE"
          /\ pc'[p] # "idle" => Knows(p)'
  BY <1>1, ReturnStep DEF IInv
<1>6. HandlersKnow'
  BY <1>3, <1>5, HandlersStep DEF IInv
<1>7. TypeOK'
  <2>1. /\ pc' \in [Procs -> PC]
        /\ at' \in [Procs -> Local \cup {Nothing}]
        /\ \A q \in Procs : pc'[q] # "idle" =>
              at'[q] \in Local /\ status'[at'[q].i] # "NONE"
    BY <1>1, <1>5, GotoTyped DEF IInv, rowVars
  <2>2. event' \in [Payment -> EventStatus] /\ acked' \subseteq Payment
    BY <1>1, <1>2 DEF IInv, TypeOK
  <2>3. QED
    BY <1>1, <2>1, <2>2 DEF IInv, TypeOK, rowVars, bookVars, worldVars
<1>8. ProcessedMeansCredited'
  <2> SUFFICES ASSUME NEW y \in Payment, event'[y] = "PROCESSED"
               PROVE  \E z \in Payment : for[z] = for[y] /\ ledger[z] > 0
    BY <1>1 DEF ProcessedMeansCredited, CreditedFor, bookVars, worldVars
  <2>1. CASE y = x
    <3>1. at[p].note = "PROCESSED"
      BY <1>1, <1>2, <2>1 DEF IInv, TypeOK
    <3>2. CreditedFor(i)
      BY <1>1, <1>2, <3>1 DEF Knows
    <3>3. QED
      BY <1>2, <2>1, <3>2 DEF CreditedFor
  <2>2. CASE y # x
    BY <1>1, <2>2 DEF IInv, TypeOK, ProcessedMeansCredited, CreditedFor
  <2>3. QED
    BY <2>1, <2>2
<1>9. QED
  BY <1>4, <1>6, <1>7, <1>8 DEF IInv

-----------------------------------------------------------------------------
(* Intents are created and expire; payments are made.                       *)

\* Handlers that do not move still know what they knew.
LEMMA NobodyMoves ==
    ASSUME IInv, Grows, UNCHANGED procVars
    PROVE  HandlersKnow'
<1> SUFFICES ASSUME NEW q \in Procs, pc'[q] # "idle" PROVE Knows(q)'
  BY DEF HandlersKnow
<1>1. QED
  BY OthersKnow DEF IInv, procVars

LEMMA IntentInv ==
    ASSUME IInv, NEW i \in Intents,
           CreateTonIntent(i) \/ CreateStarsIntent(i) \/ Expires(i)
    PROVE  IInv' /\ Made' = Made /\ ledger' = ledger
<1>1. UNCHANGED <<provider, hash, reference, bookVars, worldVars, hookVars, procVars>>
  BY DEF CreateTonIntent, CreateStarsIntent, Created, Expires
<1>2. /\ status' \in [Intents -> Status] /\ expired' \in [Intents -> BOOLEAN]
      /\ \A j \in Intents : status[j] # "NONE" => status'[j] # "NONE"
      /\ \A j \in Intents : status'[j] = "COMPLETED" => status[j] = "COMPLETED"
  <2>1. CASE Expires(i)
    BY <2>1 DEF Expires, IInv, TypeOK
  <2>2. CASE CreateTonIntent(i) \/ CreateStarsIntent(i)
    <3>1. PICK s \in {"CREATED", "WAITING_PAYMENT", "FAILED"} :
              status[i] = "NONE" /\ status' = [status EXCEPT ![i] = s] /\ expired' = expired
      BY <2>2 DEF CreateTonIntent, CreateStarsIntent, Created
    <3>2. QED
      BY <3>1 DEF IInv, TypeOK, Status
  <2>3. QED
    BY <2>1, <2>2
<1>3. Grows
  BY <1>1, <1>2, GrowsKept DEF IInv, bookVars
<1>4. TypeOK'
  <2>1. ASSUME NEW q \in Procs, pc[q] # "idle"
        PROVE  at[q] \in Local /\ status'[at[q].i] # "NONE"
    BY <1>2, <2>1, Standing
  <2>2. QED
    BY <1>1, <1>2, <2>1 DEF IInv, TypeOK, bookVars, worldVars, hookVars, procVars
<1>5. WorldAgrees' /\ CreditsMade' /\ References' /\ ProcessedMeansCredited' /\ Opened'
  BY <1>1, <1>2, <1>3, WorldKept, BooksKept, RowsKept, EventsKept, OpenedKept
     DEF IInv, bookVars, hookVars
<1>6. HandlersKnow'
  BY <1>1, <1>3, NobodyMoves
<1>7. Made' = Made /\ ledger' = ledger
  BY <1>1, WorldKept DEF IInv, bookVars
<1>8. QED
  BY <1>4, <1>5, <1>6, <1>7 DEF IInv

LEMMA MadeForIntent ==
    ASSUME TypeOK, WorldAgrees, NEW x \in Payment, x \in Made
    PROVE  for[x] \in Intents
  BY DEF TypeOK, WorldAgrees, Made, Landed

\* A payment is made, or on its way to be.
LEMMA PaymentStep ==
    ASSUME IInv, Grows, WorldAgrees',
           chain' \in [Intents -> Seq([x : Payment, success : BOOLEAN])],
           charge' \in [Payment -> {"none", "asked", "approved", "refused", "paid"}],
           for' \in [Payment -> Intents \cup {Nothing}],
           \A x \in Payment : for'[x] # for[x] => status[for'[x]] # "NONE",
           UNCHANGED <<rowVars, bookVars, hookVars, procVars>>
    PROVE  IInv'
<1>1. TypeOK'
  BY DEF IInv, TypeOK, rowVars, bookVars, hookVars, procVars
<1>2. Opened'
  BY DEF IInv, Opened, Grows, rowVars
<1>3. CreditsMade'
  BY DEF IInv, CreditsMade, Grows, bookVars
<1>4. HandlersKnow'
  BY NobodyMoves
<1>5. References'
  BY NothingAssumption DEF IInv, TypeOK, References, Grows, rowVars, bookVars
<1>6. ProcessedMeansCredited'
  <2> SUFFICES ASSUME NEW y \in Payment, event[y] = "PROCESSED"
               PROVE  \E z \in Payment : for'[z] = for'[y] /\ ledger[z] > 0
    BY DEF ProcessedMeansCredited, CreditedFor, bookVars, hookVars
  <2>1. PICK z \in Payment : for[z] = for[y] /\ ledger[z] > 0
    BY DEF IInv, ProcessedMeansCredited, CreditedFor
  <2>2. ledger[z] = 1 /\ z \in Made
    BY <2>1 DEF IInv, CreditsMade
  <2>3. for[z] # Nothing
    BY <2>2, MadeForIntent, NothingAssumption DEF IInv
  <2>4. QED
    BY <2>1, <2>3 DEF Grows
<1>7. QED
  BY <1>1, <1>2, <1>3, <1>4, <1>5, <1>6 DEF IInv

\* A transfer is news: nothing is known of it before it lands.
LEMMA TransferInv ==
    ASSUME IInv, NEW x \in Payment, NEW i \in Intents, TransferLands(x, i)
    PROVE  IInv' /\ (Made' = Made \/ (x \notin Made /\ Made' = Made \cup {x}))
<1> DEFINE Entry == [x : Payment, success : BOOLEAN]
<1>1. PICK success \in BOOLEAN :
          chain' = [chain EXCEPT ![i] = Append(@, [x |-> x, success |-> success])]
  BY DEF TransferLands
<1>2. /\ for[x] = Nothing /\ status[i] # "NONE" /\ for' = [for EXCEPT ![x] = i]
      /\ charge' = charge /\ UNCHANGED <<rowVars, bookVars, hookVars, procVars>>
  BY DEF TransferLands
<1> DEFINE new == [x |-> x, success |-> success]
           old == chain[i]
<1>3. old \in Seq(Entry) /\ new \in Entry /\ chain \in [Intents -> Seq(Entry)]
  BY DEF IInv, TypeOK
<1>4. /\ Append(old, new) \in Seq(Entry) /\ Len(Append(old, new)) = Len(old) + 1
      /\ Append(old, new)[Len(old) + 1] = new
      /\ \A n \in 1..Len(old) : Append(old, new)[n] = old[n]
      /\ Len(old) \in Nat
  BY <1>3
<1>5. /\ chain' \in [Intents -> Seq(Entry)] /\ chain'[i] = Append(old, new)
      /\ \A j \in Intents : j # i => chain'[j] = chain[j]
  BY <1>1, <1>3, <1>4
<1>6. /\ for' \in [Payment -> Intents \cup {Nothing}] /\ for'[x] = i
      /\ \A y \in Payment : y # x => for'[y] = for[y]
  BY <1>2 DEF IInv, TypeOK
<1>7. charge[x] = "none"
  BY <1>2, NothingAssumption DEF IInv, WorldAgrees
<1>8. \A j \in Intents : \A n \in 1..Len(chain[j]) :
          chain[j][n] \in Entry /\ for[chain[j][n].x] = j /\ chain[j][n].x # x
  <2> SUFFICES ASSUME NEW j \in Intents, NEW n \in 1..Len(chain[j])
               PROVE  chain[j][n] \in Entry /\ for[chain[j][n].x] = j /\ chain[j][n].x # x
    OBVIOUS
  <2>1. chain[j] \in Seq(Entry)
    BY <1>3
  <2> HIDE DEF Entry
  <2>2. chain[j][n] \in Entry
    BY <2>1, ElementOfSeq
  <2>3. for[chain[j][n].x] = j
    BY DEF IInv, WorldAgrees
  <2>4. QED
    BY <1>2, <2>2, <2>3, NothingAssumption
<1> HIDE DEF new, old
<1>9. new.x = x /\ new.success = success
  BY DEF new
<1>10. WorldAgrees'
  <2>1. ASSUME NEW j \in Intents, NEW n \in 1..Len(chain'[j])
        PROVE  for'[chain'[j][n].x] = j
    <3>1. CASE j # i
      <4>1. chain'[j] = chain[j]
        BY <1>5, <3>1
      <4>2. n \in 1..Len(chain[j])
        BY <4>1
      <4>3. chain[j][n].x \in Payment
        BY <1>8, <4>2
      <4>4. QED
        BY <1>6, <1>8, <4>1, <4>2, <4>3
    <3>2. CASE j = i /\ n = Len(old) + 1
      BY <1>4, <1>5, <1>6, <1>9, <3>2
    <3>3. CASE j = i /\ n # Len(old) + 1
      <4>1. n \in 1..Len(old)
        BY <1>4, <1>5, <3>3
      <4>2. chain'[i][n] = chain[i][n] /\ n \in 1..Len(chain[i])
        BY <1>4, <1>5, <4>1 DEF old
      <4>3. chain[i][n].x \in Payment
        BY <1>8, <4>2
      <4>4. QED
        BY <1>6, <1>8, <3>3, <4>2, <4>3
    <3>4. QED
      BY <3>1, <3>2, <3>3
  <2>2. \A y \in Payment : charge'[y] # "none" => for'[y] \in Intents
    BY <1>2, <1>6 DEF IInv, WorldAgrees
  <2>3. QED
    BY <2>1, <2>2 DEF WorldAgrees
<1>11. x \notin Made
  BY <1>2, <1>7 DEF Made, Landed
<1>12. ASSUME NEW y \in Payment, y # x
       PROVE  y \in Made' <=> y \in Made
  <2>1. Landed(y) => Landed(y)'
    <3> SUFFICES ASSUME for[y] # Nothing, NEW n \in 1..Len(chain[for[y]]),
                        chain[for[y]][n] = [x |-> y, success |-> TRUE]
                 PROVE  \E m \in 1..Len(chain'[for[y]]) :
                            chain'[for[y]][m] = [x |-> y, success |-> TRUE]
      BY <1>6, <1>12 DEF Landed
    <3>1. CASE for[y] = i
      <4>1. n \in 1..Len(old)
        BY <3>1 DEF old
      <4>2. n \in 1..Len(chain'[i]) /\ chain'[i][n] = chain[i][n]
        BY <1>4, <1>5, <4>1 DEF old
      <4>3. QED
        BY <3>1, <4>2
    <3>2. CASE for[y] # i
      <4>1. for[y] \in Intents
        BY DEF IInv, TypeOK
      <4>2. QED
        BY <1>5, <3>2, <4>1
    <3>3. QED
      BY <3>1, <3>2
  <2>2. Landed(y)' => Landed(y)
    <3> SUFFICES ASSUME for[y] # Nothing, NEW n \in 1..Len(chain'[for[y]]),
                        chain'[for[y]][n] = [x |-> y, success |-> TRUE]
                 PROVE  \E m \in 1..Len(chain[for[y]]) :
                            chain[for[y]][m] = [x |-> y, success |-> TRUE]
      BY <1>6, <1>12 DEF Landed
    <3>1. CASE for[y] = i
      <4>1. n # Len(old) + 1
        BY <1>4, <1>5, <1>9, <1>12, <3>1
      <4>2. n \in 1..Len(old)
        BY <1>4, <1>5, <3>1, <4>1
      <4>3. QED
        BY <1>4, <1>5, <3>1, <4>2 DEF old
    <3>2. CASE for[y] # i
      <4>1. for[y] \in Intents
        BY DEF IInv, TypeOK
      <4>2. QED
        BY <1>5, <3>2, <4>1
    <3>3. QED
      BY <3>1, <3>2
  <2>3. QED
    BY <1>2, <2>1, <2>2 DEF Made
<1>13. Made' = Made \/ Made' = Made \cup {x}
  BY <1>11, <1>12 DEF Made
<1>14. Grows
  BY <1>2, <1>6, <1>13 DEF Grows, rowVars, bookVars
<1>15. IInv'
  <2>1. \A y \in Payment : for'[y] # for[y] => status[for'[y]] # "NONE"
    BY <1>2, <1>6
  <2>2. charge' \in [Payment -> {"none", "asked", "approved", "refused", "paid"}]
    BY <1>2 DEF IInv, TypeOK
  <2>3. QED
    BY <1>2, <1>5, <1>6, <1>10, <1>14, <2>1, <2>2, PaymentStep
<1>16. QED
  BY <1>11, <1>13, <1>15

\* A charge is for an intent from its checkout on, and paid only once.
LEMMA CheckoutInv ==
    ASSUME IInv, NEW x \in Payment, NEW i \in Intents, CheckoutOpens(x, i)
    PROVE  IInv' /\ Made' = Made
<1>1. /\ for[x] = Nothing /\ status[i] # "NONE" /\ for' = [for EXCEPT ![x] = i]
      /\ charge' = [charge EXCEPT ![x] = "asked"] /\ chain' = chain
      /\ UNCHANGED <<rowVars, bookVars, hookVars, procVars>>
  BY DEF CheckoutOpens
<1>2. /\ for' \in [Payment -> Intents \cup {Nothing}] /\ for'[x] = i
      /\ \A y \in Payment : y # x => for'[y] = for[y]
  BY <1>1 DEF IInv, TypeOK
<1>3. /\ charge' \in [Payment -> {"none", "asked", "approved", "refused", "paid"}]
      /\ charge'[x] = "asked"
      /\ \A y \in Payment : y # x => charge'[y] = charge[y]
  BY <1>1 DEF IInv, TypeOK
<1>4. charge[x] = "none"
  BY <1>1, NothingAssumption DEF IInv, WorldAgrees
<1>5. \A j \in Intents : \A n \in 1..Len(chain[j]) :
          chain[j][n].x \in Payment /\ for[chain[j][n].x] = j /\ chain[j][n].x # x
  <2> SUFFICES ASSUME NEW j \in Intents, NEW n \in 1..Len(chain[j])
               PROVE  chain[j][n].x \in Payment /\ for[chain[j][n].x] = j /\ chain[j][n].x # x
    OBVIOUS
  <2> DEFINE Row == [x : Payment, success : BOOLEAN]
  <2>1. chain[j] \in Seq(Row)
    BY DEF IInv, TypeOK
  <2>2. chain[j][n].x \in Payment
    <3>1. \A e \in Row : e.x \in Payment
      OBVIOUS
    <3> HIDE DEF Row
    <3>2. chain[j][n] \in Row
      BY <2>1, ElementOfSeq
    <3>3. QED
      BY <3>1, <3>2
  <2>3. for[chain[j][n].x] = j
    BY DEF IInv, WorldAgrees
  <2>4. QED
    BY <1>1, <2>2, <2>3, NothingAssumption
<1>6. WorldAgrees'
  <2>1. \A j \in Intents : \A n \in 1..Len(chain'[j]) : for'[chain'[j][n].x] = j
    BY <1>1, <1>2, <1>5
  <2>2. \A y \in Payment : charge'[y] # "none" => for'[y] \in Intents
    BY <1>2, <1>3 DEF IInv, WorldAgrees
  <2>3. QED
    BY <2>1, <2>2 DEF WorldAgrees
<1>7. Made' = Made
  <2>1. x \notin Made
    BY <1>1, <1>4 DEF Made, Landed
  <2>2. x \notin Made'
    <3> SUFFICES ASSUME Landed(x)' PROVE FALSE
      BY <1>3 DEF Made
    <3>1. PICK n \in 1..Len(chain[i]) : chain[i][n] = [x |-> x, success |-> TRUE]
      BY <1>1, <1>2 DEF Landed
    <3>2. chain[i][n].x = x
      BY <3>1
    <3>3. QED
      BY <1>5, <3>2
  <2>3. \A y \in Payment \ {x} : y \in Made' <=> y \in Made
    BY <1>1, <1>2, <1>3 DEF Made, Landed
  <2>4. QED
    BY <2>1, <2>2, <2>3 DEF Made
<1>8. Grows
  BY <1>1, <1>2, <1>3, <1>4, <1>7 DEF Grows, rowVars, bookVars
<1>9. IInv'
  <2>1. \A y \in Payment : for'[y] # for[y] => status[for'[y]] # "NONE"
    BY <1>1, <1>2
  <2>2. chain' \in [Intents -> Seq([x : Payment, success : BOOLEAN])]
    BY <1>1 DEF IInv, TypeOK
  <2>3. QED
    BY <1>1, <1>2, <1>3, <1>6, <1>8, <2>1, <2>2, PaymentStep
<1>10. QED
  BY <1>7, <1>9

LEMMA ChargeInv ==
    ASSUME IInv, NEW x \in Payment, UserPays(x) \/ PreCheckout(x)
    PROVE  IInv' /\ (Made' = Made \/ (x \notin Made /\ Made' = Made \cup {x}))
<1>1. PICK c \in {"approved", "refused", "paid"} :
          /\ charge[x] \in {"asked", "approved"} /\ charge' = [charge EXCEPT ![x] = c]
          /\ UNCHANGED <<rowVars, bookVars, chain, for, hookVars, procVars>>
  <2>1. CASE UserPays(x)
    BY <2>1 DEF UserPays
  <2>2. CASE PreCheckout(x)
    <3> DEFINE open == ~expired[for[x]] /\ status[for[x]] = "WAITING_PAYMENT"
    <3>1. charge' = [charge EXCEPT ![x] = IF open THEN "approved" ELSE "refused"]
          /\ charge[x] = "asked"
          /\ UNCHANGED <<rowVars, bookVars, chain, for, hookVars, procVars>>
      BY <2>2 DEF PreCheckout, IntentOf
    <3>2. CASE open
      BY <3>1, <3>2
    <3>3. CASE ~open
      BY <3>1, <3>3
    <3>4. QED
      BY <3>2, <3>3
  <2>3. QED
    BY <2>1, <2>2
<1>2. /\ charge' \in [Payment -> {"none", "asked", "approved", "refused", "paid"}]
      /\ charge'[x] = c /\ \A y \in Payment : y # x => charge'[y] = charge[y]
  BY <1>1 DEF IInv, TypeOK
<1>3. \A y \in Payment : Landed(y)' <=> Landed(y)
  BY <1>1 DEF Landed
<1>4. /\ \A y \in Payment : y # x => (y \in Made' <=> y \in Made)
      /\ x \in Made => x \in Made'
  BY <1>1, <1>2, <1>3 DEF Made
<1>5. WorldAgrees'
  BY <1>1, <1>2 DEF IInv, WorldAgrees
<1>6. Grows
  BY <1>1, <1>2, <1>4 DEF Grows, rowVars, bookVars
<1>7. IInv'
  <2>1. \A y \in Payment : for'[y] # for[y] => status[for'[y]] # "NONE"
    BY <1>1
  <2>2. chain' \in [Intents -> Seq([x : Payment, success : BOOLEAN])]
        /\ for' \in [Payment -> Intents \cup {Nothing}]
    BY <1>1 DEF IInv, TypeOK
  <2>3. QED
    BY <1>1, <1>2, <1>5, <1>6, <2>1, <2>2, PaymentStep
<1>8. Made \subseteq Payment /\ Made' \subseteq Payment
  BY DEF Made
<1>9. QED
  BY <1>4, <1>7, <1>8

-----------------------------------------------------------------------------
(* The theorems.                                                            *)

LEMMA InitInv == ASSUME Init PROVE IInv
<1>1. TypeOK
  <2>1. \A p \in Procs : pc[p] = "idle"
    BY DEF Init
  <2>2. << >> \in Seq([x : Payment, success : BOOLEAN])
    OBVIOUS
  <2>3. chain \in [Intents -> Seq([x : Payment, success : BOOLEAN])]
    BY <2>2 DEF Init
  <2>4. QED
    BY <2>1, <2>3 DEF Init, TypeOK, Status, EventStatus, PC
<1>2. WorldAgrees
  BY DEF Init, WorldAgrees
<1>3. Opened /\ CreditsMade /\ References /\ HandlersKnow /\ ProcessedMeansCredited
  BY DEF Init, Opened, CreditsMade, References, HandlersKnow, ProcessedMeansCredited
<1>4. QED
  BY <1>1, <1>2, <1>3 DEF IInv

\* A step of the deposits is one of Payments, or shows nothing there.
Kept ==
    \/ Made' = Made /\ ledger' = ledger
    \/ \E x \in Payment : Promise!Make(x) \/ Promise!Credit(x)

LEMMA QuietKept ==
    ASSUME WorldAgrees, UNCHANGED <<worldVars, ledger>>
    PROVE  Kept
  BY WorldKept DEF Kept

LEMMA HandlerInv ==
    ASSUME IInv, NEW p \in Procs, Step(p) \/ Fault(p)
    PROVE  IInv' /\ Kept
<1>1. CASE ReadForReconcile(p)
  BY <1>1, ReconcileInv, QuietKept DEF IInv, ReadForReconcile, OnlyProc, bookVars
<1>2. CASE AskChain(p)
  BY <1>2, AskChainInv, QuietKept DEF IInv, AskChain, OnlyProc, bookVars
<1>3. CASE ReadForExpiry(p)
  BY <1>3, ExpiryInv, QuietKept DEF IInv, ReadForExpiry, OnlyProc, bookVars
<1>4. CASE ReadForCredit(p)
  BY <1>4, ReadForCreditInv, QuietKept DEF IInv, ReadForCredit, OnlyProc, bookVars
<1>5. CASE WriteStatus(p)
  BY <1>5, WriteStatusInv, QuietKept DEF IInv, WriteStatus, bookVars
<1>6. CASE CommitCredit(p)
  BY <1>6, CommitCreditInv DEF Kept, Promise!Credit
<1>7. CASE PayReferral(p)
  BY <1>7, PayReferralInv, QuietKept DEF IInv, PayReferral
<1>8. CASE RecordEvent(p) \/ AnswerLost(p)
  BY <1>8, RecordEventInv, QuietKept DEF IInv, RecordEvent, AnswerLost, bookVars
<1>9. CASE ChainCallFails(p) \/ ReferralFails(p) \/ Killed(p)
  BY <1>9, QuietFaultInv, QuietKept
     DEF IInv, ChainCallFails, ReferralFails, Killed, bookVars
<1>10. QED
  BY <1>1, <1>2, <1>3, <1>4, <1>5, <1>6, <1>7, <1>8, <1>9 DEF Step, Fault

LEMMA InvStep ==
    ASSUME IInv, Next
    PROVE  IInv' /\ Kept
<1>1. CASE \E i \in Intents : CreateTonIntent(i) \/ CreateStarsIntent(i) \/ Expires(i)
  BY <1>1, IntentInv DEF Kept
<1>2. CASE \E i \in Intents : StartCron(i)
  BY <1>2, StartInv, QuietKept DEF IInv, StartCron, OnlyProc, bookVars, Procs
<1>3. CASE \E x \in Payment : PreCheckout(x) \/ UserPays(x)
  <2>1. PICK x \in Payment : PreCheckout(x) \/ UserPays(x)
    BY <1>3
  <2>2. ledger' = ledger
    BY <2>1 DEF PreCheckout, UserPays, bookVars
  <2>3. QED
    BY <2>1, <2>2, ChargeInv DEF Kept, Promise!Make
<1>4. CASE \E x \in Payment, i \in Intents : TransferLands(x, i)
  <2>1. PICK x \in Payment, i \in Intents : TransferLands(x, i)
    BY <1>4
  <2>2. ledger' = ledger
    BY <2>1 DEF TransferLands, bookVars
  <2>3. QED
    BY <2>1, <2>2, TransferInv DEF Kept, Promise!Make
<1>5. CASE \E x \in Payment, i \in Intents : CheckoutOpens(x, i)
  <2>1. PICK x \in Payment, i \in Intents : CheckoutOpens(x, i)
    BY <1>5
  <2>2. ledger' = ledger
    BY <2>1 DEF CheckoutOpens, bookVars
  <2>3. QED
    BY <2>1, <2>2, CheckoutInv DEF Kept
<1>6. CASE \E p \in Clients, i \in Intents : Submit(p, i) \/ Cancel(p, i) \/ GetStatus(p, i)
  BY <1>6, StartInv, QuietKept
     DEF IInv, Submit, Cancel, GetStatus, OnlyProc, bookVars, Procs
<1>7. CASE \E p \in Hooks, x \in Payment : Deliver(p, x)
  BY <1>7, DeliverInv, QuietKept DEF IInv, Deliver, bookVars, Procs
<1>8. CASE \E p \in Procs : Step(p) \/ Fault(p)
  BY <1>8, HandlerInv
<1>9. QED
  BY <1>1, <1>2, <1>3, <1>4, <1>5, <1>6, <1>7, <1>8 DEF Next

LEMMA InvStutter ==
    ASSUME IInv, UNCHANGED vars
    PROVE  IInv' /\ Made' = Made /\ ledger' = ledger
<1>1. UNCHANGED <<provider, status, hash, reference, expired, ledger, reward, chain,
                  charge, for, event, acked, pc, at>>
  BY DEF vars, rowVars, bookVars, worldVars, hookVars, procVars
<1>2. Made' = Made
  BY <1>1 DEF Made, Landed
<1>3. TypeOK' /\ WorldAgrees' /\ Opened'
  BY <1>1 DEF IInv, TypeOK, WorldAgrees, Opened
<1>4. CreditsMade' /\ References' /\ ProcessedMeansCredited'
  BY <1>1, <1>2 DEF IInv, CreditsMade, References, ProcessedMeansCredited, CreditedFor
<1>5. Grows /\ UNCHANGED procVars
  BY <1>1, <1>2 DEF Grows, procVars
<1>6. QED
  BY <1>1, <1>2, <1>3, <1>4, <1>5, NobodyMoves DEF IInv

\* The inductive invariant: whatever statuses handlers overwrite, references,
\* ledger entries and what each handler relies on stay in step.
THEOREM Invariance == Spec => []IInv
<1>1. Init => IInv
  BY InitInv
<1>2. IInv /\ [Next]_vars => IInv'
  BY InvStep, InvStutter
<1>3. QED
  BY <1>1, <1>2, PTL DEF Spec

\* Every row and every handler keeps its type, and a deposit is rewarded to
\* the referrer at most once (applyReferralRewardForDeposit).
THEOREM TypeCorrect == Spec => []TypeOK
<1>1. IInv => TypeOK
  BY DEF IInv
<1>2. QED
  BY <1>1, Invariance, PTL

\* A COMPLETED intent refers to the entry of a payment made for it, so
\* completeDepositIntent never throws COMPLETED_INTENT_WITHOUT_LEDGER.
THEOREM CompletedIsCredited == Spec => []CompletedMeansCredited
<1>1. IInv => CompletedMeansCredited
  BY DEF IInv, References, CompletedMeansCredited
<1>2. QED
  BY <1>1, Invariance, PTL

\* The webhook marks an update PROCESSED, and stops handling it, only when the
\* intent it names has been credited, by this charge or by another one of it: of
\* two charges paid for one intent both are PROCESSED and one is credited.
THEOREM ProcessedIsCredited == Spec => []ProcessedMeansCredited
<1>1. IInv => ProcessedMeansCredited
  BY DEF IInv
<1>2. QED
  BY <1>1, Invariance, PTL

\* Deposits implement Payments: a payment is credited at most once, and only
\* when it has been made, under every interleaving, fault and redelivery.
THEOREM DepositsImplementPayments == Spec => CreditsRefined
<1>1. Init => Promise!Init
  <2>1. ASSUME Init PROVE Made = {}
    BY <2>1, NothingAssumption DEF Init, Made, Landed
  <2>2. QED
    BY <2>1 DEF Init, Promise!Init
<1>2. IInv /\ [Next]_vars => [Promise!Next]_<<Made, ledger>>
  BY InvStep, InvStutter DEF Kept, Promise!Next
<1>3. QED
  BY <1>1, <1>2, Invariance, PTL DEF Spec, CreditsRefined, Promise!Spec
=============================================================================
