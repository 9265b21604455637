---------------------------- MODULE DepositDialog ----------------------------
(***************************************************************************)
(* DepositFundsModal: a press creates a deposit intent and, in TON, hands  *)
(* it to the wallet; the dialog then polls the intent's status until it is *)
(* final.  What an answer sets is rendered later, and only rendering ends  *)
(* or starts polling; polls of what is no longer rendered are cancelled.   *)
(* X_Something is a wrong form of X no action uses.                        *)
(***************************************************************************)
EXTENDS Orders, FiniteSets

CONSTANTS
    MaxRenders,  \* bound: renders of the page that start polling anew
    MaxPolls     \* bound: polls in flight

VARIABLES
    intents,     \* the server's intents of the user: their status
    open,        \* isDepositModalOpen
    first,       \* ghost: the first intent this opening may create
    next,        \* what has been set: [id, status], id 0 for none
    drawn,       \* what is rendered
    fired,       \* completionFiredRef
    polls,       \* polls in flight: [id, seen, live]
    renders

dialogVars == <<intents, open, first, next, drawn, fired, polls, renders>>
shownVars == <<open, first, drawn, renders>>

Pending == "PENDING"
\* Failed, expired and canceled intents are all closed to the dialog.
Final == {"COMPLETED", "CLOSED"}
Nothing == [id |-> 0, status |-> Pending]

DialogInit ==
    /\ intents = <<>>
    /\ open = FALSE /\ first = 1 /\ next = Nothing /\ drawn = Nothing
    /\ fired = FALSE /\ polls = {} /\ renders = 0

Deposit(c) == c.kind \in {"stars", "ton"}
Paying == \E c \in cmds : Deposit(c)
Cancelled == {[p EXCEPT !.live = FALSE] : p \in polls}

OpenDialog ==
    /\ ~open
    /\ open' = TRUE /\ first' = Len(intents) + 1
    /\ next' = Nothing /\ drawn' = Nothing /\ fired' = FALSE
    /\ UNCHANGED <<ordersVars, intents, polls, renders>>

CloseDialog_AnyTime ==
    /\ open
    /\ open' = FALSE /\ polls' = Cancelled
    /\ UNCHANGED <<ordersVars, intents, first, next, drawn, fired, renders>>

\* Not while a payment is being submitted.
CloseDialog ==
    /\ open /\ ~Paying
    /\ open' = FALSE /\ polls' = Cancelled
    /\ UNCHANGED <<ordersVars, intents, first, next, drawn, fired, renders>>

-----------------------------------------------------------------------------
(* Rendering and polling.                                                   *)

Render ==
    /\ drawn # next
    /\ drawn' = next /\ polls' = Cancelled
    /\ UNCHANGED <<ordersVars, intents, open, first, next, fired, renders>>

\* onCompleted is new with each render of the page: the interval starts again.
PageRenders ==
    /\ open /\ drawn.id # 0 /\ renders < MaxRenders
    /\ renders' = renders + 1 /\ polls' = Cancelled
    /\ UNCHANGED <<ordersVars, intents, open, first, next, drawn, fired>>

PollSent ==
    /\ open /\ drawn.id # 0 /\ drawn.status = Pending
    /\ Cardinality(polls) < MaxPolls
    /\ polls' = polls \cup {[id |-> drawn.id, seen |-> intents[drawn.id], live |-> TRUE]}
    /\ UNCHANGED <<ordersVars, intents, open, first, next, drawn, fired, renders>>

PollArrives_NotCancelled(p) ==
    /\ polls' = polls \ {p}
    /\ next' = [next EXCEPT !.status = p.seen]
    /\ fired' = (fired \/ p.seen = "COMPLETED")
    /\ UNCHANGED <<ordersVars, intents, shownVars>>

PollArrives(p) ==
    /\ polls' = polls \ {p}
    /\ IF p.live
       THEN /\ next' = [next EXCEPT !.status = p.seen]
            /\ fired' = (fired \/ p.seen = "COMPLETED")
       ELSE UNCHANGED <<next, fired>>
    /\ UNCHANGED <<ordersVars, intents, shownVars>>

PollLost(p) ==
    /\ Fault /\ polls' = polls \ {p}
    /\ UNCHANGED <<effects, cmds, intents, next, fired, shownVars>>

\* The webhook, the chain and the clock (Deposits tells how); what happens
\* while the dialog is closed is found when it is opened.
IntentEnds ==
    /\ open
    /\ \E i \in DOMAIN intents, status \in Final :
          /\ intents[i] = Pending
          /\ intents' = [intents EXCEPT ![i] = status]
    /\ UNCHANGED <<ordersVars, open, first, next, drawn, fired, polls, renders>>

-----------------------------------------------------------------------------
(* Paying.                                                                  *)

Pay(kind) ==
    /\ open /\ ~Paying
    /\ Order([order |-> Next1, kind |-> kind, step |-> "create", id |-> 0, seen |-> Pending])
    /\ UNCHANGED dialogVars

PayStars == Pay("stars")
PayTon == Pay("ton")

Creates(c) == Carried(c.order) /\ intents' = Append(intents, Pending)
NewId == Len(intents) + 1

\* A created intent becomes the dialog's.
Becomes(c) ==
    /\ c.step = "create" /\ Creates(c)
    /\ next' = [id |-> NewId, status |-> Pending]
    /\ UNCHANGED <<faults, fired, polls, shownVars>>

\* The invoice is opened beside the dialog, which is free at once.
StarsAnswered(c) == c.kind = "stars" /\ Becomes(c) /\ Ends(c)

\* TON goes on to the wallet.
TonAnswered(c) ==
    c.kind = "ton" /\ Becomes(c) /\ Goes(c, [c EXCEPT !.step = "wallet", !.id = NewId])

\* Refused; or the answer is lost, of an intent that was created or was not.
NotCreated(c) ==
    /\ Deposit(c) /\ c.step = "create" /\ Ends(c)
    /\ \/ UNCHANGED <<effects, intents, faults>>
       \/ Fault /\ (Creates(c) \/ UNCHANGED <<effects, intents>>)
    /\ UNCHANGED <<next, fired, polls, shownVars>>

\* The wallet sends the transfer, is told not to, or fails.
WalletAnswered(c) ==
    /\ Deposit(c) /\ c.step = "wallet"
    /\ \/ \E step \in {"submit", "cancel"} : Goes(c, [c EXCEPT !.step = step])
       \/ Ends(c)
    /\ UNCHANGED <<effects, faults, dialogVars>>

\* Submitting tells how the intent then stands, and refuses one that is closed
\* without a deposit; canceling cancels one that is still pending.
Outcomes(c) ==
    IF c.step = "submit"
    THEN IF intents[c.id] = Pending THEN {Pending} \cup Final
         ELSE {intents[c.id]} \cap {"COMPLETED"}
    ELSE IF intents[c.id] = Pending THEN {Pending, "CLOSED"} ELSE {intents[c.id]}
ServerHandles(c) ==
    /\ Deposit(c) /\ c.step \in {"submit", "cancel"}
    /\ \E status \in Outcomes(c) :
          /\ intents' = [intents EXCEPT ![c.id] = status]
          /\ \/ Goes(c, [c EXCEPT !.step = "answer", !.seen = status]) /\ UNCHANGED faults
             \/ Fault /\ Ends(c)
    /\ UNCHANGED <<effects, next, fired, polls, shownVars>>
OutcomeRefused(c) ==
    /\ Deposit(c) /\ c.step \in {"submit", "cancel"} /\ Ends(c)
    /\ UNCHANGED <<effects, faults, dialogVars>>

OutcomeAnswered(c) ==
    /\ Deposit(c) /\ c.step = "answer" /\ Ends(c)
    /\ next' = [id |-> c.id, status |-> c.seen]
    /\ UNCHANGED <<effects, faults, intents, fired, polls, shownVars>>

-----------------------------------------------------------------------------
DialogStep ==
    \/ CloseDialog \/ Render \/ PageRenders \/ PollSent \/ IntentEnds
    \/ \E p \in polls : PollArrives(p) \/ PollLost(p)
    \/ PayStars \/ PayTon
    \/ \E c \in cmds :
          StarsAnswered(c) \/ TonAnswered(c) \/ NotCreated(c) \/ WalletAnswered(c) \/ ServerHandles(c)
          \/ OutcomeRefused(c) \/ OutcomeAnswered(c)

OfThisOpening == first..Len(intents)

\* The dialog speaks of the intents of this opening only: its intent is one
\* of them, a final status is the status of one, and it announces a completed
\* deposit when one is completed; never by an answer to an earlier opening
\* (the resetting effect, the poll's cancelled flag and canClose).
DialogKeepsToItsOpening ==
    open =>
        /\ {next.id, drawn.id} \subseteq {0} \cup OfThisOpening
        /\ \A status \in {next.status, drawn.status} \ {Pending} :
              \E i \in OfThisOpening : intents[i] = status
        /\ fired => \E i \in OfThisOpening : intents[i] = "COMPLETED"
=============================================================================
