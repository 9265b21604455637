------------------------------ MODULE Payments ------------------------------
(***************************************************************************)
(* What the deposits promise, without intents, statuses, requests or       *)
(* webhooks: only a payment that was made is ever credited to its owner's  *)
(* wallet, and none twice.                                                 *)
(***************************************************************************)
EXTENDS Integers

CONSTANT Payment      \* TON transfers and Telegram Stars charges

VARIABLES
    made,             \* the payments that have happened
    credited          \* how often each payment has been credited

Init == made = {} /\ credited = [x \in Payment |-> 0]

Make(x) ==
    /\ x \notin made
    /\ made' = made \cup {x}
    /\ UNCHANGED credited

Credit(x) ==
    /\ x \in made /\ credited[x] = 0
    /\ credited' = [credited EXCEPT ![x] = 1]
    /\ UNCHANGED made

Next == \E x \in Payment : Make(x) \/ Credit(x)
Spec == Init /\ [][Next]_<<made, credited>>
=============================================================================
