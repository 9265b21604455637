-------------------------------- MODULE Book --------------------------------
(***************************************************************************)
(* What the ledgers promise, without requests, wallets' rows or statuses:  *)
(* double-entry bookkeeping.  Money moves only by a posting, each posting  *)
(* moves its whole amount between its two accounts, happens at most once,  *)
(* and overdraws nobody.  What is against World enters or leaves the house.*)
(***************************************************************************)
EXTENDS Integers

CONSTANTS
    Account,            \* who holds money: users and the house
    Opening,            \* Opening[a]: what a holds at first
    Posting             \* [id, account, against, amount], amount signed

VARIABLES funds, posted
vars == <<funds, posted>>

Init == funds = Opening /\ posted = {}

Post(p) ==
    /\ \A q \in posted : q.id # p.id
    /\ posted' = posted \cup {p}
    /\ funds' = [a \in Account |->
                   funds[a] + (CASE a = p.account -> p.amount
                                 [] a = p.against -> -p.amount
                                 [] OTHER -> 0)]
    /\ \A a \in Account : funds'[a] >= 0

\* The new posting is looked for where it must be.
Next == \E p \in (posted' \ posted) \cap Posting : Post(p)
Spec == Init /\ [][Next]_vars
=============================================================================
