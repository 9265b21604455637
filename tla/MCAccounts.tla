------------------------------ MODULE MCAccounts ------------------------------
(***************************************************************************)
(* Accounts for TLC: a user with money, one who arrives, and requests of   *)
(* every kind, which are interchangeable.  A caller of the internal route  *)
(* takes its defaults, records a row as completed, or reserves for one     *)
(* that is refused when it is to be applied.                               *)
(***************************************************************************)
EXTENDS Accounts, TLC
Symmetric == Permutations(Requests)
Asked ==
    {[lock |-> FALSE, apply |-> TRUE, status |-> "PENDING"],
     [lock |-> FALSE, apply |-> FALSE, status |-> "RECORDED"],
     [lock |-> TRUE, apply |-> TRUE, status |-> "FAILED"]}
=============================================================================
