------------------------------ MODULE MCDeposits ------------------------------
(* TLC instance of Deposits: one intent of either provider, two payments for *)
(* it, and the handlers that can meet over it.                               *)
EXTENDS Deposits
=============================================================================
