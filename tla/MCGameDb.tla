------------------------------ MODULE MCGameDb ------------------------------
(* TLC instance of GameDb: every order of the transactions.                *)
EXTENDS GameDb, TLC

Symmetry == Permutations(Users)
=============================================================================
