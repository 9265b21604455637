---------------------------- MODULE MCCrashGame -----------------------------
(* TLC instances of CrashGame.                                             *)
EXTENDS CrashGame, TLC

Symmetry == Permutations(Users)
=============================================================================
