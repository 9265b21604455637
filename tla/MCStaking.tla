------------------------------ MODULE MCStaking ------------------------------
(* TLC instances of Staking: two users, one or two pools with one wallet     *)
(* each, and two requests.  Users whose withdrawals are in different pools   *)
(* lock those pools in opposite orders.                                      *)
EXTENDS Staking
=============================================================================
