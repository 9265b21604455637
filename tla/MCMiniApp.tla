------------------------------ MODULE MCMiniApp ------------------------------
(***************************************************************************)
(* MiniApp for TLC.                                                        *)
(***************************************************************************)
EXTENDS MiniApp
=============================================================================
