------------------------------ MODULE MCEdgeTx ------------------------------
(***************************************************************************)
(* EdgeTx for TLC: the calls are interchangeable.                          *)
(***************************************************************************)
EXTENDS EdgeTx, TLC

Symmetry == Permutations(Proc)
=============================================================================
