----------------------------- MODULE MCNodeLife -----------------------------
(***************************************************************************)
(* NodeLife for TLC: the calls are interchangeable, a weight loses one     *)
(* unit every two ticks, and dampening is the code's, rounded down.        *)
(***************************************************************************)
EXTENDS NodeLife, TLC

Symmetry == Permutations(Proc)

MCBumps == {-2, 2}
MCFade(w, dt) == IF w > dt \div 2 THEN w - dt \div 2 ELSE 0
MCDamp(delta, w) == IF w < WeightCap THEN (delta * (WeightCap - w)) \div WeightCap ELSE 0
=============================================================================
