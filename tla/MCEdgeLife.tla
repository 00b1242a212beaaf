----------------------------- MODULE MCEdgeLife -----------------------------
(***************************************************************************)
(* EdgeLife for TLC: the Recalls are interchangeable, a co-retrieval edge  *)
(* halves in a tick and the other kinds lose one unit.                     *)
(***************************************************************************)
EXTENDS EdgeLife, TLC

Symmetry == Permutations(Proc)

MCFade(kind, w, dt) ==
    IF kind = "CoRetrieval" THEN w \div 2^dt
    ELSE IF w > dt THEN w - dt ELSE 0
=============================================================================
