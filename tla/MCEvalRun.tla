----------------------------- MODULE MCEvalRun ------------------------------
(***************************************************************************)
(* EvalRun for TLC: a transcript of three turns and a line that is none,   *)
(* the second turn copied from an older session and so dated before the    *)
(* first, the third without a timestamp.  The default date is after both.  *)
(* The second turn's last chunk is also the text of a query.               *)
(***************************************************************************)
EXTENDS EvalRun, TLC

CONSTANTS f1, t1, t2, t3, system, x, y

MCTurn == {t1, t2, t3}
MCScript == f1 :> <<t1, system, t2, t3>>
MCUuid == t1 :> 1 @@ t2 :> 2 @@ t3 :> 3
MCChunkList == t1 :> <<x>> @@ t2 :> <<x, y>> @@ t3 :> <<x>>
MCUndated == -1
MCStamp == t1 :> 5 @@ t2 :> 3 @@ t3 :> MCUndated
=============================================================================
