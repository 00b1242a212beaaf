------------------------------ MODULE EdgeStore ------------------------------
(***************************************************************************)
(* What the storage adapter's edge methods promise of one ordered pair of  *)
(* nodes: at most one edge, and counters that move with it, each method in *)
(* one step.  The counters are this pair's part of the tenant's.           *)
(***************************************************************************)
EXTENDS Integers

CONSTANTS
    Edge,   \* what may be stored: records with a kind and a weight
    NoEdge  \* no edge, of weight 0

VARIABLES
    edge,      \* the stored edge
    attached,  \* both end nodes exist
    count,     \* of edge_count
    sum        \* of sum_edge_weight

storeVars == <<edge, attached, count, sum>>

Linked == edge.kind # "none"

Init ==
    /\ edge = NoEdge
    /\ attached = TRUE
    /\ count = 0
    /\ sum = 0

(* Fault: a replaced edge keeps its share of the weight sum.               *)
PutAdding(e) ==
    /\ edge' = IF attached THEN e ELSE edge
    /\ count' = count + (IF Linked THEN 0 ELSE 1)
    /\ sum' = sum + e.weight
    /\ UNCHANGED attached

(* PutEdge: whatever was there is replaced as a whole, and counted whether *)
(* or not there were ends to put an edge between.                          *)
Put(e) ==
    /\ edge' = IF attached THEN e ELSE edge
    /\ count' = count + (IF Linked THEN 0 ELSE 1)
    /\ sum' = sum + e.weight - edge.weight
    /\ UNCHANGED attached

(* UpdateEdge of an edge that is there, to what the closure makes of it.   *)
Update(e) ==
    /\ edge' = e
    /\ sum' = sum + e.weight - edge.weight
    /\ UNCHANGED <<attached, count>>

Remove ==
    /\ edge' = NoEdge
    /\ count' = count - (IF Linked THEN 1 ELSE 0)
    /\ sum' = sum - edge.weight

DeleteEdge == Remove /\ UNCHANGED attached

(* DeleteNode of an end.                                                   *)
DeleteEnd == Remove /\ attached' = FALSE

Next ==
    \/ \E e \in Edge : Put(e)
    \/ Linked /\ \E e \in Edge : Update(e)
    \/ DeleteEdge
    \/ DeleteEnd

Spec == Init /\ [][Next]_storeVars
=============================================================================
