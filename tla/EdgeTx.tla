------------------------------- MODULE EdgeTx -------------------------------
(***************************************************************************)
(* The edge methods of the Neo4j adapter on one ordered pair of nodes,     *)
(* statement by statement (internal/storage/neo4j/graph.go), beneath the   *)
(* calls that use them: Write's structural puts, applyEdgeDecayReinforce,  *)
(* readDecayedEdge, the prunes, purgeNodeEdges and DeleteNode.             *)
(*                                                                         *)
(* A kind is a relationship type, so nothing but the statements' order     *)
(* keeps a pair from having two relationships.  A transaction's first      *)
(* statement reads committed rows without locking them; the first one that *)
(* writes a row locks the end nodes until the transaction commits, so that *)
(* statement and those after it are one step.  A DELETE that finds no row  *)
(* locks nothing.  The driver may run a transaction again.                 *)
(*                                                                         *)
(* Of a relationship's properties the weight is kept, the one that the     *)
(* counters sum; what the closure of UpdateEdge makes of it is any weight, *)
(* and any kind at least as strong.                                        *)
(***************************************************************************)
EXTENDS Integers

CONSTANTS
    Proc,     \* the calls in progress
    Weights,  \* of the edges that are put and updated
    MaxCalls  \* bound: calls begun

ASSUME EdgeTxAssumption ==
    /\ Weights \subseteq Nat
    /\ MaxCalls \in Nat

VARIABLES
    rels,      \* the relationship of each type: its weight, or None
    attached,  \* both end nodes exist
    count,     \* this pair's part of the counter's edge_count
    sum,       \* this pair's part of the counter's sum_edge_weight
    calls,
    local,     \* the locals of each call
    raced      \* history: a transaction wrote over rows that had changed since its read

vars == <<rels, attached, count, sum, calls, local, raced>>
stored == <<rels, attached, count, sum, raced>>

-----------------------------------------------------------------------------
Types == {"STRUCTURAL", "CORETRIEVAL", "COTRAVERSAL"}
rank == [STRUCTURAL |-> 1, CORETRIEVAL |-> 2, COTRAVERSAL |-> 3]  \* kindRank

None == -1
Rows == [Types -> Weights \union {None}]
NoRows == [t \in Types |-> None]

Found(rows) == {t \in Types : rows[t] # None}
Lone(rows) == \E t \in Types : Found(rows) = {t}

Weight(rows, t) == IF rows[t] = None THEN 0 ELSE rows[t]
Total(rows) ==
    Weight(rows, "STRUCTURAL") + Weight(rows, "CORETRIEVAL") + Weight(rows, "COTRAVERSAL")
Number(rows) ==
    LET one(t) == IF rows[t] = None THEN 0 ELSE 1
    IN  one("STRUCTURAL") + one("CORETRIEVAL") + one("COTRAVERSAL")

Local == [
    pc      : {"idle", "get", "begin", "write", "merge"},
    op      : {"put", "update", "delete", "end"},
    was     : Rows,                    \* the rows that the first statement read
    row     : Types \union {"none"},   \* the one it took
    type    : Types,                   \* of the edge to store
    weight  : Weights \union {0},
    sure    : BOOLEAN,                 \* GetEdge has found the edge
    deleted : BOOLEAN]                 \* history: it was deleted since the call began

Idle == [pc |-> "idle", op |-> "put", was |-> NoRows, row |-> "none", type |-> "STRUCTURAL",
         weight |-> 0, sure |-> FALSE, deleted |-> FALSE]

At(p, label) == local[p].pc = label
Become(p, l) == local' = [local EXCEPT ![p] = l]
OldWeight(l) == IF l.row = "none" THEN 0 ELSE l.was[l.row]

TypeOK ==
    /\ rels \in Rows
    /\ attached \in BOOLEAN
    /\ count \in Int
    /\ sum \in Int
    /\ calls \in 0..MaxCalls
    /\ local \in [Proc -> Local]
    /\ raced \in BOOLEAN

Init ==
    /\ rels = NoRows
    /\ attached = TRUE
    /\ count = 0
    /\ sum = 0
    /\ calls = 0
    /\ local = [p \in Proc |-> Idle]
    /\ raced = FALSE

-----------------------------------------------------------------------------
(* The calls.                                                              *)

Begin(p, l) ==
    /\ At(p, "idle")
    /\ calls < MaxCalls
    /\ calls' = calls + 1
    /\ Become(p, l)
    /\ UNCHANGED stored

(* applyEdgeDecayReinforce: GetEdge, then UpdateEdge or PutEdge.           *)
Reinforce(p) == Begin(p, [Idle EXCEPT !.pc = "get"])

GetEdge(p) ==
    /\ At(p, "get")
    /\ \E type \in {"CORETRIEVAL", "COTRAVERSAL"} :
          Become(p, [Idle EXCEPT !.pc = "begin",
                        !.op = IF Found(rels) = {} THEN "put" ELSE "update",
                        !.type = type,
                        !.sure = Found(rels) # {}])
    /\ UNCHANGED <<stored, calls>>

(* putStructuralEdgePair; readDecayedEdge; a prune or purgeNodeEdges; a    *)
(* Forget of one end.                                                      *)
PutStructural(p) == Begin(p, [Idle EXCEPT !.pc = "begin"])
ReadEdge(p)      == Begin(p, [Idle EXCEPT !.pc = "begin", !.op = "update"])
PruneEdge(p)     == Begin(p, [Idle EXCEPT !.pc = "begin", !.op = "delete"])
ForgetEnd(p)     == Begin(p, [Idle EXCEPT !.pc = "begin", !.op = "end"])

-----------------------------------------------------------------------------
(* First statements.                                                       *)

(* putEdgeTx: the first row, if there is any.                              *)
ReadForPut(p) ==
    /\ At(p, "begin") /\ local[p].op = "put"
    /\ \E row \in (IF Found(rels) = {} THEN {"none"} ELSE Found(rels)), w \in Weights :
          Become(p, [local[p] EXCEPT !.pc = "write", !.was = rels, !.row = row, !.weight = w])
    /\ UNCHANGED <<stored, calls>>

(* UpdateEdge: LIMIT 1, and the closure.                                   *)
ReadForUpdate(p) ==
    /\ At(p, "begin") /\ local[p].op = "update"
    /\ \E row \in Found(rels), type \in Types, w \in Weights :
          /\ rank[type] >= rank[row]
          /\ Become(p, [local[p] EXCEPT !.pc = "write", !.was = rels, !.row = row,
                                        !.type = type, !.weight = w])
    /\ UNCHANGED <<stored, calls>>

(* UpdateEdge: ErrNotFound.                                                *)
Miss(p) ==
    /\ At(p, "begin") /\ local[p].op = "update"
    /\ Found(rels) = {}
    /\ Become(p, Idle)
    /\ UNCHANGED <<stored, calls>>

(* DeleteEdge: Single fails on two rows as it does on none, and either is  *)
(* taken for an absent edge.                                               *)
ReadForDelete(p) ==
    /\ At(p, "begin") /\ local[p].op = "delete"
    /\ \/ /\ ~Lone(rels)
          /\ Become(p, Idle)
       \/ \E row \in Types :
             /\ Found(rels) = {row}
             /\ Become(p, [local[p] EXCEPT !.pc = "write", !.was = rels, !.row = row])
    /\ UNCHANGED <<stored, calls>>

(* DeleteNode: the edges of a node that exists.                            *)
ReadForEnd(p) ==
    /\ At(p, "begin") /\ local[p].op = "end"
    /\ Become(p, IF attached THEN [local[p] EXCEPT !.pc = "write", !.was = rels] ELSE Idle)
    /\ UNCHANGED <<stored, calls>>

-----------------------------------------------------------------------------
(* The statements that write, and the counters.                            *)

Overwrites(p) == raced' = (raced \/ rels # local[p].was)

Settle(p) ==
    /\ Become(p, Idle)
    /\ UNCHANGED calls

(* Everyone else's call that is in progress has seen a deletion.           *)
SettleDeleting(p) ==
    /\ local' = [q \in Proc |-> IF q = p THEN Idle ELSE [local[q] EXCEPT !.deleted = TRUE]]
    /\ UNCHANGED calls

Replaces(l) == l.op \in {"put", "update"} /\ l.row # "none" /\ l.row # l.type

(* adjustCountersTx                                                        *)
CountStored(l) ==
    /\ count' = count + (IF l.op = "put" /\ l.row = "none" THEN 1 ELSE 0)
    /\ sum' = sum + l.weight - OldWeight(l)

(* MATCH both ends, MERGE the type: no edge without both.                  *)
Merge(l) == rels' = IF attached THEN [rels EXCEPT ![l.type] = l.weight] ELSE rels

(* putEdgeTx where no edge was read, or one of the same type.              *)
MergeEdge(p) ==
    LET l == local[p] IN
    /\ At(p, "write") /\ l.op = "put" /\ ~Replaces(l)
    /\ Merge(l)
    /\ CountStored(l)
    /\ Overwrites(p)
    /\ Settle(p)
    /\ UNCHANGED attached

(* Fault: the weight is added to the stored one.                           *)
SetAdding(p) ==
    LET l == local[p] IN
    /\ At(p, "write") /\ l.op = "update" /\ ~Replaces(l)
    /\ rels' = [t \in Types |-> IF rels[t] = None THEN None ELSE rels[t] + l.weight]
    /\ CountStored(l)
    /\ Overwrites(p)
    /\ Settle(p)
    /\ UNCHANGED attached

(* UpdateEdge of the same type: MATCH SET writes to every relationship of  *)
(* the pair.                                                               *)
SetEdge(p) ==
    LET l == local[p] IN
    /\ At(p, "write") /\ l.op = "update" /\ ~Replaces(l)
    /\ rels' = [t \in Types |-> IF rels[t] = None THEN None ELSE l.weight]
    /\ CountStored(l)
    /\ Overwrites(p)
    /\ Settle(p)
    /\ UNCHANGED attached

(* Fault: the other type is not deleted.                                   *)
MergeBeside(p) ==
    LET l == local[p] IN
    /\ At(p, "write") /\ Replaces(l)
    /\ Found(rels) # {}
    /\ rels' = IF attached THEN [rels EXCEPT ![l.type] = l.weight] ELSE NoRows
    /\ CountStored(l)
    /\ Overwrites(p)
    /\ Settle(p)
    /\ UNCHANGED attached

(* Fault: DELETE and MERGE are two transactions.                           *)
ReplaceInTwo(p) ==
    LET l == local[p] IN
    /\ At(p, "write") /\ Replaces(l)
    /\ Found(rels) # {}
    /\ rels' = NoRows
    /\ Become(p, [l EXCEPT !.pc = "merge"])
    /\ Overwrites(p)
    /\ UNCHANGED <<attached, count, sum, calls>>

(* A type that differs from the one read: DELETE whatever is there, MERGE. *)
ReplaceEdge(p) ==
    LET l == local[p] IN
    /\ At(p, "write") /\ Replaces(l)
    /\ Found(rels) # {}
    /\ rels' = IF attached THEN [NoRows EXCEPT ![l.type] = l.weight] ELSE NoRows
    /\ CountStored(l)
    /\ Overwrites(p)
    /\ Settle(p)
    /\ UNCHANGED attached

(* The DELETE finds nothing any more, and locks nothing.                   *)
DropNothing(p) ==
    /\ At(p, "write") /\ Replaces(local[p])
    /\ Found(rels) = {}
    /\ raced' = TRUE
    /\ Become(p, [local[p] EXCEPT !.pc = "merge"])
    /\ UNCHANGED <<rels, attached, count, sum, calls>>

MergeLate(p) ==
    LET l == local[p] IN
    /\ At(p, "merge")
    /\ Merge(l)
    /\ CountStored(l)
    /\ Settle(p)
    /\ UNCHANGED <<attached, raced>>

DeleteEdge(p) ==
    LET l == local[p] IN
    /\ At(p, "write") /\ l.op = "delete"
    /\ rels' = NoRows
    /\ count' = count - 1
    /\ sum' = sum - OldWeight(l)
    /\ Overwrites(p)
    /\ SettleDeleting(p)
    /\ UNCHANGED attached

(* Fault: DETACH DELETE takes edges with it that nobody subtracts.         *)
DetachUncounted(p) ==
    LET l == local[p] IN
    /\ At(p, "write") /\ l.op = "end"
    /\ rels' = NoRows
    /\ attached' = FALSE
    /\ UNCHANGED <<count, sum>>
    /\ Overwrites(p)
    /\ SettleDeleting(p)

(* DeleteNode: DETACH DELETE.                                              *)
DetachEnd(p) ==
    LET l == local[p] IN
    /\ At(p, "write") /\ l.op = "end"
    /\ rels' = NoRows
    /\ attached' = FALSE
    /\ count' = count - Number(l.was)
    /\ sum' = sum - Total(l.was)
    /\ Overwrites(p)
    /\ SettleDeleting(p)

(* The driver runs the transaction again after a transient error.          *)
Retry(p) ==
    /\ local[p].pc \in {"write", "merge"}
    /\ Become(p, [local[p] EXCEPT !.pc = "begin"])
    /\ UNCHANGED <<stored, calls>>

(* The call ends early.                                                    *)
Abort(p) ==
    /\ ~At(p, "idle")
    /\ Become(p, Idle)
    /\ UNCHANGED <<stored, calls>>

Call(p) ==
    \/ Reinforce(p) \/ GetEdge(p) \/ PutStructural(p) \/ ReadEdge(p)
    \/ PruneEdge(p) \/ ForgetEnd(p)

Read(p) ==
    \/ ReadForPut(p) \/ ReadForUpdate(p) \/ Miss(p) \/ ReadForDelete(p) \/ ReadForEnd(p)

Write(p) ==
    \/ MergeEdge(p) \/ SetEdge(p) \/ ReplaceEdge(p) \/ DropNothing(p) \/ MergeLate(p)
    \/ DeleteEdge(p) \/ DetachEnd(p)

(* No call is in progress and none arrives.                                *)
Rest == (\A p \in Proc : At(p, "idle")) /\ UNCHANGED vars

Next == (\E p \in Proc : Call(p) \/ Read(p) \/ Write(p) \/ Retry(p) \/ Abort(p)) \/ Rest

Spec == Init /\ [][Next]_vars

-----------------------------------------------------------------------------
(* Properties.                                                             *)

(* putEdgeTx: "one edge per (from, to) pair regardless of Kind".  Until a  *)
(* transaction writes over rows that another has changed since it read     *)
(* them, a pair has at most one relationship, and none once an end is      *)
(* gone; while both ends exist the counters are that relationship.  Only   *)
(* an end that is gone may leave them above it, never below.               *)
OneEdgePerPair ==
    ~raced =>
        /\ Found(rels) = {} \/ (attached /\ Lone(rels))
        /\ attached => count = Number(rels) /\ sum = Total(rels)
        /\ count >= 0 /\ sum >= 0

(* UpdateEdge fails a reinforcement whose GetEdge found the edge only if   *)
(* it has been deleted in between: an edge that changes its type is never  *)
(* seen missing, whatever has raced.                                       *)
MissedOnlyIfDeleted ==
    \A p \in Proc :
        At(p, "begin") /\ local[p].sure /\ Found(rels) = {} => local[p].deleted

(* The edge of a pair that has one, or none.                               *)
NoEdge == [kind |-> "none", weight |-> 0]
Edge == [kind : Types, weight : Weights]
EdgeOf(rows) ==
    IF Lone(rows)
    THEN LET type == CHOOSE t \in Types : Found(rows) = {t}
         IN  [kind |-> type, weight |-> rows[type]]
    ELSE NoEdge

Pair == INSTANCE EdgeStore WITH edge <- EdgeOf(rels)

(* Until then every transaction is one step of EdgeStore: the adapter does *)
(* what its methods promise, the step that EdgeLife takes it for.          *)
Atomic == Pair!Init /\ [][raced' \/ Pair!Next]_<<EdgeOf(rels), attached, count, sum>>
=============================================================================
