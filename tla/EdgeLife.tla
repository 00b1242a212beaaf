------------------------------ MODULE EdgeLife ------------------------------
(***************************************************************************)
(* One memory edge, from one node to another, with its kind, weight, last  *)
(* touch and counts: created by a Write's structural put or by a Recall,   *)
(* reinforced and decayed lazily by Recalls (applyEdgeDecayReinforce and   *)
(* readDecayedEdge), pruned when its weight falls below EdgeFloor, removed *)
(* by Forget (internal/service/decay.go over UpdateEdge, PutEdge and       *)
(* DeleteEdge of internal/storage/neo4j/graph.go).                         *)
(*                                                                         *)
(* A storage transaction is atomic, but the driver may run the function of *)
(* a transaction several times and commit only the last run.  A call reads *)
(* the clock once, before its first transaction.  A tick is a millisecond, *)
(* the precision LastTouched is stored with.                               *)
(*                                                                         *)
(* Weights are integers; exponential decay, at the rate of a kind, is any  *)
(* function that never raises a weight.  Nothing relates the configured    *)
(* weights to each other (config.Validate asks of the cap only that it is  *)
(* positive): a structural weight may lie below the floor or above the     *)
(* cap, and is stored as it is configured.                                 *)
(***************************************************************************)
EXTENDS Integers

CONSTANTS
    Proc,              \* the Recalls in progress
    WeightCap, EdgeFloor,
    Fade(_, _, _),     \* what is left of a weight of a kind after some ticks
    Deltas,            \* reinforcements a Recall applies
    StructuralWeights, \* EdgeStructuralWeight, EdgeStructuralTemporalWeight
    MaxTime,           \* bound: clock ticks
    MaxCalls,          \* bound: edge operations begun by Recalls
    MaxPuts            \* bound: structural puts of this pair

Reinforcements == {"CoRetrieval", "CoTraversal"}
Kinds == Reinforcements \union {"Structural"}

ASSUME EdgeAssumption ==
    /\ WeightCap \in Nat \ {0}
    /\ EdgeFloor \in Nat
    /\ Deltas \subseteq Nat \ {0}
    /\ StructuralWeights \subseteq Nat
    /\ MaxTime \in Nat
    /\ MaxCalls \in Nat
    /\ MaxPuts \in Nat

(* What an edge may weigh: what the cap lets through, or what is left of a *)
(* structural weight.                                                      *)
Weight == 0..WeightCap \union UNION {0..w : w \in StructuralWeights}

ASSUME FadeAssumption ==
    \A kind \in Kinds, w \in Weight, dt \in 1..MaxTime : Fade(kind, w, dt) \in 0..w

VARIABLES
    edge,      \* the stored relationship
    attached,  \* both end nodes exist
    count,     \* this pair's part of the counter's edge_count
    sum,       \* this pair's part of the counter's sum_edge_weight
    now,       \* the clock
    calls, puts,
    local,     \* the locals of each call
    abandoned, \* history: a call died between finding the edge weak and deleting it
    untouched  \* history: a Write stored the edge and no Recall has touched it since

vars == <<edge, attached, count, sum, now, calls, puts, local, abandoned, untouched>>
stored == <<edge, attached, count, sum, abandoned, untouched>>

-----------------------------------------------------------------------------
kindRank == [none |-> 0, Structural |-> 1, CoRetrieval |-> 2, CoTraversal |-> 3]

Edge == [
    kind     : DOMAIN kindRank,
    weight   : Weight,
    touched  : 0..MaxTime,
    access   : Nat,
    traverse : Nat]

NoEdge == [kind |-> "none", weight |-> 0, touched |-> 0, access |-> 0, traverse |-> 0]

Local == [
    pc     : {"idle", "get", "put", "update", "read", "prune"},
    kind   : Reinforcements,
    delta  : Deltas \union {0},
    at     : 0..MaxTime,  \* the clock when the call began
    pruned : BOOLEAN]     \* some run of its UpdateEdge function found the edge weak

Idle == [pc |-> "idle", kind |-> "CoRetrieval", delta |-> 0, at |-> 0, pruned |-> FALSE]

Pair == INSTANCE EdgeStore

Linked == edge.kind # "none"
At(p, label) == local[p].pc = label
Become(p, l) == local' = [local EXCEPT ![p] = l]

TypeOK ==
    /\ edge \in Edge
    /\ attached \in BOOLEAN
    /\ count \in Int
    /\ sum \in Int
    /\ now \in 0..MaxTime
    /\ calls \in 0..MaxCalls
    /\ puts \in 0..MaxPuts
    /\ local \in [Proc -> Local]
    /\ abandoned \in BOOLEAN
    /\ untouched \in BOOLEAN

Init ==
    /\ edge = NoEdge
    /\ attached = TRUE
    /\ count = 0
    /\ sum = 0
    /\ now = 0
    /\ calls = 0
    /\ puts = 0
    /\ local = [p \in Proc |-> Idle]
    /\ abandoned = FALSE
    /\ untouched = FALSE

-----------------------------------------------------------------------------
(* Arithmetic.                                                             *)

(* Fault: a clock that is behind the last touch decays too.                *)
DecayAnyway(kind, weight, dt) ==
    IF dt = 0 THEN weight ELSE Fade(kind, weight, IF dt < 0 THEN -dt ELSE dt)

(* decay, with lambdaForKind(kind).                                        *)
Decay(kind, weight, dt) == IF dt <= 0 THEN weight ELSE Fade(kind, weight, dt)

(* Fault: the cap is forgotten.                                            *)
Uncapped(w) == w
CapWeight(w) == IF w > WeightCap THEN WeightCap ELSE w

-----------------------------------------------------------------------------
(* Storage transactions on the pair.                                       *)

(* putEdgeTx: whatever was there is replaced as a whole.                   *)
Store(e) == Pair!Put(e) /\ abandoned' = FALSE /\ untouched' = (e.kind = "Structural")

Delete == Pair!Remove /\ abandoned' = FALSE /\ untouched' = FALSE

(* UpdateEdge with the edge the function has computed.                     *)
Update(e) == Pair!Update(e) /\ UNCHANGED abandoned /\ untouched' = FALSE

-----------------------------------------------------------------------------
Tick ==
    /\ now < MaxTime
    /\ now' = now + 1
    /\ UNCHANGED <<stored, calls, puts, local>>

(* applyEdgeDecayReinforce                                                 *)

Reinforce(p) ==
    /\ At(p, "idle")
    /\ calls < MaxCalls
    /\ calls' = calls + 1
    /\ \E kind \in Reinforcements, delta \in Deltas :
          Become(p, [Idle EXCEPT !.pc = "get", !.kind = kind, !.delta = delta, !.at = now])
    /\ UNCHANGED <<stored, now, puts>>

Created(l) ==
    [kind     |-> l.kind,
     weight   |-> CapWeight(l.delta),
     touched  |-> l.at,
     access   |-> IF l.kind = "CoRetrieval" THEN 1 ELSE 0,
     traverse |-> IF l.kind = "CoTraversal" THEN 1 ELSE 0]

GetEdge(p) ==
    LET l == local[p] IN
    /\ l.pc = "get"
    /\ Become(p, IF Linked THEN [l EXCEPT !.pc = "update"]
                 ELSE IF CapWeight(l.delta) < EdgeFloor THEN Idle
                 ELSE [l EXCEPT !.pc = "put"])
    /\ UNCHANGED <<stored, now, calls, puts>>

PutEdge(p) ==
    /\ At(p, "put")
    /\ Store(Created(local[p]))
    /\ Become(p, Idle)
    /\ UNCHANGED <<now, calls, puts>>

(* What the function passed to UpdateEdge makes of the edge: a             *)
(* reinforcement decays it at the rate of its own kind, a read at that of  *)
(* the edge's.                                                             *)
Reinforced(l) ==
    [kind     |-> IF kindRank[l.kind] > kindRank[edge.kind] THEN l.kind ELSE edge.kind,
     weight   |-> CapWeight(Decay(l.kind, edge.weight, l.at - edge.touched) + l.delta),
     touched  |-> l.at,
     access   |-> edge.access + (IF l.kind = "CoRetrieval" THEN 1 ELSE 0),
     traverse |-> edge.traverse + (IF l.kind = "CoTraversal" THEN 1 ELSE 0)]

Decayed(l) ==
    [edge EXCEPT !.weight = Decay(edge.kind, edge.weight, l.at - edge.touched),
                 !.touched = l.at]

Outcome(l) == IF l.pc = "update" THEN Reinforced(l) ELSE Decayed(l)

(* Fault: only a read prunes.                                              *)
SettleReadsOnly(p, weak) ==
    Become(p, IF weak /\ At(p, "read") THEN [local[p] EXCEPT !.pc = "prune"] ELSE Idle)

(* Once any run of the function has found the edge weak, the call goes on  *)
(* to delete it: `pruned` is not reset between runs.                       *)
Settle(p, weak) ==
    Become(p, IF weak THEN [local[p] EXCEPT !.pc = "prune"] ELSE Idle)

(* UpdateEdge, by applyEdgeDecayReinforce or readDecayedEdge.              *)
UpdateEdge(p) ==
    LET e == Outcome(local[p]) IN
    /\ local[p].pc \in {"update", "read"}
    /\ Linked
    /\ Update(e)
    /\ Settle(p, local[p].pruned \/ e.weight < EdgeFloor)
    /\ UNCHANGED <<now, calls, puts>>

(* A run of the function that a transient error keeps from committing.     *)
RetryEdge(p) ==
    /\ local[p].pc \in {"update", "read"}
    /\ Linked
    /\ Become(p, [local[p] EXCEPT !.pruned = @ \/ Outcome(local[p]).weight < EdgeFloor])
    /\ UNCHANGED <<stored, now, calls, puts>>

(* ErrNotFound: a reinforcement fails, a read goes on to the next edge.    *)
MissEdge(p) ==
    /\ local[p].pc \in {"update", "read"}
    /\ ~Linked
    /\ Become(p, Idle)
    /\ UNCHANGED <<stored, now, calls, puts>>

PruneEdge(p) ==
    /\ At(p, "prune")
    /\ Delete
    /\ Become(p, Idle)
    /\ UNCHANGED <<attached, now, calls, puts>>

(* readDecayedEdge                                                         *)
ReadEdge(p) ==
    /\ At(p, "idle")
    /\ calls < MaxCalls
    /\ calls' = calls + 1
    /\ Become(p, [Idle EXCEPT !.pc = "read", !.at = now])
    /\ UNCHANGED <<stored, now, puts>>

(* The call ends early.                                                    *)
Abort(p) ==
    /\ ~At(p, "idle")
    /\ abandoned' = (abandoned \/ (At(p, "prune") /\ Linked))
    /\ Become(p, Idle)
    /\ UNCHANGED <<edge, attached, count, sum, now, calls, puts, untouched>>

-----------------------------------------------------------------------------
(* The other calls.                                                        *)

(* putStructuralEdgePair, in a Write that read the clock some time ago.    *)
PutStructural ==
    /\ puts < MaxPuts
    /\ puts' = puts + 1
    /\ \E w \in StructuralWeights, t \in 0..now :
          Store([NoEdge EXCEPT !.kind = "Structural", !.weight = w, !.touched = t])
    /\ UNCHANGED <<now, calls, local>>

(* purgeNodeEdges                                                          *)
ForgetEdge ==
    /\ Linked
    /\ Delete
    /\ UNCHANGED <<attached, now, calls, puts, local>>

(* DeleteNode of one end.                                                  *)
ForgetEnd ==
    /\ attached
    /\ attached' = FALSE
    /\ Delete
    /\ UNCHANGED <<now, calls, puts, local>>

Recall(p) ==
    \/ Reinforce(p) \/ GetEdge(p) \/ PutEdge(p) \/ ReadEdge(p)
    \/ UpdateEdge(p) \/ RetryEdge(p) \/ MissEdge(p) \/ PruneEdge(p)
    \/ Abort(p)

(* No Recall is in progress and none arrives.                              *)
Rest == (\A p \in Proc : At(p, "idle")) /\ UNCHANGED vars

Next == (\E p \in Proc : Recall(p)) \/ Rest \/ Tick \/ PutStructural \/ ForgetEdge \/ ForgetEnd

Spec == Init /\ [][Next]_vars

-----------------------------------------------------------------------------
(* Properties.                                                             *)

(* While both ends exist, the counters hold exactly this edge and its      *)
(* weight, whatever order calls create, replace, update and prune it in;   *)
(* once an end is gone they are never below it (the counter deltas of      *)
(* putEdgeTx, UpdateEdge, DeleteEdge and DeleteNode).                      *)
CountersFollow ==
    /\ count >= (IF Linked THEN 1 ELSE 0)
    /\ sum >= edge.weight
    /\ attached => count = (IF Linked THEN 1 ELSE 0) /\ sum = edge.weight
    /\ ~attached => ~Linked

(* An edge below the floor is about to be deleted, unless a call died      *)
(* between finding it weak and deleting it, or a Write stored it with such *)
(* a weight and no Recall has met it since: expansion never has to skip    *)
(* weak edges that nobody prunes.                                          *)
WeakEdgesDoomed ==
    (Linked /\ edge.weight < EdgeFloor) =>
        \/ abandoned
        \/ untouched /\ edge.weight \in StructuralWeights
        \/ \E p \in Proc : At(p, "prune")

(* A stored weight falls only if time has passed since the last touch,     *)
(* because a put replaced the edge, or down to the cap it was stored       *)
(* above: a call whose clock reading is older than the last touch does not *)
(* decay it.                                                               *)
FallsOnlyWithTime ==
    [][(Linked /\ Linked' /\ edge'.weight < edge.weight) =>
          \/ now > edge.touched
          \/ edge'.weight = WeightCap
          \/ puts' # puts
          \/ \E p \in Proc : At(p, "put") /\ ~At(p, "put")']_vars
=============================================================================
