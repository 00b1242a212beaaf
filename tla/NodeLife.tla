------------------------------ MODULE NodeLife ------------------------------
(***************************************************************************)
(* One memory node: its weight, last touch, access count and tombstone,    *)
(* from the Write that stored it to the Forget that deletes it, bumped by  *)
(* Recalls and by Reinforce, Demote and Mark (internal/service/decay.go    *)
(* and reinforce.go over UpdateNode and DeleteNode of                      *)
(* internal/storage/neo4j/graph.go).                                       *)
(*                                                                         *)
(* Transactions are taken apart here: the first statement reads the row    *)
(* without locking it and the closure computes on what it read; the second *)
(* locks the row, writes or deletes it, and holds the lock while the third *)
(* adjusts the counter and the transaction commits.  Reads see committed   *)
(* rows only, so the second statement, the third and the commit are one    *)
(* step.  The driver may run a transaction again instead.                  *)
(*                                                                         *)
(* Time is in ticks, Millisecond of them to the millisecond that the row   *)
(* rounds down to.  Weights are integers; what decay and dampening leave   *)
(* of a number is a parameter.  Nothing relates the configured cap and     *)
(* floor to each other or to the weight a Write stores (config.Validate    *)
(* asks of the cap only that it is positive).                              *)
(***************************************************************************)
EXTENDS Integers

CONSTANTS
    Proc,             \* the calls in progress
    WeightCap, NodeFloor, NodeDelta, RefractoryPeriod,
    InitialWeight,    \* of a node that a Write stores
    Bumps,            \* deltas of Reinforce, Demote and Mark
    Fade(_, _),       \* what is left of a weight after some ticks
    Damp(_, _),       \* what is left of a positive bump on a decayed weight
    Millisecond,      \* ticks
    MaxTime,          \* bound: clock ticks
    MaxCalls          \* bound: calls begun

ASSUME NodeAssumption ==
    /\ WeightCap \in Nat \ {0}
    /\ NodeFloor \in Nat
    /\ InitialWeight \in Nat
    /\ NodeDelta \in Nat
    /\ RefractoryPeriod \in Nat
    /\ Bumps \subseteq Int
    /\ Millisecond \in Nat \ {0}
    /\ MaxTime \in Nat
    /\ MaxCalls \in Nat

(* What a node may weigh: what the cap lets through, the floor, or what is *)
(* left of the weight it was stored with.                                  *)
Weight == 0..WeightCap \union 0..NodeFloor \union 0..InitialWeight

ASSUME DataAssumption ==
    /\ \A w \in Weight, dt \in 1..MaxTime : Fade(w, dt) \in 0..w
    /\ \A delta \in Bumps, w \in Weight : delta > 0 => Damp(delta, w) \in 0..delta

VARIABLES
    node,       \* the stored row
    nodeCount,  \* this node's part of the counter's node_count
    sumWeight,  \* this node's part of the counter's sum_node_weight
    now,        \* the clock
    calls,
    local,      \* the locals of each call
    raced       \* history: a transaction wrote over a row that had changed since its read

vars == <<node, nodeCount, sumWeight, now, calls, local, raced>>
stored == <<node, nodeCount, sumWeight, raced>>

-----------------------------------------------------------------------------
Node == [
    present    : BOOLEAN,
    weight     : Weight,
    touched    : 0..MaxTime,  \* last_touched_unix_ms, in ticks
    access     : Nat,
    tombstoned : BOOLEAN,
    bumped     : 0..MaxTime]  \* history: the clock of the last explicit bump it carries

Stored == [present |-> TRUE, weight |-> InitialWeight, touched |-> 0, access |-> 0,
           tombstoned |-> FALSE, bumped |-> 0]
Gone == [present |-> FALSE, weight |-> 0, touched |-> 0, access |-> 0,
         tombstoned |-> FALSE, bumped |-> 0]

Local == [
    pc      : {"idle", "update", "commit", "hide", "delete", "detach"},
    op      : {"recall", "bump", "forget"},
    delta   : Bumps \union {0, NodeDelta},
    skipped : BOOLEAN,  \* the bump was dropped by the refractory gate
    at      : 0..MaxTime,
    was     : Node,     \* the row as the first statement read it
    new     : Node]     \* the row as the closure left it

Idle == [pc |-> "idle", op |-> "recall", delta |-> 0, skipped |-> FALSE, at |-> 0,
         was |-> Gone, new |-> Gone]

At(p, label) == local[p].pc = label
Become(p, l) == local' = [local EXCEPT ![p] = l]

TypeOK ==
    /\ node \in Node
    /\ nodeCount \in Int
    /\ sumWeight \in Int
    /\ now \in 0..MaxTime
    /\ calls \in 0..MaxCalls
    /\ local \in [Proc -> Local]
    /\ raced \in BOOLEAN

Init ==
    /\ node = Stored
    /\ nodeCount = 1
    /\ sumWeight = InitialWeight
    /\ now = 0
    /\ calls = 0
    /\ local = [p \in Proc |-> Idle]
    /\ raced = FALSE

-----------------------------------------------------------------------------
(* Arithmetic.                                                             *)

Decay(weight, dt) == IF dt <= 0 THEN weight ELSE Fade(weight, dt)

CapWeight(w) == IF w < 0 THEN 0 ELSE IF w > WeightCap THEN WeightCap ELSE w

UnixMilli(t) == t - (t % Millisecond)

-----------------------------------------------------------------------------
(* The closures of UpdateNode, on the row n as it was read.                *)

Decayed(n) == Decay(n.weight, now - n.touched)

(* applyNodeDecayReinforce                                                 *)
Recalled(n, delta) ==
    [n EXCEPT !.weight = CapWeight(Decayed(n) + delta),
              !.touched = UnixMilli(now),
              !.access = @ + 1]

(* applyExplicitNodeBump                                                   *)

Dropped(n) == RefractoryPeriod > 0 /\ now - n.touched < RefractoryPeriod

Effective(n, delta) ==
    IF Dropped(n) THEN 0 ELSE IF delta > 0 THEN Damp(delta, Decayed(n)) ELSE delta

(* Fault: a demotion is not stopped at the floor.                          *)
BoundAbove(w, eff) == IF w + eff > WeightCap THEN WeightCap ELSE w + eff

Bound(w, eff) ==
    LET capped == IF w + eff > WeightCap THEN WeightCap ELSE w + eff
    IN  IF capped < NodeFloor THEN NodeFloor ELSE capped

(* Fault: an applied bump leaves the last touch alone.                     *)
BumpedUntouched(n, delta) ==
    [n EXCEPT !.weight = Bound(Decayed(n), Effective(n, delta)),
              !.touched = IF Dropped(n) THEN UnixMilli(now) ELSE @,
              !.access = @ + 1,
              !.bumped = IF Dropped(n) THEN @ ELSE now]

Bumped(n, delta) ==
    [n EXCEPT !.weight = Bound(Decayed(n), Effective(n, delta)),
              !.touched = UnixMilli(now),
              !.access = @ + 1,
              !.bumped = IF Dropped(n) THEN @ ELSE now]

-----------------------------------------------------------------------------
Tick ==
    /\ now < MaxTime
    /\ now' = now + 1
    /\ UNCHANGED <<stored, calls, local>>

Begin(p, label, op, delta) ==
    /\ At(p, "idle")
    /\ calls < MaxCalls
    /\ calls' = calls + 1
    /\ Become(p, [Idle EXCEPT !.pc = label, !.op = op, !.delta = delta])
    /\ UNCHANGED <<stored, now>>

(* A Recall has found the node, Reinforce, Demote or Mark names it, a      *)
(* Forget has purged its edges.                                            *)
RecallNode(p) == Begin(p, "update", "recall", NodeDelta)
BumpNode(p)   == \E delta \in Bumps : Begin(p, "update", "bump", delta)
ForgetNode(p) == Begin(p, "hide", "forget", 0)

(* Fault: `skipped` is not reset when the closure runs again.              *)
AnswerSticky(l) ==
    [l EXCEPT !.pc = "commit", !.at = now, !.was = node,
              !.skipped = @ \/ (l.op = "bump" /\ Dropped(node)),
              !.new = IF l.op = "bump" THEN Bumped(node, l.delta) ELSE Recalled(node, l.delta)]

Answer(l) ==
    [l EXCEPT !.pc = "commit", !.at = now, !.was = node,
              !.skipped = l.op = "bump" /\ Dropped(node),
              !.new = IF l.op = "bump" THEN Bumped(node, l.delta) ELSE Recalled(node, l.delta)]

(* UpdateNode: the read and the closure.                                   *)
UpdateRead(p) ==
    /\ At(p, "update")
    /\ node.present
    /\ Become(p, Answer(local[p]))
    /\ UNCHANGED <<stored, now, calls>>

(* ErrNotFound; an absent node at DeleteNode's read is no error.           *)
Miss(p) ==
    /\ local[p].pc \in {"update", "delete"}
    /\ ~node.present
    /\ Become(p, Idle)
    /\ UNCHANGED <<stored, now, calls>>

(* Fault: the tombstone is not among the properties decoded.               *)
WriteRowShown(n) == IF node.present THEN [n EXCEPT !.tombstoned = FALSE] ELSE node

(* MATCH ... SET n += props: every property of the row, or nothing if the  *)
(* row is gone.                                                            *)
WriteRow(n) == IF node.present THEN n ELSE node

(* Fault: the counter is given the new weight.                             *)
WeightChangeWhole(l) == l.new.weight
WeightChange(l) == l.new.weight - l.was.weight

UpdateCommit(p) ==
    LET l == local[p] IN
    /\ At(p, "commit")
    /\ node' = WriteRow(l.new)
    /\ sumWeight' = sumWeight + WeightChange(l)
    /\ raced' = (raced \/ node # l.was)
    /\ Become(p, Idle)
    /\ UNCHANGED <<nodeCount, now, calls>>

(* The vector index's Delete: one statement.                               *)
Hide(p) ==
    /\ At(p, "hide")
    /\ node' = IF node.present THEN [node EXCEPT !.tombstoned = TRUE] ELSE node
    /\ Become(p, [local[p] EXCEPT !.pc = "delete"])
    /\ UNCHANGED <<nodeCount, sumWeight, raced, now, calls>>

(* DeleteNode                                                              *)
DeleteRead(p) ==
    /\ At(p, "delete")
    /\ node.present
    /\ Become(p, [local[p] EXCEPT !.pc = "detach", !.was = node])
    /\ UNCHANGED <<stored, now, calls>>

DeleteCommit(p) ==
    LET l == local[p] IN
    /\ At(p, "detach")
    /\ node' = Gone
    /\ nodeCount' = nodeCount - 1
    /\ sumWeight' = sumWeight - l.was.weight
    /\ raced' = (raced \/ node # l.was)
    /\ Become(p, Idle)
    /\ UNCHANGED <<now, calls>>

(* The driver runs a transaction again after a transient error.            *)
Retry(p) ==
    /\ local[p].pc \in {"commit", "detach"}
    /\ Become(p, [local[p] EXCEPT !.pc = IF @ = "commit" THEN "update" ELSE "delete"])
    /\ UNCHANGED <<stored, now, calls>>

(* The call ends early.                                                    *)
Abort(p) ==
    /\ ~At(p, "idle")
    /\ Become(p, Idle)
    /\ UNCHANGED <<stored, now, calls>>

Call(p) ==
    \/ RecallNode(p) \/ BumpNode(p) \/ UpdateRead(p) \/ UpdateCommit(p)
    \/ ForgetNode(p) \/ Hide(p) \/ DeleteRead(p) \/ DeleteCommit(p)
    \/ Miss(p) \/ Retry(p) \/ Abort(p)

(* No call is in progress and none arrives.                                *)
Rest == (\A p \in Proc : At(p, "idle")) /\ UNCHANGED vars

Next == (\E p \in Proc : Call(p)) \/ Rest \/ Tick

Spec == Init /\ [][Next]_vars

-----------------------------------------------------------------------------
(* Properties.                                                             *)

(* Until a transaction writes over a row that another has changed since it *)
(* read it, both counters hold exactly this node (the deltas that          *)
(* UpdateNode and DeleteNode give adjustCountersTx); and whatever happens, *)
(* node_count is never above the nodes stored.                             *)
CountersRight ==
    /\ ~raced => nodeCount = (IF node.present THEN 1 ELSE 0) /\ sumWeight = node.weight
    /\ nodeCount <= (IF node.present THEN 1 ELSE 0)

(* What a caller of Reinforce, Demote or Mark will be told of a bump is    *)
(* what the commit does: a skipped one moves the weight by nothing but     *)
(* decay and the floor, and any other is applied now, however often the    *)
(* driver has run the closure before (the reset of `skipped`).             *)
AnswerIsTrue ==
    \A p \in Proc : At(p, "commit") /\ local[p].op = "bump" =>
        LET l == local[p] IN
        IF l.skipped
        THEN l.new.bumped = l.was.bumped /\ (l.new.weight <= l.was.weight \/ l.new.weight = NodeFloor)
        ELSE l.new.bumped = l.at

(* Two explicit bumps that a node carries are a RefractoryPeriod apart, to *)
(* within the millisecond its last touch is rounded to, whatever Recalls,  *)
(* retries and dropped bumps come between them.                            *)
BumpsApart ==
    [][(node'.present /\ node'.bumped # node.bumped /\ ~raced') =>
          node'.bumped - node.bumped > RefractoryPeriod - Millisecond]_vars

(* A node that a Forget has hidden from search stays hidden: an update,    *)
(* which writes every property back, shows it again only if it read the    *)
(* row before it was hidden.                                               *)
HiddenStays ==
    [][(node.tombstoned /\ node'.present /\ ~raced') => node'.tombstoned]_vars
=============================================================================
