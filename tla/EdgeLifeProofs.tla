--------------------------- MODULE EdgeLifeProofs ---------------------------
(***************************************************************************)
(* EdgeLife, for any number of Recalls, any weights and rates: its types,  *)
(* its counters, the fate of weak edges, and what may lower a weight.      *)
(***************************************************************************)
EXTENDS EdgeLife, TLAPS

(* What the code keeps between two steps besides the properties: an absent *)
(* edge has no weight, a call about to create an edge has checked its      *)
(* weight against the floor, and no call has read a future clock.          *)
AbsentIsEmpty == ~Linked => edge = NoEdge
PutsAreStrong == \A p \in Proc : At(p, "put") => CapWeight(local[p].delta) >= EdgeFloor
ClocksArePast == edge.touched <= now /\ \A p \in Proc : local[p].at <= now

IndInv ==
    /\ TypeOK
    /\ AbsentIsEmpty
    /\ PutsAreStrong
    /\ ClocksArePast
    /\ CountersFollow
    /\ WeakEdgesDoomed

-----------------------------------------------------------------------------
(* The arithmetic of a weight.                                             *)

(* A call's delta is a number.                                             *)
LEMMA DeltaRange == \A l \in Local : l.delta \in Nat
<1> SUFFICES ASSUME NEW l \in Local PROVE l.delta \in Nat
  OBVIOUS
<1>1. Deltas \subseteq Nat
  BY EdgeAssumption
<1>2. \A d \in Deltas \union {0} : d \in Nat
  BY <1>1
<1>3. l.delta \in Deltas \union {0}
  BY DEF Local
<1> QED BY <1>2, <1>3, Zenon

(* A weight is a number, and what is left of it is a weight too.           *)
LEMMA WeightRange ==
    /\ Weight \subseteq Nat
    /\ \A w \in Weight : 0..w \subseteq Weight
    /\ 0 \in Weight
    /\ StructuralWeights \subseteq Weight
<1>1. WeightCap \in Nat /\ StructuralWeights \subseteq Nat
  BY EdgeAssumption
<1>2. Weight \subseteq Nat
  BY <1>1 DEF Weight
<1>3. ASSUME NEW w \in Weight PROVE 0..w \subseteq Weight
  <2>1. CASE w \in 0..WeightCap
    BY <1>1, <2>1 DEF Weight
  <2>2. CASE \E s \in StructuralWeights : w \in 0..s
    <3>1. PICK s \in StructuralWeights : w \in 0..s
      BY <2>2
    <3>2. 0..w \subseteq 0..s
      BY <1>1, <3>1
    <3> QED BY <3>2 DEF Weight
  <2> QED BY <2>1, <2>2 DEF Weight
<1>4. 0 \in 0..WeightCap
  BY <1>1
<1>5. \A s \in StructuralWeights : s \in 0..s
  BY <1>1
<1> QED BY <1>2, <1>3, <1>4, <1>5 DEF Weight

(* A capped weight is a weight, and at least any weight it was raised from *)
(* unless it is the cap.                                                   *)
LEMMA CapRange ==
    ASSUME NEW w \in Nat
    PROVE  /\ CapWeight(w) \in 0..WeightCap /\ CapWeight(w) \in Weight
           /\ \A v \in Nat : w >= v => CapWeight(w) >= v \/ CapWeight(w) = WeightCap
<1>1. CapWeight(w) \in 0..WeightCap
  BY EdgeAssumption DEF CapWeight
<1>2. \A v \in Nat : w >= v => CapWeight(w) >= v \/ CapWeight(w) = WeightCap
  BY EdgeAssumption DEF CapWeight
<1> QED BY <1>1, <1>2 DEF Weight

(* Decay never raises a weight, and leaves it alone when no time passed.   *)
LEMMA DecayRange ==
    ASSUME NEW kind \in Kinds, NEW w \in Weight,
           NEW at \in 0..MaxTime, NEW touched \in 0..MaxTime
    PROVE  /\ Decay(kind, w, at - touched) \in 0..w
           /\ Decay(kind, w, at - touched) \in Weight
           /\ at <= touched => Decay(kind, w, at - touched) = w
<1>w. w \in Nat /\ 0..w \subseteq Weight
  BY WeightRange
<1>1. CASE at <= touched
  BY <1>1, <1>w, EdgeAssumption DEF Decay
<1>2. CASE at > touched
  <2>1. at - touched \in 1..MaxTime
    BY <1>2, EdgeAssumption
  <2>2. Fade(kind, w, at - touched) \in 0..w
    BY <2>1, FadeAssumption
  <2> QED BY <1>2, <1>w, <2>2, EdgeAssumption DEF Decay
<1> QED BY <1>1, <1>2, EdgeAssumption

(* The edge an UpdateEdge function computes is an edge, is linked, carries *)
(* the call's clock, and is lighter only if time has passed or the cap is  *)
(* what it weighs.                                                         *)
LEMMA OutcomeRange ==
    ASSUME TypeOK, Linked, NEW p \in Proc
    PROVE  /\ Outcome(local[p]) \in Edge
           /\ Outcome(local[p]).kind # "none"
           /\ Outcome(local[p]).touched = local[p].at
           /\ local[p].at <= edge.touched => \/ Outcome(local[p]).weight >= edge.weight
                                            \/ Outcome(local[p]).weight = WeightCap
<1> DEFINE l == local[p]
<1>1. l \in Local
  BY DEF TypeOK
<1>2. edge \in Edge /\ edge.kind \in Kinds /\ edge.weight \in Weight /\ edge.weight \in Nat
  BY WeightRange DEF TypeOK, Linked, Edge, Kinds, Reinforcements, kindRank
<1>3. CASE l.pc = "update"
  <2> DEFINE d == Decay(l.kind, edge.weight, l.at - edge.touched)
  <2>1. d \in 0..edge.weight /\ (l.at <= edge.touched => d = edge.weight)
    BY <1>1, <1>2, DecayRange DEF Local, Edge, Kinds
  <2>2. l.delta \in Nat
    BY <1>1, DeltaRange
  <2>3. d + l.delta \in Nat
    BY <1>2, <2>1, <2>2, EdgeAssumption DEF Edge
  <2>4. CapWeight(d + l.delta) \in Weight
    BY <2>3, CapRange
  <2>5. l.at <= edge.touched => \/ CapWeight(d + l.delta) >= edge.weight
                                \/ CapWeight(d + l.delta) = WeightCap
    BY <1>2, <2>1, <2>2, <2>3, CapRange, EdgeAssumption DEF Edge
  <2>6. Outcome(l) = Reinforced(l)
    BY <1>3 DEF Outcome
  <2>7. Reinforced(l) =
          [kind     |-> IF kindRank[l.kind] > kindRank[edge.kind] THEN l.kind ELSE edge.kind,
           weight   |-> CapWeight(d + l.delta),
           touched  |-> l.at,
           access   |-> edge.access + (IF l.kind = "CoRetrieval" THEN 1 ELSE 0),
           traverse |-> edge.traverse + (IF l.kind = "CoTraversal" THEN 1 ELSE 0)]
    BY DEF Reinforced
  <2>8. l.kind \in DOMAIN kindRank /\ l.kind # "none"
    BY <1>1 DEF Local, Reinforcements, kindRank
  <2> HIDE DEF d
  <2> QED BY <1>1, <1>2, <2>4, <2>5, <2>6, <2>7, <2>8, EdgeAssumption DEF Edge, Local, Linked
<1>4. CASE l.pc # "update"
  <2> DEFINE d == Decay(edge.kind, edge.weight, l.at - edge.touched)
  <2>1. d \in Weight /\ (l.at <= edge.touched => d = edge.weight)
    BY <1>1, <1>2, DecayRange DEF Local, Edge
  <2>2. Outcome(l) = [edge EXCEPT !.weight = d, !.touched = l.at]
    BY <1>4 DEF Outcome, Decayed
  <2>3. d \in Weight /\ l.at \in 0..MaxTime
    BY <1>1, <2>1 DEF Local
  <2> HIDE DEF d
  <2>4. Outcome(l) \in Edge /\ Outcome(l).kind = edge.kind
    BY <1>2, <2>2, <2>3 DEF Edge
  <2>5. Outcome(l).touched = l.at /\ Outcome(l).weight = d
    BY <1>2, <2>2 DEF Edge
  <2>6. l.at <= edge.touched => Outcome(l).weight >= edge.weight
    BY <1>2, <2>1, <2>5 DEF Edge
  <2> QED BY <2>4, <2>5, <2>6 DEF Linked
<1> QED BY <1>3, <1>4

(* The edge a Recall creates.                                              *)
LEMMA CreatedRange ==
    ASSUME NEW l \in Local
    PROVE  /\ Created(l) \in Edge
           /\ Created(l).kind # "none"
           /\ Created(l).weight = CapWeight(l.delta)
           /\ Created(l).touched = l.at
<1>1. l.delta \in Nat
  BY DeltaRange
<1> DEFINE w == CapWeight(l.delta)
           n == IF l.kind = "CoRetrieval" THEN 1 ELSE 0
           t == IF l.kind = "CoTraversal" THEN 1 ELSE 0
<1>2. w \in Weight /\ n \in Nat /\ t \in Nat
  BY <1>1, CapRange
<1>3. l.kind \in DOMAIN kindRank /\ l.kind # "none" /\ l.at \in 0..MaxTime
  BY DEF Local, Reinforcements, kindRank
<1>4. Created(l) = [kind |-> l.kind, weight |-> w, touched |-> l.at, access |-> n, traverse |-> t]
  BY DEF Created
<1>5. Created(l).weight = CapWeight(l.delta)
  BY <1>4
<1> HIDE DEF w, n, t
<1> QED BY <1>2, <1>3, <1>4, <1>5 DEF Edge

-----------------------------------------------------------------------------
(* The inductive invariant.                                                *)

(* It holds of an empty store.                                             *)
LEMMA InitInv == Init => IndInv
<1> SUFFICES ASSUME Init PROVE IndInv
  OBVIOUS
<1>1. NoEdge \in Edge /\ ~Linked /\ edge = NoEdge
  BY WeightRange, EdgeAssumption DEF Init, NoEdge, Edge, Linked, kindRank
<1>2. Idle \in Local /\ \A p \in Proc : local[p] = Idle
  BY EdgeAssumption DEF Init, Idle, Local, Reinforcements
<1>3. TypeOK
  <2>1. local \in [Proc -> Local]
    BY <1>2 DEF Init
  <2>2. 0 \in 0..MaxTime /\ 0 \in 0..MaxCalls /\ 0 \in 0..MaxPuts
    BY EdgeAssumption
  <2>3. attached \in BOOLEAN /\ abandoned \in BOOLEAN /\ untouched \in BOOLEAN
    BY Zenon DEF Init
  <2>5. count \in Int /\ sum \in Int
    BY DEF Init
  <2>4. now \in 0..MaxTime /\ calls \in 0..MaxCalls /\ puts \in 0..MaxPuts /\ edge \in Edge
    BY <1>1, <2>2 DEF Init
  <2> QED BY <2>1, <2>3, <2>4, <2>5 DEF TypeOK
<1>4. AbsentIsEmpty /\ WeakEdgesDoomed
  BY <1>1 DEF AbsentIsEmpty, WeakEdgesDoomed
<1>5. PutsAreStrong /\ ClocksArePast
  BY <1>1, <1>2 DEF Init, PutsAreStrong, ClocksArePast, At, Idle, NoEdge
<1>6. CountersFollow
  BY <1>1 DEF Init, CountersFollow, NoEdge
<1> QED BY <1>3, <1>4, <1>5, <1>6 DEF IndInv

(* The part of the invariant about what is stored.                         *)
StoreInv ==
    /\ edge \in Edge
    /\ attached \in BOOLEAN
    /\ count \in Int
    /\ sum \in Int
    /\ abandoned \in BOOLEAN
    /\ untouched \in BOOLEAN
    /\ AbsentIsEmpty
    /\ edge.touched <= now
    /\ CountersFollow

(* The part of the invariant about the calls.                              *)
CallInv ==
    /\ local \in [Proc -> Local]
    /\ PutsAreStrong
    /\ \A p \in Proc : local[p].at <= now

(* The invariant is these two parts, the weak edges' and the bounds'.      *)
LEMMA Parts ==
    IndInv <=> /\ StoreInv /\ CallInv /\ WeakEdgesDoomed
               /\ now \in 0..MaxTime /\ calls \in 0..MaxCalls /\ puts \in 0..MaxPuts
BY Zenon DEF IndInv, TypeOK, StoreInv, CallInv, ClocksArePast

(* The same after a step.                                                  *)
LEMMA NextParts ==
    ASSUME StoreInv', CallInv', WeakEdgesDoomed', now' \in 0..MaxTime,
           calls' \in 0..MaxCalls, puts' \in 0..MaxPuts
    PROVE  IndInv'
BY Zenon DEF IndInv, TypeOK, StoreInv, CallInv, ClocksArePast

(* The record of an absent edge.                                           *)
LEMMA NoEdgeFacts ==
    /\ NoEdge \in Edge
    /\ NoEdge.kind = "none" /\ NoEdge.weight = 0 /\ NoEdge.touched = 0
BY WeightRange, EdgeAssumption DEF NoEdge, Edge, kindRank

(* A put leaves the store right, and no edge but its own.                  *)
LEMMA StoreStep ==
    ASSUME StoreInv, NEW e \in Edge, e.kind # "none",
           e.touched <= now, now \in Nat, now' = now, Store(e)
    PROVE  StoreInv' /\ (Linked' => edge' = e)
<1>1. edge.weight \in Nat /\ e.weight \in Nat
  BY WeightRange DEF StoreInv, Edge
<1>2. ~Linked => edge.weight = 0
  BY NoEdgeFacts DEF StoreInv, AbsentIsEmpty
<1>3. attached' = attached /\ abandoned' = FALSE /\ untouched' \in BOOLEAN
  BY DEF Store, Pair!Put, Pair!Linked
<1>4. sum' = sum + e.weight - edge.weight /\ count' = count + (IF Linked THEN 0 ELSE 1)
  BY DEF Store, Pair!Put, Pair!Linked, Linked
<1>5. CASE attached
  <2>1. edge' = e /\ Linked'
    BY <1>5 DEF Store, Pair!Put, Pair!Linked, Linked
  <2>2. count' = 1 /\ sum' = e.weight
    BY <1>1, <1>4, <1>5 DEF StoreInv, CountersFollow
  <2>3. CountersFollow'
    BY <1>1, <1>3, <1>5, <2>1, <2>2 DEF CountersFollow
  <2>4. edge' \in Edge /\ edge'.touched <= now' /\ AbsentIsEmpty'
    BY <2>1 DEF AbsentIsEmpty
  <2>5. attached' \in BOOLEAN /\ abandoned' \in BOOLEAN /\ untouched' \in BOOLEAN
    BY <1>3, Zenon DEF StoreInv
  <2>6. count' \in Int /\ sum' \in Int
    BY <1>1, <2>2
  <2>7. StoreInv'
    BY <2>3, <2>4, <2>5, <2>6, Zenon DEF StoreInv
  <2> QED BY <2>1, <2>7
<1>6. CASE ~attached
  <2>1. edge' = edge /\ ~Linked /\ ~Linked'
    BY <1>6 DEF Store, Pair!Put, Pair!Linked, Linked, StoreInv, CountersFollow
  <2>2. count' \in Int /\ sum' \in Int /\ count' >= 0 /\ sum' >= 0
    BY <1>1, <1>2, <1>4, <2>1 DEF StoreInv, CountersFollow
  <2>3. CountersFollow'
    BY <1>1, <1>2, <1>3, <1>6, <2>1, <2>2 DEF CountersFollow
  <2>4. edge' \in Edge /\ edge'.touched <= now' /\ AbsentIsEmpty'
    BY <2>1 DEF StoreInv, AbsentIsEmpty
  <2>5. attached' \in BOOLEAN /\ abandoned' \in BOOLEAN /\ untouched' \in BOOLEAN
    BY <1>3, Zenon DEF StoreInv
  <2>6. StoreInv'
    BY <2>2, <2>3, <2>4, <2>5, Zenon DEF StoreInv
  <2> QED BY <2>1, <2>6
<1>7. attached \in BOOLEAN
  BY DEF StoreInv
<1> QED BY <1>5, <1>6

(* So does a deletion.                                                     *)
LEMMA DeleteStep ==
    ASSUME StoreInv, now \in Nat, now' = now, Delete, attached' = attached \/ attached' = FALSE
    PROVE  StoreInv' /\ ~Linked'
<1>1. edge.weight \in Nat
  BY WeightRange DEF StoreInv, Edge
<1>2. edge' = NoEdge /\ ~Linked' /\ edge'.weight = 0 /\ edge'.touched = 0 /\ edge' \in Edge
  BY NoEdgeFacts DEF Delete, Pair!Remove, Pair!Linked, Linked
<1>3. abandoned' = FALSE /\ attached \in BOOLEAN
  BY DEF Delete, Pair!Remove, Pair!Linked, StoreInv
<1>6. attached' \in BOOLEAN /\ (attached' => attached)
  <2>1. CASE attached' = attached
    BY <1>3, <2>1, Zenon
  <2>2. CASE attached' = FALSE
    BY <2>2, Zenon
  <2> QED BY <2>1, <2>2
<1>4. sum' = sum - edge.weight /\ count' = count - (IF Linked THEN 1 ELSE 0)
  BY DEF Delete, Pair!Remove, Pair!Linked, Linked
<1>5. count' \in Int /\ sum' \in Int /\ CountersFollow'
  BY <1>1, <1>2, <1>4, <1>6 DEF StoreInv, CountersFollow
<1>7. edge'.touched <= now' /\ AbsentIsEmpty'
  BY <1>2 DEF AbsentIsEmpty, Delete, Pair!Remove, Pair!Linked
<1>8. abandoned' \in BOOLEAN /\ untouched' \in BOOLEAN
  BY <1>3 DEF Delete
<1> QED BY <1>2, <1>5, <1>6, <1>7, <1>8, Zenon DEF StoreInv

(* So does an update of a linked edge that keeps it one.                   *)
LEMMA UpdateStep ==
    ASSUME StoreInv, NEW e \in Edge, e.kind # "none", e.touched <= now,
           now' = now, Linked, Update(e)
    PROVE  StoreInv' /\ edge' = e
<1>1. edge.weight \in Nat /\ e.weight \in Nat
  BY WeightRange DEF StoreInv, Edge
<1>2. /\ edge' = e /\ Linked' /\ attached' = attached /\ count' = count
      /\ abandoned' = abandoned /\ untouched' = FALSE
  BY DEF Update, Pair!Update, Linked
<1>3. sum' = sum + e.weight - edge.weight
  BY DEF Update, Pair!Update
<1>4. sum' \in Int /\ CountersFollow'
  BY <1>1, <1>2, <1>3 DEF StoreInv, CountersFollow
<1> QED BY <1>2, <1>4 DEF StoreInv, AbsentIsEmpty

(* A call that moves on keeps the calls' part.                             *)
LEMMA BecomeStep ==
    ASSUME CallInv, NEW p \in Proc, NEW l \in Local, l.at <= now, now' = now,
           l.pc = "put" => CapWeight(l.delta) >= EdgeFloor, Become(p, l)
    PROVE  /\ CallInv'
           /\ \A q \in Proc \ {p} : local'[q] = local[q]
           /\ local'[p] = l
<1>1. local' \in [Proc -> Local] /\ local'[p] = l /\ \A q \in Proc \ {p} : local'[q] = local[q]
  BY DEF CallInv, Become
<1>2. PutsAreStrong'
  BY <1>1 DEF CallInv, PutsAreStrong, At
<1>3. \A q \in Proc : local'[q].at <= now'
  BY <1>1 DEF CallInv
<1> QED BY <1>1, <1>2, <1>3 DEF CallInv

(* The locals of a call that is not running.                               *)
LEMMA IdleFacts == Idle \in Local /\ Idle.at = 0 /\ Idle.pc = "idle"
BY EdgeAssumption DEF Idle, Local, Reinforcements

-----------------------------------------------------------------------------
(* One lemma per kind of step.  A step of a call that leaves the store     *)
(* alone and stays clear of pruning.                                       *)
LEMMA QuietStep ==
    ASSUME IndInv, NEW p \in Proc, NEW l \in Local, Become(p, l), l.at <= now,
           l.pc = "put" => CapWeight(l.delta) >= EdgeFloor,
           ~At(p, "prune"), UNCHANGED <<stored, now, puts>>, calls' \in 0..MaxCalls
    PROVE  IndInv'
<1>1. StoreInv /\ CallInv /\ WeakEdgesDoomed /\ now \in 0..MaxTime /\ puts \in 0..MaxPuts
  BY Parts
<1>2. CallInv' /\ \A q \in Proc \ {p} : local'[q] = local[q]
  BY <1>1, BecomeStep
<1>3. StoreInv'
  BY <1>1 DEF StoreInv, stored, AbsentIsEmpty, CountersFollow, Linked
<1>4. WeakEdgesDoomed'
  BY <1>1, <1>2 DEF WeakEdgesDoomed, Linked, At, stored
<1> QED BY <1>1, <1>2, <1>3, <1>4, NextParts DEF stored

(* A put by a call, or by a Write while no call moves.                     *)
LEMMA PutStep ==
    ASSUME IndInv, NEW e \in Edge, e.kind # "none", e.touched <= now,
           e.weight >= EdgeFloor \/ (e.kind = "Structural" /\ e.weight \in StructuralWeights),
           Store(e), now' = now, calls' = calls, puts' \in 0..MaxPuts, CallInv'
    PROVE  IndInv'
<1>1. StoreInv /\ now \in 0..MaxTime /\ calls \in 0..MaxCalls
  BY Parts
<1>2. now \in Nat
  BY <1>1, EdgeAssumption
<1>3. StoreInv' /\ (Linked' => edge' = e)
  BY <1>1, <1>2, StoreStep
<1>4. e.weight \in Nat /\ EdgeFloor \in Nat
  BY WeightRange, EdgeAssumption DEF Edge
<1>6. e.kind = "Structural" => untouched'
  BY DEF Store
<1>5. WeakEdgesDoomed'
  BY <1>3, <1>4, <1>6 DEF WeakEdgesDoomed
<1> QED BY <1>1, <1>3, <1>5, NextParts

(* A deletion, by a pruning call or by a Forget.                           *)
LEMMA DeletionStep ==
    ASSUME IndInv, Delete, attached' = attached \/ attached' = FALSE,
           UNCHANGED <<now, calls, puts>>, CallInv'
    PROVE  IndInv'
<1>1. StoreInv /\ now \in 0..MaxTime /\ calls \in 0..MaxCalls /\ puts \in 0..MaxPuts
  BY Parts
<1>2. now \in Nat
  BY <1>1, EdgeAssumption
<1>3. StoreInv' /\ ~Linked'
  BY <1>1, <1>2, DeleteStep
<1>4. WeakEdgesDoomed'
  BY <1>3 DEF WeakEdgesDoomed
<1> QED BY <1>1, <1>3, <1>4, NextParts

(* The committed run of an UpdateEdge.                                     *)
LEMMA UpdatingStep == ASSUME IndInv, NEW p \in Proc, UpdateEdge(p) PROVE IndInv'
<1> DEFINE e == Outcome(local[p])
           weak == local[p].pruned \/ e.weight < EdgeFloor
           l == IF weak THEN [local[p] EXCEPT !.pc = "prune"] ELSE Idle
<1>1. /\ StoreInv /\ CallInv /\ WeakEdgesDoomed /\ TypeOK
      /\ now \in 0..MaxTime /\ calls \in 0..MaxCalls /\ puts \in 0..MaxPuts
  BY Parts DEF IndInv
<1>2. Linked /\ Update(e) /\ Become(p, l) /\ UNCHANGED <<now, calls, puts>>
  BY DEF UpdateEdge, Settle
<1>3. e \in Edge /\ e.kind # "none" /\ e.touched = local[p].at
  BY <1>1, <1>2, OutcomeRange
<1>4. local[p] \in Local /\ local[p].at <= now
  BY <1>1 DEF CallInv
<1>5. StoreInv' /\ edge' = e
  BY <1>1, <1>2, <1>3, <1>4, UpdateStep
<1>6. l \in Local /\ l.at <= now /\ l.pc # "put" /\ (weak => l.pc = "prune")
  BY <1>1, <1>4, IdleFacts, EdgeAssumption DEF Local
<1>7. CallInv' /\ local'[p] = l
  BY <1>1, <1>2, <1>6, BecomeStep
<1>8. WeakEdgesDoomed'
  BY <1>5, <1>6, <1>7 DEF WeakEdgesDoomed, At
<1> QED BY <1>1, <1>2, <1>5, <1>7, <1>8, NextParts

(* Every step keeps the invariant.                                         *)
LEMMA StepInv == IndInv /\ [Next]_vars => IndInv'
<1> SUFFICES ASSUME IndInv, [Next]_vars PROVE IndInv'
  OBVIOUS
<1>1. /\ StoreInv /\ CallInv /\ WeakEdgesDoomed /\ TypeOK
      /\ now \in 0..MaxTime /\ calls \in 0..MaxCalls /\ puts \in 0..MaxPuts
  BY Parts DEF IndInv
<1>2. now \in Nat /\ \A q \in Proc : local[q] \in Local /\ local[q].at <= now
  BY <1>1, EdgeAssumption DEF CallInv
<1>3. Idle \in Local /\ Idle.at <= now /\ Idle.pc # "put"
  BY <1>2, IdleFacts
<1>4. CASE UNCHANGED vars
  BY <1>1, <1>4, NextParts
     DEF vars, StoreInv, CallInv, WeakEdgesDoomed, AbsentIsEmpty, CountersFollow,
         PutsAreStrong, Linked, At
<1>5. ASSUME NEW p \in Proc, Recall(p) PROVE IndInv'
  <2>1. CASE Reinforce(p)
    <3>1. PICK kind \in Reinforcements, delta \in Deltas :
            Become(p, [Idle EXCEPT !.pc = "get", !.kind = kind, !.delta = delta, !.at = now])
      BY <2>1 DEF Reinforce
    <3> DEFINE l == [Idle EXCEPT !.pc = "get", !.kind = kind, !.delta = delta, !.at = now]
    <3>2. l \in Local /\ l.at = now /\ l.pc = "get"
      BY <1>1, <1>3 DEF Local
    <3>3. ~At(p, "prune") /\ UNCHANGED <<stored, now, puts>> /\ calls' \in 0..MaxCalls
      BY <1>1, <2>1, EdgeAssumption DEF Reinforce, At
    <3>4. Become(p, l)
      BY <3>1
    <3> HIDE DEF l
    <3> QED BY <1>2, <3>2, <3>3, <3>4, QuietStep
  <2>2. CASE ReadEdge(p)
    <3> DEFINE l == [Idle EXCEPT !.pc = "read", !.at = now]
    <3>1. l \in Local /\ l.at = now /\ l.pc = "read"
      BY <1>1, <1>3 DEF Local
    <3>2. ~At(p, "prune") /\ UNCHANGED <<stored, now, puts>> /\ calls' \in 0..MaxCalls
      BY <1>1, <2>2, EdgeAssumption DEF ReadEdge, At
    <3>3. Become(p, l)
      BY <2>2 DEF ReadEdge
    <3> HIDE DEF l
    <3> QED BY <1>2, <3>1, <3>2, <3>3, QuietStep
  <2>3. CASE GetEdge(p)
    <3> DEFINE l == IF Linked THEN [local[p] EXCEPT !.pc = "update"]
                    ELSE IF CapWeight(local[p].delta) < EdgeFloor THEN Idle
                    ELSE [local[p] EXCEPT !.pc = "put"]
    <3>1. local[p].delta \in Nat
      BY <1>2, DeltaRange
    <3>2. CapWeight(local[p].delta) \in 0..WeightCap
      BY <3>1, CapRange
    <3>3. l \in Local /\ l.at <= now
      BY <1>2, <1>3 DEF Local
    <3>4. l.pc = "put" => CapWeight(l.delta) >= EdgeFloor
      BY <1>2, <1>3, <3>2, EdgeAssumption DEF Local
    <3>5. Become(p, l) /\ ~At(p, "prune") /\ UNCHANGED <<stored, now, puts>> /\ calls' = calls
      BY <2>3 DEF GetEdge, At
    <3> HIDE DEF l
    <3> QED BY <1>1, <3>3, <3>4, <3>5, QuietStep
  <2>4. CASE PutEdge(p)
    <3> DEFINE e == Created(local[p])
    <3>1. e \in Edge /\ e.kind # "none" /\ e.weight = CapWeight(local[p].delta) /\ e.touched <= now
      BY <1>2, CreatedRange
    <3>2. CapWeight(local[p].delta) >= EdgeFloor
      BY <1>1, <2>4 DEF CallInv, PutsAreStrong, PutEdge
    <3>3. Store(e) /\ Become(p, Idle) /\ now' = now /\ calls' = calls /\ puts' = puts
      BY <2>4 DEF PutEdge
    <3>4. CallInv'
      BY <1>1, <1>3, <3>3, BecomeStep
    <3> HIDE DEF e
    <3> QED BY <1>1, <3>1, <3>2, <3>3, <3>4, PutStep
  <2>5. CASE UpdateEdge(p)
    BY <2>5, UpdatingStep
  <2>6. CASE RetryEdge(p)
    <3> DEFINE weak == local[p].pruned \/ Outcome(local[p]).weight < EdgeFloor
               l == [local[p] EXCEPT !.pruned = weak]
    <3>1. weak \in BOOLEAN
      BY <1>2, Zenon DEF Local
    <3>2. l \in Local /\ l.at = local[p].at /\ l.pc # "put"
      BY <1>2, <2>6, <3>1 DEF Local, RetryEdge
    <3>3. Become(p, l)
      BY <2>6 DEF RetryEdge
    <3>4. ~At(p, "prune") /\ UNCHANGED <<stored, now, puts>> /\ calls' = calls
      BY <2>6 DEF RetryEdge, At
    <3> HIDE DEF l
    <3> QED BY <1>1, <1>2, <3>2, <3>3, <3>4, QuietStep
  <2>7. CASE MissEdge(p)
    <3>1. /\ Become(p, Idle) /\ ~At(p, "prune") /\ UNCHANGED <<stored, now, puts>>
          /\ calls' = calls
      BY <2>7 DEF MissEdge, At
    <3> QED BY <1>1, <1>3, <3>1, QuietStep
  <2>8. CASE PruneEdge(p)
    <3>1. Delete /\ Become(p, Idle) /\ UNCHANGED <<attached, now, calls, puts>>
      BY <2>8 DEF PruneEdge
    <3>2. CallInv'
      BY <1>1, <1>3, <3>1, BecomeStep
    <3> QED BY <3>1, <3>2, DeletionStep
  <2>9. CASE Abort(p)
    <3>1. /\ Become(p, Idle)
          /\ UNCHANGED <<edge, attached, count, sum, now, calls, puts, untouched>>
          /\ abandoned' = (abandoned \/ (At(p, "prune") /\ Linked))
      BY <2>9 DEF Abort
    <3>2. CallInv' /\ \A q \in Proc \ {p} : local'[q] = local[q]
      BY <1>1, <1>3, <3>1, BecomeStep
    <3>3. abandoned' \in BOOLEAN
      BY <3>1, Zenon
    <3>4. StoreInv'
      BY <1>1, <3>1, <3>3 DEF StoreInv, AbsentIsEmpty, CountersFollow, Linked
    <3>5. WeakEdgesDoomed'
      BY <1>1, <3>1, <3>2 DEF WeakEdgesDoomed, Linked, At
    <3> QED BY <1>1, <3>1, <3>2, <3>4, <3>5, NextParts
  <2> QED BY <1>5, <2>1, <2>2, <2>3, <2>4, <2>5, <2>6, <2>7, <2>8, <2>9 DEF Recall
<1>6. CASE Tick
  <2>1. now' = now + 1 /\ now' \in 0..MaxTime /\ UNCHANGED <<stored, calls, puts, local>>
    BY <1>1, <1>6, EdgeAssumption DEF Tick
  <2>2. edge.touched \in Nat /\ \A q \in Proc : local[q].at \in Nat
    BY <1>1, <1>2 DEF StoreInv, Edge, Local
  <2>3. StoreInv'
    BY <1>1, <1>2, <2>1, <2>2 DEF StoreInv, AbsentIsEmpty, CountersFollow, Linked, stored
  <2>4. CallInv'
    BY <1>1, <1>2, <2>1, <2>2 DEF CallInv, PutsAreStrong, At
  <2>5. WeakEdgesDoomed'
    BY <1>1, <2>1 DEF WeakEdgesDoomed, Linked, At, stored
  <2> QED BY <1>1, <2>1, <2>3, <2>4, <2>5, NextParts
<1>7. CASE PutStructural
  <2>1. PICK w \in StructuralWeights, t \in 0..now :
          Store([NoEdge EXCEPT !.kind = "Structural", !.weight = w, !.touched = t])
    BY <1>7 DEF PutStructural
  <2> DEFINE e == [NoEdge EXCEPT !.kind = "Structural", !.weight = w, !.touched = t]
  <2>2. w \in StructuralWeights /\ w \in Weight /\ t \in 0..MaxTime
    BY <1>1, WeightRange, EdgeAssumption
  <2>3. e \in Edge /\ e.kind = "Structural" /\ e.weight = w /\ e.touched = t
    BY <2>2, EdgeAssumption DEF NoEdge, Edge, kindRank
  <2>4. Store(e) /\ now' = now /\ calls' = calls /\ local' = local /\ puts' \in 0..MaxPuts
    BY <1>1, <1>7, <2>1, EdgeAssumption DEF PutStructural
  <2>5. CallInv'
    BY <1>1, <2>4 DEF CallInv, PutsAreStrong, At
  <2> HIDE DEF e
  <2> QED BY <1>2, <2>2, <2>3, <2>4, <2>5, PutStep
<1>8. CASE ForgetEdge \/ ForgetEnd
  <2>1. /\ Delete /\ UNCHANGED <<now, calls, puts, local>>
        /\ attached' = attached \/ attached' = FALSE
    BY <1>8 DEF ForgetEdge, ForgetEnd
  <2>2. CallInv'
    BY <1>1, <2>1 DEF CallInv, PutsAreStrong, At
  <2> QED BY <2>1, <2>2, DeletionStep
<1>9. CASE Rest
  BY <1>4, <1>9 DEF Rest
<1> QED BY <1>4, <1>5, <1>6, <1>7, <1>8, <1>9 DEF Next

(* The inductive invariant holds in every state.                           *)
LEMMA Invariant == Spec => []IndInv
<1> QED BY InitInv, StepInv, PTL DEF Spec

-----------------------------------------------------------------------------
(* The properties.                                                         *)

(* Every variable keeps its type; in particular no operation stores a      *)
(* weight above both the cap and every structural weight.                  *)
THEOREM EdgeTypes == Spec => []TypeOK
<1>1. IndInv => TypeOK
  BY DEF IndInv
<1> QED BY <1>1, Invariant, PTL

(* The counters follow the edge exactly as long as both ends exist, and    *)
(* are never below it afterwards.                                          *)
THEOREM CountersRight == Spec => []CountersFollow
<1>1. IndInv => CountersFollow
  BY DEF IndInv
<1> QED BY <1>1, Invariant, PTL

(* A weak edge is always on its way out, or some call died on the way, or  *)
(* it is as a Write stored it, at a weight configured below the floor:     *)
(* whatever the configured weights, floor and cap.                         *)
THEOREM WeakEdgesGo == Spec => []WeakEdgesDoomed
<1>1. IndInv => WeakEdgesDoomed
  BY DEF IndInv
<1> QED BY <1>1, Invariant, PTL

(* Only time, a replacing put or the cap lowers a weight.                  *)
THEOREM OnlyTimeWeakens == Spec => FallsOnlyWithTime
<1> DEFINE Falls == Linked /\ Linked' /\ edge'.weight < edge.weight
           Cause == \/ now > edge.touched
                    \/ edge'.weight = WeightCap
                    \/ puts' # puts
                    \/ \E p \in Proc : At(p, "put") /\ ~At(p, "put")'
<1>1. IndInv /\ [Next]_vars => [Falls => Cause]_vars
  <2> SUFFICES ASSUME IndInv, Next, Falls PROVE Cause
    BY DEF vars, Linked
  <2>1. TypeOK /\ StoreInv /\ CallInv /\ edge.weight \in Nat /\ now \in Nat /\ edge.touched \in Nat
    <3>1. TypeOK /\ StoreInv /\ CallInv
      BY Parts DEF IndInv
    <3>2. edge \in Edge /\ now \in 0..MaxTime
      BY <3>1 DEF TypeOK
    <3>3. edge.weight \in Weight /\ edge.touched \in 0..MaxTime
      BY <3>2 DEF Edge
    <3>4. MaxTime \in Nat /\ edge.weight \in Nat
      BY <3>3, WeightRange, EdgeAssumption
    <3> QED BY <3>1, <3>2, <3>3, <3>4
  <2>2. edge' # edge
    BY <2>1
  <2>3. ASSUME NEW p \in Proc, UpdateEdge(p) PROVE Cause
    <3>1. edge' = Outcome(local[p]) /\ local[p].at <= now /\ local[p].at \in Nat
      BY <2>1, <2>3 DEF UpdateEdge, Update, Pair!Update, CallInv, Local
    <3>2. local[p].at <= edge.touched =>
            edge'.weight >= edge.weight \/ edge'.weight = WeightCap
      BY <2>1, <2>3, <3>1, OutcomeRange DEF UpdateEdge
    <3>3. edge'.weight \in Nat
      BY <2>1, <2>3, <3>1, OutcomeRange, WeightRange DEF UpdateEdge, Edge
    <3> QED BY <2>1, <3>1, <3>2, <3>3
  <2>4. ASSUME NEW p \in Proc, PutEdge(p) PROVE Cause
    <3>1. At(p, "put") /\ local' = [local EXCEPT ![p] = Idle] /\ local \in [Proc -> Local]
      BY <2>1, <2>4 DEF PutEdge, Become, TypeOK
    <3>2. ~At(p, "put")'
      BY <3>1, IdleFacts DEF At
    <3> QED BY <3>1, <3>2
  <2>5. CASE PutStructural
    <3>1. puts' = puts + 1 /\ puts \in Nat
      BY <2>1, <2>5, EdgeAssumption DEF PutStructural, TypeOK
    <3> QED BY <3>1
  <2>6. ~Delete
    BY NoEdgeFacts DEF Delete, Pair!Remove, Pair!Linked, Linked
  <2>7. ASSUME NEW p \in Proc, Recall(p) PROVE Cause
    BY <2>2, <2>3, <2>4, <2>6, <2>7
       DEF Recall, Reinforce, GetEdge, ReadEdge, RetryEdge, MissEdge, PruneEdge, Abort, stored
  <2> QED BY <2>2, <2>5, <2>6, <2>7
          DEF Next, Tick, Rest, ForgetEdge, ForgetEnd, stored, vars
<1>2. IndInv /\ [Next]_vars => [(Linked /\ Linked' /\ edge'.weight < edge.weight) => Cause]_vars
  BY <1>1
<1> QED BY <1>2, Invariant, PTL DEF Spec, FallsOnlyWithTime
=============================================================================
