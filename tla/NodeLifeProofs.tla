--------------------------- MODULE NodeLifeProofs ---------------------------
(***************************************************************************)
(* NodeLife, for any number of calls, any weights, rates and periods: its  *)
(* types, its counters, what callers are told, the distance of bumps and   *)
(* the permanence of a tombstone.                                          *)
(***************************************************************************)
EXTENDS NodeLife, TLAPS

(* A row's last touch is past, and at most the rounding older than the     *)
(* last bump the row carries.                                              *)
TimesAgree(n, t) ==
    /\ n.touched <= t
    /\ n.bumped <= t
    /\ n.bumped < n.touched + Millisecond

RowInv ==
    /\ ~node.present => node = Gone
    /\ TimesAgree(node, now)

(* A call about to commit, at time t: the row it computed descends from    *)
(* the row it read.                                                        *)
Descends(l, t) ==
    /\ l.was.present
    /\ l.new.present
    /\ l.new.tombstoned = l.was.tombstoned
    /\ TimesAgree(l.new, t)
    /\ \/ l.new.bumped = l.was.bumped
       \/ l.new.bumped - l.was.bumped > RefractoryPeriod - Millisecond

Told(l) ==
    IF l.skipped
    THEN l.new.bumped = l.was.bumped /\ (l.new.weight <= l.was.weight \/ l.new.weight = NodeFloor)
    ELSE l.new.bumped = l.at

CallOK(l, t) ==
    /\ l.op = "bump" => l.delta \in Bumps
    /\ l.pc = "commit" => Descends(l, t)
    /\ l.pc = "commit" /\ l.op = "bump" => Told(l)
    /\ l.pc = "detach" => l.was.present

CallInv == \A p \in Proc : CallOK(local[p], now)

IndInv == TypeOK /\ RowInv /\ CallInv /\ CountersRight

-----------------------------------------------------------------------------
(* The arithmetic of a weight and of the clock.                            *)

(* A call's delta is an integer.                                           *)
LEMMA DeltaRange == \A l \in Local : l.delta \in Int
<1> SUFFICES ASSUME NEW l \in Local PROVE l.delta \in Int
  OBVIOUS
<1>1. Bumps \subseteq Int /\ NodeDelta \in Int
  BY NodeAssumption
<1>2. \A d \in Bumps \union {0, NodeDelta} : d \in Int
  BY <1>1
<1>3. l.delta \in Bumps \union {0, NodeDelta}
  BY DEF Local
<1> QED BY <1>2, <1>3, Zenon

(* What a weight may be, and that whatever is below one may be one too.    *)
LEMMA WeightRange ==
    /\ Weight \subseteq Nat
    /\ 0..WeightCap \subseteq Weight
    /\ 0 \in Weight /\ NodeFloor \in Weight /\ InitialWeight \in Weight
    /\ \A w \in Weight : 0..w \subseteq Weight
BY NodeAssumption DEF Weight

(* A row's weight is a whole number.                                       *)
LEMMA RowWeight == \A n \in Node : n.weight \in Weight /\ n.weight \in Nat /\ n.weight \in Int
<1>1. \A w \in Weight : w \in Nat /\ w \in Int
  BY WeightRange
<1>2. \A n \in Node : n.weight \in Weight
  BY DEF Node
<1> QED BY <1>1, <1>2, Zenon

(* Decay never raises a weight.                                            *)
LEMMA DecayRange ==
    ASSUME TypeOK, TimesAgree(node, now)
    PROVE  Decayed(node) \in 0..node.weight
<1>1. node.weight \in Weight /\ node.weight \in Nat /\ node.touched \in 0..MaxTime /\ now \in 0..MaxTime
  BY WeightRange DEF TypeOK, Node
<1> DEFINE dt == now - node.touched
<1>2. CASE dt <= 0
  BY <1>1, <1>2, NodeAssumption DEF Decayed, Decay
<1>3. CASE dt > 0
  <2>1. dt \in 1..MaxTime
    BY <1>1, <1>3, NodeAssumption
  <2>2. Fade(node.weight, dt) \in 0..node.weight
    BY <1>1, <2>1, DataAssumption
  <2>3. Decayed(node) = Fade(node.weight, dt)
    BY <1>1, <1>3, NodeAssumption DEF Decayed, Decay
  <2> QED BY <2>2, <2>3
<1> QED BY <1>1, <1>2, <1>3, NodeAssumption

(* A capped or bounded weight is a weight, and a bound without a bump is   *)
(* no more than the decayed weight, or the floor.                          *)
LEMMA CapRange == \A w \in Int : CapWeight(w) \in Weight
BY NodeAssumption DEF CapWeight, Weight

LEMMA BoundRange ==
    /\ \A w, eff \in Int : Bound(w, eff) \in Weight
    /\ \A w \in Nat : Bound(w, 0) <= w \/ Bound(w, 0) = NodeFloor
BY NodeAssumption DEF Bound, Weight

(* Rounding a time down to its millisecond loses less than a millisecond.  *)
LEMMA MilliRange ==
    ASSUME NEW t \in Nat
    PROVE  UnixMilli(t) \in 0..t /\ t < UnixMilli(t) + Millisecond
<1>1. Millisecond \in Nat /\ Millisecond > 0
  BY NodeAssumption
<1>2. t % Millisecond \in 0..(Millisecond - 1)
  BY <1>1
<1>3. t % Millisecond <= t
  BY <1>1
<1> QED BY <1>1, <1>2, <1>3 DEF UnixMilli

(* The bump that is added to a decayed weight is an integer.               *)
LEMMA EffectiveRange ==
    ASSUME TypeOK, TimesAgree(node, now), NEW delta \in Bumps
    PROVE  Effective(node, delta) \in Int
<1>1. Decayed(node) \in Weight /\ Decayed(node) \in Nat
  BY DecayRange, WeightRange DEF TypeOK, Node
<1>2. delta \in Int
  BY NodeAssumption
<1>3. delta > 0 => Damp(delta, Decayed(node)) \in 0..delta
  BY <1>1, DataAssumption
<1> QED BY <1>2, <1>3 DEF Effective

-----------------------------------------------------------------------------
(* What the closures leave of the row.                                     *)

(* A row with another weight, touch and access count, or bump, is a row.   *)
LEMMA RowUpdate ==
    ASSUME NEW n \in Node, NEW w \in Weight, NEW m \in 0..MaxTime
    PROVE  [n EXCEPT !.weight = w, !.touched = m, !.access = @ + 1] \in Node
<1>1. n.access + 1 \in Nat
  BY DEF Node
<1>2. \A a \in Nat : [n EXCEPT !.weight = w, !.touched = m, !.access = a] \in Node
  BY Zenon DEF Node
<1> QED BY <1>1, <1>2, Zenon

LEMMA RowRebump ==
    ASSUME NEW n \in Node, NEW w, NEW m, NEW b \in 0..MaxTime,
           [n EXCEPT !.weight = w, !.touched = m, !.access = @ + 1] \in Node
    PROVE  [n EXCEPT !.weight = w, !.touched = m, !.access = @ + 1, !.bumped = b] \in Node
BY Zenon DEF Node

(* A recall leaves a row of the same life, touched now.                    *)
LEMMA RecalledOK ==
    ASSUME TypeOK, TimesAgree(node, now), NEW delta \in Int
    PROVE  /\ Recalled(node, delta) \in Node
           /\ Recalled(node, delta).present = node.present
           /\ Recalled(node, delta).tombstoned = node.tombstoned
           /\ Recalled(node, delta).bumped = node.bumped
           /\ TimesAgree(Recalled(node, delta), now)
<1>1. node \in Node /\ now \in 0..MaxTime /\ now \in Nat
  BY NodeAssumption DEF TypeOK
<1> DEFINE w == CapWeight(Decayed(node) + delta)
           m == UnixMilli(now)
<1>2. w \in Weight
  <2>1. Decayed(node) \in Int
    BY DecayRange
  <2> QED BY <2>1, CapRange
<1>3. m \in 0..MaxTime /\ m <= now /\ now < m + Millisecond
  BY <1>1, MilliRange, NodeAssumption
<1>4. Recalled(node, delta) = [node EXCEPT !.weight = w, !.touched = m, !.access = @ + 1]
  BY DEF Recalled
<1> HIDE DEF w, m
<1>5. Recalled(node, delta) \in Node
  <2>1. [node EXCEPT !.weight = w, !.touched = m, !.access = @ + 1] \in Node
    BY <1>1, <1>2, <1>3, RowUpdate
  <2> QED BY <1>4, <2>1
<1>6. /\ Recalled(node, delta).present = node.present
      /\ Recalled(node, delta).tombstoned = node.tombstoned
      /\ Recalled(node, delta).bumped = node.bumped
      /\ Recalled(node, delta).touched = m
  BY <1>1, <1>4 DEF Node
<1>7. TimesAgree(Recalled(node, delta), now)
  BY <1>1, <1>3, <1>6, NodeAssumption DEF TimesAgree, Node
<1> QED BY <1>5, <1>6, <1>7

(* An explicit bump does too, and either is dropped, and moves the weight  *)
(* by decay and the floor only, or is applied at least a RefractoryPeriod, *)
(* to within the rounding, after the last.                                 *)
LEMMA BumpedOK ==
    ASSUME TypeOK, TimesAgree(node, now), NEW delta \in Bumps
    PROVE  /\ Bumped(node, delta) \in Node
           /\ Bumped(node, delta).present = node.present
           /\ Bumped(node, delta).tombstoned = node.tombstoned
           /\ TimesAgree(Bumped(node, delta), now)
           /\ Dropped(node) =>
                /\ Bumped(node, delta).bumped = node.bumped
                /\ \/ Bumped(node, delta).weight <= node.weight
                   \/ Bumped(node, delta).weight = NodeFloor
           /\ ~Dropped(node) =>
                /\ Bumped(node, delta).bumped = now
                /\ now - node.bumped > RefractoryPeriod - Millisecond
<1>1. node \in Node /\ now \in 0..MaxTime /\ now \in Nat
  BY NodeAssumption DEF TypeOK
<1> DEFINE w == Bound(Decayed(node), Effective(node, delta))
           m == UnixMilli(now)
           b == IF Dropped(node) THEN node.bumped ELSE now
           n == Bumped(node, delta)
<1>2. Decayed(node) \in 0..node.weight /\ node.weight \in Nat /\ Decayed(node) \in Nat
  BY <1>1, DecayRange, WeightRange DEF Node
<1>3. w \in Weight
  BY <1>2, EffectiveRange, BoundRange
<1>4. m \in 0..MaxTime /\ m <= now /\ now < m + Millisecond
  BY <1>1, MilliRange, NodeAssumption
<1>5. b \in 0..MaxTime /\ b <= now
  BY <1>1, NodeAssumption DEF TimesAgree, Node
<1>6. n = [node EXCEPT !.weight = w, !.touched = m, !.access = @ + 1, !.bumped = b]
  BY <1>1 DEF Bumped, Node
<1>7. Dropped(node) => w <= node.weight \/ w = NodeFloor
  <2> SUFFICES ASSUME Dropped(node) PROVE w <= node.weight \/ w = NodeFloor
    OBVIOUS
  <2>1. w = Bound(Decayed(node), 0)
    BY DEF Effective
  <2>2. w <= Decayed(node) \/ w = NodeFloor
    BY <1>2, <2>1, BoundRange
  <2>3. w \in Nat
    BY <1>3, WeightRange
  <2> QED BY <1>2, <2>2, <2>3
<1>8. ~Dropped(node) => now - node.bumped > RefractoryPeriod - Millisecond
  BY <1>1, NodeAssumption DEF Dropped, TimesAgree, Node
<1>9. /\ Dropped(node) => b = node.bumped
      /\ ~Dropped(node) => b = now
  OBVIOUS
<1> HIDE DEF w, m, b, n
<1>10. n \in Node
  <2>1. [node EXCEPT !.weight = w, !.touched = m, !.access = @ + 1] \in Node
    BY <1>1, <1>3, <1>4, RowUpdate
  <2> QED BY <1>1, <1>5, <1>6, <2>1, RowRebump
<1>11. /\ n.present = node.present
       /\ n.tombstoned = node.tombstoned
       /\ n.bumped = b
       /\ n.touched = m
       /\ n.weight = w
  BY <1>1, <1>6 DEF Node
<1>12. TimesAgree(n, now)
  BY <1>1, <1>4, <1>5, <1>11, NodeAssumption DEF TimesAgree
<1> QED BY <1>7, <1>8, <1>9, <1>10, <1>11, <1>12 DEF n

-----------------------------------------------------------------------------
(* Preservation.                                                           *)

(* What a later clock keeps.                                               *)
LEMMA LaterOK ==
    ASSUME NEW l \in Local, NEW t \in Nat, NEW u \in Nat, t <= u, CallOK(l, t)
    PROVE  CallOK(l, u)
<1>1. l.new.touched \in Nat /\ l.new.bumped \in Nat
  BY NodeAssumption DEF Local, Node
<1> QED BY <1>1 DEF CallOK, Descends, TimesAgree

(* A call that moves to a well-formed state.                               *)
LEMMA BecomeStep ==
    ASSUME TypeOK, CallInv, NEW p \in Proc, NEW l \in Local, CallOK(l, now),
           Become(p, l), now' = now
    PROVE  local' \in [Proc -> Local] /\ CallInv'
<1>1. local \in [Proc -> Local] /\ local' = [local EXCEPT ![p] = l]
  BY DEF TypeOK, Become
<1>2. local' \in [Proc -> Local]
  BY <1>1
<1>3. \A q \in Proc : local'[q] = IF q = p THEN l ELSE local[q]
  BY <1>1
<1>4. \A q \in Proc : CallOK(local'[q], now)
  BY <1>3 DEF CallInv
<1> QED BY <1>2, <1>4 DEF CallInv

LEMMA IdleOK == Gone \in Node /\ Idle \in Local /\ CallOK(Idle, now)
<1>2. 0 \in Weight /\ 0 \in 0..MaxTime /\ 0 \in Nat
  BY WeightRange, NodeAssumption
<1>3. Gone \in Node
  BY <1>2, Zenon DEF Gone, Node
<1>4. 0 \in Bumps \union {0, NodeDelta}
  OBVIOUS
<1>5. Idle \in Local
  BY <1>2, <1>3, <1>4, Zenon DEF Idle, Local
<1> QED BY <1>3, <1>5 DEF Idle, CallOK

(* The parts of the invariant in the next state.                           *)
LEMMA NextParts ==
    ASSUME node' \in Node, nodeCount' \in Int, sumWeight' \in Int, now' \in 0..MaxTime,
           calls' \in 0..MaxCalls, local' \in [Proc -> Local], raced' \in BOOLEAN,
           RowInv', CallInv', CountersRight'
    PROVE  IndInv'
BY DEF IndInv, TypeOK

(* UpdateNode's read and closure leave a call that may commit.             *)
LEMMA AnswerOK ==
    ASSUME TypeOK, RowInv, CallInv, node.present, NEW p \in Proc
    PROVE  Answer(local[p]) \in Local /\ CallOK(Answer(local[p]), now)
<1> DEFINE l == local[p]
           a == Answer(l)
           bump == l.op = "bump"
           row == IF bump THEN Bumped(node, l.delta) ELSE Recalled(node, l.delta)
           dropped == bump /\ Dropped(node)
<1>1. l \in Local /\ node \in Node /\ now \in 0..MaxTime /\ TimesAgree(node, now)
  BY DEF TypeOK, RowInv
<1>2. bump => l.delta \in Bumps
  BY DEF CallInv, CallOK
<1>3. l.delta \in Int
  BY <1>1, DeltaRange
<1>4. /\ row \in Node
      /\ row.present
      /\ row.tombstoned = node.tombstoned
      /\ TimesAgree(row, now)
  BY <1>1, <1>2, <1>3, BumpedOK, RecalledOK
<1>5. dropped => /\ row.bumped = node.bumped
                 /\ row.weight <= node.weight \/ row.weight = NodeFloor
  BY <1>1, <1>2, BumpedOK
<1>6. bump /\ ~dropped => row.bumped = now /\ now - node.bumped > RefractoryPeriod - Millisecond
  BY <1>1, <1>2, BumpedOK
<1>7. ~bump => row.bumped = node.bumped
  BY <1>1, <1>3, RecalledOK
<1>8. a = [l EXCEPT !.pc = "commit", !.at = now, !.was = node, !.skipped = dropped, !.new = row]
  BY DEF Answer
<1>9. dropped \in BOOLEAN
  OBVIOUS
<1> HIDE DEF row, dropped, a
<1>10. [l EXCEPT !.pc = "commit", !.at = now, !.was = node, !.skipped = dropped, !.new = row]
       \in Local
  BY <1>1, <1>4, <1>9, Zenon DEF Local
<1>11. a \in Local
  BY <1>8, <1>10
<1>12. /\ a.pc = "commit"
       /\ a.op = l.op
       /\ a.delta = l.delta
       /\ a.at = now
       /\ a.was = node
       /\ a.new = row
       /\ a.skipped = dropped
  BY <1>1, <1>8, Zenon DEF Local
<1>13. Descends(a, now)
  BY <1>4, <1>5, <1>6, <1>7, <1>12 DEF Descends
<1>14. bump => Told(a)
  BY <1>5, <1>6, <1>12 DEF Told
<1>15. CallOK(a, now)
  BY <1>2, <1>12, <1>13, <1>14 DEF CallOK
<1> QED BY <1>11, <1>15 DEF a

LEMMA InitInv == Init => IndInv
<1> SUFFICES ASSUME Init PROVE IndInv
  OBVIOUS
<1>1. InitialWeight \in Weight /\ 0 \in 0..MaxTime /\ 0 \in Nat /\ Millisecond > 0
  BY WeightRange, NodeAssumption
<1>2. Stored \in Node
  BY <1>1, Zenon DEF Stored, Node
<1>3. Idle \in Local /\ CallOK(Idle, now)
  BY IdleOK
<1>4. local \in [Proc -> Local] /\ \A q \in Proc : local[q] = Idle
  BY <1>3 DEF Init
<1>5. TypeOK
  <2>1. node \in Node /\ nodeCount \in Int /\ sumWeight \in Int
    BY <1>1, <1>2, NodeAssumption DEF Init
  <2>2. now \in 0..MaxTime /\ calls \in 0..MaxCalls
    BY NodeAssumption DEF Init
  <2>3. raced \in BOOLEAN
    BY DEF Init
  <2> QED BY <1>4, <2>1, <2>2, <2>3, Zenon DEF TypeOK
<1>6. RowInv
  <2>1. node.present /\ node.touched = 0 /\ node.bumped = 0 /\ now = 0
    BY DEF Init, Stored
  <2> QED BY <1>1, <2>1, NodeAssumption DEF RowInv, TimesAgree
<1>7. CountersRight
  BY DEF Init, CountersRight, Stored
<1> QED BY <1>3, <1>4, <1>5, <1>6, <1>7 DEF IndInv, CallInv

(* A step that moves a call on and leaves the store alone.                 *)
LEMMA QuietStep ==
    ASSUME IndInv, NEW p \in Proc, NEW l \in Local, CallOK(l, now), Become(p, l),
           UNCHANGED <<stored, now>>, calls' \in 0..MaxCalls
    PROVE  IndInv'
<1>1. TypeOK /\ RowInv /\ CallInv /\ CountersRight
  BY DEF IndInv
<1>2. local' \in [Proc -> Local] /\ CallInv'
  BY <1>1, BecomeStep
<1>3. RowInv' /\ CountersRight'
  BY <1>1 DEF RowInv, CountersRight, stored
<1> QED BY <1>1, <1>2, <1>3, NextParts DEF TypeOK, stored

(* Every step keeps the invariant.                                         *)
LEMMA StepInv == IndInv /\ [Next]_vars => IndInv'
<1> SUFFICES ASSUME IndInv, [Next]_vars PROVE IndInv'
  OBVIOUS
<1>1. TypeOK /\ RowInv /\ CallInv /\ CountersRight
  BY DEF IndInv
<1>2. /\ node \in Node
      /\ now \in 0..MaxTime
      /\ now \in Nat
      /\ calls \in 0..MaxCalls
      /\ MaxTime \in Nat
      /\ MaxCalls \in Nat
      /\ nodeCount \in Int
      /\ sumWeight \in Int
      /\ raced \in BOOLEAN
  BY <1>1, NodeAssumption DEF TypeOK
<1>3. \A q \in Proc : local[q] \in Local /\ CallOK(local[q], now)
  BY <1>1 DEF TypeOK, CallInv
<1>4. CASE UNCHANGED vars
  BY <1>1, <1>4, NextParts DEF vars, TypeOK, RowInv, CallInv, CountersRight
<1>5. CASE Tick
  <2>1. /\ now' \in 0..MaxTime
        /\ now <= now'
        /\ now' \in Nat
        /\ UNCHANGED <<node, nodeCount, sumWeight, raced, calls, local>>
    BY <1>2, <1>5 DEF Tick, stored
  <2>2. CallInv'
    <3>1. \A q \in Proc : CallOK(local[q], now')
      BY <1>2, <1>3, <2>1, LaterOK
    <3> QED BY <2>1, <3>1 DEF CallInv
  <2>3. RowInv'
    BY <1>1, <1>2, <2>1 DEF RowInv, TimesAgree, Node
  <2>4. CountersRight'
    BY <1>1, <2>1 DEF CountersRight
  <2> QED BY <1>1, <2>1, <2>2, <2>3, <2>4, NextParts DEF TypeOK
<1>6. ASSUME NEW p \in Proc, RecallNode(p) \/ BumpNode(p) \/ ForgetNode(p) PROVE IndInv'
  <2>1. PICK label \in {"update", "hide"}, op \in {"recall", "bump", "forget"},
             delta \in Bumps \union {0, NodeDelta} :
             /\ Begin(p, label, op, delta)
             /\ op = "bump" => delta \in Bumps
    BY <1>6, Zenon DEF RecallNode, BumpNode, ForgetNode
  <2> DEFINE l == [Idle EXCEPT !.pc = label, !.op = op, !.delta = delta]
  <2>2. Idle \in Local /\ label \in {"idle", "update", "commit", "hide", "delete", "detach"}
    BY IdleOK
  <2>3. l \in Local
    BY <2>2, Zenon DEF Local
  <2>4. l.pc = label /\ l.op = op /\ l.delta = delta
    BY <2>2 DEF Local
  <2>5. CallOK(l, now)
    BY <2>1, <2>4 DEF CallOK
  <2>6. Become(p, l) /\ UNCHANGED <<stored, now>> /\ calls' \in 0..MaxCalls
    BY <1>2, <2>1 DEF Begin
  <2> HIDE DEF l
  <2> QED BY <2>3, <2>5, <2>6, QuietStep
<1>7. ASSUME NEW p \in Proc, UpdateRead(p) PROVE IndInv'
  <2>1. Answer(local[p]) \in Local /\ CallOK(Answer(local[p]), now)
    BY <1>1, <1>7, AnswerOK DEF UpdateRead
  <2>2. Become(p, Answer(local[p])) /\ UNCHANGED <<stored, now>> /\ calls' \in 0..MaxCalls
    BY <1>2, <1>7 DEF UpdateRead
  <2> QED BY <2>1, <2>2, QuietStep
<1>8. ASSUME NEW p \in Proc, Miss(p) \/ Abort(p) PROVE IndInv'
  <2>1. Become(p, Idle) /\ UNCHANGED <<stored, now>> /\ calls' \in 0..MaxCalls
    BY <1>2, <1>8 DEF Miss, Abort
  <2> QED BY <2>1, IdleOK, QuietStep
<1>9. ASSUME NEW p \in Proc, UpdateCommit(p) PROVE IndInv'
  <2> DEFINE l == local[p]
  <2>1. l \in Local /\ CallOK(l, now) /\ l.pc = "commit"
    BY <1>3, <1>9 DEF UpdateCommit, At
  <2>2. l.was.present /\ l.new.present /\ TimesAgree(l.new, now)
    BY <2>1 DEF CallOK, Descends
  <2>3. /\ l.was \in Node
        /\ l.new \in Node
        /\ l.new.weight \in Int
        /\ l.was.weight \in Int
        /\ node.weight \in Int
    <3>1. l.was \in Node /\ l.new \in Node
      BY <2>1 DEF Local
    <3> QED BY <1>2, <3>1, RowWeight
  <2>4. /\ node' = IF node.present THEN l.new ELSE node
        /\ sumWeight' = sumWeight + (l.new.weight - l.was.weight)
        /\ raced' = (raced \/ node # l.was)
        /\ Become(p, Idle)
        /\ UNCHANGED <<nodeCount, now, calls>>
    BY <1>9 DEF UpdateCommit, WriteRow, WeightChange
  <2>5. local' \in [Proc -> Local] /\ CallInv'
    BY <1>1, <2>4, IdleOK, BecomeStep
  <2>6. node' \in Node /\ sumWeight' \in Int /\ raced' \in BOOLEAN
    BY <1>2, <2>3, <2>4
  <2>7. RowInv'
    BY <1>1, <2>2, <2>4 DEF RowInv
  <2>8. CountersRight'
    <3>1. node.present = node'.present
      BY <2>2, <2>4
    <3>2. ~raced' => ~raced /\ node = l.was /\ node' = l.new
      BY <2>2, <2>4
    <3>3. nodeCount <= (IF node'.present THEN 1 ELSE 0)
      BY <1>1, <3>1 DEF CountersRight
    <3>4. ~raced' => nodeCount = 1 /\ sumWeight = l.was.weight /\ node'.present
      BY <1>1, <2>2, <3>1, <3>2 DEF CountersRight
    <3>5. ~raced' => sumWeight' = node'.weight
      BY <2>3, <2>4, <3>2, <3>4
    <3> QED BY <2>4, <3>3, <3>4, <3>5 DEF CountersRight
  <2> QED BY <1>2, <2>4, <2>5, <2>6, <2>7, <2>8, NextParts
<1>10. ASSUME NEW p \in Proc, Hide(p) PROVE IndInv'
  <2> DEFINE l == [local[p] EXCEPT !.pc = "delete"]
             n == IF node.present THEN [node EXCEPT !.tombstoned = TRUE] ELSE node
  <2>1. local[p] \in Local /\ CallOK(local[p], now)
    BY <1>3
  <2>2. l \in Local
    BY <2>1, Zenon DEF Local
  <2>3. l.pc = "delete" /\ l.op = local[p].op /\ l.delta = local[p].delta
    BY <2>1 DEF Local
  <2>4. CallOK(l, now)
    BY <2>1, <2>3 DEF CallOK
  <2>5. Become(p, l) /\ node' = n /\ UNCHANGED <<nodeCount, sumWeight, raced, now, calls>>
    BY <1>10 DEF Hide
  <2>6. local' \in [Proc -> Local] /\ CallInv'
    <3> HIDE DEF l
    <3> QED BY <1>1, <2>2, <2>4, <2>5, BecomeStep
  <2>7. [node EXCEPT !.tombstoned = TRUE] \in Node
    BY <1>2, Zenon DEF Node
  <2>8. n \in Node
    BY <1>2, <2>7
  <2>9. /\ n.present = node.present
        /\ n.touched = node.touched
        /\ n.bumped = node.bumped
        /\ n.weight = node.weight
    BY <1>2 DEF Node
  <2>10. ~node.present => n = Gone
    BY <1>1 DEF RowInv
  <2> HIDE DEF n
  <2>11. RowInv'
    BY <1>1, <2>5, <2>9, <2>10 DEF RowInv, TimesAgree
  <2>12. CountersRight'
    BY <1>1, <2>5, <2>9 DEF CountersRight
  <2> QED BY <1>2, <2>5, <2>6, <2>8, <2>11, <2>12, NextParts
<1>11. ASSUME NEW p \in Proc, DeleteRead(p) PROVE IndInv'
  <2> DEFINE l == [local[p] EXCEPT !.pc = "detach", !.was = node]
  <2>1. local[p] \in Local /\ CallOK(local[p], now) /\ node.present
    BY <1>3, <1>11 DEF DeleteRead
  <2>2. l \in Local
    BY <1>2, <2>1, Zenon DEF Local
  <2>3. l.pc = "detach" /\ l.op = local[p].op /\ l.delta = local[p].delta /\ l.was = node
    BY <2>1 DEF Local
  <2>4. CallOK(l, now)
    BY <2>1, <2>3 DEF CallOK
  <2>5. Become(p, l) /\ UNCHANGED <<stored, now>> /\ calls' \in 0..MaxCalls
    BY <1>2, <1>11 DEF DeleteRead
  <2> HIDE DEF l
  <2> QED BY <2>2, <2>4, <2>5, QuietStep
<1>12. ASSUME NEW p \in Proc, DeleteCommit(p) PROVE IndInv'
  <2> DEFINE l == local[p]
  <2>1. l \in Local /\ l.was.present
    BY <1>3, <1>12 DEF DeleteCommit, At, CallOK
  <2>2. /\ node' = Gone
        /\ nodeCount' = nodeCount - 1
        /\ sumWeight' = sumWeight - l.was.weight
        /\ raced' = (raced \/ node # l.was)
        /\ Become(p, Idle)
        /\ UNCHANGED <<now, calls>>
    BY <1>12 DEF DeleteCommit
  <2>3. local' \in [Proc -> Local] /\ CallInv'
    BY <1>1, <2>2, IdleOK, BecomeStep
  <2>4. l.was.weight \in Int /\ node.weight \in Int
    <3>1. l.was \in Node
      BY <2>1 DEF Local
    <3> QED BY <1>2, <3>1, RowWeight
  <2>5. Gone.present = FALSE /\ Gone.weight = 0 /\ Gone.touched = 0 /\ Gone.bumped = 0
    BY DEF Gone
  <2>6. RowInv'
    BY <1>2, <2>2, <2>5, NodeAssumption DEF RowInv, TimesAgree
  <2>7. CountersRight'
    <3>1. ~raced' => ~raced /\ node = l.was
      BY <2>2
    <3>2. ~raced' => nodeCount = 1 /\ sumWeight = l.was.weight
      BY <1>1, <2>1, <3>1 DEF CountersRight
    <3>3. nodeCount <= 1
      BY <1>1, <1>2 DEF CountersRight
    <3>4. nodeCount' <= 0 /\ (~raced' => nodeCount' = 0 /\ sumWeight' = 0)
      BY <1>2, <2>2, <2>4, <3>2, <3>3
    <3>5. node'.present = FALSE /\ node'.weight = 0
      BY <2>2, <2>5
    <3> QED BY <3>4, <3>5 DEF CountersRight
  <2> QED BY <1>2, <2>2, <2>3, <2>4, <2>6, <2>7, IdleOK, NextParts
<1>13. ASSUME NEW p \in Proc, Retry(p) PROVE IndInv'
  <2>1. PICK pc \in {"update", "delete"} : Become(p, [local[p] EXCEPT !.pc = pc])
    BY <1>13 DEF Retry
  <2> DEFINE l == [local[p] EXCEPT !.pc = pc]
  <2>2. local[p] \in Local /\ CallOK(local[p], now)
    BY <1>3
  <2>3. l \in Local
    BY <2>2, Zenon DEF Local
  <2>4. l.pc = pc /\ l.op = local[p].op /\ l.delta = local[p].delta
    BY <2>2 DEF Local
  <2>5. CallOK(l, now)
    BY <2>2, <2>4 DEF CallOK
  <2>6. Become(p, l) /\ UNCHANGED <<stored, now>> /\ calls' \in 0..MaxCalls
    BY <1>2, <1>13, <2>1 DEF Retry
  <2> HIDE DEF l
  <2> QED BY <2>3, <2>5, <2>6, QuietStep
<1> QED BY <1>4, <1>5, <1>6, <1>7, <1>8, <1>9, <1>10, <1>11, <1>12, <1>13
        DEF Next, Call, Rest

-----------------------------------------------------------------------------
LEMMA Invariant == Spec => []IndInv
<1> QED BY InitInv, StepInv, PTL DEF Spec

(* Every variable keeps its type: a weight never exceeds the cap but by    *)
(* the floor or by what it was stored with, and is never negative,         *)
(* whatever bumps, decays, floors and lost updates meet.                   *)
THEOREM NodeTypes == Spec => []TypeOK
<1>1. IndInv => TypeOK
  BY DEF IndInv
<1> QED BY <1>1, Invariant, PTL

(* The counters are exact until a transaction writes over a row it has not *)
(* seen, and node_count never exceeds the nodes stored.                    *)
THEOREM CountersExactUntilRaced == Spec => []CountersRight
<1>1. IndInv => CountersRight
  BY DEF IndInv
<1> QED BY <1>1, Invariant, PTL

(* Callers are told what is committed.                                     *)
THEOREM AnswersTrue == Spec => []AnswerIsTrue
<1>1. IndInv => AnswerIsTrue
  BY DEF IndInv, CallInv, CallOK, Told, AnswerIsTrue, At
<1> QED BY <1>1, Invariant, PTL

(* What a step that is not raced makes of the row.                         *)
LEMMA RowStep ==
    ASSUME IndInv, Next, node'.present, ~raced'
    PROVE  /\ node.tombstoned => node'.tombstoned
           /\ \/ node'.bumped = node.bumped
              \/ node'.bumped - node.bumped > RefractoryPeriod - Millisecond
<1>1. TypeOK /\ CallInv /\ node \in Node /\ node.present \in BOOLEAN
  BY Zenon DEF IndInv, TypeOK, Node
<1>2. ASSUME NEW p \in Proc, UpdateCommit(p)
      PROVE  /\ node.tombstoned => node'.tombstoned
             /\ \/ node'.bumped = node.bumped
                \/ node'.bumped - node.bumped > RefractoryPeriod - Millisecond
  <2>1. node = local[p].was /\ Descends(local[p], now)
    BY <1>1, <1>2 DEF UpdateCommit, At, CallInv, CallOK
  <2>2. node' = local[p].new
    BY <1>2, <2>1 DEF UpdateCommit, WriteRow, Descends
  <2> QED BY <2>1, <2>2 DEF Descends
<1>3. ASSUME NEW p \in Proc, Hide(p)
      PROVE  node'.bumped = node.bumped /\ (node.tombstoned => node'.tombstoned)
  BY <1>1, <1>3 DEF Hide, Node
<1>4. ASSUME NEW p \in Proc PROVE ~DeleteCommit(p)
  BY DEF DeleteCommit, Gone
<1>5. \/ node' = node
      \/ \E p \in Proc : UpdateCommit(p) \/ Hide(p)
  BY <1>4 DEF Next, Call, Rest, Tick, RecallNode, BumpNode, ForgetNode, Begin, UpdateRead,
              DeleteRead, Miss, Retry, Abort, stored, vars
<1> QED BY <1>2, <1>3, <1>5

(* Explicit bumps a node carries are a RefractoryPeriod apart.             *)
THEOREM BumpsStayApart == Spec => BumpsApart
<1> DEFINE Applied == node'.present /\ node'.bumped # node.bumped /\ ~raced'
           Apart == node'.bumped - node.bumped > RefractoryPeriod - Millisecond
<1>1. IndInv /\ [Next]_vars => [Applied => Apart]_vars
  BY RowStep
<1>2. IndInv /\ [Next]_vars =>
        [(node'.present /\ node'.bumped # node.bumped /\ ~raced') =>
            node'.bumped - node.bumped > RefractoryPeriod - Millisecond]_vars
  BY <1>1
<1> QED BY <1>2, Invariant, PTL DEF Spec, BumpsApart

(* A tombstone stays.                                                      *)
THEOREM HiddenStaysHidden == Spec => HiddenStays
<1>1. IndInv /\ [Next]_vars =>
        [(node.tombstoned /\ node'.present /\ ~raced') => node'.tombstoned]_vars
  BY RowStep
<1> QED BY <1>1, Invariant, PTL DEF Spec, HiddenStays
=============================================================================
