---------------------------- MODULE EdgeTxProofs ----------------------------
(***************************************************************************)
(* Proofs about EdgeTx, for any calls and any weights: while no            *)
(* transaction has written over a change it did not see, the adapter keeps *)
(* one relationship per pair with exact counters and implements EdgeStore; *)
(* and an edge that changes its type is never seen missing.                *)
(***************************************************************************)
EXTENDS EdgeTx, TLAPS

(* What a transaction that has read and not yet written knows.             *)
KnowsRow(l) ==
    /\ l.op \in {"put", "update"} => l.weight \in Weights
    /\ l.op = "put" => IF l.row = "none" THEN Found(l.was) = {} ELSE l.row \in Found(l.was)
    /\ l.op = "update" => l.row \in Found(l.was)
    /\ l.op = "delete" => Found(l.was) = {l.row}

KnowsLate(l) ==
    /\ raced
    /\ l.op \in {"put", "update"}
    /\ l.row \in Found(l.was)
    /\ l.weight \in Weights

CallInv ==
    \A p \in Proc :
        /\ At(p, "write") => KnowsRow(local[p])
        /\ At(p, "merge") => KnowsLate(local[p])
        /\ local[p].sure => local[p].deleted \/ Found(rels) # {}

(* There is no edge without both its ends, raced or not.                   *)
Attached == Found(rels) # {} => attached

IndInv == TypeOK /\ OneEdgePerPair /\ Attached /\ CallInv

-----------------------------------------------------------------------------
(* The counts of a pair's rows.                                            *)

(* A pair without rows counts for nothing.                                 *)
LEMMA NoneFound ==
    ASSUME NEW rows \in Rows, Found(rows) = {}
    PROVE  rows = NoRows /\ Number(rows) = 0 /\ Total(rows) = 0
<1>1. \A t \in Types : rows[t] = None
  BY DEF Found
<1>2. rows = NoRows
  BY <1>1 DEF Rows, NoRows
<1> QED BY <1>1, <1>2 DEF Number, Total, Weight, Types

(* A pair with one row counts one edge, of that row's weight.              *)
LEMMA OneFound ==
    ASSUME NEW rows \in Rows, NEW t \in Types, Found(rows) = {t}
    PROVE  /\ rows[t] \in Weights /\ rows[t] \in Nat /\ rows[t] # None
           /\ Number(rows) = 1 /\ Total(rows) = rows[t]
           /\ \A s \in Types : s # t => rows[s] = None
<1>1. rows[t] # None /\ \A s \in Types : s # t => rows[s] = None
  BY DEF Found
<1>2. rows[t] \in Weights /\ rows[t] \in Nat
  BY <1>1, EdgeTxAssumption DEF Rows
<1>3. CASE t = "STRUCTURAL"
  BY <1>1, <1>2, <1>3 DEF Number, Total, Weight, Types
<1>4. CASE t = "CORETRIEVAL"
  BY <1>1, <1>2, <1>4 DEF Number, Total, Weight, Types
<1>5. CASE t = "COTRAVERSAL"
  BY <1>1, <1>2, <1>5 DEF Number, Total, Weight, Types
<1> QED BY <1>1, <1>2, <1>3, <1>4, <1>5 DEF Types

(* The counts are integers whatever the rows.                              *)
LEMMA CountsAreInts ==
    ASSUME NEW rows \in Rows
    PROVE  Number(rows) \in Int /\ Total(rows) \in Int
<1>1. \A t \in Types : Weight(rows, t) \in Int
  <2> TAKE t \in Types
  <2>1. rows[t] \in Weights \union {None}
    BY DEF Rows
  <2>2. CASE rows[t] = None
    BY <2>2 DEF Weight
  <2>3. CASE rows[t] # None
    <3>1. rows[t] \in Nat
      BY <2>1, <2>3, EdgeTxAssumption
    <3> QED BY <2>3, <3>1 DEF Weight
  <2> QED BY <2>2, <2>3
<1> QED BY <1>1 DEF Number, Total, Types

(* A single row of one type.                                               *)
LEMMA SingleRow ==
    ASSUME NEW t \in Types, NEW w \in Weights
    PROVE  /\ [NoRows EXCEPT ![t] = w] \in Rows
           /\ Found([NoRows EXCEPT ![t] = w]) = {t}
           /\ [NoRows EXCEPT ![t] = w][t] = w
  BY EdgeTxAssumption DEF Rows, NoRows, Found, None

LEMMA EmptyRows == NoRows \in Rows /\ Found(NoRows) = {}
  BY DEF Rows, NoRows, Found

(* The edge that one row stands for.                                       *)
LEMMA EdgeOfOne ==
    ASSUME NEW rows \in Rows, NEW t \in Types, Found(rows) = {t}
    PROVE  EdgeOf(rows) = [kind |-> t, weight |-> rows[t]]
<1>1. Lone(rows)
  BY DEF Lone
<1>2. (CHOOSE s \in Types : Found(rows) = {s}) = t
  OBVIOUS
<1> QED BY <1>1, <1>2 DEF EdgeOf

LEMMA EdgeOfNone ==
    ASSUME NEW rows, Found(rows) = {}
    PROVE  EdgeOf(rows) = NoEdge
  BY DEF EdgeOf, Lone

(* What the counters are while nothing has raced.                          *)
LEMMA Exact ==
    ASSUME IndInv, ~raced
    PROVE  /\ count \in Nat /\ sum \in Nat
           /\ \/ /\ Found(rels) = {} /\ rels = NoRows /\ EdgeOf(rels) = NoEdge
                 /\ attached => count = 0 /\ sum = 0
              \/ \E t \in Types :
                    /\ Found(rels) = {t} /\ attached /\ count = 1 /\ sum = rels[t]
                    /\ rels[t] \in Weights /\ rels[t] \in Nat
                    /\ EdgeOf(rels) = [kind |-> t, weight |-> rels[t]]
<1> USE DEF IndInv, TypeOK
<1>1. count \in Nat /\ sum \in Nat
  BY DEF OneEdgePerPair
<1>2. CASE Found(rels) = {}
  BY <1>1, <1>2, NoneFound, EdgeOfNone DEF OneEdgePerPair
<1>3. CASE Found(rels) # {}
  <2>1. PICK t \in Types : Found(rels) = {t}
    BY <1>3 DEF OneEdgePerPair, Lone
  <2> QED BY <1>1, <1>3, <2>1, OneFound, EdgeOfOne DEF OneEdgePerPair
<1> QED BY <1>2, <1>3

-----------------------------------------------------------------------------
LEMMA InitInv == Init => IndInv
<1> SUFFICES ASSUME Init PROVE IndInv
  OBVIOUS
<1> USE EdgeTxAssumption
<1>1. Found(rels) = {} /\ rels \in Rows /\ Number(rels) = 0 /\ Total(rels) = 0
  BY EmptyRows, NoneFound DEF Init
<1>2. Idle \in Local
  BY EmptyRows DEF Idle, Local, Types
<1>3. TypeOK
  <2>1. local \in [Proc -> Local]
    BY <1>2 DEF Init
  <2>2. calls \in 0..MaxCalls
    BY DEF Init
  <2>3. count \in Int /\ sum \in Int
    BY DEF Init
  <2>4. attached \in BOOLEAN /\ raced \in BOOLEAN
    BY DEF Init
  <2> QED BY <1>1, <2>1, <2>2, <2>3, <2>4 DEF TypeOK
<1>4. OneEdgePerPair /\ Attached
  BY <1>1 DEF Init, OneEdgePerPair, Attached
<1>5. CallInv
  BY DEF Init, CallInv, At, Idle
<1> QED BY <1>3, <1>4, <1>5 DEF IndInv

-----------------------------------------------------------------------------
(* Steps that store nothing.                                               *)

LEMMA Quiet ==
    ASSUME IndInv, NEW p \in Proc, NEW l \in Local, Become(p, l), UNCHANGED stored,
           calls' \in 0..MaxCalls,
           l.pc = "write" => KnowsRow(l),
           l.pc # "merge",
           l.sure => l.deleted \/ Found(rels) # {}
    PROVE  IndInv'
<1>1. /\ rels' = rels /\ attached' = attached /\ count' = count /\ sum' = sum
      /\ raced' = raced
  BY DEF stored
<1>2. local' = [local EXCEPT ![p] = l] /\ local \in [Proc -> Local]
  BY DEF Become, IndInv, TypeOK
<1>3. local' \in [Proc -> Local] /\ local'[p] = l /\ \A q \in Proc : q # p => local'[q] = local[q]
  BY <1>2
<1>4. TypeOK'
  BY <1>1, <1>3 DEF IndInv, TypeOK
<1>5. OneEdgePerPair' /\ Attached'
  BY <1>1 DEF IndInv, OneEdgePerPair, Attached
<1>6. CallInv'
  <2> SUFFICES ASSUME NEW q \in Proc
               PROVE  /\ At(q, "write")' => KnowsRow(local[q])'
                      /\ At(q, "merge")' => KnowsLate(local[q])'
                      /\ local'[q].sure => local'[q].deleted \/ Found(rels') # {}
    BY DEF CallInv
  <2>1. CASE q = p
    BY <1>1, <1>3, <2>1 DEF At, KnowsRow
  <2>2. CASE q # p
    BY <1>1, <1>3, <2>2 DEF IndInv, CallInv, At, KnowsRow, KnowsLate
  <2> QED BY <2>1, <2>2
<1> QED BY <1>4, <1>5, <1>6 DEF IndInv

LEMMA IdleIsLocal == Idle \in Local
  BY EmptyRows DEF Idle, Local, Types

(* A transaction has ended: what is left to show is about the store.       *)
LEMMA Ended ==
    ASSUME IndInv, NEW p \in Proc, raced' \in BOOLEAN, raced => raced', calls' = calls,
           rels' \in Rows, attached' \in BOOLEAN, count' \in Int, sum' \in Int,
           \/ Become(p, Idle) /\ (Found(rels) # {} => Found(rels') # {})
           \/ SettleDeleting(p),
           OneEdgePerPair', Attached'
    PROVE  IndInv'
<1>1. local \in [Proc -> Local] /\ calls \in 0..MaxCalls
  BY DEF IndInv, TypeOK
<1>2. CASE Become(p, Idle) /\ (Found(rels) # {} => Found(rels') # {})
  <2>1. /\ local' \in [Proc -> Local] /\ local'[p] = Idle
        /\ \A q \in Proc : q # p => local'[q] = local[q]
    BY <1>1, <1>2, IdleIsLocal DEF Become
  <2>2. TypeOK'
    BY <1>1, <2>1 DEF TypeOK
  <2>3. CallInv'
    <3> SUFFICES ASSUME NEW q \in Proc
                 PROVE  /\ At(q, "write")' => KnowsRow(local[q])'
                        /\ At(q, "merge")' => KnowsLate(local[q])'
                        /\ local'[q].sure => local'[q].deleted \/ Found(rels') # {}
      BY DEF CallInv
    <3>1. CASE q = p
      BY <2>1, <3>1 DEF At, Idle
    <3>2. CASE q # p
      BY <1>2, <2>1, <3>2 DEF IndInv, CallInv, At, KnowsRow, KnowsLate
    <3> QED BY <3>1, <3>2
  <2> QED BY <2>2, <2>3 DEF IndInv
<1>3. CASE SettleDeleting(p)
  <2>1. \A q \in Proc : [local[q] EXCEPT !.deleted = TRUE] \in Local
    <3>1. \A l \in Local : [l EXCEPT !.deleted = TRUE] \in Local
      BY Zenon DEF Local
    <3> QED BY <1>1, <3>1
  <2>2. /\ local' \in [Proc -> Local] /\ local'[p] = Idle
        /\ \A q \in Proc : q # p => local'[q] = [local[q] EXCEPT !.deleted = TRUE]
    BY <1>1, <1>3, <2>1, IdleIsLocal DEF SettleDeleting
  <2>3. TypeOK'
    BY <1>1, <2>2 DEF TypeOK
  <2>4. CallInv'
    <3> SUFFICES ASSUME NEW q \in Proc
                 PROVE  /\ At(q, "write")' => KnowsRow(local[q])'
                        /\ At(q, "merge")' => KnowsLate(local[q])'
                        /\ local'[q].sure => local'[q].deleted \/ Found(rels') # {}
      BY DEF CallInv
    <3>1. CASE q = p
      BY <2>2, <3>1 DEF At, Idle
    <3>2. CASE q # p
      <4>1. local[q] \in Local /\ local'[q] = [local[q] EXCEPT !.deleted = TRUE]
        BY <1>1, <2>2, <3>2
      <4>2. local'[q].deleted /\ local'[q].pc = local[q].pc /\ local'[q].op = local[q].op
            /\ local'[q].was = local[q].was /\ local'[q].row = local[q].row
            /\ local'[q].weight = local[q].weight
        BY <4>1 DEF Local
      <4> QED BY <4>2 DEF IndInv, CallInv, At, KnowsRow, KnowsLate
    <3> QED BY <3>1, <3>2
  <2> QED BY <2>3, <2>4 DEF IndInv
<1> QED BY <1>2, <1>3

-----------------------------------------------------------------------------
(* The steps of EdgeStore that transactions are.                           *)

EdgeWith(t, w) == [kind |-> t, weight |-> w]

LEMMA PutStep ==
    ASSUME IndInv, ~raced, NEW t \in Types, NEW w \in Weights,
           rels' = IF attached THEN [NoRows EXCEPT ![t] = w] ELSE NoRows,
           attached' = attached,
           count' = count + (IF Found(rels) = {} THEN 1 ELSE 0),
           sum' = sum + w - EdgeOf(rels).weight
    PROVE  OneEdgePerPair' /\ Pair!Next
<1>1. EdgeWith(t, w) \in Edge /\ w \in Nat /\ EdgeWith(t, w).kind = t /\ EdgeWith(t, w).weight = w
  BY EdgeTxAssumption DEF EdgeWith, Edge
<1>2. IF attached
      THEN Found(rels') = {t} /\ Number(rels') = 1 /\ Total(rels') = w
           /\ EdgeOf(rels') = EdgeWith(t, w)
      ELSE Found(rels') = {}
  BY SingleRow, EmptyRows, OneFound, EdgeOfOne DEF EdgeWith
<1>3. PICK old \in Nat :
         /\ EdgeOf(rels).weight = old
         /\ sum \in Nat /\ count \in Nat
         /\ attached => sum = old /\ count = IF Found(rels) = {} THEN 0 ELSE 1
         /\ Found(rels) = {} <=> ~(EdgeOf(rels).kind # "none")
         /\ sum >= old
  <2>1. CASE Found(rels) = {}
    <3>1. EdgeOf(rels) = NoEdge
      BY <2>1, EdgeOfNone
    <3>2. EdgeOf(rels).weight = 0 /\ EdgeOf(rels).kind = "none"
      BY <3>1 DEF NoEdge
    <3>3. 0 \in Nat /\ sum >= 0
      BY Exact
    <3> QED BY <2>1, <3>2, <3>3, Exact
  <2>2. CASE Found(rels) # {}
    <3>1. PICK s \in Types :
             /\ Found(rels) = {s} /\ attached /\ count = 1 /\ sum = rels[s] /\ rels[s] \in Nat
             /\ EdgeOf(rels) = [kind |-> s, weight |-> rels[s]]
      BY <2>2, Exact
    <3>2. EdgeOf(rels).weight = rels[s] /\ EdgeOf(rels).kind = s /\ s # "none"
      BY <3>1 DEF Types
    <3> QED BY <2>2, <3>1, <3>2, Exact
  <2> QED BY <2>1, <2>2
<1>4. count' \in Nat /\ sum' \in Nat /\ count' >= 0 /\ sum' >= 0
  BY <1>1, <1>3
<1>5. attached => count' = 1 /\ sum' = w
  BY <1>1, <1>3
<1>6. OneEdgePerPair'
  BY <1>2, <1>4, <1>5 DEF OneEdgePerPair, Lone
<1>7. EdgeOf(rels)' = IF attached THEN EdgeWith(t, w) ELSE EdgeOf(rels)
  <2>1. CASE attached
    BY <1>2, <2>1
  <2>2. CASE ~attached
    <3>1. Found(rels) = {}
      BY <2>2 DEF IndInv, Attached
    <3> QED BY <1>2, <2>2, <3>1, EdgeOfNone
  <2> QED BY <2>1, <2>2
<1>8. Pair!Put(EdgeWith(t, w))
  BY <1>1, <1>3, <1>7 DEF Pair!Put, Pair!Linked
<1> QED BY <1>1, <1>6, <1>8 DEF Pair!Next

LEMMA UpdateStep ==
    ASSUME IndInv, ~raced, NEW t \in Types, NEW w \in Weights,
           Found(rels) # {},
           rels' = [NoRows EXCEPT ![t] = w],
           attached' = attached,
           count' = count,
           sum' = sum + w - EdgeOf(rels).weight
    PROVE  OneEdgePerPair' /\ Pair!Next
<1>1. EdgeWith(t, w) \in Edge /\ w \in Nat /\ EdgeWith(t, w).kind = t /\ EdgeWith(t, w).weight = w
  BY EdgeTxAssumption DEF EdgeWith, Edge
<1>2. Found(rels') = {t} /\ Number(rels') = 1 /\ Total(rels') = w /\ EdgeOf(rels') = EdgeWith(t, w)
  <2>1. rels' \in Rows /\ Found(rels') = {t} /\ rels'[t] = w
    BY SingleRow
  <2>2. Number(rels') = 1 /\ Total(rels') = w
    BY <2>1, OneFound
  <2>3. EdgeOf(rels') = EdgeWith(t, w)
    BY <2>1, EdgeOfOne DEF EdgeWith
  <2> QED BY <2>1, <2>2, <2>3
<1>3. PICK s \in Types :
         /\ attached /\ count = 1 /\ sum = rels[s] /\ rels[s] \in Nat
         /\ EdgeOf(rels) = [kind |-> s, weight |-> rels[s]]
  BY Exact
<1>4. EdgeOf(rels).weight = rels[s] /\ EdgeOf(rels).kind # "none"
  BY <1>3 DEF Types
<1>5. count' = 1 /\ sum' = w
  BY <1>1, <1>3, <1>4
<1>6. OneEdgePerPair'
  <2>1. attached' /\ Lone(rels')
    BY <1>2, <1>3 DEF Lone
  <2>2. count' >= 0 /\ sum' >= 0
    BY <1>1, <1>5
  <2> QED BY <1>2, <1>5, <2>1, <2>2 DEF OneEdgePerPair
<1>7. Pair!Update(EdgeWith(t, w)) /\ Pair!Linked
  BY <1>1, <1>2, <1>4 DEF Pair!Update, Pair!Linked
<1> QED BY <1>1, <1>6, <1>7 DEF Pair!Next

LEMMA RemoveStep ==
    ASSUME IndInv, ~raced,
           rels' = NoRows,
           attached' = attached \/ attached' = FALSE,
           count' = count - Number(rels),
           sum' = sum - Total(rels)
    PROVE  OneEdgePerPair' /\ Pair!Next
<1>1. Found(rels') = {} /\ Number(rels') = 0 /\ Total(rels') = 0 /\ EdgeOf(rels') = NoEdge
  BY EmptyRows, NoneFound, EdgeOfNone
<1>2. /\ count' = count - (IF EdgeOf(rels).kind # "none" THEN 1 ELSE 0)
      /\ sum' = sum - EdgeOf(rels).weight
      /\ count' >= 0 /\ sum' >= 0
      /\ attached => count' = 0 /\ sum' = 0
  <2>1. CASE Found(rels) = {}
    <3>1. Number(rels) = 0 /\ Total(rels) = 0
      BY <2>1, NoneFound DEF IndInv, TypeOK
    <3>2. EdgeOf(rels).weight = 0 /\ EdgeOf(rels).kind = "none"
      BY <2>1, EdgeOfNone DEF NoEdge
    <3> QED BY <2>1, <3>1, <3>2, Exact
  <2>2. CASE Found(rels) # {}
    <3>1. PICK s \in Types :
             /\ Found(rels) = {s} /\ attached /\ count = 1 /\ sum = rels[s] /\ rels[s] \in Nat
             /\ EdgeOf(rels) = [kind |-> s, weight |-> rels[s]]
      BY <2>2, Exact
    <3>2. EdgeOf(rels).weight = rels[s] /\ EdgeOf(rels).kind = s /\ s # "none"
      BY <3>1 DEF Types
    <3>3. Number(rels) = 1 /\ Total(rels) = rels[s]
      BY <3>1, OneFound DEF IndInv, TypeOK
    <3> QED BY <3>1, <3>2, <3>3
  <2> QED BY <2>1, <2>2
<1>3. OneEdgePerPair'
  BY <1>1, <1>2 DEF OneEdgePerPair
<1>4. Pair!Remove
  BY <1>1, <1>2 DEF Pair!Remove, Pair!Linked
<1> QED BY <1>3, <1>4 DEF Pair!Next, Pair!DeleteEdge, Pair!DeleteEnd

-----------------------------------------------------------------------------
(* The transactions' last statements.                                      *)

LEMMA LocalFacts ==
    ASSUME TypeOK, NEW p \in Proc
    PROVE  /\ local[p] \in Local
           /\ local[p].was \in Rows /\ local[p].type \in Types
           /\ local[p].row \in Types \union {"none"}
  BY DEF TypeOK, Local

(* The weight that a transaction replaces: that of the edge, if nothing    *)
(* has changed since.                                                      *)
LEMMA OldWeightIs ==
    ASSUME TypeOK, NEW p \in Proc,
           \/ local[p].row = "none" /\ Found(local[p].was) = {}
           \/ local[p].row \in Found(local[p].was)
    PROVE  /\ OldWeight(local[p]) \in Nat
           /\ Found(local[p].was) = {} \/ Lone(local[p].was)
                 => /\ OldWeight(local[p]) = EdgeOf(local[p].was).weight
                    /\ local[p].row = "none" <=> Found(local[p].was) = {}
<1> DEFINE l == local[p]
<1>1. CASE l.row = "none" /\ Found(l.was) = {}
  <2>1. EdgeOf(l.was).weight = 0
    BY <1>1, EdgeOfNone DEF NoEdge
  <2> QED BY <1>1, <2>1 DEF OldWeight
<1>2. CASE l.row \in Found(l.was)
  <2>1. l.row \in Types /\ l.was[l.row] # None /\ l.row # "none" /\ l.was \in Rows
    BY <1>2, LocalFacts DEF Found, Types
  <2>2. l.was[l.row] \in Weights
    BY <2>1 DEF Rows
  <2>3. OldWeight(l) = l.was[l.row] /\ OldWeight(l) \in Nat
    BY <2>1, <2>2, EdgeTxAssumption DEF OldWeight
  <2>4. ASSUME Found(l.was) = {} \/ Lone(l.was)
        PROVE  OldWeight(l) = EdgeOf(l.was).weight
    <3>1. Found(l.was) = {l.row}
      BY <1>2, <2>4 DEF Lone
    <3> QED BY <2>1, <2>3, <3>1, EdgeOfOne
  <2> QED BY <1>2, <2>1, <2>3, <2>4
<1> QED BY <1>1, <1>2

(* The counters of a put or an update stay integers.                       *)
LEMMA CountStoredInt ==
    ASSUME TypeOK, NEW p \in Proc, CountStored(local[p]), local[p].weight \in Weights,
           OldWeight(local[p]) \in Nat
    PROVE  count' \in Int /\ sum' \in Int
<1>1. count \in Int /\ sum \in Int /\ local[p].weight \in Nat
  BY EdgeTxAssumption DEF TypeOK
<1> QED BY <1>1 DEF CountStored

LEMMA MergeKeepsType ==
    ASSUME TypeOK, Attached, NEW p \in Proc, Merge(local[p]), local[p].weight \in Weights,
           attached' = attached
    PROVE  /\ rels' \in Rows /\ Attached'
           /\ Found(rels) # {} => Found(rels') # {}
<1>1. local[p].type \in Types /\ rels \in Rows
  BY LocalFacts DEF TypeOK
<1>2. CASE attached
  <2>1. rels' = [rels EXCEPT ![local[p].type] = local[p].weight]
    BY <1>2 DEF Merge
  <2>2. rels' \in Rows /\ rels'[local[p].type] = local[p].weight
    BY <1>1, <2>1 DEF Rows
  <2>3. local[p].weight # None
    BY EdgeTxAssumption DEF None
  <2> QED BY <1>1, <1>2, <2>2, <2>3 DEF Found, Attached
<1>3. CASE ~attached
  BY <1>1, <1>3 DEF Merge, Attached
<1> QED BY <1>2, <1>3

LEMMA MergeEdgeStep ==
    ASSUME IndInv, NEW p \in Proc, MergeEdge(p)
    PROVE  IndInv' /\ (raced' \/ Pair!Next)
<1> DEFINE l == local[p]
<1>1. /\ At(p, "write") /\ l.op = "put" /\ ~Replaces(l) /\ Merge(l) /\ CountStored(l)
      /\ raced' = (raced \/ rels # l.was) /\ Become(p, Idle) /\ calls' = calls
      /\ attached' = attached
  BY DEF MergeEdge, Overwrites, Settle
<1>2. /\ TypeOK /\ Attached /\ KnowsRow(l)
  BY <1>1 DEF IndInv, CallInv
<1>3. /\ l.weight \in Weights
      /\ (l.row = "none" /\ Found(l.was) = {}) \/ l.row \in Found(l.was)
      /\ l.type \in Types
  BY <1>1, <1>2, LocalFacts DEF KnowsRow
<1>4. OldWeight(l) \in Nat
  BY <1>2, <1>3, OldWeightIs
<1>5. /\ rels' \in Rows /\ Attached' /\ (Found(rels) # {} => Found(rels') # {})
      /\ count' \in Int /\ sum' \in Int
  BY <1>1, <1>2, <1>3, <1>4, MergeKeepsType, CountStoredInt
<1>6. ASSUME ~raced'
      PROVE  OneEdgePerPair' /\ Pair!Next
  <2>1. ~raced /\ rels = l.was
    BY <1>1, <1>6
  <2>2. Found(rels) = {} \/ Lone(rels)
    BY <2>1 DEF IndInv, OneEdgePerPair
  <2>3. OldWeight(l) = EdgeOf(rels).weight /\ (l.row = "none" <=> Found(rels) = {})
    BY <1>2, <1>3, <2>1, <2>2, OldWeightIs
  <2>4. Found(rels) = {} \/ Found(rels) = {l.type}
    <3>1. CASE l.row = "none"
      BY <2>3, <3>1
    <3>2. CASE l.row # "none"
      <4>1. l.row = l.type
        BY <1>1, <3>2 DEF Replaces
      <4> QED BY <1>3, <2>1, <2>2, <2>3, <3>2, <4>1 DEF Lone
    <3> QED BY <3>1, <3>2
  <2>5. [rels EXCEPT ![l.type] = l.weight] = [NoRows EXCEPT ![l.type] = l.weight]
    <3>1. rels \in [Types -> Weights \union {None}] /\ \A t \in Types : t # l.type => rels[t] = None
      BY <1>2, <2>4 DEF TypeOK, Rows, Found
    <3> QED BY <1>3, <3>1 DEF NoRows
  <2>6. ~attached => rels = NoRows
    BY <1>2, NoneFound DEF Attached, TypeOK
  <2>7. rels' = IF attached THEN [NoRows EXCEPT ![l.type] = l.weight] ELSE NoRows
    BY <1>1, <2>5, <2>6 DEF Merge
  <2>8. /\ count' = count + (IF Found(rels) = {} THEN 1 ELSE 0)
        /\ sum' = sum + l.weight - EdgeOf(rels).weight
    BY <1>1, <2>3 DEF CountStored
  <2> QED BY <1>1, <1>3, <2>1, <2>7, <2>8, PutStep
<1>7. OneEdgePerPair'
  BY <1>6 DEF OneEdgePerPair
<1>8. attached' \in BOOLEAN /\ raced' \in BOOLEAN /\ (raced => raced')
  BY <1>1, <1>2 DEF TypeOK
<1>9. IndInv'
  BY <1>1, <1>5, <1>7, <1>8, Ended
<1> QED BY <1>6, <1>9

LEMMA SetEdgeStep ==
    ASSUME IndInv, NEW p \in Proc, SetEdge(p)
    PROVE  IndInv' /\ (raced' \/ Pair!Next)
<1> DEFINE l == local[p]
<1>1. /\ At(p, "write") /\ l.op = "update" /\ ~Replaces(l) /\ CountStored(l)
      /\ rels' = [t \in Types |-> IF rels[t] = None THEN None ELSE l.weight]
      /\ raced' = (raced \/ rels # l.was) /\ Become(p, Idle) /\ calls' = calls
      /\ attached' = attached
  BY DEF SetEdge, Overwrites, Settle
<1>2. /\ TypeOK /\ Attached /\ KnowsRow(l)
  BY <1>1 DEF IndInv, CallInv
<1>3. l.weight \in Weights /\ l.row \in Found(l.was) /\ l.row \in Types
  BY <1>1, <1>2 DEF KnowsRow, Found
<1>4. l.row # "none" /\ l.row = l.type
  BY <1>1, <1>3 DEF Replaces, Types
<1>5. OldWeight(l) \in Nat
  BY <1>2, <1>3, OldWeightIs
<1>6. rels' \in Rows /\ Found(rels') = Found(rels)
  <2>1. l.weight # None
    BY <1>3, EdgeTxAssumption DEF None
  <2>2. rels' \in Rows
    BY <1>1, <1>2, <1>3 DEF TypeOK, Rows
  <2> QED BY <1>1, <2>1, <2>2 DEF Found
<1>7. Attached' /\ count' \in Int /\ sum' \in Int
  BY <1>1, <1>2, <1>3, <1>5, <1>6, CountStoredInt DEF Attached
<1>8. ASSUME ~raced'
      PROVE  OneEdgePerPair' /\ Pair!Next
  <2>1. ~raced /\ rels = l.was
    BY <1>1, <1>8
  <2>2. Lone(rels) /\ Found(rels) = {l.row}
    BY <1>3, <2>1 DEF IndInv, OneEdgePerPair, Lone
  <2>3. OldWeight(l) = EdgeOf(rels).weight
    BY <1>2, <1>3, <2>1, <2>2, OldWeightIs
  <2>4. rels' = [NoRows EXCEPT ![l.row] = l.weight]
    BY <1>1, <2>2 DEF NoRows, Found
  <2>5. count' = count /\ sum' = sum + l.weight - EdgeOf(rels).weight
    <3>1. count \in Int /\ ~(l.op = "put")
      BY <1>1, <1>2 DEF TypeOK
    <3> QED BY <1>1, <2>3, <3>1 DEF CountStored
  <2> QED BY <1>1, <1>3, <2>1, <2>2, <2>4, <2>5, UpdateStep
<1>9. OneEdgePerPair'
  BY <1>8 DEF OneEdgePerPair
<1>10. attached' \in BOOLEAN /\ raced' \in BOOLEAN /\ (raced => raced')
  BY <1>1, <1>2 DEF TypeOK
<1>11. IndInv'
  BY <1>1, <1>6, <1>7, <1>9, <1>10, Ended
<1> QED BY <1>8, <1>11

LEMMA ReplaceEdgeStep ==
    ASSUME IndInv, NEW p \in Proc, ReplaceEdge(p)
    PROVE  IndInv' /\ (raced' \/ Pair!Next)
<1> DEFINE l == local[p]
<1>1. /\ At(p, "write") /\ Replaces(l) /\ CountStored(l) /\ Found(rels) # {}
      /\ rels' = IF attached THEN [NoRows EXCEPT ![l.type] = l.weight] ELSE NoRows
      /\ raced' = (raced \/ rels # l.was) /\ Become(p, Idle) /\ calls' = calls
      /\ attached' = attached
  BY DEF ReplaceEdge, Overwrites, Settle
<1>2. /\ TypeOK /\ attached /\ KnowsRow(l)
  BY <1>1 DEF IndInv, CallInv, Attached
<1>3. /\ l.op \in {"put", "update"} /\ l.row # "none" /\ l.weight \in Weights
      /\ l.row \in Found(l.was) /\ l.type \in Types
  BY <1>1, <1>2, LocalFacts DEF KnowsRow, Replaces
<1>4. OldWeight(l) \in Nat
  BY <1>2, <1>3, OldWeightIs
<1>5. rels' = [NoRows EXCEPT ![l.type] = l.weight] /\ rels' \in Rows /\ Found(rels') = {l.type}
  BY <1>1, <1>2, <1>3, SingleRow
<1>6. Found(rels') # {} /\ Attached' /\ count' \in Int /\ sum' \in Int
  BY <1>1, <1>2, <1>3, <1>4, <1>5, CountStoredInt DEF Attached
<1>7. ASSUME ~raced'
      PROVE  OneEdgePerPair' /\ Pair!Next
  <2>1. ~raced /\ rels = l.was
    BY <1>1, <1>7
  <2>2. Lone(rels)
    BY <1>1, <2>1 DEF IndInv, OneEdgePerPair
  <2>3. OldWeight(l) = EdgeOf(rels).weight
    BY <1>2, <1>3, <2>1, <2>2, OldWeightIs
  <2>4. count' = count /\ sum' = sum + l.weight - EdgeOf(rels).weight
    <3>1. count \in Int
      BY <1>2 DEF TypeOK
    <3> QED BY <1>1, <1>3, <2>3, <3>1 DEF CountStored
  <2> QED BY <1>1, <1>3, <1>5, <2>1, <2>4, UpdateStep
<1>8. OneEdgePerPair'
  BY <1>7 DEF OneEdgePerPair
<1>9. attached' \in BOOLEAN /\ raced' \in BOOLEAN /\ (raced => raced')
  BY <1>1, <1>2 DEF TypeOK
<1>10. IndInv'
  BY <1>1, <1>5, <1>6, <1>8, <1>9, Ended
<1> QED BY <1>7, <1>10

LEMMA MergeLateStep ==
    ASSUME IndInv, NEW p \in Proc, MergeLate(p)
    PROVE  IndInv' /\ raced'
<1> DEFINE l == local[p]
<1>1. /\ At(p, "merge") /\ Merge(l) /\ CountStored(l) /\ raced' = raced
      /\ Become(p, Idle) /\ calls' = calls /\ attached' = attached
  BY DEF MergeLate, Settle
<1>2. /\ TypeOK /\ Attached /\ KnowsLate(l)
  BY <1>1 DEF IndInv, CallInv
<1>3. raced /\ raced' /\ l.weight \in Weights /\ l.row \in Found(l.was)
  BY <1>1, <1>2 DEF KnowsLate
<1>4. OldWeight(l) \in Nat
  BY <1>2, <1>3, OldWeightIs
<1>5. /\ rels' \in Rows /\ Attached' /\ (Found(rels) # {} => Found(rels') # {})
      /\ count' \in Int /\ sum' \in Int
  BY <1>1, <1>2, <1>3, <1>4, MergeKeepsType, CountStoredInt
<1>6. OneEdgePerPair'
  BY <1>3 DEF OneEdgePerPair
<1>7. attached' \in BOOLEAN /\ raced' \in BOOLEAN
  BY <1>1, <1>2 DEF TypeOK
<1>8. IndInv'
  BY <1>1, <1>3, <1>5, <1>6, <1>7, Ended
<1> QED BY <1>3, <1>8

LEMMA DropNothingStep ==
    ASSUME IndInv, NEW p \in Proc, DropNothing(p)
    PROVE  IndInv' /\ raced'
<1> DEFINE l == local[p]
           m == [l EXCEPT !.pc = "merge"]
<1>1. /\ At(p, "write") /\ Replaces(l) /\ raced' = TRUE /\ local' = [local EXCEPT ![p] = m]
      /\ rels' = rels /\ attached' = attached /\ count' = count /\ sum' = sum /\ calls' = calls
  BY DEF DropNothing, Become
<1>2. TypeOK /\ KnowsRow(l) /\ l \in Local
  BY <1>1, LocalFacts DEF IndInv, CallInv
<1>3. /\ m \in Local /\ m.op = l.op /\ m.row = l.row /\ m.was = l.was /\ m.weight = l.weight
      /\ m.pc = "merge" /\ m.sure = l.sure /\ m.deleted = l.deleted
  BY <1>2 DEF Local
<1>4. KnowsLate(m)'
  <2>1. m.op \in {"put", "update"} /\ m.row \in Found(m.was) /\ m.weight \in Weights
    BY <1>1, <1>2, <1>3 DEF KnowsRow, Replaces
  <2> QED BY <1>1, <2>1 DEF KnowsLate
<1>5. /\ local' \in [Proc -> Local] /\ local'[p] = m
      /\ \A q \in Proc : q # p => local'[q] = local[q]
  BY <1>1, <1>2, <1>3 DEF TypeOK
<1>6. TypeOK'
  <2>1. raced' \in BOOLEAN
    BY <1>1
  <2> QED BY <1>1, <1>2, <1>5, <2>1 DEF TypeOK
<1>7. OneEdgePerPair' /\ Attached'
  BY <1>1 DEF OneEdgePerPair, IndInv, Attached
<1>8. CallInv'
  <2> SUFFICES ASSUME NEW q \in Proc
               PROVE  /\ At(q, "write")' => KnowsRow(local[q])'
                      /\ At(q, "merge")' => KnowsLate(local[q])'
                      /\ local'[q].sure => local'[q].deleted \/ Found(rels') # {}
    BY DEF CallInv
  <2>1. CASE q = p
    <3>1. local[p].sure => local[p].deleted \/ Found(rels) # {}
      BY DEF IndInv, CallInv
    <3> QED BY <1>1, <1>3, <1>4, <1>5, <2>1, <3>1 DEF At, KnowsLate
  <2>2. CASE q # p
    BY <1>1, <1>5, <2>2 DEF IndInv, CallInv, At, KnowsRow, KnowsLate
  <2> QED BY <2>1, <2>2
<1> QED BY <1>1, <1>6, <1>7, <1>8 DEF IndInv

LEMMA DeleteEdgeStep ==
    ASSUME IndInv, NEW p \in Proc, DeleteEdge(p)
    PROVE  IndInv' /\ (raced' \/ Pair!Next)
<1> DEFINE l == local[p]
<1>1. /\ At(p, "write") /\ l.op = "delete" /\ rels' = NoRows /\ attached' = attached
      /\ count' = count - 1 /\ sum' = sum - OldWeight(l)
      /\ raced' = (raced \/ rels # l.was) /\ SettleDeleting(p) /\ calls' = calls
  BY DEF DeleteEdge, Overwrites, SettleDeleting
<1>2. TypeOK /\ KnowsRow(l) /\ l.was \in Rows
  BY <1>1, LocalFacts DEF IndInv, CallInv
<1>3. Found(l.was) = {l.row} /\ l.row \in Types
  BY <1>1, <1>2 DEF KnowsRow, Found
<1>4. OldWeight(l) = l.was[l.row] /\ OldWeight(l) \in Nat
  <2>1. l.row # "none"
    BY <1>3 DEF Types
  <2> QED BY <1>2, <1>3, <2>1, OneFound DEF OldWeight
<1>5. rels' \in Rows /\ Found(rels') = {} /\ count' \in Int /\ sum' \in Int /\ Attached'
  BY <1>1, <1>2, <1>4, EmptyRows DEF TypeOK, Attached
<1>6. ASSUME ~raced'
      PROVE  OneEdgePerPair' /\ Pair!Next
  <2>1. ~raced /\ rels = l.was
    BY <1>1, <1>6
  <2>2. Number(rels) = 1 /\ Total(rels) = OldWeight(l)
    BY <1>2, <1>3, <1>4, <2>1, OneFound
  <2> QED BY <1>1, <2>1, <2>2, RemoveStep
<1>7. OneEdgePerPair'
  BY <1>6 DEF OneEdgePerPair
<1>8. attached' \in BOOLEAN /\ raced' \in BOOLEAN /\ (raced => raced')
  BY <1>1, <1>2 DEF TypeOK
<1>9. IndInv'
  BY <1>1, <1>5, <1>7, <1>8, Ended
<1> QED BY <1>6, <1>9

LEMMA DetachEndStep ==
    ASSUME IndInv, NEW p \in Proc, DetachEnd(p)
    PROVE  IndInv' /\ (raced' \/ Pair!Next)
<1> DEFINE l == local[p]
<1>1. /\ rels' = NoRows /\ attached' = FALSE
      /\ count' = count - Number(l.was) /\ sum' = sum - Total(l.was)
      /\ raced' = (raced \/ rels # l.was) /\ SettleDeleting(p) /\ calls' = calls
  BY DEF DetachEnd, Overwrites, SettleDeleting
<1>2. TypeOK /\ l.was \in Rows
  BY LocalFacts DEF IndInv
<1>3. rels' \in Rows /\ Found(rels') = {} /\ count' \in Int /\ sum' \in Int /\ Attached'
  <2>1. Number(l.was) \in Int /\ Total(l.was) \in Int /\ count \in Int /\ sum \in Int
    BY <1>2, CountsAreInts DEF TypeOK
  <2> QED BY <1>1, <2>1, EmptyRows DEF Attached
<1>4. ASSUME ~raced'
      PROVE  OneEdgePerPair' /\ Pair!Next
  <2>1. ~raced /\ rels = l.was
    BY <1>1, <1>4
  <2> QED BY <1>1, <2>1, RemoveStep
<1>5. OneEdgePerPair'
  BY <1>4 DEF OneEdgePerPair
<1>6. attached' \in BOOLEAN /\ raced' \in BOOLEAN /\ (raced => raced')
  BY <1>1, <1>2 DEF TypeOK
<1>7. IndInv'
  BY <1>1, <1>3, <1>5, <1>6, Ended
<1> QED BY <1>4, <1>7

-----------------------------------------------------------------------------
(* The steps that store nothing.                                           *)

LEMMA BeginStep ==
    ASSUME IndInv, NEW p \in Proc, NEW l \in Local, Begin(p, l),
           l.pc # "write", l.pc # "merge", ~l.sure
    PROVE  IndInv'
<1>1. calls' \in 0..MaxCalls
  BY EdgeTxAssumption DEF Begin, IndInv, TypeOK
<1> QED BY <1>1, Quiet DEF Begin

LEMMA CallStep ==
    ASSUME IndInv, NEW p \in Proc, Call(p)
    PROVE  IndInv' /\ UNCHANGED stored
<1>1. CASE GetEdge(p)
  <2>1. PICK type \in {"CORETRIEVAL", "COTRAVERSAL"} :
           Become(p, [Idle EXCEPT !.pc = "begin",
                         !.op = IF Found(rels) = {} THEN "put" ELSE "update",
                         !.type = type,
                         !.sure = Found(rels) # {}])
    BY <1>1 DEF GetEdge
  <2> DEFINE l == [Idle EXCEPT !.pc = "begin",
                      !.op = IF Found(rels) = {} THEN "put" ELSE "update",
                      !.type = type,
                      !.sure = Found(rels) # {}]
  <2>2. l \in Local /\ l.pc = "begin" /\ (l.sure => Found(rels) # {})
    BY IdleIsLocal DEF Local, Idle, Types
  <2>3. UNCHANGED stored /\ calls' = calls /\ calls' \in 0..MaxCalls
    BY <1>1 DEF GetEdge, IndInv, TypeOK
  <2> QED BY <2>1, <2>2, <2>3, Quiet
<1>2. CASE ~GetEdge(p)
  <2>1. PICK l \in Local : Begin(p, l) /\ l.pc \in {"get", "begin"} /\ ~l.sure
    <3>1. /\ [Idle EXCEPT !.pc = "get"] \in Local
          /\ [Idle EXCEPT !.pc = "begin"] \in Local
          /\ [Idle EXCEPT !.pc = "begin", !.op = "update"] \in Local
          /\ [Idle EXCEPT !.pc = "begin", !.op = "delete"] \in Local
          /\ [Idle EXCEPT !.pc = "begin", !.op = "end"] \in Local
      BY IdleIsLocal DEF Local, Idle
    <3>2. CASE Reinforce(p)
      BY <3>1, <3>2 DEF Reinforce, Idle
    <3>3. CASE PutStructural(p)
      BY <3>1, <3>3 DEF PutStructural, Idle
    <3>4. CASE ReadEdge(p)
      BY <3>1, <3>4 DEF ReadEdge, Idle
    <3>5. CASE PruneEdge(p)
      BY <3>1, <3>5 DEF PruneEdge, Idle
    <3>6. CASE ForgetEnd(p)
      BY <3>1, <3>6 DEF ForgetEnd, Idle
    <3> QED BY <1>2, <3>2, <3>3, <3>4, <3>5, <3>6 DEF Call
  <2> QED BY <2>1, BeginStep DEF Begin
<1> QED BY <1>1, <1>2

(* A first statement: the transaction goes on with l, or the call is over. *)
LEMMA ReadStep ==
    ASSUME IndInv, NEW p \in Proc, Read(p)
    PROVE  IndInv' /\ UNCHANGED stored
<1> DEFINE k == local[p]
<1>1. /\ k \in Local /\ TypeOK /\ rels \in Rows
      /\ k.sure => k.deleted \/ Found(rels) # {}
  BY LocalFacts DEF IndInv, CallInv, TypeOK
<1>2. UNCHANGED stored /\ calls' = calls /\ calls' \in 0..MaxCalls
  BY <1>1 DEF Read, ReadForPut, ReadForUpdate, Miss, ReadForDelete, ReadForEnd, TypeOK
<1>3. ASSUME Become(p, Idle) PROVE IndInv'
  BY <1>2, <1>3, IdleIsLocal, Quiet DEF Idle
<1>4. CASE ReadForPut(p)
  <2>1. PICK row \in (IF Found(rels) = {} THEN {"none"} ELSE Found(rels)), w \in Weights :
           Become(p, [k EXCEPT !.pc = "write", !.was = rels, !.row = row, !.weight = w])
    BY <1>4 DEF ReadForPut
  <2> DEFINE l == [k EXCEPT !.pc = "write", !.was = rels, !.row = row, !.weight = w]
  <2>2. row \in Types \union {"none"} /\ k.op = "put"
    BY <1>4 DEF Found, ReadForPut
  <2>3. /\ l \in Local /\ l.pc = "write" /\ l.op = "put" /\ l.was = rels /\ l.row = row
        /\ l.weight = w /\ l.sure = k.sure /\ l.deleted = k.deleted
    BY <1>1, <2>2 DEF Local
  <2>4. KnowsRow(l)
    BY <2>1, <2>2, <2>3 DEF KnowsRow, Found, Types
  <2>5. l.sure => l.deleted \/ Found(rels) # {}
    BY <1>1, <2>3
  <2> QED BY <1>2, <2>1, <2>3, <2>4, <2>5, Quiet
<1>5. CASE ReadForUpdate(p)
  <2>1. PICK row \in Found(rels), type \in Types, w \in Weights :
           Become(p, [k EXCEPT !.pc = "write", !.was = rels, !.row = row,
                               !.type = type, !.weight = w])
    BY <1>5 DEF ReadForUpdate
  <2> DEFINE l == [k EXCEPT !.pc = "write", !.was = rels, !.row = row,
                            !.type = type, !.weight = w]
  <2>2. row \in Types \union {"none"} /\ k.op = "update"
    BY <1>5 DEF Found, ReadForUpdate
  <2>3. /\ l \in Local /\ l.pc = "write" /\ l.op = "update" /\ l.was = rels /\ l.row = row
        /\ l.weight = w /\ l.sure = k.sure /\ l.deleted = k.deleted
    BY <1>1, <2>2 DEF Local
  <2>4. KnowsRow(l)
    BY <2>1, <2>3 DEF KnowsRow
  <2>5. l.sure => l.deleted \/ Found(rels) # {}
    BY <1>1, <2>3
  <2> QED BY <1>2, <2>1, <2>3, <2>4, <2>5, Quiet
<1>6. CASE Miss(p)
  BY <1>2, <1>3, <1>6 DEF Miss
<1>7. CASE ReadForDelete(p)
  <2>1. CASE Become(p, Idle)
    BY <1>2, <1>3, <2>1
  <2>2. CASE ~Become(p, Idle)
    <3>1. PICK row \in Types :
             /\ Found(rels) = {row}
             /\ Become(p, [k EXCEPT !.pc = "write", !.was = rels, !.row = row])
      BY <1>7, <2>2 DEF ReadForDelete
    <3> DEFINE l == [k EXCEPT !.pc = "write", !.was = rels, !.row = row]
    <3>2. k.op = "delete"
      BY <1>7 DEF ReadForDelete
    <3>3. /\ l \in Local /\ l.pc = "write" /\ l.op = "delete" /\ l.was = rels /\ l.row = row
          /\ l.sure = k.sure /\ l.deleted = k.deleted
      BY <1>1, <3>2 DEF Local
    <3>4. KnowsRow(l) /\ (l.sure => l.deleted \/ Found(rels) # {})
      BY <1>1, <3>1, <3>3 DEF KnowsRow
    <3> QED BY <1>2, <3>1, <3>3, <3>4, Quiet
  <2> QED BY <2>1, <2>2
<1>8. CASE ReadForEnd(p)
  <2>1. CASE ~attached
    BY <1>2, <1>3, <1>8, <2>1 DEF ReadForEnd
  <2>2. CASE attached
    <3> DEFINE l == [k EXCEPT !.pc = "write", !.was = rels]
    <3>1. k.op = "end" /\ Become(p, l)
      BY <1>8, <2>2 DEF ReadForEnd
    <3>2. /\ l \in Local /\ l.pc = "write" /\ l.op = "end"
          /\ l.sure = k.sure /\ l.deleted = k.deleted
      BY <1>1, <3>1 DEF Local
    <3>3. KnowsRow(l) /\ (l.sure => l.deleted \/ Found(rels) # {})
      BY <1>1, <3>2 DEF KnowsRow
    <3> QED BY <1>2, <3>1, <3>2, <3>3, Quiet
  <2> QED BY <2>1, <2>2
<1> QED BY <1>4, <1>5, <1>6, <1>7, <1>8 DEF Read

LEMMA RetryStep ==
    ASSUME IndInv, NEW p \in Proc, Retry(p) \/ Abort(p)
    PROVE  IndInv' /\ UNCHANGED stored
<1>1. UNCHANGED stored /\ calls' = calls /\ calls' \in 0..MaxCalls
  BY DEF Retry, Abort, IndInv, TypeOK
<1>2. CASE Retry(p)
  <2> DEFINE l == [local[p] EXCEPT !.pc = "begin"]
  <2>1. /\ local[p] \in Local
        /\ local[p].sure => local[p].deleted \/ Found(rels) # {}
    BY LocalFacts DEF IndInv, CallInv
  <2>2. /\ l \in Local /\ l.pc = "begin" /\ l.sure = local[p].sure
        /\ l.deleted = local[p].deleted
    BY <2>1 DEF Local
  <2>3. Become(p, l)
    BY <1>2 DEF Retry
  <2> QED BY <1>1, <2>1, <2>2, <2>3, Quiet
<1>3. CASE Abort(p)
  BY <1>1, <1>3, IdleIsLocal, Quiet DEF Abort, Idle
<1> QED BY <1>2, <1>3

-----------------------------------------------------------------------------
(* Every step keeps the invariant, and is one of EdgeStore's unless a      *)
(* transaction has raced or nothing is stored.                             *)
LEMMA NextStep ==
    ASSUME IndInv, [Next]_vars
    PROVE  IndInv' /\ (raced' \/ Pair!Next \/ UNCHANGED <<EdgeOf(rels), attached, count, sum>>)
<1>1. ASSUME UNCHANGED stored PROVE UNCHANGED <<EdgeOf(rels), attached, count, sum>>
  BY <1>1 DEF stored, EdgeOf, Lone, Found
<1>2. ASSUME UNCHANGED vars PROVE IndInv' /\ UNCHANGED stored
  BY <1>2 DEF vars, stored, IndInv, TypeOK, OneEdgePerPair, Attached, CallInv, At,
              KnowsRow, KnowsLate
<1>3. ASSUME NEW p \in Proc, Write(p) PROVE IndInv' /\ (raced' \/ Pair!Next)
  BY <1>3, MergeEdgeStep, SetEdgeStep, ReplaceEdgeStep, DropNothingStep, MergeLateStep,
     DeleteEdgeStep, DetachEndStep DEF Write
<1> QED BY <1>1, <1>2, <1>3, CallStep, ReadStep, RetryStep DEF Next, Rest

THEOREM Invariance == Spec => []IndInv
<1>1. IndInv /\ [Next]_vars => IndInv'
  BY NextStep
<1> QED BY InitInv, <1>1, PTL DEF Spec

(* The state has its type whatever the calls.                              *)
THEOREM TypeCorrect == Spec => []TypeOK
<1>1. IndInv => TypeOK
  BY DEF IndInv
<1> QED BY Invariance, <1>1, PTL

(* putEdgeTx and the statements around it keep one edge per pair, with     *)
(* exact counters, until one transaction writes over another's change.     *)
THEOREM OneEdge == Spec => []OneEdgePerPair
<1>1. IndInv => OneEdgePerPair
  BY DEF IndInv
<1> QED BY Invariance, <1>1, PTL

(* A reinforcement that has found its edge misses it only if the edge has  *)
(* been deleted since; a change of its type is never seen half done.       *)
THEOREM NeverMissed == Spec => []MissedOnlyIfDeleted
<1>1. IndInv => MissedOnlyIfDeleted
  BY DEF IndInv, CallInv, MissedOnlyIfDeleted
<1> QED BY Invariance, <1>1, PTL

(* Until then each transaction is one step of EdgeStore or stores nothing. *)
THEOREM ImplementsEdgeStore == Spec => Atomic
<1>1. Init => Pair!Init
  BY EmptyRows, EdgeOfNone DEF Init, Pair!Init
<1>2. IndInv /\ [Next]_vars => [raced' \/ Pair!Next]_<<EdgeOf(rels), attached, count, sum>>
  BY NextStep
<1> QED BY Invariance, <1>1, <1>2, PTL DEF Spec, Atomic
=============================================================================
