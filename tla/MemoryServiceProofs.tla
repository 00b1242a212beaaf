------------------------- MODULE MemoryServiceProofs -------------------------
(***************************************************************************)
(* What MemoryService obeys for any number of processes, messages, chunks  *)
(* and calls: its type invariant, then what the counters, the edges and    *)
(* the stored memories owe to its inductive invariants, then that it       *)
(* implements MemoryLifecycle.                                             *)
(***************************************************************************)
EXTENDS MemoryService, FiniteSetTheorems, SequenceTheorems, TLAPS

-----------------------------------------------------------------------------
(* The data structures.                                                    *)

(* Nodes and edges come from finite sets.                                  *)
LEMMA NodesFinite == IsFiniteSet(Node) /\ IsFiniteSet(Edge)
<1>1. MaxMsg \in Int /\ MaxChunks \in Int
  BY StorageAssumption
<1>2. IsFiniteSet(Msg) /\ IsFiniteSet(Chunk)
  BY <1>1, FS_Interval DEF Msg, Chunk
<1>3. IsFiniteSet(Node)
  BY <1>2, FS_Product DEF Node
<1>4. QED
  BY <1>3, FS_Product DEF Edge

(* An ordering of a set of nodes or of edges is a sequence over it.        *)
LEMMA OrderingIsSeq ==
  ASSUME NEW S, NEW T, S \subseteq T, IsFiniteSet(T), NEW s \in SetToSeqs(S)
  PROVE  /\ s \in Seq(S)
         /\ DOMAIN s = 1..Cardinality(S)
         /\ Len(s) = Cardinality(S)
         /\ Cardinality(S) \in Nat
<1>1. IsFiniteSet(S)
  BY FS_Subset
<1>2. Cardinality(S) \in Nat
  BY <1>1, FS_CardinalityType
<1>3. s \in [1..Cardinality(S) -> S]
  BY DEF SetToSeqs
<1>4. QED
  BY <1>2, <1>3

(* The two directions of every pair of a sequence of edges are edges.      *)
LEMMA BothWaysType ==
  ASSUME NEW s \in Seq(Edge)
  PROVE  BothWays(s) \in Seq(Edge) /\ Len(BothWays(s)) = 2 * Len(s)
<1>1. Len(s) \in Nat /\ 2 * Len(s) \in Nat
  OBVIOUS
<1>2. ASSUME NEW k \in 1..2 * Len(s)
      PROVE  (IF k % 2 = 1 THEN s[(k + 1) \div 2] ELSE Reversed(s[k \div 2])) \in Edge
  <2>1. CASE k % 2 = 1
    <3>1. (k + 1) \div 2 \in 1..Len(s)
      BY <1>1, <2>1
    <3>2. QED
      BY <2>1, <3>1
  <2>2. CASE k % 2 # 1
    <3>1. k \div 2 \in 1..Len(s)
      BY <1>1, <2>2
    <3>2. s[k \div 2] \in Edge
      BY <3>1
    <3>3. QED
      BY <2>2, <3>2 DEF Reversed, Edge
  <2>3. QED
    BY <2>1, <2>2
<1>3. BothWays(s) \in [1..2 * Len(s) -> Edge]
  BY <1>2 DEF BothWays
<1>4. QED
  BY <1>1, <1>3

(* The hops of a path over nodes are edges.                                *)
LEMMA EdgesAlongType ==
  ASSUME NEW q \in Seq(Node), Len(q) > 1
  PROVE  EdgesAlong(q) \in Seq(Edge) /\ EdgesAlong(q) # <<>>
<1>0. Len(q) \in Nat
  OBVIOUS
<1>1. Len(q) - 1 \in Nat /\ Len(q) - 1 > 0
  BY <1>0
<1>2. \A i \in 1..Len(q) - 1 : <<q[i], q[i + 1]>> \in Edge
  BY <1>0, <1>1 DEF Edge
<1>3. EdgesAlong(q) \in [1..Len(q) - 1 -> Edge]
  BY <1>2 DEF EdgesAlong
<1>4. EdgesAlong(q) \in Seq(Edge) /\ Len(EdgesAlong(q)) = Len(q) - 1
  BY <1>1, <1>3
<1>5. QED
  BY <1>1, <1>4

(* The recent nodes are rows.                                              *)
LEMMA RecentType ==
  ASSUME rows \subseteq Node, NEW since, NEW m, NEW s \in RecentNodeIDs(since, m)
  PROVE  s \in Seq(rows)
<1> DEFINE candidates == {n \in rows : MessageOf(n) >= since /\ MessageOf(n) # m}
           newest == {n \in candidates :
                         Cardinality({x \in candidates : Newer(x, n)}) < RecentN}
<1>1. newest \subseteq rows
  OBVIOUS
<1>2. s \in SetToSeqs(newest)
  BY DEF RecentNodeIDs
<1>3. s \in Seq(newest)
  <2>1. newest \subseteq Node
    BY <1>1
  <2>2. QED
    BY <1>2, <2>1, NodesFinite, OrderingIsSeq
<1>4. QED
  BY <1>1, <1>3, SeqMonotonic

-----------------------------------------------------------------------------
(* Each step of a call leaves the caller a well-formed local state.        *)

Moves(p) == \E l \in Local : Become(p, l) /\ LocalOK(p, l)

LEMMA IdleType == Idle \in Local
  BY StorageAssumption DEF Idle, Local

LEMMA IdleMoves ==
  ASSUME NEW p \in Proc, Become(p, Idle)
  PROVE  Moves(p)
<1>1. Idle \in Local
  BY IdleType
<1>2. LocalOK(p, Idle)
  BY DEF LocalOK, Idle, WritePC, ForgetPC, EdgePC
<1>3. QED
  BY <1>1, <1>2 DEF Moves

(* The store's operations keep its type, given records of the right type.  *)
LEMMA StorageTyped ==
  ASSUME StorageTypeOK
  PROVE  /\ \A m \in Msg : PutMessage(m) \/ DeleteMessage(m) => StorageTypeOK'
         /\ \A n \in Node : PutNode(n) \/ InsertVector(n) \/ DeleteVector(n) => StorageTypeOK'
         /\ \A n \in Node, found \in BOOLEAN, attached \in SUBSET Edge :
               DeleteNode(n, found, attached) => StorageTypeOK'
         /\ \A e \in Edge, b \in BOOLEAN : PutEdge(e, b) \/ UpdateEdge(e, b) \/ DeleteEdge(e, b)
               => StorageTypeOK'
         /\ UNCHANGED store => StorageTypeOK'
<1> USE DEF StorageTypeOK
<1>1. \A m \in Msg : PutMessage(m) \/ DeleteMessage(m) => StorageTypeOK'
  BY DEF PutMessage, DeleteMessage
<1>2. UNCHANGED store => StorageTypeOK'
  BY DEF store
<1>3. ASSUME NEW n \in Node, PutNode(n) \/ InsertVector(n) \/ DeleteVector(n)
      PROVE  StorageTypeOK'
  <2>1. CASE PutNode(n)
    BY <2>1 DEF PutNode
  <2>2. CASE InsertVector(n)
    BY <2>2 DEF InsertVector
  <2>3. CASE DeleteVector(n)
    BY <2>3 DEF DeleteVector
  <2>4. QED
    BY <1>3, <2>1, <2>2, <2>3
<1>4. ASSUME NEW n \in Node, NEW found \in BOOLEAN, NEW attached \in SUBSET Edge,
             DeleteNode(n, found, attached)
      PROVE  StorageTypeOK'
  <2>1. Cardinality(attached) \in Nat
    BY NodesFinite, FS_Subset, FS_CardinalityType
  <2>2. CASE ~found
    BY <1>2, <1>4, <2>2 DEF DeleteNode
  <2>3. CASE found
    <3>1. /\ nodes' \subseteq Node /\ rows' \subseteq nodes' /\ embedded' \subseteq nodes'
          /\ tombstoned' \subseteq nodes' /\ edges' \subseteq Edge /\ messages' \subseteq Msg
      BY <1>4, <2>3 DEF DeleteNode
    <3>2. nodeCount' \in Int /\ edgeCount' \in Int
      BY <1>4, <2>1, <2>3 DEF DeleteNode
    <3>3. crossed' \subseteq {"node", "edge"}
      BY <1>4, <2>3 DEF DeleteNode
    <3>4. QED
      BY <3>1, <3>2, <3>3
  <2>4. QED
    BY <2>2, <2>3
<1>5. ASSUME NEW e \in Edge, NEW b \in BOOLEAN, PutEdge(e, b) \/ UpdateEdge(e, b) \/ DeleteEdge(e, b)
      PROVE  StorageTypeOK'
  <2>1. CASE PutEdge(e, b)
    BY <2>1 DEF PutEdge, EdgeCrossing
  <2>2. CASE UpdateEdge(e, b)
    BY <1>2, <2>2 DEF UpdateEdge, EdgeCrossing
  <2>3. CASE DeleteEdge(e, b)
    <3>1. CASE b
      <4>1. /\ edges' \subseteq edges /\ edgeCount' = edgeCount - 1
            /\ UNCHANGED <<messages, nodes, rows, embedded, tombstoned, nodeCount>>
        BY <2>3, <3>1 DEF DeleteEdge
      <4>2. crossed' \subseteq {"node", "edge"}
        BY <2>3, <3>1 DEF DeleteEdge, EdgeCrossing
      <4>3. QED
        BY <4>1, <4>2
    <3>2. CASE ~b
      BY <1>2, <2>3, <3>2 DEF DeleteEdge
    <3>3. QED
      BY <3>1, <3>2
  <2>4. QED
    BY <1>5, <2>1, <2>2, <2>3
<1>6. QED
  BY <1>1, <1>2, <1>3, <1>4, <1>5

(* Reading a pair changes nothing but what the call knows of it.           *)
LEMMA ReadMoves ==
  ASSUME TypeInv, NEW p \in Proc, ReadPair(p)
  PROVE  Moves(p) /\ StorageTypeOK'
<1> DEFINE l == local[p]
           new == [l EXCEPT !.tx = IF Head(l.work) \in edges THEN "found" ELSE "absent"]
<1>1. l \in Local /\ LocalOK(p, l) /\ StorageTypeOK
  BY DEF TypeInv, TypeOK
<1>2. l.pc \in EdgePC /\ l.work # <<>> /\ Become(p, new) /\ UNCHANGED store
  BY DEF ReadPair
<1>3. new \in Local
  BY <1>1 DEF Local
<1>4. LocalOK(p, new)
  BY <1>1, <1>2 DEF LocalOK, Local, WritePC, ForgetPC, EdgePC
<1>5. QED
  BY <1>1, <1>2, <1>3, <1>4, StorageTyped DEF Moves

LEMMA WriteMoves ==
  ASSUME TypeInv, NEW p \in Proc, WriteStart(p) \/ Write(p)
  PROVE  Moves(p) /\ StorageTypeOK'
<1> DEFINE l == local[p]
<1>l. l \in Local /\ LocalOK(p, l)
  BY DEF TypeInv, TypeOK
<1>m. minted \in 0..MaxMsg /\ StorageTypeOK
  BY DEF TypeInv, TypeOK
<1>n. ASSUME l.pc \in WritePC
      PROVE  /\ l.msg \in Msg
             /\ \A i \in Chunk : <<l.msg, i>> \in Node
  BY <1>l, <1>m, <1>n, StorageAssumption DEF LocalOK, Msg, Node
<1>1. CASE WriteStart(p)
  <2>1. PICK c \in Chunk :
          Become(p, [Idle EXCEPT !.pc = "putMessage", !.msg = minted + 1, !.len = c])
    BY <1>1 DEF WriteStart
  <2> DEFINE new == [Idle EXCEPT !.pc = "putMessage", !.msg = minted + 1, !.len = c]
  <2>2. minted < MaxMsg /\ p \in Writers /\ UNCHANGED store
    BY <1>1 DEF WriteStart
  <2>i. minted + 1 \in Msg /\ minted + 1 \in 0..MaxMsg /\ c \in 0..MaxChunks
    BY <2>2, <1>m, StorageAssumption DEF Msg, Chunk
  <2>3. new \in Local
    BY <2>i, IdleType DEF Local, WritePC
  <2>4. LocalOK(p, new)
    BY <2>2, <2>i DEF LocalOK, Idle, WritePC, ForgetPC, EdgePC
  <2>5. QED
    BY <2>1, <2>2, <2>3, <2>4, <1>m, StorageTyped DEF Moves
<1>2. CASE WritePutMessage(p)
  <2> DEFINE new == [l EXCEPT !.pc = "putNode", !.at = 1]
  <2>1. l.pc = "putMessage" /\ PutMessage(l.msg) /\ Become(p, new)
    BY <1>2 DEF WritePutMessage, At
  <2>i. 1 \in 0..MaxChunks
    BY StorageAssumption
  <2>2. new \in Local
    BY <1>l, <2>i DEF Local, WritePC
  <2>3. LocalOK(p, new)
    BY <1>l, <2>1, StorageAssumption DEF LocalOK, Local, WritePC, ForgetPC, EdgePC, Chunk
  <2>4. QED
    BY <2>1, <2>2, <2>3, <1>m, <1>n, StorageTyped DEF Moves, WritePC
<1>3. CASE WritePutNode(p)
  <2> DEFINE new == [l EXCEPT !.pc = "insert"]
  <2>1. l.pc = "putNode" /\ PutNode(<<l.msg, l.at>>) /\ Become(p, new)
    BY <1>3 DEF WritePutNode, At
  <2>2. new \in Local
    BY <1>l, <2>1 DEF Local, WritePC
  <2>3. LocalOK(p, new)
    BY <1>l, <2>1 DEF LocalOK, Local, WritePC, ForgetPC, EdgePC
  <2>4. l.at \in Chunk
    BY <1>l, <2>1, StorageAssumption DEF LocalOK, Chunk, WritePC, Local
  <2>5. QED
    BY <2>1, <2>2, <2>3, <2>4, <1>m, <1>n, StorageTyped DEF Moves, WritePC
<1>4. CASE WriteInsert(p)
  <2> DEFINE pairs == [i \in 1..l.len - 1 |-> <<<<l.msg, i>>, <<l.msg, i + 1>>>>]
             new == IF l.at < l.len
                    THEN [l EXCEPT !.pc = "putNode", !.at = @ + 1]
                    ELSE [l EXCEPT !.pc = "link", !.work = BothWays(pairs)]
  <2>1. l.pc = "insert" /\ InsertVector(<<l.msg, l.at>>) /\ Become(p, new)
    BY <1>4 DEF WriteInsert
  <2>2. l.at \in Chunk /\ l.len \in Chunk /\ l.at \in 1..l.len
    BY <1>l, <2>1, StorageAssumption DEF LocalOK, WritePC, Chunk, Local
  <2>3. pairs \in Seq(Edge)
    <3>1. \A i \in 1..l.len - 1 : i \in Chunk /\ i + 1 \in Chunk
      BY <2>2, StorageAssumption DEF Chunk
    <3>2. \A i \in 1..l.len - 1 : <<<<l.msg, i>>, <<l.msg, i + 1>>>> \in Edge
      BY <3>1, <2>1, <1>n DEF Edge, WritePC
    <3>3. l.len - 1 \in Nat
      BY <2>2, StorageAssumption DEF Chunk
    <3>4. QED
      BY <3>2, <3>3
  <2>4. BothWays(pairs) \in Seq(Edge)
    BY <2>3, BothWaysType
  <2>i. l.at < l.len => l.at + 1 \in 0..MaxChunks
    BY <2>2, StorageAssumption DEF Chunk
  <2>5. new \in Local
    <3>1. CASE l.at < l.len
      BY <3>1, <1>l, <2>i DEF Local, WritePC
    <3>2. CASE ~(l.at < l.len)
      BY <3>2, <1>l, <2>4 DEF Local, WritePC
    <3>3. QED
      BY <3>1, <3>2
  <2>6. LocalOK(p, new)
    BY <1>l, <2>1, <2>2, StorageAssumption DEF LocalOK, Local, WritePC, ForgetPC, EdgePC, Chunk
  <2>7. QED
    BY <2>1, <2>2, <2>5, <2>6, <1>m, <1>n, StorageTyped DEF Moves, WritePC
<1>5. CASE WritePutEdge(p)
  <2> DEFINE new == [l EXCEPT !.work = Tail(@), !.tx = "closed"]
  <2>1. /\ l.pc \in {"link", "linkRecent"} /\ l.work # <<>>
        /\ PutEdge(Head(l.work), Found(p)) /\ Become(p, new) /\ Found(p) \in BOOLEAN
    BY <1>5, <1>l DEF WritePutEdge, Opened, Found, LocalOK
  <2>2. Head(l.work) \in Edge /\ Tail(l.work) \in Seq(Edge)
    BY <1>l, <2>1, HeadTailProperties DEF Local
  <2>3. new \in Local
    BY <1>l, <2>2 DEF Local
  <2>4. LocalOK(p, new)
    BY <1>l, <2>1 DEF LocalOK, Local, WritePC, ForgetPC, EdgePC
  <2>5. QED
    BY <2>1, <2>2, <2>3, <2>4, <1>m, StorageTyped DEF Moves
<1>6. CASE WriteRecent(p)
  <2>1. /\ l.pc = "link" /\ l.work = <<>>
        /\ UNCHANGED store
        /\ \E since \in 1..l.msg : \E recent \in RecentNodeIDs(since, l.msg) :
             Become(p, [l EXCEPT !.pc = "linkRecent",
                                 !.work = BothWays([i \in DOMAIN recent |->
                                                       <<<<l.msg, 1>>, recent[i]>>])])
    BY <1>6 DEF WriteRecent
  <2>s. PICK since \in 1..l.msg : \E recent \in RecentNodeIDs(since, l.msg) :
             Become(p, [l EXCEPT !.pc = "linkRecent",
                                 !.work = BothWays([i \in DOMAIN recent |->
                                                       <<<<l.msg, 1>>, recent[i]>>])])
    BY <2>1
  <2>2. PICK recent \in RecentNodeIDs(since, l.msg) :
             Become(p, [l EXCEPT !.pc = "linkRecent",
                                 !.work = BothWays([i \in DOMAIN recent |->
                                                       <<<<l.msg, 1>>, recent[i]>>])])
    BY <2>s
  <2> DEFINE pairs == [i \in DOMAIN recent |-> <<<<l.msg, 1>>, recent[i]>>]
             new == [l EXCEPT !.pc = "linkRecent", !.work = BothWays(pairs)]
  <2>3. rows \subseteq Node
    BY <1>m DEF StorageTypeOK
  <2>4. recent \in Seq(Node)
    BY <2>2, <2>3, RecentType, SeqMonotonic
  <2>5. pairs \in Seq(Edge)
    <3>1. \A i \in 1..Len(recent) : recent[i] \in Node
      BY <2>4, ElementOfSeq
    <3>2. <<l.msg, 1>> \in Node
      BY <2>1, <1>n, StorageAssumption DEF WritePC, Chunk
    <3>3. DOMAIN recent = 1..Len(recent) /\ Len(recent) \in Nat
      BY <2>4, LenProperties
    <3>4. QED
      BY <3>1, <3>2, <3>3 DEF Edge
  <2>6. BothWays(pairs) \in Seq(Edge)
    BY <2>5, BothWaysType
  <2>7. new \in Local
    BY <1>l, <2>6 DEF Local, WritePC
  <2>8. LocalOK(p, new)
    <3>1. l.tx = "closed"
      BY <1>l, <2>1 DEF LocalOK
    <3>2. /\ new.pc = "linkRecent" /\ new.msg = l.msg /\ new.len = l.len /\ new.tx = l.tx
          /\ new.kind = l.kind /\ new.visit = l.visit
      BY <1>l DEF Local
    <3> HIDE DEF new
    <3>3. QED
      BY <1>l, <2>1, <3>1, <3>2 DEF LocalOK, WritePC, ForgetPC
  <2>9. QED
    BY <2>1, <2>2, <2>7, <2>8, <1>m, StorageTyped DEF Moves
<1>7. CASE WriteReturn(p)
  BY <1>7, <1>m, IdleMoves, StorageTyped DEF WriteReturn
<1>8. QED
  BY <1>1, <1>2, <1>3, <1>4, <1>5, <1>6, <1>7 DEF Write

(* One reinforcement done, the call goes on with the next one.              *)
LEMMA EdgeDoneType ==
  ASSUME NEW p \in Proc, NEW l \in Local, l.work # <<>>, l.kind # "none",
         l.kind = "CoTraversal" => \A q \in l.visit : Len(q) > 1
  PROVE  EdgeDone(l) \in Local /\ LocalOK(p, EdgeDone(l))
<1>1. l.work \in Seq(Edge)
  BY DEF Local
<1>2. Tail(l.work) \in Seq(Edge) /\ (Len(l.work) > 1 => Tail(l.work) # <<>>)
  <2>1. /\ Tail(l.work) \in Seq(Edge)
        /\ Len(Tail(l.work)) = Len(l.work) - 1
    BY <1>1, HeadTailProperties
  <2>2. Len(l.work) \in Nat
    BY <1>1
  <2>3. Len(l.work) > 1 => Len(Tail(l.work)) > 0
    BY <2>1, <2>2
  <2>4. \A s \in Seq(Edge) : Len(s) > 0 => s # <<>>
    OBVIOUS
  <2>5. QED
    BY <2>1, <2>3, <2>4
<1>3. EdgeDone(l) \in Local
  BY <1>2 DEF EdgeDone, Local, RecallPC
<1>4. l.kind = "CoRetrieval" \/ l.kind = "CoTraversal"
  BY DEF Local
<1>5. LocalOK(p, EdgeDone(l))
  BY <1>2, <1>4 DEF EdgeDone, LocalOK, Local, WritePC, ForgetPC, EdgePC
<1>6. QED
  BY <1>3, <1>5

LEMMA RecallMoves ==
  ASSUME TypeInv, NEW p \in Proc, RecallStart(p) \/ Recall(p)
  PROVE  Moves(p) /\ StorageTypeOK'
<1> DEFINE l == local[p]
<1>l. l \in Local /\ LocalOK(p, l)
  BY DEF TypeInv, TypeOK
<1>m. StorageTypeOK
  BY DEF TypeInv, TypeOK
<1>e. <<>> \in Seq(Node) /\ <<>> \in Seq(Edge)
  OBVIOUS
<1>w. ASSUME l.pc \in {"getEdge", "putEdge", "updateEdge", "pruneEdge", "pruneRead"}
      PROVE  /\ l.work # <<>>
             /\ Head(l.work) \in Edge
             /\ l.pc # "pruneRead" => Moves(p) \/ ~Become(p, EdgeDone(l))
  <2>1. l.work # <<>> /\ l.work \in Seq(Edge)
    BY <1>l, <1>w DEF LocalOK, Local
  <2>2. ASSUME l.pc # "pruneRead"
        PROVE  EdgeDone(l) \in Local /\ LocalOK(p, EdgeDone(l))
    BY <1>l, <1>w, <2>1, <2>2, EdgeDoneType DEF LocalOK
  <2>3. QED
    BY <2>1, <2>2, HeadTailProperties DEF Moves
<1>1. CASE RecallStart(p)
  <2>1. PICK hits \in SUBSET Searchable : Become(p, [Idle EXCEPT !.pc = "bump", !.pend = hits])
    BY <1>1 DEF RecallStart
  <2> DEFINE new == [Idle EXCEPT !.pc = "bump", !.pend = hits]
  <2>2. hits \subseteq Node
    BY <1>m DEF StorageTypeOK, Searchable
  <2>3. new \in Local
    BY <2>2, IdleType DEF Local, RecallPC
  <2>4. LocalOK(p, new)
    BY DEF LocalOK, Idle, WritePC, ForgetPC, EdgePC
  <2>5. UNCHANGED store
    BY <1>1 DEF RecallStart
  <2>6. QED
    BY <2>1, <2>3, <2>4, <2>5, <1>m, StorageTyped DEF Moves
<1>2. CASE RecallBump(p)
  <2>1. PICK n \in l.pend :
          Become(p, [l EXCEPT !.pend = @ \ {n}, !.cands = @ \union ({n} \intersect nodes)])
    BY <1>2 DEF RecallBump
  <2> DEFINE new == [l EXCEPT !.pend = @ \ {n}, !.cands = @ \union ({n} \intersect nodes)]
  <2>2. new \in Local
    BY <1>l DEF Local
  <2>3. LocalOK(p, new)
    BY <1>l DEF LocalOK, Local
  <2>4. UNCHANGED store
    BY <1>2 DEF RecallBump
  <2>5. QED
    BY <2>1, <2>2, <2>3, <2>4, <1>m, StorageTyped DEF Moves
<1>3. CASE RecallSeeds(p)
  <2> DEFINE k == IF SeedK < Cardinality(l.cands) THEN SeedK ELSE Cardinality(l.cands)
             ranks == {r \in (1..k) \X (1..k) : r[1] < r[2]}
  <2>1. UNCHANGED store /\ l.pc = "bump"
    BY <1>3 DEF RecallSeeds
  <2>2. CASE Become(p, Idle)
    BY <2>1, <2>2, <1>m, IdleMoves, StorageTyped
  <2>3. ASSUME NEW seeds \in kSubset(k, l.cands), NEW order \in SetToSeqs(seeds),
               NEW pairs \in SUBSET {<<order[r[1]], order[r[2]]>> : r \in ranks},
               NEW turns \in SetToSeqs(pairs),
               Become(p, [l EXCEPT
                 !.pc = IF turns = <<>> THEN "expand" ELSE "getEdge",
                 !.kind = "CoRetrieval",
                 !.work = BothWays(turns),
                 !.queue = [i \in 1..k |-> <<order[i]>>],
                 !.visit = {<<s>> : s \in seeds}])
        PROVE  Moves(p) /\ StorageTypeOK'
    <3> DEFINE queue == [i \in 1..k |-> <<order[i]>>]
               visit == {<<s>> : s \in seeds}
               new == [l EXCEPT
                 !.pc = IF turns = <<>> THEN "expand" ELSE "getEdge",
                 !.kind = "CoRetrieval",
                 !.work = BothWays(turns),
                 !.queue = queue,
                 !.visit = visit]
    <3>1. l.cands \subseteq Node
      BY <1>l DEF Local
    <3>2. k \in Nat
      BY <3>1, NodesFinite, FS_Subset, FS_CardinalityType, ServiceAssumption
    <3>3. turns \in Seq(Edge) /\ queue \in Seq(Seq(Node)) /\ visit \subseteq Seq(Node)
      <4> HIDE DEF k
      <4>1. seeds \subseteq Node /\ Cardinality(seeds) = k
        BY <3>1 DEF kSubset
      <4>2. \A i \in 1..k : order[i] \in Node
        BY <4>1 DEF SetToSeqs
      <4>3. pairs \subseteq Edge
        BY <4>2 DEF Edge
      <4>4. turns \in Seq(Edge)
        BY <4>3, NodesFinite, OrderingIsSeq, SeqMonotonic
      <4>5. \A i \in 1..k : <<order[i]>> \in Seq(Node)
        BY <4>2
      <4>6. queue \in Seq(Seq(Node))
        BY <4>5, <3>2
      <4>7. \A s \in seeds : <<s>> \in Seq(Node)
        BY <4>1
      <4>8. QED
        BY <4>4, <4>6, <4>7
    <3>4. /\ BothWays(turns) \in Seq(Edge)
          /\ turns # <<>> => BothWays(turns) # <<>>
      <4>1. BothWays(turns) \in Seq(Edge) /\ Len(BothWays(turns)) = 2 * Len(turns)
        BY <3>3, BothWaysType
      <4>2. turns # <<>> => Len(turns) \in Nat /\ Len(turns) > 0
        BY <3>3
      <4>3. turns # <<>> => Len(BothWays(turns)) > 0
        BY <4>1, <4>2
      <4>4. \A s \in Seq(Edge) : Len(s) > 0 => s # <<>>
        OBVIOUS
      <4>5. QED
        BY <4>1, <4>3, <4>4
    <3>5. new \in Local
      BY <1>l, <3>3, <3>4 DEF Local, RecallPC
    <3>6. LocalOK(p, new)
      <4>1. l.tx = "closed"
        BY <1>l, <2>1 DEF LocalOK, EdgePC
      <4>2. /\ new.pc = IF turns = <<>> THEN "expand" ELSE "getEdge"
            /\ new.kind = "CoRetrieval" /\ new.work = BothWays(turns) /\ new.tx = l.tx
        BY <1>l DEF Local
      <4> HIDE DEF new
      <4>3. QED
        BY <3>4, <4>1, <4>2 DEF LocalOK, WritePC, ForgetPC
    <3>7. QED
      BY <2>1, <2>3, <3>5, <3>6, <1>m, StorageTyped DEF Moves
  <2>4. QED
    BY <1>3, <2>2, <2>3 DEF RecallSeeds
<1>4. CASE EdgeGet(p)
  <2>1. l.pc = "getEdge" /\ UNCHANGED store
    BY <1>4 DEF EdgeGet
  <2>2. ASSUME NEW pc \in {"updateEdge", "putEdge"}, Become(p, [l EXCEPT !.pc = pc])
        PROVE  Moves(p)
    <3>1. [l EXCEPT !.pc = pc] \in Local
      BY <1>l DEF Local, RecallPC
    <3>2. LocalOK(p, [l EXCEPT !.pc = pc])
      BY <1>l, <2>1 DEF LocalOK, Local, WritePC, ForgetPC, EdgePC
    <3>3. QED
      BY <2>2, <3>1, <3>2 DEF Moves
  <2>3. QED
    BY <1>4, <1>w, <2>1, <2>2, <1>m, StorageTyped DEF EdgeGet
<1>5. CASE EdgePut(p)
  <2>1. /\ l.pc = "putEdge" /\ PutEdge(Head(l.work), Found(p)) /\ Become(p, EdgeDone(l))
        /\ Found(p) \in BOOLEAN
    BY <1>5 DEF EdgePut, At, Found
  <2>2. QED
    BY <1>w, <2>1, <1>m, StorageTyped
<1>6. CASE EdgeUpdate(p)
  <2>1. l.pc = "updateEdge"
    BY <1>6 DEF EdgeUpdate
  <2>2. ASSUME NEW pc \in {"notFound", "pruneEdge"}, Become(p, [l EXCEPT !.pc = pc, !.tx = "closed"])
        PROVE  Moves(p)
    <3>1. [l EXCEPT !.pc = pc, !.tx = "closed"] \in Local
      BY <1>l DEF Local, RecallPC
    <3>2. LocalOK(p, [l EXCEPT !.pc = pc, !.tx = "closed"])
      BY <1>l, <2>1, <2>2 DEF LocalOK, Local, WritePC, ForgetPC, EdgePC
    <3>3. QED
      BY <2>2, <3>1, <3>2 DEF Moves
  <2>3. QED
    BY <1>6, <1>w, <2>1, <2>2, <1>m, StorageTyped DEF EdgeUpdate
<1>7. CASE EdgePrune(p)
  <2>1. /\ l.pc = "pruneEdge" /\ DeleteEdge(Head(l.work), Found(p)) /\ Become(p, EdgeDone(l))
        /\ Found(p) \in BOOLEAN
    BY <1>7 DEF EdgePrune, At, Found
  <2>2. QED
    BY <1>w, <2>1, <1>m, StorageTyped
<1>8. CASE RecallFail(p)
  BY <1>8, <1>m, IdleMoves, StorageTyped DEF RecallFail
<1>9. CASE RecallNeighbors(p)
  <2> DEFINE f == Head(l.queue)
             found == IF Len(f) - 1 < MaxHops THEN Outbound(Last(f)) ELSE {}
             new == [l EXCEPT !.queue = Tail(@), !.path = f, !.incident = found]
  <2>1. l.pc = "expand" /\ l.queue # <<>> /\ Become(p, new) /\ UNCHANGED store
    BY <1>9 DEF RecallNeighbors
  <2>2. f \in Seq(Node) /\ Tail(l.queue) \in Seq(Seq(Node))
    <3>1. l.queue \in Seq(Seq(Node))
      BY <1>l DEF Local
    <3>2. QED
      BY <2>1, <3>1, HeadTailProperties
  <2>3. found \subseteq Edge
    BY <1>m DEF StorageTypeOK, Outbound
  <2>4. new \in Local
    BY <1>l, <2>2, <2>3 DEF Local
  <2>5. LocalOK(p, new)
    BY <1>l, <2>1 DEF LocalOK, Local, WritePC, ForgetPC, EdgePC
  <2>6. QED
    BY <2>1, <2>4, <2>5, <1>m, StorageTyped DEF Moves
<1>10. CASE RecallReadEdge(p)
  <2>1. PICK e \in l.incident :
          LET rest    == [l EXCEPT !.incident = @ \ {e}]
              newPath == Append(l.path, e[2])
          IN \/ Become(p, rest)
             \/ Become(p, [rest EXCEPT !.pc = "pruneRead", !.work = <<e>>])
             \/ Become(p, [rest EXCEPT !.visit = {q \in @ : Last(q) # e[2]} \union {newPath},
                                       !.queue = Append(@, newPath)])
    BY <1>10 DEF RecallReadEdge
  <2> DEFINE rest    == [l EXCEPT !.incident = @ \ {e}]
             newPath == Append(l.path, e[2])
             better  == [rest EXCEPT !.visit = {q \in @ : Last(q) # e[2]} \union {newPath},
                                     !.queue = Append(@, newPath)]
  <2>2. l.pc = "expand" /\ UNCHANGED store
    BY <1>10 DEF RecallReadEdge
  <2>3. rest \in Local /\ LocalOK(p, rest)
    <3>1. rest \in Local
      BY <1>l DEF Local
    <3>2. /\ rest.pc = l.pc /\ rest.msg = l.msg /\ rest.len = l.len /\ rest.at = l.at
          /\ rest.path = l.path /\ rest.work = l.work /\ rest.tx = l.tx
          /\ rest.kind = l.kind /\ rest.visit = l.visit
      BY <1>l DEF Local
    <3> HIDE DEF rest
    <3>3. QED
      BY <1>l, <3>1, <3>2 DEF LocalOK
  <2>4. CASE Become(p, rest)
    BY <2>2, <2>3, <2>4, <1>m, StorageTyped DEF Moves
  <2>5. CASE Become(p, [rest EXCEPT !.pc = "pruneRead", !.work = <<e>>])
    <3>1. <<e>> \in Seq(Edge)
      BY <1>l DEF Local
    <3>2. [rest EXCEPT !.pc = "pruneRead", !.work = <<e>>] \in Local
      BY <2>3, <3>1 DEF Local, RecallPC
    <3>3. LocalOK(p, [rest EXCEPT !.pc = "pruneRead", !.work = <<e>>])
      BY <2>2, <2>3 DEF LocalOK, Local, WritePC, ForgetPC, EdgePC
    <3>4. QED
      BY <2>2, <2>5, <3>2, <3>3, <1>m, StorageTyped DEF Moves
  <2>6. CASE Become(p, better)
    <3>1. l.path \in Seq(Node) /\ e[2] \in Node
      BY <1>l DEF Local, Edge
    <3>2. newPath \in Seq(Node)
      BY <3>1
    <3>3. Append(rest.queue, newPath) \in Seq(Seq(Node))
      <4>1. rest.queue \in Seq(Seq(Node))
        BY <2>3 DEF Local
      <4>2. QED
        BY <4>1, <3>2, AppendProperties
    <3>4. {q \in rest.visit : Last(q) # e[2]} \union {newPath} \in SUBSET Seq(Node)
      BY <2>3, <3>2 DEF Local
    <3>5. better \in Local
      BY <2>3, <3>3, <3>4 DEF Local
    <3>k. rest.kind # "CoTraversal"
      BY <1>l, <2>2 DEF Local, LocalOK
    <3>6. LocalOK(p, better)
      BY <3>k, <2>2, <2>3 DEF LocalOK, Local, WritePC, ForgetPC, EdgePC
    <3>7. QED
      BY <2>2, <2>6, <3>5, <3>6, <1>m, StorageTyped DEF Moves
  <2>7. QED
    BY <2>1, <2>4, <2>5, <2>6
<1>11. CASE RecallPruneRead(p)
  <2> DEFINE new == [l EXCEPT !.pc = "expand", !.work = <<>>, !.tx = "closed"]
  <2>1. /\ l.pc = "pruneRead" /\ DeleteEdge(Head(l.work), Found(p)) /\ Become(p, new)
        /\ Found(p) \in BOOLEAN
    BY <1>11 DEF RecallPruneRead, At, Found
  <2>2. new \in Local
    BY <1>l, <1>e DEF Local, RecallPC
  <2>3. LocalOK(p, new)
    BY <1>l, <2>1 DEF LocalOK, Local, WritePC, ForgetPC, EdgePC
  <2>4. QED
    BY <1>w, <2>1, <2>2, <2>3, <1>m, StorageTyped DEF Moves
<1>12. CASE RecallRank(p)
  <2> DEFINE ranked == {q \in l.visit : Last(q) \in l.cands \union nodes}
             k == IF SeedK < Cardinality(ranked) THEN SeedK ELSE Cardinality(ranked)
  <2>1. PICK results \in kSubset(k, ranked) :
          Become(p, [l EXCEPT !.pc = "traverse", !.kind = "CoTraversal", !.path = <<>>,
                              !.visit = {q \in results : Len(q) > 1}])
    BY <1>12 DEF RecallRank
  <2> DEFINE longer == {q \in results : Len(q) > 1}
             new == [l EXCEPT !.pc = "traverse", !.kind = "CoTraversal", !.path = <<>>,
                              !.visit = longer]
  <2>2. l.pc = "expand" /\ UNCHANGED store
    BY <1>12 DEF RecallRank
  <2>3. longer \subseteq Seq(Node)
    <3>1. results \subseteq l.visit
      BY DEF kSubset
    <3>2. QED
      BY <1>l, <3>1 DEF Local
  <2>4. new \in Local
    BY <1>l, <1>e, <2>3 DEF Local, RecallPC
  <2>5. LocalOK(p, new)
    BY <1>l, <2>2 DEF LocalOK, Local, WritePC, ForgetPC, EdgePC
  <2>6. QED
    BY <2>1, <2>2, <2>4, <2>5, <1>m, StorageTyped DEF Moves
<1>13. CASE RecallTraverse(p)
  <2>1. PICK q \in l.visit :
          Become(p, [l EXCEPT !.pc = "getEdge", !.visit = @ \ {q}, !.work = EdgesAlong(q)])
    BY <1>13 DEF RecallTraverse
  <2> DEFINE new == [l EXCEPT !.pc = "getEdge", !.visit = @ \ {q}, !.work = EdgesAlong(q)]
  <2>2. l.pc = "traverse" /\ UNCHANGED store
    BY <1>13 DEF RecallTraverse, At
  <2>3. EdgesAlong(q) \in Seq(Edge) /\ EdgesAlong(q) # <<>>
    <3>1. q \in Seq(Node) /\ Len(q) > 1
      BY <1>l, <2>2 DEF Local, LocalOK
    <3>2. QED
      BY <3>1, EdgesAlongType
  <2>4. new \in Local
    BY <1>l, <2>3 DEF Local, RecallPC
  <2>5. LocalOK(p, new)
    BY <1>l, <2>2, <2>3 DEF LocalOK, Local, WritePC, ForgetPC, EdgePC
  <2>6. QED
    BY <2>1, <2>2, <2>4, <2>5, <1>m, StorageTyped DEF Moves
<1>14. CASE RecallReturn(p)
  BY <1>14, <1>m, IdleMoves, StorageTyped DEF RecallReturn
<1>15. QED
  BY <1>1, <1>2, <1>3, <1>4, <1>5, <1>6, <1>7, <1>8, <1>9, <1>10, <1>11, <1>12, <1>13, <1>14
     DEF Recall

LEMMA ForgetMoves ==
  ASSUME TypeInv, NEW p \in Proc, ForgetStart(p) \/ Forget(p)
  PROVE  Moves(p) /\ StorageTypeOK'
<1> DEFINE l == local[p]
<1>l. l \in Local /\ LocalOK(p, l)
  BY DEF TypeInv, TypeOK
<1>m. StorageTypeOK
  BY DEF TypeInv, TypeOK
<1>e. <<>> \in Seq(Node) /\ <<>> \in Seq(Edge)
  OBVIOUS
<1>n. ASSUME l.pc \in {"inbound", "purge", "deleteNode"}
      PROVE  l.path[1] \in Node
  BY <1>l, <1>n DEF Local, LocalOK
<1>1. CASE ForgetStart(p)
  <2>1. ASSUME NEW S \in SUBSET Msg,
               Become(p, [Idle EXCEPT !.pc = "forgetMessage", !.msgs = S])
        PROVE  Moves(p)
    <3> DEFINE new == [Idle EXCEPT !.pc = "forgetMessage", !.msgs = S]
    <3>1. new \in Local
      BY IdleType DEF Local, ForgetPC
    <3>2. LocalOK(p, new)
      BY <1>1 DEF LocalOK, Idle, WritePC, ForgetPC, EdgePC, ForgetStart
    <3>3. QED
      BY <2>1, <3>1, <3>2 DEF Moves
  <2>2. \A m \in Msg : {m} \in SUBSET Msg
    OBVIOUS
  <2>3. \A t : {m \in messages : m < t} \in SUBSET Msg
    BY <1>m DEF StorageTypeOK
  <2>4. Moves(p)
    BY <1>1, <2>1, <2>2, <2>3 DEF ForgetStart
  <2>5. UNCHANGED store
    BY <1>1 DEF ForgetStart
  <2>6. QED
    BY <2>4, <2>5, <1>m, StorageTyped
<1>2. CASE ForgetNodes(p)
  <2>1. PICK m \in l.msgs :
          Become(p, [l EXCEPT !.pc = "forgetNode", !.msg = m, !.msgs = @ \ {m}, !.pend = NodesOf(m)])
    BY <1>2 DEF ForgetNodes
  <2> DEFINE new == [l EXCEPT !.pc = "forgetNode", !.msg = m, !.msgs = @ \ {m}, !.pend = NodesOf(m)]
  <2>2. l.pc = "forgetMessage" /\ UNCHANGED store
    BY <1>2 DEF ForgetNodes, At
  <2>3. m \in Msg /\ m \in 0..MaxMsg /\ NodesOf(m) \subseteq Node
    BY <1>l, <1>m, StorageAssumption DEF Local, Msg, StorageTypeOK, NodesOf
  <2>4. new \in Local
    BY <1>l, <2>3 DEF Local, ForgetPC
  <2>5. LocalOK(p, new)
    BY <1>l, <2>2, <2>3 DEF LocalOK, Local, WritePC, ForgetPC, EdgePC
  <2>6. QED
    BY <2>1, <2>2, <2>4, <2>5, <1>m, StorageTyped DEF Moves
<1>3. CASE ForgetOutbound(p)
  <2>1. PICK n \in l.pend :
          Become(p, [l EXCEPT !.pc = "inbound", !.path = <<n>>, !.incident = Outbound(n)])
    BY <1>3 DEF ForgetOutbound
  <2> DEFINE new == [l EXCEPT !.pc = "inbound", !.path = <<n>>, !.incident = Outbound(n)]
  <2>2. l.pc = "forgetNode" /\ UNCHANGED store
    BY <1>3 DEF ForgetOutbound, At
  <2>3. <<n>> \in Seq(Node) /\ <<n>> # <<>> /\ Outbound(n) \subseteq Edge
    BY <1>l, <1>m DEF Local, StorageTypeOK, Outbound
  <2>4. new \in Local
    BY <1>l, <2>3 DEF Local, ForgetPC
  <2>5. LocalOK(p, new)
    BY <1>l, <2>2, <2>3 DEF LocalOK, Local, WritePC, ForgetPC, EdgePC
  <2>6. QED
    BY <2>1, <2>2, <2>4, <2>5, <1>m, StorageTyped DEF Moves
<1>4. CASE ForgetInbound(p)
  <2> DEFINE in == {e \in Inbound(l.path[1]) : Reversed(e) \notin l.incident}
             new == [l EXCEPT !.pc = "purge", !.incident = @ \union in]
  <2>1. l.pc = "inbound" /\ UNCHANGED store /\ Become(p, new)
    BY <1>4 DEF ForgetInbound
  <2>2. in \subseteq Edge
    BY <1>m DEF StorageTypeOK, Inbound
  <2>3. new \in Local
    BY <1>l, <2>2 DEF Local, ForgetPC
  <2>4. LocalOK(p, new)
    BY <1>l, <2>1 DEF LocalOK, Local, WritePC, ForgetPC, EdgePC
  <2>5. QED
    BY <2>1, <2>3, <2>4, <1>m, StorageTyped DEF Moves
<1>5. CASE ForgetReadPair(p) \/ ForgetPurgeEdge(p)
  <2>1. CASE ForgetReadPair(p)
    <3>1. PICK e \in l.incident :
            Become(p, [l EXCEPT !.incident = @ \ {e},
                                !.work = <<e>>,
                                !.tx = IF e \in edges THEN "found" ELSE "absent"])
      BY <2>1 DEF ForgetReadPair
    <3> DEFINE new == [l EXCEPT !.incident = @ \ {e},
                                !.work = <<e>>,
                                !.tx = IF e \in edges THEN "found" ELSE "absent"]
    <3>2. l.pc = "purge" /\ UNCHANGED store
      BY <2>1 DEF ForgetReadPair
    <3>3. <<e>> \in Seq(Edge) /\ <<e>> # <<>>
      BY <1>l DEF Local
    <3>4. new \in Local
      BY <1>l, <3>3 DEF Local
    <3>5. LocalOK(p, new)
      BY <1>l, <3>2, <3>3 DEF LocalOK, Local, WritePC, ForgetPC, EdgePC
    <3>6. QED
      BY <3>1, <3>2, <3>4, <3>5, <1>m, StorageTyped DEF Moves
  <2>2. CASE ForgetPurgeEdge(p)
    <3> DEFINE new == [l EXCEPT !.work = <<>>, !.tx = "closed"]
    <3>1. /\ l.pc = "purge" /\ l.tx # "closed" /\ DeleteEdge(Head(l.work), Found(p))
          /\ Become(p, new) /\ Found(p) \in BOOLEAN
      BY <2>2 DEF ForgetPurgeEdge, At, Opened, Found
    <3>2. Head(l.work) \in Edge
      BY <1>l, <3>1, HeadTailProperties DEF Local, LocalOK
    <3>3. new \in Local
      BY <1>l, <1>e DEF Local
    <3>4. LocalOK(p, new)
      BY <1>l, <3>1 DEF LocalOK, Local, WritePC, ForgetPC, EdgePC
    <3>5. QED
      BY <3>1, <3>2, <3>3, <3>4, <1>m, StorageTyped DEF Moves
  <2>3. QED
    BY <1>5, <2>1, <2>2
<1>6. CASE ForgetVector(p)
  <2>1. l.pc = "purge" /\ DeleteVector(l.path[1]) /\ Become(p, [l EXCEPT !.pc = "deleteNode"])
    BY <1>6 DEF ForgetVector, At
  <2>2. [l EXCEPT !.pc = "deleteNode"] \in Local
    BY <1>l DEF Local, ForgetPC
  <2>3. LocalOK(p, [l EXCEPT !.pc = "deleteNode"])
    BY <1>l, <2>1 DEF LocalOK, Local, WritePC, ForgetPC, EdgePC
  <2>4. QED
    BY <2>1, <2>2, <2>3, <1>m, <1>n, StorageTyped DEF Moves
<1>7. CASE ForgetReadNode(p) \/ ForgetDeleteNode(p)
  <2>1. CASE ForgetReadNode(p)
    <3> DEFINE new == [l EXCEPT !.tx = IF l.path[1] \in nodes THEN "found" ELSE "absent",
                                !.incident = Incident(l.path[1])]
    <3>1. l.pc = "deleteNode" /\ Become(p, new) /\ UNCHANGED store
      BY <2>1 DEF ForgetReadNode
    <3>2. Incident(l.path[1]) \subseteq Edge
      BY <1>m DEF StorageTypeOK, Incident, Outbound, Inbound
    <3>3. new \in Local
      BY <1>l, <3>2 DEF Local
    <3>4. LocalOK(p, new)
      BY <1>l, <3>1 DEF LocalOK, Local, WritePC, ForgetPC, EdgePC
    <3>5. QED
      BY <3>1, <3>3, <3>4, <1>m, StorageTyped DEF Moves
  <2>2. CASE ForgetDeleteNode(p)
    <3> DEFINE new == [l EXCEPT !.pc = "forgetNode", !.pend = @ \ {l.path[1]}, !.path = <<>>,
                                !.incident = {}, !.tx = "closed"]
    <3>1. /\ l.pc = "deleteNode" /\ DeleteNode(l.path[1], Found(p), l.incident)
          /\ Become(p, new) /\ Found(p) \in BOOLEAN
      BY <2>2 DEF ForgetDeleteNode, Found
    <3>2. new \in Local /\ l.incident \in SUBSET Edge
      BY <1>l, <1>e DEF Local, ForgetPC
    <3>3. LocalOK(p, new)
      BY <1>l, <3>1 DEF LocalOK, Local, WritePC, ForgetPC, EdgePC
    <3>4. QED
      BY <3>1, <3>2, <3>3, <1>m, <1>n, StorageTyped DEF Moves
  <2>3. QED
    BY <1>7, <2>1, <2>2
<1>8. CASE ForgetDeleteMessage(p)
  <2> DEFINE new == [l EXCEPT !.pc = "forgetMessage", !.msg = 0]
  <2>1. l.pc = "forgetNode" /\ DeleteMessage(l.msg) /\ Become(p, new)
    BY <1>8 DEF ForgetDeleteMessage, At
  <2>2. l.msg \in Msg /\ 0 \in 0..MaxMsg
    BY <1>l, <2>1, StorageAssumption DEF LocalOK, ForgetPC
  <2>3. new \in Local
    BY <1>l, <2>2 DEF Local, ForgetPC
  <2>4. LocalOK(p, new)
    BY <1>l, <2>1 DEF LocalOK, Local, WritePC, ForgetPC, EdgePC
  <2>5. QED
    BY <2>1, <2>2, <2>3, <2>4, <1>m, StorageTyped DEF Moves
<1>9. CASE ForgetReturn(p)
  BY <1>9, <1>m, IdleMoves, StorageTyped DEF ForgetReturn
<1>10. QED
  BY <1>1, <1>2, <1>3, <1>4, <1>5, <1>6, <1>7, <1>8, <1>9 DEF Forget

-----------------------------------------------------------------------------
(* Type correctness.                                                       *)

(* Who moves the counters of calls and the history variables.              *)
LEMMA WhoRecords ==
  ASSUME NEW p \in Proc, Start(p) \/ Continue(p) \/ Abort(p)
  PROVE  /\ UNCHANGED begun \/ WriteStart(p) \/ RecallStart(p) \/ ForgetStart(p)
         /\ UNCHANGED history \/ WriteReturn(p) \/ ForgetNodes(p)
<1>1. CASE Start(p)
  BY <1>1 DEF Start, WriteStart, RecallStart, ForgetStart
<1>2. CASE Write(p)
  BY <1>2 DEF Write, WritePutMessage, WritePutNode, WriteInsert, WritePutEdge, WriteRecent,
              WriteReturn, begun
<1>3. CASE Recall(p)
  BY <1>3 DEF Recall, RecallBump, RecallSeeds, EdgeGet, EdgePut, EdgeUpdate, EdgePrune,
              RecallFail, RecallNeighbors, RecallReadEdge, RecallPruneRead, RecallRank,
              RecallTraverse, RecallReturn
<1>4. CASE Forget(p)
  BY <1>4 DEF Forget, ForgetNodes, ForgetOutbound, ForgetInbound, ForgetPurgeEdge,
              ForgetReadPair, ForgetReadNode, ForgetVector, ForgetDeleteNode,
              ForgetDeleteMessage, ForgetReturn, begun
<1>5. CASE Abort(p) \/ ReadPair(p)
  BY <1>5 DEF Abort, ReadPair
<1>6. QED
  BY <1>1, <1>2, <1>3, <1>4, <1>5 DEF Continue

LEMMA NextTyped ==
  ASSUME TypeInv, [Next]_vars
  PROVE  TypeInv'
<1>1. CASE UNCHANGED vars
  BY <1>1 DEF TypeInv, TypeOK, StorageTypeOK, vars
<1>2. ASSUME NEW p \in Proc, Moves(p)
      PROVE  local' \in [Proc -> Local] /\ \A q \in Proc : LocalOK(q, local'[q])
  <2>1. PICK l \in Local : Become(p, l) /\ LocalOK(p, l)
    BY <1>2 DEF Moves
  <2>2. local \in [Proc -> Local] /\ \A q \in Proc : LocalOK(q, local[q])
    BY DEF TypeInv, TypeOK
  <2>3. local' = [local EXCEPT ![p] = l]
    BY <2>1 DEF Become
  <2>4. QED
    BY <2>1, <2>2, <2>3
<1>3. ASSUME NEW p \in Proc, Start(p) \/ Continue(p) \/ Abort(p)
      PROVE  TypeInv'
  <2>1. Moves(p) /\ StorageTypeOK'
    <3>1. CASE Start(p) \/ Continue(p)
      BY <3>1, WriteMoves, RecallMoves, ForgetMoves, ReadMoves DEF Start, Continue
    <3>2. CASE Abort(p)
      BY <3>2, IdleMoves, StorageTyped DEF Abort, TypeInv, TypeOK
    <3>3. QED
      BY <1>3, <3>1, <3>2
  <2>2. minted' \in 0..MaxMsg /\ calls' \in 0..MaxCalls
    <3>1. minted \in 0..MaxMsg /\ calls \in 0..MaxCalls /\ MaxMsg \in Nat /\ MaxCalls \in Nat
      BY StorageAssumption, ServiceAssumption DEF TypeInv, TypeOK
    <3>2. CASE UNCHANGED begun
      BY <3>1, <3>2 DEF begun
    <3>3. CASE WriteStart(p)
      <4>1. minted < MaxMsg /\ minted' = minted + 1 /\ calls' = calls
        BY <3>3 DEF WriteStart
      <4>2. QED
        BY <3>1, <4>1
    <3>4. CASE RecallStart(p) \/ ForgetStart(p)
      <4>1. calls < MaxCalls /\ calls' = calls + 1 /\ minted' = minted
        BY <3>4 DEF RecallStart, ForgetStart
      <4>2. QED
        BY <3>1, <4>1
    <3>5. QED
      BY <1>3, <3>2, <3>3, <3>4, WhoRecords
  <2>3. written' \subseteq Node /\ targeted' \subseteq Msg /\ raced' \subseteq Msg
    <3>1. /\ written \subseteq Node /\ targeted \subseteq Msg /\ raced \subseteq Msg
          /\ local[p] \in Local /\ LocalOK(p, local[p])
      BY DEF TypeInv, TypeOK
    <3>2. CASE UNCHANGED history
      BY <3>1, <3>2 DEF history
    <3>3. CASE WriteReturn(p)
      <4>1. local[p].msg \in Msg /\ local[p].len \in Chunk
        BY <3>1, <3>3 DEF WriteReturn, At, LocalOK, WritePC
      <4>2. QED
        BY <3>1, <3>3, <4>1 DEF WriteReturn, Node
    <3>4. CASE ForgetNodes(p)
      <4>1. local[p].msgs \subseteq Msg
        BY <3>1 DEF Local
      <4>2. QED
        BY <3>1, <3>4, <4>1 DEF ForgetNodes
    <3>5. QED
      BY <1>3, <3>2, <3>3, <3>4, WhoRecords
  <2>4. QED
    BY <1>2, <2>1, <2>2, <2>3 DEF TypeInv, TypeOK
<1>4. QED
  BY <1>1, <1>3 DEF Next, Rest

LEMMA TypeInvInit == Init => TypeInv
<1>1. ASSUME Init
      PROVE  TypeOK
  <2>1. StorageTypeOK
    BY <1>1 DEF Init, StorageInit, StorageTypeOK
  <2>2. minted \in 0..MaxMsg /\ calls \in 0..MaxCalls
    BY <1>1, StorageAssumption, ServiceAssumption DEF Init
  <2>3. QED
    BY <1>1, <2>1, <2>2, IdleType DEF Init, TypeOK
<1>2. \A p \in Proc : LocalOK(p, Idle)
  BY DEF LocalOK, Idle, WritePC, ForgetPC, EdgePC
<1>3. Init => \A p \in Proc : local[p] = Idle
  BY DEF Init
<1>4. QED
  BY <1>1, <1>2, <1>3 DEF TypeInv

(* A call's program counter says what its local state holds: the loops of  *)
(* write.go, recall.go and forget.go never take the head of an empty list. *)
THEOREM CallsWellFormed == Spec => []TypeInv
<1>1. TypeInv /\ [Next]_vars => TypeInv'
  BY NextTyped
<1>2. QED
  BY <1>1, TypeInvInit, PTL DEF Spec

(* Every variable keeps its type, through every interleaving of the calls  *)
(* of write.go, recall.go and forget.go.                                   *)
THEOREM TypeCorrect == Spec => []TypeOK
<1>1. TypeInv => TypeOK
  BY DEF TypeInv
<1>2. QED
  BY <1>1, CallsWellFormed, PTL

-----------------------------------------------------------------------------
(* What a step of one call does to the store and to the other calls.       *)

Step(p) == Start(p) \/ Continue(p) \/ Abort(p)

LEMMA StepMoves ==
  ASSUME TypeInv, NEW p \in Proc, Step(p)
  PROVE  Moves(p)
BY WriteMoves, RecallMoves, ForgetMoves, ReadMoves, IdleMoves DEF Step, Start, Continue, Abort

(* The calls of the other processes do not notice.                         *)
LEMMA OthersStay ==
  ASSUME TypeInv, NEW p \in Proc, Step(p), NEW q \in Proc \ {p}
  PROVE  local'[q] = local[q]
<1>1. PICK l \in Local : Become(p, l)
  BY StepMoves DEF Moves
<1>2. local \in [Proc -> Local]
  BY DEF TypeInv, TypeOK
<1>3. QED
  BY <1>1, <1>2 DEF Become

EdgeStep == \E e \in Edge, b \in BOOLEAN : PutEdge(e, b) \/ UpdateEdge(e, b) \/ DeleteEdge(e, b)

(* Only these steps write to the store.                                    *)
LEMMA WhoStores ==
  ASSUME TypeInv, NEW p \in Proc, Step(p)
  PROVE  \/ UNCHANGED store
         \/ WritePutMessage(p) \/ WritePutNode(p) \/ WriteInsert(p)
         \/ ForgetVector(p) \/ ForgetDeleteNode(p) \/ ForgetDeleteMessage(p)
         \/ EdgeStep
<1>l. local[p] \in Local /\ LocalOK(p, local[p])
  BY DEF TypeInv, TypeOK
<1>w. ASSUME Opened(p), local[p].pc # "deleteNode"
      PROVE  Head(local[p].work) \in Edge /\ Found(p) \in BOOLEAN
  BY <1>l, <1>w, HeadTailProperties DEF Local, LocalOK, Opened, Found
<1>1. CASE Start(p)
  BY <1>1 DEF Start, WriteStart, RecallStart, ForgetStart
<1>2. CASE Write(p)
  <2>1. CASE WritePutEdge(p)
    BY <1>w, <2>1 DEF WritePutEdge, EdgeStep
  <2>2. QED
    BY <1>2, <2>1 DEF Write, WriteRecent, WriteReturn
<1>3. CASE Recall(p)
  <2>1. CASE EdgePut(p)
    BY <1>w, <2>1 DEF EdgePut, At, EdgeStep
  <2>2. CASE EdgePrune(p) \/ RecallPruneRead(p)
    BY <1>w, <2>2 DEF EdgePrune, RecallPruneRead, At, EdgeStep
  <2>3. CASE EdgeUpdate(p)
    BY <1>w, <2>3 DEF EdgeUpdate, EdgeStep
  <2>4. QED
    BY <1>3, <2>1, <2>2, <2>3 DEF Recall, RecallBump, RecallSeeds, EdgeGet, RecallFail,
              RecallNeighbors, RecallReadEdge, RecallRank, RecallTraverse, RecallReturn
<1>4. CASE Forget(p)
  <2>1. CASE ForgetPurgeEdge(p)
    BY <1>w, <2>1 DEF ForgetPurgeEdge, At, EdgeStep
  <2>2. QED
    BY <1>4, <2>1 DEF Forget, ForgetNodes, ForgetOutbound, ForgetInbound, ForgetReadPair,
              ForgetReadNode, ForgetReturn
<1>5. CASE Abort(p) \/ ReadPair(p)
  BY <1>5 DEF Abort, ReadPair
<1>6. QED
  BY <1>1, <1>2, <1>3, <1>4, <1>5 DEF Step, Continue

-----------------------------------------------------------------------------
(* The edge counter.                                                       *)

(* A transaction whose pair is as it was read counts what it does.         *)
LEMMA UncrossedEdge ==
  ASSUME StorageTypeOK, NEW e \in Edge, NEW b \in BOOLEAN,
         PutEdge(e, b) \/ UpdateEdge(e, b) \/ DeleteEdge(e, b), "edge" \notin crossed'
  PROVE  Drift' >= Drift
<1>f. IsFiniteSet(edges) /\ Cardinality(edges) \in Nat /\ edgeCount \in Int
  BY NodesFinite, FS_Subset, FS_CardinalityType DEF StorageTypeOK
<1>1. ASSUME edges' = edges, edgeCount' = edgeCount
      PROVE  Drift' >= Drift
  BY <1>f, <1>1 DEF Drift
<1>2. CASE PutEdge(e, b)
  <2>1. edgeCount' = edgeCount + (IF e \in edges THEN 0 ELSE 1)
    BY <1>2 DEF PutEdge, EdgeCrossing
  <2>2. CASE edges' = edges \union {e}
    <3>1. Cardinality(edges') = IF e \in edges THEN Cardinality(edges) ELSE Cardinality(edges) + 1
      BY <1>f, <2>2, FS_AddElement
    <3>2. QED
      BY <1>f, <2>1, <3>1 DEF Drift
  <2>3. CASE edges' = edges
    BY <1>f, <2>1, <2>3 DEF Drift
  <2>4. QED
    BY <1>2, <2>2, <2>3 DEF PutEdge
<1>3. CASE UpdateEdge(e, b)
  <2>1. edgeCount' = edgeCount /\ (edges' = edges \/ (edges' = edges \union {e} /\ e \in edges))
    BY <1>3 DEF UpdateEdge, EdgeCrossing, store
  <2>2. QED
    BY <1>1, <2>1
<1>4. CASE DeleteEdge(e, b)
  <2>1. CASE b
    <3>1. edgeCount' = edgeCount - 1 /\ edges' = edges \ {e} /\ e \in edges
      BY <1>4, <2>1 DEF DeleteEdge, EdgeCrossing
    <3>2. Cardinality(edges') = Cardinality(edges) - 1
      BY <1>f, <3>1, FS_RemoveElement
    <3>3. QED
      BY <1>f, <3>1, <3>2 DEF Drift
  <2>2. CASE ~b
    BY <1>1, <1>4, <2>2 DEF DeleteEdge, store
  <2>3. QED
    BY <2>1, <2>2
<1>5. QED
  BY <1>2, <1>3, <1>4

LEMMA UncrossedNode ==
  ASSUME StorageTypeOK, NEW n \in Node, NEW b \in BOOLEAN, NEW attached,
         DeleteNode(n, b, attached), "edge" \notin crossed'
  PROVE  Drift' >= Drift
<1>f. IsFiniteSet(edges) /\ Cardinality(edges) \in Nat /\ edgeCount \in Int
  BY NodesFinite, FS_Subset, FS_CardinalityType DEF StorageTypeOK
<1>1. CASE b
  <2>1. Incident(n) \subseteq edges
    BY DEF Incident, Outbound, Inbound
  <2>2. Cardinality(Incident(n)) \in Nat
    BY <1>f, <2>1, FS_Subset, FS_CardinalityType
  <2>3. edges \intersect Incident(n) = Incident(n)
    BY <2>1
  <2>4. Cardinality(edges \ Incident(n)) = Cardinality(edges) - Cardinality(Incident(n))
    BY <1>f, <2>3, FS_Difference
  <2>5. attached = Incident(n)
    BY <1>1 DEF DeleteNode
  <2>6. edges' = edges \ Incident(n) /\ edgeCount' = edgeCount - Cardinality(Incident(n))
    BY <1>1, <2>5 DEF DeleteNode
  <2>7. QED
    BY <1>f, <2>2, <2>4, <2>6 DEF Drift
<1>2. CASE ~b
  BY <1>f, <1>2 DEF DeleteNode, store, Drift
<1>3. QED
  BY <1>1, <1>2

(* Once a transaction has crossed another, that stays on record.           *)
LEMMA CrossedGrows ==
  ASSUME TypeInv, [Next]_vars
  PROVE  crossed \subseteq crossed'
<1>1. ASSUME NEW p \in Proc, Step(p)
      PROVE  crossed \subseteq crossed'
  <2>1. CASE UNCHANGED store
    BY <2>1 DEF store
  <2>2. CASE WritePutMessage(p) \/ WritePutNode(p) \/ WriteInsert(p)
             \/ ForgetVector(p) \/ ForgetDeleteMessage(p)
    BY <2>2 DEF WritePutMessage, WritePutNode, WriteInsert, ForgetVector,
              ForgetDeleteMessage, PutMessage, PutNode, InsertVector, DeleteVector, DeleteMessage
  <2>3. CASE ForgetDeleteNode(p)
    BY <2>3 DEF ForgetDeleteNode, DeleteNode, store
  <2>4. CASE EdgeStep
    BY <2>4 DEF EdgeStep, PutEdge, UpdateEdge, DeleteEdge, EdgeCrossing, store
  <2>5. QED
    BY <1>1, <2>1, <2>2, <2>3, <2>4, WhoStores
<1>2. QED
  BY <1>1 DEF Next, Rest, vars, Step

LEMMA DriftStep ==
  ASSUME TypeInv, [Next]_vars
  PROVE  "edge" \in crossed' \/ Drift' >= Drift
<1>t. StorageTypeOK
  BY DEF TypeInv, TypeOK
<1>1. ASSUME edges' = edges, edgeCount' = edgeCount
      PROVE  Drift' >= Drift
  BY <1>t, <1>1, NodesFinite, FS_Subset, FS_CardinalityType DEF Drift, StorageTypeOK
<1>2. ASSUME NEW p \in Proc, Step(p), "edge" \notin crossed'
      PROVE  Drift' >= Drift
  <2>1. CASE UNCHANGED store
    BY <1>1, <2>1 DEF store
  <2>2. CASE WritePutMessage(p) \/ WritePutNode(p) \/ WriteInsert(p)
             \/ ForgetVector(p) \/ ForgetDeleteMessage(p)
    BY <1>1, <2>2 DEF WritePutMessage, WritePutNode, WriteInsert, ForgetVector,
              ForgetDeleteMessage, PutMessage, PutNode, InsertVector, DeleteVector, DeleteMessage
  <2>3. CASE ForgetDeleteNode(p)
    <3>1. local[p].path[1] \in Node /\ Found(p) \in BOOLEAN
      BY <2>3 DEF TypeInv, TypeOK, LocalOK, Local, ForgetDeleteNode, Found
    <3>2. QED
      BY <1>t, <1>2, <2>3, <3>1, UncrossedNode DEF ForgetDeleteNode
  <2>4. CASE EdgeStep
    BY <1>t, <1>2, <2>4, UncrossedEdge DEF EdgeStep
  <2>5. QED
    BY <1>2, <2>1, <2>2, <2>3, <2>4, WhoStores
<1>3. QED
  BY <1>1, <1>2 DEF Next, Rest, vars, Step

(* The excess of edge_count over the stored edges never shrinks, whatever  *)
(* the calls do and wherever they die, until a transaction writes over a   *)
(* pair that another changed after it had read it (the counter deltas of   *)
(* PutEdge, UpdateEdge, DeleteEdge and DeleteNode in graph.go).            *)
THEOREM DriftNeverShrinks == Spec => DriftIsPermanent
<1>1. TypeInv /\ [Next]_vars => ["edge" \in crossed' \/ Drift' >= Drift]_vars
  BY DriftStep
<1>2. QED
  BY <1>1, CallsWellFormed, PTL DEF Spec, DriftIsPermanent

(* edge_count is never below the number of stored edges, unless two        *)
(* transactions have crossed on an edge.                                   *)
THEOREM UndercountedOnlyByCrossing == Spec => []EdgeCountBound
<1>1. Init => EdgeCountBound
  BY FS_EmptySet DEF Init, StorageInit, EdgeCountBound, Drift
<1>2. TypeInv /\ TypeInv' /\ EdgeCountBound /\ [Next]_vars => EdgeCountBound'
  <2>1. TypeInv => Drift \in Int
    BY NodesFinite, FS_Subset, FS_CardinalityType DEF TypeInv, TypeOK, StorageTypeOK, Drift
  <2>2. TypeInv' => Drift' \in Int
    BY NodesFinite, FS_Subset, FS_CardinalityType DEF TypeInv, TypeOK, StorageTypeOK, Drift
  <2>3. TypeInv /\ EdgeCountBound /\ [Next]_vars => "edge" \in crossed' \/ Drift >= 0
    BY CrossedGrows DEF EdgeCountBound
  <2>4. QED
    BY <2>1, <2>2, <2>3, DriftStep DEF EdgeCountBound
<1>3. QED
  BY <1>1, <1>2, CallsWellFormed, PTL DEF Spec

-----------------------------------------------------------------------------
(* Who may be writing or forgetting which message.                         *)

LEMMA BecomeValue ==
  ASSUME TypeInv, NEW p \in Proc, NEW l, Become(p, l)
  PROVE  local'[p] = l
BY DEF TypeInv, TypeOK, Become

LEMMA RecallStays ==
  ASSUME TypeInv, NEW p \in Proc, RecallStart(p) \/ Recall(p) \/ Abort(p)
  PROVE  /\ local'[p].pc \in RecallPC \union {"idle"}
         /\ local'[p].msg \in {0, local[p].msg} /\ local'[p].msgs \subseteq local[p].msgs
<1> DEFINE l == local[p]
<1>l. l \in Local
  BY DEF TypeInv, TypeOK
<1>b. \A new : Become(p, new) => local'[p] = new
  BY BecomeValue
<1>i. Become(p, Idle) =>
         local'[p].pc = "idle" /\ local'[p].msg = 0 /\ local'[p].msgs = {}
  BY <1>b DEF Idle
<1>d. Become(p, EdgeDone(l)) =>
         local'[p].pc \in RecallPC /\ local'[p].msg = l.msg /\ local'[p].msgs = l.msgs
  <2>1. /\ EdgeDone(l).pc \in {"getEdge", "expand", "traverse"}
        /\ EdgeDone(l).msg = l.msg /\ EdgeDone(l).msgs = l.msgs
    BY <1>l DEF EdgeDone, Local
  <2>2. QED
    BY <1>b, <2>1 DEF RecallPC
<1>1. CASE RecallStart(p)
  BY <1>1, <1>b DEF RecallStart, Idle, RecallPC
<1>2. CASE RecallBump(p)
  BY <1>2, <1>l, <1>b DEF RecallBump, At, RecallPC, Local
<1>3. CASE RecallSeeds(p)
  <2>1. ASSUME NEW pc \in {"expand", "getEdge"}, NEW work, NEW queue, NEW visit,
               Become(p, [l EXCEPT !.pc = pc, !.kind = "CoRetrieval", !.work = work,
                                   !.queue = queue, !.visit = visit])
        PROVE  local'[p].pc \in RecallPC /\ local'[p].msg = l.msg /\ local'[p].msgs = l.msgs
    BY <2>1, <1>l, <1>b DEF RecallPC, Local
  <2>2. QED
    BY <1>3, <1>i, <2>1 DEF RecallSeeds
<1>4. CASE EdgeGet(p)
  BY <1>4, <1>l, <1>b, <1>d DEF EdgeGet, RecallPC, Local
<1>5. CASE EdgePut(p) \/ EdgePrune(p)
  BY <1>5, <1>d DEF EdgePut, EdgePrune
<1>6. CASE EdgeUpdate(p)
  <2>1. l.pc = "updateEdge"
    BY <1>6 DEF EdgeUpdate
  <2>2. \/ Become(p, EdgeDone(l))
        \/ \E pc \in {"notFound", "pruneEdge"} : Become(p, [l EXCEPT !.pc = pc, !.tx = "closed"])
    BY <1>6 DEF EdgeUpdate
  <2>3. ASSUME NEW pc \in {"notFound", "pruneEdge"}, Become(p, [l EXCEPT !.pc = pc, !.tx = "closed"])
        PROVE  local'[p].pc \in RecallPC /\ local'[p].msg = l.msg /\ local'[p].msgs = l.msgs
    BY <2>3, <1>l, <1>b DEF RecallPC, Local
  <2>4. QED
    BY <2>2, <2>3, <1>d
<1>7. CASE RecallNeighbors(p)
  <2> DEFINE queue == Tail(l.queue)
             path == Head(l.queue)
             incident == IF Len(path) - 1 < MaxHops THEN Outbound(Last(path)) ELSE {}
  <2>1. local'[p] = [l EXCEPT !.queue = queue, !.path = path, !.incident = incident]
    BY <1>7, <1>b DEF RecallNeighbors
  <2>2. l.pc = "expand"
    BY <1>7 DEF RecallNeighbors
  <2> HIDE DEF queue, path, incident
  <2>3. QED
    BY <2>1, <2>2, <1>l DEF RecallPC, Local
<1>8. CASE RecallReadEdge(p)
  <2>1. PICK e \in l.incident :
          LET rest    == [l EXCEPT !.incident = @ \ {e}]
              newPath == Append(l.path, e[2])
          IN \/ local'[p] = rest
             \/ local'[p] = [rest EXCEPT !.pc = "pruneRead", !.work = <<e>>]
             \/ local'[p] = [rest EXCEPT
                   !.visit = {q \in @ : Last(q) # e[2]} \union {newPath},
                   !.queue = Append(@, newPath)]
    BY <1>8, <1>b DEF RecallReadEdge
  <2>2. l.pc = "expand"
    BY <1>8 DEF RecallReadEdge
  <2> DEFINE less == l.incident \ {e}
             more == {q \in l.visit : Last(q) # e[2]} \union {Append(l.path, e[2])}
             longer == Append(l.queue, Append(l.path, e[2]))
  <2>3. \/ local'[p] = [l EXCEPT !.incident = less]
        \/ local'[p] = [l EXCEPT !.incident = less, !.pc = "pruneRead", !.work = <<e>>]
        \/ local'[p] = [l EXCEPT !.incident = less, !.visit = more, !.queue = longer]
    BY <2>1, <1>l DEF Local
  <2> HIDE DEF less, more, longer
  <2>4. local'[p].pc \in {l.pc, "pruneRead"} /\ local'[p].msg = l.msg /\ local'[p].msgs = l.msgs
    BY <2>3, <1>l DEF Local
  <2>5. QED
    BY <2>2, <2>4 DEF RecallPC
<1>9. CASE RecallPruneRead(p)
  BY <1>9, <1>l, <1>b DEF RecallPruneRead, RecallPC, Local
<1>10. CASE RecallRank(p)
  <2>1. PICK visit : Become(p, [l EXCEPT !.pc = "traverse", !.kind = "CoTraversal",
                                         !.path = <<>>, !.visit = visit])
    BY <1>10 DEF RecallRank
  <2>2. local'[p] = [l EXCEPT !.pc = "traverse", !.kind = "CoTraversal", !.path = <<>>,
                              !.visit = visit]
    BY <2>1, <1>b
  <2>3. local'[p].pc = "traverse" /\ local'[p].msg = l.msg /\ local'[p].msgs = l.msgs
    BY <2>2, <1>l DEF Local
  <2>4. QED
    BY <2>3 DEF RecallPC
<1>11. CASE RecallTraverse(p)
  BY <1>11, <1>l, <1>b DEF RecallTraverse, RecallPC, Local
<1>12. CASE RecallFail(p) \/ RecallReturn(p) \/ Abort(p)
  BY <1>12, <1>i DEF RecallFail, RecallReturn, Abort
<1>13. QED
  BY <1>1, <1>2, <1>3, <1>4, <1>5, <1>6, <1>7, <1>8, <1>9, <1>10, <1>11, <1>12 DEF Recall

LEMMA ReadStays ==
  ASSUME TypeInv, NEW p \in Proc, ReadPair(p)
  PROVE  /\ local[p].pc \in EdgePC /\ local'[p].pc = local[p].pc
         /\ local'[p].msg = local[p].msg /\ local'[p].msgs = local[p].msgs
         /\ local'[p].len = local[p].len /\ UNCHANGED store
<1>1. local[p] \in Local
  BY DEF TypeInv, TypeOK
<1>2. local'[p] = [local[p] EXCEPT !.tx = IF Head(local[p].work) \in edges
                                          THEN "found" ELSE "absent"]
  BY BecomeValue DEF ReadPair
<1>3. QED
  BY <1>1, <1>2 DEF ReadPair, Local

(* The first halves of a Forget's transactions keep all but what they read. *)
LEMMA ForgetReads ==
  ASSUME TypeInv, NEW p \in Proc, ForgetReadPair(p) \/ ForgetReadNode(p)
  PROVE  /\ local[p].pc \in {"purge", "deleteNode"} /\ local'[p].pc = local[p].pc
         /\ local'[p].msg = local[p].msg /\ local'[p].msgs = local[p].msgs
         /\ local'[p].pend = local[p].pend /\ local'[p].cands = local[p].cands
         /\ local'[p].queue = local[p].queue /\ local'[p].visit = local[p].visit
         /\ local'[p].path = local[p].path
<1> DEFINE l == local[p]
<1>l. l \in Local
  BY DEF TypeInv, TypeOK
<1>b. \A new : Become(p, new) => local'[p] = new
  BY BecomeValue
<1>1. PICK work, tx, incident :
        local'[p] = [l EXCEPT !.work = work, !.tx = tx, !.incident = incident]
  <2>1. CASE ForgetReadPair(p)
    <3>1. PICK e \in l.incident :
            Become(p, [l EXCEPT !.incident = @ \ {e}, !.work = <<e>>,
                                !.tx = IF e \in edges THEN "found" ELSE "absent"])
      BY <2>1, Zenon DEF ForgetReadPair
    <3> DEFINE less == l.incident \ {e}
               work == <<e>>
               tx == IF e \in edges THEN "found" ELSE "absent"
    <3>2. local'[p] = [l EXCEPT !.incident = less, !.work = work, !.tx = tx]
      BY <3>1, <1>b
    <3> HIDE DEF less, work, tx
    <3>3. local'[p] = [l EXCEPT !.work = work, !.tx = tx, !.incident = less]
      BY <3>2, <1>l DEF Local
    <3>4. QED
      BY <3>3
  <2>2. CASE ForgetReadNode(p)
    <3> DEFINE tx == IF l.path[1] \in nodes THEN "found" ELSE "absent"
               incident == Incident(l.path[1])
               work == l.work
    <3>1. local'[p] = [l EXCEPT !.tx = tx, !.incident = incident]
      BY <2>2, <1>b DEF ForgetReadNode
    <3> HIDE DEF tx, incident
    <3>2. local'[p] = [l EXCEPT !.work = work, !.tx = tx, !.incident = incident]
      BY <3>1, <1>l DEF Local
    <3>3. QED
      BY <3>2
  <2>3. QED
    BY <2>1, <2>2
<1>2. l.pc \in {"purge", "deleteNode"}
  BY DEF ForgetReadPair, ForgetReadNode
<1>3. QED
  BY <1>1, <1>2, <1>l DEF Local

LEMMA ForgetStays ==
  ASSUME TypeInv, NEW p \in Proc, ForgetStart(p) \/ Forget(p)
  PROVE  local'[p].pc \in ForgetPC \union {"idle"}
<1>l. local[p] \in Local
  BY DEF TypeInv, TypeOK
<1>b. \A new : Become(p, new) => local'[p] = new
  BY BecomeValue
<1>1. CASE ForgetStart(p)
  BY <1>1, <1>b DEF ForgetStart, Idle, ForgetPC
<1>2. CASE ForgetNodes(p) \/ ForgetOutbound(p)
  BY <1>2, <1>l, <1>b DEF ForgetNodes, ForgetOutbound, ForgetPC, Local
<1>3. CASE ForgetInbound(p)
  BY <1>3, <1>l, <1>b DEF ForgetInbound, ForgetPC, Local
<1>4. CASE ForgetReadPair(p) \/ ForgetReadNode(p)
  BY <1>4, ForgetReads DEF ForgetPC
<1>8. CASE ForgetPurgeEdge(p)
  BY <1>8, <1>l, <1>b DEF ForgetPurgeEdge, At, ForgetPC, Local
<1>5. CASE ForgetVector(p) \/ ForgetDeleteNode(p) \/ ForgetDeleteMessage(p)
  BY <1>5, <1>l, <1>b DEF ForgetVector, ForgetDeleteNode, ForgetDeleteMessage, ForgetPC, Local
<1>6. CASE ForgetReturn(p)
  BY <1>6, <1>b DEF ForgetReturn, Idle
<1>7. QED
  BY <1>1, <1>2, <1>3, <1>4, <1>5, <1>6, <1>8 DEF Forget

LEMMA WriteStays ==
  ASSUME TypeInv, NEW p \in Proc, WriteStart(p) \/ Write(p)
  PROVE  local'[p].pc \in WritePC \union {"idle"}
<1>l. local[p] \in Local
  BY DEF TypeInv, TypeOK
<1>b. \A new : Become(p, new) => local'[p] = new
  BY BecomeValue
<1>1. CASE WriteStart(p)
  BY <1>1, <1>b DEF WriteStart, Idle, WritePC
<1>2. CASE WritePutMessage(p) \/ WritePutNode(p) \/ WritePutEdge(p)
  BY <1>2, <1>l, <1>b DEF WritePutMessage, WritePutNode, WritePutEdge, WritePC, Local
<1>3. CASE WriteInsert(p)
  BY <1>3, <1>l, <1>b DEF WriteInsert, WritePC, Local
<1>4. CASE WriteRecent(p)
  BY <1>4, <1>l, <1>b DEF WriteRecent, WritePC, Local
<1>5. CASE WriteReturn(p)
  BY <1>5, <1>b DEF WriteReturn, Idle
<1>6. QED
  BY <1>1, <1>2, <1>3, <1>4, <1>5 DEF Write

(* A Write keeps its message, and each Write gets a new one.               *)
LEMMA WhoWrites ==
  ASSUME TypeInv, NEW p \in Proc, Step(p), local'[p].pc \in WritePC
  PROVE  \/ WriteStart(p) /\ local'[p].msg = minted + 1
         \/ local[p].pc \in WritePC /\ local'[p].msg = local[p].msg /\ (Write(p) \/ ReadPair(p))
<1>l. local[p] \in Local
  BY DEF TypeInv, TypeOK
<1>b. \A new : Become(p, new) => local'[p] = new
  BY BecomeValue
<1>r. ReadPair(p) => local'[p].pc = local[p].pc /\ local'[p].msg = local[p].msg
  BY ReadStays
<1>1. WriteStart(p) \/ Write(p) \/ ReadPair(p)
  <2>1. local'[p].pc \notin RecallPC \union ForgetPC \union {"idle"}
    BY DEF WritePC, RecallPC, ForgetPC
  <2>2. QED
    BY <2>1, RecallStays, ForgetStays DEF Step, Start, Continue
<1>2. CASE WriteStart(p)
  BY <1>2, <1>b DEF WriteStart, Idle
<1>3. CASE Write(p)
  <2>1. local[p].pc \in WritePC
    BY <1>3 DEF Write, WritePutMessage, WritePutNode, WriteInsert, WritePutEdge, WriteRecent,
              WriteReturn, At, WritePC
  <2>2. CASE WriteReturn(p)
    BY <2>2, <1>b DEF WriteReturn, Idle, WritePC
  <2>3. CASE WritePutMessage(p) \/ WritePutNode(p) \/ WritePutEdge(p)
    BY <1>3, <1>l, <1>b, <2>1, <2>3 DEF WritePutMessage, WritePutNode, WritePutEdge, Local
  <2>4. CASE WriteInsert(p)
    BY <1>3, <1>l, <1>b, <2>1, <2>4 DEF WriteInsert, Local
  <2>5. CASE WriteRecent(p)
    BY <1>3, <1>l, <1>b, <2>1, <2>5 DEF WriteRecent, Local
  <2>6. QED
    BY <1>3, <2>2, <2>3, <2>4, <2>5 DEF Write
<1>4. QED
  BY <1>1, <1>2, <1>3, <1>r

LEMMA HistoryGrows ==
  ASSUME NEW p \in Proc, Step(p), minted \in Nat
  PROVE  /\ targeted \subseteq targeted' /\ raced \subseteq raced' /\ written \subseteq written'
         /\ minted' \in Nat /\ minted <= minted'
<1>1. UNCHANGED minted \/ minted' = minted + 1
  BY WhoRecords DEF Step, WriteStart, RecallStart, ForgetStart, begun
<1>2. targeted \subseteq targeted' /\ raced \subseteq raced' /\ written \subseteq written'
  BY WhoRecords DEF Step, WriteReturn, ForgetNodes, history
<1>3. QED
  BY <1>1, <1>2

(* Nobody touches what belongs to a message no Forget aims at.             *)
LEMMA Untouched ==
  ASSUME IndInv, NEW p \in Proc, Step(p), NEW m \in Msg \ targeted
  PROVE  /\ m \in messages => m \in messages'
         /\ \A i \in Chunk :
              /\ <<m, i>> \in rows => <<m, i>> \in rows'
              /\ <<m, i>> \in embedded => <<m, i>> \in embedded'
              /\ <<m, i>> \in tombstoned' => <<m, i>> \in tombstoned
<1>f. ASSUME local[p].pc \in ForgetPC \ {"forgetMessage"}
      PROVE  /\ local[p].msg # m
             /\ local[p].pc # "forgetNode" => \A i \in Chunk : local[p].path[1] # <<m, i>>
  BY <1>f DEF IndInv, ForgetterHolds, MessageOf
<1>1. CASE UNCHANGED store
  BY <1>1 DEF store
<1>2. CASE WritePutMessage(p) \/ WritePutNode(p) \/ WriteInsert(p)
  BY <1>2 DEF WritePutMessage, WritePutNode, WriteInsert, PutMessage, PutNode, InsertVector
<1>3. CASE ForgetVector(p)
  BY <1>3, <1>f DEF ForgetVector, At, ForgetPC, DeleteVector
<1>4. CASE ForgetDeleteNode(p)
  BY <1>4, <1>f DEF ForgetDeleteNode, ForgetPC, DeleteNode, store
<1>5. CASE ForgetDeleteMessage(p)
  BY <1>5, <1>f DEF ForgetDeleteMessage, At, ForgetPC, DeleteMessage
<1>6. CASE EdgeStep
  BY <1>6 DEF EdgeStep, PutEdge, UpdateEdge, DeleteEdge, store
<1>7. QED
  BY <1>1, <1>2, <1>3, <1>4, <1>5, <1>6, WhoStores DEF IndInv

(* A row appears only by the Write of its message.                         *)
LEMMA RowsByWriter ==
  ASSUME TypeInv, NEW p \in Proc, Step(p), NEW n \in rows' \ rows
  PROVE  WritePutNode(p) /\ n = <<local[p].msg, local[p].at>> /\ Writing(MessageOf(n))
<1>1. CASE WritePutNode(p)
  BY <1>1 DEF WritePutNode, PutNode, At, Writing, WritePC, MessageOf, TypeInv, LocalOK
<1>2. CASE ~WritePutNode(p)
  BY <1>2, WhoStores DEF store, WritePutMessage, WriteInsert, ForgetVector, ForgetDeleteNode,
      ForgetDeleteMessage, EdgeStep, PutMessage, InsertVector, DeleteVector, DeleteNode,
      DeleteMessage, PutEdge, UpdateEdge, DeleteEdge
<1>3. QED
  BY <1>1, <1>2

(* A node appears only by the Write of its message.                        *)
LEMMA NodesByWriter ==
  ASSUME TypeInv, NEW p \in Proc, Step(p), NEW n \in nodes' \ nodes
  PROVE  /\ WritePutNode(p) \/ WriteInsert(p)
         /\ n = <<local[p].msg, local[p].at>>
         /\ p \in Writers
<1>1. CASE WritePutNode(p)
  BY <1>1 DEF WritePutNode, PutNode, At, WritePC, TypeInv, LocalOK
<1>2. CASE WriteInsert(p)
  BY <1>2 DEF WriteInsert, InsertVector, WritePC, TypeInv, LocalOK
<1>3. CASE ~WritePutNode(p) /\ ~WriteInsert(p)
  BY <1>3, WhoStores DEF store, WritePutMessage, ForgetVector, ForgetDeleteNode,
      ForgetDeleteMessage, EdgeStep, PutMessage, DeleteVector, DeleteNode,
      DeleteMessage, PutEdge, UpdateEdge, DeleteEdge
<1>4. QED
  BY <1>1, <1>2, <1>3

-----------------------------------------------------------------------------
(* IndInv is inductive: one lemma per conjunct.                            *)

LEMMA IdsMintedStep ==
  ASSUME IndInv, TypeInv', NEW p \in Proc, Step(p)
  PROVE  IdsMinted'
<1>t. minted \in Nat /\ local[p] \in Local /\ LocalOK(p, local[p])
  BY DEF IndInv, TypeInv, TypeOK
<1>i. IdsMinted
  BY DEF IndInv
<1>h. minted' \in Nat /\ minted <= minted' /\ 1..minted \subseteq 1..minted' /\ 0..minted \subseteq 0..minted'
  BY <1>t, HistoryGrows
<1>w. local[p].pc \in WritePC => local[p].msg \in 1..minted
  BY <1>t, <1>i, StorageAssumption DEF IdsMinted, LocalOK, Msg
<1>1. messages' \subseteq 1..minted'
  <2>1. CASE WritePutMessage(p)
    BY <2>1, <1>i, <1>h, <1>w DEF WritePutMessage, PutMessage, At, WritePC, IdsMinted
  <2>2. CASE ~WritePutMessage(p)
    <3>1. messages' \subseteq messages
      BY <2>2, WhoStores DEF IndInv, store, WritePutNode, WriteInsert, ForgetVector,
          ForgetDeleteNode, ForgetDeleteMessage, EdgeStep, PutNode, InsertVector, DeleteVector,
          DeleteNode, DeleteMessage, PutEdge, UpdateEdge, DeleteEdge
    <3>2. QED
      BY <3>1, <1>i, <1>h DEF IdsMinted
  <2>3. QED
    BY <2>1, <2>2
<1>2. \A n \in nodes' \union written' : n[1] \in 1..minted'
  <2>1. ASSUME NEW n \in nodes' \ nodes
        PROVE  n[1] \in 1..minted'
    <3>1. (WritePutNode(p) \/ WriteInsert(p)) /\ n = <<local[p].msg, local[p].at>>
      BY <2>1, NodesByWriter DEF IndInv
    <3>2. local[p].pc \in WritePC
      BY <3>1 DEF WritePutNode, WriteInsert, At, WritePC
    <3>3. QED
      BY <3>1, <3>2, <1>h, <1>w
  <2>2. ASSUME NEW w \in written' \ written
        PROVE  w[1] \in 1..minted'
    <3>1. WriteReturn(p)
      BY <2>2, WhoRecords DEF Step, history, ForgetNodes
    <3>2. w = <<local[p].msg, local[p].len>> /\ local[p].pc \in WritePC
      BY <2>2, <3>1 DEF WriteReturn, At, WritePC
    <3>3. QED
      BY <3>2, <1>h, <1>w
  <2>3. QED
    BY <2>1, <2>2, <1>i, <1>h DEF IdsMinted
<1>3. \A q \in Proc : local'[q].msg \in 0..minted' /\ local'[q].msgs \subseteq 1..minted'
  <2> DEFINE l == local[p]
             good == local'[p].msg \in 0..minted' /\ local'[p].msgs \subseteq 1..minted'
  <2>l. l.msg \in 0..minted /\ l.msgs \subseteq 1..minted
    BY <1>i DEF IdsMinted
  <2>b. \A new : Become(p, new) => local'[p] = new
    BY BecomeValue DEF IndInv
  <2>0. 0 \in 0..minted'
    BY <1>h
  <2>1. ASSUME WriteStart(p)
        PROVE  good
    <3>1. local'[p].msg = minted + 1 /\ local'[p].msgs = {} /\ minted' = minted + 1
      BY <2>1, <2>b DEF WriteStart, Idle
    <3>2. QED
      BY <3>1, <1>h
  <2>2. ASSUME Write(p)
        PROVE  good
    <3>1. local'[p].msg \in {0, l.msg} /\ local'[p].msgs \subseteq l.msgs
      <4>1. CASE WritePutMessage(p) \/ WritePutNode(p) \/ WritePutEdge(p)
        BY <4>1, <2>b, <1>t DEF WritePutMessage, WritePutNode, WritePutEdge, Local
      <4>2. CASE WriteInsert(p)
        BY <4>2, <2>b, <1>t DEF WriteInsert, Local
      <4>3. CASE WriteRecent(p)
        BY <4>3, <2>b, <1>t DEF WriteRecent, Local
      <4>4. CASE WriteReturn(p)
        BY <4>4, <2>b DEF WriteReturn, Idle
      <4>5. QED
        BY <2>2, <4>1, <4>2, <4>3, <4>4 DEF Write
    <3>2. QED
      BY <3>1, <2>l, <2>0, <1>h
  <2>3. ASSUME RecallStart(p) \/ Recall(p) \/ Abort(p)
        PROVE  good
    BY <2>3, <2>l, <2>0, <1>h, RecallStays DEF IndInv
  <2>4. ASSUME ForgetStart(p)
        PROVE  good
    <3>1. ASSUME NEW S, S \subseteq 1..minted,
                 Become(p, [Idle EXCEPT !.pc = "forgetMessage", !.msgs = S])
          PROVE  local'[p].msg = 0 /\ local'[p].msgs \subseteq 1..minted
      BY <3>1, <2>b DEF Idle
    <3>2. \A m \in Msg : Known(m) => {m} \subseteq 1..minted
      <4>1. ASSUME NEW m \in Msg, Known(m)
            PROVE  m \in 1..minted
        <5>1. CASE \E c \in Chunk : <<m, c>> \in written
          BY <5>1, <1>i DEF IdsMinted
        <5>2. CASE \E n \in Searchable : n \in NodesOf(m)
          BY <5>2, <1>i DEF IdsMinted, NodesOf, MessageOf, IndInv, TypeInv, TypeOK, StorageTypeOK
        <5>3. QED
          BY <4>1, <5>1, <5>2 DEF Known
      <4>2. QED
        BY <4>1
    <3>3. \A t : {m \in messages : m < t} \subseteq 1..minted
      BY <1>i DEF IdsMinted
    <3>4. local'[p].msg = 0 /\ local'[p].msgs \subseteq 1..minted
      BY <2>4, <3>1, <3>2, <3>3 DEF ForgetStart
    <3>5. QED
      BY <3>4, <2>0, <1>h
  <2>5. ASSUME Forget(p)
        PROVE  good
    <3>1. local'[p].msg \in {0, l.msg} \union l.msgs /\ local'[p].msgs \subseteq l.msgs
      <4>1. CASE ForgetNodes(p)
        <5>1. PICK m \in l.msgs :
                local'[p] = [l EXCEPT !.pc = "forgetNode", !.msg = m, !.msgs = @ \ {m},
                                      !.pend = NodesOf(m)]
          BY <4>1, <2>b DEF ForgetNodes
        <5>2. QED
          BY <5>1, <1>t DEF Local
      <4>2. CASE ForgetOutbound(p)
        BY <4>2, <2>b, <1>t DEF ForgetOutbound, Local
      <4>3. CASE ForgetInbound(p)
        BY <4>3, <2>b, <1>t DEF ForgetInbound, Local
      <4>4. CASE ForgetReadPair(p)
        BY <4>4, <1>i, ForgetReads DEF IndInv
      <4>5. CASE ForgetPurgeEdge(p)
        BY <4>5, <2>b, <1>t DEF ForgetPurgeEdge, Local
      <4>6. CASE ForgetReadNode(p)
        BY <4>6, <1>i, ForgetReads DEF IndInv
      <4>7. CASE ForgetVector(p)
        BY <4>7, <2>b, <1>t DEF ForgetVector, Local
      <4>8. CASE ForgetDeleteNode(p)
        BY <4>8, <2>b, <1>t DEF ForgetDeleteNode, Local
      <4>9. CASE ForgetDeleteMessage(p)
        BY <4>9, <2>b, <1>t DEF ForgetDeleteMessage, Local
      <4>10. CASE ForgetReturn(p)
        BY <4>10, <2>b DEF ForgetReturn, Idle
      <4>11. QED
        BY <2>5, <4>1, <4>2, <4>3, <4>4, <4>5, <4>6, <4>7, <4>8, <4>9, <4>10 DEF Forget
    <3>2. QED
      BY <3>1, <2>l, <2>0, <1>h
  <2>6. ASSUME ReadPair(p)
        PROVE  good
    BY <2>6, <2>l, <1>h, ReadStays DEF IndInv
  <2>7. good
    BY <2>1, <2>2, <2>3, <2>4, <2>5, <2>6 DEF Step, Start, Continue
  <2>8. QED
    BY <2>7, <1>i, <1>h, OthersStay DEF IndInv, IdsMinted
<1>4. targeted' \subseteq 1..minted' /\ raced' \subseteq targeted'
  <2>1. CASE ForgetNodes(p)
    BY <2>1, <1>i, <1>h DEF ForgetNodes, IdsMinted
  <2>2. CASE ~ForgetNodes(p)
    <3>1. targeted' = targeted /\ raced' = raced
      BY <2>2, WhoRecords DEF Step, history, WriteReturn
    <3>2. QED
      BY <3>1, <1>i, <1>h DEF IdsMinted
  <2>3. QED
    BY <2>1, <2>2
<1>5. QED
  BY <1>1, <1>2, <1>3, <1>4 DEF IdsMinted

LEMMA RacesSeenStep ==
  ASSUME IndInv, NEW p \in Proc, Step(p)
  PROVE  RacesSeen'
<1>1. SUFFICES ASSUME NEW m \in targeted', NEW q \in Writers,
                      local'[q].pc \in WritePC, local'[q].msg = m
               PROVE  m \in raced'
  BY DEF RacesSeen, Writing
<1>t. minted \in Nat /\ q \in Proc /\ targeted \subseteq 1..minted
  BY DEF IndInv, TypeInv, TypeOK, IdsMinted, Proc
<1>2. CASE WriteStart(p) /\ q = p /\ m = minted + 1
  <2>1. targeted' = targeted
    BY <1>2 DEF WriteStart, history
  <2>2. QED
    BY <1>1, <1>2, <1>t, <2>1
<1>3. CASE local[q].pc \in WritePC /\ local[q].msg = m
  <2>1. Writing(m)
    BY <1>3 DEF Writing
  <2>2. CASE m \in targeted
    BY <2>1, <2>2, <1>t, HistoryGrows DEF IndInv, RacesSeen
  <2>3. CASE m \notin targeted
    <3>1. ForgetNodes(p)
      BY <1>1, <2>3, WhoRecords DEF Step, history, WriteReturn
    <3>2. QED
      BY <1>1, <2>1, <2>3, <3>1 DEF ForgetNodes
  <2>4. QED
    BY <2>2, <2>3
<1>4. QED
  BY <1>1, <1>2, <1>3, <1>t, WhoWrites, OthersStay DEF IndInv

LEMMA TombstonesStep ==
  ASSUME IndInv, NEW p \in Proc, Step(p)
  PROVE  TombstonesAimed'
<1>h. targeted \subseteq targeted'
  BY HistoryGrows DEF IndInv, TypeInv, TypeOK
<1>1. CASE ForgetVector(p)
  <2>1. MessageOf(local[p].path[1]) \in targeted
    BY <1>1 DEF ForgetVector, At, ForgetPC, IndInv, ForgetterHolds
  <2>2. QED
    BY <1>1, <1>h, <2>1 DEF ForgetVector, DeleteVector, IndInv, TombstonesAimed
<1>2. CASE ~ForgetVector(p)
  <2>1. tombstoned' \subseteq tombstoned
    BY <1>2, WhoStores DEF IndInv, store, WritePutMessage, WritePutNode, WriteInsert,
        ForgetDeleteNode, ForgetDeleteMessage, EdgeStep, PutMessage, PutNode, InsertVector,
        DeleteNode, DeleteMessage, PutEdge, UpdateEdge, DeleteEdge
  <2>2. QED
    BY <1>h, <2>1 DEF IndInv, TombstonesAimed
<1>3. QED
  BY <1>1, <1>2

(* A call that did not move keeps what it holds: only messages some Forget *)
(* aims at lose anything.                                                  *)
LEMMA WriterHoldsOthers ==
  ASSUME IndInv, NEW p \in Proc, Step(p), NEW r \in Proc,
         NEW l \in Local, LocalOK(r, l), WriterHolds(l)
  PROVE  WriterHolds(l)'
<1> SUFFICES ASSUME l.pc \in WritePC, l.msg \notin targeted'
             PROVE  /\ l.pc # "putMessage" => l.msg \in messages'
                    /\ l.pc = "insert" => <<l.msg, l.at>> \in rows' \ tombstoned'
                    /\ \A i \in StoredBy(l) : <<l.msg, i>> \in rows' \intersect Searchable'
  BY DEF WriterHolds
<1>1. l.msg \in Msg \ targeted
  BY HistoryGrows DEF IndInv, TypeInv, TypeOK, LocalOK
<1>2. l.len \in Chunk /\ (l.pc \in {"putNode", "insert"} => l.at \in 1..l.len)
  BY DEF LocalOK
<1>3. StoredBy(l) \subseteq Chunk /\ (l.pc = "insert" => l.at \in Chunk)
  BY <1>2, StorageAssumption DEF StoredBy, Chunk
<1>4. QED
  BY <1>1, <1>3, Untouched DEF WriterHolds, Searchable

LEMMA WriterHoldsStep ==
  ASSUME IndInv, TypeInv', NEW p \in Proc, Step(p), NEW q \in Proc
  PROVE  WriterHolds(local[q])'
<1>t. local[q] \in Local /\ LocalOK(q, local[q]) /\ WriterHolds(local[q])
  BY DEF IndInv, TypeInv, TypeOK
<1>n. q # p => local'[q] = local[q]
  BY OthersStay DEF IndInv
<1>b. \A new : Become(p, new) => local'[p] = new
  BY BecomeValue DEF IndInv
<1>1. CASE q # p
  BY <1>1, <1>n, <1>t, WriterHoldsOthers DEF WriterHolds, StoredBy
<1>2. CASE q = p
  <2> DEFINE l == local[p]
  <2>1. SUFFICES ASSUME local'[p].pc \in WritePC, local'[p].msg \notin targeted'
                 PROVE  WriterHolds(local[p])'
    BY <1>2 DEF WriterHolds
  <2>2. CASE WriteStart(p)
    <3>1. local'[p].pc = "putMessage"
      BY <2>2, <1>b DEF WriteStart, Idle
    <3>2. QED
      BY <3>1 DEF WriterHolds, StoredBy
  <2>3. CASE l.pc \in WritePC /\ local'[p].msg = l.msg /\ (Write(p) \/ ReadPair(p))
    <3>1. /\ l.msg \notin targeted /\ l.msg \in Msg /\ l.len \in Chunk
          /\ l.pc # "putMessage" => l.msg \in messages
          /\ l.pc = "insert" => <<l.msg, l.at>> \in rows \ tombstoned
          /\ \A i \in StoredBy(l) : <<l.msg, i>> \in rows \intersect Searchable
      BY <1>t, <1>2, <2>1, <2>3, HistoryGrows
         DEF IndInv, TypeInv, TypeOK, LocalOK, WriterHolds
    <3>2. \A i : <<l.msg, i>> \notin tombstoned
      BY <3>1 DEF IndInv, TombstonesAimed, MessageOf
    <3>3. CASE WritePutMessage(p)
      <4>1. local'[p].pc = "putNode" /\ local'[p].at = 1 /\ l.msg \in messages'
        BY <3>3, <1>b, <1>t, <1>2 DEF WritePutMessage, PutMessage, Local
      <4>2. StoredBy(local'[p]) = {}
        BY <4>1 DEF StoredBy
      <4>3. QED
        BY <2>3, <4>1, <4>2 DEF WriterHolds, StoredBy
    <3>4. CASE WritePutNode(p)
      <4>1. /\ l.pc = "putNode" /\ local'[p] = [l EXCEPT !.pc = "insert"]
            /\ PutNode(<<l.msg, l.at>>)
        BY <3>4, <1>b DEF WritePutNode, At
      <4>2. local'[p].pc = "insert" /\ local'[p].at = l.at
        BY <4>1, <1>t, <1>2 DEF Local
      <4>3. StoredBy(local'[p]) = StoredBy(l)
        BY <4>1, <4>2 DEF StoredBy
      <4>4. QED
        BY <2>3, <3>1, <3>2, <4>1, <4>2, <4>3 DEF WriterHolds, StoredBy, PutNode, Searchable
    <3>5. CASE WriteInsert(p)
      <4>1. l.pc = "insert" /\ InsertVector(<<l.msg, l.at>>) /\ l.at \in 1..l.len
        BY <3>5, <1>t, <1>2 DEF WriteInsert, LocalOK
      <4>2. \/ local'[p].pc = "putNode" /\ local'[p].at = l.at + 1
            \/ local'[p].pc = "link" /\ ~(l.at < l.len) /\ local'[p].len = l.len
        <5>1. CASE l.at < l.len
          BY <3>5, <5>1, <1>b, <1>t, <1>2 DEF WriteInsert, Local
        <5>2. CASE ~(l.at < l.len)
          BY <3>5, <5>2, <1>b, <1>t, <1>2 DEF WriteInsert, Local
        <5>3. QED
          BY <5>1, <5>2
      <4>3. l.at \in Nat /\ l.len \in Nat
        BY <3>1, <4>1, StorageAssumption DEF Chunk
      <4>4. \A i \in StoredBy(local'[p]) : i \in StoredBy(l) \/ i = l.at
        BY <4>1, <4>2, <4>3 DEF StoredBy
      <4>5. \A i \in StoredBy(local'[p]) : <<l.msg, i>> \in rows' \intersect Searchable'
        BY <3>1, <3>2, <4>1, <4>4 DEF InsertVector, Searchable
      <4>6. l.msg \in messages' /\ local'[p].pc # "insert"
        BY <3>1, <4>1, <4>2 DEF InsertVector
      <4>7. QED
        BY <2>3, <4>5, <4>6 DEF WriterHolds, StoredBy
    <3>6. CASE WritePutEdge(p)
      <4>1. /\ l.pc \in {"link", "linkRecent"}
            /\ local'[p] = [l EXCEPT !.work = Tail(@), !.tx = "closed"]
            /\ PutEdge(Head(l.work), Found(p))
        BY <3>6, <1>b DEF WritePutEdge
      <4>2. local'[p].pc = l.pc /\ local'[p].len = l.len
        BY <4>1, <1>t, <1>2 DEF Local
      <4>3. StoredBy(local'[p]) = StoredBy(l)
        BY <4>1, <4>2 DEF StoredBy
      <4>4. QED
        BY <2>3, <3>1, <4>1, <4>2, <4>3 DEF WriterHolds, StoredBy, PutEdge, Searchable
    <3>7. CASE WriteRecent(p)
      <4>1. l.pc = "link" /\ UNCHANGED store
        BY <3>7 DEF WriteRecent
      <4>2. local'[p].pc = "linkRecent" /\ local'[p].len = l.len
        BY <3>7, <1>b, <1>t, <1>2 DEF WriteRecent, Local
      <4>3. StoredBy(local'[p]) = StoredBy(l)
        BY <4>1, <4>2 DEF StoredBy
      <4>4. QED
        BY <2>3, <3>1, <4>1, <4>2, <4>3 DEF WriterHolds, StoredBy, store, Searchable
    <3>8. CASE WriteReturn(p)
      BY <2>1, <3>8, <1>b DEF WriteReturn, Idle, WritePC
    <3>9. CASE ReadPair(p)
      <4>1. /\ l.pc \in {"link", "linkRecent"} /\ local'[p].pc = l.pc
            /\ local'[p].len = l.len /\ UNCHANGED store
        BY <2>3, <3>9, ReadStays DEF IndInv, WritePC, EdgePC
      <4>2. StoredBy(local'[p]) = StoredBy(l)
        BY <4>1 DEF StoredBy
      <4>3. QED
        BY <2>3, <3>1, <4>1, <4>2 DEF WriterHolds, StoredBy, store, Searchable
    <3>10. QED
      BY <2>3, <3>3, <3>4, <3>5, <3>6, <3>7, <3>8, <3>9 DEF Write
  <2>4. QED
    BY <2>1, <2>2, <2>3, WhoWrites DEF IndInv
<1>3. QED
  BY <1>1, <1>2

LEMMA ForgetterHoldsStep ==
  ASSUME IndInv, TypeInv', NEW p \in Proc, Step(p), NEW q \in Proc
  PROVE  ForgetterHolds(local[q])'
<1>t. local[q] \in Local /\ LocalOK(q, local[q]) /\ ForgetterHolds(local[q])
  BY DEF IndInv, TypeInv, TypeOK
<1>h. targeted \subseteq targeted' /\ raced \subseteq raced'
  BY HistoryGrows DEF IndInv, TypeInv, TypeOK
<1>n. q # p => local'[q] = local[q]
  BY OthersStay DEF IndInv
<1>b. \A new : Become(p, new) => local'[p] = new
  BY BecomeValue DEF IndInv
<1>r. \A m \in targeted \ raced : NodesOf(m)' \subseteq NodesOf(m)
  <2>1. \A n \in rows' \ rows : MessageOf(n) \in targeted => MessageOf(n) \in raced
    BY RowsByWriter DEF IndInv, RacesSeen
  <2>2. QED
    BY <2>1 DEF NodesOf, MessageOf
<1>1. CASE q # p
  BY <1>1, <1>n, <1>t, <1>h, <1>r DEF ForgetterHolds, FoundAbsent, ForgetPC, NodesOf, MessageOf
<1>2. CASE q = p
  <2> DEFINE l == local[p]
  <2>1. CASE local'[p].pc \notin ForgetPC \ {"forgetMessage"}
    BY <1>2, <2>1 DEF ForgetterHolds
  <2>2. CASE ForgetNodes(p)
    <3>1. PICK m \in l.msgs :
            /\ Become(p, [l EXCEPT !.pc = "forgetNode", !.msg = m, !.msgs = @ \ {m},
                                   !.pend = NodesOf(m)])
            /\ targeted' = targeted \union {m}
      BY <2>2 DEF ForgetNodes
    <3>2. local'[p].pc = "forgetNode" /\ local'[p].msg = m /\ local'[p].pend = NodesOf(m)
      BY <3>1, <1>b, <1>t, <1>2 DEF Local
    <3>3. rows' = rows
      BY <2>2 DEF ForgetNodes, store
    <3>4. QED
      BY <1>2, <3>1, <3>2, <3>3 DEF ForgetterHolds, NodesOf, FoundAbsent
  <2> DEFINE left == {n \in rows' : MessageOf(n) = l.msg}
  <2>3. ASSUME Forget(p), ~ForgetNodes(p), local'[p].pc \in ForgetPC \ {"forgetMessage"}
        PROVE  /\ l.pc \in ForgetPC \ {"forgetMessage"} /\ local'[p].msg = l.msg
               /\ l.msg \in targeted
               /\ \A n \in local'[p].pend : MessageOf(n) = l.msg
               /\ local'[p].pc # "forgetNode" => MessageOf(local'[p].path[1]) = l.msg
               /\ l.msg \notin raced => /\ left \subseteq local'[p].pend
                                        /\ FoundAbsent(local'[p]) => local'[p].path[1] \notin left
    <3>1. l.pc \in ForgetPC \ {"forgetMessage"} =>
              /\ l.msg \in targeted
              /\ \A n \in l.pend : MessageOf(n) = l.msg
              /\ l.pc # "forgetNode" => MessageOf(l.path[1]) = l.msg
              /\ l.msg \notin raced => NodesOf(l.msg) \subseteq l.pend
              /\ l.msg \notin raced => left \subseteq NodesOf(l.msg)
              /\ l.msg \notin raced /\ FoundAbsent(l) => l.path[1] \notin left
      BY <1>t, <1>2, <1>r DEF ForgetterHolds, NodesOf
    <3>2. CASE ForgetOutbound(p)
      <4>1. PICK n \in l.pend :
              local'[p] = [l EXCEPT !.pc = "inbound", !.path = <<n>>, !.incident = Outbound(n)]
        BY <3>2, <1>b DEF ForgetOutbound
      <4>2. l.pc = "forgetNode"
        BY <3>2 DEF ForgetOutbound, At
      <4>3. local'[p].msg = l.msg /\ local'[p].pend = l.pend /\ local'[p].path[1] = n
        BY <4>1, <1>t, <1>2 DEF Local
      <4>4. l.pc \in ForgetPC \ {"forgetMessage"}
        BY <4>2 DEF ForgetPC
      <4>5. MessageOf(local'[p].path[1]) = l.msg
        BY <3>1, <4>1, <4>3, <4>4
      <4>6. local'[p].pc # "deleteNode"
        BY <4>1, <1>t, <1>2 DEF Local
      <4>7. QED
        BY <3>1, <4>3, <4>4, <4>5, <4>6 DEF FoundAbsent
    <3>3. CASE ForgetInbound(p) \/ ForgetReadPair(p) \/ ForgetPurgeEdge(p) \/ ForgetVector(p)
               \/ ForgetReadNode(p)
      <4>1. l.pc \in {"inbound", "purge", "deleteNode"}
        BY <3>3 DEF ForgetInbound, ForgetReadPair, ForgetPurgeEdge, ForgetVector,
                    ForgetReadNode, At
      <4>2. local'[p].msg = l.msg /\ local'[p].pend = l.pend /\ local'[p].path = l.path
        <5>1. CASE ForgetInbound(p)
          BY <5>1, <1>b, <1>t, <1>2 DEF ForgetInbound, Local
        <5>2. CASE ForgetReadPair(p) \/ ForgetReadNode(p)
          BY <5>2, ForgetReads DEF IndInv
        <5>3. CASE ForgetPurgeEdge(p)
          BY <5>3, <1>b, <1>t, <1>2 DEF ForgetPurgeEdge, Local
        <5>4. CASE ForgetVector(p)
          BY <5>4, <1>b, <1>t, <1>2 DEF ForgetVector, Local
        <5>5. QED
          BY <3>3, <5>1, <5>2, <5>3, <5>4
      <4>3. FoundAbsent(local'[p]) => local'[p].path[1] \notin left
        <5>1. CASE ForgetInbound(p)
          BY <5>1, <1>b, <1>t, <1>2 DEF ForgetInbound, Local, FoundAbsent
        <5>2. CASE ForgetReadPair(p) \/ ForgetPurgeEdge(p)
          BY <5>2, <1>b, <1>t, <1>2 DEF ForgetReadPair, ForgetPurgeEdge, At, Local, FoundAbsent
        <5>3. CASE ForgetVector(p)
          <6>1. local'[p] = [l EXCEPT !.pc = "deleteNode"] /\ l.tx = "closed"
            BY <5>3, <1>b DEF ForgetVector, Opened
          <6>2. QED
            BY <6>1, <1>t, <1>2 DEF Local, FoundAbsent
        <5>4. CASE ForgetReadNode(p)
          <6>1. /\ rows' = rows /\ local'[p].path = l.path
                /\ local'[p].tx = "absent" => l.path[1] \notin nodes
            BY <5>4, <1>b, <1>t, <1>2 DEF ForgetReadNode, Local, store
          <6>2. QED
            BY <6>1 DEF FoundAbsent, IndInv, TypeInv, TypeOK, StorageTypeOK
        <5>5. QED
          BY <3>3, <5>1, <5>2, <5>3, <5>4
      <4>4. QED
        BY <3>1, <4>1, <4>2, <4>3 DEF ForgetPC
    <3>4. CASE ForgetDeleteNode(p)
      <4>1. /\ l.pc = "deleteNode" /\ DeleteNode(l.path[1], Found(p), l.incident)
            /\ local'[p] = [l EXCEPT !.pc = "forgetNode", !.pend = @ \ {l.path[1]}, !.path = <<>>,
                                     !.incident = {}, !.tx = "closed"]
        BY <3>4, <1>b DEF ForgetDeleteNode
      <4>2. /\ local'[p].pc = "forgetNode" /\ local'[p].msg = l.msg
            /\ local'[p].pend = l.pend \ {l.path[1]}
        BY <4>1, <1>t, <1>2 DEF Local
      <4>3. l.msg \notin raced => l.path[1] \notin left
        <5>1. CASE Found(p)
          BY <4>1, <5>1 DEF DeleteNode
        <5>2. CASE ~Found(p)
          <6>1. l.tx = "absent"
            BY <3>4, <5>2, <1>t, <1>2 DEF ForgetDeleteNode, Opened, Found, Local
          <6>2. QED
            BY <3>1, <4>1, <6>1 DEF FoundAbsent, ForgetPC
        <5>3. QED
          BY <5>1, <5>2
      <4>4. QED
        BY <3>1, <4>1, <4>2, <4>3 DEF ForgetPC, FoundAbsent
    <3>5. CASE ForgetDeleteMessage(p) \/ ForgetReturn(p)
      <4>1. local'[p].pc \in {"forgetMessage", "idle"}
        <5>1. CASE ForgetDeleteMessage(p)
          BY <5>1, <1>b, <1>t, <1>2 DEF ForgetDeleteMessage, Local
        <5>2. CASE ForgetReturn(p)
          BY <5>2, <1>b DEF ForgetReturn, Idle
        <5>3. QED
          BY <3>5, <5>1, <5>2
      <4>2. QED
        BY <2>3, <4>1 DEF ForgetPC
    <3>6. QED
      BY <2>3, <3>2, <3>3, <3>4, <3>5 DEF Forget
  <2>4. local'[p].pc \in ForgetPC \ {"forgetMessage"} => Forget(p)
    <3>1. ForgetStart(p) => local'[p].pc = "forgetMessage"
      BY <1>b DEF ForgetStart, Idle
    <3>2. WriteStart(p) \/ Write(p) => local'[p].pc \in WritePC \union {"idle"}
      BY WriteStays DEF IndInv
    <3>3. RecallStart(p) \/ Recall(p) \/ Abort(p) => local'[p].pc \in RecallPC \union {"idle"}
      BY RecallStays DEF IndInv
    <3>4. ReadPair(p) => local'[p].pc \in EdgePC
      BY ReadStays DEF IndInv
    <3>5. QED
      BY <3>1, <3>2, <3>3, <3>4 DEF Step, Start, Continue, WritePC, RecallPC, ForgetPC, EdgePC
  <2>5. CASE ~ForgetNodes(p) /\ local'[p].pc \in ForgetPC \ {"forgetMessage"}
    BY <1>2, <1>h, <2>3, <2>4, <2>5 DEF ForgetterHolds, NodesOf, MessageOf, FoundAbsent
  <2>6. QED
    BY <2>1, <2>2, <2>5
<1>3. QED
  BY <1>1, <1>2

LEMMA NoOrphansStep ==
  ASSUME IndInv, TypeInv', NEW p \in Proc, Step(p)
  PROVE  NoOrphans'
<1> SUFFICES ASSUME NEW n \in nodes', MessageOf(n) \notin raced'
             PROVE  n \in rows' /\ MessageOf(n) \in messages'
  BY DEF NoOrphans, MessageOf
<1> DEFINE l == local[p]
<1>t. l \in Local /\ LocalOK(p, l) /\ WriterHolds(l) /\ ForgetterHolds(l) /\ TypeInv
  BY DEF IndInv, TypeInv, TypeOK
<1>h. MessageOf(n) \notin raced
  BY HistoryGrows DEF IndInv, TypeInv, TypeOK
<1>w. ASSUME l.pc \in WritePC, MessageOf(n) = l.msg
      PROVE  l.msg \notin targeted
  BY <1>w, <1>h, <1>t DEF IndInv, RacesSeen, Writing, LocalOK
<1>1. CASE n \notin nodes
  <2>1. /\ WritePutNode(p) \/ WriteInsert(p)
        /\ n = <<l.msg, l.at>> /\ MessageOf(n) = l.msg
    BY <1>1, <1>t, NodesByWriter DEF MessageOf
  <2>2. l.pc \in {"putNode", "insert"} /\ l.msg \notin targeted
    BY <2>1, <1>w DEF WritePutNode, WriteInsert, At, WritePC
  <2>3. l.msg \in messages
    BY <2>2, <1>t DEF WriterHolds, WritePC
  <2>4. CASE WritePutNode(p)
    BY <2>1, <2>3, <2>4 DEF WritePutNode, PutNode
  <2>5. CASE WriteInsert(p)
    <3>1. l.pc = "insert"
      BY <2>5 DEF WriteInsert
    <3>2. <<l.msg, l.at>> \in rows
      BY <2>2, <3>1, <1>t DEF WriterHolds, WritePC
    <3>3. QED
      BY <2>1, <2>3, <2>5, <3>2 DEF WriteInsert, InsertVector
  <2>6. QED
    BY <2>1, <2>4, <2>5
<1>2. CASE n \in nodes
  <2>1. n \in rows /\ MessageOf(n) \in messages
    BY <1>2, <1>h DEF IndInv, NoOrphans
  <2>2. n \in rows'
    BY <2>1, <1>t, WhoStores DEF store, WritePutMessage, WritePutNode, WriteInsert,
        ForgetVector, ForgetDeleteNode, ForgetDeleteMessage, EdgeStep, PutMessage, PutNode,
        InsertVector, DeleteVector, DeleteNode, DeleteMessage, PutEdge, UpdateEdge, DeleteEdge
  <2>3. CASE ForgetDeleteMessage(p)
    <3>1. l.pc = "forgetNode" /\ l.pend = {} /\ messages' = messages \ {l.msg}
      BY <2>3 DEF ForgetDeleteMessage, At, DeleteMessage
    <3>2. l.msg \notin raced => NodesOf(l.msg) = {}
      BY <3>1, <1>t DEF ForgetterHolds, ForgetPC
    <3>3. MessageOf(n) # l.msg
      BY <3>2, <2>1, <1>h DEF NodesOf
    <3>4. QED
      BY <2>1, <2>2, <3>1, <3>3
  <2>4. CASE ~ForgetDeleteMessage(p)
    <3>1. messages \subseteq messages'
      BY <2>4, <1>t, WhoStores DEF store, WritePutMessage, WritePutNode, WriteInsert,
          ForgetVector, ForgetDeleteNode, EdgeStep, PutMessage, PutNode,
          InsertVector, DeleteVector, DeleteNode, PutEdge, UpdateEdge, DeleteEdge
    <3>2. QED
      BY <2>1, <2>2, <3>1
  <2>5. QED
    BY <2>3, <2>4
<1>3. QED
  BY <1>1, <1>2

LEMMA WholeStep ==
  ASSUME IndInv, TypeInv', NEW p \in Proc, Step(p)
  PROVE  WholeUntilForgotten'
<1> SUFFICES ASSUME NEW w \in written', w[1] \notin targeted'
             PROVE  /\ w[1] \in messages'
                    /\ \A i \in 1..w[2] : <<w[1], i>> \in rows' \intersect Searchable'
  BY DEF WholeUntilForgotten
<1> DEFINE l == local[p]
<1>t. l \in Local /\ LocalOK(p, l) /\ WriterHolds(l) /\ TypeInv
  BY DEF IndInv, TypeInv, TypeOK
<1>h. w[1] \notin targeted
  BY HistoryGrows DEF IndInv, TypeInv, TypeOK
<1>1. w[1] \in Msg /\ w[2] \in Chunk
  BY DEF TypeInv, TypeOK, Node
<1>2. /\ w[1] \in messages
      /\ \A i \in 1..w[2] : <<w[1], i>> \in rows \intersect Searchable
  <2>1. CASE w \in written
    BY <2>1, <1>h DEF IndInv, WholeUntilForgotten
  <2>2. CASE w \notin written
    <3>1. WriteReturn(p)
      BY <2>2, WhoRecords DEF Step, history, ForgetNodes
    <3>2. w = <<l.msg, l.len>> /\ l.pc = "linkRecent"
      BY <2>2, <3>1 DEF WriteReturn, At
    <3>3. StoredBy(l) = 1..l.len
      BY <3>2 DEF StoredBy
    <3>4. QED
      BY <3>2, <3>3, <1>h, <1>t DEF WriterHolds, WritePC
  <2>3. QED
    BY <2>1, <2>2
<1>3. \A i \in 1..w[2] : i \in Chunk
  BY <1>1, StorageAssumption DEF Chunk
<1>4. QED
  BY <1>1, <1>2, <1>3, <1>h, Untouched DEF Searchable

LEMMA IndInvInit == Init => IndInv
<1> SUFFICES ASSUME Init
             PROVE  IndInv
  OBVIOUS
<1>1. TypeInv
  BY TypeInvInit
<1>2. /\ messages = {} /\ nodes = {} /\ tombstoned = {} /\ written = {}
      /\ targeted = {} /\ raced = {} /\ minted = 0
      /\ \A p \in Proc : local[p] = Idle
  BY DEF Init, StorageInit
<1>3. IdsMinted
  BY <1>2 DEF IdsMinted, Idle
<1>4. RacesSeen /\ TombstonesAimed /\ NoOrphans /\ WholeUntilForgotten
  BY <1>2 DEF RacesSeen, TombstonesAimed, NoOrphans, WholeUntilForgotten
<1>5. \A p \in Proc : WriterHolds(local[p]) /\ ForgetterHolds(local[p])
  BY <1>2 DEF WriterHolds, ForgetterHolds, Idle, WritePC, ForgetPC, EdgePC
<1>6. QED
  BY <1>1, <1>3, <1>4, <1>5 DEF IndInv

LEMMA IndInvStep ==
  ASSUME IndInv, [Next]_vars
  PROVE  IndInv'
<1>1. TypeInv'
  BY NextTyped DEF IndInv
<1>2. CASE UNCHANGED vars
  BY <1>1, <1>2 DEF vars, IndInv, IdsMinted, RacesSeen, Writing, TombstonesAimed, WriterHolds,
      StoredBy, ForgetterHolds, NoOrphans, WholeUntilForgotten, NodesOf, MessageOf, Searchable
<1>3. ASSUME NEW p \in Proc, Step(p)
      PROVE  IndInv'
  BY <1>1, <1>3, IdsMintedStep, RacesSeenStep, TombstonesStep, WriterHoldsStep,
     ForgetterHoldsStep, NoOrphansStep, WholeStep DEF IndInv
<1>4. QED
  BY <1>2, <1>3 DEF Next, Rest, Step

LEMMA Invariant == Spec => []IndInv
<1>1. IndInv /\ [Next]_vars => IndInv'
  BY IndInvStep
<1>2. QED
  BY <1>1, IndInvInit, PTL DEF Spec

(* A message and its nodes leave no orphan behind, at whatever point a     *)
(* Write or a Forget dies, unless a Forget overtook the Write (write.go    *)
(* stores the message first, forget.go deletes it last).                   *)
THEOREM OrphansOnlyByRaces == Spec => []NoOrphans
<1>1. IndInv => NoOrphans
  BY DEF IndInv
<1>2. QED
  BY <1>1, Invariant, PTL

(* A message whose Write returned keeps all its nodes searchable until a   *)
(* Forget of that message begins: no Recall, no other Write and no Forget  *)
(* of another message takes any of it away.                                *)
THEOREM WrittenIsKept == Spec => []WholeUntilForgotten
<1>1. IndInv => WholeUntilForgotten
  BY DEF IndInv
<1>2. QED
  BY <1>1, Invariant, PTL

(* A node that is gone stays gone once its Write has ended: PutEdge and    *)
(* UpdateNode by a call that still holds its id do not bring it back       *)
(* (graph.go MATCHes the endpoints of an edge and never merges them).      *)
THEOREM GoneStaysGone == Spec => NoResurrection
<1>1. ASSUME TypeInv, [Next]_vars
      PROVE  [\A n \in nodes' \ nodes : Writing(MessageOf(n))]_vars
  <2>1. ASSUME NEW p \in Proc, Step(p), NEW n \in nodes' \ nodes
        PROVE  Writing(MessageOf(n))
    <3>1. /\ WritePutNode(p) \/ WriteInsert(p)
          /\ MessageOf(n) = local[p].msg /\ p \in Writers
      BY <1>1, <2>1, NodesByWriter DEF MessageOf
    <3>2. local[p].pc \in WritePC
      BY <3>1 DEF WritePutNode, WriteInsert, At, WritePC
    <3>3. QED
      BY <3>1, <3>2 DEF Writing
  <2>2. QED
    BY <1>1, <2>1 DEF Next, Rest, Step
<1>2. QED
  BY <1>1, CallsWellFormed, PTL DEF Spec, NoResurrection

-----------------------------------------------------------------------------
(* The node counter.                                                       *)

LEMMA NodeCountStep ==
  ASSUME IndInv, IndInv', NodeCountExact, [Next]_vars
  PROVE  NodeCountExact'
<1> DEFINE Counted(c, s, x) == c <= Cardinality(s) /\ (x \/ c = Cardinality(s))
<1> SUFFICES ASSUME raced' = {}
             PROVE  Counted(nodeCount', nodes', "node" \in crossed')
  BY DEF NodeCountExact
<1>f. IsFiniteSet(nodes) /\ Cardinality(nodes) \in Nat /\ nodeCount \in Int
  BY NodesFinite, FS_Subset, FS_CardinalityType DEF IndInv, TypeInv, TypeOK, StorageTypeOK
<1>1. CASE UNCHANGED vars
  BY <1>1 DEF vars, NodeCountExact
<1>2. ASSUME NEW p \in Proc, Step(p)
      PROVE  Counted(nodeCount', nodes', "node" \in crossed')
  <2> DEFINE l == local[p]
  <2>t. l \in Local /\ LocalOK(p, l) /\ WriterHolds(l) /\ TypeInv
    BY DEF IndInv, TypeInv, TypeOK
  <2>0. raced = {} /\ Counted(nodeCount, nodes, "node" \in crossed)
    BY <1>2, HistoryGrows DEF IndInv, TypeInv, TypeOK, NodeCountExact
  <2>g. crossed \subseteq crossed'
    BY <1>2, <2>t, CrossedGrows DEF Next, Step
  <2>1. CASE nodes' = nodes /\ nodeCount' = nodeCount
    BY <2>0, <2>1, <2>g
  <2>2. CASE WritePutNode(p)
    <3>1. PICK n : nodes' = nodes \union {n}
                   /\ nodeCount' = nodeCount + (IF n \in nodes THEN 0 ELSE 1)
      BY <2>2 DEF WritePutNode, PutNode
    <3>2. Cardinality(nodes') = IF n \in nodes THEN Cardinality(nodes) ELSE Cardinality(nodes) + 1
      BY <1>f, <3>1, FS_AddElement
    <3>3. QED
      BY <1>f, <2>0, <2>g, <3>1, <3>2
  <2>3. CASE WriteInsert(p)
    <3>1. l.pc = "insert" /\ InsertVector(<<l.msg, l.at>>)
      BY <2>3 DEF WriteInsert
    <3>2. Writing(l.msg)
      BY <3>1, <2>t DEF Writing, WritePC, LocalOK
    <3>3. l.msg \notin targeted
      BY <3>2, <2>0 DEF IndInv, RacesSeen
    <3>4. <<l.msg, l.at>> \in rows
      BY <3>1, <3>3, <2>t DEF WriterHolds, WritePC
    <3>5. nodes' = nodes /\ nodeCount' = nodeCount
      BY <3>1, <3>4, <2>t DEF InsertVector, TypeInv, TypeOK, StorageTypeOK
    <3>6. QED
      BY <2>1, <3>5
  <2>4. CASE ForgetDeleteNode(p)
    <3>1. PICK n, found, attached : DeleteNode(n, found, attached)
      BY <2>4 DEF ForgetDeleteNode
    <3>2. CASE found /\ n \in nodes
      <4>1. nodes' = nodes \ {n} /\ nodeCount' = nodeCount - 1
        BY <3>1, <3>2 DEF DeleteNode
      <4>2. Cardinality(nodes') = Cardinality(nodes) - 1
        BY <1>f, <3>2, <4>1, FS_RemoveElement
      <4>3. QED
        BY <1>f, <2>0, <2>g, <4>1, <4>2
    <3>3. CASE found /\ n \notin nodes
      <4>1. nodes' = nodes /\ nodeCount' = nodeCount - 1 /\ "node" \in crossed'
        BY <3>1, <3>3 DEF DeleteNode
      <4>2. QED
        BY <1>f, <2>0, <4>1
    <3>4. CASE ~found
      BY <2>1, <3>1, <3>4 DEF DeleteNode, store
    <3>5. QED
      BY <3>2, <3>3, <3>4
  <2>5. CASE ~WritePutNode(p) /\ ~WriteInsert(p) /\ ~ForgetDeleteNode(p)
    <3>1. nodes' = nodes /\ nodeCount' = nodeCount
      BY <1>2, <2>5, <2>t, WhoStores DEF store, WritePutMessage, ForgetVector,
          ForgetDeleteMessage, EdgeStep, PutMessage, DeleteVector, DeleteMessage, PutEdge,
          UpdateEdge, DeleteEdge
    <3>2. QED
      BY <2>1, <3>1
  <2>6. QED
    BY <2>2, <2>3, <2>4, <2>5
<1>3. QED
  BY <1>1, <1>2 DEF Next, Rest, Step

(* As long as no Forget overtakes a Write, node_count never exceeds the    *)
(* number of :Node rows, and falls short of it only by DeleteNode          *)
(* transactions that have both read a row and both subtracted it: PutNode  *)
(* counts new rows only, DeleteNode rows it has found, and the vector      *)
(* insert's MERGE finds its row (graph.go, vectorindex.go).                *)
THEOREM NodeCountRight == Spec => []NodeCountExact
<1>1. Init => NodeCountExact
  BY FS_EmptySet DEF Init, StorageInit, NodeCountExact
<1>2. IndInv /\ IndInv' /\ NodeCountExact /\ [Next]_vars => NodeCountExact'
  BY NodeCountStep
<1>3. QED
  BY <1>1, <1>2, Invariant, PTL DEF Spec

-----------------------------------------------------------------------------
(* The edges: where they lead, and that they are counted once.             *)

(* What holds among some nodes holds among more of them.                   *)
LEMMA LinksGrow ==
  ASSUME NEW S, NEW T, S \subseteq T, NEW l, LinksHold(l, S)
  PROVE  LinksHold(l, T)
BY DEF LinksHold, Linkable, Walkable

LEMMA IdleLinks ==
  ASSUME NEW S
  PROVE  LinksHold(Idle, S)
BY DEF LinksHold, Idle, RecallPC

(* Both directions of every pair of a sequence join the same two nodes.    *)
LEMMA BothWaysLinks ==
  ASSUME NEW S, NEW s \in Seq(Edge), \A i \in 1..Len(s) : Linkable(s[i], S)
  PROVE  \A k \in 1..Len(BothWays(s)) : Linkable(BothWays(s)[k], S)
<1>1. Len(s) \in Nat /\ 2 * Len(s) \in Nat /\ Len(BothWays(s)) = 2 * Len(s)
  BY BothWaysType
<1>2. ASSUME NEW k \in 1..2 * Len(s)
      PROVE  Linkable(IF k % 2 = 1 THEN s[(k + 1) \div 2] ELSE Reversed(s[k \div 2]), S)
  <2>1. CASE k % 2 = 1
    <3>1. (k + 1) \div 2 \in 1..Len(s)
      BY <1>1, <2>1
    <3>2. QED
      BY <2>1, <3>1
  <2>2. CASE k % 2 # 1
    <3>1. k \div 2 \in 1..Len(s)
      BY <1>1, <2>2
    <3>2. QED
      BY <2>2, <3>1 DEF Reversed, Linkable
  <2>3. QED
    BY <2>1, <2>2
<1>3. QED
  BY <1>1, <1>2 DEF BothWays

(* While no Forget has begun to remove a message, no node disappears.      *)
LEMMA PresentGrows ==
  ASSUME IndInv, TypeInv', NEW p \in Proc, Step(p)
  PROVE  nodes \subseteq Present /\ Present \subseteq Present' /\ nodes' \subseteq Present'
<1> DEFINE l == local[p]
<1>t. TypeInv /\ nodes \subseteq Node /\ nodes' \subseteq Node /\ targeted \subseteq targeted'
  BY HistoryGrows DEF IndInv, TypeInv, TypeOK, StorageTypeOK
<1>1. ASSUME targeted' = {}
      PROVE  nodes \subseteq nodes'
  <2>1. ~ForgetDeleteNode(p)
    BY <1>1, <1>t DEF ForgetDeleteNode, ForgetPC, IndInv, ForgetterHolds
  <2>2. QED
    BY <1>t, <2>1, WhoStores DEF store, WritePutMessage, WritePutNode, WriteInsert,
        ForgetVector, ForgetDeleteMessage, EdgeStep, PutMessage, PutNode, InsertVector,
        DeleteVector, DeleteMessage, PutEdge, UpdateEdge, DeleteEdge
<1>2. QED
  BY <1>1, <1>t DEF Present

LEMMA WriteLinks ==
  ASSUME IndInv, IndInv', NEW p \in Proc, LinksHold(local[p], Present),
         WriteStart(p) \/ Write(p)
  PROVE  LinksHold(local'[p], Present')
<1> SUFFICES ASSUME NEW S, S = Present'
             PROVE  LinksHold(local'[p], S)
  OBVIOUS
<1> DEFINE l == local[p]
<1>t. TypeInv /\ TypeInv' /\ l \in Local /\ LocalOK(p, l) /\ local'[p] \in Local
  BY DEF IndInv, TypeInv, TypeOK
<1>s. nodes \subseteq S /\ nodes' \subseteq S /\ S \subseteq Node
  BY <1>t, PresentGrows DEF Present, TypeInv, TypeOK, StorageTypeOK, Step, Start, Continue
<1>b. \A new : Become(p, new) => local'[p] = new
  BY <1>t, BecomeValue
<1>l. LinksHold(l, S)
  BY <1>t, PresentGrows, LinksGrow DEF Step, Start, Continue
<1>p. WritePC \intersect (RecallPC \union ForgetPC) = {}
  BY DEF RecallPC, WritePC, ForgetPC
<1>1. CASE WriteStart(p)
  <2>1. PICK c : local'[p] = [Idle EXCEPT !.pc = "putMessage", !.msg = minted + 1, !.len = c]
    BY <1>1, <1>b DEF WriteStart
  <2>2. QED
    BY <2>1 DEF LinksHold, Idle, RecallPC, ForgetPC
<1>2. CASE WritePutMessage(p) \/ WritePutNode(p)
  <2>1. /\ l.pc \notin ForgetPC /\ local'[p].pc \notin RecallPC
        /\ local'[p].work = l.work /\ local'[p].cands = l.cands
        /\ local'[p].queue = l.queue /\ local'[p].visit = l.visit
    <3>1. CASE WritePutMessage(p)
      BY <3>1, <1>b, <1>t DEF WritePutMessage, At, Local, RecallPC, ForgetPC
    <3>2. CASE WritePutNode(p)
      BY <3>2, <1>b, <1>t DEF WritePutNode, At, Local, RecallPC, ForgetPC
    <3>3. QED
      BY <1>2, <3>1, <3>2
  <2>2. QED
    BY <2>1, <1>l DEF LinksHold
<1>3. CASE WriteInsert(p)
  <2> DEFINE pairs == [i \in 1..l.len - 1 |-> <<<<l.msg, i>>, <<l.msg, i + 1>>>>]
  <2>1. CASE l.at < l.len
    <3>1. local'[p] = [l EXCEPT !.pc = "putNode", !.at = @ + 1] /\ l.pc = "insert"
      BY <1>3, <1>b, <2>1 DEF WriteInsert
    <3>2. QED
      BY <3>1, <1>t, <1>l DEF LinksHold, Local, RecallPC, ForgetPC
  <2>2. CASE ~(l.at < l.len)
    <3>1. local'[p] = [l EXCEPT !.pc = "link", !.work = BothWays(pairs)]
      BY <1>3, <1>b, <2>2 DEF WriteInsert
    <3>2. l.len \in Chunk /\ l.msg \in Msg /\ l.pc = "insert"
      BY <1>3, <1>t DEF WriteInsert, LocalOK, WritePC
    <3>3. \A i \in 1..l.len : <<l.msg, i>> \in S
      <4>1. ASSUME targeted' = {}, NEW i \in 1..l.len
            PROVE  <<l.msg, i>> \in nodes'
        <5>1. WriterHolds(local[p])' /\ local'[p].pc = "link" /\ local'[p].msg = l.msg
              /\ local'[p].len = l.len
          BY <3>1, <1>t DEF Local, IndInv
        <5>2. StoredBy(local[p])' = 1..l.len
          BY <5>1 DEF StoredBy
        <5>3. <<l.msg, i>> \in rows'
          BY <4>1, <5>1, <5>2 DEF WriterHolds, WritePC
        <5>4. QED
          BY <5>3, <1>t DEF TypeInv, TypeOK, StorageTypeOK
      <4>2. \A i \in 1..l.len : <<l.msg, i>> \in Node
        BY <3>2, StorageAssumption DEF Node, Chunk
      <4>3. QED
        BY <4>1, <4>2 DEF Present
    <3>4. l.len \in Nat /\ l.len - 1 \in Nat
      BY <3>2, StorageAssumption DEF Chunk
    <3>5. \A i \in 1..l.len - 1 : Linkable(<<<<l.msg, i>>, <<l.msg, i + 1>>>>, S)
      BY <3>3, <3>4 DEF Linkable
    <3>6. pairs \in Seq(Edge) /\ Len(pairs) = l.len - 1
      <4>1. \A i \in 1..l.len - 1 : <<<<l.msg, i>>, <<l.msg, i + 1>>>> \in Edge
        BY <3>3, <3>4, <1>s DEF Edge
      <4>2. pairs \in [1..l.len - 1 -> Edge]
        BY <4>1
      <4>3. QED
        BY <4>2, <3>4
    <3>7. \A i \in 1..Len(pairs) : Linkable(pairs[i], S)
      BY <3>5, <3>6
    <3>8. \A k \in 1..Len(BothWays(pairs)) : Linkable(BothWays(pairs)[k], S)
      BY <3>6, <3>7, BothWaysLinks
    <3>9. QED
      BY <3>1, <3>8, <1>t, <1>l DEF LinksHold, Local, RecallPC
  <2>3. QED
    BY <2>1, <2>2
<1>4. CASE WritePutEdge(p)
  <2>1. local'[p] = [l EXCEPT !.work = Tail(@), !.tx = "closed"] /\ l.pc \in {"link", "linkRecent"}
        /\ l.work # <<>> /\ l.work \in Seq(Edge)
    BY <1>4, <1>b, <1>t DEF WritePutEdge, Opened, LocalOK, Local
  <2>2. \A i \in 1..Len(Tail(l.work)) : Linkable(Tail(l.work)[i], S)
    BY <2>1, <1>l DEF LinksHold, ForgetPC
  <2>3. QED
    BY <2>1, <2>2, <1>t, <1>l DEF LinksHold, Local, RecallPC
<1>5. CASE WriteRecent(p)
  <2>0. PICK since \in 1..l.msg : \E recent \in RecentNodeIDs(since, l.msg) :
          Become(p, [l EXCEPT !.pc = "linkRecent",
                              !.work = BothWays([i \in DOMAIN recent |->
                                                    <<<<l.msg, 1>>, recent[i]>>])])
    BY <1>5 DEF WriteRecent
  <2>1. PICK recent \in RecentNodeIDs(since, l.msg) :
          Become(p, [l EXCEPT !.pc = "linkRecent",
                              !.work = BothWays([i \in DOMAIN recent |->
                                                    <<<<l.msg, 1>>, recent[i]>>])])
    BY <2>0
  <2> DEFINE pairs == [i \in DOMAIN recent |-> <<<<l.msg, 1>>, recent[i]>>]
  <2>2. local'[p] = [l EXCEPT !.pc = "linkRecent", !.work = BothWays(pairs)]
    BY <2>1, <1>b
  <2>3. l.pc = "link" /\ l.len \in Chunk /\ l.msg \in Msg /\ targeted' = targeted /\ nodes' = nodes
    BY <1>5, <1>t DEF WriteRecent, LocalOK, WritePC, store, history
  <2>4. recent \in Seq(rows) /\ \A i \in DOMAIN recent : MessageOf(recent[i]) # l.msg
    <3>1. rows \subseteq Node
      BY <1>t DEF TypeInv, TypeOK, StorageTypeOK
    <3>2. recent \in Seq(rows)
      BY <3>1, RecentType
    <3>3. recent \in SetToSeqs({n \in {x \in rows : MessageOf(x) >= since /\ MessageOf(x) # l.msg} :
               Cardinality({x \in {y \in rows : MessageOf(y) >= since /\ MessageOf(y) # l.msg} :
                              Newer(x, n)}) < RecentN})
      BY DEF RecentNodeIDs
    <3>4. QED
      BY <3>2, <3>3 DEF SetToSeqs
  <2>5. <<l.msg, 1>> \in S
    <3>1. CASE targeted = {}
      <4>1. WriterHolds(l) /\ StoredBy(l) = 1..l.len /\ 1 \in 1..l.len
        BY <2>3, StorageAssumption DEF IndInv, StoredBy, Chunk
      <4>2. <<l.msg, 1>> \in rows
        BY <4>1, <2>3, <3>1 DEF WriterHolds, WritePC
      <4>3. QED
        BY <4>2, <1>s, <1>t DEF TypeInv, TypeOK, StorageTypeOK
    <3>2. CASE targeted # {}
      BY <3>2, <2>3, StorageAssumption DEF Present, Node, Chunk
    <3>3. QED
      BY <3>1, <3>2
  <2>6. \A i \in DOMAIN recent : Linkable(<<<<l.msg, 1>>, recent[i]>>, S)
    BY <2>4, <2>5, <1>s, <1>t DEF Linkable, MessageOf, TypeInv, TypeOK, StorageTypeOK
  <2>7. pairs \in Seq(Edge) /\ Len(pairs) = Len(recent) /\ DOMAIN recent = 1..Len(recent)
    <3>1. \A i \in DOMAIN recent : <<<<l.msg, 1>>, recent[i]>> \in Edge
      BY <2>6, <1>s DEF Linkable, Edge
    <3>2. DOMAIN recent = 1..Len(recent) /\ Len(recent) \in Nat
      BY <2>4
    <3>3. QED
      BY <3>1, <3>2
  <2>8. \A i \in 1..Len(pairs) : Linkable(pairs[i], S)
    BY <2>6, <2>7
  <2>9. \A k \in 1..Len(BothWays(pairs)) : Linkable(BothWays(pairs)[k], S)
    BY <2>7, <2>8, BothWaysLinks
  <2>10. QED
    BY <2>2, <2>9, <1>t, <1>l DEF LinksHold, Local, RecallPC
<1>6. CASE WriteReturn(p)
  BY <1>6, <1>b, IdleLinks DEF WriteReturn
<1>7. QED
  BY <1>1, <1>2, <1>3, <1>4, <1>5, <1>6 DEF Write

LEMMA ForgetLinks ==
  ASSUME IndInv, IndInv', NEW p \in Proc, LinksHold(local[p], Present),
         ForgetStart(p) \/ Forget(p)
  PROVE  LinksHold(local'[p], Present')
<1> SUFFICES ASSUME NEW S, S = Present'
             PROVE  LinksHold(local'[p], S)
  OBVIOUS
<1> DEFINE l == local[p]
<1>t. TypeInv /\ TypeInv' /\ l \in Local
  BY DEF IndInv, TypeInv, TypeOK
<1>b. \A new : Become(p, new) => local'[p] = new
  BY <1>t, BecomeValue
<1>l. LinksHold(l, S)
  BY <1>t, PresentGrows, LinksGrow DEF Step, Start, Continue
<1>1. local'[p].pc \notin RecallPC
  BY <1>t, ForgetStays DEF ForgetPC, RecallPC
<1>2. CASE ForgetStart(p)
  <2>1. PICK msgs : local'[p] = [Idle EXCEPT !.pc = "forgetMessage", !.msgs = msgs]
    BY <1>2, <1>b DEF ForgetStart
  <2>2. QED
    BY <2>1 DEF LinksHold, Idle, RecallPC
<1>3. CASE Forget(p)
  <2>1. \/ /\ local'[p].pc \in ForgetPC /\ local'[p].cands = l.cands
           /\ local'[p].queue = l.queue /\ local'[p].visit = l.visit
        \/ local'[p] = Idle
    <3>1. CASE ForgetNodes(p)
      BY <3>1, <1>b, <1>t DEF ForgetNodes, Local, ForgetPC
    <3>2. CASE ForgetOutbound(p)
      BY <3>2, <1>b, <1>t DEF ForgetOutbound, Local, ForgetPC
    <3>3. CASE ForgetInbound(p)
      BY <3>3, <1>b, <1>t DEF ForgetInbound, Local, ForgetPC
    <3>4. CASE ForgetReadPair(p) \/ ForgetReadNode(p)
      BY <3>4, <1>t, ForgetReads DEF ForgetPC
    <3>5. CASE ForgetPurgeEdge(p)
      BY <3>5, <1>b, <1>t DEF ForgetPurgeEdge, At, Local, ForgetPC
    <3>6. CASE ForgetVector(p)
      BY <3>6, <1>b, <1>t DEF ForgetVector, Local, ForgetPC
    <3>7. CASE ForgetDeleteNode(p) \/ ForgetDeleteMessage(p)
      BY <3>7, <1>b, <1>t DEF ForgetDeleteNode, ForgetDeleteMessage, Local, ForgetPC
    <3>8. CASE ForgetReturn(p)
      BY <3>8, <1>b DEF ForgetReturn
    <3>9. QED
      BY <1>3, <3>1, <3>2, <3>3, <3>4, <3>5, <3>6, <3>7, <3>8 DEF Forget
  <2>2. QED
    BY <2>1, <1>1, <1>l, IdleLinks DEF LinksHold
<1>4. QED
  BY <1>2, <1>3

(* What is in a sequence with one more element.                            *)
LEMMA AppendParts ==
  ASSUME NEW T, NEW q \in Seq(T), NEW x \in T
  PROVE  \A i \in 1..Len(Append(q, x)) :
            (i \in 1..Len(q) /\ Append(q, x)[i] = q[i]) \/ Append(q, x)[i] = x
OBVIOUS

(* A hop to the far node of an edge keeps a walk a walk.                   *)
LEMMA HopWalks ==
  ASSUME NEW S, NEW q \in Seq(Node), Walkable(q, S),
         NEW e \in Edge, e[1] = Last(q), Linkable(e, S)
  PROVE  Walkable(Append(q, e[2]), S)
<1> DEFINE r == Append(q, e[2])
<1>1. Len(q) \in Nat /\ Len(r) = Len(q) + 1 /\ r[Len(q) + 1] = e[2]
      /\ \A i \in 1..Len(q) : r[i] = q[i]
  OBVIOUS
<1>2. ASSUME NEW i \in 1..Len(r)
      PROVE  r[i] \in S
  BY <1>1 DEF Walkable, Linkable
<1>3. ASSUME NEW i \in 1..Len(r) - 1
      PROVE  r[i] # r[i + 1]
  <2>1. CASE i = Len(q)
    BY <1>1, <1>3, <2>1 DEF Last, Linkable
  <2>2. CASE i # Len(q)
    BY <1>1, <1>3, <2>2 DEF Walkable
  <2>3. QED
    BY <2>1, <2>2
<1>4. QED
  BY <1>2, <1>3 DEF Walkable

LEMMA AlongLinks ==
  ASSUME NEW S, NEW q \in Seq(Node), Walkable(q, S), Len(q) > 1
  PROVE  \A i \in 1..Len(EdgesAlong(q)) : Linkable(EdgesAlong(q)[i], S)
<1>1. Len(q) \in Nat /\ Len(EdgesAlong(q)) = Len(q) - 1
  <2>1. Len(q) \in Nat /\ Len(q) - 1 \in Nat
    OBVIOUS
  <2>2. EdgesAlong(q) \in Seq(Edge) /\ DOMAIN EdgesAlong(q) = 1..Len(q) - 1
    BY EdgesAlongType DEF EdgesAlong
  <2>3. QED
    BY <2>1, <2>2
<1>2. QED
  BY <1>1 DEF EdgesAlong, Walkable, Linkable

(* An ordering of linkable pairs is linkable, both ways.                   *)
LEMMA TurnsLink ==
  ASSUME NEW S, S \subseteq Node, NEW pairs, \A e \in pairs : e \in Edge /\ Linkable(e, S),
         NEW turns \in SetToSeqs(pairs)
  PROVE  \A i \in 1..Len(BothWays(turns)) : Linkable(BothWays(turns)[i], S)
<1>1. pairs \subseteq Edge
  OBVIOUS
<1>2. turns \in Seq(pairs)
  BY <1>1, NodesFinite, OrderingIsSeq
<1>3. turns \in Seq(Edge)
  BY <1>1, <1>2, SeqMonotonic
<1>4. \A i \in 1..Len(turns) : Linkable(turns[i], S)
  BY <1>2
<1>5. QED
  BY <1>3, <1>4, BothWaysLinks

LEMMA RecallLinks ==
  ASSUME IndInv, IndInv', EdgesAttached, NEW p \in Proc, LinksHold(local[p], Present),
         RecallStart(p) \/ Recall(p) \/ Abort(p)
  PROVE  LinksHold(local'[p], Present')
<1> SUFFICES ASSUME NEW S, S = Present'
             PROVE  LinksHold(local'[p], S)
  OBVIOUS
<1> DEFINE l == local[p]
<1>t. TypeInv /\ TypeInv' /\ l \in Local /\ LocalOK(p, l) /\ edges \subseteq Edge
  BY DEF IndInv, TypeInv, TypeOK, StorageTypeOK
<1>s. nodes \subseteq S /\ S \subseteq Node
  BY <1>t, PresentGrows DEF Present, TypeInv, TypeOK, StorageTypeOK, Step, Start, Continue
<1>b. \A new : Become(p, new) => local'[p] = new
  BY <1>t, BecomeValue
<1>l. LinksHold(l, S)
  BY <1>t, PresentGrows, LinksGrow DEF Step, Start, Continue
<1>d. ASSUME l.pc \in RecallPC, l.work # <<>>
      PROVE  LinksHold(EdgeDone(l), S)
  <2>1. l.work \in Seq(Edge)
    BY <1>t DEF Local
  <2>2. \A i \in 1..Len(Tail(l.work)) : Linkable(Tail(l.work)[i], S)
    BY <2>1, <1>d, <1>l DEF LinksHold, RecallPC, ForgetPC
  <2>3. /\ EdgeDone(l).work = Tail(l.work) /\ EdgeDone(l).cands = l.cands
        /\ EdgeDone(l).queue = l.queue /\ EdgeDone(l).visit = l.visit
        /\ EdgeDone(l).path = l.path /\ EdgeDone(l).incident = l.incident
    BY <1>t DEF EdgeDone, Local
  <2>4. QED
    BY <2>2, <2>3, <1>d, <1>l DEF LinksHold
<1>1. CASE RecallStart(p)
  <2>1. PICK hits : local'[p] = [Idle EXCEPT !.pc = "bump", !.pend = hits]
    BY <1>1, <1>b DEF RecallStart
  <2>2. QED
    BY <2>1 DEF LinksHold, Idle, Walkable
<1>2. CASE RecallBump(p)
  <2>1. PICK n : local'[p] = [l EXCEPT !.pend = @ \ {n}, !.cands = @ \union ({n} \intersect nodes)]
    BY <1>2, <1>b DEF RecallBump
  <2>2. QED
    BY <2>1, <1>l, <1>s, <1>t DEF LinksHold, Local, RecallPC, ForgetPC
<1>3. CASE RecallSeeds(p)
  <2> DEFINE k == IF SeedK < Cardinality(l.cands) THEN SeedK ELSE Cardinality(l.cands)
             ranks == {r \in (1..k) \X (1..k) : r[1] < r[2]}
  <2>1. CASE Become(p, Idle)
    BY <2>1, <1>b, IdleLinks
  <2>2. ASSUME NEW seeds \in kSubset(k, l.cands), NEW order \in SetToSeqs(seeds),
               NEW pairs \in SUBSET {<<order[r[1]], order[r[2]]>> : r \in ranks},
               NEW turns \in SetToSeqs(pairs),
               Become(p, [l EXCEPT
                 !.pc = IF turns = <<>> THEN "expand" ELSE "getEdge",
                 !.kind = "CoRetrieval",
                 !.work = BothWays(turns),
                 !.queue = [i \in 1..k |-> <<order[i]>>],
                 !.visit = {<<s>> : s \in seeds}])
        PROVE  LinksHold(local'[p], S)
    <3>1. k \in Nat
      <4>1. l.cands \subseteq Node
        BY <1>t DEF Local
      <4>2. QED
        BY <4>1, NodesFinite, FS_Subset, FS_CardinalityType, ServiceAssumption
    <3>2. seeds \subseteq l.cands /\ Cardinality(seeds) = k /\ l.cands \subseteq S
      BY <1>l DEF kSubset, LinksHold
    <3>3. l.pc = "bump"
      BY <1>3 DEF RecallSeeds
    <3> HIDE DEF k
    <3>4. \A i \in 1..Len(BothWays(turns)) : Linkable(BothWays(turns)[i], S)
      <4>1. /\ \A i \in 1..k : order[i] \in S
            /\ \A i, j \in 1..k : order[i] = order[j] => i = j
        BY <3>2 DEF SetToSeqs, IsInjective
      <4>2. ASSUME NEW e \in pairs
            PROVE  e \in Edge /\ Linkable(e, S)
        <5>1. PICK r \in ranks : e = <<order[r[1]], order[r[2]]>>
          OBVIOUS
        <5>2. r[1] \in 1..k /\ r[2] \in 1..k /\ r[1] # r[2]
          BY <3>1
        <5>3. QED
          BY <4>1, <5>1, <5>2, <1>s DEF Linkable, Edge
      <4>3. QED
        BY <4>2, <1>s, TurnsLink
    <3>5. \A i \in 1..k : order[i] \in S
      BY <3>2 DEF SetToSeqs
    <3> DEFINE queue == [i \in 1..k |-> <<order[i]>>]
               visit == {<<s>> : s \in seeds}
               work == BothWays(turns)
               pc == IF turns = <<>> THEN "expand" ELSE "getEdge"
    <3>6. Len(queue) = k /\ \A i \in 1..k : queue[i] = <<order[i]>>
      BY <3>1
    <3>7. \A n \in S : Walkable(<<n>>, S)
      BY DEF Walkable
    <3>8. /\ local'[p].work = work /\ local'[p].cands = l.cands
          /\ local'[p].queue = queue /\ local'[p].visit = visit
          /\ local'[p].path = l.path /\ local'[p].incident = l.incident
      <4>1. local'[p] = [l EXCEPT !.pc = pc, !.kind = "CoRetrieval", !.work = work,
                                  !.queue = queue, !.visit = visit]
        BY <2>2, <1>b
      <4> HIDE DEF queue, visit, work, pc
      <4>2. QED
        BY <4>1, <1>t DEF Local
    <3> HIDE DEF queue
    <3>9. QED
      BY <3>2, <3>3, <3>4, <3>5, <3>6, <3>7, <3>8, <1>l DEF LinksHold, RecallPC
  <2>3. QED
    BY <1>3, <2>1, <2>2 DEF RecallSeeds
<1>4. CASE EdgeGet(p) \/ EdgePut(p) \/ EdgeUpdate(p) \/ EdgePrune(p)
  <2>1. l.pc \in RecallPC /\ l.work # <<>>
    BY <1>4, <1>t DEF EdgeGet, EdgePut, EdgeUpdate, EdgePrune, At, RecallPC, LocalOK
  <2>2. \/ local'[p] = EdgeDone(l)
        \/ \E pc \in RecallPC : local'[p] = [l EXCEPT !.pc = pc]
        \/ \E pc \in RecallPC : local'[p] = [l EXCEPT !.pc = pc, !.tx = "closed"]
    BY <1>4, <1>b DEF EdgeGet, EdgePut, EdgeUpdate, EdgePrune, RecallPC
  <2>3. ASSUME NEW pc \in RecallPC,
               local'[p] = [l EXCEPT !.pc = pc] \/ local'[p] = [l EXCEPT !.pc = pc, !.tx = "closed"]
        PROVE  LinksHold(local'[p], S)
    <3>1. /\ local'[p].pc = pc /\ local'[p].work = l.work /\ local'[p].cands = l.cands
          /\ local'[p].queue = l.queue /\ local'[p].visit = l.visit
          /\ local'[p].path = l.path /\ local'[p].incident = l.incident
      BY <2>3, <1>t DEF Local
    <3>2. l.pc \notin ForgetPC
      BY <2>1 DEF RecallPC, ForgetPC
    <3>3. QED
      BY <2>1, <3>1, <3>2, <1>l DEF LinksHold
  <2>4. CASE local'[p] = EdgeDone(l)
    BY <2>1, <2>4, <1>d
  <2>5. QED
    BY <2>2, <2>3, <2>4
<1>5. CASE RecallNeighbors(p)
  <2> DEFINE f == Head(l.queue)
             far == IF Len(f) - 1 < MaxHops THEN Outbound(Last(f)) ELSE {}
  <2>1. l.queue # <<>> /\ l.queue \in Seq(Seq(Node)) /\ l.pc = "expand"
        /\ local'[p] = [l EXCEPT !.queue = Tail(@), !.path = f, !.incident = far]
    BY <1>5, <1>b, <1>t DEF RecallNeighbors, Local
  <2>2. Walkable(f, S) /\ \A i \in 1..Len(Tail(l.queue)) : Walkable(Tail(l.queue)[i], S)
    <3>1. \A i \in 1..Len(l.queue) : Walkable(l.queue[i], S)
      BY <1>l DEF LinksHold
    <3>2. Len(l.queue) \in Nat /\ Len(l.queue) > 0 /\ f = l.queue[1]
      BY <2>1
    <3>3. Len(Tail(l.queue)) = Len(l.queue) - 1
          /\ \A i \in 1..Len(l.queue) - 1 : Tail(l.queue)[i] = l.queue[i + 1]
      BY <2>1
    <3>4. QED
      BY <3>1, <3>2, <3>3
  <2>3. \A e \in far : e[1] = Last(f) /\ Linkable(e, S)
    BY <1>s DEF Outbound, EdgesAttached, EndsStored, Linkable
  <2>4. /\ local'[p].work = l.work /\ local'[p].cands = l.cands
        /\ local'[p].queue = Tail(l.queue) /\ local'[p].visit = l.visit
        /\ local'[p].path = f /\ local'[p].incident = far /\ local'[p].pc = l.pc
    BY <2>1, <1>t DEF Local
  <2> HIDE DEF f, far
  <2>5. QED
    BY <2>2, <2>3, <2>4, <1>l DEF LinksHold
<1>6. CASE RecallReadEdge(p)
  <2>1. PICK e \in l.incident :
          LET rest    == [l EXCEPT !.incident = @ \ {e}]
              newPath == Append(l.path, e[2])
          IN \/ Become(p, rest)
             \/ /\ e \in edges
                /\ Become(p, [rest EXCEPT !.pc = "pruneRead", !.work = <<e>>])
             \/ /\ e \in edges
                /\ Become(p, [rest EXCEPT
                      !.visit = {q \in @ : Last(q) # e[2]} \union {newPath},
                      !.queue = Append(@, newPath)])
    BY <1>6 DEF RecallReadEdge
  <2> DEFINE newPath == Append(l.path, e[2])
  <2>2. /\ l.pc = "expand" /\ l.pc \in RecallPC /\ l.path \in Seq(Node) /\ e \in Edge
        /\ l.queue \in Seq(Seq(Node)) /\ newPath \in Seq(Node)
    BY <1>6, <1>t DEF RecallReadEdge, RecallPC, Local, Edge
  <2>3. Walkable(l.path, S) /\ e[1] = Last(l.path) /\ Linkable(e, S)
    BY <2>2, <1>l DEF LinksHold
  <2>4. Walkable(newPath, S)
    BY <2>2, <2>3, HopWalks
  <2> HIDE DEF newPath
  <2>5. CASE local'[p] = [l EXCEPT !.incident = @ \ {e}]
    BY <2>2, <2>5, <1>l, <1>t DEF LinksHold, Local, RecallPC, ForgetPC
  <2>6. CASE local'[p] = [l EXCEPT !.incident = @ \ {e}, !.pc = "pruneRead", !.work = <<e>>]
    BY <2>2, <2>3, <2>6, <1>l, <1>t DEF LinksHold, Local, RecallPC, ForgetPC
  <2>7. CASE local'[p] = [l EXCEPT !.incident = @ \ {e},
                                   !.visit = {q \in @ : Last(q) # e[2]} \union {newPath},
                                   !.queue = Append(@, newPath)]
    <3>1. \A i \in 1..Len(Append(l.queue, newPath)) : Walkable(Append(l.queue, newPath)[i], S)
      <4>1. \A i \in 1..Len(l.queue) : Walkable(l.queue[i], S)
        BY <1>l DEF LinksHold
      <4>2. \A i \in 1..Len(Append(l.queue, newPath)) :
               \/ i \in 1..Len(l.queue) /\ Append(l.queue, newPath)[i] = l.queue[i]
               \/ Append(l.queue, newPath)[i] = newPath
        BY <2>2, AppendParts, Zenon
      <4> QED BY <4>1, <4>2, <2>4, Zenon
    <3>2. /\ local'[p].work = l.work /\ local'[p].cands = l.cands /\ local'[p].path = l.path
          /\ local'[p].queue = Append(l.queue, newPath) /\ local'[p].incident = l.incident \ {e}
          /\ local'[p].visit = {q \in l.visit : Last(q) # e[2]} \union {newPath}
          /\ local'[p].pc = l.pc
      BY <2>7, <1>t DEF Local
    <3>3. QED
      BY <2>2, <2>4, <3>1, <3>2, <1>l DEF LinksHold
  <2>8. QED
    <3>1. \/ Become(p, [l EXCEPT !.incident = @ \ {e}])
          \/ Become(p, [l EXCEPT !.incident = @ \ {e}, !.pc = "pruneRead", !.work = <<e>>])
          \/ Become(p, [l EXCEPT !.incident = @ \ {e},
                                 !.visit = {q \in @ : Last(q) # e[2]} \union {newPath},
                                 !.queue = Append(@, newPath)])
      BY <2>1, <1>t DEF newPath, Local
    <3>2. QED
      BY <3>1, <2>5, <2>6, <2>7, <1>b
<1>7. CASE RecallPruneRead(p)
  <2>1. l.pc \in RecallPC /\ local'[p] = [l EXCEPT !.pc = "expand", !.work = <<>>, !.tx = "closed"]
    BY <1>7, <1>b DEF RecallPruneRead, At, RecallPC
  <2>2. /\ local'[p].work = <<>> /\ local'[p].cands = l.cands /\ local'[p].queue = l.queue
        /\ local'[p].visit = l.visit /\ local'[p].path = l.path
        /\ local'[p].incident = l.incident
    BY <2>1, <1>t DEF Local
  <2>3. QED
    BY <2>1, <2>2, <1>l DEF LinksHold
<1>8. CASE RecallRank(p)
  <2>1. PICK results \in SUBSET l.visit :
          local'[p] = [l EXCEPT !.pc = "traverse", !.kind = "CoTraversal", !.path = <<>>,
                                !.visit = {q \in results : Len(q) > 1}]
    BY <1>8, <1>b DEF RecallRank, kSubset
  <2>2. /\ local'[p].work = l.work /\ local'[p].cands = l.cands /\ local'[p].queue = l.queue
        /\ local'[p].visit \subseteq l.visit /\ local'[p].path = <<>>
        /\ local'[p].incident = {} /\ l.pc \notin ForgetPC
    BY <2>1, <1>8, <1>t DEF Local, RecallRank, ForgetPC
  <2>3. QED
    BY <2>2, <1>l DEF LinksHold, Walkable
<1>9. CASE RecallTraverse(p)
  <2>1. PICK q \in l.visit :
          local'[p] = [l EXCEPT !.pc = "getEdge", !.visit = @ \ {q}, !.work = EdgesAlong(q)]
    BY <1>9, <1>b DEF RecallTraverse
  <2>2. l.pc = "traverse" /\ q \in Seq(Node) /\ Len(q) > 1 /\ Walkable(q, S)
    BY <1>9, <1>t, <1>l DEF RecallTraverse, LocalOK, LinksHold, Local, RecallPC, ForgetPC
  <2>3. \A i \in 1..Len(EdgesAlong(q)) : Linkable(EdgesAlong(q)[i], S)
    BY <2>2, AlongLinks
  <2>4. /\ local'[p].work = EdgesAlong(q) /\ local'[p].cands = l.cands
        /\ local'[p].queue = l.queue /\ local'[p].visit = l.visit \ {q}
        /\ local'[p].path = l.path /\ local'[p].incident = l.incident
    BY <2>1, <1>t DEF Local
  <2>5. QED
    BY <2>2, <2>3, <2>4, <1>l DEF LinksHold, RecallPC
<1>10. CASE RecallFail(p) \/ RecallReturn(p) \/ Abort(p)
  BY <1>10, <1>b, IdleLinks DEF RecallFail, RecallReturn, Abort
<1>11. QED
  BY <1>1, <1>2, <1>3, <1>4, <1>5, <1>6, <1>7, <1>8, <1>9, <1>10 DEF Recall

(* A call that has read a pair holds what it held.                         *)
LEMMA ReadLinks ==
  ASSUME TypeInv, NEW p \in Proc, NEW S, LinksHold(local[p], S), ReadPair(p)
  PROVE  LinksHold(local'[p], S)
<1> DEFINE l == local[p]
<1>1. local'[p] = [l EXCEPT !.tx = IF Head(l.work) \in edges THEN "found" ELSE "absent"]
  BY BecomeValue DEF ReadPair
<1>2. l \in Local
  BY DEF TypeInv, TypeOK
<1>3. /\ local'[p].pc = l.pc /\ local'[p].work = l.work /\ local'[p].cands = l.cands
      /\ local'[p].queue = l.queue /\ local'[p].visit = l.visit
      /\ local'[p].path = l.path /\ local'[p].incident = l.incident
  BY <1>1, <1>2 DEF Local
<1>4. QED
  BY <1>3 DEF LinksHold

(* Only these steps touch an edge or a node's existence, and an edge that  *)
(* is written joins two distinct nodes.                                    *)
LEMMA WhoLinks ==
  ASSUME LinkInv, NEW p \in Proc, Step(p)
  PROVE  \/ UNCHANGED <<nodes, edges, nodeCount, edgeCount, crossed>>
         \/ WritePutNode(p) \/ WriteInsert(p) \/ ForgetDeleteNode(p)
         \/ \E e \in Edge, b \in BOOLEAN :
              Linkable(e, Present) /\ (PutEdge(e, b) \/ UpdateEdge(e, b))
         \/ \E e \in Edge, b \in BOOLEAN : DeleteEdge(e, b)
<1> DEFINE l == local[p]
<1>t. TypeInv /\ l \in Local /\ LocalOK(p, l) /\ LinksHold(l, Present)
  BY DEF LinkInv, IndInv, TypeInv, TypeOK
<1>1. ASSUME Opened(p), l.pc # "deleteNode"
      PROVE  /\ Head(l.work) \in Edge /\ Found(p) \in BOOLEAN
             /\ l.pc \notin ForgetPC => Linkable(Head(l.work), Present)
  <2>1. l.work \in Seq(Edge) /\ l.work # <<>>
    BY <1>1, <1>t DEF Local, LocalOK, Opened
  <2>2. Len(l.work) \in Nat /\ Len(l.work) > 0 /\ Head(l.work) = l.work[1]
    BY <2>1
  <2>3. QED
    BY <2>1, <2>2, <1>t DEF LinksHold, Found
<1>2. CASE WritePutEdge(p) \/ EdgePut(p)
  BY <1>1, <1>2 DEF WritePutEdge, EdgePut, At, ForgetPC
<1>3. CASE EdgePrune(p) \/ RecallPruneRead(p) \/ ForgetPurgeEdge(p)
  BY <1>1, <1>3 DEF EdgePrune, RecallPruneRead, ForgetPurgeEdge, At
<1>4. CASE EdgeUpdate(p)
  BY <1>1, <1>4 DEF EdgeUpdate, ForgetPC, store
<1>5. CASE WritePutMessage(p) \/ ForgetVector(p) \/ ForgetDeleteMessage(p)
  BY <1>5 DEF WritePutMessage, ForgetVector, ForgetDeleteMessage, PutMessage, DeleteVector,
              DeleteMessage
<1>6. CASE UNCHANGED store
  BY <1>6 DEF store
<1>7. QED
  BY <1>2, <1>3, <1>4, <1>5, <1>6 DEF Step, Start, Continue, Write, Recall, Forget, Abort,
     ReadPair, WriteStart, RecallStart, ForgetStart, WriteRecent, WriteReturn, RecallBump,
     RecallSeeds, EdgeGet, RecallFail, RecallNeighbors, RecallReadEdge, RecallRank,
     RecallTraverse, RecallReturn, ForgetNodes, ForgetOutbound, ForgetInbound,
     ForgetReadPair, ForgetReadNode, ForgetReturn

LEMMA AttachedStep ==
  ASSUME LinkInv, NEW p \in Proc, Step(p)
  PROVE  EdgesAttached'
<1> USE DEF EdgesAttached, EndsStored
<1>a. EdgesAttached
  BY DEF LinkInv
<1>1. CASE UNCHANGED <<nodes, edges, nodeCount, edgeCount, crossed>>
  BY <1>a, <1>1
<1>2. CASE WritePutNode(p) \/ WriteInsert(p)
  BY <1>a, <1>2 DEF WritePutNode, WriteInsert, PutNode, InsertVector
<1>3. CASE ForgetDeleteNode(p)
  <2>1. PICK n, found, attached : DeleteNode(n, found, attached)
    BY <1>3 DEF ForgetDeleteNode
  <2>2. CASE found
    <3>1. nodes' = nodes \ {n} /\ edges' = edges \ Incident(n)
      BY <2>1, <2>2 DEF DeleteNode
    <3>2. \A e \in edges' : e[1] # n /\ e[2] # n
      BY <3>1 DEF Incident, Outbound, Inbound
    <3>3. QED
      BY <1>a, <3>1, <3>2
  <2>3. CASE ~found
    BY <1>a, <2>1, <2>3 DEF DeleteNode, store
  <2>4. QED
    BY <2>2, <2>3
<1>4. ASSUME NEW e \in Edge, NEW b \in BOOLEAN, Linkable(e, Present),
             PutEdge(e, b) \/ UpdateEdge(e, b)
      PROVE  EdgesAttached'
  <2>1. e[1] # e[2]
    BY <1>4 DEF Linkable
  <2>2. nodes' = nodes /\ edges' \subseteq edges \union (IF EndsStored(e) THEN {e} ELSE {})
    BY <1>4 DEF PutEdge, UpdateEdge, store
  <2>3. QED
    BY <1>a, <2>1, <2>2
<1>5. CASE \E e \in Edge, b \in BOOLEAN : DeleteEdge(e, b)
  BY <1>a, <1>5 DEF DeleteEdge, store
<1>6. QED
  BY <1>1, <1>2, <1>3, <1>4, <1>5, WhoLinks

(* Only a Forget deletes nodes, and so only a Forget crosses another on one. *)
LEMMA CrossedStep ==
  ASSUME LinkInv, NEW p \in Proc, Step(p), "node" \in crossed'
  PROVE  targeted' # {}
<1>t. targeted \subseteq targeted'
  BY HistoryGrows DEF LinkInv, IndInv, TypeInv, TypeOK
<1>1. CASE ForgetDeleteNode(p)
  <2>1. local[p].pc = "deleteNode" /\ ForgetterHolds(local[p])
    BY <1>1 DEF ForgetDeleteNode, LinkInv, IndInv
  <2>2. local[p].msg \in targeted
    BY <2>1 DEF ForgetterHolds, ForgetPC
  <2>3. QED
    BY <1>t, <2>2
<1>2. CASE "node" \in crossed
  BY <1>t, <1>2 DEF LinkInv
<1>3. CASE ~ForgetDeleteNode(p) /\ "node" \notin crossed
  <2>1. ASSUME NEW e, NEW b, PutEdge(e, b) \/ UpdateEdge(e, b) \/ DeleteEdge(e, b)
        PROVE  "node" \notin crossed'
    <3>1. EdgeCrossing(e, b) \/ EdgeCrossing(e, TRUE) \/ crossed' = crossed
      BY <2>1 DEF PutEdge, UpdateEdge, DeleteEdge, store
    <3>2. QED
      BY <1>3, <3>1 DEF EdgeCrossing
  <2>2. crossed' = crossed => FALSE
    BY <1>3
  <2>3. QED
    BY <1>3, <2>1, <2>2, WhoLinks DEF WritePutNode, WriteInsert, PutNode, InsertVector
<1>4. QED
  BY <1>1, <1>2, <1>3

LEMMA CountersStep ==
  ASSUME LinkInv, IndInv', NEW p \in Proc, Step(p), NodeCountExact'
  PROVE  CountersExact'
<1> SUFFICES ASSUME targeted' = {}
             PROVE  /\ nodeCount' = Cardinality(nodes')
                    /\ "edge" \in crossed' \/ edgeCount' = Cardinality(edges')
  BY DEF CountersExact, EdgeCountExact
<1>t. TypeInv /\ IndInv /\ targeted \subseteq targeted'
  BY HistoryGrows DEF LinkInv, IndInv, TypeInv, TypeOK
<1>n. nodeCount' = Cardinality(nodes')
  <2>1. raced' = {} /\ "node" \notin crossed'
    BY CrossedStep DEF IndInv, IdsMinted
  <2>2. QED
    BY <2>1 DEF NodeCountExact
<1> SUFFICES ASSUME "edge" \notin crossed'
             PROVE  edgeCount' = Cardinality(edges')
  BY <1>n
<1>0. targeted = {} /\ edgeCount = Cardinality(edges)
  <2>1. crossed \subseteq crossed'
    BY <1>t, CrossedGrows DEF Next, Step
  <2>2. QED
    BY <1>t, <2>1 DEF LinkInv, CountersExact, EdgeCountExact
<1>f. IsFiniteSet(edges) /\ Cardinality(edges) \in Nat
  BY <1>t, NodesFinite, FS_Subset, FS_CardinalityType DEF TypeInv, TypeOK, StorageTypeOK
<1>1. CASE edges' = edges /\ edgeCount' = edgeCount
  BY <1>0, <1>1
<1>2. CASE WritePutNode(p) \/ WriteInsert(p)
  BY <1>1, <1>2 DEF WritePutNode, WriteInsert, PutNode, InsertVector
<1>3. ~ForgetDeleteNode(p)
  BY <1>0, <1>t DEF ForgetDeleteNode, ForgetPC, IndInv, ForgetterHolds
<1>4. ASSUME NEW e \in Edge, NEW b \in BOOLEAN, Linkable(e, Present), PutEdge(e, b)
      PROVE  edgeCount' = Cardinality(edges')
  <2>1. EndsStored(e)
    BY <1>0, <1>4 DEF Linkable, Present, EndsStored
  <2>2. edges' = edges \union {e} /\ edgeCount' = edgeCount + (IF e \in edges THEN 0 ELSE 1)
    BY <1>4, <2>1 DEF PutEdge, EdgeCrossing
  <2>3. Cardinality(edges') = IF e \in edges THEN Cardinality(edges) ELSE Cardinality(edges) + 1
    BY <1>f, <2>2, FS_AddElement
  <2>4. QED
    BY <1>0, <1>f, <2>2, <2>3
<1>5. ASSUME NEW e \in Edge, NEW b \in BOOLEAN, UpdateEdge(e, b)
      PROVE  edgeCount' = Cardinality(edges')
  <2>1. edgeCount' = edgeCount /\ (edges' = edges \/ (edges' = edges \union {e} /\ e \in edges))
    BY <1>5 DEF UpdateEdge, EdgeCrossing, store
  <2>2. QED
    BY <1>1, <2>1
<1>6. ASSUME NEW e \in Edge, NEW b \in BOOLEAN, DeleteEdge(e, b)
      PROVE  edgeCount' = Cardinality(edges')
  <2>1. CASE b
    <3>1. edges' = edges \ {e} /\ edgeCount' = edgeCount - 1 /\ e \in edges
      BY <1>6, <2>1 DEF DeleteEdge, EdgeCrossing
    <3>2. Cardinality(edges') = Cardinality(edges) - 1
      BY <1>f, <3>1, FS_RemoveElement
    <3>3. QED
      BY <1>0, <3>1, <3>2
  <2>2. CASE ~b
    BY <1>1, <1>6, <2>2 DEF DeleteEdge, store
  <2>3. QED
    BY <2>1, <2>2
<1>7. QED
  BY <1>1, <1>2, <1>3, <1>4, <1>5, <1>6, WhoLinks

LEMMA LinkInvInit == Init => LinkInv
<1> SUFFICES ASSUME Init
             PROVE  LinkInv
  OBVIOUS
<1>1. IndInv
  BY IndInvInit
<1>2. EdgesAttached /\ CountersExact
  BY FS_EmptySet DEF Init, StorageInit, EdgesAttached, CountersExact, EdgeCountExact
<1>3. \A p \in Proc : LinksHold(local[p], Present)
  BY IdleLinks DEF Init
<1>4. QED
  BY <1>1, <1>2, <1>3 DEF LinkInv, Init, StorageInit

LEMMA LinkInvStep ==
  ASSUME LinkInv, NodeCountExact, [Next]_vars
  PROVE  LinkInv'
<1>i. IndInv /\ IndInv' /\ NodeCountExact'
  BY IndInvStep, NodeCountStep DEF LinkInv
<1>1. CASE UNCHANGED vars
  BY <1>i, <1>1 DEF vars, LinkInv, EdgesAttached, EndsStored, CountersExact,
                    EdgeCountExact, Present
<1>2. ASSUME NEW p \in Proc, Step(p)
      PROVE  LinkInv'
  <2>1. EdgesAttached' /\ CountersExact'
    BY <1>i, <1>2, AttachedStep, CountersStep
  <2>2. ASSUME NEW q \in Proc
        PROVE  LinksHold(local'[q], Present')
    <3>1. LinksHold(local[q], Present) /\ EdgesAttached
      BY DEF LinkInv
    <3>2. CASE q = p
      <4>1. CASE ReadPair(p)
        <5>1. LinksHold(local'[p], Present)
          BY <1>i, <3>1, <3>2, <4>1, ReadLinks DEF IndInv
        <5>2. Present \subseteq Present'
          BY <1>i, <1>2, PresentGrows DEF IndInv
        <5>3. QED
          BY <3>2, <5>1, <5>2, LinksGrow
      <4>2. CASE ~ReadPair(p)
        BY <1>i, <1>2, <3>1, <3>2, <4>2, WriteLinks, RecallLinks, ForgetLinks
           DEF Step, Start, Continue
      <4>3. QED
        BY <4>1, <4>2
    <3>3. CASE q # p
      <4>1. local'[q] = local[q]
        BY <1>i, <1>2, <3>3, OthersStay DEF IndInv
      <4>2. Present \subseteq Present'
        BY <1>i, <1>2, PresentGrows DEF IndInv
      <4>3. QED
        BY <3>1, <4>1, <4>2, LinksGrow
    <3>4. QED
      BY <3>2, <3>3
  <2>3. QED
    BY <1>i, <1>2, <2>1, <2>2, CrossedStep DEF LinkInv
<1>3. QED
  BY <1>1, <1>2 DEF Next, Rest, Step

LEMMA LinkInvariance == Spec => []LinkInv
<1>1. LinkInv /\ NodeCountExact /\ [Next]_vars => LinkInv'
  BY LinkInvStep
<1>2. QED
  BY <1>1, LinkInvInit, NodeCountRight, PTL DEF Spec

(* Until a Forget begins to remove a message, node_count is right however  *)
(* many Writes and Recalls race and wherever they die, and edge_count is   *)
(* right unless two of their transactions have crossed on a pair           *)
(* (putEdgeTx, UpdateEdge and DeleteEdge in graph.go).                     *)
THEOREM CountersExactUntilForget == Spec => []CountersExact
<1>1. LinkInv => CountersExact
  BY DEF LinkInv
<1>2. QED
  BY <1>1, LinkInvariance, PTL

-----------------------------------------------------------------------------
(* The service implements MemoryLifecycle.                                 *)

Open == {m \in Msg : Writing(m)}

(* A step changes the set of messages being written only by beginning or   *)
(* by ending the call that writes one of them.                             *)
LEMMA OpenSame ==
  ASSUME TypeInv, NEW p \in Proc, Step(p),
         \/ local[p].pc \notin WritePC /\ local'[p].pc \notin WritePC
         \/ /\ local[p].pc \in WritePC /\ local'[p].pc \in WritePC
            /\ local'[p].msg = local[p].msg
  PROVE  Open' = Open /\ \A m : Writing(m)' <=> Writing(m)
<1>1. \A q \in Proc : q # p => local'[q] = local[q]
  BY OthersStay
<1>2. ASSUME NEW q \in Proc, NEW m
      PROVE  (local'[q].pc \in WritePC /\ local'[q].msg = m)
             <=> (local[q].pc \in WritePC /\ local[q].msg = m)
  <2>1. CASE q # p
    BY <1>1, <2>1
  <2>2. CASE q = p
    BY <2>2
  <2>3. QED
    BY <2>1, <2>2
<1>3. \A q \in Writers : q \in Proc
  BY DEF Proc
<1>4. \A m : Writing(m)' <=> Writing(m)
  BY <1>2, <1>3 DEF Writing
<1>5. QED
  BY <1>4 DEF Open

LEMMA OpenBegins ==
  ASSUME TypeInv, NEW p \in Proc, WriteStart(p)
  PROVE  Open' = Open \union {minted + 1} /\ minted + 1 \in Msg
<1>1. \A q \in Proc : q # p => local'[q] = local[q]
  BY OthersStay DEF Step, Start
<1>b. \A new : Become(p, new) => local'[p] = new
  BY BecomeValue
<1>2. local'[p].pc \in WritePC /\ local'[p].msg = minted + 1
  BY <1>b DEF WriteStart, Idle, WritePC
<1>3. local[p].pc \notin WritePC
  BY DEF WriteStart, At, WritePC
<1>4. minted + 1 \in Msg
  BY StorageAssumption DEF WriteStart, TypeInv, TypeOK, Msg
<1>5. p \in Writers /\ \A q \in Writers : q \in Proc
  BY DEF WriteStart, Proc
<1>6. \A m : Writing(m)' <=> Writing(m) \/ m = minted + 1
  <2> TAKE m
  <2>1. ASSUME NEW q \in Writers, local'[q].pc \in WritePC, local'[q].msg = m
        PROVE  Writing(m) \/ m = minted + 1
    <3>1. CASE q = p
      BY <1>2, <2>1, <3>1
    <3>2. CASE q # p
      BY <1>1, <1>5, <2>1, <3>2 DEF Writing
    <3>3. QED
      BY <3>1, <3>2
  <2>2. ASSUME NEW q \in Writers, local[q].pc \in WritePC, local[q].msg = m
        PROVE  Writing(m)'
    <3>1. q # p
      BY <1>3, <2>2
    <3>2. QED
      BY <1>1, <1>5, <2>2, <3>1 DEF Writing
  <2>3. m = minted + 1 => Writing(m)'
    BY <1>2, <1>5 DEF Writing
  <2>4. QED
    BY <2>1, <2>2, <2>3 DEF Writing
<1>7. QED
  BY <1>4, <1>6 DEF Open

LEMMA OpenEnds ==
  ASSUME TypeInv, NEW p \in Proc, Step(p),
         local[p].pc \in WritePC, local'[p].pc \notin WritePC
  PROVE  /\ local[p].msg \in Open
         /\ Open' = Open \/ Open' = Open \ {local[p].msg}
<1>1. \A q \in Proc : q # p => local'[q] = local[q]
  BY OthersStay
<1>2. p \in Writers /\ local[p].msg \in Msg
  BY DEF TypeInv, LocalOK
<1>3. local[p].msg \in Open
  BY <1>2 DEF Open, Writing
<1>4. \A q \in Writers : q \in Proc
  BY DEF Proc
<1>5. ASSUME NEW m \in Msg, Writing(m)'
      PROVE  Writing(m)
  <2>1. PICK q \in Writers : local'[q].pc \in WritePC /\ local'[q].msg = m
    BY <1>5 DEF Writing
  <2>2. q # p
    BY <2>1
  <2>3. QED
    BY <1>1, <1>4, <2>1, <2>2 DEF Writing
<1>6. ASSUME NEW m \in Msg, Writing(m), m # local[p].msg
      PROVE  Writing(m)'
  <2>1. PICK q \in Writers : local[q].pc \in WritePC /\ local[q].msg = m
    BY <1>6 DEF Writing
  <2>2. q # p
    BY <1>6, <2>1
  <2>3. QED
    BY <1>1, <1>4, <2>1, <2>2 DEF Writing
<1>7. QED
  BY <1>3, <1>5, <1>6 DEF Open

(* A step of the call that writes a message keeps the message, adds one of *)
(* its nodes, or leaves both alone.                                        *)
LEMMA WriterRefines ==
  ASSUME IndInv, NEW p \in Proc, Write(p) \/ ReadPair(p),
         local[p].pc \in WritePC, local'[p].pc \in WritePC, local'[p].msg = local[p].msg
  PROVE  [Lifecycle!Next]_<<1..minted, Open, raced, messages, nodes>>
<1> DEFINE l == local[p]
<1>t. TypeInv /\ Step(p) /\ p \in Writers /\ l.msg \in Msg /\ l \in Local /\ LocalOK(p, l)
  BY DEF IndInv, TypeInv, TypeOK, LocalOK, Step, Continue
<1>o. Open' = Open /\ l.msg \in Open
  BY <1>t, OpenSame DEF Open, Writing
<1>u. UNCHANGED begun /\ UNCHANGED raced
  BY DEF Write, WritePutMessage, WritePutNode, WriteInsert, WritePutEdge, WriteRecent,
         WriteReturn, ReadPair, history
<1>k. l.pc # "putMessage" => l.msg \in messages \union raced
  BY <1>t DEF IndInv, WriterHolds, RacesSeen, Writing
<1>1. CASE WritePutMessage(p)
  BY <1>1, <1>t, <1>o, <1>u DEF WritePutMessage, PutMessage, Lifecycle!Next, Lifecycle!Keep,
     begun, Open
<1>2. ASSUME NEW n \in Node, n[1] = l.msg, l.pc # "putMessage",
             nodes' = nodes \union {n}, messages' = messages
      PROVE  Lifecycle!Remember(n)
  BY <1>2, <1>k, <1>o, <1>u DEF Lifecycle!Remember, MessageOf, begun, Open
<1>3. CASE WritePutNode(p) \/ WriteInsert(p)
  <2>1. <<l.msg, l.at>> \in Node /\ l.pc # "putMessage"
    BY <1>3, <1>t, StorageAssumption DEF WritePutNode, WriteInsert, At, LocalOK, Node, Chunk
  <2>2. nodes' = nodes \union {<<l.msg, l.at>>} /\ messages' = messages
    BY <1>3 DEF WritePutNode, WriteInsert, PutNode, InsertVector
  <2>3. QED
    BY <1>2, <2>1, <2>2 DEF Lifecycle!Next
<1>4. CASE WritePutEdge(p)
  BY <1>4, <1>o, <1>u DEF WritePutEdge, PutEdge, begun
<1>5. CASE WriteRecent(p) \/ WriteReturn(p)
  BY <1>5, <1>o, <1>u DEF WriteRecent, WriteReturn, store, begun
<1>6. CASE ReadPair(p)
  BY <1>6, <1>o DEF ReadPair, store, begun, history
<1>7. QED
  BY <1>1, <1>3, <1>4, <1>5, <1>6 DEF Write

(* A step of any other call overtakes a Write, erases a node or drops a    *)
(* message of a memory nobody writes any more, or leaves both alone.       *)
LEMMA OthersRefine ==
  ASSUME IndInv, NEW p \in Proc, Step(p), ~WriteStart(p),
         local[p].pc \notin WritePC, local'[p].pc \notin WritePC
  PROVE  [Lifecycle!Next]_<<1..minted, Open, raced, messages, nodes>>
<1> DEFINE l == local[p]
<1>t. TypeInv /\ l \in Local /\ LocalOK(p, l) /\ ForgetterHolds(l) /\ IdsMinted /\ RacesSeen
  BY DEF IndInv, TypeInv, TypeOK
<1>o. Open' = Open
  BY <1>t, OpenSame
<1>m. minted' = minted
  BY WhoRecords DEF Step, begun, RecallStart, ForgetStart
<1>1. CASE ForgetNodes(p)
  <2>1. PICK m \in l.msgs : raced' = IF Writing(m) THEN raced \union {m} ELSE raced
    BY <1>1 DEF ForgetNodes
  <2>2. m \in Msg /\ UNCHANGED <<messages, nodes>>
    BY <1>1, <1>t DEF ForgetNodes, store, Local
  <2>3. CASE Writing(m)
    BY <2>1, <2>2, <2>3, <1>o, <1>m DEF Open, Lifecycle!Next, Lifecycle!Overtake
  <2>4. CASE ~Writing(m)
    BY <2>1, <2>2, <2>4, <1>o, <1>m
  <2>5. QED
    BY <2>3, <2>4
<1>r. ~ForgetNodes(p) => raced' = raced
  BY WhoRecords DEF Step, WriteReturn, history
<1>f. ASSUME l.pc \in ForgetPC \ {"forgetMessage"}
      PROVE  l.msg \in Msg /\ l.msg \in raced \union (1..minted \ Open)
  <2>1. l.msg \in Msg /\ l.msg \in targeted
    BY <1>f, <1>t DEF LocalOK, ForgetterHolds
  <2>2. QED
    BY <2>1, <1>t DEF RacesSeen, IdsMinted, Open
<1>2. CASE UNCHANGED store /\ ~ForgetNodes(p)
  BY <1>2, <1>o, <1>m, <1>r DEF store
<1>3. ~(WritePutMessage(p) \/ WritePutNode(p) \/ WriteInsert(p))
  BY DEF WritePutMessage, WritePutNode, WriteInsert, At, WritePC
<1>4. CASE ForgetVector(p) \/ EdgeStep
  <2>1. UNCHANGED <<messages, nodes>>
    BY <1>4 DEF ForgetVector, DeleteVector, EdgeStep, PutEdge, UpdateEdge, DeleteEdge, store
  <2>2. CASE ~ForgetNodes(p)
    BY <2>1, <2>2, <1>o, <1>m, <1>r
  <2>3. QED
    BY <2>2, <1>1
<1>5. CASE ForgetDeleteNode(p)
  <2> DEFINE n == l.path[1]
  <2>1. l.pc = "deleteNode" /\ DeleteNode(n, Found(p), l.incident) /\ ~ForgetNodes(p)
    BY <1>5 DEF ForgetDeleteNode, ForgetNodes, At
  <2>2. n \in Node /\ MessageOf(n) = l.msg
    BY <2>1, <1>t DEF Local, LocalOK, ForgetterHolds, ForgetPC
  <2>3. MessageOf(n) \in raced \union (1..minted \ Open)
    BY <2>1, <2>2, <1>f DEF ForgetPC
  <2>4. CASE ~Found(p)
    BY <2>1, <2>4, <1>o, <1>m, <1>r DEF DeleteNode, store
  <2>. SUFFICES ASSUME Found(p) PROVE [Lifecycle!Next]_<<1..minted, Open, raced, messages, nodes>>
    BY <2>4
  <2>7. nodes' = nodes \ {n} /\ messages' = messages
    BY <2>1 DEF DeleteNode, store
  <2> HIDE DEF n
  <2>5. Lifecycle!Erase(n)
    BY <2>1, <2>3, <2>7, <1>o, <1>m, <1>r DEF Lifecycle!Erase, Open
  <2>6. QED
    BY <2>2, <2>5 DEF Lifecycle!Next
<1>6. CASE ForgetDeleteMessage(p)
  <2>1. l.pc = "forgetNode" /\ l.pend = {} /\ DeleteMessage(l.msg) /\ ~ForgetNodes(p)
    BY <1>6 DEF ForgetDeleteMessage, ForgetNodes, At
  <2>2. l.msg \in Msg /\ l.msg \in raced \union (1..minted \ Open)
    BY <2>1, <1>f DEF ForgetPC
  <2>3. ASSUME l.msg \notin raced, NEW n \in nodes, MessageOf(n) = l.msg
        PROVE  FALSE
    <3>1. n \in rows
      BY <2>3 DEF IndInv, NoOrphans
    <3>2. QED
      BY <2>1, <2>3, <3>1, <1>t DEF ForgetterHolds, ForgetPC, NodesOf
  <2>4. Lifecycle!Drop(l.msg)
    BY <2>1, <2>2, <2>3, <1>o, <1>m, <1>r DEF Lifecycle!Drop, DeleteMessage, Open
  <2>5. QED
    BY <2>2, <2>4 DEF Lifecycle!Next
<1>7. QED
  BY <1>1, <1>2, <1>3, <1>4, <1>5, <1>6, WhoStores DEF IndInv

LEMMA StepRefines ==
  ASSUME IndInv, NEW p \in Proc, Step(p)
  PROVE  [Lifecycle!Next]_<<1..minted, Open, raced, messages, nodes>>
<1> DEFINE l == local[p]
<1>t. TypeInv /\ minted \in Nat
  BY StorageAssumption DEF IndInv, TypeInv, TypeOK
<1>1. CASE WriteStart(p)
  <2>1. Open' = Open \union {minted + 1} /\ minted + 1 \in Msg
    BY <1>1, <1>t, OpenBegins
  <2>2. minted' = minted + 1 /\ UNCHANGED <<raced, messages, nodes>>
    BY <1>1 DEF WriteStart, store, history
  <2>3. 1..minted' = (1..minted) \union {minted + 1} /\ minted + 1 \notin 1..minted
    BY <1>t, <2>2
  <2>4. Lifecycle!Begin(minted + 1)
    BY <2>1, <2>2, <2>3 DEF Lifecycle!Begin, Open
  <2>5. QED
    BY <2>1, <2>4 DEF Lifecycle!Next
<1>2. CASE local'[p].pc \in WritePC /\ ~WriteStart(p)
  BY <1>2, <1>t, WhoWrites, WriterRefines
<1>3. CASE l.pc \notin WritePC /\ local'[p].pc \notin WritePC /\ ~WriteStart(p)
  BY <1>3, OthersRefine
<1>4. CASE l.pc \in WritePC /\ local'[p].pc \notin WritePC
  <2>1. l.msg \in Open /\ (Open' = Open \/ Open' = Open \ {l.msg})
    BY <1>4, <1>t, OpenEnds
  <2>2. UNCHANGED <<minted, raced, messages, nodes>>
    <3>1. WriteReturn(p) \/ Abort(p)
      <4>l. l \in Local
        BY <1>t DEF TypeInv, TypeOK
      <4>b. \A new : Become(p, new) => local'[p] = new
        BY <1>t, BecomeValue
      <4>1. ~(Start(p) \/ Recall(p) \/ Forget(p))
        BY <1>4 DEF WritePC, Start, WriteStart, RecallStart, ForgetStart, At, Recall,
           RecallBump, RecallSeeds, EdgeGet, EdgePut, EdgeUpdate, EdgePrune, RecallFail,
           RecallNeighbors, RecallReadEdge, RecallPruneRead, RecallRank, RecallTraverse,
           RecallReturn, Forget, ForgetNodes, ForgetOutbound, ForgetInbound, ForgetPurgeEdge,
           ForgetReadPair, ForgetReadNode, ForgetVector, ForgetDeleteNode, ForgetDeleteMessage,
           ForgetReturn
      <4>6. ~ReadPair(p)
        BY <1>4, <1>t, ReadStays
      <4>2. ~(WritePutMessage(p) \/ WritePutNode(p) \/ WritePutEdge(p))
        BY <1>4, <4>l, <4>b DEF WritePutMessage, WritePutNode, WritePutEdge, WritePC, Local
      <4>3. ~WriteInsert(p)
        BY <1>4, <4>l, <4>b DEF WriteInsert, WritePC, Local
      <4>4. ~WriteRecent(p)
        BY <1>4, <4>l, <4>b DEF WriteRecent, WritePC, Local
      <4>5. QED
        BY <4>1, <4>2, <4>3, <4>4, <4>6 DEF Step, Continue, Write
    <3>2. QED
      BY <3>1 DEF WriteReturn, Abort, store, begun, history
  <2>3. CASE Open' = Open
    BY <2>2, <2>3
  <2>4. CASE Open' = Open \ {l.msg}
    BY <2>1, <2>2, <2>4 DEF Open, Lifecycle!Next, Lifecycle!End
  <2>5. QED
    BY <2>1, <2>3, <2>4
<1>5. QED
  BY <1>1, <1>2, <1>3, <1>4

(* Whatever runs beside it and wherever a call dies, each memory is        *)
(* written once, its message before its nodes; once its Write has ended it *)
(* only shrinks, its message last: every behaviour of the service is one   *)
(* of MemoryLifecycle (write.go, recall.go, forget.go).                    *)
THEOREM ImplementsLifecycle == Spec => KeepsLifecycle
<1>1. Init => Lifecycle!Init
  BY DEF Init, StorageInit, Lifecycle!Init, Writing, Idle, WritePC, Proc
<1>2. IndInv /\ [Next]_vars => [Lifecycle!Next]_(Lifecycle!lifecycleVars)
  <2> SUFFICES ASSUME IndInv, [Next]_vars
               PROVE  [Lifecycle!Next]_(Lifecycle!lifecycleVars)
    OBVIOUS
  <2>1. CASE UNCHANGED vars
    BY <2>1 DEF vars, Lifecycle!lifecycleVars, Writing
  <2>2. ASSUME NEW p \in Proc, Step(p)
        PROVE  [Lifecycle!Next]_(Lifecycle!lifecycleVars)
    BY <2>2, StepRefines DEF Lifecycle!lifecycleVars, Open
  <2>3. QED
    BY <2>1, <2>2 DEF Next, Rest, Step
<1>3. QED
  BY <1>1, <1>2, Invariant, PTL DEF Spec, KeepsLifecycle, Lifecycle!Spec

=============================================================================
