------------------------------- MODULE Storage -------------------------------
(***************************************************************************)
(* The Neo4j adapter (internal/storage/neo4j) as the memory service sees   *)
(* it, on the records of ONE tenant (every query filters by tenant).       *)
(*                                                                         *)
(* Each method that writes is a transaction.  PutEdge, UpdateEdge,         *)
(* DeleteEdge and DeleteNode first read the row, in a statement of its own *)
(* and under read-committed isolation, and decide by it what to write and  *)
(* what to add to the counters.  Their operators below are the second      *)
(* half, what such a transaction writes given what it `found`; the first   *)
(* half is a step of the call that issued it (MemoryService), and other    *)
(* calls may write in between.  The other methods write in one statement,  *)
(* except PutNode, whose read nobody can overtake: only the Write that     *)
(* minted a node puts it, once, and no call knows the node before.         *)
(*                                                                         *)
(* What is kept: which records exist, which nodes carry an embedding or a  *)
(* tombstone, which pairs are linked, and the counter deltas each method   *)
(* applies.  Texts, weights, timestamps and edge kinds are left to the     *)
(* modules about them.                                                     *)
(*                                                                         *)
(* A message id is its rank in creation order; its nodes are its chunks.   *)
(***************************************************************************)
EXTENDS Integers, FiniteSets, Sequences

CONSTANTS
    MaxMsg,     \* bound: messages written in a behaviour
    MaxChunks   \* bound: chunks of one message

ASSUME StorageAssumption ==
    /\ MaxMsg \in Nat
    /\ MaxChunks \in Nat \ {0}

Msg   == 1..MaxMsg
Chunk == 1..MaxChunks
Node  == Msg \X Chunk
Edge  == Node \X Node

VARIABLES
    messages,   \* ids of the :Message rows
    nodes,      \* ids of the :Node rows
    rows,       \* the :Node rows PutNode has filled in (source_msg_id, created_at, ...)
    embedded,   \* the :Node rows with an embedding
    tombstoned, \* the :Node rows with tombstoned = true
    edges,      \* the linked (from, to) pairs, whatever their relationship type
    nodeCount,  \* the :Counter row's node_count
    edgeCount,  \* the :Counter row's edge_count
    crossed     \* history: what was written over rows changed since they were read

store == <<messages, nodes, rows, embedded, tombstoned, edges, nodeCount, edgeCount, crossed>>

MessageOf(n)   == n[1]
(* Fault: the query loses its source_msg_id filter.                        *)
NodesOfAnyMessage(m) == rows
NodesOf(m)     == {n \in rows : MessageOf(n) = m}
Searchable     == embedded \ tombstoned
Outbound(n)    == {e \in edges : e[1] = n}
Inbound(n)     == {e \in edges : e[2] = n}
Incident(n)    == Outbound(n) \union Inbound(n)

StorageTypeOK ==
    /\ messages \subseteq Msg
    /\ nodes \subseteq Node
    /\ rows \subseteq nodes
    /\ embedded \subseteq nodes
    /\ tombstoned \subseteq nodes
    /\ edges \subseteq Edge
    /\ nodeCount \in Int
    /\ edgeCount \in Int
    /\ crossed \subseteq {"node", "edge"}

StorageInit ==
    /\ messages = {}
    /\ nodes = {}
    /\ rows = {}
    /\ embedded = {}
    /\ tombstoned = {}
    /\ edges = {}
    /\ nodeCount = 0
    /\ edgeCount = 0
    /\ crossed = {}

-----------------------------------------------------------------------------
(* Messages.                                                               *)

PutMessage(m) ==
    /\ messages' = messages \union {m}
    /\ UNCHANGED <<nodes, rows, embedded, tombstoned, edges, nodeCount, edgeCount, crossed>>

DeleteMessage(m) ==
    /\ messages' = messages \ {m}
    /\ UNCHANGED <<nodes, rows, embedded, tombstoned, edges, nodeCount, edgeCount, crossed>>

-----------------------------------------------------------------------------
(* Nodes and their vectors.                                                *)

(* MERGE the row and set its properties; only a new row counts.            *)
PutNode(n) ==
    /\ nodes' = nodes \union {n}
    /\ rows' = rows \union {n}
    /\ nodeCount' = nodeCount + (IF n \in nodes THEN 0 ELSE 1)
    /\ UNCHANGED <<messages, embedded, tombstoned, edges, edgeCount, crossed>>

(* MERGE the row and set its embedding: a missing row is created, bare and *)
(* uncounted.  An existing tombstone stays.                                *)
InsertVector(n) ==
    /\ nodes' = nodes \union {n}
    /\ embedded' = embedded \union {n}
    /\ UNCHANGED <<messages, rows, tombstoned, edges, nodeCount, edgeCount, crossed>>

(* Fault: MERGE in place of MATCH, or the flag kept apart from the row.    *)
DeleteVectorUnmatched(n) ==
    /\ tombstoned' = tombstoned \union {n}
    /\ UNCHANGED <<messages, nodes, rows, embedded, edges, nodeCount, edgeCount, crossed>>

(* MATCH the row and tombstone it: nothing happens to a missing one.       *)
DeleteVector(n) ==
    /\ tombstoned' = tombstoned \union ({n} \intersect nodes)
    /\ UNCHANGED <<messages, nodes, rows, embedded, edges, nodeCount, edgeCount, crossed>>

(* Fault: the counters are adjusted although the row was absent.           *)
DeleteNodeBlind(n, found, attached) ==
    /\ nodes' = nodes \ {n}
    /\ rows' = rows \ {n}
    /\ embedded' = embedded \ {n}
    /\ tombstoned' = tombstoned \ {n}
    /\ edges' = edges \ Incident(n)
    /\ nodeCount' = nodeCount - 1
    /\ edgeCount' = edgeCount - Cardinality(attached)
    /\ UNCHANGED <<messages, crossed>>

(* DETACH DELETE the row, and take what was read, the row and the edges    *)
(* `attached` to it, off the counters.  An absent row is silently accepted.*)
DeleteNode(n, found, attached) ==
    IF found
    THEN /\ nodes' = nodes \ {n}
         /\ rows' = rows \ {n}
         /\ embedded' = embedded \ {n}
         /\ tombstoned' = tombstoned \ {n}
         /\ edges' = edges \ Incident(n)
         /\ nodeCount' = nodeCount - 1
         /\ edgeCount' = edgeCount - Cardinality(attached)
         /\ crossed' = crossed \union (IF n \in nodes THEN {} ELSE {"node"})
                               \union (IF attached = Incident(n) THEN {} ELSE {"edge"})
         /\ UNCHANGED messages
    ELSE UNCHANGED store

-----------------------------------------------------------------------------
(* Edges.                                                                  *)

EndsStored(e) == e[1] \in nodes /\ e[2] \in nodes

(* An edge is written that was `found`, or not, when it was read.          *)
EdgeCrossing(e, found) ==
    crossed' = crossed \union (IF found = (e \in edges) THEN {} ELSE {"edge"})

(* Fault: a replaced edge is counted again.                                *)
PutEdgeRecounting(e, found) ==
    /\ edges' = edges \union (IF EndsStored(e) THEN {e} ELSE {})
    /\ edgeCount' = edgeCount + 1
    /\ EdgeCrossing(e, found)
    /\ UNCHANGED <<messages, nodes, rows, embedded, tombstoned, nodeCount>>

(* Fault: MERGE of the endpoints in place of MATCH.                        *)
PutEdgeMergingEnds(e, found) ==
    /\ nodes' = nodes \union {e[1], e[2]}
    /\ edges' = edges \union {e}
    /\ edgeCount' = edgeCount + (IF found THEN 0 ELSE 1)
    /\ EdgeCrossing(e, found)
    /\ UNCHANGED <<messages, rows, embedded, tombstoned, nodeCount>>

(* The MATCH on both endpoints yields no row when one is gone, and then    *)
(* nothing is merged; the counter delta is applied all the same.           *)
PutEdge(e, found) ==
    /\ edges' = edges \union (IF EndsStored(e) THEN {e} ELSE {})
    /\ edgeCount' = edgeCount + (IF found THEN 0 ELSE 1)
    /\ EdgeCrossing(e, found)
    /\ UNCHANGED <<messages, nodes, rows, embedded, tombstoned, nodeCount>>

(* An edge that was found has its properties set where it still is; one    *)
(* whose kind the update promotes is deleted and merged anew, uncounted.   *)
UpdateEdge(e, promoted) ==
    IF promoted
    THEN /\ edges' = edges \union (IF EndsStored(e) THEN {e} ELSE {})
         /\ EdgeCrossing(e, TRUE)
         /\ UNCHANGED <<messages, nodes, rows, embedded, tombstoned, nodeCount, edgeCount>>
    ELSE UNCHANGED store

(* Fault: the counter is adjusted although the edge was absent.            *)
DeleteEdgeBlind(e, found) ==
    /\ edges' = edges \ {e}
    /\ edgeCount' = edgeCount - 1
    /\ EdgeCrossing(e, found)
    /\ UNCHANGED <<messages, nodes, rows, embedded, tombstoned, nodeCount>>

(* An absent edge is silently accepted.                                    *)
DeleteEdge(e, found) ==
    IF found
    THEN /\ edges' = edges \ {e}
         /\ edgeCount' = edgeCount - 1
         /\ EdgeCrossing(e, found)
         /\ UNCHANGED <<messages, nodes, rows, embedded, tombstoned, nodeCount>>
    ELSE UNCHANGED store

=============================================================================
