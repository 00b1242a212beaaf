---------------------------- MODULE MemoryService ----------------------------
(***************************************************************************)
(* Concurrent calls of Write, Recall and Forget on one tenant, over the    *)
(* shared store (internal/service).  A call runs as a process: it issues   *)
(* its storage transactions one after the other, holds no lock between     *)
(* two of them, and keeps nothing once it has returned.  A transaction     *)
(* that decides by a row it has read is two steps, the read and the write, *)
(* and others may come between them.  A call may also end at any point (a  *)
(* storage error, a cancelled context, a dead process): what it has        *)
(* committed stays.                                                        *)
(*                                                                         *)
(* Scores, weights and clocks are abstracted to the choices they decide:   *)
(* which nodes a search returns, which candidates become seeds, whether a  *)
(* decayed edge falls below its floor, which of two paths scores higher,   *)
(* how far back the recent window reaches.                                 *)
(* Reinforce, Demote, Mark and Stats change no record Storage keeps here.  *)
(***************************************************************************)
EXTENDS Storage, SequencesExt

CONSTANTS
    Writers, Recallers, Forgetters, \* the processes that may make each call
    SeedK,       \* RecallRequest.K
    Oversample,  \* vectors a search returns at most
    MaxHops,     \* RecallRequest.Hops
    RecentN,     \* StructuralRecentN
    MaxCalls     \* bound: Recall and Forget calls begun in a behaviour

Proc == Writers \union Recallers \union Forgetters

ASSUME ServiceAssumption ==
    /\ SeedK \in Nat \ {0}
    /\ Oversample \in Nat \ {0}
    /\ MaxHops \in Nat
    /\ RecentN \in Nat
    /\ MaxCalls \in Nat

VARIABLES
    minted,   \* number of message ids handed out
    calls,    \* number of Recall and Forget calls begun
    local,    \* the local state of each process
    written,  \* history: <<m, c>> once the Write of m has returned c node ids
    targeted, \* history: messages some Forget has begun to remove
    raced     \* history: those of them whose Write was still in progress then

vars == <<messages, nodes, rows, embedded, tombstoned, edges, nodeCount, edgeCount, crossed,
          minted, calls, local, written, targeted, raced>>
begun == <<minted, calls>>
history == <<written, targeted, raced>>

-----------------------------------------------------------------------------
(* Local state.                                                            *)

WritePC  == {"putMessage", "putNode", "insert", "link", "linkRecent"}
RecallPC == {"bump", "getEdge", "putEdge", "updateEdge", "pruneEdge",
             "notFound", "expand", "pruneRead", "traverse"}
ForgetPC == {"forgetMessage", "forgetNode", "inbound", "purge", "deleteNode"}

Local == [
    pc       : {"idle"} \union WritePC \union RecallPC \union ForgetPC,
    msg      : 0..MaxMsg,        \* the message being written or forgotten
    len      : 0..MaxChunks,     \* chunks of the message being written
    at       : 0..MaxChunks,     \* the chunk being stored
    msgs     : SUBSET Msg,       \* messages still to forget
    pend     : SUBSET Node,      \* hits still to bump; nodes still to forget
    cands    : SUBSET Node,      \* hits that were bumped
    kind     : {"none", "CoRetrieval", "CoTraversal"}, \* of the edges being reinforced
    work     : Seq(Edge),        \* edges still to put or reinforce, in order
    incident : SUBSET Edge,      \* edges a neighbour query returned
    tx       : {"closed", "found", "absent"}, \* what the open transaction has read
    path     : Seq(Node),        \* the frontier being expanded; the node being forgotten
    queue    : Seq(Seq(Node)),   \* frontier paths still to expand
    visit    : SUBSET Seq(Node)] \* best path to each visited node; results still to traverse

Idle == [pc |-> "idle", msg |-> 0, len |-> 0, at |-> 0, msgs |-> {}, pend |-> {},
         cands |-> {}, kind |-> "none", work |-> <<>>, incident |-> {}, tx |-> "closed",
         path |-> <<>>, queue |-> <<>>, visit |-> {}]

TypeOK ==
    /\ StorageTypeOK
    /\ minted \in 0..MaxMsg
    /\ calls \in 0..MaxCalls
    /\ local \in [Proc -> Local]
    /\ written \subseteq Node
    /\ targeted \subseteq Msg
    /\ raced \subseteq Msg

Init ==
    /\ StorageInit
    /\ minted = 0
    /\ calls = 0
    /\ local = [p \in Proc |-> Idle]
    /\ written = {}
    /\ targeted = {}
    /\ raced = {}

At(p, label) == local[p].pc = label
Become(p, l) == local' = [local EXCEPT ![p] = l]

(* A Write of m is between its first and its last storage call.            *)
Writing(m) == \E p \in Writers : local[p].pc \in WritePC /\ local[p].msg = m

Reversed(e) == <<e[2], e[1]>>

(* Every pair of s as the two directed edges between its nodes.  The code  *)
(* passes over a pair of a node with itself; no caller makes one.          *)
BothWays(s) ==
    [k \in 1..2 * Len(s) |->
        IF k % 2 = 1 THEN s[(k + 1) \div 2] ELSE Reversed(s[k \div 2])]

EdgesAlong(path) == [i \in 1..Len(path) - 1 |-> <<path[i], path[i + 1]>>]

(* The transaction of p that has read the row, and whether it was there.   *)
Opened(p) == local[p].tx # "closed"
Found(p)  == local[p].tx = "found"

(* The first half of PutEdge, UpdateEdge and DeleteEdge on the first edge  *)
(* of `work`: read the pair.                                               *)
EdgePC == {"link", "linkRecent", "putEdge", "updateEdge", "pruneEdge", "pruneRead"}
ReadPair(p) ==
    LET l == local[p] IN
    /\ l.pc \in EdgePC
    /\ l.work # <<>>
    /\ ~Opened(p)
    /\ Become(p, [l EXCEPT !.tx = IF Head(l.work) \in edges THEN "found" ELSE "absent"])
    /\ UNCHANGED <<store, begun, history>>

-----------------------------------------------------------------------------
(* Write: validation, chunking and embedding come before any storage call. *)

WriteStart(p) ==
    /\ p \in Writers
    /\ At(p, "idle")
    /\ minted < MaxMsg
    /\ minted' = minted + 1
    /\ \E c \in Chunk :
          Become(p, [Idle EXCEPT !.pc = "putMessage", !.msg = minted + 1, !.len = c])
    /\ UNCHANGED <<store, calls, history>>

(* Fault: the error of PutMessage is swallowed.                            *)
WritePutMessageLost(p) ==
    /\ At(p, "putMessage")
    /\ Become(p, [local[p] EXCEPT !.pc = "putNode", !.at = 1])
    /\ UNCHANGED <<store, begun, history>>

WritePutMessage(p) ==
    /\ At(p, "putMessage")
    /\ PutMessage(local[p].msg)
    /\ Become(p, [local[p] EXCEPT !.pc = "putNode", !.at = 1])
    /\ UNCHANGED <<begun, history>>

WritePutNode(p) ==
    /\ At(p, "putNode")
    /\ PutNode(<<local[p].msg, local[p].at>>)
    /\ Become(p, [local[p] EXCEPT !.pc = "insert"])
    /\ UNCHANGED <<begun, history>>

WriteInsert(p) ==
    LET l == local[p]
        pairs == [i \in 1..l.len - 1 |-> <<<<l.msg, i>>, <<l.msg, i + 1>>>>]
    IN /\ l.pc = "insert"
       /\ InsertVector(<<l.msg, l.at>>)
       /\ Become(p, IF l.at < l.len
                    THEN [l EXCEPT !.pc = "putNode", !.at = @ + 1]
                    ELSE [l EXCEPT !.pc = "link", !.work = BothWays(pairs)])
       /\ UNCHANGED <<begun, history>>

WritePutEdge(p) ==
    /\ local[p].pc \in {"link", "linkRecent"}
    /\ Opened(p)
    /\ PutEdge(Head(local[p].work), Found(p))
    /\ Become(p, [local[p] EXCEPT !.work = Tail(@), !.tx = "closed"])
    /\ UNCHANGED <<begun, history>>

(* created_at DESC, id DESC                                                *)
Newer(a, b) == a[1] > b[1] \/ (a[1] = b[1] /\ a[2] > b[2])

(* The at most RecentN newest nodes, newest first, of other messages       *)
(* created no earlier than `since`.                                        *)
RecentNodeIDs(since, exclude) ==
    LET candidates == {n \in rows : MessageOf(n) >= since /\ MessageOf(n) # exclude}
        newest == {n \in candidates :
                      Cardinality({x \in candidates : Newer(x, n)}) < RecentN}
    IN {s \in SetToSeqs(newest) :
           \A i, j \in DOMAIN s : i < j => Newer(s[i], s[j])}

WriteRecent(p) ==
    LET l == local[p] IN
    /\ l.pc = "link"
    /\ l.work = <<>>
    /\ \E since \in 1..l.msg : \E recent \in RecentNodeIDs(since, l.msg) :
          Become(p, [l EXCEPT !.pc = "linkRecent",
                              !.work = BothWays([i \in DOMAIN recent |->
                                                    <<<<l.msg, 1>>, recent[i]>>])])
    /\ UNCHANGED <<store, begun, history>>

WriteReturn(p) ==
    /\ At(p, "linkRecent")
    /\ local[p].work = <<>>
    /\ written' = written \union {<<local[p].msg, local[p].len>>}
    /\ Become(p, Idle)
    /\ UNCHANGED <<store, begun, targeted, raced>>

Write(p) ==
    \/ WritePutMessage(p) \/ WritePutNode(p) \/ WriteInsert(p)
    \/ WritePutEdge(p) \/ WriteRecent(p) \/ WriteReturn(p)

-----------------------------------------------------------------------------
(* Recall, phases 2 to 5: search, bump every hit, rank the seeds.  A search *)
(* that finds nothing returns at once and is left out.                     *)

RecallStart(p) ==
    /\ p \in Recallers
    /\ At(p, "idle")
    /\ calls < MaxCalls
    /\ calls' = calls + 1
    /\ \E hits \in SUBSET Searchable :
          /\ hits # {}
          /\ Cardinality(hits) <= Oversample
          /\ Become(p, [Idle EXCEPT !.pc = "bump", !.pend = hits])
    /\ UNCHANGED <<store, minted, history>>

(* applyNodeDecayReinforce: a hit deleted since the search is skipped.     *)
RecallBump(p) ==
    /\ At(p, "bump")
    /\ \E n \in local[p].pend :
          Become(p, [local[p] EXCEPT !.pend = @ \ {n},
                                     !.cands = @ \union ({n} \intersect nodes)])
    /\ UNCHANGED <<store, begun, history>>

(* The seeds are the best SeedK candidates in score order; a pair whose    *)
(* delta is not positive is passed over.                                   *)
RecallSeeds(p) ==
    LET l == local[p]
        k == IF SeedK < Cardinality(l.cands) THEN SeedK ELSE Cardinality(l.cands)
        ranks == {r \in (1..k) \X (1..k) : r[1] < r[2]}
    IN /\ l.pc = "bump"
       /\ l.pend = {}
       /\ \/ /\ l.cands = {}
             /\ Become(p, Idle)
          \/ /\ l.cands # {}
             /\ \E seeds \in kSubset(k, l.cands) : \E order \in SetToSeqs(seeds) :
                \E pairs \in SUBSET {<<order[r[1]], order[r[2]]>> : r \in ranks} :
                \E turns \in SetToSeqs(pairs) :
                   Become(p, [l EXCEPT
                       !.pc = IF turns = <<>> THEN "expand" ELSE "getEdge",
                       !.kind = "CoRetrieval",
                       !.work = BothWays(turns),
                       !.queue = [i \in 1..k |-> <<order[i]>>],
                       !.visit = {<<s>> : s \in seeds}])
       /\ UNCHANGED <<store, begun, history>>

-----------------------------------------------------------------------------
(* applyEdgeDecayReinforce on the first edge of `work`, in up to three     *)
(* transactions: GetEdge, then PutEdge or UpdateEdge, then DeleteEdge when *)
(* the new weight is below EdgeFloor.                                      *)

EdgeDone(l) ==
    [l EXCEPT !.work = Tail(@),
              !.tx = "closed",
              !.pc = IF Len(l.work) > 1 THEN "getEdge"
                     ELSE IF l.kind = "CoRetrieval" THEN "expand" ELSE "traverse"]

EdgeGet(p) ==
    LET l == local[p] IN
    /\ l.pc = "getEdge"
    /\ \/ Head(l.work) \in edges /\ Become(p, [l EXCEPT !.pc = "updateEdge"])
       \/ Head(l.work) \notin edges /\ Become(p, [l EXCEPT !.pc = "putEdge"])
       \/ Head(l.work) \notin edges /\ Become(p, EdgeDone(l)) \* delta below EdgeFloor
    /\ UNCHANGED <<store, begun, history>>

EdgePut(p) ==
    /\ At(p, "putEdge")
    /\ Opened(p)
    /\ PutEdge(Head(local[p].work), Found(p))
    /\ Become(p, EdgeDone(local[p]))
    /\ UNCHANGED <<begun, history>>

EdgeUpdate(p) ==
    LET l == local[p] IN
    /\ l.pc = "updateEdge"
    /\ Opened(p)
    /\ \/ /\ ~Found(p)
          /\ Become(p, [l EXCEPT !.pc = "notFound", !.tx = "closed"])
          /\ UNCHANGED store
       \/ /\ Found(p)
          /\ \E promoted \in BOOLEAN : UpdateEdge(Head(l.work), promoted)
          /\ \/ Become(p, EdgeDone(l))
             \/ Become(p, [l EXCEPT !.pc = "pruneEdge", !.tx = "closed"])
    /\ UNCHANGED <<begun, history>>

EdgePrune(p) ==
    /\ At(p, "pruneEdge")
    /\ Opened(p)
    /\ DeleteEdge(Head(local[p].work), Found(p))
    /\ Become(p, EdgeDone(local[p]))
    /\ UNCHANGED <<begun, history>>

(* UpdateEdge's ErrNotFound is returned: the whole call fails.             *)
RecallFail(p) ==
    /\ At(p, "notFound")
    /\ Become(p, Idle)
    /\ UNCHANGED <<store, begun, history>>

-----------------------------------------------------------------------------
(* Recall, phase 6: breadth-first expansion over the memory edges.         *)

RecallNeighbors(p) ==
    LET l == local[p]
        f == Head(l.queue)
    IN /\ l.pc = "expand"
       /\ l.incident = {}
       /\ l.queue # <<>>
       /\ Become(p, [l EXCEPT !.queue = Tail(@),
                              !.path = f,
                              !.incident = IF Len(f) - 1 < MaxHops
                                           THEN Outbound(Last(f)) ELSE {}])
       /\ UNCHANGED <<store, begun, history>>

(* Fault: the frontier being expanded is queued again, not the new one.    *)
RecallReadEdgeAgain(p) ==
    LET l == local[p] IN
    /\ l.pc = "expand"
    /\ \E e \in l.incident :
         LET rest == [l EXCEPT !.incident = @ \ {e}]
         IN \/ Become(p, rest)
            \/ /\ e \in edges
               /\ Become(p, [rest EXCEPT !.pc = "pruneRead", !.work = <<e>>])
            \/ /\ e \in edges
               /\ Become(p, [rest EXCEPT
                     !.visit = {q \in @ : Last(q) # e[2]} \union {Append(l.path, e[2])},
                     !.queue = Append(@, l.path)])
    /\ UNCHANGED <<store, begun, history>>

(* readDecayedEdge on one neighbour edge.  A missing edge is passed over,  *)
(* one below EdgeFloor is left to be deleted, and a live one either        *)
(* improves the path to its far node or does not.                          *)
RecallReadEdge(p) ==
    LET l == local[p] IN
    /\ l.pc = "expand"
    /\ \E e \in l.incident :
         LET rest    == [l EXCEPT !.incident = @ \ {e}]
             newPath == Append(l.path, e[2])
         IN \/ Become(p, rest)
            \/ /\ e \in edges
               /\ Become(p, [rest EXCEPT !.pc = "pruneRead", !.work = <<e>>])
            \/ /\ e \in edges
               /\ Become(p, [rest EXCEPT
                     !.visit = {q \in @ : Last(q) # e[2]} \union {newPath},
                     !.queue = Append(@, newPath)])
    /\ UNCHANGED <<store, begun, history>>

RecallPruneRead(p) ==
    /\ At(p, "pruneRead")
    /\ Opened(p)
    /\ DeleteEdge(Head(local[p].work), Found(p))
    /\ Become(p, [local[p] EXCEPT !.pc = "expand", !.work = <<>>, !.tx = "closed"])
    /\ UNCHANGED <<begun, history>>

-----------------------------------------------------------------------------
(* Recall, phases 7 to 9: rank what was visited, reinforce the paths that  *)
(* delivered a result, and answer.                                         *)

RecallRank(p) ==
    LET l == local[p]
        ranked == {q \in l.visit : Last(q) \in l.cands \union nodes}
        k == IF SeedK < Cardinality(ranked) THEN SeedK ELSE Cardinality(ranked)
    IN /\ l.pc = "expand"
       /\ l.incident = {}
       /\ l.queue = <<>>
       /\ \E results \in kSubset(k, ranked) :
             Become(p, [l EXCEPT !.pc = "traverse", !.kind = "CoTraversal", !.path = <<>>,
                                 !.visit = {q \in results : Len(q) > 1}])
       /\ UNCHANGED <<store, begun, history>>

RecallTraverse(p) ==
    LET l == local[p] IN
    /\ l.pc = "traverse"
    /\ \E q \in l.visit :
          Become(p, [l EXCEPT !.pc = "getEdge", !.visit = @ \ {q}, !.work = EdgesAlong(q)])
    /\ UNCHANGED <<store, begun, history>>

RecallReturn(p) ==
    /\ At(p, "traverse")
    /\ local[p].visit = {}
    /\ Become(p, Idle)
    /\ UNCHANGED <<store, begun, history>>

Recall(p) ==
    \/ RecallBump(p) \/ RecallSeeds(p)
    \/ EdgeGet(p) \/ EdgePut(p) \/ EdgeUpdate(p) \/ EdgePrune(p) \/ RecallFail(p)
    \/ RecallNeighbors(p) \/ RecallReadEdge(p) \/ RecallPruneRead(p)
    \/ RecallRank(p) \/ RecallTraverse(p) \/ RecallReturn(p)

-----------------------------------------------------------------------------
(* Forget.  A caller learns a message id from the Write that returned it   *)
(* or from a Recall of one of its nodes.                                   *)

Known(m) == \/ \E c \in Chunk : <<m, c>> \in written
            \/ \E n \in Searchable : n \in NodesOf(m)

ForgetStart(p) ==
    /\ p \in Forgetters
    /\ At(p, "idle")
    /\ calls < MaxCalls
    /\ calls' = calls + 1
    /\ \/ \E m \in Msg :                    \* by MessageID
             /\ Known(m)
             /\ Become(p, [Idle EXCEPT !.pc = "forgetMessage", !.msgs = {m}])
       \/ \E t \in Msg \union {MaxMsg + 1} : \* Before t
             /\ \E m \in messages : m < t
             /\ Become(p, [Idle EXCEPT !.pc = "forgetMessage",
                                       !.msgs = {m \in messages : m < t}])
    /\ UNCHANGED <<store, minted, history>>

ForgetNodes(p) ==
    /\ At(p, "forgetMessage")
    /\ \E m \in local[p].msgs :
          /\ Become(p, [local[p] EXCEPT !.pc = "forgetNode", !.msg = m,
                                        !.msgs = @ \ {m}, !.pend = NodesOf(m)])
          /\ targeted' = targeted \union {m}
          /\ raced' = IF Writing(m) THEN raced \union {m} ELSE raced
    /\ UNCHANGED <<store, begun, written>>

ForgetOutbound(p) ==
    /\ At(p, "forgetNode")
    /\ \E n \in local[p].pend :
          Become(p, [local[p] EXCEPT !.pc = "inbound", !.path = <<n>>, !.incident = Outbound(n)])
    /\ UNCHANGED <<store, begun, history>>

(* One DeleteEdge per unordered pair: the inbound half of a pair already   *)
(* seen outbound is left to DETACH DELETE.                                 *)
ForgetInbound(p) ==
    LET l == local[p] IN
    /\ l.pc = "inbound"
    /\ Become(p, [l EXCEPT !.pc = "purge",
                           !.incident = @ \union {e \in Inbound(l.path[1]) : Reversed(e) \notin @}])
    /\ UNCHANGED <<store, begun, history>>

ForgetReadPair(p) ==
    LET l == local[p] IN
    /\ l.pc = "purge"
    /\ ~Opened(p)
    /\ \E e \in l.incident :
          /\ e[1] = l.path[1] \/ \A d \in l.incident : d[1] # l.path[1]
          /\ Become(p, [l EXCEPT !.incident = @ \ {e},
                                 !.work = <<e>>,
                                 !.tx = IF e \in edges THEN "found" ELSE "absent"])
    /\ UNCHANGED <<store, begun, history>>

ForgetPurgeEdge(p) ==
    /\ At(p, "purge")
    /\ Opened(p)
    /\ DeleteEdge(Head(local[p].work), Found(p))
    /\ Become(p, [local[p] EXCEPT !.work = <<>>, !.tx = "closed"])
    /\ UNCHANGED <<begun, history>>

ForgetVector(p) ==
    /\ At(p, "purge")
    /\ ~Opened(p)
    /\ local[p].incident = {}
    /\ DeleteVector(local[p].path[1])
    /\ Become(p, [local[p] EXCEPT !.pc = "deleteNode"])
    /\ UNCHANGED <<begun, history>>

(* The first half of DeleteNode: read the row and the edges attached to it. *)
ForgetReadNode(p) ==
    LET l == local[p] IN
    /\ l.pc = "deleteNode"
    /\ ~Opened(p)
    /\ Become(p, [l EXCEPT !.tx = IF l.path[1] \in nodes THEN "found" ELSE "absent",
                           !.incident = Incident(l.path[1])])
    /\ UNCHANGED <<store, begun, history>>

ForgetDeleteNode(p) ==
    LET l == local[p] IN
    /\ l.pc = "deleteNode"
    /\ Opened(p)
    /\ DeleteNode(l.path[1], Found(p), l.incident)
    /\ Become(p, [l EXCEPT !.pc = "forgetNode", !.pend = @ \ {l.path[1]}, !.path = <<>>,
                           !.incident = {}, !.tx = "closed"])
    /\ UNCHANGED <<begun, history>>

(* Fault: the message goes before its nodes.                               *)
ForgetDeleteMessageEarly(p) ==
    /\ At(p, "forgetNode")
    /\ local[p].pend # {}
    /\ DeleteMessage(local[p].msg)
    /\ Become(p, local[p])
    /\ UNCHANGED <<begun, history>>

ForgetDeleteMessage(p) ==
    /\ At(p, "forgetNode")
    /\ local[p].pend = {}
    /\ DeleteMessage(local[p].msg)
    /\ Become(p, [local[p] EXCEPT !.pc = "forgetMessage", !.msg = 0])
    /\ UNCHANGED <<begun, history>>

ForgetReturn(p) ==
    /\ At(p, "forgetMessage")
    /\ local[p].msgs = {}
    /\ Become(p, Idle)
    /\ UNCHANGED <<store, begun, history>>

Forget(p) ==
    \/ ForgetNodes(p) \/ ForgetOutbound(p) \/ ForgetInbound(p)
    \/ ForgetReadPair(p) \/ ForgetPurgeEdge(p) \/ ForgetVector(p)
    \/ ForgetReadNode(p) \/ ForgetDeleteNode(p)
    \/ ForgetDeleteMessage(p) \/ ForgetReturn(p)

-----------------------------------------------------------------------------
Start(p) == WriteStart(p) \/ RecallStart(p) \/ ForgetStart(p)
Continue(p) == Write(p) \/ Recall(p) \/ Forget(p) \/ ReadPair(p)

(* The call ends early and nothing it committed is undone.                 *)
Abort(p) ==
    /\ ~At(p, "idle")
    /\ Become(p, Idle)
    /\ UNCHANGED <<store, begun, history>>

(* No call is in progress and none arrives.                                *)
Rest == (\A p \in Proc : At(p, "idle")) /\ UNCHANGED vars

Next == (\E p \in Proc : Start(p) \/ Continue(p) \/ Abort(p)) \/ Rest

Spec == Init /\ [][Next]_vars

(* A goroutine that can run is run, and the driver answers every call.     *)
Fairness == \A p \in Proc : WF_vars(Continue(p))
FairSpec == Spec /\ Fairness

-----------------------------------------------------------------------------
(* What the program counter of a call says of its local state.             *)

LocalOK(p, l) ==
    /\ l.pc \in WritePC => p \in Writers /\ l.msg \in Msg /\ l.len \in Chunk
    /\ l.pc \in {"putNode", "insert"} => l.at \in 1..l.len
    /\ l.pc \in ForgetPC => p \in Forgetters
    /\ l.pc \in ForgetPC \ {"forgetMessage"} => l.msg \in Msg
    /\ l.pc \in {"inbound", "purge", "deleteNode"} => l.path # <<>>
    /\ l.pc \in {"getEdge", "putEdge", "updateEdge", "pruneEdge", "pruneRead"} => l.work # <<>>
    /\ l.tx # "closed" => l.pc \in {"purge", "deleteNode"} \union EdgePC
    /\ l.tx # "closed" /\ l.pc # "deleteNode" => l.work # <<>>
    /\ l.pc \in {"getEdge", "putEdge", "updateEdge", "pruneEdge"} => l.kind # "none"
    /\ l.pc = "traverse" => l.kind = "CoTraversal"
    /\ l.pc \in {"expand", "pruneRead"} => l.kind # "CoTraversal"
    /\ l.kind = "CoTraversal" => \A q \in l.visit : Len(q) > 1

TypeInv == TypeOK /\ \A p \in Proc : LocalOK(p, local[p])

(* Every id in the system has been minted.                                 *)
IdsMinted ==
    /\ messages \subseteq 1..minted
    /\ \A n \in nodes \union written : n[1] \in 1..minted
    /\ \A p \in Proc : local[p].msg \in 0..minted /\ local[p].msgs \subseteq 1..minted
    /\ targeted \subseteq 1..minted
    /\ raced \subseteq targeted

(* What a Write has stored is still there while no Forget aims at it.      *)
StoredBy(l) == CASE l.pc \in {"putNode", "insert"}   -> 1..l.at - 1
                 [] l.pc \in {"link", "linkRecent"} -> 1..l.len
                 [] OTHER                           -> {}

WriterHolds(l) ==
    (l.pc \in WritePC /\ l.msg \notin targeted) =>
        /\ l.pc # "putMessage" => l.msg \in messages
        /\ l.pc = "insert" => <<l.msg, l.at>> \in rows \ tombstoned
        /\ \A i \in StoredBy(l) : <<l.msg, i>> \in rows \intersect Searchable

(* A Forget works on nodes of its message only, and unless it has          *)
(* overtaken the Write, what it has not deleted yet is all there is, and a *)
(* node its DeleteNode did not find stays away.                            *)
FoundAbsent(l) == l.pc = "deleteNode" /\ l.tx = "absent"
ForgetterHolds(l) ==
    l.pc \in ForgetPC \ {"forgetMessage"} =>
        /\ l.msg \in targeted
        /\ \A n \in l.pend : MessageOf(n) = l.msg
        /\ l.pc # "forgetNode" => MessageOf(l.path[1]) = l.msg
        /\ l.msg \notin raced => /\ NodesOf(l.msg) \subseteq l.pend
                                 /\ FoundAbsent(l) => l.path[1] \notin rows

(* A message that is being forgotten and still being written is `raced`.   *)
RacesSeen == \A m \in targeted : Writing(m) => m \in raced

TombstonesAimed == \A n \in tombstoned : MessageOf(n) \in targeted

-----------------------------------------------------------------------------
(* Properties.                                                             *)

(* The edge counter's excess over the stored edges never shrinks, except   *)
(* by a transaction that writes over a pair or a node's edges which        *)
(* another changed after it had read them (PutEdge, UpdateEdge, DeleteEdge *)
(* and DeleteNode with their counter deltas): nothing ever repairs a count *)
(* that a Forget has left too high, and until two transactions cross on an *)
(* edge, Stats never reports fewer edges than the store holds.             *)
Drift == edgeCount - Cardinality(edges)
EdgeCountBound == "edge" \in crossed \/ Drift >= 0
DriftIsPermanent == []["edge" \in crossed' \/ Drift' >= Drift]_vars

(* As long as no Forget has overtaken a Write, node_count never exceeds    *)
(* the number of :Node rows, also when several Forgets delete the same     *)
(* nodes and when calls die half-way; and it is that number until two      *)
(* DeleteNode transactions have both read a row and both subtracted it.    *)
NodeCountExact ==
    raced = {} => /\ nodeCount <= Cardinality(nodes)
                  /\ "node" \in crossed \/ nodeCount = Cardinality(nodes)

(* Counters and records agree.  Until a Forget begins to remove a message, *)
(* node_count is right in every state, whatever Writes and Recalls do to   *)
(* each other and wherever they die, and edge_count is right until two of  *)
(* their transactions cross on a pair, when one may count it again.        *)
EdgeCountExact == "edge" \in crossed \/ edgeCount = Cardinality(edges)
CountersExact ==
    targeted = {} => nodeCount = Cardinality(nodes) /\ EdgeCountExact

(* Unless a Forget overtook its Write, every node on disk is a complete    *)
(* row of a message still on disk, also after any call died half-way: a    *)
(* later Forget can find it.                                               *)
NoOrphans ==
    \A n \in nodes : MessageOf(n) \notin raced => n \in rows /\ MessageOf(n) \in messages

(* A message whose Write returned stays whole and searchable until some    *)
(* Forget has begun to remove that message.                                *)
WholeUntilForgotten ==
    \A w \in written : w[1] \notin targeted =>
        /\ w[1] \in messages
        /\ \A i \in 1..w[2] : <<w[1], i>> \in rows \intersect Searchable

(* Only the Write of a message brings its nodes into the store: once it    *)
(* has ended, a node that is gone stays gone, whatever calls still hold    *)
(* its id.                                                                 *)
NoResurrection ==
    [][\A n \in nodes' \ nodes : Writing(MessageOf(n))]_vars

(* The inductive invariant behind NoOrphans, WholeUntilForgotten and       *)
(* NodeCountExact.                                                         *)
IndInv ==
    /\ TypeInv
    /\ IdsMinted
    /\ RacesSeen
    /\ TombstonesAimed
    /\ \A p \in Proc : WriterHolds(local[p]) /\ ForgetterHolds(local[p])
    /\ NoOrphans
    /\ WholeUntilForgotten

(* The inductive invariant behind CountersExact: every edge joins two      *)
(* distinct nodes, and one a call may still put will, as long as no Forget *)
(* has begun to remove a message.                                          *)
EdgesAttached == \A e \in edges : e[1] # e[2] /\ EndsStored(e)
Present == IF targeted = {} THEN nodes ELSE Node
Linkable(e, S) == e[1] \in S /\ e[2] \in S /\ e[1] # e[2]
Walkable(q, S) == /\ \A i \in 1..Len(q) : q[i] \in S
                  /\ \A i \in 1..Len(q) - 1 : q[i] # q[i + 1]
LinksHold(l, S) ==
    /\ l.pc \notin ForgetPC => \A i \in 1..Len(l.work) : Linkable(l.work[i], S)
    /\ l.cands \subseteq S
    /\ \A i \in 1..Len(l.queue) : Walkable(l.queue[i], S)
    /\ \A q \in l.visit : Walkable(q, S)
    /\ l.pc \in RecallPC =>
         /\ Walkable(l.path, S)
         /\ \A e \in l.incident : e[1] = Last(l.path) /\ Linkable(e, S)
LinkInv ==
    /\ IndInv /\ EdgesAttached /\ CountersExact
    /\ "node" \in crossed => targeted # {}
    /\ \A p \in Proc : LinksHold(local[p], Present)

(* Every call returns, to its caller or with an error: the expansion of a  *)
(* Recall and the loops of a Forget end although the graph keeps changing. *)
EveryCallReturns == \A p \in Proc : ~At(p, "idle") ~> At(p, "idle")

(* The service keeps the promise MemoryLifecycle states of each memory.    *)
Lifecycle == INSTANCE MemoryLifecycle WITH
    used      <- 1..minted,
    open      <- {m \in Msg : Writing(m)},
    overtaken <- raced,
    kept      <- messages,
    stored    <- nodes
KeepsLifecycle == Lifecycle!Spec

(* What the repository says of itself and concurrency refutes: Forget      *)
(* removes a message with everything derived from it (forget.go).          *)
ForgetLeavesNothing == \A n \in rows : MessageOf(n) \in messages
=============================================================================
