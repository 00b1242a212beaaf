--------------------------- MODULE MemoryLifecycle ---------------------------
(***************************************************************************)
(* What the memory service promises about one memory, a message and the    *)
(* nodes cut from it, whatever else runs: it is written once, its message  *)
(* is on disk before its nodes and leaves after the last of them, and once *)
(* its writing has ended it only ever shrinks.  A memory that is forgotten *)
(* while it is still being written (`overtaken`) keeps only the last part  *)
(* of the promise.                                                         *)
(***************************************************************************)
CONSTANTS Msg, Node, MessageOf(_)

VARIABLES
    used,      \* messages whose writing has begun
    open,      \* messages being written
    overtaken, \* messages forgotten while they were being written
    kept,      \* messages on disk
    stored     \* nodes on disk

lifecycleVars == <<used, open, overtaken, kept, stored>>

Init ==
    /\ used = {}
    /\ open = {}
    /\ overtaken = {}
    /\ kept = {}
    /\ stored = {}

Begin(m) ==
    /\ m \notin used
    /\ used' = used \union {m}
    /\ open' = open \union {m}
    /\ UNCHANGED <<overtaken, kept, stored>>

Keep(m) ==
    /\ m \in open
    /\ kept' = kept \union {m}
    /\ UNCHANGED <<used, open, overtaken, stored>>

Remember(n) ==
    /\ MessageOf(n) \in open
    /\ MessageOf(n) \in kept \union overtaken
    /\ stored' = stored \union {n}
    /\ UNCHANGED <<used, open, overtaken, kept>>

End(m) ==
    /\ m \in open
    /\ open' = open \ {m}
    /\ UNCHANGED <<used, overtaken, kept, stored>>

Overtake(m) ==
    /\ m \in open
    /\ overtaken' = overtaken \union {m}
    /\ UNCHANGED <<used, open, kept, stored>>

Erase(n) ==
    /\ MessageOf(n) \in overtaken \union (used \ open)
    /\ stored' = stored \ {n}
    /\ UNCHANGED <<used, open, overtaken, kept>>

Drop(m) ==
    /\ m \in overtaken \union {x \in used \ open : \A n \in stored : MessageOf(n) # x}
    /\ kept' = kept \ {m}
    /\ UNCHANGED <<used, open, overtaken, stored>>

Next ==
    \/ \E m \in Msg : Begin(m) \/ Keep(m) \/ End(m) \/ Overtake(m) \/ Drop(m)
    \/ \E n \in Node : Remember(n) \/ Erase(n)

Spec == Init /\ [][Next]_lifecycleVars
=============================================================================
