------------------------------ MODULE Scoring -------------------------------
(***************************************************************************)
(* What an evaluation run measures: queries are labelled with the turns    *)
(* that should be found (memmy-eval queries), the turns are chunked and    *)
(* replayed, every query recalls, and a row says which of its hits come    *)
(* from a labelled turn and how much the recall has reinforced them        *)
(* (executeRun of cmd/memmy-eval/run.go, RunQueries of                     *)
(* internal/eval/harness/runner.go, internal/eval/metrics).                *)
(*                                                                         *)
(* The clock, the embedding cache and ingests beside a run are in EvalRun. *)
(* Turns are numbered by their timestamps.  A weight is what it has        *)
(* changed by since its node was written: nobody else uses the tenant.     *)
(***************************************************************************)
EXTENDS Chunker

CONSTANTS
    Corpora,     \* the trimmed texts of the turns, one sequence a corpus
    Settings,    \* windows and strides of the configuration
    TargetN,     \* queries per category
    K, Oversample,
    Change,      \* of a weight, by decay and reinforcement together
    MayFail      \* whether calls of the databases may fail

ASSUME ScoringAssumption ==
    /\ Corpora \subseteq Seq(Seq(Token))
    /\ \A c \in Corpora : \A t \in DOMAIN c : c[t] # <<>> /\ c[t] = TrimSpace(c[t])
    /\ \A s \in Settings : s.window \in Int /\ s.stride \in Int
    /\ Change \subseteq Int
    /\ {TargetN, K, Oversample} \subseteq Nat
    /\ MayFail \in BOOLEAN

VARIABLES
    text,
    setting,
    ingested,  \* table turns
    todo,      \* turns whose query is still to be stored; 0: the distractor
    labels,    \* table queries
    pc,        \* of executeRun
    chunks,    \* the nodes of the run's tenant, and their texts
    weight,    \* and their weights
    baseline,
    left,      \* queries to ask
    asked,     \* the query under way
    row,       \* the row last computed
    reported   \* history: of each node, the sum of the changes in the rows

vars == <<text, setting, ingested, todo, labels, pc, chunks, weight, baseline, left,
          asked, row, reported>>
corpus == <<text, setting, ingested, todo, labels>>

-----------------------------------------------------------------------------
Turn == DOMAIN text
Node == DOMAIN chunks
NodeOf(turns) == UNION {{<<t, i>> : i \in DOMAIN Chunkify(text[t], setting)} : t \in turns}

(* A query has the text it is made from; the distractors, which are about  *)
(* nothing, are one.                                                       *)
Label(sentence, gold) == [text |-> sentence, gold |-> gold]
Distractor == Label(<<>>, {})

NoRow == [gold |-> {}, hits |-> {}, flags |-> <<>>, read |-> FALSE]
NoQuery == [label |-> Distractor, hits |-> {}, before |-> <<>>]

ScoringTypeOK ==
    /\ ingested \subseteq Turn
    /\ todo \subseteq ingested \union {0}
    /\ \A l \in labels : l.gold \subseteq ingested
    /\ \A l, m \in labels : l.text = m.text => l = m
    /\ pc \in {"idle", "open", "ask", "read", "done"}
    /\ weight \in [Node -> Int]
    /\ baseline \in [Node -> Int]
    /\ reported \in [Node -> Int]
    /\ left \subseteq labels
    /\ asked.hits \subseteq Node
    /\ row.hits \subseteq Node

Init ==
    /\ text \in Corpora
    /\ setting \in Settings
    /\ ingested = {}
    /\ todo = {}
    /\ labels = {}
    /\ pc = "idle"
    /\ chunks = <<>>
    /\ weight = <<>>
    /\ baseline = <<>>
    /\ left = {}
    /\ asked = NoQuery
    /\ row = NoRow
    /\ reported = <<>>

-----------------------------------------------------------------------------
(* The dataset before the run.                                             *)

Ingest ==
    /\ pc = "idle"
    /\ \E t \in Turn \ ingested : ingested' = ingested \union {t}
    /\ UNCHANGED <<text, setting, todo, labels, pc, chunks, weight, baseline, left, asked,
                   row, reported>>

(* firstSentence, which knows of no abbreviations.                         *)
FirstSentence(s) ==
    LET marks == {i \in DOMAIN s : s[i] \in Mark}
    IN  IF marks = {} THEN s ELSE TrimSpace(SubSeq(s, 1, Min(marks)))

(* FakeGenerator: queries for the first TargetN turns, and distractors.    *)
Generate ==
    /\ pc = "idle" /\ todo = {}
    /\ ingested # {}
    /\ todo' = {0} \union {t \in ingested : Cardinality({u \in ingested : u < t}) < TargetN}
    /\ UNCHANGED <<text, setting, ingested, labels, pc, chunks, weight, baseline, left, asked,
                   row, reported>>

QueryFor(t) == IF t = 0 THEN Distractor ELSE Label(FirstSentence(text[t]), {t})

(* Fault: the id, which is the primary key, is not made from the text.     *)
PutAnew(l) == labels' = labels \union {l}

(* INSERT OR IGNORE; the id is a hash of the text.                         *)
PutLabel(l) ==
    labels' = IF \E m \in labels : m.text = l.text THEN labels ELSE labels \union {l}

(* The paraphrases are stored in the turns' order, the distractors last.   *)
Put ==
    /\ \E t \in todo :
          /\ \A u \in todo \ {0} : t # 0 /\ t <= u
          /\ PutLabel(QueryFor(t))
          /\ todo' = todo \ {t}
    /\ UNCHANGED <<text, setting, ingested, pc, chunks, weight, baseline, left, asked, row,
                   reported>>

(* Put fails, or the process dies.                                         *)
PutFails ==
    /\ MayFail
    /\ todo # {}
    /\ todo' = {}
    /\ UNCHANGED <<text, setting, ingested, labels, pc, chunks, weight, baseline, left, asked,
                   row, reported>>

-----------------------------------------------------------------------------
(* The run.                                                                *)

Replay ==
    /\ pc = "idle" /\ todo = {}
    /\ ingested # {}
    /\ pc' = "open"
    /\ chunks' = [n \in NodeOf(ingested) |-> Chunkify(text[n[1]], setting)[n[2]]]
    /\ weight' = [n \in NodeOf(ingested) |-> 0]
    /\ baseline' = [n \in NodeOf(ingested) |-> 0]
    /\ reported' = [n \in NodeOf(ingested) |-> 0]
    /\ UNCHANGED <<corpus, left, asked, row>>

(* All, which must not be empty, and the snapshot of every node.           *)
Snapshot ==
    /\ pc = "open"
    /\ labels # {}
    /\ pc' = "ask"
    /\ baseline' = weight
    /\ left' = labels
    /\ UNCHANGED <<corpus, chunks, weight, asked, row, reported>>

(* Recall decays and reinforces all of its candidates; the hits are the    *)
(* best of them and of what edges lead to.  All the nodes are in reach of  *)
(* the search.                                                             *)
Sought == Min({Max({Oversample, K}), Cardinality(Node)})

Touch(nodes) ==
    \E by \in [nodes -> Change] :
        weight' = [n \in Node |-> IF n \in nodes THEN weight[n] + by[n] ELSE weight[n]]

Recall ==
    /\ pc = "ask"
    /\ pc' = "read"
    /\ \E l \in left :
          /\ left' = left \ {l}
          /\ \E candidates \in kSubset(Sought, Node) :
                /\ Touch(candidates)
                /\ \E hits \in UNION {kSubset(k, Node) : k \in 1..Min({K, Cardinality(Node)})} :
                      asked' = [label |-> l, hits |-> hits, before |-> weight]
    /\ row' = NoRow
    /\ UNCHANGED <<corpus, chunks, baseline, reported>>

(* resolveByHitText: some turn whose text holds the chunk's.  Of turns     *)
(* with the same text only the last is known.                              *)
Known == {t \in ingested : ~\E u \in ingested : u > t /\ text[u] = text[t]}

(* Fault: the chunk must be the whole text.                                *)
SameText(h) == {t \in Known : chunks[h] = text[t]}

Resolved(h) == {t \in Known : Within(chunks[h], text[t])}

(* The row of a query: a hit counts if the turn it resolves to is gold.    *)
Compute(read) ==
    \E turn \in [asked.hits -> Turn \union {0}] :
        /\ \A h \in asked.hits :
              IF Resolved(h) = {} THEN turn[h] = 0 ELSE turn[h] \in Resolved(h)
        /\ row' = [gold  |-> asked.label.gold,
                   hits  |-> asked.hits,
                   flags |-> [h \in asked.hits |-> turn[h] \in asked.label.gold],
                   read  |-> read]

(* Recall fails when it has touched some of its candidates, or all.        *)
RecallFails ==
    /\ MayFail
    /\ pc = "ask"
    /\ \E l \in left : left' = left \ {l}
    /\ \E touched \in UNION {kSubset(k, Node) : k \in 0..Sought} :
          Touch(touched)
    /\ row' = NoRow
    /\ UNCHANGED <<corpus, pc, chunks, baseline, asked, reported>>

Report ==
    reported' = [n \in Node |-> IF n \in asked.hits
                                THEN reported[n] + (weight[n] - baseline[n])
                                ELSE reported[n]]

(* Fault: the baseline stays that of the battery's start.                  *)
ReadWithoutRefresh ==
    /\ pc = "read"
    /\ pc' = "ask"
    /\ Report
    /\ Compute(TRUE)
    /\ asked' = NoQuery
    /\ UNCHANGED <<corpus, chunks, weight, baseline, left>>

(* NodeStates of the hits: pre is the baseline's, post is read and becomes *)
(* the baseline's.                                                         *)
ReadStates ==
    /\ pc = "read"
    /\ pc' = "ask"
    /\ Report
    /\ baseline' = [n \in Node |-> IF n \in asked.hits THEN weight[n] ELSE baseline[n]]
    /\ Compute(TRUE)
    /\ asked' = NoQuery
    /\ UNCHANGED <<corpus, chunks, weight, left>>

(* The hits are kept, without their states.                                *)
ReadFails ==
    /\ MayFail
    /\ pc = "read"
    /\ pc' = "ask"
    /\ Compute(FALSE)
    /\ asked' = NoQuery
    /\ UNCHANGED <<corpus, chunks, weight, baseline, left, reported>>

(* The battery is over, or cancelled, or one of its first reads fails.     *)
Stop ==
    /\ pc \in {"open", "ask"}
    /\ pc' = "done"
    /\ chunks' = <<>> /\ weight' = <<>> /\ baseline' = <<>> /\ reported' = <<>>
    /\ left' = {}
    /\ asked' = NoQuery
    /\ row' = NoRow
    /\ UNCHANGED corpus

Next ==
    \/ Ingest \/ Generate \/ Put \/ PutFails
    \/ Replay \/ Snapshot \/ Recall \/ RecallFails \/ ReadStates \/ ReadFails \/ Stop

Spec == Init /\ [][Next]_vars

-----------------------------------------------------------------------------
(* Properties.                                                             *)

(* What a text says, and what of a turn is in a node.                      *)
Words(s) == FoldLeft(LAMBDA words, token :
                        IF token \in Blank THEN words ELSE Append(words, token), <<>>, s)
Holds(t, s) == \E n \in Node : n[1] = t /\ Within(s, chunks[n])

(* Whatever the text and however wrong the window and stride that are      *)
(* configured: the nodes written of a turn hold all of its words in order, *)
(* every sentence is whole in some node, and where windows overlap so is   *)
(* every pair of neighbours (SplitSentences, Chunkify).                    *)
NothingLost ==
    pc = "open" => \A t \in ingested :
        LET sentences == SplitSentences(text[t])
        IN  /\ Words(Join(sentences)) = Words(text[t])
            /\ \A i \in DOMAIN sentences : Holds(t, sentences[i])
            /\ Stride(setting) < Window(setting) =>
                  \A i \in 1..(Len(sentences) - 1) :
                     Holds(t, Join(SubSeq(sentences, i, i + 1)))

(* A node that is a sentence of a turn, or stands in no turn but its own.  *)
SentenceOf(h, t) == h[1] = t /\ chunks[h] \in ToSet(SplitSentences(text[t]))
Unique(h) == \A t \in ingested \ {h[1]} : ~Within(chunks[h], text[t])

(* A hit counts for a query only if its text is part of a turn the query   *)
(* is labelled with; and a hit that is one sentence of such a turn, and    *)
(* stands in no other turn, does count, though hits are matched by text    *)
(* and in no fixed order (resolveByHitText, Compute).                      *)
FlagsRight ==
    \A h \in row.hits :
        /\ row.flags[h] => \E t \in row.gold : Within(chunks[h], text[t])
        /\ Unique(h) /\ (\E t \in row.gold : SentenceOf(h, t)) => row.flags[h]

(* The changes that the rows report of a node add up to what its weight    *)
(* has changed by since the battery began, whenever it was just reported:  *)
(* none is reported twice and none goes missing, whichever queries failed  *)
(* or touched the node without it being a hit (the rolling baseline of     *)
(* RunQueries).                                                            *)
CountedOnce ==
    pc = "ask" /\ row.read => \A h \in row.hits : reported[h] = weight[h]

(* internal/eval/harness/runner.go: the state a query's hits are compared  *)
(* with is the one immediately before that query's Recall.  But Recall     *)
(* touches every candidate, and the baseline is renewed for hits only.     *)
PreIsBeforeRecall ==
    pc = "read" => \A h \in asked.hits : baseline[h] = asked.before[h]
=============================================================================
