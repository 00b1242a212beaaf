------------------------------ MODULE EvalRun -------------------------------
(***************************************************************************)
(* memmy-eval run, beside the ingests of the same dataset: the corpus is   *)
(* replayed into a tenant of its own under a clock that follows the turns' *)
(* timestamps, a battery of queries recalls from it, and a manifest names  *)
(* the corpus that was used (executeRun of cmd/memmy-eval/run.go, Replay   *)
(* and RunQueries of internal/eval/harness).                               *)
(*                                                                         *)
(* The corpus is read four times by four statements; each reads one        *)
(* snapshot, and an ingest may commit between any two.                     *)
(*                                                                         *)
(* A turn need not have a timestamp: parseLine ignores one that does not   *)
(* parse (extractor.go:197), and Replay then writes the turn a second      *)
(* after the one before it (replay.go:157-159).  Undated rows sort first,  *)
(* so they are written from the default date on, and the first dated row   *)
(* may set the clock back behind them.                                     *)
(***************************************************************************)
EXTENDS Ingest

CONSTANTS
    Stamp,       \* of each turn: its timestamp, or Undated when the record has none
    Undated,     \* the zero time: before every other when rows are sorted
    DefaultSeed, \* 2026-01-01
    Second, AdvanceClock,
    QueryText,   \* the labeled queries; one may be the text of a chunk
    Battery      \* bound: queries executed

ASSUME RunAssumption ==
    /\ Undated \in Int
    /\ Stamp \in [Turn -> Nat \union {Undated}]
    /\ Undated < 0
    /\ DefaultSeed \in Nat
    /\ Second \in Nat \ {0}
    /\ AdvanceClock \in Nat
    /\ QueryText \subseteq Chunk
    /\ Battery \in Nat

VARIABLE
    run   \* the locals of executeRun, with the nodes of its tenant

runVars == <<vars, run>>
dataset == <<content, sources, turns, calls, job>>

-----------------------------------------------------------------------------
Row == {<<f, t>> : f \in File, t \in Turn}
Rows == {r \in Row : r[2] \in turns[r[1]]}

Run == [
    pc      : {"idle", "texts", "seed", "open", "replay", "prewarm", "queries", "done",
               "failed"},
    claimed : SUBSET Row,  \* corpusHash: the rows SnapshotHash read
    texts   : SUBSET Row,  \* turnByText
    left    : SUBSET Row,  \* the rows of the replay's cursor still to come
    written : SUBSET Row,  \* replayed
    touched : [Row -> Int],  \* LastTouched of the nodes each row was written as
    clock   : Int,
    asked   : 0..Battery]

RunTypeOK == TypeOK /\ run \in Run

NoRun == [pc |-> "idle", claimed |-> {}, texts |-> {}, left |-> {}, written |-> {},
          touched |-> [r \in Row |-> 0], clock |-> 0, asked |-> 0]

RunInit == Init /\ run = NoRun

RunAt(label) == run.pc = label

Dated(r) == Stamp[r[2]] # Undated

-----------------------------------------------------------------------------
SnapshotHash ==
    /\ RunAt("idle")
    /\ run' = [run EXCEPT !.pc = "texts", !.claimed = Rows]
    /\ UNCHANGED vars

(* Fault: the hash is taken after the texts.                               *)
HashAfterTexts ==
    /\ RunAt("texts")
    /\ run' = [run EXCEPT !.pc = "seed", !.texts = run.claimed, !.claimed = Rows]
    /\ UNCHANGED vars

ReadTexts ==
    /\ RunAt("texts")
    /\ run' = [run EXCEPT !.pc = "seed", !.texts = Rows]
    /\ UNCHANGED vars

(* Fault: no ORDER BY.                                                     *)
AnyOrder(r, rows) == r \in rows

(* ORDER BY ts_unix_ms ASC: r may come first of rows.                      *)
First(r, rows) == \A q \in rows : Stamp[r[2]] <= Stamp[q[2]]

(* earliestTurnTime and OpenService: a zero time seeds the default.        *)
SeedClock ==
    /\ RunAt("seed")
    /\ \/ /\ Rows = {}
          /\ run' = [run EXCEPT !.pc = "open", !.clock = DefaultSeed]
       \/ \E r \in Rows :
             /\ First(r, Rows)
             /\ run' = [run EXCEPT !.pc = "open",
                           !.clock = IF Dated(r) THEN Stamp[r[2]] - Second ELSE DefaultSeed]
    /\ UNCHANGED vars

(* IterateTurns opens its cursor.                                          *)
OpenRows ==
    /\ RunAt("open")
    /\ run' = [run EXCEPT !.pc = "replay", !.left = Rows]
    /\ UNCHANGED vars

(* The callback: the clock, then Service.Write, whose chunks go through    *)
(* the caching embedder.                                                   *)
ClockFor(r) == IF Dated(r) THEN Stamp[r[2]] ELSE run.clock + Second

ReplayTurn ==
    /\ RunAt("replay")
    /\ \E r \in run.left :
          /\ First(r, run.left)
          /\ cache' = cache \union Chunks(r[2])
          /\ run' = [run EXCEPT !.clock = ClockFor(r),
                                !.left = @ \ {r},
                                !.written = @ \union {r},
                                !.touched[r] = ClockFor(r)]
    /\ UNCHANGED dataset

EndReplay ==
    /\ RunAt("replay")
    /\ run.left = {}
    /\ run' = [run EXCEPT !.pc = "prewarm"]
    /\ UNCHANGED vars

(* prewarmQueryEmbeddings.                                                 *)
Prewarm ==
    /\ RunAt("prewarm")
    /\ cache' = cache \union QueryText
    /\ run' = [run EXCEPT !.pc = "queries"]
    /\ UNCHANGED dataset

(* One query of RunQueries: the clock advances, Recall touches its hits,   *)
(* or some of them and fails, which is recorded with the result.           *)
RunQuery ==
    /\ RunAt("queries")
    /\ run.asked < Battery
    /\ \E hits \in SUBSET run.written :
          LET now == run.clock + AdvanceClock IN
          run' = [run EXCEPT !.clock = now, !.asked = @ + 1,
                     !.touched = [r \in Row |-> IF r \in hits THEN now ELSE @[r]]]
    /\ UNCHANGED vars

(* Metrics and the manifest, with the hash of the first step.              *)
FinishRun ==
    /\ RunAt("queries")
    /\ run.asked = Battery
    /\ run' = [NoRun EXCEPT !.pc = "done"]
    /\ UNCHANGED vars

(* A read, a Write or the embedder fails or the process dies: the run      *)
(* ends, and may have stored vectors of the texts it was embedding.        *)
Underway ==
    {c \in Chunk :
        \/ RunAt("replay") /\ \E r \in run.left : First(r, run.left) /\ c \in Chunks(r[2])
        \/ RunAt("prewarm") /\ c \in QueryText}

RunFails ==
    /\ run.pc \notin {"idle", "done", "failed"}
    /\ \E stored \in SUBSET Underway : cache' = cache \union stored
    /\ run' = [NoRun EXCEPT !.pc = "failed"]
    /\ UNCHANGED dataset

Runs ==
    \/ SnapshotHash \/ ReadTexts \/ SeedClock \/ OpenRows \/ ReplayTurn
    \/ EndReplay \/ Prewarm \/ RunQuery \/ FinishRun \/ RunFails

Next == (IngestNext /\ UNCHANGED run) \/ Runs

Spec == RunInit /\ [][Next]_runVars

-----------------------------------------------------------------------------
(* Properties.                                                             *)

(* internal/eval/harness/replay.go: decay math sees a clock at or after    *)
(* the LastTouched of every node, whatever order the turns were ingested   *)
(* in and whatever is ingested while the replay reads.  The one exception  *)
(* is a turn without a timestamp that was given a time later than that of  *)
(* a dated turn of the same corpus: the dated one set the clock back.      *)
SetBack(r) == \E q \in run.written : Dated(q) /\ Stamp[q[2]] < run.touched[r]

NeverFromTheFuture ==
    \A r \in run.written :
        run.touched[r] <= run.clock \/ (~Dated(r) /\ SetBack(r))

(* cmd/memmy-eval/run.go: every turn that the manifest's corpus hash       *)
(* stands for was replayed, and so was every turn a hit may be resolved    *)
(* to, though each was read at a different moment.                         *)
ClaimsOnlyReplayed ==
    RunAt("prewarm") \/ RunAt("queries") =>
        run.claimed \subseteq run.texts /\ run.texts \subseteq run.written
=============================================================================
