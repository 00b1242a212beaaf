------------------------------- MODULE Ingest -------------------------------
(***************************************************************************)
(* memmy-eval ingest: session transcripts are read into a dataset's corpus *)
(* store and their chunks embedded into its embedding cache                *)
(* (internal/eval/harness/ingest.go over internal/eval/corpus and          *)
(* internal/eval/embedcache).                                              *)
(*                                                                         *)
(* A transcript grows while it is read: its session appends lines, and a   *)
(* reader may find the last one half written.  Several ingests of one      *)
(* dataset may run at once, and each may fail or die between any two       *)
(* steps.  Every SQLite statement is a step; nothing joins two of them in  *)
(* a transaction.  What survives a failed ingest is what it had written,   *)
(* and the next ingest decides from the source_files rows what to skip.    *)
(*                                                                         *)
(* A line is a value; which lines are turns, the UUID of a turn and its    *)
(* chunks are parameters.  A digest is the content it is taken of.  Files  *)
(* are only appended to, and all ingests use one embedder model.  A record *)
(* is a JSON object, so no proper prefix of one is a record.               *)
(***************************************************************************)
EXTENDS Integers, Sequences

CONSTANTS
    Ingester,    \* the processes
    File,        \* paths of transcripts
    Line,        \* JSONL records
    Turn,        \* those that Extract hands on: user or assistant, with text
    Chunk,       \* texts of chunks
    Script,      \* what each session writes to its file, in order
    Uuid,        \* of each turn
    ChunkList,   \* of each turn's text
    FlushSize,   \* 64 in the code
    MaxTime,     \* bound: modification times
    MaxCalls     \* bound: ingests begun

ASSUME IngestAssumption ==
    /\ File # {}
    /\ Turn \subseteq Line
    /\ Script \in [File -> Seq(Line)]
    /\ ChunkList \in [Turn -> Seq(Chunk)]
    /\ FlushSize \in Nat \ {0}
    /\ MaxTime \in Nat
    /\ MaxCalls \in Nat

VARIABLES
    content,  \* of each file: its modification time, whole records, and what follows the last
    sources,  \* table source_files: the content each path was last ingested at
    turns,    \* table turns: the rows of each source file
    cache,    \* table embeddings: the chunks that have a vector
    calls,
    job       \* the locals of each process

vars == <<content, sources, turns, cache, calls, job>>

-----------------------------------------------------------------------------
(* The last record has its newline, or waits for it, or half of another    *)
(* record follows.                                                         *)
Tails == {"ended", "unended", "torn"}

Content == [mtime : 0..MaxTime, lines : Nat, tail : Tails]

Empty == [mtime |-> 0, lines |-> 0, tail |-> "ended"]
Unseen == [mtime |-> 0, lines |-> -1, tail |-> "ended"]  \* no row: no content has this digest

Job == [
    pc      : {"idle", "next", "hash", "check", "extract", "flush", "embed", "record", "done"},
    todo    : SUBSET File,
    file    : File,
    seen    : Content,       \* the SourceFile: stat and digest
    line    : Nat,           \* lines read
    pending : SUBSET Chunk,  \* pendingChunks
    queued  : Nat,           \* their number, repeats counted
    asking  : SUBSET Chunk,  \* texts still to be looked up
    missing : SUBSET Chunk,  \* missTexts not yet stored
    eof     : BOOLEAN,
    floor   : [File -> Nat]] \* history: whole lines of each listed file when the ingest began

Idle == [pc |-> "idle", todo |-> {}, file |-> CHOOSE f \in File : TRUE, seen |-> Empty,
         line |-> 0, pending |-> {}, queued |-> 0, asking |-> {}, missing |-> {},
         eof |-> FALSE, floor |-> [f \in File |-> 0]]

(* The locals of the loop over the files end with each iteration.          *)
NextOf(j) == [Idle EXCEPT !.pc = "next", !.todo = j.todo, !.floor = j.floor]

At(p, label) == job[p].pc = label
Become(p, j) == job' = [job EXCEPT ![p] = j]

Chunks(t) == {ChunkList[t][i] : i \in DOMAIN ChunkList[t]}

(* A turn that a row stands for: rows are unique by (uuid, source_file).   *)
Stored(f, t) == \E u \in turns[f] : Uuid[u] = Uuid[t]

(* The first n lines of f are in the corpus and their chunks in the cache. *)
Primed(f, n) ==
    \A i \in 1..n : Script[f][i] \in Turn =>
        Stored(f, Script[f][i]) /\ Chunks(Script[f][i]) \subseteq cache

TypeOK ==
    /\ content \in [File -> Content]
    /\ sources \in [File -> Content \union {Unseen}]
    /\ turns \in [File -> SUBSET Turn]
    /\ cache \subseteq Chunk
    /\ calls \in 0..MaxCalls
    /\ job \in [Ingester -> Job]

Init ==
    /\ content = [f \in File |-> Empty]
    /\ sources = [f \in File |-> Unseen]
    /\ turns = [f \in File |-> {}]
    /\ cache = {}
    /\ calls = 0
    /\ job = [p \in Ingester |-> Idle]

-----------------------------------------------------------------------------
(* The sessions.  Two writes may fall in one millisecond of mtime.         *)

Appended(before, n, tail) ==
    \/ n = 1 /\ tail # "torn"                           \* the next record, or the rest of it
    \/ n = 0 /\ tail = "torn" /\ before # "torn"        \* half of it
    \/ n = 0 /\ tail = "ended" /\ before = "unended"    \* a newline

SessionWrites(f) ==
    /\ \E tick \in {0, 1}, n \in {0, 1}, tail \in Tails :
          /\ Appended(content[f].tail, n, tail)
          /\ content[f].lines + (IF tail = "torn" THEN 1 ELSE n) <= Len(Script[f])
          /\ content[f].mtime + tick <= MaxTime
          /\ content' = [content EXCEPT ![f] =
                [mtime |-> @.mtime + tick, lines |-> @.lines + n, tail |-> tail]]
    /\ UNCHANGED <<sources, turns, cache, calls, job>>

-----------------------------------------------------------------------------
(* One ingest: of one file, or of a directory's, at most --limit of them.  *)

Begin(p) ==
    /\ At(p, "idle") \/ At(p, "done")
    /\ calls < MaxCalls
    /\ calls' = calls + 1
    /\ \E listed \in SUBSET File :
          Become(p, [Idle EXCEPT !.pc = "next", !.todo = listed,
                        !.floor = [f \in File |-> IF f \in listed THEN content[f].lines ELSE 0]])
    /\ UNCHANGED <<content, sources, turns, cache>>

(* HashFile, its os.Stat.                                                  *)
NextFile(p) ==
    /\ At(p, "next")
    /\ \E f \in job[p].todo :
          Become(p, [job[p] EXCEPT !.pc = "hash", !.file = f, !.todo = @ \ {f},
                                   !.seen = [Empty EXCEPT !.mtime = content[f].mtime]])
    /\ UNCHANGED <<content, sources, turns, cache, calls>>

(* HashFile, its read of the whole file.                                   *)
HashFile(p) ==
    /\ At(p, "hash")
    /\ LET now == content[job[p].file] IN
       Become(p, [job[p] EXCEPT !.pc = "check", !.seen.lines = now.lines, !.seen.tail = now.tail])
    /\ UNCHANGED <<content, sources, turns, cache, calls>>

(* Fault: the digest is not compared.                                      *)
HasFileOfThatTime(sf, f) == sources[f] # Unseen /\ sources[f].mtime = sf.mtime

(* SELECT content_hash WHERE path=? AND mtime_unix=?, then the comparison. *)
HasSourceFile(sf, f) ==
    /\ sources[f].mtime = sf.mtime
    /\ sources[f].lines = sf.lines
    /\ sources[f].tail = sf.tail

Check(p) ==
    /\ At(p, "check")
    /\ Become(p, IF HasSourceFile(job[p].seen, job[p].file)
                 THEN NextOf(job[p])
                 ELSE [job[p] EXCEPT !.pc = "extract"])
    /\ UNCHANGED <<content, sources, turns, cache, calls>>

(* INSERT OR IGNORE of a turn.                                             *)
PutTurn(f, t) == turns' = [turns EXCEPT ![f] = IF Stored(f, t) THEN @ ELSE @ \union {t}]

Queue(j, t) == [j EXCEPT !.line = @ + 1, !.pending = @ \union Chunks(t),
                         !.queued = @ + Len(ChunkList[t])]

(* The record that ReadBytes returns next.                                 *)
HasRecord(p) == job[p].line < content[job[p].file].lines
Record(p) == Script[job[p].file][job[p].line + 1]

(* A turn, with the callback that stores it and queues its chunks.         *)
ExtractTurn(p) ==
    /\ At(p, "extract")
    /\ HasRecord(p)
    /\ Record(p) \in Turn
    /\ PutTurn(job[p].file, Record(p))
    /\ LET j == Queue(job[p], Record(p)) IN
       Become(p, [j EXCEPT !.pc = IF j.queued >= FlushSize THEN "flush" ELSE "extract"])
    /\ UNCHANGED <<content, sources, cache, calls>>

(* Fault: the record is stored all the same.                               *)
StoreLine(p) ==
    /\ At(p, "extract")
    /\ HasRecord(p)
    /\ Record(p) \notin Turn
    /\ turns' = [turns EXCEPT ![job[p].file] = @ \union {Record(p)}]
    /\ Become(p, [job[p] EXCEPT !.line = @ + 1])
    /\ UNCHANGED <<content, sources, cache, calls>>

(* Any other record.                                                       *)
SkipLine(p) ==
    /\ At(p, "extract")
    /\ HasRecord(p)
    /\ Record(p) \notin Turn
    /\ Become(p, [job[p] EXCEPT !.line = @ + 1])
    /\ UNCHANGED <<content, sources, turns, cache, calls>>

(* Fault: no flush after the last line.                                    *)
EndUnflushed(p) ==
    /\ At(p, "extract")
    /\ job[p].line = content[job[p].file].lines
    /\ content[job[p].file].tail # "torn"
    /\ Become(p, [job[p] EXCEPT !.pc = "record", !.eof = TRUE])
    /\ UNCHANGED <<content, sources, turns, cache, calls>>

(* io.EOF after a record, whether its line is ended or not.                *)
EndOfFile(p) ==
    /\ At(p, "extract")
    /\ job[p].line = content[job[p].file].lines
    /\ content[job[p].file].tail # "torn"
    /\ Become(p, [job[p] EXCEPT !.pc = "flush", !.eof = TRUE])
    /\ UNCHANGED <<content, sources, turns, cache, calls>>

(* io.EOF after half a record: parseLine fails and the ingest with it.     *)
TornLine(p) ==
    /\ At(p, "extract")
    /\ job[p].line = content[job[p].file].lines
    /\ content[job[p].file].tail = "torn"
    /\ Become(p, Idle)
    /\ UNCHANGED <<content, sources, turns, cache, calls>>

(* flush and EmbedBatch: look every pending chunk up, embed those that     *)
(* miss, and store their vectors, one statement each.                      *)
AfterFlush(j) == IF j.eof THEN "record" ELSE "extract"

NothingPending(p) ==
    /\ At(p, "flush")
    /\ job[p].queued = 0
    /\ Become(p, [job[p] EXCEPT !.pc = AfterFlush(job[p])])
    /\ UNCHANGED <<content, sources, turns, cache, calls>>

Flush(p) ==
    /\ At(p, "flush")
    /\ job[p].queued > 0
    /\ Become(p, [job[p] EXCEPT !.pc = "embed", !.asking = job[p].pending, !.missing = {}])
    /\ UNCHANGED <<content, sources, turns, cache, calls>>

LookUp(p) ==
    /\ At(p, "embed")
    /\ \E c \in job[p].asking :
          Become(p, [job[p] EXCEPT !.asking = @ \ {c}, !.missing = @ \union ({c} \ cache)])
    /\ UNCHANGED <<content, sources, turns, cache, calls>>

PutVector(p) ==
    /\ At(p, "embed")
    /\ job[p].asking = {}
    /\ \E c \in job[p].missing :
          /\ cache' = cache \union {c}
          /\ Become(p, [job[p] EXCEPT !.missing = @ \ {c}])
    /\ UNCHANGED <<content, sources, turns, calls>>

Flushed(p) ==
    /\ At(p, "embed")
    /\ job[p].asking = {} /\ job[p].missing = {}
    /\ Become(p, [job[p] EXCEPT !.pc = AfterFlush(job[p]), !.pending = {}, !.queued = 0])
    /\ UNCHANGED <<content, sources, turns, cache, calls>>

PutSourceFile(p) ==
    /\ At(p, "record")
    /\ sources' = [sources EXCEPT ![job[p].file] = job[p].seen]
    /\ Become(p, NextOf(job[p]))
    /\ UNCHANGED <<content, turns, cache, calls>>

Return(p) ==
    /\ At(p, "next")
    /\ job[p].todo = {}
    /\ Become(p, [Idle EXCEPT !.pc = "done", !.floor = job[p].floor])
    /\ UNCHANGED <<content, sources, turns, cache, calls>>

(* A statement or the embedder fails, the context is cancelled, or the     *)
(* process dies.                                                           *)
Fail(p) ==
    /\ ~At(p, "idle") /\ ~At(p, "done")
    /\ Become(p, Idle)
    /\ UNCHANGED <<content, sources, turns, cache, calls>>

Ingests(p) ==
    \/ Begin(p) \/ NextFile(p) \/ HashFile(p) \/ Check(p)
    \/ ExtractTurn(p) \/ SkipLine(p) \/ EndOfFile(p) \/ TornLine(p)
    \/ NothingPending(p) \/ Flush(p) \/ LookUp(p) \/ PutVector(p) \/ Flushed(p)
    \/ PutSourceFile(p) \/ Return(p) \/ Fail(p)

Grow == \E f \in File : SessionWrites(f)

IngestNext == Grow \/ \E p \in Ingester : Ingests(p)

IngestSpec == Init /\ [][IngestNext]_vars

-----------------------------------------------------------------------------
(* Properties.                                                             *)

(* internal/eval/harness/ingest.go: the source_files row is the last       *)
(* thing written of a file, so a later ingest that skips the file on its   *)
(* word skips only work that was done: every turn of the recorded content  *)
(* is stored and every chunk of it has a vector, whatever failed, raced or *)
(* grew before.                                                            *)
RecordedIsPrimed == \A f \in File : Primed(f, sources[f].lines)

(* An ingest that returns without an error has every turn that the files   *)
(* it was given held when it began, those it skipped included, in the      *)
(* corpus and in the cache.                                                *)
DoneIsComplete ==
    \A p \in Ingester : At(p, "done") => \A f \in File : Primed(f, job[p].floor[f])
=============================================================================
