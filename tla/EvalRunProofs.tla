--------------------------- MODULE EvalRunProofs ----------------------------
(***************************************************************************)
(* Theorems about Ingest and EvalRun, for any number of ingests, files,    *)
(* turns and chunks.                                                       *)
(***************************************************************************)
EXTENDS EvalRun, TLAPS

(* What a job owes and has done so far.  A file that the ingest has dealt  *)
(* with is primed to what it held when the ingest began; of the file in    *)
(* hand every line read is stored, and its chunks are cached or pending.   *)
InHand(p) ==
    IF job[p].pc \in {"hash", "check", "extract", "flush", "embed", "record"}
    THEN {job[p].file} ELSE {}

DealtWith(p) ==
    \A f \in File : f \notin job[p].todo \union InHand(p) => Primed(f, job[p].floor[f])

FloorIsOld(p) == \A f \in File : job[p].floor[f] <= content[f].lines

SeenSince(p) ==
    job[p].pc \in {"check", "extract", "flush", "embed", "record"} =>
        /\ job[p].floor[job[p].file] <= job[p].seen.lines
        /\ job[p].seen.lines <= content[job[p].file].lines

ReadSoFar(p) ==
    job[p].pc \in {"extract", "flush", "embed", "record"} =>
        \A i \in 1..job[p].line : Script[job[p].file][i] \in Turn =>
            /\ Stored(job[p].file, Script[job[p].file][i])
            /\ Chunks(Script[job[p].file][i]) \subseteq cache \union job[p].pending

Embedding(p) ==
    /\ job[p].pc = "embed" =>
          job[p].pending \subseteq cache \union job[p].asking \union job[p].missing
    /\ job[p].pc = "record" \/ job[p].queued = 0 => job[p].pending = {}

Fresh(p) ==
    /\ job[p].pc \in {"next", "hash", "check"} => job[p].line = 0
    /\ job[p].pc \in {"next", "hash", "check", "extract"} => ~job[p].eof
    /\ job[p].pc = "done" => job[p].todo = {}

ReadAll(p) ==
    job[p].pc = "record" \/ (job[p].pc \in {"flush", "embed"} /\ job[p].eof) =>
        job[p].seen.lines <= job[p].line

JobInv(p) ==
    /\ DealtWith(p)
    /\ FloorIsOld(p)
    /\ SeenSince(p)
    /\ ReadSoFar(p)
    /\ Embedding(p)
    /\ Fresh(p)
    /\ ReadAll(p)

IngestInv == TypeOK /\ RecordedIsPrimed /\ \A p \in Ingester : JobInv(p)

-----------------------------------------------------------------------------
(* Types.                                                                  *)

LEMMA IdleType == Idle \in Job
<1>1. (CHOOSE f \in File : TRUE) \in File
  BY IngestAssumption
<1>2. Empty \in Content
  BY IngestAssumption DEF Empty, Content, Tails
<1> QED BY <1>1, <1>2 DEF Idle, Job

LEMMA ChunksType == \A t \in Turn : Chunks(t) \subseteq Chunk /\ Len(ChunkList[t]) \in Nat
                                    /\ (Len(ChunkList[t]) = 0 => Chunks(t) = {})
BY IngestAssumption DEF Chunks

LEMMA QueueType == ASSUME NEW j \in Job, NEW t \in Turn PROVE Queue(j, t) \in Job
<1>1. j.line + 1 \in Nat /\ j.pending \union Chunks(t) \in SUBSET Chunk
      /\ j.queued + Len(ChunkList[t]) \in Nat
  BY ChunksType DEF Job
<1> QED BY <1>1 DEF Queue, Job

LEMMA LabelType ==
    ASSUME NEW j \in Job, NEW label \in {"idle", "next", "hash", "check", "extract", "flush",
                                         "embed", "record", "done"}
    PROVE  [j EXCEPT !.pc = label] \in Job
BY DEF Job

(* A step of one ingest keeps the types.                                   *)
LEMMA IngestTypes == ASSUME TypeOK, NEW p \in Ingester, Ingests(p) PROVE TypeOK'
<1> USE IdleType
<1> DEFINE j == job[p]
<1>0. j \in Job
  BY DEF TypeOK
<1>1. CASE Begin(p)
  <2>1. PICK listed \in SUBSET File :
           Become(p, [Idle EXCEPT !.pc = "next", !.todo = listed,
                        !.floor = [f \in File |-> IF f \in listed THEN content[f].lines ELSE 0]])
    BY <1>1 DEF Begin
  <2>2. [f \in File |-> IF f \in listed THEN content[f].lines ELSE 0] \in [File -> Nat]
    BY DEF TypeOK, Content
  <2>3. calls' \in 0..MaxCalls
    BY <1>1, IngestAssumption DEF Begin, TypeOK
  <2> QED BY <1>1, <2>1, <2>2, <2>3 DEF Begin, Become, TypeOK, Job
<1>2. CASE NextFile(p)
  <2>1. PICK f \in j.todo :
           Become(p, [job[p] EXCEPT !.pc = "hash", !.file = f, !.todo = @ \ {f},
                                    !.seen = [Empty EXCEPT !.mtime = content[f].mtime]])
    BY <1>2 DEF NextFile
  <2>2. f \in File
    BY <1>0 DEF Job
  <2>3. [Empty EXCEPT !.mtime = content[f].mtime] \in Content
    BY <2>2 DEF TypeOK, Content, Empty, Tails
  <2> QED BY <1>0, <1>2, <2>1, <2>2, <2>3 DEF NextFile, Become, TypeOK, Job
<1>3. CASE HashFile(p)
  <2>1. j.file \in File /\ content[j.file] \in Content /\ j.seen \in Content
    BY <1>0 DEF Job, TypeOK
  <2> DEFINE s == [j.seen EXCEPT !.lines = content[j.file].lines, !.tail = content[j.file].tail]
  <2>2. s \in Content
    BY <2>1 DEF Content
  <2>3. job' = [job EXCEPT ![p] = [j EXCEPT !.pc = "check", !.seen = s]]
    BY <1>0, <1>3 DEF HashFile, Become, Job
  <2> QED BY <1>0, <1>3, <2>2, <2>3 DEF HashFile, TypeOK, Job
<1>4. CASE Check(p)
  BY <1>0, <1>4 DEF Check, NextOf, Become, TypeOK, Job
<1>5. CASE ExtractTurn(p)
  <2> DEFINE t == Record(p)
             k == Queue(j, t)
             label == IF k.queued >= FlushSize THEN "flush" ELSE "extract"
  <2>1. j.file \in File /\ t \in Turn
    BY <1>0, <1>5 DEF Job, ExtractTurn
  <2>2. k \in Job
    BY <1>0, <2>1, QueueType
  <2>3. [k EXCEPT !.pc = label] \in Job
    BY <2>2, LabelType
  <2>4. turns' \in [File -> SUBSET Turn]
    BY <1>5, <2>1 DEF ExtractTurn, PutTurn, TypeOK
  <2>5. job' = [job EXCEPT ![p] = [k EXCEPT !.pc = label]]
    BY <1>5 DEF ExtractTurn, Become
  <2> QED BY <1>5, <2>3, <2>4, <2>5 DEF ExtractTurn, TypeOK
<1>14. CASE SkipLine(p)
  <2>1. [j EXCEPT !.line = @ + 1] \in Job
    BY <1>0 DEF Job
  <2> QED BY <1>14, <2>1 DEF SkipLine, Become, TypeOK
<1>6. CASE EndOfFile(p)
  BY <1>0, <1>6 DEF EndOfFile, Become, TypeOK, Job
<1>7. CASE TornLine(p) \/ Fail(p)
  BY <1>7 DEF TornLine, Fail, Become, TypeOK
<1>8. CASE NothingPending(p)
  BY <1>0, <1>8 DEF NothingPending, AfterFlush, Become, TypeOK, Job
<1>9. CASE Flush(p)
  BY <1>0, <1>9 DEF Flush, Become, TypeOK, Job
<1>15. CASE LookUp(p)
  <2>1. PICK c \in j.asking :
           Become(p, [job[p] EXCEPT !.asking = @ \ {c}, !.missing = @ \union ({c} \ cache)])
    BY <1>15 DEF LookUp
  <2>2. [job[p] EXCEPT !.asking = @ \ {c}, !.missing = @ \union ({c} \ cache)] \in Job
    BY <1>0 DEF Job
  <2> QED BY <1>15, <2>1, <2>2 DEF LookUp, Become, TypeOK
<1>10. CASE PutVector(p)
  <2>1. PICK c \in j.missing :
           cache' = cache \union {c} /\ Become(p, [job[p] EXCEPT !.missing = @ \ {c}])
    BY <1>10 DEF PutVector
  <2>2. [job[p] EXCEPT !.missing = @ \ {c}] \in Job /\ c \in Chunk
    BY <1>0, <2>1 DEF Job
  <2> QED BY <1>10, <2>1, <2>2 DEF PutVector, Become, TypeOK
<1>11. CASE Flushed(p)
  BY <1>0, <1>11 DEF Flushed, AfterFlush, Become, TypeOK, Job
<1>12. CASE PutSourceFile(p)
  BY <1>0, <1>12 DEF PutSourceFile, NextOf, Become, TypeOK, Job
<1>13. CASE Return(p)
  BY <1>0, <1>13 DEF Return, Become, TypeOK, Job
<1> QED BY <1>1, <1>2, <1>3, <1>4, <1>5, <1>6, <1>7, <1>8, <1>9, <1>10, <1>11, <1>12, <1>13,
          <1>14, <1>15, Ingests(p) DEF Ingests

LEMMA GrowTypes == ASSUME TypeOK, Grow PROVE TypeOK'
<1>1. PICK f \in File : SessionWrites(f)
  BY DEF Grow
<1>2. PICK tick \in {0, 1}, n \in {0, 1}, tail \in Tails :
        /\ content[f].mtime + tick <= MaxTime
        /\ content' = [content EXCEPT ![f] =
                [mtime |-> @.mtime + tick, lines |-> @.lines + n, tail |-> tail]]
  BY <1>1 DEF SessionWrites
<1>3. content[f] \in Content
  BY DEF TypeOK
<1> DEFINE new == [mtime |-> content[f].mtime + tick, lines |-> content[f].lines + n, tail |-> tail]
<1>4. content[f].mtime + tick \in 0..MaxTime /\ content[f].lines + n \in Nat
  BY <1>2, <1>3, IngestAssumption DEF Content
<1>5. new \in Content
  BY <1>4 DEF Content
<1>6. content' = [content EXCEPT ![f] = new]
  BY <1>2
<1> HIDE DEF new
<1>7. content' \in [File -> Content]
  BY <1>5, <1>6 DEF TypeOK
<1> QED BY <1>1, <1>7 DEF SessionWrites, TypeOK

-----------------------------------------------------------------------------
(* Nothing is ever taken out of the corpus or the cache, and no transcript *)
(* shrinks, so what has been done stays done.                              *)
Grows ==
    /\ \A f \in File : turns[f] \subseteq turns'[f] /\ content[f].lines <= content'[f].lines
    /\ cache \subseteq cache'

LEMMA StoredStays ==
    ASSUME Grows, NEW f \in File, NEW t, Stored(f, t)
    PROVE  Stored(f, t)'
BY DEF Grows, Stored

LEMMA PrimedStays ==
    ASSUME Grows, NEW f \in File, NEW n, Primed(f, n)
    PROVE  Primed(f, n)'
BY StoredStays DEF Primed, Grows

LEMMA PrimedBelow ==
    ASSUME NEW f \in File, NEW n \in Int, NEW m \in Int, n <= m, Primed(f, m)
    PROVE  Primed(f, n)
BY DEF Primed

LEMMA JobStands ==
    ASSUME TypeOK, TypeOK', Grows, NEW q \in Ingester, JobInv(q), job'[q] = job[q]
    PROVE  JobInv(q)'
<1>0. job[q] \in Job /\ job[q].file \in File
  BY DEF TypeOK, Job
<1>1. DealtWith(q)'
  <2>1. InHand(q)' = InHand(q)
    BY DEF InHand
  <2> QED BY <2>1, PrimedStays DEF JobInv, DealtWith
<1>2. FloorIsOld(q)'
  <2> SUFFICES ASSUME NEW f \in File PROVE job[q].floor[f] <= content'[f].lines
    BY DEF FloorIsOld
  <2>1. job[q].floor[f] \in Nat /\ content[f].lines \in Nat /\ content'[f].lines \in Nat
    BY <1>0 DEF TypeOK, Job, Content
  <2> QED BY <2>1 DEF JobInv, FloorIsOld, Grows
<1>3. SeenSince(q)'
  <2>1. content[job[q].file].lines \in Nat /\ content'[job[q].file].lines \in Nat
        /\ job[q].seen.lines \in Nat
    BY <1>0 DEF TypeOK, Job, Content
  <2> QED BY <1>0, <2>1 DEF JobInv, SeenSince, Grows
<1>4. ReadSoFar(q)'
  BY <1>0, StoredStays DEF JobInv, ReadSoFar, Grows
<1>5. Embedding(q)'
  BY DEF JobInv, Embedding, Grows
<1>6. Fresh(q)' /\ ReadAll(q)'
  BY DEF JobInv, Fresh, ReadAll
<1> QED BY <1>1, <1>2, <1>3, <1>4, <1>5, <1>6 DEF JobInv

LEMMA RecordedStays ==
    ASSUME RecordedIsPrimed, Grows, UNCHANGED sources
    PROVE  RecordedIsPrimed'
BY PrimedStays DEF RecordedIsPrimed

LEMMA IngestGrows == ASSUME TypeOK, NEW p \in Ingester, Ingests(p) PROVE Grows
<1>1. CASE ExtractTurn(p)
  <2>1. job[p].file \in File
    BY DEF TypeOK, Job
  <2>2. \A f \in File : turns[f] \subseteq turns'[f]
    BY <1>1, <2>1 DEF ExtractTurn, PutTurn, TypeOK
  <2>3. \A f \in File : content[f].lines \in Nat
    BY DEF TypeOK, Content
  <2> QED BY <1>1, <2>2, <2>3 DEF ExtractTurn, Grows
<1>2. CASE ~ExtractTurn(p)
  <2>1. UNCHANGED <<content, turns>> /\ cache \subseteq cache'
    BY <1>2, Ingests(p) DEF Ingests, Begin, NextFile, HashFile, Check, SkipLine, EndOfFile,
       TornLine, NothingPending, Flush, LookUp, PutVector, Flushed, PutSourceFile, Return, Fail
  <2>2. \A f \in File : content[f].lines \in Nat
    BY DEF TypeOK, Content
  <2> QED BY <2>1, <2>2 DEF Grows
<1> QED BY <1>1, <1>2

LEMMA GrowGrows == ASSUME TypeOK, Grow PROVE Grows
<1>1. PICK f \in File : SessionWrites(f)
  BY DEF Grow
<1>2. \A g \in File : content[g].lines \in Nat /\ content[g].lines <= content'[g].lines
  BY <1>1 DEF SessionWrites, TypeOK, Content
<1> QED BY <1>1, <1>2 DEF SessionWrites, Grows

-----------------------------------------------------------------------------
(* A step of an ingest keeps what is known of it.                          *)

(* Most steps touch neither the floor nor the files dealt with.            *)
LEMMA DealtWithStays ==
    ASSUME TypeOK, Grows, NEW p \in Ingester, JobInv(p),
           job'[p].floor = job[p].floor,
           job[p].todo \union InHand(p) \subseteq (job[p].todo \union InHand(p))'
    PROVE  DealtWith(p)'
BY PrimedStays DEF JobInv, DealtWith

LEMMA FloorStays ==
    ASSUME TypeOK, TypeOK', Grows, NEW p \in Ingester, JobInv(p), job'[p].floor = job[p].floor
    PROVE  FloorIsOld(p)'
<1> SUFFICES ASSUME NEW f \in File PROVE job[p].floor[f] <= content'[f].lines
  BY DEF FloorIsOld
<1>1. job[p].floor[f] \in Nat /\ content[f].lines \in Nat /\ content'[f].lines \in Nat
  BY DEF TypeOK, Job, Content
<1> QED BY <1>1 DEF JobInv, FloorIsOld, Grows

LEMMA ReadIsPrimed ==
    ASSUME TypeOK, NEW p \in Ingester, JobInv(p), At(p, "record")
    PROVE  /\ Primed(job[p].file, job[p].seen.lines)
           /\ Primed(job[p].file, job[p].floor[job[p].file])
<1>1. job[p].file \in File /\ job[p].line \in Nat /\ job[p].seen.lines \in Nat
      /\ job[p].floor[job[p].file] \in Nat
  BY DEF TypeOK, Job, Content
<1>2. Primed(job[p].file, job[p].line)
  BY DEF JobInv, ReadSoFar, Embedding, At, Primed
<1>3. job[p].seen.lines <= job[p].line /\ job[p].floor[job[p].file] <= job[p].seen.lines
  BY DEF JobInv, ReadAll, SeenSince, At
<1>4. Primed(job[p].file, job[p].seen.lines)
  BY <1>1, <1>2, <1>3, PrimedBelow
<1> QED BY <1>1, <1>3, <1>4, PrimedBelow

LEMMA IdleInv ==
    ASSUME TypeOK', NEW p \in Ingester, job'[p] = Idle
    PROVE  JobInv(p)'
<1>1. \A f \in File : job'[p].floor[f] = 0 /\ content'[f].lines \in Nat
  BY DEF TypeOK, Content, Idle
<1>2. DealtWith(p)'
  BY <1>1 DEF DealtWith, Primed
<1>3. FloorIsOld(p)'
  BY <1>1 DEF FloorIsOld
<1> QED BY <1>2, <1>3 DEF JobInv, SeenSince, ReadSoFar, Embedding, Fresh, ReadAll, Idle

(* Back to the loop over the files, the one in hand being primed.          *)
LEMMA NextInv ==
    ASSUME TypeOK, TypeOK', Grows, NEW p \in Ingester, JobInv(p),
           job'[p] = NextOf(job[p]),
           \A f \in InHand(p) : Primed(f, job[p].floor[f])
    PROVE  JobInv(p)'
<1>1. job'[p].floor = job[p].floor /\ job'[p].todo = job[p].todo
  BY DEF NextOf, Idle
<1>2. DealtWith(p)'
  <2>1. \A f \in File : f \notin job[p].todo => Primed(f, job[p].floor[f])
    BY DEF JobInv, DealtWith
  <2> QED BY <1>1, <2>1, PrimedStays DEF DealtWith
<1>3. FloorIsOld(p)'
  BY <1>1, FloorStays
<1> QED BY <1>2, <1>3 DEF JobInv, SeenSince, ReadSoFar, Embedding, Fresh, ReadAll, NextOf, Idle

(* Within one file.                                                        *)
LEMMA SeenStays ==
    ASSUME TypeOK, TypeOK', Grows, NEW p \in Ingester, JobInv(p),
           job[p].pc \in {"check", "extract", "flush", "embed", "record"},
           job'[p].floor = job[p].floor, job'[p].seen = job[p].seen, job'[p].file = job[p].file,
           job'[p].todo = job[p].todo,
           job'[p].pc \in {"extract", "flush", "embed", "record"}
    PROVE  DealtWith(p)' /\ FloorIsOld(p)' /\ SeenSince(p)'
<1>1. job[p].file \in File /\ content[job[p].file].lines \in Nat
      /\ content'[job[p].file].lines \in Nat /\ job[p].seen.lines \in Nat
  BY DEF TypeOK, Job, Content
<1>2. DealtWith(p)'
  BY DealtWithStays DEF InHand
<1>3. FloorIsOld(p)'
  BY FloorStays
<1> QED BY <1>1, <1>2, <1>3 DEF JobInv, SeenSince, Grows

LEMMA ReadStays ==
    ASSUME TypeOK, Grows, NEW p \in Ingester, JobInv(p),
           job[p].pc \in {"extract", "flush", "embed", "record"},
           job'[p].file = job[p].file, job'[p].line = job[p].line,
           cache \union job[p].pending \subseteq cache' \union job'[p].pending
    PROVE  ReadSoFar(p)'
<1>1. job[p].file \in File
  BY DEF TypeOK, Job
<1> QED BY <1>1, StoredStays DEF JobInv, ReadSoFar

LEMMA JobStep ==
    ASSUME TypeOK, TypeOK', RecordedIsPrimed, Grows, NEW p \in Ingester, JobInv(p), Ingests(p)
    PROVE  JobInv(p)'
<1> DEFINE j == job[p]
<1>0. j \in Job /\ j.file \in File /\ job'[p] \in Job
  BY DEF TypeOK, Job
<1>1. CASE Begin(p)
  <2>1. PICK listed \in SUBSET File :
           job'[p] = [Idle EXCEPT !.pc = "next", !.todo = listed,
                        !.floor = [f \in File |-> IF f \in listed THEN content[f].lines ELSE 0]]
    BY <1>1 DEF Begin, Become, TypeOK
  <2>2. \A f \in File : job'[p].floor[f] = IF f \in listed THEN content[f].lines ELSE 0
    BY <2>1 DEF Idle
  <2>3. DealtWith(p)'
    BY <2>1, <2>2 DEF DealtWith, Primed, Idle
  <2>4. FloorIsOld(p)'
    BY <1>1, <2>2 DEF Begin, FloorIsOld, TypeOK, Content
  <2> QED BY <2>1, <2>3, <2>4 DEF JobInv, SeenSince, ReadSoFar, Embedding, Fresh, ReadAll, Idle
<1>2. CASE NextFile(p)
  <2>1. PICK f \in j.todo :
           job'[p] = [j EXCEPT !.pc = "hash", !.file = f, !.todo = @ \ {f},
                               !.seen = [Empty EXCEPT !.mtime = content[f].mtime]]
    BY <1>2 DEF NextFile, Become, TypeOK
  <2>2. job'[p].pc = "hash" /\ job'[p].file = f /\ job'[p].todo = j.todo \ {f}
        /\ job'[p].floor = j.floor /\ job'[p].line = j.line /\ job'[p].eof = j.eof
        /\ job'[p].pending = j.pending /\ job'[p].queued = j.queued
    BY <1>0, <2>1 DEF Job
  <2>3. DealtWith(p)'
    BY <1>2, <2>2, DealtWithStays DEF NextFile, InHand, At
  <2>4. FloorIsOld(p)'
    BY <2>2, FloorStays
  <2> QED BY <1>2, <2>2, <2>3, <2>4 DEF NextFile, At, JobInv, SeenSince, ReadSoFar, Embedding,
                                       Fresh, ReadAll
<1>3. CASE HashFile(p)
  <2>1. job'[p] = [j EXCEPT !.pc = "check", !.seen.lines = content[j.file].lines,
                            !.seen.tail = content[j.file].tail]
    BY <1>3 DEF HashFile, Become, TypeOK
  <2>2. j.seen \in Content
    BY <1>0 DEF Job
  <2>3. job'[p].pc = "check" /\ job'[p].file = j.file /\ job'[p].todo = j.todo
        /\ job'[p].floor = j.floor /\ job'[p].line = j.line /\ job'[p].eof = j.eof
        /\ job'[p].pending = j.pending /\ job'[p].queued = j.queued
        /\ job'[p].seen.lines = content[j.file].lines
    <3> DEFINE s == [j.seen EXCEPT !.lines = content[j.file].lines, !.tail = content[j.file].tail]
    <3>1. s.lines = content[j.file].lines
      BY <2>2 DEF Content
    <3>2. job'[p] = [j EXCEPT !.pc = "check", !.seen = s]
      BY <1>0, <2>1 DEF Job
    <3> HIDE DEF s
    <3> QED BY <1>0, <3>1, <3>2 DEF Job
  <2>4. DealtWith(p)'
    BY <1>3, <2>3, DealtWithStays DEF HashFile, InHand, At
  <2>5. FloorIsOld(p)'
    BY <2>3, FloorStays
  <2>6. SeenSince(p)'
    BY <1>0, <1>3, <2>3 DEF HashFile, SeenSince, JobInv, FloorIsOld, TypeOK, Content
  <2> QED BY <1>3, <2>3, <2>4, <2>5, <2>6 DEF HashFile, At, JobInv, ReadSoFar, Embedding,
                                              Fresh, ReadAll
<1>4. CASE Check(p)
  <2>1. CASE HasSourceFile(j.seen, j.file)
    <3>1. job'[p] = NextOf(j)
      BY <1>4, <2>1 DEF Check, Become, TypeOK
    <3>2. j.seen.lines \in Nat /\ j.floor[j.file] \in Nat /\ j.floor[j.file] <= j.seen.lines
      BY <1>0, <1>4 DEF Check, At, JobInv, SeenSince, Job, Content
    <3>3. Primed(j.file, j.seen.lines)
      BY <1>0, <2>1 DEF HasSourceFile, RecordedIsPrimed
    <3>4. Primed(j.file, j.floor[j.file])
      BY <1>0, <3>2, <3>3, PrimedBelow
    <3> QED BY <1>4, <3>1, <3>4, NextInv DEF Check, At, InHand
  <2>2. CASE ~HasSourceFile(j.seen, j.file)
    <3>1. job'[p] = [j EXCEPT !.pc = "extract"]
      BY <1>4, <2>2 DEF Check, Become, TypeOK
    <3>2. job'[p].pc = "extract" /\ job'[p].file = j.file /\ job'[p].todo = j.todo
          /\ job'[p].floor = j.floor /\ job'[p].line = j.line /\ job'[p].eof = j.eof
          /\ job'[p].pending = j.pending /\ job'[p].queued = j.queued /\ job'[p].seen = j.seen
      BY <1>0, <3>1 DEF Job
    <3>3. DealtWith(p)' /\ FloorIsOld(p)' /\ SeenSince(p)'
      BY <1>4, <3>2, SeenStays DEF Check, At
    <3> QED BY <1>4, <3>2, <3>3 DEF Check, At, JobInv, ReadSoFar, Embedding, Fresh, ReadAll
  <2> QED BY <2>1, <2>2
<1>5. CASE ExtractTurn(p)
  <2>0. PICK t \in Turn, g \in File : t = Record(p) /\ g = j.file
    BY <1>0, <1>5 DEF ExtractTurn
  <2> DEFINE label == IF j.queued + Len(ChunkList[t]) >= FlushSize THEN "flush" ELSE "extract"
  <2>1. j.line \in Nat /\ j.queued \in Nat /\ j.pc = "extract" /\ ~j.eof
    BY <1>0, <1>5 DEF ExtractTurn, At, Job, JobInv, Fresh
  <2>2. job'[p] = [Queue(j, t) EXCEPT !.pc = label]
    <3>1. Queue(j, t).queued = j.queued + Len(ChunkList[t])
      BY <1>0 DEF Queue, Job
    <3> QED BY <1>5, <2>0, <3>1 DEF ExtractTurn, Become, TypeOK
  <2>3. job'[p].pc = label /\ job'[p].file = j.file /\ job'[p].todo = j.todo
        /\ job'[p].floor = j.floor /\ job'[p].line = j.line + 1 /\ job'[p].eof = j.eof
        /\ job'[p].pending = j.pending \union Chunks(t)
        /\ job'[p].queued = j.queued + Len(ChunkList[t]) /\ job'[p].seen = j.seen
    BY <1>0, <2>2 DEF Queue, Job
  <2>4. DealtWith(p)' /\ FloorIsOld(p)' /\ SeenSince(p)'
    BY <2>1, <2>3, SeenStays
  <2>5. ReadSoFar(p)'
    <3> SUFFICES ASSUME NEW i \in 1..(j.line + 1), Script[g][i] \in Turn
                 PROVE  /\ Stored(g, Script[g][i])'
                        /\ Chunks(Script[g][i]) \subseteq cache' \union j.pending \union Chunks(t)
      BY <2>0, <2>3 DEF ReadSoFar
    <3>1. CASE i \in 1..j.line
      BY <2>0, <2>1, <3>1, StoredStays DEF JobInv, ReadSoFar, Grows
    <3>2. CASE i = j.line + 1
      <4>1. Stored(g, t)'
        <5>1. CASE Stored(g, t)
          BY <5>1, StoredStays
        <5>2. CASE ~Stored(g, t)
          BY <1>5, <2>0, <5>2 DEF ExtractTurn, PutTurn, Stored, TypeOK
        <5> QED BY <5>1, <5>2
      <4>2. Script[g][i] = t
        BY <2>0, <3>2 DEF Record
      <4> QED BY <2>0, <4>1, <4>2
    <3> QED BY <2>1, <3>1, <3>2
  <2>6. Embedding(p)'
    <3>1. job'[p].pc # "embed" /\ job'[p].pc # "record"
      BY <2>3
    <3>2. ASSUME job'[p].queued = 0 PROVE job'[p].pending = {}
      <4>1. Len(ChunkList[t]) \in Nat /\ (Len(ChunkList[t]) = 0 => Chunks(t) = {})
        BY ChunksType
      <4>2. j.queued = 0 /\ Len(ChunkList[t]) = 0
        BY <2>1, <2>3, <3>2, <4>1
      <4>3. j.pending = {}
        BY <4>2 DEF JobInv, Embedding
      <4> QED BY <2>3, <4>1, <4>2, <4>3
    <3> QED BY <3>1, <3>2 DEF Embedding
  <2> QED BY <2>1, <2>3, <2>4, <2>5, <2>6 DEF JobInv, Fresh, ReadAll
<1>6. CASE SkipLine(p)
  <2>1. job'[p] = [j EXCEPT !.line = @ + 1] /\ UNCHANGED <<turns, cache>>
    BY <1>6 DEF SkipLine, Become, TypeOK
  <2>2. job'[p].pc = "extract" /\ j.pc = "extract" /\ job'[p].file = j.file
        /\ job'[p].todo = j.todo /\ job'[p].floor = j.floor /\ job'[p].line = j.line + 1
        /\ job'[p].eof = j.eof /\ job'[p].pending = j.pending
        /\ job'[p].queued = j.queued /\ job'[p].seen = j.seen /\ j.line \in Nat
    BY <1>0, <1>6, <2>1 DEF SkipLine, At, Job
  <2>3. DealtWith(p)' /\ FloorIsOld(p)' /\ SeenSince(p)'
    BY <2>2, SeenStays
  <2>4. ReadSoFar(p)'
    <3> SUFFICES ASSUME NEW i \in 1..(j.line + 1), Script[j.file][i] \in Turn
                 PROVE  /\ Stored(j.file, Script[j.file][i])'
                        /\ Chunks(Script[j.file][i]) \subseteq cache' \union j.pending
      BY <2>2 DEF ReadSoFar
    <3>1. i \in 1..j.line
      BY <1>6, <2>2 DEF SkipLine, Record
    <3> QED BY <1>0, <2>1, <2>2, <3>1, StoredStays DEF JobInv, ReadSoFar
  <2> QED BY <2>2, <2>3, <2>4 DEF JobInv, Embedding, Fresh, ReadAll
<1>7. CASE EndOfFile(p)
  <2>1. job'[p] = [j EXCEPT !.pc = "flush", !.eof = TRUE] /\ UNCHANGED <<turns, cache, content>>
    BY <1>7 DEF EndOfFile, Become, TypeOK
  <2>2. job'[p].pc = "flush" /\ j.pc = "extract" /\ job'[p].file = j.file
        /\ job'[p].todo = j.todo /\ job'[p].floor = j.floor /\ job'[p].line = j.line
        /\ job'[p].pending = j.pending /\ job'[p].queued = j.queued /\ job'[p].seen = j.seen
    BY <1>0, <1>7, <2>1 DEF EndOfFile, At, Job
  <2>3. DealtWith(p)' /\ FloorIsOld(p)' /\ SeenSince(p)'
    BY <2>2, SeenStays
  <2>4. ReadSoFar(p)'
    BY <2>1, <2>2, ReadStays
  <2>5. ReadAll(p)'
    BY <1>7, <2>2 DEF EndOfFile, JobInv, SeenSince, ReadAll
  <2> QED BY <2>2, <2>3, <2>4, <2>5 DEF JobInv, Embedding, Fresh
<1>8. CASE TornLine(p) \/ Fail(p)
  BY <1>8, IdleInv DEF TornLine, Fail, Become, TypeOK
<1>9. CASE NothingPending(p)
  <2> DEFINE label == IF j.eof THEN "record" ELSE "extract"
  <2>1. job'[p] = [j EXCEPT !.pc = label] /\ UNCHANGED <<turns, cache>>
    BY <1>9 DEF NothingPending, AfterFlush, Become, TypeOK
  <2>2. job'[p].pc = label /\ j.pc = "flush" /\ job'[p].file = j.file /\ j.queued = 0
        /\ job'[p].todo = j.todo /\ job'[p].floor = j.floor /\ job'[p].line = j.line
        /\ job'[p].pending = j.pending /\ job'[p].queued = j.queued /\ job'[p].seen = j.seen
        /\ job'[p].eof = j.eof
    BY <1>0, <1>9, <2>1 DEF NothingPending, At, Job
  <2>3. DealtWith(p)' /\ FloorIsOld(p)' /\ SeenSince(p)'
    BY <2>2, SeenStays
  <2>4. ReadSoFar(p)'
    BY <2>1, <2>2, ReadStays
  <2> QED BY <2>2, <2>3, <2>4 DEF JobInv, Embedding, Fresh, ReadAll
<1>10. CASE Flush(p)
  <2>1. job'[p] = [j EXCEPT !.pc = "embed", !.asking = j.pending, !.missing = {}]
        /\ UNCHANGED <<turns, cache>>
    BY <1>10 DEF Flush, Become, TypeOK
  <2>2. job'[p].pc = "embed" /\ j.pc = "flush" /\ job'[p].file = j.file /\ j.queued # 0
        /\ job'[p].todo = j.todo /\ job'[p].floor = j.floor /\ job'[p].line = j.line
        /\ job'[p].pending = j.pending /\ job'[p].queued = j.queued /\ job'[p].seen = j.seen
        /\ job'[p].eof = j.eof /\ job'[p].asking = j.pending
    BY <1>0, <1>10, <2>1 DEF Flush, At, Job
  <2>3. DealtWith(p)' /\ FloorIsOld(p)' /\ SeenSince(p)'
    BY <2>2, SeenStays
  <2>4. ReadSoFar(p)'
    BY <2>1, <2>2, ReadStays
  <2> QED BY <2>1, <2>2, <2>3, <2>4 DEF JobInv, Embedding, Fresh, ReadAll
<1>15. CASE LookUp(p)
  <2>1. PICK c \in j.asking :
           /\ job'[p] = [j EXCEPT !.asking = @ \ {c}, !.missing = @ \union ({c} \ cache)]
           /\ UNCHANGED <<turns, cache>>
    BY <1>15 DEF LookUp, Become, TypeOK
  <2>2. job'[p].pc = "embed" /\ j.pc = "embed" /\ job'[p].file = j.file
        /\ job'[p].todo = j.todo /\ job'[p].floor = j.floor /\ job'[p].line = j.line
        /\ job'[p].pending = j.pending /\ job'[p].queued = j.queued /\ job'[p].seen = j.seen
        /\ job'[p].eof = j.eof /\ job'[p].asking = j.asking \ {c}
        /\ job'[p].missing = j.missing \union ({c} \ cache)
    BY <1>0, <1>15, <2>1 DEF LookUp, At, Job
  <2>3. DealtWith(p)' /\ FloorIsOld(p)' /\ SeenSince(p)'
    BY <2>2, SeenStays
  <2>4. ReadSoFar(p)'
    BY <2>1, <2>2, ReadStays
  <2> QED BY <2>1, <2>2, <2>3, <2>4 DEF JobInv, Embedding, Fresh, ReadAll
<1>11. CASE PutVector(p)
  <2>1. PICK c \in j.missing : /\ job'[p] = [j EXCEPT !.missing = @ \ {c}]
                               /\ cache' = cache \union {c}
    BY <1>11 DEF PutVector, Become, TypeOK
  <2>2. job'[p].pc = "embed" /\ j.pc = "embed" /\ job'[p].file = j.file
        /\ job'[p].todo = j.todo /\ job'[p].floor = j.floor /\ job'[p].line = j.line
        /\ job'[p].pending = j.pending /\ job'[p].queued = j.queued /\ job'[p].seen = j.seen
        /\ job'[p].eof = j.eof /\ job'[p].missing = j.missing \ {c}
        /\ job'[p].asking = j.asking
    BY <1>0, <1>11, <2>1 DEF PutVector, At, Job
  <2>3. DealtWith(p)' /\ FloorIsOld(p)' /\ SeenSince(p)'
    BY <2>2, SeenStays
  <2>4. ReadSoFar(p)'
    BY <2>1, <2>2, ReadStays
  <2> QED BY <2>1, <2>2, <2>3, <2>4 DEF JobInv, Embedding, Fresh, ReadAll
<1>12. CASE Flushed(p)
  <2> DEFINE label == IF j.eof THEN "record" ELSE "extract"
  <2>1. job'[p] = [j EXCEPT !.pc = label, !.pending = {}, !.queued = 0]
        /\ UNCHANGED <<turns, cache>>
    BY <1>12 DEF Flushed, AfterFlush, Become, TypeOK
  <2>2. job'[p].pc = label /\ j.pc = "embed" /\ job'[p].file = j.file /\ j.missing = {}
        /\ j.asking = {}
        /\ job'[p].todo = j.todo /\ job'[p].floor = j.floor /\ job'[p].line = j.line
        /\ job'[p].pending = {} /\ job'[p].queued = 0 /\ job'[p].seen = j.seen
        /\ job'[p].eof = j.eof
    BY <1>0, <1>12, <2>1 DEF Flushed, At, Job
  <2>3. DealtWith(p)' /\ FloorIsOld(p)' /\ SeenSince(p)'
    BY <2>2, SeenStays
  <2>4. ReadSoFar(p)'
    BY <2>1, <2>2, ReadStays DEF JobInv, Embedding
  <2> QED BY <2>2, <2>3, <2>4 DEF JobInv, Embedding, Fresh, ReadAll
<1>13. CASE PutSourceFile(p)
  <2>1. job'[p] = NextOf(j)
    BY <1>13 DEF PutSourceFile, Become, TypeOK
  <2> QED BY <1>13, <2>1, NextInv, ReadIsPrimed DEF PutSourceFile, InHand, At
<1>14. CASE Return(p)
  <2>1. job'[p] = [Idle EXCEPT !.pc = "done", !.floor = j.floor] /\ j.pc = "next" /\ j.todo = {}
    BY <1>14 DEF Return, Become, TypeOK, At
  <2>2. job'[p].floor = j.floor
    BY <2>1 DEF Idle
  <2>3. DealtWith(p)'
    BY <2>1, <2>2, PrimedStays DEF JobInv, DealtWith, InHand
  <2>4. FloorIsOld(p)'
    BY <2>2, FloorStays
  <2> QED BY <2>1, <2>3, <2>4 DEF JobInv, SeenSince, ReadSoFar, Embedding, Fresh, ReadAll, Idle
<1> QED BY <1>1, <1>2, <1>3, <1>4, <1>5, <1>6, <1>7, <1>8, <1>9, <1>10, <1>11, <1>12, <1>13,
          <1>14, <1>15, Ingests(p) DEF Ingests

-----------------------------------------------------------------------------
(* The invariant of the ingests.                                           *)

LEMMA IngestInit == Init => IngestInv
<1> SUFFICES ASSUME Init PROVE IngestInv
  OBVIOUS
<1>1. Empty \in Content
  BY IngestAssumption DEF Empty, Content, Tails
<1>2. TypeOK
  BY <1>1, IdleType, IngestAssumption DEF Init, TypeOK
<1>3. RecordedIsPrimed
  BY DEF Init, Unseen, RecordedIsPrimed, Primed
<1>4. ASSUME NEW p \in Ingester PROVE JobInv(p)
  <2>1. job[p] = Idle /\ \A f \in File : job[p].floor[f] = 0 /\ content[f].lines = 0
    BY DEF Init, Idle, Empty
  <2>2. DealtWith(p) /\ FloorIsOld(p)
    BY <2>1 DEF DealtWith, FloorIsOld, Primed
  <2> QED BY <2>1, <2>2 DEF JobInv, SeenSince, ReadSoFar, Embedding, Fresh, ReadAll, Idle
<1> QED BY <1>2, <1>3, <1>4 DEF IngestInv

(* A step that is no ingest's: transcripts and the cache may grow.         *)
LEMMA OthersKeep ==
    ASSUME IngestInv, TypeOK', Grows, UNCHANGED <<sources, job>>
    PROVE  IngestInv'
<1>1. RecordedIsPrimed'
  BY RecordedStays DEF IngestInv
<1>2. \A p \in Ingester : JobInv(p)'
  BY JobStands DEF IngestInv
<1> QED BY <1>1, <1>2 DEF IngestInv

LEMMA IngestKeeps ==
    ASSUME IngestInv, NEW p \in Ingester, Ingests(p)
    PROVE  IngestInv'
<1>1. TypeOK /\ RecordedIsPrimed /\ TypeOK' /\ Grows
  BY IngestTypes, IngestGrows DEF IngestInv
<1>2. RecordedIsPrimed'
  <2>1. CASE PutSourceFile(p)
    <3> SUFFICES ASSUME NEW f \in File PROVE Primed(f, sources[f].lines)'
      BY DEF RecordedIsPrimed
    <3>1. CASE f = job[p].file
      <4>1. sources'[f] = job[p].seen
        BY <1>1, <2>1, <3>1 DEF PutSourceFile, TypeOK
      <4>2. Primed(f, job[p].seen.lines)
        BY <1>1, <2>1, <3>1, ReadIsPrimed DEF PutSourceFile, IngestInv
      <4>3. PICK n : n = job[p].seen.lines
        OBVIOUS
      <4>4. Primed(f, n)'
        BY <1>1, <4>2, <4>3, PrimedStays
      <4> QED BY <4>1, <4>3, <4>4
    <3>2. CASE f # job[p].file
      <4>1. sources'[f] = sources[f]
        BY <1>1, <2>1, <3>2 DEF PutSourceFile, TypeOK
      <4>2. PICK n : n = sources[f].lines
        OBVIOUS
      <4>3. Primed(f, n)'
        BY <1>1, <4>2, PrimedStays DEF RecordedIsPrimed
      <4> QED BY <4>1, <4>2, <4>3
    <3> QED BY <3>1, <3>2
  <2>2. CASE ~PutSourceFile(p)
    <3>1. UNCHANGED sources
      BY <2>2, Ingests(p) DEF Ingests, Begin, NextFile, HashFile, Check, ExtractTurn, SkipLine,
         EndOfFile, TornLine, NothingPending, Flush, LookUp, PutVector, Flushed, Return, Fail
    <3> QED BY <1>1, <3>1, RecordedStays
  <2> QED BY <2>1, <2>2
<1>3. ASSUME NEW q \in Ingester PROVE JobInv(q)'
  <2>1. CASE q = p
    BY <1>1, <2>1, JobStep DEF IngestInv
  <2>2. CASE q # p
    <3>1. job'[q] = job[q]
      BY <1>1, <2>2, Ingests(p) DEF Ingests, Become, TypeOK, Begin, NextFile, HashFile, Check,
         ExtractTurn, SkipLine, EndOfFile, TornLine, NothingPending, Flush, LookUp, PutVector, Flushed,
         PutSourceFile, Return, Fail
    <3> QED BY <1>1, <3>1, JobStands DEF IngestInv
  <2> QED BY <2>1, <2>2
<1> QED BY <1>1, <1>2, <1>3 DEF IngestInv

LEMMA IngestNextKeeps == IngestInv /\ IngestNext => IngestInv'
<1>1. ASSUME IngestInv, Grow PROVE IngestInv'
  <2>1. TypeOK' /\ Grows
    BY <1>1, GrowTypes, GrowGrows DEF IngestInv
  <2>2. UNCHANGED <<sources, job>>
    BY <1>1 DEF Grow, SessionWrites
  <2> QED BY <1>1, <2>1, <2>2, OthersKeep
<1> QED BY <1>1, IngestKeeps DEF IngestNext

(* A run only adds to the cache.                                           *)
LEMMA RunGrows ==
    ASSUME IngestInv, run \in Run, Runs
    PROVE  UNCHANGED dataset /\ TypeOK' /\ Grows
<1>1. UNCHANGED dataset /\ cache \subseteq cache' /\ cache' \subseteq Chunk
  <2>1. CASE ReplayTurn
    <3>1. PICK r \in run.left : cache' = cache \union Chunks(r[2])
      BY <2>1 DEF ReplayTurn
    <3>2. r[2] \in Turn
      BY DEF Run, Row
    <3> QED BY <2>1, <3>1, <3>2, ChunksType DEF ReplayTurn, IngestInv, TypeOK
  <2>2. CASE Prewarm
    BY <2>2, RunAssumption DEF Prewarm, IngestInv, TypeOK
  <2>3. CASE RunFails
    BY <2>3 DEF RunFails, Underway, IngestInv, TypeOK
  <2>4. CASE ~ReplayTurn /\ ~Prewarm /\ ~RunFails
    BY <2>4 DEF Runs, SnapshotHash, ReadTexts, SeedClock, OpenRows, EndReplay, RunQuery, FinishRun,
       vars, dataset, IngestInv, TypeOK
  <2> QED BY <2>1, <2>2, <2>3, <2>4
<1>2. TypeOK'
  BY <1>1 DEF dataset, IngestInv, TypeOK
<1>3. Grows
  <2>1. \A f \in File : content[f].lines \in Nat
    BY DEF IngestInv, TypeOK, Content
  <2> QED BY <1>1, <2>1 DEF dataset, Grows
<1> QED BY <1>1, <1>2, <1>3

LEMMA RunKeeps == ASSUME IngestInv, run \in Run, Runs PROVE IngestInv'
BY RunGrows, OthersKeep DEF dataset

-----------------------------------------------------------------------------
(* The invariant of the run.                                               *)

(* What was read of the corpus is still there, each reading found at least *)
(* what the one before it found, and no row of the replay's cursor is      *)
(* dropped.                                                                *)
Readings ==
    /\ run.pc \in {"texts", "seed", "open", "replay", "prewarm", "queries"} =>
          run.claimed \subseteq Rows
    /\ run.pc \in {"seed", "open", "replay", "prewarm", "queries"} =>
          run.claimed \subseteq run.texts /\ run.texts \subseteq Rows
    /\ run.pc = "replay" => run.texts \subseteq run.written \union run.left
    /\ run.pc \in {"prewarm", "queries"} => run.texts \subseteq run.written

(* Once a dated row is replayed, only dated rows are left, and the clock is*)
(* ahead of none of them.                                                  *)
ClockBetween ==
    /\ NeverFromTheFuture
    /\ run.pc \in {"idle", "texts", "seed", "open"} => run.written = {}
    /\ run.pc = "replay" /\ (\E r \in run.written : Dated(r)) =>
          \A r \in run.left : Dated(r) /\ run.clock <= Stamp[r[2]]

LEMMA NoRunType == NoRun \in Run
BY RunAssumption DEF NoRun, Run

LEMMA RowsType == Rows \subseteq Row
BY DEF Rows

LEMMA StampType == \A r \in Row : r[2] \in Turn /\ Stamp[r[2]] \in Int
BY RunAssumption DEF Row

LEMMA RunTypes == ASSUME run \in Run, Runs PROVE run' \in Run
<1> USE DEF Run
<1>1. CASE SnapshotHash \/ ReadTexts \/ OpenRows
  <2>1. CASE SnapshotHash
    BY <2>1, RowsType DEF SnapshotHash
  <2>2. CASE ReadTexts
    BY <2>2, RowsType DEF ReadTexts
  <2>3. CASE OpenRows
    BY <2>3, RowsType DEF OpenRows
  <2> QED BY <1>1, <2>1, <2>2, <2>3
<1>2. CASE SeedClock
  <2>1. CASE run' = [run EXCEPT !.pc = "open", !.clock = DefaultSeed]
    <3>1. DefaultSeed \in Int
      BY RunAssumption
    <3> QED BY <2>1, <3>1
  <2>2. ASSUME NEW r \in Rows,
               run' = [run EXCEPT !.pc = "open",
                           !.clock = IF Dated(r) THEN Stamp[r[2]] - Second ELSE DefaultSeed]
        PROVE  run' \in Run
    <3>1. (IF Dated(r) THEN Stamp[r[2]] - Second ELSE DefaultSeed) \in Int
      BY RunAssumption, RowsType, StampType
    <3> QED BY <2>2, <3>1
  <2> QED BY <1>2, <2>1, <2>2 DEF SeedClock
<1>3. CASE ReplayTurn
  <2>1. PICK r \in run.left :
          run' = [run EXCEPT !.clock = ClockFor(r), !.left = @ \ {r},
                             !.written = @ \union {r}, !.touched[r] = ClockFor(r)]
    BY <1>3 DEF ReplayTurn
  <2>2. r \in Row /\ ClockFor(r) \in Int
    BY RunAssumption, StampType DEF ClockFor
  <2>3. [run.touched EXCEPT ![r] = ClockFor(r)] \in [Row -> Int]
    BY <2>2
  <2> QED BY <2>1, <2>2, <2>3
<1>4. CASE EndReplay \/ Prewarm
  BY <1>4 DEF EndReplay, Prewarm
<1>5. CASE RunQuery
  <2>1. PICK hits \in SUBSET run.written :
          run' = [run EXCEPT !.clock = run.clock + AdvanceClock, !.asked = @ + 1,
                     !.touched = [r \in Row |-> IF r \in hits THEN run.clock + AdvanceClock
                                                              ELSE @[r]]]
    BY <1>5 DEF RunQuery
  <2>2. run.clock + AdvanceClock \in Int /\ run.asked + 1 \in 0..Battery
    BY <1>5, RunAssumption DEF RunQuery
  <2> QED BY <2>1, <2>2
<1>6. CASE FinishRun \/ RunFails
  BY <1>6, NoRunType DEF FinishRun, RunFails
<1> QED BY <1>1, <1>2, <1>3, <1>4, <1>5, <1>6 DEF Runs

LEMMA RowsGrow == ASSUME Grows PROVE Rows \subseteq Rows'
BY DEF Grows, Rows, Row

LEMMA ReadingsStep == ASSUME run \in Run, Grows, Readings, Runs PROVE Readings'
<1>0. Rows \subseteq Rows'
  BY RowsGrow
<1>1. CASE SnapshotHash \/ ReadTexts
  BY <1>0, <1>1 DEF SnapshotHash, ReadTexts, RunAt, Readings, Run
<1>2. CASE SeedClock
  <2>1. run'.pc = "open" /\ run.pc = "seed"
        /\ run'.claimed = run.claimed /\ run'.texts = run.texts
    BY <1>2 DEF SeedClock, RunAt, Run
  <2> QED BY <1>0, <2>1 DEF Readings
<1>3. CASE OpenRows
  BY <1>0, <1>3 DEF OpenRows, RunAt, Readings, Run
<1>4. CASE ReplayTurn
  <2>1. PICK r \in run.left :
          run' = [run EXCEPT !.clock = ClockFor(r), !.left = @ \ {r},
                             !.written = @ \union {r}, !.touched[r] = ClockFor(r)]
    BY <1>4 DEF ReplayTurn
  <2>2. run'.pc = "replay" /\ run.pc = "replay" /\ run'.left = run.left \ {r}
        /\ run'.written = run.written \union {r}
        /\ run'.claimed = run.claimed /\ run'.texts = run.texts
    BY <1>4, <2>1 DEF ReplayTurn, RunAt, Run
  <2> QED BY <1>0, <2>2 DEF Readings
<1>5. CASE EndReplay \/ Prewarm
  BY <1>0, <1>5 DEF EndReplay, Prewarm, RunAt, Readings, Run
<1>6. CASE RunQuery
  <2>1. run'.pc = "queries" /\ run.pc = "queries" /\ run'.written = run.written
        /\ run'.claimed = run.claimed /\ run'.texts = run.texts
    BY <1>6 DEF RunQuery, RunAt, Run
  <2> QED BY <1>0, <2>1 DEF Readings
<1>7. CASE FinishRun \/ RunFails
  BY <1>7 DEF FinishRun, RunFails, NoRun, Readings
<1> QED BY <1>1, <1>2, <1>3, <1>4, <1>5, <1>6, <1>7 DEF Runs

LEMMA SameClock ==
    ASSUME ClockBetween, run'.written = run.written, run'.touched = run.touched,
           run'.clock = run.clock
    PROVE  NeverFromTheFuture'
BY DEF ClockBetween, NeverFromTheFuture, SetBack, Dated

LEMMA ClockStep == ASSUME run \in Run, ClockBetween, Runs PROVE ClockBetween'
<1>1. CASE SnapshotHash \/ ReadTexts \/ OpenRows
  <2>1. run'.written = run.written /\ run'.touched = run.touched /\ run'.clock = run.clock
        /\ run.pc \in {"idle", "texts", "open"} /\ run'.pc \in {"texts", "seed", "replay"}
    BY <1>1 DEF SnapshotHash, ReadTexts, OpenRows, RunAt, Run
  <2>2. run.written = {}
    BY <2>1 DEF ClockBetween
  <2> QED BY <2>1, <2>2, SameClock DEF ClockBetween
<1>2. CASE SeedClock
  <2>1. run'.pc = "open" /\ run.pc = "seed" /\ run'.written = run.written
    BY <1>2 DEF SeedClock, RunAt, Run
  <2> QED BY <2>1 DEF ClockBetween, NeverFromTheFuture
<1>3. CASE ReplayTurn
  <2>1. PICK r \in run.left :
          /\ First(r, run.left)
          /\ run' = [run EXCEPT !.clock = ClockFor(r), !.left = @ \ {r},
                                !.written = @ \union {r}, !.touched[r] = ClockFor(r)]
    BY <1>3 DEF ReplayTurn
  <2>2. PICK now \in Int : now = ClockFor(r)
    BY StampType, RunAssumption DEF ClockFor, Run
  <2>3. run'.pc = "replay" /\ run.pc = "replay" /\ run'.left = run.left \ {r}
        /\ run'.written = run.written \union {r} /\ run'.clock = now
        /\ run'.touched = [run.touched EXCEPT ![r] = now]
    BY <1>3, <2>1, <2>2 DEF ReplayTurn, RunAt, Run
  <2>4. run.clock \in Int /\ r \in Row /\ run'.touched[r] = now
        /\ \A w \in run.written : run.touched[w] \in Int
                                  /\ (w # r => run'.touched[w] = run.touched[w])
    BY <2>3 DEF Run
  <2>5. CASE Dated(r)
    <3>1. now = Stamp[r[2]] /\ r \in run'.written
      BY <2>2, <2>3, <2>5 DEF ClockFor
    <3>2. ASSUME NEW w \in run'.written
          PROVE  \/ run'.touched[w] <= now
                 \/ ~Dated(w) /\ \E q \in run'.written : Dated(q) /\ Stamp[q[2]] < run'.touched[w]
      <4>1. CASE w = r
        BY <2>4, <4>1
      <4>2. CASE w # r /\ ~Dated(w)
        <5>1. run'.touched[w] \in Int
          BY <2>3, <2>4, <4>2
        <5>2. run'.touched[w] <= now \/ Stamp[r[2]] < run'.touched[w]
          BY <3>1, <5>1
        <5> QED BY <2>5, <3>1, <4>2, <5>2
      <4>3. CASE w # r /\ Dated(w)
        <5>1. w \in run.written /\ run'.touched[w] = run.touched[w] /\ run.touched[w] \in Int
          BY <2>3, <2>4, <4>3
        <5>2. run.touched[w] <= run.clock
          BY <4>3, <5>1 DEF ClockBetween, NeverFromTheFuture
        <5>3. run.clock <= now
          BY <2>3, <3>1, <4>3, <5>1 DEF ClockBetween
        <5> QED BY <2>4, <5>1, <5>2, <5>3
      <4> QED BY <4>1, <4>2, <4>3
    <3>3. \A q \in run'.left : Dated(q) /\ run'.clock <= Stamp[q[2]]
      <4> SUFFICES ASSUME NEW q \in run.left PROVE Dated(q) /\ now <= Stamp[q[2]]
        BY <2>3
      <4>1. Stamp[r[2]] <= Stamp[q[2]]
        BY <2>1 DEF First
      <4>2. Stamp[r[2]] \in Nat /\ q[2] \in Turn
        BY <2>4, <2>5, RunAssumption, StampType DEF Dated, Run, Row
      <4> QED BY <3>1, <4>1, <4>2, RunAssumption DEF Dated
    <3>4. NeverFromTheFuture'
      BY <2>3, <3>2 DEF NeverFromTheFuture, SetBack, Dated
    <3>5. run'.pc = "replay" /\ (\A q \in run'.left : Dated(q)' /\ run'.clock <= Stamp[q[2]])
      BY <2>3, <3>3 DEF Dated
    <3> QED BY <3>4, <3>5 DEF ClockBetween
  <2>6. CASE ~Dated(r)
    <3>1. now = run.clock + Second
      BY <2>2, <2>6 DEF ClockFor
    <3>2. \A w \in run'.written : ~Dated(w)
      BY <2>3, <2>6 DEF ClockBetween
    <3>3. ASSUME NEW w \in run'.written PROVE run'.touched[w] <= now
      <4>1. CASE w = r
        BY <2>4, <4>1
      <4>2. CASE w # r
        <5>1. w \in run.written /\ run'.touched[w] = run.touched[w] /\ run.touched[w] \in Int
          BY <2>3, <2>4, <4>2
        <5>2. run.touched[w] <= run.clock
          BY <2>3, <3>2, <5>1 DEF ClockBetween, NeverFromTheFuture, SetBack
        <5> QED BY <2>4, <3>1, <5>1, <5>2, RunAssumption
      <4> QED BY <4>1, <4>2
    <3>4. NeverFromTheFuture'
      BY <2>3, <3>3 DEF NeverFromTheFuture
    <3>5. run'.pc = "replay" /\ ~(\E w \in run'.written : Dated(w)')
      BY <2>3, <3>2 DEF Dated
    <3> QED BY <3>4, <3>5 DEF ClockBetween
  <2> QED BY <2>5, <2>6
<1>4. CASE EndReplay \/ Prewarm
  <2>1. run'.written = run.written /\ run'.touched = run.touched /\ run'.clock = run.clock
        /\ run'.pc \in {"prewarm", "queries"}
    BY <1>4 DEF EndReplay, Prewarm, RunAt, Run
  <2> QED BY <2>1, SameClock DEF ClockBetween
<1>5. CASE RunQuery
  <2>1. PICK hits \in SUBSET run.written :
          run' = [run EXCEPT !.clock = run.clock + AdvanceClock, !.asked = @ + 1,
                     !.touched = [r \in Row |-> IF r \in hits THEN run.clock + AdvanceClock
                                                              ELSE @[r]]]
    BY <1>5 DEF RunQuery
  <2>2. run'.pc = "queries" /\ run'.written = run.written
        /\ run'.clock = run.clock + AdvanceClock
        /\ \A r \in Row : run'.touched[r] = IF r \in hits THEN run.clock + AdvanceClock
                                             ELSE run.touched[r]
    BY <1>5, <2>1 DEF RunQuery, RunAt, Run
  <2>3. run.clock \in Int /\ AdvanceClock \in Nat
    BY RunAssumption DEF Run
  <2>4. ASSUME NEW r \in run.written
        PROVE  \/ run'.touched[r] <= run'.clock
               \/ ~Dated(r) /\ \E q \in run.written : Dated(q) /\ Stamp[q[2]] < run'.touched[r]
    <3>1. r \in Row /\ run.touched[r] \in Int
      BY DEF Run
    <3>2. CASE r \in hits
      BY <2>2, <2>3, <3>1, <3>2
    <3>3. CASE r \notin hits
      <4>1. run'.touched[r] = run.touched[r]
        BY <2>2, <3>1, <3>3
      <4>2. CASE run.touched[r] <= run.clock
        BY <2>2, <2>3, <3>1, <4>1, <4>2
      <4>3. CASE ~Dated(r) /\ SetBack(r)
        BY <4>1, <4>3 DEF SetBack
      <4> QED BY <4>2, <4>3 DEF ClockBetween, NeverFromTheFuture
    <3> QED BY <3>2, <3>3
  <2>5. NeverFromTheFuture'
    BY <2>2, <2>4 DEF NeverFromTheFuture, SetBack, Dated
  <2> QED BY <2>2, <2>5 DEF ClockBetween
<1>6. CASE FinishRun \/ RunFails
  BY <1>6 DEF FinishRun, RunFails, NoRun, ClockBetween, NeverFromTheFuture
<1> QED BY <1>1, <1>2, <1>3, <1>4, <1>5, <1>6 DEF Runs

-----------------------------------------------------------------------------
(* The theorems.                                                           *)

RunInv == IngestInv /\ run \in Run /\ Readings

LEMMA InvInit == RunInit => RunInv
BY IngestInit, NoRunType DEF RunInit, RunInv, NoRun, Readings

LEMMA InvStep == ASSUME RunInv, [Next]_runVars PROVE RunInv'
<1>1. CASE IngestNext /\ UNCHANGED run
  <2>1. IngestInv'
    BY <1>1, IngestNextKeeps DEF RunInv
  <2>2. Grows
    BY <1>1, IngestGrows, GrowGrows DEF IngestNext, RunInv, IngestInv
  <2>3. Readings'
    BY <1>1, <2>2, RowsGrow DEF RunInv, Readings
  <2> QED BY <1>1, <2>1, <2>3 DEF RunInv
<1>2. CASE Runs
  <2>1. IngestInv' /\ run' \in Run
    BY <1>2, RunKeeps, RunTypes DEF RunInv
  <2>2. Grows
    BY <1>2, RunGrows DEF RunInv
  <2> QED BY <1>2, <2>1, <2>2, ReadingsStep DEF RunInv
<1>3. CASE UNCHANGED runVars
  BY <1>3 DEF runVars, vars, RunInv, IngestInv, TypeOK, RecordedIsPrimed, Primed, Stored, JobInv,
     DealtWith, InHand, FloorIsOld, SeenSince, ReadSoFar, Embedding, Fresh, ReadAll, Readings, Rows
<1> QED BY <1>1, <1>2, <1>3 DEF Next

LEMMA Invariance == Spec => []RunInv
BY InvInit, InvStep, PTL DEF Spec

(* Every variable keeps its type.                                          *)
THEOREM TypesHold == Spec => []RunTypeOK
<1>1. RunInv => RunTypeOK
  BY DEF RunInv, IngestInv, RunTypeOK
<1> QED BY <1>1, Invariance, PTL

(* The source_files row of internal/eval/harness/ingest.go never claims    *)
(* work that was not done, however many ingests, runs and sessions work on *)
(* the dataset at once and wherever they fail.                             *)
THEOREM RecordIsTrue == Spec => []RecordedIsPrimed
<1>1. RunInv => RecordedIsPrimed
  BY DEF RunInv, IngestInv
<1> QED BY <1>1, Invariance, PTL

(* An ingest that returns without an error leaves every turn its files     *)
(* held at the start in the corpus and its chunks in the cache.            *)
THEOREM ReturnIsComplete == Spec => []DoneIsComplete
<1>1. RunInv => DoneIsComplete
  BY DEF RunInv, IngestInv, JobInv, DealtWith, InHand, Fresh, DoneIsComplete, At
<1> QED BY <1>1, Invariance, PTL

(* The hash a run's manifest carries stands for turns that were replayed   *)
(* (cmd/memmy-eval/run.go), whatever was ingested between its readings.    *)
THEOREM ClaimsHold == Spec => []ClaimsOnlyReplayed
<1>1. RunInv => ClaimsOnlyReplayed
  BY DEF RunInv, Readings, ClaimsOnlyReplayed, RunAt
<1> QED BY <1>1, Invariance, PTL

(* The replay's clock is behind no node (internal/eval/harness/replay.go), *)
(* but for the turns without a timestamp that a dated turn was given an    *)
(* earlier time than: whatever timestamps are missing, in whatever order   *)
(* the turns were ingested, and whatever is ingested meanwhile.            *)
THEOREM ClockHolds == Spec => []NeverFromTheFuture
<1>1. RunInit => ClockBetween
  BY DEF RunInit, NoRun, ClockBetween, NeverFromTheFuture
<1>2. RunInv /\ ClockBetween /\ [Next]_runVars => ClockBetween'
  <2> SUFFICES ASSUME RunInv, ClockBetween, [Next]_runVars PROVE ClockBetween'
    OBVIOUS
  <2>1. CASE Runs
    BY <2>1, ClockStep DEF RunInv
  <2>2. CASE ~Runs
    BY <2>2 DEF Next, runVars, ClockBetween, NeverFromTheFuture, SetBack, Dated
  <2> QED BY <2>1, <2>2
<1>3. ClockBetween => NeverFromTheFuture
  BY DEF ClockBetween
<1> QED BY <1>1, <1>2, <1>3, Invariance, PTL DEF Spec
=============================================================================
