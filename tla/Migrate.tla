------------------------------ MODULE Migrate -------------------------------
(***************************************************************************)
(* The schema of the database: memmy migrate and memmy serve, in any       *)
(* number of processes, of several builds, each of which may end at any    *)
(* step and be started again (Storage.Migrate, guardSchema, memmy.Open).   *)
(*                                                                         *)
(* A migration is a list of statements, each committed on its own, and a   *)
(* :Migration row that records its version.  Nothing makes two processes   *)
(* take turns, and no constraint keeps a version from being recorded twice.*)
(***************************************************************************)
EXTENDS Naturals, FiniteSets

CONSTANTS
    Process,
    Latest,          \* the newest migration any build carries
    Size,            \* the number of statements of each migration
    IndexStatement,  \* CREATE VECTOR INDEX, as <<migration, place>>
    Build,           \* of each process: the newest migration in its binary
    MaxRuns,         \* bound: starts of a process
    MaxDrops         \* bound: times the operator drops the vector index

Version == 1..Latest
Places == UNION {{v} \X (1..Size[v]) : v \in Version}

ASSUME MigrateAssumption ==
    /\ Latest \in Nat
    /\ Size \in [Version -> Nat \ {0}]
    /\ IndexStatement \in Places
    /\ Build \in [Process -> Version]
    /\ MaxRuns \in Nat
    /\ MaxDrops \in Nat

VARIABLES
    schema,   \* the constraints and indexes there are, as the statements making them
    rows,     \* the :Migration rows: version, and the run that wrote it
    job,      \* of each process: the locals of Migrate, runServe or Open
    lost,     \* history: statements that failed without their caller noticing
    runs,     \* started so far
    drops

vars == <<schema, rows, job, lost, runs, drops>>

-----------------------------------------------------------------------------
(* Statements, rows, and the locals of a run.                              *)

StatementsUpTo(v) == {s \in Places : s[1] <= v}

Recorded == {r[1] : r \in rows}

Job == [pc : {"idle", "migrate", "serve", "statement", "record", "migrated", "serving"},
        run : Nat, version : Nat, place : Nat]

MigrateTypeOK ==
    /\ schema \subseteq Places
    /\ rows \subseteq Version \X (1..runs)
    /\ job \in [Process -> Job]
    /\ lost \subseteq Places
    /\ runs \in 0..MaxRuns
    /\ drops \in 0..MaxDrops

NoJob == [pc |-> "idle", run |-> 0, version |-> 0, place |-> 0]

Init ==
    /\ schema = {}
    /\ rows = {}
    /\ job = [p \in Process |-> NoJob]
    /\ lost = {}
    /\ runs = 0
    /\ drops = 0

(* Fault: the rows are counted.                                            *)
IsRowCount(v) == v = Cardinality(rows)

(* max(m.version), 0 when there is no row.                                 *)
IsCurrent(v) ==
    \/ rows = {} /\ v = 0
    \/ v \in Recorded /\ \A w \in Recorded : w <= v

-----------------------------------------------------------------------------
(* One step per statement or transaction.                                  *)

Begin(p) ==
    /\ job[p].pc = "idle"
    /\ runs < MaxRuns
    /\ runs' = runs + 1
    /\ \E task \in {"migrate", "serve"} :
          job' = [job EXCEPT ![p] = [NoJob EXCEPT !.pc = task, !.run = runs + 1]]
    /\ UNCHANGED <<schema, rows, lost, drops>>

(* Fault: the last migration of the build is left out.                     *)
FromShort(p, v) ==
    IF v < Build[p]
    THEN [job[p] EXCEPT !.pc = "statement", !.version = v, !.place = 1]
    ELSE [job[p] EXCEPT !.pc = "migrated"]

(* The loop of Migrate reaches migration v.                                *)
From(p, v) ==
    IF v <= Build[p]
    THEN [job[p] EXCEPT !.pc = "statement", !.version = v, !.place = 1]
    ELSE [job[p] EXCEPT !.pc = "migrated"]

(* Migrate skips what is recorded.                                         *)
ReadVersion(p) ==
    /\ job[p].pc = "migrate"
    /\ \E v \in 0..Latest : IsCurrent(v) /\ job' = [job EXCEPT ![p] = From(p, v + 1)]
    /\ UNCHANGED <<schema, rows, lost, runs, drops>>

(* guardSchema, and Open: any other version than its own is refused.       *)
Guard(p) ==
    /\ job[p].pc = "serve"
    /\ IsCurrent(Build[p])
    /\ job' = [job EXCEPT ![p].pc = "serving"]
    /\ UNCHANGED <<schema, rows, lost, runs, drops>>

(* Fault: the version is recorded before the last statement.               *)
AdvanceEarly(p) ==
    job' = [job EXCEPT ![p] =
                IF job[p].place + 1 < Size[job[p].version]
                THEN [job[p] EXCEPT !.place = @ + 1]
                ELSE [job[p] EXCEPT !.pc = "record"]]

(* Fault: one statement more than there are.                               *)
AdvancePast(p) ==
    job' = [job EXCEPT ![p] =
                IF job[p].place <= Size[job[p].version]
                THEN [job[p] EXCEPT !.place = @ + 1]
                ELSE [job[p] EXCEPT !.pc = "record"]]

(* The next statement of the file, or its record.                          *)
Advance(p) ==
    job' = [job EXCEPT ![p] =
                IF job[p].place < Size[job[p].version]
                THEN [job[p] EXCEPT !.place = @ + 1]
                ELSE [job[p] EXCEPT !.pc = "record"]]

(* IF NOT EXISTS: a statement already applied changes nothing.             *)
RunStatement(p) ==
    /\ job[p].pc = "statement"
    /\ schema' = schema \union {<<job[p].version, job[p].place>>}
    /\ Advance(p)
    /\ UNCHANGED <<rows, lost, runs, drops>>

(* execAutoCommit returns as soon as the statement has started: nobody     *)
(* reads its result, so a failure to commit goes unseen.                   *)
LoseStatement(p) ==
    /\ job[p].pc = "statement"
    /\ <<job[p].version, job[p].place>> \notin schema
    /\ lost' = lost \union {<<job[p].version, job[p].place>>}
    /\ Advance(p)
    /\ UNCHANGED <<schema, rows, runs, drops>>

RecordMigration(p) ==
    /\ job[p].pc = "record"
    /\ rows' = rows \union {<<job[p].version, job[p].run>>}
    /\ job' = [job EXCEPT ![p] = From(p, job[p].version + 1)]
    /\ UNCHANGED <<schema, lost, runs, drops>>

(* The process returns, is refused or told of an error (two CREATEs of one *)
(* constraint may meet), or dies; a failed call may have taken effect,     *)
(* which is that call followed by End.                                     *)
End(p) ==
    /\ job[p].pc # "idle"
    /\ job' = [job EXCEPT ![p] = NoJob]
    /\ UNCHANGED <<schema, rows, lost, runs, drops>>

(* memmy.Migrate: for another dimension the operator drops the index.      *)
DropIndex ==
    /\ drops < MaxDrops
    /\ \A p \in Process : job[p].pc = "idle"
    /\ IndexStatement \in schema
    /\ schema' = schema \ {IndexStatement}
    /\ drops' = drops + 1
    /\ UNCHANGED <<rows, job, lost, runs>>

Step(p) ==
    \/ Begin(p) \/ ReadVersion(p) \/ Guard(p) \/ RunStatement(p)
    \/ LoseStatement(p) \/ RecordMigration(p) \/ End(p)

Next == DropIndex \/ \E p \in Process : Step(p)

Spec == Init /\ [][Next]_vars

-----------------------------------------------------------------------------
(* Properties.                                                             *)

(* What was taken away by others than the migrations.                      *)
Missing == lost \union (IF drops > 0 THEN {IndexStatement} ELSE {})

(* internal/storage/neo4j/migrate.go: a version is recorded only when      *)
(* every statement of its file, and of the files before it, was applied,   *)
(* whichever processes applied them and wherever each of them ended.       *)
RecordedIsApplied ==
    \A v \in Recorded : StatementsUpTo(v) \subseteq schema \union Missing

(* The versions recorded have no gap, so that the highest one, which is    *)
(* all that a later run reads, stands for the others.                      *)
RecordsInOrder == \A v \in Recorded : 1..v \subseteq Recorded

(* memmy.go: a process that serves, or whose Migrate returned, has every   *)
(* constraint and index its build expects, though others of older and      *)
(* newer builds migrate beside it.                                         *)
ReadyIsComplete ==
    \A p \in Process :
        job[p].pc \in {"migrated", "serving"} =>
            StatementsUpTo(Build[p]) \subseteq schema \union Missing
=============================================================================
