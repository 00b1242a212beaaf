---------------------------- MODULE MigrateProofs ---------------------------
(***************************************************************************)
(* The theorems about Migrate, for any processes, builds and migrations.   *)
(*                                                                         *)
(* What has ever been applied stays applied or is accounted for (Have only *)
(* grows), and so does what is recorded.  A run therefore keeps the claim  *)
(* its place in the loop makes (Fits), whatever others do meanwhile, and   *)
(* the row it writes at the end of a file is as true as the rows it found  *)
(* at its start.                                                           *)
(***************************************************************************)
EXTENDS Migrate, TLAPS

Have == schema \union Missing

(* What the locals of a run say about the database.                        *)
Fits(p) ==
    /\ job[p].pc # "idle" => job[p].run \in 1..runs
    /\ job[p].pc \in {"statement", "record"} =>
          /\ job[p].version \in 1..Build[p]
          /\ 1..(job[p].version - 1) \subseteq Recorded
          /\ StatementsUpTo(job[p].version - 1) \subseteq Have
    /\ job[p].pc = "statement" =>
          /\ job[p].place \in 1..Size[job[p].version]
          /\ \A i \in 1..(job[p].place - 1) : <<job[p].version, i>> \in Have
    /\ job[p].pc = "record" => StatementsUpTo(job[p].version) \subseteq Have
    /\ job[p].pc \in {"migrated", "serving"} => StatementsUpTo(Build[p]) \subseteq Have

Inv ==
    /\ MigrateTypeOK
    /\ RecordedIsApplied
    /\ RecordsInOrder
    /\ \A p \in Process : Fits(p)

-----------------------------------------------------------------------------
(* Places and migrations.                                                  *)

LEMMA PlacesAre ==
    ASSUME MigrateAssumption
    PROVE  /\ \A v \in Version : \A i \in 1..Size[v] : <<v, i>> \in Places
           /\ \A s \in Places : \E v \in Version : \E i \in 1..Size[v] : s = <<v, i>>
  BY DEF Places

(* A file more: its statements join those before it.                       *)
LEMMA UpToNext ==
    ASSUME MigrateAssumption, NEW v \in Version, NEW H,
           StatementsUpTo(v - 1) \subseteq H,
           \A i \in 1..Size[v] : <<v, i>> \in H
    PROVE  StatementsUpTo(v) \subseteq H
<1> SUFFICES ASSUME NEW s \in Places, s[1] <= v PROVE s \in H
  BY DEF StatementsUpTo
<1>1. PICK w \in Version : \E i \in 1..Size[w] : s = <<w, i>>
  BY PlacesAre
<1>2. PICK i \in 1..Size[w] : s = <<w, i>>
  BY <1>1
<1>3. CASE w = v
  BY <1>2, <1>3
<1>4. CASE w # v
  <2>1. s[1] <= v - 1
    BY <1>2, <1>4 DEF Version, MigrateAssumption
  <2> QED  BY <2>1 DEF StatementsUpTo
<1> QED  BY <1>3, <1>4

LEMMA UpToLess ==
    ASSUME MigrateAssumption, NEW v \in Nat, NEW w \in Nat, v <= w
    PROVE  StatementsUpTo(v) \subseteq StatementsUpTo(w)
<1> SUFFICES ASSUME NEW s \in Places, s[1] <= v PROVE s[1] <= w
  BY DEF StatementsUpTo
<1>1. s[1] \in Nat
  BY PlacesAre DEF Version, MigrateAssumption
<1> QED  BY <1>1

LEMMA UpToZero ==
    ASSUME MigrateAssumption
    PROVE  StatementsUpTo(0) = {}
<1>1. \A s \in Places : s[1] >= 1
  BY PlacesAre DEF Version, MigrateAssumption
<1>2. \A s \in Places : s[1] \in Nat
  BY PlacesAre DEF Version, MigrateAssumption
<1> QED  BY <1>1, <1>2 DEF StatementsUpTo

-----------------------------------------------------------------------------
(* Nothing that a run relies on is ever taken back.                        *)

Grows == Have \subseteq Have' /\ Recorded \subseteq Recorded' /\ runs <= runs'

LEMMA NextGrows ==
    ASSUME MigrateAssumption, MigrateTypeOK, [Next]_vars
    PROVE  Grows
<1> USE DEF Grows, Have, Missing, Recorded
<1>1. ASSUME NEW p \in Process, Step(p) PROVE Grows
  BY <1>1 DEF Step, Begin, ReadVersion, Guard, RunStatement, LoseStatement,
              RecordMigration, End, MigrateTypeOK
<1>2. ASSUME DropIndex PROVE Grows
  BY <1>2 DEF DropIndex, MigrateTypeOK
<1>3. ASSUME UNCHANGED vars PROVE Grows
  BY <1>3 DEF vars, MigrateTypeOK
<1> QED  BY <1>1, <1>2, <1>3 DEF Next

LEMMA FitsStays ==
    ASSUME MigrateAssumption, MigrateTypeOK, MigrateTypeOK', Grows,
           NEW p \in Process, Fits(p), job'[p] = job[p]
    PROVE  Fits(p)'
<1>1. runs \in Nat /\ runs' \in Nat /\ runs <= runs'
  BY DEF MigrateTypeOK, Grows, MigrateAssumption
<1>2. job[p].pc # "idle" => job[p].run \in 1..runs'
  BY <1>1 DEF Fits
<1> QED  BY <1>2 DEF Fits, Grows

(* The loop at migration v, which may be past the end.                     *)
LEMMA FromFits ==
    ASSUME MigrateAssumption, MigrateTypeOK, NEW p \in Process, NEW v \in Nat \ {0},
           job[p].pc # "idle", job[p].run \in 1..runs',
           job'[p] = From(p, v),
           1..(v - 1) \subseteq Recorded',
           StatementsUpTo(v - 1) \subseteq Have'
    PROVE  Fits(p)' /\ job'[p] \in Job
<1>1. job[p] \in Job /\ Build[p] \in Version
  BY DEF MigrateTypeOK, MigrateAssumption
<1>2. CASE v <= Build[p]
  <2>1. /\ job'[p] = [job[p] EXCEPT !.pc = "statement", !.version = v, !.place = 1]
        /\ v \in Version
    BY <1>1, <1>2 DEF From, Version, MigrateAssumption
  <2>2. Size[v] \in Nat \ {0}
    BY <2>1 DEF MigrateAssumption
  <2>3. /\ job'[p].pc = "statement" /\ job'[p].version = v /\ job'[p].place = 1
        /\ job'[p].run = job[p].run
        /\ job'[p] \in Job
    <3> DEFINE j == job[p]
    <3>1. j \in Job /\ v \in Nat
      BY <1>1
    <3>2. job'[p] = [pc |-> "statement", run |-> j.run, version |-> v, place |-> 1]
      BY <3>1, <2>1 DEF Job
    <3>3. j.run \in Nat
      BY <3>1 DEF Job
    <3> HIDE DEF j
    <3>4. job'[p] \in Job
      BY <3>1, <3>2, <3>3 DEF Job
    <3>5. job'[p].run = j.run
      BY <3>2
    <3> QED  BY <3>2, <3>4, <3>5 DEF j
  <2>4. v \in 1..Build[p] /\ 1 \in 1..Size[v] /\ 1..(1 - 1) = {}
    BY <1>1, <1>2, <2>2 DEF Version, MigrateAssumption
  <2> QED  BY <2>3, <2>4 DEF Fits
<1>3. CASE ~(v <= Build[p])
  <2>1. job'[p] = [job[p] EXCEPT !.pc = "migrated"]
    BY <1>3 DEF From
  <2>2. job'[p].pc = "migrated" /\ job'[p].run = job[p].run /\ job'[p] \in Job
    BY <1>1, <2>1 DEF Job
  <2>3. Build[p] \in Nat /\ v - 1 \in Nat /\ Build[p] <= v - 1
    BY <1>1, <1>3 DEF Version, MigrateAssumption
  <2>4. StatementsUpTo(Build[p]) \subseteq Have'
    BY <2>3, UpToLess
  <2> QED  BY <2>2, <2>4 DEF Fits
<1> QED  BY <1>2, <1>3

(* After a statement, applied or lost.                                     *)
LEMMA AdvanceFits ==
    ASSUME MigrateAssumption, MigrateTypeOK, Grows, NEW p \in Process, Fits(p),
           runs' = runs, job[p].pc = "statement", Advance(p),
           <<job[p].version, job[p].place>> \in Have'
    PROVE  Fits(p)' /\ job'[p] \in Job
<1> DEFINE j == job[p]
           v == job[p].version
           n == job[p].place
<1>1. /\ j \in Job /\ job \in [Process -> Job] /\ Build[p] \in Version
      /\ v \in 1..Build[p] /\ v \in Version /\ n \in 1..Size[v]
      /\ Size[v] \in Nat \ {0} /\ j.run \in 1..runs
      /\ 1..(v - 1) \subseteq Recorded
      /\ StatementsUpTo(v - 1) \subseteq Have
      /\ \A i \in 1..(n - 1) : <<v, i>> \in Have
  <2>1. j \in Job /\ job \in [Process -> Job] /\ Build[p] \in Version
    BY DEF MigrateTypeOK, MigrateAssumption
  <2>2. /\ v \in 1..Build[p] /\ n \in 1..Size[v] /\ j.run \in 1..runs
        /\ 1..(v - 1) \subseteq Recorded
        /\ StatementsUpTo(v - 1) \subseteq Have
        /\ \A i \in 1..(n - 1) : <<v, i>> \in Have
    BY DEF Fits
  <2>3. v \in Version
    BY <2>1, <2>2 DEF Version, MigrateAssumption
  <2> QED  BY <2>1, <2>2, <2>3 DEF MigrateAssumption
<1>2. /\ 1..(v - 1) \subseteq Recorded'
      /\ StatementsUpTo(v - 1) \subseteq Have'
      /\ \A i \in 1..n : <<v, i>> \in Have'
  BY <1>1 DEF Grows
<1>3. CASE n < Size[v]
  <2>1. job'[p] = [pc |-> "statement", run |-> j.run, version |-> v, place |-> n + 1]
    <3>1. job'[p] = [j EXCEPT !.place = n + 1]
      BY <1>1, <1>3 DEF Advance
    <3>2. j.pc = "statement" /\ j \in Job /\ v = j.version
      BY <1>1
    <3> HIDE DEF j, v, n
    <3> QED  BY <3>1, <3>2 DEF Job
  <2>2. n + 1 \in 1..Size[v] /\ 1..(n + 1 - 1) = 1..n
    BY <1>1, <1>3
  <2>3. job'[p] \in Job
    BY <1>1, <2>1 DEF Job
  <2> HIDE DEF j, v, n
  <2> QED  BY <1>1, <1>2, <2>1, <2>2, <2>3 DEF Fits
<1>4. CASE ~(n < Size[v])
  <2>1. job'[p] = [pc |-> "record", run |-> j.run, version |-> v, place |-> n]
    BY <1>1, <1>4 DEF Advance, Job
  <2>2. n = Size[v]
    BY <1>1, <1>4
  <2>3. StatementsUpTo(v) \subseteq Have'
    BY <1>1, <1>2, <2>2, UpToNext
  <2>4. job'[p] \in Job
    BY <1>1, <2>1 DEF Job
  <2> HIDE DEF j, v, n
  <2> QED  BY <1>1, <1>2, <2>1, <2>3, <2>4 DEF Fits
<1> QED  BY <1>3, <1>4

-----------------------------------------------------------------------------
(* The invariant.                                                          *)

LEMMA InvInit == ASSUME MigrateAssumption, Init PROVE Inv
<1>1. MigrateTypeOK
  BY DEF Init, MigrateTypeOK, NoJob, Job, MigrateAssumption
<1>2. \A p \in Process : Fits(p)
  BY DEF Init, NoJob, Fits
<1>3. Recorded = {}
  BY DEF Init, Recorded
<1> QED  BY <1>1, <1>2, <1>3 DEF Inv, RecordedIsApplied, RecordsInOrder

(* The row on top stands for the rows below it and their statements.       *)
LEMMA CurrentHolds ==
    ASSUME MigrateAssumption, Inv, NEW v \in 0..Latest, IsCurrent(v)
    PROVE  1..v \subseteq Recorded /\ StatementsUpTo(v) \subseteq Have
<1>1. CASE v = 0
  BY <1>1, UpToZero
<1>2. CASE v # 0
  BY <1>2 DEF IsCurrent, Inv, RecordsInOrder, RecordedIsApplied, Have
<1> QED  BY <1>1, <1>2

(* What one step of a process must keep true.                              *)
Kept(p) ==
    /\ Fits(p)' /\ job'[p] \in Job
    /\ job' = [job EXCEPT ![p] = job'[p]]
    /\ schema' \subseteq Places /\ lost' \subseteq Places
    /\ rows' \subseteq Version \X (1..runs')
    /\ runs' \in 0..MaxRuns /\ drops' = drops
    /\ \A v \in Recorded' \ Recorded :
          StatementsUpTo(v) \subseteq Have' /\ 1..v \subseteq Recorded'

LEMMA StepKeeps ==
    ASSUME MigrateAssumption, Inv, NEW p \in Process, Step(p)
    PROVE  Kept(p)
<1>1. MigrateTypeOK /\ Fits(p) /\ Grows
  <2>1. MigrateTypeOK /\ Fits(p)
    BY DEF Inv
  <2>2. Next
    BY DEF Next
  <2> QED  BY <2>1, <2>2, NextGrows
<1>2. job[p] \in Job /\ job \in [Process -> Job] /\ runs \in Nat /\ MaxRuns \in Nat
  BY <1>1 DEF MigrateTypeOK, MigrateAssumption
<1>3. CASE Begin(p)
  <2>1. PICK task \in {"migrate", "serve"} :
           job' = [job EXCEPT ![p] = [NoJob EXCEPT !.pc = task, !.run = runs + 1]]
    BY <1>3 DEF Begin
  <2>2. job'[p] = [pc |-> task, run |-> runs + 1, version |-> 0, place |-> 0]
    BY <1>2, <2>1 DEF NoJob
  <2>3. runs' = runs + 1 /\ runs < MaxRuns /\ UNCHANGED <<schema, rows, lost, drops>>
    BY <1>3 DEF Begin
  <2>4. Fits(p)'
    BY <1>2, <2>2, <2>3 DEF Fits
  <2>5. job'[p] \in Job
    BY <1>2, <2>2 DEF Job
  <2>6. job' = [job EXCEPT ![p] = job'[p]]
    BY <1>2, <2>1
  <2>7. runs' \in 0..MaxRuns /\ rows' \subseteq Version \X (1..runs')
    BY <1>1, <1>2, <2>3 DEF MigrateTypeOK
  <2> QED  BY <1>1, <2>3, <2>4, <2>5, <2>6, <2>7 DEF Kept, MigrateTypeOK, Recorded
<1>4. CASE ReadVersion(p)
  <2>1. PICK v \in 0..Latest : IsCurrent(v) /\ job' = [job EXCEPT ![p] = From(p, v + 1)]
    BY <1>4 DEF ReadVersion
  <2>2. 1..v \subseteq Recorded /\ StatementsUpTo(v) \subseteq Have
    BY <2>1, CurrentHolds
  <2>3. job[p].pc # "idle" /\ UNCHANGED <<schema, rows, lost, runs, drops>>
    BY <1>4 DEF ReadVersion
  <2>4. v + 1 \in Nat \ {0} /\ v + 1 - 1 = v
    BY DEF MigrateAssumption
  <2>5. job'[p] = From(p, v + 1)
    BY <1>2, <2>1
  <2>6. job[p].run \in 1..runs'
    BY <1>1, <2>3 DEF Fits
  <2>7. Fits(p)' /\ job'[p] \in Job
    BY <1>1, <2>2, <2>3, <2>4, <2>5, <2>6, FromFits DEF Grows
  <2>8. job' = [job EXCEPT ![p] = job'[p]]
    BY <1>2, <2>1
  <2> QED  BY <1>1, <2>3, <2>7, <2>8 DEF Kept, MigrateTypeOK, Recorded
<1>5. CASE Guard(p)
  <2>1. /\ job[p].pc = "serve" /\ IsCurrent(Build[p])
        /\ job' = [job EXCEPT ![p].pc = "serving"]
        /\ UNCHANGED <<schema, rows, lost, runs, drops>>
    BY <1>5 DEF Guard
  <2>2. Build[p] \in 0..Latest
    BY DEF MigrateAssumption, Version
  <2>3. StatementsUpTo(Build[p]) \subseteq Have'
    BY <1>1, <2>1, <2>2, CurrentHolds DEF Grows
  <2>4. job'[p] = [pc |-> "serving", run |-> job[p].run, version |-> job[p].version,
                   place |-> job[p].place]
    BY <1>2, <2>1 DEF Job
  <2>5. job'[p] \in Job
    BY <1>2, <2>4 DEF Job
  <2>6. Fits(p)'
    BY <1>1, <2>1, <2>3, <2>4 DEF Fits
  <2>7. job' = [job EXCEPT ![p] = job'[p]]
    BY <1>2, <2>1
  <2> QED  BY <1>1, <2>1, <2>5, <2>6, <2>7 DEF Kept, MigrateTypeOK, Recorded
<1>6. CASE RunStatement(p) \/ LoseStatement(p)
  <2> DEFINE s == <<job[p].version, job[p].place>>
  <2>1. job[p].pc = "statement" /\ Advance(p) /\ UNCHANGED <<rows, runs, drops>>
    BY <1>6 DEF RunStatement, LoseStatement
  <2>2. s \in Places
    <3>1. job[p].version \in Version /\ job[p].place \in 1..Size[job[p].version]
      BY <1>1, <2>1 DEF Fits, Version, MigrateAssumption
    <3> QED  BY <3>1, PlacesAre
  <2>3. s \in Have' /\ schema' \subseteq Places /\ lost' \subseteq Places
    BY <1>1, <1>6, <2>2 DEF RunStatement, LoseStatement, Have, Missing, MigrateTypeOK
  <2>4. Fits(p)' /\ job'[p] \in Job
    BY <1>1, <2>1, <2>3, AdvanceFits
  <2>5. job' = [job EXCEPT ![p] = job'[p]]
    BY <1>2, <2>1 DEF Advance
  <2> QED  BY <1>1, <2>1, <2>3, <2>4, <2>5 DEF Kept, MigrateTypeOK, Recorded
<1>7. CASE RecordMigration(p)
  <2> DEFINE v == job[p].version
  <2>1. /\ job[p].pc = "record"
        /\ rows' = rows \union {<<v, job[p].run>>}
        /\ job' = [job EXCEPT ![p] = From(p, v + 1)]
        /\ UNCHANGED <<schema, lost, runs, drops>>
    BY <1>7 DEF RecordMigration
  <2>2. /\ v \in 1..Build[p] /\ 1..(v - 1) \subseteq Recorded /\ job[p].run \in 1..runs
        /\ StatementsUpTo(v) \subseteq Have
    BY <1>1, <2>1 DEF Fits
  <2> HIDE DEF v
  <2>3. v \in Version /\ v \in Nat
    BY <2>2 DEF MigrateAssumption, Version
  <2>4. Recorded' = Recorded \union {v}
    <3>1. <<v, job[p].run>>[1] = v
      OBVIOUS
    <3>2. \A r : r \in rows' <=> r \in rows \/ r = <<v, job[p].run>>
      BY <2>1
    <3> QED  BY <3>1, <3>2 DEF Recorded
  <2>5. 1..v \subseteq Recorded'
    BY <2>2, <2>3, <2>4
  <2>6. job'[p] = From(p, v + 1) /\ job[p].run \in 1..runs'
    BY <1>2, <2>1, <2>2
  <2>7. StatementsUpTo(v) \subseteq Have'
    BY <1>1, <2>2 DEF Grows
  <2>8. Fits(p)' /\ job'[p] \in Job
    <3> DEFINE w == v + 1
    <3>1. w \in Nat \ {0} /\ w - 1 = v
      BY <2>3
    <3>2. job'[p] = From(p, w)
      BY <2>6
    <3> HIDE DEF w
    <3>3. 1..(w - 1) \subseteq Recorded' /\ StatementsUpTo(w - 1) \subseteq Have'
      BY <2>5, <2>7, <3>1
    <3>4. job[p].pc # "idle"
      BY <2>1
    <3> QED  BY <1>1, <2>6, <3>1, <3>2, <3>3, <3>4, FromFits
  <2>9. job' = [job EXCEPT ![p] = job'[p]]
    BY <1>2, <2>1
  <2>10. rows' \subseteq Version \X (1..runs')
    BY <1>1, <2>1, <2>2, <2>3 DEF MigrateTypeOK
  <2> QED  BY <1>1, <2>1, <2>4, <2>5, <2>7, <2>8, <2>9, <2>10 DEF Kept, MigrateTypeOK
<1>8. CASE End(p)
  <2>1. job' = [job EXCEPT ![p] = NoJob] /\ UNCHANGED <<schema, rows, lost, runs, drops>>
    BY <1>8 DEF End
  <2>2. job'[p] = NoJob /\ job' = [job EXCEPT ![p] = job'[p]]
    BY <1>2, <2>1
  <2>3. Fits(p)' /\ job'[p] \in Job
    BY <2>2 DEF Fits, NoJob, Job
  <2> QED  BY <1>1, <2>1, <2>2, <2>3 DEF Kept, MigrateTypeOK, Recorded
<1> QED  BY <1>3, <1>4, <1>5, <1>6, <1>7, <1>8 DEF Step

LEMMA InvNext == ASSUME MigrateAssumption, Inv, [Next]_vars PROVE Inv'
<1>1. MigrateTypeOK /\ Grows
  BY NextGrows DEF Inv
<1>2. ASSUME NEW p \in Process, Step(p) PROVE Inv'
  <2>1. Kept(p)
    BY <1>2, StepKeeps
  <2>2. MigrateTypeOK'
    BY <1>1, <2>1 DEF MigrateTypeOK, Kept
  <2>3. \A q \in Process : Fits(q)'
    <3>1. TAKE q \in Process
    <3>2. CASE q = p
      BY <2>1, <3>2 DEF Kept
    <3>3. CASE q # p
      <4>1. job'[q] = job[q]
        BY <1>1, <2>1, <3>3 DEF Kept, MigrateTypeOK
      <4> QED  BY <1>1, <2>2, <4>1, FitsStays DEF Inv
    <3> QED  BY <3>2, <3>3
  <2>4. RecordedIsApplied' /\ RecordsInOrder'
    BY <1>1, <2>1 DEF Kept, Grows, Inv, RecordedIsApplied, RecordsInOrder, Have
  <2> QED  BY <2>2, <2>3, <2>4 DEF Inv
<1>3. ASSUME DropIndex \/ UNCHANGED vars PROVE Inv'
  <2>1. UNCHANGED <<rows, job, lost, runs>>
    BY <1>3 DEF DropIndex, vars
  <2>2. MigrateTypeOK'
    BY <1>1, <1>3 DEF MigrateTypeOK, DropIndex, vars, MigrateAssumption
  <2>3. \A q \in Process : Fits(q)'
    BY <1>1, <2>1, <2>2, FitsStays DEF Inv
  <2>4. Recorded' = Recorded
    BY <2>1 DEF Recorded
  <2>5. RecordedIsApplied' /\ RecordsInOrder'
    BY <1>1, <2>4 DEF Grows, Inv, RecordedIsApplied, RecordsInOrder, Have
  <2> QED  BY <2>2, <2>3, <2>5 DEF Inv
<1> QED  BY <1>2, <1>3 DEF Next

LEMMA InvHolds == Spec => []Inv
<1> USE MigrateAssumption
<1>1. Init => Inv
  BY InvInit
<1>2. Inv /\ [Next]_vars => Inv'
  BY InvNext
<1> QED  BY <1>1, <1>2, PTL DEF Spec

-----------------------------------------------------------------------------
(* The theorems.                                                           *)

(* Every variable keeps its type: the loop never leaves a migration's      *)
(* statements.                                                             *)
THEOREM MigrateTypes == Spec => []MigrateTypeOK
<1>1. Inv => MigrateTypeOK
  BY DEF Inv
<1> QED  BY <1>1, InvHolds, PTL

(* A recorded version's statements, and those before, have been applied,   *)
(* unless the operator removed one or a failure went unseen.               *)
THEOREM RecordsAreTrue == Spec => []RecordedIsApplied
<1>1. Inv => RecordedIsApplied
  BY DEF Inv
<1> QED  BY <1>1, InvHolds, PTL

(* The recorded versions have no gap, however migrations interleave.       *)
THEOREM RecordsHaveNoGap == Spec => []RecordsInOrder
<1>1. Inv => RecordsInOrder
  BY DEF Inv
<1> QED  BY <1>1, InvHolds, PTL

(* A process that serves, or has migrated, finds its build's schema.       *)
THEOREM ReadyMeansComplete == Spec => []ReadyIsComplete
<1>1. Inv => ReadyIsComplete
  BY DEF Inv, Fits, ReadyIsComplete, Have
<1> QED  BY <1>1, InvHolds, PTL
=============================================================================
