-------------------------- MODULE FundCatalogProofs --------------------------
(***************************************************************************)
(* Theorems about FundCatalog for every set of funds and workers. The      *)
(* inductive invariant has two layers: what a job looks like and which     *)
(* funds it may touch (TypeOK, GoodJobs, TodoExists), and how what a job   *)
(* has read relates to the table since (SeenOK and the audit trail).       *)
(* From it and from what a rule is to write (Decided), the rules leave a   *)
(* fund as its data call for unless they changed meanwhile.                *)
(*                                                                         *)
(* For any catalog, requests and writes between the statements of one, the *)
(* lists, metrics, rankings and summary of CatalogQueries add up but for   *)
(* what was written.  The inductive invariant remembers the tables that a  *)
(* request has met: each statement answered from one of them, and two of   *)
(* them differ in no more rows than there were writes between.             *)
(***************************************************************************)
EXTENDS FundCatalog, Functions, FiniteSetTheorems, SequenceTheorems, WellFoundedInduction, TLAPS

\* The constants of CatalogQueries that are not the catalog's, and its variables.
CONSTANTS Contents, Tables, Queries, MaxWrites, None
VARIABLES listed, query, result, asked, rewrites

Lists == INSTANCE CatalogQueries

\* What a job looks like on its own, the facts of TypeOK and JobsInv about it.
GoodJob(j) ==
  /\ j \in Job
  /\ j.pc # "idle" => j.todo # {}
  /\ j.pc = "idle" => j.op = "none"
  /\ j.op \in Automatic => j.pc # "idle"

LEMMA GoodIdleJob == GoodJob(IdleJob)
  BY DEF GoodJob, IdleJob, Job, Op, Pc, Visibility, Automatic, Manual

LEMMA GoodCurrent ==
  ASSUME NEW w \in Workers, GoodJob(jobs[w]), jobs[w].pc # "idle"
  PROVE  Current(w) \in jobs[w].todo /\ Current(w) \in Funds
  BY DEF GoodJob, Current, Job

LEMMA GoodAdvanced ==
  ASSUME NEW w \in Workers, GoodJob(jobs[w]), jobs[w].pc # "idle"
  PROVE  /\ GoodJob(Advanced(w))
         /\ Advanced(w).todo \subseteq jobs[w].todo
<1> DEFINE left == jobs[w].todo \ {Current(w)}
<1>1. CASE left = {}
  BY <1>1, GoodIdleJob DEF Advanced, IdleJob
<1>2. CASE left # {}
  <2> DEFINE j == [jobs[w] EXCEPT !.todo = left, !.pc = LoopPc(jobs[w].op),
                           !.seen[Current(w)] = NoRow, !.since[Current(w)] = 0,
                           !.want = "visible", !.previous = "visible"]
  <2>1. /\ j.todo = left /\ j.pc = LoopPc(jobs[w].op) /\ j.op = jobs[w].op
        /\ j \in Job
    BY GoodCurrent DEF GoodJob, Job, LoopPc, Pc, Visibility
  <2>2. Advanced(w) = j
    BY <1>2 DEF Advanced
  <2> QED
    BY <1>2, <2>1, <2>2 DEF GoodJob, LoopPc
<1> QED
  BY <1>1, <1>2

LEMMA GoodNewJob ==
  ASSUME TypeOK, NEW op \in Op \ {"none"}, NEW pc \in Pc \ {"idle"},
         NEW todo \in SUBSET Funds, todo # {}, NEW kept
  PROVE  /\ GoodJob(NewJob(op, pc, todo, kept))
         /\ NewJob(op, pc, todo, kept).op = op
         /\ NewJob(op, pc, todo, kept).pc = pc
         /\ NewJob(op, pc, todo, kept).todo = todo
<1>1. \A f \in Funds : Len(audits[f]) \in Nat /\ rows[f] \in Row \cup {NoRow}
  BY DEF TypeOK
<1> QED
  BY <1>1 DEF NewJob, IdleJob, GoodJob, Job, Visibility

GoodJobs == \A w \in Workers : GoodJob(jobs[w])

\* A synchronisation is of one fund. A fund is never deleted, so the funds of a
\* job still exist, unless the job is about to create its fund.
TodoOK(j, existing) ==
  /\ j.op = "sync" => \E f \in Funds : j.todo = {f}
  /\ \/ j.op = "sync" /\ j.pc = "write"
     \/ j.todo \subseteq existing

TodoExists == \A w \in Workers : TodoOK(jobs[w], Existing)

TypeInv == TypeOK /\ GoodJobs /\ TodoExists

\* What a step that changes one job and leaves the table alone has to show.
LEMMA JobStep ==
  ASSUME TypeInv, NEW w \in Workers, NEW j, GoodJob(j),
         jobs' = [jobs EXCEPT ![w] = j], UNCHANGED <<rows, audits>>,
         started' \in Nat, faults' \in Nat,
         TodoOK(j, Existing)
  PROVE  TypeInv'
  BY DEF TypeInv, TypeOK, GoodJobs, GoodJob, TodoExists, TodoOK, Existing

\* The same for a step that also writes the row of one fund.
LEMMA RowStep ==
  ASSUME TypeInv, NEW w \in Workers, NEW j, GoodJob(j),
         jobs' = [jobs EXCEPT ![w] = j],
         NEW f \in Funds, NEW row \in Row, rows' = [rows EXCEPT ![f] = row],
         audits' \in [Funds -> Seq(AuditEntry)],
         started' \in Nat, faults' \in Nat,
         TodoOK(j, Existing \cup {f})
  PROVE  TypeInv'
<1>1. Existing' = Existing \cup {f}
  BY NoRowAssumption DEF TypeInv, TypeOK, Existing
<1> QED
  BY <1>1 DEF TypeInv, TypeOK, GoodJobs, GoodJob, TodoExists, TodoOK, Job

LEMMA UpsertedRow ==
  ASSUME NEW row \in Row \cup {NoRow}, NEW existing, NEW rest \in BOOLEAN
  PROVE  /\ Upserted(row, existing, rest) \in Row
         /\ Upserted(row, existing, rest).visibility =
              IF row = NoRow THEN "visible" ELSE row.visibility
  BY NoRowAssumption DEF Upserted, Row, Visibility, Label

\* Every row written by a job is well formed, and a job only ever writes the
\* row of its current fund.
LEMMA WriteStep ==
  ASSUME TypeInv, NEW w \in Workers, jobs[w].pc # "idle",
         NEW row \in Row, NEW pc \in {"decide", "reload"},
         WriteAndReturn(w, row, pc)
  PROVE  TypeInv'
<1> DEFINE f == Current(w)
           j == [jobs[w] EXCEPT !.seen[f] = row, !.since[f] = Len(audits[f]), !.pc = pc]
<1>1. f \in Funds /\ f \in jobs[w].todo /\ GoodJob(jobs[w])
  BY GoodCurrent DEF TypeInv, GoodJobs
<1>2. Len(audits[f]) \in Nat
  BY <1>1 DEF TypeInv, TypeOK
<1>3. GoodJob(j) /\ j.todo = jobs[w].todo /\ j.op = jobs[w].op
  BY <1>1, <1>2 DEF GoodJob, Job, Pc
<1>4. /\ jobs' = [jobs EXCEPT ![w] = j]
      /\ rows' = [rows EXCEPT ![f] = row]
      /\ UNCHANGED <<audits, started, faults>>
  BY DEF WriteAndReturn
<1> HIDE DEF f, j
<1>5. TodoOK(j, Existing \cup {f})
  BY <1>1, <1>3 DEF TypeInv, TodoExists, TodoOK
<1> QED
  BY <1>1, <1>3, <1>4, <1>5, RowStep DEF TypeInv, TypeOK

\* A job that leaves its current fund leaves the others as they were.
LEMMA AdvanceOK ==
  ASSUME TypeInv, NEW w \in Workers, jobs[w].pc # "idle",
         ~ (jobs[w].op = "sync" /\ jobs[w].pc = "write")
  PROVE  GoodJob(Advanced(w)) /\ TodoOK(Advanced(w), Existing)
<1>1. GoodJob(jobs[w]) /\ TodoOK(jobs[w], Existing)
  BY DEF TypeInv, GoodJobs, TodoExists
<1>2. GoodJob(Advanced(w)) /\ Advanced(w).todo \subseteq jobs[w].todo
  BY <1>1, GoodAdvanced
<1>3. Advanced(w).op = "sync" => jobs[w].op = "sync" /\ Advanced(w).todo # {}
  <2> DEFINE left == jobs[w].todo \ {Current(w)}
  <2>1. CASE left = {}
    BY <2>1 DEF Advanced, IdleJob
  <2>2. CASE left # {}
    BY <1>1, <2>2 DEF Advanced, GoodJob, Job
  <2> QED
    BY <2>1, <2>2
<1> QED
  BY <1>1, <1>2, <1>3 DEF TodoOK

\* Type correctness: rows, audit entries and jobs are always well formed, and no
\* statement of any job ever meets a fund that does not exist.
THEOREM TypeCorrect == Spec => []TypeInv
<1>1. Init => TypeInv
  <2> SUFFICES ASSUME Init PROVE TypeInv
    OBVIOUS
  <2>1. TypeOK
    BY GoodIdleJob DEF Init, Migrated, TypeOK, GoodJob
  <2> QED
    BY <2>1, GoodIdleJob DEF Init, TypeInv, GoodJobs, TodoExists, TodoOK, IdleJob
<1>2. TypeInv /\ [Next]_vars => TypeInv'
  <2> SUFFICES ASSUME TypeInv, [Next]_vars PROVE TypeInv'
    OBVIOUS
  <2>0. /\ started \in Nat /\ started + 1 \in Nat
        /\ faults \in Nat /\ faults + 1 \in Nat
        /\ audits \in [Funds -> Seq(AuditEntry)] /\ TypeOK
        /\ \A f \in Existing : f \in Funds /\ rows[f] \in Row
    BY DEF TypeInv, TypeOK, Existing
  <2>1. ASSUME NEW w \in Workers, Start(w) \/ StartRecalculate(w)
        PROVE  TypeInv'
    <3>1. ASSUME NEW op \in Op \ {"none"}, NEW pc \in Pc \ {"idle"},
                 NEW todo \in SUBSET Funds, todo # {}, NEW kept,
                 Begin(w, op, pc, todo, kept), started' \in Nat,
                 TodoOK([op |-> op, pc |-> pc, todo |-> todo], Existing)
          PROVE  TypeInv'
      <4> DEFINE j == NewJob(op, pc, todo, kept)
      <4>1. GoodJob(j) /\ TodoOK(j, Existing)
        BY <2>0, <3>1, GoodNewJob DEF TodoOK
      <4>2. jobs' = [jobs EXCEPT ![w] = j] /\ UNCHANGED <<rows, audits, faults>>
        BY <3>1 DEF Begin
      <4> QED
        BY <2>0, <3>1, <4>1, <4>2, JobStep
    <3>2. CASE \E f \in Funds : StartSync(w, f)
      BY <2>0, <3>1, <3>2 DEF StartSync, BeginBounded, Op, Pc, Automatic, TodoOK
    <3>3. CASE \E f \in Funds : StartEditorial(w, f)
      BY <2>0, <3>1, <3>3 DEF StartEditorial, Op, Pc, Manual, TodoOK, Existing
    <3>4. CASE StartReconcile(w) \/ StartBenchmarkBackfill(w) \/ StartThemeBackfill(w)
               \/ StartRecalculate(w)
      <4>1. Existing \in SUBSET Funds
        BY DEF Existing
      <4> QED
        BY <2>0, <3>1, <3>4, <4>1 DEF StartReconcile, StartBenchmarkBackfill,
           StartThemeBackfill, StartRecalculate, BeginBounded, Op, Pc, Automatic, TodoOK
    <3>5. CASE \E f \in Funds, v \in Visibility : StartAdminVisibility(w, f, v)
      <4>1. PICK f \in Funds, v \in Visibility : StartAdminVisibility(w, f, v)
        BY <3>5
      <4> DEFINE i == NewJob("admin", "txRead", {f}, {})
                 j == [i EXCEPT !.want = v]
      <4>2. GoodJob(i) /\ i.op = "admin" /\ i.pc = "txRead" /\ i.todo = {f}
        <5>1. "admin" \in Op \ {"none"} /\ "txRead" \in Pc \ {"idle"}
          BY DEF Op, Pc, Manual
        <5>2. ASSUME NEW todo \in SUBSET Funds, todo # {}, NEW kept
              PROVE  LET n == NewJob("admin", "txRead", todo, kept)
                     IN  GoodJob(n) /\ n.op = "admin" /\ n.pc = "txRead" /\ n.todo = todo
          BY <2>0, <5>1, <5>2, GoodNewJob
        <5>3. {f} \in SUBSET Funds /\ {f} # {}
          OBVIOUS
        <5> QED
          BY <5>2, <5>3
      <4>3. GoodJob(j) /\ TodoOK(j, Existing)
        <5>1. f \in Existing
          BY <4>1 DEF Existing, StartAdminVisibility
        <5> HIDE DEF i
        <5> QED
          BY <4>2, <5>1 DEF GoodJob, Job, TodoOK, Automatic
      <4>4. jobs' = [jobs EXCEPT ![w] = j] /\ UNCHANGED <<rows, audits, faults>>
            /\ started' = started + 1
        BY <4>1 DEF StartAdminVisibility
      <4> HIDE DEF j
      <4> QED
        BY <2>0, <4>3, <4>4, JobStep
    <3> QED
      BY <2>1, <3>2, <3>3, <3>4, <3>5 DEF Start
  <2>2. ASSUME NEW w \in Workers, Upsert(w)
        PROVE  TypeInv'
    <3> DEFINE f == Current(w)
    <3>1. f \in Funds /\ rows[f] \in Row \cup {NoRow} /\ jobs[w].pc # "idle"
      BY <2>2, GoodCurrent DEF Upsert, TypeInv, TypeOK, GoodJobs
    <3>2. PICK rest \in BOOLEAN :
            WriteAndReturn(w, Upserted(rows[f], jobs[w].seen[f], rest), "decide")
      BY <2>2 DEF Upsert
    <3> QED
      BY <3>1, <3>2, UpsertedRow, WriteStep
  <2>3. ASSUME NEW w \in Workers, UpdateScoring(w) \/ ReloadFund(w)
        PROVE  TypeInv'
    <3>1. /\ jobs[w].pc # "idle"
          /\ ~ (jobs[w].op = "sync" /\ jobs[w].pc = "write")
          /\ WriteAndReturn(w, rows[Current(w)], "decide")
      BY <2>3 DEF UpdateScoring, ReloadFund
    <3>2. Current(w) \in Existing
      BY <3>1, GoodCurrent DEF TypeInv, GoodJobs, TodoExists, TodoOK
    <3> QED
      BY <2>0, <3>1, <3>2, WriteStep
  <2>4. ASSUME NEW w \in Workers,
               BackfillBenchmark(w) \/ BackfillTheme(w) \/ UpdateEditorial(w)
        PROVE  TypeInv'
    <3> DEFINE f == Current(w)
    <3>1. /\ jobs[w].pc # "idle"
          /\ ~ (jobs[w].op = "sync" /\ jobs[w].pc = "write")
          /\ UNCHANGED <<audits, started, faults>>
      BY <2>4 DEF BackfillBenchmark, BackfillTheme, UpdateEditorial
    <3>2. /\ f \in Funds /\ f \in Existing /\ rows[f] \in Row
          /\ GoodJob(jobs[w]) /\ TodoOK(jobs[w], Existing)
      BY <2>0, <3>1, GoodCurrent DEF TypeInv, GoodJobs, TodoExists, TodoOK
    <3>3. \E row \in Row : rows' = [rows EXCEPT ![f] = row]
      <4>1. rows = [rows EXCEPT ![f] = rows[f]]
        BY <2>0 DEF TypeOK
      <4>2. [rows[f] EXCEPT !.benchmark = TRUE] \in Row
        BY <3>2 DEF Row
      <4>3. \A label \in Label : [rows[f] EXCEPT !.label = label] \in Row
        BY <3>2 DEF Row
      <4>4. CASE BackfillBenchmark(w)
        BY <3>2, <4>1, <4>2, <4>4 DEF BackfillBenchmark
      <4>5. CASE BackfillTheme(w)
        BY <3>2, <4>1, <4>3, <4>5 DEF BackfillTheme, Label
      <4>6. CASE UpdateEditorial(w)
        BY <3>2, <4>3, <4>6 DEF UpdateEditorial, Label
      <4> QED
        BY <2>4, <4>4, <4>5, <4>6
    <3>4. \E j : /\ GoodJob(j) /\ TodoOK(j, Existing)
                 /\ jobs' = [jobs EXCEPT ![w] = j]
      <4>1. CASE BackfillBenchmark(w)
        <5> DEFINE j == [jobs[w] EXCEPT !.pc = "reload"]
        <5>1. GoodJob(j) /\ TodoOK(j, Existing)
          BY <3>1, <3>2, <4>1 DEF GoodJob, TodoOK, Job, Pc, BackfillBenchmark
        <5>2. jobs' = [jobs EXCEPT ![w] = j]
          BY <4>1 DEF BackfillBenchmark
        <5> HIDE DEF j
        <5> QED
          BY <5>1, <5>2
      <4>2. CASE BackfillTheme(w) \/ UpdateEditorial(w)
        BY <3>1, <4>2, AdvanceOK DEF BackfillTheme, UpdateEditorial
      <4> QED
        BY <2>4, <4>1, <4>2
    <3>5. \A j : TodoOK(j, Existing) => TodoOK(j, Existing \cup {f})
      BY DEF TodoOK
    <3> QED
      BY <2>0, <3>1, <3>2, <3>3, <3>4, <3>5, RowStep
  <2>5. ASSUME NEW w \in Workers, Decide(w)
        PROVE  TypeInv'
    <3> DEFINE seen == jobs[w].seen[Current(w)]
               next == ResolveAutomaticVisibility(seen)
               j == [jobs[w] EXCEPT !.pc = "txRead", !.want = next]
    <3>1. jobs[w].pc = "decide" /\ GoodJob(jobs[w]) /\ TodoOK(jobs[w], Existing)
      BY <2>5 DEF Decide, TypeInv, GoodJobs, TodoExists
    <3>2. next \in Visibility
      BY DEF ResolveAutomaticVisibility, Visibility
    <3>3. GoodJob(j) /\ TodoOK(j, Existing)
      BY <3>1, <3>2 DEF GoodJob, TodoOK, Job, Pc
    <3>4. GoodJob(Advanced(w)) /\ TodoOK(Advanced(w), Existing)
      BY <3>1, AdvanceOK
    <3>5. /\ \/ jobs' = [jobs EXCEPT ![w] = Advanced(w)]
             \/ jobs' = [jobs EXCEPT ![w] = j]
          /\ UNCHANGED <<rows, audits, started, faults>>
      BY <2>5 DEF Decide
    <3> HIDE DEF j
    <3> QED
      BY <2>0, <3>3, <3>4, <3>5, JobStep
  <2>6. ASSUME NEW w \in Workers, TxRead(w)
        PROVE  TypeInv'
    <3> DEFINE j == [jobs[w] EXCEPT !.pc = "txWrite",
                                    !.previous = rows[Current(w)].visibility]
    <3>1. jobs[w].pc = "txRead" /\ GoodJob(jobs[w]) /\ TodoOK(jobs[w], Existing)
      BY <2>6 DEF TxRead, TypeInv, GoodJobs, TodoExists
    <3>2. rows[Current(w)].visibility \in Visibility
      BY <2>0, <3>1, GoodCurrent DEF TodoOK, Row
    <3>3. GoodJob(j) /\ TodoOK(j, Existing)
      BY <3>1, <3>2 DEF GoodJob, TodoOK, Job, Pc
    <3>4. jobs' = [jobs EXCEPT ![w] = j] /\ UNCHANGED <<rows, audits, started, faults>>
      BY <2>6 DEF TxRead
    <3> HIDE DEF j
    <3> QED
      BY <2>0, <3>3, <3>4, JobStep
  <2>7. ASSUME NEW w \in Workers, TxCommit(w)
        PROVE  TypeInv'
    <3> DEFINE f == Current(w)
               entry == [previous |-> jobs[w].previous, new |-> jobs[w].want,
                         actor |-> IF jobs[w].op \in Automatic THEN "system" ELSE "admin"]
               row == [rows[f] EXCEPT !.visibility = jobs[w].want]
    <3>1. jobs[w].pc = "txWrite" /\ GoodJob(jobs[w]) /\ TodoOK(jobs[w], Existing)
      BY <2>7 DEF TxCommit, TypeInv, GoodJobs, TodoExists
    <3>2. f \in Funds /\ f \in Existing /\ rows[f] \in Row
      BY <2>0, <3>1, GoodCurrent DEF TodoOK
    <3>3. entry \in AuditEntry /\ row \in Row
      BY <3>1, <3>2 DEF AuditEntry, Actor, GoodJob, Job, Row
    <3>4. GoodJob(Advanced(w)) /\ TodoOK(Advanced(w), Existing)
      BY <3>1, AdvanceOK
    <3>5. /\ rows' = [rows EXCEPT ![f] = row]
          /\ audits' = [audits EXCEPT ![f] = Append(@, entry)]
          /\ jobs' = [jobs EXCEPT ![w] = Advanced(w)]
          /\ UNCHANGED <<started, faults>>
      BY <2>7 DEF TxCommit
    <3>6. Append(audits[f], entry) \in Seq(AuditEntry)
      BY <2>0, <3>2, <3>3
    <3>7. audits' \in [Funds -> Seq(AuditEntry)]
      BY <2>0, <3>2, <3>5, <3>6
    <3>8. TodoOK(Advanced(w), Existing \cup {f})
      BY <3>4 DEF TodoOK
    <3> HIDE DEF entry, row, f
    <3> QED
      BY <2>0, <3>2, <3>3, <3>4, <3>5, <3>7, <3>8, RowStep
  <2>8. ASSUME NEW w \in Workers, Fail(w)
        PROVE  TypeInv'
    <3>1. TodoOK(IdleJob, Existing)
      BY DEF TodoOK, IdleJob
    <3> QED
      BY <2>0, <2>8, <3>1, GoodIdleJob, JobStep DEF Fail
  <2>9. CASE UNCHANGED vars
    BY <2>9 DEF vars, TypeInv, TypeOK, GoodJobs, GoodJob, TodoExists, TodoOK, Existing
  <2> QED
    BY <2>1, <2>2, <2>3, <2>4, <2>5, <2>6, <2>7, <2>8, <2>9 DEF Next, Step
<1> QED
  BY <1>1, <1>2, PTL DEF Spec

-----------------------------------------------------------------------------
(***************************************************************************)
(* The second layer. SeenOK relates the rows a job has read to the table   *)
(* and the audit trails as they are now; ChangeOK says what a job about to *)
(* write a visibility has read.                                            *)
(***************************************************************************)
SeenOK(j, table, trail) ==
  \A f \in j.todo : j.seen[f] # NoRow =>
    /\ j.since[f] <= Len(trail[f])
    /\ j.seen[f].visibility # "blocked" /\ table[f].visibility = "blocked" =>
         \E i \in j.since[f] + 1 .. Len(trail[f]) :
           trail[f][i].new = "blocked" /\ trail[f][i].actor = "admin"

First(j) == CHOOSE f \in j.todo : TRUE

ChangeOK(j) ==
  /\ j.op = "reconcile" => \A f \in j.todo : j.seen[f] # NoRow
  /\ j.pc = "decide" => j.seen[First(j)] # NoRow
  /\ j.op \in Automatic /\ j.pc \in {"txRead", "txWrite"} =>
       /\ j.seen[First(j)] # NoRow
       /\ j.seen[First(j)].visibility # "blocked"
       /\ j.want # "blocked"

JobsInv == \A w \in Workers : SeenOK(jobs[w], rows, audits) /\ ChangeOK(jobs[w])

CatalogInv == AuditTrailMatchesVisibility /\ JobsInv

\* A step that writes no visibility of an existing fund, and no audit entry.
LEMMA QuietStep ==
  ASSUME TypeInv, CatalogInv, NEW w \in Workers, NEW j,
         jobs' = [jobs EXCEPT ![w] = j], audits' = audits,
         \A f \in Funds : /\ rows[f] # NoRow => /\ rows'[f] # NoRow
                                               /\ rows'[f].visibility = rows[f].visibility
                          /\ rows[f] = NoRow => \/ rows'[f] = NoRow
                                               \/ rows'[f].visibility = "visible",
         SeenOK(j, rows', audits'), ChangeOK(j)
  PROVE  CatalogInv'
<1>1. AuditTrailMatchesVisibility'
  BY DEF CatalogInv, AuditTrailMatchesVisibility, LastEntry
<1>2. ASSUME NEW v \in Workers, v # w
      PROVE  SeenOK(jobs[v], rows', audits') /\ jobs'[v] = jobs[v] /\ ChangeOK(jobs[v])
  <2>1. jobs[v].todo \subseteq Funds /\ TodoOK(jobs[v], Existing)
    BY DEF TypeInv, GoodJobs, GoodJob, Job, TodoExists
  <2>2. SeenOK(jobs[v], rows, audits) /\ ChangeOK(jobs[v])
    BY DEF CatalogInv, JobsInv
  <2>3. ASSUME NEW f \in jobs[v].todo, jobs[v].seen[f] # NoRow,
               jobs[v].seen[f].visibility # "blocked", rows'[f].visibility = "blocked"
        PROVE  rows[f].visibility = "blocked"
    BY <2>1, <2>3, NoRowAssumption DEF TypeInv, TypeOK, Row
  <2> QED
    BY <1>2, <2>2, <2>3 DEF SeenOK, TypeInv, TypeOK
<1>3. jobs'[w] = j
  BY DEF TypeInv, TypeOK
<1> QED
  BY <1>1, <1>2, <1>3 DEF CatalogInv, JobsInv

\* The job a loop advances to has read no more than the one before.
LEMMA AdvanceSeen ==
  ASSUME TypeInv, CatalogInv, NEW w \in Workers, jobs[w].pc # "idle"
  PROVE  /\ \A f \in Advanced(w).todo :
              Advanced(w).seen[f] # NoRow =>
                /\ f \in jobs[w].todo /\ f # Current(w)
                /\ Advanced(w).seen[f] = jobs[w].seen[f]
                /\ Advanced(w).since[f] = jobs[w].since[f]
         /\ ChangeOK(Advanced(w))
<1> DEFINE left == jobs[w].todo \ {Current(w)}
           c == Current(w)
<1>1. /\ jobs[w] \in Job /\ ChangeOK(jobs[w]) /\ GoodJob(jobs[w])
      /\ c \in Funds /\ c \in jobs[w].todo
  BY GoodCurrent DEF TypeInv, GoodJobs, GoodJob, CatalogInv, JobsInv
<1>2. CASE left = {}
  BY <1>2 DEF Advanced, IdleJob, ChangeOK, Automatic
<1>3. CASE left # {}
  <2> DEFINE j == [jobs[w] EXCEPT !.todo = left, !.pc = LoopPc(jobs[w].op),
                           !.seen[c] = NoRow, !.since[c] = 0,
                           !.want = "visible", !.previous = "visible"]
  <2>1. Advanced(w) = j
    BY <1>3 DEF Advanced
  <2>2. /\ j.todo = left /\ j.op = jobs[w].op /\ j.pc = LoopPc(jobs[w].op)
        /\ j.seen = [jobs[w].seen EXCEPT ![c] = NoRow]
        /\ j.since = [jobs[w].since EXCEPT ![c] = 0]
    BY <1>1 DEF Job
  <2> HIDE DEF j
  <2>3. \A f \in left : /\ f \in jobs[w].todo /\ f # c
                       /\ j.seen[f] = jobs[w].seen[f] /\ j.since[f] = jobs[w].since[f]
    BY <1>1, <2>2 DEF Job
  <2>4. First(j) \in left
    BY <1>3, <2>2 DEF First
  <2>5. ChangeOK(j)
    <3>1. j.op = "reconcile" => \A f \in j.todo : j.seen[f] # NoRow
      BY <1>1, <2>2, <2>3 DEF ChangeOK
    <3>2. j.pc = "decide" => j.op = "reconcile"
      BY <2>2 DEF LoopPc
    <3>3. j.pc \notin {"txRead", "txWrite"}
      BY <2>2 DEF LoopPc
    <3> QED
      BY <2>2, <2>4, <3>1, <3>2, <3>3 DEF ChangeOK
  <2> QED
    BY <2>1, <2>2, <2>3, <2>5
<1> QED
  BY <1>2, <1>3

LEMMA AdvanceSeenOK ==
  ASSUME TypeInv, CatalogInv, NEW w \in Workers, jobs[w].pc # "idle",
         NEW table, NEW trail,
         \A f \in Funds \ {Current(w)} :
           table[f] = rows[f] /\ trail[f] = audits[f]
  PROVE  SeenOK(Advanced(w), table, trail)
<1>1. SeenOK(jobs[w], rows, audits) /\ jobs[w].todo \subseteq Funds
  BY DEF CatalogInv, JobsInv, TypeInv, GoodJobs, GoodJob, Job
<1> QED
  BY <1>1, AdvanceSeen DEF SeenOK

\* A step that returns the row of its current fund to the caller.
LEMMA WriteSeen ==
  ASSUME TypeInv, CatalogInv, NEW w \in Workers, jobs[w].pc # "idle", NEW row \in Row,
         WriteAndReturn(w, row, "decide"),
         rows[Current(w)] # NoRow => row.visibility = rows[Current(w)].visibility,
         rows[Current(w)] = NoRow => row.visibility = "visible",
         jobs[w].op # "reconcile"
  PROVE  CatalogInv'
<1> DEFINE c == Current(w)
           j == [jobs[w] EXCEPT !.seen[c] = row, !.since[c] = Len(audits[c]), !.pc = "decide"]
<1>1. c \in Funds /\ c \in jobs[w].todo /\ jobs[w] \in Job
  BY GoodCurrent DEF TypeInv, GoodJobs, GoodJob
<1>2. /\ j.todo = jobs[w].todo /\ j.op = jobs[w].op /\ j.pc = "decide"
      /\ j.seen = [jobs[w].seen EXCEPT ![c] = row]
      /\ j.since = [jobs[w].since EXCEPT ![c] = Len(audits[c])]
  BY <1>1 DEF Job
<1>3. /\ jobs' = [jobs EXCEPT ![w] = j] /\ audits' = audits
      /\ rows' = [rows EXCEPT ![c] = row]
  BY DEF WriteAndReturn
<1>4. First(j) = c
  BY <1>2 DEF First, Current
<1> HIDE DEF j
<1>5. ChangeOK(j)
  BY <1>1, <1>2, <1>4, NoRowAssumption DEF ChangeOK, Job
<1>6. SeenOK(j, rows', audits')
  <2> SUFFICES ASSUME NEW f \in j.todo, j.seen[f] # NoRow
               PROVE  /\ j.since[f] <= Len(audits'[f])
                      /\ j.seen[f].visibility # "blocked" /\ rows'[f].visibility = "blocked" =>
                           \E i \in j.since[f] + 1 .. Len(audits'[f]) :
                             audits'[f][i].new = "blocked" /\ audits'[f][i].actor = "admin"
    BY DEF SeenOK
  <2>1. f \in Funds /\ f \in jobs[w].todo
    BY <1>1, <1>2 DEF Job
  <2>2. CASE f = c
    <3>1. j.seen[f] = row /\ j.since[f] = Len(audits[f]) /\ rows'[f] = row
          /\ Len(audits[f]) \in Nat
      BY <1>1, <1>2, <1>3, <2>2 DEF Job, TypeInv, TypeOK
    <3> QED
      BY <1>3, <3>1
  <2>3. CASE f # c
    <3>1. j.seen[f] = jobs[w].seen[f] /\ j.since[f] = jobs[w].since[f] /\ rows'[f] = rows[f]
      BY <1>1, <1>2, <1>3, <2>1, <2>3 DEF Job, TypeInv, TypeOK
    <3>2. SeenOK(jobs[w], rows, audits)
      BY DEF CatalogInv, JobsInv
    <3> QED
      BY <1>3, <2>1, <3>1, <3>2 DEF SeenOK
  <2> QED
    BY <2>2, <2>3
<1>7. \A f \in Funds : /\ rows[f] # NoRow => /\ rows'[f] # NoRow
                                             /\ rows'[f].visibility = rows[f].visibility
                       /\ rows[f] = NoRow => \/ rows'[f] = NoRow
                                            \/ rows'[f].visibility = "visible"
  BY <1>1, <1>3, NoRowAssumption DEF TypeInv, TypeOK
<1> QED
  BY <1>3, <1>5, <1>6, <1>7, QuietStep

\* A job that leaves its current fund, having written no visibility of it.
LEMMA AdvanceQuietly ==
  ASSUME TypeInv, CatalogInv, NEW w \in Workers, jobs[w].pc # "idle",
         jobs' = [jobs EXCEPT ![w] = Advanced(w)], audits' = audits,
         \/ rows' = rows
         \/ \E row \in Row : /\ rows' = [rows EXCEPT ![Current(w)] = row]
                             /\ Current(w) \in Existing
                             /\ row.visibility = rows[Current(w)].visibility
  PROVE  CatalogInv'
<1>1. ChangeOK(Advanced(w))
  BY AdvanceSeen
<1>2. Current(w) \in Funds
  BY GoodCurrent DEF TypeInv, GoodJobs
<1>3. \A f \in Funds \ {Current(w)} : rows'[f] = rows[f] /\ audits'[f] = audits[f]
  BY DEF TypeInv, TypeOK
<1>4. SeenOK(Advanced(w), rows', audits')
  BY <1>3, AdvanceSeenOK
<1>5. \A f \in Funds : /\ rows[f] # NoRow => /\ rows'[f] # NoRow
                                             /\ rows'[f].visibility = rows[f].visibility
                       /\ rows[f] = NoRow => \/ rows'[f] = NoRow
                                            \/ rows'[f].visibility = "visible"
  BY <1>2, NoRowAssumption DEF TypeInv, TypeOK, Existing
<1> QED
  BY <1>1, <1>4, <1>5, QuietStep

\* The commit of a visibility change: the only step that appends to a trail.
LEMMA CommitStep ==
  ASSUME TypeInv, CatalogInv, NEW w \in Workers, TxCommit(w)
  PROVE  CatalogInv'
<1> DEFINE c == Current(w)
           entry == [previous |-> jobs[w].previous, new |-> jobs[w].want,
                     actor |-> IF jobs[w].op \in Automatic THEN "system" ELSE "admin"]
           row == [rows[c] EXCEPT !.visibility = jobs[w].want]
<1>1. /\ jobs[w].pc = "txWrite" /\ GoodJob(jobs[w]) /\ TodoOK(jobs[w], Existing)
      /\ ChangeOK(jobs[w])
  BY DEF TxCommit, TypeInv, GoodJobs, TodoExists, CatalogInv, JobsInv
<1>2. c \in Funds /\ c \in Existing /\ c \in jobs[w].todo /\ rows[c] \in Row
  BY <1>1, GoodCurrent DEF TypeInv, TypeOK, TodoOK, Existing
<1>3. /\ rows' = [rows EXCEPT ![c] = row]
      /\ audits' = [audits EXCEPT ![c] = Append(@, entry)]
      /\ jobs' = [jobs EXCEPT ![w] = Advanced(w)]
  BY DEF TxCommit
<1>4. /\ entry.new = jobs[w].want /\ row.visibility = jobs[w].want /\ row # NoRow
      /\ entry.new = "blocked" => entry.actor = "admin"
      /\ entry \in AuditEntry
  <2>1. row \in Row
    BY <1>1, <1>2 DEF Row, GoodJob, Job
  <2>2. jobs[w].op \in Automatic => jobs[w].want # "blocked"
    BY <1>1 DEF ChangeOK
  <2> QED
    BY <1>1, <1>2, <2>1, <2>2, NoRowAssumption DEF Row, AuditEntry, Actor, GoodJob, Job
<1> HIDE DEF entry, row, c
<1>5. /\ audits[c] \in Seq(AuditEntry) /\ audits'[c] = Append(audits[c], entry)
      /\ rows'[c] = row
      /\ \A f \in Funds \ {c} : audits'[f] = audits[f] /\ rows'[f] = rows[f]
  BY <1>2, <1>3 DEF TypeInv, TypeOK
<1>6. /\ Len(audits[c]) \in Nat /\ Len(audits'[c]) = Len(audits[c]) + 1
      /\ audits'[c][Len(audits[c]) + 1] = entry
      /\ audits'[c] # <<>>
      /\ \A i \in 1 .. Len(audits[c]) : audits'[c][i] = audits[c][i]
  BY <1>4, <1>5
<1>7. AuditTrailMatchesVisibility'
  BY <1>4, <1>5, <1>6 DEF CatalogInv, AuditTrailMatchesVisibility, LastEntry
<1>8. ASSUME NEW v \in Workers, v # w
      PROVE  SeenOK(jobs[v], rows', audits')
  <2>1. SeenOK(jobs[v], rows, audits) /\ jobs[v].todo \subseteq Funds
        /\ jobs[v].since \in [Funds -> Nat]
    BY DEF CatalogInv, JobsInv, TypeInv, GoodJobs, GoodJob, Job
  <2> SUFFICES ASSUME NEW f \in jobs[v].todo, jobs[v].seen[f] # NoRow
               PROVE  /\ jobs[v].since[f] <= Len(audits'[f])
                      /\ jobs[v].seen[f].visibility # "blocked" /\ rows'[f].visibility = "blocked" =>
                           \E i \in jobs[v].since[f] + 1 .. Len(audits'[f]) :
                             audits'[f][i].new = "blocked" /\ audits'[f][i].actor = "admin"
    BY DEF SeenOK
  <2>2. f \in Funds /\ jobs[v].since[f] \in Nat
    BY <2>1
  <2>3. CASE f = c
    <3>1. jobs[v].since[f] <= Len(audits[c])
      BY <2>1, <2>3 DEF SeenOK
    <3>2. Len(audits[c]) + 1 \in jobs[v].since[f] + 1 .. Len(audits'[f])
      BY <1>6, <2>2, <2>3, <3>1
    <3> QED
      BY <1>4, <1>5, <1>6, <2>2, <2>3, <3>1, <3>2
  <2>4. CASE f # c
    BY <1>5, <2>1, <2>2, <2>4 DEF SeenOK
  <2> QED
    BY <2>3, <2>4
<1>9. SeenOK(Advanced(w), rows', audits') /\ ChangeOK(Advanced(w))
  <2>1. \A f \in Funds \ {Current(w)} : rows'[f] = rows[f] /\ audits'[f] = audits[f]
    BY <1>5 DEF c
  <2> QED
    BY <1>1, <2>1, AdvanceSeen, AdvanceSeenOK
<1>10. \A v \in Workers : jobs'[v] = IF v = w THEN Advanced(w) ELSE jobs[v]
  BY <1>3 DEF TypeInv, TypeOK
<1> QED
  BY <1>7, <1>8, <1>9, <1>10 DEF CatalogInv, JobsInv

LEMMA CatalogInvariant == Spec => []CatalogInv
<1>1. Init => CatalogInv
  BY DEF Init, Migrated, CatalogInv, AuditTrailMatchesVisibility, JobsInv, SeenOK,
     ChangeOK, IdleJob, Automatic
<1>2. TypeInv /\ CatalogInv /\ [Next]_vars => CatalogInv'
  <2> SUFFICES ASSUME TypeInv, CatalogInv, [Next]_vars PROVE CatalogInv'
    OBVIOUS
  <2>1. ASSUME NEW w \in Workers, Start(w) \/ StartRecalculate(w)
        PROVE  CatalogInv'
    <3>1. ASSUME NEW op \in Op \ {"none"}, NEW pc \in {"write", "decide"},
                 NEW todo \in SUBSET Funds, todo # {}, NEW kept,
                 Begin(w, op, pc, todo, kept), kept \subseteq todo,
                 op = "reconcile" \/ pc = "decide" => kept = todo /\ todo \subseteq Existing
          PROVE  CatalogInv'
      <4> DEFINE j == NewJob(op, pc, todo, kept)
      <4>1. pc \in Pc \ {"idle"} /\ TypeOK
        BY DEF Pc, TypeInv
      <4>2. j.op = op /\ j.pc = pc /\ j.todo = todo /\ GoodJob(j)
        BY <3>1, <4>1, GoodNewJob
      <4>3. /\ j.seen = [f \in Funds |-> IF f \in kept THEN rows[f] ELSE NoRow]
            /\ j.since = [f \in Funds |-> IF f \in kept THEN Len(audits[f]) ELSE 0]
        BY DEF NewJob, IdleJob
      <4>4. jobs' = [jobs EXCEPT ![w] = j] /\ rows' = rows /\ audits' = audits
        BY <3>1 DEF Begin
      <4> HIDE DEF j
      <4>5. First(j) \in todo
        BY <3>1, <4>2 DEF First
      <4>6. ChangeOK(j)
        BY <3>1, <4>2, <4>3, <4>5 DEF ChangeOK, Existing
      <4>7. SeenOK(j, rows', audits')
        <5>1. \A f \in Funds : Len(audits[f]) \in Nat
          BY DEF TypeInv, TypeOK
        <5> QED
          BY <3>1, <4>2, <4>3, <4>4, <5>1 DEF SeenOK
      <4> QED
        BY <4>4, <4>6, <4>7, QuietStep
    <3>2. CASE \E f \in Funds : StartSync(w, f)
      BY <3>1, <3>2 DEF StartSync, BeginBounded, Op, Automatic
    <3>3. CASE \E f \in Funds : StartEditorial(w, f)
      BY <3>1, <3>3 DEF StartEditorial, Op, Manual
    <3>4. CASE StartReconcile(w) \/ StartBenchmarkBackfill(w) \/ StartThemeBackfill(w)
               \/ StartRecalculate(w)
      <4>1. Existing \in SUBSET Funds
        BY DEF Existing
      <4> QED
        BY <3>1, <3>4, <4>1 DEF StartReconcile, StartBenchmarkBackfill,
           StartThemeBackfill, StartRecalculate, BeginBounded, Op, Automatic
    <3>5. CASE \E f \in Funds, v \in Visibility : StartAdminVisibility(w, f, v)
      <4>1. PICK f \in Funds, v \in Visibility : StartAdminVisibility(w, f, v)
        BY <3>5
      <4> DEFINE i == NewJob("admin", "txRead", {f}, {})
                 j == [i EXCEPT !.want = v]
      <4>2. jobs' = [jobs EXCEPT ![w] = j] /\ rows' = rows /\ audits' = audits
        BY <4>1 DEF StartAdminVisibility
      <4>3. /\ j.op = "admin" /\ j.pc = "txRead" /\ j.todo = {f}
            /\ j.seen = [g \in Funds |-> NoRow]
        BY DEF NewJob, IdleJob
      <4> HIDE DEF j
      <4>4. ChangeOK(j) /\ SeenOK(j, rows', audits')
        BY <4>3 DEF ChangeOK, SeenOK, Automatic
      <4> QED
        BY <4>2, <4>4, QuietStep
    <3> QED
      BY <2>1, <3>2, <3>3, <3>4, <3>5 DEF Start
  <2>2. ASSUME NEW w \in Workers, Upsert(w)
        PROVE  CatalogInv'
    <3> DEFINE f == Current(w)
    <3>1. f \in Funds /\ rows[f] \in Row \cup {NoRow} /\ jobs[w].pc # "idle"
          /\ jobs[w].op = "sync"
      BY <2>2, GoodCurrent DEF Upsert, TypeInv, TypeOK, GoodJobs
    <3>2. PICK rest \in BOOLEAN :
            WriteAndReturn(w, Upserted(rows[f], jobs[w].seen[f], rest), "decide")
      BY <2>2 DEF Upsert
    <3> QED
      BY <3>1, <3>2, UpsertedRow, WriteSeen
  <2>3. ASSUME NEW w \in Workers, UpdateScoring(w) \/ ReloadFund(w)
        PROVE  CatalogInv'
    <3>1. /\ jobs[w].pc \in {"write", "reload"} /\ jobs[w].op # "reconcile"
          /\ ~ (jobs[w].op = "sync" /\ jobs[w].pc = "write")
          /\ WriteAndReturn(w, rows[Current(w)], "decide")
      BY <2>3 DEF UpdateScoring, ReloadFund
    <3>2. Current(w) \in Existing /\ rows[Current(w)] \in Row
      BY <3>1, GoodCurrent DEF TypeInv, TypeOK, GoodJobs, TodoExists, TodoOK, Existing
    <3> QED
      BY <3>1, <3>2, WriteSeen DEF Existing
  <2>4. ASSUME NEW w \in Workers, BackfillBenchmark(w)
        PROVE  CatalogInv'
    <3> DEFINE c == Current(w)
               j == [jobs[w] EXCEPT !.pc = "reload"]
    <3>1. /\ jobs[w].pc = "write" /\ jobs[w].op = "benchmark"
          /\ jobs' = [jobs EXCEPT ![w] = j] /\ audits' = audits
          /\ \/ rows' = rows
             \/ rows' = [rows EXCEPT ![c] = [rows[c] EXCEPT !.benchmark = TRUE]]
      BY <2>4 DEF BackfillBenchmark
    <3>2. /\ c \in Existing /\ rows[c] \in Row /\ jobs[w] \in Job
          /\ SeenOK(jobs[w], rows, audits)
      BY <3>1, GoodCurrent DEF TypeInv, TypeOK, GoodJobs, GoodJob, TodoExists, TodoOK,
         Existing, CatalogInv, JobsInv
    <3>3. /\ j.op = "benchmark" /\ j.pc = "reload" /\ j.todo = jobs[w].todo
          /\ j.seen = jobs[w].seen /\ j.since = jobs[w].since
      BY <3>1, <3>2 DEF Job
    <3> HIDE DEF j
    <3>4. LET row == [rows[c] EXCEPT !.benchmark = TRUE]
          IN  row \in Row /\ row # NoRow /\ row.visibility = rows[c].visibility
      BY <3>2, NoRowAssumption DEF Row
    <3>5. \A f \in Funds : /\ rows[f] # NoRow => /\ rows'[f] # NoRow
                                                 /\ rows'[f].visibility = rows[f].visibility
                           /\ rows[f] = NoRow => rows'[f] = NoRow
      BY <3>1, <3>2, <3>4 DEF TypeInv, TypeOK, Existing
    <3>6. SeenOK(j, rows', audits') /\ ChangeOK(j)
      <4>1. j.todo \subseteq Existing
        BY <3>1, <3>3 DEF TypeInv, TodoExists, TodoOK
      <4>2. \A f \in j.todo : rows'[f].visibility = rows[f].visibility
        BY <3>5, <4>1 DEF Existing
      <4>3. SeenOK(j, rows', audits')
        BY <3>1, <3>2, <3>3, <4>2 DEF SeenOK
      <4> QED
        BY <3>3, <4>3 DEF ChangeOK
    <3> QED
      BY <3>1, <3>5, <3>6, QuietStep
  <2>5. ASSUME NEW w \in Workers, BackfillTheme(w) \/ UpdateEditorial(w)
        PROVE  CatalogInv'
    <3> DEFINE c == Current(w)
    <3>1. /\ jobs[w].pc = "write" /\ jobs[w].op # "sync"
          /\ jobs' = [jobs EXCEPT ![w] = Advanced(w)] /\ audits' = audits
          /\ \/ rows' = rows
             \/ \E label \in Label : rows' = [rows EXCEPT ![c] = [rows[c] EXCEPT !.label = label]]
      BY <2>5 DEF BackfillTheme, UpdateEditorial, Label
    <3>2. c \in Existing /\ rows[c] \in Row
      BY <3>1, GoodCurrent DEF TypeInv, TypeOK, GoodJobs, TodoExists, TodoOK, Existing
    <3>3. \A label \in Label : LET row == [rows[c] EXCEPT !.label = label]
                               IN  row \in Row /\ row.visibility = rows[c].visibility
      BY <3>2 DEF Row
    <3> QED
      BY <3>1, <3>2, <3>3, AdvanceQuietly
  <2>6. ASSUME NEW w \in Workers, Decide(w)
        PROVE  CatalogInv'
    <3> DEFINE c == Current(w)
               seen == jobs[w].seen[c]
               next == ResolveAutomaticVisibility(seen)
               j == [jobs[w] EXCEPT !.pc = "txRead", !.want = next]
    <3>1. /\ jobs[w].op \in Automatic /\ jobs[w].pc = "decide"
          /\ UNCHANGED <<rows, audits>>
          /\ jobs' = [jobs EXCEPT ![w] = IF next = seen.visibility THEN Advanced(w) ELSE j]
      BY <2>6 DEF Decide
    <3>2. CASE next = seen.visibility
      BY <3>1, <3>2, AdvanceQuietly
    <3>3. CASE next # seen.visibility
      <4>1. /\ c \in jobs[w].todo /\ jobs[w] \in Job
            /\ SeenOK(jobs[w], rows, audits) /\ ChangeOK(jobs[w])
        BY <3>1, GoodCurrent DEF TypeInv, GoodJobs, GoodJob, CatalogInv, JobsInv
      <4>2. seen.visibility # "blocked" /\ next # "blocked"
        BY <3>3 DEF ResolveAutomaticVisibility
      <4>3. /\ j.op = jobs[w].op /\ j.pc = "txRead" /\ j.todo = jobs[w].todo
            /\ j.seen = jobs[w].seen /\ j.since = jobs[w].since /\ j.want = next
        BY <4>1 DEF Job
      <4>4. First(j) = c /\ First(jobs[w]) = c
        BY <4>3 DEF First, Current
      <4>5. jobs' = [jobs EXCEPT ![w] = j]
        BY <3>1, <3>3
      <4> HIDE DEF j, next
      <4>6. SeenOK(j, rows', audits')
        BY <3>1, <4>1, <4>3 DEF SeenOK
      <4>7. ChangeOK(j)
        BY <3>1, <4>1, <4>2, <4>3, <4>4 DEF ChangeOK
      <4> QED
        BY <3>1, <4>5, <4>6, <4>7, QuietStep
    <3> QED
      BY <3>2, <3>3
  <2>7. ASSUME NEW w \in Workers, TxRead(w)
        PROVE  CatalogInv'
    <3> DEFINE j == [jobs[w] EXCEPT !.pc = "txWrite",
                                    !.previous = rows[Current(w)].visibility]
    <3>1. /\ jobs[w].pc = "txRead" /\ UNCHANGED <<rows, audits>>
          /\ jobs' = [jobs EXCEPT ![w] = j]
      BY <2>7 DEF TxRead
    <3>2. jobs[w] \in Job /\ SeenOK(jobs[w], rows, audits) /\ ChangeOK(jobs[w])
      BY DEF TypeInv, GoodJobs, GoodJob, CatalogInv, JobsInv
    <3>3. /\ j.op = jobs[w].op /\ j.pc = "txWrite" /\ j.todo = jobs[w].todo
          /\ j.seen = jobs[w].seen /\ j.since = jobs[w].since /\ j.want = jobs[w].want
      BY <3>2 DEF Job
    <3> HIDE DEF j
    <3>4. First(j) = First(jobs[w])
      BY <3>3 DEF First
    <3>5. SeenOK(j, rows', audits') /\ ChangeOK(j)
      BY <3>1, <3>2, <3>3, <3>4 DEF SeenOK, ChangeOK
    <3> QED
      BY <3>1, <3>5, QuietStep
  <2>8. ASSUME NEW w \in Workers, TxCommit(w)
        PROVE  CatalogInv'
    BY <2>8, CommitStep
  <2>9. ASSUME NEW w \in Workers, Fail(w)
        PROVE  CatalogInv'
    <3>1. SeenOK(IdleJob, rows', audits') /\ ChangeOK(IdleJob)
      BY DEF SeenOK, ChangeOK, IdleJob, Automatic
    <3> QED
      BY <2>9, <3>1, QuietStep DEF Fail
  <2>10. CASE UNCHANGED vars
    BY <2>10 DEF vars, CatalogInv, AuditTrailMatchesVisibility, LastEntry, JobsInv, SeenOK
  <2> QED
    BY <2>1, <2>2, <2>3, <2>4, <2>5, <2>6, <2>7, <2>8, <2>9, <2>10 DEF Next, Step
<1> QED
  BY <1>1, <1>2, TypeCorrect, PTL DEF Spec

-----------------------------------------------------------------------------
\* Every row, audit entry and job stays well formed.
THEOREM TypeSafe == Spec => []TypeOK
<1>1. TypeInv => TypeOK
  BY DEF TypeInv
<1> QED
  BY <1>1, TypeCorrect, PTL

\* The newest audit entry of a fund names its visibility, for every number of
\* overlapping, failing jobs: the update and the audit row are one transaction
\* and the upsert leaves the column of an existing row alone.
THEOREM AuditTrail == Spec => []AuditTrailMatchesVisibility
<1>1. CatalogInv => AuditTrailMatchesVisibility
  BY DEF CatalogInv
<1> QED
  BY <1>1, CatalogInvariant, PTL

\* An automatic rule about to overwrite a block has read its fund before an
\* administrator blocked it: what the resolver's early return is for.
THEOREM LateBlock == Spec => []UnblockOnlyAcrossLateBlock
<1>1. TypeInv /\ CatalogInv => UnblockOnlyAcrossLateBlock
  <2> SUFFICES ASSUME TypeInv, CatalogInv, NEW w \in Workers,
                      jobs[w].op \in Automatic, jobs[w].pc \in {"txRead", "txWrite"},
                      rows[Current(w)].visibility = "blocked"
               PROVE  \E i \in jobs[w].since[Current(w)] + 1 .. Len(audits[Current(w)]) :
                        /\ audits[Current(w)][i].new = "blocked"
                        /\ audits[Current(w)][i].actor = "admin"
    BY DEF UnblockOnlyAcrossLateBlock
  <2>1. SeenOK(jobs[w], rows, audits) /\ ChangeOK(jobs[w])
    BY DEF CatalogInv, JobsInv
  <2>2. Current(w) \in jobs[w].todo /\ First(jobs[w]) = Current(w)
    BY GoodCurrent DEF TypeInv, GoodJobs, First, Current
  <2> QED
    BY <2>1, <2>2 DEF SeenOK, ChangeOK
<1> QED
  BY <1>1, TypeCorrect, CatalogInvariant, PTL

\* The concrete step that writes a row which leaves visibility and trail alone
\* is a stutter of the ledger, or the creation of the fund.
LEMMA RowMapsToLedger ==
  ASSUME TypeInv, NEW f \in Funds, NEW row \in Row,
         rows' = [rows EXCEPT ![f] = row], audits' = audits,
         row.visibility = IF rows[f] = NoRow THEN "visible" ELSE rows[f].visibility
  PROVE  [Ledger!Next]_(Ledger!ledgerVars)
<1> DEFINE visibility == [g \in Funds |-> IF rows[g] = NoRow THEN "absent"
                                          ELSE rows[g].visibility]
<1>1. row # NoRow /\ \A g \in Funds : rows'[g] = IF g = f THEN row ELSE rows[g]
  BY NoRowAssumption DEF TypeInv, TypeOK
<1>2. CASE rows[f] = NoRow
  <2> DEFINE before == [g \in Funds |-> IF rows[g] = NoRow THEN "absent"
                                        ELSE rows[g].visibility]
             after == [g \in Funds |-> IF rows'[g] = NoRow THEN "absent"
                                       ELSE rows'[g].visibility]
  <2>1. after = [before EXCEPT ![f] = "visible"]
    <3>1. after[f] = "visible"
      BY <1>1, <1>2
    <3>2. \A g \in Funds \ {f} : after[g] = before[g]
      BY <1>1
    <3> HIDE DEF before
    <3>3. \A g \in Funds : after[g] = [before EXCEPT ![f] = "visible"][g]
      BY <3>1, <3>2 DEF before
    <3> QED
      BY <3>3 DEF before
  <2>2. Ledger!Create(f)
    BY <1>2, <2>1 DEF Ledger!Create
  <2> QED
    BY <2>2 DEF Ledger!Next
<1>3. CASE rows[f] # NoRow
  <2>1. visibility' = visibility
    BY <1>1, <1>3
  <2> QED
    BY <2>1 DEF Ledger!ledgerVars
<1> QED
  BY <1>2, <1>3

\* The table and its audit trail implement VisibilityLedger: the initial states
\* are the ledger's, the commit of a visibility change is Change, the first
\* upsert of a fund is Create, and every other step is a stutter.
THEOREM Refinement == Spec => ImplementsLedger
<1> DEFINE visibility == [g \in Funds |-> IF rows[g] = NoRow THEN "absent"
                                          ELSE rows[g].visibility]
<1>1. Init => Ledger!Init
  <2> SUFFICES ASSUME Init PROVE Ledger!Init
    OBVIOUS
  <2>1. \A f \in Funds : rows[f] = NoRow \/ rows[f].visibility \in {"visible", "quarantined"}
    BY DEF Init, Migrated, Row, Visibility
  <2> QED
    BY <2>1 DEF Init, Ledger!Init
<1>2. TypeInv /\ CatalogInv /\ [Next]_vars => [Ledger!Next]_(Ledger!ledgerVars)
  <2> SUFFICES ASSUME TypeInv, CatalogInv, [Next]_vars
               PROVE  [Ledger!Next]_(Ledger!ledgerVars)
    OBVIOUS
  <2>1. CASE UNCHANGED <<rows, audits>>
    BY <2>1 DEF Ledger!ledgerVars
  <2>2. ASSUME NEW w \in Workers, Upsert(w)
        PROVE  [Ledger!Next]_(Ledger!ledgerVars)
    <3> DEFINE f == Current(w)
    <3>1. PICK rest \in BOOLEAN :
            WriteAndReturn(w, Upserted(rows[f], jobs[w].seen[f], rest), "decide")
      BY <2>2 DEF Upsert
    <3>2. f \in Funds /\ rows[f] \in Row \cup {NoRow}
      BY <2>2, GoodCurrent DEF Upsert, TypeInv, TypeOK, GoodJobs
    <3> QED
      BY <3>1, <3>2, UpsertedRow, RowMapsToLedger DEF WriteAndReturn
  <2>3. ASSUME NEW w \in Workers, jobs[w].pc \in {"write", "reload"}, jobs[w].op # "sync",
               \/ UpdateScoring(w) \/ ReloadFund(w) \/ BackfillBenchmark(w)
               \/ BackfillTheme(w) \/ UpdateEditorial(w)
        PROVE  [Ledger!Next]_(Ledger!ledgerVars)
    <3> DEFINE c == Current(w)
    <3>1. c \in Funds /\ rows[c] \in Row /\ rows[c] # NoRow
      BY <2>3, GoodCurrent DEF TypeInv, TypeOK, GoodJobs, TodoExists, TodoOK, Existing
    <3>2. LET row == [rows[c] EXCEPT !.benchmark = TRUE]
          IN  row \in Row /\ row.visibility = rows[c].visibility
      BY <3>1 DEF Row
    <3>3. \A label \in Label : LET row == [rows[c] EXCEPT !.label = label]
                               IN  row \in Row /\ row.visibility = rows[c].visibility
      BY <3>1 DEF Row
    <3>4. /\ audits' = audits
          /\ \/ rows' = rows
             \/ rows' = [rows EXCEPT ![c] = rows[c]]
             \/ rows' = [rows EXCEPT ![c] = [rows[c] EXCEPT !.benchmark = TRUE]]
             \/ \E label \in Label : rows' = [rows EXCEPT ![c] = [rows[c] EXCEPT !.label = label]]
      BY <2>3 DEF UpdateScoring, ReloadFund, BackfillBenchmark, BackfillTheme,
         UpdateEditorial, WriteAndReturn, Label
    <3>5. CASE rows' = rows
      BY <2>1, <3>4, <3>5
    <3> HIDE DEF c
    <3> QED
      BY <3>1, <3>2, <3>3, <3>4, <3>5, RowMapsToLedger
  <2>4. ASSUME NEW w \in Workers, TxCommit(w)
        PROVE  [Ledger!Next]_(Ledger!ledgerVars)
    <3> DEFINE f == Current(w)
               entry == [previous |-> jobs[w].previous, new |-> jobs[w].want,
                         actor |-> IF jobs[w].op \in Automatic THEN "system" ELSE "admin"]
    <3>1. /\ jobs[w].pc = "txWrite" /\ jobs[w] \in Job /\ ChangeOK(jobs[w])
          /\ f \in Funds /\ rows[f] \in Row /\ rows[f] # NoRow
      BY <2>4, GoodCurrent DEF TxCommit, TypeInv, TypeOK, GoodJobs, GoodJob, TodoExists,
         TodoOK, Existing, CatalogInv, JobsInv
    <3>2. entry \in Ledger!Entry
      BY <3>1 DEF Ledger!Entry, Ledger!Visibility, Ledger!Actor, Job, Visibility
    <3>3. entry.new = "blocked" => entry.actor = "admin"
      BY <3>1 DEF ChangeOK
    <3>4. /\ rows' = [rows EXCEPT ![f] = [rows[f] EXCEPT !.visibility = entry.new]]
          /\ audits' = [audits EXCEPT ![f] = Append(@, entry)]
      BY <2>4 DEF TxCommit
    <3>5. /\ [rows[f] EXCEPT !.visibility = entry.new].visibility = entry.new
          /\ [rows[f] EXCEPT !.visibility = entry.new] # NoRow
      <4>1. [rows[f] EXCEPT !.visibility = entry.new] \in Row
        BY <3>1 DEF Row, Job
      <4> QED
        BY <3>1, <4>1, NoRowAssumption DEF Row
    <3> HIDE DEF entry, f
    <3>6. visibility' = [visibility EXCEPT ![f] = entry.new]
      BY <3>1, <3>4, <3>5 DEF TypeInv, TypeOK
    <3>7. visibility[f] # "absent"
      BY <3>1 DEF Row, Visibility
    <3>8. PICK g \in Funds, e \in Ledger!Entry : g = f /\ e = entry
      BY <3>1, <3>2
    <3> HIDE DEF visibility
    <3>9. Ledger!Change(g, e)
      BY <3>3, <3>4, <3>6, <3>7, <3>8 DEF Ledger!Change, visibility
    <3> QED
      BY <3>9 DEF Ledger!Next
  <2>5. ASSUME NEW w \in Workers, Start(w) \/ StartRecalculate(w) \/ Decide(w) \/ TxRead(w)
                                  \/ Fail(w)
        PROVE  UNCHANGED <<rows, audits>>
    BY <2>5 DEF Start, StartSync, StartEditorial, StartAdminVisibility, StartReconcile,
       StartBenchmarkBackfill, StartThemeBackfill, StartRecalculate, BeginBounded, Begin,
       Decide, TxRead, Fail
  <2> QED
    BY <2>1, <2>2, <2>3, <2>4, <2>5 DEF Next, Step, vars, UpdateScoring, ReloadFund,
       BackfillBenchmark, BackfillTheme, UpdateEditorial
<1> QED
  BY <1>1, <1>2, TypeCorrect, CatalogInvariant, PTL DEF Spec, ImplementsLedger, Ledger!Spec

-----------------------------------------------------------------------------
(* What the automatic rules leave behind.                                  *)

\* The visibility the data of a row call for, and a row that has it or is blocked.
Called(row) == IF CatalogDataComplete(row) THEN "visible" ELSE "quarantined"
Fit(row) == row.visibility \in {"blocked", Called(row)}

Alike(a, b) == CatalogDataComplete(a) <=> CatalogDataComplete(b)

\* A rule is done with its fund: there is nothing to change, or it has been committed.
RuleEnds(w) ==
  /\ jobs[w].op \in Automatic /\ jobs[w].pc \in {"decide", "txWrite"}
  /\ jobs'[w] # jobs[w] /\ jobs'[w].pc # "txRead" /\ faults' = faults

\* Somebody has changed what the rule decided from.
Outdated(w) ==
  LET f == Current(w)
      seen == jobs[w].seen[f]
  IN  \/ ~ Alike(seen, rows[f])
      \/ jobs[w].pc = "decide" /\ seen.visibility # rows[f].visibility

\* An administrator, or a rule that decided from other data, is to write the visibility.
Overwrites(w, f) ==
  /\ jobs[w].pc = "txWrite" /\ Current(w) = f
  /\ jobs[w].op \in Automatic => ~ Alike(jobs[w].seen[f], rows[f])

EndsFit(w) == RuleEnds(w) => Fit(rows'[Current(w)]) \/ Outdated(w)

StaysFit(f) ==
  Fit(rows[f]) /\ ~ Fit(rows'[f]) =>
    ~ Alike(rows[f], rows'[f]) \/ \E w \in Workers : Overwrites(w, f)

Reconciling == (\A w \in Workers : EndsFit(w)) /\ (\A f \in Existing : StaysFit(f))

\* A rule leaves its fund as its data call for unless they were changed since the rule's
\* read, and nothing but new data, an operator or such a rule takes a fund out of it.
RulesReconcile == [][Reconciling]_vars

\* What a rule is about to write is what the row it has read calls for.
DecidedJob(j) ==
  j.op \in Automatic /\ j.pc \in {"txRead", "txWrite"} => j.want = Called(j.seen[First(j)])

Decided == \A w \in Workers : DecidedJob(jobs[w])

LEMMA DecidedMove ==
  ASSUME TypeInv, Decided, NEW w \in Workers, NEW j, jobs' = [jobs EXCEPT ![w] = j],
         DecidedJob(j)
  PROVE  Decided'
<1>1. \A v \in Workers : jobs'[v] = IF v = w THEN j ELSE jobs[v]
  BY DEF TypeInv, TypeOK
<1>2. ASSUME NEW v \in Workers PROVE DecidedJob(jobs'[v])
  <2>1. CASE v = w
    BY <1>1, <2>1
  <2>2. CASE v # w
    BY <1>1, <2>2 DEF Decided
  <2>3. QED
    BY <2>1, <2>2
<1>3. QED
  BY <1>2 DEF Decided

\* The step of a job that ends no rule and leaves every row as fit as it was.
LEMMA ReconcilingMove ==
  ASSUME TypeInv, NEW w \in Workers, NEW j, jobs' = [jobs EXCEPT ![w] = j],
         EndsFit(w),
         \A f \in Existing : rows'[f].visibility = rows[f].visibility
  PROVE  Reconciling
<1>1. \A v \in Workers \ {w} : jobs'[v] = jobs[v]
  BY DEF TypeInv, TypeOK
<1>2. \A v \in Workers : EndsFit(v)
  BY <1>1 DEF EndsFit, RuleEnds
<1>3. \A f \in Existing : StaysFit(f)
  <2> SUFFICES ASSUME NEW f \in Existing, Fit(rows[f]), Alike(rows[f], rows'[f])
               PROVE  Fit(rows'[f])
    BY DEF StaysFit
  <2>1. Called(rows'[f]) = Called(rows[f])
    BY DEF Alike, Called
  <2>2. QED
    BY <2>1 DEF Fit
<1>4. QED
  BY <1>2, <1>3 DEF Reconciling

\* The job a loop advances to is not about to write a visibility.
LEMMA AdvancedWrites ==
  ASSUME TypeInv, NEW w \in Workers, jobs[w].pc # "idle"
  PROVE  Advanced(w).pc \notin {"txRead", "txWrite"}
<1> DEFINE left == jobs[w].todo \ {Current(w)}
<1>1. CASE left = {}
  BY <1>1 DEF Advanced, IdleJob
<1>2. CASE left # {}
  BY <1>2 DEF Advanced, LoopPc, TypeInv, GoodJobs, GoodJob, Job
<1>3. QED
  BY <1>1, <1>2

\* A step outside the rules: jobs that start, fail or write other columns.
LEMMA OtherReconciles ==
  ASSUME TypeInv, Decided, NEW w \in Workers, NEW j, jobs' = [jobs EXCEPT ![w] = j],
         jobs[w].pc \notin {"decide", "txWrite"} \/ faults' # faults,
         j.op = "admin" \/ j.pc \notin {"txRead", "txWrite"},
         \A f \in Existing : rows'[f].visibility = rows[f].visibility
  PROVE  Decided' /\ Reconciling
<1>1. EndsFit(w)
  BY DEF EndsFit, RuleEnds
<1>2. DecidedJob(j)
  BY DEF DecidedJob, Automatic
<1>3. QED
  BY <1>1, <1>2, DecidedMove, ReconcilingMove

LEMMA StartReconciles ==
  ASSUME TypeInv, Decided, NEW w \in Workers, Start(w) \/ StartRecalculate(w)
  PROVE  Decided' /\ Reconciling
<1>1. ASSUME NEW op, NEW pc \in {"write", "decide"}, NEW todo, NEW kept,
             Begin(w, op, pc, todo, kept)
      PROVE  Decided' /\ Reconciling
  <2>1. NewJob(op, pc, todo, kept).pc = pc
    BY DEF NewJob, IdleJob
  <2>2. QED
    BY <1>1, <2>1, OtherReconciles DEF Begin
<1>2. CASE \E f \in Funds, v \in Visibility : StartAdminVisibility(w, f, v)
  <2>1. PICK f \in Funds, v \in Visibility : StartAdminVisibility(w, f, v)
    BY <1>2
  <2> DEFINE j == [NewJob("admin", "txRead", {f}, {}) EXCEPT !.want = v]
  <2>2. j.op = "admin"
    BY DEF NewJob, IdleJob
  <2>3. jobs' = [jobs EXCEPT ![w] = j] /\ UNCHANGED rows /\ jobs[w].pc = "idle"
    BY <2>1 DEF StartAdminVisibility
  <2> HIDE DEF j
  <2>4. QED
    BY <2>2, <2>3, OtherReconciles
<1>3. QED
  BY <1>1, <1>2 DEF Start, StartSync, StartEditorial, StartReconcile, StartBenchmarkBackfill,
     StartThemeBackfill, StartRecalculate, BeginBounded

LEMMA WriteReconciles ==
  ASSUME TypeInv, Decided, NEW w \in Workers,
         \/ Upsert(w) \/ UpdateScoring(w) \/ ReloadFund(w) \/ BackfillBenchmark(w)
         \/ BackfillTheme(w) \/ UpdateEditorial(w)
  PROVE  Decided' /\ Reconciling
<1> DEFINE c == Current(w)
<1>1. /\ jobs[w].pc \in {"write", "reload"} /\ jobs[w] \in Job
      /\ c \in Funds /\ rows[c] \in Row \cup {NoRow}
  BY GoodCurrent DEF Upsert, UpdateScoring, ReloadFund, BackfillBenchmark, BackfillTheme,
     UpdateEditorial, TypeInv, TypeOK, GoodJobs, GoodJob
<1>2. \E j : jobs' = [jobs EXCEPT ![w] = j] /\ j.pc \notin {"txRead", "txWrite"}
  <2>1. CASE BackfillTheme(w) \/ UpdateEditorial(w)
    BY <1>1, <2>1, AdvancedWrites DEF BackfillTheme, UpdateEditorial
  <2>2. ASSUME NEW row, WriteAndReturn(w, row, "decide")
        PROVE  \E j : jobs' = [jobs EXCEPT ![w] = j] /\ j.pc \notin {"txRead", "txWrite"}
    <3> DEFINE j == [jobs[w] EXCEPT !.seen[c] = row, !.since[c] = Len(audits[c]), !.pc = "decide"]
    <3>1. j.pc = "decide"
      BY <1>1 DEF Job
    <3>2. jobs' = [jobs EXCEPT ![w] = j]
      BY <2>2 DEF WriteAndReturn
    <3> HIDE DEF j
    <3>3. QED
      BY <3>1, <3>2
  <2>3. CASE BackfillBenchmark(w)
    <3> DEFINE j == [jobs[w] EXCEPT !.pc = "reload"]
    <3>1. j.pc = "reload" /\ jobs' = [jobs EXCEPT ![w] = j]
      BY <1>1, <2>3 DEF BackfillBenchmark, Job
    <3> HIDE DEF j
    <3>2. QED
      BY <3>1
  <2>4. QED
    BY <2>1, <2>2, <2>3 DEF Upsert, UpdateScoring, ReloadFund
<1>3. \A f \in Existing : rows'[f].visibility = rows[f].visibility
  <2>1. ASSUME NEW row, rows' = [rows EXCEPT ![c] = row],
               rows[c] # NoRow => row.visibility = rows[c].visibility
        PROVE  \A f \in Existing : rows'[f].visibility = rows[f].visibility
    BY <1>1, <2>1 DEF Existing, TypeInv, TypeOK
  <2>2. CASE Upsert(w)
    <3>1. PICK rest \in BOOLEAN :
            WriteAndReturn(w, Upserted(rows[c], jobs[w].seen[c], rest), "decide")
      BY <2>2 DEF Upsert
    <3> DEFINE row == Upserted(rows[c], jobs[w].seen[c], rest)
    <3>2. rows' = [rows EXCEPT ![c] = row]
      BY <3>1 DEF WriteAndReturn
    <3>3. rows[c] # NoRow => row.visibility = rows[c].visibility
      BY <1>1, UpsertedRow
    <3> HIDE DEF row
    <3>4. QED
      BY <2>1, <3>2, <3>3
  <2>3. CASE UpdateScoring(w) \/ ReloadFund(w)
    BY <2>1, <2>3 DEF UpdateScoring, ReloadFund, WriteAndReturn
  <2>4. CASE BackfillBenchmark(w)
    <3>1. rows[c] # NoRow => [rows[c] EXCEPT !.benchmark = TRUE].visibility = rows[c].visibility
      BY <1>1 DEF Row
    <3>2. QED
      BY <2>1, <2>4, <3>1 DEF BackfillBenchmark
  <2>5. CASE BackfillTheme(w) \/ UpdateEditorial(w)
    <3>1. ASSUME NEW label
          PROVE  rows[c] # NoRow =>
                   [rows[c] EXCEPT !.label = label].visibility = rows[c].visibility
      BY <1>1 DEF Row
    <3>2. rows' = rows \/ \E label : rows' = [rows EXCEPT ![c] = [rows[c] EXCEPT !.label = label]]
      BY <2>5 DEF BackfillTheme, UpdateEditorial
    <3>3. QED
      BY <2>1, <3>1, <3>2
  <2>6. QED
    BY <2>2, <2>3, <2>4, <2>5
<1>4. QED
  BY <1>1, <1>2, <1>3, OtherReconciles

\* A rule that has nothing to change has read a row that is fit.
LEMMA DecideReconciles ==
  ASSUME TypeInv, CatalogInv, Decided, NEW w \in Workers, Decide(w)
  PROVE  Decided' /\ Reconciling
<1> DEFINE c == Current(w)
           seen == jobs[w].seen[c]
           next == ResolveAutomaticVisibility(seen)
           j == [jobs[w] EXCEPT !.pc = "txRead", !.want = next]
<1>1. /\ jobs[w].op \in Automatic /\ jobs[w].pc = "decide" /\ jobs[w] \in Job
      /\ UNCHANGED <<rows, faults>>
      /\ jobs' = [jobs EXCEPT ![w] = IF next = seen.visibility THEN Advanced(w) ELSE j]
  BY DEF Decide, TypeInv, GoodJobs, GoodJob
<1>2. /\ j.pc = "txRead" /\ j.want = next /\ j.todo = jobs[w].todo /\ j.seen = jobs[w].seen
  BY <1>1 DEF Job
<1>3. First(j) = c
  BY <1>2 DEF First, Current
<1>4. CASE next # seen.visibility
  <2>1. next = Called(seen)
    BY <1>4 DEF ResolveAutomaticVisibility, Called
  <2>2. jobs' = [jobs EXCEPT ![w] = j]
    BY <1>1, <1>4
  <2> HIDE DEF j, next
  <2>3. DecidedJob(j)
    BY <1>2, <1>3, <2>1 DEF DecidedJob
  <2>4. jobs'[w] = j
    BY <2>2 DEF TypeInv, TypeOK
  <2>5. EndsFit(w)
    BY <1>2, <2>4 DEF EndsFit, RuleEnds
  <2>6. QED
    BY <1>1, <2>2, <2>3, <2>5, DecidedMove, ReconcilingMove
<1>5. CASE next = seen.visibility
  <2>1. seen.visibility \in {"blocked", Called(seen)}
    BY <1>5 DEF ResolveAutomaticVisibility, Called
  <2>2. EndsFit(w)
    <3> SUFFICES ASSUME ~ Outdated(w) PROVE Fit(rows'[c])
      BY DEF EndsFit
    <3>1. seen.visibility = rows[c].visibility /\ Alike(seen, rows[c])
      BY <1>1 DEF Outdated
    <3>2. Called(seen) = Called(rows[c])
      BY <3>1 DEF Alike, Called
    <3>3. QED
      BY <1>1, <2>1, <3>1, <3>2 DEF Fit
  <2>3. DecidedJob(Advanced(w))
    BY <1>1, AdvancedWrites DEF DecidedJob
  <2>4. QED
    BY <1>1, <1>5, <2>2, <2>3, DecidedMove, ReconcilingMove
<1>6. QED
  BY <1>4, <1>5

LEMMA ReadReconciles ==
  ASSUME TypeInv, Decided, NEW w \in Workers, TxRead(w)
  PROVE  Decided' /\ Reconciling
<1> DEFINE j == [jobs[w] EXCEPT !.pc = "txWrite", !.previous = rows[Current(w)].visibility]
<1>1. /\ jobs[w].pc = "txRead" /\ jobs[w] \in Job /\ UNCHANGED rows
      /\ jobs' = [jobs EXCEPT ![w] = j]
  BY DEF TxRead, TypeInv, GoodJobs, GoodJob
<1>2. /\ j.op = jobs[w].op /\ j.pc = "txWrite" /\ j.todo = jobs[w].todo
      /\ j.seen = jobs[w].seen /\ j.want = jobs[w].want
  BY <1>1 DEF Job
<1> HIDE DEF j
<1>3. DecidedJob(j)
  BY <1>1, <1>2 DEF Decided, DecidedJob, First
<1>4. EndsFit(w)
  BY <1>1 DEF EndsFit, RuleEnds
<1>5. QED
  BY <1>1, <1>3, <1>4, DecidedMove, ReconcilingMove

\* A rule writes what the row it has read calls for.
LEMMA CommitReconciles ==
  ASSUME TypeInv, Decided, NEW w \in Workers, TxCommit(w)
  PROVE  Decided' /\ Reconciling
<1> DEFINE c == Current(w)
           row == [rows[c] EXCEPT !.visibility = jobs[w].want]
<1>1. /\ jobs[w].pc = "txWrite" /\ GoodJob(jobs[w]) /\ TodoOK(jobs[w], Existing)
      /\ DecidedJob(jobs[w]) /\ c \in Funds /\ c \in jobs[w].todo
  BY GoodCurrent DEF TxCommit, TypeInv, GoodJobs, TodoExists, Decided
<1>2. c \in Existing /\ rows[c] \in Row
  BY <1>1 DEF TypeInv, TypeOK, TodoOK, Existing
<1>3. /\ rows' = [rows EXCEPT ![c] = row] /\ faults' = faults
      /\ jobs' = [jobs EXCEPT ![w] = Advanced(w)]
  BY DEF TxCommit
<1>4. row.visibility = jobs[w].want /\ Called(row) = Called(rows[c])
  BY <1>2 DEF Row, Called, CatalogDataComplete
<1> HIDE DEF row
<1>5. rows'[c] = row /\ \A f \in Funds \ {c} : rows'[f] = rows[f]
  BY <1>1, <1>3 DEF TypeInv, TypeOK
<1>6. jobs[w].op \in Automatic => Fit(row) \/ ~ Alike(jobs[w].seen[c], rows[c])
  <2> SUFFICES ASSUME jobs[w].op \in Automatic, Alike(jobs[w].seen[c], rows[c])
               PROVE  Fit(row)
    OBVIOUS
  <2>1. jobs[w].want = Called(jobs[w].seen[c])
    BY <1>1 DEF DecidedJob, First, Current
  <2>2. Called(jobs[w].seen[c]) = Called(rows[c])
    BY DEF Alike, Called
  <2>3. QED
    BY <1>4, <2>1, <2>2 DEF Fit
<1>7. \A v \in Workers \ {w} : jobs'[v] = jobs[v]
  BY <1>3 DEF TypeInv, TypeOK
<1>8. \A v \in Workers : EndsFit(v)
  <2>1. EndsFit(w)
    BY <1>5, <1>6 DEF EndsFit, RuleEnds, Outdated
  <2>2. QED
    BY <1>7, <2>1 DEF EndsFit, RuleEnds
<1>9. ASSUME NEW f \in Existing PROVE StaysFit(f)
  <2>1. CASE f = c
    BY <1>1, <1>5, <1>6, <2>1 DEF StaysFit, Overwrites
  <2>2. CASE f # c
    BY <1>5, <2>2 DEF StaysFit, Existing
  <2>3. QED
    BY <2>1, <2>2
<1>10. DecidedJob(Advanced(w))
  BY <1>1, AdvancedWrites DEF DecidedJob
<1>11. QED
  BY <1>3, <1>8, <1>9, <1>10, DecidedMove DEF Reconciling

LEMMA ReconcilingStep ==
  ASSUME TypeInv, CatalogInv, Decided, [Next]_vars
  PROVE  Decided' /\ [Reconciling]_vars
<1>1. CASE UNCHANGED vars
  BY <1>1 DEF vars, Decided
<1>2. ASSUME NEW w \in Workers, Fail(w) PROVE Decided' /\ Reconciling
  <2>1. faults' # faults /\ UNCHANGED rows /\ jobs' = [jobs EXCEPT ![w] = IdleJob]
    BY <1>2 DEF Fail, TypeInv, TypeOK
  <2>2. IdleJob.pc = "idle"
    BY DEF IdleJob
  <2>3. QED
    BY <2>1, <2>2, OtherReconciles
<1>3. ASSUME NEW w \in Workers, Step(w) PROVE Decided' /\ Reconciling
  BY <1>3, WriteReconciles, DecideReconciles, ReadReconciles, CommitReconciles DEF Step
<1>4. QED
  BY <1>1, <1>2, <1>3, StartReconciles DEF Next

\* The rule that syncs, recalculations, backfills and reconciliations apply
\* (applyAutomaticVisibilityRules) does its work: it leaves the fund as its data call for,
\* quarantined or not, unless they changed since its row was read; and a fund that is so
\* is taken out of it by new data, an operator or such an outdated rule, by nobody else.
THEOREM RulesDoReconcile == Spec => RulesReconcile
<1>1. Init => Decided
  BY DEF Init, Decided, DecidedJob, IdleJob
<1>2. TypeInv /\ CatalogInv /\ Decided /\ [Next]_vars => Decided' /\ [Reconciling]_vars
  BY ReconcilingStep
<1>3. QED
  BY <1>1, <1>2, TypeCorrect, CatalogInvariant, PTL DEF Spec, RulesReconcile

-----------------------------------------------------------------------------
(* Places in finite sets *)

\* Division by a positive number: what is less than b + 1 times it gives at most b,
\* the greater of two numbers gives no less, and b times it gives at least b.
LEMMA DivisionBounds ==
  ASSUME NEW a \in Nat, NEW b \in Nat, NEW n \in Nat \ {0}
  PROVE  /\ a \div n \in Nat
         /\ a < n * (b + 1) => a \div n <= b
         /\ a <= b => a \div n <= b \div n
         /\ n * (a \div n) <= a
         /\ n * b <= a => b <= a \div n
OBVIOUS

\* A finite set of integers has a greatest element: of the sets that had none a
\* smallest, without one of its elements, has one.
LEMMA FiniteSetsAreBounded ==
  ASSUME NEW S \in SUBSET Int, IsFiniteSet(S), S # {}
  PROVE  /\ \E x \in S : \A y \in S : y <= x
         /\ \E x \in S : \A y \in S : x <= y
<1> DEFINE Top(T) == \E x \in T : \A y \in T : y <= x
           Bottom(T) == \E x \in T : \A y \in T : x <= y
           Finite == FiniteSubsetsOf(S)
           Open == {T \in Finite : T # {} /\ ~ (Top(T) /\ Bottom(T))}
<1>1. IsWellFoundedOn(StrictSubsetOrdering(S), Finite)
  BY FS_StrictSubsetOrderingWellFounded
<1>2. SUFFICES ASSUME Open # {} PROVE FALSE
  BY DEF FiniteSubsetsOf
<1>3. PICK T \in Open : \A V \in Open : ~ (<<V, T>> \in StrictSubsetOrdering(S))
  BY <1>1, <1>2, WFMin
<1>4. PICK x \in T : TRUE
  OBVIOUS
<1> DEFINE V == T \ {x}
<1>5. T \in SUBSET Int /\ V \in Finite
  BY FS_RemoveElement DEF FiniteSubsetsOf
<1>6. <<V, T>> \in StrictSubsetOrdering(S)
  BY <1>4, <1>5 DEF StrictSubsetOrdering, FiniteSubsetsOf
<1>7. CASE V = {}
  <2>1. T = {x}
    BY <1>4, <1>7
  <2>2. Top(T) /\ Bottom(T)
    BY <2>1, <1>5
  <2>3. QED
    BY <2>2, <1>3
<1>8. CASE V # {}
  <2>1. Top(V) /\ Bottom(V)
    BY <1>3, <1>5, <1>6, <1>8
  <2>2. PICK h \in V : \A y \in V : y <= h
    BY <2>1
  <2>3. PICK l \in V : \A y \in V : l <= y
    BY <2>1
  <2>4. Top(T)
    <3>1. CASE x <= h
      BY <3>1, <2>2, <1>5
    <3>2. CASE h <= x
      BY <3>2, <2>2, <1>4, <1>5
    <3>3. QED
      BY <3>1, <3>2, <1>4, <1>5
  <2>5. Bottom(T)
    <3>1. CASE l <= x
      BY <3>1, <2>3, <1>5
    <3>2. CASE x <= l
      BY <3>2, <2>3, <1>4, <1>5
    <3>3. QED
      BY <3>1, <3>2, <1>4, <1>5
  <2>6. QED
    BY <2>4, <2>5, <1>3
<1>9. QED
  BY <1>7, <1>8

\* A strict order of a set in which of two elements one comes first.
OrderOf(R, S) ==
  /\ \A x \in S : <<x, x>> \notin R
  /\ \A x, y \in S : x = y \/ <<x, y>> \in R \/ <<y, x>> \in R
  /\ \A x, y, z \in S : (<<x, y>> \in R /\ <<y, z>> \in R) => <<x, z>> \in R

\* How many come before x.
RankIn(R, S, x) == Cardinality({y \in S : <<y, x>> \in R})

\* The places in S are as many as its elements, and follow its order.
Ranked(R, S) ==
  /\ Cardinality(S) \in Nat
  /\ \A x \in S : RankIn(R, S, x) \in 0..(Cardinality(S) - 1)
  /\ \A x, z \in S : <<x, z>> \in R => RankIn(R, S, x) < RankIn(R, S, z)
  /\ \A n \in 0..(Cardinality(S) - 1) : \E x \in S : RankIn(R, S, x) = n

\* In a finite set that is ordered each element has a place, the number of those
\* before it, and each place is somebody's.
LEMMA RanksArePlaces ==
  ASSUME NEW S, IsFiniteSet(S), NEW R, OrderOf(R, S)
  PROVE  Ranked(R, S)
<1> DEFINE Below(x) == {y \in S : <<y, x>> \in R}
           size == Cardinality(S)
           rank == [x \in S |-> Cardinality(Below(x))]
<1>1. size \in Nat
  BY FS_CardinalityType
<1>2. ASSUME NEW x \in S
      PROVE  IsFiniteSet(Below(x)) /\ Cardinality(Below(x)) \in 0..(size - 1)
  <2>1. Below(x) \in SUBSET S /\ x \in S \ Below(x)
    BY DEF OrderOf
  <2>2. IsFiniteSet(Below(x)) /\ Cardinality(Below(x)) <= size /\ Cardinality(Below(x)) # size
    BY <2>1, FS_Subset
  <2>3. Cardinality(Below(x)) \in Nat
    BY <2>2, FS_CardinalityType
  <2> HIDE DEF Below, size
  <2>4. QED
    BY <1>1, <2>2, <2>3
<1>3. ASSUME NEW x \in S, NEW z \in S, <<x, z>> \in R
      PROVE  Cardinality(Below(x)) < Cardinality(Below(z))
  <2>1. Below(x) \in SUBSET Below(z) /\ x \in Below(z) \ Below(x)
    BY <1>3 DEF OrderOf
  <2>2. Cardinality(Below(x)) <= Cardinality(Below(z)) /\ Cardinality(Below(x)) # Cardinality(Below(z))
    BY <1>2, <2>1, FS_Subset
  <2>3. Cardinality(Below(x)) \in Int /\ Cardinality(Below(z)) \in Int
    BY <1>1, <1>2
  <2> HIDE DEF Below
  <2>4. QED
    BY <2>2, <2>3
<1>4. IsFiniteSet(0..(size - 1)) /\ Cardinality(0..(size - 1)) = size
  <2>1. 0 \in Int /\ size - 1 \in Int /\ (IF 0 > size - 1 THEN 0 ELSE (size - 1) - 0 + 1) = size
    BY <1>1
  <2> HIDE DEF size
  <2>2. QED
    BY <2>1, FS_Interval
<1>5. rank \in Injection(S, 0..(size - 1))
  <2>1. rank \in [S -> 0..(size - 1)]
    BY <1>2
  <2>2. ASSUME NEW x \in S, NEW z \in S, rank[x] = rank[z] PROVE x = z
    <3>1. /\ rank[x] \in Int /\ rank[z] \in Int
          /\ x = z \/ <<x, z>> \in R \/ <<z, x>> \in R
      <4>1. rank[x] \in Int /\ rank[z] \in Int
        BY <1>1, <1>2
      <4>2. QED
        BY <4>1 DEF OrderOf
    <3>2. <<x, z>> \in R => rank[x] < rank[z]
      BY <1>3
    <3>3. <<z, x>> \in R => rank[z] < rank[x]
      BY <1>3
    <3> HIDE DEF rank
    <3>4. QED
      BY <2>2, <3>1, <3>2, <3>3
  <2>3. QED
    BY <2>1, <2>2 DEF Injection, IsInjective
<1>6. rank \in Surjection(S, 0..(size - 1))
  BY <1>4, <1>5, FS_Injection
<1>7. \A n \in 0..(size - 1) : \E x \in S : Cardinality(Below(x)) = n
  BY <1>6 DEF Surjection
<1>8. QED
  BY <1>1, <1>2, <1>3, <1>7 DEF RankIn, Ranked

\* The first n of a set are n, or all there are.
LEMMA FirstFew ==
  ASSUME NEW S, IsFiniteSet(S), NEW R, OrderOf(R, S), NEW n \in Nat
  PROVE  /\ IsFiniteSet({x \in S : RankIn(R, S, x) < n})
         /\ Cardinality({x \in S : RankIn(R, S, x) < n})
              = IF Cardinality(S) <= n THEN Cardinality(S) ELSE n
<1> DEFINE Few == {x \in S : RankIn(R, S, x) < n}
           size == Cardinality(S)
           all == IF size <= n THEN size ELSE n
           rank == [x \in Few |-> RankIn(R, S, x)]
<1>1. /\ size \in Nat
      /\ \A x \in S : RankIn(R, S, x) \in 0..(size - 1)
      /\ \A x, z \in S : <<x, z>> \in R => RankIn(R, S, x) < RankIn(R, S, z)
      /\ \A k \in 0..(size - 1) : \E x \in S : RankIn(R, S, x) = k
  BY RanksArePlaces DEF Ranked
<1>2. all \in Nat
  BY <1>1
<1> HIDE DEF size
<1>3. IsFiniteSet(0..(all - 1)) /\ Cardinality(0..(all - 1)) = all
  <2>1. 0 \in Int /\ all - 1 \in Int /\ (IF 0 > all - 1 THEN 0 ELSE (all - 1) - 0 + 1) = all
    BY <1>2
  <2> HIDE DEF all
  <2>2. QED
    BY <2>1, FS_Interval
<1>4. rank \in Bijection(Few, 0..(all - 1))
  <2>1. rank \in [Few -> 0..(all - 1)]
    BY <1>1
  <2>2. ASSUME NEW x \in Few, NEW z \in Few, rank[x] = rank[z] PROVE x = z
    <3>1. RankIn(R, S, x) \in Int /\ RankIn(R, S, z) \in Int /\ RankIn(R, S, x) = RankIn(R, S, z)
      BY <1>1, <2>2
    <3>2. x = z \/ <<x, z>> \in R \/ <<z, x>> \in R
      BY DEF OrderOf
    <3>3. QED
      BY <1>1, <3>1, <3>2
  <2>3. ASSUME NEW k \in 0..(all - 1) PROVE \E x \in Few : rank[x] = k
    <3>1. k \in 0..(size - 1) /\ k < n
      BY <1>1
    <3>2. PICK x \in S : RankIn(R, S, x) = k
      BY <1>1, <3>1
    <3>3. QED
      BY <3>1, <3>2
  <2>4. QED
    BY <2>1, <2>2, <2>3 DEF Bijection, Injection, Surjection, IsInjective
<1>5. IsFiniteSet(Few) /\ Few \in SUBSET S
  BY FS_Subset
<1>6. Cardinality(Few) = Cardinality(0..(all - 1))
  <2> HIDE DEF Few, rank, all
  <2>1. ExistsBijection(Few, 0..(all - 1))
    BY <1>4 DEF ExistsBijection
  <2>2. QED
    BY <1>5, <2>1, FS_Bijection
<1>7. QED
  BY <1>3, <1>5, <1>6 DEF size

\* In a finite set of integers each has a place, which is one more than the number of
\* those before it.
LEMMA Places ==
  ASSUME NEW S \in SUBSET Int, IsFiniteSet(S)
  PROVE  LET Before(x) == Cardinality({y \in S : y < x})
         IN  /\ Cardinality(S) \in Nat
             /\ \A x \in S : Before(x) \in 0..(Cardinality(S) - 1)
             /\ \A x, z \in S : x < z => Before(x) < Before(z)
             /\ \A n \in 1..Cardinality(S) : \E x \in S : Before(x) = n - 1
<1> DEFINE Earlier == {p \in S \X S : p[1] < p[2]}
<1>1. \A x, y \in S : x \in Int /\ (<<x, y>> \in Earlier <=> x < y)
  OBVIOUS
<1>2. OrderOf(Earlier, S)
  BY <1>1 DEF OrderOf
<1>3. \A x \in S : {y \in S : <<y, x>> \in Earlier} = {y \in S : y < x}
  BY <1>1
<1>4. \A x \in S : RankIn(Earlier, S, x) = Cardinality({y \in S : y < x})
  BY <1>3 DEF RankIn
<1> HIDE DEF Earlier
<1>5. Ranked(Earlier, S)
  BY <1>2, RanksArePlaces
<1> DEFINE rank(x) == RankIn(Earlier, S, x)
           size == Cardinality(S)
<1>6. /\ size \in Nat
      /\ \A x \in S : rank(x) \in 0..(size - 1)
      /\ \A x, z \in S : <<x, z>> \in Earlier => rank(x) < rank(z)
      /\ \A n \in 0..(size - 1) : \E x \in S : rank(x) = n
  BY <1>5 DEF Ranked
<1>7. \A x \in S : rank(x) = Cardinality({y \in S : y < x})
  BY <1>4
<1> HIDE DEF rank, size
<1>8. \A n \in 1..size : \E x \in S : rank(x) = n - 1
  <2>1. \A n \in 1..size : n - 1 \in 0..(size - 1)
    BY <1>6
  <2>2. QED
    BY <1>6, <2>1
<1>9. \A x, z \in S : x < z => rank(x) < rank(z)
  BY <1>1, <1>6
<1>10. QED
  BY <1>6, <1>7, <1>8, <1>9 DEF size

-----------------------------------------------------------------------------
(* The lists of the catalog *)

\* The instance has its own copies of what "finite" and "size" mean.
LEMMA SizesInLists ==
  ASSUME NEW S
  PROVE  (Lists!IsFiniteSet(S) <=> IsFiniteSet(S)) /\ Lists!Cardinality(S) = Cardinality(S)
BY DEF Lists!IsFiniteSet, IsFiniteSet, Lists!Cardinality, Cardinality

\* The smaller and the greater of two numbers.
LEMMA LesserAndGreater ==
  ASSUME NEW a \in Int, NEW b \in Int
  PROVE  /\ Lists!Min({a, b}) = IF a <= b THEN a ELSE b
         /\ Lists!Max({a, b}) = IF a <= b THEN b ELSE a
<1>1. CASE a <= b
  BY <1>1 DEF Lists!Min, Lists!Max
<1>2. CASE ~ (a <= b)
  BY <1>2 DEF Lists!Min, Lists!Max
<1>3. QED
  BY <1>1, <1>2

\* Tables that differ in n lines at most, and numbers no further apart than n.
Differ(t, u, n) ==
  \E D \in SUBSET Funds : Cardinality(D) <= n /\ \A f \in Funds \ D : t[f] = u[f]
NoFurther(a, b, n) == a - b <= n /\ b - a <= n

\* Sets that differ in n funds at most are nearly of one size.
LEMMA SizesDiffer ==
  ASSUME IsFiniteSet(Funds), NEW S \in SUBSET Funds, NEW T \in SUBSET Funds,
         NEW D \in SUBSET Funds, NEW n \in Nat, Cardinality(D) <= n, S \ D = T \ D
  PROVE  /\ Cardinality(S) \in Nat /\ Cardinality(T) \in Nat
         /\ NoFurther(Cardinality(S), Cardinality(T), n)
<1>1. IsFiniteSet(S) /\ IsFiniteSet(T) /\ IsFiniteSet(D)
  BY FS_Subset
<1>2. Cardinality(S) \in Nat /\ Cardinality(T) \in Nat /\ Cardinality(D) \in Nat
  BY <1>1, FS_CardinalityType
<1>3. /\ IsFiniteSet(S \cup D) /\ Cardinality(S \cup D) = Cardinality(S) + Cardinality(D) - Cardinality(S \cap D)
      /\ IsFiniteSet(T \cup D) /\ Cardinality(T \cup D) = Cardinality(T) + Cardinality(D) - Cardinality(T \cap D)
  BY <1>1, FS_Union
<1>4. Cardinality(S \cap D) \in Nat /\ Cardinality(T \cap D) \in Nat
  <2>1. (S \cap D) \in SUBSET D /\ (T \cap D) \in SUBSET D
    OBVIOUS
  <2>2. IsFiniteSet(S \cap D) /\ IsFiniteSet(T \cap D)
    BY <1>1, <2>1, FS_Subset
  <2>3. QED
    BY <2>2, FS_CardinalityType
<1>5. S \in SUBSET (T \cup D) /\ T \in SUBSET (S \cup D)
  OBVIOUS
<1>6. Cardinality(S) <= Cardinality(T \cup D) /\ Cardinality(T) <= Cardinality(S \cup D)
  BY <1>3, <1>5, FS_Subset
<1>7. QED
  BY <1>2, <1>3, <1>4, <1>6 DEF NoFurther

\* So the counts of the funds that pass some test in one table and the other.
LEMMA CountsDiffer ==
  ASSUME IsFiniteSet(Funds), NEW t, NEW u, NEW n \in Nat, Differ(t, u, n),
         NEW S \in SUBSET Funds, NEW T \in SUBSET Funds,
         \A f \in Funds : t[f] = u[f] => (f \in S <=> f \in T)
  PROVE  /\ Cardinality(S) \in Nat /\ Cardinality(T) \in Nat
         /\ NoFurther(Cardinality(S), Cardinality(T), n)
<1>1. PICK D \in SUBSET Funds : Cardinality(D) <= n /\ \A f \in Funds \ D : t[f] = u[f]
  BY DEF Differ
<1>2. S \ D = T \ D
  BY <1>1
<1>3. QED
  BY <1>1, <1>2, SizesDiffer

\* One more write makes tables differ in one more row, and none in no row.
LEMMA OneMoreDiffers ==
  ASSUME IsFiniteSet(Funds), NEW t, NEW u, NEW n \in Nat, Differ(t, u, n), NEW f \in Funds, NEW v,
         \A g \in Funds \ {f} : v[g] = u[g]
  PROVE  Differ(t, v, n + 1)
<1>1. PICK D \in SUBSET Funds : Cardinality(D) <= n /\ \A g \in Funds \ D : t[g] = u[g]
  BY DEF Differ
<1>2. IsFiniteSet(D)
  BY FS_Subset
<1>3. Cardinality(D) \in Nat
  BY <1>2, FS_CardinalityType
<1>4. Cardinality(D \cup {f}) = IF f \in D THEN Cardinality(D) ELSE Cardinality(D) + 1
  BY <1>2, FS_AddElement
<1>5. D \cup {f} \in SUBSET Funds /\ \A g \in Funds \ (D \cup {f}) : t[g] = v[g]
  BY <1>1
<1>6. Cardinality(D \cup {f}) <= n + 1
  BY <1>1, <1>3, <1>4
<1>7. QED
  BY <1>5, <1>6 DEF Differ

LEMMA SameDiffersNot ==
  ASSUME NEW t, NEW n \in Nat
  PROVE  Differ(t, t, n)
<1>1. {} \in SUBSET Funds /\ Cardinality({}) = 0 /\ \A f \in Funds \ {} : t[f] = t[f]
  BY FS_EmptySet
<1>2. QED
  BY <1>1 DEF Differ

\* The tables of a request, from the one that it found to the one that stands: n
\* writes lead to n lines that may differ, and each statement that ran returned
\* what one of them gives.
Past(p) ==
  /\ p \in [0..rewrites -> [Funds -> Contents]]
  /\ p[0] = asked /\ p[rewrites] = listed
  /\ \A i, j \in 0..rewrites : i <= j => Differ(p[i], p[j], j - i)
  /\ \A s \in DOMAIN result : \E i \in 0..rewrites : result[s] \in Lists!Returns(s, query, p[i])

ListsInv == Lists!TypeOK /\ \E p : Past(p)

LEMMA ListsInitially ==
  ASSUME Lists!ConstantsAssumption, Lists!Init
  PROVE  ListsInv
<1> DEFINE p == [i \in 0..0 |-> asked]
<1>1. asked \in [Funds -> Contents] /\ listed = asked /\ query = None /\ result = <<>> /\ rewrites = 0
  BY DEF Lists!ConstantsAssumption, Lists!Init
<1>2. DOMAIN result = {}
  BY <1>1
<1>3. Lists!TypeOK
  BY <1>1 DEF Lists!TypeOK, Lists!ConstantsAssumption
<1>4. Differ(asked, asked, 0)
  BY SameDiffersNot
<1>5. Past(p)
  BY <1>1, <1>2, <1>4 DEF Past
<1>6. QED
  BY <1>3, <1>5 DEF ListsInv

LEMMA ListsStep ==
  ASSUME Lists!ConstantsAssumption, ListsInv, Lists!Next
  PROVE  ListsInv'
<1> USE DEF Lists!Statements
<1>1. PICK p : Past(p)
  BY DEF ListsInv
<1>2. /\ Lists!TypeOK /\ IsFiniteSet(Funds) /\ MaxWrites \in Nat /\ None \notin Queries
      /\ rewrites \in 0..MaxWrites
  BY SizesInLists DEF ListsInv, Lists!ConstantsAssumption, Lists!TypeOK
<1>3. CASE Lists!Ask
  <2>1. /\ result = <<>> /\ result' = result /\ query' \in Queries
        /\ listed' = listed /\ asked' = asked /\ rewrites' = rewrites
    BY <1>2, <1>3 DEF Lists!Ask, Lists!TypeOK
  <2>2. DOMAIN result = {}
    BY <2>1
  <2>3. Lists!TypeOK'
    BY <1>2, <2>1, <2>2 DEF Lists!TypeOK
  <2>4. Past(p)'
    BY <1>1, <2>1, <2>2 DEF Past
  <2>5. QED
    BY <2>3, <2>4 DEF ListsInv
<1>4. ASSUME NEW s \in {"page", "count", "categories", "visibility", "rows", "totals", "eligible"}, Lists!Execute(s)
      PROVE  ListsInv'
  <2>1. PICK value \in Lists!Returns(s, query, listed) :
          result' = [t \in DOMAIN result \cup {s} |-> IF t = s THEN value ELSE result[t]]
    BY <1>4 DEF Lists!Execute
  <2>2. /\ query # None /\ s \in Lists!Statements(query)
        /\ listed' = listed /\ asked' = asked /\ rewrites' = rewrites /\ query' = query
    BY <1>4 DEF Lists!Execute
  <2>3. DOMAIN result' = DOMAIN result \cup {s}
    BY <2>1
  <2>4. Lists!TypeOK'
    <3> HIDE DEF Lists!Statements
    <3>1. QED
      BY <1>2, <2>2, <2>3 DEF Lists!TypeOK
  <2>5. Past(p)'
    <3>1. ASSUME NEW t \in DOMAIN result' PROVE \E i \in 0..rewrites : result'[t] \in Lists!Returns(t, query, p[i])
      <4>1. CASE t = s
        <5>1. rewrites \in 0..rewrites /\ p[rewrites] = listed /\ result'[t] = value
          BY <1>1, <1>2, <2>1, <2>3, <4>1 DEF Past
        <5>2. QED
          BY <2>1, <4>1, <5>1
      <4>2. CASE t # s
        <5>1. t \in DOMAIN result /\ result'[t] = result[t]
          BY <2>1, <2>3, <4>2
        <5>2. QED
          BY <1>1, <5>1 DEF Past
      <4>3. QED
        BY <4>1, <4>2
    <3>2. QED
      BY <1>1, <2>2, <3>1 DEF Past
  <2>6. QED
    BY <2>4, <2>5 DEF ListsInv
<1>5. ASSUME NEW f \in Funds, Lists!Write(f) PROVE ListsInv'
  <2> DEFINE longer == [i \in 0..(rewrites + 1) |-> IF i = rewrites + 1 THEN listed' ELSE p[i]]
  <2>0. PICK q : q = longer
    OBVIOUS
  <2>1. PICK r \in Contents : listed' = [listed EXCEPT ![f] = r]
    BY <1>5 DEF Lists!Write
  <2>2. /\ rewrites < MaxWrites /\ rewrites' = rewrites + 1 /\ query' = query
        /\ result' = result /\ asked' = asked
    BY <1>5 DEF Lists!Write
  <2>3. listed \in [Funds -> Contents] /\ rewrites \in Nat
    BY <1>2 DEF Lists!TypeOK
  <2>4. listed' \in [Funds -> Contents] /\ \A g \in Funds \ {f} : listed'[g] = listed[g]
    BY <2>1, <2>3
  <2>5. Lists!TypeOK'
    <3>1. rewrites' \in 0..MaxWrites
      BY <1>2, <2>2
    <3> HIDE DEF Lists!Statements
    <3>2. QED
      BY <1>2, <2>2, <2>4, <3>1 DEF Lists!TypeOK
  <2>6. /\ q \in [0..rewrites' -> [Funds -> Contents]]
        /\ q[0] = asked' /\ q[rewrites'] = listed'
    BY <1>1, <2>0, <2>2, <2>3, <2>4 DEF Past
  <2>7. ASSUME NEW i \in 0..rewrites', NEW j \in 0..rewrites', i <= j
        PROVE  Differ(q[i], q[j], j - i)
    <3>1. CASE j <= rewrites
      <4>1. i \in 0..rewrites /\ j \in 0..rewrites /\ q[i] = p[i] /\ q[j] = p[j]
        BY <2>0, <2>2, <2>3, <2>7, <3>1
      <4>2. QED
        BY <1>1, <2>7, <4>1 DEF Past
    <3>2. CASE i = j
      BY <2>7, <3>2, SameDiffersNot
    <3>3. CASE j > rewrites /\ i # j
      <4>1. /\ i \in 0..rewrites /\ rewrites \in 0..rewrites /\ i <= rewrites /\ rewrites - i \in Nat
            /\ q[i] = p[i] /\ q[j] = listed' /\ (rewrites - i) + 1 = j - i
        BY <2>0, <2>2, <2>3, <2>7, <3>3
      <4>2. Differ(p[i], listed, rewrites - i)
        BY <1>1, <4>1 DEF Past
      <4>3. Differ(p[i], listed', (rewrites - i) + 1)
        BY <1>2, <2>4, <4>1, <4>2, OneMoreDiffers
      <4>4. QED
        BY <4>1, <4>3
    <3>4. QED
      BY <2>2, <2>3, <2>7, <3>1, <3>2, <3>3
  <2>8. ASSUME NEW s \in DOMAIN result
        PROVE  \E i \in 0..rewrites' : result[s] \in Lists!Returns(s, query, q[i])
    <3>1. PICK i \in 0..rewrites : result[s] \in Lists!Returns(s, query, p[i])
      BY <1>1, <2>8 DEF Past
    <3>2. i \in 0..rewrites' /\ q[i] = p[i]
      BY <2>0, <2>2, <2>3
    <3>3. QED
      BY <3>1, <3>2
  <2>9. Past(q)'
    BY <2>2, <2>6, <2>7, <2>8 DEF Past
  <2>10. QED
    BY <2>5, <2>9 DEF ListsInv
<1>6. QED
  BY <1>3, <1>4, <1>5 DEF Lists!Next

LEMMA ListsRest ==
  ASSUME ListsInv, UNCHANGED Lists!vars
  PROVE  ListsInv'
<1>1. PICK p : Past(p)
  BY DEF ListsInv
<1>2. /\ listed' = listed /\ query' = query /\ result' = result /\ asked' = asked
      /\ rewrites' = rewrites
  BY DEF Lists!vars
<1>3. Lists!TypeOK' /\ Past(p)'
  BY <1>1, <1>2 DEF ListsInv, Lists!TypeOK, Past, Lists!Answered, Lists!Statements
<1>4. QED
  BY <1>3 DEF ListsInv

LEMMA PageStarts ==
  ASSUME Lists!ConstantsAssumption, NEW q \in Queries
  PROVE  /\ q.page \in Nat \ {0} /\ q.limit \in Nat \ {0} /\ q.groupsLimit \in Nat \ {0}
         /\ Lists!Skip(q) \in Nat /\ q.page * q.limit - q.limit = Lists!Skip(q)
<1>1. q.page \in Nat \ {0} /\ q.limit \in Nat \ {0} /\ q.groupsLimit \in Nat \ {0}
  BY DEF Lists!ConstantsAssumption, Lists!QueryTyped
<1> DEFINE page == q.page
           limit == q.limit
<1>2. page \in Nat \ {0} /\ limit \in Nat \ {0}
  BY <1>1
<1> HIDE DEF page, limit
<1>3. (page - 1) * limit \in Nat /\ page * limit - limit = (page - 1) * limit
  BY <1>2
<1>4. QED
  BY <1>1, <1>3 DEF page, limit, Lists!Skip

\* What a request asks for is some of the funds, of one table and of another that
\* differs in n lines nearly as many.
LEMMA MatchesAreFunds ==
  ASSUME Lists!ConstantsAssumption, NEW q, NEW t
  PROVE  /\ Lists!Matches(q, t) \in SUBSET Funds /\ IsFiniteSet(Lists!Matches(q, t))
         /\ Cardinality(Lists!Matches(q, t)) \in Nat
<1>1. IsFiniteSet(Funds) /\ Lists!Matches(q, t) \in SUBSET Funds
  BY SizesInLists DEF Lists!ConstantsAssumption, Lists!Matches
<1> HIDE DEF Lists!Matches
<1>2. IsFiniteSet(Lists!Matches(q, t))
  BY <1>1, FS_Subset
<1>3. QED
  BY <1>1, <1>2, FS_CardinalityType

LEMMA MatchesDiffer ==
  ASSUME Lists!ConstantsAssumption, NEW q, NEW t, NEW u, NEW n \in Nat, Differ(t, u, n)
  PROVE  NoFurther(Cardinality(Lists!Matches(q, t)), Cardinality(Lists!Matches(q, u)), n)
<1>1. IsFiniteSet(Funds)
  BY SizesInLists DEF Lists!ConstantsAssumption
<1>2. \A f \in Funds : t[f] = u[f] => (f \in Lists!Matches(q, t) <=> f \in Lists!Matches(q, u))
  BY DEF Lists!Matches
<1>3. QED
  BY <1>1, <1>2, CountsDiffer, MatchesAreFunds

\* No fund comes before itself.
LEMMA NoneBeforeItself ==
  ASSUME Lists!ConstantsAssumption, NEW q \in Queries, NEW t \in [Funds -> Contents], NEW f \in Funds
  PROVE  ~ Lists!Before(q, t, f, f)
<1>1. t[f] \in Contents /\ q.sortBy \in Lists!SortColumns /\ None \notin Int
  BY DEF Lists!ConstantsAssumption, Lists!QueryTyped
<1>2. t[f][q.sortBy] \in Int \cup {None}
  BY <1>1 DEF Lists!ConstantsAssumption, Lists!Figure
<1> DEFINE a == t[f][q.sortBy]
<1>3. a \in Int => ~ (a > a) /\ ~ (a < a)
  BY <1>2
<1> HIDE DEF a
<1>4. a \in Int \cup {None}
  BY <1>2 DEF a
<1>5. ~ (IF q.descending THEN a # None /\ (a = None \/ a > a) ELSE a # None /\ (a = None \/ a < a))
  BY <1>1, <1>3, <1>4
<1>6. QED
  BY <1>5 DEF a, Lists!Before

\* The database puts each of the funds at one place, none after one it comes before.
InOrder(order, M, q, t) ==
  /\ order \in Bijection(1..Cardinality(M), M)
  /\ order \in Seq(M) /\ Len(order) = Cardinality(M)
  /\ \A i, j \in 1..Cardinality(M) : i < j => ~ Lists!Before(q, t, order[j], order[i])

LEMMA OrdersArePlaces ==
  ASSUME Lists!ConstantsAssumption, NEW q, NEW t, NEW order \in Lists!Sorted(q, t)
  PROVE  InOrder(order, Lists!Matches(q, t), q, t)
<1> DEFINE M == Lists!Matches(q, t)
           n == Cardinality(M)
<1>1. n \in Nat /\ IsFiniteSet(M)
  BY MatchesAreFunds
<1>2. order \in Lists!SetToSeqs(M) /\ \A i, j \in DOMAIN order : i < j => ~ Lists!Before(q, t, order[j], order[i])
  BY DEF Lists!Sorted
<1>3. order \in [1..n -> M] /\ \A i, j \in 1..n : i # j => order[i] # order[j]
  BY <1>2, SizesInLists DEF Lists!SetToSeqs
<1> HIDE DEF M
<1>4. IsFiniteSet(1..n) /\ Cardinality(1..n) = n
  <2>1. 1 \in Int /\ n \in Int /\ (IF 1 > n THEN 0 ELSE n - 1 + 1) = n
    BY <1>1
  <2> HIDE DEF n
  <2>2. QED
    BY <2>1, FS_Interval
<1>5. order \in Injection(1..n, M)
  BY <1>3 DEF Injection, IsInjective
<1>6. order \in Surjection(1..n, M)
  BY <1>1, <1>4, <1>5, FS_Injection DEF n
<1>7. order \in Bijection(1..n, M)
  BY <1>5, <1>6 DEF Bijection
<1>8. order \in Seq(M) /\ Len(order) = n
  <2> HIDE DEF n
  <2>1. QED
    BY <1>1, <1>3
<1>9. \A i, j \in 1..n : i < j => ~ Lists!Before(q, t, order[j], order[i])
  <2>1. DOMAIN order = 1..n
    BY <1>3
  <2> HIDE DEF n
  <2>2. QED
    BY <1>2, <2>1
<1>10. QED
  BY <1>7, <1>8, <1>9 DEF n, M, InOrder

\* How many lines a page has when n match.
PageSize(q, n) ==
  IF n <= Lists!Skip(q) THEN 0 ELSE IF n <= Lists!Skip(q) + q.limit THEN n - Lists!Skip(q) ELSE q.limit

\* A page is the part of an order from its first place to its last.
PageOf(page, order, q, n) ==
  /\ Len(page) = PageSize(q, n)
  /\ \A f : f \in Lists!Range(page) <=>
       \E i \in 1..n : i > Lists!Skip(q) /\ i <= Lists!Skip(q) + q.limit /\ f = order[i]

LEMMA PagesAreParts ==
  ASSUME Lists!ConstantsAssumption, NEW q \in Queries, NEW t, NEW page \in Lists!Pages(q, t)
  PROVE  \E order : /\ InOrder(order, Lists!Matches(q, t), q, t)
                    /\ PageOf(page, order, q, Cardinality(Lists!Matches(q, t)))
<1> DEFINE M == Lists!Matches(q, t)
           n == Cardinality(M)
           skip == Lists!Skip(q)
           limit == q.limit
<1>1. PICK order \in Lists!Sorted(q, t) : page = SubSeq(order, skip + 1, Lists!Min({Len(order), skip + limit}))
  BY DEF Lists!Pages
<1>2. InOrder(order, M, q, t)
  BY OrdersArePlaces
<1>3. skip \in Nat /\ limit \in Nat \ {0} /\ n \in Nat
  BY PageStarts, MatchesAreFunds
<1>4. order \in Seq(M) /\ Len(order) = n
  BY <1>2 DEF InOrder
<1> DEFINE to == IF n <= skip + limit THEN n ELSE skip + limit
<1> HIDE DEF M, n, skip, limit
<1>5. Lists!Min({n, skip + limit}) = to
  BY <1>3, LesserAndGreater
<1>6. page = SubSeq(order, skip + 1, to)
  BY <1>1, <1>4, <1>5
<1>7. CASE to <= skip
  <2>1. page = <<>>
    BY <1>3, <1>4, <1>6, <1>7
  <2>2. Len(page) = 0 /\ Lists!Range(page) = {}
    BY <2>1 DEF Lists!Range
  <2>3. n <= skip
    BY <1>3, <1>7
  <2>4. Len(page) = (IF n <= skip THEN 0 ELSE IF n <= skip + limit THEN n - skip ELSE limit)
    BY <2>2, <2>3
  <2>5. \A f : f \in Lists!Range(page) <=> \E i \in 1..n : i > skip /\ i <= skip + limit /\ f = order[i]
    BY <1>3, <2>2, <2>3
  <2>6. QED
    BY <1>2, <2>4, <2>5 DEF n, M, skip, limit, PageOf, PageSize
<1>8. CASE to > skip
  <2>1. skip + 1 \in 1..Len(order) /\ to \in (skip + 1)..Len(order)
    BY <1>3, <1>4, <1>8
  <2>2. /\ page \in Seq(M) /\ Len(page) = to - skip
        /\ \A i \in 1..(to - skip) : page[i] = order[skip + i]
    <3>1. /\ skip + 1 \in 1..(Len(order) + 1) /\ to \in skip..Len(order)
          /\ to - (skip + 1) + 1 = to - skip /\ skip + 1 <= to
      BY <1>3, <1>4, <2>1
    <3> HIDE DEF to
    <3>2. /\ SubSeq(order, skip + 1, to) \in Seq(M)
          /\ Len(SubSeq(order, skip + 1, to)) = to - (skip + 1) + 1
          /\ \A i \in 1..(to - (skip + 1) + 1) : SubSeq(order, skip + 1, to)[i] = order[(skip + 1) + i - 1]
      BY <1>3, <1>4, <2>1, <3>1, SubSeqProperties
    <3>3. \A i \in 1..(to - skip) : (skip + 1) + i - 1 = skip + i
      BY <1>3, <2>1
    <3>4. QED
      BY <1>6, <3>1, <3>2, <3>3
  <2>3. Len(page) = (IF n <= skip THEN 0 ELSE IF n <= skip + limit THEN n - skip ELSE limit)
    BY <1>3, <1>8, <2>2
  <2>4. ASSUME NEW f
        PROVE  f \in Lists!Range(page) <=> \E i \in 1..n : i > skip /\ i <= skip + limit /\ f = order[i]
    <3>1. DOMAIN page = 1..(to - skip)
      BY <2>2
    <3>2. f \in Lists!Range(page) <=> \E i \in 1..(to - skip) : f = page[i]
      BY <3>1 DEF Lists!Range
    <3>3. ASSUME NEW i \in 1..(to - skip), f = page[i]
          PROVE  \E j \in 1..n : j > skip /\ j <= skip + limit /\ f = order[j]
      <4>1. skip + i \in 1..n /\ skip + i > skip /\ skip + i <= skip + limit /\ f = order[skip + i]
        BY <1>3, <1>8, <2>2, <3>3
      <4>2. QED
        BY <4>1
    <3>4. ASSUME NEW j \in 1..n, j > skip, j <= skip + limit, f = order[j]
          PROVE  \E i \in 1..(to - skip) : f = page[i]
      <4>1. j - skip \in 1..(to - skip) /\ skip + (j - skip) = j
        BY <1>3, <1>8, <3>4
      <4>2. page[j - skip] = order[j]
        BY <2>2, <4>1
      <4>3. QED
        BY <3>4, <4>1, <4>2
    <3>5. QED
      BY <3>2, <3>3, <3>4
  <2>5. QED
    BY <1>2, <2>3, <2>4 DEF n, M, skip, limit, PageOf, PageSize
<1>9. QED
  BY <1>3, <1>7, <1>8

\* Two tables of a request differ in no more lines than were written meanwhile.
LEMMA PastDiffers ==
  ASSUME NEW p, Past(p), rewrites \in Nat, NEW i \in 0..rewrites, NEW j \in 0..rewrites, i <= j
  PROVE  j - i \in Nat /\ j - i <= rewrites /\ Differ(p[i], p[j], j - i)
BY DEF Past

LEMMA MatchesNear ==
  ASSUME Lists!ConstantsAssumption, NEW q, NEW p, Past(p), rewrites \in Nat,
         NEW i \in 0..rewrites, NEW j \in 0..rewrites
  PROVE  NoFurther(Cardinality(Lists!Matches(q, p[i])), Cardinality(Lists!Matches(q, p[j])), rewrites)
<1> DEFINE a == Cardinality(Lists!Matches(q, p[i]))
           b == Cardinality(Lists!Matches(q, p[j]))
<1>1. a \in Nat /\ b \in Nat
  BY MatchesAreFunds
<1>2. CASE i <= j
  <2>1. j - i \in Nat /\ j - i <= rewrites /\ NoFurther(a, b, j - i)
    BY <1>2, PastDiffers, MatchesDiffer
  <2> HIDE DEF a, b
  <2>2. NoFurther(a, b, rewrites)
    BY <1>1, <2>1 DEF NoFurther
  <2>3. QED
    BY <2>2 DEF a, b
<1>3. CASE j <= i
  <2>1. i - j \in Nat /\ i - j <= rewrites /\ NoFurther(b, a, i - j)
    BY <1>3, PastDiffers, MatchesDiffer
  <2> HIDE DEF a, b
  <2>2. NoFurther(a, b, rewrites)
    BY <1>1, <2>1 DEF NoFurther
  <2>3. QED
    BY <2>2 DEF a, b
<1>4. QED
  BY <1>2, <1>3

\* The page of a list holds what its place calls for.
LEMMA PageHolds ==
  ASSUME Lists!ConstantsAssumption, query \in Queries, asked \in [Funds -> Contents], NEW order,
         InOrder(order, Lists!Matches(query, asked), query, asked),
         PageOf(result.page, order, query, Cardinality(Lists!Matches(query, asked)))
  PROVE  Lists!PageFits
<1> DEFINE M == Lists!Matches(query, asked)
           n == Cardinality(M)
           skip == Lists!Skip(query)
           limit == query.limit
           Ahead(f, g) == Lists!Before(query, asked, f, g)
           Better(f) == {g \in M : Ahead(g, f)}
           AsGood(f) == {g \in M : ~ Ahead(f, g)}
           shown == Lists!Range(result.page)
<1>1. /\ skip \in Nat /\ limit \in Nat \ {0} /\ n \in Nat /\ M \in SUBSET Funds /\ IsFiniteSet(M)
      /\ query.page * limit = skip + limit
  <2>1. query.page \in Nat \ {0} /\ limit \in Nat \ {0} /\ skip \in Nat /\ query.page * limit - limit = skip
    BY PageStarts
  <2>2. query.page * limit = skip + limit
    <3> DEFINE page == query.page
    <3> HIDE DEF page, limit, skip
    <3>1. page \in Nat /\ limit \in Nat /\ skip \in Nat /\ page * limit - limit = skip
      BY <2>1 DEF page
    <3>2. page * limit \in Int
      BY <3>1
    <3>3. page * limit = skip + limit
      BY <3>1, <3>2
    <3>4. QED
      BY <3>3 DEF page
  <2>3. QED
    BY <2>1, <2>2, MatchesAreFunds
<1>2. /\ order \in Bijection(1..n, M)
      /\ \A i, j \in 1..n : i < j => ~ Ahead(order[j], order[i])
  BY DEF InOrder
<1>3. \A f : f \in shown <=> \E i \in 1..n : i > skip /\ i <= skip + limit /\ f = order[i]
  BY DEF PageOf
<1>4. ASSUME NEW i \in 1..n
      PROVE  /\ Cardinality(Better(order[i])) \in Nat /\ Cardinality(Better(order[i])) < i
             /\ Cardinality(AsGood(order[i])) \in Nat /\ i <= Cardinality(AsGood(order[i]))
  <2> DEFINE f == order[i]
  <2>1. f \in M /\ f \in Funds /\ ~ Ahead(f, f)
    BY <1>1, <1>2, <1>4, NoneBeforeItself DEF Bijection, Injection
  <2> HIDE DEF Ahead, M, n
  <2>2. IsFiniteSet(Better(f)) /\ IsFiniteSet(AsGood(f))
    <3>1. Better(f) \in SUBSET M /\ AsGood(f) \in SUBSET M
      OBVIOUS
    <3>2. QED
      BY <1>1, <3>1, FS_Subset
  <2>3. /\ IsFiniteSet(1..(i - 1)) /\ Cardinality(1..(i - 1)) = i - 1
        /\ IsFiniteSet(1..i) /\ Cardinality(1..i) = i
    <3>1. /\ 1 \in Int /\ i - 1 \in Int /\ i \in Int
          /\ (IF 1 > i - 1 THEN 0 ELSE (i - 1) - 1 + 1) = i - 1
          /\ (IF 1 > i THEN 0 ELSE i - 1 + 1) = i
      BY <1>1
    <3>2. QED
      BY <3>1, FS_Interval
  <2>4. \A g \in Better(f) : \E j \in 1..(i - 1) : order[j] = g
    <3>1. ASSUME NEW g \in Better(f) PROVE \E j \in 1..(i - 1) : order[j] = g
      <4>1. PICK j \in 1..n : order[j] = g
        BY <1>2, <3>1 DEF Bijection, Surjection
      <4>2. ~ (i < j) /\ i # j
        BY <1>2, <2>1, <3>1, <4>1
      <4>3. QED
        BY <1>1, <4>1, <4>2
    <3>2. QED
      BY <3>1
  <2> DEFINE place == [g \in Better(f) |-> CHOOSE j \in 1..(i - 1) : order[j] = g]
  <2>5. place \in Injection(Better(f), 1..(i - 1))
    <3>1. \A g \in Better(f) : place[g] \in 1..(i - 1) /\ order[place[g]] = g
      BY <2>4
    <3>2. place \in [Better(f) -> 1..(i - 1)] /\ \A g, h \in Better(f) : place[g] = place[h] => g = h
      BY <3>1
    <3>3. QED
      BY <3>2 DEF Injection, IsInjective
  <2>6. Cardinality(Better(f)) <= i - 1
    <3> HIDE DEF place, Better, f
    <3>1. QED
      BY <2>3, <2>5, FS_Injection
  <2> DEFINE front == [j \in 1..i |-> order[j]]
  <2>7. front \in Injection(1..i, AsGood(f))
    <3>1. \A j \in 1..i : j \in 1..n /\ order[j] \in M /\ ~ Ahead(f, order[j])
      <4>1. ASSUME NEW j \in 1..i PROVE j \in 1..n /\ order[j] \in M /\ ~ Ahead(f, order[j])
        <5>1. j \in 1..n /\ (j < i \/ j = i)
          BY <1>1
        <5>2. order[j] \in M
          BY <1>2, <5>1 DEF Bijection, Injection
        <5>3. QED
          BY <1>2, <2>1, <5>1, <5>2
      <4>2. QED
        BY <4>1
    <3>2. \A j, k \in 1..i : order[j] = order[k] => j = k
      BY <1>2, <3>1 DEF Bijection, Injection, IsInjective
    <3>3. front \in [1..i -> AsGood(f)] /\ \A j, k \in 1..i : front[j] = front[k] => j = k
      BY <3>1, <3>2
    <3>4. QED
      BY <3>3 DEF Injection, IsInjective
  <2>8. i <= Cardinality(AsGood(f))
    <3> HIDE DEF front, AsGood, f
    <3>1. QED
      BY <2>2, <2>3, <2>7, FS_Injection
  <2>9. Cardinality(Better(f)) \in Nat /\ Cardinality(AsGood(f)) \in Nat
    BY <2>2, FS_CardinalityType
  <2> HIDE DEF Better, AsGood
  <2>10. QED
    BY <1>1, <2>6, <2>8, <2>9
<1>5. ASSUME NEW f \in M
      PROVE  /\ f \in shown => Cardinality(Better(f)) < skip + limit /\ Cardinality(AsGood(f)) > skip
             /\ (skip <= Cardinality(Better(f)) /\ Cardinality(AsGood(f)) <= skip + limit) => f \in shown
  <2>1. PICK i \in 1..n : order[i] = f
    BY <1>2 DEF Bijection, Surjection
  <2>2. /\ Cardinality(Better(f)) \in Nat /\ Cardinality(Better(f)) < i
        /\ Cardinality(AsGood(f)) \in Nat /\ i <= Cardinality(AsGood(f))
    BY <1>4, <2>1
  <2>3. f \in shown <=> i > skip /\ i <= skip + limit
    <3>1. \A j \in 1..n : order[j] = f => j = i
      BY <1>2, <2>1 DEF Bijection, Injection, IsInjective
    <3> HIDE DEF shown, n, skip, limit
    <3>2. QED
      BY <1>3, <2>1, <3>1
  <2> HIDE DEF Better, AsGood, shown, n, skip, limit
  <2>4. QED
    BY <1>1, <2>2, <2>3
<1> DEFINE better(f) == Lists!Cardinality({g \in M : Ahead(g, f)})
           asGood(f) == Lists!Cardinality({g \in M : ~ Ahead(f, g)})
<1>6. \A f \in M :
        /\ f \in shown => better(f) < query.page * limit /\ asGood(f) > query.page * limit - limit
        /\ (query.page * limit - limit <= better(f) /\ asGood(f) <= query.page * limit) => f \in shown
  <2>1. query.page * limit - limit = skip
    BY PageStarts
  <2>2. \A f \in M : better(f) = Cardinality(Better(f)) /\ asGood(f) = Cardinality(AsGood(f))
    BY SizesInLists
  <2> HIDE DEF better, asGood, Better, AsGood, shown, M, skip, limit
  <2>3. QED
    BY <1>1, <1>5, <2>1, <2>2
<1>7. QED
  BY <1>6 DEF Lists!PageFits

\* The profiles share out the funds by the label that is shown.
LEMMA LabelsHold ==
  ASSUME Lists!ConstantsAssumption, query \in Queries, asked \in [Funds -> Contents],
         query.kind # "metrics"
  PROVE  Lists!ProfilesFit
<1> DEFINE all == [query EXCEPT !.riskProfile = "all"]
<1>1. /\ query = [parameter \in Lists!Parameters |-> query[parameter]]
      /\ query.riskProfile \in {None, "all", "low", "medium", "high"}
      /\ None \notin Int /\ None \notin {"all", "low", "medium", "high"}
  BY DEF Lists!ConstantsAssumption, Lists!QueryTyped
<1>2. /\ all.riskProfile = "all" /\ all.visibilities = query.visibilities /\ all.equal = query.equal
      /\ all.riskLevel = query.riskLevel /\ all.minScore = query.minScore
      /\ all.maxScore = query.maxScore /\ all.minTer = query.minTer /\ all.maxTer = query.maxTer
      /\ all.minReturn1y = query.minReturn1y /\ all.ideal = query.ideal
  <2>1. DOMAIN query = Lists!Parameters
    BY <1>1
  <2>2. QED
    BY <2>1 DEF Lists!Parameters
<1> HIDE DEF all
<1>3. ASSUME NEW f \in Funds, Lists!FundListWhere(all, asked[f])
      PROVE  f \in Lists!Matches(query, asked) <=>
               query.riskProfile \in {None, "all", Lists!MapRiskLevelToApp(asked[f].risk)}
  <2> DEFINE r == asked[f]
             profile == query.riskProfile
             risk == r.risk
  <2>1. r \in Contents /\ risk \in 1..7 \cup {None}
    BY <1>3 DEF Lists!ConstantsAssumption, Lists!Row
  <2>2. Lists!EffectiveMinScore(all) = Lists!EffectiveMinScore(query)
    BY <1>2 DEF Lists!EffectiveMinScore
  <2> HIDE DEF r
  <2>3. Lists!FundListWhere(query, r) <=>
          IF profile \in {"low", "medium", "high"} THEN risk \in Lists!RiskBand(profile)
          ELSE query.riskLevel # None => risk = query.riskLevel
    BY <1>2, <1>3, <2>2 DEF Lists!FundListWhere, r
  <2>4. query.riskLevel # None => risk = query.riskLevel
    BY <1>2, <1>3 DEF Lists!FundListWhere, r
  <2>5. f \in Lists!Matches(query, asked) <=> Lists!FundListWhere(query, r)
    BY DEF Lists!Matches, r
  <2> HIDE DEF risk, profile
  <2>6. profile \in {None, "all", "low", "medium", "high"}
    BY <1>1 DEF profile
  <2>7. CASE profile \in {None, "all"}
    BY <1>1, <2>3, <2>4, <2>5, <2>7 DEF r, risk, profile
  <2>8. CASE profile \in {"low", "medium", "high"}
    <3>1. risk \in Lists!RiskBand(profile) <=> profile = Lists!MapRiskLevelToApp(risk)
      BY <1>1, <2>1, <2>8 DEF Lists!RiskBand, Lists!MapRiskLevelToApp
    <3>2. profile \notin {None, "all"}
      BY <1>1, <2>8
    <3>3. QED
      BY <2>3, <2>5, <2>8, <3>1, <3>2 DEF r, risk, profile
  <2>9. QED
    BY <2>6, <2>7, <2>8
<1>4. QED
  BY <1>3 DEF all, Lists!ProfilesFit

\* What a list shows fits its total and its page number.
LEMMA ListHolds ==
  ASSUME Lists!ConstantsAssumption, ListsInv, Lists!Answered, query.kind \in {"list", "admin"}
  PROVE  Lists!ListFits
<1> DEFINE skip == Lists!Skip(query)
           limit == query.limit
<1>1. PICK p : Past(p)
  BY DEF ListsInv
<1>2. /\ query \in Queries /\ asked \in [Funds -> Contents] /\ rewrites \in Nat
      /\ DOMAIN result = {"page", "count"}
  BY DEF ListsInv, Lists!TypeOK, Lists!Answered, Lists!Statements, Lists!ConstantsAssumption
<1>3. PICK i \in 0..rewrites : result.page \in Lists!Pages(query, p[i])
  <2>1. PICK i \in 0..rewrites : result["page"] \in Lists!Returns("page", query, p[i])
    BY <1>1, <1>2 DEF Past
  <2>2. QED
    BY <2>1 DEF Lists!Returns
<1>4. PICK j \in 0..rewrites : result.count = Cardinality(Lists!Matches(query, p[j]))
  <2>1. PICK j \in 0..rewrites : result["count"] \in Lists!Returns("count", query, p[j])
    BY <1>1, <1>2 DEF Past
  <2>2. QED
    BY <2>1, SizesInLists DEF Lists!Returns
<1> DEFINE m == Cardinality(Lists!Matches(query, p[i]))
           n == result.count
           page == result.page
           due == Lists!Max({0, Lists!Min({limit, n - skip})})
<1>5. PICK order : InOrder(order, Lists!Matches(query, p[i]), query, p[i]) /\ PageOf(page, order, query, m)
  BY <1>2, <1>3, PagesAreParts
<1>6. /\ m \in Nat /\ n \in Nat /\ NoFurther(m, n, rewrites)
      /\ skip \in Nat /\ limit \in Nat \ {0} /\ query.page \in Nat \ {0}
      /\ query.page * limit - limit = skip
  <2>1. skip \in Nat /\ limit \in Nat \ {0} /\ query.page \in Nat \ {0} /\ query.page * limit - limit = skip
    BY <1>2, PageStarts
  <2>2. m \in Nat /\ n \in Nat
    BY <1>4, MatchesAreFunds
  <2>3. NoFurther(m, n, rewrites)
    BY <1>1, <1>2, <1>4, MatchesNear
  <2>4. QED
    BY <2>1, <2>2, <2>3
<1>7. Len(page) = IF m <= skip THEN 0 ELSE IF m <= skip + limit THEN m - skip ELSE limit
  BY <1>5 DEF PageOf, PageSize
<1>8. Lists!Close(Len(page), due)
  <2> HIDE DEF m, n, page, skip, limit
  <2>1. Lists!Min({limit, n - skip}) = (IF limit <= n - skip THEN limit ELSE n - skip)
    BY <1>6, LesserAndGreater
  <2>2. due = IF n <= skip THEN 0 ELSE IF n <= skip + limit THEN n - skip ELSE limit
    <3> DEFINE most == Lists!Min({limit, n - skip})
    <3>1. most \in Int
      BY <1>6, <2>1
    <3> HIDE DEF most
    <3>2. Lists!Max({0, most}) = IF 0 <= most THEN most ELSE 0
      BY <3>1, LesserAndGreater
    <3>3. QED
      BY <1>6, <2>1, <3>2 DEF most
  <2> HIDE DEF due
  <2>3. Len(page) - due \in (-rewrites)..rewrites
    BY <1>2, <1>6, <1>7, <2>2 DEF NoFurther
  <2>4. QED
    BY <2>3 DEF Lists!Close
<1>9. ASSUME query.page > Lists!TotalPages(n, limit) PROVE Len(page) <= rewrites
  <2> DEFINE pages == (n + limit - 1) \div limit
             number == query.page
  <2> HIDE DEF n, limit, m, page, number, skip
  <2>1. number > (IF n = 0 THEN 0 ELSE pages)
    BY <1>9 DEF Lists!TotalPages, number
  <2>2. number \in Nat \ {0} /\ number * limit - limit = skip /\ limit * number = number * limit
    BY <1>6 DEF number
  <2>3. n + limit - 1 \in Nat
    BY <1>6
  <2>4. limit * number \in Nat
    BY <1>6, <2>2
  <2>5. limit * number <= n + limit - 1 => number <= pages
    BY <1>6, <2>2, <2>3, DivisionBounds
  <2>6. pages \in Nat
    BY <1>6, <2>3, DivisionBounds
  <2> HIDE DEF pages
  <2>7. n <= skip
    BY <1>6, <2>1, <2>2, <2>4, <2>5, <2>6
  <2>8. QED
    BY <1>2, <1>6, <1>7, <2>7 DEF NoFurther
<1>10. ASSUME rewrites = 0 PROVE Lists!PageFits /\ Lists!ProfilesFit
  <2>1. p[i] = asked
    BY <1>1, <1>3, <1>10 DEF Past
  <2>2. Lists!PageFits
    BY <1>2, <1>5, <2>1, PageHolds
  <2>3. QED
    BY <1>2, <2>2, LabelsHold
<1>11. ASSUME query.kind = "list", rewrites <= 1, NEW f \in Lists!Range(page)
       PROVE  \E r \in {asked[f], listed[f]} : Lists!IsCatalogVisible(r)
  <2>1. p[i] = asked \/ p[i] = listed
    <3>1. i = 0 \/ i = rewrites
      BY <1>2, <1>3, <1>11
    <3>2. QED
      BY <1>1, <3>1 DEF Past
  <2>2. f \in Lists!Matches(query, p[i])
    <3>1. \E k \in 1..m : f = order[k]
      BY <1>5, <1>11 DEF PageOf
    <3>2. order \in [1..m -> Lists!Matches(query, p[i])]
      BY <1>5 DEF InOrder, Bijection, Injection
    <3> HIDE DEF m
    <3>3. QED
      BY <3>1, <3>2
  <2>3. Lists!PublicCatalog(p[i][f])
    <3>1. query.visibilities = None
      BY <1>2, <1>11 DEF Lists!ConstantsAssumption, Lists!QueryTyped
    <3>2. QED
      BY <1>11, <2>2, <3>1 DEF Lists!Matches, Lists!FundListWhere
  <2>4. Lists!IsCatalogVisible(p[i][f])
    BY <2>3 DEF Lists!PublicCatalog, Lists!IsCatalogVisible
  <2>5. QED
    BY <2>1, <2>4
<1>12. QED
  BY <1>8, <1>9, <1>10, <1>11 DEF Lists!ListFits

\* What is counted of finite many funds per key adds up to them.
LEMMA Tally ==
  ASSUME NEW S \in SUBSET Int, IsFiniteSet(S), NEW key, NEW counts,
         counts = [k \in DOMAIN counts |-> Cardinality({f \in S : key[f] = k})],
         \A f \in S : key[f] \in DOMAIN counts
  PROVE  Lists!Sum(counts) = Cardinality(S)
<1> DEFINE Group(k) == {f \in S : key[f] = k}
           place(f) == Cardinality({g \in Group(key[f]) : g < f})
           number == [f \in S |-> <<key[f], place(f) + 1>>]
           pairs == UNION {{k} \X (1..counts[k]) : k \in DOMAIN counts}
<1>1. ASSUME NEW k
      PROVE  LET Before(x) == Cardinality({y \in Group(k) : y < x})
             IN  /\ Cardinality(Group(k)) \in Nat
                 /\ \A x \in Group(k) : Before(x) \in 0..(Cardinality(Group(k)) - 1)
                 /\ \A x, z \in Group(k) : x < z => Before(x) < Before(z)
                 /\ \A n \in 1..Cardinality(Group(k)) : \E x \in Group(k) : Before(x) = n - 1
  <2>1. Group(k) \in SUBSET Int /\ Group(k) \in SUBSET S
    OBVIOUS
  <2>2. IsFiniteSet(Group(k))
    BY <2>1, FS_Subset
  <2> HIDE DEF Group
  <2>3. QED
    BY <2>1, <2>2, Places
<1>2. \A k \in DOMAIN counts : counts[k] = Cardinality(Group(k)) /\ counts[k] \in Nat
  <2>1. \A k \in DOMAIN counts : counts[k] = Cardinality(Group(k))
    OBVIOUS
  <2> HIDE DEF Group
  <2>2. QED
    BY <1>1, <2>1
<1>3. ASSUME NEW f \in S
      PROVE  /\ key[f] \in DOMAIN counts /\ f \in Group(key[f])
             /\ place(f) \in Int /\ place(f) + 1 \in 1..counts[key[f]]
  <2>1. key[f] \in DOMAIN counts /\ f \in Group(key[f])
    OBVIOUS
  <2>2. place(f) \in 0..(Cardinality(Group(key[f])) - 1) /\ Cardinality(Group(key[f])) \in Nat
    <3> HIDE DEF Group
    <3>1. QED
      BY <1>1, <2>1
  <2>3. counts[key[f]] = Cardinality(Group(key[f]))
    BY <1>2, <2>1
  <2> HIDE DEF place, Group
  <2>4. QED
    BY <2>1, <2>2, <2>3
<1>4. number \in [S -> pairs]
  <2>1. ASSUME NEW f \in S PROVE <<key[f], place(f) + 1>> \in pairs
    <3> HIDE DEF place
    <3>1. QED
      BY <1>3
  <2> HIDE DEF place, pairs
  <2>2. QED
    BY <2>1
<1>5. ASSUME NEW f \in S, NEW g \in S, number[f] = number[g] PROVE f = g
  <2>1. key[f] = key[g] /\ place(f) + 1 = place(g) + 1 /\ place(f) \in Int /\ place(g) \in Int
    <3>1. <<key[f], place(f) + 1>> = <<key[g], place(g) + 1>>
      BY <1>5
    <3> HIDE DEF place
    <3>2. QED
      BY <1>3, <3>1
  <2>2. f \in Group(key[f]) /\ g \in Group(key[f]) /\ f \in Int /\ g \in Int
    BY <2>1
  <2>3. /\ f < g => place(f) < place(g)
        /\ g < f => place(g) < place(f)
    <3> HIDE DEF Group
    <3>1. QED
      BY <1>1, <2>1, <2>2
  <2>4. place(f) = place(g)
    <3> HIDE DEF place
    <3>1. QED
      BY <2>1
  <2> HIDE DEF place, Group
  <2>5. QED
    BY <2>1, <2>2, <2>3, <2>4
<1>6. ASSUME NEW pair \in pairs PROVE \E f \in S : number[f] = pair
  <2>1. PICK k \in DOMAIN counts : pair \in {k} \X (1..counts[k])
    OBVIOUS
  <2>2. PICK n \in 1..counts[k] : pair = <<k, n>>
    BY <2>1
  <2>3. PICK f \in Group(k) : Cardinality({g \in Group(k) : g < f}) = n - 1
    <3>1. n \in 1..Cardinality(Group(k))
      BY <1>2
    <3> HIDE DEF Group
    <3>2. QED
      BY <1>1, <3>1
  <2>4. f \in S /\ key[f] = k
    BY <2>3
  <2>5. place(f) = n - 1 /\ n \in Int
    <3>1. n \in Int
      BY <1>2, <2>2
    <3> HIDE DEF Group
    <3>2. QED
      BY <2>3, <2>4, <3>1
  <2>6. number[f] = <<k, place(f) + 1>>
    BY <2>4
  <2> HIDE DEF place, number
  <2>7. QED
    BY <2>2, <2>4, <2>5, <2>6
<1>7. ExistsBijection(S, pairs)
  <2> HIDE DEF number, pairs
  <2>1. number \in Bijection(S, pairs)
    BY <1>4, <1>5, <1>6 DEF Bijection, Injection, Surjection, IsInjective
  <2>2. QED
    BY <2>1 DEF ExistsBijection
<1> HIDE DEF pairs
<1>8. Cardinality(pairs) = Cardinality(S)
  BY <1>7, FS_Bijection
<1>9. QED
  BY <1>8, SizesInLists DEF Lists!Sum, pairs

\* The summary counts each fund once.
LEMMA SummaryHolds ==
  ASSUME Lists!ConstantsAssumption, ListsInv, Lists!Answered, query.kind = "summary"
  PROVE  Lists!SummaryFits
<1>1. PICK p : Past(p)
  BY DEF ListsInv
<1>2. rewrites \in Nat /\ DOMAIN result = {"visibility"} /\ Funds \in SUBSET Int /\ IsFiniteSet(Funds)
  BY SizesInLists DEF ListsInv, Lists!TypeOK, Lists!Answered, Lists!Statements, Lists!ConstantsAssumption
<1>3. PICK i \in 0..rewrites : result["visibility"] \in Lists!Returns("visibility", query, p[i])
  BY <1>1, <1>2 DEF Past
<1> DEFINE counts == result.visibility
           values == {"visible", "quarantined", "blocked"}
           t == p[i]
           seen == [f \in Funds |-> t[f].visibility]
<1>4. counts = [v \in values |-> Lists!Cardinality({f \in Funds : t[f].visibility = v})]
  BY <1>3 DEF Lists!Returns, Lists!CountByCatalogVisibility
<1>5. \A f \in Funds : seen[f] \in values
  <2>1. t \in [Funds -> Contents]
    BY <1>1, <1>2 DEF Past
  <2> HIDE DEF t
  <2>2. ASSUME NEW f \in Funds PROVE t[f].visibility \in values
    <3>1. t[f] \in Lists!Row
      BY <2>1 DEF Lists!ConstantsAssumption
    <3>2. QED
      BY <3>1 DEF Lists!Row
  <2>3. QED
    BY <2>2
<1>6. counts = [v \in values |-> Cardinality({f \in Funds : seen[f] = v})]
  <2>1. \A v : {f \in Funds : seen[f] = v} = {f \in Funds : t[f].visibility = v}
    OBVIOUS
  <2> HIDE DEF seen, t, counts, values
  <2>2. QED
    BY <1>4, <2>1, SizesInLists
<1>7. DOMAIN counts = values
  BY <1>6
<1> HIDE DEF counts, seen, values
<1>8. Lists!Sum(counts) = Cardinality(Funds)
  BY <1>2, <1>5, <1>6, <1>7, Tally
<1>9. QED
  BY <1>8, SizesInLists DEF Lists!SummaryFits, counts

\* The funds with a theme of those that a request asks for, and those without.
Themed(q, t) == {f \in Lists!Matches(q, t) : t[f].theme # None}
Unthemed(q, t) == {f \in Lists!Matches(q, t) : t[f].theme = None}

LEMMA ThemesShareOut ==
  ASSUME Lists!ConstantsAssumption, NEW q, NEW t
  PROVE  /\ Themed(q, t) \in SUBSET Funds /\ IsFiniteSet(Themed(q, t)) /\ Unthemed(q, t) \in SUBSET Funds
         /\ Cardinality(Themed(q, t)) \in Nat /\ Cardinality(Unthemed(q, t)) \in Nat
         /\ Cardinality(Lists!Matches(q, t)) = Cardinality(Themed(q, t)) + Cardinality(Unthemed(q, t))
<1> DEFINE M == Lists!Matches(q, t)
<1>1. M \in SUBSET Funds /\ IsFiniteSet(M)
  BY MatchesAreFunds
<1> HIDE DEF M
<1>2. Themed(q, t) \in SUBSET M /\ Unthemed(q, t) = M \ Themed(q, t) /\ M \cap Themed(q, t) = Themed(q, t)
  BY DEF Themed, Unthemed, M
<1>3. IsFiniteSet(Themed(q, t)) /\ IsFiniteSet(Unthemed(q, t)) /\ Cardinality(M) \in Nat
  BY <1>1, <1>2, FS_Subset, FS_Difference, FS_CardinalityType
<1>4. Cardinality(Themed(q, t)) \in Nat /\ Cardinality(Unthemed(q, t)) \in Nat
  BY <1>3, FS_CardinalityType
<1>5. Cardinality(Unthemed(q, t)) = Cardinality(M) - Cardinality(Themed(q, t))
  BY <1>1, <1>2, FS_Difference
<1>6. Cardinality(M) = Cardinality(Themed(q, t)) + Cardinality(Unthemed(q, t))
  BY <1>3, <1>4, <1>5
<1>7. QED
  BY <1>1, <1>2, <1>3, <1>4, <1>6 DEF M

LEMMA ThemesDiffer ==
  ASSUME Lists!ConstantsAssumption, NEW q, NEW t, NEW u, NEW n \in Nat, Differ(t, u, n)
  PROVE  /\ NoFurther(Cardinality(Themed(q, t)), Cardinality(Themed(q, u)), n)
         /\ NoFurther(Cardinality(Unthemed(q, t)), Cardinality(Unthemed(q, u)), n)
<1>1. IsFiniteSet(Funds)
  BY SizesInLists DEF Lists!ConstantsAssumption
<1>2. \A f \in Funds : t[f] = u[f] => (f \in Themed(q, t) <=> f \in Themed(q, u))
                                      /\ (f \in Unthemed(q, t) <=> f \in Unthemed(q, u))
  BY DEF Lists!Matches, Themed, Unthemed
<1>3. /\ Themed(q, t) \in SUBSET Funds /\ Themed(q, u) \in SUBSET Funds
      /\ Unthemed(q, t) \in SUBSET Funds /\ Unthemed(q, u) \in SUBSET Funds
  BY ThemesShareOut
<1>4. QED
  BY <1>1, <1>2, <1>3, CountsDiffer

\* A facet counts the funds of its theme.
LEMMA FacetsCount ==
  ASSUME Lists!ConstantsAssumption, NEW q, NEW t, NEW theme \in DOMAIN Lists!Categories(q, t)
  PROVE  /\ theme # None
         /\ Lists!Categories(q, t)[theme].fundCount
              = Cardinality({f \in Themed(q, t) : t[f].theme = theme})
<1> DEFINE themes == {t[f].theme : f \in Themed(q, t)}
<1>1. /\ theme \in themes
      /\ Lists!Categories(q, t)[theme].fundCount = Lists!Cardinality({f \in Themed(q, t) : t[f].theme = theme})
  BY DEF Lists!Categories, Themed
<1>2. theme # None
  BY <1>1 DEF Themed
<1>3. QED
  BY <1>1, <1>2, SizesInLists

\* What the facets count adds up to the funds with a theme.
LEMMA FacetsAddUp ==
  ASSUME Lists!ConstantsAssumption, NEW q, NEW t
  PROVE  LET counts == Lists!Categories(q, t)
         IN  Lists!Sum([theme \in DOMAIN counts |-> counts[theme].fundCount]) = Cardinality(Themed(q, t))
<1> DEFINE counts == Lists!Categories(q, t)
           themed == Themed(q, t)
           themes == {t[f].theme : f \in themed}
           key == [f \in themed |-> t[f].theme]
           totals == [theme \in DOMAIN counts |-> counts[theme].fundCount]
<1>1. DOMAIN counts = themes
  BY DEF Lists!Categories, Themed
<1>2. \A theme : {f \in themed : key[f] = theme} = {f \in themed : t[f].theme = theme}
  OBVIOUS
<1>3. \A f \in themed : key[f] \in themes
  OBVIOUS
<1>4. themed \in SUBSET Int /\ IsFiniteSet(themed)
  BY ThemesShareOut DEF Lists!ConstantsAssumption
<1>5. \A theme \in DOMAIN counts : counts[theme].fundCount = Cardinality({f \in themed : t[f].theme = theme})
  BY FacetsCount
<1> HIDE DEF counts, themed, themes, key
<1>6. totals = [theme \in DOMAIN totals |-> Cardinality({f \in themed : key[f] = theme})] /\ DOMAIN totals = themes
  BY <1>1, <1>2, <1>5
<1> HIDE DEF totals
<1>7. Lists!Sum(totals) = Cardinality(themed)
  BY <1>3, <1>4, <1>6, Tally
<1>8. QED
  BY <1>7 DEF counts, themed, totals

\* The greatest score of a theme.
LEMMA FacetsTop ==
  ASSUME Lists!ConstantsAssumption, NEW q, NEW t \in [Funds -> Contents],
         NEW theme \in DOMAIN Lists!Categories(q, t),
         NEW f \in Themed(q, t), t[f].theme = theme, t[f].score # None
  PROVE  t[f].score <= Lists!Categories(q, t)[theme].topScore
<1> DEFINE Of == {g \in Themed(q, t) : t[g].theme = theme}
           theirs == {t[g].score : g \in Of} \ {None}
           scored == {g \in Of : t[g].score # None}
           scoreOf == [g \in scored |-> t[g].score]
<1>1. Lists!Categories(q, t)[theme].topScore = IF theirs = {} THEN None ELSE Lists!Max(theirs)
  BY DEF Lists!Categories, Themed
<1>2. f \in scored /\ t[f].score \in theirs
  OBVIOUS
<1>3. theirs \in SUBSET Int
  <2>1. ASSUME NEW g \in Funds PROVE t[g].score \in Int \cup {None}
    <3>1. t[g] \in Lists!Row
      BY <2>1 DEF Lists!ConstantsAssumption
    <3>2. QED
      BY <3>1 DEF Lists!Row, Lists!Figure
  <2>2. Themed(q, t) \in SUBSET Funds
    BY ThemesShareOut
  <2>3. QED
    BY <2>1, <2>2
<1>4. IsFiniteSet(theirs)
  <2>1. scored \in SUBSET Themed(q, t) /\ IsFiniteSet(Themed(q, t))
    BY ThemesShareOut
  <2>2. scoreOf \in Surjection(scored, theirs)
    <3>1. scoreOf \in [scored -> theirs] /\ \A value \in theirs : \E g \in scored : scoreOf[g] = value
      OBVIOUS
    <3>2. QED
      BY <3>1 DEF Surjection
  <2> HIDE DEF scored, theirs, scoreOf
  <2>3. IsFiniteSet(scored)
    BY <2>1, FS_Subset
  <2>4. QED
    BY <2>2, <2>3, FS_Surjection
<1> HIDE DEF theirs
<1>5. \E x \in theirs : \A y \in theirs : y <= x
  BY <1>2, <1>3, <1>4, FiniteSetsAreBounded
<1>6. Lists!Max(theirs) \in theirs /\ \A y \in theirs : Lists!Max(theirs) >= y
  <2>1. \E x \in theirs : \A y \in theirs : x >= y
    BY <1>3, <1>5
  <2>2. QED
    BY <2>1 DEF Lists!Max
<1>7. QED
  BY <1>1, <1>2, <1>3, <1>6

\* The total of the metrics is what the facets add up to, and the facets announce
\* the lists of their themes.
LEMMA MetricsHold ==
  ASSUME Lists!ConstantsAssumption, ListsInv, Lists!Answered, query.kind = "metrics"
  PROVE  Lists!MetricsFit
<1>1. PICK p : Past(p)
  BY DEF ListsInv
<1>2. /\ query \in Queries /\ asked \in [Funds -> Contents] /\ rewrites \in Nat
      /\ DOMAIN result = {"count", "categories"} /\ p[0] = asked /\ 0 \in 0..rewrites
  BY <1>1 DEF ListsInv, Lists!TypeOK, Lists!Answered, Lists!Statements, Lists!ConstantsAssumption, Past
<1>3. PICK i \in 0..rewrites : result.count = Cardinality(Lists!Matches(query, p[i]))
  <2>1. PICK i \in 0..rewrites : result["count"] \in Lists!Returns("count", query, p[i])
    BY <1>1, <1>2 DEF Past
  <2>2. QED
    BY <2>1, SizesInLists DEF Lists!Returns
<1>4. PICK j \in 0..rewrites : result.categories = Lists!Categories(query, p[j])
  <2>1. PICK j \in 0..rewrites : result["categories"] \in Lists!Returns("categories", query, p[j])
    BY <1>1, <1>2 DEF Past
  <2>2. QED
    BY <2>1 DEF Lists!Returns
<1> DEFINE counts == result.categories
           sum == Lists!Sum([theme \in DOMAIN counts |-> counts[theme].fundCount])
           A(k) == Cardinality(Themed(query, p[k]))
           B(k) == Cardinality(Unthemed(query, p[k]))
<1>5. sum = A(j) /\ result.count = A(i) + B(i)
  <2>1. sum = A(j)
    BY <1>4, FacetsAddUp
  <2>2. Cardinality(Lists!Matches(query, p[i])) = A(i) + B(i)
    BY ThemesShareOut
  <2>3. QED
    BY <1>3, <2>1, <2>2
<1>6. \A k \in 0..rewrites : A(k) \in Nat /\ B(k) \in Nat
  BY ThemesShareOut
<1>7. ASSUME NEW k \in 0..rewrites, NEW l \in 0..rewrites, k <= l
      PROVE  NoFurther(A(k), A(l), l - k) /\ NoFurther(B(k), B(l), l - k) /\ NoFurther(A(k) + B(k), A(l) + B(l), l - k)
  <2>1. l - k \in Nat /\ Differ(p[k], p[l], l - k)
    BY <1>1, <1>2, <1>7, PastDiffers
  <2>2. NoFurther(A(k), A(l), l - k) /\ NoFurther(B(k), B(l), l - k)
    BY <2>1, ThemesDiffer
  <2>3. NoFurther(Cardinality(Lists!Matches(query, p[k])), Cardinality(Lists!Matches(query, p[l])), l - k)
    BY <2>1, MatchesDiffer
  <2>4. /\ Cardinality(Lists!Matches(query, p[k])) = A(k) + B(k)
        /\ Cardinality(Lists!Matches(query, p[l])) = A(l) + B(l)
    BY ThemesShareOut
  <2> HIDE DEF A, B
  <2>5. QED
    BY <2>2, <2>3, <2>4
<1>8. Lists!Close(result.count, sum + B(0))
  <2> HIDE DEF A, B, sum
  <2>1. CASE i <= j
    <3>1. NoFurther(A(i), A(j), j - i) /\ NoFurther(B(0), B(i), i - 0)
      BY <1>2, <1>7, <2>1
    <3>2. (A(i) + B(i)) - (A(j) + B(0)) \in (-rewrites)..rewrites
      BY <1>2, <1>6, <2>1, <3>1 DEF NoFurther
    <3>3. QED
      BY <1>5, <3>2 DEF Lists!Close
  <2>2. CASE j <= i
    <3>1. NoFurther(A(j) + B(j), A(i) + B(i), i - j) /\ NoFurther(B(0), B(j), j - 0)
      BY <1>2, <1>7, <2>2
    <3>2. (A(i) + B(i)) - (A(j) + B(0)) \in (-rewrites)..rewrites
      BY <1>2, <1>6, <2>2, <3>1 DEF NoFurther
    <3>3. QED
      BY <1>5, <3>2 DEF Lists!Close
  <2>3. QED
    BY <2>1, <2>2
<1>9. Lists!Cardinality({f \in Lists!Matches(query, asked) : asked[f].theme = None}) = B(0)
  BY <1>2, SizesInLists DEF Unthemed
<1>10. ASSUME rewrites = 0, NEW theme \in DOMAIN counts
       PROVE  LET ListOf == {f \in Funds : asked[f].theme = theme /\ Lists!FundListWhere(query, asked[f])}
              IN  /\ counts[theme].fundCount = Lists!Cardinality(ListOf)
                  /\ \A f \in ListOf : asked[f].score # None => asked[f].score <= counts[theme].topScore
  <2> DEFINE ListOf == {f \in Funds : asked[f].theme = theme /\ Lists!FundListWhere(query, asked[f])}
  <2>1. counts = Lists!Categories(query, asked)
    BY <1>2, <1>4, <1>10
  <2>2. theme # None /\ counts[theme].fundCount = Cardinality({f \in Themed(query, asked) : asked[f].theme = theme})
    BY <1>10, <2>1, FacetsCount
  <2>3. \A f \in Funds : Lists!FundListWhere(query, asked[f]) <=> f \in Lists!Matches(query, asked)
    <3>1. query.riskProfile \in {"all", "low", "medium", "high"}
      BY <1>2 DEF Lists!ConstantsAssumption, Lists!QueryTyped
    <3>2. QED
      BY <3>1 DEF Lists!Matches, Lists!MetricsWhere, Lists!FundListWhere
  <2>4. ListOf = {f \in Themed(query, asked) : asked[f].theme = theme}
    <3>1. Lists!Matches(query, asked) \in SUBSET Funds
      BY MatchesAreFunds
    <3>2. QED
      BY <2>2, <2>3, <3>1 DEF Themed
  <2>5. \A f \in ListOf : asked[f].score # None => asked[f].score <= counts[theme].topScore
    BY <1>2, <1>10, <2>1, <2>4, FacetsTop
  <2> HIDE DEF ListOf, counts
  <2>6. counts[theme].fundCount = Lists!Cardinality(ListOf)
    BY <2>2, <2>4, SizesInLists
  <2>7. QED
    BY <2>5, <2>6 DEF ListOf
<1>11. QED
  BY <1>8, <1>9, <1>10 DEF Lists!MetricsFit

\* The funds of a group, and those that the rankings show of it.
GroupIn(q, t, key) == {f \in Lists!Eligible(q, t) : t[f].benchmark = key}
ShownOf(q, t, key) == {f \in Lists!RankedRows(q, t) : t[f].benchmark = key}

\* The funds that are ranked are public, and their scores are numbers.
LEMMA EligibleFunds ==
  ASSUME Lists!ConstantsAssumption, NEW q, NEW t \in [Funds -> Contents]
  PROVE  /\ Lists!Eligible(q, t) \in SUBSET Funds /\ IsFiniteSet(Lists!Eligible(q, t))
         /\ Cardinality(Lists!Eligible(q, t)) \in Nat
         /\ \A f \in Lists!Eligible(q, t) :
              f \in Int /\ t[f].score \in Int /\ t[f].benchmark # None /\ Lists!IsCatalogVisible(t[f])
<1> DEFINE E == Lists!Eligible(q, t)
<1>1. IsFiniteSet(Funds) /\ Funds \subseteq Int /\ E \in SUBSET Funds
  BY SizesInLists DEF Lists!ConstantsAssumption, Lists!Eligible
<1>2. ASSUME NEW f \in E
      PROVE  f \in Int /\ t[f].score \in Int /\ t[f].benchmark # None /\ Lists!IsCatalogVisible(t[f])
  <2>1. /\ t[f].visibility # "blocked" /\ t[f].isin
        /\ t[f].benchmark # None /\ t[f].score # None /\ t[f].ter # None
    BY DEF Lists!Eligible
  <2>2. t[f] \in Lists!Row
    BY <1>1 DEF Lists!ConstantsAssumption
  <2>3. t[f].score \in Int
    BY <2>1, <2>2 DEF Lists!Row, Lists!Figure
  <2>4. Lists!IsCatalogVisible(t[f])
    BY <2>1 DEF Lists!IsCatalogVisible
  <2> HIDE DEF E
  <2>5. QED
    BY <1>1, <2>1, <2>3, <2>4
<1> HIDE DEF E
<1>3. IsFiniteSet(E)
  BY <1>1, FS_Subset
<1>4. Cardinality(E) \in Nat
  BY <1>3, FS_CardinalityType
<1>5. QED
  BY <1>1, <1>2, <1>3, <1>4 DEF E

\* What the rankings show of a group is nothing, or as many of its first funds as
\* fit, and something when only its benchmark is asked for.
Cut(q, t, key) ==
  LET shown == ShownOf(q, t, key)
      group == GroupIn(q, t, key)
  IN  /\ Cardinality(shown) \in Nat /\ Cardinality(group) \in Nat /\ shown \subseteq group
      /\ Cardinality(shown) <= q.limit /\ Cardinality(shown) <= Cardinality(group)
      /\ shown # {} =>
           /\ Cardinality(shown) = IF Cardinality(group) <= q.limit THEN Cardinality(group) ELSE q.limit
           /\ \A f \in group \ shown, h \in shown : t[h].score >= t[f].score
      /\ (q.benchmark # None /\ group # {}) => shown # {}

LEMMA GroupsAreCut ==
  ASSUME Lists!ConstantsAssumption, NEW q \in Queries, NEW t \in [Funds -> Contents], NEW key
  PROVE  Cut(q, t, key)
<1> DEFINE E == Lists!Eligible(q, t)
           shown == ShownOf(q, t, key)
           group == GroupIn(q, t, key)
           limit == q.limit
           Sooner(g, f) == t[g].score > t[f].score \/ (t[g].score = t[f].score /\ g < f)
           R == {pair \in group \X group : Sooner(pair[1], pair[2])}
           few == {f \in group : RankIn(R, group, f) < limit}
           size == Cardinality(group)
<1>1. /\ group \in SUBSET E /\ E \in SUBSET Funds /\ IsFiniteSet(E)
      /\ \A f \in group : f \in Int /\ t[f].score \in Int
  <2>1. group \in SUBSET E
    BY DEF GroupIn
  <2> HIDE DEF group
  <2>2. QED
    BY <2>1, EligibleFunds
<1>2. limit \in Nat \ {0}
  BY PageStarts
<1>3. shown = {} \/ shown = few
  <2>1. \A f \in group : {g \in E : t[g].benchmark = t[f].benchmark /\ Sooner(g, f)}
                           = {g \in group : <<g, f>> \in R}
    BY DEF GroupIn
  <2>2. \A f \in group : RankIn(R, group, f)
                           = Lists!Cardinality({g \in E : t[g].benchmark = t[f].benchmark /\ Sooner(g, f)})
    <3> HIDE DEF R, group, E, Sooner
    <3>1. QED
      BY <2>1, SizesInLists DEF RankIn
  <2> DEFINE totals == Lists!GroupTotals(q, t)
             Larger(h, k) == totals[h] > totals[k] \/ (totals[h] = totals[k] /\ h < k)
             top == {k \in DOMAIN totals :
                       \/ q.benchmark # None
                       \/ Lists!Cardinality({h \in DOMAIN totals : Larger(h, k)}) < q.groupsLimit}
             Rival(f) == Lists!Cardinality({g \in E : t[g].benchmark = t[f].benchmark /\ Sooner(g, f)})
  <2>3. Lists!RankedRows(q, t) = {f \in E : t[f].benchmark \in top /\ Rival(f) < limit}
    BY DEF Lists!RankedRows
  <2>4. shown = {f \in group : key \in top /\ Rival(f) < limit}
    <3> HIDE DEF top, Rival, limit
    <3>1. QED
      BY <2>3 DEF ShownOf, GroupIn
  <2>5. few = {f \in group : Rival(f) < limit}
    <3> HIDE DEF group, R, limit
    <3>1. QED
      BY <2>2
  <2> HIDE DEF top, Rival, few, shown, group
  <2>6. QED
    BY <2>4, <2>5
<1>4. (q.benchmark # None /\ group # {}) => shown = few
  <2> DEFINE totals == Lists!GroupTotals(q, t)
  <2>1. ASSUME q.benchmark # None, group # {} PROVE shown = few
    <3>1. key \in DOMAIN totals
      BY <2>1 DEF Lists!GroupTotals, GroupIn
    <3>2. \A f \in group : {g \in E : t[g].benchmark = t[f].benchmark /\ Sooner(g, f)}
                             = {g \in group : <<g, f>> \in R}
      BY DEF GroupIn
    <3> DEFINE Rival(f) == Lists!Cardinality({g \in E : t[g].benchmark = t[f].benchmark /\ Sooner(g, f)})
    <3>3. \A f \in group : RankIn(R, group, f) = Rival(f)
      <4> HIDE DEF R, group, E, Sooner
      <4>1. QED
        BY <3>2, SizesInLists DEF RankIn
    <3>4. \A f \in E : f \in Lists!RankedRows(q, t) <=> t[f].benchmark \in DOMAIN totals /\ Rival(f) < limit
      BY <2>1 DEF Lists!RankedRows
    <3>5. Lists!RankedRows(q, t) \in SUBSET E
      BY DEF Lists!RankedRows
    <3> HIDE DEF Rival, totals, limit
    <3>6. shown = {f \in group : Rival(f) < limit}
      BY <3>1, <3>4, <3>5 DEF ShownOf, GroupIn
    <3> HIDE DEF group, R
    <3>7. QED
      BY <3>3, <3>6
  <2>2. QED
    BY <2>1
<1>5. IsFiniteSet(group) /\ size \in Nat
  <2> HIDE DEF group
  <2>1. IsFiniteSet(group)
    BY <1>1, FS_Subset
  <2>2. QED
    BY <2>1, FS_CardinalityType
<1>6. OrderOf(R, group)
  <2>1. \A x, y \in group : <<x, y>> \in R <=> Sooner(x, y)
    OBVIOUS
  <2>2. \A x \in group : x \in Int /\ t[x].score \in Int
    BY <1>1
  <2>3. /\ \A x \in group : ~ Sooner(x, x)
        /\ \A x, y \in group : x = y \/ Sooner(x, y) \/ Sooner(y, x)
        /\ \A x, y, z \in group : (Sooner(x, y) /\ Sooner(y, z)) => Sooner(x, z)
    <3> HIDE DEF group
    <3>1. QED
      BY <2>2
  <2> HIDE DEF R, Sooner, group
  <2>4. QED
    BY <2>1, <2>3 DEF OrderOf
<1> HIDE DEF R, group, E, shown
<1>7. Cardinality(few) = (IF size <= limit THEN size ELSE limit) /\ IsFiniteSet(few)
  BY <1>2, <1>5, <1>6, FirstFew
<1>8. \A f \in group \ few, h \in few : t[h].score >= t[f].score
  <2>1. ASSUME NEW f \in group \ few, NEW h \in few PROVE t[h].score >= t[f].score
    <3>1. /\ RankIn(R, group, f) \in Int /\ RankIn(R, group, h) \in Int
          /\ <<f, h>> \in R => RankIn(R, group, f) < RankIn(R, group, h)
      <4>1. Ranked(R, group) /\ f \in group /\ h \in group
        BY <1>5, <1>6, RanksArePlaces
      <4>2. QED
        BY <4>1 DEF Ranked
    <3>2. <<f, h>> \notin R
      BY <1>2, <3>1
    <3>3. ~ Sooner(f, h)
      BY <3>2 DEF R
    <3>4. QED
      BY <1>1, <3>3
  <2>2. QED
    BY <2>1
<1>9. few \in SUBSET group /\ (group # {} => few # {})
  <2>1. few \in SUBSET group
    OBVIOUS
  <2>2. group # {} => size # 0
    BY <1>5, FS_EmptySet
  <2>3. few = {} => Cardinality(few) = 0
    BY FS_EmptySet
  <2> HIDE DEF few, size, limit
  <2>4. QED
    BY <1>2, <1>5, <1>7, <2>1, <2>2, <2>3
<1>10. Cardinality({}) = 0
  BY FS_EmptySet
<1> HIDE DEF few
<1>11. /\ Cardinality(shown) \in Nat /\ shown \in SUBSET group
       /\ Cardinality(shown) <= limit /\ Cardinality(shown) <= size
       /\ shown # {} => Cardinality(shown) = IF size <= limit THEN size ELSE limit
  <2> HIDE DEF size, limit
  <2>1. QED
    BY <1>2, <1>3, <1>5, <1>7, <1>9, <1>10
<1>12. shown # {} => \A f \in group \ shown, h \in shown : t[h].score >= t[f].score
  BY <1>3, <1>8
<1>13. (q.benchmark # None /\ group # {}) => shown # {}
  BY <1>4, <1>9
<1>14. QED
  BY <1>5, <1>11, <1>12, <1>13 DEF Cut, shown, group

\* What two statements of a request count differs by what was written meanwhile.
LEMMA PastCounts ==
  ASSUME Lists!ConstantsAssumption, NEW p, Past(p), rewrites \in Nat,
         NEW i \in 0..rewrites, NEW j \in 0..rewrites,
         NEW S \in SUBSET Funds, NEW T \in SUBSET Funds,
         \A f \in Funds : p[i][f] = p[j][f] => (f \in S <=> f \in T)
  PROVE  NoFurther(Cardinality(S), Cardinality(T), rewrites)
<1> DEFINE a == Cardinality(S)
           b == Cardinality(T)
<1>1. IsFiniteSet(Funds)
  BY SizesInLists DEF Lists!ConstantsAssumption
<1>2. CASE i <= j
  <2>1. j - i \in Nat /\ j - i <= rewrites /\ Differ(p[i], p[j], j - i)
    BY <1>2, PastDiffers
  <2>2. a \in Nat /\ b \in Nat /\ NoFurther(a, b, j - i)
    BY <1>1, <2>1, CountsDiffer
  <2> HIDE DEF a, b
  <2>3. NoFurther(a, b, rewrites)
    BY <2>1, <2>2 DEF NoFurther
  <2>4. QED
    BY <2>3 DEF a, b
<1>3. CASE j <= i
  <2>1. i - j \in Nat /\ i - j <= rewrites /\ Differ(p[j], p[i], i - j)
    BY <1>3, PastDiffers
  <2>2. a \in Nat /\ b \in Nat /\ NoFurther(b, a, i - j)
    BY <1>1, <2>1, CountsDiffer
  <2> HIDE DEF a, b
  <2>3. NoFurther(a, b, rewrites)
    BY <2>1, <2>2 DEF NoFurther
  <2>4. QED
    BY <2>3 DEF a, b
<1>4. QED
  BY <1>2, <1>3

\* The totals of the groups count their funds, and add up to those that are ranked.
LEMMA TotalsAddUp ==
  ASSUME Lists!ConstantsAssumption, NEW q, NEW t \in [Funds -> Contents]
  PROVE  /\ DOMAIN Lists!GroupTotals(q, t) = {t[f].benchmark : f \in Lists!Eligible(q, t)}
         /\ \A key \in DOMAIN Lists!GroupTotals(q, t) :
              Lists!GroupTotals(q, t)[key] = Cardinality(GroupIn(q, t, key))
         /\ Lists!Sum(Lists!GroupTotals(q, t)) = Cardinality(Lists!Eligible(q, t))
<1> DEFINE E == Lists!Eligible(q, t)
           totals == Lists!GroupTotals(q, t)
           bench == [f \in E |-> t[f].benchmark]
           keys == {t[f].benchmark : f \in E}
<1>1. totals = [key \in keys |-> Lists!Cardinality({f \in E : t[f].benchmark = key})]
  BY DEF Lists!GroupTotals
<1>2. \A key : GroupIn(q, t, key) = {f \in E : bench[f] = key}
               /\ {f \in E : t[f].benchmark = key} = {f \in E : bench[f] = key}
  BY DEF GroupIn
<1>3. (\A f \in E : bench[f] \in keys) /\ E \in SUBSET Int /\ IsFiniteSet(E)
  <2>1. \A f \in E : bench[f] \in keys
    OBVIOUS
  <2>2. E \in SUBSET Int /\ IsFiniteSet(E)
    <3> HIDE DEF E
    <3>1. IsFiniteSet(E) /\ \A f \in E : f \in Int
      BY EligibleFunds DEF E
    <3>2. QED
      BY <3>1
  <2> HIDE DEF E, bench, keys
  <2>3. QED
    BY <2>1, <2>2
<1> HIDE DEF E, totals, bench, keys
<1>4. DOMAIN totals = keys
  BY <1>1
<1>5. \A key \in keys : totals[key] = Cardinality(GroupIn(q, t, key))
  BY <1>1, <1>2, SizesInLists
<1>6. totals = [key \in DOMAIN totals |-> Cardinality({f \in E : bench[f] = key})]
  BY <1>1, <1>2, SizesInLists
<1>7. Lists!Sum(totals) = Cardinality(E)
  BY <1>3, <1>4, <1>6, Tally
<1>8. QED
  BY <1>4, <1>5, <1>7 DEF E, totals, keys

\* The rankings that are shown, of the lines of one table and the totals of another.
Shelf(q, t, u, key) ==
  [key |-> key, funds |-> ShownOf(q, t, key),
   total |-> IF key \in DOMAIN Lists!GroupTotals(q, u) THEN Lists!GroupTotals(q, u)[key]
             ELSE Cardinality(ShownOf(q, t, key))]

LEMMA GroupsAreShelves ==
  ASSUME Lists!ConstantsAssumption, NEW q \in Queries, NEW t \in [Funds -> Contents], NEW u,
         result.rows = [f \in Lists!RankedRows(q, t) |-> t[f]],
         result.totals = Lists!GroupTotals(q, u)
  PROVE  /\ \A g \in Lists!RankingGroups :
              /\ ShownOf(q, t, g.key) # {} /\ g.funds = ShownOf(q, t, g.key)
              /\ g = Shelf(q, t, u, g.key)
         /\ \A key : ShownOf(q, t, key) # {} =>
              Shelf(q, t, u, key) \in Lists!RankingGroups /\ Shelf(q, t, u, key).key = key
<1> DEFINE lines == result.rows
           ranked == Lists!RankedRows(q, t)
           funds == {f \in DOMAIN lines : Lists!IsCatalogVisible(lines[f])}
           Of(key) == {f \in funds : lines[f].benchmark = key}
           totals == result.totals
<1>1. DOMAIN lines = ranked /\ (\A f \in ranked : lines[f] = t[f])
  OBVIOUS
<1>2. funds = ranked
  <2>1. \A f \in ranked : f \in Lists!Eligible(q, t)
    BY DEF Lists!RankedRows
  <2>2. \A f \in ranked : Lists!IsCatalogVisible(t[f])
    BY <2>1, EligibleFunds
  <2> HIDE DEF ranked, lines
  <2>3. QED
    BY <1>1, <2>2
<1>3. \A key : Of(key) = ShownOf(q, t, key)
  <2> HIDE DEF funds, lines
  <2>1. QED
    BY <1>1, <1>2 DEF ShownOf
<1> DEFINE Group(key) == [key |-> key, funds |-> Of(key),
                          total |-> IF key \in DOMAIN totals THEN totals[key] ELSE Lists!Cardinality(Of(key))]
<1>4. Lists!RankingGroups = {Group(key) : key \in {lines[f].benchmark : f \in funds}}
  BY DEF Lists!RankingGroups
<1>5. \A key : Group(key) = Shelf(q, t, u, key)
  <2> HIDE DEF Of
  <2>1. QED
    BY <1>3, SizesInLists DEF Shelf
<1> HIDE DEF Group
<1>6. Lists!RankingGroups = {Shelf(q, t, u, key) : key \in {lines[f].benchmark : f \in funds}}
  BY <1>4, <1>5
<1>7. \A key : key \in {lines[f].benchmark : f \in funds} <=> ShownOf(q, t, key) # {}
  <2> HIDE DEF funds, lines
  <2>1. QED
    BY <1>1, <1>2 DEF ShownOf
<1>8. \A key : Shelf(q, t, u, key).key = key /\ Shelf(q, t, u, key).funds = ShownOf(q, t, key)
  BY DEF Shelf
<1> HIDE DEF funds, lines
<1>9. QED
  BY <1>6, <1>7, <1>8

\* There are as many groups as keys, and more than are shown when a key is not.
LEMMA MoreGroups ==
  ASSUME Lists!ConstantsAssumption, NEW q \in Queries, NEW t \in [Funds -> Contents],
         result.rows = [f \in Lists!RankedRows(q, t) |-> t[f]],
         result.totals = Lists!GroupTotals(q, t)
  PROVE  LET keys == {t[f].benchmark : f \in Lists!Eligible(q, t)}
         IN  (q.benchmark = None /\ Lists!Cardinality(DOMAIN result.totals) > Lists!Cardinality(Lists!RankingGroups))
               <=> keys # {g.key : g \in Lists!RankingGroups}
<1> DEFINE E == Lists!Eligible(q, t)
           keys == {t[f].benchmark : f \in E}
           groups == Lists!RankingGroups
           known == {g.key : g \in groups}
           bench == [f \in E |-> t[f].benchmark]
           name == [g \in groups |-> g.key]
<1>1. DOMAIN result.totals = keys
  BY TotalsAddUp
<1>2. IsFiniteSet(keys) /\ Cardinality(keys) \in Nat
  <2>1. bench \in Surjection(E, keys)
    <3>1. bench \in [E -> keys] /\ \A k \in keys : \E f \in E : bench[f] = k
      OBVIOUS
    <3>2. QED
      BY <3>1 DEF Surjection
  <2>2. IsFiniteSet(E)
    BY EligibleFunds
  <2> HIDE DEF bench, E, keys
  <2>3. IsFiniteSet(keys)
    BY <2>1, <2>2, FS_Surjection
  <2>4. QED
    BY <2>3, FS_CardinalityType
<1>3. \A g \in groups : ShownOf(q, t, g.key) # {} /\ g = Shelf(q, t, t, g.key)
  BY GroupsAreShelves
<1>4. \A key : ShownOf(q, t, key) # {} => key \in known
  <2>1. \A key : ShownOf(q, t, key) # {} => Shelf(q, t, t, key) \in groups /\ Shelf(q, t, t, key).key = key
    BY GroupsAreShelves
  <2> HIDE DEF groups
  <2>2. QED
    BY <2>1
<1>5. \A key : key \in keys <=> GroupIn(q, t, key) # {}
  BY DEF GroupIn
<1>6. \A key : /\ ShownOf(q, t, key) \subseteq GroupIn(q, t, key)
               /\ (q.benchmark # None /\ GroupIn(q, t, key) # {}) => ShownOf(q, t, key) # {}
  <2>1. \A key : Cut(q, t, key)
    BY GroupsAreCut
  <2>2. QED
    BY <2>1 DEF Cut
<1>7. known \in SUBSET keys
  <2> HIDE DEF groups, keys
  <2>1. QED
    BY <1>3, <1>5, <1>6
<1>8. IsFiniteSet(known) /\ Cardinality(known) \in Nat /\ Cardinality(groups) = Cardinality(known)
  <2>1. name \in Bijection(groups, known)
    <3>1. name \in [groups -> known] /\ \A k \in known : \E g \in groups : name[g] = k
      <4> HIDE DEF groups
      <4>1. QED
        OBVIOUS
    <3>2. \A g, h \in groups : name[g] = name[h] => g = h
      <4> HIDE DEF groups
      <4>1. QED
        BY <1>3
    <3>3. QED
      BY <3>1, <3>2 DEF Bijection, Injection, Surjection, IsInjective
  <2> HIDE DEF name, groups, known, keys
  <2>2. IsFiniteSet(known)
    BY <1>2, <1>7, FS_Subset
  <2>3. IsFiniteSet(groups) /\ Cardinality(groups) <= Cardinality(known)
    BY <2>1, <2>2, FS_Injection DEF Bijection
  <2>4. ExistsBijection(groups, known)
    BY <2>1 DEF ExistsBijection
  <2>5. Cardinality(groups) = Cardinality(known)
    BY <2>3, <2>4, FS_Bijection
  <2>6. QED
    BY <2>2, <2>5, FS_CardinalityType
<1>9. Cardinality(known) <= Cardinality(keys) /\ (Cardinality(known) = Cardinality(keys) <=> known = keys)
  <2> HIDE DEF known, keys
  <2>1. QED
    BY <1>2, <1>7, FS_Subset
<1>10. q.benchmark # None => known = keys
  <2> HIDE DEF known, keys
  <2>1. QED
    BY <1>4, <1>5, <1>6, <1>7
<1>11. (q.benchmark = None /\ Cardinality(keys) > Cardinality(groups)) <=> keys # known
  <2> HIDE DEF known, keys, groups
  <2>1. QED
    BY <1>2, <1>8, <1>9, <1>10
<1>12. QED
  BY <1>1, <1>11, SizesInLists

\* The rankings announce what there is, but for what is written meanwhile.
LEMMA RankingsHold ==
  ASSUME Lists!ConstantsAssumption, ListsInv, Lists!Answered, query.kind = "rankings"
  PROVE  Lists!RankingsFit
<1>1. PICK p : Past(p)
  BY DEF ListsInv
<1>2. /\ query \in Queries /\ asked \in [Funds -> Contents] /\ rewrites \in Nat
      /\ DOMAIN result = {"rows", "totals", "eligible"} /\ p[0] = asked
      /\ \A i \in 0..rewrites : p[i] \in [Funds -> Contents]
  BY <1>1 DEF ListsInv, Lists!TypeOK, Lists!Answered, Lists!Statements, Lists!ConstantsAssumption, Past
<1>3. PICK i \in 0..rewrites : result.rows = [f \in Lists!RankedRows(query, p[i]) |-> p[i][f]]
  <2>1. PICK i \in 0..rewrites : result["rows"] \in Lists!Returns("rows", query, p[i])
    BY <1>1, <1>2 DEF Past
  <2>2. QED
    BY <2>1 DEF Lists!Returns
<1>4. PICK j \in 0..rewrites : result.totals = Lists!GroupTotals(query, p[j])
  <2>1. PICK j \in 0..rewrites : result["totals"] \in Lists!Returns("totals", query, p[j])
    BY <1>1, <1>2 DEF Past
  <2>2. QED
    BY <2>1 DEF Lists!Returns
<1>5. PICK k \in 0..rewrites : result.eligible = Cardinality(Lists!Eligible(query, p[k]))
  <2>1. PICK k \in 0..rewrites : result["eligible"] \in Lists!Returns("eligible", query, p[k])
    BY <1>1, <1>2 DEF Past
  <2>2. QED
    BY <2>1, SizesInLists DEF Lists!Returns
<1> DEFINE t == p[i]
           u == p[j]
           limit == query.limit
           groups == Lists!RankingGroups
<1>6. t \in [Funds -> Contents] /\ u \in [Funds -> Contents] /\ limit \in Nat \ {0}
  BY <1>2, PageStarts
<1>7. \A g \in groups : /\ ShownOf(query, t, g.key) # {} /\ g.funds = ShownOf(query, t, g.key)
                        /\ g = Shelf(query, t, u, g.key)
  BY <1>2, <1>3, <1>4, <1>6, GroupsAreShelves
<1>8. \A key : Cut(query, t, key)
  BY <1>2, <1>6, GroupsAreCut
<1>9. \A key \in DOMAIN Lists!GroupTotals(query, u) :
        Lists!GroupTotals(query, u)[key] = Cardinality(GroupIn(query, u, key))
  BY <1>6, TotalsAddUp
<1>10. ASSUME NEW g \in groups
       PROVE  Lists!Cardinality(g.funds) <= limit /\ g.total >= Lists!Cardinality(g.funds) - rewrites
  <2> DEFINE key == g.key
             shown == Cardinality(ShownOf(query, t, key))
             group == Cardinality(GroupIn(query, t, key))
             total == Cardinality(GroupIn(query, u, key))
  <2>1. shown \in Nat /\ group \in Nat /\ shown <= limit /\ shown <= group
    BY <1>8 DEF Cut
  <2>2. total \in Nat /\ NoFurther(group, total, rewrites)
    <3>1. GroupIn(query, t, key) \in SUBSET Funds /\ GroupIn(query, u, key) \in SUBSET Funds
      BY <1>6, EligibleFunds DEF GroupIn
    <3>2. \A f \in Funds : t[f] = u[f] => (f \in GroupIn(query, t, key) <=> f \in GroupIn(query, u, key))
      BY DEF GroupIn, Lists!Eligible
    <3>3. Cut(query, u, key)
      BY <1>2, <1>6, GroupsAreCut
    <3>4. total \in Nat
      BY <3>3 DEF Cut
    <3> HIDE DEF key
    <3>5. QED
      BY <1>1, <1>2, <3>1, <3>2, <3>4, PastCounts
  <2>3. Lists!Cardinality(g.funds) = shown
    BY <1>7, SizesInLists
  <2>4. g.total = total \/ g.total = shown
    BY <1>7, <1>9 DEF Shelf
  <2> HIDE DEF shown, group, total
  <2>5. QED
    BY <1>2, <1>6, <2>1, <2>2, <2>3, <2>4 DEF NoFurther
<1>11. Lists!Close(result.eligible, Lists!Sum(result.totals))
  <2> DEFINE a == Cardinality(Lists!Eligible(query, p[k]))
             b == Cardinality(Lists!Eligible(query, u))
  <2>1. Lists!Sum(result.totals) = b
    BY <1>4, <1>6, TotalsAddUp
  <2>2. a \in Nat /\ b \in Nat
    BY <1>2, <1>6, EligibleFunds
  <2>3. NoFurther(a, b, rewrites)
    <3>1. Lists!Eligible(query, p[k]) \in SUBSET Funds /\ Lists!Eligible(query, u) \in SUBSET Funds
      BY DEF Lists!Eligible
    <3>2. \A f \in Funds : p[k][f] = u[f] => (f \in Lists!Eligible(query, p[k]) <=> f \in Lists!Eligible(query, u))
      BY DEF Lists!Eligible
    <3>3. QED
      BY <1>1, <1>2, <3>1, <3>2, PastCounts
  <2>4. result.eligible = a
    BY <1>5
  <2> HIDE DEF a, b
  <2>5. a - b \in (-rewrites)..rewrites
    BY <1>2, <2>2, <2>3 DEF NoFurther
  <2>6. QED
    BY <2>1, <2>4, <2>5 DEF Lists!Close
<1> DEFINE E == Lists!Eligible(query, asked)
           shown == UNION {g.funds : g \in groups}
           keys == {asked[f].benchmark : f \in E}
<1>12. ASSUME rewrites = 0
       PROVE  /\ \A f \in E : Lists!IsCatalogVisible(asked[f])
              /\ Lists!HasMoreGroups <=> keys # {g.key : g \in groups}
              /\ \A g \in groups : Lists!Cardinality(g.funds) = Lists!Min({limit, g.total})
              /\ \A f \in E \ shown : \A g \in groups :
                   asked[f].benchmark = g.key => \A h \in g.funds : asked[h].score >= asked[f].score
  <2>1. t = asked /\ u = asked
    BY <1>2, <1>12
  <2>2. \A f \in E : Lists!IsCatalogVisible(asked[f])
    BY <1>2, EligibleFunds
  <2>3. Lists!HasMoreGroups <=> keys # {g.key : g \in groups}
    <3>1. /\ result.rows = [f \in Lists!RankedRows(query, asked) |-> asked[f]]
          /\ result.totals = Lists!GroupTotals(query, asked)
      BY <1>3, <1>4, <2>1
    <3>2. (query.benchmark = None /\ Lists!Cardinality(DOMAIN result.totals) > Lists!Cardinality(Lists!RankingGroups))
            <=> keys # {g.key : g \in Lists!RankingGroups}
      BY <1>2, <3>1, MoreGroups
    <3>3. QED
      BY <3>2 DEF Lists!HasMoreGroups
  <2>4. ASSUME NEW g \in groups PROVE Lists!Cardinality(g.funds) = Lists!Min({limit, g.total})
    <3> DEFINE key == g.key
               size == Cardinality(GroupIn(query, asked, key))
    <3>1. ShownOf(query, asked, key) # {} /\ g.funds = ShownOf(query, asked, key)
          /\ g = Shelf(query, asked, asked, key)
      BY <1>7, <2>1
    <3>2. Cut(query, asked, key)
      BY <1>8, <2>1
    <3>3. size \in Nat /\ Cardinality(g.funds) = IF size <= limit THEN size ELSE limit
      BY <3>1, <3>2 DEF Cut
    <3>4. g.total = size
      <4>1. key \in DOMAIN Lists!GroupTotals(query, asked)
        <5>1. GroupIn(query, asked, key) # {}
          BY <3>1, <3>2 DEF Cut
        <5>2. DOMAIN Lists!GroupTotals(query, asked) = keys
          BY <1>2, TotalsAddUp
        <5>3. QED
          BY <5>1, <5>2 DEF GroupIn
      <4>2. g.total = Lists!GroupTotals(query, asked)[key]
        BY <3>1, <4>1 DEF Shelf
      <4>3. QED
        BY <1>9, <2>1, <4>1, <4>2
    <3> HIDE DEF size, limit
    <3>5. Lists!Min({limit, size}) = IF limit <= size THEN limit ELSE size
      BY <1>6, <3>3, LesserAndGreater
    <3>6. Lists!Cardinality(g.funds) = Lists!Min({limit, size})
      BY <1>6, <3>3, <3>5, SizesInLists
    <3>7. QED
      BY <3>4, <3>6 DEF limit
  <2>5. ASSUME NEW f \in E \ shown, NEW g \in groups, asked[f].benchmark = g.key, NEW h \in g.funds
        PROVE  asked[h].score >= asked[f].score
    <3>1. ShownOf(query, asked, g.key) # {} /\ g.funds = ShownOf(query, asked, g.key)
      BY <1>7, <2>1
    <3>2. Cut(query, asked, g.key)
      BY <1>8, <2>1
    <3>3. f \in GroupIn(query, asked, g.key) \ ShownOf(query, asked, g.key)
      BY <2>5, <3>1 DEF GroupIn
    <3>4. h \in ShownOf(query, asked, g.key)
      BY <2>5, <3>1
    <3>5. QED
      BY <3>1, <3>2, <3>3, <3>4 DEF Cut
  <2> HIDE DEF E, shown, groups, keys, limit
  <2>6. QED
    BY <2>2, <2>3, <2>4, <2>5
<1>13. QED
  BY <1>10, <1>11, <1>12 DEF Lists!RankingsFit

LEMMA ListsInvariance == ASSUME Lists!ConstantsAssumption PROVE Lists!Spec => []ListsInv
<1>1. Lists!Init => ListsInv
  BY ListsInitially
<1>2. ListsInv /\ [Lists!Next]_Lists!vars => ListsInv'
  <2>1. ASSUME ListsInv, Lists!Next PROVE ListsInv'
    BY <2>1, ListsStep
  <2>2. ASSUME ListsInv, UNCHANGED Lists!vars PROVE ListsInv'
    BY <2>2, ListsRest
  <2>3. QED
    BY <2>1, <2>2
<1>3. QED
  BY <1>1, <1>2, PTL DEF Lists!Spec

\* The table keeps its type, a request is one of those there are, and only its own
\* statements return anything.
THEOREM ListsTypeSafe == ASSUME Lists!ConstantsAssumption PROVE Lists!Spec => []Lists!TypeOK
<1>1. ListsInv => Lists!TypeOK
  BY DEF ListsInv
<1>2. QED
  BY <1>1, ListsInvariance, PTL

\* However many lines are written while a list, the metrics, the rankings or the
\* summary are read, the answer adds up but for what was written, and exactly when
\* nothing was.
THEOREM AnswersAddUpHolds == ASSUME Lists!ConstantsAssumption PROVE Lists!Spec => []Lists!AnswersAddUp
<1>1. ListsInv => Lists!AnswersAddUp
  BY ListHolds, MetricsHold, RankingsHold, SummaryHolds DEF Lists!AnswersAddUp
<1>2. QED
  BY <1>1, ListsInvariance, PTL

=============================================================================
