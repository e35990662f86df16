---------------------------- MODULE FundCatalog ----------------------------
(***************************************************************************)
(* The funds table and everyone who writes the columns the public catalog  *)
(* and the product team depend on: catalogVisibility, the metadata the     *)
(* automatic visibility rules look at, and the editorial themeLabel.       *)
(*                                                                         *)
(* Each operation of the API process (metadata sync, score recalculation,  *)
(* admin PATCHes) and of the CLIs (visibility reconcile, benchmark and     *)
(* theme backfill) is a job a worker runs. A job reads rows, awaits, and   *)
(* writes later what it decided from the rows it had read; PostgreSQL runs *)
(* each statement atomically and each transaction at READ COMMITTED.       *)
(***************************************************************************)
EXTENDS Naturals, Sequences

CONSTANTS
  Funds,      \* fund ids
  Workers,    \* concurrently running operations (requests, cron, CLIs)
  NoRow,      \* rows[f] before the fund's first synchronisation
  MaxJobs,    \* bound: jobs other than score recalculations
  MaxFaults   \* bound: operations cut short by an error or a crash

VARIABLES
  rows,       \* rows[f]: the row of fund f, or NoRow
  audits,     \* audits[f]: fund_catalog_visibility_audits of f, oldest first
  jobs,       \* jobs[w]: what worker w is doing and what it has read
  started,    \* number of bounded jobs started
  faults      \* number of jobs cut short

vars == <<rows, audits, jobs, started, faults>>

ASSUME BoundsAssumption == MaxJobs \in Nat /\ MaxFaults \in Nat

Visibility == {"visible", "quarantined", "blocked"}
Label      == {"empty", "auto", "curated"}

\* benchmark: the benchmark column is set. rest: isin, ter and name are.
Row == [visibility : Visibility, benchmark : BOOLEAN, rest : BOOLEAN,
        label : Label]

ASSUME NoRowAssumption == NoRow \notin Row

Actor      == {"system", "admin"}
AuditEntry == [previous : Visibility, new : Visibility, actor : Actor]

Automatic == {"sync", "recalculate", "reconcile", "benchmark"}
Manual    == {"admin", "editorial"}
Op        == Automatic \cup Manual \cup {"theme", "none"}
Pc        == {"idle", "write", "reload", "decide", "txRead", "txWrite"}

\* todo: the funds the job has yet to visit. seen, since: the row the job has
\* read of a fund, and how long the fund's audit trail was then (a history
\* field no action reads). want, previous: the visibility to be written and
\* the one the transaction has read.
Job == [op : Op, pc : Pc, todo : SUBSET Funds, seen : [Funds -> Row \cup {NoRow}],
        since : [Funds -> Nat], want : Visibility, previous : Visibility]

IdleJob == [op |-> "none", pc |-> "idle", todo |-> {},
            seen |-> [f \in Funds |-> NoRow], since |-> [f \in Funds |-> 0],
            want |-> "visible", previous |-> "visible"]

Existing == {f \in Funds : rows[f] # NoRow}

\* The fund a job's loop is at: the loops follow a fixed order of the funds
\* (findAll sorts them by symbol), and nothing depends on which one it is.
Current(w) == CHOOSE f \in jobs[w].todo : TRUE

CatalogDataComplete(row) == row.benchmark /\ row.rest

\* Defective variant: the blocked state is not looked at.
ResolveIgnoringBlocked(row) ==
  IF CatalogDataComplete(row) THEN "visible" ELSE "quarantined"

\* Defective variant: a quarantined fund waits for an operator.
ResolveKeepingQuarantine(row) ==
  IF row.visibility # "visible" THEN row.visibility
  ELSE IF CatalogDataComplete(row) THEN "visible" ELSE "quarantined"

ResolveAutomaticVisibility(row) ==
  IF row.visibility = "blocked" THEN "blocked"
  ELSE IF CatalogDataComplete(row) THEN "visible" ELSE "quarantined"

TypeOK ==
  /\ rows \in [Funds -> Row \cup {NoRow}]
  /\ audits \in [Funds -> Seq(AuditEntry)]
  /\ jobs \in [Workers -> Job]
  /\ started \in Nat
  /\ faults \in Nat

\* The rows the migrations leave: a fund that misses data is quarantined, some
\* labels are curated, and nothing is audited.
Migrated ==
  {row \in Row :
     /\ row.visibility # "blocked"
     /\ row.visibility = "visible" => CatalogDataComplete(row)
     /\ row.label # "auto"}

Init ==
  /\ rows \in [Funds -> {NoRow} \cup Migrated]
  /\ audits = [f \in Funds |-> <<>>]
  /\ jobs = [w \in Workers |-> IdleJob]
  /\ started = 0
  /\ faults = 0

-----------------------------------------------------------------------------
(* The steps jobs share. *)

\* A new job over the funds in todo, which keeps the rows it has read of the
\* funds in kept.
NewJob(op, pc, todo, kept) ==
  [IdleJob EXCEPT !.op = op, !.pc = pc, !.todo = todo,
     !.seen = [f \in Funds |-> IF f \in kept THEN rows[f] ELSE NoRow],
     !.since = [f \in Funds |-> IF f \in kept THEN Len(audits[f]) ELSE 0]]

Begin(w, op, pc, todo, kept) ==
  /\ jobs[w].pc = "idle"
  /\ jobs' = [jobs EXCEPT ![w] = NewJob(op, pc, todo, kept)]
  /\ UNCHANGED <<rows, audits, faults>>

\* A job other than a recalculation, over rows it has read.
BeginBounded(w, op, pc, todo) ==
  /\ started < MaxJobs
  /\ started' = started + 1
  /\ Begin(w, op, pc, todo, todo)

\* Where the loop of a job takes up the next fund.
LoopPc(op) == IF op = "reconcile" THEN "decide" ELSE "write"

\* The job after its current fund: the next fund, or done.
Advanced(w) ==
  LET left == jobs[w].todo \ {Current(w)}
  IN  IF left = {} THEN IdleJob
      ELSE [jobs[w] EXCEPT !.todo = left, !.pc = LoopPc(jobs[w].op),
                           !.seen[Current(w)] = NoRow, !.since[Current(w)] = 0,
                           !.want = "visible", !.previous = "visible"]

\* Replaces the row of the current fund and returns it to the caller.
WriteAndReturn(w, row, pc) ==
  /\ rows' = [rows EXCEPT ![Current(w)] = row]
  /\ jobs' = [jobs EXCEPT ![w] = [@ EXCEPT !.seen[Current(w)] = row,
                                           !.since[Current(w)] = Len(audits[Current(w)]),
                                           !.pc = pc]]
  /\ UNCHANGED <<audits, started, faults>>

\* applyAutomaticVisibilityRules: decides from the row the caller passes in.
Decide(w) ==
  /\ jobs[w].op \in Automatic
  /\ jobs[w].pc = "decide"
  /\ LET seen == jobs[w].seen[Current(w)]
         next == ResolveAutomaticVisibility(seen)
     IN  jobs' = [jobs EXCEPT ![w] =
           IF next = seen.visibility THEN Advanced(w)
           ELSE [@ EXCEPT !.pc = "txRead", !.want = next]]
  /\ UNCHANGED <<rows, audits, started, faults>>

\* The transaction of updateCatalogVisibility: findUnique, then the update,
\* the audit row and the commit. The row lock the update takes makes the last
\* three one step for everybody else.
TxRead(w) ==
  /\ jobs[w].pc = "txRead"
  /\ rows[Current(w)] # NoRow
  /\ jobs' = [jobs EXCEPT ![w] = [@ EXCEPT !.pc = "txWrite",
                                           !.previous = rows[Current(w)].visibility]]
  /\ UNCHANGED <<rows, audits, started, faults>>

TxCommit(w) ==
  /\ jobs[w].pc = "txWrite"
  /\ LET f == Current(w)
         entry == [previous |-> jobs[w].previous, new |-> jobs[w].want,
                   actor |-> IF jobs[w].op \in Automatic THEN "system" ELSE "admin"]
     IN  /\ rows' = [rows EXCEPT ![f].visibility = entry.new]
         /\ audits' = [audits EXCEPT ![f] = Append(@, entry)]
  /\ jobs' = [jobs EXCEPT ![w] = Advanced(w)]
  /\ UNCHANGED <<started, faults>>

\* An error or a crash between two statements: an open transaction rolls back
\* and the rest of the job is not done.
Fail(w) ==
  /\ jobs[w].pc # "idle"
  /\ faults < MaxFaults
  /\ faults' = faults + 1
  /\ jobs' = [jobs EXCEPT ![w] = IdleJob]
  /\ UNCHANGED <<rows, audits, started>>

-----------------------------------------------------------------------------
(* Metadata sync of one fund: read the existing row, upsert, apply the rules. *)

StartSync(w, f) == BeginBounded(w, "sync", "write", {f})

\* Defective variant: the update branch carries the input's visibility too.
UpsertedWithVisibility(row, existing, rest) ==
  [visibility |-> "visible", benchmark |-> TRUE, rest |-> rest,
   label |-> IF row = NoRow THEN "auto" ELSE row.label]

\* Defective variant: the optional input field is written as it is.
UpsertedUndefined(row, existing, rest) ==
  [visibility |-> IF row = NoRow THEN "undefined" ELSE row.visibility,
   benchmark |-> TRUE, rest |-> rest, label |-> "auto"]

\* The upsert never touches catalogVisibility of an existing row, and writes
\* themeLabel only when the row read before had an empty one. The provider
\* always yields a benchmark; whether it yields the rest is its choice.
Upserted(row, existing, rest) ==
  IF row = NoRow
  THEN [visibility |-> "visible", benchmark |-> TRUE, rest |-> rest, label |-> "auto"]
  ELSE [row EXCEPT !.benchmark = TRUE, !.rest = rest,
          !.label = IF existing # NoRow /\ existing.label = "empty" THEN "auto" ELSE @]

Upsert(w) ==
  /\ jobs[w].op = "sync" /\ jobs[w].pc = "write"
  /\ \E rest \in BOOLEAN :
       WriteAndReturn(w, Upserted(rows[Current(w)], jobs[w].seen[Current(w)], rest),
                      "decide")

(* Score recalculation of the whole catalog. *)

StartRecalculate(w) ==
  /\ Existing # {}
  /\ Begin(w, "recalculate", "write", Existing, {})
  /\ UNCHANGED started

\* updateMaterializedScoring writes no column of this module and returns the row.
UpdateScoring(w) ==
  /\ jobs[w].op = "recalculate" /\ jobs[w].pc = "write"
  /\ WriteAndReturn(w, rows[Current(w)], "decide")

(* The maintenance CLIs. *)

StartReconcile(w) ==
  /\ Existing # {}
  /\ BeginBounded(w, "reconcile", "decide", Existing)

StartBenchmarkBackfill(w) ==
  /\ Existing # {}
  /\ BeginBounded(w, "benchmark", "write", Existing)

BackfillBenchmark(w) ==
  /\ jobs[w].op = "benchmark" /\ jobs[w].pc = "write"
  /\ LET f == Current(w)
     IN  rows' = IF jobs[w].seen[f].benchmark THEN rows
                 ELSE [rows EXCEPT ![f].benchmark = TRUE]
  /\ jobs' = [jobs EXCEPT ![w] = [@ EXCEPT !.pc = "reload"]]
  /\ UNCHANGED <<audits, started, faults>>

ReloadFund(w) ==
  /\ jobs[w].op = "benchmark" /\ jobs[w].pc = "reload"
  /\ WriteAndReturn(w, rows[Current(w)], "decide")

StartThemeBackfill(w) ==
  /\ Existing # {}
  /\ BeginBounded(w, "theme", "write", Existing)

\* Fills the label the row had empty when the loop began.
BackfillTheme(w) ==
  /\ jobs[w].op = "theme" /\ jobs[w].pc = "write"
  /\ LET f == Current(w)
     IN  rows' = IF jobs[w].seen[f].label = "empty"
                 THEN [rows EXCEPT ![f].label = "auto"] ELSE rows
  /\ jobs' = [jobs EXCEPT ![w] = Advanced(w)]
  /\ UNCHANGED <<audits, started, faults>>

(* The admin API. A fund that does not exist is a 404, an unchanged state a no-op. *)

StartAdminVisibility(w, f, v) ==
  /\ rows[f] # NoRow
  /\ rows[f].visibility # v
  /\ started < MaxJobs
  /\ started' = started + 1
  /\ jobs[w].pc = "idle"
  /\ jobs' = [jobs EXCEPT ![w] = [NewJob("admin", "txRead", {f}, {}) EXCEPT !.want = v]]
  /\ UNCHANGED <<rows, audits, faults>>

StartEditorial(w, f) ==
  /\ rows[f] # NoRow
  /\ started < MaxJobs
  /\ started' = started + 1
  /\ Begin(w, "editorial", "write", {f}, {})

UpdateEditorial(w) ==
  /\ jobs[w].op = "editorial" /\ jobs[w].pc = "write"
  /\ \E label \in {"empty", "curated"} :
       rows' = [rows EXCEPT ![Current(w)].label = label]
  /\ jobs' = [jobs EXCEPT ![w] = Advanced(w)]
  /\ UNCHANGED <<audits, started, faults>>

-----------------------------------------------------------------------------
Start(w) ==
  \/ \E f \in Funds : StartSync(w, f) \/ StartEditorial(w, f)
  \/ \E f \in Funds, v \in Visibility : StartAdminVisibility(w, f, v)
  \/ StartReconcile(w) \/ StartBenchmarkBackfill(w) \/ StartThemeBackfill(w)

Step(w) ==
  \/ Upsert(w) \/ UpdateScoring(w) \/ BackfillBenchmark(w) \/ ReloadFund(w)
  \/ BackfillTheme(w) \/ UpdateEditorial(w) \/ Decide(w) \/ TxRead(w) \/ TxCommit(w)

Next == \E w \in Workers : Start(w) \/ StartRecalculate(w) \/ Step(w) \/ Fail(w)

Spec == Init /\ [][Next]_vars

\* A started operation goes on (its promises settle or reject), and the cron
\* job starts a recalculation every day.
FairSpec ==
  /\ Spec
  /\ \A w \in Workers : WF_vars(Step(w))
  /\ WF_vars(\E w \in Workers : StartRecalculate(w))

-----------------------------------------------------------------------------
(* Properties *)

LastEntry(f) == audits[f][Len(audits[f])]

\* The visibility of a fund and the newest entry of its audit trail never
\* disagree, and no fund is blocked without an entry, whatever writers overlap
\* or fail: updateCatalogVisibility updates and audits in one transaction, and
\* no other writer touches the column.
AuditTrailMatchesVisibility ==
  \A f \in Funds :
    /\ rows[f] = NoRow => audits[f] = <<>>
    /\ rows[f] # NoRow =>
         IF audits[f] = <<>> THEN rows[f].visibility # "blocked"
         ELSE rows[f].visibility = LastEntry(f).new

\* When an automatic rule is about to overwrite the blocked state, an
\* administrator blocked the fund after the rule's caller had read the row:
\* the resolver never promotes a fund it has seen blocked, so only an overlap
\* can undo a block.
UnblockOnlyAcrossLateBlock ==
  \A w \in Workers :
    jobs[w].op \in Automatic /\ jobs[w].pc \in {"txRead", "txWrite"} =>
      LET f == Current(w)
      IN  rows[f].visibility = "blocked" =>
            \E i \in jobs[w].since[f] + 1 .. Len(audits[f]) :
              audits[f][i].new = "blocked" /\ audits[f][i].actor = "admin"

\* The table implements the promise of VisibilityLedger.
Ledger == INSTANCE VisibilityLedger WITH
  visibility <- [f \in Funds |-> IF rows[f] = NoRow THEN "absent" ELSE rows[f].visibility],
  ledger <- audits

ImplementsLedger == Ledger!Spec

\* Once syncs, operators and faults leave the catalog alone, the daily
\* recalculations bring every fund that is not blocked to the state its data
\* calls for, quarantined funds included, whatever stale decisions were pending.
EventuallyReconciled ==
  <>[](\A f \in Existing :
         \/ rows[f].visibility = "blocked"
         \/ rows[f].visibility = "visible" /\ CatalogDataComplete(rows[f])
         \/ rows[f].visibility = "quarantined" /\ ~ CatalogDataComplete(rows[f]))

\* What the comment of resolveAutomaticCatalogVisibility says: a blocked fund is
\* never promoted automatically, operators must unblock it. (The code's rule
\* runs on a row read earlier, and a block in between is overwritten.)
BlockedNeverPromotedAutomatically ==
  [][\A f \in Existing :
       rows[f].visibility = "blocked" /\ rows'[f].visibility # "blocked" =>
         LastEntry(f)'.actor = "admin"]_vars

\* What the comments of the theme sync and of updateEditorial say: provider
\* sync and backfill never overwrite curated copy. (The code checks a label
\* read earlier, and a PATCH in between is overwritten.)
CuratedCopyNeverOverwritten ==
  [][\A f \in Existing :
       rows[f].label = "curated" => rows'[f].label # "auto"]_vars

=============================================================================
