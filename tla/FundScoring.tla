---------------------------- MODULE FundScoring ----------------------------
(***************************************************************************)
(* The materialized score, peer group and peer rank of the funds, and the  *)
(* public rankings read from them. A recalculation reads the whole table,  *)
(* computes every fund's result from that one reading, and then writes the *)
(* rows one by one; the cron job, the admin endpoint and the CLIs start    *)
(* recalculations that overlap. Metadata syncs and the benchmark backfill  *)
(* change meanwhile what the results depend on.                            *)
(*                                                                         *)
(* Of the four factors of RN-04 the TER stands for all: the others apply   *)
(* the same rule to other columns. A fund's number is its place in the     *)
(* order of the symbols, a benchmark's in the order of the labels.         *)
(***************************************************************************)
EXTENDS Integers, FiniteSets

CONSTANTS
  Funds,        \* fund numbers
  Workers,      \* concurrently running recalculations and backfills
  Benchmarks,   \* normalized benchmark labels
  Category,     \* the category, which stands in for a missing benchmark
  Ter,          \* TERs, as the bands of RN-04's absolute thresholds
  None,         \* null
  NoRow,        \* rows[f] before the fund's first synchronisation
  Seeds,        \* the unscored rows the table may hold at first
  Limit,        \* the query's limit: funds per group
  GroupsLimit,  \* the query's groupsLimit
  MaxWrites,    \* bound: metadata syncs, backfills and blocks
  MaxFaults     \* bound: jobs cut short

VARIABLES
  rows,         \* rows[f]: the row of fund f, or NoRow
  jobs,         \* jobs[w]: the job worker w runs
  late,         \* history: funds scored before their benchmark was last written
  settled,      \* history: a recalculation nobody disturbed ended, and nothing since
  writes,       \* number of metadata syncs, backfills and blocks
  faults        \* number of jobs cut short

vars == <<rows, jobs, late, settled, writes, faults>>

Key == Benchmarks \cup {Category}

\* hidden: blocked by an administrator. A fund that misses an isin is one that
\* misses its ter: both keep it out of the rankings.
Row == [benchmark : Benchmarks \cup {None}, ter : Ter \cup {None}, hidden : BOOLEAN,
        score : Int \cup {None}, group : Key \cup {None}, rank : Int \cup {None}]

Unscored == {row \in Row : row.score = None /\ row.group = None /\ row.rank = None}

ASSUME ScoringAssumption ==
  /\ Funds \subseteq Int /\ IsFiniteSet(Funds)
  /\ Ter \subseteq 1..5
  /\ Key \subseteq Int /\ None \notin Int /\ NoRow \notin Row
  /\ Seeds \subseteq Unscored
  /\ MaxWrites \in Nat /\ MaxFaults \in Nat

Result == [score : Int, group : Key, rank : Int]

\* todo: the funds the job has yet to write. plan: the results it computed.
\* fresh, touched: history fields, whether the results are still those of the
\* table and nobody wrote older ones, and the funds whose benchmark was written
\* since the results were computed.
Job == [op : {"none", "recalculate", "backfill"}, todo : SUBSET Funds,
        plan : [Funds -> Result \cup {None}], fresh : BOOLEAN, touched : SUBSET Funds]

IdleJob == [op |-> "none", todo |-> {}, plan |-> [f \in Funds |-> None],
            fresh |-> FALSE, touched |-> {}]

TypeOK ==
  /\ rows \in [Funds -> Row \cup {NoRow}]
  /\ jobs \in [Workers -> Job]
  /\ late \in SUBSET Funds
  /\ settled \in BOOLEAN
  /\ writes \in Nat
  /\ faults \in Nat

Init ==
  /\ rows \in [Funds -> Seeds \cup {NoRow}]
  /\ jobs = [w \in Workers |-> IdleJob]
  /\ late = {}
  /\ settled = FALSE
  /\ writes = 0
  /\ faults = 0

-----------------------------------------------------------------------------
(* The results of one reading of the table. *)

Existing == {f \in Funds : rows[f] # NoRow}

KeyOf(row) == IF row.benchmark = None THEN Category ELSE row.benchmark

Peers(table, f) ==
  {g \in Funds \ {f} : table[g] # NoRow /\ KeyOf(table[g]) = KeyOf(table[f])}

\* The points of the absolute thresholds, and 40 points times n / d, rounded.
Absolute(ter) == 48 - 8 * ter
Percentile(n, d) == (80 * n + d) \div (2 * d)

\* A fund's score: the share of its peers it is no worse than, the thresholds
\* when no peer has the datum, 40 % of the maximum when the fund has not.
ScoreOf(table, f) ==
  LET known == {g \in Peers(table, f) : table[g].ter # None}
      beaten == {g \in known : table[g].ter >= table[f].ter}
  IN  IF table[f].ter = None THEN 16
      ELSE IF known = {} THEN Absolute(table[f].ter)
      ELSE Percentile(Cardinality(beaten), Cardinality(known))

\* Score descending, then symbol.
Before(gScore, g, fScore, f) ==
  \/ gScore > fScore
  \/ gScore = fScore /\ g < f

\* Defective variant: funds with equal scores share a rank.
RankOfTied(table, f) ==
  1 + Cardinality({g \in Peers(table, f) : ScoreOf(table, g) > ScoreOf(table, f)})

\* Defective variant: the place in the whole catalog.
RankOfCatalog(table, f) ==
  1 + Cardinality({g \in Funds \ {f} :
        table[g] # NoRow /\ Before(ScoreOf(table, g), g, ScoreOf(table, f), f)})

\* buildPeerRanks: the place of f among its peers.
RankOf(table, f) ==
  1 + Cardinality({g \in Peers(table, f) :
                     Before(ScoreOf(table, g), g, ScoreOf(table, f), f)})

\* Defective variant: no rank.
ResultUnranked(table, f) == [score |-> ScoreOf(table, f), group |-> KeyOf(table[f])]

ResultOf(table, f) ==
  [score |-> ScoreOf(table, f), group |-> KeyOf(table[f]), rank |-> RankOf(table, f)]

Stored(row) == [score |-> row.score, group |-> row.group, rank |-> row.rank]

-----------------------------------------------------------------------------
(* Recalculation of the whole catalog. *)

\* Nothing reads the other fields until the rows are written: the reads of prices
\* and compositions in between are part of the first step.
StartRecalculate(w) ==
  /\ jobs[w].op = "none"
  /\ Existing # {}
  /\ jobs' = [jobs EXCEPT ![w] =
       [op |-> "recalculate", todo |-> Existing, fresh |-> TRUE, touched |-> {},
        plan |-> [f \in Funds |-> IF f \in Existing THEN ResultOf(rows, f) ELSE None]]]
  /\ UNCHANGED <<rows, late, settled, writes, faults>>

\* The loop follows a fixed order of the funds; nothing depends on which.
Current(w) == CHOOSE f \in jobs[w].todo : TRUE

Advanced(w) ==
  LET left == jobs[w].todo \ {Current(w)}
  IN  IF left = {} THEN IdleJob
      ELSE [jobs[w] EXCEPT !.todo = left, !.plan[Current(w)] = None,
                           !.touched = @ \ {Current(w)}]

\* updateMaterializedScoring: the score, the group and the rank in one statement.
Materialized(row, result) ==
  [row EXCEPT !.score = result.score, !.group = result.group, !.rank = result.rank]

\* Defective variant: a fund whose score is what it was is not written.
WriteScoreIfChanged(w) ==
  /\ jobs[w].op = "recalculate"
  /\ LET f == Current(w)
     IN  rows' = IF rows[f].score = jobs[w].plan[f].score THEN rows
                 ELSE [rows EXCEPT ![f] = Materialized(@, jobs[w].plan[f])]
  /\ jobs' = [jobs EXCEPT ![w] = Advanced(w)]
  /\ UNCHANGED <<late, settled, writes, faults>>

\* Results that are not those of the table any more spoil what the other
\* recalculations have written.
WriteScore(w) ==
  /\ jobs[w].op = "recalculate"
  /\ LET f == Current(w)
     IN  /\ rows' = [rows EXCEPT ![f] = Materialized(@, jobs[w].plan[f])]
         /\ late' = IF f \in jobs[w].touched THEN late \cup {f} ELSE late \ {f}
  /\ jobs' = [v \in Workers |->
       IF v = w THEN Advanced(w)
       ELSE [jobs[v] EXCEPT !.fresh = @ /\ jobs[w].fresh]]
  /\ settled' = (jobs[w].fresh /\ (settled \/ jobs[w].todo = {Current(w)}))
  /\ UNCHANGED <<writes, faults>>

-----------------------------------------------------------------------------
(* What the results depend on changes. *)

\* Running jobs, after the benchmark or the TER of f was written.
Disturbed(job, f) ==
  IF job.op = "none" THEN job
  ELSE [job EXCEPT !.fresh = FALSE, !.touched = @ \cup {f}]

\* Defective variant: the score of an existing fund stays.
UpsertedScored(row, benchmark, ter) ==
  IF row = NoRow
  THEN [benchmark |-> benchmark, ter |-> ter, hidden |-> FALSE,
        score |-> None, group |-> None, rank |-> None]
  ELSE [row EXCEPT !.benchmark = benchmark, !.ter = ter]

\* The metadata upsert resets the score, and leaves the group and the rank.
Upserted(row, benchmark, ter) ==
  IF row = NoRow
  THEN [benchmark |-> benchmark, ter |-> ter, hidden |-> FALSE,
        score |-> None, group |-> None, rank |-> None]
  ELSE [row EXCEPT !.benchmark = benchmark, !.ter = ter, !.score = None]

Upsert(f) ==
  /\ writes < MaxWrites
  /\ writes' = writes + 1
  /\ \E benchmark \in Benchmarks, ter \in Ter \cup {None} :
       rows' = [rows EXCEPT ![f] = Upserted(@, benchmark, ter)]
  /\ jobs' = [w \in Workers |-> Disturbed(jobs[w], f)]
  /\ late' = late \ {f}
  /\ settled' = FALSE
  /\ UNCHANGED faults

Unlabelled == {f \in Existing : rows[f].benchmark = None}

StartBackfill(w) ==
  /\ jobs[w].op = "none"
  /\ Unlabelled # {}
  /\ writes < MaxWrites
  /\ writes' = writes + 1
  /\ jobs' = [jobs EXCEPT ![w] = [op |-> "backfill", todo |-> Unlabelled, fresh |-> FALSE,
                                  touched |-> {}, plan |-> IdleJob.plan]]
  /\ UNCHANGED <<rows, late, settled, faults>>

\* The backfill writes the benchmark alone, and to funds that had none when it
\* read them.
BackfillBenchmark(w) ==
  /\ jobs[w].op = "backfill"
  /\ LET f == Current(w)
     IN  /\ \E benchmark \in Benchmarks : rows' = [rows EXCEPT ![f].benchmark = benchmark]
         /\ jobs' = [v \in Workers |-> IF v = w THEN Advanced(w) ELSE Disturbed(jobs[v], f)]
         /\ late' = late \cup {f}
  /\ settled' = FALSE
  /\ UNCHANGED <<writes, faults>>

\* An administrator blocks or unblocks a fund.
SetHidden(f) ==
  /\ rows[f] # NoRow
  /\ writes < MaxWrites
  /\ writes' = writes + 1
  /\ rows' = [rows EXCEPT ![f].hidden = ~ @]
  /\ UNCHANGED <<jobs, late, settled, faults>>

\* A job is cut short: what it has written stays.
Fail(w) ==
  /\ jobs[w].op # "none"
  /\ faults < MaxFaults
  /\ faults' = faults + 1
  /\ jobs' = [jobs EXCEPT ![w] = IdleJob]
  /\ UNCHANGED <<rows, late, settled, writes>>

-----------------------------------------------------------------------------
Step(w) == WriteScore(w) \/ BackfillBenchmark(w)

Next ==
  \/ \E f \in Funds : Upsert(f) \/ SetHidden(f)
  \/ \E w \in Workers : StartRecalculate(w) \/ StartBackfill(w) \/ Step(w) \/ Fail(w)

Spec == Init /\ [][Next]_vars

\* A started job goes on, and the daily cron job starts a recalculation.
FairSpec ==
  /\ Spec
  /\ \A w \in Workers : WF_vars(Step(w))
  /\ WF_vars(\E w \in Workers : StartRecalculate(w))

-----------------------------------------------------------------------------
(* GET /rankings, as one reading of the table. *)

Eligible ==
  {f \in Existing :
     /\ ~ rows[f].hidden
     /\ rows[f].benchmark # None /\ rows[f].ter # None
     /\ rows[f].score # None /\ rows[f].group # None}

StoredBefore(g, f) == Before(rows[g].score, g, rows[f].score, f)

\* The SQL query: the largest groups, and the first funds of each, by the
\* persisted group.
GroupOf(k) == {f \in Eligible : rows[f].group = k}

Larger(h, k) ==
  \/ Cardinality(GroupOf(h)) > Cardinality(GroupOf(k))
  \/ Cardinality(GroupOf(h)) = Cardinality(GroupOf(k)) /\ h < k

TopGroups == {k \in Key : Cardinality({h \in Key : Larger(h, k)}) < GroupsLimit}

Returned ==
  {f \in Eligible :
     /\ rows[f].group \in TopGroups
     /\ Cardinality({g \in GroupOf(rows[f].group) : StoredBefore(g, f)}) < Limit}

\* The mapper groups what the query returned again, by the live benchmark, and
\* shows the persisted rank beside the fund.
Shown(k) == {f \in Returned : KeyOf(rows[f]) = k}

-----------------------------------------------------------------------------
(* Properties *)

\* A scored fund is in the group of its benchmark, unless a recalculation that
\* had read an older benchmark or the backfill came later: the metadata upsert
\* takes the fund out of the rankings until it is scored again.
GroupIsCurrent ==
  \A f \in Existing \ late : rows[f].score # None => rows[f].group = KeyOf(rows[f])

\* Once a recalculation has ended that nothing but recalculations of the same
\* data overlapped, a ranking lists no fund with a better rank below one with a
\* worse, and none twice at one rank, whoever is hidden or cut off by the limits.
RankingsInOrder ==
  settled =>
    \A k \in Key : \A f, g \in Shown(k) :
      StoredBefore(g, f) => rows[g].rank < rows[f].rank

\* The rank shown counts every fund of the group that scores better, the hidden
\* ones and those without the data a ranking asks for included: it is the
\* position in the list only when there are none.
RankCountsUnlisted ==
  settled =>
    \A k \in Key : \A f \in Shown(k) :
      rows[f].rank =
        1 + Cardinality({g \in Existing \ {f} :
                           KeyOf(rows[g]) = k /\ StoredBefore(g, f)})

Coherent == \A f \in Existing : Stored(rows[f]) = ResultOf(rows, f)

\* Once the data stay as they are, the daily recalculations bring every fund to
\* the score, the group and the rank its data call for, though they overlap and
\* some hold results of older data.
EventuallyCoherent == <>[]Coherent

=============================================================================
