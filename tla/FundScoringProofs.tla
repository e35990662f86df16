------------------------- MODULE FundScoringProofs -------------------------
(***************************************************************************)
(* Theorems about FundScoring. First what a result depends on: the         *)
(* existence, the benchmark and the TER of the rows, and nothing that a    *)
(* recalculation or an administrator writes. Then three layers of          *)
(* invariant: types and what the jobs hold (TypeInv), the groups           *)
(* (GroupInv), and what fresh results say of the table (ResultInv), from   *)
(* which the order of the rankings follows by counting.                    *)
(***************************************************************************)
EXTENDS FundScoring, FiniteSetTheorems, TLAPS

Table == [Funds -> Row \cup {NoRow}]

-----------------------------------------------------------------------------
(* The results of a reading. *)

LEMMA PeersFinite ==
  ASSUME NEW T \in Table, NEW f \in Funds
  PROVE  Peers(T, f) \in SUBSET Funds /\ IsFiniteSet(Peers(T, f))
<1>1. Peers(T, f) \in SUBSET Funds
  BY DEF Peers
<1> QED
  BY <1>1, FS_Subset, ScoringAssumption

LEMMA PercentileType ==
  \A n, d \in Nat : d # 0 => Percentile(n, d) \in Int
BY DEF Percentile

\* A score is a number, whatever the row and its peers lack.
LEMMA ScoreType ==
  ASSUME NEW T \in Table, NEW f \in Funds, T[f] # NoRow
  PROVE  ScoreOf(T, f) \in Int
<1> DEFINE known == {g \in Peers(T, f) : T[g].ter # None}
           beaten == {g \in known : T[g].ter >= T[f].ter}
<1>1. IsFiniteSet(known) /\ IsFiniteSet(beaten)
  <2>1. known \in SUBSET Peers(T, f) /\ beaten \in SUBSET Peers(T, f)
    OBVIOUS
  <2> QED
    BY <2>1, PeersFinite, FS_Subset
<1>2. Cardinality(known) \in Nat /\ Cardinality(beaten) \in Nat
  BY <1>1, FS_CardinalityType
<1>3. known # {} => Cardinality(known) # 0
  BY <1>1, FS_EmptySet
<1>4. T[f] \in Row
  BY DEF Table
<1>5. T[f].ter # None => T[f].ter \in Int
  <2>1. T[f].ter \in Ter \cup {None}
    BY <1>4 DEF Row
  <2>2. Ter \subseteq Int
    BY ScoringAssumption
  <2> QED
    BY <2>1, <2>2
<1>6. T[f].ter # None => Absolute(T[f].ter) \in Int
  BY <1>5 DEF Absolute
<1>7. known # {} => Percentile(Cardinality(beaten), Cardinality(known)) \in Int
  BY <1>2, <1>3, PercentileType
<1>8. ScoreOf(T, f) =
        IF T[f].ter = None THEN 16
        ELSE IF known = {} THEN Absolute(T[f].ter)
        ELSE Percentile(Cardinality(beaten), Cardinality(known))
  BY DEF ScoreOf
<1> QED
  BY <1>6, <1>7, <1>8

LEMMA KeyType ==
  ASSUME NEW row \in Row
  PROVE  KeyOf(row) \in Key
BY DEF KeyOf, Key, Row

\* The funds of a reading that are before f.
Ahead(T, f) ==
  {g \in Peers(T, f) : Before(ScoreOf(T, g), g, ScoreOf(T, f), f)}

LEMMA ResultType ==
  ASSUME NEW T \in Table, NEW f \in Funds, T[f] # NoRow
  PROVE  ResultOf(T, f) \in Result
<1>1. ScoreOf(T, f) \in Int
  BY ScoreType
<1>2. KeyOf(T[f]) \in Key
  BY KeyType DEF Table
<1>3. Ahead(T, f) \in SUBSET Peers(T, f)
  BY DEF Ahead
<1>4. Cardinality(Ahead(T, f)) \in Nat
  BY <1>3, PeersFinite, FS_Subset, FS_CardinalityType
<1>5. RankOf(T, f) = 1 + Cardinality(Ahead(T, f))
  BY DEF RankOf, Ahead
<1> QED
  BY <1>1, <1>2, <1>4, <1>5 DEF ResultOf, Result

\* Two tables hold the same data if they have the same funds, with the same
\* benchmarks and TERs.
SameData(T, U) ==
  \A f \in Funds :
    /\ T[f] = NoRow <=> U[f] = NoRow
    /\ T[f] # NoRow => T[f].benchmark = U[f].benchmark /\ T[f].ter = U[f].ter

\* The results depend on the data alone.
LEMMA ResultOfData ==
  ASSUME NEW T, NEW U, SameData(T, U), NEW f \in Funds, T[f] # NoRow
  PROVE  ResultOf(U, f) = ResultOf(T, f)
<1>1. ASSUME NEW g \in Funds, T[g] # NoRow
      PROVE  /\ KeyOf(U[g]) = KeyOf(T[g])
             /\ Peers(U, g) = Peers(T, g)
             /\ ScoreOf(U, g) = ScoreOf(T, g)
  <2>1. \A h \in Funds : T[h] # NoRow => KeyOf(U[h]) = KeyOf(T[h])
    BY DEF SameData, KeyOf
  <2>2. Peers(U, g) = Peers(T, g)
    BY <1>1, <2>1 DEF Peers, SameData
  <2>3. \A h \in Peers(T, g) \cup {g} : T[h] # NoRow /\ U[h].ter = T[h].ter
    BY <1>1 DEF Peers, SameData
  <2> DEFINE knownT == {h \in Peers(T, g) : T[h].ter # None}
             knownU == {h \in Peers(U, g) : U[h].ter # None}
             beatenT == {h \in knownT : T[h].ter >= T[g].ter}
             beatenU == {h \in knownU : U[h].ter >= U[g].ter}
  <2>4. knownU = knownT
    BY <2>2, <2>3
  <2>5. beatenU = beatenT
    BY <2>4, <2>3
  <2>6. U[g].ter = T[g].ter
    BY <2>3
  <2>7. ScoreOf(U, g) = ScoreOf(T, g)
    BY <2>4, <2>5, <2>6 DEF ScoreOf
  <2> QED
    BY <1>1, <2>1, <2>2, <2>7
<1>2. Ahead(U, f) = Ahead(T, f)
  <2>1. \A g \in Peers(T, f) : g \in Funds /\ T[g] # NoRow
    BY DEF Peers
  <2> QED
    BY <1>1, <2>1 DEF Ahead
<1>3. RankOf(U, f) = RankOf(T, f)
  BY <1>2 DEF RankOf, Ahead
<1> QED
  BY <1>1, <1>3 DEF ResultOf

-----------------------------------------------------------------------------
(* Types, and what the jobs hold. *)

\* A running job has funds to visit, all of which exist; a recalculation has a
\* result for each.
JobOK(j, existing) ==
  /\ j.op # "none" => j.todo # {}
  /\ j.todo \subseteq existing
  /\ j.op = "recalculate" => \A f \in j.todo : j.plan[f] \in Result

JobsOK == \A w \in Workers : JobOK(jobs[w], Existing)

TypeInv == TypeOK /\ JobsOK

LEMMA IdleOK == IdleJob \in Job /\ JobOK(IdleJob, {})
BY DEF IdleJob, Job, JobOK

LEMMA CurrentOK ==
  ASSUME TypeInv, NEW w \in Workers, jobs[w].op # "none"
  PROVE  /\ Current(w) \in jobs[w].todo
         /\ Current(w) \in Funds
         /\ rows[Current(w)] \in Row
         /\ jobs[w].op = "recalculate" => jobs[w].plan[Current(w)] \in Result
<1>1. JobOK(jobs[w], Existing)
  BY DEF TypeInv, JobsOK
<1>2. Current(w) \in jobs[w].todo
  BY <1>1 DEF JobOK, Current
<1>3. Current(w) \in Existing
  BY <1>1, <1>2 DEF JobOK
<1> QED
  BY <1>1, <1>2, <1>3 DEF JobOK, Existing, TypeInv, TypeOK

LEMMA AdvancedOK ==
  ASSUME TypeInv, NEW w \in Workers, jobs[w].op # "none"
  PROVE  Advanced(w) \in Job /\ JobOK(Advanced(w), Existing)
<1>1. jobs[w] \in Job /\ JobOK(jobs[w], Existing)
  BY DEF TypeInv, TypeOK, JobsOK
<1> DEFINE left == jobs[w].todo \ {Current(w)}
           next == [jobs[w] EXCEPT !.todo = left, !.plan[Current(w)] = None,
                                   !.touched = @ \ {Current(w)}]
<1>2. CASE left = {}
  <2>1. Advanced(w) = IdleJob
    BY <1>2 DEF Advanced
  <2> QED
    BY <2>1, IdleOK DEF JobOK
<1>3. CASE left # {}
  <2>1. Advanced(w) = next
    BY <1>3 DEF Advanced
  <2>2. next \in Job
    BY <1>1 DEF Job
  <2>3. next.todo = left /\ next.op = jobs[w].op
    BY <1>1 DEF Job
  <2>4. \A f \in left : next.plan[f] = jobs[w].plan[f]
    BY <1>1 DEF Job
  <2> QED
    BY <1>1, <1>3, <2>1, <2>2, <2>3, <2>4 DEF JobOK
<1> QED
  BY <1>2, <1>3

LEMMA DisturbedOK ==
  ASSUME NEW j \in Job, NEW E, JobOK(j, E), NEW f \in Funds
  PROVE  Disturbed(j, f) \in Job /\ JobOK(Disturbed(j, f), E)
BY DEF Disturbed, Job, JobOK

\* One row is replaced by a row: no fund goes away.
LEMMA RowReplaced ==
  ASSUME TypeOK, NEW f \in Funds, NEW row \in Row, rows' = [rows EXCEPT ![f] = row]
  PROVE  /\ rows' \in Table
         /\ Existing' = Existing \cup {f}
<1>1. row # NoRow
  BY ScoringAssumption
<1> QED
  BY <1>1 DEF TypeOK, Table, Existing

LEMMA MoreExisting ==
  ASSUME NEW j, NEW E, NEW F, E \subseteq F, JobOK(j, E)
  PROVE  JobOK(j, F)
BY DEF JobOK

LEMMA MaterializedType ==
  ASSUME NEW row \in Row, NEW result \in Result
  PROVE  Materialized(row, result) \in Row
BY DEF Materialized, Row, Result

LEMMA UpsertedType ==
  ASSUME NEW row \in Row \cup {NoRow}, NEW benchmark \in Benchmarks,
         NEW ter \in Ter \cup {None}
  PROVE  Upserted(row, benchmark, ter) \in Row
BY ScoringAssumption DEF Upserted, Row

\* A step that leaves the rows alone and gives one worker a good job.
LEMMA JobChanges ==
  ASSUME TypeInv, NEW w \in Workers, NEW j \in Job, JobOK(j, Existing),
         jobs' = [jobs EXCEPT ![w] = j], UNCHANGED rows,
         UNCHANGED <<late, settled, faults>>, writes' \in Nat
  PROVE  TypeInv'
<1>1. jobs' \in [Workers -> Job] /\ Existing' = Existing
  BY DEF TypeInv, TypeOK, Existing
<1>2. JobsOK'
  BY <1>1 DEF TypeInv, TypeOK, JobsOK
<1> QED
  BY <1>1, <1>2 DEF TypeInv, TypeOK

\* TypeInv holds in every reachable state.
LEMMA TypeInvariant == Spec => []TypeInv
<1>1. Init => TypeInv
  <2> SUFFICES ASSUME Init PROVE TypeInv
    OBVIOUS
  <2>1. \A w \in Workers : jobs[w] = IdleJob /\ jobs[w] \in Job
    BY IdleOK DEF Init
  <2>2. JobsOK
    BY <2>1, IdleOK DEF JobsOK, JobOK
  <2>3. rows \in [Funds -> Row \cup {NoRow}]
    BY ScoringAssumption DEF Init, Unscored
  <2>4. jobs \in [Workers -> Job]
    BY IdleOK DEF Init
  <2> QED
    BY <2>2, <2>3, <2>4 DEF Init, TypeInv, TypeOK
<1>2. TypeInv /\ [Next]_vars => TypeInv'
  <2> SUFFICES ASSUME TypeInv, [Next]_vars PROVE TypeInv'
    OBVIOUS
  <2> USE DEF TypeInv
  <2>1. ASSUME NEW f \in Funds, Upsert(f) PROVE TypeInv'
    <3>1. PICK benchmark \in Benchmarks, ter \in Ter \cup {None} :
            rows' = [rows EXCEPT ![f] = Upserted(rows[f], benchmark, ter)]
      BY <2>1 DEF Upsert
    <3>2. Upserted(rows[f], benchmark, ter) \in Row
      BY UpsertedType DEF TypeOK
    <3>3. rows' \in Table /\ Existing \subseteq Existing'
      BY <3>1, <3>2, RowReplaced
    <3>4. \A w \in Workers : /\ Disturbed(jobs[w], f) \in Job
                             /\ JobOK(Disturbed(jobs[w], f), Existing)
      BY DisturbedOK DEF TypeOK, JobsOK
    <3>5. \A w \in Workers : jobs'[w] \in Job /\ JobOK(jobs'[w], Existing')
      BY <2>1, <3>3, <3>4, MoreExisting DEF Upsert
    <3>6. jobs' \in [Workers -> Job]
      BY <2>1, <3>4 DEF Upsert
    <3>7. JobsOK'
      BY <3>5 DEF JobsOK
    <3>8. late' \in SUBSET Funds /\ writes' \in Nat /\ faults' \in Nat
      BY <2>1 DEF Upsert, TypeOK
    <3>9. settled' \in BOOLEAN
      BY <2>1 DEF Upsert
    <3> QED
      BY <3>3, <3>6, <3>7, <3>8, <3>9 DEF TypeOK, Table
  <2>2. ASSUME NEW f \in Funds, SetHidden(f) PROVE TypeInv'
    <3>1. rows[f] \in Row
      BY <2>2 DEF SetHidden, TypeOK
    <3>2. [rows[f] EXCEPT !.hidden = ~ @] \in Row
      BY <3>1 DEF Row
    <3>3. rows' = [rows EXCEPT ![f] = [rows[f] EXCEPT !.hidden = ~ @]]
      BY <2>2, <3>1 DEF SetHidden, TypeOK
    <3>4. rows' \in Table /\ Existing \subseteq Existing'
      BY <3>2, <3>3, RowReplaced
    <3>5. JobsOK'
      BY <2>2, <3>4, MoreExisting DEF SetHidden, JobsOK
    <3> QED
      BY <2>2, <3>4, <3>5 DEF SetHidden, TypeOK, Table
  <2>3. ASSUME NEW w \in Workers, StartRecalculate(w) PROVE TypeInv'
    <3> DEFINE plan == [f \in Funds |->
                          IF f \in Existing THEN ResultOf(rows, f) ELSE None]
               j == [op |-> "recalculate", todo |-> Existing, fresh |-> TRUE,
                     touched |-> {}, plan |-> plan]
    <3>1. \A f \in Existing : f \in Funds /\ ResultOf(rows, f) \in Result
      BY ResultType DEF Existing, Table, TypeOK
    <3>2. plan \in [Funds -> Result \cup {None}]
      BY <3>1
    <3>3. \A f \in Existing : plan[f] \in Result
      BY <3>1
    <3> HIDE DEF plan
    <3>4. j \in Job
      BY <3>2 DEF Job, Existing
    <3>5. JobOK(j, Existing)
      BY <2>3, <3>3 DEF JobOK, StartRecalculate
    <3>6. jobs' = [jobs EXCEPT ![w] = j]
      BY <2>3 DEF StartRecalculate, plan
    <3>7. UNCHANGED rows /\ UNCHANGED <<late, settled, faults>> /\ writes' \in Nat
      BY <2>3 DEF StartRecalculate, TypeOK
    <3> HIDE DEF j
    <3> QED
      BY <3>4, <3>5, <3>6, <3>7, JobChanges
  <2>4. ASSUME NEW w \in Workers, StartBackfill(w) PROVE TypeInv'
    <3> DEFINE j == [op |-> "backfill", todo |-> Unlabelled, fresh |-> FALSE,
                     touched |-> {}, plan |-> IdleJob.plan]
    <3>1. Unlabelled \in SUBSET Existing /\ Existing \in SUBSET Funds
      BY DEF Unlabelled, Existing
    <3>2. j \in Job
      BY <3>1, IdleOK DEF Job
    <3>3. JobOK(j, Existing)
      BY <2>4, <3>1 DEF JobOK, StartBackfill
    <3>4. jobs' = [jobs EXCEPT ![w] = j] /\ UNCHANGED rows
          /\ UNCHANGED <<late, settled, faults>> /\ writes' \in Nat
      BY <2>4 DEF StartBackfill, TypeOK
    <3> HIDE DEF j
    <3> QED
      BY <3>2, <3>3, <3>4, JobChanges
  <2>5. ASSUME NEW w \in Workers, WriteScore(w) PROVE TypeInv'
    <3> DEFINE f == Current(w)
               row == Materialized(rows[f], jobs[w].plan[f])
    <3>1. jobs[w].op # "none" /\ f \in Funds /\ row \in Row
      BY <2>5, CurrentOK, MaterializedType DEF WriteScore
    <3>2. rows' = [rows EXCEPT ![f] = row]
      BY <2>5, <3>1 DEF WriteScore, TypeOK
    <3> HIDE DEF row
    <3>3. rows' \in Table /\ Existing \subseteq Existing'
      BY <3>1, <3>2, RowReplaced
    <3>4. Advanced(w) \in Job /\ JobOK(Advanced(w), Existing)
      BY <3>1, AdvancedOK
    <3>5. ASSUME NEW v \in Workers
          PROVE  /\ [jobs[v] EXCEPT !.fresh = @ /\ jobs[w].fresh] \in Job
                 /\ JobOK([jobs[v] EXCEPT !.fresh = @ /\ jobs[w].fresh], Existing)
      <4>1. jobs[v] \in Job /\ jobs[w].fresh \in BOOLEAN /\ JobOK(jobs[v], Existing)
        BY DEF TypeOK, Job, JobsOK
      <4> QED
        BY <4>1 DEF Job, JobOK
    <3>6. \A v \in Workers : jobs'[v] \in Job /\ JobOK(jobs'[v], Existing')
      BY <2>5, <3>3, <3>4, <3>5, MoreExisting DEF WriteScore
    <3>7. jobs' \in [Workers -> Job]
      BY <2>5, <3>4, <3>5 DEF WriteScore
    <3>8. late' \in SUBSET Funds /\ settled' \in BOOLEAN
      BY <2>5, <3>1 DEF WriteScore, TypeOK
    <3> QED
      BY <2>5, <3>3, <3>6, <3>7, <3>8 DEF WriteScore, TypeOK, JobsOK, Table
  <2>6. ASSUME NEW w \in Workers, BackfillBenchmark(w) PROVE TypeInv'
    <3> DEFINE f == Current(w)
    <3>1. jobs[w].op # "none" /\ f \in Funds /\ rows[f] \in Row
      BY <2>6, CurrentOK DEF BackfillBenchmark
    <3>2. PICK benchmark \in Benchmarks : rows' = [rows EXCEPT ![f].benchmark = benchmark]
      BY <2>6 DEF BackfillBenchmark
    <3> DEFINE row == [rows[f] EXCEPT !.benchmark = benchmark]
    <3>3. row \in Row /\ rows' = [rows EXCEPT ![f] = row]
      BY <3>1, <3>2 DEF Row, TypeOK
    <3> HIDE DEF row
    <3>4. rows' \in Table /\ Existing \subseteq Existing'
      BY <3>1, <3>3, RowReplaced
    <3>5. Advanced(w) \in Job /\ JobOK(Advanced(w), Existing)
      BY <3>1, AdvancedOK
    <3>6. \A v \in Workers : /\ Disturbed(jobs[v], f) \in Job
                             /\ JobOK(Disturbed(jobs[v], f), Existing)
      BY <3>1, DisturbedOK DEF TypeOK, JobsOK
    <3>7. \A v \in Workers : jobs'[v] \in Job /\ JobOK(jobs'[v], Existing')
      BY <2>6, <3>4, <3>5, <3>6, MoreExisting DEF BackfillBenchmark
    <3>8. jobs' \in [Workers -> Job] /\ late' \in SUBSET Funds
      BY <2>6, <3>1, <3>5, <3>6 DEF BackfillBenchmark, TypeOK
    <3> QED
      BY <2>6, <3>4, <3>7, <3>8 DEF BackfillBenchmark, TypeOK, JobsOK, Table
  <2>7. ASSUME NEW w \in Workers, Fail(w) PROVE TypeInv'
    <3>1. Existing' = Existing /\ faults' \in Nat
      BY <2>7 DEF Fail, Existing, TypeOK
    <3>2. jobs' \in [Workers -> Job]
      BY <2>7, IdleOK DEF Fail, TypeOK
    <3>3. JobsOK'
      BY <2>7, <3>1, IdleOK DEF Fail, JobsOK, JobOK, TypeOK
    <3> QED
      BY <2>7, <3>1, <3>2, <3>3 DEF Fail, TypeOK
  <2>8. ASSUME UNCHANGED vars PROVE TypeInv'
    BY <2>8 DEF vars, TypeOK, JobsOK, JobOK, Existing
  <2> QED
    BY <2>1, <2>2, <2>3, <2>4, <2>5, <2>6, <2>7, <2>8 DEF Next, Step
<1> QED
  BY <1>1, <1>2, PTL DEF Spec

\* The variables of FundScoring keep their types.
THEOREM TypeSafe == Spec => []TypeOK
<1>1. TypeInv => TypeOK
  BY DEF TypeInv
<1> QED
  BY <1>1, TypeInvariant, PTL

-----------------------------------------------------------------------------
(* The groups. *)

LEMMA AdvancedKeeps ==
  ASSUME TypeInv, NEW w \in Workers, jobs[w].op # "none", Advanced(w).op # "none"
  PROVE  /\ Advanced(w).op = jobs[w].op
         /\ Advanced(w).todo = jobs[w].todo \ {Current(w)}
         /\ Advanced(w).touched = jobs[w].touched \ {Current(w)}
         /\ Advanced(w).fresh = jobs[w].fresh
         /\ \A g \in Advanced(w).todo : Advanced(w).plan[g] = jobs[w].plan[g]
<1>1. jobs[w] \in Job
  BY DEF TypeInv, TypeOK
<1> DEFINE left == jobs[w].todo \ {Current(w)}
<1>2. left # {}
  BY DEF Advanced, IdleJob
<1>3. Advanced(w) = [jobs[w] EXCEPT !.todo = left, !.plan[Current(w)] = None,
                                    !.touched = @ \ {Current(w)}]
  BY <1>2 DEF Advanced
<1> QED
  BY <1>1, <1>3 DEF Job

LEMMA DisturbedKeeps ==
  ASSUME NEW j \in Job, NEW f \in Funds
  PROVE  /\ Disturbed(j, f).op = j.op
         /\ Disturbed(j, f).todo = j.todo
         /\ Disturbed(j, f).plan = j.plan
         /\ j.op # "none" => /\ Disturbed(j, f).fresh = FALSE
                             /\ Disturbed(j, f).touched = j.touched \cup {f}
BY DEF Disturbed, Job

LEMMA UntouchedBefore ==
  ASSUME NEW j \in Job, NEW f \in Funds, Disturbed(j, f).op = "recalculate",
         NEW g \in Disturbed(j, f).todo \ Disturbed(j, f).touched
  PROVE  /\ j.op = "recalculate"
         /\ g \in j.todo \ j.touched
         /\ g # f
         /\ Disturbed(j, f).plan = j.plan
<1>1. j.op = "recalculate" /\ j.op # "none"
  BY DisturbedKeeps
<1> QED
  BY <1>1, DisturbedKeeps

LEMMA DisturbedStale ==
  ASSUME NEW j \in Job, NEW f \in Funds, Disturbed(j, f).op = "recalculate"
  PROVE  Disturbed(j, f).fresh = FALSE
<1>1. j.op # "none"
  BY DisturbedKeeps
<1> QED
  BY <1>1, DisturbedKeeps

LEMMA MaterializedKeeps ==
  ASSUME NEW row \in Row, NEW result \in Result
  PROVE  /\ KeyOf(Materialized(row, result)) = KeyOf(row)
         /\ Materialized(row, result).benchmark = row.benchmark
         /\ Materialized(row, result).ter = row.ter
         /\ Stored(Materialized(row, result)) = result
         /\ Materialized(row, result).group = result.group
<1>1. /\ Materialized(row, result).benchmark = row.benchmark
      /\ Materialized(row, result).ter = row.ter
      /\ Materialized(row, result).score = result.score
      /\ Materialized(row, result).group = result.group
      /\ Materialized(row, result).rank = result.rank
  BY DEF Materialized, Row
<1>2. result = [score |-> result.score, group |-> result.group, rank |-> result.rank]
  BY DEF Result
<1>3. Stored(Materialized(row, result)) = result
  BY <1>1, <1>2 DEF Stored
<1>4. KeyOf(Materialized(row, result)) = KeyOf(row)
  BY <1>1 DEF KeyOf
<1> QED
  BY <1>1, <1>3, <1>4

LEMMA UpsertedUnscored ==
  ASSUME NEW row \in Row \cup {NoRow}, NEW benchmark \in Benchmarks,
         NEW ter \in Ter \cup {None}
  PROVE  Upserted(row, benchmark, ter).score = None
BY DEF Upserted, Row

\* A pending result names the group of its fund, unless the benchmark of the fund
\* was written since.
GroupsKnown ==
  \A w \in Workers :
    jobs[w].op = "recalculate" =>
      \A f \in jobs[w].todo \ jobs[w].touched : jobs[w].plan[f].group = KeyOf(rows[f])

GroupInv == GroupIsCurrent /\ GroupsKnown

LEMMA GroupInvariant == Spec => []GroupInv
<1>1. Init => GroupInv
  <2> SUFFICES ASSUME Init PROVE GroupInv
    OBVIOUS
  <2>1. \A w \in Workers : jobs[w].op = "none"
    BY DEF Init, IdleJob
  <2>2. \A f \in Existing : rows[f].score = None
    BY ScoringAssumption DEF Init, Existing, Unscored
  <2> QED
    BY <2>1, <2>2 DEF GroupInv, GroupIsCurrent, GroupsKnown
<1>2. TypeInv /\ GroupInv /\ [Next]_vars => GroupInv'
  <2> SUFFICES ASSUME TypeInv, GroupInv, [Next]_vars PROVE GroupInv'
    OBVIOUS
  <2>a. \A w \in Workers : jobs[w] \in Job /\ JobOK(jobs[w], Existing)
    BY DEF TypeInv, TypeOK, JobsOK
  <2>b. \A f \in Funds : rows[f] \in Row \cup {NoRow}
    BY DEF TypeInv, TypeOK
  <2>1. ASSUME NEW f \in Funds, Upsert(f) PROVE GroupInv'
    <3>1. PICK benchmark \in Benchmarks, ter \in Ter \cup {None} :
            rows' = [rows EXCEPT ![f] = Upserted(rows[f], benchmark, ter)]
      BY <2>1 DEF Upsert
    <3>2. rows'[f].score = None
      BY <2>b, <3>1, UpsertedUnscored DEF TypeInv, TypeOK
    <3>3. \A g \in Funds : g # f => rows'[g] = rows[g]
      BY <3>1 DEF TypeInv, TypeOK
    <3>4. GroupIsCurrent'
      BY <2>1, <3>2, <3>3 DEF Upsert, GroupInv, GroupIsCurrent, Existing
    <3>5. GroupsKnown'
      <4> SUFFICES ASSUME NEW w \in Workers, jobs'[w].op = "recalculate",
                          NEW g \in jobs'[w].todo \ jobs'[w].touched
                   PROVE  jobs'[w].plan[g].group = KeyOf(rows'[g])
        BY DEF GroupsKnown
      <4>1. jobs'[w] = Disturbed(jobs[w], f)
        BY <2>1 DEF Upsert
      <4>2. /\ jobs[w].op = "recalculate"
            /\ g \in jobs[w].todo \ jobs[w].touched
            /\ g # f /\ jobs'[w].plan = jobs[w].plan
        BY <2>a, <4>1, UntouchedBefore
      <4>3. g \in Funds
        BY <2>a, <4>2 DEF Job
      <4> QED
        BY <3>3, <4>2, <4>3 DEF GroupInv, GroupsKnown
    <3> QED
      BY <3>4, <3>5 DEF GroupInv
  <2>2. ASSUME NEW f \in Funds, SetHidden(f) PROVE GroupInv'
    <3>1. rows[f] \in Row
      BY <2>2, <2>b DEF SetHidden
    <3>2. /\ KeyOf(rows'[f]) = KeyOf(rows[f])
          /\ rows'[f].score = rows[f].score /\ rows'[f].group = rows[f].group
      BY <2>2, <3>1 DEF SetHidden, KeyOf, Row, TypeInv, TypeOK
    <3>3. \A g \in Funds : g # f => rows'[g] = rows[g]
      BY <2>2 DEF SetHidden, TypeInv, TypeOK
    <3>4. GroupIsCurrent'
      BY <2>2, <3>2, <3>3 DEF SetHidden, GroupInv, GroupIsCurrent, Existing
    <3>5. GroupsKnown'
      BY <2>2, <2>a, <3>2, <3>3 DEF SetHidden, GroupInv, GroupsKnown, Job
    <3> QED
      BY <3>4, <3>5 DEF GroupInv
  <2>3. ASSUME NEW w \in Workers, StartRecalculate(w) PROVE GroupInv'
    <3>1. /\ jobs'[w].op = "recalculate" /\ jobs'[w].todo = Existing
          /\ \A f \in Existing : jobs'[w].plan[f].group = KeyOf(rows[f])
      BY <2>3 DEF StartRecalculate, TypeInv, TypeOK, ResultOf, Existing
    <3>2. \A v \in Workers : v # w => jobs'[v] = jobs[v]
      BY <2>3 DEF StartRecalculate, TypeInv, TypeOK
    <3>3. UNCHANGED <<rows, late>>
      BY <2>3 DEF StartRecalculate
    <3> QED
      BY <3>1, <3>2, <3>3 DEF GroupInv, GroupsKnown, GroupIsCurrent, Existing
  <2>4. ASSUME NEW w \in Workers, StartBackfill(w) PROVE GroupInv'
    <3>1. jobs'[w].op = "backfill" /\ \A v \in Workers : v # w => jobs'[v] = jobs[v]
      BY <2>4 DEF StartBackfill, TypeInv, TypeOK
    <3>2. UNCHANGED <<rows, late>>
      BY <2>4 DEF StartBackfill
    <3> QED
      BY <3>1, <3>2 DEF GroupInv, GroupsKnown, GroupIsCurrent, Existing
  <2>5. ASSUME NEW w \in Workers, WriteScore(w) PROVE GroupInv'
    <3> DEFINE f == Current(w)
    <3>1. /\ jobs[w].op = "recalculate" /\ f \in jobs[w].todo /\ f \in Funds
          /\ rows[f] \in Row /\ jobs[w].plan[f] \in Result
      BY <2>5, CurrentOK DEF WriteScore
    <3>2. rows' = [rows EXCEPT ![f] = Materialized(rows[f], jobs[w].plan[f])]
      BY <2>5 DEF WriteScore
    <3>3. /\ KeyOf(rows'[f]) = KeyOf(rows[f])
          /\ rows'[f].group = jobs[w].plan[f].group
      BY <3>1, <3>2, MaterializedKeeps DEF TypeInv, TypeOK
    <3>4. \A g \in Funds : g # f => rows'[g] = rows[g]
      BY <3>2 DEF TypeInv, TypeOK
    <3>5. f \notin jobs[w].touched => jobs[w].plan[f].group = KeyOf(rows[f])
      BY <3>1 DEF GroupInv, GroupsKnown
    <3>6. late' = IF f \in jobs[w].touched THEN late \cup {f} ELSE late \ {f}
      BY <2>5 DEF WriteScore
    <3> HIDE DEF f
    <3>7. GroupIsCurrent'
      BY <3>3, <3>4, <3>5, <3>6 DEF GroupInv, GroupIsCurrent, Existing
    <3>8. GroupsKnown'
      <4> SUFFICES ASSUME NEW v \in Workers, jobs'[v].op = "recalculate",
                          NEW g \in jobs'[v].todo \ jobs'[v].touched
                   PROVE  jobs'[v].plan[g].group = KeyOf(rows'[g])
        BY DEF GroupsKnown
      <4>1. /\ jobs[v].op = "recalculate"
            /\ g \in jobs[v].todo \ jobs[v].touched
            /\ jobs'[v].plan[g] = jobs[v].plan[g]
        <5>1. CASE v = w
          <6>1. jobs'[v] = Advanced(w)
            BY <2>5, <5>1 DEF WriteScore
          <6> QED
            BY <3>1, <5>1, <6>1, AdvancedKeeps DEF f
        <5>2. CASE v # w
          <6>1. jobs'[v] = [jobs[v] EXCEPT !.fresh = @ /\ jobs[w].fresh]
            BY <2>5, <5>2 DEF WriteScore
          <6> QED
            BY <2>a, <6>1 DEF Job
        <5> QED
          BY <5>1, <5>2
      <4>2. g \in Funds
        BY <2>a, <4>1 DEF Job
      <4> QED
        BY <3>3, <3>4, <4>1, <4>2 DEF GroupInv, GroupsKnown
    <3> QED
      BY <3>7, <3>8 DEF GroupInv
  <2>6. ASSUME NEW w \in Workers, BackfillBenchmark(w) PROVE GroupInv'
    <3> DEFINE f == Current(w)
    <3>1. jobs[w].op = "backfill" /\ f \in Funds
      BY <2>6, CurrentOK DEF BackfillBenchmark
    <3>2. \A g \in Funds : g # f => rows'[g] = rows[g]
      BY <2>6 DEF BackfillBenchmark, TypeInv, TypeOK
    <3>3. late' = late \cup {f}
      BY <2>6 DEF BackfillBenchmark
    <3>4. \A v \in Workers :
            jobs'[v] = IF v = w THEN Advanced(w) ELSE Disturbed(jobs[v], f)
      BY <2>6 DEF BackfillBenchmark
    <3> HIDE DEF f
    <3>5. GroupIsCurrent'
      BY <3>2, <3>3 DEF GroupInv, GroupIsCurrent, Existing
    <3>6. GroupsKnown'
      <4> SUFFICES ASSUME NEW v \in Workers, jobs'[v].op = "recalculate",
                          NEW g \in jobs'[v].todo \ jobs'[v].touched
                   PROVE  jobs'[v].plan[g].group = KeyOf(rows'[g])
        BY DEF GroupsKnown
      <4>1. v # w
        BY <3>1, <3>4, AdvancedKeeps
      <4>2. /\ jobs[v].op = "recalculate"
            /\ g \in jobs[v].todo \ jobs[v].touched
            /\ g # f /\ jobs'[v].plan = jobs[v].plan
        BY <2>a, <3>1, <3>4, <4>1, UntouchedBefore
      <4>3. g \in Funds
        BY <2>a, <4>2 DEF Job
      <4> QED
        BY <3>2, <4>2, <4>3 DEF GroupInv, GroupsKnown
    <3> QED
      BY <3>5, <3>6 DEF GroupInv
  <2>7. ASSUME NEW w \in Workers, Fail(w) PROVE GroupInv'
    <3>1. jobs'[w].op = "none" /\ \A v \in Workers : v # w => jobs'[v] = jobs[v]
      BY <2>7 DEF Fail, IdleJob, TypeInv, TypeOK
    <3>2. UNCHANGED <<rows, late>>
      BY <2>7 DEF Fail
    <3> QED
      BY <3>1, <3>2 DEF GroupInv, GroupsKnown, GroupIsCurrent, Existing
  <2>8. ASSUME UNCHANGED vars PROVE GroupInv'
    BY <2>8 DEF vars, GroupInv, GroupsKnown, GroupIsCurrent, Existing
  <2> QED
    BY <2>1, <2>2, <2>3, <2>4, <2>5, <2>6, <2>7, <2>8 DEF Next, Step
<1> QED
  BY <1>1, <1>2, TypeInvariant, PTL DEF Spec

\* A scored fund is in the group of its benchmark, but for late writers, for any
\* number of funds, recalculations and backfills.
THEOREM GroupsAreCurrent == Spec => []GroupIsCurrent
<1>1. GroupInv => GroupIsCurrent
  BY DEF GroupInv
<1> QED
  BY <1>1, GroupInvariant, PTL

-----------------------------------------------------------------------------
(* What fresh results say of the table. *)

\* The results of a fresh recalculation are those of the table, written or not.
FreshOK(j) ==
  \A f \in Existing :
    IF f \in j.todo THEN j.plan[f] = ResultOf(rows, f)
    ELSE Stored(rows[f]) = ResultOf(rows, f)

Fresh(w) == jobs[w].op = "recalculate" /\ jobs[w].fresh

FreshJobs == \A w \in Workers : Fresh(w) => FreshOK(jobs[w])

ResultInv == FreshJobs /\ (settled => Coherent)

\* A step that writes neither existence, benchmark nor TER changes no result.
LEMMA ResultsKept ==
  ASSUME SameData(rows, rows')
  PROVE  /\ Existing' = Existing
         /\ \A g \in Existing : ResultOf(rows', g) = ResultOf(rows, g)
<1>1. Existing' = Existing
  BY DEF SameData, Existing
<1>2. \A g \in Existing : g \in Funds /\ rows[g] # NoRow
  BY DEF Existing
<1>3. \A g \in Existing : ResultOf(rows', g) = ResultOf(rows, g)
  BY <1>2, ResultOfData
<1> QED
  BY <1>1, <1>3

\* Writing a result writes that fund's result and no data.
LEMMA ResultWritten ==
  ASSUME TypeInv, NEW f \in Funds, rows[f] \in Row, NEW result \in Result,
         rows' = [rows EXCEPT ![f] = Materialized(rows[f], result)]
  PROVE  /\ SameData(rows, rows')
         /\ Stored(rows'[f]) = result
         /\ \A g \in Funds : g # f => rows'[g] = rows[g]
<1>1. \A g \in Funds : g # f => rows'[g] = rows[g]
  BY DEF TypeInv, TypeOK
<1>2. rows'[f] = Materialized(rows[f], result)
  BY DEF TypeInv, TypeOK
<1>3. /\ rows'[f].benchmark = rows[f].benchmark /\ rows'[f].ter = rows[f].ter
      /\ Stored(rows'[f]) = result
  BY <1>2, MaterializedKeeps
<1>4. rows'[f] # NoRow /\ rows[f] # NoRow
  BY <1>2, MaterializedType, ScoringAssumption
<1>5. SameData(rows, rows')
  BY <1>1, <1>3, <1>4 DEF SameData
<1> QED
  BY <1>1, <1>3, <1>5

\* What a job's freshness says carries over where results and stored results stay.
LEMMA FreshKept ==
  ASSUME SameData(rows, rows'), NEW j, NEW k, FreshOK(j), k.todo = j.todo,
         k.plan = j.plan, \A g \in Existing : Stored(rows'[g]) = Stored(rows[g])
  PROVE  \A g \in Existing' :
           IF g \in k.todo THEN k.plan[g] = ResultOf(rows', g)
           ELSE Stored(rows'[g]) = ResultOf(rows', g)
BY ResultsKept DEF FreshOK

LEMMA ResultInvariant == Spec => []ResultInv
<1>1. Init => ResultInv
  BY DEF Init, ResultInv, FreshJobs, Fresh, IdleJob
<1>2. TypeInv /\ ResultInv /\ [Next]_vars => ResultInv'
  <2> SUFFICES ASSUME TypeInv, ResultInv, [Next]_vars PROVE ResultInv'
    OBVIOUS
  <2>a. \A w \in Workers : jobs[w] \in Job /\ JobOK(jobs[w], Existing)
    BY DEF TypeInv, TypeOK, JobsOK
  <2>b. \A f \in Funds : rows[f] \in Row \cup {NoRow}
    BY DEF TypeInv, TypeOK
  <2>1. ASSUME NEW f \in Funds, Upsert(f) PROVE ResultInv'
    <3>1. \A w \in Workers : jobs'[w] = Disturbed(jobs[w], f)
      BY <2>1 DEF Upsert
    <3>2. \A w \in Workers : ~ Fresh(w)'
      BY <2>a, <3>1, DisturbedStale DEF Fresh
    <3> QED
      BY <2>1, <3>2 DEF Upsert, ResultInv, FreshJobs
  <2>2. ASSUME NEW f \in Funds, SetHidden(f) PROVE ResultInv'
    <3>1. rows[f] \in Row /\ jobs' = jobs /\ settled' = settled
      BY <2>2, <2>b DEF SetHidden
    <3>2. rows'[f] = [rows[f] EXCEPT !.hidden = ~ @]
      BY <2>2 DEF SetHidden, TypeInv, TypeOK
    <3>3. \A g \in Funds : g # f => rows'[g] = rows[g]
      BY <2>2 DEF SetHidden, TypeInv, TypeOK
    <3>4. /\ rows'[f].benchmark = rows[f].benchmark /\ rows'[f].ter = rows[f].ter
          /\ rows'[f].score = rows[f].score /\ rows'[f].group = rows[f].group
          /\ rows'[f].rank = rows[f].rank /\ rows'[f] \in Row
      BY <3>1, <3>2 DEF Row
    <3>5. rows'[f] # NoRow /\ rows[f] # NoRow
      BY <3>1, <3>4, ScoringAssumption
    <3>6. SameData(rows, rows')
      BY <3>3, <3>4, <3>5 DEF SameData
    <3>7. \A g \in Funds : Stored(rows'[g]) = Stored(rows[g])
      BY <3>3, <3>4 DEF Stored
    <3>8. \A g \in Existing : Stored(rows'[g]) = Stored(rows[g])
      BY <3>7 DEF Existing
    <3>9. FreshJobs'
      BY <3>1, <3>6, <3>8, FreshKept DEF ResultInv, FreshJobs, Fresh, FreshOK
    <3>10. settled' => Coherent'
      BY <3>1, <3>6, <3>8, ResultsKept DEF ResultInv, Coherent
    <3> QED
      BY <3>9, <3>10 DEF ResultInv
  <2>3. ASSUME NEW w \in Workers, StartRecalculate(w) PROVE ResultInv'
    <3>1. /\ jobs'[w].todo = Existing
          /\ \A f \in Existing : jobs'[w].plan[f] = ResultOf(rows, f)
      BY <2>3 DEF StartRecalculate, TypeInv, TypeOK, Existing
    <3>2. \A v \in Workers : v # w => jobs'[v] = jobs[v]
      BY <2>3 DEF StartRecalculate, TypeInv, TypeOK
    <3>3. rows' = rows /\ settled' = settled
      BY <2>3 DEF StartRecalculate
    <3>4. FreshJobs'
      BY <3>1, <3>2, <3>3 DEF ResultInv, FreshJobs, Fresh, FreshOK, Existing
    <3> QED
      BY <3>3, <3>4 DEF ResultInv, Coherent, Existing
  <2>4. ASSUME NEW w \in Workers, jobs'[w].op # "recalculate",
               \A v \in Workers : v # w => jobs'[v] = jobs[v],
               rows' = rows, settled' = settled
        PROVE  ResultInv'
    <3>1. FreshJobs'
      BY <2>4 DEF ResultInv, FreshJobs, Fresh, FreshOK, Existing
    <3> QED
      BY <2>4, <3>1 DEF ResultInv, Coherent, Existing
  <2>5. ASSUME NEW w \in Workers, WriteScore(w) PROVE ResultInv'
    <3> DEFINE f == Current(w)
    <3>1. /\ jobs[w].op = "recalculate" /\ f \in jobs[w].todo /\ f \in Funds
          /\ rows[f] \in Row /\ jobs[w].plan[f] \in Result
      BY <2>5, CurrentOK DEF WriteScore
    <3>2. rows' = [rows EXCEPT ![f] = Materialized(rows[f], jobs[w].plan[f])]
      BY <2>5 DEF WriteScore
    <3>3. /\ SameData(rows, rows') /\ Stored(rows'[f]) = jobs[w].plan[f]
          /\ \A g \in Funds : g # f => rows'[g] = rows[g]
      BY <3>1, <3>2, ResultWritten
    <3>4. /\ Existing' = Existing
          /\ \A g \in Existing : ResultOf(rows', g) = ResultOf(rows, g)
      BY <3>3, ResultsKept
    <3>5. f \in Existing
      BY <2>a, <3>1 DEF JobOK
    <3>6. jobs[w].fresh => Fresh(w) /\ FreshOK(jobs[w])
      BY <3>1 DEF Fresh, ResultInv, FreshJobs
    <3>7. jobs[w].fresh => Stored(rows'[f]) = ResultOf(rows', f)
      BY <3>1, <3>3, <3>4, <3>5, <3>6 DEF FreshOK
    <3>8. jobs[w].fresh \in BOOLEAN
      BY <2>a DEF Job
    <3>9. settled' = (jobs[w].fresh /\ (settled \/ jobs[w].todo = {f}))
      BY <2>5 DEF WriteScore
    <3>10. \A v \in Workers :
             jobs'[v] = IF v = w THEN Advanced(w)
                        ELSE [jobs[v] EXCEPT !.fresh = @ /\ jobs[w].fresh]
      BY <2>5 DEF WriteScore
    <3>11. \A g \in Existing : g \in Funds
      BY DEF Existing
    <3> HIDE DEF f
    <3>12. settled' => Coherent'
      <4> SUFFICES ASSUME settled', NEW g \in Existing
                   PROVE  Stored(rows'[g]) = ResultOf(rows', g)
        BY <3>4 DEF Coherent
      <4>1. jobs[w].fresh /\ (settled \/ jobs[w].todo = {f})
        BY <3>9
      <4>2. CASE g = f
        BY <3>7, <4>1, <4>2
      <4>3. CASE g # f
        <5>1. rows'[g] = rows[g]
          BY <3>3, <3>11, <4>3
        <5>2. Stored(rows[g]) = ResultOf(rows, g)
          <6>1. CASE settled
            BY <6>1 DEF ResultInv, Coherent
          <6>2. CASE jobs[w].todo = {f}
            BY <3>6, <4>1, <4>3, <6>2 DEF FreshOK
          <6> QED
            BY <4>1, <6>1, <6>2
        <5> QED
          BY <3>4, <5>1, <5>2
      <4> QED
        BY <4>2, <4>3
    <3>13. FreshJobs'
      <4> SUFFICES ASSUME NEW v \in Workers, Fresh(v)', NEW g \in Existing
                   PROVE  IF g \in jobs'[v].todo THEN jobs'[v].plan[g] = ResultOf(rows', g)
                          ELSE Stored(rows'[g]) = ResultOf(rows', g)
        BY <3>4 DEF FreshJobs, FreshOK
      <4>1. /\ jobs[w].fresh /\ Fresh(v)
            /\ jobs'[v].todo = jobs[v].todo \ (IF v = w THEN {f} ELSE {})
            /\ g \in jobs'[v].todo => jobs'[v].plan[g] = jobs[v].plan[g]
        <5>1. CASE v = w
          <6>1. jobs'[v] = Advanced(w)
            BY <3>10, <5>1
          <6>2. Advanced(w).op = "recalculate" /\ Advanced(w).fresh
            BY <6>1 DEF Fresh
          <6>3. /\ Advanced(w).todo = jobs[w].todo \ {f}
                /\ Advanced(w).fresh = jobs[w].fresh
                /\ \A h \in Advanced(w).todo : Advanced(w).plan[h] = jobs[w].plan[h]
            BY <3>1, <6>2, AdvancedKeeps DEF f
          <6> QED
            BY <3>1, <5>1, <6>1, <6>2, <6>3 DEF Fresh
        <5>2. CASE v # w
          <6>1. jobs'[v] = [jobs[v] EXCEPT !.fresh = @ /\ jobs[w].fresh]
            BY <3>10, <5>2
          <6>2. /\ jobs'[v].op = jobs[v].op /\ jobs'[v].todo = jobs[v].todo
                /\ jobs'[v].plan = jobs[v].plan
                /\ jobs'[v].fresh = (jobs[v].fresh /\ jobs[w].fresh)
            BY <2>a, <6>1 DEF Job
          <6>3. jobs'[v].op = "recalculate" /\ jobs'[v].fresh
            BY DEF Fresh
          <6> QED
            BY <5>2, <6>2, <6>3 DEF Fresh
        <5> QED
          BY <5>1, <5>2
      <4>2. FreshOK(jobs[v])
        BY <4>1 DEF ResultInv, FreshJobs
      <4>3. CASE g \in jobs'[v].todo
        BY <3>4, <4>1, <4>2, <4>3 DEF FreshOK
      <4>4. CASE g \notin jobs'[v].todo /\ g = f
        BY <3>7, <4>1, <4>4
      <4>5. CASE g \notin jobs'[v].todo /\ g # f
        <5>1. g \notin jobs[v].todo
          BY <4>1, <4>5
        <5>2. rows'[g] = rows[g]
          BY <3>3, <3>11, <4>5
        <5> QED
          BY <3>4, <4>2, <4>5, <5>1, <5>2 DEF FreshOK
      <4> QED
        BY <4>3, <4>4, <4>5
    <3> QED
      BY <3>12, <3>13 DEF ResultInv
  <2>6. ASSUME NEW w \in Workers, BackfillBenchmark(w) PROVE ResultInv'
    <3> DEFINE f == Current(w)
    <3>1. jobs[w].op = "backfill" /\ f \in Funds
      BY <2>6, CurrentOK DEF BackfillBenchmark
    <3>2. \A v \in Workers :
            jobs'[v] = IF v = w THEN Advanced(w) ELSE Disturbed(jobs[v], f)
      BY <2>6 DEF BackfillBenchmark
    <3> HIDE DEF f
    <3>3. ASSUME NEW v \in Workers PROVE ~ Fresh(v)'
      <4>1. CASE v = w
        BY <3>1, <3>2, <4>1, AdvancedKeeps DEF Fresh
      <4>2. CASE v # w
        <5>1. jobs'[v] = Disturbed(jobs[v], f)
          BY <3>2, <4>2
        <5> QED
          BY <2>a, <3>1, <5>1, DisturbedStale DEF Fresh
      <4> QED
        BY <4>1, <4>2
    <3> QED
      BY <2>6, <3>3 DEF BackfillBenchmark, ResultInv, FreshJobs
  <2>7. ASSUME NEW w \in Workers, StartBackfill(w) PROVE ResultInv'
    BY <2>4, <2>7 DEF StartBackfill, TypeInv, TypeOK
  <2>8. ASSUME NEW w \in Workers, Fail(w) PROVE ResultInv'
    BY <2>4, <2>8 DEF Fail, IdleJob, TypeInv, TypeOK
  <2>9. ASSUME UNCHANGED vars PROVE ResultInv'
    BY <2>9 DEF vars, ResultInv, FreshJobs, Fresh, FreshOK, Coherent, Existing
  <2> QED
    BY <2>1, <2>2, <2>3, <2>5, <2>6, <2>7, <2>8, <2>9 DEF Next, Step
<1> QED
  BY <1>1, <1>2, TypeInvariant, PTL DEF Spec

-----------------------------------------------------------------------------
(* The rankings of a coherent table. *)

LEMMA BeforeIrreflexive ==
  \A a, b, f, g, h \in Int :
    /\ ~ Before(a, f, a, f)
    /\ g # f /\ Before(a, g, b, f) => ~ Before(b, f, a, g)
BY DEF Before

LEMMA BeforeTransitive ==
  \A a, b, c, f, g, h \in Int :
    Before(a, h, b, g) /\ Before(b, g, c, f) => Before(a, h, c, f)
BY DEF Before

\* In a coherent table the stored fields of a fund are its result.
LEMMA CoherentRow ==
  ASSUME TypeInv, Coherent, NEW f \in Existing
  PROVE  /\ f \in Funds /\ rows[f] # NoRow /\ f \in Int
         /\ rows[f].score = ScoreOf(rows, f) /\ rows[f].score \in Int
         /\ rows[f].rank = 1 + Cardinality(Ahead(rows, f))
         /\ Ahead(rows, f) \in SUBSET (Existing \ {f})
         /\ IsFiniteSet(Ahead(rows, f)) /\ Cardinality(Ahead(rows, f)) \in Nat
<1>1. f \in Funds /\ rows[f] # NoRow /\ f \in Int
  BY ScoringAssumption DEF Existing
<1>2. Stored(rows[f]) = ResultOf(rows, f)
  BY DEF Coherent
<1>3. rows[f].score = ScoreOf(rows, f) /\ rows[f].rank = RankOf(rows, f)
  BY <1>2 DEF Stored, ResultOf
<1>4. rows \in Table
  BY DEF TypeInv, TypeOK, Table
<1>5. ScoreOf(rows, f) \in Int
  BY <1>1, <1>4, ScoreType
<1>6. Ahead(rows, f) \in SUBSET Peers(rows, f)
  BY DEF Ahead
<1>7. IsFiniteSet(Ahead(rows, f)) /\ Cardinality(Ahead(rows, f)) \in Nat
  BY <1>1, <1>4, <1>6, PeersFinite, FS_Subset, FS_CardinalityType
<1>8. Ahead(rows, f) \in SUBSET (Existing \ {f})
  BY <1>6 DEF Peers, Existing
<1>9. RankOf(rows, f) = 1 + Cardinality(Ahead(rows, f))
  BY DEF RankOf, Ahead
<1> QED
  BY <1>1, <1>3, <1>5, <1>7, <1>8, <1>9

\* There, the funds ahead are those of the group that the list puts first.
LEMMA AheadStored ==
  ASSUME TypeInv, Coherent, NEW f \in Existing
  PROVE  Ahead(rows, f) =
           {g \in Existing \ {f} : KeyOf(rows[g]) = KeyOf(rows[f]) /\ StoredBefore(g, f)}
<1>1. Peers(rows, f) = {g \in Existing \ {f} : KeyOf(rows[g]) = KeyOf(rows[f])}
  BY DEF Peers, Existing
<1>2. \A g \in Existing : rows[g].score = ScoreOf(rows, g)
  BY CoherentRow
<1>3. \A g \in Existing : StoredBefore(g, f) <=>
                            Before(ScoreOf(rows, g), g, ScoreOf(rows, f), f)
  BY <1>2 DEF StoredBefore
<1> QED
  BY <1>1, <1>3 DEF Ahead

\* A fund the list puts before another has the better rank.
LEMMA RanksFollowTheList ==
  ASSUME TypeInv, Coherent, NEW f \in Existing, NEW g \in Existing,
         KeyOf(rows[g]) = KeyOf(rows[f]), StoredBefore(g, f)
  PROVE  rows[g].rank < rows[f].rank
<1> DEFINE A == Ahead(rows, f)
           B == Ahead(rows, g)
<1>1. /\ f \in Int /\ g \in Int
      /\ rows[f].score \in Int /\ rows[g].score \in Int
  BY CoherentRow
<1>2. f # g
  BY <1>1, BeforeIrreflexive DEF StoredBefore
<1>3. g \in A
  BY <1>2, AheadStored
<1>4. g \notin B
  BY CoherentRow
<1>5. B \in SUBSET A
  <2> SUFFICES ASSUME NEW h \in B PROVE h \in A
    OBVIOUS
  <2>1. h \in Existing /\ KeyOf(rows[h]) = KeyOf(rows[g]) /\ StoredBefore(h, g)
    BY AheadStored
  <2>2. h \in Int /\ rows[h].score \in Int
    BY <2>1, CoherentRow
  <2>3. StoredBefore(h, f)
    BY <1>1, <2>1, <2>2, BeforeTransitive DEF StoredBefore
  <2>4. h # f
    BY <1>1, <2>2, <2>3, BeforeIrreflexive DEF StoredBefore
  <2> QED
    BY <2>1, <2>3, <2>4, AheadStored
<1>6. /\ IsFiniteSet(A) /\ IsFiniteSet(B)
      /\ Cardinality(A) \in Nat /\ Cardinality(B) \in Nat
  BY CoherentRow
<1>7. B # A
  BY <1>3, <1>4
<1>8. rows[f].rank = 1 + Cardinality(A) /\ rows[g].rank = 1 + Cardinality(B)
  BY CoherentRow
<1> HIDE DEF A, B
<1>9. Cardinality(B) < Cardinality(A)
  BY <1>5, <1>6, <1>7, FS_Subset
<1> QED
  BY <1>6, <1>8, <1>9

LEMMA ShownExisting ==
  ASSUME NEW k \in Key, NEW f \in Shown(k)
  PROVE  f \in Existing /\ KeyOf(rows[f]) = k
BY DEF Shown, Returned, Eligible

\* After an undisturbed recalculation every stored result is the one its fund has
\* in its group, whatever else was recalculated meanwhile.
THEOREM SettledIsCoherent == Spec => [](settled => Coherent)
<1>1. ResultInv => (settled => Coherent)
  BY DEF ResultInv
<1> QED
  BY <1>1, ResultInvariant, PTL

\* After an undisturbed recalculation every list is in the order of its ranks, for
\* any number of funds and overlapping recalculations and whatever the limits.
THEOREM RankingsAreInOrder == Spec => []RankingsInOrder
<1>1. TypeInv /\ ResultInv => RankingsInOrder
  <2> SUFFICES ASSUME TypeInv, ResultInv, settled, NEW k \in Key,
                      NEW f \in Shown(k), NEW g \in Shown(k), StoredBefore(g, f)
               PROVE  rows[g].rank < rows[f].rank
    BY DEF RankingsInOrder
  <2>1. Coherent
    BY DEF ResultInv
  <2> QED
    BY <2>1, ShownExisting, RanksFollowTheList
<1> QED
  BY <1>1, TypeInvariant, ResultInvariant, PTL

\* The rank beside a fund counts every fund of its group that scores better, listed
\* or not.
THEOREM RanksCountUnlisted == Spec => []RankCountsUnlisted
<1>1. TypeInv /\ ResultInv => RankCountsUnlisted
  <2> SUFFICES ASSUME TypeInv, ResultInv, settled, NEW k \in Key, NEW f \in Shown(k)
               PROVE  rows[f].rank =
                        1 + Cardinality({g \in Existing \ {f} :
                                           KeyOf(rows[g]) = k /\ StoredBefore(g, f)})
    BY DEF RankCountsUnlisted
  <2>1. Coherent
    BY DEF ResultInv
  <2>2. f \in Existing /\ KeyOf(rows[f]) = k
    BY ShownExisting
  <2> QED
    BY <2>1, <2>2, CoherentRow, AheadStored
<1> QED
  BY <1>1, TypeInvariant, ResultInvariant, PTL
=============================================================================
