------------------------- MODULE FundPriceSyncProofs -------------------------
(***************************************************************************)
(* Theorems about FundPriceSync for every calendar, number of overlapping  *)
(* syncs, chunk size and number of faults.  The last one needs only types: *)
(* the returns catch up with the prices, step by step.                     *)
(***************************************************************************)
EXTENDS FundPriceSync, WellFoundedInduction, TLAPS

\* A cutoff of more days is an earlier one, and cutoffs advance with the day.
LEMMA CutoffOrder ==
  \A d, t, u \in Int, l, r \in Nat :
    t <= u /\ l <= r /\ d < t - r => d < u - l
  OBVIOUS

LEMMA ExpiryOrder ==
  ASSUME NEW d \in Int, today \in Int, today' \in Int, today <= today'
  PROVE  /\ Expired(d) => Expired(d)' /\ d < today' - Lookback
         /\ d < today - Lookback => d < today' - Lookback
<1>1. /\ Lookback \in Nat /\ Retention \in Nat
      /\ Lookback <= Retention /\ Lookback <= Lookback /\ Retention <= Retention
  BY RetentionAssumption
<1>2. ASSUME NEW r \in Nat, NEW l \in Nat, l <= r, d < today - r
      PROVE  d < today' - l
  BY <1>2, CutoffOrder
<1> QED
  BY <1>1, <1>2 DEF Expired

\* A nonempty set of natural numbers has a least element.
LEMMA LeastNat ==
  ASSUME NEW T \in SUBSET Nat, T # {}
  PROVE  \E x \in T : \A y \in T : x <= y
<1> DEFINE Less == {p \in Nat \X Nat : p[1] < p[2]}
<1>1. IsWellFoundedOn(Less, Nat)
  BY NatLessThanWellFounded DEF OpToRel
<1>2. PICK x \in T : \A y \in T : ~ (<<y, x>> \in Less)
  BY <1>1, WFMin
<1>3. \A y \in T : ~ (y < x)
  BY <1>2
<1> QED
  BY <1>3

\* Latest yields the newest of a nonempty set of dates up to n.
LEMMA LatestIsNewest ==
  ASSUME NEW n \in Nat, NEW dates \in SUBSET (0 .. n), dates # {}
  PROVE  Latest(dates) \in dates /\ \A d \in dates : d <= Latest(dates)
<1> DEFINE T == {n - d : d \in dates}
<1>0. \A d \in dates : n - d \in Nat
  OBVIOUS
<1>1. T \in SUBSET Nat /\ T # {}
  BY <1>0
<1>2. PICK x \in T : \A y \in T : x <= y
  BY <1>1, LeastNat
<1>3. PICK m \in dates : x = n - m
  OBVIOUS
<1>4. \A d \in dates : d <= m
  <2> SUFFICES ASSUME NEW d \in dates PROVE d <= m
    OBVIOUS
  <2>1. x <= n - d
    BY <1>2
  <2> QED
    BY <1>3, <2>1
<1> QED
  BY <1>4 DEF Latest

\* AtLookback yields one of the dates it chooses from.
LEMMA AtLookbackIsADate ==
  ASSUME NEW dates \in SUBSET Int, dates # {}, NEW target \in Int
  PROVE  AtLookback(dates, target) \in dates
<1> DEFINE key(d) == 2 * Distance(d, target) + (IF d > target THEN 1 ELSE 0)
           T == {key(d) : d \in dates}
<1>1. \A d \in dates : Distance(d, target) \in Nat /\ key(d) \in Nat
  BY DEF Distance
<1>2. T \in SUBSET Nat /\ T # {}
  BY <1>1
<1>3. PICK x \in T : \A y \in T : x <= y
  BY <1>2, LeastNat
<1>4. PICK m \in dates : x = key(m)
  OBVIOUS
<1>5. \A d \in dates : \/ Distance(m, target) < Distance(d, target)
                       \/ Distance(m, target) = Distance(d, target) /\ m <= d
  <2> SUFFICES ASSUME NEW d \in dates
               PROVE  \/ Distance(m, target) < Distance(d, target)
                      \/ Distance(m, target) = Distance(d, target) /\ m <= d
    OBVIOUS
  <2>1. key(m) <= key(d)
    BY <1>3, <1>4
  <2> QED
    BY <2>1 DEF Distance
<1> QED
  BY <1>5 DEF AtLookback

\* The figures of a nonempty history are computed from dates of it.
LEMMA SnapshotFromHistory ==
  ASSUME NEW n \in Nat, NEW dates \in SUBSET (0 .. n)
  PROVE  /\ BuildSnapshot(dates) \in Snapshot
         /\ BuildSnapshot(dates).asOf \in dates \cup {NoDate}
         /\ BuildSnapshot(dates).start \in dates \cup {NoDate}
<1>0. \A d \in dates : d \in Int
  OBVIOUS
<1>1. CASE dates = {}
  BY <1>1 DEF BuildSnapshot, EmptySnapshot, Snapshot, Date
<1>2. CASE dates # {}
  <2>1. Latest(dates) \in dates
    BY <1>2, LatestIsNewest
  <2>2. \A x \in Int : x - Year \in Int
    BY RetentionAssumption
  <2>3. Latest(dates) \in Int /\ dates \in SUBSET Int
    BY <1>0, <2>1
  <2>4. Latest(dates) - Year \in Int
    BY <2>2, <2>3
  <2>5. AtLookback(dates, Latest(dates) - Year) \in dates
    BY <1>2, <2>3, <2>4, AtLookbackIsADate
  <2>6. ASSUME NEW d \in dates, NEW e \in dates
        PROVE  [asOf |-> d, start |-> e] \in Snapshot
    BY <2>3, <2>6 DEF Snapshot, Date
  <2>7. BuildSnapshot(dates) =
          [asOf |-> Latest(dates), start |-> AtLookback(dates, Latest(dates) - Year)]
    BY <1>2 DEF BuildSnapshot
  <2>8. [asOf |-> Latest(dates), start |-> AtLookback(dates, Latest(dates) - Year)] \in Snapshot
    BY <2>1, <2>5, <2>6
  <2> QED
    BY <2>1, <2>5, <2>7, <2>8
<1> QED
  BY <1>1, <1>2

-----------------------------------------------------------------------------
(***************************************************************************)
(* The inductive invariant: what is stored was published (DatesInv), what  *)
(* a sync knows of the range it has yet to fetch (RangeInv), that returns  *)
(* are accounted for in the columns and in the snapshots yet to be written *)
(* (SnapshotInv), and, for the day-loss property, that every published day *)
(* older than one stored, about to be written or resumed from is itself    *)
(* covered (DayInv).                                                       *)
(***************************************************************************)
DatesInv ==
  /\ today \in Nat
  /\ published \subseteq 0 .. today
  /\ prices \subseteq published
  /\ \A w \in Workers :
       /\ jobs[w].todo \subseteq published
       /\ jobs[w].pc # "write" => jobs[w].todo = {}

LEMMA LatestPrice ==
  ASSUME DatesInv, prices # {}
  PROVE  Latest(prices) \in prices /\ \A d \in prices : d <= Latest(prices)
  BY LatestIsNewest DEF DatesInv

LEMMA TypeInvariant == Spec => [](TypeOK /\ DatesInv)
<1>1. Init => TypeOK /\ DatesInv
  BY RetentionAssumption DEF Init, TypeOK, DatesInv, IdleJob, Job, Pc, EmptySnapshot, Snapshot, Date
<1>2. TypeOK /\ DatesInv /\ [Next]_vars => TypeOK' /\ DatesInv'
  <2> SUFFICES ASSUME TypeOK, DatesInv, [Next]_vars PROVE TypeOK' /\ DatesInv'
    OBVIOUS
  <2>0. IdleJob \in Job /\ IdleJob.todo = {} /\ faults + 1 \in Nat /\ today + 1 \in Nat
    BY DEF TypeOK, DatesInv, IdleJob, Job, Pc, EmptySnapshot, Snapshot, Date
  <2>1. ASSUME NEW w \in Workers, NEW job \in Job, Goto(w, job),
               prices' \in SUBSET published, returns' \in Snapshot,
               abandoned' \in SUBSET Int, faults' \in Nat,
               job.todo \subseteq published, job.pc # "write" => job.todo = {}
        PROVE  TypeOK' /\ DatesInv'
    BY <2>1 DEF Goto, TypeOK, DatesInv
  <2>2. CASE NextDay
    BY <2>2, <2>0 DEF NextDay, TypeOK, DatesInv
  <2>3. CASE Publish
    BY <2>3 DEF Publish, TypeOK, DatesInv
  <2>4. ASSUME NEW w \in Workers, Start(w)
        PROVE  TypeOK' /\ DatesInv'
    <3>1. PICK window \in Windows, incremental \in BOOLEAN :
            Goto(w, [IdleJob EXCEPT !.pc = "latest", !.incremental = incremental,
                                    !.from = window.from, !.to = window.to])
      BY <2>4 DEF Start
    <3>2. window.from \in Date /\ window.to \in Date
      BY WindowsAssumption
    <3> DEFINE job == [IdleJob EXCEPT !.pc = "latest", !.incremental = incremental,
                                      !.from = window.from, !.to = window.to]
    <3>3. job \in Job /\ job.todo = {}
      BY <2>0, <3>2 DEF Job, Pc
    <3> HIDE DEF job
    <3> QED
      BY <2>1, <2>4, <3>1, <3>3 DEF Start, job, TypeOK, DatesInv
  <2>5. ASSUME NEW w \in Workers, ReadLatest(w)
        PROVE  TypeOK' /\ DatesInv'
    <3> DEFINE latest == IF jobs[w].incremental THEN Latest(prices) ELSE NoDate
               from == RangeFrom(jobs[w], latest)
               to == RangeTo(jobs[w])
               go == [jobs[w] EXCEPT !.pc = "fetch", !.latest = latest,
                                     !.from = from, !.to = to]
               done == [IdleJob EXCEPT !.pc = "prune"]
    <3>1. latest \in Date
      BY LatestPrice DEF TypeOK, DatesInv, Latest, Date
    <3>2. from \in Date /\ to \in Date
      BY <3>1, RetentionAssumption DEF RangeFrom, RangeTo, Resume, TypeOK, Job, Date
    <3>3. jobs[w].pc = "latest" /\ jobs[w] \in Job /\ jobs[w].todo = {}
      BY <2>5 DEF ReadLatest, TypeOK, DatesInv
    <3>4. done \in Job /\ done.todo = {}
      BY <2>0 DEF Job, Pc
    <3> HIDE DEF latest, from, to
    <3>5. go \in Job /\ go.todo = {}
      BY <3>1, <3>2, <3>3 DEF Job, Pc
    <3>6. /\ Goto(w, go) \/ Goto(w, done)
          /\ UNCHANGED <<prices, returns, abandoned, faults>>
      BY <2>5 DEF ReadLatest, latest, from, to
    <3> HIDE DEF go, done
    <3> QED
      BY <2>1, <3>4, <3>5, <3>6 DEF TypeOK, DatesInv
  <2>6. ASSUME NEW w \in Workers, Fetch(w)
        PROVE  TypeOK' /\ DatesInv'
    <3> DEFINE answer == {d \in published : InRange(d, jobs[w].from, jobs[w].to)}
               new == {d \in answer : jobs[w].latest # NoDate => d > jobs[w].latest}
               job == [IdleJob EXCEPT !.pc = IF new = {} THEN "prune" ELSE "write",
                                      !.todo = new, !.dropped = answer \ new]
    <3>1. answer \subseteq published /\ new \subseteq published /\ published \subseteq Int
      BY DEF TypeOK
    <3>2. /\ Goto(w, job)
          /\ UNCHANGED <<prices, returns, abandoned, faults>>
      BY <2>6 DEF Fetch
    <3> HIDE DEF answer, new
    <3>3. job \in Job /\ job.todo = new /\ (job.pc # "write" => new = {})
      BY <2>0, <3>1 DEF Job, Pc
    <3> HIDE DEF job
    <3> QED
      BY <2>1, <3>1, <3>2, <3>3 DEF TypeOK, DatesInv
  <2>7. ASSUME NEW w \in Workers, WriteChunk(w)
        PROVE  TypeOK' /\ DatesInv'
    <3> DEFINE chunk == Chunk(jobs[w].todo)
               left == jobs[w].todo \ chunk
               job == [jobs[w] EXCEPT !.pc = IF left = {} THEN "prune" ELSE "write",
                                      !.todo = left]
    <3>1. chunk \subseteq published /\ left \subseteq published /\ published \subseteq Int
          /\ jobs[w] \in Job
      BY DEF Chunk, TypeOK, DatesInv
    <3>2. /\ Goto(w, job)
          /\ prices' = prices \cup chunk /\ abandoned' = abandoned \ chunk
          /\ UNCHANGED <<returns, faults>>
      BY <2>7 DEF WriteChunk
    <3> HIDE DEF chunk, left
    <3>3. job \in Job /\ job.todo = left /\ (job.pc # "write" => left = {})
      BY <3>1 DEF Job, Pc
    <3> HIDE DEF job
    <3> QED
      BY <2>1, <3>1, <3>2, <3>3 DEF TypeOK, DatesInv
  <2>8. ASSUME NEW w \in Workers, Prune(w) \/ ReadHistory(w)
        PROVE  TypeOK' /\ DatesInv'
    <3> DEFINE history == {d \in prices : d >= today - Lookback}
               pruned == [IdleJob EXCEPT !.pc = "history"]
               read == [IdleJob EXCEPT !.pc = "returns", !.snapshot = BuildSnapshot(history)]
    <3>1. BuildSnapshot(history) \in Snapshot
      BY SnapshotFromHistory DEF DatesInv
    <3> HIDE DEF history
    <3>2. pruned \in Job /\ pruned.todo = {} /\ read \in Job /\ read.todo = {}
      BY <2>0, <3>1 DEF Job, Pc
    <3>3. /\ Goto(w, pruned) \/ Goto(w, read)
          /\ prices' \subseteq prices /\ UNCHANGED <<returns, abandoned, faults>>
      BY <2>8 DEF Prune, ReadHistory, history
    <3> HIDE DEF pruned, read
    <3> QED
      BY <2>1, <3>2, <3>3 DEF TypeOK, DatesInv
  <2>9. ASSUME NEW w \in Workers, WriteReturns(w) \/ Fail(w)
        PROVE  TypeOK' /\ DatesInv'
    <3>1. jobs[w] \in Job /\ jobs[w].snapshot \in Snapshot /\ jobs[w].todo \subseteq Int
      BY DEF TypeOK, Job
    <3>2. /\ Goto(w, IdleJob) /\ prices' = prices
          /\ returns' \in {returns, jobs[w].snapshot}
          /\ abandoned' \in {abandoned, abandoned \cup (jobs[w].todo \ prices)}
          /\ faults' \in {faults, faults + 1}
      BY <2>9 DEF WriteReturns, Fail
    <3> QED
      BY <2>0, <2>1, <3>1, <3>2 DEF TypeOK, DatesInv
  <2>10. CASE UNCHANGED vars
    BY <2>10 DEF vars, TypeOK, DatesInv
  <2> QED
    BY <2>2, <2>3, <2>4, <2>5, <2>6, <2>7, <2>8, <2>9, <2>10 DEF Next, Step
<1> QED
  BY <1>1, <1>2, PTL DEF Spec

\* Dates, prices, return columns and jobs stay well formed: a null date never
\* meets date arithmetic.
THEOREM TypeSafe == Spec => []TypeOK
  BY TypeInvariant, PTL

-----------------------------------------------------------------------------
\* What any step does to the calendar and the table: time and publication only
\* advance, a price goes when it has expired, an abandoned date when it is
\* stored.
LEMMA TableStep ==
  ASSUME TypeOK, DatesInv, [Next]_vars
  PROVE  /\ today \in Int /\ today' \in Int /\ today <= today'
         /\ published \subseteq published' /\ published \in SUBSET Int
         /\ \A d \in published' \ published : d = today
         /\ \A d \in prices : d \in prices' \/ Expired(d)
         /\ \A d \in abandoned : d \in abandoned' \cup prices'
<1>0. today \in Int /\ today + 1 \in Int /\ published \in SUBSET Int
  BY DEF TypeOK
<1>1. CASE NextDay
  BY <1>0, <1>1 DEF NextDay
<1>2. CASE Publish
  BY <1>0, <1>2 DEF Publish
<1>3. ASSUME NEW w \in Workers, Start(w) \/ Step(w) \/ Fail(w)
      PROVE  today' = today /\ published' = published
  BY <1>3 DEF Step, Start, ReadLatest, Fetch, WriteChunk, Prune, ReadHistory,
     WriteReturns, Fail, Goto
<1>4. ASSUME NEW w \in Workers, WriteChunk(w)
      PROVE  prices \subseteq prices' /\ abandoned \subseteq abandoned' \cup prices'
  BY <1>4 DEF WriteChunk
<1>5. ASSUME NEW w \in Workers, Start(w) \/ ReadLatest(w) \/ Fetch(w) \/ ReadHistory(w)
                                \/ WriteReturns(w) \/ Fail(w)
      PROVE  prices' = prices /\ abandoned \subseteq abandoned'
  BY <1>5 DEF Start, ReadLatest, Fetch, ReadHistory, WriteReturns, Fail
<1>6. ASSUME NEW w \in Workers, Prune(w)
      PROVE  prices' = {d \in prices : ~ Expired(d)} /\ abandoned' = abandoned
  BY <1>6 DEF Prune
<1>7. CASE UNCHANGED vars
  BY <1>0, <1>7 DEF vars
<1>8. CASE \E w \in Workers : Start(w) \/ Step(w) \/ Fail(w)
  <2>1. today' = today /\ published' = published
    BY <1>3, <1>8
  <2>2. \A d \in prices : d \in prices' \/ Expired(d)
    BY <1>4, <1>5, <1>6, <1>8 DEF Step
  <2>3. \A d \in abandoned : d \in abandoned' \cup prices'
    BY <1>4, <1>5, <1>6, <1>8 DEF Step
  <2> QED
    BY <1>0, <2>1, <2>2, <2>3
<1> QED
  BY <1>1, <1>2, <1>7, <1>8 DEF Next

\* The snapshots whose dates are stored, or have expired.
Traceable ==
  {s \in Snapshot : \A d \in {s.asOf, s.start} \ {NoDate} : d \in prices \/ Expired(d)}

SnapshotInv == returns \in Traceable /\ \A w \in Workers : jobs[w].snapshot \in Traceable

\* The returns a reader sees are computed from prices that are stored or have
\* expired, however many syncs overlap or fail.
THEOREM ReturnsTraceable == Spec => []ReturnsAccountedFor
<1>0. EmptySnapshot \in Traceable
  BY DEF Traceable, EmptySnapshot, Snapshot, Date
<1>1. Init => SnapshotInv
  BY <1>0 DEF Init, SnapshotInv, IdleJob
<1>2. TypeOK /\ DatesInv /\ SnapshotInv /\ [Next]_vars => SnapshotInv'
  <2> SUFFICES ASSUME TypeOK, DatesInv, SnapshotInv, [Next]_vars PROVE SnapshotInv'
    OBVIOUS
  <2>1. Traceable \subseteq Traceable'
    <3>1. /\ today \in Int /\ today' \in Int /\ today <= today'
          /\ \A d \in prices : d \in prices' \/ Expired(d)
      BY TableStep
    <3>2. ASSUME NEW d \in Int, d \in prices \/ Expired(d)
          PROVE  d \in prices' \/ Expired(d)'
      <4>1. Expired(d) => Expired(d)'
        BY <3>1, ExpiryOrder
      <4> QED
        BY <3>1, <3>2, <4>1
    <3> QED
      BY <3>2 DEF Traceable, Snapshot, Date
  <2>2. EmptySnapshot \in Traceable'
    BY <1>0, <2>1
  <2>3. ASSUME NEW w \in Workers, NEW job, job.snapshot \in Traceable',
               jobs' = [jobs EXCEPT ![w] = job], returns' \in Traceable'
        PROVE  SnapshotInv'
    BY <2>1, <2>3 DEF SnapshotInv, TypeOK
  <2>4. ASSUME UNCHANGED <<jobs, returns>>
        PROVE  SnapshotInv'
    BY <2>1, <2>4 DEF SnapshotInv
  <2>5. CASE NextDay \/ Publish \/ UNCHANGED vars
    BY <2>4, <2>5 DEF NextDay, Publish, vars
  <2>6. ASSUME NEW w \in Workers, Start(w) \/ ReadLatest(w) \/ Fetch(w) \/ WriteChunk(w)
                                  \/ Prune(w) \/ Fail(w)
        PROVE  SnapshotInv'
    <3>1. jobs[w] \in Job /\ jobs[w].snapshot \in Traceable' /\ returns \in Traceable'
      BY <2>1 DEF TypeOK, SnapshotInv
    <3>2. \E job : /\ jobs' = [jobs EXCEPT ![w] = job]
                   /\ job.snapshot \in {jobs[w].snapshot, EmptySnapshot}
      <4>1. CASE Start(w)
        BY <4>1 DEF Start, Goto, IdleJob
      <4>2. CASE ReadLatest(w)
        <5> DEFINE latest == IF jobs[w].incremental THEN Latest(prices) ELSE NoDate
                   from == RangeFrom(jobs[w], latest)
                   to == RangeTo(jobs[w])
                   go == [jobs[w] EXCEPT !.pc = "fetch", !.latest = latest,
                                         !.from = from, !.to = to]
                   done == [IdleJob EXCEPT !.pc = "prune"]
        <5>1. jobs' = [jobs EXCEPT ![w] = go] \/ jobs' = [jobs EXCEPT ![w] = done]
          BY <4>2 DEF ReadLatest, Goto
        <5> HIDE DEF latest, from, to
        <5>2. go.snapshot = jobs[w].snapshot /\ done.snapshot = EmptySnapshot
          BY <3>1 DEF Job, IdleJob
        <5> HIDE DEF go, done
        <5> QED
          BY <5>1, <5>2
      <4>3. CASE Fetch(w)
        <5> DEFINE answer == {d \in published : InRange(d, jobs[w].from, jobs[w].to)}
                   new == {d \in answer : jobs[w].latest # NoDate => d > jobs[w].latest}
                   job == [IdleJob EXCEPT !.pc = IF new = {} THEN "prune" ELSE "write",
                                          !.todo = new, !.dropped = answer \ new]
        <5>1. jobs' = [jobs EXCEPT ![w] = job]
          BY <4>3 DEF Fetch, Goto
        <5> HIDE DEF answer, new
        <5>2. job.snapshot = EmptySnapshot
          BY DEF IdleJob
        <5> HIDE DEF job
        <5> QED
          BY <5>1, <5>2
      <4>4. CASE WriteChunk(w)
        <5> DEFINE left == jobs[w].todo \ Chunk(jobs[w].todo)
                   job == [jobs[w] EXCEPT !.pc = IF left = {} THEN "prune" ELSE "write",
                                          !.todo = left]
        <5>1. jobs' = [jobs EXCEPT ![w] = job]
          BY <4>4 DEF WriteChunk, Goto
        <5> HIDE DEF left
        <5>2. job.snapshot = jobs[w].snapshot
          BY <3>1 DEF Job
        <5> HIDE DEF job
        <5> QED
          BY <5>1, <5>2
      <4>5. CASE Prune(w) \/ Fail(w)
        BY <4>5 DEF Prune, Fail, Goto, IdleJob
      <4> QED
        BY <2>6, <4>1, <4>2, <4>3, <4>4, <4>5
    <3>3. returns' = returns
      BY <2>6 DEF Start, ReadLatest, Fetch, WriteChunk, Prune, Fail
    <3> QED
      BY <2>2, <2>3, <3>1, <3>2, <3>3
  <2>7. ASSUME NEW w \in Workers, ReadHistory(w)
        PROVE  SnapshotInv'
    <3> DEFINE history == {d \in prices : d >= today - Lookback}
               s == BuildSnapshot(history)
               job == [IdleJob EXCEPT !.pc = "returns", !.snapshot = s]
    <3>1. history \subseteq prices /\ history \in SUBSET (0 .. today) /\ today \in Nat
      BY DEF DatesInv
    <3> HIDE DEF history
    <3>2. s \in Traceable
      BY <3>1, SnapshotFromHistory DEF Traceable
    <3>3. /\ jobs' = [jobs EXCEPT ![w] = job] /\ returns' = returns
      BY <2>7 DEF ReadHistory, Goto, history
    <3> HIDE DEF s
    <3>4. job.snapshot = s
      BY DEF IdleJob
    <3> HIDE DEF job
    <3> QED
      BY <2>1, <2>3, <3>2, <3>3, <3>4 DEF SnapshotInv
  <2>8. ASSUME NEW w \in Workers, WriteReturns(w)
        PROVE  SnapshotInv'
    <3>1. jobs' = [jobs EXCEPT ![w] = IdleJob] /\ returns' = jobs[w].snapshot
          /\ IdleJob.snapshot = EmptySnapshot
      BY <2>8 DEF WriteReturns, Goto, IdleJob
    <3> QED
      BY <2>1, <2>2, <2>3, <3>1 DEF SnapshotInv
  <2> QED
    BY <2>5, <2>6, <2>7, <2>8 DEF Next, Step
<1>3. SnapshotInv => ReturnsAccountedFor
  BY DEF SnapshotInv, Traceable, ReturnsAccountedFor, Expired
<1> QED
  BY <1>1, <1>2, <1>3, TypeInvariant, PTL DEF Spec

-----------------------------------------------------------------------------
\* The published dates nobody has to fetch any more.
Covered ==
  {d \in published : \/ d < today - Lookback
                     \/ d \in prices \cup abandoned
                     \/ \E w \in Workers : d \in jobs[w].todo}

\* The published dates below which every day is covered: it is safe to store
\* them, and so to resume from them.
Firm == {p \in published : \A d \in published : d < p => d \in Covered}

\* What a sync that has resolved its range may rely on.
RangeOK(job) ==
  IF job.latest = NoDate
  THEN job.from \in Int /\ job.from <= today - Lookback
  ELSE job.latest \in Firm \cap Covered /\ job.from = job.latest + 1

DayInv ==
  /\ prices \subseteq Firm
  /\ \A w \in Workers :
       /\ jobs[w].todo \subseteq Firm
       /\ jobs[w].pc = "latest" => jobs[w].from = NoDate
       /\ jobs[w].pc = "fetch" => RangeOK(jobs[w])

\* No step uncovers a day: what is pruned has expired, what leaves a job's
\* pending dates is stored or abandoned, and a new day is newer than all.
LEMMA CoveredStable ==
  ASSUME TypeOK, DatesInv, [Next]_vars
  PROVE  Covered \subseteq Covered' /\ Firm \subseteq Firm'
<1>1. /\ today \in Int /\ today' \in Int /\ today <= today'
      /\ published \subseteq published' /\ published \in SUBSET Int
      /\ \A d \in published' \ published : d = today
      /\ \A d \in prices : d \in prices' \/ Expired(d)
      /\ \A d \in abandoned : d \in abandoned' \cup prices'
  BY TableStep
<1>2. ASSUME NEW w \in Workers, NEW d \in jobs[w].todo
      PROVE  d \in jobs'[w].todo \/ d \in prices' \cup abandoned'
  <2>1. jobs[w].pc = "write" /\ jobs[w] \in Job /\ jobs[w].todo # {}
    BY <1>2 DEF DatesInv, TypeOK
  <2>2. CASE jobs'[w] = jobs[w]
    BY <1>2, <2>2
  <2>3. CASE jobs'[w] # jobs[w]
    <3>1. WriteChunk(w) \/ Fail(w)
      BY <2>1, <2>3 DEF Next, Step, NextDay, Publish, Start, ReadLatest, Fetch, WriteChunk,
         Prune, ReadHistory, WriteReturns, Fail, Goto, vars, TypeOK
    <3>2. CASE Fail(w)
      BY <1>2, <3>2 DEF Fail
    <3>3. CASE WriteChunk(w)
      <4> DEFINE chunk == Chunk(jobs[w].todo)
                 left == jobs[w].todo \ chunk
      <4>1. prices' = prices \cup chunk
        BY <3>3 DEF WriteChunk
      <4>2. jobs'[w].todo = left
        BY <2>1, <3>3 DEF WriteChunk, Goto, TypeOK, Job
      <4> HIDE DEF chunk
      <4> QED
        BY <1>2, <4>1, <4>2
    <3> QED
      BY <3>1, <3>2, <3>3
  <2> QED
    BY <2>2, <2>3
<1>3. ASSUME NEW d \in Covered
      PROVE  d \in Covered'
  <2>0. d \in Int
    BY <1>1, <1>3 DEF Covered
  <2>1. Expired(d) => d < today' - Lookback
    BY <1>1, <2>0, ExpiryOrder
  <2>2. d < today - Lookback => d < today' - Lookback
    BY <1>1, <2>0, ExpiryOrder
  <2> QED
    BY <1>1, <1>2, <1>3, <2>1, <2>2 DEF Covered
<1>4. ASSUME NEW p \in Firm
      PROVE  p \in Firm'
  <2>1. \A d \in published' : d < p => d \in published
    BY <1>1, <1>4 DEF Firm, DatesInv
  <2> QED
    BY <1>1, <1>3, <1>4, <2>1 DEF Firm
<1> QED
  BY <1>3, <1>4

\* Fetch: below a fetched date, a day is fetched too or was covered before.
LEMMA FetchedIsFirm ==
  ASSUME TypeOK, DatesInv, DayInv, [Next]_vars, NEW w \in Workers, Fetch(w)
  PROVE  jobs'[w].todo \subseteq Firm'
<1> DEFINE job == jobs[w]
           answer == {d \in published : InRange(d, job.from, job.to)}
           new == {d \in answer : job.latest # NoDate => d > job.latest}
<1>1. jobs'[w].todo = new /\ published' = published /\ published \in SUBSET Int
  BY DEF Fetch, Goto, TypeOK, IdleJob
<1>2. job \in Job /\ RangeOK(job) /\ today \in Int
  BY DEF Fetch, DayInv, TypeOK
<1> HIDE DEF job
<1> SUFFICES ASSUME NEW p \in new, NEW d \in published, d < p
             PROVE  d \in Covered'
  BY <1>1 DEF Firm
<1>3. p \in Int /\ d \in Int /\ InRange(p, job.from, job.to) /\ (job.latest # NoDate => p > job.latest)
  BY <1>1
<1>4. /\ job.from \in Int
      /\ job.latest # NoDate => job.latest \in Int /\ job.from = job.latest + 1
      /\ job.latest # NoDate => job.latest \in Firm /\ job.latest \in Covered
      /\ job.latest = NoDate => job.from <= today - Lookback
  <2>1. \A e \in Firm : e \in Int
    BY <1>1 DEF Firm
  <2> QED
    BY <1>2, <2>1 DEF RangeOK
<1>5. CASE d >= job.from
  <2>1. InRange(d, job.from, job.to)
    BY <1>2, <1>3, <1>5, NoDateAssumption DEF InRange, Job, Date
  <2>2. job.latest # NoDate => d > job.latest
    BY <1>3, <1>4, <1>5
  <2>3. d \in jobs'[w].todo
    BY <1>1, <2>1, <2>2
  <2> QED
    BY <1>1, <2>3 DEF Covered
<1>6. CASE d < job.from
  <2>1. d \in Covered
    <3>1. CASE job.latest = NoDate
      BY <1>2, <1>3, <1>4, <1>6, <3>1, RetentionAssumption DEF Covered
    <3>2. CASE job.latest # NoDate
      <4>1. d = job.latest \/ d < job.latest
        BY <1>3, <1>4, <1>6, <3>2
      <4> QED
        BY <1>4, <3>2, <4>1 DEF Firm
    <3> QED
      BY <3>1, <3>2
  <2> QED
    BY <2>1, CoveredStable
<1> QED
  BY <1>3, <1>4, <1>5, <1>6

\* When no caller passes an explicit window, overlapping and failing syncs lose
\* no day: what is missing below the newest stored price is pending in a sync
\* or was abandoned by one that was cut short.
THEOREM DaysAreKept ==
  ASSUME Windows = {[from |-> NoDate, to |-> NoDate]}
  PROVE  Spec => []NoDayLost
<1>1. Init => DayInv
  BY DEF Init, DayInv, IdleJob
<1>2. TypeOK /\ DatesInv /\ DayInv /\ [Next]_vars => DayInv'
  <2> SUFFICES ASSUME TypeOK, DatesInv, DayInv, [Next]_vars PROVE DayInv'
    OBVIOUS
  <2>1. Covered \subseteq Covered' /\ Firm \subseteq Firm'
    BY CoveredStable
  <2>2. today' \in Int /\ today \in Int /\ today <= today'
    BY TableStep
  <2>3. \A v \in Workers : RangeOK(jobs[v]) => (jobs[v].latest = NoDate \/ jobs[v].latest \in Firm' \cap Covered')
    BY <2>1 DEF RangeOK
  <2>4. ASSUME NEW v \in Workers, RangeOK(jobs[v]), jobs'[v] = jobs[v]
        PROVE  RangeOK(jobs[v])'
    BY <2>2, <2>3, <2>4, RetentionAssumption DEF RangeOK
  <2>5. ASSUME UNCHANGED jobs, prices' = prices
        PROVE  DayInv'
    BY <2>1, <2>4, <2>5 DEF DayInv
  <2>6. ASSUME NEW w \in Workers, NEW job, jobs' = [jobs EXCEPT ![w] = job],
               prices' \subseteq Firm', job.todo \subseteq Firm',
               job.pc = "latest" => job.from = NoDate,
               job.pc = "fetch" => RangeOK(jobs[w])'
        PROVE  DayInv'
    <3>1. jobs'[w] = job /\ \A v \in Workers \ {w} : jobs'[v] = jobs[v]
      BY <2>6 DEF TypeOK
    <3>2. \A v \in Workers : jobs'[v].todo \subseteq Firm'
      BY <2>1, <2>6, <3>1 DEF DayInv
    <3>3. \A v \in Workers : jobs'[v].pc = "latest" => jobs'[v].from = NoDate
      BY <2>6, <3>1 DEF DayInv
    <3>4. \A v \in Workers : jobs'[v].pc = "fetch" => RangeOK(jobs[v])'
      BY <2>4, <2>6, <3>1 DEF DayInv
    <3> QED
      BY <2>6, <3>2, <3>3, <3>4 DEF DayInv
  <2>7. CASE NextDay \/ Publish \/ UNCHANGED vars
    BY <2>5, <2>7 DEF NextDay, Publish, vars
  <2>8. ASSUME NEW w \in Workers, Start(w)
        PROVE  DayInv'
    <3>0. PICK window \in Windows, incremental \in BOOLEAN :
            Goto(w, [IdleJob EXCEPT !.pc = "latest", !.incremental = incremental,
                                    !.from = window.from, !.to = window.to])
      BY <2>8 DEF Start
    <3>1. window.from = NoDate /\ window.to = NoDate
      OBVIOUS
    <3> DEFINE job == [IdleJob EXCEPT !.pc = "latest", !.incremental = incremental,
                                      !.from = NoDate, !.to = NoDate]
    <3>2. job.todo = {} /\ job.pc = "latest" /\ job.from = NoDate
      BY DEF IdleJob
    <3>3. jobs' = [jobs EXCEPT ![w] = job] /\ prices' = prices
      BY <2>8, <3>0, <3>1 DEF Goto, Start
    <3> HIDE DEF job
    <3> QED
      BY <2>1, <2>6, <3>2, <3>3 DEF DayInv
  <2>9. ASSUME NEW w \in Workers, ReadLatest(w)
        PROVE  DayInv'
    <3> DEFINE latest == IF jobs[w].incremental THEN Latest(prices) ELSE NoDate
               from == RangeFrom(jobs[w], latest)
               to == RangeTo(jobs[w])
               go == [jobs[w] EXCEPT !.pc = "fetch", !.latest = latest,
                                     !.from = from, !.to = to]
               done == [IdleJob EXCEPT !.pc = "prune"]
    <3>1. /\ jobs[w].pc = "latest" /\ jobs[w] \in Job /\ jobs[w].todo = {}
          /\ jobs[w].from = NoDate
      BY <2>9 DEF ReadLatest, TypeOK, DatesInv, DayInv
    <3>2. latest = NoDate \/ latest \in prices
      BY LatestPrice DEF Latest
    <3>3. from = IF latest = NoDate THEN today - Lookback ELSE latest + 1
      BY <3>1 DEF RangeFrom, Resume
    <3>4. /\ \/ jobs' = [jobs EXCEPT ![w] = go]
             \/ jobs' = [jobs EXCEPT ![w] = done]
          /\ prices' = prices /\ today' = today
      BY <2>9 DEF ReadLatest, Goto
    <3> HIDE DEF latest, from, to
    <3>5. /\ go.todo = {} /\ go.pc = "fetch" /\ go.latest = latest /\ go.from = from
          /\ done.todo = {} /\ done.pc = "prune"
      BY <3>1 DEF Job, IdleJob
    <3>6. prices \subseteq Covered /\ prices \subseteq Firm
      BY DEF Covered, DatesInv, DayInv
    <3> HIDE DEF go, done
    <3>7. CASE jobs' = [jobs EXCEPT ![w] = done]
      BY <2>1, <2>6, <3>4, <3>5, <3>6, <3>7
    <3>8. CASE jobs' = [jobs EXCEPT ![w] = go]
      <4>1. jobs'[w] = go
        BY <3>8 DEF TypeOK
      <4>2. RangeOK(jobs[w])'
        BY <2>1, <2>2, <3>2, <3>3, <3>4, <3>5, <3>6, <4>1, RetentionAssumption DEF RangeOK
      <4> QED
        BY <2>1, <2>6, <3>4, <3>5, <3>6, <3>8, <4>2
    <3> QED
      BY <3>4, <3>7, <3>8
  <2>10. ASSUME NEW w \in Workers, Fetch(w)
         PROVE  DayInv'
    <3>1. jobs'[w].todo \subseteq Firm'
      BY <2>10, FetchedIsFirm
    <3>2. /\ jobs' = [jobs EXCEPT ![w] = jobs'[w]] /\ jobs'[w].pc \in {"prune", "write"}
          /\ prices' = prices
      BY <2>10 DEF Fetch, Goto, IdleJob, TypeOK
    <3> QED
      BY <2>1, <2>6, <3>1, <3>2 DEF DayInv
  <2>11. ASSUME NEW w \in Workers, WriteChunk(w)
         PROVE  DayInv'
    <3> DEFINE chunk == Chunk(jobs[w].todo)
               left == jobs[w].todo \ chunk
               job == [jobs[w] EXCEPT !.pc = IF left = {} THEN "prune" ELSE "write",
                                      !.todo = left]
    <3>1. chunk \subseteq Firm /\ left \subseteq Firm /\ jobs[w] \in Job
      BY DEF Chunk, DayInv, TypeOK
    <3>2. jobs' = [jobs EXCEPT ![w] = job] /\ prices' = prices \cup chunk
      BY <2>11 DEF WriteChunk, Goto
    <3> HIDE DEF chunk, left
    <3>3. job.todo = left /\ job.pc \in {"prune", "write"}
      BY <3>1 DEF Job
    <3> HIDE DEF job
    <3> QED
      BY <2>1, <2>6, <3>1, <3>2, <3>3 DEF DayInv
  <2>12. ASSUME NEW w \in Workers,
                Prune(w) \/ ReadHistory(w) \/ WriteReturns(w) \/ Fail(w)
         PROVE  DayInv'
    <3>1. /\ prices' \subseteq prices
          /\ \E job : /\ jobs' = [jobs EXCEPT ![w] = job] /\ job.todo = {}
                      /\ job.pc \in {"idle", "history", "returns"}
      <4>1. ASSUME NEW job, jobs' = [jobs EXCEPT ![w] = job], job.todo = {},
                   job.pc \in {"idle", "history", "returns"}
            PROVE  \E j : /\ jobs' = [jobs EXCEPT ![w] = j] /\ j.todo = {}
                          /\ j.pc \in {"idle", "history", "returns"}
        BY <4>1
      <4>2. CASE Prune(w)
        <5> DEFINE job == [IdleJob EXCEPT !.pc = "history"]
        <5>1. job.todo = {} /\ job.pc = "history"
          BY DEF IdleJob
        <5>2. jobs' = [jobs EXCEPT ![w] = job] /\ prices' \subseteq prices
          BY <4>2 DEF Prune, Goto
        <5> HIDE DEF job
        <5> QED
          BY <4>1, <5>1, <5>2
      <4>3. CASE ReadHistory(w)
        <5> DEFINE s == BuildSnapshot({d \in prices : d >= today - Lookback})
                   job == [IdleJob EXCEPT !.pc = "returns", !.snapshot = s]
        <5>1. jobs' = [jobs EXCEPT ![w] = job] /\ prices' = prices
          BY <4>3 DEF ReadHistory, Goto
        <5> HIDE DEF s
        <5>2. job.todo = {} /\ job.pc = "returns"
          BY DEF IdleJob
        <5> HIDE DEF job
        <5> QED
          BY <4>1, <5>1, <5>2
      <4>4. CASE WriteReturns(w) \/ Fail(w)
        <5>1. jobs' = [jobs EXCEPT ![w] = IdleJob] /\ prices' = prices
          BY <4>4 DEF WriteReturns, Fail, Goto
        <5>2. IdleJob.todo = {} /\ IdleJob.pc = "idle"
          BY DEF IdleJob
        <5> QED
          BY <4>1, <5>1, <5>2
      <4> QED
        BY <2>12, <4>2, <4>3, <4>4
    <3> QED
      BY <2>1, <2>6, <3>1 DEF DayInv
  <2> QED
    BY <2>7, <2>8, <2>9, <2>10, <2>11, <2>12 DEF Next, Step
<1>3. TypeOK /\ DatesInv /\ DayInv => NoDayLost
  <2> SUFFICES ASSUME TypeOK, DatesInv, DayInv, prices # {}, NEW d \in published \ prices,
                      today - Lookback <= d, d < Latest(prices)
               PROVE  d \in abandoned \/ \E w \in Workers : d \in jobs[w].todo
    BY DEF NoDayLost
  <2>1. Latest(prices) \in Firm
    BY LatestPrice DEF DayInv
  <2>2. d \in Covered /\ d \in Int /\ today \in Int
    BY <2>1 DEF Firm, TypeOK
  <2> QED
    BY <2>2, RetentionAssumption DEF Covered
<1> QED
  BY <1>1, <1>2, <1>3, TypeInvariant, PTL DEF Spec
-----------------------------------------------------------------------------
(* The returns catch up with the prices.                                   *)

\* What the stored prices say, and a sync that is about to write something else.
Current == BuildSnapshot({d \in prices : d >= today - Lookback})
Outdated(w) == jobs[w].pc = "returns" /\ jobs[w].snapshot # Current

\* A sync that ends well leaves the returns current, unless it is outdated.
EndsCurrent(w) ==
  jobs[w].pc # "idle" /\ jobs'[w].pc = "idle" /\ faults' = faults =>
    returns' = Current' \/ Outdated(w)

CatchingUp ==
  /\ \A w \in Workers : EndsCurrent(w)
  /\ Current' = Current =>
       /\ \A w \in Workers : Outdated(w)' => Outdated(w)
       /\ returns = Current /\ returns' # Current => \E w \in Workers : Outdated(w)

\* Every sync that ends well writes the returns; while prices and day stay, none becomes
\* outdated, and only an outdated one takes the returns away from what the prices say.
ReturnsCatchUp == [][CatchingUp]_vars

\* The step of a sync that writes no returns.
LEMMA CatchingMove ==
  ASSUME TypeOK, NEW w \in Workers, NEW j, jobs' = [jobs EXCEPT ![w] = j],
         UNCHANGED returns,
         j.pc # "idle" \/ jobs[w].pc = "idle" \/ faults' # faults,
         Current' = Current => j.pc # "returns" \/ j.snapshot = Current
  PROVE  CatchingUp
<1>1. jobs'[w] = j /\ \A v \in Workers \ {w} : jobs'[v] = jobs[v]
  BY DEF TypeOK
<1> HIDE DEF Current
<1>2. \A v \in Workers : EndsCurrent(v)
  BY <1>1 DEF EndsCurrent
<1>3. ASSUME Current' = Current, NEW v \in Workers, Outdated(v)' PROVE Outdated(v)
  <2>1. jobs'[v].pc = "returns" /\ jobs'[v].snapshot # Current
    BY <1>3 DEF Outdated
  <2>2. jobs'[v] = jobs[v]
    BY <1>1, <1>3, <2>1
  <2>3. QED
    BY <2>1, <2>2 DEF Outdated
<1>4. QED
  BY <1>2, <1>3 DEF CatchingUp

\* The days and the provider touch no sync.
LEMMA CatchingCalendar ==
  ASSUME NextDay \/ Publish
  PROVE  CatchingUp
<1>1. UNCHANGED <<jobs, returns>>
  BY DEF NextDay, Publish
<1>2. QED
  BY <1>1 DEF CatchingUp, EndsCurrent, Outdated

LEMMA CatchingBegin ==
  ASSUME TypeOK, NEW w \in Workers,
         Start(w) \/ ReadLatest(w) \/ Fetch(w) \/ WriteChunk(w) \/ Prune(w) \/ Fail(w)
  PROVE  CatchingUp
<1>1. jobs[w] \in Job /\ faults \in Nat
  BY DEF TypeOK
<1>2. CASE Start(w)
  <2>1. PICK window \in Windows, incremental \in BOOLEAN :
          jobs' = [jobs EXCEPT ![w] =
            [IdleJob EXCEPT !.pc = "latest", !.incremental = incremental,
                            !.from = window.from, !.to = window.to]]
    BY <1>2 DEF Start, Goto
  <2> DEFINE j == [IdleJob EXCEPT !.pc = "latest", !.incremental = incremental,
                                  !.from = window.from, !.to = window.to]
  <2>2. j.pc = "latest"
    BY DEF IdleJob
  <2>3. jobs' = [jobs EXCEPT ![w] = j] /\ UNCHANGED returns
    BY <1>2, <2>1 DEF Start
  <2> HIDE DEF j
  <2>4. QED
    BY <2>2, <2>3, CatchingMove
<1>3. CASE ReadLatest(w)
  <2> DEFINE latest == IF jobs[w].incremental THEN Latest(prices) ELSE NoDate
             from == RangeFrom(jobs[w], latest)
             to == RangeTo(jobs[w])
             j == IF UpToDate(from, to) THEN [IdleJob EXCEPT !.pc = "prune"]
                  ELSE [jobs[w] EXCEPT !.pc = "fetch", !.latest = latest, !.from = from, !.to = to]
  <2>1. jobs' = [jobs EXCEPT ![w] = j] /\ UNCHANGED returns
    BY <1>3 DEF ReadLatest, Goto
  <2> HIDE DEF latest, from, to
  <2>2. j.pc \in {"prune", "fetch"}
    BY <1>1 DEF IdleJob, Job
  <2> HIDE DEF j
  <2>3. QED
    BY <2>1, <2>2, CatchingMove
<1>4. CASE Fetch(w)
  <2> DEFINE answer == {d \in published : InRange(d, jobs[w].from, jobs[w].to)}
             new == {d \in answer : jobs[w].latest # NoDate => d > jobs[w].latest}
             j == [IdleJob EXCEPT !.pc = IF new = {} THEN "prune" ELSE "write",
                                  !.todo = new, !.dropped = answer \ new]
  <2>1. jobs' = [jobs EXCEPT ![w] = j] /\ UNCHANGED returns
    BY <1>4 DEF Fetch, Goto
  <2> HIDE DEF answer, new
  <2>2. j.pc \in {"prune", "write"}
    BY DEF IdleJob
  <2> HIDE DEF j
  <2>3. QED
    BY <2>1, <2>2, CatchingMove
<1>5. CASE WriteChunk(w)
  <2> DEFINE left == jobs[w].todo \ Chunk(jobs[w].todo)
             j == [jobs[w] EXCEPT !.pc = IF left = {} THEN "prune" ELSE "write", !.todo = left]
  <2>1. jobs' = [jobs EXCEPT ![w] = j] /\ UNCHANGED returns
    BY <1>5 DEF WriteChunk, Goto
  <2> HIDE DEF left
  <2>2. j.pc \in {"prune", "write"}
    BY <1>1 DEF Job
  <2> HIDE DEF j
  <2>3. QED
    BY <2>1, <2>2, CatchingMove
<1>6. CASE Prune(w)
  <2> DEFINE j == [IdleJob EXCEPT !.pc = "history"]
  <2>1. jobs' = [jobs EXCEPT ![w] = j] /\ UNCHANGED returns
    BY <1>6 DEF Prune, Goto
  <2>2. j.pc = "history"
    BY DEF IdleJob
  <2> HIDE DEF j
  <2>3. QED
    BY <2>1, <2>2, CatchingMove
<1>7. CASE Fail(w)
  <2>1. jobs' = [jobs EXCEPT ![w] = IdleJob] /\ UNCHANGED returns /\ faults' # faults
    BY <1>1, <1>7 DEF Fail, Goto
  <2>2. IdleJob.pc = "idle"
    BY DEF IdleJob
  <2>3. QED
    BY <2>1, <2>2, CatchingMove
<1>8. QED
  BY <1>2, <1>3, <1>4, <1>5, <1>6, <1>7

\* What is read is what is stored.
LEMMA CatchingRead ==
  ASSUME TypeOK, NEW w \in Workers, ReadHistory(w)
  PROVE  CatchingUp
<1> DEFINE j == [IdleJob EXCEPT !.pc = "returns", !.snapshot = Current]
<1>1. jobs' = [jobs EXCEPT ![w] = j] /\ UNCHANGED returns
  BY DEF ReadHistory, Goto, Current
<1> HIDE DEF Current
<1>2. j.pc = "returns" /\ j.snapshot = Current
  BY DEF IdleJob
<1> HIDE DEF j
<1>3. QED
  BY <1>1, <1>2, CatchingMove

LEMMA CatchingWrite ==
  ASSUME TypeOK, NEW w \in Workers, WriteReturns(w)
  PROVE  CatchingUp
<1>1. /\ jobs[w].pc = "returns" /\ returns' = jobs[w].snapshot
      /\ jobs' = [jobs EXCEPT ![w] = IdleJob]
  BY DEF WriteReturns, Goto
<1>2. Current' = Current
  BY DEF WriteReturns, Goto, Current
<1>3. jobs'[w] = IdleJob /\ \A v \in Workers \ {w} : jobs'[v] = jobs[v]
  BY <1>1 DEF TypeOK
<1>4. IdleJob.pc = "idle"
  BY DEF IdleJob
<1> HIDE DEF Current, IdleJob
<1>5. \A v \in Workers : EndsCurrent(v)
  BY <1>1, <1>2, <1>3 DEF EndsCurrent, Outdated
<1>6. ASSUME NEW v \in Workers, Outdated(v)' PROVE Outdated(v)
  BY <1>2, <1>3, <1>4, <1>6 DEF Outdated
<1>7. returns' # Current => Outdated(w)
  BY <1>1 DEF Outdated
<1>8. QED
  BY <1>5, <1>6, <1>7 DEF CatchingUp

\* The return columns catch up with the stored prices: a sync that ends well, up to date
\* or not, has written what they say or is outdated by an overlapping one
\* (refreshForFundId reads first and writes later), of which there come to be no more
\* while nothing is stored and no day passes.
THEOREM ReturnsDoCatchUp == Spec => ReturnsCatchUp
<1>1. TypeOK /\ [Next]_vars => [CatchingUp]_vars
  BY CatchingCalendar, CatchingBegin, CatchingRead, CatchingWrite DEF Next, Step
<1>2. QED
  BY <1>1, TypeSafe, PTL DEF Spec, ReturnsCatchUp
=============================================================================
