--------------------------- MODULE FundPriceSync ---------------------------
(***************************************************************************)
(* The stored end-of-day prices of one fund and the return columns derived *)
(* from them. Any number of price syncs (cron, admin endpoint, CLI batches)*)
(* may overlap: each reads the latest stored date, fetches a range from    *)
(* the provider, upserts it newest first in chunks of one transaction      *)
(* each, prunes what retention no longer keeps, reads the history back and *)
(* writes the returns. A price is its date: the provider never revises one.*)
(***************************************************************************)
EXTENDS Integers, FiniteSets

CONSTANTS
  Workers,      \* concurrently running syncs
  NoDate,       \* null or undefined
  Windows,      \* the from/to options a caller may pass
  Lookback,     \* FUND_RETURN_HISTORY_LOOKBACK_DAYS
  Retention,    \* FUND_PRICES_RETENTION_YEARS, in days
  Year,         \* the lookback of the one-year return
  ChunkSize,    \* UPSERT_CHUNK_SIZE
  MaxDay,       \* bound: the last day of the calendar
  MaxFaults     \* bound: syncs cut short

VARIABLES
  today,        \* the current date
  published,    \* the dates the provider has a price of
  prices,       \* the dates stored for the fund
  returns,      \* the materialized return columns
  jobs,         \* jobs[w]: the sync worker w runs
  abandoned,    \* history: dates a sync was cut short of writing
  faults        \* number of syncs cut short

vars == <<today, published, prices, returns, jobs, abandoned, faults>>

\* The configuration refuses a retention of less than five years.
ASSUME RetentionAssumption ==
  /\ Lookback \in Nat /\ Retention \in Nat /\ Year \in Nat
  /\ Lookback <= Retention
  /\ ChunkSize \in Nat \ {0} /\ MaxDay \in Nat /\ MaxFaults \in Nat

ASSUME NoDateAssumption == NoDate \notin Int

Date == Int \cup {NoDate}
Snapshot == [asOf : Date, start : Date]

ASSUME WindowsAssumption == Windows \subseteq [from : Date, to : Date]

EmptySnapshot == [asOf |-> NoDate, start |-> NoDate]

Pc == {"idle", "latest", "fetch", "write", "prune", "history", "returns"}

\* todo: the fetched dates still to be written. dropped: the fetched dates the
\* incremental filter removed. snapshot: the returns computed from the history.
Job == [pc : Pc, incremental : BOOLEAN, from : Date, to : Date, latest : Date,
        todo : SUBSET Int, dropped : SUBSET Int, snapshot : Snapshot]

IdleJob == [pc |-> "idle", incremental |-> TRUE, from |-> NoDate, to |-> NoDate,
            latest |-> NoDate, todo |-> {}, dropped |-> {}, snapshot |-> EmptySnapshot]

TypeOK ==
  /\ today \in Int
  /\ published \in SUBSET Int
  /\ prices \in SUBSET Int
  /\ returns \in Snapshot
  /\ jobs \in [Workers -> Job]
  /\ abandoned \in SUBSET Int
  /\ faults \in Nat

Init ==
  /\ today = 1
  /\ published \in SUBSET {0, 1}
  /\ prices = {}
  /\ returns = EmptySnapshot
  /\ jobs = [w \in Workers |-> IdleJob]
  /\ abandoned = {}
  /\ faults = 0

-----------------------------------------------------------------------------
Latest(dates) ==
  IF dates = {} THEN NoDate ELSE CHOOSE d \in dates : \A e \in dates : e <= d

Distance(d, e) == IF d < e THEN e - d ELSE d - e

\* findPriceAtLookback: the date closest to the target, the earlier of two.
AtLookback(dates, target) ==
  CHOOSE d \in dates : \A e \in dates :
    \/ Distance(d, target) < Distance(e, target)
    \/ Distance(d, target) = Distance(e, target) /\ d <= e

\* Defective variant: the empty snapshot leaves the start out.
BuildSnapshotPartial(dates) ==
  IF dates = {} THEN [asOf |-> NoDate]
  ELSE [asOf |-> Latest(dates), start |-> AtLookback(dates, Latest(dates) - Year)]

\* buildFundReturnSnapshot, as the dates the figures are computed from.
BuildSnapshot(dates) ==
  IF dates = {} THEN EmptySnapshot
  ELSE [asOf |-> Latest(dates), start |-> AtLookback(dates, Latest(dates) - Year)]

\* The dates a provider request yields: a missing bound does not restrict.
InRange(d, from, to) == (from # NoDate => d >= from) /\ (to # NoDate => d <= to)

\* Defective variant: resumes one day too late.
ResumeSkippingADay(latest) == latest + 2

\* Where an incremental sync resumes.
Resume(latest) == latest + 1

\* resolveSyncRange: the bounds of the provider request.
RangeTo(job) ==
  IF job.incremental /\ job.to = NoDate THEN today ELSE job.to

RangeFrom(job, latest) ==
  IF job.from # NoDate THEN job.from
  ELSE IF latest = NoDate THEN today - Lookback ELSE Resume(latest)

UpToDate(from, to) == from # NoDate /\ to # NoDate /\ from > to

\* The chunk the next transaction writes: the newest ones, the provider's order.
Chunk(todo) ==
  {d \in todo : Cardinality({e \in todo : e > d}) < ChunkSize}

\* Defective variant: the cutoff day itself goes, and so does its year.
ExpiredInclusive(d) == d <= today - Lookback

Expired(d) == d < today - Retention

-----------------------------------------------------------------------------
\* The days pass; a day has its price, or is a holiday. The provider publishes
\* a day's price on that day, possibly after a sync has run.
NextDay ==
  /\ today < MaxDay
  /\ today' = today + 1
  /\ UNCHANGED <<published, prices, returns, jobs, abandoned, faults>>

Publish ==
  /\ today \notin published
  /\ published' = published \cup {today}
  /\ UNCHANGED <<today, prices, returns, jobs, abandoned, faults>>

Goto(w, job) ==
  /\ jobs' = [jobs EXCEPT ![w] = job]
  /\ UNCHANGED <<today, published>>

Start(w) ==
  /\ jobs[w].pc = "idle"
  /\ \E window \in Windows, incremental \in BOOLEAN :
       Goto(w, [IdleJob EXCEPT !.pc = "latest", !.incremental = incremental,
                               !.from = window.from, !.to = window.to])
  /\ UNCHANGED <<prices, returns, abandoned, faults>>

\* Defective variant: an up-to-date fund returns early, without the refresh.
ReadLatestSkippingRefresh(w) ==
  /\ jobs[w].pc = "latest"
  /\ LET latest == IF jobs[w].incremental THEN Latest(prices) ELSE NoDate
         from == RangeFrom(jobs[w], latest)
         to == RangeTo(jobs[w])
     IN  Goto(w, IF UpToDate(from, to) THEN IdleJob
                 ELSE [jobs[w] EXCEPT !.pc = "fetch", !.latest = latest,
                                      !.from = from, !.to = to])
  /\ UNCHANGED <<prices, returns, abandoned, faults>>

\* Reads the latest stored date (incremental only) and resolves the range.
ReadLatest(w) ==
  /\ jobs[w].pc = "latest"
  /\ LET latest == IF jobs[w].incremental THEN Latest(prices) ELSE NoDate
         from == RangeFrom(jobs[w], latest)
         to == RangeTo(jobs[w])
     IN  Goto(w, IF UpToDate(from, to) THEN [IdleJob EXCEPT !.pc = "prune"]
                 ELSE [jobs[w] EXCEPT !.pc = "fetch", !.latest = latest,
                                      !.from = from, !.to = to])
  /\ UNCHANGED <<prices, returns, abandoned, faults>>

\* The provider's answer, without the rows the incremental filter removes.
Fetch(w) ==
  /\ jobs[w].pc = "fetch"
  /\ LET answer == {d \in published : InRange(d, jobs[w].from, jobs[w].to)}
         new == {d \in answer : jobs[w].latest # NoDate => d > jobs[w].latest}
     IN  Goto(w, [IdleJob EXCEPT !.pc = IF new = {} THEN "prune" ELSE "write",
                                 !.todo = new, !.dropped = answer \ new])
  /\ UNCHANGED <<prices, returns, abandoned, faults>>

WriteChunk(w) ==
  /\ jobs[w].pc = "write"
  /\ LET chunk == Chunk(jobs[w].todo)
         left == jobs[w].todo \ chunk
     IN  /\ prices' = prices \cup chunk
         /\ abandoned' = abandoned \ chunk
         /\ Goto(w, [jobs[w] EXCEPT !.pc = IF left = {} THEN "prune" ELSE "write",
                                    !.todo = left])
  /\ UNCHANGED <<returns, faults>>

Prune(w) ==
  /\ jobs[w].pc = "prune"
  /\ prices' = {d \in prices : ~ Expired(d)}
  /\ Goto(w, [IdleJob EXCEPT !.pc = "history"])
  /\ UNCHANGED <<returns, abandoned, faults>>

\* refreshForFundId reads the history and writes the columns later.
ReadHistory(w) ==
  /\ jobs[w].pc = "history"
  /\ LET history == {d \in prices : d >= today - Lookback}
     IN  Goto(w, [IdleJob EXCEPT !.pc = "returns", !.snapshot = BuildSnapshot(history)])
  /\ UNCHANGED <<prices, returns, abandoned, faults>>

WriteReturns(w) ==
  /\ jobs[w].pc = "returns"
  /\ returns' = jobs[w].snapshot
  /\ Goto(w, IdleJob)
  /\ UNCHANGED <<prices, abandoned, faults>>

\* A provider, database or process failure: the chunks written stay.
Fail(w) ==
  /\ jobs[w].pc # "idle"
  /\ faults < MaxFaults
  /\ faults' = faults + 1
  /\ abandoned' = abandoned \cup (jobs[w].todo \ prices)
  /\ Goto(w, IdleJob)
  /\ UNCHANGED <<prices, returns>>

-----------------------------------------------------------------------------
Step(w) ==
  \/ ReadLatest(w) \/ Fetch(w) \/ WriteChunk(w) \/ Prune(w)
  \/ ReadHistory(w) \/ WriteReturns(w)

Next ==
  \/ NextDay \/ Publish
  \/ \E w \in Workers : Start(w) \/ Step(w) \/ Fail(w)

Spec == Init /\ [][Next]_vars

\* A started sync goes on, and the daily cron job starts another one.
FairSpec ==
  /\ Spec
  /\ \A w \in Workers : WF_vars(Step(w))
  /\ WF_vars(\E w \in Workers : Start(w))

-----------------------------------------------------------------------------
(* Properties *)

\* A date the returns need, older than the newest stored one and not stored
\* itself, is about to be written by a running sync or was abandoned by one
\* that was cut short: syncs that overlap, resume or find the provider behind
\* never lose a day. (Stated for callers that pass no explicit window.)
NoDayLost ==
  prices # {} =>
    \A d \in published \ prices :
      today - Lookback <= d /\ d < Latest(prices) =>
        d \in abandoned \/ \E w \in Workers : d \in jobs[w].todo

\* The materialized returns are computed from prices that are still stored, or
\* that retention has let go since: no overlap of prune, read and write leaves
\* columns nobody can account for.
ReturnsAccountedFor ==
  \A d \in {returns.asOf, returns.start} \ {NoDate} :
    d \in prices \/ d < today - Retention

\* Whatever an overlap left in the return columns, the daily syncs bring them
\* back to what the stored prices say, though they find nothing new to fetch.
EventuallyFresh ==
  <>[](returns = BuildSnapshot({d \in prices : d >= today - Lookback}))

\* What the comment of filterNewProviderPrices says: the rows an incremental
\* sync drops are already persisted. (The code drops every row up to the latest
\* stored date, stored or not.)
DroppedRowsArePersisted ==
  \A w \in Workers : \A d \in jobs[w].dropped : d \in prices \/ Expired(d)

=============================================================================
