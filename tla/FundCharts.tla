------------------------------- MODULE FundCharts -------------------------------
(***************************************************************************)
(* GET /funds/:id and GET /funds/:id/chart of one fund, whose prices are   *)
(* saved, revised and pruned, and whose visibility changes, between the    *)
(* three reads of a chart: the fund, its latest price date, the history.   *)
(*                                                                         *)
(* A date is the number of its day, as dates are stored, compared and      *)
(* counted in UTC. Of a price only the close is kept, and of a provider's  *)
(* row whether its four prices are positive.                               *)
(***************************************************************************)
EXTENDS Integers, Sequences, FiniteSets, FiniteSetsExt, Functions

CONSTANTS
  PeriodDays,  \* CHART_PERIOD_DAYS: a function of the periods
  Closes,      \* positive closes
  Retention,   \* FUND_PRICES_RETENTION_YEARS, in days
  Batches,     \* the sets of dates a provider answers
  FirstDay,    \* bound: the oldest price
  MaxDay,      \* bound: the last day
  MaxEdits,    \* bound: changes of the fund
  None         \* null

VARIABLES
  today,       \* the current date
  closes,      \* the stored prices: a function of their dates
  public,      \* isCatalogVisible of the row
  viewer,      \* a request
  pruned,      \* history: the dates pruned and not saved again
  edits        \* number of changes so far

vars == <<today, closes, public, viewer, pruned, edits>>

ConstantsAssumption ==
  /\ PeriodDays \in [DOMAIN PeriodDays -> Nat \ {0}]
  /\ Closes \subseteq Nat \ {0}
  /\ \A p \in DOMAIN PeriodDays : PeriodDays[p] <= Retention
  /\ {"row", "bad"} \cap DOMAIN PeriodDays = {}
  /\ Batches \subseteq SUBSET (FirstDay..MaxDay)
  /\ Retention \in Nat /\ FirstDay \in Int /\ MaxDay \in Nat /\ MaxEdits \in Nat /\ None \notin Int

\* "wants" is the row, or the chart of a period, or of a period there is not.
Wants == {"row", "bad"} \cup DOMAIN PeriodDays

Prices == UNION {[dates -> Closes] : dates \in SUBSET (FirstDay..MaxDay)}

TypeOK ==
  /\ today \in 1..MaxDay
  /\ closes \in Prices
  /\ public \in BOOLEAN
  /\ viewer.id \in {"malformed", "unknown", "fund"} /\ viewer.wants \in Wants
  /\ viewer.step \in {"idle", "fund", "latest", "history", "done"}
  /\ viewer.status \in {200, 400, 404}
  /\ viewer.latest \in (FirstDay..MaxDay) \cup {None} /\ viewer.rows \in Prices
  /\ pruned \in SUBSET (FirstDay..MaxDay) /\ pruned \cap DOMAIN closes = {}
  /\ edits \in 0..MaxEdits

Init ==
  /\ today \in 1..MaxDay
  /\ closes = <<>>
  /\ public \in BOOLEAN
  /\ viewer = [id |-> "fund", wants |-> "row", step |-> "idle", status |-> 200,
               from |-> None, latest |-> None, rows |-> <<>>, since |-> 0]
  /\ pruned = {}
  /\ edits = 0

-----------------------------------------------------------------------------
(* The window and the points of a chart                                    *)

LatestDate(prices) == IF DOMAIN prices = {} THEN None ELSE Max(DOMAIN prices)

AddDays(date, days) == date + days

\* subtractChartPeriodFromIsoDate
SubtractPeriod(date, period) == AddDays(date, - PeriodDays[period])

\* resolveChartDateRange: the window ends at the latest price, if there is one.
WindowStart(period, latest) ==
  SubtractPeriod(IF latest = None THEN today ELSE latest, period)

\* findHistory: both bounds belong to the window.
History(prices, from, to) ==
  [d \in {e \in DOMAIN prices : from <= e /\ e <= to} |-> prices[d]]

\* close / base * 100, to four decimals.
Indexed(close, base) == (2 * 1000000 * close + base) \div (2 * base)

\* findHistory orders by date.
Ascending(dates) ==
  [n \in 1..Cardinality(dates) |->
     CHOOSE d \in dates : Cardinality({e \in dates : e < d}) = n - 1]

\* mapFundPricesToChartPoints
Points(rows) ==
  LET dates == Ascending(DOMAIN rows)
  IN  [i \in DOMAIN dates |->
         [date |-> dates[i], close |-> rows[dates[i]],
          value |-> Indexed(rows[dates[i]], rows[dates[1]])]]

-----------------------------------------------------------------------------
(* A request                                                               *)

Reply(status) == viewer' = [viewer EXCEPT !.step = "done", !.status = status]
Reads == UNCHANGED <<today, closes, public, pruned, edits>>

\* parseFundId is the first to refuse.
Ask ==
  /\ viewer.step = "idle"
  /\ \E id \in {"malformed", "unknown", "fund"}, wants \in Wants :
       viewer' = [viewer EXCEPT !.id = id, !.wants = wants, !.since = edits,
                    !.step = IF id = "malformed" THEN "done" ELSE "fund",
                    !.status = IF id = "malformed" THEN 400 ELSE 200]
  /\ Reads

\* The period is looked at after the fund: of a hidden fund it does not matter.
ReadFund ==
  /\ viewer.step = "fund"
  /\ IF viewer.id = "unknown" \/ ~ public THEN Reply(404)
     ELSE IF viewer.wants = "bad" THEN Reply(400)
     ELSE IF viewer.wants = "row" THEN Reply(200)
     ELSE viewer' = [viewer EXCEPT !.step = "latest"]
  /\ Reads

ReadLatestDate ==
  /\ viewer.step = "latest"
  /\ LET latest == LatestDate(closes)
     IN  viewer' = [viewer EXCEPT !.latest = latest,
                      !.from = WindowStart(viewer.wants, latest),
                      !.step = IF latest = None THEN "done" ELSE "history"]
  /\ Reads

ReadHistory ==
  /\ viewer.step = "history"
  /\ viewer' = [viewer EXCEPT !.step = "done",
                  !.rows = History(closes, viewer.from, viewer.latest)]
  /\ Reads

-----------------------------------------------------------------------------
(* Meanwhile                                                               *)

Edit ==
  /\ viewer.step # "done" /\ edits < MaxEdits
  /\ edits' = edits + 1 /\ UNCHANGED viewer

NextDay == /\ Edit /\ today < MaxDay /\ today' = today + 1
           /\ UNCHANGED <<closes, public, pruned>>

\* upsertFundPriceInputSchema
Valid(rows) == 0 \notin Range(rows)

\* A stored date takes the new close.
Upserted(prices, rows) ==
  [d \in DOMAIN prices \cup DOMAIN rows |-> IF d \in DOMAIN rows THEN rows[d] ELSE prices[d]]

\* saveProviderPrices: every row is validated before the first is written.
SavePrices ==
  /\ Edit
  /\ \E dates \in Batches : \E rows \in [dates -> Closes \cup {0}] :
       /\ \A d \in dates : d <= today
       /\ IF ~ Valid(rows) THEN UNCHANGED <<closes, pruned>>
          ELSE closes' = Upserted(closes, rows) /\ pruned' = pruned \ dates
  /\ UNCHANGED <<today, public>>

\* getFundPriceRetentionCutoffIsoDate
Cutoff == AddDays(today, - Retention)

\* deleteOlderThan the cutoff.
Prune ==
  /\ Edit
  /\ LET old == {d \in DOMAIN closes : d < Cutoff}
     IN  /\ closes' = [d \in DOMAIN closes \ old |-> closes[d]]
         /\ pruned' = pruned \cup old
  /\ UNCHANGED <<today, public>>

ChangeVisibility == Edit /\ public' = ~ public /\ UNCHANGED <<today, closes, pruned>>

Next ==
  \/ Ask \/ ReadFund \/ ReadLatestDate \/ ReadHistory
  \/ NextDay \/ SavePrices \/ Prune \/ ChangeVisibility

Spec == Init /\ [][Next]_vars

-----------------------------------------------------------------------------
(* The answer: buildFundChartResponse                                      *)

Shown == Points(viewer.rows)
AsOf == IF Shown = <<>> THEN None ELSE Shown[Len(Shown)].date
ShownTo == IF viewer.latest # None THEN viewer.latest ELSE AsOf

-----------------------------------------------------------------------------
(* Properties                                                              *)

Charted == viewer.step = "done" /\ viewer.status = 200 /\ viewer.wants \in DOMAIN PeriodDays

\* The index starts at 100 with the first point of the window and moves with the
\* closes; the points are in order, inside the window, and end on the date the
\* answer names, unless that price was pruned after its date was read.
IndexFits ==
  /\ \A i \in DOMAIN Shown :
       /\ viewer.from <= Shown[i].date /\ Shown[i].date <= ShownTo
       /\ i = 1 => Shown[i].value = 1000000
       /\ \A j \in 1..(i - 1) :
            /\ Shown[j].date < Shown[i].date
            /\ Shown[j].close <= Shown[i].close => Shown[j].value <= Shown[i].value
  /\ AsOf # ShownTo => ShownTo \in pruned /\ edits > viewer.since

\* Retention takes days from a chart only when the fund had no price lately: not
\* from the window that ends today.
RetentionFits ==
  \A d \in pruned : (viewer.latest # None /\ viewer.from <= d /\ d <= viewer.latest) =>
    viewer.latest < today

\* The gain the chart ends with is the return that the same prices materialize for
\* the period, when the return starts inside the chart's window. (The return starts
\* at the price nearest to the window's first day, which may be before it.)
GainFitsReturn ==
  LET latest == LatestDate(closes)
      Distance(d) == IF d < viewer.from THEN viewer.from - d ELSE d - viewer.from
      start == CHOOSE d \in DOMAIN closes : \A e \in DOMAIN closes :
                 Distance(d) < Distance(e) \/ (Distance(d) = Distance(e) /\ d <= e)
  IN  (edits = viewer.since /\ latest # None) =>
        /\ ShownTo = latest
        /\ start >= viewer.from =>
             Shown[Len(Shown)].value = Indexed(closes[latest], closes[start])
        /\ start < viewer.from => \A d \in DOMAIN closes : d <= start \/ Shown[1].date <= d

\* Without prices there is no chart, and no chart of a fund that was hidden all along.
RefusalsFit ==
  (viewer.step = "done" /\ edits = viewer.since) =>
    /\ (viewer.id = "fund" /\ ~ public) <=> (viewer.status = 404 /\ viewer.id # "unknown")
    /\ (Charted /\ DOMAIN closes = {}) => (Shown = <<>> /\ ShownTo = None)

ChartsFit == (Charted => IndexFits /\ RetentionFits /\ GainFitsReturn) /\ RefusalsFit

=============================================================================
