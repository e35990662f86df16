----------------------------- MODULE FundFigures -----------------------------
(***************************************************************************)
(* What GET /funds/:isin and a card of GET /funds say of one fund, while   *)
(* imports, metadata syncs, recalculations and administrators write it.    *)
(* The detail reads the row, then, at once and in any order, three         *)
(* exposures that look at the visibility again, the latest price date and  *)
(* the price history; its charts are cut by the one and its returns and    *)
(* charts drawn from the other.                                            *)
(*                                                                         *)
(* A price is its date, and a return the pair of dates it is taken         *)
(* between. Branding, editorial copy, exposures and labels are left out.   *)
(***************************************************************************)
EXTENDS Integers, FiniteSets

CONSTANTS
  None,        \* null
  Days,        \* the dates of prices
  Today,       \* the current date
  Year,        \* a year in days: every 1 January is a multiple of it
  CardWindow,  \* FUND_CATALOG_LIST_RETURN_LOOKBACK_DAYS
  ScoreValues, \* scores
  Histories,   \* the price histories to begin with
  MaxWrites    \* bound: changes of the fund

VARIABLES
  prices,      \* the stored prices
  row,         \* the fund's row
  detail,      \* a request for the detail
  card,        \* a request for a page of the catalog with the fund on it
  writes       \* number of changes so far

vars == <<prices, row, detail, card, writes>>

ConstantsAssumption ==
  /\ Days \subseteq Nat /\ IsFiniteSet(Days) /\ Histories \subseteq SUBSET Days
  /\ Today \in Nat /\ Year \in Nat \ {0} /\ CardWindow \in Nat /\ MaxWrites \in Nat
  /\ None \notin Days /\ None \notin Days \X Days

Date == Days \cup {None}
Return == (Days \X Days) \cup {None}
Snapshot == [ytd : Return, oneYear : Return, threeYear : Return, asOf : Date]

Row == [visibility : {"visible", "quarantined", "blocked"}, complete : BOOLEAN,
        score : ScoreValues \cup {None}, breakdown : ScoreValues \cup {None}, returns : Snapshot]

Reads == {"countries", "sectors", "holdings", "latest", "history"}

\* status: 200 while and after all goes well.
Detail == [asked : BOOLEAN, status : {200, 404, 503}, todo : SUBSET Reads, row : Row,
           latest : Date, history : SUBSET Days]

Card == [step : {"idle", "window", "done"}, row : Row, returns : Snapshot,
         history : SUBSET Days]

TypeOK ==
  /\ prices \in SUBSET Days
  /\ row \in Row
  /\ detail \in Detail
  /\ card \in Card
  /\ writes \in 0..MaxWrites

EmptySnapshot == [ytd |-> None, oneYear |-> None, threeYear |-> None, asOf |-> None]

\* Rows as migrations left them: a score, if any, came without its breakdown.
Init ==
  /\ prices \in Histories
  /\ row \in [visibility : {"visible", "quarantined"}, complete : {TRUE},
              score : ScoreValues \cup {None}, breakdown : {None}, returns : {EmptySnapshot}]
  /\ detail = [asked |-> FALSE, status |-> 200, todo |-> Reads, row |-> row,
               latest |-> None, history |-> {}]
  /\ card = [step |-> "idle", row |-> row, returns |-> EmptySnapshot, history |-> {}]
  /\ writes = 0

-----------------------------------------------------------------------------
(* Figures of a price history.                                             *)

Latest(history) ==
  IF history = {} THEN None ELSE CHOOSE d \in history : \A e \in history : e <= d

First(history) ==
  IF history = {} THEN None ELSE CHOOSE d \in history : \A e \in history : d <= e

YearOf(d) == d \div Year
Since(history, d) == {e \in history : e >= d}
OfYear(history, y) == {e \in history : YearOf(e) = y}

Distance(d, e) == IF d < e THEN e - d ELSE d - e

\* The price closest to so many days before the latest, of two the older.
PriceAtLookback(history, days) ==
  LET target == Latest(history) - days
  IN  CHOOSE d \in history : \A e \in history :
        \/ Distance(d, target) < Distance(e, target)
        \/ Distance(d, target) = Distance(e, target) /\ d <= e

ReturnOver(history, days) ==
  IF history = {} THEN None ELSE <<PriceAtLookback(history, days), Latest(history)>>

ReturnYtd(history) ==
  IF history = {} THEN None
  ELSE <<First(Since(history, YearOf(Latest(history)) * Year)), Latest(history)>>

ReturnsByPeriod(history) ==
  [ytd |-> ReturnYtd(history), oneYear |-> ReturnOver(history, Year),
   threeYear |-> ReturnOver(history, 3 * Year), fiveYear |-> ReturnOver(history, 5 * Year)]

\* Defective variant: a past year ends with its own last price.
ReturnOfYearClosed(history, y) ==
  LET ofYear == OfYear(history, y)
  IN  IF ofYear = {} THEN None ELSE <<First(ofYear), Latest(ofYear)>>

\* A past year ends with the first price of the next.
ReturnOfYear(history, y) ==
  LET end == IF OfYear(history, y + 1) # {} THEN First(OfYear(history, y + 1))
             ELSE IF y = YearOf(Latest(history)) THEN Latest(history) ELSE None
  IN  IF OfYear(history, y) = {} \/ end = None THEN None
      ELSE <<First(OfYear(history, y)), end>>

ReturnsByYear(history) ==
  IF history = {} THEN <<>>
  ELSE [y \in (YearOf(Latest(history)) - 4)..YearOf(Latest(history)) |->
          ReturnOfYear(history, y)]

SnapshotOf(history) ==
  [ytd |-> ReturnYtd(history), oneYear |-> ReturnOver(history, Year),
   threeYear |-> ReturnOver(history, 3 * Year), asOf |-> Latest(history)]

-----------------------------------------------------------------------------
(* The charts, as the dates of their points.                               *)

\* Without a latest date a chart is empty, whatever the history holds.
Chart(history, latest, years) ==
  IF latest = None THEN {}
  ELSE {d \in history : latest - years * Year <= d /\ d <= latest}

\* Not cut at the end.
ChartYtd(history, latest) ==
  IF latest = None THEN {} ELSE Since(history, YearOf(latest) * Year)

-----------------------------------------------------------------------------
(* GET /funds/:isin                                                        *)

Visible(r) == r.visibility = "visible" \/ (r.visibility = "quarantined" /\ r.complete)

\* The score of the breakdown, which a metadata sync does not reset, or the
\* score that has none yet.
PersistedScore(r) == IF r.breakdown # None THEN r.breakdown ELSE r.score

Ask ==
  /\ ~ detail.asked
  /\ detail' = [detail EXCEPT !.asked = TRUE, !.row = row,
       !.status = IF ~ Visible(row) THEN 404
                  ELSE IF PersistedScore(row) = None THEN 503 ELSE 200]
  /\ UNCHANGED <<prices, row, card, writes>>

Pending(x) == detail.asked /\ detail.status = 200 /\ x \in detail.todo

\* The read x is done.
Proceed(x) == /\ detail' = [detail EXCEPT !.todo = @ \ {x}]
              /\ UNCHANGED <<prices, row, card, writes>>

ReadExposure(x) ==
  /\ Pending(x)
  /\ IF Visible(row) THEN Proceed(x)
     ELSE /\ detail' = [detail EXCEPT !.status = 404]
          /\ UNCHANGED <<prices, row, card, writes>>

ReadLatestDate ==
  /\ Pending("latest")
  /\ detail' = [detail EXCEPT !.todo = @ \ {"latest"}, !.latest = Latest(prices)]
  /\ UNCHANGED <<prices, row, card, writes>>

ReadHistory ==
  /\ Pending("history")
  /\ detail' = [detail EXCEPT !.todo = @ \ {"history"}, !.history = prices]
  /\ UNCHANGED <<prices, row, card, writes>>

ReadFails ==
  /\ \E x \in Reads : Pending(x)
  /\ detail' = [detail EXCEPT !.status = 503]
  /\ UNCHANGED <<prices, row, card, writes>>

-----------------------------------------------------------------------------
(* A card of GET /funds: the returns materialized in the row, or those of  *)
(* the prices of the last 400 days.                                        *)

Merged(primary, fallback) ==
  [field \in DOMAIN primary |->
     IF primary[field] # None THEN primary[field] ELSE fallback[field]]

ListCard ==
  /\ card.step = "idle" /\ Visible(row)
  /\ card' = [card EXCEPT !.row = row, !.returns = row.returns,
                          !.step = IF row.returns.oneYear = None THEN "window" ELSE "done"]
  /\ UNCHANGED <<prices, row, detail, writes>>

\* Of the fallback only the one-year return and its date are used.
CardFallback(history) ==
  [SnapshotOf(history) EXCEPT !.ytd = None, !.threeYear = None]

ReadCardWindow ==
  /\ card.step = "window"
  /\ card' = [card EXCEPT !.step = "done", !.history = prices,
       !.returns = Merged(@, CardFallback(Since(prices, Today - CardWindow)))]
  /\ UNCHANGED <<prices, row, detail, writes>>

-----------------------------------------------------------------------------
(* Meanwhile                                                               *)

Write == writes < MaxWrites /\ writes' = writes + 1 /\ UNCHANGED <<detail, card>>

\* Dates come in newest first: an older one may follow a newer.
Import ==
  /\ Write
  /\ \E d \in Days \ prices : prices' = prices \cup {d}
  /\ UNCHANGED row

\* Returns are computed from five years of prices.
MaterializeReturns ==
  /\ Write
  /\ row' = [row EXCEPT !.returns = SnapshotOf(Since(prices, Today - 5 * Year))]
  /\ UNCHANGED prices

\* The score is reset; the breakdown and the returns stay.
SyncMetadata ==
  /\ Write
  /\ \E complete \in BOOLEAN :
       row' = [row EXCEPT !.score = None, !.complete = complete]
  /\ UNCHANGED prices

\* The score and its breakdown, in one statement; then the automatic visibility.
Recalculate ==
  /\ Write
  /\ \E score \in ScoreValues :
       row' = [row EXCEPT !.score = score, !.breakdown = score,
         !.visibility = IF @ = "blocked" THEN @
                        ELSE IF row.complete THEN "visible" ELSE "quarantined"]
  /\ UNCHANGED prices

SetVisibility ==
  /\ Write
  /\ \E visibility \in {"visible", "blocked"} : row' = [row EXCEPT !.visibility = visibility]
  /\ UNCHANGED prices

Next ==
  \/ Ask \/ (\E x \in Reads \ {"latest", "history"} : ReadExposure(x))
  \/ ReadLatestDate \/ ReadHistory \/ ReadFails
  \/ ListCard \/ ReadCardWindow
  \/ Import \/ MaterializeReturns \/ SyncMetadata \/ Recalculate \/ SetVisibility

Spec == Init /\ [][Next]_vars

-----------------------------------------------------------------------------
(* Properties                                                              *)

Answered == detail.asked /\ detail.status = 200 /\ detail.todo = {}

\* Returns of one history fit together: the year to date is the last calendar
\* year, the years follow upon each other, and the longer a period the earlier
\* it starts. A fund younger than a period still has a return for it.
ReturnsFit ==
  LET history == detail.history
      period == ReturnsByPeriod(history)
      years == ReturnsByYear(history)
  IN  history # {} =>
        /\ period.ytd = years[YearOf(Latest(history))]
        /\ \A y \in DOMAIN years :
             y + 1 \in DOMAIN years /\ years[y] # None /\ years[y + 1] # None =>
               years[y][2] = years[y + 1][1]
        /\ period.fiveYear # None
        /\ period.fiveYear[1] <= period.threeYear[1]
        /\ period.threeYear[1] <= period.oneYear[1]

\* Charts end where the returns do, and a chart begins with the price its return
\* starts from or the next one, unless an import came between the two reads.
ChartsFitReturns ==
  LET history == detail.history
      year == Chart(history, detail.latest, 1)
      start == PriceAtLookback(history, Year)
  IN  history # {} /\ detail.latest = Latest(history) =>
        /\ Latest(year) = Latest(history)
        /\ ReturnYtd(history)[1] = First(ChartYtd(history, detail.latest))
        /\ start \in year => start = First(year)
        /\ start \notin year => \A d \in history : d <= start \/ First(year) <= d

\* A card's return ends at the date it is shown with, and is the detail's when
\* both saw the same prices and the return's start is in the card's window.
CardFits ==
  card.step = "done" /\ card.returns.oneYear # None =>
    /\ card.returns.asOf = card.returns.oneYear[2]
    /\ Answered /\ card.history = detail.history
         /\ card.history # {} /\ card.row.returns = EmptySnapshot
         /\ PriceAtLookback(detail.history, Year) >= Today - CardWindow =>
           card.returns.oneYear = ReturnsByPeriod(detail.history).oneYear

\* The detail shows the score the cards show whenever they show one: only a
\* metadata sync leaves the detail the score of before it.
ScoresFit ==
  Answered /\ detail.row.score # None => PersistedScore(detail.row) = detail.row.score

\* What a reader is told of a fund agrees: returns with returns, charts with
\* returns, a card with the detail, and a score with the score before it.
FiguresAgree == (Answered => ReturnsFit /\ ChartsFitReturns) /\ CardFits /\ ScoresFit

=============================================================================
