--------------------------- MODULE FeaturedSelection ---------------------------
(***************************************************************************)
(* GET /featured, its cache (ReadCaches) aside: the quarter a request      *)
(* means, the curated selection that answers it, the cards made of the     *)
(* selected funds and the filters on them; and the investment theme a sync *)
(* gives a fund, whose label the market filter reads.                      *)
(*                                                                         *)
(* A quarter is <<year, 1..4>>, a day <<month, day>> where month counts    *)
(* from the year 0, and a text is the set of its words, without case; the  *)
(* empty text is {}.                                                       *)
(***************************************************************************)
EXTENDS Integers, Sequences, FiniteSets, FiniteSetsExt, SequencesExt

CONSTANTS Requests,   \* what a client may ask, when, of what tables
          None

VARIABLES request,  \* the request
          featured  \* its answer

vars == <<request, featured>>

\* Numbers in ascending order.
Ascending(S) ==
  [n \in 1..Cardinality(S) |-> CHOOSE x \in S : Cardinality({y \in S : y < x}) = n - 1]

\* What a list has at some places, in its order.
Kept(list, places) == [n \in DOMAIN Ascending(places) |-> list[Ascending(places)[n]]]

-----------------------------------------------------------------------------
(* Quarters *)

\* Negative when left is the earlier.
CompareQuarterKeys(left, right) ==
  IF left[1] # right[1] THEN left[1] - right[1] ELSE left[2] - right[2]

CurrentQuarter(day) == <<day[1] \div 12, (day[1] % 12) \div 3 + 1>>

\* The days of a month that ends a quarter.
DaysOf(month) == IF month % 12 \in {5, 8} THEN 30 ELSE 31

\* Date.UTC: the day before the first of a month ends the month before.
Utc(month, day) == IF day = 0 THEN <<month - 1, DaysOf(month - 1)>> ELSE <<month, day>>

QuarterMetadata(quarter) ==
  LET first == 12 * quarter[1] + 3 * (quarter[2] - 1)
  IN  [quarter |-> quarter, start |-> Utc(first, 1), end |-> Utc(first + 3, 0)]

\* "2026-Q2" or "Q2 2026"; nothing means the current quarter.
ResolveQuarter(raw, day) ==
  CASE raw.form \in {"canonical", "display"} -> raw.quarter
    [] raw.form = "none" -> CurrentQuarter(day)
    [] raw.form = "other" -> None

-----------------------------------------------------------------------------
(* Themes: the rules are evaluated in order, the first match wins. Some of *)
(* the words of each are here, and a description is part of the name.      *)

ThemeRules ==
  << <<{"esg", "climate"}, "esg">>,
     <<{"technology", "nasdaq-100"}, "technology">>,
     <<{"fixed income"}, "fixed-income">>,
     <<{"bond", "treasury"}, "fixed-income">>,
     <<{"balanced", "allocation"}, "multi-asset">>,
     <<{"s&p", "usa", "russell"}, "us-equity">>,
     <<{"europe", "stoxx"}, "europe-equity">>,
     <<{"emerging", "frontier"}, "emerging-equity">>,
     <<{"world", "acwi"}, "global-equity">>,
     <<{"gold", "water"}, "sector-other">> >>

ClassifyTheme(fund) ==
  LET corpus == fund.name \cup fund.benchmark \cup fund.assetClass
      matching == {i \in DOMAIN ThemeRules : ThemeRules[i][1] \cap corpus # {}}
  IN  IF matching # {} THEN ThemeRules[Min(matching)][2]
      ELSE IF "equity" \in fund.assetClass THEN "global-equity" ELSE "unclassified"

ThemeLabel(theme) ==
  CASE theme = "global-equity" -> {"renta", "variable", "global"}
    [] theme = "us-equity" -> {"renta", "variable", "usa"}
    [] theme = "europe-equity" -> {"renta", "variable", "europa"}
    [] theme = "emerging-equity" -> {"mercados", "emergentes"}
    [] theme = "fixed-income" -> {"renta", "fija"}
    [] theme = "multi-asset" -> {"multiactivo"}
    [] theme = "technology" -> {"tecnologia"}
    [] theme = "esg" -> {"esg", "sostenibilidad"}
    [] theme = "sector-other" -> {"sectorial"}
    [] theme = "unclassified" -> {"sin", "clasificar"}

\* What a sync makes of a fund: a label that is there is kept.
Synced(fund) ==
  IF fund # None /\ fund.label = {} THEN [fund EXCEPT !.label = ThemeLabel(ClassifyTheme(fund))]
  ELSE fund

-----------------------------------------------------------------------------
(* Cards *)

Round(tenths) == (tenths + 5) \div 10
EfficiencyScore(fund) == IF fund.score = None THEN 0 ELSE Round(fund.score)

CategoryLabel(fund) == {"etf"} \cup fund.benchmark

\* The curated copy of the quarter comes before the fund's own.
FeaturedCard(entry, fund) ==
  [isin |-> entry.isin, name |-> fund.name, category |-> CategoryLabel(fund),
   theme |-> IF entry.label # {} THEN entry.label ELSE fund.label,
   score |-> EfficiencyScore(fund)]

\* Entries that are not synced, not public or below 30 are skipped.
Hydrate(entries, funds) ==
  LET Eligible(fund) == fund # None /\ fund.visible /\ EfficiencyScore(fund) >= 30
      kept == Kept(entries, {i \in DOMAIN entries : Eligible(funds[entries[i].isin])})
  IN  [i \in DOMAIN kept |-> FeaturedCard(kept[i], funds[kept[i].isin])]

InMarket(card, market) ==
  LET labels == card.category \cup card.theme
  IN  CASE market \in {"usa", "us"} -> "usa" \in labels \/ "s&p" \in labels \cup card.name
        [] market \in {"europa", "europe"} -> "europa" \in labels
        [] market = "global" -> "global" \in labels
        [] OTHER -> market \in labels \cup card.name

Passing(cards, benchmark, market) ==
  Kept(cards, {i \in DOMAIN cards :
                 /\ benchmark # None => benchmark \in cards[i].category
                 /\ market # None => InMarket(cards[i], market)})

Limited(cards, limit) ==
  IF limit = None \/ Len(cards) <= limit THEN cards ELSE SubSeq(cards, 1, limit)

FilterCards(cards, q) == Limited(Passing(cards, q.benchmark, q.mercado), q.limit)

-----------------------------------------------------------------------------
(* The selection that answers: r.selections holds the entries of each      *)
(* quarter somebody curated.                                               *)

NewestFirst(quarters) ==
  [n \in 1..Cardinality(quarters) |->
     CHOOSE q \in quarters :
       Cardinality({p \in quarters : CompareQuarterKeys(p, q) > 0}) = n - 1]

\* From the requested quarter back; from the newest selection when the quarter
\* has none.
SelectionAttempts(requested, curated) ==
  NewestFirst({q \in curated : requested \in curated => CompareQuarterKeys(q, requested) <= 0})

CardsOf(r, quarter) == FilterCards(Hydrate(r.selections[quarter], r.funds), r)

Response(quarter, cards) == [period |-> QuarterMetadata(quarter), cards |-> cards]

\* A quarter nobody can read is a bad request, which has no period.
FeaturedFunds(r) ==
  LET requested == ResolveQuarter(r.quarter, r.day)
      attempts == SelectionAttempts(requested, DOMAIN r.selections)
      found == {i \in DOMAIN attempts : CardsOf(r, attempts[i]) # <<>>}
  IN  IF requested = None THEN [period |-> None, cards |-> <<>>]
      ELSE IF r.quarter.form # "none"
        THEN Response(requested,
               IF requested \in DOMAIN r.selections THEN CardsOf(r, requested) ELSE <<>>)
      ELSE IF found = {} THEN Response(requested, <<>>)
      ELSE Response(attempts[Min(found)], CardsOf(r, attempts[Min(found)]))

\* A month, a day of it, and the quarters, texts, funds and entries of a request.
Quarters == Nat \X (1..4)
Texts == SUBSET STRING
Fund ==
  [name : Texts, benchmark : Texts, assetClass : Texts, label : Texts,
   visible : BOOLEAN, score : Nat \cup {None}]

RequestTyped(r) ==
  /\ r \in [quarter : [form : {"none", "other"}, quarter : {None}]
                       \cup [form : {"canonical", "display"}, quarter : Quarters],
             day : Nat \X (1..31), benchmark : STRING \cup {None}, mercado : STRING \cup {None},
             limit : (Nat \ {0}) \cup {None}, selections : {r.selections}, funds : {r.funds}]
  /\ r.day[2] <= DaysOf(r.day[1])
  /\ IsFiniteSet(DOMAIN r.selections) /\ DOMAIN r.selections \subseteq Quarters
  /\ \A q \in DOMAIN r.selections :
       r.selections[q] \in Seq([isin : DOMAIN r.funds, label : Texts])
  /\ \A isin \in DOMAIN r.funds : r.funds[isin] \in Fund \cup {None}

\* The request r once the funds it is about are synced.
SyncedRequest(r) == [r EXCEPT !.funds = [isin \in DOMAIN r.funds |-> Synced(r.funds[isin])]]

ConstantsAssumption ==
  /\ None \notin Quarters /\ None \notin Nat /\ None \notin Fund
  /\ None \notin {"us", "usa", "europe", "europa"}
  /\ \A r \in Requests : SyncedRequest(r) # None /\ RequestTyped(r)

Init == request = None /\ featured = None

Ask ==
  /\ request = None
  /\ \E r \in Requests : request' = SyncedRequest(r)
  /\ featured' = FeaturedFunds(request')

Spec == Init /\ [][Ask]_vars

-----------------------------------------------------------------------------
(* Properties *)

TypeOK ==
  /\ request = None => featured = None
  /\ request # None =>
       /\ \A isin \in DOMAIN request.funds : request.funds[isin] = Synced(request.funds[isin])
       /\ DOMAIN featured = {"period", "cards"}

OnOrBefore(d, e) == d[1] < e[1] \/ (d[1] = e[1] /\ d[2] <= e[2])
NextDay(d) == IF d[2] = DaysOf(d[1]) THEN <<d[1] + 1, 1>> ELSE <<d[1], d[2] + 1>>
NextQuarter(q) == IF q[2] = 4 THEN <<q[1] + 1, 1>> ELSE <<q[1], q[2] + 1>>

\* The current quarter's period holds today, and quarters follow each other
\* without a gap, across years.
QuartersTile ==
  LET current == QuarterMetadata(CurrentQuarter(request.day))
  IN  /\ OnOrBefore(current.start, request.day) /\ OnOrBefore(request.day, current.end)
      /\ QuarterMetadata(NextQuarter(current.quarter)).start = NextDay(current.end)
      /\ CompareQuarterKeys(current.quarter, NextQuarter(current.quarter)) < 0

\* A request for a quarter is told of that quarter, in either spelling. Another is
\* told of the newest selection with a card to show, of those up to its quarter
\* when that one is curated and of all when it is not, future ones included.
QuarterFits ==
  LET requested == ResolveQuarter(request.quarter, request.day)
      considered == {q \in DOMAIN request.selections :
                       requested \in DOMAIN request.selections => CompareQuarterKeys(q, requested) <= 0}
      shown == {q \in considered : CardsOf(request, q) # <<>>}
      served == featured.period.quarter
  IN  IF request.quarter.form # "none"
        THEN /\ served = requested
             /\ \A form \in {"canonical", "display"} :
                  FeaturedFunds([request EXCEPT !.quarter.form = form]) = featured
      ELSE IF shown = {} THEN served = requested /\ featured.cards = <<>>
      ELSE served \in shown /\ \A q \in shown : CompareQuarterKeys(q, served) <= 0

\* Every card is a public fund that scores 30, and a limit cuts a list off without
\* changing it or the quarter that is shown.
CardsFit ==
  /\ \A i \in DOMAIN featured.cards :
       LET fund == request.funds[featured.cards[i].isin]
       IN  fund.visible /\ fund.score >= 295
  /\ LET all == FeaturedFunds([request EXCEPT !.limit = None])
     IN  all.period = featured.period /\ IsPrefix(featured.cards, all.cards)

\* The aliases of a market agree, and a fund that a sync has labelled with its
\* region's theme is under the market of that region, unless its copy says another.
MarketsFit ==
  /\ \A alias \in {<<"us", "usa">>, <<"europe", "europa">>} :
       FeaturedFunds([request EXCEPT !.mercado = alias[1]])
         = FeaturedFunds([request EXCEPT !.mercado = alias[2]])
  /\ \A market \in {<<"us-equity", "usa">>, <<"europe-equity", "europa">>,
                    <<"global-equity", "global">>} :
       \A quarter \in DOMAIN request.selections :
         LET cards == Hydrate(request.selections[quarter], request.funds)
         IN  \A i \in DOMAIN cards :
               LET fund == request.funds[cards[i].isin]
               IN  (ClassifyTheme(fund) = market[1] /\ cards[i].theme = ThemeLabel(market[1]))
                     => cards[i] \in Range(FilterCards(cards,
                          [request EXCEPT !.mercado = market[2], !.benchmark = None, !.limit = None]))

FeaturedFits ==
  (request # None /\ featured.period # None) =>
    QuartersTile /\ QuarterFits /\ CardsFit /\ MarketsFit

=============================================================================
