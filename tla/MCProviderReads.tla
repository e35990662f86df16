--------------------------- MODULE MCProviderReads ---------------------------
(***************************************************************************)
(* Model checking of what answers the readers: the MCP session, the caches *)
(* of featured funds, news and quotes, the RN-04 score, the figures of a   *)
(* fund and the normalized answers of Financial Modeling Prep.  They share *)
(* no variable, so a behaviour runs one of them: "part" says which, and    *)
(* the other variables keep their initial values.                          *)
(*   session    two callers of MyInvestor's tools and a server that        *)
(*              discards sessions                                          *)
(*   featured, news, live   the three caches                               *)
(*   scores     the score of every catalog of three funds                  *)
(*   figures    the figures of every history of three prices               *)
(*   detail     the reads of one request among changes of the fund         *)
(*   answers    the provider's answers                                     *)
(*   lists      lists, metrics and rankings of a table that is written     *)
(*   selection  the featured funds of a quarter                            *)
(*   charts     the row and the charts of a fund whose prices change       *)
(***************************************************************************)
EXTENDS McpSession, ReadCaches, Rn04Score

CONSTANTS c1, c2, r1, r2,
          Parts  \* the parts that are run

VARIABLES prices, row, detail, card, writes,
          question, answer,
          listed, query, result, asked, rewrites, request, featured,
          today, closes, public, viewer, pruned, edits,
          part

session == vars
caching == cacheVars
scoring == scoreVars
figuring == <<prices, row, detail, card, writes>>
asking == <<question, answer>>
listing == <<listed, query, result, asked, rewrites, request, featured>>
charting == <<today, closes, public, viewer, pruned, edits>>
allVars == <<session, caching, scoring, figuring, asking, listing, charting, part>>

\* One service at a time.
Featured == INSTANCE ReadCaches WITH Services <- {"featured"}
News == INSTANCE ReadCaches WITH Services <- {"news"}
Live == INSTANCE ReadCaches WITH Services <- {"live"}

-----------------------------------------------------------------------------
(* Catalogs: a fund with each kind of figures, under two spellings of a    *)
(* benchmark or none.                                                      *)

Profiles ==
  {[ter |-> 10, tracking |-> 20, aum |-> 3, oldest |-> 100],
   [ter |-> 40, tracking |-> 5, aum |-> 12, oldest |-> 3000],
   [ter |-> 10, tracking |-> None, aum |-> 12, oldest |-> None],
   [ter |-> None, tracking |-> 20, aum |-> None, oldest |-> 4000],
   [ter |-> 110, tracking |-> 60, aum |-> 3, oldest |-> 3000]}

Rows ==
  {[benchmark |-> b, category |-> 9, ter |-> p.ter, tracking |-> p.tracking,
    aum |-> p.aum, oldest |-> p.oldest] : b \in {1, 2, None}, p \in Profiles}

CatalogsOfThree == UNION {[1..n -> Rows] : n \in 0..3}
OneSpelling == [b \in {1, 2} |-> 1]

-----------------------------------------------------------------------------
(* Histories: a year has three days.                                       *)

Figures == INSTANCE FundFigures WITH
  Days <- 0..16, Today <- 17, Year <- 3, CardWindow <- 4, ScoreValues <- {50}, MaxWrites <- 0,
  Histories <- {h \in SUBSET (0..16) : Cardinality(h) <= 3}
Details == INSTANCE FundFigures WITH
  Days <- {9, 13, 15}, Today <- 17, Year <- 3, CardWindow <- 4, ScoreValues <- {50, 60},
  MaxWrites <- 2, Histories <- {{}, {9, 15}, {13}}

-----------------------------------------------------------------------------
(* Questions to the provider. In the market, symbol s closed at 4 * s.     *)

Market == [s \in 0..2 |-> 4 * s]

\* The rows an endpoint may give of a symbol that moved by "change", with a rate unless
\* it closed at 0.
QuoteRows(s, change) ==
  {[symbol |-> s, price |-> Market[s] + change, change |-> c, previous |-> p, percent |-> r] :
     c \in {change, None}, p \in {Market[s], None},
     r \in {None} \cup {<<change, close>> : close \in {Market[s]} \ {0}}}

Results(rows) ==
  {[error |-> e, rows |-> <<>>] : e \in {"none", "paid", "other"}}
    \cup {[error |-> "none", rows |-> seq] : seq \in rows}

Quotes ==
  LET own == QuoteRows(1, 2) \cup QuoteRows(1, -1) \cup QuoteRows(1, 0)
      other == QuoteRows(2, 3)
      rows == {<<q>> : q \in own \cup other} \cup {<<CHOOSE o \in other : TRUE, q>> : q \in own}
  IN  {[kind |-> "quote", symbol |-> 1, market |-> Market, full |-> f, short |-> s] :
         f \in Results(rows), s \in Results({<<q>> : q \in QuoteRows(1, 2)})}
       \cup {[kind |-> "quote", symbol |-> 0, market |-> Market, full |-> f, short |-> s] :
               f \in Results({<<q>> : q \in QuoteRows(0, 2) \cup QuoteRows(0, 0)}),
               s \in Results({<<q>> : q \in QuoteRows(0, 2)})}

Names == {{}, {"ftse"}, {"msci", "index"}, {"index"}}

ProfileQuestions ==
  {[kind |-> "profile", symbol |-> 1, search |-> s, info |-> i] :
     s \in Results({<<[symbol |-> 1, name |-> n]>> : n \in Names}
                     \cup {<<[symbol |-> 2, name |-> {}]>>}),
     i \in Results({<<[symbol |-> 1, name |-> n, description |-> d, isin |-> 7, ter |-> 20]>> :
                      n \in Names \cup {None}, d \in {"world", None}})}

Compositions ==
  LET weightings == {[named |-> n, percentage |-> p, weight |-> w] :
                       n \in BOOLEAN, p \in {None, -1, 0, 300}, w \in {None, 0, 4, 6, 10, 600}}
      Asked(rows, updated, error) ==
        [kind |-> "composition", rows |-> rows, updated |-> updated, today |-> 9, error |-> error]
  IN  {Asked(rows, u, "none") : rows \in UNION {[1..n -> weightings] : n \in 0..2}, u \in {{}, {3, 5}}}
        \cup {Asked(<<>>, {}, e) : e \in {"paid", "other"}}

Feeds ==
  {[kind |-> "news", limit |-> l, feed |-> f] : l \in {1, 2},
     f \in Results(UNION {[1..n -> [complete : BOOLEAN, date : 1..2]] : n \in 1..3})}

Provider == INSTANCE FmpNormalizers WITH
  Patterns <- <<"sp500", "msci", "ftse", "index">>,
  Questions <- Quotes \cup ProfileQuestions \cup Compositions \cup Feeds

-----------------------------------------------------------------------------
(* Tables of three funds, out of six contents, in one order each.          *)

Content(v, bench, ter, risk, score, ideal, theme) ==
  [visibility |-> v, isin |-> TRUE, benchmark |-> bench, ter |-> ter, risk |-> risk,
   score |-> score, ideal |-> ideal, theme |-> theme, return1y |-> score]

Listable ==
  <<Content("visible", 1, 20, None, 50, TRUE, 1), Content("quarantined", 1, 20, 2, 50, FALSE, None),
    Content("quarantined", 1, None, 3, None, FALSE, 1), Content("blocked", 2, 40, 6, 80, TRUE, 2),
    Content("visible", 2, 40, 3, None, TRUE, 2), Content("visible", 2, 90, 6, 20, TRUE, 1)>>

ListTables ==
  {[f \in 1..3 |-> Listable[i[f]]] : i \in {j \in [1..3 -> 1..6] : j[1] <= j[2] /\ j[2] <= j[3]}}

AnyList ==
  [kind |-> "list", visibilities |-> None, equal |-> <<>>, riskProfile |-> None, riskLevel |-> None,
   minScore |-> None, maxScore |-> None, minTer |-> None, maxTer |-> None, minReturn1y |-> None,
   ideal |-> None, sortBy |-> "score", descending |-> TRUE, page |-> 1, limit |-> 1,
   benchmark |-> None, groupsLimit |-> 1]

ListQueries ==
  {[AnyList EXCEPT !.page = p, !.limit = l] : p \in 1..3, l \in 1..2}
    \cup {[AnyList EXCEPT !.sortBy = "ter", !.descending = FALSE, !.riskProfile = r] :
             r \in {"all", "low", "medium", "high"}}
    \cup {[AnyList EXCEPT !.limit = 2, !.riskLevel = 6, !.maxTer = 50, !.maxScore = 60],
          [AnyList EXCEPT !.limit = 2, !.ideal = TRUE, !.equal = [theme |-> 1], !.minReturn1y = 10],
          [AnyList EXCEPT !.kind = "admin", !.visibilities = {"quarantined", "blocked"}]}
    \cup {[AnyList EXCEPT !.kind = "metrics", !.riskProfile = r, !.minScore = m, !.minTer = t] :
             r \in {"all", "medium"}, m \in {None, 40}, t \in {None, 30}}
    \cup {[AnyList EXCEPT !.kind = "rankings", !.benchmark = b, !.groupsLimit = n] :
             b \in {None, 1}, n \in 1..2}
    \cup {[AnyList EXCEPT !.kind = "summary"]}

Lists == INSTANCE CatalogQueries WITH
  Funds <- 1..3, Contents <- {Listable[i] : i \in 1..6}, Tables <- ListTables,
  Queries <- ListQueries, MaxWrites <- 1

-----------------------------------------------------------------------------
(* Two curated funds and one that is not synced; quarters around the turn  *)
(* of a year.                                                              *)

FundTable(benchmark, label, visible, score) ==
  [isin \in {"a", "b", "c"} |->
     CASE isin = "a" -> [name |-> {"core"}, benchmark |-> benchmark, assetClass |-> {"equity"},
                         label |-> label, visible |-> visible, score |-> score]
       [] isin = "b" -> [name |-> {"usa"}, benchmark |-> {"bond"}, assetClass |-> {},
                         label |-> {}, visible |-> TRUE, score |-> 800]
       [] isin = "c" -> None]

FundTables ==
  {FundTable(b, {}, TRUE, 295) : b \in {{}, {"s&p"}, {"stoxx", "esg"}, {"stoxx"}, {"world"}, {"emerging"}}}
    \cup {FundTable({"world"}, {"usa"}, TRUE, 600), FundTable({"world"}, {}, TRUE, 294),
          FundTable({"world"}, {}, TRUE, None), FundTable({"world"}, {}, FALSE, 600)}

Entry(isin, label) == [isin |-> isin, label |-> label]

\* The selections of the quarters in "curated".
SelectionsOf(curated) ==
  [q \in curated |->
     CASE q = <<2025, 4>> -> <<Entry("b", {}), Entry("a", {})>>
       [] q = <<2026, 1>> -> <<Entry("c", {}), Entry("a", {})>>
       [] q = <<2026, 3>> -> <<Entry("a", {"mercados", "emergentes"})>>]

AnyCards == [benchmark |-> None, mercado |-> None, limit |-> None]
CardFilters ==
  {AnyCards, [AnyCards EXCEPT !.limit = 1], [AnyCards EXCEPT !.benchmark = "world"]}
    \cup {[AnyCards EXCEPT !.mercado = m] : m \in {"us", "usa", "europe", "global", "emergentes"}}
    \cup {[AnyCards EXCEPT !.mercado = "usa", !.limit = 1]}

AskedQuarters ==
  {[form |-> "none", quarter |-> None], [form |-> "other", quarter |-> None],
   [form |-> "canonical", quarter |-> <<2026, 1>>], [form |-> "display", quarter |-> <<2026, 2>>]}

FeaturedRequests ==
  {[quarter |-> q, day |-> d, benchmark |-> f.benchmark, mercado |-> f.mercado, limit |-> f.limit,
    selections |-> SelectionsOf(curated), funds |-> funds] :
     q \in AskedQuarters, f \in CardFilters, funds \in FundTables,
     d \in {<<12 * 2025 + 11, 31>>, <<12 * 2026, 1>>, <<12 * 2026 + 5, 30>>},
     curated \in SUBSET {<<2025, 4>>, <<2026, 1>>, <<2026, 3>>}}

Selection == INSTANCE FeaturedSelection WITH Requests <- FeaturedRequests

-----------------------------------------------------------------------------
(* Five days of prices, charts of one day and of three, as far back as     *)
(* prices are kept.                                                        *)

Charts == INSTANCE FundCharts WITH
  PeriodDays <- [short |-> 1, long |-> 3], Closes <- {2, 3}, Retention <- 3,
  Batches <- {{d} : d \in -1..4} \cup {{0, 1}, {-1, 2}}, FirstDay <- -1, MaxDay <- 4, MaxEdits <- 3

-----------------------------------------------------------------------------
ASSUME ConstantsAssumption
ASSUME CachesAssumption
ASSUME ScoringAssumption
ASSUME Figures!ConstantsAssumption /\ Details!ConstantsAssumption
ASSUME Charts!ConstantsAssumption
ASSUME Provider!ConstantsAssumption
ASSUME Selection!ConstantsAssumption
ASSUME Lists!ConstantsAssumption

MCInit ==
  /\ part \in Parts
  /\ Init /\ (part # "session" => stateful)
  /\ IF part = "live" THEN Live!CachesInit
     ELSE IF part = "news" THEN News!CachesInit ELSE Featured!CachesInit
  /\ part \notin {"featured", "news", "live"} => fund.visible
  /\ scores = None /\ IF part = "scores" THEN ScoreInit ELSE table = <<>>
  /\ IF part = "figures" THEN Figures!Init
     ELSE /\ Details!Init
          /\ part # "detail" => prices = {} /\ row.visibility = "visible" /\ row.score = None
  /\ IF part = "answers" THEN Provider!Init ELSE question = None /\ answer = None
  /\ IF part = "lists" THEN Lists!Init
     ELSE listed = None /\ query = None /\ result = None /\ asked = None /\ rewrites = 0
  /\ Selection!Init
  /\ Charts!Init /\ (part # "charts" => today = 1 /\ public)

MCNext ==
  \/ /\ part = "session" /\ Next
     /\ UNCHANGED <<caching, scoring, figuring, asking, listing, charting, part>>
  \/ /\ part = "featured" /\ Featured!CachesNext
     /\ UNCHANGED <<session, scoring, figuring, asking, listing, charting, part>>
  \/ /\ part = "news" /\ News!CachesNext
     /\ UNCHANGED <<session, scoring, figuring, asking, listing, charting, part>>
  \/ /\ part = "live" /\ Live!CachesNext /\ UNCHANGED reqs[r2]
     /\ UNCHANGED <<session, scoring, figuring, asking, listing, charting, part>>
  \/ /\ part = "scores" /\ Score
     /\ UNCHANGED <<session, caching, figuring, asking, listing, charting, part>>
  \/ /\ part = "figures" /\ Figures!Next
     /\ UNCHANGED <<session, caching, scoring, asking, listing, charting, part>>
  \/ /\ part = "detail" /\ Details!Next
     /\ UNCHANGED <<session, caching, scoring, asking, listing, charting, part>>
  \/ /\ part = "answers" /\ Provider!Next
     /\ UNCHANGED <<session, caching, scoring, figuring, listing, charting, part>>
  \/ /\ part = "lists" /\ Lists!Next
     /\ UNCHANGED <<session, caching, scoring, figuring, asking, request, featured,
                    charting, part>>
  \/ /\ part = "selection" /\ Selection!Ask
     /\ UNCHANGED <<session, caching, scoring, figuring, asking, listed, query, result, asked,
                    rewrites, charting, part>>
  \/ /\ part = "charts" /\ Charts!Next
     /\ UNCHANGED <<session, caching, scoring, figuring, asking, listing, part>>

Client(c) ==
  /\ part = "session" /\ ClientStep(c)
  /\ UNCHANGED <<caching, scoring, figuring, asking, listing, charting, part>>
Server(c) ==
  /\ part = "session" /\ ServerStep(c)
  /\ UNCHANGED <<caching, scoring, figuring, asking, listing, charting, part>>

\* The fairness of McpSession.
MCSpec ==
  /\ MCInit /\ [][MCNext]_allVars
  /\ \A c \in Callers : WF_allVars(Client(c)) /\ WF_allVars(Server(c))

-----------------------------------------------------------------------------
\* Every variable of the part that runs has its type.
PartsTyped ==
  CASE part = "session" -> TypeOK
    [] part = "featured" -> Featured!CachesTyped
    [] part = "news" -> News!CachesTyped
    [] part = "live" -> Live!CachesTyped
    [] part = "scores" -> ScoresTyped
    [] part = "figures" -> Figures!TypeOK
    [] part = "detail" -> Details!TypeOK
    [] part = "answers" -> Provider!TypeOK
    [] part = "lists" -> Lists!TypeOK
    [] part = "selection" -> Selection!TypeOK
    [] part = "charts" -> Charts!TypeOK

\* The returns, charts, cards and scores shown of a fund, and the weights, quotes,
\* profiles and news taken from the provider, agree with one another, and so do the
\* pages, totals, facets and groups of a catalog that is written while it is read.
ShownFiguresAgree ==
  /\ part = "figures" => Figures!FiguresAgree
  /\ part = "detail" => Details!FiguresAgree
  /\ part = "answers" => Provider!AnswersFit
  /\ part = "lists" => Lists!AnswersAddUp
  /\ part = "selection" => Selection!FeaturedFits
  /\ part = "charts" => Charts!ChartsFit

=============================================================================
