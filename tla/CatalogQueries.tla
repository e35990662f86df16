---------------------------- MODULE CatalogQueries ----------------------------
(***************************************************************************)
(* The reads of the catalog that answer more than one figure: GET /funds   *)
(* and GET /admin/funds (a page and a total), the catalog metrics (a total *)
(* and a facet per theme), the catalog summary and GET /rankings (the      *)
(* groups' funds and the groups' totals).  Each runs several statements.   *)
(* A statement sees the table as it stands when it starts: the two of a    *)
(* list share a transaction, which at READ COMMITTED does not share a      *)
(* snapshot, and the others run on connections of their own.  Syncs,       *)
(* recalculations and administrators write between them.                   *)
(*                                                                         *)
(* A fund is its symbol.  A missing value is None; SQL compares it with    *)
(* nothing, and sorts it after every value.                                *)
(***************************************************************************)
EXTENDS Integers, Sequences, FiniteSets, FiniteSetsExt, SequencesExt

CONSTANTS Funds,      \* the symbols, integers
          Contents,   \* the contents a row may have
          Tables,     \* the tables a request may find
          Queries,    \* the requests
          MaxWrites,  \* bound: the writes during one request
          None

VARIABLES listed,  \* the table
          query,   \* the request under way
          result,  \* what its statements that have run returned
          asked,   \* the table when it came (history)
          rewrites \* the writes since (history)

vars == <<listed, query, result, asked, rewrites>>

-----------------------------------------------------------------------------
(* The filters *)

\* buildPublicCatalogVisibilityWhereInput
PublicCatalog(r) ==
  \/ r.visibility = "visible"
  \/ /\ r.visibility = "quarantined"
     /\ r.isin /\ r.benchmark # None /\ r.ter # None

\* isCatalogVisible, which the detail endpoints ask of a row they have read.
IsCatalogVisible(r) ==
  /\ r.visibility # "blocked"
  /\ r.visibility = "quarantined" => r.isin /\ None \notin {r.benchmark, r.ter}

RiskBand(profile) ==
  CASE profile = "low" -> 1..2
    [] profile = "medium" -> {None} \cup 3..5
    [] profile = "high" -> 6..7

MapRiskLevelToApp(risk) ==
  IF risk = None THEN "medium"
  ELSE IF risk <= 2 THEN "low" ELSE IF risk <= 5 THEN "medium" ELSE "high"

AtLeast(value, bound) == bound # None => value # None /\ value >= bound
AtMost(value, bound) == bound # None => value # None /\ value <= bound

EffectiveMinScore(q) ==
  IF q.ideal # TRUE THEN q.minScore
  ELSE IF q.minScore = None \/ q.minScore < 30 THEN 30 ELSE q.minScore

\* q.equal holds the filters on one column: category, vehicle, currency,
\* provider, benchmark, theme or the text searched for.
FundListWhere(q, r) ==
  /\ IF q.visibilities = None THEN PublicCatalog(r) ELSE r.visibility \in q.visibilities
  /\ \A column \in DOMAIN q.equal : r[column] = q.equal[column]
  /\ IF q.riskProfile \in {"low", "medium", "high"} THEN r.risk \in RiskBand(q.riskProfile)
     ELSE q.riskLevel # None => r.risk = q.riskLevel
  /\ AtLeast(r.score, EffectiveMinScore(q)) /\ AtMost(r.score, q.maxScore)
  /\ AtLeast(r.ter, q.minTer) /\ AtMost(r.ter, q.maxTer)
  /\ AtLeast(r.return1y, q.minReturn1y)
  /\ q.ideal # None => r.ideal = q.ideal

\* The metrics filter by the risk profile once more.
MetricsWhere(q, r) ==
  /\ FundListWhere(q, r)
  /\ q.riskProfile # "all" => r.risk \in RiskBand(q.riskProfile)

Matches(q, table) ==
  {f \in Funds : IF q.kind = "metrics" THEN MetricsWhere(q, table[f])
                 ELSE FundListWhere(q, table[f])}

-----------------------------------------------------------------------------
(* The statements *)

\* ORDER BY one column.
Before(q, table, f, g) ==
  LET a == table[f][q.sortBy]
      b == table[g][q.sortBy]
  IN  IF q.descending THEN b # None /\ (a = None \/ a > b)
      ELSE a # None /\ (b = None \/ a < b)

\* The orders the database may return: it breaks ties as it likes.
Sorted(q, table) ==
  {order \in SetToSeqs(Matches(q, table)) :
     \A i, j \in DOMAIN order : i < j => ~ Before(q, table, order[j], order[i])}

Skip(q) == (q.page - 1) * q.limit

Pages(q, table) ==
  {SubSeq(order, Skip(q) + 1, Min({Len(order), Skip(q) + q.limit})) :
     order \in Sorted(q, table)}

\* getCatalogCategoryMetrics: funds without a theme are in no category.
Categories(q, table) ==
  LET themed == {f \in Matches(q, table) : table[f].theme # None}
      Of(theme) == {f \in themed : table[f].theme = theme}
      Scores(theme) == {table[f].score : f \in Of(theme)} \ {None}
  IN  [theme \in {table[f].theme : f \in themed} |->
         [fundCount |-> Cardinality(Of(theme)),
          topScore |-> IF Scores(theme) = {} THEN None ELSE Max(Scores(theme))]]

CountByCatalogVisibility(table) ==
  [v \in {"visible", "quarantined", "blocked"} |->
     Cardinality({f \in Funds : table[f].visibility = v})]

\* A scored fund is in the group of its benchmark (FundScoring says when not).
Eligible(q, table) ==
  {f \in Funds :
     /\ table[f].visibility # "blocked" /\ table[f].isin
     /\ None \notin {table[f].benchmark, table[f].score, table[f].ter}
     /\ q.benchmark \in {None, table[f].benchmark}}

GroupTotals(q, table) ==
  [key \in {table[f].benchmark : f \in Eligible(q, table)} |->
     Cardinality({f \in Eligible(q, table) : table[f].benchmark = key})]

\* The largest groups, and the first funds of each.
RankedRows(q, table) ==
  LET totals == GroupTotals(q, table)
      Larger(h, k) == totals[h] > totals[k] \/ (totals[h] = totals[k] /\ h < k)
      top == {k \in DOMAIN totals :
                \/ q.benchmark # None
                \/ Cardinality({h \in DOMAIN totals : Larger(h, k)}) < q.groupsLimit}
      Ahead(f) == {g \in Eligible(q, table) :
                     /\ table[g].benchmark = table[f].benchmark
                     /\ \/ table[g].score > table[f].score
                        \/ table[g].score = table[f].score /\ g < f}
  IN  {f \in Eligible(q, table) :
         table[f].benchmark \in top /\ Cardinality(Ahead(f)) < q.limit}

Statements(q) ==
  CASE q.kind \in {"list", "admin"} -> {"page", "count"}
    [] q.kind = "metrics" -> {"count", "categories"}
    [] q.kind = "summary" -> {"visibility"}
    [] q.kind = "rankings" -> {"rows", "totals", "eligible"}

Returns(s, q, table) ==
  CASE s = "page" -> Pages(q, table)
    [] s = "count" -> {Cardinality(Matches(q, table))}
    [] s = "categories" -> {Categories(q, table)}
    [] s = "visibility" -> {CountByCatalogVisibility(table)}
    [] s = "rows" -> {[f \in RankedRows(q, table) |-> table[f]]}
    [] s = "totals" -> {GroupTotals(q, table)}
    [] s = "eligible" -> {Cardinality(Eligible(q, table))}

-----------------------------------------------------------------------------
(* A request *)

Init ==
  /\ listed \in Tables /\ asked = listed
  /\ query = None /\ result = <<>> /\ rewrites = 0

Ask ==
  /\ query = None
  /\ query' \in Queries
  /\ UNCHANGED <<listed, result, asked, rewrites>>

\* The two statements of a list follow each other, the others race.
Execute(s) ==
  /\ query # None /\ s \in Statements(query) \ DOMAIN result
  /\ s = "count" /\ query.kind # "metrics" => "page" \in DOMAIN result
  /\ \E value \in Returns(s, query, listed) :
       result' = [t \in DOMAIN result \cup {s} |-> IF t = s THEN value ELSE result[t]]
  /\ UNCHANGED <<listed, query, asked, rewrites>>

Answered == query # None /\ DOMAIN result = Statements(query)

\* Somebody writes a row.
Write(f) ==
  /\ query # None /\ ~ Answered /\ rewrites < MaxWrites
  /\ \E r \in Contents \ {listed[f]} : listed' = [listed EXCEPT ![f] = r]
  /\ rewrites' = rewrites + 1
  /\ UNCHANGED <<query, result, asked>>

Next ==
  \/ Ask
  \/ \E s \in {"page", "count", "categories", "visibility", "rows", "totals", "eligible"} :
       Execute(s)
  \/ \E f \in Funds : Write(f)

Spec == Init /\ [][Next]_vars

\* The rows of the table, the columns a list may be sorted by, and the requests,
\* whose defaults are filled in.
Figure == Int \cup {None}
Row ==
  [visibility : {"visible", "quarantined", "blocked"}, isin : BOOLEAN, benchmark : Figure,
   ter : Figure, risk : 1..7 \cup {None}, score : Figure, ideal : BOOLEAN, theme : Figure,
   return1y : Figure]
SortColumns == {"ter", "risk", "score", "return1y"}
Parameters ==
  {"kind", "visibilities", "equal", "riskProfile", "riskLevel", "minScore", "maxScore", "minTer",
   "maxTer", "minReturn1y", "ideal", "sortBy", "descending", "page", "limit", "benchmark",
   "groupsLimit"}

QueryTyped(q) ==
  /\ q = [parameter \in Parameters |-> q[parameter]]
  /\ q.kind \in {"list", "admin", "metrics", "summary", "rankings"}
  /\ q.kind = "list" => q.visibilities = None
  /\ q.riskProfile \in {None, "all", "low", "medium", "high"}
  /\ q.kind = "metrics" => q.riskProfile # None
  /\ q.sortBy \in SortColumns
  /\ {q.page, q.limit, q.groupsLimit} \subseteq Nat \ {0}

ConstantsAssumption ==
  /\ Funds \subseteq Int /\ IsFiniteSet(Funds) /\ MaxWrites \in Nat
  /\ None \notin Int \cup Queries /\ None \notin {"all", "low", "medium", "high"}
  /\ Tables \subseteq [Funds -> Contents]
  /\ \A r \in Contents : r \in Row /\ \A column \in SortColumns : r[column] \in Figure
  /\ \A q \in Queries : QueryTyped(q)

-----------------------------------------------------------------------------
(* The answers *)

\* buildFundListMeta
TotalPages(total, limit) == IF total = 0 THEN 0 ELSE (total + limit - 1) \div limit

\* buildRankingsResponse keeps the rows the public may see, groups them again and
\* takes the totals beside them.
RankingGroups ==
  LET funds == {f \in DOMAIN result.rows : IsCatalogVisible(result.rows[f])}
      Of(key) == {f \in funds : result.rows[f].benchmark = key}
  IN  {[key |-> key, funds |-> Of(key),
        total |-> IF key \in DOMAIN result.totals THEN result.totals[key]
                  ELSE Cardinality(Of(key))] :
         key \in {result.rows[f].benchmark : f \in funds}}

HasMoreGroups ==
  query.benchmark = None /\ Cardinality(DOMAIN result.totals) > Cardinality(RankingGroups)

-----------------------------------------------------------------------------
(* Properties *)

TypeOK ==
  /\ listed \in [Funds -> Contents] /\ asked \in [Funds -> Contents]
  /\ query \in Queries \cup {None}
  /\ rewrites \in 0..MaxWrites
  /\ query = None => result = <<>>
  /\ query # None => DOMAIN result \subseteq Statements(query)

\* What counts per key add up to.
Sum(counts) == Cardinality(UNION {{key} \X (1..counts[key]) : key \in DOMAIN counts})

\* Two counts of one answer differ by no more than what was written meanwhile.
Close(a, b) == a - b \in -rewrites..rewrites

\* A page holds the funds that its place in the list calls for, whatever the
\* order of ties: what nobody wrote during, paging shows each fund at one place.
PageFits ==
  LET Better(f) == Cardinality({g \in Matches(query, asked) : Before(query, asked, g, f)})
      AsGood(f) == Cardinality({g \in Matches(query, asked) : ~ Before(query, asked, f, g)})
      last == query.page * query.limit
      first == last - query.limit
      shown == Range(result.page)
  IN  \A f \in Matches(query, asked) :
        /\ f \in shown => Better(f) < last /\ AsGood(f) > first
        /\ (first <= Better(f) /\ AsGood(f) <= last) => f \in shown

\* The risk profiles share out the funds of a list by the label shown on them.
ProfilesFit ==
  \A f \in Funds :
    FundListWhere([query EXCEPT !.riskProfile = "all"], asked[f]) =>
      (f \in Matches(query, asked) <=>
         query.riskProfile \in {None, "all", MapRiskLevelToApp(asked[f].risk)})

\* A list shows what its total and its page number promise, and nothing the public
\* may not see.
ListFits ==
  LET due == Max({0, Min({query.limit, result.count - Skip(query)})})
  IN  /\ Close(Len(result.page), due)
      /\ query.page > TotalPages(result.count, query.limit) => Len(result.page) <= rewrites
      /\ rewrites = 0 => PageFits /\ ProfilesFit
      /\ (query.kind = "list" /\ rewrites <= 1) =>
           \A f \in Range(result.page) : \E r \in {asked[f], listed[f]} : IsCatalogVisible(r)

\* The facet of a theme announces the list that asking for the theme gives, and
\* the total is what the facets and the funds without a theme add up to.
MetricsFit ==
  LET counts == result.categories
      sum == Sum([theme \in DOMAIN counts |-> counts[theme].fundCount])
      unthemed == {f \in Matches(query, asked) : asked[f].theme = None}
      ListOf(theme) == {f \in Funds : asked[f].theme = theme /\ FundListWhere(query, asked[f])}
  IN  /\ Close(result.count, sum + Cardinality(unthemed))
      /\ rewrites = 0 =>
           \A theme \in DOMAIN counts :
             /\ counts[theme].fundCount = Cardinality(ListOf(theme))
             /\ \A f \in ListOf(theme) :
                  asked[f].score # None => asked[f].score <= counts[theme].topScore

\* The rankings announce as many funds of a group and as many groups as there are,
\* all of them public, but for what is written between the statement of the rows
\* and those of the totals.
RankingsFit ==
  /\ \A g \in RankingGroups :
       /\ Cardinality(g.funds) <= query.limit
       /\ g.total >= Cardinality(g.funds) - rewrites
  /\ rewrites = 0 =>
       LET shown == UNION {g.funds : g \in RankingGroups}
           keys == {asked[f].benchmark : f \in Eligible(query, asked)}
       IN  /\ \A f \in Eligible(query, asked) : IsCatalogVisible(asked[f])
           /\ HasMoreGroups <=> keys # {g.key : g \in RankingGroups}
           /\ \A g \in RankingGroups : Cardinality(g.funds) = Min({query.limit, g.total})
           /\ \A f \in Eligible(query, asked) \ shown : \A g \in RankingGroups :
                asked[f].benchmark = g.key =>
                  \A h \in g.funds : asked[h].score >= asked[f].score
  /\ Close(result.eligible, Sum(result.totals))

SummaryFits == Sum(result.visibility) = Cardinality(Funds)

AnswersAddUp ==
  Answered =>
    /\ query.kind \in {"list", "admin"} => ListFits
    /\ query.kind = "metrics" => MetricsFit
    /\ query.kind = "rankings" => RankingsFit
    /\ query.kind = "summary" => SummaryFits

=============================================================================
