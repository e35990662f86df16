---------------------------- MODULE FmpNormalizers ----------------------------
(***************************************************************************)
(* What the provider makes of the answers of Financial Modeling Prep: the  *)
(* exposure weights of a composition, a quote from the full or the short   *)
(* endpoint, a profile from the paid endpoint or from the search, and the  *)
(* general news.                                                           *)
(*                                                                         *)
(* Weights are in tenths, so 10 is 1 and 1000 is 100 %. A percentage is a  *)
(* pair, numerator and denominator. A name is the set of the patterns of   *)
(* extractBenchmarkFromName it matches, and a pattern is its label.        *)
(***************************************************************************)
EXTENDS Integers, FiniteSets, SequencesExt

CONSTANTS
  None,       \* undefined or null
  Patterns,   \* the patterns of a benchmark in a name, in order
  Questions   \* what is asked, with the answers of the endpoints

VARIABLES
  question,   \* what is asked
  answer      \* the provider's answer, or None

vars == <<question, answer>>

-----------------------------------------------------------------------------
(* What is asked.                                                          *)

Weighting == [named : BOOLEAN, percentage : Int \cup {None}, weight : Int \cup {None}]
Article == [complete : BOOLEAN, date : Int]

\* Whichever of its fields a quote has, they are those of the market: what the price
\* moved by and what the symbol closed at, which may be 0 if no rate is given.
MarketRow(row, market) ==
  /\ row.symbol \in DOMAIN market
  /\ row.price \in Int /\ market[row.symbol] \in Int
  /\ row.percent # None => market[row.symbol] # 0
  /\ row.change \in {None, row.price - market[row.symbol]}
  /\ row.previous \in {None, market[row.symbol]}
  /\ row.percent \in {None, <<row.price - market[row.symbol], market[row.symbol]>>}

\* An endpoint answers with a list of rows.
Endpoint(result) == result.rows \in Seq(Range(result.rows))

\* Days are numbers; and a profile, unlike a search result, may have no name.
QuestionTyped(q) ==
  CASE q.kind = "composition" ->
         /\ q.rows \in Seq(Weighting) /\ q.error \in {"none", "paid", "other"}
         /\ q.updated \in SUBSET Int /\ IsFiniteSet(q.updated) /\ q.today \in Int
    [] q.kind = "quote" ->
         \A r \in {q.full, q.short} :
           Endpoint(r) /\ \A i \in DOMAIN r.rows : MarketRow(r.rows[i], q.market)
    [] q.kind = "profile" ->
         /\ Endpoint(q.search) /\ \A i \in DOMAIN q.search.rows : q.search.rows[i].name # None
         /\ Endpoint(q.info)
         /\ \A i \in DOMAIN q.info.rows :
              q.info.rows[i].isin \in Int \cup {None} /\ q.info.rows[i].ter \in Int \cup {None}
    [] q.kind = "news" -> Endpoint(q.feed) /\ q.feed.rows \in Seq(Article) /\ q.limit \in Nat

ConstantsAssumption ==
  /\ None \notin Int /\ None # {}
  /\ \A q \in Questions :
       q.kind \in {"composition", "quote", "profile", "news"} /\ QuestionTyped(q)

-----------------------------------------------------------------------------
\* An endpoint's answer: rows, or an error: "paid" for status 402 and 403.
Failed == [failed |-> TRUE, value |-> None]
Gives(value) == [failed |-> FALSE, value |-> value]

-----------------------------------------------------------------------------
(* Compositions.                                                           *)

Positive(row) == row.weight # None /\ row.weight > 0

SumOfWeights(rows) ==
  FoldSeq(LAMBDA row, sum : sum + (IF Positive(row) THEN row.weight ELSE 0), 0, rows)

\* Fractions are at most 1 each and about 1 together.
DetectWeightScale(rows) ==
  IF /\ \A i \in DOMAIN rows : Positive(rows[i]) => rows[i].weight <= 10
     /\ SumOfWeights(rows) >= 9 /\ SumOfWeights(rows) <= 11
  THEN "fraction" ELSE "percent"

\* A field of at most 1 is a fraction whatever the scale of its list.
NormalizeWeight(row, scale) ==
  IF row.percentage # None THEN IF row.percentage <= 0 THEN None ELSE row.percentage
  ELSE IF row.weight = None \/ row.weight <= 0 THEN None
  ELSE IF scale = "fraction" \/ row.weight <= 10 THEN 100 * row.weight
  ELSE row.weight

\* The rows without a weight are dropped. The others, here under their places in
\* the provider's list, are ordered by weight, heaviest first.
NormalizeWeightings(rows) ==
  [i \in {j \in DOMAIN rows : NormalizeWeight(rows[j], DetectWeightScale(rows)) # None} |->
     NormalizeWeight(rows[i], DetectWeightScale(rows))]

\* Holdings without a name are dropped; one without a weight has 0.
NormalizeHoldings(rows) ==
  [i \in {j \in DOMAIN rows : rows[j].named} |->
     IF rows[i].percentage = None THEN 0 ELSE rows[i].percentage]

\* The newest update of a holding, or today.
CompositionAsOf(updated, today) ==
  IF updated = {} THEN today ELSE CHOOSE d \in updated : \A e \in updated : e <= d

BuildComposition(q) ==
  [asOf |-> CompositionAsOf(q.updated, q.today),
   holdings |-> NormalizeHoldings(q.rows),
   exposures |-> NormalizeWeightings(q.rows)]

\* The schema takes no holding of less than nothing. (An "other" error is also that of
\* a row it refuses for a field that is left out here.)
Refused(rows) ==
  \E i \in DOMAIN rows : rows[i].named /\ rows[i].percentage # None /\ rows[i].percentage < 0

\* One endpoint that fails, paid for or not, or one row that is refused, is no composition.
FundComposition(q) ==
  IF q.error # "none" \/ Refused(q.rows) THEN Failed ELSE Gives(BuildComposition(q))

AskComposition ==
  /\ question.kind = "composition"
  /\ answer = None
  /\ answer' = FundComposition(question)
  /\ UNCHANGED question

-----------------------------------------------------------------------------
(* Quotes.                                                                 *)

ChangePercent(row) ==
  IF row.percent # None THEN row.percent
  ELSE IF row.change = None THEN None
  ELSE IF row.previous # None /\ row.previous # 0 THEN <<row.change, row.previous>>
  ELSE IF row.price = row.change THEN None
  ELSE <<row.change, row.price - row.change>>

\* The row of the symbol, or the first one.
QuoteRow(rows, symbol) ==
  IF \E i \in DOMAIN rows : rows[i].symbol = symbol
  THEN rows[CHOOSE i \in DOMAIN rows :
              rows[i].symbol = symbol /\ \A j \in 1..(i - 1) : rows[j].symbol # symbol]
  ELSE rows[1]

\* An endpoint the plan does not pay for counts as one without the symbol.
ResolveQuote(result, symbol) ==
  IF result.error = "other" THEN Failed
  ELSE IF result.error = "paid" \/ result.rows = <<>> THEN Gives(None)
  ELSE LET row == QuoteRow(result.rows, symbol)
       IN  Gives([symbol |-> row.symbol, price |-> row.price, percent |-> ChangePercent(row)])

\* The short endpoint is asked only when the full one has no quote.
FundQuote(q) ==
  LET full == ResolveQuote(q.full, q.symbol)
  IN  IF full.failed \/ full.value # None THEN full ELSE ResolveQuote(q.short, q.symbol)

AskQuote ==
  /\ question.kind = "quote"
  /\ answer = None
  /\ answer' = FundQuote(question)
  /\ UNCHANGED question

-----------------------------------------------------------------------------
(* Profiles.                                                               *)

BenchmarkFromName(name) ==
  LET matched == {i \in DOMAIN Patterns : Patterns[i] \in name}
  IN  IF matched = {} THEN None
      ELSE Patterns[CHOOSE i \in matched : \A j \in matched : i <= j]

\* The name's pattern, the index of the description, or the name itself.
FundBenchmark(name, description) ==
  IF BenchmarkFromName(name) # None THEN BenchmarkFromName(name)
  ELSE IF description # None THEN description
  ELSE name

\* The profile of the paid endpoint takes its name from the search if it has none,
\* and the symbol, which matches no pattern, if neither has.
FromProfile(profile, found) ==
  LET name == IF profile.name # None THEN profile.name
              ELSE IF found # None THEN found.name ELSE {}
  IN  [symbol |-> profile.symbol, benchmark |-> FundBenchmark(name, profile.description),
       isin |-> profile.isin, ter |-> profile.ter]

FromSearch(found) ==
  [symbol |-> found.symbol, benchmark |-> FundBenchmark(found.name, None),
   isin |-> None, ter |-> None]

RowOf(rows, symbol) ==
  IF \E i \in DOMAIN rows : rows[i].symbol = symbol
  THEN rows[CHOOSE i \in DOMAIN rows : rows[i].symbol = symbol] ELSE None

FundProfile(q) ==
  LET found == RowOf(q.search.rows, q.symbol)
      profile == IF q.info.error = "none" THEN RowOf(q.info.rows, q.symbol) ELSE None
  IN  IF q.search.error # "none" \/ q.info.error = "other" THEN Failed
      ELSE IF profile # None THEN Gives(FromProfile(profile, found))
      ELSE IF found = None THEN Failed
      ELSE Gives(FromSearch(found))

AskProfile ==
  /\ question.kind = "profile"
  /\ answer = None
  /\ answer' = FundProfile(question)
  /\ UNCHANGED question

-----------------------------------------------------------------------------
(* General news.                                                           *)

\* Articles with a title, text, source and date, and an https link.
Complete(articles) == {i \in DOMAIN articles : articles[i].complete}

Newer(articles, i, j) ==
  \/ articles[i].date > articles[j].date
  \/ articles[i].date = articles[j].date /\ i < j

\* The newest complete articles among those the endpoint returned.
GeneralNews(q) ==
  IF q.feed.error # "none" THEN Failed
  ELSE Gives({i \in Complete(q.feed.rows) :
         Cardinality({j \in Complete(q.feed.rows) : Newer(q.feed.rows, j, i)}) < q.limit})

AskNews ==
  /\ question.kind = "news"
  /\ answer = None
  /\ answer' = GeneralNews(question)
  /\ UNCHANGED question

Init == question \in Questions /\ answer = None

Next == AskComposition \/ AskQuote \/ AskProfile \/ AskNews

Spec == Init /\ [][Next]_vars

-----------------------------------------------------------------------------
(* Properties                                                              *)

Answered(kind) == question.kind = kind /\ answer # None /\ ~ answer.failed

\* As of the newest day the provider gave, or today: whatever scale and fields its rows
\* have, an exposure weighs something and a holding not less than nothing.
CompositionTyped(q, value) ==
  /\ value.asOf \in q.updated \cup {q.today} /\ \A day \in q.updated : day <= value.asOf
  /\ \E kept \in SUBSET DOMAIN q.rows : value.exposures \in [kept -> Nat \ {0}]
  /\ \E kept \in SUBSET DOMAIN q.rows : value.holdings \in [kept -> Nat]

\* A change, if any, is never one of a close of nothing.
QuoteTyped(q, value) ==
  value # None =>
    /\ value.symbol \in DOMAIN q.market /\ value.price \in Int
    /\ value.percent # None => value.percent \in Int \X (Int \ {0})

\* A profile is of the symbol asked for, and has a benchmark to be grouped under.
ProfileTyped(q, value) ==
  /\ value.symbol = q.symbol /\ value.benchmark # None
  /\ value.isin \in Int \cup {None} /\ value.ter \in Int \cup {None}

\* What is made of the endpoints, whichever of them fail and whichever fields they leave
\* out: a failure has no value, and the rest is of the kind that was asked for.
TypeOK ==
  answer # None =>
    IF answer.failed THEN answer.value = None
    ELSE CASE question.kind = "composition" -> CompositionTyped(question, answer.value)
           [] question.kind = "quote" -> QuoteTyped(question, answer.value)
           [] question.kind = "profile" -> ProfileTyped(question, answer.value)
           [] question.kind = "news" -> answer.value \subseteq Complete(question.feed.rows)

\* Weights keep their order among fields of one kind, except that a field of at
\* most 1 overtakes a greater one; the scale detected for the list never matters.
WeightsFit ==
  Answered("composition") =>
    LET rows == question.rows
        percent == answer.value.exposures
    IN  /\ \A i, j \in DOMAIN percent :
             rows[i].percentage = None /\ rows[j].percentage = None
               /\ rows[i].weight <= rows[j].weight
               /\ (rows[j].weight <= 10 \/ rows[i].weight > 10) =>
                 percent[i] <= percent[j]
        /\ \A i \in DOMAIN percent : percent[i] = NormalizeWeight(rows[i], "percent")

\* Whichever fields an endpoint leaves out, the change is the one that takes the
\* previous close to the price, and another symbol's quote is given only when the
\* endpoint answers with none of the symbol's own.
QuotesFit ==
  Answered("quote") /\ answer.value # None =>
    LET quote == answer.value
        previous == question.market[quote.symbol]
    IN  /\ quote.percent # None =>
             quote.percent[1] * previous = quote.percent[2] * (quote.price - previous)
        /\ (\A r \in {question.full, question.short} :
              \E i \in DOMAIN r.rows : r.rows[i].symbol = question.symbol) =>
             quote.symbol = question.symbol

\* A profile from the search has the benchmark of the paid one when the name the
\* two share matches a pattern, or the paid one had no description.
ProfilesFit ==
  Answered("profile") =>
    LET found == RowOf(question.search.rows, question.symbol)
        profile == RowOf(question.info.rows, question.symbol)
    IN  found # None /\ profile # None /\ profile.name \in {None, found.name}
          /\ (BenchmarkFromName(found.name) # None \/ profile.description = None) =>
            answer.value.benchmark = FromSearch(found).benchmark

\* No article left out is newer than one that is shown.
NewsFits ==
  Answered("news") =>
    LET rows == question.feed.rows
    IN  /\ Cardinality(answer.value) <= question.limit
        /\ \A i \in answer.value, j \in Complete(rows) \ answer.value :
             rows[j].date <= rows[i].date

AnswersFit == WeightsFit /\ QuotesFit /\ ProfilesFit /\ NewsFits

=============================================================================
