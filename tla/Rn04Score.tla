------------------------------ MODULE Rn04Score ------------------------------
(***************************************************************************)
(* The Invesora Score of RN-04: four factors, each compared with the funds *)
(* of the same benchmark, or measured against fixed bands when no peer has *)
(* the figure, or given 40 % of its points when the fund has none. The     *)
(* service computes it for one fund, for a list of funds and for the whole *)
(* catalog.                                                                *)
(*                                                                         *)
(* A table is a function from fund numbers (the order of the symbols) to   *)
(* rows. TER and tracking error are in hundredths of a percent, the AUM in *)
(* hundreds of millions, dates in days.                                    *)
(***************************************************************************)
EXTENDS Integers, Sequences, FiniteSets, FiniteSetsExt

CONSTANTS
  None,      \* null
  Today,     \* the current date
  Normal,    \* Normal[b]: benchmark b trimmed and in lower case
  Catalogs   \* the tables

VARIABLES
  table,     \* the funds
  scores     \* what the service answers about them, or None

scoreVars == <<table, scores>>

Figure == Int \cup {None}

\* A table is finite, and its rows have the four figures of RN-04 or lack them.
ScoringAssumption ==
  /\ None \notin Int /\ Today \in Int
  /\ \A rows \in Catalogs :
       /\ IsFiniteSet(DOMAIN rows) /\ DOMAIN rows \subseteq Int
       /\ \A f \in DOMAIN rows :
            /\ rows[f].ter \in Figure /\ rows[f].tracking \in Figure
            /\ rows[f].aum \in Figure /\ rows[f].oldest \in Figure

Order == <<"ter", "tracking", "aum", "age">>
Factor == {Order[i] : i \in DOMAIN Order}

MaxPoints == [ter |-> 40, tracking |-> 40, aum |-> 10, age |-> 10]

-----------------------------------------------------------------------------
(* The figures of a fund.                                                  *)

\* Whole years since the oldest stored price: no caller passes the inception date.
EstimateFundAgeYears(oldest) ==
  IF oldest = None THEN None
  ELSE IF oldest >= Today THEN 0
  ELSE (Today - oldest) \div 365

Metrics(fund) ==
  [ter |-> fund.ter, tracking |-> fund.tracking, aum |-> fund.aum,
   age |-> EstimateFundAgeYears(fund.oldest)]

PeerGroupKey(fund) ==
  IF fund.benchmark = None THEN fund.category ELSE Normal[fund.benchmark]

-----------------------------------------------------------------------------
(* The points of one factor.                                               *)

\* A greater figure is a better one.
Oriented(factor, value) == IF factor \in {"ter", "tracking"} THEN -value ELSE value

\* k n-ths of the factor's points, rounded half up.
Share(factor, k, n) == (2 * k * MaxPoints[factor] + n) \div (2 * n)

\* Two fifths: 16 or 4 points.
Conservative(factor) == Share(factor, 2, 5)

\* What a figure must reach, and the points it then gets.
Bands ==
  [ter |-> {<<-15, 40>>, <<-35, 32>>, <<-60, 24>>, <<-100, 16>>},
   tracking |-> {<<-5, 40>>, <<-15, 32>>, <<-30, 24>>, <<-50, 16>>},
   aum |-> {<<10, 10>>, <<5, 8>>, <<1, 6>>, <<0, 3>>},
   age |-> {<<10, 10>>, <<5, 8>>, <<3, 6>>, <<1, 4>>, <<0, 2>>}]

Lowest == [ter |-> 8, tracking |-> 8, aum |-> 0, age |-> 0]

Absolute(factor, value) ==
  Max({Lowest[factor]} \cup
      {band[2] : band \in {b \in Bands[factor] : Oriented(factor, value) >= b[1]}})

\* Defective variant: the peers that are better count.
PercentileReversed(factor, value, known, metrics) ==
  Share(factor,
        Cardinality({g \in known : Oriented(factor, metrics[g][factor])
                                     >= Oriented(factor, value)}),
        Cardinality(known))

\* The share of the peers that are no better.
Percentile(factor, value, known, metrics) ==
  Share(factor,
        Cardinality({g \in known : Oriented(factor, metrics[g][factor])
                                     <= Oriented(factor, value)}),
        Cardinality(known))

FactorResult(factor, value, peers, metrics) ==
  LET known == {g \in peers : metrics[g][factor] # None}
  IN  [points |-> IF value = None THEN Conservative(factor)
                  ELSE IF known = {} THEN Absolute(factor, value)
                  ELSE Percentile(factor, value, known, metrics),
       incomplete |-> value = None]

-----------------------------------------------------------------------------
(* The score of a fund among its peers.                                    *)

Breakdown(f, peers, metrics) ==
  [factor \in Factor |-> FactorResult(factor, metrics[f][factor], peers, metrics)]

Total(breakdown) ==
  breakdown["ter"].points + breakdown["tracking"].points
    + breakdown["aum"].points + breakdown["age"].points

\* The summary praises what is strong, three factors or the two before a
\* weakness, and faults what is weak, two factors or the one after the praise.
Strengths(breakdown) ==
  SelectSeq(Order, LAMBDA x : 4 * breakdown[x].points >= 3 * MaxPoints[x])
Weaknesses(breakdown) ==
  SelectSeq(Order, LAMBDA x : 20 * breakdown[x].points < 9 * MaxPoints[x])

FirstOf(seq, n) == SubSeq(seq, 1, Min({n, Len(seq)}))

Summary(breakdown) ==
  LET strong == Strengths(breakdown)
      weak == Weaknesses(breakdown)
  IN  [praised |-> FirstOf(strong, IF weak = <<>> THEN 3 ELSE 2),
       faulted |-> FirstOf(weak, IF strong = <<>> THEN 2 ELSE 1)]

Incomplete(breakdown) == \E x \in Factor : breakdown[x].incomplete

\* The warning about past performance is always there.
Warnings(breakdown) ==
  {"past performance"} \cup (IF Incomplete(breakdown) THEN {"incomplete data"} ELSE {})

FundScore(f, peers, metrics) ==
  LET breakdown == Breakdown(f, peers, metrics)
  IN  [score |-> Total(breakdown), breakdown |-> breakdown,
       summary |-> Summary(breakdown), warnings |-> Warnings(breakdown)]

\* resolveScoringStatus of the fund detail.
ScoringStatus(score) ==
  IF Incomplete(score.breakdown) \/ score.warnings # {} THEN "warning" ELSE "ok"

-----------------------------------------------------------------------------
(* The three ways a score is asked for.                                    *)

MetricsOf(funds) == [f \in funds |-> Metrics(table[f])]

GroupOf(f) == {g \in DOMAIN table : PeerGroupKey(table[g]) = PeerGroupKey(table[f])}

CategoryScores(entries) ==
  [f \in entries |-> FundScore(f, (GroupOf(f) \cap entries) \ {f}, MetricsOf(entries))]

\* The score of one fund, the scores of several, and those of the catalog.
ScoreForFundId(f) == FundScore(f, GroupOf(f) \ {f}, MetricsOf(GroupOf(f)))

ScoresForFundIds(ids) ==
  LET relevant == UNION {GroupOf(f) : f \in ids}
  IN  [f \in ids |-> CategoryScores(relevant)[f].score]

RecalculatedScores == CategoryScores(DOMAIN table)

\* 1-based places inside the group: by score descending, then symbol.
PeerRanks(results) ==
  [f \in DOMAIN results |->
     1 + Cardinality({g \in GroupOf(f) \cap DOMAIN results :
           \/ results[g].score > results[f].score
           \/ results[g].score = results[f].score /\ g < f})]

\* What the service answers about every fund and every list of funds.
ServiceScores ==
  [single |-> [f \in DOMAIN table |-> ScoreForFundId(f)],
   lists |-> [ids \in SUBSET DOMAIN table |-> ScoresForFundIds(ids)],
   catalog |-> RecalculatedScores,
   ranks |-> PeerRanks(RecalculatedScores)]

ScoreInit == table \in Catalogs /\ scores = None

Score == scores = None /\ scores' = ServiceScores /\ UNCHANGED table

ScoreSpec == ScoreInit /\ [][Score]_scoreVars

-----------------------------------------------------------------------------
(* Properties                                                              *)

\* Breakdowns and scores of the right shape, for the funds of the table.
ScoresTyped ==
  scores # None =>
    \A f \in DOMAIN table :
      /\ scores.catalog[f].score \in 0..100
      /\ scores.ranks[f] \in 1..Cardinality(GroupOf(f))
      /\ \A x \in Factor : scores.catalog[f].breakdown[x].points \in 0..MaxPoints[x]

\* The catalog, a list and a single fund are scored alike: what is read to score
\* some funds is all that their scores depend on.
ScoresAgree ==
  \A f \in DOMAIN table :
    /\ scores.catalog[f] = scores.single[f]
    /\ \A ids \in SUBSET DOMAIN table :
         f \in ids => scores.lists[ids][f] = scores.single[f].score

\* f has the figures g has, and none is worse.
AtLeastAsGood(f, g) ==
  \A x \in Factor :
    LET mine == Metrics(table[f])[x]
        theirs == Metrics(table[g])[x]
    IN  IF mine = None \/ theirs = None THEN mine = theirs
        ELSE Oriented(x, mine) >= Oriented(x, theirs)

\* Of two funds of a group with the same figures missing, one that is nowhere
\* worse never scores less, though each is compared with other peers. Scoring
\* leaves the status of every fund detail at "warning".
BetterNeverScoresLess ==
  \A f \in DOMAIN table : \A g \in GroupOf(f) :
    AtLeastAsGood(f, g) => scores.catalog[f].score >= scores.catalog[g].score

ScoresAreComparable ==
  scores # None =>
    /\ ScoresAgree
    /\ BetterNeverScoresLess
    /\ \A f \in DOMAIN table : ScoringStatus(scores.catalog[f]) = "warning"

=============================================================================
