-------------------------- MODULE AssistantChatProofs --------------------------
(***************************************************************************)
(* What SORA answers, for any funds, messages, keys and number of calls.   *)
(*                                                                         *)
(* AgentTools: what the context and the tools tell of the funds in one     *)
(* turn agrees.  The inductive invariant ties every fact to the log of the *)
(* changes of the funds, once it is told (FactFits), to the funds as they  *)
(* are now (StillFits) and to the facts told after it (PairFits): whatever *)
(* two of them disagree on was changed between them.                       *)
(*                                                                         *)
(* AssistantAnswers (Answers): an answer from the cache is about the funds *)
(* it is served for, but for one case.  The invariant says what a row is   *)
(* about from its key alone, which holds because only explain, which names *)
(* one fund at most, writes the cache.  And stale rows fade: a request     *)
(* that carries older data alone adds one, and a day takes from them all.  *)
(*                                                                         *)
(* AssistantTopics (Topics): what is shown of what two models reply.  The  *)
(* invariant says that a reply is what Generate made of two of them, and   *)
(* the rest is the arithmetic of the confidence.                           *)
(***************************************************************************)
EXTENDS AgentTools, FiniteSetTheorems, WellFoundedInduction, TLAPS

CONSTANTS Funds, Workers, Messages, InGlossary, AssistantEnabled, TtlDays, NoFund, MaxVersion
CONSTANTS Prompts, Mentions, Replies, Generated, Threshold

VARIABLES data, cache, requests
VARIABLES talkMessage, talkAnswer, talkReply

Answers == INSTANCE AssistantAnswers
Topics == INSTANCE AssistantTopics
  WITH message <- talkMessage, answer <- talkAnswer, reply <- talkReply

\* A finite set of integers has a greatest and a least element.
LEMMA FiniteSetsAreBounded ==
  ASSUME NEW S \in SUBSET Int, IsFiniteSet(S), S # {}
  PROVE  /\ \E x \in S : \A y \in S : y <= x
         /\ \E x \in S : \A y \in S : x <= y
<1> DEFINE Top(T) == \E x \in T : \A y \in T : y <= x
           Bottom(T) == \E x \in T : \A y \in T : x <= y
           Finite == FiniteSubsetsOf(S)
           Open == {T \in Finite : T # {} /\ ~ (Top(T) /\ Bottom(T))}
<1>1. IsWellFoundedOn(StrictSubsetOrdering(S), Finite)
  BY FS_StrictSubsetOrderingWellFounded
<1>2. SUFFICES ASSUME Open # {} PROVE FALSE
  BY DEF FiniteSubsetsOf
<1>3. PICK T \in Open : \A V \in Open : ~ (<<V, T>> \in StrictSubsetOrdering(S))
  BY <1>1, <1>2, WFMin
<1>4. PICK x \in T : TRUE
  OBVIOUS
<1> DEFINE V == T \ {x}
<1>5. T \in SUBSET Int /\ V \in Finite
  BY FS_RemoveElement DEF FiniteSubsetsOf
<1>6. <<V, T>> \in StrictSubsetOrdering(S)
  BY <1>4, <1>5 DEF StrictSubsetOrdering, FiniteSubsetsOf
<1>7. CASE V = {}
  <2>1. T = {x}
    BY <1>4, <1>7
  <2>2. Top(T) /\ Bottom(T)
    BY <2>1, <1>5
  <2>3. QED
    BY <2>2, <1>3
<1>8. CASE V # {}
  <2>1. Top(V) /\ Bottom(V)
    BY <1>3, <1>5, <1>6, <1>8
  <2>2. PICK h \in V : \A y \in V : y <= h
    BY <2>1
  <2>3. PICK l \in V : \A y \in V : l <= y
    BY <2>1
  <2>4. Top(T)
    <3>1. CASE x <= h
      BY <3>1, <2>2, <1>5
    <3>2. CASE h <= x
      BY <3>2, <2>2, <1>4, <1>5
    <3>3. QED
      BY <3>1, <3>2, <1>4, <1>5
  <2>5. Bottom(T)
    <3>1. CASE l <= x
      BY <3>1, <2>3, <1>5
    <3>2. CASE x <= l
      BY <3>2, <2>3, <1>4, <1>5
    <3>3. QED
      BY <3>1, <3>2, <1>4, <1>5
  <2>6. QED
    BY <2>4, <2>5, <1>3
<1>9. QED
  BY <1>7, <1>8

-----------------------------------------------------------------------------
(* What is told, and the changes of the funds                              *)

\* log[n] is a change of f that may change the score told of it.
Rescored(f, n) ==
  log[n].fund = f /\ (log[n].kind = "score" \/ (log[n].kind = "sync" /\ log[n].legacy))
Synced(f, n) == log[n].fund = f /\ log[n].kind = "sync"
Flipped(f, n) == log[n].fund = f /\ log[n].kind = "visibility"

\* log[n] is the last of the first "at" changes that scored f.
LastScored(f, n, at) ==
  /\ n \in 1..at /\ log[n].kind = "score" /\ log[n].fund = f
  /\ \A m \in (n + 1)..at : ~ (log[m].kind = "score" /\ log[m].fund = f)

AllAlike(fact) ==
  \A f, g \in About(fact) : ~ Differ(fact.profile[f], fact.profile[g])

Fact ==
  [from : {"context", "snapshot", "breakdown", "compare", "fairness"},
   asked : Seq(Known \cup Unknown), fair : BOOLEAN \cup {None},
   score : UNION {[funds -> Scores \cup {None}] : funds \in SUBSET Known},
   profile : UNION {[funds -> Profiles] : funds \in SUBSET Known},
   hidden : SUBSET Known, since : Nat, at : Nat]

\* The verdict of a fact is on these funds.
Judged(fact, funds) ==
  /\ fact.fair \in BOOLEAN \cup {None}
  /\ \/ fact.fair = None
     \/ fact.fair = TRUE /\ IsFair(funds)
     \/ fact.fair = FALSE /\ ~ IsFair(funds)

\* One fact, on its own.
FactFits(fact) ==
  /\ About(fact) = Range(fact.asked) \cap Known /\ DOMAIN fact.profile = About(fact)
  /\ fact.since <= fact.at /\ fact.at <= Len(log)
  /\ fact.from # "context" => config.tools = "right"
  /\ \/ fact.fair = None
     \/ fact.fair = TRUE /\ AllAlike(fact)
     \/ fact.fair = FALSE /\ ~ AllAlike(fact)
  /\ fact.from # "breakdown" => fact.since = fact.at
  /\ \A f \in fact.hidden : fact.from # "context" => \E n \in (fact.since + 1)..fact.at : Flipped(f, n)
  /\ \A f \in About(fact), n \in 1..fact.at :
       LastScored(f, n, fact.at) => fact.score[f] = log[n].score

\* What changed of a fund since a fact was told of it is in the log.
StillFits(fact) ==
  \A f \in About(fact) :
    /\ fact.score[f] # ScoreOf(f) => \E n \in (fact.at + 1)..Len(log) : Rescored(f, n)
    /\ fact.profile[f] # rows[f].profile => \E n \in (fact.at + 1)..Len(log) : Synced(f, n)

\* So is what changed between two facts.
PairFits(first, second) ==
  /\ first.at <= second.at
  /\ \A f \in About(first) \cap About(second) :
       /\ first.score[f] # second.score[f] =>
            \E n \in (first.at + 1)..second.at : Rescored(f, n)
       /\ first.profile[f] # second.profile[f] =>
            \E n \in (first.at + 1)..second.at : Synced(f, n)

ToldFits ==
  /\ told \in Seq(Fact)
  /\ \A i \in DOMAIN told : FactFits(told[i]) /\ StillFits(told[i])
  /\ \A i, j \in DOMAIN told : i < j => PairFits(told[i], told[j])
  /\ \A i \in DOMAIN told : i > 1 => told[i].from # "context"

Change == [kind : {"score", "sync", "visibility"}, fund : Known, score : Scores \cup {None},
           legacy : BOOLEAN]

\* A fund that was scored keeps its breakdown.
LogFits ==
  /\ log \in Seq(Change) /\ Len(log) <= MaxWrites
  /\ \A n \in 1..Len(log) : log[n].kind = "score" => log[n].score \in Scores
  /\ \A f \in Known, n \in 1..Len(log) :
       LastScored(f, n, Len(log)) => rows[f].breakdown = log[n].score

Turn ==
  [step : {"idle", "context", "sent", "running", "rereading", "done"},
   asked : Seq(Known \cup Unknown), compares : BOOLEAN, attempt : 0..Retries,
   calls : 0..MaxCalls, status : {200, 503}, read : Known \cup {None}, since : Nat]

\* The place of the first fact a tool told.
FirstCall == IF told # <<>> /\ told[1].from = "context" THEN 2 ELSE 1

TurnFits ==
  /\ turn.step \in {"idle", "context"} => told = <<>>
  /\ turn.step \in {"sent", "running", "rereading"} => config.agent # "none"
  /\ turn.step \in {"running", "rereading"} => config.agent = "right" /\ config.openai
  /\ (turn.step = "done" /\ turn.status = 200) => config.agent = "right" /\ config.openai
  /\ turn.step = "rereading" =>
       /\ turn.read \in Known /\ turn.calls < MaxCalls /\ config.tools = "right"
       /\ turn.since <= Len(log)
       /\ rows[turn.read].visible \/ \E n \in (turn.since + 1)..Len(log) : Flipped(turn.read, n)
  /\ Len(told) - FirstCall < turn.calls

ToolsInv ==
  /\ rows \in [Known -> Row] /\ config \in Config /\ turn \in Turn
  /\ LogFits /\ ToldFits /\ TurnFits

-----------------------------------------------------------------------------
(* Lemmas about the reads                                                  *)

LEMMA AtMostOne ==
  ASSUME NEW S, IsFiniteSet(S)
  PROVE  Cardinality(S) <= 1 <=> \A x, y \in S : x = y
<1>1. Cardinality(S) \in Nat /\ (Cardinality(S) = 0 <=> S = {})
  BY FS_CardinalityType, FS_EmptySet
<1>2. ASSUME Cardinality(S) <= 1, NEW x \in S, NEW y \in S PROVE x = y
  <2>1. Cardinality(S) = 1
    BY <1>1, <1>2
  <2>2. \E z : S = {z}
    BY <2>1, FS_Singleton
  <2>3. QED
    BY <2>2
<1>3. ASSUME \A x, y \in S : x = y PROVE Cardinality(S) <= 1
  <2>1. CASE S = {}
    BY <1>1, <2>1
  <2>2. CASE S # {}
    <3>1. PICK z \in S : TRUE
      BY <2>2
    <3>2. S = {z}
      BY <1>3, <3>1
    <3>3. QED
      BY <3>2, FS_Singleton
  <2>3. QED
    BY <2>1, <2>2
<1>4. QED
  BY <1>2, <1>3

\* A comparison is fair just when no two of its funds differ.
LEMMA FairnessIs ==
  ASSUME ConstantsAssumption, rows \in [Known -> Row], NEW funds \in SUBSET Known
  PROVE  /\ IsFair(funds) \in BOOLEAN
         /\ IsFair(funds) <=> \A f, g \in funds : ~ Differ(rows[f].profile, rows[g].profile)
<1>1. IsFiniteSet(funds)
  BY FS_Subset DEF ConstantsAssumption
<1>2. \A f \in funds : rows[f].profile.currency # None /\ rows[f].profile.vehicle # None
  BY DEF ConstantsAssumption, Row
<1>3. ASSUME NEW field \in {"benchmark", "currency", "vehicle"}
      PROVE  Homogeneous(funds, field) <=>
               \A f, g \in funds : rows[f].profile[field] = rows[g].profile[field]
                                     \/ None \in {rows[f].profile[field], rows[g].profile[field]}
  <2> DEFINE Values == {rows[f].profile[field] : f \in funds}
             of == [f \in funds |-> rows[f].profile[field]]
  <2>1. IsFiniteSet(Values)
    <3>1. of \in Surjection(funds, Values)
      BY DEF Surjection
    <3>2. QED
      BY <1>1, <3>1, FS_Surjection
  <2>2. IsFiniteSet(Values \ {None})
    BY <2>1, FS_Subset
  <2>3. Homogeneous(funds, field) <=> \A x, y \in Values \ {None} : x = y
    BY <2>2, AtMostOne DEF Homogeneous
  <2>4. QED
    BY <2>3
<1>4. (Cardinality(funds) >= 2) <=> ~ \A f, g \in funds : f = g
  BY <1>1, AtMostOne, FS_CardinalityType
<1>5. ASSUME NEW f \in funds, NEW g \in funds
      PROVE  Differ(rows[f].profile, rows[g].profile) <=>
               \E field \in {"benchmark", "currency", "vehicle"} :
                 ~ (rows[f].profile[field] = rows[g].profile[field]
                      \/ None \in {rows[f].profile[field], rows[g].profile[field]})
  BY <1>2 DEF Differ
<1>6. \A f \in funds : ~ Differ(rows[f].profile, rows[f].profile)
  BY DEF Differ
<1>7. QED
  BY <1>3, <1>4, <1>5, <1>6 DEF IsFair

\* A list without malformed ISINs.
LEMMA WellFormedIs ==
  ASSUME ConstantsAssumption, NEW isins, isins \in Lists, Range(isins) \cap Malformed = {}
  PROVE  isins \in Seq(Known \cup Unknown)
<1>1. isins \in Seq(Known \cup Unknown \cup Malformed)
  BY DEF ConstantsAssumption
<1>2. \A n \in 1..Len(isins) : isins[n] \in Known \cup Unknown
  <2>1. \A n \in 1..Len(isins) : isins[n] \in Range(isins)
    BY <1>1 DEF Range
  <2>2. QED
    BY <1>1, <2>1
<1>3. QED
  BY <1>1, <1>2

-----------------------------------------------------------------------------
(* A new fact                                                              *)

\* What a new fact tells.
Tells(fact, from, asked, funds, since) ==
  /\ fact \in Fact /\ About(fact) = funds /\ DOMAIN fact.profile = funds
  /\ fact.from = from /\ fact.asked = asked /\ fact.since = since /\ fact.at = Len(log)
  /\ \A f \in funds : fact.score[f] = ScoreOf(f) /\ fact.profile[f] = rows[f].profile
  /\ fact.hidden = Hidden(funds)

\* The funds are visible, or were when the first of two reads found them.
SeenSince(funds, since) ==
  \A f \in funds : rows[f].visible \/ \E n \in (since + 1)..Len(log) : Flipped(f, n)

\* A fact that may be told next.
Joins(fact) ==
  /\ fact \in Fact /\ FactFits(fact) /\ StillFits(fact)
  /\ \A i \in DOMAIN told : PairFits(told[i], fact)

LEMMA NewFactTyped ==
  ASSUME ConstantsAssumption, rows \in [Known -> Row], log \in Seq(Change),
         NEW from, NEW asked, NEW funds, NEW fair, NEW since, NEW fact,
         from \in {"context", "snapshot", "breakdown", "compare", "fairness"},
         asked \in Seq(Known \cup Unknown), funds \in SUBSET Known,
         since \in Nat, fact = NewFact(from, asked, funds, fair, since), Judged(fact, funds)
  PROVE  Tells(fact, from, asked, funds, since)
<1>1. /\ fact.from = from /\ fact.asked = asked
      /\ fact.since = since /\ fact.at = Len(log)
      /\ fact.score = [f \in funds |-> ScoreOf(f)]
      /\ fact.profile = [f \in funds |-> rows[f].profile]
      /\ fact.hidden = Hidden(funds)
  BY DEF NewFact
<1>2. \A f \in funds : ScoreOf(f) \in Scores \cup {None} /\ rows[f].profile \in Profiles
  BY DEF ScoreOf, Row
<1>3. fact.score \in UNION {[s -> Scores \cup {None}] : s \in SUBSET Known}
  BY <1>1, <1>2
<1>4. fact.profile \in UNION {[s -> Profiles] : s \in SUBSET Known}
  BY <1>1, <1>2
<1>5. Len(log) \in Nat /\ fact.hidden \in SUBSET Known
  BY <1>1 DEF Hidden
<1>6. fact \in Fact
  BY <1>1, <1>3, <1>4, <1>5 DEF Fact, NewFact, Judged
<1>7. QED
  BY <1>1, <1>6 DEF About, Tells

\* A fact that is told now fits, and so does it with those told before.
LEMMA NewFactFits ==
  ASSUME ConstantsAssumption, ToolsInv,
         NEW from, NEW asked, NEW funds, NEW fair, NEW since, NEW fact,
         from \in {"context", "snapshot", "breakdown", "compare", "fairness"},
         asked \in Seq(Known \cup Unknown), funds = Range(asked) \cap Known,
         since \in Nat, since <= Len(log), from # "breakdown" => since = Len(log),
         from # "context" => config.tools = "right",
         from # "context" => SeenSince(funds, since),
         fact = NewFact(from, asked, funds, fair, since), Judged(fact, funds)
  PROVE  Joins(fact) /\ fact.from = from
<1>1. /\ rows \in [Known -> Row] /\ LogFits /\ ToldFits /\ log \in Seq(Change) /\ Len(log) \in Nat
      /\ funds \in SUBSET Known
  BY DEF ToolsInv, LogFits
<1>2. Tells(fact, from, asked, funds, since)
  BY <1>1, NewFactTyped
<1>3. /\ fact \in Fact /\ About(fact) = funds /\ DOMAIN fact.profile = funds
      /\ fact.from = from /\ fact.asked = asked /\ fact.since = since /\ fact.at = Len(log)
      /\ \A f \in funds : fact.score[f] = ScoreOf(f) /\ fact.profile[f] = rows[f].profile
      /\ fact.hidden = Hidden(funds)
  BY <1>2 DEF Tells
<1>4. \/ fact.fair = None
      \/ fact.fair = TRUE /\ AllAlike(fact)
      \/ fact.fair = FALSE /\ ~ AllAlike(fact)
  <2>1. IsFair(funds) <=> \A f, g \in funds : ~ Differ(rows[f].profile, rows[g].profile)
    BY <1>1, FairnessIs
  <2>2. IsFair(funds) <=> AllAlike(fact)
    BY <1>3, <2>1 DEF AllAlike
  <2>3. QED
    BY <1>3, <2>2 DEF Judged
<1>5. \A f \in About(fact), n \in 1..fact.at :
        LastScored(f, n, fact.at) => fact.score[f] = log[n].score
  <2> SUFFICES ASSUME NEW f \in funds, NEW n \in 1..Len(log), LastScored(f, n, Len(log))
               PROVE  fact.score[f] = log[n].score
    BY <1>3
  <2>1. rows[f].breakdown = log[n].score /\ log[n].score \in Scores
    BY <1>1 DEF LogFits, LastScored
  <2>2. QED
    BY <1>3, <2>1 DEF ScoreOf, ConstantsAssumption
<1>6. FactFits(fact)
  <2>1. fact.since <= fact.at /\ fact.at <= Len(log)
    <3>1. Len(log) <= Len(log)
      BY <1>1
    <3>2. QED
      BY <1>3, <3>1, Zenon
  <2>2. ASSUME NEW f \in fact.hidden, fact.from # "context"
        PROVE  \E n \in (fact.since + 1)..fact.at : Flipped(f, n)
    <3>1. \E n \in (since + 1)..Len(log) : Flipped(f, n)
      BY <1>3, <2>2 DEF Hidden, SeenSince
    <3>2. QED
      BY <1>3, <3>1, Zenon
  <2>3. /\ About(fact) = Range(fact.asked) \cap Known /\ DOMAIN fact.profile = About(fact)
        /\ fact.from # "context" => config.tools = "right"
    BY <1>3
  <2>4. fact.from # "breakdown" => fact.since = fact.at
    BY <1>3
  <2>5. QED
    BY <1>4, <1>5, <2>1, <2>2, <2>3, <2>4 DEF FactFits
<1>7. StillFits(fact)
  BY <1>3 DEF StillFits
<1>8. ASSUME NEW i \in DOMAIN told PROVE PairFits(told[i], fact)
  <2>1. StillFits(told[i]) /\ told[i].at <= Len(log)
    BY <1>1 DEF ToldFits, FactFits
  <2>2. QED
    BY <1>3, <2>1 DEF StillFits, PairFits
<1>9. QED
  BY <1>3, <1>6, <1>7, <1>8 DEF Joins

-----------------------------------------------------------------------------
(* What is told                                                            *)

LEMMA ToldStays ==
  ASSUME UNCHANGED <<rows, config, log>>, NEW fact
  PROVE  /\ FactFits(fact)' <=> FactFits(fact)
         /\ StillFits(fact)' <=> StillFits(fact)
BY DEF FactFits, StillFits, Flipped, LastScored, Rescored, Synced, ScoreOf,
      About, AllAlike, Differ

LEMMA ToldGrows ==
  ASSUME ToldFits, UNCHANGED <<rows, config, log>>,
         NEW fact, Joins(fact), told # <<>> => fact.from # "context",
         told' = Append(told, fact)
  PROVE  /\ ToldFits' /\ Len(told') = Len(told) + 1
         /\ told # <<>> => told'[1] = told[1]
         /\ told = <<>> => told'[1] = fact
<1>1. /\ told' \in Seq(Fact) /\ Len(told) \in Nat /\ Len(told') = Len(told) + 1
      /\ DOMAIN told = 1..Len(told) /\ DOMAIN told' = 1..(Len(told) + 1)
      /\ \A i \in DOMAIN told : told'[i] = told[i]
      /\ told'[Len(told) + 1] = fact
  <2>1. fact \in Fact
    BY DEF Joins
  <2>2. QED
    BY <2>1 DEF ToldFits
<1>2. \A i \in DOMAIN told' : i \in DOMAIN told \/ i = Len(told) + 1
  BY <1>1
<1>3. ASSUME NEW i \in DOMAIN told' PROVE FactFits(told[i])' /\ StillFits(told[i])'
  <2>1. FactFits(told'[i]) /\ StillFits(told'[i])
    BY <1>1, <1>2 DEF ToldFits, Joins
  <2>2. PICK g : g = told'[i]
    OBVIOUS
  <2>3. FactFits(g)' /\ StillFits(g)'
    BY <2>1, <2>2, ToldStays
  <2>4. QED
    BY <2>2, <2>3
<1>4. ASSUME NEW i \in DOMAIN told', NEW j \in DOMAIN told', i < j
      PROVE  PairFits(told[i], told[j])'
  <2>1. PairFits(told'[i], told'[j])
    <3>1. i \in DOMAIN told
      BY <1>1, <1>4
    <3>2. QED
      BY <1>1, <1>2, <1>4, <3>1 DEF ToldFits, Joins
  <2>2. QED
    BY <2>1 DEF PairFits, Rescored, Synced, About
<1>5. \A i \in DOMAIN told' : i > 1 => told'[i].from # "context"
  BY <1>1, <1>2 DEF ToldFits
<1>6. ToldFits'
  BY <1>1, <1>3, <1>4, <1>5 DEF ToldFits
<1>7. (told # <<>> => told'[1] = told[1]) /\ (told = <<>> => told'[1] = fact)
  BY <1>1 DEF ToldFits
<1>8. QED
  BY <1>1, <1>6, <1>7

\* A new attempt forgets what the tools told.
LEMMA ToldForgets ==
  ASSUME ToldFits, UNCHANGED <<rows, config, log>>, told' = Context
  PROVE  ToldFits' /\ Len(told') - FirstCall' = -1
<1>1. CASE told' = <<>>
  BY <1>1 DEF ToldFits, FirstCall
<1>2. CASE told # <<>> /\ told[1].from = "context" /\ told' = <<told[1]>>
  <2>1. told[1] \in Fact /\ told[1] = told'[1] /\ DOMAIN told' = {1} /\ Len(told') = 1
        /\ 1 \in DOMAIN told
    BY <1>2 DEF ToldFits
  <2>2. told' \in Seq(Fact)
    BY <1>2, <2>1
  <2>3. FactFits(told[1]) /\ StillFits(told[1])
    BY <2>1 DEF ToldFits
  <2>4. FactFits(told[1])' /\ StillFits(told[1])'
    <3>1. PICK g : g = told[1]
      OBVIOUS
    <3>2. FactFits(g)' /\ StillFits(g)'
      BY <2>3, <3>1, ToldStays
    <3>3. QED
      BY <2>1, <3>1, <3>2
  <2>5. ToldFits'
    BY <2>1, <2>2, <2>4 DEF ToldFits
  <2>6. Len(told') - FirstCall' = -1
    BY <1>2, <2>1 DEF FirstCall
  <2>7. QED
    BY <2>5, <2>6
<1>3. QED
  BY <1>1, <1>2 DEF Context

-----------------------------------------------------------------------------
(* The turn                                                                *)

\* What the steps of a turn write keeps it a turn.
Stepped(t, step) == [t EXCEPT !.step = step]
Asking(t, isins, compares) ==
  [t EXCEPT !.step = "context", !.asked = isins, !.compares = compares]
Answered(t, step, status) == [t EXCEPT !.step = step, !.status = status]
Retried(t, attempt) ==
  [t EXCEPT !.step = "sent", !.attempt = attempt, !.calls = 0, !.read = None]
GivenUp(t, status) == [t EXCEPT !.step = "done", !.status = status, !.read = None]
Called(t, calls) == [t EXCEPT !.step = "running", !.calls = calls, !.read = None]
Reading(t, isin, since) ==
  [t EXCEPT !.step = "rereading", !.read = isin, !.since = since]

TurnSteps == {"idle", "context", "sent", "running", "rereading", "done"}
TurnStatuses == {200, 503}
Questions == Seq(Known \cup Unknown)
Attempts == 0..Retries
CallCounts == 0..MaxCalls
Readings == Known \cup {None}

LEMMA TurnsAre ==
  Turn = [step : TurnSteps, asked : Questions, compares : BOOLEAN, attempt : Attempts,
          calls : CallCounts, status : TurnStatuses, read : Readings, since : Nat]
BY DEF Turn, TurnSteps, TurnStatuses, Questions, Attempts, CallCounts, Readings

LEMMA SteppedIs == ASSUME NEW t \in Turn, NEW s \in TurnSteps PROVE Stepped(t, s) \in Turn
BY TurnsAre, Zenon DEF Stepped

LEMMA AskingIs ==
  ASSUME NEW t \in Turn, NEW isins \in Questions, NEW c \in BOOLEAN
  PROVE  Asking(t, isins, c) \in Turn
<1>1. "context" \in TurnSteps
  BY DEF TurnSteps
<1>2. QED
  BY <1>1, TurnsAre, Zenon DEF Asking

LEMMA AnsweredIs ==
  ASSUME NEW t \in Turn, NEW s \in TurnSteps, NEW status \in TurnStatuses
  PROVE  Answered(t, s, status) \in Turn
BY TurnsAre, Zenon DEF Answered

LEMMA RetriedIs ==
  ASSUME ConstantsAssumption, NEW t \in Turn, NEW a \in Attempts
  PROVE  Retried(t, a) \in Turn /\ Retried(t, a).step = "sent"
<1>1. "sent" \in TurnSteps /\ 0 \in CallCounts /\ None \in Readings
  BY DEF TurnSteps, CallCounts, Readings, ConstantsAssumption
<1>2. Retried(t, a) \in Turn
  BY <1>1, TurnsAre, Zenon DEF Retried
<1>3. QED
  BY <1>2, TurnsAre DEF Retried

LEMMA GivenUpIs ==
  ASSUME NEW t \in Turn, NEW status \in TurnStatuses
  PROVE  /\ GivenUp(t, status) \in Turn
         /\ GivenUp(t, status).step = "done" /\ GivenUp(t, status).status = status
<1>1. "done" \in TurnSteps /\ None \in Readings
  BY DEF TurnSteps, Readings
<1>2. GivenUp(t, status) \in Turn
  BY <1>1, TurnsAre, Zenon DEF GivenUp
<1>3. QED
  BY <1>2, TurnsAre DEF GivenUp

LEMMA CalledIs == ASSUME NEW t \in Turn, NEW n \in CallCounts PROVE Called(t, n) \in Turn
<1>1. "running" \in TurnSteps /\ None \in Readings
  BY DEF TurnSteps, Readings
<1>2. QED
  BY <1>1, TurnsAre, Zenon DEF Called

LEMMA ReadingIs ==
  ASSUME NEW t \in Turn, NEW isin \in Readings, NEW n \in Nat PROVE Reading(t, isin, n) \in Turn
<1>1. "rereading" \in TurnSteps
  BY DEF TurnSteps
<1>2. QED
  BY <1>1, TurnsAre, Zenon DEF Reading

LEMMA OneMore == \A m \in Nat : \A n \in 0..m : n < m => n + 1 \in 0..m
OBVIOUS

LEMMA BoundsAreNat == ASSUME ConstantsAssumption PROVE Retries \in Nat /\ MaxCalls \in Nat
BY DEF ConstantsAssumption

LEMMA CallsAreCounted ==
  /\ \A m \in Nat : \A n \in 0..m : n \in Nat
  /\ \A n \in Nat : 1 - 1 < n + 1
  /\ \A l, n \in Nat : \A k \in {1, 2} : l - k < n => (l + 1) - k < n + 1
OBVIOUS

LEMMA CountsAreNat == ASSUME ConstantsAssumption PROVE \A n \in CallCounts : n \in Nat
BY BoundsAreNat, CallsAreCounted DEF CallCounts

LEMMA TurnTyped ==
  ASSUME NEW t \in Turn
  PROVE  /\ t.step \in TurnSteps /\ t.asked \in Questions /\ t.attempt \in Attempts
         /\ t.calls \in CallCounts /\ t.status \in TurnStatuses /\ t.since \in Nat
         /\ t.read \in Readings /\ t = [t EXCEPT !.step = t.step]
BY TurnsAre

\* A step that writes the turn alone.
LEMMA TurnOnly ==
  ASSUME ToolsInv, UNCHANGED <<rows, config, told, log>>
  PROVE  /\ rows' \in [Known -> Row] /\ config' \in Config /\ LogFits' /\ ToldFits'
         /\ FirstCall' = FirstCall
<1>1. rows' \in [Known -> Row] /\ config' \in Config /\ FirstCall' = FirstCall
  BY DEF ToolsInv, FirstCall
<1>2. LogFits'
  BY DEF ToolsInv, LogFits, LastScored
<1>3. ToldFits'
  <2>1. ASSUME NEW i \in DOMAIN told PROVE FactFits(told[i])' /\ StillFits(told[i])'
    <3>1. PICK g : g = told[i]
      OBVIOUS
    <3>2. FactFits(g)' /\ StillFits(g)'
      BY <3>1, ToldStays DEF ToolsInv, ToldFits
    <3>3. QED
      BY <3>1, <3>2
  <2>2. ASSUME NEW i \in DOMAIN told, NEW j \in DOMAIN told, i < j
        PROVE  PairFits(told[i], told[j])'
    <3>1. PairFits(told[i], told[j])
      BY <2>2 DEF ToolsInv, ToldFits
    <3>2. QED
      BY <3>1 DEF PairFits, Rescored, Synced, About
  <2>3. QED
    BY <2>1, <2>2 DEF ToolsInv, ToldFits
<1>4. QED
  BY <1>1, <1>2, <1>3

\* The unprimed facts of an unchanged fund table and log, for a step that tells.
LEMMA FundsOnly ==
  ASSUME ToolsInv, UNCHANGED <<rows, config, log>>
  PROVE  rows' \in [Known -> Row] /\ config' \in Config /\ LogFits'
BY DEF ToolsInv, LogFits, LastScored

\* A failed attempt, a failed tool and a tool that tells keep it.
LEMMA AttemptFailsKept ==
  ASSUME ConstantsAssumption, ToolsInv, NEW status, AttemptFails(status),
         turn.step \in {"sent", "running", "rereading"}, UNCHANGED <<rows, config, log>>
  PROVE  ToolsInv'
<1>1. rows' \in [Known -> Row] /\ config' \in Config /\ LogFits'
  BY FundsOnly
<1>2. ToldFits' /\ Len(told') - FirstCall' = -1
  BY ToldForgets DEF ToolsInv, AttemptFails
<1>3. turn \in Turn /\ turn.attempt \in 0..Retries /\ config.agent # "none"
  BY TurnTyped DEF ToolsInv, TurnFits, Attempts
<1>4. \/ turn' = Retried(turn, turn.attempt + 1) /\ turn.attempt < Retries
      \/ turn' = GivenUp(turn, 503)
  BY DEF AttemptFails, Retried, GivenUp
<1>5. /\ turn' \in Turn
      /\ \/ turn'.step = "sent"
         \/ turn'.step = "done" /\ turn'.status = 503
  <2>1. turn.attempt < Retries => turn.attempt + 1 \in Attempts
    BY <1>3, OneMore, BoundsAreNat DEF Attempts
  <2>2. 503 \in TurnStatuses
    BY DEF TurnStatuses
  <2>3. CASE turn' = Retried(turn, turn.attempt + 1) /\ turn.attempt < Retries
    BY <1>3, <2>1, <2>3, RetriedIs
  <2>4. CASE turn' = GivenUp(turn, 503)
    BY <1>3, <2>2, <2>4, GivenUpIs
  <2>5. QED
    BY <1>4, <2>3, <2>4
<1>7. turn'.calls \in Nat
  <2>1. turn'.calls \in CallCounts
    BY <1>5, TurnsAre
  <2>2. QED
    BY <2>1, CountsAreNat
<1>8. TurnFits'
  BY <1>2, <1>3, <1>5, <1>7 DEF TurnFits
<1>9. QED
  BY <1>1, <1>2, <1>5, <1>8 DEF ToolsInv

LEMMA ToolFailsKept ==
  ASSUME ConstantsAssumption, ToolsInv, ToolFails, CallsTool, UNCHANGED <<rows, config, log>>
  PROVE  ToolsInv'
<1>1. turn.step = "running" /\ turn.calls < MaxCalls /\ turn \in Turn /\ turn.calls \in 0..MaxCalls
  BY TurnTyped DEF CallsTool, ToolsInv, CallCounts
<1>2. CASE AttemptFails(503)
  BY <1>1, <1>2, AttemptFailsKept
<1>3. CASE turn' = Called(turn, turn.calls + 1) /\ UNCHANGED told
  <2>1. /\ rows' \in [Known -> Row] /\ config' \in Config /\ LogFits' /\ ToldFits'
        /\ FirstCall' = FirstCall
    BY <1>3, TurnOnly
  <2>2. turn.calls + 1 \in CallCounts
    BY <1>1, OneMore, BoundsAreNat DEF CallCounts
  <2>3. turn' \in Turn
    BY <1>1, <1>3, <2>2, CalledIs
  <2>4. turn'.step = "running" /\ turn'.calls = turn.calls + 1
    BY <1>1, <1>3, TurnsAre DEF Called
  <2>5. /\ config.agent = "right" /\ config.openai
        /\ Len(told) - FirstCall < turn.calls /\ Len(told) \in Nat /\ FirstCall \in {1, 2}
    BY <1>1 DEF ToolsInv, TurnFits, ToldFits, FirstCall
  <2>6. Len(told) - FirstCall < turn.calls + 1
    BY <1>1, <2>5
  <2>7. TurnFits'
    BY <1>3, <2>1, <2>4, <2>5, <2>6 DEF TurnFits
  <2>8. QED
    BY <2>1, <2>3, <2>7 DEF ToolsInv
<1>4. QED
  BY <1>2, <1>3 DEF ToolFails, Called

LEMMA TellKept ==
  ASSUME ConstantsAssumption, ToolsInv, UNCHANGED <<rows, config, log>>,
         turn.step \in {"running", "rereading"}, turn.calls < MaxCalls,
         NEW fact, Tell(fact), Joins(fact), fact.from # "context"
  PROVE  ToolsInv'
<1>1. turn \in Turn /\ turn.calls \in 0..MaxCalls
  BY TurnTyped DEF ToolsInv, CallCounts
<1>2. rows' \in [Known -> Row] /\ config' \in Config /\ LogFits'
  BY FundsOnly
<1>3. told' = Append(told, fact) /\ turn' = Called(turn, turn.calls + 1)
  BY DEF Tell, Called
<1>4. /\ ToldFits' /\ Len(told') = Len(told) + 1
      /\ told # <<>> => told'[1] = told[1]
      /\ told = <<>> => told'[1] = fact
  BY <1>3, ToldGrows DEF ToolsInv
<1>5. turn.calls + 1 \in CallCounts
  BY <1>1, OneMore, BoundsAreNat DEF CallCounts
<1>6. turn' \in Turn
  BY <1>1, <1>3, <1>5, CalledIs
<1>7. turn'.step = "running" /\ turn'.calls = turn.calls + 1
  BY <1>1, <1>3, TurnsAre DEF Called
<1>8. /\ config.agent = "right" /\ config.openai
      /\ Len(told) - FirstCall < turn.calls /\ told \in Seq(Fact)
  <2>1. told \in Seq(Fact) /\ TurnFits
    BY DEF ToolsInv, ToldFits
  <2>2. QED
    BY <2>1 DEF TurnFits
<1>9. Len(told') - FirstCall' < turn.calls + 1
  <2>1. turn.calls \in Nat /\ Len(told) \in Nat
    BY <1>1, <1>8, CountsAreNat DEF CallCounts
  <2>2. CASE told = <<>>
    <3>1. FirstCall' = 1 /\ Len(told') = 1
      <4>1. Len(told') = 0 + 1 /\ told' # <<>>
        BY <1>4, <2>2
      <4>2. told'[1].from # "context"
        BY <1>4, <2>2
      <4>3. QED
        BY <4>1, <4>2 DEF FirstCall
    <3>2. QED
      BY <2>1, <3>1, CallsAreCounted, Zenon
  <2>3. CASE told # <<>>
    <3>1. told' # <<>>
      BY <1>3, <1>8
    <3>2. FirstCall' = FirstCall /\ FirstCall \in {1, 2}
      BY <1>4, <2>3, <3>1 DEF FirstCall
    <3>3. (Len(told) + 1) - FirstCall < turn.calls + 1
      BY <1>8, <2>1, <3>2, CallsAreCounted, Zenon
    <3>4. QED
      BY <1>4, <3>2, <3>3, Zenon
  <2>4. QED
    BY <2>2, <2>3
<1>10. TurnFits'
  BY <1>7, <1>8, <1>9 DEF TurnFits
<1>11. QED
  BY <1>2, <1>4, <1>6, <1>10 DEF ToolsInv

\* Every step the services take keeps the invariant.
LEMMA ToolsStart == ASSUME ConstantsAssumption, Init PROVE ToolsInv
<1>1. rows \in [Known -> Row] /\ config \in Config /\ told = <<>> /\ log = <<>>
  BY DEF ConstantsAssumption, Init
<1>2. turn \in Turn
  <2>1. <<>> \in Seq(Known \cup Unknown) /\ 0 \in 0..Retries /\ 0 \in 0..MaxCalls /\ 0 \in Nat
    BY DEF ConstantsAssumption
  <2>2. QED
    BY <2>1 DEF Init, Turn
<1>3. LogFits
  BY <1>1 DEF LogFits, LastScored, ConstantsAssumption
<1>4. ToldFits
  BY <1>1 DEF ToldFits
<1>5. TurnFits
  <2>1. FirstCall = 1 /\ Len(told) = 0 /\ turn.calls = 0 /\ turn.step = "idle"
    BY <1>1 DEF FirstCall, Init
  <2>2. QED
    BY <1>1, <2>1 DEF TurnFits
<1>6. QED
  BY <1>1, <1>2, <1>3, <1>4, <1>5 DEF ToolsInv

LEMMA AskKept == ASSUME ConstantsAssumption, ToolsInv, Ask PROVE ToolsInv'
<1>1. PICK isins \in Lists, compares \in BOOLEAN :
        Range(isins) \cap Malformed = {} /\ turn' = Asking(turn, isins, compares)
  BY DEF Ask, Asking
<1>2. UNCHANGED <<rows, config, told, log>> /\ turn.step = "idle" /\ turn \in Turn
  BY DEF Ask, ToolsInv
<1>3. isins \in Questions
  BY <1>1, WellFormedIs DEF Questions
<1>4. turn' \in Turn
  BY <1>1, <1>2, <1>3, AskingIs
<1>5. turn'.step = "context" /\ turn'.calls = turn.calls
  BY <1>1, <1>2, TurnsAre DEF Asking
<1>6. /\ rows' \in [Known -> Row] /\ config' \in Config /\ LogFits' /\ ToldFits'
      /\ FirstCall' = FirstCall
  BY <1>2, TurnOnly
<1>7. told = <<>> /\ Len(told) - FirstCall < turn.calls
  BY <1>2 DEF ToolsInv, TurnFits
<1>8. TurnFits'
  BY <1>2, <1>5, <1>6, <1>7 DEF TurnFits
<1>9. QED
  BY <1>4, <1>6, <1>8 DEF ToolsInv

LEMMA BuildContextKept == ASSUME ConstantsAssumption, ToolsInv, BuildContext PROVE ToolsInv'
<1> DEFINE funds == Found(turn.asked)
           compares == Cardinality(funds) >= 2 /\ turn.compares
           fair == IF compares THEN IsFair(funds) ELSE None
           fact == NewFact("context", turn.asked, funds, fair, Len(log))
<1>1. /\ UNCHANGED <<rows, config, log>> /\ turn.step = "context" /\ turn \in Turn
      /\ told = <<>> /\ log \in Seq(Change)
  BY DEF BuildContext, ToolsInv, TurnFits, LogFits
<1>2. /\ turn.asked \in Seq(Known \cup Unknown) /\ turn.calls \in Nat
  BY <1>1, TurnTyped, CountsAreNat DEF Questions
<1>3. \/ turn' = Answered(turn, "done", 503) /\ config.agent = "none"
      \/ turn' = Answered(turn, "sent", 200) /\ config.agent # "none"
  BY DEF BuildContext, Answered
<1>4. /\ turn' \in Turn /\ turn'.calls = turn.calls
      /\ \/ turn'.step = "done" /\ turn'.status = 503
         \/ turn'.step = "sent" /\ config.agent # "none"
  <2>1. "done" \in TurnSteps /\ "sent" \in TurnSteps /\ 503 \in TurnStatuses /\ 200 \in TurnStatuses
    BY DEF TurnSteps, TurnStatuses
  <2>2. turn' \in Turn
    BY <1>1, <1>3, <2>1, AnsweredIs
  <2>3. CASE turn' = Answered(turn, "done", 503) /\ config.agent = "none"
    BY <1>1, <2>2, <2>3, TurnsAre DEF Answered
  <2>4. CASE turn' = Answered(turn, "sent", 200) /\ config.agent # "none"
    BY <1>1, <2>2, <2>4, TurnsAre DEF Answered
  <2>5. QED
    BY <1>3, <2>2, <2>3, <2>4
<1>5. rows' \in [Known -> Row] /\ config' \in Config /\ LogFits'
  BY <1>1, FundsOnly
<1>6. told' = told \/ told' = Append(told, fact)
  BY <1>1 DEF BuildContext
<1>7. ToldFits' /\ Len(told') - FirstCall' = -1
  <2>1. CASE told' = told
    <3>1. told' = <<>>
      BY <1>1, <2>1
    <3>2. QED
      BY <3>1 DEF ToldFits, FirstCall
  <2>2. CASE told' = Append(told, fact)
    <3>1. /\ funds = Range(turn.asked) \cap Known /\ funds \in SUBSET Known
          /\ Len(log) \in Nat /\ rows \in [Known -> Row]
      BY <1>1 DEF Found, ToolsInv
    <3>2. Judged(fact, funds)
      <4>1. IsFair(funds) \in BOOLEAN
        BY <3>1, FairnessIs
      <4>2. fact.fair = fair
        BY DEF NewFact
      <4> HIDE DEF fact, funds
      <4>3. QED
        BY <4>1, <4>2 DEF Judged
    <3>3. PICK verdict : fact = NewFact("context", turn.asked, funds, verdict, Len(log))
      OBVIOUS
    <3> HIDE DEF funds, fair, compares
    <3>4. Joins(fact) /\ fact.from = "context"
      <4> HIDE DEF fact
      <4>1. Len(log) <= Len(log)
        BY <3>1
      <4>2. QED
        BY <1>2, <3>1, <3>2, <3>3, <4>1, NewFactFits
    <3> HIDE DEF fact
    <3>5. ToldFits' /\ Len(told') = Len(told) + 1 /\ told'[1] = fact
      <4>1. ToldFits
        BY DEF ToolsInv
      <4>2. QED
        BY <1>1, <2>2, <3>4, <4>1, ToldGrows
    <3>6. Len(told') = 1 /\ told' # <<>> /\ told'[1].from = "context"
      <4>1. Len(told) = 0
        BY <1>1
      <4>2. told' # <<>>
        BY <1>1, <2>2
      <4>3. Len(told') = 1
        BY <3>5, <4>1
      <4>4. QED
        BY <3>4, <3>5, <4>2, <4>3
    <3>7. FirstCall' = 2
      BY <3>6 DEF FirstCall
    <3>8. Len(told') - FirstCall' = -1
      BY <3>6, <3>7
    <3>9. QED
      BY <3>5, <3>8
  <2>3. QED
    BY <1>6, <2>1, <2>2
<1>8. TurnFits'
  BY <1>1, <1>2, <1>4, <1>7 DEF TurnFits
<1>9. QED
  BY <1>4, <1>5, <1>7, <1>8 DEF ToolsInv

LEMMA TimeOutKept == ASSUME ConstantsAssumption, ToolsInv, TimeOut PROVE ToolsInv'
<1>1. AttemptFails(504) /\ UNCHANGED <<rows, config, log>>
      /\ turn.step \in {"sent", "running", "rereading"}
  BY DEF TimeOut
<1>2. QED
  BY <1>1, AttemptFailsKept

LEMMA StartRunKept == ASSUME ConstantsAssumption, ToolsInv, StartRun PROVE ToolsInv'
<1>1. turn.step = "sent" /\ UNCHANGED <<rows, config, log>> /\ config.agent # "none" /\ turn \in Turn
      /\ config \in Config
  BY DEF StartRun, ToolsInv, TurnFits
<1>2. \/ AttemptFails(503)
      \/ AttemptFails(401)
      \/ /\ turn' = Stepped(turn, "running") /\ UNCHANGED told
         /\ config.agent = "right" /\ config.openai
  <2>1. config.agent \in {"unset", "wrong", "right"}
    BY <1>1 DEF Config
  <2>2. QED
    BY <2>1 DEF StartRun, Stepped
<1>3. CASE AttemptFails(503) \/ AttemptFails(401)
  BY <1>1, <1>3, AttemptFailsKept
<1>4. CASE /\ turn' = Stepped(turn, "running") /\ UNCHANGED told
           /\ config.agent = "right" /\ config.openai
  <2>1. "running" \in TurnSteps
    BY DEF TurnSteps
  <2>2. turn' \in Turn
    BY <1>1, <1>4, <2>1, SteppedIs
  <2>3. turn'.step = "running" /\ turn'.calls = turn.calls
    BY <1>1, <1>4, TurnsAre DEF Stepped
  <2>4. /\ rows' \in [Known -> Row] /\ config' \in Config /\ LogFits' /\ ToldFits'
        /\ FirstCall' = FirstCall
    BY <1>1, <1>4, TurnOnly
  <2>5. TurnFits'
    BY <1>1, <1>4, <2>3, <2>4 DEF TurnFits, ToolsInv
  <2>6. QED
    BY <2>2, <2>4, <2>5 DEF ToolsInv
<1>5. QED
  BY <1>2, <1>3, <1>4

LEMMA GetFundSnapshotKept == ASSUME ConstantsAssumption, ToolsInv, GetFundSnapshot PROVE ToolsInv'
<1>1. CallsTool /\ UNCHANGED <<rows, config, log>> /\ turn.step = "running" /\ turn.calls < MaxCalls
  BY DEF GetFundSnapshot, CallsTool
<1>2. \/ ToolFails
      \/ \E isin \in Known : /\ config.tools = "right" /\ rows[isin].visible
                             /\ Tell(NewFact("snapshot", <<isin>>, {isin}, None, Len(log)))
  BY DEF GetFundSnapshot, VisibleFund
<1>3. CASE ToolFails
  BY <1>1, <1>3, ToolFailsKept
<1>4. ASSUME NEW isin \in Known, config.tools = "right", rows[isin].visible,
             Tell(NewFact("snapshot", <<isin>>, {isin}, None, Len(log)))
      PROVE  ToolsInv'
  <2>1. PICK fact, from, asked, funds, fair :
          /\ fact = NewFact(from, asked, funds, fair, Len(log)) /\ from = "snapshot"
          /\ asked = <<isin>> /\ fair = None
          /\ funds = {isin} /\ Tell(fact)
    BY <1>4
  <2>2. Judged(fact, funds)
    BY <2>1 DEF Judged, NewFact
  <2>3. asked \in Seq(Known \cup Unknown) /\ funds = Range(asked) \cap Known
    BY <2>1 DEF Range
  <2>4. SeenSince(funds, Len(log))
    BY <1>4, <2>1 DEF SeenSince
  <2>5. Len(log) \in Nat /\ Len(log) <= Len(log)
    BY DEF ToolsInv, LogFits
  <2>6. /\ from \in {"context", "snapshot", "breakdown", "compare", "fairness"}
        /\ from # "breakdown" /\ from # "context"
        /\ fact = NewFact(from, asked, funds, fair, Len(log))
    BY <2>1
  <2>7. Joins(fact) /\ fact.from = from
    BY <1>4, <2>2, <2>3, <2>4, <2>5, <2>6, NewFactFits
  <2>8. QED
    BY <1>1, <2>1, <2>7, TellKept
<1>5. QED
  BY <1>2, <1>3, <1>4

LEMMA GetScoreBreakdownKept ==
  ASSUME ConstantsAssumption, ToolsInv, GetScoreBreakdown PROVE ToolsInv'
<1>1. /\ CallsTool /\ UNCHANGED <<rows, config, log>> /\ turn.step = "running"
      /\ turn.calls < MaxCalls /\ turn \in Turn /\ log \in Seq(Change)
  BY DEF GetScoreBreakdown, CallsTool, ToolsInv, LogFits
<1>2. \/ ToolFails
      \/ \E isin \in Known : /\ config.tools = "right" /\ rows[isin].visible
                             /\ turn' = Reading(turn, isin, Len(log)) /\ UNCHANGED told
  BY DEF GetScoreBreakdown, VisibleFund, Reading
<1>3. CASE ToolFails
  BY <1>1, <1>3, ToolFailsKept
<1>4. ASSUME NEW isin \in Known, config.tools = "right", rows[isin].visible,
             turn' = Reading(turn, isin, Len(log)), UNCHANGED told
      PROVE  ToolsInv'
  <2>1. Len(log) \in Nat /\ isin \in Readings
    BY <1>1 DEF Readings
  <2>2. turn' \in Turn
    BY <1>1, <1>4, <2>1, ReadingIs
  <2>3. /\ turn'.step = "rereading" /\ turn'.read = isin /\ turn'.since = Len(log)
        /\ turn'.calls = turn.calls
    BY <1>1, <1>4, TurnsAre DEF Reading
  <2>4. /\ rows' \in [Known -> Row] /\ config' \in Config /\ LogFits' /\ ToldFits'
        /\ FirstCall' = FirstCall
    BY <1>1, <1>4, TurnOnly
  <2>5. /\ config.agent = "right" /\ config.openai /\ config.agent # "none"
        /\ Len(told) - FirstCall < turn.calls
    BY <1>1 DEF ToolsInv, TurnFits
  <2>6. Len(log) <= Len(log)
    BY <2>1
  <2>7. TurnFits'
    BY <1>1, <1>4, <2>3, <2>4, <2>5, <2>6 DEF TurnFits
  <2>8. QED
    BY <2>2, <2>4, <2>7 DEF ToolsInv
<1>5. QED
  BY <1>2, <1>3, <1>4

LEMMA ReadPersistedScoreKept ==
  ASSUME ConstantsAssumption, ToolsInv, ReadPersistedScore PROVE ToolsInv'
<1>1. /\ UNCHANGED <<rows, config, log>> /\ turn.step = "rereading" /\ turn \in Turn
      /\ Tell(NewFact("breakdown", <<turn.read>>, {turn.read}, None, turn.since))
  BY DEF ReadPersistedScore, ToolsInv
<1>2. /\ turn.read \in Known /\ turn.calls < MaxCalls /\ config.tools = "right"
      /\ turn.since <= Len(log)
      /\ rows[turn.read].visible \/ \E n \in (turn.since + 1)..Len(log) : Flipped(turn.read, n)
  BY <1>1 DEF ToolsInv, TurnFits
<1>3. PICK fact, isin, from, asked, funds, fair, since :
        /\ fact = NewFact(from, asked, funds, fair, since) /\ from = "breakdown"
        /\ asked = <<isin>> /\ fair = None
        /\ isin = turn.read /\ since = turn.since /\ funds = {isin} /\ Tell(fact)
  BY <1>1
<1>4. Judged(fact, funds)
  BY <1>3 DEF Judged, NewFact
<1>5. isin \in Known /\ since \in Nat /\ since <= Len(log)
  BY <1>1, <1>2, <1>3, TurnTyped
<1>6. asked \in Seq(Known \cup Unknown) /\ funds = Range(asked) \cap Known
  BY <1>3, <1>5 DEF Range
<1>7. SeenSince(funds, since)
  BY <1>2, <1>3 DEF SeenSince
<1>8. /\ from \in {"context", "snapshot", "breakdown", "compare", "fairness"}
      /\ ~ (from # "breakdown") /\ from # "context" /\ config.tools = "right"
      /\ fact = NewFact(from, asked, funds, fair, since)
  BY <1>2, <1>3
<1>9. Joins(fact) /\ fact.from = from
  BY <1>4, <1>5, <1>6, <1>7, <1>8, NewFactFits
<1>10. QED
  BY <1>1, <1>2, <1>3, <1>9, TellKept

LEMMA CompareFundsKept == ASSUME ConstantsAssumption, ToolsInv, CompareFunds PROVE ToolsInv'
<1>1. /\ CallsTool /\ UNCHANGED <<rows, config, log>> /\ turn.step = "running"
      /\ turn.calls < MaxCalls /\ rows \in [Known -> Row]
  BY DEF CompareFunds, CallsTool, ToolsInv
<1>2. \/ ToolFails
      \/ \E isins \in Lists, from \in {"compare", "fairness"} :
           /\ config.tools = "right" /\ ListAccepted(isins) /\ Hidden(Found(isins)) = {}
           /\ Tell(NewFact(from, isins, Found(isins),
                           IF from = "fairness" THEN IsFair(Found(isins)) ELSE None, Len(log)))
  BY DEF CompareFunds
<1>3. CASE ToolFails
  BY <1>1, <1>3, ToolFailsKept
<1>4. ASSUME NEW isins \in Lists, NEW from \in {"compare", "fairness"},
             config.tools = "right", ListAccepted(isins), Hidden(Found(isins)) = {},
             Tell(NewFact(from, isins, Found(isins),
                          IF from = "fairness" THEN IsFair(Found(isins)) ELSE None, Len(log)))
      PROVE  ToolsInv'
  <2>1. PICK fact, funds, fair :
          /\ fact = NewFact(from, isins, funds, fair, Len(log)) /\ funds = Found(isins)
          /\ fair = (IF from = "fairness" THEN IsFair(funds) ELSE None) /\ Tell(fact)
    BY <1>4
  <2>2. funds = Range(isins) \cap Known /\ funds \in SUBSET Known
    BY <2>1 DEF Found
  <2>3. Judged(fact, funds)
    <3>1. IsFair(funds) \in BOOLEAN
      BY <1>1, <2>2, FairnessIs
    <3>2. fact.fair = fair
      BY <2>1 DEF NewFact
    <3>3. QED
      BY <2>1, <3>1, <3>2 DEF Judged
  <2>4. isins \in Seq(Known \cup Unknown)
    BY <1>4, WellFormedIs DEF ListAccepted
  <2>5. SeenSince(funds, Len(log))
    BY <1>4, <2>1 DEF SeenSince, Hidden
  <2>6. Len(log) \in Nat /\ Len(log) <= Len(log)
    BY DEF ToolsInv, LogFits
  <2>7. from \in {"context", "snapshot", "breakdown", "compare", "fairness"} /\ from # "context"
    OBVIOUS
  <2>8. fact = NewFact(from, isins, funds, fair, Len(log)) /\ Tell(fact)
    BY <2>1
  <2>9. Joins(fact) /\ fact.from = from
    BY <1>4, <2>2, <2>3, <2>4, <2>5, <2>6, <2>7, <2>8, NewFactFits
  <2>10. QED
    BY <1>1, <2>7, <2>8, <2>9, TellKept
<1>5. QED
  BY <1>2, <1>3, <1>4

LEMMA EndRunKept == ASSUME ConstantsAssumption, ToolsInv, EndRun PROVE ToolsInv'
<1>1. turn.step = "running" /\ UNCHANGED <<rows, config, log>> /\ turn \in Turn
  BY DEF EndRun, ToolsInv
<1>2. CASE AttemptFails(503)
  BY <1>1, <1>2, AttemptFailsKept
<1>3. CASE turn' = Stepped(turn, "done") /\ UNCHANGED told
  <2>1. "done" \in TurnSteps
    BY DEF TurnSteps
  <2>2. turn' \in Turn
    BY <1>1, <1>3, <2>1, SteppedIs
  <2>3. turn'.step = "done" /\ turn'.calls = turn.calls
    BY <1>1, <1>3, TurnsAre DEF Stepped
  <2>4. /\ rows' \in [Known -> Row] /\ config' \in Config /\ LogFits' /\ ToldFits'
        /\ FirstCall' = FirstCall
    BY <1>1, <1>3, TurnOnly
  <2>5. TurnFits'
    BY <1>1, <1>3, <2>3, <2>4 DEF TurnFits, ToolsInv
  <2>6. QED
    BY <2>2, <2>4, <2>5 DEF ToolsInv
<1>4. QED
  BY <1>2, <1>3 DEF EndRun, Stepped

-----------------------------------------------------------------------------
(* The funds change                                                        *)

\* What a change does to the funds: only a recalculation, or a sync of a fund that was
\* never broken down, changes the score told of its fund, only a sync its profile, and
\* only a change of visibility whether it is visible.
Changes(c) ==
  /\ c \in Change /\ (c.kind = "score" => c.score \in Scores)
  /\ rows' \in [Known -> Row] /\ log' = Append(log, c) /\ Len(log) < MaxWrites
  /\ UNCHANGED <<config, turn, told>>
  /\ \A f \in Known :
       /\ \/ c.kind = "score" /\ c.fund = f /\ rows'[f].breakdown = c.score
          \/ ~ (c.kind = "score" /\ c.fund = f) /\ rows'[f].breakdown = rows[f].breakdown
       /\ ScoreOf(f)' # ScoreOf(f) =>
            c.fund = f /\ (c.kind = "score" \/ (c.kind = "sync" /\ c.legacy))
       /\ rows'[f].profile # rows[f].profile => c.fund = f /\ c.kind = "sync"
       /\ rows'[f].visible # rows[f].visible => c.fund = f /\ c.kind = "visibility"

\* The log grows; what it says of the changes before stays.
LEMMA LogGrows ==
  ASSUME ToolsInv, NEW c, Changes(c)
  PROVE  /\ log' \in Seq(Change) /\ Len(log) \in Nat /\ Len(log') = Len(log) + 1
         /\ log'[Len(log) + 1] = c /\ \A n \in 1..Len(log) : log'[n] = log[n]
BY DEF ToolsInv, LogFits, Changes

LEMMA LastStays ==
  ASSUME ToolsInv, NEW c, Changes(c), NEW f, NEW n, NEW at \in Nat, at <= Len(log)
  PROVE  LastScored(f, n, at)' <=> LastScored(f, n, at)
<1>1. \A m \in 1..at : log'[m] = log[m]
  BY LogGrows
<1>2. \A m \in (n + 1)..at : n \in 1..at => m \in 1..at
  OBVIOUS
<1>3. QED
  BY <1>1, <1>2 DEF LastScored

LEMMA FactsStayFit ==
  ASSUME ToolsInv, NEW c, Changes(c), NEW fact, fact \in Fact, FactFits(fact), StillFits(fact)
  PROVE  FactFits(fact)' /\ StillFits(fact)'
<1>1. /\ Len(log) \in Nat /\ Len(log') = Len(log) + 1 /\ log'[Len(log) + 1] = c
      /\ \A n \in 1..Len(log) : log'[n] = log[n]
  BY LogGrows
<1>2. fact.since \in Nat /\ fact.at \in Nat /\ fact.since <= fact.at /\ fact.at <= Len(log)
  BY DEF Fact, FactFits
<1>3. FactFits(fact)'
  <2>1. ASSUME NEW f \in fact.hidden, fact.from # "context"
        PROVE  (\E n \in (fact.since + 1)..fact.at : Flipped(f, n))'
    <3>1. PICK n \in (fact.since + 1)..fact.at : Flipped(f, n)
      BY <2>1 DEF FactFits
    <3>2. log'[n] = log[n]
      BY <1>1, <1>2
    <3>3. QED
      BY <3>1, <3>2 DEF Flipped
  <2>2. ASSUME NEW f \in About(fact), NEW n \in 1..fact.at, LastScored(f, n, fact.at)'
        PROVE  fact.score[f] = log'[n].score
    <3>1. log'[n] = log[n] /\ LastScored(f, n, fact.at)
      BY <1>1, <1>2, <2>2, LastStays
    <3>2. QED
      BY <3>1 DEF FactFits
  <2>3. /\ About(fact) = Range(fact.asked) \cap Known /\ DOMAIN fact.profile = About(fact)
        /\ fact.since <= fact.at /\ fact.at <= Len(log')
        /\ fact.from # "context" => config'.tools = "right"
        /\ \/ fact.fair = None
           \/ fact.fair = TRUE /\ AllAlike(fact)
           \/ fact.fair = FALSE /\ ~ AllAlike(fact)
        /\ fact.from # "breakdown" => fact.since = fact.at
    <3>1. fact.at <= Len(log')
      BY <1>1, <1>2
    <3>2. UNCHANGED config
      BY DEF Changes
    <3>3. QED
      BY <1>2, <3>1, <3>2 DEF FactFits
  <2>4. QED
    BY <2>1, <2>2, <2>3 DEF FactFits
<1>4. StillFits(fact)'
  <2> SUFFICES ASSUME NEW f \in About(fact)
               PROVE  /\ fact.score[f] # ScoreOf(f)' =>
                           (\E n \in (fact.at + 1)..Len(log) : Rescored(f, n))'
                      /\ fact.profile[f] # rows'[f].profile =>
                           (\E n \in (fact.at + 1)..Len(log) : Synced(f, n))'
    BY DEF StillFits
  <2>1. f \in Known
    BY DEF FactFits
  <2>2. Len(log) + 1 \in (fact.at + 1)..Len(log')
    BY <1>1, <1>2
  <2>3. \A n \in (fact.at + 1)..Len(log) : n \in (fact.at + 1)..Len(log') /\ log'[n] = log[n]
    BY <1>1, <1>2
  <2>4. ASSUME fact.score[f] # ScoreOf(f)'
        PROVE  (\E n \in (fact.at + 1)..Len(log) : Rescored(f, n))'
    <3>1. CASE ScoreOf(f)' = ScoreOf(f)
      <4>1. PICK n \in (fact.at + 1)..Len(log) : Rescored(f, n)
        BY <2>4, <3>1 DEF StillFits
      <4>2. QED
        BY <2>3, <4>1 DEF Rescored
    <3>2. CASE ScoreOf(f)' # ScoreOf(f)
      <4>1. c.fund = f /\ (c.kind = "score" \/ (c.kind = "sync" /\ c.legacy))
        BY <2>1, <3>2 DEF Changes
      <4>2. QED
        BY <1>1, <2>2, <4>1 DEF Rescored
    <3>3. QED
      BY <3>1, <3>2
  <2>5. ASSUME fact.profile[f] # rows'[f].profile
        PROVE  (\E n \in (fact.at + 1)..Len(log) : Synced(f, n))'
    <3>1. CASE rows'[f].profile = rows[f].profile
      <4>1. PICK n \in (fact.at + 1)..Len(log) : Synced(f, n)
        BY <2>5, <3>1 DEF StillFits
      <4>2. QED
        BY <2>3, <4>1 DEF Synced
    <3>2. CASE rows'[f].profile # rows[f].profile
      <4>1. c.fund = f /\ c.kind = "sync"
        BY <2>1, <3>2 DEF Changes
      <4>2. QED
        BY <1>1, <2>2, <4>1 DEF Synced
    <3>3. QED
      BY <3>1, <3>2
  <2>6. QED
    BY <2>4, <2>5
<1>5. QED
  BY <1>3, <1>4

LEMMA PairsStayFit ==
  ASSUME ToolsInv, NEW c, Changes(c), NEW first, NEW second, first \in Fact, second \in Fact,
         FactFits(second), PairFits(first, second)
  PROVE  PairFits(first, second)'
<1>1. Len(log) \in Nat /\ \A n \in 1..Len(log) : log'[n] = log[n]
  BY LogGrows
<1>2. first.at \in Nat /\ second.at \in Nat /\ first.at <= second.at /\ second.at <= Len(log)
  BY DEF Fact, FactFits, PairFits
<1>3. \A n \in (first.at + 1)..second.at : log'[n] = log[n]
  BY <1>1, <1>2
<1>4. \A n \in (first.at + 1)..second.at, f \in Known :
        (Rescored(f, n)' <=> Rescored(f, n)) /\ (Synced(f, n)' <=> Synced(f, n))
  BY <1>3 DEF Rescored, Synced
<1>5. About(first) \subseteq Known
  BY DEF Fact, About
<1>6. QED
  BY <1>2, <1>4, <1>5 DEF PairFits

\* A change of the funds keeps the invariant.
LEMMA ChangesKept == ASSUME ConstantsAssumption, ToolsInv, NEW c, Changes(c) PROVE ToolsInv'
<1>1. /\ log' \in Seq(Change) /\ Len(log) \in Nat /\ Len(log') = Len(log) + 1
      /\ log'[Len(log) + 1] = c /\ \A n \in 1..Len(log) : log'[n] = log[n]
  BY LogGrows
<1>2. UNCHANGED <<config, turn, told>> /\ told \in Seq(Fact)
  BY DEF Changes, ToolsInv, ToldFits
<1>3. LogFits'
  <2>1. Len(log') <= MaxWrites
    BY <1>1 DEF Changes, ConstantsAssumption
  <2>2. ASSUME NEW n \in 1..Len(log'), log'[n].kind = "score" PROVE log'[n].score \in Scores
    <3>1. n \in 1..Len(log) \/ n = Len(log) + 1
      BY <1>1
    <3>2. QED
      BY <1>1, <2>2, <3>1 DEF Changes, ToolsInv, LogFits
  <2>3. ASSUME NEW f \in Known, NEW n \in 1..Len(log'), LastScored(f, n, Len(log))'
        PROVE  rows'[f].breakdown = log'[n].score
    <3>1. n \in 1..Len(log) \/ n = Len(log) + 1
      BY <1>1
    <3>2. CASE n = Len(log) + 1
      BY <1>1, <2>3, <3>2 DEF LastScored, Changes
    <3>3. CASE n \in 1..Len(log)
      <4>1. Len(log) + 1 \in (n + 1)..Len(log') /\ log'[n] = log[n]
        BY <1>1, <3>3
      <4>2. ~ (c.kind = "score" /\ c.fund = f)
        BY <1>1, <2>3, <4>1 DEF LastScored
      <4>3. LastScored(f, n, Len(log))
        <5>1. \A m \in (n + 1)..Len(log) : m \in (n + 1)..Len(log') /\ log'[m] = log[m]
          BY <1>1, <3>3
        <5>2. QED
          BY <2>3, <3>3, <4>1, <5>1 DEF LastScored
      <4>4. rows[f].breakdown = log[n].score
        BY <3>3, <4>3 DEF ToolsInv, LogFits
      <4>5. QED
        BY <4>1, <4>2, <4>4 DEF Changes
    <3>4. QED
      BY <3>1, <3>2, <3>3
  <2>4. QED
    BY <1>1, <2>1, <2>2, <2>3 DEF LogFits
<1>4. ToldFits'
  <2>1. ASSUME NEW i \in DOMAIN told PROVE FactFits(told[i])' /\ StillFits(told[i])'
    <3>1. PICK fact : fact = told[i]
      OBVIOUS
    <3>2. fact \in Fact /\ FactFits(fact) /\ StillFits(fact) /\ fact = told'[i]
      BY <1>2, <3>1 DEF ToolsInv, ToldFits
    <3>3. FactFits(fact)' /\ StillFits(fact)'
      BY <3>2, FactsStayFit
    <3>4. QED
      BY <3>2, <3>3
  <2>2. ASSUME NEW i \in DOMAIN told, NEW j \in DOMAIN told, i < j
        PROVE  PairFits(told[i], told[j])'
    <3>1. PICK first, second : first = told[i] /\ second = told[j]
      OBVIOUS
    <3>2. /\ first \in Fact /\ second \in Fact /\ FactFits(second) /\ PairFits(first, second)
          /\ first = told'[i] /\ second = told'[j]
      BY <1>2, <2>2, <3>1 DEF ToolsInv, ToldFits
    <3>3. PairFits(first, second)'
      BY <3>2, PairsStayFit
    <3>4. QED
      BY <3>2, <3>3
  <2>3. \A i \in DOMAIN told : i > 1 => told[i].from # "context"
    BY DEF ToolsInv, ToldFits
  <2>4. QED
    BY <1>2, <2>1, <2>2, <2>3 DEF ToldFits
<1>5. TurnFits'
  <2>1. turn.step = "rereading" =>
          /\ turn.since <= Len(log')
          /\ rows'[turn.read].visible \/ (\E n \in (turn.since + 1)..Len(log) : Flipped(turn.read, n))'
    <3> SUFFICES ASSUME turn.step = "rereading"
                 PROVE  /\ turn.since <= Len(log')
                        /\ \/ rows'[turn.read].visible
                           \/ (\E n \in (turn.since + 1)..Len(log) : Flipped(turn.read, n))'
      OBVIOUS
    <3>1. /\ turn.read \in Known /\ turn.since <= Len(log) /\ turn.since \in Nat
          /\ rows[turn.read].visible \/ \E n \in (turn.since + 1)..Len(log) : Flipped(turn.read, n)
      BY TurnTyped DEF ToolsInv, TurnFits
    <3>2. Len(log) + 1 \in (turn.since + 1)..Len(log') /\ turn.since <= Len(log')
      BY <1>1, <3>1
    <3>3. \A n \in (turn.since + 1)..Len(log) : n \in (turn.since + 1)..Len(log') /\ log'[n] = log[n]
      BY <1>1, <3>1
    <3>4. CASE rows'[turn.read].visible = rows[turn.read].visible
      BY <1>2, <3>1, <3>2, <3>3, <3>4 DEF Flipped
    <3>5. CASE rows'[turn.read].visible # rows[turn.read].visible
      <4>1. c.fund = turn.read /\ c.kind = "visibility"
        BY <3>1, <3>5 DEF Changes
      <4>2. QED
        BY <1>1, <1>2, <3>2, <4>1 DEF Flipped
    <3>6. QED
      BY <3>4, <3>5
  <2>2. FirstCall' = FirstCall
    BY <1>2 DEF FirstCall
  <2>3. QED
    BY <1>2, <2>1, <2>2 DEF ToolsInv, TurnFits
<1>6. rows' \in [Known -> Row] /\ config' \in Config /\ turn' \in Turn
  BY <1>2 DEF Changes, ToolsInv
<1>7. QED
  BY <1>3, <1>4, <1>5, <1>6 DEF ToolsInv

LEMMA WritesAreChanges ==
  ASSUME ConstantsAssumption, ToolsInv, NEW f \in Known, NEW row \in Row, NEW kind,
         kind \in {"score", "sync", "visibility"}, Write(kind, f, row),
         kind = "score" => row.score \in Scores /\ row.breakdown = row.score,
         kind # "score" => row.breakdown = rows[f].breakdown,
         kind = "visibility" => row.score = rows[f].score,
         kind # "sync" => row.profile = rows[f].profile,
         kind # "visibility" => row.visible = rows[f].visible
  PROVE  \E c : Changes(c)
<1> DEFINE c == [kind |-> kind, fund |-> f, score |-> row.score,
                 legacy |-> rows[f].breakdown = None]
<1>1. /\ rows \in [Known -> Row] /\ rows' = [rows EXCEPT ![f] = row] /\ log' = Append(log, c)
      /\ Len(log) < MaxWrites /\ UNCHANGED <<config, turn, told>>
  BY DEF ToolsInv, Write
<1>2. c \in Change
  <2>1. row.score \in Scores \cup {None} /\ (rows[f].breakdown = None) \in BOOLEAN
    BY DEF Row
  <2>2. QED
    BY <2>1 DEF Change
<1>3. c.kind = kind /\ c.fund = f /\ c.score = row.score /\ c.legacy = (rows[f].breakdown = None)
  OBVIOUS
<1>4. rows' \in [Known -> Row]
  BY <1>1
<1>5. ASSUME NEW g \in Known
      PROVE  /\ \/ kind = "score" /\ f = g /\ rows'[g].breakdown = row.score
                \/ ~ (kind = "score" /\ f = g) /\ rows'[g].breakdown = rows[g].breakdown
             /\ ScoreOf(g)' # ScoreOf(g) =>
                  f = g /\ (kind = "score" \/ (kind = "sync" /\ rows[f].breakdown = None))
             /\ rows'[g].profile # rows[g].profile => f = g /\ kind = "sync"
             /\ rows'[g].visible # rows[g].visible => f = g /\ kind = "visibility"
  <2>1. CASE f # g
    <3>1. rows'[g] = rows[g]
      BY <1>1, <2>1
    <3>2. QED
      BY <2>1, <3>1 DEF ScoreOf
  <2>2. CASE f = g
    <3>1. rows'[g] = row
      BY <1>1, <2>2
    <3>2. QED
      BY <2>2, <3>1 DEF ScoreOf
  <2>3. QED
    BY <2>1, <2>2
<1> HIDE DEF c
<1>6. Changes(c)
  BY <1>1, <1>2, <1>3, <1>4, <1>5 DEF Changes
<1>7. QED
  BY <1>6

LEMMA RecalculateKept == ASSUME ConstantsAssumption, ToolsInv, Recalculate PROVE ToolsInv'
<1>1. PICK f \in Known, s \in Scores :
        Write("score", f, [rows[f] EXCEPT !.score = s, !.breakdown = s])
  BY DEF Recalculate
<1>2. PICK row, kind : row = [rows[f] EXCEPT !.score = s, !.breakdown = s] /\ kind = "score"
  OBVIOUS
<1>3. rows[f] \in Row
  BY DEF ToolsInv
<1>4. row \in Row /\ row.score = s /\ row.breakdown = s /\ row.profile = rows[f].profile
      /\ row.visible = rows[f].visible
  BY <1>2, <1>3 DEF Row
<1>5. Write(kind, f, row) /\ kind \in {"score", "sync", "visibility"}
  BY <1>1, <1>2
<1>6. \E c : Changes(c)
  BY <1>2, <1>4, <1>5, WritesAreChanges
<1>7. QED
  BY <1>6, ChangesKept

LEMMA SyncMetadataKept == ASSUME ConstantsAssumption, ToolsInv, SyncMetadata PROVE ToolsInv'
<1>1. PICK f \in Known, p \in Profiles :
        Write("sync", f, [rows[f] EXCEPT !.score = None, !.profile = p])
  BY DEF SyncMetadata
<1>2. PICK row, kind : row = [rows[f] EXCEPT !.score = None, !.profile = p] /\ kind = "sync"
  OBVIOUS
<1>3. rows[f] \in Row
  BY DEF ToolsInv
<1>4. row \in Row /\ row.breakdown = rows[f].breakdown /\ row.visible = rows[f].visible
  BY <1>2, <1>3 DEF Row
<1>5. Write(kind, f, row) /\ kind \in {"score", "sync", "visibility"}
  BY <1>1, <1>2
<1>6. \E c : Changes(c)
  BY <1>2, <1>4, <1>5, WritesAreChanges
<1>7. QED
  BY <1>6, ChangesKept

LEMMA SetVisibilityKept == ASSUME ConstantsAssumption, ToolsInv, SetVisibility PROVE ToolsInv'
<1>1. PICK f \in Known : Write("visibility", f, [rows[f] EXCEPT !.visible = ~ @])
  BY DEF SetVisibility
<1>2. PICK row, kind : row = [rows[f] EXCEPT !.visible = ~ @] /\ kind = "visibility"
  OBVIOUS
<1>3. rows[f] \in Row
  BY DEF ToolsInv
<1>4. row \in Row /\ row.breakdown = rows[f].breakdown /\ row.score = rows[f].score
      /\ row.profile = rows[f].profile
  BY <1>2, <1>3 DEF Row
<1>5. Write(kind, f, row) /\ kind \in {"score", "sync", "visibility"}
  BY <1>1, <1>2
<1>6. \E c : Changes(c)
  BY <1>2, <1>4, <1>5, WritesAreChanges
<1>7. QED
  BY <1>6, ChangesKept

LEMMA ToolsStep == ASSUME ConstantsAssumption, ToolsInv, [Next]_vars PROVE ToolsInv'
<1>1. CASE UNCHANGED vars
  <2>1. UNCHANGED <<rows, config, told, log>> /\ UNCHANGED turn
    BY <1>1 DEF vars
  <2>2. /\ rows' \in [Known -> Row] /\ config' \in Config /\ LogFits' /\ ToldFits'
        /\ FirstCall' = FirstCall
    BY <2>1, TurnOnly
  <2>3. TurnFits' /\ turn' \in Turn
    BY <2>1, <2>2 DEF ToolsInv, TurnFits, Flipped
  <2>4. QED
    BY <2>2, <2>3 DEF ToolsInv
<1>2. CASE Ask
  BY <1>2, AskKept
<1>3. CASE BuildContext
  BY <1>3, BuildContextKept
<1>4. CASE TimeOut
  BY <1>4, TimeOutKept
<1>5. CASE StartRun
  BY <1>5, StartRunKept
<1>6. CASE GetFundSnapshot
  BY <1>6, GetFundSnapshotKept
<1>7. CASE GetScoreBreakdown
  BY <1>7, GetScoreBreakdownKept
<1>8. CASE ReadPersistedScore
  BY <1>8, ReadPersistedScoreKept
<1>9. CASE CompareFunds
  BY <1>9, CompareFundsKept
<1>10. CASE EndRun
  BY <1>10, EndRunKept
<1>11. CASE Recalculate
  BY <1>11, RecalculateKept
<1>12. CASE SyncMetadata
  BY <1>12, SyncMetadataKept
<1>13. CASE SetVisibility
  BY <1>13, SetVisibilityKept
<1>14. QED
  BY <1>1, <1>2, <1>3, <1>4, <1>5, <1>6, <1>7, <1>8, <1>9, <1>10, <1>11, <1>12, <1>13 DEF Next

LEMMA ToolsInvariance == ASSUME ConstantsAssumption PROVE Spec => []ToolsInv
<1>1. Init => ToolsInv
  BY ToolsStart
<1>2. ToolsInv /\ [Next]_vars => ToolsInv'
  BY ToolsStep
<1>3. QED
  BY <1>1, <1>2, PTL DEF Spec

-----------------------------------------------------------------------------
(* What the invariant shows                                                *)

LEMMA ToolsTyped == ASSUME ConstantsAssumption, ToolsInv PROVE TypeOK
<1>1. turn \in Turn /\ LogFits /\ ToldFits
  BY DEF ToolsInv
<1>2. ASSUME NEW i \in DOMAIN told
      PROVE  /\ told[i].asked \in Seq(Known \cup Unknown) /\ told[i].fair \in BOOLEAN \cup {None}
             /\ told[i].score \in [DOMAIN told[i].score -> Scores \cup {None}]
             /\ told[i].profile \in [DOMAIN told[i].score -> Profiles]
             /\ DOMAIN told[i].score \subseteq Known /\ told[i].since <= told[i].at
  <2>1. PICK fact : fact = told[i] /\ fact \in Fact /\ FactFits(fact)
    BY <1>1, <1>2 DEF ToldFits
  <2>2. PICK funds \in SUBSET Known : fact.score \in [funds -> Scores \cup {None}]
    BY <2>1 DEF Fact
  <2>3. PICK others \in SUBSET Known : fact.profile \in [others -> Profiles]
    BY <2>1 DEF Fact
  <2>4. DOMAIN fact.profile = DOMAIN fact.score /\ fact.since <= fact.at
    BY <2>1 DEF FactFits, About
  <2>5. /\ fact.score \in [DOMAIN fact.score -> Scores \cup {None}]
        /\ fact.profile \in [DOMAIN fact.score -> Profiles] /\ DOMAIN fact.score \subseteq Known
    BY <2>2, <2>3, <2>4
  <2>6. fact.asked \in Seq(Known \cup Unknown) /\ fact.fair \in BOOLEAN \cup {None}
    BY <2>1 DEF Fact
  <2>7. QED
    BY <2>1, <2>4, <2>5, <2>6
<1>3. /\ turn.step \in {"idle", "context", "sent", "running", "rereading", "done"}
      /\ turn.status \in {200, 503} /\ turn.attempt \in 0..Retries /\ turn.calls \in 0..MaxCalls
  BY <1>1, TurnTyped DEF TurnSteps, TurnStatuses, Attempts, CallCounts
<1>4. QED
  BY <1>1, <1>2, <1>3 DEF TypeOK, ToolsInv, LogFits

\* Two facts that tell of one fund are a pair that fits, and the last change that scored
\* it before a fact was told is in the log.
LEMMA ScoresAgreeIs == ASSUME ConstantsAssumption, ToolsInv PROVE ScoresAgree
<1>1. ToldFits /\ told \in Seq(Fact)
  BY DEF ToolsInv, ToldFits
<1>2. ASSUME NEW i \in DOMAIN told, NEW j \in DOMAIN told, i < j,
             NEW f \in About(told[i]) \cap About(told[j]), told[i].score[f] # told[j].score[f]
      PROVE  \E w \in Between(told[i], told[j], {f}) :
               w.kind = "score" \/ (w.kind = "sync" /\ w.legacy)
  <2>1. told[i] \in Fact /\ told[j] \in Fact /\ told[i].since <= told[i].at
    BY <1>1 DEF ToldFits, FactFits
  <2>2. told[i].since \in Nat /\ told[i].at \in Nat /\ told[j].at \in Nat
    BY <2>1 DEF Fact
  <2>3. PICK n \in (told[i].at + 1)..told[j].at : Rescored(f, n)
    BY <1>1, <1>2 DEF ToldFits, PairFits
  <2>4. n \in (told[i].since + 1)..told[j].at
    BY <2>1, <2>2
  <2>5. QED
    BY <2>3, <2>4 DEF Between, Rescored
<1>3. ASSUME NEW j \in DOMAIN told, NEW f \in About(told[j]),
             {n \in 1..told[j].at : log[n].kind = "score" /\ log[n].fund = f} # {}
      PROVE  told[j].score[f] =
               log[Max({n \in 1..told[j].at : log[n].kind = "score" /\ log[n].fund = f})].score
  <2> DEFINE scored == {n \in 1..told[j].at : log[n].kind = "score" /\ log[n].fund = f}
  <2>1. told[j].at \in Nat /\ FactFits(told[j])
    <3>1. told[j] \in Fact /\ FactFits(told[j])
      BY <1>1 DEF ToldFits
    <3>2. QED
      BY <3>1 DEF Fact
  <2>2. IsFiniteSet(scored) /\ scored \in SUBSET Int
    <3>1. IsFiniteSet(1..told[j].at)
      BY <2>1, FS_Interval
    <3>2. IsFiniteSet(scored)
      BY <3>1, FS_Subset
    <3>3. scored \in SUBSET Int
      OBVIOUS
    <3>4. QED
      BY <3>2, <3>3
  <2>3. \E x \in scored : \A y \in scored : y <= x
    BY <1>3, <2>2, FiniteSetsAreBounded
  <2>4. Max(scored) \in scored /\ \A y \in scored : y <= Max(scored)
    <3> HIDE DEF scored
    <3>1. \E x \in scored : \A y \in scored : x >= y
      BY <2>2, <2>3
    <3>2. Max(scored) \in scored /\ \A y \in scored : Max(scored) >= y
      BY <3>1 DEF Max
    <3>3. QED
      BY <2>2, <3>2
  <2>5. PICK n : n = Max(scored)
    OBVIOUS
  <2>6. LastScored(f, n, told[j].at)
    <3>1. n \in 1..told[j].at /\ log[n].kind = "score" /\ log[n].fund = f
      BY <2>4, <2>5
    <3>2. ASSUME NEW m \in (n + 1)..told[j].at, log[m].kind = "score", log[m].fund = f
          PROVE  FALSE
      <4>1. m \in scored /\ m > n /\ m \in Int /\ n \in Int
        BY <2>1, <3>1, <3>2
      <4>2. m <= n
        BY <2>4, <2>5, <4>1
      <4>3. QED
        BY <4>1, <4>2
    <3>3. QED
      BY <3>1, <3>2 DEF LastScored
  <2>7. QED
    BY <2>1, <2>4, <2>5, <2>6 DEF FactFits
<1>4. QED
  BY <1>2, <1>3 DEF ScoresAgree

\* If the profiles of the funds are as they were, so is the verdict; if one is not, the
\* pair of facts tells of the sync.
LEMMA VerdictsFitIs == ASSUME ConstantsAssumption, ToolsInv PROVE VerdictsFit
<1>1. ToldFits /\ told \in Seq(Fact)
  BY DEF ToolsInv, ToldFits
<1>2. SUFFICES ASSUME NEW i \in DOMAIN told, NEW j \in DOMAIN told,
                      told[i].from # "breakdown", told[j].from # "breakdown",
                      told[i].fair # None, About(told[i]) \subseteq About(told[j])
               PROVE  \/ told[i].fair <=> \A f, g \in About(told[i]) :
                                            ~ Differ(told[j].profile[f], told[j].profile[g])
                      \/ \E w \in Between(told[IF i < j THEN i ELSE j],
                                          told[IF i < j THEN j ELSE i], About(told[i])) :
                           w.kind = "sync"
  BY DEF VerdictsFit
<1>3. \/ told[i].fair = TRUE /\ AllAlike(told[i])
      \/ told[i].fair = FALSE /\ ~ AllAlike(told[i])
  BY <1>1, <1>2 DEF ToldFits, FactFits
<1>4. CASE \A f \in About(told[i]) : told[i].profile[f] = told[j].profile[f]
  <2>1. AllAlike(told[i]) <=> \A f, g \in About(told[i]) :
                                ~ Differ(told[j].profile[f], told[j].profile[g])
    BY <1>4 DEF AllAlike
  <2>2. QED
    BY <1>3, <2>1
<1>5. CASE \E f \in About(told[i]) : told[i].profile[f] # told[j].profile[f]
  <2>1. PICK f \in About(told[i]) \cap About(told[j]) : told[i].profile[f] # told[j].profile[f]
    BY <1>2, <1>5
  <2>2. PICK a \in DOMAIN told, b \in DOMAIN told :
          /\ a < b /\ a = (IF i < j THEN i ELSE j) /\ b = (IF i < j THEN j ELSE i)
          /\ {a, b} = {i, j}
    <3>1. i \in Int /\ j \in Int
      BY <1>1
    <3>2. i # j
      BY <2>1
    <3>3. CASE i < j
      BY <3>3
    <3>4. CASE j < i
      BY <3>1, <3>4
    <3>5. QED
      BY <3>1, <3>2, <3>3, <3>4
  <2>3. f \in About(told[a]) \cap About(told[b]) /\ told[a].profile[f] # told[b].profile[f]
    BY <2>1, <2>2
  <2>4. PICK n \in (told[a].at + 1)..told[b].at : Synced(f, n)
    BY <1>1, <2>2, <2>3 DEF ToldFits, PairFits
  <2>5. told[a] \in Fact /\ told[b] \in Fact /\ told[a].since <= told[a].at
    BY <1>1 DEF ToldFits, FactFits
  <2>6. told[a].since \in Nat /\ told[a].at \in Nat /\ told[b].at \in Nat
    BY <2>5 DEF Fact
  <2>7. n \in (told[a].since + 1)..told[b].at
    BY <2>5, <2>6
  <2>8. log[n] \in Between(told[a], told[b], About(told[i])) /\ log[n].kind = "sync"
    BY <2>1, <2>4, <2>7 DEF Between, Synced
  <2>9. QED
    BY <2>2, <2>8
<1>6. QED
  BY <1>4, <1>5

LEMMA HiddenIsUntoldIs == ASSUME ConstantsAssumption, ToolsInv PROVE HiddenIsUntold
<1>1. SUFFICES ASSUME NEW i \in DOMAIN told, told[i].from # "context", NEW f \in told[i].hidden
               PROVE  \E w \in Between(told[i], told[i], {f}) : w.kind = "visibility"
  BY DEF HiddenIsUntold
<1>2. PICK n \in (told[i].since + 1)..told[i].at : Flipped(f, n)
  BY <1>1 DEF ToolsInv, ToldFits, FactFits
<1>3. QED
  BY <1>2 DEF Between, Flipped

\* The facts of tools are those after the context's, one a call at most.
LEMMA RepliesAreGroundedIs == ASSUME ConstantsAssumption, ToolsInv PROVE RepliesAreGrounded
<1> DEFINE Tools == {i \in DOMAIN told : told[i].from # "context"}
<1>1. told \in Seq(Fact) /\ Len(told) \in Nat /\ DOMAIN told = 1..Len(told)
      /\ FirstCall \in {1, 2} /\ turn.calls \in Nat /\ Len(told) - FirstCall < turn.calls
  BY TurnTyped, CountsAreNat DEF ToolsInv, ToldFits, TurnFits, FirstCall
<1>2. Tools \subseteq FirstCall..Len(told)
  <2>1. CASE FirstCall = 1
    BY <1>1, <2>1
  <2>2. CASE FirstCall = 2
    <3>1. told[1].from = "context"
      BY <2>2 DEF FirstCall
    <3>2. QED
      BY <1>1, <2>2, <3>1
  <2>3. QED
    BY <1>1, <2>1, <2>2
<1>3. Cardinality(Tools) <= turn.calls
  <2>1. IsFiniteSet(FirstCall..Len(told))
    BY <1>1, FS_Interval
  <2>2. Cardinality(FirstCall..Len(told)) =
          IF FirstCall > Len(told) THEN 0 ELSE Len(told) - FirstCall + 1
    <3>1. FirstCall \in Int /\ Len(told) \in Int
      BY <1>1
    <3>2. QED
      BY <3>1, FS_Interval
  <2>3. Cardinality(Tools) <= Cardinality(FirstCall..Len(told))
    BY <1>2, <2>1, FS_Subset
  <2>4. Cardinality(Tools) \in Nat
    BY <1>2, <2>1, FS_Subset, FS_CardinalityType
  <2>5. PICK cap : cap = Cardinality(FirstCall..Len(told))
    OBVIOUS
  <2>6. cap = 0 \/ cap = Len(told) - FirstCall + 1
    BY <2>2, <2>5
  <2>7. Cardinality(Tools) <= cap
    BY <2>3, <2>5
  <2>8. QED
    BY <1>1, <2>4, <2>6, <2>7
<1>4. ASSUME NEW i \in DOMAIN told
      PROVE  /\ About(told[i]) = Range(told[i].asked) \cap Known
             /\ told[i].from # "context" => config.tools = "right"
  BY DEF ToolsInv, ToldFits, FactFits
<1>5. (turn.step = "done" /\ turn.status = 200) => (config.agent = "right" /\ config.openai)
  BY DEF ToolsInv, TurnFits
<1>6. QED
  BY <1>3, <1>4, <1>5 DEF RepliesAreGrounded

\* The turn, the funds and what is told of them keep their types, for any lists, keys,
\* retries and changes of the funds.
THEOREM ToolsTypeSafe == ASSUME ConstantsAssumption PROVE Spec => []TypeOK
<1>1. ToolsInv => TypeOK
  BY ToolsTyped
<1>2. QED
  BY <1>1, ToolsInvariance, PTL

\* What the context and the tools of AssistantToolsService tell of a fund in one turn
\* agrees, but for what was changed meanwhile; a verdict on a comparison is borne out by
\* what is told of its funds; a tool tells of no hidden fund; and a reply rests on the
\* tools of its own attempt and the right keys.
THEOREM ToolsHold == ASSUME ConstantsAssumption PROVE Spec => []ToolsAgree
<1>1. ToolsInv => ToolsAgree
  BY ScoresAgreeIs, VerdictsFitIs, HiddenIsUntoldIs, RepliesAreGroundedIs DEF ToolsAgree
<1>2. QED
  BY <1>1, ToolsInvariance, PTL

-----------------------------------------------------------------------------
(* The answers of the response cache                                       *)

LEMMA SizesInAnswers ==
  ASSUME NEW S
  PROVE  (Answers!IsFiniteSet(S) <=> IsFiniteSet(S)) /\ Answers!Cardinality(S) = Cardinality(S)
BY DEF Answers!IsFiniteSet, IsFiniteSet, Answers!Cardinality, Cardinality

\* The key of a row tells what its answer is about.
RowsFit ==
  \A k \in DOMAIN cache :
    /\ k.fund = NoFund => cache[k].answer.about = {}
    /\ k.fund # NoFund => cache[k].answer.about = {k.fund}

ServedWell(r) ==
  \/ r.answer.about = r.funds
  \/ r.answer.about = {} /\ r.chat /\ Cardinality(r.funds) >= 2

Fits(r) ==
  r.step # "none" =>
    /\ ~r.chat => Cardinality(r.funds) <= 1
    /\ r.step = "save" => ~r.chat /\ r.answer.about = r.funds
    /\ (r.step = "answered" /\ r.cached) => ServedWell(r)

AnswersInv == Answers!TypeOK /\ RowsFit /\ \A w \in Workers : Fits(requests[w])

-----------------------------------------------------------------------------
\* The fund of the key stands for a set of one fund.
LEMMA KeyFundFacts ==
  ASSUME Answers!ConstantsAssumption, NEW funds \in SUBSET Funds
  PROVE  /\ Cardinality(funds) \in Nat
         /\ Answers!KeyFund(funds) \in Funds \cup {NoFund}
         /\ Answers!KeyFund(funds) # NoFund => funds = {Answers!KeyFund(funds)}
         /\ Answers!KeyFund(funds) = NoFund => Cardinality(funds) # 1
         /\ (Answers!KeyFund(funds) = NoFund /\ Cardinality(funds) < 2) => funds = {}
<1>1. IsFiniteSet(funds)
  <2>1. IsFiniteSet(Funds)
    BY SizesInAnswers DEF Answers!ConstantsAssumption
  <2>2. QED
    BY <2>1, FS_Subset
<1>2. Cardinality(funds) \in Nat /\ (Cardinality(funds) = 0 => funds = {})
  BY <1>1, FS_CardinalityType, FS_EmptySet
<1>3. CASE Cardinality(funds) = 1
  <2>1. PICK f : funds = {f}
    BY <1>1, <1>3, FS_Singleton
  <2>2. Answers!KeyFund(funds) = f /\ f \in Funds
    BY <1>3, <2>1, SizesInAnswers DEF Answers!KeyFund
  <2>3. QED
    BY <1>2, <1>3, <2>1, <2>2 DEF Answers!ConstantsAssumption
<1>4. CASE Cardinality(funds) # 1
  BY <1>2, <1>4, SizesInAnswers DEF Answers!KeyFund
<1>5. QED
  BY <1>3, <1>4

LEMMA KeyTyped ==
  ASSUME Answers!ConstantsAssumption, NEW r \in Answers!Request
  PROVE  Answers!KeyOf(r) \in Answers!Key /\ Answers!KeyOf(r).fund = Answers!KeyFund(r.funds)
<1>1. Answers!KeyFund(r.funds) \in Funds \cup {NoFund}
  BY KeyFundFacts DEF Answers!Request
<1>2. Answers!IntentOf(r) \in Answers!Intents
  BY DEF Answers!IntentOf, Answers!Classify, Answers!Intents
<1>3. r.message \in Answers!MessageKinds
  BY DEF Answers!Request
<1>4. QED
  BY <1>1, <1>2, <1>3 DEF Answers!KeyOf, Answers!Key

LEMMA EmptyTyped ==
  ASSUME Answers!ConstantsAssumption
  PROVE  Answers!NoContext \in [Funds -> Answers!Version] /\ Answers!NoAnswer \in Answers!Answer
<1>1. Answers!NoContext \in [Funds -> Answers!Version]
  BY DEF Answers!NoContext, Answers!Version, Answers!ConstantsAssumption
<1>2. QED
  BY <1>1 DEF Answers!NoAnswer, Answers!Answer, Answers!Sources

\* A step of one request.
LEMMA RequestMoves ==
  ASSUME AnswersInv, NEW w \in Workers, NEW t \in {Answers!Idle} \cup Answers!Request, Fits(t),
         requests' = [requests EXCEPT ![w] = t], UNCHANGED <<data, cache>>
  PROVE  AnswersInv'
<1>1. /\ requests' \in [Workers -> {Answers!Idle} \cup Answers!Request] /\ requests'[w] = t
      /\ \A v \in Workers \ {w} : requests'[v] = requests[v]
  BY DEF AnswersInv, Answers!TypeOK
<1>2. Answers!TypeOK' /\ RowsFit'
  BY <1>1 DEF AnswersInv, Answers!TypeOK, RowsFit
<1>3. \A v \in Workers : Fits(requests[v])'
  BY <1>1 DEF AnswersInv, Fits, ServedWell
<1>4. QED
  BY <1>2, <1>3 DEF AnswersInv

LEMMA IdleStep ==
  ASSUME AnswersInv, NEW w \in Workers, requests' = [requests EXCEPT ![w] = Answers!Idle],
         UNCHANGED <<data, cache>>
  PROVE  AnswersInv'
<1>1. Fits(Answers!Idle)
  BY DEF Fits, Answers!Idle
<1>2. QED
  BY <1>1, RequestMoves

LEMMA StartStep ==
  ASSUME Answers!ConstantsAssumption, AnswersInv, NEW w \in Workers, Answers!Start(w)
  PROVE  AnswersInv'
<1>1. PICK message \in Messages, funds \in SUBSET Funds, chat \in BOOLEAN, alone \in BOOLEAN :
        /\ requests' = [requests EXCEPT ![w] = Answers!Started(message, funds, chat, alone)]
        /\ ~chat => Answers!Cardinality(funds) <= 1
        /\ UNCHANGED <<data, cache>>
  BY DEF Answers!Start, Answers!StartExplain, Answers!StartChat
<1> DEFINE t == Answers!Started(message, funds, chat, alone)
<1>2. t \in Answers!Request
  <2>1. message \in Answers!MessageKinds
    BY DEF Answers!ConstantsAssumption
  <2>2. QED
    BY <2>1, EmptyTyped DEF Answers!Started, Answers!Request, Answers!Waiting
<1>3. Fits(t)
  BY <1>1, SizesInAnswers DEF Fits, Answers!Started
<1>4. QED
  BY <1>1, <1>2, <1>3, RequestMoves

\* A request, written out.
LEMMA RequestRewritten ==
  ASSUME AnswersInv, NEW w \in Workers, requests[w].step # "none"
  PROVE  LET r == requests[w] IN
         /\ r \in Answers!Request
         /\ r = [step |-> r.step, chat |-> r.chat, message |-> r.message, funds |-> r.funds,
                 alone |-> r.alone, context |-> r.context, answer |-> r.answer,
                 cached |-> r.cached]
         /\ Fits(r)
<1>1. requests[w] \in Answers!Request /\ Fits(requests[w])
  BY DEF AnswersInv, Answers!TypeOK, Answers!Idle
<1>2. QED
  BY <1>1 DEF Answers!Request

\* Requests with some fields changed, written out.
Stepping(x, step) == [x EXCEPT !.step = step]
Hitting(x, cached, answer) == [x EXCEPT !.step = "answered", !.cached = cached, !.answer = answer]
Building(x, context) == [x EXCEPT !.step = "generate", !.context = context]
Answering(x, step, answer) == [x EXCEPT !.answer = answer, !.step = step]

LEMMA RequestChanged ==
  ASSUME NEW x \in Answers!Request, NEW a, NEW b, NEW c
  PROVE  /\ Stepping(x, a) =
              [step |-> a, chat |-> x.chat, message |-> x.message, funds |-> x.funds,
               alone |-> x.alone, context |-> x.context, answer |-> x.answer, cached |-> x.cached]
         /\ Hitting(x, c, b) =
              [step |-> "answered", chat |-> x.chat, message |-> x.message, funds |-> x.funds,
               alone |-> x.alone, context |-> x.context, answer |-> b, cached |-> c]
         /\ Building(x, b) =
              [step |-> "generate", chat |-> x.chat, message |-> x.message, funds |-> x.funds,
               alone |-> x.alone, context |-> b, answer |-> x.answer, cached |-> x.cached]
         /\ Answering(x, a, b) =
              [step |-> a, chat |-> x.chat, message |-> x.message, funds |-> x.funds,
               alone |-> x.alone, context |-> x.context, answer |-> b, cached |-> x.cached]
<1> DEFINE Rec(step, context, answer, cached) ==
             [step |-> step, chat |-> x.chat, message |-> x.message, funds |-> x.funds,
              alone |-> x.alone, context |-> context, answer |-> answer, cached |-> cached]
<1>1. x = Rec(x.step, x.context, x.answer, x.cached)
  BY DEF Answers!Request
<1> DEFINE stepped == Rec("answered", x.context, x.answer, x.cached)
           hit == Rec("answered", x.context, x.answer, c)
           begun == Rec("generate", x.context, x.answer, x.cached)
           answered == Rec(x.step, x.context, b, x.cached)
<1>2. /\ [x EXCEPT !.step = "answered", !.cached = c, !.answer = b] =
            [[[x EXCEPT !.step = "answered"] EXCEPT !.cached = c] EXCEPT !.answer = b]
      /\ [x EXCEPT !.step = "generate", !.context = b] =
            [[x EXCEPT !.step = "generate"] EXCEPT !.context = b]
      /\ [x EXCEPT !.answer = b, !.step = a] = [[x EXCEPT !.answer = b] EXCEPT !.step = a]
  BY DEF Answers!Request
<1>3. /\ [x EXCEPT !.step = a] = Rec(a, x.context, x.answer, x.cached)
      /\ [x EXCEPT !.step = "answered"] = stepped
      /\ [x EXCEPT !.step = "generate"] = begun
      /\ [x EXCEPT !.answer = b] = answered
  BY <1>1
<1>4. [stepped EXCEPT !.cached = c] = hit
  OBVIOUS
<1>5. [hit EXCEPT !.answer = b] = Rec("answered", x.context, b, c)
  OBVIOUS
<1>6. [begun EXCEPT !.context = b] = Rec("generate", b, x.answer, x.cached)
  OBVIOUS
<1>7. [answered EXCEPT !.step = a] = Rec(a, x.context, b, x.cached)
  OBVIOUS
<1> HIDE DEF Rec, stepped, hit, begun, answered
<1>8. /\ Stepping(x, a) = Rec(a, x.context, x.answer, x.cached)
      /\ Hitting(x, c, b) = Rec("answered", x.context, b, c)
      /\ Building(x, b) = Rec("generate", b, x.answer, x.cached)
      /\ Answering(x, a, b) = Rec(a, x.context, b, x.cached)
  BY <1>2, <1>3, <1>4, <1>5, <1>6, <1>7 DEF Stepping, Hitting, Building, Answering
<1>9. QED
  BY <1>8 DEF Rec

LEMMA CacheHitStep ==
  ASSUME Answers!ConstantsAssumption, AnswersInv, NEW w \in Workers, Answers!CacheHit(w)
  PROVE  AnswersInv'
<1> DEFINE r == requests[w]
           k == Answers!KeyOf(r)
           t == [step |-> "answered", chat |-> r.chat, message |-> r.message, funds |-> r.funds,
                 alone |-> r.alone, context |-> r.context, answer |-> cache[k].answer,
                 cached |-> TRUE]
<1>1. /\ r.step = "lookup" /\ k \in DOMAIN cache /\ UNCHANGED data
      /\ requests' = [requests EXCEPT ![w].step = "answered", ![w].cached = TRUE,
                                      ![w].answer = cache[k].answer]
      /\ cache' = [cache EXCEPT ![k] = cache[k]]
  BY DEF Answers!CacheHit, Answers!Stored, Answers!RowAfterHit
<1>2. r \in Answers!Request /\ Fits(r) /\ cache[k] \in Answers!Row /\ k.fund = Answers!KeyFund(r.funds)
  BY <1>1, RequestRewritten, KeyTyped DEF AnswersInv, Answers!TypeOK
<1>3. cache' = cache
  BY <1>1 DEF AnswersInv, Answers!TypeOK
<1>4. requests' = [requests EXCEPT ![w] = t]
  <2>1. requests' = [requests EXCEPT ![w] = [r EXCEPT !.step = "answered", !.cached = TRUE,
                                                      !.answer = cache[k].answer]]
    BY <1>1 DEF AnswersInv, Answers!TypeOK
  <2>2. requests' = [requests EXCEPT ![w] = Hitting(r, TRUE, cache[k].answer)]
    BY <2>1 DEF Hitting
  <2>3. ASSUME NEW c, NEW answer
        PROVE  Hitting(r, c, answer) =
                 [step |-> "answered", chat |-> r.chat, message |-> r.message, funds |-> r.funds,
                  alone |-> r.alone, context |-> r.context, answer |-> answer, cached |-> c]
    BY <1>2, RequestChanged
  <2>4. Hitting(r, TRUE, cache[k].answer) = t
    BY ONLY <2>3
  <2>5. QED
    BY <2>2, <2>4
<1>5. t \in Answers!Request
  BY <1>2 DEF Answers!Request, Answers!Row, Answers!Waiting
<1>6. Fits(t)
  <2>1. CASE k.fund # NoFund
    <3>1. cache[k].answer.about = r.funds
      BY <1>1, <1>2, <2>1, KeyFundFacts DEF AnswersInv, RowsFit, Answers!Request
    <3>2. QED
      BY <1>1, <1>2, <3>1 DEF Fits, ServedWell
  <2>2. CASE k.fund = NoFund
    <3>1. cache[k].answer.about = {}
      BY <1>1, <2>2 DEF AnswersInv, RowsFit
    <3>2. CASE Cardinality(r.funds) < 2
      <4>1. r.funds = {}
        BY <1>2, <2>2, <3>2, KeyFundFacts DEF Answers!Request
      <4>2. QED
        BY <1>1, <1>2, <3>1, <4>1 DEF Fits, ServedWell
    <3>3. CASE ~(Cardinality(r.funds) < 2)
      <4>1. Cardinality(r.funds) >= 2 /\ ~(Cardinality(r.funds) <= 1)
        BY <1>2, <3>3, KeyFundFacts DEF Answers!Request
      <4>2. r.chat
        BY <1>1, <1>2, <4>1 DEF Fits
      <4>3. QED
        BY <1>1, <3>1, <4>1, <4>2 DEF Fits, ServedWell
    <3>4. QED
      BY <3>2, <3>3
  <2>3. QED
    BY <2>1, <2>2
<1>7. QED
  BY <1>1, <1>3, <1>4, <1>5, <1>6, RequestMoves

\* A step that touches no answer.
LEMMA CacheMissStep ==
  ASSUME AnswersInv, NEW w \in Workers, Answers!CacheMiss(w)
  PROVE  AnswersInv'
<1> DEFINE r == requests[w]
           t == Stepping(r, "build")
<1>1. r.step = "lookup" /\ UNCHANGED <<data, cache>>
      /\ requests' = [requests EXCEPT ![w] = t]
  BY DEF Answers!CacheMiss, Stepping, AnswersInv, Answers!TypeOK
<1>2. r \in Answers!Request /\ Fits(r)
  BY <1>1, RequestRewritten
<1>3. t = [step |-> "build", chat |-> r.chat, message |-> r.message, funds |-> r.funds,
           alone |-> r.alone, context |-> r.context, answer |-> r.answer, cached |-> r.cached]
  BY <1>2, RequestChanged
<1>4. t \in Answers!Request
  BY <1>2, <1>3 DEF Answers!Request, Answers!Waiting
<1>5. Fits(t)
  BY <1>1, <1>2, <1>3 DEF Fits
<1> HIDE DEF t
<1>6. QED
  BY <1>1, <1>4, <1>5, RequestMoves

LEMMA BuildContextStep ==
  ASSUME Answers!ConstantsAssumption, AnswersInv, NEW w \in Workers, Answers!BuildContext(w)
  PROVE  AnswersInv'
<1> DEFINE r == requests[w]
           context == [f \in Funds |-> IF f \in r.funds THEN data[f] ELSE 0]
           t == Building(r, context)
<1>1. r.step = "build" /\ UNCHANGED <<data, cache>>
      /\ requests' = [requests EXCEPT ![w] = t]
  BY DEF Answers!BuildContext, Building, AnswersInv, Answers!TypeOK
<1>2. r \in Answers!Request /\ Fits(r)
  BY <1>1, RequestRewritten
<1>3. context \in [Funds -> Answers!Version]
  BY DEF AnswersInv, Answers!TypeOK, Answers!Version, Answers!ConstantsAssumption
<1> HIDE DEF context
<1>4. t = [step |-> "generate", chat |-> r.chat, message |-> r.message, funds |-> r.funds,
           alone |-> r.alone, context |-> context, answer |-> r.answer, cached |-> r.cached]
  BY <1>2, RequestChanged
<1>5. t \in Answers!Request
  BY <1>2, <1>3, <1>4 DEF Answers!Request, Answers!Waiting
<1>6. Fits(t)
  BY <1>1, <1>2, <1>4 DEF Fits
<1> HIDE DEF t
<1>7. QED
  BY <1>1, <1>5, <1>6, RequestMoves

\* What is answered is about the funds of the request, whoever answers.
LEMMA AnsweredStep ==
  ASSUME AnswersInv, NEW w \in Workers, NEW source \in Answers!Sources,
         requests[w].step = "generate", UNCHANGED <<data, cache>>,
         requests' = [requests EXCEPT ![w] = Answers!Answered(requests[w], source)]
  PROVE  AnswersInv'
<1> DEFINE r == requests[w]
           answer == [source |-> source, about |-> r.funds, context |-> r.context]
           step == IF r.chat THEN "answered" ELSE "save"
           t == Answering(r, step, answer)
<1>1. r \in Answers!Request /\ Fits(r)
  BY RequestRewritten
<1>2. answer \in Answers!Answer /\ answer.about = r.funds
  BY <1>1 DEF Answers!Request, Answers!Answer
<1>3. step \in Answers!Waiting /\ (step = "save" => ~r.chat)
  BY DEF Answers!Waiting
<1>4. requests' = [requests EXCEPT ![w] = t]
  BY DEF Answers!Answered, Answering
<1> HIDE DEF answer, step
<1>5. t = [step |-> step, chat |-> r.chat, message |-> r.message, funds |-> r.funds,
           alone |-> r.alone, context |-> r.context, answer |-> answer, cached |-> r.cached]
  BY <1>1, RequestChanged
<1>6. t \in Answers!Request
  BY <1>1, <1>2, <1>3, <1>5 DEF Answers!Request
<1>7. Fits(t)
  BY <1>1, <1>2, <1>3, <1>5 DEF Fits, ServedWell
<1> HIDE DEF t
<1>8. QED
  BY <1>4, <1>6, <1>7, RequestMoves

\* The row explain writes is about the fund of its key, or about none.
LEMMA SaveAnswerStep ==
  ASSUME Answers!ConstantsAssumption, AnswersInv, NEW w \in Workers, Answers!SaveAnswer(w)
  PROVE  AnswersInv'
<1> DEFINE r == requests[w]
           k == Answers!KeyOf(r)
           row == [answer |-> r.answer, left |-> TtlDays]
           t == Stepping(r, "answered")
<1>1. r.step = "save" /\ UNCHANGED data
      /\ cache' = [l \in DOMAIN cache \cup {k} |-> IF l = k THEN row ELSE cache[l]]
      /\ requests' = [requests EXCEPT ![w] = t]
  BY DEF Answers!SaveAnswer, Stepping, AnswersInv, Answers!TypeOK
<1>2. r \in Answers!Request /\ Fits(r)
  BY <1>1, RequestRewritten
<1>3. /\ k \in Answers!Key /\ k.fund = Answers!KeyFund(r.funds)
      /\ r.answer.about = r.funds /\ Cardinality(r.funds) <= 1 /\ ~r.chat
  BY <1>1, <1>2, KeyTyped DEF Fits
<1>4. row \in Answers!Row /\ row.answer = r.answer
  BY <1>2 DEF Answers!Row, Answers!Request, Answers!ConstantsAssumption
<1>5. /\ k.fund = NoFund => r.answer.about = {}
      /\ k.fund # NoFund => r.answer.about = {k.fund}
  <2>1. r.funds \in SUBSET Funds
    BY <1>2 DEF Answers!Request
  <2>2. Cardinality(r.funds) < 2
    BY <1>3, <2>1, KeyFundFacts
  <2>3. QED
    BY <1>3, <2>1, <2>2, KeyFundFacts
<1>6. t = [step |-> "answered", chat |-> r.chat, message |-> r.message, funds |-> r.funds,
           alone |-> r.alone, context |-> r.context, answer |-> r.answer, cached |-> r.cached]
  BY <1>2, RequestChanged
<1>7. t \in Answers!Request
  BY <1>2, <1>6 DEF Answers!Request, Answers!Waiting
<1>8. Fits(t)
  BY <1>3, <1>6 DEF Fits, ServedWell
<1> HIDE DEF k, row, t
<1>9. /\ DOMAIN cache' = {k} \cup DOMAIN cache
      /\ cache' \in [DOMAIN cache' -> Answers!Row]
      /\ cache'[k] = row /\ \A l \in DOMAIN cache \ {k} : cache'[l] = cache[l]
  BY <1>1, <1>4 DEF AnswersInv, Answers!TypeOK
<1>10. /\ requests' \in [Workers -> {Answers!Idle} \cup Answers!Request] /\ requests'[w] = t
       /\ \A v \in Workers \ {w} : requests'[v] = requests[v]
  BY <1>1, <1>7 DEF AnswersInv, Answers!TypeOK
<1>11. Answers!TypeOK'
  BY <1>1, <1>3, <1>9, <1>10 DEF AnswersInv, Answers!TypeOK
<1>12. RowsFit'
  BY <1>4, <1>5, <1>9 DEF AnswersInv, RowsFit
<1>13. \A v \in Workers : Fits(requests[v])'
  BY <1>8, <1>10 DEF AnswersInv, Fits, ServedWell
<1>14. QED
  BY <1>11, <1>12, <1>13 DEF AnswersInv

LEMMA ChangeDataStep ==
  ASSUME Answers!ConstantsAssumption, AnswersInv, NEW f \in Funds, Answers!ChangeData(f)
  PROVE  AnswersInv'
<1>1. data' \in [Funds -> Answers!Version]
  BY DEF Answers!ChangeData, AnswersInv, Answers!TypeOK, Answers!Version,
     Answers!ConstantsAssumption
<1>2. UNCHANGED <<cache, requests>>
  BY DEF Answers!ChangeData
<1>3. QED
  BY <1>1, <1>2 DEF AnswersInv, Answers!TypeOK, RowsFit, Fits, ServedWell

\* A day ages the rows and drops the expired ones.
LEMMA NextDayStep ==
  ASSUME Answers!ConstantsAssumption, AnswersInv, Answers!NextDay
  PROVE  AnswersInv'
<1>1. UNCHANGED <<data, requests>>
  BY DEF Answers!NextDay
<1>2. /\ DOMAIN cache' \subseteq DOMAIN cache
      /\ cache' = [k \in DOMAIN cache' |-> [cache[k] EXCEPT !.left = @ - 1]]
      /\ \A k \in DOMAIN cache' : cache[k].left > 1
  BY DEF Answers!NextDay
<1>3. ASSUME NEW row \in Answers!Row, row.left > 1
      PROVE  LET aged == [row EXCEPT !.left = @ - 1] IN
             aged \in Answers!Row /\ aged.answer = row.answer
  BY <1>3 DEF Answers!Row, Answers!ConstantsAssumption
<1>4. \A k \in DOMAIN cache' : cache'[k] \in Answers!Row /\ cache'[k].answer = cache[k].answer
  BY <1>2, <1>3 DEF AnswersInv, Answers!TypeOK
<1>5. Answers!TypeOK'
  BY <1>1, <1>2, <1>4 DEF AnswersInv, Answers!TypeOK
<1>6. RowsFit'
  BY <1>2, <1>4 DEF AnswersInv, RowsFit
<1>7. \A v \in Workers : Fits(requests[v])'
  BY <1>1 DEF AnswersInv, Fits, ServedWell
<1>8. QED
  BY <1>5, <1>6, <1>7 DEF AnswersInv

-----------------------------------------------------------------------------
LEMMA AnswersActionStep ==
  ASSUME Answers!ConstantsAssumption, AnswersInv, NEW w \in Workers, Answers!Step(w)
  PROVE  AnswersInv'
<1>1. CASE Answers!CacheHit(w)
  BY <1>1, CacheHitStep
<1>2. CASE Answers!CacheMiss(w)
  BY <1>2, CacheMissStep
<1>3. CASE Answers!BuildContext(w)
  BY <1>3, BuildContextStep
<1>4. CASE Answers!AnswerFromTemplate(w)
  BY <1>4, AnsweredStep DEF Answers!AnswerFromTemplate, Answers!Sources
<1>5. CASE Answers!AnswerFromModel(w)
  BY <1>5, AnsweredStep DEF Answers!AnswerFromModel, Answers!Sources
<1>6. CASE Answers!Unavailable(w)
  BY <1>6, IdleStep DEF Answers!Unavailable
<1>7. CASE Answers!SaveAnswer(w)
  BY <1>7, SaveAnswerStep
<1>8. CASE Answers!SaveFails(w)
  BY <1>8, IdleStep DEF Answers!SaveFails
<1>9. CASE Answers!Respond(w)
  BY <1>9, IdleStep DEF Answers!Respond
<1>10. QED
  BY <1>1, <1>2, <1>3, <1>4, <1>5, <1>6, <1>7, <1>8, <1>9 DEF Answers!Step

LEMMA AnswersStart == ASSUME Answers!ConstantsAssumption, Answers!Init PROVE AnswersInv
<1>1. Answers!TypeOK
  BY DEF Answers!Init, Answers!TypeOK
<1>2. RowsFit /\ \A w \in Workers : Fits(requests[w])
  BY DEF Answers!Init, RowsFit, Fits, Answers!Idle
<1>3. QED
  BY <1>1, <1>2 DEF AnswersInv

LEMMA AnswersStep ==
  ASSUME Answers!ConstantsAssumption, AnswersInv, [Answers!Next]_(Answers!vars)
  PROVE  AnswersInv'
<1>1. CASE \E w \in Workers : Answers!Start(w)
  BY <1>1, StartStep
<1>2. CASE \E w \in Workers : Answers!Step(w)
  BY <1>2, AnswersActionStep
<1>3. CASE \E f \in Funds : Answers!ChangeData(f)
  BY <1>3, ChangeDataStep
<1>4. CASE Answers!NextDay
  BY <1>4, NextDayStep
<1>5. CASE UNCHANGED Answers!vars
  BY <1>5 DEF Answers!vars, AnswersInv, Answers!TypeOK, RowsFit, Fits, ServedWell
<1>6. QED
  BY <1>1, <1>2, <1>3, <1>4, <1>5 DEF Answers!Next

LEMMA AnswersInvariance == ASSUME Answers!ConstantsAssumption PROVE Answers!Spec => []AnswersInv
<1>1. Answers!Init => AnswersInv
  BY AnswersStart
<1>2. AnswersInv /\ [Answers!Next]_(Answers!vars) => AnswersInv'
  BY AnswersStep
<1>3. QED
  BY <1>1, <1>2, PTL DEF Answers!Spec

\* Requests, rows and the versions of the funds keep their types, in every
\* state the service reaches.
THEOREM AnswersTypeSafe == ASSUME Answers!ConstantsAssumption PROVE Answers!Spec => []Answers!TypeOK
<1>1. AnswersInv => Answers!TypeOK
  BY DEF AnswersInv
<1>2. QED
  BY <1>1, AnswersInvariance, PTL

\* An answer served from the response cache was given about exactly the funds
\* of the message, except that a first chat message naming several funds may be
\* served an explanation given about none.
THEOREM AnswersFromCacheFit ==
  ASSUME Answers!ConstantsAssumption PROVE Answers!Spec => []Answers!CachedAnswerFits
<1>1. ASSUME AnswersInv PROVE Answers!CachedAnswerFits
  <2>1. SUFFICES ASSUME NEW w \in Workers, requests[w].step = "answered", requests[w].cached
                 PROVE  ServedWell(requests[w])
    BY SizesInAnswers DEF Answers!CachedAnswerFits, ServedWell
  <2>2. QED
    BY <1>1, <2>1 DEF AnswersInv, Fits
<1>2. QED
  BY <1>1, AnswersInvariance, PTL

-----------------------------------------------------------------------------
(* What was built from older data fades from the cache                     *)

Older(about, context) == \E f \in about : context[f] # data[f]

\* A request about to answer from older data, or to save such an answer.
Carries(r) ==
  \/ r.step = "generate" /\ Older(r.funds, r.context)
  \/ r.step = "save" /\ Older(r.answer.about, r.answer.context)

\* A stale row was there with no fewer days left, and more if only a day has passed, or a
\* request has just saved what it carried.
StaleOf(k) ==
  \/ /\ k \in DOMAIN cache /\ Answers!Stale(cache[k])
     /\ cache'[k].left <= cache[k].left
     /\ requests' = requests => cache'[k].left < cache[k].left
  \/ \E w \in Workers : Carries(requests[w]) /\ ~Carries(requests[w])'

Fades ==
  data' = data =>
    /\ \A w \in Workers : Carries(requests[w])' => Carries(requests[w])
    /\ \A k \in DOMAIN cache' : Answers!Stale(cache[k])' => StaleOf(k)

\* When the funds do not change, no row becomes stale but by what a request carried, no
\* request comes to carry any more, and stale rows run out of days.
StaleAnswersFade == [][Fades]_(Answers!vars)

\* A step of one request that leaves the cache alone.
LEMMA FadingMove ==
  ASSUME AnswersInv, NEW w \in Workers, NEW t, requests' = [requests EXCEPT ![w] = t],
         UNCHANGED <<data, cache>>, Carries(t) => Carries(requests[w])
  PROVE  [Fades]_(Answers!vars)
<1>1. /\ requests'[w] = t
      /\ \A v \in Workers \ {w} : requests'[v] = requests[v]
  BY DEF AnswersInv, Answers!TypeOK
<1>2. \A v \in Workers : Carries(requests[v])' => Carries(requests[v])
  <2>1. ASSUME NEW v \in Workers, Carries(requests[v])' PROVE Carries(requests[v])
    <3>1. CASE v = w
      BY <1>1, <2>1, <3>1 DEF Carries, Older
    <3>2. CASE v # w
      BY <1>1, <2>1, <3>2 DEF Carries, Older
    <3>3. QED
      BY <3>1, <3>2
  <2>2. QED
    BY <2>1
<1>3. CASE requests' = requests
  BY <1>3 DEF Answers!vars
<1>4. CASE requests' # requests
  <2>1. ASSUME NEW k \in DOMAIN cache', Answers!Stale(cache[k])' PROVE StaleOf(k)
    <3>1. k \in DOMAIN cache /\ Answers!Stale(cache[k]) /\ cache'[k] = cache[k]
      BY <2>1 DEF Answers!Stale
    <3>2. cache[k].left \in Int
      BY <3>1 DEF AnswersInv, Answers!TypeOK, Answers!Row
    <3>3. QED
      BY <1>4, <3>1, <3>2 DEF StaleOf
  <2>2. QED
    BY <1>2, <2>1 DEF Fades
<1>5. QED
  BY <1>3, <1>4

LEMMA FadingIdle ==
  ASSUME AnswersInv, NEW w \in Workers, requests' = [requests EXCEPT ![w] = Answers!Idle],
         UNCHANGED <<data, cache>>
  PROVE  [Fades]_(Answers!vars)
<1>1. ~Carries(Answers!Idle)
  BY DEF Carries, Answers!Idle
<1>2. QED
  BY <1>1, FadingMove

LEMMA FadingStart ==
  ASSUME AnswersInv, NEW w \in Workers, Answers!Start(w)
  PROVE  [Fades]_(Answers!vars)
<1>1. PICK message \in Messages, funds \in SUBSET Funds, chat \in BOOLEAN, alone \in BOOLEAN :
        /\ requests' = [requests EXCEPT ![w] = Answers!Started(message, funds, chat, alone)]
        /\ UNCHANGED <<data, cache>>
  BY DEF Answers!Start, Answers!StartExplain, Answers!StartChat
<1>2. ~Carries(Answers!Started(message, funds, chat, alone))
  BY DEF Carries, Answers!Started
<1>3. QED
  BY <1>1, <1>2, FadingMove

\* What is built now is not older than the data.
LEMMA FadingBuild ==
  ASSUME AnswersInv, NEW w \in Workers, Answers!BuildContext(w)
  PROVE  [Fades]_(Answers!vars)
<1> DEFINE r == requests[w]
           context == [f \in Funds |-> IF f \in r.funds THEN data[f] ELSE 0]
           t == Building(r, context)
<1>1. r.step = "build" /\ UNCHANGED <<data, cache>>
      /\ requests' = [requests EXCEPT ![w] = t]
  BY DEF Answers!BuildContext, Building, AnswersInv, Answers!TypeOK
<1>2. r \in Answers!Request
  BY <1>1, RequestRewritten
<1>3. \A f \in r.funds : context[f] = data[f]
  BY <1>2 DEF Answers!Request
<1> HIDE DEF context
<1>4. t.step = "generate" /\ t.funds = r.funds /\ t.context = context
  BY <1>2, RequestChanged
<1> HIDE DEF t
<1>5. ~Carries(t)
  BY <1>3, <1>4 DEF Carries, Older
<1>6. QED
  BY <1>1, <1>5, FadingMove

\* An answer is as old as what it was built from.
LEMMA FadingAnswer ==
  ASSUME AnswersInv, NEW w \in Workers, NEW source \in Answers!Sources,
         requests[w].step = "generate", UNCHANGED <<data, cache>>,
         requests' = [requests EXCEPT ![w] = Answers!Answered(requests[w], source)]
  PROVE  [Fades]_(Answers!vars)
<1> DEFINE r == requests[w]
           answer == [source |-> source, about |-> r.funds, context |-> r.context]
           step == IF r.chat THEN "answered" ELSE "save"
           t == Answering(r, step, answer)
<1>1. r \in Answers!Request
  BY RequestRewritten
<1>2. requests' = [requests EXCEPT ![w] = t]
  BY DEF Answers!Answered, Answering
<1>3. /\ answer.about = r.funds /\ answer.context = r.context
      /\ step \in {"answered", "save"}
  OBVIOUS
<1> HIDE DEF answer, step
<1>4. t.step = step /\ t.answer = answer
  BY <1>1, RequestChanged
<1> HIDE DEF t
<1>5. Carries(t) => Carries(r)
  BY <1>3, <1>4 DEF Carries, Older
<1>6. QED
  BY <1>2, <1>5, FadingMove

\* A row that is saved stale is what its request carried.
LEMMA FadingSave ==
  ASSUME AnswersInv, NEW w \in Workers, Answers!SaveAnswer(w)
  PROVE  [Fades]_(Answers!vars)
<1> DEFINE r == requests[w]
           k == Answers!KeyOf(r)
           row == [answer |-> r.answer, left |-> TtlDays]
           t == Stepping(r, "answered")
<1>1. r.step = "save" /\ UNCHANGED data
      /\ cache' = [l \in DOMAIN cache \cup {k} |-> IF l = k THEN row ELSE cache[l]]
      /\ requests' = [requests EXCEPT ![w] = t]
  BY DEF Answers!SaveAnswer, Stepping, AnswersInv, Answers!TypeOK
<1>2. r \in Answers!Request
  BY <1>1, RequestRewritten
<1>3. t.step = "answered"
  BY <1>2, RequestChanged
<1>4. row.answer = r.answer
  OBVIOUS
<1> HIDE DEF k, row, t
<1>5. /\ requests'[w] = t /\ \A v \in Workers \ {w} : requests'[v] = requests[v]
      /\ requests' # requests
  BY <1>1, <1>3 DEF AnswersInv, Answers!TypeOK
<1>6. ~Carries(requests[w])'
  BY <1>3, <1>5 DEF Carries
<1>7. \A v \in Workers : Carries(requests[v])' => Carries(requests[v])
  <2>1. ASSUME NEW v \in Workers, Carries(requests[v])' PROVE Carries(requests[v])
    BY <1>1, <1>5, <1>6, <2>1 DEF Carries, Older
  <2>2. QED
    BY <2>1
<1>8. ASSUME NEW l \in DOMAIN cache', Answers!Stale(cache[l])' PROVE StaleOf(l)
  <2>1. CASE l = k
    <3>1. cache'[l] = row
      BY <1>1, <2>1
    <3>2. Carries(r)
      BY <1>1, <1>4, <1>8, <3>1 DEF Carries, Older, Answers!Stale
    <3>3. QED
      BY <1>6, <3>2 DEF StaleOf
  <2>2. CASE l # k
    <3>1. l \in DOMAIN cache /\ cache'[l] = cache[l]
      BY <1>1, <1>8, <2>2
    <3>2. Answers!Stale(cache[l])
      BY <1>1, <1>8, <3>1 DEF Answers!Stale
    <3>3. cache[l].left \in Int
      BY <3>1 DEF AnswersInv, Answers!TypeOK, Answers!Row
    <3>4. QED
      BY <1>5, <3>1, <3>2, <3>3 DEF StaleOf
  <2>3. QED
    BY <2>1, <2>2
<1>9. QED
  BY <1>7, <1>8 DEF Fades

\* A day takes a day from every row.
LEMMA FadingDay ==
  ASSUME AnswersInv, Answers!NextDay
  PROVE  [Fades]_(Answers!vars)
<1>1. UNCHANGED <<data, requests>>
  BY DEF Answers!NextDay
<1>2. /\ DOMAIN cache' \subseteq DOMAIN cache
      /\ cache' = [k \in DOMAIN cache' |-> [cache[k] EXCEPT !.left = @ - 1]]
  BY DEF Answers!NextDay
<1>3. ASSUME NEW row \in Answers!Row
      PROVE  LET aged == [row EXCEPT !.left = @ - 1] IN
             aged.answer = row.answer /\ aged.left < row.left /\ aged.left <= row.left
  BY <1>3 DEF Answers!Row
<1>4. ASSUME NEW k \in DOMAIN cache', Answers!Stale(cache[k])' PROVE StaleOf(k)
  <2>1. /\ k \in DOMAIN cache /\ cache'[k].answer = cache[k].answer
        /\ cache'[k].left < cache[k].left /\ cache'[k].left <= cache[k].left
    BY <1>2, <1>3 DEF AnswersInv, Answers!TypeOK
  <2>2. Answers!Stale(cache[k])
    BY <1>1, <1>4, <2>1 DEF Answers!Stale
  <2>3. QED
    BY <2>1, <2>2 DEF StaleOf
<1>5. \A w \in Workers : Carries(requests[w])' => Carries(requests[w])
  BY <1>1 DEF Carries, Older
<1>6. QED
  BY <1>4, <1>5 DEF Fades

LEMMA FadingOthers ==
  ASSUME AnswersInv, NEW w \in Workers, Answers!CacheHit(w) \/ Answers!CacheMiss(w)
  PROVE  [Fades]_(Answers!vars)
<1> DEFINE r == requests[w]
<1>1. r.step = "lookup" /\ UNCHANGED <<data, cache>>
  BY DEF Answers!CacheHit, Answers!CacheMiss, Answers!RowAfterHit, AnswersInv, Answers!TypeOK
<1>2. r \in Answers!Request
  BY <1>1, RequestRewritten
<1>3. PICK t : requests' = [requests EXCEPT ![w] = t] /\ t.step \in {"answered", "build"}
  <2>1. CASE Answers!CacheMiss(w)
    <3>1. requests' = [requests EXCEPT ![w] = Stepping(r, "build")]
      BY <2>1 DEF Answers!CacheMiss, Stepping, AnswersInv, Answers!TypeOK
    <3>2. Stepping(r, "build").step = "build"
      BY <1>2, RequestChanged
    <3>3. QED
      BY <3>1, <3>2
  <2>2. CASE Answers!CacheHit(w)
    <3> DEFINE found == cache[Answers!KeyOf(r)].answer
    <3>1. requests' = [requests EXCEPT ![w] = [r EXCEPT !.step = "answered", !.cached = TRUE,
                                                        !.answer = found]]
      BY <2>2 DEF Answers!CacheHit, AnswersInv, Answers!TypeOK
    <3> HIDE DEF found
    <3>2. requests' = [requests EXCEPT ![w] = Hitting(r, TRUE, found)]
      BY <3>1 DEF Hitting
    <3>3. ASSUME NEW c, NEW b PROVE Hitting(r, c, b).step = "answered"
      <4>1. Hitting(r, c, b) =
              [step |-> "answered", chat |-> r.chat, message |-> r.message, funds |-> r.funds,
               alone |-> r.alone, context |-> r.context, answer |-> b, cached |-> c]
        BY <1>2, RequestChanged
      <4>2. QED
        BY <4>1
    <3>4. Hitting(r, TRUE, found).step = "answered"
      BY ONLY <3>3
    <3>5. QED
      BY <3>2, <3>4
  <2>3. QED
    BY <2>1, <2>2
<1>4. ~Carries(t)
  BY <1>3 DEF Carries
<1>5. QED
  BY <1>1, <1>3, <1>4, FadingMove

LEMMA FadingStep ==
  ASSUME AnswersInv, [Answers!Next]_(Answers!vars)
  PROVE  [Fades]_(Answers!vars)
<1>1. CASE \E w \in Workers : Answers!Start(w)
  BY <1>1, FadingStart
<1>2. ASSUME NEW w \in Workers, Answers!Step(w) PROVE [Fades]_(Answers!vars)
  <2>1. CASE Answers!CacheHit(w) \/ Answers!CacheMiss(w)
    BY <2>1, FadingOthers
  <2>2. CASE Answers!BuildContext(w)
    BY <2>2, FadingBuild
  <2>3. CASE Answers!AnswerFromTemplate(w) \/ Answers!AnswerFromModel(w)
    BY <2>3, FadingAnswer DEF Answers!AnswerFromTemplate, Answers!AnswerFromModel, Answers!Sources
  <2>4. CASE Answers!Unavailable(w) \/ Answers!SaveFails(w) \/ Answers!Respond(w)
    BY <2>4, FadingIdle DEF Answers!Unavailable, Answers!SaveFails, Answers!Respond
  <2>5. CASE Answers!SaveAnswer(w)
    BY <2>5, FadingSave
  <2>6. QED
    BY <1>2, <2>1, <2>2, <2>3, <2>4, <2>5 DEF Answers!Step
<1>3. CASE \E f \in Funds : Answers!ChangeData(f)
  <2>1. PICK f \in Funds : Answers!ChangeData(f)
    BY <1>3
  <2>2. data[f] \in Int /\ data'[f] = data[f] + 1
    BY <2>1 DEF Answers!ChangeData, AnswersInv, Answers!TypeOK, Answers!Version
  <2>3. QED
    BY <2>2 DEF Fades
<1>4. CASE Answers!NextDay
  BY <1>4, FadingDay
<1>5. CASE UNCHANGED Answers!vars
  BY <1>5
<1>6. QED
  BY <1>1, <1>2, <1>3, <1>4, <1>5 DEF Answers!Next

\* While sync and scoring leave the funds alone, what was built from their older data
\* runs out: a stale row of assistant_response_cache loses its days, is never renewed by
\* being asked for, and is added only by a request that already carried the older data.
THEOREM StaleRowsFade ==
  ASSUME Answers!ConstantsAssumption PROVE Answers!Spec => StaleAnswersFade
<1>1. AnswersInv /\ [Answers!Next]_(Answers!vars) => [Fades]_(Answers!vars)
  BY FadingStep
<1>2. QED
  BY <1>1, AnswersInvariance, PTL DEF Answers!Spec, StaleAnswersFade

-----------------------------------------------------------------------------
(* What a model's reply becomes *)

\* A reply that is made of two models' and of the reason to ask the second.
MadeOf(made, primary, second, reason) ==
  LET from == IF reason # None /\ second # None THEN second ELSE primary
  IN  made = [primary |-> primary, second |-> second, reason |-> reason, from |-> from,
              text |-> IF from = None THEN "unavailable" ELSE Topics!Sanitized(from)]

ReplyMade ==
  /\ talkMessage # None
  /\ \E primary, second \in Replies \cup {None} :
       MadeOf(talkReply, primary, second, Topics!FallbackReason(primary))

TopicsInv ==
  /\ Topics!TypeOK
  /\ talkAnswer # None => talkMessage # None
  /\ talkReply # None => ReplyMade

LEMMA RetrievedAreTopics ==
  ASSUME NEW terms, NEW mentions, NEW intent
  PROVE  Topics!Retrieve(terms, mentions, intent) \subseteq Topics!Topics
BY Zenon DEF Topics!Retrieve, Topics!Topics

LEMMA IntentsAreFour ==
  ASSUME NEW text, NEW withFund
  PROVE  Topics!Classify(text, withFund) \in {"compare", "explain_score", "explain_term", "general"}
BY Zenon DEF Topics!Classify

LEMMA MessagesAreAsked ==
  ASSUME Topics!ConstantsAssumption, TopicsInv, Topics!Ask
  PROVE  TopicsInv'
<1> DEFINE texts == Topics!Messages \cup Topics!ChunkKeywords
<1>1. PICK text \in texts, withFund \in BOOLEAN, mentions \in Mentions \cup {{}} :
        LET intent == Topics!Classify(text, withFund)
            term == IF withFund /\ Topics!SupportsTemplate(intent) THEN None ELSE Topics!Match(text)
        IN  /\ talkMessage' = [text |-> text, withFund |-> withFund]
            /\ talkAnswer' = [intent |-> intent,
                          route |-> IF Topics!IsForbiddenInput(text) THEN "refused"
                                    ELSE IF term # None THEN "glossary" ELSE "built",
                          term |-> term,
                          documents |-> IF text \in Topics!ChunkKeywords
                                        THEN Topics!Retrieve(<<text>>, mentions, intent) ELSE {}]
  BY Zenon DEF Topics!Ask
<1>2. talkMessage = None /\ talkReply' = talkReply
  BY DEF Topics!Ask
<1>3. talkReply = None
  BY <1>2 DEF TopicsInv, ReplyMade
<1>4. /\ talkMessage'.text \in texts /\ talkMessage'.withFund \in BOOLEAN
      /\ talkMessage' \in [text : texts, withFund : BOOLEAN]
  <2> HIDE DEF texts
  <2>1. QED
    BY <1>1
<1>5. talkMessage' # None
  BY <1>4 DEF Topics!ConstantsAssumption
<1>6. /\ talkAnswer'.intent = Topics!Classify(text, withFund)
      /\ talkAnswer'.route \in {"refused", "glossary", "built"}
      /\ \/ talkAnswer'.documents = {}
         \/ talkAnswer'.documents =
              Topics!Retrieve(<<text>>, mentions, Topics!Classify(text, withFund))
  BY <1>1
<1>7. /\ talkAnswer'.intent \in {"compare", "explain_score", "explain_term", "general"}
      /\ talkAnswer'.documents \subseteq Topics!Topics
  BY <1>6, IntentsAreFour, RetrievedAreTopics
<1>8. QED
  BY <1>2, <1>3, <1>4, <1>5, <1>6, <1>7 DEF TopicsInv, Topics!TypeOK

LEMMA ReplyMadeStays ==
  ASSUME ReplyMade, talkMessage' = talkMessage, talkAnswer' = talkAnswer, talkReply' = talkReply
  PROVE  ReplyMade'
<1>1. PICK primary, second \in Replies \cup {None} :
        MadeOf(talkReply, primary, second, Topics!FallbackReason(primary))
  BY DEF ReplyMade
<1>2. Topics!FallbackReason(primary)' = Topics!FallbackReason(primary)
  BY DEF Topics!FallbackReason, Topics!Confidence, Topics!CitesEnough
<1>3. MadeOf(talkReply', primary, second, Topics!FallbackReason(primary)')
  BY <1>1, <1>2
<1>4. talkMessage' # None
  BY DEF ReplyMade
<1>5. QED
  BY <1>3, <1>4 DEF ReplyMade

LEMMA RepliesAreMade ==
  ASSUME Topics!ConstantsAssumption, TopicsInv, Topics!Generate
  PROVE  TopicsInv'
<1>1. talkMessage' = talkMessage /\ talkAnswer' = talkAnswer /\ talkAnswer # None
  BY DEF Topics!Generate
<1>2. PICK primary, second \in Replies \cup {None} :
        MadeOf(talkReply', primary, second, Topics!FallbackReason(primary))
  BY DEF Topics!Generate, MadeOf
<1>3. Topics!FallbackReason(primary)' = Topics!FallbackReason(primary)
  BY <1>1 DEF Topics!FallbackReason, Topics!Confidence, Topics!CitesEnough
<1>4. ReplyMade'
  <2>1. talkMessage' # None
    BY <1>1 DEF TopicsInv
  <2>2. MadeOf(talkReply', primary, second, Topics!FallbackReason(primary)')
    BY <1>2, <1>3
  <2>3. QED
    BY <2>1, <2>2 DEF ReplyMade
<1>5. talkReply'.text \in {"replaced", "reply", "cut", "unavailable"}
  BY <1>2 DEF MadeOf, Topics!Sanitized
<1>6. Topics!TypeOK'
  BY <1>1, <1>5 DEF TopicsInv, Topics!TypeOK
<1>7. QED
  BY <1>1, <1>4, <1>6 DEF TopicsInv

LEMMA TopicsInvariance == ASSUME Topics!ConstantsAssumption PROVE Topics!Spec => []TopicsInv
<1>1. Topics!Init => TopicsInv
  BY DEF Topics!Init, TopicsInv, Topics!TypeOK
<1>2. ASSUME TopicsInv, UNCHANGED Topics!vars PROVE TopicsInv'
  <2>1. talkMessage' = talkMessage /\ talkAnswer' = talkAnswer /\ talkReply' = talkReply
    BY <1>2 DEF Topics!vars
  <2>2. ReplyMade => ReplyMade'
    BY <2>1, ReplyMadeStays
  <2>3. QED
    BY <1>2, <2>1, <2>2 DEF TopicsInv, Topics!TypeOK
<1>3. TopicsInv /\ [Topics!Next]_Topics!vars => TopicsInv'
  BY <1>2, MessagesAreAsked, RepliesAreMade DEF Topics!Next
<1>4. QED
  BY <1>1, <1>3, PTL DEF Topics!Spec

\* A message to SORA is answered in one of three ways, with documents there are, and
\* what models reply is shown whole, cut, replaced or not at all.
THEOREM TopicsTypeSafe == ASSUME Topics!ConstantsAssumption PROVE Topics!Spec => []Topics!TypeOK
<1>1. TopicsInv => Topics!TypeOK
  BY DEF TopicsInv
<1>2. QED
  BY <1>1, TopicsInvariance, PTL

\* Whatever two models reply, and for any threshold between those of a reply that is
\* only long enough and of one that is neither that nor cites its fund: no advice is
\* shown, nor half a reply while another model has a whole one, and the first model's
\* is accepted exactly if the guardrails leave it whole and it cites its fund or has
\* twenty letters.
THEOREM RepliesHold ==
  ASSUME Topics!ConstantsAssumption, Threshold \in 41..65
  PROVE  Topics!Spec => []Topics!RepliesFit
<1>1. ASSUME TopicsInv PROVE Topics!RepliesFit
  <2>1. SUFFICES ASSUME talkReply # None PROVE Topics!RepliesFit
    BY DEF Topics!RepliesFit
  <2>2. PICK primary, second \in Replies \cup {None} :
          MadeOf(talkReply, primary, second, Topics!FallbackReason(primary))
    BY <1>1, <2>1 DEF TopicsInv, ReplyMade
  <2> DEFINE reason == Topics!FallbackReason(primary)
             from == IF reason # None /\ second # None THEN second ELSE primary
  <2>3. /\ talkReply.primary = primary /\ talkReply.second = second /\ talkReply.reason = reason
        /\ talkReply.from = from
        /\ talkReply.text = IF from = None THEN "unavailable" ELSE Topics!Sanitized(from)
    BY <2>2 DEF MadeOf
  <2>4. \A r \in Replies : r.length \in Nat /\ r.advice \in BOOLEAN /\ r # None
    BY DEF Topics!ConstantsAssumption
  <2>5. ASSUME NEW r \in Replies
        PROVE  /\ Topics!Sanitized(r) = "reply" <=> ~ r.advice /\ r.length # 0 /\ r.length <= 2000
               /\ Topics!Confidence(r) >= Threshold <=> Topics!CitesEnough(r) \/ r.length >= 20
    <3>1. Topics!Sanitized(r) = "reply" <=> ~ r.advice /\ r.length # 0 /\ r.length <= 2000
      BY DEF Topics!Sanitized
    <3>2. Topics!Confidence(r) >= Threshold <=> Topics!CitesEnough(r) \/ r.length >= 20
      <4> HIDE DEF Topics!CitesEnough
      <4>1. Threshold \in Int /\ 41 <= Threshold /\ Threshold <= 65
        OBVIOUS
      <4>2. QED
        BY <2>4, <4>1 DEF Topics!Confidence
    <3>3. QED
      BY <3>1, <3>2
  <2>6. /\ primary = None => reason = "error"
        /\ primary # None =>
             /\ Topics!Sanitized(primary) # "reply" => reason = "guardrails"
             /\ (Topics!Sanitized(primary) = "reply" /\ ~ (Topics!CitesEnough(primary) \/ primary.length >= 20))
                  => reason = "low_confidence"
             /\ (Topics!Sanitized(primary) = "reply" /\ (Topics!CitesEnough(primary) \/ primary.length >= 20))
                  => reason = None
    <3>1. CASE primary = None
      BY <3>1 DEF Topics!FallbackReason
    <3>2. CASE primary # None
      <4>1. primary \in Replies
        BY <3>2
      <4>2. /\ Topics!Confidence(primary) \in Int
            /\ Topics!Confidence(primary) >= Threshold
                 <=> Topics!CitesEnough(primary) \/ primary.length >= 20
        BY <2>5, <4>1 DEF Topics!Confidence
      <4>3. Topics!Confidence(primary) < Threshold
              <=> ~ (Topics!CitesEnough(primary) \/ primary.length >= 20)
        BY <4>2
      <4>4. QED
        BY <3>2, <4>3 DEF Topics!FallbackReason
    <3>3. QED
      BY <3>1, <3>2
  <2>7. None \notin {"error", "guardrails", "low_confidence"}
    BY DEF Topics!ConstantsAssumption
  <2> HIDE DEF reason
  <2>8. /\ talkReply.text = "reply" => ~ talkReply.from.advice /\ talkReply.from.length <= 2000
        /\ talkReply.text = "unavailable" => (primary = None /\ second = None)
    <3>1. \A r \in Replies : Topics!Sanitized(r) # "unavailable"
      BY DEF Topics!Sanitized
    <3>2. from = None => (primary = None /\ second = None)
      BY <2>6, <2>7
    <3>3. from # None => from \in Replies
      OBVIOUS
    <3> HIDE DEF from
    <3>4. QED
      BY <2>3, <2>5, <3>1, <3>2, <3>3
  <2>9. ASSUME talkReply.text # "reply", NEW r \in {primary, second} \ {None}, Topics!Sanitized(r) = "reply"
        PROVE  r = primary /\ from = second
    <3>1. from # r
      BY <2>3, <2>9
    <3>2. r \in Replies
      BY <2>9
    <3>3. CASE r = primary
      BY <3>1, <3>3
    <3>4. CASE r = second /\ r # primary
      <4>1. from = primary
        BY <3>1, <3>4
      <4>2. reason = None
        BY <2>9, <3>4, <4>1
      <4>3. primary # None /\ Topics!Sanitized(primary) = "reply"
        BY <2>6, <2>7, <4>2
      <4>4. QED
        BY <2>3, <2>9, <4>1, <4>3
    <3>5. QED
      BY <2>9, <3>3, <3>4
  <2>10. (primary # None /\ reason = None) <=>
           /\ primary # None /\ Topics!Sanitized(primary) = "reply"
           /\ Topics!CitesEnough(primary) \/ primary.length >= 20
           /\ from = primary
    BY <2>6, <2>7
  <2>11. QED
    BY <2>3, <2>8, <2>9, <2>10 DEF Topics!RepliesFit
<1>2. QED
  BY <1>1, TopicsInvariance, PTL

================================================================================
