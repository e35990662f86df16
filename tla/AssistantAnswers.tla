-------------------------- MODULE AssistantAnswers --------------------------
(***************************************************************************)
(* How SORA answers a message: the layers of explain and chat (glossary,   *)
(* response cache, template, language model), and the cache of days-old    *)
(* explanations they share while sync and scoring change the funds.        *)
(*                                                                         *)
(* A message is its kind, what the intent classifier and the glossary make *)
(* of its text.  A fund is the version of its stored data, 0 before it is  *)
(* stored and 1 before it is scored, and an answer is the versions of the  *)
(* funds it was built from.                                                *)
(* An LLM call is one step: AssistantLlmBudget has its inside.  Forbidden  *)
(* messages end before anything is read and are left out.                  *)
(***************************************************************************)
EXTENDS Integers, FiniteSets

CONSTANTS Funds, Workers,
          Messages,          \* kinds of messages asked, a subset of MessageKinds
          InGlossary,        \* the kinds whose text holds a glossary keyword
          AssistantEnabled,  \* ASSISTANT_ENABLED
          TtlDays,           \* ASSISTANT_CACHE_TTL_DAYS
          NoFund,
          MaxVersion         \* bound on the changes of a fund's data

MessageKinds == {"compare", "score", "other"}

\* What the constants are taken to be; asserted where they get their values.
ConstantsAssumption ==
  /\ Messages \subseteq MessageKinds /\ InGlossary \subseteq MessageKinds
  /\ AssistantEnabled \in BOOLEAN
  /\ TtlDays \in Nat \ {0} /\ MaxVersion \in Nat
  /\ NoFund \notin Funds /\ IsFiniteSet(Funds)

VARIABLES data,     \* the version of every fund's stored data
          cache,    \* assistant_response_cache
          requests  \* the requests being answered

vars == <<data, cache, requests>>

Intents == {"compare", "explain_score", "general"}
Sources == {"glossary", "template", "llm"}
Version == 0..MaxVersion
Key == [intent : Intents, message : MessageKinds, fund : Funds \cup {NoFund}]

\* The funds an answer was asked about, and the versions it was built from.
Answer == [source : Sources, about : SUBSET Funds, context : [Funds -> Version]]
NoContext == [f \in Funds |-> 0]
NoAnswer == [source |-> "glossary", about |-> {}, context |-> NoContext]

\* A row of the cache: its answer and the days left until expiresAt.  An expired
\* row, which is never read and at most overwritten, is left out.
Row == [answer : Answer, left : 1..TtlDays]
Waiting == {"lookup", "build", "generate", "save", "answered"}
Request ==
  [step : Waiting, chat : BOOLEAN, message : MessageKinds, funds : SUBSET Funds,
   alone : BOOLEAN, context : [Funds -> Version], answer : Answer, cached : BOOLEAN]
Idle == [step |-> "none"]

TypeOK ==
  /\ data \in [Funds -> Version]
  /\ DOMAIN cache \subseteq Key /\ cache \in [DOMAIN cache -> Row]
  /\ requests \in [Workers -> {Idle} \cup Request]

Init ==
  /\ data \in [Funds -> Version]
  /\ cache = [k \in {} |-> NoAnswer]
  /\ requests = [w \in Workers |-> Idle]

-----------------------------------------------------------------------------
(* The pure decisions.                                                     *)

Classify(message, hasFund) ==
  CASE message = "compare" -> "compare"
    [] message = "score" /\ hasFund -> "explain_score"
    [] OTHER -> "general"

SupportsTemplate(intent) == intent \in {"explain_score", "compare"}

IntentOf(r) == Classify(r.message, r.funds # {})

\* A glossary term answers unless a template about the named funds may.
GlossaryAnswers(message, funds) ==
  /\ message \in InGlossary
  /\ ~(funds # {} /\ SupportsTemplate(Classify(message, funds # {})))

\* The fund of the key: chat names none when it names several.
KeyFund(funds) ==
  IF Cardinality(funds) = 1 THEN CHOOSE f \in funds : TRUE ELSE NoFund
KeyOfMessage(r) ==
  [intent |-> IntentOf(r), message |-> r.message, fund |-> NoFund]
KeyOf(r) ==
  [intent |-> IntentOf(r), message |-> r.message, fund |-> KeyFund(r.funds)]

\* explain always reads the cache and tries the template; chat only on a turn
\* without earlier messages.
Isolated(r) == ~r.chat \/ r.alone

Known(context) == {f \in Funds : context[f] # 0}

Scored(context) == {f \in Funds : context[f] > 1}

\* The score is explained of the one known fund, several known funds are compared.
TemplateBuilds(r) ==
  \/ /\ IntentOf(r) = "explain_score"
     /\ Cardinality(Known(r.context)) = 1 /\ Known(r.context) = Scored(r.context)
  \/ IntentOf(r) = "compare" /\ Cardinality(Known(r.context)) >= 2

-----------------------------------------------------------------------------
Started(message, funds, chat, alone) ==
  [step   |-> IF GlossaryAnswers(message, funds) THEN "answered" ELSE "lookup",
   chat   |-> chat, message |-> message, funds |-> funds, alone |-> alone,
   context |-> NoContext, answer |-> NoAnswer, cached |-> FALSE]

\* explain names at most one fund.
StartExplain(w, message, funds) ==
  /\ requests[w] = Idle
  /\ Cardinality(funds) <= 1
  /\ requests' = [requests EXCEPT ![w] = Started(message, funds, FALSE, FALSE)]
  /\ UNCHANGED <<data, cache>>

\* alone: the session has no earlier messages.
StartChat(w, message, funds, alone) ==
  /\ requests[w] = Idle
  /\ requests' = [requests EXCEPT ![w] = Started(message, funds, TRUE, alone)]
  /\ UNCHANGED <<data, cache>>

Stored(r) == KeyOf(r) \in DOMAIN cache

\* Reading a row leaves it alone.
RowRenewedByHit(row) == [row EXCEPT !.left = TtlDays]
RowSpentByHit(row) == [row EXCEPT !.left = @ - 1]
RowAfterHit(row) == row

CacheHit(w) ==
  LET r == requests[w] IN
  /\ r.step = "lookup"
  /\ Isolated(r) /\ Stored(r)
  /\ requests' = [requests EXCEPT ![w].step = "answered", ![w].cached = TRUE,
                                  ![w].answer = cache[KeyOf(r)].answer]
  /\ cache' = [cache EXCEPT ![KeyOf(r)] = RowAfterHit(@)]
  /\ UNCHANGED data

CacheMiss(w) ==
  LET r == requests[w] IN
  /\ r.step = "lookup"
  /\ ~(Isolated(r) /\ Stored(r))
  /\ requests' = [requests EXCEPT ![w].step = "build"]
  /\ UNCHANGED <<data, cache>>

BuildContext(w) ==
  LET r == requests[w] IN
  /\ r.step = "build"
  /\ requests' = [requests EXCEPT ![w].step = "generate",
       ![w].context = [f \in Funds |-> IF f \in r.funds THEN data[f] ELSE 0]]
  /\ UNCHANGED <<data, cache>>

\* explain saves its answer before it responds, chat does not.
Answered(r, source) ==
  [r EXCEPT !.answer = [source |-> source, about |-> r.funds, context |-> r.context],
            !.step = IF r.chat THEN "answered" ELSE "save"]

\* The template is tried first, the model only where it does not apply.
AnswerFromTemplate(w) ==
  LET r == requests[w] IN
  /\ r.step = "generate"
  /\ Isolated(r) /\ TemplateBuilds(r)
  /\ requests' = [requests EXCEPT ![w] = Answered(r, "template")]
  /\ UNCHANGED <<data, cache>>

AnswerFromModel(w) ==
  LET r == requests[w] IN
  /\ r.step = "generate"
  /\ ~(Isolated(r) /\ TemplateBuilds(r))
  /\ AssistantEnabled
  /\ requests' = [requests EXCEPT ![w] = Answered(r, "llm")]
  /\ UNCHANGED <<data, cache>>

\* SORA is disabled, the model fails or the guardrails refuse the answer.
Unavailable(w) ==
  LET r == requests[w] IN
  /\ r.step = "generate"
  /\ ~(Isolated(r) /\ TemplateBuilds(r))
  /\ requests' = [requests EXCEPT ![w] = Idle]
  /\ UNCHANGED <<data, cache>>

SaveAnswer(w) ==
  LET r == requests[w] IN
  /\ r.step = "save"
  /\ cache' = [k \in DOMAIN cache \cup {KeyOf(r)} |->
                 IF k = KeyOf(r) THEN [answer |-> r.answer, left |-> TtlDays] ELSE cache[k]]
  /\ requests' = [requests EXCEPT ![w].step = "answered"]
  /\ UNCHANGED data

\* A failed write of the cache fails the request that had its answer.
SaveFails(w) ==
  /\ requests[w].step = "save"
  /\ requests' = [requests EXCEPT ![w] = Idle]
  /\ UNCHANGED <<data, cache>>

Respond(w) ==
  /\ requests[w].step = "answered"
  /\ requests' = [requests EXCEPT ![w] = Idle]
  /\ UNCHANGED <<data, cache>>

\* A sync or a recalculation rewrites a fund's data, or stores the fund.
ChangeData(f) ==
  /\ data[f] < MaxVersion
  /\ data' = [data EXCEPT ![f] = @ + 1]
  /\ UNCHANGED <<cache, requests>>

NextDay ==
  /\ DOMAIN cache # {}
  /\ cache' = [k \in {k \in DOMAIN cache : cache[k].left > 1} |->
                 [cache[k] EXCEPT !.left = @ - 1]]
  /\ UNCHANGED <<data, requests>>

-----------------------------------------------------------------------------
Step(w) ==
  \/ CacheHit(w) \/ CacheMiss(w) \/ BuildContext(w)
  \/ AnswerFromTemplate(w) \/ AnswerFromModel(w) \/ Unavailable(w)
  \/ SaveAnswer(w) \/ SaveFails(w) \/ Respond(w)

Start(w) ==
  \E message \in Messages, funds \in SUBSET Funds :
    \/ StartExplain(w, message, funds)
    \/ \E alone \in BOOLEAN : StartChat(w, message, funds, alone)

Next ==
  \/ \E w \in Workers : Start(w) \/ Step(w)
  \/ \E f \in Funds : ChangeData(f)
  \/ NextDay

Fairness == WF_vars(NextDay) /\ \A w \in Workers : WF_vars(Step(w))
Spec == Init /\ [][Next]_vars
FairSpec == Spec /\ Fairness

-----------------------------------------------------------------------------
\* An answer served from the cache was given about exactly the funds the message
\* names, except that the first message of a chat that names several funds may
\* be served an explanation given about none.
CachedAnswerFits ==
  \A w \in Workers :
    LET r == requests[w] IN
      (r.step = "answered" /\ r.cached) =>
        \/ r.answer.about = r.funds
        \/ r.answer.about = {} /\ r.chat /\ Cardinality(r.funds) >= 2

Stale(row) == \E f \in row.answer.about : row.answer.context[f] # data[f]

\* When the funds stop changing, what was built from their older data leaves
\* the cache for good, however often it is asked for meanwhile.
EventuallyFreshAnswers ==
  <>[](\A k \in DOMAIN cache : ~Stale(cache[k]))
=============================================================================
