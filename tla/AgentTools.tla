------------------------------- MODULE AgentTools -------------------------------
(***************************************************************************)
(* One turn of SORA on the Python agent: the context built from the funds  *)
(* asked about, the POST to the agent, sent again when it may help, and    *)
(* the read-only tools its run calls back, each a request of its own,      *)
(* while the scores, the metadata and the visibility of the funds change.  *)
(* The glossary tool reads no fund and is left out.                        *)
(***************************************************************************)
EXTENDS Integers, Sequences, FiniteSets, FiniteSetsExt, Functions

CONSTANTS
  Known, Unknown, Malformed,  \* ISINs of funds, of no fund, and not of 12 letters
  Tables,      \* the funds a turn may find
  Profiles,    \* [benchmark, currency, vehicle] of a row; a benchmark may be None
  Scores,      \* Inversora scores
  Lists,       \* the sequences of ISINs a request or the model may give
  Configs,     \* the keys the two services may be started with
  MaxIsins,    \* assistantToolCompareRequestSchema
  Retries,     \* retries of the POST
  MaxCalls,    \* bound: tool calls of a run
  MaxWrites,   \* bound: changes of the funds
  None         \* null

VARIABLES
  rows,        \* the funds
  config,      \* the keys
  turn,        \* the turn
  told,        \* what the model of the current run is told, in order
  log          \* history: the changes of the funds, in order

vars == <<rows, config, turn, told, log>>

Row == [visible : BOOLEAN, score : Scores \cup {None}, breakdown : Scores \cup {None},
        profile : Profiles]

\* agent: NestJS has no key for the agent, the agent has none, theirs differ, or agree.
\* tools: the agent has no backend, its key is not NestJS's, or it is.
Config == [agent : {"none", "unset", "wrong", "right"}, tools : {"none", "wrong", "right"},
           openai : BOOLEAN]

ConstantsAssumption ==
  /\ IsFiniteSet(Known) /\ Tables \subseteq [Known -> Row] /\ Configs \subseteq Config
  /\ \A p \in Profiles : p.currency # None /\ p.vehicle # None
  /\ Known \cap (Unknown \cup Malformed) = {} /\ Unknown \cap Malformed = {}
  /\ Lists \subseteq Seq(Known \cup Unknown \cup Malformed)
  /\ MaxIsins \in Nat \ {0} /\ Retries \in Nat /\ MaxCalls \in Nat /\ MaxWrites \in Nat
  /\ None \notin Scores

TypeOK ==
  /\ rows \in [Known -> Row]
  /\ config \in Config
  /\ turn.step \in {"idle", "context", "sent", "running", "rereading", "done"}
  /\ turn.status \in {200, 503} /\ turn.attempt \in 0..Retries /\ turn.calls \in 0..MaxCalls
  /\ \A i \in DOMAIN told :
       /\ told[i].asked \in Seq(Known \cup Unknown) /\ told[i].fair \in BOOLEAN \cup {None}
       /\ told[i].score \in [DOMAIN told[i].score -> Scores \cup {None}]
       /\ told[i].profile \in [DOMAIN told[i].score -> Profiles]
       /\ DOMAIN told[i].score \subseteq Known /\ told[i].since <= told[i].at
  /\ Len(log) <= MaxWrites

Init ==
  /\ rows \in Tables
  /\ config \in Configs
  /\ turn = [step |-> "idle", asked |-> <<>>, compares |-> FALSE, attempt |-> 0, calls |-> 0,
             status |-> 200, read |-> None, since |-> 0]
  /\ told = <<>>
  /\ log = <<>>

-----------------------------------------------------------------------------
(* The reads                                                               *)

\* findByIsins: the funds of a list, in one statement.
Found(isins) == Range(isins) \cap Known

\* resolvePersistedInvesoraScore(..).score, and the same in snapshots and contexts.
ScoreOf(f) == IF rows[f].breakdown # None THEN rows[f].breakdown ELSE rows[f].score

Hidden(funds) == {f \in funds : ~ rows[f].visible}

\* Whether the values a field has among the funds, None aside, are at most one.
Homogeneous(funds, field) == Cardinality({rows[f].profile[field] : f \in funds} \ {None}) <= 1

\* evaluateComparisonFairness
IsFair(funds) ==
  Cardinality(funds) >= 2 => \A field \in {"benchmark", "currency", "vehicle"} : Homogeneous(funds, field)

\* What one answer tells of "funds", read between the changes "since" and "at" of the
\* log. ("hidden" is history, and so is the score of a verdict and the profile of a
\* breakdown: they are not told.)
NewFact(from, asked, funds, fair, since) ==
  [from |-> from, asked |-> asked, score |-> [f \in funds |-> ScoreOf(f)],
   profile |-> [f \in funds |-> rows[f].profile], fair |-> fair,
   hidden |-> Hidden(funds), since |-> since, at |-> Len(log)]

-----------------------------------------------------------------------------
(* NestJS                                                                  *)

Ask ==
  /\ turn.step = "idle"
  /\ \E isins \in Lists, compares \in BOOLEAN :
       /\ Range(isins) \cap Malformed = {}
       /\ turn' = [turn EXCEPT !.step = "context", !.asked = isins, !.compares = compares]
  /\ UNCHANGED <<rows, config, told, log>>

\* AssistantContextBuilderService.build does not ask whether a fund is visible.
BuildContext ==
  /\ turn.step = "context"
  /\ LET funds == Found(turn.asked)
         hints == Cardinality(funds) >= 2 /\ turn.compares
     IN  told' = IF funds = {} THEN <<>>
                 ELSE <<NewFact("context", turn.asked, funds,
                                IF hints THEN IsFair(funds) ELSE None, Len(log))>>
  /\ turn' = [turn EXCEPT !.step = IF config.agent = "none" THEN "done" ELSE "sent",
                          !.status = IF config.agent = "none" THEN 503 ELSE 200]
  /\ UNCHANGED <<rows, config, log>>

Retryable(status) == status >= 500 \/ status = 429

\* A new attempt starts from the context alone, which is told first if any fund was found.
Context == IF told # <<>> /\ told[1].from = "context" THEN <<told[1]>> ELSE <<>>
AttemptFails(status) ==
  /\ turn' = IF Retryable(status) /\ turn.attempt < Retries
             THEN [turn EXCEPT !.step = "sent", !.attempt = @ + 1, !.calls = 0, !.read = None]
             ELSE [turn EXCEPT !.step = "done", !.status = 503, !.read = None]
  /\ told' = Context

\* The agent may go on with a run nobody waits for: its tools only read.
TimeOut ==
  /\ turn.step \in {"sent", "running", "rereading"}
  /\ AttemptFails(504)
  /\ UNCHANGED <<rows, config, log>>

-----------------------------------------------------------------------------
(* The agent                                                               *)

\* require_agent_api_key, then respond
StartRun ==
  /\ turn.step = "sent"
  /\ CASE config.agent = "unset" -> AttemptFails(503)
       [] config.agent = "wrong" -> AttemptFails(401)
       [] config.agent = "right" /\ ~ config.openai -> AttemptFails(503)
       [] OTHER -> turn' = [turn EXCEPT !.step = "running"] /\ UNCHANGED told
  /\ UNCHANGED <<rows, config, log>>

\* The SDK tells the model of a failed tool, or the run fails.
ToolFails ==
  \/ turn' = [turn EXCEPT !.step = "running", !.calls = @ + 1, !.read = None] /\ UNCHANGED told
  \/ AttemptFails(503)

Tell(fact) ==
  /\ told' = Append(told, fact)
  /\ turn' = [turn EXCEPT !.step = "running", !.calls = @ + 1, !.read = None]

\* The tools are there only when the agent has a backend; NestJS checks its key.
CallsTool == turn.step = "running" /\ turn.calls < MaxCalls /\ config.tools # "none"

\* parseAssistantToolIsin, findVisibleFund
VisibleFund(isin) == isin \in Known /\ rows[isin].visible

GetFundSnapshot ==
  /\ CallsTool
  /\ \E isin \in Known \cup Unknown \cup Malformed :
       IF config.tools = "right" /\ VisibleFund(isin)
       THEN Tell(NewFact("snapshot", <<isin>>, {isin}, None, Len(log)))
       ELSE ToolFails
  /\ UNCHANGED <<rows, config, log>>

\* getScoreBreakdown reads the fund twice, and looks at its visibility once.
GetScoreBreakdown ==
  /\ CallsTool
  /\ \E isin \in Known \cup Unknown \cup Malformed :
       IF config.tools = "right" /\ VisibleFund(isin)
       THEN /\ turn' = [turn EXCEPT !.step = "rereading", !.read = isin, !.since = Len(log)]
            /\ UNCHANGED told
       ELSE ToolFails
  /\ UNCHANGED <<rows, config, log>>

ReadPersistedScore ==
  /\ turn.step = "rereading"
  /\ Tell(NewFact("breakdown", <<turn.read>>, {turn.read}, None, turn.since))
  /\ UNCHANGED <<rows, config, log>>

\* parseAssistantToolCompareRequest
ListAccepted(isins) == Len(isins) \in 1..MaxIsins /\ Range(isins) \cap Malformed = {}

\* compareFunds and validateComparisonFairness: ISINs of no fund are dropped, and one
\* hidden fund refuses them all.
CompareFunds ==
  /\ CallsTool
  /\ \E isins \in Lists, from \in {"compare", "fairness"} :
       IF config.tools = "right" /\ ListAccepted(isins) /\ Hidden(Found(isins)) = {}
       THEN Tell(NewFact(from, isins, Found(isins),
                         IF from = "fairness" THEN IsFair(Found(isins)) ELSE None, Len(log)))
       ELSE ToolFails
  /\ UNCHANGED <<rows, config, log>>

\* The run ends with a text, with an empty one, or with an error.
EndRun ==
  /\ turn.step = "running"
  /\ \/ turn' = [turn EXCEPT !.step = "done"] /\ UNCHANGED told
     \/ AttemptFails(503)
  /\ UNCHANGED <<rows, config, log>>

-----------------------------------------------------------------------------
(* Meanwhile                                                               *)

Write(kind, f, row) ==
  /\ turn.step # "done" /\ Len(log) < MaxWrites
  /\ rows' = [rows EXCEPT ![f] = row]
  /\ log' = Append(log, [kind |-> kind, fund |-> f, score |-> row.score,
                        legacy |-> rows[f].breakdown = None])
  /\ UNCHANGED <<config, turn, told>>

\* updateMaterializedScoring writes the score and its breakdown together.
Recalculate ==
  \E f \in Known, s \in Scores : Write("score", f, [rows[f] EXCEPT !.score = s, !.breakdown = s])

\* The metadata sync resets the score, not the breakdown.
SyncMetadata ==
  \E f \in Known, p \in Profiles : Write("sync", f, [rows[f] EXCEPT !.score = None, !.profile = p])

SetVisibility == \E f \in Known : Write("visibility", f, [rows[f] EXCEPT !.visible = ~ @])

Next ==
  \/ Ask \/ BuildContext \/ TimeOut
  \/ StartRun \/ GetFundSnapshot \/ GetScoreBreakdown \/ ReadPersistedScore \/ CompareFunds \/ EndRun
  \/ Recalculate \/ SyncMetadata \/ SetVisibility

Spec == Init /\ [][Next]_vars

-----------------------------------------------------------------------------
(* Properties                                                              *)

About(fact) == DOMAIN fact.score

\* The changes of funds from the first read of one fact to the last of another.
Between(first, second, funds) ==
  {log[n] : n \in {m \in (first.since + 1)..second.at : log[m].fund \in funds}}

\* The context and every tool tell one score of a fund, unless it was scored in
\* between, or was never broken down and synced in between; and after a recalculation
\* they tell what it found, whatever a sync does to the score's own column.
ScoresAgree ==
  LET scores == {n \in DOMAIN told : told[n].from # "fairness"}
  IN \A j \in scores : \A f \in About(told[j]) :
    /\ \A i \in scores :
         (i < j /\ f \in About(told[i]) /\ told[i].score[f] # told[j].score[f]) =>
           \E w \in Between(told[i], told[j], {f}) :
             w.kind = "score" \/ (w.kind = "sync" /\ w.legacy)
    /\ LET scored == {n \in 1..told[j].at : log[n].kind = "score" /\ log[n].fund = f}
       IN  scored # {} => told[j].score[f] = log[Max(scored)].score

\* Whether two funds differ where a comparison warns; one without benchmark does not.
Differ(p, q) ==
  \/ p.currency # q.currency \/ p.vehicle # q.vehicle
  \/ p.benchmark # q.benchmark /\ None \notin {p.benchmark, q.benchmark}

\* A verdict on a comparison is unfair just when two of its funds differ, and what any
\* tool or the context tells of these funds bears it out, unless one was synced in between.
VerdictsFit ==
  \A i, j \in {n \in DOMAIN told : told[n].from # "breakdown"} : told[i].fair # None =>
    LET earlier == told[IF i < j THEN i ELSE j]
        later == told[IF i < j THEN j ELSE i]
        bears == told[i].fair <=> \A f, g \in About(told[i]) :
                                    ~ Differ(told[j].profile[f], told[j].profile[g])
    IN  About(told[i]) \subseteq About(told[j]) =>
          bears \/ \E w \in Between(earlier, later, About(told[i])) : w.kind = "sync"

\* A tool tells of a hidden fund only if it was hidden while the tool read it; what
\* the context tells of a fund a tool may refuse.
HiddenIsUntold ==
  \A i \in DOMAIN told : told[i].from # "context" =>
    \A f \in told[i].hidden : \E w \in Between(told[i], told[i], {f}) : w.kind = "visibility"

\* A comparison leaves out no fund there is, and no reply is given on the tools of
\* another attempt or without the keys.
RepliesAreGrounded ==
  /\ \A i \in DOMAIN told : About(told[i]) = Range(told[i].asked) \cap Known
  /\ Cardinality({i \in DOMAIN told : told[i].from # "context"}) <= turn.calls
  /\ \A i \in DOMAIN told : told[i].from # "context" => config.tools = "right"
  /\ (turn.step = "done" /\ turn.status = 200) => (config.agent = "right" /\ config.openai)

ToolsAgree == ScoresAgree /\ VerdictsFit /\ HiddenIsUntold /\ RepliesAreGrounded
=============================================================================
