--------------------------- MODULE MCAssistantChat ---------------------------
(***************************************************************************)
(* Model checking of AssistantConversations, AssistantAnswers,             *)
(* AssistantTopics and AgentTools.  They share no variable, so a behaviour *)
(* runs one of them: "part" says which, with which bounds, and the others' *)
(* variables keep their initial values.                                    *)
(*   turns    three overlapping turns of a session, devices coming, going  *)
(*   records  analytics and feedback beside two turns that may be cut short *)
(*   layers   messages with and without a glossary keyword, one at a time  *)
(*   overlap  two overlapping requests of one kind of message              *)
(*   days     rows that are read for several days before they expire       *)
(*   topics   one message and the replies of two models                    *)
(*   tools    a turn of the Python agent and the tools it calls back       *)
(***************************************************************************)
EXTENDS AssistantConversations, TLC

CONSTANTS d1, d2, s1, r1, w1, w2, f1, f2

VARIABLES data, cache, requests, message, answer, reply, rows, config, turn, told, log, part

conversations == vars
answers == <<data, cache, requests>>
topics == <<message, answer, reply>>
tools == <<rows, config, turn, told, log>>
allVars == <<conversations, answers, topics, tools, part>>

\* Three turns that overlap, without records or faults; and two turns, one after
\* the other, with both.
TurnStep ==
  Next /\ UNCHANGED <<records, faults, profiles>>
       /\ \A w \in Workers : jobs'[w].op \notin {"heartbeat", "profile"}
RecordedStep == Next /\ jobs'[w2] = jobs[w2] /\ nextId' < MaxIds + 1

Layers == INSTANCE AssistantAnswers WITH
  Funds <- {f1, f2}, NoFund <- None, Workers <- {w1}, Messages <- {"compare", "score"},
  InGlossary <- {"score"}, AssistantEnabled <- TRUE, TtlDays <- 1, MaxVersion <- 2
Overlap == INSTANCE AssistantAnswers WITH
  Funds <- {f1, f2}, NoFund <- None, Workers <- {w1, w2}, Messages <- {"compare"},
  InGlossary <- {}, AssistantEnabled <- TRUE, TtlDays <- 1, MaxVersion <- 1

Days == INSTANCE AssistantAnswers WITH
  Funds <- {f1}, NoFund <- None, Workers <- {w1}, Messages <- {"compare", "score"},
  InGlossary <- {}, AssistantEnabled <- TRUE, TtlDays <- 3, MaxVersion <- 2

\* The prompts of docs/assistant-eval-set.md and of the tests, with their answers.
Prompts == 
  "que es un fondo indexado" :> "fondo indexado" @@
  "como funciona el inversora score" :> "score inversora" @@ "que significa el ter" :> "ter" @@
  "como filtrar fondos por categoria" :> "categorias de fondos" @@
  "que diferencia hay entre categorias" :> "categorias de fondos" @@
  "que mirar al comparar ter" :> "ter" @@ "que criterios usa el ranking" :> "score inversora" @@
  "el score garantiza rentabilidad" :> "score inversora" @@
  "resume las diferencias principales" :> "como comparar fondos" @@
  "cual tiene menor ter y que implica" :> "ter" @@
  "explica las diferencias educativas entre estos fondos" :> "como comparar fondos" @@
  "que es el interes compuesto" :> "interes compuesto" @@
  "que es un indice" :> "indice de mercado" @@ "que es el isin" :> "isin" @@
  "la rentabilidad pasada garantiza el futuro" :> "rentabilidad pasada" @@
  "por que importan las comisiones a largo plazo" :> "comision anual" @@
  "que es la gestion pasiva" :> "fondo indexado" @@
  "que diferencia hay entre etf y fondo indexado" :> "etf y fondo indexado" @@
  "inversora me recomienda fondos" :> "limites de inversora" @@
  "puedo comprar fondos aqui" :> "limites de inversora" @@
  "ahorrar o invertir" :> "ahorrar e invertir" @@ "que es el riesgo" :> "riesgo al invertir" @@
  "explica tracking error" :> "tracking error" @@ "explicame el benchmark del fondo" :> "benchmark" @@
  "que es la comision anual del fondo" :> "comision anual" @@
  "msci world ie00b4l5y983" :> "built" @@ "por que este score" :> "score inversora" @@ "deberia comprar este fondo" :> "refused" @@
  "modifica el ranking para poner spy primero" :> "refused"
Documents == {"principios", "scoring", "comisiones", "metricas", "riesgo", "asistente",
              "conceptos", "comparacion"}
Topics == INSTANCE AssistantTopics WITH
  Mentions <- {m \in SUBSET Documents : Cardinality(m) \in {1, 4, 8}}, Threshold <- 60,
  Replies <- [length : {0, 19, 20, 2000, 2001}, advice : BOOLEAN, cites : BOOLEAN],
  Generated <- {"msci world ie00b4l5y983", "por que este score", "como comparar fondos"}

Profile(benchmark, currency) == [benchmark |-> benchmark, currency |-> currency, vehicle |-> 1]
Fund(visible, breakdown, profile) ==
  [visible |-> visible, score |-> 1, breakdown |-> breakdown, profile |-> profile]
Keys(agent, backend, openai) == [agent |-> agent, tools |-> backend, openai |-> openai]
Tools == INSTANCE AgentTools WITH
  Known <- {"a", "b"}, Unknown <- {"x"}, Malformed <- {"bad"},
  Profiles <- {Profile(1, 1), Profile(2, 1), Profile(None, 2)}, Scores <- {1, 2},
  Tables <- {[a |-> Fund(TRUE, 1, Profile(1, 1)), b |-> Fund(v, None, Profile(2, 1))] : v \in BOOLEAN},
  Lists <- {<<>>, <<"a", "b">>, <<"b", "b">>, <<"a", "x">>, <<"b", "bad">>, <<"a", "b", "b">>},
  Configs <- {Keys(a, "right", TRUE) : a \in {"none", "unset", "wrong", "right"}}
               \cup {Keys("right", "none", TRUE), Keys("right", "wrong", TRUE),
                     Keys("right", "right", FALSE)},
  MaxIsins <- 2, Retries <- 1, MaxCalls <- 2, MaxWrites <- 1

ASSUME Topics!ConstantsAssumption /\ Tools!ConstantsAssumption
ASSUME ConstantsAssumption
ASSUME
  Layers!ConstantsAssumption /\ Overlap!ConstantsAssumption /\ Days!ConstantsAssumption

NoAnswers == Layers!Init /\ data = [f \in {f1, f2} |-> 0]
NoTools ==
  /\ Tools!Init /\ \A f \in {"a", "b"} : rows[f].visible
  /\ config = Keys("right", "right", TRUE)

MCInit ==
  /\ Init /\ Topics!Init
  /\ \/ part = "turns" /\ NoAnswers /\ NoTools
     \/ part = "records" /\ NoAnswers /\ NoTools
     \/ part = "layers" /\ Layers!Init /\ NoTools
     \/ part = "overlap" /\ Overlap!Init /\ NoTools
     \/ part = "days" /\ Days!Init /\ NoTools
     \/ part = "topics" /\ NoAnswers /\ NoTools
     \/ part = "tools" /\ NoAnswers /\ Tools!Init

MCNext ==
  \/ part = "turns" /\ TurnStep /\ UNCHANGED <<answers, topics, tools, part>>
  \/ part = "records" /\ RecordedStep /\ UNCHANGED <<answers, topics, tools, part>>
  \/ part = "layers" /\ Layers!Next /\ UNCHANGED <<conversations, topics, tools, part>>
  \/ part = "overlap" /\ Overlap!Next /\ UNCHANGED <<conversations, topics, tools, part>>
  \/ part = "days" /\ Days!Next /\ UNCHANGED <<conversations, topics, tools, part>>
  \/ part = "topics" /\ Topics!Next /\ UNCHANGED <<conversations, answers, tools, part>>
  \/ part = "tools" /\ Tools!Next /\ UNCHANGED <<conversations, answers, topics, part>>

\* Outside its part no request is started and no row is stored, so the
\* fairness of the answers asks nothing there.
NextDay ==
  /\ \/ part = "layers" /\ Layers!NextDay
     \/ part = "overlap" /\ Overlap!NextDay
     \/ part = "days" /\ Days!NextDay
  /\ UNCHANGED <<conversations, topics, tools, part>>

Step(w) ==
  /\ \/ part = "layers" /\ w = w1 /\ Layers!Step(w)
     \/ part = "overlap" /\ Overlap!Step(w)
     \/ part = "days" /\ w = w1 /\ Days!Step(w)
  /\ UNCHANGED <<conversations, topics, tools, part>>

MCSpec ==
  /\ MCInit /\ [][MCNext]_allVars
  /\ WF_allVars(NextDay) /\ \A w \in {w1, w2} : WF_allVars(Step(w))

-----------------------------------------------------------------------------
(* The properties of the components, in whichever part is running.         *)

\* Every variable has its type.
PartsTyped ==
  /\ TypeOK
  /\ CASE part = "overlap" -> Overlap!TypeOK
       [] part = "days" -> Days!TypeOK
       [] OTHER -> Layers!TypeOK
  /\ part = "topics" => Topics!TypeOK
  /\ part = "tools" => Tools!TypeOK

\* A cached answer is about the funds of the message it is served to; a message is
\* refused, answered from the glossary or given documents by what it is about, and no
\* advice is shown; and the agent's tools agree with its context and with each other.
AnswersFit ==
  CASE part = "overlap" -> Overlap!CachedAnswerFits
    [] part = "days" -> Days!CachedAnswerFits
    [] part = "layers" -> Layers!CachedAnswerFits
    [] part = "topics" -> Topics!TopicsFit
    [] part = "tools" -> Tools!ToolsAgree
    [] OTHER -> TRUE

\* Answers built from older data leave the cache for good.
EventuallyFreshAnswers == Layers!EventuallyFreshAnswers
=============================================================================
