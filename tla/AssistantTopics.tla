----------------------------- MODULE AssistantTopics -----------------------------
(***************************************************************************)
(* What a message to SORA is about and what may be replied: messages that  *)
(* are refused, the intent, the glossary's entries, the documents given to *)
(* a model, and the model's replies, which are checked and scored.         *)
(*                                                                         *)
(* A message is normalized, as every reader normalizes it: no accents, no  *)
(* capitals, words one space apart; and none here has punctuation. Of a    *)
(* reply only its length, what it cites and whether it advises are kept.   *)
(* The length is the one the guardrails count, without apostrophes and     *)
(* accents: a reply of nothing but these has 0. An empty one is no reply,  *)
(* as LlmChatCompletionService.complete throws.                            *)
(***************************************************************************)
EXTENDS Integers, Sequences, FiniteSets, FiniteSetsExt, SequencesExt

CONSTANTS
  Prompts,    \* the documented prompts: what they should be answered with
  Mentions,   \* the sets of documents which may have a word in their text
  Replies,    \* what a model may reply
  Generated,  \* bound: the messages models are asked to answer
  Threshold,  \* ASSISTANT_FALLBACK_CONFIDENCE_THRESHOLD, in hundredths
  None        \* null

VARIABLES
  message,    \* the message, and whether it names a known fund
  answer,     \* how it is answered
  reply       \* what the models reply, and what is shown of it

vars == <<message, answer, reply>>

-----------------------------------------------------------------------------
(* The glossary and the documents                                          *)

Entry(term, keywords) == [term |-> term, keywords |-> keywords]
Chunk(topic, keywords) == [topic |-> topic, keywords |-> keywords]

FundConcepts == <<
  Entry("fondo indexado",
   {"fondo indexado", "fondos indexados", "indexacion", "gestion pasiva", "gestion indexada"}),
  Entry("etf y fondo indexado",
   {"etf y fondo indexado", "diferencia entre etf y fondo", "diferencia entre etf",
    "etf y fondo", "fondo o etf", "etf"}),
  Entry("indice de mercado",
   {"indice de mercado", "que es un indice", "que es el indice", "indices bursatiles"}),
  Entry("diversificacion", {"diversificacion", "diversificar", "repartir el riesgo"}),
  Entry("ahorrar e invertir",
   {"ahorrar e invertir", "ahorrar o invertir", "ahorro e inversion",
    "diferencia entre ahorrar"}),
  Entry("horizonte temporal",
   {"horizonte temporal", "horizonte de inversion", "largo plazo", "plazo de inversion",
    "invertir a largo plazo"}),
  Entry("interes compuesto",
   {"interes compuesto", "capitalizacion compuesta", "reinvertir ganancias"}),
  Entry("riesgo al invertir",
   {"asumir riesgo", "que es el riesgo", "que significa el riesgo", "riesgo al invertir",
    "riesgo de inversion"}),
  Entry("perfil orientativo",
   {"perfil orientativo", "perfil inversor", "cuestionario educativo", "perfil educativo"}),
  Entry("categorias de fondos",
   {"categorias de fondos", "categoria de fondos", "filtrar fondos",
    "filtrar por categoria", "diferencia entre categorias",
    "diferencia hay entre categorias", "tipos de fondos"}),
  Entry("como comparar fondos",
   {"como comparar", "comparar fondos", "diferencias principales", "diferencias educativas",
    "resume las diferencias"}),
  Entry("limites de inversora",
   {"puedo comprar", "comprar fondos aqui", "me recomienda", "recomienda fondos",
    "asesoramiento personalizado", "conectar broker", "es un broker", "puedo invertir aqui"})>>

FundMetrics == <<
  Entry("comision anual",
   {"comision anual", "comisiones", "comision", "coste anual", "gasto anual",
    "importan las comisiones", "por que importan las comisiones"}),
  Entry("riesgo orientativo",
   {"riesgo orientativo", "nivel de riesgo", "riesgo del fondo"}),
  Entry("etiqueta de eficiencia", {"etiqueta de eficiencia", "eficiencia"}),
  Entry("score inversora",
   {"score inversora", "inversora score", "puntuacion inversora", "puntuacion",
    "ranking inversora", "criterios del ranking", "criterios usa el ranking",
    "como funciona el score", "como funciona el inversora score",
    "score garantiza rentabilidad", "el score garantiza", "score garantiza",
    "garantiza rentabilidad", "score"}),
  Entry("isin", {"isin", "codigo isin"}),
  Entry("ter",
   {"ter", "total expense ratio", "comision ter", "comparar ter", "menor ter",
    "mirar al comparar ter"}),
  Entry("benchmark", {"benchmark", "indice de referencia", "indice referencia"}),
  Entry("gestora", {"gestora", "gestor", "administrador del fondo"}),
  Entry("patrimonio", {"patrimonio", "aum", "activos bajo gestion"}),
  Entry("rentabilidad pasada",
   {"rentabilidad pasada", "rentabilidad historica", "rendimiento pasado",
    "garantiza el futuro", "garantiza resultados futuros", "solo por rentabilidad"}),
  Entry("volatilidad", {"volatilidad"}),
  Entry("ratio de sharpe", {"sharpe", "ratio de sharpe"}),
  Entry("maxima caida", {"maxima caida", "drawdown", "caida maxima"}),
  Entry("tracking error",
   {"tracking error", "error de seguimiento", "seguimiento del indice"}),
  Entry("exposicion sectorial", {"exposicion sectorial", "sectores", "sectorial"}),
  Entry("disponibilidad en plataformas",
   {"disponibilidad", "plataformas", "brokers", "donde comprar"})>>

Glossary == FundConcepts \o FundMetrics

Chunks == <<
  Chunk("principios", {"educar", "principio", "comparar", "aprender", "contexto"}),
  Chunk("scoring", {"score", "ranking", "puntuacion", "criterio", "rn-04"}),
  Chunk("comisiones", {"ter", "comision", "comisiones", "gasto", "coste"}),
  Chunk("metricas", {"tracking", "error", "seguimiento", "indice", "benchmark"}),
  Chunk("riesgo", {"rentabilidad", "pasada", "historica", "futuro", "riesgo"}),
  Chunk("asistente", {"sora", "asistente", "ia", "recomendacion", "comprar", "vender"}),
  Chunk("conceptos", {"fondo", "indexado", "indice", "etf", "pasivo"}),
  Chunk("comparacion", {"comparar", "comparacion", "homogeneo", "categoria", "benchmark"})>>

-----------------------------------------------------------------------------
(* Words                                                                   *)

HasText(text, phrase) ==
  \E i \in 1..(Len(text) - Len(phrase) + 1) : SubSeq(text, i, i + Len(phrase) - 1) = phrase

\* The phrase, not as a part of longer words.
HasWords(text, phrase) == HasText(" " \o text \o " ", " " \o phrase \o " ")

\* FORBIDDEN_INPUT_PATTERNS
Forbidden ==
  {"comprar", "comprame", "compralo", "compraa", "vender", "vendeme", "vendelo", "vendea",
   "suscribe", "suscribete", "suscribir", "invierte ahora", "invierte ya", "deberias",
   "te recomiendo", "mejor opcion", "ideal para ti", "apuesta por"}
    \cup {verb \o " el " \o what : verb \in {"modifica", "modificar", "recalcula", "recalcular"},
                                 what \in {"score", "ranking"}}
    \cup {verb \o " " \o what : verb \in {"recalcula", "recalcular"}, what \in {"score", "ranking"}}
    \cup {verb \o " el orden del ranking" : verb \in {"cambia", "cambiar"}}

IsForbiddenInput(text) == \E phrase \in Forbidden : HasWords(text, phrase)

Classify(text, withFund) ==
  IF HasText(text, "compar") \/ \E p \in {"versus", "vs", "diferencia entre"} : HasWords(text, p)
  THEN "compare"
  ELSE IF /\ withFund
          /\ \/ HasWords(text, "score")
             \/ \E p \in {"puntuacion", "ranking", "por que este", "porque este"} : HasText(text, p)
  THEN "explain_score"
  ELSE IF \E p \in {"que es", "que significa", "explica", "define", "significa"} : HasText(text, p)
  THEN "explain_term"
  ELSE "general"

SupportsTemplate(intent) == intent \in {"explain_score", "compare"}

-----------------------------------------------------------------------------
(* GlossaryService                                                         *)

KeywordMatches(text, keyword) ==
  IF HasText(keyword, " ") THEN HasText(text, keyword) ELSE HasWords(text, keyword)

\* The first entry with the longest of the keywords that match.
Match(text) ==
  LET lengths == [i \in DOMAIN Glossary |->
                    {Len(k) : k \in {w \in Glossary[i].keywords : KeywordMatches(text, w)}}]
      longest == UNION {lengths[i] : i \in DOMAIN Glossary}
  IN  IF longest = {} THEN None
      ELSE Glossary[Min({i \in DOMAIN Glossary : Max(longest) \in lengths[i]})].term

Lookup(text) ==
  LET hits == {i \in DOMAIN Glossary : text = Glossary[i].term \/ text \in Glossary[i].keywords}
  IN  IF hits = {} THEN None ELSE Glossary[Min(hits)].term

-----------------------------------------------------------------------------
(* AssistantRagService                                                     *)

TopicBias(intent) ==
  CASE intent = "explain_score" -> "scoring"
    [] intent = "compare" -> "comparacion"
    [] intent = "explain_term" -> "conceptos"
    [] OTHER -> None

\* "mentions" are the topics whose document has the term in its text.
ScoreChunk(chunk, terms, mentions, bias) ==
  LET Hits(term) == \E k \in chunk.keywords : HasText(k, term) \/ HasText(term, k)
      matched == {i \in DOMAIN terms : Hits(terms[i])}
  IN  2 * Cardinality(matched)
        + (IF chunk.topic \in mentions THEN Len(terms) ELSE 0)
        + (IF chunk.topic = bias THEN 1 ELSE 0)

\* The four documents of the highest scores; of equal scores, the first.
Retrieve(terms, mentions, intent) ==
  LET long == SelectSeq(terms, LAMBDA t : Len(t) > 2)
      score == [i \in DOMAIN Chunks |-> ScoreChunk(Chunks[i], long, mentions, TopicBias(intent))]
      Before(i) == {j \in DOMAIN Chunks : score[j] > score[i] \/ (score[j] = score[i] /\ j < i)}
  IN  {Chunks[i].topic : i \in {j \in DOMAIN Chunks : score[j] > 0 /\ Cardinality(Before(j)) < 4}}

-----------------------------------------------------------------------------
(* A message                                                               *)

Keywords == UNION {Glossary[i].keywords : i \in DOMAIN Glossary}
Topics == {Chunks[i].topic : i \in DOMAIN Chunks}
ChunkKeywords == UNION {Chunks[i].keywords : i \in DOMAIN Chunks}

Messages ==
  Keywords \cup {Glossary[i].term : i \in DOMAIN Glossary} \cup {"explica " \o k : k \in Keywords}
    \cup DOMAIN Prompts

ConstantsAssumption ==
  /\ Mentions \subseteq SUBSET Topics /\ Generated \subseteq Messages \cup ChunkKeywords
  /\ \A r \in Replies : r.length \in Nat /\ r.advice \in BOOLEAN /\ r.cites \in BOOLEAN
  /\ Threshold \in 0..100
  /\ None \notin Replies \cup {"error", "guardrails", "low_confidence"}
  /\ None \notin [text : Messages \cup ChunkKeywords, withFund : BOOLEAN]

Init ==
  /\ message = None
  /\ answer = None
  /\ reply = None

\* explain and chat: the order in which a message is refused, looked up, or built. Only
\* a single word is retrieved for, whatever the documents mention.
Ask ==
  /\ message = None
  /\ \E text \in Messages \cup ChunkKeywords, withFund \in BOOLEAN, mentions \in Mentions \cup {{}} :
       LET intent == Classify(text, withFund)
           term == IF withFund /\ SupportsTemplate(intent) THEN None ELSE Match(text)
       IN  /\ text \in ChunkKeywords \/ mentions = {}
           /\ message' = [text |-> text, withFund |-> withFund]
           /\ answer' = [intent |-> intent,
                         route |-> IF IsForbiddenInput(text) THEN "refused"
                                   ELSE IF term # None THEN "glossary" ELSE "built",
                         term |-> term,
                         documents |-> IF text \in ChunkKeywords
                                       THEN Retrieve(<<text>>, mentions, intent) ELSE {}]
  /\ UNCHANGED reply

-----------------------------------------------------------------------------
(* A model's reply                                                         *)

\* sanitizeOrFallback: without advice and not empty, the reply, cut if it is long.
Sanitized(r) ==
  IF r.advice \/ r.length = 0 THEN "replaced" ELSE IF r.length <= 2000 THEN "reply" ELSE "cut"

\* hasRequiredFundReferences
CitesEnough(r) == (SupportsTemplate(answer.intent) /\ message.withFund) => r.cites

\* evaluate, of a reply that passes the guardrails, in hundredths.
Confidence(r) ==
  40 + (IF CitesEnough(r) THEN 35 ELSE 0) + (IF r.length >= 20 THEN 25 ELSE 0)

\* Why the second model is asked, if it is.
FallbackReason(primary) ==
  IF primary = None THEN "error"
  ELSE IF Sanitized(primary) # "reply" THEN "guardrails"
  ELSE IF Confidence(primary) < Threshold THEN "low_confidence" ELSE None

\* AssistantLlmOrchestratorService.generate; a model that fails, says nothing or is off
\* says None.
\* (What the calls cost is in AssistantLlmBudget.)
Generate ==
  /\ answer # None /\ answer.route = "built" /\ reply = None /\ message.text \in Generated
  /\ \E primary, second \in Replies \cup {None} :
       LET reason == FallbackReason(primary)
           from == IF reason # None /\ second # None THEN second ELSE primary
       IN  reply' = [primary |-> primary, second |-> second, reason |-> reason, from |-> from,
                     text |-> IF from = None THEN "unavailable" ELSE Sanitized(from)]
  /\ UNCHANGED <<message, answer>>

Next == Ask \/ Generate

Spec == Init /\ [][Next]_vars

-----------------------------------------------------------------------------
(* Properties                                                              *)

TypeOK ==
  /\ message # None => message.text \in Messages \cup ChunkKeywords /\ message.withFund \in BOOLEAN
  /\ answer # None =>
       /\ answer.intent \in {"compare", "explain_score", "explain_term", "general"}
       /\ answer.route \in {"refused", "glossary", "built"}
       /\ answer.documents \subseteq Topics
  /\ reply # None => reply.text \in {"replaced", "reply", "cut", "unavailable"}

EntriesOf(text) == {Glossary[i].term : i \in {e \in DOMAIN Glossary : text \in Glossary[e].keywords}}

\* Every keyword, alone or to be explained, is answered by its own entry and looks it
\* up, but for those the refusals of HU-40 come first for; a longer keyword never hides
\* it, nor a shorter one elsewhere.
KeywordsAnswer ==
  \A k \in {w \in Keywords : message.text \in {w, "explica " \o w}} :
    /\ EntriesOf(k) = {Lookup(k)}
    /\ ~ message.withFund =>
         IF HasWords(k, "comprar") THEN answer.route = "refused"
         ELSE answer.route = "glossary" /\ answer.term = Lookup(k)

\* The documented prompts have the documented answers, except that a prompt of the
\* glossary which asks to buy is refused.
PromptsAnswer ==
  (message.text \in DOMAIN Prompts /\ ~ message.withFund) =>
    \/ answer.route = "refused" /\ (Prompts[message.text] = "refused" \/ HasWords(message.text, "comprar"))
    \/ answer.route # "refused"
         /\ Prompts[message.text] = IF answer.route = "glossary" THEN answer.term ELSE "built"

\* A keyword of a document, unless too short, retrieves it, whatever the others mention;
\* and the glossary answers it only if it is a keyword there, not a part of one or around one.
DocumentsFound ==
  message.text \in ChunkKeywords =>
    /\ Len(message.text) > 2 =>
         \A i \in DOMAIN Chunks :
           message.text \in Chunks[i].keywords => Chunks[i].topic \in answer.documents
    /\ message.text \notin Keywords => answer.route # "glossary"

\* No advice is shown, nor half a reply while another model has a whole one; a reply
\* is accepted for its length or for what it cites, so that one of a few letters is.
RepliesFit ==
  reply # None =>
    /\ reply.text = "reply" => (~ reply.from.advice /\ reply.from.length <= 2000)
    /\ reply.text # "reply" =>
         \A r \in {reply.primary, reply.second} \ {None} :
           Sanitized(r) = "reply" => (r = reply.primary /\ reply.from = reply.second)
    /\ (reply.primary # None /\ reply.reason = None) <=>
         /\ reply.primary # None /\ Sanitized(reply.primary) = "reply"
         /\ CitesEnough(reply.primary) \/ reply.primary.length >= 20
         /\ reply.from = reply.primary
    /\ reply.text = "unavailable" => (reply.primary = None /\ reply.second = None)

TopicsFit == message # None => KeywordsAnswer /\ PromptsAnswer /\ DocumentsFound /\ RepliesFit
=============================================================================
