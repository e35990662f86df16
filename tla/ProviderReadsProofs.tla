-------------------------- MODULE ProviderReadsProofs --------------------------
(***************************************************************************)
(* For any number of concurrent tool calls, sessions, retries and discards *)
(* a session error is always explained.  The inductive invariant follows   *)
(* a second attempt nobody has disturbed from its initialize to its tool   *)
(* call: its session is held, is the client's, is ready, in that order.    *)
(* A call sends a bounded number of requests: its variant counts them.     *)
(*                                                                         *)
(* For any number of concurrent reads, times to live and timeouts what a   *)
(* cached read answers was right a bounded time ago.  The inductive        *)
(* invariant dates what every entry tells from the time it has left, and   *)
(* what every request carries from its age.                                *)
(*                                                                         *)
(* For any catalog the scores of RN-04 compare: however a fund is asked    *)
(* for it is scored alike, and a fund that is nowhere worse than another   *)
(* of its group has at least as many peers that are no better, so it gets  *)
(* no fewer points for any factor.                                         *)
(*                                                                         *)
(* For any histories and writes between the reads of one request the       *)
(* figures shown of a fund agree: the closest price moves with its target, *)
(* so of any history the longer return starts no later, and the row tells  *)
(* its score and its returns with what they are of.                        *)
(*                                                                         *)
(* For any prices saved, revised and pruned between the reads of a chart   *)
(* it is that of its window.  The inductive invariant follows the latest   *)
(* date a request holds: it is saved, or pruned since.                     *)
(*                                                                         *)
(* For any answers of the provider's endpoints the weights, quotes,        *)
(* profiles and news made of them agree.                                   *)
(*                                                                         *)
(* For any curated quarters, funds and request GET /featured answers from  *)
(* the quarter it should and shows what may be shown.  The answers of two  *)
(* requests compare, as each is a function of the quarter that is meant,   *)
(* those that are curated and the cards of each.                           *)
(***************************************************************************)
EXTENDS McpSession, ReadCaches, Rn04Score, FiniteSetTheorems, SequenceTheorems,
  WellFoundedInduction, TLAPS

\* The module's variables and the constants it does not share.
CONSTANTS Days, Year, CardWindow, ScoreValues, Histories, MaxWrites,
          PeriodDays, Closes, Retention, Batches, FirstDay, MaxDay, MaxEdits, Patterns, Questions,
          FeaturedRequests
VARIABLES prices, row, detail, card, writes,
          today, closes, public, viewer, pruned, edits, question, answer, request, featured

Figures == INSTANCE FundFigures
Charts == INSTANCE FundCharts
Provider == INSTANCE FmpNormalizers
Selection == INSTANCE FeaturedSelection WITH Requests <- FeaturedRequests

\* What is true of the second attempt of c while it is not disturbed.
SecondAttempt(c) ==
  (calls[c].round = 2 /\ c \notin disturbed) =>
    /\ calls[c].reply # "rejected"
    /\ calls[c].pc = "initialize" =>
         ((stateful /\ calls[c].reply = "ok") => calls[c].fresh \in held)
    /\ calls[c].pc = "notify" =>
         /\ sessionId = calls[c].sid
         /\ stateful => calls[c].sid \in held
         /\ (stateful /\ calls[c].reply = "ok") => calls[c].sid \in ready
    /\ calls[c].pc = "tool" => (stateful => calls[c].sid \in ready)

Inv ==
  /\ TypeOK
  /\ \A c \in Callers : SecondAttempt(c)
  /\ SessionErrorsAreExplained

-----------------------------------------------------------------------------
\* A step writes the call of one caller only, and gives it a call's type.
LEMMA RequestFacts ==
  ASSUME TypeOK, NEW c \in Callers, NEW sid \in Sessions \union {NoSession},
         NEW pc \in {"initialize", "notify", "tool"}, NEW round \in 1..2,
         ConstantsAssumption, Request(c, pc, sid, round)
  PROVE  /\ calls' \in [Callers -> Call]
         /\ calls'[c].pc = pc /\ calls'[c].sid = sid /\ calls'[c].round = round
         /\ calls'[c].reply = "none" /\ calls'[c].result = calls[c].result
         /\ \A d \in Callers \ {c} : calls'[d] = calls[d]
<1>1. calls[c] \in Call
  BY DEF TypeOK
<1>2. calls'[c] = [pc |-> pc, round |-> round, attempt |-> 0, sid |-> sid,
                   reply |-> "none", fresh |-> NoSession, result |-> calls[c].result]
  BY <1>1 DEF Request, TypeOK, Call
<1>3. calls'[c] \in Call
  BY <1>1, <1>2 DEF Call, ConstantsAssumption
<1>4. /\ \A d \in Callers \ {c} : calls'[d] = calls[d]
      /\ DOMAIN calls' = Callers /\ calls' = [d \in Callers |-> calls'[d]]
  BY DEF Request, TypeOK
<1>5. calls' \in [Callers -> Call]
  BY <1>3, <1>4 DEF TypeOK
<1>6. QED
  BY <1>2, <1>4, <1>5

LEMMA ReplyFacts ==
  ASSUME TypeOK, NEW c \in Callers, NEW reply \in Replies,
         NEW fresh \in Sessions \union {NoSession}, Reply(c, reply, fresh)
  PROVE  /\ calls' \in [Callers -> Call]
         /\ calls'[c].pc = calls[c].pc /\ calls'[c].sid = calls[c].sid
         /\ calls'[c].round = calls[c].round /\ calls'[c].result = calls[c].result
         /\ calls'[c].reply \in {reply, "unavailable"}
         /\ calls'[c].reply = "ok" => calls'[c].fresh = fresh
         /\ \A d \in Callers \ {c} : calls'[d] = calls[d]
<1>1. PICK r \in {reply, "unavailable"} :
        calls' = [calls EXCEPT ![c].reply = r, ![c].fresh = IF r = "ok" THEN fresh ELSE @]
  BY DEF Reply
<1>2. calls[c] \in Call /\ r \in Replies
  BY DEF TypeOK, Replies
<1>3. calls'[c] = [pc |-> calls[c].pc, round |-> calls[c].round, attempt |-> calls[c].attempt,
                   sid |-> calls[c].sid, reply |-> r,
                   fresh |-> IF r = "ok" THEN fresh ELSE calls[c].fresh,
                   result |-> calls[c].result]
  BY <1>1, <1>2 DEF TypeOK, Call
<1>4. calls'[c] \in Call
  BY <1>2, <1>3 DEF Call
<1>5. /\ \A d \in Callers \ {c} : calls'[d] = calls[d]
      /\ DOMAIN calls' = Callers /\ calls' = [d \in Callers |-> calls'[d]]
  BY <1>1 DEF TypeOK
<1>6. calls' \in [Callers -> Call]
  BY <1>4, <1>5 DEF TypeOK
<1>7. QED
  BY <1>3, <1>5, <1>6

\* A call sent again, or one that ends.
LEMMA CallFacts ==
  ASSUME TypeOK, ConstantsAssumption, NEW c \in Callers, RetryRequest(c) \/ Finish(c)
  PROVE  /\ calls' \in [Callers -> Call]
         /\ \A d \in Callers \ {c} : calls'[d] = calls[d]
         /\ calls'[c].reply = "none"
         /\ RetryRequest(c) =>
              /\ calls'[c].pc = calls[c].pc /\ calls'[c].sid = calls[c].sid
              /\ calls'[c].round = calls[c].round /\ calls'[c].result = calls[c].result
         /\ Finish(c) => calls'[c].round = 1 /\ calls'[c].result = calls[c].reply
<1>1. calls[c] \in Call
  BY DEF TypeOK
<1>2. CASE RetryRequest(c)
  <2>1. calls'[c] = [calls[c] EXCEPT !.attempt = @ + 1, !.reply = "none"]
    BY <1>2 DEF RetryRequest, TypeOK
  <2>2. calls[c].attempt + 1 \in 0..Retries
    BY <1>1, <1>2 DEF RetryRequest, Call, ConstantsAssumption
  <2>3. calls'[c] \in Call
    BY <1>1, <2>1, <2>2 DEF Call
  <2>4. /\ \A d \in Callers \ {c} : calls'[d] = calls[d]
        /\ DOMAIN calls' = Callers /\ calls' = [d \in Callers |-> calls'[d]]
    BY <1>2 DEF RetryRequest, TypeOK
  <2>5. calls' \in [Callers -> Call]
    BY <2>3, <2>4 DEF TypeOK
  <2>6. ~Finish(c)
    BY <1>1, <1>2 DEF RetryRequest, Finish, Retryable, IsSessionError, Call, ConstantsAssumption
  <2>7. QED
    BY <1>1, <2>1, <2>4, <2>5, <2>6 DEF Call
<1>3. CASE Finish(c)
  <2>1. calls'[c] = [pc |-> "done", round |-> 1, attempt |-> 0, sid |-> NoSession,
                     reply |-> "none", fresh |-> calls[c].fresh, result |-> calls[c].reply]
    BY <1>1, <1>3 DEF Finish, TypeOK, Call
  <2>2. calls'[c] \in Call
    BY <1>1, <2>1 DEF Call, ConstantsAssumption
  <2>3. /\ \A d \in Callers \ {c} : calls'[d] = calls[d]
        /\ DOMAIN calls' = Callers /\ calls' = [d \in Callers |-> calls'[d]]
    BY <1>3 DEF Finish, TypeOK
  <2>4. calls' \in [Callers -> Call]
    BY <2>2, <2>3 DEF TypeOK
  <2>5. ~RetryRequest(c)
    BY <1>1, <1>3 DEF RetryRequest, Finish, Retryable, IsSessionError, Call, ConstantsAssumption
  <2>6. QED
    BY <2>1, <2>3, <2>4, <2>5
<1>4. QED
  BY <1>2, <1>3

-----------------------------------------------------------------------------
\* Disturbed only grows, and whoever writes the session disturbs the others.
LEMMA DisturbedGrows ==
  ASSUME Next PROVE disturbed \subseteq disturbed'
BY DEF Next, ClientStep, ServerStep, CallTool, RetryRequest, Initialized, Notified, Renew,
       Finish, OpenSession, SessionReady, RunTool, Trouble, Discard, SetSession

LEMMA TypeCorrect ==
  ASSUME ConstantsAssumption, TypeOK, Next PROVE TypeOK'
<1>1. ASSUME NEW c \in Callers, CallTool(c) PROVE TypeOK'
  BY <1>1, RequestFacts DEF CallTool, TypeOK
<1>2. ASSUME NEW c \in Callers, RetryRequest(c) PROVE TypeOK'
  BY <1>2, CallFacts DEF RetryRequest, TypeOK
<1>3. ASSUME NEW c \in Callers, Initialized(c) PROVE TypeOK'
  BY <1>3, RequestFacts DEF Initialized, SetSession, TypeOK, Call
<1>4. ASSUME NEW c \in Callers, Notified(c) PROVE TypeOK'
  BY <1>4, RequestFacts DEF Notified, TypeOK, Call
<1>5. ASSUME NEW c \in Callers, Renew(c) PROVE TypeOK'
  BY <1>5, RequestFacts DEF Renew, SetSession, TypeOK
<1>6. ASSUME NEW c \in Callers, Finish(c) PROVE TypeOK'
  BY <1>6, CallFacts DEF Finish, TypeOK
<1>7. ASSUME NEW c \in Callers, OpenSession(c) PROVE TypeOK'
  <2>1. CASE stateful
    <3>1. /\ issued' = issued + 1 /\ held' = held \union {issued'} /\ Reply(c, "ok", issued')
          /\ issued < MaxSessions /\ UNCHANGED <<sessionId, ready, stateful, disturbed>>
      BY <1>7, <2>1 DEF OpenSession
    <3>2. issued' \in Sessions /\ issued' \in 0..MaxSessions /\ held' \subseteq 1..issued'
      BY <3>1 DEF TypeOK, Sessions, ConstantsAssumption
    <3>3. calls' \in [Callers -> Call]
      BY <3>1, <3>2, ReplyFacts DEF Replies
    <3>4. QED
      BY <3>1, <3>2, <3>3 DEF TypeOK
  <2>2. CASE ~stateful
    BY <1>7, <2>2, ReplyFacts DEF OpenSession, Replies, TypeOK
  <2>3. QED
    BY <2>1, <2>2
<1>8. ASSUME NEW c \in Callers, SessionReady(c) PROVE TypeOK'
  <2>1. calls' \in [Callers -> Call]
    BY <1>8, ReplyFacts DEF SessionReady, Replies
  <2>2. QED
    BY <1>8, <2>1 DEF SessionReady, TypeOK
<1>9. ASSUME NEW c \in Callers, RunTool(c) \/ Trouble(c) PROVE TypeOK'
  <2>1. calls' \in [Callers -> Call]
    BY <1>9, ReplyFacts DEF RunTool, Trouble, Replies
  <2>2. QED
    BY <1>9, <2>1 DEF RunTool, Trouble, TypeOK
<1>10. ASSUME NEW s \in Sessions, Discard(s) PROVE TypeOK'
  BY <1>10 DEF Discard, TypeOK
<1>11. QED
  BY <1>1, <1>2, <1>3, <1>4, <1>5, <1>6, <1>7, <1>8, <1>9, <1>10 DEF Next, ClientStep, ServerStep

\* A caller writes its own call, and the server's side is not its to write.
LEMMA OthersKept ==
  ASSUME TypeOK, NEW c \in Callers, CallTool(c) \/ ClientStep(c)
  PROVE  /\ \A d \in Callers \ {c} : calls'[d] = calls[d]
         /\ UNCHANGED <<held, ready, stateful>>
<1>1. CASE CallTool(c) \/ Notified(c)
  BY <1>1 DEF CallTool, Notified, Request, TypeOK
<1>2. CASE Initialized(c) \/ Renew(c)
  BY <1>2 DEF Initialized, Renew, Request, TypeOK
<1>3. CASE RetryRequest(c) \/ Finish(c)
  BY <1>3 DEF RetryRequest, Finish, TypeOK
<1>4. QED
  BY <1>1, <1>2, <1>3 DEF ClientStep

\* A step of another caller, or none, leaves the attempt of c as it is: what it
\* takes from it, it disturbs.
LEMMA OthersDisturb ==
  ASSUME TypeOK, NEW c \in Callers, SecondAttempt(c), calls'[c] = calls[c],
         disturbed \subseteq disturbed', stateful' = stateful,
         held \subseteq held', ready \subseteq ready',
         \/ sessionId' = sessionId
         \/ (calls[c].round = 2 /\ calls[c].pc = "notify") => c \in disturbed'
  PROVE  SecondAttempt(c)'
BY DEF SecondAttempt

LEMMA ClientSteps ==
  ASSUME ConstantsAssumption, Inv, NEW c \in Callers,
         CallTool(c) \/ ClientStep(c)
  PROVE  \A d \in Callers : SecondAttempt(d)'
<1>1. calls[c] \in Call /\ SecondAttempt(c)
  BY DEF Inv, TypeOK
<1>2. disturbed \subseteq disturbed'
  BY DisturbedGrows DEF Next
<1>3. /\ \A d \in Callers \ {c} : calls'[d] = calls[d]
      /\ UNCHANGED <<held, ready, stateful>>
  BY OthersKept DEF Inv
<1>4. ASSUME NEW d \in Callers \ {c} PROVE SecondAttempt(d)'
  <2>1. \/ sessionId' = sessionId
        \/ (calls[d].round = 2 /\ calls[d].pc = "notify") => d \in disturbed'
    BY DEF CallTool, ClientStep, RetryRequest, Initialized, Notified, Renew, Finish, SetSession
  <2>2. QED
    BY <1>2, <1>3, <1>4, <2>1, OthersDisturb DEF Inv
<1>5. SecondAttempt(c)'
  <2>1. CASE CallTool(c)
    <3>1. calls'[c].round = 1
      BY <1>1, <2>1, RequestFacts DEF CallTool, Inv, TypeOK
    <3>2. QED
      BY <3>1 DEF SecondAttempt
  <2>2. CASE RetryRequest(c)
    <3>1. /\ calls'[c].pc = calls[c].pc /\ calls'[c].sid = calls[c].sid
          /\ calls'[c].round = calls[c].round /\ calls'[c].reply = "none"
      BY <2>2, CallFacts DEF Inv
    <3>2. UNCHANGED <<sessionId, disturbed>>
      BY <2>2 DEF RetryRequest
    <3>3. QED
      BY <1>1, <1>3, <3>1, <3>2 DEF SecondAttempt
  <2>3. CASE Initialized(c)
    <3>1. /\ calls'[c].pc = "notify" /\ calls'[c].sid = calls[c].fresh
          /\ calls'[c].round = calls[c].round /\ calls'[c].reply = "none"
      BY <1>1, <2>3, RequestFacts DEF Initialized, Inv, Call
    <3>2. sessionId' = calls[c].fresh /\ calls[c].pc = "initialize" /\ calls[c].reply = "ok"
      BY <2>3 DEF Initialized, SetSession
    <3>3. QED
      BY <1>1, <1>2, <1>3, <3>1, <3>2 DEF SecondAttempt
  <2>4. CASE Notified(c)
    <3>1. /\ calls'[c].pc = "tool" /\ calls'[c].sid = sessionId
          /\ calls'[c].round = calls[c].round /\ calls'[c].reply = "none"
      BY <1>1, <2>4, RequestFacts DEF Notified, Inv, TypeOK, Call
    <3>2. calls[c].pc = "notify" /\ calls[c].reply = "ok"
      BY <2>4 DEF Notified
    <3>3. QED
      BY <1>1, <1>2, <1>3, <3>1, <3>2 DEF SecondAttempt
  <2>5. CASE Renew(c)
    <3>1. calls'[c].pc = "initialize" /\ calls'[c].reply = "none"
      BY <2>5, RequestFacts DEF Renew, Inv
    <3>2. QED
      BY <3>1 DEF SecondAttempt
  <2>6. CASE Finish(c)
    BY <2>6, CallFacts DEF Inv, SecondAttempt
  <2>7. QED
    BY <2>1, <2>2, <2>3, <2>4, <2>5, <2>6 DEF ClientStep
<1>6. QED
  BY <1>4, <1>5

LEMMA ServerSteps ==
  ASSUME ConstantsAssumption, Inv, NEW c \in Callers, ServerStep(c)
  PROVE  /\ \A d \in Callers : SecondAttempt(d)'
         /\ \A d \in Callers : calls'[d].result = calls[d].result
<1>1. calls[c] \in Call /\ SecondAttempt(c)
  BY DEF Inv, TypeOK
<1>2. UNCHANGED <<sessionId, stateful, disturbed>> /\ held \subseteq held' /\ ready \subseteq ready'
  BY DEF ServerStep, OpenSession, SessionReady, RunTool, Trouble
<1>3. PICK reply \in Replies, fresh \in Sessions \union {NoSession} :
        /\ Reply(c, reply, fresh)
        /\ calls[c].pc = "initialize" => reply # "rejected"
        /\ (calls[c].pc = "initialize" /\ reply = "ok") => (stateful => fresh \in held')
        /\ calls[c].pc = "notify" =>
             /\ reply = "rejected" => stateful /\ calls[c].sid \notin held
             /\ (reply = "ok" /\ stateful) => calls[c].sid \in ready'
        /\ calls[c].pc = "tool" => (reply = "rejected" => stateful /\ calls[c].sid \notin ready)
  <2>1. CASE OpenSession(c)
    <3>1. issued' \in Sessions \/ ~stateful
      BY <2>1 DEF OpenSession, Inv, TypeOK, Sessions, ConstantsAssumption
    <3>2. CASE stateful
      BY <2>1, <3>1, <3>2 DEF OpenSession, Replies
    <3>3. CASE ~stateful
      BY <2>1, <3>3 DEF OpenSession, Replies
    <3>4. QED
      BY <3>2, <3>3
  <2>2. CASE SessionReady(c)
    <3>1. CASE stateful /\ calls[c].sid \notin held
      BY <2>2, <3>1 DEF SessionReady, Replies
    <3>2. CASE ~(stateful /\ calls[c].sid \notin held)
      BY <2>2, <3>2 DEF SessionReady, Replies
    <3>3. QED
      BY <3>1, <3>2
  <2>3. CASE RunTool(c)
    <3>1. CASE Reply(c, "ok", NoSession)
      BY <2>3, <3>1 DEF RunTool, Replies
    <3>2. CASE stateful /\ calls[c].sid \notin ready /\ Reply(c, "rejected", NoSession)
      BY <2>3, <3>2 DEF RunTool, Replies
    <3>3. QED
      BY <2>3, <3>1, <3>2 DEF RunTool
  <2>4. CASE Trouble(c)
    BY <2>4 DEF Trouble, Replies
  <2>5. QED
    BY <2>1, <2>2, <2>3, <2>4 DEF ServerStep
<1>4. /\ calls'[c].pc = calls[c].pc /\ calls'[c].sid = calls[c].sid
      /\ calls'[c].round = calls[c].round /\ calls'[c].result = calls[c].result
      /\ calls'[c].reply \in {reply, "unavailable"}
      /\ calls'[c].reply = "ok" => calls'[c].fresh = fresh
      /\ \A d \in Callers \ {c} : calls'[d] = calls[d]
  BY <1>3, ReplyFacts DEF Inv
<1>5. ASSUME NEW d \in Callers \ {c} PROVE SecondAttempt(d)'
  BY <1>2, <1>4, <1>5, OthersDisturb DEF Inv
<1>6. SecondAttempt(c)'
  <2>1. SUFFICES ASSUME calls[c].round = 2, c \notin disturbed
                 PROVE  SecondAttempt(c)'
    BY <1>2, <1>4 DEF SecondAttempt
  <2>2. CASE calls[c].pc = "initialize"
    BY <1>1, <1>2, <1>3, <1>4, <2>1, <2>2 DEF SecondAttempt
  <2>3. CASE calls[c].pc = "notify"
    BY <1>1, <1>2, <1>3, <1>4, <2>1, <2>3, held \subseteq held' DEF SecondAttempt
  <2>4. CASE calls[c].pc = "tool"
    BY <1>1, <1>2, <1>3, <1>4, <2>1, <2>4, ready \subseteq ready' DEF SecondAttempt
  <2>5. calls[c].pc \in {"initialize", "notify", "tool"}
    BY <1>1 DEF ServerStep, OpenSession, SessionReady, RunTool, Trouble, Outstanding, Call
  <2>6. QED
    BY <2>2, <2>3, <2>4, <2>5
<1>7. QED
  BY <1>4, <1>5, <1>6

LEMMA DiscardStep ==
  ASSUME Inv, NEW s \in Sessions, Discard(s)
  PROVE  /\ \A d \in Callers : SecondAttempt(d)'
         /\ \A d \in Callers : calls'[d].result = calls[d].result
<1>1. SUFFICES ASSUME NEW d \in Callers PROVE SecondAttempt(d)'
  BY DEF Discard
<1>2. (calls[d].round = 2 /\ d \notin disturbed') => s \notin {calls[d].sid, calls[d].fresh}
  BY DEF Discard
<1>3. /\ UNCHANGED <<sessionId, stateful, calls>> /\ disturbed \subseteq disturbed'
      /\ held' = held \ {s} /\ ready' = ready \ {s}
  BY DEF Discard
<1>4. QED
  BY <1>2, <1>3 DEF Inv, SecondAttempt

\* A second session error ends a call only when it was disturbed.
LEMMA ErrorsExplained ==
  ASSUME ConstantsAssumption, Inv, NEW c \in Callers, CallTool(c) \/ ClientStep(c)
  PROVE  SessionErrorsAreExplained'
<1>1. calls[c] \in Call /\ SecondAttempt(c) /\ disturbed \subseteq disturbed'
  BY DisturbedGrows DEF Inv, TypeOK, Next
<1>2. \A d \in Callers \ {c} : calls'[d] = calls[d]
  BY OthersKept DEF Inv
<1>3. calls'[c].result = "rejected" => c \in disturbed'
  <2>1. CASE Finish(c)
    <3>1. calls'[c].result = calls[c].reply
      BY <2>1, CallFacts DEF Inv
    <3>2. calls[c].reply = "rejected" => calls[c].round = 2
      BY <2>1 DEF Finish, IsSessionError, Retryable
    <3>3. QED
      BY <1>1, <3>1, <3>2 DEF SecondAttempt
  <2>2. CASE RetryRequest(c)
    BY <1>1, <2>2, CallFacts DEF Inv, SessionErrorsAreExplained
  <2>3. CASE CallTool(c) \/ Initialized(c) \/ Notified(c) \/ Renew(c)
    <3>1. calls'[c].result = calls[c].result
      BY <1>1, <2>3, RequestFacts DEF Inv, TypeOK, Call, CallTool, Initialized, Notified, Renew
    <3>2. QED
      BY <1>1, <3>1 DEF Inv, SessionErrorsAreExplained
  <2>4. QED
    BY <2>1, <2>2, <2>3 DEF ClientStep
<1>4. QED
  BY <1>1, <1>2, <1>3 DEF Inv, SessionErrorsAreExplained

-----------------------------------------------------------------------------
LEMMA Initially ==
  ASSUME ConstantsAssumption, Init PROVE Inv
<1>1. TypeOK
  BY DEF Init, TypeOK, Call, ConstantsAssumption
<1>2. QED
  BY <1>1 DEF Init, Inv, SecondAttempt, SessionErrorsAreExplained

LEMMA Inductive ==
  ASSUME ConstantsAssumption, Inv, [Next]_vars PROVE Inv'
<1>1. CASE UNCHANGED vars
  BY <1>1 DEF vars, Inv, TypeOK, SecondAttempt, SessionErrorsAreExplained
<1>2. CASE Next
  <2>1. TypeOK'
    BY <1>2, TypeCorrect DEF Inv
  <2>2. ASSUME NEW c \in Callers, CallTool(c) \/ ClientStep(c) PROVE Inv'
    BY <2>1, <2>2, ClientSteps, ErrorsExplained DEF Inv
  <2>3. ASSUME NEW c \in Callers, ServerStep(c) PROVE Inv'
    <3>1. disturbed \subseteq disturbed'
      BY <1>2, DisturbedGrows
    <3>2. QED
      BY <2>1, <2>3, <3>1, ServerSteps DEF Inv, SessionErrorsAreExplained
  <2>4. ASSUME NEW s \in Sessions, Discard(s) PROVE Inv'
    <3>1. disturbed \subseteq disturbed'
      BY <1>2, DisturbedGrows
    <3>2. QED
      BY <2>1, <2>4, <3>1, DiscardStep DEF Inv, SessionErrorsAreExplained
  <2>5. QED
    BY <1>2, <2>2, <2>3, <2>4 DEF Next
<1>3. QED
  BY <1>1, <1>2

\* The call states of callTool and HttpClientService.request have their types,
\* whatever the number of callers, sessions and retries.
THEOREM TypeSafe == ASSUME ConstantsAssumption PROVE Spec => []TypeOK
<1>1. Inv => TypeOK
  BY DEF Inv
<1>2. QED
  BY Initially, Inductive, <1>1, PTL DEF Spec

\* A call of callTool fails with a session error only when its second attempt lost
\* its session to the server or to another caller of the same client.
THEOREM SessionErrors == ASSUME ConstantsAssumption PROVE Spec => []SessionErrorsAreExplained
<1>1. Inv => SessionErrorsAreExplained
  BY DEF Inv
<1>2. QED
  BY Initially, Inductive, <1>1, PTL DEF Spec

-----------------------------------------------------------------------------
(* How long a call can take.                                               *)

\* The requests of the attempt that follow the outstanding one.
Following(pc) == IF pc = "initialize" THEN 2 ELSE IF pc = "notify" THEN 1 ELSE 0

\* A request is sent and answered, as often as its retries allow.
PerRequest == 2 * Retries + 2

\* The sends and answers a call may still have before it ends: those of the
\* outstanding request, of the requests of this attempt and of the three of the
\* second.
StepsLeft(call) ==
  IF call.pc \in {"idle", "done"} THEN 0
  ELSE 2 * (Retries - call.attempt) + (IF call.reply = "none" THEN 2 ELSE 1)
       + PerRequest * (Following(call.pc) + (IF call.round = 1 THEN 3 ELSE 0))

EachStepCounts ==
  [][\A c \in Callers :
       /\ CallTool(c) => StepsLeft(calls'[c]) <= 12 * (Retries + 1)
       /\ ClientStep(c) \/ ServerStep(c) => StepsLeft(calls'[c]) < StepsLeft(calls[c])
       /\ calls[c].pc # "idle" =>
            calls'[c] = calls[c] \/ ClientStep(c) \/ ServerStep(c)]_vars

LEMMA StepsLeftType ==
  ASSUME ConstantsAssumption, NEW call \in Call
  PROVE  /\ StepsLeft(call) \in Nat /\ PerRequest \in Nat
         /\ call.pc \notin {"idle", "done"} =>
              StepsLeft(call) >=
                1 + PerRequest * (Following(call.pc) + (IF call.round = 1 THEN 3 ELSE 0))
<1>1. call.attempt \in 0..Retries /\ Retries \in Nat /\ PerRequest \in Nat
  BY DEF Call, ConstantsAssumption, PerRequest
<1>2. \A n \in {0, 1, 2, 3, 4, 5} : PerRequest * n \in Nat
  BY <1>1
<1>3. Following(call.pc) + (IF call.round = 1 THEN 3 ELSE 0) \in {0, 1, 2, 3, 4, 5}
  BY DEF Following
<1>4. PICK n \in Nat : n = PerRequest * (Following(call.pc) + (IF call.round = 1 THEN 3 ELSE 0))
  BY <1>2, <1>3
<1>5. QED
  BY <1>1, <1>4 DEF StepsLeft

\* A request that is begun has all its retries.
LEMMA BegunRequest ==
  ASSUME TypeOK, ConstantsAssumption, NEW c \in Callers, NEW sid \in Sessions \union {NoSession},
         NEW pc \in {"initialize", "notify", "tool"}, NEW round \in 1..2,
         Request(c, pc, sid, round)
  PROVE  StepsLeft(calls'[c]) =
           PerRequest + PerRequest * (Following(pc) + (IF round = 1 THEN 3 ELSE 0))
<1>1. /\ calls'[c].pc = pc /\ calls'[c].round = round
      /\ calls'[c].reply = "none" /\ calls'[c].attempt = 0
  BY DEF Request, TypeOK, Call
<1>2. 2 * (Retries - 0) + 2 = PerRequest
  BY DEF PerRequest, ConstantsAssumption
<1>3. QED
  BY <1>1, <1>2 DEF StepsLeft

\* An answer, whether or not it arrives, takes one.
LEMMA AnswerLowers ==
  ASSUME TypeOK, ConstantsAssumption, NEW c \in Callers, ServerStep(c)
  PROVE  StepsLeft(calls'[c]) < StepsLeft(calls[c])
<1>1. calls[c].pc \notin {"idle", "done"} /\ calls[c].reply = "none" /\ calls[c] \in Call
  BY DEF ServerStep, OpenSession, SessionReady, RunTool, Trouble, Outstanding, TypeOK
<1>2. PICK reply, fresh : reply \in Replies /\ Reply(c, reply, fresh)
  BY DEF ServerStep, OpenSession, SessionReady, RunTool, Trouble, Replies
<1>3. PICK r \in Replies :
        calls' = [calls EXCEPT ![c].reply = r, ![c].fresh = IF r = "ok" THEN fresh ELSE @]
  BY <1>2 DEF Reply, Replies
<1>4. /\ calls'[c].pc = calls[c].pc /\ calls'[c].round = calls[c].round
      /\ calls'[c].attempt = calls[c].attempt /\ calls'[c].reply # "none"
  BY <1>1, <1>3 DEF TypeOK, Call, Replies
<1>5. PICK rest \in Int :
        rest = PerRequest * (Following(calls[c].pc) + (IF calls[c].round = 1 THEN 3 ELSE 0))
  <2>1. Following(calls[c].pc) + (IF calls[c].round = 1 THEN 3 ELSE 0) \in Int
    BY DEF Following
  <2>2. PerRequest \in Int
    BY DEF PerRequest, ConstantsAssumption
  <2>3. QED
    BY <2>1, <2>2
<1>6. StepsLeft(calls[c]) = 2 * (Retries - calls[c].attempt) + 2 + rest
  BY <1>1, <1>5 DEF StepsLeft
<1>7. StepsLeft(calls'[c]) = 2 * (Retries - calls[c].attempt) + 1 + rest
  BY <1>1, <1>4, <1>5 DEF StepsLeft
<1>8. Retries \in Int /\ calls[c].attempt \in Int
  BY <1>1 DEF Call, ConstantsAssumption
<1>9. QED
  BY <1>6, <1>7, <1>8

\* So does what the client does with it: a retry, the next request, the second
\* attempt or the end.
LEMMA ClientLowers ==
  ASSUME TypeOK, ConstantsAssumption, NEW c \in Callers, ClientStep(c)
  PROVE  StepsLeft(calls'[c]) < StepsLeft(calls[c])
<1>1. /\ calls[c].pc \notin {"idle", "done"} /\ calls[c].reply # "none"
      /\ calls[c] \in Call /\ PerRequest \in Nat /\ StepsLeft(calls[c]) \in Nat
  BY StepsLeftType
  DEF ClientStep, RetryRequest, Initialized, Notified, Renew, Finish, Answered, TypeOK
<1>2. StepsLeft(calls[c]) >=
        1 + PerRequest * (Following(calls[c].pc) + (IF calls[c].round = 1 THEN 3 ELSE 0))
  BY <1>1, StepsLeftType
<1>3. CASE RetryRequest(c)
  <2>1. /\ calls'[c].pc = calls[c].pc /\ calls'[c].round = calls[c].round
        /\ calls'[c].attempt = calls[c].attempt + 1 /\ calls'[c].reply = "none"
    BY <1>1, <1>3 DEF RetryRequest, TypeOK, Call
  <2>2. PICK rest \in Int :
          rest = PerRequest * (Following(calls[c].pc) + (IF calls[c].round = 1 THEN 3 ELSE 0))
    <3>1. Following(calls[c].pc) + (IF calls[c].round = 1 THEN 3 ELSE 0) \in Int
      BY DEF Following
    <3>2. QED
      BY <1>1, <3>1
  <2>3. StepsLeft(calls[c]) = 2 * (Retries - calls[c].attempt) + 1 + rest
    BY <1>1, <2>2 DEF StepsLeft
  <2>4. StepsLeft(calls'[c]) = 2 * (Retries - (calls[c].attempt + 1)) + 2 + rest
    BY <1>1, <2>1, <2>2 DEF StepsLeft
  <2>5. Retries \in Int /\ calls[c].attempt \in Int
    BY <1>1 DEF Call, ConstantsAssumption
  <2>6. QED
    BY <2>3, <2>4, <2>5
<1>4. CASE Initialized(c)
  <2>1. Request(c, "notify", calls[c].fresh, calls[c].round) /\ calls[c].pc = "initialize"
        /\ calls[c].fresh \in Sessions \union {NoSession} /\ calls[c].round \in 1..2
    BY <1>1, <1>4 DEF Initialized, Call
  <2>2. StepsLeft(calls'[c]) =
          PerRequest + PerRequest * (1 + (IF calls[c].round = 1 THEN 3 ELSE 0))
    BY <2>1, BegunRequest DEF Following
  <2>3. StepsLeft(calls[c]) >= 1 + PerRequest * (2 + (IF calls[c].round = 1 THEN 3 ELSE 0))
    BY <1>2, <2>1 DEF Following
  <2>4. QED
    BY <1>1, <2>2, <2>3
<1>5. CASE Notified(c)
  <2>1. Request(c, "tool", sessionId, calls[c].round) /\ calls[c].pc = "notify"
        /\ sessionId \in Sessions \union {NoSession} /\ calls[c].round \in 1..2
    BY <1>1, <1>5 DEF Notified, Call, TypeOK
  <2>2. StepsLeft(calls'[c]) =
          PerRequest + PerRequest * (0 + (IF calls[c].round = 1 THEN 3 ELSE 0))
    BY <2>1, BegunRequest DEF Following
  <2>3. StepsLeft(calls[c]) >= 1 + PerRequest * (1 + (IF calls[c].round = 1 THEN 3 ELSE 0))
    BY <1>2, <2>1 DEF Following
  <2>4. QED
    BY <1>1, <2>2, <2>3
<1>6. CASE Renew(c)
  <2>1. Request(c, "initialize", NoSession, 2) /\ calls[c].round = 1
    BY <1>6 DEF Renew
  <2>2. StepsLeft(calls'[c]) = PerRequest + PerRequest * 2
    BY <2>1, BegunRequest DEF Following
  <2>3. StepsLeft(calls[c]) >= 1 + PerRequest * (Following(calls[c].pc) + 3)
    BY <1>2, <2>1
  <2>4. Following(calls[c].pc) \in {0, 1, 2}
    BY DEF Following
  <2>5. QED
    BY <1>1, <2>2, <2>3, <2>4
<1>7. CASE Finish(c)
  <2>1. calls'[c].pc = "done"
    BY <1>1, <1>7 DEF Finish, TypeOK, Call
  <2>2. StepsLeft(calls'[c]) = 0
    BY <2>1 DEF StepsLeft
  <2>3. Following(calls[c].pc) + (IF calls[c].round = 1 THEN 3 ELSE 0) \in Nat
    BY DEF Following
  <2>4. QED
    BY <1>1, <1>2, <2>2, <2>3
<1>8. QED
  BY <1>3, <1>4, <1>5, <1>6, <1>7 DEF ClientStep

\* A call of callTool never goes round in circles: whatever the server answers and
\* however often it discards a session, a call sends at most 6 * (Retries + 1)
\* requests, three in each of its two attempts and their retries, and no other
\* caller's step adds one.
THEOREM CallsAreShort == ASSUME ConstantsAssumption PROVE Spec => EachStepCounts
<1>1. ASSUME TypeOK, [Next]_vars, NEW c \in Callers
      PROVE  /\ CallTool(c) => StepsLeft(calls'[c]) <= 12 * (Retries + 1)
             /\ ClientStep(c) \/ ServerStep(c) => StepsLeft(calls'[c]) < StepsLeft(calls[c])
             /\ calls[c].pc # "idle" =>
                  calls'[c] = calls[c] \/ ClientStep(c) \/ ServerStep(c)
  <2>1. ASSUME CallTool(c) PROVE StepsLeft(calls'[c]) <= 12 * (Retries + 1)
    <3>1. Request(c, "tool", sessionId, 1) \/ Request(c, "initialize", NoSession, 1)
      BY <2>1 DEF CallTool
    <3>2. \/ StepsLeft(calls'[c]) = PerRequest + PerRequest * (0 + 3)
          \/ StepsLeft(calls'[c]) = PerRequest + PerRequest * (2 + 3)
      BY <1>1, <3>1, BegunRequest DEF Following, TypeOK
    <3>3. PerRequest = 2 * Retries + 2 /\ Retries \in Nat
      BY DEF PerRequest, ConstantsAssumption
    <3>4. QED
      BY <3>2, <3>3
  <2>2. ClientStep(c) \/ ServerStep(c) => StepsLeft(calls'[c]) < StepsLeft(calls[c])
    BY <1>1, ClientLowers, AnswerLowers
  <2>3. ASSUME calls[c].pc # "idle", calls'[c] # calls[c] PROVE ClientStep(c) \/ ServerStep(c)
    <3>1. PICK d \in Callers : CallTool(d) \/ ClientStep(d) \/ ServerStep(d)
      BY <1>1, <2>3 DEF Next, Discard, vars
    <3>2. \A e \in Callers \ {d} : calls'[e] = calls[e]
      <4>1. CASE CallTool(d) \/ ClientStep(d)
        BY <1>1, <4>1, OthersKept
      <4>2. CASE ServerStep(d)
        BY <1>1, <4>2 DEF ServerStep, OpenSession, SessionReady, RunTool, Trouble, Reply, TypeOK
      <4>3. QED
        BY <3>1, <4>1, <4>2
    <3>3. c = d
      BY <2>3, <3>2
    <3>4. QED
      BY <2>3, <3>1, <3>3 DEF CallTool
  <2>4. QED
    BY <2>1, <2>2, <2>3
<1>2. TypeOK /\ [Next]_vars =>
        [\A c \in Callers :
           /\ CallTool(c) => StepsLeft(calls'[c]) <= 12 * (Retries + 1)
           /\ ClientStep(c) \/ ServerStep(c) => StepsLeft(calls'[c]) < StepsLeft(calls[c])
           /\ calls[c].pc # "idle" =>
                calls'[c] = calls[c] \/ ClientStep(c) \/ ServerStep(c)]_vars
  BY <1>1
<1>3. QED
  BY <1>2, TypeSafe, PTL DEF Spec, EachStepCounts

-----------------------------------------------------------------------------
(* The cached reads.                                                       *)


\* Fact f held at most n ago.
Old(f, n) == f \in Tracked /\ last[f] <= n

\* What an entry tells held within its time and a flight.
EntryFits(k, entry) ==
  LET left == entry.left  value == entry.value IN
  left > 0 =>
    /\ k = "newest" =>
         \/ value = {"fund"} /\ Old("listed", LongTtl + Flight - left)
         \/ value = {} /\ Old("unlisted", LongTtl + Flight - left)
    /\ k = "older" => value = {"other"}
    /\ k = "news" =>
         \/ value = {"articles"} /\ Old("articles", LongTtl + Flight - left)
         \/ value = {} /\ Old("down", ShortTtl + Flight - left)
         \/ value = {} /\ Old("empty", LongTtl + Flight - left)
    /\ k = "live" =>
         \/ value = {"live"} /\ Old("quotes", ShortTtl + Flight - left)
         \/ value = {"eod"} /\ Old("no quotes", ShortTtl + Flight - left)
         \/ /\ value = {"unavailable"} /\ Old("no quotes", ShortTtl + Flight - left)
            /\ Old("no prices", ShortTtl + Flight - left)

\* The times within which an answer was right.
Long == LongTtl + Flight - 1
Short == ShortTtl + Flight - 1

\* What an answer says.
FeaturedTold(at, value) ==
  \/ at = 1 /\ value = {"fund"} /\ Old("listed", Long)
  \/ at = 1 /\ value = {} /\ Old("unlisted", Long)
  \/ at = 2 /\ value = {"other"}
NewsTold(value) ==
  \/ value = {"articles"} /\ Old("articles", Long)
  \/ value = {} /\ Old("empty", Long)
  \/ value = {} /\ Old("down", Short)
LiveTold(value) ==
  \/ value = {"live"} /\ Old("quotes", Short)
  \/ value = {"eod"} /\ Old("no quotes", Short)
  \/ value = {"unavailable"} /\ Old("no quotes", Short) /\ Old("no prices", Short)

\* A request for featured funds that walked on found the newest empty.
Walked(q) == ~q.explicit /\ q.at = 2
FeaturedFits(q) ==
  /\ q.pc \in {"lookup", "fetch", "store", "answered"}
  /\ Walked(q) => Old("unlisted", Long + q.age)
  /\ q.pc = "store" =>
       \/ q.at = 1 /\ q.value = {"fund"} /\ Old("listed", q.age)
       \/ q.at = 1 /\ q.value = {} /\ Old("unlisted", q.age)
       \/ q.at = 2 /\ q.value = {"other"}
  /\ q.pc = "answered" => FeaturedTold(q.at, q.value)

NewsFits(q) ==
  /\ q.pc \in {"lookup", "fetch", "store", "answered"}
  /\ q.pc = "store" =>
       \/ q.value = {"articles"} /\ Old("articles", q.age)
       \/ q.value = {} /\ Old("empty", q.age)
       \/ q.value = {"down"} /\ Old("down", q.age)
  /\ q.pc = "answered" => NewsTold(q.value)

\* The fund was visible when its row was read, and had no quote if another
\* source was asked.
LiveFits(q) ==
  /\ q.pc \in {"lookup", "fetch", "date", "history", "store"} => Old("visible", q.age)
  /\ q.pc \in {"date", "history"} => Old("no quotes", q.age)
  /\ q.pc = "store" =>
       \/ q.value = {"live"} /\ Old("quotes", q.age)
       \/ q.value = {"eod"} /\ Old("no quotes", q.age)
       \/ q.value = {"unavailable"} /\ Old("no quotes", q.age) /\ Old("no prices", q.age)
  /\ q.pc = "answered" =>
       \/ q.value = {"not found"} /\ Old("hidden", q.age)
       \/ Old("visible", q.age) /\ LiveTold(q.value)

ReadFits(q) ==
  q.pc # "idle" =>
    /\ q.service \in Services
    /\ q.service = "featured" => FeaturedFits(q)
    /\ q.service = "news" => NewsFits(q)
    /\ q.service = "live" => LiveFits(q)

\* What holds now is not old.
FactsFit == \A f \in Facts \cap Tracked : last[f] = 0

CachesInv ==
  /\ CachesTyped /\ FactsFit
  /\ \A k \in Keys : EntryFits(k, cache[k])
  /\ \A r \in Requests : ReadFits(reqs[r])

-----------------------------------------------------------------------------
LEMMA TrackedFacts ==
  ASSUME CachesAssumption
  PROVE  /\ "featured" \in Services => {"listed", "unlisted"} \subseteq Tracked
         /\ "news" \in Services => {"articles", "empty", "down"} \subseteq Tracked
         /\ "live" \in Services =>
              {"visible", "hidden", "quotes", "no quotes", "no prices"} \subseteq Tracked
BY DEF Tracked, CachesAssumption

\* Times pass for all facts alike, or start again.
LEMMA NotedFacts ==
  ASSUME CachesAssumption, CachesTyped, NEW age \in {0, 1}, Noted(age)
  PROVE  /\ last' \in [Tracked -> 0..Never] /\ FactsFit'
         /\ \A f \in Tracked : last'[f] <= last[f] + age
<1>1. Never \in Nat
  BY DEF Never, CachesAssumption
<1>2. \A f \in Tracked :
        /\ last[f] \in 0..Never
        /\ last'[f] = IF f \in Facts' THEN 0 ELSE IF last[f] + age > Never THEN Never ELSE last[f] + age
  BY DEF Noted, CachesTyped
<1>3. \A f \in Tracked :
        /\ last'[f] \in 0..Never /\ last'[f] <= last[f] + age
        /\ f \in Facts' => last'[f] = 0
  BY <1>1, <1>2
<1>4. last' \in [Tracked -> 0..Never]
  BY <1>3 DEF Noted
<1>5. QED
  BY <1>3, <1>4 DEF FactsFit, Tracked

\* A step of one request, which may fill one entry.
LEMMA StepKept ==
  ASSUME CachesInv, NEW r \in Requests, NEW q \in ReadRequest, ReadFits(q),
         NEW k \in Keys, NEW entry \in CacheEntry, EntryFits(k, entry),
         reqs' = [reqs EXCEPT ![r] = q], cache' = [cache EXCEPT ![k] = entry],
         UNCHANGED <<fund, world, last>>
  PROVE  CachesInv'
<1>1. /\ reqs' \in [Requests -> ReadRequest] /\ reqs'[r] = q
      /\ \A o \in Requests \ {r} : reqs'[o] = reqs[o]
      /\ cache' \in [Keys -> CacheEntry] /\ cache'[k] = entry
      /\ \A l \in Keys \ {k} : cache'[l] = cache[l]
  BY DEF CachesInv, CachesTyped
<1>2. CachesTyped' /\ FactsFit'
  BY <1>1 DEF CachesInv, CachesTyped, FactsFit, Facts, Listed
<1>3. \A l \in Keys : EntryFits(l, cache[l])'
  BY <1>1 DEF CachesInv, EntryFits, Old
<1>4. \A o \in Requests : ReadFits(reqs[o])'
  <2>1. TAKE o \in Requests
  <2>2. ReadFits(reqs'[o])
    BY <1>1 DEF CachesInv
  <2>3. QED
    BY <2>2 DEF ReadFits, FeaturedFits, NewsFits, LiveFits, Walked, FeaturedTold,
                     NewsTold, LiveTold, Old
<1>5. QED
  BY <1>2, <1>3, <1>4 DEF CachesInv

LEMMA QuietKept ==
  ASSUME CachesInv, NEW r \in Requests, NEW q \in ReadRequest, ReadFits(q),
         reqs' = [reqs EXCEPT ![r] = q], UNCHANGED <<fund, world, cache, last>>
  PROVE  CachesInv'
<1>1. PICK k \in Keys : TRUE
  BY DEF Keys
<1>2. cache[k] \in CacheEntry /\ EntryFits(k, cache[k]) /\ cache' = [cache EXCEPT ![k] = cache[k]]
  BY DEF CachesInv, CachesTyped
<1>3. QED
  BY <1>2, StepKept

-----------------------------------------------------------------------------
(* Time and the outside.                                                   *)

LEMMA OldAges ==
  ASSUME CachesInv, NEW age \in {0, 1}, \A f \in Tracked : last'[f] <= last[f] + age,
         last' \in [Tracked -> 0..Never], CachesAssumption, NEW f, NEW n \in Int, Old(f, n)
  PROVE  Old(f, n + age)'
<1>1. last[f] \in Int /\ last'[f] \in Int /\ last'[f] <= last[f] + age
  BY DEF CachesInv, CachesTyped, Old, Never, CachesAssumption
<1>2. QED
  BY <1>1 DEF Old

\* As time passes an entry has less left, and a request is older.
LEMMA EntryAges ==
  ASSUME CachesAssumption, CachesInv, NEW age \in {0, 1}, last' \in [Tracked -> 0..Never],
         \A f \in Tracked : last'[f] <= last[f] + age,
         NEW k \in Keys, NEW old \in CacheEntry, EntryFits(k, old), NEW new \in CacheEntry,
         new.value = old.value, new.left = old.left - age
  PROVE  EntryFits(k, new)'
<1> DEFINE long == LongTtl + Flight - old.left
           short == ShortTtl + Flight - old.left
<1>1. /\ long \in Int /\ short \in Int /\ old.left > new.left - 1
      /\ LongTtl + Flight - new.left = long + age /\ ShortTtl + Flight - new.left = short + age
  BY DEF CacheEntry, CachesAssumption
<1>2. new.left > 0 => old.left > 0
  BY DEF CacheEntry, CachesAssumption
<1>3. \A f : /\ Old(f, long) => Old(f, long + age)'
             /\ Old(f, short) => Old(f, short + age)'
  BY <1>1, OldAges
<1>4. ASSUME new.left > 0
      PROVE  EntryFits(k, new)'
  <2> old.left > 0
    BY <1>2, <1>4
  <2>1. /\ k = "newest" => \/ old.value = {"fund"} /\ Old("listed", long)
                           \/ old.value = {} /\ Old("unlisted", long)
        /\ k = "older" => old.value = {"other"}
        /\ k = "news" => \/ old.value = {"articles"} /\ Old("articles", long)
                         \/ old.value = {} /\ Old("down", short)
                         \/ old.value = {} /\ Old("empty", long)
        /\ k = "live" => \/ old.value = {"live"} /\ Old("quotes", short)
                         \/ old.value = {"eod"} /\ Old("no quotes", short)
                         \/ /\ old.value = {"unavailable"} /\ Old("no quotes", short)
                            /\ Old("no prices", short)
    BY DEF EntryFits
  <2> HIDE DEF long, short
  <2>2. QED
    BY <1>1, <1>3, <2>1 DEF EntryFits
<1>5. QED
  BY <1>4 DEF EntryFits

LEMMA ReadAges ==
  ASSUME CachesAssumption, CachesInv, NEW age \in {0, 1}, last' \in [Tracked -> 0..Never],
         \A f \in Tracked : last'[f] <= last[f] + age,
         NEW q \in ReadRequest, ReadFits(q), age = 1 => q.pc # "answered",
         NEW new \in ReadRequest, new.age = q.age + age, new.pc = q.pc,
         new.service = q.service, new.explicit = q.explicit, new.at = q.at,
         new.value = q.value
  PROVE  ReadFits(new)'
<1>1. /\ Long \in Int /\ Short \in Int /\ q.age \in Int /\ Long + q.age \in Int
      /\ Long + new.age = (Long + q.age) + age
  BY DEF Long, Short, ReadRequest, CachesAssumption
<1>2. \A f : /\ Old(f, q.age) => Old(f, new.age)'
             /\ Old(f, Long + q.age) => Old(f, Long + new.age)'
             /\ q.pc = "answered" /\ Old(f, Long) => Old(f, Long)'
             /\ q.pc = "answered" /\ Old(f, Short) => Old(f, Short)'
  <2>1. TAKE f
  <2>2. Old(f, q.age) => Old(f, new.age)'
    BY <1>1, OldAges
  <2>3. Old(f, Long + q.age) => Old(f, Long + new.age)'
    BY <1>1, OldAges
  <2>4. ASSUME age = 0, NEW n \in Int, Old(f, n)
        PROVE  Old(f, n)'
    <3>1. Old(f, n + age)' /\ n + age = n
      BY <2>4, OldAges
    <3>2. QED
      BY <3>1
  <2>5. QED
    BY <1>1, <2>2, <2>3, <2>4
<1> HIDE DEF Long, Short
<1>3. CASE q.service = "featured"
  BY <1>2, <1>3 DEF ReadFits, FeaturedFits, Walked, FeaturedTold
<1>4. CASE q.service = "news"
  BY <1>2, <1>4 DEF ReadFits, NewsFits, NewsTold
<1>5. CASE q.service = "live"
  BY <1>2, <1>5 DEF ReadFits, LiveFits, LiveTold
<1>6. QED
  BY <1>3, <1>4, <1>5 DEF ReadFits, ReadRequest

LEMMA TickKept ==
  ASSUME CachesAssumption, CachesInv, Tick
  PROVE  CachesInv'
<1>1. /\ last' \in [Tracked -> 0..Never] /\ FactsFit'
      /\ \A f \in Tracked : last'[f] <= last[f] + 1
  BY NotedFacts DEF Tick, CachesInv
<1>2. ASSUME NEW k \in Keys
      PROVE  cache'[k] \in CacheEntry /\ EntryFits(k, cache[k])'
  <2>1. cache[k] \in CacheEntry /\ EntryFits(k, cache[k])
    BY DEF CachesInv, CachesTyped
  <2>2. CASE cache[k].left = 0
    <3>1. cache'[k] = cache[k]
      BY <2>2 DEF Tick
    <3>2. ~(cache'[k].left > 0)
      BY <2>2, <3>1
    <3>3. EntryFits(k, cache[k])'
      BY <3>2 DEF EntryFits
    <3>4. QED
      BY <2>1, <3>1, <3>3
  <2>3. CASE cache[k].left # 0
    <3>1. cache'[k] = [cache[k] EXCEPT !.left = @ - 1]
      BY <2>3 DEF Tick
    <3>2. /\ cache'[k] \in CacheEntry /\ cache'[k].value = cache[k].value
          /\ cache'[k].left = cache[k].left - 1
      BY <2>1, <2>3, <3>1 DEF CacheEntry, CachesAssumption
    <3>3. EntryFits(k, cache[k])'
      BY <1>1, <2>1, <3>2, EntryAges
    <3>4. QED
      BY <3>2, <3>3
  <2>4. QED
    BY <2>2, <2>3
<1>3. ASSUME NEW r \in Requests
      PROVE  reqs'[r] \in ReadRequest /\ ReadFits(reqs[r])'
  <2>1. reqs[r] \in ReadRequest /\ ReadFits(reqs[r])
    BY DEF CachesInv, CachesTyped
  <2>2. CASE reqs[r].pc \in {"idle", "answered"}
    <3>1. reqs'[r] = Idle
      BY <2>2 DEF Tick
    <3>2. QED
      BY <3>1 DEF Idle, ReadRequest, ReadFits, Attempts, CachesAssumption
  <2>3. CASE reqs[r].pc \notin {"idle", "answered"}
    <3>1. reqs'[r] = [reqs[r] EXCEPT !.age = @ + 1] /\ reqs[r].age < Flight
      BY <2>3 DEF Tick
    <3>2. /\ reqs'[r] \in ReadRequest /\ reqs'[r].age = reqs[r].age + 1
          /\ reqs'[r].pc = reqs[r].pc /\ reqs'[r].service = reqs[r].service
          /\ reqs'[r].explicit = reqs[r].explicit /\ reqs'[r].at = reqs[r].at
          /\ reqs'[r].value = reqs[r].value
      BY <2>1, <3>1 DEF ReadRequest, CachesAssumption
    <3>3. ReadFits(reqs[r])'
      BY <1>1, <2>1, <2>3, <3>2, ReadAges
    <3>4. QED
      BY <3>2, <3>3
  <2>4. QED
    BY <2>2, <2>3
<1>4. CachesTyped'
  BY <1>1, <1>2, <1>3 DEF Tick, CachesInv, CachesTyped
<1>5. QED
  BY <1>1, <1>2, <1>3, <1>4 DEF CachesInv

\* What changes outside makes no fact older.
LEMMA OutsideKept ==
  ASSUME CachesAssumption, CachesInv, FundChanges \/ WorldChanges
  PROVE  CachesInv'
<1>1. UNCHANGED <<cache, reqs>> /\ Noted(0)
  BY DEF FundChanges, WorldChanges
<1>2. /\ last' \in [Tracked -> 0..Never] /\ FactsFit'
      /\ \A f \in Tracked : last'[f] <= last[f] + 0
  BY <1>1, NotedFacts DEF CachesInv
<1>3. /\ fund' \in [visible: BOOLEAN, score: Scores]
      /\ world' \in [news: {"articles", "empty", "down"}, quotes: BOOLEAN, prices: BOOLEAN]
  <2>1. /\ fund \in [visible: BOOLEAN, score: Scores]
        /\ world \in [news: {"articles", "empty", "down"}, quotes: BOOLEAN, prices: BOOLEAN]
    BY DEF CachesInv, CachesTyped
  <2>2. CASE FundChanges
    BY <2>1, <2>2 DEF FundChanges, Scores
  <2>3. CASE WorldChanges
    <3>1. CASE \E n \in {"articles", "empty", "down"} : world' = [world EXCEPT !.news = n]
      BY <2>1, <2>3, <3>1 DEF WorldChanges
    <3>2. CASE world' = [world EXCEPT !.quotes = ~@]
      BY <2>1, <2>3, <3>2 DEF WorldChanges
    <3>3. CASE world' = [world EXCEPT !.prices = ~@]
      BY <2>1, <2>3, <3>3 DEF WorldChanges
    <3>4. QED
      BY <2>1, <2>3, <3>1, <3>2, <3>3 DEF WorldChanges
  <2>4. QED
    BY <2>2, <2>3
<1>4. \A k \in Keys : EntryFits(k, cache[k])'
  <2>1. TAKE k \in Keys
  <2>2. cache[k] \in CacheEntry /\ EntryFits(k, cache[k]) /\ cache[k].left = cache[k].left - 0
    BY DEF CachesInv, CachesTyped, CacheEntry, CachesAssumption
  <2>3. QED
    BY <1>1, <1>2, <2>2, EntryAges
<1>5. \A r \in Requests : ReadFits(reqs[r])'
  <2>1. TAKE r \in Requests
  <2>2. reqs[r] \in ReadRequest /\ ReadFits(reqs[r]) /\ reqs[r].age = reqs[r].age + 0
    BY DEF CachesInv, CachesTyped, ReadRequest, CachesAssumption
  <2>3. QED
    BY <1>1, <1>2, <2>2, ReadAges
<1>6. QED
  BY <1>1, <1>2, <1>3, <1>4, <1>5 DEF CachesInv, CachesTyped

-----------------------------------------------------------------------------
(* The requests.                                                           *)

Pcs == {"idle", "row", "lookup", "fetch", "date", "history", "store", "answered"}

\* The request with another step, selection and value.
Moved(q, pc, at, value) ==
  [service |-> q.service, explicit |-> q.explicit, at |-> at, pc |-> pc, age |-> q.age,
   value |-> value]

Going(q, pc, value) == [q EXCEPT !.pc = pc, !.value = value]
WalkingOn(q, at) == [q EXCEPT !.pc = "lookup", !.at = at, !.value = {}]

LEMMA MovedIs ==
  ASSUME NEW q \in ReadRequest, NEW pc, NEW at, NEW value
  PROVE  /\ Going(q, pc, value) = Moved(q, pc, q.at, value)
         /\ WalkingOn(q, at) = Moved(q, "lookup", at, {})
<1> DEFINE Rec(p, n, v) ==
             [service |-> q.service, explicit |-> q.explicit, at |-> n, pc |-> p,
              age |-> q.age, value |-> v]
<1>1. q = Rec(q.pc, q.at, q.value)
  BY DEF ReadRequest
<1> DEFINE gone == Rec(pc, q.at, q.value)
           walked == Rec("lookup", q.at, q.value)
           next == Rec("lookup", at, q.value)
<1>2. /\ [q EXCEPT !.pc = pc, !.value = value] = [[q EXCEPT !.pc = pc] EXCEPT !.value = value]
      /\ [q EXCEPT !.pc = "lookup", !.at = at, !.value = {}] =
            [[[q EXCEPT !.pc = "lookup"] EXCEPT !.at = at] EXCEPT !.value = {}]
  BY DEF ReadRequest
<1>3. [q EXCEPT !.pc = pc] = gone /\ [q EXCEPT !.pc = "lookup"] = walked
  BY <1>1
<1>4. [gone EXCEPT !.value = value] = Rec(pc, q.at, value)
  OBVIOUS
<1>5. [walked EXCEPT !.at = at] = next
  OBVIOUS
<1>6. [next EXCEPT !.value = {}] = Rec("lookup", at, {})
  OBVIOUS
<1> HIDE DEF Rec, gone, walked, next
<1>7. /\ Going(q, pc, value) = Rec(pc, q.at, value)
      /\ WalkingOn(q, at) = Rec("lookup", at, {})
  BY <1>2, <1>3, <1>4, <1>5, <1>6 DEF Going, WalkingOn
<1>8. QED
  BY <1>7 DEF Rec, Moved

LEMMA MovedTyped ==
  ASSUME NEW q \in ReadRequest, NEW pc \in Pcs, NEW at \in DOMAIN Attempts,
         NEW value \in SUBSET Shown
  PROVE  Moved(q, pc, at, value) \in ReadRequest
BY DEF Moved, ReadRequest, Pcs

LEMMA OldEases ==
  ASSUME CachesAssumption, CachesTyped, NEW f, NEW m \in Int, NEW n \in Int, Old(f, m), m <= n
  PROVE  Old(f, n)
<1>1. f \in Tracked => last[f] \in Int
  BY DEF CachesTyped, Never, CachesAssumption
<1>2. QED
  BY <1>1 DEF Old

LEMMA FactsNow ==
  ASSUME CachesInv, CachesAssumption, NEW f \in Facts, f \in Tracked, NEW n \in Nat
  PROVE  Old(f, n)
BY DEF CachesInv, FactsFit, Old

LEMMA GoesKept ==
  ASSUME CachesInv, NEW r \in Requests, NEW pc \in Pcs, NEW value \in SUBSET Shown,
         Goes(r, pc, value), UNCHANGED cache, Outside,
         ReadFits(Moved(reqs[r], pc, reqs[r].at, value))
  PROVE  CachesInv'
<1>1. reqs[r] \in ReadRequest /\ reqs[r].at \in DOMAIN Attempts
  BY DEF CachesInv, CachesTyped, ReadRequest
<1>2. reqs' = [reqs EXCEPT ![r] = [reqs[r] EXCEPT !.pc = pc, !.value = value]]
  BY DEF Goes, CachesInv, CachesTyped
<1>3. reqs' = [reqs EXCEPT ![r] = Going(reqs[r], pc, value)]
  BY <1>2 DEF Going
<1>4. /\ Moved(reqs[r], pc, reqs[r].at, value) \in ReadRequest
      /\ Going(reqs[r], pc, value) = Moved(reqs[r], pc, reqs[r].at, value)
  BY <1>1, MovedIs, MovedTyped
<1>5. QED
  BY <1>3, <1>4, QuietKept DEF Outside

\* An answer, or the walk to the next selection, which may fill an entry.
LEMMA ServedKept ==
  ASSUME CachesAssumption, CachesInv, NEW r \in Requests, NEW value \in SUBSET Shown,
         Served(r, value), reqs[r].pc \in {"lookup", "store"},
         reqs[r].service = "featured" => FeaturedTold(reqs[r].at, value),
         reqs[r].service = "news" => NewsTold(value),
         reqs[r].service = "live" => LiveTold(value),
         NEW k \in Keys, NEW entry \in CacheEntry, EntryFits(k, entry),
         cache' = [cache EXCEPT ![k] = entry], Outside
  PROVE  CachesInv'
<1> DEFINE q == reqs[r]
<1>1. /\ q \in ReadRequest /\ ReadFits(q) /\ q.at \in DOMAIN Attempts
      /\ q.age \in Nat /\ Long \in Int
  BY DEF CachesInv, CachesTyped, ReadRequest, Long, CachesAssumption
<1>2. DOMAIN Attempts = {1, 2} /\ Len(Attempts) = 2
  BY DEF Attempts
<1>3. CASE q.service = "featured" /\ ~q.explicit /\ value = {} /\ q.at < Len(Attempts)
  <2> DEFINE new == Moved(q, "lookup", q.at + 1, {})
  <2>1. q.at = 1 /\ q.at + 1 = 2 /\ q.at + 1 \in DOMAIN Attempts
    BY <1>1, <1>2, <1>3
  <2>2. reqs' = [reqs EXCEPT ![r] = [q EXCEPT !.pc = "lookup", !.at = q.at + 1, !.value = {}]]
    BY <1>3 DEF Served, CachesInv, CachesTyped
  <2>3. new \in ReadRequest /\ reqs' = [reqs EXCEPT ![r] = new]
    <3>1. reqs' = [reqs EXCEPT ![r] = WalkingOn(q, q.at + 1)]
      BY <2>2 DEF WalkingOn
    <3>2. WalkingOn(q, q.at + 1) = new
      BY <1>1, MovedIs
    <3>3. new \in ReadRequest
      BY <1>1, <2>1, MovedTyped DEF Pcs
    <3>4. QED
      BY <3>1, <3>2, <3>3
  <2>4. Old("unlisted", Long)
    BY <1>3 DEF FeaturedTold
  <2>5. Old("unlisted", Long + q.age)
    <3>1. Long + q.age \in Int /\ Long <= Long + q.age
      BY <1>1
    <3>2. QED
      BY <1>1, <2>4, <3>1, OldEases DEF CachesInv
  <2>6. ReadFits(new)
    BY <1>1, <1>3, <2>5 DEF ReadFits, FeaturedFits, Moved
  <2>7. QED
    BY <2>3, <2>6, StepKept DEF Outside
<1>4. CASE ~(q.service = "featured" /\ ~q.explicit /\ value = {} /\ q.at < Len(Attempts))
  <2> DEFINE new == Moved(q, "answered", q.at, value)
  <2>1. Goes(r, "answered", value)
    BY <1>4 DEF Served
  <2>2. reqs' = [reqs EXCEPT ![r] = [q EXCEPT !.pc = "answered", !.value = value]]
    BY <2>1 DEF Goes, CachesInv, CachesTyped
  <2>3. new \in ReadRequest /\ reqs' = [reqs EXCEPT ![r] = new]
    <3>1. reqs' = [reqs EXCEPT ![r] = Going(q, "answered", value)]
      BY <2>2 DEF Going
    <3>2. Going(q, "answered", value) = new
      BY <1>1, MovedIs
    <3>3. new \in ReadRequest
      BY <1>1, MovedTyped DEF Pcs
    <3>4. QED
      BY <3>1, <3>2, <3>3
  <2>4. /\ new.service = q.service /\ new.explicit = q.explicit /\ new.at = q.at
        /\ new.age = q.age /\ new.pc = "answered" /\ new.value = value
    BY DEF Moved
  <2>5. ReadFits(new)
    <3> HIDE DEF new
    <3>1. q.service = "featured" => FeaturedFits(new)
      BY <1>1, <2>4 DEF ReadFits, FeaturedFits, Walked
    <3>2. q.service = "news" => NewsFits(new)
      BY <1>1, <2>4 DEF ReadFits, NewsFits
    <3>3. q.service = "live" => LiveFits(new)
      BY <1>1, <2>4 DEF ReadFits, LiveFits
    <3>4. QED
      BY <1>1, <2>4, <3>1, <3>2, <3>3 DEF ReadFits
  <2>6. QED
    BY <2>3, <2>5, StepKept DEF Outside
<1>5. QED
  BY <1>3, <1>4

LEMMA AskKept ==
  ASSUME CachesAssumption, CachesInv, NEW r \in Requests, Ask(r)
  PROVE  CachesInv'
<1>1. PICK s \in Services, explicit \in BOOLEAN, at \in DOMAIN Attempts :
        /\ at > 1 => explicit
        /\ reqs' = [reqs EXCEPT ![r] =
             [service |-> s, pc |-> IF s = "live" THEN "row" ELSE "lookup",
              explicit |-> explicit, at |-> at, age |-> 0, value |-> {}]]
  BY DEF Ask
<1> DEFINE q == [service |-> s, pc |-> IF s = "live" THEN "row" ELSE "lookup",
                 explicit |-> explicit, at |-> at, age |-> 0, value |-> {}]
<1>2. q \in ReadRequest
  BY DEF ReadRequest, CachesAssumption
<1>3. ReadFits(q)
  BY <1>1 DEF ReadFits, FeaturedFits, NewsFits, LiveFits, Walked
<1> HIDE DEF q
<1>4. QED
  <2>1. reqs' = [reqs EXCEPT ![r] = q]
    BY <1>1 DEF q
  <2>2. QED
    BY <1>2, <1>3, <2>1, QuietKept DEF Ask, Outside

LEMMA FactsOfToday ==
  ASSUME CachesAssumption, CachesInv, NEW n \in Nat
  PROVE  /\ "featured" \in Services =>
              IF Listed THEN Old("listed", n) ELSE Old("unlisted", n)
         /\ "news" \in Services => Old(world.news, n)
         /\ "live" \in Services =>
              /\ IF fund.visible THEN Old("visible", n) ELSE Old("hidden", n)
              /\ IF world.quotes THEN Old("quotes", n) ELSE Old("no quotes", n)
              /\ ~world.prices => Old("no prices", n)
<1>1. \A f \in Facts \cap Tracked : Old(f, n)
  BY DEF CachesInv, FactsFit, Old
<1>2. /\ IF Listed THEN "listed" \in Facts ELSE "unlisted" \in Facts
      /\ IF fund.visible THEN "visible" \in Facts ELSE "hidden" \in Facts
      /\ world.news \in Facts
      /\ IF world.quotes THEN "quotes" \in Facts ELSE "no quotes" \in Facts
      /\ ~world.prices => "no prices" \in Facts
  BY DEF Facts
<1>3. world.news \in {"articles", "empty", "down"}
  BY DEF CachesInv, CachesTyped
<1>4. QED
  BY <1>1, <1>2, <1>3, TrackedFacts

LEMMA RowKept ==
  ASSUME CachesAssumption, CachesInv, NEW r \in Requests, ReadRow(r)
  PROVE  CachesInv'
<1> DEFINE q == reqs[r]
<1>1. /\ q \in ReadRequest /\ ReadFits(q) /\ q.pc = "row" /\ q.age \in Nat
      /\ UNCHANGED cache /\ Outside
  <2>1. q \in ReadRequest /\ ReadFits(q)
    BY DEF CachesInv, CachesTyped
  <2>2. q.age \in Nat
    BY <2>1 DEF ReadRequest, CachesAssumption
  <2>3. QED
    BY <2>1, <2>2 DEF ReadRow
<1>2. q.service = "live" /\ "live" \in Services
  BY <1>1 DEF ReadFits, FeaturedFits, NewsFits, ReadRequest
<1>3. CASE fund.visible
  <2>1. Goes(r, "lookup", {}) /\ {} \in SUBSET Shown
    BY <1>3 DEF ReadRow
  <2>2. Old("visible", q.age)
    BY <1>1, <1>2, <1>3, FactsOfToday
  <2>3. ReadFits(Moved(q, "lookup", q.at, {}))
    BY <1>2, <2>2 DEF ReadFits, LiveFits, Moved
  <2>4. QED
    BY <1>1, <2>1, <2>3, GoesKept DEF Pcs
<1>4. CASE ~fund.visible
  <2>1. Goes(r, "answered", {"not found"}) /\ {"not found"} \in SUBSET Shown
    BY <1>4 DEF ReadRow, Shown
  <2>2. Old("hidden", q.age)
    BY <1>1, <1>2, <1>4, FactsOfToday
  <2>3. ReadFits(Moved(q, "answered", q.at, {"not found"}))
    BY <1>2, <2>2 DEF ReadFits, LiveFits, Moved
  <2>4. QED
    BY <1>1, <2>1, <2>3, GoesKept DEF Pcs
<1>5. QED
  BY <1>3, <1>4

\* What a cached entry tells is within the time of the cache and a flight.
LEMMA HitTells ==
  ASSUME CachesAssumption, CachesInv, NEW k \in Keys, Hit(k)
  PROVE  LET value == cache[k].value IN
         /\ k = "newest" => FeaturedTold(1, value)
         /\ k = "older" => FeaturedTold(2, value)
         /\ k = "news" => NewsTold(value)
         /\ k = "live" => LiveTold(value)
<1> DEFINE left == cache[k].left
           long == LongTtl + Flight - left
           short == ShortTtl + Flight - left
<1>1. EntryFits(k, cache[k]) /\ left > 0 /\ left \in Nat
  BY DEF Hit, CachesInv, CachesTyped, CacheEntry, CachesAssumption
<1>2. long \in Int /\ short \in Int /\ Long \in Int /\ Short \in Int /\ long <= Long /\ short <= Short
  BY <1>1 DEF Long, Short, CachesAssumption
<1>3. \A f : (Old(f, long) => Old(f, Long)) /\ (Old(f, short) => Old(f, Short))
  <2> HIDE DEF long, short
  <2>1. QED
    BY <1>2, OldEases DEF CachesInv
<1>4. /\ k = "newest" => \/ cache[k].value = {"fund"} /\ Old("listed", long)
                         \/ cache[k].value = {} /\ Old("unlisted", long)
      /\ k = "older" => cache[k].value = {"other"}
      /\ k = "news" => \/ cache[k].value = {"articles"} /\ Old("articles", long)
                       \/ cache[k].value = {} /\ Old("down", short)
                       \/ cache[k].value = {} /\ Old("empty", long)
      /\ k = "live" => \/ cache[k].value = {"live"} /\ Old("quotes", short)
                       \/ cache[k].value = {"eod"} /\ Old("no quotes", short)
                       \/ /\ cache[k].value = {"unavailable"} /\ Old("no quotes", short)
                          /\ Old("no prices", short)
  BY <1>1 DEF EntryFits
<1> HIDE DEF long, short
<1>5. QED
  BY <1>3, <1>4 DEF FeaturedTold, NewsTold, LiveTold

LEMMA KeyOf ==
  ASSUME CachesInv, NEW r \in Requests
  PROVE  /\ Key(r) \in Keys
         /\ reqs[r].service = "news" => Key(r) = "news"
         /\ reqs[r].service = "live" => Key(r) = "live"
         /\ reqs[r].service = "featured" =>
              \/ reqs[r].at = 1 /\ Key(r) = "newest"
              \/ reqs[r].at = 2 /\ Key(r) = "older"
<1>1. reqs[r].service \in {"featured", "news", "live"} /\ reqs[r].at \in {1, 2}
  BY DEF CachesInv, CachesTyped, ReadRequest, Attempts
<1>2. QED
  BY <1>1 DEF Key, Keys, Attempts

LEMMA LookUpKept ==
  ASSUME CachesAssumption, CachesInv, NEW r \in Requests, LookUp(r)
  PROVE  CachesInv'
<1> DEFINE q == reqs[r]
           k == Key(r)
<1>1. /\ q \in ReadRequest /\ ReadFits(q) /\ q.pc = "lookup"
      /\ k \in Keys /\ cache[k] \in CacheEntry /\ EntryFits(k, cache[k])
      /\ cache' = [cache EXCEPT ![k] = cache[k]]
      /\ UNCHANGED cache /\ Outside
  BY KeyOf DEF CachesInv, CachesTyped, LookUp
<1>2. CASE Hit(k)
  <2>1. Served(r, cache[k].value) /\ cache[k].value \in SUBSET Shown
    BY <1>1, <1>2 DEF LookUp, CacheEntry
  <2>2. /\ q.service = "featured" => FeaturedTold(q.at, cache[k].value)
        /\ q.service = "news" => NewsTold(cache[k].value)
        /\ q.service = "live" => LiveTold(cache[k].value)
    BY <1>1, <1>2, HitTells, KeyOf
  <2> HIDE DEF k
  <2>3. QED
    BY <1>1, <2>1, <2>2, ServedKept
<1>3. CASE ~Hit(k)
  <2>1. Goes(r, "fetch", {}) /\ {} \in SUBSET Shown
    BY <1>3 DEF LookUp
  <2>2. ReadFits(Moved(q, "fetch", q.at, {}))
    BY <1>1 DEF ReadFits, FeaturedFits, NewsFits, LiveFits, Walked, Moved
  <2>3. QED
    BY <1>1, <2>1, <2>2, GoesKept DEF Pcs
<1>4. QED
  BY <1>2, <1>3

\* What a fetch brings is right as it comes.
LEMMA FetchKept ==
  ASSUME CachesAssumption, CachesInv, NEW r \in Requests,
         \/ FetchFeatured(r) \/ FetchNews(r) \/ FetchQuote(r)
         \/ ReadLatestDate(r) \/ ReadClose(r)
  PROVE  CachesInv'
<1> DEFINE q == reqs[r]
<1>1. q \in ReadRequest /\ ReadFits(q)
  BY DEF CachesInv, CachesTyped
<1>2. q.age \in Nat /\ q.service \in {"featured", "news", "live"}
  BY <1>1 DEF ReadRequest, CachesAssumption
<1>3. UNCHANGED cache /\ Outside
  BY DEF FetchFeatured, FetchNews, FetchQuote, ReadLatestDate, ReadClose
<1>4. CASE FetchFeatured(r)
  <2>1. q.pc = "fetch" /\ q.service = "featured" /\ "featured" \in Services
    BY <1>1, <1>4 DEF FetchFeatured, ReadFits
  <2>2. Goes(r, "store", Hydrated(Key(r))) /\ Hydrated(Key(r)) \in SUBSET Shown
    BY <1>4 DEF FetchFeatured, Hydrated, Shown
  <2>3. /\ q.at = 1 => Hydrated(Key(r)) = IF Listed THEN {"fund"} ELSE {}
        /\ q.at = 2 => Hydrated(Key(r)) = {"other"}
        /\ q.at = 1 \/ q.at = 2
    BY <2>1, KeyOf DEF Hydrated
  <2>4. IF Listed THEN Old("listed", q.age) ELSE Old("unlisted", q.age)
    BY <1>2, <2>1, FactsOfToday
  <2>5. FeaturedFits(Moved(q, "store", q.at, Hydrated(Key(r))))
    BY <1>1, <2>1, <2>3, <2>4 DEF ReadFits, FeaturedFits, Walked, Moved
  <2>6. ReadFits(Moved(q, "store", q.at, Hydrated(Key(r))))
    BY <2>1, <2>5 DEF ReadFits, Moved
  <2>7. QED
    BY <1>3, <2>2, <2>6, GoesKept DEF Pcs
<1>5. CASE FetchNews(r)
  <2> DEFINE v == IF world.news = "empty" THEN {} ELSE {world.news}
  <2>1. q.pc = "fetch" /\ q.service = "news" /\ "news" \in Services
    BY <1>1, <1>5 DEF FetchNews, ReadFits
  <2>2. world.news \in {"articles", "empty", "down"} /\ Old(world.news, q.age)
    BY <1>2, <2>1, FactsOfToday DEF CachesInv, CachesTyped
  <2>3. Goes(r, "store", v) /\ v \in SUBSET Shown
    BY <1>5, <2>2 DEF FetchNews, Shown
  <2>4. ReadFits(Moved(q, "store", q.at, v))
    BY <2>1, <2>2 DEF ReadFits, NewsFits, Moved
  <2> HIDE DEF v
  <2>5. QED
    BY <1>3, <2>3, <2>4, GoesKept DEF Pcs
<1>6. ASSUME FetchQuote(r) \/ ReadLatestDate(r) \/ ReadClose(r)
      PROVE  q.service = "live" /\ "live" \in Services /\ Old("visible", q.age)
  <2>1. q.pc \in {"fetch", "date", "history"} /\ (q.pc = "fetch" => q.service = "live")
    BY <1>6 DEF FetchQuote, ReadLatestDate, ReadClose
  <2>2. q.service = "live" /\ "live" \in Services /\ LiveFits(q)
    BY <1>1, <1>2, <2>1 DEF ReadFits, FeaturedFits, NewsFits
  <2>3. QED
    BY <2>1, <2>2 DEF LiveFits
<1>7. ASSUME q.pc \in {"date", "history"}, q.service = "live"
      PROVE  Old("no quotes", q.age)
  BY <1>1, <1>7 DEF ReadFits, LiveFits
<1>8. CASE FetchQuote(r)
  <2>1. CASE world.quotes
    <3>1. Goes(r, "store", {"live"}) /\ {"live"} \in SUBSET Shown
      BY <1>8, <2>1 DEF FetchQuote, Shown
    <3>2. Old("quotes", q.age)
      BY <1>2, <1>6, <1>8, <2>1, FactsOfToday
    <3>3. ReadFits(Moved(q, "store", q.at, {"live"}))
      BY <1>6, <1>8, <3>2 DEF ReadFits, LiveFits, Moved
    <3>4. QED
      BY <1>3, <3>1, <3>3, GoesKept DEF Pcs
  <2>2. CASE ~world.quotes
    <3>1. Goes(r, "date", {}) /\ {} \in SUBSET Shown
      BY <1>8, <2>2 DEF FetchQuote
    <3>2. Old("no quotes", q.age)
      BY <1>2, <1>6, <1>8, <2>2, FactsOfToday
    <3>3. ReadFits(Moved(q, "date", q.at, {}))
      BY <1>6, <1>8, <3>2 DEF ReadFits, LiveFits, Moved
    <3>4. QED
      BY <1>3, <3>1, <3>3, GoesKept DEF Pcs
  <2>3. QED
    BY <2>1, <2>2
<1>9. CASE ReadLatestDate(r)
  <2>1. q.pc = "date" /\ Old("no quotes", q.age)
    BY <1>6, <1>7, <1>9 DEF ReadLatestDate
  <2>2. CASE world.prices
    <3>1. Goes(r, "history", {}) /\ {} \in SUBSET Shown
      BY <1>9, <2>2 DEF ReadLatestDate
    <3>2. ReadFits(Moved(q, "history", q.at, {}))
      BY <1>6, <1>9, <2>1 DEF ReadFits, LiveFits, Moved
    <3>3. QED
      BY <1>3, <3>1, <3>2, GoesKept DEF Pcs
  <2>3. CASE ~world.prices
    <3>1. Goes(r, "store", {"unavailable"}) /\ {"unavailable"} \in SUBSET Shown
      BY <1>9, <2>3 DEF ReadLatestDate, Shown
    <3>2. Old("no prices", q.age)
      BY <1>2, <1>6, <1>9, <2>3, FactsOfToday
    <3>3. ReadFits(Moved(q, "store", q.at, {"unavailable"}))
      BY <1>6, <1>9, <2>1, <3>2 DEF ReadFits, LiveFits, Moved
    <3>4. QED
      BY <1>3, <3>1, <3>3, GoesKept DEF Pcs
  <2>4. QED
    BY <2>2, <2>3
<1>10. CASE ReadClose(r)
  <2> DEFINE v == {IF world.prices THEN "eod" ELSE "unavailable"}
  <2>1. q.pc = "history" /\ Old("no quotes", q.age)
    BY <1>6, <1>7, <1>10 DEF ReadClose
  <2>2. Goes(r, "store", v) /\ v \in SUBSET Shown
    BY <1>10 DEF ReadClose, Shown
  <2>3. ~world.prices => Old("no prices", q.age)
    BY <1>2, <1>6, <1>10, FactsOfToday
  <2>4. ReadFits(Moved(q, "store", q.at, v))
    BY <1>6, <1>10, <2>1, <2>3 DEF ReadFits, LiveFits, Moved
  <2> HIDE DEF v
  <2>5. QED
    BY <1>3, <2>2, <2>4, GoesKept DEF Pcs
<1>11. QED
  BY <1>4, <1>5, <1>8, <1>9, <1>10

\* The time of an entry starts when it is stored, at most a flight after what
\* it tells was read.
LEMMA StoreKept ==
  ASSUME CachesAssumption, CachesInv, NEW r \in Requests, Store(r)
  PROVE  CachesInv'
<1> DEFINE q == reqs[r]
           k == Key(r)
           value == Remembered(r)
           entry == [left |-> Ttl(r), value |-> value]
<1>1. /\ q \in ReadRequest /\ ReadFits(q) /\ q.pc = "store" /\ k \in Keys
      /\ cache' = [cache EXCEPT ![k] = entry] /\ Served(r, value) /\ Outside
  BY KeyOf DEF CachesInv, CachesTyped, Store
<1>2. /\ q.age \in Int /\ 0 <= q.age /\ q.age <= Flight /\ Flight \in Int
      /\ Long \in Int /\ Short \in Int /\ Flight <= Long /\ Flight <= Short
      /\ q.service \in {"featured", "news", "live"} /\ q.value \in SUBSET Shown
  BY <1>1 DEF ReadRequest, CachesAssumption, Long, Short
<1>3. \A f : Old(f, q.age) => Old(f, Flight) /\ Old(f, Long) /\ Old(f, Short)
  <2>1. q.age <= Long /\ q.age <= Short
    BY <1>2
  <2>2. QED
    BY <1>2, <2>1, OldEases DEF CachesInv
<1>4. value \in SUBSET Shown
  BY <1>2 DEF Remembered
<1>5. entry \in CacheEntry
  BY <1>4 DEF CacheEntry, Ttl, CachesAssumption
<1>6. /\ LongTtl + Flight - LongTtl = Flight /\ ShortTtl + Flight - ShortTtl = Flight
      /\ LongTtl > 0 /\ ShortTtl > 0
  BY DEF CachesAssumption
<1>7. CASE q.service = "featured"
  <2>1. /\ \/ q.at = 1 /\ q.value = {"fund"} /\ Old("listed", q.age)
           \/ q.at = 1 /\ q.value = {} /\ Old("unlisted", q.age)
           \/ q.at = 2 /\ q.value = {"other"}
        /\ \/ q.at = 1 /\ k = "newest"
           \/ q.at = 2 /\ k = "older"
    BY <1>1, <1>7, KeyOf DEF ReadFits, FeaturedFits
  <2>2. Ttl(r) = LongTtl /\ value = q.value
    BY <1>7, <2>1 DEF Ttl, Remembered
  <2>3. FeaturedTold(q.at, value)
    BY <1>3, <2>1, <2>2 DEF FeaturedTold
  <2>4. EntryFits(k, entry)
    <3> HIDE DEF k, value
    <3>1. /\ k = "newest" => \/ value = {"fund"} /\ Old("listed", Flight)
                             \/ value = {} /\ Old("unlisted", Flight)
          /\ k = "older" => value = {"other"}
          /\ k # "news" /\ k # "live"
      BY <1>3, <2>1, <2>2
    <3>2. entry.value = value /\ LongTtl + Flight - entry.left = Flight
      BY <1>6, <2>2
    <3> HIDE DEF entry
    <3>3. QED
      BY <3>1, <3>2 DEF EntryFits
  <2> HIDE DEF k, value, entry
  <2>5. QED
    BY <1>1, <1>4, <1>5, <1>7, <2>3, <2>4, ServedKept
<1>8. CASE q.service = "news"
  <2>1. /\ \/ q.value = {"articles"} /\ Old("articles", q.age)
           \/ q.value = {} /\ Old("empty", q.age)
           \/ q.value = {"down"} /\ Old("down", q.age)
        /\ k = "news"
    BY <1>1, <1>8, KeyOf DEF ReadFits, NewsFits
  <2>2. /\ q.value = {"down"} => Ttl(r) = ShortTtl /\ value = {}
        /\ q.value # {"down"} => Ttl(r) = LongTtl /\ value = q.value
    BY <1>8 DEF Ttl, Remembered
  <2>3. NewsTold(value)
    BY <1>3, <2>1, <2>2 DEF NewsTold
  <2>4. EntryFits(k, entry)
    <3> HIDE DEF k, value
    <3>1. QED
      BY <1>3, <1>6, <2>1, <2>2 DEF EntryFits
  <2> HIDE DEF k, value, entry
  <2>5. QED
    BY <1>1, <1>4, <1>5, <1>8, <2>3, <2>4, ServedKept
<1>9. CASE q.service = "live"
  <2>1. /\ \/ q.value = {"live"} /\ Old("quotes", q.age)
           \/ q.value = {"eod"} /\ Old("no quotes", q.age)
           \/ q.value = {"unavailable"} /\ Old("no quotes", q.age) /\ Old("no prices", q.age)
        /\ k = "live"
    BY <1>1, <1>9, KeyOf DEF ReadFits, LiveFits
  <2>2. Ttl(r) = ShortTtl /\ value = q.value
    BY <1>9, <2>1 DEF Ttl, Remembered
  <2>3. LiveTold(value)
    BY <1>3, <2>1, <2>2 DEF LiveTold
  <2>4. EntryFits(k, entry)
    <3> HIDE DEF k, value
    <3>1. QED
      BY <1>3, <1>6, <2>1, <2>2 DEF EntryFits
  <2> HIDE DEF k, value, entry
  <2>5. QED
    BY <1>1, <1>4, <1>5, <1>9, <2>3, <2>4, ServedKept
<1>10. QED
  BY <1>2, <1>7, <1>8, <1>9

-----------------------------------------------------------------------------
(* The invariant of every behaviour.                                       *)

LEMMA CachesInitially ==
  ASSUME CachesAssumption, CachesInit
  PROVE  CachesInv
<1>1. 0 \in 0..Never /\ Never \in 0..Never
  BY DEF Never, CachesAssumption
<1>2. last \in [Tracked -> 0..Never]
  BY <1>1 DEF CachesInit
<1>3. Idle \in ReadRequest
  BY DEF Idle, ReadRequest, Attempts, CachesAssumption
<1>4. [left |-> 0, value |-> {}] \in CacheEntry
  BY DEF CacheEntry, CachesAssumption
<1>5. /\ fund \in [visible: BOOLEAN, score: Scores]
      /\ world \in [news: {"articles", "empty", "down"}, quotes: BOOLEAN, prices: BOOLEAN]
  BY DEF CachesInit, Scores
<1>6. CachesTyped
  BY <1>2, <1>3, <1>4, <1>5 DEF CachesInit, CachesTyped
<1>7. FactsFit
  BY DEF CachesInit, FactsFit
<1>8. \A k \in Keys : EntryFits(k, cache[k])
  <2>1. \A k \in Keys : ~(cache[k].left > 0)
    BY DEF CachesInit
  <2>2. QED
    BY <2>1 DEF EntryFits
<1>9. \A r \in Requests : ReadFits(reqs[r])
  BY DEF CachesInit, ReadFits, Idle
<1>10. QED
  BY <1>6, <1>7, <1>8, <1>9 DEF CachesInv

LEMMA CachesStep ==
  ASSUME CachesAssumption, CachesInv, [CachesNext]_cacheVars
  PROVE  CachesInv'
<1>1. CASE UNCHANGED cacheVars
  <2>1. UNCHANGED <<fund, world, cache, reqs, last>>
    BY <1>1 DEF cacheVars
  <2>2. CachesTyped' /\ FactsFit'
    BY <2>1 DEF CachesInv, CachesTyped, FactsFit, Facts, Listed
  <2>3. \A k \in Keys : EntryFits(k, cache[k])'
    BY <2>1 DEF CachesInv, EntryFits, Old
  <2>4. \A r \in Requests : ReadFits(reqs[r])'
    <3>1. TAKE r \in Requests
    <3>2. reqs'[r] = reqs[r] /\ ReadFits(reqs[r]) /\ last' = last
      BY <2>1 DEF CachesInv
    <3>3. QED
      BY <3>2 DEF ReadFits, FeaturedFits, NewsFits, LiveFits, Walked, FeaturedTold, NewsTold,
                  LiveTold, Old
  <2>5. QED
    BY <2>2, <2>3, <2>4 DEF CachesInv
<1>2. CASE Tick
  BY <1>2, TickKept
<1>3. CASE FundChanges \/ WorldChanges
  BY <1>3, OutsideKept
<1>4. ASSUME NEW r \in Requests, Ask(r) \/ Step(r)
      PROVE  CachesInv'
  BY <1>4, AskKept, RowKept, LookUpKept, FetchKept, StoreKept DEF Step
<1>5. QED
  BY <1>1, <1>2, <1>3, <1>4 DEF CachesNext


LEMMA AnswersWithin ==
  ASSUME CachesAssumption, CachesInv
  PROVE  StaleAnswersAreBounded
<1>1. \A f, n : Old(f, n) => last[f] <= n
  BY DEF Old
<1> SUFFICES ASSUME NEW r \in Requests
             PROVE  LET v == reqs[r].value IN
    /\ Answers(r, "featured") =>
         /\ "fund" \in v => Within("listed", LongTtl + Flight)
         /\ "fund" \notin v /\ (reqs[r].explicit => reqs[r].at = 1) =>
              Within("unlisted", LongTtl + 2 * Flight)
    /\ Answers(r, "news") =>
         IF v # {} THEN Within("articles", LongTtl + Flight)
                   ELSE \/ Within("down", ShortTtl + Flight)
                        \/ Within("empty", LongTtl + Flight)
    /\ Answers(r, "live") =>
         IF v = {"not found"} THEN Within("hidden", Flight + 1)
         ELSE /\ Within("visible", Flight + 1)
              /\ Within(IF v = {"live"} THEN "quotes" ELSE "no quotes", ShortTtl + Flight)
              /\ v = {"unavailable"} => Within("no prices", ShortTtl + Flight)
  BY DEF StaleAnswersAreBounded
<1> DEFINE q == reqs[r]
<1>2. q \in ReadRequest /\ ReadFits(q)
  BY DEF CachesInv, CachesTyped
<1>3. q.age \in 0..Flight
  BY <1>2 DEF ReadRequest
<1>4. ASSUME NEW f
      PROVE  /\ Old(f, Long) => Within(f, LongTtl + Flight) /\ Within(f, LongTtl + 2 * Flight)
             /\ Old(f, Short) => Within(f, ShortTtl + Flight)
             /\ Old(f, q.age) => Within(f, Flight + 1)
             /\ Old(f, Long + q.age) => Within(f, LongTtl + 2 * Flight)
  <2>1. CASE f \notin Tracked
    BY <2>1 DEF Old
  <2>2. CASE f \in Tracked
    <3>1. last[f] \in Int
      BY <2>2 DEF CachesInv, CachesTyped, Never, CachesAssumption
    <3> DEFINE l == last[f]
               a == q.age
    <3>2. l \in Int /\ a \in 0..Flight
      BY <1>3, <3>1
    <3>3. \A x \in Int, y \in 0..Flight :
            /\ x <= LongTtl + Flight - 1 => x < LongTtl + Flight /\ x < LongTtl + 2 * Flight
            /\ x <= ShortTtl + Flight - 1 => x < ShortTtl + Flight
            /\ x <= y => x < Flight + 1
            /\ x <= LongTtl + Flight - 1 + y => x < LongTtl + 2 * Flight
      BY DEF CachesAssumption
    <3>4. QED
      BY <3>2, <3>3 DEF Old, Within, Long, Short
  <2>3. QED
    BY <2>1, <2>2
<1> HIDE DEF Long, Short
<1>5. CASE Answers(r, "featured")
  <2>1. FeaturedTold(q.at, q.value) /\ (Walked(q) => Old("unlisted", Long + q.age))
    BY <1>2, <1>5 DEF Answers, ReadFits, FeaturedFits
  <2>2. q.explicit \in BOOLEAN
    BY <1>2 DEF ReadRequest
  <2>3. "fund" \in q.value => Within("listed", LongTtl + Flight)
    BY <1>4, <2>1 DEF FeaturedTold
  <2>4. ASSUME "fund" \notin q.value, q.explicit => q.at = 1
        PROVE  Within("unlisted", LongTtl + 2 * Flight)
    BY <1>4, <2>1, <2>2, <2>4 DEF FeaturedTold, Walked
  <2>5. QED
    BY <1>5, <2>3, <2>4 DEF Answers
<1>6. CASE Answers(r, "news")
  <2>1. NewsTold(q.value)
    BY <1>2, <1>6 DEF Answers, ReadFits, NewsFits
  <2>2. QED
    BY <1>4, <1>6, <2>1 DEF NewsTold, Answers
<1>7. CASE Answers(r, "live")
  <2>1. \/ q.value = {"not found"} /\ Old("hidden", q.age)
        \/ Old("visible", q.age) /\ LiveTold(q.value)
    BY <1>2, <1>7 DEF Answers, ReadFits, LiveFits
  <2>2. QED
    BY <1>4, <1>7, <2>1 DEF LiveTold, Answers
<1>8. QED
  BY <1>5, <1>6, <1>7

\* Every cache, request and remembered time of the BFF's reads has its type,
\* for any number of concurrent requests, times to live and timeouts.
THEOREM CachesTypeSafe == ASSUME CachesAssumption PROVE CachesSpec => []CachesTyped
<1>1. CachesInv => CachesTyped
  BY DEF CachesInv
<1>2. QED
  BY CachesInitially, CachesStep, <1>1, PTL DEF CachesSpec

\* What a read of featured funds, news or a snapshot answers was right within
\* the time of its cache and the flights it took, whatever requests fill the
\* entries one over the other: none makes an entry outlive its time.
THEOREM AnswersAreFresh == ASSUME CachesAssumption PROVE CachesSpec => []StaleAnswersAreBounded
BY CachesInitially, CachesStep, AnswersWithin, PTL DEF CachesSpec

-----------------------------------------------------------------------------
(* The scores of RN-04                                                     *)

\* Division by a positive number: what is less than b + 1 times it gives at most b,
\* and the greater of two numbers gives no less.
LEMMA DivisionBounds ==
  ASSUME NEW a \in Nat, NEW b \in Nat, NEW n \in Nat \ {0}
  PROVE  /\ a \div n \in Nat
         /\ a < n * (b + 1) => a \div n <= b
         /\ a <= b => a \div n <= b \div n
         /\ n * (a \div n) <= a
OBVIOUS

\* A finite set of integers has a greatest element: of the sets that had none a
\* smallest, without one of its elements, has one.
LEMMA FiniteSetsAreBounded ==
  ASSUME NEW S \in SUBSET Int, IsFiniteSet(S), S # {}
  PROVE  /\ \E x \in S : \A y \in S : y <= x
         /\ \E x \in S : \A y \in S : x <= y
<1> DEFINE Top(T) == \E x \in T : \A y \in T : y <= x
           Bottom(T) == \E x \in T : \A y \in T : x <= y
           Finite == FiniteSubsetsOf(S)
           Open == {T \in Finite : T # {} /\ ~ (Top(T) /\ Bottom(T))}
<1>1. IsWellFoundedOn(StrictSubsetOrdering(S), Finite)
  BY FS_StrictSubsetOrderingWellFounded
<1>2. SUFFICES ASSUME Open # {} PROVE FALSE
  BY DEF FiniteSubsetsOf
<1>3. PICK T \in Open : \A V \in Open : ~ (<<V, T>> \in StrictSubsetOrdering(S))
  BY <1>1, <1>2, WFMin
<1>4. PICK x \in T : TRUE
  OBVIOUS
<1> DEFINE V == T \ {x}
<1>5. T \in SUBSET Int /\ V \in Finite
  BY FS_RemoveElement DEF FiniteSubsetsOf
<1>6. <<V, T>> \in StrictSubsetOrdering(S)
  BY <1>4, <1>5 DEF StrictSubsetOrdering, FiniteSubsetsOf
<1>7. CASE V = {}
  <2>1. T = {x}
    BY <1>4, <1>7
  <2>2. Top(T) /\ Bottom(T)
    BY <2>1, <1>5
  <2>3. QED
    BY <2>2, <1>3
<1>8. CASE V # {}
  <2>1. Top(V) /\ Bottom(V)
    BY <1>3, <1>5, <1>6, <1>8
  <2>2. PICK h \in V : \A y \in V : y <= h
    BY <2>1
  <2>3. PICK l \in V : \A y \in V : l <= y
    BY <2>1
  <2>4. Top(T)
    <3>1. CASE x <= h
      BY <3>1, <2>2, <1>5
    <3>2. CASE h <= x
      BY <3>2, <2>2, <1>4, <1>5
    <3>3. QED
      BY <3>1, <3>2, <1>4, <1>5
  <2>5. Bottom(T)
    <3>1. CASE l <= x
      BY <3>1, <2>3, <1>5
    <3>2. CASE x <= l
      BY <3>2, <2>3, <1>4, <1>5
    <3>3. QED
      BY <3>1, <3>2, <1>4, <1>5
  <2>6. QED
    BY <2>4, <2>5, <1>3
<1>9. QED
  BY <1>7, <1>8

-----------------------------------------------------------------------------
(* Points                                                                  *)

\* A share of a factor's points is no more than all of them, and grows with the
\* number of peers that are no better.
LEMMA SharesGrow ==
  ASSUME NEW x \in Factor, NEW n \in Nat \ {0}, NEW k \in 0..n, NEW j \in 0..k
  PROVE  /\ Share(x, k, n) \in 0..MaxPoints[x]
         /\ Share(x, j, n) <= Share(x, k, n)
<1>1. MaxPoints[x] \in {10, 40}
  BY DEF Factor, Order, MaxPoints
<1> DEFINE M == MaxPoints[x]
           of(i) == 2 * i * M + n
<1>2. /\ of(k) \in Nat /\ of(j) \in Nat /\ of(j) <= of(k)
      /\ of(k) < (2 * n) * (M + 1) /\ 2 * n \in Nat \ {0} /\ M \in Nat
  <2>1. CASE M = 10
    BY <2>1
  <2>2. CASE M = 40
    BY <2>2
  <2>3. QED
    BY <2>1, <2>2, <1>1
<1>3. /\ Share(x, k, n) = of(k) \div (2 * n) /\ Share(x, j, n) = of(j) \div (2 * n)
  BY DEF Share
<1> HIDE DEF M, of
<1>4. of(k) \div (2 * n) \in Nat /\ of(j) \div (2 * n) \in Nat
  BY <1>2, DivisionBounds
<1>5. of(k) \div (2 * n) <= M
  BY <1>2, DivisionBounds
<1>6. of(j) \div (2 * n) <= of(k) \div (2 * n)
  BY <1>2, DivisionBounds
<1>7. QED
  BY <1>2, <1>3, <1>4, <1>5, <1>6 DEF M

\* A figure of a fund of a table is an integer or missing, so is its orientation.
LEMMA FiguresAreInts ==
  ASSUME ScoringAssumption, table \in Catalogs, NEW f \in DOMAIN table, NEW x \in Factor
  PROVE  /\ Metrics(table[f])[x] \in Figure
         /\ Metrics(table[f])[x] # None => Oriented(x, Metrics(table[f])[x]) \in Int
<1>1. /\ table[f].ter \in Figure /\ table[f].tracking \in Figure
      /\ table[f].aum \in Figure /\ table[f].oldest \in Figure /\ Today \in Int
  BY DEF ScoringAssumption
<1>2. EstimateFundAgeYears(table[f].oldest) \in Figure
  BY <1>1 DEF EstimateFundAgeYears, Figure
<1>3. x \in {"ter", "tracking", "aum", "age"}
  BY DEF Factor, Order
<1>4. Metrics(table[f])[x] \in Figure
  BY <1>1, <1>2, <1>3 DEF Metrics
<1>5. QED
  BY <1>4 DEF Figure, Oriented

\* The bands of a factor end below its points.
LEMMA AbsoluteFits ==
  ASSUME NEW x \in Factor, NEW value
  PROVE  Absolute(x, value) \in 0..MaxPoints[x]
<1> DEFINE S == {Lowest[x]} \cup {band[2] : band \in {b \in Bands[x] : Oriented(x, value) >= b[1]}}
<1>1. x \in {"ter", "tracking", "aum", "age"}
  BY DEF Factor, Order
<1>2. /\ MaxPoints[x] \in Nat /\ Lowest[x] \in 0..MaxPoints[x]
      /\ \A band \in Bands[x] : band[2] \in 0..MaxPoints[x]
  BY <1>1 DEF MaxPoints, Lowest, Bands
<1>3. S \in SUBSET (0..MaxPoints[x]) /\ S # {}
  BY <1>2
<1> HIDE DEF S
<1>4. IsFiniteSet(S) /\ S \in SUBSET Int
  <2>1. IsFiniteSet(0..MaxPoints[x])
    BY <1>2, FS_Interval
  <2>2. IsFiniteSet(S)
    BY <1>3, <2>1, FS_Subset
  <2>3. 0..MaxPoints[x] \subseteq Int
    OBVIOUS
  <2>4. QED
    BY <1>3, <2>2, <2>3
<1>5. \E y \in S : \A z \in S : y >= z
  BY <1>3, <1>4, FiniteSetsAreBounded
<1>6. Max(S) \in S
  BY <1>5 DEF Max
<1>7. QED
  BY <1>3, <1>6 DEF Absolute, S

\* Every factor gives between none and all of its points.
LEMMA PointsFit ==
  ASSUME NEW x \in Factor, NEW value, NEW peers, IsFiniteSet(peers), NEW metrics
  PROVE  FactorResult(x, value, peers, metrics).points \in 0..MaxPoints[x]
<1> DEFINE known == {g \in peers : metrics[g][x] # None}
           better == {g \in known : Oriented(x, metrics[g][x]) <= Oriented(x, value)}
<1>1. CASE value = None
  <2>1. Share(x, 2, 5) \in 0..MaxPoints[x]
    BY SharesGrow
  <2>2. QED
    BY <1>1, <2>1 DEF FactorResult, Conservative
<1>2. CASE value # None /\ known = {}
  BY <1>2, AbsoluteFits DEF FactorResult
<1>3. CASE value # None /\ known # {}
  <2>1. IsFiniteSet(known) /\ Cardinality(known) \in Nat \ {0}
    BY <1>3, FS_Subset, FS_CardinalityType, FS_EmptySet
  <2>2. Cardinality(better) \in 0..Cardinality(known)
    BY <2>1, FS_Subset, FS_CardinalityType
  <2>3. Share(x, Cardinality(better), Cardinality(known)) \in 0..MaxPoints[x]
    BY <2>1, <2>2, SharesGrow
  <2>4. QED
    BY <1>3, <2>3 DEF FactorResult, Percentile
<1>4. QED
  BY <1>1, <1>2, <1>3

\* The score of a fund is the sum of four such numbers.
LEMMA TotalsFit ==
  ASSUME NEW f, NEW peers, IsFiniteSet(peers), NEW metrics
  PROVE  /\ \A x \in Factor : Breakdown(f, peers, metrics)[x].points \in 0..MaxPoints[x]
         /\ Total(Breakdown(f, peers, metrics)) \in 0..100
<1> DEFINE b == Breakdown(f, peers, metrics)
<1>1. \A x \in Factor : b[x].points \in 0..MaxPoints[x]
  BY PointsFit DEF Breakdown
<1> HIDE DEF b
<1>2. Factor = {"ter", "tracking", "aum", "age"}
  BY DEF Factor, Order
<1>3. /\ b["ter"].points \in 0..40 /\ b["tracking"].points \in 0..40
      /\ b["aum"].points \in 0..10 /\ b["age"].points \in 0..10
  BY <1>1, <1>2 DEF MaxPoints
<1>4. QED
  BY <1>1, <1>3 DEF Total, b

-----------------------------------------------------------------------------
(* The three entry points                                                  *)

\* A fund's score depends on its figures and those of its peers alone, however
\* many other funds were read with them.
LEMMA ScoresOfWhatIsRead ==
  ASSUME NEW D, NEW E, NEW f \in D \cap E, NEW peers \in SUBSET (D \cap E)
  PROVE  FundScore(f, peers, MetricsOf(D)) = FundScore(f, peers, MetricsOf(E))
<1>1. \A g \in D \cap E : MetricsOf(D)[g] = MetricsOf(E)[g]
  BY DEF MetricsOf
<1>2. ASSUME NEW x \in Factor, NEW value
      PROVE  FactorResult(x, value, peers, MetricsOf(D)) = FactorResult(x, value, peers, MetricsOf(E))
  <2> DEFINE known(m) == {g \in peers : m[g][x] # None}
             better(m) == {g \in known(m) : Oriented(x, m[g][x]) <= Oriented(x, value)}
  <2>1. known(MetricsOf(D)) = known(MetricsOf(E))
    BY <1>1
  <2>2. better(MetricsOf(D)) = better(MetricsOf(E))
    BY <1>1, <2>1
  <2>3. Percentile(x, value, known(MetricsOf(D)), MetricsOf(D))
          = Percentile(x, value, known(MetricsOf(E)), MetricsOf(E))
    BY <2>1, <2>2 DEF Percentile
  <2>4. QED
    BY <2>1, <2>3 DEF FactorResult
<1>3. Breakdown(f, peers, MetricsOf(D)) = Breakdown(f, peers, MetricsOf(E))
  BY <1>1, <1>2 DEF Breakdown
<1>4. QED
  BY <1>3 DEF FundScore

\* One fund, a list and the catalog: whichever way a fund is asked for it is compared
\* with the other funds of its group.
LEMMA AskedAlike ==
  ASSUME NEW f \in DOMAIN table
  PROVE  /\ RecalculatedScores[f] = ScoreForFundId(f)
         /\ \A ids \in SUBSET DOMAIN table :
              f \in ids => ScoresForFundIds(ids)[f] = ScoreForFundId(f).score
<1> DEFINE peers == GroupOf(f) \ {f}
<1>1. f \in GroupOf(f) /\ GroupOf(f) \subseteq DOMAIN table
  BY DEF GroupOf
<1>2. ASSUME NEW D \in SUBSET DOMAIN table, GroupOf(f) \subseteq D
      PROVE  CategoryScores(D)[f] = ScoreForFundId(f)
  <2>1. (GroupOf(f) \cap D) \ {f} = peers
    BY <1>2
  <2>2. FundScore(f, peers, MetricsOf(D)) = FundScore(f, peers, MetricsOf(GroupOf(f)))
    BY <1>1, <1>2, ScoresOfWhatIsRead
  <2>3. QED
    BY <1>1, <1>2, <2>1, <2>2 DEF CategoryScores, ScoreForFundId
<1>3. ASSUME NEW ids \in SUBSET DOMAIN table, f \in ids
      PROVE  ScoresForFundIds(ids)[f] = ScoreForFundId(f).score
  <2> DEFINE relevant == UNION {GroupOf(g) : g \in ids}
  <2>1. GroupOf(f) \subseteq relevant /\ relevant \in SUBSET DOMAIN table
    BY <1>3 DEF GroupOf
  <2>2. CategoryScores(relevant)[f] = ScoreForFundId(f)
    BY <1>2, <2>1
  <2>3. ScoresForFundIds(ids)[f] = CategoryScores(relevant)[f].score
    BY <1>3 DEF ScoresForFundIds
  <2>4. QED
    BY <2>2, <2>3
<1>4. QED
  BY <1>1, <1>2, <1>3 DEF RecalculatedScores

-----------------------------------------------------------------------------
(* A fund that is nowhere worse                                            *)

\* Of two peers with a figure the better one has at least as many peers that are
\* no better: those of the other, with the other in its own place.
LEMMA MorePeersAreNoBetter ==
  ASSUME ScoringAssumption, table \in Catalogs, NEW x \in Factor,
         NEW K \in SUBSET DOMAIN table, NEW f \in K, NEW g \in K, f # g,
         NEW value, \A h \in K : value[h] \in Int, value[g] <= value[f]
  PROVE  LET behind(h) == {i \in K \ {h} : value[i] <= value[h]}
         IN  /\ Cardinality(K \ {f}) = Cardinality(K \ {g})
             /\ Cardinality(K \ {f}) \in Nat \ {0}
             /\ Cardinality(behind(g)) \in 0..Cardinality(behind(f))
             /\ Cardinality(behind(f)) \in 0..Cardinality(K \ {f})
<1> DEFINE behind(h) == {i \in K \ {h} : value[i] <= value[h]}
<1>1. IsFiniteSet(K)
  BY FS_Subset DEF ScoringAssumption
<1>2. /\ IsFiniteSet(K \ {f}) /\ IsFiniteSet(K \ {g})
      /\ Cardinality(K \ {f}) = Cardinality(K) - 1 /\ Cardinality(K \ {g}) = Cardinality(K) - 1
  BY <1>1, FS_RemoveElement
<1>3. Cardinality(K \ {f}) \in Nat \ {0}
  <2>1. Cardinality(K \ {f}) # 0
    BY <1>2, FS_EmptySet
  <2>2. QED
    BY <1>2, <2>1, FS_CardinalityType
<1>4. /\ IsFiniteSet(behind(f)) /\ IsFiniteSet(behind(g))
      /\ Cardinality(behind(f)) <= Cardinality(K \ {f})
  BY <1>2, FS_Subset
<1> DEFINE others == behind(g) \ {f}
<1>5. others \cup {g} \subseteq behind(f)
  <2>1. SUFFICES ASSUME NEW i \in others PROVE value[i] <= value[f]
    OBVIOUS
  <2>2. value[i] <= value[g] /\ value[i] \in Int /\ value[g] \in Int /\ value[f] \in Int
    OBVIOUS
  <2>3. QED
    BY <2>2
<1>6. IsFiniteSet(others) /\ Cardinality(others \cup {g}) = Cardinality(others) + 1
  BY <1>4, FS_RemoveElement, FS_AddElement
<1>7. Cardinality(behind(g)) <= Cardinality(others) + 1
  <2>1. Cardinality(others) = IF f \in behind(g) THEN Cardinality(behind(g)) - 1
                              ELSE Cardinality(behind(g))
    BY <1>4, FS_RemoveElement
  <2>2. Cardinality(behind(g)) \in Nat
    BY <1>4, FS_CardinalityType
  <2>3. QED
    BY <2>1, <2>2
<1>8. Cardinality(others \cup {g}) <= Cardinality(behind(f))
  BY <1>4, <1>5, FS_Subset
<1>9. Cardinality(behind(g)) \in Nat /\ Cardinality(behind(f)) \in Nat /\ Cardinality(others) \in Nat
  BY <1>4, <1>6, FS_CardinalityType
<1> HIDE DEF behind, others
<1>10. Cardinality(behind(g)) <= Cardinality(behind(f))
  BY <1>6, <1>7, <1>8, <1>9
<1>11. QED
  BY <1>2, <1>3, <1>4, <1>9, <1>10 DEF behind

\* A factor gives the fund with the better figure no fewer points.
LEMMA BetterFigureNoFewerPoints ==
  ASSUME ScoringAssumption, table \in Catalogs, NEW x \in Factor,
         NEW f \in DOMAIN table, NEW g \in GroupOf(f), AtLeastAsGood(f, g)
  PROVE  LET metrics == MetricsOf(DOMAIN table)
             points(h) == FactorResult(x, metrics[h][x], GroupOf(f) \ {h}, metrics).points
         IN  points(g) <= points(f)
<1> DEFINE metrics == MetricsOf(DOMAIN table)
           points(h) == FactorResult(x, metrics[h][x], GroupOf(f) \ {h}, metrics).points
           value == [h \in DOMAIN table |-> Oriented(x, metrics[h][x])]
           K == {h \in GroupOf(f) : metrics[h][x] # None}
           behind(h) == {i \in K \ {h} : value[i] <= value[h]}
<1>1. /\ \A h \in DOMAIN table : metrics[h] = Metrics(table[h])
      /\ f \in GroupOf(f) /\ GroupOf(f) \subseteq DOMAIN table /\ IsFiniteSet(GroupOf(f))
  BY FS_Subset DEF MetricsOf, GroupOf, ScoringAssumption
<1>2. \A h \in DOMAIN table : points(h) \in 0..MaxPoints[x] /\ points(h) \in Int
  <2>1. \A h : IsFiniteSet(GroupOf(f) \ {h})
    BY <1>1, FS_RemoveElement
  <2>2. MaxPoints[x] \in Int
    BY DEF Factor, Order, MaxPoints
  <2>3. QED
    BY <2>1, <2>2, PointsFit
<1>3. CASE f = g
  BY <1>1, <1>2, <1>3
<1>4. CASE metrics[g][x] = None
  <2>1. metrics[f][x] = None
    BY <1>1, <1>4 DEF AtLeastAsGood
  <2>2. points(f) = Conservative(x) /\ points(g) = Conservative(x)
    BY <1>4, <2>1 DEF FactorResult
  <2>3. QED
    BY <1>1, <1>2, <2>2
<1>5. CASE f # g /\ metrics[g][x] # None
  <2>1. metrics[f][x] # None /\ value[f] >= value[g]
    BY <1>1, <1>5 DEF AtLeastAsGood
  <2>2. f \in K /\ g \in K /\ K \in SUBSET DOMAIN table
    BY <1>1, <1>5, <2>1
  <2>3. \A h \in K : value[h] \in Int
    BY <1>1, FiguresAreInts
  <2>4. value[g] <= value[f]
    BY <2>1, <2>2, <2>3
  <2>5. /\ Cardinality(K \ {f}) = Cardinality(K \ {g})
        /\ Cardinality(K \ {f}) \in Nat \ {0}
        /\ Cardinality(behind(g)) \in 0..Cardinality(behind(f))
        /\ Cardinality(behind(f)) \in 0..Cardinality(K \ {f})
    <3> HIDE DEF value, K
    <3>1. QED
      BY <1>5, <2>2, <2>3, <2>4, MorePeersAreNoBetter
  <2>6. ASSUME NEW h \in {f, g}
        PROVE  points(h) = Share(x, Cardinality(behind(h)), Cardinality(K \ {h}))
    <3>1. {i \in GroupOf(f) \ {h} : metrics[i][x] # None} = K \ {h}
      OBVIOUS
    <3>2. K \ {h} # {} /\ metrics[h][x] # None
      BY <1>5, <2>1, <2>2, <2>6
    <3>3. {i \in K \ {h} : Oriented(x, metrics[i][x]) <= Oriented(x, metrics[h][x])} = behind(h)
      BY <2>2, <2>6
    <3>4. points(h) = Percentile(x, metrics[h][x], K \ {h}, metrics)
      BY <3>1, <3>2 DEF FactorResult
    <3>5. QED
      BY <3>3, <3>4 DEF Percentile
  <2> HIDE DEF points, behind, K
  <2>7. QED
    BY <2>5, <2>6, SharesGrow DEF points
<1>6. QED
  BY <1>3, <1>4, <1>5

\* So its score is no less.
LEMMA BetterFundNoLess ==
  ASSUME ScoringAssumption, table \in Catalogs,
         NEW f \in DOMAIN table, NEW g \in GroupOf(f), AtLeastAsGood(f, g)
  PROVE  RecalculatedScores[f].score >= RecalculatedScores[g].score
<1> DEFINE metrics == MetricsOf(DOMAIN table)
           b(h) == Breakdown(h, GroupOf(f) \ {h}, metrics)
<1>1. /\ f \in GroupOf(f) /\ GroupOf(f) \subseteq DOMAIN table /\ IsFiniteSet(GroupOf(f))
      /\ GroupOf(g) = GroupOf(f)
  BY FS_Subset DEF GroupOf, ScoringAssumption
<1>2. ASSUME NEW h \in {f, g}
      PROVE  RecalculatedScores[h].score = Total(b(h))
  <2>1. (GroupOf(h) \cap DOMAIN table) \ {h} = GroupOf(f) \ {h}
    BY <1>1
  <2>2. RecalculatedScores[h] = FundScore(h, GroupOf(f) \ {h}, metrics)
    BY <1>1, <2>1 DEF RecalculatedScores, CategoryScores
  <2>3. QED
    BY <2>2 DEF FundScore
<1>3. \A x \in Factor : b(g)[x].points <= b(f)[x].points
  BY BetterFigureNoFewerPoints DEF Breakdown
<1>4. \A h : \A x \in Factor : b(h)[x].points \in Int
  <2>1. \A h : IsFiniteSet(GroupOf(f) \ {h})
    BY <1>1, FS_RemoveElement
  <2>2. \A x \in Factor : MaxPoints[x] \in Int
    BY DEF Factor, Order, MaxPoints
  <2>3. QED
    BY <2>1, <2>2, TotalsFit
<1> HIDE DEF b
<1>5. /\ "ter" \in Factor /\ "tracking" \in Factor /\ "aum" \in Factor /\ "age" \in Factor
  BY DEF Factor, Order
<1>6. Total(b(g)) <= Total(b(f))
  BY <1>3, <1>4, <1>5 DEF Total
<1>7. Total(b(g)) \in Int /\ Total(b(f)) \in Int
  BY <1>4, <1>5 DEF Total
<1>8. QED
  BY <1>2, <1>6, <1>7

-----------------------------------------------------------------------------
(* The service's answers                                                   *)

\* What was answered is what the table gives.
ScoresInv == table \in Catalogs /\ (scores # None => scores = ServiceScores)

LEMMA ScoresInvariance == ScoreSpec => []ScoresInv
<1>1. ScoreInit => ScoresInv
  BY DEF ScoreInit, ScoresInv
<1>2. ScoresInv /\ [Score]_scoreVars => ScoresInv'
  <2>1. SUFFICES ASSUME ScoresInv, [Score]_scoreVars PROVE ScoresInv'
    OBVIOUS
  <2>2. table' = table
    BY <2>1 DEF Score, scoreVars
  <2>3. ServiceScores' = ServiceScores
    BY <2>2 DEF ServiceScores, ScoreForFundId, ScoresForFundIds, RecalculatedScores, PeerRanks,
                CategoryScores, GroupOf, MetricsOf
  <2>4. scores' = ServiceScores \/ scores' = scores
    BY <2>1 DEF Score, scoreVars
  <2>5. QED
    BY <2>1, <2>2, <2>3, <2>4 DEF ScoresInv
<1>3. QED
  BY <1>1, <1>2, PTL DEF ScoreSpec

\* Whatever the catalog holds, a score is between 0 and 100, none of its factors gives
\* more than its points, and a rank is a place in the fund's group.
THEOREM ScoresTypeSafe == ASSUME ScoringAssumption PROVE ScoreSpec => []ScoresTyped
<1>1. ASSUME ScoresInv PROVE ScoresTyped
  <2>1. SUFFICES ASSUME scores # None, NEW f \in DOMAIN table
                 PROVE  /\ scores.catalog[f].score \in 0..100
                        /\ scores.ranks[f] \in 1..Cardinality(GroupOf(f))
                        /\ \A x \in Factor : scores.catalog[f].breakdown[x].points \in 0..MaxPoints[x]
    BY DEF ScoresTyped
  <2>2. table \in Catalogs /\ scores.catalog = RecalculatedScores
        /\ scores.ranks = PeerRanks(RecalculatedScores)
    BY <1>1, <2>1 DEF ScoresInv, ServiceScores
  <2>3. /\ f \in GroupOf(f) /\ GroupOf(f) \subseteq DOMAIN table /\ IsFiniteSet(GroupOf(f))
        /\ f \in Int
    BY <2>2, FS_Subset DEF GroupOf, ScoringAssumption
  <2> DEFINE peers == (GroupOf(f) \cap DOMAIN table) \ {f}
  <2>4. RecalculatedScores[f] = FundScore(f, peers, MetricsOf(DOMAIN table))
    BY DEF RecalculatedScores, CategoryScores
  <2>5. IsFiniteSet(peers)
    BY <2>3, FS_Subset
  <2>6. /\ RecalculatedScores[f].score \in 0..100
        /\ \A x \in Factor : RecalculatedScores[f].breakdown[x].points \in 0..MaxPoints[x]
    <3> DEFINE b == Breakdown(f, peers, MetricsOf(DOMAIN table))
    <3>1. RecalculatedScores[f].score = Total(b) /\ RecalculatedScores[f].breakdown = b
      BY <2>4 DEF FundScore
    <3>2. /\ \A x \in Factor : b[x].points \in 0..MaxPoints[x]
          /\ Total(b) \in 0..100
      BY <2>5, TotalsFit
    <3>3. QED
      BY <3>1, <3>2
  <2> DEFINE results == RecalculatedScores
             ahead == {g \in GroupOf(f) \cap DOMAIN results :
                         \/ results[g].score > results[f].score
                         \/ results[g].score = results[f].score /\ g < f}
  <2>7. PeerRanks(results)[f] = 1 + Cardinality(ahead)
    BY DEF PeerRanks, RecalculatedScores, CategoryScores
  <2>8. f \notin ahead
    BY <2>3, <2>6
  <2>9. ahead \subseteq GroupOf(f) \ {f}
    BY <2>8
  <2>10. /\ Cardinality(ahead) \in Nat /\ Cardinality(GroupOf(f)) \in Nat
         /\ Cardinality(ahead) <= Cardinality(GroupOf(f)) - 1
    <3> HIDE DEF ahead
    <3>1. IsFiniteSet(GroupOf(f) \ {f}) /\ Cardinality(GroupOf(f) \ {f}) = Cardinality(GroupOf(f)) - 1
      BY <2>3, FS_RemoveElement
    <3>2. IsFiniteSet(ahead) /\ Cardinality(ahead) <= Cardinality(GroupOf(f) \ {f})
      BY <2>9, <3>1, FS_Subset
    <3>3. QED
      BY <2>3, <3>1, <3>2, FS_CardinalityType
  <2> HIDE DEF ahead, results
  <2>11. PeerRanks(results)[f] \in 1..Cardinality(GroupOf(f))
    BY <2>7, <2>10
  <2>12. QED
    BY <2>2, <2>6, <2>11 DEF results
<1>2. QED
  BY <1>1, ScoresInvariance, PTL

\* For every catalog: the whole of it, a list of funds and a single fund are scored
\* alike, and of two funds of a group with the same figures missing the one that is
\* nowhere worse never scores less (scoring.service, rn04-score-calculator).
THEOREM ScoresCompare == ASSUME ScoringAssumption PROVE ScoreSpec => []ScoresAreComparable
<1>1. ASSUME ScoresInv PROVE ScoresAreComparable
  <2>1. SUFFICES ASSUME scores # None
                 PROVE  /\ ScoresAgree /\ BetterNeverScoresLess
                        /\ \A f \in DOMAIN table : ScoringStatus(scores.catalog[f]) = "warning"
    BY DEF ScoresAreComparable
  <2>2. /\ table \in Catalogs /\ scores.catalog = RecalculatedScores
        /\ scores.single = [f \in DOMAIN table |-> ScoreForFundId(f)]
        /\ scores.lists = [ids \in SUBSET DOMAIN table |-> ScoresForFundIds(ids)]
    BY <1>1, <2>1 DEF ScoresInv, ServiceScores
  <2>3. ScoresAgree
    BY <2>2, AskedAlike DEF ScoresAgree
  <2>4. BetterNeverScoresLess
    BY <2>2, BetterFundNoLess DEF BetterNeverScoresLess
  <2>5. ASSUME NEW f \in DOMAIN table PROVE ScoringStatus(scores.catalog[f]) = "warning"
    <3> DEFINE b == Breakdown(f, (GroupOf(f) \cap DOMAIN table) \ {f}, MetricsOf(DOMAIN table))
    <3>1. scores.catalog[f].warnings = Warnings(b)
      BY <2>2 DEF RecalculatedScores, CategoryScores, FundScore
    <3>2. "past performance" \in Warnings(b)
      BY DEF Warnings
    <3>3. QED
      BY <3>1, <3>2 DEF ScoringStatus
  <2>6. QED
    BY <2>3, <2>4, <2>5
<1>2. QED
  BY <1>1, ScoresInvariance, PTL

-----------------------------------------------------------------------------
(* The figures of one history                                              *)

\* The instance has its own copy of what "finite" means.
LEMMA FiniteInFigures == ASSUME NEW S PROVE Figures!IsFiniteSet(S) <=> IsFiniteSet(S)
BY DEF Figures!IsFiniteSet, IsFiniteSet

\* The latest and the first date of a history.
LEMMA EndsOf ==
  ASSUME Figures!ConstantsAssumption, NEW H \in SUBSET Days, H # {}
  PROVE  /\ Figures!Latest(H) \in H /\ \A d \in H : d <= Figures!Latest(H)
         /\ Figures!First(H) \in H /\ \A d \in H : Figures!First(H) <= d
<1>1. H \in SUBSET Int /\ IsFiniteSet(H)
  <2>1. IsFiniteSet(H)
    BY FS_Subset, FiniteInFigures DEF Figures!ConstantsAssumption
  <2>2. QED
    BY <2>1 DEF Figures!ConstantsAssumption
<1>2. /\ \E x \in H : \A y \in H : y <= x
      /\ \E x \in H : \A y \in H : x <= y
  BY <1>1, FiniteSetsAreBounded
<1>3. QED
  BY <1>2 DEF Figures!Latest, Figures!First

\* d is the date of H closest to "target", of two the older.
Closest(H, target, d) ==
  /\ d \in H
  /\ \A e \in H : \/ Figures!Distance(d, target) < Figures!Distance(e, target)
                  \/ Figures!Distance(d, target) = Figures!Distance(e, target) /\ d <= e

\* The price a return starts from is the closest one to the lookback.
LEMMA StartsAtClosest ==
  ASSUME Figures!ConstantsAssumption, NEW H \in SUBSET Days, H # {}, NEW days \in Nat
  PROVE  Closest(H, Figures!Latest(H) - days, Figures!PriceAtLookback(H, days))
<1> DEFINE target == Figures!Latest(H) - days
           far(d) == Figures!Distance(d, target)
           Far == {far(d) : d \in H}
<1>1. target \in Int /\ \A d \in H : d \in Int
  <2>1. Figures!Latest(H) \in H
    BY EndsOf
  <2>2. \A d \in H : d \in Int
    BY DEF Figures!ConstantsAssumption
  <2>3. QED
    BY <2>1, <2>2
<1>2. IsFiniteSet(H)
  BY FS_Subset, FiniteInFigures DEF Figures!ConstantsAssumption
<1>3. IsFiniteSet(Far) /\ Far \in SUBSET Int /\ Far # {}
  <2>1. \A d \in H : far(d) \in Int
    BY <1>1 DEF Figures!Distance
  <2>2. IsFiniteSet(Far)
    <3> DEFINE f == [d \in H |-> far(d)]
    <3>1. f \in Surjection(H, Far)
      BY DEF Surjection
    <3>2. QED
      BY <1>2, <3>1, FS_Surjection
  <2>3. QED
    BY <2>1, <2>2
<1>4. PICK n \in Far : \A m \in Far : n <= m
  BY <1>3, FiniteSetsAreBounded
<1> DEFINE Near == {d \in H : far(d) = n}
<1>5. Near # {} /\ Near \in SUBSET Int /\ IsFiniteSet(Near)
  BY <1>1, <1>2, <1>4, FS_Subset
<1>6. PICK d \in Near : \A e \in Near : d <= e
  BY <1>5, FiniteSetsAreBounded
<1>7. \A e \in H : far(d) < far(e) \/ (far(d) = far(e) /\ d <= e)
  <2>1. SUFFICES ASSUME NEW e \in H PROVE far(d) < far(e) \/ (far(d) = far(e) /\ d <= e)
    OBVIOUS
  <2>2. far(d) <= far(e) /\ far(d) \in Int /\ far(e) \in Int
    BY <1>3, <1>4, <1>6
  <2>3. far(d) = far(e) => d <= e
    BY <1>6
  <2> HIDE DEF far
  <2>4. QED
    BY <2>2, <2>3
<1>8. Closest(H, target, d)
  BY <1>6, <1>7 DEF Closest
<1>9. QED
  BY <1>8 DEF Closest, Figures!PriceAtLookback

\* The earlier the target, the earlier what is closest to it; and there is one.
LEMMA ClosestMoves ==
  ASSUME Figures!ConstantsAssumption, NEW H \in SUBSET Days, NEW s \in Int, NEW t \in Int, s <= t,
         NEW p, Closest(H, s, p), NEW q, Closest(H, t, q)
  PROVE  p <= q
<1>1. p \in Int /\ q \in Int /\ p \in H /\ q \in H
  BY DEF Closest, Figures!ConstantsAssumption
<1>2. \/ Figures!Distance(p, s) < Figures!Distance(q, s)
      \/ Figures!Distance(p, s) = Figures!Distance(q, s) /\ p <= q
  BY <1>1 DEF Closest
<1>3. \/ Figures!Distance(q, t) < Figures!Distance(p, t)
      \/ Figures!Distance(q, t) = Figures!Distance(p, t) /\ q <= p
  BY <1>1 DEF Closest
<1>4. QED
  BY <1>1, <1>2, <1>3 DEF Figures!Distance

\* A date is of the year of the latest one just when it is on or after its 1 January.
LEMMA YearToDate ==
  ASSUME Figures!ConstantsAssumption, NEW H \in SUBSET Days, H # {}
  PROVE  LET y == Figures!YearOf(Figures!Latest(H))
         IN  /\ y \in Nat
             /\ Figures!OfYear(H, y) = Figures!Since(H, y * Year)
             /\ Figures!OfYear(H, y + 1) = {}
<1> DEFINE L == Figures!Latest(H)
           y == Figures!YearOf(L)
<1>1. L \in Nat /\ Year \in Nat \ {0} /\ \A d \in H : d \in Nat /\ d <= L
  BY EndsOf DEF Figures!ConstantsAssumption
<1> HIDE DEF L
<1>2. y \in Nat
  BY <1>1, DivisionBounds DEF Figures!YearOf
<1>3. ASSUME NEW d \in H PROVE Figures!YearOf(d) <= y /\ (Figures!YearOf(d) = y <=> d >= y * Year)
  <2>1. Figures!YearOf(d) <= y /\ Figures!YearOf(d) \in Nat
    BY <1>1, DivisionBounds DEF Figures!YearOf
  <2>2. Year * Figures!YearOf(d) <= d
    BY <1>1, DivisionBounds DEF Figures!YearOf
  <2>3. Figures!YearOf(d) = y => d >= y * Year
    BY <1>1, <1>2, <2>1, <2>2
  <2>4. ASSUME d >= y * Year PROVE Figures!YearOf(d) >= y
    BY <1>1, <1>2, <2>4 DEF Figures!YearOf
  <2>5. QED
    BY <2>1, <2>3, <2>4, <1>2
<1>4. Figures!OfYear(H, y) = Figures!Since(H, y * Year)
  BY <1>3 DEF Figures!OfYear, Figures!Since
<1>5. Figures!OfYear(H, y + 1) = {}
  BY <1>2, <1>3 DEF Figures!OfYear
<1>6. QED
  BY <1>2, <1>4, <1>5 DEF L

\* Returns taken from one history fit together.
LEMMA HistoryReturnsFit ==
  ASSUME Figures!ConstantsAssumption, NEW H \in SUBSET Days, H # {}
  PROVE  LET period == Figures!ReturnsByPeriod(H)
             years == Figures!ReturnsByYear(H)
         IN  /\ period.ytd = years[Figures!YearOf(Figures!Latest(H))]
             /\ \A y \in DOMAIN years :
                  y + 1 \in DOMAIN years /\ years[y] # None /\ years[y + 1] # None =>
                    years[y][2] = years[y + 1][1]
             /\ period.fiveYear # None
             /\ period.fiveYear[1] <= period.threeYear[1]
             /\ period.threeYear[1] <= period.oneYear[1]
<1> DEFINE L == Figures!Latest(H)
           lastYear == Figures!YearOf(L)
           period == Figures!ReturnsByPeriod(H)
           years == Figures!ReturnsByYear(H)
<1>1. /\ L \in H /\ L \in Days /\ L \in Nat /\ Year \in Nat \ {0} /\ L # None /\ lastYear \in Nat
      /\ Figures!OfYear(H, lastYear) = Figures!Since(H, lastYear * Year)
      /\ Figures!OfYear(H, lastYear + 1) = {}
      /\ L \in Figures!OfYear(H, lastYear)
  BY EndsOf, YearToDate DEF Figures!ConstantsAssumption, Figures!OfYear
<1>2. /\ DOMAIN years = (lastYear - 4)..lastYear
      /\ \A y \in DOMAIN years : years[y] = Figures!ReturnOfYear(H, y)
  BY DEF Figures!ReturnsByYear
<1>3. period.ytd = years[lastYear]
  <2>1. lastYear \in DOMAIN years
    BY <1>1, <1>2
  <2>2. Figures!ReturnOfYear(H, lastYear) = <<Figures!First(Figures!OfYear(H, lastYear)), L>>
    BY <1>1 DEF Figures!ReturnOfYear
  <2>3. period.ytd = <<Figures!First(Figures!Since(H, lastYear * Year)), L>>
    BY DEF Figures!ReturnsByPeriod, Figures!ReturnYtd
  <2>4. QED
    BY <1>1, <1>2, <2>1, <2>2, <2>3
<1>4. ASSUME NEW y \in DOMAIN years, y + 1 \in DOMAIN years, years[y] # None, years[y + 1] # None
      PROVE  years[y][2] = years[y + 1][1]
  <2>1. Figures!OfYear(H, y + 1) # {}
    BY <1>2, <1>4 DEF Figures!ReturnOfYear
  <2>2. years[y][2] = Figures!First(Figures!OfYear(H, y + 1))
    BY <1>2, <1>4, <2>1 DEF Figures!ReturnOfYear
  <2>3. years[y + 1][1] = Figures!First(Figures!OfYear(H, y + 1))
    BY <1>2, <1>4, <2>1 DEF Figures!ReturnOfYear
  <2>4. QED
    BY <2>2, <2>3
<1>5. /\ period.fiveYear = <<Figures!PriceAtLookback(H, 5 * Year), L>>
      /\ period.threeYear = <<Figures!PriceAtLookback(H, 3 * Year), L>>
      /\ period.oneYear = <<Figures!PriceAtLookback(H, Year), L>>
  BY DEF Figures!ReturnsByPeriod, Figures!ReturnOver
<1>6. /\ Closest(H, L - 5 * Year, Figures!PriceAtLookback(H, 5 * Year))
      /\ Closest(H, L - 3 * Year, Figures!PriceAtLookback(H, 3 * Year))
      /\ Closest(H, L - Year, Figures!PriceAtLookback(H, Year))
  BY <1>1, StartsAtClosest
<1>7. /\ L - 5 * Year \in Int /\ L - 3 * Year \in Int /\ L - Year \in Int
      /\ L - 5 * Year <= L - 3 * Year /\ L - 3 * Year <= L - Year
  BY <1>1
<1>8. /\ Figures!PriceAtLookback(H, 5 * Year) <= Figures!PriceAtLookback(H, 3 * Year)
      /\ Figures!PriceAtLookback(H, 3 * Year) <= Figures!PriceAtLookback(H, Year)
  BY <1>6, <1>7, ClosestMoves
<1>9. period.fiveYear # None
  <2>1. Figures!PriceAtLookback(H, 5 * Year) \in Days
    BY <1>6 DEF Closest
  <2>2. <<Figures!PriceAtLookback(H, 5 * Year), L>> \in Days \X Days
    BY <1>1, <2>1
  <2>3. QED
    BY <1>5, <2>2 DEF Figures!ConstantsAssumption
<1>10. QED
  BY <1>3, <1>4, <1>5, <1>8, <1>9

\* A chart that ends at the history's latest date fits the history's returns.
LEMMA HistoryChartsFit ==
  ASSUME Figures!ConstantsAssumption, NEW H \in SUBSET Days, H # {}
  PROVE  LET year == Figures!Chart(H, Figures!Latest(H), 1)
             start == Figures!PriceAtLookback(H, Year)
         IN  /\ Figures!Latest(year) = Figures!Latest(H)
             /\ Figures!ReturnYtd(H)[1] = Figures!First(Figures!ChartYtd(H, Figures!Latest(H)))
             /\ start \in year => start = Figures!First(year)
             /\ start \notin year => \A d \in H : d <= start \/ Figures!First(year) <= d
<1> DEFINE L == Figures!Latest(H)
           year == Figures!Chart(H, L, 1)
           start == Figures!PriceAtLookback(H, Year)
<1>1. /\ L \in H /\ L # None /\ L \in Nat /\ Year \in Nat \ {0}
      /\ \A d \in H : d \in Nat /\ d <= L
  BY EndsOf DEF Figures!ConstantsAssumption
<1>2. year = {d \in H : L - Year <= d /\ d <= L}
  BY <1>1 DEF Figures!Chart
<1>3. year \in SUBSET Days /\ L \in year /\ year # {}
  BY <1>1, <1>2
<1>4. /\ Figures!Latest(year) \in year /\ L <= Figures!Latest(year)
      /\ Figures!First(year) \in year /\ \A d \in year : Figures!First(year) <= d
  BY <1>3, EndsOf
<1>5. Figures!Latest(year) = L
  BY <1>1, <1>2, <1>4
<1>6. Figures!ReturnYtd(H)[1] = Figures!First(Figures!ChartYtd(H, L))
  BY <1>1 DEF Figures!ReturnYtd, Figures!ChartYtd
<1>7. Closest(H, L - Year, start)
  BY <1>1, StartsAtClosest
<1>8. start \in H /\ start \in Nat
  BY <1>1, <1>7 DEF Closest
<1> HIDE DEF start, L, year
<1>9. ASSUME NEW d \in H
      PROVE  /\ start >= L - Year /\ d >= L - Year => start <= d
             /\ start < L - Year /\ start < d => d >= L - Year
  <2>1. \/ Figures!Distance(start, L - Year) < Figures!Distance(d, L - Year)
        \/ Figures!Distance(start, L - Year) = Figures!Distance(d, L - Year) /\ start <= d
    BY <1>7 DEF Closest
  <2>2. QED
    BY <1>1, <1>8, <2>1 DEF Figures!Distance
<1>10. ASSUME start \in year PROVE start = Figures!First(year)
  <2>1. Figures!First(year) \in H /\ Figures!First(year) \in Nat /\ Figures!First(year) >= L - Year /\ start >= L - Year
    BY <1>1, <1>2, <1>4, <1>10
  <2>2. Figures!First(year) <= start /\ start <= Figures!First(year)
    BY <1>4, <1>9, <1>10, <2>1
  <2>3. QED
    BY <1>8, <2>1, <2>2
<1>11. ASSUME start \notin year, NEW d \in H PROVE d <= start \/ Figures!First(year) <= d
  <2>1. start < L - Year
    BY <1>1, <1>2, <1>8, <1>11
  <2>2. start < d => d \in year
    BY <1>1, <1>2, <1>9, <2>1
  <2>3. QED
    BY <1>1, <1>4, <1>8, <2>2
<1>12. QED
  BY <1>5, <1>6, <1>10, <1>11 DEF L, start, year

\* The one-year return of the last days of a history is that of the whole of it, if
\* what it starts from is among them.
LEMMA WindowReturnFits ==
  ASSUME Figures!ConstantsAssumption, NEW H \in SUBSET Days, H # {}, NEW from \in Int,
         Figures!PriceAtLookback(H, Year) >= from
  PROVE  Figures!ReturnOver(Figures!Since(H, from), Year) = Figures!ReturnOver(H, Year)
<1> DEFINE S == Figures!Since(H, from)
           L == Figures!Latest(H)
           p == Figures!PriceAtLookback(H, Year)
           q == Figures!PriceAtLookback(S, Year)
<1>1. Year \in Nat /\ L \in H /\ \A d \in H : d \in Int /\ d <= L
  BY EndsOf DEF Figures!ConstantsAssumption
<1>2. Closest(H, L - Year, p) /\ p \in H
  BY <1>1, StartsAtClosest DEF Closest
<1>3. p \in S /\ S \in SUBSET Days /\ S \subseteq H /\ S # {}
  BY <1>2 DEF Figures!Since
<1>4. L \in S
  BY <1>1, <1>2 DEF Figures!Since
<1>5. Figures!Latest(S) = L
  <2>1. Figures!Latest(S) \in S /\ L <= Figures!Latest(S)
    BY <1>3, <1>4, EndsOf
  <2> HIDE DEF S, L
  <2>2. QED
    BY <1>1, <1>3, <2>1
<1>6. Closest(S, L - Year, q)
  BY <1>1, <1>3, <1>5, StartsAtClosest
<1>7. Closest(S, L - Year, p)
  BY <1>2, <1>3 DEF Closest
<1>8. p = q
  <2>1. L - Year \in Int /\ p \in Int /\ q \in Int
    BY <1>1, <1>2, <1>3, <1>6 DEF Closest
  <2>2. p <= q /\ q <= p
    BY <1>3, <1>6, <1>7, <2>1, ClosestMoves
  <2> HIDE DEF p, q
  <2>3. QED
    BY <2>1, <2>2
<1>9. Figures!ReturnOver(S, Year) = <<q, Figures!Latest(S)>> /\ Figures!ReturnOver(H, Year) = <<p, L>>
  BY <1>3 DEF Figures!ReturnOver
<1>10. QED
  BY <1>5, <1>8, <1>9

-----------------------------------------------------------------------------
(* What a row and its readers hold                                         *)

\* Returns as they are materialized: with a one-year return comes the date it ends at.
SnapshotFits(s) ==
  /\ s.oneYear = None <=> s.asOf = None
  /\ s.oneYear # None => s.asOf = s.oneYear[2]

\* A score and its breakdown are written together.
RowFits(r) == SnapshotFits(r.returns) /\ (r.score # None => r.breakdown \in {None, r.score})

\* A card has the returns of the row it read, or what they lacked from its window.
CardReads ==
  /\ RowFits(card.row)
  /\ card.step = "idle" => card.history = {}
  /\ card.step = "window" =>
       card.history = {} /\ card.returns = card.row.returns /\ card.returns.oneYear = None
  /\ card.step = "done" =>
       \/ card.history = {} /\ card.returns = card.row.returns
       \/ card.returns = Figures!Merged(card.row.returns,
                                Figures!CardFallback(Figures!Since(card.history, Today - CardWindow)))

FiguresInv == Figures!TypeOK /\ RowFits(row) /\ RowFits(detail.row) /\ CardReads

\* What is materialized fits, whatever the history.
LEMMA SnapshotsFit ==
  ASSUME Figures!ConstantsAssumption, NEW H \in SUBSET Days
  PROVE  Figures!SnapshotOf(H) \in Figures!Snapshot /\ SnapshotFits(Figures!SnapshotOf(H))
<1>1. CASE H = {}
  BY <1>1 DEF Figures!SnapshotOf, SnapshotFits, Figures!ReturnYtd, Figures!ReturnOver,
     Figures!Latest, Figures!Snapshot, Figures!Return, Figures!Date
<1>2. CASE H # {}
  <2>1. Figures!Latest(H) \in Days /\ Figures!Latest(H) # None /\ Figures!Latest(H) \in H
    BY <1>2, EndsOf DEF Figures!ConstantsAssumption
  <2>2. Year \in Nat /\ 3 * Year \in Nat
    BY DEF Figures!ConstantsAssumption
  <2>3. Figures!PriceAtLookback(H, Year) \in Days /\ Figures!PriceAtLookback(H, 3 * Year) \in Days
    BY <1>2, <2>2, StartsAtClosest DEF Closest
  <2> DEFINE S == Figures!Since(H, Figures!YearOf(Figures!Latest(H)) * Year)
  <2>4. Figures!First(S) \in Days
    <3>1. S = Figures!OfYear(H, Figures!YearOf(Figures!Latest(H)))
      BY <1>2, YearToDate
    <3>2. Figures!Latest(H) \in S /\ S \in SUBSET Days
      BY <2>1, <3>1 DEF Figures!OfYear
    <3>3. QED
      BY <3>2, EndsOf
  <2>5. /\ Figures!ReturnYtd(H) = <<Figures!First(S), Figures!Latest(H)>>
        /\ Figures!ReturnOver(H, Year) = <<Figures!PriceAtLookback(H, Year), Figures!Latest(H)>>
        /\ Figures!ReturnOver(H, 3 * Year) = <<Figures!PriceAtLookback(H, 3 * Year), Figures!Latest(H)>>
    BY <1>2 DEF Figures!ReturnYtd, Figures!ReturnOver
  <2> HIDE DEF S
  <2>6. /\ Figures!ReturnYtd(H) \in Days \X Days /\ Figures!ReturnOver(H, Year) \in Days \X Days
        /\ Figures!ReturnOver(H, 3 * Year) \in Days \X Days
        /\ Figures!ReturnOver(H, Year)[2] = Figures!Latest(H)
    BY <2>1, <2>3, <2>4, <2>5
  <2>7. Figures!ReturnOver(H, Year) # None
    BY <2>6 DEF Figures!ConstantsAssumption
  <2>8. QED
    BY <2>1, <2>6, <2>7 DEF Figures!SnapshotOf, SnapshotFits, Figures!Snapshot, Figures!Return,
       Figures!Date
<1>3. QED
  BY <1>1, <1>2

\* What a card makes of a row's returns and its window is of their type.
LEMMA MergedFits ==
  ASSUME Figures!ConstantsAssumption, NEW s \in Figures!Snapshot, NEW H \in SUBSET Days
  PROVE  /\ Figures!Merged(s, Figures!CardFallback(H)) \in Figures!Snapshot
         /\ s.oneYear = None => Figures!Merged(s, Figures!CardFallback(H)).oneYear = Figures!ReturnOver(H, Year)
         /\ s.asOf = None => Figures!Merged(s, Figures!CardFallback(H)).asOf = Figures!Latest(H)
<1>1. /\ Figures!SnapshotOf(H) \in Figures!Snapshot
      /\ Figures!SnapshotOf(H).oneYear = Figures!ReturnOver(H, Year)
      /\ Figures!SnapshotOf(H).asOf = Figures!Latest(H)
  BY SnapshotsFit DEF Figures!SnapshotOf
<1> DEFINE o == Figures!SnapshotOf(H)
           f == Figures!CardFallback(H)
           m == Figures!Merged(s, f)
<1>2. f.ytd = None /\ f.oneYear = o.oneYear /\ f.threeYear = None /\ f.asOf = o.asOf
  BY DEF Figures!CardFallback, Figures!SnapshotOf
<1>3. /\ s = [ytd |-> s.ytd, oneYear |-> s.oneYear, threeYear |-> s.threeYear, asOf |-> s.asOf]
      /\ s.ytd \in Figures!Return /\ s.oneYear \in Figures!Return
      /\ s.threeYear \in Figures!Return /\ s.asOf \in Figures!Date
      /\ o.oneYear \in Figures!Return /\ o.asOf \in Figures!Date /\ None \in Figures!Return
  BY <1>1 DEF Figures!Snapshot, Figures!Return
<1>4. DOMAIN s = {"ytd", "oneYear", "threeYear", "asOf"}
  BY <1>3
<1>5. m = [field \in {"ytd", "oneYear", "threeYear", "asOf"} |->
             IF s[field] # None THEN s[field] ELSE f[field]]
  BY <1>4 DEF Figures!Merged
<1> HIDE DEF o, f, m
<1>6. m = [ytd |-> IF s.ytd # None THEN s.ytd ELSE f.ytd,
           oneYear |-> IF s.oneYear # None THEN s.oneYear ELSE f.oneYear,
           threeYear |-> IF s.threeYear # None THEN s.threeYear ELSE f.threeYear,
           asOf |-> IF s.asOf # None THEN s.asOf ELSE f.asOf]
  BY <1>5
<1>7. m \in Figures!Snapshot
  BY <1>2, <1>3, <1>6 DEF Figures!Snapshot
<1>8. /\ s.oneYear = None => m.oneYear = Figures!ReturnOver(H, Year)
      /\ s.asOf = None => m.asOf = Figures!Latest(H)
  BY <1>1, <1>2, <1>6 DEF o
<1>9. QED
  BY <1>7, <1>8 DEF m, f

LEMMA FiguresStart == ASSUME Figures!ConstantsAssumption, Figures!Init PROVE FiguresInv
<1>1. /\ Figures!EmptySnapshot \in Figures!Snapshot /\ SnapshotFits(Figures!EmptySnapshot)
  BY DEF Figures!EmptySnapshot, Figures!Snapshot, Figures!Return, Figures!Date, SnapshotFits
<1>2. /\ row \in Figures!Row /\ row.returns = Figures!EmptySnapshot /\ row.breakdown = None
      /\ prices \in SUBSET Days
  BY <1>1 DEF Figures!Init, Figures!Row, Figures!ConstantsAssumption
<1>3. RowFits(row)
  BY <1>1, <1>2 DEF RowFits
<1>4. /\ detail \in Figures!Detail /\ detail.row = row
      /\ card \in Figures!Card /\ card.row = row /\ card.step = "idle" /\ card.history = {}
  BY <1>1, <1>2 DEF Figures!Init, Figures!Detail, Figures!Card, Figures!Date
<1>5. writes \in 0..MaxWrites
  BY DEF Figures!Init, Figures!ConstantsAssumption
<1>6. QED
  BY <1>2, <1>3, <1>4, <1>5 DEF FiguresInv, Figures!TypeOK, CardReads

\* The request for the detail.
LEMMA DetailSteps ==
  ASSUME Figures!ConstantsAssumption, FiguresInv,
         \/ Figures!Ask \/ (\E x \in Figures!Reads \ {"latest", "history"} : Figures!ReadExposure(x))
         \/ Figures!ReadLatestDate \/ Figures!ReadHistory \/ Figures!ReadFails
  PROVE  FiguresInv'
<1>1. /\ detail \in Figures!Detail /\ row \in Figures!Row /\ prices \in SUBSET Days
      /\ RowFits(row) /\ RowFits(detail.row)
  BY DEF FiguresInv, Figures!TypeOK
<1>2. prices' = prices /\ row' = row /\ card' = card /\ writes' = writes
  BY DEF Figures!Ask, Figures!ReadExposure, Figures!Proceed, Figures!ReadLatestDate,
     Figures!ReadHistory, Figures!ReadFails
<1>3. detail' \in Figures!Detail /\ detail'.row \in {row, detail.row}
  <2>1. CASE Figures!Ask
    <3> DEFINE status == IF ~ Figures!Visible(row) THEN 404 ELSE IF Figures!PersistedScore(row) = None THEN 503 ELSE 200
    <3>1. detail' = [detail EXCEPT !.asked = TRUE, !.row = row, !.status = status]
      BY <2>1 DEF Figures!Ask
    <3>2. status \in {200, 404, 503}
      OBVIOUS
    <3> HIDE DEF status
    <3>3. detail'.row = row
      BY <1>1, <3>1 DEF Figures!Detail
    <3>4. detail' \in Figures!Detail
      BY <1>1, <3>1, <3>2 DEF Figures!Detail
    <3>5. QED
      BY <3>3, <3>4
  <2>2. CASE \E x \in Figures!Reads \ {"latest", "history"} : Figures!ReadExposure(x)
    BY <1>1, <2>2 DEF Figures!ReadExposure, Figures!Proceed, Figures!Detail
  <2>3. CASE Figures!ReadLatestDate
    <3>1. Figures!Latest(prices) \in Figures!Date
      <4>1. CASE prices = {}
        BY <4>1 DEF Figures!Latest, Figures!Date
      <4>2. CASE prices # {}
        BY <1>1, <4>2, EndsOf DEF Figures!Date
      <4>3. QED
        BY <4>1, <4>2
    <3>2. QED
      BY <1>1, <2>3, <3>1 DEF Figures!ReadLatestDate, Figures!Detail
  <2>4. CASE Figures!ReadHistory
    BY <1>1, <2>4 DEF Figures!ReadHistory, Figures!Detail
  <2>5. CASE Figures!ReadFails
    BY <1>1, <2>5 DEF Figures!ReadFails, Figures!Detail
  <2>6. QED
    BY <2>1, <2>2, <2>3, <2>4, <2>5
<1>4. Figures!TypeOK' /\ RowFits(row)' /\ RowFits(detail.row)'
  BY <1>1, <1>2, <1>3 DEF FiguresInv, Figures!TypeOK, RowFits, SnapshotFits
<1>5. CardReads'
  BY <1>2 DEF FiguresInv, CardReads, RowFits, SnapshotFits
<1>6. QED
  BY <1>4, <1>5 DEF FiguresInv

\* The card.
LEMMA CardSteps ==
  ASSUME Figures!ConstantsAssumption, FiguresInv, Figures!ListCard \/ Figures!ReadCardWindow
  PROVE  FiguresInv'
<1>1. /\ card \in Figures!Card /\ row \in Figures!Row /\ row.returns \in Figures!Snapshot
      /\ prices \in SUBSET Days
      /\ card.row \in Figures!Row /\ card.row.returns \in Figures!Snapshot
      /\ RowFits(row) /\ RowFits(card.row) /\ CardReads
  BY DEF FiguresInv, Figures!TypeOK, CardReads, Figures!Card, Figures!Row
<1>2. prices' = prices /\ row' = row /\ detail' = detail /\ writes' = writes
  BY DEF Figures!ListCard, Figures!ReadCardWindow
<1>3. card' \in Figures!Card /\ CardReads'
  <2>1. CASE Figures!ListCard
    <3>1. /\ card'.row = row /\ card'.returns = row.returns /\ card'.history = {}
          /\ card'.step = IF row.returns.oneYear = None THEN "window" ELSE "done"
      BY <1>1, <2>1 DEF Figures!ListCard, Figures!Card, CardReads
    <3>2. card' \in Figures!Card
      BY <1>1, <2>1 DEF Figures!ListCard, Figures!Card
    <3>3. RowFits(card.row)'
      BY <1>1, <3>1 DEF RowFits, SnapshotFits
    <3>4. QED
      BY <3>1, <3>2, <3>3 DEF CardReads
  <2>2. CASE Figures!ReadCardWindow
    <3> DEFINE S == Figures!Since(prices, Today - CardWindow)
    <3>1. S \in SUBSET Days
      BY <1>1 DEF Figures!Since
    <3>2. Figures!Merged(card.returns, Figures!CardFallback(S)) \in Figures!Snapshot
      BY <1>1, <3>1, MergedFits DEF Figures!Card
    <3>3. /\ card.returns = card.row.returns
      BY <1>1, <2>2 DEF CardReads, Figures!ReadCardWindow
    <3>4. /\ card'.row = card.row /\ card'.step = "done" /\ card'.history = prices
          /\ card'.returns = Figures!Merged(card.returns, Figures!CardFallback(S))
      BY <1>1, <2>2 DEF Figures!ReadCardWindow, Figures!Card
    <3>5. card' \in Figures!Card
      BY <1>1, <2>2, <3>2 DEF Figures!ReadCardWindow, Figures!Card
    <3>6. card'.returns = Figures!Merged(card'.row.returns, Figures!CardFallback(Figures!Since(card'.history, Today - CardWindow)))
      BY <3>3, <3>4
    <3>7. RowFits(card.row)'
      BY <1>1, <3>4 DEF RowFits, SnapshotFits
    <3>8. QED
      BY <3>4, <3>5, <3>6, <3>7 DEF CardReads
  <2>3. QED
    BY <2>1, <2>2
<1>4. Figures!TypeOK' /\ RowFits(row)' /\ RowFits(detail.row)'
  BY <1>1, <1>2, <1>3 DEF FiguresInv, Figures!TypeOK, RowFits, SnapshotFits
<1>5. QED
  BY <1>3, <1>4 DEF FiguresInv

\* What writes the fund meanwhile.
LEMMA WriteSteps ==
  ASSUME Figures!ConstantsAssumption, FiguresInv,
         Figures!Import \/ Figures!MaterializeReturns \/ Figures!SyncMetadata \/ Figures!Recalculate \/ Figures!SetVisibility
  PROVE  FiguresInv'
<1>1. row \in Figures!Row /\ RowFits(row) /\ prices \in SUBSET Days /\ writes \in Nat /\ MaxWrites \in Nat
  BY DEF FiguresInv, Figures!TypeOK, Figures!ConstantsAssumption
<1>2. Figures!Write /\ detail' = detail /\ card' = card
  BY DEF Figures!Import, Figures!MaterializeReturns, Figures!SyncMetadata, Figures!Recalculate,
     Figures!SetVisibility, Figures!Write
<1>3. writes' \in 0..MaxWrites
  BY <1>1, <1>2 DEF Figures!Write
<1>4. prices' \in SUBSET Days /\ row' \in Figures!Row /\ RowFits(row)'
  <2>1. CASE Figures!Import
    BY <1>1, <2>1 DEF Figures!Import, RowFits, SnapshotFits
  <2>2. CASE Figures!MaterializeReturns
    <3> DEFINE s == Figures!SnapshotOf(Figures!Since(prices, Today - 5 * Year))
    <3>1. s \in Figures!Snapshot /\ SnapshotFits(s)
      BY <1>1, SnapshotsFit DEF Figures!Since
    <3> HIDE DEF s
    <3>2. prices' = prices /\ row' = [row EXCEPT !.returns = s]
      BY <2>2 DEF Figures!MaterializeReturns, s
    <3>3. /\ row' \in Figures!Row /\ row'.returns = s /\ row'.score = row.score
          /\ row'.breakdown = row.breakdown
      BY <1>1, <3>1, <3>2 DEF Figures!Row
    <3>4. QED
      BY <1>1, <3>1, <3>2, <3>3 DEF RowFits, SnapshotFits
  <2>3. CASE Figures!SyncMetadata
    <3>1. /\ row' \in Figures!Row /\ row'.returns = row.returns /\ row'.score = None
          /\ prices' = prices
      BY <1>1, <2>3 DEF Figures!SyncMetadata, Figures!Row
    <3>2. QED
      BY <1>1, <3>1 DEF RowFits, SnapshotFits
  <2>4. CASE Figures!Recalculate
    <3>1. /\ row' \in Figures!Row /\ row'.returns = row.returns /\ row'.score = row'.breakdown
          /\ prices' = prices
      BY <1>1, <2>4 DEF Figures!Recalculate, Figures!Row
    <3>2. QED
      BY <1>1, <3>1 DEF RowFits, SnapshotFits
  <2>5. CASE Figures!SetVisibility
    <3>1. /\ row' \in Figures!Row /\ row'.returns = row.returns /\ row'.score = row.score
          /\ row'.breakdown = row.breakdown /\ prices' = prices
      BY <1>1, <2>5 DEF Figures!SetVisibility, Figures!Row
    <3>2. QED
      BY <1>1, <3>1 DEF RowFits, SnapshotFits
  <2>6. QED
    BY <2>1, <2>2, <2>3, <2>4, <2>5
<1>5. RowFits(detail.row)' /\ CardReads'
  BY <1>2 DEF FiguresInv, CardReads, RowFits, SnapshotFits
<1>6. QED
  BY <1>2, <1>3, <1>4, <1>5 DEF FiguresInv, Figures!TypeOK

LEMMA FiguresInvariance == ASSUME Figures!ConstantsAssumption PROVE Figures!Spec => []FiguresInv
<1>1. Figures!Init => FiguresInv
  BY FiguresStart
<1>2. FiguresInv /\ [Figures!Next]_(Figures!vars) => FiguresInv'
  <2>1. ASSUME FiguresInv, UNCHANGED Figures!vars PROVE FiguresInv'
    BY <2>1 DEF Figures!vars, FiguresInv, Figures!TypeOK, RowFits, SnapshotFits, CardReads
  <2>2. QED
    BY <2>1, DetailSteps, CardSteps, WriteSteps DEF Figures!Next
<1>3. QED
  BY <1>1, <1>2, PTL DEF Figures!Spec

\* The types of the fund's row, its prices and the two requests.
THEOREM FiguresTypeSafe == ASSUME Figures!ConstantsAssumption PROVE Figures!Spec => []Figures!TypeOK
<1>1. FiguresInv => Figures!TypeOK
  BY DEF FiguresInv
<1>2. QED
  BY <1>1, FiguresInvariance, PTL

\* Whatever the history and the writes between the reads, what is told of a fund agrees.
THEOREM FiguresAgreed == ASSUME Figures!ConstantsAssumption
                         PROVE  Figures!Spec => []Figures!FiguresAgree
<1>1. ASSUME FiguresInv PROVE Figures!FiguresAgree
  <2>1. detail.history \in SUBSET Days /\ card.history \in SUBSET Days
    BY <1>1 DEF FiguresInv, Figures!TypeOK, Figures!Detail, Figures!Card
  <2>2. Figures!ReturnsFit
    BY <2>1, HistoryReturnsFit DEF Figures!ReturnsFit
  <2>3. Figures!ChartsFitReturns
    BY <2>1, HistoryChartsFit DEF Figures!ChartsFitReturns
  <2>4. Figures!CardFits
    <3>1. SUFFICES ASSUME card.step = "done", card.returns.oneYear # None
                   PROVE  /\ card.returns.asOf = card.returns.oneYear[2]
                          /\ (/\ card.history # {} /\ card.row.returns = Figures!EmptySnapshot
                              /\ Figures!PriceAtLookback(card.history, Year) >= Today - CardWindow) =>
                               card.returns.oneYear = Figures!ReturnsByPeriod(card.history).oneYear
      BY DEF Figures!CardFits
    <3> DEFINE old == card.row.returns
               S == Figures!Since(card.history, Today - CardWindow)
               new == Figures!Merged(old, Figures!CardFallback(S))
    <3>2. /\ old \in Figures!Snapshot /\ SnapshotFits(old)
          /\ \/ card.history = {} /\ card.returns = old
             \/ card.returns = new
      BY <1>1, <3>1 DEF FiguresInv, Figures!TypeOK, Figures!Card, Figures!Row, CardReads, RowFits
    <3>3. CASE card.history = {} /\ card.returns = old
      BY <3>1, <3>2, <3>3 DEF SnapshotFits
    <3>4. CASE card.returns = new
      <4>1. S \in SUBSET Days
        BY <2>1 DEF Figures!Since
      <4>2. /\ old.oneYear = None => new.oneYear = Figures!ReturnOver(S, Year)
            /\ old.asOf = None => new.asOf = Figures!Latest(S)
            /\ old.oneYear # None => new.oneYear = old.oneYear
            /\ old.asOf # None => new.asOf = old.asOf
        BY <3>2, <4>1, MergedFits DEF Figures!Merged, Figures!Snapshot
      <4>3. new.asOf = new.oneYear[2]
        BY <3>1, <3>2, <3>4, <4>2 DEF SnapshotFits, Figures!ReturnOver
      <4>4. ASSUME card.history # {}, old = Figures!EmptySnapshot,
                   Figures!PriceAtLookback(card.history, Year) >= Today - CardWindow
            PROVE  new.oneYear = Figures!ReturnsByPeriod(card.history).oneYear
        <5>1. new.oneYear = Figures!ReturnOver(S, Year)
          BY <4>2, <4>4 DEF Figures!EmptySnapshot
        <5>2. Today - CardWindow \in Int
          BY DEF Figures!ConstantsAssumption
        <5>3. Figures!ReturnOver(S, Year) = Figures!ReturnOver(card.history, Year)
          BY <2>1, <4>4, <5>2, WindowReturnFits
        <5>4. QED
          BY <5>1, <5>3 DEF Figures!ReturnsByPeriod
      <4>5. QED
        BY <3>4, <4>3, <4>4
    <3>5. QED
      BY <3>2, <3>3, <3>4
  <2>5. Figures!ScoresFit
    BY <1>1 DEF FiguresInv, RowFits, Figures!ScoresFit, Figures!PersistedScore
  <2>6. QED
    BY <2>2, <2>3, <2>4, <2>5 DEF Figures!FiguresAgree
<1>2. QED
  BY <1>1, FiguresInvariance, PTL

-----------------------------------------------------------------------------
(* The points of a chart                                                   *)

\* The instance has its own copies of what "finite" and "size" mean.
LEMMA SizesInCharts ==
  ASSUME NEW S
  PROVE  (Charts!IsFiniteSet(S) <=> IsFiniteSet(S)) /\ Charts!Cardinality(S) = Cardinality(S)
BY DEF Charts!IsFiniteSet, IsFiniteSet, Charts!Cardinality, Cardinality

\* Dates are ordered.
LEMMA IntegersAreOrdered ==
  /\ \A x, y \in Int : x < y \/ x = y \/ y < x
  /\ \A x, y, z \in Int : (x < y /\ y < z) => x < z
  /\ \A x, y \in Int : x < y => ~ (y < x) /\ x # y
OBVIOUS

\* A strict order of a set in which of two elements one comes first.
OrderOf(R, S) ==
  /\ \A x \in S : <<x, x>> \notin R
  /\ \A x, y \in S : x = y \/ <<x, y>> \in R \/ <<y, x>> \in R
  /\ \A x, y, z \in S : (<<x, y>> \in R /\ <<y, z>> \in R) => <<x, z>> \in R

\* How many come before x.
RankIn(R, S, x) == Cardinality({y \in S : <<y, x>> \in R})

\* The places in S are as many as its elements, and follow its order.
Ranked(R, S) ==
  /\ Cardinality(S) \in Nat
  /\ \A x \in S : RankIn(R, S, x) \in 0..(Cardinality(S) - 1)
  /\ \A x, z \in S : <<x, z>> \in R => RankIn(R, S, x) < RankIn(R, S, z)
  /\ \A n \in 0..(Cardinality(S) - 1) : \E x \in S : RankIn(R, S, x) = n

\* In a finite set that is ordered each element has a place, the number of those
\* before it, and each place is somebody's.
LEMMA RanksArePlaces ==
  ASSUME NEW S, IsFiniteSet(S), NEW R, OrderOf(R, S)
  PROVE  Ranked(R, S)
<1> DEFINE Below(x) == {y \in S : <<y, x>> \in R}
           size == Cardinality(S)
           rank == [x \in S |-> Cardinality(Below(x))]
<1>1. size \in Nat
  BY FS_CardinalityType
<1>2. ASSUME NEW x \in S
      PROVE  IsFiniteSet(Below(x)) /\ Cardinality(Below(x)) \in 0..(size - 1)
  <2>1. Below(x) \in SUBSET S /\ x \in S \ Below(x)
    BY DEF OrderOf
  <2>2. IsFiniteSet(Below(x)) /\ Cardinality(Below(x)) <= size /\ Cardinality(Below(x)) # size
    BY <2>1, FS_Subset
  <2>3. Cardinality(Below(x)) \in Nat
    BY <2>2, FS_CardinalityType
  <2> HIDE DEF Below, size
  <2>4. QED
    BY <1>1, <2>2, <2>3
<1>3. ASSUME NEW x \in S, NEW z \in S, <<x, z>> \in R
      PROVE  Cardinality(Below(x)) < Cardinality(Below(z))
  <2>1. Below(x) \in SUBSET Below(z) /\ x \in Below(z) \ Below(x)
    BY <1>3 DEF OrderOf
  <2>2. Cardinality(Below(x)) <= Cardinality(Below(z)) /\ Cardinality(Below(x)) # Cardinality(Below(z))
    BY <1>2, <2>1, FS_Subset
  <2>3. Cardinality(Below(x)) \in Int /\ Cardinality(Below(z)) \in Int
    BY <1>1, <1>2
  <2> HIDE DEF Below
  <2>4. QED
    BY <2>2, <2>3
<1>4. IsFiniteSet(0..(size - 1)) /\ Cardinality(0..(size - 1)) = size
  <2>1. 0 \in Int /\ size - 1 \in Int /\ (IF 0 > size - 1 THEN 0 ELSE (size - 1) - 0 + 1) = size
    BY <1>1
  <2> HIDE DEF size
  <2>2. QED
    BY <2>1, FS_Interval
<1>5. rank \in Injection(S, 0..(size - 1))
  <2>1. rank \in [S -> 0..(size - 1)]
    BY <1>2
  <2>2. ASSUME NEW x \in S, NEW z \in S, rank[x] = rank[z] PROVE x = z
    <3>1. /\ rank[x] \in Int /\ rank[z] \in Int
          /\ x = z \/ <<x, z>> \in R \/ <<z, x>> \in R
      <4>1. rank[x] \in Int /\ rank[z] \in Int
        BY <1>1, <1>2
      <4>2. QED
        BY <4>1 DEF OrderOf
    <3>2. <<x, z>> \in R => rank[x] < rank[z]
      BY <1>3
    <3>3. <<z, x>> \in R => rank[z] < rank[x]
      BY <1>3
    <3> HIDE DEF rank
    <3>4. QED
      BY <2>2, <3>1, <3>2, <3>3
  <2>3. QED
    BY <2>1, <2>2 DEF Injection, IsInjective
<1>6. rank \in Surjection(S, 0..(size - 1))
  BY <1>4, <1>5, FS_Injection
<1>7. \A n \in 0..(size - 1) : \E x \in S : Cardinality(Below(x)) = n
  BY <1>6 DEF Surjection
<1>8. QED
  BY <1>1, <1>2, <1>3, <1>7 DEF RankIn, Ranked

\* The first n of a set are n, or all there are.
LEMMA FirstFew ==
  ASSUME NEW S, IsFiniteSet(S), NEW R, OrderOf(R, S), NEW n \in Nat
  PROVE  /\ IsFiniteSet({x \in S : RankIn(R, S, x) < n})
         /\ Cardinality({x \in S : RankIn(R, S, x) < n})
              = IF Cardinality(S) <= n THEN Cardinality(S) ELSE n
<1> DEFINE Few == {x \in S : RankIn(R, S, x) < n}
           size == Cardinality(S)
           all == IF size <= n THEN size ELSE n
           rank == [x \in Few |-> RankIn(R, S, x)]
<1>1. /\ size \in Nat
      /\ \A x \in S : RankIn(R, S, x) \in 0..(size - 1)
      /\ \A x, z \in S : <<x, z>> \in R => RankIn(R, S, x) < RankIn(R, S, z)
      /\ \A k \in 0..(size - 1) : \E x \in S : RankIn(R, S, x) = k
  BY RanksArePlaces DEF Ranked
<1>2. all \in Nat
  BY <1>1
<1> HIDE DEF size
<1>3. IsFiniteSet(0..(all - 1)) /\ Cardinality(0..(all - 1)) = all
  <2>1. 0 \in Int /\ all - 1 \in Int /\ (IF 0 > all - 1 THEN 0 ELSE (all - 1) - 0 + 1) = all
    BY <1>2
  <2> HIDE DEF all
  <2>2. QED
    BY <2>1, FS_Interval
<1>4. rank \in Bijection(Few, 0..(all - 1))
  <2>1. rank \in [Few -> 0..(all - 1)]
    BY <1>1
  <2>2. ASSUME NEW x \in Few, NEW z \in Few, rank[x] = rank[z] PROVE x = z
    <3>1. RankIn(R, S, x) \in Int /\ RankIn(R, S, z) \in Int /\ RankIn(R, S, x) = RankIn(R, S, z)
      BY <1>1, <2>2
    <3>2. x = z \/ <<x, z>> \in R \/ <<z, x>> \in R
      BY DEF OrderOf
    <3>3. QED
      BY <1>1, <3>1, <3>2
  <2>3. ASSUME NEW k \in 0..(all - 1) PROVE \E x \in Few : rank[x] = k
    <3>1. k \in 0..(size - 1) /\ k < n
      BY <1>1
    <3>2. PICK x \in S : RankIn(R, S, x) = k
      BY <1>1, <3>1
    <3>3. QED
      BY <3>1, <3>2
  <2>4. QED
    BY <2>1, <2>2, <2>3 DEF Bijection, Injection, Surjection, IsInjective
<1>5. IsFiniteSet(Few) /\ Few \in SUBSET S
  BY FS_Subset
<1>6. Cardinality(Few) = Cardinality(0..(all - 1))
  <2> HIDE DEF Few, rank, all
  <2>1. ExistsBijection(Few, 0..(all - 1))
    BY <1>4 DEF ExistsBijection
  <2>2. QED
    BY <1>5, <2>1, FS_Bijection
<1>7. QED
  BY <1>3, <1>5, <1>6 DEF size

\* In a finite set of dates each has a place, which is one more than the number of
\* those before it.
LEMMA Places ==
  ASSUME NEW S \in SUBSET Int, IsFiniteSet(S)
  PROVE  LET Before(x) == Cardinality({y \in S : y < x})
         IN  /\ Cardinality(S) \in Nat
             /\ \A x \in S : Before(x) \in 0..(Cardinality(S) - 1)
             /\ \A x, z \in S : x < z => Before(x) < Before(z)
             /\ \A n \in 1..Cardinality(S) : \E x \in S : Before(x) = n - 1
<1> DEFINE Earlier == {p \in S \X S : p[1] < p[2]}
<1>1. \A x, y \in S : x \in Int /\ (<<x, y>> \in Earlier <=> x < y)
  OBVIOUS
<1>2. OrderOf(Earlier, S)
  BY <1>1 DEF OrderOf
<1>3. \A x \in S : {y \in S : <<y, x>> \in Earlier} = {y \in S : y < x}
  BY <1>1
<1>4. \A x \in S : RankIn(Earlier, S, x) = Cardinality({y \in S : y < x})
  BY <1>3 DEF RankIn
<1> HIDE DEF Earlier
<1>5. Ranked(Earlier, S)
  BY <1>2, RanksArePlaces
<1> DEFINE rank(x) == RankIn(Earlier, S, x)
           size == Cardinality(S)
<1>6. /\ size \in Nat
      /\ \A x \in S : rank(x) \in 0..(size - 1)
      /\ \A x, z \in S : <<x, z>> \in Earlier => rank(x) < rank(z)
      /\ \A n \in 0..(size - 1) : \E x \in S : rank(x) = n
  BY <1>5 DEF Ranked
<1>7. \A x \in S : rank(x) = Cardinality({y \in S : y < x})
  BY <1>4
<1> HIDE DEF rank, size
<1>8. \A n \in 1..size : \E x \in S : rank(x) = n - 1
  <2>1. \A n \in 1..size : n - 1 \in 0..(size - 1)
    BY <1>6
  <2>2. QED
    BY <1>6, <2>1
<1>9. \A x, z \in S : x < z => rank(x) < rank(z)
  BY <1>1, <1>6
<1>10. QED
  BY <1>6, <1>7, <1>8, <1>9 DEF size

\* The dates of a chart are those of its rows, in order.
LEMMA DatesInOrder ==
  ASSUME NEW S \in SUBSET Int, IsFiniteSet(S)
  PROVE  LET list == Charts!Ascending(S)
             size == Cardinality(S)
         IN  /\ size \in Nat /\ DOMAIN list = 1..size
             /\ \A n \in 1..size : list[n] \in S
             /\ \A i, j \in 1..size : i < j => list[i] < list[j]
             /\ \A x \in S : \E n \in 1..size : list[n] = x
<1> DEFINE Before(x) == Charts!Cardinality({y \in S : y < x})
           list == Charts!Ascending(S)
           size == Cardinality(S)
<1>1. /\ size \in Nat /\ \A x \in S : Before(x) \in 0..(size - 1)
      /\ \A x, z \in S : x < z => Before(x) < Before(z)
      /\ \A n \in 1..size : \E x \in S : Before(x) = n - 1
  BY Places, SizesInCharts
<1>2. list = [n \in 1..size |-> CHOOSE x \in S : Before(x) = n - 1]
  BY SizesInCharts DEF Charts!Ascending
<1> HIDE DEF Before, list, size
<1>3. \A n \in 1..size : list[n] \in S /\ Before(list[n]) = n - 1
  BY <1>1, <1>2
<1>4. ASSUME NEW x \in S, NEW z \in S
      PROVE  /\ x \in Int /\ z \in Int /\ Before(x) \in Int /\ Before(z) \in Int
             /\ x < z \/ x = z \/ z < x
  <2>1. x \in Int /\ z \in Int
    OBVIOUS
  <2>2. QED
    BY <1>1, <2>1
<1>5. ASSUME NEW i \in 1..size, NEW j \in 1..size, i < j
      PROVE  list[i] < list[j]
  <2>1. list[i] \in S /\ list[j] \in S /\ Before(list[i]) < Before(list[j])
    BY <1>1, <1>3, <1>5
  <2>2. list[j] < list[i] => Before(list[j]) < Before(list[i])
    BY <1>1, <2>1
  <2>3. Before(list[i]) \in Int /\ Before(list[j]) \in Int
    BY <1>4, <2>1
  <2>4. list[i] # list[j] /\ ~ (list[j] < list[i])
    BY <2>1, <2>2, <2>3, IntegersAreOrdered
  <2>5. QED
    BY <1>4, <2>1, <2>4
<1>6. ASSUME NEW x \in S
      PROVE  \E n \in 1..size : list[n] = x
  <2>1. Before(x) + 1 \in 1..size /\ (Before(x) + 1) - 1 = Before(x)
    BY <1>1
  <2>2. list[Before(x) + 1] \in S /\ Before(list[Before(x) + 1]) = Before(x)
    BY <1>3, <2>1
  <2>3. list[Before(x) + 1] = x
    <3>1. /\ list[Before(x) + 1] < x => Before(list[Before(x) + 1]) < Before(x)
          /\ x < list[Before(x) + 1] => Before(x) < Before(list[Before(x) + 1])
      BY <1>1, <2>2
    <3>2. ~ (Before(x) < Before(x)) /\ Before(x) \in Int
      BY <1>4, IntegersAreOrdered
    <3>3. ~ (list[Before(x) + 1] < x) /\ ~ (x < list[Before(x) + 1])
      BY <2>2, <3>1, <3>2
    <3>4. QED
      BY <1>4, <2>2, <3>3
  <2>4. QED
    BY <2>1, <2>3
<1>7. DOMAIN list = 1..size
  BY <1>2
<1>8. QED
  BY <1>1, <1>3, <1>5, <1>6, <1>7 DEF list, size

\* The index of the first close is 100, and a higher close has no lower an index.
LEMMA IndexesFit ==
  ASSUME NEW base \in Nat \ {0}, NEW a \in Nat, NEW b \in Nat, a <= b
  PROVE  Charts!Indexed(base, base) = 1000000 /\ Charts!Indexed(a, base) <= Charts!Indexed(b, base)
<1>1. Charts!Indexed(base, base) = 1000000
  <2> DEFINE n == 2 * 1000000 * base + base
  <2>1. n \in Nat /\ 2 * base \in Nat \ {0} /\ n = (2 * base) * 1000000 + base
    OBVIOUS
  <2>2. n < (2 * base) * (1000000 + 1)
    OBVIOUS
  <2>3. (n \div (2 * base)) <= 1000000
    BY <2>1, <2>2, DivisionBounds
  <2>4. 1000000 = ((2 * base) * 1000000) \div (2 * base)
    BY <2>1
  <2>5. (2 * base) * 1000000 \in Nat /\ (2 * base) * 1000000 <= n
    BY <2>1
  <2>6. 1000000 <= n \div (2 * base)
    BY <2>1, <2>4, <2>5, DivisionBounds
  <2>7. n \div (2 * base) \in Nat
    BY <2>1, DivisionBounds
  <2>8. QED
    BY <2>3, <2>6, <2>7 DEF Charts!Indexed
<1>2. Charts!Indexed(a, base) <= Charts!Indexed(b, base)
  <2>1. /\ 2 * 1000000 * a + base \in Nat /\ 2 * 1000000 * b + base \in Nat
        /\ 2 * 1000000 * a + base <= 2 * 1000000 * b + base /\ 2 * base \in Nat \ {0}
    OBVIOUS
  <2>2. QED
    BY <2>1, DivisionBounds DEF Charts!Indexed
<1>3. QED
  BY <1>1, <1>2

\* The points of a chart are its rows in the order of their dates.
LEMMA PointsAre ==
  ASSUME Charts!ConstantsAssumption, NEW rows \in Charts!Prices
  PROVE  LET p == Charts!Points(rows)
             n == Cardinality(DOMAIN rows)
         IN  /\ DOMAIN rows \in SUBSET (FirstDay..MaxDay) /\ IsFiniteSet(DOMAIN rows)
             /\ n \in Nat /\ DOMAIN p = 1..n /\ Len(p) = n
             /\ \A i \in 1..n :
                  /\ p[i].date \in DOMAIN rows /\ p[i].date \in Int
                  /\ p[i].close = rows[p[i].date]
                  /\ p[i].value = Charts!Indexed(p[i].close, p[1].close)
                  /\ p[i].close \in Nat \ {0}
             /\ \A i, j \in 1..n : i < j => p[i].date < p[j].date
             /\ \A d \in DOMAIN rows : \E i \in 1..n : p[i].date = d
<1> DEFINE S == DOMAIN rows
           n == Cardinality(S)
           list == Charts!Ascending(S)
           p == Charts!Points(rows)
<1>1. PICK dates \in SUBSET (FirstDay..MaxDay) : rows \in [dates -> Closes]
  BY DEF Charts!Prices
<1>2. S = dates /\ \A d \in S : rows[d] \in Closes
  BY <1>1
<1>3. S \in SUBSET Int /\ IsFiniteSet(S)
  <2>1. FirstDay \in Int /\ MaxDay \in Int
    BY DEF Charts!ConstantsAssumption
  <2>2. IsFiniteSet(FirstDay..MaxDay)
    BY <2>1, FS_Interval
  <2>3. IsFiniteSet(S)
    BY <1>2, <2>2, FS_Subset
  <2>4. QED
    BY <1>2, <2>1, <2>3
<1>4. /\ n \in Nat /\ DOMAIN list = 1..n /\ \A i \in 1..n : list[i] \in S
      /\ \A i, j \in 1..n : i < j => list[i] < list[j]
      /\ \A x \in S : \E i \in 1..n : list[i] = x
  BY <1>3, DatesInOrder
<1>5. p = [i \in DOMAIN list |->
             [date |-> list[i], close |-> rows[list[i]],
              value |-> Charts!Indexed(rows[list[i]], rows[list[1]])]]
  BY DEF Charts!Points
<1>6. S \in SUBSET (FirstDay..MaxDay)
  BY <1>1, <1>2
<1> HIDE DEF S, n, list, p
<1>7. DOMAIN p = 1..n /\ Len(p) = n
  BY <1>4, <1>5
<1>8. ASSUME NEW i \in 1..n
      PROVE  /\ p[i].date = list[i] /\ p[i].close = rows[list[i]]
             /\ p[i].value = Charts!Indexed(rows[list[i]], rows[list[1]])
             /\ p[1].close = rows[list[1]]
             /\ list[i] \in Int /\ rows[list[i]] \in Nat \ {0}
  <2>1. 1 \in 1..n
    BY <1>4
  <2>2. rows[list[i]] \in Nat \ {0}
    BY <1>2, <1>4 DEF Charts!ConstantsAssumption
  <2>3. QED
    BY <1>3, <1>4, <1>5, <2>1, <2>2
<1>9. \A i \in 1..n :
        /\ p[i].date \in S /\ p[i].date \in Int /\ p[i].close = rows[p[i].date]
        /\ p[i].value = Charts!Indexed(p[i].close, p[1].close) /\ p[i].close \in Nat \ {0}
  BY <1>4, <1>8
<1>10. /\ \A i, j \in 1..n : i < j => p[i].date < p[j].date
       /\ \A d \in S : \E i \in 1..n : p[i].date = d
  BY <1>4, <1>8
<1>11. QED
  BY <1>3, <1>4, <1>6, <1>7, <1>9, <1>10 DEF S, n, p

-----------------------------------------------------------------------------
(* The inductive invariant                                                 *)

View ==
  [id : {"malformed", "unknown", "fund"}, wants : Charts!Wants,
   step : {"idle", "fund", "latest", "history", "done"}, status : {200, 400, 404},
   from : Int \cup {None}, latest : (FirstDay..MaxDay) \cup {None}, rows : Charts!Prices,
   since : 0..MaxEdits]

ChartsTyped ==
  /\ today \in 1..MaxDay
  /\ closes \in Charts!Prices
  /\ public \in BOOLEAN
  /\ viewer \in View /\ viewer.since <= edits
  /\ pruned \in SUBSET (FirstDay..MaxDay) /\ pruned \cap DOMAIN closes = {}
  /\ edits \in 0..MaxEdits

\* A day pruned is still too old to keep.
PrunedIsOld == \A d \in pruned : d < today - Retention

\* How far a request is says what has been read of the fund.
RequestFits ==
  /\ viewer.step # "done" => viewer.rows = <<>> /\ viewer.status = 200
  /\ viewer.step \in {"idle", "fund", "latest"} => viewer.latest = None
  /\ viewer.step = "fund" => viewer.id # "malformed"
  /\ viewer.step \in {"latest", "history"} =>
       /\ viewer.id = "fund" /\ viewer.wants \in DOMAIN PeriodDays
       /\ edits = viewer.since => public
  /\ viewer.step = "history" => viewer.latest # None

\* The latest date a request holds was the last of the prices, which is saved still
\* or pruned since.
LatestFits ==
  viewer.latest # None =>
    /\ viewer.wants \in DOMAIN PeriodDays
    /\ viewer.from = viewer.latest - PeriodDays[viewer.wants]
    /\ viewer.latest \in DOMAIN closes \cup pruned
    /\ edits = viewer.since => viewer.latest = Charts!LatestDate(closes)

\* An answer is that of the fund as it was read.
AnswerFits ==
  viewer.step = "done" =>
    /\ viewer.id = "malformed" => viewer.status = 400
    /\ viewer.id = "unknown" => viewer.status = 404
    /\ (viewer.id = "fund" /\ edits = viewer.since) => (viewer.status = 404 <=> ~ public)
    /\ Charts!Charted =>
         IF viewer.latest = None
         THEN viewer.rows = <<>> /\ (edits = viewer.since => DOMAIN closes = {})
         ELSE viewer.rows = Charts!History(closes, viewer.from, viewer.latest)

ChartsInv == ChartsTyped /\ PrunedIsOld /\ RequestFits /\ LatestFits /\ AnswerFits

-----------------------------------------------------------------------------
\* What is saved and what is pruned leaves prices.
LEMMA PricesAre ==
  ASSUME Charts!ConstantsAssumption, NEW rows \in Charts!Prices
  PROVE  DOMAIN rows \in SUBSET (FirstDay..MaxDay) /\ rows \in [DOMAIN rows -> Closes]
<1>1. PICK dates \in SUBSET (FirstDay..MaxDay) : rows \in [dates -> Closes]
  BY DEF Charts!Prices
<1>2. QED
  BY <1>1

LEMMA SomeOfThePrices ==
  ASSUME Charts!ConstantsAssumption, NEW rows \in Charts!Prices, NEW S \in SUBSET DOMAIN rows
  PROVE  [d \in S |-> rows[d]] \in Charts!Prices
<1>1. DOMAIN rows \in SUBSET (FirstDay..MaxDay) /\ rows \in [DOMAIN rows -> Closes]
  BY PricesAre
<1>2. [d \in S |-> rows[d]] \in [S -> Closes] /\ S \in SUBSET (FirstDay..MaxDay)
  BY <1>1
<1>3. QED
  BY <1>2 DEF Charts!Prices

\* The last of the prices is one of them.
LEMMA LatestIs ==
  ASSUME Charts!ConstantsAssumption, NEW rows \in Charts!Prices
  PROVE  /\ Charts!LatestDate(rows) = None <=> DOMAIN rows = {}
         /\ DOMAIN rows # {} =>
              /\ Charts!LatestDate(rows) \in DOMAIN rows
              /\ Charts!LatestDate(rows) \in FirstDay..MaxDay
              /\ \A d \in DOMAIN rows : d <= Charts!LatestDate(rows)
<1>1. DOMAIN rows \in SUBSET (FirstDay..MaxDay) /\ IsFiniteSet(DOMAIN rows)
  BY PointsAre
<1>2. FirstDay \in Int /\ MaxDay \in Int /\ None \notin Int
  BY DEF Charts!ConstantsAssumption
<1>3. CASE DOMAIN rows = {}
  BY <1>3 DEF Charts!LatestDate
<1>4. CASE DOMAIN rows # {}
  <2>1. DOMAIN rows \in SUBSET Int
    BY <1>1, <1>2
  <2>2. \E x \in DOMAIN rows : \A y \in DOMAIN rows : y <= x
    BY <1>1, <1>4, <2>1, FiniteSetsAreBounded
  <2>3. \E x \in DOMAIN rows : \A y \in DOMAIN rows : x >= y
    BY <2>1, <2>2
  <2>4. Charts!LatestDate(rows) = CHOOSE x \in DOMAIN rows : \A y \in DOMAIN rows : x >= y
    BY <1>4 DEF Charts!LatestDate, Charts!Max
  <2>5. Charts!LatestDate(rows) \in DOMAIN rows /\ \A y \in DOMAIN rows : Charts!LatestDate(rows) >= y
    BY <2>3, <2>4
  <2>6. Charts!LatestDate(rows) \in Int /\ Charts!LatestDate(rows) # None
    BY <1>2, <2>1, <2>5
  <2>7. QED
    BY <1>1, <1>4, <2>1, <2>5, <2>6
<1>5. QED
  BY <1>3, <1>4

\* What the steps of a request write keeps it a request.
Sent(v, step) == [v EXCEPT !.step = step]
Ended(v, status) == [v EXCEPT !.step = "done", !.status = status]
Filled(v, rows) == [v EXCEPT !.step = "done", !.rows = rows]
Dated(v, latest, from, step) == [v EXCEPT !.latest = latest, !.from = from, !.step = step]
Sought(v, id, wants, since, step, status) ==
  [v EXCEPT !.id = id, !.wants = wants, !.since = since, !.step = step, !.status = status]

Ids == {"malformed", "unknown", "fund"}
Steps == {"idle", "fund", "latest", "history", "done"}
Statuses == {200, 400, 404}
Starts == Int \cup {None}
Dates == (FirstDay..MaxDay) \cup {None}
Times == 0..MaxEdits

LEMMA ViewsAre ==
  View = [id : Ids, wants : Charts!Wants, step : Steps, status : Statuses,
          from : Starts, latest : Dates, rows : Charts!Prices, since : Times]
BY DEF View, Ids, Steps, Statuses, Starts, Dates, Times

LEMMA SentIs == ASSUME NEW v \in View, NEW step \in Steps PROVE Sent(v, step) \in View
BY ViewsAre, Zenon DEF Sent

LEMMA EndedIs == ASSUME NEW v \in View, NEW t \in Statuses PROVE Ended(v, t) \in View
<1>1. "done" \in Steps
  BY DEF Steps
<1>2. QED
  BY <1>1, ViewsAre, Zenon DEF Ended

LEMMA FilledIs == ASSUME NEW v \in View, NEW r \in Charts!Prices PROVE Filled(v, r) \in View
<1>1. "done" \in Steps
  BY DEF Steps
<1>2. QED
  BY <1>1, ViewsAre, Zenon DEF Filled

LEMMA DatedIs ==
  ASSUME NEW v \in View, NEW l \in Dates, NEW f \in Starts, NEW step \in Steps
  PROVE  Dated(v, l, f, step) \in View
BY ViewsAre, Zenon DEF Dated

LEMMA SoughtIs ==
  ASSUME NEW v \in View, NEW i \in Ids, NEW w \in Charts!Wants, NEW n \in Times, NEW step \in Steps,
         NEW t \in Statuses
  PROVE  Sought(v, i, w, n, step, t) \in View
BY ViewsAre, Zenon DEF Sought

LEMMA ChartsStart == ASSUME Charts!ConstantsAssumption, Charts!Init PROVE ChartsInv
<1>1. <<>> \in Charts!Prices
  <2>1. <<>> \in [{} -> Closes] /\ {} \in SUBSET (FirstDay..MaxDay)
    OBVIOUS
  <2>2. QED
    BY <2>1 DEF Charts!Prices
<1>2. /\ viewer.id = "fund" /\ viewer.wants = "row" /\ viewer.step = "idle" /\ viewer.status = 200
      /\ viewer.from = None /\ viewer.latest = None /\ viewer.rows = <<>> /\ viewer.since = 0
  BY DEF Charts!Init
<1>3. 0 \in 0..MaxEdits
  BY DEF Charts!ConstantsAssumption
<1>4. viewer \in View
  BY <1>1, <1>3 DEF Charts!Init, View, Charts!Wants
<1>5. ChartsTyped
  BY <1>1, <1>2, <1>3, <1>4 DEF Charts!Init, ChartsTyped
<1>6. PrunedIsOld
  BY DEF Charts!Init, PrunedIsOld
<1>7. QED
  BY <1>2, <1>5, <1>6 DEF ChartsInv, RequestFits, LatestFits, AnswerFits

-----------------------------------------------------------------------------
\* A step of the request.
LEMMA RequestSteps ==
  ASSUME Charts!ConstantsAssumption, ChartsInv,
         Charts!Ask \/ Charts!ReadFund \/ Charts!ReadLatestDate \/ Charts!ReadHistory
  PROVE  ChartsInv'
<1>1. UNCHANGED <<today, closes, public, pruned, edits>>
  BY DEF Charts!Ask, Charts!ReadFund, Charts!ReadLatestDate, Charts!ReadHistory, Charts!Reads
<1>2. /\ ChartsTyped /\ PrunedIsOld /\ RequestFits /\ LatestFits /\ viewer \in View
      /\ closes \in Charts!Prices /\ edits \in 0..MaxEdits /\ viewer.since <= edits
  BY DEF ChartsInv, ChartsTyped
<1>3. PrunedIsOld'
  BY <1>1, <1>2 DEF PrunedIsOld
<1>4. ASSUME viewer' \in View, viewer'.since <= edits PROVE ChartsTyped'
  BY <1>1, <1>2, <1>4 DEF ChartsTyped
<1>5. CASE Charts!Ask
  <2>1. PICK id \in {"malformed", "unknown", "fund"}, wants \in Charts!Wants :
          viewer' = [viewer EXCEPT !.id = id, !.wants = wants, !.since = edits,
                       !.step = IF id = "malformed" THEN "done" ELSE "fund",
                       !.status = IF id = "malformed" THEN 400 ELSE 200]
    BY <1>5 DEF Charts!Ask
  <2>2. /\ viewer'.id = id /\ viewer'.wants = wants /\ viewer'.since = edits
        /\ viewer'.step = IF id = "malformed" THEN "done" ELSE "fund"
        /\ viewer'.status = IF id = "malformed" THEN 400 ELSE 200
        /\ viewer'.latest = viewer.latest /\ viewer'.rows = viewer.rows
    BY <1>2, <2>1 DEF View
  <2>3. viewer' \in View
    <3>1. /\ edits \in Times /\ id \in Ids
          /\ (IF id = "malformed" THEN "done" ELSE "fund") \in Steps
          /\ (IF id = "malformed" THEN 400 ELSE 200) \in Statuses
      BY <1>2 DEF Times, Ids, Steps, Statuses
    <3>2. viewer' = Sought(viewer, id, wants, edits, IF id = "malformed" THEN "done" ELSE "fund",
                           IF id = "malformed" THEN 400 ELSE 200)
      BY <2>1 DEF Sought
    <3>3. QED
      BY <1>2, <3>1, <3>2, SoughtIs
  <2>4. viewer.step = "idle" /\ viewer.latest = None /\ viewer.rows = <<>>
    BY <1>2, <1>5 DEF Charts!Ask, RequestFits
  <2>5. viewer'.since <= edits
    BY <1>2, <2>2 DEF Charts!ConstantsAssumption
  <2>6. RequestFits' /\ LatestFits'
    BY <2>2, <2>4 DEF RequestFits, LatestFits
  <2>7. AnswerFits'
    BY <2>2, <2>4 DEF AnswerFits, Charts!Charted
  <2>8. QED
    BY <1>3, <1>4, <2>3, <2>5, <2>6, <2>7 DEF ChartsInv
<1>6. CASE Charts!ReadFund
  <2>1. /\ viewer.step = "fund" /\ viewer.latest = None /\ viewer.rows = <<>>
        /\ viewer.id \in {"unknown", "fund"}
    BY <1>2, <1>6 DEF Charts!ReadFund, RequestFits, View
  <2>2. CASE viewer.id = "unknown" \/ ~ public
    <3>1. viewer' = [viewer EXCEPT !.step = "done", !.status = 404]
      BY <1>6, <2>2 DEF Charts!ReadFund, Charts!Reply
    <3>2. /\ viewer'.id = viewer.id /\ viewer'.wants = viewer.wants /\ viewer'.since = viewer.since
          /\ viewer'.step = "done" /\ viewer'.status = 404
          /\ viewer'.latest = None /\ viewer'.rows = <<>>
      BY <1>2, <2>1, <3>1 DEF View
    <3>3. viewer' \in View
      <4>1. viewer' = Ended(viewer, 404) /\ 404 \in Statuses
        BY <3>1 DEF Ended, Statuses
      <4>2. QED
        BY <1>2, <4>1, EndedIs
    <3>4. RequestFits' /\ LatestFits' /\ AnswerFits'
      BY <1>1, <2>1, <2>2, <3>2 DEF RequestFits, LatestFits, AnswerFits, Charts!Charted
    <3>5. QED
      BY <1>2, <1>3, <1>4, <3>2, <3>3, <3>4 DEF ChartsInv
  <2>3. CASE ~ (viewer.id = "unknown" \/ ~ public) /\ viewer.wants \in {"bad", "row"}
    <3>1. PICK status \in {200, 400} :
            /\ viewer' = [viewer EXCEPT !.step = "done", !.status = status]
            /\ status = 400 <=> viewer.wants = "bad"
      BY <1>6, <2>3 DEF Charts!ReadFund, Charts!Reply
    <3>2. /\ viewer'.id = viewer.id /\ viewer'.wants = viewer.wants /\ viewer'.since = viewer.since
          /\ viewer'.step = "done" /\ viewer'.status = status
          /\ viewer'.latest = None /\ viewer'.rows = <<>>
      BY <1>2, <2>1, <3>1 DEF View
    <3>3. viewer' \in View
      <4>1. viewer' = Ended(viewer, status) /\ status \in Statuses
        BY <3>1 DEF Ended, Statuses
      <4>2. QED
        BY <1>2, <4>1, EndedIs
    <3>4. viewer.wants \notin DOMAIN PeriodDays
      BY <2>3 DEF Charts!ConstantsAssumption
    <3>5. RequestFits' /\ LatestFits' /\ AnswerFits'
      BY <1>1, <2>1, <2>3, <3>1, <3>2, <3>4 DEF RequestFits, LatestFits, AnswerFits, Charts!Charted
    <3>6. QED
      BY <1>2, <1>3, <1>4, <3>2, <3>3, <3>5 DEF ChartsInv
  <2>4. CASE ~ (viewer.id = "unknown" \/ ~ public) /\ viewer.wants \notin {"bad", "row"}
    <3>1. viewer' = [viewer EXCEPT !.step = "latest"]
      BY <1>6, <2>4 DEF Charts!ReadFund
    <3>2. /\ viewer'.id = viewer.id /\ viewer'.wants = viewer.wants /\ viewer'.since = viewer.since
          /\ viewer'.step = "latest" /\ viewer'.status = viewer.status
          /\ viewer'.latest = None /\ viewer'.rows = <<>>
      BY <1>2, <2>1, <3>1 DEF View
    <3>3. viewer' \in View
      <4>1. viewer' = Sent(viewer, "latest") /\ "latest" \in Steps
        BY <3>1 DEF Sent, Steps
      <4>2. QED
        BY <1>2, <4>1, SentIs
    <3>4. viewer.wants \in DOMAIN PeriodDays /\ viewer.status = 200
      BY <1>2, <2>1, <2>4 DEF View, Charts!Wants, RequestFits
    <3>5. RequestFits' /\ LatestFits' /\ AnswerFits'
      BY <1>1, <2>1, <2>4, <3>2, <3>4 DEF RequestFits, LatestFits, AnswerFits
    <3>6. QED
      BY <1>2, <1>3, <1>4, <3>2, <3>3, <3>5 DEF ChartsInv
  <2>5. QED
    BY <2>2, <2>3, <2>4
<1>7. CASE Charts!ReadLatestDate
  <2> DEFINE latest == Charts!LatestDate(closes)
             from == Charts!WindowStart(viewer.wants, latest)
             step == IF latest = None THEN "done" ELSE "history"
  <2>1. viewer' = [viewer EXCEPT !.latest = latest, !.from = from, !.step = step]
    BY <1>7 DEF Charts!ReadLatestDate
  <2>2. /\ viewer.step = "latest" /\ viewer.rows = <<>> /\ viewer.id = "fund" /\ viewer.status = 200
        /\ viewer.wants \in DOMAIN PeriodDays
        /\ edits = viewer.since => public
    BY <1>2, <1>7 DEF Charts!ReadLatestDate, RequestFits
  <2>3. PeriodDays[viewer.wants] \in Nat /\ None \notin Int /\ FirstDay \in Int /\ MaxDay \in Int
    BY <2>2 DEF Charts!ConstantsAssumption
  <2>4. today \in Int
    BY <1>2, <2>3 DEF ChartsTyped
  <2>5. /\ latest = None <=> DOMAIN closes = {}
        /\ latest # None => latest \in DOMAIN closes /\ latest \in FirstDay..MaxDay /\ latest \in Int
    <3>1. closes \in Charts!Prices /\ \A d \in FirstDay..MaxDay : d \in Int
      BY <1>2, <2>3
    <3> HIDE DEF latest
    <3>2. QED
      BY <3>1, LatestIs DEF latest
  <2>6. from = (IF latest = None THEN today ELSE latest) - PeriodDays[viewer.wants]
    BY <2>3, <2>4, <2>5 DEF Charts!WindowStart, Charts!SubtractPeriod, Charts!AddDays
  <2>7. from \in Int /\ latest \in (FirstDay..MaxDay) \cup {None}
    BY <2>3, <2>4, <2>5, <2>6
  <2>8. latest # None => from = latest - PeriodDays[viewer.wants]
    BY <2>6
  <2>9. step \in {"history", "done"} /\ (step = "done" <=> latest = None)
    OBVIOUS
  <2> HIDE DEF latest, from, step
  <2>10. /\ viewer'.id = viewer.id /\ viewer'.wants = viewer.wants /\ viewer'.since = viewer.since
         /\ viewer'.step = step /\ viewer'.status = 200
         /\ viewer'.latest = latest /\ viewer'.rows = <<>> /\ viewer'.from = from
    BY <1>2, <2>1, <2>2 DEF View
  <2>11. viewer' \in View
    <3>1. from \in Starts /\ latest \in Dates /\ step \in Steps
      BY <2>7, <2>9 DEF Starts, Dates, Steps
    <3>2. viewer' = Dated(viewer, latest, from, step)
      BY <2>1 DEF Dated
    <3>3. QED
      BY <1>2, <3>1, <3>2, DatedIs
  <2>12. RequestFits'
    BY <1>1, <2>2, <2>9, <2>10 DEF RequestFits
  <2>13. LatestFits'
    BY <1>1, <2>2, <2>5, <2>8, <2>10 DEF LatestFits, latest
  <2>14. AnswerFits'
    BY <1>1, <2>2, <2>5, <2>9, <2>10 DEF AnswerFits
  <2>15. QED
    BY <1>2, <1>3, <1>4, <2>10, <2>11, <2>12, <2>13, <2>14 DEF ChartsInv
<1>8. CASE Charts!ReadHistory
  <2> DEFINE rows == Charts!History(closes, viewer.from, viewer.latest)
  <2>1. viewer' = [viewer EXCEPT !.step = "done", !.rows = rows]
    BY <1>8 DEF Charts!ReadHistory
  <2>2. /\ viewer.step = "history" /\ viewer.id = "fund" /\ viewer.status = 200
        /\ viewer.latest # None
        /\ edits = viewer.since => public
    BY <1>2, <1>8 DEF Charts!ReadHistory, RequestFits
  <2>3. rows \in Charts!Prices
    BY <1>2, SomeOfThePrices DEF Charts!History
  <2>4. rows = Charts!History(closes, viewer.from, viewer.latest)
    OBVIOUS
  <2> HIDE DEF rows
  <2>5. /\ viewer'.id = viewer.id /\ viewer'.wants = viewer.wants /\ viewer'.since = viewer.since
        /\ viewer'.step = "done" /\ viewer'.status = 200
        /\ viewer'.latest = viewer.latest /\ viewer'.rows = rows /\ viewer'.from = viewer.from
    BY <1>2, <2>1, <2>2 DEF View
  <2>6. viewer' \in View
    <3>1. viewer' = Filled(viewer, rows)
      BY <2>1 DEF Filled
    <3>2. QED
      BY <1>2, <2>3, <3>1, FilledIs
  <2>7. RequestFits'
    BY <2>5 DEF RequestFits
  <2>8. LatestFits'
    BY <1>1, <1>2, <2>5 DEF LatestFits
  <2>9. rows = Charts!History(closes', viewer'.from, viewer'.latest)
    BY <1>1, <2>4, <2>5
  <2>10. AnswerFits'
    BY <1>1, <2>2, <2>5, <2>9 DEF AnswerFits
  <2>11. QED
    BY <1>2, <1>3, <1>4, <2>5, <2>6, <2>7, <2>8, <2>10 DEF ChartsInv
<1>9. QED
  BY <1>5, <1>6, <1>7, <1>8

-----------------------------------------------------------------------------
\* A change of the fund is one more, and comes before the answer.
LEMMA EditKept ==
  ASSUME Charts!ConstantsAssumption, ChartsInv, Charts!Edit,
         today' \in 1..MaxDay, today <= today', closes' \in Charts!Prices, public' \in BOOLEAN,
         pruned' \in SUBSET (FirstDay..MaxDay), pruned' \cap DOMAIN closes' = {},
         DOMAIN closes \cup pruned \in SUBSET (DOMAIN closes' \cup pruned'), PrunedIsOld'
  PROVE  ChartsInv'
<1>1. /\ ChartsTyped /\ RequestFits /\ LatestFits /\ viewer \in View
      /\ edits \in 0..MaxEdits /\ viewer.since <= edits
  BY DEF ChartsInv, ChartsTyped
<1>2. edits' = edits + 1 /\ edits < MaxEdits /\ UNCHANGED viewer /\ viewer.step # "done"
  BY DEF Charts!Edit
<1>3. edits' \in 0..MaxEdits /\ viewer.since <= edits' /\ edits' # viewer.since
  <2>1. viewer.since \in 0..MaxEdits /\ MaxEdits \in Nat
    BY <1>1 DEF View, Charts!ConstantsAssumption
  <2>2. QED
    BY <1>1, <1>2, <2>1
<1>4. ChartsTyped'
  BY <1>1, <1>2, <1>3 DEF ChartsTyped
<1>5. RequestFits' /\ LatestFits' /\ AnswerFits'
  BY <1>1, <1>2, <1>3 DEF RequestFits, LatestFits, AnswerFits
<1>6. QED
  BY <1>4, <1>5 DEF ChartsInv

LEMMA EditSteps ==
  ASSUME Charts!ConstantsAssumption, ChartsInv,
         Charts!NextDay \/ Charts!SavePrices \/ Charts!Prune \/ Charts!ChangeVisibility
  PROVE  ChartsInv'
<1>1. /\ today \in 1..MaxDay /\ closes \in Charts!Prices /\ public \in BOOLEAN /\ PrunedIsOld
      /\ pruned \in SUBSET (FirstDay..MaxDay) /\ pruned \cap DOMAIN closes = {}
  BY DEF ChartsInv, ChartsTyped
<1>2. /\ today \in Int /\ Retention \in Int /\ MaxDay \in Int /\ FirstDay \in Int
      /\ today <= today
  BY <1>1 DEF Charts!ConstantsAssumption
<1>3. \A d \in pruned : d \in Int
  BY <1>1, <1>2
<1>4. DOMAIN closes \in SUBSET (FirstDay..MaxDay) /\ closes \in [DOMAIN closes -> Closes]
  BY <1>1, PricesAre
<1>5. CASE Charts!NextDay
  <2>1. /\ Charts!Edit /\ today' = today + 1 /\ today < MaxDay
        /\ UNCHANGED <<closes, public, pruned>>
    BY <1>5 DEF Charts!NextDay
  <2>2. today' \in 1..MaxDay /\ today <= today'
    BY <1>1, <1>2, <2>1
  <2>3. PrunedIsOld'
    <3>1. \A x, y, z \in Int : x < y - z => x < (y + 1) - z
      OBVIOUS
    <3>2. QED
      BY <1>1, <1>2, <1>3, <2>1, <3>1 DEF PrunedIsOld
  <2>4. QED
    BY <1>1, <2>1, <2>2, <2>3, EditKept
<1>6. CASE Charts!SavePrices
  <2>1. Charts!Edit /\ UNCHANGED <<today, public>>
    BY <1>6 DEF Charts!SavePrices
  <2>2. PICK dates \in Batches : \E rows \in [dates -> Closes \cup {0}] :
          IF ~ Charts!Valid(rows) THEN UNCHANGED <<closes, pruned>>
          ELSE closes' = Charts!Upserted(closes, rows) /\ pruned' = pruned \ dates
    BY <1>6 DEF Charts!SavePrices
  <2>3. PICK rows \in [dates -> Closes \cup {0}] :
          IF ~ Charts!Valid(rows) THEN UNCHANGED <<closes, pruned>>
          ELSE closes' = Charts!Upserted(closes, rows) /\ pruned' = pruned \ dates
    BY <2>2
  <2>4. CASE ~ Charts!Valid(rows)
    <3>1. UNCHANGED <<closes, pruned>>
      BY <2>3, <2>4
    <3>2. PrunedIsOld'
      BY <1>1, <2>1, <3>1 DEF PrunedIsOld
    <3>3. QED
      BY <1>1, <1>2, <2>1, <3>1, <3>2, EditKept
  <2>5. CASE Charts!Valid(rows)
    <3>1. closes' = Charts!Upserted(closes, rows) /\ pruned' = pruned \ dates
      BY <2>3, <2>5
    <3>2. \A d \in dates : rows[d] \in Closes
      BY <2>5 DEF Charts!Valid, Charts!Range
    <3>3. DOMAIN closes' = DOMAIN closes \cup dates
      BY <3>1 DEF Charts!Upserted
    <3>4. closes' \in [DOMAIN closes \cup dates -> Closes]
      BY <1>4, <3>1, <3>2 DEF Charts!Upserted
    <3>5. dates \in SUBSET (FirstDay..MaxDay)
      BY DEF Charts!ConstantsAssumption
    <3>6. DOMAIN closes \cup dates \in SUBSET (FirstDay..MaxDay)
      BY <1>4, <3>5
    <3>7. closes' \in Charts!Prices
      BY <3>4, <3>6 DEF Charts!Prices
    <3>8. PrunedIsOld'
      BY <1>1, <2>1, <3>1 DEF PrunedIsOld
    <3>9. /\ pruned' \in SUBSET (FirstDay..MaxDay) /\ pruned' \cap DOMAIN closes' = {}
          /\ DOMAIN closes \cup pruned \in SUBSET (DOMAIN closes' \cup pruned')
      BY <1>1, <3>1, <3>3
    <3>10. QED
      BY <1>1, <1>2, <2>1, <3>7, <3>8, <3>9, EditKept
  <2>6. QED
    BY <2>4, <2>5
<1>7. CASE Charts!Prune
  <2> DEFINE old == {d \in DOMAIN closes : d < Charts!Cutoff}
  <2>1. /\ Charts!Edit /\ UNCHANGED <<today, public>>
        /\ closes' = [d \in DOMAIN closes \ old |-> closes[d]] /\ pruned' = pruned \cup old
    BY <1>7 DEF Charts!Prune
  <2>2. closes' \in Charts!Prices
    BY <1>1, <2>1, SomeOfThePrices
  <2>3. DOMAIN closes' = DOMAIN closes \ old /\ old \in SUBSET DOMAIN closes
    BY <2>1
  <2>4. PrunedIsOld'
    <3>1. Charts!Cutoff = today - Retention
      BY <1>2 DEF Charts!Cutoff, Charts!AddDays
    <3>2. \A d \in old : d < today - Retention
      BY <3>1
    <3>3. QED
      BY <1>1, <2>1, <3>2 DEF PrunedIsOld
  <2> HIDE DEF old
  <2>5. /\ pruned' \in SUBSET (FirstDay..MaxDay) /\ pruned' \cap DOMAIN closes' = {}
        /\ DOMAIN closes \cup pruned \in SUBSET (DOMAIN closes' \cup pruned')
    BY <1>1, <1>4, <2>1, <2>3
  <2>6. QED
    BY <1>1, <1>2, <2>1, <2>2, <2>4, <2>5, EditKept
<1>8. CASE Charts!ChangeVisibility
  <2>1. Charts!Edit /\ public' = ~ public /\ UNCHANGED <<today, closes, pruned>>
    BY <1>8 DEF Charts!ChangeVisibility
  <2>2. PrunedIsOld'
    BY <1>1, <2>1 DEF PrunedIsOld
  <2>3. QED
    BY <1>1, <1>2, <2>1, <2>2, EditKept
<1>9. QED
  BY <1>5, <1>6, <1>7, <1>8

LEMMA ChartsInvariance == ASSUME Charts!ConstantsAssumption PROVE Charts!Spec => []ChartsInv
<1>1. Charts!Init => ChartsInv
  BY ChartsStart
<1>2. ChartsInv /\ [Charts!Next]_(Charts!vars) => ChartsInv'
  <2> SUFFICES ASSUME ChartsInv, [Charts!Next]_(Charts!vars) PROVE ChartsInv'
    OBVIOUS
  <2>1. CASE Charts!Next
    BY <2>1, RequestSteps, EditSteps DEF Charts!Next
  <2>2. CASE UNCHANGED Charts!vars
    BY <2>2 DEF Charts!vars, ChartsInv, ChartsTyped, PrunedIsOld, RequestFits, LatestFits,
       AnswerFits, Charts!Charted
  <2>3. QED
    BY <2>1, <2>2
<1>3. QED
  BY <1>1, <1>2, PTL DEF Charts!Spec

\* What a chart request holds, whatever is saved, pruned or hidden meanwhile, is of its
\* type.
THEOREM ChartsTypeSafe == ASSUME Charts!ConstantsAssumption PROVE Charts!Spec => []Charts!TypeOK
<1>1. ChartsInv => Charts!TypeOK
  BY DEF ChartsInv, ChartsTyped, View, Charts!TypeOK
<1>2. QED
  BY <1>1, ChartsInvariance, PTL

-----------------------------------------------------------------------------
(* What a chart shows                                                      *)

\* The points of an answered chart are the prices of its window.
LEMMA ShownIs ==
  ASSUME Charts!ConstantsAssumption, ChartsInv, Charts!Charted, viewer.latest # None
  PROVE  LET n == Cardinality(DOMAIN viewer.rows)
         IN  /\ n \in Nat /\ DOMAIN Charts!Shown = 1..n /\ Len(Charts!Shown) = n
             /\ viewer.from \in Int /\ viewer.latest \in Int /\ viewer.from <= viewer.latest
             /\ \A i \in 1..n :
                  /\ Charts!Shown[i].date \in DOMAIN closes /\ Charts!Shown[i].date \in Int
                  /\ viewer.from <= Charts!Shown[i].date /\ Charts!Shown[i].date <= viewer.latest
                  /\ Charts!Shown[i].close = closes[Charts!Shown[i].date]
                  /\ Charts!Shown[i].close \in Nat \ {0}
                  /\ Charts!Shown[i].value = Charts!Indexed(Charts!Shown[i].close, Charts!Shown[1].close)
             /\ \A i, j \in 1..n : i < j => Charts!Shown[i].date < Charts!Shown[j].date
             /\ \A d \in DOMAIN closes : (viewer.from <= d /\ d <= viewer.latest) =>
                  \E i \in 1..n : Charts!Shown[i].date = d
<1>1. /\ viewer \in View /\ closes \in Charts!Prices /\ LatestFits /\ AnswerFits
  BY DEF ChartsInv, ChartsTyped
<1>2. /\ viewer.rows = Charts!History(closes, viewer.from, viewer.latest)
      /\ viewer.wants \in DOMAIN PeriodDays
      /\ viewer.from = viewer.latest - PeriodDays[viewer.wants]
  BY <1>1 DEF AnswerFits, LatestFits, Charts!Charted
<1>3. viewer.rows \in Charts!Prices
  BY <1>1 DEF View
<1>4. DOMAIN viewer.rows = {e \in DOMAIN closes : viewer.from <= e /\ e <= viewer.latest}
      /\ \A d \in DOMAIN viewer.rows : viewer.rows[d] = closes[d]
  BY <1>2 DEF Charts!History
<1>5. viewer.from \in Int /\ viewer.latest \in Int /\ viewer.from <= viewer.latest
  <2>1. viewer.latest \in FirstDay..MaxDay /\ FirstDay \in Int /\ MaxDay \in Int
    BY <1>1 DEF View, Charts!ConstantsAssumption
  <2>2. PeriodDays[viewer.wants] \in Nat
    BY <1>2 DEF Charts!ConstantsAssumption
  <2>3. \A x \in Int, y \in Nat : x - y \in Int /\ x - y <= x
    OBVIOUS
  <2>4. QED
    BY <1>2, <2>1, <2>2, <2>3
<1> DEFINE n == Cardinality(DOMAIN viewer.rows)
<1>6. /\ n \in Nat /\ DOMAIN Charts!Shown = 1..n /\ Len(Charts!Shown) = n
      /\ \A i \in 1..n :
           /\ Charts!Shown[i].date \in DOMAIN viewer.rows /\ Charts!Shown[i].date \in Int
           /\ Charts!Shown[i].close = viewer.rows[Charts!Shown[i].date]
           /\ Charts!Shown[i].value = Charts!Indexed(Charts!Shown[i].close, Charts!Shown[1].close)
           /\ Charts!Shown[i].close \in Nat \ {0}
      /\ \A i, j \in 1..n : i < j => Charts!Shown[i].date < Charts!Shown[j].date
      /\ \A d \in DOMAIN viewer.rows : \E i \in 1..n : Charts!Shown[i].date = d
  BY <1>3, PointsAre DEF Charts!Shown
<1> HIDE DEF n
<1>7. QED
  BY <1>4, <1>5, <1>6 DEF n

\* While the latest price is there, a chart ends with it; it starts with the first
\* price of its window.
LEMMA EndsAtLatest ==
  ASSUME Charts!ConstantsAssumption, ChartsInv, Charts!Charted, viewer.latest \in DOMAIN closes
  PROVE  /\ Charts!Shown # <<>> /\ Len(Charts!Shown) \in Nat \ {0} /\ 1 \in 1..Len(Charts!Shown)
         /\ Charts!Shown[Len(Charts!Shown)].date = viewer.latest
         /\ \A d \in DOMAIN closes : (viewer.from <= d /\ d <= viewer.latest) => Charts!Shown[1].date <= d
<1>1. viewer.latest # None
  <2>1. DOMAIN closes \in SUBSET (FirstDay..MaxDay)
    BY PricesAre DEF ChartsInv, ChartsTyped
  <2>2. QED
    BY <2>1 DEF Charts!ConstantsAssumption
<1> DEFINE n == Len(Charts!Shown)
<1>2. /\ n \in Nat /\ DOMAIN Charts!Shown = 1..n
      /\ viewer.from \in Int /\ viewer.latest \in Int /\ viewer.from <= viewer.latest
      /\ \A i \in 1..n : Charts!Shown[i].date \in Int /\ Charts!Shown[i].date <= viewer.latest
      /\ \A i, j \in 1..n : i < j => Charts!Shown[i].date < Charts!Shown[j].date
      /\ \A d \in DOMAIN closes : (viewer.from <= d /\ d <= viewer.latest) =>
           \E i \in 1..n : Charts!Shown[i].date = d
  BY <1>1, ShownIs
<1>3. \A x, y \in Int : (x <= y /\ y <= x) => x = y
  OBVIOUS
<1>4. PICK k \in 1..n : Charts!Shown[k].date = viewer.latest
  <2>1. viewer.latest <= viewer.latest
    BY <1>2
  <2>2. QED
    BY <1>2, <2>1
<1> HIDE DEF n
<1>5. n \in Nat \ {0} /\ 1 \in 1..n /\ n \in 1..n
  BY <1>2, <1>4
<1>6. Charts!Shown # <<>>
  <2>1. DOMAIN <<>> = {}
    OBVIOUS
  <2>2. QED
    BY <1>2, <1>5, <2>1
<1>7. Charts!Shown[n].date = viewer.latest
  <2>1. k = n \/ k < n
    BY <1>2
  <2>2. CASE k < n
    <3>1. Charts!Shown[k].date < Charts!Shown[n].date /\ Charts!Shown[n].date <= viewer.latest
      BY <1>2, <1>5, <2>2
    <3>2. viewer.latest < Charts!Shown[n].date /\ Charts!Shown[n].date \in Int
      BY <1>2, <1>4, <1>5, <3>1
    <3>3. QED
      BY <1>2, <3>1, <3>2
  <2>3. QED
    BY <1>4, <2>1, <2>2
<1>8. ASSUME NEW d \in DOMAIN closes, viewer.from <= d, d <= viewer.latest
      PROVE  Charts!Shown[1].date <= d
  <2>1. PICK i \in 1..n : Charts!Shown[i].date = d
    BY <1>2, <1>8
  <2>2. i = 1 \/ 1 < i
    BY <1>2
  <2>3. Charts!Shown[1].date \in Int /\ Charts!Shown[i].date \in Int
    BY <1>2, <1>5
  <2>4. 1 < i => Charts!Shown[1].date < Charts!Shown[i].date
    BY <1>2, <1>5
  <2>5. QED
    BY <2>1, <2>2, <2>3, <2>4
<1>9. QED
  BY <1>5, <1>6, <1>7, <1>8 DEF n

\* A chart without a latest date is empty.
LEMMA EmptyShown ==
  ASSUME Charts!ConstantsAssumption, ChartsInv, Charts!Charted, viewer.latest = None
  PROVE  Charts!Shown = <<>> /\ Charts!ShownTo = None /\ Charts!AsOf = None
<1>1. viewer \in View /\ viewer.rows = <<>>
  BY DEF ChartsInv, ChartsTyped, AnswerFits, Charts!Charted
<1>2. viewer.rows \in Charts!Prices /\ DOMAIN viewer.rows = {}
  BY <1>1 DEF View
<1>3. DOMAIN Charts!Shown = {} /\ Len(Charts!Shown) = 0
  BY <1>2, PointsAre, FS_EmptySet DEF Charts!Shown
<1>4. Charts!Shown = <<>>
  BY <1>3 DEF Charts!Shown, Charts!Points
<1>5. QED
  BY <1>4 DEF Charts!ShownTo, Charts!AsOf

LEMMA IndexesHold ==
  ASSUME Charts!ConstantsAssumption, ChartsInv, Charts!Charted
  PROVE  Charts!IndexFits
<1>1. CASE viewer.latest = None
  <2>1. DOMAIN Charts!Shown = {} /\ Charts!AsOf = Charts!ShownTo
    BY <1>1, EmptyShown
  <2>2. QED
    BY <2>1 DEF Charts!IndexFits
<1>2. CASE viewer.latest # None
  <2> DEFINE n == Len(Charts!Shown)
  <2>1. /\ n \in Nat /\ DOMAIN Charts!Shown = 1..n /\ Charts!ShownTo = viewer.latest
        /\ \A i \in 1..n :
             /\ Charts!Shown[i].date \in Int /\ Charts!Shown[i].close \in Nat \ {0}
             /\ viewer.from <= Charts!Shown[i].date /\ Charts!Shown[i].date <= viewer.latest
             /\ Charts!Shown[i].value = Charts!Indexed(Charts!Shown[i].close, Charts!Shown[1].close)
        /\ \A i, j \in 1..n : i < j => Charts!Shown[i].date < Charts!Shown[j].date
    BY <1>2, ShownIs DEF Charts!ShownTo
  <2>2. Charts!AsOf # Charts!ShownTo => Charts!ShownTo \in pruned /\ edits > viewer.since
    <3>1. SUFFICES ASSUME Charts!AsOf # viewer.latest
                   PROVE  viewer.latest \in pruned /\ edits > viewer.since
      BY <2>1
    <3>2. viewer.latest \notin DOMAIN closes
      BY <3>1, EndsAtLatest DEF Charts!AsOf
    <3>3. /\ viewer.latest \in DOMAIN closes \cup pruned
          /\ edits = viewer.since => viewer.latest = Charts!LatestDate(closes)
          /\ viewer \in View /\ viewer.since <= edits /\ edits \in 0..MaxEdits
          /\ closes \in Charts!Prices
      BY <1>2 DEF ChartsInv, ChartsTyped, LatestFits
    <3>4. edits # viewer.since
      BY <1>2, <3>2, <3>3, LatestIs
    <3>5. viewer.since \in Int /\ edits \in Int
      BY <3>3 DEF View, Charts!ConstantsAssumption
    <3>6. QED
      BY <3>2, <3>3, <3>4, <3>5
  <2> HIDE DEF n
  <2>3. ASSUME NEW i \in DOMAIN Charts!Shown
        PROVE  /\ viewer.from <= Charts!Shown[i].date /\ Charts!Shown[i].date <= Charts!ShownTo
               /\ i = 1 => Charts!Shown[i].value = 1000000
               /\ \A j \in 1..(i - 1) :
                    /\ Charts!Shown[j].date < Charts!Shown[i].date
                    /\ Charts!Shown[j].close <= Charts!Shown[i].close => Charts!Shown[j].value <= Charts!Shown[i].value
    <3>1. i \in 1..n /\ 1 \in 1..n
      BY <2>1
    <3>2. i = 1 => Charts!Shown[i].value = 1000000
      <4>1. Charts!Shown[1].close \in Nat \ {0} /\ Charts!Shown[1].close \in Nat /\ Charts!Shown[1].close <= Charts!Shown[1].close
        BY <2>1, <3>1
      <4>2. QED
        BY <2>1, <3>1, <4>1, IndexesFit
    <3>3. ASSUME NEW j \in 1..(i - 1)
          PROVE  /\ Charts!Shown[j].date < Charts!Shown[i].date
                 /\ Charts!Shown[j].close <= Charts!Shown[i].close => Charts!Shown[j].value <= Charts!Shown[i].value
      <4>1. j \in 1..n /\ j < i
        BY <2>1, <3>1
      <4>2. /\ Charts!Shown[1].close \in Nat \ {0} /\ Charts!Shown[j].close \in Nat
            /\ Charts!Shown[i].close \in Nat
            /\ Charts!Shown[j].value = Charts!Indexed(Charts!Shown[j].close, Charts!Shown[1].close)
            /\ Charts!Shown[i].value = Charts!Indexed(Charts!Shown[i].close, Charts!Shown[1].close)
        BY <2>1, <3>1, <4>1
      <4>3. QED
        BY <2>1, <3>1, <4>1, <4>2, IndexesFit
    <3>4. QED
      BY <2>1, <3>1, <3>2, <3>3
  <2>4. QED
    BY <2>2, <2>3 DEF Charts!IndexFits
<1>3. QED
  BY <1>1, <1>2

LEMMA RetentionHolds ==
  ASSUME Charts!ConstantsAssumption, ChartsInv, Charts!Charted
  PROVE  Charts!RetentionFits
<1> SUFFICES ASSUME NEW d \in pruned, viewer.latest # None, viewer.from <= d, d <= viewer.latest
             PROVE  viewer.latest < today
  BY DEF Charts!RetentionFits
<1>1. /\ d < today - Retention /\ d \in FirstDay..MaxDay /\ today \in 1..MaxDay
      /\ viewer.from = viewer.latest - PeriodDays[viewer.wants]
      /\ viewer.wants \in DOMAIN PeriodDays
  BY DEF ChartsInv, ChartsTyped, PrunedIsOld, LatestFits
<1>2. PeriodDays[viewer.wants] \in Int /\ PeriodDays[viewer.wants] <= Retention
  BY <1>1 DEF Charts!ConstantsAssumption
<1>3. d \in Int /\ today \in Int /\ Retention \in Int /\ viewer.latest \in Int
  BY <1>1, ShownIs DEF Charts!ConstantsAssumption
<1>4. \A l, p, e, t, r \in Int : (l - p <= e /\ e < t - r /\ p <= r) => l < t
  OBVIOUS
<1>5. QED
  BY <1>1, <1>2, <1>3, <1>4

-----------------------------------------------------------------------------
(* The gain of a chart                                                     *)

Distance(d) == IF d < viewer.from THEN viewer.from - d ELSE d - viewer.from
Nearest ==
  CHOOSE d \in DOMAIN closes : \A e \in DOMAIN closes :
    Distance(d) < Distance(e) \/ (Distance(d) = Distance(e) /\ d <= e)

\* Of the days of a finite set one is the nearest to the first of a window, and of
\* two as near the earlier.
LEMMA NearestIs ==
  ASSUME NEW S \in SUBSET Int, IsFiniteSet(S), S # {}, viewer.from \in Int
  PROVE  \E d \in S : \A e \in S :
           Distance(d) < Distance(e) \/ (Distance(d) = Distance(e) /\ d <= e)
<1>1. \A d \in S : d \in Int /\ Distance(d) \in Int
  BY DEF Distance
<1> DEFINE Far == {Distance(d) : d \in S}
<1>2. Far \in SUBSET Int /\ Far # {}
  BY <1>1
<1>3. IsFiniteSet(Far)
  <2> DEFINE far == [d \in S |-> Distance(d)]
  <2>1. far \in Surjection(S, Far)
    BY DEF Surjection
  <2>2. QED
    BY <2>1, FS_Surjection
<1>4. PICK near \in Far : \A f \in Far : near <= f
  BY <1>2, <1>3, FiniteSetsAreBounded
<1> DEFINE Best == {d \in S : Distance(d) = near}
<1>5. Best \in SUBSET Int /\ Best # {} /\ IsFiniteSet(Best)
  BY <1>1, FS_Subset
<1>6. PICK d \in Best : \A e \in Best : d <= e
  BY <1>5, FiniteSetsAreBounded
<1>7. ASSUME NEW e \in S
      PROVE  Distance(d) < Distance(e) \/ (Distance(d) = Distance(e) /\ d <= e)
  <2>1. Distance(d) = near /\ near <= Distance(e) /\ Distance(d) \in Int /\ Distance(e) \in Int
    BY <1>1, <1>4
  <2>2. Distance(e) = near => d <= e
    BY <1>6
  <2> HIDE DEF Best, Far
  <2>3. QED
    BY <2>1, <2>2
<1>8. QED
  BY <1>7

LEMMA GainsHold ==
  ASSUME Charts!ConstantsAssumption, ChartsInv, Charts!Charted
  PROVE  Charts!GainFitsReturn
<1> DEFINE latest == Charts!LatestDate(closes)
<1>1. SUFFICES ASSUME edits = viewer.since, latest # None
               PROVE  /\ Charts!ShownTo = latest
                      /\ Nearest >= viewer.from =>
                           Charts!Shown[Len(Charts!Shown)].value = Charts!Indexed(closes[latest], closes[Nearest])
                      /\ Nearest < viewer.from =>
                           \A d \in DOMAIN closes : d <= Nearest \/ Charts!Shown[1].date <= d
  BY DEF Charts!GainFitsReturn, Nearest, Distance
<1>2. closes \in Charts!Prices /\ LatestFits /\ AnswerFits
  BY DEF ChartsInv, ChartsTyped
<1>3. /\ DOMAIN closes # {} /\ latest \in DOMAIN closes /\ \A d \in DOMAIN closes : d <= latest
  BY <1>1, <1>2, LatestIs
<1>4. viewer.latest # None
  BY <1>1, <1>2, <1>3 DEF AnswerFits, Charts!Charted
<1>5. viewer.latest = latest
  BY <1>1, <1>2, <1>4 DEF LatestFits
<1>6. DOMAIN closes \in SUBSET Int /\ IsFiniteSet(DOMAIN closes)
  <2>1. DOMAIN closes \in SUBSET (FirstDay..MaxDay) /\ IsFiniteSet(DOMAIN closes)
    BY <1>2, PointsAre
  <2>2. \A d \in FirstDay..MaxDay : d \in Int
    BY DEF Charts!ConstantsAssumption
  <2>3. QED
    BY <2>1, <2>2
<1>7. /\ viewer.from \in Int /\ viewer.latest \in Int /\ viewer.from <= viewer.latest
      /\ \A i \in 1..Len(Charts!Shown) :
           /\ Charts!Shown[i].date \in DOMAIN closes /\ viewer.from <= Charts!Shown[i].date
           /\ Charts!Shown[i].close = closes[Charts!Shown[i].date]
           /\ Charts!Shown[i].value = Charts!Indexed(Charts!Shown[i].close, Charts!Shown[1].close)
  BY <1>4, ShownIs
<1>8. /\ Len(Charts!Shown) \in 1..Len(Charts!Shown) /\ 1 \in 1..Len(Charts!Shown)
      /\ Charts!Shown[Len(Charts!Shown)].date = latest
      /\ \A d \in DOMAIN closes : (viewer.from <= d /\ d <= latest) => Charts!Shown[1].date <= d
  <2>1. /\ Len(Charts!Shown) \in Nat \ {0} /\ 1 \in 1..Len(Charts!Shown)
        /\ Charts!Shown[Len(Charts!Shown)].date = latest
        /\ \A d \in DOMAIN closes : (viewer.from <= d /\ d <= latest) => Charts!Shown[1].date <= d
    BY <1>3, <1>5, EndsAtLatest
  <2>2. QED
    BY <2>1
<1>9. /\ Nearest \in DOMAIN closes
      /\ \A e \in DOMAIN closes :
           Distance(Nearest) < Distance(e) \/ (Distance(Nearest) = Distance(e) /\ Nearest <= e)
  BY <1>3, <1>6, <1>7, NearestIs DEF Nearest
<1> HIDE DEF latest
<1>10. Nearest \in Int /\ latest \in Int /\ Charts!Shown[1].date \in Int /\ Charts!Shown[1].date \in DOMAIN closes
  BY <1>3, <1>6, <1>7, <1>8, <1>9
<1>11. ASSUME Nearest >= viewer.from PROVE Charts!Shown[1].date = Nearest
  <2>1. viewer.from <= Nearest /\ Nearest <= latest /\ Charts!Shown[1].date <= Nearest
    BY <1>3, <1>7, <1>8, <1>9, <1>10, <1>11
  <2>2. viewer.from <= Charts!Shown[1].date
    BY <1>7, <1>8
  <2>3. Distance(Nearest) = Nearest - viewer.from /\ Distance(Charts!Shown[1].date) = Charts!Shown[1].date - viewer.from
    BY <1>7, <1>10, <2>1, <2>2 DEF Distance
  <2>4. \/ Nearest - viewer.from < Charts!Shown[1].date - viewer.from
        \/ Nearest - viewer.from = Charts!Shown[1].date - viewer.from
    BY <1>9, <1>10, <2>3
  <2>5. \A x, y, z \in Int : (x - z < y - z \/ x - z = y - z) => x <= y
    OBVIOUS
  <2>6. \A x, y \in Int : (x <= y /\ y <= x) => x = y
    OBVIOUS
  <2>7. Nearest <= Charts!Shown[1].date
    BY <1>7, <1>10, <2>4, <2>5
  <2>8. QED
    BY <1>10, <2>1, <2>6, <2>7
<1>12. ASSUME Nearest < viewer.from, NEW d \in DOMAIN closes
       PROVE  d <= Nearest \/ Charts!Shown[1].date <= d
  <2>1. SUFFICES ASSUME Nearest < d PROVE Charts!Shown[1].date <= d
    BY <1>6, <1>10
  <2>2. d \in Int /\ d <= latest
    BY <1>3, <1>6
  <2>3. viewer.from <= d
    <3>1. SUFFICES ASSUME d < viewer.from PROVE FALSE
      BY <1>7, <2>2
    <3>2. Distance(Nearest) = viewer.from - Nearest /\ Distance(d) = viewer.from - d
      BY <1>12, <3>1 DEF Distance
    <3>3. viewer.from - Nearest < viewer.from - d \/ viewer.from - Nearest = viewer.from - d
      BY <1>9, <3>2
    <3>4. \A x, y, z \in Int : (z - x < z - y \/ z - x = z - y) => ~ (x < y)
      OBVIOUS
    <3>5. QED
      BY <1>7, <1>10, <2>1, <2>2, <3>3, <3>4
  <2>4. QED
    BY <1>8, <2>2, <2>3
<1>13. Charts!ShownTo = latest
  BY <1>1, <1>5 DEF Charts!ShownTo
<1>14. ASSUME Nearest >= viewer.from
       PROVE  Charts!Shown[Len(Charts!Shown)].value = Charts!Indexed(closes[latest], closes[Nearest])
  BY <1>7, <1>8, <1>11, <1>14
<1>15. QED
  BY <1>12, <1>13, <1>14 DEF latest

LEMMA RefusalsHold == ASSUME Charts!ConstantsAssumption, ChartsInv PROVE Charts!RefusalsFit
<1> SUFFICES ASSUME viewer.step = "done", edits = viewer.since
             PROVE  /\ (viewer.id = "fund" /\ ~ public) <=> (viewer.status = 404 /\ viewer.id # "unknown")
                    /\ (Charts!Charted /\ DOMAIN closes = {}) => (Charts!Shown = <<>> /\ Charts!ShownTo = None)
  BY DEF Charts!RefusalsFit
<1>1. viewer \in View /\ closes \in Charts!Prices /\ AnswerFits /\ LatestFits
  BY DEF ChartsInv, ChartsTyped
<1>2. viewer.id \in {"malformed", "unknown", "fund"}
  BY <1>1 DEF View
<1>3. (viewer.id = "fund" /\ ~ public) <=> (viewer.status = 404 /\ viewer.id # "unknown")
  BY <1>1, <1>2 DEF AnswerFits
<1>4. ASSUME Charts!Charted, DOMAIN closes = {} PROVE Charts!Shown = <<>> /\ Charts!ShownTo = None
  <2>1. Charts!LatestDate(closes) = None
    BY <1>4 DEF Charts!LatestDate
  <2>2. viewer.latest = None
    BY <1>1, <2>1 DEF LatestFits
  <2>3. QED
    BY <1>4, <2>2, EmptyShown
<1>5. QED
  BY <1>3, <1>4

\* Whatever is saved, revised, pruned or hidden between the three reads of a chart, its
\* index starts at 100 and moves with the closes, it ends on the date it names or that
\* price was pruned, retention takes no day of a window that ends today, its gain is
\* the return of the same prices, and a hidden fund has none.
THEOREM ChartsHold == ASSUME Charts!ConstantsAssumption PROVE Charts!Spec => []Charts!ChartsFit
<1>1. ChartsInv => Charts!ChartsFit
  BY IndexesHold, RetentionHolds, GainsHold, RefusalsHold DEF Charts!ChartsFit
<1>2. QED
  BY <1>1, ChartsInvariance, PTL

-----------------------------------------------------------------------------
(* The answers of the provider                                             *)

\* What the provider answers to q.
AnswerTo(q) ==
  CASE q.kind = "composition" -> Provider!FundComposition(q)
    [] q.kind = "quote" -> Provider!FundQuote(q)
    [] q.kind = "profile" -> Provider!FundProfile(q)
    [] q.kind = "news" -> Provider!GeneralNews(q)

\* The answer, once there is one, is that to the question.
ProviderInv == question \in Questions /\ answer \in {None, AnswerTo(question)}

\* A question is answered once.
LEMMA ProviderInvariance == ASSUME Provider!ConstantsAssumption PROVE Provider!Spec => []ProviderInv
<1>1. Provider!Init => ProviderInv
  BY DEF Provider!Init, ProviderInv
<1>2. ProviderInv /\ [Provider!Next]_(Provider!vars) => ProviderInv'
  <2>1. SUFFICES ASSUME ProviderInv, [Provider!Next]_(Provider!vars) PROVE ProviderInv'
    OBVIOUS
  <2>2. CASE Provider!AskComposition
    BY <2>1, <2>2 DEF Provider!AskComposition, ProviderInv, AnswerTo
  <2>3. CASE Provider!AskQuote
    BY <2>1, <2>3 DEF Provider!AskQuote, ProviderInv, AnswerTo
  <2>4. CASE Provider!AskProfile
    BY <2>1, <2>4 DEF Provider!AskProfile, ProviderInv, AnswerTo
  <2>5. CASE Provider!AskNews
    BY <2>1, <2>5 DEF Provider!AskNews, ProviderInv, AnswerTo
  <2>6. CASE UNCHANGED Provider!vars
    BY <2>1, <2>6 DEF Provider!vars, ProviderInv
  <2>7. QED
    BY <2>1, <2>2, <2>3, <2>4, <2>5, <2>6 DEF Provider!Next
<1>3. QED
  BY <1>1, <1>2, PTL DEF Provider!Spec

\* A scale of fractions is one where no weight is more than 1.
LEMMA ScaleNeverMatters ==
  ASSUME Provider!ConstantsAssumption, NEW rows \in Seq(Provider!Weighting), NEW i \in DOMAIN rows
  PROVE  Provider!NormalizeWeight(rows[i], Provider!DetectWeightScale(rows))
           = Provider!NormalizeWeight(rows[i], "percent")
<1>1. rows[i] \in Provider!Weighting
  OBVIOUS
<1>2. Provider!DetectWeightScale(rows) = "fraction" =>
        (Provider!Positive(rows[i]) => rows[i].weight <= 10)
  BY DEF Provider!DetectWeightScale
<1>3. Provider!DetectWeightScale(rows) \in {"fraction", "percent"}
  BY DEF Provider!DetectWeightScale
<1> DEFINE weighting == rows[i]
           scale == Provider!DetectWeightScale(rows)
<1> HIDE DEF weighting, scale
<1>4. weighting.weight \in Int \cup {None} /\ weighting.percentage \in Int \cup {None} /\ None \notin Int
  BY <1>1 DEF weighting, Provider!Weighting, Provider!ConstantsAssumption
<1>5. Provider!NormalizeWeight(weighting, scale) = Provider!NormalizeWeight(weighting, "percent")
  BY <1>2, <1>3, <1>4 DEF weighting, scale, Provider!NormalizeWeight, Provider!Positive
<1>6. QED
  BY <1>5 DEF weighting, scale

\* The weights of a composition keep their order.
LEMMA WeightsHold ==
  ASSUME Provider!ConstantsAssumption, ProviderInv
  PROVE  Provider!WeightsFit
<1>1. SUFFICES ASSUME Provider!Answered("composition")
               PROVE  Provider!WeightsFit
  BY DEF Provider!WeightsFit
<1> DEFINE rows == question.rows
           percent == answer.value.exposures
<1>2. question.kind = "composition" /\ rows \in Seq(Provider!Weighting)
  BY <1>1 DEF Provider!Answered, ProviderInv, Provider!ConstantsAssumption, Provider!QuestionTyped
<1>3. percent = Provider!NormalizeWeightings(rows)
  BY <1>1, <1>2 DEF Provider!Answered, ProviderInv, AnswerTo, Provider!FundComposition,
    Provider!Failed, Provider!Gives, Provider!BuildComposition
<1>4. ASSUME NEW i \in DOMAIN percent
      PROVE  /\ i \in DOMAIN rows /\ rows[i] \in Provider!Weighting
             /\ percent[i] = Provider!NormalizeWeight(rows[i], "percent")
             /\ percent[i] # None
  BY <1>2, <1>3, <1>4, ScaleNeverMatters DEF Provider!NormalizeWeightings
<1> HIDE DEF rows, percent
<1>5. ASSUME NEW i \in DOMAIN percent, NEW j \in DOMAIN percent,
             rows[i].percentage = None, rows[j].percentage = None,
             rows[i].weight <= rows[j].weight, rows[j].weight <= 10 \/ rows[i].weight > 10
      PROVE  percent[i] <= percent[j]
  <2> DEFINE w(k) == rows[k].weight
  <2>1. /\ w(i) \in Int \cup {None} /\ w(j) \in Int \cup {None} /\ None \notin Int
    BY <1>4 DEF Provider!Weighting, Provider!ConstantsAssumption
  <2>2. /\ w(i) # None /\ w(i) > 0 /\ percent[i] = IF w(i) <= 10 THEN 100 * w(i) ELSE w(i)
        /\ w(j) # None /\ w(j) > 0 /\ percent[j] = IF w(j) <= 10 THEN 100 * w(j) ELSE w(j)
    BY <1>4, <1>5, <2>1 DEF Provider!NormalizeWeight
  <2>3. w(i) <= w(j) /\ (w(j) <= 10 \/ w(i) > 10)
    BY <1>5
  <2> HIDE DEF w
  <2>4. QED
    BY <2>1, <2>2, <2>3
<1>6. QED
  BY <1>4, <1>5 DEF rows, percent, Provider!WeightsFit

\* The first row of a symbol, in a list that has one.
LEMMA RowOfTheSymbol ==
  ASSUME NEW rows, NEW symbol, rows \in Seq(Provider!Range(rows)), rows # <<>>
  PROVE  \E i \in DOMAIN rows :
           /\ Provider!QuoteRow(rows, symbol) = rows[i]
           /\ (\E j \in DOMAIN rows : rows[j].symbol = symbol) => rows[i].symbol = symbol
<1> DEFINE S == Provider!Range(rows)
<1>4. rows \in Seq(S)
  OBVIOUS
<1> HIDE DEF S
<1>5. Len(rows) \in Nat /\ DOMAIN rows = 1..Len(rows) /\ 1 \in DOMAIN rows
  BY <1>4, EmptySeq, LenProperties
<1>1. CASE \E i \in DOMAIN rows : rows[i].symbol = symbol
  <2> DEFINE Own == {i \in DOMAIN rows : rows[i].symbol = symbol}
             First(i) == rows[i].symbol = symbol /\ \A j \in 1..(i - 1) : rows[j].symbol # symbol
  <2>1. Own \in SUBSET Int /\ IsFiniteSet(Own) /\ Own # {}
    <3>1. Own \in SUBSET (1..Len(rows)) /\ Own # {}
      BY <1>1, <1>5
    <3>2. IsFiniteSet(1..Len(rows))
      BY <1>5, FS_Interval
    <3>3. QED
      BY <1>5, <3>1, <3>2, FS_Subset
  <2>2. PICK i \in Own : \A j \in Own : i <= j
    BY <2>1, FiniteSetsAreBounded
  <2>3. i \in DOMAIN rows /\ First(i)
    <3>1. i \in 1..Len(rows) /\ rows[i].symbol = symbol
      BY <1>5
    <3>2. ASSUME NEW j \in 1..(i - 1) PROVE rows[j].symbol # symbol
      <4>1. j \in 1..Len(rows) /\ ~ (i <= j)
        BY <1>5, <3>1
      <4>2. QED
        BY <1>5, <2>2, <4>1
    <3>3. QED
      BY <3>1, <3>2
  <2> HIDE DEF First
  <2>4. (CHOOSE k \in DOMAIN rows : First(k)) \in DOMAIN rows /\ First(CHOOSE k \in DOMAIN rows : First(k))
    BY <2>3
  <2>5. Provider!QuoteRow(rows, symbol) = rows[CHOOSE k \in DOMAIN rows : First(k)]
    BY <1>1 DEF First, Provider!QuoteRow
  <2>6. QED
    BY <2>4, <2>5 DEF First
<1>2. CASE ~ \E i \in DOMAIN rows : rows[i].symbol = symbol
  <2> QED
    BY <1>2, <1>5 DEF Provider!QuoteRow
<1>3. QED
  BY <1>1, <1>2

\* The change in percent is that of the market, from whichever fields there are.
LEMMA ChangeIsOfTheMarket ==
  ASSUME Provider!ConstantsAssumption, NEW r, NEW market, Provider!MarketRow(r, market),
         NEW c, c = Provider!ChangePercent(r), c # None
  PROVE  c[1] * market[r.symbol] = c[2] * (r.price - market[r.symbol])
<1> DEFINE m == market[r.symbol]
           p == r.price
<1>1. /\ p \in Int /\ m \in Int /\ None \notin Int
      /\ r.change \in {None, p - m} /\ r.previous \in {None, m}
      /\ r.percent \in {None, <<p - m, m>>}
  BY DEF Provider!MarketRow, Provider!ConstantsAssumption
<1> HIDE DEF m, p
<1>2. c = <<p - m, m>>
  <2>1. p - m # None /\ m # None
    BY <1>1
  <2>2. CASE r.percent # None
    BY <1>1, <2>2 DEF Provider!ChangePercent
  <2>3. CASE r.percent = None
    <3>1. r.change = p - m
      BY <1>1, <2>3 DEF Provider!ChangePercent
    <3>2. c = <<p - m, m>> \/ c = <<p - m, p - (p - m)>>
      BY <1>1, <2>3, <3>1 DEF Provider!ChangePercent, p
    <3>3. p - (p - m) = m
      BY <1>1
    <3>4. QED
      BY <3>2, <3>3
  <2>4. QED
    BY <2>2, <2>3
<1>3. (p - m) * m = m * (p - m)
  BY <1>1
<1>4. QED
  BY <1>2, <1>3 DEF m, p

\* A quote was given, and its change is the market's.
QuoteGiven(a) == ~ a.failed /\ a.value # None
QuoteIsOf(quote, rows, market, symbol) ==
  /\ quote.percent # None =>
       quote.percent[1] * market[quote.symbol] = quote.percent[2] * (quote.price - market[quote.symbol])
  /\ (\E i \in DOMAIN rows : rows[i].symbol = symbol) => quote.symbol = symbol

\* A quote is a row of the endpoint that answered.
LEMMA QuoteResolved ==
  ASSUME Provider!ConstantsAssumption, NEW result, NEW market, NEW symbol, Provider!Endpoint(result),
         \A i \in DOMAIN result.rows : Provider!MarketRow(result.rows[i], market),
         NEW a, a = Provider!ResolveQuote(result, symbol), QuoteGiven(a)
  PROVE  QuoteIsOf(a.value, result.rows, market, symbol)
<1> DEFINE r == Provider!QuoteRow(result.rows, symbol)
<1>1. /\ result.rows # <<>>
      /\ a.value = [symbol |-> r.symbol, price |-> r.price, percent |-> Provider!ChangePercent(r)]
  BY DEF Provider!ResolveQuote, Provider!Gives, Provider!Failed, QuoteGiven
<1>2. PICK i \in DOMAIN result.rows :
        /\ r = result.rows[i]
        /\ (\E j \in DOMAIN result.rows : result.rows[j].symbol = symbol) => result.rows[i].symbol = symbol
  BY <1>1, RowOfTheSymbol DEF Provider!Endpoint
<1>3. Provider!MarketRow(r, market)
  BY <1>2
<1> DEFINE c == Provider!ChangePercent(r)
<1>4. a.value.symbol = r.symbol /\ a.value.price = r.price /\ a.value.percent = c
  BY <1>1
<1> HIDE DEF r, c
<1>5. c # None => c[1] * market[r.symbol] = c[2] * (r.price - market[r.symbol])
  BY <1>3, ChangeIsOfTheMarket DEF c
<1>6. QED
  BY <1>2, <1>4, <1>5 DEF QuoteIsOf

\* A quote comes from one of the two endpoints.
LEMMA QuotesHold ==
  ASSUME Provider!ConstantsAssumption, ProviderInv
  PROVE  Provider!QuotesFit
<1>1. SUFFICES ASSUME Provider!Answered("quote"), answer.value # None
               PROVE  Provider!QuotesFit
  BY DEF Provider!QuotesFit
<1> DEFINE full == question.full
           short == question.short
           market == question.market
           symbol == question.symbol
<1>2. question.kind = "quote" /\ answer = Provider!FundQuote(question) /\ ~ answer.failed
  BY <1>1 DEF Provider!Answered, ProviderInv, AnswerTo
<1>3. \A r \in {full, short} :
        Provider!Endpoint(r) /\ \A i \in DOMAIN r.rows : Provider!MarketRow(r.rows[i], market)
  BY <1>2 DEF ProviderInv, Provider!ConstantsAssumption, Provider!QuestionTyped
<1>4. PICK r \in {full, short} : answer = Provider!ResolveQuote(r, symbol)
  BY <1>2 DEF Provider!FundQuote
<1>5. /\ Provider!Endpoint(r)
      /\ \A i \in DOMAIN r.rows : Provider!MarketRow(r.rows[i], market)
  BY <1>3
<1>6. QuoteGiven(answer)
  BY <1>1, <1>2 DEF QuoteGiven
<1>7. QuoteIsOf(answer.value, r.rows, market, symbol)
  BY <1>4, <1>5, <1>6, QuoteResolved
<1>8. QED
  BY <1>7 DEF QuoteIsOf, Provider!QuotesFit

\* The two profiles of one name.
LEMMA ProfilesHold ==
  ASSUME Provider!ConstantsAssumption, ProviderInv
  PROVE  Provider!ProfilesFit
<1> DEFINE found == Provider!RowOf(question.search.rows, question.symbol)
           profile == Provider!RowOf(question.info.rows, question.symbol)
<1>1. SUFFICES ASSUME Provider!Answered("profile"), found # None, profile # None,
                      profile.name \in {None, found.name},
                      Provider!BenchmarkFromName(found.name) # None \/ profile.description = None
               PROVE  answer.value.benchmark = Provider!FromSearch(found).benchmark
  BY DEF Provider!ProfilesFit
<1>2. question.kind = "profile" /\ answer = Provider!FundProfile(question) /\ ~ answer.failed
  BY <1>1 DEF Provider!Answered, ProviderInv, AnswerTo
<1>3. answer.value = Provider!FromProfile(profile, found) \/ answer.value = Provider!FromSearch(found)
  BY <1>1, <1>2 DEF Provider!FundProfile, Provider!Gives, Provider!Failed
<1> HIDE DEF found, profile
<1>4. Provider!FromProfile(profile, found).benchmark = Provider!FundBenchmark(found.name, profile.description)
  BY <1>1 DEF Provider!FromProfile
<1>5. Provider!FundBenchmark(found.name, profile.description) = Provider!FundBenchmark(found.name, None)
  BY <1>1 DEF Provider!FundBenchmark
<1>6. QED
  BY <1>3, <1>4, <1>5 DEF Provider!FromSearch

\* The instance has its own copies of what "finite" and "size" mean.
LEMMA SizesOfAnswers == ASSUME NEW S PROVE Provider!Cardinality(S) = Cardinality(S)
BY DEF Provider!Cardinality, Cardinality

\* The articles shown are the newest.
LEMMA NewsHolds ==
  ASSUME Provider!ConstantsAssumption, ProviderInv
  PROVE  Provider!NewsFits
<1>1. SUFFICES ASSUME Provider!Answered("news")
               PROVE  Provider!NewsFits
  BY DEF Provider!NewsFits
<1> DEFINE rows == question.feed.rows
           limit == question.limit
           S == Provider!Complete(rows)
           R == {p \in S \X S : Provider!Newer(rows, p[1], p[2])}
<1>2. rows \in Seq(Provider!Article) /\ limit \in Nat /\ question.kind = "news"
  BY <1>1 DEF Provider!Answered, ProviderInv, Provider!ConstantsAssumption, Provider!QuestionTyped
<1>3. answer.value = {i \in S : Cardinality({j \in S : Provider!Newer(rows, j, i)}) < limit}
  <2>1. answer = Provider!GeneralNews(question) /\ ~ answer.failed
    BY <1>1, <1>2 DEF Provider!Answered, ProviderInv, AnswerTo
  <2>2. QED
    BY <2>1, SizesOfAnswers DEF Provider!GeneralNews, Provider!Gives, Provider!Failed
<1>4. S \in SUBSET (1..Len(rows)) /\ IsFiniteSet(S)
  <2>1. S \in SUBSET (1..Len(rows)) /\ Len(rows) \in Nat
    BY <1>2 DEF Provider!Complete
  <2>2. IsFiniteSet(1..Len(rows))
    BY <2>1, FS_Interval
  <2>3. QED
    BY <2>1, <2>2, FS_Subset
<1>5. \A i \in S : i \in Int /\ rows[i].date \in Int
  <2>1. \A i \in 1..Len(rows) : rows[i] \in Provider!Article
    BY <1>2
  <2>2. QED
    BY <1>4, <2>1 DEF Provider!Article
<1> HIDE DEF rows, S, limit
<1>6. OrderOf(R, S)
  BY <1>5 DEF OrderOf, Provider!Newer
<1>7. \A i \in S : {j \in S : Provider!Newer(rows, j, i)} = {j \in S : <<j, i>> \in R}
  OBVIOUS
<1>8. answer.value = {i \in S : RankIn(R, S, i) < limit}
  BY <1>3, <1>7 DEF RankIn
<1>9. /\ Cardinality(answer.value) = IF Cardinality(S) <= limit THEN Cardinality(S) ELSE limit
      /\ Ranked(R, S)
  <2> HIDE DEF R
  <2>1. limit \in Nat
    BY <1>2 DEF limit
  <2>2. QED
    BY <1>4, <1>6, <1>8, <2>1, FirstFew, RanksArePlaces
<1>10. Cardinality(answer.value) <= limit
  BY <1>2, <1>9 DEF limit, Ranked
<1>11. ASSUME NEW i \in answer.value, NEW j \in S \ answer.value PROVE rows[j].date <= rows[i].date
  <2>1. i \in S /\ j \in S /\ RankIn(R, S, i) < limit /\ ~ (RankIn(R, S, j) < limit)
    BY <1>8, <1>11
  <2>2. RankIn(R, S, i) \in Int /\ RankIn(R, S, j) \in Int /\ limit \in Int
    BY <1>2, <1>9, <2>1 DEF limit, Ranked
  <2>3. <<j, i>> \notin R
    BY <1>9, <2>1, <2>2 DEF Ranked
  <2>4. QED
    BY <1>5, <2>1, <2>3 DEF Provider!Newer
<1>12. QED
  BY <1>10, <1>11, SizesOfAnswers DEF Provider!NewsFits, rows, limit, S

LEMMA FiniteInAnswers == ASSUME NEW S PROVE Provider!IsFiniteSet(S) <=> IsFiniteSet(S)
BY DEF Provider!IsFiniteSet, IsFiniteSet

\* A row that is dropped has no weight, and one that is kept weighs something.
LEMMA WeightsAreTyped ==
  ASSUME Provider!ConstantsAssumption, NEW weighting \in Provider!Weighting, NEW scale,
         Provider!NormalizeWeight(weighting, scale) # None
  PROVE  Provider!NormalizeWeight(weighting, scale) \in Nat \ {0}
<1> DEFINE w == weighting.weight
           p == weighting.percentage
<1>1. w \in Int \cup {None} /\ p \in Int \cup {None} /\ None \notin Int
  BY DEF Provider!Weighting, Provider!ConstantsAssumption
<1>2. Provider!NormalizeWeight(weighting, scale) =
        IF p # None THEN IF p <= 0 THEN None ELSE p
        ELSE IF w = None \/ w <= 0 THEN None
        ELSE IF scale = "fraction" \/ w <= 10 THEN 100 * w ELSE w
  BY DEF Provider!NormalizeWeight
<1> HIDE DEF w, p
<1>3. QED
  BY <1>1, <1>2

\* A composition is of its newest day, or of today, and has weights.
LEMMA CompositionsTyped ==
  ASSUME Provider!ConstantsAssumption, NEW q, q.kind = "composition", Provider!QuestionTyped(q),
         ~ Provider!FundComposition(q).failed
  PROVE  Provider!CompositionTyped(q, Provider!FundComposition(q).value)
<1> DEFINE rows == q.rows
           updated == q.updated
           scale == Provider!DetectWeightScale(rows)
           value == Provider!FundComposition(q).value
<1>1. /\ rows \in Seq(Provider!Weighting) /\ None \notin Int
      /\ updated \in SUBSET Int /\ IsFiniteSet(updated) /\ q.today \in Int
  BY FiniteInAnswers DEF Provider!QuestionTyped, Provider!ConstantsAssumption
<1>2. /\ ~ Provider!Refused(rows)
      /\ value.asOf = Provider!CompositionAsOf(updated, q.today)
      /\ value.holdings = Provider!NormalizeHoldings(rows)
      /\ value.exposures = Provider!NormalizeWeightings(rows)
  BY DEF Provider!FundComposition, Provider!Failed, Provider!Gives, Provider!BuildComposition
<1>3. \A i \in DOMAIN rows : rows[i] \in Provider!Weighting
  BY <1>1
<1> HIDE DEF rows, updated, value
<1>4. /\ value.asOf \in updated \cup {q.today}
      /\ \A day \in updated : day <= value.asOf
  <2>1. CASE updated = {}
    BY <1>2, <2>1 DEF Provider!CompositionAsOf
  <2>2. CASE updated # {}
    <3>1. \E d \in updated : \A e \in updated : e <= d
      BY <1>1, <2>2, FiniteSetsAreBounded
    <3>2. QED
      BY <1>2, <2>2, <3>1 DEF Provider!CompositionAsOf
  <2>3. QED
    BY <2>1, <2>2
<1>5. \E kept \in SUBSET DOMAIN rows : value.exposures \in [kept -> Nat \ {0}]
  <2> DEFINE kept == {j \in DOMAIN rows : Provider!NormalizeWeight(rows[j], scale) # None}
  <2>1. value.exposures = [i \in kept |-> Provider!NormalizeWeight(rows[i], scale)]
    BY <1>2 DEF Provider!NormalizeWeightings
  <2>2. \A i \in kept : Provider!NormalizeWeight(rows[i], scale) \in Nat \ {0}
    BY <1>3, WeightsAreTyped
  <2>3. kept \in SUBSET DOMAIN rows
    OBVIOUS
  <2> HIDE DEF kept, scale
  <2>4. QED
    BY <2>1, <2>2, <2>3
<1>6. \E kept \in SUBSET DOMAIN rows : value.holdings \in [kept -> Nat]
  <2> DEFINE kept == {j \in DOMAIN rows : rows[j].named}
             Held(i) == IF rows[i].percentage = None THEN 0 ELSE rows[i].percentage
  <2>1. value.holdings = [i \in kept |-> Held(i)]
    BY <1>2 DEF Provider!NormalizeHoldings
  <2>2. ASSUME NEW i \in kept PROVE Held(i) \in Nat
    <3>1. rows[i].percentage \in Int \cup {None}
      BY <1>3 DEF Provider!Weighting
    <3>2. rows[i].percentage = None \/ ~ (rows[i].percentage < 0)
      BY <1>2 DEF Provider!Refused
    <3>3. QED
      BY <3>1, <3>2
  <2>3. kept \in SUBSET DOMAIN rows
    OBVIOUS
  <2> HIDE DEF kept, Held
  <2>4. QED
    BY <2>1, <2>2, <2>3
<1>7. QED
  BY <1>4, <1>5, <1>6 DEF Provider!CompositionTyped, rows, updated, value

\* A change in percent is never one of a close of nothing.
LEMMA ChangesAreTyped ==
  ASSUME Provider!ConstantsAssumption, NEW r, NEW market, Provider!MarketRow(r, market),
         Provider!ChangePercent(r) # None
  PROVE  Provider!ChangePercent(r) \in Int \X (Int \ {0})
<1> DEFINE m == market[r.symbol]
           p == r.price
           c == Provider!ChangePercent(r)
<1>1. /\ p \in Int /\ m \in Int /\ None \notin Int
      /\ r.change \in {None, p - m} /\ r.previous \in {None, m}
      /\ r.percent \in {None, <<p - m, m>>} /\ (r.percent # None => m # 0)
  BY DEF Provider!MarketRow, Provider!ConstantsAssumption
<1>2. CASE r.percent # None
  BY <1>1, <1>2 DEF Provider!ChangePercent
<1>3. CASE r.percent = None
  <2>1. c = IF r.change = None THEN None
            ELSE IF r.previous # None /\ r.previous # 0 THEN <<r.change, r.previous>>
            ELSE IF p = r.change THEN None ELSE <<r.change, p - r.change>>
    BY <1>3 DEF Provider!ChangePercent
  <2> HIDE DEF c, p, m
  <2>2. r.change = p - m /\ r.change \in Int
    BY <1>1, <2>1 DEF c
  <2>3. \/ c = <<r.change, r.previous>> /\ r.previous = m /\ m # 0
        \/ c = <<r.change, p - r.change>> /\ p # r.change
    BY <1>1, <2>1, <2>2 DEF c
  <2>4. p # r.change => p - r.change \in Int \ {0}
    BY <1>1, <2>2
  <2>5. c \in Int \X (Int \ {0})
    BY <1>1, <2>2, <2>3, <2>4
  <2>6. QED
    BY <2>5 DEF c
<1>4. QED
  BY <1>2, <1>3

\* A quote is one of the rows of an endpoint, or there is none.
LEMMA QuotesTyped ==
  ASSUME Provider!ConstantsAssumption, NEW q, q.kind = "quote", Provider!QuestionTyped(q),
         ~ Provider!FundQuote(q).failed
  PROVE  Provider!QuoteTyped(q, Provider!FundQuote(q).value)
<1> DEFINE market == q.market
           symbol == q.symbol
<1>1. \A r \in {q.full, q.short} :
        Provider!Endpoint(r) /\ \A i \in DOMAIN r.rows : Provider!MarketRow(r.rows[i], market)
  BY DEF Provider!QuestionTyped
<1>2. PICK r \in {q.full, q.short} : Provider!FundQuote(q) = Provider!ResolveQuote(r, symbol)
  BY DEF Provider!FundQuote
<1> DEFINE value == Provider!FundQuote(q).value
           chosen == Provider!QuoteRow(r.rows, symbol)
<1>3. SUFFICES ASSUME value # None
               PROVE  /\ value.symbol \in DOMAIN market /\ value.price \in Int
                      /\ value.percent # None => value.percent \in Int \X (Int \ {0})
  BY DEF Provider!QuoteTyped
<1>4. /\ r.rows # <<>>
      /\ value = [symbol |-> chosen.symbol, price |-> chosen.price, percent |-> Provider!ChangePercent(chosen)]
  BY <1>2, <1>3 DEF Provider!ResolveQuote, Provider!Gives, Provider!Failed
<1>5. Provider!MarketRow(chosen, market)
  <2>1. PICK i \in DOMAIN r.rows : chosen = r.rows[i]
    BY <1>1, <1>4, RowOfTheSymbol DEF Provider!Endpoint
  <2>2. QED
    BY <1>1, <2>1
<1>6. /\ value.symbol = chosen.symbol /\ value.price = chosen.price
      /\ value.percent = Provider!ChangePercent(chosen)
  BY <1>4
<1>7. chosen.symbol \in DOMAIN market /\ chosen.price \in Int
  BY <1>5 DEF Provider!MarketRow
<1>8. Provider!ChangePercent(chosen) # None => Provider!ChangePercent(chosen) \in Int \X (Int \ {0})
  BY <1>5, ChangesAreTyped
<1> HIDE DEF chosen, value, market
<1>9. QED
  BY <1>6, <1>7, <1>8

\* A row that is found is one of the list, and of the symbol.
LEMMA RowsFound ==
  ASSUME NEW rows, NEW symbol, Provider!RowOf(rows, symbol) # None
  PROVE  \E i \in DOMAIN rows : Provider!RowOf(rows, symbol) = rows[i] /\ rows[i].symbol = symbol
BY DEF Provider!RowOf

\* Whichever endpoint it is made of, a profile has its symbol and a benchmark.
LEMMA ProfilesTyped ==
  ASSUME Provider!ConstantsAssumption, NEW q, q.kind = "profile", Provider!QuestionTyped(q),
         ~ Provider!FundProfile(q).failed
  PROVE  Provider!ProfileTyped(q, Provider!FundProfile(q).value)
<1> DEFINE found == Provider!RowOf(q.search.rows, q.symbol)
           profile == Provider!RowOf(q.info.rows, q.symbol)
           value == Provider!FundProfile(q).value
<1>1. \/ profile # None /\ value = Provider!FromProfile(profile, found)
      \/ found # None /\ value = Provider!FromSearch(found)
  BY DEF Provider!FundProfile, Provider!Gives, Provider!Failed
<1>2. found # None => found.symbol = q.symbol /\ found.name # None
  BY RowsFound DEF Provider!QuestionTyped
<1>3. profile # None =>
        /\ profile.symbol = q.symbol
        /\ profile.isin \in Int \cup {None} /\ profile.ter \in Int \cup {None}
  BY RowsFound DEF Provider!QuestionTyped
<1> HIDE DEF found, profile, value
<1>4. None # {}
  BY DEF Provider!ConstantsAssumption
<1>5. \A name, description : name # None => Provider!FundBenchmark(name, description) # None
  BY DEF Provider!FundBenchmark
<1>6. CASE profile # None /\ value = Provider!FromProfile(profile, found)
  <2> DEFINE name == IF profile.name # None THEN profile.name
                     ELSE IF found # None THEN found.name ELSE {}
  <2>1. name # None
    BY <1>2, <1>4
  <2>2. value = [symbol |-> profile.symbol, isin |-> profile.isin, ter |-> profile.ter,
                 benchmark |-> Provider!FundBenchmark(name, profile.description)]
    BY <1>6 DEF Provider!FromProfile
  <2> HIDE DEF name
  <2>3. QED
    BY <1>3, <1>5, <1>6, <2>1, <2>2 DEF Provider!ProfileTyped, value
<1>7. CASE found # None /\ value = Provider!FromSearch(found)
  BY <1>2, <1>5, <1>7 DEF Provider!ProfileTyped, Provider!FromSearch, value
<1>8. QED
  BY <1>1, <1>6, <1>7

\* Whatever the endpoints answer: a composition is of its newest day and has exposures
\* that weigh something and no holding of less than nothing, a quote's change is never
\* one of a close of nothing, a profile is of its symbol and has a benchmark, news are
\* complete, and a failure has no value.
THEOREM ProviderTypeSafe == ASSUME Provider!ConstantsAssumption PROVE Provider!Spec => []Provider!TypeOK
<1>1. ASSUME Provider!ConstantsAssumption, ProviderInv PROVE Provider!TypeOK
  <2>1. SUFFICES ASSUME answer # None PROVE Provider!TypeOK
    BY DEF Provider!TypeOK
  <2>2. /\ Provider!QuestionTyped(question) /\ answer = AnswerTo(question)
        /\ question.kind \in {"composition", "quote", "profile", "news"}
    BY <1>1, <2>1 DEF ProviderInv, Provider!ConstantsAssumption
  <2>3. CASE question.kind = "composition"
    <3>1. answer = Provider!FundComposition(question)
      BY <2>2, <2>3 DEF AnswerTo
    <3>2. answer.failed => answer.value = None
      BY <3>1 DEF Provider!FundComposition, Provider!Failed, Provider!Gives
    <3>3. ~ answer.failed => Provider!CompositionTyped(question, answer.value)
      BY <1>1, <2>2, <2>3, <3>1, CompositionsTyped
    <3>4. QED
      BY <2>3, <3>2, <3>3 DEF Provider!TypeOK
  <2>4. CASE question.kind = "quote"
    <3>1. answer = Provider!FundQuote(question)
      BY <2>2, <2>4 DEF AnswerTo
    <3>2. answer.failed => answer.value = None
      BY <3>1 DEF Provider!FundQuote, Provider!ResolveQuote, Provider!Failed, Provider!Gives
    <3>3. ~ answer.failed => Provider!QuoteTyped(question, answer.value)
      BY <1>1, <2>2, <2>4, <3>1, QuotesTyped
    <3>4. QED
      BY <2>4, <3>2, <3>3 DEF Provider!TypeOK
  <2>5. CASE question.kind = "profile"
    <3>1. answer = Provider!FundProfile(question)
      BY <2>2, <2>5 DEF AnswerTo
    <3>2. answer.failed => answer.value = None
      BY <3>1 DEF Provider!FundProfile, Provider!Failed, Provider!Gives
    <3>3. ~ answer.failed => Provider!ProfileTyped(question, answer.value)
      BY <1>1, <2>2, <2>5, <3>1, ProfilesTyped
    <3>4. QED
      BY <2>5, <3>2, <3>3 DEF Provider!TypeOK
  <2>6. CASE question.kind = "news"
    <3>1. answer = Provider!GeneralNews(question)
      BY <2>2, <2>6 DEF AnswerTo
    <3>2. IF answer.failed THEN answer.value = None
          ELSE answer.value \subseteq Provider!Complete(question.feed.rows)
      BY <3>1 DEF Provider!GeneralNews, Provider!Failed, Provider!Gives
    <3>3. QED
      BY <2>6, <3>2 DEF Provider!TypeOK
  <2>7. QED
    BY <2>2, <2>3, <2>4, <2>5, <2>6
<1>2. QED
  BY <1>1, ProviderInvariance, PTL

\* Weights keep their order, a quote's change is the market's, the profile of the
\* search agrees with the paid one, and the news are the newest.
THEOREM ProviderAnswersHold == ASSUME Provider!ConstantsAssumption PROVE Provider!Spec => []Provider!AnswersFit
<1>1. ASSUME Provider!ConstantsAssumption, ProviderInv PROVE Provider!AnswersFit
  BY <1>1, WeightsHold, QuotesHold, ProfilesHold, NewsHolds DEF Provider!AnswersFit
<1>2. QED
  BY <1>1, ProviderInvariance, PTL

-----------------------------------------------------------------------------
(* The quarters                                                            *)

\* Months in years and quarters.
LEMMA MonthsOfYears ==
  ASSUME NEW m \in Nat
  PROVE  /\ m \div 12 \in Nat /\ m % 12 \in 0..11 /\ m = 12 * (m \div 12) + (m % 12)
         /\ (m % 12) \div 3 \in 0..3
         /\ (m % 12) - 3 * ((m % 12) \div 3) \in 0..2
<1>1. m \div 12 \in Nat /\ m % 12 \in 0..11 /\ m = 12 * (m \div 12) + (m % 12)
  <2> DEFINE y == m \div 12
             r == m % 12
  <2>1. y \in Nat /\ r \in 0..11 /\ r = m - 12 * y
    OBVIOUS
  <2> HIDE DEF y, r
  <2>2. m = 12 * y + r
    BY <2>1
  <2>3. QED
    BY <2>1, <2>2 DEF y, r
<1>2. \A k \in 0..11 : k \div 3 \in 0..3 /\ k - 3 * (k \div 3) \in 0..2
  OBVIOUS
<1>3. QED
  BY <1>1, <1>2

\* The current quarter is around today, and ends the day before the next one.
LEMMA QuartersHold ==
  ASSUME NEW day \in Nat \X (1..31), day[2] <= Selection!DaysOf(day[1])
  PROVE  LET current == Selection!QuarterMetadata(Selection!CurrentQuarter(day))
             next == Selection!NextQuarter(current.quarter)
         IN  /\ Selection!OnOrBefore(current.start, day) /\ Selection!OnOrBefore(day, current.end)
             /\ Selection!QuarterMetadata(next).start = Selection!NextDay(current.end)
             /\ Selection!CompareQuarterKeys(current.quarter, next) < 0
             /\ current.quarter \in Selection!Quarters
<1> DEFINE m == day[1]
           d == day[2]
           y == m \div 12
           q == (m % 12) \div 3 + 1
           first == 12 * y + 3 * (q - 1)
           current == Selection!QuarterMetadata(Selection!CurrentQuarter(day))
           next == Selection!NextQuarter(<<y, q>>)
           start == IF q = 4 THEN 12 * (y + 1) ELSE first + 3
<1>1. m \in Nat /\ d \in 1..31 /\ d <= Selection!DaysOf(m)
  OBVIOUS
<1>2. /\ y \in Nat /\ q \in 1..4 /\ first \in Nat
      /\ first <= m /\ m <= first + 2
  BY <1>1, MonthsOfYears
<1>3. /\ current.quarter = <<y, q>> /\ current.start = <<first, 1>>
      /\ current.end = <<first + 3 - 1, Selection!DaysOf(first + 3 - 1)>>
  BY DEF Selection!QuarterMetadata, Selection!CurrentQuarter, Selection!Utc
<1> HIDE DEF m, d, y, q, first
<1>4. Selection!OnOrBefore(<<first, 1>>, day)
  BY <1>1, <1>2 DEF Selection!OnOrBefore, m, d
<1>5. Selection!OnOrBefore(day, <<first + 3 - 1, Selection!DaysOf(first + 3 - 1)>>)
  <2>1. first + 3 - 1 = first + 2
    BY <1>2
  <2>2. CASE m = first + 2
    BY <1>1, <2>1, <2>2 DEF Selection!OnOrBefore, m, d
  <2>3. CASE m < first + 2
    BY <2>1, <2>3 DEF Selection!OnOrBefore, m, d
  <2>4. QED
    BY <1>1, <1>2, <2>2, <2>3
<1>6. Selection!NextDay(current.end) = <<first + 3, 1>>
  BY <1>2, <1>3 DEF Selection!NextDay
<1>7. Selection!QuarterMetadata(next).start = <<first + 3, 1>>
  <2>1. Selection!QuarterMetadata(next).start = <<12 * next[1] + 3 * (next[2] - 1), 1>>
    BY DEF Selection!QuarterMetadata, Selection!Utc
  <2>2. 12 * next[1] + 3 * (next[2] - 1) = first + 3
    BY <1>2 DEF Selection!NextQuarter, first
  <2>3. QED
    BY <2>1, <2>2
<1>8. Selection!CompareQuarterKeys(<<y, q>>, next) < 0
  BY <1>2 DEF Selection!CompareQuarterKeys, Selection!NextQuarter
<1>9. <<y, q>> \in Selection!Quarters
  BY <1>2 DEF Selection!Quarters
<1>10. QED
  BY <1>3, <1>4, <1>5, <1>6, <1>7, <1>8, <1>9

-----------------------------------------------------------------------------
(* Lists                                                                   *)

\* The instance has its own copies of what "finite" and "size" mean.
LEMMA SizesInSelection ==
  ASSUME NEW S
  PROVE  (Selection!IsFiniteSet(S) <=> IsFiniteSet(S)) /\ Selection!Cardinality(S) = Cardinality(S)
BY DEF Selection!IsFiniteSet, IsFiniteSet, Selection!Cardinality, Cardinality

\* What is kept of a list stands at its places.
LEMMA KeptIs ==
  ASSUME NEW T, NEW list \in Seq(T), NEW places \in SUBSET (DOMAIN list)
  PROVE  LET kept == Selection!Kept(list, places)
         IN  /\ kept \in Seq(T) /\ Len(kept) = Cardinality(places)
             /\ \A n \in DOMAIN kept : \E i \in places : kept[n] = list[i]
             /\ \A i \in places : \E n \in DOMAIN kept : kept[n] = list[i]
<1> DEFINE order == Selection!Ascending(places)
           kept == Selection!Kept(list, places)
           size == Cardinality(places)
<1>1. places \in SUBSET Int /\ IsFiniteSet(places) /\ places \in SUBSET (1..Len(list))
  <2>1. Len(list) \in Nat /\ DOMAIN list = 1..Len(list)
    BY LenProperties
  <2>2. IsFiniteSet(1..Len(list))
    BY <2>1, FS_Interval
  <2>3. QED
    BY <2>1, <2>2, FS_Subset
<1> DEFINE Before(x) == Selection!Cardinality({y \in places : y < x})
<1>2. order = [n \in 1..size |-> CHOOSE x \in places : Before(x) = n - 1]
  BY SizesInSelection DEF Selection!Ascending
<1>3. /\ size \in Nat
      /\ \A n \in 1..size : \E x \in places : Before(x) = n - 1
      /\ \A x \in places : Before(x) \in 0..(size - 1)
      /\ \A x, z \in places : x < z => Before(x) < Before(z)
  <2> DEFINE rank(x) == Cardinality({y \in places : y < x})
  <2>1. \A x \in places : Before(x) = rank(x)
    BY SizesInSelection
  <2>2. /\ size \in Nat
        /\ \A n \in 1..size : \E x \in places : rank(x) = n - 1
        /\ \A x \in places : rank(x) \in 0..(size - 1)
        /\ \A x, z \in places : x < z => rank(x) < rank(z)
    BY <1>1, Places
  <2> HIDE DEF rank, Before, size
  <2>3. QED
    BY <2>1, <2>2
<1> HIDE DEF Before, order, size
<1>4. DOMAIN order = 1..size /\ \A n \in 1..size : order[n] \in places /\ Before(order[n]) = n - 1
  BY <1>2, <1>3
<1>5. \A x \in places : \E n \in 1..size : order[n] = x
  <2>1. SUFFICES ASSUME NEW x \in places PROVE \E n \in 1..size : order[n] = x
    OBVIOUS
  <2> DEFINE n == Before(x) + 1
  <2>2. n \in 1..size /\ n - 1 = Before(x)
    BY <1>3
  <2> HIDE DEF n
  <2>3. order[n] \in places /\ Before(order[n]) = Before(x)
    BY <1>4, <2>2
  <2>4. order[n] \in Int /\ x \in Int /\ Before(x) \in Int
    BY <1>1, <1>3, <2>3
  <2>5. ~ (order[n] < x) /\ ~ (x < order[n])
    <3>1. ~ (Before(x) < Before(x))
      BY <2>4
    <3>2. QED
      BY <1>3, <2>3, <3>1
  <2>6. order[n] = x
    BY <2>4, <2>5
  <2>7. QED
    BY <2>2, <2>6
<1>6. kept = [n \in 1..size |-> list[order[n]]]
  BY <1>4 DEF Selection!Kept, order
<1>7. \A n \in 1..size : list[order[n]] \in T
  BY <1>1, <1>4
<1>8. kept \in [1..size -> T]
  BY <1>6, <1>7
<1>9. kept \in Seq(T) /\ Len(kept) = size
  BY <1>3, <1>8
<1>10. DOMAIN kept = 1..size
  BY <1>6
<1> HIDE DEF kept
<1>11. \A n \in 1..size : kept[n] = list[order[n]]
  BY <1>6
<1>12. /\ \A n \in DOMAIN kept : \E i \in places : kept[n] = list[i]
       /\ \A i \in places : \E n \in DOMAIN kept : kept[n] = list[i]
  BY <1>4, <1>5, <1>10, <1>11
<1>13. QED
  BY <1>9, <1>12 DEF kept, size

-----------------------------------------------------------------------------
(* The cards                                                               *)

\* What may be curated of some funds, and the cards of those who may be shown.
EntriesOf(funds) == [isin : DOMAIN funds, label : Selection!Texts]
MayBeShown(f) == f # None /\ f.visible /\ Selection!EfficiencyScore(f) >= 30
CardsFrom(funds) ==
  {Selection!FeaturedCard(e, funds[e.isin]) : e \in {d \in EntriesOf(funds) : MayBeShown(funds[d.isin])}}

\* The scores of funds that are known.
FundsKnown(funds) == \A isin \in DOMAIN funds : funds[isin] # None => funds[isin].score \in Nat \cup {None}

\* A curated list gives cards of funds that may be shown.
LEMMA HydrateIs ==
  ASSUME NEW funds, NEW entries \in Seq(EntriesOf(funds))
  PROVE  Selection!Hydrate(entries, funds) \in Seq(CardsFrom(funds))
<1> DEFINE places == {i \in DOMAIN entries : MayBeShown(funds[entries[i].isin])}
           kept == Selection!Kept(entries, places)
           cards == Selection!Hydrate(entries, funds)
<1>1. /\ kept \in Seq(EntriesOf(funds))
      /\ \A n \in DOMAIN kept : \E i \in places : kept[n] = entries[i]
  <2>1. places \in SUBSET (DOMAIN entries)
    OBVIOUS
  <2> HIDE DEF places
  <2>2. QED
    BY <2>1, KeptIs
<1>2. \A n \in DOMAIN kept : kept[n] \in EntriesOf(funds) /\ MayBeShown(funds[kept[n].isin])
  BY <1>1
<1>3. cards = [i \in DOMAIN kept |-> Selection!FeaturedCard(kept[i], funds[kept[i].isin])]
  BY DEF Selection!Hydrate, MayBeShown
<1> HIDE DEF kept, cards
<1>4. \A n \in DOMAIN kept : cards[n] \in CardsFrom(funds)
  BY <1>2, <1>3 DEF CardsFrom
<1>5. DOMAIN kept = 1..Len(kept) /\ Len(kept) \in Nat
  BY <1>1, LenProperties
<1>6. cards \in [1..Len(kept) -> CardsFrom(funds)]
  BY <1>3, <1>4, <1>5
<1>7. cards \in Seq(CardsFrom(funds))
  BY <1>5, <1>6
<1>8. QED
  BY <1>7 DEF cards

\* A card is of a public fund that scores 30.
LEMMA CardsAreOf ==
  ASSUME NEW funds, FundsKnown(funds), None \notin Nat, NEW c \in CardsFrom(funds)
  PROVE  /\ c.isin \in DOMAIN funds /\ MayBeShown(funds[c.isin])
         /\ funds[c.isin].visible /\ funds[c.isin].score >= 295
<1>1. PICK e \in EntriesOf(funds) : MayBeShown(funds[e.isin]) /\ c = Selection!FeaturedCard(e, funds[e.isin])
  BY DEF CardsFrom
<1>2. e.isin \in DOMAIN funds /\ c.isin = e.isin
  BY <1>1 DEF EntriesOf, Selection!FeaturedCard
<1> DEFINE f == funds[e.isin]
<1>3. f # None /\ f.visible /\ Selection!EfficiencyScore(f) >= 30
  BY <1>1 DEF MayBeShown
<1>4. f.score \in Nat \cup {None}
  BY <1>2, <1>3 DEF FundsKnown
<1> DEFINE n == f.score
<1>5. n # None /\ (n + 5) \div 10 >= 30
  BY <1>3 DEF Selection!EfficiencyScore, Selection!Round
<1> HIDE DEF n
<1>6. n >= 295
  BY <1>4, <1>5 DEF n
<1>7. QED
  BY <1>1, <1>2, <1>3, <1>6 DEF n

\* The filters keep cards.
LEMMA PassingIs ==
  ASSUME NEW C, NEW cards \in Seq(C), NEW benchmark, NEW market
  PROVE  /\ Selection!Passing(cards, benchmark, market) \in Seq(C)
         /\ \A i \in DOMAIN cards :
              (benchmark = None /\ Selection!InMarket(cards[i], market)) =>
                \E n \in DOMAIN Selection!Passing(cards, benchmark, market) :
                  Selection!Passing(cards, benchmark, market)[n] = cards[i]
<1> DEFINE places == {i \in DOMAIN cards :
                        /\ benchmark # None => benchmark \in cards[i].category
                        /\ market # None => Selection!InMarket(cards[i], market)}
           kept == Selection!Kept(cards, places)
<1>1. kept = Selection!Passing(cards, benchmark, market)
  BY DEF Selection!Passing
<1>2. places \in SUBSET (DOMAIN cards)
  OBVIOUS
<1>3. \A i \in DOMAIN cards : (benchmark = None /\ Selection!InMarket(cards[i], market)) => i \in places
  OBVIOUS
<1> HIDE DEF places
<1>4. kept \in Seq(C) /\ \A i \in places : \E n \in DOMAIN kept : kept[n] = cards[i]
  BY <1>2, KeptIs
<1> HIDE DEF kept
<1>5. QED
  BY <1>1, <1>3, <1>4

\* A limit cuts a list off, and leaves something of a list that has something.
LEMMA LimitedIs ==
  ASSUME NEW C, NEW cards \in Seq(C), NEW limit \in (Nat \ {0}) \cup {None}
  PROVE  /\ Selection!Limited(cards, limit) \in Seq(C)
         /\ Selection!IsPrefix(Selection!Limited(cards, limit), cards)
         /\ Selection!Limited(cards, limit) = <<>> <=> cards = <<>>
<1>1. Len(cards) \in Nat /\ (cards # <<>> => Len(cards) # 0)
  BY EmptySeq, LenProperties
<1>2. CASE limit = None \/ Len(cards) <= limit
  BY <1>1, <1>2 DEF Selection!Limited, Selection!IsPrefix
<1>3. CASE ~ (limit = None \/ Len(cards) <= limit)
  <2> DEFINE cut == SubSeq(cards, 1, limit)
  <2>1. Selection!Limited(cards, limit) = cut /\ limit \in Nat \ {0} /\ limit < Len(cards)
    BY <1>1, <1>3 DEF Selection!Limited
  <2>2. cut \in Seq(C) /\ Len(cut) = limit /\ \A i \in 1..limit : cut[i] = cards[i]
    BY <1>1, <2>1, SubSeqProperties
  <2>3. SubSeq(cut, 1, Len(cut)) = cut
    BY <2>2, SubSeqFull
  <2>4. cut # <<>> /\ cards # <<>>
    BY <1>1, <2>1, <2>2
  <2>5. Len(cut) <= Len(cards) /\ SubSeq(cut, 1, Len(cut)) = SubSeq(cards, 1, Len(cut))
    BY <1>1, <2>1, <2>2, <2>3
  <2> HIDE DEF cut
  <2>6. QED
    BY <2>1, <2>2, <2>4, <2>5 DEF Selection!IsPrefix
<1>4. QED
  BY <1>2, <1>3

-----------------------------------------------------------------------------
(* The selection that answers                                              *)

\* Which quarter is the later.
LEMMA QuartersAreOrdered ==
  ASSUME NEW p \in Selection!Quarters, NEW q \in Selection!Quarters, NEW r \in Selection!Quarters
  PROVE  /\ Selection!CompareQuarterKeys(p, q) \in Int
         /\ Selection!CompareQuarterKeys(p, p) = 0
         /\ p = q \/ Selection!CompareQuarterKeys(p, q) > 0 \/ Selection!CompareQuarterKeys(q, p) > 0
         /\ Selection!CompareQuarterKeys(p, q) > 0 <=> Selection!CompareQuarterKeys(q, p) < 0
         /\ (Selection!CompareQuarterKeys(p, q) > 0 /\ Selection!CompareQuarterKeys(q, r) > 0) =>
              Selection!CompareQuarterKeys(p, r) > 0
<1> DEFINE a == p[1]
           b == p[2]
           c == q[1]
           d == q[2]
           e == r[1]
           f == r[2]
<1>1. /\ p = <<a, b>> /\ q = <<c, d>> /\ r = <<e, f>>
      /\ a \in Int /\ b \in Int /\ c \in Int /\ d \in Int /\ e \in Int /\ f \in Int
  BY DEF Selection!Quarters
<1> HIDE DEF a, b, c, d, e, f
<1>2. /\ Selection!CompareQuarterKeys(p, q) = IF a # c THEN a - c ELSE b - d
      /\ Selection!CompareQuarterKeys(q, p) = IF c # a THEN c - a ELSE d - b
      /\ Selection!CompareQuarterKeys(q, r) = IF c # e THEN c - e ELSE d - f
      /\ Selection!CompareQuarterKeys(p, r) = IF a # e THEN a - e ELSE b - f
      /\ Selection!CompareQuarterKeys(p, p) = IF a # a THEN a - a ELSE b - b
  BY DEF Selection!CompareQuarterKeys, a, b, c, d, e, f
<1>3. p = q <=> (a = c /\ b = d)
  BY <1>1
<1>4. QED
  BY <1>1, <1>2, <1>3

\* The quarters of a set, the newest first.
LEMMA NewestFirstIs ==
  ASSUME NEW S \in SUBSET Selection!Quarters, IsFiniteSet(S)
  PROVE  LET list == Selection!NewestFirst(S)
         IN  /\ \E size \in Nat : DOMAIN list = 1..size
             /\ \A n \in DOMAIN list : list[n] \in S
             /\ \A q \in S : \E n \in DOMAIN list : list[n] = q
             /\ \A i, j \in DOMAIN list : i <= j => Selection!CompareQuarterKeys(list[j], list[i]) <= 0
<1> DEFINE Later == {p \in S \X S : Selection!CompareQuarterKeys(p[1], p[2]) > 0}
           size == Cardinality(S)
           list == Selection!NewestFirst(S)
           rank(q) == RankIn(Later, S, q)
<1>1. \A p, q \in S : <<p, q>> \in Later <=> Selection!CompareQuarterKeys(p, q) > 0
  OBVIOUS
<1>2. OrderOf(Later, S)
  <2>1. \A p \in S : p \in Selection!Quarters
    OBVIOUS
  <2> HIDE DEF Later
  <2>2. \A p \in S : <<p, p>> \notin Later
    <3>1. SUFFICES ASSUME NEW p \in S PROVE <<p, p>> \notin Later
      OBVIOUS
    <3>2. Selection!CompareQuarterKeys(p, p) = 0
      BY <2>1, QuartersAreOrdered
    <3>3. QED
      BY <1>1, <3>2
  <2>3. ASSUME NEW p \in S, NEW q \in S PROVE p = q \/ <<p, q>> \in Later \/ <<q, p>> \in Later
    BY <1>1, <2>1, QuartersAreOrdered
  <2>4. ASSUME NEW p \in S, NEW q \in S, NEW r \in S, <<p, q>> \in Later, <<q, r>> \in Later
        PROVE  <<p, r>> \in Later
    BY <1>1, <2>1, <2>4, QuartersAreOrdered
  <2>5. QED
    BY <2>2, <2>3, <2>4 DEF OrderOf
<1>3. \A q \in S : rank(q) = Selection!Cardinality({p \in S : Selection!CompareQuarterKeys(p, q) > 0})
  <2>1. \A q \in S : {p \in S : <<p, q>> \in Later} = {p \in S : Selection!CompareQuarterKeys(p, q) > 0}
    BY <1>1
  <2>2. QED
    BY <2>1, SizesInSelection DEF RankIn
<1>4. list = [n \in 1..size |-> CHOOSE q \in S : rank(q) = n - 1]
  <2>1. list = [n \in 1..size |->
                  CHOOSE q \in S : Selection!Cardinality({p \in S : Selection!CompareQuarterKeys(p, q) > 0}) = n - 1]
    BY SizesInSelection DEF Selection!NewestFirst
  <2> HIDE DEF rank, list, size
  <2>2. QED
    BY <1>3, <2>1
<1> HIDE DEF Later
<1>5. Ranked(Later, S)
  BY <1>2, RanksArePlaces
<1>6. /\ size \in Nat
      /\ \A q \in S : rank(q) \in 0..(size - 1)
      /\ \A p, q \in S : <<p, q>> \in Later => rank(p) < rank(q)
      /\ \A n \in 0..(size - 1) : \E q \in S : rank(q) = n
  BY <1>5 DEF Ranked
<1> HIDE DEF rank, list, size
<1>7. DOMAIN list = 1..size /\ \A n \in 1..size : list[n] \in S /\ rank(list[n]) = n - 1
  <2>1. \A n \in 1..size : n - 1 \in 0..(size - 1)
    BY <1>6
  <2>2. \A n \in 1..size : \E q \in S : rank(q) = n - 1
    BY <1>6, <2>1
  <2>3. QED
    BY <1>4, <2>2
<1>8. \A p, q \in S : rank(p) = rank(q) => p = q
  <2>1. SUFFICES ASSUME NEW p \in S, NEW q \in S, rank(p) = rank(q) PROVE p = q
    OBVIOUS
  <2>2. rank(p) \in Int /\ ~ (rank(p) < rank(q)) /\ ~ (rank(q) < rank(p))
    BY <1>6, <2>1
  <2>3. <<p, q>> \notin Later /\ <<q, p>> \notin Later
    BY <1>6, <2>2
  <2>4. QED
    BY <1>2, <2>3 DEF OrderOf
<1>9. \A q \in S : \E n \in 1..size : list[n] = q
  <2>1. SUFFICES ASSUME NEW q \in S PROVE \E n \in 1..size : list[n] = q
    OBVIOUS
  <2>2. PICK n \in 1..size : n - 1 = rank(q)
    <3>1. rank(q) + 1 \in 1..size /\ (rank(q) + 1) - 1 = rank(q)
      BY <1>6
    <3>2. QED
      BY <3>1
  <2>3. QED
    BY <1>7, <1>8, <2>2
<1>10. ASSUME NEW i \in 1..size, NEW j \in 1..size, i <= j
       PROVE  Selection!CompareQuarterKeys(list[j], list[i]) <= 0
  <2>1. list[i] \in S /\ list[j] \in S /\ rank(list[i]) = i - 1 /\ rank(list[j]) = j - 1
    BY <1>7
  <2>2. ~ (rank(list[j]) < rank(list[i]))
    BY <1>6, <1>10, <2>1
  <2>3. ~ (Selection!CompareQuarterKeys(list[j], list[i]) > 0)
    BY <1>1, <1>6, <2>1, <2>2
  <2>4. Selection!CompareQuarterKeys(list[j], list[i]) \in Int
    BY <2>1, QuartersAreOrdered
  <2>5. QED
    BY <2>3, <2>4
<1>11. QED
  BY <1>6, <1>7, <1>9, <1>10 DEF list

\* The quarters that are considered for a request, and its answer when it names
\* none: cards has the cards of each quarter that is curated.
Considered(requested, curated) ==
  {k \in curated : requested \in curated => Selection!CompareQuarterKeys(k, requested) <= 0}
FoundIn(requested, curated, cards) ==
  LET attempts == Selection!SelectionAttempts(requested, curated)
  IN  {i \in DOMAIN attempts : cards[attempts[i]] # <<>>}
NewestAnswer(requested, curated, cards) ==
  LET attempts == Selection!SelectionAttempts(requested, curated)
      first == Selection!Min(FoundIn(requested, curated, cards))
  IN  IF FoundIn(requested, curated, cards) = {} THEN Selection!Response(requested, <<>>)
      ELSE Selection!Response(attempts[first], cards[attempts[first]])

\* The answer is of the newest quarter considered that has a card.
NewestIs(told, requested, curated, cards) ==
  LET shown == {k \in Considered(requested, curated) : cards[k] # <<>>}
  IN  IF shown = {} THEN told = Selection!Response(requested, <<>>)
      ELSE \E k \in shown :
             /\ told = Selection!Response(k, cards[k])
             /\ \A p \in shown : Selection!CompareQuarterKeys(p, k) <= 0

\* The attempts are the quarters considered, the newest first.
LEMMA AttemptsAre ==
  ASSUME NEW curated \in SUBSET Selection!Quarters, IsFiniteSet(curated),
         NEW requested \in Selection!Quarters
  PROVE  LET attempts == Selection!SelectionAttempts(requested, curated)
             S == Considered(requested, curated)
         IN  /\ \E size \in Nat : DOMAIN attempts = 1..size
             /\ \A n \in DOMAIN attempts : attempts[n] \in S
             /\ \A k \in S : \E n \in DOMAIN attempts : attempts[n] = k
             /\ \A i, j \in DOMAIN attempts :
                  i <= j => Selection!CompareQuarterKeys(attempts[j], attempts[i]) <= 0
<1> DEFINE S == Considered(requested, curated)
<1>1. S \in SUBSET curated
  BY DEF Considered
<1>2. IsFiniteSet(S) /\ S \in SUBSET Selection!Quarters
  BY <1>1, FS_Subset
<1>3. Selection!SelectionAttempts(requested, curated) = Selection!NewestFirst(S)
  BY DEF Selection!SelectionAttempts, Considered
<1> HIDE DEF S
<1>4. QED
  BY <1>2, <1>3, NewestFirstIs DEF S

LEMMA NewestAnswerIs ==
  ASSUME NEW curated \in SUBSET Selection!Quarters, IsFiniteSet(curated),
         NEW requested \in Selection!Quarters, NEW cards
  PROVE  NewestIs(NewestAnswer(requested, curated, cards), requested, curated, cards)
<1> DEFINE attempts == Selection!SelectionAttempts(requested, curated)
           S == Considered(requested, curated)
           shown == {k \in S : cards[k] # <<>>}
           found == FoundIn(requested, curated, cards)
           told == NewestAnswer(requested, curated, cards)
           first == Selection!Min(found)
<1>1. found = {i \in DOMAIN attempts : cards[attempts[i]] # <<>>}
  BY DEF FoundIn
<1>2. told = IF found = {} THEN Selection!Response(requested, <<>>)
               ELSE Selection!Response(attempts[first], cards[attempts[first]])
  BY DEF NewestAnswer
<1> HIDE DEF told, found, attempts, S
<1>3. /\ \E size \in Nat : DOMAIN attempts = 1..size
      /\ \A n \in DOMAIN attempts : attempts[n] \in S
      /\ \A k \in S : \E n \in DOMAIN attempts : attempts[n] = k
      /\ \A i, j \in DOMAIN attempts :
           i <= j => Selection!CompareQuarterKeys(attempts[j], attempts[i]) <= 0
  BY AttemptsAre DEF attempts, S
<1>4. CASE found = {}
  <2>1. shown = {}
    BY <1>1, <1>3, <1>4
  <2>2. QED
    BY <1>2, <1>4, <2>1 DEF NewestIs, told, S
<1>5. CASE found # {}
  <2>1. found \in SUBSET Int /\ IsFiniteSet(found)
    <3>1. PICK size \in Nat : DOMAIN attempts = 1..size
      BY <1>3
    <3>2. found \in SUBSET (1..size) /\ IsFiniteSet(1..size)
      BY <1>1, <3>1, FS_Interval
    <3>3. found \in SUBSET Int
      BY <3>2
    <3>4. QED
      BY <3>2, <3>3, FS_Subset
  <2>2. first \in found /\ \A i \in found : first <= i
    BY <1>5, <2>1, FiniteSetsAreBounded DEF Selection!Min
  <2> HIDE DEF first
  <2>3. attempts[first] \in shown
    BY <1>1, <1>3, <2>2
  <2>4. ASSUME NEW p \in shown PROVE Selection!CompareQuarterKeys(p, attempts[first]) <= 0
    <3>1. PICK n \in DOMAIN attempts : attempts[n] = p
      BY <1>3
    <3>2. n \in found
      BY <1>1, <3>1
    <3>3. first <= n /\ first \in DOMAIN attempts
      BY <1>1, <2>2, <3>2
    <3>4. QED
      BY <1>3, <3>1, <3>3
  <2>5. told = Selection!Response(attempts[first], cards[attempts[first]])
    BY <1>2, <1>5
  <2>6. QED
    BY <2>3, <2>4, <2>5 DEF NewestIs, told, S
<1>6. QED
  BY <1>4, <1>5

\* Two lists of cards for each quarter, of which the one has cards where the other
\* does, are answered from one quarter.
AnsweredAlike(requested, curated, cards, all) ==
  \/ /\ NewestAnswer(requested, curated, cards) = Selection!Response(requested, <<>>)
     /\ NewestAnswer(requested, curated, all) = Selection!Response(requested, <<>>)
  \/ \E k \in curated : /\ NewestAnswer(requested, curated, cards) = Selection!Response(k, cards[k])
                        /\ NewestAnswer(requested, curated, all) = Selection!Response(k, all[k])

LEMMA AlikeIsAlike ==
  ASSUME NEW curated \in SUBSET Selection!Quarters, IsFiniteSet(curated),
         NEW requested \in Selection!Quarters, NEW cards, NEW all,
         \A k \in curated : cards[k] = <<>> <=> all[k] = <<>>
  PROVE  AnsweredAlike(requested, curated, cards, all)
<1> DEFINE attempts == Selection!SelectionAttempts(requested, curated)
           found == FoundIn(requested, curated, cards)
           first == Selection!Min(found)
<1>1. \A n \in DOMAIN attempts : attempts[n] \in curated
  BY AttemptsAre DEF Considered
<1>2. found = {i \in DOMAIN attempts : cards[attempts[i]] # <<>>}
  BY DEF FoundIn
<1>3. FoundIn(requested, curated, all) = found
  BY <1>1, <1>2 DEF FoundIn
<1> HIDE DEF found
<1>4. /\ NewestAnswer(requested, curated, cards)
           = IF found = {} THEN Selection!Response(requested, <<>>)
             ELSE Selection!Response(attempts[first], cards[attempts[first]])
      /\ NewestAnswer(requested, curated, all)
           = IF found = {} THEN Selection!Response(requested, <<>>)
             ELSE Selection!Response(attempts[first], all[attempts[first]])
  BY <1>3 DEF NewestAnswer, found
<1>5. CASE found = {}
  BY <1>4, <1>5 DEF AnsweredAlike
<1>6. CASE found # {}
  <2>1. \E size \in Nat : DOMAIN attempts = 1..size
    BY AttemptsAre
  <2>2. found \in SUBSET Int /\ IsFiniteSet(found) /\ found \in SUBSET (DOMAIN attempts)
    <3>1. PICK size \in Nat : DOMAIN attempts = 1..size
      BY <2>1
    <3>2. found \in SUBSET (1..size) /\ IsFiniteSet(1..size)
      BY <1>2, <3>1, FS_Interval
    <3>3. found \in SUBSET Int /\ found \in SUBSET (DOMAIN attempts)
      BY <3>1, <3>2
    <3>4. QED
      BY <3>2, <3>3, FS_Subset
  <2>3. first \in found
    BY <1>6, <2>2, FiniteSetsAreBounded DEF Selection!Min
  <2>4. attempts[first] \in curated
    BY <1>1, <2>2, <2>3
  <2> HIDE DEF first, attempts
  <2>5. QED
    BY <1>4, <1>6, <2>4 DEF AnsweredAlike
<1>7. QED
  BY <1>5, <1>6

-----------------------------------------------------------------------------
(* The request                                                             *)

\* The fields of a request, and what the answer needs of them.
RequestFields(q) ==
  q \in [quarter : {q.quarter}, day : {q.day}, benchmark : {q.benchmark}, mercado : {q.mercado},
         limit : {q.limit}, selections : {q.selections}, funds : {q.funds}]
QuarterAsked(q) ==
  q.quarter \in [form : {"none", "other"}, quarter : {None}]
                \cup [form : {"canonical", "display"}, quarter : Selection!Quarters]
DayKnown(q) == q.day \in Nat \X (1..31) /\ q.day[2] <= Selection!DaysOf(q.day[1])
SelectionsTyped(q) ==
  /\ IsFiniteSet(DOMAIN q.selections) /\ DOMAIN q.selections \in SUBSET Selection!Quarters
  /\ \A k \in DOMAIN q.selections : q.selections[k] \in Seq(EntriesOf(q.funds))
FundsSynced(q) ==
  /\ FundsKnown(q.funds)
  /\ \A isin \in DOMAIN q.funds : q.funds[isin] = Selection!Synced(q.funds[isin])
Asked(q) ==
  /\ RequestFields(q) /\ QuarterAsked(q) /\ DayKnown(q) /\ SelectionsTyped(q) /\ FundsSynced(q)
  /\ q.limit \in (Nat \ {0}) \cup {None}

\* Another sync leaves a fund as it is, and no sync touches its score.
LEMMA SyncedIs ==
  ASSUME NEW f \in Selection!Fund \cup {None}, None \notin Selection!Fund
  PROVE  /\ Selection!Synced(Selection!Synced(f)) = Selection!Synced(f)
         /\ f # None => Selection!Synced(f).score = f.score
<1>1. CASE ~ (f # None /\ f.label = {})
  BY <1>1 DEF Selection!Synced
<1>2. CASE f # None /\ f.label = {}
  <2> DEFINE theme == Selection!ThemeLabel(Selection!ClassifyTheme(f))
             synced == [f EXCEPT !.label = theme]
  <2>1. f \in Selection!Fund
    BY <1>2
  <2>2. /\ synced.name = f.name /\ synced.benchmark = f.benchmark
        /\ synced.assetClass = f.assetClass /\ synced.score = f.score /\ synced.label = theme
    BY <2>1 DEF Selection!Fund
  <2>3. Selection!ClassifyTheme(synced) = Selection!ClassifyTheme(f)
    <3> HIDE DEF synced
    <3>1. QED
      BY <2>2, Zenon DEF Selection!ClassifyTheme
  <2>4. Selection!Synced(f) = synced
    BY <1>2 DEF Selection!Synced
  <2>5. [synced EXCEPT !.label = theme] = synced
    BY <2>1 DEF Selection!Fund
  <2>6. Selection!Synced(synced) = synced
    <3>1. Selection!Synced(synced) \in
            {synced, [synced EXCEPT !.label = Selection!ThemeLabel(Selection!ClassifyTheme(synced))]}
      BY DEF Selection!Synced
    <3>2. Selection!ThemeLabel(Selection!ClassifyTheme(synced)) = theme
      BY <2>3
    <3> HIDE DEF synced, theme
    <3>3. QED
      BY <2>5, <3>1, <3>2
  <2> HIDE DEF synced, theme
  <2>7. QED
    BY <1>2, <2>2, <2>4, <2>6
<1>3. QED
  BY <1>1, <1>2

\* A request is as it should be once its funds are synced.
LEMMA RequestsAsked ==
  ASSUME Selection!ConstantsAssumption, NEW r \in FeaturedRequests
  PROVE  Asked(Selection!SyncedRequest(r)) /\ Selection!SyncedRequest(r) # None
<1> DEFINE q == Selection!SyncedRequest(r)
           funds == [isin \in DOMAIN r.funds |-> Selection!Synced(r.funds[isin])]
<1>1. Selection!RequestTyped(r) /\ None \notin Selection!Fund /\ None \notin Nat
  BY DEF Selection!ConstantsAssumption
<1>2. /\ RequestFields(q) /\ q.funds = funds
      /\ q.quarter = r.quarter /\ q.day = r.day /\ q.limit = r.limit /\ q.selections = r.selections
  BY <1>1 DEF Selection!RequestTyped, Selection!SyncedRequest, RequestFields
<1> HIDE DEF q
<1>3. QuarterAsked(q) /\ DayKnown(q) /\ q.limit \in (Nat \ {0}) \cup {None}
  BY <1>1, <1>2 DEF Selection!RequestTyped, QuarterAsked, DayKnown
<1>4. SelectionsTyped(q)
  BY <1>1, <1>2, SizesInSelection DEF Selection!RequestTyped, SelectionsTyped, EntriesOf
<1>5. FundsSynced(q)
  <2>1. ASSUME NEW isin \in DOMAIN r.funds
        PROVE  /\ funds[isin] = Selection!Synced(funds[isin])
               /\ funds[isin] # None => funds[isin].score \in Nat \cup {None}
    <3> DEFINE f == r.funds[isin]
    <3>1. f \in Selection!Fund \cup {None} /\ funds[isin] = Selection!Synced(f)
      BY <1>1 DEF Selection!RequestTyped
    <3>2. f = None => Selection!Synced(f) = None
      BY DEF Selection!Synced
    <3>3. f # None => f.score \in Nat \cup {None}
      BY <3>1 DEF Selection!Fund
    <3> HIDE DEF f
    <3>4. QED
      BY <1>1, <3>1, <3>2, <3>3, SyncedIs
  <2>2. QED
    BY <1>2, <2>1 DEF FundsSynced, FundsKnown
<1>6. Selection!SyncedRequest(r) # None
  BY DEF Selection!ConstantsAssumption
<1>7. QED
  BY <1>2, <1>3, <1>4, <1>5, <1>6 DEF Asked, q

-----------------------------------------------------------------------------
(* The answer                                                              *)

\* The quarter a request means, the quarters that are curated, and the cards of
\* each; those the limit has not cut are Filtered.
Meant(q) == Selection!ResolveQuarter(q.quarter, q.day)
Curated(q) == DOMAIN q.selections
CardsOfAll(q) == [k \in Curated(q) |-> Selection!CardsOf(q, k)]
Filtered(q, k) ==
  Selection!Passing(Selection!Hydrate(q.selections[k], q.funds), q.benchmark, q.mercado)

LEMMA CardsOfIs ==
  ASSUME NEW q, Asked(q), NEW k \in Curated(q)
  PROVE  /\ Selection!CardsOf(q, k) = Selection!Limited(Filtered(q, k), q.limit)
         /\ Filtered(q, k) \in Seq(CardsFrom(q.funds))
         /\ Selection!CardsOf(q, k) \in Seq(CardsFrom(q.funds))
         /\ Selection!IsPrefix(Selection!CardsOf(q, k), Filtered(q, k))
         /\ Selection!CardsOf(q, k) = <<>> <=> Filtered(q, k) = <<>>
<1>1. q.selections[k] \in Seq(EntriesOf(q.funds)) /\ q.limit \in (Nat \ {0}) \cup {None}
  BY DEF Asked, SelectionsTyped, Curated
<1> DEFINE hydrated == Selection!Hydrate(q.selections[k], q.funds)
           all == Filtered(q, k)
<1>2. hydrated \in Seq(CardsFrom(q.funds))
  BY <1>1, HydrateIs
<1>3. Selection!CardsOf(q, k) = Selection!Limited(all, q.limit)
      /\ all = Selection!Passing(hydrated, q.benchmark, q.mercado)
  BY DEF Selection!CardsOf, Selection!FilterCards, Filtered
<1> HIDE DEF hydrated, all
<1>4. all \in Seq(CardsFrom(q.funds))
  BY <1>2, <1>3, PassingIs
<1> DEFINE C == CardsFrom(q.funds)
           limit == q.limit
<1>5. all \in Seq(C) /\ limit \in (Nat \ {0}) \cup {None}
  BY <1>1, <1>4
<1> HIDE DEF C, limit
<1>6. /\ Selection!Limited(all, limit) \in Seq(C)
      /\ Selection!IsPrefix(Selection!Limited(all, limit), all)
      /\ Selection!Limited(all, limit) = <<>> <=> all = <<>>
  BY <1>5, LimitedIs
<1>7. QED
  BY <1>3, <1>4, <1>6 DEF C, limit, all

\* The answer to a request for a quarter, and to one that names none.
LEMMA AnswerIs ==
  ASSUME NEW q, Asked(q), Meant(q) # None
  PROVE  /\ Meant(q) \in Selection!Quarters
         /\ q.quarter.form # "none" =>
              /\ q.quarter.form \in {"canonical", "display"} /\ q.quarter.quarter \in Selection!Quarters
              /\ Meant(q) = q.quarter.quarter
              /\ Selection!FeaturedFunds(q) =
                   Selection!Response(Meant(q),
                     IF Meant(q) \in Curated(q) THEN Selection!CardsOf(q, Meant(q)) ELSE <<>>)
         /\ q.quarter.form = "none" =>
              Selection!FeaturedFunds(q) = NewestAnswer(Meant(q), Curated(q), CardsOfAll(q))
<1> DEFINE requested == Meant(q)
           curated == Curated(q)
<1>1. QuarterAsked(q) /\ DayKnown(q) /\ IsFiniteSet(curated) /\ curated \in SUBSET Selection!Quarters
  BY DEF Asked, SelectionsTyped, Curated
<1>2. CASE q.quarter.form # "none"
  <2>1. q.quarter.form \in {"canonical", "display"} /\ q.quarter.quarter \in Selection!Quarters
        /\ requested = q.quarter.quarter
    BY <1>1, <1>2 DEF QuarterAsked, Meant, Selection!ResolveQuarter
  <2>2. Selection!FeaturedFunds(q) =
          Selection!Response(requested, IF requested \in curated THEN Selection!CardsOf(q, requested) ELSE <<>>)
    BY <1>2 DEF Selection!FeaturedFunds, Meant, Curated
  <2> HIDE DEF requested, curated
  <2>3. QED
    BY <1>2, <2>1, <2>2 DEF requested, curated
<1>3. CASE q.quarter.form = "none"
  <2>1. requested = Selection!CurrentQuarter(q.day)
    BY <1>3 DEF Meant, Selection!ResolveQuarter
  <2>2. requested \in Selection!Quarters
    <3> DEFINE day == q.day
    <3>1. day \in Nat \X (1..31) /\ day[2] <= Selection!DaysOf(day[1])
      BY <1>1 DEF DayKnown
    <3>2. requested = Selection!QuarterMetadata(Selection!CurrentQuarter(day)).quarter
      BY <2>1 DEF Selection!QuarterMetadata
    <3> HIDE DEF day, requested
    <3>3. QED
      BY <3>1, <3>2, QuartersHold
  <2> DEFINE attempts == Selection!SelectionAttempts(requested, curated)
             cards == CardsOfAll(q)
             found == {i \in DOMAIN attempts : Selection!CardsOf(q, attempts[i]) # <<>>}
             first == Selection!Min(found)
  <2>3. Selection!FeaturedFunds(q) =
          IF found = {} THEN Selection!Response(requested, <<>>)
          ELSE Selection!Response(attempts[first], Selection!CardsOf(q, attempts[first]))
    BY <1>3, Zenon DEF Selection!FeaturedFunds, Meant, Curated
  <2> HIDE DEF requested, curated
  <2>4. /\ \A n \in DOMAIN attempts : attempts[n] \in curated
        /\ \E size \in Nat : DOMAIN attempts = 1..size
    BY <1>1, <2>2, AttemptsAre DEF Considered
  <2>5. \A k \in curated : cards[k] = Selection!CardsOf(q, k)
    BY DEF CardsOfAll, curated
  <2> HIDE DEF attempts, cards
  <2>6. FoundIn(requested, curated, cards) = found
    BY <2>4, <2>5 DEF FoundIn, attempts
  <2>7. CASE found = {}
    BY <1>3, <2>2, <2>3, <2>6, <2>7 DEF NewestAnswer, requested, curated, cards
  <2>8. CASE found # {}
    <3>1. first \in found
      <4>1. PICK size \in Nat : DOMAIN attempts = 1..size
        BY <2>4
      <4>2. found \in SUBSET (1..size) /\ IsFiniteSet(1..size)
        BY <4>1, FS_Interval
      <4>3. found \in SUBSET Int
        BY <4>2
      <4>4. IsFiniteSet(found)
        BY <4>2, FS_Subset
      <4> HIDE DEF found
      <4>5. QED
        BY <2>8, <4>3, <4>4, FiniteSetsAreBounded DEF Selection!Min
    <3>2. attempts[first] \in curated
      BY <2>4, <3>1
    <3>3. cards[attempts[first]] = Selection!CardsOf(q, attempts[first])
      BY <2>5, <3>2
    <3>4. NewestAnswer(requested, curated, cards) =
            Selection!Response(attempts[first], cards[attempts[first]])
      BY <2>6, <2>8 DEF NewestAnswer, attempts
    <3> HIDE DEF first, found
    <3>5. QED
      BY <1>3, <2>2, <2>3, <2>8, <3>3, <3>4 DEF requested, curated, cards
  <2>9. QED
    BY <2>7, <2>8
<1>4. QED
  BY <1>2, <1>3

\* A request that differs in its limit or in its market only.
LEMMA VariantsAre ==
  ASSUME NEW q, Asked(q), NEW x
  PROVE  LET unlimited == [q EXCEPT !.limit = None]
             elsewhere == [q EXCEPT !.mercado = x]
         IN  /\ Asked(unlimited) /\ Meant(unlimited) = Meant(q) /\ Curated(unlimited) = Curated(q)
             /\ Asked(elsewhere) /\ Meant(elsewhere) = Meant(q) /\ Curated(elsewhere) = Curated(q)
             /\ \A k \in Curated(q) :
                  /\ Selection!CardsOf(unlimited, k) = Filtered(q, k)
                  /\ Selection!CardsOf(elsewhere, k)
                       = Selection!Limited(Selection!Passing(
                           Selection!Hydrate(q.selections[k], q.funds), q.benchmark, x), q.limit)
             /\ unlimited.quarter = q.quarter /\ elsewhere.quarter = q.quarter
<1> DEFINE unlimited == [q EXCEPT !.limit = None]
           elsewhere == [q EXCEPT !.mercado = x]
<1>1. /\ RequestFields(unlimited) /\ unlimited.limit = None
      /\ unlimited.quarter = q.quarter /\ unlimited.day = q.day /\ unlimited.benchmark = q.benchmark
      /\ unlimited.mercado = q.mercado /\ unlimited.selections = q.selections
      /\ unlimited.funds = q.funds
  BY DEF Asked, RequestFields
<1>2. /\ RequestFields(elsewhere) /\ elsewhere.mercado = x
      /\ elsewhere.quarter = q.quarter /\ elsewhere.day = q.day /\ elsewhere.benchmark = q.benchmark
      /\ elsewhere.limit = q.limit /\ elsewhere.selections = q.selections
      /\ elsewhere.funds = q.funds
  BY DEF Asked, RequestFields
<1> HIDE DEF unlimited, elsewhere
<1>3. Asked(unlimited) /\ Asked(elsewhere)
  BY <1>1, <1>2 DEF Asked, QuarterAsked, DayKnown, SelectionsTyped, FundsSynced
<1>4. /\ Meant(unlimited) = Meant(q) /\ Curated(unlimited) = Curated(q)
      /\ Meant(elsewhere) = Meant(q) /\ Curated(elsewhere) = Curated(q)
  BY <1>1, <1>2 DEF Meant, Curated
<1>5. ASSUME NEW k \in Curated(q)
      PROVE  Selection!CardsOf(unlimited, k) = Filtered(q, k)
  <2>1. Selection!CardsOf(unlimited, k) = Selection!Limited(Filtered(q, k), None)
    BY <1>1, Zenon DEF Selection!CardsOf, Selection!FilterCards, Filtered
  <2>2. QED
    BY <2>1 DEF Selection!Limited
<1>6. ASSUME NEW k \in Curated(q)
      PROVE  Selection!CardsOf(elsewhere, k)
               = Selection!Limited(Selection!Passing(
                   Selection!Hydrate(q.selections[k], q.funds), q.benchmark, x), q.limit)
  BY <1>2, Zenon DEF Selection!CardsOf, Selection!FilterCards
<1>7. QED
  BY <1>1, <1>2, <1>3, <1>4, <1>5, <1>6 DEF unlimited, elsewhere

\* The request is answered, of a quarter one can read.
FeaturedAnswered ==
  /\ Asked(request) /\ featured = Selection!FeaturedFunds(request)
  /\ None \notin Nat /\ None \notin {"us", "usa", "europe", "europa"} /\ None \notin Selection!Quarters
  /\ featured.period # None

LEMMA QuarterMeant == ASSUME FeaturedAnswered PROVE Meant(request) # None
<1>1. Meant(request) = None => featured.period = None
  BY DEF FeaturedAnswered, Selection!FeaturedFunds, Meant
<1>2. QED
  BY <1>1 DEF FeaturedAnswered

\* What a response shows.
LEMMA ResponseIs ==
  ASSUME NEW k, NEW cards
  PROVE  /\ Selection!Response(k, cards).period.quarter = k
         /\ Selection!Response(k, cards).period = Selection!QuarterMetadata(k)
         /\ Selection!Response(k, cards).cards = cards
         /\ DOMAIN Selection!Response(k, cards) = {"period", "cards"}
BY DEF Selection!Response, Selection!QuarterMetadata

\* The answer is of the quarter it should be of.
LEMMA QuarterFitsHolds ==
  ASSUME FeaturedAnswered
  PROVE  Selection!QuarterFits
<1> DEFINE q == request
           requested == Selection!ResolveQuarter(q.quarter, q.day)
           considered == {k \in DOMAIN q.selections :
                            requested \in DOMAIN q.selections =>
                              Selection!CompareQuarterKeys(k, requested) <= 0}
           shown == {k \in considered : Selection!CardsOf(q, k) # <<>>}
           served == featured.period.quarter
<1>1. Asked(q) /\ Meant(q) # None /\ featured = Selection!FeaturedFunds(q)
  BY QuarterMeant DEF FeaturedAnswered
<1>2. requested = Meant(q) /\ considered = Considered(Meant(q), Curated(q))
  BY DEF Meant, Curated, Considered
<1>3. ASSUME q.quarter.form # "none", NEW form \in {"canonical", "display"}
      PROVE  Selection!FeaturedFunds([request EXCEPT !.quarter.form = form]) = featured
  <2> DEFINE p == [request EXCEPT !.quarter.form = form]
  <2>1. /\ q.quarter.form \in {"canonical", "display"} /\ Meant(q) = q.quarter.quarter
        /\ featured = Selection!Response(Meant(q),
                        IF Meant(q) \in Curated(q) THEN Selection!CardsOf(q, Meant(q)) ELSE <<>>)
    BY <1>1, <1>3, AnswerIs
  <2>2. /\ p.quarter = [q.quarter EXCEPT !.form = form]
        /\ p.day = q.day /\ p.benchmark = q.benchmark
        /\ p.limit = q.limit /\ p.selections = q.selections
        /\ p.funds = q.funds /\ p.mercado = q.mercado
    BY <1>1 DEF Asked, RequestFields
  <2>3. p.quarter.form = form /\ p.quarter.quarter = q.quarter.quarter
    BY <1>1, <2>2 DEF Asked, QuarterAsked
  <2> HIDE DEF p
  <2>4. Meant(p) = Meant(q)
    BY <2>1, <2>3 DEF Meant, Selection!ResolveQuarter
  <2>5. Selection!CardsOf(p, Meant(q)) = Selection!CardsOf(q, Meant(q))
    BY <2>2, Zenon DEF Selection!CardsOf, Selection!FilterCards
  <2>6. Selection!FeaturedFunds(p) =
          Selection!Response(Meant(p),
            IF Meant(p) \in DOMAIN p.selections THEN Selection!CardsOf(p, Meant(p)) ELSE <<>>)
    <3>1. Selection!ResolveQuarter(p.quarter, p.day) = Meant(p) /\ Meant(p) # None
          /\ p.quarter.form # "none"
      BY <1>1, <2>3, <2>4 DEF Meant
    <3>2. QED
      BY <3>1 DEF Selection!FeaturedFunds
  <2>7. QED
    BY <2>1, <2>2, <2>4, <2>5, <2>6 DEF Curated, p
<1>4. CASE q.quarter.form # "none"
  <2>1. served = Meant(q)
    BY <1>1, <1>4, AnswerIs, ResponseIs
  <2>2. QED
    BY <1>2, <1>3, <1>4, <2>1 DEF Selection!QuarterFits
<1>5. CASE q.quarter.form = "none"
  <2> DEFINE cards == CardsOfAll(q)
             few == {k \in Considered(Meant(q), Curated(q)) : cards[k] # <<>>}
  <2>1. /\ featured = NewestAnswer(Meant(q), Curated(q), cards)
        /\ Meant(q) \in Selection!Quarters
        /\ IsFiniteSet(Curated(q)) /\ Curated(q) \in SUBSET Selection!Quarters
    BY <1>1, <1>5, AnswerIs DEF Asked, SelectionsTyped, Curated
  <2>2. \A k \in Curated(q) : cards[k] = Selection!CardsOf(q, k)
    BY DEF CardsOfAll
  <2> HIDE DEF cards
  <2>3. NewestIs(featured, Meant(q), Curated(q), cards)
    BY <2>1, NewestAnswerIs
  <2>4. few = shown
    BY <1>2, <2>2 DEF Considered
  <2>5. CASE few = {}
    <3>1. featured = Selection!Response(Meant(q), <<>>)
      BY <2>3, <2>5 DEF NewestIs
    <3>2. served = Meant(q) /\ featured.cards = <<>>
      BY <3>1, ResponseIs
    <3> HIDE DEF served
    <3>3. QED
      BY <1>2, <1>5, <2>4, <2>5, <3>2 DEF Selection!QuarterFits, served
  <2>6. CASE few # {}
    <3>1. PICK k \in few : /\ featured = Selection!Response(k, cards[k])
                           /\ \A p \in few : Selection!CompareQuarterKeys(p, k) <= 0
      BY <2>3, <2>6 DEF NewestIs
    <3>2. served = k
      BY <3>1, ResponseIs
    <3>3. served \in shown /\ \A p \in shown : Selection!CompareQuarterKeys(p, served) <= 0
      BY <2>4, <3>1, <3>2
    <3> HIDE DEF served, few
    <3>4. QED
      BY <1>5, <2>4, <2>6, <3>3 DEF Selection!QuarterFits, served
  <2>7. QED
    BY <2>5, <2>6
<1>6. QED
  BY <1>4, <1>5

\* The cards that are shown are of funds that may be, and those without the limit
\* go on from them.
LEMMA CardsFitHolds ==
  ASSUME FeaturedAnswered
  PROVE  Selection!CardsFit
<1> DEFINE q == request
           p == [request EXCEPT !.limit = None]
           all == Selection!FeaturedFunds(p)
           C == CardsFrom(q.funds)
<1>1. Asked(q) /\ Meant(q) # None /\ featured = Selection!FeaturedFunds(q)
  BY QuarterMeant DEF FeaturedAnswered
<1>2. /\ Asked(p) /\ Meant(p) = Meant(q) /\ Curated(p) = Curated(q)
      /\ p.quarter = q.quarter
      /\ \A k \in Curated(q) : Selection!CardsOf(p, k) = Filtered(q, k)
  BY <1>1, VariantsAre
<1> HIDE DEF p
<1>3. \A k \in Curated(q) :
        /\ Selection!CardsOf(q, k) \in Seq(C)
        /\ Selection!IsPrefix(Selection!CardsOf(q, k), Selection!CardsOf(p, k))
        /\ Selection!CardsOf(q, k) = <<>> <=> Selection!CardsOf(p, k) = <<>>
  BY <1>1, <1>2, CardsOfIs
<1>4. <<>> \in Seq(C) /\ Selection!IsPrefix(<<>>, <<>>)
  BY EmptySeq DEF Selection!IsPrefix
<1> HIDE DEF C
<1>5. \/ /\ featured = Selection!Response(Meant(q), <<>>)
         /\ all = Selection!Response(Meant(q), <<>>)
      \/ \E k \in Curated(q) : /\ featured = Selection!Response(k, Selection!CardsOf(q, k))
                               /\ all = Selection!Response(k, Selection!CardsOf(p, k))
  <2>1. CASE q.quarter.form # "none"
    <3>1. featured = Selection!Response(Meant(q),
                       IF Meant(q) \in Curated(q) THEN Selection!CardsOf(q, Meant(q)) ELSE <<>>)
      BY <1>1, <2>1, AnswerIs
    <3>2. all = Selection!Response(Meant(q),
                  IF Meant(q) \in Curated(q) THEN Selection!CardsOf(p, Meant(q)) ELSE <<>>)
      <4>1. p.quarter.form # "none" /\ Meant(p) # None
        BY <1>1, <1>2, <2>1
      <4>2. Selection!FeaturedFunds(p) = Selection!Response(Meant(p),
                  IF Meant(p) \in Curated(p) THEN Selection!CardsOf(p, Meant(p)) ELSE <<>>)
        BY <1>2, <4>1, AnswerIs
      <4>3. QED
        BY <1>2, <4>2
    <3>3. QED
      BY <3>1, <3>2
  <2>2. CASE q.quarter.form = "none"
    <3> DEFINE cards == CardsOfAll(q)
               more == CardsOfAll(p)
    <3>1. /\ featured = NewestAnswer(Meant(q), Curated(q), cards)
          /\ Meant(q) \in Selection!Quarters
          /\ IsFiniteSet(Curated(q)) /\ Curated(q) \in SUBSET Selection!Quarters
      BY <1>1, <2>2, AnswerIs DEF Asked, SelectionsTyped, Curated
    <3>2. all = NewestAnswer(Meant(q), Curated(q), more)
      BY <1>1, <1>2, <2>2, AnswerIs
    <3>3. \A k \in Curated(q) : /\ cards[k] = Selection!CardsOf(q, k)
                                /\ more[k] = Selection!CardsOf(p, k)
      BY <1>2 DEF CardsOfAll
    <3> HIDE DEF cards, more, all
    <3>4. \A k \in Curated(q) : cards[k] = <<>> <=> more[k] = <<>>
      BY <1>3, <3>3
    <3>5. AnsweredAlike(Meant(q), Curated(q), cards, more)
      BY <3>1, <3>4, AlikeIsAlike
    <3>6. \/ featured = Selection!Response(Meant(q), <<>>) /\ all = Selection!Response(Meant(q), <<>>)
          \/ \E k \in Curated(q) : /\ featured = Selection!Response(k, cards[k])
                                   /\ all = Selection!Response(k, more[k])
      BY <3>1, <3>2, <3>5, Zenon DEF AnsweredAlike
    <3>7. QED
      BY <3>3, <3>6
  <2>3. QED
    BY <2>1, <2>2
<1>6. PICK k, shown, more :
        /\ shown \in Seq(C)
        /\ featured = Selection!Response(k, shown) /\ all = Selection!Response(k, more)
        /\ Selection!IsPrefix(shown, more)
  <2>1. CASE /\ featured = Selection!Response(Meant(q), <<>>)
             /\ all = Selection!Response(Meant(q), <<>>)
    BY <1>4, <2>1
  <2>2. CASE \E k \in Curated(q) : /\ featured = Selection!Response(k, Selection!CardsOf(q, k))
                                   /\ all = Selection!Response(k, Selection!CardsOf(p, k))
    BY <1>3, <2>2
  <2>3. QED
    BY <1>5, <2>1, <2>2
<1> HIDE DEF all
<1>7. /\ featured.cards = shown /\ all.cards = more /\ all.period = featured.period
  BY <1>6, ResponseIs
<1>8. ASSUME NEW i \in DOMAIN featured.cards
      PROVE  LET f == request.funds[featured.cards[i].isin]
             IN  f.visible /\ f.score >= 295
  <2>1. featured.cards[i] \in C
    BY <1>6, <1>7
  <2>2. FundsKnown(q.funds) /\ None \notin Nat
    BY DEF FeaturedAnswered, Asked, FundsSynced
  <2>3. QED
    BY <2>1, <2>2, CardsAreOf DEF C
<1>9. QED
  BY <1>6, <1>7, <1>8 DEF Selection!CardsFit, all, p

\* The aliases of a market name the same cards.
LEMMA AliasesAgree ==
  ASSUME None \notin {"us", "usa", "europe", "europa"}, NEW cards, NEW benchmark
  PROVE  /\ Selection!Passing(cards, benchmark, "us") = Selection!Passing(cards, benchmark, "usa")
         /\ Selection!Passing(cards, benchmark, "europe") = Selection!Passing(cards, benchmark, "europa")
<1>1. "us" # None /\ "usa" # None /\ "europe" # None /\ "europa" # None
  OBVIOUS
<1>2. \A c : /\ Selection!InMarket(c, "us") <=> Selection!InMarket(c, "usa")
             /\ Selection!InMarket(c, "europe") <=> Selection!InMarket(c, "europa")
  BY DEF Selection!InMarket
<1>3. QED
  BY <1>1, <1>2 DEF Selection!Passing

\* Two markets that name the same cards have the same answer.
LEMMA SameMarket ==
  ASSUME FeaturedAnswered, NEW m, NEW n,
         \A cards, benchmark :
           Selection!Passing(cards, benchmark, m) = Selection!Passing(cards, benchmark, n)
  PROVE  Selection!FeaturedFunds([request EXCEPT !.mercado = m])
           = Selection!FeaturedFunds([request EXCEPT !.mercado = n])
<1> DEFINE q == request
           p == [request EXCEPT !.mercado = m]
           r == [request EXCEPT !.mercado = n]
<1>1. Asked(q) /\ Meant(q) # None
  BY QuarterMeant DEF FeaturedAnswered
<1>2. /\ Asked(p) /\ Meant(p) = Meant(q) /\ Curated(p) = Curated(q) /\ p.quarter = q.quarter
      /\ \A k \in Curated(q) :
           Selection!CardsOf(p, k)
             = Selection!Limited(Selection!Passing(
                 Selection!Hydrate(q.selections[k], q.funds), q.benchmark, m), q.limit)
  BY <1>1, VariantsAre
<1>3. /\ Asked(r) /\ Meant(r) = Meant(q) /\ Curated(r) = Curated(q) /\ r.quarter = q.quarter
      /\ \A k \in Curated(q) :
           Selection!CardsOf(r, k)
             = Selection!Limited(Selection!Passing(
                 Selection!Hydrate(q.selections[k], q.funds), q.benchmark, n), q.limit)
  BY <1>1, VariantsAre
<1> HIDE DEF p, r
<1>4. \A k \in Curated(q) : Selection!CardsOf(p, k) = Selection!CardsOf(r, k)
  BY <1>2, <1>3
<1>5. CardsOfAll(p) = CardsOfAll(r)
  BY <1>2, <1>3, <1>4 DEF CardsOfAll
<1>6. CASE q.quarter.form # "none"
  <2>1. Selection!FeaturedFunds(p) = Selection!Response(Meant(p),
          IF Meant(p) \in Curated(p) THEN Selection!CardsOf(p, Meant(p)) ELSE <<>>)
    BY <1>1, <1>2, <1>6, AnswerIs
  <2>2. Selection!FeaturedFunds(r) = Selection!Response(Meant(r),
          IF Meant(r) \in Curated(r) THEN Selection!CardsOf(r, Meant(r)) ELSE <<>>)
    BY <1>1, <1>3, <1>6, AnswerIs
  <2>3. QED
    BY <1>2, <1>3, <1>4, <2>1, <2>2 DEF p, r
<1>7. CASE q.quarter.form = "none"
  <2>1. Selection!FeaturedFunds(p) = NewestAnswer(Meant(p), Curated(p), CardsOfAll(p))
    BY <1>1, <1>2, <1>7, AnswerIs
  <2>2. Selection!FeaturedFunds(r) = NewestAnswer(Meant(r), Curated(r), CardsOfAll(r))
    BY <1>1, <1>3, <1>7, AnswerIs
  <2>3. QED
    BY <1>2, <1>3, <1>5, <2>1, <2>2 DEF p, r
<1>8. QED
  BY <1>6, <1>7

\* The label of a region's theme has the word of its market.
LEMMA LabelsHaveMarkets ==
  ASSUME NEW c,
         NEW market \in {<<"us-equity", "usa">>, <<"europe-equity", "europa">>, <<"global-equity", "global">>},
         c.theme = Selection!ThemeLabel(market[1])
  PROVE  Selection!InMarket(c, market[2])
<1>1. CASE market = <<"us-equity", "usa">>
  <2>1. "usa" \in c.theme
    BY <1>1 DEF Selection!ThemeLabel
  <2>2. QED
    BY <1>1, <2>1 DEF Selection!InMarket
<1>2. CASE market = <<"europe-equity", "europa">>
  <2>1. "europa" \in c.theme
    BY <1>2 DEF Selection!ThemeLabel
  <2>2. QED
    BY <1>2, <2>1 DEF Selection!InMarket
<1>3. CASE market = <<"global-equity", "global">>
  <2>1. "global" \in c.theme
    BY <1>3 DEF Selection!ThemeLabel
  <2>2. QED
    BY <1>3, <2>1 DEF Selection!InMarket
<1>4. QED
  BY <1>1, <1>2, <1>3

\* A card of a market stays where the market is all that is asked for.
LEMMA MarketIsKept ==
  ASSUME NEW C, NEW cards \in Seq(C), NEW i \in DOMAIN cards, NEW market,
         Selection!InMarket(cards[i], market)
  PROVE  cards[i] \in Selection!Range(Selection!Passing(cards, None, market))
<1>1. \E n \in DOMAIN Selection!Passing(cards, None, market) :
        Selection!Passing(cards, None, market)[n] = cards[i]
  BY PassingIs
<1>2. QED
  BY <1>1 DEF Selection!Range

\* The aliases of a market have one answer, and a label puts its fund under its market.
LEMMA MarketsFitHolds ==
  ASSUME FeaturedAnswered
  PROVE  Selection!MarketsFit
<1>1. None \notin {"us", "usa", "europe", "europa"}
  BY DEF FeaturedAnswered
<1>2. ASSUME NEW alias \in {<<"us", "usa">>, <<"europe", "europa">>}
      PROVE  Selection!FeaturedFunds([request EXCEPT !.mercado = alias[1]])
               = Selection!FeaturedFunds([request EXCEPT !.mercado = alias[2]])
  <2> DEFINE m == alias[1]
             n == alias[2]
  <2>1. \A cards, benchmark :
          Selection!Passing(cards, benchmark, m) = Selection!Passing(cards, benchmark, n)
    BY <1>1, AliasesAgree
  <2> HIDE DEF m, n
  <2>2. Selection!FeaturedFunds([request EXCEPT !.mercado = m])
          = Selection!FeaturedFunds([request EXCEPT !.mercado = n])
    BY <2>1, SameMarket
  <2>3. QED
    BY <2>2 DEF m, n
<1>3. ASSUME NEW market \in {<<"us-equity", "usa">>, <<"europe-equity", "europa">>,
                             <<"global-equity", "global">>},
             NEW k \in DOMAIN request.selections,
             NEW i \in DOMAIN Selection!Hydrate(request.selections[k], request.funds),
             Selection!Hydrate(request.selections[k], request.funds)[i].theme
               = Selection!ThemeLabel(market[1])
      PROVE  Selection!Hydrate(request.selections[k], request.funds)[i] \in
               Selection!Range(Selection!FilterCards(
                 Selection!Hydrate(request.selections[k], request.funds),
                 [request EXCEPT !.mercado = market[2], !.benchmark = None, !.limit = None]))
  <2> DEFINE cards == Selection!Hydrate(request.selections[k], request.funds)
             p == [request EXCEPT !.mercado = market[2], !.benchmark = None, !.limit = None]
             m == market[2]
             kept == Selection!Passing(cards, None, m)
  <2>1. p.mercado = m /\ p.benchmark = None /\ p.limit = None
    BY DEF FeaturedAnswered, Asked, RequestFields
  <2>2. cards \in Seq(CardsFrom(request.funds))
    BY HydrateIs DEF FeaturedAnswered, Asked, SelectionsTyped
  <2> HIDE DEF p
  <2>3. Selection!FilterCards(cards, p) = kept
    BY <2>1 DEF Selection!FilterCards, Selection!Limited
  <2>4. Selection!InMarket(cards[i], m) /\ i \in DOMAIN cards
    BY <1>3, LabelsHaveMarkets
  <2> HIDE DEF cards, m
  <2>5. cards[i] \in Selection!Range(kept)
    <3> DEFINE C == CardsFrom(request.funds)
    <3>1. cards \in Seq(C)
      BY <2>2
    <3> HIDE DEF C, kept
    <3>2. cards[i] \in Selection!Range(Selection!Passing(cards, None, m))
      BY <2>4, <3>1, MarketIsKept
    <3>3. QED
      BY <3>2 DEF kept
  <2>6. QED
    BY <2>3, <2>5 DEF cards, p
<1>4. QED
  BY <1>2, <1>3, Zenon DEF Selection!MarketsFit

-----------------------------------------------------------------------------
(* The behaviour                                                           *)

\* Nothing is asked yet, or what was asked is answered.
SelectionInv ==
  \/ request = None /\ featured = None
  \/ request # None /\ Asked(request) /\ featured = Selection!FeaturedFunds(request)

\* The invariant, which an answer establishes and nothing touches after it.
LEMMA SelectionInvariance ==
  ASSUME Selection!ConstantsAssumption
  PROVE  Selection!Spec => []SelectionInv
<1>1. Selection!Init => SelectionInv
  BY DEF Selection!Init, SelectionInv
<1>2. ASSUME SelectionInv, [Selection!Ask]_(Selection!vars)
      PROVE  SelectionInv'
  <2>1. CASE Selection!Ask
    <3>1. PICK r \in FeaturedRequests : request' = Selection!SyncedRequest(r)
      BY <2>1 DEF Selection!Ask
    <3>2. Asked(Selection!SyncedRequest(r)) /\ Selection!SyncedRequest(r) # None
      BY RequestsAsked
    <3>3. featured' = Selection!FeaturedFunds(request')
      BY <2>1 DEF Selection!Ask
    <3>4. QED
      BY <3>1, <3>2, <3>3 DEF SelectionInv
  <2>2. CASE UNCHANGED Selection!vars
    BY <1>2, <2>2 DEF SelectionInv, Selection!vars
  <2>3. QED
    BY <1>2, <2>1, <2>2
<1>3. QED
  BY <1>1, <1>2, PTL DEF Selection!Spec

\* The current quarter of any day is around it.
LEMMA QuartersTileHolds ==
  ASSUME FeaturedAnswered
  PROVE  Selection!QuartersTile
<1> DEFINE day == request.day
<1>1. day \in Nat \X (1..31) /\ day[2] <= Selection!DaysOf(day[1])
  BY DEF FeaturedAnswered, Asked, DayKnown
<1> HIDE DEF day
<1>2. LET current == Selection!QuarterMetadata(Selection!CurrentQuarter(day))
          next == Selection!NextQuarter(current.quarter)
      IN  /\ Selection!OnOrBefore(current.start, day) /\ Selection!OnOrBefore(day, current.end)
          /\ Selection!QuarterMetadata(next).start = Selection!NextDay(current.end)
          /\ Selection!CompareQuarterKeys(current.quarter, next) < 0
          /\ current.quarter \in Selection!Quarters
  BY <1>1, QuartersHold
<1>3. QED
  BY <1>2 DEF Selection!QuartersTile, day

\* The funds an answer is made of have the labels a sync gives them, and a bad
\* request is answered too, without a period.
THEOREM SelectionTypeSafe ==
  ASSUME Selection!ConstantsAssumption
  PROVE  Selection!Spec => []Selection!TypeOK
<1>1. ASSUME SelectionInv PROVE Selection!TypeOK
  <2>1. CASE request = None
    BY <1>1, <2>1 DEF SelectionInv, Selection!TypeOK
  <2>2. CASE request # None
    <3>1. Asked(request) /\ featured = Selection!FeaturedFunds(request)
      BY <1>1, <2>2 DEF SelectionInv
    <3>2. DOMAIN featured = {"period", "cards"}
      <4>1. Meant(request) = None => featured = [period |-> None, cards |-> <<>>]
        BY <3>1 DEF Selection!FeaturedFunds, Meant
      <4>2. Meant(request) # None => \E k, cards : featured = Selection!Response(k, cards)
        <5>1. SUFFICES ASSUME Meant(request) # None
                       PROVE  \E k, cards : featured = Selection!Response(k, cards)
          OBVIOUS
        <5>2. CASE request.quarter.form # "none"
          BY <3>1, <5>1, <5>2, AnswerIs
        <5>3. CASE request.quarter.form = "none"
          BY <3>1, <5>1, <5>3, AnswerIs DEF NewestAnswer
        <5>4. QED
          BY <5>2, <5>3
      <4>3. QED
        BY <4>1, <4>2, ResponseIs
    <3>3. QED
      BY <2>2, <3>1, <3>2 DEF Selection!TypeOK, Asked, FundsSynced
  <2>3. QED
    BY <2>1, <2>2
<1>2. QED
  BY <1>1, SelectionInvariance, PTL

\* GET /featured, for any funds, curated quarters and request: the current quarter
\* holds today and quarters follow each other without a gap; a request for a quarter
\* is told of it in either spelling, another of the newest quarter with a card to
\* show; every card is a public fund that scores 30, and a limit only cuts the list
\* off; a market's aliases agree, and a fund is under the market its label names.
THEOREM FeaturedHolds ==
  ASSUME Selection!ConstantsAssumption
  PROVE  Selection!Spec => []Selection!FeaturedFits
<1>1. ASSUME SelectionInv PROVE Selection!FeaturedFits
  <2>1. SUFFICES ASSUME request # None, featured.period # None PROVE Selection!FeaturedFits
    BY DEF Selection!FeaturedFits
  <2>2. FeaturedAnswered
    BY <1>1, <2>1 DEF SelectionInv, FeaturedAnswered, Selection!ConstantsAssumption
  <2>3. QED
    BY <2>2, QuartersTileHolds, QuarterFitsHolds, CardsFitHolds, MarketsFitHolds
    DEF Selection!FeaturedFits
<1>2. QED
  BY <1>1, SelectionInvariance, PTL

================================================================================
