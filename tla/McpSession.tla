------------------------------ MODULE McpSession ------------------------------
(***************************************************************************)
(* MyInvestorMcpClient over HttpClientService: concurrent callers of one   *)
(* client share its sessionId.  Each of a call's requests (initialize,     *)
(* notifications/initialized, tools/call) is sent again while the server   *)
(* is unavailable; a session error makes the call start over, once.        *)
(* Between a request and its answer the other callers run, and a request   *)
(* whose answer was lost may have been carried out.                        *)
(***************************************************************************)
EXTENDS Integers, FiniteSets

CONSTANTS Callers,     \* concurrent tool calls
          MaxSessions, \* bound on the sessions the server opens
          NoSession,   \* sessionId = null
          Retries,     \* httpClientMaxRetries
          MaxDiscards  \* bound on the sessions the server discards

VARIABLES
  sessionId,   \* the client's field
  issued,      \* how many ids the server has given
  held,        \* the sessions it still holds
  ready,       \* those it was told are initialized
  stateful,    \* does the server use sessions at all?
  calls,       \* the state of each tool call
  disturbed    \* second attempts during which the session was taken away

vars == <<sessionId, issued, held, ready, stateful, calls, disturbed>>

ConstantsAssumption == Retries \in Nat /\ MaxSessions \in Nat /\ MaxDiscards \in Nat /\ NoSession \notin 1..MaxSessions

\* The ids are opaque to the client: numbers in the order they are given.
Sessions == 1..MaxSessions

\* What the server made of a request, and what became of the answer.
\*   ok           a result
\*   rejected     HTTP 400 or 404, or JSON-RPC error -32001: a session error
\*   failed       another status or error, or a body that is not JSON-RPC
\*   unavailable  HTTP 429 or >= 500, a timeout or a network error
Replies == {"ok", "rejected", "failed", "unavailable"}

Retryable(reply) == reply = "unavailable"
IsSessionError(reply) == reply = "rejected"

Call == [pc: {"idle", "initialize", "notify", "tool", "done"},
         round: 1..2,                  \* callTool's first or second attempt
         attempt: 0..Retries,          \* of the outstanding request
         sid: Sessions \union {NoSession},    \* mcp-session-id of that request
         reply: Replies \union {"none"},
         fresh: Sessions \union {NoSession},  \* the id in initialize's answer
         result: Replies \union {"none"}]

Init ==
  /\ sessionId = NoSession
  /\ issued = 0 /\ held = {} /\ ready = {}
  /\ stateful \in BOOLEAN
  /\ calls = [c \in Callers |->
       [pc |-> "idle", round |-> 1, attempt |-> 0, sid |-> NoSession,
        reply |-> "none", fresh |-> NoSession, result |-> "none"]]
  /\ disturbed = {}

Request(c, pc, sid, round) ==
  calls' = [calls EXCEPT ![c].pc = pc, ![c].sid = sid, ![c].round = round,
                         ![c].attempt = 0, ![c].reply = "none", ![c].fresh = NoSession]

\* A write of sessionId takes it from the second attempts of other callers.
SetSession(c, id) ==
  /\ sessionId' = id
  /\ disturbed' = disturbed \union
       {d \in Callers \ {c} : calls[d].round = 2 /\ calls[d].pc \in {"initialize", "notify", "tool"}}

-----------------------------------------------------------------------------
(* callTool.                                                               *)

\* ensureSession: the session of the field, or an initialize.
CallTool(c) ==
  /\ calls[c].pc = "idle"
  /\ IF sessionId # NoSession THEN Request(c, "tool", sessionId, 1)
                              ELSE Request(c, "initialize", NoSession, 1)
  /\ UNCHANGED <<sessionId, issued, held, ready, stateful, disturbed>>

Answered(c) == calls[c].pc \notin {"idle", "done"} /\ calls[c].reply # "none"

\* Defective variant: one attempt too many.
RetryRequestOnceMore(c) ==
  /\ Answered(c) /\ Retryable(calls[c].reply) /\ calls[c].attempt <= Retries
  /\ calls' = [calls EXCEPT ![c].attempt = @ + 1, ![c].reply = "none"]
  /\ UNCHANGED <<sessionId, issued, held, ready, stateful, disturbed>>

\* Defective variant: the attempts are not counted.
RetryRequestForever(c) ==
  /\ Answered(c) /\ Retryable(calls[c].reply)
  /\ calls' = [calls EXCEPT ![c].reply = "none"]
  /\ UNCHANGED <<sessionId, issued, held, ready, stateful, disturbed>>

\* The delay has passed: the same request, with the same session id.
RetryRequest(c) ==
  /\ Answered(c) /\ Retryable(calls[c].reply) /\ calls[c].attempt < Retries
  /\ calls' = [calls EXCEPT ![c].attempt = @ + 1, ![c].reply = "none"]
  /\ UNCHANGED <<sessionId, issued, held, ready, stateful, disturbed>>

Initialized(c) ==
  /\ Answered(c) /\ calls[c].pc = "initialize" /\ calls[c].reply = "ok"
  /\ SetSession(c, calls[c].fresh)
  /\ Request(c, "notify", calls[c].fresh, calls[c].round)
  /\ UNCHANGED <<issued, held, ready, stateful>>

\* ensureSession returns the field as it is now, not the id it opened.
Notified(c) ==
  /\ Answered(c) /\ calls[c].pc = "notify" /\ calls[c].reply = "ok"
  /\ Request(c, "tool", sessionId, calls[c].round)
  /\ UNCHANGED <<sessionId, issued, held, ready, stateful, disturbed>>

\* Defective variant: the second attempt keeps the session that was refused.
RenewWithoutReset(c) ==
  /\ Answered(c) /\ IsSessionError(calls[c].reply) /\ calls[c].round = 1
  /\ IF sessionId # NoSession THEN Request(c, "tool", sessionId, 2)
                              ELSE Request(c, "initialize", NoSession, 2)
  /\ UNCHANGED <<sessionId, issued, held, ready, stateful, disturbed>>

\* A session error of the first attempt: the field is reset, whatever it
\* holds by now, and the second attempt finds it empty in the same tick.
Renew(c) ==
  /\ Answered(c) /\ IsSessionError(calls[c].reply) /\ calls[c].round = 1
  /\ SetSession(c, NoSession)
  /\ Request(c, "initialize", NoSession, 2)
  /\ UNCHANGED <<issued, held, ready, stateful>>

\* The last retry, a second session error, any other error, or the result.
Finish(c) ==
  /\ Answered(c)
  /\ \/ calls[c].pc = "tool" /\ calls[c].reply = "ok"
     \/ calls[c].reply = "failed"
     \/ IsSessionError(calls[c].reply) /\ calls[c].round = 2
     \/ Retryable(calls[c].reply) /\ calls[c].attempt = Retries
  /\ calls' = [calls EXCEPT ![c].pc = "done", ![c].result = calls[c].reply, ![c].sid = NoSession,
                            ![c].reply = "none", ![c].attempt = 0, ![c].round = 1]
  /\ UNCHANGED <<sessionId, issued, held, ready, stateful, disturbed>>

-----------------------------------------------------------------------------
(* The server.                                                             *)

Outstanding(c) == calls[c].pc \notin {"idle", "done"} /\ calls[c].reply = "none"

\* The answer arrives, or is lost after the request was carried out.
Reply(c, reply, fresh) ==
  \E r \in {reply, "unavailable"} :
    calls' = [calls EXCEPT ![c].reply = r, ![c].fresh = IF r = "ok" THEN fresh ELSE @]

OpenSession(c) ==
  /\ Outstanding(c) /\ calls[c].pc = "initialize"
  /\ IF stateful
       THEN /\ issued < MaxSessions
            /\ issued' = issued + 1 /\ held' = held \union {issued'}
            /\ Reply(c, "ok", issued')
       ELSE Reply(c, "ok", NoSession) /\ UNCHANGED <<issued, held>>
  /\ UNCHANGED <<sessionId, ready, stateful, disturbed>>

SessionReady(c) ==
  /\ Outstanding(c) /\ calls[c].pc = "notify"
  /\ IF stateful /\ calls[c].sid \notin held
       THEN Reply(c, "rejected", NoSession) /\ UNCHANGED ready
       ELSE /\ ready' = IF stateful THEN ready \union {calls[c].sid} ELSE ready
            /\ Reply(c, "ok", NoSession)
  /\ UNCHANGED <<sessionId, issued, held, stateful, disturbed>>

\* A tool needs a session that is held; some servers also want it ready.
RunTool(c) ==
  /\ Outstanding(c) /\ calls[c].pc = "tool"
  /\ \/ (stateful => calls[c].sid \in held) /\ Reply(c, "ok", NoSession)
     \/ stateful /\ calls[c].sid \notin ready /\ Reply(c, "rejected", NoSession)
  /\ UNCHANGED <<sessionId, issued, held, ready, stateful, disturbed>>

\* An answer that has nothing to do with sessions; nothing was carried out.
Trouble(c) ==
  /\ Outstanding(c)
  /\ Reply(c, "failed", NoSession)
  /\ UNCHANGED <<sessionId, issued, held, ready, stateful, disturbed>>

Discard(s) ==
  /\ s \in held /\ issued - Cardinality(held) < MaxDiscards
  /\ held' = held \ {s} /\ ready' = ready \ {s}
  /\ disturbed' = disturbed \union
       {d \in Callers : calls[d].round = 2 /\ s \in {calls[d].sid, calls[d].fresh}}
  /\ UNCHANGED <<sessionId, issued, stateful, calls>>

-----------------------------------------------------------------------------
ClientStep(c) ==
  \/ RetryRequest(c) \/ Initialized(c) \/ Notified(c) \/ Renew(c) \/ Finish(c)
ServerStep(c) ==
  \/ OpenSession(c) \/ SessionReady(c) \/ RunTool(c) \/ Trouble(c)

Next ==
  \/ \E c \in Callers : CallTool(c) \/ ClientStep(c) \/ ServerStep(c)
  \/ \E s \in Sessions : Discard(s)

\* Every request is answered or times out, and the event loop goes on.
Fairness == \A c \in Callers : WF_vars(ClientStep(c)) /\ WF_vars(ServerStep(c))

Spec == Init /\ [][Next]_vars /\ Fairness

-----------------------------------------------------------------------------
\* Every variable has its type.
TypeOK ==
  /\ sessionId \in Sessions \union {NoSession}
  /\ issued \in 0..MaxSessions /\ held \subseteq 1..issued /\ ready \subseteq held
  /\ stateful \in BOOLEAN
  /\ calls \in [Callers -> Call]
  /\ disturbed \subseteq Callers

\* "Sessions are re-established transparently when the server discards them":
\* a call fails with a session error only when, during its second attempt, the
\* server discarded its session again or another caller of the same client
\* reset or replaced the shared sessionId.
SessionErrorsAreExplained ==
  \A c \in Callers : calls[c].result = "rejected" => c \in disturbed

\* A tool call ends, whatever the server does.
CallsEnd == \A c \in Callers : (calls[c].pc # "idle") ~> (calls[c].pc = "done")
=============================================================================
