------------------------- MODULE AssistantLlmBudget -------------------------
(***************************************************************************)
(* The budget of SORA's language-model calls. Every request that needs a   *)
(* model reserves one call, first against the counter of the UTC day and   *)
(* then against the counter of the month, each in one atomic upsert; the   *)
(* request then calls the Python agent, or the primary model and, when its *)
(* answer is poor, reserves a second call for the OpenAI fallback.         *)
(* Requests interleave at every await; the clock may pass midnight between *)
(* any two of them.                                                        *)
(***************************************************************************)
EXTENDS Integers, FiniteSets

CONSTANTS
  Requests,       \* concurrently handled requests
  Configs,        \* the configurations the process may be started with
  Retries,        \* retries of the POST to the Python agent
  MaxDay,         \* bound: the last day of the calendar
  Month,          \* the month each day of the calendar belongs to
  MaxReceived,    \* bound: requests received in all
  MaxFaults       \* bound: counter updates that fail

VARIABLES
  config,         \* the configuration, fixed at start
  today,          \* the current UTC day
  counters,       \* the counter rows, by period key
  requests,       \* requests[r]: where the request r stands
  calls,          \* history: provider calls made, by period of their reservation
  delivered,      \* history: agent runs started, by day of their reservation
  received,       \* number of requests received
  faults          \* number of counter updates that failed

vars == <<config, today, counters, requests, calls, delivered, received, faults>>

Days == 0..MaxDay
Periods == {"daily", "monthly"} \X Days

\* fallback: the OpenAI fallback is enabled and has a key. A limit of 0 disables
\* its check.
Config == [runtime : {"agent", "primary"}, fallback : BOOLEAN,
           daily : Nat, monthly : Nat]

ASSUME BudgetAssumption ==
  /\ IsFiniteSet(Requests)
  /\ Configs \subseteq Config
  /\ MaxDay \in Nat /\ Month \in [Days -> Days]
  /\ Retries \in Nat /\ MaxReceived \in Nat /\ MaxFaults \in Nat

\* stage: who is to answer. step: the budget check or the provider call awaited.
\* day: the `now` of the latest reservation. text: the primary model gave a text.
Request == [stage : {"agent", "primary", "fallback"},
            step : {"idle", "daily", "monthly", "call"},
            day : Days, text : BOOLEAN, attempt : 0..Retries,
            result : {"none", "agent", "primary", "fallback", "unavailable"}]

TypeOK ==
  /\ config \in Configs
  /\ today \in Days
  /\ counters \in [Periods -> Nat]
  /\ requests \in [Requests -> Request]
  /\ calls \in [Periods -> Nat]
  /\ delivered \in [Days -> Nat]
  /\ received \in Nat
  /\ faults \in Nat

NewRequest(stage, day) ==
  [stage |-> stage, step |-> "idle", day |-> day,
   text |-> FALSE, attempt |-> 0, result |-> "none"]

Init ==
  /\ config \in Configs
  /\ today = 0
  /\ counters = [k \in Periods |-> 0]
  /\ requests = [r \in Requests |-> NewRequest("primary", 0)]
  /\ calls = [k \in Periods |-> 0]
  /\ delivered = [d \in Days |-> 0]
  /\ received = 0
  /\ faults = 0

-----------------------------------------------------------------------------
\* The keys of the counters of a day, and the one a check increments.
DayKey(day) == <<"daily", day>>
MonthKey(day) == <<"monthly", Month[day]>>
Key(check, day) == IF check = "daily" THEN DayKey(day) ELSE MonthKey(day)
Limit(check) == IF check = "daily" THEN config.daily ELSE config.monthly

\* Defective variant: refuses the call that reaches the limit.
ExceedsEarly(count, limit) == count >= limit

Exceeds(count, limit) == count > limit

\* Defective variant: the month is charged before the day.
NextStepMonthFirst(done) ==
  IF done = "start" /\ config.monthly > 0 THEN "monthly"
  ELSE IF done # "daily" /\ config.daily > 0 THEN "daily" ELSE "call"

\* What a reservation awaits once `done` has passed.
NextStep(done) ==
  IF done = "start" /\ config.daily > 0 THEN "daily"
  ELSE IF done # "monthly" /\ config.monthly > 0 THEN "monthly" ELSE "call"

\* Defective variants: a failed fallback discards the primary text; a missing
\* primary text is answered as undefined.
DegradedToError(request) == "unavailable"
DegradedToUndefined(request) == IF request.text THEN "primary" ELSE "undefined"

\* The result when the fallback cannot answer.
Degraded(request) == IF request.text THEN "primary" ELSE "unavailable"

-----------------------------------------------------------------------------
\* The request moves on; once its reservation is complete it calls its provider.
Proceed(r, request, step) ==
  /\ requests' = [requests EXCEPT ![r] = [request EXCEPT !.step = step]]
  /\ calls' = [k \in Periods |->
       IF step = "call" /\ k \in {DayKey(request.day), MonthKey(request.day)}
       THEN calls[k] + 1 ELSE calls[k]]

Finish(r, result) ==
  /\ requests' = [requests EXCEPT ![r].step = "idle", ![r].result = result]
  /\ UNCHANGED calls

\* External: the clock. The months of a calendar need not be equally long.
NextDay ==
  /\ today < MaxDay
  /\ today' = today + 1
  /\ UNCHANGED <<config, counters, requests, calls, delivered, received, faults>>

\* generateLayeredResponse: the configured runtime reserves its first call.
Receive(r) ==
  /\ requests[r].step = "idle"
  /\ received < MaxReceived
  /\ received' = received + 1
  /\ Proceed(r, NewRequest(config.runtime, today), NextStep("start"))
  /\ UNCHANGED <<config, today, counters, delivered, faults>>

Increment(key) == counters' = [counters EXCEPT ![key] = @ + 1]

Checking(r) == requests[r].step \in {"daily", "monthly"}

Count(r) == counters[Key(requests[r].step, requests[r].day)] + 1

Admit(r) ==
  /\ Checking(r)
  /\ ~Exceeds(Count(r), Limit(requests[r].step))
  /\ Increment(Key(requests[r].step, requests[r].day))
  /\ Proceed(r, requests[r], NextStep(requests[r].step))
  /\ UNCHANGED <<config, today, delivered, received, faults>>

\* Fails closed: no caller of reserveCall catches its exception.
Refuse(r) ==
  /\ Checking(r)
  /\ Exceeds(Count(r), Limit(requests[r].step))
  /\ Increment(Key(requests[r].step, requests[r].day))
  /\ Finish(r, "unavailable")
  /\ UNCHANGED <<config, today, delivered, received, faults>>

\* The upsert fails, before or after the database applied it.
FailCheck(r) ==
  /\ Checking(r)
  /\ faults < MaxFaults
  /\ faults' = faults + 1
  /\ \/ Increment(Key(requests[r].step, requests[r].day))
     \/ UNCHANGED counters
  /\ Finish(r, "unavailable")
  /\ UNCHANGED <<config, today, delivered, received>>

-----------------------------------------------------------------------------
Calling(r, stage) == requests[r].step = "call" /\ requests[r].stage = stage

Run(r) == delivered' = [delivered EXCEPT ![requests[r].day] = @ + 1]

AgentAnswers(r) ==
  /\ Calling(r, "agent")
  /\ Run(r)
  /\ Finish(r, "agent")
  /\ UNCHANGED <<config, today, counters, received, faults>>

\* A client error, or an answer that breaks the contract.
AgentFails(r) ==
  /\ Calling(r, "agent")
  /\ Run(r) \/ UNCHANGED delivered
  /\ Finish(r, "unavailable")
  /\ UNCHANGED <<config, today, counters, received, faults>>

\* Defective variant: the attempts start over when they are used up. (The agent
\* never gets the POST.)
AgentTimesOutForever(r) ==
  /\ Calling(r, "agent")
  /\ requests' = [requests EXCEPT ![r].attempt = IF @ < Retries THEN @ + 1 ELSE 0]
  /\ UNCHANGED <<config, today, counters, calls, delivered, received, faults>>

\* A timeout, a network error, a 429 or a server error: executeWithRetry sends
\* the POST again while it has retries, whether or not the agent got the first.
AgentTimesOut(r) ==
  /\ Calling(r, "agent")
  /\ Run(r) \/ UNCHANGED delivered
  /\ IF requests[r].attempt < Retries
     THEN /\ requests' = [requests EXCEPT ![r].attempt = @ + 1]
          /\ UNCHANGED calls
     ELSE Finish(r, "unavailable")
  /\ UNCHANGED <<config, today, counters, received, faults>>

-----------------------------------------------------------------------------
\* Defective variant: the fallback calls OpenAI on the primary's reservation.
FallbackUnreserved(r, text) ==
  LET request == [requests[r] EXCEPT !.stage = "fallback", !.text = text]
  IN IF config.fallback THEN Proceed(r, request, "call")
     ELSE Finish(r, Degraded(request))

\* generateFallback, up to its first await.
Fallback(r, text) ==
  LET request == [requests[r] EXCEPT !.text = text]
  IN IF config.fallback
     THEN Proceed(r, [request EXCEPT !.stage = "fallback", !.day = today],
                  NextStep("start"))
     ELSE /\ requests' = [requests EXCEPT
               ![r] = [request EXCEPT !.step = "idle", !.result = Degraded(request)]]
          /\ UNCHANGED calls

PrimaryAnswers(r) ==
  /\ Calling(r, "primary")
  /\ Finish(r, "primary")
  /\ UNCHANGED <<config, today, counters, delivered, received, faults>>

\* The text is blocked by the guardrails or of low confidence.
PrimaryIsPoor(r) ==
  /\ Calling(r, "primary")
  /\ Fallback(r, TRUE)
  /\ UNCHANGED <<config, today, counters, delivered, received, faults>>

PrimaryFails(r) ==
  /\ Calling(r, "primary")
  /\ Fallback(r, FALSE)
  /\ UNCHANGED <<config, today, counters, delivered, received, faults>>

FallbackAnswers(r) ==
  /\ Calling(r, "fallback")
  /\ Finish(r, "fallback")
  /\ UNCHANGED <<config, today, counters, delivered, received, faults>>

FallbackFails(r) ==
  /\ Calling(r, "fallback")
  /\ Finish(r, Degraded(requests[r]))
  /\ UNCHANGED <<config, today, counters, delivered, received, faults>>

-----------------------------------------------------------------------------
Handle(r) ==
  \/ Admit(r) \/ Refuse(r) \/ FailCheck(r)
  \/ AgentAnswers(r) \/ AgentFails(r) \/ AgentTimesOut(r)
  \/ PrimaryAnswers(r) \/ PrimaryIsPoor(r) \/ PrimaryFails(r)
  \/ FallbackAnswers(r) \/ FallbackFails(r)

Next == NextDay \/ \E r \in Requests : Receive(r) \/ Handle(r)

Spec == Init /\ [][Next]_vars

\* Every await settles: the database, the HTTP timeouts and the SDK's timeout.
FairSpec == Spec /\ \A r \in Requests : WF_vars(Handle(r))

-----------------------------------------------------------------------------
\* However requests interleave, no more provider calls are made on the
\* reservations of a day or of a month than its limit allows, the OpenAI
\* fallbacks included (reserveCall); and what the retries of a POST may run of
\* the agent beyond that is one run each (executeWithRetry).
WithinBudget ==
  \A d \in Days :
    /\ config.daily > 0 => calls[DayKey(d)] <= config.daily
    /\ config.monthly > 0 => calls[MonthKey(d)] <= config.monthly
    /\ delivered[d] <= (Retries + 1) * calls[DayKey(d)]

\* Refused requests do not use up the month: its counter passes the limit only
\* when that many calls were made, but for failed updates. It is why reserveCall
\* checks the day before it charges the month.
MonthIsUsable ==
  \A d \in Days :
    config.monthly > 0 /\ counters[MonthKey(d)] > config.monthly
      => calls[MonthKey(d)] + faults >= config.monthly

Pending(d) == {r \in Requests : requests[r].step = "monthly" /\ requests[r].day = d}

\* A day's counter passes its limit only when that many calls were made or are
\* being reserved, but for failed updates, unless the month is used up as well.
DayIsUsable ==
  \A d \in Days :
    config.daily > 0 /\ counters[DayKey(d)] > config.daily
      => \/ calls[DayKey(d)] + Cardinality(Pending(d)) + faults >= config.daily
         \/ config.monthly > 0 /\ counters[MonthKey(d)] > config.monthly

\* A request that has a text of the primary model ends without an answer only
\* because the reservation of its fallback was refused or failed.
NoAnswerDiscarded ==
  \A r \in Requests :
    requests[r].text /\ requests[r].result = "unavailable"
      => \/ faults > 0
         \/ config.daily > 0 /\ counters[DayKey(requests[r].day)] > config.daily
         \/ config.monthly > 0 /\ counters[MonthKey(requests[r].day)] > config.monthly

\* Every request ends, whatever its providers do: the POST to the agent is
\* retried a bounded number of times (executeWithRetry).
EveryRequestEnds ==
  \A r \in Requests : requests[r].step # "idle" ~> requests[r].step = "idle"

\* The configuration's comment: the limit is the "maximum LLM calls accepted per
\* UTC day". Violated: a POST that timed out is sent again on one reservation,
\* and each copy is a run of the agent.
AgentRunsWithinBudget ==
  \A d \in Days : config.daily > 0 => delivered[d] <= config.daily
=============================================================================
