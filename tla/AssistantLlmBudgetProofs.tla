---------------------- MODULE AssistantLlmBudgetProofs ----------------------
(***************************************************************************)
(* For every number of requests, every limit and every calendar: the       *)
(* budget is never exceeded and is never lost to refused requests. The     *)
(* inductive invariant is an account per day and per month: what the       *)
(* counter says, what was called and what is still being reserved; and, for*)
(* the agent's runs, the POSTs its reservations may still send.            *)
(***************************************************************************)
EXTENDS AssistantLlmBudget, FiniteSetTheorems, TLAPS

Reserved(d) == calls[DayKey(d)] + Cardinality(Pending(d))

\* The month of d is used up: requests that paid for the day are refused.
MonthSpent(d) == config.monthly > 0 /\ counters[MonthKey(d)] > config.monthly

\* used: calls made or being reserved on a counter of value count. They are
\* within the limit, and the counter passes the limit for want of calls only by
\* lost updates, or when what was reserved is refused later (spent).
Figures(limit, used, count, lost, spent) ==
  /\ used <= count
  /\ used <= limit
  /\ count <= used + lost \/ limit <= used + lost \/ spent

DayAccount(d) ==
  config.daily > 0 =>
    Figures(config.daily, Reserved(d), counters[DayKey(d)], faults, MonthSpent(d))

MonthAccount(m) ==
  config.monthly > 0 =>
    Figures(config.monthly, calls[<<"monthly", m>>], counters[<<"monthly", m>>],
            faults, FALSE)

\* Only an enabled check is awaited, only the fallback holds a text, and an
\* unfinished request has no result.
StepsAreEnabled ==
  \A r \in Requests :
    /\ requests[r].step = "daily" => config.daily > 0
    /\ requests[r].step = "monthly" => config.monthly > 0
    /\ requests[r].step # "idle" /\ requests[r].stage # "fallback"
         => ~requests[r].text
    /\ requests[r].step # "idle" => requests[r].result = "none"

Inv ==
  /\ TypeOK
  /\ StepsAreEnabled
  /\ NoAnswerDiscarded
  /\ \A d \in Days : DayAccount(d) /\ MonthAccount(d)

-----------------------------------------------------------------------------
\* The counter keys are periods, and days and months share none.
LEMMA KeyFacts ==
  ASSUME NEW d \in Days, NEW e \in Days
  PROVE  /\ DayKey(d) \in Periods /\ MonthKey(d) \in Periods
         /\ MonthKey(d) = <<"monthly", Month[d]>> /\ Month[d] \in Days
         /\ DayKey(d) # <<"monthly", e>>
         /\ DayKey(d) = DayKey(e) => d = e
         /\ 0 \in Days
BY BudgetAssumption DEF DayKey, MonthKey, Periods, Days

\* A reservation awaits an enabled check, and calls once none is left.
LEMMA NextStepFacts ==
  ASSUME TypeOK, NEW done \in {"start", "daily", "monthly"}
  PROVE  /\ NextStep(done) \in {"daily", "monthly", "call"}
         /\ NextStep(done) = "daily" => done = "start" /\ config.daily > 0
         /\ NextStep(done) = "monthly" => done # "monthly" /\ config.monthly > 0
         /\ NextStep(done) = "call" => ~(done = "start" /\ config.daily > 0)
         /\ NextStep(done) = "call" => ~(done # "monthly" /\ config.monthly > 0)
         /\ NextStep("start") = "monthly" => ~(config.daily > 0)
<1>1. config.daily \in Nat /\ config.monthly \in Nat
  BY BudgetAssumption DEF TypeOK, Config
<1>2. QED
  BY <1>1 DEF NextStep

Bit(b) == IF b THEN 1 ELSE 0

LEMMA NoBit == \A x \in Nat : x + Bit(FALSE) = x
BY DEF Bit

IsPending(request, d) == request.step = "monthly" /\ request.day = d

\* Moving one request on changes the pending set by that request alone.
LEMMA PendingMove ==
  ASSUME TypeOK, NEW r \in Requests, NEW new, NEW d \in Days,
         requests' = [requests EXCEPT ![r] = new]
  PROVE  /\ Cardinality(Pending(d)) \in Nat
         /\ Cardinality(Pending(d))' \in Nat
         /\ Cardinality(Pending(d))' = Cardinality(Pending(d))
              + Bit(IsPending(new, d)) - Bit(IsPending(requests[r], d))
<1>1. IsFiniteSet(Pending(d)) /\ Pending(d) \subseteq Requests
  BY FS_Subset, BudgetAssumption DEF Pending
<1>2. Cardinality(Pending(d)) \in Nat
  BY <1>1, FS_CardinalityType
<1>3. \A q \in Requests : requests'[q] = IF q = r THEN new ELSE requests[q]
  BY DEF TypeOK
<1>4. Pending(d)' = {q \in Requests : IsPending(requests'[q], d)}
  BY DEF Pending, IsPending
<1>5. Pending(d) = {q \in Requests : IsPending(requests[q], d)}
  BY DEF Pending, IsPending
<1>6. Cardinality(Pending(d))' = Cardinality(Pending(d)')
  OBVIOUS
<1>7. CASE IsPending(new, d) /\ ~IsPending(requests[r], d)
  <2>1. Pending(d)' = Pending(d) \cup {r} /\ r \notin Pending(d)
    BY <1>3, <1>4, <1>5, <1>7
  <2>2. Cardinality(Pending(d)') = Cardinality(Pending(d)) + 1
    BY <2>1, <1>1, FS_AddElement
  <2>3. QED BY <2>2, <1>2, <1>6, <1>7 DEF Bit
<1>8. CASE ~IsPending(new, d) /\ IsPending(requests[r], d)
  <2>1. Pending(d)' = Pending(d) \ {r} /\ r \in Pending(d)
    BY <1>3, <1>4, <1>5, <1>8
  <2>2. Cardinality(Pending(d)') = Cardinality(Pending(d)) - 1
    BY <2>1, <1>1, FS_RemoveElement
  <2>3. Cardinality(Pending(d)') \in Nat
    BY <2>1, <1>1, FS_Subset, FS_CardinalityType
  <2>4. QED BY <2>2, <2>3, <1>2, <1>6, <1>8 DEF Bit
<1>9. CASE IsPending(new, d) <=> IsPending(requests[r], d)
  <2>1. Pending(d)' = Pending(d)
    BY <1>3, <1>4, <1>5, <1>9
  <2>2. Bit(IsPending(new, d)) = Bit(IsPending(requests[r], d))
        /\ Bit(IsPending(new, d)) \in Int
    BY <1>9 DEF Bit
  <2>3. QED BY <2>1, <2>2, <1>2, <1>6
<1>10. QED BY <1>7, <1>8, <1>9

-----------------------------------------------------------------------------
\* What Proceed writes: the request with its new step, and the call it makes.
LEMMA ProceedFacts ==
  ASSUME TypeOK, NEW r \in Requests, NEW request \in Request,
         NEW step \in {"idle", "daily", "monthly", "call"},
         Proceed(r, request, step)
  PROVE  /\ [request EXCEPT !.step = step] \in Request
         /\ requests' = [requests EXCEPT ![r] = [request EXCEPT !.step = step]]
         /\ requests' \in [Requests -> Request]
         /\ calls' \in [Periods -> Nat]
         /\ \A k \in Periods : calls'[k] =
              calls[k] + Bit(step = "call" /\ k \in {DayKey(request.day), MonthKey(request.day)})
<1>1. [request EXCEPT !.step = step] \in Request
  BY DEF Request
<1>2. requests' \in [Requests -> Request]
  BY <1>1 DEF Proceed, TypeOK
<1>3. ASSUME NEW k \in Periods
      PROVE  calls'[k] = calls[k]
               + Bit(step = "call" /\ k \in {DayKey(request.day), MonthKey(request.day)})
  <2>1. calls[k] \in Nat
    BY <1>3 DEF TypeOK
  <2>2. QED BY <1>3, <2>1 DEF Proceed, Bit
<1>4. calls' \in [Periods -> Nat]
  BY DEF Proceed, TypeOK
<1>5. QED BY <1>1, <1>2, <1>3, <1>4 DEF Proceed

\* What Finish writes: the request with its result, and no call.
LEMMA FinishFacts ==
  ASSUME TypeOK, NEW r \in Requests,
         NEW result \in {"agent", "primary", "fallback", "unavailable"},
         Finish(r, result)
  PROVE  LET new == [requests[r] EXCEPT !.step = "idle", !.result = result]
         IN  /\ new \in Request
             /\ requests' = [requests EXCEPT ![r] = new]
             /\ requests' \in [Requests -> Request]
             /\ calls' = calls
<1> DEFINE new == [requests[r] EXCEPT !.step = "idle", !.result = result]
<1>1. requests[r] \in Request
  BY DEF TypeOK
<1>2. new \in Request
  BY <1>1 DEF Request
<1>3. requests' = [requests EXCEPT ![r] = new]
  BY DEF Finish, TypeOK
<1>4. QED BY <1>2, <1>3 DEF Finish, TypeOK

\* Fallback either reserves its own call, or ends the request.
LEMMA FallbackFacts ==
  ASSUME TypeOK, NEW r \in Requests, NEW text \in BOOLEAN, Fallback(r, text)
  PROVE  LET request == [requests[r] EXCEPT !.text = text]
             reserving == [request EXCEPT !.stage = "fallback", !.day = today]
             ended == [request EXCEPT !.step = "idle", !.result = Degraded(request)]
         IN  /\ reserving \in Request /\ ended \in Request
             /\ \/ Proceed(r, reserving, NextStep("start"))
                \/ requests' = [requests EXCEPT ![r] = ended] /\ calls' = calls
<1> DEFINE request == [requests[r] EXCEPT !.text = text]
<1>1. request \in Request /\ request.text = text
  BY DEF TypeOK, Request
<1>2. Degraded(request) \in {"primary", "unavailable"}
  BY DEF Degraded
<1>3. [request EXCEPT !.stage = "fallback", !.day = today] \in Request
  BY <1>1 DEF Request, TypeOK
<1>4. [request EXCEPT !.step = "idle", !.result = Degraded(request)] \in Request
  BY <1>1, <1>2 DEF Request
<1>5. QED BY <1>3, <1>4 DEF Fallback

\* The key a check increments is a period.
LEMMA CheckFacts ==
  ASSUME TypeOK, NEW r \in Requests, Checking(r)
  PROVE  /\ requests[r].day \in Days
         /\ Key(requests[r].step, requests[r].day) \in Periods
         /\ Count(r) = counters[Key(requests[r].step, requests[r].day)] + 1
<1>1. requests[r].day \in Days
  BY DEF TypeOK, Request
<1>2. QED BY <1>1, KeyFacts DEF Key, Count

\* An increment adds one to the counter of the check, to no other.
LEMMA IncrementFacts ==
  ASSUME TypeOK, NEW r \in Requests, Checking(r),
         Increment(Key(requests[r].step, requests[r].day))
  PROVE  /\ counters' \in [Periods -> Nat]
         /\ \A k \in Periods : counters'[k] =
              counters[k] + Bit(k = Key(requests[r].step, requests[r].day))
<1> DEFINE key == Key(requests[r].step, requests[r].day)
<1>1. key \in Periods
  BY CheckFacts
<1>2. counters' = [counters EXCEPT ![key] = @ + 1]
  BY DEF Increment
<1> HIDE DEF key
<1>3. \A k \in Periods : counters[k] \in Nat
  BY DEF TypeOK
<1>4. \A k \in Periods : counters'[k] = counters[k] + Bit(k = key)
  BY <1>1, <1>2, <1>3 DEF TypeOK, Bit
<1>5. counters' \in [Periods -> Nat]
  BY <1>1, <1>2, <1>3 DEF TypeOK
<1>6. QED BY <1>4, <1>5 DEF key

\* A run of the agent, or none, keeps the history well-typed.
LEMMA RunFacts ==
  ASSUME TypeOK, NEW r \in Requests, Run(r) \/ UNCHANGED delivered
  PROVE  delivered' \in [Days -> Nat]
<1>1. requests[r].day \in Days
  BY DEF TypeOK, Request
<1>2. QED BY <1>1 DEF Run, TypeOK

\* TypeOK is inductive: no handler writes a malformed request or counter.
LEMMA TypeInvariant == Spec => []TypeOK
<1>1. Init => TypeOK
  BY BudgetAssumption DEF Init, TypeOK, NewRequest, Request, Days
<1>2. TypeOK /\ [Next]_vars => TypeOK'
  <2> SUFFICES ASSUME TypeOK, [Next]_vars PROVE TypeOK'
    OBVIOUS
  <2>1. CASE NextDay
    BY <2>1, BudgetAssumption DEF NextDay, TypeOK, Days
  <2>2. ASSUME NEW r \in Requests, Receive(r) PROVE TypeOK'
    <3> DEFINE request == NewRequest(config.runtime, today)
    <3>5. config.runtime \in {"agent", "primary", "fallback"}
      BY BudgetAssumption DEF TypeOK, Config
    <3>6. 0 \in 0..Retries
      BY BudgetAssumption
    <3>7. request \in Request
      BY <3>5, <3>6 DEF NewRequest, Request, TypeOK
    <3> HIDE DEF request
    <3>2. NextStep("start") \in {"idle", "daily", "monthly", "call"}
      BY NextStepFacts
    <3>3. Proceed(r, request, NextStep("start"))
      BY <2>2 DEF Receive, request
    <3>4. requests' \in [Requests -> Request] /\ calls' \in [Periods -> Nat]
      BY <3>7, <3>2, <3>3, ProceedFacts
    <3>8. QED BY <3>4, <2>2 DEF Receive, TypeOK
  <2>3. ASSUME NEW r \in Requests, Admit(r) PROVE TypeOK'
    <3>1. requests[r] \in Request /\ requests[r].step \in {"start", "daily", "monthly"}
      BY <2>3 DEF TypeOK, Admit, Checking
    <3>2. NextStep(requests[r].step) \in {"idle", "daily", "monthly", "call"}
      BY <3>1, NextStepFacts
    <3>3. Proceed(r, requests[r], NextStep(requests[r].step))
      BY <2>3 DEF Admit
    <3>4. requests' \in [Requests -> Request] /\ calls' \in [Periods -> Nat]
      BY <3>1, <3>2, <3>3, ProceedFacts
    <3>5. counters' \in [Periods -> Nat]
      BY <2>3, IncrementFacts DEF Admit
    <3>6. QED BY <3>4, <3>5, <2>3 DEF Admit, TypeOK
  <2>4. ASSUME NEW r \in Requests, Refuse(r) PROVE TypeOK'
    <3>1. Finish(r, "unavailable") BY <2>4 DEF Refuse
    <3>2. requests' \in [Requests -> Request] /\ calls' = calls BY <3>1, FinishFacts
    <3>3. counters' \in [Periods -> Nat] BY <2>4, IncrementFacts DEF Refuse
    <3>4. QED BY <3>2, <3>3, <2>4 DEF Refuse, TypeOK
  <2>5. ASSUME NEW r \in Requests, FailCheck(r) PROVE TypeOK'
    <3>1. Finish(r, "unavailable") BY <2>5 DEF FailCheck
    <3>2. requests' \in [Requests -> Request] /\ calls' = calls BY <3>1, FinishFacts
    <3>3. counters' \in [Periods -> Nat]
      <4>1. Checking(r) BY <2>5 DEF FailCheck
      <4>2. CASE Increment(Key(requests[r].step, requests[r].day))
        BY <4>1, <4>2, IncrementFacts
      <4>3. CASE UNCHANGED counters BY <4>3 DEF TypeOK
      <4>4. QED BY <4>2, <4>3, <2>5 DEF FailCheck
    <3>4. faults' \in Nat BY <2>5 DEF FailCheck, TypeOK
    <3>5. QED BY <3>2, <3>3, <3>4, <2>5 DEF FailCheck, TypeOK
  <2>6. ASSUME NEW r \in Requests, AgentAnswers(r) PROVE TypeOK'
    <3>1. Finish(r, "agent") BY <2>6 DEF AgentAnswers
    <3>2. requests' \in [Requests -> Request] /\ calls' = calls BY <3>1, FinishFacts
    <3>3. delivered' \in [Days -> Nat] BY <2>6, RunFacts DEF AgentAnswers
    <3>4. QED BY <3>2, <3>3, <2>6 DEF AgentAnswers, TypeOK
  <2>7. ASSUME NEW r \in Requests, AgentFails(r) PROVE TypeOK'
    <3>1. Finish(r, "unavailable") BY <2>7 DEF AgentFails
    <3>2. requests' \in [Requests -> Request] /\ calls' = calls BY <3>1, FinishFacts
    <3>3. delivered' \in [Days -> Nat] BY <2>7, RunFacts DEF AgentFails
    <3>4. QED BY <3>2, <3>3, <2>7 DEF AgentFails, TypeOK
  <2>8. ASSUME NEW r \in Requests, AgentTimesOut(r) PROVE TypeOK'
    <3>1. requests' \in [Requests -> Request] /\ calls' = calls
      <4>1. CASE requests[r].attempt < Retries
        <5>1. requests[r] \in Request BY DEF TypeOK
        <5>2. requests[r].attempt + 1 \in 0..Retries
          BY <4>1, <5>1, BudgetAssumption DEF Request
        <5>3. [requests[r] EXCEPT !.attempt = @ + 1] \in Request
          BY <5>1, <5>2 DEF Request
        <5>4. requests' = [requests EXCEPT ![r] = [requests[r] EXCEPT !.attempt = @ + 1]]
          BY <2>8, <4>1 DEF AgentTimesOut
        <5>5. QED BY <2>8, <4>1, <5>3, <5>4 DEF AgentTimesOut, TypeOK
      <4>2. CASE ~(requests[r].attempt < Retries)
        <5>1. Finish(r, "unavailable") BY <2>8, <4>2 DEF AgentTimesOut
        <5>2. QED BY <5>1, FinishFacts
      <4>3. QED BY <4>1, <4>2
    <3>2. delivered' \in [Days -> Nat] BY <2>8, RunFacts DEF AgentTimesOut
    <3>3. QED BY <3>1, <3>2, <2>8 DEF AgentTimesOut, TypeOK
  <2>9. ASSUME NEW r \in Requests, PrimaryAnswers(r) PROVE TypeOK'
    <3>1. Finish(r, "primary") BY <2>9 DEF PrimaryAnswers
    <3>2. requests' \in [Requests -> Request] /\ calls' = calls BY <3>1, FinishFacts
    <3>3. QED BY <3>2, <2>9 DEF PrimaryAnswers, TypeOK
  <2>10. ASSUME NEW r \in Requests, NEW text \in BOOLEAN, Fallback(r, text),
                UNCHANGED <<config, today, counters, delivered, received, faults>>
         PROVE  TypeOK'
    <3>1. NextStep("start") \in {"idle", "daily", "monthly", "call"}
      BY NextStepFacts
    <3>2. requests' \in [Requests -> Request] /\ calls' \in [Periods -> Nat]
      BY <2>10, <3>1, FallbackFacts, ProceedFacts DEF TypeOK
    <3>3. QED BY <3>2, <2>10 DEF TypeOK
  <2>11. ASSUME NEW r \in Requests, FallbackAnswers(r) PROVE TypeOK'
    <3>1. Finish(r, "fallback") BY <2>11 DEF FallbackAnswers
    <3>2. requests' \in [Requests -> Request] /\ calls' = calls BY <3>1, FinishFacts
    <3>3. QED BY <3>2, <2>11 DEF FallbackAnswers, TypeOK
  <2>12. ASSUME NEW r \in Requests, FallbackFails(r) PROVE TypeOK'
    <3>1. Finish(r, Degraded(requests[r])) BY <2>12 DEF FallbackFails
    <3>2. Degraded(requests[r]) \in {"agent", "primary", "fallback", "unavailable"}
      BY DEF Degraded
    <3>3. requests' \in [Requests -> Request] /\ calls' = calls BY <3>1, <3>2, FinishFacts
    <3>4. QED BY <3>3, <2>12 DEF FallbackFails, TypeOK
  <2>13. CASE UNCHANGED vars
    BY <2>13 DEF vars, TypeOK
  <2>14. QED
    BY <2>1, <2>2, <2>3, <2>4, <2>5, <2>6, <2>7, <2>8, <2>9, <2>10, <2>11, <2>12, <2>13
    DEF Next, Handle, PrimaryIsPoor, PrimaryFails
<1>3. QED BY <1>1, <1>2, PTL DEF Spec

-----------------------------------------------------------------------------
\* The numbers an account is about are naturals, before and after a step.
LEMMA AccountTypes ==
  ASSUME TypeOK, NEW d \in Days
  PROVE  /\ calls[DayKey(d)] \in Nat /\ counters[DayKey(d)] \in Nat
         /\ calls[MonthKey(d)] \in Nat /\ counters[MonthKey(d)] \in Nat
         /\ calls[<<"monthly", d>>] \in Nat /\ counters[<<"monthly", d>>] \in Nat
         /\ Cardinality(Pending(d)) \in Nat /\ Reserved(d) \in Nat
         /\ faults \in Nat /\ config.daily \in Nat /\ config.monthly \in Nat
<1>1. DayKey(d) \in Periods /\ MonthKey(d) \in Periods /\ <<"monthly", d>> \in Periods
  BY KeyFacts DEF Periods
<1>2. Cardinality(Pending(d)) \in Nat
  BY FS_Subset, FS_CardinalityType, BudgetAssumption DEF Pending
<1>3. config.daily \in Nat /\ config.monthly \in Nat
  BY BudgetAssumption DEF TypeOK, Config
<1>4. QED BY <1>1, <1>2, <1>3 DEF TypeOK, Reserved

\* How the figures of a counter change: a check passes, is refused or fails,
\* and a reservation that passed this counter is refused or fails on the other.
LEMMA FiguresChange ==
  ASSUME NEW limit \in Nat, NEW used \in Nat, NEW count \in Nat, NEW lost \in Nat,
         NEW spent \in BOOLEAN, Figures(limit, used, count, lost, spent)
  PROVE  /\ count + 1 <= limit => Figures(limit, used + 1, count + 1, lost, spent)
         /\ count + 1 > limit => Figures(limit, used, count + 1, lost, spent)
         /\ Figures(limit, used, count + 1, lost + 1, spent)
         /\ Figures(limit, used, count, lost + 1, spent)
         /\ Figures(limit, used, count, lost, TRUE)
         /\ Figures(limit, used - 1, count, lost, TRUE)
         /\ Figures(limit, used - 1, count, lost + 1, spent)
BY DEF Figures

\* What a request that moves from `old` to `new` changes in a day's reservations.
LEMMA ReservedMove ==
  ASSUME TypeOK, NEW r \in Requests, NEW new, NEW d \in Days, NEW called \in BOOLEAN,
         requests' = [requests EXCEPT ![r] = new],
         calls'[DayKey(d)] = calls[DayKey(d)] + Bit(called)
  PROVE  LET was == IsPending(requests[r], d)
             is == IsPending(new, d)
         IN  /\ (is <=> was) /\ ~called => Reserved(d)' = Reserved(d)
             /\ ~is /\ was /\ called => Reserved(d)' = Reserved(d)
             /\ is /\ ~was /\ ~called => Reserved(d)' = Reserved(d) + 1
             /\ ~is /\ ~was /\ called => Reserved(d)' = Reserved(d) + 1
             /\ ~is /\ was /\ ~called => Reserved(d)' = Reserved(d) - 1
<1> DEFINE was == IsPending(requests[r], d)
           is == IsPending(new, d)
           c == calls[DayKey(d)]
           p == Cardinality(Pending(d))
<1>1. \A x, y \in Nat :
        /\ (x + 0) + (y + 0 - 0) = x + y /\ (x + 0) + (y + 1 - 1) = x + y
        /\ (x + 1) + (y + 0 - 1) = x + y /\ (x + 0) + (y + 1 - 0) = (x + y) + 1
        /\ (x + 1) + (y + 0 - 0) = (x + y) + 1 /\ (x + 0) + (y + 0 - 1) = (x + y) - 1
  OBVIOUS
<1>2. c \in Nat /\ p \in Nat
  BY AccountTypes
<1>3. Reserved(d) = c + p
  BY DEF Reserved
<1>4. Reserved(d)' = (c + Bit(called)) + (p + Bit(is) - Bit(was))
  BY PendingMove DEF Reserved, DayKey
<1> HIDE DEF is, was, c, p
<1>5. /\ is => Bit(is) = 1
      /\ ~is => Bit(is) = 0
      /\ was => Bit(was) = 1
      /\ ~was => Bit(was) = 0
      /\ called => Bit(called) = 1
      /\ ~called => Bit(called) = 0
  BY DEF Bit
<1>6. /\ (is <=> was) /\ ~called => Reserved(d)' = Reserved(d)
      /\ ~is /\ was /\ called => Reserved(d)' = Reserved(d)
      /\ is /\ ~was /\ ~called => Reserved(d)' = Reserved(d) + 1
      /\ ~is /\ ~was /\ called => Reserved(d)' = Reserved(d) + 1
      /\ ~is /\ was /\ ~called => Reserved(d)' = Reserved(d) - 1
  BY <1>1, <1>2, <1>3, <1>4, <1>5
<1>7. QED BY <1>6 DEF is, was

\* A step that charges no counter keeps the accounts: the request it moves was
\* not pending, and it becomes pending, or calls, only unchecked by the day (and
\* by the month).
LEMMA UnchargedAccounts ==
  ASSUME Inv, NEW r \in Requests, NEW new \in Request,
         requests' = [requests EXCEPT ![r] = new],
         config' = config, counters' = counters, faults' = faults,
         requests[r].step # "monthly",
         config.daily > 0 => new.step # "monthly",
         config.daily > 0 \/ config.monthly > 0 => calls' = calls
  PROVE  \A d \in Days : (DayAccount(d) /\ MonthAccount(d))'
<1> TAKE d \in Days
<1>1. DayAccount(d) /\ MonthAccount(d) /\ TypeOK
  BY DEF Inv
<1>2. ASSUME config.daily > 0 PROVE DayAccount(d)'
  <2>1. ~IsPending(new, d) /\ ~IsPending(requests[r], d)
    BY <1>2 DEF IsPending
  <2>2. calls'[DayKey(d)] = calls[DayKey(d)] + Bit(FALSE)
    BY <1>1, <1>2, NoBit, AccountTypes
  <2>3. Reserved(d)' = Reserved(d)
    BY <2>1, <2>2, <1>1, ReservedMove
  <2>4. MonthSpent(d)' = MonthSpent(d)
    BY DEF MonthSpent, MonthKey
  <2>5. QED BY <1>1, <1>2, <2>3, <2>4 DEF DayAccount, DayKey
<1>3. MonthAccount(d)'
  BY <1>1 DEF MonthAccount
<1>4. QED BY <1>2, <1>3 DEF DayAccount

\* An increment leaves the counters of other periods alone, and no month
\* becomes unspent by it.
LEMMA ChargeFacts ==
  ASSUME TypeOK, NEW r \in Requests, NEW d \in Days, Checking(r), config' = config,
         Increment(Key(requests[r].step, requests[r].day))
  PROVE  LET e == requests[r].day IN
         /\ requests[r].step = "daily" =>
              /\ counters'[<<"monthly", d>>] = counters[<<"monthly", d>>]
              /\ d = e => counters'[DayKey(d)] = counters[DayKey(d)] + 1
              /\ d # e => counters'[DayKey(d)] = counters[DayKey(d)]
         /\ requests[r].step = "monthly" =>
              /\ counters'[DayKey(d)] = counters[DayKey(d)]
              /\ d = Month[e] => counters'[<<"monthly", d>>] = counters[<<"monthly", d>>] + 1
              /\ d # Month[e] => counters'[<<"monthly", d>>] = counters[<<"monthly", d>>]
         /\ MonthSpent(d) => MonthSpent(d)'
<1> DEFINE e == requests[r].day
           key == Key(requests[r].step, e)
<1>1. e \in Days /\ requests[r].step \in {"daily", "monthly"}
  BY CheckFacts DEF Checking
<1>2. \A k \in Periods : counters'[k] = counters[k] + Bit(k = key)
  BY IncrementFacts
<1>3. \A k \in Periods : counters[k] \in Nat
  BY DEF TypeOK
<1>4. \A k \in Periods : counters'[k] = IF k = key THEN counters[k] + 1 ELSE counters[k]
  BY <1>2, <1>3 DEF Bit
<1>5. /\ DayKey(d) \in Periods /\ MonthKey(d) \in Periods /\ <<"monthly", d>> \in Periods
      /\ DayKey(d) # MonthKey(e) /\ DayKey(e) # <<"monthly", d>> /\ DayKey(e) # MonthKey(d)
      /\ DayKey(d) = DayKey(e) => d = e
      /\ MonthKey(e) = <<"monthly", Month[e]>>
      /\ MonthKey(d) = <<"monthly", Month[d]>>
      /\ Month[e] \in Days
  BY <1>1, KeyFacts DEF Periods
<1>6. requests[r].step = "daily" => key = DayKey(e)
  BY DEF Key
<1>7. requests[r].step = "monthly" => key = MonthKey(e)
  BY DEF Key
<1>8. counters[MonthKey(d)] <= counters'[MonthKey(d)]
  <2>1. counters[MonthKey(d)] \in Nat
    BY <1>3, <1>5
  <2>2. counters'[MonthKey(d)] = counters[MonthKey(d)] + 1
        \/ counters'[MonthKey(d)] = counters[MonthKey(d)]
    BY <1>4, <1>5
  <2>3. QED BY <2>1, <2>2
<1>9. MonthSpent(d) => MonthSpent(d)'
  <2>1. counters[MonthKey(d)] \in Nat /\ counters'[MonthKey(d)] \in Nat /\ config.monthly \in Nat
    BY <1>3, <1>5, IncrementFacts, AccountTypes
  <2>2. MonthSpent(d)' <=> config.monthly > 0 /\ counters'[MonthKey(d)] > config.monthly
    BY DEF MonthSpent, MonthKey
  <2>3. \A x, y, z \in Nat : x <= y /\ x > z => y > z
    OBVIOUS
  <2>4. QED BY <1>8, <2>1, <2>2, <2>3 DEF MonthSpent
<1> HIDE DEF key, e
<1>10. requests[r].step = "daily" =>
         /\ counters'[<<"monthly", d>>] = counters[<<"monthly", d>>]
         /\ d = e => counters'[DayKey(d)] = counters[DayKey(d)] + 1
         /\ d # e => counters'[DayKey(d)] = counters[DayKey(d)]
  BY <1>4, <1>5, <1>6
<1>11. requests[r].step = "monthly" =>
         /\ counters'[DayKey(d)] = counters[DayKey(d)]
         /\ d = Month[e] => counters'[<<"monthly", d>>] = counters[<<"monthly", d>>] + 1
         /\ d # Month[e] => counters'[<<"monthly", d>>] = counters[<<"monthly", d>>]
  BY <1>4, <1>5, <1>7
<1>12. QED BY <1>9, <1>10, <1>11 DEF e

\* A passed check charges its counter; the request moves on to the next check,
\* or calls.
LEMMA AdmitAccounts ==
  ASSUME Inv, NEW r \in Requests, Admit(r)
  PROVE  \A d \in Days : (DayAccount(d) /\ MonthAccount(d))'
<1> TAKE d \in Days
<1> DEFINE e == requests[r].day
           step == requests[r].step
           next == NextStep(step)
           new == [requests[r] EXCEPT !.step = next]
           calling == next = "call" /\ d = e
<1>1. DayAccount(d) /\ MonthAccount(d) /\ TypeOK /\ Checking(r)
  BY DEF Inv, Admit
<1>2. e \in Days /\ requests[r] \in Request /\ step \in {"daily", "monthly"}
  BY <1>1 DEF TypeOK, Request, Checking
<1>3. /\ next \in {"idle", "daily", "monthly", "call"}
      /\ next \in {"monthly", "call"}
      /\ next = "monthly" => step = "daily"
      /\ next = "call" => step = "monthly" \/ ~(config.monthly > 0)
  BY <1>1, <1>2, NextStepFacts
<1>4. /\ requests' = [requests EXCEPT ![r] = new]
      /\ \A k \in Periods : calls'[k] =
           calls[k] + Bit(next = "call" /\ k \in {DayKey(e), MonthKey(e)})
  <2>1. Proceed(r, requests[r], next)
    BY DEF Admit
  <2> HIDE DEF next
  <2>2. requests' = [requests EXCEPT ![r] = new]
    BY <2>1 DEF Proceed
  <2>3. \A k \in Periods : calls'[k] =
           calls[k] + Bit(next = "call" /\ k \in {DayKey(e), MonthKey(e)})
    <3> USE DEF e
    <3>1. \A k \in Periods : calls[k] \in Nat
      BY <1>1 DEF TypeOK
    <3>2. QED BY <2>1, <3>1 DEF Proceed, Bit
  <2>4. QED BY <2>2, <2>3
<1>5. new.step = next /\ new.day = e
  BY <1>2 DEF Request
<1>6. /\ DayKey(d) \in Periods /\ <<"monthly", d>> \in Periods
      /\ DayKey(d) # MonthKey(e) /\ DayKey(e) # <<"monthly", d>>
      /\ DayKey(d) = DayKey(e) <=> d = e
      /\ MonthKey(e) = <<"monthly", Month[e]>>
  BY <1>2, KeyFacts DEF Periods
<1>7. config' = config /\ faults' = faults /\ Increment(Key(step, e))
      /\ DayKey(d)' = DayKey(d)
  BY DEF Admit, DayKey
<1>8. counters[Key(step, e)] + 1 <= Limit(step)
  <2>1. counters[Key(step, e)] \in Nat /\ Limit(step) \in Nat
    BY <1>1, <1>2, CheckFacts, AccountTypes DEF TypeOK, Limit
  <2>2. ~(counters[Key(step, e)] + 1 > Limit(step))
    BY <1>1, CheckFacts DEF Admit, Exceeds
  <2>3. \A x, y \in Nat : ~(x + 1 > y) => x + 1 <= y
    OBVIOUS
  <2>4. QED BY <2>1, <2>2, <2>3
<1>9. calls'[DayKey(d)] = calls[DayKey(d)] + Bit(calling)
  BY <1>4, <1>6
<1>10. /\ IsPending(requests[r], d) <=> step = "monthly" /\ d = e
       /\ IsPending(new, d) <=> next = "monthly" /\ d = e
  BY <1>5 DEF IsPending
<1> HIDE DEF new, next
<1>11. DayAccount(d)'
  <2> SUFFICES ASSUME config.daily > 0 PROVE DayAccount(d)'
    BY <1>7 DEF DayAccount
  <2>1. Figures(config.daily, Reserved(d), counters[DayKey(d)], faults, MonthSpent(d))
    BY <1>1 DEF DayAccount
  <2>2. /\ config.daily \in Nat /\ Reserved(d) \in Nat /\ counters[DayKey(d)] \in Nat
        /\ faults \in Nat /\ MonthSpent(d) \in BOOLEAN
    BY <1>1, AccountTypes DEF MonthSpent
  <2>3. Figures(config.daily, Reserved(d)', counters'[DayKey(d)], faults, MonthSpent(d))
    <3>1. CASE step = "daily" /\ d = e
      <4>1. Reserved(d)' = Reserved(d) + 1
        BY <3>1, <1>1, <1>3, <1>4, <1>9, <1>10, ReservedMove
      <4>2. counters'[DayKey(d)] = counters[DayKey(d)] + 1
        BY <3>1, <1>1, <1>7, ChargeFacts
      <4>3. counters[DayKey(d)] + 1 <= config.daily
        BY <3>1, <1>8 DEF Key, Limit
      <4>4. QED BY <2>1, <2>2, <4>1, <4>2, <4>3, FiguresChange
    <3>2. CASE step = "monthly" \/ d # e
      <4>1. Reserved(d)' = Reserved(d)
        BY <3>2, <1>1, <1>2, <1>3, <1>4, <1>9, <1>10, ReservedMove
      <4>2. counters'[DayKey(d)] = counters[DayKey(d)]
        BY <3>2, <1>1, <1>2, <1>7, ChargeFacts
      <4>3. QED BY <2>1, <4>1, <4>2
    <3>3. QED BY <3>1, <3>2, <1>2
  <2>4. MonthSpent(d) => MonthSpent(d)'
    BY <1>1, <1>7, ChargeFacts
  <2>5. QED BY <2>3, <2>4, <1>7 DEF DayAccount, Figures
<1>12. MonthAccount(d)'
  <2> SUFFICES ASSUME config.monthly > 0 PROVE MonthAccount(d)'
    BY <1>7 DEF MonthAccount
  <2>1. Figures(config.monthly, calls[<<"monthly", d>>], counters[<<"monthly", d>>], faults, FALSE)
    BY <1>1 DEF MonthAccount
  <2>2. /\ config.monthly \in Nat /\ calls[<<"monthly", d>>] \in Nat
        /\ counters[<<"monthly", d>>] \in Nat /\ faults \in Nat
    BY <1>1, AccountTypes
  <2>3. next = "call" <=> step = "monthly"
    BY <1>1, <1>2, <1>3
  <2>4. CASE step = "monthly" /\ d = Month[e]
    <3>1. calls'[<<"monthly", d>>] = calls[<<"monthly", d>>] + 1
      BY <2>3, <2>4, <1>4, <1>6 DEF Bit
    <3>2. counters'[<<"monthly", d>>] = counters[<<"monthly", d>>] + 1
      BY <2>4, <1>1, <1>7, ChargeFacts
    <3>3. counters[<<"monthly", d>>] + 1 <= config.monthly
      BY <2>4, <1>6, <1>8 DEF Key, Limit
    <3>4. QED BY <2>1, <2>2, <3>1, <3>2, <3>3, <1>7, FiguresChange DEF MonthAccount
  <2>5. CASE ~(step = "monthly" /\ d = Month[e])
    <3>1. ~(next = "call" /\ <<"monthly", d>> \in {DayKey(e), MonthKey(e)})
      BY <2>3, <2>5, <1>6
    <3>2. calls'[<<"monthly", d>>] = calls[<<"monthly", d>>]
      BY <3>1, <1>4, <1>6, <2>2 DEF Bit
    <3>3. counters'[<<"monthly", d>>] = counters[<<"monthly", d>>]
      BY <2>5, <1>1, <1>2, <1>7, ChargeFacts
    <3>4. QED BY <2>1, <3>2, <3>3, <1>7 DEF MonthAccount
  <2>6. QED BY <2>4, <2>5
<1>13. QED BY <1>11, <1>12

\* A request that ends at a check gives up what it had reserved, if anything.
LEMMA EndedReservation ==
  ASSUME TypeOK, NEW r \in Requests, NEW d \in Days, Finish(r, "unavailable")
  PROVE  LET was == IsPending(requests[r], d) IN
         /\ calls' = calls
         /\ ~was => Reserved(d)' = Reserved(d)
         /\ was => Reserved(d)' = Reserved(d) - 1
<1> DEFINE new == [requests[r] EXCEPT !.step = "idle", !.result = "unavailable"]
<1>1. new \in Request /\ requests' = [requests EXCEPT ![r] = new] /\ calls' = calls
  BY FinishFacts
<1>2. ~IsPending(new, d)
  BY DEF IsPending, TypeOK, Request
<1>3. calls'[DayKey(d)] = calls[DayKey(d)] + Bit(FALSE)
  BY <1>1, NoBit, AccountTypes
<1> HIDE DEF new
<1>4. QED BY <1>1, <1>2, <1>3, ReservedMove

\* A refused check is charged all the same. On the day's counter the limit was
\* reached; on the month's, the day reserved in vain because the month is spent.
LEMMA RefuseAccounts ==
  ASSUME Inv, NEW r \in Requests, Refuse(r)
  PROVE  \A d \in Days : (DayAccount(d) /\ MonthAccount(d))'
<1> TAKE d \in Days
<1> DEFINE e == requests[r].day
           step == requests[r].step
<1>1. DayAccount(d) /\ MonthAccount(d) /\ TypeOK /\ Checking(r) /\ StepsAreEnabled
  BY DEF Inv, Refuse
<1>2. e \in Days /\ step \in {"daily", "monthly"}
  BY <1>1 DEF TypeOK, Request, Checking
<1>3. config' = config /\ faults' = faults /\ Increment(Key(step, e)) /\ DayKey(d)' = DayKey(d)
  BY DEF Refuse, DayKey
<1>4. /\ calls' = calls
      /\ ~(step = "monthly" /\ d = e) => Reserved(d)' = Reserved(d)
      /\ step = "monthly" /\ d = e => Reserved(d)' = Reserved(d) - 1
  BY <1>1, EndedReservation DEF Refuse, IsPending
<1>5. counters[Key(step, e)] + 1 > Limit(step)
  BY <1>1, CheckFacts DEF Refuse, Exceeds
<1>6. DayAccount(d)'
  <2> SUFFICES ASSUME config.daily > 0 PROVE DayAccount(d)'
    BY <1>3 DEF DayAccount
  <2>1. Figures(config.daily, Reserved(d), counters[DayKey(d)], faults, MonthSpent(d))
    BY <1>1 DEF DayAccount
  <2>2. /\ config.daily \in Nat /\ Reserved(d) \in Nat /\ counters[DayKey(d)] \in Nat
        /\ faults \in Nat /\ MonthSpent(d) \in BOOLEAN
    BY <1>1, AccountTypes DEF MonthSpent
  <2>3. MonthSpent(d) => MonthSpent(d)'
    BY <1>1, <1>3, ChargeFacts
  <2>4. CASE step = "daily" /\ d = e
    <3>1. counters'[DayKey(d)] = counters[DayKey(d)] + 1 /\ Reserved(d)' = Reserved(d)
      BY <2>4, <1>1, <1>3, <1>4, ChargeFacts
    <3>2. counters[DayKey(d)] + 1 > config.daily
      BY <2>4, <1>5 DEF Key, Limit
    <3>3. Figures(config.daily, Reserved(d)', counters'[DayKey(d)], faults, MonthSpent(d))
      BY <2>1, <2>2, <3>1, <3>2, FiguresChange
    <3>4. QED BY <3>3, <2>3, <1>3 DEF DayAccount, Figures
  <2>5. CASE step = "monthly" /\ d = e
    <3>1. counters'[DayKey(d)] = counters[DayKey(d)] /\ Reserved(d)' = Reserved(d) - 1
      BY <2>5, <1>1, <1>3, <1>4, ChargeFacts
    <3>2. MonthSpent(d)'
      <4>1. Month[d] \in Days /\ MonthKey(d) = <<"monthly", Month[d]>>
        BY KeyFacts
      <4>2. counters'[MonthKey(d)] = counters[MonthKey(d)] + 1
        BY <4>1, <2>5, <1>1, <1>3, ChargeFacts
      <4>3. counters[MonthKey(d)] + 1 > config.monthly
        BY <2>5, <1>5 DEF Key, Limit
      <4>4. config.monthly > 0
        BY <2>5, <1>1 DEF StepsAreEnabled
      <4>5. QED BY <4>2, <4>3, <4>4, <1>3 DEF MonthSpent, MonthKey
    <3>3. Figures(config.daily, Reserved(d)', counters'[DayKey(d)], faults, TRUE)
      BY <2>1, <2>2, <3>1, FiguresChange
    <3>4. QED BY <3>2, <3>3, <1>3 DEF DayAccount, Figures
  <2>6. CASE d # e
    <3>1. counters'[DayKey(d)] = counters[DayKey(d)] /\ Reserved(d)' = Reserved(d)
      BY <2>6, <1>1, <1>2, <1>3, <1>4, ChargeFacts
    <3>2. QED BY <2>1, <3>1, <2>3, <1>3 DEF DayAccount, Figures
  <2>7. QED BY <2>4, <2>5, <2>6, <1>2
<1>7. MonthAccount(d)'
  <2> SUFFICES ASSUME config.monthly > 0 PROVE MonthAccount(d)'
    BY <1>3 DEF MonthAccount
  <2>1. Figures(config.monthly, calls[<<"monthly", d>>], counters[<<"monthly", d>>], faults, FALSE)
    BY <1>1 DEF MonthAccount
  <2>2. /\ config.monthly \in Nat /\ calls[<<"monthly", d>>] \in Nat
        /\ counters[<<"monthly", d>>] \in Nat /\ faults \in Nat
    BY <1>1, AccountTypes
  <2>3. CASE step = "monthly" /\ d = Month[e]
    <3>1. counters'[<<"monthly", d>>] = counters[<<"monthly", d>>] + 1
      BY <2>3, <1>1, <1>3, ChargeFacts
    <3>2. Key(step, e) = <<"monthly", d>>
      BY <2>3, <1>2, KeyFacts DEF Key
    <3>3. counters[<<"monthly", d>>] + 1 > config.monthly
      BY <2>3, <3>2, <1>5 DEF Limit
    <3>4. QED BY <2>1, <2>2, <3>1, <3>3, <1>3, <1>4, FiguresChange DEF MonthAccount
  <2>4. CASE ~(step = "monthly" /\ d = Month[e])
    <3>1. counters'[<<"monthly", d>>] = counters[<<"monthly", d>>]
      BY <2>4, <1>1, <1>2, <1>3, ChargeFacts
    <3>2. QED BY <2>1, <3>1, <1>3, <1>4 DEF MonthAccount
  <2>5. QED BY <2>3, <2>4
<1>8. QED BY <1>6, <1>7

\* A failed update is one lost update, whether or not it was applied.
LEMMA FailAccounts ==
  ASSUME Inv, NEW r \in Requests, FailCheck(r)
  PROVE  \A d \in Days : (DayAccount(d) /\ MonthAccount(d))'
<1> TAKE d \in Days
<1> DEFINE e == requests[r].day
           step == requests[r].step
<1>1. DayAccount(d) /\ MonthAccount(d) /\ TypeOK /\ Checking(r)
  BY DEF Inv, FailCheck
<1>2. e \in Days /\ step \in {"daily", "monthly"}
  BY <1>1 DEF TypeOK, Request, Checking
<1>3. config' = config /\ faults' = faults + 1 /\ DayKey(d)' = DayKey(d)
  BY DEF FailCheck, DayKey
<1>4. /\ calls' = calls
      /\ ~(step = "monthly" /\ d = e) => Reserved(d)' = Reserved(d)
      /\ step = "monthly" /\ d = e => Reserved(d)' = Reserved(d) - 1
  BY <1>1, EndedReservation DEF FailCheck, IsPending
<1>5. /\ MonthSpent(d) => MonthSpent(d)'
      /\ \/ counters'[DayKey(d)] = counters[DayKey(d)]
         \/ /\ counters'[DayKey(d)] = counters[DayKey(d)] + 1
            /\ ~(step = "monthly" /\ d = e)
      /\ \/ counters'[<<"monthly", d>>] = counters[<<"monthly", d>>]
         \/ counters'[<<"monthly", d>>] = counters[<<"monthly", d>>] + 1
  <2>1. CASE Increment(Key(step, e))
    BY <2>1, <1>1, <1>2, <1>3, ChargeFacts
  <2>2. CASE counters' = counters
    BY <2>2, <1>3 DEF MonthSpent, MonthKey
  <2>3. QED BY <2>1, <2>2 DEF FailCheck
<1>6. DayAccount(d)'
  <2> SUFFICES ASSUME config.daily > 0 PROVE DayAccount(d)'
    BY <1>3 DEF DayAccount
  <2>1. Figures(config.daily, Reserved(d), counters[DayKey(d)], faults, MonthSpent(d))
    BY <1>1 DEF DayAccount
  <2>2. /\ config.daily \in Nat /\ Reserved(d) \in Nat /\ counters[DayKey(d)] \in Nat
        /\ faults \in Nat /\ MonthSpent(d) \in BOOLEAN
    BY <1>1, AccountTypes DEF MonthSpent
  <2>3. Figures(config.daily, Reserved(d)', counters'[DayKey(d)], faults + 1, MonthSpent(d))
    BY <2>1, <2>2, <1>4, <1>5, FiguresChange
  <2>4. QED BY <2>3, <1>3, <1>5 DEF DayAccount, Figures
<1>7. MonthAccount(d)'
  <2> SUFFICES ASSUME config.monthly > 0 PROVE MonthAccount(d)'
    BY <1>3 DEF MonthAccount
  <2>1. Figures(config.monthly, calls[<<"monthly", d>>], counters[<<"monthly", d>>], faults, FALSE)
    BY <1>1 DEF MonthAccount
  <2>2. /\ config.monthly \in Nat /\ calls[<<"monthly", d>>] \in Nat
        /\ counters[<<"monthly", d>>] \in Nat /\ faults \in Nat
    BY <1>1, AccountTypes
  <2>3. QED BY <2>1, <2>2, <1>3, <1>4, <1>5, FiguresChange DEF MonthAccount
<1>8. QED BY <1>6, <1>7

-----------------------------------------------------------------------------
Excused(day) ==
  \/ faults > 0
  \/ config.daily > 0 /\ counters[DayKey(day)] > config.daily
  \/ MonthSpent(day)

\* The two facts about single requests are kept by a step that moves one.
LEMMA RequestsStep ==
  ASSUME Inv, TypeOK', NEW r \in Requests, NEW new \in Request,
         requests' = [requests EXCEPT ![r] = new],
         config' = config, faults <= faults',
         \A k \in Periods : counters[k] <= counters'[k],
         new.step = "daily" => config.daily > 0,
         new.step = "monthly" => config.monthly > 0,
         new.step # "idle" /\ new.stage # "fallback" => ~new.text,
         new.step # "idle" => new.result = "none",
         new.text /\ new.result = "unavailable" => Excused(new.day)'
  PROVE  StepsAreEnabled' /\ NoAnswerDiscarded'
<1>1. TypeOK /\ StepsAreEnabled /\ NoAnswerDiscarded
  BY DEF Inv
<1>2. \A q \in Requests : requests'[q] = IF q = r THEN new ELSE requests[q]
  BY <1>1 DEF TypeOK
<1>3. StepsAreEnabled'
  BY <1>1, <1>2 DEF StepsAreEnabled
<1>4. ASSUME NEW q \in Requests, requests'[q].text, requests'[q].result = "unavailable"
      PROVE  \/ faults' > 0
             \/ config'.daily > 0 /\ counters'[DayKey(requests'[q].day)] > config'.daily
             \/ config'.monthly > 0 /\ counters'[MonthKey(requests'[q].day)] > config'.monthly
  <2>1. CASE q = r
    <3>1. requests'[q] = new
      BY <2>1, <1>2
    <3>2. Excused(new.day)'
      BY <3>1, <1>4
    <3>3. QED BY <3>1, <3>2 DEF Excused, MonthSpent, DayKey, MonthKey
  <2>2. CASE q # r
    <3> DEFINE dq == requests[q].day
    <3>1. requests'[q] = requests[q] /\ dq \in Days
      BY <2>2, <1>1, <1>2 DEF TypeOK, Request
    <3>2. \/ faults > 0
          \/ config.daily > 0 /\ counters[DayKey(dq)] > config.daily
          \/ config.monthly > 0 /\ counters[MonthKey(dq)] > config.monthly
      BY <3>1, <1>1, <1>4 DEF NoAnswerDiscarded
    <3> HIDE DEF dq
    <3>3. DayKey(dq) \in Periods /\ MonthKey(dq) \in Periods
      BY <3>1, KeyFacts
    <3>4. \A x, y, z \in Nat : x > z /\ x <= y => y > z
      OBVIOUS
    <3>5. /\ counters[DayKey(dq)] \in Nat /\ counters'[DayKey(dq)] \in Nat
          /\ counters[MonthKey(dq)] \in Nat /\ counters'[MonthKey(dq)] \in Nat
          /\ faults \in Nat /\ faults' \in Nat /\ 0 \in Nat
          /\ config.daily \in Nat /\ config.monthly \in Nat
      BY <3>1, <3>3, <1>1, AccountTypes DEF TypeOK
    <3>6. faults > 0 => faults' > 0
      BY <3>4, <3>5
    <3>7. counters[DayKey(dq)] > config.daily => counters'[DayKey(dq)] > config.daily
      BY <3>3, <3>4, <3>5
    <3>8. counters[MonthKey(dq)] > config.monthly => counters'[MonthKey(dq)] > config.monthly
      BY <3>3, <3>4, <3>5
    <3>9. \/ faults' > 0
          \/ config.daily > 0 /\ counters'[DayKey(dq)] > config.daily
          \/ config.monthly > 0 /\ counters'[MonthKey(dq)] > config.monthly
      BY <3>2, <3>6, <3>7, <3>8
    <3>10. QED BY <3>1, <3>9 DEF dq
  <2>3. QED BY <2>1, <2>2
<1>5. NoAnswerDiscarded'
  BY <1>4 DEF NoAnswerDiscarded, DayKey, MonthKey
<1>6. QED BY <1>3, <1>5

\* A request that leaves its provider call moves nothing in the accounts.
LEMMA EndStep ==
  ASSUME Inv, TypeOK', NEW r \in Requests, NEW stage, Calling(r, stage),
         NEW result \in {"agent", "primary", "fallback", "unavailable"},
         Finish(r, result), UNCHANGED <<config, counters, faults>>,
         requests[r].text => result # "unavailable"
  PROVE  Inv'
<1> DEFINE new == [requests[r] EXCEPT !.step = "idle", !.result = result]
<1>1. TypeOK
  BY DEF Inv
<1>2. new \in Request /\ requests' = [requests EXCEPT ![r] = new] /\ calls' = calls
  BY <1>1, FinishFacts
<1>3. new.step = "idle" /\ new.result = result /\ new.text = requests[r].text
  BY <1>1 DEF TypeOK, Request
<1> HIDE DEF new
<1>4. \A d \in Days : (DayAccount(d) /\ MonthAccount(d))'
  BY <1>2, <1>3, UnchargedAccounts DEF Calling
<1>5. faults <= faults' /\ \A k \in Periods : counters[k] <= counters'[k]
  BY <1>1 DEF TypeOK
<1>6. StepsAreEnabled' /\ NoAnswerDiscarded'
  BY <1>2, <1>3, <1>5, RequestsStep
<1>7. QED BY <1>4, <1>6 DEF Inv

\* A reservation that begins: it awaits the first enabled check, or calls.
LEMMA ReserveStep ==
  ASSUME Inv, TypeOK', NEW r \in Requests, NEW request \in Request,
         requests[r].step # "monthly", Proceed(r, request, NextStep("start")),
         UNCHANGED <<config, counters, faults>>,
         request.stage # "fallback" => ~request.text, request.result = "none"
  PROVE  Inv'
<1> DEFINE next == NextStep("start")
           new == [request EXCEPT !.step = next]
<1>1. TypeOK
  BY DEF Inv
<1>2. /\ next \in {"idle", "daily", "monthly", "call"}
      /\ next = "daily" => config.daily > 0
      /\ next = "monthly" => config.monthly > 0 /\ ~(config.daily > 0)
      /\ next = "call" => ~(config.daily > 0) /\ ~(config.monthly > 0)
  BY <1>1, NextStepFacts
<1>3. Proceed(r, request, next)
  OBVIOUS
<1> HIDE DEF next
<1>4. requests' = [requests EXCEPT ![r] = new]
  BY <1>3 DEF Proceed
<1>5. new \in Request
  BY <1>2 DEF Request
<1>6. new.step = next /\ new.stage = request.stage /\ new.text = request.text
      /\ new.result = request.result
  BY DEF Request
<1>7. config.daily > 0 \/ config.monthly > 0 => calls' = calls
  BY <1>1, <1>2, <1>3 DEF Proceed, TypeOK
<1> HIDE DEF new
<1>8. \A d \in Days : (DayAccount(d) /\ MonthAccount(d))'
  BY <1>2, <1>4, <1>5, <1>6, <1>7, UnchargedAccounts
<1>9. faults <= faults' /\ \A k \in Periods : counters[k] <= counters'[k]
  BY <1>1 DEF TypeOK
<1>10. StepsAreEnabled' /\ NoAnswerDiscarded'
  BY <1>2, <1>4, <1>5, <1>6, <1>9, RequestsStep
<1>11. QED BY <1>8, <1>10 DEF Inv

\* Charging never lowers a counter.
LEMMA CountersGrow ==
  ASSUME TypeOK, NEW r \in Requests, Checking(r),
         Increment(Key(requests[r].step, requests[r].day)) \/ UNCHANGED counters
  PROVE  \A k \in Periods : counters[k] <= counters'[k]
<1>1. \A k \in Periods : counters[k] \in Nat
  BY DEF TypeOK
<1>2. CASE Increment(Key(requests[r].step, requests[r].day))
  BY <1>1, <1>2, IncrementFacts DEF Bit
<1>3. CASE UNCHANGED counters
  BY <1>1, <1>3
<1>4. QED BY <1>2, <1>3

\* The accounts, and what a request may be in the middle of, are inductive.
LEMMA BudgetInvariant == Spec => []Inv
<1>1. Init => Inv
  <2> SUFFICES ASSUME Init PROVE Inv
    OBVIOUS
  <2>1. TypeOK
    BY BudgetAssumption DEF Init, TypeOK, NewRequest, Request, Days
  <2>2. StepsAreEnabled /\ NoAnswerDiscarded
    BY DEF Init, NewRequest, StepsAreEnabled, NoAnswerDiscarded
  <2>3. ASSUME NEW d \in Days PROVE DayAccount(d) /\ MonthAccount(d)
    <3>1. Pending(d) = {}
      BY DEF Init, NewRequest, Pending
    <3>2. Cardinality(Pending(d)) = 0
      BY <3>1, FS_EmptySet
    <3>3. DayKey(d) \in Periods /\ <<"monthly", d>> \in Periods
      BY KeyFacts DEF Periods
    <3>4. calls[DayKey(d)] = 0 /\ calls[<<"monthly", d>>] = 0
          /\ counters[DayKey(d)] = 0 /\ counters[<<"monthly", d>>] = 0 /\ faults = 0
      BY <3>3 DEF Init
    <3>5. Reserved(d) = 0
      BY <3>2, <3>4 DEF Reserved
    <3>6. \A limit \in Nat : Figures(limit, 0, 0, 0, FALSE) /\ Figures(limit, 0, 0, 0, TRUE)
      BY DEF Figures
    <3>7. config.daily \in Nat /\ config.monthly \in Nat /\ MonthSpent(d) \in BOOLEAN
      BY <2>1, AccountTypes DEF MonthSpent
    <3>8. QED BY <3>4, <3>5, <3>6, <3>7 DEF DayAccount, MonthAccount
  <2>4. QED BY <2>1, <2>2, <2>3 DEF Inv
<1>2. Inv /\ TypeOK' /\ [Next]_vars => Inv'
  <2> SUFFICES ASSUME Inv, TypeOK', [Next]_vars PROVE Inv'
    OBVIOUS
  <2> TypeOK /\ StepsAreEnabled
    BY DEF Inv
  <2>1. CASE NextDay \/ UNCHANGED vars
    BY <2>1 DEF NextDay, vars, Inv, StepsAreEnabled, NoAnswerDiscarded, DayAccount, MonthAccount,
       Reserved, MonthSpent, Pending, DayKey, MonthKey
  <2>2. ASSUME NEW r \in Requests, Receive(r) PROVE Inv'
    <3> DEFINE request == NewRequest(config.runtime, today)
    <3>1. config.runtime \in {"agent", "primary", "fallback"} /\ 0 \in 0..Retries
      BY BudgetAssumption DEF TypeOK, Config
    <3>2. request \in Request /\ ~request.text /\ request.result = "none"
      BY <3>1 DEF NewRequest, Request, TypeOK
    <3>3. Proceed(r, request, NextStep("start")) /\ requests[r].step # "monthly"
          /\ UNCHANGED <<config, counters, faults>>
      BY <2>2 DEF Receive
    <3> HIDE DEF request
    <3>4. QED BY <3>2, <3>3, ReserveStep
  <2>3. ASSUME NEW r \in Requests, Admit(r) PROVE Inv'
    <3> DEFINE next == NextStep(requests[r].step)
               new == [requests[r] EXCEPT !.step = next]
    <3>1. requests[r] \in Request /\ requests[r].step \in {"daily", "monthly"}
      BY <2>3 DEF TypeOK, Admit, Checking
    <3>2. /\ next \in {"monthly", "call"}
          /\ next = "monthly" => config.monthly > 0
      BY <3>1, NextStepFacts
    <3>3. Proceed(r, requests[r], next) /\ config' = config /\ faults' = faults /\ Checking(r)
          /\ Increment(Key(requests[r].step, requests[r].day))
      BY <2>3 DEF Admit
    <3> HIDE DEF next
    <3>4. requests' = [requests EXCEPT ![r] = new]
      BY <3>3 DEF Proceed
    <3>5. new \in Request
      BY <3>1, <3>2 DEF Request
    <3>6. new.step = next /\ new.stage = requests[r].stage /\ new.text = requests[r].text
          /\ new.result = requests[r].result
      BY <3>1 DEF Request
    <3>7. new.result = "none" /\ (new.stage # "fallback" => ~new.text)
      BY <3>1, <3>6 DEF StepsAreEnabled
    <3> HIDE DEF new
    <3>8. faults <= faults' /\ \A k \in Periods : counters[k] <= counters'[k]
      BY <3>3, CountersGrow DEF TypeOK
    <3>9. StepsAreEnabled' /\ NoAnswerDiscarded'
      BY <3>2, <3>3, <3>4, <3>5, <3>6, <3>7, <3>8, RequestsStep
    <3>10. QED BY <2>3, <3>9, AdmitAccounts DEF Inv
  <2>4. ASSUME NEW r \in Requests, Refuse(r) \/ FailCheck(r) PROVE Inv'
    <3> PICK e \in Days : e = requests[r].day
      BY DEF TypeOK, Request
    <3>1. Checking(r) /\ Finish(r, "unavailable") /\ config' = config
      BY <2>4 DEF Refuse, FailCheck
    <3>2. [requests[r] EXCEPT !.step = "idle", !.result = "unavailable"] \in Request
          /\ requests' = [requests EXCEPT ![r] =
                [requests[r] EXCEPT !.step = "idle", !.result = "unavailable"]]
      BY <3>1, FinishFacts
    <3> PICK new \in Request :
          new = [requests[r] EXCEPT !.step = "idle", !.result = "unavailable"]
      BY <3>2
    <3>3. new.step = "idle" /\ new.day = e /\ requests' = [requests EXCEPT ![r] = new]
      BY <3>2 DEF TypeOK, Request
    <3>4. faults <= faults' /\ \A k \in Periods : counters[k] <= counters'[k]
      BY <2>4, <3>1, CountersGrow DEF Refuse, FailCheck, TypeOK
    <3>5. Excused(e)'
      <4>1. CASE FailCheck(r)
        <5>1. faults' = faults + 1 /\ faults \in Nat
          BY <4>1 DEF FailCheck, TypeOK
        <5>2. \A n \in Nat : n + 1 > 0
          OBVIOUS
        <5>3. faults' > 0
          BY <5>1, <5>2
        <5>4. QED BY <5>3 DEF Excused
      <4>2. CASE Refuse(r)
        <5>1. counters[Key(requests[r].step, e)] + 1 > Limit(requests[r].step)
          BY <3>1, <4>2, CheckFacts DEF Refuse, Exceeds
        <5>2. Key(requests[r].step, e) \in Periods
          BY <3>1, CheckFacts
        <5>3. counters'[Key(requests[r].step, e)] = counters[Key(requests[r].step, e)] + 1
          BY <3>1, <4>2, <5>2, IncrementFacts DEF Refuse, Bit
        <5>4. CASE requests[r].step = "daily"
          <6>1. config.daily > 0 /\ counters'[DayKey(e)] > config.daily
            BY <5>1, <5>3, <5>4 DEF Key, Limit, StepsAreEnabled
          <6>2. QED BY <6>1, <3>1 DEF Excused, DayKey
        <5>5. CASE requests[r].step = "monthly"
          <6>1. config.monthly > 0 /\ counters'[MonthKey(e)] > config.monthly
            BY <5>1, <5>3, <5>5 DEF Key, Limit, StepsAreEnabled
          <6>2. QED BY <6>1, <3>1 DEF Excused, MonthSpent, MonthKey
        <5>6. QED BY <5>4, <5>5, <3>1 DEF Checking
      <4>3. QED BY <4>1, <4>2, <2>4
    <3>6. StepsAreEnabled' /\ NoAnswerDiscarded'
      BY <3>1, <3>3, <3>4, <3>5, RequestsStep
    <3>7. QED BY <2>4, <3>6, RefuseAccounts, FailAccounts DEF Inv
  <2>5. ASSUME NEW r \in Requests, AgentAnswers(r) PROVE Inv'
    <3>1. Finish(r, "agent") /\ Calling(r, "agent") /\ UNCHANGED <<config, counters, faults>>
      BY <2>5 DEF AgentAnswers
    <3>2. requests[r].text => "agent" # "unavailable"
      BY <3>1 DEF StepsAreEnabled, Calling
    <3>3. QED BY <3>1, <3>2, EndStep
  <2>6. ASSUME NEW r \in Requests, AgentFails(r) PROVE Inv'
    <3>1. Finish(r, "unavailable") /\ Calling(r, "agent") /\ UNCHANGED <<config, counters, faults>>
      BY <2>6 DEF AgentFails
    <3>2. requests[r].text => "unavailable" # "unavailable"
      BY <3>1 DEF StepsAreEnabled, Calling
    <3>3. QED BY <3>1, <3>2, EndStep
  <2>7. ASSUME NEW r \in Requests, AgentTimesOut(r) PROVE Inv'
    <3>1. Calling(r, "agent") /\ UNCHANGED <<config, counters, faults>>
      BY <2>7 DEF AgentTimesOut
    <3>2. CASE requests[r].attempt < Retries
      <4> DEFINE new == [requests[r] EXCEPT !.attempt = @ + 1]
      <4>1. requests' = [requests EXCEPT ![r] = new] /\ calls' = calls
        BY <2>7, <3>2 DEF AgentTimesOut
      <4>2. new \in Request
        <5>1. requests[r] \in Request
          BY DEF TypeOK, Inv
        <5>2. requests[r].attempt + 1 \in 0 .. Retries
          BY <3>2, <5>1, BudgetAssumption DEF Request
        <5>3. QED BY <5>1, <5>2 DEF Request
      <4>3. new.step = requests[r].step /\ new.text = requests[r].text
            /\ new.stage = requests[r].stage /\ new.result = requests[r].result
        BY DEF TypeOK, Request
      <4>4. new.step = "call" /\ ~new.text /\ new.result = "none"
        BY <3>1, <4>3 DEF StepsAreEnabled, Calling
      <4> HIDE DEF new
      <4>5. \A d \in Days : (DayAccount(d) /\ MonthAccount(d))'
        BY <3>1, <4>1, <4>2, <4>4, UnchargedAccounts DEF Calling
      <4>6. faults <= faults' /\ \A k \in Periods : counters[k] <= counters'[k]
        BY <3>1 DEF TypeOK
      <4>7. StepsAreEnabled' /\ NoAnswerDiscarded'
        BY <3>1, <4>1, <4>2, <4>4, <4>6, RequestsStep
      <4>8. QED BY <4>5, <4>7 DEF Inv
    <3>3. CASE ~(requests[r].attempt < Retries)
      <4>1. Finish(r, "unavailable")
        BY <2>7, <3>3 DEF AgentTimesOut
      <4>2. ~requests[r].text
        BY <3>1 DEF StepsAreEnabled, Calling
      <4>3. QED BY <3>1, <4>1, <4>2, EndStep
    <3>4. QED BY <3>2, <3>3
  <2>8. ASSUME NEW r \in Requests, PrimaryAnswers(r) PROVE Inv'
    <3>1. Finish(r, "primary") /\ Calling(r, "primary") /\ UNCHANGED <<config, counters, faults>>
      BY <2>8 DEF PrimaryAnswers
    <3>2. requests[r].text => "primary" # "unavailable"
      BY <3>1 DEF StepsAreEnabled, Calling
    <3>3. QED BY <3>1, <3>2, EndStep
  <2>9. ASSUME NEW r \in Requests, NEW text \in BOOLEAN, Calling(r, "primary"), Fallback(r, text),
               UNCHANGED <<config, today, counters, delivered, received, faults>>
        PROVE  Inv'
    <3> DEFINE request == [requests[r] EXCEPT !.text = text]
               reserving == [request EXCEPT !.stage = "fallback", !.day = today]
               ended == [request EXCEPT !.step = "idle", !.result = Degraded(request)]
    <3>1. /\ reserving \in Request /\ ended \in Request
          /\ \/ Proceed(r, reserving, NextStep("start"))
             \/ requests' = [requests EXCEPT ![r] = ended] /\ calls' = calls
      BY <2>9, FallbackFacts
    <3>2. /\ reserving.stage = "fallback" /\ reserving.result = requests[r].result
          /\ ended.step = "idle" /\ ended.text = text
          /\ ended.text => ended.result # "unavailable"
      BY DEF TypeOK, Request, Degraded
    <3>3. requests[r].step = "call" /\ requests[r].result = "none"
      BY <2>9 DEF Calling, StepsAreEnabled
    <3> HIDE DEF request, reserving, ended
    <3>4. CASE Proceed(r, reserving, NextStep("start"))
      BY <2>9, <3>1, <3>2, <3>3, <3>4, ReserveStep
    <3>5. CASE requests' = [requests EXCEPT ![r] = ended] /\ calls' = calls
      <4>1. \A d \in Days : (DayAccount(d) /\ MonthAccount(d))'
        BY <2>9, <3>1, <3>2, <3>3, <3>5, UnchargedAccounts
      <4>2. faults <= faults' /\ \A k \in Periods : counters[k] <= counters'[k]
        BY <2>9 DEF TypeOK
      <4>3. StepsAreEnabled' /\ NoAnswerDiscarded'
        BY <2>9, <3>1, <3>2, <3>5, <4>2, RequestsStep
      <4>4. QED BY <4>1, <4>3 DEF Inv
    <3>6. QED BY <3>1, <3>4, <3>5
  <2>10. ASSUME NEW r \in Requests, FallbackAnswers(r) PROVE Inv'
    <3>1. Finish(r, "fallback") /\ Calling(r, "fallback") /\ UNCHANGED <<config, counters, faults>>
      BY <2>10 DEF FallbackAnswers
    <3>2. requests[r].text => "fallback" # "unavailable"
      BY <3>1 DEF StepsAreEnabled, Calling
    <3>3. QED BY <3>1, <3>2, EndStep
  <2>11. ASSUME NEW r \in Requests, FallbackFails(r) PROVE Inv'
    <3>1. Finish(r, Degraded(requests[r])) /\ Calling(r, "fallback") /\ UNCHANGED <<config, counters, faults>>
      BY <2>11 DEF FallbackFails
    <3>2. requests[r].text => Degraded(requests[r]) # "unavailable"
      BY <3>1 DEF StepsAreEnabled, Calling, Degraded
    <3>3. QED BY <3>1, <3>2, EndStep DEF Degraded
  <2>12. QED
    BY <2>1, <2>2, <2>3, <2>4, <2>5, <2>6, <2>7, <2>8, <2>9, <2>10, <2>11
    DEF Next, Handle, PrimaryIsPoor, PrimaryFails
<1>3. QED BY <1>1, <1>2, TypeInvariant, PTL DEF Spec

-----------------------------------------------------------------------------
OnAgent(request, d) == request.step = "call" /\ request.stage = "agent" /\ request.day = d

\* The POSTs that executeWithRetry may still send on the reservations of a day.
PostsLeft(d) == {p \in Requests \X (0..Retries) :
                   OnAgent(requests[p[1]], d) /\ requests[p[1]].attempt <= p[2]}

\* A day's reservations pay for the agent's runs and for the POSTs still to come.
AgentAccounts == \A d \in Days :
  delivered[d] + Cardinality(PostsLeft(d)) <= (Retries + 1) * calls[DayKey(d)]

LEMMA PostsFinite ==
  ASSUME NEW d \in Days
  PROVE  IsFiniteSet(PostsLeft(d)) /\ IsFiniteSet(PostsLeft(d)')
         /\ Cardinality(PostsLeft(d)) \in Nat /\ Cardinality(PostsLeft(d)') \in Nat
<1>1. IsFiniteSet(0..Retries)
  BY FS_Interval, BudgetAssumption
<1>2. IsFiniteSet(Requests \X (0..Retries))
  BY <1>1, FS_Product, BudgetAssumption
<1>3. PostsLeft(d) \subseteq Requests \X (0..Retries)
      /\ PostsLeft(d)' \subseteq Requests \X (0..Retries)
  BY DEF PostsLeft
<1>4. QED BY <1>2, <1>3, FS_Subset, FS_CardinalityType

\* A call of the agent may send one POST and its retries.
LEMMA PostsOfOne ==
  ASSUME NEW r \in Requests
  PROVE  IsFiniteSet({r} \X (0..Retries)) /\ Cardinality({r} \X (0..Retries)) = Retries + 1
<1>1. IsFiniteSet(0..Retries) /\ Cardinality(0..Retries) = Retries + 1
  BY FS_Interval, BudgetAssumption
<1>2. IsFiniteSet({r}) /\ Cardinality({r}) = 1
  BY FS_Singleton
<1>3. Cardinality({r} \X (0..Retries)) = 1 * (Retries + 1) /\ IsFiniteSet({r} \X (0..Retries))
  BY <1>1, <1>2, FS_Product
<1>4. QED BY <1>3, BudgetAssumption

LEMMA AgentTypes ==
  ASSUME TypeOK, NEW d \in Days
  PROVE  delivered[d] \in Nat /\ calls[DayKey(d)] \in Nat /\ DayKey(d) \in Periods
BY AccountTypes, KeyFacts DEF TypeOK

\* A step that sends no POST keeps the accounts: a call of the agent begins on a
\* reservation of its own.
LEMMA NoPostStep ==
  ASSUME TypeOK, TypeOK', AgentAccounts, NEW r \in Requests, NEW new \in Request,
         requests' = [requests EXCEPT ![r] = new], delivered' = delivered,
         \A k \in Periods : calls[k] <= calls'[k],
         \A d \in Days : OnAgent(new, d) => calls'[DayKey(d)] = calls[DayKey(d)] + 1
  PROVE  AgentAccounts'
<1> SUFFICES ASSUME NEW d \in Days
             PROVE  delivered[d] + Cardinality(PostsLeft(d)')
                      <= (Retries + 1) * calls'[DayKey(d)]
  BY DEF AgentAccounts, DayKey
<1>1. \A q \in Requests : requests'[q] = IF q = r THEN new ELSE requests[q]
  BY DEF TypeOK
<1>2. delivered[d] + Cardinality(PostsLeft(d)) <= (Retries + 1) * calls[DayKey(d)]
  BY DEF AgentAccounts
<1>3. delivered[d] \in Nat /\ calls[DayKey(d)] \in Nat /\ calls'[DayKey(d)] \in Nat
      /\ calls[DayKey(d)] <= calls'[DayKey(d)] /\ Retries \in Nat
  BY AgentTypes, BudgetAssumption DEF TypeOK
<1>4. PostsLeft(d)' = {p \in Requests \X (0..Retries) :
                         OnAgent(requests'[p[1]], d) /\ requests'[p[1]].attempt <= p[2]}
  BY DEF PostsLeft, OnAgent
<1>5. CASE OnAgent(new, d)
  <2> DEFINE left == PostsLeft(d)
             own == {r} \X (0..Retries)
  <2>1. PostsLeft(d)' \subseteq left \cup own
    <3> SUFFICES ASSUME NEW q \in Requests, NEW i \in 0..Retries, q # r,
                        <<q, i>> \in PostsLeft(d)'
                 PROVE  <<q, i>> \in PostsLeft(d)
      BY <1>4
    <3> QED BY <1>1, <1>4 DEF PostsLeft
  <2>9. IsFiniteSet(left) /\ IsFiniteSet(own) /\ Cardinality(own) = Retries + 1
    BY PostsFinite, PostsOfOne
  <2> HIDE DEF left, own
  <2>2. IsFiniteSet(left \cup own)
        /\ Cardinality(left \cup own)
             = Cardinality(left) + (Retries + 1) - Cardinality(left \cap own)
    BY <2>9, FS_Union
  <2>3. Cardinality(PostsLeft(d)') <= Cardinality(left \cup own)
    BY <2>1, <2>2, FS_Subset
  <2>4. Cardinality(left \cap own) \in Nat
    BY <2>9, FS_Intersection, FS_CardinalityType
  <2>5. Cardinality(PostsLeft(d)') <= Cardinality(PostsLeft(d)) + (Retries + 1)
    BY <2>2, <2>3, <2>4, <1>3, PostsFinite DEF left
  <2>6. calls'[DayKey(d)] = calls[DayKey(d)] + 1
    BY <1>5
  <2>7. \A n, m, k, c, x \in Nat :
          x + n <= k * c /\ m <= n + k => x + m <= k * (c + 1)
    OBVIOUS
  <2>8. QED BY <1>2, <1>3, <2>5, <2>6, <2>7, PostsFinite
<1>6. CASE ~OnAgent(new, d)
  <2>1. PostsLeft(d)' \subseteq PostsLeft(d)
    BY <1>1, <1>4, <1>6 DEF PostsLeft
  <2>2. Cardinality(PostsLeft(d)') <= Cardinality(PostsLeft(d))
    BY <2>1, PostsFinite, FS_Subset
  <2>3. \A k, c, e \in Nat : c <= e => k * c <= k * e
    OBVIOUS
  <2>4. (Retries + 1) * calls[DayKey(d)] <= (Retries + 1) * calls'[DayKey(d)]
    BY <2>3, <1>3
  <2>5. (Retries + 1) * calls[DayKey(d)] \in Nat /\ (Retries + 1) * calls'[DayKey(d)] \in Nat
    BY <1>3
  <2>6. QED BY <1>2, <1>3, <2>2, <2>4, <2>5, PostsFinite
<1>7. QED BY <1>5, <1>6

\* A POST that was sent is one of those that were left, and at most one run.
LEMMA PostStep ==
  ASSUME TypeOK, TypeOK', AgentAccounts, NEW r \in Requests, Calling(r, "agent"),
         NEW new \in Request, requests' = [requests EXCEPT ![r] = new],
         calls' = calls, Run(r) \/ UNCHANGED delivered,
         \/ new.step = "idle"
         \/ new.day = requests[r].day /\ new.attempt > requests[r].attempt
  PROVE  AgentAccounts'
<1> SUFFICES ASSUME NEW d \in Days
             PROVE  delivered'[d] + Cardinality(PostsLeft(d)')
                      <= (Retries + 1) * calls[DayKey(d)]
  BY DEF AgentAccounts, DayKey
<1> DEFINE post == <<r, requests[r].attempt>>
<1>1. \A q \in Requests : requests'[q] = IF q = r THEN new ELSE requests[q]
  BY DEF TypeOK
<1>2. delivered[d] + Cardinality(PostsLeft(d)) <= (Retries + 1) * calls[DayKey(d)]
  BY DEF AgentAccounts
<1>3. delivered[d] \in Nat /\ delivered'[d] \in Nat /\ (Retries + 1) * calls[DayKey(d)] \in Nat
  BY AgentTypes, BudgetAssumption DEF TypeOK
<1>4. PostsLeft(d)' = {p \in Requests \X (0..Retries) :
                         OnAgent(requests'[p[1]], d) /\ requests'[p[1]].attempt <= p[2]}
  BY DEF PostsLeft, OnAgent
<1>5. /\ requests[r].attempt \in 0..Retries /\ new.attempt \in 0..Retries
      /\ requests[r].day \in Days
  BY DEF TypeOK, Request
<1>6. PostsLeft(d)' \subseteq PostsLeft(d) /\ post \notin PostsLeft(d)'
  <2>1. ASSUME NEW i \in 0..Retries, <<r, i>> \in PostsLeft(d)'
        PROVE  <<r, i>> \in PostsLeft(d) /\ i # requests[r].attempt
    <3>1. OnAgent(new, d) /\ new.attempt <= i
      BY <1>1, <1>4, <2>1
    <3>2. requests[r].day = d /\ new.attempt > requests[r].attempt
      BY <3>1 DEF OnAgent
    <3>3. requests[r].attempt <= i /\ i # requests[r].attempt
      BY <3>1, <3>2, <1>5, BudgetAssumption
    <3>4. OnAgent(requests[r], d)
      BY <3>2 DEF OnAgent, Calling
    <3>5. QED BY <3>3, <3>4 DEF PostsLeft
  <2>2. ASSUME NEW q \in Requests, NEW i \in 0..Retries, q # r, <<q, i>> \in PostsLeft(d)'
        PROVE  <<q, i>> \in PostsLeft(d)
    BY <1>1, <1>4, <2>2 DEF PostsLeft
  <2>3. QED BY <2>1, <2>2, <1>4, <1>5
<1>7. CASE d = requests[r].day
  <2>1. post \in PostsLeft(d)
    BY <1>5, <1>7, BudgetAssumption DEF PostsLeft, OnAgent, Calling
  <2>2. PostsLeft(d)' \subseteq PostsLeft(d) \ {post}
    BY <1>6
  <2> HIDE DEF post
  <2>3. IsFiniteSet(PostsLeft(d) \ {post})
        /\ Cardinality(PostsLeft(d) \ {post}) = Cardinality(PostsLeft(d)) - 1
    BY <2>1, PostsFinite, FS_RemoveElement
  <2>4. Cardinality(PostsLeft(d)') <= Cardinality(PostsLeft(d)) - 1
    BY <2>2, <2>3, FS_Subset
  <2>5. delivered'[d] <= delivered[d] + 1
    BY <1>3, <1>7 DEF Run, TypeOK
  <2>6. QED BY <1>2, <1>3, <2>4, <2>5, PostsFinite
<1>8. CASE d # requests[r].day
  <2>1. Cardinality(PostsLeft(d)') <= Cardinality(PostsLeft(d))
    BY <1>6, PostsFinite, FS_Subset
  <2>2. delivered'[d] = delivered[d]
    BY <1>8 DEF Run, TypeOK
  <2>3. QED BY <1>2, <1>3, <2>1, <2>2, PostsFinite
<1>9. QED BY <1>7, <1>8

\* A reservation that moves on, to its call at last, keeps the accounts.
LEMMA ProceedKeepsAgent ==
  ASSUME TypeOK, TypeOK', AgentAccounts, NEW r \in Requests, NEW request \in Request,
         NEW step \in {"idle", "daily", "monthly", "call"},
         Proceed(r, request, step), delivered' = delivered
  PROVE  AgentAccounts'
<1> DEFINE new == [request EXCEPT !.step = step]
<1>1. /\ new \in Request /\ requests' = [requests EXCEPT ![r] = new]
      /\ \A k \in Periods : calls'[k] =
           calls[k] + Bit(step = "call" /\ k \in {DayKey(request.day), MonthKey(request.day)})
  <2>1. new \in Request /\ requests' = [requests EXCEPT ![r] = new]
    BY DEF Proceed, Request
  <2>2. \A k \in Periods : calls[k] \in Nat
    BY DEF TypeOK
  <2>3. QED BY <2>1, <2>2 DEF Proceed, Bit
<1>2. new.step = step /\ new.day = request.day
  BY DEF Request
<1>3. \A k \in Periods : calls[k] <= calls'[k]
  BY <1>1 DEF TypeOK, Bit
<1>4. ASSUME NEW d \in Days, OnAgent(new, d) PROVE calls'[DayKey(d)] = calls[DayKey(d)] + 1
  <2>1. step = "call" /\ request.day = d /\ DayKey(d) \in Periods
    BY <1>2, <1>4, AgentTypes DEF OnAgent
  <2>2. QED BY <1>1, <2>1 DEF Bit
<1> HIDE DEF new
<1>5. QED BY <1>1, <1>3, <1>4, NoPostStep

\* A request that ends keeps them as well, whether or not it sent a POST.
LEMMA FinishKeepsAgent ==
  ASSUME TypeOK, TypeOK', AgentAccounts, NEW r \in Requests,
         NEW result \in {"agent", "primary", "fallback", "unavailable"}, Finish(r, result),
         UNCHANGED delivered \/ (Calling(r, "agent") /\ Run(r))
  PROVE  AgentAccounts'
<1> DEFINE new == [requests[r] EXCEPT !.step = "idle", !.result = result]
<1>1. new \in Request /\ requests' = [requests EXCEPT ![r] = new] /\ calls' = calls
  BY FinishFacts
<1>2. new.step = "idle"
  BY DEF TypeOK, Request
<1> HIDE DEF new
<1>3. CASE UNCHANGED delivered
  <2>1. \A k \in Periods : calls[k] <= calls'[k]
    BY <1>1 DEF TypeOK
  <2>2. QED BY <1>1, <1>2, <1>3, <2>1, NoPostStep DEF OnAgent
<1>4. CASE Calling(r, "agent") /\ Run(r)
  BY <1>1, <1>2, <1>4, PostStep
<1>5. QED BY <1>3, <1>4

LEMMA AgentInvariant == Spec => []AgentAccounts
<1>1. Init => AgentAccounts
  <2> SUFFICES ASSUME Init, NEW d \in Days
               PROVE  delivered[d] + Cardinality(PostsLeft(d)) <= (Retries + 1) * calls[DayKey(d)]
    BY DEF AgentAccounts
  <2>1. PostsLeft(d) = {}
    BY DEF Init, NewRequest, PostsLeft, OnAgent
  <2>2. Cardinality(PostsLeft(d)) = 0
    BY <2>1, FS_EmptySet
  <2>3. delivered[d] = 0 /\ calls[DayKey(d)] = 0
    BY KeyFacts DEF Init
  <2>4. QED BY <2>2, <2>3, BudgetAssumption
<1>2. TypeOK /\ TypeOK' /\ AgentAccounts /\ [Next]_vars => AgentAccounts'
  <2> SUFFICES ASSUME TypeOK, TypeOK', AgentAccounts, [Next]_vars PROVE AgentAccounts'
    OBVIOUS
  <2>1. CASE NextDay \/ UNCHANGED vars
    BY <2>1 DEF NextDay, vars, AgentAccounts, PostsLeft, OnAgent, DayKey
  <2>2. ASSUME NEW r \in Requests, Receive(r) PROVE AgentAccounts'
    <3> DEFINE request == NewRequest(config.runtime, today)
    <3>1. config.runtime \in {"agent", "primary", "fallback"} /\ 0 \in 0..Retries
      BY BudgetAssumption DEF TypeOK, Config
    <3>2. request \in Request
      BY <3>1 DEF NewRequest, Request, TypeOK
    <3>3. Proceed(r, request, NextStep("start")) /\ delivered' = delivered
      BY <2>2 DEF Receive
    <3> HIDE DEF request
    <3>4. QED BY <3>2, <3>3, NextStepFacts, ProceedKeepsAgent
  <2>3. ASSUME NEW r \in Requests, Admit(r) PROVE AgentAccounts'
    <3>1. requests[r] \in Request /\ requests[r].step \in {"daily", "monthly"}
      BY <2>3 DEF TypeOK, Admit, Checking
    <3>2. Proceed(r, requests[r], NextStep(requests[r].step)) /\ delivered' = delivered
      BY <2>3 DEF Admit
    <3>3. NextStep(requests[r].step) \in {"idle", "daily", "monthly", "call"}
      BY <3>1, NextStepFacts
    <3>4. QED BY <3>1, <3>2, <3>3, ProceedKeepsAgent
  <2>4. ASSUME NEW r \in Requests,
               Refuse(r) \/ FailCheck(r) \/ PrimaryAnswers(r) \/ FallbackAnswers(r)
                 \/ AgentAnswers(r) \/ AgentFails(r)
        PROVE  AgentAccounts'
    <3>1. PICK result \in {"agent", "primary", "fallback", "unavailable"} : Finish(r, result)
      BY <2>4 DEF Refuse, FailCheck, PrimaryAnswers, FallbackAnswers, AgentAnswers, AgentFails
    <3>2. UNCHANGED delivered \/ (Calling(r, "agent") /\ Run(r))
      BY <2>4 DEF Refuse, FailCheck, PrimaryAnswers, FallbackAnswers, AgentAnswers, AgentFails
    <3>3. QED BY <3>1, <3>2, FinishKeepsAgent
  <2>5. ASSUME NEW r \in Requests, FallbackFails(r) PROVE AgentAccounts'
    <3>1. Finish(r, Degraded(requests[r])) /\ UNCHANGED delivered
      BY <2>5 DEF FallbackFails
    <3>2. Degraded(requests[r]) \in {"agent", "primary", "fallback", "unavailable"}
      BY DEF Degraded
    <3>3. QED BY <3>1, <3>2, FinishKeepsAgent
  <2>6. ASSUME NEW r \in Requests, AgentTimesOut(r) PROVE AgentAccounts'
    <3>1. Calling(r, "agent") /\ (Run(r) \/ UNCHANGED delivered)
      BY <2>6 DEF AgentTimesOut
    <3>2. CASE requests[r].attempt < Retries
      <4> DEFINE new == [requests[r] EXCEPT !.attempt = @ + 1]
      <4>1. requests' = [requests EXCEPT ![r] = new] /\ calls' = calls
        BY <2>6, <3>2 DEF AgentTimesOut
      <4>2. requests[r] \in Request
        BY DEF TypeOK
      <4>3. requests[r].attempt + 1 \in 0 .. Retries
        BY <3>2, <4>2, BudgetAssumption DEF Request
      <4>4. new \in Request
        BY <4>2, <4>3 DEF Request
      <4>5. new.day = requests[r].day /\ new.attempt > requests[r].attempt
        BY <4>2 DEF Request
      <4> HIDE DEF new
      <4>6. QED BY <3>1, <4>1, <4>4, <4>5, PostStep
    <3>3. CASE ~(requests[r].attempt < Retries)
      <4>1. Finish(r, "unavailable")
        BY <2>6, <3>3 DEF AgentTimesOut
      <4>2. QED BY <3>1, <4>1, FinishKeepsAgent
    <3>4. QED BY <3>2, <3>3
  <2>7. ASSUME NEW r \in Requests, NEW text \in BOOLEAN, Calling(r, "primary"),
               Fallback(r, text), delivered' = delivered
        PROVE  AgentAccounts'
    <3> DEFINE request == [requests[r] EXCEPT !.text = text]
               reserving == [request EXCEPT !.stage = "fallback", !.day = today]
               ended == [request EXCEPT !.step = "idle", !.result = Degraded(request)]
    <3>1. /\ reserving \in Request /\ ended \in Request
          /\ \/ Proceed(r, reserving, NextStep("start"))
             \/ requests' = [requests EXCEPT ![r] = ended] /\ calls' = calls
      BY <2>7, FallbackFacts
    <3>2. ended.step = "idle"
      BY DEF TypeOK, Request
    <3> HIDE DEF request, reserving, ended
    <3>3. CASE Proceed(r, reserving, NextStep("start"))
      BY <2>7, <3>1, <3>3, NextStepFacts, ProceedKeepsAgent
    <3>4. CASE requests' = [requests EXCEPT ![r] = ended] /\ calls' = calls
      <4>1. \A k \in Periods : calls[k] <= calls'[k]
        BY <3>4 DEF TypeOK
      <4>2. QED BY <2>7, <3>1, <3>2, <3>4, <4>1, NoPostStep DEF OnAgent
    <3>5. QED BY <3>1, <3>3, <3>4
  <2>8. QED
    BY <2>1, <2>2, <2>3, <2>4, <2>5, <2>6, <2>7
    DEF Next, Handle, PrimaryIsPoor, PrimaryFails
<1>3. QED BY <1>1, <1>2, TypeInvariant, PTL DEF Spec

-----------------------------------------------------------------------------
\* What a request still has to await, at most: an answer of the primary model may
\* be followed by a whole reservation and call of the fallback.
StepsLeft(request) ==
  IF request.step = "idle" THEN 0
  ELSE (IF request.stage = "primary" THEN Retries + 3 ELSE 0)
       + (CASE request.step = "daily" -> Retries + 3
            [] request.step = "monthly" -> Retries + 2
            [] request.step = "call" -> Retries + 1 - request.attempt)

EachStepCounts ==
  [][\A r \in Requests :
       /\ Handle(r) => StepsLeft(requests'[r]) < StepsLeft(requests[r])
       /\ requests[r].step # "idle" => requests'[r] = requests[r] \/ Handle(r)]_vars

LEMMA StepsLeftType ==
  ASSUME NEW request \in Request
  PROVE  StepsLeft(request) \in Nat
BY BudgetAssumption DEF StepsLeft, Request

\* An ended request awaits nothing; one that awaits something has steps left.
LEMMA StepsLeftPositive ==
  ASSUME NEW request \in Request, request.step # "idle"
  PROVE  StepsLeft(request) > 0
BY BudgetAssumption DEF StepsLeft, Request

\* A reservation that moves on has fewer steps left.
LEMMA ProceedLowers ==
  ASSUME TypeOK, NEW r \in Requests, NEW done \in {"start", "daily", "monthly"},
         NEW request \in Request, Proceed(r, request, NextStep(done)),
         \/ request = requests[r] /\ done = request.step
         \/ /\ Calling(r, "primary") /\ done = "start" /\ request.stage = "fallback"
            /\ request.attempt = requests[r].attempt
  PROVE  StepsLeft(requests'[r]) < StepsLeft(requests[r])
<1> DEFINE next == NextStep(done)
           new == [request EXCEPT !.step = next]
<1>1. /\ next \in {"daily", "monthly", "call"}
      /\ next = "daily" => done = "start"
      /\ next = "monthly" => done # "monthly"
  BY NextStepFacts
<1>2. requests'[r] = new
  BY DEF Proceed, TypeOK
<1>3. new.step = next /\ new.stage = request.stage /\ new.attempt = request.attempt
  BY DEF Request
<1>4. /\ requests[r].attempt \in 0..Retries /\ request.attempt \in 0..Retries
      /\ requests[r] \in Request
  BY DEF TypeOK, Request
<1> HIDE DEF next, new
<1>5. CASE request = requests[r] /\ done = request.step
  <2>1. requests[r].stage = request.stage /\ requests[r].step = done
        /\ requests[r].attempt = request.attempt
    BY <1>5
  <2>2. CASE done = "daily"
    BY <1>1, <1>2, <1>3, <1>4, <2>1, <2>2, BudgetAssumption DEF StepsLeft
  <2>3. CASE done = "monthly"
    BY <1>1, <1>2, <1>3, <1>4, <2>1, <2>3, BudgetAssumption DEF StepsLeft
  <2>4. CASE done = "start"
    BY <1>4, <2>1, <2>4 DEF Request
  <2>5. QED BY <2>2, <2>3, <2>4
<1>6. CASE /\ Calling(r, "primary") /\ done = "start" /\ request.stage = "fallback"
           /\ request.attempt = requests[r].attempt
  BY <1>1, <1>2, <1>3, <1>4, <1>6, BudgetAssumption DEF StepsLeft, Calling
<1>7. QED BY <1>5, <1>6

-----------------------------------------------------------------------------
\* No interleaving corrupts a counter, a reservation or a request's state.
THEOREM TypeSafe == Spec => []TypeOK
BY TypeInvariant

\* No more provider calls are made on the reservations of a day or a month than
\* its limit allows, for any number of requests (reserveCall); and each of them
\* runs the agent at most once per POST, retries included (executeWithRetry).
THEOREM BudgetHolds == Spec => []WithinBudget
<1>1. Inv /\ AgentAccounts => WithinBudget
  <2> SUFFICES ASSUME Inv, AgentAccounts, NEW d \in Days
               PROVE  /\ config.daily > 0 => calls[DayKey(d)] <= config.daily
                      /\ config.monthly > 0 => calls[MonthKey(d)] <= config.monthly
                      /\ delivered[d] <= (Retries + 1) * calls[DayKey(d)]
    BY DEF WithinBudget
  <2>1. TypeOK /\ DayAccount(d) /\ Month[d] \in Days /\ MonthKey(d) = <<"monthly", Month[d]>>
    BY KeyFacts DEF Inv
  <2>2. MonthAccount(Month[d])
    BY <2>1 DEF Inv
  <2>3. ASSUME config.daily > 0 PROVE calls[DayKey(d)] <= config.daily
    <3>1. Reserved(d) <= config.daily
      BY <2>1, <2>3 DEF DayAccount, Figures
    <3>2. \A x, y, z \in Nat : x + y <= z => x <= z
      OBVIOUS
    <3>3. QED BY <3>1, <3>2, <2>1, AccountTypes DEF Reserved
  <2>4. config.monthly > 0 => calls[MonthKey(d)] <= config.monthly
    BY <2>1, <2>2 DEF MonthAccount, Figures
  <2>5. delivered[d] <= (Retries + 1) * calls[DayKey(d)]
    <3>1. delivered[d] + Cardinality(PostsLeft(d)) <= (Retries + 1) * calls[DayKey(d)]
      BY DEF AgentAccounts
    <3>2. (Retries + 1) * calls[DayKey(d)] \in Nat
      BY <2>1, AgentTypes, BudgetAssumption
    <3>3. QED BY <3>1, <3>2, <2>1, AgentTypes, PostsFinite
  <2>6. QED BY <2>3, <2>4, <2>5
<1>2. QED BY <1>1, BudgetInvariant, AgentInvariant, PTL

\* Refused requests never use up a month.
THEOREM MonthStaysUsable == Spec => []MonthIsUsable
<1>1. Inv => MonthIsUsable
  <2> SUFFICES ASSUME Inv, NEW d \in Days, config.monthly > 0,
                      counters[MonthKey(d)] > config.monthly
               PROVE  calls[MonthKey(d)] + faults >= config.monthly
    BY DEF MonthIsUsable
  <2>1. TypeOK /\ Month[d] \in Days /\ MonthKey(d) = <<"monthly", Month[d]>>
    BY KeyFacts DEF Inv
  <2>2. Figures(config.monthly, calls[MonthKey(d)], counters[MonthKey(d)], faults, FALSE)
    BY <2>1 DEF Inv, MonthAccount
  <2>3. \A l, u, c, f \in Nat : Figures(l, u, c, f, FALSE) /\ c > l => u + f >= l
    BY DEF Figures
  <2>4. QED BY <2>1, <2>2, <2>3, AccountTypes
<1>2. QED BY <1>1, BudgetInvariant, PTL

\* Refused requests use up a day only when its month is used up.
THEOREM DayStaysUsable == Spec => []DayIsUsable
<1>1. Inv => DayIsUsable
  <2> SUFFICES ASSUME Inv, NEW d \in Days, config.daily > 0, counters[DayKey(d)] > config.daily
               PROVE  \/ calls[DayKey(d)] + Cardinality(Pending(d)) + faults >= config.daily
                      \/ config.monthly > 0 /\ counters[MonthKey(d)] > config.monthly
    BY DEF DayIsUsable
  <2>1. TypeOK /\ Figures(config.daily, Reserved(d), counters[DayKey(d)], faults, MonthSpent(d))
    BY DEF Inv, DayAccount
  <2>2. \A l, u, c, f \in Nat : \A spent \in BOOLEAN :
          Figures(l, u, c, f, spent) /\ c > l => u + f >= l \/ spent
    BY DEF Figures
  <2>3. Reserved(d) + faults >= config.daily \/ MonthSpent(d)
    BY <2>1, <2>2, AccountTypes DEF MonthSpent
  <2>4. QED BY <2>3 DEF Reserved, MonthSpent
<1>2. QED BY <1>1, BudgetInvariant, PTL

\* A request with a text of the primary model ends without an answer only when
\* the budget, or a counter update, refused its fallback.
THEOREM AnswersAreKept == Spec => []NoAnswerDiscarded
<1>1. Inv => NoAnswerDiscarded
  BY DEF Inv
<1>2. QED BY <1>1, BudgetInvariant, PTL

\* No request waits for ever on a loop of its own: whatever its providers answer,
\* every step of a request takes one from what it still has to await, and nobody
\* else's step adds to it (reserveCall, executeWithRetry, generateFallback).
THEOREM EveryStepCounts == Spec => EachStepCounts
<1>1. ASSUME TypeOK, TypeOK', [Next]_vars, NEW r \in Requests
      PROVE  /\ Handle(r) => StepsLeft(requests'[r]) < StepsLeft(requests[r])
             /\ requests[r].step # "idle" => requests'[r] = requests[r] \/ Handle(r)
  <2>1. requests[r] \in Request /\ requests'[r] \in Request
    BY <1>1 DEF TypeOK
  <2>2. ASSUME requests[r].step # "idle", requests'[r].step = "idle"
        PROVE  StepsLeft(requests'[r]) < StepsLeft(requests[r])
    <3>1. StepsLeft(requests'[r]) = 0
      BY <2>2 DEF StepsLeft
    <3>2. StepsLeft(requests[r]) > 0
      BY <2>1, <2>2, StepsLeftPositive
    <3>3. QED BY <3>1, <3>2, <2>1, StepsLeftType
  <2>3. ASSUME NEW result, Finish(r, result) PROVE requests'[r].step = "idle"
    BY <1>1, <2>3 DEF Finish, TypeOK, Request
  <2>4. ASSUME Handle(r) PROVE StepsLeft(requests'[r]) < StepsLeft(requests[r])
    <3>1. requests[r].step # "idle"
      BY <2>4 DEF Handle, Admit, Refuse, FailCheck, Checking, Calling, AgentAnswers, AgentFails,
         AgentTimesOut, PrimaryAnswers, PrimaryIsPoor, PrimaryFails, FallbackAnswers,
         FallbackFails
    <3>2. CASE Admit(r)
      <4>1. requests[r] \in Request /\ requests[r].step \in {"daily", "monthly"}
            /\ Proceed(r, requests[r], NextStep(requests[r].step))
        BY <2>1, <3>2 DEF Admit, Checking
      <4>2. QED BY <1>1, <4>1, ProceedLowers
    <3>3. CASE \/ Refuse(r) \/ FailCheck(r) \/ AgentAnswers(r) \/ AgentFails(r)
               \/ PrimaryAnswers(r) \/ FallbackAnswers(r) \/ FallbackFails(r)
      <4>1. PICK result : Finish(r, result)
        BY <3>3 DEF Refuse, FailCheck, AgentAnswers, AgentFails, PrimaryAnswers,
           FallbackAnswers, FallbackFails
      <4>2. QED BY <2>2, <2>3, <3>1, <4>1
    <3>4. CASE AgentTimesOut(r)
      <4>1. CASE requests[r].attempt < Retries
        <5>1. /\ requests[r].step = "call" /\ requests[r].stage = "agent"
              /\ requests'[r] = [requests[r] EXCEPT !.attempt = @ + 1]
          BY <1>1, <3>4, <4>1 DEF AgentTimesOut, Calling, TypeOK
        <5>2. /\ requests'[r].step = "call" /\ requests'[r].stage = "agent"
              /\ requests'[r].attempt = requests[r].attempt + 1
          BY <2>1, <5>1 DEF Request
        <5>3. requests[r].attempt \in 0..Retries
          BY <2>1 DEF Request
        <5>4. QED BY <5>1, <5>2, <5>3, BudgetAssumption DEF StepsLeft
      <4>2. CASE ~(requests[r].attempt < Retries)
        BY <2>2, <2>3, <3>1, <3>4, <4>2 DEF AgentTimesOut
      <4>3. QED BY <4>1, <4>2
    <3>5. ASSUME NEW text \in BOOLEAN, Calling(r, "primary"), Fallback(r, text)
          PROVE  StepsLeft(requests'[r]) < StepsLeft(requests[r])
      <4> DEFINE request == [requests[r] EXCEPT !.text = text]
                 reserving == [request EXCEPT !.stage = "fallback", !.day = today]
                 ended == [request EXCEPT !.step = "idle", !.result = Degraded(request)]
      <4>1. /\ reserving \in Request /\ ended \in Request
            /\ \/ Proceed(r, reserving, NextStep("start"))
               \/ requests' = [requests EXCEPT ![r] = ended] /\ calls' = calls
        BY <1>1, <3>5, FallbackFacts
      <4>2. reserving.stage = "fallback" /\ reserving.attempt = requests[r].attempt
            /\ ended.step = "idle"
        BY <2>1 DEF Request
      <4> HIDE DEF request, reserving, ended
      <4>3. CASE Proceed(r, reserving, NextStep("start"))
        BY <1>1, <3>5, <4>1, <4>2, <4>3, ProceedLowers
      <4>4. CASE requests' = [requests EXCEPT ![r] = ended]
        <5>1. requests'[r] = ended
          BY <1>1, <4>4 DEF TypeOK
        <5>2. QED BY <2>2, <3>1, <4>2, <5>1
      <4>5. QED BY <4>1, <4>3, <4>4
    <3>6. QED
      BY <2>4, <3>2, <3>3, <3>4, <3>5 DEF Handle, PrimaryIsPoor, PrimaryFails
  <2>5. ASSUME requests[r].step # "idle", requests'[r] # requests[r] PROVE Handle(r)
    <3>1. PICK q \in Requests : Receive(q) \/ Handle(q)
      BY <1>1, <2>5 DEF Next, NextDay, vars
    <3>2. \E new : requests' = [requests EXCEPT ![q] = new]
      BY <3>1 DEF Receive, Handle, Admit, Refuse, FailCheck, AgentAnswers, AgentFails,
         AgentTimesOut, PrimaryAnswers, PrimaryIsPoor, PrimaryFails, FallbackAnswers,
         FallbackFails, Fallback, Finish, Proceed
    <3>3. q = r
      BY <1>1, <2>5, <3>2 DEF TypeOK
    <3>4. QED BY <2>5, <3>1, <3>3 DEF Receive
  <2>6. QED BY <2>4, <2>5
<1>2. TypeOK /\ TypeOK' /\ [Next]_vars
        => [\A r \in Requests :
              /\ Handle(r) => StepsLeft(requests'[r]) < StepsLeft(requests[r])
              /\ requests[r].step # "idle" => requests'[r] = requests[r] \/ Handle(r)]_vars
  BY <1>1
<1>3. QED BY <1>2, TypeInvariant, PTL DEF Spec, EachStepCounts
=============================================================================
