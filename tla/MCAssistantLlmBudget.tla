------------------------ MODULE MCAssistantLlmBudget ------------------------
(* Overlapping requests around midnight and around a month's end. *)
EXTENDS AssistantLlmBudget

CONSTANTS r1, r2

MCRequests == {r1, r2}

\* One month of two days, then a month of one.
MCMonth == [d \in Days |-> d \div 2]

MCConfigs ==
  {[runtime |-> "primary", fallback |-> TRUE, daily |-> 2, monthly |-> 3],
   [runtime |-> "primary", fallback |-> TRUE, daily |-> 0, monthly |-> 2],
   [runtime |-> "primary", fallback |-> FALSE, daily |-> 1, monthly |-> 0],
   [runtime |-> "agent", fallback |-> FALSE, daily |-> 1, monthly |-> 1]}

AgentConfigs ==
  {[runtime |-> "agent", fallback |-> FALSE, daily |-> 1, monthly |-> 0]}
=============================================================================
