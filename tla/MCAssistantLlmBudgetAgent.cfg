SPECIFICATION Spec
CONSTANTS
  r1 = r1
  r2 = r2
  Requests <- MCRequests
  Configs <- AgentConfigs
  Retries = 1
  MaxDay = 0
  Month <- MCMonth
  MaxReceived = 1
  MaxFaults = 0
INVARIANTS
  AgentRunsWithinBudget
CHECK_DEADLOCK FALSE
