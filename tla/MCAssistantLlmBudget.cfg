SPECIFICATION FairSpec
CONSTANTS
  r1 = r1
  r2 = r2
  Requests <- MCRequests
  Configs <- MCConfigs
  Retries = 1
  MaxDay = 2
  Month <- MCMonth
  MaxReceived = 4
  MaxFaults = 1
INVARIANTS
  TypeOK
  WithinBudget
  MonthIsUsable
  DayIsUsable
  NoAnswerDiscarded
PROPERTIES
  EveryRequestEnds
CHECK_DEADLOCK FALSE
