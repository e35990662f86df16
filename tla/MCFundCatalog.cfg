\* One fund, two overlapping operations, two of them besides recalculations.
\* Deadlock is not checked: an empty table with nothing left to start is an end.
CONSTANTS
  w1 = w1
  w2 = w2
  NoRow = NoRow
  Workers <- MCWorkers
  Funds <- OneFund
  MaxJobs = 2
  MaxFaults = 1
SPECIFICATION FairSpec
INVARIANTS
  TypeOK
  AuditTrailMatchesVisibility
  UnblockOnlyAcrossLateBlock
PROPERTIES
  ImplementsLedger
  EventuallyReconciled
CHECK_DEADLOCK FALSE
