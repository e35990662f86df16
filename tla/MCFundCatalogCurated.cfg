\* An administrator curates a label while a metadata sync is about to fill it.
CONSTANTS
  w1 = w1
  w2 = w2
  NoRow = NoRow
  Workers <- MCWorkers
  Funds <- TwoFunds
  MaxJobs = 2
  MaxFaults = 0
SPECIFICATION Spec
PROPERTIES
  CuratedCopyNeverOverwritten
CHECK_DEADLOCK FALSE
