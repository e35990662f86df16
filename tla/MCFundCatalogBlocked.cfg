\* An administrator blocks a fund while a recalculation is about to change it.
CONSTANTS
  w1 = w1
  w2 = w2
  NoRow = NoRow
  Workers <- MCWorkers
  Funds <- TwoFunds
  MaxJobs = 2
  MaxFaults = 0
SPECIFICATION Spec
PROPERTIES
  BlockedNeverPromotedAutomatically
CHECK_DEADLOCK FALSE
