\* Two overlapping jobs on three funds; recalculations never stop.
\* Deadlock is not checked: an empty table with no sync left is an end.
SPECIFICATION FairSpec
CONSTANTS
  w1 = w1
  w2 = w2
  None = None
  NoRow = NoRow
  Workers <- MCWorkers
  Funds <- MCFunds
  Benchmarks <- MCBenchmarks
  Category = 0
  Ter <- MCTer
  Seeds <- MCSeeds
  Limit = 2
  GroupsLimit = 1
  MaxWrites = 1
  MaxFaults = 1
INVARIANTS
  TypeOK
  GroupIsCurrent
  RankingsInOrder
  RankCountsUnlisted
PROPERTIES
  EventuallyCoherent
CHECK_DEADLOCK FALSE
