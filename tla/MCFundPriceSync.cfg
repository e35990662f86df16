SPECIFICATION FairSpec
CONSTANTS
  w1 = w1
  w2 = w2
  NoDate = NoDate
  Workers <- MCWorkers
  Windows <- ScheduledWindows
  Lookback = 2
  Retention = 2
  Year = 1
  ChunkSize = 1
  MaxDay = 3
  MaxFaults = 1
INVARIANTS
  TypeOK
  NoDayLost
  ReturnsAccountedFor
PROPERTIES
  EventuallyFresh
