SPECIFICATION Spec
CONSTANTS
  w1 = w1
  w2 = w2
  NoDate = NoDate
  Workers <- OneWorker
  Windows <- OperatorWindows
  Lookback = 2
  Retention = 2
  Year = 1
  ChunkSize = 1
  MaxDay = 2
  MaxFaults = 0
INVARIANT
  DroppedRowsArePersisted
