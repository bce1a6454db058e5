SPECIFICATION StorageSpec
CONSTANTS
  KeyBits = 8
  Delta = 2
  Items = 10
  RawSize = 5
  Keys <- MCKeys
  Values <- MCValues
  InitialSize = 1
  LoadNum = 3
  LoadDen = 4
  MaxWorkers = 3
  MaxRecords = 4
  Precision = 3
  MaxMissed = 1
  MaxActive = 4
INVARIANT CountsOnlyLive
