SPECIFICATION Spec
CONSTANTS
  KeyBits = 8
  Delta = 2
  Items = 10
  RawSize = 5
  Keys <- MCKeys
  InitialSize = 1
  LoadNum = 3
  LoadDen = 4
  Values = {1}
  MaxWorkers = 4
  MaxMissed = 1
  MaxActive = 5
INVARIANT RangeComplete
