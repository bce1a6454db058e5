SPECIFICATION TypedSpec
CONSTANTS
  KeyBits = 8
  Delta = 2
  Items = 10
  RawSize = 5
  Keys <- MCKeys
  InitialSize = 1
  LoadNum = 3
  LoadDen = 4
  Values = {1, 2, 3, 4, 5, 6, 7}
  MaxWorkers = 3
  MaxMissed = 1
  MaxActive = 4
  ByteBits = 2
  MaxBytes = 2
  FloatScale = 2
  DoubleUnit = 4
  Percent = 1
  Uint64Keys <- MCUint64Keys
  DoubleKeys <- MCDoubleKeys
  StringKeys <- MCStringKeys
  Patterns <- MCPatterns
INVARIANTS
  TypeOK OneWorkerPerKey FilterKnowsKeys ChainSorted ChainComplete
  LookupsTyped TypedRanges PatternsFindPrefixes
PROPERTY ImplementsOrderedMap
