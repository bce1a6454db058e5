SPECIFICATION Spec
CONSTANTS
  KeyLengths <- MCKeyLengths
  Deltas <- MCDeltas
  ItemCounts = {1, 16, 40}
  RawSizes = {1, 6, 61}
  MaxInserted = 2
INVARIANTS TypeOK NoFalseNegatives PositionsInVector ShiftsFitKeys
