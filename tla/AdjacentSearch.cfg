SPECIFICATION Spec
CONSTANTS
  KeyBits = 8
  Delta = 2
  Items = 10
  RawSize = 5
  Keys <- MCKeys
  MaxPresent = 3
INVARIANTS TypeOK NothingSkipped NearestOnTop ReturnsAdjacent StackBounded
PROPERTY Terminates
