SPECIFICATION NewKeysSpec
CONSTANTS
  IntMin <- MCIntMin
  IntMax = 4
  Keys <- MCKeys
  Data <- MCData
  Orders = {2, 4, 5}
  MaxCount = 7
VIEW NodesInOrder
INVARIANTS
  TypeOK NodesOwned Balanced LeavesLinked SearchFindsStored RangeSearchExact
PROPERTY ImplementsOrderedMap
