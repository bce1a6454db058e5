SPECIFICATION Spec
CONSTANTS
  IntMin <- MCIntMin
  IntMax = 4
  Keys <- MCKeys
  Data <- MCData
  Orders = {3}
  MaxCount = 6
VIEW NodesInOrder
INVARIANT SearchFindsStored
