SPECIFICATION Spec
CONSTANTS
  Ids <- MCIds
  Workers = {w1, w2, w3, w4}
  NoWorker = NoWorker
  InitialSize = 1
  LoadNum = 3
  LoadDen = 4
  MaxBatch = 2
SYMMETRY WorkerSymmetry
PROPERTY ImplementsWorkerTable
INVARIANTS
  TypeOK Geometry Placement RecordsCounted LookupFindsStored LoadBounded
