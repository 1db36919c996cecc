SPECIFICATION TableSpec
CONSTANTS
  Request = {r1, r2}
  Closer = {}
  QueueSize = 2
  MaxBatchSize = 2
  MaxBatchDelay = 0
  NoOwner = NoOwner
  Loops = {"manage"}
  Width = 3
  RootBits = 1
  Stride = 1
  Zero = Zero
  v = v
  w = w
  Mutations <- MappedMutations
  Catalogs <- MCCatalogs
  MaxEntries = 4
INVARIANT DeleteYanks
CHECK_DEADLOCK FALSE
