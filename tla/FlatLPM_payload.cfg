SPECIFICATION TableSpec
CONSTANTS
  Request = {r1}
  Closer = {}
  QueueSize = 2
  MaxBatchSize = 2
  MaxBatchDelay = 0
  NoOwner = NoOwner
  Loops = {"manage"}
  Width = 3
  RootBits = 1
  Stride = 1
  Zero = Zero
  v = v
  w = w
  Mutations <- NativeMutations
  Catalogs <- MCCatalogs
  MaxEntries = 4
INVARIANT LookupIsLongestMatch
CHECK_DEADLOCK FALSE
