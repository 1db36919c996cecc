SPECIFICATION TableSpec
CONSTANTS
  Packages = {"flatlpm", "dirlpm"}
  Request = {r1, r2, r3}
  Closer = {}
  QueueSize = 2
  MaxBatchSize = 2
  MaxBatchDelay = 0
  NoOwner = NoOwner
  Loops = {"manage"}
  Width = 3
  RootBits = 1
  Stride = 1
  BlockRoot = 1
  BlockBits = 1
  Value = {Zero, v, w}
  Zero = Zero
  v = v
  w = w
  FlatMutations <- MCFlatMutations
  FlatCatalogs <- MCFlatCatalogs
  DirMutations <- MCDirMutations
  DirCatalogs <- MCDirCatalogs
  MaxEntries = 4
  maxSlot = 3
  MaxBlocks = 1
SYMMETRY Symmetry
INVARIANTS LookupIsLongestMatch
PROPERTIES GenerationsImmutable ImplementsRouteTable
CHECK_DEADLOCK FALSE
