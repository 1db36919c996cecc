SPECIFICATION TableSpec
CONSTANTS
  Request = {r1, r2}
  Closer = {c1}
  QueueSize = 2
  MaxBatchSize = 2
  MaxBatchDelay = 1
  NoOwner = NoOwner
  Loops = {"manage", "drain", "range"}
  Width = 1
  PageSize = 2
  Zero = Zero
  v = v
  w = w
  Value = {Zero, v, w}
  Mutations <- MCMutations
  Catalogs <- MCCatalogs
  fibNext = 3
  Reader = {x1}
SYMMETRY Symmetry
INVARIANTS CatalogIsPublished StatsCountGenerations LookupIsLongestMatch
PROPERTIES GenerationsImmutable ImplementsRouteTable
CHECK_DEADLOCK FALSE
