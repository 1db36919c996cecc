SPECIFICATION Spec
CONSTANTS
  Width = 6
  Stride = 2
  GroupSlots = 2
  MaxDead = 3
  Packages = {"artlpm", "artset", "arenaartset", "arenaartlpm", "artwalk"}
  Kinds = {"artset", "groupartset", "coverartset", "latticeartset"}
  TrieSpelled <- MCTrieSpelled
  TrieEntries <- MCTrieEntries
  SetSpelled <- MCSetSpelled
  ArenaSpelled <- MCArenaSpelled
  Loads <- MCLoads
  PlaceSpelled <- MCPlaceSpelled
  PlaceEntries <- MCPlaceEntries
  WalkSpelled <- MCWalkSpelled
  WalkEntries <- MCWalkEntries
INVARIANTS LookupIsAnnounced ContainsStored ContentIsAnnounced TriesArePruned ArenaIsPartitioned WalksAreNested
