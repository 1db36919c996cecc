SPECIFICATION BuilderSpec
CONSTANTS
  Width = 6
  RootBits = 2
  Stride = 2
  FrontBits = 3
  WordBits = 3
  FrontThreshold = 2
  WalkBits = 2
  TrieFront = 3
  Offered4 <- MCOffered4
  Offered6 <- MCOffered6
  MaxPrefixes = 4
INVARIANTS RangesAreUnion RangesAreMinimal FlatSetIsExact DirSetIsExact ParentsAreMatches DescendantsAreNested
