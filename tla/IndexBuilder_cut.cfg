SPECIFICATION BuilderSpec
CONSTANTS
  Width = 6
  RootBits = 2
  Stride = 2
  LowBits = 1
  NarrowBits = 1
  WideBits = 3
  OctetBits = 2
  minSeparatedSlots = 3
  subThreshold = 1
  BlockRoot = 2
  BlockBits = 2
  TrieFront = 3
  Offered <- MCOffered
  MaxRoutes = 4
INVARIANT LookupIsLongestMatch
