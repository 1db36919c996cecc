----------------------------- MODULE LPMProofs ------------------------------
(***************************************************************************)
(* Proofs about the two indexes of the managed tables, flatart's trie and  *)
(* the leaf-pushed blocks of compiledfib and dirlpm, for every address     *)
(* width, root and stride and every finite set of prefixes.                *)
(***************************************************************************)
EXTENDS FlatART, BlockLPM, Foundations


-----------------------------------------------------------------------------
(* The longest of several prefixes of one address. *)

\* There is one longest prefix, and Longest chooses it.
LEMMA LongestIsUnique ==
    ASSUME NEW a \in Addr, NEW T \in SUBSET Prefix, \A p \in T : Covers(p, a), T # {}
    PROVE  /\ Longest(T) \in T
           /\ \A q \in T : q.bits <= Longest(T).bits
           /\ \A p \in T : (\A q \in T : q.bits <= p.bits) => p = Longest(T)
<1> DEFINE lengths == {p.bits : p \in T}
<1>1. \A p \in T : p.bits \in 0 .. Width
  BY PrefixType
<1>2. lengths \in SUBSET Nat /\ lengths # {} /\ \A b \in lengths : b <= Width
  BY <1>1, WidthAssumption
<1>3. Max(lengths) \in lengths /\ \A b \in lengths : b <= Max(lengths)
  <2> HIDE DEF lengths
  <2> QED BY <1>2, GreatestElement, WidthAssumption
<1>4. \E p \in T : \A q \in T : q.bits <= p.bits
  BY <1>3
<1>5. Longest(T) \in T /\ \A q \in T : q.bits <= Longest(T).bits
  BY <1>4 DEF Longest
<1> HIDE DEF lengths
<1>6. ASSUME NEW p \in T, \A q \in T : q.bits <= p.bits
      PROVE  p = Longest(T)
  <2>1. p.bits <= Longest(T).bits /\ Longest(T).bits <= p.bits
    BY <1>5, <1>6
  <2>2. p.bits \in Nat /\ Longest(T).bits \in Nat
    BY <1>1, <1>5, WidthAssumption
  <2>3. p.bits = Longest(T).bits
    BY <2>1, <2>2
  <2> QED BY <1>5, <2>3, MatchesDifferInLength
<1> QED BY <1>5, <1>6

\* Where T holds all matches that are long enough, its longest is the longest match.
LEMMA LongestOfTheLonger ==
    ASSUME NEW a \in Addr, NEW S \in SUBSET Prefix, NEW T \in SUBSET Matches(S, a), T # {},
           NEW bits \in Nat,
           \A p \in T : p.bits > bits, \A p \in Matches(S, a) \ T : p.bits <= bits
    PROVE  /\ Longest(T) \in T
           /\ Longest(T) = LongestMatch(S, a)
<1> DEFINE M == Matches(S, a)
<1>1. M \in SUBSET Prefix /\ \A p \in M : Covers(p, a)
  BY DEF Matches
<1>2. \A p \in M : p.bits \in Nat
  BY <1>1, PrefixType, WidthAssumption
<1>3. LongestMatch(S, a) = Longest(M)
  BY DEF LongestMatch, Longest
<1>4. Longest(T) \in T /\ \A q \in T : q.bits <= Longest(T).bits
  BY <1>1, LongestIsUnique
<1>5. \A q \in M : q.bits <= Longest(T).bits
  BY <1>2, <1>4
<1>6. Longest(T) = Longest(M)
  BY <1>1, <1>4, <1>5, LongestIsUnique
<1> QED BY <1>3, <1>4, <1>6

-----------------------------------------------------------------------------
(* flatart. *)

\* The strides that an address passes, from the root down.
StridesAreEven ==
    /\ RootBits \in 1 .. Width
    /\ StrideBits \in SUBSET (0 .. Width)
    /\ \A b \in StrideBits : b >= RootBits
    /\ \A b \in StrideBits : b = RootBits \/ b - Stride \in StrideBits
    /\ \A b \in StrideBits : b + Stride \in StrideBits \/ b + Stride = Width
    /\ StrideBits = {} => RootBits = Width
    /\ StrideBits # {} => RootBits \in StrideBits
    /\ \A b, c \in StrideBits : b < c => b + Stride <= c

LEMMA StridesPassed == StridesAreEven
<1> DEFINE n == (Width - RootBits) \div Stride
<1>1. RootBits \in 1 .. Width /\ Stride \in Nat \ {0} /\ Width \in Nat /\ Width - RootBits \in Nat
  BY StrideAssumption, WidthAssumption
<1>2. n \in Nat /\ Width - RootBits = n * Stride
  <2>1. /\ n \in Nat
        /\ Width - RootBits = n * Stride + ((Width - RootBits) % Stride)
        /\ ((Width - RootBits) % Stride) = 0
    BY <1>1, DivisionWithRemainder, StrideAssumption
  <2>2. n * Stride \in Nat
    BY <1>1, <2>1
  <2> QED BY <2>1, <2>2
<1> HIDE DEF n
<1>3. StrideBits = {RootBits + Stride * d : d \in 0 .. n - 1}
  BY DEF StrideBits, n
<1>4. ASSUME NEW d \in 0 .. n
      PROVE  /\ Stride * d \in Nat
             /\ Stride * (d + 1) = Stride * d + Stride
             /\ Stride * d <= n * Stride
  <2>1. Stride * d \in Nat /\ Stride * (d + 1) = Stride * d + Stride
    BY <1>1, <1>2
  <2>2. n - d \in Nat /\ (n - d) * Stride \in Nat /\ n * Stride = Stride * d + (n - d) * Stride
    BY <1>1, <1>2
  <2> QED BY <2>1, <2>2
<1>5. Stride * 0 = 0 /\ Width = RootBits + n * Stride
  BY <1>1, <1>2
<1>6. ASSUME NEW b \in StrideBits
      PROVE  /\ b \in 0 .. Width /\ b >= RootBits
             /\ b = RootBits \/ b - Stride \in StrideBits
             /\ b + Stride \in StrideBits \/ b + Stride = Width
  <2>1. PICK d \in 0 .. n - 1 : b = RootBits + Stride * d
    BY <1>3
  <2>2. d \in 0 .. n /\ d + 1 \in 0 .. n
    BY <1>2
  <2>3. b \in 0 .. Width /\ b >= RootBits
    BY <1>1, <1>2, <1>4, <1>5, <2>1, <2>2
  <2>4. b = RootBits \/ b - Stride \in StrideBits
    <3>1. CASE d = 0
      BY <1>1, <1>5, <2>1, <3>1
    <3>2. CASE d # 0
      <4>1. d - 1 \in 0 .. n - 1 /\ d - 1 \in 0 .. n /\ d - 1 + 1 = d
        BY <1>2, <3>2
      <4>2. Stride * d = Stride * (d - 1) + Stride
        BY <1>4, <4>1
      <4>3. Stride * (d - 1) \in Nat
        BY <1>4, <4>1
      <4>4. b - Stride = RootBits + Stride * (d - 1)
        BY <1>1, <2>1, <4>2, <4>3
      <4> QED BY <1>3, <4>1, <4>4
    <3> QED BY <3>1, <3>2
  <2>5. b + Stride \in StrideBits \/ b + Stride = Width
    <3>1. b + Stride = RootBits + Stride * (d + 1)
      BY <1>1, <1>4, <2>1, <2>2
    <3>2. CASE d + 1 = n
      <4>1. Stride * n = n * Stride
        BY <1>1, <1>2
      <4> QED BY <1>5, <3>1, <3>2, <4>1
    <3>3. CASE d + 1 # n
      <4>1. d + 1 \in 0 .. n - 1
        BY <1>2, <2>2, <3>3
      <4> QED BY <1>3, <3>1, <4>1
    <3> QED BY <3>2, <3>3
  <2> QED BY <2>3, <2>4, <2>5
<1>7. StrideBits = {} => RootBits = Width
  <2>1. n # 0 => 0 \in 0 .. n - 1
    BY <1>2
  <2>2. n # 0 => StrideBits # {}
    BY <1>3, <2>1
  <2>3. n = 0 => n * Stride = 0
    BY <1>1
  <2> QED BY <1>1, <1>5, <2>2, <2>3
<1>8. StrideBits # {} => RootBits \in StrideBits
  <2>1. StrideBits # {} => 0 \in 0 .. n - 1
    BY <1>2, <1>3
  <2>2. RootBits = RootBits + Stride * 0
    BY <1>1, <1>5
  <2> QED BY <1>3, <2>1, <2>2
<1>9. ASSUME NEW b \in StrideBits, NEW c \in StrideBits, b < c
      PROVE  b + Stride <= c
  <2>1. PICK d \in 0 .. n - 1 : b = RootBits + Stride * d
    BY <1>3
  <2>2. PICK e \in 0 .. n - 1 : c = RootBits + Stride * e
    BY <1>3
  <2>3. Stride * d \in Nat /\ Stride * e \in Nat /\ Stride * d < Stride * e
    BY <1>1, <1>2, <1>4, <1>9, <2>1, <2>2
  <2>4. d < e
    <3> SUFFICES ASSUME e <= d PROVE FALSE
      BY <1>2
    <3>1. d - e \in Nat /\ (d - e) * Stride \in Nat /\ Stride * d = Stride * e + (d - e) * Stride
      BY <1>1, <1>2
    <3> QED BY <2>3, <3>1
  <2>5. e - (d + 1) \in Nat /\ (e - (d + 1)) * Stride \in Nat
        /\ Stride * e = Stride * d + Stride + (e - (d + 1)) * Stride
    BY <1>1, <1>2, <2>4
  <2> QED BY <1>1, <2>1, <2>2, <2>3, <2>5
<1> QED BY <1>1, <1>6, <1>7, <1>8, <1>9 DEF StridesAreEven

\* A slot stands for the longest of some prefixes, and no slot for none.
StandsFor(S, slot, T) ==
    IF T = {} THEN slot = NoSlot
    ELSE slot \in Slots(S) /\ RefOf(S, slot) = Longest(T)

\* What the path of an address splits the matches into: those above it, which
\* cover all of it, and those below it.
PathSplits(S, a, path) ==
    /\ path \in Prefix /\ path.key \in Addr /\ Covers(path, a)
    /\ Above(S, path) = {p \in Matches(S, a) : p.bits <= path.bits}
    /\ \A p \in Matches(S, a) : p.bits > path.bits => p \in Below(S, path)
    /\ \A p \in Below(S, path) : PathOf(p.key, path.bits) = path

\* Prefixes are nested or apart, so a path splits the matches of its addresses.
LEMMA PathsSplitMatches ==
    ASSUME NEW S \in SUBSET Prefix, NEW a \in Addr, NEW bits \in 0 .. Width
    PROVE  PathOf(a, bits).bits = bits /\ PathSplits(S, a, PathOf(a, bits))
<1> DEFINE path == PathOf(a, bits)
<1>1. path \in Prefix /\ path.bits = bits /\ path.key \in Addr /\ Covers(path, a)
  BY MaskedCovers DEF PathOf
<1> HIDE DEF path
<1>2. ASSUME NEW p \in S
      PROVE  /\ p \in Prefix /\ p.bits \in Nat /\ p.key \in Addr
             /\ p.bits <= bits => (Covers(p, path.key) <=> Covers(p, a))
             /\ Covers(p, a) /\ p.bits > bits => Covers(path, p.key)
             /\ Covers(path, p.key) => PathOf(p.key, bits) = path
  <2>1. p \in Prefix /\ p.bits \in 0 .. Width
    BY PrefixType
  <2>2. PICK key \in Addr, b \in 0 .. Width : p = Masked(key, b)
    BY <2>1 DEF Prefix
  <2>3. p.key \in Addr
    BY <2>2, MaskedCovers
  <2>4. p.bits <= bits => (Covers(p, path.key) <=> Covers(p, a))
    BY <1>1, <2>1, PrefixesNest
  <2>5. Covers(p, a) /\ p.bits > bits => Covers(path, p.key)
    <3>1. p.bits > bits => path.bits <= p.bits
      BY <1>1, <2>1, WidthAssumption
    <3> QED BY <1>1, <2>1, <3>1, PrefixesNest
  <2>6. Covers(path, p.key) => PathOf(p.key, bits) = path
    BY <1>1, <2>3, CoverIsMasked DEF PathOf
  <2> QED BY <2>1, <2>3, <2>4, <2>5, <2>6, WidthAssumption
<1>3. Above(S, path) = {p \in Matches(S, a) : p.bits <= path.bits}
  BY <1>1, <1>2 DEF Above, Matches
<1>4. \A p \in Matches(S, a) : p.bits > path.bits => p \in Below(S, path)
  BY <1>1, <1>2 DEF Below, Matches
<1>5. \A p \in Below(S, path) : PathOf(p.key, path.bits) = path
  BY <1>1, <1>2 DEF Below
<1>6. PathSplits(S, a, path)
  BY <1>1, <1>3, <1>4, <1>5 DEF PathSplits
<1> QED BY <1>1, <1>6 DEF path

\* A path has nothing below it, is a leaf with one prefix below it, or a stride.
LEMMA PathsBuilt ==
    ASSUME NEW S, IsFiniteSet(S), NEW path
    PROVE  /\ Below(S, path) \in SUBSET S
           /\ IsStride(S, path) => Below(S, path) # {}
           /\ IsLeaf(S, path) => \E only : Below(S, path) = {only}
           /\ Below(S, path) # {} => IsLeaf(S, path) \/ IsStride(S, path)
<1> DEFINE T == Below(S, path)
<1>1. T \in SUBSET S
  BY DEF Below
<1> HIDE DEF T
<1>2. IsFiniteSet(T)
  BY <1>1, FS_Subset
<1>3. Cardinality(T) \in Nat
  BY <1>2, FS_CardinalityType
<1>4. Cardinality(T) = 0 <=> T = {}
  BY <1>2, FS_EmptySet
<1>5. Cardinality(T) = 1 <=> \E only : T = {only}
  BY <1>2, FS_Singleton
<1>6. T # {} => Cardinality(T) = 1 \/ Cardinality(T) >= 2
  BY <1>3, <1>4
<1>7. Cardinality(T) >= 2 => T # {}
  BY <1>3, <1>4
<1> QED BY <1>1, <1>5, <1>6, <1>7 DEF T, IsLeaf, IsStride

\* A stride on the way to an address has a copy slot when anything is above it,
\* and the copy is filled with the longest prefix above.
LEMMA StridesHaveCopies ==
    ASSUME NEW S \in SUBSET Prefix, IsFiniteSet(S), NEW a \in Addr, NEW bits \in StrideBits,
           IsStride(S, PathOf(a, bits)), Above(S, PathOf(a, bits)) # {}
    PROVE  StandsFor(S, Copy(PathOf(a, bits)), Above(S, PathOf(a, bits)))
<1> DEFINE path == PathOf(a, bits)
<1>1. bits \in 0 .. Width
  BY StridesPassed DEF StridesAreEven
<1>2. path.bits = bits /\ PathSplits(S, a, path)
  BY <1>1, PathsSplitMatches
<1>3. PICK p \in S : p \in Below(S, path)
  BY PathsBuilt
<1>4. PathOf(p.key, bits) = path
  BY <1>2, <1>3 DEF PathSplits
<1>5. path \in Strides(S)
  BY <1>4 DEF Strides
<1>6. Copy(path) \in Slots(S) /\ RefOf(S, Copy(path)) = Longest(Above(S, path))
  <2>1. Copy(path).kind = "copy" /\ Copy(path).of = path
    BY DEF Copy
  <2> QED BY <1>5, <2>1 DEF Slots, RefOf
<1> QED BY <1>6 DEF StandsFor

\* A prefix of the set has a slot of its own, filled with it.
LEMMA PrefixesHaveSlots ==
    ASSUME NEW S, NEW T \in SUBSET S, T # {}, Longest(T) \in T
    PROVE  StandsFor(S, Own(Longest(T)), T)
<1>1. Own(Longest(T)) \in Slots(S)
  BY DEF Slots
<1>2. RefOf(S, Own(Longest(T))) = Longest(T)
  BY DEF RefOf, Own
<1> QED BY <1>1, <1>2 DEF StandsFor

\* What a path inherits stands for the longest prefix that covers all of it,
\* when the strides on the way to it are built.
LEMMA InheritedIsLongest ==
    ASSUME NEW S \in SUBSET Prefix, IsFiniteSet(S), NEW a \in Addr, NEW bits \in StrideBits,
           bits = RootBits \/ IsStride(S, PathOf(a, bits - Stride))
    PROVE  StandsFor(S, Inherited(S, PathOf(a, bits)), Above(S, PathOf(a, bits)))
<1> DEFINE path == PathOf(a, bits)
           above == Above(S, path)
           parent == bits - Stride
           up == PathOf(a, parent)
<1>1. bits \in 0 .. Width /\ RootBits \in 0 .. Width /\ Stride \in Nat \ {0}
  BY StridesPassed, StrideAssumption, WidthAssumption DEF StridesAreEven
<1>2. path.bits = bits /\ PathSplits(S, a, path)
  BY <1>1, PathsSplitMatches
<1>3. above \in SUBSET Matches(S, a) /\ Matches(S, a) \in SUBSET S
  BY <1>2 DEF PathSplits, Matches
<1>4. Inherited(S, path) = IF above = {} THEN NoSlot
                           ELSE IF bits = RootBits \/ Longest(above).bits > parent
                           THEN Own(Longest(above))
                           ELSE Copy(PathOf(path.key, parent))
  BY <1>2 DEF Inherited
<1>5. CASE above = {}
  BY <1>4, <1>5 DEF StandsFor
<1>6. CASE above # {}
  <2> USE <1>6
  <2>1. above \in SUBSET Prefix /\ \A p \in above : Covers(p, a)
    BY <1>3 DEF Matches
  <2>2. Longest(above) \in above /\ \A q \in above : q.bits <= Longest(above).bits
    <3> HIDE DEF above
    <3> QED BY <2>1, LongestIsUnique
  <2>3. CASE bits = RootBits \/ Longest(above).bits > parent
    <3>1. Inherited(S, path) = Own(Longest(above))
      BY <1>4, <2>3
    <3>2. StandsFor(S, Own(Longest(above)), above)
      <4> HIDE DEF above
      <4> QED BY <1>3, <2>2, PrefixesHaveSlots
    <3> QED BY <3>1, <3>2
  <2>4. CASE ~(bits = RootBits \/ Longest(above).bits > parent)
    <3>1. parent \in StrideBits /\ IsStride(S, up)
      BY <2>4, StridesPassed DEF StridesAreEven
    <3>2. parent \in 0 .. Width /\ parent \in 0 .. bits
      BY <1>1, <3>1, StridesPassed DEF StridesAreEven
    <3>3. up.bits = parent /\ PathSplits(S, a, up)
      BY <3>2, PathsSplitMatches
    <3>4. PathOf(path.key, parent) = up
      BY <1>1, <3>2, MaskedTwice DEF PathOf
    <3>5. Above(S, up) = above
      <4>1. above = {p \in Matches(S, a) : p.bits <= bits}
        BY <1>2 DEF PathSplits
      <4>2. Above(S, up) = {p \in Matches(S, a) : p.bits <= parent}
        BY <3>3 DEF PathSplits
      <4>3. \A p \in Matches(S, a) : p.bits \in Nat
        BY PrefixType, WidthAssumption DEF Matches
      <4>4. Longest(above).bits \in Nat /\ Longest(above).bits <= parent
        BY <1>3, <2>2, <2>4, <3>2, <4>3
      <4>5. \A p \in above : p.bits <= parent
        BY <1>3, <2>2, <3>2, <4>3, <4>4
      <4>6. \A p \in Matches(S, a) : p.bits <= parent => p.bits <= bits
        BY <1>1, <3>2, <4>3
      <4> QED BY <4>1, <4>2, <4>5, <4>6
    <3>6. Inherited(S, path) = Copy(up)
      BY <1>4, <2>4, <3>4
    <3>7. StandsFor(S, Copy(up), above)
      BY <3>1, <3>5, StridesHaveCopies
    <3> QED BY <3>6, <3>7
  <2> QED BY <2>3, <2>4
<1> QED BY <1>5, <1>6

\* Whatever finite set of prefixes was built, Lookup4 and Lookup6 end at the slot
\* of the longest prefix covering the address, or at no slot when none does.
LEMMA LookupEndsAtLongest ==
    ASSUME NEW S \in SUBSET Prefix, IsFiniteSet(S), NEW a \in Addr
    PROVE  StandsFor(S, LookupSlot(S, a), Matches(S, a))
<1> DEFINE M == Matches(S, a)
           paths == {PathOf(a, bits) : bits \in StrideBits}
           built == {path \in paths :
                       /\ Below(S, path) # {}
                       /\ \A up \in paths : up.bits < path.bits => IsStride(S, up)}
           deepest == Longest(built)
           here == {p \in M : p.bits > deepest.bits /\ p.bits <= deepest.bits + Stride}
           root == {p \in M : p.bits <= RootBits}
           only == CHOOSE p \in Below(S, deepest) : TRUE
<1>1. /\ RootBits \in 0 .. Width /\ Stride \in Nat \ {0} /\ Width \in Nat
      /\ \A b \in StrideBits : b \in 0 .. Width /\ b >= RootBits
  BY StridesPassed, StrideAssumption, WidthAssumption DEF StridesAreEven
<1>2. /\ M \in SUBSET S /\ M \in SUBSET Prefix
      /\ \A p \in M : p.bits \in Nat /\ p.bits <= Width /\ Covers(p, a)
  BY PrefixType, WidthAssumption DEF Matches
<1>3. LongestMatch(S, a) = Longest(M)
  BY DEF LongestMatch, Longest
<1>4. \A b \in StrideBits : PathOf(a, b).bits = b /\ PathSplits(S, a, PathOf(a, b))
  BY <1>1, PathsSplitMatches
<1>5. \A path \in paths : /\ path.bits \in StrideBits /\ path = PathOf(a, path.bits)
                          /\ PathSplits(S, a, path)
  BY <1>4
<1>6. LookupSlot(S, a) =
        CASE built = {} -> IF root = {} THEN NoSlot ELSE Own(Longest(root))
          [] built # {} /\ IsLeaf(S, deepest) ->
               IF Covers(only, a) THEN Own(only) ELSE Inherited(S, deepest)
          [] OTHER ->
               IF here # {} THEN Own(Longest(here))
               ELSE IF Above(S, deepest) # {} THEN Copy(deepest)
               ELSE NoSlot
  BY DEF LookupSlot
<1>7. ASSUME M # {}, NEW T \in SUBSET M, T # {}, NEW bits \in Nat,
             \A p \in T : p.bits > bits, \A p \in M \ T : p.bits <= bits
      PROVE  StandsFor(S, Own(Longest(T)), M)
  <2>1. Longest(T) \in T /\ Longest(T) = Longest(M)
    BY <1>3, <1>7, LongestOfTheLonger
  <2>2. T \in SUBSET S
    BY <1>2
  <2>3. StandsFor(S, Own(Longest(T)), T)
    BY <1>7, <2>1, <2>2, PrefixesHaveSlots
  <2> QED BY <1>7, <2>1, <2>3 DEF StandsFor
<1> HIDE DEF M, paths
<1>8. ASSUME built # {}
      PROVE  /\ deepest \in paths /\ Below(S, deepest) # {}
             /\ \A up \in paths : up.bits < deepest.bits => IsStride(S, up)
             /\ \A path \in built : path.bits <= deepest.bits
  <2>1. built \in SUBSET Prefix /\ \A path \in built : Covers(path, a)
    BY <1>5 DEF PathSplits
  <2>2. deepest \in built /\ \A path \in built : path.bits <= deepest.bits
    <3> HIDE DEF built
    <3> QED BY <1>8, <2>1, LongestIsUnique
  <2> QED BY <2>2
<1> HIDE DEF deepest
<1>9. CASE built = {}
  <2>1. \A m \in M : m.bits <= RootBits
    <3> SUFFICES ASSUME NEW m \in M, m.bits > RootBits PROVE FALSE
      BY <1>1, <1>2
    <3>1. RootBits \in StrideBits
      <4>1. RootBits # Width
        BY <1>1, <1>2
      <4> QED BY <4>1, StridesPassed DEF StridesAreEven
    <3> DEFINE first == PathOf(a, RootBits)
    <3>2. first \in paths /\ first.bits = RootBits
      BY <1>4, <3>1 DEF paths
    <3>3. m \in Below(S, first)
      BY <1>5, <3>2 DEF PathSplits, M
    <3>4. \A up \in paths : ~(up.bits < first.bits)
      BY <1>1, <1>5, <3>2
    <3>5. first \in built
      BY <3>2, <3>3, <3>4
    <3> QED BY <1>9, <3>5
  <2>2. root = M
    BY <2>1
  <2>3. LookupSlot(S, a) = IF M = {} THEN NoSlot ELSE Own(Longest(M))
    BY <1>6, <1>9, <2>2
  <2>4. M # {} => Longest(M) \in M
    BY <1>2, LongestIsUnique
  <2>5. M # {} => StandsFor(S, Own(Longest(M)), M)
    BY <1>2, <2>4, PrefixesHaveSlots
  <2>6. StandsFor(S, LookupSlot(S, a), M)
    BY <2>3, <2>5 DEF StandsFor
  <2> QED BY <2>6 DEF M
<1>10. ASSUME built # {}, \A p \in M : ~(p.bits > deepest.bits)
       PROVE  M = Above(S, deepest)
  <2>1. PathSplits(S, a, deepest) /\ deepest.bits \in Nat
    BY <1>1, <1>5, <1>8, <1>10
  <2>2. \A p \in M : p.bits <= deepest.bits
    BY <1>2, <1>10, <2>1
  <2> QED BY <2>1, <2>2 DEF PathSplits, M
<1>11. CASE built # {} /\ IsLeaf(S, deepest)
  <2>1. deepest.bits \in StrideBits /\ deepest = PathOf(a, deepest.bits) /\ PathSplits(S, a, deepest)
    BY <1>5, <1>8, <1>11
  <2>2. Below(S, deepest) = {only} /\ only \in S /\ only.bits > deepest.bits
    <3>1. PICK x : Below(S, deepest) = {x}
      BY <1>11, PathsBuilt
    <3>2. only = x
      BY <3>1
    <3> QED BY <3>1, <3>2 DEF Below
  <2>3. \A p \in M : p.bits > deepest.bits => p = only
    BY <2>1, <2>2 DEF PathSplits, M
  <2> HIDE DEF only
  <2>4. LookupSlot(S, a) = IF Covers(only, a) THEN Own(only) ELSE Inherited(S, deepest)
    BY <1>6, <1>11 DEF only
  <2>5. CASE Covers(only, a)
    <3>1. only \in M
      BY <2>2, <2>5 DEF M, Matches
    <3>2. deepest.bits \in Nat
      BY <1>1, <2>1
    <3>3. \A p \in M \ {only} : p.bits <= deepest.bits
      BY <1>2, <2>3, <3>2
    <3>4. StandsFor(S, Own(Longest({only})), M)
      BY <1>7, <2>2, <3>1, <3>2, <3>3
    <3>5. Longest({only}) = only
      <4>1. Longest({only}) \in {only}
        BY <1>2, <3>1, LongestIsUnique
      <4> QED BY <4>1
    <3>6. LookupSlot(S, a) = Own(only)
      BY <2>4, <2>5
    <3> QED BY <3>4, <3>5, <3>6 DEF M
  <2>6. CASE ~Covers(only, a)
    <3>1. \A p \in M : ~(p.bits > deepest.bits)
      BY <1>2, <2>3, <2>6
    <3>2. M = Above(S, deepest)
      BY <1>10, <1>11, <3>1
    <3>3. deepest.bits = RootBits \/ IsStride(S, PathOf(a, deepest.bits - Stride))
      <4>1. ASSUME deepest.bits - Stride \in StrideBits
            PROVE  IsStride(S, PathOf(a, deepest.bits - Stride))
        <5> DEFINE parent == deepest.bits - Stride
        <5>1. PathOf(a, parent) \in paths /\ PathOf(a, parent).bits = parent
          BY <1>4, <4>1 DEF paths
        <5>2. parent < deepest.bits
          BY <1>1, <2>1
        <5> HIDE DEF parent
        <5>3. IsStride(S, PathOf(a, parent))
          BY <1>8, <1>11, <5>1, <5>2
        <5> QED BY <5>3 DEF parent
      <4> QED BY <2>1, <4>1, StridesPassed DEF StridesAreEven
    <3>4. StandsFor(S, Inherited(S, PathOf(a, deepest.bits)), Above(S, PathOf(a, deepest.bits)))
      BY <2>1, <3>3, InheritedIsLongest
    <3>5. LookupSlot(S, a) = Inherited(S, deepest)
      BY <2>4, <2>6
    <3> QED BY <2>1, <3>2, <3>4, <3>5 DEF M
  <2> QED BY <2>5, <2>6
<1>12. CASE built # {} /\ ~IsLeaf(S, deepest)
  <2>1. deepest.bits \in StrideBits /\ deepest = PathOf(a, deepest.bits) /\ PathSplits(S, a, deepest)
    BY <1>5, <1>8, <1>12
  <2>2. IsStride(S, deepest)
    BY <1>8, <1>12, PathsBuilt
  <2>3. deepest.bits \in Nat /\ deepest.bits + Stride \in Nat
    BY <1>1, <2>1
  <2>4. \A m \in M : m.bits <= deepest.bits + Stride
    <3> DEFINE next == deepest.bits + Stride
    <3> SUFFICES ASSUME NEW m \in M, m.bits > next PROVE FALSE
      BY <1>2, <2>3
    <3>1. next \in StrideBits
      <4>1. next # Width
        BY <1>1, <1>2, <2>3
      <4> QED BY <2>1, <4>1, StridesPassed DEF StridesAreEven
    <3>2. next > deepest.bits
      BY <1>1, <2>3
    <3>3. \A up \in paths : up.bits < next => IsStride(S, up)
      <4> SUFFICES ASSUME NEW up \in paths, up.bits < next PROVE IsStride(S, up)
        OBVIOUS
      <4>1. up.bits \in StrideBits /\ up = PathOf(a, up.bits)
        BY <1>5
      <4>2. ~(deepest.bits < up.bits)
        <5>1. deepest.bits < up.bits => next <= up.bits
          BY <2>1, <4>1, StridesPassed DEF StridesAreEven
        <5> QED BY <1>1, <2>3, <4>1, <5>1
      <4>3. up.bits = deepest.bits \/ up.bits < deepest.bits
        BY <1>1, <2>3, <4>1, <4>2
      <4>4. up.bits = deepest.bits => up = deepest
        BY <2>1, <4>1
      <4> QED BY <1>8, <1>12, <2>2, <4>3, <4>4
    <3> HIDE DEF next
    <3>4. PathOf(a, next) \in paths /\ PathOf(a, next).bits = next /\ PathSplits(S, a, PathOf(a, next))
      BY <1>4, <3>1 DEF paths
    <3>5. m \in Below(S, PathOf(a, next))
      BY <3>4 DEF PathSplits, M
    <3>6. PathOf(a, next) \in built
      BY <3>3, <3>4, <3>5
    <3>7. next <= deepest.bits
      BY <1>8, <1>12, <3>4, <3>6
    <3> QED BY <1>1, <2>3, <3>1, <3>2, <3>7
  <2>5. LookupSlot(S, a) = IF here # {} THEN Own(Longest(here))
                           ELSE IF Above(S, deepest) # {} THEN Copy(deepest)
                           ELSE NoSlot
    BY <1>6, <1>12
  <2>6. CASE here # {}
    <3>1. here \in SUBSET M /\ M # {} /\ \A p \in here : p.bits > deepest.bits
      BY <2>6
    <3>2. \A p \in M \ here : p.bits <= deepest.bits
      BY <1>2, <2>3, <2>4
    <3>3. LookupSlot(S, a) = Own(Longest(here))
      BY <2>5, <2>6
    <3> HIDE DEF here
    <3>4. StandsFor(S, Own(Longest(here)), M)
      BY <1>7, <2>3, <2>6, <3>1, <3>2
    <3> QED BY <3>3, <3>4 DEF M
  <2>7. CASE here = {}
    <3>1. \A p \in M : ~(p.bits > deepest.bits)
      BY <2>4, <2>7
    <3>2. M = Above(S, deepest)
      BY <1>10, <1>12, <3>1
    <3>3. M # {} => StandsFor(S, Copy(deepest), M)
      BY <2>1, <2>2, <3>2, StridesHaveCopies
    <3>4. LookupSlot(S, a) = IF M # {} THEN Copy(deepest) ELSE NoSlot
      BY <2>5, <2>7, <3>2
    <3>5. StandsFor(S, LookupSlot(S, a), M)
      BY <3>3, <3>4 DEF StandsFor
    <3> QED BY <3>5 DEF M
  <2> QED BY <2>6, <2>7
<1> QED BY <1>9, <1>11, <1>12

-----------------------------------------------------------------------------
(* The blocks. *)

\* A list of prefixes with values, none after a longer one.
ShortestFirst(entries) ==
    /\ \E n \in Nat : DOMAIN entries = 1 .. n
    /\ \A i \in DOMAIN entries : entries[i].prefix \in Prefix
    /\ \A i, j \in DOMAIN entries : i < j => entries[i].prefix.bits <= entries[j].prefix.bits

\* The places of the entries of some lengths that cover an address, the value
\* of the last of some places, and that of the last entry of a bounded length.
Hits(entries, a, from, to) ==
    {i \in DOMAIN entries : /\ from <= entries[i].prefix.bits /\ entries[i].prefix.bits <= to
                            /\ Covers(entries[i].prefix, a)}
LastOf(entries, places, default) == IF places = {} THEN default ELSE entries[Max(places)].value
LastUpTo(entries, a, to) == LastOf(entries, Hits(entries, a, 0, to), 0)

\* A set of places has a last one.
LEMMA LastPlace ==
    ASSUME NEW n \in Nat, NEW places \in SUBSET (1 .. n), places # {}
    PROVE  Max(places) \in places /\ \A i \in places : i <= Max(places)
<1>1. places \in SUBSET Nat /\ \A i \in places : i <= n
  OBVIOUS
<1> QED BY <1>1, GreatestElement

\* The last hit of some places is their last place if that is one, and otherwise
\* the last hit of the others.
HitsFromLast(entries, s, hits, default) ==
    LastOf(entries, hits \cap s, default) =
        IF Max(s) \in hits THEN entries[Max(s)].value
        ELSE LastOf(entries, hits \cap (s \ {Max(s)}), default)

LEMMA LastHit ==
    ASSUME NEW entries, NEW n \in Nat, NEW s \in SUBSET (1 .. n), s # {}, NEW hits, NEW default
    PROVE  HitsFromLast(entries, s, hits, default)
<1> DEFINE m == Max(s)
<1>1. m \in s /\ \A i \in s : i <= m
  BY LastPlace
<1> HIDE DEF m
<1>2. CASE m \in hits
  <2>1. hits \cap s \in SUBSET (1 .. n) /\ m \in hits \cap s
    BY <1>1, <1>2
  <2>2. Max(hits \cap s) \in hits \cap s /\ \A i \in hits \cap s : i <= Max(hits \cap s)
    BY <2>1, LastPlace
  <2>3. Max(hits \cap s) <= m /\ m <= Max(hits \cap s)
    BY <1>1, <2>1, <2>2
  <2>4. Max(hits \cap s) \in Nat /\ m \in Nat
    BY <2>1, <2>2
  <2>5. Max(hits \cap s) = m
    BY <2>3, <2>4
  <2> QED BY <1>2, <2>1, <2>5 DEF LastOf, m, HitsFromLast
<1>3. CASE m \notin hits
  <2>1. hits \cap s = hits \cap (s \ {m})
    BY <1>3
  <2> QED BY <1>3, <2>1 DEF m, HitsFromLast
<1> QED BY <1>2, <1>3

\* A slot that the loop of compile4 paints holds the value of the last entry
\* that covers it.
LEMMA PaintIsLast ==
    ASSUME NEW entries, NEW n \in Nat, DOMAIN entries = 1 .. n,
           NEW table, table = [x \in DOMAIN table |-> table[x]], NEW from, NEW to
    PROVE  Paint(table, entries, from, to) =
               [x \in DOMAIN table |-> LastOf(entries, Hits(entries, x.key, from, to), table[x])]
<1> DEFINE Write(t, e) ==
               [x \in DOMAIN t |->
                   IF from <= e.prefix.bits /\ e.prefix.bits <= to /\ Covers(e.prefix, x.key)
                   THEN e.value ELSE t[x]]
           places == DOMAIN entries
           Slot(s, x) == LastOf(entries, Hits(entries, x.key, from, to) \cap s, table[x])
           final == [s \in SUBSET places |-> [x \in DOMAIN table |-> Slot(s, x)]]
           Equation(f) ==
               f = [s \in SUBSET places |->
                       IF s = {} THEN table ELSE Write(f[s \ {Max(s)}], entries[Max(s)])]
           fold == CHOOSE f : Equation(f)
<1>1. final[{}] = table
  BY DEF LastOf
<1>2. ASSUME NEW s \in SUBSET places, s # {}
      PROVE  final[s] = Write(final[s \ {Max(s)}], entries[Max(s)])
  <2> DEFINE m == Max(s)
  <2>1. m \in s /\ \A i \in s : i <= m
    BY <1>2, LastPlace
  <2>2. s \ {m} \in SUBSET places
    OBVIOUS
  <2>3. ASSUME NEW x \in DOMAIN table
        PROVE  Slot(s, x) = IF /\ from <= entries[m].prefix.bits /\ entries[m].prefix.bits <= to
                               /\ Covers(entries[m].prefix, x.key)
                            THEN entries[m].value ELSE Slot(s \ {m}, x)
    <3> DEFINE hits == Hits(entries, x.key, from, to)
    <3>1. m \in hits <=> /\ from <= entries[m].prefix.bits /\ entries[m].prefix.bits <= to
                         /\ Covers(entries[m].prefix, x.key)
      BY <2>1 DEF Hits
    <3> HIDE DEF hits
    <3>2. LastOf(entries, hits \cap s, table[x]) =
              IF m \in hits THEN entries[m].value ELSE LastOf(entries, hits \cap (s \ {m}), table[x])
      <4>1. HitsFromLast(entries, s, hits, table[x])
        BY <1>2, LastHit
      <4> QED BY <4>1 DEF HitsFromLast
    <3> HIDE DEF m
    <3> QED BY <3>1, <3>2 DEF hits
  <2> DEFINE earlier == final[s \ {m}]
  <2>4. /\ DOMAIN earlier = DOMAIN table
        /\ \A x \in DOMAIN table : earlier[x] = Slot(s \ {m}, x)
    BY <2>2
  <2> HIDE DEF Slot, m
  <2>5. final[s] = [x \in DOMAIN table |-> Slot(s, x)]
    OBVIOUS
  <2> HIDE DEF final, earlier
  <2>6. final[s] = Write(earlier, entries[m])
    <3>1. Write(earlier, entries[m]) =
              [x \in DOMAIN table |->
                  IF from <= entries[m].prefix.bits /\ entries[m].prefix.bits <= to /\ Covers(entries[m].prefix, x.key)
                  THEN entries[m].value ELSE earlier[x]]
      BY <2>4
    <3> HIDE DEF Write
    <3>2. [x \in DOMAIN table |-> Slot(s, x)] =
              [x \in DOMAIN table |->
                  IF from <= entries[m].prefix.bits /\ entries[m].prefix.bits <= to /\ Covers(entries[m].prefix, x.key)
                  THEN entries[m].value ELSE earlier[x]]
      BY <2>3, <2>4
    <3> QED BY <2>5, <3>1, <3>2
  <2> QED BY <2>6 DEF m, earlier
<1>3. Equation(final)
  <2>1. final = [s \in SUBSET places |-> final[s]]
    OBVIOUS
  <2> HIDE DEF final, Write
  <2>2. \A s \in SUBSET places :
           final[s] = IF s = {} THEN table ELSE Write(final[s \ {Max(s)}], entries[Max(s)])
    BY <1>1, <1>2
  <2> QED BY <2>1, <2>2
<1>4. Equation(fold)
  <2> HIDE DEF Equation
  <2> QED BY <1>3
<1>5. Paint(table, entries, from, to) = fold[places]
  BY DEF Paint, FoldLeft, MapThenFoldSet
<1> HIDE DEF fold, final, Write
<1>6. fold[{}] = final[{}]
  BY <1>1, <1>4
<1>7. ASSUME NEW s \in SUBSET (1 .. n), s # {}, Max(s) \in s, fold[s \ {Max(s)}] = final[s \ {Max(s)}]
      PROVE  fold[s] = final[s]
  <2>1. s \in SUBSET places
    OBVIOUS
  <2>2. fold[s] = Write(fold[s \ {Max(s)}], entries[Max(s)])
    BY <1>4, <1>7, <2>1
  <2> QED BY <1>2, <1>7, <2>1, <2>2
<1>8. fold[places] = final[places]
  <2>1. FoldAlike(fold, final, n)
    BY <1>6, <1>7 DEF FoldAlike
  <2> QED BY <2>1, FoldsAgree
<1>9. final[places] = [x \in DOMAIN table |-> LastOf(entries, Hits(entries, x.key, from, to), table[x])]
  <2>1. \A x : Hits(entries, x.key, from, to) \cap places = Hits(entries, x.key, from, to)
    BY DEF Hits
  <2> QED BY <2>1 DEF final
<1> QED BY <1>5, <1>8, <1>9

\* Of the entries that cover an address, the last that is longer than some length
\* comes after all others, so painting level by level keeps the last one.
LEMMA LastOfLevels ==
    ASSUME NEW entries, ShortestFirst(entries), NEW a, NEW from \in Nat, NEW to \in Nat, from <= to
    PROVE  LastOf(entries, Hits(entries, a, from + 1, to), LastUpTo(entries, a, from))
               = LastUpTo(entries, a, to)
<1> DEFINE longer == Hits(entries, a, from + 1, to)
           all == Hits(entries, a, 0, to)
<1>1. PICK n \in Nat : DOMAIN entries = 1 .. n
  BY DEF ShortestFirst
<1>2. \A i \in DOMAIN entries : entries[i].prefix.bits \in Nat
  BY PrefixType, WidthAssumption DEF ShortestFirst
<1>3. all = longer \cup Hits(entries, a, 0, from)
  BY <1>2 DEF Hits
<1>4. CASE longer = {}
  BY <1>3, <1>4 DEF LastOf, LastUpTo
<1>5. CASE longer # {}
  <2>1. longer \in SUBSET (1 .. n) /\ all \in SUBSET (1 .. n) /\ longer \subseteq all
    BY <1>1, <1>3 DEF Hits
  <2>2. /\ \A i \in longer : entries[i].prefix.bits > from
        /\ \A i \in all \ longer : entries[i].prefix.bits <= from
    BY <1>2, <1>3 DEF Hits
  <2> HIDE DEF longer, all
  <2> DEFINE m == Max(longer)
             k == Max(all)
  <2>3. all # {} /\ m \in longer /\ k \in all /\ \A i \in all : i <= k
    BY <1>5, <2>1, LastPlace
  <2>4. (\A i \in longer : i <= m) /\ m \in Nat /\ k \in Nat /\ m \in DOMAIN entries /\ k \in DOMAIN entries
    <3>1. \A i \in longer : i <= m
      BY <1>5, <2>1, LastPlace
    <3> HIDE DEF m, k
    <3> QED BY <1>1, <2>1, <2>3, <3>1
  <2> HIDE DEF m, k
  <2>5. m = k
    <3>1. m <= k
      BY <2>1, <2>3
    <3>2. k \in longer => k <= m
      BY <2>4
    <3>3. k \notin longer /\ m < k => FALSE
      <4> SUFFICES ASSUME k \notin longer, m < k PROVE FALSE
        OBVIOUS
      <4>1. entries[m].prefix.bits <= entries[k].prefix.bits
        BY <2>4 DEF ShortestFirst
      <4>2. entries[m].prefix.bits > from /\ entries[k].prefix.bits <= from
        BY <2>2, <2>3
      <4>3. entries[m].prefix.bits \in Nat /\ entries[k].prefix.bits \in Nat
        BY <1>2, <2>4
      <4> QED BY <4>1, <4>2, <4>3
    <3>4. k \notin longer => m # k
      BY <2>3
    <3> QED BY <2>4, <3>1, <3>2, <3>3, <3>4
  <2>6. LastOf(entries, longer, LastUpTo(entries, a, from)) = entries[m].value
    BY <1>5 DEF LastOf, m
  <2>7. LastOf(entries, all, 0) = entries[k].value
    BY <2>3 DEF LastOf, k
  <2> QED BY <2>5, <2>6, <2>7 DEF longer, all, LastUpTo
<1> QED BY <1>4, <1>5

\* A slot is covered as the addresses behind it are, by prefixes that end above it.
LEMMA SlotIsCoveredAlike ==
    ASSUME NEW entries, ShortestFirst(entries), NEW a \in Addr, NEW bits \in 0 .. Width
    PROVE  LastUpTo(entries, Masked(a, bits).key, bits) = LastUpTo(entries, a, bits)
<1> DEFINE slot == Masked(a, bits)
<1>1. slot \in Prefix /\ slot.bits = bits /\ Covers(slot, a)
  BY MaskedCovers
<1> HIDE DEF slot
<1>2. \A i \in DOMAIN entries : entries[i].prefix.bits <= bits =>
          (Covers(entries[i].prefix, slot.key) <=> Covers(entries[i].prefix, a))
  BY <1>1, PrefixesNest DEF ShortestFirst
<1>3. Hits(entries, slot.key, 0, bits) = Hits(entries, a, 0, bits)
  BY <1>2 DEF Hits
<1> QED BY <1>3 DEF LastUpTo, slot

\* need2 and need3 find every slot that an entry goes deeper than: below the
\* others there is nothing to find.
LEMMA DeeperIsNeeded ==
    ASSUME NEW entries, ShortestFirst(entries), NEW a \in Addr, NEW bits \in 0 .. Width,
           Masked(a, bits) \notin Needed(entries, bits)
    PROVE  LastUpTo(entries, a, bits) = LastUpTo(entries, a, Width)
<1>1. ASSUME NEW i \in DOMAIN entries, Covers(entries[i].prefix, a)
      PROVE  0 <= entries[i].prefix.bits /\ entries[i].prefix.bits <= Width /\ entries[i].prefix.bits <= bits
  <2> DEFINE p == entries[i].prefix
  <2>1. p \in Prefix
    BY DEF ShortestFirst
  <2>2. p.bits \in 0 .. Width
    BY <2>1, PrefixType
  <2>3. p = Masked(a, p.bits)
    BY <1>1, <2>1, CoverIsMasked
  <2>4. ASSUME p.bits > bits
        PROVE  FALSE
    <3>1. bits \in 0 .. p.bits
      BY <2>2, <2>4, WidthAssumption
    <3>2. Masked(Masked(a, p.bits).key, bits) = Masked(a, bits)
      BY <2>2, <3>1, MaskedTwice
    <3>3. Masked(p.key, bits) = Masked(a, bits)
      BY <2>3, <3>2
    <3> QED BY <2>4, <3>3 DEF Needed
  <2> QED BY <2>2, <2>4, WidthAssumption
<1>2. Hits(entries, a, 0, bits) = Hits(entries, a, 0, Width)
  BY <1>1 DEF Hits
<1> QED BY <1>2 DEF LastUpTo

\* A level of blocks that starts with the slots it replaces is painted with the
\* last entry up to its own lengths.
LEMMA LevelIsPainted ==
    ASSUME NEW entries, ShortestFirst(entries), NEW bits \in 0 .. Width, bits + BlockBits <= Width,
           NEW above,
           \A a \in Addr : Masked(a, bits) \in Needed(entries, bits) =>
               above[Masked(a, bits)] = LastUpTo(entries, a, bits)
    PROVE  Paint([x \in Level(entries, bits) |-> above[Masked(x.key, bits)]],
                 entries, bits + 1, bits + BlockBits)
               = [x \in Level(entries, bits) |-> LastUpTo(entries, x.key, bits + BlockBits)]
<1> DEFINE table == [x \in Level(entries, bits) |-> above[Masked(x.key, bits)]]
<1>1. PICK n \in Nat : DOMAIN entries = 1 .. n
  BY DEF ShortestFirst
<1>2. DOMAIN table = Level(entries, bits) /\ table = [x \in DOMAIN table |-> table[x]]
  OBVIOUS
<1>3. ASSUME NEW x \in Level(entries, bits)
      PROVE  LastOf(entries, Hits(entries, x.key, bits + 1, bits + BlockBits), table[x])
                 = LastUpTo(entries, x.key, bits + BlockBits)
  <2>1. bits \in Nat /\ bits + BlockBits \in 0 .. Width /\ bits <= bits + BlockBits
    BY BlockAssumption, WidthAssumption
  <2>2. x.key \in Addr
    <3>1. PICK a \in Addr : x = Masked(a, bits + BlockBits)
      BY DEF Level, Paths
    <3> QED BY <2>1, <3>1, MaskedCovers
  <2>3. table[x] = LastUpTo(entries, x.key, bits)
    BY <2>2 DEF Level
  <2> QED BY <2>1, <2>3, LastOfLevels
<1> HIDE DEF table
<1>4. Paint(table, entries, bits + 1, bits + BlockBits)
          = [x \in DOMAIN table |->
                LastOf(entries, Hits(entries, x.key, bits + 1, bits + BlockBits), table[x])]
  BY <1>1, <1>2, PaintIsLast
<1>5. Paint(table, entries, bits + 1, bits + BlockBits)
          = [x \in Level(entries, bits) |-> LastUpTo(entries, x.key, bits + BlockBits)]
  BY <1>2, <1>3, <1>4
<1> QED BY <1>5 DEF table

\* compile4 and lookup4: every address gets the value of the last entry that
\* covers it, in whichever level its lookup ends.
LEMMA LookupOf4IsLast ==
    ASSUME NEW entries, ShortestFirst(entries), NEW a \in Addr
    PROVE  lookup4(compile4(entries), a) = LastUpTo(entries, a, Width)
<1> DEFINE root == Paint([n \in Paths(BlockRoot) |-> 0], entries, 0, BlockRoot)
           level2 == Paint([n \in Level(entries, BlockRoot) |-> root[Masked(n.key, BlockRoot)]],
                           entries, BlockRoot + 1, middle)
           level3 == Paint([n \in Level(entries, middle) |-> level2[Masked(n.key, middle)]],
                           entries, middle + 1, Width)
           x == compile4(entries)
<1>1. x.root = root /\ x.level2 = level2 /\ x.level3 = level3
  BY DEF compile4
<1>2. /\ BlockRoot \in 0 .. Width /\ middle \in 0 .. Width /\ Width \in 0 .. Width
      /\ BlockRoot \in 0 .. middle /\ middle = BlockRoot + BlockBits /\ Width = middle + BlockBits
  BY BlockAssumption, WidthAssumption DEF middle
<1>3. \A b \in Addr : root[Masked(b, BlockRoot)] = LastUpTo(entries, b, BlockRoot)
  <2> DEFINE table == [n \in Paths(BlockRoot) |-> 0]
  <2>1. PICK n \in Nat : DOMAIN entries = 1 .. n
    BY DEF ShortestFirst
  <2>2. root = [s \in DOMAIN table |-> LastOf(entries, Hits(entries, s.key, 0, BlockRoot), table[s])]
    <3>1. table = [s \in DOMAIN table |-> table[s]]
      OBVIOUS
    <3> HIDE DEF table
    <3>2. Paint(table, entries, 0, BlockRoot)
              = [s \in DOMAIN table |-> LastOf(entries, Hits(entries, s.key, 0, BlockRoot), table[s])]
      BY <2>1, <3>1, PaintIsLast
    <3> QED BY <3>2 DEF table
  <2> HIDE DEF root
  <2>3. \A s \in Paths(BlockRoot) : root[s] = LastUpTo(entries, s.key, BlockRoot)
    BY <2>2 DEF LastUpTo
  <2>4. \A b \in Addr : LastUpTo(entries, Masked(b, BlockRoot).key, BlockRoot) = LastUpTo(entries, b, BlockRoot)
    BY <1>2, SlotIsCoveredAlike
  <2> QED BY <2>3, <2>4 DEF Paths
<1> HIDE DEF root
<1>4. level2 = [s \in Level(entries, BlockRoot) |-> LastUpTo(entries, s.key, middle)]
  <2>1. BlockRoot + BlockBits <= Width
    BY BlockAssumption, WidthAssumption
  <2>2. Paint([n \in Level(entries, BlockRoot) |-> root[Masked(n.key, BlockRoot)]],
              entries, BlockRoot + 1, BlockRoot + BlockBits)
            = [s \in Level(entries, BlockRoot) |-> LastUpTo(entries, s.key, BlockRoot + BlockBits)]
    BY <1>2, <1>3, <2>1, LevelIsPainted
  <2> QED BY <2>2 DEF middle
<1> HIDE DEF level2
<1>5. \A b \in Addr : LastUpTo(entries, Masked(b, middle).key, middle) = LastUpTo(entries, b, middle)
  BY <1>2, SlotIsCoveredAlike
<1>6. ASSUME NEW b \in Addr, Masked(b, middle) \in Needed(entries, middle)
      PROVE  level2[Masked(b, middle)] = LastUpTo(entries, b, middle)
  <2>1. PICK i \in DOMAIN entries :
           entries[i].prefix.bits > middle /\ Masked(entries[i].prefix.key, middle) = Masked(b, middle)
    BY <1>6 DEF Needed
  <2> DEFINE p == entries[i].prefix
  <2>2. p \in Prefix /\ p.bits \in 0 .. Width
    BY PrefixType DEF ShortestFirst
  <2>3. p.key \in Addr
    <3>1. PICK key \in Addr, bits \in 0 .. Width : p = Masked(key, bits)
      BY <2>2 DEF Prefix
    <3> QED BY <3>1, MaskedCovers
  <2>4. p.bits > BlockRoot
    BY <1>2, <2>1, <2>2, WidthAssumption
  <2>5. Masked(p.key, BlockRoot) \in Needed(entries, BlockRoot)
    BY <2>4 DEF Needed
  <2>6. Masked(Masked(b, middle).key, BlockRoot) = Masked(p.key, BlockRoot)
    <3>1. Masked(Masked(p.key, middle).key, BlockRoot) = Masked(p.key, BlockRoot)
      BY <1>2, <2>3, MaskedTwice
    <3> QED BY <2>1, <3>1
  <2>7. Masked(b, middle) \in Level(entries, BlockRoot)
    BY <1>2, <2>5, <2>6 DEF Level, Paths
  <2> QED BY <1>4, <1>5, <2>7
<1>7. level3 = [s \in Level(entries, middle) |-> LastUpTo(entries, s.key, Width)]
  <2>1. middle + BlockBits <= Width
    BY <1>2
  <2>2. Paint([n \in Level(entries, middle) |-> level2[Masked(n.key, middle)]],
              entries, middle + 1, middle + BlockBits)
            = [s \in Level(entries, middle) |-> LastUpTo(entries, s.key, middle + BlockBits)]
    BY <1>2, <1>6, <2>1, LevelIsPainted
  <2> QED BY <1>2, <2>2
<1> HIDE DEF level3, x
<1> DEFINE slot2 == Masked(a, middle)
           slot3 == Masked(a, Width)
<1>8. DOMAIN level2 = Level(entries, BlockRoot) /\ DOMAIN level3 = Level(entries, middle)
  BY <1>4, <1>7
<1>9. slot2 \in Paths(BlockRoot + BlockBits) /\ slot3 \in Paths(middle + BlockBits)
  BY <1>2 DEF Paths
<1>10. Masked(slot3.key, middle) = slot2 /\ Masked(slot2.key, BlockRoot) = Masked(a, BlockRoot)
  BY <1>2, MaskedTwice
<1> HIDE DEF slot2, slot3
<1>11. lookup4(x, a) = IF slot3 \in DOMAIN level3 THEN level3[slot3]
                       ELSE IF slot2 \in DOMAIN level2 THEN level2[slot2]
                       ELSE root[Masked(a, BlockRoot)]
  BY <1>1 DEF lookup4, slot2, slot3
<1>12. CASE slot3 \in DOMAIN level3
  <2>1. LastUpTo(entries, slot3.key, Width) = LastUpTo(entries, a, Width)
    BY <1>2, SlotIsCoveredAlike DEF slot3
  <2>2. level3[slot3] = LastUpTo(entries, slot3.key, Width)
    BY <1>7, <1>8, <1>12
  <2> QED BY <1>11, <1>12, <2>1, <2>2 DEF x
<1>13. CASE slot3 \notin DOMAIN level3 /\ slot2 \in DOMAIN level2
  <2>1. Masked(a, middle) \notin Needed(entries, middle)
    BY <1>8, <1>9, <1>10, <1>13 DEF Level, slot2
  <2>2. LastUpTo(entries, a, middle) = LastUpTo(entries, a, Width)
    BY <1>2, <2>1, DeeperIsNeeded
  <2>3. level2[slot2] = LastUpTo(entries, slot2.key, middle)
    BY <1>4, <1>8, <1>13
  <2>4. LastUpTo(entries, slot2.key, middle) = LastUpTo(entries, a, middle)
    BY <1>5 DEF slot2
  <2> QED BY <1>11, <1>13, <2>2, <2>3, <2>4 DEF x
<1>14. CASE slot3 \notin DOMAIN level3 /\ slot2 \notin DOMAIN level2
  <2>1. Masked(a, BlockRoot) \notin Needed(entries, BlockRoot)
    BY <1>8, <1>9, <1>10, <1>14 DEF Level
  <2>2. LastUpTo(entries, a, BlockRoot) = LastUpTo(entries, a, Width)
    BY <1>2, <2>1, DeeperIsNeeded
  <2> QED BY <1>3, <1>11, <1>14, <2>2 DEF x
<1> QED BY <1>12, <1>13, <1>14

-----------------------------------------------------------------------------
(* The octets of compile6. *)

\* The bits of a prefix that whole octets hold, and those that it is expanded to.
Full(bits) == (bits \div BlockBits) * BlockBits
Ceiling(bits) == IF bits = Full(bits) THEN bits ELSE Full(bits) + BlockBits

\* A length lies between the octets it is rounded to, and these are the nearest.
LEMMA OctetsRound ==
    ASSUME NEW bits \in 0 .. Width
    PROVE  /\ Full(bits) \in 0 .. bits /\ Ceiling(bits) \in bits .. Width
           /\ (Ceiling(bits) % BlockBits) = 0
           /\ \A b \in 0 .. Width : (b % BlockBits) = 0 =>
                 /\ b <= bits => b <= Full(bits)
                 /\ bits <= b => Ceiling(bits) <= b
<1> DEFINE q == bits \div BlockBits
           r == bits % BlockBits
<1>1. BlockBits \in Nat \ {0} /\ Width \in Nat /\ (Width % BlockBits) = 0 /\ bits \in Nat /\ bits <= Width
  BY BlockAssumption, WidthAssumption
<1>2. q \in Nat /\ r \in 0 .. BlockBits - 1 /\ bits = q * BlockBits + r
  BY <1>1, DivisionWithRemainder
<1>3. Full(bits) = q * BlockBits
  BY DEF Full
<1> HIDE DEF q, r
<1>4. q * BlockBits \in Nat
  BY <1>1, <1>2
<1>5. ASSUME NEW b \in 0 .. Width, (b % BlockBits) = 0
      PROVE  /\ b <= bits => b <= Full(bits)
             /\ bits <= b => Ceiling(bits) <= b
  <2> DEFINE k == b \div BlockBits
  <2>1. k \in Nat /\ b = k * BlockBits + (b % BlockBits) /\ b \in Nat
    BY <1>1, DivisionWithRemainder
  <2>2. b = k * BlockBits + 0
    BY <1>5, <2>1
  <2> HIDE DEF k
  <2>3. k * BlockBits \in Nat /\ b = k * BlockBits
    BY <1>1, <2>1, <2>2
  <2>4. k > q => k * BlockBits >= q * BlockBits + BlockBits
    <3> SUFFICES ASSUME k > q PROVE k * BlockBits >= q * BlockBits + BlockBits
      OBVIOUS
    <3>1. k - (q + 1) \in Nat /\ (k - (q + 1)) * BlockBits \in Nat
      BY <1>1, <1>2, <2>1
    <3>2. k * BlockBits = q * BlockBits + BlockBits + (k - (q + 1)) * BlockBits
      BY <1>1, <1>2, <2>1
    <3> QED BY <1>1, <1>4, <3>1, <3>2
  <2>5. k <= q => k * BlockBits <= q * BlockBits
    <3> SUFFICES ASSUME k <= q PROVE k * BlockBits <= q * BlockBits
      OBVIOUS
    <3>1. q - k \in Nat /\ (q - k) * BlockBits \in Nat /\ q * BlockBits = k * BlockBits + (q - k) * BlockBits
      BY <1>1, <1>2, <2>1
    <3> QED BY <2>3, <3>1
  <2>6. b <= bits => b <= Full(bits)
    BY <1>1, <1>2, <1>3, <1>4, <2>1, <2>3, <2>4, <2>5
  <2>7. bits <= b => Ceiling(bits) <= b
    <3> SUFFICES ASSUME bits <= b PROVE Ceiling(bits) <= b
      OBVIOUS
    <3>1. CASE bits = Full(bits)
      BY <3>1 DEF Ceiling
    <3>2. CASE bits # Full(bits)
      <4>1. r # 0
        BY <1>2, <1>3, <1>4, <3>2
      <4>2. k > q
        BY <1>2, <1>4, <2>1, <2>3, <2>5, <4>1
      <4>3. b >= Full(bits) + BlockBits
        BY <1>3, <2>3, <2>4, <4>2
      <4> QED BY <1>1, <1>3, <1>4, <3>2, <4>3 DEF Ceiling
    <3> QED BY <3>1, <3>2
  <2> QED BY <2>6, <2>7
<1>6. Full(bits) \in 0 .. bits /\ Ceiling(bits) >= bits /\ Ceiling(bits) \in Nat
  BY <1>1, <1>2, <1>3, <1>4 DEF Ceiling
<1>7. Ceiling(bits) <= Width
  BY <1>1, <1>5
<1>8. (Ceiling(bits) % BlockBits) = 0
  <2>1. PICK k \in Nat : Ceiling(bits) = k * BlockBits
    <3>1. bits = Full(bits) => Ceiling(bits) = q * BlockBits
      BY <1>3 DEF Ceiling
    <3>2. bits # Full(bits) => Ceiling(bits) = (q + 1) * BlockBits
      BY <1>1, <1>2, <1>3 DEF Ceiling
    <3> QED BY <1>2, <3>1, <3>2
  <2>2. 0 \in 0 .. BlockBits - 1
    BY <1>1
  <2>3. ((k * BlockBits + 0) % BlockBits) = 0
    BY <1>1, <2>2, QuotientAndRemainder
  <2>4. k * BlockBits + 0 = k * BlockBits
    BY <1>1
  <2> QED BY <2>1, <2>3, <2>4
<1> QED BY <1>1, <1>5, <1>6, <1>7, <1>8

\* The nodes that an entry's insertion makes sure of, and those it writes to.
Way(p) == {Masked(p.key, bits) : bits \in {b \in 0 .. Full(p.bits) : b % BlockBits = 0}}
Ends(p) == IF p.bits = Full(p.bits) THEN {p}
           ELSE {n \in Paths(Full(p.bits) + BlockBits) : Covers(p, n.key)}

\* For the addresses that a prefix covers, they are the nodes of whole octets on
\* the way to them, down to the one where the prefix is rounded up.
LEMMA NodesOnTheWay ==
    ASSUME NEW p \in Prefix
    PROVE  /\ \A n \in Way(p) \cup Ends(p) : n \in Prefix
           /\ \A a \in Addr, b \in 0 .. Width : Masked(a, b) \in Ends(p) <=> b = Ceiling(p.bits) /\ Covers(p, a)
           /\ \A a \in Addr, b \in 0 .. Width :
                 (b % BlockBits) = 0 /\ b < p.bits /\ Covers(p, a) => Masked(a, b) \in Way(p)
<1>1. p.bits \in 0 .. Width /\ Width \in Nat /\ BlockBits \in Nat \ {0}
  BY PrefixType, WidthAssumption, BlockAssumption
<1>2. p.key \in Addr
  <2>1. PICK key \in Addr, bits \in 0 .. Width : p = Masked(key, bits)
    BY DEF Prefix
  <2> QED BY <2>1, MaskedCovers
<1>3. Full(p.bits) \in 0 .. p.bits /\ Ceiling(p.bits) \in p.bits .. Width
  BY <1>1, OctetsRound
<1>4. \A n \in Way(p) : n \in Prefix
  <2>1. \A b \in 0 .. Full(p.bits) : b \in 0 .. Width
    BY <1>1, <1>3
  <2> QED BY <1>2, <2>1 DEF Way, Prefix
<1>5. Ceiling(p.bits) \in 0 .. Width /\ p.bits <= Ceiling(p.bits)
  BY <1>1, <1>3
<1>6. p.bits # Full(p.bits) => Ends(p) = {n \in Paths(Ceiling(p.bits)) : Covers(p, n.key)}
  BY DEF Ends, Ceiling
<1>7. \A n \in Ends(p) : n \in Prefix
  <2>1. CASE p.bits = Full(p.bits)
    BY <2>1 DEF Ends
  <2>2. CASE p.bits # Full(p.bits)
    BY <1>5, <1>6, <2>2 DEF Paths, Prefix
  <2> QED BY <2>1, <2>2
<1>8. ASSUME NEW a \in Addr, NEW b \in 0 .. Width
      PROVE  Masked(a, b) \in Ends(p) <=> b = Ceiling(p.bits) /\ Covers(p, a)
  <2>1. Masked(a, b) \in Prefix /\ Masked(a, b).bits = b /\ Covers(Masked(a, b), a)
    BY MaskedCovers
  <2>2. CASE p.bits = Full(p.bits)
    <3>1. Ends(p) = {p} /\ Ceiling(p.bits) = p.bits
      BY <2>2 DEF Ends, Ceiling
    <3>2. Masked(a, b) = p => b = p.bits /\ Covers(p, a)
      BY <2>1
    <3>3. Covers(p, a) => p = Masked(a, p.bits)
      BY CoverIsMasked
    <3> QED BY <3>1, <3>2, <3>3
  <2>3. CASE p.bits # Full(p.bits)
    <3>1. b = Ceiling(p.bits) => (Covers(p, Masked(a, b).key) <=> Covers(p, a))
      <4> DEFINE n == Masked(a, b)
      <4> HIDE DEF n
      <4>1. n \in Prefix /\ n.bits = b /\ Covers(n, a)
        BY <2>1 DEF n
      <4>2. b = Ceiling(p.bits) => (Covers(p, n.key) <=> Covers(p, a))
        BY <1>5, <4>1, PrefixesNest
      <4> QED BY <4>2 DEF n
    <3>2. Masked(a, b) \in Paths(Ceiling(p.bits)) <=> b = Ceiling(p.bits)
      <4>1. \A c \in Addr : Masked(c, Ceiling(p.bits)).bits = Ceiling(p.bits)
        BY <1>5, MaskedCovers
      <4> QED BY <2>1, <4>1 DEF Paths
    <3> QED BY <1>6, <2>3, <3>1, <3>2
  <2> QED BY <2>2, <2>3
<1>9. ASSUME NEW a \in Addr, NEW b \in 0 .. Width, (b % BlockBits) = 0, b < p.bits, Covers(p, a)
      PROVE  Masked(a, b) \in Way(p)
  <2>1. b \in 0 .. p.bits /\ b \in 0 .. Full(p.bits)
    <3>1. b <= p.bits
      BY <1>1, <1>9
    <3>2. b <= Full(p.bits)
      BY <1>1, <1>9, <3>1, OctetsRound
    <3> QED BY <1>1, <1>3, <3>1, <3>2
  <2>2. p = Masked(a, p.bits)
    BY <1>9, CoverIsMasked
  <2>3. Masked(Masked(a, p.bits).key, b) = Masked(a, b)
    BY <1>1, <2>1, MaskedTwice
  <2>4. Masked(p.key, b) = Masked(a, b)
    BY <2>2, <2>3
  <2> QED BY <1>9, <2>1, <2>4 DEF Way
<1> QED BY <1>4, <1>7, <1>8, <1>9

\* The nodes of the throwaway trie, and the places of the entries that end at one.
Nodes6(entries, places) ==
    {Masked(0, 0)} \cup UNION {Way(entries[i].prefix) \cup Ends(entries[i].prefix) : i \in places}
EndAt(entries, x) == {i \in DOMAIN entries : x \in Ends(entries[i].prefix)}

\* A node of the trie holds the value of the last entry that ends there.
LEMMA TrieIsLast ==
    ASSUME NEW entries, NEW n \in Nat, DOMAIN entries = 1 .. n
    PROVE  Trie6(entries) =
               [x \in Nodes6(entries, DOMAIN entries) |-> LastOf(entries, EndAt(entries, x), 0)]
<1> DEFINE places == DOMAIN entries
           start == [x \in {Masked(0, 0)} |-> 0]
           Slot(s, x) == LastOf(entries, EndAt(entries, x) \cap s, 0)
           final == [s \in SUBSET places |-> [x \in Nodes6(entries, s) |-> Slot(s, x)]]
           Equation(f) ==
               f = [s \in SUBSET places |->
                       IF s = {} THEN start ELSE insertCompiled6(f[s \ {Max(s)}], entries[Max(s)])]
           fold == CHOOSE f : Equation(f)
<1>1. final[{}] = start
  <2>1. Nodes6(entries, {}) = {Masked(0, 0)}
    BY DEF Nodes6
  <2>2. \A x : Slot({}, x) = 0
    BY DEF LastOf
  <2> QED BY <2>1, <2>2
<1>2. ASSUME NEW s \in SUBSET places, s # {}
      PROVE  final[s] = insertCompiled6(final[s \ {Max(s)}], entries[Max(s)])
  <2> DEFINE m == Max(s)
             rest == s \ {m}
             earlier == final[rest]
             p == entries[m].prefix
  <2>1. m \in s /\ \A i \in s : i <= m
    BY <1>2, LastPlace
  <2>2. rest \in SUBSET places /\ s = rest \cup {m}
    BY <2>1
  <2>3. DOMAIN earlier = Nodes6(entries, rest) /\ \A x \in Nodes6(entries, rest) : earlier[x] = Slot(rest, x)
    BY <2>2
  <2>4. final[s] = [x \in Nodes6(entries, s) |-> Slot(s, x)]
    OBVIOUS
  <2>5. Nodes6(entries, s) = Nodes6(entries, rest) \cup Way(p) \cup Ends(p)
    <3>1. \A x : x \in Nodes6(entries, s) <=>
                    x \in {Masked(0, 0)} \/ \E i \in s : x \in Way(entries[i].prefix) \cup Ends(entries[i].prefix)
      BY DEF Nodes6
    <3>2. \A x : x \in Nodes6(entries, rest) <=>
                    x \in {Masked(0, 0)} \/ \E i \in rest : x \in Way(entries[i].prefix) \cup Ends(entries[i].prefix)
      BY DEF Nodes6
    <3> HIDE DEF rest, m
    <3> QED BY <2>2, <3>1, <3>2
  <2>6. \A x : Slot(s, x) = IF x \in Ends(p) THEN entries[m].value ELSE Slot(rest, x)
    <3> TAKE x
    <3> DEFINE hits == EndAt(entries, x)
    <3>1. m \in hits <=> x \in Ends(p)
      BY <2>1 DEF EndAt
    <3>2. LastOf(entries, hits \cap s, 0) =
              IF m \in hits THEN entries[m].value ELSE LastOf(entries, hits \cap rest, 0)
      <4>1. s \in SUBSET (1 .. n) /\ s # {}
        BY <1>2
      <4> HIDE DEF hits, m, places
      <4>2. HitsFromLast(entries, s, hits, 0)
        BY <4>1, LastHit
      <4> QED BY <4>2 DEF HitsFromLast, m
    <3>3. Slot(s, x) = LastOf(entries, hits \cap s, 0) /\ Slot(rest, x) = LastOf(entries, hits \cap rest, 0)
      OBVIOUS
    <3> HIDE DEF hits, m, rest, p, Slot, final, fold, Equation, earlier
    <3> QED BY <3>1, <3>2, <3>3
  <2>7. \A x : x \notin Nodes6(entries, rest) => Slot(rest, x) = 0
    <3> SUFFICES ASSUME NEW x, x \notin Nodes6(entries, rest) PROVE Slot(rest, x) = 0
      OBVIOUS
    <3>1. EndAt(entries, x) \cap rest = {}
      BY DEF EndAt, Nodes6
    <3> QED BY <3>1 DEF LastOf
  <2>8. insertCompiled6(earlier, entries[m]) =
            [x \in DOMAIN earlier \cup Way(p) \cup Ends(p) |->
                IF x \in Ends(p) THEN entries[m].value ELSE IF x \in DOMAIN earlier THEN earlier[x] ELSE 0]
    BY DEF insertCompiled6, Way, Ends, Full
  <2> HIDE DEF Slot, final, earlier, rest, m, p
  <2>9. final[s] = insertCompiled6(earlier, entries[m])
    <3>1. \A x \in Nodes6(entries, s) :
             Slot(s, x) = IF x \in Ends(p) THEN entries[m].value
                          ELSE IF x \in DOMAIN earlier THEN earlier[x] ELSE 0
      BY <2>3, <2>6, <2>7
    <3>2. Nodes6(entries, s) = DOMAIN earlier \cup Way(p) \cup Ends(p)
      BY <2>3, <2>5
    <3> QED BY <2>4, <2>8, <3>1, <3>2
  <2> QED BY <2>9 DEF earlier, rest, m
<1>3. Equation(final)
  <2>1. final = [s \in SUBSET places |-> final[s]]
    OBVIOUS
  <2> HIDE DEF final, start
  <2>2. \A s \in SUBSET places :
           final[s] = IF s = {} THEN start ELSE insertCompiled6(final[s \ {Max(s)}], entries[Max(s)])
    BY <1>1, <1>2
  <2> QED BY <2>1, <2>2
<1>4. Equation(fold)
  <2> HIDE DEF Equation
  <2> QED BY <1>3
<1>5. Trie6(entries) = fold[places]
  BY DEF Trie6, FoldLeft, MapThenFoldSet
<1> HIDE DEF fold, final, start
<1>6. FoldAlike(fold, final, n)
  <2>1. fold[{}] = final[{}]
    BY <1>1, <1>4
  <2>2. ASSUME NEW s \in SUBSET (1 .. n), s # {}, fold[s \ {Max(s)}] = final[s \ {Max(s)}]
        PROVE  fold[s] = final[s]
    <3>1. s \in SUBSET places
      OBVIOUS
    <3>2. fold[s] = insertCompiled6(fold[s \ {Max(s)}], entries[Max(s)])
      BY <1>4, <2>2, <3>1
    <3> QED BY <1>2, <2>2, <3>1, <3>2
  <2> QED BY <2>1, <2>2 DEF FoldAlike
<1>7. fold[places] = final[places]
  BY <1>6, FoldsAgree
<1>8. final[places] = [x \in Nodes6(entries, places) |-> LastOf(entries, EndAt(entries, x), 0)]
  <2>1. \A x : EndAt(entries, x) \cap places = EndAt(entries, x)
    BY DEF EndAt
  <2> QED BY <2>1 DEF final
<1> QED BY <1>5, <1>7, <1>8

\* What a slot of whole octets inherits in the trie is the value of the last entry
\* that covers all of the slot: it is the one whose octets reach furthest down.
LEMMA InheritedIsLast ==
    ASSUME NEW entries, ShortestFirst(entries), \A i \in DOMAIN entries : entries[i].value # 0,
           NEW a \in Addr, NEW bits \in 0 .. Width, (bits % BlockBits) = 0
    PROVE  Inherited6(Trie6(entries), Masked(a, bits)) = LastUpTo(entries, a, bits)
<1> DEFINE trie == Trie6(entries)
           path == Masked(a, bits)
           valued == {x \in DOMAIN trie : trie[x] # 0 /\ x.bits <= path.bits /\ Covers(x, path.key)}
           hits == Hits(entries, a, 0, bits)
           P(i) == entries[i].prefix
<1>1. PICK n \in Nat : DOMAIN entries = 1 .. n
  BY DEF ShortestFirst
<1>2. trie = [x \in Nodes6(entries, DOMAIN entries) |-> LastOf(entries, EndAt(entries, x), 0)]
  BY <1>1, TrieIsLast
<1>3. path \in Prefix /\ path.bits = bits /\ Covers(path, a)
  BY MaskedCovers
<1>4. Inherited6(trie, path) = IF valued = {} THEN 0 ELSE trie[Longest(valued)]
  BY DEF Inherited6, Longest
<1>5. /\ \A i \in DOMAIN entries : P(i) \in Prefix /\ P(i).bits \in 0 .. Width
      /\ \A i, j \in DOMAIN entries : i < j => P(i).bits <= P(j).bits
  BY PrefixType DEF ShortestFirst
<1>6. \A x : EndAt(entries, x) \in SUBSET (1 .. n)
  BY <1>1 DEF EndAt
<1>7. ASSUME NEW x \in Nodes6(entries, DOMAIN entries)
      PROVE  x \in Prefix /\ x.bits \in 0 .. Width
  <2>1. x \in Prefix
    <3>1. CASE x = Masked(0, 0)
      <4>1. 0 \in Addr
        BY PowersOfTwo, WidthAssumption DEF Addr
      <4>2. 0 \in 0 .. Width
        BY WidthAssumption
      <4> QED BY <3>1, <4>1, <4>2, MaskedCovers
    <3>2. CASE x # Masked(0, 0)
      <4>1. PICK i \in DOMAIN entries : x \in Way(P(i)) \cup Ends(P(i))
        BY <1>7, <3>2 DEF Nodes6
      <4> QED BY <1>5, <4>1, NodesOnTheWay
    <3> QED BY <3>1, <3>2
  <2> QED BY <2>1, PrefixType
<1>8. ASSUME NEW x \in DOMAIN trie
      PROVE  trie[x] # 0 <=> EndAt(entries, x) # {}
  <2>1. trie[x] = LastOf(entries, EndAt(entries, x), 0)
    BY <1>2
  <2>2. EndAt(entries, x) # {} => Max(EndAt(entries, x)) \in DOMAIN entries
    BY <1>1, <1>6, LastPlace
  <2> QED BY <2>1, <2>2 DEF LastOf
<1>9. ASSUME NEW x \in valued
      PROVE  /\ x \in Prefix /\ Covers(x, a)
             /\ \E i \in hits : Ceiling(P(i).bits) = x.bits
  <2>1. x \in Prefix /\ x.bits \in 0 .. Width /\ x.bits <= bits /\ Covers(x, path.key)
    BY <1>2, <1>3, <1>7
  <2>2. Covers(x, a)
    BY <1>3, <2>1, PrefixesNest
  <2>3. x = Masked(a, x.bits)
    BY <2>1, <2>2, CoverIsMasked
  <2>4. PICK i \in DOMAIN entries : x \in Ends(P(i))
    BY <1>8 DEF EndAt
  <2>5. x.bits = Ceiling(P(i).bits) /\ Covers(P(i), a)
    <3>1. Masked(a, x.bits) \in Ends(P(i))
      BY <2>3, <2>4
    <3> QED BY <1>5, <2>1, <3>1, NodesOnTheWay
  <2>6. P(i).bits <= bits
    <3>1. Ceiling(P(i).bits) \in P(i).bits .. Width
      BY <1>5, OctetsRound
    <3> QED BY <1>5, <2>1, <2>5, <3>1, WidthAssumption
  <2>7. i \in hits
    BY <1>5, <2>5, <2>6, WidthAssumption DEF Hits
  <2> QED BY <2>1, <2>2, <2>5, <2>7
<1>10. CASE hits = {}
  <2>1. valued = {}
    BY <1>9, <1>10
  <2> QED BY <1>4, <1>10, <2>1 DEF LastUpTo, LastOf
<1>11. CASE hits # {}
  <2> DEFINE k == Max(hits)
             c == Ceiling(P(k).bits)
             node == Masked(a, c)
  <2>1. hits \in SUBSET (1 .. n)
    BY <1>1 DEF Hits
  <2>2. k \in hits /\ \A i \in hits : i <= k
    BY <1>11, <2>1, LastPlace
  <2>3. LastUpTo(entries, a, bits) = entries[k].value
    BY <1>11 DEF LastUpTo, LastOf
  <2> HIDE DEF k
  <2>4. k \in DOMAIN entries /\ k \in Nat /\ P(k).bits <= bits /\ Covers(P(k), a)
    BY <1>1, <2>2 DEF Hits
  <2>5. c \in P(k).bits .. Width /\ c <= bits /\ c \in 0 .. Width
    BY <1>5, <2>4, OctetsRound, WidthAssumption
  <2>6. node \in Ends(P(k))
    BY <1>5, <2>4, <2>5, NodesOnTheWay
  <2>7. node \in Prefix /\ node.bits = c /\ Covers(node, a)
    BY <2>5, MaskedCovers
  <2>8. node \in DOMAIN trie
    <3>1. node \in Nodes6(entries, DOMAIN entries)
      BY <2>4, <2>6 DEF Nodes6
    <3> HIDE DEF trie
    <3> QED BY <1>2, <3>1
  <2>9. k \in EndAt(entries, node)
    BY <2>4, <2>6 DEF EndAt
  <2>10. \A i \in EndAt(entries, node) : i \in hits
    <3> SUFFICES ASSUME NEW i \in DOMAIN entries, node \in Ends(P(i)) PROVE i \in hits
      BY DEF EndAt
    <3>1. c = Ceiling(P(i).bits) /\ Covers(P(i), a)
      BY <1>5, <2>5, NodesOnTheWay
    <3>2. c \in P(i).bits .. Width
      BY <1>5, <3>1, OctetsRound
    <3>3. 0 <= P(i).bits /\ P(i).bits <= bits
      BY <1>5, <2>5, <3>2, WidthAssumption
    <3> QED BY <3>1, <3>3 DEF Hits
  <2>11. trie[node] = entries[k].value
    <3> DEFINE at == EndAt(entries, node)
    <3>1. at # {} /\ at \in SUBSET (1 .. n)
      BY <1>6, <2>9
    <3> HIDE DEF at
    <3>2. Max(at) \in at /\ \A i \in at : i <= Max(at)
      BY <3>1, LastPlace
    <3>3. k \in at /\ Max(at) \in hits
      BY <2>9, <2>10, <3>2 DEF at
    <3>4. k <= Max(at) /\ Max(at) <= k /\ Max(at) \in Nat
      BY <2>1, <2>2, <3>2, <3>3
    <3>5. Max(at) = k
      BY <2>4, <3>4
    <3>6. trie[node] = LastOf(entries, at, 0)
      <4> HIDE DEF trie
      <4> QED BY <1>2, <2>8 DEF at
    <3> QED BY <3>1, <3>5, <3>6 DEF LastOf
  <2>12. node \in valued
    <3>1. trie[node] # 0
      BY <2>4, <2>11
    <3>2. Covers(node, path.key)
      <4> HIDE DEF node, path
      <4>1. node.bits <= path.bits
        BY <1>3, <2>5, <2>7
      <4> QED BY <1>3, <2>7, <4>1, PrefixesNest
    <3> QED BY <1>3, <2>5, <2>7, <2>8, <3>1, <3>2
  <2>13. \A x \in valued : x.bits <= node.bits
    <3> SUFFICES ASSUME NEW x \in valued PROVE x.bits <= c
      BY <2>7
    <3>1. PICK i \in hits : Ceiling(P(i).bits) = x.bits
      BY <1>9
    <3>2. i \in DOMAIN entries /\ i \in Nat /\ i <= k
      BY <1>1, <2>1, <2>2, <3>1
    <3>3. P(i).bits <= P(k).bits
      BY <1>5, <2>4, <3>2, WidthAssumption
    <3>4. P(i).bits <= c /\ (c % BlockBits) = 0
      <4>1. (c % BlockBits) = 0
        BY <1>5, <2>4, OctetsRound
      <4> QED BY <1>5, <2>4, <2>5, <3>2, <3>3, <4>1
    <3>5. Ceiling(P(i).bits) <= c
      BY <1>5, <2>5, <3>2, <3>4, OctetsRound
    <3> QED BY <3>1, <3>5
  <2>14. valued # {} /\ Longest(valued) = node
    <3>1. valued \in SUBSET Prefix /\ \A x \in valued : Covers(x, a)
      BY <1>9
    <3> HIDE DEF valued, node
    <3> QED BY <2>12, <2>13, <3>1, LongestIsUnique
  <2> QED BY <1>4, <2>3, <2>11, <2>14
<1> QED BY <1>10, <1>11

\* compile6 and lookup6: every address gets the value of the last entry that
\* covers it, at the first slot on its way that is not a block.
LEMMA LookupOf6IsLast ==
    ASSUME NEW entries, ShortestFirst(entries), \A i \in DOMAIN entries : entries[i].value # 0,
           NEW a \in Addr
    PROVE  lookup6(compile6(entries), a) = LastUpTo(entries, a, Width)
<1> DEFINE trie == Trie6(entries)
           x == compile6(entries)
           P(i) == entries[i].prefix
           way == {Masked(a, bits) : bits \in Octets}
           open == way \ x.blocks
           last == CHOOSE n \in open : \A m \in open : n.bits <= m.bits
           lengths == {m.bits : m \in open}
<1>1. PICK n \in Nat : DOMAIN entries = 1 .. n
  BY DEF ShortestFirst
<1>2. DOMAIN trie = Nodes6(entries, DOMAIN entries)
  BY <1>1, TrieIsLast
<1>3. /\ x.blocks = {s \in DOMAIN trie :
                        /\ s.bits \in Octets
                        /\ \E m \in DOMAIN trie : m.bits > s.bits /\ Covers(s, m.key)}
      /\ x.slots = [path \in UNION {Paths(bits) : bits \in Octets} |-> Inherited6(trie, path)]
  BY DEF compile6
<1>4. lookup6(x, a) = x.slots[last]
  BY DEF lookup6
<1>5. /\ \A b \in Octets : b \in 0 .. Width /\ (b % BlockBits) = 0
      /\ Width \in Octets /\ Width \in Nat
  BY BlockAssumption, WidthAssumption DEF Octets
<1>6. \A b \in Octets : /\ Masked(a, b) \in Prefix /\ Masked(a, b).bits = b
                        /\ Masked(a, b).key \in Addr /\ Covers(Masked(a, b), a)
  BY <1>5, MaskedCovers
<1>7. /\ \A i \in DOMAIN entries : P(i) \in Prefix /\ P(i).bits \in 0 .. Width
  BY PrefixType DEF ShortestFirst
<1>8. \A m \in DOMAIN trie : m.bits \in 0 .. Width
  <2> SUFFICES ASSUME NEW m \in Nodes6(entries, DOMAIN entries) PROVE m.bits \in 0 .. Width
    BY <1>2
  <2>1. CASE m = Masked(0, 0)
    <3>1. 0 \in Addr
      BY PowersOfTwo, WidthAssumption DEF Addr
    <3>2. 0 \in 0 .. Width
      BY WidthAssumption
    <3> QED BY <2>1, <3>1, <3>2, MaskedCovers
  <2>2. CASE m # Masked(0, 0)
    <3>1. PICK i \in DOMAIN entries : m \in Way(P(i)) \cup Ends(P(i))
      BY <2>2 DEF Nodes6
    <3>2. m \in Prefix
      BY <1>7, <3>1, NodesOnTheWay
    <3> QED BY <3>2, PrefixType
  <2> QED BY <2>1, <2>2
<1> HIDE DEF trie, x
<1>9. Masked(a, Width) \in open
  <2>1. Masked(a, Width).bits = Width
    BY <1>5, <1>6
  <2>2. ~ \E m \in DOMAIN trie : m.bits > Width
    BY <1>5, <1>8
  <2>3. Masked(a, Width) \notin x.blocks
    BY <1>3, <2>1, <2>2
  <2> QED BY <1>5, <2>3
<1>10. last \in open
  <2>1. lengths \in SUBSET Nat /\ lengths # {}
    BY <1>5, <1>6, <1>9
  <2>2. PICK least \in lengths : \A b \in lengths : least <= b
    <3> HIDE DEF lengths
    <3> QED BY <2>1, LeastElement
  <2>3. \E s \in open : \A m \in open : s.bits <= m.bits
    BY <2>2
  <2> QED BY <2>3
<1> HIDE DEF last
<1>11. PICK b \in Octets : last = Masked(a, b)
  BY <1>10
<1>12. b \in 0 .. Width /\ (b % BlockBits) = 0 /\ last.bits = b /\ last \notin x.blocks
  BY <1>5, <1>6, <1>10, <1>11
<1>13. x.slots[last] = LastUpTo(entries, a, b)
  <2>1. last \in UNION {Paths(bits) : bits \in Octets}
    BY <1>11 DEF Paths
  <2>2. x.slots[last] = Inherited6(trie, last)
    BY <1>3, <2>1
  <2>3. Inherited6(trie, last) = LastUpTo(entries, a, b)
    BY <1>11, <1>12, InheritedIsLast DEF trie
  <2> QED BY <2>2, <2>3
<1>14. Hits(entries, a, 0, b) = Hits(entries, a, 0, Width)
  <2> SUFFICES ASSUME NEW i \in DOMAIN entries, Covers(P(i), a), P(i).bits > b PROVE FALSE
    BY <1>5, <1>7, <1>12 DEF Hits
  <2> DEFINE c == Ceiling(P(i).bits)
             node == Masked(a, c)
  <2>1. c \in P(i).bits .. Width /\ c \in 0 .. Width /\ c > b
    BY <1>5, <1>7, <1>12, OctetsRound
  <2>2. node \in Ends(P(i))
    BY <1>7, <2>1, NodesOnTheWay
  <2>3. node.bits = c
    BY <2>1, MaskedCovers
  <2>4. last \in Way(P(i))
    BY <1>5, <1>7, <1>11, <1>12, NodesOnTheWay
  <2>5. node \in DOMAIN trie /\ last \in DOMAIN trie
    BY <1>2, <2>2, <2>4 DEF Nodes6
  <2>6. Covers(last, node.key)
    <3>1. b \in 0 .. c
      BY <1>12, <2>1
    <3> HIDE DEF c
    <3> QED BY <1>11, <2>1, <3>1, ShorterCoversLonger
  <2> HIDE DEF node, c
  <2>7. last \in x.blocks
    BY <1>3, <1>11, <1>12, <2>1, <2>3, <2>5, <2>6
  <2> QED BY <1>12, <2>7
<1> QED BY <1>4, <1>13, <1>14 DEF LastUpTo, x

-----------------------------------------------------------------------------
\* A list that holds each prefix with its value, none after a longer one.
ListsValues(entries, values) ==
    /\ ShortestFirst(entries)
    /\ \A i \in DOMAIN entries : /\ entries[i].prefix \in DOMAIN values
                                 /\ entries[i].value = values[entries[i].prefix]
    /\ \A p \in DOMAIN values : \E i \in DOMAIN entries : entries[i].prefix = p

\* The stable sort by length is such a list.
LEMMA EntriesListValues ==
    ASSUME NEW values, DOMAIN values \in SUBSET Prefix, IsFiniteSet(DOMAIN values)
    PROVE  ListsValues(BlockEntries(values), values)
<1> DEFINE S == DOMAIN values
           n == Cardinality(S)
           R == {pair \in S \X S : Shorter(pair[1], pair[2])}
           Place(p) == Cardinality({q \in S : Shorter(q, p)}) + 1
           entries == BlockEntries(values)
<1>1. \A p \in S : p.key \in Nat /\ p.bits \in Nat /\ p = [key |-> p.key, bits |-> p.bits]
  BY PrefixType, WidthAssumption
<1>2. \A p, q \in S : <<p, q>> \in R <=> Shorter(p, q)
  OBVIOUS
<1> HIDE DEF R
<1>3. StrictOrder(R, S)
  <2>1. \A p, q, r \in S : Shorter(p, q) /\ Shorter(q, r) => Shorter(p, r)
    BY <1>1 DEF Shorter
  <2>2. \A p \in S : ~Shorter(p, p)
    BY <1>1 DEF Shorter
  <2>3. \A p, q \in S : p # q => Shorter(p, q) \/ Shorter(q, p)
    <3> TAKE p, q \in S
    <3>1. p.key = q.key /\ p.bits = q.bits => p = q
      BY <1>1
    <3> QED BY <1>1, <3>1 DEF Shorter
  <2> QED BY <1>2, <2>1, <2>2, <2>3 DEF StrictOrder
<1>4. n \in Nat /\ Enumerates(R, S)
  BY <1>3, BelowIsPosition
<1>5. ASSUME NEW p \in S
      PROVE  Place(p) = Preceding(R, S, p) + 1
  <2>1. {q \in S : Shorter(q, p)} = {q \in S : <<q, p>> \in R}
    BY <1>2
  <2> QED BY <2>1 DEF Preceding
<1>6. \A p \in S : Preceding(R, S, p) \in 0 .. n - 1
  BY <1>4 DEF Enumerates
<1> DEFINE At(k) == CHOOSE q \in S : Place(q) = k
<1>7. entries = [k \in 1 .. n |-> [prefix |-> At(k), value |-> values[At(k)]]]
  BY DEF BlockEntries
<1> HIDE DEF Place, n, entries
<1>8. ASSUME NEW k \in 1 .. n
      PROVE  At(k) \in S /\ Place(At(k)) = k
  <2>1. k - 1 \in 0 .. n - 1 /\ k \in Nat
    BY <1>4
  <2>2. PICK q \in S : Preceding(R, S, q) = k - 1
    BY <1>4, <2>1 DEF Enumerates, n
  <2>3. Place(q) = k
    BY <1>5, <2>1, <2>2
  <2> QED BY <2>3
<1>9. ASSUME NEW p \in S
      PROVE  Place(p) \in 1 .. n /\ At(Place(p)) = p
  <2>1. Place(p) \in 1 .. n
    BY <1>4, <1>5, <1>6
  <2> DEFINE q == At(Place(p))
  <2>2. q \in S /\ Place(q) = Place(p)
    BY <1>8, <2>1
  <2> HIDE DEF q
  <2>3. Preceding(R, S, q) = Preceding(R, S, p)
    BY <1>5, <1>6, <2>2
  <2>4. q = p
    BY <1>4, <2>2, <2>3 DEF Enumerates
  <2> QED BY <2>1, <2>4 DEF q
<1> HIDE DEF At
<1>10. DOMAIN entries = 1 .. n /\ \A k \in 1 .. n : entries[k].prefix = At(k) /\ entries[k].value = values[At(k)]
  BY <1>7
<1>11. ASSUME NEW i \in 1 .. n, NEW j \in 1 .. n, i < j
       PROVE  At(i).bits <= At(j).bits
  <2>1. At(i) \in S /\ At(j) \in S /\ Place(At(i)) = i /\ Place(At(j)) = j
    BY <1>8
  <2>2. Preceding(R, S, At(i)) < Preceding(R, S, At(j))
    BY <1>4, <1>5, <1>6, <1>11, <2>1
  <2>3. ~(<<At(j), At(i)>> \in R)
    <3>1. <<At(j), At(i)>> \in R => Preceding(R, S, At(j)) < Preceding(R, S, At(i))
      BY <1>4, <2>1 DEF Enumerates
    <3>2. Preceding(R, S, At(i)) \in Nat /\ Preceding(R, S, At(j)) \in Nat
      BY <1>4, <1>6, <2>1
    <3> QED BY <2>2, <3>1, <3>2
  <2>4. ~Shorter(At(j), At(i))
    BY <1>2, <2>1, <2>3
  <2> QED BY <1>1, <2>1, <2>4 DEF Shorter
<1>12. ShortestFirst(entries)
  BY <1>4, <1>8, <1>10, <1>11 DEF ShortestFirst, n
<1>13. \A p \in S : \E i \in DOMAIN entries : entries[i].prefix = p
  BY <1>9, <1>10
<1> QED BY <1>8, <1>10, <1>12, <1>13 DEF ListsValues, entries

\* The last entry that covers an address is its longest match.
LEMMA LastIsLongest ==
    ASSUME NEW values, DOMAIN values \in SUBSET Prefix, NEW entries, ListsValues(entries, values),
           NEW a \in Addr
    PROVE  LastUpTo(entries, a, Width) =
               IF Matches(DOMAIN values, a) = {} THEN 0 ELSE values[LongestMatch(DOMAIN values, a)]
<1> DEFINE M == Matches(DOMAIN values, a)
           hits == Hits(entries, a, 0, Width)
           k == Max(hits)
           p == entries[k].prefix
<1>1. PICK n \in Nat : DOMAIN entries = 1 .. n
  BY DEF ListsValues, ShortestFirst
<1>2. \A i \in DOMAIN entries : entries[i].prefix.bits \in 0 .. Width /\ entries[i].prefix \in DOMAIN values
  BY PrefixType DEF ListsValues, ShortestFirst
<1>3. \A i \in DOMAIN entries : i \in hits <=> entries[i].prefix \in M
  BY <1>2, WidthAssumption DEF Hits, Matches
<1>4. hits \in SUBSET DOMAIN entries
  BY DEF Hits
<1>5. \A q \in M : \E i \in hits : entries[i].prefix = q
  <2>1. M \in SUBSET DOMAIN values
    BY DEF Matches
  <2> HIDE DEF hits, M
  <2> QED BY <1>3, <2>1 DEF ListsValues
<1>6. CASE hits = {}
  <2>1. M = {}
    BY <1>5, <1>6
  <2> QED BY <1>6, <2>1 DEF LastUpTo, LastOf
<1>7. CASE hits # {}
  <2>1. k \in hits /\ \A i \in hits : i <= k
    BY <1>1, <1>4, <1>7, LastPlace
  <2>2. LastUpTo(entries, a, Width) = entries[k].value
    BY <1>7 DEF LastUpTo, LastOf
  <2> HIDE DEF k, hits, M
  <2>3. k \in DOMAIN entries /\ p \in M
    BY <1>3, <1>4, <2>1
  <2>4. \A q \in M : q.bits <= p.bits
    <3> SUFFICES ASSUME NEW q \in M PROVE q.bits <= p.bits
      OBVIOUS
    <3>1. PICK i \in hits : entries[i].prefix = q
      BY <1>5
    <3>2. i \in DOMAIN entries /\ i <= k
      BY <1>4, <2>1, <3>1
    <3>3. i = k \/ i < k
      BY <1>1, <2>3, <3>2
    <3>4. i < k => q.bits <= p.bits
      BY <2>3, <3>1, <3>2 DEF ListsValues, ShortestFirst
    <3>5. p.bits <= p.bits
      BY <1>2, <2>3, WidthAssumption
    <3> QED BY <3>1, <3>3, <3>4, <3>5
  <2>5. M \in SUBSET Prefix /\ \A q \in M : Covers(q, a)
    BY DEF M, Matches
  <2>6. p = Longest(M)
    <3> HIDE DEF p
    <3> QED BY <2>3, <2>4, <2>5, LongestIsUnique
  <2>7. LongestMatch(DOMAIN values, a) = Longest(M)
    BY DEF LongestMatch, Longest, M
  <2>8. entries[k].value = values[p]
    BY <2>3 DEF ListsValues
  <2> QED BY <2>2, <2>3, <2>6, <2>7, <2>8 DEF M
<1> QED BY <1>6, <1>7
=============================================================================
