----------------------------- MODULE SetProofs ------------------------------
(***************************************************************************)
(* Proofs about the range sets that SetBuilder builds, from any prefixes   *)
(* and for every width, classifier and word size.                          *)
(***************************************************************************)
EXTENDS SetBuilder, LPMProofs

-----------------------------------------------------------------------------
(* Ranges and words. *)

\* The two words of an address and the address.
LEMMA Words ==
    /\ Pow2[WordBits] \in Nat \ {0}
    /\ \A a \in Addr :
          /\ HiWord(a) \in Nat
          /\ LoWord(a) \in 0 .. AllOnes
          /\ a = HiWord(a) * Pow2[WordBits] + LoWord(a)
<1>1. Pow2[WordBits] \in Nat \ {0}
  <2>1. WordBits \in Nat
    BY RangeAssumption, WidthAssumption
  <2> QED BY <2>1, PowersOfTwo
<1>2. ASSUME NEW a \in Addr
      PROVE  /\ HiWord(a) \in Nat
             /\ LoWord(a) \in 0 .. AllOnes
             /\ a = HiWord(a) * Pow2[WordBits] + LoWord(a)
  <2>1. a \in Nat
    BY Addresses
  <2> QED BY <1>1, <2>1, DivisionWithRemainder DEF HiWord, LoWord, AllOnes
<1> QED BY <1>1, <1>2

\* The words are in the order of the addresses.
LEMMA WordOrder ==
    ASSUME NEW a \in Addr, NEW b \in Addr
    PROVE  /\ a <= b => HiWord(a) <= HiWord(b)
           /\ HiWord(a) < HiWord(b) => a < b
           /\ HiWord(a) = HiWord(b) => (a <= b <=> LoWord(a) <= LoWord(b))
<1>1. Pow2[WordBits] \in Nat \ {0}
  BY Words
<1>2. a \in Nat /\ b \in Nat
  BY Addresses
<1> QED BY <1>1, <1>2, WordByWord DEF HiWord, LoWord

\* Adjacency on the words, over the carry too, is adjacency of the addresses.
LEMMA WordsTouch ==
    ASSUME NEW r \in AddrRange, NEW s \in AddrRange
    PROVE  Adjacent6(r, s) <=> s.first = r.last + 1
<1> DEFINE w == Pow2[WordBits]
           a == r.last
           b == s.first
<1>1. a \in Addr /\ b \in Addr /\ MaxAddr \in Addr
  BY Addresses DEF AddrRange
<1>2. a \in Nat /\ b \in Nat /\ a <= MaxAddr /\ b <= MaxAddr /\ MaxAddr \in Nat
  BY <1>1, Addresses
<1>3. /\ w \in Nat \ {0} /\ AllOnes = w - 1
      /\ HiWord(a) \in Nat /\ LoWord(a) \in 0 .. w - 1 /\ a = HiWord(a) * w + LoWord(a)
      /\ HiWord(b) \in Nat /\ LoWord(b) \in 0 .. w - 1 /\ b = HiWord(b) * w + LoWord(b)
  BY <1>1, Words DEF AllOnes
<1>4. Adjacent6(r, s) <=>
         \/ LoWord(a) # AllOnes /\ HiWord(b) = HiWord(a) /\ LoWord(b) = LoWord(a) + 1
         \/ /\ LoWord(a) = AllOnes /\ HiWord(a) # HiWord(MaxAddr)
            /\ HiWord(b) = HiWord(a) + 1 /\ LoWord(b) = 0
  BY DEF Adjacent6
<1> DEFINE h == HiWord(a)
           l == LoWord(a)
<1>5. b = HiWord(b) * w + LoWord(b) /\ HiWord(b) = b \div w /\ LoWord(b) = b % w
  BY <1>3 DEF HiWord, LoWord
<1>6. ASSUME b = a + 1, l # AllOnes PROVE HiWord(b) = h /\ LoWord(b) = l + 1
  <2>1. l + 1 \in 0 .. w - 1 /\ h \in Nat
    BY <1>3, <1>6
  <2>2. b = h * w + (l + 1)
    <3>1. h * w \in Nat
      BY <1>3
    <3> QED BY <1>3, <1>6, <3>1
  <2> HIDE DEF w, h, l, a, b
  <2> QED BY <1>3, <1>5, <2>1, <2>2, QuotientAndRemainder
<1>7. ASSUME b = a + 1, l = AllOnes PROVE HiWord(b) = h + 1 /\ LoWord(b) = 0
  <2>1. 0 \in 0 .. w - 1 /\ h + 1 \in Nat
    BY <1>3
  <2>2. b = (h + 1) * w + 0
    <3>1. (h + 1) * w = h * w + w /\ h * w \in Nat
      BY <1>3
    <3> QED BY <1>3, <1>7, <3>1
  <2> HIDE DEF w, h, l, a, b
  <2> QED BY <1>3, <1>5, <2>1, <2>2, QuotientAndRemainder
<1>8. ASSUME b = a + 1, l = AllOnes PROVE h # HiWord(MaxAddr)
  <2>1. HiWord(b) <= HiWord(MaxAddr)
    BY <1>1, <1>2, WordOrder
  <2>2. HiWord(b) = h + 1 /\ HiWord(MaxAddr) \in Nat
    BY <1>1, <1>7, <1>8, Words
  <2> QED BY <1>3, <2>1, <2>2
<1>9. ASSUME HiWord(b) = h, LoWord(b) = l + 1 PROVE b = a + 1
  <2>1. h * w \in Nat
    BY <1>3
  <2> QED BY <1>3, <1>9, <2>1
<1>10. ASSUME l = AllOnes, HiWord(b) = h + 1, LoWord(b) = 0 PROVE b = a + 1
  <2>1. (h + 1) * w = h * w + w /\ h * w \in Nat
    BY <1>3
  <2> QED BY <1>3, <1>10, <2>1
<1> QED BY <1>4, <1>6, <1>7, <1>8, <1>9, <1>10

\* In both families, two ranges touch when no address lies between them.
LEMMA TouchIsNoGap ==
    ASSUME NEW r \in AddrRange, NEW s \in AddrRange, NEW fam
    PROVE  Touches(fam, r, s) <=> s.first <= r.last + 1
<1>1. /\ r.last \in Nat /\ s.first \in Nat /\ MaxAddr \in Nat
      /\ r.last <= MaxAddr /\ s.first <= MaxAddr
  BY Addresses DEF AddrRange
<1>2. Adjacent4(r, s) <=> s.first = r.last + 1
  BY <1>1 DEF Adjacent4
<1> QED BY <1>1, <1>2, WordsTouch DEF Touches

-----------------------------------------------------------------------------
(* The merge. *)

\* A step of the merge, on the words of the bounds or not, is one on addresses.
LEMMA MergedMerges ==
    ASSUME NEW s \in Seq(AddrRange), \A i, j \in DOMAIN s : i < j => s[i].first <= s[j].first,
           NEW k \in 1 .. Len(s), NEW out, UnionUpTo(out, s, k - 1), NEW fam
    PROVE  UnionUpTo(Merged(fam, out, s[k]), s, k)
<1> DEFINE new == Merged(fam, out, s[k])
           r == s[k]
<1>1. r \in AddrRange /\ r.first \in Nat
  <2>1. k \in DOMAIN s
    BY LenProperties
  <2>2. r \in AddrRange
    BY <2>1, ElementOfSeq
  <2> QED BY <2>2, Addresses DEF AddrRange
<1>2. ASSUME out # <<>>
      PROVE  Last(out) \in AddrRange /\ Last(out).last \in Nat
  <2>1. out \in Seq(AddrRange) /\ Len(out) \in 1 .. Len(out)
    BY <1>2, EmptySeq, LenProperties DEF Apart, UnionUpTo
  <2>2. Last(out) \in AddrRange
    BY <2>1, ElementOfSeq DEF Last
  <2> QED BY <2>2, Addresses DEF AddrRange
<1>3. ASSUME out # <<>>
      PROVE  Touches(fam, Last(out), r) <=> r.first <= Last(out).last + 1
  BY <1>1, <1>2, <1>3, TouchIsNoGap
<1>4. MergesOne(out, r, new)
  <2>1. CASE out # <<>> /\ Touches(fam, Last(out), r)
    <3>1. new = [out EXCEPT ![Len(out)].last = IF r.last > @ THEN r.last ELSE @]
      BY <2>1 DEF Merged
    <3> HIDE DEF new, r
    <3> QED BY <1>3, <2>1, <3>1 DEF MergesOne
  <2>2. CASE ~(out # <<>> /\ Touches(fam, Last(out), r))
    <3>1. new = Append(out, r)
      BY <2>2 DEF Merged
    <3>2. out # <<>> => Last(out).last + 1 < r.first
      BY <1>1, <1>2, <1>3, <2>2
    <3> HIDE DEF new, r
    <3> QED BY <3>1, <3>2 DEF MergesOne
  <2> QED BY <2>1, <2>2
<1> HIDE DEF new
<1>5. UnionUpTo(new, s, k)
  BY <1>4, MergingOne DEF r
<1> QED BY <1>5 DEF new

\* A step of the merge stays among lists of ranges.
LEMMA MergedType ==
    ASSUME NEW out \in Seq([first : Addr, last : Addr]), NEW r \in [first : Addr, last : Addr], NEW fam
    PROVE  Merged(fam, out, r) \in Seq([first : Addr, last : Addr])
<1> DEFINE R == [first : Addr, last : Addr]
           n == Len(out)
           last == IF r.last > out[n].last THEN r.last ELSE out[n].last
<1>1. n \in Nat /\ out \in [1 .. n -> R]
  <2> HIDE DEF R
  <2>1. out \in Seq(R)
    BY DEF R
  <2> QED BY <2>1, LenProperties
<1>2. CASE out # <<>> /\ Touches(fam, Last(out), r)
  <2>1. n \in 1 .. n
    BY <1>1, <1>2, EmptySeq
  <2>2. out[n] \in R
    BY <1>1, <2>1
  <2>3. last \in Addr
    BY <2>2
  <2>4. [out[n] EXCEPT !.last = last] \in R
    BY <2>2, <2>3
  <2>5. Merged(fam, out, r) = [out EXCEPT ![n] = [out[n] EXCEPT !.last = last]]
    BY <1>2 DEF Merged
  <2> HIDE DEF R, last, n
  <2>6. Merged(fam, out, r) \in [1 .. n -> R]
    BY <1>1, <2>4, <2>5
  <2> QED BY <1>1, <2>6 DEF R
<1>3. CASE ~(out # <<>> /\ Touches(fam, Last(out), r))
  <2>1. Merged(fam, out, r) = Append(out, r)
    BY <1>3 DEF Merged
  <2> HIDE DEF R
  <2> QED BY <2>1, AppendProperties DEF R
<1> QED BY <1>2, <1>3

\* The whole of it.
LEMMA MergeCovers ==
    ASSUME NEW s \in Seq(AddrRange), \A i, j \in DOMAIN s : i < j => s[i].first <= s[j].first,
           NEW fam
    PROVE  UnionUpTo(merge(fam, s), s, Len(s))
<1> DEFINE n == Len(s)
           R == [first : Addr, last : Addr]
           V == Seq(R)
           step == [x \in V \X Nat |-> IF x[2] \in 1 .. n THEN Merged(fam, x[1], s[x[2]]) ELSE <<>>]
           Equation(f) ==
               f = [t \in SUBSET (1 .. n) |->
                       IF t = {} THEN <<>> ELSE Merged(fam, f[t \ {Max(t)}], s[Max(t)])]
           fold == CHOOSE f : Equation(f)
<1>1. n \in Nat /\ DOMAIN s = 1 .. n /\ \A k \in 1 .. n : s[k] \in R
  BY LenProperties, ElementOfSeq DEF AddrRange
<1>2. <<>> \in V /\ step \in [V \X Nat -> V]
  <2>1. <<>> \in V
    BY EmptySeq
  <2>2. \A out \in V, k \in 1 .. n : Merged(fam, out, s[k]) \in V
    BY <1>1, MergedType
  <2> HIDE DEF V
  <2> QED BY <2>1, <2>2
<1>3. PICK f \in [SUBSET (1 .. n) -> V] : Folds(f, <<>>, step, n)
  <2> HIDE DEF V, step, n
  <2> QED BY <1>1, <1>2, Folding
<1>4. ASSUME NEW t \in SUBSET (1 .. n), t # {}
      PROVE  /\ Max(t) \in t
             /\ f[t] = Merged(fam, f[t \ {Max(t)}], s[Max(t)])
  <2>1. Max(t) \in t
    <3>1. t \in SUBSET Nat /\ \A i \in t : i <= n
      BY <1>1
    <3> QED BY <1>1, <1>4, <3>1, GreatestElement
  <2>2. f[t] = step[<<f[t \ {Max(t)}], Max(t)>>]
    BY <1>3, <1>4 DEF Folds
  <2>3. f[t \ {Max(t)}] \in V /\ Max(t) \in 1 .. n /\ Max(t) \in Nat
    <3> HIDE DEF V
    <3>1. t \ {Max(t)} \in SUBSET (1 .. n) /\ Max(t) \in 1 .. n
      BY <2>1
    <3> QED BY <3>1
  <2> HIDE DEF V
  <2> QED BY <2>1, <2>2, <2>3
<1>0. ASSUME NEW k \in 1 .. n PROVE f[1 .. k] = Merged(fam, f[1 .. k - 1], s[k])
  <2>1. f[1 .. k] = step[<<f[1 .. k - 1], k>>]
    <3> HIDE DEF V, step, n
    <3>1. FoldsUp(f, step, n)
      BY <1>1, <1>3, FoldsInOrder
    <3> QED BY <3>1 DEF FoldsUp
  <2>2. f[1 .. k - 1] \in V /\ k \in Nat
    <3> HIDE DEF V
    <3>1. 1 .. k - 1 \in SUBSET (1 .. n)
      BY <1>1
    <3> QED BY <1>1, <3>1
  <2> HIDE DEF V, n
  <2> QED BY <2>1, <2>2
<1>5. Equation(f)
  <2>1. f = [t \in SUBSET (1 .. n) |-> f[t]]
    BY <1>3
  <2>2. f[{}] = <<>>
    BY <1>3 DEF Folds
  <2> QED BY <1>4, <2>1, <2>2
<1>6. Equation(fold)
  <2> HIDE DEF Equation
  <2> QED BY <1>5
<1>7. merge(fam, s) = fold[1 .. n]
  BY <1>1 DEF merge, FoldLeft, MapThenFoldSet
<1> HIDE DEF fold, step
<1>8. fold[1 .. n] = f[1 .. n]
  <2>1. fold[{}] = f[{}]
    BY <1>5, <1>6
  <2>2. ASSUME NEW t \in SUBSET (1 .. n), t # {}, Max(t) \in t, fold[t \ {Max(t)}] = f[t \ {Max(t)}]
        PROVE  fold[t] = f[t]
    <3>1. fold[t] = Merged(fam, fold[t \ {Max(t)}], s[Max(t)])
      BY <1>6, <2>2
    <3> QED BY <1>4, <2>2, <3>1
  <2>3. FoldAlike(fold, f, n)
    BY <2>1, <2>2 DEF FoldAlike
  <2> HIDE DEF n
  <2> QED BY <1>1, <2>3, FoldsAgree
<1>9. \A k \in 0 .. n : UnionUpTo(f[1 .. k], s, k)
  <2> DEFINE odd == {k \in 0 .. n : ~UnionUpTo(f[1 .. k], s, k)}
  <2> SUFFICES ASSUME odd # {} PROVE FALSE
    OBVIOUS
  <2>1. PICK k \in odd : \A j \in odd : k <= j
    <3>1. odd \in SUBSET Nat
      BY <1>1
    <3> HIDE DEF odd
    <3> QED BY <3>1, LeastElement
  <2>2. k \in 0 .. n /\ ~UnionUpTo(f[1 .. k], s, k)
    BY <2>1
  <2>3. k # 0
    <3>1. f[1 .. 0] = <<>>
      <4>1. 1 .. 0 = {}
        OBVIOUS
      <4> QED BY <1>3, <4>1 DEF Folds
    <3>2. Apart(<<>>)
      <4>1. <<>> \in Seq(AddrRange) /\ Len(<<>>) = 0
        BY EmptySeq
      <4> QED BY <4>1 DEF Apart
    <3>3. \A a \in Addr : ~InSome(<<>>, a)
      BY DEF InSome
    <3>4. UnionUpTo(<<>>, s, 0)
      BY <3>2, <3>3 DEF UnionUpTo
    <3> QED BY <2>2, <3>1, <3>4
  <2>4. k \in 1 .. n /\ k - 1 \in 0 .. n /\ k - 1 \notin odd
    <3>1. k \in 1 .. n /\ k - 1 \in 0 .. n /\ ~(k <= k - 1)
      BY <1>1, <2>2, <2>3
    <3> HIDE DEF odd
    <3> QED BY <2>1, <3>1
  <2>5. UnionUpTo(f[1 .. k - 1], s, k - 1)
    BY <2>4
  <2>6. f[1 .. k] = Merged(fam, f[1 .. k - 1], s[k])
    BY <1>0, <2>4
  <2>7. UnionUpTo(f[1 .. k], s, k)
    <3> HIDE DEF odd, n
    <3>1. k \in 1 .. Len(s)
      BY <2>4 DEF n
    <3> QED BY <2>5, <2>6, <3>1, MergedMerges
  <2> QED BY <2>2, <2>7
<1>10. n \in 0 .. n
  BY <1>1
<1> QED BY <1>7, <1>8, <1>9, <1>10

-----------------------------------------------------------------------------
(* What is merged. *)

\* sort.Slice lists the ranges of the prefixes, every one of them.
LEMMA SortedRanges ==
    ASSUME NEW S \in SUBSET Prefix, NEW s \in Ascending({RangeOf(p) : p \in S})
    PROVE  /\ s \in Seq(AddrRange)
           /\ \A i, j \in DOMAIN s : i < j => s[i].first <= s[j].first
           /\ \A a \in Addr : (\E j \in 1 .. Len(s) : Within(s[j], a)) <=> Covered(S, a)
<1> DEFINE R == {RangeOf(p) : p \in S}
           range == [p \in S |-> RangeOf(p)]
           n == Cardinality(R)
<1>1. IsFiniteSet(R)
  <2>1. IsFiniteSet(S)
    BY PrefixesAreFinite, FS_Subset
  <2>2. range \in Surjection(S, R)
    BY DEF Surjection
  <2> HIDE DEF range, R
  <2> QED BY <2>1, <2>2, FS_Surjection
<1>2. R \subseteq AddrRange
  BY RangeOfPrefix
<1> HIDE DEF R
<1>3. /\ s \in [1 .. n -> R]
      /\ \A i, j \in 1 .. n : i # j => s[i] # s[j]
      /\ \A i, j \in DOMAIN s : i < j => s[i].first <= s[j].first
  BY DEF Ascending, SetToSeqs, R
<1>4. n \in Nat /\ IsFiniteSet(1 .. n) /\ Cardinality(1 .. n) = n
  <2>1. n \in Nat
    BY <1>1, FS_CardinalityType
  <2> HIDE DEF n
  <2>2. 1 \in Int /\ n \in Int
    BY <2>1
  <2>3. IsFiniteSet(1 .. n) /\ Cardinality(1 .. n) = IF 1 > n THEN 0 ELSE n - 1 + 1
    BY <2>2, FS_Interval
  <2> QED BY <2>1, <2>3
<1>5. s \in Surjection(1 .. n, R)
  <2>1. s \in Injection(1 .. n, R)
    BY <1>3 DEF Injection, IsInjective
  <2> QED BY <1>1, <1>4, <2>1, FS_Injection
<1>6. s \in Seq(AddrRange) /\ Len(s) = n /\ DOMAIN s = 1 .. n
  <2>1. s \in [1 .. n -> AddrRange]
    BY <1>2, <1>3
  <2> HIDE DEF n
  <2> QED BY <1>4, <2>1
<1>7. ASSUME NEW a \in Addr
      PROVE  (\E j \in 1 .. n : Within(s[j], a)) <=> Covered(S, a)
  <2>1. (\E j \in 1 .. n : Within(s[j], a)) <=> \E r \in R : Within(r, a)
    BY <1>3, <1>5 DEF Surjection
  <2>2. (\E r \in R : Within(r, a)) <=> \E p \in S : Within(RangeOf(p), a)
    BY DEF R
  <2>3. (\E p \in S : Within(RangeOf(p), a)) <=> \E p \in S : Covers(p, a)
    BY RangeOfPrefix
  <2>4. Covered(S, a) <=> \E p \in S : Covers(p, a)
    BY DEF Covered, Matches
  <2> QED BY <2>1, <2>2, <2>3, <2>4
<1> QED BY <1>3, <1>6, <1>7

\* The ranges that are merged from those of some prefixes.
IsUnion(ranges, S) ==
    /\ Apart(ranges)
    /\ \A a \in Addr : InSome(ranges, a) <=> Covered(S, a)

LEMMA MergeIsUnion ==
    ASSUME NEW S \in SUBSET Prefix, NEW s \in Ascending({RangeOf(p) : p \in S}), NEW fam
    PROVE  IsUnion(merge(fam, s), S)
<1>1. /\ s \in Seq(AddrRange)
      /\ \A i, j \in DOMAIN s : i < j => s[i].first <= s[j].first
      /\ \A a \in Addr : (\E j \in 1 .. Len(s) : Within(s[j], a)) <=> Covered(S, a)
  BY SortedRanges
<1>2. UnionUpTo(merge(fam, s), s, Len(s))
  BY <1>1, MergeCovers
<1> QED BY <1>1, <1>2 DEF UnionUpTo, IsUnion

-----------------------------------------------------------------------------
(* The searches. *)

\* The last place with a property, as the searches choose it.
LEMMA LastOfPlaces ==
    ASSUME NEW n \in Nat, NEW T \in SUBSET (1 .. n), T # {}
    PROVE  LET k == CHOOSE i \in T : \A j \in T : j <= i
           IN  k \in T /\ \A j \in T : j <= k
<1>1. T \in SUBSET Nat /\ \A m \in T : m <= n
  OBVIOUS
<1>2. Max(T) \in T /\ \A m \in T : m <= Max(T)
  BY <1>1, GreatestElement
<1> QED BY <1>2

\* The last range that starts at or below an address is the one that could hold it.
LEMMA SearchFinds ==
    ASSUME NEW ranges, Apart(ranges), NEW a \in Addr
    PROVE  search(ranges, a) <=> InSome(ranges, a)
<1> DEFINE below == {i \in DOMAIN ranges : ranges[i].first <= a}
           k == CHOOSE i \in below : \A j \in below : j <= i
<1>1. /\ Len(ranges) \in Nat /\ DOMAIN ranges = 1 .. Len(ranges)
      /\ \A i \in DOMAIN ranges : ranges[i].first \in Nat /\ ranges[i].last \in Nat
                                     /\ ranges[i].first <= ranges[i].last
      /\ \A i, j \in DOMAIN ranges : i < j => ranges[i].last < ranges[j].first
  BY ApartIsSorted
<1>2. a \in Nat
  BY Addresses
<1>3. search(ranges, a) <=> below # {} /\ a <= ranges[k].last
  BY DEF search
<1>4. below # {} => k \in below /\ \A j \in below : j <= k
  BY <1>1, LastOfPlaces
<1> HIDE DEF k
<1>5. ASSUME below # {}, a <= ranges[k].last PROVE InSome(ranges, a)
  BY <1>4, <1>5 DEF InSome, Within
<1>6. ASSUME InSome(ranges, a) PROVE below # {} /\ a <= ranges[k].last
  <2>1. PICK i \in DOMAIN ranges : ranges[i].first <= a /\ a <= ranges[i].last
    BY <1>6 DEF InSome, Within
  <2>2. i \in below /\ i <= k /\ k \in DOMAIN ranges /\ ranges[k].first <= a
    BY <1>4, <2>1
  <2>3. i = k
    BY <1>1, <1>2, <2>1, <2>2
  <2> QED BY <2>1, <2>2, <2>3
<1> QED BY <1>3, <1>5, <1>6

\* Where every range is made of whole high words, the high words say the same.
LEMMA SearchOfHighWords ==
    ASSUME NEW ranges, Apart(ranges), ~NeedLow(ranges), NEW a \in Addr
    PROVE  searchHigh(ranges, a) <=> search(ranges, a)
<1> DEFINE below == {i \in DOMAIN ranges : ranges[i].first <= a}
           belowHigh == {i \in DOMAIN ranges : HiWord(ranges[i].first) <= HiWord(a)}
           k == CHOOSE i \in below : \A j \in below : j <= i
           kHigh == CHOOSE i \in belowHigh : \A j \in belowHigh : j <= i
<1>1. ASSUME NEW i \in DOMAIN ranges
      PROVE  /\ ranges[i].first <= a <=> HiWord(ranges[i].first) <= HiWord(a)
             /\ a <= ranges[i].last <=> HiWord(a) <= HiWord(ranges[i].last)
  <2>1. ranges[i].first \in Addr /\ ranges[i].last \in Addr
    BY ApartIsSorted
  <2>2. LoWord(ranges[i].first) = 0 /\ LoWord(ranges[i].last) = AllOnes
    BY DEF NeedLow
  <2> DEFINE f == ranges[i].first
             l == ranges[i].last
  <2> HIDE DEF f, l
  <2>3. f \in Addr /\ l \in Addr /\ LoWord(f) = 0 /\ LoWord(l) = AllOnes
    BY <2>1, <2>2 DEF f, l
  <2>4. /\ HiWord(a) \in Nat /\ HiWord(f) \in Nat /\ HiWord(l) \in Nat
        /\ LoWord(a) \in 0 .. AllOnes /\ AllOnes \in Nat
    <3>1. AllOnes \in Nat
      BY Words DEF AllOnes
    <3> QED BY <2>3, <3>1, Words
  <2>5. f \in Nat /\ l \in Nat /\ a \in Nat
    BY <2>3, Addresses
  <2>6. f <= a <=> HiWord(f) <= HiWord(a)
    <3>1. f <= a => HiWord(f) <= HiWord(a)
      BY <2>3, WordOrder
    <3>2. HiWord(f) < HiWord(a) => f < a
      BY <2>3, WordOrder
    <3>3. HiWord(f) = HiWord(a) => (f <= a <=> LoWord(f) <= LoWord(a))
      BY <2>3, WordOrder
    <3>4. LoWord(f) <= LoWord(a)
      BY <2>3, <2>4
    <3> QED BY <2>4, <2>5, <3>1, <3>2, <3>3, <3>4
  <2>7. a <= l <=> HiWord(a) <= HiWord(l)
    <3>1. a <= l => HiWord(a) <= HiWord(l)
      BY <2>3, WordOrder
    <3>2. HiWord(a) < HiWord(l) => a < l
      BY <2>3, WordOrder
    <3>3. HiWord(a) = HiWord(l) => (a <= l <=> LoWord(a) <= LoWord(l))
      BY <2>3, WordOrder
    <3>4. LoWord(a) <= LoWord(l)
      BY <2>3, <2>4
    <3> QED BY <2>4, <2>5, <3>1, <3>2, <3>3, <3>4
  <2> QED BY <2>6, <2>7 DEF f, l
<1>2. below = belowHigh
  BY <1>1
<1>3. k = kHigh
  BY <1>2
<1>4. below # {} => k \in DOMAIN ranges
  <2>1. Len(ranges) \in Nat /\ DOMAIN ranges = 1 .. Len(ranges)
    BY ApartIsSorted
  <2>2. below # {} => k \in below
    BY <2>1, LastOfPlaces
  <2> HIDE DEF k
  <2> QED BY <2>2
<1>5. search(ranges, a) <=> below # {} /\ a <= ranges[k].last
  BY DEF search
<1>6. searchHigh(ranges, a) <=> belowHigh # {} /\ HiWord(a) <= HiWord(ranges[kHigh].last)
  BY DEF searchHigh
<1> HIDE DEF k, kHigh, below, belowHigh
<1> QED BY <1>1, <1>2, <1>3, <1>4, <1>5, <1>6

\* The classifier's code of a slot is right for each of its addresses.
LEMMA ClassifierFinds ==
    ASSUME NEW ranges, Apart(ranges), NEW a \in Addr
    PROVE  Classified(ranges, a) <=> InSome(ranges, a)
<1> DEFINE span == Span(FrontBits)
           slot == a \div span
           first == slot * span
           last == first + span - 1
           reaching == {i \in DOMAIN ranges : ranges[i].last >= first}
           k == CHOOSE i \in reaching : \A j \in reaching : i <= j
           r == ranges[k]
           code == FrontCode(ranges, slot)
<1>1. span \in Nat \ {0}
  <2>1. FrontBits \in 0 .. Width
    BY RangeAssumption, WidthAssumption
  <2> QED BY <2>1, SpanType
<1>2. a \in Nat
  BY Addresses
<1>3. first \in Nat /\ last \in Nat /\ first <= a /\ a <= last
  <2>1. slot \in Nat /\ (a % span) \in 0 .. span - 1 /\ a = slot * span + (a % span)
    BY <1>1, <1>2, DivisionWithRemainder
  <2> DEFINE rest == a % span
  <2> HIDE DEF slot, span, rest
  <2>2. slot * span \in Nat
    BY <1>1, <2>1
  <2>3. rest \in 0 .. span - 1 /\ a = slot * span + rest
    BY <2>1 DEF rest
  <2> QED BY <1>1, <1>2, <2>2, <2>3
<1>4. /\ Len(ranges) \in Nat /\ DOMAIN ranges = 1 .. Len(ranges)
      /\ \A i \in DOMAIN ranges : ranges[i].first \in Nat /\ ranges[i].last \in Nat
                                     /\ ranges[i].first <= ranges[i].last
      /\ \A i, j \in DOMAIN ranges : i < j => ranges[i].last < ranges[j].first
  BY ApartIsSorted
<1>5. code = IF reaching = {} THEN "none"
             ELSE IF r.first > last THEN "none"
             ELSE IF Swallows(r, first, last) THEN "all" ELSE "deeper"
  BY DEF FrontCode
<1>6. Classified(ranges, a) <=> code = "all" \/ (code = "deeper" /\ search(ranges, a))
  BY DEF Classified
<1>7. reaching # {} => k \in reaching /\ \A j \in reaching : k <= j
  <2> SUFFICES ASSUME reaching # {} PROVE k \in reaching /\ \A j \in reaching : k <= j
    OBVIOUS
  <2>1. reaching \in SUBSET Nat
    BY <1>4
  <2> HIDE DEF reaching
  <2>2. \E i \in reaching : \A j \in reaching : i <= j
    BY <2>1, LeastElement
  <2> QED BY <2>2
<1>8. search(ranges, a) <=> InSome(ranges, a)
  BY SearchFinds
<1> HIDE DEF code, k, first, last
<1>9. ASSUME InSome(ranges, a) PROVE code # "none"
  <2>1. PICK i \in DOMAIN ranges : ranges[i].first <= a /\ a <= ranges[i].last
    BY <1>9 DEF InSome, Within
  <2>2. ranges[i].last >= first
    BY <1>2, <1>3, <1>4, <2>1
  <2>3. i \in reaching /\ k \in reaching /\ k <= i
    BY <1>7, <2>2
  <2>4. k \in DOMAIN ranges /\ r.first <= ranges[i].first
    <3>1. k \in DOMAIN ranges
      BY <2>3
    <3>2. CASE k = i
      BY <1>4, <3>1, <3>2
    <3>3. CASE k # i
      <4>1. k < i
        BY <1>4, <2>3, <3>1, <3>3
      <4>2. r.last < ranges[i].first /\ r.first <= r.last
        BY <1>4, <3>1, <4>1
      <4> QED BY <1>4, <3>1, <4>2
    <3> QED BY <3>1, <3>2, <3>3
  <2>5. ~(r.first > last)
    BY <1>2, <1>3, <1>4, <2>1, <2>4
  <2> QED BY <1>5, <2>3, <2>5
<1>10. ASSUME code = "all" PROVE InSome(ranges, a)
  <2>1. reaching # {} /\ Swallows(r, first, last)
    BY <1>5, <1>10
  <2>2. k \in DOMAIN ranges
    BY <1>7, <2>1
  <2>3. r.first <= a /\ a <= r.last
    BY <1>2, <1>3, <1>4, <2>1, <2>2 DEF Swallows
  <2> QED BY <2>2, <2>3 DEF InSome, Within
<1>11. code \in {"none", "all", "deeper"}
  BY <1>5
<1> QED BY <1>6, <1>8, <1>9, <1>10, <1>11

-----------------------------------------------------------------------------
(* The sets. *)

\* Each package's Match on what was merged.
LEMMA MatchesAreUnion ==
    ASSUME NEW S \in SUBSET Prefix, NEW ranges, IsUnion(ranges, S),
           NEW package \in RangePackages, NEW a \in Addr
    PROVE  /\ Match4(package, ranges, a) <=> Covered(S, a)
           /\ Match6(package, ranges, a) <=> Covered(S, a)
<1>1. Apart(ranges) /\ (InSome(ranges, a) <=> Covered(S, a))
  BY DEF IsUnion
<1>2. /\ search(ranges, a) <=> InSome(ranges, a)
      /\ Classified(ranges, a) <=> InSome(ranges, a)
  BY <1>1, SearchFinds, ClassifierFinds
<1>3. InSome(ranges, a) => ranges # <<>>
  BY DEF InSome
<1>4. Match4(package, ranges, a) <=> InSome(ranges, a)
  BY <1>2, <1>3 DEF Match4
<1>5. Match6(package, ranges, a) <=> InSome(ranges, a)
  BY <1>1, <1>2, SearchOfHighWords DEF Match6
<1> QED BY <1>1, <1>4, <1>5

\* The prefixes of both families that callers collected.
CollectedInv == added4 \in SUBSET Prefix /\ added6 \in SUBSET Prefix

LEMMA CollectedInvariance == BuilderSpec => []CollectedInv
<1>1. BuilderInit => CollectedInv
  BY DEF BuilderInit, CollectedInv
<1>2. CollectedInv /\ [BuilderNext]_<<added4, added6>> => CollectedInv'
  BY CollectedAssumption DEF BuilderNext, Collect4, Collect6, CollectedInv
<1> QED BY <1>1, <1>2, PTL DEF BuilderSpec

\* rangematch, rangeset, soarangeset and thinrangeset answer for every address of
\* both families whether a prefix covers it, in whichever order the sort leaves
\* ranges with the same start (RangesAreUnion).
THEOREM RangeSetsAreUnion == BuilderSpec => []RangesAreUnion
<1>1. CollectedInv => RangesAreUnion
  BY MergeIsUnion, MatchesAreUnion DEF CollectedInv, RangesAreUnion
<1> QED BY <1>1, CollectedInvariance, PTL

\* What a merge keeps are the maximal intervals of the union, in both families, also
\* where a range ends with a high word (RangesAreMinimal).
THEOREM RangeSetsAreMinimal == BuilderSpec => []RangesAreMinimal
<1>1. CollectedInv => RangesAreMinimal
  <2> SUFFICES ASSUME CollectedInv, NEW fam \in Families,
                      NEW s \in Ascending({RangeOf(p) : p \in IF fam = 4 THEN added4 ELSE added6}),
                      NEW i \in 1 .. Len(merge(fam, s)) - 1
               PROVE  merge(fam, s)[i].last + 1 < merge(fam, s)[i + 1].first
    BY DEF RangesAreMinimal
  <2> DEFINE S == IF fam = 4 THEN added4 ELSE added6
  <2>1. S \in SUBSET Prefix
    BY DEF CollectedInv
  <2> HIDE DEF S
  <2>2. s \in Ascending({RangeOf(p) : p \in S})
    BY DEF S
  <2>3. IsUnion(merge(fam, s), S)
    BY <2>1, <2>2, MergeIsUnion
  <2> QED BY <2>3 DEF IsUnion, Apart
<1> QED BY <1>1, CollectedInvariance, PTL

-----------------------------------------------------------------------------
(* The member index. *)

\* Whatever a path's slot holds that does not lead to a stride with children, it
\* answers for the addresses of the path whether a prefix covers them.
LEMMA SlotAnswersExactly ==
    ASSUME NEW S \in SUBSET Prefix, NEW a \in Addr, NEW bits \in StrideBits,
           MemberKind(S, PathOf(a, bits)) # "node"
    PROVE  SlotAnswer(S, PathOf(a, bits), a) <=> Covered(S, a)
<1> DEFINE path == PathOf(a, bits)
           octet == PathOf(a, path.bits + Stride)
           M == Matches(S, a)
<1>1. bits \in 0 .. Width /\ Stride \in Nat \ {0} /\ bits + Stride \in 0 .. Width
  BY StridesPassed, StrideAssumption, WidthAssumption DEF StridesAreEven
<1>2. path.bits = bits /\ PathSplits(S, a, path)
  BY <1>1, PathsSplitMatches
<1>3. octet.bits = bits + Stride /\ PathSplits(S, a, octet)
  BY <1>1, <1>2, PathsSplitMatches
<1> HIDE DEF path, octet
<1>4. /\ Above(S, path) = {p \in M : p.bits <= bits}
      /\ \A p \in M : p.bits > bits => p \in Below(S, path)
  BY <1>2 DEF PathSplits
<1>5. \A p \in M : p \in S /\ Covers(p, a) /\ p.bits \in 0 .. Width
  BY PrefixType DEF Matches
<1>6. \A p \in S : Covers(p, a) => p \in M
  BY DEF Matches
<1>7. Covered(S, a) <=> M # {}
  BY DEF Covered
<1>8. CASE Above(S, path) # {}
  <2>1. MemberKind(S, path) = "one"
    BY <1>8 DEF MemberKind
  <2>2. SlotAnswer(S, path, a)
    BY <2>1 DEF SlotAnswer
  <2> QED BY <1>4, <1>7, <1>8, <2>2 DEF path
<1>9. CASE Above(S, path) = {}
  <2>1. \A p \in M : p.bits > bits /\ p \in Below(S, path)
    BY <1>1, <1>4, <1>5, <1>9, WidthAssumption
  <2>2. \A p \in Below(S, path) : p \in S /\ p.bits \in 0 .. Width
    BY PrefixType DEF Below
  <2>3. CASE Below(S, path) = {}
    <3>1. MemberKind(S, path) = "zero"
      <4>1. ~IsLeaf(S, path)
        BY <2>3, FS_EmptySet DEF IsLeaf
      <4> QED BY <1>9, <2>3, <4>1 DEF MemberKind
    <3>2. ~SlotAnswer(S, path, a)
      BY <3>1 DEF SlotAnswer
    <3> QED BY <1>7, <2>1, <2>3, <3>2 DEF path
  <2>4. CASE Below(S, path) # {} /\ IsLeaf(S, path)
    <3>1. MemberKind(S, path) = "leaf"
      BY <1>9, <2>4 DEF MemberKind
    <3>2. SlotAnswer(S, path, a) <=> \A only \in Below(S, path) : Covers(only, a)
      BY <3>1 DEF SlotAnswer, LeafCovers
    <3>3. PICK only : Below(S, path) = {only}
      <4>1. IsFiniteSet(S)
        BY PrefixesAreFinite, FS_Subset
      <4> QED BY <2>4, <4>1, PathsBuilt
    <3>4. Covers(only, a) <=> M # {}
      BY <1>5, <1>6, <2>1, <2>2, <3>3
    <3> QED BY <1>7, <3>2, <3>3, <3>4 DEF path
  <2>5. CASE Below(S, path) # {} /\ ~IsLeaf(S, path)
    <3>1. /\ \A p \in Below(S, path) : p.bits <= path.bits + Stride
          /\ MemberKind(S, path) = "stop"
      BY <1>9, <2>5 DEF MemberKind, path
    <3>2. SlotAnswer(S, path, a) <=> CoverMask(S, path, octet)
      BY <3>1 DEF SlotAnswer, octet
    <3>3. CoverMask(S, path, octet) <=> M # {}
      <4>1. Above(S, octet) = {p \in M : p.bits <= octet.bits}
        BY <1>3 DEF PathSplits
      <4>2. CoverMask(S, path, octet) <=> \E p \in Below(S, path) : p \in Above(S, octet)
        BY <2>2 DEF CoverMask, Above
      <4>3. \A p \in M : p.bits <= octet.bits
        BY <1>2, <1>3, <2>1, <3>1
      <4> QED BY <2>1, <4>1, <4>2, <4>3
    <3> QED BY <1>7, <3>2, <3>3 DEF path
  <2> QED BY <2>3, <2>4, <2>5
<1> QED BY <1>8, <1>9

\* The last stride of an address has no stride with children below it.
LEMMA LastStrideStops ==
    ASSUME NEW S \in SUBSET Prefix, NEW a \in Addr, NEW bits \in StrideBits, bits + Stride = Width
    PROVE  MemberKind(S, PathOf(a, bits)) # "node"
<1> DEFINE path == PathOf(a, bits)
<1>1. bits \in 0 .. Width
  BY StridesPassed DEF StridesAreEven
<1>2. path.bits = bits
  BY <1>1, PathsSplitMatches
<1> HIDE DEF path
<1>3. \A p \in Below(S, path) : p.bits <= path.bits + Stride
  BY <1>2, PrefixType, WidthAssumption DEF Below
<1>4. MemberKind(S, path) # "node"
  BY <1>3 DEF MemberKind
<1> QED BY <1>4 DEF path

\* Contains6 is exact, for any number of strides.
LEMMA Contains6IsExact ==
    ASSUME RootBits < Width, NEW S \in SUBSET Prefix, NEW a \in Addr
    PROVE  Contains6(S, a) <=> Covered(S, a)
<1> DEFINE stops == {bits \in StrideBits : MemberKind(S, PathOf(a, bits)) # "node"}
           way == {PathOf(a, bits) : bits \in StrideBits}
           Stops(n) == /\ MemberKind(S, n) # "node"
                      /\ \A up \in way : up.bits < n.bits => MemberKind(S, up) = "node"
<1>1. /\ StrideBits \in SUBSET Nat /\ StrideBits # {} /\ \A b \in StrideBits : b <= Width
      /\ \A b \in StrideBits : PathOf(a, b).bits = b
  <2>1. StrideBits \in SUBSET (0 .. Width) /\ StrideBits # {}
    BY StridesPassed, WidthAssumption, StrideAssumption DEF StridesAreEven
  <2> QED BY <2>1, PathsSplitMatches, WidthAssumption
<1>2. Max(StrideBits) \in StrideBits /\ \A b \in StrideBits : b <= Max(StrideBits)
  BY <1>1, GreatestElement, WidthAssumption
<1>3. Max(StrideBits) + Stride = Width
  <2>1. Stride \in Nat \ {0} /\ Max(StrideBits) \in Nat
    BY <1>1, <1>2, StrideAssumption
  <2>2. Max(StrideBits) + Stride \notin StrideBits
    BY <1>1, <1>2, <2>1
  <2> QED BY <1>2, <2>2, StridesPassed DEF StridesAreEven
<1>4. stops # {} /\ stops \in SUBSET Nat
  BY <1>1, <1>2, <1>3, LastStrideStops
<1>5. PICK first \in stops : \A b \in stops : first <= b
  <2> HIDE DEF stops
  <2> QED BY <1>4, LeastElement
<1>6. PathOf(a, first) \in way /\ Stops(PathOf(a, first))
  <2>1. ASSUME NEW b \in StrideBits, b < first PROVE MemberKind(S, PathOf(a, b)) = "node"
    BY <1>1, <1>4, <1>5, <2>1
  <2> QED BY <1>1, <1>5, <2>1
<1>7. \E n \in way : Stops(n)
  BY <1>6
<1> DEFINE end == CHOOSE n \in way : Stops(n)
<1>8. end \in way /\ Stops(end)
  <2> HIDE DEF way, Stops
  <2> QED BY <1>7
<1>9. Contains6(S, a) <=> SlotAnswer(S, end, a)
  BY DEF Contains6
<1> HIDE DEF end
<1>10. PICK bits \in StrideBits : end = PathOf(a, bits)
  BY <1>8
<1> QED BY <1>8, <1>9, <1>10, SlotAnswersExactly

\* An address of IPv4: the root table and two strides, 16, 8 and 8 bits.
TwoStrides == Width = RootBits + 2 * Stride

LEMMA StridesOf4 ==
    ASSUME TwoStrides
    PROVE  /\ RootBits < Width
           /\ RootBits \in StrideBits
           /\ RootBits + Stride \in StrideBits
           /\ RootBits + Stride + Stride = Width
<1>1. RootBits \in Nat /\ Stride \in Nat \ {0} /\ Width \in Nat
  BY StrideAssumption, WidthAssumption
<1>2. RootBits < Width /\ RootBits + Stride + Stride = Width /\ RootBits + Stride # Width
  BY <1>1 DEF TwoStrides
<1> QED BY <1>1, <1>2, StridesPassed DEF StridesAreEven

\* Contains4 is exact outside the slots that Shadowed names.
LEMMA Contains4IsExact ==
    ASSUME TwoStrides, NEW S \in SUBSET Prefix, NEW S6, NEW a \in Addr, ~Shadowed(S, a)
    PROVE  Contains4(S, S6, a) = {Says(Covered(S, a))}
<1> DEFINE first == PathOf(a, RootBits)
           second == PathOf(a, RootBits + Stride)
<1>1. MemberKind(S, second) # "node"
  BY StridesOf4, LastStrideStops
<1>2. CASE MemberKind(S, first) # "node"
  <2>1. SlotAnswer(S, first, a) <=> Covered(S, a)
    BY <1>2, StridesOf4, SlotAnswersExactly
  <2>2. Contains4(S, S6, a) = {Says(SlotAnswer(S, first, a))}
    BY <1>2 DEF Contains4
  <2> QED BY <2>1, <2>2 DEF Says
<1>3. CASE MemberKind(S, first) = "node" /\ Below(S, second) = {}
  <2>1. Contains4(S, S6, a) = {Says(CoverMask(S, first, second))}
    BY <1>3 DEF Contains4
  <2>2. Above(S, first) = {}
    BY <1>3 DEF MemberKind
  <2>3. RootBits \in 0 .. Width /\ RootBits + Stride \in 0 .. Width
    BY StridesOf4, StridesPassed DEF StridesAreEven
  <2>4. /\ first.bits = RootBits /\ PathSplits(S, a, first)
        /\ second.bits = RootBits + Stride /\ PathSplits(S, a, second)
    BY <2>3, PathsSplitMatches
  <2> HIDE DEF first, second
  <2>5. ASSUME NEW p \in Matches(S, a)
        PROVE  p \in Below(S, first) /\ p \in Above(S, second)
    <3>1. p.bits \in 0 .. Width
      BY PrefixType DEF Matches
    <3>2. p \in Below(S, first)
      BY <2>2, <2>3, <2>4, <3>1, WidthAssumption DEF PathSplits
    <3>3. p \in Above(S, second)
      BY <1>3, <2>3, <2>4, <3>1, WidthAssumption DEF PathSplits
    <3> QED BY <3>2, <3>3
  <2>6. Above(S, second) \subseteq Matches(S, a)
    BY <2>4 DEF PathSplits
  <2>7. CoverMask(S, first, second) <=> \E p \in Below(S, first) : p \in Above(S, second)
    BY DEF CoverMask, Above, Below
  <2>8. CoverMask(S, first, second) <=> Covered(S, a)
    BY <2>5, <2>6, <2>7 DEF Covered
  <2> QED BY <2>1, <2>8 DEF Says
<1>4. CASE MemberKind(S, first) = "node" /\ Below(S, second) # {}
  <2>1. MemberKind(S, second) # "one"
    BY <1>4 DEF Shadowed
  <2>2. Contains4(S, S6, a) = {Says(SlotAnswer(S, second, a))}
    BY <1>4, <2>1 DEF Contains4
  <2>3. SlotAnswer(S, second, a) <=> Covered(S, a)
    BY <1>1, StridesOf4, SlotAnswersExactly
  <2> QED BY <2>2, <2>3 DEF Says
<1> QED BY <1>2, <1>3, <1>4

\* A family whose root slots are all covered is covered.
LEMMA CoveredFamily ==
    ASSUME NEW S \in SUBSET Prefix, CoversFamily(S), NEW a \in Addr
    PROVE  Covered(S, a)
<1> DEFINE slot == PathOf(a, RootBits)
<1>1. RootBits \in 0 .. Width
  BY StrideAssumption, WidthAssumption
<1>2. PathSplits(S, a, slot) /\ Above(S, slot) # {}
  BY <1>1, PathsSplitMatches DEF CoversFamily
<1> QED BY <1>2 DEF PathSplits, Covered

\* What flatset and dirset answer for IPv6: exactly what is covered.
Sets6AreExact ==
    \A a \in Addr : /\ FlatSet6(added6, a) <=> Covered(added6, a)
                    /\ DirSet6(added6, a) <=> Covered(added6, a)

\* flatset and dirset answer IPv6 membership exactly, with any number of strides
\* below the root table: the fourteen octets below 16 bits among them, which
\* TwoStrides leaves out (Contains6 and coversIPv6 of the member index).
THEOREM IPv6SetsAreExact == RootBits < Width => (BuilderSpec => []Sets6AreExact)
<1> SUFFICES ASSUME RootBits < Width PROVE BuilderSpec => []Sets6AreExact
  OBVIOUS
<1>1. CollectedInv => Sets6AreExact
  <2> SUFFICES ASSUME CollectedInv, NEW a \in Addr
               PROVE  /\ FlatSet6(added6, a) <=> Covered(added6, a)
                      /\ DirSet6(added6, a) <=> Covered(added6, a)
    BY DEF Sets6AreExact
  <2>1. added6 \in SUBSET Prefix
    BY DEF CollectedInv
  <2>2. Contains6(added6, a) <=> Covered(added6, a)
    BY <2>1, Contains6IsExact
  <2>3. CoversFamily(added6) => Covered(added6, a)
    BY <2>1, CoveredFamily
  <2> QED BY <2>2, <2>3 DEF FlatSet6, DirSet6
<1> QED BY <1>1, CollectedInvariance, PTL

\* With a root table and two strides, as IPv4 has them, flatset answers membership
\* exactly, IPv4 outside the slots that Shadowed names (FlatSetIsExact).  What it
\* says of IPv6 holds with any number of strides (IPv6SetsAreExact).
THEOREM FlatSetsAreExact == TwoStrides => (BuilderSpec => []FlatSetIsExact)
<1> SUFFICES ASSUME TwoStrides PROVE BuilderSpec => []FlatSetIsExact
  OBVIOUS
<1>1. CollectedInv => FlatSetIsExact
  <2> SUFFICES ASSUME CollectedInv, NEW a \in Addr
               PROVE  /\ FlatSet6(added6, a) <=> Covered(added6, a)
                      /\ ~Shadowed(added4, a) =>
                            FlatSet4(added4, added6, a) = {Says(Covered(added4, a))}
    BY DEF FlatSetIsExact
  <2>1. added4 \in SUBSET Prefix /\ added6 \in SUBSET Prefix
    BY DEF CollectedInv
  <2>2. FlatSet6(added6, a) <=> Covered(added6, a)
    BY <2>1, StridesOf4, Contains6IsExact, CoveredFamily DEF FlatSet6
  <2>3. ASSUME ~Shadowed(added4, a) PROVE FlatSet4(added4, added6, a) = {Says(Covered(added4, a))}
    <3>1. CASE CoversFamily(added4)
      BY <2>1, <3>1, CoveredFamily DEF FlatSet4, Says
    <3>2. CASE ~CoversFamily(added4)
      BY <2>1, <2>3, <3>2, Contains4IsExact DEF FlatSet4
    <3> QED BY <3>1, <3>2
  <2> QED BY <2>2, <2>3
<1> QED BY <1>1, CollectedInvariance, PTL

-----------------------------------------------------------------------------
(* dirset. *)

\* Ranges can be sorted: there is always a list that sort.Slice may produce.
LEMMA RangesCanBeSorted ==
    ASSUME NEW S \in SUBSET Prefix
    PROVE  Ascending({RangeOf(p) : p \in S}) # {}
<1> DEFINE R == {RangeOf(p) : p \in S}
           Lower(r, s) == r.first < s.first \/ (r.first = s.first /\ r.last < s.last)
           O == {pair \in R \X R : Lower(pair[1], pair[2])}
           n == Cardinality(R)
           s == [k \in 1 .. n |-> CHOOSE r \in R : Preceding(O, R, r) = k - 1]
<1>1. IsFiniteSet(R)
  <2> DEFINE range == [p \in S |-> RangeOf(p)]
  <2>1. IsFiniteSet(S)
    BY PrefixesAreFinite, FS_Subset
  <2>2. range \in Surjection(S, R)
    BY DEF Surjection
  <2> HIDE DEF range, R
  <2> QED BY <2>1, <2>2, FS_Surjection
<1>2. \A r \in R : r.first \in Nat /\ r.last \in Nat /\ r = [first |-> r.first, last |-> r.last]
  BY RangeOfPrefix, Addresses DEF AddrRange
<1> HIDE DEF R
<1>3. \A r, t \in R : <<r, t>> \in O <=> Lower(r, t)
  OBVIOUS
<1> HIDE DEF O
<1>4. StrictOrder(O, R)
  <2>1. \A r \in R : <<r, r>> \notin O
    BY <1>2, <1>3
  <2>2. \A r, t, u \in R : <<r, t>> \in O /\ <<t, u>> \in O => <<r, u>> \in O
    <3> TAKE r, t, u \in R
    <3>1. Lower(r, t) /\ Lower(t, u) => Lower(r, u)
      BY <1>2
    <3> QED BY <1>3, <3>1
  <2>3. \A r, t \in R : r # t => <<r, t>> \in O \/ <<t, r>> \in O
    <3> TAKE r, t \in R
    <3>1. r.first = t.first /\ r.last = t.last => r = t
      BY <1>2
    <3>2. r # t => Lower(r, t) \/ Lower(t, r)
      BY <1>2, <3>1
    <3> QED BY <1>3, <3>2
  <2> QED BY <2>1, <2>2, <2>3 DEF StrictOrder
<1>5. n \in Nat /\ Enumerates(O, R)
  BY <1>1, <1>4, BelowIsPosition
<1> HIDE DEF n
<1>6. ASSUME NEW k \in 1 .. n PROVE s[k] \in R /\ Preceding(O, R, s[k]) = k - 1
  <2>1. k - 1 \in 0 .. n - 1
    BY <1>5
  <2>2. \E r \in R : Preceding(O, R, r) = k - 1
    BY <1>5, <2>1 DEF Enumerates, n
  <2> QED BY <2>2
<1>7. s \in [1 .. n -> R] /\ DOMAIN s = 1 .. n
  BY <1>6
<1> HIDE DEF s
<1>8. \A i, j \in 1 .. n : i # j => s[i] # s[j]
  BY <1>5, <1>6
<1>9. ASSUME NEW i \in 1 .. n, NEW j \in 1 .. n, i < j PROVE s[i].first <= s[j].first
  <2>1. s[i] \in R /\ s[j] \in R
    BY <1>6
  <2>2. <<s[j], s[i]>> \notin O
    BY <1>5, <1>6, <1>9, <2>1 DEF Enumerates
  <2> QED BY <1>2, <1>3, <2>1, <2>2
<1>10. s \in Ascending(R)
  BY <1>7, <1>8, <1>9 DEF Ascending, SetToSeqs, n
<1> QED BY <1>10 DEF R

\* The slots of dirset's table: where they start, and that the prefixes which are
\* no longer cover all of a slot or nothing of it.
LEMMA DirSlots ==
    ASSUME TwoStrides, NEW a \in Addr
    PROVE  /\ DirSpan \in Nat \ {0}
           /\ DirSlot(a) \in 0 .. Pow2[DirBits] - 1
           /\ DirSlot(a) * DirSpan = Masked(a, DirBits).key
           /\ DirSlot(a) * DirSpan <= a /\ a < DirSlot(a) * DirSpan + DirSpan
           /\ \A p \in Prefix : p.bits <= DirBits =>
                 (Covers(p, DirSlot(a) * DirSpan) <=> Covers(p, a))
<1>1. DirBits \in 0 .. Width /\ Width - DirBits \in Nat
  BY StrideAssumption, WidthAssumption DEF TwoStrides, DirBits
<1>2. DirSpan \in Nat \ {0}
  BY <1>1, SpanType DEF DirSpan
<1>3. a \in Nat
  BY Addresses
<1> DEFINE slot == DirSlot(a)
<1>4. slot \in Nat /\ a = slot * DirSpan + (a % DirSpan) /\ (a % DirSpan) \in 0 .. DirSpan - 1
  BY <1>2, <1>3, DivisionWithRemainder DEF DirSlot
<1> HIDE DEF slot
<1>5. slot * DirSpan \in Nat
  BY <1>2, <1>4
<1>6. Masked(a, DirBits).key = slot * DirSpan
  <2>1. Masked(a, DirBits).key = a - (a % DirSpan)
    BY DEF Masked, DirSpan
  <2> QED BY <1>2, <1>3, <1>4, <1>5, <2>1
<1>7. slot * DirSpan <= a /\ a < slot * DirSpan + DirSpan
  BY <1>2, <1>4, <1>5
<1>8. slot \in 0 .. Pow2[DirBits] - 1
  <2>1. PICK k \in Nat : Pow2[Width] = k * DirSpan /\ k = Pow2[DirBits]
    <3>1. DirBits \in Nat /\ (Width - DirBits) + DirBits = Width
      BY <1>1, WidthAssumption
    <3>2. Pow2[(Width - DirBits) + DirBits] = Pow2[DirBits] * Pow2[Width - DirBits]
      BY <1>1, <3>1, PowersAdd
    <3>3. Pow2[DirBits] \in Nat
      BY <3>1, PowersOfTwo
    <3> QED BY <3>1, <3>2, <3>3 DEF DirSpan, Span
  <2>2. a < k * DirSpan
    <3>1. a < Pow2[Width]
      BY <1>3, PowersOfTwo, WidthAssumption DEF Addr
    <3> QED BY <2>1, <3>1
  <2>3. slot < k
    <3> SUFFICES ASSUME k <= slot PROVE FALSE
      BY <1>4, <2>1
    <3>1. slot - k \in Nat /\ (slot - k) * DirSpan \in Nat /\ slot * DirSpan = k * DirSpan + (slot - k) * DirSpan
      BY <1>2, <1>4, <2>1
    <3>2. k * DirSpan \in Nat
      BY <1>2, <2>1
    <3> QED BY <1>3, <1>5, <1>7, <2>2, <3>1, <3>2
  <2> QED BY <1>4, <2>1, <2>3
<1>9. ASSUME NEW p \in Prefix, p.bits <= DirBits
      PROVE  Covers(p, slot * DirSpan) <=> Covers(p, a)
  <2>1. /\ Masked(a, DirBits) \in Prefix
        /\ Masked(a, DirBits).bits = DirBits
        /\ Covers(Masked(a, DirBits), a)
    BY <1>1, MaskedCovers
  <2> QED BY <1>6, <1>9, <2>1, PrefixesNest
<1> QED BY <1>2, <1>6, <1>7, <1>8, <1>9 DEF slot

\* Products keep an order.
LEMMA ProductOrder ==
    ASSUME NEW m \in Nat, NEW i \in Nat, NEW j \in Nat, i <= j
    PROVE  i * m <= j * m /\ i * m \in Nat /\ j * m \in Nat
<1>1. j - i \in Nat
  OBVIOUS
<1>2. (j - i) * m \in Nat /\ i * m \in Nat /\ j * m = i * m + (j - i) * m
  BY <1>1
<1> QED BY <1>2

\* A factor that is not 0 can be cancelled.
LEMMA EqualFactors ==
    ASSUME NEW m \in Nat \ {0}, NEW i \in Nat, NEW j \in Nat, i * m = j * m
    PROVE  i = j
<1>1. (i * m + 0) \div m = i /\ (j * m + 0) \div m = j
  BY QuotientAndRemainder
<1>2. i * m \in Nat /\ j * m \in Nat
  OBVIOUS
<1> QED BY <1>1, <1>2

\* The slots that compile4 promotes lie inside the range, unless 32 bits are not
\* enough to round its start up.
LEMMA PromotedInside ==
    ASSUME TwoStrides, NEW r \in AddrRange, NEW a \in Addr, DirSlot(a) \in Promoted(r),
           ~(r.first > MaxAddr - DirSpan + 1 /\ r.last < MaxAddr)
    PROVE  Within(r, a)
<1>1. /\ r.first \in Addr /\ r.last \in Addr /\ r.first \in Nat /\ r.last \in Nat /\ a \in Nat
      /\ r.first <= MaxAddr /\ r.last <= MaxAddr
  BY Addresses DEF AddrRange
<1>2. MaxAddr \in Nat /\ Pow2[Width] = MaxAddr + 1 /\ Addr = 0 .. MaxAddr
  <2>1. Pow2[Width] \in Nat
    BY PowersOfTwo, WidthAssumption
  <2> QED BY <2>1, Addresses DEF MaxAddr
<1>3. DirSpan \in Nat \ {0} /\ DirSlot(a) \in Nat
  BY DirSlots
<1>4. \A b \in Addr : Wrap(b) = b
  <2> TAKE b \in Addr
  <2>1. b \in 0 .. Pow2[Width] - 1 /\ Pow2[Width] \in Nat \ {0}
    BY <1>2
  <2>2. (0 * Pow2[Width] + b) % Pow2[Width] = b
    BY <2>1, QuotientAndRemainder
  <2> QED BY <2>1, <2>2 DEF Wrap
<1>5. r.last # MaxAddr
  <2> SUFFICES ASSUME r.last = MaxAddr PROVE FALSE
    OBVIOUS
  <2>1. Wrap(r.last + 1) = 0
    <3>1. Pow2[Width] \in Nat \ {0}
      BY <1>2
    <3>2. (1 * Pow2[Width] + 0) % Pow2[Width] = 0
      BY <3>1, QuotientAndRemainder
    <3> QED BY <1>2, <3>1, <3>2 DEF Wrap
  <2>2. DirSlot(0) = 0
    <3>1. (0 * DirSpan + 0) \div DirSpan = 0
      BY <1>3, QuotientAndRemainder
    <3> QED BY <1>3, <3>1 DEF DirSlot
  <2>3. DirSlot(a) < 0
    BY <2>1, <2>2 DEF Promoted
  <2> QED BY <1>3, <2>3
<1> DEFINE b == r.first + DirSpan - 1
           c == r.last + 1
<1>6. r.last < MaxAddr /\ b \in Addr /\ c \in Addr /\ b \in Nat /\ c \in Nat
  BY <1>1, <1>2, <1>3, <1>5
<1>7. DirSlot(b) <= DirSlot(a) /\ DirSlot(a) < DirSlot(c)
  BY <1>4, <1>6 DEF Promoted
<1>8. /\ b < DirSlot(b) * DirSpan + DirSpan
      /\ DirSlot(c) * DirSpan <= c
      /\ DirSlot(a) * DirSpan <= a /\ a < DirSlot(a) * DirSpan + DirSpan
      /\ DirSlot(b) \in Nat /\ DirSlot(c) \in Nat
  BY <1>6, DirSlots
<1>9. r.first <= a
  <2>1. DirSlot(b) * DirSpan <= DirSlot(a) * DirSpan /\ DirSlot(b) * DirSpan \in Nat
        /\ DirSlot(a) * DirSpan \in Nat
    BY <1>3, <1>7, <1>8, ProductOrder
  <2> QED BY <1>1, <1>3, <1>8, <2>1
<1>10. a <= r.last
  <2>1. DirSlot(a) + 1 \in Nat /\ DirSlot(a) + 1 <= DirSlot(c)
    BY <1>3, <1>7, <1>8
  <2>2. (DirSlot(a) + 1) * DirSpan <= DirSlot(c) * DirSpan
    BY <1>3, <1>8, <2>1, ProductOrder
  <2>3. (DirSlot(a) + 1) * DirSpan = DirSlot(a) * DirSpan + DirSpan
    BY <1>3
  <2>4. DirSlot(a) * DirSpan \in Nat /\ DirSlot(c) * DirSpan \in Nat
    BY <1>3, <1>8, ProductOrder
  <2> QED BY <1>1, <1>3, <1>8, <2>2, <2>3, <2>4
<1> QED BY <1>9, <1>10 DEF Within

\* Contains on IPv4 is exact unless a range wraps around.
LEMMA DirSet4IsExact ==
    ASSUME TwoStrides, NEW S \in SUBSET Prefix, ~WrapsAround(S), NEW a \in Addr
    PROVE  DirSet4(S, a) <=> Covered(S, a)
<1> DEFINE slot == DirSlot(a)
           painted == {n \in 0 .. Pow2[DirBits] - 1 :
                         \E p \in S : p.bits <= DirBits /\ Covers(p, n * DirSpan)}
           longer == {p \in S : p.bits > DirBits /\ DirSlot(p.key) \notin painted}
           sorted == CHOOSE s \in Ascending({RangeOf(p) : p \in longer}) : TRUE
           deep == merge(4, sorted)
           all == painted \cup UNION {Promoted(deep[i]) : i \in DOMAIN deep}
           deeper == {DirSlot(p.key) : p \in longer}
<1>1. DirCompile(S) = [all |-> all, deeper |-> deeper, deep |-> deep]
  BY DEF DirCompile
<1>2. /\ DirSet4(S, a) <=> slot \in all \/ (slot \in deeper /\ search(deep, a))
      /\ ~ \E i \in DOMAIN deep : deep[i].first > MaxAddr - DirSpan + 1 /\ deep[i].last < MaxAddr
  <2> HIDE DEF all, deeper, deep
  <2>1. /\ DirCompile(S).all = all
        /\ DirCompile(S).deeper = deeper
        /\ DirCompile(S).deep = deep
    BY <1>1
  <2>2. DirSet4(S, a) <=> slot \in all \/ (slot \in deeper /\ search(deep, a))
    BY <2>1 DEF DirSet4
  <2>3. ~ \E i \in DOMAIN deep : deep[i].first > MaxAddr - DirSpan + 1 /\ deep[i].last < MaxAddr
    BY <2>1 DEF WrapsAround
  <2> QED BY <2>2, <2>3
<1>3. longer \in SUBSET Prefix /\ longer \in SUBSET S
  OBVIOUS
<1>4. slot \in painted <=> \E p \in S : p.bits <= DirBits /\ Covers(p, a)
  BY DirSlots
<1>5. \A p \in longer : p.bits > DirBits
  OBVIOUS
<1>6. \A p \in S : p.bits > DirBits /\ DirSlot(p.key) \notin painted => p \in longer /\ DirSlot(p.key) \in deeper
  OBVIOUS
<1>7. \A i \in DOMAIN deep : slot \in Promoted(deep[i]) => slot \in all
  OBVIOUS
<1>8. slot \in all => slot \in painted \/ \E i \in DOMAIN deep : slot \in Promoted(deep[i])
  OBVIOUS
<1>9. slot \in painted => slot \in all
  OBVIOUS
<1> HIDE DEF painted, longer, all, deeper
<1>10. IsUnion(deep, longer)
  <2>1. sorted \in Ascending({RangeOf(p) : p \in longer})
    BY <1>3, RangesCanBeSorted
  <2> HIDE DEF sorted
  <2> QED BY <1>3, <2>1, MergeIsUnion
<1> HIDE DEF deep
<1>11. /\ Apart(deep) /\ (search(deep, a) <=> Covered(longer, a))
       /\ \A i \in DOMAIN deep : Within(deep[i], a) => Covered(longer, a)
  BY <1>10, SearchFinds DEF IsUnion, InSome
<1>12. Covered(longer, a) => Covered(S, a)
  BY <1>3 DEF Covered, Matches
<1>13. ASSUME DirSet4(S, a) PROVE Covered(S, a)
  <2>1. CASE slot \in painted
    BY <1>4, <2>1 DEF Covered, Matches
  <2>2. ASSUME NEW i \in DOMAIN deep, slot \in Promoted(deep[i]) PROVE Covered(S, a)
    <3>1. deep[i] \in AddrRange
      BY <1>11, ElementOfSeq, LenProperties DEF Apart
    <3>2. Within(deep[i], a)
      BY <1>2, <2>2, <3>1, PromotedInside
    <3> QED BY <1>11, <1>12, <3>2
  <2>3. CASE slot \in deeper /\ search(deep, a)
    BY <1>11, <1>12, <2>3
  <2> QED BY <1>2, <1>8, <1>13, <2>1, <2>2, <2>3
<1>14. ASSUME Covered(S, a) PROVE DirSet4(S, a)
  <2>1. PICK p \in S : Covers(p, a)
    BY <1>14 DEF Covered, Matches
  <2>2. p \in Prefix /\ p.bits \in 0 .. Width /\ DirBits \in 0 .. Width
    BY <2>1, PrefixType, StrideAssumption, WidthAssumption DEF TwoStrides, DirBits
  <2>3. CASE p.bits <= DirBits
    BY <1>2, <1>4, <1>9, <2>1, <2>3
  <2>4. CASE p.bits > DirBits /\ slot \in painted
    BY <1>2, <1>9, <2>4
  <2>5. CASE p.bits > DirBits /\ slot \notin painted
    <3>1. p = Masked(a, p.bits) /\ p.key \in Addr
      BY <2>1, <2>2, CoverIsMasked, MaskedCovers
    <3>2. DirBits \in 0 .. p.bits
      BY <2>2, <2>5, WidthAssumption
    <3>3. Masked(p.key, DirBits) = Masked(a, DirBits)
      BY <2>2, <3>1, <3>2, MaskedTwice
    <3>4. DirSlot(p.key) * DirSpan = slot * DirSpan
      BY <3>1, <3>3, DirSlots
    <3>5. DirSlot(p.key) = slot
      <4>1. DirSpan \in Nat \ {0} /\ slot \in Nat /\ DirSlot(p.key) \in Nat
        BY <3>1, DirSlots
      <4> HIDE DEF slot
      <4> QED BY <3>4, <4>1, EqualFactors
    <3>6. p \in longer /\ slot \in deeper
      BY <1>6, <2>5, <3>5
    <3>7. Covered(longer, a)
      BY <2>1, <3>6 DEF Covered, Matches
    <3> QED BY <1>2, <1>11, <3>6, <3>7
  <2> QED BY <2>2, <2>3, <2>4, <2>5, WidthAssumption
<1> QED BY <1>13, <1>14

\* With a root table and two strides, as IPv4 has them, dirset answers membership
\* exactly, IPv4 unless a range wraps around (DirSetIsExact).  What it says of IPv6
\* holds with any number of strides (IPv6SetsAreExact).
THEOREM DirSetsAreExact == TwoStrides => (BuilderSpec => []DirSetIsExact)
<1> SUFFICES ASSUME TwoStrides PROVE BuilderSpec => []DirSetIsExact
  OBVIOUS
<1>1. CollectedInv => DirSetIsExact
  <2> SUFFICES ASSUME CollectedInv, NEW a \in Addr
               PROVE  /\ DirSet6(added6, a) <=> Covered(added6, a)
                      /\ ~WrapsAround(added4) => (DirSet4(added4, a) <=> Covered(added4, a))
    BY DEF DirSetIsExact
  <2>1. added4 \in SUBSET Prefix /\ added6 \in SUBSET Prefix
    BY DEF CollectedInv
  <2>2. DirSet6(added6, a) <=> Covered(added6, a)
    BY <2>1, StridesOf4, Contains6IsExact, CoveredFamily DEF DirSet6
  <2> QED BY <2>1, <2>2, DirSet4IsExact
<1> QED BY <1>1, CollectedInvariance, PTL
=============================================================================
