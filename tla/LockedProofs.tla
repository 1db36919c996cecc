---------------------------- MODULE LockedProofs ----------------------------
(***************************************************************************)
(* Proofs about the tables under a mutex.  parityset: its Set answers for  *)
(* the union of what it was built from, whatever the width, the cuts, the  *)
(* low word and the limits, and its Table may skip the publications that   *)
(* it skips.  steplpm and soaart: whatever order a rebuild walks the map   *)
(* in, the published index and values answer for what was asked for.       *)
(***************************************************************************)
EXTENDS ParityTable, StepLPM, Foundations

Covered(S, a) == Matches(S, a) # {}

-----------------------------------------------------------------------------
(* What is merged, and the merge. *)

\* The ranges of some prefixes, in the order of their starts, every one of them.
LEMMA RangesAreSorted ==
    ASSUME NEW S \in SUBSET Prefix
    PROVE  /\ Ranges(S) \in Seq(AddrRange)
           /\ \A i, j \in DOMAIN Ranges(S) : i < j => Ranges(S)[i].first <= Ranges(S)[j].first
           /\ \A a \in Addr : (\E j \in 1 .. Len(Ranges(S)) : Within(Ranges(S)[j], a)) <=> Covered(S, a)
<1> DEFINE R == {RangeOf(p) : p \in S}
           range == [p \in S |-> RangeOf(p)]
           n == Cardinality(R)
           order == {x \in R \X R : Earlier(x[1], x[2])}
           s == Ranges(S)
<1>1. IsFiniteSet(R)
  <2>1. IsFiniteSet(S)
    BY PrefixesAreFinite, FS_Subset
  <2>2. range \in Surjection(S, R)
    BY DEF Surjection
  <2> HIDE DEF range, R
  <2> QED BY <2>1, <2>2, FS_Surjection
<1>2. R \subseteq AddrRange
  BY RangeOfPrefix
<1>3. s = [i \in 1 .. n |-> CHOOSE r \in R : Cardinality({q \in R : Earlier(q, r)}) = i - 1]
  BY DEF Ranges
<1>4. ASSUME NEW a \in Addr
      PROVE  (\E r \in R : Within(r, a)) <=> Covered(S, a)
  <2>1. (\E r \in R : Within(r, a)) <=> \E p \in S : Within(RangeOf(p), a)
    OBVIOUS
  <2>2. (\E p \in S : Within(RangeOf(p), a)) <=> \E p \in S : Covers(p, a)
    BY RangeOfPrefix
  <2>3. Covered(S, a) <=> \E p \in S : Covers(p, a)
    BY DEF Covered, Matches
  <2> QED BY <2>1, <2>2, <2>3
<1> HIDE DEF R, s
<1>5. \A r \in R : r = [first |-> r.first, last |-> r.last] /\ r.first \in Nat /\ r.last \in Nat
  BY <1>2, Addresses DEF AddrRange
<1>6. StrictOrder(order, R)
  <2>1. \A x, y \in R : <<x, y>> \in order <=> Earlier(x, y)
    OBVIOUS
  <2>2. \A x \in R : ~Earlier(x, x)
    BY <1>5 DEF Earlier
  <2>3. \A x, y, z \in R : Earlier(x, y) /\ Earlier(y, z) => Earlier(x, z)
    BY <1>5 DEF Earlier
  <2>4. ASSUME NEW x \in R, NEW y \in R, x # y PROVE Earlier(x, y) \/ Earlier(y, x)
    <3>1. x.first # y.first \/ x.last # y.last
      BY <1>5, <2>4
    <3> QED BY <1>5, <3>1 DEF Earlier
  <2> HIDE DEF order
  <2> QED BY <2>1, <2>2, <2>3, <2>4 DEF StrictOrder
<1>7. \A r \in R : {q \in R : Earlier(q, r)} = {q \in R : <<q, r>> \in order}
  OBVIOUS
<1> HIDE DEF order
<1>8. \A r \in R : Cardinality({q \in R : Earlier(q, r)}) = Preceding(order, R, r)
  BY <1>7 DEF Preceding
<1>9. n \in Nat /\ Enumerates(order, R)
  BY <1>1, <1>6, BelowIsPosition
<1> HIDE DEF n
<1>10. \A i \in 1 .. n : s[i] \in R /\ Preceding(order, R, s[i]) = i - 1
  <2> TAKE i \in 1 .. n
  <2>1. i - 1 \in 0 .. n - 1
    BY <1>9
  <2>2. \E r \in R : Preceding(order, R, r) = i - 1
    BY <1>9, <2>1 DEF Enumerates, n
  <2>3. s[i] = CHOOSE r \in R : Cardinality({q \in R : Earlier(q, r)}) = i - 1
    BY <1>3
  <2> QED BY <1>8, <2>2, <2>3
<1>11. s \in Seq(AddrRange) /\ Len(s) = n /\ DOMAIN s = 1 .. n
  <2>1. s \in [1 .. n -> AddrRange]
    BY <1>2, <1>3, <1>10
  <2> QED BY <1>9, <2>1
<1>12. ASSUME NEW i \in 1 .. n, NEW j \in 1 .. n, i < j
       PROVE  s[i].first <= s[j].first
  <2>1. s[i] \in R /\ s[j] \in R /\ s[i] # s[j]
    BY <1>10, <1>12
  <2>2. ~(<<s[j], s[i]>> \in order)
    <3>1. <<s[j], s[i]>> \in order => Preceding(order, R, s[j]) < Preceding(order, R, s[i])
      BY <1>9, <2>1 DEF Enumerates
    <3> QED BY <1>10, <1>12, <3>1
  <2>3. <<s[i], s[j]>> \in order
    BY <1>6, <2>1, <2>2 DEF StrictOrder
  <2>4. Earlier(s[i], s[j])
    BY <2>3 DEF order
  <2> QED BY <1>5, <2>1, <2>4 DEF Earlier
<1>13. ASSUME NEW r \in R PROVE \E j \in 1 .. n : s[j] = r
  <2> DEFINE k == Preceding(order, R, r)
  <2>1. k \in 0 .. n - 1
    BY <1>9 DEF Enumerates, n
  <2> HIDE DEF k
  <2>2. PICK j \in 1 .. n : j = k + 1
    <3>1. k + 1 \in 1 .. n
      BY <1>9, <2>1
    <3> QED BY <3>1, Zenon
  <2>3. s[j] \in R /\ Preceding(order, R, s[j]) = k
    <3>1. j - 1 = k
      BY <2>1, <2>2
    <3> QED BY <1>10, <3>1, Zenon
  <2>4. s[j] = r
    BY <1>9, <2>2, <2>3 DEF Enumerates, k
  <2> QED BY <2>4
<1>14. ASSUME NEW a \in Addr
       PROVE  (\E j \in 1 .. n : Within(s[j], a)) <=> Covered(S, a)
  BY <1>4, <1>10, <1>13
<1> QED BY <1>11, <1>12, <1>14 DEF s

\* MergeInto takes a range into the last one or keeps it after that one.
LEMMA MergeIntoMerges ==
    ASSUME NEW s \in Seq(AddrRange), \A i, j \in DOMAIN s : i < j => s[i].first <= s[j].first,
           NEW k \in 1 .. Len(s), NEW out, UnionUpTo(out, s, k - 1)
    PROVE  UnionUpTo(MergeInto(out, s[k]), s, k)
<1> DEFINE r == s[k]
           new == MergeInto(out, r)
           n == Len(out)
           last == out[n]
<1>1. /\ r \in AddrRange /\ r.first \in Nat /\ r.last \in Nat /\ MaxAddr \in Nat
      /\ r.first <= MaxAddr
  <2>1. k \in DOMAIN s
    BY LenProperties
  <2>2. r \in AddrRange
    BY <2>1, ElementOfSeq
  <2> QED BY <2>2, Addresses DEF AddrRange
<1>2. out \in Seq(AddrRange) /\ n \in Nat /\ DOMAIN out = 1 .. n
  BY LenProperties DEF Apart, UnionUpTo
<1>3. ASSUME out # <<>>
      PROVE  /\ n \in 1 .. n /\ Last(out) = last
             /\ last \in AddrRange /\ last.last \in Nat /\ last.last <= MaxAddr
             /\ last = [first |-> last.first, last |-> last.last]
  <2>1. n \in 1 .. n /\ Last(out) = last
    BY <1>2, <1>3, EmptySeq DEF Last
  <2>2. last \in AddrRange
    BY <1>2, <2>1, ElementOfSeq
  <2> QED BY <2>1, <2>2, Addresses DEF AddrRange
<1>4. MergesOne(out, r, new)
  <2>1. CASE out = <<>>
    <3>1. new = Append(out, r)
      <4>1. new = <<r>>
        BY <2>1 DEF MergeInto
      <4> QED BY <2>1, <4>1
    <3> QED BY <2>1, <3>1 DEF MergesOne
  <2>2. CASE out # <<>> /\ r.first <= last.last + 1
    <3>1. r.first <= last.last \/ (last.last # MaxAddr /\ r.first = last.last + 1)
      BY <1>1, <1>3, <2>2
    <3>2. new = IF r.last > last.last THEN [out EXCEPT ![n].last = r.last] ELSE out
      BY <2>2, <3>1 DEF MergeInto
    <3>3. new = [out EXCEPT ![n].last = IF r.last > @ THEN r.last ELSE @]
      <4>1. CASE r.last > last.last
        BY <3>2, <4>1
      <4>2. CASE ~(r.last > last.last)
        <5>1. [last EXCEPT !.last = IF r.last > @ THEN r.last ELSE @] = last
          BY <1>3, <2>2, <4>2
        <5>2. [out EXCEPT ![n] = last] = out
          BY <1>2, <1>3, <2>2
        <5> QED BY <3>2, <4>2, <5>1, <5>2
      <4> QED BY <4>1, <4>2
    <3> HIDE DEF r, new
    <3> QED BY <1>3, <2>2, <3>3 DEF MergesOne
  <2>3. CASE out # <<>> /\ ~(r.first <= last.last + 1)
    <3>1. ~(r.first <= last.last \/ (last.last # MaxAddr /\ r.first = last.last + 1))
      BY <1>1, <1>3, <2>3
    <3>2. new = Append(out, r)
      BY <2>3, <3>1 DEF MergeInto
    <3>3. last.last + 1 < r.first
      BY <1>1, <1>3, <2>3
    <3> HIDE DEF r, new
    <3> QED BY <1>3, <2>3, <3>2, <3>3 DEF MergesOne
  <2> QED BY <2>1, <2>2, <2>3
<1> HIDE DEF new
<1>5. UnionUpTo(new, s, k)
  BY <1>4, MergingOne
<1> QED BY <1>5 DEF new


\* It stays among lists of ranges.
LEMMA MergeIntoType ==
    ASSUME NEW out \in Seq([first : Addr, last : Addr]), NEW r \in [first : Addr, last : Addr]
    PROVE  MergeInto(out, r) \in Seq([first : Addr, last : Addr])
<1> DEFINE R == [first : Addr, last : Addr]
           n == Len(out)
           new == MergeInto(out, r)
<1>1. n \in Nat /\ out \in [1 .. n -> R]
  <2> HIDE DEF R
  <2>1. out \in Seq(R)
    BY DEF R
  <2> QED BY <2>1, LenProperties
<1>2. \/ new = <<r>>
      \/ new = Append(out, r)
      \/ new = out
      \/ out # <<>> /\ new = [out EXCEPT ![n].last = r.last]
  BY DEF MergeInto
<1>3. CASE new = <<r>>
  <2>1. <<r>> \in [1 .. 1 -> R]
    OBVIOUS
  <2> HIDE DEF R, new
  <2> QED BY <1>3, <2>1 DEF R, new
<1>4. CASE new = Append(out, r)
  <2> HIDE DEF R
  <2> QED BY <1>4, AppendProperties DEF R
<1>5. CASE new = out
  BY <1>5
<1>6. CASE out # <<>> /\ new = [out EXCEPT ![n].last = r.last]
  <2>1. n \in 1 .. n
    BY <1>1, <1>6, EmptySeq
  <2>2. out[n] \in R
    BY <1>1, <2>1
  <2>3. [out[n] EXCEPT !.last = r.last] \in R
    BY <2>2
  <2>4. new = [out EXCEPT ![n] = [out[n] EXCEPT !.last = r.last]]
    BY <1>6
  <2> HIDE DEF R, n, new
  <2>5. new \in [1 .. n -> R]
    BY <1>1, <2>3, <2>4
  <2> QED BY <1>1, <2>5 DEF R, new
<1> HIDE DEF new
<1> QED BY <1>2, <1>3, <1>4, <1>5, <1>6 DEF new

\* The ranges that are merged from those of some prefixes.
IsUnion(ranges, S) ==
    /\ Apart(ranges)
    /\ \A a \in Addr : InSome(ranges, a) <=> Covered(S, a)

LEMMA MergeIsUnion ==
    ASSUME NEW S \in SUBSET Prefix
    PROVE  IsUnion(merge(S), S)
<1> DEFINE s == Ranges(S)
           n == Len(s)
           R == [first : Addr, last : Addr]
           V == Seq(R)
           step == [x \in V \X Nat |-> IF x[2] \in 1 .. n THEN MergeInto(x[1], s[x[2]]) ELSE <<>>]
           Equation(f) ==
               f = [t \in SUBSET (1 .. n) |->
                       IF t = {} THEN <<>> ELSE MergeInto(f[t \ {Max(t)}], s[Max(t)])]
           fold == CHOOSE f : Equation(f)
<1>1. /\ s \in Seq(AddrRange)
      /\ \A i, j \in DOMAIN s : i < j => s[i].first <= s[j].first
      /\ \A a \in Addr : (\E j \in 1 .. n : Within(s[j], a)) <=> Covered(S, a)
  BY RangesAreSorted
<1>2. merge(S) = fold[1 .. n]
  <2>1. DOMAIN s = 1 .. n
    BY <1>1, LenProperties
  <2> QED BY <2>1 DEF merge, FoldLeft, MapThenFoldSet
<1> HIDE DEF s
<1>3. n \in Nat /\ DOMAIN s = 1 .. n /\ \A k \in 1 .. n : s[k] \in R
  BY <1>1, LenProperties, ElementOfSeq DEF AddrRange
<1>4. <<>> \in V /\ step \in [V \X Nat -> V]
  <2>1. <<>> \in V
    BY EmptySeq
  <2>2. \A out \in V, k \in 1 .. n : MergeInto(out, s[k]) \in V
    BY <1>3, MergeIntoType
  <2> HIDE DEF V
  <2> QED BY <2>1, <2>2
<1>5. PICK f \in [SUBSET (1 .. n) -> V] : Folds(f, <<>>, step, n)
  <2> HIDE DEF V, step, n
  <2> QED BY <1>3, <1>4, Folding
<1>6. Equation(f)
  <2>1. f = [t \in SUBSET (1 .. n) |-> f[t]]
    BY <1>5
  <2>2. f[{}] = <<>>
    BY <1>5 DEF Folds
  <2>3. ASSUME NEW t \in SUBSET (1 .. n), t # {}
        PROVE  f[t] = MergeInto(f[t \ {Max(t)}], s[Max(t)])
    <3>1. Max(t) \in t
      <4>1. t \in SUBSET Nat /\ \A i \in t : i <= n
        BY <1>3
      <4> QED BY <1>3, <2>3, <4>1, GreatestElement
    <3>2. f[t] = step[<<f[t \ {Max(t)}], Max(t)>>]
      BY <1>5, <2>3 DEF Folds
    <3>3. f[t \ {Max(t)}] \in V /\ Max(t) \in 1 .. n /\ Max(t) \in Nat
      <4> HIDE DEF V
      <4>1. t \ {Max(t)} \in SUBSET (1 .. n) /\ Max(t) \in 1 .. n
        BY <3>1
      <4> QED BY <4>1, <1>5
    <3> HIDE DEF V
    <3> QED BY <3>2, <3>3
  <2> QED BY <2>1, <2>2, <2>3
<1>7. Equation(fold)
  <2> HIDE DEF Equation
  <2> QED BY <1>6
<1> HIDE DEF fold, step
<1>8. fold[1 .. 0] = <<>> /\ \A k \in 1 .. n : fold[1 .. k] = MergeInto(fold[1 .. k - 1], s[k])
  <2>1. 1 .. 0 = {}
    OBVIOUS
  <2>2. ASSUME NEW k \in 1 .. n PROVE fold[1 .. k] = MergeInto(fold[1 .. k - 1], s[k])
    <3>1. 1 .. k \in SUBSET (1 .. n) /\ 1 .. k # {}
      BY <1>3
    <3>2. Max(1 .. k) = k /\ (1 .. k) \ {k} = 1 .. k - 1
      BY GreatestOfFirst
    <3> QED BY <1>7, <3>1, <3>2
  <2> QED BY <1>7, <2>1, <2>2
<1>9. \A k \in 0 .. n : UnionUpTo(fold[1 .. k], s, k)
  <2> DEFINE odd == {k \in 0 .. n : ~UnionUpTo(fold[1 .. k], s, k)}
  <2> SUFFICES ASSUME odd # {} PROVE FALSE
    OBVIOUS
  <2>1. PICK k \in odd : \A j \in odd : k <= j
    <3>1. odd \in SUBSET Nat
      BY <1>3
    <3> HIDE DEF odd
    <3> QED BY <3>1, LeastElement
  <2>2. k \in 0 .. n /\ ~UnionUpTo(fold[1 .. k], s, k)
    BY <2>1
  <2>3. k # 0
    <3>1. Apart(<<>>)
      <4>1. <<>> \in Seq(AddrRange) /\ Len(<<>>) = 0
        BY EmptySeq
      <4> QED BY <4>1 DEF Apart
    <3>2. \A a \in Addr : ~InSome(<<>>, a)
      BY DEF InSome
    <3>3. UnionUpTo(<<>>, s, 0)
      BY <3>1, <3>2 DEF UnionUpTo
    <3> QED BY <1>8, <2>2, <3>3
  <2>4. k \in 1 .. n /\ k - 1 \in 0 .. n /\ k - 1 \notin odd
    <3>1. k \in 1 .. n /\ k - 1 \in 0 .. n /\ ~(k <= k - 1)
      BY <1>3, <2>2, <2>3
    <3> HIDE DEF odd
    <3> QED BY <2>1, <3>1
  <2>5. UnionUpTo(fold[1 .. k - 1], s, k - 1)
    BY <2>4
  <2>6. fold[1 .. k] = MergeInto(fold[1 .. k - 1], s[k])
    BY <1>8, <2>4
  <2>7. UnionUpTo(fold[1 .. k], s, k)
    <3> HIDE DEF odd, n
    <3>1. k \in 1 .. Len(s)
      BY <2>4 DEF n
    <3> QED BY <1>1, <2>5, <2>6, <3>1, MergeIntoMerges
  <2> QED BY <2>2, <2>7
<1>10. UnionUpTo(merge(S), s, n)
  <2>1. n \in 0 .. n
    BY <1>3
  <2> QED BY <1>2, <1>9, <2>1
<1> QED BY <1>1, <1>10 DEF UnionUpTo, IsUnion

-----------------------------------------------------------------------------
(* The boundaries, and what the number of them at or below an address says. *)

\* The boundaries of one range.
BoundsOf(r) == IF r.last # MaxAddr THEN <<r.first, r.last + 1>> ELSE <<r.first>>

\* Those of the first k ranges, of which only the last may end with the space.
IsBounds(b, ranges, k) ==
    /\ b \in Seq(Addr)
    /\ Len(b) = IF k # 0 /\ ranges[k].last = MaxAddr THEN 2 * k - 1 ELSE 2 * k
    /\ \A i \in 1 .. k :
          /\ b[2 * i - 1] = ranges[i].first
          /\ ranges[i].last # MaxAddr => b[2 * i] = ranges[i].last + 1

\* A range has one or two.
LEMMA BoundsOfRange ==
    ASSUME NEW r, r.first \in Addr, r.last \in Addr
    PROVE  /\ BoundsOf(r) \in Seq(Addr)
           /\ Len(BoundsOf(r)) = IF r.last = MaxAddr THEN 1 ELSE 2
           /\ BoundsOf(r)[1] = r.first
           /\ r.last # MaxAddr => BoundsOf(r)[2] = r.last + 1
<1>1. CASE r.last = MaxAddr
  BY <1>1 DEF BoundsOf
<1>2. CASE r.last # MaxAddr
  <2>1. r.last + 1 \in Addr
    BY <1>2, Addresses
  <2>2. BoundsOf(r) = <<r.first, r.last + 1>>
    BY <1>2 DEF BoundsOf
  <2> QED BY <1>2, <2>1, <2>2
<1> QED BY <1>1, <1>2

\* One range more.
LEMMA BoundsAdded ==
    ASSUME NEW ranges, Apart(ranges), NEW k \in 1 .. Len(ranges), NEW b, IsBounds(b, ranges, k - 1)
    PROVE  IsBounds(b \o BoundsOf(ranges[k]), ranges, k)
<1> DEFINE r == ranges[k]
           t == BoundsOf(r)
           new == b \o t
<1>1. /\ Len(ranges) \in Nat
      /\ r.first \in Addr /\ r.last \in Addr
      /\ k - 1 # 0 => ranges[k - 1].last # MaxAddr
  <2>1. Len(ranges) \in Nat /\ k \in DOMAIN ranges
    BY ApartIsSorted
  <2>2. ASSUME k - 1 # 0 PROVE ranges[k - 1].last # MaxAddr
    <3>1. k - 1 \in DOMAIN ranges /\ k - 1 < k
      BY <2>1, <2>2, ApartIsSorted
    <3>2. /\ ranges[k - 1].last < r.first /\ r.first \in Addr /\ ranges[k - 1].last \in Nat
      BY <2>1, <3>1, ApartIsSorted
    <3> QED BY <3>2, Addresses
  <2> QED BY <2>1, <2>2, ApartIsSorted
<1>2. /\ t \in Seq(Addr) /\ Len(t) = IF r.last = MaxAddr THEN 1 ELSE 2
      /\ t[1] = r.first /\ (r.last # MaxAddr => t[2] = r.last + 1)
  BY <1>1, BoundsOfRange
<1> HIDE DEF t
<1>3. b \in Seq(Addr) /\ Len(b) = 2 * (k - 1)
  BY <1>1 DEF IsBounds
<1> HIDE DEF new
<1>4. /\ new \in Seq(Addr) /\ Len(new) = Len(b) + Len(t)
      /\ \A i \in 1 .. Len(b) : new[i] = b[i]
      /\ \A i \in 1 .. Len(t) : new[Len(b) + i] = t[i]
  <2>1. t \in Seq(Addr) /\ b \in Seq(Addr)
    BY <1>2, <1>3
  <2>2. /\ b \o t \in Seq(Addr)
        /\ Len(b \o t) = Len(b) + Len(t)
        /\ \A i \in 1 .. Len(b) : (b \o t)[i] = b[i]
        /\ \A i \in 1 .. Len(t) : (b \o t)[Len(b) + i] = t[i]
    BY <2>1, Concatenated
  <2> QED BY <2>2 DEF new
<1>5. Len(new) = IF r.last = MaxAddr THEN 2 * k - 1 ELSE 2 * k
  BY <1>1, <1>2, <1>3, <1>4
<1>6. ASSUME NEW i \in 1 .. k
      PROVE  /\ new[2 * i - 1] = ranges[i].first
             /\ ranges[i].last # MaxAddr => new[2 * i] = ranges[i].last + 1
  <2>1. CASE i # k
    <3>1. i \in 1 .. k - 1 /\ 2 * i - 1 \in 1 .. Len(b) /\ 2 * i \in 1 .. Len(b)
      BY <1>1, <1>3, <2>1
    <3> QED BY <1>4, <3>1 DEF IsBounds
  <2>2. CASE i = k
    <3>1. 2 * i - 1 = Len(b) + 1 /\ 2 * i = Len(b) + 2 /\ 1 \in 1 .. Len(t)
      BY <1>1, <1>2, <1>3, <2>2
    <3>2. r.last # MaxAddr => 2 \in 1 .. Len(t)
      BY <1>2
    <3> QED BY <1>2, <1>4, <2>2, <3>1, <3>2
  <2> QED BY <2>1, <2>2
<1>7. IsBounds(new, ranges, k)
  <2>1. k # 0
    OBVIOUS
  <2> QED BY <1>4, <1>5, <1>6, <2>1, Zenon DEF IsBounds
<1> QED BY <1>7 DEF new, t

\* All of them.
LEMMA BoundariesAreBounds ==
    ASSUME NEW ranges, Apart(ranges)
    PROVE  IsBounds(Boundaries(ranges), ranges, Len(ranges))
<1> DEFINE n == Len(ranges)
           seqs == [i \in DOMAIN ranges |-> BoundsOf(ranges[i])]
<1>1. /\ n \in Nat /\ DOMAIN ranges = 1 .. n
      /\ \A i \in 1 .. n : ranges[i].first \in Addr /\ ranges[i].last \in Addr
  BY ApartIsSorted
<1>2. Boundaries(ranges) = FlattenSeq(seqs)
  BY DEF Boundaries, BoundsOf
<1>3. \A i \in 1 .. n : BoundsOf(ranges[i]) \in Seq(Addr)
  BY <1>1, BoundsOfRange
<1> HIDE DEF n
<1>4. seqs \in Seq(Seq(Addr)) /\ Len(seqs) = n /\ \A i \in 1 .. n : seqs[i] = BoundsOf(ranges[i])
  <2> DEFINE V == Seq(Addr)
  <2>1. seqs \in [1 .. n -> V]
    BY <1>1, <1>3
  <2> HIDE DEF V
  <2>2. seqs \in Seq(V) /\ Len(seqs) = n
    BY <1>1, <2>1
  <2> QED BY <1>1, <2>2 DEF V
<1> HIDE DEF seqs
<1>5. IsBounds(<<>>, ranges, 0)
  <2>1. <<>> \in Seq(Addr) /\ Len(<<>>) = 0
    BY EmptySeq
  <2> QED BY <2>1 DEF IsBounds
<1>6. CASE n = 0
  <2>1. seqs = <<>>
    BY <1>4, <1>6, EmptySeq
  <2>2. FlattenSeq(seqs) = <<>>
    BY <1>4, <1>6, <2>1 DEF FlattenSeq
  <2> QED BY <1>2, <1>5, <1>6, <2>2 DEF n
<1>7. CASE n # 0
  <2>1. PICK f \in [1 .. n -> Seq(Addr)] :
           /\ FlattenSeq(seqs) = f[n]
           /\ \A i \in 1 .. n : f[i] = IF i = 1 THEN seqs[i] ELSE f[i - 1] \o seqs[i]
    <3>1. seqs \in Seq(Seq(Addr)) /\ Len(seqs) # 0 /\ Len(seqs) = n
      BY <1>4, <1>7
    <3>2. \E f \in [1 .. Len(seqs) -> Seq(Addr)] :
             /\ FlattenSeq(seqs) = f[Len(seqs)]
             /\ \A i \in 1 .. Len(seqs) : f[i] = IF i = 1 THEN seqs[i] ELSE f[i - 1] \o seqs[i]
      BY <3>1, FlattenedSteps, Zenon
    <3> QED BY <3>1, <3>2, Zenon
  <2> DEFINE odd == {k \in 1 .. n : ~IsBounds(f[k], ranges, k)}
  <2>2. odd = {}
    <3> SUFFICES ASSUME odd # {} PROVE FALSE
      OBVIOUS
    <3>1. PICK k \in odd : \A j \in odd : k <= j
      <4>1. odd \in SUBSET Nat
        BY <1>1
      <4> HIDE DEF odd
      <4> QED BY <4>1, LeastElement
    <3>2. k \in 1 .. n /\ ~IsBounds(f[k], ranges, k)
      BY <3>1
    <3>3. CASE k = 1
      <4>1. f[k] = <<>> \o seqs[k]
        <5>1. f[k] = seqs[k] /\ seqs[k] \in Seq(Addr)
          BY <1>3, <1>4, <2>1, <3>2, <3>3
        <5> QED BY <5>1, ConcatEmptySeq
      <4>2. IsBounds(<<>>, ranges, k - 1)
        BY <1>5, <3>3
      <4>3. IsBounds(<<>> \o BoundsOf(ranges[k]), ranges, k)
        BY <3>2, <4>2, BoundsAdded DEF n
      <4> QED BY <1>4, <3>2, <4>1, <4>3
    <3>4. CASE k # 1
      <4>1. k - 1 \in 1 .. n /\ ~(k <= k - 1)
        BY <1>1, <3>2, <3>4
      <4>2. k - 1 \notin odd
        <5> HIDE DEF odd
        <5> QED BY <3>1, <4>1
      <4>3. IsBounds(f[k - 1], ranges, k - 1)
        BY <4>1, <4>2
      <4>4. IsBounds(f[k - 1] \o BoundsOf(ranges[k]), ranges, k)
        BY <3>2, <4>3, BoundsAdded DEF n
      <4> QED BY <1>4, <2>1, <3>2, <3>4, <4>4
    <3> QED BY <3>3, <3>4
  <2>3. n \in 1 .. n
    BY <1>1, <1>7
  <2> QED BY <1>2, <2>1, <2>2, <2>3 DEF n
<1> QED BY <1>6, <1>7

\* Boundaries in their order, each once.
Ascends(b) ==
    /\ b \in Seq(Addr)
    /\ \A i, j \in 1 .. Len(b) : i < j => b[i] < b[j]

\* The first c of them are the ones at or below an address.
Split(b, a, c) ==
    /\ c \in 0 .. Len(b)
    /\ \A i \in 1 .. Len(b) : b[i] <= a <=> i <= c

\* A place is that of the first or of the second boundary of a range.
LEMMA OddOrEven ==
    ASSUME NEW i \in Nat \ {0}
    PROVE  \E p \in Nat \ {0} : (i = 2 * p - 1 /\ i % 2 = 1) \/ (i = 2 * p /\ i % 2 = 0)
<1>1. i \div 2 \in Nat /\ i % 2 \in 0 .. 1 /\ i = (i \div 2) * 2 + (i % 2)
  BY DivisionWithRemainder
<1>2. CASE i % 2 = 0
  <2>1. i \div 2 \in Nat \ {0} /\ i = 2 * (i \div 2)
    BY <1>1, <1>2
  <2> QED BY <1>2, <2>1
<1>3. CASE i % 2 = 1
  <2>1. i \div 2 + 1 \in Nat \ {0} /\ i = 2 * (i \div 2 + 1) - 1
    BY <1>1, <1>3
  <2> QED BY <1>3, <2>1
<1> QED BY <1>1, <1>2, <1>3


\* The place p of a range with its boundaries.
LEMMA BoundsOfPlace ==
    ASSUME NEW ranges, Apart(ranges), NEW b, IsBounds(b, ranges, Len(ranges)),
           NEW i \in 1 .. Len(b)
    PROVE  \E p \in 1 .. Len(ranges) :
               \/ i = 2 * p - 1 /\ i % 2 = 1 /\ b[i] = ranges[p].first
               \/ i = 2 * p /\ i % 2 = 0 /\ ranges[p].last # MaxAddr /\ b[i] = ranges[p].last + 1
<1> DEFINE n == Len(ranges)
<1>1. n \in Nat /\ Len(b) \in Nat
  BY ApartIsSorted, LenProperties DEF IsBounds
<1>2. Len(b) = IF n # 0 /\ ranges[n].last = MaxAddr THEN 2 * n - 1 ELSE 2 * n
  BY DEF IsBounds
<1>3. \A p \in 1 .. n :
         /\ b[2 * p - 1] = ranges[p].first
         /\ ranges[p].last # MaxAddr => b[2 * p] = ranges[p].last + 1
  BY DEF IsBounds
<1> HIDE DEF n
<1>4. i \in Nat \ {0} /\ i <= Len(b)
  BY <1>1
<1>5. PICK p \in Nat \ {0} : (i = 2 * p - 1 /\ i % 2 = 1) \/ (i = 2 * p /\ i % 2 = 0)
  BY <1>4, OddOrEven
<1>6. p \in 1 .. n
  BY <1>1, <1>2, <1>4, <1>5
<1>7. CASE i = 2 * p - 1 /\ i % 2 = 1
  BY <1>3, <1>6, <1>7 DEF n
<1>8. CASE i = 2 * p /\ i % 2 = 0
  <2>1. ranges[p].last # MaxAddr
    <3>1. CASE p = n
      BY <1>1, <1>2, <1>4, <1>6, <1>8, <3>1
    <3>2. CASE p # n
      <4>1. p \in DOMAIN ranges /\ n \in DOMAIN ranges /\ p < n
        BY <1>1, <1>6, <3>2, ApartIsSorted DEF n
      <4>2. ranges[p].last < ranges[n].first /\ ranges[n].first \in Addr
        BY <4>1, ApartIsSorted
      <4>3. ranges[p].last \in Nat
        BY <4>1, ApartIsSorted
      <4> QED BY <4>2, <4>3, Addresses
    <3> QED BY <3>1, <3>2
  <2> QED BY <1>3, <1>6, <1>8, <2>1 DEF n
<1> QED BY <1>5, <1>7, <1>8

\* Boundaries of ranges that do not touch ascend.
LEMMA BoundsAscend ==
    ASSUME NEW ranges, Apart(ranges), NEW b, IsBounds(b, ranges, Len(ranges))
    PROVE  Ascends(b)
<1> DEFINE n == Len(ranges)
           first(p) == ranges[p].first
           last(p) == ranges[p].last
<1>1. n \in Nat /\ b \in Seq(Addr) /\ Len(b) \in Nat
  BY ApartIsSorted, LenProperties DEF IsBounds
<1>2. \A p \in 1 .. n : first(p) \in Nat /\ last(p) \in Nat /\ first(p) <= last(p)
  BY ApartIsSorted
<1>3. ASSUME NEW p \in 1 .. n, NEW q \in 1 .. n, p < q
      PROVE  last(p) + 1 < first(q)
  <2>1. p \in 1 .. n - 1 /\ p + 1 \in 1 .. n
    BY <1>1, <1>3
  <2>2. last(p) + 1 < first(p + 1)
    BY <2>1 DEF Apart
  <2>3. CASE q = p + 1
    BY <2>2, <2>3
  <2>4. CASE q # p + 1
    <3>1. p + 1 < q
      BY <1>3, <2>4
    <3>2. last(p + 1) < first(q)
      BY <2>1, <3>1, ApartIsSorted
    <3> HIDE DEF first, last
    <3> QED BY <1>2, <2>1, <2>2, <3>2
  <2> QED BY <2>3, <2>4
<1>4. ASSUME NEW i \in 1 .. Len(b), NEW j \in 1 .. Len(b), i < j
      PROVE  b[i] < b[j]
  <2>1. PICK p \in 1 .. n :
           \/ i = 2 * p - 1 /\ b[i] = first(p)
           \/ i = 2 * p /\ b[i] = last(p) + 1
    BY BoundsOfPlace
  <2>2. PICK q \in 1 .. n :
           \/ j = 2 * q - 1 /\ b[j] = first(q)
           \/ j = 2 * q /\ b[j] = last(q) + 1
    BY BoundsOfPlace
  <2> HIDE DEF first, last, n
  <2>3. p \in Nat /\ q \in Nat
    BY <1>1
  <2>4. CASE p = q
    <3>1. b[i] = first(p) /\ b[j] = last(p) + 1
      BY <1>1, <1>4, <2>1, <2>2, <2>3, <2>4
    <3> QED BY <1>2, <3>1
  <2>5. CASE p # q
    <3>1. p < q
      BY <1>1, <1>4, <2>1, <2>2, <2>3, <2>5
    <3>2. last(p) + 1 < first(q)
      BY <1>3, <3>1
    <3> QED BY <1>2, <2>1, <2>2, <3>2
  <2> QED BY <2>4, <2>5
<1> QED BY <1>1, <1>4 DEF Ascends

\* Every address splits them.
LEMMA Splits ==
    ASSUME NEW b, Ascends(b), NEW a \in Addr
    PROVE  \E c \in Nat : Split(b, a, c)
<1> DEFINE n == Len(b)
           T == {i \in 1 .. n : b[i] <= a}
           c == Cardinality(T)
<1>1. b \in Seq(Addr) /\ n \in Nat
  BY LenProperties DEF Ascends
<1>2. a \in Nat /\ \A i \in 1 .. n : b[i] \in Nat
  <2>1. \A i \in 1 .. n : b[i] \in Addr
    BY <1>1, ElementOfSeq
  <2> QED BY <2>1, Addresses
<1>3. ASSUME NEW i \in T, NEW j \in 0 + 1 .. i PROVE j \in T
  <2>1. i \in 1 .. n /\ b[i] <= a
    OBVIOUS
  <2>2. j \in 1 .. n /\ (j = i \/ j < i)
    BY <1>1, <2>1
  <2>3. b[j] <= b[i]
    <3>1. CASE j = i
      BY <1>2, <2>1, <3>1
    <3>2. CASE j < i
      <4>1. b[j] < b[i]
        BY <2>1, <2>2, <3>2 DEF Ascends
      <4> QED BY <1>2, <2>1, <2>2, <4>1
    <3> QED BY <2>2, <3>1, <3>2
  <2>4. b[j] <= a
    BY <1>2, <2>1, <2>2, <2>3
  <2> QED BY <2>2, <2>4
<1>4. T \in SUBSET (0 + 1 .. n)
  OBVIOUS
<1>5. c \in Nat /\ T = 0 + 1 .. 0 + c /\ 0 + c \in 0 .. n
  <2>1. \A i \in T : \A j \in 0 + 1 .. i : j \in T
    BY <1>3, Zenon
  <2> HIDE DEF T, n
  <2>2. 0 \in Nat /\ 0 <= n
    BY <1>1
  <2> QED BY <1>1, <1>4, <2>1, <2>2, FirstPlaces
<1> HIDE DEF c
<1>6. \A i \in 1 .. n : b[i] <= a <=> i <= c
  BY <1>5
<1>7. Split(b, a, c)
  BY <1>5, <1>6 DEF Split
<1> QED BY <1>5, <1>7

\* An odd number of boundaries at or below an address puts it into a range.
LEMMA ParityIsMembership ==
    ASSUME NEW ranges, Apart(ranges), NEW b, IsBounds(b, ranges, Len(ranges)),
           NEW a \in Addr, NEW c \in Nat, Split(b, a, c)
    PROVE  c % 2 = 1 <=> InSome(ranges, a)
<1> DEFINE n == Len(ranges)
<1>1. n \in Nat /\ b \in Seq(Addr) /\ Len(b) \in Nat /\ DOMAIN ranges = 1 .. n
  BY ApartIsSorted, LenProperties DEF IsBounds
<1>2. /\ a \in Nat /\ a <= MaxAddr /\ MaxAddr \in Nat
      /\ \A p \in 1 .. n : ranges[p].first \in Nat /\ ranges[p].last \in Nat
  BY ApartIsSorted, Addresses
<1>3. c \in 0 .. Len(b) /\ \A i \in 1 .. Len(b) : b[i] <= a <=> i <= c
  BY DEF Split
<1>4. ASSUME c % 2 = 1 PROVE InSome(ranges, a)
  <2>1. c \in 1 .. Len(b)
    <3>1. c # 0
      BY <1>4
    <3> QED BY <1>1, <1>3, <3>1
  <2>2. PICK p \in 1 .. n : c = 2 * p - 1 /\ b[c] = ranges[p].first
    BY <1>4, <2>1, BoundsOfPlace
  <2>3. ranges[p].first <= a
    <3>1. c <= c
      OBVIOUS
    <3>2. b[c] <= a
      BY <1>3, <2>1, <3>1
    <3> QED BY <2>2, <3>2
  <2>4. a <= ranges[p].last
    <3>1. CASE ranges[p].last = MaxAddr
      BY <1>2, <3>1
    <3>2. CASE ranges[p].last # MaxAddr
      <4>1. 2 * p \in 1 .. Len(b)
        <5>1. Len(b) = 2 * n - 1 \/ Len(b) = 2 * n
          BY DEF IsBounds
        <5>2. p = n => Len(b) = 2 * n
          BY <3>2 DEF IsBounds
        <5> HIDE DEF n
        <5>3. p \in Nat \ {0} /\ p <= n
          BY <1>1
        <5> QED BY <1>1, <5>1, <5>2, <5>3
      <4>2. ~(2 * p <= c)
        BY <1>1, <2>2
      <4>3. b[2 * p] = ranges[p].last + 1
        BY <3>2 DEF IsBounds
      <4>4. ~(ranges[p].last + 1 <= a)
        BY <1>3, <4>1, <4>2, <4>3
      <4> QED BY <1>2, <4>4
    <3> QED BY <3>1, <3>2
  <2> QED BY <1>1, <2>3, <2>4 DEF InSome, Within
<1>5. ASSUME InSome(ranges, a) PROVE c % 2 = 1
  <2>1. PICK p \in 1 .. n : ranges[p].first <= a /\ a <= ranges[p].last
    BY <1>1, <1>5 DEF InSome, Within
  <2>2. Len(b) \in 2 * n - 1 .. 2 * n
    BY <1>1 DEF IsBounds
  <2>3. 2 * p - 1 <= c
    <3>1. 2 * p - 1 \in 1 .. Len(b)
      BY <1>1, <2>2
    <3>2. b[2 * p - 1] = ranges[p].first
      BY DEF IsBounds
    <3> QED BY <1>3, <2>1, <3>1, <3>2
  <2>4. c <= 2 * p - 1
    <3>1. CASE 2 * p \in 1 .. Len(b)
      <4>1. ranges[p].last # MaxAddr
        <5>1. PICK q \in 1 .. n :
                 \/ 2 * p = 2 * q - 1
                 \/ 2 * p = 2 * q /\ ranges[q].last # MaxAddr
          BY <3>1, BoundsOfPlace
        <5>2. q = p /\ ranges[q].last # MaxAddr
          BY <1>1, <5>1
        <5> QED BY <5>2
      <4>2. b[2 * p] = ranges[p].last + 1
        BY <4>1 DEF IsBounds
      <4>3. ~(b[2 * p] <= a)
        BY <1>2, <2>1, <4>2
      <4>4. ~(2 * p <= c)
        BY <1>3, <3>1, <4>3
      <4> QED BY <1>1, <4>4
    <3>2. CASE 2 * p \notin 1 .. Len(b)
      BY <1>1, <1>3, <2>2, <3>2
    <3> QED BY <3>1, <3>2
  <2>5. c = 2 * p - 1
    BY <1>1, <2>3, <2>4
  <2> QED BY <1>1, <2>5
<1> QED BY <1>4, <1>5

-----------------------------------------------------------------------------
(* The searches. *)

\* A scan between two offsets that bracket the split finds it.
LEMMA CountFinds ==
    ASSUME NEW x, Ascends(x.bounds),
           x.needLow <=> \E i \in DOMAIN x.bounds : Low(x.bounds[i]) # 0,
           NEW a \in Addr, NEW c \in Nat, Split(x.bounds, a, c),
           NEW low \in Nat, NEW high \in Nat, low <= c, c <= high, high <= Len(x.bounds)
    PROVE  CountFrom(x, low, high, a) = c
<1> DEFINE b == x.bounds
           w == Pow2[LowBits]
           beyond == {i \in low + 1 .. high : Above(x, b[i], a)}
<1>1. b \in Seq(Addr) /\ Len(b) \in Nat /\ DOMAIN b = 1 .. Len(b)
  BY LenProperties DEF Ascends
<1>2. w \in Nat \ {0}
  BY CutAssumption, PowersOfTwo
<1>3. ASSUME NEW i \in 1 .. Len(b) PROVE Above(x, b[i], a) <=> i > c
  <2>1. b[i] \in Nat /\ a \in Nat
    BY <1>1, ElementOfSeq, Addresses
  <2>2. /\ High(b[i]) \in Nat /\ High(a) \in Nat /\ Low(b[i]) \in Nat /\ Low(a) \in Nat
        /\ b[i] <= a => High(b[i]) <= High(a)
        /\ High(b[i]) < High(a) => b[i] < a
        /\ High(b[i]) = High(a) => (b[i] <= a <=> Low(b[i]) <= Low(a))
    <3> HIDE DEF w, b
    <3>1. /\ b[i] \div w \in Nat /\ a \div w \in Nat
          /\ b[i] % w \in 0 .. w - 1 /\ a % w \in 0 .. w - 1
      BY <1>2, <2>1, DivisionWithRemainder
    <3>2. /\ b[i] <= a => b[i] \div w <= a \div w
          /\ b[i] \div w < a \div w => b[i] < a
          /\ b[i] \div w = a \div w => (b[i] <= a <=> b[i] % w <= a % w)
      BY <1>2, <2>1, WordByWord
    <3>3. /\ High(b[i]) = b[i] \div w /\ High(a) = a \div w
          /\ Low(b[i]) = b[i] % w /\ Low(a) = a % w
      BY DEF High, Low, w
    <3> QED BY <1>2, <3>1, <3>2, <3>3
  <2>3. ~x.needLow => Low(b[i]) = 0
    BY <1>1
  <2> HIDE DEF b
  <2>4. Above(x, b[i], a) <=> ~(b[i] <= a)
    BY <2>1, <2>2, <2>3 DEF Above
  <2>5. b[i] <= a <=> i <= c
    BY DEF Split, b
  <2> QED BY <1>1, <2>4, <2>5
<1>4. CountFrom(x, low, high, a) =
         IF beyond = {} THEN high ELSE (CHOOSE i \in beyond : \A j \in beyond : i <= j) - 1
  BY DEF CountFrom
<1> HIDE DEF b
<1>5. beyond = c + 1 .. high
  <2>1. high <= Len(b)
    BY DEF b
  <2>2. low + 1 .. high \subseteq 1 .. Len(b)
    BY <1>1, <2>1
  <2>3. beyond = {i \in low + 1 .. high : i > c}
    BY <1>3, <2>2
  <2> QED BY <2>3
<1> HIDE DEF beyond
<1>6. CASE beyond = {}
  <2>1. c = high
    BY <1>5, <1>6
  <2> QED BY <1>4, <1>6, <2>1
<1>7. CASE beyond # {}
  <2>1. c + 1 \in beyond /\ \A j \in beyond : c + 1 <= j
    BY <1>5, <1>7
  <2> DEFINE i == CHOOSE i \in beyond : \A j \in beyond : i <= j
  <2>2. i \in beyond /\ \A j \in beyond : i <= j
    BY <2>1
  <2> HIDE DEF i
  <2>3. i = c + 1
    BY <1>5, <2>1, <2>2
  <2>4. CountFrom(x, low, high, a) = i - 1
    BY <1>4, <1>7, Zenon DEF i
  <2> QED BY <2>3, <2>4
<1> QED BY <1>6, <1>7


\* The leading bits of addresses, and the bits after them, are in their order.
LEMMA CutsAreOrdered ==
    ASSUME NEW a \in Addr, NEW b \in Addr
    PROVE  /\ SlotOf(a) \in 0 .. Pow2[SlotBits] - 1
           /\ SubOf(a) \in 0 .. Pow2[SubBits] - 1
           /\ a <= b => SlotOf(a) <= SlotOf(b)
           /\ a <= b /\ SlotOf(a) = SlotOf(b) => SubOf(a) <= SubOf(b)
<1> DEFINE slots == Pow2[SlotBits]
           subs == Pow2[SubBits]
           whole == Span(SlotBits)
           part == Span(SlotBits + SubBits)
<1>1. a \in Nat /\ b \in Nat /\ a < Pow2[Width]
  <2>1. Pow2[Width] \in Nat \ {0}
    BY PowersOfTwo, WidthAssumption
  <2> QED BY <2>1 DEF Addr
<1>2. /\ Width - SlotBits \in Nat /\ SlotBits \in Nat /\ (Width - SlotBits) + SlotBits = Width
      /\ Width - (SlotBits + SubBits) \in Nat /\ SubBits \in Nat
      /\ (Width - (SlotBits + SubBits)) + SubBits = Width - SlotBits
  BY CutAssumption, WidthAssumption
<1>3. slots \in Nat \ {0} /\ subs \in Nat \ {0} /\ whole \in Nat \ {0} /\ part \in Nat \ {0}
  BY <1>2, PowersOfTwo DEF Span
<1>4. Pow2[Width] = slots * whole
  <2>1. Pow2[(Width - SlotBits) + SlotBits] = Pow2[SlotBits] * Pow2[Width - SlotBits]
    BY <1>2, PowersAdd
  <2> QED BY <1>2, <2>1 DEF Span
<1>5. whole = subs * part
  <2>1. Pow2[(Width - (SlotBits + SubBits)) + SubBits] = Pow2[SubBits] * Pow2[Width - (SlotBits + SubBits)]
    BY <1>2, PowersAdd
  <2> QED BY <1>2, <2>1 DEF Span
<1>6. SlotOf(a) = a \div whole /\ SlotOf(b) = b \div whole
  BY DEF SlotOf
<1>7. SubOf(a) = (a \div part) % subs /\ SubOf(b) = (b \div part) % subs
  BY DEF SubOf
<1> HIDE DEF slots, subs, whole, part
<1>8. SlotOf(a) \in 0 .. slots - 1
  <2>1. a \div whole \in Nat /\ a \div whole < slots
    <3>1. a < slots * whole
      BY <1>1, <1>4
    <3>2. a \div whole < slots
      BY <1>1, <1>3, <3>1, QuotientBelow
    <3>3. a \div whole \in Nat
      BY <1>1, <1>3, DivisionWithRemainder
    <3> QED BY <3>2, <3>3
  <2> QED BY <1>3, <1>6, <2>1
<1>9. a \div part \in Nat /\ b \div part \in Nat
  BY <1>1, <1>3, DivisionWithRemainder
<1>10. SubOf(a) \in 0 .. subs - 1 /\ SubOf(b) \in 0 .. subs - 1
  BY <1>3, <1>7, <1>9, DivisionWithRemainder
<1>11. a <= b => SlotOf(a) <= SlotOf(b)
  BY <1>1, <1>3, <1>6, DivisionInOrder
<1>12. ASSUME a <= b, SlotOf(a) = SlotOf(b) PROVE SubOf(a) <= SubOf(b)
  <2>1. (a \div part) \div subs = SlotOf(a) /\ (b \div part) \div subs = SlotOf(b)
    BY <1>1, <1>3, <1>5, <1>6, DivisionTwice
  <2>2. a \div part <= b \div part
    BY <1>1, <1>3, <1>12, DivisionInOrder
  <2> DEFINE p == a \div part
             q == b \div part
  <2>3. p \in Nat /\ q \in Nat /\ p <= q /\ p \div subs = q \div subs
    BY <1>9, <1>12, <2>1, <2>2
  <2> HIDE DEF p, q
  <2>4. p % subs <= q % subs
    BY <1>3, <2>3, WordByWord
  <2> QED BY <1>7, <2>4 DEF p, q
<1> QED BY <1>8, <1>10, <1>11, <1>12 DEF slots, subs

\* A slot's offset is the number of boundaries in the slots before it.
LEMMA SlotsAreOffsets ==
    ASSUME NEW b, Ascends(b), NEW slot \in 0 .. Pow2[SlotBits]
    PROVE  /\ buildSlots(b)[slot] \in 0 .. Len(b)
           /\ \A i \in 1 .. Len(b) : SlotOf(b[i]) < slot <=> i <= buildSlots(b)[slot]
<1> DEFINE n == Len(b)
           T == {i \in DOMAIN b : SlotOf(b[i]) < slot}
           c == Cardinality(T)
<1>1. b \in Seq(Addr) /\ n \in Nat /\ DOMAIN b = 1 .. n
  BY LenProperties DEF Ascends
<1>2. \A i \in 1 .. n : b[i] \in Addr /\ b[i] \in Nat /\ SlotOf(b[i]) \in 0 .. Pow2[SlotBits] - 1
  <2>1. \A i \in 1 .. n : b[i] \in Addr
    BY <1>1, ElementOfSeq
  <2> QED BY <2>1, Addresses, CutsAreOrdered
<1>3. Pow2[SlotBits] \in Nat \ {0} /\ slot \in Nat
  BY CutAssumption, PowersOfTwo
<1>4. buildSlots(b)[slot] = IF slot = Pow2[SlotBits] THEN n ELSE c
  BY DEF buildSlots
<1>5. CASE slot = Pow2[SlotBits]
  <2>1. \A i \in 1 .. n : SlotOf(b[i]) < slot /\ i <= n
    <3> HIDE DEF n
    <3> QED BY <1>1, <1>2, <1>3, <1>5
  <2>2. n \in 0 .. n
    BY <1>1
  <2> QED BY <1>4, <1>5, <2>1, <2>2
<1>6. CASE slot # Pow2[SlotBits]
  <2>1. \A i \in T : \A j \in 0 + 1 .. i : j \in T
    <3> SUFFICES ASSUME NEW i \in T, NEW j \in 0 + 1 .. i PROVE j \in T
      OBVIOUS
    <3>1. i \in 1 .. n /\ SlotOf(b[i]) < slot
      BY <1>1
    <3>2. j \in 1 .. n /\ (j = i \/ j < i)
      BY <1>1, <3>1
    <3>3. SlotOf(b[j]) <= SlotOf(b[i])
      <4>1. b[j] <= b[i]
        <5>1. j < i => b[j] < b[i]
          BY <3>1, <3>2 DEF Ascends
        <5> QED BY <1>2, <3>1, <3>2, <5>1
      <4> QED BY <1>2, <3>1, <3>2, <4>1, CutsAreOrdered
    <3>4. SlotOf(b[j]) < slot
      BY <1>2, <1>3, <3>1, <3>2, <3>3
    <3> QED BY <1>1, <3>2, <3>4
  <2>2. T \in SUBSET (0 + 1 .. n)
    BY <1>1
  <2>3. \A i \in 1 .. n : SlotOf(b[i]) < slot <=> i \in T
    BY <1>1
  <2>4. 0 \in Nat /\ 0 <= n
    BY <1>1
  <2> HIDE DEF T, n
  <2>5. c \in Nat /\ T = 0 + 1 .. 0 + c /\ 0 + c \in 0 .. n
    BY <1>1, <2>1, <2>2, <2>4, FirstPlaces
  <2> HIDE DEF c
  <2>6. c \in 0 .. n /\ \A i \in 1 .. n : SlotOf(b[i]) < slot <=> i <= c
    BY <2>3, <2>5
  <2> QED BY <1>4, <1>6, <2>6 DEF n
<1> QED BY <1>5, <1>6

\* The offsets of an address's slot bracket its split.
LEMMA SlotsBracket ==
    ASSUME NEW b, Ascends(b), NEW a \in Addr, NEW c \in Nat, Split(b, a, c)
    PROVE  LET slots == buildSlots(b)
               slot == SlotOf(a)
           IN  /\ slot \in 0 .. Pow2[SlotBits] - 1
               /\ slots[slot] \in Nat /\ slots[slot + 1] \in Nat
               /\ slots[slot] <= c /\ c <= slots[slot + 1] /\ slots[slot + 1] <= Len(b)
               /\ \A i \in slots[slot] + 1 .. slots[slot + 1] :
                     i \in 1 .. Len(b) /\ SlotOf(b[i]) = slot
<1> DEFINE slots == buildSlots(b)
           slot == SlotOf(a)
           n == Len(b)
           N == Pow2[SlotBits]
<1>1. b \in Seq(Addr) /\ n \in Nat /\ N \in Nat \ {0}
  BY LenProperties, CutAssumption, PowersOfTwo DEF Ascends
<1>2. slot \in 0 .. N - 1
  BY CutsAreOrdered
<1>3. \A i \in 1 .. n : b[i] \in Addr /\ SlotOf(b[i]) \in 0 .. N - 1
  <2>1. \A i \in 1 .. n : b[i] \in Addr
    BY <1>1, ElementOfSeq
  <2> QED BY <2>1, CutsAreOrdered
<1>4. a \in Nat /\ \A i \in 1 .. n : b[i] \in Nat
  BY <1>3, Addresses
<1>5. slot \in 0 .. N /\ slot + 1 \in 0 .. N
  BY <1>1, <1>2
<1>6. /\ slots[slot] \in 0 .. n /\ slots[slot + 1] \in 0 .. n
      /\ \A i \in 1 .. n : SlotOf(b[i]) < slot <=> i <= slots[slot]
      /\ \A i \in 1 .. n : SlotOf(b[i]) < slot + 1 <=> i <= slots[slot + 1]
  <2> HIDE DEF slot
  <2> QED BY <1>5, SlotsAreOffsets
<1>7. c \in 0 .. n /\ \A i \in 1 .. n : b[i] <= a <=> i <= c
  BY DEF Split
<1> HIDE DEF slots, n, N
<1>8. slots[slot] <= c
  <2> SUFFICES ASSUME c < slots[slot] PROVE FALSE
    BY <1>6
  <2> DEFINE i == slots[slot]
  <2>1. i \in 1 .. n /\ i \in Nat /\ ~(i <= c)
    BY <1>1, <1>6, <1>7
  <2>2. SlotOf(b[i]) < slot
    <3>1. i <= slots[slot]
      BY <2>1
    <3> HIDE DEF i, slot
    <3> QED BY <1>6, <2>1, <3>1
  <2> HIDE DEF i
  <2>3. a <= b[i]
    BY <1>4, <1>7, <2>1
  <2>4. slot <= SlotOf(b[i])
    BY <1>3, <2>1, <2>3, CutsAreOrdered
  <2> QED BY <1>1, <1>2, <1>3, <2>1, <2>2, <2>4
<1>9. c <= slots[slot + 1]
  <2>1. CASE c = 0
    BY <1>6, <2>1
  <2>2. CASE c # 0
    <3>1. c \in 1 .. n /\ b[c] <= a
      BY <1>1, <1>7, <2>2
    <3>2. SlotOf(b[c]) <= slot
      BY <1>3, <3>1, CutsAreOrdered
    <3> HIDE DEF slot
    <3>3. SlotOf(b[c]) < slot + 1
      BY <1>1, <1>2, <1>3, <3>1, <3>2
    <3> QED BY <1>6, <3>1, <3>3
  <2> QED BY <2>1, <2>2
<1> HIDE DEF slot
<1>10. ASSUME NEW i \in slots[slot] + 1 .. slots[slot + 1]
       PROVE  i \in 1 .. n /\ SlotOf(b[i]) = slot
  <2>1. i \in 1 .. n /\ ~(i <= slots[slot]) /\ i <= slots[slot + 1]
    BY <1>1, <1>6
  <2>2. ~(SlotOf(b[i]) < slot) /\ SlotOf(b[i]) < slot + 1
    BY <1>6, <2>1
  <2>3. SlotOf(b[i]) = slot
    BY <1>1, <1>2, <1>3, <2>1, <2>2
  <2> QED BY <2>1, <2>3
<1>11. slots[slot] \in Nat /\ slots[slot + 1] \in Nat /\ slots[slot + 1] <= n
  BY <1>1, <1>6
<1> QED BY <1>2, <1>8, <1>9, <1>10, <1>11 DEF slots, slot, n, N


\* In a crowded slot those of the second cut do.
LEMMA SubsBracket ==
    ASSUME NEW b, Ascends(b), NEW a \in Addr, NEW c \in Nat, Split(b, a, c)
    PROVE  LET slots == buildSlots(b)
               sub == buildSub(b, slots)
               slot == SlotOf(a)
               cut == SubOf(a)
           IN  slot \in DOMAIN sub =>
                  /\ sub[slot][cut] \in Nat /\ sub[slot][cut + 1] \in Nat
                  /\ sub[slot][cut] <= c /\ c <= sub[slot][cut + 1]
                  /\ sub[slot][cut + 1] <= Len(b)
<1> DEFINE slots == buildSlots(b)
           sub == buildSub(b, slots)
           slot == SlotOf(a)
           cut == SubOf(a)
           n == Len(b)
           N == Pow2[SubBits]
           l == slots[slot]
           h == slots[slot + 1]
           T(k) == {i \in l + 1 .. h : SubOf(b[i]) < k}
           at(k) == IF k = N THEN h ELSE l + Cardinality(T(k))
<1>1. /\ slot \in 0 .. Pow2[SlotBits] - 1
      /\ l \in Nat /\ h \in Nat /\ l <= c /\ c <= h /\ h <= n
      /\ \A i \in l + 1 .. h : i \in 1 .. n /\ SlotOf(b[i]) = slot
  BY SlotsBracket
<1>2. b \in Seq(Addr) /\ n \in Nat /\ N \in Nat \ {0}
  BY LenProperties, CutAssumption, PowersOfTwo DEF Ascends
<1>3. \A i \in 1 .. n : b[i] \in Addr /\ b[i] \in Nat /\ SubOf(b[i]) \in 0 .. N - 1
  <2>1. \A i \in 1 .. n : b[i] \in Addr
    BY <1>2, ElementOfSeq
  <2> QED BY <2>1, Addresses, CutsAreOrdered
<1>4. a \in Nat /\ cut \in 0 .. N - 1
  BY Addresses, CutsAreOrdered
<1>5. c \in 0 .. n /\ \A i \in 1 .. n : b[i] <= a <=> i <= c
  BY DEF Split
<1> SUFFICES ASSUME slot \in DOMAIN sub
             PROVE  /\ sub[slot][cut] \in Nat /\ sub[slot][cut + 1] \in Nat
                    /\ sub[slot][cut] <= c /\ c <= sub[slot][cut + 1]
                    /\ sub[slot][cut + 1] <= n
  OBVIOUS
<1>6. ASSUME NEW k \in 0 .. N PROVE sub[slot][k] = at(k)
  <2>1. sub[slot] = [k1 \in 0 .. N |-> IF k1 = N THEN h ELSE l + Cardinality(T(k1))]
    BY DEF buildSub
  <2> HIDE DEF sub, T, l, h, N
  <2> QED BY <2>1
<1> HIDE DEF slots, slot, cut, sub, n, N
<1>7. ASSUME NEW k \in 0 .. N
      PROVE  /\ sub[slot][k] \in l .. h
             /\ \A i \in l + 1 .. h : SubOf(b[i]) < k <=> i <= sub[slot][k]
  <2> DEFINE t == T(k)
  <2>1. CASE k = N
    <3>1. \A i \in l + 1 .. h : SubOf(b[i]) < N /\ i <= h
      BY <1>1, <1>2, <1>3
    <3>2. h \in l .. h
      BY <1>1
    <3> HIDE DEF l, h
    <3> QED BY <1>6, <2>1, <3>1, <3>2
  <2>2. CASE k # N
    <3>1. \A i \in t : \A j \in l + 1 .. i : j \in t
      <4> SUFFICES ASSUME NEW i \in t, NEW j \in l + 1 .. i PROVE j \in t
        OBVIOUS
      <4>1. i \in l + 1 .. h /\ SubOf(b[i]) < k
        OBVIOUS
      <4> HIDE DEF l, h
      <4>2. j \in l + 1 .. h /\ (j = i \/ j < i)
        BY <1>1, <4>1
      <4>3. /\ i \in 1 .. n /\ j \in 1 .. n /\ SlotOf(b[i]) = slot /\ SlotOf(b[j]) = slot
        BY <1>1, <4>1, <4>2
      <4>4. b[j] <= b[i]
        <5>1. j < i => b[j] < b[i]
          BY <4>3 DEF Ascends, n
        <5> QED BY <1>3, <4>2, <4>3, <5>1
      <4>5. SubOf(b[j]) <= SubOf(b[i])
        BY <1>3, <4>3, <4>4, CutsAreOrdered
      <4>6. SubOf(b[j]) < k
        BY <1>2, <1>3, <4>1, <4>3, <4>5
      <4> QED BY <4>2, <4>6
    <3>2. t \in SUBSET (l + 1 .. h)
      OBVIOUS
    <3>3. \A i \in l + 1 .. h : SubOf(b[i]) < k <=> i \in t
      OBVIOUS
    <3>4. l \in Nat /\ h \in Nat /\ l <= h
      <4> HIDE DEF l, h
      <4> QED BY <1>1
    <3> HIDE DEF t
    <3>5. /\ Cardinality(t) \in Nat
          /\ t = l + 1 .. l + Cardinality(t) /\ l + Cardinality(t) \in l .. h
      <4> HIDE DEF l, h
      <4> QED BY <3>1, <3>2, <3>4, FirstPlaces
    <3>6. sub[slot][k] = l + Cardinality(t)
      BY <1>6, <2>2 DEF t
    <3> HIDE DEF l, h
    <3>7. \A i \in l + 1 .. h : i \in t <=> i <= l + Cardinality(t)
      BY <3>4, <3>5
    <3> QED BY <3>3, <3>5, <3>6, <3>7
  <2> QED BY <2>1, <2>2
<1> DEFINE low == sub[slot][cut]
           high == sub[slot][cut + 1]
<1>8. /\ low \in l .. h /\ high \in l .. h
      /\ \A i \in l + 1 .. h : SubOf(b[i]) < cut <=> i <= low
      /\ \A i \in l + 1 .. h : SubOf(b[i]) < cut + 1 <=> i <= high
  <2>1. cut \in 0 .. N /\ cut + 1 \in 0 .. N
    BY <1>2, <1>4
  <2> HIDE DEF l, h
  <2> QED BY <1>7, <2>1
<1> HIDE DEF low, high, l, h
<1>9. low <= c
  <2> SUFFICES ASSUME c < low PROVE FALSE
    BY <1>1, <1>8
  <2>1. low \in l + 1 .. h /\ low \in 1 .. n /\ ~(low <= c) /\ low <= low
    BY <1>1, <1>8
  <2>2. SubOf(b[low]) < cut
    BY <1>8, <2>1
  <2>3. a <= b[low] /\ SlotOf(a) = SlotOf(b[low])
    BY <1>1, <1>3, <1>4, <1>5, <2>1 DEF slot
  <2>4. cut <= SubOf(b[low])
    BY <1>3, <2>1, <2>3, CutsAreOrdered DEF cut
  <2> QED BY <1>2, <1>3, <1>4, <2>1, <2>2, <2>4
<1>10. c <= high
  <2>1. CASE c = l
    BY <1>1, <1>8, <2>1
  <2>2. CASE c # l
    <3>1. c \in l + 1 .. h /\ c \in 1 .. n
      BY <1>1, <2>2
    <3>2. b[c] <= a /\ SlotOf(b[c]) = SlotOf(a)
      BY <1>1, <1>5, <3>1 DEF slot
    <3>3. SubOf(b[c]) <= cut
      BY <1>3, <3>1, <3>2, CutsAreOrdered DEF cut
    <3>4. SubOf(b[c]) < cut + 1
      BY <1>2, <1>3, <1>4, <3>1, <3>3
    <3> QED BY <1>8, <3>1, <3>4
  <2> QED BY <2>1, <2>2
<1>11. low \in Nat /\ high \in Nat /\ high <= n
  BY <1>1, <1>2, <1>8
<1> QED BY <1>9, <1>10, <1>11 DEF low, high


-----------------------------------------------------------------------------
(* The index. *)

\* What compile makes of ranges that do not touch.
LEMMA IndexOfRanges ==
    ASSUME NEW ranges, Apart(ranges)
    PROVE  LET x == compile(ranges)
           IN  /\ x.all <=> ranges = <<[first |-> 0, last |-> MaxAddr]>>
               /\ x.all => \A a \in Addr : InSome(ranges, a)
               /\ ~x.all => IsBounds(x.bounds, ranges, Len(ranges)) /\ Ascends(x.bounds)
               /\ x.needLow <=> \E i \in DOMAIN x.bounds : Low(x.bounds[i]) # 0
               /\ x.cut => x.slots = buildSlots(x.bounds)
                           /\ x.front = buildFront(x.slots)
                           /\ x.sub = buildSub(x.bounds, x.slots)
<1> DEFINE x == compile(ranges)
           whole == <<[first |-> 0, last |-> MaxAddr]>>
<1>1. /\ x.all <=> ranges = whole
      /\ x.bounds = IF x.all THEN <<>> ELSE Boundaries(ranges)
      /\ x.needLow <=> \E i \in DOMAIN x.bounds : Low(x.bounds[i]) # 0
      /\ x.cut => x.slots = buildSlots(x.bounds)
                  /\ x.front = buildFront(x.slots)
                  /\ x.sub = buildSub(x.bounds, x.slots)
  BY DEF compile
<1> HIDE DEF x
<1>2. ASSUME x.all, NEW a \in Addr PROVE InSome(ranges, a)
  <2>1. DOMAIN ranges = {1} /\ ranges[1].first = 0 /\ ranges[1].last = MaxAddr
    BY <1>1, <1>2
  <2>2. 0 <= a /\ a <= MaxAddr
    BY Addresses
  <2> QED BY <2>1, <2>2 DEF InSome, Within
<1>3. ASSUME ~x.all PROVE IsBounds(x.bounds, ranges, Len(ranges)) /\ Ascends(x.bounds)
  <2>1. IsBounds(x.bounds, ranges, Len(ranges))
    BY <1>1, <1>3, BoundariesAreBounds
  <2> QED BY <2>1, BoundsAscend
<1> QED BY <1>1, <1>2, <1>3 DEF x

\* An address is found by the parity of its split, whatever localises it.
LEMMA SearchesAreExact ==
    ASSUME NEW ranges, Apart(ranges), NEW a \in Addr
    PROVE  contains(compile(ranges), a) <=> InSome(ranges, a)
<1> DEFINE x == compile(ranges)
<1>1. /\ x.all => \A d \in Addr : InSome(ranges, d)
      /\ ~x.all => IsBounds(x.bounds, ranges, Len(ranges)) /\ Ascends(x.bounds)
      /\ x.needLow <=> \E i \in DOMAIN x.bounds : Low(x.bounds[i]) # 0
      /\ x.cut => x.slots = buildSlots(x.bounds)
                  /\ x.front = buildFront(x.slots)
                  /\ x.sub = buildSub(x.bounds, x.slots)
  BY IndexOfRanges
<1> HIDE DEF x
<1>2. CASE x.all
  <2>1. contains(x, a)
    BY <1>2 DEF contains
  <2> QED BY <1>1, <1>2, <2>1 DEF x
<1>3. CASE ~x.all
  <2> DEFINE b == x.bounds
             slot == SlotOf(a)
             cut == SubOf(a)
             low == IF ~x.cut THEN 0
                    ELSE IF slot \in DOMAIN x.sub THEN x.sub[slot][cut] ELSE x.slots[slot]
             high == IF ~x.cut THEN Len(b)
                     ELSE IF slot \in DOMAIN x.sub THEN x.sub[slot][cut + 1] ELSE x.slots[slot + 1]
  <2>1. Ascends(b) /\ IsBounds(b, ranges, Len(ranges))
    BY <1>1, <1>3
  <2>2. PICK c \in Nat : Split(b, a, c)
    BY <2>1, Splits
  <2>3. c % 2 = 1 <=> InSome(ranges, a)
    BY <2>1, <2>2, ParityIsMembership
  <2>4. low \in Nat /\ high \in Nat /\ low <= c /\ c <= high /\ high <= Len(b)
    <3>1. CASE ~x.cut
      <4>1. Len(b) \in Nat
        BY <2>1, LenProperties DEF Ascends
      <4> QED BY <2>2, <3>1, <4>1 DEF Split
    <3>2. CASE x.cut
      <4> HIDE DEF b, slot, cut
      <4>1. /\ x.slots[slot] \in Nat /\ x.slots[slot + 1] \in Nat
            /\ x.slots[slot] <= c /\ c <= x.slots[slot + 1] /\ x.slots[slot + 1] <= Len(b)
        BY <1>1, <2>1, <2>2, <3>2, SlotsBracket DEF b, slot
      <4>2. slot \in DOMAIN x.sub =>
              /\ x.sub[slot][cut] \in Nat /\ x.sub[slot][cut + 1] \in Nat
              /\ x.sub[slot][cut] <= c /\ c <= x.sub[slot][cut + 1]
              /\ x.sub[slot][cut + 1] <= Len(b)
        BY <1>1, <2>1, <2>2, <3>2, SubsBracket DEF b, slot, cut
      <4> QED BY <3>2, <4>1, <4>2
    <3> QED BY <3>1, <3>2
  <2>5. CountFrom(x, low, high, a) = c
    <3> HIDE DEF low, high
    <3> QED BY <1>1, <2>1, <2>2, <2>4, CountFinds
  <2>6. contains(x, a) <=>
           \/ x.cut /\ x.front[slot] = "all"
           \/ ~(x.cut /\ x.front[slot] = "all") /\ ~(x.cut /\ x.front[slot] = "none") /\ c % 2 = 1
    <3>1. contains(x, a) <=>
             IF x.cut /\ x.front[slot] = "none" THEN FALSE
             ELSE IF x.cut /\ x.front[slot] = "all" THEN TRUE
             ELSE CountFrom(x, low, high, a) % 2 = 1
      BY <1>3 DEF contains
    <3> HIDE DEF low, high, slot
    <3> QED BY <2>5, <3>1
  <2>7. x.cut => /\ x.front[slot] = "all" => c % 2 = 1
                 /\ x.front[slot] = "none" => c % 2 # 1
    <3> SUFFICES ASSUME x.cut
                 PROVE  /\ x.front[slot] = "all" => c % 2 = 1
                        /\ x.front[slot] = "none" => c % 2 # 1
      OBVIOUS
    <3> HIDE DEF b, slot, cut
    <3>1. /\ slot \in 0 .. Pow2[SlotBits] - 1
          /\ x.slots[slot] \in Nat /\ x.slots[slot + 1] \in Nat
          /\ x.slots[slot] <= c /\ c <= x.slots[slot + 1]
      BY <1>1, <2>1, <2>2, SlotsBracket DEF b, slot
    <3>2. x.front[slot] = IF x.slots[slot] # x.slots[slot + 1] THEN "deeper"
                          ELSE IF x.slots[slot] % 2 = 1 THEN "all" ELSE "none"
      <4> DEFINE s == x.slots
      <4>1. x.front = buildFront(s)
        BY <1>1
      <4> HIDE DEF s
      <4>2. x.front[slot] = IF s[slot] # s[slot + 1] THEN "deeper"
                            ELSE IF s[slot] % 2 = 1 THEN "all" ELSE "none"
        BY <3>1, <4>1 DEF buildFront
      <4> QED BY <4>2 DEF s
    <3>3. x.slots[slot] = x.slots[slot + 1] => x.slots[slot] = c
      BY <3>1
    <3> QED BY <3>2, <3>3
  <2>8. contains(x, a) <=> c % 2 = 1
    BY <2>6, <2>7
  <2> QED BY <2>3, <2>8 DEF x
<1> QED BY <1>2, <1>3

\* coversRange says whether every address from the first to the last is in a range.
LEMMA CoversRangeIsExact ==
    ASSUME NEW ranges, Apart(ranges), NEW first \in Addr, NEW last \in Addr, first <= last
    PROVE  coversRange(compile(ranges), first, last) <=> \A a \in first .. last : InSome(ranges, a)
<1> DEFINE x == compile(ranges)
           b == x.bounds
<1>1. /\ x.all => \A d \in Addr : InSome(ranges, d)
      /\ ~x.all => IsBounds(b, ranges, Len(ranges)) /\ Ascends(b)
      /\ x.needLow <=> \E i \in DOMAIN b : Low(b[i]) # 0
  BY IndexOfRanges
<1> HIDE DEF x
<1>2. first \in Nat /\ last \in Nat /\ \A a \in first .. last : a \in Addr /\ a \in Nat
  BY Addresses
<1>3. CASE x.all
  <2>1. coversRange(x, first, last)
    BY <1>3 DEF coversRange
  <2> QED BY <1>1, <1>2, <1>3, <2>1 DEF x
<1>4. CASE ~x.all
  <2>1. IsBounds(b, ranges, Len(ranges)) /\ Ascends(b)
    BY <1>1, <1>4
  <2>2. PICK c \in Nat : Split(b, first, c)
    BY <2>1, Splits
  <2>3. Len(b) \in Nat /\ c \in 0 .. Len(b) /\ \A i \in 1 .. Len(b) : b[i] \in Addr /\ b[i] \in Nat
    <3>1. b \in Seq(Addr)
      BY <2>1 DEF Ascends
    <3>2. \A i \in 1 .. Len(b) : b[i] \in Addr
      BY <3>1, LenProperties, ElementOfSeq
    <3> QED BY <2>2, <3>1, <3>2, LenProperties, Addresses DEF Split
  <2>4. CountFrom(x, 0, Len(b), first) = c
    <3>1. 0 \in Nat /\ 0 <= c /\ c <= Len(b) /\ Len(b) <= Len(b)
      BY <2>3
    <3> QED BY <1>1, <2>1, <2>2, <2>3, <3>1, CountFinds
  <2>5. coversRange(x, first, last) <=> c % 2 = 1 /\ (c < Len(b) => b[c + 1] > last)
    <3>1. coversRange(x, first, last) <=>
             LET count == CountFrom(x, 0, Len(b), first)
             IN  count % 2 = 1 /\ (count < Len(b) => b[count + 1] > last)
      BY <1>4 DEF coversRange
    <3> HIDE DEF b
    <3> QED BY <2>4, <3>1
  <2>6. ASSUME c % 2 = 1, c < Len(b) => b[c + 1] > last, NEW a \in first .. last
        PROVE  InSome(ranges, a)
    <3>1. ASSUME NEW i \in 1 .. Len(b) PROVE b[i] <= a <=> i <= c
      <4>1. b[i] <= first <=> i <= c
        BY <2>2 DEF Split
      <4>2. ASSUME i > c PROVE b[i] > last
        <5>1. c + 1 \in 1 .. Len(b) /\ c < Len(b) /\ (i = c + 1 \/ c + 1 < i)
          BY <2>3, <4>2
        <5>2. b[c + 1] > last
          BY <2>6, <5>1
        <5>3. c + 1 < i => b[c + 1] < b[i]
          BY <2>1, <5>1 DEF Ascends
        <5> QED BY <1>2, <2>3, <5>1, <5>2, <5>3
      <4> HIDE DEF b
      <4> QED BY <1>2, <2>3, <4>1, <4>2
    <3>2. Split(b, a, c)
      BY <2>3, <3>1 DEF Split
    <3> QED BY <1>2, <2>1, <2>6, <3>2, ParityIsMembership
  <2>7. ASSUME \A a \in first .. last : InSome(ranges, a)
        PROVE  c % 2 = 1 /\ (c < Len(b) => b[c + 1] > last)
    <3>1. c % 2 = 1
      <4>1. first \in first .. last
        BY <1>2
      <4> QED BY <2>1, <2>2, <2>7, <4>1, ParityIsMembership
    <3>2. ASSUME c < Len(b), ~(b[c + 1] > last) PROVE FALSE
      <4> DEFINE a == b[c + 1]
      <4>1. c + 1 \in 1 .. Len(b) /\ ~(c + 1 <= c)
        BY <2>3, <3>2
      <4>2. ~(a <= first)
        BY <2>2, <4>1 DEF Split
      <4>3. a \in Addr /\ a \in Nat /\ a \in first .. last
        BY <1>2, <2>3, <3>2, <4>1, <4>2
      <4>4. ASSUME NEW i \in 1 .. Len(b) PROVE b[i] <= a <=> i <= c + 1
        <5>1. i < c + 1 => b[i] < a
          BY <2>1, <4>1 DEF Ascends
        <5>2. c + 1 < i => a < b[i]
          BY <2>1, <4>1 DEF Ascends
        <5>3. b[i] \in Nat /\ (i < c + 1 \/ i = c + 1 \/ c + 1 < i)
          BY <2>3
        <5>4. i = c + 1 => b[i] = a
          OBVIOUS
        <5> HIDE DEF a, b
        <5> QED BY <2>3, <4>3, <5>1, <5>2, <5>3, <5>4
      <4>5. c + 1 \in Nat /\ Split(b, a, c + 1)
        BY <2>3, <4>1, <4>4 DEF Split
      <4> HIDE DEF a
      <4>6. (c + 1) % 2 = 1
        BY <2>1, <2>7, <4>3, <4>5, ParityIsMembership
      <4> QED BY <2>3, <3>1, <4>6
    <3> QED BY <3>1, <3>2
  <2> QED BY <2>5, <2>6, <2>7 DEF x
<1> QED BY <1>3, <1>4


\* What is built from some prefixes answers for what they cover.
LEMMA BuiltIsExact ==
    ASSUME NEW S \in SUBSET Prefix
    PROVE  /\ \A a \in Addr : contains(build(S), a) <=> Covered(S, a)
           /\ \A p \in Prefix :
                 coversRangeOf(build(S), p) <=> \A a \in LowAddr(p) .. HighAddr(p) : Covered(S, a)
<1>1. /\ Apart(merge(S))
      /\ \A a \in Addr : InSome(merge(S), a) <=> Covered(S, a)
  BY MergeIsUnion DEF IsUnion
<1>2. ASSUME NEW a \in Addr PROVE contains(build(S), a) <=> Covered(S, a)
  BY <1>1, SearchesAreExact DEF build
<1>3. ASSUME NEW p \in Prefix
      PROVE  coversRangeOf(build(S), p) <=> \A a \in LowAddr(p) .. HighAddr(p) : Covered(S, a)
  <2> DEFINE first == LowAddr(p)
             last == HighAddr(p)
  <2>1. RangeOf(p) \in AddrRange /\ RangeOf(p) = [first |-> first, last |-> last]
    BY RangeOfPrefix DEF RangeOf
  <2>2. first \in Addr /\ last \in Addr /\ first <= last
    BY <2>1 DEF AddrRange
  <2> HIDE DEF first, last
  <2>3. \A a \in first .. last : a \in Addr
    BY <2>2, Addresses
  <2>4. coversRange(compile(merge(S)), first, last) <=> \A a \in first .. last : InSome(merge(S), a)
    BY <1>1, <2>2, CoversRangeIsExact
  <2>5. coversRange(compile(merge(S)), first, last) <=> \A a \in first .. last : Covered(S, a)
    BY <1>1, <2>3, <2>4
  <2> QED BY <2>5 DEF coversRangeOf, build, first, last
<1> QED BY <1>2, <1>3

-----------------------------------------------------------------------------
(* The table. *)

\* Prefixes that cover the same addresses.
SameUnion(S, T) == \A a \in Addr : Covered(S, a) <=> Covered(T, a)

\* A prefix covers what its range holds.
LEMMA CoveredWith ==
    ASSUME NEW S, NEW p
    PROVE  \A a \in Addr : Covered(S \cup {p}, a) <=> Covered(S, a) \/ Covers(p, a)
BY DEF Covered, Matches

\* One that a built index covers adds nothing to the union.
LEMMA CoveredAddsNothing ==
    ASSUME NEW S \in SUBSET Prefix, NEW T, SameUnion(S, T),
           NEW p \in Prefix, coversRangeOf(build(S), p)
    PROVE  SameUnion(S, T \cup {p})
<1> SUFFICES ASSUME NEW a \in Addr PROVE Covered(S, a) <=> Covered(T \cup {p}, a)
  BY DEF SameUnion
<1>1. Covered(S, a) <=> Covered(T, a)
  BY DEF SameUnion
<1>2. Covered(T \cup {p}, a) <=> Covered(T, a) \/ Covers(p, a)
  BY CoveredWith
<1>3. \A d \in LowAddr(p) .. HighAddr(p) : Covered(S, d)
  BY BuiltIsExact
<1>4. Covers(p, a) => Covered(S, a)
  BY <1>3 DEF Covers
<1> QED BY <1>1, <1>2, <1>4

\* The states of a batch.
BatchStates == [stored : SUBSET Prefix, changed : BOOLEAN, failed : BOOLEAN]
AtFirst == [stored |-> stored, changed |-> FALSE, failed |-> FALSE]
Outcome(ms) == FoldLeft(ApplyMutation, AtFirst, ms)

\* The published Set was built from some prefixes; from ones that cover what the
\* stored ones do.
Published == stored \in SUBSET Prefix /\ \E S \in SUBSET Prefix : current = build(S)
UpToDate ==
    /\ stored \in SUBSET Prefix
    /\ \E S \in SUBSET Prefix : current = build(S) /\ SameUnion(S, stored)

\* A prefix that decompose refuses is the first of its batch, or there is none:
\* a batch that fails after some mutations keeps them and does not publish.
BadOnlyFirst == \A ms \in Batches : \A i \in DOMAIN ms : ms[i] = Bad => i = 1

\* What one mutation does.
LEMMA MutationApplied ==
    ASSUME NEW state \in BatchStates, NEW m \in Mutation \cup {Bad}
    PROVE  LET new == ApplyMutation(state, m)
           IN  /\ new \in BatchStates
               /\ \/ new = state /\ state.failed
                  \/ /\ m = Bad /\ ~state.failed
                     /\ new.stored = state.stored /\ new.changed = state.changed /\ new.failed
                  \/ /\ ~new.failed
                     /\ new.changed \/ /\ ~state.changed
                                       /\ \/ new.stored = state.stored
                                          \/ /\ m.prefix \in Prefix
                                             /\ new.stored = state.stored \cup {m.prefix}
                                             /\ coversRangeOf(current, m.prefix)
<1> DEFINE new == ApplyMutation(state, m)
<1>1. /\ state.stored \in SUBSET Prefix /\ state.changed \in BOOLEAN /\ state.failed \in BOOLEAN
      /\ state = [stored |-> state.stored, changed |-> state.changed, failed |-> state.failed]
  BY DEF BatchStates
<1>2. CASE state.failed
  BY <1>2 DEF ApplyMutation
<1>3. CASE ~state.failed /\ m = Bad
  <2>1. new = [stored |-> state.stored, changed |-> state.changed, failed |-> TRUE]
    BY <1>1, <1>3 DEF ApplyMutation
  <2> HIDE DEF new
  <2> QED BY <1>1, <1>3, <2>1 DEF BatchStates, new
<1>4. CASE ~state.failed /\ m # Bad
  <2>1. m \in Mutation /\ m.prefix \in Prefix /\ m.delete \in BOOLEAN
    BY <1>4, OfferedAssumption DEF Mutation
  <2>2. CASE m.delete
    <3>1. new = [stored |-> state.stored \ {m.prefix},
                 changed |-> state.changed \/ m.prefix \in state.stored,
                 failed |-> FALSE]
      BY <1>1, <1>4, <2>2 DEF ApplyMutation
    <3> HIDE DEF new
    <3>2. new \in BatchStates
      BY <1>1, <3>1 DEF BatchStates
    <3>3. ~new.changed => ~state.changed /\ new.stored = state.stored
      BY <3>1
    <3> QED BY <3>1, <3>2, <3>3 DEF new
  <2>3. CASE ~m.delete
    <3>1. new = [stored |-> state.stored \cup {m.prefix},
                 changed |-> state.changed \/ (m.prefix \notin state.stored
                                                /\ ~coversRangeOf(current, m.prefix)),
                 failed |-> FALSE]
      BY <1>1, <1>4, <2>3 DEF ApplyMutation
    <3> HIDE DEF new
    <3>2. new \in BatchStates
      BY <1>1, <2>1, <3>1 DEF BatchStates
    <3>3. ~new.changed => /\ ~state.changed
                          /\ new.stored = state.stored \/ coversRangeOf(current, m.prefix)
      BY <3>1
    <3> QED BY <2>1, <3>1, <3>2, <3>3 DEF new
  <2> QED BY <2>2, <2>3
<1> QED BY <1>2, <1>3, <1>4

\* What a batch has done after its first k mutations: what has not changed the
\* union is the same union, and one that has failed has done nothing.
BatchSoFar(state, ms, k) ==
    /\ state \in BatchStates
    /\ k = 0 => state = AtFirst
    /\ UpToDate /\ ~state.changed => \E S \in SUBSET Prefix : current = build(S) /\ SameUnion(S, state.stored)
    /\ BadOnlyFirst /\ state.failed => state.stored = stored

LEMMA BatchStep ==
    ASSUME NEW ms \in Batches, NEW k \in 1 .. Len(ms), NEW state, BatchSoFar(state, ms, k - 1)
    PROVE  BatchSoFar(ApplyMutation(state, ms[k]), ms, k)
<1> DEFINE m == ms[k]
           new == ApplyMutation(state, m)
<1>1. m \in Mutation \cup {Bad} /\ k \in DOMAIN ms
  <2>1. ms \in Seq(Mutation \cup {Bad})
    BY OfferedAssumption
  <2>2. k \in DOMAIN ms
    BY <2>1, LenProperties
  <2> QED BY <2>1, <2>2, ElementOfSeq
<1>2. state \in BatchStates
  BY DEF BatchSoFar
<1>3. /\ new \in BatchStates
      /\ \/ new = state /\ state.failed
         \/ /\ m = Bad /\ ~state.failed
            /\ new.stored = state.stored /\ new.changed = state.changed /\ new.failed
         \/ /\ ~new.failed
            /\ new.changed \/ /\ ~state.changed
                              /\ \/ new.stored = state.stored
                                 \/ /\ m.prefix \in Prefix
                                    /\ new.stored = state.stored \cup {m.prefix}
                                    /\ coversRangeOf(current, m.prefix)
  <2> HIDE DEF m
  <2> QED BY <1>1, <1>2, MutationApplied
<1> HIDE DEF new
<1>4. ASSUME UpToDate, ~new.changed
      PROVE  \E S \in SUBSET Prefix : current = build(S) /\ SameUnion(S, new.stored)
  <2>1. ~state.changed
    BY <1>3, <1>4
  <2>2. PICK S \in SUBSET Prefix : current = build(S) /\ SameUnion(S, state.stored)
    BY <1>4, <2>1 DEF BatchSoFar
  <2>3. SameUnion(S, new.stored)
    <3>1. CASE new.stored = state.stored
      BY <2>2, <3>1
    <3>2. CASE /\ m.prefix \in Prefix
               /\ new.stored = state.stored \cup {m.prefix}
               /\ coversRangeOf(current, m.prefix)
      <4> HIDE DEF m
      <4> QED BY <2>2, <3>2, CoveredAddsNothing
    <3> QED BY <1>3, <1>4, <3>1, <3>2
  <2> QED BY <2>2, <2>3
<1>5. ASSUME BadOnlyFirst, new.failed
      PROVE  new.stored = stored
  <2>1. CASE new = state /\ state.failed
    BY <1>5, <2>1 DEF BatchSoFar
  <2>2. CASE m = Bad /\ new.stored = state.stored
    <3>1. k - 1 = 0
      BY <1>1, <1>5, <2>2 DEF BadOnlyFirst
    <3>2. state = AtFirst
      BY <3>1 DEF BatchSoFar
    <3> QED BY <2>2, <3>2 DEF AtFirst
  <2> QED BY <1>3, <1>5, <2>1, <2>2
<1>6. k # 0
  OBVIOUS
<1> QED BY <1>3, <1>4, <1>5, <1>6 DEF BatchSoFar, new

LEMMA BatchDone ==
    ASSUME NEW ms \in Batches, stored \in SUBSET Prefix
    PROVE  BatchSoFar(Outcome(ms), ms, Len(ms))
<1> DEFINE n == Len(ms)
           M == Mutation \cup {Bad}
           V == BatchStates
           step == [x \in V \X Nat |-> IF x[2] \in 1 .. n THEN ApplyMutation(x[1], ms[x[2]]) ELSE AtFirst]
           Equation(f) ==
               f = [t \in SUBSET (1 .. n) |->
                       IF t = {} THEN AtFirst ELSE ApplyMutation(f[t \ {Max(t)}], ms[Max(t)])]
           fold == CHOOSE f : Equation(f)
<1>1. n \in Nat /\ DOMAIN ms = 1 .. n /\ \A k \in 1 .. n : ms[k] \in M
  <2>1. ms \in Seq(M)
    BY OfferedAssumption
  <2> HIDE DEF M
  <2> QED BY <2>1, LenProperties, ElementOfSeq
<1>2. Outcome(ms) = fold[1 .. n]
  BY <1>1 DEF Outcome, FoldLeft, MapThenFoldSet
<1> HIDE DEF n
<1>3. AtFirst \in V /\ step \in [V \X Nat -> V]
  <2>1. AtFirst \in V
    BY DEF AtFirst, BatchStates
  <2>2. \A state \in V, k \in 1 .. n : ApplyMutation(state, ms[k]) \in V
    BY <1>1, MutationApplied
  <2> HIDE DEF V
  <2> QED BY <2>1, <2>2
<1>4. PICK f \in [SUBSET (1 .. n) -> V] : Folds(f, AtFirst, step, n)
  <2> HIDE DEF V, step
  <2> QED BY <1>1, <1>3, Folding
<1>5. Equation(f)
  <2>1. f = [t \in SUBSET (1 .. n) |-> f[t]]
    BY <1>4
  <2>2. f[{}] = AtFirst
    BY <1>4 DEF Folds
  <2>3. ASSUME NEW t \in SUBSET (1 .. n), t # {}
        PROVE  f[t] = ApplyMutation(f[t \ {Max(t)}], ms[Max(t)])
    <3>1. Max(t) \in t
      <4>1. t \in SUBSET Nat /\ \A i \in t : i <= n
        BY <1>1
      <4> QED BY <1>1, <2>3, <4>1, GreatestElement
    <3>2. f[t] = step[<<f[t \ {Max(t)}], Max(t)>>]
      BY <1>4, <2>3 DEF Folds
    <3>3. f[t \ {Max(t)}] \in V /\ Max(t) \in 1 .. n /\ Max(t) \in Nat
      <4> HIDE DEF V
      <4>1. t \ {Max(t)} \in SUBSET (1 .. n) /\ Max(t) \in 1 .. n
        BY <3>1
      <4> QED BY <4>1, <1>4
    <3> HIDE DEF V
    <3> QED BY <3>2, <3>3
  <2> QED BY <2>1, <2>2, <2>3
<1>6. Equation(fold)
  <2> HIDE DEF Equation
  <2> QED BY <1>5
<1> HIDE DEF fold, step
<1>7. fold[1 .. 0] = AtFirst /\ \A k \in 1 .. n : fold[1 .. k] = ApplyMutation(fold[1 .. k - 1], ms[k])
  <2>1. 1 .. 0 = {}
    OBVIOUS
  <2>2. ASSUME NEW k \in 1 .. n PROVE fold[1 .. k] = ApplyMutation(fold[1 .. k - 1], ms[k])
    <3>1. 1 .. k \in SUBSET (1 .. n) /\ 1 .. k # {}
      BY <1>1
    <3>2. Max(1 .. k) = k /\ (1 .. k) \ {k} = 1 .. k - 1
      BY <1>1, GreatestOfFirst
    <3> QED BY <1>6, <3>1, <3>2
  <2> QED BY <1>6, <2>1, <2>2
<1>8. \A k \in 0 .. n : BatchSoFar(fold[1 .. k], ms, k)
  <2> DEFINE odd == {k \in 0 .. n : ~BatchSoFar(fold[1 .. k], ms, k)}
  <2> SUFFICES ASSUME odd # {} PROVE FALSE
    OBVIOUS
  <2>1. PICK k \in odd : \A j \in odd : k <= j
    <3>1. odd \in SUBSET Nat
      BY <1>1
    <3> HIDE DEF odd
    <3> QED BY <3>1, LeastElement
  <2>2. k \in 0 .. n /\ ~BatchSoFar(fold[1 .. k], ms, k)
    BY <2>1
  <2>3. k # 0
    <3>1. AtFirst \in BatchStates /\ AtFirst.stored = stored /\ ~AtFirst.failed
      BY DEF AtFirst, BatchStates
    <3>2. BatchSoFar(AtFirst, ms, 0)
      BY <3>1 DEF BatchSoFar, UpToDate
    <3> QED BY <1>7, <2>2, <3>2
  <2>4. k \in 1 .. n /\ k - 1 \in 0 .. n /\ k - 1 \notin odd
    <3>1. k \in 1 .. n /\ k - 1 \in 0 .. n /\ ~(k <= k - 1)
      BY <1>1, <2>2, <2>3
    <3> HIDE DEF odd
    <3> QED BY <2>1, <3>1
  <2>5. BatchSoFar(fold[1 .. k - 1], ms, k - 1)
    BY <2>4
  <2>6. fold[1 .. k] = ApplyMutation(fold[1 .. k - 1], ms[k])
    BY <1>7, <2>4
  <2>7. BatchSoFar(fold[1 .. k], ms, k)
    <3> HIDE DEF odd
    <3>1. k \in 1 .. Len(ms)
      BY <2>4 DEF n
    <3> QED BY <2>5, <2>6, <3>1, BatchStep
  <2> QED BY <2>2, <2>7
<1>9. n \in 0 .. n
  BY <1>1
<1> QED BY <1>2, <1>8, <1>9 DEF n

-----------------------------------------------------------------------------
(* Every step keeps a Set that was built, and one that is up to date unless *)
(* batches fail halfway.                                                    *)

LEMMA ParityInitPublishes ==
    ASSUME ParityInit
    PROVE  Published /\ UpToDate
<1>1. stored \in SUBSET Prefix /\ current = build(stored)
  BY OfferedAssumption DEF ParityInit
<1>2. SameUnion(stored, stored)
  BY DEF SameUnion
<1> QED BY <1>1, <1>2 DEF Published, UpToDate

\* The step of a method: it publishes what it has stored, or it leaves what was
\* published where the union stays.
LEMMA StepPublishes ==
    ASSUME stored \in SUBSET Prefix, ParityNext
    PROVE  /\ stored' \in SUBSET Prefix
           /\ \/ current' = build(stored')
              \/ /\ UNCHANGED current
                 /\ UpToDate /\ BadOnlyFirst =>
                       \E S \in SUBSET Prefix : current = build(S) /\ SameUnion(S, stored')
<1> USE DEF republish
<1>1. ASSUME NEW p \in Offered, Insert(p)
      PROVE  /\ stored' \in SUBSET Prefix
             /\ \/ current' = build(stored')
                \/ /\ UNCHANGED current
                   /\ UpToDate /\ BadOnlyFirst =>
                         \E S \in SUBSET Prefix : current = build(S) /\ SameUnion(S, stored')
  <2>1. p \in Prefix /\ stored' = stored \cup {p}
    BY <1>1, OfferedAssumption DEF Insert
  <2>2. ASSUME coversRangeOf(current, p), UpToDate
        PROVE  \E S \in SUBSET Prefix : current = build(S) /\ SameUnion(S, stored')
    <3>1. PICK S \in SUBSET Prefix : current = build(S) /\ SameUnion(S, stored)
      BY <2>2 DEF UpToDate
    <3>2. SameUnion(S, stored \cup {p})
      BY <2>1, <2>2, <3>1, CoveredAddsNothing
    <3> QED BY <2>1, <3>1, <3>2
  <2>3. \/ current' = build(stored')
        \/ coversRangeOf(current, p) /\ UNCHANGED current
    BY <1>1 DEF Insert
  <2> QED BY <2>1, <2>2, <2>3
<1>2. ASSUME NEW p \in Offered, Delete(p) \/ Reset({p})
      PROVE  stored' \in SUBSET Prefix /\ current' = build(stored')
  BY <1>2, OfferedAssumption DEF Delete, Reset
<1>3. ASSUME NEW ms \in Batches, ApplyBatch(ms)
      PROVE  /\ stored' \in SUBSET Prefix
             /\ \/ current' = build(stored')
                \/ /\ UNCHANGED current
                   /\ UpToDate /\ BadOnlyFirst =>
                         \E S \in SUBSET Prefix : current = build(S) /\ SameUnion(S, stored')
  <2> DEFINE after == Outcome(ms)
  <2>1. /\ stored' = after.stored
        /\ IF after.changed /\ ~after.failed THEN current' = build(stored') ELSE UNCHANGED current
    BY <1>3 DEF ApplyBatch, Outcome, AtFirst
  <2>2. BatchSoFar(after, ms, Len(ms))
    BY BatchDone
  <2> HIDE DEF after
  <2>3. after \in BatchStates /\ after.stored \in SUBSET Prefix
    BY <2>2 DEF BatchSoFar, BatchStates
  <2>4. ASSUME UpToDate, BadOnlyFirst, ~(after.changed /\ ~after.failed)
        PROVE  \E S \in SUBSET Prefix : current = build(S) /\ SameUnion(S, after.stored)
    <3>1. CASE after.failed
      <4>1. after.stored = stored
        BY <2>2, <2>4, <3>1 DEF BatchSoFar
      <4> QED BY <2>4, <4>1 DEF UpToDate
    <3>2. CASE ~after.changed
      BY <2>2, <2>4, <3>2 DEF BatchSoFar
    <3> QED BY <2>4, <3>1, <3>2
  <2> QED BY <2>1, <2>3, <2>4
<1> QED BY <1>1, <1>2, <1>3 DEF ParityNext

LEMMA StepKeepsPublished ==
    ASSUME Published, [ParityNext]_parityVars
    PROVE  Published'
<1>1. stored \in SUBSET Prefix
  BY DEF Published
<1>2. PICK S \in SUBSET Prefix : current = build(S)
  BY DEF Published
<1>3. CASE UNCHANGED parityVars
  BY <1>1, <1>2, <1>3 DEF Published, parityVars
<1>4. CASE ParityNext
  <2>1. stored' \in SUBSET Prefix /\ (current' = build(stored') \/ UNCHANGED current)
    BY <1>1, <1>4, StepPublishes
  <2> QED BY <1>2, <2>1 DEF Published
<1> QED BY <1>3, <1>4

LEMMA StepKeepsUpToDate ==
    ASSUME BadOnlyFirst, UpToDate, [ParityNext]_parityVars
    PROVE  UpToDate'
<1>1. stored \in SUBSET Prefix
  BY DEF UpToDate
<1>2. PICK S \in SUBSET Prefix : current = build(S) /\ SameUnion(S, stored)
  BY DEF UpToDate
<1>3. CASE UNCHANGED parityVars
  <2>1. stored' = stored /\ current' = current
    BY <1>3 DEF parityVars
  <2> QED BY <1>1, <1>2, <2>1 DEF UpToDate
<1>4. CASE ParityNext
  <2>1. /\ stored' \in SUBSET Prefix
        /\ \/ current' = build(stored')
           \/ /\ UNCHANGED current
              /\ \E T \in SUBSET Prefix : current = build(T) /\ SameUnion(T, stored')
    BY <1>1, <1>4, StepPublishes
  <2>2. SameUnion(stored', stored')
    BY DEF SameUnion
  <2> QED BY <2>1, <2>2 DEF UpToDate
<1> QED BY <1>3, <1>4

\* coversRange is exact in every state: it says of the published Set whether all
\* addresses of a prefix are in it, so Insert and ApplyBatch skip a publication
\* exactly where it would change no answer (table.go, Set.coversRange).
THEOREM PublishedSetsCoverExactly == ParitySpec => []CoversRangeExact
<1>1. ParityInit => Published
  BY ParityInitPublishes
<1>2. Published /\ [ParityNext]_parityVars => Published'
  BY StepKeepsPublished
<1>3. Published => CoversRangeExact
  <2> SUFFICES ASSUME Published, NEW p \in Prefix
               PROVE  coversRangeOf(current, p) <=>
                         \A a \in LowAddr(p) .. HighAddr(p) : contains(current, a)
    BY DEF CoversRangeExact
  <2>1. PICK S \in SUBSET Prefix : current = build(S)
    BY DEF Published
  <2>2. \A a \in LowAddr(p) .. HighAddr(p) : a \in Addr
    <3>1. RangeOf(p) \in AddrRange /\ RangeOf(p) = [first |-> LowAddr(p), last |-> HighAddr(p)]
      BY RangeOfPrefix DEF RangeOf
    <3>2. LowAddr(p) \in Addr /\ HighAddr(p) \in Addr
      BY <3>1 DEF AddrRange
    <3> QED BY <3>2, Addresses
  <2> QED BY <2>1, <2>2, BuiltIsExact
<1> QED BY <1>1, <1>2, <1>3, PTL DEF ParitySpec

\* Contains reports whether any stored prefix covers the address, after every
\* method and whatever publications were skipped (table.go, Table), as long as no
\* batch fails after it has stored something.
THEOREM PublishedSetsAnswerForTheStored == BadOnlyFirst => (ParitySpec => []ContainsStored)
<1> SUFFICES ASSUME BadOnlyFirst PROVE ParitySpec => []ContainsStored
  OBVIOUS
<1>1. ParityInit => UpToDate
  BY ParityInitPublishes
<1>2. UpToDate /\ [ParityNext]_parityVars => UpToDate'
  BY StepKeepsUpToDate
<1>3. UpToDate => ContainsStored
  <2> SUFFICES ASSUME UpToDate, NEW a \in Addr
               PROVE  contains(current, a) <=> Matches(stored, a) # {}
    BY DEF ContainsStored
  <2>1. PICK S \in SUBSET Prefix : current = build(S) /\ SameUnion(S, stored)
    BY DEF UpToDate
  <2> QED BY <2>1, BuiltIsExact DEF SameUnion, Covered
<1> QED BY <1>1, <1>2, <1>3, PTL DEF ParitySpec

-----------------------------------------------------------------------------
(* The tables of steplpm and soaart: the map, the ids that it remembers and *)
(* the published index, whichever package's it is.                         *)

AnyKey == UNION {StepKey[table] : table \in StepPackages}

\* What the theorems suppose of the calls: no prefix has two spellings, and ...
OneSpelling == \A j, k \in AnyKey : j.prefix = k.prefix => j = k

\* no batch is run that withdraws and, against the map before it, changes no key.
LoneYanks(ms) == ~structural(ms) /\ \E i \in DOMAIN ms : ms[i].delete
NoLoneYanks == \A ms \in StepBatches[package] : StepApplyBatch(ms) => ~LoneYanks(ms)

AnyValue == Value \cup {Zero}
StepChange == [key : AnyKey, value : AnyValue, delete : BOOLEAN]
StepEntry == [value : AnyValue, id : Nat]
KeyPrefixes == {k.prefix : k \in AnyKey}
MapsOf(D, V) == UNION {[d -> V] : d \in SUBSET D}
StepTables == MapsOf(AnyKey, StepEntry)
StepWishes == MapsOf(KeyPrefixes, AnyValue)

\* What is left of a map without x, and what it is with x at v.
IsWithout(D, V, f, x) ==
    LET g == Without(f, x)
    IN  g \in MapsOf(D, V) /\ DOMAIN g = DOMAIN f \ {x} /\ \A y \in DOMAIN g : g[y] = f[y]
IsWith(D, V, f, x, v) ==
    LET g == With(f, x, v)
    IN  g \in MapsOf(D, V) /\ DOMAIN g = DOMAIN f \cup {x} /\ \A y \in DOMAIN g : g[y] = IF y = x THEN v ELSE f[y]

LEMMA MapWithout ==
    ASSUME NEW D, NEW V, NEW f \in MapsOf(D, V), NEW x
    PROVE  IsWithout(D, V, f, x)
<1>1. PICK d \in SUBSET D : f \in [d -> V]
  BY DEF MapsOf
<1>2. Without(f, x) \in [d \ {x} -> V] /\ d \ {x} \in SUBSET D
  BY <1>1 DEF Without
<1> QED BY <1>1, <1>2 DEF Without, MapsOf, IsWithout

LEMMA MapWith ==
    ASSUME NEW D, NEW V, NEW f \in MapsOf(D, V), NEW x \in D, NEW v \in V
    PROVE  IsWith(D, V, f, x, v)
<1>1. PICK d \in SUBSET D : f \in [d -> V]
  BY DEF MapsOf
<1>2. With(f, x, v) \in [d \cup {x} -> V] /\ d \cup {x} \in SUBSET D
  BY <1>1 DEF With
<1> QED BY <1>1, <1>2 DEF With, MapsOf, IsWith

\* The map holds what the calls have asked for.
Holds(table, wanted) ==
    /\ table \in StepTables /\ wanted \in StepWishes
    /\ DOMAIN table \subseteq AnyKey
    /\ DOMAIN wanted = {k.prefix : k \in DOMAIN table}
    /\ \A k \in DOMAIN table : wanted[k.prefix] = table[k].value

LEMMA TablesAreOverKeys ==
    ASSUME NEW D, NEW V, NEW f \in MapsOf(D, V)
    PROVE  DOMAIN f \subseteq D /\ \A x \in DOMAIN f : f[x] \in V
<1>1. PICK d \in SUBSET D : f \in [d -> V]
  BY DEF MapsOf
<1> QED BY <1>1

LEMMA ChangeHolds ==
    ASSUME OneSpelling, NEW table, NEW wanted, Holds(table, wanted), NEW m \in StepChange
    PROVE  Holds(ApplyTo(table, m), Announce(wanted, m))
<1> DEFINE after == ApplyTo(table, m)
           asked == Announce(wanted, m)
           k == m.key
<1>1. k \in AnyKey /\ m.value \in AnyValue /\ k.prefix \in KeyPrefixes
  BY DEF StepChange, KeyPrefixes
<1>2. /\ table \in MapsOf(AnyKey, StepEntry) /\ wanted \in MapsOf(KeyPrefixes, AnyValue)
      /\ DOMAIN table \subseteq AnyKey
      /\ DOMAIN wanted = {j.prefix : j \in DOMAIN table}
      /\ \A j \in DOMAIN table : wanted[j.prefix] = table[j].value
  BY DEF Holds, StepTables, StepWishes
<1>3. \A j \in AnyKey : j.prefix = k.prefix => j = k
  BY <1>1 DEF OneSpelling
<1>4. CASE m.delete
  <2>1. after = Without(table, k) /\ asked = Without(wanted, k.prefix)
    BY <1>4 DEF ApplyTo, Announce
  <2> HIDE DEF after, asked, k
  <2>2. IsWithout(AnyKey, StepEntry, table, k) /\ IsWithout(KeyPrefixes, AnyValue, wanted, k.prefix)
    BY <1>2, MapWithout
  <2>3. /\ after \in MapsOf(AnyKey, StepEntry) /\ DOMAIN after = DOMAIN table \ {k}
        /\ \A y \in DOMAIN after : after[y] = table[y]
        /\ asked \in MapsOf(KeyPrefixes, AnyValue) /\ DOMAIN asked = DOMAIN wanted \ {k.prefix}
        /\ \A y \in DOMAIN asked : asked[y] = wanted[y]
    BY <2>1, <2>2 DEF IsWithout
  <2>4. DOMAIN asked = {j.prefix : j \in DOMAIN after}
    BY <1>2, <1>3, <2>3
  <2>5. \A j \in DOMAIN after : asked[j.prefix] = after[j].value
    BY <1>2, <1>3, <2>3
  <2> QED BY <1>2, <2>3, <2>4, <2>5 DEF Holds, StepTables, StepWishes, after, asked
<1>5. CASE ~m.delete
  <2> DEFINE e == [value |-> m.value, id |-> 0]
  <2>1. after = With(table, k, e) /\ asked = With(wanted, k.prefix, m.value)
    BY <1>5 DEF ApplyTo, Announce, Store
  <2>2. e \in StepEntry /\ e.value = m.value
    BY <1>1 DEF StepEntry
  <2> HIDE DEF after, asked, k, e
  <2>3. IsWith(AnyKey, StepEntry, table, k, e) /\ IsWith(KeyPrefixes, AnyValue, wanted, k.prefix, m.value)
    BY <1>1, <1>2, <2>2, MapWith
  <2>4. /\ after \in MapsOf(AnyKey, StepEntry) /\ DOMAIN after = DOMAIN table \cup {k}
        /\ \A y \in DOMAIN after : after[y] = IF y = k THEN e ELSE table[y]
        /\ asked \in MapsOf(KeyPrefixes, AnyValue) /\ DOMAIN asked = DOMAIN wanted \cup {k.prefix}
        /\ \A y \in DOMAIN asked : asked[y] = IF y = k.prefix THEN m.value ELSE wanted[y]
    BY <2>1, <2>3 DEF IsWith
  <2>5. DOMAIN asked = {j.prefix : j \in DOMAIN after}
    BY <1>2, <2>4
  <2>6. \A j \in DOMAIN after : asked[j.prefix] = after[j].value
    BY <1>1, <1>2, <1>3, <2>2, <2>4
  <2> QED BY <1>1, <1>2, <2>4, <2>5, <2>6 DEF Holds, StepTables, StepWishes, after, asked
<1> QED BY <1>4, <1>5

\* A fold of a list of length n, as the function that the community modules make
\* of it, with what it takes to see that it satisfies its equation.
FoldsOver(g, V, first, step, n) ==
    /\ g \in [SUBSET (1 .. n) -> V]
    /\ g[{}] = first
    /\ \A t \in SUBSET (1 .. n) :
          t # {} => /\ Max(t) \in 1 .. n /\ Max(t) \in Nat
                    /\ t \ {Max(t)} \in SUBSET (1 .. n)
                    /\ g[t \ {Max(t)}] \in V
                    /\ g[t] = step[<<g[t \ {Max(t)}], Max(t)>>]

LEMMA FoldExists ==
    ASSUME NEW V, NEW first \in V, NEW step \in [V \X Nat -> V], NEW n \in Nat
    PROVE  \E g : FoldsOver(g, V, first, step, n)
<1>1. PICK g \in [SUBSET (1 .. n) -> V] : Folds(g, first, step, n)
  BY Folding
<1>2. ASSUME NEW t \in SUBSET (1 .. n), t # {}
      PROVE  /\ Max(t) \in 1 .. n /\ Max(t) \in Nat
             /\ t \ {Max(t)} \in SUBSET (1 .. n)
             /\ g[t \ {Max(t)}] \in V
             /\ g[t] = step[<<g[t \ {Max(t)}], Max(t)>>]
  <2>1. Max(t) \in t
    <3>1. t \in SUBSET Nat /\ \A i \in t : i <= n
      OBVIOUS
    <3> QED BY <1>2, <3>1, GreatestElement
  <2>2. Max(t) \in 1 .. n /\ t \ {Max(t)} \in SUBSET (1 .. n)
    BY <2>1, Zenon
  <2>3. Max(t) \in Nat
    <3>1. \A i \in 1 .. n : i \in Nat
      OBVIOUS
    <3> QED BY <2>2, <3>1, Zenon
  <2> QED BY <1>1, <1>2, <2>2, <2>3 DEF Folds
<1> QED BY <1>1, <1>2 DEF Folds, FoldsOver

\* The places of a list in their order, for a function of sets of places.
LEMMA PlacesInOrder ==
    ASSUME NEW n \in Nat
    PROVE  /\ 1 .. 0 = {} /\ 1 .. 0 \in SUBSET (1 .. n)
           /\ \A k \in 1 .. n : /\ 1 .. k \in SUBSET (1 .. n) /\ 1 .. k # {}
                                /\ Max(1 .. k) = k /\ (1 .. k) \ {k} = 1 .. k - 1
<1>1. 1 .. 0 = {}
  OBVIOUS
<1>2. ASSUME NEW k \in 1 .. n
      PROVE  1 .. k \in SUBSET (1 .. n) /\ 1 .. k # {} /\ Max(1 .. k) = k /\ (1 .. k) \ {k} = 1 .. k - 1
  <2>1. 1 .. k \in SUBSET (1 .. n) /\ 1 .. k # {}
    OBVIOUS
  <2> QED BY <2>1, GreatestOfFirst
<1> QED BY <1>1, <1>2

LEMMA SameMax == \A S : Max(S) = Max(S)
BY DEF Max, Max

\* What a batch does to the map, one mutation after the other.
LEMMA AppliedInOrder ==
    ASSUME NEW table \in StepTables, NEW ms \in Seq(StepChange)
    PROVE  \E f : /\ f[1 .. 0] = table
                  /\ \A k \in 1 .. Len(ms) : f[1 .. k] = ApplyTo(f[1 .. k - 1], ms[k])
                  /\ FoldLeft(ApplyTo, table, ms) = f[1 .. Len(ms)]
<1> DEFINE n == Len(ms)
           V == StepTables
           step == [x \in V \X Nat |-> IF x[2] \in 1 .. n THEN ApplyTo(x[1], ms[x[2]]) ELSE table]
           Equation(f) ==
               f = [t \in SUBSET (1 .. n) |->
                       IF t = {} THEN table ELSE ApplyTo(f[t \ {Max(t)}], ms[Max(t)])]
           fold == CHOOSE f : Equation(f)
<1>1. n \in Nat /\ DOMAIN ms = 1 .. n /\ \A k \in 1 .. n : ms[k] \in StepChange
  BY LenProperties, ElementOfSeq
<1>2. FoldLeft(ApplyTo, table, ms) = fold[1 .. n]
  BY <1>1, SameMax DEF FoldLeft, MapThenFoldSet
<1> HIDE DEF n
<1>3. step \in [V \X Nat -> V]
  <2>1. \A t \in V, k \in 1 .. n : ApplyTo(t, ms[k]) \in V
    <3> SUFFICES ASSUME NEW t \in V, NEW k \in 1 .. n PROVE ApplyTo(t, ms[k]) \in V
      OBVIOUS
    <3> DEFINE m == ms[k]
               e == [value |-> m.value, id |-> 0]
    <3>1. m.key \in AnyKey /\ e \in StepEntry
      BY <1>1 DEF StepChange, StepEntry
    <3> HIDE DEF m, e
    <3>2. IsWithout(AnyKey, StepEntry, t, m.key) /\ IsWith(AnyKey, StepEntry, t, m.key, e)
      BY <3>1, MapWithout, MapWith DEF StepTables
    <3>3. ApplyTo(t, m) = IF m.delete THEN Without(t, m.key) ELSE With(t, m.key, e)
      BY DEF ApplyTo, Store, e
    <3> QED BY <3>2, <3>3 DEF IsWith, IsWithout, StepTables, m
  <2> HIDE DEF V
  <2> QED BY <2>1 DEF V
<1>4. PICK g : FoldsOver(g, V, table, step, n)
  <2> HIDE DEF V, step
  <2> QED BY <1>1, <1>3, FoldExists DEF V
<1>5. Equation(g)
  <2> HIDE DEF V
  <2>1. \A t \in SUBSET (1 .. n) : t # {} => g[t] = ApplyTo(g[t \ {Max(t)}], ms[Max(t)])
    BY <1>4 DEF FoldsOver
  <2> QED BY <1>4, <2>1 DEF FoldsOver
<1>6. Equation(fold)
  <2> HIDE DEF Equation
  <2> QED BY <1>5
<1> HIDE DEF fold
<1>7. /\ fold[1 .. 0] = table
      /\ \A k \in 1 .. n : fold[1 .. k] = ApplyTo(fold[1 .. k - 1], ms[k])
  <2>1. /\ fold[{}] = table
        /\ \A t \in SUBSET (1 .. n) :
              t # {} => fold[t] = ApplyTo(fold[t \ {Max(t)}], ms[Max(t)])
    BY <1>6
  <2> HIDE DEF Equation
  <2>2. ASSUME NEW k \in 1 .. n PROVE fold[1 .. k] = ApplyTo(fold[1 .. k - 1], ms[k])
    <3>1. 1 .. k \in SUBSET (1 .. n) /\ 1 .. k # {} /\ Max(1 .. k) = k /\ (1 .. k) \ {k} = 1 .. k - 1
      BY <1>1, PlacesInOrder
    <3>2. fold[1 .. k] = ApplyTo(fold[(1 .. k) \ {Max(1 .. k)}], ms[Max(1 .. k)])
      BY <2>1, <3>1, Zenon
    <3> QED BY <3>1, <3>2
  <2>3. 1 .. 0 = {}
    BY <1>1, PlacesInOrder
  <2> QED BY <2>1, <2>2, <2>3
<1> QED BY <1>2, <1>7 DEF n

\* What it asks for, one mutation after the other.
LEMMA AskedInOrder ==
    ASSUME NEW wanted \in StepWishes, NEW ms \in Seq(StepChange)
    PROVE  \E f : /\ f[1 .. 0] = wanted
                  /\ \A k \in 1 .. Len(ms) : f[1 .. k] = Announce(f[1 .. k - 1], ms[k])
                  /\ FoldLeft(Announce, wanted, ms) = f[1 .. Len(ms)]
<1> DEFINE n == Len(ms)
           V == StepWishes
           step == [x \in V \X Nat |-> IF x[2] \in 1 .. n THEN Announce(x[1], ms[x[2]]) ELSE wanted]
           Equation(f) ==
               f = [t \in SUBSET (1 .. n) |->
                       IF t = {} THEN wanted ELSE Announce(f[t \ {Max(t)}], ms[Max(t)])]
           fold == CHOOSE f : Equation(f)
<1>1. n \in Nat /\ DOMAIN ms = 1 .. n /\ \A k \in 1 .. n : ms[k] \in StepChange
  BY LenProperties, ElementOfSeq
<1>2. FoldLeft(Announce, wanted, ms) = fold[1 .. n]
  BY <1>1, SameMax DEF FoldLeft, MapThenFoldSet
<1> HIDE DEF n
<1>3. step \in [V \X Nat -> V]
  <2>1. \A t \in V, k \in 1 .. n : Announce(t, ms[k]) \in V
    <3> SUFFICES ASSUME NEW t \in V, NEW k \in 1 .. n PROVE Announce(t, ms[k]) \in V
      OBVIOUS
    <3> DEFINE m == ms[k]
    <3>1. m.key.prefix \in KeyPrefixes /\ m.value \in AnyValue
      BY <1>1 DEF StepChange, KeyPrefixes
    <3> HIDE DEF m
    <3>2. /\ IsWithout(KeyPrefixes, AnyValue, t, m.key.prefix)
          /\ IsWith(KeyPrefixes, AnyValue, t, m.key.prefix, m.value)
      BY <3>1, MapWithout, MapWith DEF StepWishes
    <3>3. Announce(t, m) = IF m.delete THEN Without(t, m.key.prefix)
                                ELSE With(t, m.key.prefix, m.value)
      BY DEF Announce
    <3> QED BY <3>2, <3>3 DEF IsWith, IsWithout, StepWishes, m
  <2> HIDE DEF V
  <2> QED BY <2>1 DEF V
<1>4. PICK g : FoldsOver(g, V, wanted, step, n)
  <2> HIDE DEF V, step
  <2> QED BY <1>1, <1>3, FoldExists DEF V
<1>5. Equation(g)
  <2> HIDE DEF V
  <2>1. \A t \in SUBSET (1 .. n) : t # {} => g[t] = Announce(g[t \ {Max(t)}], ms[Max(t)])
    BY <1>4 DEF FoldsOver
  <2> QED BY <1>4, <2>1 DEF FoldsOver
<1>6. Equation(fold)
  <2> HIDE DEF Equation
  <2> QED BY <1>5
<1> HIDE DEF fold
<1>7. /\ fold[1 .. 0] = wanted
      /\ \A k \in 1 .. n : fold[1 .. k] = Announce(fold[1 .. k - 1], ms[k])
  <2>1. /\ fold[{}] = wanted
        /\ \A t \in SUBSET (1 .. n) :
              t # {} => fold[t] = Announce(fold[t \ {Max(t)}], ms[Max(t)])
    BY <1>6
  <2> HIDE DEF Equation
  <2>2. ASSUME NEW k \in 1 .. n PROVE fold[1 .. k] = Announce(fold[1 .. k - 1], ms[k])
    <3>1. 1 .. k \in SUBSET (1 .. n) /\ 1 .. k # {} /\ Max(1 .. k) = k /\ (1 .. k) \ {k} = 1 .. k - 1
      BY <1>1, PlacesInOrder
    <3>2. fold[1 .. k] = Announce(fold[(1 .. k) \ {Max(1 .. k)}], ms[Max(1 .. k)])
      BY <2>1, <3>1, Zenon
    <3> QED BY <3>1, <3>2
  <2>3. 1 .. 0 = {}
    BY <1>1, PlacesInOrder
  <2> QED BY <2>1, <2>2, <2>3
<1> QED BY <1>2, <1>7 DEF n

\* The map and a value vector during a batch that patches values.
Vectors(D, W) == [routes : StepTables, values : [D -> W]]

\* What patching does, one mutation after the other.
Patches(f, first, ms) ==
    /\ f[1 .. 0] = first
    /\ \A k \in 1 .. Len(ms) : f[1 .. k] = Patch(f[1 .. k - 1], ms[k])
    /\ FoldLeft(Patch, first, ms) = f[1 .. Len(ms)]
LEMMA PatchedInOrder ==
    ASSUME NEW D, NEW W, AnyValue \subseteq W, NEW first \in Vectors(D, W), NEW ms \in Seq(StepChange)
    PROVE  \E f : Patches(f, first, ms)
<1> DEFINE n == Len(ms)
           V == Vectors(D, W)
           step == [x \in V \X Nat |-> IF x[2] \in 1 .. n THEN Patch(x[1], ms[x[2]]) ELSE first]
           Equation(f) ==
               f = [t \in SUBSET (1 .. n) |->
                       IF t = {} THEN first ELSE Patch(f[t \ {Max(t)}], ms[Max(t)])]
           fold == CHOOSE f : Equation(f)
<1>1. n \in Nat /\ DOMAIN ms = 1 .. n /\ \A k \in 1 .. n : ms[k] \in StepChange
  BY LenProperties, ElementOfSeq
<1>2. FoldLeft(Patch, first, ms) = fold[1 .. n]
  BY <1>1, SameMax DEF FoldLeft, MapThenFoldSet
<1> HIDE DEF n
<1>3. step \in [V \X Nat -> V]
  <2>1. \A t \in V, k \in 1 .. n : Patch(t, ms[k]) \in V
    <3> SUFFICES ASSUME NEW t \in V, NEW k \in 1 .. n PROVE Patch(t, ms[k]) \in V
      OBVIOUS
    <3> DEFINE m == ms[k]
               old == IF m.key \in DOMAIN t.routes THEN t.routes[m.key] ELSE [value |-> Zero, id |-> 0]
               e == [old EXCEPT !.value = m.value]
    <3>1. m.key \in AnyKey /\ m.value \in AnyValue
      BY <1>1 DEF StepChange
    <3>2. t.routes \in StepTables /\ t.values \in [D -> W]
      BY DEF Vectors
    <3>3. old \in StepEntry
      <4>1. t.routes \in MapsOf(AnyKey, StepEntry)
        BY <3>2 DEF StepTables
      <4>2. \A x \in DOMAIN t.routes : t.routes[x] \in StepEntry
        BY <4>1, TablesAreOverKeys
      <4>3. [value |-> Zero, id |-> 0] \in StepEntry
        BY DEF StepEntry, AnyValue
      <4> QED BY <4>2, <4>3
    <3>4. e \in StepEntry
      <4> HIDE DEF old
      <4> QED BY <3>1, <3>3 DEF StepEntry
    <3>5. Patch(t, m) = [routes |-> With(t.routes, m.key, e),
                              values |-> [t.values EXCEPT ![old.id] = m.value]]
      BY DEF Patch
    <3> HIDE DEF m, old, e
    <3>6. IsWith(AnyKey, StepEntry, t.routes, m.key, e)
      BY <3>1, <3>2, <3>4, MapWith DEF StepTables
    <3>7. With(t.routes, m.key, e) \in StepTables
      BY <3>6 DEF IsWith, StepTables
    <3>8. [t.values EXCEPT ![old.id] = m.value] \in [D -> W]
      BY <3>1, <3>2
    <3> QED BY <3>5, <3>7, <3>8 DEF Vectors, m
  <2> HIDE DEF V
  <2> QED BY <2>1 DEF V
<1>4. PICK g : FoldsOver(g, V, first, step, n)
  <2> HIDE DEF V, step
  <2> QED BY <1>1, <1>3, FoldExists DEF V
<1>5. Equation(g)
  <2> HIDE DEF V
  <2>1. \A t \in SUBSET (1 .. n) : t # {} => g[t] = Patch(g[t \ {Max(t)}], ms[Max(t)])
    BY <1>4 DEF FoldsOver
  <2> QED BY <1>4, <2>1 DEF FoldsOver
<1>6. Equation(fold)
  <2> HIDE DEF Equation
  <2> QED BY <1>5
<1> HIDE DEF fold
<1>7. /\ fold[1 .. 0] = first
      /\ \A k \in 1 .. n : fold[1 .. k] = Patch(fold[1 .. k - 1], ms[k])
  <2>1. /\ fold[{}] = first
        /\ \A t \in SUBSET (1 .. n) :
              t # {} => fold[t] = Patch(fold[t \ {Max(t)}], ms[Max(t)])
    BY <1>6
  <2> HIDE DEF Equation
  <2>2. ASSUME NEW k \in 1 .. n PROVE fold[1 .. k] = Patch(fold[1 .. k - 1], ms[k])
    <3>1. 1 .. k \in SUBSET (1 .. n) /\ 1 .. k # {} /\ Max(1 .. k) = k /\ (1 .. k) \ {k} = 1 .. k - 1
      BY <1>1, PlacesInOrder
    <3>2. fold[1 .. k] = Patch(fold[(1 .. k) \ {Max(1 .. k)}], ms[Max(1 .. k)])
      BY <2>1, <3>1, Zenon
    <3> QED BY <3>1, <3>2
  <2>3. 1 .. 0 = {}
    BY <1>1, PlacesInOrder
  <2> QED BY <2>1, <2>2, <2>3
<1> QED BY <1>2, <1>7 DEF n, Patches

\* A batch leaves the map holding what it asks for.
LEMMA BatchHolds ==
    ASSUME OneSpelling, NEW table, NEW wanted, Holds(table, wanted), NEW ms \in Seq(StepChange)
    PROVE  Holds(FoldLeft(ApplyTo, table, ms), FoldLeft(Announce, wanted, ms))
<1> DEFINE n == Len(ms)
<1>1. n \in Nat /\ \A k \in 1 .. n : ms[k] \in StepChange
  BY LenProperties, ElementOfSeq
<1>2. table \in StepTables /\ wanted \in StepWishes
  BY DEF Holds
<1>3. PICK f : /\ f[1 .. 0] = table
               /\ \A k \in 1 .. n : f[1 .. k] = ApplyTo(f[1 .. k - 1], ms[k])
               /\ FoldLeft(ApplyTo, table, ms) = f[1 .. n]
  BY <1>2, AppliedInOrder
<1>4. PICK g : /\ g[1 .. 0] = wanted
               /\ \A k \in 1 .. n : g[1 .. k] = Announce(g[1 .. k - 1], ms[k])
               /\ FoldLeft(Announce, wanted, ms) = g[1 .. n]
  BY <1>2, AskedInOrder
<1> HIDE DEF n
<1> DEFINE odd == {k \in 0 .. n : ~Holds(f[1 .. k], g[1 .. k])}
<1>5. odd = {}
  <2> SUFFICES ASSUME odd # {} PROVE FALSE
    OBVIOUS
  <2>1. PICK k \in odd : \A j \in odd : k <= j
    <3>1. odd \in SUBSET Nat
      BY <1>1
    <3> HIDE DEF odd
    <3> QED BY <3>1, LeastElement
  <2>2. k \in 0 .. n /\ ~Holds(f[1 .. k], g[1 .. k])
    BY <2>1
  <2>3. k # 0
    BY <1>3, <1>4, <2>2
  <2>4. k \in 1 .. n /\ k - 1 \in 0 .. n /\ ~(k <= k - 1)
    BY <1>1, <2>2, <2>3
  <2>5. k - 1 \notin odd
    <3> HIDE DEF odd
    <3> QED BY <2>1, <2>4
  <2>6. Holds(f[1 .. k - 1], g[1 .. k - 1])
    BY <2>4, <2>5
  <2>7. Holds(f[1 .. k], g[1 .. k])
    <3>1. /\ f[1 .. k] = ApplyTo(f[1 .. k - 1], ms[k])
          /\ g[1 .. k] = Announce(g[1 .. k - 1], ms[k])
          /\ ms[k] \in StepChange
      BY <1>1, <1>3, <1>4, <2>4
    <3>2. Holds(ApplyTo(f[1 .. k - 1], ms[k]), Announce(g[1 .. k - 1], ms[k]))
      BY <2>6, <3>1, ChangeHolds
    <3> QED BY <3>1, <3>2
  <2> QED BY <2>2, <2>7
<1>6. n \in 0 .. n
  BY <1>1
<1>7. Holds(f[1 .. n], g[1 .. n])
  BY <1>5, <1>6
<1> QED BY <1>3, <1>4, <1>7

\* The snapshot is the index of a numbering that the map remembers, and its
\* values are the map's.
Numbered(which, table, x) ==
    /\ x = [index |-> x.index, values |-> x.values]
    /\ x.values = [id \in DOMAIN x.values |-> x.values[id]]
    /\ \E ids \in Numberings({k.prefix : k \in DOMAIN table}) :
          /\ x.index = StepBuild(which, ids)
          /\ \A k \in DOMAIN table :
                /\ table[k].id = ids[k.prefix]
                /\ table[k].id \in DOMAIN x.values
                /\ x.values[table[k].id] = table[k].value

\* A numbering gives different prefixes different ids, none of them 0.
LEMMA NumberingType ==
    ASSUME NEW S, NEW ids \in Numberings(S)
    PROVE  /\ DOMAIN ids = S
           /\ \A p \in S : ids[p] \in 1 .. Cardinality(S) /\ ids[p] \in 0 .. Cardinality(S) /\ ids[p] \in Nat /\ ids[p] # 0
           /\ \A p, q \in S : ids[p] = ids[q] => p = q
<1> DEFINE c == Cardinality(S)
<1>1. ids \in [S -> 1 .. c] /\ \A p, q \in S : ids[p] = ids[q] => p = q
  BY DEF Numberings
<1> HIDE DEF c
<1>2. \A i \in 1 .. c : i \in 0 .. c /\ i \in Nat /\ i # 0
  OBVIOUS
<1> QED BY <1>1, <1>2 DEF c

\* A rebuild numbers what it is given, whatever order the map is walked in.
LEMMA RebuildNumbers ==
    ASSUME OneSpelling, NEW table \in StepTables, rebuild(table), package' = package
    PROVE  /\ Numbered(package, stepRoutes', stepCurrent')
           /\ stepRoutes' \in StepTables
           /\ DOMAIN stepRoutes' = DOMAIN table
           /\ \A k \in DOMAIN table : stepRoutes'[k].value = table[k].value
<1> DEFINE S == {k.prefix : k \in DOMAIN table}
           Values(ids, later) ==
               [id \in 0 .. Cardinality(S) |->
                   IF id = 0 THEN Zero ELSE table[later[CHOOSE p \in S : ids[p] = id]].value]
<1>1. PICK ids \in Numberings(S), later \in [S -> DOMAIN table] :
         /\ \A p \in S : later[p].prefix = p
         /\ stepRoutes' = [k \in DOMAIN table |-> [value |-> table[k].value, id |-> ids[k.prefix]]]
         /\ stepCurrent' = [index |-> StepBuild(package, ids), values |-> Values(ids, later)]
  BY DEF rebuild
<1>2. DOMAIN table \subseteq AnyKey /\ \A k \in DOMAIN table : table[k] \in StepEntry
  BY TablesAreOverKeys DEF StepTables
<1>3. \A p \in S : ids[p] \in 0 .. Cardinality(S) /\ ids[p] \in Nat /\ ids[p] # 0
  BY NumberingType
<1>4. \A p, q \in S : ids[p] = ids[q] => p = q
  BY NumberingType
<1>5. DOMAIN stepRoutes' = DOMAIN table
  BY <1>1
<1>6. ASSUME NEW k \in DOMAIN table
      PROVE  /\ stepRoutes'[k] = [value |-> table[k].value, id |-> ids[k.prefix]]
             /\ stepRoutes'[k] \in StepEntry
             /\ ids[k.prefix] \in DOMAIN stepCurrent'.values
             /\ stepCurrent'.values[ids[k.prefix]] = table[k].value
  <2>1. k.prefix \in S /\ k \in AnyKey
    BY <1>2
  <2>2. ids[k.prefix] \in Nat /\ ids[k.prefix] # 0 /\ ids[k.prefix] \in 0 .. Cardinality(S)
    BY <1>3, <2>1
  <2>3. stepRoutes'[k] = [value |-> table[k].value, id |-> ids[k.prefix]]
    BY <1>1
  <2>4. table[k].value \in AnyValue
    BY <1>2 DEF StepEntry
  <2>5. stepRoutes'[k] \in StepEntry
    BY <2>2, <2>3, <2>4 DEF StepEntry
  <2>6. (CHOOSE p \in S : ids[p] = ids[k.prefix]) = k.prefix
    BY <1>4, <2>1
  <2>7. later[k.prefix] = k
    <3>1. later[k.prefix] \in AnyKey /\ later[k.prefix].prefix = k.prefix
      BY <1>1, <1>2, <2>1
    <3> QED BY <2>1, <3>1 DEF OneSpelling
  <2>8. stepCurrent'.values = Values(ids, later)
    BY <1>1
  <2>9. Values(ids, later)[ids[k.prefix]] = table[k].value
    <3> HIDE DEF S
    <3> QED BY <2>2, <2>6, <2>7
  <2>10. DOMAIN Values(ids, later) = 0 .. Cardinality(S)
    OBVIOUS
  <2> QED BY <2>2, <2>3, <2>5, <2>8, <2>9, <2>10
<1>7. stepRoutes' \in StepTables
  <2>1. stepRoutes' \in [DOMAIN table -> StepEntry]
    BY <1>1, <1>6
  <2> QED BY <1>2, <2>1 DEF StepTables, MapsOf
<1>8. Numbered(package, stepRoutes', stepCurrent')
  <2>1. {k.prefix : k \in DOMAIN stepRoutes'} = S
    BY <1>5
  <2>2. /\ stepCurrent'.index = StepBuild(package, ids)
        /\ stepCurrent' = [index |-> stepCurrent'.index, values |-> stepCurrent'.values]
        /\ stepCurrent'.values = Values(ids, later)
    BY <1>1
  <2>3. stepCurrent'.values = [id \in DOMAIN stepCurrent'.values |-> stepCurrent'.values[id]]
    BY <2>2
  <2>4. \A k \in DOMAIN stepRoutes' :
           /\ stepRoutes'[k].id = ids[k.prefix]
           /\ stepRoutes'[k].id \in DOMAIN stepCurrent'.values
           /\ stepCurrent'.values[stepRoutes'[k].id] = stepRoutes'[k].value
    BY <1>5, <1>6
  <2> HIDE DEF S, Values
  <2> QED BY <2>1, <2>2, <2>3, <2>4 DEF Numbered
<1> QED BY <1>5, <1>6, <1>7, <1>8

\* A rebuild of a map that holds what is asked for leaves such a map.
LEMMA RebuildHolds ==
    ASSUME OneSpelling, NEW table, NEW wanted, Holds(table, wanted), rebuild(table), package' = package
    PROVE  Holds(stepRoutes', wanted) /\ Numbered(package, stepRoutes', stepCurrent')
<1>1. table \in StepTables
  BY DEF Holds
<1>2. /\ Numbered(package, stepRoutes', stepCurrent') /\ stepRoutes' \in StepTables
      /\ DOMAIN stepRoutes' = DOMAIN table
      /\ \A k \in DOMAIN table : stepRoutes'[k].value = table[k].value
  BY <1>1, RebuildNumbers
<1> QED BY <1>2 DEF Holds

StepInv == Holds(stepRoutes, stepAnnounced) /\ Numbered(package, stepRoutes, stepCurrent)

\* Patching, mutation by mutation: every key keeps its id.
PatchSoFar(state, wanted) ==
    /\ Holds(state.routes, wanted)
    /\ DOMAIN state.routes = DOMAIN stepRoutes
    /\ DOMAIN state.values = DOMAIN stepCurrent.values
    /\ state.values = [id \in DOMAIN state.values |-> state.values[id]]
    /\ \A k \in DOMAIN stepRoutes : /\ state.routes[k].id = stepRoutes[k].id
                                    /\ state.values[state.routes[k].id] = state.routes[k].value

LEMMA PatchOne ==
    ASSUME OneSpelling, StepInv, NEW state, NEW wanted, PatchSoFar(state, wanted),
           NEW m \in StepChange, m.key \in DOMAIN stepRoutes, ~m.delete
    PROVE  PatchSoFar(Patch(state, m), Announce(wanted, m))
<1> DEFINE k == m.key
           old == state.routes[k]
           e == [old EXCEPT !.value = m.value]
           new == Patch(state, m)
           asked == Announce(wanted, m)
<1>1. /\ k \in AnyKey /\ m.value \in AnyValue /\ k.prefix \in KeyPrefixes
  BY DEF StepChange, KeyPrefixes
<1>2. /\ state.routes \in MapsOf(AnyKey, StepEntry) /\ wanted \in MapsOf(KeyPrefixes, AnyValue)
      /\ DOMAIN state.routes \subseteq AnyKey /\ DOMAIN state.routes = DOMAIN stepRoutes
      /\ DOMAIN wanted = {j.prefix : j \in DOMAIN state.routes}
      /\ \A j \in DOMAIN state.routes : wanted[j.prefix] = state.routes[j].value
  BY DEF PatchSoFar, Holds, StepTables, StepWishes
<1>3. old \in StepEntry /\ k \in DOMAIN state.routes
  BY <1>2, TablesAreOverKeys
<1>4. e = [value |-> m.value, id |-> old.id] /\ e \in StepEntry
  <2> HIDE DEF old
  <2> QED BY <1>1, <1>3 DEF StepEntry
<1>5. new = [routes |-> With(state.routes, k, e), values |-> [state.values EXCEPT ![old.id] = m.value]]
  BY <1>3 DEF Patch
<1>6. asked = With(wanted, k.prefix, m.value)
  BY DEF Announce
<1> HIDE DEF k, e, new, asked
<1>7. IsWith(AnyKey, StepEntry, state.routes, k, e) /\ IsWith(KeyPrefixes, AnyValue, wanted, k.prefix, m.value)
  BY <1>1, <1>2, <1>4, MapWith
<1>8. /\ new.routes \in MapsOf(AnyKey, StepEntry) /\ DOMAIN new.routes = DOMAIN state.routes
      /\ \A j \in DOMAIN new.routes : new.routes[j] = IF j = k THEN e ELSE state.routes[j]
      /\ asked \in MapsOf(KeyPrefixes, AnyValue) /\ DOMAIN asked = DOMAIN wanted
      /\ \A p \in DOMAIN asked : asked[p] = IF p = k.prefix THEN m.value ELSE wanted[p]
  <2>1. k.prefix \in DOMAIN wanted
    BY <1>2, <1>3
  <2> QED BY <1>3, <1>5, <1>6, <1>7, <2>1 DEF IsWith
<1>9. Holds(new.routes, asked)
  <2>1. \A j \in AnyKey : j.prefix = k.prefix => j = k
    BY <1>1 DEF OneSpelling
  <2>2. \A j \in DOMAIN new.routes : asked[j.prefix] = new.routes[j].value
    <3> SUFFICES ASSUME NEW j \in DOMAIN new.routes PROVE asked[j.prefix] = new.routes[j].value
      OBVIOUS
    <3>1. j.prefix \in DOMAIN asked /\ j \in AnyKey
      BY <1>2, <1>8
    <3>2. CASE j = k
      BY <1>4, <1>8, <3>1, <3>2
    <3>3. CASE j # k
      BY <1>2, <1>8, <2>1, <3>1, <3>3
    <3> QED BY <3>2, <3>3
  <2> QED BY <1>2, <1>8, <2>2 DEF Holds, StepTables, StepWishes
<1>10. /\ DOMAIN new.values = DOMAIN state.values
       /\ new.values = [id \in DOMAIN new.values |-> new.values[id]]
       /\ \A id \in DOMAIN state.values : new.values[id] = IF id = old.id THEN m.value ELSE state.values[id]
  <2>1. state.values = [id \in DOMAIN state.values |-> state.values[id]]
    BY DEF PatchSoFar
  <2>2. new.values = [state.values EXCEPT ![old.id] = m.value]
    BY <1>5
  <2> HIDE DEF old
  <2> QED BY <2>1, <2>2
<1>11. ASSUME NEW j \in DOMAIN stepRoutes
       PROVE  /\ new.routes[j].id = stepRoutes[j].id
              /\ new.values[new.routes[j].id] = new.routes[j].value
  <2>1. /\ state.routes[j].id = stepRoutes[j].id /\ old.id = stepRoutes[k].id
        /\ state.values[state.routes[j].id] = state.routes[j].value
    BY <1>3, <1>2 DEF PatchSoFar
  <2>2. PICK ids \in Numberings({i.prefix : i \in DOMAIN stepRoutes}) :
           \A i \in DOMAIN stepRoutes : /\ stepRoutes[i].id = ids[i.prefix]
                                        /\ stepRoutes[i].id \in DOMAIN stepCurrent.values
    BY DEF StepInv, Numbered
  <2>3. stepRoutes[j].id \in DOMAIN state.values
    BY <2>2 DEF PatchSoFar
  <2>4. stepRoutes[j].id = stepRoutes[k].id => j = k
    <3>1. j \in AnyKey /\ k \in DOMAIN stepRoutes
      BY <1>2, <1>3
    <3>2. ids[j.prefix] = ids[k.prefix] => j.prefix = k.prefix
      BY <3>1, NumberingType
    <3> QED BY <1>1, <2>2, <3>1, <3>2 DEF OneSpelling
  <2>5. CASE j = k
    BY <1>2, <1>4, <1>8, <1>10, <2>1, <2>3, <2>5
  <2>6. CASE j # k
    BY <1>2, <1>8, <1>10, <2>1, <2>3, <2>4, <2>6
  <2> QED BY <2>5, <2>6
<1> QED BY <1>2, <1>8, <1>9, <1>10, <1>11 DEF PatchSoFar, new, asked

LEMMA BatchPatches ==
    ASSUME OneSpelling, StepInv, NEW ms \in Seq(StepChange),
           \A i \in DOMAIN ms : ms[i].key \in DOMAIN stepRoutes /\ ~ms[i].delete
    PROVE  PatchSoFar(FoldLeft(Patch, [routes |-> stepRoutes, values |-> stepCurrent.values], ms),
                      FoldLeft(Announce, stepAnnounced, ms))
<1> DEFINE n == Len(ms)
           D == DOMAIN stepCurrent.values
           W == AnyValue \cup {stepCurrent.values[id] : id \in D}
           first == [routes |-> stepRoutes, values |-> stepCurrent.values]
<1>1. n \in Nat /\ DOMAIN ms = 1 .. n /\ \A k \in 1 .. n : ms[k] \in StepChange
  BY LenProperties, ElementOfSeq
<1>2. first \in Vectors(D, W) /\ stepAnnounced \in StepWishes
  <2>1. stepCurrent.values = [id \in D |-> stepCurrent.values[id]]
    BY DEF StepInv, Numbered
  <2>2. stepCurrent.values \in [D -> W]
    <3>1. \A id \in D : stepCurrent.values[id] \in W
      OBVIOUS
    <3> HIDE DEF D, W
    <3> QED BY <2>1, <3>1
  <2> HIDE DEF D, W
  <2> QED BY <2>2 DEF StepInv, Holds, Vectors
<1>3. AnyValue \subseteq W
  OBVIOUS
<1>4. PatchSoFar(first, stepAnnounced)
  <2>1. first.routes = stepRoutes /\ first.values = stepCurrent.values
    OBVIOUS
  <2> HIDE DEF first
  <2> QED BY <2>1 DEF PatchSoFar, StepInv, Numbered
<1> HIDE DEF first, D, W
<1>5. PICK f : /\ f[1 .. 0] = first
               /\ \A k \in 1 .. n : f[1 .. k] = Patch(f[1 .. k - 1], ms[k])
               /\ FoldLeft(Patch, first, ms) = f[1 .. n]
  <2>1. \E f : Patches(f, first, ms)
    BY <1>2, <1>3, PatchedInOrder
  <2> QED BY <2>1 DEF Patches
<1>6. PICK g : /\ g[1 .. 0] = stepAnnounced
               /\ \A k \in 1 .. n : g[1 .. k] = Announce(g[1 .. k - 1], ms[k])
               /\ FoldLeft(Announce, stepAnnounced, ms) = g[1 .. n]
  BY <1>2, AskedInOrder
<1> HIDE DEF n
<1> DEFINE odd == {k \in 0 .. n : ~PatchSoFar(f[1 .. k], g[1 .. k])}
<1>7. odd = {}
  <2> SUFFICES ASSUME odd # {} PROVE FALSE
    OBVIOUS
  <2>1. PICK k \in odd : \A j \in odd : k <= j
    <3>1. odd \in SUBSET Nat
      BY <1>1
    <3> HIDE DEF odd
    <3> QED BY <3>1, LeastElement
  <2>2. k \in 0 .. n /\ ~PatchSoFar(f[1 .. k], g[1 .. k])
    BY <2>1
  <2>3. k # 0
    BY <1>4, <1>5, <1>6, <2>2
  <2>4. k \in 1 .. n /\ k - 1 \in 0 .. n /\ ~(k <= k - 1)
    BY <1>1, <2>2, <2>3
  <2>5. k - 1 \notin odd
    <3> HIDE DEF odd
    <3> QED BY <2>1, <2>4
  <2>6. PatchSoFar(f[1 .. k - 1], g[1 .. k - 1])
    BY <2>4, <2>5
  <2>7. PatchSoFar(f[1 .. k], g[1 .. k])
    <3>1. /\ f[1 .. k] = Patch(f[1 .. k - 1], ms[k])
          /\ g[1 .. k] = Announce(g[1 .. k - 1], ms[k])
          /\ ms[k] \in StepChange /\ ms[k].key \in DOMAIN stepRoutes /\ ~ms[k].delete
      BY <1>1, <1>5, <1>6, <2>4
    <3>2. PatchSoFar(Patch(f[1 .. k - 1], ms[k]), Announce(g[1 .. k - 1], ms[k]))
      BY <2>6, <3>1, PatchOne
    <3> QED BY <3>1, <3>2
  <2> QED BY <2>2, <2>7
<1>8. n \in 0 .. n
  BY <1>1
<1>9. PatchSoFar(f[1 .. n], g[1 .. n])
  BY <1>7, <1>8
<1> QED BY <1>5, <1>6, <1>9 DEF first

\* A batch, on either path.
LEMMA ApplyBatchKeeps ==
    ASSUME OneSpelling, StepInv, NEW ms \in Seq(StepChange), StepApplyBatch(ms), ~LoneYanks(ms),
           package' = package
    PROVE  StepInv'
<1>1. stepAnnounced' = FoldLeft(Announce, stepAnnounced, ms)
  BY DEF StepApplyBatch
<1>2. CASE structural(ms)
  <2>1. rebuild(FoldLeft(ApplyTo, stepRoutes, ms))
    BY <1>2 DEF StepApplyBatch
  <2>2. Holds(FoldLeft(ApplyTo, stepRoutes, ms), stepAnnounced')
    BY <1>1, BatchHolds DEF StepInv
  <2> QED BY <2>1, <2>2, RebuildHolds DEF StepInv
<1>3. CASE ~structural(ms)
  <2> DEFINE patched == FoldLeft(Patch, [routes |-> stepRoutes, values |-> stepCurrent.values], ms)
  <2>1. /\ stepRoutes' = patched.routes
        /\ stepCurrent' = [stepCurrent EXCEPT !.values = patched.values]
    BY <1>3 DEF StepApplyBatch
  <2>2. \A i \in DOMAIN ms : ms[i].key \in DOMAIN stepRoutes /\ ~ms[i].delete
    <3>1. \A i \in DOMAIN ms : ~ms[i].delete
      BY <1>3 DEF LoneYanks
    <3>2. \A i \in DOMAIN ms : ~((ms[i].key \in DOMAIN stepRoutes) = ms[i].delete)
      BY <1>3 DEF structural
    <3>3. \A i \in DOMAIN ms : ms[i].delete \in BOOLEAN
      <4>1. \A i \in DOMAIN ms : ms[i] \in StepChange
        BY ElementOfSeq, LenProperties
      <4> QED BY <4>1 DEF StepChange
    <3>4. \A i \in DOMAIN ms : ms[i].delete = FALSE
      BY <3>1, <3>3
    <3>5. ASSUME NEW i \in DOMAIN ms, ms[i].key \notin DOMAIN stepRoutes PROVE FALSE
      <4>1. (ms[i].key \in DOMAIN stepRoutes) = FALSE
        BY <3>5
      <4> QED BY <3>2, <3>4, <4>1, Zenon
    <3> QED BY <3>1, <3>5
  <2>3. PatchSoFar(patched, stepAnnounced')
    BY <1>1, <2>2, BatchPatches
  <2> HIDE DEF patched
  <2>4. stepCurrent = [index |-> stepCurrent.index, values |-> stepCurrent.values]
    BY DEF StepInv, Numbered
  <2>5. stepCurrent' = [index |-> stepCurrent.index, values |-> patched.values]
    BY <2>1, <2>4
  <2>6. /\ Holds(stepRoutes', stepAnnounced') /\ DOMAIN stepRoutes' = DOMAIN stepRoutes
        /\ stepCurrent'.index = stepCurrent.index
        /\ stepCurrent' = [index |-> stepCurrent'.index, values |-> stepCurrent'.values]
        /\ DOMAIN stepCurrent'.values = DOMAIN stepCurrent.values
        /\ stepCurrent'.values = [id \in DOMAIN stepCurrent'.values |-> stepCurrent'.values[id]]
        /\ \A k \in DOMAIN stepRoutes : /\ stepRoutes'[k].id = stepRoutes[k].id
                                        /\ stepCurrent'.values[stepRoutes'[k].id] = stepRoutes'[k].value
    BY <2>1, <2>3, <2>5 DEF PatchSoFar
  <2>7. Numbered(package, stepRoutes', stepCurrent')
    <3>1. PICK ids \in Numberings({k.prefix : k \in DOMAIN stepRoutes}) :
             /\ stepCurrent.index = StepBuild(package, ids)
             /\ \A k \in DOMAIN stepRoutes : /\ stepRoutes[k].id = ids[k.prefix]
                                             /\ stepRoutes[k].id \in DOMAIN stepCurrent.values
      BY DEF StepInv, Numbered
    <3>2. ids \in Numberings({k.prefix : k \in DOMAIN stepRoutes'})
      BY <2>6, <3>1
    <3>3. stepCurrent'.index = StepBuild(package, ids)
      BY <2>6, <3>1
    <3>4. \A k \in DOMAIN stepRoutes' :
             /\ stepRoutes'[k].id = ids[k.prefix]
             /\ stepRoutes'[k].id \in DOMAIN stepCurrent'.values
             /\ stepCurrent'.values[stepRoutes'[k].id] = stepRoutes'[k].value
      BY <2>6, <3>1
    <3> QED BY <2>6, <3>2, <3>3, <3>4 DEF Numbered
  <2> QED BY <2>6, <2>7 DEF StepInv
<1> QED BY <1>2, <1>3

\* The empty table, and what it is asked for.
LEMMA EmptyHolds ==
    /\ Holds(Empty, Empty)
    /\ Empty = [p \in {} |-> 0]
<1>1. Empty \in [{} -> StepEntry] /\ Empty \in [{} -> AnyValue] /\ DOMAIN Empty = {}
  BY DEF Empty
<1>2. Empty \in StepTables /\ Empty \in StepWishes
  BY <1>1 DEF StepTables, StepWishes, MapsOf
<1> QED BY <1>1, <1>2 DEF Holds, Empty

LEMMA StepInitHolds ==
    ASSUME StepInit
    PROVE  StepInv
<1>1. /\ stepRoutes = Empty /\ stepAnnounced = Empty
      /\ stepCurrent = [index |-> StepBuild(package, Empty), values |-> [id \in {0} |-> Zero]]
  BY DEF StepInit
<1>2. DOMAIN stepRoutes = {}
  BY <1>1 DEF Empty
<1>3. Empty \in Numberings({k.prefix : k \in DOMAIN stepRoutes})
  <2>1. {k.prefix : k \in DOMAIN stepRoutes} = {}
    BY <1>2
  <2>2. Empty \in [{} -> 1 .. Cardinality({})]
    BY DEF Empty
  <2> QED BY <2>1, <2>2 DEF Numberings
<1>4. Numbered(package, stepRoutes, stepCurrent)
  <2>1. /\ stepCurrent.index = StepBuild(package, Empty)
        /\ stepCurrent = [index |-> stepCurrent.index, values |-> stepCurrent.values]
        /\ stepCurrent.values = [id \in {0} |-> Zero]
    BY <1>1
  <2>2. stepCurrent.values = [id \in DOMAIN stepCurrent.values |-> stepCurrent.values[id]]
    BY <2>1
  <2> QED BY <1>2, <1>3, <2>1, <2>2 DEF Numbered
<1> QED BY <1>1, <1>4, EmptyHolds DEF StepInv

LEMMA StepKeeps ==
    ASSUME OneSpelling, StepInv, package \in StepPackages, StepNext, NoLoneYanks
    PROVE  StepInv'
<1> DEFINE Keys == StepKey[package]
<1>1. /\ Keys \subseteq AnyKey /\ package' = package
      /\ StepEntries[package] \subseteq Seq([key : Keys, value : Value])
      /\ StepBatches[package] \subseteq Seq([key : Keys, value : AnyValue, delete : BOOLEAN])
  BY KeyAssumption DEF AnyKey, AnyValue, StepNext
<1> HIDE DEF Keys
<1>2. ASSUME NEW entries \in StepEntries[package], StepReset(entries) PROVE StepInv'
  <2> DEFINE ms == [i \in DOMAIN entries |-> Change(entries[i].key, entries[i].value)]
  <2>1. ms \in Seq(StepChange)
    <3>1. entries \in Seq([key : Keys, value : Value])
      BY <1>1
    <3>2. Len(entries) \in Nat /\ DOMAIN entries = 1 .. Len(entries)
          /\ \A i \in 1 .. Len(entries) : entries[i] \in [key : Keys, value : Value]
      BY <3>1, LenProperties, ElementOfSeq
    <3>3. \A i \in 1 .. Len(entries) : ms[i] \in StepChange
      BY <1>1, <3>2 DEF Change, StepChange, AnyValue
    <3> DEFINE n == Len(entries)
    <3>4. ms = [i \in 1 .. n |-> ms[i]]
      BY <3>2
    <3> HIDE DEF ms
    <3> QED BY <3>2, <3>3, <3>4, IsASeq
  <2>2. /\ rebuild(FoldLeft(ApplyTo, Empty, ms))
        /\ stepAnnounced' = FoldLeft(Announce, Empty, ms)
    BY <1>2 DEF StepReset
  <2> HIDE DEF ms
  <2>3. Holds(FoldLeft(ApplyTo, Empty, ms), stepAnnounced')
    BY <2>1, <2>2, EmptyHolds, BatchHolds
  <2> QED BY <1>1, <2>2, <2>3, RebuildHolds DEF StepInv
<1>3. ASSUME NEW k \in Keys, NEW v \in Value, StepInsert(k, v) PROVE StepInv'
  <2> DEFINE ms == <<Change(k, v)>>
  <2>1. ms \in Seq(StepChange) /\ ms[1].delete = FALSE /\ DOMAIN ms = {1}
    BY <1>1 DEF Change, StepChange, AnyValue
  <2>2. StepApplyBatch(ms)
    BY <1>3 DEF StepInsert
  <2> HIDE DEF ms
  <2>3. ~LoneYanks(ms)
    BY <2>1 DEF LoneYanks
  <2> QED BY <1>1, <2>1, <2>2, <2>3, ApplyBatchKeeps
<1>4. ASSUME NEW k \in Keys, StepDelete(k) PROVE StepInv'
  <2> DEFINE m == [key |-> k, value |-> Zero, delete |-> TRUE]
  <2>1. m \in StepChange
    BY <1>1 DEF StepChange, AnyValue
  <2>2. ApplyTo(stepRoutes, m) = Without(stepRoutes, k)
    BY DEF ApplyTo
  <2>3. Announce(stepAnnounced, m) = Without(stepAnnounced, k.prefix)
    BY DEF Announce
  <2>4. rebuild(Without(stepRoutes, k)) /\ stepAnnounced' = Without(stepAnnounced, k.prefix)
    BY <1>4 DEF StepDelete
  <2> HIDE DEF m
  <2>5. Holds(ApplyTo(stepRoutes, m), Announce(stepAnnounced, m))
    BY <2>1, ChangeHolds DEF StepInv
  <2> QED BY <1>1, <2>2, <2>3, <2>4, <2>5, RebuildHolds DEF StepInv
<1>5. ASSUME NEW ms \in StepBatches[package], StepApplyBatch(ms) PROVE StepInv'
  <2>1. ms \in Seq(StepChange)
    <3>1. [key : Keys, value : AnyValue, delete : BOOLEAN] \subseteq StepChange
      BY <1>1 DEF StepChange
    <3>2. ms \in Seq([key : Keys, value : AnyValue, delete : BOOLEAN])
      BY <1>1
    <3> QED BY <3>1, <3>2, SeqMonotonic
  <2>2. ~LoneYanks(ms)
    BY <1>5 DEF NoLoneYanks
  <2> QED BY <1>1, <1>5, <2>1, <2>2, ApplyBatchKeeps
<1> QED BY <1>2, <1>3, <1>4, <1>5 DEF StepNext, Keys

LEMMA KeysArePrefixes ==
    \A k \in AnyKey : k.prefix \in Prefix
<1> SUFFICES ASSUME NEW table \in StepPackages, NEW k \in StepKey[table] PROVE k.prefix \in Prefix
  BY DEF AnyKey
<1>1. StepKey[table] \subseteq [prefix : Prefix, as : {"native", "mapped"}]
  BY KeyAssumption
<1> QED BY <1>1

\* Of several prefixes that cover an address one is the longest match.
LEMMA LongestIsStored ==
    ASSUME NEW S \in SUBSET Prefix, NEW a \in Addr, Matches(S, a) # {}
    PROVE  LongestMatch(S, a) \in S
<1> DEFINE M == Matches(S, a)
           lengths == {p.bits : p \in M}
<1>1. \A p \in M : p.bits \in Nat /\ p.bits <= Width
  BY PrefixType, WidthAssumption DEF Matches
<1>2. lengths \in SUBSET Nat /\ lengths # {} /\ \A b \in lengths : b <= Width
  BY <1>1
<1>3. Max(lengths) \in lengths /\ \A b \in lengths : b <= Max(lengths)
  <2> HIDE DEF lengths
  <2> QED BY <1>2, GreatestElement, WidthAssumption
<1>4. \E p \in M : \A q \in M : q.bits <= p.bits
  BY <1>3
<1>5. LongestMatch(S, a) \in M
  BY <1>4 DEF LongestMatch
<1> QED BY <1>5 DEF Matches

\* What the theorem on lookups supposes of the indexes: that the id which one has
\* for an address is that of the longest match, whatever is numbered and however.
IndexesAreExact ==
    \A table \in StepPackages, S \in SUBSET Prefix : \A ids \in Numberings(S), a \in Addr :
        StepLookup(table, StepBuild(table, ids), a) =
            IF Matches(S, a) = {} THEN 0 ELSE ids[LongestMatch(S, a)]

TableInv == package \in StepPackages /\ StepInv

LEMMA StepInvariance ==
    ASSUME OneSpelling
    PROVE  StepSpec /\ [][NoLoneYanks]_stepVars => []TableInv
<1>1. package \in StepPackages /\ StepInit => TableInv
  BY StepInitHolds DEF TableInv
<1>2. TableInv /\ [StepNext]_stepVars /\ [NoLoneYanks]_stepVars => TableInv'
  <2> SUFFICES ASSUME TableInv, [StepNext]_stepVars, [NoLoneYanks]_stepVars PROVE TableInv'
    OBVIOUS
  <2>1. CASE UNCHANGED stepVars
    BY <2>1 DEF TableInv, StepInv, Holds, Numbered, stepVars
  <2>2. CASE StepNext /\ NoLoneYanks
    <3>1. StepInv'
      BY <2>2, StepKeeps DEF TableInv
    <3> QED BY <2>2, <3>1 DEF TableInv, StepNext
  <2> QED BY <2>1, <2>2
<1> QED BY <1>1, <1>2, PTL DEF StepSpec

\* In every state the map of steplpm, and that of soaart, has one entry for each
\* prefix that calls have inserted and not deleted since (Size), as long as
\* prefixes have one spelling each and no batch withdraws only absent ones.
THEOREM StepTablesKeepTheirSize ==
    ASSUME OneSpelling
    PROVE  StepSpec /\ [][NoLoneYanks]_stepVars => []StepSizeIsAnnounced
<1>1. TableInv => StepSizeIsAnnounced
  <2> SUFFICES ASSUME TableInv PROVE Cardinality(DOMAIN stepRoutes) = Cardinality(DOMAIN stepAnnounced)
    BY DEF StepSizeIsAnnounced
  <2> DEFINE S == DOMAIN stepAnnounced
             T == DOMAIN stepRoutes
             key == [p \in S |-> CHOOSE k \in T : k.prefix = p]
  <2>1. S = {k.prefix : k \in T} /\ T \subseteq AnyKey
    BY DEF TableInv, StepInv, Holds
  <2>2. \A k \in AnyKey : k.prefix \in Prefix
    BY KeysArePrefixes
  <2>3. IsFiniteSet(S)
    <3>1. S \subseteq Prefix
      BY <2>1, <2>2
    <3> QED BY <3>1, PrefixesAreFinite, FS_Subset
  <2>4. \A p \in S : key[p] \in T /\ key[p].prefix = p
    BY <2>1
  <2>5. \A k \in T : k.prefix \in S /\ key[k.prefix] = k
    <3> SUFFICES ASSUME NEW k \in T PROVE k.prefix \in S /\ key[k.prefix] = k
      OBVIOUS
    <3>1. k.prefix \in S
      BY <2>1
    <3>2. key[k.prefix] \in T /\ key[k.prefix].prefix = k.prefix
      BY <2>4, <3>1
    <3> HIDE DEF key
    <3> QED BY <2>1, <3>1, <3>2 DEF OneSpelling
  <2>6. key \in Bijection(S, T)
    <3>1. key \in [S -> T]
      BY <2>4
    <3>2. \A p, q \in S : key[p] = key[q] => p = q
      <4> HIDE DEF key
      <4> QED BY <2>4
    <3>3. \A k \in T : \E p \in S : key[p] = k
      <4> HIDE DEF key
      <4> QED BY <2>5
    <3> HIDE DEF key
    <3> QED BY <3>1, <3>2, <3>3 DEF Bijection, Injection, Surjection, IsInjective
  <2> HIDE DEF key
  <2> QED BY <2>3, <2>6, FS_Bijection DEF ExistsBijection
<1> QED BY <1>1, StepInvariance, PTL

\* And over an exact index they answer for every address the value last given to
\* the longest match among those prefixes: the ids that the map remembers stay
\* those of the published index, also where batches only patch values.
THEOREM StepTablesAnswerForTheAnnounced ==
    ASSUME OneSpelling, IndexesAreExact
    PROVE  StepSpec /\ [][NoLoneYanks]_stepVars => []StepLookupIsAnnounced
<1>1. TableInv => StepLookupIsAnnounced
  <2> DEFINE S == DOMAIN stepAnnounced
  <2> SUFFICES ASSUME TableInv, NEW a \in Addr
               PROVE  Lookup(a) = IF Matches(S, a) = {} THEN {} ELSE {stepAnnounced[LongestMatch(S, a)]}
    BY DEF StepLookupIsAnnounced
  <2>1. S = {k.prefix : k \in DOMAIN stepRoutes} /\ DOMAIN stepRoutes \subseteq AnyKey
        /\ \A k \in DOMAIN stepRoutes : stepAnnounced[k.prefix] = stepRoutes[k].value
    BY DEF TableInv, StepInv, Holds
  <2>2. S \in SUBSET Prefix
    BY <2>1, KeysArePrefixes
  <2>3. PICK ids \in Numberings(S) :
           /\ stepCurrent.index = StepBuild(package, ids)
           /\ \A k \in DOMAIN stepRoutes : /\ stepRoutes[k].id = ids[k.prefix]
                                           /\ stepCurrent.values[stepRoutes[k].id] = stepRoutes[k].value
    BY <2>1 DEF TableInv, StepInv, Numbered
  <2> HIDE DEF S
  <2>4. StepLookup(package, stepCurrent.index, a) = IF Matches(S, a) = {} THEN 0 ELSE ids[LongestMatch(S, a)]
    BY <2>2, <2>3 DEF TableInv, IndexesAreExact
  <2>5. CASE Matches(S, a) = {}
    BY <2>4, <2>5 DEF Lookup
  <2>6. CASE Matches(S, a) # {}
    <3> DEFINE p == LongestMatch(S, a)
    <3>1. p \in S
      BY <2>2, <2>6, LongestIsStored
    <3>2. PICK k \in DOMAIN stepRoutes : k.prefix = p
      BY <2>1, <3>1
    <3>3. ids[p] # 0
      BY <3>1, NumberingType
    <3>4. stepCurrent.values[ids[p]] = stepAnnounced[p]
      BY <2>1, <2>3, <3>2
    <3> HIDE DEF p
    <3>5. StepLookup(package, stepCurrent.index, a) = ids[p]
      BY <2>4, <2>6 DEF p
    <3> QED BY <2>6, <3>3, <3>4, <3>5 DEF Lookup, p
  <2> QED BY <2>5, <2>6
<1> QED BY <1>1, StepInvariance, PTL
=============================================================================
