----------------------------- MODULE Foundations ----------------------------
(***************************************************************************)
(* Facts that the proofs about the tables share, for every address width:  *)
(* division with remainder, least and greatest elements, functions defined *)
(* by recursion, sequences, positions in a finite totally ordered set (a   *)
(* prefix's route ID and the address of a fresh page are such positions),  *)
(* and how prefixes span and nest.                                         *)
(***************************************************************************)
EXTENDS Prefixes, Integers, FiniteSetTheorems, SequenceTheorems, SequencesExt, TLAPS

\* Quotient and remainder are determined by the number.
LEMMA QuotientAndRemainder ==
    ASSUME NEW m \in Nat \ {0}, NEW q \in Nat, NEW r \in 0 .. m - 1
    PROVE  (q * m + r) \div m = q /\ (q * m + r) % m = r
<1>1. (q * m + r) \div m = q
  OBVIOUS
<1>2. (q * m + r) % m = r
  OBVIOUS
<1> QED BY <1>1, <1>2

\* A number is put together again from its quotient and remainder.
LEMMA DivisionWithRemainder ==
    ASSUME NEW m \in Nat \ {0}, NEW n \in Nat
    PROVE  /\ n \div m \in Nat
           /\ n % m \in 0 .. m - 1
           /\ n = (n \div m) * m + (n % m)
OBVIOUS

\* Division keeps the order.
LEMMA DivisionInOrder ==
    ASSUME NEW m \in Nat \ {0}, NEW x \in Nat, NEW y \in Nat, x <= y
    PROVE  x \div m <= y \div m
<1> DEFINE p == x \div m
           q == y \div m
<1>1. /\ p \in Nat /\ x % m \in 0 .. m - 1 /\ x = p * m + (x % m)
      /\ q \in Nat /\ y % m \in 0 .. m - 1 /\ y = q * m + (y % m)
  BY DivisionWithRemainder
<1> SUFFICES ASSUME q < p PROVE FALSE
  BY <1>1
<1> HIDE DEF p, q
<1>2. q + 1 <= p
  BY <1>1
<1>3. (q + 1) * m <= p * m
  BY <1>1, <1>2
<1>4. (q + 1) * m = q * m + m /\ q * m \in Nat /\ p * m \in Nat
  BY <1>1
<1>5. \A r \in 0 .. m - 1, s \in 0 .. m - 1, u, v \in Nat : u + m <= v => ~(v + r <= u + s)
  OBVIOUS
<1> QED BY <1>1, <1>3, <1>4, <1>5

\* Dividing twice is dividing by the product.
LEMMA DivisionTwice ==
    ASSUME NEW m \in Nat \ {0}, NEW n \in Nat \ {0}, NEW x \in Nat
    PROVE  (x \div m) \div n = x \div (n * m)
<1> DEFINE q == x \div m
           r == x % m
           t == q \div n
           s == q % n
           rest == s * m + r
<1>1. /\ q \in Nat /\ r \in 0 .. m - 1 /\ x = q * m + r
  BY DivisionWithRemainder
<1> HIDE DEF q, r
<1>2. /\ t \in Nat /\ s \in 0 .. n - 1 /\ q = t * n + s
  BY <1>1, DivisionWithRemainder
<1> HIDE DEF t, s
<1>3. x = t * (n * m) + rest
  <2>1. (t * n + s) * m = t * (n * m) + s * m
    BY <1>2
  <2>2. s * m \in Nat /\ t * (n * m) \in Nat
    BY <1>2
  <2> QED BY <1>1, <1>2, <2>1, <2>2
<1>4. n * m \in Nat \ {0}
  OBVIOUS
<1>5. rest \in 0 .. (n * m) - 1
  <2>1. s * m \in Nat /\ (s + 1) * m <= n * m /\ (s + 1) * m = s * m + m
    BY <1>2
  <2> DEFINE u == s * m
             v == n * m
  <2> HIDE DEF u, v
  <2>2. u \in Nat /\ v \in Nat /\ u + m <= v
    BY <1>4, <2>1 DEF u, v
  <2>3. u + r \in 0 .. v - 1
    BY <1>1, <2>2
  <2> QED BY <2>3 DEF u, v
<1> HIDE DEF rest
<1>6. (t * (n * m) + rest) \div (n * m) = t
  BY <1>2, <1>4, <1>5, QuotientAndRemainder
<1> QED BY <1>3, <1>6 DEF t, q

\* What is below a multiple has its quotient below the factor.
LEMMA QuotientBelow ==
    ASSUME NEW m \in Nat \ {0}, NEW n \in Nat, NEW x \in Nat, x < n * m
    PROVE  x \div m < n
<1> DEFINE q == x \div m
<1>1. q \in Nat /\ x % m \in 0 .. m - 1 /\ x = q * m + (x % m)
  BY DivisionWithRemainder
<1> SUFFICES ASSUME n <= q PROVE FALSE
  BY <1>1
<1> HIDE DEF q
<1>2. n * m <= q * m
  BY <1>1
<1>3. n * m \in Nat /\ q * m \in Nat
  BY <1>1
<1>4. \A u, v \in Nat, r \in 0 .. m - 1 : u <= v => ~(v + r < u)
  OBVIOUS
<1> QED BY <1>1, <1>2, <1>3, <1>4

\* Numbers are in the order of their quotients, and then of their remainders: a
\* comparison word by word is a comparison.
LEMMA WordByWord ==
    ASSUME NEW w \in Nat \ {0}, NEW a \in Nat, NEW b \in Nat
    PROVE  /\ a <= b => a \div w <= b \div w
           /\ a \div w < b \div w => a < b
           /\ a \div w = b \div w => (a <= b <=> a % w <= b % w)
<1> DEFINE h == a \div w
           i == b \div w
           l == a % w
           m == b % w
<1>1. /\ w \in Nat \ {0} /\ h \in Nat /\ i \in Nat
      /\ l \in 0 .. w - 1 /\ m \in 0 .. w - 1
      /\ a = h * w + l /\ b = i * w + m
  BY DivisionWithRemainder
<1> HIDE DEF h, i, l, m
<1>2. ASSUME h < i PROVE a < b
  <2>1. h + 1 <= i
    BY <1>1, <1>2
  <2>2. (h + 1) * w <= i * w
    BY <1>1, <2>1
  <2>3. (h + 1) * w = h * w + w
    BY <1>1
  <2>4. h * w \in Nat /\ i * w \in Nat
    BY <1>1
  <2> QED BY <1>1, <2>2, <2>3, <2>4
<1>3. ASSUME i < h PROVE b < a
  <2>1. i + 1 <= h
    BY <1>1, <1>3
  <2>2. (i + 1) * w <= h * w
    BY <1>1, <2>1
  <2>3. (i + 1) * w = i * w + w
    BY <1>1
  <2>4. h * w \in Nat /\ i * w \in Nat
    BY <1>1
  <2> QED BY <1>1, <2>2, <2>3, <2>4
<1>5. ASSUME a <= b PROVE h <= i
  BY <1>1, <1>3, <1>5
<1>6. ASSUME h = i PROVE a <= b <=> l <= m
  <2>1. h * w \in Nat
    BY <1>1
  <2> QED BY <1>1, <1>6, <2>1
<1>7. /\ a <= b => h <= i
      /\ h < i => a < b
      /\ h = i => (a <= b <=> l <= m)
  BY <1>2, <1>5, <1>6
<1> QED BY <1>7 DEF h, i, l, m

-----------------------------------------------------------------------------
(* Least and greatest elements, and recursion on the natural numbers. *)

\* A set of natural numbers has a least element.
LEMMA LeastElement ==
    ASSUME NEW T \in SUBSET Nat, T # {}
    PROVE  \E n \in T : \A m \in T : n <= m
<1>1. PICK n \in T : \A m \in T : <<m, n>> \notin OpToRel(<, Nat)
  BY NatLessThanWellFounded, WFMin
<1>2. \A m \in T : ~(m < n)
  BY <1>1, Zenon DEF OpToRel
<1> QED BY <1>2

\* A bounded one has a greatest, which is what Max chooses.
LEMMA GreatestElement ==
    ASSUME NEW T \in SUBSET Nat, T # {}, NEW bound \in Nat, \A m \in T : m <= bound
    PROVE  Max(T) \in T /\ \A m \in T : m <= Max(T)
<1> DEFINE below == {bound - m : m \in T}
<1>1. below \in SUBSET Nat /\ below # {}
  <2>1. \A m \in T : m \in Nat /\ bound - m \in Nat
    OBVIOUS
  <2> QED BY <2>1
<1>2. PICK least \in below : \A b \in below : least <= b
  BY <1>1, LeastElement
<1>3. PICK n \in T : least = bound - n
  BY <1>2
<1>4. \A m \in T : bound - n <= bound - m
  BY <1>2, <1>3
<1>5. \A m \in T : n >= m
  BY <1>4
<1> QED BY <1>5 DEF Max

\* Places from l + 1 on that have every place before them, as the offsets of a
\* sorted array count them, are the first ones.
LEMMA FirstPlaces ==
    ASSUME NEW l \in Nat, NEW h \in Nat, NEW T \in SUBSET (l + 1 .. h),
           \A i \in T : \A j \in l + 1 .. i : j \in T
    PROVE  /\ Cardinality(T) \in Nat
           /\ T = l + 1 .. l + Cardinality(T)
           /\ l <= h => l + Cardinality(T) \in l .. h
<1>1. CASE T = {}
  <2>1. Cardinality(T) = 0
    BY <1>1, FS_EmptySet
  <2> QED BY <1>1, <2>1
<1>2. CASE T # {}
  <2> DEFINE m == Max(T)
  <2>1. m \in T /\ \A i \in T : i <= m
    <3>1. T \in SUBSET Nat /\ \A i \in T : i <= h
      OBVIOUS
    <3> QED BY <1>2, <3>1, GreatestElement
  <2> HIDE DEF m
  <2>2. T = l + 1 .. m
    <3>1. \A j \in l + 1 .. m : j \in T
      BY <2>1
    <3>2. \A i \in T : i \in l + 1 .. m
      <4>1. m \in Nat /\ \A i \in T : i \in l + 1 .. h
        BY <2>1
      <4> QED BY <2>1, <4>1
    <3> QED BY <3>1, <3>2
  <2>3. m \in l + 1 .. h /\ m \in Nat
    BY <2>1
  <2>4. Cardinality(l + 1 .. m) = m - l
    <3>1. l + 1 \in Int /\ m \in Int /\ ~(l + 1 > m)
      BY <2>3
    <3>2. Cardinality(l + 1 .. m) = m - (l + 1) + 1
      BY <3>1, FS_Interval
    <3> QED BY <2>3, <3>2
  <2>5. Cardinality(T) = m - l
    BY <2>2, <2>4
  <2> HIDE DEF m
  <2> QED BY <2>2, <2>3, <2>5
<1> QED BY <1>1, <1>2

\* Two functions of the sets of positions of a sequence begin alike and go on
\* alike at the greatest position, as two folds over it do.
FoldAlike(f, g, n) ==
    /\ f[{}] = g[{}]
    /\ \A s \in SUBSET (1 .. n) :
          s # {} /\ Max(s) \in s /\ f[s \ {Max(s)}] = g[s \ {Max(s)}] => f[s] = g[s]

\* Such functions agree on every set of positions, the whole sequence included.
LEMMA FoldsAgree ==
    ASSUME NEW n \in Nat, NEW f, NEW g, FoldAlike(f, g, n)
    PROVE  f[1 .. n] = g[1 .. n]
<1> DEFINE places == 1 .. n
           differ == {s \in SUBSET places : f[s] # g[s]}
           sizes == {Cardinality(s) : s \in differ}
<1>1. differ = {}
  <2> SUFFICES ASSUME differ # {} PROVE FALSE
    OBVIOUS
  <2>1. IsFiniteSet(places)
    <3>1. n \in Int /\ 1 \in Int
      OBVIOUS
    <3> HIDE DEF differ, sizes
    <3>2. IsFiniteSet(1 .. n)
      BY <3>1, FS_Interval
    <3> QED BY <3>2
  <2>2. \A s \in SUBSET places : IsFiniteSet(s) /\ Cardinality(s) \in Nat
    BY <2>1, FS_Subset, FS_CardinalityType
  <2>3. sizes \in SUBSET Nat /\ sizes # {}
    BY <2>2
  <2>4. PICK size \in sizes : \A m \in sizes : size <= m
    <3> HIDE DEF sizes
    <3> QED BY <2>3, LeastElement
  <2>5. PICK s \in differ : size = Cardinality(s)
    BY <2>4
  <2>6. s \in SUBSET places /\ s # {}
    BY <2>5 DEF FoldAlike
  <2>7. Max(s) \in s
    <3>1. s \in SUBSET Nat /\ \A m \in s : m <= n
      BY <2>6
    <3> HIDE DEF differ, sizes
    <3> QED BY <2>6, <3>1, GreatestElement
  <2> DEFINE rest == s \ {Max(s)}
  <2>8. rest \in SUBSET places /\ rest # s /\ rest \subseteq s
    BY <2>6, <2>7
  <2>9. Cardinality(rest) < Cardinality(s)
    <3>1. Cardinality(rest) <= Cardinality(s) /\ Cardinality(rest) # Cardinality(s)
      BY <2>2, <2>6, <2>8, FS_Subset
    <3> QED BY <2>2, <2>6, <2>8, <3>1
  <2>10. rest \notin differ
    <3>1. rest \in differ => Cardinality(rest) \in sizes
      OBVIOUS
    <3> HIDE DEF differ, sizes
    <3>2. rest \in differ => Cardinality(s) <= Cardinality(rest)
      BY <2>4, <2>5, <3>1
    <3> QED BY <2>2, <2>6, <2>8, <2>9, <3>2
  <2>11. f[rest] = g[rest]
    BY <2>8, <2>10
  <2>12. f[s] = g[s]
    BY <2>6, <2>7, <2>11 DEF FoldAlike
  <2> QED BY <2>5, <2>12
<1> QED BY <1>1

\* There is a function that starts with a value and goes on by a step.
Recurs(f, first, step) ==
    f[0] = first /\ \A n \in Nat : f[n + 1] = step[<<f[n], n + 1>>]

\* Any first value and any step have such a function.
LEMMA Recursion ==
    ASSUME NEW V, NEW first \in V, NEW step \in [V \X Nat -> V]
    PROVE  \E f \in [Nat -> V] : Recurs(f, first, step)
<1> DEFINE Begins(n, g) ==
               /\ g \in [0 .. n -> V]
               /\ g[0] = first
               /\ \A m \in 0 .. n - 1 : g[m + 1] = step[<<g[m], m + 1>>]
           missing == {n \in Nat : ~\E g : Begins(n, g)}
<1>1. \A n \in Nat : \E g : Begins(n, g)
  <2> SUFFICES ASSUME missing # {} PROVE FALSE
    OBVIOUS
  <2>1. PICK n \in missing : \A m \in missing : n <= m
    <3>1. missing \in SUBSET Nat
      OBVIOUS
    <3> HIDE DEF missing
    <3> QED BY <3>1, LeastElement
  <2>2. CASE n = 0
    <3>1. Begins(0, [m \in 0 .. 0 |-> first])
      OBVIOUS
    <3> QED BY <2>2, <3>1
  <2>3. CASE n # 0
    <3>1. n - 1 \in Nat /\ n - 1 \notin missing
      BY <2>1, <2>3
    <3>2. PICK g : Begins(n - 1, g)
      BY <3>1
    <3> DEFINE h == [m \in 0 .. n |-> IF m = n THEN step[<<g[n - 1], n>>] ELSE g[m]]
    <3>3. g[n - 1] \in V
      BY <3>1, <3>2
    <3>4. h \in [0 .. n -> V]
      BY <3>1, <3>2, <3>3
    <3>5. h[0] = first
      BY <2>3, <3>1, <3>2
    <3>6. ASSUME NEW m \in 0 .. n - 1
          PROVE  h[m + 1] = step[<<h[m], m + 1>>]
      <4>1. m \in 0 .. n /\ m + 1 \in 0 .. n /\ h[m] = g[m]
        BY <3>1
      <4>2. CASE m = n - 1
        BY <3>1, <4>1, <4>2
      <4>3. CASE m # n - 1
        <5>1. m \in 0 .. n - 1 - 1 /\ m + 1 # n
          BY <3>1, <4>3
        <5>2. g[m + 1] = step[<<g[m], m + 1>>]
          BY <3>2, <5>1
        <5> QED BY <4>1, <5>1, <5>2
      <4> QED BY <4>2, <4>3
    <3>7. Begins(n, h)
      <4> HIDE DEF h
      <4> QED BY <3>4, <3>5, <3>6
    <3> QED BY <3>7
  <2> QED BY <2>2, <2>3
<1>2. ASSUME NEW n \in Nat, NEW g, NEW h, Begins(n, g), Begins(n + 1, h)
      PROVE  g[n] = h[n]
  <2> DEFINE differ == {m \in 0 .. n : g[m] # h[m]}
  <2> SUFFICES ASSUME differ # {} PROVE FALSE
    OBVIOUS
  <2>0. \A k \in 0 .. n - 1 :
           k + 1 \in 0 .. n /\ g[k + 1] = step[<<g[k], k + 1>>] /\ h[k + 1] = step[<<h[k], k + 1>>]
    BY <1>2
  <2>1. PICK m \in differ : \A k \in differ : m <= k
    <3>1. differ \in SUBSET Nat
      OBVIOUS
    <3> HIDE DEF differ
    <3> QED BY <3>1, LeastElement
  <2>2. m # 0
    BY <1>2, <2>1
  <2>3. m - 1 \in 0 .. n - 1 /\ m - 1 \in 0 .. n /\ m - 1 \notin differ
    BY <2>1, <2>2
  <2>4. g[m - 1] = h[m - 1]
    BY <2>3
  <2>5. m - 1 + 1 = m
    BY <2>1
  <2>6. /\ g[m - 1 + 1] = step[<<g[m - 1], m - 1 + 1>>]
        /\ h[m - 1 + 1] = step[<<h[m - 1], m - 1 + 1>>]
    BY <2>0, <2>3
  <2>7. g[m] # h[m]
    BY <2>1
  <2> HIDE DEF differ
  <2> QED BY <2>4, <2>5, <2>6, <2>7
<1> DEFINE begin == [n \in Nat |-> CHOOSE g : Begins(n, g)]
           f == [n \in Nat |-> begin[n][n]]
<1>3. \A n \in Nat : Begins(n, begin[n])
  BY <1>1
<1> HIDE DEF begin
<1>4. f \in [Nat -> V]
  BY <1>3
<1>5. f[0] = first
  BY <1>3
<1>6. ASSUME NEW n \in Nat
      PROVE  f[n + 1] = step[<<f[n], n + 1>>]
  <2>1. Begins(n, begin[n]) /\ Begins(n + 1, begin[n + 1])
    BY <1>3
  <2>2. begin[n][n] = begin[n + 1][n]
    <3> HIDE DEF Begins
    <3> QED BY <1>2, <2>1
  <2>3. begin[n + 1][n + 1] = step[<<begin[n + 1][n], n + 1>>]
    BY <2>1
  <2> QED BY <2>2, <2>3
<1>7. Recurs(f, first, step)
  BY <1>5, <1>6 DEF Recurs
<1> QED BY <1>4, <1>7

\* A function of the sets of positions that a fold in the community modules is:
\* it goes on from the set without its greatest position.
Folds(f, first, step, n) ==
    /\ f[{}] = first
    /\ \A s \in SUBSET (1 .. n) : s # {} => f[s] = step[<<f[s \ {Max(s)}], Max(s)>>]

\* Any first value and any step have such a function.
LEMMA Folding ==
    ASSUME NEW V, NEW first \in V, NEW step \in [V \X Nat -> V], NEW n \in Nat
    PROVE  \E f \in [SUBSET (1 .. n) -> V] : Folds(f, first, step, n)
<1> DEFINE sets == SUBSET (1 .. n)
           W == [sets -> V]
           start == [s \in sets |-> first]
           grow == [x \in W \X Nat |->
                       [s \in sets |-> IF x[2] \in s THEN step[<<x[1][s], x[2]>>] ELSE x[1][s]]]
<1>1. start \in W /\ grow \in [W \X Nat -> W]
  <2>1. ASSUME NEW w \in W, NEW k \in Nat, NEW s \in sets
        PROVE  w[s] \in V /\ step[<<w[s], k>>] \in V
    OBVIOUS
  <2> HIDE DEF sets
  <2> QED BY <2>1
<1>2. PICK g \in [Nat -> W] : Recurs(g, start, grow)
  <2> HIDE DEF W, start, grow
  <2> QED BY <1>1, Recursion
<1> HIDE DEF sets
<1>3. \A k \in Nat : g[k] \in W
  <2> HIDE DEF W
  <2> QED OBVIOUS
<1>4. \A s \in sets : g[0][s] = first
  BY <1>2 DEF Recurs
<1>5. ASSUME NEW k \in Nat, NEW s \in sets
      PROVE  g[k + 1][s] = IF k + 1 \in s THEN step[<<g[k][s], k + 1>>] ELSE g[k][s]
  <2>1. g[k + 1] = grow[<<g[k], k + 1>>]
    BY <1>2 DEF Recurs
  <2>2. <<g[k], k + 1>> \in W \X Nat
    BY <1>3
  <2> HIDE DEF W
  <2> QED BY <2>1, <2>2
<1>6. ASSUME NEW s \in sets, NEW m \in 0 .. n, \A i \in s : i <= m
      PROVE  g[n][s] = g[m][s]
  <2> DEFINE odd == {k \in m .. n : g[k][s] # g[m][s]}
  <2> SUFFICES ASSUME odd # {} PROVE FALSE
    OBVIOUS
  <2>1. PICK k \in odd : \A j \in odd : k <= j
    <3>1. odd \in SUBSET Nat
      OBVIOUS
    <3> HIDE DEF odd
    <3> QED BY <3>1, LeastElement
  <2>2. k # m
    BY <2>1
  <2>3. k - 1 \in Nat /\ k - 1 + 1 = k /\ k - 1 \in m .. n /\ k - 1 \notin odd
    BY <2>1, <2>2
  <2>4. k \notin s
    BY <1>6, <2>1, <2>2
  <2>5. g[k][s] = g[k - 1][s]
    <3>1. g[k - 1 + 1][s] = IF k - 1 + 1 \in s THEN step[<<g[k - 1][s], k - 1 + 1>>] ELSE g[k - 1][s]
      BY <1>5, <2>3
    <3> QED BY <2>3, <2>4, <3>1
  <2> QED BY <2>1, <2>3, <2>5
<1>7. ASSUME NEW s \in sets, NEW m \in s, \A i \in s : i <= m
      PROVE  g[m - 1][s] = g[m - 1][s \ {m}]
  <2> DEFINE odd == {k \in 0 .. m - 1 : g[k][s] # g[k][s \ {m}]}
  <2>0. m \in 1 .. n /\ s \ {m} \in sets /\ m - 1 \in 0 .. m - 1
    <3>1. m \in 1 .. n /\ s \ {m} \in sets
      BY DEF sets
    <3> QED BY <3>1
  <2> SUFFICES ASSUME odd # {} PROVE FALSE
    BY <2>0
  <2>1. PICK k \in odd : \A j \in odd : k <= j
    <3>1. odd \in SUBSET Nat
      OBVIOUS
    <3> HIDE DEF odd
    <3> QED BY <3>1, LeastElement
  <2>2. k # 0
    BY <1>4, <2>0, <2>1
  <2>3. k - 1 \in Nat /\ k - 1 + 1 = k /\ k - 1 \in 0 .. m - 1 /\ k - 1 \notin odd
    <3>1. k \in 0 .. m - 1 /\ ~(k <= k - 1)
      BY <2>0, <2>1
    <3>2. k - 1 \in 0 .. m - 1 /\ k - 1 + 1 = k
      BY <2>0, <2>2, <3>1
    <3> HIDE DEF odd
    <3> QED BY <2>1, <3>1, <3>2
  <2>4. k \in s <=> k \in s \ {m}
    BY <2>0, <2>1
  <2>5. g[k - 1][s] = g[k - 1][s \ {m}]
    BY <2>3
  <2>6. /\ g[k][s] = IF k \in s THEN step[<<g[k - 1][s], k>>] ELSE g[k - 1][s]
        /\ g[k][s \ {m}] = IF k \in s \ {m} THEN step[<<g[k - 1][s \ {m}], k>>] ELSE g[k - 1][s \ {m}]
    <3>1. /\ g[k - 1 + 1][s] = IF k - 1 + 1 \in s THEN step[<<g[k - 1][s], k - 1 + 1>>] ELSE g[k - 1][s]
          /\ g[k - 1 + 1][s \ {m}] = IF k - 1 + 1 \in s \ {m}
                                     THEN step[<<g[k - 1][s \ {m}], k - 1 + 1>>] ELSE g[k - 1][s \ {m}]
      BY <1>5, <2>0, <2>3
    <3> QED BY <2>3, <3>1
  <2> QED BY <2>1, <2>4, <2>5, <2>6
<1> DEFINE f == g[n]
<1>8. f \in W
  BY <1>3
<1>9. f[{}] = first
  <2>1. {} \in sets /\ 0 \in 0 .. n
    BY DEF sets
  <2>2. g[n][{}] = g[0][{}]
    BY <1>6, <2>1
  <2> QED BY <1>4, <2>1, <2>2
<1>10. ASSUME NEW s \in SUBSET (1 .. n), s # {}
       PROVE  f[s] = step[<<f[s \ {Max(s)}], Max(s)>>]
  <2>1. Max(s) \in s /\ \A i \in s : i <= Max(s)
    <3>1. s \in SUBSET Nat /\ \A i \in s : i <= n
      OBVIOUS
    <3> QED BY <1>10, <3>1, GreatestElement
  <2> DEFINE m == Max(s)
  <2> HIDE DEF m
  <2>2. /\ m \in s /\ \A i \in s : i <= m
        /\ m \in 1 .. n /\ m \in 0 .. n /\ m - 1 \in 0 .. n /\ m - 1 \in Nat /\ m - 1 + 1 = m
        /\ s \in sets /\ s \ {m} \in sets
        /\ \A i \in s \ {m} : i <= m - 1
    <3>1. m \in s /\ \A i \in s : i <= m
      BY <2>1 DEF m
    <3>2. s \in sets /\ s \ {m} \in sets
      BY DEF sets
    <3>3. m \in 1 .. n
      BY <3>1
    <3>4. \A i \in s \ {m} : i <= m - 1
      BY <3>1, <3>3
    <3>5. m \in 0 .. n /\ m - 1 \in 0 .. n /\ m - 1 \in Nat /\ m - 1 + 1 = m
      BY <3>3
    <3> QED BY <3>1, <3>2, <3>3, <3>4, <3>5
  <2>3. f[s] = g[m][s]
    BY <1>6, <2>2
  <2>4. g[m][s] = step[<<g[m - 1][s], m>>]
    <3>1. g[m - 1 + 1][s] = IF m - 1 + 1 \in s THEN step[<<g[m - 1][s], m - 1 + 1>>] ELSE g[m - 1][s]
      BY <1>5, <2>2
    <3> QED BY <2>2, <3>1
  <2>5. g[m - 1][s] = g[m - 1][s \ {m}]
    BY <1>7, <2>2
  <2>6. f[s \ {m}] = g[m - 1][s \ {m}]
    BY <1>6, <2>2
  <2> QED BY <2>3, <2>4, <2>5, <2>6 DEF m
<1>11. Folds(f, first, step, n)
  BY <1>9, <1>10 DEF Folds
<1> HIDE DEF f
<1> QED BY <1>8, <1>11 DEF sets

\* The greatest of the first positions is the last of them.
LEMMA GreatestOfFirst ==
    ASSUME NEW n \in Nat, NEW k \in 1 .. n
    PROVE  Max(1 .. k) = k /\ (1 .. k) \ {k} = 1 .. k - 1
<1> DEFINE m == Max(1 .. k)
<1>1. m \in 1 .. k /\ \A i \in 1 .. k : i <= m
  <2>1. k \in Nat /\ k \in 1 .. k
    OBVIOUS
  <2>2. 1 .. k \in SUBSET Nat /\ 1 .. k # {} /\ \A i \in 1 .. k : i <= k
    BY <2>1
  <2> QED BY <2>1, <2>2, GreatestElement
<1> HIDE DEF m
<1>2. m = k
  BY <1>1
<1>3. (1 .. k) \ {k} = 1 .. k - 1
  OBVIOUS
<1> QED BY <1>2, <1>3 DEF m

\* Over the positions of a sequence it goes on in their order.
FoldsUp(f, step, n) == \A k \in 1 .. n : f[1 .. k] = step[<<f[1 .. k - 1], k>>]

LEMMA FoldsInOrder ==
    ASSUME NEW f, NEW first, NEW step, NEW n \in Nat, Folds(f, first, step, n)
    PROVE  FoldsUp(f, step, n)
<1> SUFFICES ASSUME NEW k \in 1 .. n
             PROVE  f[1 .. k] = step[<<f[1 .. k - 1], k>>]
  BY DEF FoldsUp
<1>1. 1 .. k \in SUBSET (1 .. n) /\ 1 .. k # {}
  OBVIOUS
<1>2. Max(1 .. k) = k /\ (1 .. k) \ {k} = 1 .. k - 1
  BY GreatestOfFirst
<1> QED BY <1>1, <1>2 DEF Folds

-----------------------------------------------------------------------------
(* Sequences. *)

\* The elements of two sequences put together.
LEMMA Concatenated ==
    ASSUME NEW S, NEW s \in Seq(S), NEW t \in Seq(S)
    PROVE  /\ s \o t \in Seq(S)
           /\ Len(s) \in Nat /\ Len(t) \in Nat
           /\ Len(s \o t) = Len(s) + Len(t)
           /\ \A i \in 1 .. Len(s) : (s \o t)[i] = s[i]
           /\ \A k \in 1 .. Len(t) : (s \o t)[Len(s) + k] = t[k]
<1>1. /\ s \o t \in Seq(S)
      /\ Len(s) \in Nat /\ Len(t) \in Nat
      /\ Len(s \o t) = Len(s) + Len(t)
  BY ConcatProperties, LenProperties
<1>2. \A i \in 1 .. Len(s) + Len(t) :
         (s \o t)[i] = IF i <= Len(s) THEN s[i] ELSE t[i - Len(s)]
  BY ConcatProperties
<1>3. \A i \in 1 .. Len(s) : (s \o t)[i] = s[i]
  BY <1>1, <1>2
<1>4. ASSUME NEW k \in 1 .. Len(t)
      PROVE  (s \o t)[Len(s) + k] = t[k]
  <2>1. /\ Len(s) + k \in 1 .. Len(s) + Len(t)
        /\ ~(Len(s) + k <= Len(s))
        /\ Len(s) + k - Len(s) = k
    BY <1>1
  <2>2. (s \o t)[Len(s) + k] = t[Len(s) + k - Len(s)]
    BY <1>2, <2>1
  <2> QED BY <2>1, <2>2
<1> QED BY <1>1, <1>3, <1>4

\* A sequence of anything, with one element more.
LEMMA Appended ==
    ASSUME NEW s, s \in Seq(Range(s)), NEW e
    PROVE  /\ Append(s, e) \in Seq(Range(Append(s, e)))
           /\ Len(s) \in Nat
           /\ Len(Append(s, e)) = Len(s) + 1
           /\ \A i \in 1 .. Len(s) : Append(s, e)[i] = s[i]
           /\ Append(s, e)[Len(s) + 1] = e
<1> DEFINE S == Range(s) \cup {e}
           t == Append(s, e)
<1>1. s \in Seq(S)
  <2>1. Range(s) \subseteq S
    OBVIOUS
  <2>2. Len(s) \in Nat /\ s \in [1 .. Len(s) -> Range(s)]
    OBVIOUS
  <2> HIDE DEF S
  <2> QED BY <2>1, <2>2
<1> HIDE DEF S
<1>2. /\ t \in Seq(S)
      /\ Len(s) \in Nat
      /\ Len(t) = Len(s) + 1
      /\ \A i \in 1 .. Len(s) : t[i] = s[i]
      /\ t[Len(s) + 1] = e
  BY <1>1, AppendProperties DEF S
<1>3. t \in Seq(Range(t))
  <2> HIDE DEF t
  <2>1. Len(t) \in Nat /\ t \in [1 .. Len(t) -> S]
    BY <1>2, LenProperties
  <2>2. \A i \in 1 .. Len(t) : t[i] \in Range(t)
    BY <2>1 DEF Range
  <2>3. t \in [1 .. Len(t) -> Range(t)]
    BY <2>1, <2>2
  <2> QED BY <2>1, <2>3
<1> QED BY <1>2, <1>3

\* The prefixes of a sequence of sequences, flattened: each is the one before with
\* the next sequence put behind.
LEMMA FlattenedSteps ==
    ASSUME NEW S, NEW seqs \in Seq(Seq(S)), Len(seqs) # 0
    PROVE  \E f \in [1 .. Len(seqs) -> Seq(S)] :
               /\ FlattenSeq(seqs) = f[Len(seqs)]
               /\ \A i \in 1 .. Len(seqs) : f[i] = IF i = 1 THEN seqs[i] ELSE f[i - 1] \o seqs[i]
<1> DEFINE n == Len(seqs)
           Equation(f) == f = [i \in 1 .. n |-> IF i = 1 THEN seqs[i] ELSE f[i - 1] \o seqs[i]]
<1>0. n \in Nat /\ n # 0
  OBVIOUS
<1> DEFINE V == Seq(S)
           step == [x \in V \X Nat |->
                       IF x[2] + 1 \in 1 .. n THEN x[1] \o seqs[x[2] + 1] ELSE x[1]]
<1>1. \A i \in 1 .. n : seqs[i] \in V
  OBVIOUS
<1>2. seqs[1] \in V /\ step \in [V \X Nat -> V]
  <2>1. \A s, t \in V : s \o t \in V
    OBVIOUS
  <2> HIDE DEF V
  <2> QED BY <1>0, <1>0, <1>1, <2>1
<1>3. PICK g \in [Nat -> V] : Recurs(g, seqs[1], step)
  <2> HIDE DEF V, step
  <2> QED BY <1>2, Recursion
<1> DEFINE f == [i \in 1 .. n |-> g[i - 1]]
<1>4. Equation(f)
  <2>1. ASSUME NEW i \in 1 .. n, i # 1
        PROVE  f[i] = f[i - 1] \o seqs[i]
    <3>1. i - 2 \in Nat /\ i - 2 + 1 = i - 1 /\ i - 1 \in 1 .. n /\ i - 1 + 1 = i
      BY <1>0, <2>1
    <3>2. g[i - 2 + 1] = step[<<g[i - 2], i - 2 + 1>>]
      BY <1>3, <3>1 DEF Recurs
    <3>3. step[<<g[i - 2], i - 1>>] = g[i - 2] \o seqs[i]
      <4> HIDE DEF V
      <4>1. g[i - 2] \in V /\ i - 1 \in Nat
        BY <1>0, <3>1
      <4> QED BY <3>1, <4>1
    <3>4. f[i] = g[i - 1] /\ f[i - 1] = g[i - 2]
      BY <3>1
    <3> QED BY <3>1, <3>2, <3>3, <3>4
  <2>2. f[1] = seqs[1]
    <3>1. 1 \in 1 .. n /\ 1 - 1 = 0
      BY <1>0, <1>0
    <3>2. g[0] = seqs[1]
      BY <1>3 DEF Recurs
    <3> QED BY <3>1, <3>2
  <2> QED BY <2>1, <2>2
<1> DEFINE flatten == CHOOSE h : Equation(h)
<1>5. Equation(flatten)
  <2> HIDE DEF Equation
  <2> QED BY <1>4
<1>6. FlattenSeq(seqs) = flatten[n]
  BY <1>0 DEF FlattenSeq
<1> HIDE DEF flatten
<1>7. \A i \in 1 .. n : flatten[i] = IF i = 1 THEN seqs[i] ELSE flatten[i - 1] \o seqs[i]
  BY <1>5
<1> DEFINE other == {i \in 1 .. n : flatten[i] \notin V}
<1>8. other = {}
  <2> SUFFICES ASSUME other # {} PROVE FALSE
    OBVIOUS
  <2>1. PICK i \in other : \A j \in other : i <= j
    <3>1. other \in SUBSET Nat
      BY <1>0
    <3> HIDE DEF other
    <3> QED BY <3>1, LeastElement
  <2>2. i # 1
    BY <1>1, <1>7, <2>1
  <2>3. i - 1 \in 1 .. n /\ i - 1 \notin other
    <3>1. i - 1 \in 1 .. n /\ ~(i <= i - 1)
      BY <1>0, <2>1, <2>2
    <3> HIDE DEF other
    <3> QED BY <2>1, <3>1
  <2>4. flatten[i] = flatten[i - 1] \o seqs[i] /\ flatten[i - 1] \in V /\ seqs[i] \in V
    BY <1>1, <1>7, <2>1, <2>2, <2>3
  <2>5. flatten[i] \in V
    BY <2>4
  <2> QED BY <2>1, <2>5
<1>9. flatten \in [1 .. n -> Seq(S)]
  <2>1. DOMAIN flatten = 1 .. n /\ flatten = [i \in 1 .. n |-> flatten[i]]
    BY <1>5
  <2>2. \A i \in 1 .. n : flatten[i] \in Seq(S)
    BY <1>8
  <2> QED BY <2>1, <2>2
<1> QED BY <1>6, <1>7, <1>9

\* FlattenSeq keeps the elements' type.
LEMMA FlattenedType ==
    ASSUME NEW S, NEW seqs \in Seq(Seq(S))
    PROVE  FlattenSeq(seqs) \in Seq(S)
<1>1. Len(seqs) \in Nat
  OBVIOUS
<1>2. CASE Len(seqs) = 0
  <2>1. seqs = <<>>
    BY <1>2, EmptySeq
  <2> QED BY <1>2, <2>1 DEF FlattenSeq
<1>3. CASE Len(seqs) # 0
  <2>1. Len(seqs) \in 1 .. Len(seqs)
    BY <1>1, <1>3
  <2> QED BY <1>3, <2>1, FlattenedSteps
<1> QED BY <1>2, <1>3

\* A sequence with the function m applied to each of its elements.
Through(m, s) == [i \in DOMAIN s |-> m[s[i]]]
Maps(m, S, T) == m \in [S -> T]

LEMMA ThroughType ==
    ASSUME NEW S, NEW T, NEW m, Maps(m, S, T), NEW s \in Seq(S)
    PROVE  /\ Through(m, s) \in Seq(T)
           /\ Len(Through(m, s)) = Len(s)
           /\ DOMAIN Through(m, s) = 1 .. Len(s)
           /\ \A i \in 1 .. Len(s) : Through(m, s)[i] = m[s[i]]
<1>1. Len(s) \in Nat /\ DOMAIN s = 1 .. Len(s) /\ \A i \in 1 .. Len(s) : s[i] \in S
  OBVIOUS
<1>2. \A i \in 1 .. Len(s) : m[s[i]] \in T
  BY <1>1 DEF Maps
<1> QED BY <1>1, <1>2 DEF Through, Maps

LEMMA ThroughConcatenated ==
    ASSUME NEW S, NEW T, NEW m, Maps(m, S, T), NEW s \in Seq(S), NEW t \in Seq(S)
    PROVE  Through(m, s \o t) = Through(m, s) \o Through(m, t)
<1> DEFINE both == s \o t
           whole == Through(m, both)
           first == Through(m, s)
           rest == Through(m, t)
           parts == first \o rest
<1>1. /\ both \in Seq(S) /\ Len(both) = Len(s) + Len(t)
      /\ \A i \in 1 .. Len(s) : both[i] = s[i]
      /\ \A i \in 1 .. Len(t) : both[Len(s) + i] = t[i]
  BY Concatenated
<1> HIDE DEF both
<1>2. first \in Seq(T) /\ Len(first) = Len(s) /\ \A i \in 1 .. Len(s) : first[i] = m[s[i]]
  BY ThroughType
<1>3. rest \in Seq(T) /\ Len(rest) = Len(t) /\ \A i \in 1 .. Len(t) : rest[i] = m[t[i]]
  BY ThroughType
<1>4. whole \in Seq(T) /\ Len(whole) = Len(both) /\ \A i \in 1 .. Len(both) : whole[i] = m[both[i]]
  BY <1>1, ThroughType
<1> HIDE DEF first, rest, whole
<1>5. /\ parts \in Seq(T) /\ Len(parts) = Len(first) + Len(rest)
      /\ \A i \in 1 .. Len(first) : parts[i] = first[i]
      /\ \A i \in 1 .. Len(rest) : parts[Len(first) + i] = rest[i]
  <2>1. first \in Seq(T) /\ rest \in Seq(T)
    BY <1>2, <1>3
  <2> QED BY <2>1, Concatenated
<1> HIDE DEF parts
<1>6. Len(s) \in Nat /\ Len(t) \in Nat
  OBVIOUS
<1> DEFINE k == Len(s)
           l == Len(t)
<1>7. /\ k \in Nat /\ l \in Nat /\ Len(whole) = k + l
      /\ \A i \in 1 .. k : both[i] = s[i]
      /\ \A i \in 1 .. l : both[k + i] = t[i]
      /\ \A i \in 1 .. k : first[i] = m[s[i]]
      /\ \A i \in 1 .. l : rest[i] = m[t[i]]
      /\ \A i \in 1 .. k + l : whole[i] = m[both[i]]
      /\ Len(parts) = k + l
      /\ \A i \in 1 .. k : parts[i] = first[i]
      /\ \A i \in 1 .. l : parts[k + i] = rest[i]
  BY <1>1, <1>2, <1>3, <1>4, <1>5, <1>6
<1> HIDE DEF k, l
<1>8. ASSUME NEW i \in 1 .. k + l PROVE whole[i] = parts[i]
  <2>1. CASE i \in 1 .. k
    <3>1. whole[i] = m[both[i]] /\ both[i] = s[i]
      BY <1>7, <2>1
    <3>2. parts[i] = first[i] /\ first[i] = m[s[i]]
      BY <1>7, <2>1
    <3> QED BY <3>1, <3>2
  <2>2. CASE i \notin 1 .. k
    <3>1. i - k \in 1 .. l /\ i = k + (i - k)
      BY <1>7, <2>2
    <3> DEFINE d == i - k
    <3>2. d \in 1 .. l /\ i = k + d
      BY <3>1
    <3> HIDE DEF d
    <3>3. parts[i] = m[t[d]] /\ both[i] = t[d]
      BY <1>7, <3>2
    <3> QED BY <1>7, <3>3
  <2> QED BY <2>1, <2>2
<1>9. whole = parts
  <2>1. Len(whole) = Len(parts) /\ \A i \in 1 .. Len(whole) : whole[i] = parts[i]
    BY <1>7, <1>8
  <2> QED BY <1>4, <1>5, <2>1, SeqEqual
<1> QED BY <1>9 DEF whole, parts, first, rest, both

\* Mapping the elements of the sequences maps those of the flattened sequence.
LEMMA FlattenedThrough ==
    ASSUME NEW S, NEW T, NEW m, Maps(m, S, T), NEW seqs \in Seq(Seq(S))
    PROVE  FlattenSeq([k \in DOMAIN seqs |-> Through(m, seqs[k])]) = Through(m, FlattenSeq(seqs))
<1>0. \A x, y \in Seq(S) : Through(m, x \o y) = Through(m, x) \o Through(m, y)
  BY ThroughConcatenated
<1> DEFINE n == Len(seqs)
           mapped == [k \in DOMAIN seqs |-> Through(m, seqs[k])]
<1>1. n \in Nat /\ DOMAIN seqs = 1 .. n /\ \A k \in 1 .. n : seqs[k] \in Seq(S)
  OBVIOUS
<1>2. mapped \in Seq(Seq(T)) /\ Len(mapped) = n /\ \A k \in 1 .. n : mapped[k] = Through(m, seqs[k])
  <2>1. \A k \in 1 .. n : Through(m, seqs[k]) \in Seq(T)
    BY <1>1, ThroughType
  <2> DEFINE V == Seq(T)
             At(k) == Through(m, seqs[k])
  <2>2. \A k \in 1 .. n : At(k) \in V
    BY <2>1
  <2>3. mapped = [k \in 1 .. n |-> At(k)]
    BY <1>1
  <2> HIDE DEF V, At, mapped
  <2>4. mapped \in Seq(V) /\ Len(mapped) = n /\ \A k \in 1 .. n : mapped[k] = At(k)
    BY <1>1, <2>2, <2>3
  <2> QED BY <2>4 DEF V, At
<1> HIDE DEF mapped
<1>3. CASE n = 0
  <2>1. seqs = <<>> /\ mapped = <<>>
    BY <1>2, <1>3, EmptySeq
  <2>2. FlattenSeq(seqs) = <<>> /\ FlattenSeq(mapped) = <<>>
    BY <2>1 DEF FlattenSeq
  <2>3. Through(m, <<>>) = <<>>
    BY DEF Through
  <2> QED BY <2>2, <2>3 DEF mapped
<1>4. CASE n # 0
  <2>1. PICK f \in [1 .. n -> Seq(S)] :
           /\ FlattenSeq(seqs) = f[n]
           /\ \A i \in 1 .. n : f[i] = IF i = 1 THEN seqs[i] ELSE f[i - 1] \o seqs[i]
    BY <1>4, FlattenedSteps
  <2>2. PICK g \in [1 .. n -> Seq(T)] :
           /\ FlattenSeq(mapped) = g[n]
           /\ \A i \in 1 .. n : g[i] = IF i = 1 THEN mapped[i] ELSE g[i - 1] \o mapped[i]
    <3>1. Len(mapped) # 0 /\ mapped \in Seq(Seq(T)) /\ Len(mapped) = n
      BY <1>2, <1>4
    <3> HIDE DEF n
    <3>2. \E g \in [1 .. Len(mapped) -> Seq(T)] :
             /\ FlattenSeq(mapped) = g[Len(mapped)]
             /\ \A i \in 1 .. Len(mapped) : g[i] = IF i = 1 THEN mapped[i] ELSE g[i - 1] \o mapped[i]
      BY <3>1, FlattenedSteps
    <3> QED BY <3>1, <3>2
  <2> DEFINE other == {i \in 1 .. n : g[i] # Through(m, f[i])}
  <2>3. other = {}
    <3> SUFFICES ASSUME other # {} PROVE FALSE
      OBVIOUS
    <3>1. PICK i \in other : \A j \in other : i <= j
      <4>1. other \in SUBSET Nat
        BY <1>1
      <4> HIDE DEF other
      <4> QED BY <4>1, LeastElement
    <3>2. i # 1
      BY <1>2, <2>1, <2>2, <3>1
    <3>3. i - 1 \in 1 .. n /\ g[i - 1] = Through(m, f[i - 1])
      <4>1. i - 1 \in 1 .. n /\ ~(i <= i - 1)
        BY <1>1, <3>1, <3>2
      <4>2. i - 1 \notin other
        <5> HIDE DEF other
        <5> QED BY <3>1, <4>1
      <4> QED BY <4>1, <4>2
    <3> DEFINE before == f[i - 1]
               next == seqs[i]
    <3>4. f[i] = before \o next /\ before \in Seq(S) /\ next \in Seq(S) /\ g[i - 1] = Through(m, before)
      BY <1>1, <2>1, <3>1, <3>2, <3>3
    <3>5. g[i] = g[i - 1] \o mapped[i] /\ mapped[i] = Through(m, next)
      BY <1>2, <2>2, <3>1, <3>2
    <3> HIDE DEF before, next
    <3>6. Through(m, before \o next) = Through(m, before) \o Through(m, next)
      <4>1. before \in Seq(S) /\ next \in Seq(S)
        BY <3>4
      <4> QED BY <1>0, <4>1
    <3> QED BY <3>1, <3>4, <3>5, <3>6
  <2>4. n \in 1 .. n
    BY <1>1, <1>4
  <2> QED BY <2>1, <2>2, <2>3, <2>4 DEF mapped
<1> QED BY <1>3, <1>4

-----------------------------------------------------------------------------
(* Positions. *)

\* The set R of pairs <<x, y>>, x before y, orders S.
StrictOrder(R, S) ==
    /\ \A x \in S : <<x, x>> \notin R
    /\ \A x, y, z \in S : <<x, y>> \in R /\ <<y, z>> \in R => <<x, z>> \in R
    /\ \A x, y \in S : x # y => <<x, y>> \in R \/ <<y, x>> \in R

\* How many elements of S come before x.
Preceding(R, S, x) == Cardinality({y \in S : <<y, x>> \in R})

\* Elements have as many before them as their order says, and every number
\* below the size of the set is taken.
Enumerates(R, S) ==
    /\ \A x \in S : Preceding(R, S, x) \in 0 .. Cardinality(S) - 1
    /\ \A x, y \in S : <<x, y>> \in R => Preceding(R, S, x) < Preceding(R, S, y)
    /\ \A x, y \in S : Preceding(R, S, x) = Preceding(R, S, y) => x = y
    /\ \A k \in 0 .. Cardinality(S) - 1 : \E x \in S : Preceding(R, S, x) = k

\* A strict order of a finite set enumerates it.
LEMMA BelowIsPosition ==
    ASSUME NEW S, NEW R, IsFiniteSet(S), StrictOrder(R, S)
    PROVE  Cardinality(S) \in Nat /\ Enumerates(R, S)
<1> DEFINE Earlier(x) == {y \in S : <<y, x>> \in R}
           n == Cardinality(S)
<1>1. n \in Nat
  BY FS_CardinalityType
<1>2. ASSUME NEW x \in S
      PROVE  /\ IsFiniteSet(Earlier(x))
             /\ Preceding(R, S, x) \in Nat
             /\ Preceding(R, S, x) \in 0 .. n - 1
  <2>1. Earlier(x) \in SUBSET S /\ S # Earlier(x)
    BY DEF StrictOrder
  <2>2. /\ IsFiniteSet(Earlier(x))
        /\ Cardinality(Earlier(x)) <= n
        /\ n # Cardinality(Earlier(x))
    BY <2>1, FS_Subset
  <2>3. Cardinality(Earlier(x)) \in Nat
    BY <2>2, FS_CardinalityType
  <2>4. Cardinality(Earlier(x)) \in 0 .. n - 1
    BY <1>1, <2>2, <2>3
  <2> QED BY <2>2, <2>3, <2>4 DEF Preceding
<1>3. ASSUME NEW x \in S, NEW y \in S, <<x, y>> \in R
      PROVE  Preceding(R, S, x) < Preceding(R, S, y)
  <2>1. x \in Earlier(y) /\ x \notin Earlier(x)
    BY <1>3 DEF StrictOrder
  <2>2. \A z \in Earlier(x) : z \in Earlier(y)
    BY <1>3 DEF StrictOrder
  <2>3. Earlier(x) \in SUBSET Earlier(y) /\ Earlier(y) # Earlier(x)
    BY <2>1, <2>2
  <2>4. IsFiniteSet(Earlier(y))
    BY <1>2
  <2>5. /\ Cardinality(Earlier(x)) <= Cardinality(Earlier(y))
        /\ Cardinality(Earlier(y)) # Cardinality(Earlier(x))
    BY <2>3, <2>4, FS_Subset
  <2>6. Preceding(R, S, x) \in Nat /\ Preceding(R, S, y) \in Nat
    BY <1>1, <1>2
  <2>7. /\ Preceding(R, S, x) = Cardinality(Earlier(x))
        /\ Preceding(R, S, y) = Cardinality(Earlier(y))
    BY DEF Preceding
  <2> HIDE DEF Earlier
  <2> QED BY <2>5, <2>6, <2>7
<1>4. ASSUME NEW x \in S, NEW y \in S, Preceding(R, S, x) = Preceding(R, S, y)
      PROVE  x = y
  <2> SUFFICES ASSUME x # y PROVE FALSE
    OBVIOUS
  <2>1. Preceding(R, S, x) \in Nat /\ Preceding(R, S, y) \in Nat
    BY <1>1, <1>2
  <2>2. CASE <<x, y>> \in R
    <3>1. Preceding(R, S, x) < Preceding(R, S, y)
      BY <2>2, <1>3
    <3> QED BY <1>4, <2>1, <3>1
  <2>3. CASE <<y, x>> \in R
    <3>1. Preceding(R, S, y) < Preceding(R, S, x)
      BY <2>3, <1>3
    <3> QED BY <1>4, <2>1, <3>1
  <2> QED BY <2>2, <2>3 DEF StrictOrder
<1>5. \A k \in 0 .. n - 1 : \E x \in S : Preceding(R, S, x) = k
  <2> DEFINE position == [x \in S |-> Preceding(R, S, x)]
  <2>1. position \in [S -> 0 .. n - 1]
    BY <1>2
  <2>2. \A x, y \in S : position[x] = position[y] => x = y
    BY <1>4
  <2>3. position \in Injection(S, 0 .. n - 1)
    BY <2>1, <2>2 DEF Injection, IsInjective
  <2>4. IsFiniteSet(0 .. n - 1) /\ Cardinality(0 .. n - 1) = n
    <3>0. 0 \in Int /\ n - 1 \in Int
      BY <1>1
    <3> HIDE DEF n, position
    <3>1. /\ IsFiniteSet(0 .. n - 1)
          /\ Cardinality(0 .. n - 1) = IF 0 > n - 1 THEN 0 ELSE n - 1 - 0 + 1
      BY <3>0, FS_Interval
    <3> QED BY <1>1, <3>1
  <2>5. position \in Surjection(S, 0 .. n - 1)
    BY <2>3, <2>4, FS_Injection
  <2> QED BY <2>5 DEF Surjection
<1> QED BY <1>1, <1>2, <1>3, <1>4, <1>5 DEF Enumerates

-----------------------------------------------------------------------------
(* Prefixes. *)

\* Pow2 is what its recursion says.
LEMMA PowersOfTwo ==
    /\ Pow2[0] = 1
    /\ \A n \in Nat : Pow2[n] \in Nat \ {0} /\ Pow2[n + 1] = 2 * Pow2[n]
<1> DEFINE V == Nat \ {0}
           step == [x \in V \X Nat |-> 2 * x[1]]
           Equation(f) == f = [n \in Nat |-> IF n = 0 THEN 1 ELSE 2 * f[n - 1]]
<1>1. step \in [V \X Nat -> V] /\ 1 \in V
  OBVIOUS
<1>2. PICK f \in [Nat -> V] : Recurs(f, 1, step)
  <2> HIDE DEF step, V
  <2> QED BY <1>1, Recursion
<1>3. Equation(f)
  <2>1. ASSUME NEW n \in Nat, n # 0
        PROVE  f[n] = 2 * f[n - 1]
    <3>1. n - 1 \in Nat /\ n - 1 + 1 = n
      BY <2>1
    <3>2. f[n - 1 + 1] = step[<<f[n - 1], n - 1 + 1>>]
      BY <1>2, <3>1 DEF Recurs
    <3> QED BY <1>2, <3>1, <3>2
  <2> QED BY <1>2, <2>1 DEF Recurs
<1>4. Equation(Pow2)
  <2>1. Pow2 = CHOOSE g : Equation(g)
    BY DEF Pow2
  <2> HIDE DEF Equation
  <2> QED BY <1>3, <2>1
<1>5. Pow2[0] = 1 /\ \A n \in Nat : n # 0 => Pow2[n] = 2 * Pow2[n - 1]
  BY <1>4
<1>6. \A n \in Nat : Pow2[n + 1] = 2 * Pow2[n]
  <2> TAKE n \in Nat
  <2>1. n + 1 \in Nat /\ n + 1 # 0 /\ n + 1 - 1 = n
    OBVIOUS
  <2>2. Pow2[n + 1] = 2 * Pow2[n + 1 - 1]
    BY <1>5, <2>1
  <2> QED BY <2>1, <2>2
<1>7. \A n \in Nat : Pow2[n] \in Nat \ {0}
  <2> DEFINE odd == {n \in Nat : Pow2[n] \notin Nat \ {0}}
  <2> SUFFICES ASSUME odd # {} PROVE FALSE
    OBVIOUS
  <2>1. PICK n \in odd : \A m \in odd : n <= m
    <3>1. odd \in SUBSET Nat
      OBVIOUS
    <3> HIDE DEF odd
    <3> QED BY <3>1, LeastElement
  <2>2. n # 0
    BY <1>5, <2>1
  <2>3. n - 1 \in Nat /\ n - 1 \notin odd
    BY <2>1, <2>2
  <2>4. Pow2[n - 1] \in Nat \ {0}
    BY <2>3
  <2>5. Pow2[n] = 2 * Pow2[n - 1]
    BY <1>5, <2>1, <2>2
  <2>6. Pow2[n] \in Nat \ {0}
    BY <2>4, <2>5
  <2> QED BY <2>1, <2>6
<1> QED BY <1>5, <1>6, <1>7

\* A prefix of any length spans an address at least.
LEMMA SpanType ==
    ASSUME NEW bits \in 0 .. Width
    PROVE  Span(bits) \in Nat \ {0}
<1>1. Width - bits \in Nat
  BY WidthAssumption
<1> QED BY <1>1, PowersOfTwo DEF Span

\* A normalised prefix starts at a multiple of its span.
LEMMA PrefixType ==
    ASSUME NEW p \in Prefix
    PROVE  /\ p = [key |-> p.key, bits |-> p.bits]
           /\ p.key \in Nat
           /\ p.bits \in 0 .. Width
           /\ \E k \in Nat : p.key = k * Span(p.bits)
<1>1. PICK key \in Addr, bits \in 0 .. Width :
         p = [key |-> key - (key % Span(bits)), bits |-> bits]
  BY DEF Prefix, Masked
<1>2. key \in Nat
  <2>1. Pow2[Width] \in Nat
    BY PowersOfTwo, WidthAssumption
  <2> QED BY <2>1 DEF Addr
<1>3. Span(bits) \in Nat \ {0}
  BY SpanType
<1>4. /\ key \div Span(bits) \in Nat
      /\ key % Span(bits) \in 0 .. Span(bits) - 1
      /\ key = (key \div Span(bits)) * Span(bits) + (key % Span(bits))
  BY <1>2, <1>3, DivisionWithRemainder
<1>5. key - (key % Span(bits)) = (key \div Span(bits)) * Span(bits)
  BY <1>2, <1>3, <1>4
<1>6. (key \div Span(bits)) * Span(bits) \in Nat
  BY <1>3, <1>4
<1> QED BY <1>1, <1>4, <1>5, <1>6

\* A family has finitely many prefixes.
LEMMA PrefixesAreFinite == IsFiniteSet(Prefix)
<1> DEFINE pairs == Addr \X (0 .. Width)
           f == [x \in pairs |-> Masked(x[1], x[2])]
<1>1. IsFiniteSet(Addr) /\ IsFiniteSet(0 .. Width)
  <2>1. Pow2[Width] \in Nat /\ Width \in Nat
    BY PowersOfTwo, WidthAssumption
  <2>2. 0 \in Int /\ Width \in Int /\ Pow2[Width] - 1 \in Int
    BY <2>1
  <2>3. IsFiniteSet(0 .. Width) /\ IsFiniteSet(0 .. Pow2[Width] - 1)
    BY <2>2, FS_Interval
  <2> QED BY <2>3 DEF Addr
<1>2. IsFiniteSet(pairs)
  BY <1>1, FS_Product
<1>3. f \in Surjection(pairs, Prefix)
  <2>1. f \in [pairs -> Prefix]
    BY DEF Prefix
  <2>2. ASSUME NEW p \in Prefix PROVE \E x \in pairs : f[x] = p
    <3>1. PICK key \in Addr, bits \in 0 .. Width : p = Masked(key, bits)
      BY DEF Prefix
    <3>2. <<key, bits>> \in pairs /\ f[<<key, bits>>] = p
      BY <3>1
    <3> QED BY <3>2
  <2> HIDE DEF pairs, f
  <2> QED BY <2>1, <2>2 DEF Surjection
<1> HIDE DEF pairs, f
<1> QED BY <1>2, <1>3, FS_Surjection

-----------------------------------------------------------------------------
\* The positions of the prefixes of a set in the order of sort.Slice.
Ranked(S) ==
    /\ \A p \in S : Rank(S, p) \in 1 .. Cardinality(S)
    /\ \A p, q \in S : Rank(S, p) = Rank(S, q) => p = q
    /\ \A k \in 1 .. Cardinality(S) : \E p \in S : Rank(S, p) = k

\* buildGeneration numbers the prefixes of a finite set from 1, without a gap and
\* without giving a number twice.
LEMMA RanksAreDense ==
    ASSUME NEW S \in SUBSET Prefix, IsFiniteSet(S)
    PROVE  Cardinality(S) \in Nat /\ Ranked(S)
<1> DEFINE R == {pair \in S \X S : Before(pair[1], pair[2])}
<1>1. \A p \in S : p.key \in Nat /\ p.bits \in Nat /\ p = [key |-> p.key, bits |-> p.bits]
  BY PrefixType, WidthAssumption
<1>2. \A p, q \in S : <<p, q>> \in R <=> Before(p, q)
  OBVIOUS
<1> HIDE DEF R
<1>3. StrictOrder(R, S)
  <2>1. \A p \in S : <<p, p>> \notin R
    BY <1>1, <1>2 DEF Before
  <2>2. \A p, q, s \in S : <<p, q>> \in R /\ <<q, s>> \in R => <<p, s>> \in R
    <3> TAKE p, q, s \in S
    <3>1. Before(p, q) /\ Before(q, s) => Before(p, s)
      BY <1>1 DEF Before
    <3> QED BY <1>2, <3>1
  <2>3. \A p, q \in S : p # q => <<p, q>> \in R \/ <<q, p>> \in R
    <3> TAKE p, q \in S
    <3>1. p # q => Before(p, q) \/ Before(q, p)
      <4>1. p.key = q.key /\ p.bits = q.bits => p = q
        BY <1>1
      <4> QED BY <1>1, <4>1 DEF Before
    <3> QED BY <1>2, <3>1
  <2> QED BY <2>1, <2>2, <2>3 DEF StrictOrder
<1>4. Cardinality(S) \in Nat /\ Enumerates(R, S)
  BY <1>3, BelowIsPosition
<1>5. ASSUME NEW p \in S
      PROVE  Rank(S, p) = Preceding(R, S, p) + 1
  <2>1. {q \in S : Before(q, p)} = {q \in S : <<q, p>> \in R}
    BY <1>2
  <2> QED BY <2>1 DEF Rank, Preceding
<1>6. \A p \in S : Preceding(R, S, p) \in 0 .. Cardinality(S) - 1
  BY <1>4 DEF Enumerates
<1>7. \A p \in S : Rank(S, p) \in 1 .. Cardinality(S)
  BY <1>4, <1>5, <1>6
<1>8. \A p, q \in S : Rank(S, p) = Rank(S, q) => p = q
  <2> TAKE p, q \in S
  <2>1. Rank(S, p) = Rank(S, q) => Preceding(R, S, p) = Preceding(R, S, q)
    BY <1>4, <1>5, <1>6
  <2> QED BY <1>4, <2>1 DEF Enumerates
<1>9. ASSUME NEW k \in 1 .. Cardinality(S)
      PROVE  \E p \in S : Rank(S, p) = k
  <2>1. k - 1 \in 0 .. Cardinality(S) - 1
    BY <1>4
  <2>2. PICK p \in S : Preceding(R, S, p) = k - 1
    BY <1>4, <2>1 DEF Enumerates
  <2>3. Rank(S, p) = k
    BY <1>5, <2>2
  <2> QED BY <2>3
<1> QED BY <1>4, <1>7, <1>8, <1>9 DEF Ranked

\* Two prefixes of the same length that cover an address are the same.
LEMMA MatchesDifferInLength ==
    ASSUME NEW p \in Prefix, NEW q \in Prefix, NEW a \in Addr,
           Covers(p, a), Covers(q, a), p.bits = q.bits
    PROVE  p = q
<1> DEFINE span == Span(p.bits)
<1>1. /\ p = [key |-> p.key, bits |-> p.bits] /\ p.key \in Nat /\ p.bits \in 0 .. Width
      /\ q = [key |-> q.key, bits |-> q.bits] /\ q.key \in Nat
  BY PrefixType
<1>2. span \in Nat \ {0}
  BY <1>1, SpanType
<1>3. PICK j \in Nat : p.key = j * span
  BY PrefixType
<1>4. PICK k \in Nat : q.key = k * span
  BY PrefixType
<1>5. a \in Nat
  <2>1. Pow2[Width] \in Nat
    BY PowersOfTwo, WidthAssumption
  <2> QED BY <2>1 DEF Addr
<1>6. p.key <= a /\ a <= p.key + span - 1 /\ q.key <= a /\ a <= q.key + span - 1
  BY <1>1, <1>2, <1>5 DEF Covers, LowAddr, HighAddr
<1>7. a - p.key \in 0 .. span - 1 /\ a - q.key \in 0 .. span - 1
  BY <1>1, <1>2, <1>5, <1>6
<1>8. a = j * span + (a - p.key) /\ a = k * span + (a - q.key)
  BY <1>1, <1>3, <1>4, <1>5
<1> HIDE DEF span
<1>9. a \div span = j /\ a \div span = k
  BY <1>2, <1>7, <1>8, QuotientAndRemainder
<1> QED BY <1>1, <1>3, <1>4, <1>9

\* Powers multiply where exponents add.
LEMMA PowersAdd ==
    ASSUME NEW m \in Nat, NEW n \in Nat
    PROVE  Pow2[m + n] = Pow2[n] * Pow2[m]
<1> DEFINE odd == {l \in Nat : Pow2[m + l] # Pow2[l] * Pow2[m]}
<1> SUFFICES ASSUME odd # {} PROVE FALSE
  OBVIOUS
<1>1. PICK l \in odd : \A k \in odd : l <= k
  <2>1. odd \in SUBSET Nat
    OBVIOUS
  <2> HIDE DEF odd
  <2> QED BY <2>1, LeastElement
<1>2. Pow2[m] \in Nat
  BY PowersOfTwo
<1>3. l # 0
  <2>1. Pow2[m + 0] = Pow2[0] * Pow2[m]
    BY <1>2, PowersOfTwo
  <2>2. 0 \notin odd
    BY <2>1
  <2> QED BY <1>1, <2>2
<1>4. l - 1 \in Nat /\ l - 1 \notin odd /\ l \in Nat
  BY <1>1, <1>3
<1>5. Pow2[m + (l - 1)] = Pow2[l - 1] * Pow2[m]
  BY <1>4
<1>6. m + (l - 1) \in Nat /\ m + (l - 1) + 1 = m + l /\ l - 1 + 1 = l
  BY <1>4
<1>7. Pow2[m + l] = 2 * Pow2[m + (l - 1)] /\ Pow2[l] = 2 * Pow2[l - 1] /\ Pow2[l - 1] \in Nat
  BY <1>4, <1>6, PowersOfTwo
<1>8. 2 * (Pow2[l - 1] * Pow2[m]) = (2 * Pow2[l - 1]) * Pow2[m]
  BY <1>2, <1>7
<1> QED BY <1>1, <1>5, <1>7, <1>8

\* The span of a shorter prefix is a multiple of that of a longer one.
LEMMA SpansDivide ==
    ASSUME NEW c \in 0 .. Width, NEW b \in 0 .. c
    PROVE  \E k \in Nat : Span(b) = k * Span(c)
<1>1. c - b \in Nat /\ Width - c \in Nat /\ (Width - c) + (c - b) = Width - b
  BY WidthAssumption
<1>2. Pow2[(Width - c) + (c - b)] = Pow2[c - b] * Pow2[Width - c] /\ Pow2[c - b] \in Nat
  BY <1>1, PowersAdd, PowersOfTwo
<1> QED BY <1>1, <1>2 DEF Span

\* The prefix of any length that an address lies in.
LEMMA MaskedCovers ==
    ASSUME NEW a \in Addr, NEW bits \in 0 .. Width
    PROVE  /\ Masked(a, bits) \in Prefix
           /\ Masked(a, bits).bits = bits
           /\ Masked(a, bits).key \in Addr
           /\ Masked(a, bits).key <= a
           /\ Covers(Masked(a, bits), a)
<1> DEFINE p == Masked(a, bits)
<1>1. p \in Prefix /\ p.bits = bits /\ p.key = a - (a % Span(bits))
  BY DEF Prefix, Masked
<1>2. Pow2[Width] \in Nat
  BY PowersOfTwo, WidthAssumption
<1>3. a \in Nat /\ a <= Pow2[Width] - 1
  BY <1>2 DEF Addr
<1>4. Span(bits) \in Nat \ {0}
  BY SpanType
<1>5. (a % Span(bits)) \in 0 .. Span(bits) - 1 /\ (a \div Span(bits)) \in Nat
      /\ a = (a \div Span(bits)) * Span(bits) + (a % Span(bits))
  BY <1>3, <1>4, DivisionWithRemainder
<1>6. (a \div Span(bits)) * Span(bits) \in Nat
  BY <1>4, <1>5
<1> DEFINE s == Span(bits)
           rest == a % s
           multiple == (a \div s) * s
<1>7. p.key \in Nat /\ p.key <= a /\ a <= p.key + s - 1
  <2>1. /\ p.key = a - rest /\ rest \in 0 .. s - 1 /\ a = multiple + rest
        /\ multiple \in Nat /\ s \in Nat
    BY <1>1, <1>4, <1>5, <1>6
  <2> HIDE DEF p, s, rest, multiple
  <2> QED BY <1>3, <2>1
<1> HIDE DEF p
<1>8. p.key \in Addr
  BY <1>2, <1>3, <1>7 DEF Addr
<1>9. Covers(p, a)
  BY <1>1, <1>3, <1>4, <1>7 DEF Covers, LowAddr, HighAddr
<1> QED BY <1>1, <1>7, <1>8, <1>9 DEF p

\* A prefix that covers an address is the address, cut off.
LEMMA CoverIsMasked ==
    ASSUME NEW p \in Prefix, NEW a \in Addr, Covers(p, a)
    PROVE  p.bits \in 0 .. Width /\ p = Masked(a, p.bits)
<1>1. p.bits \in 0 .. Width
  BY PrefixType
<1>2. /\ Masked(a, p.bits) \in Prefix
      /\ Masked(a, p.bits).bits = p.bits
      /\ Covers(Masked(a, p.bits), a)
  BY <1>1, MaskedCovers
<1> QED BY <1>1, <1>2, MatchesDifferInLength

\* A prefix begins and ends at an address: 2^Width is a multiple of its span.
LEMMA PrefixEnds ==
    ASSUME NEW p \in Prefix
    PROVE  /\ Span(p.bits) \in Nat \ {0}
           /\ p.key \in Addr /\ p.key \in Nat
           /\ p.key + Span(p.bits) - 1 \in Addr
<1>1. PICK key \in Addr, bits \in 0 .. Width : p = Masked(key, bits)
  BY DEF Prefix
<1>2. p.bits = bits /\ p.key \in Addr /\ p.key <= key
  BY <1>1, MaskedCovers
<1> DEFINE span == Span(bits)
<1>3. span \in Nat \ {0}
  BY SpanType
<1>4. PICK j \in Nat : p.key = j * span
  BY <1>2, PrefixType
<1>5. PICK k \in Nat : Pow2[Width] = k * span
  <2>1. 0 \in 0 .. bits /\ Span(0) = Pow2[Width]
    BY WidthAssumption DEF Span
  <2> QED BY <2>1, SpansDivide
<1>6. p.key \in Nat /\ p.key < Pow2[Width] /\ Pow2[Width] \in Nat
  <2>1. Pow2[Width] \in Nat
    BY PowersOfTwo, WidthAssumption
  <2> QED BY <1>2, <2>1 DEF Addr
<1> HIDE DEF span
<1>7. p.key + span <= Pow2[Width]
  <2>1. j < k
    <3>1. j * span < k * span
      BY <1>4, <1>5, <1>6
    <3> QED BY <1>3, <3>1
  <2>2. (j + 1) * span <= k * span
    BY <1>3, <2>1
  <2>3. (j + 1) * span = j * span + span
    BY <1>3
  <2> QED BY <1>4, <1>5, <2>2, <2>3
<1>8. p.key + span - 1 \in Addr
  BY <1>3, <1>6, <1>7 DEF Addr
<1> QED BY <1>2, <1>3, <1>6, <1>8 DEF span

\* A longer prefix spans less.
LEMMA LongerSpansLess ==
    ASSUME NEW c \in 0 .. Width, NEW b \in 0 .. Width, b < c
    PROVE  Span(c) < Span(b)
<1> DEFINE m == Width - c
           n == c - b
<1>1. m \in Nat /\ n \in Nat /\ n # 0 /\ m + n = Width - b /\ n - 1 \in Nat /\ n = (n - 1) + 1
  BY WidthAssumption
<1> HIDE DEF n
<1>2. Pow2[m + n] = Pow2[n] * Pow2[m]
  BY <1>1, PowersAdd
<1>3. Pow2[n] = 2 * Pow2[n - 1] /\ Pow2[n - 1] \in Nat \ {0} /\ Pow2[m] \in Nat \ {0}
  BY <1>1, PowersOfTwo
<1>4. \A x, y \in Nat \ {0} : y < (2 * x) * y
  <2> SUFFICES ASSUME NEW x \in Nat \ {0}, NEW y \in Nat \ {0} PROVE y < (2 * x) * y
    OBVIOUS
  <2>1. (2 * x) * y = x * y + x * y /\ x * y \in Nat
    OBVIOUS
  <2>2. x * y >= y
    <3>1. x * y = (x - 1) * y + y /\ (x - 1) * y \in Nat
      OBVIOUS
    <3> QED BY <3>1
  <2> QED BY <2>1, <2>2
<1>5. Pow2[m] < Pow2[m + n]
  BY <1>2, <1>3, <1>4
<1> QED BY <1>1, <1>5 DEF Span

\* Of two prefixes of an address the shorter covers the first address of the other.
LEMMA ShorterCoversLonger ==
    ASSUME NEW a \in Addr, NEW c \in 0 .. Width, NEW b \in 0 .. c
    PROVE  Covers(Masked(a, b), Masked(a, c).key)
<1> DEFINE p == Masked(a, b)
           q == Masked(a, c)
<1>1. /\ p \in Prefix /\ p.bits = b /\ Covers(p, a)
      /\ q \in Prefix /\ q.bits = c /\ Covers(q, a) /\ q.key <= a
  BY MaskedCovers, WidthAssumption
<1>2. Pow2[Width] \in Nat
  BY PowersOfTwo, WidthAssumption
<1>3. a \in Nat /\ p.key \in Nat /\ q.key \in Nat
  BY <1>1, <1>2, PrefixType DEF Addr
<1>4. b \in 0 .. Width
  BY WidthAssumption
<1>5. Span(b) \in Nat \ {0} /\ Span(c) \in Nat \ {0}
  BY <1>4, SpanType
<1>6. p.key <= a /\ a <= p.key + Span(b) - 1 /\ a <= q.key + Span(c) - 1
  BY <1>1, <1>3, <1>5 DEF Covers, LowAddr, HighAddr
<1>7. PICK i \in Nat : p.key = i * Span(b)
  BY <1>1, PrefixType
<1>8. PICK j \in Nat : q.key = j * Span(c)
  BY <1>1, PrefixType
<1>9. PICK k \in Nat : Span(b) = k * Span(c)
  BY SpansDivide
<1> HIDE DEF p, q
<1>10. p.key <= q.key
  <2> DEFINE s == Span(c)
             m == i * k
  <2>1. m \in Nat /\ s \in Nat \ {0}
    BY <1>5
  <2>2. p.key = m * s
    BY <1>5, <1>7, <1>9
  <2> HIDE DEF s, m
  <2>3. m * s <= j * s + s - 1
    BY <1>3, <1>5, <1>6, <1>8, <2>2, <2>1 DEF s
  <2>4. m * s < (j + 1) * s
    BY <2>1, <2>3
  <2>5. m < j + 1
    <3> SUFFICES ASSUME m >= j + 1 PROVE FALSE
      BY <2>1
    <3>1. m - (j + 1) \in Nat
      BY <2>1
    <3>2. (m - (j + 1)) * s \in Nat
      BY <2>1, <3>1
    <3>3. m * s = (j + 1) * s + (m - (j + 1)) * s
      BY <2>1
    <3>4. m * s \in Nat /\ (j + 1) * s \in Nat
      BY <2>1
    <3> QED BY <2>4, <3>2, <3>3, <3>4
  <2>6. m <= j
    BY <2>1, <2>5
  <2>7. (j - m) \in Nat /\ (j - m) * s \in Nat /\ j * s = m * s + (j - m) * s /\ m * s \in Nat
    BY <2>1, <2>6
  <2> QED BY <1>8, <2>2, <2>7 DEF s
<1>11. q.key <= p.key + Span(b) - 1
  BY <1>1, <1>3, <1>5, <1>6
<1>12. Covers(p, q.key)
  BY <1>1, <1>3, <1>5, <1>10, <1>11 DEF Covers, LowAddr, HighAddr
<1> QED BY <1>12 DEF p, q

\* Masking an address twice is masking it to the shorter length.
LEMMA MaskedTwice ==
    ASSUME NEW a \in Addr, NEW c \in 0 .. Width, NEW b \in 0 .. c
    PROVE  /\ Masked(a, c).key \in Addr
           /\ Masked(Masked(a, c).key, b) = Masked(a, b)
<1>1. b \in 0 .. Width
  BY WidthAssumption
<1>2. Masked(a, c).key \in Addr
  BY MaskedCovers
<1>3. Masked(a, b) \in Prefix /\ Masked(a, b).bits = b
  BY <1>1, MaskedCovers
<1>4. Covers(Masked(a, b), Masked(a, c).key)
  BY ShorterCoversLonger
<1>5. Masked(a, b) = Masked(Masked(a, c).key, b)
  <2> DEFINE p == Masked(a, b)
             key == Masked(a, c).key
  <2> HIDE DEF p, key
  <2>1. p \in Prefix /\ p.bits = b /\ key \in Addr /\ Covers(p, key)
    BY <1>2, <1>3, <1>4 DEF p, key
  <2>2. p = Masked(key, b)
    BY <2>1, CoverIsMasked
  <2> QED BY <2>2 DEF p, key
<1> QED BY <1>2, <1>5

\* A prefix covers an address just when it covers the first address of a longer
\* prefix of that address.
LEMMA PrefixesNest ==
    ASSUME NEW p \in Prefix, NEW q \in Prefix, NEW a \in Addr, Covers(q, a), p.bits <= q.bits
    PROVE  /\ q.key \in Addr
           /\ Covers(p, q.key) <=> Covers(p, a)
<1>1. q.bits \in 0 .. Width /\ q = Masked(a, q.bits)
  BY CoverIsMasked
<1>2. q.key \in Addr
  BY <1>1, MaskedCovers
<1>3. p.bits \in 0 .. Width
  BY PrefixType
<1>4. p.bits \in 0 .. q.bits
  BY <1>1, <1>3, WidthAssumption
<1> DEFINE r == Masked(a, p.bits)
<1>5. r \in Prefix /\ r.bits = p.bits /\ Covers(r, a)
  BY <1>3, MaskedCovers
<1>6. Covers(r, q.key)
  BY <1>1, <1>4, ShorterCoversLonger
<1> HIDE DEF r
<1>7. ASSUME Covers(p, q.key) PROVE Covers(p, a)
  <2>1. p = r
    BY <1>2, <1>5, <1>6, <1>7, MatchesDifferInLength
  <2> QED BY <1>5, <2>1
<1>8. ASSUME Covers(p, a) PROVE Covers(p, q.key)
  <2>1. p = r
    BY <1>5, <1>8, MatchesDifferInLength
  <2> QED BY <1>6, <2>1
<1> QED BY <1>2, <1>7, <1>8

-----------------------------------------------------------------------------
(* Ranges of addresses that are merged. *)

\* A closed range of addresses.
AddrRange == {r \in [first : Addr, last : Addr] : r.first <= r.last}
Within(r, a) == r.first <= a /\ a <= r.last
InSome(ranges, a) == \E i \in DOMAIN ranges : Within(ranges[i], a)

\* Addresses are numbers up to MaxAddr.
LEMMA Addresses ==
    /\ MaxAddr \in Nat
    /\ Addr = 0 .. MaxAddr
    /\ \A a \in Addr : a \in Nat /\ a <= MaxAddr
<1>1. Pow2[Width] \in Nat \ {0}
  BY PowersOfTwo, WidthAssumption
<1> QED BY <1>1 DEF MaxAddr, Addr

\* The range of a prefix holds what the prefix covers.
LEMMA RangeOfPrefix ==
    ASSUME NEW p \in Prefix
    PROVE  /\ RangeOf(p) \in AddrRange
           /\ \A a \in Addr : Covers(p, a) <=> Within(RangeOf(p), a)
<1> DEFINE span == Span(p.bits)
<1>1. span \in Nat \ {0} /\ p.key \in Addr /\ p.key \in Nat /\ p.key + span - 1 \in Addr
  BY PrefixEnds
<1>2. RangeOf(p).first = p.key /\ RangeOf(p).last = p.key + span - 1
  BY DEF RangeOf, LowAddr, HighAddr
<1>3. RangeOf(p) = [first |-> p.key, last |-> p.key + span - 1]
  BY DEF RangeOf, LowAddr, HighAddr
<1>4. ASSUME NEW a \in Addr PROVE Covers(p, a) <=> Within(RangeOf(p), a)
  <2>1. a \in Nat
    BY Addresses
  <2> QED BY <1>1, <1>2, <2>1 DEF Covers, LowAddr, HighAddr, Within
<1> HIDE DEF span
<1>5. p.key <= p.key + span - 1
  BY <1>1
<1> QED BY <1>1, <1>3, <1>4, <1>5 DEF AddrRange

\* What a merge keeps: ranges that do not touch, in their order.
Apart(ranges) ==
    /\ ranges \in Seq(AddrRange)
    /\ \A i \in 1 .. Len(ranges) - 1 : ranges[i].last + 1 < ranges[i + 1].first

\* What it has kept after the first k ranges of a list.
UnionUpTo(ranges, s, k) ==
    /\ Apart(ranges)
    /\ k > 0 => ranges # <<>> /\ Last(ranges).first <= s[k].first
    /\ \A a \in Addr : InSome(ranges, a) <=> \E j \in 1 .. k : Within(s[j], a)

\* A range that touches the last one is taken into it.
LEMMA Extending ==
    ASSUME NEW out, Apart(out), out # <<>>, NEW r \in AddrRange,
           Last(out).first <= r.first, r.first <= Last(out).last + 1,
           NEW new, new = [out EXCEPT ![Len(out)].last = IF r.last > @ THEN r.last ELSE @]
    PROVE  /\ Apart(new)
           /\ new # <<>> /\ Last(new).first <= r.first
           /\ \A a \in Addr : InSome(new, a) <=> InSome(out, a) \/ Within(r, a)
<1> DEFINE n == Len(out)
           old == out[n]
           last == IF r.last > old.last THEN r.last ELSE old.last
<1>1. out \in Seq(AddrRange) /\ n \in Nat /\ n # 0 /\ DOMAIN out = 1 .. n
  BY EmptySeq, LenProperties DEF Apart
<1>2. \A i \in 1 .. n : out[i] \in AddrRange
  BY <1>1, ElementOfSeq
<1>3. n \in 1 .. n /\ Last(out) = old
  BY <1>1 DEF Last
<1>4. old \in AddrRange
  BY <1>2, <1>3
<1>5. /\ old.first \in Addr /\ old.last \in Addr /\ r.first \in Addr /\ r.last \in Addr
      /\ old = [first |-> old.first, last |-> old.last]
      /\ old.first <= old.last /\ r.first <= r.last
  BY <1>4 DEF AddrRange
<1> HIDE DEF n
<1>6. /\ old.first \in Nat /\ old.last \in Nat /\ r.first \in Nat /\ r.last \in Nat
      /\ old.first <= r.first /\ r.first <= old.last + 1
  BY <1>3, <1>5, Addresses
<1>7. last \in Addr /\ old.last <= last /\ r.last <= last /\ (last = old.last \/ last = r.last)
  BY <1>5, <1>6
<1>8. new = [i \in 1 .. n |-> IF i = n THEN [first |-> old.first, last |-> last] ELSE out[i]]
  <2>1. new = [out EXCEPT ![n] = [out[n] EXCEPT !.last = last]]
    BY DEF n
  <2>2. [out[n] EXCEPT !.last = last] = [first |-> old.first, last |-> last]
    BY <1>5
  <2> QED BY <1>1, <2>1, <2>2
<1> HIDE DEF last
<1>9. [first |-> old.first, last |-> last] \in AddrRange
  <2>1. last \in Nat /\ old.first <= last
    BY <1>5, <1>6, <1>7, Addresses
  <2> QED BY <1>5, <1>7, <2>1 DEF AddrRange
<1> HIDE DEF old
<1>10. /\ new \in Seq(AddrRange) /\ Len(new) = n /\ DOMAIN new = 1 .. n
       /\ \A i \in 1 .. n : new[i].first = out[i].first
       /\ \A i \in 1 .. n : i # n => new[i] = out[i]
       /\ new[n] = [first |-> old.first, last |-> last]
  <2>1. \A i \in 1 .. n : new[i] \in AddrRange
    BY <1>2, <1>8, <1>9
  <2>2. new \in [1 .. n -> AddrRange]
    BY <1>8, <2>1
  <2>3. new \in Seq(AddrRange) /\ Len(new) = n
    BY <1>1, <2>2
  <2>4. \A i \in 1 .. n : i # n => new[i] = out[i]
    BY <1>8
  <2>5. new[n] = [first |-> old.first, last |-> last]
    BY <1>3, <1>8
  <2>6. \A i \in 1 .. n : new[i].first = out[i].first
    BY <2>4, <2>5 DEF old
  <2> QED BY <2>2, <2>3, <2>4, <2>5, <2>6
<1>11. Apart(new)
  <2>1. ASSUME NEW i \in 1 .. n - 1
        PROVE  new[i].last + 1 < new[i + 1].first
    <3>1. i \in 1 .. n /\ i + 1 \in 1 .. n /\ i # n
      BY <1>1
    <3>2. out[i].last + 1 < out[i + 1].first
      BY DEF Apart, n
    <3> QED BY <1>10, <3>1, <3>2
  <2> QED BY <1>10, <2>1 DEF Apart
<1>12. new # <<>> /\ Last(new).first <= r.first
  <2>1. new # <<>>
    BY <1>1, <1>10, EmptySeq
  <2>2. Last(new).first = old.first
    BY <1>10 DEF Last
  <2> QED BY <1>6, <2>1, <2>2
<1>13. ASSUME NEW a \in Addr PROVE InSome(new, a) <=> InSome(out, a) \/ Within(r, a)
  <2>1. a \in Nat /\ last \in Nat
    BY <1>7, Addresses
  <2>2. Within(new[n], a) <=> Within(old, a) \/ Within(r, a)
    <3>1. new[n].first = old.first /\ new[n].last = last
      BY <1>10
    <3>2. /\ old.first <= a /\ a <= last <=>
             (old.first <= a /\ a <= old.last) \/ (r.first <= a /\ a <= r.last)
      BY <1>6, <1>7, <2>1
    <3> QED BY <3>1, <3>2 DEF Within
  <2>3. InSome(new, a) <=> Within(new[n], a) \/ \E i \in 1 .. n : i # n /\ Within(out[i], a)
    BY <1>3, <1>10 DEF InSome
  <2>4. InSome(out, a) <=> Within(old, a) \/ \E i \in 1 .. n : i # n /\ Within(out[i], a)
    BY <1>1, <1>3 DEF InSome, old
  <2> QED BY <2>2, <2>3, <2>4
<1> QED BY <1>11, <1>12, <1>13

\* One that does not is kept after it.
LEMMA Adding ==
    ASSUME NEW out, Apart(out), NEW r \in AddrRange,
           out # <<>> => Last(out).last + 1 < r.first,
           NEW new, new = Append(out, r)
    PROVE  /\ Apart(new)
           /\ new # <<>> /\ Last(new).first <= r.first
           /\ \A a \in Addr : InSome(new, a) <=> InSome(out, a) \/ Within(r, a)
<1> DEFINE n == Len(out)
<1>1. /\ out \in Seq(AddrRange) /\ n \in Nat /\ DOMAIN out = 1 .. n
      /\ new \in Seq(AddrRange) /\ Len(new) = n + 1 /\ DOMAIN new = 1 .. n + 1
      /\ \A i \in 1 .. n : new[i] = out[i]
      /\ new[n + 1] = r
  BY AppendProperties, LenProperties DEF Apart
<1>2. new # <<>> /\ Last(new) = r
  BY <1>1, EmptySeq DEF Last
<1>3. ASSUME NEW i \in 1 .. Len(new) - 1
      PROVE  new[i].last + 1 < new[i + 1].first
  <2>1. CASE i = n
    <3>1. out # <<>> /\ Last(out) = out[n] /\ n \in 1 .. n
      BY <1>1, <2>1, EmptySeq DEF Last
    <3> HIDE DEF n
    <3> QED BY <1>1, <2>1, <3>1
  <2>2. CASE i # n
    <3>1. i \in 1 .. n - 1 /\ i \in 1 .. n /\ i + 1 \in 1 .. n
      <4> HIDE DEF n
      <4>1. i \in 1 .. n
        BY <1>1
      <4> QED BY <1>1, <2>2, <4>1
    <3>2. out[i].last + 1 < out[i + 1].first
      BY <3>1 DEF Apart
    <3> HIDE DEF n
    <3> QED BY <1>1, <3>1, <3>2
  <2> QED BY <2>1, <2>2
<1>4. r.first \in Nat
  BY Addresses DEF AddrRange
<1>5. ASSUME NEW a \in Addr PROVE InSome(new, a) <=> InSome(out, a) \/ Within(r, a)
  <2>1. 1 .. n + 1 = 1 .. n \cup {n + 1}
    BY <1>1
  <2> HIDE DEF n
  <2> QED BY <1>1, <2>1 DEF InSome
<1>6. Apart(new)
  BY <1>1, <1>3 DEF Apart
<1>7. Last(new).first <= r.first
  BY <1>2, <1>4
<1> QED BY <1>2, <1>5, <1>6, <1>7

\* A step of a merge over sorted ranges: the next one is taken into the last one
\* kept, if it touches it, or kept after it.
MergesOne(out, r, new) ==
    \/ /\ out # <<>> /\ r.first <= Last(out).last + 1
       /\ new = [out EXCEPT ![Len(out)].last = IF r.last > @ THEN r.last ELSE @]
    \/ /\ out # <<>> => Last(out).last + 1 < r.first
       /\ new = Append(out, r)

LEMMA MergingOne ==
    ASSUME NEW s \in Seq(AddrRange), \A i, j \in DOMAIN s : i < j => s[i].first <= s[j].first,
           NEW k \in 1 .. Len(s), NEW out, UnionUpTo(out, s, k - 1),
           NEW new, MergesOne(out, s[k], new)
    PROVE  UnionUpTo(new, s, k)
<1> DEFINE r == s[k]
<1>1. Len(s) \in Nat /\ k \in DOMAIN s /\ r \in AddrRange /\ k - 1 \in Nat /\ k > 0
  BY LenProperties, ElementOfSeq
<1>2. Apart(out)
  BY DEF UnionUpTo
<1>3. ASSUME out # <<>>
      PROVE  Last(out) \in AddrRange /\ Last(out).first <= r.first
  <2>1. out \in Seq(AddrRange) /\ Len(out) \in 1 .. Len(out)
    BY <1>2, <1>3, EmptySeq, LenProperties DEF Apart
  <2>2. Last(out) \in AddrRange
    BY <2>1, ElementOfSeq DEF Last
  <2>3. k - 1 > 0
    <3> SUFFICES ASSUME k = 1 PROVE FALSE
      BY <1>1
    <3>1. \A a \in Addr : ~InSome(out, a)
      <4>1. 1 .. k - 1 = {}
        OBVIOUS
      <4> QED BY <4>1 DEF UnionUpTo
    <3>2. InSome(out, Last(out).first)
      <4>1. Last(out).first \in Nat /\ Last(out).first <= Last(out).last
        BY <2>2, Addresses DEF AddrRange
      <4>2. Within(Last(out), Last(out).first)
        BY <4>1 DEF Within
      <4> QED BY <2>1, <4>2 DEF InSome, Last
    <3> QED BY <2>2, <3>1, <3>2 DEF AddrRange
  <2>4. k - 1 \in DOMAIN s /\ k - 1 < k
    BY <1>1, <2>3
  <2>5. Last(out).first <= s[k - 1].first /\ s[k - 1].first <= s[k].first
    BY <1>1, <2>3, <2>4 DEF UnionUpTo
  <2>6. s[k - 1] \in AddrRange
    BY <2>4, ElementOfSeq
  <2>7. Last(out).first \in Nat /\ s[k - 1].first \in Nat /\ s[k].first \in Nat
    BY <1>1, <2>2, <2>6, Addresses DEF AddrRange
  <2> QED BY <2>2, <2>5, <2>7
<1>4. /\ Apart(new)
      /\ new # <<>> /\ Last(new).first <= r.first
      /\ \A a \in Addr : InSome(new, a) <=> InSome(out, a) \/ Within(r, a)
  <2>1. CASE /\ out # <<>> /\ r.first <= Last(out).last + 1
             /\ new = [out EXCEPT ![Len(out)].last = IF r.last > @ THEN r.last ELSE @]
    <3> HIDE DEF r
    <3> QED BY <1>1, <1>2, <1>3, <2>1, Extending
  <2>2. CASE /\ out # <<>> => Last(out).last + 1 < r.first
             /\ new = Append(out, r)
    <3> HIDE DEF r
    <3> QED BY <1>1, <1>2, <2>2, Adding
  <2> QED BY <2>1, <2>2 DEF MergesOne
<1>5. ASSUME NEW a \in Addr PROVE InSome(new, a) <=> \E j \in 1 .. k : Within(s[j], a)
  <2>1. 1 .. k = 1 .. k - 1 \cup {k}
    OBVIOUS
  <2>2. InSome(out, a) <=> \E j \in 1 .. k - 1 : Within(s[j], a)
    BY DEF UnionUpTo
  <2> QED BY <1>4, <2>1, <2>2
<1> QED BY <1>4, <1>5 DEF UnionUpTo

\* Ranges that do not touch their neighbours are in order.
LEMMA ApartIsSorted ==
    ASSUME NEW ranges, Apart(ranges)
    PROVE  /\ Len(ranges) \in Nat /\ DOMAIN ranges = 1 .. Len(ranges)
           /\ \A i \in DOMAIN ranges :
                 /\ ranges[i].first \in Addr /\ ranges[i].last \in Addr
                 /\ ranges[i].first \in Nat /\ ranges[i].last \in Nat
                 /\ ranges[i].first <= ranges[i].last
           /\ \A i, j \in DOMAIN ranges : i < j => ranges[i].last < ranges[j].first
<1> DEFINE n == Len(ranges)
<1>1. ranges \in Seq(AddrRange) /\ n \in Nat /\ DOMAIN ranges = 1 .. n
  BY LenProperties DEF Apart
<1>2. \A i \in 1 .. n :
         /\ ranges[i].first \in Addr /\ ranges[i].last \in Addr
         /\ ranges[i].first \in Nat /\ ranges[i].last \in Nat
         /\ ranges[i].first <= ranges[i].last
  <2> TAKE i \in 1 .. n
  <2>1. ranges[i] \in AddrRange
    BY <1>1, ElementOfSeq
  <2> QED BY <2>1, Addresses DEF AddrRange
<1>3. \A i \in 1 .. n - 1 : ranges[i].last + 1 < ranges[i + 1].first
  BY DEF Apart
<1> HIDE DEF n
<1>4. ASSUME NEW i \in 1 .. n, NEW j \in 1 .. n, i < j
      PROVE  ranges[i].last < ranges[j].first
  <2> DEFINE odd == {k \in i + 1 .. n : ~(ranges[i].last < ranges[k].first)}
  <2> SUFFICES ASSUME odd # {} PROVE FALSE
    BY <1>1, <1>4
  <2>1. PICK k \in odd : \A l \in odd : k <= l
    <3>1. odd \in SUBSET Nat
      BY <1>1
    <3> HIDE DEF odd
    <3> QED BY <3>1, LeastElement
  <2>2. k \in i + 1 .. n /\ ~(ranges[i].last < ranges[k].first)
    BY <2>1
  <2>3. k - 1 \in 1 .. n - 1 /\ k - 1 \in 1 .. n /\ k - 1 + 1 = k /\ k \in 1 .. n
    BY <1>1, <2>2
  <2>4. ranges[k - 1].last + 1 < ranges[k].first
    <3>1. ranges[k - 1].last + 1 < ranges[k - 1 + 1].first
      BY <1>3, <2>3
    <3> QED BY <2>3, <3>1
  <2>5. k - 1 # i
    BY <1>2, <2>2, <2>3, <2>4
  <2>6. k - 1 \in i + 1 .. n /\ ~(k <= k - 1)
    BY <1>1, <2>2, <2>5
  <2>7. k - 1 \notin odd
    <3> HIDE DEF odd
    <3> QED BY <2>1, <2>6
  <2>8. ranges[i].last < ranges[k - 1].first
    BY <2>6, <2>7
  <2> QED BY <1>2, <2>2, <2>3, <2>4, <2>8
<1> QED BY <1>1, <1>2, <1>4 DEF n
=============================================================================
