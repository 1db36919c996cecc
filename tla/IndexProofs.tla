---------------------------- MODULE IndexProofs -----------------------------
(***************************************************************************)
(* Proofs about the indexes that IndexBuilder compiles, in every state     *)
(* that the additions of its callers reach: flatart's and blocklpm's from  *)
(* the lemmas of LPMProofs, steplpm's and slotlpm's from lemmas stated     *)
(* here on the sweep that makes their steps and on the windows and cuts    *)
(* that localise them.                                                     *)
(***************************************************************************)
EXTENDS IndexBuilder, LPMProofs

-----------------------------------------------------------------------------
(* A list of steps as a function from addresses to route ids. *)

Step == [bound : Addr, id : Nat]

\* The bounds rise and do not pass f.
Rising(steps, f) ==
    /\ \A i, j \in 1 .. Len(steps) : i < j => steps[i].bound < steps[j].bound
    /\ \A i \in 1 .. Len(steps) : steps[i].bound <= f

\* The id that the first k steps leave behind.
IdAfter(steps, k) == IF k = 0 THEN 0 ELSE steps[k].id

\* The steps say id for the address a: it is the id of the last step at or below a.
Says(steps, a, id) ==
    \E k \in 0 .. Len(steps) :
        /\ \A i \in 1 .. k : steps[i].bound <= a
        /\ \A i \in k + 1 .. Len(steps) : a < steps[i].bound
        /\ id = IdAfter(steps, k)

\* A step at b that says id, after steps that do not pass b.
Extends(steps, extended, b, id) ==
    /\ extended \in Seq(Step)
    /\ Rising(extended, b)
    /\ IdAfter(extended, Len(extended)) = id
    /\ \A a \in Addr : \A x \in Nat : a < b /\ Says(steps, a, x) => Says(extended, a, x)
    /\ steps # <<>> => extended # <<>> /\ extended[1].bound = steps[1].bound
    /\ steps = <<>> /\ extended # <<>> => extended[1].bound = b
    /\ id # 0 => extended # <<>>

\* emit is such a step.
LEMMA EmitExtends ==
    ASSUME NEW steps \in Seq(Step), NEW b \in Addr, NEW id \in Nat, Rising(steps, b)
    PROVE  Extends(steps, emit(steps, b, id), b, id)
<1> DEFINE n == Len(steps)
           after == emit(steps, b, id)
<1>0. n \in Nat /\ steps \in [1 .. n -> Step]
  BY LenProperties
<1>w. b \in Nat
  BY PowersOfTwo, WidthAssumption DEF Addr
<1>s. \A i \in 1 .. n : steps[i] \in Step /\ steps[i].bound \in Nat
  <2> HIDE DEF n
  <2>1. \A e \in Step : e.bound \in Nat
    BY PowersOfTwo, WidthAssumption DEF Step, Addr
  <2> QED BY <1>0, <2>1
<1>1. CASE n = 0
  <2>1. steps = <<>>
    BY <1>1, EmptySeq
  <2>2. CASE id = 0
    <3>1. after = steps
      BY <1>1, <2>2 DEF emit
    <3> QED BY <1>1, <2>1, <2>2, <3>1 DEF Extends, Rising, IdAfter
  <2>3. CASE id # 0
    <3>1. after = <<[bound |-> b, id |-> id]>>
      BY <1>1, <2>3 DEF emit
    <3>2. after \in Seq(Step) /\ Len(after) = 1 /\ after[1] = [bound |-> b, id |-> id] /\ after # <<>>
      BY <3>1 DEF Step
    <3> HIDE DEF after
    <3>3. ASSUME NEW a \in Addr, NEW x \in Nat, a < b, Says(steps, a, x) PROVE Says(after, a, x)
      <4>1. x = 0
        BY <1>1, <3>3 DEF Says, IdAfter
      <4>2. 0 \in 0 .. Len(after) /\ \A i \in 0 + 1 .. Len(after) : a < after[i].bound
        BY <3>2, <3>3
      <4>3. \A i \in 1 .. 0 : after[i].bound <= a
        OBVIOUS
      <4> QED BY <4>1, <4>2, <4>3 DEF Says, IdAfter
    <3>4. Rising(after, b)
      BY <1>w, <3>2 DEF Rising
    <3>5. IdAfter(after, Len(after)) = id
      BY <3>2 DEF IdAfter
    <3>6. after[1].bound = b
      BY <3>2
    <3> QED BY <2>1, <3>2, <3>3, <3>4, <3>5, <3>6 DEF Extends, after
  <2> QED BY <2>2, <2>3
<1>2. CASE n # 0 /\ steps[n].bound = b
  <2>1. after = [steps EXCEPT ![n].id = id]
    BY <1>2 DEF emit
  <2>2. n \in 1 .. n /\ steps[n] \in Step
    BY <1>0, <1>2
  <2>3. after = [steps EXCEPT ![n] = [bound |-> b, id |-> id]]
    <3>1. [steps[n] EXCEPT !.id = id] = [bound |-> b, id |-> id]
      BY <1>2, <2>2 DEF Step
    <3> QED BY <2>1, <3>1
  <2> HIDE DEF n
  <2>4. after \in [1 .. n -> Step]
    <3>1. [bound |-> b, id |-> id] \in Step
      BY DEF Step
    <3> HIDE DEF after
    <3> QED BY <1>0, <2>3, <3>1
  <2>5. after \in Seq(Step) /\ Len(after) = n
    BY <1>0, <2>4
  <2>6. /\ after[n] = [bound |-> b, id |-> id]
        /\ \A i \in 1 .. n : after[i].bound = steps[i].bound
        /\ \A i \in 1 .. n : i # n => after[i] = steps[i]
    BY <1>0, <1>2, <2>2, <2>3
  <2> HIDE DEF after
  <2>7. steps # <<>> /\ after # <<>> /\ after[1].bound = steps[1].bound
    <3>1. 1 \in 1 .. n
      BY <1>0, <1>2
    <3>2. steps # <<>> /\ after # <<>>
      BY <1>2, <2>5 DEF n
    <3> QED BY <2>6, <3>1, <3>2
  <2>8. ASSUME NEW a \in Addr, NEW x \in Nat, a < b, Says(steps, a, x) PROVE Says(after, a, x)
    <3>1. PICK k \in 0 .. n : /\ \A i \in 1 .. k : steps[i].bound <= a
                              /\ \A i \in k + 1 .. n : a < steps[i].bound
                              /\ x = IdAfter(steps, k)
      BY <2>8 DEF Says, n
    <3>2. k # n
      <4>1. a \in Nat
        BY PowersOfTwo, WidthAssumption DEF Addr
      <4> QED BY <1>2, <1>w, <2>2, <2>8, <3>1, <4>1
    <3>3. IdAfter(after, k) = IdAfter(steps, k)
      BY <1>0, <2>6, <3>1, <3>2 DEF IdAfter
    <3>4. /\ \A i \in 1 .. k : after[i].bound <= a
          /\ \A i \in k + 1 .. n : a < after[i].bound
      BY <1>0, <2>6, <3>1
    <3> QED BY <2>5, <3>1, <3>3, <3>4 DEF Says
  <2>9. Rising(after, b)
    BY <2>5, <2>6 DEF Rising, n
  <2>10. IdAfter(after, Len(after)) = id
    BY <1>2, <2>5, <2>6 DEF IdAfter
  <2> QED BY <2>5, <2>7, <2>8, <2>9, <2>10 DEF Extends, after
<1>3. CASE n # 0 /\ steps[n].bound # b /\ steps[n].id = id
  <2>1. after = steps
    BY <1>3 DEF emit
  <2>2. IdAfter(steps, n) = id
    BY <1>3 DEF IdAfter
  <2>3. steps # <<>>
    BY <1>3
  <2> QED BY <2>1, <2>2, <2>3 DEF Extends
<1>4. CASE n # 0 /\ steps[n].bound # b /\ steps[n].id # id
  <2> DEFINE e == [bound |-> b, id |-> id]
  <2>1. after = Append(steps, e)
    BY <1>4 DEF emit
  <2>2. e \in Step /\ e.bound = b /\ e.id = id
    BY DEF Step
  <2> HIDE DEF e, n
  <2>3. /\ after \in Seq(Step)
        /\ Len(after) = n + 1
        /\ \A i \in 1 .. n : after[i] = steps[i]
        /\ after[n + 1] = e
    BY <2>1, <2>2, AppendProperties DEF n
  <2> HIDE DEF after
  <2>4. n \in 1 .. n /\ steps[n].bound < b /\ \A i \in 1 .. n : steps[i] \in Step /\ steps[i].bound \in Nat
    <3>1. n \in 1 .. n
      BY <1>0, <1>4
    <3>2. steps[n].bound <= b
      BY <3>1 DEF Rising, n
    <3> QED BY <1>4, <1>w, <1>s, <3>1, <3>2
  <2>5. steps # <<>> /\ after # <<>> /\ after[1].bound = steps[1].bound
    <3>1. 1 \in 1 .. n
      BY <1>0, <1>4
    <3> QED BY <1>0, <1>4, <2>3, <3>1 DEF n
  <2>6. ASSUME NEW a \in Addr, NEW x \in Nat, a < b, Says(steps, a, x) PROVE Says(after, a, x)
    <3>1. PICK k \in 0 .. n : /\ \A i \in 1 .. k : steps[i].bound <= a
                              /\ \A i \in k + 1 .. n : a < steps[i].bound
                              /\ x = IdAfter(steps, k)
      BY <2>6 DEF Says, n
    <3>2. k \in 0 .. n + 1 /\ IdAfter(after, k) = IdAfter(steps, k)
      BY <1>0, <2>3, <3>1 DEF IdAfter
    <3>3. \A i \in 1 .. k : after[i].bound <= a
      BY <1>0, <2>3, <3>1
    <3>4. \A i \in k + 1 .. n + 1 : a < after[i].bound
      <4> SUFFICES ASSUME NEW i \in k + 1 .. n + 1 PROVE a < after[i].bound
        OBVIOUS
      <4>1. CASE i = n + 1
        BY <2>2, <2>3, <2>6, <4>1
      <4>2. CASE i # n + 1
        <5>1. i \in 1 .. n /\ i \in k + 1 .. n
          BY <1>0, <3>1, <4>2
        <5> QED BY <2>3, <3>1, <5>1
      <4> QED BY <4>1, <4>2
    <3> QED BY <2>3, <3>1, <3>2, <3>3, <3>4 DEF Says
  <2>7. Rising(after, b)
    <3>1. \A i \in 1 .. n : after[i].bound < b
      <4> SUFFICES ASSUME NEW i \in 1 .. n PROVE steps[i].bound < b
        BY <2>3
      <4>1. i = n \/ i < n
        BY <1>0
      <4>2. i < n => steps[i].bound < steps[n].bound
        BY <2>4 DEF Rising, n
      <4> QED BY <1>w, <2>4, <4>1, <4>2
    <3>2. \A i, j \in 1 .. n : i < j => after[i].bound < after[j].bound
      BY <2>3 DEF Rising, n
    <3>3. \A i \in 1 .. n + 1 : i \in 1 .. n \/ i = n + 1
      BY <1>0
    <3>4. after[n + 1].bound = b
      BY <2>2, <2>3
    <3>5. ASSUME NEW i \in 1 .. n + 1, NEW j \in 1 .. n + 1, i < j
          PROVE  after[i].bound < after[j].bound
      <4>1. i \in 1 .. n
        BY <1>0, <3>5
      <4> QED BY <3>1, <3>2, <3>3, <3>4, <3>5, <4>1
    <3>6. \A i \in 1 .. n + 1 : after[i].bound <= b
      <4> SUFFICES ASSUME NEW i \in 1 .. n + 1 PROVE after[i].bound <= b
        OBVIOUS
      <4>1. CASE i \in 1 .. n
        BY <1>w, <2>3, <2>4, <3>1, <4>1
      <4>2. CASE i = n + 1
        BY <1>w, <3>4, <4>2
      <4> QED BY <3>3, <4>1, <4>2
    <3> QED BY <2>3, <3>5, <3>6 DEF Rising
  <2>8. IdAfter(after, Len(after)) = id
    BY <1>0, <2>2, <2>3 DEF IdAfter
  <2> QED BY <2>3, <2>5, <2>6, <2>7, <2>8 DEF Extends, after
<1> QED BY <1>1, <1>2, <1>3, <1>4

-----------------------------------------------------------------------------
(* The sweep over the ranges. *)

RangeRoute == [first : Addr, last : Addr, id : Nat \ {0}]
Sweeps == [stack : Seq(RangeRoute), steps : Seq(Step)]
Holds(r, a) == r.first <= a /\ a <= r.last
Inside(r, outer) == outer.first <= r.first /\ r.last <= outer.last

\* Ranges in preorder: one that begins within another one ends within it.
Nested(order) ==
    /\ order \in Seq(RangeRoute)
    /\ \A i \in 1 .. Len(order) : order[i].first <= order[i].last
    /\ \A i, j \in 1 .. Len(order) :
          i < j => /\ order[i].first <= order[j].first
                   /\ order[j].first <= order[i].last => order[j].last <= order[i].last

\* Of the first k ranges, id is that of the innermost that holds the address.
Wins(order, k, a, id) ==
    \/ id = 0 /\ \A j \in 1 .. k : ~Holds(order[j], a)
    \/ \E j \in 1 .. k :
          /\ Holds(order[j], a) /\ id = order[j].id
          /\ \A i \in 1 .. k : Holds(order[i], a) => Inside(order[j], order[i])

Decided(steps, order, k, a) == \E id \in Nat : Says(steps, a, id) /\ Wins(order, k, a, id)

\* The stack has those of the first k ranges that reach f, from the outer to
\* the inner ones, and may have some that ended just before f.
Open(order, k, f, stack) ==
    /\ \A i \in 1 .. Len(stack) : \E j \in 1 .. k : stack[i] = order[j]
    /\ \A i, j \in 1 .. Len(stack) : i < j => Inside(stack[j], stack[i])
    /\ \A i \in 1 .. Len(stack) : stack[i].first <= f /\ f <= stack[i].last + 1
    /\ \A j \in 1 .. k : (\E i \in 1 .. Len(stack) : stack[i] = order[j]) \/ order[j].last < f

TopId(stack) == IF stack = <<>> THEN 0 ELSE stack[Len(stack)].id

\* The first k ranges have been swept up to f.
SweptTo(order, k, f, s) ==
    /\ Open(order, k, f, s.stack)
    /\ Rising(s.steps, f)
    /\ IdAfter(s.steps, Len(s.steps)) = TopId(s.stack)
    /\ \A a \in Addr : a < f => Decided(s.steps, order, k, a)
    /\ s.steps = <<>> => s.stack = <<>> /\ k = 0 /\ order[1].first = 0
    /\ s.steps # <<>> => s.steps[1].bound = 0

\* From f on the steps say the innermost open range, as far as it goes.
LEMMA TopAnswers ==
    ASSUME NEW order, Nested(order), NEW k \in 0 .. Len(order), NEW f \in Nat,
           NEW s \in Sweeps, SweptTo(order, k, f, s),
           NEW a \in Addr, f <= a, s.stack # <<>> => a <= s.stack[Len(s.stack)].last
    PROVE  Decided(s.steps, order, k, a)
<1> DEFINE stack == s.stack
           steps == s.steps
           n == Len(stack)
           m == Len(steps)
<1>1. /\ stack \in Seq(RangeRoute) /\ n \in Nat /\ \A i \in 1 .. n : stack[i] \in RangeRoute
      /\ steps \in Seq(Step) /\ m \in Nat /\ \A i \in 1 .. m : steps[i] \in Step
  <2>1. stack \in Seq(RangeRoute) /\ steps \in Seq(Step)
    BY DEF Sweeps
  <2> QED BY <2>1, LenProperties, ElementOfSeq
<1>2. \A x \in Addr : x \in Nat
  BY PowersOfTwo, WidthAssumption DEF Addr
<1>3. Says(steps, a, TopId(stack))
  <2>1. m \in 0 .. m /\ TopId(stack) = IdAfter(steps, m)
    BY <1>1 DEF SweptTo
  <2>2. \A i \in 1 .. m : steps[i].bound <= a
    <3> SUFFICES ASSUME NEW i \in 1 .. m PROVE steps[i].bound <= a
      OBVIOUS
    <3>1. steps[i].bound <= f /\ steps[i].bound \in Nat
      BY <1>1, <1>2 DEF SweptTo, Rising, Step
    <3> QED BY <1>2, <3>1
  <2>3. \A i \in m + 1 .. m : a < steps[i].bound
    BY <1>1
  <2> QED BY <2>1, <2>2, <2>3 DEF Says
<1>4. /\ \A i \in 1 .. n : \E j \in 1 .. k : stack[i] = order[j]
      /\ \A i, j \in 1 .. n : i < j => Inside(stack[j], stack[i])
      /\ \A i \in 1 .. n : stack[i].first <= f
      /\ \A j \in 1 .. k : (\E i \in 1 .. n : stack[i] = order[j]) \/ order[j].last < f
  BY DEF SweptTo, Open
<1>5. \A j \in 1 .. k : order[j] \in RangeRoute
  <2>1. order \in Seq(RangeRoute) /\ Len(order) \in Nat
    BY LenProperties DEF Nested
  <2>2. \A j \in 1 .. k : j \in 1 .. Len(order)
    BY <2>1
  <2> QED BY <2>1, <2>2, ElementOfSeq
<1>6. \A r \in RangeRoute : r.first \in Nat /\ r.last \in Nat /\ r.id \in Nat
  BY <1>2 DEF RangeRoute
<1>7. CASE stack = <<>>
  <2>1. n = 0
    BY <1>7
  <2>2. \A j \in 1 .. k : ~Holds(order[j], a)
    BY <1>2, <1>4, <1>5, <1>6, <2>1 DEF Holds
  <2>3. TopId(stack) = 0
    BY <1>7 DEF TopId
  <2> QED BY <1>3, <2>2, <2>3 DEF Decided, Wins
<1>8. CASE stack # <<>>
  <2>1. n \in 1 .. n
    BY <1>1, <1>8, EmptySeq
  <2>2. PICK j \in 1 .. k : stack[n] = order[j]
    BY <1>4, <2>1
  <2>3. TopId(stack) = order[j].id /\ order[j].id \in Nat
    BY <1>5, <1>6, <1>8, <2>2 DEF TopId
  <2>4. Holds(order[j], a)
    <3>1. order[j].first <= f /\ a <= order[j].last
      BY <1>4, <1>8, <2>1, <2>2
    <3> QED BY <1>2, <1>5, <1>6, <3>1 DEF Holds
  <2>5. ASSUME NEW i \in 1 .. k, Holds(order[i], a)
        PROVE  Inside(order[j], order[i])
    <3>1. order[i] \in RangeRoute /\ order[i].last \in Nat /\ a <= order[i].last
      BY <1>5, <1>6, <2>5 DEF Holds
    <3>2. PICK l \in 1 .. n : stack[l] = order[i]
      BY <1>2, <1>4, <3>1
    <3>3. CASE l = n
      <4>1. order[i] = order[j] /\ order[j].first \in Nat /\ order[j].last \in Nat
        BY <1>5, <1>6, <2>2, <3>2, <3>3
      <4> QED BY <4>1 DEF Inside
    <3>4. CASE l # n
      <4>1. l < n
        BY <1>1, <3>4
      <4> QED BY <1>4, <2>1, <2>2, <3>2, <4>1
    <3> QED BY <3>3, <3>4
  <2>6. Wins(order, k, a, TopId(stack))
    BY <2>3, <2>4, <2>5 DEF Wins
  <2> QED BY <1>3, <2>3, <2>6 DEF Decided
<1> QED BY <1>7, <1>8

\* Some ranges may be left out of the stack when they have ended.
Popped(order, k, limit, s, after) ==
    /\ after \in Sweeps
    /\ Len(after.stack) = Len(s.stack) - 1
    /\ \E f \in 0 .. limit : f \in Addr /\ SweptTo(order, k, f, after)

\* Leaving the innermost range before the limit takes it off the stack and leaves the
\* rest swept to its end.
LEMMA LeaveKeeps ==
    ASSUME NEW order, Nested(order), NEW k \in 0 .. Len(order), NEW limit \in 0 .. Pow2[Width],
           NEW f \in 0 .. limit, f \in Addr, NEW s \in Sweeps, SweptTo(order, k, f, s),
           s.stack # <<>>, s.stack[Len(s.stack)].last < limit,
           s.stack[Len(s.stack)].last # Pow2[Width] - 1
    PROVE  Popped(order, k, limit, s, Leave(limit, s))
<1> DEFINE stack == s.stack
           steps == s.steps
           n == Len(stack)
           top == stack[n]
           b == top.last + 1
           outer == IF n > 1 THEN stack[n - 1].id ELSE 0
           left == Front(stack)
           after == emit(steps, b, outer)
           popped == [stack |-> left, steps |-> after]
<1>1. /\ stack \in Seq(RangeRoute) /\ n \in Nat /\ \A i \in 1 .. n : stack[i] \in RangeRoute
      /\ steps \in Seq(Step)
  <2>1. stack \in Seq(RangeRoute) /\ steps \in Seq(Step)
    BY DEF Sweeps
  <2> QED BY <2>1, LenProperties, ElementOfSeq
<1>2. Pow2[Width] \in Nat \ {0} /\ \A x \in Nat : x \in Addr <=> x < Pow2[Width]
  <2>1. Pow2[Width] \in Nat \ {0}
    BY PowersOfTwo, WidthAssumption
  <2> QED BY <2>1 DEF Addr
<1>3. n # 0 /\ n \in 1 .. n /\ top \in RangeRoute
  BY <1>1, EmptySeq
<1>4. top.first \in Nat /\ top.last \in Nat /\ top.last \in Addr /\ limit \in Nat /\ f \in Nat
  BY <1>2, <1>3 DEF RangeRoute, Addr
<1>5. b \in Addr /\ b \in 0 .. limit
  <2>1. top.last < limit /\ top.last # Pow2[Width] - 1 /\ top.last < Pow2[Width]
    BY <1>2, <1>4
  <2>2. b \in Nat /\ b < Pow2[Width] /\ b \in 0 .. limit
    <3> HIDE DEF top
    <3> QED BY <1>2, <1>4, <2>1
  <2> HIDE DEF b
  <2> QED BY <1>2, <2>2
<1>6. Leave(limit, s) = popped
  <2>1. ~(n = 0 \/ top.last >= limit)
    BY <1>3, <1>4
  <2> HIDE DEF top, outer
  <2>2. Leave(limit, s) = IF n = 0 \/ top.last >= limit THEN s
                          ELSE [stack |-> Front(s.stack),
                                steps |-> IF top.last = Pow2[Width] - 1 THEN s.steps
                                          ELSE emit(s.steps, top.last + 1, outer)]
    BY DEF Leave, top, outer
  <2> QED BY <2>1, <2>2 DEF top
<1>7. /\ left \in Seq(RangeRoute)
      /\ Len(left) = n - 1
      /\ \A i \in 1 .. n - 1 : left[i] = stack[i]
  <2>1. left = SubSeq(stack, 1, n - 1)
    BY DEF Front
  <2> HIDE DEF n, left
  <2>2. 1 \in 1 .. n + 1 /\ n - 1 \in 0 .. n
    BY <1>1, <1>3
  <2> QED BY <1>1, <1>3, <2>1, <2>2, SubSeqProperties DEF n
<1>8. outer \in Nat /\ outer = TopId(left)
  <2>1. CASE n > 1
    <3>1. n - 1 \in 1 .. n - 1 /\ n - 1 \in 1 .. n
      BY <1>1, <2>1
    <3>2. left # <<>> /\ left[Len(left)] = stack[n - 1]
      BY <1>7, <3>1
    <3>3. stack[n - 1].id \in Nat
      BY <1>1, <3>1 DEF RangeRoute
    <3> HIDE DEF left
    <3> QED BY <2>1, <3>2, <3>3 DEF TopId
  <2>2. CASE ~(n > 1)
    <3>1. n = 1 /\ Len(left) = 0
      <4> HIDE DEF n, left
      <4> QED BY <1>1, <1>3, <1>7, <2>2
    <3> HIDE DEF left
    <3>2. left = <<>>
      BY <1>7, <3>1, EmptySeq
    <3> QED BY <2>2, <3>2 DEF TopId
  <2> QED BY <2>1, <2>2
<1>9. /\ \A i \in 1 .. n : \E j \in 1 .. k : stack[i] = order[j]
      /\ \A i, j \in 1 .. n : i < j => Inside(stack[j], stack[i])
      /\ \A i \in 1 .. n : stack[i].first <= f /\ f <= stack[i].last + 1
      /\ \A j \in 1 .. k : (\E i \in 1 .. n : stack[i] = order[j]) \/ order[j].last < f
  BY DEF SweptTo, Open
<1>10. f <= b
  BY <1>3, <1>9
<1>11. Rising(steps, f) /\ steps # <<>> /\ steps[1].bound = 0
  BY DEF SweptTo
<1>12. Rising(steps, b)
  <2>1. \A i \in 1 .. Len(steps) : steps[i].bound \in Nat
    <3>1. \A e \in Step : e.bound \in Nat
      BY <1>2 DEF Step, Addr
    <3>2. \A i \in 1 .. Len(steps) : steps[i] \in Step
      BY <1>1, ElementOfSeq
    <3> QED BY <3>1, <3>2
  <2> HIDE DEF b, steps
  <2>2. b \in Nat
    BY <1>4 DEF b
  <2>3. \A i \in 1 .. Len(steps) : steps[i].bound <= b
    BY <1>4, <1>10, <1>11, <2>1, <2>2 DEF Rising
  <2> QED BY <1>11, <2>3 DEF Rising
<1>13. Extends(steps, after, b, outer)
  <2> HIDE DEF b, outer, steps
  <2> QED BY <1>1, <1>5, <1>8, <1>12, EmitExtends
<1>14. /\ after \in Seq(Step) /\ Rising(after, b) /\ IdAfter(after, Len(after)) = outer
       /\ after # <<>> /\ after[1].bound = 0
       /\ \A a \in Addr : \A x \in Nat : a < b /\ Says(steps, a, x) => Says(after, a, x)
  <2> HIDE DEF after, b, outer, steps
  <2> QED BY <1>11, <1>13 DEF Extends
<1>15. \A a \in Addr : a < b => Decided(after, order, k, a)
  <2> SUFFICES ASSUME NEW a \in Addr, a < b PROVE Decided(after, order, k, a)
    OBVIOUS
  <2>1. Decided(steps, order, k, a)
    <3>1. CASE a < f
      BY <3>1 DEF SweptTo
    <3>2. CASE f <= a
      <4>1. a <= top.last
        BY <1>2, <1>4 DEF Addr
      <4> QED BY <1>4, <3>2, <4>1, TopAnswers
    <3>3. a \in Nat
      BY <1>2 DEF Addr
    <3> QED BY <1>4, <3>1, <3>2, <3>3
  <2> HIDE DEF after, b
  <2> QED BY <1>14, <2>1 DEF Decided
<1>16. Open(order, k, b, left)
  <2> HIDE DEF left
  <2>1. \A i \in 1 .. n - 1 : i \in 1 .. n /\ i < n
    BY <1>1
  <2>2. \A i \in 1 .. Len(left) : \E j \in 1 .. k : left[i] = order[j]
    BY <1>7, <1>9, <2>1
  <2>3. \A i, j \in 1 .. Len(left) : i < j => Inside(left[j], left[i])
    BY <1>7, <1>9, <2>1
  <2>4. ASSUME NEW i \in 1 .. Len(left) PROVE left[i].first <= b /\ b <= left[i].last + 1
    <3>1. left[i] = stack[i] /\ stack[i].first <= f /\ Inside(top, stack[i]) /\ stack[i] \in RangeRoute
      BY <1>1, <1>3, <1>7, <1>9, <2>1
    <3>2. left[i].first \in Nat /\ left[i].last \in Nat /\ top.last <= left[i].last /\ left[i].first <= f
      BY <1>2, <3>1 DEF RangeRoute, Addr, Inside
    <3>3. b \in Nat /\ b <= left[i].last + 1
      <4>1. top.last \in Nat /\ left[i].last \in Nat /\ top.last <= left[i].last
        BY <1>4, <3>2
      <4> DEFINE x == top.last
                 y == left[i].last
      <4>2. b = x + 1
        OBVIOUS
      <4> HIDE DEF x, y, b
      <4>3. x \in Nat /\ y \in Nat /\ x <= y
        BY <4>1 DEF x, y
      <4>4. b \in Nat /\ b <= y + 1
        BY <4>2, <4>3
      <4> QED BY <4>4 DEF y
    <3> HIDE DEF b
    <3> QED BY <1>4, <1>10, <3>2, <3>3
  <2>5. ASSUME NEW j \in 1 .. k
        PROVE  (\E i \in 1 .. Len(left) : left[i] = order[j]) \/ order[j].last < b
    <3>1. CASE order[j].last < f
      <4>1. order[j] \in RangeRoute
        <5>1. order \in Seq(RangeRoute) /\ Len(order) \in Nat
          BY LenProperties DEF Nested
        <5>2. j \in 1 .. Len(order)
          BY <5>1
        <5> QED BY <5>1, <5>2, ElementOfSeq
      <4>2. order[j].last \in Nat
        BY <1>2, <4>1 DEF RangeRoute, Addr
      <4> QED BY <1>4, <1>10, <3>1, <4>2
    <3>2. ASSUME NEW i \in 1 .. n, stack[i] = order[j] PROVE (\E l \in 1 .. Len(left) : left[l] = order[j]) \/ order[j].last < b
      <4>1. CASE i = n
        BY <1>4, <3>2, <4>1
      <4>2. CASE i # n
        <5>1. i \in 1 .. n - 1
          BY <1>1, <4>2
        <5> QED BY <1>7, <3>2, <5>1
      <4> QED BY <4>1, <4>2
    <3> QED BY <1>9, <3>1, <3>2
  <2> HIDE DEF b
  <2> QED BY <2>2, <2>3, <2>4, <2>5 DEF Open
<1> HIDE DEF left, after, b, outer
<1>17. popped \in Sweeps /\ popped.stack = left /\ popped.steps = after
  BY <1>7, <1>14 DEF Sweeps
<1>18. SweptTo(order, k, b, popped)
  BY <1>8, <1>14, <1>15, <1>16, <1>17 DEF SweptTo
<1> HIDE DEF popped
<1> QED BY <1>5, <1>6, <1>7, <1>17, <1>18 DEF Popped

\* emit yields steps.
LEMMA EmitType ==
    ASSUME NEW steps \in Seq(Step), NEW b \in Addr, NEW id \in Nat
    PROVE  emit(steps, b, id) \in Seq(Step)
<1> DEFINE n == Len(steps)
           e == [bound |-> b, id |-> id]
<1>1. n \in Nat /\ steps \in [1 .. n -> Step]
  BY LenProperties
<1>2. e \in Step
  BY DEF Step
<1> HIDE DEF e, n
<1>3. <<e>> \in Seq(Step) /\ Append(steps, e) \in Seq(Step)
  BY <1>2, AppendProperties
<1>4. ASSUME n # 0 PROVE [steps EXCEPT ![n].id = id] \in Seq(Step)
  <2>1. n \in 1 .. n /\ steps[n] \in Step
    BY <1>1, <1>4
  <2>2. [steps[n] EXCEPT !.id = id] \in Step
    BY <2>1 DEF Step
  <2>3. [steps EXCEPT ![n].id = id] = [steps EXCEPT ![n] = [steps[n] EXCEPT !.id = id]]
    BY <1>1, <2>1
  <2>4. [steps EXCEPT ![n].id = id] \in [1 .. n -> Step]
    BY <1>1, <2>2, <2>3
  <2> QED BY <1>1, <2>4
<1> QED BY <1>3, <1>4 DEF emit, e, n

\* Leave keeps the sweep's types.
LEMMA LeaveType ==
    ASSUME NEW s \in Sweeps, NEW limit
    PROVE  Leave(limit, s) \in Sweeps
<1> DEFINE n == Len(s.stack)
           top == s.stack[n]
           outer == IF n > 1 THEN s.stack[n - 1].id ELSE 0
           steps == IF top.last = Pow2[Width] - 1 THEN s.steps ELSE emit(s.steps, top.last + 1, outer)
<1>1. /\ s.stack \in Seq(RangeRoute) /\ n \in Nat /\ s.steps \in Seq(Step)
      /\ \A i \in 1 .. n : s.stack[i] \in RangeRoute
  <2>1. s.stack \in Seq(RangeRoute) /\ s.steps \in Seq(Step)
    BY DEF Sweeps
  <2> QED BY <2>1, LenProperties, ElementOfSeq
<1>2. CASE n = 0 \/ top.last >= limit
  BY <1>2 DEF Leave
<1>3. CASE ~(n = 0 \/ top.last >= limit)
  <2>1. Leave(limit, s) = [stack |-> Front(s.stack), steps |-> steps]
    BY <1>3 DEF Leave
  <2>2. n \in 1 .. n /\ top \in RangeRoute
    BY <1>1, <1>3
  <2>3. Front(s.stack) \in Seq(RangeRoute)
    <3>1. Front(s.stack) = SubSeq(s.stack, 1, n - 1)
      BY DEF Front
    <3> HIDE DEF n
    <3>2. 1 \in 1 .. n + 1 /\ n - 1 \in 0 .. n
      BY <1>1, <2>2
    <3> QED BY <1>1, <3>1, <3>2, SubSeqProperties DEF n
  <2>4. outer \in Nat
    <3>1. ASSUME n > 1 PROVE s.stack[n - 1].id \in Nat
      <4> HIDE DEF n
      <4>1. n - 1 \in 1 .. n
        BY <1>1, <3>1
      <4> QED BY <1>1, <4>1 DEF RangeRoute
    <3> QED BY <3>1
  <2>5. steps \in Seq(Step)
    <3>1. ASSUME top.last # Pow2[Width] - 1 PROVE top.last + 1 \in Addr
      <4>1. Pow2[Width] \in Nat \ {0}
        BY PowersOfTwo, WidthAssumption
      <4>2. top.last \in 0 .. Pow2[Width] - 1
        BY <2>2 DEF RangeRoute, Addr
      <4> HIDE DEF top
      <4> QED BY <3>1, <4>1, <4>2 DEF Addr
    <3> HIDE DEF top, outer
    <3> QED BY <1>1, <2>4, <3>1, EmitType
  <2> HIDE DEF steps
  <2> QED BY <2>1, <2>3, <2>5 DEF Sweeps
<1> QED BY <1>2, <1>3

\* LeaveAll leaves once for each range of the stack that it is given.
LeavesInTurn(g, limit, s) ==
    /\ g[0] = s
    /\ g[Len(s.stack)] \in Sweeps
    /\ \A m \in 1 .. Len(s.stack) : g[m] = Leave(limit, g[m - 1])
    /\ LeaveAll(limit, s) = g[Len(s.stack)]

\* LeaveAll is as many single Leaves as there were ranges on the stack.
LEMMA LeavingInTurn ==
    ASSUME NEW s \in Sweeps, NEW limit
    PROVE  \E g : LeavesInTurn(g, limit, s)
<1> DEFINE n == Len(s.stack)
           step == [x \in Sweeps \X Nat |-> Leave(limit, x[1])]
           Equation(f) ==
               f = [t \in SUBSET (1 .. n) |-> IF t = {} THEN s ELSE Leave(limit, f[t \ {Max(t)}])]
           fold == CHOOSE f : Equation(f)
<1>1. n \in Nat /\ DOMAIN s.stack = 1 .. n
  <2>1. s.stack \in Seq(RangeRoute)
    BY DEF Sweeps
  <2> QED BY <2>1, LenProperties
<1>2. step \in [Sweeps \X Nat -> Sweeps]
  BY LeaveType
<1>3. PICK f \in [SUBSET (1 .. n) -> Sweeps] : Folds(f, s, step, n)
  <2> HIDE DEF step, n
  <2> QED BY <1>1, <1>2, Folding
<1>4. ASSUME NEW t \in SUBSET (1 .. n), t # {}
      PROVE  /\ Max(t) \in t
             /\ f[t] = Leave(limit, f[t \ {Max(t)}])
  <2>1. Max(t) \in t
    <3>1. t \in SUBSET Nat /\ \A i \in t : i <= n
      BY <1>1
    <3> QED BY <1>1, <1>4, <3>1, GreatestElement
  <2>2. f[t] = step[<<f[t \ {Max(t)}], Max(t)>>]
    BY <1>3, <1>4 DEF Folds
  <2>3. f[t \ {Max(t)}] \in Sweeps /\ Max(t) \in Nat
    <3>1. t \ {Max(t)} \in SUBSET (1 .. n) /\ Max(t) \in 1 .. n
      BY <2>1
    <3> QED BY <1>3, <3>1
  <2> QED BY <2>1, <2>2, <2>3
<1>5. Equation(f)
  <2>1. f = [t \in SUBSET (1 .. n) |-> f[t]]
    BY <1>3
  <2>2. f[{}] = s
    BY <1>3 DEF Folds
  <2> QED BY <1>4, <2>1, <2>2
<1>6. Equation(fold)
  <2> HIDE DEF Equation
  <2> QED BY <1>5
<1>7. LeaveAll(limit, s) = fold[1 .. n]
  BY <1>1 DEF LeaveAll, FoldLeft, MapThenFoldSet
<1> HIDE DEF fold, step
<1>8. fold[1 .. n] = f[1 .. n]
  <2>1. fold[{}] = f[{}]
    BY <1>5, <1>6
  <2>2. ASSUME NEW t \in SUBSET (1 .. n), t # {}, Max(t) \in t, fold[t \ {Max(t)}] = f[t \ {Max(t)}]
        PROVE  fold[t] = f[t]
    <3>1. fold[t] = Leave(limit, fold[t \ {Max(t)}])
      BY <1>6, <2>2
    <3> QED BY <1>4, <2>2, <3>1
  <2>3. FoldAlike(fold, f, n)
    BY <2>1, <2>2 DEF FoldAlike
  <2> HIDE DEF n
  <2> QED BY <1>1, <2>3, FoldsAgree
<1> DEFINE g == [m \in 0 .. n |-> f[1 .. m]]
<1>9. ASSUME NEW m \in 1 .. n PROVE f[1 .. m] = Leave(limit, f[1 .. m - 1])
  <2>1. 1 .. m \in SUBSET (1 .. n) /\ 1 .. m # {}
    <3> HIDE DEF n, Equation, g
    <3>1. m \in 1 .. m /\ \A i \in 1 .. m : i \in 1 .. n
      BY <1>1
    <3> QED BY <3>1
  <2>2. Max(1 .. m) = m
    <3>1. 1 .. m \in SUBSET Nat /\ (\A i \in 1 .. m : i <= m) /\ m \in Nat /\ m \in 1 .. m
      BY <1>1
    <3>2. Max(1 .. m) \in 1 .. m /\ \A i \in 1 .. m : i <= Max(1 .. m)
      BY <2>1, <3>1, GreatestElement
    <3> QED BY <3>1, <3>2
  <2>3. (1 .. m) \ {m} = 1 .. m - 1
    BY <1>1
  <2> QED BY <1>4, <2>1, <2>2, <2>3
<1>10. g[0] = s
  <2>1. 1 .. 0 = {} /\ 0 \in 0 .. n
    BY <1>1
  <2> QED BY <1>3, <2>1 DEF Folds
<1>11. \A m \in 1 .. n : g[m] = Leave(limit, g[m - 1])
  BY <1>1, <1>9
<1>12. LeaveAll(limit, s) = g[n]
  BY <1>1, <1>7, <1>8
<1>13. g[n] \in Sweeps
  <2>1. 1 .. n \in SUBSET (1 .. n) /\ n \in 0 .. n
    BY <1>1
  <2> QED BY <1>3, <2>1
<1> HIDE DEF g
<1>14. LeavesInTurn(g, limit, s)
  BY <1>10, <1>11, <1>12, <1>13 DEF LeavesInTurn
<1> QED BY <1>14

\* All addresses are decided, and what is still open ends with the address space.
Over(order, k, s) ==
    /\ \A i \in 1 .. Len(s.stack) : s.stack[i].last = Pow2[Width] - 1
    /\ \A a \in Addr : Decided(s.steps, order, k, a)
    /\ Rising(s.steps, Pow2[Width] - 1)
    /\ s.steps # <<>> /\ s.steps[1].bound = 0

\* On the way to a limit.
Leaving(order, k, limit, s) ==
    \/ \E f \in 0 .. limit : f \in Addr /\ SweptTo(order, k, f, s)
    \/ limit = Pow2[Width] /\ Over(order, k, s)

\* Nothing open ends before the limit.
Reaches(limit, stack) == stack = <<>> \/ limit <= stack[Len(stack)].last

\* One Leave on that way.
LeaveStep(order, k, limit, s, after) ==
    /\ after \in Sweeps
    /\ Leaving(order, k, limit, after)
    /\ IF Reaches(limit, s.stack) THEN after = s ELSE Len(after.stack) = Len(s.stack) - 1

\* One Leave does its part whether it takes a range off, finds one that reaches the
\* limit or one that ends with the address space.
LEMMA LeavingOnce ==
    ASSUME NEW order, Nested(order), NEW k \in 0 .. Len(order), NEW limit \in 0 .. Pow2[Width],
           NEW s \in Sweeps, Leaving(order, k, limit, s)
    PROVE  LeaveStep(order, k, limit, s, Leave(limit, s))
<1> DEFINE stack == s.stack
           n == Len(stack)
           top == stack[n]
           end == Pow2[Width]
<1>1. /\ stack \in Seq(RangeRoute) /\ n \in Nat /\ \A i \in 1 .. n : stack[i] \in RangeRoute
  <2>1. stack \in Seq(RangeRoute)
    BY DEF Sweeps
  <2> QED BY <2>1, LenProperties, ElementOfSeq
<1>2. end \in Nat \ {0} /\ limit \in Nat
  <2>1. end \in Nat \ {0}
    BY PowersOfTwo, WidthAssumption
  <2> QED BY <2>1
<1>3. \A r \in RangeRoute : r.last \in 0 .. end - 1 /\ r.last \in Nat
  <2> HIDE DEF end
  <2>1. \A x \in 0 .. end - 1 : x \in Nat
    BY <1>2
  <2> QED BY <2>1 DEF RangeRoute, Addr, end
<1>4. Leave(limit, s) \in Sweeps
  BY LeaveType
<1>5. CASE Reaches(limit, stack)
  <2>1. n = 0 \/ top.last >= limit
    <3>1. CASE stack = <<>>
      BY <3>1
    <3>2. CASE stack # <<>>
      <4>1. n \in 1 .. n /\ limit <= top.last
        BY <1>1, <1>5, <3>2, EmptySeq DEF Reaches
      <4>2. top.last \in Nat
        BY <1>1, <1>3, <4>1
      <4> HIDE DEF top
      <4> QED BY <1>2, <4>1, <4>2
    <3> QED BY <3>1, <3>2
  <2>2. Leave(limit, s) = s
    BY <2>1 DEF Leave
  <2> QED BY <1>5, <2>2 DEF LeaveStep
<1>6. CASE ~Reaches(limit, stack)
  <2>1. stack # <<>> /\ n # 0 /\ n \in 1 .. n /\ top.last \in 0 .. end - 1 /\ top.last < limit
    <3>1. stack # <<>> /\ ~(limit <= top.last)
      BY <1>6 DEF Reaches
    <3>2. n # 0 /\ n \in 1 .. n
      BY <1>1, <3>1, EmptySeq
    <3>3. top.last \in 0 .. end - 1 /\ top.last \in Nat
      BY <1>1, <1>3, <3>2
    <3> HIDE DEF top, end
    <3> QED BY <1>2, <3>1, <3>2, <3>3
  <2>2. ASSUME NEW f \in 0 .. limit, f \in Addr, SweptTo(order, k, f, s), top.last # end - 1
        PROVE  LeaveStep(order, k, limit, s, Leave(limit, s))
    <3>1. Popped(order, k, limit, s, Leave(limit, s))
      BY <2>1, <2>2, LeaveKeeps
    <3> QED BY <1>6, <3>1 DEF Popped, LeaveStep, Leaving
  <2>3. ASSUME NEW f \in 0 .. limit, f \in Addr, SweptTo(order, k, f, s), top.last = end - 1
        PROVE  Over(order, k, s)
    <3>1. \A i \in 1 .. n : stack[i].last = end - 1
      <4> SUFFICES ASSUME NEW i \in 1 .. n PROVE stack[i].last = end - 1
        OBVIOUS
      <4>1. i = n \/ i < n
        BY <1>1
      <4>2. i < n => top.last <= stack[i].last
        BY <2>1, <2>3 DEF SweptTo, Open, Inside
      <4>3. stack[i].last \in 0 .. end - 1
        BY <1>1, <1>3
      <4>4. CASE i = n
        BY <2>3, <4>4
      <4>5. CASE i < n
        <5>1. end - 1 <= stack[i].last
          BY <2>3, <4>2, <4>5
        <5> HIDE DEF end, stack
        <5> QED BY <1>2, <4>3, <5>1
      <4> QED BY <4>1, <4>4, <4>5
    <3>2. ASSUME NEW a \in Addr PROVE Decided(s.steps, order, k, a)
      <4>1. f \in Nat /\ a \in Nat /\ a <= end - 1
        <5> HIDE DEF end
        <5> QED BY <1>2 DEF Addr, end
      <4>2. CASE a < f
        BY <2>3, <4>2 DEF SweptTo
      <4>3. CASE f <= a
        <5>1. a <= top.last
          BY <2>3, <4>1
        <5> QED BY <2>3, <4>1, <4>3, <5>1, TopAnswers
      <4> QED BY <4>1, <4>2, <4>3
    <3>3. Rising(s.steps, end - 1)
      <4>1. Rising(s.steps, f)
        BY <2>3 DEF SweptTo
      <4>2. \A i \in 1 .. Len(s.steps) : s.steps[i].bound <= end - 1
        <5> SUFFICES ASSUME NEW i \in 1 .. Len(s.steps) PROVE s.steps[i].bound <= end - 1
          OBVIOUS
        <5>1. s.steps[i] \in Step
          <6>1. s.steps \in Seq(Step)
            BY DEF Sweeps
          <6> QED BY <6>1, ElementOfSeq
        <5> HIDE DEF end
        <5> QED BY <1>2, <5>1 DEF Step, Addr, end
      <4> QED BY <4>1, <4>2 DEF Rising
    <3>4. s.steps # <<>> /\ s.steps[1].bound = 0
      BY <2>1, <2>3 DEF SweptTo
    <3> QED BY <3>1, <3>2, <3>3, <3>4 DEF Over
  <2>4. ASSUME limit = end, Over(order, k, s)
        PROVE  LeaveStep(order, k, limit, s, Leave(limit, s))
    <3>1. top.last = end - 1
      BY <2>1, <2>4 DEF Over
    <3>2. Leave(limit, s) = [stack |-> Front(stack), steps |-> s.steps]
      <4>1. ~(n = 0 \/ top.last >= limit)
        <5> HIDE DEF top, n, end
        <5> QED BY <1>1, <1>2, <2>1
      <4>2. Leave(limit, s) = IF n = 0 \/ top.last >= limit THEN s
                              ELSE [stack |-> Front(s.stack),
                                    steps |-> IF top.last = Pow2[Width] - 1 THEN s.steps
                                              ELSE emit(s.steps, top.last + 1, IF n > 1 THEN s.stack[n - 1].id ELSE 0)]
        BY DEF Leave
      <4> HIDE DEF top
      <4> QED BY <3>1, <4>1, <4>2
    <3>3. /\ Len(Front(stack)) = n - 1
          /\ \A i \in 1 .. n - 1 : Front(stack)[i] = stack[i]
      <4>1. Front(stack) = SubSeq(stack, 1, n - 1)
        BY DEF Front
      <4> HIDE DEF n
      <4>2. 1 \in 1 .. n + 1 /\ n - 1 \in 0 .. n
        BY <1>1, <2>1
      <4> QED BY <1>1, <2>1, <4>1, <4>2, SubSeqProperties DEF n
    <3> DEFINE after == [stack |-> Front(stack), steps |-> s.steps]
    <3>4. Over(order, k, after)
      <4>1. after.stack = Front(stack) /\ after.steps = s.steps
        OBVIOUS
      <4>2. \A i \in 1 .. Len(after.stack) : after.stack[i].last = end - 1
        <5>1. \A i \in 1 .. n - 1 : i \in 1 .. n
          BY <1>1
        <5> HIDE DEF n
        <5> QED BY <2>4, <3>3, <4>1, <5>1 DEF Over, n
      <4> HIDE DEF after
      <4> QED BY <2>4, <4>1, <4>2 DEF Over
    <3>5. Len(after.stack) = n - 1
      BY <3>3
    <3> HIDE DEF after
    <3>6. Leave(limit, s) = after
      BY <3>2 DEF after
    <3>7. Leaving(order, k, limit, after)
      BY <2>4, <3>4 DEF Leaving
    <3> QED BY <1>4, <1>6, <3>5, <3>6, <3>7 DEF LeaveStep
  <2>5. ASSUME NEW f \in 0 .. limit, f \in Addr, top.last = end - 1
        PROVE  limit = end
    <3> HIDE DEF top, end
    <3>1. limit \in 0 .. end
      BY DEF end
    <3> QED BY <1>2, <2>1, <2>5, <3>1
  <2> QED BY <2>2, <2>3, <2>4, <2>5 DEF Leaving
<1> QED BY <1>5, <1>6

\* All of them.
LEMMA LeavingAll ==
    ASSUME NEW order, Nested(order), NEW k \in 0 .. Len(order), NEW limit \in 0 .. Pow2[Width],
           NEW s \in Sweeps, Leaving(order, k, limit, s)
    PROVE  /\ LeaveAll(limit, s) \in Sweeps
           /\ Leaving(order, k, limit, LeaveAll(limit, s))
           /\ Reaches(limit, LeaveAll(limit, s).stack)
<1> DEFINE n == Len(s.stack)
           OnTheWay(m, x) == /\ x \in Sweeps
                             /\ Leaving(order, k, limit, x)
                             /\ Reaches(limit, x.stack) \/ Len(x.stack) = n - m
<1>1. n \in Nat
  <2>1. s.stack \in Seq(RangeRoute)
    BY DEF Sweeps
  <2> QED BY <2>1, LenProperties
<1>2. PICK g : LeavesInTurn(g, limit, s)
  BY LeavingInTurn
<1>3. \A m \in 0 .. n : OnTheWay(m, g[m])
  <2> DEFINE odd == {m \in 0 .. n : ~OnTheWay(m, g[m])}
  <2> SUFFICES ASSUME odd # {} PROVE FALSE
    OBVIOUS
  <2>1. PICK m \in odd : \A j \in odd : m <= j
    <3>1. odd \in SUBSET Nat
      BY <1>1
    <3> HIDE DEF odd
    <3> QED BY <3>1, LeastElement
  <2>2. m \in 0 .. n /\ ~OnTheWay(m, g[m])
    BY <2>1
  <2>3. OnTheWay(0, g[0])
    <3>1. g[0] = s
      BY <1>2 DEF LeavesInTurn
    <3>2. Len(s.stack) = n - 0
      BY <1>1
    <3> QED BY <3>1, <3>2
  <2>4. m \in 1 .. n /\ m - 1 \in 0 .. n /\ m - 1 \notin odd
    <3>1. m # 0
      BY <2>2, <2>3
    <3>2. m \in 1 .. n /\ m - 1 \in 0 .. n /\ ~(m <= m - 1)
      BY <1>1, <2>2, <3>1
    <3> HIDE DEF odd
    <3> QED BY <2>1, <3>2
  <2>5. OnTheWay(m - 1, g[m - 1])
    BY <2>4
  <2>6. g[m] = Leave(limit, g[m - 1])
    BY <1>2, <2>4 DEF LeavesInTurn
  <2>7. LeaveStep(order, k, limit, g[m - 1], g[m])
    BY <2>5, <2>6, LeavingOnce
  <2>8. OnTheWay(m, g[m])
    <3>1. CASE Reaches(limit, g[m - 1].stack)
      BY <2>5, <2>7, <3>1 DEF LeaveStep
    <3>2. CASE ~Reaches(limit, g[m - 1].stack)
      <4>1. Len(g[m].stack) = Len(g[m - 1].stack) - 1 /\ Len(g[m - 1].stack) = n - (m - 1)
        BY <2>5, <2>7, <3>2 DEF LeaveStep
      <4>2. Len(g[m].stack) = n - m
        <5> HIDE DEF n
        <5> QED BY <1>1, <2>4, <4>1
      <4> QED BY <2>7, <4>2 DEF LeaveStep
    <3> QED BY <3>1, <3>2
  <2> QED BY <2>2, <2>8
<1>4. LeaveAll(limit, s) = g[n] /\ n \in 0 .. n
  BY <1>1, <1>2 DEF LeavesInTurn
<1>5. OnTheWay(n, g[n])
  BY <1>3, <1>4
<1>6. ASSUME Len(g[n].stack) = n - n PROVE Reaches(limit, g[n].stack)
  <2>1. g[n].stack \in Seq(RangeRoute)
    BY <1>5 DEF Sweeps
  <2>2. Len(g[n].stack) = 0
    BY <1>1, <1>6
  <2> QED BY <2>1, <2>2, EmptySeq DEF Reaches
<1> QED BY <1>4, <1>5, <1>6

\* What Enter leaves for the next range.
Entered(order, k, after) ==
    /\ after \in Sweeps
    /\ SweptTo(order, k, order[k].first, after)
    /\ after.steps # <<>>

\* Entering the next range in the order leaves the sweep swept to its first address.
LEMMA EnterKeeps ==
    ASSUME NEW order, Nested(order), NEW k \in Nat, k + 1 \in 1 .. Len(order),
           NEW s \in Sweeps, NEW f \in Addr, SweptTo(order, k, f, s), f <= order[k + 1].first
    PROVE  Entered(order, k + 1, Enter(s, order[k + 1]))
<1> DEFINE r == order[k + 1]
           b == r.first
           left == LeaveAll(b, s)
           stack == left.stack
           n == Len(stack)
           extended == emit(left.steps, b, r.id)
           entered == Append(stack, r)
           after == [stack |-> entered, steps |-> extended]
<1>1. /\ order \in Seq(RangeRoute) /\ Len(order) \in Nat
      /\ \A j \in 1 .. Len(order) : order[j] \in RangeRoute
  BY LenProperties, ElementOfSeq DEF Nested
<1>2. Pow2[Width] \in Nat \ {0} /\ \A x \in Addr : x \in Nat /\ x \in 0 .. Pow2[Width] /\ x # Pow2[Width]
  <2>1. Pow2[Width] \in Nat \ {0}
    BY PowersOfTwo, WidthAssumption
  <2> QED BY <2>1 DEF Addr
<1>3. \A x \in RangeRoute : /\ x.first \in Addr /\ x.first \in Nat
                            /\ x.last \in Addr /\ x.last \in Nat
                            /\ x.id \in Nat /\ x.id # 0
  BY <1>2 DEF RangeRoute
<1>4. r \in RangeRoute /\ r.first <= r.last /\ k \in 0 .. Len(order)
  BY <1>1 DEF Nested
<1>5. b \in Addr /\ b \in Nat /\ r.id \in Nat /\ r.id # 0 /\ r.last \in Nat /\ f \in Nat
  BY <1>2, <1>3, <1>4
<1>6. b \in 0 .. Pow2[Width] /\ b # Pow2[Width] /\ f \in 0 .. b
  BY <1>2, <1>5
<1> HIDE DEF r
<1>7. /\ left \in Sweeps
      /\ Leaving(order, k, b, left)
      /\ Reaches(b, stack)
  <2>1. Leaving(order, k, b, s)
    BY <1>6 DEF Leaving
  <2> HIDE DEF b
  <2> QED BY <1>4, <1>6, <2>1, LeavingAll
<1>8. PICK g \in 0 .. b : g \in Addr /\ SweptTo(order, k, g, left)
  BY <1>6, <1>7 DEF Leaving
<1>9. g \in Nat /\ g <= b
  BY <1>2, <1>5, <1>8
<1> HIDE DEF left
<1>10. /\ stack \in Seq(RangeRoute) /\ n \in Nat /\ \A i \in 1 .. n : stack[i] \in RangeRoute
       /\ left.steps \in Seq(Step)
  <2>1. stack \in Seq(RangeRoute) /\ left.steps \in Seq(Step)
    BY <1>7 DEF Sweeps
  <2> QED BY <2>1, LenProperties, ElementOfSeq
<1>11. /\ \A i \in 1 .. n : \E j \in 1 .. k : stack[i] = order[j]
       /\ \A i, j \in 1 .. n : i < j => Inside(stack[j], stack[i])
       /\ \A i \in 1 .. n : stack[i].first <= g
       /\ \A j \in 1 .. k : (\E i \in 1 .. n : stack[i] = order[j]) \/ order[j].last < g
  BY <1>8 DEF SweptTo, Open
<1>12. \A i \in 1 .. n : b <= stack[i].last
  <2> SUFFICES ASSUME NEW i \in 1 .. n PROVE b <= stack[i].last
    OBVIOUS
  <2>1. n \in 1 .. n /\ stack # <<>>
    BY <1>10
  <2>2. b <= stack[n].last
    BY <1>7, <2>1 DEF Reaches
  <2>3. i = n \/ (i < n /\ stack[n].last <= stack[i].last)
    BY <1>10, <1>11, <2>1 DEF Inside
  <2>4. stack[n].last \in Nat /\ stack[i].last \in Nat
    BY <1>3, <1>10, <2>1
  <2> DEFINE x == stack[n].last
             y == stack[i].last
  <2>5. b <= x /\ x <= y /\ b \in Nat /\ x \in Nat /\ y \in Nat
    <3> HIDE DEF stack, n
    <3> QED BY <1>5, <2>2, <2>3, <2>4
  <2> HIDE DEF x, y, b
  <2>6. b <= y
    BY <2>5
  <2> QED BY <2>6 DEF y
<1>13. Rising(left.steps, b)
  <2>1. Rising(left.steps, g)
    BY <1>8 DEF SweptTo
  <2>2. \A i \in 1 .. Len(left.steps) : left.steps[i].bound \in Nat
    <3>1. \A e \in Step : e.bound \in Nat
      BY <1>2 DEF Step
    <3>2. \A i \in 1 .. Len(left.steps) : left.steps[i] \in Step
      BY <1>10, ElementOfSeq
    <3> QED BY <3>1, <3>2
  <2> QED BY <1>5, <1>9, <2>1, <2>2 DEF Rising
<1>14. Extends(left.steps, extended, b, r.id)
  <2> HIDE DEF b
  <2> QED BY <1>5, <1>10, <1>13, EmitExtends
<1>15. left.steps = <<>> => k = 0 /\ b = 0
  BY <1>8 DEF SweptTo, r
<1>16. /\ extended \in Seq(Step) /\ Rising(extended, b)
       /\ IdAfter(extended, Len(extended)) = r.id
       /\ extended # <<>> /\ extended[1].bound = 0
       /\ \A a \in Addr : \A x \in Nat : a < b /\ Says(left.steps, a, x) => Says(extended, a, x)
  <2>1. left.steps # <<>> => left.steps[1].bound = 0
    BY <1>8 DEF SweptTo
  <2> HIDE DEF extended, b
  <2> QED BY <1>5, <1>14, <1>15, <2>1 DEF Extends
<1>17. /\ entered \in Seq(RangeRoute)
       /\ Len(entered) = n + 1
       /\ \A i \in 1 .. n : entered[i] = stack[i]
       /\ entered[n + 1] = r
  <2> HIDE DEF stack
  <2> QED BY <1>4, <1>10, AppendProperties
<1> HIDE DEF entered, extended
<1>18. Open(order, k + 1, b, entered)
  <2>1. \A i \in 1 .. n + 1 : i \in 1 .. n \/ i = n + 1
    <3>1. n \in Nat
      BY <1>10
    <3> HIDE DEF n
    <3> QED BY <3>1
  <2>2. \A j \in 1 .. k : j \in 1 .. k + 1 /\ j < k + 1 /\ j \in 1 .. Len(order)
    BY <1>1
  <2>3. \A i \in 1 .. n + 1 : \E j \in 1 .. k + 1 : entered[i] = order[j]
    <3> SUFFICES ASSUME NEW i \in 1 .. n + 1 PROVE \E j \in 1 .. k + 1 : entered[i] = order[j]
      OBVIOUS
    <3>1. CASE i \in 1 .. n
      <4>1. PICK j \in 1 .. k : stack[i] = order[j]
        BY <1>11, <3>1
      <4> QED BY <1>17, <2>2, <3>1, <4>1
    <3>2. CASE i = n + 1
      <4>1. k + 1 \in 1 .. k + 1 /\ entered[i] = order[k + 1]
        BY <1>17, <3>2 DEF r
      <4> QED BY <4>1
    <3> QED BY <2>1, <3>1, <3>2
  <2>4. \A i \in 1 .. n : Inside(r, stack[i])
    <3> SUFFICES ASSUME NEW i \in 1 .. n PROVE Inside(r, stack[i])
      OBVIOUS
    <3>1. PICK j \in 1 .. k : stack[i] = order[j]
      BY <1>11
    <3>2. /\ order[j].first <= order[k + 1].first
          /\ order[k + 1].first <= order[j].last => order[k + 1].last <= order[j].last
      BY <2>2 DEF Nested
    <3> QED BY <1>12, <3>1, <3>2 DEF Inside, r
  <2>5. \A i, j \in 1 .. n + 1 : i < j => Inside(entered[j], entered[i])
    <3> SUFFICES ASSUME NEW i \in 1 .. n + 1, NEW j \in 1 .. n + 1, i < j
                 PROVE  Inside(entered[j], entered[i])
      OBVIOUS
    <3>0. i \in 1 .. n
      <4>1. n \in Nat
        BY <1>10
      <4> HIDE DEF n
      <4> QED BY <4>1
    <3>1. i \in 1 .. n /\ entered[i] = stack[i]
      BY <1>17, <3>0
    <3>2. CASE j \in 1 .. n
      BY <1>11, <1>17, <3>1, <3>2
    <3>3. CASE j = n + 1
      BY <1>17, <2>4, <3>1, <3>3
    <3> QED BY <2>1, <3>2, <3>3
  <2>6. \A i \in 1 .. n + 1 : entered[i].first <= b /\ b <= entered[i].last + 1
    <3> SUFFICES ASSUME NEW i \in 1 .. n + 1
                 PROVE  entered[i].first <= b /\ b <= entered[i].last + 1
      OBVIOUS
    <3>1. CASE i = n + 1
      <4>1. entered[i] = r
        BY <1>17, <3>1
      <4> QED BY <1>4, <1>5, <4>1
    <3>2. CASE i \in 1 .. n
      <4>1. entered[i] = stack[i] /\ stack[i].first <= g /\ b <= stack[i].last
        BY <1>11, <1>12, <1>17, <3>2
      <4>2. stack[i].first \in Nat /\ stack[i].last \in Nat
        BY <1>3, <1>10, <3>2
      <4> DEFINE x == stack[i].first
                 y == stack[i].last
      <4>3. x \in Nat /\ y \in Nat /\ x <= g /\ g <= b /\ b <= y /\ g \in Nat /\ b \in Nat
        BY <1>5, <1>9, <4>1, <4>2
      <4> HIDE DEF x, y, b
      <4>4. x <= b /\ b <= y + 1
        BY <4>3
      <4> QED BY <4>1, <4>4 DEF x, y
    <3> QED BY <2>1, <3>1, <3>2
  <2>7. ASSUME NEW j \in 1 .. k + 1
        PROVE  (\E i \in 1 .. n + 1 : entered[i] = order[j]) \/ order[j].last < b
    <3>1. CASE j = k + 1
      <4>1. n + 1 \in 1 .. n + 1
        BY <1>10
      <4> QED BY <1>17, <3>1, <4>1 DEF r
    <3>2. CASE j # k + 1
      <4>1. j \in 1 .. k
        BY <3>2
      <4>2. CASE order[j].last < g
        <5>1. order[j].last \in Nat
          BY <1>1, <1>3, <2>2, <4>1
        <5> HIDE DEF b
        <5> QED BY <1>5, <1>9, <4>2, <5>1
      <4>3. ASSUME NEW i \in 1 .. n, stack[i] = order[j] PROVE \E l \in 1 .. n + 1 : entered[l] = order[j]
        <5>1. i \in 1 .. n + 1
          BY <1>10
        <5> QED BY <1>17, <4>3, <5>1
      <4> QED BY <1>11, <4>1, <4>2, <4>3
    <3> QED BY <3>1, <3>2
  <2> HIDE DEF b
  <2> QED BY <1>17, <2>3, <2>5, <2>6, <2>7 DEF Open
<1>19. \A a \in Addr : a < b => Decided(extended, order, k + 1, a)
  <2> SUFFICES ASSUME NEW a \in Addr, a < b PROVE Decided(extended, order, k + 1, a)
    OBVIOUS
  <2>1. a \in Nat /\ a < b
    BY <1>2
  <2>2. Decided(left.steps, order, k, a)
    <3>1. CASE a < g
      BY <1>8, <3>1 DEF SweptTo
    <3>2. CASE g <= a
      <4>1. ASSUME stack # <<>> PROVE a <= stack[n].last
        <5>1. n \in 1 .. n
          BY <1>10, <4>1, EmptySeq
        <5>2. b <= stack[n].last /\ stack[n].last \in Nat
          BY <1>3, <1>10, <1>12, <5>1
        <5> HIDE DEF stack, n, b
        <5> QED BY <1>5, <2>1, <5>2
      <4> QED BY <1>4, <1>7, <1>8, <1>9, <3>2, <4>1, TopAnswers
    <3> QED BY <1>9, <2>1, <3>1, <3>2
  <2>3. PICK id \in Nat : Says(left.steps, a, id) /\ Wins(order, k, a, id)
    BY <2>2 DEF Decided
  <2>4. Says(extended, a, id)
    BY <1>16, <2>1, <2>3
  <2>5. ~Holds(r, a)
    BY <1>5, <2>1 DEF Holds
  <2>6. \A j \in 1 .. k + 1 : j \in 1 .. k \/ j = k + 1
    OBVIOUS
  <2>7. \A j \in 1 .. k : j \in 1 .. k + 1
    OBVIOUS
  <2>8. Wins(order, k + 1, a, id)
    BY <2>3, <2>5, <2>6, <2>7 DEF Wins, r
  <2> QED BY <2>4, <2>8 DEF Decided
<1>20. TopId(entered) = r.id
  <2>1. entered # <<>>
    BY <1>10, <1>17
  <2> QED BY <1>17, <2>1 DEF TopId
<1>21. Enter(s, r) = after
  BY DEF Enter, left, extended, entered
<1>22. after \in Sweeps /\ after.stack = entered /\ after.steps = extended
  BY <1>16, <1>17 DEF Sweeps
<1> HIDE DEF after
<1>23. SweptTo(order, k + 1, b, after)
  <2> HIDE DEF b
  <2> QED BY <1>16, <1>18, <1>19, <1>20, <1>22 DEF SweptTo
<1> QED BY <1>16, <1>21, <1>22, <1>23 DEF Entered, r

\* Enter keeps the sweep's types.
LEMMA EnterType ==
    ASSUME NEW s \in Sweeps, NEW r \in RangeRoute
    PROVE  Enter(s, r) \in Sweeps
<1> DEFINE left == LeaveAll(r.first, s)
           entered == Append(left.stack, r)
           extended == emit(left.steps, r.first, r.id)
<1>1. left \in Sweeps
  <2>1. PICK g : LeavesInTurn(g, r.first, s)
    BY LeavingInTurn
  <2> QED BY <2>1 DEF LeavesInTurn
<1> HIDE DEF left
<1>2. left.stack \in Seq(RangeRoute) /\ left.steps \in Seq(Step)
  BY <1>1 DEF Sweeps
<1>3. r.first \in Addr /\ r.id \in Nat
  BY DEF RangeRoute
<1>4. entered \in Seq(RangeRoute)
  BY <1>2, AppendProperties
<1>5. extended \in Seq(Step)
  BY <1>2, <1>3, EmitType
<1>6. Enter(s, r) = [stack |-> entered, steps |-> extended]
  BY DEF Enter, left
<1> QED BY <1>4, <1>5, <1>6 DEF Sweeps

\* Enter is called for the ranges in order.
EntersInTurn(g, order, base) ==
    /\ g[0] = base
    /\ \A k \in 1 .. Len(order) : g[k] = Enter(g[k - 1], order[k])
    /\ FoldLeft(Enter, base, order) = g[Len(order)]

\* The fold over the ranges is one Enter after the other.
LEMMA EnteringInTurn ==
    ASSUME NEW order \in Seq(RangeRoute), NEW base \in Sweeps
    PROVE  \E g : EntersInTurn(g, order, base)
<1> DEFINE n == Len(order)
           step == [x \in Sweeps \X Nat |-> IF x[2] \in 1 .. n THEN Enter(x[1], order[x[2]]) ELSE x[1]]
           Equation(f) ==
               f = [t \in SUBSET (1 .. n) |-> IF t = {} THEN base ELSE Enter(f[t \ {Max(t)}], order[Max(t)])]
           fold == CHOOSE f : Equation(f)
<1>1. n \in Nat /\ DOMAIN order = 1 .. n /\ \A k \in 1 .. n : order[k] \in RangeRoute
  BY LenProperties, ElementOfSeq
<1>2. step \in [Sweeps \X Nat -> Sweeps]
  <2> HIDE DEF n
  <2> QED BY <1>1, EnterType
<1>3. PICK f \in [SUBSET (1 .. n) -> Sweeps] : Folds(f, base, step, n)
  <2> HIDE DEF step, n
  <2> QED BY <1>1, <1>2, Folding
<1>4. ASSUME NEW t \in SUBSET (1 .. n), t # {}
      PROVE  /\ Max(t) \in t
             /\ f[t] = Enter(f[t \ {Max(t)}], order[Max(t)])
  <2>1. Max(t) \in t
    <3>1. t \in SUBSET Nat /\ \A i \in t : i <= n
      BY <1>1
    <3> QED BY <1>1, <1>4, <3>1, GreatestElement
  <2>2. f[t] = step[<<f[t \ {Max(t)}], Max(t)>>]
    BY <1>3, <1>4 DEF Folds
  <2>3. f[t \ {Max(t)}] \in Sweeps /\ Max(t) \in 1 .. n /\ Max(t) \in Nat
    <3>1. t \ {Max(t)} \in SUBSET (1 .. n) /\ Max(t) \in 1 .. n
      BY <2>1
    <3> QED BY <1>3, <3>1
  <2> HIDE DEF n
  <2> QED BY <2>1, <2>2, <2>3
<1>5. Equation(f)
  <2>1. f = [t \in SUBSET (1 .. n) |-> f[t]]
    BY <1>3
  <2>2. f[{}] = base
    BY <1>3 DEF Folds
  <2> QED BY <1>4, <2>1, <2>2
<1>6. Equation(fold)
  <2> HIDE DEF Equation
  <2> QED BY <1>5
<1>7. FoldLeft(Enter, base, order) = fold[1 .. n]
  BY <1>1 DEF FoldLeft, MapThenFoldSet
<1> HIDE DEF fold
<1>8. fold[1 .. n] = f[1 .. n]
  <2>1. fold[{}] = f[{}]
    BY <1>5, <1>6
  <2>2. ASSUME NEW t \in SUBSET (1 .. n), t # {}, Max(t) \in t, fold[t \ {Max(t)}] = f[t \ {Max(t)}]
        PROVE  fold[t] = f[t]
    <3>1. fold[t] = Enter(fold[t \ {Max(t)}], order[Max(t)])
      BY <1>6, <2>2
    <3> QED BY <1>4, <2>2, <3>1
  <2>3. FoldAlike(fold, f, n)
    BY <2>1, <2>2 DEF FoldAlike
  <2> HIDE DEF n
  <2> QED BY <1>1, <2>3, FoldsAgree
<1> DEFINE g == [k \in 0 .. n |-> f[1 .. k]]
<1>9. ASSUME NEW k \in 1 .. n PROVE f[1 .. k] = Enter(f[1 .. k - 1], order[k])
  <2>1. f[1 .. k] = step[<<f[1 .. k - 1], k>>]
    <3> HIDE DEF step, n
    <3>1. FoldsUp(f, step, n)
      BY <1>1, <1>3, FoldsInOrder
    <3> QED BY <3>1 DEF FoldsUp
  <2>2. f[1 .. k - 1] \in Sweeps /\ k \in Nat
    <3>1. 1 .. k - 1 \in SUBSET (1 .. n)
      BY <1>1
    <3> QED BY <1>1, <1>3, <3>1
  <2> HIDE DEF n
  <2> QED BY <2>1, <2>2
<1> HIDE DEF step
<1>10. g[0] = base
  <2>1. 1 .. 0 = {} /\ 0 \in 0 .. n
    BY <1>1
  <2> QED BY <1>3, <2>1 DEF Folds
<1>11. \A k \in 1 .. n : g[k] = Enter(g[k - 1], order[k])
  BY <1>1, <1>9
<1>12. FoldLeft(Enter, base, order) = g[n]
  BY <1>1, <1>7, <1>8
<1> HIDE DEF g
<1>13. EntersInTurn(g, order, base)
  BY <1>10, <1>11, <1>12 DEF EntersInTurn
<1> QED BY <1>13

-----------------------------------------------------------------------------
\* Steps from address zero on that say the innermost range of every address.
StepsOf(steps, order) ==
    /\ steps \in Seq(Step)
    /\ Rising(steps, Pow2[Width] - 1)
    /\ steps # <<>> /\ steps[1].bound = 0
    /\ \A a \in Addr : Decided(steps, order, Len(order), a)

\* What sweep4 and sweep6 begin with.
SweepStart(order) ==
    [stack |-> <<>>, steps |-> IF order[1].first # 0 THEN <<[bound |-> 0, id |-> 0]>> ELSE <<>>]

\* The whole sweep decides every address for the innermost range that holds it.
LEMMA SweepingAll ==
    ASSUME NEW order, Nested(order), order # <<>>
    PROVE  StepsOf(LeaveAll(Pow2[Width], FoldLeft(Enter, SweepStart(order), order)).steps, order)
<1> DEFINE n == Len(order)
           base == SweepStart(order)
           end == Pow2[Width]
           At(k) == IF k = 0 THEN 0 ELSE order[k].first
           Fine(k, x) == x \in Sweeps /\ SweptTo(order, k, At(k), x) /\ (k # 0 => x.steps # <<>>)
<1>1. /\ order \in Seq(RangeRoute) /\ n \in Nat /\ n # 0
      /\ \A j \in 1 .. n : order[j] \in RangeRoute
  BY LenProperties, ElementOfSeq, EmptySeq DEF Nested
<1>2. end \in Nat \ {0} /\ 0 \in Addr /\ \A x \in Addr : x \in 0 .. end - 1 /\ x \in Nat
  <2>1. end \in Nat \ {0}
    BY PowersOfTwo, WidthAssumption
  <2> QED BY <2>1 DEF Addr
<1>3. base \in Sweeps /\ base.stack = <<>> /\ base.steps \in Seq(Step)
  <2>1. <<>> \in Seq(RangeRoute) /\ <<>> \in Seq(Step)
    BY EmptySeq
  <2>2. <<[bound |-> 0, id |-> 0]>> \in Seq(Step)
    <3>1. [bound |-> 0, id |-> 0] \in Step
      BY <1>2 DEF Step
    <3> QED BY <3>1
  <2> QED BY <2>1, <2>2 DEF SweepStart, Sweeps
<1>4. SweptTo(order, 0, 0, base)
  <2>1. Len(base.stack) = 0
    BY <1>3
  <2>2. Open(order, 0, 0, base.stack)
    BY <2>1 DEF Open
  <2>3. \A a \in Addr : ~(a < 0)
    BY <1>2
  <2>4. TopId(base.stack) = 0
    BY <1>3 DEF TopId
  <2>5. CASE order[1].first = 0
    <3>1. base.steps = <<>> /\ Len(base.steps) = 0
      BY <2>5 DEF SweepStart
    <3> HIDE DEF base
    <3>2. Rising(base.steps, 0) /\ IdAfter(base.steps, Len(base.steps)) = 0
      BY <3>1 DEF Rising, IdAfter
    <3> QED BY <1>3, <2>2, <2>3, <2>4, <2>5, <3>1, <3>2 DEF SweptTo
  <2>6. CASE order[1].first # 0
    <3>1. /\ base.steps = <<[bound |-> 0, id |-> 0]>>
          /\ Len(base.steps) = 1 /\ base.steps[1] = [bound |-> 0, id |-> 0] /\ base.steps # <<>>
      BY <2>6 DEF SweepStart
    <3> HIDE DEF base
    <3>2. Rising(base.steps, 0) /\ IdAfter(base.steps, Len(base.steps)) = 0
      BY <3>1 DEF Rising, IdAfter
    <3> QED BY <1>3, <2>2, <2>3, <2>4, <3>1, <3>2 DEF SweptTo
  <2> QED BY <2>5, <2>6
<1> HIDE DEF base
<1>5. PICK g : EntersInTurn(g, order, base)
  BY <1>1, <1>3, EnteringInTurn
<1>6. \A k \in 0 .. n : Fine(k, g[k])
  <2> DEFINE odd == {k \in 0 .. n : ~Fine(k, g[k])}
  <2> SUFFICES ASSUME odd # {} PROVE FALSE
    OBVIOUS
  <2>1. PICK m \in odd : \A j \in odd : m <= j
    <3>1. odd \in SUBSET Nat
      BY <1>1
    <3> HIDE DEF odd
    <3> QED BY <3>1, LeastElement
  <2>2. m \in 0 .. n /\ ~Fine(m, g[m])
    BY <2>1
  <2>3. Fine(0, g[0])
    <3>1. g[0] = base
      BY <1>5 DEF EntersInTurn
    <3> QED BY <1>3, <1>4, <3>1
  <2>4. m \in 1 .. n /\ m - 1 \in 0 .. n /\ m - 1 \notin odd
    <3>1. m # 0
      BY <2>2, <2>3
    <3>2. m \in 1 .. n /\ m - 1 \in 0 .. n /\ ~(m <= m - 1)
      BY <1>1, <2>2, <3>1
    <3> HIDE DEF odd
    <3> QED BY <2>1, <3>2
  <2>5. PICK k \in Nat : k = m - 1 /\ m = k + 1 /\ k + 1 \in 1 .. n
    BY <1>1, <2>4
  <2>6. Fine(k, g[k])
    BY <2>4, <2>5
  <2>7. g[k + 1] = Enter(g[k], order[k + 1])
    BY <1>5, <2>4, <2>5 DEF EntersInTurn
  <2>8. At(k) \in Addr /\ At(k) <= order[k + 1].first
    <3>1. order[k + 1].first \in Addr
      BY <1>1, <2>5 DEF RangeRoute
    <3>2. CASE k = 0
      BY <1>2, <3>1, <3>2
    <3>3. CASE k # 0
      <4>1. k \in 1 .. n /\ k < k + 1
        BY <1>1, <2>5, <3>3
      <4>2. order[k].first \in Addr
        BY <1>1, <4>1 DEF RangeRoute
      <4>3. order[k].first <= order[k + 1].first
        BY <2>5, <4>1 DEF Nested
      <4> QED BY <3>3, <4>2, <4>3
    <3> QED BY <3>2, <3>3
  <2>9. Entered(order, k + 1, g[k + 1])
    <3> HIDE DEF odd
    <3>1. g[k] \in Sweeps /\ SweptTo(order, k, At(k), g[k])
      BY <2>6
    <3> HIDE DEF At, Fine
    <3> QED BY <2>5, <2>7, <2>8, <3>1, EnterKeeps DEF n
  <2>10. At(m) = order[m].first
    BY <2>4
  <2>11. Fine(m, g[m])
    BY <2>5, <2>9, <2>10 DEF Entered
  <2> QED BY <2>2, <2>11
<1> DEFINE final == LeaveAll(end, g[n])
<1>7. g[n] \in Sweeps /\ SweptTo(order, n, order[n].first, g[n]) /\ g[n].steps # <<>>
  <2>1. n \in 0 .. n /\ n # 0
    BY <1>1
  <2> QED BY <1>6, <2>1
<1>8. /\ final \in Sweeps
      /\ Leaving(order, n, end, final)
      /\ Reaches(end, final.stack)
  <2>1. n \in 0 .. n /\ n \in 1 .. n /\ end \in 0 .. end
    BY <1>1, <1>2
  <2>2. order[n].first \in Addr /\ order[n].first \in 0 .. end
    <3>1. order[n].first \in Addr
      BY <1>1, <2>1 DEF RangeRoute
    <3> HIDE DEF end, n
    <3> QED BY <1>2, <3>1
  <2>3. Leaving(order, n, end, g[n])
    BY <1>7, <2>2 DEF Leaving
  <2> QED BY <1>7, <2>1, <2>3, LeavingAll
<1>9. final.stack = <<>>
  <2>1. final.stack \in Seq(RangeRoute) /\ Len(final.stack) \in Nat
    <3>1. final.stack \in Seq(RangeRoute)
      BY <1>8 DEF Sweeps
    <3> QED BY <3>1, LenProperties
  <2> SUFFICES ASSUME final.stack # <<>> PROVE FALSE
    OBVIOUS
  <2> HIDE DEF final
  <2>2. Len(final.stack) \in 1 .. Len(final.stack)
    BY <2>1, EmptySeq
  <2>3. final.stack[Len(final.stack)] \in RangeRoute
    BY <2>1, <2>2, ElementOfSeq
  <2>4. end <= final.stack[Len(final.stack)].last
    BY <1>8 DEF Reaches
  <2>5. final.stack[Len(final.stack)].last \in 0 .. end - 1
    BY <1>2, <2>3 DEF RangeRoute
  <2> HIDE DEF end
  <2> QED BY <1>2, <2>4, <2>5
<1>10. FoldLeft(Enter, base, order) = g[n]
  BY <1>5 DEF EntersInTurn
<1>11. final.steps \in Seq(Step)
  BY <1>8 DEF Sweeps
<1> HIDE DEF final
<1>12. CASE Over(order, n, final)
  BY <1>11, <1>12, <1>10 DEF Over, StepsOf, final, base
<1>13. ASSUME NEW f \in 0 .. end, f \in Addr, SweptTo(order, n, f, final)
       PROVE  StepsOf(final.steps, order)
  <2>1. final.steps # <<>> /\ final.steps[1].bound = 0
    BY <1>1, <1>13 DEF SweptTo
  <2>2. Rising(final.steps, end - 1)
    <3>1. Rising(final.steps, f)
      BY <1>13 DEF SweptTo
    <3>2. \A i \in 1 .. Len(final.steps) : final.steps[i].bound <= end - 1
      <4> SUFFICES ASSUME NEW i \in 1 .. Len(final.steps) PROVE final.steps[i].bound <= end - 1
        OBVIOUS
      <4>1. final.steps[i] \in Step
        BY <1>11, ElementOfSeq
      <4>2. final.steps[i].bound \in 0 .. end - 1
        BY <1>2, <4>1 DEF Step
      <4> HIDE DEF end
      <4> QED BY <1>2, <4>2
    <3> QED BY <3>1, <3>2 DEF Rising
  <2>3. ASSUME NEW a \in Addr PROVE Decided(final.steps, order, n, a)
    <3>1. a \in Nat /\ f \in Nat /\ n \in 0 .. n
      BY <1>1, <1>2, <1>13
    <3>2. CASE a < f
      BY <1>13, <3>2 DEF SweptTo
    <3>3. CASE f <= a
      BY <1>8, <1>9, <1>13, <3>1, <3>3, TopAnswers
    <3> QED BY <3>1, <3>2, <3>3
  <2> QED BY <1>11, <2>1, <2>2, <2>3 DEF StepsOf
<1> QED BY <1>8, <1>10, <1>12, <1>13 DEF Leaving, final, base

-----------------------------------------------------------------------------
(* The ranges of the prefixes. *)

\* The range of a prefix; it holds what the prefix covers.
LEMMA RouteHolds ==
    ASSUME NEW p \in Prefix, NEW id \in Nat \ {0}
    PROVE  /\ Route(p, id) \in RangeRoute
           /\ Route(p, id).first = p.key
           /\ Route(p, id).last = p.key + Span(p.bits) - 1
           /\ Route(p, id).id = id
           /\ p.key <= p.key + Span(p.bits) - 1
           /\ Covers(p, p.key) /\ Covers(p, p.key + Span(p.bits) - 1)
           /\ \A a \in Addr : Holds(Route(p, id), a) <=> Covers(p, a)
<1>1. /\ p.key \in Nat /\ Span(p.bits) \in Nat \ {0}
      /\ p.key \in Addr /\ p.key + Span(p.bits) - 1 \in Addr
  BY PrefixEnds
<1>2. LowAddr(p) = p.key /\ HighAddr(p) = p.key + Span(p.bits) - 1
  BY DEF LowAddr, HighAddr
<1>3. /\ Route(p, id).first = p.key
      /\ Route(p, id).last = p.key + Span(p.bits) - 1
      /\ Route(p, id).id = id
  BY <1>2 DEF Route
<1>4. p.key <= p.key + Span(p.bits) - 1
  BY <1>1
<1>5. Covers(p, p.key) /\ Covers(p, p.key + Span(p.bits) - 1)
  BY <1>1, <1>2, <1>4 DEF Covers
<1>7. Route(p, id) \in RangeRoute
  BY <1>1, <1>2 DEF Route, RangeRoute
<1>8. ASSUME NEW a \in Addr PROVE Holds(Route(p, id), a) <=> Covers(p, a)
  <2>1. a \in Nat
    BY PowersOfTwo, WidthAssumption DEF Addr
  <2> QED BY <1>1, <1>2, <1>3, <2>1 DEF Holds, Covers
<1> QED BY <1>3, <1>4, <1>5, <1>7, <1>8

\* One of two prefixes that is shorter and meets the other holds it whole.
LEMMA MeetingNests ==
    ASSUME NEW p \in Prefix, NEW q \in Prefix, NEW a \in Addr, Covers(p, a), Covers(q, a), p.bits <= q.bits
    PROVE  p.key <= q.key /\ q.key + Span(q.bits) <= p.key + Span(p.bits)
<1>1. /\ Span(p.bits) \in Nat \ {0} /\ p.key \in Nat
      /\ Span(q.bits) \in Nat \ {0} /\ q.key \in Nat /\ q.key + Span(q.bits) - 1 \in Addr
  BY PrefixEnds
<1>2. \A x : Covers(p, x) <=> x \in p.key .. p.key + Span(p.bits) - 1
  BY DEF Covers, LowAddr, HighAddr
<1>3. \A x : Covers(q, x) <=> x \in q.key .. q.key + Span(q.bits) - 1
  BY DEF Covers, LowAddr, HighAddr
<1>4. Covers(q, q.key + Span(q.bits) - 1)
  BY <1>1, <1>3
<1>5. Covers(p, q.key)
  BY PrefixesNest
<1>6. Covers(p, q.key + Span(q.bits) - 1)
  BY <1>1, <1>4, <1>5, PrefixesNest
<1> QED BY <1>1, <1>2, <1>5, <1>6

\* What the list of the ranges of the stored prefixes must be.
Lists(order, values) ==
    /\ Nested(order)
    /\ \A j \in 1 .. Len(order) : \E p \in DOMAIN values : order[j] = Route(p, values[p])
    /\ \A p \in DOMAIN values : \E j \in 1 .. Len(order) : order[j] = Route(p, values[p])

\* sort.Slice orders them so.
LEMMA PreorderLists ==
    ASSUME NEW values, DOMAIN values \in SUBSET Prefix, IsFiniteSet(DOMAIN values),
           \A p \in DOMAIN values : values[p] \in Nat \ {0}
    PROVE  Lists(Preorder({Route(p, values[p]) : p \in DOMAIN values}), values)
<1> DEFINE S == DOMAIN values
           routes == {Route(p, values[p]) : p \in S}
           order == Preorder(routes)
           n == Cardinality(routes)
           R == {x \in routes \X routes : Outer(x[1], x[2])}
<1>1. \A p \in S : p \in Prefix /\ values[p] \in Nat \ {0}
  OBVIOUS
<1>2. IsFiniteSet(routes)
  <2> DEFINE f == [p \in S |-> Route(p, values[p])]
  <2>1. f \in Surjection(S, routes)
    BY DEF Surjection
  <2> HIDE DEF f, routes, S
  <2> QED BY <2>1, FS_Surjection DEF S
<1>3. \A p \in S : /\ Route(p, values[p]) \in RangeRoute
                   /\ Route(p, values[p]).first = p.key
                   /\ Route(p, values[p]).last = p.key + Span(p.bits) - 1
                   /\ p.key \in Nat /\ Span(p.bits) \in Nat \ {0}
                   /\ p.key <= p.key + Span(p.bits) - 1
  BY <1>1, RouteHolds, PrefixEnds
<1>4. \A r \in routes : r.first \in Nat /\ r.last \in Nat /\ r.first <= r.last /\ r \in RangeRoute
  BY <1>3
<1>5. StrictOrder(R, routes)
  <2>1. \A x \in routes : <<x, x>> \notin R
    BY <1>4 DEF Outer
  <2>2. ASSUME NEW x \in routes, NEW y \in routes, NEW z \in routes, <<x, y>> \in R, <<y, z>> \in R
        PROVE  <<x, z>> \in R
    <3>1. Outer(x, y) /\ Outer(y, z)
      BY <2>2
    <3>2. Outer(x, z)
      BY <1>4, <3>1 DEF Outer
    <3> QED BY <3>2
  <2>3. ASSUME NEW x \in routes, NEW y \in routes, x # y
        PROVE  <<x, y>> \in R \/ <<y, x>> \in R
    <3>1. CASE Outer(x, y) \/ Outer(y, x)
      BY <3>1
    <3>2. CASE ~(Outer(x, y) \/ Outer(y, x))
      <4>1. x.first = y.first /\ x.last = y.last
        BY <1>4, <3>2 DEF Outer
      <4>2. PICK p \in S, q \in S : x = Route(p, values[p]) /\ y = Route(q, values[q])
        OBVIOUS
      <4>3. p.key = q.key /\ Span(p.bits) = Span(q.bits)
        <5>1. x.first = p.key /\ x.last = p.key + Span(p.bits) - 1 /\ p.key \in Nat /\ Span(p.bits) \in Nat
          BY <1>3, <4>2
        <5>2. y.first = q.key /\ y.last = q.key + Span(q.bits) - 1 /\ q.key \in Nat /\ Span(q.bits) \in Nat
          BY <1>3, <4>2
        <5>3. p.key = q.key /\ p.key + Span(p.bits) - 1 = p.key + Span(q.bits) - 1
          BY <4>1, <5>1, <5>2
        <5>4. \A k, m, l \in Nat : k + m - 1 = k + l - 1 => m = l
          OBVIOUS
        <5> HIDE DEF routes, R, S
        <5> QED BY <5>1, <5>2, <5>3, <5>4
      <4>4. p.bits \in 0 .. Width /\ q.bits \in 0 .. Width
        BY <1>1, PrefixType
      <4>5. ~(p.bits < q.bits) /\ ~(q.bits < p.bits)
        <5>1. Span(p.bits) \in Nat /\ Span(q.bits) \in Nat
          BY <1>3
        <5> QED BY <4>3, <4>4, <5>1, LongerSpansLess
      <4>6. p.bits = q.bits
        BY <4>4, <4>5
      <4>7. p = q
        BY <1>1, <4>3, <4>6, PrefixType
      <4> QED BY <2>3, <4>2, <4>7
    <3> QED BY <3>1, <3>2
  <2> QED BY <2>1, <2>2, <2>3 DEF StrictOrder
<1> HIDE DEF R, routes
<1>6. n \in Nat /\ Enumerates(R, routes)
  BY <1>2, <1>5, BelowIsPosition
<1>7. \A r \in routes : {q \in routes : <<q, r>> \in R} = {q \in routes : Outer(q, r)}
  BY DEF R
<1>8. \A k \in 1 .. n : order[k] \in routes /\ Preceding(R, routes, order[k]) = k - 1
  <2> SUFFICES ASSUME NEW k \in 1 .. n
               PROVE  order[k] \in routes /\ Preceding(R, routes, order[k]) = k - 1
    OBVIOUS
  <2>1. order[k] = CHOOSE r \in routes : Cardinality({q \in routes : Outer(q, r)}) = k - 1
    BY DEF Preorder
  <2>2. \E r \in routes : Preceding(R, routes, r) = k - 1
    <3>1. k - 1 \in 0 .. n - 1
      BY <1>6
    <3> QED BY <1>6, <3>1 DEF Enumerates
  <2>3. \A r \in routes : Preceding(R, routes, r) = Cardinality({q \in routes : Outer(q, r)})
    BY <1>7 DEF Preceding
  <2> HIDE DEF order, n
  <2> QED BY <2>1, <2>2, <2>3
<1>9. order \in Seq(RangeRoute) /\ Len(order) = n /\ DOMAIN order = 1 .. n
  <2> DEFINE Place(k) == CHOOSE r \in routes : Cardinality({q \in routes : Outer(q, r)}) = k - 1
  <2>1. order = [k \in 1 .. n |-> Place(k)]
    BY DEF Preorder
  <2> HIDE DEF Place
  <2>2. \A k \in 1 .. n : order[k] \in RangeRoute
    BY <1>4, <1>8
  <2> HIDE DEF order, n
  <2>3. order \in [1 .. n -> RangeRoute]
    BY <2>1, <2>2
  <2> QED BY <1>6, <2>3
<1> HIDE DEF order, n
<1>10. ASSUME NEW i \in 1 .. n, NEW j \in 1 .. n, i < j
       PROVE  Outer(order[i], order[j])
  <2>1. order[i] # order[j] /\ ~(<<order[j], order[i]>> \in R)
    <3>1. Preceding(R, routes, order[i]) = i - 1 /\ Preceding(R, routes, order[j]) = j - 1
      BY <1>8
    <3>2. ASSUME <<order[j], order[i]>> \in R PROVE FALSE
      <4>1. j - 1 < i - 1
        BY <1>6, <1>8, <3>1, <3>2 DEF Enumerates
      <4> QED BY <1>6, <1>10, <4>1
    <3>3. i - 1 # j - 1
      BY <1>6, <1>10
    <3> QED BY <3>1, <3>2, <3>3
  <2>2. <<order[i], order[j]>> \in R
    BY <1>5, <1>8, <2>1 DEF StrictOrder
  <2> QED BY <2>2 DEF R
<1>11. ASSUME NEW i \in 1 .. n, NEW j \in 1 .. n, i < j
       PROVE  /\ order[i].first <= order[j].first
              /\ order[j].first <= order[i].last => order[j].last <= order[i].last
  <2>1. order[i] \in routes /\ order[j] \in routes /\ Outer(order[i], order[j])
    BY <1>8, <1>10, <1>11
  <2>2. order[i].first <= order[j].first
    BY <1>4, <2>1 DEF Outer
  <2>3. PICK p \in S, q \in S : order[i] = Route(p, values[p]) /\ order[j] = Route(q, values[q])
    BY <2>1 DEF routes
  <2> DEFINE u == p.key + Span(p.bits) - 1
             v == q.key + Span(q.bits) - 1
  <2>4. /\ order[i].first = p.key /\ order[i].last = u
        /\ order[j].first = q.key /\ order[j].last = v
        /\ p.key \in Nat /\ q.key \in Nat /\ Span(p.bits) \in Nat \ {0} /\ Span(q.bits) \in Nat \ {0}
    BY <1>3, <2>3
  <2>5. ASSUME q.key <= u PROVE v <= u
    <3>1. q.key \in Addr /\ Covers(q, q.key)
      BY <1>1, RouteHolds, PrefixEnds
    <3>2. Covers(p, q.key)
      <4>1. p.key <= q.key
        BY <2>2, <2>4
      <4> QED BY <2>4, <2>5, <4>1 DEF Covers, LowAddr, HighAddr
    <3>3. p.bits \in 0 .. Width /\ q.bits \in 0 .. Width /\ p \in Prefix /\ q \in Prefix
      BY <1>1, PrefixType
    <3>4. CASE p.bits <= q.bits
      <4>1. q.key + Span(q.bits) <= p.key + Span(p.bits)
        BY <3>1, <3>2, <3>3, <3>4, MeetingNests
      <4> QED BY <2>4, <4>1
    <3>5. CASE q.bits <= p.bits
      <4>1. q.key <= p.key
        BY <3>1, <3>2, <3>3, <3>5, MeetingNests
      <4>2. order[i].last > order[j].last
        BY <1>4, <2>1, <2>4, <4>1 DEF Outer
      <4> QED BY <2>4, <4>2
    <3> QED BY <3>3, <3>4, <3>5
  <2> HIDE DEF u, v
  <2> QED BY <2>2, <2>4, <2>5
<1>12. Nested(order)
  <2>1. \A i \in 1 .. n : order[i].first <= order[i].last
    BY <1>4, <1>8
  <2> QED BY <1>9, <1>11, <2>1 DEF Nested
<1>13. \A j \in 1 .. n : \E p \in S : order[j] = Route(p, values[p])
  BY <1>8 DEF routes
<1>14. \A p \in S : \E j \in 1 .. n : order[j] = Route(p, values[p])
  <2> SUFFICES ASSUME NEW p \in S PROVE \E j \in 1 .. n : order[j] = Route(p, values[p])
    OBVIOUS
  <2> DEFINE r == Route(p, values[p])
             k == Preceding(R, routes, r)
  <2>1. r \in routes
    BY DEF routes
  <2> HIDE DEF r
  <2>2. k \in 0 .. Cardinality(routes) - 1
    BY <1>6, <2>1 DEF Enumerates
  <2> HIDE DEF k
  <2>3. k \in Nat /\ k + 1 \in 1 .. n /\ (k + 1) - 1 = k
    BY <1>6, <2>2 DEF n
  <2>4. Preceding(R, routes, order[k + 1]) = k /\ order[k + 1] \in routes
    BY <1>8, <2>3
  <2>5. order[k + 1] = r
    BY <1>6, <2>1, <2>4 DEF Enumerates, k
  <2> QED BY <2>3, <2>5 DEF r
<1>15. Lists(order, values)
  BY <1>9, <1>12, <1>13, <1>14 DEF Lists
<1> QED BY <1>15 DEF order, routes

\* The innermost range that holds an address is that of its longest match.
LEMMA InnermostIsLongest ==
    ASSUME NEW values, DOMAIN values \in SUBSET Prefix,
           \A p \in DOMAIN values : values[p] \in Nat \ {0},
           NEW order, Lists(order, values), NEW a \in Addr, NEW id, Wins(order, Len(order), a, id)
    PROVE  id = IF Matches(DOMAIN values, a) = {} THEN 0 ELSE values[LongestMatch(DOMAIN values, a)]
<1> DEFINE S == DOMAIN values
           n == Len(order)
<1>1. \A p \in S : /\ p \in Prefix /\ values[p] \in Nat \ {0}
                   /\ Route(p, values[p]).id = values[p]
                   /\ Holds(Route(p, values[p]), a) <=> Covers(p, a)
  BY RouteHolds
<1>2. CASE id = 0 /\ \A j \in 1 .. n : ~Holds(order[j], a)
  <2>1. \A p \in S : ~Covers(p, a)
    <3> SUFFICES ASSUME NEW p \in S PROVE ~Covers(p, a)
      OBVIOUS
    <3>1. PICK j \in 1 .. n : order[j] = Route(p, values[p])
      BY DEF Lists
    <3> QED BY <1>1, <1>2, <3>1
  <2>2. Matches(S, a) = {}
    BY <2>1 DEF Matches
  <2> QED BY <1>2, <2>2
<1>3. ASSUME NEW j \in 1 .. n, Holds(order[j], a), id = order[j].id,
             \A i \in 1 .. n : Holds(order[i], a) => Inside(order[j], order[i])
      PROVE  Matches(S, a) # {} /\ id = values[LongestMatch(S, a)]
  <2>1. PICK p \in S : order[j] = Route(p, values[p])
    BY DEF Lists
  <2>2. p \in Matches(S, a)
    BY <1>1, <1>3, <2>1 DEF Matches
  <2>3. ASSUME NEW q \in Matches(S, a) PROVE q.bits <= p.bits
    <3>1. q \in S /\ q \in Prefix /\ Covers(q, a) /\ p \in Prefix /\ Covers(p, a)
      BY <1>1, <2>2, <2>3 DEF Matches
    <3>2. PICK i \in 1 .. n : order[i] = Route(q, values[q])
      BY <3>1 DEF Lists
    <3>3. Inside(Route(p, values[p]), Route(q, values[q]))
      BY <1>1, <1>3, <2>1, <3>1, <3>2
    <3>4. q.key <= p.key /\ p.key + Span(p.bits) - 1 <= q.key + Span(q.bits) - 1
      BY <1>1, <3>1, <3>3, RouteHolds DEF Inside
    <3>5. /\ p.key \in Nat /\ q.key \in Nat /\ Span(p.bits) \in Nat /\ Span(q.bits) \in Nat
          /\ p.bits \in 0 .. Width /\ q.bits \in 0 .. Width
      BY <3>1, PrefixEnds, PrefixType
    <3>6. ASSUME p.bits < q.bits PROVE FALSE
      <4>1. Span(q.bits) < Span(p.bits)
        BY <3>5, <3>6, LongerSpansLess
      <4> QED BY <3>4, <3>5, <4>1
    <3> QED BY <3>5, <3>6
  <2>4. Matches(S, a) \in SUBSET Prefix /\ \A q \in Matches(S, a) : Covers(q, a)
    BY <1>1 DEF Matches
  <2>5. p = Longest(Matches(S, a))
    BY <2>2, <2>3, <2>4, LongestIsUnique
  <2>6. LongestMatch(S, a) = Longest(Matches(S, a))
    BY DEF LongestMatch, Longest
  <2> QED BY <1>1, <1>3, <2>1, <2>2, <2>5, <2>6
<1> QED BY <1>2, <1>3 DEF Wins

-----------------------------------------------------------------------------
(* The steps of the stored prefixes. *)

\* The id of the longest match, or 0.
Answer(values, a) ==
    IF Matches(DOMAIN values, a) = {} THEN 0 ELSE values[LongestMatch(DOMAIN values, a)]

StepFunction(steps, values) ==
    /\ steps \in Seq(Step)
    /\ Rising(steps, Pow2[Width] - 1)
    /\ steps # <<>> => steps[1].bound = 0
    /\ \A a \in Addr : Says(steps, a, Answer(values, a))

\* The sweep says the longest match of every address.
LEMMA SweepIsLongest ==
    ASSUME NEW values, DOMAIN values \in SUBSET Prefix, IsFiniteSet(DOMAIN values),
           \A p \in DOMAIN values : values[p] \in Nat \ {0}
    PROVE  StepFunction(Sweep({Route(p, values[p]) : p \in DOMAIN values}), values)
<1> DEFINE routes == {Route(p, values[p]) : p \in DOMAIN values}
           order == Preorder(routes)
<1>1. Lists(order, values)
  BY PreorderLists
<1>2. CASE routes = {}
  <2>1. Sweep(routes) = <<>>
    BY <1>2 DEF Sweep
  <2>2. DOMAIN values = {}
    BY <1>2
  <2>3. \A a \in Addr : Answer(values, a) = 0
    BY <2>2 DEF Answer, Matches
  <2>4. <<>> \in Seq(Step) /\ Len(<<>>) = 0
    BY EmptySeq
  <2>5. \A a \in Addr : Says(<<>>, a, 0)
    BY <2>4 DEF Says, IdAfter
  <2>6. Rising(<<>>, Pow2[Width] - 1)
    BY <2>4 DEF Rising
  <2> HIDE DEF routes
  <2>7. StepFunction(<<>>, values)
    BY <2>3, <2>4, <2>5, <2>6 DEF StepFunction
  <2> QED BY <2>1, <2>7 DEF routes
<1>3. CASE routes # {}
  <2> DEFINE steps == LeaveAll(Pow2[Width], FoldLeft(Enter, SweepStart(order), order)).steps
  <2>1. Sweep(routes) = steps
    <3> HIDE DEF routes
    <3> QED BY <1>3 DEF Sweep, SweepStart
  <2>2. PICK p \in DOMAIN values : TRUE
    BY <1>3
  <2> HIDE DEF order, routes
  <2>3. Nested(order) /\ order # <<>>
    <3>1. \E j \in 1 .. Len(order) : order[j] = Route(p, values[p])
      BY <1>1, <2>2 DEF Lists
    <3>2. Len(<<>>) = 0
      OBVIOUS
    <3>3. Len(order) # 0
      BY <3>1
    <3> QED BY <1>1, <3>2, <3>3 DEF Lists
  <2>4. StepsOf(steps, order)
    BY <2>3, SweepingAll
  <2> HIDE DEF steps
  <2>5. ASSUME NEW a \in Addr PROVE Says(steps, a, Answer(values, a))
    <3>1. PICK id \in Nat : Says(steps, a, id) /\ Wins(order, Len(order), a, id)
      BY <2>4 DEF StepsOf, Decided
    <3>2. id = Answer(values, a)
      BY <1>1, <3>1, InnermostIsLongest DEF Answer
    <3> QED BY <3>1, <3>2
  <2>6. StepFunction(steps, values)
    BY <2>4, <2>5 DEF StepsOf, StepFunction
  <2> QED BY <2>1, <2>6 DEF routes
<1> QED BY <1>2, <1>3

-----------------------------------------------------------------------------
(* Offsets. *)

\* The first of some places, or the end.
FirstPlace(T, high) == IF T = {} THEN high ELSE CHOOSE i \in T : \A j \in T : i <= j

\* Where marks rise, the first place that reaches m parts those below m from the others.
LEMMA PlacesPart ==
    ASSUME NEW low \in Nat, NEW high \in Nat, low <= high, NEW marks, NEW m \in Nat,
           \A i \in low + 1 .. high : marks[i] \in Nat,
           \A i, j \in low + 1 .. high : i < j => marks[i] <= marks[j]
    PROVE  LET off == FirstPlace({i \in low .. high - 1 : marks[i + 1] >= m}, high)
           IN  /\ off \in low .. high
               /\ \A i \in low + 1 .. off : marks[i] < m
               /\ \A i \in off + 1 .. high : m <= marks[i]
<1> DEFINE T == {i \in low .. high - 1 : marks[i + 1] >= m}
           off == FirstPlace(T, high)
<1>1. \A i \in low + 1 .. high : i - 1 \in low .. high - 1 /\ (i - 1) + 1 = i
  OBVIOUS
<1>2. CASE T = {}
  <2>1. off = high
    BY <1>2 DEF FirstPlace
  <2>2. \A i \in low + 1 .. high : marks[i] < m
    <3> SUFFICES ASSUME NEW i \in low + 1 .. high PROVE marks[i] < m
      OBVIOUS
    <3>1. ~(marks[i] >= m)
      BY <1>1, <1>2
    <3> QED BY <3>1
  <2> HIDE DEF T, off
  <2>3. off \in low .. high /\ \A i \in off + 1 .. high : FALSE
    BY <2>1
  <2> QED BY <2>1, <2>2, <2>3 DEF T, off
<1>3. CASE T # {}
  <2>1. off \in T /\ \A j \in T : off <= j
    <3>1. T \in SUBSET Nat
      OBVIOUS
    <3> HIDE DEF T
    <3>2. \E i \in T : \A j \in T : i <= j
      BY <1>3, <3>1, LeastElement
    <3> QED BY <1>3, <3>2 DEF FirstPlace
  <2> HIDE DEF off
  <2>2. off \in low .. high - 1 /\ marks[off + 1] >= m /\ off + 1 \in low + 1 .. high
    BY <2>1
  <2>3. ASSUME NEW i \in low + 1 .. off PROVE marks[i] < m
    <3>1. i \in low + 1 .. high /\ ~(off <= i - 1)
      BY <2>2
    <3>2. i - 1 \notin T
      BY <2>1, <3>1
    <3>3. ~(marks[i] >= m)
      BY <1>1, <3>1, <3>2
    <3> QED BY <3>1, <3>3
  <2>4. ASSUME NEW i \in off + 1 .. high PROVE m <= marks[i]
    <3>1. i \in low + 1 .. high /\ (i = off + 1 \/ off + 1 < i)
      BY <2>2
    <3>2. marks[off + 1] \in Nat /\ marks[i] \in Nat /\ marks[off + 1] <= marks[i]
      BY <2>2, <3>1
    <3> QED BY <2>2, <3>2
  <2> HIDE DEF T
  <2>5. off \in low .. high
    BY <2>2
  <2> QED BY <2>3, <2>4, <2>5 DEF off, T
<1> QED BY <1>2, <1>3

\* A walk between two places that part the steps at an address ends where the
\* steps say it does.
LEMMA WalkSays ==
    ASSUME NEW steps \in Seq(Step), NEW a \in Addr, NEW id, Says(steps, a, id),
           NEW low \in 0 .. Len(steps), NEW high \in 0 .. Len(steps),
           \A i \in 1 .. low : steps[i].bound <= a,
           \A i \in high + 1 .. Len(steps) : a < steps[i].bound
    PROVE  Walk(steps, low, high, IdAfter(steps, low), a) = id
<1> DEFINE n == Len(steps)
           above == {i \in low .. high - 1 : steps[i + 1].bound > a}
           stop == FirstPlace(above, high)
<1>1. n \in Nat /\ a \in Nat /\ \A i \in 1 .. n : steps[i].bound \in Nat
  <2>1. \A x \in Addr : x \in Nat
    BY PowersOfTwo, WidthAssumption DEF Addr
  <2>2. n \in Nat
    BY LenProperties
  <2>3. \A i \in 1 .. n : steps[i] \in Step
    BY ElementOfSeq
  <2> QED BY <2>1, <2>2, <2>3 DEF Step
<1>2. PICK k \in 0 .. n : /\ \A i \in 1 .. k : steps[i].bound <= a
                          /\ \A i \in k + 1 .. n : a < steps[i].bound
                          /\ id = IdAfter(steps, k)
  BY DEF Says
<1>3. low <= k
  <2> SUFFICES ASSUME k < low PROVE FALSE
    BY <1>1
  <2>1. k + 1 \in 1 .. low /\ k + 1 \in k + 1 .. n /\ k + 1 \in 1 .. n
    BY <1>1
  <2> QED BY <1>1, <1>2, <2>1
<1>4. k <= high
  <2> SUFFICES ASSUME high < k PROVE FALSE
    BY <1>1
  <2>1. k \in 1 .. k /\ k \in high + 1 .. n /\ k \in 1 .. n
    BY <1>1
  <2> QED BY <1>1, <1>2, <2>1
<1>5. above = k .. high - 1
  <2>1. ASSUME NEW i \in low .. high - 1 PROVE steps[i + 1].bound > a <=> k <= i
    <3>1. i + 1 \in 1 .. n /\ (k <= i => i + 1 \in k + 1 .. n) /\ (i < k => i + 1 \in 1 .. k)
      BY <1>1
    <3> QED BY <1>1, <1>2, <3>1
  <2> HIDE DEF n
  <2>2. \A i \in k .. high - 1 : i \in low .. high - 1 /\ k <= i
    BY <1>3
  <2>3. \A i \in low .. high - 1 : k <= i => i \in k .. high - 1
    BY <1>1
  <2> QED BY <2>1, <2>2, <2>3
<1>6. stop = k
  <2>1. CASE k = high
    BY <1>1, <1>5, <2>1 DEF FirstPlace
  <2>2. CASE k # high
    <3>1. k \in above /\ \A j \in above : k <= j
      <4> HIDE DEF n, above
      <4>1. k \in Nat /\ high \in Nat
        BY <1>1 DEF n
      <4>2. k \in k .. high - 1
        BY <1>4, <2>2, <4>1
      <4> QED BY <1>5, <4>1, <4>2
    <3>2. \A i \in above : (\A j \in above : i <= j) => i = k
      BY <1>1, <1>5, <3>1
    <3> HIDE DEF above
    <3> QED BY <3>1, <3>2 DEF FirstPlace
  <2> QED BY <2>1, <2>2
<1>7. Walk(steps, low, high, IdAfter(steps, low), a) = IF k = low THEN IdAfter(steps, low) ELSE steps[k].id
  <2>1. Walk(steps, low, high, IdAfter(steps, low), a)
            = IF stop = low THEN IdAfter(steps, low) ELSE steps[stop].id
    BY DEF Walk, FirstPlace
  <2> HIDE DEF stop
  <2> QED BY <1>6, <2>1
<1>8. CASE k = low
  BY <1>2, <1>7, <1>8
<1>9. CASE k # low
  <2>1. k # 0
    BY <1>1, <1>3, <1>9
  <2> QED BY <1>2, <1>7, <1>9, <2>1 DEF IdAfter
<1> QED BY <1>8, <1>9

-----------------------------------------------------------------------------
(* Windows and cuts. *)

\* The bits of the high word above a shift.
Upper(a, shift) == High(a) \div Pow2[shift]

\* What the constants and the words of an address are.
LEMMA Constants ==
    /\ LowBits \in Nat /\ HighBits \in Nat /\ Width = LowBits + HighBits
    /\ OctetBits \in Nat \ {0} /\ subThreshold \in Nat
    /\ Pow2[LowBits] \in Nat \ {0} /\ Pow2[OctetBits] \in Nat \ {0}
    /\ \A a \in Addr : a \in Nat /\ a < Pow2[Width] /\ High(a) \in Nat
    /\ \A a \in Addr : \A shift \in Nat : Upper(a, shift) \in Nat
<1>1. /\ LowBits \in Nat /\ HighBits \in Nat /\ Width = LowBits + HighBits
      /\ OctetBits \in Nat \ {0} /\ subThreshold \in Nat
  BY WidthAssumption, WindowAssumption DEF HighBits
<1>2. Pow2[LowBits] \in Nat \ {0} /\ Pow2[OctetBits] \in Nat \ {0} /\ Pow2[Width] \in Nat \ {0}
  BY <1>1, WidthAssumption, PowersOfTwo
<1>3. \A a \in Addr : a \in Nat /\ a < Pow2[Width]
  BY <1>2 DEF Addr
<1>4. \A a \in Addr : High(a) \in Nat
  BY <1>2, <1>3, DivisionWithRemainder DEF High
<1>5. \A a \in Addr : \A shift \in Nat : Upper(a, shift) \in Nat
  BY <1>4, PowersOfTwo, DivisionWithRemainder DEF Upper
<1> QED BY <1>1, <1>2, <1>3, <1>4, <1>5

\* The bits above a shift keep the order of addresses.
LEMMA UpperInOrder ==
    ASSUME NEW a \in Addr, NEW b \in Addr, NEW shift \in Nat
    PROVE  /\ a <= b => Upper(a, shift) <= Upper(b, shift)
           /\ Upper(a, shift) < Upper(b, shift) => a < b
<1>1. ASSUME NEW x \in Addr, NEW y \in Addr, x <= y PROVE Upper(x, shift) <= Upper(y, shift)
  <2>1. High(x) <= High(y)
    BY <1>1, Constants, DivisionInOrder DEF High
  <2>2. Pow2[shift] \in Nat \ {0} /\ High(x) \in Nat /\ High(y) \in Nat
    BY Constants, PowersOfTwo
  <2> QED BY <2>1, <2>2, DivisionInOrder DEF Upper
<1>2. a \in Nat /\ b \in Nat /\ Upper(a, shift) \in Nat /\ Upper(b, shift) \in Nat
  BY Constants
<1> QED BY <1>1, <1>2

\* The window is one of the two, and has a slot for every address.
LEMMA WindowRange ==
    ASSUME NEW bits \in {NarrowBits, WideBits}, NEW a \in Addr
    PROVE  /\ bits \in Nat /\ HighBits - bits \in Nat /\ OctetBits <= HighBits - bits
           /\ (HighBits - bits) % OctetBits = 0
           /\ Pow2[bits] \in Nat \ {0}
           /\ Upper(a, HighBits - bits) \in 0 .. Pow2[bits] - 1
<1> DEFINE shift == HighBits - bits
<1>1. bits \in Nat /\ shift \in Nat /\ OctetBits <= shift /\ shift % OctetBits = 0 /\ HighBits = shift + bits
  <2>1. /\ bits \in Nat /\ bits + OctetBits <= HighBits
        /\ (HighBits - bits) % OctetBits = 0
    BY WindowAssumption
  <2>2. HighBits \in Nat /\ OctetBits \in Nat
    BY Constants
  <2>3. shift \in Nat /\ OctetBits <= shift /\ HighBits = shift + bits
    BY <2>1, <2>2
  <2> QED BY <2>1, <2>3
<1> HIDE DEF shift
<1>2. Pow2[bits] \in Nat \ {0} /\ Pow2[shift] \in Nat \ {0} /\ Pow2[HighBits] \in Nat
  BY <1>1, PowersOfTwo, Constants
<1>3. Pow2[Width] = Pow2[HighBits] * Pow2[LowBits]
  BY Constants, PowersAdd
<1>4. High(a) < Pow2[HighBits]
  BY <1>2, <1>3, Constants, QuotientBelow DEF High
<1>5. Pow2[HighBits] = Pow2[bits] * Pow2[shift]
  BY <1>1, PowersAdd
<1>6. Upper(a, shift) < Pow2[bits]
  <2>1. High(a) \in Nat
    BY Constants
  <2> QED BY <1>2, <1>4, <1>5, <2>1, QuotientBelow DEF Upper
<1>7. Upper(a, shift) \in Nat
  BY <1>1, Constants
<1>8. Upper(a, shift) \in 0 .. Pow2[bits] - 1
  BY <1>2, <1>6, <1>7
<1> QED BY <1>1, <1>2, <1>8 DEF shift

\* Rising steps have their bounds in the order of their places.
LEMMA RisingBounds ==
    ASSUME NEW steps \in Seq(Step), NEW f, Rising(steps, f)
    PROVE  /\ Len(steps) \in Nat /\ DOMAIN steps = 1 .. Len(steps)
           /\ \A i \in 1 .. Len(steps) : steps[i].bound \in Addr /\ steps[i].id \in Nat
           /\ \A i, j \in 1 .. Len(steps) : i < j => steps[i].bound < steps[j].bound
<1>1. Len(steps) \in Nat /\ DOMAIN steps = 1 .. Len(steps) /\ \A i \in 1 .. Len(steps) : steps[i] \in Step
  BY LenProperties, ElementOfSeq
<1>2. \A e \in Step : e.bound \in Addr /\ e.id \in Nat
  BY DEF Step
<1> QED BY <1>1, <1>2 DEF Rising

\* The offset of a slot parts the steps of the slots before it from the others.
LEMMA WindowParts ==
    ASSUME NEW steps \in Seq(Step), NEW f, Rising(steps, f), NEW shift \in Nat, NEW slot \in Nat
    PROVE  LET off == buildSlotOffsets(steps, shift, slot)
           IN  /\ off \in 0 .. Len(steps)
               /\ \A i \in 1 .. off : Upper(steps[i].bound, shift) < slot
               /\ \A i \in off + 1 .. Len(steps) : slot <= Upper(steps[i].bound, shift)
<1> DEFINE n == Len(steps)
           marks == [i \in 1 .. n |-> Upper(steps[i].bound, shift)]
           T == {i \in 0 .. n - 1 : marks[i + 1] >= slot}
           off == buildSlotOffsets(steps, shift, slot)
<1>1. /\ n \in Nat
      /\ \A i \in 1 .. n : steps[i].bound \in Addr
      /\ \A i, j \in 1 .. n : i < j => steps[i].bound < steps[j].bound
  BY RisingBounds
<1>2. \A i \in 1 .. n : marks[i] \in Nat
  BY <1>1, Constants
<1>3. ASSUME NEW i \in 1 .. n, NEW j \in 1 .. n, i < j PROVE marks[i] <= marks[j]
  <2>1. steps[i].bound <= steps[j].bound
    <3>1. steps[i].bound < steps[j].bound /\ steps[i].bound \in Nat /\ steps[j].bound \in Nat
      BY <1>1, <1>3, Constants
    <3> QED BY <3>1
  <2> QED BY <1>1, <2>1, UpperInOrder
<1>4. off = FirstPlace(T, n)
  <2>1. T = {i \in 0 .. n - 1 : High(steps[i + 1].bound) \div Pow2[shift] >= slot}
    <3>1. \A i \in 0 .. n - 1 : i + 1 \in 1 .. n
      BY <1>1
    <3> HIDE DEF n
    <3> QED BY <3>1 DEF Upper
  <2> HIDE DEF T
  <2> QED BY <2>1 DEF buildSlotOffsets, OffsetOf, FirstPlace
<1>5. /\ FirstPlace(T, n) \in 0 .. n
      /\ \A i \in 0 + 1 .. FirstPlace(T, n) : marks[i] < slot
      /\ \A i \in FirstPlace(T, n) + 1 .. n : slot <= marks[i]
  <2> HIDE DEF marks, n
  <2>1. 0 \in Nat /\ 0 <= n /\ 0 + 1 = 1
    BY <1>1
  <2> QED BY <1>1, <1>2, <1>3, <2>1, PlacesPart
<1> HIDE DEF off, T
<1>6. /\ \A i \in 1 .. off : i \in 1 .. n
      /\ \A i \in off + 1 .. n : i \in 1 .. n
  BY <1>1, <1>4, <1>5
<1>7. off \in 0 .. n
  BY <1>4, <1>5
<1>8. \A i \in 1 .. off : marks[i] < slot
  <2> HIDE DEF marks, n
  <2>1. \A i \in 1 .. off : i \in 0 + 1 .. off
    BY <1>7
  <2> QED BY <1>4, <1>5, <2>1
<1>9. \A i \in off + 1 .. n : slot <= marks[i]
  BY <1>4, <1>5
<1>10. \A i \in 1 .. n : marks[i] = Upper(steps[i].bound, shift)
  OBVIOUS
<1> HIDE DEF marks
<1>11. /\ off \in 0 .. n
       /\ \A i \in 1 .. off : Upper(steps[i].bound, shift) < slot
       /\ \A i \in off + 1 .. n : slot <= Upper(steps[i].bound, shift)
  BY <1>6, <1>7, <1>8, <1>9, <1>10
<1> QED BY <1>11 DEF off

\* The steps from low to high are those in the slot of the address.
InSlot(steps, a, shift, low, high) ==
    /\ low \in 0 .. Len(steps) /\ high \in 0 .. Len(steps) /\ low <= high
    /\ \A i \in 1 .. low : steps[i].bound < a
    /\ \A i \in high + 1 .. Len(steps) : a < steps[i].bound
    /\ \A i \in low + 1 .. high : Upper(steps[i].bound, shift) = Upper(a, shift)

SlotEnd(steps, bits, slot) ==
    IF slot = Pow2[bits] - 1 THEN Len(steps) ELSE buildSlotOffsets(steps, HighBits - bits, slot + 1)

\* From a slot's offset to its end stand the steps with the address's window.
LEMMA WindowHoldsSlot ==
    ASSUME NEW steps \in Seq(Step), NEW f, Rising(steps, f),
           NEW bits \in {NarrowBits, WideBits}, NEW a \in Addr
    PROVE  InSlot(steps, a, HighBits - bits,
                  buildSlotOffsets(steps, HighBits - bits, Upper(a, HighBits - bits)),
                  SlotEnd(steps, bits, Upper(a, HighBits - bits)))
<1> DEFINE n == Len(steps)
           shift == HighBits - bits
           slot == Upper(a, shift)
           low == buildSlotOffsets(steps, shift, slot)
           high == SlotEnd(steps, bits, slot)
           mark(i) == Upper(steps[i].bound, shift)
<1>1. /\ n \in Nat
      /\ \A i \in 1 .. n : steps[i].bound \in Addr /\ steps[i].bound \in Nat
  BY RisingBounds, Constants
<1>2. shift \in Nat /\ slot \in 0 .. Pow2[bits] - 1 /\ Pow2[bits] \in Nat \ {0} /\ slot \in Nat
  BY WindowRange
<1>3. /\ low \in 0 .. n
      /\ \A i \in 1 .. low : mark(i) < slot
      /\ \A i \in low + 1 .. n : slot <= mark(i)
  <2> HIDE DEF shift, slot
  <2> QED BY <1>2, WindowParts
<1>4. /\ high \in 0 .. n
      /\ \A i \in 1 .. high : i \in 1 .. n => mark(i) <= slot
      /\ \A i \in high + 1 .. n : slot < mark(i)
  <2>1. CASE slot = Pow2[bits] - 1
    <3>1. high = n
      BY <2>1 DEF SlotEnd
    <3>2. \A i \in 1 .. n : mark(i) \in 0 .. Pow2[bits] - 1
      BY <1>1, WindowRange
    <3> HIDE DEF high, mark, slot, n
    <3>3. \A i \in 1 .. n : mark(i) <= slot
      BY <1>2, <2>1, <3>2
    <3> QED BY <1>1, <3>1, <3>3
  <2>2. CASE slot # Pow2[bits] - 1
    <3>1. high = buildSlotOffsets(steps, shift, slot + 1)
      BY <2>2 DEF SlotEnd
    <3> HIDE DEF high, shift, slot
    <3>2. slot + 1 \in Nat
      BY <1>2
    <3>3. /\ high \in 0 .. n
          /\ \A i \in 1 .. high : mark(i) < slot + 1
          /\ \A i \in high + 1 .. n : slot + 1 <= mark(i)
      BY <1>2, <3>1, <3>2, WindowParts
    <3>4. \A i \in 1 .. n : mark(i) \in Nat
      BY <1>1, <1>2, Constants
    <3> HIDE DEF mark, n
    <3>5. \A i \in high + 1 .. n : i \in 1 .. n
      BY <1>1, <3>3
    <3> QED BY <1>2, <3>3, <3>4, <3>5
  <2> QED BY <2>1, <2>2
<1>5. \A i \in 1 .. n : mark(i) \in Nat
  BY <1>1, <1>2, Constants
<1>6. \A i \in 1 .. n : /\ mark(i) < slot => steps[i].bound < a
                        /\ slot < mark(i) => a < steps[i].bound
  BY <1>1, <1>2, UpperInOrder
<1> HIDE DEF low, high, mark, slot, n
<1>7. /\ \A i \in 1 .. low : i \in 1 .. n
      /\ \A i \in low + 1 .. n : i \in 1 .. n
      /\ \A i \in 1 .. high : i \in 1 .. n
      /\ \A i \in high + 1 .. n : i \in 1 .. n
  BY <1>1, <1>3, <1>4
<1>8. low <= high
  <2> SUFFICES ASSUME high < low PROVE FALSE
    BY <1>1, <1>3, <1>4
  <2>1. low \in 1 .. low /\ low \in high + 1 .. n
    BY <1>1, <1>3, <1>4
  <2>2. mark(low) < slot /\ slot < mark(low) /\ mark(low) \in Nat
    BY <1>3, <1>4, <1>5, <1>7, <2>1
  <2> QED BY <1>2, <2>2
<1>9. \A i \in low + 1 .. high : mark(i) = slot
  <2> SUFFICES ASSUME NEW i \in low + 1 .. high PROVE mark(i) = slot
    OBVIOUS
  <2>1. i \in low + 1 .. n /\ i \in 1 .. high /\ i \in 1 .. n
    BY <1>1, <1>3, <1>4
  <2>2. slot <= mark(i) /\ mark(i) <= slot /\ mark(i) \in Nat
    BY <1>3, <1>4, <1>5, <2>1
  <2> QED BY <1>2, <2>2
<1>10. \A i \in 1 .. low : steps[i].bound < a
  BY <1>3, <1>6, <1>7
<1>11. \A i \in high + 1 .. n : a < steps[i].bound
  BY <1>4, <1>6, <1>7
<1>12. InSlot(steps, a, shift, low, high)
  BY <1>3, <1>4, <1>8, <1>9, <1>10, <1>11 DEF InSlot, mark, slot, n
<1> QED BY <1>12 DEF low, high, slot

\* An octet is what a shift adds to the bits above it.
LEMMA OctetBelow ==
    ASSUME NEW a \in Addr, NEW shift \in Nat
    PROVE  /\ Octet(a, shift) \in 0 .. Pow2[OctetBits] - 1 /\ Octet(a, shift) \in Nat
           /\ Upper(a, shift) = Upper(a, shift + OctetBits) * Pow2[OctetBits] + Octet(a, shift)
<1>1. /\ High(a) \in Nat /\ Upper(a, shift) \in Nat
      /\ Pow2[OctetBits] \in Nat \ {0} /\ Pow2[shift] \in Nat \ {0} /\ OctetBits \in Nat
  BY Constants, PowersOfTwo
<1>2. Pow2[shift + OctetBits] = Pow2[OctetBits] * Pow2[shift]
  BY <1>1, PowersAdd
<1>3. Upper(a, shift) \div Pow2[OctetBits] = Upper(a, shift + OctetBits)
  BY <1>1, <1>2, DivisionTwice DEF Upper
<1>4. Octet(a, shift) = Upper(a, shift) % Pow2[OctetBits]
  BY DEF Octet, Upper
<1>5. /\ Upper(a, shift) % Pow2[OctetBits] \in 0 .. Pow2[OctetBits] - 1
      /\ Upper(a, shift) = (Upper(a, shift) \div Pow2[OctetBits]) * Pow2[OctetBits]
                              + (Upper(a, shift) % Pow2[OctetBits])
  BY <1>1, DivisionWithRemainder
<1>6. Octet(a, shift) \in 0 .. Pow2[OctetBits] - 1
  BY <1>4, <1>5
<1>7. Octet(a, shift) \in Nat
  <2> DEFINE o == Octet(a, shift)
             p == Pow2[OctetBits]
  <2>1. o \in 0 .. p - 1 /\ p \in Nat
    BY <1>1, <1>6
  <2> HIDE DEF o, p
  <2>2. o \in Nat
    BY <2>1
  <2> QED BY <2>2 DEF o
<1> QED BY <1>3, <1>4, <1>5, <1>6, <1>7

\* bestShift finds an octet above which the steps do not differ.
LEMMA CutIsCandidate ==
    ASSUME NEW slotSteps \in Seq(Step), NEW first \in Nat
    PROVE  /\ bestShift(slotSteps, first) \in OctetsBelow(first)
           /\ \A above \in OctetsBelow(first) :
                 above > bestShift(slotSteps, first) => constantOctet(slotSteps, above)
<1> DEFINE candidates == {shift \in OctetsBelow(first) :
                             \A above \in OctetsBelow(first) :
                                 above > shift => constantOctet(slotSteps, above)}
           W(shift) == Worst(slotSteps, shift)
           Best(best) == \A shift \in candidates :
                            \/ W(best) < W(shift)
                            \/ W(best) = W(shift) /\ best >= shift
<1>1. \A shift \in OctetsBelow(first) : shift \in 0 .. first
  BY DEF OctetsBelow
<1>2. first \in candidates
  <2>1. first - first = 0 * OctetBits + 0 /\ 0 \in 0 .. OctetBits - 1 /\ OctetBits \in Nat \ {0}
    BY Constants
  <2>2. (0 * OctetBits + 0) % OctetBits = 0
    BY <2>1, QuotientAndRemainder
  <2>3. first \in OctetsBelow(first)
    BY <2>1, <2>2 DEF OctetsBelow
  <2>4. \A above \in OctetsBelow(first) : ~(above > first)
    BY <1>1
  <2> QED BY <2>3, <2>4
<1>3. \A shift \in candidates : W(shift) \in Nat
  <2> SUFFICES ASSUME NEW shift \in candidates PROVE W(shift) \in Nat
    OBVIOUS
  <2> DEFINE D == DOMAIN slotSteps
             places == [o \in 0 .. Pow2[OctetBits] - 1 |-> {i \in D : Octet(slotSteps[i].bound, shift) = o}]
             sizes == {Cardinality(places[o]) : o \in 0 .. Pow2[OctetBits] - 1}
  <2>1. IsFiniteSet(D) /\ Cardinality(D) \in Nat
    <3>1. D = 1 .. Len(slotSteps) /\ Len(slotSteps) \in Nat
      BY LenProperties
    <3>2. IsFiniteSet(1 .. Len(slotSteps))
      BY <3>1, FS_Interval
    <3> QED BY <3>1, <3>2, FS_CardinalityType
  <2>2. \A o \in 0 .. Pow2[OctetBits] - 1 : places[o] \in SUBSET D
    OBVIOUS
  <2>3. W(shift) = Max(sizes)
    BY DEF Worst
  <2>4. 0 \in 0 .. Pow2[OctetBits] - 1
    BY Constants
  <2> HIDE DEF D, places
  <2>5. \A o \in 0 .. Pow2[OctetBits] - 1 : /\ Cardinality(places[o]) \in Nat
                                            /\ Cardinality(places[o]) <= Cardinality(D)
    <3> SUFFICES ASSUME NEW o \in 0 .. Pow2[OctetBits] - 1
                 PROVE  Cardinality(places[o]) \in Nat /\ Cardinality(places[o]) <= Cardinality(D)
      OBVIOUS
    <3>1. IsFiniteSet(places[o]) /\ Cardinality(places[o]) <= Cardinality(D)
      BY <2>1, <2>2, FS_Subset
    <3> QED BY <3>1, FS_CardinalityType
  <2>6. sizes \in SUBSET Nat /\ sizes # {} /\ \A x \in sizes : x <= Cardinality(D)
    BY <2>4, <2>5
  <2> HIDE DEF sizes
  <2> QED BY <2>1, <2>3, <2>6, GreatestElement
<1>4. \E best \in candidates : Best(best)
  <2> DEFINE values == {W(shift) : shift \in candidates}
  <2>1. values \in SUBSET Nat /\ values # {}
    BY <1>2, <1>3
  <2>2. PICK least \in values : \A x \in values : least <= x
    <3> HIDE DEF values
    <3> QED BY <2>1, LeastElement
  <2> DEFINE evenest == {shift \in candidates : W(shift) = least}
  <2>3. evenest \in SUBSET Nat /\ evenest # {} /\ \A x \in evenest : x <= first
    <3>1. \A shift \in candidates : shift \in Nat /\ shift <= first
      BY <1>1
    <3> HIDE DEF candidates, W
    <3> QED BY <2>2, <3>1
  <2>4. Max(evenest) \in evenest /\ \A x \in evenest : x <= Max(evenest)
    <3> HIDE DEF evenest
    <3> QED BY <2>3, GreatestElement
  <2>5. Best(Max(evenest))
    <3> SUFFICES ASSUME NEW shift \in candidates
                 PROVE  \/ W(Max(evenest)) < W(shift)
                        \/ W(Max(evenest)) = W(shift) /\ Max(evenest) >= shift
      OBVIOUS
    <3>1. W(shift) \in values /\ W(shift) \in Nat /\ shift \in Nat
      BY <1>1, <1>3
    <3>2. least <= W(shift) /\ least \in Nat
      BY <2>1, <2>2, <3>1
    <3>3. W(Max(evenest)) = least /\ Max(evenest) \in Nat
      BY <2>3, <2>4
    <3>4. W(shift) = least => shift <= Max(evenest)
      BY <2>4
    <3> HIDE DEF W, evenest, candidates, values
    <3> QED BY <3>1, <3>2, <3>3, <3>4
  <2>6. Max(evenest) \in candidates
    BY <2>4
  <2> HIDE DEF Best, candidates, evenest
  <2> QED BY <2>5, <2>6
<1>5. bestShift(slotSteps, first) = CHOOSE best \in candidates : Best(best)
  BY DEF bestShift
<1>6. bestShift(slotSteps, first) \in candidates
  <2> HIDE DEF candidates, Best
  <2> QED BY <1>4, <1>5
<1> QED BY <1>6

\* The cut of a crowded slot.
CutOf(steps, low, high, shift) == bestShift(SubSeq(steps, low + 1, high), shift - OctetBits)

\* The steps from low to high agree in the bits of the high word above a shift.
Agree(steps, low, high, shift) ==
    \A i, j \in low + 1 .. high : Upper(steps[i].bound, shift) = Upper(steps[j].bound, shift)

\* The steps of a slot agree above the octet of its cut.
LEMMA CutHoldsSlot ==
    ASSUME NEW steps \in Seq(Step), NEW f, Rising(steps, f),
           NEW low \in 0 .. Len(steps), NEW high \in 0 .. Len(steps), low <= high,
           NEW shift \in Nat, OctetBits <= shift, NEW u,
           \A i \in low + 1 .. high : Upper(steps[i].bound, shift) = u
    PROVE  /\ CutOf(steps, low, high, shift) \in Nat
           /\ CutOf(steps, low, high, shift) + OctetBits <= shift
           /\ Agree(steps, low, high, CutOf(steps, low, high, shift) + OctetBits)
<1> DEFINE first == shift - OctetBits
           slotSteps == SubSeq(steps, low + 1, high)
           cut == bestShift(slotSteps, first)
           t == (first - cut) \div OctetBits
           D(w) == w * OctetBits
           Same(s) == \A i, j \in low + 1 .. high : Upper(steps[i].bound, s) = Upper(steps[j].bound, s)
<1>1. /\ Len(steps) \in Nat
      /\ \A i \in 1 .. Len(steps) : steps[i].bound \in Addr
  BY RisingBounds
<1>2. OctetBits \in Nat \ {0} /\ first \in Nat /\ Pow2[OctetBits] \in Nat
  BY Constants
<1>3. /\ slotSteps \in Seq(Step)
      /\ DOMAIN slotSteps = 1 .. high - low
      /\ \A i \in 1 .. high - low : slotSteps[i] = steps[low + i]
  <2>1. low + 1 \in 1 .. Len(steps) + 1 /\ high \in (low + 1) - 1 .. Len(steps)
    BY <1>1
  <2>2. /\ slotSteps \in Seq(Step)
        /\ Len(slotSteps) = high - (low + 1) + 1
        /\ \A i \in 1 .. high - (low + 1) + 1 : slotSteps[i] = steps[(low + 1) + i - 1]
    BY <2>1, SubSeqProperties
  <2> HIDE DEF slotSteps
  <2>3. high - (low + 1) + 1 = high - low
    BY <1>1
  <2>4. \A i \in 1 .. high - low : (low + 1) + i - 1 = low + i
    BY <1>1
  <2> QED BY <2>2, <2>3, <2>4, LenProperties
<1> HIDE DEF first, slotSteps
<1>4. /\ cut \in OctetsBelow(first)
      /\ \A above \in OctetsBelow(first) : above > cut => constantOctet(slotSteps, above)
  BY <1>2, <1>3, CutIsCandidate
<1> HIDE DEF cut
<1>5. cut \in 0 .. first /\ (first - cut) % OctetBits = 0
  BY <1>4 DEF OctetsBelow
<1>6. t \in Nat /\ first - cut = D(t)
  <2>1. first - cut \in Nat
    BY <1>2, <1>5
  <2>2. t \in Nat /\ first - cut = t * OctetBits + ((first - cut) % OctetBits)
    BY <1>2, <2>1, DivisionWithRemainder
  <2> HIDE DEF t
  <2>3. t * OctetBits \in Nat
    BY <1>2, <2>2
  <2> QED BY <1>5, <2>2, <2>3
<1> HIDE DEF t
<1>7. \A w \in Nat : D(w) \in Nat /\ D(w + 1) = D(w) + OctetBits /\ D(w) % OctetBits = 0
  <2> SUFFICES ASSUME NEW w \in Nat
               PROVE  D(w) \in Nat /\ D(w + 1) = D(w) + OctetBits /\ D(w) % OctetBits = 0
    OBVIOUS
  <2>1. 0 \in 0 .. OctetBits - 1
    BY <1>2
  <2>2. (w * OctetBits + 0) % OctetBits = 0
    BY <1>2, <2>1, QuotientAndRemainder
  <2>3. w * OctetBits \in Nat /\ (w + 1) * OctetBits = w * OctetBits + OctetBits /\ w * OctetBits + 0 = w * OctetBits
    BY <1>2
  <2> QED BY <2>2, <2>3
<1>8. \A w \in Nat : w < t => D(w) + OctetBits <= D(t)
  <2> SUFFICES ASSUME NEW w \in Nat, w < t PROVE (w + 1) * OctetBits <= t * OctetBits
    BY <1>7
  <2>1. w + 1 <= t
    BY <1>6
  <2> QED BY <1>2, <1>6, <2>1
<1> HIDE DEF D
<1>9. shift - D(t) = cut + OctetBits
  BY <1>2, <1>5, <1>6, <1>7 DEF first
<1>10. \A w \in 0 .. t : Same(shift - D(w))
  <2> DEFINE odd == {w \in 0 .. t : ~Same(shift - D(w))}
  <2> SUFFICES ASSUME odd # {} PROVE FALSE
    OBVIOUS
  <2> HIDE DEF Same
  <2>1. PICK m \in odd : \A w \in odd : m <= w
    <3>1. odd \in SUBSET Nat
      BY <1>6
    <3> HIDE DEF odd
    <3> QED BY <3>1, LeastElement
  <2>2. m \in 0 .. t /\ ~Same(shift - D(m))
    BY <2>1
  <2>3. Same(shift - D(0))
    <3>1. D(0) = 0
      BY <1>2 DEF D
    <3>2. shift - D(0) = shift
      BY <3>1
    <3> QED BY <3>2 DEF Same
  <2>4. m # 0
    BY <2>2, <2>3
  <2>5. PICK w \in Nat : w + 1 = m /\ w < t /\ w \in 0 .. t /\ ~(m <= w)
    <3>1. m - 1 \in Nat /\ (m - 1) + 1 = m /\ m - 1 < t /\ m - 1 \in 0 .. t /\ ~(m <= m - 1)
      BY <1>6, <2>2, <2>4
    <3> QED BY <3>1
  <2>6. Same(shift - D(w))
    <3>1. w \notin odd
      BY <2>1, <2>5
    <3> QED BY <2>5, <3>1
  <2> DEFINE s == shift - D(m)
  <2>7. s \in Nat /\ s + OctetBits = shift - D(w) /\ cut < s /\ s <= first /\ first - s = D(w)
    <3>1. D(m) = D(w) + OctetBits /\ D(m) <= D(t) /\ D(w) \in Nat /\ D(t) \in Nat
      BY <1>6, <1>7, <1>8, <2>5
    <3>2. cut \in Nat /\ shift - D(t) = cut + OctetBits
      BY <1>5, <1>9
    <3>3. first = shift - OctetBits
      BY DEF first
    <3>4. OctetBits \in Nat \ {0} /\ shift \in Nat
      BY <1>2
    <3> DEFINE dm == D(m)
               dw == D(w)
               dt == D(t)
    <3> HIDE DEF dm, dw, dt
    <3>5. dm = dw + OctetBits /\ dm <= dt /\ dw \in Nat /\ dt \in Nat /\ shift - dt = cut + OctetBits
      BY <3>1, <3>2 DEF dm, dw, dt
    <3>6. s = shift - dm
      BY DEF dm
    <3> HIDE DEF s
    <3>7. s \in Nat /\ cut < s
      BY <3>2, <3>4, <3>5, <3>6
    <3>8. s + OctetBits = shift - dw /\ s <= first /\ first - s = dw
      BY <3>3, <3>4, <3>5, <3>6
    <3> QED BY <3>7, <3>8 DEF dw
  <2> HIDE DEF s
  <2>8. constantOctet(slotSteps, s)
    <3>1. s \in 0 .. first /\ (first - s) % OctetBits = 0
      <4>1. D(w) % OctetBits = 0 /\ w \in Nat
        BY <1>7, <2>5
      <4>2. (first - s) % OctetBits = 0
        BY <2>7, <4>1
      <4>3. s \in 0 .. first
        BY <1>2, <2>7
      <4> QED BY <4>2, <4>3
    <3>2. s \in OctetsBelow(first)
      BY <3>1 DEF OctetsBelow
    <3>3. s > cut
      BY <1>5, <2>7
    <3> QED BY <1>4, <3>2, <3>3
  <2>9. Same(s)
    <3> SUFFICES ASSUME NEW i \in low + 1 .. high, NEW j \in low + 1 .. high
                 PROVE  Upper(steps[i].bound, s) = Upper(steps[j].bound, s)
      BY DEF Same
    <3>1. i \in 1 .. Len(steps) /\ j \in 1 .. Len(steps)
      BY <1>1
    <3>2. /\ i - low \in 1 .. high - low /\ low + (i - low) = i
          /\ j - low \in 1 .. high - low /\ low + (j - low) = j
      BY <1>1
    <3>3. Octet(steps[i].bound, s) = Octet(steps[j].bound, s)
      <4> DEFINE x == i - low
                 y == j - low
      <4>1. slotSteps[x] = steps[i] /\ slotSteps[y] = steps[j] /\ x \in DOMAIN slotSteps /\ y \in DOMAIN slotSteps
        BY <1>3, <3>2
      <4> HIDE DEF x, y
      <4>2. Octet(slotSteps[x].bound, s) = Octet(slotSteps[y].bound, s)
        BY <2>8, <4>1 DEF constantOctet
      <4> QED BY <4>1, <4>2
    <3>4. Upper(steps[i].bound, s + OctetBits) = Upper(steps[j].bound, s + OctetBits)
      BY <2>6, <2>7 DEF Same
    <3>5. ASSUME NEW x \in Addr
          PROVE  Upper(x, s) = Upper(x, s + OctetBits) * Pow2[OctetBits] + Octet(x, s)
      BY <2>7, OctetBelow
    <3>6. steps[i].bound \in Addr /\ steps[j].bound \in Addr
      BY <1>1, <3>1
    <3> QED BY <3>3, <3>4, <3>5, <3>6
  <2> QED BY <2>2, <2>9 DEF s
<1>11. Same(cut + OctetBits)
  <2>1. t \in 0 .. t
    BY <1>6
  <2> HIDE DEF Same
  <2> QED BY <1>9, <1>10, <2>1
<1>12. cut \in Nat /\ cut + OctetBits <= shift
  BY <1>2, <1>5 DEF first
<1>13. CutOf(steps, low, high, shift) = cut
  BY DEF CutOf, cut, first, slotSteps
<1> QED BY <1>11, <1>12, <1>13 DEF Agree

\* A bucket of the second cut parts the steps of the lower octets from the others.
LEMMA CutParts ==
    ASSUME NEW steps \in Seq(Step), NEW f, Rising(steps, f),
           NEW low \in 0 .. Len(steps), NEW high \in 0 .. Len(steps), low <= high,
           NEW cut \in Nat, Agree(steps, low, high, cut + OctetBits),
           NEW base, NEW o \in 0 .. Pow2[OctetBits]
    PROVE  LET bucket == appendSubBlock(steps, low, high, base, cut)[o]
           IN  /\ bucket.off \in low .. high
               /\ bucket.id = Carried(steps, bucket.off, low, base)
               /\ \A i \in low + 1 .. bucket.off : Octet(steps[i].bound, cut) < o
               /\ \A i \in bucket.off + 1 .. high : o <= Octet(steps[i].bound, cut)
<1> DEFINE n == Len(steps)
           marks == [i \in low + 1 .. high |-> Octet(steps[i].bound, cut)]
           T == {i \in low .. high - 1 : marks[i + 1] >= o}
           bucket == appendSubBlock(steps, low, high, base, cut)[o]
           off == bucket.off
<1>1. /\ n \in Nat
      /\ \A i \in 1 .. n : steps[i].bound \in Addr /\ steps[i].bound \in Nat
      /\ \A i, j \in 1 .. n : i < j => steps[i].bound < steps[j].bound
  BY RisingBounds, Constants
<1>2. \A i \in low + 1 .. high : i \in 1 .. n
  BY <1>1
<1>3. Pow2[OctetBits] \in Nat \ {0} /\ low \in Nat /\ high \in Nat /\ cut + OctetBits \in Nat
  BY <1>1, Constants
<1>4. \A i \in low + 1 .. high : marks[i] \in 0 .. Pow2[OctetBits] - 1
  BY <1>1, <1>2, OctetBelow
<1>5. ASSUME NEW i \in low + 1 .. high, NEW j \in low + 1 .. high, i < j PROVE marks[i] <= marks[j]
  <2> DEFINE u == Upper(steps[i].bound, cut + OctetBits)
             v == u * Pow2[OctetBits]
             x == Octet(steps[i].bound, cut)
             y == Octet(steps[j].bound, cut)
  <2>1. steps[i].bound \in Addr /\ steps[j].bound \in Addr /\ steps[i].bound <= steps[j].bound
    <3>1. steps[i].bound < steps[j].bound
      BY <1>1, <1>2, <1>5
    <3> QED BY <1>1, <1>2, <3>1
  <2>2. Upper(steps[i].bound, cut) <= Upper(steps[j].bound, cut)
    BY <2>1, UpperInOrder
  <2>3. Upper(steps[i].bound, cut) = v + x /\ x \in Nat
    <3>1. Upper(steps[i].bound, cut) = u * Pow2[OctetBits] + x /\ x \in Nat
      BY <2>1, OctetBelow
    <3> HIDE DEF u, x
    <3> QED BY <3>1
  <2>4. Upper(steps[j].bound, cut) = v + y /\ y \in Nat
    <3>1. Upper(steps[j].bound, cut + OctetBits) = u
      BY DEF Agree
    <3>2. /\ Upper(steps[j].bound, cut) = Upper(steps[j].bound, cut + OctetBits) * Pow2[OctetBits] + y
          /\ y \in Nat
      BY <2>1, OctetBelow
    <3> HIDE DEF u, y
    <3> QED BY <3>1, <3>2
  <2>5. v \in Nat
    <3>1. u \in Nat
      BY <1>3, <2>1, Constants
    <3> HIDE DEF u
    <3> QED BY <1>3, <3>1
  <2>6. x <= y
    <3> HIDE DEF v, x, y
    <3> QED BY <2>2, <2>3, <2>4, <2>5
  <2> QED BY <2>6
<1>6. /\ FirstPlace(T, high) \in low .. high
      /\ \A i \in low + 1 .. FirstPlace(T, high) : marks[i] < o
      /\ \A i \in FirstPlace(T, high) + 1 .. high : o <= marks[i]
  <2>1. \A i \in low + 1 .. high : marks[i] \in Nat
    BY <1>3, <1>4
  <2> HIDE DEF marks
  <2>2. o \in Nat
    BY <1>3
  <2> QED BY <1>3, <1>5, <2>1, <2>2, PlacesPart
<1>7. T = {i \in low .. high - 1 : Octet(steps[i + 1].bound, cut) >= o}
  <2>1. \A i \in low .. high - 1 : i + 1 \in low + 1 .. high
    BY <1>3
  <2> QED BY <2>1
<1>8. bucket = [off |-> off, id |-> Carried(steps, off, low, base)]
  BY DEF appendSubBlock
<1>9. off = IF o = Pow2[OctetBits] THEN high ELSE FirstPlace(T, high)
  <2> HIDE DEF T
  <2> QED BY <1>7 DEF appendSubBlock, OffsetOf, FirstPlace
<1>10. bucket.id = Carried(steps, off, low, base)
  <2> HIDE DEF bucket
  <2>1. bucket.id = [off |-> off, id |-> Carried(steps, off, low, base)].id
    BY <1>8
  <2> QED BY <2>1
<1> HIDE DEF T, bucket
<1>11. CASE o = Pow2[OctetBits]
  <2>1. off = high
    BY <1>9, <1>11
  <2>2. \A i \in low + 1 .. high : marks[i] < o
    BY <1>3, <1>4, <1>11
  <2>3. \A i \in low + 1 .. high : Octet(steps[i].bound, cut) < o
    BY <2>2
  <2>4. off \in low .. high /\ \A i \in off + 1 .. high : FALSE
    BY <1>3, <2>1
  <2> QED BY <1>10, <2>1, <2>3, <2>4 DEF bucket
<1>12. CASE o # Pow2[OctetBits]
  <2>1. off = FirstPlace(T, high)
    BY <1>9, <1>12
  <2>2. off \in low .. high
    BY <1>6, <2>1
  <2>3. /\ \A i \in low + 1 .. off : i \in low + 1 .. high
        /\ \A i \in off + 1 .. high : i \in low + 1 .. high
    BY <1>3, <2>2
  <2>4. /\ \A i \in low + 1 .. off : marks[i] < o
        /\ \A i \in off + 1 .. high : o <= marks[i]
    BY <1>6, <2>1
  <2>5. \A i \in low + 1 .. high : marks[i] = Octet(steps[i].bound, cut)
    OBVIOUS
  <2> HIDE DEF marks, off
  <2>6. /\ off \in low .. high
        /\ \A i \in low + 1 .. off : Octet(steps[i].bound, cut) < o
        /\ \A i \in off + 1 .. high : o <= Octet(steps[i].bound, cut)
    BY <2>2, <2>3, <2>4, <2>5
  <2> QED BY <1>10, <2>6 DEF bucket, off
<1> QED BY <1>11, <1>12

\* The winner carried in at an offset is the id of the step before it.
LEMMA CarriedIsIdAfter ==
    ASSUME NEW steps, NEW low \in Nat, NEW off \in Nat, low <= off
    PROVE  Carried(steps, off, low, IdAfter(steps, low)) = IdAfter(steps, off)
BY DEF Carried, IdAfter

\* Two offsets that part the steps at an address, with the winner carried in.
Brackets(steps, a, low, high, id) ==
    /\ low \in 0 .. Len(steps) /\ high \in 0 .. Len(steps)
    /\ \A i \in 1 .. low : steps[i].bound <= a
    /\ \A i \in high + 1 .. Len(steps) : a < steps[i].bound
    /\ id = IdAfter(steps, low)

\* The slot of an address does.
LEMMA SlotBrackets ==
    ASSUME NEW steps \in Seq(Step), NEW f, Rising(steps, f),
           NEW a \in Addr, NEW shift, NEW low, NEW high, InSlot(steps, a, shift, low, high)
    PROVE  Brackets(steps, a, low, high, Carried(steps, low, 0, 0))
<1>1. /\ Len(steps) \in Nat /\ a \in Nat
      /\ \A i \in 1 .. Len(steps) : steps[i].bound \in Nat
  BY RisingBounds, Constants
<1>2. low \in 0 .. Len(steps) /\ low \in Nat /\ 0 <= low
  BY <1>1 DEF InSlot
<1>3. \A i \in 1 .. low : steps[i].bound <= a
  <2>1. \A i \in 1 .. low : i \in 1 .. Len(steps) /\ steps[i].bound < a
    BY <1>1, <1>2 DEF InSlot
  <2> QED BY <1>1, <2>1
<1>4. Carried(steps, low, 0, 0) = IdAfter(steps, low)
  BY <1>2 DEF Carried, IdAfter
<1> QED BY <1>2, <1>3, <1>4 DEF Brackets, InSlot

\* And so does the bucket of its octet, where the address agrees with the steps
\* of its slot in the bits above the cut.
LEMMA CutBrackets ==
    ASSUME NEW steps \in Seq(Step), NEW f, Rising(steps, f),
           NEW a \in Addr, NEW shift, NEW low, NEW high, InSlot(steps, a, shift, low, high),
           low < high, NEW cut \in Nat, Agree(steps, low, high, cut + OctetBits),
           Upper(a, cut + OctetBits) = Upper(steps[low + 1].bound, cut + OctetBits)
    PROVE  LET base == Carried(steps, low, 0, 0)
               sub == appendSubBlock(steps, low, high, base, cut)
               o == Octet(a, cut)
           IN  Brackets(steps, a, sub[o].off, sub[o + 1].off, sub[o].id)
<1> DEFINE n == Len(steps)
           base == Carried(steps, low, 0, 0)
           o == Octet(a, cut)
           here == appendSubBlock(steps, low, high, base, cut)[o]
           next == appendSubBlock(steps, low, high, base, cut)[o + 1]
           from == here.off
           to == next.off
           Place(i) == Octet(steps[i].bound, cut)
<1>1. /\ n \in Nat /\ a \in Nat
      /\ \A i \in 1 .. n : steps[i].bound \in Addr /\ steps[i].bound \in Nat
  BY RisingBounds, Constants
<1>2. /\ low \in 0 .. n /\ high \in 0 .. n /\ low <= high
      /\ \A i \in 1 .. low : steps[i].bound < a
      /\ \A i \in high + 1 .. n : a < steps[i].bound
  BY DEF InSlot
<1>3. base = IdAfter(steps, low)
  BY SlotBrackets DEF Brackets
<1>4. Pow2[OctetBits] \in Nat \ {0} /\ cut + OctetBits \in Nat /\ o \in 0 .. Pow2[OctetBits] - 1
  <2>1. Pow2[OctetBits] \in Nat \ {0} /\ cut + OctetBits \in Nat
    BY Constants
  <2>2. o \in 0 .. Pow2[OctetBits] - 1
    BY OctetBelow
  <2> QED BY <2>1, <2>2
<1>5. o \in 0 .. Pow2[OctetBits] /\ o + 1 \in 0 .. Pow2[OctetBits]
  BY <1>4
<1> HIDE DEF o, base
<1>6. /\ from \in low .. high
      /\ here.id = Carried(steps, from, low, base)
      /\ \A i \in low + 1 .. from : Place(i) < o
  BY <1>2, <1>5, CutParts
<1>7. to \in low .. high /\ \A i \in to + 1 .. high : o + 1 <= Place(i)
  BY <1>2, <1>5, CutParts
<1> HIDE DEF here, next
<1>8. ASSUME NEW i \in low + 1 .. high
      PROVE  /\ Place(i) < o => steps[i].bound < a
             /\ o < Place(i) => a < steps[i].bound
  <2> DEFINE u == Upper(a, cut + OctetBits)
             v == u * Pow2[OctetBits]
             x == Place(i)
  <2>1. i \in 1 .. n /\ low + 1 \in low + 1 .. high
    BY <1>1, <1>2
  <2>2. Upper(steps[i].bound, cut + OctetBits) = u
    BY <1>8, <2>1 DEF Agree
  <2>3. Upper(a, cut) = v + o /\ v \in Nat
    <3>1. u \in Nat
      BY <1>4, Constants
    <3>2. Upper(a, cut) = u * Pow2[OctetBits] + o
      BY OctetBelow DEF o
    <3> HIDE DEF u
    <3> QED BY <1>4, <3>1, <3>2
  <2>4. Upper(steps[i].bound, cut) = v + x /\ x \in Nat
    <3>1. /\ Upper(steps[i].bound, cut) = Upper(steps[i].bound, cut + OctetBits) * Pow2[OctetBits] + x
          /\ x \in 0 .. Pow2[OctetBits] - 1
      BY <1>1, <2>1, OctetBelow
    <3> QED BY <1>4, <2>2, <3>1
  <2>5. /\ x < o => Upper(steps[i].bound, cut) < Upper(a, cut)
        /\ o < x => Upper(a, cut) < Upper(steps[i].bound, cut)
    <3> HIDE DEF v, x
    <3> QED BY <1>4, <2>3, <2>4
  <2> QED BY <1>1, <2>1, <2>5, UpperInOrder
<1> HIDE DEF Place, from, to
<1>9. \A i \in 1 .. from : steps[i].bound <= a
  <2> SUFFICES ASSUME NEW i \in 1 .. from PROVE steps[i].bound <= a
    OBVIOUS
  <2>1. i \in 1 .. n /\ (i \in 1 .. low \/ (i \in low + 1 .. from /\ i \in low + 1 .. high))
    BY <1>1, <1>2, <1>6
  <2>2. steps[i].bound < a
    BY <1>2, <1>6, <1>8, <2>1
  <2> QED BY <1>1, <2>1, <2>2
<1>10. \A i \in to + 1 .. n : a < steps[i].bound
  <2> SUFFICES ASSUME NEW i \in to + 1 .. n PROVE a < steps[i].bound
    OBVIOUS
  <2>1. \/ i \in high + 1 .. n
        \/ i \in to + 1 .. high /\ i \in low + 1 .. high /\ i \in 1 .. n
    BY <1>1, <1>2, <1>7
  <2>2. CASE i \in to + 1 .. high /\ i \in low + 1 .. high /\ i \in 1 .. n
    <3>1. Place(i) \in Nat /\ o + 1 <= Place(i)
      <4>1. Place(i) \in Nat
        BY <1>1, <1>4, <2>2, OctetBelow DEF Place
      <4> QED BY <1>7, <2>2, <4>1
    <3>2. o < Place(i)
      BY <1>4, <3>1
    <3> QED BY <1>8, <2>2, <3>2
  <2> QED BY <1>2, <2>1, <2>2
<1>11. here.id = IdAfter(steps, from)
  <2>1. low \in Nat /\ from \in Nat /\ low <= from
    BY <1>2, <1>6
  <2> QED BY <1>3, <1>6, <2>1, CarriedIsIdAfter
<1>12. from \in 0 .. n /\ to \in 0 .. n
  BY <1>1, <1>2, <1>6, <1>7
<1> QED BY <1>9, <1>10, <1>11, <1>12 DEF Brackets, from, to, here, next, o, base

\* A cut is the shift of an octet, which NoCut is not.
LEMMA CutIsShift ==
    ASSUME NEW bits \in {NarrowBits, WideBits}, NEW cut \in Nat, cut + OctetBits <= HighBits - bits
    PROVE  cut # NoCut
<1>1. bits \in Nat /\ OctetBits \in Nat \ {0} /\ HighBits \in Nat
  BY Constants, WindowAssumption
<1> QED BY <1>1 DEF NoCut

\* chooseLevel1Bits is one of the two windows.
LEMMA WindowChosen == ASSUME NEW steps PROVE chooseLevel1Bits(steps) \in {NarrowBits, WideBits}
BY DEF chooseLevel1Bits

\* An address that compile's second cut can tell from the steps of its slot.
Reached(steps, a) ==
    LET bits == chooseLevel1Bits(steps)
        shift == HighBits - bits
        slot == Upper(a, shift)
        low == buildSlotOffsets(steps, shift, slot)
        high == SlotEnd(steps, bits, slot)
        cut == CutOf(steps, low, high, shift)
    IN  high - low > subThreshold =>
            Upper(a, cut + OctetBits) = Upper(steps[low + 1].bound, cut + OctetBits)

\* The record of the slot of an address.
LEMMA CompiledSlot ==
    ASSUME NEW steps, ~(Len(steps) <= 1), NEW a \in Addr
    PROVE  LET bits == chooseLevel1Bits(steps)
               shift == HighBits - bits
               slot == Upper(a, shift)
               low == buildSlotOffsets(steps, shift, slot)
               high == SlotEnd(steps, bits, slot)
               base == Carried(steps, low, 0, 0)
               cut == CutOf(steps, low, high, shift)
           IN  /\ compile(steps).shift = shift
               /\ compile(steps).steps = steps
               /\ compile(steps).level1 # <<>>
               /\ compile(steps).level1[slot] =
                      IF high - low > subThreshold
                      THEN [off |-> low, end |-> high, base |-> base, subShift |-> cut,
                            sub |-> appendSubBlock(steps, low, high, base, cut)]
                      ELSE [off |-> low, end |-> high, base |-> base, subShift |-> NoCut, sub |-> <<>>]
<1> DEFINE bits == chooseLevel1Bits(steps)
           shift == HighBits - bits
           Slot(slot) ==
               LET low == buildSlotOffsets(steps, shift, slot)
                   high == SlotEnd(steps, bits, slot)
                   base == Carried(steps, low, 0, 0)
                   cut == CutOf(steps, low, high, shift)
               IN  IF high - low > subThreshold
                   THEN [off |-> low, end |-> high, base |-> base, subShift |-> cut,
                         sub |-> appendSubBlock(steps, low, high, base, cut)]
                   ELSE [off |-> low, end |-> high, base |-> base, subShift |-> NoCut, sub |-> <<>>]
           slots == [slot \in 0 .. Pow2[bits] - 1 |-> Slot(slot)]
<1>1. compile(steps) = [uniform |-> 0, shift |-> shift, steps |-> steps, level1 |-> slots]
  BY DEF compile, SlotEnd, CutOf
<1>2. Upper(a, shift) \in 0 .. Pow2[bits] - 1
  BY WindowChosen, WindowRange
<1>3. slots # <<>>
  <2>1. DOMAIN slots = 0 .. Pow2[bits] - 1
    OBVIOUS
  <2> HIDE DEF slots
  <2>2. slots = <<>> => DOMAIN slots = {}
    OBVIOUS
  <2> QED BY <1>2, <2>1, <2>2
<1>4. slots[Upper(a, shift)] = Slot(Upper(a, shift))
  <2> HIDE DEF Slot
  <2> QED BY <1>2
<1>5. /\ compile(steps).shift = shift
      /\ compile(steps).steps = steps
      /\ compile(steps).level1 = slots
  <2> HIDE DEF slots, shift
  <2> QED BY <1>1
<1> QED BY <1>3, <1>4, <1>5

\* The slot of an address holds the steps of its window, and its cut finds an
\* octet above which they agree.
LEMMA SlotOfAddress ==
    ASSUME NEW steps \in Seq(Step), NEW f, Rising(steps, f), NEW a \in Addr
    PROVE  LET bits == chooseLevel1Bits(steps)
               shift == HighBits - bits
               slot == Upper(a, shift)
               low == buildSlotOffsets(steps, shift, slot)
               high == SlotEnd(steps, bits, slot)
               cut == CutOf(steps, low, high, shift)
           IN  /\ InSlot(steps, a, shift, low, high)
               /\ cut \in Nat /\ cut # NoCut
               /\ Agree(steps, low, high, cut + OctetBits)
<1> DEFINE bits == chooseLevel1Bits(steps)
           shift == HighBits - bits
           slot == Upper(a, shift)
           low == buildSlotOffsets(steps, shift, slot)
           high == SlotEnd(steps, bits, slot)
           cut == CutOf(steps, low, high, shift)
<1>1. bits \in {NarrowBits, WideBits}
  BY WindowChosen
<1> HIDE DEF bits
<1>2. InSlot(steps, a, shift, low, high) /\ shift \in Nat /\ OctetBits <= shift
  BY <1>1, WindowHoldsSlot, WindowRange
<1> HIDE DEF low, high, slot
<1>3. /\ cut \in Nat /\ cut + OctetBits <= shift
      /\ Agree(steps, low, high, cut + OctetBits)
  <2> DEFINE u == Upper(a, shift)
  <2>1. \A i \in low + 1 .. high : Upper(steps[i].bound, shift) = u
    BY <1>2 DEF InSlot
  <2>2. low \in 0 .. Len(steps) /\ high \in 0 .. Len(steps) /\ low <= high
    BY <1>2 DEF InSlot
  <2> HIDE DEF u, shift
  <2> QED BY <1>2, <2>1, <2>2, CutHoldsSlot
<1> HIDE DEF cut
<1>4. cut # NoCut
  BY <1>1, <1>3, CutIsShift
<1> HIDE DEF shift
<1> QED BY <1>2, <1>3, <1>4 DEF cut, low, high, slot, shift, bits

\* A compiled index answers a reached address as its steps say.
LEMMA LookupSays ==
    ASSUME NEW steps \in Seq(Step), NEW f, Rising(steps, f),
           steps # <<>> => steps[1].bound = 0,
           NEW a \in Addr, NEW id, Says(steps, a, id),
           Len(steps) <= 1 \/ Reached(steps, a)
    PROVE  lookup(compile(steps), a) = id
<1> DEFINE n == Len(steps)
           x == compile(steps)
<1>1. n \in Nat /\ a \in Nat /\ \A i \in 1 .. n : steps[i].bound \in Nat
  BY RisingBounds, Constants
<1>2. CASE n <= 1
  <2>1. x.level1 = <<>> /\ x.uniform = IF steps = <<>> THEN 0 ELSE steps[1].id
    BY <1>2 DEF compile
  <2> HIDE DEF x
  <2>2. lookup(x, a) = IF steps = <<>> THEN 0 ELSE steps[1].id
    BY <2>1 DEF lookup
  <2>3. PICK k \in 0 .. n : /\ \A i \in k + 1 .. n : a < steps[i].bound
                            /\ id = IdAfter(steps, k)
    BY DEF Says
  <2>4. CASE steps = <<>>
    <3>1. n = 0
      BY <2>4
    <3> QED BY <2>2, <2>3, <2>4, <3>1 DEF IdAfter, x
  <2>5. CASE steps # <<>>
    <3>1. n = 1
      <4>1. n = 0 => steps = <<>>
        BY EmptySeq
      <4> HIDE DEF n
      <4> QED BY <1>1, <1>2, <2>5, <4>1
    <3>2. k # 0
      <4> SUFFICES ASSUME k = 0 PROVE FALSE
        OBVIOUS
      <4>1. 1 \in k + 1 .. n
        BY <3>1
      <4>2. a < 0
        BY <2>3, <2>5, <4>1
      <4> QED BY <1>1, <4>2
    <3>3. k = 1
      BY <2>3, <3>1, <3>2
    <3> QED BY <2>2, <2>3, <2>5, <3>3 DEF IdAfter, x
  <2> QED BY <2>4, <2>5
<1>3. CASE ~(n <= 1)
  <2> DEFINE bits == chooseLevel1Bits(steps)
             shift == HighBits - bits
             slot == Upper(a, shift)
             low == buildSlotOffsets(steps, shift, slot)
             high == SlotEnd(steps, bits, slot)
             base == Carried(steps, low, 0, 0)
             cut == CutOf(steps, low, high, shift)
             sub == appendSubBlock(steps, low, high, base, cut)
             s == x.level1[High(a) \div Pow2[x.shift]]
  <2>1. /\ x.shift = shift /\ x.steps = steps /\ x.level1 # <<>>
        /\ x.level1[slot] =
               IF high - low > subThreshold
               THEN [off |-> low, end |-> high, base |-> base, subShift |-> cut, sub |-> sub]
               ELSE [off |-> low, end |-> high, base |-> base, subShift |-> NoCut, sub |-> <<>>]
    <3> HIDE DEF x
    <3> QED BY <1>3, CompiledSlot DEF x
  <2> HIDE DEF x
  <2>2. s = x.level1[slot]
    BY <2>1 DEF Upper
  <2>4. /\ InSlot(steps, a, shift, low, high)
        /\ cut \in Nat /\ cut # NoCut
        /\ Agree(steps, low, high, cut + OctetBits)
    BY SlotOfAddress
  <2> HIDE DEF bits
  <2>3. high - low > subThreshold =>
            Upper(a, cut + OctetBits) = Upper(steps[low + 1].bound, cut + OctetBits)
    BY <1>3 DEF Reached, bits
  <2> HIDE DEF shift, slot, low, high
  <2>5. Brackets(steps, a, low, high, base)
    BY <2>4, SlotBrackets
  <2>6. low \in 0 .. n /\ high \in 0 .. n /\ low <= high /\ subThreshold \in Nat
    BY <2>4, Constants DEF InSlot
  <2>7. lookup(x, a) = IF s.subShift = NoCut THEN Walk(steps, s.off, s.end, s.base, a)
                       ELSE Walk(steps, s.sub[Octet(a, s.subShift)].off,
                                 s.sub[Octet(a, s.subShift) + 1].off, s.sub[Octet(a, s.subShift)].id, a)
    BY <2>1 DEF lookup
  <2>8. ASSUME NEW l, NEW h, NEW i, Brackets(steps, a, l, h, i)
        PROVE  Walk(steps, l, h, i, a) = id
    <3>1. /\ l \in 0 .. n /\ h \in 0 .. n
          /\ \A j \in 1 .. l : steps[j].bound <= a
          /\ \A j \in h + 1 .. n : a < steps[j].bound
          /\ i = IdAfter(steps, l)
      BY <2>8 DEF Brackets
    <3> QED BY <3>1, WalkSays
  <2>9. CASE high - low > subThreshold
    <3> HIDE DEF cut
    <3>1. s = [off |-> low, end |-> high, base |-> base, subShift |-> cut, sub |-> sub]
      BY <2>1, <2>2, <2>9
    <3> HIDE DEF s
    <3>2. s.subShift = cut /\ s.sub = sub
      BY <3>1
    <3>3. low < high
      BY <1>1, <2>6, <2>9
    <3>4. cut \in Nat /\ Agree(steps, low, high, cut + OctetBits)
      BY <2>4
    <3>5. cut # NoCut
      BY <2>4
    <3>6. Brackets(steps, a, sub[Octet(a, cut)].off, sub[Octet(a, cut) + 1].off, sub[Octet(a, cut)].id)
      BY <2>4, <2>9, <2>3, <3>3, <3>4, CutBrackets
    <3>7. lookup(x, a) = Walk(steps, sub[Octet(a, cut)].off, sub[Octet(a, cut) + 1].off,
                              sub[Octet(a, cut)].id, a)
      BY <2>7, <3>2, <3>5
    <3> HIDE DEF sub
    <3> QED BY <2>8, <3>6, <3>7 DEF x
  <2>10. CASE ~(high - low > subThreshold)
    <3>1. s = [off |-> low, end |-> high, base |-> base, subShift |-> NoCut, sub |-> <<>>]
      BY <2>1, <2>2, <2>10
    <3> HIDE DEF s, base
    <3>2. lookup(x, a) = Walk(steps, low, high, base, a)
      BY <2>7, <3>1
    <3> QED BY <2>5, <2>8, <3>2 DEF x
  <2> QED BY <2>9, <2>10
<1> QED BY <1>2, <1>3

\* Two words compare as the address that they make: first the high ones, then
\* the low ones.
LEMMA WordsInOrder ==
    ASSUME NEW a \in Addr, NEW b \in Addr
    PROVE  /\ Low(a) \in Nat
           /\ b > a <=> High(b) > High(a) \/ (High(b) = High(a) /\ Low(b) > Low(a))
<1> DEFINE p == Pow2[LowBits]
           x == High(a)
           y == High(b)
           r == Low(a)
           s == Low(b)
           u == x * p
           v == y * p
<1>1. a \in Nat /\ b \in Nat /\ p \in Nat \ {0}
  BY Constants
<1>2. x \in Nat /\ r \in 0 .. p - 1 /\ a = u + r
  BY <1>1, DivisionWithRemainder DEF High, Low
<1>3. y \in Nat /\ s \in 0 .. p - 1 /\ b = v + s
  BY <1>1, DivisionWithRemainder DEF High, Low
<1> HIDE DEF p, x, y, r, s
<1>4. u \in Nat /\ v \in Nat /\ (x = y => u = v)
  BY <1>1, <1>2, <1>3
<1>5. x < y => u + p <= v
  <2> SUFFICES ASSUME x < y PROVE u + p <= v
    OBVIOUS
  <2>1. x + 1 <= y
    BY <1>2, <1>3
  <2>2. (x + 1) * p <= y * p
    BY <1>1, <1>2, <1>3, <2>1
  <2>3. (x + 1) * p = u + p
    <3>1. x \in Nat /\ p \in Nat
      BY <1>1, <1>2
    <3> QED BY <3>1
  <2> QED BY <2>2, <2>3
<1>6. y < x => v + p <= u
  <2> SUFFICES ASSUME y < x PROVE v + p <= u
    OBVIOUS
  <2>1. y + 1 <= x
    BY <1>2, <1>3
  <2>2. (y + 1) * p <= x * p
    BY <1>1, <1>2, <1>3, <2>1
  <2>3. (y + 1) * p = v + p
    <3>1. y \in Nat /\ p \in Nat
      BY <1>1, <1>3
    <3> QED BY <3>1
  <2> QED BY <2>2, <2>3
<1> HIDE DEF u, v
<1>7. x = y \/ x < y \/ y < x
  BY <1>2, <1>3
<1>8. b > a <=> y > x \/ (y = x /\ s > r)
  <2>1. CASE x = y
    BY <1>1, <1>2, <1>3, <1>4, <2>1
  <2>2. CASE x < y
    BY <1>1, <1>2, <1>3, <1>4, <1>5, <2>2
  <2>3. CASE y < x
    BY <1>1, <1>2, <1>3, <1>4, <1>6, <2>3
  <2> QED BY <1>7, <2>1, <2>2, <2>3
<1>9. r \in Nat
  BY <1>1, <1>2
<1> QED BY <1>8, <1>9 DEF x, y, r, s

\* slotlpm's arrays hold the words and ids of the steps.
InArrays(z, steps) ==
    /\ z.high = [i \in DOMAIN steps |-> High(steps[i].bound)]
    /\ z.low = IF \A i \in DOMAIN steps : Low(steps[i].bound) = 0 THEN <<>>
               ELSE [i \in DOMAIN steps |-> Low(steps[i].bound)]
    /\ z.ids = [i \in DOMAIN steps |-> steps[i].id]

\* They tell which steps are above a key, also without the low words.
LEMMA ArraysCompare ==
    ASSUME NEW steps \in Seq(Step), NEW f, Rising(steps, f), NEW z, InArrays(z, steps),
           NEW i \in 0 .. Len(steps) - 1, NEW a \in Addr
    PROVE  AboveKey(z, i, a) <=> steps[i + 1].bound > a
<1> DEFINE n == Len(steps)
           b == steps[i + 1].bound
<1>1. /\ n \in Nat /\ DOMAIN steps = 1 .. n
      /\ \A j \in 1 .. n : steps[j].bound \in Addr
  BY RisingBounds
<1>2. i + 1 \in DOMAIN steps /\ b \in Addr
  BY <1>1
<1>3. z.high[i + 1] = High(b)
  BY <1>2 DEF InArrays
<1>4. CASE z.low = <<>>
  <2>1. Low(b) = 0
    <3> SUFFICES ASSUME ~\A j \in DOMAIN steps : Low(steps[j].bound) = 0 PROVE FALSE
      BY <1>2
    <3> DEFINE lows == [j \in DOMAIN steps |-> Low(steps[j].bound)]
    <3>1. z.low = lows
      BY DEF InArrays
    <3>2. DOMAIN lows = DOMAIN steps
      OBVIOUS
    <3> HIDE DEF lows
    <3>3. lows = <<>> => DOMAIN lows = {}
      OBVIOUS
    <3> QED BY <1>2, <1>4, <3>1, <3>2, <3>3
  <2>2. AboveKey(z, i, a) <=> High(b) > High(a)
    BY <1>3, <1>4 DEF AboveKey
  <2>3. Low(a) \in Nat
    BY WordsInOrder
  <2>4. b > a <=> High(b) > High(a) \/ (High(b) = High(a) /\ Low(b) > Low(a))
    BY <1>2, WordsInOrder
  <2> HIDE DEF b
  <2> QED BY <2>1, <2>2, <2>3, <2>4 DEF b
<1>5. CASE z.low # <<>>
  <2>1. z.low = [j \in DOMAIN steps |-> Low(steps[j].bound)]
    BY <1>5 DEF InArrays
  <2>2. z.low[i + 1] = Low(b)
    BY <1>2, <2>1
  <2>3. AboveKey(z, i, a) <=> High(b) > High(a) \/ (High(b) = High(a) /\ Low(b) > Low(a))
    BY <1>3, <1>5, <2>2 DEF AboveKey
  <2>4. b > a <=> High(b) > High(a) \/ (High(b) = High(a) /\ Low(b) > Low(a))
    BY <1>2, WordsInOrder
  <2> QED BY <2>3, <2>4
<1> QED BY <1>4, <1>5

\* A walk over the arrays ends where the walk over the steps does.
LEMMA WalksAgree ==
    ASSUME NEW steps \in Seq(Step), NEW f, Rising(steps, f), NEW z, InArrays(z, steps),
           NEW low \in 0 .. Len(steps), NEW high \in 0 .. Len(steps), low <= high,
           NEW id, NEW a \in Addr
    PROVE  SlotWalk(z, low, high, id, a) = Walk(steps, low, high, id, a)
<1> DEFINE n == Len(steps)
           above == {i \in low .. high - 1 : steps[i + 1].bound > a}
           stop == FirstPlace(above, high)
<1>1. n \in Nat /\ DOMAIN steps = 1 .. n
  BY RisingBounds
<1>2. \A i \in low .. high - 1 : i \in 0 .. n - 1
  BY <1>1
<1>3. above = {i \in low .. high - 1 : AboveKey(z, i, a)}
  BY <1>2, ArraysCompare
<1>4. Walk(steps, low, high, id, a) = IF stop = low THEN id ELSE steps[stop].id
  BY DEF Walk, FirstPlace
<1>5. SlotWalk(z, low, high, id, a) = IF stop = low THEN id ELSE z.ids[stop]
  <2> HIDE DEF above
  <2> QED BY <1>3 DEF SlotWalk, FirstPlace
<1>6. stop \in low .. high
  <2>1. CASE above = {}
    <3>1. stop = high
      BY <2>1 DEF FirstPlace
    <3> HIDE DEF stop
    <3> QED BY <1>1, <3>1
  <2>2. CASE above # {}
    <3>1. above \in SUBSET Nat /\ \A i \in above : i \in low .. high
      BY <1>1
    <3> HIDE DEF above
    <3>2. \E i \in above : \A j \in above : i <= j
      BY <2>2, <3>1, LeastElement
    <3>3. stop \in above
      BY <2>2, <3>2 DEF FirstPlace
    <3> HIDE DEF stop
    <3> QED BY <3>1, <3>3
  <2> QED BY <2>1, <2>2
<1> HIDE DEF stop
<1>7. stop # low => z.ids[stop] = steps[stop].id
  <2> SUFFICES ASSUME stop # low PROVE z.ids[stop] = steps[stop].id
    OBVIOUS
  <2>1. stop \in 1 .. n
    BY <1>1, <1>6
  <2>2. stop \in DOMAIN steps
    BY <1>1, <2>1
  <2> QED BY <2>2 DEF InArrays
<1> QED BY <1>4, <1>5, <1>7

\* The slot of an address in slotlpm's layout.
LEMMA SlotLayout ==
    ASSUME NEW steps \in Seq(Step), ~(Len(steps) <= 1), NEW a \in Addr
    PROVE  LET bits == chooseLevel1Bits(steps)
               shift == HighBits - bits
               slot == Upper(a, shift)
               low == buildSlotOffsets(steps, shift, slot)
               high == SlotEnd(steps, bits, slot)
               base == Carried(steps, low, 0, 0)
               cut == CutOf(steps, low, high, shift)
           IN  /\ SlotCompile(steps).shift = shift
               /\ InArrays(SlotCompile(steps), steps)
               /\ SlotCompile(steps).slots # <<>>
               /\ SlotCompile(steps).slots[slot] =
                      [off |-> low, id |-> base,
                       dense |-> IF high - low <= subThreshold THEN NoDense
                                 ELSE [subShift |-> cut,
                                       sub |-> appendSubBlock(steps, low, high, base, cut)]]
               /\ SlotCompile(steps).slots[slot + 1].off = high
<1> DEFINE z == SlotCompile(steps)
           bits == chooseLevel1Bits(steps)
           shift == HighBits - bits
           Off(slot) == IF slot = Pow2[bits] THEN Len(steps) ELSE buildSlotOffsets(steps, shift, slot)
           Slot(slot) ==
               LET low == Off(slot)
                   high == Off(slot + 1)
                   base == Carried(steps, low, 0, 0)
                   cut == CutOf(steps, low, high, shift)
               IN  [off |-> low, id |-> base,
                    dense |-> IF high - low <= subThreshold THEN NoDense
                              ELSE [subShift |-> cut,
                                    sub |-> appendSubBlock(steps, low, high, base, cut)]]
           Entry(slot) == IF slot = Pow2[bits] THEN [off |-> Len(steps), id |-> 0, dense |-> NoDense]
                          ELSE Slot(slot)
           slots == [slot \in 0 .. Pow2[bits] |-> Entry(slot)]
           highs == [i \in DOMAIN steps |-> High(steps[i].bound)]
           lows == IF \A i \in DOMAIN steps : Low(steps[i].bound) = 0 THEN <<>>
                   ELSE [i \in DOMAIN steps |-> Low(steps[i].bound)]
           values == [i \in DOMAIN steps |-> steps[i].id]
           slot == Upper(a, shift)
<1>1. z = [uniform |-> 0, shift |-> shift, slots |-> slots, high |-> highs, low |-> lows, ids |-> values]
  BY DEF SlotCompile, CutOf
<1>2. z.shift = shift /\ z.slots = slots /\ z.high = highs /\ z.low = lows /\ z.ids = values
  <2> HIDE DEF z, shift, slots, highs, lows, values
  <2> QED BY <1>1
<1>3. InArrays(z, steps)
  <2> HIDE DEF z
  <2> QED BY <1>2 DEF InArrays
<1>4. slot \in 0 .. Pow2[bits] - 1 /\ Pow2[bits] \in Nat
  BY WindowChosen, WindowRange
<1>5. slots # <<>>
  <2>1. DOMAIN slots = 0 .. Pow2[bits]
    OBVIOUS
  <2> HIDE DEF slots, slot
  <2>2. slots = <<>> => DOMAIN slots = {}
    OBVIOUS
  <2>3. slot \in 0 .. Pow2[bits]
    BY <1>4
  <2> QED BY <2>1, <2>2, <2>3
<1> HIDE DEF z, slot, bits
<1>6. slot # Pow2[bits] /\ slot \in 0 .. Pow2[bits] /\ slot + 1 \in 0 .. Pow2[bits]
  BY <1>4
<1>7. slots[slot] = Slot(slot)
  <2> HIDE DEF Slot
  <2> QED BY <1>6
<1>8. slots[slot + 1].off = Off(slot + 1)
  <2>1. slots[slot + 1] = Entry(slot + 1)
    <3> HIDE DEF Entry
    <3> QED BY <1>6
  <2>2. Entry(slot + 1).off = Off(slot + 1)
    BY DEF Entry
  <2> QED BY <2>1, <2>2
<1>9. Off(slot) = buildSlotOffsets(steps, shift, slot)
  BY <1>6
<1>10. Off(slot + 1) = SlotEnd(steps, bits, slot)
  <2>1. slot + 1 = Pow2[bits] <=> slot = Pow2[bits] - 1
    BY <1>4
  <2> QED BY <2>1 DEF SlotEnd
<1> HIDE DEF Off
<1>11. slots[slot] =
           LET low == buildSlotOffsets(steps, shift, slot)
               high == SlotEnd(steps, bits, slot)
               base == Carried(steps, low, 0, 0)
               cut == CutOf(steps, low, high, shift)
           IN  [off |-> low, id |-> base,
                dense |-> IF high - low <= subThreshold THEN NoDense
                          ELSE [subShift |-> cut,
                                sub |-> appendSubBlock(steps, low, high, base, cut)]]
  BY <1>7, <1>9, <1>10
<1> HIDE DEF slots
<1> QED BY <1>2, <1>3, <1>5, <1>8, <1>10, <1>11 DEF z, slot, bits

\* A bucket ends where the next one begins, and not before its own beginning.
LEMMA BucketsInOrder ==
    ASSUME NEW steps \in Seq(Step), NEW f, Rising(steps, f),
           NEW low \in 0 .. Len(steps), NEW high \in 0 .. Len(steps), low <= high,
           NEW cut \in Nat, Agree(steps, low, high, cut + OctetBits),
           NEW base, NEW o \in 0 .. Pow2[OctetBits] - 1
    PROVE  LET sub == appendSubBlock(steps, low, high, base, cut)
           IN  sub[o].off \in low .. high /\ sub[o + 1].off \in low .. high /\ sub[o].off <= sub[o + 1].off
<1> DEFINE from == appendSubBlock(steps, low, high, base, cut)[o].off
           to == appendSubBlock(steps, low, high, base, cut)[o + 1].off
           Place(i) == Octet(steps[i].bound, cut)
<1>1. /\ Len(steps) \in Nat
      /\ \A i \in 1 .. Len(steps) : steps[i].bound \in Addr
  BY RisingBounds
<1>2. o \in 0 .. Pow2[OctetBits] /\ o + 1 \in 0 .. Pow2[OctetBits] /\ o \in Nat
  BY Constants
<1>3. from \in low .. high /\ \A i \in low + 1 .. from : Place(i) < o
  BY <1>2, CutParts
<1>4. to \in low .. high /\ \A i \in to + 1 .. high : o + 1 <= Place(i)
  BY <1>2, CutParts
<1> HIDE DEF from, to
<1>5. from <= to
  <2> SUFFICES ASSUME to < from PROVE FALSE
    BY <1>1, <1>3, <1>4
  <2>1. from \in low + 1 .. from /\ from \in to + 1 .. high /\ from \in 1 .. Len(steps)
    BY <1>1, <1>3, <1>4
  <2>2. Place(from) \in Nat
    BY <1>1, <2>1, OctetBelow
  <2>3. Place(from) < o /\ o + 1 <= Place(from)
    BY <1>3, <1>4, <2>1
  <2> HIDE DEF Place
  <2> QED BY <1>2, <2>2, <2>3
<1> QED BY <1>3, <1>4, <1>5 DEF from, to

\* An empty walk ends with the winner carried in.
LEMMA EmptyWalk == ASSUME NEW steps, NEW low \in Nat, NEW id, NEW a PROVE Walk(steps, low, low, id, a) = id
<1> DEFINE above == {i \in low .. low - 1 : steps[i + 1].bound > a}
<1>1. above = {}
  OBVIOUS
<1> HIDE DEF above
<1>2. Walk(steps, low, low, id, a)
          = LET stop == IF above = {} THEN low ELSE CHOOSE i \in above : \A j \in above : i <= j
            IN  IF stop = low THEN id ELSE steps[stop].id
  BY DEF Walk, above
<1> QED BY <1>1, <1>2

\* Both layouts of the same steps answer every address alike.
LEMMA LayoutsOfSteps ==
    ASSUME NEW steps \in Seq(Step), NEW f, Rising(steps, f), NEW a \in Addr
    PROVE  SlotLookup(SlotCompile(steps), a) = lookup(compile(steps), a)
<1> DEFINE n == Len(steps)
           x == compile(steps)
           z == SlotCompile(steps)
<1>1. CASE n <= 1
  <2> DEFINE value == IF steps = <<>> THEN 0 ELSE steps[1].id
  <2>1. x.level1 = <<>> /\ x.uniform = value
    BY <1>1 DEF compile
  <2>2. z.slots = <<>> /\ z.uniform = value
    BY <1>1 DEF SlotCompile
  <2> HIDE DEF x, z, value
  <2>3. lookup(x, a) = value
    BY <2>1 DEF lookup
  <2>4. SlotLookup(z, a) = value
    BY <2>2 DEF SlotLookup
  <2> QED BY <2>3, <2>4 DEF x, z
<1>2. CASE ~(n <= 1)
  <2> DEFINE bits == chooseLevel1Bits(steps)
             shift == HighBits - bits
             slot == Upper(a, shift)
             low == buildSlotOffsets(steps, shift, slot)
             high == SlotEnd(steps, bits, slot)
             base == Carried(steps, low, 0, 0)
             cut == CutOf(steps, low, high, shift)
             sub == appendSubBlock(steps, low, high, base, cut)
             dense == [subShift |-> cut, sub |-> sub]
             o == Octet(a, cut)
             s == x.level1[High(a) \div Pow2[x.shift]]
             t == z.slots[High(a) \div Pow2[z.shift]]
             end == z.slots[High(a) \div Pow2[z.shift] + 1].off
  <2>1. /\ x.shift = shift /\ x.steps = steps /\ x.level1 # <<>>
        /\ x.level1[slot] =
               IF high - low > subThreshold
               THEN [off |-> low, end |-> high, base |-> base, subShift |-> cut, sub |-> sub]
               ELSE [off |-> low, end |-> high, base |-> base, subShift |-> NoCut, sub |-> <<>>]
    <3> HIDE DEF x
    <3> QED BY <1>2, CompiledSlot DEF x
  <2>2. /\ z.shift = shift /\ InArrays(z, steps) /\ z.slots # <<>>
        /\ z.slots[slot] =
               [off |-> low, id |-> base,
                dense |-> IF high - low <= subThreshold THEN NoDense ELSE dense]
        /\ z.slots[slot + 1].off = high
    <3> HIDE DEF z
    <3> QED BY <1>2, SlotLayout DEF z
  <2>3. /\ InSlot(steps, a, shift, low, high)
        /\ cut \in Nat /\ cut # NoCut
        /\ Agree(steps, low, high, cut + OctetBits)
    BY SlotOfAddress
  <2> HIDE DEF x, z, shift, slot, low, high, base, cut
  <2>4. low \in 0 .. n /\ high \in 0 .. n /\ low <= high /\ n \in Nat /\ subThreshold \in Nat
    BY <2>3, RisingBounds, Constants DEF InSlot
  <2>5. s = x.level1[slot] /\ t = z.slots[slot] /\ end = high
    BY <2>1, <2>2 DEF Upper, slot
  <2>6. lookup(x, a) = IF s.subShift = NoCut THEN Walk(steps, s.off, s.end, s.base, a)
                       ELSE Walk(steps, s.sub[Octet(a, s.subShift)].off,
                                 s.sub[Octet(a, s.subShift) + 1].off, s.sub[Octet(a, s.subShift)].id, a)
    BY <2>1 DEF lookup
  <2>7. SlotLookup(z, a) =
            IF t.off = end THEN t.id
            ELSE IF t.dense = NoDense THEN SlotWalk(z, t.off, end, t.id, a)
            ELSE SlotWalk(z, t.dense.sub[Octet(a, t.dense.subShift)].off,
                          t.dense.sub[Octet(a, t.dense.subShift) + 1].off,
                          t.dense.sub[Octet(a, t.dense.subShift)].id, a)
    BY <2>2 DEF SlotLookup
  <2> HIDE DEF s, t, end
  <2>8. t.off = low /\ t.id = base /\ t.dense = IF high - low <= subThreshold THEN NoDense ELSE dense
    BY <2>2, <2>5
  <2>9. CASE high - low > subThreshold
    <3>1. dense.subShift = cut /\ dense.sub = sub /\ dense # NoDense
      <4>1. dense.subShift = cut /\ dense.sub = sub
        OBVIOUS
      <4>2. "sub" \in DOMAIN dense
        OBVIOUS
      <4>3. DOMAIN NoDense = {}
        BY DEF NoDense
      <4> HIDE DEF dense
      <4> QED BY <4>1, <4>2, <4>3
    <3> HIDE DEF dense, sub
    <3>2. ~(high - low <= subThreshold) /\ low # high
      BY <2>4, <2>9
    <3>3. t.dense = dense
      BY <2>8, <3>2
    <3>4. SlotLookup(z, a) = SlotWalk(z, sub[o].off, sub[o + 1].off, sub[o].id, a)
      BY <2>5, <2>7, <2>8, <3>1, <3>2, <3>3
    <3>5. s = [off |-> low, end |-> high, base |-> base, subShift |-> cut, sub |-> sub]
      BY <2>1, <2>5, <2>9 DEF sub
    <3>6. s.subShift = cut /\ s.sub = sub
      BY <3>5
    <3>7. lookup(x, a) = Walk(steps, sub[o].off, sub[o + 1].off, sub[o].id, a)
      BY <2>3, <2>6, <3>6
    <3>8. sub[o].off \in low .. high /\ sub[o + 1].off \in low .. high /\ sub[o].off <= sub[o + 1].off
      <4>1. o \in 0 .. Pow2[OctetBits] - 1
        BY <2>3, OctetBelow
      <4> HIDE DEF o
      <4> QED BY <2>3, <2>4, <4>1, BucketsInOrder DEF sub
    <3>9. sub[o].off \in 0 .. n /\ sub[o + 1].off \in 0 .. n
      BY <2>4, <3>8
    <3> QED BY <2>2, <3>4, <3>7, <3>8, <3>9, WalksAgree DEF x, z
  <2>10. CASE ~(high - low > subThreshold)
    <3>1. s = [off |-> low, end |-> high, base |-> base, subShift |-> NoCut, sub |-> <<>>]
      BY <2>1, <2>5, <2>10
    <3>2. lookup(x, a) = Walk(steps, low, high, base, a)
      BY <2>6, <3>1
    <3>3. high - low <= subThreshold
      BY <2>4, <2>10
    <3>4. t.dense = NoDense
      BY <2>8, <3>3
    <3>5. CASE low = high
      <4>1. SlotLookup(z, a) = base
        BY <2>5, <2>7, <2>8, <3>5
      <4>2. Walk(steps, low, low, base, a) = base
        BY <2>4, EmptyWalk
      <4> QED BY <3>2, <3>5, <4>1, <4>2 DEF x, z
    <3>6. CASE low # high
      <4>1. SlotLookup(z, a) = SlotWalk(z, low, high, base, a)
        BY <2>5, <2>7, <2>8, <3>4, <3>6
      <4>2. SlotWalk(z, low, high, base, a) = Walk(steps, low, high, base, a)
        BY <2>2, <2>4, WalksAgree
      <4> QED BY <3>2, <4>1, <4>2 DEF x, z
    <3> QED BY <3>5, <3>6
  <2> QED BY <2>9, <2>10
<1> QED BY <1>1, <1>2

-----------------------------------------------------------------------------
(* The indexes that the additions reach. *)

\* The prefixes added so far are finitely many of those that callers offer, and
\* each has a route id, which is not the 0 that stands for no route.
StoredInv ==
    /\ stored \in SUBSET Prefix
    /\ IsFiniteSet(stored)
    /\ \A p \in stored : ids[p] \in Nat \ {0}

\* Additions keep it so.
LEMMA StoredInvariance == BuilderSpec => []StoredInv
<1>1. BuilderInit => StoredInv
  <2> SUFFICES ASSUME BuilderInit PROVE StoredInv
    OBVIOUS
  <2>1. stored = {}
    BY DEF BuilderInit, stored
  <2> QED BY <2>1, FS_EmptySet DEF StoredInv
<1>2. StoredInv /\ [BuilderNext]_ids => StoredInv'
  <2> SUFFICES ASSUME StoredInv, [BuilderNext]_ids PROVE StoredInv'
    OBVIOUS
  <2>1. stored \in SUBSET Prefix /\ IsFiniteSet(stored) /\ \A p \in stored : ids[p] \in Nat \ {0}
    BY DEF StoredInv
  <2>2. ASSUME NEW p \in Offered, Add(p)
        PROVE  StoredInv'
    <3>1. /\ stored' = stored \cup {p}
          /\ \A q \in stored' : ids'[q] = IF q \in stored THEN ids[q] ELSE Cardinality(stored) + 1
      BY <2>2 DEF Add, stored
    <3>2. p \in Prefix
      BY OfferedAssumption
    <3>3. stored' \in SUBSET Prefix
      BY <2>1, <3>1, <3>2
    <3>4. IsFiniteSet(stored')
      BY <2>1, <3>1, FS_AddElement
    <3>5. \A q \in stored' : ids'[q] \in Nat \ {0}
      <4>1. Cardinality(stored) \in Nat
        BY <2>1, FS_CardinalityType
      <4> QED BY <2>1, <3>1, <4>1
    <3> QED BY <3>3, <3>4, <3>5 DEF StoredInv
  <2>3. CASE UNCHANGED ids
    BY <2>3 DEF StoredInv, stored
  <2> QED BY <2>2, <2>3 DEF BuilderNext
<1> QED BY <1>1, <1>2, PTL DEF BuilderSpec

\* In every state that the additions reach, the slot where a lookup of flatart
\* ends is the one filled with the longest prefix covering the address.
THEOREM BuiltIndexIsLongestMatch == BuilderSpec => []IndexIsLongestMatch
<1>1. StoredInv => IndexIsLongestMatch
  <2> SUFFICES ASSUME StoredInv, NEW a \in Addr
               PROVE  LET slot == LookupSlot(stored, a)
                      IN  IF Matches(stored, a) = {} THEN slot = NoSlot
                          ELSE /\ slot \in Slots(stored)
                               /\ RefOf(stored, slot) = LongestMatch(stored, a)
    BY DEF IndexIsLongestMatch
  <2>1. stored \in SUBSET Prefix /\ IsFiniteSet(stored)
    BY DEF StoredInv
  <2> HIDE DEF stored
  <2>2. StandsFor(stored, LookupSlot(stored, a), Matches(stored, a))
    BY <2>1, LookupEndsAtLongest
  <2>3. LongestMatch(stored, a) = Longest(Matches(stored, a))
    BY DEF LongestMatch, Longest
  <2> QED BY <2>2, <2>3 DEF StandsFor
<1> QED BY <1>1, StoredInvariance, PTL

\* And both of blocklpm's compilers push its route id to the slot where their
\* lookups end, which is what compiledfib relies on.
THEOREM BuiltBlocksAreLongestMatch == BuilderSpec => []BlocksAreLongestMatch
<1>1. StoredInv => BlocksAreLongestMatch
  <2> DEFINE entries == BlockEntries(ids)
  <2> SUFFICES ASSUME StoredInv, NEW a \in Addr
               PROVE  /\ lookup4(compile4(entries), a) = Winner(a)
                      /\ lookup6(compile6(entries), a) = Winner(a)
    BY DEF BlocksAreLongestMatch
  <2>1. DOMAIN ids \in SUBSET Prefix /\ IsFiniteSet(DOMAIN ids) /\ \A p \in DOMAIN ids : ids[p] # 0
    BY DEF StoredInv, stored
  <2>2. ListsValues(entries, ids)
    BY <2>1, EntriesListValues
  <2> HIDE DEF entries
  <2>3. ShortestFirst(entries) /\ \A i \in DOMAIN entries : entries[i].value # 0
    BY <2>1, <2>2 DEF ListsValues
  <2>4. LastUpTo(entries, a, Width) = Winner(a)
    BY <2>1, <2>2, LastIsLongest DEF Winner, stored
  <2>5. lookup4(compile4(entries), a) = LastUpTo(entries, a, Width)
    BY <2>3, LookupOf4IsLast
  <2>6. lookup6(compile6(entries), a) = LastUpTo(entries, a, Width)
    BY <2>3, LookupOf6IsLast
  <2> QED BY <2>4, <2>5, <2>6
<1> QED BY <1>1, StoredInvariance, PTL

\* In every state that the additions reach, steplpm's index answers every
\* address in reach with the route id of its longest match: the sweep, the window
\* that chooseLevel1Bits picks and bestShift's cuts never lose or move a step.
THEOREM BuiltStepsAreLongestMatch == BuilderSpec => []LookupInReach
<1>1. StoredInv => LookupInReach
  <2> DEFINE steps == Sweep({Route(p, ids[p]) : p \in DOMAIN ids})
             x == compile(steps)
  <2> SUFFICES ASSUME StoredInv, NEW a \in Addr, InReach(x, a)
               PROVE  lookup(x, a) = Winner(a)
    BY DEF LookupInReach, Build
  <2>1. DOMAIN ids \in SUBSET Prefix /\ IsFiniteSet(DOMAIN ids) /\ \A p \in DOMAIN ids : ids[p] \in Nat \ {0}
    BY DEF StoredInv, stored
  <2>2. StepFunction(steps, ids)
    BY <2>1, SweepIsLongest
  <2> HIDE DEF steps
  <2>3. Winner(a) = Answer(ids, a)
    BY DEF Winner, Answer, stored
  <2>4. Len(steps) <= 1 \/ Reached(steps, a)
    <3> SUFFICES ASSUME ~(Len(steps) <= 1) PROVE Reached(steps, a)
      OBVIOUS
    <3> DEFINE bits == chooseLevel1Bits(steps)
               shift == HighBits - bits
               slot == Upper(a, shift)
               low == buildSlotOffsets(steps, shift, slot)
               high == SlotEnd(steps, bits, slot)
               base == Carried(steps, low, 0, 0)
               cut == CutOf(steps, low, high, shift)
               sub == appendSubBlock(steps, low, high, base, cut)
               s == x.level1[High(a) \div Pow2[x.shift]]
    <3> SUFFICES ASSUME high - low > subThreshold
                 PROVE  Upper(a, cut + OctetBits) = Upper(steps[low + 1].bound, cut + OctetBits)
      BY DEF Reached
    <3>1. /\ x.shift = shift /\ x.steps = steps /\ x.level1 # <<>>
          /\ x.level1[slot] =
                 IF high - low > subThreshold
                 THEN [off |-> low, end |-> high, base |-> base, subShift |-> cut, sub |-> sub]
                 ELSE [off |-> low, end |-> high, base |-> base, subShift |-> NoCut, sub |-> <<>>]
      <4> HIDE DEF x
      <4> QED BY CompiledSlot DEF x
    <3>2. cut # NoCut
      BY <2>2, SlotOfAddress DEF StepFunction
    <3> HIDE DEF x, cut, sub, base
    <3>3. s = [off |-> low, end |-> high, base |-> base, subShift |-> cut, sub |-> sub]
      BY <3>1 DEF Upper
    <3> HIDE DEF s, low, high
    <3>4. s.subShift = cut /\ s.off = low
      BY <3>3
    <3>5. \/ s.subShift = NoCut
          \/ High(a) \div Pow2[s.subShift + OctetBits]
                 = High(x.steps[s.off + 1].bound) \div Pow2[s.subShift + OctetBits]
      BY <3>1 DEF InReach, s
    <3> QED BY <3>1, <3>2, <3>4, <3>5 DEF Upper
  <2>5. lookup(compile(steps), a) = Answer(ids, a)
    <3>1. /\ steps \in Seq(Step)
          /\ Rising(steps, Pow2[Width] - 1)
          /\ steps # <<>> => steps[1].bound = 0
          /\ Says(steps, a, Answer(ids, a))
      BY <2>2 DEF StepFunction
    <3> QED BY <2>4, <3>1, LookupSays
  <2> QED BY <2>3, <2>5
<1> QED BY <1>1, StoredInvariance, PTL

\* In every state that the additions reach, slotlpm's layout answers every
\* address as steplpm's does, the addresses out of reach of a deep cut included:
\* its ranges between entries, dense records and split words lose nothing.
THEOREM BuiltLayoutsAgree == BuilderSpec => []LayoutsAgree
<1>1. StoredInv => LayoutsAgree
  <2> DEFINE steps == Sweep({Route(p, ids[p]) : p \in DOMAIN ids})
  <2> SUFFICES ASSUME StoredInv, NEW a \in Addr
               PROVE  SlotLookup(SlotCompile(steps), a) = lookup(compile(steps), a)
    BY DEF LayoutsAgree, Build, SlotBuild
  <2>1. DOMAIN ids \in SUBSET Prefix /\ IsFiniteSet(DOMAIN ids) /\ \A p \in DOMAIN ids : ids[p] \in Nat \ {0}
    BY DEF StoredInv, stored
  <2>2. StepFunction(steps, ids)
    BY <2>1, SweepIsLongest
  <2> HIDE DEF steps
  <2> QED BY <2>2, LayoutsOfSteps DEF StepFunction
<1> QED BY <1>1, StoredInvariance, PTL
=============================================================================
