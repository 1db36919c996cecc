----------------------------- MODULE StepIndex ------------------------------
(***************************************************************************)
(* The compiled index of steplpm: a step function from addresses to route  *)
(* ids, run-collapsed, and its localisation by a level-one window and, in  *)
(* crowded slots, by a second cut on one octet of the key.                 *)
(*                                                                         *)
(* Both families are instances.  An IPv6 bound is two words, of which only *)
(* the high one is cut; IPv4 is LowBits = 0.  Offsets count the steps      *)
(* before a place, so the step at offset i is steps[i + 1].                *)
(***************************************************************************)
EXTENDS Prefixes, SequencesExt

CONSTANTS
    LowBits,            \* bits of the low word: 64 for IPv6, 0 for IPv4
    NarrowBits,         \* the narrow level-one window: 8
    WideBits,           \* the wide one: 16
    OctetBits,          \* bits that the second cut takes: 8
    minSeparatedSlots,  \* distinct wide slots that earn the wide window: 8
    subThreshold        \* steps in a slot that earn it a second cut: 12

HighBits == Width - LowBits

ASSUME WindowAssumption ==
    /\ LowBits \in 0 .. Width
    /\ OctetBits \in Nat \ {0}
    /\ minSeparatedSlots \in Nat /\ subThreshold \in Nat
    /\ \A window \in {NarrowBits, WideBits} :
          /\ window \in Nat /\ window + OctetBits <= HighBits
          /\ (HighBits - window) % OctetBits = 0

High(a) == a \div Pow2[LowBits]
Low(a) == a % Pow2[LowBits]

-----------------------------------------------------------------------------
(* The sweep. *)

\* Builder.Add: the closed range of a prefix and its id.
Route(p, id) == [first |-> LowAddr(p), last |-> HighAddr(p), id |-> id]

\* sort.Slice: by first address, the wider range first.
Outer(q, r) == q.first < r.first \/ (q.first = r.first /\ q.last > r.last)
Preorder(routes) ==
    [i \in 1 .. Cardinality(routes) |->
        CHOOSE r \in routes : Cardinality({q \in routes : Outer(q, r)}) = i - 1]

\* The closure emit: a second step at the same bound replaces the first, and a
\* step that does not change the winner is dropped.
emit(steps, bound, id) ==
    LET n == Len(steps)
    IN  IF n = 0 THEN IF id = 0 THEN steps ELSE <<[bound |-> bound, id |-> id]>>
        ELSE IF steps[n].bound = bound THEN [steps EXCEPT ![n].id = id]
        ELSE IF steps[n].id = id THEN steps
        ELSE Append(steps, [bound |-> bound, id |-> id])

\* Leaving the innermost range, if it ends before limit, restores the winner
\* that encloses it; the end of the address space is no bound.
Leave(limit, sweep) ==
    LET n == Len(sweep.stack)
        top == sweep.stack[n]
        outer == IF n > 1 THEN sweep.stack[n - 1].id ELSE 0
    IN  IF n = 0 \/ top.last >= limit THEN sweep
        ELSE [stack |-> Front(sweep.stack),
              steps |-> IF top.last = Pow2[Width] - 1 THEN sweep.steps
                        ELSE emit(sweep.steps, top.last + 1, outer)]
LeaveAll(limit, sweep) ==
    FoldLeft(LAMBDA s, r : Leave(limit, s), sweep, sweep.stack)

Enter(sweep, r) ==
    LET left == LeaveAll(r.first, sweep)
    IN  [stack |-> Append(left.stack, r), steps |-> emit(left.steps, r.first, r.id)]

\* sweep4, sweep6.
Sweep(routes) ==
    IF routes = {} THEN <<>>
    ELSE LET order == Preorder(routes)
             start == IF order[1].first # 0 THEN <<[bound |-> 0, id |-> 0]>> ELSE <<>>
             swept == FoldLeft(Enter, [stack |-> <<>>, steps |-> start], order)
         IN  LeaveAll(Pow2[Width], swept).steps

-----------------------------------------------------------------------------
(* Localisation. *)

\* chooseLevel1Bits: the wide window pays only when it separates enough slots.
chooseLevel1Bits(steps) ==
    IF Cardinality({High(steps[i].bound) \div Pow2[HighBits - WideBits] : i \in DOMAIN steps})
          >= minSeparatedSlots
    THEN WideBits ELSE NarrowBits

\* The number of the steps low .. high - 1 that come before the first one
\* whose mark, under the given function of bounds, is at least m.
OffsetOf(steps, low, high, mark(_), m) ==
    LET reached == {i \in low .. high - 1 : mark(steps[i + 1].bound) >= m}
    IN  IF reached = {} THEN high ELSE CHOOSE i \in reached : \A j \in reached : i <= j

\* The winner carried in at an offset.
Carried(steps, off, low, base) == IF off > low THEN steps[off].id ELSE base

\* buildSlotOffsets.
buildSlotOffsets(steps, shift, slot) ==
    OffsetOf(steps, 0, Len(steps), LAMBDA b : High(b) \div Pow2[shift], slot)

\* bestShift: the octet below the window that spreads the slot's steps most
\* evenly, measured by its largest bucket, the higher octet when they tie.  An
\* octet is a candidate while every octet between it and the window is the
\* same in all of the slot's steps (constantOctet).
Octet(bound, shift) == (High(bound) \div Pow2[shift]) % Pow2[OctetBits]
constantOctet(slotSteps, shift) ==
    \A i, j \in DOMAIN slotSteps : Octet(slotSteps[i].bound, shift) = Octet(slotSteps[j].bound, shift)
OctetsBelow(first) == {shift \in 0 .. first : (first - shift) % OctetBits = 0}
Worst(slotSteps, shift) ==
    Max({Cardinality({i \in DOMAIN slotSteps : Octet(slotSteps[i].bound, shift) = o}) :
            o \in 0 .. Pow2[OctetBits] - 1})
bestShift(slotSteps, first) ==
    LET candidates == {shift \in OctetsBelow(first) :
                          \A above \in OctetsBelow(first) :
                              above > shift => constantOctet(slotSteps, above)}
    IN  CHOOSE best \in candidates : \A shift \in candidates :
            \/ Worst(slotSteps, best) < Worst(slotSteps, shift)
            \/ Worst(slotSteps, best) = Worst(slotSteps, shift) /\ best >= shift

\* (Faulty variant: every bucket starts with the winner of the slot.)
appendSubBlockUncarried(steps, low, high, base, shift) ==
    [o \in 0 .. Pow2[OctetBits] |->
        LET off == IF o = Pow2[OctetBits] THEN high
                   ELSE OffsetOf(steps, low, high, LAMBDA b : Octet(b, shift), o)
        IN  [off |-> off, id |-> base]]

\* appendSubBlock: for each value of the octet the offset of its first step and
\* the winner carried in there.
appendSubBlock(steps, low, high, base, shift) ==
    [o \in 0 .. Pow2[OctetBits] |->
        LET off == IF o = Pow2[OctetBits] THEN high
                   ELSE OffsetOf(steps, low, high, LAMBDA b : Octet(b, shift), o)
        IN  [off |-> off, id |-> Carried(steps, off, low, base)]]

\* noBlock: a shift that no octet has.
NoCut == HighBits

\* compile: no level-one table when one id wins everywhere; otherwise a record
\* for every slot.  A slot without steps has off = end and its base wins.
compile(steps) ==
    LET bits == chooseLevel1Bits(steps)
        shift == HighBits - bits
        Slot(slot) ==
            LET low == buildSlotOffsets(steps, shift, slot)
                high == IF slot = Pow2[bits] - 1 THEN Len(steps)
                        ELSE buildSlotOffsets(steps, shift, slot + 1)
                base == Carried(steps, low, 0, 0)
                cut == bestShift(SubSeq(steps, low + 1, high), shift - OctetBits)
            IN  IF high - low > subThreshold
                THEN [off |-> low, end |-> high, base |-> base, subShift |-> cut,
                      sub |-> appendSubBlock(steps, low, high, base, cut)]
                ELSE [off |-> low, end |-> high, base |-> base, subShift |-> NoCut, sub |-> <<>>]
    IN  IF Len(steps) <= 1
        THEN [uniform |-> IF steps = <<>> THEN 0 ELSE steps[1].id,
              shift |-> 0, level1 |-> <<>>, steps |-> <<>>]
        ELSE [uniform |-> 0, shift |-> shift, steps |-> steps,
              level1 |-> [slot \in 0 .. Pow2[bits] - 1 |-> Slot(slot)]]

Build(ids) == compile(Sweep({Route(p, ids[p]) : p \in DOMAIN ids}))

-----------------------------------------------------------------------------
(* Queries. *)

\* The walk, or the bisection, over the steps low .. high - 1: the id of the
\* last step at or below the key, or the one carried in.
Walk(steps, low, high, id, key) ==
    LET above == {i \in low .. high - 1 : steps[i + 1].bound > key}
        stop == IF above = {} THEN high ELSE CHOOSE i \in above : \A j \in above : i <= j
    IN  IF stop = low THEN id ELSE steps[stop].id

lookup(x, key) ==
    LET slot == x.level1[High(key) \div Pow2[x.shift]]
        o == Octet(key, slot.subShift)
    IN  IF x.level1 = <<>> THEN x.uniform
        ELSE IF slot.subShift = NoCut THEN Walk(x.steps, slot.off, slot.end, slot.base, key)
        ELSE Walk(x.steps, slot.sub[o].off, slot.sub[o + 1].off, slot.sub[o].id, key)

-----------------------------------------------------------------------------
(***************************************************************************)
(* The compiled index of slotlpm: the step function and the cuts of        *)
(* steplpm in another layout.  A level-one slot holds its offset and the   *)
(* winner at its first address, and ends where the next slot begins; only  *)
(* a slot with a second cut points to a dense record.  IPv6 steps are      *)
(* split in parallel arrays, and the low words are dropped when all are    *)
(* zero; IPv4 is LowBits = 0.                                              *)
(***************************************************************************)
\* slotEntry.id without denseTag.
NoDense == <<>>

SlotCompile(steps) ==
    LET bits == chooseLevel1Bits(steps)
        shift == HighBits - bits
        Off(slot) == IF slot = Pow2[bits] THEN Len(steps) ELSE buildSlotOffsets(steps, shift, slot)
        Slot(slot) ==
            LET low == Off(slot)
                high == Off(slot + 1)
                base == Carried(steps, low, 0, 0)
                cut == bestShift(SubSeq(steps, low + 1, high), shift - OctetBits)
            IN  [off |-> low, id |-> base,
                 dense |-> IF high - low <= subThreshold THEN NoDense
                           ELSE [subShift |-> cut,
                                 sub |-> appendSubBlock(steps, low, high, base, cut)]]
    IN  IF Len(steps) <= 1
        THEN [uniform |-> IF steps = <<>> THEN 0 ELSE steps[1].id,
              shift |-> 0, slots |-> <<>>, high |-> <<>>, low |-> <<>>, ids |-> <<>>]
        ELSE [uniform |-> 0, shift |-> shift,
              slots |-> [slot \in 0 .. Pow2[bits] |->
                  IF slot = Pow2[bits] THEN [off |-> Len(steps), id |-> 0, dense |-> NoDense]
                  ELSE Slot(slot)],
              high |-> [i \in DOMAIN steps |-> High(steps[i].bound)],
              low  |-> IF \A i \in DOMAIN steps : Low(steps[i].bound) = 0 THEN <<>>
                       ELSE [i \in DOMAIN steps |-> Low(steps[i].bound)],
              ids  |-> [i \in DOMAIN steps |-> steps[i].id]]

SlotBuild(ids) == SlotCompile(Sweep({Route(p, ids[p]) : p \in DOMAIN ids}))

\* (Faulty variant: without low words a step at the key's high word is above.)
AboveKeyUnequal(x, i, key) ==
    \/ x.high[i + 1] > High(key)
    \/ x.high[i + 1] = High(key) /\ (x.low = <<>> \/ x.low[i + 1] > Low(key))

\* The step at offset i is above the key; without low words the high words
\* decide alone.
AboveKey(x, i, key) ==
    \/ x.high[i + 1] > High(key)
    \/ x.low # <<>> /\ x.high[i + 1] = High(key) /\ x.low[i + 1] > Low(key)

SlotWalk(x, low, high, id, key) ==
    LET above == {i \in low .. high - 1 : AboveKey(x, i, key)}
        stop == IF above = {} THEN high ELSE CHOOSE i \in above : \A j \in above : i <= j
    IN  IF stop = low THEN id ELSE x.ids[stop]

SlotLookup(x, key) ==
    LET slot == High(key) \div Pow2[x.shift]
        first == x.slots[slot]
        o == Octet(key, first.dense.subShift)
        sub == first.dense.sub
    IN  IF x.slots = <<>> THEN x.uniform
        ELSE IF first.off = x.slots[slot + 1].off THEN first.id
        ELSE IF first.dense = NoDense
        THEN SlotWalk(x, first.off, x.slots[slot + 1].off, first.id, key)
        ELSE SlotWalk(x, sub[o].off, sub[o + 1].off, sub[o].id, key)
=============================================================================
