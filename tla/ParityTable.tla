---------------------------- MODULE ParityTable -----------------------------
(***************************************************************************)
(* parityset: its Set, an immutable index, and the Table that publishes    *)
(* one.                                                                    *)
(*                                                                         *)
(* The Set answers membership by the parity of the boundaries at or below  *)
(* an address.  Ranges are merged, each merged range contributes its first *)
(* address and, unless it ends with the address space, the one after its   *)
(* last; a slot table, a two-bit front table and, in crowded slots, a      *)
(* second cut localise the search.                                         *)
(*                                                                         *)
(* Both families are instances: an IPv6 boundary is two words, of which    *)
(* the low one has LowBits bits and is dropped when it is zero everywhere; *)
(* IPv4 is LowBits = 0 with SubThreshold out of reach.                     *)
(***************************************************************************)
EXTENDS Prefixes, SequencesExt

CONSTANTS
    LowBits,        \* bits of the low word: 64 for IPv6, 0 for IPv4
    SlotBits,       \* leading bits that select a slot: 16
    SubBits,        \* further bits that the second cut takes: 8
    slotTableLimit, \* number of boundaries that earns a slot table: 96
    subThreshold    \* boundaries in a slot that earn it a second cut: 8
ASSUME CutAssumption ==
    /\ LowBits \in 0 .. Width
    /\ SlotBits \in Nat /\ SubBits \in Nat
    /\ SlotBits + SubBits <= Width - LowBits
    /\ slotTableLimit \in Nat /\ subThreshold \in Nat

High(a) == a \div Pow2[LowBits]
Low(a) == a % Pow2[LowBits]
SlotOf(a) == a \div Span(SlotBits)
SubOf(a) == (a \div Span(SlotBits + SubBits)) % Pow2[SubBits]

-----------------------------------------------------------------------------
(* Construction. *)

\* merge4, merge6: ranges sorted by first address, wider first; a range that
\* overlaps or touches the last one of the result extends it.
Earlier(a, b) == a.first < b.first \/ (a.first = b.first /\ a.last > b.last)
Ranges(S) ==
    LET ranges == {RangeOf(p) : p \in S}
    IN  [i \in 1 .. Cardinality(ranges) |->
            CHOOSE r \in ranges : Cardinality({q \in ranges : Earlier(q, r)}) = i - 1]

MergeInto(out, range) ==
    IF out = <<>> THEN <<range>>
    ELSE LET last == out[Len(out)]
             touches == \/ range.first <= last.last
                        \/ last.last # MaxAddr /\ range.first = last.last + 1
         IN  IF ~touches THEN Append(out, range)
             ELSE IF range.last > last.last
             THEN [out EXCEPT ![Len(out)].last = range.last]
             ELSE out
merge(S) == FoldLeft(MergeInto, <<>>, Ranges(S))

\* compile: the boundaries of the merged ranges.
Boundaries(ranges) ==
    FlattenSeq([i \in DOMAIN ranges |->
        IF ranges[i].last # MaxAddr
        THEN <<ranges[i].first, ranges[i].last + 1>>
        ELSE <<ranges[i].first>>])

\* buildSlots: for each slot the number of boundaries before it.
buildSlots(bounds) ==
    [slot \in 0 .. Pow2[SlotBits] |->
        IF slot = Pow2[SlotBits] THEN Len(bounds)
        ELSE Cardinality({i \in DOMAIN bounds : SlotOf(bounds[i]) < slot})]

\* buildFront: a slot without boundaries is uniform, and its parity says how.
buildFront(slots) ==
    [slot \in 0 .. Pow2[SlotBits] - 1 |->
        IF slots[slot] # slots[slot + 1] THEN "deeper"
        ELSE IF slots[slot] % 2 = 1 THEN "all" ELSE "none"]

\* buildSub: the offsets of a crowded slot by the bits after the slot.
Crowded(slots, slot) == slots[slot + 1] - slots[slot] > subThreshold
buildSub(bounds, slots) ==
    [slot \in {s \in 0 .. Pow2[SlotBits] - 1 : Crowded(slots, s)} |->
        [cut \in 0 .. Pow2[SubBits] |->
            IF cut = Pow2[SubBits] THEN slots[slot + 1]
            ELSE slots[slot] + Cardinality({i \in slots[slot] + 1 .. slots[slot + 1] :
                                              SubOf(bounds[i]) < cut})]]

compile(ranges) ==
    LET whole == ranges = <<[first |-> 0, last |-> MaxAddr]>>
        bounds == IF whole THEN <<>> ELSE Boundaries(ranges)
        cut == Len(bounds) >= slotTableLimit /\ bounds # <<>>
        slots == IF cut THEN buildSlots(bounds) ELSE <<>>
    IN  [all     |-> whole,
         bounds  |-> bounds,
         needLow |-> \E i \in DOMAIN bounds : Low(bounds[i]) # 0,
         cut     |-> cut,
         slots   |-> slots,
         front   |-> IF cut THEN buildFront(slots) ELSE <<>>,
         sub     |-> IF cut THEN buildSub(bounds, slots) ELSE <<>>]

build(S) == compile(merge(S))

-----------------------------------------------------------------------------
(* Queries. *)

\* A boundary above a key: the low words count only when they were kept.
Above(x, bound, key) ==
    \/ High(bound) > High(key)
    \/ x.needLow /\ High(bound) = High(key) /\ Low(bound) > Low(key)

\* The scan, or the bisection, between two offsets: it stops at the first
\* boundary above the key.
CountFrom(x, low, high, key) ==
    LET beyond == {i \in low + 1 .. high : Above(x, x.bounds[i], key)}
    IN  IF beyond = {} THEN high ELSE (CHOOSE i \in beyond : \A j \in beyond : i <= j) - 1

contains(x, key) ==
    LET slot == SlotOf(key)
        cut == SubOf(key)
        low == IF ~x.cut THEN 0
               ELSE IF slot \in DOMAIN x.sub THEN x.sub[slot][cut] ELSE x.slots[slot]
        high == IF ~x.cut THEN Len(x.bounds)
                ELSE IF slot \in DOMAIN x.sub THEN x.sub[slot][cut + 1] ELSE x.slots[slot + 1]
    IN  IF x.all THEN TRUE
        ELSE IF x.cut /\ x.front[slot] = "none" THEN FALSE
        ELSE IF x.cut /\ x.front[slot] = "all" THEN TRUE
        ELSE CountFrom(x, low, high, key) % 2 = 1

\* (Faulty variant: the closing boundary may be the last address.)
coversRangeInclusive(x, first, last) ==
    LET count == CountFrom(x, 0, Len(x.bounds), first)
    IN  \/ x.all
        \/ /\ count % 2 = 1
           /\ count < Len(x.bounds) => x.bounds[count + 1] >= last

\* coversRange: the first address is covered, and the boundary that closes its
\* range, if any, is past the last address.
coversRange(x, first, last) ==
    LET count == CountFrom(x, 0, Len(x.bounds), first)
    IN  \/ x.all
        \/ /\ count % 2 = 1
           /\ count < Len(x.bounds) => x.bounds[count + 1] > last

-----------------------------------------------------------------------------
(***************************************************************************)
(* The Table: the stored prefixes under a mutex, and the published   *)
(* Set behind an atomic pointer.  Every method that changes the table runs *)
(* under the mutex and publishes with one atomic store, so it is one step; *)
(* Contains loads the pointer once and reads an immutable Set.             *)
(*                                                                         *)
(* A method that only adds what is already covered does not publish, so    *)
(* the stored prefixes and the published Set are different things.         *)
(***************************************************************************)
CONSTANTS
    Offered,    \* the prefixes that callers use
    Batches,    \* what ApplyBatch may be given: sequences of mutations
    Bad         \* a mutation whose prefix decompose refuses

\* A mutation announces or withdraws a prefix that decompose accepts, or is Bad.
Mutation == [prefix : Offered, delete : BOOLEAN]
ASSUME OfferedAssumption ==
    /\ Offered \subseteq Prefix
    /\ \A ms \in Batches : ms \in Seq(Mutation \cup {Bad})

VARIABLES
    stored,     \* v4 and v6, the authoritative prefixes
    current     \* the published Set

parityVars == <<stored, current>>

coversRangeOf(x, p) == coversRange(x, LowAddr(p), HighAddr(p))
republish == current' = build(stored')

\* NewTable and Reset: all prefixes are checked before the mutex is taken.
ParityInit ==
    /\ \E S \in SUBSET Offered : Cardinality(S) <= 2 /\ stored = S
    /\ current = build(stored)

Reset(S) ==
    /\ stored' = S
    /\ republish

Insert(p) ==
    /\ p \notin stored
    /\ stored' = stored \cup {p}
    /\ IF coversRangeOf(current, p) THEN UNCHANGED current ELSE republish

\* (Faulty variant: Delete skips the publication as Insert does.)
DeleteUnpublished(p) ==
    /\ p \in stored
    /\ stored' = stored \ {p}
    /\ IF coversRangeOf(current, p) THEN UNCHANGED current ELSE republish

Delete(p) ==
    /\ p \in stored
    /\ stored' = stored \ {p}
    /\ republish

\* One mutation of ApplyBatch: what is stored after it, whether the batch has
\* to be published, and whether the loop has returned an error.
ApplyMutation(state, m) ==
    IF state.failed THEN state
    ELSE IF m = Bad THEN [state EXCEPT !.failed = TRUE]
    ELSE IF m.delete
    THEN [state EXCEPT !.stored = @ \ {m.prefix},
                       !.changed = @ \/ m.prefix \in state.stored]
    ELSE [state EXCEPT !.stored = @ \cup {m.prefix},
                       !.changed = @ \/ /\ m.prefix \notin state.stored
                                        /\ ~coversRangeOf(current, m.prefix)]

ApplyBatch(ms) ==
    LET after == FoldLeft(ApplyMutation, [stored |-> stored, changed |-> FALSE, failed |-> FALSE], ms)
    IN  /\ stored' = after.stored
        /\ IF after.changed /\ ~after.failed THEN republish ELSE UNCHANGED current

ParityNext ==
    \/ \E p \in Offered : Insert(p) \/ Delete(p) \/ Reset({p})
    \/ \E ms \in Batches : ApplyBatch(ms)

ParitySpec == ParityInit /\ [][ParityNext]_parityVars

-----------------------------------------------------------------------------
\* "Contains reports whether any stored prefix covers addr": the published Set
\* answers for what is stored after every method, the ones that skipped the
\* publication included.
ContainsStored ==
    \A a \in Addr : contains(current, a) <=> Matches(stored, a) # {}

\* coversRange is exact, so a publication is skipped only when the union stays
\* the same and never left out otherwise: the range of a prefix is covered
\* exactly when each of its addresses is.
CoversRangeExact ==
    \A p \in Prefix :
        coversRangeOf(current, p) <=> \A a \in LowAddr(p) .. HighAddr(p) : contains(current, a)

=============================================================================
