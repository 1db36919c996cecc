----------------------------- MODULE MemberSets ----------------------------
(***************************************************************************)
(* The immutable sets.                                                     *)
(*                                                                         *)
(* rangematch and the archived rangeset, soarangeset and thinrangeset keep *)
(* merged address ranges: every prefix becomes the closed range of its     *)
(* addresses, the ranges are sorted by their start and touching ones are   *)
(* merged; IPv4 has a table of one code per leading FrontBits bits before  *)
(* the search.  A 128-bit bound is two words of WordBits bits, and only    *)
(* the test for adjacency works on the words.                              *)
(*                                                                         *)
(* flatset and dirset are over flatart's membership index, dirset with a   *)
(* table of one code per /24 and the ranges of what is longer.  A          *)
(* membership index stops a descent as soon as a path is covered, so it    *)
(* builds less than the value index of FlatART; strides, leaves and paths  *)
(* are the same.                                                           *)
(***************************************************************************)
EXTENDS FlatART, SequencesExt

-----------------------------------------------------------------------------
(* Range sets. *)

CONSTANTS
    FrontBits,      \* bits that select a classifier slot: 16
    WordBits,       \* bits of half an IPv6 address: 64
    FrontThreshold  \* ranges from which thinrangeset keeps a classifier: 64
ASSUME RangeAssumption ==
    /\ FrontBits \in 1 .. Width
    /\ WordBits \in 1 .. Width
    /\ FrontThreshold \in Nat

\* sort.Slice by the start of a range: equal starts may end up in any order.
Ascending(ranges) ==
    {s \in SetToSeqs(ranges) : \A i, j \in DOMAIN s : i < j => s[i].first <= s[j].first}

Adjacent4(last, current) == last.last # MaxAddr /\ current.first = last.last + 1

HiWord(a) == a \div Pow2[WordBits]
LoWord(a) == a % Pow2[WordBits]
AllOnes == Pow2[WordBits] - 1

\* (Faulty variant: adjacency within one high word only.)
Adjacent6Low(last, current) ==
    /\ LoWord(last.last) # AllOnes
    /\ HiWord(current.first) = HiWord(last.last)
    /\ LoWord(current.first) = LoWord(last.last) + 1

\* Adjacency on the low word, or over the carry into the high word.
Adjacent6(last, current) ==
    \/ /\ LoWord(last.last) # AllOnes
       /\ HiWord(current.first) = HiWord(last.last)
       /\ LoWord(current.first) = LoWord(last.last) + 1
    \/ /\ LoWord(last.last) = AllOnes /\ HiWord(last.last) # HiWord(MaxAddr)
       /\ HiWord(current.first) = HiWord(last.last) + 1
       /\ LoWord(current.first) = 0

Touches(fam, last, current) ==
    \/ current.first <= last.last
    \/ IF fam = 4 THEN Adjacent4(last, current) ELSE Adjacent6(last, current)

\* Extend the last range kept, or keep another one.
Merged(fam, out, current) ==
    IF out # <<>> /\ Touches(fam, Last(out), current)
    THEN [out EXCEPT ![Len(out)].last = IF current.last > @ THEN current.last ELSE @]
    ELSE Append(out, current)

\* merge4 and merge6.
merge(fam, sorted) ==
    FoldLeft(LAMBDA out, current : Merged(fam, out, current), <<>>, sorted)

-----------------------------------------------------------------------------
Swallows(r, first, last) == r.first <= first /\ r.last >= last

\* buildFront: the code of a slot depends on the first range that reaches it.
FrontCode(ranges, slot) ==
    LET first == slot * Span(FrontBits)
        last == first + Span(FrontBits) - 1
        reaching == {i \in DOMAIN ranges : ranges[i].last >= first}
        r == ranges[CHOOSE i \in reaching : \A j \in reaching : i <= j]
    IN  CASE reaching = {} -> "none"
          [] reaching # {} /\ r.first > last -> "none"
          [] OTHER -> IF Swallows(r, first, last) THEN "all" ELSE "deeper"

\* The last range that starts at or below the address, and its end.
search(ranges, a) ==
    LET below == {i \in DOMAIN ranges : ranges[i].first <= a}
    IN  /\ below # {}
        /\ a <= ranges[CHOOSE i \in below : \A j \in below : j <= i].last

\* Match on IPv4, of the sets that always classify first.
Classified(ranges, a) ==
    LET code == FrontCode(ranges, a \div Span(FrontBits))
    IN  code = "all" \/ (code = "deeper" /\ search(ranges, a))

\* rangematch and rangeset; soarangeset has no classifier without a range;
\* thinrangeset has none below the threshold, and then only searches.
Match4(package, ranges, a) ==
    CASE package = "soarangeset" -> ranges # <<>> /\ Classified(ranges, a)
      [] package = "thinrangeset" ->
           IF Len(ranges) >= FrontThreshold THEN Classified(ranges, a) ELSE search(ranges, a)
      [] OTHER -> Classified(ranges, a)

\* (Faulty variant of compact6: an end inside a high word is overlooked.)
NeedLowStart(ranges) == \E i \in DOMAIN ranges : LoWord(ranges[i].first) # 0

\* thinrangeset drops the low words when every range is made of whole high words.
NeedLow(ranges) ==
    \E i \in DOMAIN ranges : LoWord(ranges[i].first) # 0 \/ LoWord(ranges[i].last) # AllOnes

searchHigh(ranges, a) ==
    LET below == {i \in DOMAIN ranges : HiWord(ranges[i].first) <= HiWord(a)}
    IN  /\ below # {}
        /\ HiWord(a) <= HiWord(ranges[CHOOSE i \in below : \A j \in below : j <= i].last)

Match6(package, ranges, a) ==
    IF package = "thinrangeset" /\ ~NeedLow(ranges)
    THEN searchHigh(ranges, a) ELSE search(ranges, a)

RangePackages == {"rangematch", "rangeset", "soarangeset", "thinrangeset"}

-----------------------------------------------------------------------------
(* flatart's membership index. *)

\* buildFamily and flatten: what the slot of a path holds.  A covered path is
\* the single word 1, whatever is stored below it; a stride without children
\* is kept apart from one with children.
MemberKind(S, path) ==
    CASE Above(S, path) # {} -> "one"
      [] Above(S, path) = {} /\ Below(S, path) = {} -> "zero"
      [] Above(S, path) = {} /\ IsLeaf(S, path) -> "leaf"
      [] OTHER -> IF \A p \in Below(S, path) : p.bits <= path.bits + Stride THEN "stop" ELSE "node"

\* The cover mask of a stride, at the octet of an address: a prefix that ends
\* in the stride covers it.
CoverMask(S, path, octet) == \E p \in Below(S, path) : p.bits <= octet.bits /\ Covers(p, octet.key)

LeafCovers(S, path, a) == \A only \in Below(S, path) : Covers(only, a)

\* (Faulty variant: a covered slot is taken for an empty one.)
SlotAnswerOne(S, path, a) ==
    CASE MemberKind(S, path) = "leaf" -> LeafCovers(S, path, a)
      [] MemberKind(S, path) = "stop" -> CoverMask(S, path, PathOf(a, path.bits + Stride))
      [] OTHER -> FALSE

\* What a slot answers that does not lead to a stride with children.
SlotAnswer(S, path, a) ==
    CASE MemberKind(S, path) = "one" -> TRUE
      [] MemberKind(S, path) = "zero" -> FALSE
      [] MemberKind(S, path) = "leaf" -> LeafCovers(S, path, a)
      [] OTHER -> CoverMask(S, path, PathOf(a, path.bits + Stride))

\* Contains6: down through the strides with children.
Contains6(S, a) ==
    LET way == {PathOf(a, bits) : bits \in StrideBits}
        end == CHOOSE n \in way :
                 /\ MemberKind(S, n) # "node"
                 /\ \A up \in way : up.bits < n.bits => MemberKind(S, up) = "node"
    IN  SlotAnswer(S, end, a)

\* The strides with children that are built, in the arena of an index.
MemberNodes(S) ==
    {n \in {PathOf(p.key, bits) : p \in S, bits \in StrideBits} :
        /\ MemberKind(S, n) = "node"
        /\ \A bits \in StrideBits :
              bits < n.bits => MemberKind(S, PathOf(n.key, bits)) = "node"}

\* What Contains4 can say: out of range is a panic.
Says(hit) == IF hit THEN "hit" ELSE "miss"

\* The word 1 met at the second level is not compared with the tags: the mask of
\* node number 1 answers for the last octet.  IPv4 subtrees are numbered before
\* IPv6 ones, in the order of a Go map, and a stride before those below it.
StrayNode(S4, S6, a) ==
    LET octet == a % Pow2[Stride]
        MaskOf(S, n) == CoverMask(S, n, Masked(n.key + octet * Span(n.bits + Stride), n.bits + Stride))
        first6 == {n \in MemberNodes(S6) : n.bits = RootBits}
    IN  IF Cardinality(MemberNodes(S4)) >= 2 THEN {Says(MaskOf(S4, n)) : n \in MemberNodes(S4)}
        ELSE IF first6 # {} THEN {Says(MaskOf(S6, n)) : n \in first6}
        ELSE {"panic"}

\* Contains4: a root slot, and two strides at most.
Contains4(S4, S6, a) ==
    LET first == PathOf(a, RootBits)
        second == PathOf(a, RootBits + Stride)
    IN  CASE MemberKind(S4, first) # "node" -> {Says(SlotAnswer(S4, first, a))}
          [] MemberKind(S4, first) = "node" /\ Below(S4, second) = {} -> {Says(CoverMask(S4, first, second))}
          [] OTHER ->
               IF MemberKind(S4, second) = "one" THEN StrayNode(S4, S6, a)
               ELSE {Says(SlotAnswer(S4, second, a))}

\* coversFamily and coversIPv6: prefixes up to the root stride tile the space.
CoversFamily(S) ==
    \A slot \in {PathOf(a, RootBits) : a \in Addr} : Above(S, slot) # {}

-----------------------------------------------------------------------------
\* flatset: a family that is covered does not enter the index.
FlatSet4(S4, S6, a) ==
    IF CoversFamily(S4) THEN {"hit"}
    ELSE Contains4(S4, IF CoversFamily(S6) THEN {} ELSE S6, a)
FlatSet6(S6, a) == CoversFamily(S6) \/ Contains6(S6, a)

-----------------------------------------------------------------------------
\* dirset: the table has a slot for every DirBits leading bits, 24 in the code.
DirBits == RootBits + Stride
DirSpan == Span(DirBits)
DirSlot(a) == a \div DirSpan
Wrap(a) == a % Pow2[Width]

\* (Faulty variant: rounds the end of a range up as well.)
PromotedUp(r) == DirSlot(Wrap(r.first + DirSpan - 1)) .. DirSlot(r.last)

\* The slots that compile4 takes to lie inside a merged range, in 32 bits.
Promoted(r) ==
    LET lastSlot == DirSlot(Wrap(r.last + 1))
    IN  {slot \in DirSlot(Wrap(r.first + DirSpan - 1)) .. lastSlot : slot < lastSlot}

\* compile4: prefixes that fill slots, then the longer ones where no slot was
\* filled, their ranges merged, and the slots that merged ranges fill.
DirCompile(S) ==
    LET painted == {slot \in 0 .. Pow2[DirBits] - 1 :
                      \E p \in S : p.bits <= DirBits /\ Covers(p, slot * DirSpan)}
        longer == {p \in S : p.bits > DirBits /\ DirSlot(p.key) \notin painted}
        sorted == CHOOSE s \in Ascending({RangeOf(p) : p \in longer}) : TRUE
        deep == merge(4, sorted)
    IN  [all |-> painted \cup UNION {Promoted(deep[i]) : i \in DOMAIN deep},
         deeper |-> {DirSlot(p.key) : p \in longer},
         deep |-> deep]

\* Contains on IPv4; all4 is only the case that every slot is filled.
DirSet4(S, a) ==
    LET x == DirCompile(S)
    IN  DirSlot(a) \in x.all \/ (DirSlot(a) \in x.deeper /\ search(x.deep, a))
DirSet6(S, a) == CoversFamily(S) \/ Contains6(S, a)
=============================================================================
