------------------------------ MODULE ARTKeys ------------------------------
(***************************************************************************)
(* What the ART tables share: the keys of internal/addrkey, cut into       *)
(* strides of Stride bits, one for each level of a trie, and the indices   *)
(* of internal/art, where the prefixes of one stride are the nodes of a    *)
(* binary heap: index 1 is the whole stride, 2i and 2i+1 are the halves of *)
(* i, and the octets are its leaves.  A bitset is the set of its bits.     *)
(***************************************************************************)
EXTENDS Prefixes, SequencesExt

CONSTANT Stride     \* bits of an address that a node resolves: 8
ASSUME StrideAssumption == Stride \in Nat \ {0} /\ Width % Stride = 0 /\ Width >= 2 * Stride

Bottom == Width \div Stride - 1       \* depth of the last level
Depths(from, to) == [i \in 1 .. to + 1 - from |-> from + i - 1]
NoEntries == [x \in {} |-> 0]

Root == Masked(0, 0)
Path(key, depth) == Masked(key, Stride * depth)
Slot(key, depth) == Path(key, depth + 1)
LevelOf(path) == path.bits \div Stride
Parent(path) == Path(path.key, LevelOf(path) - 1)

\* FromPrefix: a 4-in-6 prefix is the IPv4 prefix it spells, one that is
\* shorter than its 96 bits is refused.
Valid(k) == k.as # "short"
FromPrefix(k) == [is4 |-> k.as # "v6", prefix |-> k.prefix]

\* decompose: a length of b lives at depth (b-1)/Stride, the default route at
\* the root.
DepthOf(bits) == IF bits = 0 THEN 0 ELSE (bits - 1) \div Stride
Home(p) == Path(p.key, DepthOf(p.bits))

\* The slots of an IPv4 front table: the values of the first two octets.
FrontKeys == {Path(a, 2).key : a \in Addr}
NoFront == NoEntries

-----------------------------------------------------------------------------
Octets == 0 .. 2^Stride - 1
MaxPrefixes == 2^(Stride + 1)

\* Key.Octets[depth]
OctetAt(key, depth) == (key \div 2^(Width - Stride * (depth + 1))) % 2^Stride

PfxToIdx(octet, pfxLen) == 2^pfxLen + octet \div 2^(Stride - pfxLen)
HostIdx(octet) == 2^Stride + octet
IdxToPfx(idx) ==
    LET pfxLen == CHOOSE l \in 0 .. Stride : idx \in 2^l .. 2^(l + 1) - 1
    IN  [octet |-> (idx - 2^pfxLen) * 2^(Stride - pfxLen), pfxLen |-> pfxLen]

\* The octets from first to last.
IdxRange(idx) ==
    LET pfx == IdxToPfx(idx)
    IN  pfx.octet .. pfx.octet + 2^(Stride - pfx.pfxLen) - 1

\* What the shifts of Lpm and Intersects visit, and a row of lookupTbl.
Chain(idx) == {idx \div 2^i : i \in 0 .. Stride} \ {0}
LookupRow == [octet \in Octets |-> Chain(HostIdx(octet))]

Rank0(bits, i) == Cardinality({j \in bits : j < i})
AllOf(bits) == SetToSortSeq(bits, <)

\* The highest of the bits in a row: none, or one.
LpmTop(bits, octet) ==
    LET hits == bits \cap LookupRow[octet]
    IN  {i \in hits : \A j \in hits : j <= i}
IntersectsOctet(bits, octet) == bits \cap LookupRow[octet] # {}

\* decompose, and back: where a prefix is in its node, and what an index of a
\* node at a path stands for.
IndexOf(p) == PfxToIdx(OctetAt(p.key, DepthOf(p.bits)), p.bits - Stride * DepthOf(p.bits))
PrefixAt(path, idx) ==
    LET pfx == IdxToPfx(idx)
    IN  [key |-> path.key + pfx.octet * Span(path.bits + Stride), bits |-> path.bits + pfx.pfxLen]
=============================================================================
