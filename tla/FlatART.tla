------------------------------ MODULE FlatART -------------------------------
(***************************************************************************)
(* internal/flatart: the compressed trie behind flatlpm and the IPv6 half  *)
(* of dirlpm.  The first RootBits bits of an address select a root slot,   *)
(* each further Stride bits one stride.  What matters to the tables is     *)
(* which value slot a lookup ends at, and which slots the builder creates  *)
(* for one prefix: its own slot, and one copy of it in every stride that   *)
(* inherits it as its default (ART index 1).  Slots are named for what     *)
(* they are; the numbering of the code (base plus rank) is one naming.     *)
(***************************************************************************)
EXTENDS Prefixes

CONSTANTS
    RootBits,   \* 16 in the code
    Stride      \* 8 in the code
ASSUME StrideAssumption ==
    /\ RootBits \in 1 .. Width
    /\ Stride \in Nat \ {0}
    /\ (Width - RootBits) % Stride = 0

\* A stride is named by the bits that lead to it, as a prefix.
StrideBits == {RootBits + Stride * d : d \in 0 .. (Width - RootBits) \div Stride - 1}
PathOf(a, bits) == Masked(a, bits)

Own(p) == [kind |-> "own", of |-> p]
Copy(path) == [kind |-> "copy", of |-> path]
NoSlot == [kind |-> "none", of |-> Masked(0, 0)]

\* summarize: the prefixes that end below a path.
Below(S, path) == {p \in S : p.bits > path.bits /\ Covers(path, p.key)}

\* The prefixes that cover a whole path.
Above(S, path) == {p \in S : p.bits <= path.bits /\ Covers(p, path.key)}
Longest(T) == CHOOSE p \in T : \A q \in T : q.bits <= p.bits

\* flatten: a path with one prefix below it is a leaf, with more a stride; what
\* hangs below a leaf is not built.
IsLeaf(S, path) == Cardinality(Below(S, path)) = 1
IsStride(S, path) == Cardinality(Below(S, path)) >= 2

\* The slot a path inherits: at the root the slot painted there, further down
\* what the parent stride resolves to (a prefix of its own, or its default).
Inherited(S, path) ==
    LET above == Above(S, path)
        parent == path.bits - Stride
    IN  IF above = {} THEN NoSlot
        ELSE IF path.bits = RootBits \/ Longest(above).bits > parent
        THEN Own(Longest(above))
        ELSE Copy(PathOf(path.key, parent))

\* Builder.Build: the value slots of an index over S, and the prefix whose
\* value each one is filled with (refOf).
Strides(S) ==
    {path \in {PathOf(p.key, bits) : p \in S, bits \in StrideBits} : IsStride(S, path)}
Slots(S) ==
    {Own(p) : p \in S} \cup {Copy(path) : path \in {q \in Strides(S) : Above(S, q) # {}}}

\* (Faulty variant: a copy is filled from the shortest covering prefix.)
RefOfShortest(S, slot) ==
    IF slot.kind = "own" THEN slot.of
    ELSE CHOOSE p \in Above(S, slot.of) : \A q \in Above(S, slot.of) : p.bits <= q.bits

RefOf(S, slot) == IF slot.kind = "own" THEN slot.of ELSE Longest(Above(S, slot.of))

\* Lookup4 and Lookup6: down to the deepest path of the address that was built.
LookupSlot(S, a) ==
    LET paths == {PathOf(a, bits) : bits \in StrideBits}
        built == {path \in paths :
                    /\ Below(S, path) # {}
                    /\ \A up \in paths : up.bits < path.bits => IsStride(S, up)}
        deepest == Longest(built)
        here == {p \in Matches(S, a) : p.bits > deepest.bits /\ p.bits <= deepest.bits + Stride}
        root == {p \in Matches(S, a) : p.bits <= RootBits}
    IN  CASE built = {} ->
               IF root = {} THEN NoSlot ELSE Own(Longest(root))
          [] built # {} /\ IsLeaf(S, deepest) ->
               LET only == CHOOSE p \in Below(S, deepest) : TRUE
               IN  IF Covers(only, a) THEN Own(only) ELSE Inherited(S, deepest)
          [] OTHER ->
               IF here # {} THEN Own(Longest(here))
               ELSE IF Above(S, deepest) # {} THEN Copy(deepest)
               ELSE NoSlot

\* Exact: a prefix is found at its own slot only.
ExactSlot(S, p) == IF p \in S THEN Own(p) ELSE NoSlot
=============================================================================
