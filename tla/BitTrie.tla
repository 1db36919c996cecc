------------------------------ MODULE BitTrie -------------------------------
(***************************************************************************)
(* The archived tables that keep the obvious structures: bitlpm, bitwalk   *)
(* and bitfrontlpm have a binary trie with a node for every bit of a       *)
(* prefix, bitfrontlpm a front table before it, and lenlpm has sorted rows *)
(* for every length.  All are built once from a list of entries of both    *)
(* families and answer with the number of an entry, the later one where a  *)
(* prefix is listed twice.                                                 *)
(***************************************************************************)
EXTENDS Prefixes, SequencesExt

CONSTANT TrieFront      \* bits that the front table resolves: 16
ASSUME TrieAssumption == TrieFront \in 0 .. Width

\* The nodes of a trie stand in an arena in the order they were made, the root
\* first; no child and no entry are 0.
Root == 1
EmptyNode == [child |-> [direction \in 0 .. 1 |-> 0], value |-> 0]

Direction(key, depth) == (key \div 2^(Width - 1 - depth)) % 2
Depths(from, to) == [i \in 1 .. to - from |-> from + i - 1]

\* One hop of an insertion: the child in that direction, made if there is none.
Hop(at, direction) ==
    LET next == at.arena[at.node].child[direction]
        made == Len(at.arena) + 1
    IN  IF next # 0 THEN [at EXCEPT !.node = next]
        ELSE [arena |-> Append([at.arena EXCEPT ![at.node].child[direction] = made], EmptyNode), node |-> made]

\* insert4 and insert6: the value at the last node replaces what stood there.
Insert(arena, p, value) ==
    LET end == FoldLeft(LAMBDA at, depth : Hop(at, Direction(p.key, depth)),
                        [arena |-> arena, node |-> Root], Depths(0, p.bits))
    IN  [end.arena EXCEPT ![end.node].value = value]

\* The arena that New fills for a family.
Trie(entries, fam) ==
    FoldLeftDomain(LAMBDA arena, i : IF entries[i].fam = fam THEN Insert(arena, entries[i].prefix, i) ELSE arena,
                   <<EmptyNode>>, entries)

\* The hops of a lookup between two depths: where it is and the last entry it
\* met (bitwalk's lookupNode also notes the node, which its caller discards).
Descend(arena, start, key, from, to) ==
    FoldLeft(LAMBDA at, depth :
        LET next == IF at.node = 0 THEN 0 ELSE arena[at.node].child[Direction(key, depth)]
        IN  IF next = 0 \/ arena[next].value = 0 THEN [at EXCEPT !.node = next]
            ELSE [node |-> next, found |-> arena[next].value],
        start, Depths(from, to))

Start(arena) == [node |-> Root, found |-> arena[Root].value]

\* Lookup of bitlpm and bitwalk, and of bitfrontlpm for IPv6.
BitLookup(arena, key) == Descend(arena, Start(arena), key, 0, Width).found

\* (Faulty variant: a slot whose path has ended forgets what it passed.)
FrontTableEnded(arena) ==
    [slot \in 0 .. 2^TrieFront - 1 |->
        LET at == Descend(arena, Start(arena), slot * 2^(Width - TrieFront), 0, TrieFront)
        IN  IF at.node = 0 THEN [at EXCEPT !.found = 0] ELSE at]

\* The front slots of bitfrontlpm, one for every value of the first bits.
FrontTable(arena) ==
    [slot \in 0 .. 2^TrieFront - 1 |->
        Descend(arena, Start(arena), slot * 2^(Width - TrieFront), 0, TrieFront)]

\* Lookup of bitfrontlpm for IPv4: the slot, and from its node on if it has one.
FrontLookup(arena, front, key) ==
    Descend(arena, front[key \div 2^(Width - TrieFront)], key, TrieFront, Width).found

-----------------------------------------------------------------------------
(* bitwalk's walks; they yield a prefix put together from the path and the *)
(* entry found at the node.                                                *)

Yield(arena, node, key, bits) == [prefix |-> Masked(key, bits), value |-> arena[node].value]

\* The nodes below the root on the way to an address, until a child is missing.
PathTo(arena, key) ==
    LET ends == FoldLeft(LAMBDA path, depth :
                    IF Last(path) = 0 THEN path
                    ELSE Append(path, arena[Last(path)].child[Direction(key, depth)]),
                    <<Root>>, Depths(0, Width))
    IN  IF Last(ends) = 0 THEN Front(ends) ELSE ends

\* WalkParents: back up that path, over the nodes that hold an entry.
TrieParents(arena, key) ==
    LET path == PathTo(arena, key)
        yields == [i \in DOMAIN path |-> Yield(arena, path[i], key, i - 1)]
    IN  SelectSeq(Reverse(yields), LAMBDA y : y.value # 0)

\* walk4 and walk6: a node, what is on its left, what is on its right; there
\* the bit of the depth is set in the key.
TrieWalk(arena, start, prefix) ==
    LET Walk[node \in 1 .. Len(arena), key \in Addr, bits \in 0 .. Width] ==
            LET left == arena[node].child[0]
                right == arena[node].child[1]
            IN  SelectSeq(<<Yield(arena, node, key, bits)>>, LAMBDA y : y.value # 0)
                \o (IF left = 0 THEN <<>> ELSE Walk[left, key, bits + 1])
                \o (IF right = 0 THEN <<>> ELSE Walk[right, key + Span(bits + 1), bits + 1])
    IN  Walk[start, prefix.key, prefix.bits]

\* WalkDescendants: the exact path must exist and end at an entry.
TrieDescendants(arena, p) ==
    LET Exact[depth \in 0 .. Width] ==
            IF depth = 0 THEN Root
            ELSE IF Exact[depth - 1] = 0 THEN 0
            ELSE arena[Exact[depth - 1]].child[Direction(p.key, depth - 1)]
        end == Exact[p.bits]
    IN  IF end = 0 \/ arena[end].value = 0 THEN <<>> ELSE TrieWalk(arena, end, p)

-----------------------------------------------------------------------------
(* lenlpm. *)

\* The row of a length as sort.Slice leaves it: by key, where entries with
\* equal keys come in either order.
SortedRow(entries, fam, bits, laterFirst) ==
    LET ids == {i \in DOMAIN entries : entries[i].fam = fam /\ entries[i].prefix.bits = bits}
        rows == {[key |-> entries[i].prefix.key, value |-> i] : i \in ids}
    IN  SetToSortSeq(rows, LAMBDA x, y :
            x.key < y.key \/ (x.key = y.key /\ (IF laterFirst THEN x.value > y.value ELSE x.value < y.value)))

\* dedupe4 and dedupe6 keep the higher of two values for one key.
dedupe(rows) ==
    FoldLeft(LAMBDA out, r :
        IF out = <<>> \/ Last(out).key # r.key THEN Append(out, r)
        ELSE IF r.value > Last(out).value THEN [out EXCEPT ![Len(out)].value = r.value]
        ELSE out,
        <<>>, rows)

LenRows(entries, fam, laterFirst) ==
    [bits \in 0 .. Width |-> dedupe(SortedRow(entries, fam, bits, laterFirst))]

\* Lookup: the populated lengths from the longest, each searched for the
\* masked key.
LenLookup(rows, a) ==
    LET Probe[bits \in 0 .. Width] ==
            LET masked == Masked(a, bits).key
                notBelow == {i \in DOMAIN rows[bits] : rows[bits][i].key >= masked}
                i == CHOOSE k \in notBelow : \A j \in notBelow : k <= j
            IN  IF notBelow # {} /\ rows[bits][i].key = masked THEN rows[bits][i].value
                ELSE IF bits = 0 THEN 0 ELSE Probe[bits - 1]
    IN  Probe[Width]
=============================================================================
