------------------------------ MODULE WalkTrie -----------------------------
(***************************************************************************)
(* The trie of artwalk: its nodes know their parents, so that walks can    *)
(* name what they meet.  nodes is the heap, by address: bitmaps, the       *)
(* arrays that their ranks index, and where the node hangs.  The roots of  *)
(* the two families are at 1 and 2.                                        *)
(***************************************************************************)
EXTENDS ARTKeys

nil == 0
rootFor(is4) == IF is4 THEN 1 ELSE 2
ribNode(parent, octet, depth) ==
    [childBits |-> {}, children |-> <<>>, pfxBits |-> {}, values |-> <<>>,
     parent |-> parent, octet |-> octet, depth |-> depth]
EmptyTable == [nodes |-> [n \in {1, 2} |-> ribNode(nil, 0, 0)], size |-> [is4 \in BOOLEAN |-> 0]]

ChildOf(x, n, octet) == x.nodes[n].children[Rank0(x.nodes[n].childBits, octet) + 1]
ValueOf(x, n, idx) == x.nodes[n].values[Rank0(x.nodes[n].pfxBits, idx) + 1]

\* The nodes on the way to a depth.
Trail(x, is4, key, depth) ==
    FoldLeft(LAMBDA trail, d :
        LET n == trail[Len(trail)]
        IN  IF Len(trail) = d + 1 /\ OctetAt(key, d) \in x.nodes[n].childBits
            THEN Append(trail, ChildOf(x, n, OctetAt(key, d))) ELSE trail,
        <<rootFor(is4)>>, Depths(0, depth - 1))

\* (Faulty variant: the octets are put one level too deep.)
prefixAtOwnDepth(x, n, idx) ==
    LET KeyOf[m \in DOMAIN x.nodes] ==
            LET node == x.nodes[m]
            IN  IF node.parent = nil THEN 0
                ELSE node.octet * (Span(Stride * node.depth) \div 2^Stride) + KeyOf[node.parent]
        depth == x.nodes[n].depth
    IN  PrefixAt([key |-> KeyOf[n], bits |-> Stride * depth], idx)

\* prefixAt: the octets along the parents, down to the node, and the index.
prefixAt(x, n, idx) ==
    LET KeyOf[m \in DOMAIN x.nodes] ==
            LET node == x.nodes[m]
            IN  IF node.parent = nil THEN 0
                ELSE node.octet * Span(Stride * node.depth) + KeyOf[node.parent]
        depth == x.nodes[n].depth
    IN  PrefixAt([key |-> KeyOf[n], bits |-> Stride * depth], idx)
Yield(x, n, idx) == [prefix |-> prefixAt(x, n, idx), value |-> ValueOf(x, n, idx)]
YieldAll(x, n, idxs) == [i \in DOMAIN idxs |-> Yield(x, n, idxs[i])]

-----------------------------------------------------------------------------
(* Queries. *)

Lookup(x, is4, a) ==
    LET trail == Trail(x, is4, a, Bottom)
    IN  FoldLeft(LAMBDA found, i :
            LET hit == LpmTop(x.nodes[trail[i]].pfxBits, OctetAt(a, i - 1))
            IN  IF hit = {} THEN found ELSE ValueOf(x, trail[i], CHOOSE idx \in hit : TRUE),
            0, Depths(1, Len(trail)))

\* Supernets: the matches of every node on the way, the longest first.
Supernets(x, is4, a) ==
    LET trail == Trail(x, is4, a, Bottom)
        Matching(i) == AllOf(x.nodes[trail[i]].pfxBits \cap Chain(HostIdx(OctetAt(a, i - 1))))
    IN  Reverse(FlattenSeq([i \in DOMAIN trail |-> YieldAll(x, trail[i], Matching(i))]))

\* Parent: the deepest match on the way; the level of the prefix itself is
\* searched from the index above its own.  None, or one.
Parents(x, is4, p) ==
    LET depth == DepthOf(p.bits)
        trail == Trail(x, is4, p.key, depth)
        Start(i) == IF i = depth + 1 THEN IndexOf(p) \div 2 ELSE HostIdx(OctetAt(p.key, i - 1))
        Hits(i) == x.nodes[trail[i]].pfxBits \cap Chain(Start(i))
        levels == {i \in DOMAIN trail : Hits(i) # {}}
    IN  {Yield(x, trail[i], CHOOSE idx \in Hits(i) : \A other \in Hits(i) : other <= idx) :
            i \in {i \in levels : \A j \in levels : j <= i}}

\* walkAll: the prefixes of a node in the order of their indices, then its
\* children.
walkAll(x, root) ==
    LET Under[n \in DOMAIN x.nodes] ==
            YieldAll(x, n, AllOf(x.nodes[n].pfxBits))
            \o FlattenSeq([i \in DOMAIN x.nodes[n].children |-> Under[x.nodes[n].children[i]]])
    IN  Under[root]

\* emitIdxSubtree: an index, its left half, its right half.
emitIdxSubtree(x, n, root) ==
    LET Emit[idx \in 1 .. 2 * MaxPrefixes] ==
            IF idx >= MaxPrefixes THEN <<>>
            ELSE (IF idx \in x.nodes[n].pfxBits THEN <<Yield(x, n, idx)>> ELSE <<>>)
                 \o Emit[2 * idx] \o Emit[2 * idx + 1]
    IN  Emit[root]

\* Subnets: below the index of the prefix in its node, then the children whose
\* octets are inside it.
Subnets(x, is4, p) ==
    LET depth == DepthOf(p.bits)
        trail == Trail(x, is4, p.key, depth)
        n == trail[Len(trail)]
        inside == AllOf(x.nodes[n].childBits \cap IdxRange(IndexOf(p)))
    IN  IF Len(trail) <= depth THEN <<>>
        ELSE emitIdxSubtree(x, n, IndexOf(p))
             \o FlattenSeq([i \in DOMAIN inside |-> walkAll(x, ChildOf(x, n, inside[i]))])

-----------------------------------------------------------------------------
(* Insertion and deletion. *)

Stores(x, at) ==
    LET depth == DepthOf(at.prefix.bits)
        trail == Trail(x, at.is4, at.prefix.key, depth)
    IN  Len(trail) = depth + 1 /\ IndexOf(at.prefix) \in x.nodes[trail[depth + 1]].pfxBits

\* A child of n for an octet, at an address that is free.
WithChild(x, n, octet) ==
    LET child == CHOOSE m \in 1 .. Cardinality(DOMAIN x.nodes) + 1 : m \notin DOMAIN x.nodes
        node == x.nodes[n]
        linked == [node EXCEPT !.childBits = @ \cup {octet},
                               !.children = InsertAt(@, Rank0(node.childBits, octet) + 1, child)]
    IN  [x EXCEPT !.nodes = (n :> linked) @@ (child :> ribNode(n, octet, node.depth + 1)) @@ @]
Insert(x, at, val) ==
    LET p == at.prefix
        depth == DepthOf(p.bits)
        y == FoldLeft(LAMBDA z, d :
                LET trail == Trail(z, at.is4, p.key, d + 1)
                IN  IF Len(trail) = d + 2 THEN z ELSE WithChild(z, trail[d + 1], OctetAt(p.key, d)),
                x, Depths(0, depth - 1))
        n == Trail(y, at.is4, p.key, depth)[depth + 1]
        rank == Rank0(y.nodes[n].pfxBits, IndexOf(p)) + 1
    IN  IF Stores(x, at) THEN [y EXCEPT !.nodes[n].values[rank] = val]
        ELSE [y EXCEPT !.nodes[n] = [@ EXCEPT !.pfxBits = @ \cup {IndexOf(p)}, !.values = InsertAt(@, rank, val)],
                       !.size[at.is4] = @ + 1]

\* The loop at the end of Delete: an empty node leaves its parent, and the
\* parent is next.
Prune(x, trail) ==
    FoldLeft(LAMBDA y, i :
        LET n == trail[i]
            node == y.nodes[n]
            parent == y.nodes[node.parent]
            rank == Rank0(parent.childBits, node.octet) + 1
            left == [parent EXCEPT !.childBits = @ \ {node.octet}, !.children = RemoveAt(@, rank)]
        IN  IF node.pfxBits = {} /\ node.childBits = {}
            THEN [y EXCEPT !.nodes = (node.parent :> left) @@ Restrict(@, DOMAIN @ \ {n})]
            ELSE y,
        x, Reverse(Depths(2, Len(trail))))
Delete(x, at) ==
    LET p == at.prefix
        trail == Trail(x, at.is4, p.key, DepthOf(p.bits))
        n == trail[Len(trail)]
        rank == Rank0(x.nodes[n].pfxBits, IndexOf(p)) + 1
        cleared == [x.nodes[n] EXCEPT !.pfxBits = @ \ {IndexOf(p)}, !.values = RemoveAt(@, rank)]
    IN  IF ~Stores(x, at) THEN x
        ELSE Prune([x EXCEPT !.nodes[n] = cleared, !.size[at.is4] = @ - 1], trail)
=============================================================================
