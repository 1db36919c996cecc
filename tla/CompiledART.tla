---------------------------- MODULE CompiledART ----------------------------
(***************************************************************************)
(* The compiled tries of soaart and aosart, one family of them.  A prefix  *)
(* that ends inside a node's stride is in the node, one that ends with the *)
(* slot of an octet is a fringe there, and a longer one that is alone in   *)
(* its slot is a leaf; a fringe or a leaf becomes a node when another      *)
(* prefix comes to its slot.  A tree has a node for each of its paths,     *)
(* with the route ids of its prefixes by ART index, and a reference for    *)
(* each octet that has one.  freeze lays the nodes out in arrays with      *)
(* ranks (soaart) or in records with running ranks (aosart), which is      *)
(* representation here.                                                    *)
(***************************************************************************)
EXTENDS ARTKeys

noRef == [tag |-> "none"]
refNode == [tag |-> "node"]
refFringe(id) == [tag |-> "fringe", id |-> id]
refLeaf(p, id) == [tag |-> "leaf", prefix |-> p, id |-> id]
buildNode == [pfx |-> NoEntries, kids |-> NoEntries]

childRef(n, octet) == IF octet \in DOMAIN n.kids THEN n.kids[octet] ELSE noRef

\* A prefix is at home at the level that its whole strides lead to, and fills a
\* slot of the level above when nothing remains.
FillsSlot(p, level) == p.bits = Stride * (level + 1)
IndexIn(p, level) == PfxToIdx(OctetAt(p.key, level), p.bits % Stride)

-----------------------------------------------------------------------------
(* buildTree. *)

\* setPfx and setKid: a prefix in a node at a level where nothing is in its way.
setPfx(n, p, level, id) == [n EXCEPT !.pfx = (IndexIn(p, level) :> id) @@ @]
setKid(n, octet, ref) == [n EXCEPT !.kids = (octet :> ref) @@ @]
Settle(n, p, level, id) ==
    IF level = LevelOf(p) THEN setPfx(n, p, level, id)
    ELSE setKid(n, OctetAt(p.key, level), IF FillsSlot(p, level) THEN refFringe(id) ELSE refLeaf(p, id))

\* (Faulty variant: a fringe that is split is settled as a fringe of its octet.)
SplitFringeBelow(ref, slot, level) ==
    IF ref.tag = "leaf" THEN Settle(buildNode, ref.prefix, level, ref.id)
    ELSE setKid(buildNode, OctetAt(slot.key, level), ref)

\* The node that replaces a fringe or a leaf, with what it replaces.
Split(ref, slot, level) ==
    Settle(buildNode, IF ref.tag = "leaf" THEN ref.prefix ELSE slot, level, ref.id)

\* insert: one level of its loop.  It ends where the prefix is at home, at a
\* free slot, or at its own fringe or leaf.
Descent(at, p, id, level) ==
    LET path == Path(p.key, level)
        n == at.tree[path]
        octet == OctetAt(p.key, level)
        ref == childRef(n, octet)
        slot == Slot(p.key, level)
        ends == \/ level = LevelOf(p)
                \/ ref.tag = "none"
                \/ ref.tag = "fringe" /\ FillsSlot(p, level)
                \/ ref.tag = "leaf" /\ ref.prefix = p
    IN  IF at.done THEN at
        ELSE IF ends THEN [tree |-> [at.tree EXCEPT ![path] = Settle(n, p, level, id)], done |-> TRUE]
        ELSE IF ref.tag = "node" THEN at
        ELSE [at EXCEPT !.tree = (path :> setKid(n, octet, refNode)) @@ (slot :> Split(ref, slot, level + 1)) @@ @]
insert(tree, p, id) ==
    FoldLeft(LAMBDA at, level : Descent(at, p, id, level),
             [tree |-> tree, done |-> FALSE], Depths(0, LevelOf(p))).tree

\* Builder.Add in the order of the ids.
buildTree(ids) ==
    FoldLeft(LAMBDA tree, p : insert(tree, p, ids[p]),
             Root :> buildNode, SetToSortSeq(DOMAIN ids, LAMBDA p, q : ids[p] < ids[q]))

-----------------------------------------------------------------------------
(* tree. *)

\* The level at which a descent towards a level ends: there, or at a slot that
\* holds no node.
RefAt(tree, key, level) == childRef(tree[Path(key, level)], OctetAt(key, level))
Ending(tree, key, level) ==
    CHOOSE l \in 0 .. level :
        /\ \A k \in 0 .. l - 1 : RefAt(tree, key, k).tag = "node"
        /\ l = level \/ RefAt(tree, key, l).tag # "node"

\* The matches of one node, the longest first: what lpmTable has of its indices.
lpmTable(octet) == [i \in 1 .. Stride |-> PfxToIdx(octet, Stride - i)]
Hits(n, octet) == SelectSeq(lpmTable(octet), LAMBDA idx : idx \in DOMAIN n.pfx)

\* What a slot that is no node answers for an address: none, or one.
Terminal(tree, a, level) ==
    LET ref == RefAt(tree, a, level)
    IN  CASE ref.tag = "fringe" -> <<[prefix |-> Slot(a, level), id |-> ref.id]>>
          [] ref.tag = "leaf" /\ Covers(ref.prefix, a) -> <<[prefix |-> ref.prefix, id |-> ref.id]>>
          [] OTHER -> <<>>

lookup(tree, a) ==
    LET end == Ending(tree, a, Bottom)
        Best(found, level) ==
            LET n == tree[Path(a, level)]
                hits == Hits(n, OctetAt(a, level))
            IN  IF hits = <<>> THEN found ELSE n.pfx[Head(hits)]
        last == Terminal(tree, a, end)
    IN  IF last # <<>> THEN last[1].id ELSE FoldLeft(Best, 0, Depths(0, end))

exact(tree, p) ==
    LET end == Ending(tree, p.key, LevelOf(p))
        n == tree[Path(p.key, end)]
        ref == RefAt(tree, p.key, end)
    IN  IF end = LevelOf(p) THEN IF IndexIn(p, end) \in DOMAIN n.pfx THEN n.pfx[IndexIn(p, end)] ELSE 0
        ELSE IF \/ ref.tag = "fringe" /\ FillsSlot(p, end)
                \/ ref.tag = "leaf" /\ ref.prefix = p
             THEN ref.id ELSE 0

\* The matches of indices of a node.
Yields(tree, path, idxs) ==
    [i \in DOMAIN idxs |-> [prefix |-> PrefixAt(path, idxs[i]), id |-> tree[path].pfx[idxs[i]]]]

\* walkSupernets: what ended the descent, then back up.
walkSupernets(tree, a) ==
    LET end == Ending(tree, a, Bottom)
        At(level) == Yields(tree, Path(a, level), Hits(tree[Path(a, level)], OctetAt(a, level)))
    IN  Terminal(tree, a, end) \o FlattenSeq([i \in 1 .. end + 1 |-> At(end + 1 - i)])

\* walkRef: what is under the slot of an octet, given what is under each node.
Below(path, octet) == [key |-> path.key + octet * Span(path.bits + Stride), bits |-> path.bits + Stride]
walkRef(tree, path, octet, under) ==
    LET ref == tree[path].kids[octet]
    IN  CASE ref.tag = "node" -> under[Below(path, octet)]
          [] ref.tag = "fringe" -> <<[prefix |-> Below(path, octet), id |-> ref.id]>>
          [] ref.tag = "leaf" -> <<[prefix |-> ref.prefix, id |-> ref.id]>>

\* Some prefixes of a node, then the slots of some octets, in their order.
WalkSome(tree, path, idxs, octets, under) ==
    LET visited == SelectSeq(Depths(0, 2^Stride - 1), LAMBDA octet : octet \in octets)
    IN  Yields(tree, path, SelectSeq(Depths(1, 2^Stride - 1), LAMBDA idx : idx \in idxs))
            \o FlattenSeq([i \in DOMAIN visited |-> walkRef(tree, path, visited[i], under)])

\* walkNode, for each node.
walkNode(tree) ==
    LET Under[path \in DOMAIN tree] ==
            WalkSome(tree, path, DOMAIN tree[path].pfx, DOMAIN tree[path].kids, Under)
    IN  Under

\* walkWithin: what is inside an index of a node that is no whole stride.
walkWithin(tree, path, idx) ==
    LET n == tree[path]
        Inside(j) == IdxToPfx(j).octet \in IdxRange(idx) /\ IdxToPfx(j).pfxLen > IdxToPfx(idx).pfxLen
    IN  WalkSome(tree, path, {j \in DOMAIN n.pfx : Inside(j)}, DOMAIN n.kids \cap IdxRange(idx), walkNode(tree))

\* walkSubnets: a query that ends within a stride is visited only where it is
\* stored, one that ends with a stride also where it is not.
walkSubnets(tree, q) ==
    LET end == Ending(tree, q.key, LevelOf(q))
        path == Path(q.key, end)
        ref == RefAt(tree, q.key, end)
        idx == IndexIn(q, end)
    IN  IF end < LevelOf(q)
        THEN IF \/ ref.tag = "fringe" /\ FillsSlot(q, end)
                \/ ref.tag = "leaf" /\ ref.prefix.bits >= q.bits /\ Covers(q, ref.prefix.key)
             THEN walkRef(tree, path, OctetAt(q.key, end), NoEntries) ELSE <<>>
        ELSE IF q.bits % Stride = 0 THEN walkNode(tree)[path]
        ELSE IF idx \in DOMAIN tree[path].pfx
             THEN Yields(tree, path, <<idx>>) \o walkWithin(tree, path, idx)
             ELSE <<>>
=============================================================================
