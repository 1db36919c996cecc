------------------------------ MODULE ARTTrie -------------------------------
(***************************************************************************)
(* The trie of artlpm, one family of it.  A node is named by the path to   *)
(* it, a prefix, and so is each of its slots: the slot of an octet is the  *)
(* path to the child that hangs there, or would.  A trie is                *)
(*   nodes    the paths of its nodes,                                      *)
(*   inline   the values of the prefixes in the nodes' bitmaps,            *)
(*   leaf     the path-compressed prefixes, by the slot they occupy.       *)
(* Bitmaps, ranks and the compressed arrays are representation here.       *)
(* Values are positive; 0 is the answer that nothing matches.              *)
(***************************************************************************)
EXTENDS ARTKeys

EmptyTrie == [nodes |-> {Root}, inline |-> NoEntries, leaf |-> NoEntries]

-----------------------------------------------------------------------------
\* The depth at which a walk towards depth ends: there, or without a child.
WalkEnd(t, key, depth) ==
    CHOOSE d \in 0 .. depth :
        /\ d = depth \/ Slot(key, d) \notin t.nodes
        /\ \A e \in 0 .. d - 1 : Slot(key, e) \in t.nodes

\* What a node's bitmap holds of the prefixes that cover an address.
InNode(t, path, a) == {p \in DOMAIN t.inline : Home(p) = path /\ Covers(p, a)}

\* descend4, lookupKey and the loop of lookup6: the longest of a node's own
\* prefixes on every level, a deeper one over what is above it, and a leaf
\* that ends the walk.
BestInline(t, a, from, to, best) ==
    FoldLeft(LAMBDA found, d :
        LET here == InNode(t, Path(a, d), a)
        IN  IF here = {} THEN found ELSE t.inline[LongestMatch(here, a)],
        best, Depths(from, to))
Descend(t, a, from, best) ==
    LET end == WalkEnd(t, a, Bottom)
        slot == Slot(a, end)
    IN  IF slot \in DOMAIN t.leaf /\ Covers(t.leaf[slot].prefix, a)
        THEN t.leaf[slot].value ELSE BestInline(t, a, from, end, best)

lookup6(t, a) == Descend(t, a, 0, 0)

-----------------------------------------------------------------------------
\* BuildFront: for every value of the first two octets the node they lead to,
\* the best match above it, or that a leaf up there leaves it to a full walk.
FrontEntry(t, key) ==
    LET end == WalkEnd(t, key, 2)
        slow == end < 2 /\ Slot(key, end) \in DOMAIN t.leaf
    IN  [slow |-> slow, node |-> end = 2,
         value |-> IF slow THEN 0 ELSE BestInline(t, key, 0, IF end = 0 THEN 0 ELSE 1, 0)]
BuildFront(t) == [key \in FrontKeys |-> FrontEntry(t, key)]

\* lookup4: the front table if there is one, and the trie below it.
lookup4(t, front, a) ==
    LET e == front[Path(a, 2).key]
    IN  IF front = NoFront \/ e.slow THEN Descend(t, a, 0, 0)
        ELSE IF ~e.node THEN e.value
        ELSE Descend(t, a, 2, e.value)

-----------------------------------------------------------------------------
\* Get: exactly p, in its node or as a leaf on the way there.
Get(t, p) ==
    LET end == WalkEnd(t, p.key, DepthOf(p.bits))
        slot == Slot(p.key, end)
    IN  IF end = DepthOf(p.bits)
        THEN IF p \in DOMAIN t.inline THEN t.inline[p] ELSE 0
        ELSE IF slot \in DOMAIN t.leaf /\ t.leaf[slot].prefix = p THEN t.leaf[slot].value ELSE 0

\* LookupPrefix: a leaf no longer than the query on the way, otherwise the
\* walk back up, where the query's own node only counts what is no longer.
LookupPrefix(t, q) ==
    LET home == DepthOf(q.bits)
        end == WalkEnd(t, q.key, home)
        slot == Slot(q.key, end)
        found == {p \in DOMAIN t.inline :
                    /\ \E d \in 0 .. end : Home(p) = Path(q.key, d)
                    /\ Covers(p, q.key)
                    /\ end = home => p.bits <= q.bits}
    IN  IF /\ end < home /\ slot \in DOMAIN t.leaf
           /\ t.leaf[slot].prefix.bits <= q.bits /\ Covers(t.leaf[slot].prefix, q.key)
        THEN t.leaf[slot].value
        ELSE IF found = {} THEN 0 ELSE t.inline[LongestMatch(found, q.key)]

\* walk: the prefixes under a node in the order of the ART index, then its
\* leaves, then its children.
InlineBefore(p, q) == p.bits < q.bits \/ (p.bits = q.bits /\ p.key < q.key)
walk(t) ==
    LET Under[path \in {Masked(a, Stride * d) : a \in Addr, d \in 0 .. Bottom}] ==
            LET own == {p \in DOMAIN t.inline : Home(p) = path}
                slots == {s \in DOMAIN t.leaf : Parent(s) = path}
                kids == {c \in t.nodes \ {Root} : Parent(c) = path}
                Yield(ps, V(_)) == [i \in DOMAIN ps |-> [prefix |-> ps[i], value |-> V(ps[i])]]
                leaves == SetToSortSeq(slots, Before)
                children == SetToSortSeq(kids, Before)
            IN  Yield(SetToSortSeq(own, InlineBefore), LAMBDA p : t.inline[p])
                \o [i \in DOMAIN leaves |-> t.leaf[leaves[i]]]
                \o FlattenSeq([i \in DOMAIN children |-> Under[children[i]]])
    IN  Under[Root]

-----------------------------------------------------------------------------
\* An entry at a depth where nothing is on its way: in the node that is its
\* home, otherwise as a leaf at the next slot.
Place(t, p, value, depth) ==
    IF depth = DepthOf(p.bits) THEN [t EXCEPT !.inline = (p :> value) @@ @]
    ELSE [t EXCEPT !.leaf = (Slot(p.key, depth) :> [prefix |-> p, value |-> value]) @@ @]

\* (Faulty variant: the leaf goes back to the slot where the child now hangs.)
PushDownAbove(t, slot) ==
    LET lf == t.leaf[slot]
        made == [t EXCEPT !.nodes = @ \cup {slot}, !.leaf = Restrict(@, DOMAIN @ \ {slot})]
    IN  Place(made, lf.prefix, lf.value, LevelOf(slot) - 1)

\* insertAtDepth, which begins at the fresh child that replaced the leaf.
PushDown(t, slot) ==
    LET lf == t.leaf[slot]
        made == [t EXCEPT !.nodes = @ \cup {slot}, !.leaf = Restrict(@, DOMAIN @ \ {slot})]
    IN  Place(made, lf.prefix, lf.value, LevelOf(slot))

\* A leaf of another prefix is in the way of p at a depth.
Displaced(t, p, d) == Slot(p.key, d) \in DOMAIN t.leaf /\ t.leaf[Slot(p.key, d)].prefix # p

\* Insert reports whether the prefix is new.
IsNew(t, p) ==
    LET end == WalkEnd(t, p.key, DepthOf(p.bits))
    IN  IF end = DepthOf(p.bits) THEN p \notin DOMAIN t.inline ELSE Slot(p.key, end) \notin DOMAIN t.leaf
Insert(t, p, value) ==
    LET u == FoldLeft(LAMBDA v, d : IF Displaced(v, p, d) THEN PushDown(v, Slot(p.key, d)) ELSE v,
                      t, Depths(0, DepthOf(p.bits) - 1))
    IN  [trie |-> Place(u, p, value, WalkEnd(u, p.key, DepthOf(p.bits))), new |-> IsNew(u, p)]

\* A node is empty when it holds no prefixes, no children and no leaves.
Vacant(t, path) ==
    /\ \A p \in DOMAIN t.inline : Home(p) # path
    /\ \A s \in DOMAIN t.leaf : Parent(s) # path
    /\ \A c \in t.nodes \ {Root} : Parent(c) # path

\* (Faulty variant: only the node at the end of the path is looked at.)
pruneOnce(t, key, depth) ==
    IF depth > 0 /\ Vacant(t, Path(key, depth)) THEN [t EXCEPT !.nodes = @ \ {Path(key, depth)}] ELSE t

\* prune: empty nodes go, from the end of the path up; never the root.
prune(t, key, depth) ==
    FoldLeft(LAMBDA u, d : IF Vacant(u, Path(key, d)) THEN [u EXCEPT !.nodes = @ \ {Path(key, d)}] ELSE u,
             t, Reverse(Depths(1, depth)))

\* Delete, as far as the trie; nothing changes when p is not there.
Withdrawn(t, p) ==
    LET end == WalkEnd(t, p.key, DepthOf(p.bits))
    IN  IF end = DepthOf(p.bits) THEN [t EXCEPT !.inline = Restrict(@, DOMAIN @ \ {p})]
        ELSE [t EXCEPT !.leaf = Restrict(@, DOMAIN @ \ {Slot(p.key, end)})]
Delete(t, p) ==
    LET end == WalkEnd(t, p.key, DepthOf(p.bits))
    IN  IF Get(t, p) = 0 THEN t ELSE prune(Withdrawn(t, p), p.key, end)

-----------------------------------------------------------------------------
\* Every node but the root leads to a prefix, and a slot holds a child or a
\* leaf but not both.
WellFormed(t) ==
    /\ \A path \in t.nodes : path = Root \/ (Parent(path) \in t.nodes /\ ~Vacant(t, path))
    /\ DOMAIN t.leaf \cap t.nodes = {}
    /\ \A s \in DOMAIN t.leaf : Parent(s) \in t.nodes
=============================================================================
