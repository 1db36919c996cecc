------------------------------- MODULE ARTSet -------------------------------
(***************************************************************************)
(* The mutable membership sets over artlpm's trie: artset, groupartset and *)
(* the archived coverartset and latticeartset.  A trie has these fields    *)
(* besides those of ARTTrie, where every stored prefix has the value 1:    *)
(*   cover      the slots that the prefixes of their node cover, which     *)
(*              insertions add to and a deletion recomputes for one node   *)
(*              (latticeartset has none and asks the bitmap),              *)
(*   childRank, leafRank   in groupartset, for each group of a node's      *)
(*              slots, how many children and leaves the groups below have. *)
(* An IPv4 front table of two-bit codes is patched by insertions and       *)
(* rebuilt by deletions.  Locking is left to the caller: a method is one   *)
(* step.  announced is what the calls so far have asked for.               *)
(***************************************************************************)
EXTENDS ARTTrie

CONSTANTS
    GroupSlots, \* slots of a group: 64
    Kinds,      \* which of the packages are run
    Spelled     \* the prefixes that callers use, as they spell them

VARIABLES table, announced
vars == <<table, announced>>

Present == 1
Groups == 0 .. 2^Stride \div GroupSlots - 1
EmptySet ==
    [nodes |-> {Root}, inline |-> NoEntries, leaf |-> NoEntries, cover |-> {},
     childRank |-> [n \in {Root} |-> [g \in Groups |-> 0]],
     leafRank |-> [n \in {Root} |-> [g \in Groups |-> 0]]]

-----------------------------------------------------------------------------
(* Coverage of a node's slots. *)

\* setCover: the slots of p's node that p covers (artset and groupartset by
\* words, coverartset bit by bit).
setCover(p) == {Slot(a, DepthOf(p.bits)) : a \in {x \in Addr : Covers(p, x)}}

\* (Faulty variant: only the slots of the deleted prefix are cleared.)
uncover(t, p) == [t EXCEPT !.cover = @ \ setCover(p)]

\* rebuildCover, for the node that p was deleted from.
rebuildCover(t, p) ==
    LET left == {q \in DOMAIN t.inline : Home(q) = Home(p)}
    IN  [t EXCEPT !.cover = {s \in @ : Parent(s) # Home(p)} \cup UNION {setCover(q) : q \in left}]

\* What adding an inline prefix does to the coverage, if it became one.
Covering(t, p) == IF p \in DOMAIN t.inline THEN [t EXCEPT !.cover = @ \cup setCover(p)] ELSE t

\* latticeartset's IntersectsOctet asks the ancestors in the bitmap instead.
IntersectsBits(t, slot) == \E p \in DOMAIN t.inline : setCover(p) \cap {slot} # {}
Covered(kind, t, slot) == IF kind = "latticeartset" THEN IntersectsBits(t, slot) ELSE slot \in t.cover

-----------------------------------------------------------------------------
(* groupartset's running ranks. *)

Octet(slot) == (slot.key \div Span(slot.bits)) % 2^Stride
Group(slot) == Octet(slot) \div GroupSlots
Below(slots, n, g) == Cardinality({s \in slots : Parent(s) = n /\ Group(s) < g})
Carried(ranks, before, after, nodes) ==
    [n \in nodes |-> [g \in Groups |->
        (IF n \in DOMAIN ranks THEN ranks[n][g] ELSE 0) + Below(after \ before, n, g) - Below(before \ after, n, g)]]

\* addChild, removeChild, addLeaf and removeLeaf: the groups above a slot that
\* came or went count one more or one less; a fresh node begins with zeros.
Ranked(t, u) ==
    [u EXCEPT !.childRank = Carried(t.childRank, t.nodes \ {Root}, u.nodes \ {Root}, u.nodes),
              !.leafRank = Carried(t.leafRank, DOMAIN t.leaf, DOMAIN u.leaf, u.nodes)]

\* childIndex and leafIndex: what stands in the compressed array of a node at
\* the rank of a slot.
At(slots, rank, slot) ==
    LET array == SetToSortSeq({s \in slots : Parent(s) = Parent(slot)}, Before)
        same == {s \in slots : Parent(s) = Parent(slot) /\ Group(s) = Group(slot) /\ Octet(s) < Octet(slot)}
        index == rank[Parent(slot)][Group(slot)] + Cardinality(same) + 1
    IN  IF index \in DOMAIN array THEN {array[index]} ELSE {}

-----------------------------------------------------------------------------
(* Insert and Delete, as far as the trie. *)

PushDownCovering(t, slot) == Covering(PushDown(t, slot), t.leaf[slot].prefix)

\* Insert and insertAtDepth of artset, coverartset and latticeartset.
InsertPrefix(t, p) ==
    LET u == FoldLeft(LAMBDA v, d : IF Displaced(v, p, d) THEN PushDownCovering(v, Slot(p.key, d)) ELSE v,
                      t, Depths(0, DepthOf(p.bits) - 1))
    IN  Covering(Place(u, p, Present, WalkEnd(u, p.key, DepthOf(p.bits))), p)

\* insertKey and addPrefix of groupartset.
insertKey(t, p) == Ranked(t, InsertPrefix(t, p))

\* Delete of artset: a leaf or an inline prefix goes, and every node that this
\* leaves empty.
DeletePruned(t, p) ==
    LET end == WalkEnd(t, p.key, DepthOf(p.bits))
        gone == Withdrawn(t, p)
    IN  prune(IF p \in DOMAIN t.inline THEN rebuildCover(gone, p) ELSE gone, p.key, end)

\* Delete of groupartset.
DeleteRanked(t, p) == Ranked(t, DeletePruned(t, p))

\* Delete of coverartset and latticeartset: with a leaf nothing is pruned.
DeleteLeaving(t, p) ==
    IF p \in DOMAIN t.inline
    THEN prune(rebuildCover(Withdrawn(t, p), p), p.key, DepthOf(p.bits))
    ELSE Withdrawn(t, p)

Inserted(kind, t, p) == IF kind = "groupartset" THEN insertKey(t, p) ELSE InsertPrefix(t, p)
Deleted(kind, t, p) ==
    IF kind = "artset" THEN DeletePruned(t, p)
    ELSE IF kind = "groupartset" THEN DeleteRanked(t, p)
    ELSE DeleteLeaving(t, p)

-----------------------------------------------------------------------------
(* The front table. *)

EmptyFront == [key \in FrontKeys |-> "none"]

\* updateFront: a prefix of two octets or fewer covers its slots whole; a longer
\* one asks for a descent, where no such prefix does.
updateFront(front, p) ==
    [key \in FrontKeys |->
        IF p.bits <= 2 * Stride THEN IF Covers(p, key) THEN "all" ELSE front[key]
        ELSE IF key = Path(p.key, 2).key /\ front[key] # "all" THEN "deeper" ELSE front[key]]

\* rebuildFront: every IPv4 prefix of the walk, through updateFront.
rebuildFront(t) == FoldLeft(LAMBDA front, y : updateFront(front, y.prefix), EmptyFront, walk(t))

-----------------------------------------------------------------------------
(* Contains. *)

\* The levels of a descent from a depth on: a covered slot ends it, a leaf does
\* too, with its own answer.
ContainsFrom(kind, t, a, from) ==
    LET end == WalkEnd(t, a, Bottom)
        slot == Slot(a, end)
    IN  \/ \E d \in from .. end : Covered(kind, t, Slot(a, d))
        \/ slot \in DOMAIN t.leaf /\ Covers(t.leaf[slot].prefix, a)

\* The levels of groupartset, which go where the ranks lead.
ContainsRanked(t, a, from) ==
    LET Level[n \in t.nodes, d \in 0 .. Bottom] ==
            LET slot == Path(n.key + (Slot(a, d).key - Path(a, d).key), d + 1)
            IN  \/ d >= from /\ slot \in t.cover
                \/ IF slot \in DOMAIN t.leaf
                   THEN \E s \in At(DOMAIN t.leaf, t.leafRank, slot) : Covers(t.leaf[s].prefix, a)
                   ELSE /\ d # Bottom
                        /\ slot \in t.nodes
                        /\ \E c \in At(t.nodes \ {Root}, t.childRank, slot) : Level[c, d + 1]
    IN  Level[Root, 0]

\* contains4: the slot's code, and a descent only where it says so; there no
\* short prefix covers the address, so that groupartset skips the coverage of
\* the first two levels.
contains4(kind, x, a) ==
    LET code == x.front[Path(a, 2).key]
    IN  /\ x.hasV4
        /\ code # "none"
        /\ \/ code = "all"
           \/ IF kind = "groupartset" THEN ContainsRanked(x.trie[TRUE], a, 2)
              ELSE ContainsFrom(kind, x.trie[TRUE], a, 0)

contains6(kind, x, a) ==
    IF kind = "groupartset" THEN ContainsRanked(x.trie[FALSE], a, 0)
    ELSE ContainsFrom(kind, x.trie[FALSE], a, 0)

-----------------------------------------------------------------------------
Init ==
    /\ \E kind \in Kinds :
        table = [kind |-> kind, trie |-> [is4 \in BOOLEAN |-> EmptySet], size |-> [is4 \in BOOLEAN |-> 0],
                 front |-> EmptyFront, hasV4 |-> FALSE]
    /\ announced = {}

\* Prefixes that FromPrefix refuses, a second insertion, and the deletion of
\* what is not stored, return before they change anything.
Unchanged(k) == ~Valid(k) /\ UNCHANGED vars

Insertion(k) ==
    LET at == FromPrefix(k)
        trie == table.trie[at.is4]
        new == Get(trie, at.prefix) = 0
    IN  /\ Valid(k)
        /\ table' = IF ~new THEN table ELSE
                [table EXCEPT !.trie[at.is4] = Inserted(table.kind, trie, at.prefix),
                              !.size[at.is4] = @ + 1,
                              !.hasV4 = @ \/ at.is4,
                              !.front = IF at.is4 THEN updateFront(@, at.prefix) ELSE @]
        /\ announced' = announced \cup {at}

Deletion(k) ==
    LET at == FromPrefix(k)
        trie == table.trie[at.is4]
        left == Deleted(table.kind, trie, at.prefix)
    IN  /\ Valid(k)
        /\ table' = IF Get(trie, at.prefix) = 0 THEN table ELSE
                [table EXCEPT !.trie[at.is4] = left,
                              !.size[at.is4] = @ - 1,
                              !.hasV4 = IF at.is4 THEN table.size[TRUE] > 1 ELSE @,
                              !.front = IF at.is4 THEN rebuildFront(left) ELSE @]
        /\ announced' = announced \ {at}

Next == \E k \in Spelled : Unchanged(k) \/ Insertion(k) \/ Deletion(k)

-----------------------------------------------------------------------------
Answers(is4, a) == IF is4 THEN contains4(table.kind, table, a) ELSE contains6(table.kind, table, a)
Stored(is4) == {at.prefix : at \in {x \in announced : x.is4 = is4}}

\* Contains is true of exactly the addresses that a stored prefix covers:
\* coverage, ranks and front table still hold what several prefixes share after
\* one of them has gone (rebuildCover, rebuildFront, addChild, removeChild).
ContainsStored ==
    \A is4 \in BOOLEAN : \A a \in Addr : Answers(is4, a) <=> Matches(Stored(is4), a) # {}

\* Size counts and All yields, once each, what was inserted and not deleted since.
ContentIsAnnounced ==
    \A is4 \in BOOLEAN :
        LET yields == walk(table.trie[is4])
        IN  /\ table.size[is4] = Len(yields) /\ Len(yields) = Cardinality(Stored(is4))
            /\ {yields[i].prefix : i \in DOMAIN yields} = Stored(is4)

\* Delete leaves no node empty; coverartset and latticeartset, which only prune
\* when the prefix was inline, are left out.
TriesArePruned == table.kind \in {"artset", "groupartset"} => \A is4 \in BOOLEAN : WellFormed(table.trie[is4])
=============================================================================
