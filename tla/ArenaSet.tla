------------------------------ MODULE ArenaSet -----------------------------
(***************************************************************************)
(* arenaartset.Set: the trie of coverartset with its nodes in an arena, so *)
(* that the two roots, a free list and indices take the place of pointers, *)
(* and a front table that an IPv4 deletion only marks dirty: the next IPv4 *)
(* insertion or read rebuilds it.  Besides the fields of ARTSet's sets a   *)
(* table has                                                               *)
(*   dirty      whether the front table waits to be rebuilt,               *)
(*   arena      the length of the arena, whose index 0 is never a node,    *)
(*   free       the indices that alloc takes first, the last one of them,  *)
(*   index      where each node is, by family and path.                    *)
(* Growth and the final copy of Load move the arena and keep its indices.  *)
(***************************************************************************)
EXTENDS ARTSet

CONSTANT Loads      \* what Load is given: sequences of spelled prefixes

Node(is4, path) == [is4 |-> is4, path |-> path]
roots == (Node(TRUE, Root) :> 1) @@ (Node(FALSE, Root) :> 2)

\* (Faulty variant: the index stays on the free list.)
allocUnpopped(x, node) ==
    IF x.free = <<>> THEN [x EXCEPT !.index = (node :> x.arena) @@ @, !.arena = @ + 1]
    ELSE [x EXCEPT !.index = (node :> x.free[Len(x.free)]) @@ @]

alloc(x, node) ==
    IF x.free = <<>> THEN [x EXCEPT !.index = (node :> x.arena) @@ @, !.arena = @ + 1]
    ELSE [x EXCEPT !.index = (node :> x.free[Len(x.free)]) @@ @, !.free = Front(@)]

release(x, node) ==
    [x EXCEPT !.free = Append(@, x.index[node]), !.index = Restrict(@, DOMAIN @ \ {node})]

\* The nodes of one path that are in one trie and not in another, from the top.
Path1(nodes) == SetToSortSeq(nodes, LAMBDA m, n : m.bits < n.bits)
Allocated(x, is4, t) ==
    FoldLeft(LAMBDA y, path : alloc(y, Node(is4, path)), x, Path1(t.nodes \ x.trie[is4].nodes))
Released(x, is4, t) ==
    FoldLeft(LAMBDA y, path : release(y, Node(is4, path)), x, Reverse(Path1(x.trie[is4].nodes \ t.nodes)))

-----------------------------------------------------------------------------
\* What contains4 and recordAdd do first.
Refreshed(x) ==
    IF ~x.dirty THEN x
    ELSE [x EXCEPT !.front = rebuildFront(x.trie[TRUE]), !.hasV4 = x.size[TRUE] > 0, !.dirty = FALSE]

\* recordAdd
recordAdd(x, at) ==
    IF ~at.is4 THEN [x EXCEPT !.size[FALSE] = @ + 1]
    ELSE LET y == Refreshed([x EXCEPT !.size[TRUE] = @ + 1, !.hasV4 = TRUE])
         IN  [y EXCEPT !.front = updateFront(@, at.prefix)]

\* insertKey of this package, the bookkeeping after the trie.
InsertKey(x, at) ==
    LET t == InsertPrefix(x.trie[at.is4], at.prefix)
    IN  IF Get(x.trie[at.is4], at.prefix) # 0 THEN x
        ELSE recordAdd([Allocated(x, at.is4, t) EXCEPT !.trie[at.is4] = t], at)

DeleteKey(x, at) ==
    LET t == DeleteLeaving(x.trie[at.is4], at.prefix)
    IN  IF Get(x.trie[at.is4], at.prefix) = 0 THEN x
        ELSE [Released(x, at.is4, t) EXCEPT
                 !.trie[at.is4] = t, !.size[at.is4] = @ - 1, !.dirty = @ \/ at.is4]

\* lessPrefix compares octets and lengths and no families.
lessPrefix(j, k) == Before(j.prefix, k.prefix)
LoadOrders(keys) ==
    LET Ascending(s) == \A i \in 1 .. Len(s) - 1 : ~lessPrefix(s[i + 1], s[i])
    IN  IF Ascending(keys) THEN {keys}
        ELSE {s \in {[i \in DOMAIN keys |-> keys[f[i]]] : f \in Permutations(DOMAIN keys)} : Ascending(s)}

-----------------------------------------------------------------------------
ArenaInit ==
    /\ table = [kind |-> "arenaartset", trie |-> [is4 \in BOOLEAN |-> EmptySet],
                size |-> [is4 \in BOOLEAN |-> 0], front |-> EmptyFront, hasV4 |-> FALSE, dirty |-> FALSE,
                arena |-> 3, free |-> <<>>, index |-> roots]
    /\ announced = {}

ArenaInsert(k) ==
    /\ Valid(k)
    /\ table' = InsertKey(table, FromPrefix(k))
    /\ announced' = announced \cup {FromPrefix(k)}

ArenaDelete(k) ==
    /\ Valid(k)
    /\ table' = DeleteKey(table, FromPrefix(k))
    /\ announced' = announced \ {FromPrefix(k)}

\* Load skips what is refused, puts the rest in order and inserts it.
Load(ks) ==
    LET valid == SelectSeq(ks, Valid)
    IN  /\ \E keys \in LoadOrders([i \in DOMAIN valid |-> FromPrefix(valid[i])]) :
               table' = FoldLeft(InsertKey, table, keys)
        /\ announced' = announced \cup {FromPrefix(valid[i]) : i \in DOMAIN valid}

\* Contains of an IPv4 address writes when the front table is dirty.
ReadRefreshes ==
    /\ table' = Refreshed(table)
    /\ UNCHANGED announced

ArenaNext ==
    \/ \E k \in Spelled : Unchanged(k) \/ ArenaInsert(k) \/ ArenaDelete(k)
    \/ \E ks \in Loads : Load(ks)
    \/ ReadRefreshes

-----------------------------------------------------------------------------
\* Contains: IPv4 descends past the first two levels without their coverage,
\* where a covering prefix would have answered already.
ArenaAnswers(x, is4, a) ==
    LET code == x.front[Path(a, 2).key]
    IN  IF ~is4 THEN ContainsFrom(x.kind, x.trie[FALSE], a, 0)
        ELSE /\ x.hasV4
             /\ code # "none"
             /\ code = "all" \/ ContainsFrom(x.kind, x.trie[TRUE], a, 2)

\* Contains answers for what is stored although deletions only mark the front
\* table: whoever reads it next has rebuilt it (frontDirty).
ArenaContainsStored ==
    LET x == Refreshed(table)
    IN  \A is4 \in BOOLEAN : \A a \in Addr : ArenaAnswers(x, is4, a) <=> Matches(Stored(is4), a) # {}

\* Every index past the sentinel is one node's or waits once on the free list:
\* alloc never hands out a node that is in use, and release loses none.
ArenaIsPartitioned ==
    LET nodes == {Node(is4, path) : is4 \in BOOLEAN, path \in UNION {table.trie[f].nodes : f \in BOOLEAN}}
        live == {n \in nodes : n.path \in table.trie[n.is4].nodes}
    IN  /\ DOMAIN table.index = live
        /\ IsInjective(table.index) /\ IsInjective(table.free)
        /\ Range(table.index) \cap ToSet(table.free) = {}
        /\ Range(table.index) \cup ToSet(table.free) = 1 .. table.arena - 1
=============================================================================
