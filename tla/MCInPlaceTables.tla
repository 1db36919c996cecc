--------------------------- MODULE MCInPlaceTables -------------------------
(***************************************************************************)
(* What callers of the tables of InPlaceTables use: addresses of six bits  *)
(* in three strides of two, so that a path passes a root, a middle node    *)
(* and a last one, the front table answers for the first two strides, and  *)
(* a leaf can be pushed down twice.                                        *)
(***************************************************************************)
EXTENDS InPlaceTables

P(key, bits, as) == [prefix |-> Masked(key, bits), as |-> as]
Entry(k, value) == [key |-> k, value |-> value]
Short == P(0, 0, "short")

-----------------------------------------------------------------------------
\* artlpm: a default route, a chain of three prefixes that displace each other's
\* leaves, a sibling, a 4-in-6 spelling, and a pair of IPv6 prefixes.
MCTrie4 == {P(0, 0, "v4"), P(0, 4, "v4"), P(1, 6, "v4"), P(2, 5, "v4"), P(4, 4, "mapped")}
MCTrie6 == {P(16, 4, "v6"), P(17, 6, "v6")}
MCTrieSpelled == MCTrie4 \cup MCTrie6 \cup {Short}
MCTrieEntries ==
    {Entry(k, 1) : k \in MCTrie4 \cup MCTrie6} \cup {Entry(k, 2) : k \in {P(0, 0, "v4"), P(1, 6, "v4"), P(0, 4, "v4")}}

\* The sets: one half of the addresses, leaves in both groups of a node, and
\* IPv6 prefixes that cover the same slots of a node.
MCSetSpelled ==
    {P(0, 1, "v4"), P(0, 4, "v4"), P(1, 6, "v4"), P(2, 5, "mapped"), P(12, 6, "v4"),
     P(16, 3, "v6"), P(16, 4, "v6"), P(17, 6, "v6"), Short}

\* arenaartset: nodes of both families that come and go, and a load of prefixes
\* out of order, of which one is refused.
MCArenaSpelled ==
    {P(0, 4, "v4"), P(1, 6, "v4"), P(2, 5, "mapped"), P(16, 4, "v6"), P(17, 6, "v6"), Short}
MCLoads == {<<P(17, 6, "v6"), Short, P(1, 6, "v4"), P(2, 5, "v4")>>}

\* arenaartlpm: in one node more values than its first run holds, in another
\* family nodes whose runs lie between them.
MCPlaceEntries ==
    {Entry(P(0, 0, "v4"), 1), Entry(P(0, 1, "v4"), 2), Entry(P(16, 2, "v4"), 4),
     Entry(P(16, 4, "mapped"), 6), Entry(P(16, 4, "mapped"), 5), Entry(P(0, 1, "v6"), 7)}
MCPlaceSpelled == {e.key : e \in MCPlaceEntries} \cup {Short}

\* artwalk: nested prefixes on every level, with another family beside them.
MCWalkEntries ==
    {Entry(P(0, 0, "v4"), 1), Entry(P(16, 2, "v4"), 4), Entry(P(16, 2, "v4"), 5), Entry(P(17, 6, "mapped"), 6),
     Entry(P(16, 3, "v4"), 2), Entry(P(18, 5, "v4"), 3), Entry(P(0, 0, "v6"), 8), Entry(P(17, 6, "v6"), 7)}
MCWalkSpelled == {e.key : e \in MCWalkEntries} \cup {Short}
=============================================================================
