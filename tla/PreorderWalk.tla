---------------------------- MODULE PreorderWalk ---------------------------
(***************************************************************************)
(* The immutable tables that walk: orderwalk, flatwalk and the archived    *)
(* fiborderwalk and fibbitwalk.  Routes of both families stand in one catalogue in        *)
(* preorder, numbered from 1, IPv4 first; each knows its parent.  orderwalk*)
(* finds a match from its predecessor in the catalogue, flatwalk through   *)
(* flatart, fiborderwalk through compiledfib; ancestors are the chain of   *)
(* parents, descendants a run of the catalogue.  fibbitwalk keeps only the *)
(* numbers of the catalogue and walks bitwalk's trie over them.            *)
(***************************************************************************)
EXTENDS FlatART, BitTrie

CONSTANT WalkBits       \* bits that orderwalk's front index counts by: 16
ASSUME WalkAssumption == WalkBits \in 1 .. Width

Families == {4, 6}

\* sortPreorder: family, address, then shortest first.
Preorder(S4, S6) ==
    LET Ids(fam, S) == [i \in 1 .. Cardinality(S) |-> [fam |-> fam, prefix |-> SetToSortSeq(S, Before)[i]]]
    IN  Ids(4, S4) \o Ids(6, S6)

Holds(route, fam, a) == route.fam = fam /\ Covers(route.prefix, a)

\* The ancestors that stay on the stack when a route is met: what does not
\* contain it is popped from the top.
Kept(routes, stack, route) ==
    LET holds == {j \in DOMAIN stack : Holds(routes[stack[j]], route.fam, route.prefix.key)}
        top == IF holds = {} THEN 0 ELSE CHOOSE j \in holds : \A k \in holds : k <= j
    IN  SubSeq(stack, 1, top)

\* The pass of New and prepareRoutes over the sorted catalogue: the parent is
\* the top of the stack, and a route that is popped ends where it is popped.
Hierarchy(routes) ==
    FoldLeftDomain(LAMBDA h, i :
        LET kept == Kept(routes, h.stack, routes[i])
            popped == {h.stack[j] : j \in Len(kept) + 1 .. Len(h.stack)}
        IN  [parent |-> Append(h.parent, IF kept = <<>> THEN 0 ELSE Last(kept)),
             end |-> Append([j \in DOMAIN h.end |-> IF j \in popped THEN i ELSE h.end[j]], Len(routes) + 1),
             stack |-> Append(kept, i)],
        [parent |-> <<>>, end |-> <<>>, stack |-> <<>>], routes)

Catalogue(S4, S6) ==
    LET routes == Preorder(S4, S6)
        h == Hierarchy(routes)
    IN  [routes |-> routes, parent |-> h.parent, end |-> h.end, count4 |-> Cardinality(S4)]

\* The number of a route that stands at a place of its family, from 1.
IdAt(t, fam, place) == IF fam = 4 THEN place ELSE t.count4 + place
Keys(t, fam) == {i \in DOMAIN t.routes : t.routes[i].fam = fam}
Block(a) == a \div Span(WalkBits)

\* Routes of the family in blocks before a block, as buildFront sums them up,
\* and the routes of the block.
BeforeBlock(t, fam, block) == Cardinality({i \in Keys(t, fam) : Block(t.routes[i].prefix.key) < block})
Run(t, fam, a) == {i \in Keys(t, fam) : Block(t.routes[i].prefix.key) = Block(a)}

-----------------------------------------------------------------------------
\* (Faulty variant: a block without a route below the address has no answer.)
predecessorInBlock(t, fam, a) ==
    LET below == {i \in Run(t, fam, a) : t.routes[i].prefix.key <= a}
    IN  IF below = {} THEN 0 ELSE IdAt(t, fam, BeforeBlock(t, fam, Block(a)) + Cardinality(below))

\* predecessor4 and predecessor6: bisection in the block; with every route of
\* the block above the address, the route before the block.
predecessor(t, fam, a) ==
    LET low == BeforeBlock(t, fam, Block(a))
               + Cardinality({i \in Run(t, fam, a) : t.routes[i].prefix.key <= a})
    IN  IF low = 0 THEN 0 ELSE IdAt(t, fam, low)

\* match4 and match6: up the parents until one covers the address.
match(t, fam, a) ==
    LET Up[i \in 0 .. Len(t.routes)] ==
            IF i = 0 THEN 0 ELSE IF Holds(t.routes[i], fam, a) THEN i ELSE Up[t.parent[i]]
    IN  Up[predecessor(t, fam, a)]

\* exact: bisection by address and length in the block.
exact(t, fam, p) ==
    LET at == BeforeBlock(t, fam, Block(p.key))
              + Cardinality({i \in Run(t, fam, p.key) : Before(t.routes[i].prefix, p)}) + 1
        id == IdAt(t, fam, at)
    IN  IF id \in Run(t, fam, p.key) /\ t.routes[id].prefix = p THEN id ELSE 0

\* WalkParents from a match.
ParentsFrom(t, id) ==
    LET Chain[i \in 0 .. Len(t.routes)] == IF i = 0 THEN <<>> ELSE <<i>> \o Chain[t.parent[i]]
    IN  Chain[id]

\* (Faulty variant: the scan does not stop where IPv4 ends.)
DescendantsUnbounded(t, id) ==
    LET r == t.routes[id]
        beyond == {i \in id .. Len(t.routes) : t.routes[i].prefix.key > HighAddr(r.prefix)}
        stop == IF beyond = {} THEN Len(t.routes) + 1 ELSE CHOOSE i \in beyond : \A j \in beyond : i <= j
    IN  [k \in 1 .. stop - id |-> id + k - 1]

\* WalkDescendants of orderwalk and flatwalk: forward while the address stays
\* inside the range, in the family's part of the catalogue.
Descendants(t, id) ==
    LET r == t.routes[id]
        beyond == {i \in id .. Len(t.routes) :
                     t.routes[i].fam # r.fam \/ t.routes[i].prefix.key > HighAddr(r.prefix)}
        stop == IF beyond = {} THEN Len(t.routes) + 1 ELSE CHOOSE i \in beyond : \A j \in beyond : i <= j
    IN  [k \in 1 .. stop - id |-> id + k - 1]

\* WalkDescendants of fiborderwalk: the interval that the stack recorded.
Interval(t, id) == [k \in 1 .. t.end[id] - id |-> id + k - 1]

-----------------------------------------------------------------------------
\* routeOf in flatwalk: from the slot of the index over the family to the route.
RouteOf(t, fam, S, slot) ==
    IF slot = NoSlot THEN 0 ELSE IdAt(t, fam, Rank(S, RefOf(S, slot)))

-----------------------------------------------------------------------------
\* WalkParents and WalkDescendants of fibbitwalk: what bitwalk yields, with the
\* prefix taken from the list instead of the path.
Remapped(list, yields) == [k \in DOMAIN yields |-> list[yields[k].value]]
=============================================================================
