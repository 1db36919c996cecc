------------------------------ MODULE ArenaLPM -----------------------------
(***************************************************************************)
(* arenaartlpm.Table: a trie without leaves and without pruning, whose     *)
(* nodes lie in one array, their children in a second and their values in  *)
(* a third.  A node owns a run of each: offset, capacity, and how many of  *)
(* its places are taken.  A run that is full moves to the end of its arena.*)
(* Places of the arrays count from 1 here, offsets from 0; the roots are   *)
(* nodes 1 and 2.  Locking is left to the caller: a method is one step.    *)
(***************************************************************************)
EXTENDS ARTKeys

CONSTANTS
    Spelled, Entries,   \* prefixes that callers use, and what they insert
    MaxDead             \* no deletion once so many places are dead: Rebuild is next

VARIABLES table, announced
vars == <<table, announced>>

NoRun == [off |-> 0, cap |-> 0, n |-> 0]
compactNode == [pfxBits |-> {}, childBits |-> {}, childs |-> NoRun, vals |-> NoRun]
noNode == 0
noVal == 0
rootFor(is4) == IF is4 THEN 1 ELSE 2
EmptyTable ==
    [nodes |-> <<compactNode, compactNode>>, childs |-> <<>>, vals |-> <<>>,
     size |-> [is4 \in BOOLEAN |-> 0], dead |-> 0, front |-> NoFront]

-----------------------------------------------------------------------------
(* Descents. *)

ChildOf(x, ni, octet) ==
    LET n == x.nodes[ni] IN x.childs[n.childs.off + Rank0(n.childBits, octet) + 1]
ValueIndex(x, ni, idx) ==
    LET n == x.nodes[ni] IN n.vals.off + Rank0(n.pfxBits, idx) + 1

\* The nodes on the way to a depth, from a node at some depth.
Trail(x, ni, key, from, to) ==
    FoldLeft(LAMBDA trail, d :
        LET n == trail[Len(trail)]
        IN  IF Len(trail) = d - from + 1 /\ OctetAt(key, d) \in x.nodes[n].childBits
            THEN Append(trail, ChildOf(x, n, OctetAt(key, d))) ELSE trail,
        <<ni>>, Depths(from, to - 1))

\* The value index of the last hit of a trail that begins at a depth.
LastHit(x, trail, key, from, best) ==
    LET Hit(i) == LpmTop(x.nodes[trail[i]].pfxBits, OctetAt(key, from + i - 1))
        hits == {i \in DOMAIN trail : Hit(i) # {}}
        last == Max(hits)
    IN  IF hits = {} THEN best ELSE ValueIndex(x, trail[last], CHOOSE idx \in Hit(last) : TRUE)

BuildFront(x) ==
    LET Entry(key) ==
            LET trail == Trail(x, rootFor(TRUE), key, 0, 2)
            IN  [node |-> IF Len(trail) = 3 THEN trail[3] ELSE noNode,
                 val |-> LastHit(x, IF Len(trail) = 3 THEN Front(trail) ELSE trail, key, 0, noVal)]
    IN  [x EXCEPT !.front = [key \in FrontKeys |-> Entry(key)]]
dropFront(x) == [x EXCEPT !.front = NoFront]

Read(x, val) == IF val = noVal THEN 0 ELSE x.vals[val]
Lookup(x, is4, a) ==
    LET e == x.front[Path(a, 2).key]
        from == IF is4 /\ x.front # NoFront THEN 2 ELSE 0
        start == IF from = 2 THEN e.node ELSE rootFor(is4)
        best == IF from = 2 THEN e.val ELSE noVal
    IN  Read(x, IF start = noNode THEN best
                ELSE LastHit(x, Trail(x, start, a, from, Bottom), a, from, best))

ContainsAddr(x, is4, a) ==
    LET trail == Trail(x, rootFor(is4), a, 0, Bottom)
    IN  \E i \in DOMAIN trail : IntersectsOctet(x.nodes[trail[i]].pfxBits, OctetAt(a, i - 1))

\* The node a prefix belongs in, if its trail gets there, and Get.
HomeNode(x, at) ==
    LET depth == DepthOf(at.prefix.bits)
        trail == Trail(x, rootFor(at.is4), at.prefix.key, 0, depth)
    IN  IF Len(trail) = depth + 1 THEN trail[depth + 1] ELSE noNode
Stores(x, at) ==
    LET ni == HomeNode(x, at) IN ni # noNode /\ IndexOf(at.prefix) \in x.nodes[ni].pfxBits
Get(x, at) == IF Stores(x, at) THEN x.vals[ValueIndex(x, HomeNode(x, at), IndexOf(at.prefix))] ELSE 0

-----------------------------------------------------------------------------
(* Insertion and deletion. *)

growth(n) ==
    LET doubled == CHOOSE c \in {2^i : i \in 1 .. Stride + 1} : c >= n /\ (c = 2 \/ c \div 2 < n)
    IN  IF doubled > MaxPrefixes THEN MaxPrefixes ELSE doubled

\* insertChild and insertVal: a full run is copied to fresh places at the end of
\* its arena; then what is at the rank and above moves up by one.  (Abandoned
\* places are blank here: nothing reads them.)
InsertInRun(arena, run, rank, new, blank) ==
    LET full == run.n + 1 > run.cap
        cap == growth(run.n + 1)
        old == run.off + 1 .. run.off + run.n
        moved == [i \in DOMAIN arena |-> IF i \in old THEN blank ELSE arena[i]]
                     \o SubSeq(arena, run.off + 1, run.off + run.n) \o [i \in 1 .. cap - run.n |-> blank]
        grown == IF full THEN moved ELSE arena
        off == IF full THEN Len(arena) ELSE run.off
    IN  [arena |-> [i \in DOMAIN grown |->
                        IF i = off + rank + 1 THEN new
                        ELSE IF i \in off + rank + 2 .. off + run.n + 1 THEN grown[i - 1]
                        ELSE grown[i]],
         run |-> [off |-> off, cap |-> IF full THEN cap ELSE run.cap, n |-> run.n + 1],
         dead |-> IF full THEN run.cap ELSE 0]

insertChild(x, ni, octet) ==
    LET n == x.nodes[ni]
        child == Len(x.nodes) + 1
        done == InsertInRun(x.childs, n.childs, Rank0(n.childBits, octet), child, 0)
    IN  [x EXCEPT !.nodes = Append([@ EXCEPT ![ni].childs = done.run, ![ni].childBits = @ \cup {octet}], compactNode),
                  !.childs = done.arena, !.dead = @ + done.dead]

insertVal(x, ni, idx, val) ==
    LET n == x.nodes[ni]
        done == InsertInRun(x.vals, n.vals, Rank0(n.pfxBits, idx), val, 0)
    IN  [x EXCEPT !.nodes[ni] = [n EXCEPT !.vals = done.run, !.pfxBits = @ \cup {idx}],
                  !.vals = done.arena, !.dead = @ + done.dead]

\* Insert: missing children on the way are made, from the top.
WithPath(x, at) ==
    FoldLeft(LAMBDA y, d :
        LET trail == Trail(y, rootFor(at.is4), at.prefix.key, 0, d + 1)
        IN  IF Len(trail) = d + 2 THEN y ELSE insertChild(y, trail[d + 1], OctetAt(at.prefix.key, d)),
        x, Depths(0, DepthOf(at.prefix.bits) - 1))
Insert(x, at, val) ==
    LET y == WithPath(dropFront(x), at)
        ni == HomeNode(y, at)
    IN  IF Stores(y, at) THEN [y EXCEPT !.vals[ValueIndex(y, ni, IndexOf(at.prefix))] = val]
        ELSE [insertVal(y, ni, IndexOf(at.prefix), val) EXCEPT !.size[at.is4] = @ + 1]

\* Delete: the values above move down, a blank follows; the node stays.
Delete(x, at) ==
    LET y == dropFront(x)
        ni == HomeNode(y, at)
        run == y.nodes[ni].vals
        gone == ValueIndex(y, ni, IndexOf(at.prefix))
    IN  IF ~Stores(y, at) THEN y
        ELSE [y EXCEPT !.vals = [i \in DOMAIN @ |->
                                    IF i \in gone .. run.off + run.n - 1 THEN @[i + 1]
                                    ELSE IF i = run.off + run.n THEN 0 ELSE @[i]],
                       !.nodes[ni] = [@ EXCEPT !.vals.n = @ - 1, !.pfxBits = @ \ {IndexOf(at.prefix)}],
                       !.size[at.is4] = @ - 1,
                       !.dead = @ + 1]

-----------------------------------------------------------------------------
(* Rebuild and walks. *)

\* The nodes of a subtree, depth first.
Subtree(x, root) ==
    LET Under[n \in DOMAIN x.nodes] ==
            LET run == x.nodes[n].childs
            IN  <<n>> \o FlattenSeq([i \in 1 .. run.n |-> Under[x.childs[run.off + i]]])
    IN  Under[root]

\* Rebuild and copyFrom: nodes depth first, after the two roots, and runs in the
\* order of the nodes that fit exactly; BuildFront at the end.
Rebuild(x) ==
    LET order == Subtree(x, rootFor(TRUE)) \o Subtree(x, rootFor(FALSE))
        source == <<1, 2>> \o SelectSeq(order, LAMBDA n : n > 2)
        Place(n) == CHOOSE i \in DOMAIN source : source[i] = n
        Gathered(arena, Run(_)) ==
            FlattenSeq([i \in DOMAIN order |-> SubSeq(arena, Run(order[i]).off + 1, Run(order[i]).off + Run(order[i]).n)])
        Fitted(n, Run(_)) ==
            LET at == CHOOSE i \in DOMAIN order : order[i] = n
            IN  [off |-> FoldLeft(LAMBDA sum, i : sum + Run(order[i]).n, 0, Depths(1, at - 1)),
                 cap |-> Run(n).n, n |-> Run(n).n]
        Childs(n) == x.nodes[n].childs
        Vals(n) == x.nodes[n].vals
        childs == Gathered(x.childs, Childs)
    IN  BuildFront(
            [nodes |-> [m \in DOMAIN source |->
                           [x.nodes[source[m]] EXCEPT !.childs = Fitted(source[m], Childs),
                                                      !.vals = Fitted(source[m], Vals)]],
             childs |-> [i \in DOMAIN childs |-> Place(childs[i])],
             vals |-> Gathered(x.vals, Vals),
             size |-> x.size, dead |-> 0, front |-> NoFront])

\* walk: the prefixes of a node in the order of their indices, then its children.
Walk(x, is4) ==
    LET Under[n \in DOMAIN x.nodes, path \in {Path(a, d) : a \in Addr, d \in 0 .. Bottom}] ==
            LET own == AllOf(x.nodes[n].pfxBits)
                octets == AllOf(x.nodes[n].childBits)
                Below(octet) == [key |-> path.key + octet * Span(path.bits + Stride), bits |-> path.bits + Stride]
            IN  [i \in DOMAIN own |-> [prefix |-> PrefixAt(path, own[i]), value |-> x.vals[ValueIndex(x, n, own[i])]]]
                \o FlattenSeq([i \in DOMAIN octets |-> Under[ChildOf(x, n, octets[i]), Below(octets[i])]])
    IN  Under[rootFor(is4), Root]

-----------------------------------------------------------------------------
Init == table = EmptyTable /\ announced = NoEntries

Refused(k) == ~Valid(k) /\ UNCHANGED vars

TableInsert(e) ==
    /\ Valid(e.key)
    /\ table' = Insert(table, FromPrefix(e.key), e.value)
    /\ announced' = (FromPrefix(e.key) :> e.value) @@ announced

TableDelete(k) ==
    /\ Valid(k)
    /\ table.dead < MaxDead
    /\ table' = Delete(table, FromPrefix(k))
    /\ announced' = Restrict(announced, DOMAIN announced \ {FromPrefix(k)})

TableBuildFront == table' = BuildFront(table) /\ UNCHANGED announced

\* The caller goes on with the table that Rebuild returns.
TableRebuild == table' = Rebuild(table) /\ UNCHANGED announced

Next ==
    \/ \E k \in Spelled : Refused(k) \/ TableDelete(k)
    \/ \E e \in Entries : TableInsert(e)
    \/ TableBuildFront
    \/ TableRebuild

-----------------------------------------------------------------------------
Stored(is4) == {at.prefix : at \in {x \in DOMAIN announced : x.is4 = is4}}
Answer(is4, S, a) ==
    IF Matches(S, a) = {} THEN 0 ELSE announced[[is4 |-> is4, prefix |-> LongestMatch(S, a)]]

\* Lookup answers the longest match among what was inserted and not deleted
\* since, and Contains whether there is one, wherever runs have moved to.
LookupIsAnnounced ==
    \A is4 \in BOOLEAN : \A a \in Addr :
        /\ Lookup(table, is4, a) = Answer(is4, Stored(is4), a)
        /\ ContainsAddr(table, is4, a) <=> Matches(Stored(is4), a) # {}

\* Get, Size and All agree with what was inserted and not deleted since; a
\* Rebuild changes nothing of it.
ContentIsAnnounced ==
    /\ \A k \in {x \in Spelled : Valid(x)} :
        LET at == FromPrefix(k)
        IN  Get(table, at) = Answer(at.is4, {at.prefix} \cap Stored(at.is4), at.prefix.key)
    /\ \A is4 \in BOOLEAN :
        LET yields == Walk(table, is4)
        IN  /\ Len(yields) = Cardinality(Stored(is4)) /\ table.size[is4] = Len(yields)
            /\ ToSet(yields) = {[prefix |-> p, value |-> announced[[is4 |-> is4, prefix |-> p]]] : p \in Stored(is4)}

\* The runs lie in their arenas and apart from each other, and what no run owns
\* is counted.
Places(run) == run.off + 1 .. run.off + run.cap
Apart(runs, arena) ==
    /\ \A i \in DOMAIN runs : runs[i].n <= runs[i].cap /\ Places(runs[i]) \subseteq DOMAIN arena
    /\ \A i, j \in DOMAIN runs : i # j => Places(runs[i]) \cap Places(runs[j]) = {}
ArenaIsPartitioned ==
    LET childs == [n \in DOMAIN table.nodes |-> table.nodes[n].childs]
        vals == [n \in DOMAIN table.nodes |-> table.nodes[n].vals]
        Owned(runs) == Cardinality(UNION {Places(runs[n]) : n \in DOMAIN runs})
    IN  /\ Apart(childs, table.childs) /\ Apart(vals, table.vals)
        /\ Len(table.childs) + Len(table.vals) <= Owned(childs) + Owned(vals) + table.dead
=============================================================================
