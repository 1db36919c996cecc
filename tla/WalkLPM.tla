------------------------------ MODULE WalkLPM ------------------------------
(***************************************************************************)
(* artwalk.Table, changed in place.  Locking is left to the caller: every  *)
(* method is one step.  announced is what the calls so far have asked for. *)
(***************************************************************************)
EXTENDS WalkTrie

CONSTANTS Spelled, Entries  \* prefixes that callers use, and what they insert

VARIABLES table, announced
vars == <<table, announced>>

-----------------------------------------------------------------------------
Init == table = EmptyTable /\ announced = NoEntries

Refused(k) == ~Valid(k) /\ UNCHANGED vars

TableInsert(e) ==
    /\ Valid(e.key)
    /\ table' = Insert(table, FromPrefix(e.key), e.value)
    /\ announced' = (FromPrefix(e.key) :> e.value) @@ announced

TableDelete(k) ==
    /\ Valid(k)
    /\ table' = Delete(table, FromPrefix(k))
    /\ announced' = Restrict(announced, DOMAIN announced \ {FromPrefix(k)})

Next ==
    \/ \E k \in Spelled : Refused(k) \/ TableDelete(k)
    \/ \E e \in Entries : TableInsert(e)

-----------------------------------------------------------------------------
Stored(is4) == {at.prefix : at \in {x \in DOMAIN announced : x.is4 = is4}}
Announced(is4, S) == {[prefix |-> p, value |-> announced[[is4 |-> is4, prefix |-> p]]] : p \in S}
Answer(is4, S, a) ==
    IF Matches(S, a) = {} THEN 0 ELSE announced[[is4 |-> is4, prefix |-> LongestMatch(S, a)]]

\* Lookup answers the longest match among what was inserted and not deleted since.
LookupIsAnnounced ==
    \A is4 \in BOOLEAN : \A a \in Addr : Lookup(table, is4, a) = Answer(is4, Stored(is4), a)

\* Once each: a walk yields exactly these routes.
Yields(walk, routes) == Len(walk) = Cardinality(routes) /\ ToSet(walk) = routes

\* Size counts and All yields what was inserted and not deleted since.
ContentIsAnnounced ==
    \A is4 \in BOOLEAN :
        /\ Yields(walkAll(table, rootFor(is4)), Announced(is4, Stored(is4)))
        /\ table.size[is4] = Cardinality(Stored(is4))

Inside(q, p) == q.bits >= p.bits /\ Covers(p, q.key)

\* Supernets, Parent and Subnets yield the covering prefixes from the longest to
\* the shortest, the longest strictly above one, and the ones inside it: what
\* prefixAt reads off the parents is the prefix that was inserted.
WalksAreNested ==
    \A is4 \in BOOLEAN :
        /\ \A a \in Addr :
            LET up == Supernets(table, is4, a)
            IN  /\ Yields(up, Announced(is4, Matches(Stored(is4), a)))
                /\ \A i \in 1 .. Len(up) - 1 : up[i].prefix.bits > up[i + 1].prefix.bits
        /\ \A p \in Prefix :
            LET above == {q \in Stored(is4) : Inside(p, q) /\ q # p}
            IN  /\ Parents(table, is4, p) = Announced(is4, {q \in above : \A r \in above : r.bits <= q.bits})
                /\ Yields(Subnets(table, is4, p), Announced(is4, {q \in Stored(is4) : Inside(q, p)}))

\* Delete unlinks every node that it leaves empty.
NothingIsLeft ==
    \A n \in DOMAIN table.nodes \ {1, 2} : table.nodes[n].pfxBits # {} \/ table.nodes[n].childBits # {}
=============================================================================
