------------------------------ MODULE Versioned ----------------------------
(***************************************************************************)
(* versioned.Table: generations of an artlpm table (the FIB), of an artwalk*)
(* table (the RIB), or of both, built off to the side and published by one *)
(* store.  Update holds a mutex from the load of the current generation to *)
(* the store of the next; the function it is given stages changes in a     *)
(* Writer, one call after the other, and may panic, which leaves the table *)
(* as it was and unlocks the mutex.                                        *)
(*                                                                         *)
(* announced is what the updates that were published have asked for.       *)
(***************************************************************************)
EXTENDS ARTKeys

CONSTANTS
    Callers,            \* goroutines that update
    Modes,              \* which of ModeFIB, ModeRIB and ModeHybrid are run
    Spelled, Entries,   \* prefixes that callers use, and what they insert
    MaxStaged           \* calls of one update

VARIABLES mode, cur, mutex, writer, announced
vars == <<mode, cur, mutex, writer, announced>>

Fib == INSTANCE ARTTrie
Rib == INSTANCE WalkTrie

Nobody == "nobody"
HasFib == mode \in {"FIB", "Hybrid"}
HasRib == mode \in {"RIB", "Hybrid"}
Nothing == "nil"

\* The zero netip.Prefix, which marks a deleted entry and which a caller may
\* stage as well.
ZeroPrefix == [prefix |-> Root, as |-> "none"]

\* Masked drops the form of a 4-in-6 prefix that is shorter than 96 bits, and
\* keeps the form of a longer one.
MaskedKey(k) == IF k.as = "short" THEN [k EXCEPT !.as = "v6"] ELSE k
Native(at) == [prefix |-> at.prefix, as |-> IF at.is4 THEN "v4" ELSE "v6"]

-----------------------------------------------------------------------------
\* build: every index of the mode, from the entries in their order.
buildFib(entries) ==
    LET Put(trie, e) == [trie EXCEPT ![FromPrefix(e.pfx).is4] =
                            Fib!Insert(@, FromPrefix(e.pfx).prefix, e.val).trie]
        trie == FoldLeft(Put, [is4 \in BOOLEAN |-> Fib!EmptyTrie], entries)
    IN  [trie |-> trie, front |-> Fib!BuildFront(trie[TRUE])]
buildRib(entries) ==
    FoldLeft(LAMBDA x, e : Rib!Insert(x, FromPrefix(e.pfx), e.val), Rib!EmptyTable, entries)
build(entries) ==
    [n |-> Len(entries),
     fib |-> IF HasFib THEN buildFib(entries) ELSE Nothing,
     rib |-> IF HasRib THEN buildRib(entries) ELSE Nothing]

\* All of a generation, of one family.
FibAll(g, is4) == Fib!walk(g.fib.trie[is4])
RibAll(g, is4) == Rib!walkAll(g.rib, Rib!rootFor(is4))
All(g, is4) == IF HasFib THEN FibAll(g, is4) ELSE RibAll(g, is4)

-----------------------------------------------------------------------------
\* Writer.
Idle == [entries |-> <<>>, index |-> NoEntries, staged |-> <<>>]
Collected(g) ==
    LET Of(is4) == [i \in DOMAIN All(g, is4) |->
                       [pfx |-> Native([is4 |-> is4, prefix |-> All(g, is4)[i].prefix]), val |-> All(g, is4)[i].value]]
        entries == Of(TRUE) \o Of(FALSE)
    IN  [entries |-> entries,
         index |-> [pfx \in {entries[i].pfx : i \in DOMAIN entries} |->
                       CHOOSE i \in DOMAIN entries : entries[i].pfx = pfx],
         staged |-> <<>>]

Insert(w, k, val) ==
    LET pfx == MaskedKey(k)
    IN  IF pfx \in DOMAIN w.index THEN [w EXCEPT !.entries[w.index[pfx]].val = val]
        ELSE [w EXCEPT !.index = (pfx :> Len(w.entries) + 1) @@ @,
                       !.entries = Append(@, [pfx |-> pfx, val |-> val])]

Delete(w, k) ==
    LET pfx == MaskedKey(k)
    IN  IF pfx \notin DOMAIN w.index THEN w
        ELSE [w EXCEPT !.entries[w.index[pfx]].pfx = ZeroPrefix, !.index = Restrict(@, DOMAIN @ \ {pfx})]

\* The changes of one update, applied to what is announced.
Applied(routes, change) ==
    LET at == FromPrefix(MaskedKey(change.key))
    IN  IF change.key = ZeroPrefix THEN routes
        ELSE IF change.delete THEN Restrict(routes, DOMAIN routes \ {at}) ELSE (at :> change.value) @@ routes

-----------------------------------------------------------------------------
Init ==
    /\ mode \in Modes
    /\ cur = build(<<>>)
    /\ mutex = Nobody
    /\ writer = [c \in Callers |-> Idle]
    /\ announced = NoEntries

\* Update: lock, load, collect.
UpdateLock(c) ==
    /\ mutex = Nobody
    /\ mutex' = c
    /\ writer' = [writer EXCEPT ![c] = Collected(cur)]
    /\ UNCHANGED <<mode, cur, announced>>

Staging(c) == mutex = c /\ Len(writer[c].staged) < MaxStaged
StageInsert(c, e) ==
    /\ Staging(c)
    /\ writer' = [writer EXCEPT ![c] =
                     [Insert(@, e.key, e.value) EXCEPT
                         !.staged = Append(@, [key |-> e.key, delete |-> FALSE, value |-> e.value])]]
    /\ UNCHANGED <<mode, cur, mutex, announced>>
StageDelete(c, k) ==
    /\ Staging(c)
    /\ writer' = [writer EXCEPT ![c] =
                     [Delete(@, k) EXCEPT !.staged = Append(@, [key |-> k, delete |-> TRUE])]]
    /\ UNCHANGED <<mode, cur, mutex, announced>>

\* The end of Update: tombstones go, the rest is built and stored.
UpdatePublish(c) ==
    /\ mutex = c
    /\ cur' = build(SelectSeq(writer[c].entries, LAMBDA e : e.pfx # ZeroPrefix))
    /\ announced' = FoldLeft(Applied, announced, writer[c].staged)
    /\ mutex' = Nobody
    /\ writer' = [writer EXCEPT ![c] = Idle]
    /\ UNCHANGED mode

\* The function panics: only the deferred Unlock runs.
UpdatePanic(c) ==
    /\ mutex = c
    /\ mutex' = Nobody
    /\ writer' = [writer EXCEPT ![c] = Idle]
    /\ UNCHANGED <<mode, cur, announced>>

Next ==
    \E c \in Callers :
        \/ UpdateLock(c) \/ UpdatePublish(c) \/ UpdatePanic(c)
        \/ \E e \in Entries : StageInsert(c, e)
        \/ \E k \in Spelled : StageDelete(c, k)

-----------------------------------------------------------------------------
Stored(is4) == {at.prefix : at \in {x \in DOMAIN announced : x.is4 = is4}}
Announced(is4, S) == {[prefix |-> p, value |-> announced[[is4 |-> is4, prefix |-> p]]] : p \in S}
Answer(is4, S, a) ==
    IF Matches(S, a) = {} THEN 0 ELSE announced[[is4 |-> is4, prefix |-> LongestMatch(S, a)]]

\* Lookup takes the FIB if there is one.
Lookup(g, is4, a) ==
    IF ~HasFib THEN Rib!Lookup(g.rib, is4, a)
    ELSE IF is4 THEN Fib!lookup4(g.fib.trie[TRUE], g.fib.front, a)
    ELSE Fib!lookup6(g.fib.trie[FALSE], a)

\* The current generation answers the longest match among what the published
\* updates have inserted and not deleted since, whichever goroutines they ran
\* in: none is lost, none shows before it is published, and one that panics
\* never does (Update, Writer.Insert, Writer.Delete).
LookupIsAnnounced ==
    \A is4 \in BOOLEAN : \A a \in Addr : Lookup(cur, is4, a) = Answer(is4, Stored(is4), a)

\* Size, and All of every index of the generation, agree with the same: FIB and
\* RIB are built from one list of entries, and deletions leave no entry there.
Size(g) == g.n
ContentIsAnnounced ==
    /\ Size(cur) = Cardinality(DOMAIN announced)
    /\ \A is4 \in BOOLEAN :
        /\ HasFib => ToSet(FibAll(cur, is4)) = Announced(is4, Stored(is4))
        /\ HasRib => ToSet(RibAll(cur, is4)) = Announced(is4, Stored(is4))
=============================================================================
