------------------------------- MODULE ARTLPM -------------------------------
(***************************************************************************)
(* artlpm.Table: a trie of each family, changed in place, and an IPv4      *)
(* front table that any mutation drops.  It leaves locking to the caller,  *)
(* so that every method is one step.  announced is what the calls so far   *)
(* have asked for.                                                         *)
(***************************************************************************)
EXTENDS ARTTrie

CONSTANTS
    Spelled,    \* the prefixes that callers use, as they spell them
    Entries     \* what they insert: a spelled prefix as key, a positive value

VARIABLES table, announced
vars == <<table, announced>>

Init ==
    /\ table = [trie |-> [is4 \in BOOLEAN |-> EmptyTrie], size |-> [is4 \in BOOLEAN |-> 0], front |-> NoFront]
    /\ announced = NoEntries

\* A call with a prefix that FromPrefix refuses returns before it does anything.
Refused(k) == ~Valid(k) /\ UNCHANGED vars

\* (Faulty variant: an insertion that only replaces a value keeps the front table.)
InsertKeepsFront(e) ==
    LET at == FromPrefix(e.key)
        inserted == Insert(table.trie[at.is4], at.prefix, e.value)
    IN  /\ Valid(e.key)
        /\ table' = [trie  |-> [table.trie EXCEPT ![at.is4] = inserted.trie],
                     size  |-> [table.size EXCEPT ![at.is4] = @ + IF inserted.new THEN 1 ELSE 0],
                     front |-> IF inserted.new THEN NoFront ELSE table.front]
        /\ announced' = (at :> e.value) @@ announced

TableInsert(e) ==
    LET at == FromPrefix(e.key)
        inserted == Insert(table.trie[at.is4], at.prefix, e.value)
    IN  /\ Valid(e.key)
        /\ table' = [trie  |-> [table.trie EXCEPT ![at.is4] = inserted.trie],
                     size  |-> [table.size EXCEPT ![at.is4] = @ + IF inserted.new THEN 1 ELSE 0],
                     front |-> NoFront]
        /\ announced' = (at :> e.value) @@ announced

TableDelete(k) ==
    LET at == FromPrefix(k)
        trie == table.trie[at.is4]
    IN  /\ Valid(k)
        /\ table' = [trie  |-> [table.trie EXCEPT ![at.is4] = Delete(trie, at.prefix)],
                     size  |-> [table.size EXCEPT ![at.is4] = @ - IF Get(trie, at.prefix) = 0 THEN 0 ELSE 1],
                     front |-> NoFront]
        /\ announced' = Restrict(announced, DOMAIN announced \ {at})

TableBuildFront ==
    /\ table' = [table EXCEPT !.front = BuildFront(table.trie[TRUE])]
    /\ UNCHANGED announced

Next ==
    \/ \E k \in Spelled : Refused(k) \/ TableDelete(k)
    \/ \E e \in Entries : TableInsert(e)
    \/ TableBuildFront

-----------------------------------------------------------------------------
Lookup(is4, a) ==
    IF is4 THEN lookup4(table.trie[TRUE], table.front, a) ELSE lookup6(table.trie[FALSE], a)

Stored(is4) == {at.prefix : at \in {x \in DOMAIN announced : x.is4 = is4}}
Answer(is4, S, a) ==
    IF Matches(S, a) = {} THEN 0 ELSE announced[[is4 |-> is4, prefix |-> LongestMatch(S, a)]]

\* Lookup answers the longest match among what was inserted and not deleted
\* since, with the value last given, through the front table when there is one;
\* LookupPrefix the same among what is no longer than its argument (lookup4,
\* lookup6, BuildFront, dropFront).
LookupIsAnnounced ==
    \A is4 \in BOOLEAN :
        /\ \A a \in Addr : Lookup(is4, a) = Answer(is4, Stored(is4), a)
        /\ \A q \in Prefix :
            LookupPrefix(table.trie[is4], q) = Answer(is4, {p \in Stored(is4) : p.bits <= q.bits}, q.key)

\* Get, Size and All agree with what was inserted and not deleted since: no leaf
\* is lost when another prefix displaces it (insertAtDepth, Delete).
ContentIsAnnounced ==
    /\ \A k \in {x \in Spelled : Valid(x)} :
        LET at == FromPrefix(k)
        IN  Get(table.trie[at.is4], at.prefix) = Answer(at.is4, {at.prefix} \cap Stored(at.is4), at.prefix.key)
    /\ \A is4 \in BOOLEAN :
        LET yields == walk(table.trie[is4])
        IN  /\ Len(yields) = Cardinality(Stored(is4)) /\ table.size[is4] = Len(yields)
            /\ ToSet(yields) = {[prefix |-> p, value |-> announced[[is4 |-> is4, prefix |-> p]]] : p \in Stored(is4)}

\* Delete leaves no node empty and removes no node that still leads somewhere.
TriesArePruned == \A is4 \in BOOLEAN : WellFormed(table.trie[is4])
=============================================================================
