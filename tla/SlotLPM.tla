------------------------------ MODULE SlotLPM -------------------------------
(***************************************************************************)
(* slotlpm.Table: for each family a sorted slice of keys and a parallel    *)
(* slice of values under a mutex, and the published index and value vector *)
(* behind an atomic pointer.  A route id is a position: IPv4 keys first,   *)
(* then IPv6 keys.  As in StepLPM every method that changes the table is   *)
(* one step, and a prefix that decompose refuses changes nothing.          *)
(* aosart.Table is the same table over another index, which is a parameter.*)
(***************************************************************************)
EXTENDS Naturals, Sequences, SequencesExt

CONSTANTS
    Width4, Width6,             \* bits of the addresses of each family
    Build4(_), Build6(_),       \* the index of some route ids, for each family
    lookup4(_,_), lookup6(_,_), \* the route id that it has for an address, or 0
    Spelled,    \* the prefixes that callers use, as they spell them
    Value,
    Zero,
    Entries,    \* what New and Reset are given
    Batches     \* what ApplyBatch is given

V4 == INSTANCE Prefixes WITH Width <- Width4
V6 == INSTANCE Prefixes WITH Width <- Width6

Family == {"v4", "v6"}

SpelledAssumption ==
    /\ \A k \in Spelled :
          \/ k.as \in {"v4", "mapped"} /\ k.prefix \in V4!Prefix
          \/ k.as = "v6" /\ k.prefix \in V6!Prefix
    /\ Entries \subseteq Seq([key : Spelled, value : Value])
    /\ Batches \subseteq Seq([key : Spelled, value : Value \cup {Zero}, delete : BOOLEAN])

\* decompose: a 4-in-6 prefix is the IPv4 prefix it spells.
decompose(k) == [family |-> IF k.as = "v6" THEN "v6" ELSE "v4", prefix |-> k.prefix]

VARIABLES
    keys,       \* keys4 and keys6
    vals,       \* vals4 and vals6
    current,    \* the snapshot: both indexes and the value vector, from id 1
    announced   \* what the calls so far have asked for, for each family

vars == <<keys, vals, current, announced>>

-----------------------------------------------------------------------------
\* sort.Search: the first position whose key is not before p.
Search(ks, p) ==
    LET reached == {i \in DOMAIN ks : ~V4!Before(ks[i], p)}
    IN  IF reached = {} THEN Len(ks) + 1 ELSE CHOOSE i \in reached : \A j \in reached : i <= j
Found(ks, p) == Search(ks, p) <= Len(ks) /\ ks[Search(ks, p)] = p

\* rebuild: the ids are the positions.
Ids(ks, before) == [p \in Range(ks) |-> before + Search(ks, p)]
rebuild ==
    current' = [v4     |-> Build4(Ids(keys'["v4"], 0)),
                v6     |-> Build6(Ids(keys'["v6"], Len(keys'["v4"]))),
                values |-> vals'["v4"] \o vals'["v6"]]

\* Reset: a stable sort, and of equal keys the last value.
Sorted(S) == [i \in 1 .. Cardinality(S) |-> CHOOSE p \in S : V4!Rank(S, p) = i]
LastOf(entries, at) ==
    entries[Max({i \in DOMAIN entries : decompose(entries[i].key) = at})].value
Reset(entries) ==
    LET given(f) == {k.prefix : k \in {d \in {decompose(e.key) : e \in Range(entries)} : d.family = f}}
        last(f, p) == LastOf(entries, [family |-> f, prefix |-> p])
    IN  /\ keys' = [f \in Family |-> Sorted(given(f))]
        /\ vals' = [f \in Family |-> [i \in 1 .. Cardinality(given(f)) |-> last(f, Sorted(given(f))[i])]]
        /\ announced' = [f \in Family |-> [p \in given(f) |-> last(f, p)]]
        /\ rebuild

Without(f, x) == [y \in DOMAIN f \ {x} |-> f[y]]

Delete(k) ==
    LET d == decompose(k)
        at == Search(keys[d.family], d.prefix)
    IN  /\ Found(keys[d.family], d.prefix)
        /\ keys' = [keys EXCEPT ![d.family] = RemoveAt(@, at)]
        /\ vals' = [vals EXCEPT ![d.family] = RemoveAt(@, at)]
        /\ announced' = [announced EXCEPT ![d.family] = Without(@, d.prefix)]
        /\ rebuild

\* apply: one change of a structural batch, searched again because the changes
\* before it may have moved the place.
apply(table, m) ==
    LET d == decompose(m.key)
        ks == table.keys[d.family]
        at == Search(ks, d.prefix)
        exists == Found(ks, d.prefix)
    IN  IF m.delete
        THEN IF exists THEN [keys |-> [table.keys EXCEPT ![d.family] = RemoveAt(@, at)],
                             vals |-> [table.vals EXCEPT ![d.family] = RemoveAt(@, at)]]
             ELSE table
        ELSE IF exists THEN [table EXCEPT !.vals[d.family][at] = m.value]
        ELSE [keys |-> [table.keys EXCEPT ![d.family] = InsertAt(@, at, d.prefix)],
              vals |-> [table.vals EXCEPT ![d.family] = InsertAt(@, at, m.value)]]

\* A change of the value-only loop, at the place found before the batch.
\* (Faulty variant: IPv6 ids are not offset by the IPv4 keys.)
PatchIdUnshifted(d, at) == at

PatchId(d, at) == IF d.family = "v4" THEN at ELSE Len(keys["v4"]) + at
Patch(state, m) ==
    LET d == decompose(m.key)
        at == Search(keys[d.family], d.prefix)
    IN  IF ~Found(keys[d.family], d.prefix) THEN state
        ELSE [vals   |-> [state.vals EXCEPT ![d.family][at] = m.value],
              values |-> [state.values EXCEPT ![PatchId(d, at)] = m.value]]

structural(ms) ==
    \E i \in DOMAIN ms :
        LET d == decompose(ms[i].key) IN Found(keys[d.family], d.prefix) = ms[i].delete

Announce(wanted, m) ==
    LET d == decompose(m.key)
    IN  [wanted EXCEPT ![d.family] =
            IF m.delete THEN Without(@, d.prefix)
            ELSE [p \in DOMAIN @ \cup {d.prefix} |-> IF p = d.prefix THEN m.value ELSE @[p]]]

ApplyBatch(ms) ==
    /\ announced' = FoldLeft(Announce, announced, ms)
    /\ IF structural(ms)
       THEN LET table == FoldLeft(apply, [keys |-> keys, vals |-> vals], ms)
            IN  keys' = table.keys /\ vals' = table.vals /\ rebuild
       ELSE LET patched == FoldLeft(Patch, [vals |-> vals, values |-> current.values], ms)
            IN  /\ keys' = keys
                /\ vals' = patched.vals
                /\ current' = [current EXCEPT !.values = patched.values]

Insert(k, v) == ApplyBatch(<<[key |-> k, value |-> v, delete |-> FALSE]>>)

Nothing == [p \in {} |-> Zero]
Init ==
    /\ keys = [f \in Family |-> <<>>]
    /\ vals = [f \in Family |-> <<>>]
    /\ current = [v4 |-> Build4(Nothing), v6 |-> Build6(Nothing), values |-> <<>>]
    /\ announced = [f \in Family |-> Nothing]

Next ==
    \/ \E entries \in Entries : Reset(entries)
    \/ \E k \in Spelled, v \in Value : Insert(k, v)
    \/ \E k \in Spelled : Delete(k)
    \/ \E ms \in Batches : ApplyBatch(ms)

Spec == Init /\ [][Next]_vars

Lookup(f, a) ==
    LET id == IF f = "v4" THEN lookup4(current.v4, a) ELSE lookup6(current.v6, a)
    IN  IF id = 0 THEN {} ELSE {current.values[id]}

-----------------------------------------------------------------------------
\* "Lookup returns the value of the longest prefix covering addr" in the
\* address's family, among the prefixes inserted and not deleted since under
\* either spelling, with the value last given to them: positions, ids and the
\* value vector stay together through splices and value-only batches.
LookupIsAnnounced ==
    LET S4 == DOMAIN announced["v4"]
        S6 == DOMAIN announced["v6"]
    IN  /\ \A a \in V4!Addr :
              Lookup("v4", a) = IF V4!Matches(S4, a) = {} THEN {}
                                ELSE {announced["v4"][V4!LongestMatch(S4, a)]}
        /\ \A a \in V6!Addr :
              Lookup("v6", a) = IF V6!Matches(S6, a) = {} THEN {}
                                ELSE {announced["v6"][V6!LongestMatch(S6, a)]}

=============================================================================
