------------------------------ MODULE StepLPM -------------------------------
(***************************************************************************)
(* steplpm.Table: a map of routes under a mutex, and the published index   *)
(* and value vector behind an atomic pointer.  Every method that changes   *)
(* the table holds the mutex throughout and publishes with one Store, so   *)
(* it is one step; Lookup loads the pointer once and reads what is         *)
(* immutable from then on.  soaart.Table is the same table over another    *)
(* index; package says which of the two a behaviour is of.                 *)
(*                                                                         *)
(* The map's keys are prefixes as canonical leaves them: in steplpm an     *)
(* IPv4 prefix and its 4-in-6 form are different keys, which Builder.Add   *)
(* gives one id, and in soaart they are one key.  A prefix that canonical  *)
(* refuses makes a method return before it changes anything.               *)
(***************************************************************************)
EXTENDS Prefixes, SequencesExt

CONSTANTS
    StepBuild(_,_),     \* the index that a package makes of some route ids
    StepLookup(_,_,_),  \* the route id that an index of it has for an address, or 0
    StepKey,            \* for each package the canonical prefixes that callers use
    Value,
    Zero,               \* the zero value of V
    StepEntries,        \* what New and Reset are given: sequences of entries
    StepBatches         \* what ApplyBatch is given: sequences of mutations

StepPackages == {"steplpm", "soaart"}

ASSUME KeyAssumption ==
    \A table \in StepPackages :
        /\ StepKey[table] \subseteq [prefix : Prefix, as : {"native", "mapped"}]
        /\ StepEntries[table] \subseteq Seq([key : StepKey[table], value : Value])
        /\ StepBatches[table] \subseteq
              Seq([key : StepKey[table], value : Value \cup {Zero}, delete : BOOLEAN])

VARIABLES
    package,        \* whose table it is
    stepRoutes,     \* the map: a value and the id the published index assigned
    stepCurrent,    \* the snapshot: index and value vector, values[0] unused
    stepAnnounced   \* what the calls so far have asked for: a value for each prefix

stepVars == <<package, stepRoutes, stepCurrent, stepAnnounced>>

\* Builder.Add numbers the prefixes in the order in which the range over the
\* map meets them, which is any order; the second range writes the values, and
\* of two keys with one id the later one stays.
Numberings(S) ==
    {ids \in [S -> 1 .. Cardinality(S)] : \A p, q \in S : ids[p] = ids[q] => p = q}

rebuild(table) ==
    LET S == {k.prefix : k \in DOMAIN table}
        Later == {later \in [S -> DOMAIN table] : \A p \in S : later[p].prefix = p}
    IN  \E ids \in Numberings(S) :
            LET index == StepBuild(package, ids)
                Values(later) ==
                    [id \in 0 .. Cardinality(S) |->
                        IF id = 0 THEN Zero
                        ELSE table[later[CHOOSE p \in S : ids[p] = id]].value]
            IN  /\ stepRoutes' = [k \in DOMAIN table |->
                                     [value |-> table[k].value, id |-> ids[k.prefix]]]
                /\ \E later \in Later :
                       stepCurrent' = [index |-> index, values |-> Values(later)]

Without(f, x) == [y \in DOMAIN f \ {x} |-> f[y]]
With(f, x, v) == [y \in DOMAIN f \cup {x} |-> IF y = x THEN v ELSE f[y]]

\* A fresh entry of the map has no id until the rebuild.
Store(table, m) == With(table, m.key, [value |-> m.value, id |-> 0])
ApplyTo(table, m) == IF m.delete THEN Without(table, m.key) ELSE Store(table, m)
Announce(wanted, m) ==
    IF m.delete THEN Without(wanted, m.key.prefix) ELSE With(wanted, m.key.prefix, m.value)

Empty == [x \in {} |-> Zero]

\* Reset stores the entries in a fresh map, one after the other.
Change(k, v) == [key |-> k, value |-> v, delete |-> FALSE]
StepReset(entries) ==
    LET ms == [i \in DOMAIN entries |-> Change(entries[i].key, entries[i].value)]
    IN  /\ rebuild(FoldLeft(ApplyTo, Empty, ms))
        /\ stepAnnounced' = FoldLeft(Announce, Empty, ms)

\* New on an empty list.
StepInit ==
    /\ stepRoutes = Empty
    /\ stepCurrent = [index |-> StepBuild(package, Empty), values |-> [id \in {0} |-> Zero]]
    /\ stepAnnounced = Empty

StepDelete(k) ==
    /\ k \in DOMAIN stepRoutes
    /\ rebuild(Without(stepRoutes, k))
    /\ stepAnnounced' = Without(stepAnnounced, k.prefix)

\* (Faulty variant: only a new key is structural.)
structuralByInsert(ms) == \E i \in DOMAIN ms : ms[i].key \notin DOMAIN stepRoutes /\ ~ms[i].delete

\* A batch is structural when one of its mutations, against the map before the
\* batch, adds a key or removes one.
structural(ms) == \E i \in DOMAIN ms : (ms[i].key \in DOMAIN stepRoutes) = ms[i].delete

\* (Faulty variant: the value vector is not written.)
PatchMapOnly(state, m) ==
    LET existing == IF m.key \in DOMAIN state.routes THEN state.routes[m.key]
                    ELSE [value |-> Zero, id |-> 0]
    IN  [routes |-> With(state.routes, m.key, [existing EXCEPT !.value = m.value]),
         values |-> state.values]

\* The value-only loop, for every mutation: read the map's entry, the zero
\* entry when there is none, and write its value in the map and in its slot.
Patch(state, m) ==
    LET existing == IF m.key \in DOMAIN state.routes THEN state.routes[m.key]
                    ELSE [value |-> Zero, id |-> 0]
    IN  [routes |-> With(state.routes, m.key, [existing EXCEPT !.value = m.value]),
         values |-> [state.values EXCEPT ![existing.id] = m.value]]

StepApplyBatch(ms) ==
    /\ stepAnnounced' = FoldLeft(Announce, stepAnnounced, ms)
    /\ IF structural(ms)
       THEN rebuild(FoldLeft(ApplyTo, stepRoutes, ms))
       ELSE LET patched == FoldLeft(Patch, [routes |-> stepRoutes, values |-> stepCurrent.values], ms)
            IN  /\ stepRoutes' = patched.routes
                /\ stepCurrent' = [stepCurrent EXCEPT !.values = patched.values]

StepInsert(k, v) == StepApplyBatch(<<Change(k, v)>>)

StepNext ==
    /\ \/ \E entries \in StepEntries[package] : StepReset(entries)
       \/ \E k \in StepKey[package], v \in Value : StepInsert(k, v)
       \/ \E k \in StepKey[package] : StepDelete(k)
       \/ \E ms \in StepBatches[package] : StepApplyBatch(ms)
    /\ package' = package

StepSpec == package \in StepPackages /\ StepInit /\ [][StepNext]_stepVars

Lookup(a) ==
    LET id == StepLookup(package, stepCurrent.index, a)
    IN  IF id = 0 THEN {} ELSE {stepCurrent.values[id]}

-----------------------------------------------------------------------------
\* "Lookup returns the value of the longest prefix covering addr", among the
\* prefixes that were inserted and not deleted since, with the value last given
\* to them: the ids that the map remembers stay those of the published index
\* whatever order the map is walked in.
StepLookupIsAnnounced ==
    \A a \in Addr :
        Lookup(a) = IF Matches(DOMAIN stepAnnounced, a) = {} THEN {}
                    ELSE {stepAnnounced[LongestMatch(DOMAIN stepAnnounced, a)]}

\* "Size returns the number of stored prefixes": the map holds one entry for
\* each prefix that was inserted and not deleted since, and no other.
StepSizeIsAnnounced == Cardinality(DOMAIN stepRoutes) = Cardinality(DOMAIN stepAnnounced)
=============================================================================
