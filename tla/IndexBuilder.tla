---------------------------- MODULE IndexBuilder ----------------------------
(***************************************************************************)
(* The builders of the LPM indexes, for one family: callers add prefixes   *)
(* in any order, each new prefix gets the next route id, and after any     *)
(* number of additions the indexes of flatart, steplpm, slotlpm, blocklpm, *)
(* soaart, aosart, bitlpm, bitwalk, bitfrontlpm and lenlpm may be compiled *)
(* from the same prefixes, as the repository's equivalence tests do.       *)
(***************************************************************************)
EXTENDS FlatART, StepIndex, BlockLPM, BitTrie

CONSTANTS
    Offered,    \* the prefixes that callers add
    MaxRoutes   \* bound on their number
ASSUME OfferedAssumption == Offered \subseteq Prefix

VARIABLE ids    \* the route id of each added prefix

BuilderInit == ids = [p \in {} |-> 0]

\* Add returns the id of a prefix it has seen, and otherwise the next one.
Add(p) ==
    /\ Cardinality(DOMAIN ids \cup {p}) <= MaxRoutes
    /\ ids' = [q \in DOMAIN ids \cup {p} |->
                  IF q \in DOMAIN ids THEN ids[q] ELSE Cardinality(DOMAIN ids) + 1]

BuilderNext == \E p \in Offered : Add(p)
BuilderSpec == BuilderInit /\ [][BuilderNext]_ids

stored == DOMAIN ids
Winner(a) == IF Matches(stored, a) = {} THEN 0 ELSE ids[LongestMatch(stored, a)]

-----------------------------------------------------------------------------
(* flatart. *)

\* Lookup ends, for every address, at a slot that Build filled with the value
\* of the longest inserted prefix covering the address, and at no slot when no
\* prefix covers it: path compression, inherited defaults and the painted root
\* never let a shorter route or a stranger answer (Lookup4, Lookup6, flatten).
IndexIsLongestMatch ==
    \A a \in Addr :
        LET slot == LookupSlot(stored, a)
        IN  IF Matches(stored, a) = {} THEN slot = NoSlot
            ELSE /\ slot \in Slots(stored)
                 /\ RefOf(stored, slot) = LongestMatch(stored, a)

-----------------------------------------------------------------------------
(* steplpm and slotlpm. *)

\* "Lookup returns the route id of the longest prefix covering addr, or 0".
LookupIsLongestMatch ==
    LET x == Build(ids)
    IN  \A a \in Addr : lookup(x, a) = Winner(a)

\* An address is in reach of its slot's second cut when it has the octets that
\* the cut skipped, those between the window and the cut, in common with the
\* slot's steps.
InReach(x, a) ==
    LET slot == x.level1[High(a) \div Pow2[x.shift]]
        step == x.steps[slot.off + 1].bound
    IN  \/ x.level1 = <<>>
        \/ slot.subShift = NoCut
        \/ High(a) \div Pow2[slot.subShift + OctetBits] = High(step) \div Pow2[slot.subShift + OctetBits]

\* Lookup is the longest match for every address in reach: slots without a
\* cut, cuts on the octet next to the window and, in deeper cuts, the
\* addresses that agree with the steps in the octets skipped.
LookupInReach ==
    LET x == Build(ids)
    IN  \A a \in Addr : InReach(x, a) => lookup(x, a) = Winner(a)

\* slotlpm's layout, with its inline ranges, its dense records and its words in
\* arrays of their own, answers every address as steplpm's does.
LayoutsAgree ==
    LET x == Build(ids)
        y == SlotBuild(ids)
    IN  \A a \in Addr : SlotLookup(y, a) = lookup(x, a)

-----------------------------------------------------------------------------
(* blocklpm. *)

\* Both of blocklpm's compilers push the winner of every address to the slot
\* where its lookup ends, whatever order the blocks are made in: this is what
\* compiledfib relies on.
BlocksAreLongestMatch ==
    LET x4 == compile4(BlockEntries(ids))
        x6 == compile6(BlockEntries(ids))
    IN  \A a \in Addr : lookup4(x4, a) = Winner(a) /\ lookup6(x6, a) = Winner(a)

-----------------------------------------------------------------------------
(* soaart and aosart. *)
Compiled == INSTANCE CompiledART

\* One trie answers everything: lookup with the longest match, exact with the
\* id of a prefix or none, walkSupernets with the matches of an address, the
\* longest first, and walkSubnets, for a prefix that was added, with it and
\* then each prefix inside it once.  Fringes and leaves that were split on the
\* way are found where they have gone, whatever came first.
CompiledTriesAreExact ==
    LET tree == Compiled!buildTree(ids)
        Yielded(S) == {[prefix |-> p, id |-> ids[p]] : p \in S}
        Visits(walk, S) == ToSet(walk) = Yielded(S) /\ Len(walk) = Cardinality(S)
    IN  /\ \A a \in Addr :
            LET up == Compiled!walkSupernets(tree, a)
            IN  /\ Compiled!lookup(tree, a) = Winner(a)
                /\ Visits(up, Matches(stored, a))
                /\ \A i \in 1 .. Len(up) - 1 : up[i].prefix.bits > up[i + 1].prefix.bits
        /\ \A p \in Offered : Compiled!exact(tree, p) = IF p \in stored THEN ids[p] ELSE 0
        /\ \A p \in stored :
            LET down == Compiled!walkSubnets(tree, p)
            IN  Visits(down, {q \in stored : q.bits >= p.bits /\ Covers(p, q.key)}) /\ down[1].prefix = p

-----------------------------------------------------------------------------
(* The archived tables over tries and rows. *)

\* The list that a caller hands to New: the prefixes in the order of their
\* addition, the first one once more at the end with another payload.
Listed ==
    LET order == [k \in 1 .. Cardinality(stored) |-> [fam |-> 4, prefix |-> CHOOSE p \in stored : ids[p] = k]]
    IN  IF order = <<>> THEN <<>> ELSE Append(order, order[1])

\* The entry that must answer: of those of the longest match the last one.
LastListed(a) ==
    IF Matches(stored, a) = {} THEN 0
    ELSE LET id == Winner(a) IN IF id = 1 THEN Cardinality(stored) + 1 ELSE id

\* bitlpm, bitwalk, bitfrontlpm and lenlpm answer with the entry that was
\* listed last for the longest prefix covering the address: a trie node and a
\* row keep the later entry whatever the sort did, and a front slot keeps what
\* its path passed, also where the path ends above the slot.
TriesAreLongestMatch ==
    LET listed == Listed
        arena == Trie(listed, 4)
    IN  /\ \A front \in {FrontTable(arena)} : \A a \in Addr :
              /\ BitLookup(arena, a) = LastListed(a)
              /\ FrontLookup(arena, front, a) = LastListed(a)
        /\ \A rows \in {LenRows(listed, 4, laterFirst) : laterFirst \in BOOLEAN} :
              \A a \in Addr : LenLookup(rows, a) = LastListed(a)
=============================================================================
