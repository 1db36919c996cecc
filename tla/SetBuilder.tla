----------------------------- MODULE SetBuilder ----------------------------
(***************************************************************************)
(* The immutable sets and catalogues: callers collect prefixes of both     *)
(* families, and from what they have at any moment each of rangematch,     *)
(* rangeset, soarangeset, thinrangeset, flatset, dirset, orderwalk,        *)
(* flatwalk, fiborderwalk, fibbitwalk and bitwalk may be built, as the     *)
(* repository's equivalence tests do.  A prefix in the IPv4-mapped spelling *)
(* is not among them.                                                      *)
(***************************************************************************)
EXTENDS MemberSets, PreorderWalk

CONSTANTS
    Offered4, Offered6, \* the prefixes that callers collect
    MaxPrefixes         \* bound on their number

\* New refuses what NormalizePrefix does not let through.
ASSUME CollectedAssumption == Offered4 \cup Offered6 \subseteq Prefix

VARIABLES added4, added6

BuilderInit == added4 = {} /\ added6 = {}

\* A caller appends a prefix to the slice that it hands to New.
Collect4(p) ==
    /\ Cardinality(added4 \cup {p}) + Cardinality(added6) <= MaxPrefixes
    /\ added4' = added4 \cup {p}
    /\ UNCHANGED added6
Collect6(p) ==
    /\ Cardinality(added4) + Cardinality(added6 \cup {p}) <= MaxPrefixes
    /\ added6' = added6 \cup {p}
    /\ UNCHANGED added4

BuilderNext == (\E p \in Offered4 : Collect4(p)) \/ (\E p \in Offered6 : Collect6(p))
BuilderSpec == BuilderInit /\ [][BuilderNext]_<<added4, added6>>

Covered(S, a) == Matches(S, a) # {}

-----------------------------------------------------------------------------
(* Range sets. *)

\* Each range set answers for every address whether some prefix covers it,
\* whatever order the sort leaves equal starts in: the merge, the classifier
\* with its threshold, the predecessor search and, for IPv6, the low words that
\* thinrangeset drops never lose or add an address (Match of the four packages).
RangesAreUnion ==
    /\ \A s \in Ascending({RangeOf(p) : p \in added4}), package \in RangePackages :
          LET ranges == merge(4, s)
          IN  \A a \in Addr : Match4(package, ranges, a) <=> Covered(added4, a)
    /\ \A s \in Ascending({RangeOf(p) : p \in added6}), package \in RangePackages :
          LET ranges == merge(6, s)
          IN  \A a \in Addr : Match6(package, ranges, a) <=> Covered(added6, a)

\* "memory tracks the union": between two ranges that a merge keeps lies an
\* address that neither has, in both families, also where a low word ends and
\* the next range starts in the next high word.
RangesAreMinimal ==
    \A fam \in Families :
        \A s \in Ascending({RangeOf(p) : p \in IF fam = 4 THEN added4 ELSE added6}) :
            LET ranges == merge(fam, s)
            IN  \A i \in 1 .. Len(ranges) - 1 : ranges[i].last + 1 < ranges[i + 1].first

-----------------------------------------------------------------------------
(* flatset and dirset. *)

\* An address of a second-level slot that a prefix of its stride covers, with
\* longer prefixes stored below it.
Shadowed(S, a) ==
    /\ MemberKind(S, PathOf(a, RootBits)) = "node"
    /\ MemberKind(S, PathOf(a, RootBits + Stride)) = "one"
    /\ Below(S, PathOf(a, RootBits + Stride)) # {}

\* flatset answers membership exactly, for IPv6 everywhere and for IPv4 outside
\* the slots that Shadowed names: neither the pruning below covered paths, nor
\* the leaves, nor leaving out a family that is covered changes an answer.
FlatSetIsExact ==
    \A a \in Addr :
        /\ FlatSet6(added6, a) <=> Covered(added6, a)
        /\ ~Shadowed(added4, a) => FlatSet4(added4, added6, a) = {Says(Covered(added4, a))}

\* "Contains reports whether any stored prefix covers addr" (flatset).
FlatSetContains ==
    \A a \in Addr : FlatSet4(added4, added6, a) = {Says(Covered(added4, a))}

\* A range that starts inside the last slot of dirset's table and ends before
\* the last address: rounding its start up leaves 32 bits.
WrapsAround(S) ==
    LET x == DirCompile(S)
    IN  \E i \in DOMAIN x.deep :
            /\ x.deep[i].first > MaxAddr - DirSpan + 1
            /\ x.deep[i].last < MaxAddr

\* dirset answers membership exactly in both families unless a range wraps
\* around: painted, deeper and promoted slots agree with the merged ranges.
DirSetIsExact ==
    \A a \in Addr :
        /\ DirSet6(added6, a) <=> Covered(added6, a)
        /\ ~WrapsAround(added4) => (DirSet4(added4, a) <=> Covered(added4, a))

-----------------------------------------------------------------------------
(* The walks. *)

Added(fam) == IF fam = 4 THEN added4 ELSE added6
ByLength(p, q) == p.bits > q.bits
Named(fam, prefixes) == [k \in DOMAIN prefixes |-> [fam |-> fam, prefix |-> prefixes[k]]]
Routes(t, idsSeq) == [k \in DOMAIN idsSeq |-> t.routes[idsSeq[k]]]

\* fibbitwalk gives bitwalk its catalogue, other callers any order.
Lists(t) == {t.routes, Reverse(t.routes)}
Prefixed(yields) == [k \in DOMAIN yields |-> yields[k].prefix]

\* A parent walk visits all prefixes that cover the address and no others, the
\* most specific first, from orderwalk's match, from flatwalk's, from the
\* longest match that fiborderwalk has from compiledfib and back up the path in
\* bitwalk's trie, where a prefix is put together from the address.
ParentsAreMatches ==
    LET t == Catalogue(added4, added6)
    IN  \A fam \in Families :
          LET S == Added(fam)
              ribs == [list \in Lists(t) |-> Trie(list, fam)]
          IN  \A a \in Addr :
                LET covering == Named(fam, SetToSortSeq(Matches(S, a), ByLength))
                IN  /\ Routes(t, ParentsFrom(t, match(t, fam, a))) = covering
                    /\ RouteOf(t, fam, S, LookupSlot(S, a)) = match(t, fam, a)
                    /\ \A list \in Lists(t) :
                          LET yields == TrieParents(ribs[list], a)
                          IN  /\ Remapped(list, yields) = covering
                              /\ Named(fam, Prefixed(yields)) = covering

\* A descendant walk from a stored prefix visits that prefix and every prefix
\* nested in it, once each and in preorder, and ends inside the family; the
\* interval that fiborderwalk stored is the run that the others scan, and the
\* depth-first walk of bitwalk's trie meets the same prefixes in the same order.
\* A prefix that is not stored is not found, whatever covers it.
DescendantsAreNested ==
    LET t == Catalogue(added4, added6)
    IN  \A fam \in Families : \A p \in Offered4 \cup Offered6 :
            LET S == Added(fam)
                id == exact(t, fam, p)
                nested == {q \in S : q.bits >= p.bits /\ Covers(p, q.key)}
                descendants == IF p \in S THEN Named(fam, SetToSortSeq(nested, Before)) ELSE <<>>
            IN  /\ id = RouteOf(t, fam, S, ExactSlot(S, p))
                /\ (id # 0) = (p \in S)
                /\ id # 0 =>
                     /\ Routes(t, Descendants(t, id)) = descendants
                     /\ Interval(t, id) = Descendants(t, id)
                /\ \A list \in Lists(t) :
                     LET yields == TrieDescendants(Trie(list, fam), p)
                     IN  /\ Remapped(list, yields) = descendants
                         /\ Named(fam, Prefixed(yields)) = descendants
=============================================================================
