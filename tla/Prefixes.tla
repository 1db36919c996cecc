------------------------------ MODULE Prefixes ------------------------------
(***************************************************************************)
(* Addresses and normalised prefixes of a family whose addresses have      *)
(* Width bits, and the reference definitions that every table of the       *)
(* repository is compared with: which prefixes cover an address, and which *)
(* of them is the longest match.                                           *)
(***************************************************************************)
EXTENDS Naturals, FiniteSets

CONSTANT Width      \* 32 or 128 in the code, a few bits in a model
ASSUME WidthAssumption == Width \in Nat

\* The powers of two, as a function that proofs can use.
Pow2[n \in Nat] == IF n = 0 THEN 1 ELSE 2 * Pow2[n - 1]

Addr == 0 .. Pow2[Width] - 1
MaxAddr == Pow2[Width] - 1

\* The span of a prefix of the given length.
Span(bits) == Pow2[Width - bits]

\* prefixentry.NormalizePrefix leaves the host bits zero (Masked).
Masked(key, bits) == [key |-> key - (key % Span(bits)), bits |-> bits]

Prefix == {Masked(key, bits) : key \in Addr, bits \in 0 .. Width}

LowAddr(p) == p.key
HighAddr(p) == p.key + Span(p.bits) - 1
Covers(p, a) == a \in LowAddr(p) .. HighAddr(p)

\* The closed range of a prefix, as the tables that merge ranges keep it.
RangeOf(p) == [first |-> LowAddr(p), last |-> HighAddr(p)]

\* Order of sort.Slice in the buildGeneration functions: address, then length.
Before(p, q) == p.key < q.key \/ (p.key = q.key /\ p.bits < q.bits)

\* The position, from 1, of p among the prefixes S in that order.
Rank(S, p) == Cardinality({q \in S : Before(q, p)}) + 1

\* The longest of the prefixes S that cover a; there is one.
Matches(S, a) == {p \in S : Covers(p, a)}
LongestMatch(S, a) ==
    CHOOSE p \in Matches(S, a) : \A q \in Matches(S, a) : q.bits <= p.bits
=============================================================================
