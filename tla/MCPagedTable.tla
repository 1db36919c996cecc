---------------------------- MODULE MCPagedTable ----------------------------
(***************************************************************************)
(* PagedTable over one-bit addresses: the default route and its halves.   *)
(***************************************************************************)
EXTENDS PagedTable

CONSTANTS v, w  \* two payloads

Default == Masked(0, 0)
Lower == Masked(0, 1)
Upper == Masked(1, 1)

Announce(p, value) == [prefix |-> p, value |-> value, delete |-> FALSE]
Withdraw(p) == [prefix |-> p, value |-> Zero, delete |-> TRUE]

\* Adding, replacing and removing; removing what may be absent; calls that undo
\* themselves or put back what they remove; and a call with no mutations.
MCMutations ==
    {<<Announce(Default, w)>>, <<Announce(Upper, v)>>, <<Withdraw(Lower)>>,
     <<Announce(Upper, w), Withdraw(Upper)>>,
     <<Withdraw(Lower), Announce(Lower, w)>>,
     <<>>}

\* New with two entries, which is what fibNext admits.
MCCatalogs ==
    {[p \in {} |-> Zero], [p \in {Default, Lower} |-> v]}

\* Submit calls are interchangeable.
Symmetry == Permutations(Request)
=============================================================================
