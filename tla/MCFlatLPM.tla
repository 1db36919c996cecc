----------------------------- MODULE MCFlatLPM ------------------------------
(***************************************************************************)
(* FlatLPM over three-bit addresses, a one-bit root and strides of one bit *)
(* or two.                                                                 *)
(***************************************************************************)
EXTENDS FlatLPM

CONSTANTS v, w, Zero

Native(key, bits) == Spelled("native", Masked(key, bits))
Mapped(key, bits) == Spelled("mapped", Masked(key, bits))
Announce(sp, value) == [prefix |-> sp, value |-> value, delete |-> FALSE]
Withdraw(sp) == [prefix |-> sp, value |-> Zero, delete |-> TRUE]

\* The default route, one that ends on the root and three that end below it,
\* so that strides, leaves and inherited defaults come and go.
NativeMutations ==
    {<<Announce(Native(0, 0), w)>>,
     <<Announce(Native(0, 1), v), Announce(Native(1, 3), w)>>,
     <<Announce(Native(2, 3), v), Withdraw(Native(1, 3))>>,
     <<Withdraw(Native(0, 2))>>,
     <<Withdraw(Native(0, 0)), Announce(Native(0, 2), v)>>}

\* The same prefixes in the other spelling.
MappedMutations ==
    {<<Announce(Native(0, 1), v)>>, <<Withdraw(Mapped(0, 1))>>}

MCCatalogs ==
    {[sp \in {} |-> Zero],
     [sp \in {Native(0, 0), Native(0, 2), Native(1, 3), Native(2, 3)} |-> v]}

Symmetry == Permutations(Request)
=============================================================================
