-------------------------- MODULE MCRecoveredTables ------------------------
(***************************************************************************)
(* RecoveredTables over three-bit addresses, an index root of one bit and  *)
(* strides of one bit or two; dirlpm's IPv4 has two levels of blocks.      *)
(***************************************************************************)
EXTENDS RecoveredTables, TLC

CONSTANTS v, w, Zero

Native(key, bits) == [form |-> "native", prefix |-> Masked(key, bits)]
P4(key, bits) == [is4 |-> TRUE, prefix |-> Masked(key, bits)]
P6(key, bits) == [is4 |-> FALSE, prefix |-> Masked(key, bits)]
Announce(route, value) == [prefix |-> route, value |-> value, delete |-> FALSE]
Withdraw(route) == [prefix |-> route, value |-> Zero, delete |-> TRUE]

\* flatlpm: the default route, one that ends on the root and three that end
\* below it, so that strides, leaves and inherited defaults come and go.
MCFlatMutations ==
    {<<Announce(Native(0, 0), w)>>,
     <<Announce(Native(0, 1), v), Announce(Native(1, 3), w)>>,
     <<Announce(Native(2, 3), v), Withdraw(Native(1, 3))>>,
     <<Withdraw(Native(0, 2))>>,
     <<Withdraw(Native(0, 0)), Announce(Native(0, 2), v)>>}
MCFlatCatalogs ==
    {[sp \in {} |-> Zero],
     [sp \in {Native(0, 0), Native(0, 2), Native(1, 3), Native(2, 3)} |-> v]}

\* dirlpm: covering routes and routes below them in both families; payload
\* updates of one family and of both; batches with which IPv4 runs out of slots
\* or blocks.
MCDirMutations ==
    {<<Announce(P4(0, 0), w), Announce(P6(0, 0), w)>>,
     <<Announce(P4(0, 2), v), Withdraw(P6(1, 3))>>,
     <<Announce(P4(1, 3), w), Announce(P6(2, 3), v)>>,
     <<Withdraw(P4(0, 0)), Announce(P4(7, 3), v)>>,
     <<Announce(P4(4, 2), w)>>,
     <<Announce(P6(0, 2), w)>>}
MCDirCatalogs ==
    {[route \in {} |-> Zero],
     [route \in {P4(0, 0), P4(1, 3), P6(0, 0), P6(0, 2), P6(1, 3)} |-> v]}

ASSUME NativeCallsAssumption == NativeOnly

Symmetry == Permutations(Request)
=============================================================================
