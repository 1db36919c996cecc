---------------------------- MODULE MCSetBuilder ---------------------------
(***************************************************************************)
(* SetBuilder over six-bit addresses: a root table of four slots, strides  *)
(* of two bits, words of three bits, a classifier of eight slots and       *)
(* dirset's table of sixteen.                                              *)
(***************************************************************************)
EXTENDS SetBuilder

\* For IPv4: nested prefixes at every octet of address zero, two halves of a
\* slot of dirset's table, and ranges in its last slot.
MCOffered4 ==
    {Masked(0, bits) : bits \in {0, 2, 3, 4, 5}}
        \cup {Masked(2, 5), Masked(4, 4), Masked(16, 2), Masked(60, 4), Masked(62, 6)}

\* For IPv6: nested ones, neighbours that meet where a high word ends, and
\* whole high words.
MCOffered6 ==
    {Masked(0, bits) : bits \in {1, 4, 6}}
        \cup {Masked(4, 4), Masked(8, 3), Masked(32, 1)}
=============================================================================
