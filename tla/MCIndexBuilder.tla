--------------------------- MODULE MCIndexBuilder ---------------------------
(***************************************************************************)
(* IndexBuilder over six-bit addresses.  flatart, blocklpm, soaart and     *)
(* aosart cut them in three octets of two bits; steplpm and slotlpm have a *)
(* low word of one bit, windows of one and three bits and octets of two.   *)
(***************************************************************************)
EXTENDS IndexBuilder

\* Prefixes of every length that start with address zero, neighbours of them
\* at each octet, and prefixes that end with the address space.
MCOffered ==
    {Masked(0, bits) : bits \in {0, 1, 2, 4, 6}}
        \cup {Masked(1, 6), Masked(2, 5), Masked(4, 4)}
        \cup {Masked(32, 1), Masked(60, 4), Masked(63, 6)}
=============================================================================
