--------------------------- MODULE MCLockedTables --------------------------
(***************************************************************************)
(* What callers of the tables of LockedTables use.                         *)
(***************************************************************************)
EXTENDS LockedTables

Bits3 == INSTANCE Prefixes WITH Width <- 3
Bits4 == INSTANCE Prefixes WITH Width <- 4
Bits6 == INSTANCE Prefixes WITH Width <- 6

Announcing(p) == [prefix |-> p, delete |-> FALSE]
Withdrawing(p) == [prefix |-> p, delete |-> TRUE]
Entry(k, v) == [key |-> k, value |-> v]
Yank(k) == [key |-> k, value |-> Zero, delete |-> TRUE]

-----------------------------------------------------------------------------
\* parityset: the default route, one half, and prefixes that touch, nest and end
\* with the address space.
MCOffered ==
    {Bits4!Masked(0, 0), Bits4!Masked(0, 1), Bits4!Masked(4, 2), Bits4!Masked(12, 2),
     Bits4!Masked(6, 3), Bits4!Masked(4, 4), Bits4!Masked(8, 2), Bits4!Masked(15, 4)}

\* Batches of two, and batches that fail before they store anything.
MCParityBatches ==
    {<<Withdrawing(p), Announcing(q)>> : p, q \in MCOffered}
        \cup {<<Announcing(p), Withdrawing(q)>> : p, q \in MCOffered}
        \cup {<<Bad, Withdrawing(p)>> : p \in MCOffered}

-----------------------------------------------------------------------------
\* Addresses have four bits.  steplpm's windows have one and two, without a second
\* cut; soaart's trie has two strides.
StepCut == INSTANCE StepIndex WITH
    LowBits <- 0, NarrowBits <- 1, WideBits <- 2, OctetBits <- 1,
    minSeparatedSlots <- 3, subThreshold <- 9
MCStepBuild(table, ids) == IF table = "soaart" THEN Art4!buildTree(ids) ELSE StepCut!Build(ids)
MCStepLookup(table, index, a) ==
    IF table = "soaart" THEN Art4!lookup(index, a) ELSE StepCut!lookup(index, a)

\* steplpm: nested prefixes that start together, in their native spelling.
\* soaart: the same, where a whole stride, its halves and one below it meet.
Native(p) == [prefix |-> p, as |-> "native"]
MCStepKey ==
    [steplpm |-> {Native(Bits4!Masked(0, 0)), Native(Bits4!Masked(8, 1)),
                  Native(Bits4!Masked(8, 2)), Native(Bits4!Masked(14, 3))},
     soaart  |-> {Native(Bits4!Masked(0, 0)), Native(Bits4!Masked(12, 2)),
                  Native(Bits4!Masked(12, 3)), Native(Bits4!Masked(15, 4))}]
First == [steplpm |-> Native(Bits4!Masked(8, 1)), soaart |-> Native(Bits4!Masked(12, 2))]
MCStepEntries ==
    [table \in {"steplpm", "soaart"} |-> {<<Entry(First[table], 1), Entry(k, 2)>> : k \in MCStepKey[table]}]

\* Two changes of any prefixes, and a withdrawal beside an announcement of the
\* same prefix: batches that withdraw a prefix the table has or will have.
MCStepBatches ==
    [table \in {"steplpm", "soaart"} |->
        {<<Change(j, 1), Change(k, 2)>> : j, k \in MCStepKey[table]}
            \cup {<<Yank(k), Change(k, 2)>> : k \in MCStepKey[table]}
            \cup {<<Change(k, 1), Yank(k)>> : k \in MCStepKey[table]}]

\* A withdrawal on its own, of a prefix that may be absent.
LoneYanks == [table \in {"steplpm", "soaart"} |-> {<<Yank(k)>> : k \in MCStepKey[table]}]

-----------------------------------------------------------------------------
\* slotlpm: nested prefixes that start together, one of them in both spellings,
\* a slot crowded enough for a second cut in each family, and a low word.
\* aosart: a whole stride in both spellings, and fringes and leaves that split.
P4(key, bits, as) == [prefix |-> Bits3!Masked(key, bits), as |-> as]
P6(key, bits) == [prefix |-> Bits4!Masked(key, bits), as |-> "v6"]
A4(key, bits, as) == [prefix |-> Bits4!Masked(key, bits), as |-> as]
A6(key, bits) == [prefix |-> Bits6!Masked(key, bits), as |-> "v6"]
MCSpelled ==
    [slotlpm |-> {P4(0, 0, "v4"), P4(4, 1, "v4"), P4(4, 1, "mapped"), P4(4, 3, "v4"),
                  P6(8, 1), P6(8, 3), P6(13, 4)},
     aosart  |-> {A4(0, 1, "v4"), A4(4, 2, "v4"), A4(4, 2, "mapped"), A4(4, 4, "v4"),
                  A6(48, 2), A6(52, 5), A6(52, 6)}]
FirstSpelled == [slotlpm |-> P4(4, 1, "v4"), aosart |-> A4(4, 2, "v4")]
MCSlotEntries ==
    [table \in {"slotlpm", "aosart"} |-> {<<Entry(FirstSpelled[table], 1), Entry(k, 2)>> : k \in MCSpelled[table]}]
MCSlotBatches ==
    [table \in {"slotlpm", "aosart"} |->
        {<<Change(j, 1), Change(k, 2)>> : j, k \in MCSpelled[table]}
            \cup {<<Yank(j), Change(k, 1)>> : j, k \in MCSpelled[table]}
            \cup {<<Change(j, 2), Yank(k)>> : j, k \in MCSpelled[table]}
            \cup {<<Yank(k)>> : k \in MCSpelled[table]}]

-----------------------------------------------------------------------------
\* versioned: a chain of IPv4 prefixes, and a 4-in-6 prefix that is too short to
\* be one of IPv4: Masked makes an IPv6 prefix of it.  The zero prefix is what
\* the writer marks its deletions with.
V(key, bits, as) == [prefix |-> Bits6!Masked(key, bits), as |-> as]
MCVersionEntries ==
    {Entry(V(0, 0, "v4"), 1), Entry(V(17, 6, "v4"), 4), Entry(V(17, 6, "v4"), 5),
     Entry(V(16, 4, "short"), 3),
     Entry([prefix |-> Bits6!Masked(0, 0), as |-> "none"], 1)}
MCVersionSpelled == {e.key : e \in MCVersionEntries}
=============================================================================
