------------------------------ MODULE BlockLPM ------------------------------
(***************************************************************************)
(* old/blocklpm: leaf-pushed blocks, the index of compiledfib.  A slot of  *)
(* a block holds an id or leads to the block below it; every slot has been *)
(* filled with the winner it inherits, so a lookup never looks back.       *)
(*                                                                         *)
(* IPv4 is a root table and two levels of blocks, painted shortest prefix  *)
(* first.  IPv6 is a trie of octets that is flattened into a root table of *)
(* two octets and a block for each node with children.  A block is named   *)
(* by the path to it and a slot by the path through it; the block numbers  *)
(* of the code are one such naming.                                        *)
(***************************************************************************)
EXTENDS Prefixes, SequencesExt

CONSTANTS
    BlockRoot,  \* bits of the IPv4 root table: 16
    BlockBits   \* bits of a block, and of an octet of the IPv6 trie: 8
ASSUME BlockAssumption ==
    /\ BlockBits \in Nat \ {0}
    /\ BlockRoot \in Nat /\ Width = BlockRoot + 2 * BlockBits
    /\ Width % BlockBits = 0

\* The entries of New in the order of sort.SliceStable, shortest first.
Shorter(p, q) == p.bits < q.bits \/ (p.bits = q.bits /\ p.key < q.key)
BlockEntries(ids) ==
    LET Place(p) == Cardinality({q \in DOMAIN ids : Shorter(q, p)}) + 1
    IN  [k \in 1 .. Cardinality(DOMAIN ids) |->
            LET p == CHOOSE q \in DOMAIN ids : Place(q) = k
            IN  [prefix |-> p, value |-> ids[p]]]

Paths(bits) == {Masked(a, bits) : a \in Addr}

-----------------------------------------------------------------------------
\* One of compile4's loops over the entries: those whose lengths are its level's
\* write their value to all the slots they cover.
Paint(table, entries, from, to) ==
    FoldLeft(LAMBDA t, e :
                [n \in DOMAIN t |->
                    IF from <= e.prefix.bits /\ e.prefix.bits <= to /\ Covers(e.prefix, n.key)
                    THEN e.value ELSE t[n]],
             table, entries)

\* need2 and need3: the slots that something goes deeper than.
Needed(entries, bits) ==
    {Masked(entries[i].prefix.key, bits) : i \in {j \in DOMAIN entries : entries[j].prefix.bits > bits}}

\* The slots of the blocks below those slots.
Level(entries, bits) ==
    {n \in Paths(bits + BlockBits) : Masked(n.key, bits) \in Needed(entries, bits)}
middle == BlockRoot + BlockBits

\* (Faulty variant: the blocks of the last level start empty.)
compile4Unpushed(entries) ==
    LET root == Paint([n \in Paths(BlockRoot) |-> 0], entries, 0, BlockRoot)
        level2 == Paint([n \in Level(entries, BlockRoot) |-> root[Masked(n.key, BlockRoot)]],
                        entries, BlockRoot + 1, middle)
        level3 == Paint([n \in Level(entries, middle) |-> 0],
                        entries, middle + 1, Width)
    IN  [root |-> root, level2 |-> level2, level3 |-> level3]

\* compile4: the root is painted, then the blocks of the second level start
\* with the slot they replace and are painted, then those of the third.
compile4(entries) ==
    LET root == Paint([n \in Paths(BlockRoot) |-> 0], entries, 0, BlockRoot)
        level2 == Paint([n \in Level(entries, BlockRoot) |-> root[Masked(n.key, BlockRoot)]],
                        entries, BlockRoot + 1, middle)
        level3 == Paint([n \in Level(entries, middle) |-> level2[Masked(n.key, middle)]],
                        entries, middle + 1, Width)
    IN  [root |-> root, level2 |-> level2, level3 |-> level3]

\* lookup4: a slot that leads to a block is one whose block exists.
lookup4(x, a) ==
    LET slot2 == Masked(a, middle)
        slot3 == Masked(a, Width)
    IN  CASE slot3 \in DOMAIN x.level3 -> x.level3[slot3]
          [] slot3 \notin DOMAIN x.level3 /\ slot2 \in DOMAIN x.level2 -> x.level2[slot2]
          [] OTHER -> x.root[Masked(a, BlockRoot)]

-----------------------------------------------------------------------------
\* insertCompiled6: the nodes on the way exist, and the value is written at the
\* last one, or at every octet that a partial octet stands for.
insertCompiled6(trie, e) ==
    LET full == (e.prefix.bits \div BlockBits) * BlockBits
        way == {Masked(e.prefix.key, bits) : bits \in {b \in 0 .. full : b % BlockBits = 0}}
        ends == IF e.prefix.bits = full THEN {e.prefix}
                ELSE {n \in Paths(full + BlockBits) : Covers(e.prefix, n.key)}
    IN  [n \in DOMAIN trie \cup way \cup ends |->
            IF n \in ends THEN e.value ELSE IF n \in DOMAIN trie THEN trie[n] ELSE 0]

\* The throwaway trie that the entries are inserted into.
Trie6(entries) == FoldLeft(insertCompiled6, [n \in {Masked(0, 0)} |-> 0], entries)

\* The paths to the slots of the root table of two octets and of the blocks.
Octets == {b \in 2 * BlockBits .. Width : b % BlockBits = 0}

\* compile6Slot: the value of the last node on the way that has one.
Inherited6(trie, path) ==
    LET valued == {n \in DOMAIN trie : trie[n] # 0 /\ n.bits <= path.bits /\ Covers(n, path.key)}
    IN  IF valued = {} THEN 0
        ELSE trie[CHOOSE n \in valued : \A m \in valued : m.bits <= n.bits]

\* compile6 and compile6Slot: a node below the root table with children becomes
\* a block; any other slot holds what it inherits.
compile6(entries) ==
    LET trie == Trie6(entries)
    IN  [blocks |-> {n \in DOMAIN trie :
                        /\ n.bits \in Octets
                        /\ \E m \in DOMAIN trie : m.bits > n.bits /\ Covers(n, m.key)},
         slots  |-> [path \in UNION {Paths(bits) : bits \in Octets} |-> Inherited6(trie, path)]]

\* lookup6: follow the blocks from the root table.
lookup6(x, a) ==
    LET open == {Masked(a, bits) : bits \in Octets} \ x.blocks
        last == CHOOSE n \in open : \A m \in open : n.bits <= m.bits
    IN  x.slots[last]
=============================================================================
