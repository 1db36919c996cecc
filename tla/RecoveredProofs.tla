-------------------------- MODULE RecoveredProofs ---------------------------
(***************************************************************************)
(* Proofs about RecoveredTables.  An instance has copies of the operators  *)
(* of the modules it extends: the first part shows that those of Flat and  *)
(* Dir are the operators that the lemmas of the protocol and of the        *)
(* indexes are about.  Then the inductive invariants of flatlpm and of     *)
(* dirlpm, over that of the protocol, and what follows from them.          *)
(***************************************************************************)
EXTENDS RecoveredTables, WriterProtocolProofs, LPMProofs

\* One copied step of the protocol.
LEMMA SameSubmits ==
    ASSUME NEW r
    PROVE  /\ Flat!SubmitInvalid(r) \/ Dir!SubmitInvalid(r) => SubmitInvalid(r)
           /\ Flat!SubmitNormalized(r) \/ Dir!SubmitNormalized(r) => SubmitNormalized(r)
           /\ Flat!SubmitStep(r) \/ Dir!SubmitStep(r) => SubmitStep(r)
<1>1. Flat!SubmitInvalid(r) \/ Dir!SubmitInvalid(r) => SubmitInvalid(r)
  BY DEF Flat!SubmitInvalid, Dir!SubmitInvalid, SubmitInvalid, Flat!Answer, Dir!Answer, Answer,
         Flat!writerVars, Dir!writerVars, writerVars
<1>2. Flat!SubmitNormalized(r) \/ Dir!SubmitNormalized(r) => SubmitNormalized(r)
  BY DEF Flat!SubmitNormalized, Dir!SubmitNormalized, SubmitNormalized,
         Flat!writerVars, Dir!writerVars, writerVars
<1>3. Flat!SubmitStep(r) => SubmitStep(r)
  BY DEF Flat!SubmitStep, SubmitStep, Flat!SubmitLock, SubmitLock,
         Flat!SubmitUnlockClosed, SubmitUnlockClosed, Flat!SubmitErrClosed, SubmitErrClosed,
         Flat!SubmitSend, SubmitSend, Flat!SubmitUnlock, SubmitUnlock, Flat!Answer, Answer,
         Flat!writerVars, writerVars
<1>4. Dir!SubmitStep(r) => SubmitStep(r)
  BY DEF Dir!SubmitStep, SubmitStep, Dir!SubmitLock, SubmitLock,
         Dir!SubmitUnlockClosed, SubmitUnlockClosed, Dir!SubmitErrClosed, SubmitErrClosed,
         Dir!SubmitSend, SubmitSend, Dir!SubmitUnlock, SubmitUnlock, Dir!Answer, Answer,
         Dir!writerVars, writerVars
<1> QED BY <1>1, <1>2, <1>3, <1>4

LEMMA SameCloses ==
    ASSUME NEW c
    PROVE  /\ Flat!CloseCall(c) \/ Dir!CloseCall(c) => CloseCall(c)
           /\ Flat!CloseStep(c) \/ Dir!CloseStep(c) => CloseStep(c)
<1>1. Flat!CloseCall(c) \/ Dir!CloseCall(c) => CloseCall(c)
  BY DEF Flat!CloseCall, Dir!CloseCall, CloseCall, Flat!writerVars, Dir!writerVars, writerVars
<1>2. Flat!CloseStep(c) => CloseStep(c)
  BY DEF Flat!CloseStep, CloseStep, Flat!CloseOnceFirst, CloseOnceFirst,
         Flat!CloseOnceLater, CloseOnceLater, Flat!CloseLock, CloseLock, Flat!CloseStop, CloseStop,
         Flat!CloseUnlockLater, CloseUnlockLater, Flat!CloseReturn, CloseReturn,
         Flat!writerVars, writerVars
<1>3. Dir!CloseStep(c) => CloseStep(c)
  BY DEF Dir!CloseStep, CloseStep, Dir!CloseOnceFirst, CloseOnceFirst,
         Dir!CloseOnceLater, CloseOnceLater, Dir!CloseLock, CloseLock, Dir!CloseStop, CloseStop,
         Dir!CloseUnlockLater, CloseUnlockLater, Dir!CloseReturn, CloseReturn,
         Dir!writerVars, writerVars
<1> QED BY <1>1, <1>2, <1>3

LEMMA SameWriter ==
    /\ Flat!Collect \/ Dir!Collect => Collect
    /\ \A built : Flat!Publish(built) \/ Dir!Publish(built) => Publish(built)
    /\ Flat!CountPublication \/ Dir!CountPublication => CountPublication
<1>1. Flat!Collect => Collect
  BY DEF Flat!Collect, Collect, Flat!ManageFirst, ManageFirst, Flat!ManageStop, ManageStop,
         Flat!DrainFirst, DrainFirst, Flat!DrainReturn, DrainReturn, Flat!FillReceive, FillReceive,
         Flat!FillFull, FillFull, Flat!FillShort, FillShort, Flat!FillEmpty, FillEmpty,
         Flat!RangeReturn, RangeReturn, Flat!CollectReceive, CollectReceive,
         Flat!CollectTimer, CollectTimer, Flat!CollectStop, CollectStop,
         Flat!CollectFull, CollectFull, Flat!AppendReceive, AppendReceive,
         Flat!AppendReturn, AppendReturn, Flat!Receive, Receive, Flat!Notify, Notify,
         Flat!PublishReturn, PublishReturn, Flat!LastReturn, LastReturn, Flat!Answer, Answer,
         Flat!callVars, callVars
<1>2. Dir!Collect => Collect
  BY DEF Dir!Collect, Collect, Dir!ManageFirst, ManageFirst, Dir!ManageStop, ManageStop,
         Dir!DrainFirst, DrainFirst, Dir!DrainReturn, DrainReturn, Dir!FillReceive, FillReceive,
         Dir!FillFull, FillFull, Dir!FillShort, FillShort, Dir!FillEmpty, FillEmpty,
         Dir!RangeReturn, RangeReturn, Dir!CollectReceive, CollectReceive,
         Dir!CollectTimer, CollectTimer, Dir!CollectStop, CollectStop,
         Dir!CollectFull, CollectFull, Dir!AppendReceive, AppendReceive,
         Dir!AppendReturn, AppendReturn, Dir!Receive, Receive, Dir!Notify, Notify,
         Dir!PublishReturn, PublishReturn, Dir!LastReturn, LastReturn, Dir!Answer, Answer,
         Dir!callVars, callVars
<1>3. \A built : Flat!Publish(built) \/ Dir!Publish(built) => Publish(built)
  BY DEF Flat!Publish, Dir!Publish, Publish, Flat!callVars, Dir!callVars, callVars
<1>4. Flat!CountPublication \/ Dir!CountPublication => CountPublication
  BY DEF Flat!CountPublication, Dir!CountPublication, CountPublication,
         Flat!callVars, Dir!callVars, callVars
<1> QED BY <1>1, <1>2, <1>3, <1>4

LEMMA SameInit == Flat!ProtocolInit \/ Dir!ProtocolInit => ProtocolInit
BY DEF Flat!ProtocolInit, Dir!ProtocolInit, ProtocolInit, Flat!Pending, Dir!Pending, Pending

-----------------------------------------------------------------------------
(* The copied operators: prefixes and the index of both packages. *)

LEMMA SamePrefixes ==
    /\ Flat!Prefix = Prefix /\ Dir!Prefix = Prefix
    /\ Flat!Addr = Addr /\ Dir!Addr = Addr
    /\ \A key, bits : Flat!Masked(key, bits) = Masked(key, bits)
                      /\ Dir!Masked(key, bits) = Masked(key, bits)
    /\ \A p, a : (Flat!Covers(p, a) <=> Covers(p, a)) /\ (Dir!Covers(p, a) <=> Covers(p, a))
    /\ \A S : Flat!Cardinality(S) = Cardinality(S) /\ Dir!Cardinality(S) = Cardinality(S)
<1>1. Flat!Pow2 = Pow2 /\ Dir!Pow2 = Pow2
  BY DEF Flat!Pow2, Dir!Pow2, Pow2
<1>2. Flat!Addr = Addr /\ Dir!Addr = Addr
  BY <1>1 DEF Flat!Addr, Dir!Addr, Addr
<1>3. \A bits : Flat!Span(bits) = Span(bits) /\ Dir!Span(bits) = Span(bits)
  BY <1>1 DEF Flat!Span, Dir!Span, Span
<1>4. \A key, bits : Flat!Masked(key, bits) = Masked(key, bits)
                     /\ Dir!Masked(key, bits) = Masked(key, bits)
  BY <1>3 DEF Flat!Masked, Dir!Masked, Masked
<1>5. Flat!Prefix = Prefix
  BY <1>2, <1>4 DEF Flat!Prefix, Prefix
<1>6. Dir!Prefix = Prefix
  BY <1>2, <1>4 DEF Dir!Prefix, Prefix
<1>7. \A p, a : (Flat!Covers(p, a) <=> Covers(p, a)) /\ (Dir!Covers(p, a) <=> Covers(p, a))
  BY <1>3 DEF Flat!Covers, Dir!Covers, Covers, Flat!LowAddr, Dir!LowAddr, LowAddr,
              Flat!HighAddr, Dir!HighAddr, HighAddr
<1>8. \A S : Flat!Cardinality(S) = Cardinality(S) /\ Dir!Cardinality(S) = Cardinality(S)
  BY DEF Flat!Cardinality, Dir!Cardinality, Cardinality
<1> QED BY <1>2, <1>4, <1>5, <1>6, <1>7, <1>8

LEMMA SameMatches ==
    ASSUME NEW S
    PROVE  /\ \A a : Flat!Matches(S, a) = Matches(S, a) /\ Dir!Matches(S, a) = Matches(S, a)
           /\ \A a : /\ Flat!LongestMatch(S, a) = LongestMatch(S, a)
                     /\ Dir!LongestMatch(S, a) = LongestMatch(S, a)
           /\ \A n : Flat!Below(S, n) = Below(S, n) /\ Dir!Below(S, n) = Below(S, n)
           /\ \A n : Flat!Above(S, n) = Above(S, n) /\ Dir!Above(S, n) = Above(S, n)
           /\ Flat!Longest(S) = Longest(S) /\ Dir!Longest(S) = Longest(S)
<1>1. \A a : Flat!Matches(S, a) = Matches(S, a) /\ Dir!Matches(S, a) = Matches(S, a)
  BY SamePrefixes DEF Flat!Matches, Dir!Matches, Matches
<1>2. \A a : Flat!LongestMatch(S, a) = LongestMatch(S, a)
  BY <1>1 DEF Flat!LongestMatch, LongestMatch
<1>3. \A a : Dir!LongestMatch(S, a) = LongestMatch(S, a)
  BY <1>1 DEF Dir!LongestMatch, LongestMatch
<1>4. \A n : Flat!Below(S, n) = Below(S, n) /\ Dir!Below(S, n) = Below(S, n)
  BY SamePrefixes DEF Flat!Below, Dir!Below, Below
<1>5. \A n : Flat!Above(S, n) = Above(S, n) /\ Dir!Above(S, n) = Above(S, n)
  BY SamePrefixes DEF Flat!Above, Dir!Above, Above
<1>6. Flat!Longest(S) = Longest(S) /\ Dir!Longest(S) = Longest(S)
  BY DEF Flat!Longest, Dir!Longest, Longest
<1> QED BY <1>1, <1>2, <1>3, <1>4, <1>5, <1>6

LEMMA SameSlotNames ==
    /\ \A p : Flat!Own(p) = Own(p) /\ Dir!Own(p) = Own(p)
    /\ \A n : Flat!Copy(n) = Copy(n) /\ Dir!Copy(n) = Copy(n)
    /\ Flat!NoSlot = NoSlot /\ Dir!NoSlot = NoSlot
    /\ Flat!StrideBits = StrideBits /\ Dir!StrideBits = StrideBits
    /\ \A a, bits : Flat!PathOf(a, bits) = PathOf(a, bits) /\ Dir!PathOf(a, bits) = PathOf(a, bits)
BY SamePrefixes DEF Flat!Own, Dir!Own, Own, Flat!Copy, Dir!Copy, Copy,
       Flat!NoSlot, Dir!NoSlot, NoSlot, Flat!StrideBits, Dir!StrideBits, StrideBits,
       Flat!PathOf, Dir!PathOf, PathOf

LEMMA SameSlots ==
    ASSUME NEW S
    PROVE  /\ Flat!Slots(S) = Slots(S) /\ Dir!Slots(S) = Slots(S)
           /\ \A slot : Flat!RefOf(S, slot) = RefOf(S, slot) /\ Dir!RefOf(S, slot) = RefOf(S, slot)
           /\ \A p : Flat!ExactSlot(S, p) = ExactSlot(S, p) /\ Dir!ExactSlot(S, p) = ExactSlot(S, p)
           /\ \A n : (Flat!IsStride(S, n) <=> IsStride(S, n)) /\ (Dir!IsStride(S, n) <=> IsStride(S, n))
           /\ \A n : (Flat!IsLeaf(S, n) <=> IsLeaf(S, n)) /\ (Dir!IsLeaf(S, n) <=> IsLeaf(S, n))
<1>1. ASSUME NEW n
      PROVE  /\ (Flat!IsStride(S, n) <=> IsStride(S, n)) /\ (Dir!IsStride(S, n) <=> IsStride(S, n))
             /\ (Flat!IsLeaf(S, n) <=> IsLeaf(S, n)) /\ (Dir!IsLeaf(S, n) <=> IsLeaf(S, n))
  <2>1. Flat!Below(S, n) = Below(S, n) /\ Dir!Below(S, n) = Below(S, n)
    BY SameMatches
  <2>2. /\ Flat!Cardinality(Flat!Below(S, n)) = Cardinality(Below(S, n))
        /\ Dir!Cardinality(Dir!Below(S, n)) = Cardinality(Below(S, n))
    BY <2>1, SamePrefixes
  <2> QED BY <2>2 DEF Flat!IsStride, Dir!IsStride, IsStride, Flat!IsLeaf, Dir!IsLeaf, IsLeaf
<1>2. Flat!Strides(S) = Strides(S)
  BY <1>1, SameSlotNames DEF Flat!Strides, Strides
<1>3. Dir!Strides(S) = Strides(S)
  BY <1>1, SameSlotNames DEF Dir!Strides, Strides
<1>4. Flat!Slots(S) = Slots(S)
  BY <1>2, SameMatches, SameSlotNames DEF Flat!Slots, Slots
<1>5. Dir!Slots(S) = Slots(S)
  BY <1>3, SameMatches, SameSlotNames DEF Dir!Slots, Slots
<1>6. \A slot : Flat!RefOf(S, slot) = RefOf(S, slot) /\ Dir!RefOf(S, slot) = RefOf(S, slot)
  BY SameMatches DEF Flat!RefOf, Dir!RefOf, RefOf
<1>7. \A p : Flat!ExactSlot(S, p) = ExactSlot(S, p) /\ Dir!ExactSlot(S, p) = ExactSlot(S, p)
  BY SameSlotNames DEF Flat!ExactSlot, Dir!ExactSlot, ExactSlot
<1> QED BY <1>1, <1>4, <1>5, <1>6, <1>7

LEMMA SameLookup ==
    ASSUME NEW S, NEW a
    PROVE  Flat!LookupSlot(S, a) = LookupSlot(S, a) /\ Dir!LookupSlot(S, a) = LookupSlot(S, a)
<1> DEFINE paths == {PathOf(a, bits) : bits \in StrideBits}
           built == {path \in paths :
                       /\ Below(S, path) # {}
                       /\ \A up \in paths : up.bits < path.bits => IsStride(S, up)}
           deepest == Longest(built)
           here == {p \in Matches(S, a) : p.bits > deepest.bits /\ p.bits <= deepest.bits + Stride}
           root == {p \in Matches(S, a) : p.bits <= RootBits}
           only == CHOOSE p \in Below(S, deepest) : TRUE
<1>1. LookupSlot(S, a) =
        CASE built = {} -> IF root = {} THEN NoSlot ELSE Own(Longest(root))
          [] built # {} /\ IsLeaf(S, deepest) ->
               IF Covers(only, a) THEN Own(only) ELSE Inherited(S, deepest)
          [] OTHER ->
               IF here # {} THEN Own(Longest(here))
               ELSE IF Above(S, deepest) # {} THEN Copy(deepest)
               ELSE NoSlot
  BY DEF LookupSlot
<1>2. Flat!LookupSlot(S, a) = LookupSlot(S, a)
  <2> DEFINE paths2 == {Flat!PathOf(a, bits) : bits \in Flat!StrideBits}
             built2 == {path \in paths2 :
                          /\ Flat!Below(S, path) # {}
                          /\ \A up \in paths2 : up.bits < path.bits => Flat!IsStride(S, up)}
             deepest2 == Flat!Longest(built2)
             here2 == {p \in Flat!Matches(S, a) : p.bits > deepest2.bits /\ p.bits <= deepest2.bits + Stride}
             root2 == {p \in Flat!Matches(S, a) : p.bits <= RootBits}
             only2 == CHOOSE p \in Flat!Below(S, deepest2) : TRUE
  <2>1. Flat!LookupSlot(S, a) =
          CASE built2 = {} ->
                 IF root2 = {} THEN Flat!NoSlot ELSE Flat!Own(Flat!Longest(root2))
            [] built2 # {} /\ Flat!IsLeaf(S, deepest2) ->
                 IF Flat!Covers(only2, a) THEN Flat!Own(only2) ELSE Flat!Inherited(S, deepest2)
            [] OTHER ->
                 IF here2 # {} THEN Flat!Own(Flat!Longest(here2))
                 ELSE IF Flat!Above(S, deepest2) # {} THEN Flat!Copy(deepest2)
                 ELSE Flat!NoSlot
    BY DEF Flat!LookupSlot
  <2>2. paths2 = paths
    BY SameSlotNames
  <2>3. built2 = built
    <3> HIDE DEF paths, paths2
    <3> QED BY <2>2, SameMatches, SameSlots
  <2>4. deepest2 = deepest
    <3> HIDE DEF built, built2
    <3> QED BY <2>3, SameMatches
  <2> HIDE DEF built, built2, deepest, deepest2
  <2>5. only2 = only /\ here2 = here /\ root2 = root
    BY <2>4, SameMatches
  <2>6. Flat!Inherited(S, deepest) = Inherited(S, deepest)
    BY SameMatches, SameSlotNames DEF Flat!Inherited, Inherited
  <2> HIDE DEF only, only2, here, here2, root, root2
  <2>7. Flat!LookupSlot(S, a) =
          CASE built = {} -> IF root = {} THEN NoSlot ELSE Own(Longest(root))
            [] built # {} /\ IsLeaf(S, deepest) ->
                 IF Covers(only, a) THEN Own(only) ELSE Inherited(S, deepest)
            [] OTHER ->
                 IF here # {} THEN Own(Longest(here))
                 ELSE IF Above(S, deepest) # {} THEN Copy(deepest)
                 ELSE NoSlot
    BY <2>1, <2>3, <2>4, <2>5, <2>6, SamePrefixes, SameMatches, SameSlotNames, SameSlots
  <2> QED BY <1>1, <2>7
<1>3. Dir!LookupSlot(S, a) = LookupSlot(S, a)
  <2> DEFINE paths2 == {Dir!PathOf(a, bits) : bits \in Dir!StrideBits}
             built2 == {path \in paths2 :
                          /\ Dir!Below(S, path) # {}
                          /\ \A up \in paths2 : up.bits < path.bits => Dir!IsStride(S, up)}
             deepest2 == Dir!Longest(built2)
             here2 == {p \in Dir!Matches(S, a) : p.bits > deepest2.bits /\ p.bits <= deepest2.bits + Stride}
             root2 == {p \in Dir!Matches(S, a) : p.bits <= RootBits}
             only2 == CHOOSE p \in Dir!Below(S, deepest2) : TRUE
  <2>1. Dir!LookupSlot(S, a) =
          CASE built2 = {} ->
                 IF root2 = {} THEN Dir!NoSlot ELSE Dir!Own(Dir!Longest(root2))
            [] built2 # {} /\ Dir!IsLeaf(S, deepest2) ->
                 IF Dir!Covers(only2, a) THEN Dir!Own(only2) ELSE Dir!Inherited(S, deepest2)
            [] OTHER ->
                 IF here2 # {} THEN Dir!Own(Dir!Longest(here2))
                 ELSE IF Dir!Above(S, deepest2) # {} THEN Dir!Copy(deepest2)
                 ELSE Dir!NoSlot
    BY DEF Dir!LookupSlot
  <2>2. paths2 = paths
    BY SameSlotNames
  <2>3. built2 = built
    <3> HIDE DEF paths, paths2
    <3> QED BY <2>2, SameMatches, SameSlots
  <2>4. deepest2 = deepest
    <3> HIDE DEF built, built2
    <3> QED BY <2>3, SameMatches
  <2> HIDE DEF built, built2, deepest, deepest2
  <2>5. only2 = only /\ here2 = here /\ root2 = root
    BY <2>4, SameMatches
  <2>6. Dir!Inherited(S, deepest) = Inherited(S, deepest)
    BY SameMatches, SameSlotNames DEF Dir!Inherited, Inherited
  <2> HIDE DEF only, only2, here, here2, root, root2
  <2>7. Dir!LookupSlot(S, a) =
          CASE built = {} -> IF root = {} THEN NoSlot ELSE Own(Longest(root))
            [] built # {} /\ IsLeaf(S, deepest) ->
                 IF Covers(only, a) THEN Own(only) ELSE Inherited(S, deepest)
            [] OTHER ->
                 IF here # {} THEN Own(Longest(here))
                 ELSE IF Above(S, deepest) # {} THEN Copy(deepest)
                 ELSE NoSlot
    BY <2>1, <2>3, <2>4, <2>5, <2>6, SamePrefixes, SameMatches, SameSlotNames, SameSlots
  <2> QED BY <1>1, <2>7
<1> QED BY <1>2, <1>3

\* And the blocks of dirlpm's IPv4 half.
LEMMA SameBlocks ==
    /\ \A values : Dir!BlockEntries(values) = BlockEntries(values)
    /\ \A entries : Dir!compile4(entries) = compile4(entries)
    /\ \A x, a : Dir!lookup4(x, a) = lookup4(x, a)
    /\ \A S, p : Dir!Rank(S, p) = Rank(S, p)
    /\ \A s : Dir!ToSet(s) = ToSet(s)
<1>1. \A S, p : Dir!Rank(S, p) = Rank(S, p)
  BY SamePrefixes DEF Dir!Rank, Rank, Dir!Before, Before
<1>2. \A s : Dir!ToSet(s) = ToSet(s)
  BY DEF Dir!ToSet, ToSet
<1>3. \A values : Dir!BlockEntries(values) = BlockEntries(values)
  BY SamePrefixes DEF Dir!BlockEntries, BlockEntries, Dir!Shorter, Shorter
<1>4. ASSUME NEW table, NEW entries, NEW from, NEW to
      PROVE  Dir!Paint(table, entries, from, to) = Paint(table, entries, from, to)
  <2> DEFINE places == DOMAIN entries
             Over(e, n) == from <= e.prefix.bits /\ e.prefix.bits <= to /\ Covers(e.prefix, n.key)
             Over2(e, n) ==
                 from <= e.prefix.bits /\ e.prefix.bits <= to /\ Dir!Covers(e.prefix, n.key)
             Equation(f) ==
                 f = [s \in SUBSET places |->
                         IF s = {} THEN table
                         ELSE [n \in DOMAIN f[s \ {Max(s)}] |->
                                  IF Over(entries[Max(s)], n)
                                  THEN entries[Max(s)].value ELSE f[s \ {Max(s)}][n]]]
             Equation2(f) ==
                 f = [s \in SUBSET places |->
                         IF s = {} THEN table
                         ELSE [n \in DOMAIN f[s \ {Dir!Max(s)}] |->
                                  IF Over2(entries[Dir!Max(s)], n)
                                  THEN entries[Dir!Max(s)].value ELSE f[s \ {Dir!Max(s)}][n]]]
             fold == CHOOSE f : Equation(f)
             fold2 == CHOOSE f : Equation2(f)
  <2>1. Paint(table, entries, from, to) = fold[places]
    BY DEF Paint, FoldLeft, MapThenFoldSet
  <2>2. Dir!Paint(table, entries, from, to) = fold2[places]
    BY DEF Dir!Paint, Dir!FoldLeft, Dir!MapThenFoldSet
  <2>3. \A S : Dir!Max(S) = Max(S)
    BY DEF Dir!Max, Max
  <2>4. \A e, n : Over2(e, n) <=> Over(e, n)
    BY SamePrefixes
  <2> HIDE DEF Over, Over2
  <2>5. ASSUME NEW f PROVE Equation2(f) <=> Equation(f)
    BY <2>3, <2>4
  <2> HIDE DEF Equation, Equation2
  <2>6. fold2 = fold
    BY <2>5
  <2> QED BY <2>1, <2>2, <2>6
<1>5. Dir!middle = middle
  BY DEF Dir!middle, middle
<1>6. \A entries, bits : Dir!Level(entries, bits) = Level(entries, bits)
  BY SamePrefixes DEF Dir!Level, Level, Dir!Paths, Paths, Dir!Needed, Needed
<1>7. \A bits : Dir!Paths(bits) = Paths(bits)
  BY SamePrefixes DEF Dir!Paths, Paths
<1>8. \A entries : Dir!compile4(entries) = compile4(entries)
  BY <1>4, <1>5, <1>6, <1>7, SamePrefixes DEF Dir!compile4, compile4
<1>9. \A x, a : Dir!lookup4(x, a) = lookup4(x, a)
  BY <1>5, SamePrefixes DEF Dir!lookup4, lookup4
<1> QED BY <1>1, <1>2, <1>3, <1>8, <1>9

LEMMA SameFlatten ==
    \A seqs : Flat!FlattenSeq(seqs) = FlattenSeq(seqs) /\ Dir!FlattenSeq(seqs) = FlattenSeq(seqs)
BY DEF Flat!FlattenSeq, Dir!FlattenSeq, FlattenSeq

\* What publish makes of a batch,
LEMMA SameBatches ==
    /\ \A all : Flat!LastOnes(all) = LastOnes(all) /\ Dir!LastOnes(all) = LastOnes(all)
    /\ \A map, changes : /\ Flat!Amended(map, changes) = Amended(map, changes)
                         /\ Dir!Amended(map, changes) = Amended(map, changes)
<1>1. \A all, s : Flat!Named(all, s) = Named(all, s) /\ Dir!Named(all, s) = Named(all, s)
  BY DEF Flat!Named, Dir!Named, Named
<1>2. \A all, s, p : /\ Flat!LastFor(all, s, p) = LastFor(all, s, p)
                     /\ Dir!LastFor(all, s, p) = LastFor(all, s, p)
  BY DEF Flat!LastFor, Dir!LastFor, LastFor
<1>3. \A all : Flat!LastOnes(all) = LastOnes(all) /\ Dir!LastOnes(all) = LastOnes(all)
  BY <1>1, <1>2 DEF Flat!LastOnes, Dir!LastOnes, LastOnes
<1>4. \A map, changes : /\ Flat!Amended(map, changes) = Amended(map, changes)
                        /\ Dir!Amended(map, changes) = Amended(map, changes)
  BY DEF Flat!Amended, Dir!Amended, Amended, Flat!Overwrite, Dir!Overwrite, Overwrite
<1> QED BY <1>3, <1>4

\* and what RouteTable sees of the control.
LEMMA SameControl ==
    /\ \A r : (Flat!Accepted(r) <=> Accepted(r)) /\ (Dir!Accepted(r) <=> Accepted(r))
    /\ Flat!Backlog = Backlog /\ Dir!Backlog = Backlog
    /\ Flat!Fate = Fate /\ Dir!Fate = Fate
BY DEF Flat!Accepted, Dir!Accepted, Accepted, Flat!Backlog, Dir!Backlog, Backlog,
       Flat!Fate, Dir!Fate, Fate, Flat!Stored, Dir!Stored, Stored,
       Flat!InBatch, Dir!InBatch, InBatch, Flat!Range, Dir!Range, Range

LEMMA SameControlNext ==
    /\ \A r : (Flat!Accepted(r)' <=> Accepted(r)') /\ (Dir!Accepted(r)' <=> Accepted(r)')
    /\ Flat!Backlog' = Backlog' /\ Dir!Backlog' = Backlog'
    /\ Flat!Fate' = Fate' /\ Dir!Fate' = Fate'
BY DEF Flat!Accepted, Dir!Accepted, Accepted, Flat!Backlog, Dir!Backlog, Backlog,
       Flat!Fate, Dir!Fate, Fate, Flat!Stored, Dir!Stored, Stored,
       Flat!InBatch, Dir!InBatch, InBatch, Flat!Range, Dir!Range, Range

-----------------------------------------------------------------------------
(* flatlpm: what its generations are, whatever was published. *)

\* Slots that were filled for the same prefix hold the same value.
FilledAlike(S, slice) ==
    \A one, other \in Slots(S) : RefOf(S, one) = RefOf(S, other) => slice[one] = slice[other]

FlatMutation == [prefix : Flat!SpelledPrefix, value : Value, delete : BOOLEAN]

\* An index over prefixes of the family, which a rebuild of this generation or an
\* earlier one compiled, and a value for every slot that the compiler made.
FlatGeneration(g, n, memory) ==
    /\ g = [stored |-> g.stored, index |-> g.index, values |-> g.values]
    /\ g.stored \in SUBSET Prefix
    /\ g.index \in 1 .. n
    /\ g.values \in 1 .. Len(memory)
    /\ DOMAIN memory[g.values] = Slots(g.stored)
    /\ g.index = n => FilledAlike(g.stored, memory[g.values])

\* The generations are numbered by their places.
FlatInv ==
    /\ mutations \in [Request -> Seq(FlatMutation)]
    /\ gens \in Seq(Range(gens)) /\ Len(gens) = number /\ number # 0
    /\ slices \in Seq(Range(slices))
    /\ \A n \in 1 .. Len(gens) : FlatGeneration(gens[n], n, slices)

\* What a generation needs of a larger memory.
FlatKept(g, n, memory, larger) ==
    FlatGeneration(g, n, larger) /\ larger[g.values] = memory[g.values]

\* What the slices hold so far stays, and every generation with it.
LEMMA FlatGenerationStays ==
    ASSUME NEW memory, memory \in Seq(Range(memory)), NEW slice, NEW g, NEW n,
           FlatGeneration(g, n, memory)
    PROVE  FlatKept(g, n, memory, Append(memory, slice))
<1>1. /\ Len(memory) \in Nat
      /\ Len(Append(memory, slice)) = Len(memory) + 1
      /\ \A i \in 1 .. Len(memory) : Append(memory, slice)[i] = memory[i]
  BY Appended
<1> DEFINE longer == Append(memory, slice)
<1>2. g.values \in 1 .. Len(longer) /\ longer[g.values] = memory[g.values]
  BY <1>1 DEF FlatGeneration
<1> HIDE DEF longer
<1>3. FlatGeneration(g, n, longer)
  BY <1>2 DEF FlatGeneration
<1> QED BY <1>2, <1>3 DEF FlatKept, longer

\* A published generation is appended, with the slice it points to.
LEMMA FlatAppends ==
    ASSUME FlatInv, NEW g, NEW slice,
           g = [stored |-> g.stored, index |-> g.index, values |-> g.values],
           g.stored \in SUBSET Prefix, g.index \in 1 .. Len(gens) + 1,
           g.values = Len(slices) + 1, DOMAIN slice = Slots(g.stored),
           g.index = Len(gens) + 1 => FilledAlike(g.stored, slice),
           gens' = Append(gens, g), slices' = Append(slices, slice),
           mutations' = mutations, number' = number + 1
    PROVE  FlatInv' /\ Flat!GenerationsImmutableStep
<1>1. /\ Len(gens) \in Nat /\ gens' \in Seq(Range(gens'))
      /\ Len(gens') = Len(gens) + 1
      /\ \A n \in 1 .. Len(gens) : gens'[n] = gens[n]
      /\ gens'[Len(gens) + 1] = g
  BY Appended DEF FlatInv
<1>2. /\ Len(slices) \in Nat /\ slices' \in Seq(Range(slices'))
      /\ Len(slices') = Len(slices) + 1
      /\ slices'[Len(slices) + 1] = slice
  BY Appended DEF FlatInv
<1>3. ASSUME NEW n \in 1 .. Len(gens)
      PROVE  FlatGeneration(gens[n], n, slices') /\ slices'[gens[n].values] = slices[gens[n].values]
  <2>1. FlatGeneration(gens[n], n, slices) /\ slices \in Seq(Range(slices))
    BY DEF FlatInv
  <2>2. FlatKept(gens[n], n, slices, Append(slices, slice))
    BY <2>1, FlatGenerationStays
  <2> QED BY <2>2 DEF FlatKept
<1>4. FlatGeneration(g, Len(gens) + 1, slices')
  BY <1>2 DEF FlatGeneration
<1>5. \A n \in 1 .. Len(gens') : FlatGeneration(gens'[n], n, slices')
  BY <1>1, <1>3, <1>4
<1>6. FlatInv'
  <2>1. mutations' \in [Request -> Seq(FlatMutation)] /\ Len(gens') = number'
    BY <1>1 DEF FlatInv
  <2> QED BY <1>1, <1>2, <1>5, <2>1 DEF FlatInv
<1>7. DOMAIN gens = 1 .. Len(gens)
  BY DEF FlatInv
<1>8. Flat!GenerationsImmutableStep
  BY <1>1, <1>3, <1>7 DEF Flat!GenerationsImmutableStep
<1> QED BY <1>6, <1>8

\* The steps of callers, and those of the writer outside publish.
LEMMA FlatStays ==
    ASSUME FlatInv, UNCHANGED <<gens, slices>>, number' = number,
           mutations' \in [Request -> Seq(FlatMutation)]
    PROVE  FlatInv' /\ Flat!GenerationsImmutableStep
<1>1. FlatInv'
  BY DEF FlatInv
<1>2. Flat!GenerationsImmutableStep
  BY DEF Flat!GenerationsImmutableStep
<1> QED BY <1>1, <1>2

\* buildGeneration fills the slots of one prefix alike.
LEMMA FlatBuilds ==
    ASSUME NEW catalog, DOMAIN catalog \in SUBSET Flat!SpelledPrefix, NEW n, NEW address
    PROVE  LET g == Flat!buildGeneration(catalog, n, address)
               slice == Flat!BuiltValues(catalog)
           IN  /\ g = [stored |-> g.stored, index |-> n, values |-> address]
               /\ g.stored \in SUBSET Prefix
               /\ g.index = n /\ g.values = address
               /\ DOMAIN slice = Slots(g.stored)
               /\ FilledAlike(g.stored, slice)
<1> DEFINE stored == {Flat!decompose(sp) : sp \in DOMAIN catalog}
           Worth(p) == IF Flat!Spelled("mapped", p) \in DOMAIN catalog
                       THEN catalog[Flat!Spelled("mapped", p)]
                       ELSE catalog[Flat!Spelled("native", p)]
           g == Flat!buildGeneration(catalog, n, address)
           slice == Flat!BuiltValues(catalog)
<1>1. g = [stored |-> stored, index |-> n, values |-> address]
  BY DEF Flat!buildGeneration
<1>2. stored \in SUBSET Prefix
  BY SamePrefixes DEF Flat!SpelledPrefix, Flat!Spelled, Flat!decompose
<1>3. slice = [slot \in Slots(stored) |-> Worth(RefOf(stored, slot))]
  <2>1. slice = [slot \in Flat!Slots(stored) |-> Worth(Flat!RefOf(stored, slot))]
    BY DEF Flat!BuiltValues
  <2> HIDE DEF stored, slice, Worth
  <2> QED BY <2>1, SameSlots
<1> HIDE DEF stored, slice, g, Worth
<1>4. DOMAIN slice = Slots(stored) /\ FilledAlike(stored, slice)
  <2>1. \A slot \in Slots(stored) : slice[slot] = Worth(RefOf(stored, slot))
    BY <1>3
  <2>2. DOMAIN slice = Slots(stored)
    BY <1>3
  <2> QED BY <2>1, <2>2 DEF FilledAlike
<1> QED BY <1>1, <1>2, <1>4 DEF g, slice

\* What a batch asks for are mutations, and it looks up only their prefixes.
LEMMA FlatChangesTyped ==
    ASSUME FlatInv, TypeOK
    PROVE  /\ Flat!Gathered(batch) \in Seq(FlatMutation)
           /\ DOMAIN Flat!Coalesced(batch) \in SUBSET Flat!SpelledPrefix
<1> DEFINE asked == [i \in DOMAIN batch |-> mutations[batch[i]]]
           all == Flat!Gathered(batch)
<1>1. DOMAIN batch = 1 .. Len(batch) /\ Len(batch) \in Nat /\ \A i \in DOMAIN batch : batch[i] \in Request
  BY DEF TypeOK
<1>2. asked \in Seq(Seq(FlatMutation))
  <2>1. \A i \in DOMAIN batch : mutations[batch[i]] \in Seq(FlatMutation)
    BY <1>1 DEF FlatInv
  <2> QED BY <1>1, <2>1
<1>3. all = FlattenSeq(asked)
  BY SameFlatten DEF Flat!Gathered
<1> HIDE DEF all, asked
<1>4. all \in Seq(FlatMutation)
  BY <1>2, <1>3, FlattenedType
<1>5. DOMAIN Flat!Coalesced(batch) = {all[i].prefix : i \in DOMAIN all}
  BY SameBatches DEF Flat!Coalesced, LastOnes, Named, all
<1>6. ASSUME NEW i \in DOMAIN all PROVE all[i].prefix \in Flat!SpelledPrefix
  <2>1. all[i] \in FlatMutation
    BY <1>4
  <2> QED BY <2>1 DEF FlatMutation
<1> QED BY <1>4, <1>5, <1>6 DEF all

\* New, and the two publications.
LEMMA InitFlat == package = "flatlpm" /\ Init => FlatInv
<1> SUFFICES ASSUME Flat!Init PROVE FlatInv
  BY DEF Init
<1>1. PICK catalog \in FlatCatalogs :
         /\ gens = <<Flat!buildGeneration(catalog, 1, 1)>>
         /\ slices = <<Flat!BuiltValues(catalog)>>
  BY DEF Flat!Init
<1> DEFINE g == Flat!buildGeneration(catalog, 1, 1)
           slice == Flat!BuiltValues(catalog)
<1>2. /\ g = [stored |-> g.stored, index |-> g.index, values |-> g.values]
      /\ g.stored \in SUBSET Prefix /\ g.index = 1 /\ g.values = 1
      /\ DOMAIN slice = Slots(g.stored) /\ FilledAlike(g.stored, slice)
  <2>1. DOMAIN catalog \in SUBSET Flat!SpelledPrefix
    BY RouteAssumption
  <2> QED BY <2>1, FlatBuilds
<1>3. gens = <<g>> /\ slices = <<slice>>
  BY <1>1
<1> HIDE DEF g, slice
<1>4. /\ Len(gens) = 1 /\ gens[1] = g /\ gens \in Seq(Range(gens))
      /\ Len(slices) = 1 /\ slices[1] = slice /\ slices \in Seq(Range(slices))
  <2>1. /\ Len(gens) = 1 /\ gens[1] = g /\ DOMAIN gens = 1 .. 1
        /\ Len(slices) = 1 /\ slices[1] = slice /\ DOMAIN slices = 1 .. 1
    BY <1>3
  <2>2. g \in Range(gens) /\ slice \in Range(slices)
    BY <2>1 DEF Range
  <2> QED BY <1>3, <2>1, <2>2
<1>5. number = 1
  BY DEF Flat!Init, Flat!ProtocolInit
<1>6. mutations \in [Request -> Seq(FlatMutation)]
  <2>1. mutations = [r \in Request |-> <<>>] /\ <<>> \in Seq(FlatMutation)
    BY DEF Flat!Init
  <2> QED BY <2>1
<1>7. FlatGeneration(gens[1], 1, slices)
  BY <1>2, <1>4 DEF FlatGeneration
<1>8. \A n \in 1 .. Len(gens) : FlatGeneration(gens[n], n, slices)
  BY <1>4, <1>7
<1> QED BY <1>4, <1>5, <1>6, <1>8 DEF FlatInv

LEMMA CurrentFlat ==
    ASSUME FlatInv, TypeOK
    PROVE  /\ Len(gens) \in Nat \ {0}
           /\ FlatGeneration(Flat!current, Len(gens), slices)
<1>1. Len(gens) \in Nat \ {0}
  BY DEF FlatInv, TypeOK
<1> QED BY <1>1 DEF FlatInv, Flat!current

LEMMA FlatStructural ==
    ASSUME FlatInv, TypeOK, Flat!PublishStructural
    PROVE  FlatInv' /\ Flat!GenerationsImmutableStep
<1> DEFINE catalog == Flat!rebuilt(Flat!Coalesced(batch))
           g == Flat!buildGeneration(catalog, number + 1, Len(slices) + 1)
           slice == Flat!BuiltValues(catalog)
<1>1. /\ Flat!Publish(Flat!Buildable(catalog))
      /\ IF Flat!Buildable(catalog) THEN gens' = Append(gens, g) /\ slices' = Append(slices, slice)
                                    ELSE UNCHANGED <<gens, slices>>
      /\ mutations' = mutations
  BY DEF Flat!PublishStructural
<1>2. number' = IF Flat!Buildable(catalog) THEN number + 1 ELSE number
  BY <1>1 DEF Flat!Publish
<1>3. Flat!current.stored \in SUBSET Prefix
  BY CurrentFlat DEF FlatGeneration
<1>4. DOMAIN catalog \in SUBSET Flat!SpelledPrefix
  <2> DEFINE changes == Flat!Coalesced(batch)
  <2>1. DOMAIN changes \in SUBSET Flat!SpelledPrefix
    BY FlatChangesTyped
  <2> HIDE DEF changes
  <2>2. DOMAIN Flat!recovered = {Flat!Spelled("native", p) : p \in Flat!current.stored}
    BY DEF Flat!recovered
  <2>3. DOMAIN Flat!recovered \in SUBSET Flat!SpelledPrefix
    BY <1>3, <2>2, SamePrefixes DEF Flat!SpelledPrefix
  <2>4. DOMAIN Flat!rebuilt(changes) \in SUBSET (DOMAIN Flat!recovered \cup DOMAIN changes)
    BY SameBatches DEF Flat!rebuilt, Amended, Overwrite
  <2> QED BY <2>1, <2>3, <2>4 DEF changes
<1> HIDE DEF catalog
<1>5. /\ g = [stored |-> g.stored, index |-> g.index, values |-> g.values]
      /\ g.stored \in SUBSET Prefix /\ g.index = number + 1 /\ g.values = Len(slices) + 1
      /\ DOMAIN slice = Slots(g.stored) /\ FilledAlike(g.stored, slice)
  <2>1. /\ g = [stored |-> g.stored, index |-> number + 1, values |-> Len(slices) + 1]
        /\ g.stored \in SUBSET Prefix /\ g.index = number + 1 /\ g.values = Len(slices) + 1
        /\ DOMAIN slice = Slots(g.stored) /\ FilledAlike(g.stored, slice)
    BY <1>4, FlatBuilds
  <2> HIDE DEF g, slice
  <2> QED BY <2>1
<1> HIDE DEF g, slice
<1>6. CASE Flat!Buildable(catalog)
  <2>1. Len(gens) = number /\ Len(gens) + 1 \in 1 .. Len(gens) + 1
    BY DEF FlatInv
  <2> QED BY <1>1, <1>2, <1>5, <1>6, <2>1, FlatAppends
<1>7. CASE ~Flat!Buildable(catalog)
  <2>1. mutations' \in [Request -> Seq(FlatMutation)]
    BY <1>1 DEF FlatInv
  <2> QED BY <1>1, <1>2, <1>7, <2>1, FlatStays
<1> QED BY <1>6, <1>7

LEMMA FlatPayload ==
    ASSUME FlatInv, TypeOK, Flat!PublishPayload
    PROVE  FlatInv' /\ Flat!GenerationsImmutableStep
<1> DEFINE now == Flat!current
           g == [now EXCEPT !.values = Len(slices) + 1]
<1>1. /\ Flat!Publish(TRUE)
      /\ gens' = Append(gens, g)
      /\ mutations' = mutations
  BY DEF Flat!PublishPayload
<1>2. PICK slice \in Flat!repayloads(Flat!Coalesced(batch)) : slices' = Append(slices, slice)
  BY DEF Flat!PublishPayload
<1>3. number' = number + 1
  BY <1>1 DEF Flat!Publish
<1>4. DOMAIN slice = Slots(now.stored)
  <2>1. DOMAIN slice = Flat!Slots(now.stored)
    BY <1>2 DEF Flat!repayloads
  <2> HIDE DEF now
  <2> QED BY <2>1, SameSlots
<1>5. FlatGeneration(now, Len(gens), slices) /\ Len(gens) \in Nat \ {0}
  BY CurrentFlat
<1> HIDE DEF now
<1>6. g = [stored |-> now.stored, index |-> now.index, values |-> Len(slices) + 1]
  BY <1>5 DEF FlatGeneration
<1>7. /\ g = [stored |-> g.stored, index |-> g.index, values |-> g.values]
      /\ g.stored = now.stored /\ g.index = now.index /\ g.values = Len(slices) + 1
  BY <1>6
<1> HIDE DEF g
<1>8. g.stored \in SUBSET Prefix /\ g.index \in 1 .. Len(gens) + 1 /\ g.index # Len(gens) + 1
  BY <1>5, <1>7 DEF FlatGeneration
<1> QED BY <1>1, <1>2, <1>3, <1>4, <1>7, <1>8, FlatAppends

LEMMA StepFlat ==
    ASSUME FlatInv, TypeOK, Flat!TableNext
    PROVE  FlatInv' /\ Flat!GenerationsImmutableStep
<1> USE DEF Flat!dataVars
<1>1. ASSUME NEW r \in Request, Flat!Submit(r)
      PROVE  FlatInv' /\ Flat!GenerationsImmutableStep
  <2>1. number' = number
    BY <1>1 DEF Flat!Submit, Flat!SubmitInvalid, Flat!SubmitNormalized, Flat!SubmitStep, Flat!writerVars,
           Flat!SubmitLock, Flat!SubmitUnlockClosed, Flat!SubmitErrClosed, Flat!SubmitSend, Flat!SubmitUnlock
  <2>2. UNCHANGED <<gens, slices>>
    BY <1>1 DEF Flat!Submit
  <2>3. mutations' \in [Request -> Seq(FlatMutation)]
    BY <1>1, RouteAssumption DEF Flat!Submit, FlatInv, FlatMutation
  <2> QED BY <2>1, <2>2, <2>3, FlatStays
<1>2. ASSUME NEW c \in Closer, Flat!Close(c)
      PROVE  FlatInv' /\ Flat!GenerationsImmutableStep
  <2>1. number' = number
    BY <1>2 DEF Flat!Close, Flat!CloseCall, Flat!CloseStep, Flat!writerVars, Flat!CloseOnceFirst,
           Flat!CloseOnceLater, Flat!CloseLock, Flat!CloseStop, Flat!CloseUnlockLater, Flat!CloseReturn
  <2> QED BY <1>2, <2>1, FlatStays DEF Flat!Close, FlatInv
<1>3. CASE Flat!Manage
  <2>1. number' = number
    BY <1>3, SameWriter, CollectStoresNothing DEF Flat!Manage
  <2> QED BY <1>3, <2>1, FlatStays DEF Flat!Manage, FlatInv
<1>4. CASE Flat!PublishStructural
  BY <1>4, FlatStructural
<1>5. CASE Flat!PublishPayload
  BY <1>5, FlatPayload
<1>6. CASE Flat!CountStats
  BY <1>6, FlatStays DEF Flat!CountStats, Flat!CountPublication, FlatInv
<1> QED BY <1>1, <1>2, <1>3, <1>4, <1>5, <1>6 DEF Flat!TableNext

\* A lookup in a generation that was rebuilt ends at a slot that was filled with
\* the value of the longest match.
LEMMA FlatAnswers == FlatInv => Flat!RebuildIsLongestMatch
<1> SUFFICES ASSUME FlatInv, NEW n \in DOMAIN gens, gens[n].index = n, NEW a \in Addr
             PROVE  Flat!Lookup(gens[n], a) = Flat!Expected(gens[n], a)
  BY SamePrefixes DEF Flat!RebuildIsLongestMatch
<1> DEFINE S == gens[n].stored
           M == Matches(S, a)
           slice == slices[gens[n].values]
           slot == LookupSlot(S, a)
           best == LongestMatch(S, a)
<1>1. FlatGeneration(gens[n], n, slices)
  BY DEF FlatInv
<1>2. S \in SUBSET Prefix /\ IsFiniteSet(S) /\ FilledAlike(S, slice)
  BY <1>1, PrefixesAreFinite, FS_Subset DEF FlatGeneration
<1>3. Flat!Lookup(gens[n], a) = IF slot = NoSlot THEN <<>> ELSE <<slice[slot]>>
  BY SameLookup, SameSlotNames DEF Flat!Lookup, Flat!Values
<1>4. Flat!Expected(gens[n], a) = IF M = {} THEN <<>> ELSE <<slice[Own(best)]>>
  BY SameMatches, SameSlotNames DEF Flat!Expected, Flat!Values
<1> HIDE DEF S, slice
<1>5. StandsFor(S, slot, M)
  BY <1>2, LookupEndsAtLongest
<1>6. best = Longest(M)
  BY DEF LongestMatch, Longest
<1> HIDE DEF M, slot, best
<1>7. CASE M = {}
  BY <1>3, <1>4, <1>5, <1>7 DEF StandsFor
<1>8. CASE M # {}
  <2>1. slot \in Slots(S) /\ RefOf(S, slot) = best /\ slot # NoSlot
    BY <1>5, <1>6, <1>8 DEF StandsFor, Slots, NoSlot, Own, Copy
  <2>2. best \in S
    <3>1. M \in SUBSET S /\ \A p \in M : Covers(p, a)
      BY DEF M, Matches
    <3> QED BY <1>2, <1>6, <1>8, <3>1, LongestIsUnique
  <2>3. Own(best) \in Slots(S) /\ RefOf(S, Own(best)) = best
    BY <2>2 DEF Slots, RefOf, Own
  <2> QED BY <1>2, <1>3, <1>4, <1>8, <2>1, <2>3 DEF FilledAlike
<1> QED BY <1>7, <1>8

-----------------------------------------------------------------------------
(* dirlpm: the same for two families. *)

\* A list of prefixes in address order, each at its rank.
Listed(list, S) ==
    /\ DOMAIN list = 1 .. Cardinality(S)
    /\ \A i \in DOMAIN list : list[i] \in S /\ Rank(S, list[i]) = i
    /\ \A p \in S : Rank(S, p) \in DOMAIN list /\ list[Rank(S, p)] = p

LEMMA SortedIsListed ==
    ASSUME NEW S \in SUBSET Prefix
    PROVE  Listed(Dir!Sorted(S), S) /\ ToSet(Dir!Sorted(S)) = S
<1> DEFINE n == Cardinality(S)
           list == Dir!Sorted(S)
<1>1. n \in Nat /\ Ranked(S)
  BY PrefixesAreFinite, FS_Subset, RanksAreDense
<1>2. DOMAIN list = 1 .. n /\ \A i \in 1 .. n : list[i] = CHOOSE p \in S : Rank(S, p) = i
  BY SamePrefixes, SameBlocks DEF Dir!Sorted
<1> HIDE DEF list
<1>3. \A i \in 1 .. n : list[i] \in S /\ Rank(S, list[i]) = i
  <2> TAKE i \in 1 .. n
  <2>1. \E p \in S : Rank(S, p) = i
    BY <1>1 DEF Ranked
  <2> QED BY <1>2, <2>1
<1>4. \A p \in S : Rank(S, p) \in 1 .. n /\ list[Rank(S, p)] = p
  <2> TAKE p \in S
  <2>1. Rank(S, p) \in 1 .. n
    BY <1>1 DEF Ranked
  <2>2. list[Rank(S, p)] \in S /\ Rank(S, list[Rank(S, p)]) = Rank(S, p)
    BY <1>3, <2>1
  <2> QED BY <1>1, <2>1, <2>2 DEF Ranked
<1>5. Listed(list, S)
  BY <1>2, <1>3, <1>4 DEF Listed
<1>6. ToSet(list) = S
  BY <1>2, <1>3, <1>4 DEF ToSet
<1> QED BY <1>5, <1>6 DEF list

DirMutation == [prefix : Dir!Route, value : Value, delete : BOOLEAN]

\* An array of the IPv4 prefixes in order, the blocks expanded from it, a value for
\* each place; and an index of the IPv6 ones as flatlpm has.
DirGeneration(g, n, memory4, memory6) ==
    /\ g = [exact4 |-> g.exact4, table4 |-> g.table4, value4 |-> g.value4,
            index6 |-> g.index6, value6 |-> g.value6, built |-> g.built]
    /\ \E S \in SUBSET Prefix : g.exact4 = Dir!Sorted(S)
    /\ g.table4 = Dir!Expand(g.exact4)
    /\ g.value4 \in 1 .. Len(memory4)
    /\ DOMAIN memory4[g.value4] = DOMAIN g.exact4
    /\ g.index6 \in SUBSET Prefix
    /\ g.value6 \in 1 .. Len(memory6)
    /\ DOMAIN memory6[g.value6] = Slots(g.index6)
    /\ g.built \in 1 .. n
    /\ g.built = n => FilledAlike(g.index6, memory6[g.value6])

DirInv ==
    /\ mutations \in [Request -> Seq(DirMutation)]
    /\ gens \in Seq(Range(gens)) /\ Len(gens) = number /\ number # 0
    /\ slices \in Seq(Range(slices)) /\ slices6 \in Seq(Range(slices6))
    /\ \A n \in 1 .. Len(gens) : DirGeneration(gens[n], n, slices, slices6)

\* A memory that was added to, or not.
Longer(memory, larger) ==
    /\ Len(memory) \in Nat /\ Len(larger) \in Nat /\ Len(memory) <= Len(larger)
    /\ larger \in Seq(Range(larger))
    /\ \A i \in 1 .. Len(memory) : larger[i] = memory[i]

LEMMA AppendIsLonger ==
    ASSUME NEW memory, memory \in Seq(Range(memory)), NEW slice
    PROVE  /\ Longer(memory, memory)
           /\ Longer(memory, Append(memory, slice))
           /\ Len(Append(memory, slice)) = Len(memory) + 1
           /\ Append(memory, slice)[Len(memory) + 1] = slice
<1>1. /\ Append(memory, slice) \in Seq(Range(Append(memory, slice)))
      /\ Len(memory) \in Nat
      /\ Len(Append(memory, slice)) = Len(memory) + 1
      /\ \A i \in 1 .. Len(memory) : Append(memory, slice)[i] = memory[i]
      /\ Append(memory, slice)[Len(memory) + 1] = slice
  BY Appended
<1> DEFINE larger == Append(memory, slice)
<1> HIDE DEF larger
<1>2. Longer(memory, larger)
  BY <1>1 DEF Longer, larger
<1>3. Longer(memory, memory)
  BY <1>1 DEF Longer
<1> QED BY <1>1, <1>2, <1>3 DEF larger

DirKept(g, n, memory4, larger4, memory6, larger6) ==
    /\ DirGeneration(g, n, larger4, larger6)
    /\ larger4[g.value4] = memory4[g.value4]
    /\ larger6[g.value6] = memory6[g.value6]

LEMMA DirGenerationStays ==
    ASSUME NEW memory4, NEW larger4, Longer(memory4, larger4),
           NEW memory6, NEW larger6, Longer(memory6, larger6),
           NEW g, NEW n, DirGeneration(g, n, memory4, memory6)
    PROVE  DirKept(g, n, memory4, larger4, memory6, larger6)
<1>1. /\ g.value4 \in 1 .. Len(larger4) /\ larger4[g.value4] = memory4[g.value4]
      /\ g.value6 \in 1 .. Len(larger6) /\ larger6[g.value6] = memory6[g.value6]
  BY DEF DirGeneration, Longer
<1>2. DirGeneration(g, n, larger4, larger6)
  BY <1>1 DEF DirGeneration
<1> QED BY <1>1, <1>2 DEF DirKept

\* A published generation is appended, and so are the slices it does not share.
LEMMA DirAppends ==
    ASSUME DirInv, NEW g, DirGeneration(g, Len(gens) + 1, slices', slices6'),
           Longer(slices, slices'), Longer(slices6, slices6'),
           gens' = Append(gens, g), mutations' = mutations, number' = number + 1
    PROVE  DirInv' /\ Dir!GenerationsImmutableStep
<1>1. /\ Len(gens) \in Nat /\ gens' \in Seq(Range(gens'))
      /\ Len(gens') = Len(gens) + 1
      /\ \A n \in 1 .. Len(gens) : gens'[n] = gens[n]
      /\ gens'[Len(gens) + 1] = g
  BY Appended DEF DirInv
<1>2. ASSUME NEW n \in 1 .. Len(gens)
      PROVE  DirKept(gens[n], n, slices, slices', slices6, slices6')
  <2>1. DirGeneration(gens[n], n, slices, slices6)
    BY DEF DirInv
  <2> QED BY <2>1, DirGenerationStays
<1>3. \A n \in 1 .. Len(gens') : DirGeneration(gens'[n], n, slices', slices6')
  BY <1>1, <1>2 DEF DirKept
<1>4. DirInv'
  <2>1. /\ mutations' \in [Request -> Seq(DirMutation)] /\ Len(gens') = number' /\ number' # 0
        /\ slices' \in Seq(Range(slices')) /\ slices6' \in Seq(Range(slices6'))
    BY <1>1 DEF DirInv, Longer
  <2> QED BY <1>1, <1>3, <2>1 DEF DirInv
<1>5. DOMAIN gens = 1 .. Len(gens)
  BY DEF DirInv
<1>6. Dir!GenerationsImmutableStep
  BY <1>1, <1>2, <1>5 DEF Dir!GenerationsImmutableStep, DirKept
<1> QED BY <1>4, <1>6

LEMMA DirStays ==
    ASSUME DirInv, UNCHANGED <<gens, slices, slices6>>, number' = number,
           mutations' \in [Request -> Seq(DirMutation)]
    PROVE  DirInv' /\ Dir!GenerationsImmutableStep
<1>1. DirInv'
  BY DEF DirInv
<1>2. Dir!GenerationsImmutableStep
  BY DEF Dir!GenerationsImmutableStep
<1> QED BY <1>1, <1>2

\* buildGeneration makes such a generation, whatever routes it is given.
LEMMA DirBuilds ==
    ASSUME NEW catalog, DOMAIN catalog \in SUBSET Dir!Route, NEW n \in Nat \ {0},
           NEW memory4, NEW memory6, NEW value4 \in 1 .. Len(memory4), NEW value6 \in 1 .. Len(memory6),
           memory4[value4] = Dir!Values4(catalog), memory6[value6] = Dir!Values6(catalog)
    PROVE  DirGeneration(Dir!buildGeneration(catalog, n, value4, value6), n, memory4, memory6)
<1> DEFINE v4 == Dir!Family(DOMAIN catalog, TRUE)
           v6 == Dir!Family(DOMAIN catalog, FALSE)
           g == Dir!buildGeneration(catalog, n, value4, value6)
           slice == Dir!Values6(catalog)
<1>1. v4 \in SUBSET Prefix /\ v6 \in SUBSET Prefix
  BY SamePrefixes DEF Dir!Family, Dir!Route
<1>2. slice = [slot \in Slots(v6) |-> catalog[Dir!Route6(RefOf(v6, slot))]]
  <2>1. slice = [slot \in Dir!Slots(v6) |-> catalog[Dir!Route6(Dir!RefOf(v6, slot))]]
    BY DEF Dir!Values6
  <2> HIDE DEF v6, slice
  <2> QED BY <2>1, SameSlots
<1>3. g = [exact4 |-> Dir!Sorted(v4), table4 |-> Dir!Expand(Dir!Sorted(v4)), value4 |-> value4,
           index6 |-> v6, value6 |-> value6, built |-> n]
  BY DEF Dir!buildGeneration
<1>4. memory6[value6] = slice /\ DOMAIN memory4[value4] = DOMAIN Dir!Sorted(v4)
  BY DEF Dir!Values4
<1> HIDE DEF v4, v6, g, slice
<1>5. DOMAIN slice = Slots(v6) /\ FilledAlike(v6, slice)
  BY <1>2 DEF FilledAlike
<1>6. DirGeneration(g, n, memory4, memory6)
  BY <1>1, <1>3, <1>4, <1>5 DEF DirGeneration
<1> QED BY <1>6 DEF g

\* What a batch asks for are mutations, and it looks up only their prefixes.
LEMMA DirChangesTyped ==
    ASSUME DirInv, TypeOK
    PROVE  /\ Dir!Gathered(batch) \in Seq(DirMutation)
           /\ DOMAIN Dir!Coalesced(batch) \in SUBSET Dir!Route
<1> DEFINE asked == [i \in DOMAIN batch |-> mutations[batch[i]]]
           all == Dir!Gathered(batch)
<1>1. DOMAIN batch = 1 .. Len(batch) /\ Len(batch) \in Nat /\ \A i \in DOMAIN batch : batch[i] \in Request
  BY DEF TypeOK
<1>2. asked \in Seq(Seq(DirMutation))
  <2>1. \A i \in DOMAIN batch : mutations[batch[i]] \in Seq(DirMutation)
    BY <1>1 DEF DirInv
  <2> QED BY <1>1, <2>1
<1>3. all = FlattenSeq(asked)
  BY SameFlatten DEF Dir!Gathered
<1> HIDE DEF all, asked
<1>4. all \in Seq(DirMutation)
  BY <1>2, <1>3, FlattenedType
<1>5. DOMAIN Dir!Coalesced(batch) = {all[i].prefix : i \in DOMAIN all}
  BY SameBatches DEF Dir!Coalesced, LastOnes, Named, all
<1>6. ASSUME NEW i \in DOMAIN all PROVE all[i].prefix \in Dir!Route
  <2>1. all[i] \in DirMutation
    BY <1>4
  <2> QED BY <2>1 DEF DirMutation
<1> QED BY <1>4, <1>5, <1>6 DEF all

LEMMA CurrentDir ==
    ASSUME DirInv, TypeOK
    PROVE  /\ Len(gens) \in Nat \ {0}
           /\ DirGeneration(Dir!current, Len(gens), slices, slices6)
<1>1. Len(gens) \in Nat \ {0}
  BY DEF DirInv, TypeOK
<1> QED BY <1>1 DEF DirInv, Dir!current

LEMMA InitDir == package = "dirlpm" /\ Init => DirInv
<1> SUFFICES ASSUME Dir!Init PROVE DirInv
  BY DEF Init
<1>1. PICK catalog \in DirCatalogs :
         /\ gens = <<Dir!buildGeneration(catalog, 1, 1, 1)>>
         /\ slices = <<Dir!Values4(catalog)>>
         /\ slices6 = <<Dir!Values6(catalog)>>
  BY DEF Dir!Init
<1> DEFINE g == Dir!buildGeneration(catalog, 1, 1, 1)
           slice4 == Dir!Values4(catalog)
           slice6 == Dir!Values6(catalog)
<1>2. gens = <<g>> /\ slices = <<slice4>> /\ slices6 = <<slice6>>
  BY <1>1
<1> HIDE DEF g, slice4, slice6
<1>3. /\ Len(gens) = 1 /\ gens[1] = g /\ gens \in Seq(Range(gens))
      /\ Len(slices) = 1 /\ slices[1] = slice4 /\ slices \in Seq(Range(slices))
      /\ Len(slices6) = 1 /\ slices6[1] = slice6 /\ slices6 \in Seq(Range(slices6))
  <2>1. /\ Len(gens) = 1 /\ gens[1] = g /\ DOMAIN gens = 1 .. 1
        /\ Len(slices) = 1 /\ slices[1] = slice4 /\ DOMAIN slices = 1 .. 1
        /\ Len(slices6) = 1 /\ slices6[1] = slice6 /\ DOMAIN slices6 = 1 .. 1
    BY <1>2
  <2>2. g \in Range(gens) /\ slice4 \in Range(slices) /\ slice6 \in Range(slices6)
    BY <2>1 DEF Range
  <2> QED BY <1>2, <2>1, <2>2
<1>4. DirGeneration(g, 1, slices, slices6)
  <2>1. DOMAIN catalog \in SUBSET Dir!Route
    BY RouteAssumption
  <2>2. 1 \in Nat \ {0} /\ 1 \in 1 .. Len(slices) /\ 1 \in 1 .. Len(slices6)
    BY <1>3
  <2>3. slices[1] = Dir!Values4(catalog) /\ slices6[1] = Dir!Values6(catalog)
    BY <1>3 DEF slice4, slice6
  <2> QED BY <2>1, <2>2, <2>3, DirBuilds DEF g
<1>5. number = 1
  BY DEF Dir!Init, Dir!ProtocolInit
<1>6. mutations \in [Request -> Seq(DirMutation)]
  <2>1. mutations = [r \in Request |-> <<>>] /\ <<>> \in Seq(DirMutation)
    BY DEF Dir!Init
  <2> QED BY <2>1
<1>7. \A n \in 1 .. Len(gens) : DirGeneration(gens[n], n, slices, slices6)
  BY <1>3, <1>4
<1> QED BY <1>3, <1>5, <1>6, <1>7 DEF DirInv

LEMMA DirStructural ==
    ASSUME DirInv, TypeOK, Dir!PublishStructural
    PROVE  DirInv' /\ Dir!GenerationsImmutableStep
<1> DEFINE changes == Dir!Coalesced(batch)
           catalog == Dir!rebuilt(changes)
           g == Dir!buildGeneration(catalog, number + 1, Len(slices) + 1, Len(slices6) + 1)
           slice4 == Dir!Values4(catalog)
           slice6 == Dir!Values6(catalog)
<1>1. /\ Dir!Publish(Dir!Buildable(catalog))
      /\ IF Dir!Buildable(catalog)
         THEN gens' = Append(gens, g) /\ slices' = Append(slices, slice4)
              /\ slices6' = Append(slices6, slice6)
         ELSE UNCHANGED <<gens, slices, slices6>>
      /\ mutations' = mutations
  BY DEF Dir!PublishStructural
<1>2. number' = IF Dir!Buildable(catalog) THEN number + 1 ELSE number
  BY <1>1 DEF Dir!Publish
<1>3. Len(gens) \in Nat \ {0} /\ DirGeneration(Dir!current, Len(gens), slices, slices6)
  BY CurrentDir
<1>4. DOMAIN catalog \in SUBSET Dir!Route
  <2>1. DOMAIN changes \in SUBSET Dir!Route
    BY DirChangesTyped
  <2> HIDE DEF changes
  <2>2. PICK S \in SUBSET Prefix : Dir!current.exact4 = Dir!Sorted(S)
    BY <1>3 DEF DirGeneration
  <2>3. Dir!ToSet(Dir!current.exact4) = S
    BY <2>2, SortedIsListed, SameBlocks
  <2>4. DOMAIN Dir!recovered = {Dir!Route4(p) : p \in S} \cup {Dir!Route6(p) : p \in Dir!current.index6}
    BY <2>3 DEF Dir!recovered
  <2>5. Dir!current.index6 \in SUBSET Prefix
    BY <1>3 DEF DirGeneration
  <2>6. DOMAIN Dir!recovered \in SUBSET Dir!Route
    <3>1. \A p \in Prefix : Dir!Route4(p) \in Dir!Route /\ Dir!Route6(p) \in Dir!Route
      BY SamePrefixes DEF Dir!Route, Dir!Route4, Dir!Route6
    <3> QED BY <2>4, <2>5, <3>1
  <2>7. DOMAIN Dir!rebuilt(changes) \in SUBSET (DOMAIN Dir!recovered \cup DOMAIN changes)
    BY SameBatches DEF Dir!rebuilt, Amended, Overwrite
  <2> QED BY <2>1, <2>6, <2>7
<1> HIDE DEF catalog
<1>5. CASE Dir!Buildable(catalog)
  <2>1. gens' = Append(gens, g) /\ slices' = Append(slices, slice4) /\ slices6' = Append(slices6, slice6)
    BY <1>1, <1>5
  <2> HIDE DEF slice4, slice6
  <2>2. /\ Longer(slices, slices') /\ Len(slices') = Len(slices) + 1
        /\ slices'[Len(slices) + 1] = slice4
        /\ Longer(slices6, slices6') /\ Len(slices6') = Len(slices6) + 1
        /\ slices6'[Len(slices6) + 1] = slice6
    BY <2>1, AppendIsLonger DEF DirInv
  <2>3. /\ Len(slices) + 1 \in 1 .. Len(slices') /\ Len(slices6) + 1 \in 1 .. Len(slices6')
        /\ Len(gens) + 1 = number + 1 /\ number + 1 \in Nat \ {0}
    BY <1>3, <2>2 DEF Longer, DirInv
  <2>4. DirGeneration(g, number + 1, slices', slices6')
    BY <1>4, <2>2, <2>3, DirBuilds DEF slice4, slice6
  <2> HIDE DEF g
  <2> QED BY <1>1, <1>2, <1>5, <2>1, <2>2, <2>3, <2>4, DirAppends
<1>6. CASE ~Dir!Buildable(catalog)
  <2>1. mutations' \in [Request -> Seq(DirMutation)]
    BY <1>1 DEF DirInv
  <2> QED BY <1>1, <1>2, <1>6, <2>1, DirStays
<1> QED BY <1>5, <1>6

LEMMA DirPayload ==
    ASSUME DirInv, TypeOK, Dir!PublishPayload
    PROVE  DirInv' /\ Dir!GenerationsImmutableStep
<1> DEFINE now == Dir!current
           changes == Dir!Coalesced(batch)
           touched4 == Dir!Touched(changes, TRUE)
           touched6 == Dir!Touched(changes, FALSE)
           new4 == Dir!Overwritten(slices[now.value4], changes, TRUE)
           new6 == Dir!Overwritten(slices6[now.value6], changes, FALSE)
           value4 == IF touched4 THEN Len(slices) + 1 ELSE now.value4
           value6 == IF touched6 THEN Len(slices6) + 1 ELSE now.value6
           g == [now EXCEPT !.value4 = value4, !.value6 = value6]
<1>1. /\ Dir!Publish(TRUE)
      /\ slices' = IF touched4 THEN Append(slices, new4) ELSE slices
      /\ slices6' = IF touched6 THEN Append(slices6, new6) ELSE slices6
      /\ mutations' = mutations
  BY DEF Dir!PublishPayload
<1>2. gens' = Append(gens, g)
  BY DEF Dir!PublishPayload
<1>3. number' = number + 1
  BY <1>1 DEF Dir!Publish
<1>4. DOMAIN new4 = DOMAIN slices[now.value4] /\ DOMAIN new6 = DOMAIN slices6[now.value6]
  BY DEF Dir!Overwritten
<1>5. Len(gens) \in Nat \ {0} /\ DirGeneration(now, Len(gens), slices, slices6)
  BY CurrentDir
<1> HIDE DEF now, touched4, touched6, new4, new6
<1>6. /\ Longer(slices, slices') /\ value4 \in 1 .. Len(slices')
      /\ DOMAIN slices'[value4] = DOMAIN now.exact4
  <2>1. CASE touched4
    <3>1. DOMAIN new4 = DOMAIN now.exact4
      BY <1>4, <1>5 DEF DirGeneration
    <3>2. slices \in Seq(Range(slices)) /\ slices' = Append(slices, new4) /\ value4 = Len(slices) + 1
      BY <1>1, <2>1 DEF DirInv
    <3>3. Longer(slices, slices') /\ Len(slices') = Len(slices) + 1 /\ slices'[value4] = new4
      BY <3>2, AppendIsLonger
    <3> QED BY <3>1, <3>2, <3>3 DEF Longer
  <2>2. CASE ~touched4
    <3>1. slices \in Seq(Range(slices)) /\ slices' = slices /\ value4 = now.value4
      BY <1>1, <2>2 DEF DirInv
    <3>2. now.value4 \in 1 .. Len(slices) /\ DOMAIN slices[now.value4] = DOMAIN now.exact4
      BY <1>5 DEF DirGeneration
    <3> QED BY <3>1, <3>2, AppendIsLonger
  <2> QED BY <2>1, <2>2
<1>7. /\ Longer(slices6, slices6') /\ value6 \in 1 .. Len(slices6')
      /\ DOMAIN slices6'[value6] = Slots(now.index6)
  <2>1. CASE touched6
    <3>1. DOMAIN new6 = Slots(now.index6)
      BY <1>4, <1>5 DEF DirGeneration
    <3>2. slices6 \in Seq(Range(slices6)) /\ slices6' = Append(slices6, new6) /\ value6 = Len(slices6) + 1
      BY <1>1, <2>1 DEF DirInv
    <3>3. Longer(slices6, slices6') /\ Len(slices6') = Len(slices6) + 1 /\ slices6'[value6] = new6
      BY <3>2, AppendIsLonger
    <3> QED BY <3>1, <3>2, <3>3 DEF Longer
  <2>2. CASE ~touched6
    <3>1. slices6 \in Seq(Range(slices6)) /\ slices6' = slices6 /\ value6 = now.value6
      BY <1>1, <2>2 DEF DirInv
    <3>2. now.value6 \in 1 .. Len(slices6) /\ DOMAIN slices6[now.value6] = Slots(now.index6)
      BY <1>5 DEF DirGeneration
    <3> QED BY <3>1, <3>2, AppendIsLonger
  <2> QED BY <2>1, <2>2
<1> HIDE DEF value4, value6
<1>8. g = [exact4 |-> now.exact4, table4 |-> now.table4, value4 |-> value4,
           index6 |-> now.index6, value6 |-> value6, built |-> now.built]
  <2>1. now = [exact4 |-> now.exact4, table4 |-> now.table4, value4 |-> now.value4,
               index6 |-> now.index6, value6 |-> now.value6, built |-> now.built]
    BY <1>5 DEF DirGeneration
  <2>2. DOMAIN now = {"exact4", "table4", "value4", "index6", "value6", "built"}
    BY <2>1
  <2>3. g = [f \in {"exact4", "table4", "value4", "index6", "value6", "built"} |->
                IF f = "value4" THEN value4 ELSE IF f = "value6" THEN value6 ELSE now[f]]
    BY <2>2
  <2> QED BY <2>3
<1> HIDE DEF g
<1>9. DirGeneration(g, Len(gens) + 1, slices', slices6')
  <2>1. /\ now.built \in 1 .. Len(gens) + 1 /\ now.built # Len(gens) + 1
        /\ now.index6 \in SUBSET Prefix
        /\ \E S \in SUBSET Prefix : now.exact4 = Dir!Sorted(S)
        /\ now.table4 = Dir!Expand(now.exact4)
    BY <1>5 DEF DirGeneration
  <2> QED BY <1>6, <1>7, <1>8, <2>1 DEF DirGeneration
<1> QED BY <1>1, <1>2, <1>3, <1>6, <1>7, <1>9, DirAppends

LEMMA StepDir ==
    ASSUME DirInv, TypeOK, Dir!TableNext
    PROVE  DirInv' /\ Dir!GenerationsImmutableStep
<1> USE DEF Dir!dataVars
<1>1. ASSUME NEW r \in Request, Dir!Submit(r)
      PROVE  DirInv' /\ Dir!GenerationsImmutableStep
  <2>1. number' = number
    BY <1>1 DEF Dir!Submit, Dir!SubmitInvalid, Dir!SubmitNormalized, Dir!SubmitStep, Dir!writerVars,
           Dir!SubmitLock, Dir!SubmitUnlockClosed, Dir!SubmitErrClosed, Dir!SubmitSend, Dir!SubmitUnlock
  <2>2. UNCHANGED <<gens, slices, slices6>>
    BY <1>1 DEF Dir!Submit
  <2>3. mutations' \in [Request -> Seq(DirMutation)]
    BY <1>1, RouteAssumption DEF Dir!Submit, DirInv, DirMutation
  <2> QED BY <2>1, <2>2, <2>3, DirStays
<1>2. ASSUME NEW c \in Closer, Dir!Close(c)
      PROVE  DirInv' /\ Dir!GenerationsImmutableStep
  <2>1. number' = number
    BY <1>2 DEF Dir!Close, Dir!CloseCall, Dir!CloseStep, Dir!writerVars, Dir!CloseOnceFirst,
           Dir!CloseOnceLater, Dir!CloseLock, Dir!CloseStop, Dir!CloseUnlockLater, Dir!CloseReturn
  <2> QED BY <1>2, <2>1, DirStays DEF Dir!Close, DirInv
<1>3. CASE Dir!Manage
  <2>1. number' = number
    BY <1>3, SameWriter, CollectStoresNothing DEF Dir!Manage
  <2> QED BY <1>3, <2>1, DirStays DEF Dir!Manage, DirInv
<1>4. CASE Dir!PublishStructural
  BY <1>4, DirStructural
<1>5. CASE Dir!PublishPayload
  BY <1>5, DirPayload
<1>6. CASE Dir!CountStats
  BY <1>6, DirStays DEF Dir!CountStats, Dir!CountPublication, DirInv
<1> QED BY <1>1, <1>2, <1>3, <1>4, <1>5, <1>6 DEF Dir!TableNext

\* The routes of a generation, and the value of each.
LEMMA DirContent ==
    ASSUME NEW g, NEW S \in SUBSET Prefix, g.exact4 = Dir!Sorted(S), g.index6 \in SUBSET Prefix
    PROVE  /\ Dir!Family(DOMAIN Dir!Content(g), TRUE) = S
           /\ Dir!Family(DOMAIN Dir!Content(g), FALSE) = g.index6
           /\ \A p \in S : Dir!Content(g)[Dir!Route4(p)] = slices[g.value4][Rank(S, p)]
           /\ \A p \in g.index6 : Dir!Content(g)[Dir!Route6(p)] = slices6[g.value6][Own(p)]
<1> DEFINE routes == {Dir!Route4(p) : p \in S} \cup {Dir!Route6(p) : p \in g.index6}
           At(route) == CHOOSE s \in Dir!exact(g, route) : TRUE
           content == Dir!Content(g)
<1>1. Dir!ToSet(g.exact4) = S /\ Listed(g.exact4, S)
  BY SortedIsListed, SameBlocks
<1>2. content = [route \in routes |-> IF route.is4 THEN slices[g.value4][At(route)]
                                                   ELSE slices6[g.value6][At(route)]]
  BY <1>1 DEF Dir!Content
<1> HIDE DEF content
<1>3. DOMAIN content = routes
  BY <1>2
<1>4. /\ \A p : Dir!Route4(p).is4 = TRUE /\ Dir!Route4(p).prefix = p
      /\ \A p : Dir!Route6(p).is4 = FALSE /\ Dir!Route6(p).prefix = p
  BY DEF Dir!Route4, Dir!Route6
<1>5. Dir!Family(routes, TRUE) = S
  BY <1>4 DEF Dir!Family
<1>6. Dir!Family(routes, FALSE) = g.index6
  BY <1>4 DEF Dir!Family
<1>7. ASSUME NEW p \in S PROVE content[Dir!Route4(p)] = slices[g.value4][Rank(S, p)]
  <2>1. Dir!exact(g, Dir!Route4(p)) = {i \in DOMAIN g.exact4 : g.exact4[i] = p}
    BY <1>4 DEF Dir!exact
  <2>2. Dir!exact(g, Dir!Route4(p)) = {Rank(S, p)}
    BY <1>1, <2>1 DEF Listed
  <2>3. At(Dir!Route4(p)) = Rank(S, p)
    BY <2>2
  <2>4. Dir!Route4(p) \in routes
    OBVIOUS
  <2> HIDE DEF routes, At
  <2> QED BY <1>2, <1>4, <2>3, <2>4
<1>8. ASSUME NEW p \in g.index6 PROVE content[Dir!Route6(p)] = slices6[g.value6][Own(p)]
  <2>1. Dir!exact(g, Dir!Route6(p)) = {Dir!ExactSlot(g.index6, p)} \ {Dir!NoSlot}
    BY <1>4 DEF Dir!exact
  <2>2. Dir!ExactSlot(g.index6, p) = Own(p) /\ Own(p) # Dir!NoSlot
    BY SameSlots, SameSlotNames DEF ExactSlot, Own, NoSlot
  <2>3. Dir!exact(g, Dir!Route6(p)) = {Own(p)}
    BY <2>1, <2>2
  <2>4. At(Dir!Route6(p)) = Own(p)
    BY <2>3
  <2>5. Dir!Route6(p) \in routes
    OBVIOUS
  <2> HIDE DEF routes, At
  <2> QED BY <1>2, <1>4, <2>4, <2>5
<1> HIDE DEF routes
<1> QED BY <1>3, <1>5, <1>6, <1>7, <1>8 DEF content

\* An IPv4 lookup ends at the rank of the longest match, in every generation.
LEMMA DirAnswers4 ==
    ASSUME NEW g, NEW S \in SUBSET Prefix, g.exact4 = Dir!Sorted(S), g.index6 \in SUBSET Prefix,
           g.table4 = Dir!Expand(g.exact4), NEW a \in Addr
    PROVE  Dir!Lookup4(g, a) = Dir!Wanted(g, TRUE, a)
<1> DEFINE M == Matches(S, a)
           best == LongestMatch(S, a)
           ranks == [p \in S |-> Rank(S, p)]
           entries == BlockEntries(ranks)
           slot == lookup4(g.table4, a)
<1>1. IsFiniteSet(S) /\ Ranked(S)
  BY PrefixesAreFinite, FS_Subset, RanksAreDense
<1>2. Dir!ToSet(g.exact4) = S
  BY SortedIsListed, SameBlocks
<1>3. g.table4 = compile4(entries)
  <2>1. g.table4 = Dir!compile4(Dir!BlockEntries([p \in Dir!ToSet(g.exact4) |-> Dir!Rank(Dir!ToSet(g.exact4), p)]))
    BY DEF Dir!Expand
  <2>2. [p \in Dir!ToSet(g.exact4) |-> Dir!Rank(Dir!ToSet(g.exact4), p)] = ranks
    BY <1>2, SameBlocks
  <2> HIDE DEF ranks
  <2> QED BY <2>1, <2>2, SameBlocks
<1>4. DOMAIN ranks = S
  OBVIOUS
<1> HIDE DEF ranks
<1>5. ListsValues(entries, ranks)
  BY <1>1, <1>4, EntriesListValues
<1> HIDE DEF entries
<1>6. ShortestFirst(entries)
  BY <1>5 DEF ListsValues
<1>7. slot = IF M = {} THEN 0 ELSE ranks[best]
  <2>1. slot = LastUpTo(entries, a, Width)
    BY <1>3, <1>6, LookupOf4IsLast
  <2> QED BY <1>4, <1>5, <2>1, LastIsLongest
<1>8. Dir!Lookup4(g, a) = IF slot = 0 THEN {} ELSE {slices[g.value4][slot]}
  BY SameBlocks DEF Dir!Lookup4
<1>9. Dir!Wanted(g, TRUE, a) = IF M = {} THEN {} ELSE {Dir!Content(g)[Dir!Route4(best)]}
  <2>1. Dir!Family(DOMAIN Dir!Content(g), TRUE) = S
    BY DirContent
  <2> QED BY <2>1, SameMatches DEF Dir!Wanted, Dir!Route4
<1> HIDE DEF slot
<1>10. CASE M = {}
  BY <1>7, <1>8, <1>9, <1>10
<1>11. CASE M # {}
  <2>1. best \in S
    <3>1. M \in SUBSET S /\ \A p \in M : Covers(p, a)
      BY DEF Matches
    <3>2. best = Longest(M)
      BY DEF LongestMatch, Longest
    <3> HIDE DEF M, best
    <3> QED BY <1>11, <3>1, <3>2, LongestIsUnique
  <2> HIDE DEF M, best
  <2>2. slot = Rank(S, best) /\ slot # 0
    BY <1>1, <1>7, <1>11, <2>1 DEF ranks, Ranked
  <2>3. Dir!Content(g)[Dir!Route4(best)] = slices[g.value4][Rank(S, best)]
    BY <2>1, DirContent
  <2> QED BY <1>8, <1>9, <1>11, <2>2, <2>3
<1> QED BY <1>10, <1>11

\* An IPv6 lookup ends at a slot filled with the longest match, in those rebuilt.
LEMMA DirAnswers6 ==
    ASSUME NEW g, NEW S \in SUBSET Prefix, g.exact4 = Dir!Sorted(S), g.index6 \in SUBSET Prefix,
           FilledAlike(g.index6, slices6[g.value6]), NEW a \in Addr
    PROVE  Dir!Lookup6(g, a) = Dir!Wanted(g, FALSE, a)
<1> DEFINE T == g.index6
           M == Matches(T, a)
           slice == slices6[g.value6]
           slot == LookupSlot(T, a)
           best == LongestMatch(T, a)
<1>1. IsFiniteSet(T)
  BY PrefixesAreFinite, FS_Subset
<1>2. Dir!Lookup6(g, a) = IF slot = NoSlot THEN {} ELSE {slice[slot]}
  BY SameLookup, SameSlotNames DEF Dir!Lookup6
<1>3. Dir!Wanted(g, FALSE, a) = IF M = {} THEN {} ELSE {Dir!Content(g)[Dir!Route6(best)]}
  <2>1. Dir!Family(DOMAIN Dir!Content(g), FALSE) = T
    BY DirContent
  <2> QED BY <2>1, SameMatches DEF Dir!Wanted, Dir!Route6
<1>4. \A p \in T : Dir!Content(g)[Dir!Route6(p)] = slice[Own(p)]
  BY DirContent
<1>5. T \in SUBSET Prefix /\ FilledAlike(T, slice)
  OBVIOUS
<1> HIDE DEF T, slice
<1>6. StandsFor(T, slot, M)
  BY <1>1, <1>5, LookupEndsAtLongest
<1>7. best = Longest(M)
  BY DEF LongestMatch, Longest
<1> HIDE DEF M, slot, best
<1>8. CASE M = {}
  BY <1>2, <1>3, <1>6, <1>8 DEF StandsFor
<1>9. CASE M # {}
  <2>1. slot \in Slots(T) /\ RefOf(T, slot) = best /\ slot # NoSlot
    BY <1>6, <1>7, <1>9 DEF StandsFor, Slots, NoSlot, Own, Copy
  <2>2. best \in T
    <3>1. M \in SUBSET T /\ \A p \in M : Covers(p, a)
      BY DEF M, Matches
    <3> QED BY <1>5, <1>7, <1>9, <3>1, LongestIsUnique
  <2>3. Own(best) \in Slots(T) /\ RefOf(T, Own(best)) = best
    BY <2>2 DEF Slots, RefOf, Own
  <2>4. Dir!Content(g)[Dir!Route6(best)] = slice[Own(best)]
    BY <1>4, <2>2
  <2> QED BY <1>2, <1>3, <1>5, <1>9, <2>1, <2>3, <2>4 DEF FilledAlike
<1> QED BY <1>8, <1>9

LEMMA DirAnswers == DirInv => Dir!LookupIsLongestMatch
<1> SUFFICES ASSUME DirInv, NEW n \in DOMAIN gens, NEW a \in Addr
             PROVE  /\ Dir!Lookup4(gens[n], a) = Dir!Wanted(gens[n], TRUE, a)
                    /\ gens[n].built = n => Dir!Lookup6(gens[n], a) = Dir!Wanted(gens[n], FALSE, a)
  BY SamePrefixes DEF Dir!LookupIsLongestMatch
<1>1. DirGeneration(gens[n], n, slices, slices6)
  BY DEF DirInv
<1> DEFINE g == gens[n]
<1> HIDE DEF g
<1>2. DirGeneration(g, n, slices, slices6)
  BY <1>1 DEF g
<1>3. PICK S \in SUBSET Prefix : g.exact4 = Dir!Sorted(S)
  BY <1>2 DEF DirGeneration
<1>4. Dir!Lookup4(g, a) = Dir!Wanted(g, TRUE, a)
  BY <1>2, <1>3, DirAnswers4 DEF DirGeneration
<1>5. g.built = n => Dir!Lookup6(g, a) = Dir!Wanted(g, FALSE, a)
  BY <1>2, <1>3, DirAnswers6 DEF DirGeneration
<1> QED BY <1>4, <1>5 DEF g

-----------------------------------------------------------------------------
(* The theorems. *)

RecoveredInv ==
    /\ package = "flatlpm" => FlatInv
    /\ package = "dirlpm" => DirInv

\* Neither package adds anything to the protocol.
LEMMA RecoveredStepsAreProtocolSteps == TableNext => [Next]_protocolVars
<1>1. Flat!TableNext => Next
  <2>1. ASSUME NEW r \in Request, Flat!Submit(r) PROVE Next
    BY <2>1, SameSubmits DEF Flat!Submit, Next
  <2>2. ASSUME NEW c \in Closer, Flat!Close(c) PROVE Next
    BY <2>2, SameCloses DEF Flat!Close, Next
  <2>3. CASE Flat!Manage
    BY <2>3, SameWriter DEF Flat!Manage, Next, Writer
  <2>4. CASE Flat!PublishStructural
    <3> DEFINE built == Flat!Buildable(Flat!rebuilt(Flat!Coalesced(batch)))
    <3>1. Flat!Publish(built)
      BY <2>4 DEF Flat!PublishStructural
    <3>2. built \in BOOLEAN
      BY DEF Flat!Buildable
    <3> HIDE DEF built
    <3> QED BY <3>1, <3>2, SameWriter DEF Next, Writer
  <2>5. CASE Flat!PublishPayload
    BY <2>5, SameWriter DEF Flat!PublishPayload, Next, Writer
  <2>6. CASE Flat!CountStats
    BY <2>6, SameWriter DEF Flat!CountStats, Next, Writer
  <2> QED BY <2>1, <2>2, <2>3, <2>4, <2>5, <2>6 DEF Flat!TableNext
<1>2. Dir!TableNext => Next
  <2>1. ASSUME NEW r \in Request, Dir!Submit(r) PROVE Next
    BY <2>1, SameSubmits DEF Dir!Submit, Next
  <2>2. ASSUME NEW c \in Closer, Dir!Close(c) PROVE Next
    BY <2>2, SameCloses DEF Dir!Close, Next
  <2>3. CASE Dir!Manage
    BY <2>3, SameWriter DEF Dir!Manage, Next, Writer
  <2>4. CASE Dir!PublishStructural
    <3> DEFINE built == Dir!Buildable(Dir!rebuilt(Dir!Coalesced(batch)))
    <3>1. Dir!Publish(built)
      BY <2>4 DEF Dir!PublishStructural
    <3>2. built \in BOOLEAN
      BY DEF Dir!Buildable
    <3> HIDE DEF built
    <3> QED BY <3>1, <3>2, SameWriter DEF Next, Writer
  <2>5. CASE Dir!PublishPayload
    BY <2>5, SameWriter DEF Dir!PublishPayload, Next, Writer
  <2>6. CASE Dir!CountStats
    BY <2>6, SameWriter DEF Dir!CountStats, Next, Writer
  <2> QED BY <2>1, <2>2, <2>3, <2>4, <2>5, <2>6 DEF Dir!TableNext
<1> QED BY <1>1, <1>2 DEF TableNext, RunFlat, RunDir

LEMMA RecoveredProtocol == TableSpec => []Inv
<1>1. Init => Inv
  <2>1. Init => ProtocolInit
    BY SameInit DEF Init, Flat!Init, Dir!Init
  <2> QED BY <2>1, InitInv
<1>2. Inv /\ [TableNext]_vars => Inv'
  <2>1. [TableNext]_vars => [Next]_protocolVars
    BY RecoveredStepsAreProtocolSteps DEF vars
  <2> QED BY <2>1, StepInv
<1> QED BY <1>1, <1>2, PTL DEF TableSpec

LEMMA StepRecovered ==
    ASSUME TypeOK, RecoveredInv, [TableNext]_vars
    PROVE  /\ RecoveredInv'
           /\ package = "flatlpm" => Flat!GenerationsImmutableStep
           /\ package = "dirlpm" => Dir!GenerationsImmutableStep
<1>1. CASE RunFlat
  <2>1. package = "flatlpm" /\ package' = "flatlpm" /\ Flat!TableNext
    BY <1>1 DEF RunFlat
  <2>2. FlatInv' /\ Flat!GenerationsImmutableStep
    BY <2>1, StepFlat DEF RecoveredInv
  <2> QED BY <2>1, <2>2 DEF RecoveredInv
<1>2. CASE RunDir
  <2>1. package = "dirlpm" /\ package' = "dirlpm" /\ Dir!TableNext
    BY <1>2 DEF RunDir
  <2>2. DirInv' /\ Dir!GenerationsImmutableStep
    BY <2>1, StepDir DEF RecoveredInv
  <2> QED BY <2>1, <2>2 DEF RecoveredInv
<1>3. CASE UNCHANGED vars
  <2>1. UNCHANGED <<package, mutations, gens, slices, slices6, number>>
    BY <1>3 DEF vars, protocolVars, writerVars
  <2>2. RecoveredInv'
    BY <2>1 DEF RecoveredInv, FlatInv, DirInv
  <2>3. Flat!GenerationsImmutableStep /\ Dir!GenerationsImmutableStep
    BY <2>1 DEF Flat!GenerationsImmutableStep, Dir!GenerationsImmutableStep
  <2> QED BY <2>2, <2>3
<1> QED BY <1>1, <1>2, <1>3 DEF TableNext

\* The inductive invariant of a table of either package: every generation is an
\* index over its prefixes, with slices that have the slots it numbers, and those
\* that were rebuilt hold one value for all the slots of a prefix.
THEOREM RecoveredInvariance == TableSpec => [](Inv /\ RecoveredInv)
<1>1. Init => RecoveredInv
  BY InitFlat, InitDir DEF RecoveredInv
<1>2. Inv /\ RecoveredInv /\ [TableNext]_vars => RecoveredInv'
  BY StepRecovered DEF Inv
<1> QED BY <1>1, <1>2, RecoveredProtocol, PTL DEF TableSpec

\* A generation of flatlpm or dirlpm never changes once it is published, although
\* payload updates share its index, and dirlpm a slice too (GenerationsImmutable).
THEOREM RecoveredGenerationsStay == TableSpec => GenerationsImmutable
<1>1. Inv /\ RecoveredInv /\ [TableNext]_vars =>
         [/\ package = "flatlpm" => Flat!GenerationsImmutableStep
          /\ package = "dirlpm" => Dir!GenerationsImmutableStep]_vars
  BY StepRecovered DEF Inv
<1> QED BY <1>1, RecoveredInvariance, PTL DEF TableSpec, GenerationsImmutable

\* The lookups of every generation that was rebuilt answer the longest match, and
\* dirlpm's IPv4 lookups those of payload updates too (LookupIsLongestMatch).
THEOREM RecoveredLookupsAreLongest == TableSpec => []LookupIsLongestMatch
<1>1. RecoveredInv => LookupIsLongestMatch
  BY FlatAnswers, DirAnswers DEF RecoveredInv, LookupIsLongestMatch
<1> QED BY <1>1, RecoveredInvariance, PTL

-----------------------------------------------------------------------------
(***************************************************************************)
(* dirlpm implements RouteTable.                                           *)
(***************************************************************************)

\* The table by route, read from the prefixes, the index and two memories.
DirTable(S, T, four, six) ==
    [route \in {Dir!Route4(p) : p \in S} \cup {Dir!Route6(p) : p \in T} |->
        IF route.is4 THEN four[Rank(S, route.prefix)] ELSE six[Own(route.prefix)]]

\* What Content reads, in memories that are given.
DirRead(g, memory4, memory6) ==
    [route \in {Dir!Route4(p) : p \in Dir!ToSet(g.exact4)} \cup {Dir!Route6(p) : p \in g.index6} |->
        LET slot == CHOOSE s \in Dir!exact(g, route) : TRUE
        IN  IF route.is4 THEN memory4[g.value4][slot] ELSE memory6[g.value6][slot]]

LEMMA RoutesAreFamilies ==
    /\ \A p : /\ Dir!Route4(p).is4 = TRUE /\ Dir!Route4(p).prefix = p
              /\ Dir!Route6(p).is4 = FALSE /\ Dir!Route6(p).prefix = p
    /\ \A route \in Dir!Route : /\ route.prefix \in Prefix
                                /\ route.is4 \in BOOLEAN
                                /\ route.is4 => route = Dir!Route4(route.prefix)
                                /\ ~route.is4 => route = Dir!Route6(route.prefix)
    /\ \A p \in Prefix : Dir!Route4(p) \in Dir!Route /\ Dir!Route6(p) \in Dir!Route
BY SamePrefixes DEF Dir!Route4, Dir!Route6, Dir!Route

\* Where Exact finds a route.
LEMMA DirExact ==
    ASSUME NEW g, NEW S \in SUBSET Prefix, g.exact4 = Dir!Sorted(S), NEW route
    PROVE  /\ route.is4 => Dir!exact(g, route) =
                  IF route.prefix \in S THEN {Rank(S, route.prefix)} ELSE {}
           /\ ~route.is4 => Dir!exact(g, route) =
                  IF route.prefix \in g.index6 THEN {Own(route.prefix)} ELSE {}
<1>1. Listed(g.exact4, S)
  BY SortedIsListed
<1>2. ASSUME route.is4
      PROVE  Dir!exact(g, route) = IF route.prefix \in S THEN {Rank(S, route.prefix)} ELSE {}
  <2>1. Dir!exact(g, route) = {i \in DOMAIN g.exact4 : g.exact4[i] = route.prefix}
    BY <1>2 DEF Dir!exact
  <2> QED BY <1>1, <2>1 DEF Listed
<1>3. ASSUME ~route.is4
      PROVE  Dir!exact(g, route) = IF route.prefix \in g.index6 THEN {Own(route.prefix)} ELSE {}
  <2>1. Dir!exact(g, route) = {Dir!ExactSlot(g.index6, route.prefix)} \ {Dir!NoSlot}
    BY <1>3 DEF Dir!exact
  <2>2. Dir!ExactSlot(g.index6, route.prefix) =
           IF route.prefix \in g.index6 THEN Own(route.prefix) ELSE NoSlot
    BY SameSlots DEF ExactSlot
  <2>3. Own(route.prefix) # NoSlot
    BY DEF Own, NoSlot
  <2> QED BY <2>1, <2>2, <2>3, SameSlotNames
<1> QED BY <1>2, <1>3

LEMMA DirReads ==
    ASSUME NEW g, NEW S \in SUBSET Prefix, g.exact4 = Dir!Sorted(S), NEW memory4, NEW memory6
    PROVE  DirRead(g, memory4, memory6) = DirTable(S, g.index6, memory4[g.value4], memory6[g.value6])
<1> DEFINE T == g.index6
           routes == {Dir!Route4(p) : p \in S} \cup {Dir!Route6(p) : p \in T}
           Slot(route) == CHOOSE s \in Dir!exact(g, route) : TRUE
           Read(route) == IF route.is4 THEN memory4[g.value4][Slot(route)]
                          ELSE memory6[g.value6][Slot(route)]
<1>1. Dir!ToSet(g.exact4) = S
  BY SortedIsListed, SameBlocks
<1>2. DirRead(g, memory4, memory6) = [route \in routes |-> Read(route)]
  BY <1>1 DEF DirRead
<1>3. ASSUME NEW route \in routes
      PROVE  Read(route) = IF route.is4 THEN memory4[g.value4][Rank(S, route.prefix)]
                           ELSE memory6[g.value6][Own(route.prefix)]
  <2>1. CASE \E p \in S : route = Dir!Route4(p)
    <3>1. route.is4 /\ route.prefix \in S
      BY <2>1, RoutesAreFamilies
    <3>2. Dir!exact(g, route) = {Rank(S, route.prefix)}
      BY <3>1, DirExact
    <3>3. Slot(route) = Rank(S, route.prefix)
      BY <3>2
    <3> HIDE DEF Slot
    <3> QED BY <3>1, <3>3
  <2>2. CASE \E p \in T : route = Dir!Route6(p)
    <3>1. ~route.is4 /\ route.prefix \in T
      BY <2>2, RoutesAreFamilies
    <3>2. Dir!exact(g, route) = {Own(route.prefix)}
      BY <3>1, DirExact
    <3>3. Slot(route) = Own(route.prefix)
      BY <3>2
    <3> HIDE DEF Slot
    <3> QED BY <3>1, <3>3
  <2> QED BY <2>1, <2>2
<1> HIDE DEF Read, routes
<1>4. [route \in routes |-> Read(route)] =
         [route \in routes |-> IF route.is4 THEN memory4[g.value4][Rank(S, route.prefix)]
                               ELSE memory6[g.value6][Own(route.prefix)]]
  BY <1>3
<1> QED BY <1>2, <1>4 DEF DirTable, routes

\* buildGeneration and the reader agree: the catalogue is what can be read.
LEMMA DirBuildHoldsTable ==
    ASSUME NEW catalog, catalog = [route \in DOMAIN catalog |-> catalog[route]],
           DOMAIN catalog \in SUBSET Dir!Route,
           NEW n, NEW value4, NEW value6, NEW memory4, NEW memory6,
           memory4[value4] = Dir!Values4(catalog), memory6[value6] = Dir!Values6(catalog)
    PROVE  DirRead(Dir!buildGeneration(catalog, n, value4, value6), memory4, memory6) = catalog
<1> DEFINE v4 == Dir!Family(DOMAIN catalog, TRUE)
           v6 == Dir!Family(DOMAIN catalog, FALSE)
           g == Dir!buildGeneration(catalog, n, value4, value6)
           exact4 == Dir!Sorted(v4)
<1>1. /\ v4 = {route.prefix : route \in {x \in DOMAIN catalog : x.is4}}
      /\ v6 = {route.prefix : route \in {x \in DOMAIN catalog : ~x.is4}}
  BY RoutesAreFamilies DEF Dir!Family
<1> DEFINE D == DOMAIN catalog
           routes == {Dir!Route4(p) : p \in v4} \cup {Dir!Route6(p) : p \in v6}
<1>2. v4 \in SUBSET Prefix /\ v6 \in SUBSET Prefix /\ routes = D
  <2>1. D \in SUBSET Dir!Route
    OBVIOUS
  <2>2. /\ v4 = {route.prefix : route \in {x \in D : x.is4}}
        /\ v6 = {route.prefix : route \in {x \in D : ~x.is4}}
    BY <1>1
  <2> HIDE DEF D, v4, v6
  <2>3. v4 \in SUBSET Prefix /\ v6 \in SUBSET Prefix
    BY <2>1, <2>2, RoutesAreFamilies
  <2>4. ASSUME NEW route \in D PROVE route \in routes
    <3>1. CASE route.is4
      BY <2>1, <2>2, <3>1, RoutesAreFamilies
    <3>2. CASE ~route.is4
      BY <2>1, <2>2, <3>2, RoutesAreFamilies
    <3> QED BY <3>1, <3>2
  <2>5. ASSUME NEW p \in v4 PROVE Dir!Route4(p) \in D
    <3>1. PICK route \in D : route.is4 /\ route.prefix = p
      BY <2>2
    <3>2. route = Dir!Route4(p)
      BY <2>1, <3>1, RoutesAreFamilies
    <3> QED BY <3>2
  <2>6. ASSUME NEW p \in v6 PROVE Dir!Route6(p) \in D
    <3>1. PICK route \in D : ~route.is4 /\ route.prefix = p
      BY <2>2
    <3>2. route = Dir!Route6(p)
      BY <2>1, <3>1, RoutesAreFamilies
    <3> QED BY <3>2
  <2> QED BY <2>3, <2>4, <2>5, <2>6
<1>3. g.exact4 = exact4 /\ g.index6 = v6 /\ g.value4 = value4 /\ g.value6 = value6
  BY DEF Dir!buildGeneration
<1>4. Listed(exact4, v4)
  BY <1>2, SortedIsListed
<1>5. Dir!Values4(catalog) = [i \in DOMAIN exact4 |-> catalog[Dir!Route4(exact4[i])]]
  BY DEF Dir!Values4
<1>6. Dir!Values6(catalog) = [slot \in Slots(v6) |-> catalog[Dir!Route6(RefOf(v6, slot))]]
  <2>1. Dir!Values6(catalog) = [slot \in Dir!Slots(v6) |-> catalog[Dir!Route6(Dir!RefOf(v6, slot))]]
    BY DEF Dir!Values6
  <2> HIDE DEF v6
  <2> QED BY <2>1, SameSlots
<1>7. routes = DOMAIN catalog
  BY <1>2
<1> HIDE DEF v4, v6, g, exact4
<1>8. DirRead(g, memory4, memory6) = DirTable(v4, v6, memory4[value4], memory6[value6])
  BY <1>2, <1>3, DirReads DEF exact4
<1>9. \A p \in v4 : memory4[value4][Rank(v4, p)] = catalog[Dir!Route4(p)]
  BY <1>4, <1>5 DEF Listed
<1>10. \A p \in v6 : memory6[value6][Own(p)] = catalog[Dir!Route6(p)]
  <2>1. \A p \in v6 : Own(p) \in Slots(v6) /\ RefOf(v6, Own(p)) = p
    BY DEF Slots, RefOf, Own
  <2> QED BY <1>6, <2>1
<1>11. ASSUME NEW route \in routes
       PROVE  (IF route.is4 THEN memory4[value4][Rank(v4, route.prefix)]
               ELSE memory6[value6][Own(route.prefix)]) = catalog[route]
  <2>1. CASE \E p \in v4 : route = Dir!Route4(p)
    BY <1>9, <2>1, RoutesAreFamilies
  <2>2. CASE \E p \in v6 : route = Dir!Route6(p)
    BY <1>10, <2>2, RoutesAreFamilies
  <2> QED BY <2>1, <2>2
<1>12. DirTable(v4, v6, memory4[value4], memory6[value6]) = [route \in DOMAIN catalog |-> catalog[route]]
  BY <1>7, <1>11 DEF DirTable, routes
<1> QED BY <1>8, <1>12 DEF g
-----------------------------------------------------------------------------
(* What the two publication paths of dirlpm make of the published table. *)

DirDecided == Final(Dir!Published, Dir!Gathered(batch), DOMAIN Dir!Gathered(batch))

LEMMA DirPublished ==
    ASSUME NEW S \in SUBSET Prefix, Dir!current.exact4 = Dir!Sorted(S)
    PROVE  /\ Dir!Published = DirTable(S, Dir!current.index6, slices[Dir!current.value4],
                                       slices6[Dir!current.value6])
           /\ Dir!recovered = Dir!Published
<1> DEFINE now == Dir!current
<1>1. Dir!Published = DirRead(now, slices, slices6)
  BY DEF Dir!Published, Dir!Content, DirRead
<1>2. Dir!ToSet(now.exact4) = S
  BY SortedIsListed, SameBlocks
<1>3. Dir!recovered = DirTable(S, now.index6, slices[now.value4], slices6[now.value6])
  BY <1>2, SameBlocks, SameSlotNames DEF Dir!recovered, DirTable
<1> HIDE DEF now
<1>4. DirRead(now, slices, slices6) = DirTable(S, now.index6, slices[now.value4], slices6[now.value6])
  <2>1. now.exact4 = Dir!Sorted(S)
    BY DEF now
  <2> QED BY <2>1, DirReads
<1> QED BY <1>1, <1>3, <1>4 DEF now

\* The current generation, of this state and the next.
LEMMA DirPublishedNext ==
    Dir!Published' = DirRead(gens'[Len(gens')], slices', slices6')
BY DEF Dir!Published, Dir!Content, DirRead, Dir!current

\* The published table is a function from routes.
LEMMA DirPublishedRoutes ==
    ASSUME DirInv, TypeOK
    PROVE  /\ Dir!Published = [route \in DOMAIN Dir!Published |-> Dir!Published[route]]
           /\ DOMAIN Dir!Published \in SUBSET Dir!Route
<1>1. DirGeneration(Dir!current, Len(gens), slices, slices6)
  BY CurrentDir
<1>2. PICK S \in SUBSET Prefix : Dir!current.exact4 = Dir!Sorted(S)
  BY <1>1 DEF DirGeneration
<1> DEFINE T == Dir!current.index6
           routes == {Dir!Route4(p) : p \in S} \cup {Dir!Route6(p) : p \in T}
<1>3. T \in SUBSET Prefix
  BY <1>1 DEF DirGeneration
<1>4. DOMAIN Dir!Published = routes
  BY <1>2, DirPublished DEF DirTable
<1>5. Dir!Published = [route \in DOMAIN Dir!Published |-> Dir!Published[route]]
  BY <1>2, DirPublished DEF DirTable
<1> HIDE DEF T
<1>6. routes \in SUBSET Dir!Route
  BY <1>3, RoutesAreFamilies
<1> QED BY <1>4, <1>5, <1>6

LEMMA DirStructuralTable ==
    ASSUME DirInv, TypeOK, Dir!PublishStructural
    PROVE  /\ Dir!Publish(Dir!Buildable(DirDecided))
           /\ Dir!Published' = IF Dir!Buildable(DirDecided) THEN DirDecided ELSE Dir!Published
<1> DEFINE all == Dir!Gathered(batch)
           catalog == Dir!rebuilt(Dir!Coalesced(batch))
           g == Dir!buildGeneration(catalog, number + 1, Len(slices) + 1, Len(slices6) + 1)
           slice4 == Dir!Values4(catalog)
           slice6 == Dir!Values6(catalog)
<1>1. catalog = DirDecided
  <2>1. PICK S \in SUBSET Prefix : Dir!current.exact4 = Dir!Sorted(S)
    BY CurrentDir DEF DirGeneration
  <2>2. catalog = Amended(Dir!recovered, LastOnes(all))
    BY SameBatches DEF Dir!rebuilt, Dir!Coalesced
  <2>3. Dir!recovered = Dir!Published
    BY <2>1, DirPublished
  <2> HIDE DEF all, catalog
  <2>4. Amended(Dir!Published, LastOnes(all)) = Final(Dir!Published, all, DOMAIN all)
    BY AmendedIsFinal
  <2> QED BY <2>2, <2>3, <2>4 DEF DirDecided, all
<1>2. /\ Dir!Publish(Dir!Buildable(catalog))
      /\ IF Dir!Buildable(catalog)
         THEN gens' = Append(gens, g) /\ slices' = Append(slices, slice4)
              /\ slices6' = Append(slices6, slice6)
         ELSE UNCHANGED <<gens, slices, slices6>>
  BY DEF Dir!PublishStructural
<1>3. DOMAIN catalog \in SUBSET Dir!Route /\ catalog = [route \in DOMAIN catalog |-> catalog[route]]
  <2>1. DOMAIN catalog \in SUBSET (DOMAIN Dir!Published \cup Named(all, DOMAIN all))
    BY <1>1 DEF DirDecided, Final
  <2>2. Named(all, DOMAIN all) = DOMAIN Dir!Coalesced(batch)
    BY SameBatches DEF Dir!Coalesced, LastOnes
  <2>3. catalog = [route \in DOMAIN catalog |-> catalog[route]]
    BY <1>1 DEF DirDecided, Final
  <2> QED BY <2>1, <2>2, <2>3, DirChangesTyped, DirPublishedRoutes
<1> HIDE DEF catalog
<1>4. CASE Dir!Buildable(catalog)
  <2>1. gens' = Append(gens, g) /\ slices' = Append(slices, slice4) /\ slices6' = Append(slices6, slice6)
    BY <1>2, <1>4
  <2> HIDE DEF g, slice4, slice6
  <2>2. gens \in Seq(Range(gens)) /\ slices \in Seq(Range(slices)) /\ slices6 \in Seq(Range(slices6))
    BY DEF DirInv
  <2>3. gens'[Len(gens')] = g
    BY <2>1, <2>2, Appended
  <2>4. slices'[Len(slices) + 1] = slice4 /\ slices6'[Len(slices6) + 1] = slice6
    BY <2>1, <2>2, Appended
  <2>5. DirRead(g, slices', slices6') = catalog
    BY <1>3, <2>4, DirBuildHoldsTable DEF g, slice4, slice6
  <2>6. Dir!Published' = catalog
    BY <2>3, <2>5, DirPublishedNext
  <2> QED BY <1>1, <1>2, <1>4, <2>6
<1>5. CASE ~Dir!Buildable(catalog)
  <2>1. Dir!Published' = Dir!Published
    BY <1>2, <1>5 DEF Dir!Published, Dir!Content, Dir!current
  <2> QED BY <1>1, <1>2, <1>5, <2>1
<1> QED BY <1>4, <1>5

\* A payload update writes the slots of the routes it names, and no others: of the
\* IPv4 prefixes S, and of the IPv6 prefixes T.
WritesNamed4(changes, S, slice) ==
    /\ \A p \in S : Rank(S, p) \in DOMAIN slice =>
          Dir!Overwritten(slice, changes, TRUE)[Rank(S, p)] =
              IF Dir!Route4(p) \in DOMAIN changes THEN changes[Dir!Route4(p)].value
              ELSE slice[Rank(S, p)]
    /\ ~Dir!Touched(changes, TRUE) => \A p \in S : Dir!Route4(p) \notin DOMAIN changes
WritesNamed6(changes, T, slice) ==
    /\ \A p \in T : Own(p) \in DOMAIN slice =>
          Dir!Overwritten(slice, changes, FALSE)[Own(p)] =
              IF Dir!Route6(p) \in DOMAIN changes THEN changes[Dir!Route6(p)].value
              ELSE slice[Own(p)]
    /\ ~Dir!Touched(changes, FALSE) => \A p \in T : Dir!Route6(p) \notin DOMAIN changes

LEMMA DirOverwrites ==
    ASSUME NEW changes, DOMAIN changes \in SUBSET Dir!Route,
           NEW S \in SUBSET Prefix, Dir!current.exact4 = Dir!Sorted(S),
           Dir!current.index6 \in SUBSET Prefix, NEW slice
    PROVE  WritesNamed4(changes, S, slice) /\ WritesNamed6(changes, Dir!current.index6, slice)
<1> DEFINE named == DOMAIN changes
           T == Dir!current.index6
           Exact(route) == Dir!exact(Dir!current, route)
           Writers(is4, slot) == {route \in named : route.is4 = is4 /\ slot \in Exact(route)}
           Written(is4, slot) ==
               IF Writers(is4, slot) = {} THEN slice[slot]
               ELSE changes[CHOOSE route \in Writers(is4, slot) : TRUE].value
<1>1. named \in SUBSET Dir!Route /\ T \in SUBSET Prefix
  OBVIOUS
<1>2. ASSUME NEW route
      PROVE  /\ route.is4 => Exact(route) = IF route.prefix \in S THEN {Rank(S, route.prefix)} ELSE {}
             /\ ~route.is4 => Exact(route) = IF route.prefix \in T THEN {Own(route.prefix)} ELSE {}
  <2> DEFINE now == Dir!current
  <2>1. now.exact4 = Dir!Sorted(S)
    OBVIOUS
  <2> HIDE DEF now
  <2>2. /\ route.is4 => Dir!exact(now, route) = IF route.prefix \in S THEN {Rank(S, route.prefix)} ELSE {}
        /\ ~route.is4 => Dir!exact(now, route) = IF route.prefix \in now.index6 THEN {Own(route.prefix)} ELSE {}
    BY <2>1, DirExact
  <2> QED BY <2>2 DEF now
<1>3. \A is4 : \A slot \in DOMAIN slice : Dir!Overwritten(slice, changes, is4)[slot] = Written(is4, slot)
  BY DEF Dir!Overwritten
<1>4. \A is4 : Dir!Touched(changes, is4) <=> \E route \in named : route.is4 = is4 /\ Exact(route) # {}
  BY DEF Dir!Touched
<1> HIDE DEF named, T, Exact
<1>5. ASSUME NEW p \in S
      PROVE  Writers(TRUE, Rank(S, p)) = {Dir!Route4(p)} \cap named
  <2>1. ASSUME NEW route \in Writers(TRUE, Rank(S, p)) PROVE route = Dir!Route4(p)
    <3>1. route \in Dir!Route /\ route.is4 /\ Rank(S, p) \in Exact(route)
      BY <1>1
    <3>2. route.prefix \in S /\ Rank(S, route.prefix) = Rank(S, p)
      BY <1>2, <3>1
    <3>3. route.prefix = p
      BY <3>2, SortedIsListed DEF Listed
    <3> QED BY <3>1, <3>3, RoutesAreFamilies
  <2>2. ASSUME Dir!Route4(p) \in named PROVE Dir!Route4(p) \in Writers(TRUE, Rank(S, p))
    <3>1. Dir!Route4(p).is4 = TRUE /\ Dir!Route4(p).prefix = p
      BY RoutesAreFamilies
    <3>2. Exact(Dir!Route4(p)) = {Rank(S, p)}
      BY <1>2, <3>1
    <3> QED BY <2>2, <3>1, <3>2
  <2>3. Writers(TRUE, Rank(S, p)) \in SUBSET named
    OBVIOUS
  <2> HIDE DEF Writers
  <2> QED BY <2>1, <2>2, <2>3
<1>6. ASSUME NEW p \in T
      PROVE  Writers(FALSE, Own(p)) = {Dir!Route6(p)} \cap named
  <2>1. ASSUME NEW route \in Writers(FALSE, Own(p)) PROVE route = Dir!Route6(p)
    <3>1. route \in Dir!Route /\ ~route.is4 /\ Own(p) \in Exact(route)
      BY <1>1
    <3>2. route.prefix \in T /\ Own(route.prefix) = Own(p)
      BY <1>2, <3>1
    <3>3. route.prefix = p
      BY <3>2 DEF Own
    <3> QED BY <3>1, <3>3, RoutesAreFamilies
  <2>2. ASSUME Dir!Route6(p) \in named PROVE Dir!Route6(p) \in Writers(FALSE, Own(p))
    <3>1. Dir!Route6(p).is4 = FALSE /\ Dir!Route6(p).prefix = p
      BY RoutesAreFamilies
    <3>2. Exact(Dir!Route6(p)) = {Own(p)}
      BY <1>2, <3>1
    <3> QED BY <2>2, <3>1, <3>2
  <2>3. Writers(FALSE, Own(p)) \in SUBSET named
    OBVIOUS
  <2> HIDE DEF Writers
  <2> QED BY <2>1, <2>2, <2>3
<1>7. ASSUME NEW is4, NEW slot, NEW route, Writers(is4, slot) = {route} \cap named
      PROVE  Written(is4, slot) = IF route \in named THEN changes[route].value ELSE slice[slot]
  <2> HIDE DEF Writers
  <2>1. CASE route \in named
    <3>1. Writers(is4, slot) = {route}
      BY <1>7, <2>1
    <3>2. (CHOOSE x \in Writers(is4, slot) : TRUE) = route
      BY <3>1
    <3> QED BY <2>1, <3>1, <3>2
  <2>2. CASE route \notin named
    BY <1>7, <2>2
  <2> QED BY <2>1, <2>2
<1>8. ASSUME NEW p \in S, ~Dir!Touched(changes, TRUE) PROVE Dir!Route4(p) \notin named
  <2>1. Dir!Route4(p).is4 = TRUE /\ Dir!Route4(p).prefix = p
    BY RoutesAreFamilies
  <2>2. Exact(Dir!Route4(p)) = {Rank(S, p)}
    BY <1>2, <2>1
  <2> QED BY <1>4, <1>8, <2>1, <2>2
<1>9. ASSUME NEW p \in T, ~Dir!Touched(changes, FALSE) PROVE Dir!Route6(p) \notin named
  <2>1. Dir!Route6(p).is4 = FALSE /\ Dir!Route6(p).prefix = p
    BY RoutesAreFamilies
  <2>2. Exact(Dir!Route6(p)) = {Own(p)}
    BY <1>2, <2>1
  <2> QED BY <1>4, <1>9, <2>1, <2>2
<1> HIDE DEF Writers, Written
<1>10. ASSUME NEW p \in S, Rank(S, p) \in DOMAIN slice
       PROVE  Dir!Overwritten(slice, changes, TRUE)[Rank(S, p)] =
                 IF Dir!Route4(p) \in named THEN changes[Dir!Route4(p)].value ELSE slice[Rank(S, p)]
  <2> DEFINE slot == Rank(S, p)
             route == Dir!Route4(p)
  <2>1. Writers(TRUE, slot) = {route} \cap named
    BY <1>5
  <2>2. slot \in DOMAIN slice
    BY <1>10
  <2> HIDE DEF slot, route
  <2>3. Written(TRUE, slot) = IF route \in named THEN changes[route].value ELSE slice[slot]
    BY <1>7, <2>1
  <2>4. Dir!Overwritten(slice, changes, TRUE)[slot] = Written(TRUE, slot)
    BY <1>3, <2>2
  <2> QED BY <2>3, <2>4 DEF slot, route
<1>11. ASSUME NEW p \in T, Own(p) \in DOMAIN slice
       PROVE  Dir!Overwritten(slice, changes, FALSE)[Own(p)] =
                 IF Dir!Route6(p) \in named THEN changes[Dir!Route6(p)].value ELSE slice[Own(p)]
  <2> DEFINE slot == Own(p)
             route == Dir!Route6(p)
  <2>1. Writers(FALSE, slot) = {route} \cap named
    BY <1>6
  <2>2. slot \in DOMAIN slice
    BY <1>11
  <2> HIDE DEF slot, route
  <2>3. Written(FALSE, slot) = IF route \in named THEN changes[route].value ELSE slice[slot]
    BY <1>7, <2>1
  <2>4. Dir!Overwritten(slice, changes, FALSE)[slot] = Written(FALSE, slot)
    BY <1>3, <2>2
  <2> QED BY <2>3, <2>4 DEF slot, route
<1> QED BY <1>8, <1>9, <1>10, <1>11 DEF WritesNamed4, WritesNamed6, named, T

\* A payload update is the case in which a batch adds and withdraws nothing.
LEMMA DirUpdatesOnly ==
    ASSUME DirInv, TypeOK, ~Dir!structural(Dir!Coalesced(batch)),
           NEW S \in SUBSET Prefix, Dir!current.exact4 = Dir!Sorted(S),
           Dir!current.index6 \in SUBSET Prefix
    PROVE  LET all == Dir!Gathered(batch)
               named == DOMAIN Dir!Coalesced(batch)
           IN  DirDecided = [route \in DOMAIN Dir!Published |->
                                IF route \in named THEN Dir!Coalesced(batch)[route].value
                                ELSE Dir!Published[route]]
<1> DEFINE now == Dir!current
           all == Dir!Gathered(batch)
           changes == Dir!Coalesced(batch)
           T == now.index6
           routes == {Dir!Route4(p) : p \in S} \cup {Dir!Route6(p) : p \in T}
<1>1. /\ DOMAIN changes = Named(all, DOMAIN all)
      /\ \A route \in Named(all, DOMAIN all) : changes[route] = LastFor(all, DOMAIN all, route)
  BY SameBatches DEF Dir!Coalesced, LastOnes
<1>2. DOMAIN changes \in SUBSET Dir!Route /\ all \in Seq(DirMutation)
  BY DirChangesTyped
<1>3. DOMAIN Dir!Published = routes
  BY DirPublished DEF DirTable
<1>4. \A route \in DOMAIN changes : ~((Dir!exact(now, route) = {}) # changes[route].delete)
  BY DEF Dir!structural
<1>5. now.exact4 = Dir!Sorted(S) /\ T \in SUBSET Prefix
  OBVIOUS
<1> HIDE DEF now, changes, all
<1>6. ASSUME NEW route \in Dir!Route
      PROVE  Dir!exact(now, route) = {} <=> route \notin routes
  <2> DEFINE found == Dir!exact(now, route)
  <2>1. /\ route.is4 => found = IF route.prefix \in S THEN {Rank(S, route.prefix)} ELSE {}
        /\ ~route.is4 => found = IF route.prefix \in T THEN {Own(route.prefix)} ELSE {}
    BY <1>5, DirExact
  <2> HIDE DEF found, T
  <2>2. route \in routes <=> IF route.is4 THEN route.prefix \in S ELSE route.prefix \in T
    <3>1. ASSUME NEW p, route = Dir!Route4(p) PROVE route.is4 /\ route.prefix = p
      BY <3>1, RoutesAreFamilies
    <3>2. ASSUME NEW p, route = Dir!Route6(p) PROVE ~route.is4 /\ route.prefix = p
      BY <3>2, RoutesAreFamilies
    <3>3. route.is4 => route = Dir!Route4(route.prefix)
      BY RoutesAreFamilies
    <3>4. ~route.is4 => route = Dir!Route6(route.prefix)
      BY RoutesAreFamilies
    <3> QED BY <3>1, <3>2, <3>3, <3>4
  <2> HIDE DEF routes
  <2> QED BY <2>1, <2>2 DEF found
<1> HIDE DEF routes
<1>7. ASSUME NEW route \in Named(all, DOMAIN all)
      PROVE  LastFor(all, DOMAIN all, route).delete <=> route \notin routes
  <2> DEFINE last == LastFor(all, DOMAIN all, route)
  <2>1. last \in DirMutation
    BY <1>2, LastForIsLast
  <2>2. last.delete \in BOOLEAN
    BY <2>1 DEF DirMutation
  <2>3. route \in DOMAIN changes /\ changes[route] = last /\ route \in Dir!Route
    BY <1>1, <1>2
  <2> HIDE DEF last
  <2>4. ~((Dir!exact(now, route) = {}) # last.delete)
    BY <1>4, <2>3
  <2>5. last.delete <=> Dir!exact(now, route) = {}
    BY <2>2, <2>4
  <2>6. last.delete <=> route \notin routes
    BY <1>6, <2>3, <2>5
  <2> QED BY <2>6 DEF last
<1> DEFINE table == Dir!Published
<1>8. DOMAIN table = routes
  BY <1>3
<1> HIDE DEF table
<1>9. Final(table, all, DOMAIN all) =
         [route \in DOMAIN table |-> IF route \in Named(all, DOMAIN all)
                                     THEN LastFor(all, DOMAIN all, route).value ELSE table[route]]
  BY <1>7, <1>8, FinalOfUpdates
<1>10. Final(table, all, DOMAIN all) =
         [route \in DOMAIN table |-> IF route \in DOMAIN changes
                                     THEN changes[route].value ELSE table[route]]
  BY <1>1, <1>9
<1> QED BY <1>10 DEF DirDecided, table, all, changes

LEMMA DirPayloadTable ==
    ASSUME DirInv, TypeOK, Dir!PublishPayload
    PROVE  Dir!Published' = DirDecided /\ DOMAIN DirDecided = DOMAIN Dir!Published
<1> DEFINE now == Dir!current
           changes == Dir!Coalesced(batch)
           touched4 == Dir!Touched(changes, TRUE)
           touched6 == Dir!Touched(changes, FALSE)
           old4 == slices[now.value4]
           old6 == slices6[now.value6]
           new4 == Dir!Overwritten(old4, changes, TRUE)
           new6 == Dir!Overwritten(old6, changes, FALSE)
           value4 == IF touched4 THEN Len(slices) + 1 ELSE now.value4
           value6 == IF touched6 THEN Len(slices6) + 1 ELSE now.value6
           g == [now EXCEPT !.value4 = value4, !.value6 = value6]
           table == Dir!Published
<1>1. /\ slices' = IF touched4 THEN Append(slices, new4) ELSE slices
      /\ slices6' = IF touched6 THEN Append(slices6, new6) ELSE slices6
      /\ ~Dir!structural(changes)
  BY DEF Dir!PublishPayload
<1>2. gens' = Append(gens, g)
  BY DEF Dir!PublishPayload
<1>3. DirGeneration(now, Len(gens), slices, slices6)
  BY CurrentDir
<1>4. PICK S \in SUBSET Prefix : now.exact4 = Dir!Sorted(S)
  BY <1>3 DEF DirGeneration
<1> DEFINE T == now.index6
           routes == {Dir!Route4(p) : p \in S} \cup {Dir!Route6(p) : p \in T}
<1>5. T \in SUBSET Prefix
  BY <1>3 DEF DirGeneration
<1>6. DirDecided = [route \in DOMAIN table |-> IF route \in DOMAIN changes THEN changes[route].value
                                               ELSE table[route]]
  BY <1>1, <1>4, <1>5, DirUpdatesOnly
<1>7. table = DirTable(S, T, old4, old6)
  BY <1>4, DirPublished
<1>8. DOMAIN changes \in SUBSET Dir!Route
  BY DirChangesTyped
<1>9. /\ \A p \in S : Rank(S, p) \in DOMAIN old4 =>
            new4[Rank(S, p)] = IF Dir!Route4(p) \in DOMAIN changes THEN changes[Dir!Route4(p)].value
                               ELSE old4[Rank(S, p)]
      /\ ~touched4 => \A p \in S : Dir!Route4(p) \notin DOMAIN changes
  <2>1. now.exact4 = Dir!Sorted(S) /\ now.index6 \in SUBSET Prefix
    BY <1>4, <1>5
  <2> DEFINE slice == old4
  <2> HIDE DEF changes, slice
  <2>2. WritesNamed4(changes, S, slice)
    BY <1>8, <2>1, DirOverwrites
  <2> QED BY <2>2 DEF WritesNamed4, slice
<1>10. /\ \A p \in T : Own(p) \in DOMAIN old6 =>
             new6[Own(p)] = IF Dir!Route6(p) \in DOMAIN changes THEN changes[Dir!Route6(p)].value
                            ELSE old6[Own(p)]
       /\ ~touched6 => \A p \in T : Dir!Route6(p) \notin DOMAIN changes
  <2>1. now.exact4 = Dir!Sorted(S) /\ now.index6 \in SUBSET Prefix
    BY <1>4, <1>5
  <2> DEFINE slice == old6
  <2> HIDE DEF changes, slice
  <2>2. WritesNamed6(changes, T, slice)
    BY <1>8, <2>1, DirOverwrites
  <2> QED BY <2>2 DEF WritesNamed6, slice
<1>11. \A p \in S : Rank(S, p) \in DOMAIN old4
  BY <1>3, <1>4, SortedIsListed DEF DirGeneration, Listed
<1>12. \A p \in T : Own(p) \in DOMAIN old6
  <2>1. \A p \in T : Own(p) \in Slots(T)
    BY DEF Slots, Own
  <2> QED BY <1>3, <2>1 DEF DirGeneration
<1>13. g.exact4 = now.exact4 /\ g.index6 = T /\ g.value4 = value4 /\ g.value6 = value6
  BY <1>3 DEF DirGeneration
<1> HIDE DEF now, changes, touched4, touched6, old4, old6, new4, new6, table, g, T
<1>14. \A p \in S : slices'[value4][Rank(S, p)] =
            IF Dir!Route4(p) \in DOMAIN changes THEN changes[Dir!Route4(p)].value ELSE old4[Rank(S, p)]
  <2>1. CASE touched4
    <3>1. slices \in Seq(Range(slices)) /\ slices' = Append(slices, new4) /\ value4 = Len(slices) + 1
      BY <1>1, <2>1 DEF DirInv
    <3>2. slices'[value4] = new4
      BY <3>1, Appended
    <3> QED BY <1>9, <1>11, <3>2
  <2>2. CASE ~touched4
    <3>1. slices'[value4] = old4
      BY <1>1, <2>2 DEF old4
    <3> QED BY <1>9, <2>2, <3>1
  <2> QED BY <2>1, <2>2
<1>15. \A p \in T : slices6'[value6][Own(p)] =
            IF Dir!Route6(p) \in DOMAIN changes THEN changes[Dir!Route6(p)].value ELSE old6[Own(p)]
  <2>1. CASE touched6
    <3>1. slices6 \in Seq(Range(slices6)) /\ slices6' = Append(slices6, new6) /\ value6 = Len(slices6) + 1
      BY <1>1, <2>1 DEF DirInv
    <3>2. slices6'[value6] = new6
      BY <3>1, Appended
    <3> QED BY <1>10, <1>12, <3>2
  <2>2. CASE ~touched6
    <3>1. slices6'[value6] = old6
      BY <1>1, <2>2 DEF old6
    <3> QED BY <1>10, <2>2, <3>1
  <2> QED BY <2>1, <2>2
<1> DEFINE four == slices'[value4]
           six == slices6'[value6]
<1>16. Dir!Published' = DirTable(S, T, four, six)
  <2>1. gens \in Seq(Range(gens))
    BY DEF DirInv
  <2>2. gens'[Len(gens')] = g
    BY <1>2, <2>1, Appended
  <2>3. Dir!Published' = DirRead(g, slices', slices6')
    BY <2>2, DirPublishedNext
  <2>4. g.exact4 = Dir!Sorted(S)
    BY <1>4, <1>13
  <2> HIDE DEF value4, value6
  <2>5. DirRead(g, slices', slices6') = DirTable(S, g.index6, slices'[g.value4], slices6'[g.value6])
    BY <2>4, DirReads
  <2> QED BY <1>13, <2>3, <2>5
<1>17. DOMAIN table = routes /\ \A route \in routes :
          table[route] = IF route.is4 THEN old4[Rank(S, route.prefix)] ELSE old6[Own(route.prefix)]
  BY <1>7 DEF DirTable
<1>18. DOMAIN Dir!Published' = routes /\ \A route \in routes :
          Dir!Published'[route] = IF route.is4 THEN four[Rank(S, route.prefix)] ELSE six[Own(route.prefix)]
  BY <1>16 DEF DirTable
<1>19. Dir!Published' = [route \in routes |-> Dir!Published'[route]]
  BY <1>16 DEF DirTable
<1> DEFINE next == Dir!Published'
<1> HIDE DEF four, six, next
<1>20. ASSUME NEW route \in routes
       PROVE  next[route] = IF route \in DOMAIN changes THEN changes[route].value ELSE table[route]
  <2>1. CASE \E p \in S : route = Dir!Route4(p)
    <3>1. PICK p \in S : route = Dir!Route4(p)
      BY <2>1
    <3>2. route.is4 /\ route.prefix = p
      BY <3>1, RoutesAreFamilies
    <3>3. next[route] = four[Rank(S, p)] /\ table[route] = old4[Rank(S, p)]
      BY <1>17, <1>18, <3>2 DEF next
    <3> QED BY <1>14, <3>1, <3>3 DEF four
  <2>2. CASE \E p \in T : route = Dir!Route6(p)
    <3>1. PICK p \in T : route = Dir!Route6(p)
      BY <2>2
    <3>2. ~route.is4 /\ route.prefix = p
      BY <3>1, RoutesAreFamilies
    <3>3. next[route] = six[Own(p)] /\ table[route] = old6[Own(p)]
      BY <1>17, <1>18, <3>2 DEF next
    <3> QED BY <1>15, <3>1, <3>3 DEF six
  <2> QED BY <2>1, <2>2
<1> HIDE DEF routes
<1>21. next = [route \in routes |-> next[route]]
  BY <1>19 DEF next
<1>22. next = DirDecided /\ DOMAIN DirDecided = DOMAIN table
  BY <1>6, <1>17, <1>20, <1>21
<1> QED BY <1>22 DEF next, table
-----------------------------------------------------------------------------
(* dirlpm, step by step. *)

\* What the mapping to RouteTable needs beyond the invariants.
DirFate ==
    /\ OpenInv
    /\ OnTheWay(mutations, DirMutations)
    /\ Dir!Buildable(Dir!Published)

\* What RouteTable sees of dirlpm's calls.
LEMMA DirAsks ==
    /\ Dir!Asked = [r \in Request |-> IF Accepted(r) THEN mutations[r] ELSE <<>>]
    /\ Dir!Asked' = [r \in Request |-> IF Accepted(r)' THEN mutations'[r] ELSE <<>>]
<1>1. Dir!Asked = [r \in Request |-> IF Accepted(r) THEN mutations[r] ELSE <<>>]
  BY SameControl DEF Dir!Asked
<1>2. Dir!Asked' = [r \in Request |-> IF Accepted(r)' THEN mutations'[r] ELSE <<>>]
  BY SameControlNext DEF Dir!Asked
<1> QED BY <1>1, <1>2

LEMMA DirUnseen ==
    ASSUME SeesNothing, UNCHANGED Dir!Published,
           \A r \in Request : Accepted(r) => mutations'[r] = mutations[r]
    PROVE  UNCHANGED Dir!Abstract!vars
<1>1. Dir!Asked' = Dir!Asked
  BY DirAsks DEF SeesNothing, SameCalls
<1> QED BY <1>1, SameControl, SameControlNext DEF Dir!Abstract!vars, SeesNothing

LEMMA DirRefuse ==
    ASSUME NEW r \in Request, SeesRefusal(r), UNCHANGED <<mutations, Dir!Published>>
    PROVE  Dir!Abstract!Refuse(r)
<1>1. Dir!Asked' = Dir!Asked
  BY DirAsks DEF SeesRefusal, SameCalls
<1> QED BY <1>1, SameControl, SameControlNext
        DEF SeesRefusal, Unseen, Dir!Abstract!Refuse, Dir!Abstract!Verdict, Dir!Abstract!Undecided, Pending

LEMMA DirAccept ==
    ASSUME DirFate, NEW r \in Request, SeesAcceptance(r), UNCHANGED <<mutations, Dir!Published>>
    PROVE  Dir!Abstract!Accept(r)
<1>1. Dir!Asked' = [Dir!Asked EXCEPT ![r] = mutations[r]]
  <2>1. Accepted(r)' /\ \A q \in Request : q # r => Accepted(q)' = Accepted(q)
    BY DEF SeesAcceptance
  <2> QED BY <2>1, DirAsks
<1>2. mutations[r] \in DirMutations
  BY DEF DirFate, OnTheWay, SeesAcceptance
<1> QED BY <1>1, <1>2, SameControl, SameControlNext
        DEF SeesAcceptance, Unseen, Dir!Abstract!Accept, Dir!Abstract!Undecided, Pending

LEMMA DirAnswer ==
    ASSUME NEW r \in Request, SeesAnswer(r), UNCHANGED <<mutations, Dir!Published>>
    PROVE  Dir!Abstract!Answer(r)
<1>1. Dir!Asked' = Dir!Asked
  BY DirAsks DEF SeesAnswer, SameCalls
<1> QED BY <1>1, SameControl, SameControlNext
        DEF SeesAnswer, Dir!Abstract!Answer, Dir!Abstract!Undecided, Pending

\* Its copies of the community modules' operators are these.
LEMMA DirOperators ==
    ASSUME NEW t, NEW all
    PROVE  /\ Dir!Abstract!FlattenSeq(all) = FlattenSeq(all)
           /\ Dir!Abstract!FoldLeft(Dir!Abstract!Apply, t, all) = FoldLeft(Dir!Abstract!Apply, t, all)
<1>1. Dir!Abstract!FlattenSeq(all) = FlattenSeq(all)
  BY DEF Dir!Abstract!FlattenSeq, FlattenSeq
<1>2. \A S : Dir!Abstract!Max(S) = Max(S)
  BY DEF Dir!Abstract!Max, Max
<1>3. Dir!Abstract!FoldLeft(Dir!Abstract!Apply, t, all) = FoldLeft(Dir!Abstract!Apply, t, all)
  BY <1>2 DEF Dir!Abstract!FoldLeft, FoldLeft, Dir!Abstract!MapThenFoldSet, MapThenFoldSet
<1> QED BY <1>1, <1>3

\* RouteTable applies the mutations one by one; together they are Final.
LEMMA DirOneByOne ==
    ASSUME NEW S, NEW all \in Seq(S), NEW t, t = [p \in DOMAIN t |-> t[p]]
    PROVE  Dir!Abstract!FoldLeft(Dir!Abstract!Apply, t, all) = Final(t, all, DOMAIN all)
<1> DEFINE places == DOMAIN all
           Equation(f) ==
               f = [s \in SUBSET places |->
                       IF s = {} THEN t ELSE Dir!Abstract!Apply(f[s \ {Max(s)}], all[Max(s)])]
           final == [s \in SUBSET places |-> Final(t, all, s)]
           fold == CHOOSE f : Equation(f)
<1>1. AppliesInOrder(final, t, all)
  BY FinalApplies
<1>2. \A u, m : Dir!Abstract!Apply(u, m) = Applied(u, m)
  <2> TAKE u, m
  <2>1. CASE m.delete
    BY <2>1 DEF Dir!Abstract!Apply, Applied, Overwrite
  <2>2. CASE ~m.delete
    BY <2>2 DEF Dir!Abstract!Apply, Applied, Overwrite
  <2> QED BY <2>1, <2>2
<1>3. Equation(final)
  <2>1. \A s \in SUBSET places :
           Final(t, all, s) =
               IF s = {} THEN t ELSE Dir!Abstract!Apply(final[s \ {Max(s)}], all[Max(s)])
    BY <1>1, <1>2 DEF AppliesInOrder
  <2> QED BY <2>1
<1>4. Equation(fold)
  <2> HIDE DEF Equation
  <2> QED BY <1>3
<1>5. Dir!Abstract!FoldLeft(Dir!Abstract!Apply, t, all) = fold[places]
  <2>1. Dir!Abstract!FoldLeft(Dir!Abstract!Apply, t, all) = FoldLeft(Dir!Abstract!Apply, t, all)
    BY DirOperators
  <2>2. FoldLeft(Dir!Abstract!Apply, t, all) = fold[places]
    BY DEF FoldLeft, MapThenFoldSet
  <2> QED BY <2>1, <2>2
<1> HIDE DEF fold, final
<1>6. AppliesInOrder(fold, t, all)
  BY <1>2, <1>4 DEF AppliesInOrder
<1>7. fold[places] = Final(t, all, places)
  BY <1>6, ApplyingIsFinal
<1> QED BY <1>5, <1>7

LEMMA DirJoined ==
    ASSUME DirInv, TypeOK, \A i \in DOMAIN batch : batch[i] \in Request /\ Accepted(batch[i])
    PROVE  /\ Dir!Abstract!Joined(batch) = Dir!Gathered(batch)
           /\ \E S : Dir!Gathered(batch) \in Seq(S)
<1>1. ASSUME NEW i \in DOMAIN batch PROVE Dir!Asked[batch[i]] = mutations[batch[i]]
  BY DirAsks
<1>2. [i \in DOMAIN batch |-> Dir!Asked[batch[i]]] = [i \in DOMAIN batch |-> mutations[batch[i]]]
  BY <1>1
<1>3. Dir!Abstract!Joined(batch) = Dir!Gathered(batch)
  BY <1>2, DirOperators, SameFlatten DEF Dir!Abstract!Joined, Dir!Gathered
<1> QED BY <1>3, DirChangesTyped

\* What the accepted calls of a batch ask for, one after the other, is decided.
LEMMA DirBatchIsDecided ==
    ASSUME DirInv, TypeOK, \A i \in DOMAIN batch : batch[i] \in Request /\ Accepted(batch[i])
    PROVE  Dir!Abstract!Outcome(batch) = DirDecided
<1> DEFINE all == Dir!Gathered(batch)
           table == Dir!Published
<1>1. Dir!Abstract!Joined(batch) = all /\ \E S : all \in Seq(S)
  BY DirJoined
<1>2. table = [p \in DOMAIN table |-> table[p]]
  BY DirPublishedRoutes
<1>3. DirDecided = Final(table, all, DOMAIN all)
  BY DEF DirDecided
<1>4. Dir!Abstract!Outcome(batch) = Dir!Abstract!FoldLeft(Dir!Abstract!Apply, table, Dir!Abstract!Joined(batch))
  BY DEF Dir!Abstract!Outcome
<1> HIDE DEF all, table
<1>5. Dir!Abstract!FoldLeft(Dir!Abstract!Apply, table, all) = Final(table, all, DOMAIN all)
  BY <1>1, <1>2, DirOneByOne
<1> QED BY <1>1, <1>3, <1>4, <1>5

\* Both publication paths decide on the batch: all of it or none.
LEMMA DirPublishIsDecide ==
    ASSUME Inv, DirInv, DirFate, Dir!PublishStructural \/ Dir!PublishPayload
    PROVE  Dir!Abstract!Next
<1> DEFINE n == Len(batch)
           fits == Dir!Buildable(DirDecided)
<1>0. TypeOK
  BY DEF Inv
<1>1. /\ Publish(fits) /\ UNCHANGED mutations
      /\ Dir!Published' = IF fits THEN DirDecided ELSE Dir!Published
  <2>1. CASE Dir!PublishStructural
    <3>1. UNCHANGED mutations
      BY <2>1 DEF Dir!PublishStructural
    <3>2. /\ Dir!Publish(fits)
          /\ Dir!Published' = IF fits THEN DirDecided ELSE Dir!Published
      BY <1>0, <2>1, DirStructuralTable
    <3> HIDE DEF fits
    <3> QED BY <3>1, <3>2, SameWriter
  <2>2. CASE Dir!PublishPayload
    <3>1. UNCHANGED mutations /\ Dir!Publish(TRUE)
      BY <2>2 DEF Dir!PublishPayload
    <3>2. Dir!Published' = DirDecided /\ DOMAIN DirDecided = DOMAIN Dir!Published
      BY <1>0, <2>2, DirPayloadTable
    <3>3. fits
      BY <3>2 DEF DirFate, Dir!Buildable
    <3>4. Publish(TRUE)
      BY <3>1, SameWriter
    <3>5. fits = TRUE
      BY <3>3 DEF Dir!Buildable
    <3> HIDE DEF fits
    <3> QED BY <3>1, <3>2, <3>4, <3>5
  <2> QED BY <2>1, <2>2
<1> HIDE DEF fits
<1>2. SeesDecision(fits)
  BY <1>1, PublishIsSeen DEF DirFate
<1>3. Dir!Abstract!Outcome(batch) = DirDecided
  BY <1>0, <1>2, DirBatchIsDecided DEF SeesDecision
<1>4. fits = Dir!Buildable(Dir!Abstract!Outcome(batch))
  BY <1>3 DEF fits
<1>5. Dir!Asked' = Dir!Asked
  BY <1>1, <1>2, DirAsks DEF SeesDecision, SameCalls
<1>6. n \in DOMAIN Dir!Backlog /\ Dir!Abstract!Decide(n)
  <2>1. n \in DOMAIN Dir!Backlog /\ SubSeq(Dir!Backlog, 1, n) = batch
    BY <1>2, SameControl DEF SeesDecision
  <2>2. /\ number' = IF fits THEN number + 1 ELSE number
        /\ Dir!Fate' = [r \in Request |->
              IF \E i \in DOMAIN batch : batch[i] = r
              THEN [generation |-> number', err |-> IF fits THEN "ok" ELSE "ErrBuild"]
              ELSE Dir!Fate[r]]
        /\ Dir!Backlog' = SubSeq(Dir!Backlog, n + 1, Len(Dir!Backlog))
        /\ UNCHANGED outcome
    BY <1>2, SameControl, SameControlNext DEF SeesDecision
  <2>3. Dir!Published' = IF fits THEN Dir!Abstract!Outcome(batch) ELSE Dir!Published
    BY <1>1, <1>3
  <2> QED BY <1>4, <1>5, <2>1, <2>2, <2>3 DEF Dir!Abstract!Decide
<1> QED BY <1>6 DEF Dir!Abstract!Next

\* New starts where RouteTable does.
LEMMA DirBegins == Dir!Init => Dir!Abstract!Init
<1> SUFFICES ASSUME Dir!Init PROVE Dir!Abstract!Init
  OBVIOUS
<1>1. ProtocolInit
  BY SameInit DEF Dir!Init
<1>2. /\ Backlog = <<>> /\ Fate = [r \in Request |-> Pending]
      /\ \A r \in Request : ~Accepted(r)
      /\ outcome = [r \in Request |-> Pending] /\ number = 1
  BY <1>1 DEF ProtocolInit, Backlog, Fate, Accepted, Stored, InBatch
<1>3. Dir!Asked = [r \in Request |-> <<>>]
  BY <1>2, DirAsks
<1> QED BY <1>2, <1>3, SameControl DEF Dir!Abstract!Init, Dir!Abstract!Undecided, Pending

\* A step that publishes nothing leaves the published table alone.
LEMMA DirTableStays == UNCHANGED <<gens, slices, slices6>> => UNCHANGED Dir!Published
BY DEF Dir!Published, Dir!Content, Dir!exact, Dir!current

LEMMA DirStepFate ==
    ASSUME Inv, DirInv, DirFate, Dir!TableNext
    PROVE  DirFate'
<1>0. TypeOK
  BY DEF Inv
<1>1. \/ /\ mutations' = mutations
         /\ \/ \E q \in Request : SubmitInvalid(q) \/ SubmitStep(q)
            \/ \E c \in Closer : CloseCall(c) \/ CloseStep(c)
            \/ Writer
      \/ \E q \in Request, m \in DirMutations :
            SubmitNormalized(q) /\ mutations' = [mutations EXCEPT ![q] = m]
  <2>1. CASE \E q \in Request : Dir!Submit(q)
    BY <2>1, SameSubmits DEF Dir!Submit
  <2>2. CASE \E c \in Closer : Dir!Close(c)
    BY <2>2, SameCloses DEF Dir!Close
  <2>3. CASE Dir!Manage \/ Dir!CountStats
    BY <2>3, SameWriter DEF Dir!Manage, Dir!CountStats, Writer
  <2>4. CASE Dir!PublishStructural
    <3>1. PICK built : Dir!Publish(built) /\ mutations' = mutations /\ built \in BOOLEAN
      <4>1. Dir!Buildable(Dir!rebuilt(Dir!Coalesced(batch))) \in BOOLEAN
        BY DEF Dir!Buildable
      <4> QED BY <2>4, <4>1 DEF Dir!PublishStructural
    <3> QED BY <3>1, SameWriter DEF Writer
  <2>5. CASE Dir!PublishPayload
    BY <2>5, SameWriter DEF Dir!PublishPayload, Writer
  <2> QED BY <2>1, <2>2, <2>3, <2>4, <2>5 DEF Dir!TableNext
<1>2. OpenInv'
  <2>1. Next
    BY <1>1 DEF Next
  <2> QED BY <1>0, <2>1, StepOpen DEF DirFate
<1>3. OnTheWay(mutations, DirMutations)'
  <2>1. DOMAIN mutations = Request
    BY DEF DirInv
  <2>2. OnTheWay(mutations, DirMutations)
    BY DEF DirFate
  <2>3. ASSUME NEW r \in Request, submit'[r] \in {"lock", "sending"} PROVE mutations'[r] \in DirMutations
    BY <1>0, <1>1, <2>1, <2>2, <2>3, StepOnTheWay
  <2> QED BY <2>3 DEF OnTheWay
<1>4. Dir!Buildable(Dir!Published')
  <2>0. Dir!Buildable(Dir!Published)
    BY DEF DirFate
  <2>1. CASE Dir!PublishStructural
    <3>1. Dir!Published' = IF Dir!Buildable(DirDecided) THEN DirDecided ELSE Dir!Published
      BY <1>0, <2>1, DirStructuralTable
    <3> QED BY <2>0, <3>1
  <2>2. CASE Dir!PublishPayload
    <3>1. Dir!Published' = DirDecided /\ DOMAIN DirDecided = DOMAIN Dir!Published
      BY <1>0, <2>2, DirPayloadTable
    <3> QED BY <2>0, <3>1 DEF Dir!Buildable
  <2>3. CASE ~Dir!PublishStructural /\ ~Dir!PublishPayload
    <3>1. UNCHANGED <<gens, slices, slices6>>
      BY <2>3 DEF Dir!TableNext, Dir!Submit, Dir!Close, Dir!Manage, Dir!CountStats, Dir!dataVars
    <3> QED BY <2>0, <3>1, DirTableStays
  <2> QED BY <2>1, <2>2, <2>3
<1> QED BY <1>2, <1>3, <1>4 DEF DirFate, Dir!Buildable

\* Every step of the table is a step of RouteTable or invisible to it.
LEMMA DirStepRefines ==
    ASSUME Inv, DirInv, DirFate, Dir!TableNext
    PROVE  [Dir!Abstract!Next]_(Dir!Abstract!vars)
<1>0. TypeOK /\ OpenInv
  BY DEF Inv, DirFate
<1>1. ASSUME SeesNothing, UNCHANGED <<mutations, gens, slices, slices6>>
      PROVE  UNCHANGED Dir!Abstract!vars
  BY <1>1, DirUnseen, DirTableStays
<1>2. ASSUME NEW r \in Request, Dir!Submit(r) PROVE [Dir!Abstract!Next]_(Dir!Abstract!vars)
  <2>1. UNCHANGED Dir!Published
    BY <1>2, DirTableStays DEF Dir!Submit, Dir!dataVars
  <2>2. CASE (SubmitInvalid(r) \/ SubmitStep(r)) /\ UNCHANGED mutations
    <3>1. SeesNothing \/ SeesRefusal(r) \/ SeesAcceptance(r)
      BY <1>0, <2>2, CallsAreSeen
    <3>2. SeesNothing => UNCHANGED Dir!Abstract!vars
      BY <2>1, <2>2, DirUnseen
    <3>3. SeesRefusal(r) => Dir!Abstract!Refuse(r)
      BY <2>1, <2>2, DirRefuse
    <3>4. SeesAcceptance(r) => Dir!Abstract!Accept(r)
      BY <2>1, <2>2, DirAccept
    <3> QED BY <3>1, <3>2, <3>3, <3>4 DEF Dir!Abstract!Next
  <2>3. CASE SubmitNormalized(r) /\ \E ms \in DirMutations : mutations' = [mutations EXCEPT ![r] = ms]
    <3>1. SeesNothing
      BY <1>0, <2>3, OtherCallsAreUnseen
    <3>2. ~Accepted(r)
      BY <2>3 DEF SubmitNormalized, Accepted
    <3>3. DOMAIN mutations = Request
      BY DEF DirInv
    <3>4. \A q \in Request : Accepted(q) => mutations'[q] = mutations[q]
      BY <2>3, <3>2, <3>3
    <3> QED BY <2>1, <3>1, <3>4, DirUnseen
  <2> QED BY <1>2, <2>2, <2>3, SameSubmits DEF Dir!Submit
<1>3. ASSUME NEW c \in Closer, Dir!Close(c) PROVE UNCHANGED Dir!Abstract!vars
  <2>1. SeesNothing
    BY <1>0, <1>3, SameCloses, OtherCallsAreUnseen DEF Dir!Close
  <2> QED BY <1>1, <1>3, <2>1 DEF Dir!Close, Dir!dataVars
<1>4. CASE Dir!Manage
  <2>1. UNCHANGED <<mutations, gens, slices, slices6>>
    BY <1>4 DEF Dir!Manage, Dir!dataVars
  <2>2. SeesNothing \/ \E r \in Request : SeesAnswer(r)
    BY <1>0, <1>4, SameWriter, CollectIsSeen DEF Dir!Manage
  <2>3. ASSUME NEW r \in Request, SeesAnswer(r) PROVE Dir!Abstract!Answer(r)
    BY <2>1, <2>3, DirAnswer, DirTableStays
  <2> QED BY <1>1, <2>1, <2>2, <2>3 DEF Dir!Abstract!Next
<1>5. CASE Dir!PublishStructural \/ Dir!PublishPayload
  BY <1>5, DirPublishIsDecide
<1>6. CASE Dir!CountStats
  <2>1. SeesNothing
    BY <1>6, SameWriter, CountIsUnseen DEF Dir!CountStats
  <2> QED BY <1>1, <1>6, <2>1 DEF Dir!CountStats
<1> QED BY <1>2, <1>3, <1>4, <1>5, <1>6 DEF Dir!TableNext

\* What New is given is what is published first, and it fits.
LEMMA DirFirstFate ==
    ASSUME Dir!Init
    PROVE  DirFate
<1>1. ProtocolInit
  BY SameInit DEF Dir!Init
<1>2. OpenInv
  BY <1>1 DEF ProtocolInit, OpenInv, Answered, Pending
<1>3. OnTheWay(mutations, DirMutations)
  BY <1>1 DEF ProtocolInit, OnTheWay
<1>4. PICK catalog \in DirCatalogs :
         /\ Dir!Buildable(catalog)
         /\ gens = <<Dir!buildGeneration(catalog, 1, 1, 1)>>
         /\ slices = <<Dir!Values4(catalog)>>
         /\ slices6 = <<Dir!Values6(catalog)>>
  BY DEF Dir!Init
<1>5. Dir!Published = catalog
  <2> DEFINE g == Dir!buildGeneration(catalog, 1, 1, 1)
             slice4 == Dir!Values4(catalog)
             slice6 == Dir!Values6(catalog)
  <2>1. gens = <<g>> /\ slices = <<slice4>> /\ slices6 = <<slice6>>
    BY <1>4
  <2>2. DOMAIN catalog \in SUBSET Dir!Route /\ catalog = [route \in DOMAIN catalog |-> catalog[route]]
    BY RouteAssumption
  <2> HIDE DEF g, slice4, slice6
  <2>3. Dir!current = g /\ slices[1] = slice4 /\ slices6[1] = slice6
    BY <2>1 DEF Dir!current
  <2>4. Dir!Published = DirRead(Dir!current, slices, slices6)
    BY DEF Dir!Published, Dir!Content, DirRead
  <2>5. DirRead(g, slices, slices6) = catalog
    BY <2>2, <2>3, DirBuildHoldsTable DEF g, slice4, slice6
  <2> QED BY <2>3, <2>4, <2>5
<1> QED BY <1>2, <1>3, <1>4, <1>5 DEF DirFate
-----------------------------------------------------------------------------
(***************************************************************************)
(* flatlpm implements RouteTable, if no prefix is spelled 4-in-6: of two   *)
(* spellings of one prefix the index keeps one, and a deletion of the      *)
(* other does not reach it.                                                *)
(***************************************************************************)

NativeMutation == {m \in FlatMutation : m.prefix.form = "native"}

\* A table by prefix, and as the maps of publish spell it.
Native(p) == Flat!Spelled("native", p)
InNative(t) == [x \in {Native(p) : p \in DOMAIN t} |-> t[x.prefix]]

LEMMA Spellings ==
    /\ \A form, p : Flat!Spelled(form, p).form = form /\ Flat!Spelled(form, p).prefix = p
    /\ \A p \in Prefix : Native(p) \in Flat!SpelledPrefix
    /\ \A p : Native(p).prefix = p /\ Native(p).form = "native"
    /\ \A x \in Flat!SpelledPrefix : /\ x.prefix \in Prefix
                                     /\ Flat!decompose(x) = x.prefix
                                     /\ x.form = "native" => x = Native(x.prefix)
<1>1. \A form, p : Flat!Spelled(form, p).form = form /\ Flat!Spelled(form, p).prefix = p
  BY DEF Flat!Spelled
<1>2. \A p \in Prefix : Native(p) \in Flat!SpelledPrefix
  BY SamePrefixes DEF Native, Flat!SpelledPrefix
<1>3. ASSUME NEW x \in Flat!SpelledPrefix
      PROVE  /\ x.prefix \in Prefix
             /\ x.form = "native" => x = Native(x.prefix)
  <2>1. PICK form \in {"native", "mapped"}, p \in Prefix : x = Flat!Spelled(form, p)
    BY SamePrefixes DEF Flat!SpelledPrefix
  <2> QED BY <1>1, <2>1 DEF Native
<1> QED BY <1>1, <1>2, <1>3 DEF Native, Flat!decompose

\* A mutation without its spelling.
Plain == [prefix : Prefix, value : Value, delete : BOOLEAN]
UnmappedMap == [m \in FlatMutation |-> [m EXCEPT !.prefix = Flat!decompose(m.prefix)]]

LEMMA UnmappedIsThrough ==
    /\ Maps(UnmappedMap, FlatMutation, Plain)
    /\ \A m \in FlatMutation : /\ UnmappedMap[m].prefix = m.prefix.prefix
                               /\ UnmappedMap[m].value = m.value
                               /\ UnmappedMap[m].delete = m.delete
    /\ \A ms \in Seq(FlatMutation) : Flat!Unmapped(ms) = Through(UnmappedMap, ms)
<1>1. ASSUME NEW m \in FlatMutation
      PROVE  /\ UnmappedMap[m] = [prefix |-> m.prefix.prefix, value |-> m.value, delete |-> m.delete]
             /\ UnmappedMap[m] \in Plain
  <2>1. /\ m = [prefix |-> m.prefix, value |-> m.value, delete |-> m.delete]
        /\ m.prefix \in Flat!SpelledPrefix /\ m.value \in Value /\ m.delete \in BOOLEAN
    BY DEF FlatMutation
  <2>2. UnmappedMap[m] = [m EXCEPT !.prefix = m.prefix.prefix]
    BY DEF UnmappedMap, Flat!decompose
  <2>3. UnmappedMap[m] = [prefix |-> m.prefix.prefix, value |-> m.value, delete |-> m.delete]
    BY <2>1, <2>2
  <2> QED BY <2>1, <2>3, Spellings DEF Plain
<1>2. Maps(UnmappedMap, FlatMutation, Plain)
  <2>1. UnmappedMap = [m \in FlatMutation |-> UnmappedMap[m]]
    BY DEF UnmappedMap
  <2> QED BY <1>1, <2>1 DEF Maps
<1>3. ASSUME NEW ms \in Seq(FlatMutation)
      PROVE  Flat!Unmapped(ms) = Through(UnmappedMap, ms)
  <2>1. \A i \in DOMAIN ms : ms[i] \in FlatMutation
    OBVIOUS
  <2>2. \A i \in DOMAIN ms : [ms[i] EXCEPT !.prefix = Flat!decompose(ms[i].prefix)] = UnmappedMap[ms[i]]
    BY <2>1 DEF UnmappedMap
  <2> QED BY <2>2 DEF Flat!Unmapped, Through
<1>4. ASSUME NEW m \in FlatMutation
      PROVE  /\ UnmappedMap[m].prefix = m.prefix.prefix
             /\ UnmappedMap[m].value = m.value
             /\ UnmappedMap[m].delete = m.delete
  <2> DEFINE u == UnmappedMap[m]
  <2>1. u = [prefix |-> m.prefix.prefix, value |-> m.value, delete |-> m.delete]
    BY <1>1
  <2> HIDE DEF u
  <2>2. u.prefix = m.prefix.prefix /\ u.value = m.value /\ u.delete = m.delete
    BY <2>1
  <2> QED BY <2>2 DEF u
<1> QED BY <1>2, <1>3, <1>4

\* What is said of a prefix is what is said of its native spelling.
SaidAlike(all, un) ==
    LET s == DOMAIN all
    IN  /\ DOMAIN un = s /\ un \in Seq(Plain)
        /\ Named(un, s) \in SUBSET Prefix
        /\ Named(all, s) = {Native(p) : p \in Named(un, s)}
        /\ \A p \in Named(un, s) :
              /\ LastFor(un, s, p).value = LastFor(all, s, Native(p)).value
              /\ LastFor(un, s, p).delete = LastFor(all, s, Native(p)).delete
              /\ LastFor(un, s, p).delete \in BOOLEAN

LEMMA NativesAreSaidAlike ==
    ASSUME NEW all \in Seq(NativeMutation)
    PROVE  SaidAlike(all, Flat!Unmapped(all))
<1> DEFINE un == Flat!Unmapped(all)
           s == DOMAIN all
<1>1. all \in Seq(FlatMutation)
  BY DEF NativeMutation
<1>2. s = 1 .. Len(all) /\ Len(all) \in Nat
  BY LenProperties
<1>3. un = Through(UnmappedMap, all)
  BY <1>1, UnmappedIsThrough
<1>4. DOMAIN un = s /\ un \in Seq(Plain)
  BY <1>1, <1>2, <1>3, ThroughType, UnmappedIsThrough
<1>5. ASSUME NEW i \in s
      PROVE  /\ all[i].prefix = Native(un[i].prefix) /\ un[i].prefix \in Prefix
             /\ un[i].value = all[i].value /\ un[i].delete = all[i].delete
             /\ un[i].delete \in BOOLEAN
  <2>1. all[i] \in NativeMutation
    BY ElementOfSeq
  <2>2. all[i] \in FlatMutation /\ all[i].prefix.form = "native"
    BY <2>1 DEF NativeMutation
  <2>3. all[i].prefix \in Flat!SpelledPrefix /\ all[i].delete \in BOOLEAN
    BY <2>2 DEF FlatMutation
  <2>4. un[i] = UnmappedMap[all[i]]
    BY <1>3 DEF Through
  <2>5. un[i].prefix = all[i].prefix.prefix /\ un[i].value = all[i].value /\ un[i].delete = all[i].delete
    BY <2>2, <2>4, UnmappedIsThrough
  <2> QED BY <2>2, <2>3, <2>5, Spellings
<1> HIDE DEF un
<1>6. Named(un, s) \in SUBSET Prefix
  BY <1>5 DEF Named
<1>7. Named(all, s) = {Native(p) : p \in Named(un, s)}
  BY <1>5 DEF Named
<1>8. ASSUME NEW p \in Named(un, s)
      PROVE  /\ LastFor(un, s, p).value = LastFor(all, s, Native(p)).value
             /\ LastFor(un, s, p).delete = LastFor(all, s, Native(p)).delete
             /\ LastFor(un, s, p).delete \in BOOLEAN
  <2>1. PICK i \in s : /\ LastFor(un, s, p) = un[i]
                       /\ un[i].prefix = p
                       /\ \A j \in s : un[j].prefix = p => j <= i
    BY <1>4, LastForIsLast
  <2>2. ASSUME NEW j \in s, all[j].prefix = all[i].prefix PROVE j <= i
    <3>1. un[j].prefix = un[i].prefix
      BY <1>5, <2>2, Spellings
    <3> QED BY <2>1, <3>1
  <2>3. LastFor(all, s, all[i].prefix) = all[i]
    BY <1>1, <2>2, LastForUnique
  <2>4. all[i].prefix = Native(p)
    BY <1>5, <2>1
  <2> QED BY <1>5, <2>1, <2>3, <2>4
<1> QED BY <1>4, <1>6, <1>7, <1>8 DEF SaidAlike, un

\* Applying native mutations to a table in native spelling.
LEMMA FinalInNative ==
    ASSUME NEW all, NEW un, SaidAlike(all, un), NEW t
    PROVE  Final(InNative(t), all, DOMAIN all) = InNative(Final(t, un, DOMAIN un))
<1> DEFINE s == DOMAIN all
           T == DOMAIN t
           named == Named(all, s)
           plain == Named(un, s)
           Latest(x) == LastFor(all, s, x)
           Last1(p) == LastFor(un, s, p)
           N == InNative(t)
           kept == {x \in DOMAIN N \cup named : x \in named => ~Latest(x).delete}
           left == {p \in T \cup plain : p \in plain => ~Last1(p).delete}
           F == Final(t, un, s)
<1>1. /\ DOMAIN un = s
      /\ named = {Native(p) : p \in plain}
      /\ \A p \in plain : /\ Last1(p).value = Latest(Native(p)).value
                          /\ Last1(p).delete = Latest(Native(p)).delete
  BY DEF SaidAlike
<1>2. Final(N, all, s) = [x \in kept |-> IF x \in named THEN Latest(x).value ELSE N[x]]
  BY DEF Final
<1>3. F = [p \in left |-> IF p \in plain THEN Last1(p).value ELSE t[p]]
  BY DEF Final
<1>4. DOMAIN N = {Native(p) : p \in T} /\ \A p \in T : N[Native(p)] = t[p]
  <2>1. \A p : Native(p).prefix = p
    BY Spellings
  <2> QED BY <2>1 DEF InNative
<1> HIDE DEF named, plain, Latest, Last1, N, F, T
<1>5. \A p, q : Native(p) = Native(q) => p = q
  BY Spellings
<1>6. kept = {Native(p) : p \in left}
  <2>1. \A p : (Native(p) \in named <=> p \in plain) /\ (Native(p) \in DOMAIN N <=> p \in T)
    BY <1>1, <1>4, <1>5
  <2>2. ASSUME NEW p \in left PROVE Native(p) \in kept
    BY <1>1, <2>1
  <2>3. ASSUME NEW x \in kept PROVE \E p \in left : x = Native(p)
    <3>1. PICK p \in T \cup plain : x = Native(p)
      BY <1>1, <1>4
    <3> QED BY <1>1, <2>1, <3>1
  <2> QED BY <2>2, <2>3
<1>7. ASSUME NEW p \in left
      PROVE  (IF Native(p) \in named THEN Latest(Native(p)).value ELSE N[Native(p)]) = F[p]
  <2>1. F[p] = IF p \in plain THEN Last1(p).value ELSE t[p]
    BY <1>3
  <2>2. Native(p) \in named <=> p \in plain
    BY <1>1, <1>5
  <2>3. p \notin plain => p \in T
    OBVIOUS
  <2> QED BY <1>1, <1>4, <2>1, <2>2, <2>3
<1>8. DOMAIN F = left
  BY <1>3
<1> HIDE DEF kept, left
<1>9. InNative(F) = [x \in {Native(p) : p \in left} |-> F[x.prefix]]
  BY <1>8 DEF InNative
<1>10. \A x \in {Native(p) : p \in left} :
          (IF x \in named THEN Latest(x).value ELSE N[x]) = F[x.prefix]
  BY <1>7, Spellings
<1>11. Final(N, all, s) = InNative(F)
  BY <1>2, <1>6, <1>9, <1>10
<1> QED BY <1>1, <1>11 DEF N, F

\* As many spellings as prefixes.
LEMMA NativesAreCounted ==
    ASSUME NEW S \in SUBSET Prefix
    PROVE  Flat!Cardinality({Native(p) : p \in S}) = Cardinality(S)
<1> DEFINE T == {Native(p) : p \in S}
           f == [p \in S |-> Native(p)]
<1>1. IsFiniteSet(S)
  BY PrefixesAreFinite, FS_Subset
<1>2. \A p, q : Native(p) = Native(q) => p = q
  BY Spellings
<1>3. f \in Bijection(S, T)
  BY <1>2 DEF Bijection, Injection, Surjection, IsInjective
<1>4. Cardinality(T) = Cardinality(S)
  BY <1>1, <1>3, FS_Bijection DEF ExistsBijection
<1> QED BY <1>4, SamePrefixes

\* No more prefixes than spellings.
LEMMA SpellingsAreCounted ==
    ASSUME NEW S \in SUBSET Flat!SpelledPrefix
    PROVE  LET T == {Flat!decompose(x) : x \in S}
           IN  /\ T \in SUBSET Prefix
               /\ Cardinality(S) \in Nat /\ Cardinality(T) \in Nat
               /\ Cardinality(T) <= Cardinality(S)
<1> DEFINE T == {Flat!decompose(x) : x \in S}
           f == [x \in S |-> Flat!decompose(x)]
           pairs == {"native", "mapped"} \X Prefix
           g == [pair \in pairs |-> Flat!Spelled(pair[1], pair[2])]
<1>1. IsFiniteSet(Flat!SpelledPrefix)
  <2>1. IsFiniteSet({"native", "mapped"}) /\ IsFiniteSet(Prefix)
    <3>1. IsFiniteSet({"native"} \cup {"mapped"})
      BY FS_Singleton, FS_AddElement
    <3>2. {"native"} \cup {"mapped"} = {"native", "mapped"}
      OBVIOUS
    <3> QED BY <3>1, <3>2, PrefixesAreFinite
  <2>2. IsFiniteSet(pairs)
    BY <2>1, FS_Product
  <2>3. g \in Surjection(pairs, Flat!SpelledPrefix)
    <3>1. Flat!SpelledPrefix = {Flat!Spelled(form, p) : form \in {"native", "mapped"}, p \in Prefix}
      BY SamePrefixes DEF Flat!SpelledPrefix
    <3>2. \A pair \in pairs : pair[1] \in {"native", "mapped"} /\ pair[2] \in Prefix
      OBVIOUS
    <3>3. \A form \in {"native", "mapped"}, p \in Prefix :
             <<form, p>> \in pairs /\ <<form, p>>[1] = form /\ <<form, p>>[2] = p
      OBVIOUS
    <3> HIDE DEF pairs
    <3>4. ASSUME NEW x \in Flat!SpelledPrefix PROVE \E pair \in pairs : g[pair] = x
      <4>1. PICK form \in {"native", "mapped"}, p \in Prefix : x = Flat!Spelled(form, p)
        BY <3>1
      <4> DEFINE pair == <<form, p>>
      <4>2. pair \in pairs /\ pair[1] = form /\ pair[2] = p
        BY <3>3
      <4> HIDE DEF pair
      <4>3. g[pair] = x
        BY <4>1, <4>2
      <4> QED BY <4>2, <4>3
    <3>5. g \in [pairs -> Flat!SpelledPrefix]
      BY <3>1, <3>2
    <3> QED BY <3>4, <3>5 DEF Surjection
  <2> HIDE DEF pairs, g
  <2> QED BY <2>2, <2>3, FS_Surjection
<1>2. IsFiniteSet(S)
  BY <1>1, FS_Subset
<1>3. f \in Surjection(S, T)
  BY DEF Surjection
<1>4. T \in SUBSET Prefix
  BY Spellings
<1> HIDE DEF T, f
<1>5. IsFiniteSet(T) /\ Cardinality(T) <= Cardinality(S)
  BY <1>2, <1>3, FS_Surjection
<1>6. Cardinality(S) \in Nat /\ Cardinality(T) \in Nat
  BY <1>2, <1>5, FS_CardinalityType
<1> QED BY <1>4, <1>5, <1>6 DEF T

-----------------------------------------------------------------------------
(* What is published, and what the two publication paths of flatlpm make of it. *)

FlatNative == mutations \in [Request -> Seq(NativeMutation)]

FlatDecided ==
    LET un == Flat!Unmapped(Flat!Gathered(batch))
    IN  Final(Flat!Published, un, DOMAIN un)

\* What is in a generation's slice for each of its prefixes.
FlatRead(g, memory) == [p \in g.stored |-> memory[g.values][Own(p)]]

LEMMA FlatPublished ==
    /\ Flat!Published = FlatRead(Flat!current, slices)
    /\ Flat!Published' = FlatRead(gens'[Len(gens')], slices')
    /\ Flat!recovered = InNative(Flat!Published)
<1>1. Flat!Published = FlatRead(Flat!current, slices)
  BY SameSlotNames DEF Flat!Published, Flat!Content, Flat!Values, FlatRead
<1>2. Flat!Published' = FlatRead(gens'[Len(gens')], slices')
  BY SameSlotNames DEF Flat!Published, Flat!Content, Flat!Values, FlatRead, Flat!current
<1>3. Flat!recovered = InNative(Flat!Published)
  <2> DEFINE now == Flat!current
             table == Flat!Published
  <2>1. table = FlatRead(now, slices)
    BY <1>1
  <2>2. Flat!recovered = [x \in {Native(p) : p \in now.stored} |-> slices[now.values][Own(x.prefix)]]
    BY SameSlotNames DEF Flat!recovered, Flat!Values, Native
  <2> HIDE DEF now, table
  <2>3. DOMAIN table = now.stored /\ \A p \in now.stored : table[p] = slices[now.values][Own(p)]
    BY <2>1 DEF FlatRead
  <2>4. \A x \in {Native(p) : p \in now.stored} : x.prefix \in now.stored
    BY Spellings
  <2>5. Flat!recovered = InNative(table)
    BY <2>2, <2>3, <2>4 DEF InNative
  <2> QED BY <2>5 DEF table
<1> QED BY <1>1, <1>2, <1>3

LEMMA FlatPublishedRoutes ==
    ASSUME FlatInv, TypeOK
    PROVE  /\ Flat!Published = [p \in DOMAIN Flat!Published |-> Flat!Published[p]]
           /\ DOMAIN Flat!Published = Flat!current.stored
           /\ DOMAIN Flat!Published \in SUBSET Prefix
<1>1. Flat!Published = FlatRead(Flat!current, slices)
  BY FlatPublished
<1>2. Flat!current.stored \in SUBSET Prefix
  BY CurrentFlat DEF FlatGeneration
<1> QED BY <1>1, <1>2 DEF FlatRead

\* What a batch asks for is native if every call is.
LEMMA FlatGathers ==
    ASSUME FlatNative, TypeOK
    PROVE  SaidAlike(Flat!Gathered(batch), Flat!Unmapped(Flat!Gathered(batch)))
<1> DEFINE asked == [i \in DOMAIN batch |-> mutations[batch[i]]]
           all == Flat!Gathered(batch)
<1>1. DOMAIN batch = 1 .. Len(batch) /\ Len(batch) \in Nat /\ \A i \in DOMAIN batch : batch[i] \in Request
  BY DEF TypeOK
<1>2. asked \in Seq(Seq(NativeMutation))
  <2>1. \A i \in DOMAIN batch : mutations[batch[i]] \in Seq(NativeMutation)
    BY <1>1 DEF FlatNative
  <2> QED BY <1>1, <2>1
<1>3. all = FlattenSeq(asked)
  BY SameFlatten DEF Flat!Gathered
<1> HIDE DEF all, asked
<1>4. all \in Seq(NativeMutation)
  BY <1>2, <1>3, FlattenedType
<1>5. SaidAlike(all, Flat!Unmapped(all))
  BY <1>4, NativesAreSaidAlike
<1> QED BY <1>5 DEF all

\* A rebuild of a table in native spelling publishes the table.
LEMMA FlatBuildHoldsTable ==
    ASSUME NEW t, t = [p \in DOMAIN t |-> t[p]], NEW n, NEW address, NEW memory,
           memory[address] = Flat!BuiltValues(InNative(t))
    PROVE  FlatRead(Flat!buildGeneration(InNative(t), n, address), memory) = t
<1> DEFINE catalog == InNative(t)
           S == DOMAIN t
           stored == {Flat!decompose(x) : x \in DOMAIN catalog}
           Worth(p) == IF Flat!Spelled("mapped", p) \in DOMAIN catalog
                       THEN catalog[Flat!Spelled("mapped", p)]
                       ELSE catalog[Flat!Spelled("native", p)]
           g == Flat!buildGeneration(catalog, n, address)
           slice == Flat!BuiltValues(catalog)
<1>1. g.stored = stored /\ g.values = address
  BY DEF Flat!buildGeneration
<1>2. slice = [slot \in Slots(stored) |-> Worth(RefOf(stored, slot))]
  <2>1. slice = [slot \in Flat!Slots(stored) |-> Worth(Flat!RefOf(stored, slot))]
    BY DEF Flat!BuiltValues
  <2> HIDE DEF stored, slice, Worth
  <2> QED BY <2>1, SameSlots
<1>3. DOMAIN catalog = {Native(p) : p \in S} /\ \A p \in S : catalog[Native(p)] = t[p]
  <2>1. \A p : Native(p).prefix = p
    BY Spellings
  <2> QED BY <2>1 DEF InNative
<1> HIDE DEF catalog
<1>4. stored = S
  <2>1. \A p : Flat!decompose(Native(p)) = p
    BY Spellings DEF Flat!decompose
  <2> HIDE DEF S
  <2> QED BY <1>3, <2>1
<1>5. ASSUME NEW p \in S PROVE Worth(p) = t[p]
  <2>1. Flat!Spelled("mapped", p) \notin DOMAIN catalog
    <3>1. Flat!Spelled("mapped", p).form = "mapped" /\ \A q : Native(q).form = "native"
      BY Spellings
    <3> QED BY <1>3, <3>1
  <2> QED BY <1>3, <2>1 DEF Native
<1>6. \A p \in S : Own(p) \in Slots(S) /\ RefOf(S, Own(p)) = p
  BY DEF Slots, RefOf, Own
<1> HIDE DEF slice, g, stored, Worth
<1>7. \A p \in S : slice[Own(p)] = t[p]
  BY <1>2, <1>4, <1>5, <1>6
<1>8. memory[address] = slice
  BY DEF slice, catalog
<1>9. FlatRead(g, memory) = t
  <2>1. FlatRead(g, memory) = [p \in S |-> slice[Own(p)]]
    BY <1>1, <1>4, <1>8 DEF FlatRead
  <2> HIDE DEF S
  <2>2. [p \in S |-> slice[Own(p)]] = [p \in S |-> t[p]]
    BY <1>7
  <2> QED BY <2>1, <2>2 DEF S
<1> QED BY <1>9 DEF g, catalog

LEMMA FlatStructuralTable ==
    ASSUME FlatInv, TypeOK, FlatNative, Flat!PublishStructural
    PROVE  /\ Flat!Publish(Flat!Buildable(FlatDecided))
           /\ Flat!Published' = IF Flat!Buildable(FlatDecided) THEN FlatDecided ELSE Flat!Published
<1> DEFINE all == Flat!Gathered(batch)
           un == Flat!Unmapped(all)
           table == Flat!Published
           decided == FlatDecided
           catalog == Flat!rebuilt(Flat!Coalesced(batch))
           g == Flat!buildGeneration(catalog, number + 1, Len(slices) + 1)
           slice == Flat!BuiltValues(catalog)
<1>1. SaidAlike(all, un)
  BY FlatGathers
<1>2. catalog = InNative(decided)
  <2>1. catalog = Amended(InNative(table), LastOnes(all))
    BY SameBatches, FlatPublished DEF Flat!rebuilt, Flat!Coalesced
  <2>2. decided = Final(table, un, DOMAIN un)
    BY DEF FlatDecided
  <2> HIDE DEF all, un, table, catalog, decided
  <2>3. Amended(InNative(table), LastOnes(all)) = Final(InNative(table), all, DOMAIN all)
    BY AmendedIsFinal
  <2>4. Final(InNative(table), all, DOMAIN all) = InNative(Final(table, un, DOMAIN un))
    BY <1>1, FinalInNative
  <2> QED BY <2>1, <2>2, <2>3, <2>4
<1>3. decided = [p \in DOMAIN decided |-> decided[p]] /\ DOMAIN decided \in SUBSET Prefix
  <2>1. decided = Final(table, un, DOMAIN un)
    BY DEF FlatDecided
  <2>2. DOMAIN table \in SUBSET Prefix
    BY FlatPublishedRoutes
  <2>3. Named(un, DOMAIN un) \in SUBSET Prefix
    BY <1>1 DEF SaidAlike
  <2> HIDE DEF un, table, decided
  <2> QED BY <2>1, <2>2, <2>3 DEF Final
<1>4. /\ Flat!Publish(Flat!Buildable(catalog))
      /\ IF Flat!Buildable(catalog) THEN gens' = Append(gens, g) /\ slices' = Append(slices, slice)
                                    ELSE UNCHANGED <<gens, slices>>
  BY DEF Flat!PublishStructural
<1> HIDE DEF catalog, decided
<1>5. Flat!Buildable(catalog) = Flat!Buildable(decided)
  <2>1. DOMAIN catalog = {Native(p) : p \in DOMAIN decided}
    BY <1>2 DEF InNative
  <2>2. Flat!Cardinality(DOMAIN catalog) = Flat!Cardinality(DOMAIN decided)
    BY <1>3, <2>1, NativesAreCounted, SamePrefixes
  <2> QED BY <2>2 DEF Flat!Buildable
<1>6. CASE Flat!Buildable(catalog)
  <2>1. gens' = Append(gens, g) /\ slices' = Append(slices, slice)
    BY <1>4, <1>6
  <2> HIDE DEF g, slice
  <2>2. gens \in Seq(Range(gens)) /\ slices \in Seq(Range(slices))
    BY DEF FlatInv
  <2>3. gens'[Len(gens')] = g /\ slices'[Len(slices) + 1] = slice
    BY <2>1, <2>2, Appended
  <2>4. FlatRead(g, slices') = decided
    BY <1>2, <1>3, <2>3, FlatBuildHoldsTable DEF g, slice
  <2>5. Flat!Published' = decided
    BY <2>3, <2>4, FlatPublished
  <2> QED BY <1>4, <1>5, <1>6, <2>5 DEF decided
<1>7. CASE ~Flat!Buildable(catalog)
  <2>1. Flat!Published' = Flat!Published
    BY <1>4, <1>7 DEF Flat!Published, Flat!Content, Flat!current, Flat!Values
  <2> QED BY <1>4, <1>5, <1>7, <2>1 DEF decided
<1> QED BY <1>6, <1>7

\* A payload update is the case in which a batch adds and withdraws nothing.
LEMMA FlatUpdatesOnly ==
    ASSUME FlatInv, TypeOK, FlatNative, ~Flat!structural(Flat!Coalesced(batch))
    PROVE  LET changes == Flat!Coalesced(batch)
           IN  FlatDecided = [p \in Flat!current.stored |->
                                 IF Native(p) \in DOMAIN changes THEN changes[Native(p)].value
                                 ELSE Flat!Published[p]]
<1> DEFINE all == Flat!Gathered(batch)
           un == Flat!Unmapped(all)
           s == DOMAIN all
           changes == Flat!Coalesced(batch)
           table == Flat!Published
           stored == Flat!current.stored
<1>1. SaidAlike(all, un)
  BY FlatGathers
<1>2. DOMAIN changes = Named(all, s) /\ \A x \in Named(all, s) : changes[x] = LastFor(all, s, x)
  BY SameBatches DEF Flat!Coalesced, LastOnes
<1>3. DOMAIN table = stored
  BY FlatPublishedRoutes
<1>4. \A x \in DOMAIN changes :
         ~(((IF x.prefix \in stored THEN Own(x.prefix) ELSE NoSlot) = NoSlot) # changes[x].delete)
  <2>1. \A x : Flat!Exact(Flat!current, x) = IF x.prefix \in stored THEN Own(x.prefix) ELSE NoSlot
    BY SameSlots DEF Flat!Exact, ExactSlot, Flat!decompose
  <2>2. \A x \in DOMAIN changes : ~((Flat!Exact(Flat!current, x) = NoSlot) # changes[x].delete)
    BY SameSlotNames DEF Flat!structural
  <2> HIDE DEF changes, stored
  <2> QED BY <2>1, <2>2
<1>5. FlatDecided = Final(table, un, DOMAIN un)
  BY DEF FlatDecided
<1> HIDE DEF all, un, changes, table, stored
<1>6. /\ DOMAIN un = s
      /\ Named(all, s) = {Native(p) : p \in Named(un, s)}
      /\ \A p \in Named(un, s) :
              /\ LastFor(un, s, p).value = LastFor(all, s, Native(p)).value
              /\ LastFor(un, s, p).delete = LastFor(all, s, Native(p)).delete
              /\ LastFor(un, s, p).delete \in BOOLEAN
  BY <1>1 DEF SaidAlike
<1>7. ASSUME NEW p \in Named(un, s)
      PROVE  LastFor(un, s, p).delete <=> p \notin DOMAIN table
  <2> DEFINE x == Native(p)
             gone == LastFor(un, s, p).delete
  <2>1. x \in DOMAIN changes /\ changes[x].delete = gone /\ gone \in BOOLEAN
    BY <1>2, <1>6
  <2>2. x.prefix = p
    BY Spellings
  <2> HIDE DEF x, gone
  <2>3. ~(((IF p \in stored THEN Own(p) ELSE NoSlot) = NoSlot) # gone)
    BY <1>4, <2>1, <2>2
  <2>4. Own(p) # NoSlot
    BY DEF Own, NoSlot
  <2>5. gone <=> p \notin stored
    BY <2>1, <2>3, <2>4
  <2> QED BY <1>3, <2>5 DEF gone
<1>8. Final(table, un, DOMAIN un) =
         [p \in DOMAIN table |-> IF p \in Named(un, DOMAIN un)
                                 THEN LastFor(un, DOMAIN un, p).value ELSE table[p]]
  BY <1>6, <1>7, FinalOfUpdates
<1>9. ASSUME NEW p
      PROVE  (IF p \in Named(un, s) THEN LastFor(un, s, p).value ELSE table[p]) =
                 IF Native(p) \in DOMAIN changes THEN changes[Native(p)].value ELSE table[p]
  <2>1. \A q : Native(q) = Native(p) => q = p
    BY Spellings
  <2>2. Native(p) \in DOMAIN changes <=> p \in Named(un, s)
    BY <1>2, <1>6, <2>1
  <2>3. CASE p \in Named(un, s)
    BY <1>2, <1>6, <2>2, <2>3
  <2>4. CASE p \notin Named(un, s)
    BY <2>2, <2>4
  <2> QED BY <2>3, <2>4
<1>10. FlatDecided = [p \in stored |-> IF Native(p) \in DOMAIN changes THEN changes[Native(p)].value
                                       ELSE table[p]]
  BY <1>3, <1>5, <1>6, <1>8, <1>9
<1> QED BY <1>10 DEF changes, stored, table

LEMMA FlatPayloadTable ==
    ASSUME FlatInv, TypeOK, FlatNative, Flat!PublishPayload
    PROVE  Flat!Published' = FlatDecided /\ DOMAIN FlatDecided = DOMAIN Flat!Published
<1> DEFINE now == Flat!current
           changes == Flat!Coalesced(batch)
           stored == now.stored
           old == slices[now.values]
           table == Flat!Published
           g == [now EXCEPT !.values = Len(slices) + 1]
<1>1. ~Flat!structural(changes) /\ gens' = Append(gens, g)
  BY DEF Flat!PublishPayload
<1>2. PICK new \in Flat!repayloads(changes) : slices' = Append(slices, new)
  BY DEF Flat!PublishPayload
<1>3. FlatDecided = [p \in stored |-> IF Native(p) \in DOMAIN changes THEN changes[Native(p)].value
                                      ELSE table[p]]
  BY <1>1, FlatUpdatesOnly
<1>4. table = [p \in stored |-> old[Own(p)]]
  BY FlatPublished DEF FlatRead
<1>5. DOMAIN changes \in SUBSET Flat!SpelledPrefix /\ \A x \in DOMAIN changes : x = Native(x.prefix)
  <2> DEFINE all == Flat!Gathered(batch)
             un == Flat!Unmapped(all)
  <2>1. SaidAlike(all, un)
    BY FlatGathers
  <2>2. DOMAIN changes = Named(all, DOMAIN all)
    BY SameBatches DEF Flat!Coalesced, LastOnes
  <2>3. DOMAIN changes \in SUBSET Flat!SpelledPrefix
    BY FlatChangesTyped
  <2> HIDE DEF all, un, changes
  <2> QED BY <2>1, <2>2, <2>3, Spellings DEF SaidAlike
<1> DEFINE Writers(slot) == {x \in DOMAIN changes : Flat!Exact(now, x) = slot}
           Possible(slot) == IF Writers(slot) = {} THEN {old[slot]}
                             ELSE {changes[x].value : x \in Writers(slot)}
<1>6. \A slot \in Slots(stored) : new[slot] \in Possible(slot)
  <2>1. \A slot \in Flat!Slots(stored) : new[slot] \in Possible(slot)
    BY <1>2 DEF Flat!repayloads, Flat!Values
  <2> HIDE DEF stored, Possible
  <2> QED BY <2>1, SameSlots
<1>7. \A x : Flat!Exact(now, x) = IF x.prefix \in stored THEN Own(x.prefix) ELSE NoSlot
  BY SameSlots DEF Flat!Exact, ExactSlot, Flat!decompose
<1>8. g.stored = stored /\ g.values = Len(slices) + 1
  BY CurrentFlat DEF FlatGeneration
<1> HIDE DEF now, changes, stored, old, table, g
<1>9. ASSUME NEW p \in stored
      PROVE  Writers(Own(p)) = {Native(p)} \cap DOMAIN changes
  <2>1. ASSUME NEW x \in Writers(Own(p)) PROVE x = Native(p)
    <3>1. x \in DOMAIN changes /\ Flat!Exact(now, x) = Own(p)
      OBVIOUS
    <3>2. Own(p) # NoSlot /\ \A q : Own(q) = Own(p) => q = p
      BY DEF Own, NoSlot
    <3>3. x.prefix = p
      BY <1>7, <3>1, <3>2
    <3> QED BY <1>5, <3>1, <3>3
  <2>2. ASSUME Native(p) \in DOMAIN changes PROVE Native(p) \in Writers(Own(p))
    <3>1. Native(p).prefix = p
      BY Spellings
    <3>2. Flat!Exact(now, Native(p)) = Own(p)
      BY <1>7, <3>1
    <3> QED BY <2>2, <3>2
  <2>3. Writers(Own(p)) \in SUBSET (DOMAIN changes)
    OBVIOUS
  <2> HIDE DEF Writers
  <2> QED BY <2>1, <2>2, <2>3
<1> HIDE DEF Writers
<1>10. ASSUME NEW p \in stored
       PROVE  new[Own(p)] = IF Native(p) \in DOMAIN changes THEN changes[Native(p)].value ELSE table[p]
  <2> DEFINE slot == Own(p)
             x == Native(p)
  <2>1. slot \in Slots(stored)
    BY DEF Slots
  <2>2. new[slot] \in Possible(slot)
    BY <1>6, <2>1
  <2>3. table[p] = old[slot]
    BY <1>4
  <2>4. Writers(slot) = {x} \cap DOMAIN changes
    BY <1>9
  <2> HIDE DEF slot, x
  <2>5. CASE x \in DOMAIN changes
    <3>1. Writers(slot) = {x}
      BY <2>4, <2>5
    <3>2. new[slot] = changes[x].value
      BY <2>2, <3>1
    <3> QED BY <2>5, <3>2 DEF slot, x
  <2>6. CASE x \notin DOMAIN changes
    <3>1. Writers(slot) = {}
      BY <2>4, <2>6
    <3>2. new[slot] = old[slot]
      BY <2>2, <3>1
    <3> QED BY <2>3, <2>6, <3>2 DEF slot, x
  <2> QED BY <2>5, <2>6
<1>11. Flat!Published' = [p \in stored |-> new[Own(p)]]
  <2>1. gens \in Seq(Range(gens)) /\ slices \in Seq(Range(slices))
    BY DEF FlatInv
  <2>2. gens'[Len(gens')] = g /\ slices'[Len(slices) + 1] = new
    BY <1>1, <1>2, <2>1, Appended
  <2>3. Flat!Published' = FlatRead(g, slices')
    BY <2>2, FlatPublished
  <2> QED BY <1>8, <2>2, <2>3 DEF FlatRead
<1>12. [p \in stored |-> new[Own(p)]] = FlatDecided
  BY <1>3, <1>10
<1>13. DOMAIN FlatDecided = stored /\ DOMAIN table = stored
  BY <1>3, <1>4
<1> QED BY <1>11, <1>12, <1>13 DEF table
-----------------------------------------------------------------------------
(* flatlpm, step by step. *)

\* What the mapping to RouteTable needs beyond the invariants.
FlatFate ==
    /\ OpenInv
    /\ OnTheWay(mutations, FlatMutations)
    /\ Flat!Buildable(Flat!Published)

\* What RouteTable sees of flatlpm's calls.
LEMMA FlatAsks ==
    /\ Flat!Asked = [r \in Request |-> IF Accepted(r) THEN Flat!Unmapped(mutations[r]) ELSE <<>>]
    /\ Flat!Asked' = [r \in Request |-> IF Accepted(r)' THEN Flat!Unmapped(mutations'[r]) ELSE <<>>]
<1>1. Flat!Asked = [r \in Request |-> IF Accepted(r) THEN Flat!Unmapped(mutations[r]) ELSE <<>>]
  BY SameControl DEF Flat!Asked
<1>2. Flat!Asked' = [r \in Request |-> IF Accepted(r)' THEN Flat!Unmapped(mutations'[r]) ELSE <<>>]
  BY SameControlNext DEF Flat!Asked
<1> QED BY <1>1, <1>2

LEMMA FlatUnseen ==
    ASSUME SeesNothing, UNCHANGED Flat!Published,
           \A r \in Request : Accepted(r) => mutations'[r] = mutations[r]
    PROVE  UNCHANGED Flat!Abstract!vars
<1>1. Flat!Asked' = Flat!Asked
  BY FlatAsks DEF SeesNothing, SameCalls
<1> QED BY <1>1, SameControl, SameControlNext DEF Flat!Abstract!vars, SeesNothing

LEMMA FlatRefuse ==
    ASSUME NEW r \in Request, SeesRefusal(r), UNCHANGED <<mutations, Flat!Published>>
    PROVE  Flat!Abstract!Refuse(r)
<1>1. Flat!Asked' = Flat!Asked
  BY FlatAsks DEF SeesRefusal, SameCalls
<1> QED BY <1>1, SameControl, SameControlNext
        DEF SeesRefusal, Unseen, Flat!Abstract!Refuse, Flat!Abstract!Verdict, Flat!Abstract!Undecided, Pending

LEMMA FlatAccept ==
    ASSUME FlatFate, NEW r \in Request, SeesAcceptance(r), UNCHANGED <<mutations, Flat!Published>>
    PROVE  Flat!Abstract!Accept(r)
<1>1. Flat!Asked' = [Flat!Asked EXCEPT ![r] = Flat!Unmapped(mutations[r])]
  <2>1. Accepted(r)' /\ \A q \in Request : q # r => Accepted(q)' = Accepted(q)
    BY DEF SeesAcceptance
  <2> QED BY <2>1, FlatAsks
<1>2. mutations[r] \in FlatMutations
  BY DEF FlatFate, OnTheWay, SeesAcceptance
<1> QED BY <1>1, <1>2, SameControl, SameControlNext
        DEF SeesAcceptance, Unseen, Flat!Abstract!Accept, Flat!Abstract!Undecided, Pending

LEMMA FlatAnswer ==
    ASSUME NEW r \in Request, SeesAnswer(r), UNCHANGED <<mutations, Flat!Published>>
    PROVE  Flat!Abstract!Answer(r)
<1>1. Flat!Asked' = Flat!Asked
  BY FlatAsks DEF SeesAnswer, SameCalls
<1> QED BY <1>1, SameControl, SameControlNext
        DEF SeesAnswer, Flat!Abstract!Answer, Flat!Abstract!Undecided, Pending

\* Its copies of the community modules' operators are these.
LEMMA FlatOperators ==
    ASSUME NEW t, NEW all
    PROVE  /\ Flat!Abstract!FlattenSeq(all) = FlattenSeq(all)
           /\ Flat!Abstract!FoldLeft(Flat!Abstract!Apply, t, all) = FoldLeft(Flat!Abstract!Apply, t, all)
<1>1. Flat!Abstract!FlattenSeq(all) = FlattenSeq(all)
  BY DEF Flat!Abstract!FlattenSeq, FlattenSeq
<1>2. \A S : Flat!Abstract!Max(S) = Max(S)
  BY DEF Flat!Abstract!Max, Max
<1>3. Flat!Abstract!FoldLeft(Flat!Abstract!Apply, t, all) = FoldLeft(Flat!Abstract!Apply, t, all)
  BY <1>2 DEF Flat!Abstract!FoldLeft, FoldLeft, Flat!Abstract!MapThenFoldSet, MapThenFoldSet
<1> QED BY <1>1, <1>3

\* RouteTable applies the mutations one by one; together they are Final.
LEMMA FlatOneByOne ==
    ASSUME NEW S, NEW all \in Seq(S), NEW t, t = [p \in DOMAIN t |-> t[p]]
    PROVE  Flat!Abstract!FoldLeft(Flat!Abstract!Apply, t, all) = Final(t, all, DOMAIN all)
<1> DEFINE places == DOMAIN all
           Equation(f) ==
               f = [s \in SUBSET places |->
                       IF s = {} THEN t ELSE Flat!Abstract!Apply(f[s \ {Max(s)}], all[Max(s)])]
           final == [s \in SUBSET places |-> Final(t, all, s)]
           fold == CHOOSE f : Equation(f)
<1>1. AppliesInOrder(final, t, all)
  BY FinalApplies
<1>2. \A u, m : Flat!Abstract!Apply(u, m) = Applied(u, m)
  <2> TAKE u, m
  <2>1. CASE m.delete
    BY <2>1 DEF Flat!Abstract!Apply, Applied, Overwrite
  <2>2. CASE ~m.delete
    BY <2>2 DEF Flat!Abstract!Apply, Applied, Overwrite
  <2> QED BY <2>1, <2>2
<1>3. Equation(final)
  <2>1. \A s \in SUBSET places :
           Final(t, all, s) =
               IF s = {} THEN t ELSE Flat!Abstract!Apply(final[s \ {Max(s)}], all[Max(s)])
    BY <1>1, <1>2 DEF AppliesInOrder
  <2> QED BY <2>1
<1>4. Equation(fold)
  <2> HIDE DEF Equation
  <2> QED BY <1>3
<1>5. Flat!Abstract!FoldLeft(Flat!Abstract!Apply, t, all) = fold[places]
  <2>1. Flat!Abstract!FoldLeft(Flat!Abstract!Apply, t, all) = FoldLeft(Flat!Abstract!Apply, t, all)
    BY FlatOperators
  <2>2. FoldLeft(Flat!Abstract!Apply, t, all) = fold[places]
    BY DEF FoldLeft, MapThenFoldSet
  <2> QED BY <2>1, <2>2
<1> HIDE DEF fold, final
<1>6. AppliesInOrder(fold, t, all)
  BY <1>2, <1>4 DEF AppliesInOrder
<1>7. fold[places] = Final(t, all, places)
  BY <1>6, ApplyingIsFinal
<1> QED BY <1>5, <1>7

LEMMA FlatJoined ==
    ASSUME FlatInv, TypeOK, \A i \in DOMAIN batch : batch[i] \in Request /\ Accepted(batch[i])
    PROVE  /\ Flat!Abstract!Joined(batch) = Flat!Unmapped(Flat!Gathered(batch))
           /\ \E S : Flat!Unmapped(Flat!Gathered(batch)) \in Seq(S)
<1> DEFINE asks == [i \in DOMAIN batch |-> mutations[batch[i]]]
           all == Flat!Gathered(batch)
<1>1. DOMAIN batch = 1 .. Len(batch) /\ Len(batch) \in Nat
  BY DEF TypeOK
<1>2. \A i \in DOMAIN batch : mutations[batch[i]] \in Seq(FlatMutation)
  BY DEF FlatInv
<1>3. asks \in Seq(Seq(FlatMutation)) /\ DOMAIN asks = DOMAIN batch
  BY <1>1, <1>2
<1>4. ASSUME NEW i \in DOMAIN batch PROVE Flat!Asked[batch[i]] = Through(UnmappedMap, asks[i])
  <2>1. Flat!Asked[batch[i]] = Flat!Unmapped(mutations[batch[i]])
    BY FlatAsks
  <2> QED BY <1>2, <2>1, UnmappedIsThrough
<1>5. all = FlattenSeq(asks)
  BY SameFlatten DEF Flat!Gathered
<1>6. Flat!Abstract!Joined(batch) = FlattenSeq([i \in DOMAIN batch |-> Flat!Asked[batch[i]]])
  BY FlatOperators DEF Flat!Abstract!Joined
<1> HIDE DEF asks, all
<1>7. [i \in DOMAIN batch |-> Flat!Asked[batch[i]]] = [i \in DOMAIN asks |-> Through(UnmappedMap, asks[i])]
  BY <1>3, <1>4
<1>8. FlattenSeq([i \in DOMAIN asks |-> Through(UnmappedMap, asks[i])]) = Through(UnmappedMap, all)
  BY <1>3, <1>5, FlattenedThrough, UnmappedIsThrough
<1>9. all \in Seq(FlatMutation)
  BY FlatChangesTyped DEF all
<1>10. Flat!Unmapped(all) = Through(UnmappedMap, all) /\ Through(UnmappedMap, all) \in Seq(Plain)
  BY <1>9, UnmappedIsThrough, ThroughType
<1> QED BY <1>6, <1>7, <1>8, <1>10 DEF all

\* What the accepted calls of a batch ask for, one after the other, is decided.
LEMMA FlatBatchIsDecided ==
    ASSUME FlatInv, TypeOK, \A i \in DOMAIN batch : batch[i] \in Request /\ Accepted(batch[i])
    PROVE  Flat!Abstract!Outcome(batch) = FlatDecided
<1> DEFINE all == Flat!Unmapped(Flat!Gathered(batch))
           table == Flat!Published
<1>1. Flat!Abstract!Joined(batch) = all /\ \E S : all \in Seq(S)
  BY FlatJoined
<1>2. table = [p \in DOMAIN table |-> table[p]]
  BY FlatPublishedRoutes
<1>3. FlatDecided = Final(table, all, DOMAIN all)
  BY DEF FlatDecided
<1>4. Flat!Abstract!Outcome(batch) = Flat!Abstract!FoldLeft(Flat!Abstract!Apply, table, Flat!Abstract!Joined(batch))
  BY DEF Flat!Abstract!Outcome
<1> HIDE DEF all, table
<1>5. Flat!Abstract!FoldLeft(Flat!Abstract!Apply, table, all) = Final(table, all, DOMAIN all)
  BY <1>1, <1>2, FlatOneByOne
<1> QED BY <1>1, <1>3, <1>4, <1>5

\* Both publication paths decide on the batch: all of it or none.
LEMMA FlatPublishIsDecide ==
    ASSUME Inv, FlatInv, FlatFate, FlatNative, Flat!PublishStructural \/ Flat!PublishPayload
    PROVE  Flat!Abstract!Next
<1> DEFINE n == Len(batch)
           fits == Flat!Buildable(FlatDecided)
<1>0. TypeOK
  BY DEF Inv
<1>1. /\ Publish(fits) /\ UNCHANGED mutations
      /\ Flat!Published' = IF fits THEN FlatDecided ELSE Flat!Published
  <2>1. CASE Flat!PublishStructural
    <3>1. UNCHANGED mutations
      BY <2>1 DEF Flat!PublishStructural
    <3>2. /\ Flat!Publish(fits)
          /\ Flat!Published' = IF fits THEN FlatDecided ELSE Flat!Published
      BY <1>0, <2>1, FlatStructuralTable
    <3> HIDE DEF fits
    <3> QED BY <3>1, <3>2, SameWriter
  <2>2. CASE Flat!PublishPayload
    <3>1. UNCHANGED mutations /\ Flat!Publish(TRUE)
      BY <2>2 DEF Flat!PublishPayload
    <3>2. Flat!Published' = FlatDecided /\ DOMAIN FlatDecided = DOMAIN Flat!Published
      BY <1>0, <2>2, FlatPayloadTable
    <3>3. fits
      BY <3>2 DEF FlatFate, Flat!Buildable
    <3>4. Publish(TRUE)
      BY <3>1, SameWriter
    <3>5. fits = TRUE
      BY <3>3 DEF Flat!Buildable
    <3> HIDE DEF fits
    <3> QED BY <3>1, <3>2, <3>4, <3>5
  <2> QED BY <2>1, <2>2
<1> HIDE DEF fits
<1>2. SeesDecision(fits)
  BY <1>1, PublishIsSeen DEF FlatFate
<1>3. Flat!Abstract!Outcome(batch) = FlatDecided
  BY <1>0, <1>2, FlatBatchIsDecided DEF SeesDecision
<1>4. fits = Flat!Buildable(Flat!Abstract!Outcome(batch))
  BY <1>3 DEF fits
<1>5. Flat!Asked' = Flat!Asked
  BY <1>1, <1>2, FlatAsks DEF SeesDecision, SameCalls
<1>6. n \in DOMAIN Flat!Backlog /\ Flat!Abstract!Decide(n)
  <2>1. n \in DOMAIN Flat!Backlog /\ SubSeq(Flat!Backlog, 1, n) = batch
    BY <1>2, SameControl DEF SeesDecision
  <2>2. /\ number' = IF fits THEN number + 1 ELSE number
        /\ Flat!Fate' = [r \in Request |->
              IF \E i \in DOMAIN batch : batch[i] = r
              THEN [generation |-> number', err |-> IF fits THEN "ok" ELSE "ErrBuild"]
              ELSE Flat!Fate[r]]
        /\ Flat!Backlog' = SubSeq(Flat!Backlog, n + 1, Len(Flat!Backlog))
        /\ UNCHANGED outcome
    BY <1>2, SameControl, SameControlNext DEF SeesDecision
  <2>3. Flat!Published' = IF fits THEN Flat!Abstract!Outcome(batch) ELSE Flat!Published
    BY <1>1, <1>3
  <2> QED BY <1>4, <1>5, <2>1, <2>2, <2>3 DEF Flat!Abstract!Decide
<1> QED BY <1>6 DEF Flat!Abstract!Next

\* New starts where RouteTable does.
LEMMA FlatBegins == Flat!Init => Flat!Abstract!Init
<1> SUFFICES ASSUME Flat!Init PROVE Flat!Abstract!Init
  OBVIOUS
<1>1. ProtocolInit
  BY SameInit DEF Flat!Init
<1>2. /\ Backlog = <<>> /\ Fate = [r \in Request |-> Pending]
      /\ \A r \in Request : ~Accepted(r)
      /\ outcome = [r \in Request |-> Pending] /\ number = 1
  BY <1>1 DEF ProtocolInit, Backlog, Fate, Accepted, Stored, InBatch
<1>3. Flat!Asked = [r \in Request |-> <<>>]
  BY <1>2, FlatAsks
<1> QED BY <1>2, <1>3, SameControl DEF Flat!Abstract!Init, Flat!Abstract!Undecided, Pending

\* A step that publishes nothing leaves the published table alone.
LEMMA FlatTableStays == UNCHANGED <<gens, slices>> => UNCHANGED Flat!Published
BY DEF Flat!Published, Flat!Content, Flat!Values, Flat!current

LEMMA FlatStepFate ==
    ASSUME Inv, FlatInv, FlatFate, FlatNative, Flat!TableNext
    PROVE  FlatFate'
<1>0. TypeOK
  BY DEF Inv
<1>1. \/ /\ mutations' = mutations
         /\ \/ \E q \in Request : SubmitInvalid(q) \/ SubmitStep(q)
            \/ \E c \in Closer : CloseCall(c) \/ CloseStep(c)
            \/ Writer
      \/ \E q \in Request, m \in FlatMutations :
            SubmitNormalized(q) /\ mutations' = [mutations EXCEPT ![q] = m]
  <2>1. CASE \E q \in Request : Flat!Submit(q)
    BY <2>1, SameSubmits DEF Flat!Submit
  <2>2. CASE \E c \in Closer : Flat!Close(c)
    BY <2>2, SameCloses DEF Flat!Close
  <2>3. CASE Flat!Manage \/ Flat!CountStats
    BY <2>3, SameWriter DEF Flat!Manage, Flat!CountStats, Writer
  <2>4. CASE Flat!PublishStructural
    <3>1. PICK built : Flat!Publish(built) /\ mutations' = mutations /\ built \in BOOLEAN
      <4>1. Flat!Buildable(Flat!rebuilt(Flat!Coalesced(batch))) \in BOOLEAN
        BY DEF Flat!Buildable
      <4> QED BY <2>4, <4>1 DEF Flat!PublishStructural
    <3> QED BY <3>1, SameWriter DEF Writer
  <2>5. CASE Flat!PublishPayload
    BY <2>5, SameWriter DEF Flat!PublishPayload, Writer
  <2> QED BY <2>1, <2>2, <2>3, <2>4, <2>5 DEF Flat!TableNext
<1>2. OpenInv'
  <2>1. Next
    BY <1>1 DEF Next
  <2> QED BY <1>0, <2>1, StepOpen DEF FlatFate
<1>3. OnTheWay(mutations, FlatMutations)'
  <2>1. DOMAIN mutations = Request
    BY DEF FlatInv
  <2>2. OnTheWay(mutations, FlatMutations)
    BY DEF FlatFate
  <2>3. ASSUME NEW r \in Request, submit'[r] \in {"lock", "sending"} PROVE mutations'[r] \in FlatMutations
    BY <1>0, <1>1, <2>1, <2>2, <2>3, StepOnTheWay
  <2> QED BY <2>3 DEF OnTheWay
<1>4. Flat!Buildable(Flat!Published')
  <2>0. Flat!Buildable(Flat!Published)
    BY DEF FlatFate
  <2>1. CASE Flat!PublishStructural
    <3>1. Flat!Published' = IF Flat!Buildable(FlatDecided) THEN FlatDecided ELSE Flat!Published
      BY <1>0, <2>1, FlatStructuralTable
    <3> QED BY <2>0, <3>1
  <2>2. CASE Flat!PublishPayload
    <3>1. Flat!Published' = FlatDecided /\ DOMAIN FlatDecided = DOMAIN Flat!Published
      BY <1>0, <2>2, FlatPayloadTable
    <3> QED BY <2>0, <3>1 DEF Flat!Buildable
  <2>3. CASE ~Flat!PublishStructural /\ ~Flat!PublishPayload
    <3>1. UNCHANGED <<gens, slices>>
      BY <2>3 DEF Flat!TableNext, Flat!Submit, Flat!Close, Flat!Manage, Flat!CountStats, Flat!dataVars
    <3> QED BY <2>0, <3>1, FlatTableStays
  <2> QED BY <2>1, <2>2, <2>3
<1> QED BY <1>2, <1>3, <1>4 DEF FlatFate, Flat!Buildable

\* Every step of the table is a step of RouteTable or invisible to it.
LEMMA FlatStepRefines ==
    ASSUME Inv, FlatInv, FlatFate, FlatNative, Flat!TableNext
    PROVE  [Flat!Abstract!Next]_(Flat!Abstract!vars)
<1>0. TypeOK /\ OpenInv
  BY DEF Inv, FlatFate
<1>1. ASSUME SeesNothing, UNCHANGED <<mutations, gens, slices>>
      PROVE  UNCHANGED Flat!Abstract!vars
  BY <1>1, FlatUnseen, FlatTableStays
<1>2. ASSUME NEW r \in Request, Flat!Submit(r) PROVE [Flat!Abstract!Next]_(Flat!Abstract!vars)
  <2>1. UNCHANGED Flat!Published
    BY <1>2, FlatTableStays DEF Flat!Submit, Flat!dataVars
  <2>2. CASE (SubmitInvalid(r) \/ SubmitStep(r)) /\ UNCHANGED mutations
    <3>1. SeesNothing \/ SeesRefusal(r) \/ SeesAcceptance(r)
      BY <1>0, <2>2, CallsAreSeen
    <3>2. SeesNothing => UNCHANGED Flat!Abstract!vars
      BY <2>1, <2>2, FlatUnseen
    <3>3. SeesRefusal(r) => Flat!Abstract!Refuse(r)
      BY <2>1, <2>2, FlatRefuse
    <3>4. SeesAcceptance(r) => Flat!Abstract!Accept(r)
      BY <2>1, <2>2, FlatAccept
    <3> QED BY <3>1, <3>2, <3>3, <3>4 DEF Flat!Abstract!Next
  <2>3. CASE SubmitNormalized(r) /\ \E ms \in FlatMutations : mutations' = [mutations EXCEPT ![r] = ms]
    <3>1. SeesNothing
      BY <1>0, <2>3, OtherCallsAreUnseen
    <3>2. ~Accepted(r)
      BY <2>3 DEF SubmitNormalized, Accepted
    <3>3. DOMAIN mutations = Request
      BY DEF FlatInv
    <3>4. \A q \in Request : Accepted(q) => mutations'[q] = mutations[q]
      BY <2>3, <3>2, <3>3
    <3> QED BY <2>1, <3>1, <3>4, FlatUnseen
  <2> QED BY <1>2, <2>2, <2>3, SameSubmits DEF Flat!Submit
<1>3. ASSUME NEW c \in Closer, Flat!Close(c) PROVE UNCHANGED Flat!Abstract!vars
  <2>1. SeesNothing
    BY <1>0, <1>3, SameCloses, OtherCallsAreUnseen DEF Flat!Close
  <2> QED BY <1>1, <1>3, <2>1 DEF Flat!Close, Flat!dataVars
<1>4. CASE Flat!Manage
  <2>1. UNCHANGED <<mutations, gens, slices>>
    BY <1>4 DEF Flat!Manage, Flat!dataVars
  <2>2. SeesNothing \/ \E r \in Request : SeesAnswer(r)
    BY <1>0, <1>4, SameWriter, CollectIsSeen DEF Flat!Manage
  <2>3. ASSUME NEW r \in Request, SeesAnswer(r) PROVE Flat!Abstract!Answer(r)
    BY <2>1, <2>3, FlatAnswer, FlatTableStays
  <2> QED BY <1>1, <2>1, <2>2, <2>3 DEF Flat!Abstract!Next
<1>5. CASE Flat!PublishStructural \/ Flat!PublishPayload
  BY <1>5, FlatPublishIsDecide
<1>6. CASE Flat!CountStats
  <2>1. SeesNothing
    BY <1>6, SameWriter, CountIsUnseen DEF Flat!CountStats
  <2> QED BY <1>1, <1>6, <2>1 DEF Flat!CountStats
<1> QED BY <1>2, <1>3, <1>4, <1>5, <1>6 DEF Flat!TableNext

\* New fits what it publishes first into the index, whatever the spellings.
LEMMA FlatFirstFate ==
    ASSUME Flat!Init
    PROVE  FlatFate
<1>1. ProtocolInit
  BY SameInit DEF Flat!Init
<1>2. OpenInv
  BY <1>1 DEF ProtocolInit, OpenInv, Answered, Pending
<1>3. OnTheWay(mutations, FlatMutations)
  BY <1>1 DEF ProtocolInit, OnTheWay
<1>4. PICK catalog \in FlatCatalogs :
         Flat!Buildable(catalog) /\ gens = <<Flat!buildGeneration(catalog, 1, 1)>>
  BY DEF Flat!Init
<1> DEFINE S == DOMAIN catalog
           T == {Flat!decompose(x) : x \in S}
           g == Flat!buildGeneration(catalog, 1, 1)
<1>5. S \in SUBSET Flat!SpelledPrefix
  BY RouteAssumption
<1>6. gens = <<g>> /\ g.stored = T
  BY <1>4 DEF Flat!buildGeneration
<1>7. Cardinality(S) <= MaxEntries
  BY <1>4, SamePrefixes DEF Flat!Buildable
<1> HIDE DEF g, S
<1>8. /\ Cardinality(S) \in Nat /\ Cardinality(T) \in Nat
      /\ Cardinality(T) <= Cardinality(S)
  BY <1>5, SpellingsAreCounted
<1>9. Flat!current = g
  BY <1>6 DEF Flat!current
<1>10. DOMAIN Flat!Published = T
  BY <1>6, <1>9, FlatPublished DEF FlatRead
<1> HIDE DEF T
<1>11. Cardinality(T) <= MaxEntries
  BY <1>7, <1>8, BuilderAssumption
<1>12. Flat!Buildable(Flat!Published)
  BY <1>10, <1>11, SamePrefixes DEF Flat!Buildable
<1> QED BY <1>2, <1>3, <1>12 DEF FlatFate

\* A call of native spellings stays one.
LEMMA FlatStaysNative ==
    ASSUME NativeOnly, FlatNative, Flat!TableNext
    PROVE  FlatNative'
<1>0. ASSUME NEW ms \in FlatMutations PROVE ms \in Seq(NativeMutation)
  <2>1. ms \in Seq(FlatMutation)
    BY RouteAssumption DEF FlatMutation
  <2>2. \A i \in DOMAIN ms : ms[i] \in NativeMutation
    BY <2>1 DEF NativeOnly, NativeMutation
  <2> QED BY <2>1, <2>2
<1>1. ASSUME NEW r \in Request, Flat!Submit(r) PROVE FlatNative'
  BY <1>0, <1>1 DEF Flat!Submit, FlatNative
<1>2. CASE ~\E r \in Request : Flat!Submit(r)
  BY <1>2 DEF Flat!TableNext, Flat!Close, Flat!Manage, Flat!PublishStructural, Flat!PublishPayload,
              Flat!CountStats, FlatNative
<1> QED BY <1>1, <1>2
-----------------------------------------------------------------------------
(* Both packages implement RouteTable. *)

FateInv ==
    /\ package \in Packages
    /\ package = "flatlpm" => FlatFate /\ FlatNative
    /\ package = "dirlpm" => DirFate

\* What was published first, and every step, as RouteTable has them.
FirstKept ==
    /\ package = "flatlpm" => Flat!Abstract!Init
    /\ package = "dirlpm" => Dir!Abstract!Init
StepKept ==
    /\ package = "flatlpm" => [Flat!Abstract!Next]_(Flat!Abstract!vars)
    /\ package = "dirlpm" => [Dir!Abstract!Next]_(Dir!Abstract!vars)

LEMMA InitFate == Init => FateInv /\ FirstKept
<1> SUFFICES ASSUME Init PROVE FateInv /\ FirstKept
  OBVIOUS
<1>1. package \in Packages
  BY DEF Init
<1>2. ASSUME package = "flatlpm" PROVE FlatFate /\ FlatNative /\ Flat!Abstract!Init
  <2>1. Flat!Init
    BY <1>2 DEF Init
  <2>2. mutations = [r \in Request |-> <<>>] /\ <<>> \in Seq(NativeMutation)
    BY <2>1 DEF Flat!Init
  <2>3. FlatNative
    BY <2>2 DEF FlatNative
  <2> QED BY <2>1, <2>3, FlatFirstFate, FlatBegins
<1>3. ASSUME package = "dirlpm" PROVE DirFate /\ Dir!Abstract!Init
  <2>1. Dir!Init
    BY <1>3 DEF Init
  <2> QED BY <2>1, DirFirstFate, DirBegins
<1> QED BY <1>1, <1>2, <1>3 DEF FateInv, FirstKept

\* A step that changes nothing.
LEMMA StutterKept ==
    ASSUME TypeOK, FateInv, UNCHANGED vars
    PROVE  FateInv' /\ StepKept
<1>1. UNCHANGED <<package, protocolVars, mutations, gens, slices, slices6>>
  BY DEF vars
<1>2. UNCHANGED submit
  BY <1>1 DEF protocolVars, callVars
<1>3. OpenInv => OpenInv'
  BY <1>1, StepOpen
<1>4. \A all : OnTheWay(mutations, all) => OnTheWay(mutations, all)'
  BY <1>1, <1>2 DEF OnTheWay
<1>5. UNCHANGED Flat!Published /\ UNCHANGED Dir!Published
  BY <1>1, FlatTableStays, DirTableStays
<1>6. FlatFate => FlatFate'
  BY <1>3, <1>4, <1>5 DEF FlatFate, Flat!Buildable
<1>7. DirFate => DirFate'
  BY <1>3, <1>4, <1>5 DEF DirFate, Dir!Buildable
<1>8. FlatNative => FlatNative'
  BY <1>1 DEF FlatNative
<1>9. SeesNothing
  BY <1>1, OtherCallsAreUnseen
<1>10. UNCHANGED Flat!Abstract!vars /\ UNCHANGED Dir!Abstract!vars
  BY <1>1, <1>5, <1>9, FlatUnseen, DirUnseen
<1> QED BY <1>1, <1>6, <1>7, <1>8, <1>10 DEF FateInv, StepKept

LEMMA StepPromise ==
    ASSUME "flatlpm" \in Packages => NativeOnly,
           Inv, RecoveredInv, FateInv, [TableNext]_vars
    PROVE  FateInv' /\ StepKept
<1>1. CASE RunFlat
  <2>1. package = "flatlpm" /\ package' = "flatlpm" /\ Flat!TableNext /\ package \in Packages
    BY <1>1 DEF RunFlat, FateInv
  <2>2. FlatInv /\ FlatFate /\ FlatNative /\ NativeOnly
    BY <2>1 DEF RecoveredInv, FateInv
  <2>3. FlatFate' /\ FlatNative' /\ [Flat!Abstract!Next]_(Flat!Abstract!vars)
    BY <2>1, <2>2, FlatStepFate, FlatStaysNative, FlatStepRefines
  <2> QED BY <2>1, <2>3 DEF FateInv, StepKept
<1>2. CASE RunDir
  <2>1. package = "dirlpm" /\ package' = "dirlpm" /\ Dir!TableNext /\ package \in Packages
    BY <1>2 DEF RunDir, FateInv
  <2>2. DirInv /\ DirFate
    BY <2>1 DEF RecoveredInv, FateInv
  <2>3. DirFate' /\ [Dir!Abstract!Next]_(Dir!Abstract!vars)
    BY <2>1, <2>2, DirStepFate, DirStepRefines
  <2> QED BY <2>1, <2>3 DEF FateInv, StepKept
<1>3. CASE UNCHANGED vars
  BY <1>3, StutterKept DEF Inv
<1> QED BY <1>1, <1>2, <1>3 DEF TableNext

\* Recovering the table from the indexes, coalescing, and both publication paths of
\* flatlpm and of dirlpm amount to RouteTable: accepted calls take effect in the
\* order of their acceptance, all or none of a batch, and each caller is told the
\* fate of its own call (ImplementsRouteTable).  Of flatlpm this holds only if no
\* call spells a prefix 4-in-6: DeleteYanks shows what becomes of two spellings.
THEOREM RecoveredTablesKeepTheirPromise ==
    ASSUME "flatlpm" \in Packages => NativeOnly
    PROVE  TableSpec => ImplementsRouteTable
<1>1. Init => FateInv /\ FirstKept
  BY InitFate
<1>2. Inv /\ RecoveredInv /\ FateInv /\ [TableNext]_vars => FateInv' /\ StepKept
  BY StepPromise
<1>3. TableSpec => FirstKept /\ [][StepKept]_vars
  BY <1>1, <1>2, RecoveredInvariance, PTL DEF TableSpec
<1> QED BY <1>3, PTL DEF ImplementsRouteTable, FirstKept, StepKept
=============================================================================
