# Prefix Lookup in TLA+

Models of the tables of `github.com/iqhive/prefixlookup`, the properties that
make them correct, the runs that check them and the theorems that are proved
about them.  Every definition is a translation of the Go source at the lines
`PROJECT.json` ("map") gives for it.

    tlc -config PagedTable.cfg MCPagedTable                # a run
    tlapm WriterProtocolProofs.tla                         # a module of proofs

## 1. The system

The repository is a collection of IP prefix tables.  All of them answer the
same question, which stored prefix covers an address (a set) or what value the
longest covering prefix has (longest prefix match, LPM).  They differ in how
they are compiled and in how they are updated:

- *Managed tables* have one writer goroutine.  `Submit` puts a request on a
  bounded channel; the writer collects a batch, builds an immutable generation
  and publishes it with one atomic store; readers load the pointer once and
  never block (`compiledfib`, `flatlpm`, `dirlpm`, `splitribfib`, `preorder2`).
  `splitribfib` builds two structures in two goroutines and publishes them as
  one generation.
- *Locked tables* have a mutex for writers and publish in the same way from
  the caller's goroutine (`steplpm`, `slotlpm`, `parityset`, `soaart`, `aosart`,
  `versioned`).  `versioned.Update` calls its caller back between lock and store.
- *In-place tables* are changed where they are and leave locking to the caller
  (`artlpm`, `artset`, `groupartset`, the archived `coverartset`,
  `latticeartset`, `arenaartset`, `arenaartlpm`, `artwalk`).
- *Immutable tables* are built once (`flatset`, `dirset`, `flatwalk`,
  `orderwalk`, `rangematch`, `blocklpm`, the indexes of the tables above, the
  archived range sets, bit tries and walk tables).

| Component | State | Operations | Hard parts |
|---|---|---|---|
| writer protocol of the managed tables | channel, `submitMu`, `closed`, Once, `stop`, `done`, batch | Submit, Close, the writer's loop, collect, drain, publish | Submit against Close, timer against stop against queue, blocking with a mutex held, draining, closing a channel that callers send on |
| data of `compiledfib`, `preorder2`, `splitribfib` | catalogue or published map, generations, pages, counters | publish (two paths), Lookup, WalkParents, Stats | coalescing, failed rebuilds, catalogue and generation kept apart, shared pages, two indexes in one generation |
| `routepages` | immutable pages | New, Get, With | copy on write |
| `flatart` | trie arena, value slots, exact table | Insert, Build, Lookup, Exact, All, the membership index | inherited defaults have slots of their own; pruning and leaves of the membership index |
| `flatlpm` data | generations, no catalogue | publish, repayload, rebuild, Lookup, Exact | recovers its table from its index; two spellings of one prefix |
| `dirlpm` data | blocks for IPv4, `flatart` for IPv6, a value slice each | publish, repayload, rebuild, Lookup, Exact | copies only the slices of the families a batch touches; recovers its table from two indexes |
| `parityset` | sorted prefixes, published set | Insert, Delete, Reset, ApplyBatch, Contains | skipped publications, merged ranges, two-level cut, end of the address space |
| `steplpm` | map of routes with ids, index, value vector | Insert, Delete, Reset, ApplyBatch, Lookup | remembered ids, map order, windows and second cuts |
| `slotlpm` | sorted slices, index, value vector | the same | positions are ids, splices |
| `soaart`, `aosart` | tables as `steplpm`'s and `slotlpm`'s, each with a compiled trie | the same, Exact, WalkSupernets, WalkSubnets | fringes and leaves that become nodes, walks over three kinds of slots |
| `versioned` | generations of a FIB, a RIB or both; a writer's staged entries and their places | Update, Writer.Insert, Writer.Delete | tombstones among places that the index map remembers, two structures published as one, a function that panics |
| range sets (`rangematch`, `rangeset`, `soarangeset`, `thinrangeset`) | merged ranges, classifier | New, Match | adjacency over two words, dropped low words |
| `flatset`, `dirset` | membership index, slot table of merged ranges | New, Contains | tagged words, promoted slots, ends of the address space |
| preorder catalogues (`orderwalk`, `flatwalk`, `fiborderwalk`) | routes in preorder, parents, front index | New, Lookup, WalkParents, WalkDescendants, Exact | predecessor before the block, runs that end with the family |
| archived bit tries and rows (`bitlpm`, `bitwalk`, `bitfrontlpm`, `fibbitwalk`, `lenlpm`) | node arenas, front table, rows | New, Lookup, walks | paths that end above a front slot, doubled prefixes |
| `artlpm` | two tries with path-compressed leaves, a front table | Insert, Delete, BuildFront, Lookup, LookupPrefix, Get, All | leaves that are pushed down, pruning, a front table that any change drops |
| `artset`, `groupartset`, `coverartset`, `latticeartset` | the same trie for membership, cover bits or group ranks, a front table of codes | Insert, Delete, Contains, Size, All | coverage that several prefixes share, a front table that insertions patch and deletions rebuild |
| `arenaartset` | that trie in an arena with a free list | Load, Insert, Delete, Contains | indices that are reused, a front table that a read rebuilds |
| `arenaartlpm` | a trie in three arenas | Insert, Delete, Rebuild, Lookup | runs that move when they are full, places that nobody owns |
| `artwalk` | a trie whose nodes know their parents | Insert, Delete, Lookup, Supernets, Parent, Subnets, All | names rebuilt from the way up, pruning |

What makes them correct:

1. Every accepted request is answered exactly once, with the number of a
   generation that is published; Close waits for all of them (writer protocol).
2. A batch is applied as if its mutations were applied one by one, in the order
   of acceptance, all or none (managed tables).
3. A lookup answers from one generation, and no generation ever changes.
4. A lookup answers the longest match of what callers announced and did not
   withdraw, whichever path published it and whatever was split, pruned, moved
   or patched on the way.

## 2. Modules

| Module | Models | Extends |
|---|---|---|
| `WriterProtocol` | Submit, Close and the writer in its three shapes, without data; what every publish makes of a batch, and the control as `RouteTable` sees it | |
| `WriterProtocolProofs` | theorems about it | `WriterProtocol` |
| `RouteTable` | the abstract specification of a managed table | |
| `Prefixes` | addresses, normalised prefixes, longest match | |
| `RoutePages` | copy-on-write pages over an explicit heap | |
| `PagedTable` | `compiledfib.Table`, `preorder2.Table`, `splitribfib.Table` and their readers; refines `RouteTable` | `WriterProtocol`, `Prefixes`, `RoutePages` |
| `Foundations` | lemmas about division, folds, sequences, ranks and the operators of `Prefixes` | `Prefixes` |
| `PagedTableProofs` | theorems about `PagedTable`, its refinement included | `PagedTable`, `WriterProtocolProofs`, `Foundations` |
| `FlatART` | which value slots an index has, and where a lookup ends | `Prefixes` |
| `FlatLPM` | `flatlpm.Table`; refines `RouteTable` | `WriterProtocol`, `FlatART` |
| `BlockLPM` | the leaf-pushed blocks of `blocklpm` | `Prefixes` |
| `DirLPM` | `dirlpm.Table`, both families; refines `RouteTable` | `WriterProtocol`, `BlockLPM`, `FlatART` |
| `RecoveredTables` | a behaviour of `flatlpm` or `dirlpm`, the managed tables without a catalogue | `WriterProtocol`, `FlatART`, `BlockLPM`; INSTANCEs of `FlatLPM`, `DirLPM` |
| `RecoveredProofs` | theorems about `RecoveredTables` | `RecoveredTables`, `WriterProtocolProofs`, `LPMProofs` |
| `ParityTable` | `parityset.Set` and `Table` | `Prefixes` |
| `LockedProofs` | theorems about `ParityTable` and `StepLPM` | `ParityTable`, `StepLPM`, `Foundations` |
| `StepIndex` | the step function of `steplpm`, its windows and cuts, and the layout that `slotlpm` gives it | `Prefixes` |
| `StepLPM` | `steplpm.Table` and `soaart.Table`, whose indexes are parameters | `Prefixes` |
| `SlotLPM` | `slotlpm.Table` and `aosart.Table`, whose indexes are parameters | `Prefixes` |
| `ARTKeys` | what the ART tables share: keys, strides, indices within a stride | `Prefixes` |
| `ARTTrie` | the trie of `artlpm` and of the sets | `ARTKeys` |
| `ARTLPM` | `artlpm.Table` | `ARTTrie` |
| `ARTSet` | `artset`, `groupartset`, `coverartset`, `latticeartset` | `ARTTrie` |
| `ArenaSet` | `arenaartset.Set` | `ARTSet` |
| `ArenaLPM` | `arenaartlpm.Table` | `ARTKeys` |
| `WalkTrie`, `WalkLPM` | the trie and the table of `artwalk` | `ARTKeys` |
| `InPlaceTables` | a behaviour of any of the eight in-place tables | INSTANCEs of the five above |
| `Versioned` | `versioned.Table` in its three modes | INSTANCEs of `ARTTrie`, `WalkTrie` |
| `CompiledART` | the compiled tries of `soaart` and `aosart` | `ARTKeys` |
| `LockedTables` | a behaviour of any of the six locked tables | `ParityTable`, `StepLPM`; INSTANCEs of `SlotLPM` (twice), `Versioned` |
| `BitTrie` | the arenas and walks of the bit tries, `bitfrontlpm`'s front table, `lenlpm`'s rows | `Prefixes` |
| `IndexBuilder` | the builders of all indexes for longest match on the same prefixes | `FlatART`, `StepIndex`, `BlockLPM`, `BitTrie`, INSTANCE of `CompiledART` |
| `LPMProofs` | lemmas: an index of `flatart` or `blocklpm` answers the longest match | `FlatART`, `BlockLPM`, `Foundations` |
| `IndexProofs` | theorems about `IndexBuilder` | `IndexBuilder`, `LPMProofs` |
| `MemberSets` | merge, classifier and search of the four range sets; `flatart`'s membership index, `flatset`, `dirset` | `FlatART` |
| `PreorderWalk` | `orderwalk`, `flatwalk`, `fiborderwalk`, `fibbitwalk` | `FlatART`, `BitTrie` |
| `SetBuilder` | the builders of all sets and walk tables on the same prefixes | `MemberSets`, `PreorderWalk` |
| `SetProofs` | theorems about `SetBuilder` | `SetBuilder`, `LPMProofs` |

`MC*` modules give the constants the runs need.  Definitions keep the names of
the source.  An operator marked "Faulty variant" is not part of a
specification: it is the definition after it with one plausible mistake, and
shows that a property can fail.  Where several packages repeat the same code, a
definition is mapped to one of them.

### How the models correspond to the code

**Writer protocol.**  A member of `Request` is one call of Submit in a goroutine
of its own, a member of `Closer` one call of Close.  Each blocking operation and
each access to shared state is a step: Lock, the send, Unlock, each receive, the
store, the counter, each answer.  The variable `loop` says which writer the
table has: `manage` (`compiledfib`, `flatlpm`, `dirlpm`) and `drain`
(`splitribfib`) are stopped by a channel that the Once closes, and differ in
whether the drain goes on after a short batch; `range` (`preorder2`) is stopped
by closing the queue itself, with no Once but a second look at `closed` under
the mutex.  Two simplifications: `CloseStop` joins `close(stop)`, the Unlock and
the end of the Once, since nobody can act on the difference; and the timer may
fire at any time.  `Publish(built)` is the part of `publish` up to the atomic
store.

**Data.**  `PagedTable`, `FlatLPM` and `DirLPM` extend the protocol, so their
actions are those of the protocol with data.  All generations are kept, because
a reader may hold any of them.  Pages (`PagedTable`) and value slices (`FlatLPM`,
`DirLPM`) have addresses, so that writing what is shared would be seen.  In
`PagedTable` a reader loads the generation, asks the index, and reads one
payload after the other, with the writer between any two of these steps; the
indexes stand there by what they answer, which `IndexBuilder` and `SetBuilder`
show of the structures themselves.  `compiledfib` and `preorder2` rebuild from a
catalogue of the writer's, `splitribfib` from the generation it published.

**Indexes.**  An index is compared with `LongestMatch`, the reference
definition.  `FlatART` keeps what is observable of the arena: which slots exist,
which prefix each was filled from, and the slot a lookup ends at; bit sets,
ranks and the hash table are representation.  `ParityTable` and
`StepIndex` keep the arrays, offsets and cuts; `BlockLPM` names a block by the
path to it instead of a number.  `BitTrie` keeps the arena, and `MemberSets` what
a path of the membership index answers.  IPv6 keys are two words, of
which only the high one is cut: `LowBits` is the width of the low word, zero for
IPv4, so each module is both families.  `Width` and the cut widths are scaled
down together.

**Locked tables.**  A method that changes the table holds its mutex throughout
and publishes once, so it is one action, and Lookup is one load followed by
reads of immutable data.  `announced` is a history of what callers asked for; no
action reads it.  The order in which a Go map is walked is a nondeterministic
choice.  `versioned.Update` takes several steps, because its caller's function
runs under the mutex: lock and collect, any staged calls, then publish or panic.
Its generations are values of `ARTTrie` and `WalkTrie`, so a writer that changed
a published one would be seen.

`soaart.Table` and `aosart.Table` repeat the methods of `steplpm.Table` and
`slotlpm.Table` over another index; `StepLPM` and `SlotLPM` take the index as
constant operators.  `StepLPM` is of both packages, which `package` tells apart,
and `LockedTables` instantiates `SlotLPM` twice.  `LockedTables` extends
`ParityTable` and `StepLPM`, so their properties are those of these modules
themselves, which hold while another of the tables runs.

**In-place tables.**  No method locks, so callers must, and each method is one
step on a table that is a value: a trie for each family, the counters and the
front table.  A node is named by the path to it, where the code has a pointer;
the arenas have explicit places instead (`ArenaSet`'s free list, `ArenaLPM`'s
runs, `WalkTrie`'s heap), since reuse and relocation are what can go wrong
there.  Bitmaps are sets and the compressed arrays functions, except in
`ArenaLPM` and `WalkTrie`, which keep ranks and arrays.  A prefix carries the
spelling callers use (`as`), and `FromPrefix` does what `addrkey` does with it.

**Compiled tries.**  `CompiledART` has one node for each path, with tagged
references as the code has them; `soaart` and `aosart` differ in how `freeze`
lays the nodes out, which is representation, and each operator is mapped to one
of the two.

## 3. Runs

| Run | Shows | Bounds |
|---|---|---|
| `WriterProtocol` | `Inv`, which holds `TypeOK`, `NoRequestLost`, `AnsweredOnce`, `CloseDrains`, `ChannelsStayLegal`, `AnswerIsPublished`, `Monotone`; under `FairSpec`, `SubmitAnswered`, `CloseReturns` | three loops, 3 requests, 2 closers, channel and batch of 2: a Submit blocks with the mutex held, batches are full and short, draining takes two batches |
| `PagedTable` | `ImplementsRouteTable`, `GenerationsImmutable`, `CatalogIsPublished`, `StatsCountGenerations`, `LookupIsLongestMatch` | three tables, 2 requests, 1 Close, 1 reader between any steps, 6 kinds of mutation lists over three nested prefixes, pages of 2, at most 2 routes so that rebuilds fail |
| `RecoveredTables` | `ImplementsRouteTable`, `GenerationsImmutable`, `LookupIsLongestMatch` | `flatlpm`: 3 requests, 3-bit addresses, strides of 1 bit, rebuilds that fail; `dirlpm`: the same in both families, two levels of blocks, at most 3 prefixes of a family and 1 block of the last level so that rebuilds fail; 115,872 states |
| `LockedTables` | `ContainsStored`, `CoversRangeExact` (`parityset`); `StepLookupIsAnnounced`, `StepSizeIsAnnounced` (`steplpm`, `soaart`); `AnnouncedIsServed` (`slotlpm`, `aosart`, `versioned`) | `parityset`: 4-bit addresses with a low word, every set of 8 prefixes that nest, touch and end the space, both cuts in use; `steplpm`: 4-bit, 4 nested prefixes; `soaart`: 4-bit, 4 nested prefixes in two strides; `slotlpm`, `aosart`: 7 spelled prefixes of both families; 2 values, batches of 2; `versioned`: 2 callers, updates of up to 2 staged calls, 4 spelled prefixes, three modes; 11,032 states |
| `IndexBuilder` | `IndexIsLongestMatch`, `LookupInReach`, `LayoutsAgree`, `BlocksAreLongestMatch`, `CompiledTriesAreExact`, `TriesAreLongestMatch` | 6-bit addresses, up to 4 of 11 prefixes in every order: chains of two strides, leaves under defaults, fringes and leaves that split, a low word, both windows, second cuts, three levels of blocks, paths that end above and below a front slot, a prefix listed twice; 9,032 states |
| `SetBuilder` | `RangesAreUnion`, `RangesAreMinimal`, `FlatSetIsExact`, `DirSetIsExact`, `ParentsAreMatches`, `DescendantsAreNested` | 6-bit addresses with words of 3 bits, every collection of up to 4 of 16 prefixes of both families |
| `InPlaceTables` | `LookupIsAnnounced`, `ContainsStored`, `ContentIsAnnounced`, `TriesArePruned`, `ArenaIsPartitioned`, `WalksAreNested` | 6-bit addresses in three strides of two, groups of 2 slots, 6 to 9 spelled prefixes for each package, deletions until 3 places are dead; every sequence of calls; 26,613 states |

A longest-match index is decided by the relations of nesting, touching and
position relative to the cuts, which a few bits already show in full; the
batches are long enough for each mutation to be disturbed by one before it.
Three strides are the fewest in which a leaf can be pushed down twice, a node can
be pruned while its parent stays, and a front table ends above the last level.
In `arenaartlpm` it is the value runs that grow past their capacity and move; a
child run only gets its first places, since two children of one node triple the
states.  Both kinds of run are `InsertInRun`.
Three requests are the fewest with which a writer can hold one batch while a
second waits and a third blocks; two are enough for the data, where a third only
repeats a publication.  Two closers are the fewest for a second close.

These runs end in a violation, which is what they show:

| Run | Disagreement of the code with its documentation |
|---|---|
| `FlatLPM_payload` | after a value-only batch, addresses below a stride that inherits the changed prefix keep the old value |
| `FlatLPM_mapped` | a deletion in the 4-in-6 spelling is acknowledged and deletes nothing |
| `IndexBuilder_cut` | a second cut on a deeper octet ignores the octets it skips, so addresses that differ from the slot's steps there get a stranger's route (`steplpm`, and `slotlpm` in the same way) |
| `StepLPM_phantom` | a batch that deletes an absent prefix stores it |
| `SetBuilder_member` | `flatart`'s `Contains4` reads the word for a covered slot at its second level as the number of a node: with 10.0.0.0/24 and 10.0.0.0/25 stored, `flatset` panics or answers from an unrelated stride |

The passing runs beside them say what still holds: `LookupInReach` all addresses
that share the skipped octets; `LookupIsLongestMatch` of `RecoveredTables`
every rebuilt index, and `dirlpm`'s IPv4 in payload generations too;
`FlatSetIsExact` all IPv6 addresses and all IPv4 addresses outside the slots
that `Shadowed` names; `StepSizeIsAnnounced` every batch except a lone deletion of an
absent prefix.  `RecoveredTables` uses native spellings, and so does `steplpm`,
which keeps the two spellings of a prefix as two keys of its map with one route
id, so that the order in which the map is walked decides the value
(src/steplpm/table.go:221-235).  `steplpm` has no second cut and `slotlpm` only
cuts on the octet next to the window in `LockedTables`.

Other disagreements that were met, each left outside a run and named here:

- `parityset.ApplyBatch` returns at a bad prefix with the mutations before it
  stored and not published (src/parityset/table.go:157).  `LockedTables` offers
  batches whose bad prefix comes first.
- `dirset` rounds the start of a deeper range up to a slot; for a range that
  starts inside the last slot and ends before the last address, such as
  255.255.255.128/26, the sum leaves 32 bits and other slots are marked covered
  (src/dirset/set.go:213).  `DirSetIsExact` excludes the sets that
  `WrapsAround` names.
- `dirset` and `thinrangeset` never match a prefix in the 4-in-6 spelling, and
  `flatset` drops such prefixes when IPv6 is covered as a whole.  `SetBuilder`
  offers native spellings.
- `dirlpm` keeps 4-in-6 prefixes in the IPv4 half of its IPv6 index, where
  neither Lookup nor Exact sees them, although src/dirlpm/table.go:220 says they
  do not leak into the tables; the next rebuild reads them as native ones.
  `RecoveredTables` offers native spellings.
- `dirlpm` leaves inherited IPv6 copies stale after a payload update, as
  `flatlpm` does (src/dirlpm/table.go:454): for IPv6, `LookupIsLongestMatch`
  speaks of rebuilt generations only.
- `splitribfib` makes a `compiledfib` table at every structural publication and
  never closes it: its writer goroutine stays (src/splitribfib/table.go:381).
- `soaart` stores a prefix whose deletion comes alone and finds nothing, as
  `steplpm` does (src/soaart/table.go:339); `StepSizeIsAnnounced` has the same
  exception for it.
- WalkSubnets of `soaart` and `aosart` "reports whether prefix itself is stored"
  (src/soaart/table.go:107).  For a query that is not stored it still returns true
  when the descent ends at a leaf inside the query, or when the query is on a
  stride boundary and a node is there, and visits what is below; otherwise it
  returns false and visits nothing, whatever is below.  `CompiledTriesAreExact` asks for stored prefixes,
  as the tests do.
- `versioned` keys its entries by `prefix.Masked()`, so one IPv4 prefix in both
  spellings is two entries, of which the index keeps one: Size, "how many prefixes
  are in the current generation" (src/versioned/table.go:158), counts two until
  the next update, and Delete in the other spelling deletes nothing.
  `LockedTables` offers each prefix in one spelling.
- `arenaartlpm`'s count of dead values grows with every Delete, also of a value
  whose run has kept its place (src/old/arenaartlpm/table.go:39, :89).
  `ArenaIsPartitioned` says that every place without an owner is counted, not
  that no other is.
- `coverartset`, `latticeartset` and `arenaartset` prune after the deletion of a
  prefix in a node, not after that of a leaf, so nodes that are left empty stay.
  `TriesArePruned` leaves them out.
- `arenaartset`'s Contains rebuilds the front table when a deletion has marked it
  dirty: a read is a write, and callers that only hold a read lock race
  (src/old/arenaartset/set.go:231).  In the model callers serialise all calls.

`CHECK_DEADLOCK FALSE` is set where the calls of a behaviour are finitely many:
the system stops when all have returned.

### Fairness

`FairSpec` assumes weak fairness of the writer and of each call of Submit and
Close once it has begun, that is, that the Go scheduler runs every runnable
goroutine and an armed timer fires.  Nobody is obliged to call.  Weak fairness
is enough for `submitMu`: a request holds it once, and there are finitely many.
With unboundedly many callers Go's mutex is fair as well (starvation mode), but
that is not modelled.

## 4. Proofs

| Module | Theorem | Property |
|---|---|---|
| `WriterProtocolProofs` | `TypeCorrect`, `Invariance` | `TypeOK` (a part of `Inv`), `Inv` |
| | `RequestsAreKept`, `AnswersAreUnique` | `NoRequestLost`, `AnsweredOnce` |
| | `CloseIsComplete`, `NothingPanics` | `CloseDrains`, `ChannelsStayLegal` |
| | `AnswersArePublished`, `NumbersAndAnswersStay` | `AnswerIsPublished`, `Monotone` |
| `PagedTableProofs` | `TableInvariance` | the inductive invariant `TableInv` |
| | `CatalogsStayPublished`, `PublicationsAreCounted` | `CatalogIsPublished`, `StatsCountGenerations` |
| | `GenerationsNeverChange` | `GenerationsImmutable` |
| | `LookupsAreLongestMatches` | `LookupIsLongestMatch` |
| | `TablesKeepTheirPromise` | `ImplementsRouteTable` |
| `RecoveredProofs` | `RecoveredInvariance` | the inductive invariant `RecoveredInv` |
| | `RecoveredGenerationsStay` | `GenerationsImmutable` |
| | `RecoveredLookupsAreLongest` | `LookupIsLongestMatch` |
| | `RecoveredTablesKeepTheirPromise` | `ImplementsRouteTable` |
| `IndexProofs` | `BuiltIndexIsLongestMatch` | `IndexIsLongestMatch` |
| | `BuiltBlocksAreLongestMatch` | `BlocksAreLongestMatch` |
| | `BuiltStepsAreLongestMatch` | `LookupInReach` |
| | `BuiltLayoutsAgree` | `LayoutsAgree` |
| `SetProofs` | `RangeSetsAreUnion` | `RangesAreUnion` |
| | `RangeSetsAreMinimal` | `RangesAreMinimal` |
| | `IPv6SetsAreExact` | `Sets6AreExact`, the IPv6 half of the next two |
| | `FlatSetsAreExact` | `FlatSetIsExact` |
| | `DirSetsAreExact` | `DirSetIsExact` |
| `LockedProofs` | `PublishedSetsAnswerForTheStored` | `ContainsStored` |
| | `PublishedSetsCoverExactly` | `CoversRangeExact` |
| | `StepTablesKeepTheirSize` | `StepSizeIsAnnounced` |
| | `StepTablesAnswerForTheAnnounced` | `StepLookupIsAnnounced` |

### The writer protocol

For every set of requests and closers, every queue size, batch size and delay,
and each of the three loops.  The assumptions are the three of `WriterProtocol`:
sizes are positive, calls are distinct from each other and from "nobody", and
there are no loops but the three.

`CloseDrains` is not inductive: that `done` implies an empty channel needs that
no Submit is about to send when the writer leaves.  `Inv` has five parts beside
`TypeOK`.

- `MutexInv` (lemma `StepMutex`): exactly the holder of `submitMu` is between
  Lock and Unlock, `closed` is raised before `stop`, and once it is raised
  nobody is on the way to the channel.  This is where `closed` being read under
  the mutex is used.
- `OnceInv` (`StepOnce`): only one Close is ever about to close the channel, be
  it the one that the Once runs or, without a Once, the one that raised the
  flag.  With `MutexInv` it gives `NothingPanics`: no second close, and no send
  on a queue that `preorder2` has closed.
- `WriterInv` (`StepWriter`): the writer drains only after `stop`, and leaves
  only with the channel empty, which by `MutexInv` then stays empty.
- `CustodyInv` (`StepCustody`): the channel and the batch together hold exactly
  the requests that were sent and not answered, each once.  Lemmas on the range
  and the injectivity of `Append` and `Tail` do the work.
- `ResultInv` (`StepResult`): the result that is handed out is an answer and
  names a published generation.

Each part is preserved on its own from `Inv`, with one step for each action that
can disturb it.

### The managed tables with a catalogue

For `compiledfib`, `preorder2` and `splitribfib`, every width, page size and
limit on routes, every set of mutations and of catalogues.  `TableAssumption`
says that mutations have the type of mutations, that the zero value is a value
and that a catalogue is a map of finitely many prefixes.

A step of a table is a step of the protocol (`TableStepsAreProtocolSteps`), so
the protocol's invariants hold of it without another proof.  `TableInv` is
inductive together with them.  Neither `CatalogIsPublished` nor the answers of a
reader are inductive alone: to know what a rebuild or a new page publishes one
has to know that the IDs of the generation before are dense, one for each
prefix, and that there is a page for each of them (`GenerationsInv`), and the
store must be known to come with the number that the protocol will answer
(`GenerationsInv` again: as many generations as numbers).

- *Batches.*  `FinalStep`, `FoldIsFinal` and `ApplyingIsFinal`: folding the
  mutations of a batch into a map, keeping the last of each prefix, decides the
  same as applying them one by one.  `PayloadDrain`, `PayloadLast` and
  `PayloadIsFinal` say it of the payload path, which gathers updates by ID.
- *Pages.*  `NewPagesHoldValues` and `WithHoldsUpdates`: the pages hold the
  values that were written, at addresses that were not in use before.
  `ContentStays` follows: what an earlier generation contains does not change,
  which is `GenerationsNeverChange`.
- *Readers.*  `ReaderInv` is what a reader between two of its steps knows: that
  the IDs the index gave it are those of the matches in the generation it loaded,
  and that the payloads it has read are the first of them.
  `LookupsAreLongestMatches` needs no assumption on what the writer does
  meanwhile beyond `ContentStays`.
- *The promise.*  `TablesKeepTheirPromise` is the refinement of `RouteTable`, step
  by step (`StepRefines`).  The queue and the batch that is not stored yet are the
  backlog of the promise; a request is decided at the Store, not when it is
  answered (`Fate`), because readers see the generation from then on.
  `PublishIsDecide` maps the Store to the decision of the whole batch, with
  `OneByOneIsFinal` for its content and `PublishIsSeen` for its place in the
  backlog; `RefusalIsRefuse`, `SendIsAccept` and `NotifyIsAnswer` map the calls,
  and the other steps stutter.  Half of the argument is about the control alone:
  which step of the protocol moves `Backlog`, `Fate` or the accepted calls, and how
  (`CallsAreSeen`, `CollectIsSeen`, `PublishIsSeen`).  It is proved once, in
  `WriterProtocolProofs`, for this proof and the next.  The mapping needs `OpenInv` (a request without
  an answer has no outcome, no empty batch is published) and `FateInv` (what is
  queued was submitted, what is published could be built); the run checks
  neither beside the refinement, the proof shows both.

### The managed tables without one

For `flatlpm` and `dirlpm`, every width, root table, stride and block size, every set
of mutations and of catalogues that `NormalizePrefix` lets through
(`RouteAssumption`), and any limit on entries (`BuilderAssumption`).  Again each step is a step of the protocol
(`RecoveredStepsAreProtocolSteps`).

`LookupIsLongestMatch` speaks of the generations that a rebuild made.  Which
these are is only known because generations are numbered by their place and a
payload update keeps the number of the index it shares (`FlatGeneration`,
`DirGeneration`: `index` and `built` are at most the place).  Of those, the
invariant keeps `FilledAlike`: slots that were filled for the same prefix hold
the same value.  With `LookupEndsAtLongest` a lookup then reads what Exact
reads for the longest match.  It is not kept by payload updates, which write
only the slot of the prefix itself (finding `LookupIsLongestMatch` of
`FlatLPM`), so the invariant claims no more of those than that the slice still
has the index's slots.  `dirlpm`'s IPv4 half needs neither restriction: a value has
one slot, its rank in the sorted array (`SortedIsListed`), and the blocks hold
ranks, so `DirAnswers4` combines `LookupOf4IsLast` and `EntriesListValues` over ranks
instead of ids.

`RecoveredGenerationsStay` follows from `FlatAppends` and `DirAppends`: a publication
appends a generation and the slices it does not share, and what the earlier
ones point to is below what is appended.

`RecoveredTablesKeepTheirPromise` is the refinement of `RouteTable`: the mapping and the
lemmas on the control are those of the tables with a catalogue, the data is not.
There is no catalogue, so what a batch is applied to has to be what the
indexes and slices of the last generation say (`Published`).

- A *rebuild* reads the table back from the index: flatlpm asks it for the slot of
  each stored prefix, dirlpm its sorted IPv4 array by position and its IPv6
  index by slot (`DirReads`).  `FlatBuildHoldsTable` and `DirBuildHoldsTable` say that the
  new index holds what was recovered and amended; `AmendedIsFinal`, shared
  with the catalogues, that amending decides what one by one decides.
- A *payload update* writes the slots of the prefixes that a batch names in a
  copy of the slice.  Two things have to be shown: that the test for a structural
  batch leaves only batches whose last mutations neither add nor withdraw
  (`FlatUpdatesOnly`, `DirUpdatesOnly`, from `FinalOfUpdates`), and that the loop writes each
  of them to a slot of its own, whatever the order, and to no other prefix's
  (`FlatPayloadTable`; for dirlpm `DirOverwrites` and `DirPayloadTable`, which also
  need that a family whose slice was not copied is one the batch does not name).
  That inherited copies are left stale does not matter here: the promise is
  about the stored prefixes.
- A *rebuild that fails* leaves the table and tells the batch so.  `RouteTable`
  allows this only where the decided table could not be built; flatlpm counts
  spellings in its map and the promise prefixes, so the two counts
  have to be equal (`NativesAreCounted`, `SpellingsAreCounted`).
- *Spellings.*  flatlpm's maps are keyed by the prefix as the caller spelled it,
  `RouteTable` by the prefix.  For native calls the last mutation of a key is the last
  of its prefix (`SaidAlike`, `NativesAreSaidAlike`) and a map in native spelling is the
  table under other names (`InNative`, `FinalInNative`).  For the 4-in-6 spelling
  neither is true and the promise is broken (finding `DeleteYanks`), so the
  theorem has the hypothesis `NativeOnly` for flatlpm; catalogues may be spelled in
  any way, since `buildGeneration` keeps one of two spellings from the beginning.
  Run `RecoveredTables` checks the property under the same hypothesis, which
  its configuration module states (`NativeCallsAssumption`).  In `DirLPM` a prefix has no
  other spelling.

`FateInv` is what the mapping needs beside `Inv` and `RecoveredInv`: `OpenInv`, what
is queued was submitted, and what is published could be built.

An instance has copies of the operators of the modules it extends.  The first
part of `RecoveredProofs` shows that those of `Flat` and `Dir` are the originals
(`SameLookup`, `SameBlocks`), so the lemmas on indexes are proved once.

### The indexes

`IndexBuilder` adds any prefixes in any order; its one assumption is that they are
prefixes (`OfferedAssumption`), beside those of `FlatART`, `BlockLPM` and `StepIndex` on
widths: the strides, the root and the blocks fill the address exactly, and each of
the two windows leaves a whole number of octets of the high word.  `StoredInv` says
that finitely many prefixes are stored and each has an id other than 0, which
stands for no route in all indexes.

- *flatart* (`LookupEndsAtLongest`).  A lookup walks the paths of an address for
  which a stride was built.  `PathsBuilt` says which they are: the paths above
  which or at which something is stored below.  `PathsSplitMatches`: each of
  them splits the matches of the address into those above it and those below,
  and the longest match lies below if there is any (`LongestOfTheLonger`).
  `StandsFor` is the statement carried down the walk: a slot stands for a set of
  prefixes when it exists exactly if the set is not empty and was then filled
  from its longest member.  `StridesHaveCopies` and `InheritedIsLongest` show it of
  the copies of defaults that strides inherit, `PrefixesHaveSlots` of the rest.
- *blocklpm* (`LookupOf4IsLast`, `LookupOf6IsLast`).  Both compilers are loops over
  the entries, shortest first, where the last write wins; so the answer for an
  address is the value of the last entry that covers it (`LastUpTo`), and for
  entries that are sorted and distinct this is the longest match
  (`LastIsLongest`).  For IPv4, `PaintIsLast` is one loop, `LastOfLevels` joins the
  levels: a block starts with what it replaces.  For IPv6, `NodesOnTheWay` says
  which octet nodes exist after the insertions, `TrieIsLast` which value each
  has, `InheritedIsLast` what a slot inherits.
- *steplpm's sweep* (`SweepIsLongest`).  `SweptTo(order, k, f, s)` is the invariant of the
  sweep: after k ranges, up to the address f, the steps say of every address below f
  the id of the innermost range that holds it (`Says`, `Wins`), and the stack holds
  the ranges that reach f, the outer ones first (`Open`).  It is stated with f
  because neither the number of ranges entered nor the last step tells how far the
  steps can be trusted: `LeaveKeeps` moves f to the end of the range that is left,
  `EnterKeeps` to the beginning of the next one, and `TopAnswers` says that in
  between the winner is the top of the stack.  A range that ends with the address
  space emits no step when it is left, so from there on the invariant is another one
  (`Over`).  `EmitExtends` is about emit alone: replacing a step at the same bound and
  dropping one that changes nothing leave every earlier answer as it was.  `PreorderLists` and
  `InnermostIsLongest` turn the ranges back into prefixes: ranges of prefixes nest
  (`MeetingNests`), and the innermost of those around an address is the longest match.
- *steplpm's cuts* (`LookupSays`).  Two offsets bracket an address when the steps before the
  first are at or below it, those after the second above it, and the id carried
  in is that of the step before the first (`Brackets`); a walk between such offsets answers
  as all the steps do (`WalkSays`).  `SlotBrackets` shows it of a window's slot,
  `CutBrackets` of a bucket of the second cut, provided that the address agrees with the
  slot's steps above the cut.  That the steps agree with each other there
  (`CutHoldsSlot`) is what `bestShift` looks for: a cut is a candidate only
  while every octet between it and the window is the same in all of them.  Nothing of the
  kind holds of the address that is looked up, which is why the theorem is about addresses in
  reach (`InReach`); finding `IndexBuilder_cut` is an address out of reach.
- *slotlpm's layout* (`LayoutsOfSteps`).  The offsets, winners and cuts are steplpm's, a slot
  ends where the next one begins (`SlotLayout`), and comparing the high and then the
  low words compares addresses, also when the low words are dropped because all
  are 0 (`WordsInOrder`, `ArraysCompare`).  Here no address is left out: both lookups make
  the same walk, right or wrong; for that a bucket must not end before it
  begins (`BucketsInOrder`).
- `Foundations` has what they rest on: two prefixes that share an address nest
  (`PrefixesNest`), matches of an address differ in length, masking by division,
  positions in a sorted list (`RanksAreDense`).

### The sets

`SetBuilder` collects any prefixes of both families; `CollectedAssumption` says that
they are prefixes, `RangeAssumption` that the classifier and the words have at least
one bit and at most those of an address.  The order that the sort leaves among
ranges with the same start is any order (`SortedRanges`).

- *The merge* (`MergeCovers`).  After each range the result covers exactly the
  addresses of the ranges read so far, its ranges are ascending with a gap between
  any two neighbours, and the last of them starts no later than any range that
  follows (`MergedType`).  The last part is the one that is not obvious: it makes
  it enough to compare a range with the last one kept.  `TouchIsNoGap` says
  that the test on the source's words, carry included, is the test on addresses
  (`WordOrder`, `WordsTouch`).
- *The searches.*  Apart ranges are ordered by both ends (`ApartIsSorted`), so the
  last range that starts at or below an address decides (`SearchFinds`), and the
  first that reaches a slot decides the slot's code (`ClassifierFinds`).
  `SearchOfHighWords` justifies that `thinrangeset` drops the low words: without
  `NeedLow` every bound is the bound of a whole high word.
- *flatset.*  The statement about the member index is local: what a path's slot
  holds answers for the addresses of the path, however the path was reached
  (`SlotAnswersExactly`), because the path splits the matches of its addresses
  (`PathsSplitMatches`, the lemma that flatart's lookup rests on too).  The rest is
  that a descent ends: the last stride has no children (`LastStrideStops`).
  `FlatSetsAreExact` and `DirSetsAreExact` are about both families at one width and
  assume `TwoStrides`, a root table and two strides, which is IPv4's 16 + 8 + 8 bits
  and not IPv6's 16 + 14 * 8.  IPv6 as it is built is `IPv6SetsAreExact`, which
  assumes only that there is a stride below the root table.  What `FlatSetsAreExact`
  excludes, `Shadowed`, is finding `FlatSetContains`.
- *dirset.*  Painted slots are exact because a prefix that is no longer than a slot
  covers all of it or nothing (`DirSlots`), deeper ones by `MergeIsUnion` of the
  longer prefixes.  The promoted slots need `PromotedInside`, which is false for a
  range that `WrapsAround` names.  That the sort has a result at all is
  `RangesCanBeSorted`.

`SetProofs` takes the lemmas on paths from `LPMProofs` and with them the constants of
`BlockLPM`, which no set uses; one-bit blocks satisfy their assumption at every
width from two bits.

### parityset

For every width, low word, slot table, second cut, both limits, any prefixes offered and
any batches of them.  `CutAssumption` says that the cuts are bits of the high word, and
`OfferedAssumption` that callers offer prefixes and batches of mutations.

- *The index* (`BuiltIsExact`).  `MergeIsUnion` is that of the range sets for another
  merge.  `BoundariesAreBounds` gives each boundary by its place: the range i has the places
  2i-1 and 2i, except that the last one has no second if it ends with the address space.
  From this they ascend strictly, since the ranges do not touch (`BoundsAscend`), so every
  address splits them at one place (`Splits`), and that place is odd exactly when the address is
  in a range (`ParityIsMembership`).  The searches are about the split only:
  `SlotsBracket` and `SubsBracket` say that the two offsets that a cut gives
  enclose it, and `CountFinds` that a scan between such offsets ends there, also where the
  low words were dropped.  A slot without boundaries has one split, so its parity is that of
  its offset, which is what the front table keeps.
- *coversRange* (`CoversRangeIsExact`).  If the boundary after the split is past the last address,
  all addresses have the split of the first; if it is not, the address at that boundary has
  the next split, which is even: it is strict ascent that leaves no other between.
- *The table.*  `ContainsStored` is not inductive, because coversRange speaks of what was
  merged and not of what contains answers.  `UpToDate` says that the published Set
  was built from some prefixes that cover what the stored ones do; they need not be the
  stored ones, since skipped publications pile up.  Within a batch (`BatchSoFar`) the union
  stays as long as nothing has to be published.  `CoversRangeExact` needs only that the
  published Set was built from something (`Published`) and has no further hypothesis.
  `ContainsStored` has one, `BadOnlyFirst`: a batch that fails at a later prefix
  keeps what it has stored and does not publish it (section 3).

### steplpm's and soaart's tables

For every width, any keys, values, entries and batches of either package, and every
index.  `KeyAssumption` types the keys and what the calls are given.  There are two hypotheses on the calls.
`OneSpelling` says that a prefix has one key: soaart has no other, and of steplpm's
two spellings of a prefix Size counts both, since they are two keys of its map.
`NoLoneYanks` leaves out the batches of the finding `StepLPM_phantom`, which store
what they are to delete.  The answers have a third, `IndexesAreExact`: an index gives the id of the longest
match.  For steplpm's index `BuiltStepsAreLongestMatch` says that of every address in
reach of its cuts; for soaart's trie it is checked, not proved.

- *The map* (`Holds`).  Its keys are the prefixes asked for, with the values last asked for.  One change
  keeps that (`ChangeHolds`), so a batch and a Reset do (`BatchHolds`): both the
  map and what was asked for are folds over the same changes, taken one position at a time
  (`AppliedInOrder`, `AskedInOrder`).
- *The ids* (`Numbered`).  The published index was built from a numbering of the prefixes, each map
  entry remembers its number there, and the value vector has the map's value at that number.
  A rebuild makes this so for any order in which the map is walked (`RebuildNumbers`); with one spelling
  the second walk of the map writes each place once.
- *Value-only batches* (`BatchPatches`).  Not structural and not lone means that every change
  names a stored key, and the loop keeps the keys (`PatchOne`).  So it never reads the zero
  entry, the ids stay, and as numberings are injective a value written for one prefix is not
  another's.

### The form of some definitions

The prover expands definitions but not every library operator, so some
definitions of the models take another form than the shortest.  A fold in the
community modules is a recursive function of a bounded domain; `FoldsAgree` says
that two such functions with one equation are equal, `Folding` that there is one
for every step and list, and `FoldsInOrder` that a list is folded from its first
element; every lemma about a fold starts from these.  Lists in an order are given by the position of each
element, not by a sorting operator (`BlockEntries`, `Covering`, `Sorted`), and maps that grow
by one element as functions rather than with `@@`.  Powers of two are a recursive
function, because the exponent of the standard modules is uninterpreted in the
prover.  Operators that `Abstract` copies into its instance are equal to the
originals, which `SameOperators` shows once.

### What is only model-checked

Liveness (`SubmitAnswered`, `CloseReturns`) needs fairness and `ENABLED`, which
this prover does not handle.  Every other property of section 3 that has no theorem
above is model-checked only, and its run gives the bounds:

- `AnnouncedIsServed`: the answers of `slotlpm`, `aosart` and `versioned`, and the
  sizes and walks of the last, which `LockedTables` checks beside the tables proved
  above;
- the properties of `InPlaceTables`, and `CompiledTriesAreExact`: their tables grow by one entry at
  a time with `:>` and `@@`, and their walks sort with `SetToSortSeq`, none of which
  the prover expands; the tries need an inductive invariant over nodes that come
  and go, which is not written down yet;
- `TriesAreLongestMatch`, `ParentsAreMatches` and `DescendantsAreNested`: folds over
  lists and `SetToSortSeq` again; the former are within reach with the lemmas on
  folds of `Foundations`, the latter has to become positions in a list first
  (section 6).

## 5. Not modelled

Table by table in `PROJECT.json` ("components").  The tools (`mrtconv`,
`benchtables`, `fibbench`, the examples and probes) have no state of the
tables'.  Of the modelled tables, byte counts, `Stats` reads and decoded
variants of Lookup (`Lookup4`, `Lookup6`) that differ in decoding only are left
out.  Go's memory model is not modelled: the atomic pointer is a sequentially
consistent cell, which is what `sync/atomic` promises.

Of what is modelled: the descendant walks and Exact of `preorder2` and
`splitribfib` read pages as a parent walk does and are left out of
`PagedTable`'s reader; `flatart`'s Contains6 is compared over two strides;
`soaart`'s and `aosart`'s frozen arrays with their ranks, and the walks of their
Tables, which decode what the trie yields, are left out; a callback that ends a
walk early, or that changes the table it walks, is not modelled.

## 6. Plan

What is left is proof, in this order:

1. For `Versioned`, that only the holder of the mutex has staged entries, and
   that what is published is what the finished updates asked for.
2. The preorder catalogues of `SetBuilder`: that the chain of parents is the list
   of the matches.
