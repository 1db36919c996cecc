---------------------------- MODULE PagedTable ------------------------------
(***************************************************************************)
(* The managed tables that keep their values in routepages, with their     *)
(* data, named by the shape of their writer's loop:                        *)
(*   manage  compiledfib: an index for longest match;                      *)
(*   range   preorder2: the same with parent walks, over fiborderwalk;     *)
(*   drain   splitribfib: an index for longest match, compiledfib, and one *)
(*           for walks, bitwalk, published together.                       *)
(* A generation is an index from addresses to route IDs, a map from        *)
(* prefixes to IDs and copy-on-write pages of values.  A batch that adds   *)
(* or removes a prefix rebuilds everything; any other batch shares index   *)
(* and map with the previous generation and rewrites the touched pages     *)
(* only.  The first two rebuild from a catalogue (a map from prefixes to   *)
(* values) that their writer owns, the third from the published map and    *)
(* pages.                                                                  *)
(*                                                                         *)
(* Generations stay in memory as long as a reader holds one, so all of     *)
(* them are kept: gens[n] is generation n and the last one is what current *)
(* points to.                                                              *)
(***************************************************************************)
EXTENDS WriterProtocol, Prefixes, RoutePages, SequencesExt

CONSTANTS
    Mutations,  \* what a Submit may ask for: sequences of mutations
    Catalogs,   \* what New may be given: maps from prefixes to values
    Value,      \* the type V of the values
    fibNext,    \* blocklpm refuses this many routes: 2^31 in the code
    Reader      \* the goroutines that call Lookup and WalkParents

Mutation == [prefix : Prefix, value : Value, delete : BOOLEAN]

\* A map from prefixes to values.
IsTable(t) ==
    /\ IsFiniteSet(DOMAIN t)
    /\ DOMAIN t \subseteq Prefix
    /\ t \in [DOMAIN t -> Value]

ASSUME TableAssumption ==
    /\ Zero \in Value
    /\ Mutations \subseteq Seq(Mutation)
    /\ \A given \in Catalogs : IsTable(given)

VARIABLES
    mutations,  \* the normalised mutations of each request
    catalog,    \* the writer's catalogue; splitribfib has none
    gens,       \* the generations built so far
    heap,       \* the pages of routepages
    stats,      \* the two publication counters
    kind,       \* publish's local flag: which counter is due
    reader      \* the state of each reader's call

dataVars == <<catalog, gens, heap, stats, kind>>
vars == <<protocolVars, mutations, dataVars, reader>>

current == gens[Len(gens)]

-----------------------------------------------------------------------------
(***************************************************************************)
(* The indexes by what they answer, built from the prefixes and their IDs: *)
(* blocklpm, inside all three tables, gives the ID of the longest match or *)
(* 0; a parent walk gives the IDs of all matches, the most specific first. *)
(***************************************************************************)
BlockIndex(routes) ==
    [a \in Addr |->
        IF Matches(DOMAIN routes, a) = {} THEN 0
        ELSE routes[LongestMatch(DOMAIN routes, a)]]

\* The prefixes of S that cover a, the most specific first.
Covering(S, a) ==
    LET matching == Matches(S, a)
    IN  [i \in 1 .. Cardinality(matching) |->
            CHOOSE p \in matching : Cardinality({q \in matching : q.bits > p.bits}) = i - 1]

ParentIDs(routes, a) ==
    LET covering == Covering(DOMAIN routes, a)
    IN  [i \in DOMAIN covering |-> routes[covering[i]]]

\* buildGeneration: IDs are dense, from 1, in the order of the prefixes.
Buildable(cat) == Cardinality(DOMAIN cat) < fibNext
buildGeneration(h, cat) ==
    LET prefixes == DOMAIN cat
        routes == [p \in prefixes |-> Rank(prefixes, p)]
        maxID == Cardinality(prefixes)
        values == [id \in 1 .. maxID |-> cat[CHOOSE p \in prefixes : routes[p] = id]]
        new == NewPages(h, values, maxID)
    IN  [heap |-> new.heap,
         generation |-> [index |-> BlockIndex(routes), routes |-> routes, pages |-> new.pages]]

\* The mutations of a batch, in the order of its requests.
Gathered(requests) == FlattenSeq([i \in DOMAIN requests |-> mutations[requests[i]]])

\* (Faulty variant: the first mutation wins.)
CoalescedFirst(requests) ==
    LET all == Gathered(requests)
    IN  [p \in {all[i].prefix : i \in DOMAIN all} |->
            all[CHOOSE i \in DOMAIN all :
                    /\ all[i].prefix = p
                    /\ \A j \in DOMAIN all : all[j].prefix = p => j >= i]]

\* publish coalesces: the last mutation of the batch for a prefix wins.
Coalesced(requests) == LastOnes(Gathered(requests))

structuralCoalesced(changes) ==
    \E p \in DOMAIN changes : (p \in DOMAIN current.routes) = changes[p].delete

\* apply of splitribfib asks of every mutation whether it adds or removes at its
\* place in the batch: one that another undoes counts too.
structuralInOrder(all) ==
    LET Live(p, i) ==
            IF p \in Named(all, 1 .. i - 1) THEN ~LastFor(all, 1 .. i - 1, p).delete
            ELSE p \in DOMAIN current.routes
    IN  \E i \in DOMAIN all : Live(all[i].prefix, i) = all[i].delete

structural(requests) ==
    IF loop = "drain" THEN structuralInOrder(Gathered(requests))
    ELSE structuralCoalesced(Coalesced(requests))

\* What a batch writes: compiledfib and preorder2 leave out what it deletes in
\* the end, splitribfib takes every mutation that does not delete.
Written(requests) ==
    LET changes == Coalesced(requests)
        all == Gathered(requests)
        adds == {i \in DOMAIN all : ~all[i].delete}
    IN  IF loop # "drain"
        THEN [p \in {q \in DOMAIN changes : ~changes[q].delete} |-> changes[p].value]
        ELSE [p \in Named(all, adds) |-> LastFor(all, adds, p).value]

\* What a generation maps each of its prefixes to.
Content(h, g) == [p \in DOMAIN g.routes |-> Get(h, g.pages, g.routes[p])]

\* cloneCatalog and the loop over the coalesced mutations.
nextCatalog(changes) == Amended(catalog, changes)

\* The loop of apply in splitribfib: one mutation after the other, on the table
\* that its map and its pages still hold.
recovered(all) == FoldLeft(Applied, Content(heap, current), all)

\* The table that a structural batch rebuilds.
Wanted(requests) ==
    IF loop = "drain" THEN recovered(Gathered(requests)) ELSE nextCatalog(Coalesced(requests))

\* The payload path: index and routes are shared, and so are the pages that
\* nothing is written to.
repayload(requests) ==
    LET written == Written(requests)
        updates == [id \in {current.routes[p] : p \in DOMAIN written} |->
                        written[CHOOSE p \in DOMAIN written : current.routes[p] = id]]
        new == With(heap, current.pages, updates, Cardinality(DOMAIN current.routes))
    IN  [heap |-> new.heap, generation |-> [current EXCEPT !.pages = new.pages]]

-----------------------------------------------------------------------------
Init ==
    /\ ProtocolInit
    /\ mutations = [r \in Request |-> <<>>]
    /\ \E given \in Catalogs :
          LET built == buildGeneration(<<>>, given)
          IN  /\ Buildable(given)
              /\ catalog = IF loop = "drain" THEN <<>> ELSE given
              /\ gens = <<built.generation>>
              /\ heap = built.heap
    /\ stats = [payload |-> 0, structural |-> 0]
    /\ kind = "payload"
    /\ reader = [x \in Reader |-> [pc |-> "idle"]]

Submit(r) ==
    \/ /\ SubmitInvalid(r)
       /\ UNCHANGED <<mutations, dataVars, reader>>
    \/ /\ SubmitNormalized(r)
       /\ \E ms \in Mutations : mutations' = [mutations EXCEPT ![r] = ms]
       /\ UNCHANGED <<dataVars, reader>>
    \/ /\ SubmitStep(r)
       /\ UNCHANGED <<mutations, dataVars, reader>>

Close(c) ==
    /\ CloseCall(c) \/ CloseStep(c)
    /\ UNCHANGED <<mutations, dataVars, reader>>

\* The loops of the writer, collect, and the answers of publish.
Manage ==
    /\ Collect
    /\ UNCHANGED <<mutations, dataVars, reader>>

\* (Faulty variant: the catalogue is changed before the rebuild has succeeded.)
PublishStructuralEarly ==
    LET wanted == Wanted(batch)
        built == buildGeneration(heap, wanted)
    IN  /\ structural(batch)
        /\ Publish(Buildable(wanted))
        /\ catalog' = IF loop = "drain" THEN catalog ELSE wanted
        /\ IF Buildable(wanted)
           THEN /\ gens' = Append(gens, built.generation)
                /\ heap' = built.heap
           ELSE UNCHANGED <<gens, heap>>
        /\ kind' = "structural"
        /\ UNCHANGED <<mutations, stats, reader>>

\* publish with a rebuild: nothing changes when the table is too large.
PublishStructural ==
    LET wanted == Wanted(batch)
        built == buildGeneration(heap, wanted)
    IN  /\ structural(batch)
        /\ Publish(Buildable(wanted))
        /\ IF Buildable(wanted)
           THEN /\ gens' = Append(gens, built.generation)
                /\ heap' = built.heap
                /\ catalog' = IF loop = "drain" THEN catalog ELSE wanted
           ELSE UNCHANGED <<gens, heap, catalog>>
        /\ kind' = "structural"
        /\ UNCHANGED <<mutations, stats, reader>>

\* publish without a rebuild: values move into the catalogue in place.
PublishPayload ==
    LET new == repayload(batch)
    IN  /\ ~structural(batch)
        /\ Publish(TRUE)
        /\ gens' = Append(gens, new.generation)
        /\ heap' = new.heap
        /\ catalog' = IF loop = "drain" THEN catalog ELSE Overwrite(catalog, Written(batch), {})
        /\ kind' = "payload"
        /\ UNCHANGED <<mutations, stats, reader>>

\* (Faulty variant: both counters are added to.)
CountBoth ==
    /\ CountPublication
    /\ stats' = [k \in DOMAIN stats |-> stats[k] + 1]
    /\ UNCHANGED <<mutations, catalog, gens, heap, kind, reader>>

\* The counter is added to after the Store, as a step of its own.
CountStats ==
    /\ CountPublication
    /\ stats' = [stats EXCEPT ![kind] = @ + 1]
    /\ UNCHANGED <<mutations, catalog, gens, heap, kind, reader>>

\* A reader loads current once, for a Lookup or, if the table has it, a walk.
Load(x) ==
    /\ reader[x].pc = "idle"
    /\ \E a \in Addr, call \in {"Lookup", "WalkParents"} :
          /\ call = "WalkParents" => loop # "manage"
          /\ reader' = [reader EXCEPT ![x] =
                [pc |-> "loaded", call |-> call, addr |-> a, gen |-> Len(gens)]]
    /\ UNCHANGED <<protocolVars, mutations, dataVars>>

\* The index is asked for the IDs that are due.
AskIndex(x) ==
    /\ reader[x].pc = "loaded"
    /\ LET g == gens[reader[x].gen]
           a == reader[x].addr
           ids == CASE reader[x].call = "WalkParents" -> ParentIDs(g.routes, a)
                    [] reader[x].call = "Lookup" /\ g.index[a] = 0 -> <<>>
                    [] OTHER -> <<g.index[a]>>
       IN  reader' = [reader EXCEPT ![x] =
              [pc |-> "found", call |-> @.call, addr |-> a, gen |-> @.gen,
               due |-> ids, values |-> <<>>]]
    /\ UNCHANGED <<protocolVars, mutations, dataVars>>

\* (Faulty variant: the payload is read from the newest generation that has the
\* same index.)
GetPayloadNewest(x) ==
    /\ reader[x].pc = "found"
    /\ reader[x].due # <<>>
    /\ LET loaded == gens[reader[x].gen]
           newest == IF current.index = loaded.index THEN current ELSE loaded
       IN  reader' = [reader EXCEPT
              ![x].values = Append(@, Get(heap, newest.pages, Head(reader[x].due))),
              ![x].due = Tail(@)]
    /\ UNCHANGED <<protocolVars, mutations, dataVars>>

\* The payload of one ID, as a Lookup returns it or a walk yields it.
GetPayload(x) ==
    /\ reader[x].pc = "found"
    /\ reader[x].due # <<>>
    /\ reader' = [reader EXCEPT
          ![x].values = Append(@, Get(heap, gens[reader[x].gen].pages, Head(reader[x].due))),
          ![x].due = Tail(@)]
    /\ UNCHANGED <<protocolVars, mutations, dataVars>>

Return(x) ==
    /\ reader[x].pc = "found"
    /\ reader[x].due = <<>>
    /\ reader' = [reader EXCEPT ![x] = [pc |-> "idle"]]
    /\ UNCHANGED <<protocolVars, mutations, dataVars>>

Lookup(x) == Load(x) \/ AskIndex(x) \/ GetPayload(x) \/ Return(x)

TableNext ==
    \/ \E r \in Request : Submit(r)
    \/ \E c \in Closer : Close(c)
    \/ Manage
    \/ PublishStructural
    \/ PublishPayload
    \/ CountStats
    \/ \E x \in Reader : Lookup(x)

TableSpec == Init /\ [][TableNext]_vars

-----------------------------------------------------------------------------
(***************************************************************************)
(* Properties.                                                             *)
(***************************************************************************)
\* The writer's catalogue and the published generation never drift apart:
\* publish keeps both on both of its paths, and on neither when the rebuild
\* fails.  A drift would show at the next structural batch only.
CatalogIsPublished == loop # "drain" => catalog = Content(heap, current)

\* No generation that was ever published changes again: With clones a page
\* before it writes, and a rebuild writes fresh pages only.
GenerationsImmutableStep ==
    \A n \in DOMAIN gens :
        /\ gens'[n] = gens[n]
        /\ Content(heap', gens'[n]) = Content(heap, gens[n])
GenerationsImmutable == [][GenerationsImmutableStep]_vars

\* A Lookup returns the value of the longest match among the prefixes of the
\* single generation it loaded, a parent walk yields the values of all matches,
\* the most specific first, and both miss when there is no match, however many
\* generations were published between the load and each of the payloads.
LookupIsLongestMatch ==
    \A x \in Reader :
        reader[x].pc = "found" =>
            LET content == Content(heap, gens[reader[x].gen])
                covering == Covering(DOMAIN content, reader[x].addr)
                expected == [i \in DOMAIN covering |-> content[covering[i]]]
                values == reader[x].values
            IN  /\ values = SubSeq(expected, 1, Len(values))
                /\ reader[x].due = <<>> =>
                      Len(values) = IF reader[x].call = "Lookup" /\ covering # <<>> THEN 1
                                    ELSE Len(covering)

\* Stats counts every publication once: the sum is the number of generations
\* since New, except between the Store and the count.
StatsCountGenerations ==
    loop # "drain" =>
        stats.payload + stats.structural + (IF manage = "count" THEN 1 ELSE 0) = number - 1

(***************************************************************************)
(* Why the safety properties hold: the parts of the inductive invariant.   *)
(***************************************************************************)
\* The data are what they are taken for.
DataTypes ==
    /\ mutations \in [Request -> Seq(Mutation)]
    /\ heap \in Seq([0 .. PageSize - 1 -> Value])
    /\ gens \in Seq(Range(gens))
    /\ stats \in [payload : Nat, structural : Nat]
    /\ kind \in {"payload", "structural"}

\* The IDs of a generation are dense and each belongs to one prefix, its index is
\* the one of its prefixes, and there is a page in the heap for each ID: Lookup
\* never follows a nil page pointer.
WellFormed(h, g) ==
    LET size == Cardinality(DOMAIN g.routes)
    IN  /\ g = [index |-> g.index, routes |-> g.routes, pages |-> g.pages]
        /\ IsFiniteSet(DOMAIN g.routes)
        /\ DOMAIN g.routes \subseteq Prefix
        /\ g.routes \in [DOMAIN g.routes -> 1 .. size]
        /\ IsInjective(g.routes)
        /\ g.index = BlockIndex(g.routes)
        /\ g.pages \in [0 .. PageOf(size) -> 0 .. Len(h)]
        /\ \A id \in 1 .. size : g.pages[PageOf(id)] # Nil

\* Every generation that is still in memory can be read.
GenerationsInv ==
    /\ Len(gens) = number
    /\ number # 0
    /\ \A n \in 1 .. Len(gens) : WellFormed(heap, gens[n])

ReaderState ==
    [pc : {"idle"}]
    \cup [pc : {"loaded"}, call : {"Lookup", "WalkParents"}, addr : Addr, gen : Nat]
    \cup [pc : {"found"}, call : {"Lookup", "WalkParents"}, addr : Addr, gen : Nat,
           due : Seq(Nat), values : Seq(Value)]

\* What a call has read of a generation and what is still due to it are, together,
\* the first or all of the covering prefixes of that generation.
Reads(h, g, call) ==
    LET covering == Covering(DOMAIN g.routes, call.addr)
        got == Len(call.values)
    IN  /\ got + Len(call.due) =
               IF call.call = "Lookup" /\ covering # <<>> THEN 1 ELSE Len(covering)
        /\ \A i \in 1 .. got : call.values[i] = Content(h, g)[covering[i]]
        /\ \A i \in 1 .. Len(call.due) : call.due[i] = g.routes[covering[got + i]]

\* A reader stays with the generation that it loaded, whatever is published.
ReaderInv ==
    /\ reader \in [Reader -> ReaderState]
    /\ \A x \in Reader : reader[x].pc # "idle" => reader[x].gen \in 1 .. Len(gens)
    /\ \A x \in Reader :
          reader[x].pc = "found" => Reads(heap, gens[reader[x].gen], reader[x])

TableInv == DataTypes /\ GenerationsInv /\ CatalogIsPublished /\ StatsCountGenerations

(***************************************************************************)
(* The table implements RouteTable: queue and unpublished batch together   *)
(* are the backlog; a request's fate is decided by the Store.              *)
(***************************************************************************)
Asked == [r \in Request |-> IF Accepted(r) THEN mutations[r] ELSE <<>>]
Published == Content(heap, current)

Abstract == INSTANCE RouteTable WITH
    Fits <- Buildable, asked <- Asked, backlog <- Backlog, verdict <- Fate, table <- Published

\* What the mapping needs of the data: only what Submit was given is queued, and
\* what is published could be built.
FateInv ==
    /\ OpenInv
    /\ \A r \in Request : submit[r] \in {"lock", "sending"} => mutations[r] \in Mutations
    /\ Buildable(Published)

\* Queueing, batching, last-wins coalescing, the two publication paths and the
\* page sharing amount to applying the accepted mutations one by one in the
\* order of acceptance, all or none of a batch.
ImplementsRouteTable == Abstract!Spec
=============================================================================
