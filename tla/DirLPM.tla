------------------------------- MODULE DirLPM -------------------------------
(***************************************************************************)
(* dirlpm.Table: the writer protocol over two indexes that share nothing.  *)
(* IPv4 is expanded into blocks as in blocklpm, over a sorted array of     *)
(* prefixes that answers Exact and from which a structural batch recovers  *)
(* the table; IPv6 is a flatart index, as in flatlpm.  Each family has a   *)
(* value slice, and a payload batch copies those it touches.               *)
(*                                                                         *)
(* Both families have addresses of Width bits here.  Prefixes spelled      *)
(* 4-in-6 are not offered: FlatLPM shows what becomes of two spellings.    *)
(***************************************************************************)
EXTENDS WriterProtocol, BlockLPM, FlatART

CONSTANTS
    Mutations,  \* what a Submit may ask for: sequences of mutations
    Catalogs,   \* what New may be given: maps from routes to values
    maxSlot,    \* the most prefixes of one family: 2^31 - 1 in the code
    MaxBlocks   \* the most blocks of the last level: 2^23 in the code

VARIABLES
    mutations,  \* the normalised mutations of each request
    gens,       \* the generations built so far; the last one is current
    slices4,    \* the IPv4 value slices in memory, by address
    slices6,    \* the IPv6 value slices
    stats,      \* the two publication counters
    kind        \* publish's local flag: which counter is due

dataVars == <<gens, slices4, slices6, stats, kind>>
vars == <<protocolVars, mutations, dataVars>>

current == gens[Len(gens)]

-----------------------------------------------------------------------------
\* What the catalogue is keyed by: a netip.Prefix of one family or the other.
Route4(p) == [is4 |-> TRUE, prefix |-> p]
Route6(p) == [is4 |-> FALSE, prefix |-> p]
Route == [is4 : BOOLEAN, prefix : Prefix]
Family(routes, is4) == {route.prefix : route \in {x \in routes : x.is4 = is4}}

\* buildGeneration refuses too many prefixes, compile4 too many blocks.
Deep(S) == {Masked(p.key, BlockRoot + BlockBits) :
                p \in {q \in S : q.bits > BlockRoot + BlockBits}}
Buildable(catalog) ==
    LET v4 == Family(DOMAIN catalog, TRUE)
        v6 == Family(DOMAIN catalog, FALSE)
    IN  /\ Cardinality(v4) <= maxSlot /\ Cardinality(v6) <= maxSlot
        /\ Cardinality(Deep(v4)) <= MaxBlocks

\* sort.Slice: the prefixes S in address order.
Sorted(S) == [i \in 1 .. Cardinality(S) |-> CHOOSE p \in S : Rank(S, p) = i]

\* (Faulty variant: a slot holds the place in the order of expansion.)
ExpandByOrder(exact4) ==
    LET painted == BlockEntries([p \in ToSet(exact4) |-> 1])
    IN  compile4([i \in DOMAIN painted |-> [painted[i] EXCEPT !.value = i]])

\* compile4: a value index is a place in exact4, and the blocks hold those.
Expand(exact4) ==
    compile4(BlockEntries([p \in ToSet(exact4) |-> Rank(ToSet(exact4), p)]))

buildGeneration(catalog, generation, value4, value6) ==
    LET exact4 == Sorted(Family(DOMAIN catalog, TRUE))
    IN  [exact4 |-> exact4, table4 |-> Expand(exact4), value4 |-> value4,
         index6 |-> Family(DOMAIN catalog, FALSE), value6 |-> value6,
         built |-> generation]
Values4(catalog) ==
    LET exact4 == Sorted(Family(DOMAIN catalog, TRUE))
    IN  [i \in DOMAIN exact4 |-> catalog[Route4(exact4[i])]]
Values6(catalog) ==
    LET stored == Family(DOMAIN catalog, FALSE)
    IN  [slot \in Slots(stored) |-> catalog[Route6(RefOf(stored, slot))]]

-----------------------------------------------------------------------------
\* publish coalesces: the last mutation of the batch for a prefix wins.
Gathered(requests) == FlattenSeq([i \in DOMAIN requests |-> mutations[requests[i]]])
Coalesced(requests) == LastOnes(Gathered(requests))

\* exact: the value index of a route in its family's slice, if it has one.
exact(g, route) ==
    IF route.is4
    THEN {i \in DOMAIN g.exact4 : g.exact4[i] = route.prefix}
    ELSE {ExactSlot(g.index6, route.prefix)} \ {NoSlot}

structural(changes) ==
    \E route \in DOMAIN changes : (exact(current, route) = {}) # changes[route].delete

\* rebuild: the catalogue from exact4 and from All, with the mutations.
recovered ==
    [route \in {Route4(p) : p \in ToSet(current.exact4)} \cup {Route6(p) : p \in current.index6} |->
        IF route.is4
        THEN slices4[current.value4][Rank(ToSet(current.exact4), route.prefix)]
        ELSE slices6[current.value6][Own(route.prefix)]]
rebuilt(changes) == Amended(recovered, changes)

\* The value slice with the exact slots of the changes overwritten.
Overwritten(slice, changes, is4) ==
    [slot \in DOMAIN slice |->
        LET writers == {route \in DOMAIN changes : route.is4 = is4 /\ slot \in exact(current, route)}
        IN  IF writers = {} THEN slice[slot] ELSE changes[CHOOSE route \in writers : TRUE].value]
Touched(changes, is4) ==
    \E route \in DOMAIN changes : route.is4 = is4 /\ exact(current, route) # {}

-----------------------------------------------------------------------------
Init ==
    /\ ProtocolInit
    /\ mutations = [r \in Request |-> <<>>]
    /\ \E catalog \in Catalogs :
          /\ Buildable(catalog)
          /\ gens = <<buildGeneration(catalog, 1, 1, 1)>>
          /\ slices4 = <<Values4(catalog)>>
          /\ slices6 = <<Values6(catalog)>>
    /\ stats = [payload |-> 0, structural |-> 0]
    /\ kind = "payload"

Submit(r) ==
    \/ /\ SubmitInvalid(r)
       /\ UNCHANGED <<mutations, dataVars>>
    \/ /\ SubmitNormalized(r)
       /\ \E ms \in Mutations : mutations' = [mutations EXCEPT ![r] = ms]
       /\ UNCHANGED dataVars
    \/ /\ SubmitStep(r)
       /\ UNCHANGED <<mutations, dataVars>>

Close(c) ==
    /\ CloseCall(c) \/ CloseStep(c)
    /\ UNCHANGED <<mutations, dataVars>>

\* manage, collect and appendQueued, and the answers of publish.
Manage ==
    /\ Collect
    /\ UNCHANGED <<mutations, dataVars>>

PublishStructural ==
    LET catalog == rebuilt(Coalesced(batch))
    IN  /\ structural(Coalesced(batch))
        /\ Publish(Buildable(catalog))
        /\ IF Buildable(catalog)
           THEN /\ gens' = Append(gens, buildGeneration(catalog, number + 1,
                                                        Len(slices4) + 1, Len(slices6) + 1))
                /\ slices4' = Append(slices4, Values4(catalog))
                /\ slices6' = Append(slices6, Values6(catalog))
           ELSE UNCHANGED <<gens, slices4, slices6>>
        /\ kind' = "structural"
        /\ UNCHANGED <<mutations, stats>>

\* (Faulty variant: one flag says that a copy was made, for both families.)
PublishPayloadOneCopy ==
    LET changes == Coalesced(batch)
        touched4 == Touched(changes, TRUE)
        touched6 == Touched(changes, FALSE)
        new4 == Overwritten(slices4[current.value4], changes, TRUE)
        new6 == Overwritten(slices6[current.value6], changes, FALSE)
        copy6 == touched6 /\ ~touched4
    IN  /\ ~structural(changes)
        /\ Publish(TRUE)
        /\ slices4' = IF touched4 THEN Append(slices4, new4) ELSE slices4
        /\ slices6' = IF copy6 THEN Append(slices6, new6)
                      ELSE [slices6 EXCEPT ![current.value6] = new6]
        /\ gens' = Append(gens, [current EXCEPT
                !.value4 = IF touched4 THEN Len(slices4) + 1 ELSE @,
                !.value6 = IF copy6 THEN Len(slices6) + 1 ELSE @])
        /\ kind' = "payload"
        /\ UNCHANGED <<mutations, stats>>

\* repayload: only a family that is written gets a copy of its slice.
PublishPayload ==
    LET changes == Coalesced(batch)
        touched4 == Touched(changes, TRUE)
        touched6 == Touched(changes, FALSE)
        new4 == Overwritten(slices4[current.value4], changes, TRUE)
        new6 == Overwritten(slices6[current.value6], changes, FALSE)
    IN  /\ ~structural(changes)
        /\ Publish(TRUE)
        /\ slices4' = IF touched4 THEN Append(slices4, new4) ELSE slices4
        /\ slices6' = IF touched6 THEN Append(slices6, new6) ELSE slices6
        /\ gens' = Append(gens, [current EXCEPT
                !.value4 = IF touched4 THEN Len(slices4) + 1 ELSE @,
                !.value6 = IF touched6 THEN Len(slices6) + 1 ELSE @])
        /\ kind' = "payload"
        /\ UNCHANGED <<mutations, stats>>

CountStats ==
    /\ CountPublication
    /\ stats' = [stats EXCEPT ![kind] = @ + 1]
    /\ UNCHANGED <<mutations, gens, slices4, slices6, kind>>

TableNext ==
    \/ \E r \in Request : Submit(r)
    \/ \E c \in Closer : Close(c)
    \/ Manage
    \/ PublishStructural
    \/ PublishPayload
    \/ CountStats

TableSpec == Init /\ [][TableNext]_vars

-----------------------------------------------------------------------------
(***************************************************************************)
(* Properties.                                                             *)
(***************************************************************************)
\* What Table.Lookup answers in each family: nothing, or the value.
Lookup4(g, a) ==
    LET slot == lookup4(g.table4, a)
    IN  IF slot = 0 THEN {} ELSE {slices4[g.value4][slot]}
Lookup6(g, a) ==
    LET slot == LookupSlot(g.index6, a)
    IN  IF slot = NoSlot THEN {} ELSE {slices6[g.value6][slot]}

\* The table by route, as Exact answers it.
Content(g) ==
    [route \in {Route4(p) : p \in ToSet(g.exact4)} \cup {Route6(p) : p \in g.index6} |->
        LET slot == CHOOSE s \in exact(g, route) : TRUE
        IN  IF route.is4 THEN slices4[g.value4][slot] ELSE slices6[g.value6][slot]]

Wanted(g, is4, a) ==
    LET stored == Family(DOMAIN Content(g), is4)
    IN  IF Matches(stored, a) = {} THEN {}
        ELSE {Content(g)[[is4 |-> is4, prefix |-> LongestMatch(stored, a)]]}

\* Lookup answers an IPv4 address with the value of the longest match in every
\* generation, payload updates included, because a value has one slot only
\* (compile4, lookup4, repayload); an IPv6 address, in every generation that
\* was rebuilt (compile6).
LookupIsLongestMatch ==
    \A n \in DOMAIN gens : \A a \in Addr :
        /\ Lookup4(gens[n], a) = Wanted(gens[n], TRUE, a)
        /\ gens[n].built = n => Lookup6(gens[n], a) = Wanted(gens[n], FALSE, a)

\* No published generation changes again, although a payload update shares the
\* index and the untouched family's slice with its predecessor (repayload).
GenerationsImmutableStep ==
    \A n \in DOMAIN gens :
        /\ gens'[n] = gens[n]
        /\ slices4'[gens[n].value4] = slices4[gens[n].value4]
        /\ slices6'[gens[n].value6] = slices6[gens[n].value6]
GenerationsImmutable == [][GenerationsImmutableStep]_vars

Asked == [r \in Request |-> IF Accepted(r) THEN mutations[r] ELSE <<>>]
Published == Content(current)

Abstract == INSTANCE RouteTable WITH
    Fits <- Buildable,
    asked <- Asked, backlog <- Backlog, verdict <- Fate, table <- Published

\* Recovering two catalogues from two indexes, coalescing, and updates of one
\* family that leave the other alone amount to applying the accepted mutations
\* one by one, in order; a batch that overfills either family changes nothing.
ImplementsRouteTable == Abstract!Spec
=============================================================================
