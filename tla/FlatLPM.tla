------------------------------ MODULE FlatLPM -------------------------------
(***************************************************************************)
(* flatlpm.Table: the writer protocol over a flatart index and a slice of  *)
(* values.  No catalogue is kept: a structural batch recovers it from the  *)
(* published index, a payload batch copies the slice and writes the slots  *)
(* that Exact finds.                                                       *)
(*                                                                         *)
(* One family is modelled, IPv4, because it has two spellings: a prefix of *)
(* form "mapped" is the IPv4-mapped IPv6 prefix (::ffff:0:0/96 and longer) *)
(* for the same addresses.  NormalizePrefix keeps the spelling, the index  *)
(* does not (decompose).                                                   *)
(***************************************************************************)
EXTENDS WriterProtocol, FlatART, SequencesExt

CONSTANTS
    Mutations,  \* what a Submit may ask for: sequences of mutations
    Catalogs,   \* what New may be given: maps from spelled prefixes to values
    MaxEntries  \* the builder refuses more prefixes: 2^30 - 1 in the code

VARIABLES
    mutations,  \* the normalised mutations of each request
    gens,       \* the generations built so far; the last one is current
    slices,     \* the value slices in memory, by address
    stats,      \* the two publication counters
    kind        \* publish's local flag: which counter is due

dataVars == <<gens, slices, stats, kind>>
vars == <<protocolVars, mutations, dataVars>>

current == gens[Len(gens)]

-----------------------------------------------------------------------------
\* A normalised prefix as the callers and the maps of publish spell it.
Spelled(form, p) == [form |-> form, prefix |-> p]
SpelledPrefix == {Spelled(form, p) : form \in {"native", "mapped"}, p \in Prefix}
decompose(sp) == sp.prefix

Values(g) == slices[g.values]

\* buildGeneration: Insert takes the spellings in address order, native before
\* mapped, and re-inserting replaces; then every slot gets its value.
Buildable(catalog) == Cardinality(DOMAIN catalog) <= MaxEntries
BuiltValues(catalog) ==
    LET stored == {decompose(sp) : sp \in DOMAIN catalog}
        ValueOf(p) == IF Spelled("mapped", p) \in DOMAIN catalog
                      THEN catalog[Spelled("mapped", p)]
                      ELSE catalog[Spelled("native", p)]
    IN  [slot \in Slots(stored) |-> ValueOf(RefOf(stored, slot))]
buildGeneration(catalog, generation, address) ==
    [stored |-> {decompose(sp) : sp \in DOMAIN catalog}, index |-> generation, values |-> address]

\* publish coalesces: the last mutation of the batch for a spelling wins.
Gathered(requests) == FlattenSeq([i \in DOMAIN requests |-> mutations[requests[i]]])
Coalesced(requests) == LastOnes(Gathered(requests))

\* (Faulty variant: a prefix is looked up by the longest match for its address.)
ExactByLookup(g, sp) == LookupSlot(g.stored, decompose(sp).key)

Exact(g, sp) == ExactSlot(g.stored, decompose(sp))

structural(changes) ==
    \E sp \in DOMAIN changes : (Exact(current, sp) = NoSlot) # changes[sp].delete

\* rebuild: All yields every stored prefix in native spelling with the value of
\* its own slot; the mutations are applied by spelling.
recovered == [sp \in {Spelled("native", p) : p \in current.stored} |->
                 Values(current)[Own(sp.prefix)]]
rebuilt(changes) == Amended(recovered, changes)

\* repayload: a copy of the slice with the exact slots overwritten.  Two
\* spellings of one prefix write the same slot in the order of a Go map.
repayloads(changes) ==
    LET Writers(slot) == {sp \in DOMAIN changes : Exact(current, sp) = slot}
        Possible(slot) == IF Writers(slot) = {} THEN {Values(current)[slot]}
                          ELSE {changes[sp].value : sp \in Writers(slot)}
        slots == Slots(current.stored)
    IN  {new \in [slots -> UNION {Possible(slot) : slot \in slots}] :
            \A slot \in slots : new[slot] \in Possible(slot)}

-----------------------------------------------------------------------------
Init ==
    /\ ProtocolInit
    /\ mutations = [r \in Request |-> <<>>]
    /\ \E catalog \in Catalogs :
          /\ Buildable(catalog)
          /\ gens = <<buildGeneration(catalog, 1, 1)>>
          /\ slices = <<BuiltValues(catalog)>>
    /\ stats = [payload |-> 0, structural |-> 0]
    /\ kind = "payload"

Submit(r) ==
    \/ /\ SubmitInvalid(r)
       /\ UNCHANGED <<mutations, dataVars>>
    \/ /\ SubmitNormalized(r)
       /\ \E ms \in Mutations : mutations' = [mutations EXCEPT ![r] = ms]
       /\ UNCHANGED dataVars
    \/ /\ SubmitStep(r)
       /\ UNCHANGED <<mutations, dataVars>>

Close(c) ==
    /\ CloseCall(c) \/ CloseStep(c)
    /\ UNCHANGED <<mutations, dataVars>>

\* manage, collect and appendQueued, and the answers of publish.
Manage ==
    /\ Collect
    /\ UNCHANGED <<mutations, dataVars>>

PublishStructural ==
    LET catalog == rebuilt(Coalesced(batch))
    IN  /\ structural(Coalesced(batch))
        /\ Publish(Buildable(catalog))
        /\ IF Buildable(catalog)
           THEN /\ gens' = Append(gens, buildGeneration(catalog, number + 1, Len(slices) + 1))
                /\ slices' = Append(slices, BuiltValues(catalog))
           ELSE UNCHANGED <<gens, slices>>
        /\ kind' = "structural"
        /\ UNCHANGED <<mutations, stats>>

PublishPayload ==
    /\ ~structural(Coalesced(batch))
    /\ Publish(TRUE)
    /\ \E new \in repayloads(Coalesced(batch)) : slices' = Append(slices, new)
    /\ gens' = Append(gens, [current EXCEPT !.values = Len(slices) + 1])
    /\ kind' = "payload"
    /\ UNCHANGED <<mutations, stats>>

CountStats ==
    /\ CountPublication
    /\ stats' = [stats EXCEPT ![kind] = @ + 1]
    /\ UNCHANGED <<mutations, gens, slices, kind>>

TableNext ==
    \/ \E r \in Request : Submit(r)
    \/ \E c \in Closer : Close(c)
    \/ Manage
    \/ PublishStructural
    \/ PublishPayload
    \/ CountStats

TableSpec == Init /\ [][TableNext]_vars

-----------------------------------------------------------------------------
(***************************************************************************)
(* Properties.                                                             *)
(***************************************************************************)
\* What Table.Lookup answers for an address: found or not, and the value.
Lookup(g, a) ==
    LET slot == LookupSlot(g.stored, a)
    IN  IF slot = NoSlot THEN <<>> ELSE <<Values(g)[slot]>>

\* What the values stored for exactly the prefixes of g say it should answer.
Expected(g, a) ==
    IF Matches(g.stored, a) = {} THEN <<>>
    ELSE <<Values(g)[Own(LongestMatch(g.stored, a))]>>

\* The index that a rebuild compiles answers every address with the longest
\* match: leaves, strides, inherited defaults and the root agree.
\* (gens[n].index is the generation whose rebuild compiled n's index.)
RebuildIsLongestMatch ==
    \A n \in DOMAIN gens : gens[n].index = n =>
        \A a \in Addr : Lookup(gens[n], a) = Expected(gens[n], a)

\* Lookup answers with the value last published for the longest matching
\* prefix in every generation, those of a payload update included.
LookupIsLongestMatch ==
    \A a \in Addr : Lookup(current, a) = Expected(current, a)

\* "Delete=true means yank it" (routeupdate.Mutation): when a batch has been
\* published, a prefix whose last mutation in it was a deletion is not stored,
\* in whichever spelling it was announced and deleted.
DeleteYanks ==
    manage = "count" =>
        LET all == Gathered(batch)
        IN  \A i \in DOMAIN all :
              /\ all[i].delete
              /\ \A j \in DOMAIN all : j > i => decompose(all[j].prefix) # decompose(all[i].prefix)
              => decompose(all[i].prefix) \notin current.stored

\* No published generation changes again: repayload writes a copy.
GenerationsImmutableStep ==
    \A n \in DOMAIN gens : gens'[n] = gens[n] /\ slices'[gens'[n].values] = slices[gens[n].values]
GenerationsImmutable == [][GenerationsImmutableStep]_vars

\* What Exact answers: the table by prefix, whatever the spelling.
Content(g) == [p \in g.stored |-> Values(g)[Own(p)]]

\* The mutations as they concern the addresses: spelling dropped.
Unmapped(ms) == [i \in DOMAIN ms |-> [ms[i] EXCEPT !.prefix = decompose(ms[i].prefix)]]

Asked == [r \in Request |-> IF Accepted(r) THEN Unmapped(mutations[r]) ELSE <<>>]
Published == Content(current)

Abstract == INSTANCE RouteTable WITH
    Fits <- Buildable,
    Mutations <- {Unmapped(ms) : ms \in Mutations},
    asked <- Asked, backlog <- Backlog, verdict <- Fate, table <- Published

\* Recovering the catalogue from the index, coalescing and the two publication
\* paths amount to applying the accepted mutations one by one, in order.
ImplementsRouteTable == Abstract!Spec
=============================================================================
