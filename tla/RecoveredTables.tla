--------------------------- MODULE RecoveredTables -------------------------
(***************************************************************************)
(* flatlpm.Table and dirlpm.Table: managed tables that keep no catalogue.  *)
(* A structural batch recovers the table from the indexes that the last    *)
(* generation published, a payload batch overwrites values in copies of    *)
(* its slices.  A behaviour is one table of one package; both share the    *)
(* writer protocol, slices is flatlpm's value slices or dirlpm's IPv4 ones.*)
(***************************************************************************)
EXTENDS WriterProtocol, FlatART, BlockLPM

CONSTANTS
    Packages,                       \* the packages that are run
    FlatMutations, FlatCatalogs,    \* what flatlpm is asked for and begins with
    DirMutations, DirCatalogs,      \* the same for dirlpm
    MaxEntries, maxSlot, MaxBlocks, \* what the builders refuse
    Value                           \* what can be stored for a prefix

ASSUME BuilderAssumption == MaxEntries \in Nat

VARIABLES package, mutations, gens, slices, slices6, stats, kind

vars == <<package, protocolVars, mutations, gens, slices, slices6, stats, kind>>

Flat == INSTANCE FlatLPM WITH Mutations <- FlatMutations, Catalogs <- FlatCatalogs
Dir == INSTANCE DirLPM WITH Mutations <- DirMutations, Catalogs <- DirCatalogs, slices4 <- slices

\* Submit and New only see prefixes that NormalizePrefix has passed.
ASSUME RouteAssumption ==
    /\ FlatMutations \subseteq Seq([prefix : Flat!SpelledPrefix, value : Value, delete : BOOLEAN])
    /\ \A catalog \in FlatCatalogs :
          DOMAIN catalog \in SUBSET Flat!SpelledPrefix /\ catalog \in [DOMAIN catalog -> Value]
    /\ DirMutations \subseteq Seq([prefix : Dir!Route, value : Value, delete : BOOLEAN])
    /\ \A catalog \in DirCatalogs :
          DOMAIN catalog \in SUBSET Dir!Route /\ catalog \in [DOMAIN catalog -> Value]

\* (Where no call of flatlpm spells a prefix 4-in-6.)
NativeOnly == \A ms \in FlatMutations : \A i \in DOMAIN ms : ms[i].prefix.form = "native"

Init ==
    /\ package \in Packages
    /\ \/ package = "flatlpm" /\ Flat!Init /\ slices6 = <<>>
       \/ package = "dirlpm" /\ Dir!Init

RunFlat == package = "flatlpm" /\ Flat!TableNext /\ UNCHANGED <<package, slices6>>
RunDir == package = "dirlpm" /\ Dir!TableNext /\ UNCHANGED package

TableNext == RunFlat \/ RunDir
TableSpec == Init /\ [][TableNext]_vars

-----------------------------------------------------------------------------
\* A compiled index answers every address with the longest match: flatlpm's and
\* dirlpm's IPv6 index in each generation that was rebuilt, dirlpm's IPv4 blocks
\* in those of payload updates too, where a value has one slot only.
LookupIsLongestMatch ==
    /\ package = "flatlpm" => Flat!RebuildIsLongestMatch
    /\ package = "dirlpm" => Dir!LookupIsLongestMatch

\* No published generation changes again, although payload updates share the
\* indexes, and dirlpm the untouched family's slice, with their predecessor.
GenerationsImmutable ==
    [][/\ package = "flatlpm" => Flat!GenerationsImmutableStep
       /\ package = "dirlpm" => Dir!GenerationsImmutableStep]_vars

\* Recovering the table from the indexes, coalescing, and both publication
\* paths amount to applying the accepted mutations one by one, in order, all or
\* none of a batch: each package implements RouteTable (under the refinement
\* mapping of its module), in its first state and in every step.
ImplementsRouteTable ==
    /\ package = "flatlpm" => Flat!Abstract!Init
    /\ package = "dirlpm" => Dir!Abstract!Init
    /\ [][/\ package = "flatlpm" => [Flat!Abstract!Next]_(Flat!Abstract!vars)
          /\ package = "dirlpm" => [Dir!Abstract!Next]_(Dir!Abstract!vars)]_vars
=============================================================================
