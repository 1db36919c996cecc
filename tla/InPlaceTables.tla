---------------------------- MODULE InPlaceTables --------------------------
(***************************************************************************)
(* The ART tables that are changed in place and leave locking to their     *)
(* caller, so that a method is one step.  A behaviour is one table of one  *)
(* package:                                                                *)
(*   artlpm        the trie with leaves and a front table that is dropped; *)
(*   artset        the membership sets over that trie, of four packages    *)
(*                 that the table names as its kind;                       *)
(*   arenaartset   one of those sets with its nodes in an arena;           *)
(*   arenaartlpm   a trie without leaves in three arenas;                  *)
(*   artwalk       a trie whose nodes know their parents.                  *)
(* table is as the package's module says, announced is what the calls so   *)
(* far have asked for.                                                     *)
(***************************************************************************)
EXTENDS ARTKeys

CONSTANTS
    Packages,                   \* the packages that are run
    Kinds, GroupSlots,          \* which sets, and the slots of a group
    MaxDead,                    \* where the model stops counting dead places
    TrieSpelled, TrieEntries,   \* what callers of artlpm use and insert
    SetSpelled,                 \* what callers of the sets use
    ArenaSpelled, Loads,        \* the same for arenaartset, and what it loads
    PlaceSpelled, PlaceEntries, \* the same for arenaartlpm
    WalkSpelled, WalkEntries    \* the same for artwalk

VARIABLES package, table, announced
vars == <<package, table, announced>>

Trie == INSTANCE ARTLPM WITH Spelled <- TrieSpelled, Entries <- TrieEntries
Members == INSTANCE ARTSet WITH Spelled <- SetSpelled
Arena == INSTANCE ArenaSet WITH Spelled <- ArenaSpelled
Places == INSTANCE ArenaLPM WITH Spelled <- PlaceSpelled, Entries <- PlaceEntries
Walk == INSTANCE WalkLPM WITH Spelled <- WalkSpelled, Entries <- WalkEntries

Init ==
    /\ package \in Packages
    /\ \/ package = "artlpm" /\ Trie!Init
       \/ package = "artset" /\ Members!Init
       \/ package = "arenaartset" /\ Arena!ArenaInit
       \/ package = "arenaartlpm" /\ Places!Init
       \/ package = "artwalk" /\ Walk!Init

RunTrie == package = "artlpm" /\ Trie!Next /\ UNCHANGED package
RunMembers == package = "artset" /\ Members!Next /\ UNCHANGED package
RunArena == package = "arenaartset" /\ Arena!ArenaNext /\ UNCHANGED package
RunPlaces == package = "arenaartlpm" /\ Places!Next /\ UNCHANGED package
RunWalk == package = "artwalk" /\ Walk!Next /\ UNCHANGED package

Next == RunTrie \/ RunMembers \/ RunArena \/ RunPlaces \/ RunWalk
Spec == Init /\ [][Next]_vars

-----------------------------------------------------------------------------
\* artlpm, arenaartlpm, artwalk: Lookup, LookupPrefix and Contains answer the
\* longest match among what was inserted and not deleted since, with the value
\* last given to it, with a front table or without one, whatever was pushed
\* down, moved, pruned or rebuilt on the way.
LookupIsAnnounced ==
    /\ package = "artlpm" => Trie!LookupIsAnnounced
    /\ package = "arenaartlpm" => Places!LookupIsAnnounced
    /\ package = "artwalk" => Walk!LookupIsAnnounced

\* artset, groupartset, coverartset, latticeartset, arenaartset: Contains is
\* true of exactly the addresses that a stored prefix covers.  Coverage, ranks
\* and the front table are patched one prefix at a time and are shared by
\* several prefixes, so that a deletion has to restore what others still need.
ContainsStored ==
    /\ package = "artset" => Members!ContainsStored
    /\ package = "arenaartset" => Arena!ArenaContainsStored

\* All of the tables: Size counts, All yields once each and Get finds exactly
\* what was inserted and not deleted since.
ContentIsAnnounced ==
    /\ package = "artlpm" => Trie!ContentIsAnnounced
    /\ package = "artset" => Members!ContentIsAnnounced
    /\ package = "arenaartset" => Arena!ContentIsAnnounced
    /\ package = "arenaartlpm" => Places!ContentIsAnnounced
    /\ package = "artwalk" => Walk!ContentIsAnnounced

\* artlpm, artset, groupartset, artwalk: a deletion removes every node that it
\* leaves empty and no other, so that a trie is no larger than what it stores
\* needs, and no slot holds both a child and a leaf.
TriesArePruned ==
    /\ package = "artlpm" => Trie!TriesArePruned
    /\ package = "artset" => Members!TriesArePruned
    /\ package = "artwalk" => Walk!NothingIsLeft

\* arenaartset: every index is one node's or free, never both, never twice.
\* arenaartlpm: no two nodes' runs share a place, and every place that no run
\* owns is counted as dead.
ArenaIsPartitioned ==
    /\ package = "arenaartset" => Arena!ArenaIsPartitioned
    /\ package = "arenaartlpm" => Places!ArenaIsPartitioned

\* artwalk: Supernets yields the matches of an address, the longest first;
\* Parent is the longest of the prefixes strictly above one, and Subnets are
\* the ones inside it, itself included, each once and with its value.
WalksAreNested == package = "artwalk" => Walk!WalksAreNested
=============================================================================
