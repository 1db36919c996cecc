---------------------------- MODULE LockedTables ---------------------------
(***************************************************************************)
(* The tables whose methods hold a mutex and publish with one atomic store:*)
(* those of parityset, steplpm, slotlpm, soaart, aosart and versioned.  A  *)
(* behaviour is one of any of them, named by package; the others stay as   *)
(* they began.  A method is one step, but versioned.Update calls back to   *)
(* its caller between lock and store, and takes several.  soaart's table   *)
(* is steplpm's over a compiled trie, and aosart's is slotlpm's.           *)
(* The tables of ParityTable and StepLPM are this module's own, with their *)
(* constants, variables and properties, over addresses of Width bits; the  *)
(* others are instances, over addresses as small as their cuts allow:      *)
(*   slotlpm    three bits for IPv4, four for IPv6 with a low word of one, *)
(*              a window of two and a second cut on the bit below it;      *)
(*   aosart     four bits in two strides for IPv4, six in three for IPv6;  *)
(*   versioned  six bits in three strides of two.                          *)
(***************************************************************************)
EXTENDS ParityTable, StepLPM

CONSTANTS
    Packages,           \* the packages that are run
    SlotSpelled,        \* for slotlpm and aosart: prefixes as callers spell them
    SlotEntries, SlotBatches,
    Callers,            \* goroutines that update a versioned table
    Modes,              \* its modes
    VersionSpelled,     \* prefixes as its callers spell them
    VersionEntries,
    MaxStaged           \* calls of one update

VARIABLES
    slotKeys, slotVals, slotCurrent, slotAnnounced,
    mode, cur, mutex, writer, announced

slotVars == <<slotKeys, slotVals, slotCurrent, slotAnnounced>>
versionVars == <<mode, cur, mutex, writer, announced>>
vars == <<parityVars, stepVars, slotVars, versionVars>>

SlotCut4 == INSTANCE StepIndex WITH
    Width <- 3, LowBits <- 0, NarrowBits <- 2, WideBits <- 2, OctetBits <- 1,
    minSeparatedSlots <- 2, subThreshold <- 1
SlotCut6 == INSTANCE StepIndex WITH
    Width <- 4, LowBits <- 1, NarrowBits <- 2, WideBits <- 2, OctetBits <- 1,
    minSeparatedSlots <- 2, subThreshold <- 1
Art4 == INSTANCE CompiledART WITH Width <- 4, Stride <- 2
Art6 == INSTANCE CompiledART WITH Width <- 6, Stride <- 2

Slot == INSTANCE SlotLPM WITH
    Width4 <- 3, Build4 <- SlotCut4!SlotBuild, lookup4 <- SlotCut4!SlotLookup,
    Width6 <- 4, Build6 <- SlotCut6!SlotBuild, lookup6 <- SlotCut6!SlotLookup,
    Spelled <- SlotSpelled["slotlpm"], Entries <- SlotEntries["slotlpm"], Batches <- SlotBatches["slotlpm"],
    keys <- slotKeys, vals <- slotVals, current <- slotCurrent, announced <- slotAnnounced
Aos == INSTANCE SlotLPM WITH
    Width4 <- 4, Build4 <- Art4!buildTree, lookup4 <- Art4!lookup,
    Width6 <- 6, Build6 <- Art6!buildTree, lookup6 <- Art6!lookup,
    Spelled <- SlotSpelled["aosart"], Entries <- SlotEntries["aosart"], Batches <- SlotBatches["aosart"],
    keys <- slotKeys, vals <- slotVals, current <- slotCurrent, announced <- slotAnnounced

Version == INSTANCE Versioned WITH
    Width <- 6, Stride <- 2, Spelled <- VersionSpelled, Entries <- VersionEntries

ASSUME TableAssumption ==
    /\ Packages \subseteq {"parityset", "steplpm", "soaart", "slotlpm", "aosart", "versioned"}
    /\ Slot!SpelledAssumption /\ Aos!SpelledAssumption

Init ==
    /\ package \in Packages
    /\ ParityInit /\ (package # "parityset" => stored = {})
    /\ StepInit
    /\ IF package = "aosart" THEN Aos!Init ELSE Slot!Init
    /\ Version!Init /\ (package # "versioned" => mode = "FIB")

RunParity == package = "parityset" /\ ParityNext /\ UNCHANGED <<stepVars, slotVars, versionVars>>
RunStep == package \in StepPackages /\ StepNext /\ UNCHANGED <<parityVars, slotVars, versionVars>>
RunSlot == package = "slotlpm" /\ Slot!Next /\ UNCHANGED <<parityVars, stepVars, versionVars>>
RunAos == package = "aosart" /\ Aos!Next /\ UNCHANGED <<parityVars, stepVars, versionVars>>
RunVersion == package = "versioned" /\ Version!Next /\ UNCHANGED <<parityVars, stepVars, slotVars>>

Next == RunParity \/ RunStep \/ RunSlot \/ RunAos \/ RunVersion
Spec == Init /\ [][Next]_vars

-----------------------------------------------------------------------------
\* The other LPM tables: "Lookup returns the value of the longest prefix covering
\* addr", among the prefixes that calls have inserted and not deleted since,
\* with the value last given to them: ids, positions, value vectors and indexes
\* stay together through every batch, and an update that panics or runs beside
\* another one neither shows nor undoes anything.  For versioned, Size and All of
\* each index of a generation agree with the answers.
AnnouncedIsServed ==
    /\ package = "slotlpm" => Slot!LookupIsAnnounced
    /\ package = "aosart" => Aos!LookupIsAnnounced
    /\ package = "versioned" => Version!LookupIsAnnounced /\ Version!ContentIsAnnounced
=============================================================================
