SPECIFICATION Spec
CONSTANTS
  Packages = {"parityset", "steplpm", "soaart", "slotlpm", "aosart", "versioned"}
  Width = 4
  LowBits = 1
  SlotBits = 2
  SubBits = 1
  slotTableLimit = 3
  subThreshold = 1
  Offered <- MCOffered
  Batches <- MCParityBatches
  Bad = Bad
  Value = {1, 2}
  Zero = 0
  StepBuild <- MCStepBuild
  StepLookup <- MCStepLookup
  StepKey <- MCStepKey
  StepEntries <- MCStepEntries
  StepBatches <- MCStepBatches
  SlotSpelled <- MCSpelled
  SlotEntries <- MCSlotEntries
  SlotBatches <- MCSlotBatches
  Callers = {c1, c2}
  Modes = {"FIB", "RIB", "Hybrid"}
  VersionSpelled <- MCVersionSpelled
  VersionEntries <- MCVersionEntries
  MaxStaged = 2
INVARIANTS ContainsStored CoversRangeExact StepLookupIsAnnounced StepSizeIsAnnounced AnnouncedIsServed
