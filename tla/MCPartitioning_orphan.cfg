SPECIFICATION Spec
CONSTANTS
  NSlots = 4
  DiskSize = 8
  MinSize = 3
  InitialTables <- Tables
  FaultSets <- CommitOnly
  MaxAttempts = 1
INVARIANTS
  HalfBuiltUndone
