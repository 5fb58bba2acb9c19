SPECIFICATION Spec
CONSTANTS
  NSlots = 4
  DiskSize = 8
  MinSize = 3
  InitialTables <- Tables
  FaultSets <- NoneOrAll
  MaxAttempts = 3
INVARIANTS
  TypeOK
  HandoffMounted
  LayoutUndone
PROPERTIES
  OthersKept
