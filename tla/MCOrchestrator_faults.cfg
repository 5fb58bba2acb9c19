SPECIFICATION Spec
CONSTANTS
  LiveHooks = 0
  Signals = {"INT", "TERM"}
  MaxSignals = 1
  MaxAttempts = 1
  FileFaults = TRUE
  BusyMounts = TRUE
INVARIANTS
  TypeOK
  HookPreserved
  FinishedMeansBootable
  FstabClean
