SPECIFICATION FairSpec
CONSTANTS
  LiveHooks = 1
  Signals = {"INT", "TERM"}
  MaxSignals = 1
  MaxAttempts = 2
  FileFaults = FALSE
  BusyMounts = FALSE
INVARIANTS
  NoThrowawayBuild
  Unwound
  ProtectedGivesDiskBack
PROPERTIES
  LiveHooksKept
  ImplementsHandover
  AttemptEnds
