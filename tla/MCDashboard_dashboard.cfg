SPECIFICATION FairSpec
CONSTANTS
  Sessions <- SomeSessions
  MaxAttempts = 2
  MaxClock = 1800
  Delays = {1800}
  Batches = {400}
  MaxPackages = 450
  MaxMoves = 1
  MaxPolls = 1
INVARIANTS
  TypeOK
  BarNeverAhead
  HonestCount
  RebootEarned
  StoppedGone
PROPERTIES
  DashboardEnds
