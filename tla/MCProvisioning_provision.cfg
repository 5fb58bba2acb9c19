SPECIFICATION FairSpec
CONSTANTS
  Installs <- SomeInstalls
  MaxBoots = 3
INVARIANTS
  TypeOK
  BootsToOwnerSetup
  AutologinBehindPrompt
  Reachable
  SealedFactoryClean
PROPERTIES
  JoinsEventually
