SPECIFICATION Spec
CONSTANTS
  Nums = {1, 2, 3, 4, 5}
  Machines <- SomeMachines
  Installs <- SomeInstalls
  MaxAttempts = 3
INVARIANTS
  TypeOK
  OthersKept
  InstalledStarts
  BuiltToBoot
  ProfileServed
