SPECIFICATION Spec
CONSTANTS
  Installs <- OneRig
  MaxBoots = 1
INVARIANTS
  FactoryNeverHoldsCredentials
