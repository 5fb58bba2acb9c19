SPECIFICATION Spec
CONSTANTS
  Nums = {1, 2, 3, 4, 5}
  Machines <- Laptop
  Installs <- SomeInstalls
  MaxAttempts = 1
INVARIANT FallbackAccepted
