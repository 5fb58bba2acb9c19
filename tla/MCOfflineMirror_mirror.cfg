SPECIFICATION Spec
CONSTANTS
  Packages <- Names
  LocalPackages <- Locals2
  Versions = {1, 2}
  PublishedOf <- PublishedVersions
  LocalOf <- LocalVersions
  Deps <- Needs
  Lists <- BothLists
  Gated = {"runtime", "settings"}
  MaxBuilds = 3
  MaxStamp = 4
INVARIANTS
  TypeOK
  ImageInstalls
  ImageExact
  RetryEnough
PROPERTIES
  WarmCacheKept
