SPECIFICATION Spec
CONSTANTS
  Drives <- AllDrives
  Flag = "true"
  MaxRuns = 3
INVARIANTS
  TypeOK
  LoadedInputsOfOneDrive
  FallbackInheritsNothing
  PresentationMatches
