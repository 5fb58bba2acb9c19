SPECIFICATION Spec
CONSTANTS
  Drives <- TwoDrives
  Flag = "absent"
  MaxRuns = 2
INVARIANTS
  WizardDecides
