\* One script edited twice; Workbench stays as it is.
CONSTANTS
  Documents = {d1}
  None = None
  StartupValidation = TRUE
  MaxEdits = 2
  MaxConfigurations = 0
  MaxOutages = 0
  MaxProbes = 1
SPECIFICATION Spec
INVARIANTS
  SavedIsValidated
CHECK_DEADLOCK FALSE
