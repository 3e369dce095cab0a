\* One script; an edit, a change of the configuration, an outage, and one
\* status call in flight.
CONSTANTS
  Documents = {d1}
  None = None
  StartupValidation = TRUE
  MaxEdits = 1
  MaxConfigurations = 1
  MaxOutages = 1
  MaxProbes = 1
SPECIFICATION LoadSpec
INVARIANTS
  TypeOK
  FreshMeansCurrent
  PollingNeverStops
PROPERTIES
  Reconnects
CHECK_DEADLOCK FALSE
