\* One graph; three restarts, so that one is coalesced with a second while a
\* third waits; two changes of the bridge's setting and of Workbench.
CONSTANTS
  Graphs = {graph1}
  None = None
  MaxRestarts = 3
  MaxRefreshes = 1
  MaxCrashes = 1
  MaxSettings = 2
  MaxWorkbench = 2
SPECIFICATION StartSpec
INVARIANTS
  BothTypeOK
  OneCurrentClient
PROPERTIES
  DisabledStaysOff
  PromisesSettle
CHECK_DEADLOCK FALSE
