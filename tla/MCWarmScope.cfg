\* Three deliveries of the same graph after a startup without game data.
CONSTANTS
  Paths = {p1}
  Graphs = {g1}
  Sources = {"none"}
  MaxExclusions = 1
  MaxSequence = 0
  MaxGraphLoads = 3
SPECIFICATION Spec
INVARIANTS
  WorkbenchLabelIsTrue
CHECK_DEADLOCK FALSE
