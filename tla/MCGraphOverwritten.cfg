\* A graph delivered while startup still loads project dependencies.
CONSTANTS
  Paths = {p1}
  Graphs = {g1}
  Sources = {"dependencies"}
  MaxExclusions = 1
  MaxSequence = 0
  MaxGraphLoads = 1
SPECIFICATION Spec
PROPERTIES
  DeliveredGraphStays
CHECK_DEADLOCK FALSE
