\* A report about one of two files while startup publishes both.
CONSTANTS
  Paths = {p1, p2}
  Graphs = {g1}
  Sources = {"none"}
  MaxExclusions = 1
  MaxSequence = 1
  MaxGraphLoads = 0
SPECIFICATION Spec
INVARIANTS
  BaselineIsKept
CHECK_DEADLOCK FALSE
