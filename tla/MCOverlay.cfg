\* Two files and two graphs; which of them each load uses is in the module.
CONSTANTS
  Paths = {p1, p2}
  Graphs = {g1, g2}
  Sources = {"inventory", "dependencies", "none"}
  MaxExclusions = 1
  MaxSequence = 2
  MaxGraphLoads = 2
SPECIFICATION LoadSpec
INVARIANTS
  TypeOK
  NewestReportWins
  CapturesAreCurrent
  ChangesAreAnnounced
  SettledStatus
PROPERTIES
  GraphsNeverRegress
  ReportsAreSeen
CHECK_DEADLOCK FALSE
