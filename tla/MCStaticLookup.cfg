\* The files of SymbolFiles, at most three of them in three layers.
CONSTANTS
  Contributions <- Files
  None = None
  MaxFiles = 3
  MaxLayers = 3
  MaxGroup = 2
SPECIFICATION Spec
INVARIANTS
  StaticLookupEnds
CHECK_DEADLOCK FALSE
