\* Two documents, two task slots and four size units, so that both limits
\* are hit, with a task of each document able to overload the other's.
CONSTANTS
  Uris = {u1, u2}
  MaxRetainedJobs = 2
  MaxRetainedBytes = 4
  Sizes = {1, 3}
  MaxVersion = 2
  MaxRevision = 3
  MaxSequence = 3
SYMMETRY UriSymmetry
SPECIFICATION Spec
INVARIANTS
  TypeOK
  WithinLimits
  TableIsExact
  RetainedIsLatestSnapshot
  FlagsFollowTickets
  OnlyNewestPublishes
PROPERTIES
  GateSpec
CHECK_DEADLOCK FALSE
