\* One process id, so that it is reused, one project, two processes and two
\* calls.  The channel: two documents, room for two events, four messages and one
\* background event.  The editing tools: two components of one class, whose ids
\* differ in the index alone, two values and three events.  The caches: two add-ons,
\* one of them packed, two processes, three loads, one edit and one fault, less what
\* Shared and Several leave out.  The bridge: two files, two versions, two processes
\* (p1 and p2), two calls and one crash or change.  The bounds of the other parts are
\* in the module.
CONSTANTS
  Uris = {u1, u2}
  Nothing = Nothing
  Capacity = 2
  MaxSent = 4
  Background = 1
  None = None
  Ids = {i1}
  Projects = {g1}
  Calls = {c1, c2}
  MaxStarts = 2
  MaxCalls = 2
  Callers = {c1, c2}
  Classes = {"a"}
  Values = {0, 1}
  Absent = Absent
  MaxComponents = 2
  MaxEvents = 3
  Addons = {a1, a2}
  Packed = {a1}
  Processes = {p1, p2}
  Contents = {k1, k2}
  Missing = Missing
  MaxLoads = 3
  MaxEdits = 1
  MaxFaults = 1
  a2 = a2
  p1 = p1
  p2 = p2
  ScriptNames = {"state", "search"}
  Versions = {1, 2}
  Payload <- Packages
  Installers = {p1, p2}
  NoFile = NoFile
  Torn = Torn
  MaxInstalls = 2
  MaxDamages = 1
SPECIFICATION ServerSpec
INVARIANTS
  PartsTypeOK
  SourceIsKept
  RevisionsAreTrue
  DirectoriesAreRepaired
  BridgeRecovers
  EditsAreAuthorised
  EditsKeepTheirPlace
  IndexAnswers
PROPERTIES
  ExactlyTheTargetEnds
  RequestsEnd
CHECK_DEADLOCK FALSE
