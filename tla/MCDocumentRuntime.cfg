\* The first load; the second is an instance with constants of its own.
CONSTANTS
  Uris = {u1, u2}
  SecondUri = u2
  Requests = {r1, r2}
  SecondRequest = r2
  Kinds = {"tokens", "completion"}
  Sizes = {1}
  Lanes = {"foreground", "background"}
  DeferralLimit = 2
  EventCapacity = 2
  MaxRetainedJobs = 2
  MaxRetainedBytes = 8
  MaxRevision = 2
  MaxGeneration = 1
SPECIFICATION LoadSpec
INVARIANTS
  TypeOK
  RequestsAreHeld
  WorkIsComing
  StaleTokensAreAnnounced
PROPERTIES
  NoStaleAnswer
  DiagnosticsNeverRegress
  RequestsAreAnswered
  LoadConverges
CHECK_DEADLOCK FALSE
