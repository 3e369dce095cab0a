\* Two debug captures of one document.
CONSTANTS
  Uris = {u1}
  Requests = {r1, r2}
  Kinds = {"debug"}
  Sizes = {1}
  Lanes = {"foreground", "background"}
  DeferralLimit = 2
  EventCapacity = 4
  MaxRetainedJobs = 2
  MaxRetainedBytes = 8
  MaxRevision = 1
  MaxGeneration = 0
SPECIFICATION FairSpec
PROPERTIES
  DebugRequestsAnswered
CHECK_DEADLOCK FALSE
