SPECIFICATION FairSpec
CONSTANTS
  Devices = {d1}
  Limit = 1
  Requests = {r1, r2}
  Keys = {}
  Workers = {w1, w2}
  Writes = {"change", "customer", "subscription"}
  MaxAttempts = 6
  Lease = 2
  MaxLife = 1
  BackoffUnit = 1
  MaxBackoff = 3
  MaxTroubles = 2
  MaxRequests = 2
INVARIANTS
  TypeOK
  JobMatchesAccount
  OneWorker
  ErasedUnlessOvertaken
  ChangesStayErased
PROPERTIES
  BacklogDrains
CHECK_DEADLOCK FALSE
