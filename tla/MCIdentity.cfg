SPECIFICATION IdentitySpec
CONSTANTS
  Devices = {d1, d2, d3}
  Limit = 2
  Requests = {f1, f2, f3}
  Keys = {n1, n2}
  SyncDevices = {n1, n2}
  AccountKeys = {k1, k2}
  Codes = {c1, c2}
  SyncRequests = {q1, q2}
  MaxStored = 2
  LogDevices = {n1, n2}
  Revisions = {v1, v2}
  LogRequests = {q1, q2}
  PageLimit = 1
  MaxSequence = 2
  People = {p1, p2, p3}
  Listed = {p1, p2}
  LesserRoles = {"support"}
  Changes = {q1, q2}
  ChangeKeys = {n1, n2}
  Callers = {q1, q2}
  Scopes = 2
  RateLimit <- MCRateLimit
  Window = 2
  CallTime = 2
  LastSecond = 5
  Operations = {f1, f2, f3}
  FormKeys = {n1, n2}
SYMMETRY Symmetry
INVARIANTS
  IdentityTypeOK
  SlotsKept
  DeletingRevokes
  LiftedOnce
  CodeOpensOnce
  MissedWasInFlight
  ConflictsAreTold
  AdmittedWithinLimit
  LedgerIsTrue
PROPERTIES
  EnvelopesKept
  OwnersRemain
CHECK_DEADLOCK FALSE
