SPECIFICATION CommerceSpec
CONSTANTS
  Requests = {f1, f2}
  CheckoutKeys = {n1, n2}
  Prices = {o1, o2}
  LeaseTime = 2
  FunctionTime = 1
  MaxClock = 2
  Buyers = {a1, a2}
  SandboxAllowed = {a1}
  Bought = {o1, o2}
  Notices = {n1, n2}
  Hooks = {f1, f2}
  Restores = {q1}
  LastSigned = 2
  Purchases = {s1, s2}
  SandboxRows = {s2}
  Grants = {g1}
  Writers = {f1, f2}
  Terms = {1, 2}
  LastDay = 1
  LastEnd = 3
  Claimants = {n1, n2}
  Revokers = {f1, f2}
  MaxRedemptions = 2
  Rewards = {x1}
  Recorders = {f1, f2}
  Reversers = {n1, n2}
  Runners = {o1, o2}
  MaxAttempts = 2
  LockTime = 2
  RetryTime = 1
  RunTime = 1
  ReviewTime = 2
  KeepTime = 4
  LastHour = 4
SYMMETRY Symmetry
INVARIANTS
  CommerceTypeOK
  OnePayable
  SecondIsOvertaken
  PurchasesConverge
  ShowsBestRight
  CreditedOnce
  ReversedIsTakenBack
PROPERTIES
  PurchaseKeepsItsAccount
  RevokedIsOver
CHECK_DEADLOCK FALSE
