SPECIFICATION ReferralsSpec
CONSTANTS
  Rewards = {x1}
  Recorders = {p1}
  Reversers = {v1}
  Runners = {f1}
  MaxAttempts = 2
  LockTime = 2
  RetryTime = 1
  RunTime = 1
  ReviewTime = 2
  KeepTime = 4
  LastHour = 6
SYMMETRY Symmetry
INVARIANT NeverReissued
CHECK_DEADLOCK FALSE
