SPECIFICATION SceneSpec
CONSTANTS
  Events = {e1, e2, e3}
  Subs = {s1, s2}
  Known = {s1}
  MaybeForeign = {s1}
  MaybeUnknown = TRUE
  TakeBacks = {"reversal", "dispute", "won"}
  Statuses = {"expired", "active", "past_due", "paused", "canceled"}
  Workers = {w1, w2}
  MaxTime = 2
SYMMETRY Symmetry
INVARIANTS
  TypeOK
  AppliedOnce
  AckedIsProcessed
  NewestEventWins
  CancellationStands
  CheckoutConverges
CHECK_DEADLOCK FALSE
