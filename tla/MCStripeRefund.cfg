SPECIFICATION Spec
CONSTANTS
  Events = {e1, e2, e3}
  Subs = {s1}
  Known = {}
  MaybeForeign = {}
  MaybeUnknown = FALSE
  TakeBacks = {"reversal"}
  Statuses = {"expired", "active", "past_due", "paused", "canceled"}
  Workers = {w1, w2}
  MaxTime = 2
SYMMETRY Symmetry
INVARIANTS RefundCancels
CHECK_DEADLOCK FALSE
