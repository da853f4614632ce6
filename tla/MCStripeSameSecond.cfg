SPECIFICATION Spec
CONSTANTS
  Events = {e1, e2}
  Subs = {s1}
  Known = {}
  MaybeForeign = {}
  MaybeUnknown = FALSE
  TakeBacks = {}
  Statuses = {"expired", "active", "past_due", "paused", "canceled"}
  Workers = {w1, w2}
  MaxTime = 2
SYMMETRY Symmetry
INVARIANTS SameSecondConverges
CHECK_DEADLOCK FALSE
