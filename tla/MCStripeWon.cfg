SPECIFICATION Spec
CONSTANTS
  Events = {e1, e2, e3}
  Subs = {s1}
  Known = {s1}
  MaybeForeign = {}
  MaybeUnknown = FALSE
  TakeBacks = {"dispute", "won"}
  Statuses = {"expired", "active", "past_due", "paused", "canceled"}
  Workers = {w1, w2}
  MaxTime = 1
SYMMETRY Symmetry
PROPERTIES WonNeverResurrects
CHECK_DEADLOCK FALSE
