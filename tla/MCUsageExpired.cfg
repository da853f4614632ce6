CONSTANTS
  r1 = r1
  r2 = r2
  r3 = r3
  k1 = k1
  k2 = k2
  dictation = dictation
  rewrite = rewrite
  transcription = transcription
  transformation = transformation
  Requests = {r1, r2, r3}
  Keys = {k1, k2}
  Bodies = {dictation, rewrite}
  Kinds = {transcription}
  Months = {0}
  KindOf <- MCKindOf
  UnitsOf <- MCUnitsOf
  MaxUnits = 2
  Checks = {}
  Sandbox = "sandbox_entitlement"
  Limit <- MCLimit
  MonthOf <- MCMonthOf
  MaxTime = 2
  Ttl = 2
  MaxDuration = 1
  Nobody = Nobody
SPECIFICATION Spec
SYMMETRY Symmetry
INVARIANTS DeliveredIsFinalized
CHECK_DEADLOCK FALSE
