SPECIFICATION CheckoutSpec
CONSTANTS
  Requests = {r1, r2}
  CheckoutKeys = {c1, c2}
  Prices = {month, year}
  LeaseTime = 2
  FunctionTime = 1
  MaxClock = 2
SYMMETRY Symmetry
INVARIANT OneSubscription
CHECK_DEADLOCK FALSE
