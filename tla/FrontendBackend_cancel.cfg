SPECIFICATION FairSpec
CONSTANTS
  Calls = {c1, c2}
  f1 = f1
  f2 = f2
  Flights = {f1, f2}
  Plans <- MCPlans
  Setups <- MCSetups
  None = None
INVARIANTS CancelStops
CHECK_DEADLOCK FALSE
