SPECIFICATION Spec
CONSTANTS
  None = None
  p1 = p1
  c3 = c3
  f1 = f1
  f2 = f2
  Requests = {r1, r2}
  Pnrs = {p1, p2}
  Codes = {"k1", "k2"}
  Numbers = {"f"}
  Routes = {"east", "west"}
  Days = 3
  Seats = {"s1", "s2"}
  SeedFlights <- MCSeedFlights
  SeedBookings <- MCSeedBookings
  Tries = 1
  Letters = {1, 2}
  PnrLength = 3
  MaxRows = 3
  Calls = {c1, c2, c3}
  Flights = {f1, f2}
  Plans <- MCPlans
  Setups <- MCSetups
INVARIANTS AuditAgrees FlightsKeyed NearestOrNone BookingFlowConsistent
PROPERTIES EveryCallSettles
CHECK_DEADLOCK FALSE
