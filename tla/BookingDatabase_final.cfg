SPECIFICATION Spec
CONSTANTS
  Requests = {r1, r2}
  p1 = p1
  p2 = p2
  Pnrs = {p1, p2}
  Codes = {"c1", "c2"}
  Numbers <- MCNumbers
  Routes <- MCRoutes
  Days = 3
  Seats = {"s1", "s2"}
  SeedFlights <- MCSeedFlights
  SeedBookings <- MCSeedBookings
  Tries = 1
  None = None
INVARIANTS CancelledIsFinal
CHECK_DEADLOCK FALSE
