---- MODULE MCBookingDatabase ----
(* Three requests on a database of one booking and one flight number that
   serves two routes on two days. *)
EXTENDS BookingDatabase
CONSTANTS p1, p2
MCNumbers == {"f"}
MCRoutes == {"east", "west"}
Day(d, route) == [number |-> "f", route |-> route, dep |-> d]
MCSeedFlights == {Day(1, "east"), Day(2, "west")}
MCSeedBookings == [p \in {p1} |-> Day(1, "east")]
====
