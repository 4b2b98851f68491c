---- MODULE MCAirline ----
(***************************************************************************)
(* The airline example: its booking database, the lookup of a spoken       *)
(* record locator, and the frontend/backend agent.  The agent reaches the  *)
(* database only over HTTP, and the answers it can get are in its own      *)
(* module, so the components share no state here: component names the one  *)
(* that moves.                                                             *)
(***************************************************************************)
EXTENDS Integers, Sequences, FiniteSets
CONSTANTS
    None,
    Requests, Pnrs, Codes, Numbers, Routes, Days, Seats, SeedFlights, SeedBookings, Tries,
    Letters, PnrLength, MaxRows,
    Calls, Flights, Plans, Setups,
    p1, c3, f1, f2
VARIABLES component,
    db, tx, req,
    rows, query, at, best, tie,
    call, task, active, flow, post, errors, cancels, stopped, setup

(* BookingDatabase: two requests on one booking and one flight number that
   serves two routes on two days. *)
Day(d, route) == [number |-> "f", route |-> route, dep |-> d]
MCSeedFlights == {Day(1, "east"), Day(2, "west")}
MCSeedBookings == [p \in {p1} |-> Day(1, "east")]

(* FrontendBackend: the single-tool plans, and two-tool plans that mix
   reading, searching and booking; two calls and a cancellation with a filler
   that is awaited, and three calls, the fewest that can leave two Thinker
   tasks at once. *)
Tool(name) == [name |-> name, sel |-> None, prefs |-> FALSE, confirmed |-> "absent"]
Booking(sel, prefs, confirmed) ==
    [name |-> "booking", sel |-> sel, prefs |-> prefs, confirmed |-> confirmed]
MCPlans ==
    {<<>>, <<Tool("search")>>, <<Tool("status")>>,
     <<Booking(f1, FALSE, "absent")>>, <<Booking(f2, TRUE, "absent")>>,
     <<Booking("unmatched", FALSE, "absent")>>, <<Booking(None, TRUE, "absent")>>,
     <<Booking(None, FALSE, "yes")>>, <<Booking(None, FALSE, "no")>>,
     <<Tool("search"), Booking(f1, TRUE, "absent")>>,
     <<Tool("status"), Booking(f1, TRUE, "yes")>>}
MCSetups == {[filler |-> TRUE, calls |-> Calls \ {c3}, cancels |-> 1],
             [filler |-> FALSE, calls |-> Calls, cancels |-> 0]}

D == INSTANCE BookingDatabase
L == INSTANCE PnrLookup
F == INSTANCE FrontendBackend

ASSUME DatabaseAssumption == D!SeedAssumption
ASSUME AgentAssumption == F!PlansAssumption
ASSUME LookupAssumption == L!SizeAssumption

varsD == <<db, tx, req>>
varsL == <<rows, query, at, best, tie>>
varsF == <<call, task, active, flow, post, errors, cancels, stopped, setup>>

vars == <<component, varsD, varsL, varsF>>
IdleD == D!Init
IdleL == rows = <<>> /\ query = <<>> /\ at = 1 /\ best = None /\ tie = FALSE
IdleF == F!Init /\ setup = CHOOSE s \in Setups : TRUE
Init ==
    \/ /\ component = "database" /\ D!Init
       /\ IdleL /\ IdleF
    \/ /\ component = "lookup" /\ L!Init
       /\ IdleD /\ IdleF
    \/ /\ component = "agent" /\ F!Init
       /\ IdleD /\ IdleL
Next ==
    /\ UNCHANGED component
    /\ \/ component = "database" /\ D!Next /\ UNCHANGED <<varsL, varsF>>
       \/ component = "lookup" /\ L!Next /\ UNCHANGED <<varsD, varsF>>
       \/ component = "agent" /\ F!Next /\ UNCHANGED <<varsD, varsL>>
Spec == Init /\ [][Next]_vars /\ F!Fairness

(* api.py:6 of the booking server: the tables of a committed database agree (BookingDatabase). *)
AuditAgrees == component = "database" => D!AuditAgrees /\ D!Inv
(* schema.sql:20 the flight catalogue keeps its key (BookingDatabase). *)
FlightsKeyed == component = "database" => D!FlightsKeyed
(* api.py:803 the lookup of a misspelled record locator (PnrLookup). *)
NearestOrNone == component = "lookup" => L!NearestOrNone /\ L!Inv
(* state.py:30 of the agent: flags, draft and booking agree (FrontendBackend). *)
BookingFlowConsistent == component = "agent" => F!BookingFlowConsistent /\ F!Inv
(* thinker.py:66 of the agent: every call_backend settles (FrontendBackend). *)
EveryCallSettles == component = "agent" => F!EveryCallSettles
====
