---- MODULE MCFrontendBackend ----
(* Two overlapping calls, two flights, the single-tool plans and the
   two-tool plans that mix reading, searching and booking. *)
EXTENDS FrontendBackend
CONSTANTS f1, f2
MCSetups == {[filler |-> FALSE, calls |-> Calls, cancels |-> 1]}
MCPlans ==
    {<<>>, <<Tool("search")>>, <<Tool("status")>>,
     <<Booking(f1, FALSE, "absent")>>, <<Booking(f2, TRUE, "absent")>>,
     <<Booking("unmatched", FALSE, "absent")>>, <<Booking(None, TRUE, "absent")>>,
     <<Booking(None, FALSE, "yes")>>, <<Booking(None, FALSE, "no")>>,
     <<Tool("search"), Booking(f1, TRUE, "absent")>>,
     <<Tool("status"), Booking(f1, TRUE, "yes")>>}
====
