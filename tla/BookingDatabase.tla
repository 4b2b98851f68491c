---- MODULE BookingDatabase ----
(***************************************************************************)
(* The booking server of the airline example: a FastAPI process that       *)
(* serves each request in a thread of its own, with a SQLite connection of *)
(* its own (airline/database/server.py, api.py, db.py, schema.sql).        *)
(*                                                                         *)
(* SQLite is in WAL mode with Python's deferred isolation: a SELECT that   *)
(* runs before the first write of a "with conn:" block reads the last      *)
(* committed database, outside any transaction; the first write takes the  *)
(* one write lock, and the block's end commits, or rolls back when it      *)
(* raises.  So a request is here a sequence of reads of db, then a write   *)
(* transaction tx that only its owner sees, then one commit.               *)
(***************************************************************************)
EXTENDS Naturals, Sequences, FiniteSets

CONSTANTS
    Requests,    \* the requests that arrive, each once
    Pnrs,        \* the record locators that _gen_pnr may draw
    Codes,       \* the confirmation codes that token_hex may draw
    Numbers, Routes,
    Days,        \* a bound: departures are 1 .. Days
    Seats,       \* values of the ancillaries; one row stands for seat and meal
    SeedFlights, \* rows [number, route, dep] with distinct (number, dep)
    SeedBookings,\* a function from some Pnrs to rows of SeedFlights
    Tries,       \* bound of the draws of a code (_CODE_RETRIES)
    None

VARIABLES db, tx, req
vars == <<db, tx, req>>

Rows == [number: Numbers, route: Routes, dep: 1 .. Days]
Keep == "keep"

(* UNIQUE(flight_number, departure). *)
Keyed(flights) == \A f, g \in flights : (f.number = g.number /\ f.dep = g.dep) => f = g

SeedAssumption ==
    /\ SeedFlights \subseteq Rows /\ Keyed(SeedFlights)
    /\ DOMAIN SeedBookings \subseteq Pnrs /\ SeedBookings \in [DOMAIN SeedBookings -> SeedFlights]
    /\ Days \in Nat /\ Seats # {} /\ None \notin Requests

(* A request as it arrives: what the route of server.py passes on. dep is
   None when the body has no departure. *)
Bodies ==
    [op: {"rebook"}, pnr: Pnrs, number: Numbers, dep: (1 .. Days) \cup {0},
     route: {None}, seat: Seats \cup {Keep}]
    \cup [op: {"standby"}, pnr: Pnrs, number: Numbers, dep: (1 .. Days) \cup {0},
          route: {None}, seat: {Keep}]
    \cup [op: {"cancel"}, pnr: Pnrs, number: {None}, dep: {0},
          route: {None}, seat: {Keep}]
    \cup [op: {"book"}, pnr: {None}, number: Numbers, dep: (1 .. Days) \cup {0},
          route: Routes, seat: {Keep}]

Action(op) == CASE op = "rebook" -> "REBOOK" [] op = "cancel" -> "CANCEL"
                [] op = "standby" -> "STANDBY" [] op = "book" -> "BOOK"

Seed == [flights |-> SeedFlights,
         flight  |-> SeedBookings,
         status  |-> [p \in DOMAIN SeedBookings |-> "active"],
         seat    |-> [p \in DOMAIN SeedBookings |-> CHOOSE s \in Seats : TRUE],
         codes   |-> {},
         log     |-> <<>>]
NoTx == [owner |-> None, db |-> Seed]
NoRequest == [body |-> None, p |-> None, was |-> None, row |-> None, code |-> None, tries |-> 0,
              pc |-> "new"]

Init ==
    /\ db = Seed
    /\ tx = NoTx
    /\ req = [r \in Requests |-> NoRequest]

Extend(f, x, v) == [y \in DOMAIN f \cup {x} |-> IF y = x THEN v ELSE f[y]]
Goto(r, pc) == req' = [req EXCEPT ![r].pc = pc]

(* What request r reads: its own uncommitted work inside its transaction,
   the committed database before it. *)
View(r) == IF tx.owner = r THEN tx.db ELSE db

(* The first write of r takes the write lock; the later ones have it. *)
Lock(r, newdb) ==
    /\ tx.owner \in {None, r}
    /\ tx' = [owner |-> r, db |-> newdb]
    /\ UNCHANGED db
Commit == db' = tx.db /\ tx' = NoTx

Earliest(rows) == CHOOSE f \in rows : \A g \in rows : f.dep <= g.dep

----------------------------------------------------------------------------
(* A route is entered: get_api opens the connection, the body is read. *)
Arrive(r) ==
    /\ req[r].pc = "new"
    /\ \E b \in Bodies :
        req' = [req EXCEPT ![r] =
            [body |-> b, p |-> b.pnr, was |-> None, row |-> None, code |-> None, tries |-> 0,
             pc |-> IF b.op = "book" THEN "flight" ELSE "read"]]
    /\ UNCHANGED <<db, tx>>

(* commit_rebook, cancel_booking and list_standby refuse an unknown PNR and
   one that is not active; what they read of it is what they log. *)
MayOperate(p, d) == p \in DOMAIN d.flight /\ d.status[p] = "active"
ReadBooking(r) ==
    LET b == req[r].body  d == View(r) IN
    /\ req[r].pc = "read"
    /\ IF MayOperate(b.pnr, d)
       THEN req' = [req EXCEPT ![r].was = d.flight[b.pnr],
                               ![r].pc = IF b.op = "cancel" THEN "write" ELSE "flight"]
       ELSE Goto(r, "none")
    /\ UNCHANGED <<db, tx>>

(* The target flight: the row of the requested departure, else the earliest
   one. A booking also names the route, and a departure without a row is
   copied from another day of the flight ("insert"). *)
FindFlight(r) ==
    LET b == req[r].body
        named == {f \in View(r).flights : f.number = b.number /\ (b.op = "book" => f.route = b.route)}
        exact == {f \in named : f.dep = b.dep}
        found == IF b.dep = 0 THEN named ELSE exact
        next == IF b.op = "book" THEN "pnr" ELSE IF b.op = "standby" THEN "code" ELSE "write"
    IN /\ req[r].pc = "flight"
       /\ \/ /\ found # {}
             /\ req' = [req EXCEPT ![r].row = Earliest(found), ![r].pc = next]
          \/ /\ found = {} /\ b.op = "book" /\ named # {}
             /\ req' = [req EXCEPT ![r].row = [number |-> b.number, route |-> b.route, dep |-> b.dep],
                                   ![r].pc = "insert"]
          \/ /\ found = {} /\ (b.op # "book" \/ named = {})
             /\ Goto(r, "none")
       /\ UNCHANGED <<db, tx>>

(* A variant of InsertFlight that books the row it asked for without
   selecting it again. *)
InsertFlightTrusted(r) ==
    /\ req[r].pc = "insert"
    /\ Lock(r, LET d == View(r)  f == req[r].row IN
               IF \E g \in d.flights : g.number = f.number /\ g.dep = f.dep
               THEN d ELSE [d EXCEPT !.flights = @ \cup {f}])
    /\ Goto(r, "pnr")

(* INSERT OR IGNORE under UNIQUE(flight_number, departure), then the row is
   selected again: a row of another route that holds the key wins, and the
   booking is refused. *)
InsertFlight(r) ==
    LET f == req[r].row
        d == View(r)
        taken == \E g \in d.flights : g.number = f.number /\ g.dep = f.dep
        flights == IF taken THEN d.flights ELSE d.flights \cup {f}
    IN /\ req[r].pc = "insert"
       /\ Lock(r, [d EXCEPT !.flights = flights])
       /\ Goto(r, IF f \in flights THEN "pnr" ELSE "end")

(* _gen_pnr until a draw is free; eight draws that are all taken end the
   block, which commits the flight row it may have written. *)
DrawPnr(r) ==
    /\ req[r].pc = "pnr"
    /\ \/ \E p \in Pnrs \ DOMAIN View(r).flight :
            req' = [req EXCEPT ![r].p = p, ![r].pc = "write"]
       \/ DOMAIN View(r).flight # {} /\ Goto(r, "end")
    /\ UNCHANGED <<db, tx>>

(* "return None" inside the block. *)
EndEmpty(r) ==
    /\ req[r].pc = "end"
    /\ Goto(r, "none")
    /\ IF tx.owner = r THEN Commit ELSE UNCHANGED <<db, tx>>

(* The writes of the booking and its ancillaries. The UPDATEs name only the
   PNR; the INSERT fails on a PNR that was taken meanwhile. *)
Moved(d, b, p, row) ==
    [d EXCEPT !.flight[p] = row, !.seat[p] = IF b.seat = Keep THEN @ ELSE b.seat]
Cancelled(d, p) == [d EXCEPT !.status[p] = "cancelled"]
Booked(d, p, row) ==
    [d EXCEPT !.flight = Extend(@, p, row), !.status = Extend(@, p, "active"),
              !.seat = Extend(@, p, CHOOSE s \in Seats : TRUE)]
WriteBooking(r) ==
    LET b == req[r].body  p == req[r].p  d == View(r) IN
    /\ req[r].pc = "write"
    /\ b.op = "book" => p \notin DOMAIN d.flight
    /\ Lock(r, CASE b.op = "rebook" -> Moved(d, b, p, req[r].row)
                 [] b.op = "cancel" -> Cancelled(d, p)
                 [] b.op = "book" -> Booked(d, p, req[r].row))
    /\ Goto(r, "code")

(* _issue_code: a draw that is in the ledger raises IntegrityError inside
   the statement only, and is drawn again; a standby takes the lock here. *)
IssueCode(r) ==
    LET d == View(r)  b == req[r].body IN
    /\ req[r].pc = "code"
    /\ \E c \in Codes :
        IF \A k \in d.codes : k.code # c
        THEN /\ Lock(r, [d EXCEPT !.codes = @ \cup {[code |-> c, pnr |-> req[r].p, action |-> Action(b.op)]}])
             /\ req' = [req EXCEPT ![r].code = c, ![r].pc = "log"]
        ELSE /\ req[r].tries < Tries
             /\ Lock(r, d)
             /\ req' = [req EXCEPT ![r].tries = @ + 1]

(* _log_activity, and the end of the block commits. *)
LogRow(r) == [pnr |-> req[r].p, action |-> Action(req[r].body.op),
              from |-> req[r].was, to |-> req[r].row, code |-> req[r].code]
LogAndCommit(r) ==
    /\ req[r].pc = "log"
    /\ db' = [tx.db EXCEPT !.log = Append(@, LogRow(r))]
    /\ tx' = NoTx
    /\ Goto(r, "ok")

(* A variant of Raise: a connection that commits each statement. *)
RaiseAutocommitted(r) ==
    /\ req[r].pc \in {"insert", "write", "code", "log"}
    /\ Goto(r, "error")
    /\ IF tx.owner = r THEN Commit ELSE UNCHANGED <<db, tx>>

(* The block raises: the busy timeout of the lock, a PNR taken meanwhile, the
   exhausted draws of _issue_code, an error of a statement or of the disk.
   "with conn" rolls the transaction back. *)
Raise(r) ==
    /\ req[r].pc \in {"insert", "write", "code", "log"}
    /\ Goto(r, "error")
    /\ IF tx.owner = r THEN tx' = NoTx ELSE UNCHANGED tx
    /\ UNCHANGED db

Next == \E r \in Requests :
    \/ Arrive(r) \/ ReadBooking(r) \/ FindFlight(r) \/ InsertFlight(r) \/ DrawPnr(r)
    \/ EndEmpty(r) \/ WriteBooking(r) \/ IssueCode(r) \/ LogAndCommit(r) \/ Raise(r)

Spec == Init /\ [][Next]_vars

----------------------------------------------------------------------------
LogOf(p) == SelectSeq(db.log, LAMBDA e : e.pnr = p)
States == {"new", "read", "flight", "insert", "pnr", "write", "code", "log", "end", "ok", "none", "error"}
Actions == {"BOOK", "REBOOK", "CANCEL", "STANDBY"}
Tables(values) == UNION {[S -> values] : S \in SUBSET Pnrs}
Code == [code : Codes, pnr : Pnrs, action : Actions]
Database ==
    [flights : SUBSET Rows, flight : Tables(Rows), status : Tables({"active", "cancelled"}),
     seat : Tables(Seats), codes : SUBSET Code,
     log : Seq([pnr : Pnrs, action : Actions, from : Rows \cup {None}, to : Rows \cup {None},
                code : Codes])]

(* The database and what a transaction has made of it keep their types. *)
TypeOK ==
    /\ db \in Database /\ IsFiniteSet(db.codes)
    /\ tx.owner \in Requests \cup {None} /\ tx.db \in Database
    /\ req \in [Requests -> [body : Bodies \cup {None}, p : Pnrs \cup {None}, was : Rows \cup {None},
                             row : Rows \cup {None}, code : Codes \cup {None}, tries : Nat, pc : States]]

(* What the activity log says of the bookings and of the ledger of codes. *)
Logged(p, actions) == {i \in DOMAIN db.log : db.log[i].pnr = p /\ db.log[i].action \in actions}
BookingsAsLogged ==
    \A p \in DOMAIN db.flight :
        /\ db.status[p] = "cancelled" <=> Logged(p, {"CANCEL"}) # {}
        /\ LET moves == Logged(p, {"BOOK", "REBOOK"})
           IN IF moves = {} THEN p \in DOMAIN SeedBookings /\ db.flight[p] = SeedBookings[p]
              ELSE \E i \in moves : (\A k \in moves : k <= i) /\ db.flight[p] = db.log[i].to
CodesAsLogged ==
    /\ db.codes = {[code |-> db.log[i].code, pnr |-> db.log[i].pnr, action |-> db.log[i].action] :
                        i \in DOMAIN db.log}
    /\ Cardinality(db.codes) = Len(db.log)
(* api.py:6 "activity_log + confirmation_codes + pnrs updates either all land
   or all roll back": in every committed database, and whatever request failed
   half-way, a booking is cancelled exactly when the log has its cancellation,
   sits on the flight its last booking or rebooking logged, every code of the
   ledger belongs to one log row, and every answered request has its row. *)
AuditAgrees ==
    /\ BookingsAsLogged /\ CodesAsLogged
    /\ \A r \in Requests : req[r].pc = "ok" => \E i \in DOMAIN db.log : db.log[i].code = req[r].code

(* schema.sql:20 UNIQUE(flight_number, departure), and every booking sits on
   a row of the catalogue, when two bookings put the same flight on a new day
   at once. *)
FlightsKeyed ==
    /\ Keyed(db.flights)
    /\ \A p \in DOMAIN db.flight : db.flight[p] \in db.flights

(* The inductive invariant.  What a request has found out before its first
   write is still so: its booking exists, its flight is in the catalogue. *)
FoundStillThere ==
    \A r \in Requests : LET q == req[r]  b == q.body IN
        /\ q.pc # "new" => b \in Bodies
        /\ q.pc = "read" => b.op # "book" /\ q.p = b.pnr
        /\ q.pc \in {"insert", "pnr", "end"} => b.op = "book"
        /\ q.pc = "write" => b.op # "standby"
        /\ (q.pc \in {"flight", "write", "code", "log"} /\ b.op # "book") => q.p \in DOMAIN db.flight
        /\ (q.pc \in {"write", "code", "log"} /\ b.op = "book") => q.p \in Pnrs
        /\ q.pc = "insert" => q.row \in Rows
        /\ (q.pc \in {"pnr", "write", "code", "log"} /\ b.op \in {"book", "rebook"}) =>
             q.row \in View(r).flights

(* A transaction is its owner's, who has written nothing but its own booking,
   and the lock is held from the first write to the commit. *)
OwnWrites ==
    /\ \A r \in Requests : LET q == req[r] IN
         (q.pc = "log" \/ (q.pc = "code" /\ q.body.op # "standby")) => tx.owner = r
    /\ tx.owner # None =>
         LET q == req[tx.owner]  d == tx.db  op == q.body.op
             written == q.pc \in {"code", "log"}
         IN /\ q.pc \in {"pnr", "end", "write", "code", "log"}
            /\ db.flights \subseteq d.flights /\ Keyed(d.flights) /\ d.log = db.log
            /\ written /\ op = "book" => q.p \notin DOMAIN db.flight
            /\ d.flight = (CASE written /\ op = "book" -> Extend(db.flight, q.p, q.row)
                             [] written /\ op = "rebook" -> [db.flight EXCEPT ![q.p] = q.row]
                             [] OTHER -> db.flight)
            /\ d.status = (CASE written /\ op = "book" -> Extend(db.status, q.p, "active")
                             [] written /\ op = "cancel" -> [db.status EXCEPT ![q.p] = "cancelled"]
                             [] OTHER -> db.status)
            /\ DOMAIN d.seat = DOMAIN d.flight
            /\ IF q.pc = "log"
               THEN /\ \A k \in db.codes : k.code # q.code
                    /\ d.codes = db.codes \cup {[code |-> q.code, pnr |-> q.p, action |-> Action(op)]}
               ELSE d.codes = db.codes
TablesOfOneSet ==
    /\ DOMAIN db.status = DOMAIN db.flight /\ DOMAIN db.seat = DOMAIN db.flight
    /\ \A i \in DOMAIN db.log : db.log[i].pnr \in DOMAIN db.flight

Inv == TypeOK /\ TablesOfOneSet /\ AuditAgrees /\ FlightsKeyed /\ FoundStillThere /\ OwnWrites

(* api.py:381, 481 and 645: a PNR that is not active is refused, so the log
   of a booking ends with its cancellation. *)
CancelledIsFinal ==
    \A i, j \in DOMAIN db.log :
        (i < j /\ db.log[i].pnr = db.log[j].pnr) => db.log[i].action # "CANCEL"

(* schema.sql:47 "Rebook captures both from_* and to_* columns so you can
   reconstruct the route chain": each row starts where the last one ended. *)
RouteChain ==
    \A i, j \in DOMAIN db.log :
        LET same == {k \in (i + 1) .. (j - 1) : db.log[k].pnr = db.log[i].pnr
                                             /\ db.log[k].action \in {"BOOK", "REBOOK"}}
        IN (/\ i < j /\ db.log[i].pnr = db.log[j].pnr
            /\ db.log[i].action \in {"BOOK", "REBOOK"} /\ same = {})
              => db.log[j].from = db.log[i].to
====
