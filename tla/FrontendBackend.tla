---- MODULE FrontendBackend ----
(***************************************************************************)
(* The frontend/backend agent: the talker LLM delegates to a Thinker with  *)
(* the tools call_backend and cancel_backend (src/tool_handlers.py); the   *)
(* Thinker plans and runs internal tools on one session state              *)
(* (airline/thinker.py, booking_tool.py, flight_search.py, state.py) and   *)
(* books through the HTTP server of BookingDatabase (airline/backend.py).  *)
(*                                                                         *)
(* call_backend is registered with cancel_on_interruption=False, so several*)
(* handlers overlap. Everything runs on one event loop: a step here is the *)
(* code between two awaits.                                                *)
(***************************************************************************)
EXTENDS Naturals, Sequences, FiniteSets

CONSTANTS
    Calls,     \* the call_backend tool calls of a conversation
    Flights,   \* the flights of a search
    Plans,     \* the tool sequences a plan may hold (plan_tool_calls)
    Setups,    \* whether on_started awaits (a filler threshold of zero), and the
               \* bounds: the calls that come, the number of cancel_backend calls
    None

Tools == UNION {{plan[i] : i \in DOMAIN plan} : plan \in Plans}
PlansAssumption == Plans \subseteq Seq(Tools) /\ None \notin Flights

VARIABLES
    call,      \* the handler and ThinkerBackend.call of each tool call
    task,      \* the asyncio task of its _run_call
    active,    \* state.active_task
    flow,      \* the search and booking part of ThinkerSessionState
    post,      \* POST /pnrs of each call, as the server sees it
    errors,    \* consecutive_planner_errors
    cancels, stopped, \* cancel_backend calls, and the calls they were for
    setup      \* one of Setups
vars == <<call, task, active, flow, post, errors, cancels, stopped, setup>>

(* A planned tool. booking carries the slots that continue_booking reads. *)
Tool(name) == [name |-> name, sel |-> None, prefs |-> FALSE, confirmed |-> "absent"]
Booking(sel, prefs, confirmed) ==
    [name |-> "booking", sel |-> sel, prefs |-> prefs, confirmed |-> confirmed]

NoFlow == [results |-> FALSE, draft |-> None, pref |-> FALSE, conf |-> FALSE]
Ended(c) == task[c].pc \in {"done", "cancelled"}
Live(c) == call[c] \in {"waits", "starts", "runs"}

Init ==
    /\ call = [c \in Calls |-> "new"]
    /\ task = [c \in Calls |-> [pc |-> "none", todo |-> <<>>, reading |-> FALSE, cancel |-> FALSE,
                                kill |-> FALSE, prev |-> None, out |-> "hint"]]
    /\ active = None /\ flow = NoFlow
    /\ post = [c \in Calls |-> [at |-> "none", booked |-> FALSE]]
    /\ errors = 0 /\ cancels = 0 /\ stopped = {}
    /\ setup \in Setups

----------------------------------------------------------------------------
(* The booking flow: what one tool makes of the session state. *)
(* A variant of ResetBooking that keeps the flags of the dropped draft. *)
ResetDraftOnly(f) == [f EXCEPT !.draft = None]
ResetBooking(f) == [f EXCEPT !.draft = None, !.pref = FALSE, !.conf = FALSE]

(* continue_booking up to its await, in the order of its returns. *)
ContinueBooking(f, b) ==
    LET picked == b.sel \in Flights
        another == picked /\ f.draft # None /\ b.sel # f.draft
        ask == [f EXCEPT !.pref = FALSE, !.conf = TRUE]
    IN CASE ~f.results -> f
         [] f.results /\ b.sel = "unmatched" -> ResetBooking(f)
         [] f.results /\ another ->
                IF f.pref /\ ~b.prefs THEN [f EXCEPT !.draft = b.sel, !.conf = FALSE]
                ELSE [ask EXCEPT !.draft = b.sel]
         [] f.results /\ b.sel # "unmatched" /\ ~another /\ f.conf ->
                IF b.confirmed = "no" THEN ResetBooking(f) ELSE f
         [] f.results /\ b.sel # "unmatched" /\ ~another /\ ~f.conf ->
                IF f.draft = None /\ ~picked THEN f
                ELSE LET d == IF f.draft = None THEN b.sel ELSE f.draft
                     IN IF b.prefs THEN [ask EXCEPT !.draft = d]
                        ELSE [f EXCEPT !.draft = d, !.pref = TRUE]

(* The tools that await the booking server. *)
Posts(f, b) ==
    /\ b.name = "booking" /\ f.results /\ f.conf /\ f.draft # None /\ b.confirmed = "yes"
    /\ b.sel \in {None, f.draft}
Awaited(f, b) == IF Posts(f, b) THEN "post" ELSE IF b.name = "search" THEN "search" ELSE "no"

(* The mutating tools of a plan run one after the other in its order; the
   run goes on without a pause until one of them awaits.  Tools that only
   read are not in this chain. *)
Run(f, todo) ==
    LET run[i \in 0 .. Len(todo)] ==
            IF i = 0 THEN [flow |-> f, await |-> "no", n |-> 0]
            ELSE IF run[i - 1].await # "no" THEN run[i - 1]
            ELSE [flow |-> IF todo[i].name = "booking" THEN ContinueBooking(run[i - 1].flow, todo[i])
                           ELSE run[i - 1].flow,
                  await |-> Awaited(run[i - 1].flow, todo[i]), n |-> i]
    IN run
RunTools(f, todo) ==
    LET last == Run(f, todo)[Len(todo)]
    IN [flow |-> last.flow, await |-> last.await, rest |-> SubSeq(todo, last.n + 1, Len(todo))]

(* Task c goes on with the tools todo on flow f, its outcome so far out. *)
Proceed(c, f, todo, reading, out) ==
    LET r == RunTools(f, todo) IN
    /\ flow' = r.flow
    /\ task' = [task EXCEPT ![c].todo = r.rest, ![c].reading = reading, ![c].out = out,
                            ![c].pc = CASE r.await = "post" -> "posting"
                                        [] r.await = "search" -> "searching"
                                        [] r.await = "no" /\ reading -> "reading"
                                        [] r.await = "no" /\ ~reading -> "done"]
    /\ post' = [post EXCEPT ![c].at = IF r.await = "post" THEN "sent" ELSE @]

----------------------------------------------------------------------------
(* on_started awaits the filler only when the threshold is zero; then, and
   otherwise at once, the task is created. active_task is not looked at
   again. *)
Start(c) ==
    IF setup.filler
    THEN /\ call' = [call EXCEPT ![c] = "starts"]
         /\ UNCHANGED <<task, active>>
    ELSE /\ call' = [call EXCEPT ![c] = "runs"]
         /\ task' = [task EXCEPT ![c].pc = "planning"]
         /\ active' = c

(* ThinkerBackend.call of a new query: a previous task that is not done is
   cancelled and awaited. *)
CallBackend(c) ==
    /\ call[c] = "new" /\ c \in setup.calls
    /\ IF active # None /\ ~Ended(active)
       THEN /\ call' = [call EXCEPT ![c] = "waits"]
            /\ task' = [task EXCEPT ![active].cancel = TRUE, ![c].prev = active]
            /\ UNCHANGED active
       ELSE Start(c)
    /\ UNCHANGED <<flow, post, errors, cancels, stopped, setup>>

(* A query that is empty or names only past dates is answered at once. *)
RefuseQuery(c) ==
    /\ call[c] = "new" /\ c \in setup.calls
    /\ call' = [call EXCEPT ![c] = "answered"]
    /\ errors' = 0
    /\ UNCHANGED <<task, active, flow, post, cancels, stopped, setup>>

(* A variant of Waited that only a completed task wakes. *)
WaitedForResult(c) ==
    /\ call[c] = "waits" /\ task[task[c].prev].pc = "done"
    /\ Start(c)
    /\ UNCHANGED <<flow, post, errors, cancels, stopped, setup>>
(* The cancelled task has ended; its CancelledError is not the caller's. *)
Waited(c) ==
    /\ call[c] = "waits" /\ Ended(task[c].prev)
    /\ Start(c)
    /\ UNCHANGED <<flow, post, errors, cancels, stopped, setup>>

StartTask(c) ==
    /\ call[c] = "starts"
    /\ call' = [call EXCEPT ![c] = "runs"]
    /\ task' = [task EXCEPT ![c].pc = "planning"]
    /\ active' = c
    /\ UNCHANGED <<flow, post, errors, cancels, stopped, setup>>

(* The planner answers: tool calls, or none (an unsupported request). Tools
   that only read run beside the chain of those that write. *)
Planned(c) ==
    /\ task[c].pc = "planning" /\ ~task[c].cancel
    /\ \E plan \in Plans :
        Proceed(c, flow, plan, \E i \in DOMAIN plan : plan[i].name = "status", "hint")
    /\ UNCHANGED <<call, active, errors, cancels, stopped, setup>>
PlannerFails(c) ==
    /\ task[c].pc = "planning" /\ ~task[c].cancel
    /\ task' = [task EXCEPT ![c].pc = "done", ![c].out = "planner_error"]
    /\ UNCHANGED <<call, active, flow, post, errors, cancels, stopped, setup>>

(* pnr_status has its answer, or its error: it ends a task whose chain is
   done. *)
StatusRead(c) ==
    /\ task[c].reading /\ ~task[c].cancel
    /\ task' = [task EXCEPT ![c].reading = FALSE, ![c].pc = IF @ = "reading" THEN "done" ELSE @]
    /\ UNCHANGED <<call, active, flow, post, errors, cancels, stopped, setup>>

(* flight_search: flights replace the search and drop the draft; an error or
   an empty list drops both. *)
Searched(c) ==
    /\ task[c].pc = "searching" /\ ~task[c].cancel
    /\ \E found \in BOOLEAN :
        Proceed(c, [NoFlow EXCEPT !.results = found], task[c].todo, task[c].reading, task[c].out)
    /\ UNCHANGED <<call, active, errors, cancels, stopped, setup>>

(* The server handles the POST whether or not anybody still waits for it. *)
ServerBooks(c) ==
    /\ post[c].at = "sent"
    /\ \E answer \in {"booked", "refused"} :
         post' = [post EXCEPT ![c].at = answer, ![c].booked = @ \/ answer = "booked"]
    /\ UNCHANGED <<call, task, active, flow, errors, cancels, stopped, setup>>

(* _finalize_booking: success resets the flow, a 404 and any other error or
   the ten-second timeout leave the draft for another try. *)
Finalized(c) ==
    /\ task[c].pc = "posting" /\ ~task[c].cancel
    /\ \/ post[c].at = "booked"
          /\ Proceed(c, ResetBooking(flow), task[c].todo, task[c].reading, "booked")
       \/ Proceed(c, flow, task[c].todo, task[c].reading, task[c].out)
    /\ UNCHANGED <<call, active, errors, cancels, stopped, setup>>

(* CancelledError at the await the task is in. *)
TaskStops(c) ==
    /\ task[c].cancel /\ task[c].pc \in {"planning", "searching", "posting", "reading"}
    /\ task' = [task EXCEPT ![c].pc = "cancelled", ![c].todo = <<>>, ![c].reading = FALSE]
    /\ flow' = IF task[c].pc = "posting" THEN ResetBooking(flow) ELSE flow
    /\ UNCHANGED <<call, active, post, errors, cancels, stopped, setup>>

(* The handler of a task that is done: two planner errors in a row become a
   terminal answer. *)
Answered(c) ==
    /\ call[c] = "runs" /\ task[c].pc = "done" /\ ~task[c].kill
    /\ call' = [call EXCEPT ![c] = "answered"]
    /\ active' = IF active = c THEN None ELSE active
    /\ errors' = IF task[c].out = "planner_error" /\ errors = 0 THEN 1 ELSE 0
    /\ UNCHANGED <<task, flow, post, cancels, stopped, setup>>

(* The handler of a task that was aborted: suppressed, or, when Pipecat
   itself cancelled the handler, raised on to it. *)
Aborted(c) ==
    /\ call[c] = "runs" /\ Ended(c) /\ (task[c].pc = "cancelled" \/ task[c].kill)
    /\ call' = [call EXCEPT ![c] = IF task[c].kill THEN "killed" ELSE "aborted"]
    /\ active' = IF active = c THEN None ELSE active
    /\ errors' = IF task[c].kill THEN errors ELSE 0
    /\ UNCHANGED <<task, flow, post, cancels, stopped, setup>>

(* Pipecat cancels the handler at THINKER_TOOL_TIMEOUT_SECONDS; awaiting a
   task, it cancels that task with it. *)
ToolTimeout(c) ==
    /\ Live(c) /\ ~task[c].kill
    /\ IF call[c] = "runs"
       THEN task' = [task EXCEPT ![c].kill = TRUE, ![c].cancel = @ \/ ~Ended(c)] /\ UNCHANGED call
       ELSE call' = [call EXCEPT ![c] = "killed"] /\ UNCHANGED task
    /\ UNCHANGED <<active, flow, post, errors, cancels, stopped, setup>>

(* handle_cancel_backend: cancel_active, then cancel_pending_booking. *)
CancelBackend ==
    /\ cancels < setup.cancels /\ cancels' = cancels + 1
    /\ task' = IF active # None /\ ~Ended(active) THEN [task EXCEPT ![active].cancel = TRUE] ELSE task
    /\ flow' = NoFlow
    /\ errors' = 0
    /\ stopped' = stopped \cup {c \in Calls : Live(c)}
    /\ UNCHANGED <<call, active, post, setup>>

Next == CancelBackend \/ \E c \in Calls :
    \/ CallBackend(c) \/ RefuseQuery(c) \/ Waited(c) \/ StartTask(c) \/ Planned(c) \/ PlannerFails(c)
    \/ StatusRead(c) \/ Searched(c) \/ ServerBooks(c) \/ Finalized(c) \/ TaskStops(c)
    \/ Answered(c) \/ Aborted(c) \/ ToolTimeout(c)

(* The event loop runs what is ready; the planner and the booking server
   answer or fail within their client's timeout. *)
Fairness == \A c \in Calls :
    /\ WF_vars(Waited(c)) /\ WF_vars(StartTask(c))
    /\ WF_vars(Planned(c) \/ PlannerFails(c)) /\ WF_vars(StatusRead(c))
    /\ WF_vars(Searched(c)) /\ WF_vars(Finalized(c)) /\ WF_vars(TaskStops(c))
    /\ WF_vars(Answered(c) \/ Aborted(c))

Spec == Init /\ [][Next]_vars
FairSpec == Spec /\ Fairness

----------------------------------------------------------------------------
(* state.py:30 the flags and the draft of the session state, whatever calls
   overlap and wherever a cancellation strikes: a pending confirmation has a
   draft of a live search and is not also waiting for preferences, so "yes"
   never meets _finalize_booking without one; and a PNR that is read out is
   a booking of the server. *)
BookingFlowConsistent ==
    /\ ~(flow.pref /\ flow.conf)
    /\ (flow.pref \/ flow.conf) => flow.draft # None
    /\ flow.draft # None => flow.results
    /\ \A c \in Calls : task[c].out = "booked" => post[c].booked

(* What it rests on: the types. *)
TypeOK ==
    /\ flow \in [results : BOOLEAN, draft : Flights \cup {None}, pref : BOOLEAN, conf : BOOLEAN]
    /\ task \in [Calls -> [pc : {"none", "planning", "searching", "posting", "reading", "done", "cancelled"},
                           todo : Seq(Tools), reading : BOOLEAN, cancel : BOOLEAN, kill : BOOLEAN,
                           prev : Calls \cup {None}, out : {"hint", "planner_error", "booked"}]]
    /\ post \in [Calls -> [at : {"none", "sent", "booked", "refused"}, booked : BOOLEAN]]
    /\ active \in Calls \cup {None}
    /\ \A c \in Calls : post[c].at = "booked" => post[c].booked
Inv == TypeOK /\ BookingFlowConsistent

(* Every call_backend is settled: it answers, or is aborted, or is cancelled
   by Pipecat; no call waits for ever for the task before it. *)
EveryCallSettles == \A c \in Calls : Live(c) ~> ~Live(c)

(* README.md of the example, "Treat cancellation as a required path": "This
   prevents stale backend results from reaching the user later". *)
CancelStops == \A c \in stopped : call[c] # "answered"

(* One Thinker task at a time (thinker.py:81 cancels the previous one). *)
OneThinker == Cardinality({c \in Calls : task[c].pc # "none" /\ ~Ended(c)}) <= 1
====
