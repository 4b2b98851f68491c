-------------------------- MODULE MCAirline_proofs ---------------------------
(***************************************************************************)
(* What TLAPS proves of the agent, of the booking database and of the      *)
(* lookup of MCAirline, for any calls, plans and flights, for any          *)
(* requests, bookings and catalogue, and for any record locators.          *)
(***************************************************************************)
(* Induction over the naturals, for the recursions of F!Run and of the     *)
(* edit distance.                                                          *)
(***************************************************************************)
EXTENDS MCAirline, FiniteSetTheorems, SequenceTheorems, WellFoundedInduction, TLAPS

\* A nonempty set of naturals has a least element.
LEMMA Least ==
  ASSUME NEW T, T \subseteq Nat, T # {} PROVE \E x \in T : \A y \in T : x <= y
<1>1. \E x \in T : \A y \in T : ~ (<<y, x>> \in OpToRel(<,Nat))
  BY WFMin, NatLessThanWellFounded, Zenon
<1>2. PICK x \in T : \A y \in T : ~ (<<y, x>> \in OpToRel(<,Nat))
  BY <1>1
<1>3. \A y \in T : ~(y < x)
  BY <1>2 DEF OpToRel
<1> QED
  BY <1>3

\* A set that holds 0 and the successor of each of its naturals holds them all.
LEMMA Induction ==
  ASSUME NEW S, 0 \in S, \A n \in Nat : n \in S => n + 1 \in S PROVE Nat \subseteq S
<1> DEFINE T == Nat \ S
<1> SUFFICES ASSUME T # {} PROVE FALSE
  OBVIOUS
<1>1. PICK x \in T : \A y \in T : x <= y
  BY Least
<1>2. x # 0 /\ x - 1 \in Nat /\ x - 1 \notin T
  BY <1>1
<1> QED
  BY <1>1, <1>2

\* One step of a run.
First(f) == [flow |-> f, await |-> "no", n |-> 0]
Tried(last, tool, i) ==
    IF last.await # "no" THEN last
    ELSE [flow |-> IF tool.name = "booking" THEN F!ContinueBooking(last.flow, tool) ELSE last.flow,
          await |-> F!Awaited(last.flow, tool), n |-> i]

Unfolded(f, todo, run) == [i \in 0 .. Len(todo) |-> IF i = 0 THEN First(f) ELSE Tried(run[i - 1], todo[i], i)]

\* The recursion of Run has a solution: a run of n tools extends to n + 1.
LEMMA RunUnfolds ==
  ASSUME NEW f, NEW todo, Len(todo) \in Nat
  PROVE  F!Run(f, todo) = Unfolded(f, todo, F!Run(f, todo))
<1> DEFINE Next1(run, i) == IF i = 0 THEN First(f) ELSE Tried(run[i - 1], todo[i], i)
           S == {n \in Nat : \E run : run = [i \in 0 .. n |-> Next1(run, i)]}
<1>1. F!Run(f, todo) = CHOOSE run : run = [i \in 0 .. Len(todo) |-> Next1(run, i)]
  BY DEF F!Run, First, Tried
<1>2. 0 \in S
  <2> DEFINE run == [i \in 0 .. 0 |-> First(f)]
  <2>1. run = [i \in 0 .. 0 |-> Next1(run, i)]
    OBVIOUS
  <2> QED
    BY <2>1
<1>3. ASSUME NEW n \in Nat, n \in S PROVE n + 1 \in S
  <2>1. PICK run : run = [i \in 0 .. n |-> Next1(run, i)]
    BY <1>3
  <2> HIDE DEF Next1
  <2> DEFINE more == [i \in 0 .. (n + 1) |-> IF i = n + 1 THEN Next1(run, i) ELSE run[i]]
  <2>2. \A i \in 0 .. (n + 1) : i # 0 => i - 1 \in 0 .. n /\ more[i - 1] = run[i - 1]
    OBVIOUS
  <2>3. \A i \in 0 .. (n + 1) : Next1(more, i) = Next1(run, i)
    BY <2>2 DEF Next1
  <2>4. \A i \in 0 .. (n + 1) : more[i] = Next1(more, i)
    BY <2>1, <2>3
  <2>5. more = [i \in 0 .. (n + 1) |-> Next1(more, i)]
    BY <2>4
  <2> HIDE DEF more
  <2>6. \E r : r = [i \in 0 .. (n + 1) |-> Next1(r, i)]
    BY <2>5, Zenon
  <2> QED
    BY <2>6
<1>4. Len(todo) \in S
  <2> HIDE DEF S
  <2> QED
    BY <1>2, <1>3, Induction
<1>5. \E run : run = [i \in 0 .. Len(todo) |-> Next1(run, i)]
  BY <1>4
<1> HIDE DEF Next1
<1>6. F!Run(f, todo) = [i \in 0 .. Len(todo) |-> Next1(F!Run(f, todo), i)]
  BY <1>1, <1>5
<1> QED
  BY <1>6 DEF Unfolded, Next1
(***************************************************************************)
(* The agent.                                                              *)
(***************************************************************************)
\* What BookingFlowConsistent and TypeOK say of one state of the flow.
Flow == [results : BOOLEAN, draft : Flights \cup {None}, pref : BOOLEAN, conf : BOOLEAN]
Sound(f) ==
    /\ f \in Flow
    /\ ~(f.pref /\ f.conf)
    /\ (f.pref \/ f.conf) => f.draft # None
    /\ f.draft # None => f.results

\* continue_booking takes a sound flow to a sound flow, whatever the tool asks.
LEMMA BookingStaysSound ==
  ASSUME NEW f, Sound(f), NEW tool PROVE Sound(F!ContinueBooking(f, tool))
<1> USE AgentAssumption DEF F!PlansAssumption
<1> DEFINE picked == tool.sel \in Flights
           another == picked /\ f.draft # None /\ tool.sel # f.draft
<1>1. Sound(f) /\ Sound(F!ResetBooking(f))
  BY DEF Sound, Flow, F!ResetBooking
<1>2. ASSUME f.results, another
      PROVE  /\ Sound([[f EXCEPT !.pref = FALSE, !.conf = TRUE] EXCEPT !.draft = tool.sel])
             /\ f.pref => Sound([f EXCEPT !.draft = tool.sel, !.conf = FALSE])
  BY <1>2 DEF Sound, Flow
<1>3. ASSUME f.results, ~another, ~f.conf, ~(f.draft = None /\ ~picked), NEW d,
             d = IF f.draft = None THEN tool.sel ELSE f.draft
      PROVE  /\ Sound([[f EXCEPT !.pref = FALSE, !.conf = TRUE] EXCEPT !.draft = d])
             /\ Sound([f EXCEPT !.draft = d, !.pref = TRUE])
  <2>1. d \in Flights
    BY <1>3 DEF Sound, Flow
  <2> QED
    BY <1>3, <2>1 DEF Sound, Flow
<1>4. CASE ~f.results
  BY <1>1, <1>4 DEF F!ContinueBooking
<1>5. CASE f.results
  BY <1>1, <1>2, <1>3, <1>5, Zenon DEF F!ContinueBooking
<1> QED
  BY <1>4, <1>5

\* The tools of a plan, run up to the first that awaits.
LEMMA RunStaysSound ==
  ASSUME NEW f, Sound(f), NEW todo \in Seq(F!Tools)
  PROVE  /\ Sound(F!RunTools(f, todo).flow)
         /\ F!RunTools(f, todo).await \in {"no", "post", "search"}
         /\ F!RunTools(f, todo).rest \in Seq(F!Tools)
<1> DEFINE run == F!Run(f, todo)
           Fine(r, n) == Sound(r.flow) /\ r.await \in {"no", "post", "search"} /\ r.n \in 0 .. n
           S == {n \in Nat : n <= Len(todo) => Fine(run[n], n)}
<1>1. run = Unfolded(f, todo, run)
  BY RunUnfolds
<1> HIDE DEF run
<1>2. /\ run[0] = First(f)
      /\ \A i \in 1 .. Len(todo) : run[i] = Tried(run[i - 1], todo[i], i)
  BY <1>1 DEF Unfolded
<1>3. 0 \in S
  BY <1>2 DEF First
<1>4. ASSUME NEW n \in Nat, n \in S PROVE n + 1 \in S
  <2> SUFFICES ASSUME n + 1 <= Len(todo) PROVE Fine(run[n + 1], n + 1)
    OBVIOUS
  <2>1. Fine(run[n], n) /\ run[n + 1] = Tried(run[n], todo[n + 1], n + 1)
    BY <1>2, <1>4
  <2>2. CASE run[n].await # "no"
    BY <2>1, <2>2 DEF Tried
  <2>3. CASE run[n].await = "no"
    <3>1. /\ run[n + 1].flow \in {run[n].flow, F!ContinueBooking(run[n].flow, todo[n + 1])}
          /\ run[n + 1].await = F!Awaited(run[n].flow, todo[n + 1]) /\ run[n + 1].n = n + 1
      BY <2>1, <2>3 DEF Tried
    <3>2. F!Awaited(run[n].flow, todo[n + 1]) \in {"no", "post", "search"}
      BY DEF F!Awaited
    <3>3. Sound(F!ContinueBooking(run[n].flow, todo[n + 1]))
      BY <2>1, BookingStaysSound
    <3> QED
      BY <2>1, <3>1, <3>2, <3>3
  <2> QED
    BY <2>2, <2>3
<1>5. Len(todo) \in S
  <2> HIDE DEF S
  <2> QED
    BY <1>3, <1>4, Induction
<1>6. Fine(run[Len(todo)], Len(todo))
  BY <1>5
<1> DEFINE last == run[Len(todo)]
<1>7. F!RunTools(f, todo) = [flow |-> last.flow, await |-> last.await, rest |-> SubSeq(todo, last.n + 1, Len(todo))]
  BY DEF F!RunTools, run
<1>8. SubSeq(todo, last.n + 1, Len(todo)) \in Seq(F!Tools)
  BY <1>6
<1> QED
  BY <1>6, <1>7, <1>8

Task == [pc : {"none", "planning", "searching", "posting", "reading", "done", "cancelled"},
         todo : Seq(F!Tools), reading : BOOLEAN, cancel : BOOLEAN, kill : BOOLEAN,
         prev : Calls \cup {None}, out : {"hint", "planner_error", "booked"}]
Posted == [at : {"none", "sent", "booked", "refused"}, booked : BOOLEAN]

\* What Inv says, with the names above.
Agreed ==
    /\ Sound(flow) /\ task \in [Calls -> Task] /\ post \in [Calls -> Posted]
    /\ active \in Calls \cup {None}
    /\ \A c \in Calls : post[c].at = "booked" => post[c].booked
    /\ \A c \in Calls : task[c].out = "booked" => post[c].booked
LEMMA AgreedIsInv == F!Inv <=> Agreed
BY DEF F!Inv, F!TypeOK, F!BookingFlowConsistent, Agreed, Sound, Flow, Task, Posted

LEMMA AgentInit == F!Init => Agreed
<1> USE DEF F!Init
<1>1. ASSUME F!Init PROVE Sound(flow)
  BY <1>1 DEF F!NoFlow, Sound, Flow
<1>2. ASSUME F!Init
      PROVE  [pc |-> "none", todo |-> <<>>, reading |-> FALSE, cancel |-> FALSE,
              kill |-> FALSE, prev |-> None, out |-> "hint"] \in Task
  BY DEF Task
<1>3. ASSUME F!Init PROVE task \in [Calls -> Task] /\ post \in [Calls -> Posted]
  BY <1>2, <1>3 DEF Posted
<1>4. ASSUME F!Init PROVE \A c \in Calls : post[c].at = "none" /\ task[c].out = "hint"
  BY <1>4
<1> QED
  BY <1>1, <1>3, <1>4 DEF Agreed

\* A step that gives no task an outcome it did not have.
LEMMA TasksMove ==
  ASSUME Agreed, task' \in [Calls -> Task], \A c \in Calls : task'[c].out = "booked" => task[c].out = "booked",
         Sound(flow'), UNCHANGED post, active' \in Calls \cup {None}
  PROVE  Agreed'
BY DEF Agreed

LEMMA OneTaskMoves ==
  ASSUME Agreed, NEW c \in Calls, NEW t \in Task, task' = [task EXCEPT ![c] = t],
         t.out = "booked" => task[c].out = "booked",
         Sound(flow'), UNCHANGED post, active' \in Calls \cup {None}
  PROVE  Agreed'
<1>1. task \in [Calls -> Task]
  BY DEF Agreed
<1>2. task' \in [Calls -> Task] /\ \A d \in Calls : task'[d].out = "booked" => task[d].out = "booked"
  BY <1>1
<1> QED
  BY <1>2, TasksMove

\* A task that runs its tools keeps its outcome, or is booked.
LEMMA ProceedKeeps ==
  ASSUME Agreed, NEW c \in Calls, NEW f, Sound(f), NEW todo \in Seq(F!Tools), NEW reading \in BOOLEAN,
         NEW out \in {"hint", "planner_error", "booked"}, out = "booked" => post[c].booked,
         F!Proceed(c, f, todo, reading, out), UNCHANGED active
  PROVE  Agreed'
<1> DEFINE r == F!RunTools(f, todo)
           pc == CASE r.await = "post" -> "posting"
                   [] r.await = "search" -> "searching"
                   [] r.await = "no" /\ reading -> "reading"
                   [] r.await = "no" /\ ~reading -> "done"
           t == [task[c] EXCEPT !.todo = r.rest, !.reading = reading, !.out = out, !.pc = pc]
           p == [post[c] EXCEPT !.at = IF r.await = "post" THEN "sent" ELSE @]
<1>1. Sound(r.flow) /\ r.await \in {"no", "post", "search"} /\ r.rest \in Seq(F!Tools)
  BY RunStaysSound
<1>2. flow' = r.flow /\ task' = [task EXCEPT ![c] = t] /\ post' = [post EXCEPT ![c] = p]
  <2>1. flow' = r.flow
    BY DEF F!Proceed
  <2>2. post' = [post EXCEPT ![c] = p]
    BY DEF F!Proceed
  <2>3. task' = [task EXCEPT ![c] = t]
    <3>1. task' = [task EXCEPT ![c].todo = r.rest, ![c].reading = reading, ![c].out = out, ![c].pc = pc]
      BY Zenon DEF F!Proceed
    <3> HIDE DEF r, pc
    <3> QED
      BY <3>1
  <2> QED
    BY <2>1, <2>2, <2>3
<1> HIDE DEF r
<1>3. pc \in {"posting", "searching", "reading", "done"}
  BY <1>1
<1>4. task[c] \in Task /\ post[c] \in Posted /\ task \in [Calls -> Task] /\ post \in [Calls -> Posted]
  BY DEF Agreed
<1> HIDE DEF pc
<1>5. t \in Task /\ t.out = out
  BY <1>1, <1>3, <1>4 DEF Task
<1>6. p \in Posted /\ p.booked = post[c].booked /\ (p.at = "booked" => post[c].at = "booked")
  BY <1>4 DEF Posted
<1> HIDE DEF t, p
<1>7. task' \in [Calls -> Task] /\ post' \in [Calls -> Posted]
  BY <1>2, <1>4, <1>5, <1>6
<1>8. \A d \in Calls : /\ task'[d] = IF d = c THEN t ELSE task[d]
                       /\ post'[d] = IF d = c THEN p ELSE post[d]
  BY <1>2, <1>4
<1>9. \A d \in Calls : post'[d].at = "booked" => post'[d].booked
  BY <1>6, <1>8 DEF Agreed
<1>10. \A d \in Calls : task'[d].out = "booked" => post'[d].booked
  BY <1>5, <1>6, <1>8 DEF Agreed
<1> QED
  BY <1>1, <1>2, <1>7, <1>9, <1>10 DEF Agreed

LEMMA AgentStep == F!Next /\ Agreed => Agreed'
<1> SUFFICES ASSUME Agreed, F!Next PROVE Agreed'
  OBVIOUS
<1>1. /\ Sound(flow) /\ task \in [Calls -> Task] /\ post \in [Calls -> Posted]
      /\ active \in Calls \cup {None}
  BY DEF Agreed
<1>2. Sound(F!NoFlow) /\ Sound([F!NoFlow EXCEPT !.results = TRUE])
      /\ Sound([F!NoFlow EXCEPT !.results = FALSE]) /\ Sound(F!ResetBooking(flow))
  BY <1>1 DEF F!NoFlow, F!ResetBooking, Sound, Flow
<1>3. ASSUME F!CancelBackend PROVE Agreed'
  <2>1. task' \in [Calls -> Task] /\ \A c \in Calls : task'[c].out = task[c].out
    <3>1. CASE active # None /\ ~F!Ended(active)
      <4>1. active \in Calls /\ task' = [task EXCEPT ![active] = [task[active] EXCEPT !.cancel = TRUE]]
        BY <1>1, <1>3, <3>1 DEF F!CancelBackend
      <4>2. [task[active] EXCEPT !.cancel = TRUE] \in Task
        BY <1>1, <4>1 DEF Task
      <4> QED
        BY <1>1, <4>1, <4>2
    <3>2. CASE ~(active # None /\ ~F!Ended(active))
      BY <1>1, <1>3, <3>2 DEF F!CancelBackend
    <3> QED
      BY <3>1, <3>2
  <2> QED
    BY <1>1, <1>2, <1>3, <2>1, TasksMove DEF F!CancelBackend
<1>4. ASSUME NEW c \in Calls,
             \/ F!CallBackend(c) \/ F!RefuseQuery(c) \/ F!Waited(c) \/ F!StartTask(c) \/ F!Planned(c)
             \/ F!PlannerFails(c) \/ F!StatusRead(c) \/ F!Searched(c) \/ F!ServerBooks(c) \/ F!Finalized(c)
             \/ F!TaskStops(c) \/ F!Answered(c) \/ F!Aborted(c) \/ F!ToolTimeout(c)
      PROVE  Agreed'
  <2>1. task[c] \in Task
    BY <1>1
  <2>2. ASSUME F!Start(c), UNCHANGED <<flow, post>> PROVE Agreed'
    <3>1. CASE setup.filler
      BY <1>1, <2>2, <3>1, TasksMove DEF F!Start
    <3>2. CASE ~setup.filler
      <4>1. /\ [task[c] EXCEPT !.pc = "planning"] \in Task
            /\ [task[c] EXCEPT !.pc = "planning"].out = task[c].out
        BY <2>1 DEF Task
      <4>2. /\ task' = [task EXCEPT ![c] = [task[c] EXCEPT !.pc = "planning"]]
            /\ active' = c /\ UNCHANGED <<flow, post>>
        BY <2>2, <3>2 DEF F!Start
      <4> QED
        BY <1>1, <4>1, <4>2, OneTaskMoves
    <3> QED
      BY <3>1, <3>2
  <2>3. ASSUME F!CallBackend(c) PROVE Agreed'
    <3>1. CASE active # None /\ ~F!Ended(active)
      <4> DEFINE mid == [task EXCEPT ![active].cancel = TRUE]
      <4>1. active \in Calls /\ task' = [task EXCEPT ![active].cancel = TRUE, ![c].prev = active]
            /\ UNCHANGED <<active, flow, post>>
        BY <1>1, <2>3, <3>1 DEF F!CallBackend
      <4>2. [task[active] EXCEPT !.cancel = TRUE] \in Task
        BY <1>1, <4>1 DEF Task
      <4>3. mid \in [Calls -> Task] /\ \A d \in Calls : mid[d].out = task[d].out
        BY <1>1, <4>1, <4>2 DEF Task
      <4>4. task' = [mid EXCEPT ![c] = [mid[c] EXCEPT !.prev = active]]
        BY <4>1
      <4> HIDE DEF mid
      <4>5. [mid[c] EXCEPT !.prev = active] \in Task
        BY <4>1, <4>3 DEF Task
      <4>6. task' \in [Calls -> Task] /\ \A d \in Calls : task'[d].out = task[d].out
        BY <4>3, <4>4, <4>5 DEF Task
      <4> QED
        BY <1>1, <4>1, <4>6, TasksMove
    <3>2. CASE ~(active # None /\ ~F!Ended(active))
      BY <2>2, <2>3, <3>2 DEF F!CallBackend
    <3> QED
      BY <3>1, <3>2
  <2>4. ASSUME F!RefuseQuery(c) PROVE Agreed'
    BY <1>1, <2>4, TasksMove DEF F!RefuseQuery
  <2>5. ASSUME F!Waited(c) PROVE Agreed'
    BY <2>2, <2>5 DEF F!Waited
  <2>6. ASSUME F!StartTask(c) PROVE Agreed'
    <3>1. [task[c] EXCEPT !.pc = "planning"] \in Task
      BY <2>1 DEF Task
    <3> QED
      BY <1>1, <2>1, <2>6, <3>1, OneTaskMoves DEF F!StartTask, Task
  <2>7. ASSUME F!Planned(c) PROVE Agreed'
    <3>1. PICK plan \in Plans :
            F!Proceed(c, flow, plan, \E i \in DOMAIN plan : plan[i].name = "status", "hint")
      BY <2>7 DEF F!Planned
    <3>2. plan \in Seq(F!Tools) /\ (\E i \in DOMAIN plan : plan[i].name = "status") \in BOOLEAN
          /\ UNCHANGED active
      BY <2>7, AgentAssumption DEF F!PlansAssumption, F!Planned
    <3> QED
      BY <1>1, <3>1, <3>2, ProceedKeeps
  <2>8. ASSUME F!PlannerFails(c) PROVE Agreed'
    <3>1. [task[c] EXCEPT !.pc = "done", !.out = "planner_error"] \in Task
      BY <2>1 DEF Task
    <3>2. task' = [task EXCEPT ![c] = [task[c] EXCEPT !.pc = "done", !.out = "planner_error"]]
      BY <2>8 DEF F!PlannerFails
    <3>3. [task[c] EXCEPT !.pc = "done", !.out = "planner_error"].out = "planner_error"
      BY <2>1 DEF Task
    <3> QED
      BY <1>1, <2>8, <3>1, <3>2, <3>3, OneTaskMoves DEF F!PlannerFails
  <2>9. ASSUME F!StatusRead(c) PROVE Agreed'
    <3> DEFINE t == [task[c] EXCEPT !.reading = FALSE, !.pc = IF @ = "reading" THEN "done" ELSE @]
    <3>1. t \in Task /\ t.out = task[c].out
      BY <2>1 DEF Task
    <3>2. task' = [task EXCEPT ![c] = t]
      BY <2>9 DEF F!StatusRead
    <3> HIDE DEF t
    <3> QED
      BY <1>1, <2>9, <3>1, <3>2, OneTaskMoves DEF F!StatusRead
  <2>10. ASSUME F!Searched(c) PROVE Agreed'
    <3>1. PICK found \in BOOLEAN :
            F!Proceed(c, [F!NoFlow EXCEPT !.results = found], task[c].todo, task[c].reading, task[c].out)
      BY <2>10 DEF F!Searched
    <3>2. Sound([F!NoFlow EXCEPT !.results = found])
      BY <1>2
    <3>3. /\ task[c].todo \in Seq(F!Tools) /\ task[c].reading \in BOOLEAN
          /\ task[c].out \in {"hint", "planner_error", "booked"}
          /\ task[c].out = "booked" => post[c].booked
      BY <2>1 DEF Task, Agreed
    <3> QED
      BY <2>10, <3>1, <3>2, <3>3, ProceedKeeps DEF F!Searched
  <2>11. ASSUME F!ServerBooks(c) PROVE Agreed'
    <3>1. PICK answer \in {"booked", "refused"} :
            post' = [post EXCEPT ![c].at = answer, ![c].booked = @ \/ answer = "booked"]
      BY <2>11 DEF F!ServerBooks
    <3> DEFINE p == [post[c] EXCEPT !.at = answer, !.booked = @ \/ answer = "booked"]
    <3>2. post' = [post EXCEPT ![c] = p]
      BY <3>1
    <3>3. p.at = answer /\ p.booked = (post[c].booked \/ answer = "booked") /\ p \in Posted
      BY <1>1 DEF Posted
    <3> HIDE DEF p
    <3>4. post' \in [Calls -> Posted] /\ \A d \in Calls : post'[d] = IF d = c THEN p ELSE post[d]
      BY <1>1, <3>2, <3>3
    <3>5. \A d \in Calls : post'[d].at = "booked" => post'[d].booked
      BY <3>3, <3>4 DEF Agreed
    <3>6. \A d \in Calls : post[d].booked => post'[d].booked
      BY <3>3, <3>4
    <3> QED
      BY <2>11, <3>4, <3>5, <3>6 DEF Agreed, F!ServerBooks
  <2>12. ASSUME F!Finalized(c) PROVE Agreed'
    <3>1. /\ task[c].todo \in Seq(F!Tools) /\ task[c].reading \in BOOLEAN
          /\ task[c].out \in {"hint", "planner_error", "booked"}
          /\ task[c].out = "booked" => post[c].booked
          /\ UNCHANGED active
      BY <2>1, <2>12 DEF Task, Agreed, F!Finalized
    <3>2. CASE post[c].at = "booked"
               /\ F!Proceed(c, F!ResetBooking(flow), task[c].todo, task[c].reading, "booked")
      <4>1. post[c].booked
        BY <3>2 DEF Agreed
      <4> QED
        BY <1>2, <3>1, <3>2, <4>1, ProceedKeeps
    <3>3. CASE F!Proceed(c, flow, task[c].todo, task[c].reading, task[c].out)
      BY <1>1, <3>1, <3>3, ProceedKeeps
    <3> QED
      BY <2>12, <3>2, <3>3 DEF F!Finalized
  <2>13. ASSUME F!TaskStops(c) PROVE Agreed'
    <3> DEFINE t == [task[c] EXCEPT !.pc = "cancelled", !.todo = <<>>, !.reading = FALSE]
    <3>1. t \in Task /\ t.out = task[c].out
      <4>1. <<>> \in Seq(F!Tools)
        OBVIOUS
      <4> QED
        BY <2>1, <4>1 DEF Task
    <3>2. task' = [task EXCEPT ![c] = t] /\ Sound(flow') /\ UNCHANGED <<post, active>>
      BY <1>1, <1>2, <2>13 DEF F!TaskStops
    <3> HIDE DEF t
    <3> QED
      BY <1>1, <3>1, <3>2, OneTaskMoves
  <2>14. ASSUME F!Answered(c) \/ F!Aborted(c) PROVE Agreed'
    <3>1. active' \in Calls \cup {None} /\ UNCHANGED <<task, flow, post>>
      BY <1>1, <2>14 DEF F!Answered, F!Aborted
    <3> QED
      BY <1>1, <3>1, TasksMove
  <2>15. ASSUME F!ToolTimeout(c) PROVE Agreed'
    <3>1. CASE call[c] = "runs"
      <4> DEFINE t == [task[c] EXCEPT !.kill = TRUE, !.cancel = @ \/ ~F!Ended(c)]
      <4>1. t \in Task /\ t.out = task[c].out
        BY <2>1 DEF Task, F!Ended
      <4>2. task' = [task EXCEPT ![c] = t]
        BY <2>15, <3>1 DEF F!ToolTimeout
      <4> HIDE DEF t
      <4> QED
        BY <1>1, <2>15, <4>1, <4>2, OneTaskMoves DEF F!ToolTimeout
    <3>2. CASE call[c] # "runs"
      BY <1>1, <2>15, <3>2, TasksMove DEF F!ToolTimeout
    <3> QED
      BY <3>1, <3>2
  <2> QED
    BY <1>4, <2>3, <2>4, <2>5, <2>6, <2>7, <2>8, <2>9, <2>10, <2>11, <2>12, <2>13, <2>14, <2>15
<1> QED
  BY <1>3, <1>4 DEF F!Next

\* The flags and the draft of the session state agree whatever calls overlap and
\* wherever a cancellation strikes, for any plans, calls and flights, and a PNR
\* that is read out is a booking of the server (state.py:30 of the agent).
THEOREM BookingFlow == Spec => []BookingFlowConsistent
<1> DEFINE Safe == component = "agent" => Agreed
<1>1. Init => Safe
  BY AgentInit DEF Init
<1>2. Safe /\ [Next]_vars => Safe'
  <2> SUFFICES ASSUME Safe, [Next]_vars, component' = "agent" PROVE Agreed'
    OBVIOUS
  <2>1. CASE component = "agent" /\ F!Next
    BY <2>1, AgentStep
  <2>2. CASE component = "agent" /\ UNCHANGED vars
    BY <2>2 DEF vars, varsF, Agreed
  <2> QED
    BY <2>1, <2>2 DEF Next, vars
<1>3. Safe => BookingFlowConsistent
  BY AgreedIsInv DEF BookingFlowConsistent, F!Inv
<1> QED
  BY <1>1, <1>2, <1>3, PTL DEF Spec

(***************************************************************************)
(* The booking database.                                                   *)
(***************************************************************************)
Request == [body : D!Bodies \cup {None}, p : Pnrs \cup {None}, was : D!Rows \cup {None},
            row : D!Rows \cup {None}, code : Codes \cup {None}, tries : Nat, pc : D!States]

\* What FoundStillThere says of one request: its booking is among booked, its
\* flight among flights.
Found(q, flights, booked) ==
    /\ q.pc # "new" => q.body \in D!Bodies
    /\ q.pc = "read" => q.body.op # "book" /\ q.p = q.body.pnr
    /\ q.pc \in {"insert", "pnr", "end"} => q.body.op = "book"
    /\ q.pc = "write" => q.body.op # "standby"
    /\ (q.pc \in {"flight", "write", "code", "log"} /\ q.body.op # "book") => q.p \in booked
    /\ (q.pc \in {"write", "code", "log"} /\ q.body.op = "book") => q.p \in Pnrs
    /\ q.pc = "insert" => q.row \in D!Rows
    /\ (q.pc \in {"pnr", "write", "code", "log"} /\ q.body.op \in {"book", "rebook"}) => q.row \in flights

\* What OwnWrites says: who must hold the lock, and what its owner has written.
MustOwn(q) == q.pc = "log" \/ (q.pc = "code" /\ q.body.op # "standby")
Written(q, op) == q.pc \in {"code", "log"} /\ q.body.op = op
Wrote(q, d) ==
    /\ q.pc \in {"pnr", "end", "write", "code", "log"}
    /\ db.flights \subseteq d.flights /\ D!Keyed(d.flights) /\ d.log = db.log
    /\ Written(q, "book") => q.p \notin DOMAIN db.flight
    /\ d.flight = (CASE Written(q, "book") -> D!Extend(db.flight, q.p, q.row)
                     [] Written(q, "rebook") -> [db.flight EXCEPT ![q.p] = q.row]
                     [] OTHER -> db.flight)
    /\ d.status = (CASE Written(q, "book") -> D!Extend(db.status, q.p, "active")
                     [] Written(q, "cancel") -> [db.status EXCEPT ![q.p] = "cancelled"]
                     [] OTHER -> db.status)
    /\ DOMAIN d.seat = DOMAIN d.flight
    /\ IF q.pc = "log"
       THEN /\ \A k \in db.codes : k.code # q.code
            /\ d.codes = db.codes \cup {[code |-> q.code, pnr |-> q.p, action |-> D!Action(q.body.op)]}
       ELSE d.codes = db.codes

\* The committed database by itself, and the invariant in these names.
Committed ==
    /\ db \in D!Database /\ IsFiniteSet(db.codes)
    /\ D!TablesOfOneSet /\ D!BookingsAsLogged /\ D!CodesAsLogged /\ D!FlightsKeyed
Audited ==
    /\ Committed
    /\ tx.owner \in Requests \cup {None} /\ tx.db \in D!Database
    /\ req \in [Requests -> Request]
    /\ \A r \in Requests : req[r].pc = "ok" => \E i \in DOMAIN db.log : db.log[i].code = req[r].code
    /\ \A r \in Requests : Found(req[r], D!View(r).flights, DOMAIN db.flight)
    /\ \A r \in Requests : MustOwn(req[r]) => tx.owner = r
    /\ tx.owner # None => Wrote(req[tx.owner], tx.db)

\* The operators of FiniteSets that the instance uses are those of the standard module.
LEMMA SameSizes == \A S : (D!IsFiniteSet(S) <=> IsFiniteSet(S)) /\ D!Cardinality(S) = Cardinality(S)
<1>1. \A S : D!IsFiniteSet(S) <=> IsFiniteSet(S)
  BY DEF D!IsFiniteSet, IsFiniteSet
<1>2. \A S : D!Cardinality(S) = Cardinality(S)
  BY Zenon DEF D!Cardinality, Cardinality
<1> QED
  BY <1>1, <1>2

LEMMA AuditedIsInv == D!Inv <=> Audited
<1>1. D!FoundStillThere <=> \A r \in Requests : Found(req[r], D!View(r).flights, DOMAIN db.flight)
  BY DEF D!FoundStillThere, Found
<1>2. D!OwnWrites <=> /\ \A r \in Requests : MustOwn(req[r]) => tx.owner = r
                      /\ tx.owner # None => Wrote(req[tx.owner], tx.db)
  BY Zenon DEF D!OwnWrites, MustOwn, Wrote, Written
<1>3. D!AuditAgrees <=>
        /\ D!BookingsAsLogged /\ D!CodesAsLogged
        /\ \A r \in Requests : req[r].pc = "ok" => \E i \in DOMAIN db.log : db.log[i].code = req[r].code
  BY DEF D!AuditAgrees
<1>4. D!TypeOK <=> /\ db \in D!Database /\ IsFiniteSet(db.codes)
                   /\ tx.owner \in Requests \cup {None} /\ tx.db \in D!Database
                   /\ req \in [Requests -> Request]
  BY SameSizes DEF D!TypeOK, Request
<1> QED
  BY <1>1, <1>2, <1>3, <1>4 DEF D!Inv, Audited, Committed

\* Tables of bookings.
LEMMA TableIs ==
  ASSUME NEW V, NEW f PROVE f \in D!Tables(V) <=> DOMAIN f \subseteq Pnrs /\ f \in [DOMAIN f -> V]
<1>1. ASSUME f \in D!Tables(V) PROVE DOMAIN f \subseteq Pnrs /\ f \in [DOMAIN f -> V]
  <2>1. PICK S \in SUBSET Pnrs : f \in [S -> V]
    BY <1>1 DEF D!Tables
  <2> QED
    BY <2>1
<1>2. ASSUME DOMAIN f \subseteq Pnrs, f \in [DOMAIN f -> V] PROVE f \in D!Tables(V)
  BY <1>2 DEF D!Tables
<1> QED
  BY <1>1, <1>2
LEMMA TableExcept ==
  ASSUME NEW V, NEW f \in D!Tables(V), NEW p, NEW v \in V
  PROVE  [f EXCEPT ![p] = v] \in D!Tables(V) /\ DOMAIN [f EXCEPT ![p] = v] = DOMAIN f
BY TableIs
LEMMA TableExtend ==
  ASSUME NEW V, NEW f \in D!Tables(V), NEW p \in Pnrs, NEW v \in V
  PROVE  /\ D!Extend(f, p, v) \in D!Tables(V)
         /\ DOMAIN D!Extend(f, p, v) = DOMAIN f \cup {p}
<1>1. DOMAIN f \subseteq Pnrs /\ f \in [DOMAIN f -> V]
  BY TableIs
<1>2. D!Extend(f, p, v) \in [DOMAIN f \cup {p} -> V]
  BY <1>1 DEF D!Extend
<1>3. DOMAIN D!Extend(f, p, v) = DOMAIN f \cup {p}
  BY DEF D!Extend
<1>4. DOMAIN f \cup {p} \subseteq Pnrs
  BY <1>1
<1> QED
  BY <1>2, <1>3, <1>4, TableIs

\* ORDER BY departure LIMIT 1 is one of the rows.
LEMMA EarliestIsOne ==
  ASSUME NEW rs, rs \subseteq D!Rows, rs # {} PROVE D!Earliest(rs) \in rs
<1> USE DatabaseAssumption DEF D!SeedAssumption
<1> DEFINE deps == {f.dep : f \in rs}
<1>1. deps \subseteq Nat /\ deps # {}
  BY DEF D!Rows
<1>2. PICK x \in deps : \A y \in deps : x <= y
  BY <1>1, Least
<1>3. \E f \in rs : \A g \in rs : f.dep <= g.dep
  BY <1>2
<1> QED
  BY <1>3, Zenon DEF D!Earliest

LEMMA SeedIsDatabase == D!Seed \in D!Database
<1> USE DatabaseAssumption DEF D!SeedAssumption
<1>1. (CHOOSE s \in Seats : TRUE) \in Seats
  OBVIOUS
<1>2. SeedBookings \in D!Tables(D!Rows)
  BY TableIs
<1>3. [p \in DOMAIN SeedBookings |-> "active"] \in D!Tables({"active", "cancelled"})
  BY TableIs
<1>4. [p \in DOMAIN SeedBookings |-> CHOOSE s \in Seats : TRUE] \in D!Tables(Seats)
  BY <1>1, TableIs
<1> QED
  BY <1>2, <1>3, <1>4 DEF D!Seed, D!Database

LEMMA DatabaseInit == D!Init => Audited
<1> SUFFICES ASSUME D!Init PROVE Audited
  OBVIOUS
<1> USE DatabaseAssumption DEF D!SeedAssumption
<1>2. D!Seed \in D!Database
  BY SeedIsDatabase
<1>3. /\ db.flights = SeedFlights /\ db.flight = SeedBookings /\ db.codes = {} /\ db.log = <<>>
      /\ db.status = [p \in DOMAIN SeedBookings |-> "active"] /\ DOMAIN db.seat = DOMAIN SeedBookings
  BY DEF D!Init, D!Seed
<1>4. IsFiniteSet(db.codes) /\ Cardinality(db.codes) = Len(db.log)
  BY <1>3, FS_EmptySet
<1>5. \A p, acts : D!Logged(p, acts) = {}
  BY <1>3 DEF D!Logged
<1>6. D!TablesOfOneSet /\ D!BookingsAsLogged /\ D!FlightsKeyed
  BY <1>3, <1>5 DEF D!TablesOfOneSet, D!BookingsAsLogged, D!FlightsKeyed
<1>7. D!CodesAsLogged
  BY <1>3, <1>4, SameSizes DEF D!CodesAsLogged
<1>8. D!NoRequest \in Request /\ D!NoRequest.pc = "new"
  BY DEF D!NoRequest, Request, D!States
<1>9. \A r \in Requests : req[r] = D!NoRequest
  BY DEF D!Init
<1>10. req \in [Requests -> Request]
  BY <1>8 DEF D!Init
<1>11. \A r \in Requests : Found(req[r], D!View(r).flights, DOMAIN db.flight) /\ ~MustOwn(req[r])
  BY <1>8, <1>9 DEF Found, MustOwn
<1>12. tx.owner = None /\ tx.db = D!Seed /\ db = D!Seed
  BY DEF D!Init, D!NoTx
<1> QED
  BY <1>2, <1>4, <1>6, <1>7, <1>8, <1>9, <1>10, <1>11, <1>12 DEF Audited, Committed

\* A step of request r that commits nothing: it takes the lock, keeps it,
\* releases it or does without.
LEMMA RequestSteps ==
  ASSUME Audited, NEW r \in Requests, NEW q \in Request, req' = [req EXCEPT ![r] = q], UNCHANGED db,
         tx'.owner \in Requests \cup {None}, tx'.db \in D!Database,
         tx' = tx \/ (tx.owner \in {None, r} /\ tx'.owner \in {None, r}),
         Found(q, D!View(r)'.flights, DOMAIN db.flight), MustOwn(q) => tx'.owner = r,
         tx'.owner = r => Wrote(q, tx'.db), q.pc # "ok"
  PROVE  Audited'
<1> USE DatabaseAssumption DEF D!SeedAssumption
<1>1. req \in [Requests -> Request]
  BY DEF Audited
<1>2. req' \in [Requests -> Request] /\ \A s \in Requests : req'[s] = IF s = r THEN q ELSE req[s]
  BY <1>1
<1>3. Committed'
  <2>1. \A p, acts : D!Logged(p, acts)' = D!Logged(p, acts)
    BY DEF D!Logged
  <2>2. D!TablesOfOneSet' /\ D!FlightsKeyed'
    BY DEF Audited, Committed, D!TablesOfOneSet, D!FlightsKeyed
  <2>3. D!BookingsAsLogged'
    BY <2>1 DEF Audited, Committed, D!BookingsAsLogged
  <2>4. D!CodesAsLogged'
    BY DEF Audited, Committed, D!CodesAsLogged
  <2> QED
    BY <2>2, <2>3, <2>4 DEF Audited, Committed
<1>4. \A s \in Requests \ {r} : D!View(s)' = D!View(s)
  BY DEF D!View
<1>5. ASSUME NEW s \in Requests PROVE Found(req'[s], D!View(s)'.flights, DOMAIN db'.flight)
  BY <1>2, <1>4 DEF Audited
<1>6. ASSUME NEW s \in Requests, MustOwn(req'[s]) PROVE tx'.owner = s
  BY <1>2, <1>6 DEF Audited
<1>7. ASSUME tx'.owner # None PROVE Wrote(req'[tx'.owner], tx'.db)
  BY <1>2, <1>7 DEF Audited
<1>8. ASSUME NEW s \in Requests, req'[s].pc = "ok"
      PROVE  \E i \in DOMAIN db'.log : db'.log[i].code = req'[s].code
  BY <1>2, <1>8 DEF Audited
<1>9. (\A s \in Requests : Found(req[s], D!View(s).flights, DOMAIN db.flight))'
  BY <1>5
<1>10. (tx.owner # None => Wrote(req[tx.owner], tx.db))'
  BY <1>7 DEF Wrote
<1>11. (\A s \in Requests : MustOwn(req[s]) => tx.owner = s)'
  BY <1>6
<1> QED
  BY <1>2, <1>3, <1>8, <1>9, <1>10, <1>11 DEF Audited

\* A step of request r that commits what its transaction wrote.
LEMMA RequestCommits ==
  ASSUME Audited, NEW r \in Requests, NEW q \in Request, req' = [req EXCEPT ![r] = q],
         tx.owner = r, tx' = D!NoTx, D!Seed \in D!Database, Committed',
         db.flights \subseteq db'.flights, DOMAIN db.flight \subseteq DOMAIN db'.flight,
         \A i \in DOMAIN db.log : i \in DOMAIN db'.log /\ db'.log[i] = db.log[i],
         q.pc \in {"ok", "none"}, q.body \in D!Bodies,
         q.pc = "ok" => \E i \in DOMAIN db'.log : db'.log[i].code = q.code
  PROVE  Audited'
<1> USE DatabaseAssumption DEF D!SeedAssumption
<1>1. req \in [Requests -> Request]
  BY DEF Audited
<1>2. req' \in [Requests -> Request] /\ \A s \in Requests : req'[s] = IF s = r THEN q ELSE req[s]
  BY <1>1
<1>3. tx'.owner = None /\ tx'.db \in D!Database
  BY DEF D!NoTx
<1>4. \A s \in Requests \ {r} : ~MustOwn(req[s]) /\ D!View(s) = db
  BY DEF Audited, D!View
<1>5. \A s \in Requests : D!View(s)' = db'
  BY <1>3 DEF D!View
<1>6. Found(q, db'.flights, DOMAIN db'.flight) /\ ~MustOwn(q)
  BY DEF Found, MustOwn
<1>7. ASSUME NEW s \in Requests PROVE Found(req'[s], D!View(s)'.flights, DOMAIN db'.flight)
  <2>1. CASE s = r
    BY <1>2, <1>5, <1>6, <2>1
  <2>2. CASE s # r
    <3>1. Found(req[s], db.flights, DOMAIN db.flight)
      BY <1>4, <2>2 DEF Audited
    <3>2. Found(req[s], db'.flights, DOMAIN db'.flight)
      BY <3>1 DEF Found
    <3> QED
      BY <1>2, <1>5, <2>2, <3>2
  <2> QED
    BY <2>1, <2>2
<1>8. ASSUME NEW s \in Requests PROVE ~MustOwn(req'[s])
  BY <1>2, <1>4, <1>6
<1>9. ASSUME NEW s \in Requests, req'[s].pc = "ok"
      PROVE  \E i \in DOMAIN db'.log : db'.log[i].code = req'[s].code
  BY <1>2, <1>9 DEF Audited
<1>10. (\A s \in Requests : Found(req[s], D!View(s).flights, DOMAIN db.flight))'
  BY <1>7
<1>11. (\A s \in Requests : MustOwn(req[s]) => tx.owner = s)'
  BY <1>8
<1> QED
  BY <1>2, <1>3, <1>9, <1>10, <1>11 DEF Audited

\* What a body asks for.
LEMMA BodyFacts ==
  ASSUME NEW b \in D!Bodies
  PROVE  /\ b.op \in {"rebook", "standby", "cancel", "book"} /\ D!Action(b.op) \in D!Actions
         /\ b.op # "book" => b.pnr \in Pnrs
         /\ b.op = "book" => b.pnr = None /\ b.number \in Numbers /\ b.route \in Routes
         /\ b.dep \in (1 .. Days) \cup {0} /\ b.seat \in Seats \cup {D!Keep}
BY DEF D!Bodies, D!Action, D!Actions, D!Keep

\* The database as its fields, and what r reads.
LEMMA ViewFacts ==
  ASSUME Audited, NEW r \in Requests
  PROVE  LET d == D!View(r) IN
         /\ d \in D!Database /\ d.flights \subseteq D!Rows /\ D!Keyed(d.flights) /\ d.log = db.log
         /\ db.flights \subseteq d.flights
         /\ d.flight \in D!Tables(D!Rows) /\ d.status \in D!Tables({"active", "cancelled"})
         /\ d.seat \in D!Tables(Seats) /\ DOMAIN d.seat = DOMAIN d.flight
         /\ req[r].pc \notin {"code", "log"} => d.flight = db.flight /\ d.status = db.status
         /\ req[r].pc # "log" => d.codes = db.codes
<1> USE DatabaseAssumption DEF D!SeedAssumption
<1>1. CASE tx.owner = r
  <2>1. D!View(r) = tx.db /\ Wrote(req[r], tx.db) /\ tx.db \in D!Database
    BY <1>1 DEF Audited, D!View
  <2> QED
    BY <2>1 DEF Wrote, Written, D!Database
<1>2. CASE tx.owner # r
  BY <1>2 DEF D!View, Audited, Committed, D!Database, D!TablesOfOneSet, D!FlightsKeyed
<1> QED
  BY <1>1, <1>2

LEMMA Arrives == ASSUME Audited, NEW r \in Requests, D!Arrive(r) PROVE Audited'
<1> USE DatabaseAssumption DEF D!SeedAssumption
<1>1. PICK b \in D!Bodies :
        req' = [req EXCEPT ![r] = [body |-> b, p |-> b.pnr, was |-> None, row |-> None, code |-> None,
                                   tries |-> 0, pc |-> IF b.op = "book" THEN "flight" ELSE "read"]]
  BY DEF D!Arrive
<1> DEFINE q == [body |-> b, p |-> b.pnr, was |-> None, row |-> None, code |-> None,
                 tries |-> 0, pc |-> IF b.op = "book" THEN "flight" ELSE "read"]
<1>2. q \in Request
  BY BodyFacts DEF Request, D!States
<1>3. Found(q, D!View(r)'.flights, DOMAIN db.flight) /\ ~MustOwn(q) /\ q.pc # "ok"
  BY DEF Found, MustOwn
<1>4. tx.owner # r
  BY DEF Audited, Wrote, D!Arrive
<1>5. UNCHANGED <<db, tx>>
  BY DEF D!Arrive
<1> HIDE DEF q
<1> QED
  BY <1>1, <1>2, <1>3, <1>4, <1>5, RequestSteps DEF q, Audited

\* A step that moves r from one place to another without the lock.
LEMMA Moves ==
  ASSUME Audited, NEW r \in Requests, NEW q \in Request, req' = [req EXCEPT ![r] = q],
         UNCHANGED <<db, tx>>, Found(q, D!View(r).flights, DOMAIN db.flight),
         ~MustOwn(q), tx.owner = r => Wrote(q, tx.db), q.pc # "ok"
  PROVE  Audited'
<1>1. D!View(r)' = D!View(r)
  BY DEF D!View
<1>2. tx.owner \in Requests \cup {None} /\ tx.db \in D!Database
  BY DEF Audited
<1> QED
  BY <1>1, <1>2, RequestSteps

LEMMA ReadsBooking == ASSUME Audited, NEW r \in Requests, D!ReadBooking(r) PROVE Audited'
<1> USE DatabaseAssumption DEF D!SeedAssumption
<1> DEFINE b == req[r].body
           d == D!View(r)
<1>1. req[r] \in Request /\ req[r].pc = "read" /\ tx.owner # r /\ UNCHANGED <<db, tx>>
  BY DEF Audited, Wrote, D!ReadBooking
<1>2. d = db
  BY <1>1 DEF D!View
<1>3. d.flight \in D!Tables(D!Rows) /\ Found(req[r], d.flights, DOMAIN db.flight)
  BY ViewFacts DEF Audited
<1>4. b \in D!Bodies /\ b.op # "book" /\ req[r].p = b.pnr
  BY <1>1, <1>3 DEF Found
<1>5. CASE D!MayOperate(b.pnr, d)
  <2> DEFINE q == [req[r] EXCEPT !.was = d.flight[b.pnr], !.pc = IF b.op = "cancel" THEN "write" ELSE "flight"]
  <2>1. req' = [req EXCEPT ![r] = q]
    BY <1>5, Zenon DEF D!ReadBooking
  <2>2. b.pnr \in DOMAIN db.flight /\ d.flight[b.pnr] \in D!Rows
    BY <1>2, <1>3, <1>5, TableIs DEF D!MayOperate
  <2>3. /\ q \in Request /\ q.pc \in {"write", "flight"} /\ (q.pc = "write" => b.op = "cancel")
        /\ q.p = b.pnr /\ q.body = b
    BY <1>1, <1>4, <2>2 DEF Request, D!States
  <2> HIDE DEF q
  <2>4. Found(q, d.flights, DOMAIN db.flight) /\ ~MustOwn(q)
    BY <1>4, <2>2, <2>3 DEF Found, MustOwn
  <2> QED
    BY <1>1, <2>1, <2>3, <2>4, Moves
<1>6. CASE ~D!MayOperate(b.pnr, d)
  <2> DEFINE q == [req[r] EXCEPT !.pc = "none"]
  <2>1. req' = [req EXCEPT ![r] = q]
    BY <1>6 DEF D!ReadBooking, D!Goto
  <2>2. q \in Request /\ q.pc = "none" /\ q.body = b
    BY <1>1 DEF Request, D!States
  <2> HIDE DEF q
  <2>3. Found(q, d.flights, DOMAIN db.flight) /\ ~MustOwn(q)
    BY <1>4, <2>2 DEF Found, MustOwn
  <2> QED
    BY <1>1, <2>1, <2>2, <2>3, Moves
<1> QED
  BY <1>5, <1>6

LEMMA FindsFlight == ASSUME Audited, NEW r \in Requests, D!FindFlight(r) PROVE Audited'
<1> USE DatabaseAssumption DEF D!SeedAssumption
<1> DEFINE b == req[r].body
           d == D!View(r)
           named == {f \in d.flights : f.number = b.number /\ (b.op = "book" => f.route = b.route)}
           exact == {f \in named : f.dep = b.dep}
           found == IF b.dep = 0 THEN named ELSE exact
           next == IF b.op = "book" THEN "pnr" ELSE IF b.op = "standby" THEN "code" ELSE "write"
<1>1. req[r] \in Request /\ req[r].pc = "flight" /\ tx.owner # r /\ UNCHANGED <<db, tx>>
  BY DEF Audited, Wrote, D!FindFlight
<1>2. d.flights \subseteq D!Rows /\ Found(req[r], d.flights, DOMAIN db.flight)
  BY ViewFacts DEF Audited
<1>3. b \in D!Bodies /\ (b.op # "book" => req[r].p \in DOMAIN db.flight)
  BY <1>1, <1>2 DEF Found
<1>4. \/ found # {} /\ req' = [req EXCEPT ![r].row = D!Earliest(found), ![r].pc = next]
      \/ /\ found = {} /\ b.op = "book" /\ named # {}
         /\ req' = [req EXCEPT ![r].row = [number |-> b.number, route |-> b.route, dep |-> b.dep],
                               ![r].pc = "insert"]
      \/ D!Goto(r, "none")
  BY Zenon DEF D!FindFlight
<1>5. found \subseteq d.flights /\ (found = {} /\ named # {} => b.dep # 0)
  OBVIOUS
<1> HIDE DEF found, named
<1>6. CASE found # {} /\ req' = [req EXCEPT ![r].row = D!Earliest(found), ![r].pc = next]
  <2> DEFINE q == [req[r] EXCEPT !.row = D!Earliest(found), !.pc = next]
  <2>1. req' = [req EXCEPT ![r] = q]
    BY <1>6
  <2>2. D!Earliest(found) \in d.flights
    BY <1>2, <1>5, <1>6, EarliestIsOne
  <2>3. /\ q \in Request /\ q.body = b /\ q.p = req[r].p /\ q.row = D!Earliest(found) /\ q.pc = next
    BY <1>1, <1>2, <2>2 DEF Request, D!States
  <2> HIDE DEF q
  <2>4. Found(q, d.flights, DOMAIN db.flight) /\ ~MustOwn(q) /\ q.pc # "ok"
    BY <1>3, <2>2, <2>3, BodyFacts DEF Found, MustOwn
  <2> QED
    BY <1>1, <2>1, <2>3, <2>4, Moves
<1>7. CASE /\ found = {} /\ b.op = "book" /\ named # {}
           /\ req' = [req EXCEPT ![r].row = [number |-> b.number, route |-> b.route, dep |-> b.dep],
                                 ![r].pc = "insert"]
  <2> DEFINE row == [number |-> b.number, route |-> b.route, dep |-> b.dep]
             q == [req[r] EXCEPT !.row = row, !.pc = "insert"]
  <2>1. req' = [req EXCEPT ![r] = q]
    BY <1>7
  <2>2. row \in D!Rows
    BY <1>3, <1>5, <1>7, BodyFacts DEF D!Rows
  <2>3. /\ q \in Request /\ q.body = b /\ q.row = row /\ q.pc = "insert"
    BY <1>1, <2>2 DEF Request, D!States
  <2> HIDE DEF q, row
  <2>4. Found(q, d.flights, DOMAIN db.flight) /\ ~MustOwn(q)
    BY <1>3, <1>7, <2>2, <2>3 DEF Found, MustOwn
  <2> QED
    BY <1>1, <2>1, <2>3, <2>4, Moves
<1>8. CASE D!Goto(r, "none")
  <2> DEFINE q == [req[r] EXCEPT !.pc = "none"]
  <2>1. req' = [req EXCEPT ![r] = q]
    BY <1>8 DEF D!Goto
  <2>2. q \in Request /\ q.pc = "none" /\ q.body = b
    BY <1>1 DEF Request, D!States
  <2> HIDE DEF q
  <2>3. Found(q, d.flights, DOMAIN db.flight) /\ ~MustOwn(q)
    BY <1>3, <2>2 DEF Found, MustOwn
  <2> QED
    BY <1>1, <2>1, <2>2, <2>3, Moves
<1> QED
  BY <1>4, <1>6, <1>7, <1>8

LEMMA DrawsPnr == ASSUME Audited, NEW r \in Requests, D!DrawPnr(r) PROVE Audited'
<1> USE DatabaseAssumption DEF D!SeedAssumption
<1> DEFINE d == D!View(r)
<1>1. req[r] \in Request /\ req[r].pc = "pnr" /\ UNCHANGED <<db, tx>>
      /\ Found(req[r], d.flights, DOMAIN db.flight)
  BY DEF Audited, D!DrawPnr
<1>2. req[r].body \in D!Bodies /\ req[r].body.op = "book" /\ req[r].row \in d.flights
  BY <1>1 DEF Found
<1>3. tx.owner = r => Wrote(req[r], tx.db)
  BY DEF Audited
<1>4. ASSUME NEW p \in Pnrs, req' = [req EXCEPT ![r].p = p, ![r].pc = "write"] PROVE Audited'
  <2> DEFINE q == [req[r] EXCEPT !.p = p, !.pc = "write"]
  <2>1. req' = [req EXCEPT ![r] = q]
    BY <1>4
  <2>2. q \in Request /\ q.body = req[r].body /\ q.row = req[r].row /\ q.p = p /\ q.pc = "write"
    BY <1>1 DEF Request, D!States
  <2> HIDE DEF q
  <2>3. Found(q, d.flights, DOMAIN db.flight) /\ ~MustOwn(q)
    BY <1>2, <2>2 DEF Found, MustOwn
  <2>4. tx.owner = r => Wrote(q, tx.db)
    BY <1>1, <1>3, <2>2 DEF Wrote, Written
  <2> QED
    BY <1>1, <2>1, <2>2, <2>3, <2>4, Moves
<1>5. ASSUME D!Goto(r, "end") PROVE Audited'
  <2> DEFINE q == [req[r] EXCEPT !.pc = "end"]
  <2>1. req' = [req EXCEPT ![r] = q]
    BY <1>5 DEF D!Goto
  <2>2. q \in Request /\ q.body = req[r].body /\ q.pc = "end"
    BY <1>1 DEF Request, D!States
  <2> HIDE DEF q
  <2>3. Found(q, d.flights, DOMAIN db.flight) /\ ~MustOwn(q)
    BY <1>2, <2>2 DEF Found, MustOwn
  <2>4. tx.owner = r => Wrote(q, tx.db)
    BY <1>1, <1>3, <2>2 DEF Wrote, Written
  <2> QED
    BY <1>1, <2>1, <2>2, <2>3, <2>4, Moves
<1> QED
  BY <1>4, <1>5 DEF D!DrawPnr

\* A block that raises is rolled back.
LEMMA Raises == ASSUME Audited, NEW r \in Requests, D!Raise(r), D!Seed \in D!Database PROVE Audited'
<1> USE DatabaseAssumption DEF D!SeedAssumption
<1> DEFINE q == [req[r] EXCEPT !.pc = "error"]
<1>1. req[r] \in Request /\ req[r].pc \in {"insert", "write", "code", "log"}
      /\ Found(req[r], D!View(r).flights, DOMAIN db.flight)
      /\ tx.owner \in Requests \cup {None} /\ tx.db \in D!Database
  BY DEF Audited, D!Raise
<1>2. req' = [req EXCEPT ![r] = q] /\ UNCHANGED db /\ tx' = IF tx.owner = r THEN D!NoTx ELSE tx
  BY DEF D!Raise, D!Goto
<1>3. q \in Request /\ q.body = req[r].body /\ q.pc = "error"
  BY <1>1 DEF Request, D!States
<1> HIDE DEF q
<1>4. q.body \in D!Bodies
  BY <1>1, <1>3 DEF Found
<1>5. Found(q, D!View(r)'.flights, DOMAIN db.flight) /\ ~MustOwn(q)
  BY <1>3, <1>4 DEF Found, MustOwn
<1>6. D!NoTx.owner = None /\ D!NoTx.db \in D!Database
  BY DEF D!NoTx
<1> QED
  BY <1>1, <1>2, <1>3, <1>5, <1>6, RequestSteps

\* A step of r that writes: it holds the lock from here on.
LEMMA Locks ==
  ASSUME Audited, NEW r \in Requests, NEW q \in Request, req' = [req EXCEPT ![r] = q],
         NEW d \in D!Database, D!Lock(r, d), Found(q, d.flights, DOMAIN db.flight), Wrote(q, d), q.pc # "ok"
  PROVE  Audited'
<1> USE DatabaseAssumption DEF D!SeedAssumption
<1>1. tx' = [owner |-> r, db |-> d] /\ tx.owner \in {None, r} /\ UNCHANGED db
  BY DEF D!Lock
<1>2. tx'.owner = r /\ tx'.db = d /\ D!View(r)' = d
  BY <1>1 DEF D!View
<1> QED
  BY <1>1, <1>2, RequestSteps

\* The request that takes the lock has written nothing yet.
LEMMA BeforeWriting ==
  ASSUME Audited, NEW r \in Requests, tx.owner \in {None, r},
         req[r].pc \in {"pnr", "end", "write", "insert"} \/ (req[r].pc = "code" /\ tx.owner = None)
  PROVE  LET d == D!View(r) IN
         /\ d.flight = db.flight /\ d.status = db.status /\ d.log = db.log /\ d.codes = db.codes
         /\ DOMAIN d.seat = DOMAIN d.flight /\ db.flights \subseteq d.flights /\ D!Keyed(d.flights)
<1> USE DatabaseAssumption DEF D!SeedAssumption
<1>1. CASE tx.owner = r
  BY <1>1 DEF Audited, D!View, Wrote, Written
<1>2. CASE tx.owner = None
  BY <1>2 DEF D!View, Audited, Committed, D!TablesOfOneSet, D!FlightsKeyed
<1> QED
  BY <1>1, <1>2

LEMMA InsertsFlight == ASSUME Audited, NEW r \in Requests, D!InsertFlight(r) PROVE Audited'
<1> USE DatabaseAssumption DEF D!SeedAssumption
<1> DEFINE f == req[r].row
           d == D!View(r)
           taken == \E g \in d.flights : g.number = f.number /\ g.dep = f.dep
           flights == IF taken THEN d.flights ELSE d.flights \cup {f}
           nd == [d EXCEPT !.flights = flights]
           q == [req[r] EXCEPT !.pc = IF f \in flights THEN "pnr" ELSE "end"]
<1>1. req[r] \in Request /\ req[r].pc = "insert" /\ tx.owner \in {None, r}
      /\ Found(req[r], d.flights, DOMAIN db.flight)
  BY DEF Audited, D!InsertFlight, D!Lock
<1>2. D!Lock(r, nd) /\ req' = [req EXCEPT ![r] = q]
  BY DEF D!InsertFlight, D!Goto
<1>3. f \in D!Rows /\ req[r].body \in D!Bodies /\ req[r].body.op = "book"
  BY <1>1 DEF Found
<1>4. /\ d \in D!Database /\ d.flights \subseteq D!Rows /\ D!Keyed(d.flights)
      /\ db.flights \subseteq d.flights
  BY ViewFacts
<1>5. /\ d.flight = db.flight /\ d.status = db.status /\ d.log = db.log /\ d.codes = db.codes
      /\ DOMAIN d.seat = DOMAIN d.flight
  BY <1>1, BeforeWriting
<1> HIDE DEF d
<1>6. flights \subseteq D!Rows /\ D!Keyed(flights) /\ d.flights \subseteq flights
  BY <1>3, <1>4 DEF D!Keyed
<1> HIDE DEF flights
<1>7. /\ nd \in D!Database /\ nd.flights = flights
      /\ nd.flight = d.flight /\ nd.status = d.status /\ nd.log = d.log /\ nd.codes = d.codes /\ nd.seat = d.seat
  BY <1>4, <1>6 DEF D!Database
<1>8. /\ q \in Request /\ q.body = req[r].body /\ q.row = f
      /\ q.pc = IF f \in flights THEN "pnr" ELSE "end"
  BY <1>1 DEF Request, D!States
<1> HIDE DEF nd, q
<1>9. Found(q, nd.flights, DOMAIN db.flight)
  BY <1>3, <1>7, <1>8 DEF Found
<1>10. Wrote(q, nd)
  BY <1>4, <1>5, <1>6, <1>7, <1>8 DEF Wrote, Written
<1> QED
  BY <1>2, <1>7, <1>8, <1>9, <1>10, Locks

LEMMA WritesBooking == ASSUME Audited, NEW r \in Requests, D!WriteBooking(r) PROVE Audited'
<1> USE DatabaseAssumption DEF D!SeedAssumption
<1> DEFINE b == req[r].body
           p == req[r].p
           row == req[r].row
           d == D!View(r)
           nd == CASE b.op = "rebook" -> D!Moved(d, b, p, row)
                   [] b.op = "cancel" -> D!Cancelled(d, p)
                   [] b.op = "book" -> D!Booked(d, p, row)
           q == [req[r] EXCEPT !.pc = "code"]
<1>1. req[r] \in Request /\ req[r].pc = "write" /\ tx.owner \in {None, r}
      /\ (b.op = "book" => p \notin DOMAIN d.flight)
      /\ Found(req[r], d.flights, DOMAIN db.flight)
  BY DEF Audited, D!WriteBooking, D!Lock
<1>2. D!Lock(r, nd) /\ req' = [req EXCEPT ![r] = q]
  BY Zenon DEF D!WriteBooking, D!Goto
<1>3. /\ b \in D!Bodies /\ b.op \in {"rebook", "cancel", "book"}
      /\ b.op # "book" => p \in DOMAIN db.flight
      /\ b.op = "book" => p \in Pnrs
      /\ b.op \in {"book", "rebook"} => row \in d.flights
  BY <1>1, BodyFacts DEF Found
<1>4. /\ d \in D!Database /\ d.flights \subseteq D!Rows
      /\ d.flight \in D!Tables(D!Rows) /\ d.status \in D!Tables({"active", "cancelled"})
      /\ d.seat \in D!Tables(Seats)
  BY ViewFacts
<1>5. /\ d.flight = db.flight /\ d.status = db.status /\ d.log = db.log /\ d.codes = db.codes
      /\ DOMAIN d.seat = DOMAIN d.flight /\ db.flights \subseteq d.flights /\ D!Keyed(d.flights)
  BY <1>1, BeforeWriting
<1>6. /\ q \in Request /\ q.body = b /\ q.row = row /\ q.p = p /\ q.pc = "code"
  BY <1>1 DEF Request, D!States
<1> HIDE DEF d, q
<1>7. Found(q, d.flights, DOMAIN db.flight)
  BY <1>3, <1>6 DEF Found
<1>8. ASSUME nd \in D!Database, nd.flights = d.flights, Wrote(q, nd) PROVE Audited'
  BY <1>2, <1>6, <1>7, <1>8, Locks
<1>9. CASE b.op = "rebook"
  <2> DEFINE v == IF b.seat = D!Keep THEN d.seat[p] ELSE b.seat
             flight == [d.flight EXCEPT ![p] = row]
             seat == [d.seat EXCEPT ![p] = v]
  <2>1. nd = [d EXCEPT !.flight = flight, !.seat = seat]
    BY <1>9 DEF D!Moved
  <2>2. v \in Seats
    <3>1. p \in DOMAIN d.seat
      BY <1>3, <1>5, <1>9
    <3>2. d.seat[p] \in Seats
      BY <1>4, <3>1, TableIs
    <3> QED
      BY <1>3, <3>2, BodyFacts
  <2> HIDE DEF v
  <2>3. flight \in D!Tables(D!Rows) /\ DOMAIN flight = DOMAIN d.flight
    BY <1>3, <1>4, <1>9, TableExcept
  <2>4. seat \in D!Tables(Seats) /\ DOMAIN seat = DOMAIN d.seat
    BY <1>4, <2>2, TableExcept
  <2>5. flight = [db.flight EXCEPT ![q.p] = q.row]
    BY <1>5, <1>6
  <2> HIDE DEF flight, seat, nd
  <2>6. /\ nd \in D!Database /\ nd.flights = d.flights /\ nd.flight = flight /\ nd.seat = seat
        /\ nd.status = d.status /\ nd.codes = d.codes /\ nd.log = d.log
    BY <1>4, <2>1, <2>3, <2>4 DEF D!Database
  <2>7. Wrote(q, nd)
    BY <1>5, <1>6, <1>9, <2>3, <2>4, <2>5, <2>6 DEF Wrote, Written
  <2> QED
    BY <1>8, <2>6, <2>7
<1>10. CASE b.op = "cancel"
  <2> DEFINE status == [d.status EXCEPT ![p] = "cancelled"]
  <2>1. nd = [d EXCEPT !.status = status]
    BY <1>10 DEF D!Cancelled
  <2>2. status \in D!Tables({"active", "cancelled"}) /\ status = [db.status EXCEPT ![q.p] = "cancelled"]
    BY <1>4, <1>5, <1>6, TableExcept
  <2> HIDE DEF status, nd
  <2>3. /\ nd \in D!Database /\ nd.flights = d.flights /\ nd.flight = d.flight /\ nd.seat = d.seat
        /\ nd.status = status /\ nd.codes = d.codes /\ nd.log = d.log
    BY <1>4, <2>1, <2>2 DEF D!Database
  <2>4. Wrote(q, nd)
    BY <1>5, <1>6, <1>10, <2>2, <2>3 DEF Wrote, Written
  <2> QED
    BY <1>8, <2>3, <2>4
<1>11. CASE b.op = "book"
  <2> DEFINE flight == D!Extend(d.flight, p, row)
             status == D!Extend(d.status, p, "active")
             seat == D!Extend(d.seat, p, CHOOSE s \in Seats : TRUE)
  <2>1. nd = [d EXCEPT !.flight = flight, !.status = status, !.seat = seat]
    BY <1>11 DEF D!Booked
  <2>2. flight \in D!Tables(D!Rows) /\ DOMAIN flight = DOMAIN d.flight \cup {p}
    <3>1. p \in Pnrs /\ row \in D!Rows
      BY <1>3, <1>4, <1>11
    <3>2. flight \in D!Tables(D!Rows)
      BY <1>4, <3>1, TableExtend
    <3>3. DOMAIN flight = DOMAIN d.flight \cup {p}
      BY DEF D!Extend
    <3> QED
      BY <3>2, <3>3
  <2>3. status \in D!Tables({"active", "cancelled"})
    BY <1>3, <1>4, <1>11, TableExtend
  <2>4. seat \in D!Tables(Seats) /\ DOMAIN seat = DOMAIN d.seat \cup {p}
    <3>1. (CHOOSE s \in Seats : TRUE) \in Seats
      OBVIOUS
    <3>2. seat \in D!Tables(Seats)
      BY <1>3, <1>4, <1>11, <3>1, TableExtend
    <3>3. DOMAIN seat = DOMAIN d.seat \cup {p}
      BY DEF D!Extend
    <3> QED
      BY <3>2, <3>3
  <2>5. flight = D!Extend(db.flight, q.p, q.row) /\ status = D!Extend(db.status, q.p, "active")
    BY <1>5, <1>6
  <2> HIDE DEF flight, status, seat, nd
  <2>6. /\ nd \in D!Database /\ nd.flights = d.flights /\ nd.flight = flight /\ nd.seat = seat
        /\ nd.status = status /\ nd.codes = d.codes /\ nd.log = d.log
    BY <1>4, <2>1, <2>2, <2>3, <2>4 DEF D!Database
  <2>7. q.p \notin DOMAIN db.flight
    BY <1>1, <1>5, <1>6, <1>11
  <2>8. Wrote(q, nd)
    BY <1>5, <1>6, <1>11, <2>2, <2>4, <2>5, <2>6, <2>7 DEF Wrote, Written
  <2> QED
    BY <1>8, <2>6, <2>8
<1> QED
  BY <1>3, <1>9, <1>10, <1>11

LEMMA IssuesCode == ASSUME Audited, NEW r \in Requests, D!IssueCode(r) PROVE Audited'
<1> USE DatabaseAssumption DEF D!SeedAssumption
<1> DEFINE b == req[r].body
           p == req[r].p
           d == D!View(r)
<1>1. req[r] \in Request /\ req[r].pc = "code" /\ tx.owner \in {None, r}
      /\ Found(req[r], d.flights, DOMAIN db.flight) /\ (b.op # "standby" => tx.owner = r)
  BY DEF Audited, D!IssueCode, D!Lock, MustOwn
<1>2. b \in D!Bodies /\ D!Action(b.op) \in D!Actions /\ b.op \in {"rebook", "standby", "cancel", "book"}
  BY <1>1, BodyFacts DEF Found
<1>3. p \in Pnrs
  <2>1. DOMAIN db.flight \subseteq Pnrs
    BY TableIs DEF Audited, Committed, D!Database
  <2> QED
    BY <1>1, <2>1 DEF Found
<1>4. d \in D!Database /\ d.codes = db.codes
  BY <1>1, ViewFacts
<1>5. Wrote(req[r], d)
  <2>1. CASE tx.owner = r
    BY <2>1 DEF Audited, D!View
  <2>2. CASE tx.owner # r
    <3>1. tx.owner = None /\ b.op = "standby" /\ d = db
      BY <1>1, <2>2 DEF D!View
    <3> QED
      BY <1>1, <3>1 DEF Wrote, Written, Audited, Committed, D!TablesOfOneSet, D!FlightsKeyed
  <2> QED
    BY <2>1, <2>2
<1>6. PICK c \in Codes :
        \/ /\ \A k \in d.codes : k.code # c
           /\ D!Lock(r, [d EXCEPT !.codes = @ \cup {[code |-> c, pnr |-> p, action |-> D!Action(b.op)]}])
           /\ req' = [req EXCEPT ![r].code = c, ![r].pc = "log"]
        \/ /\ D!Lock(r, d) /\ req' = [req EXCEPT ![r].tries = @ + 1]
  BY DEF D!IssueCode
<1> HIDE DEF d
<1>7. CASE /\ \A k \in d.codes : k.code # c
           /\ D!Lock(r, [d EXCEPT !.codes = @ \cup {[code |-> c, pnr |-> p, action |-> D!Action(b.op)]}])
           /\ req' = [req EXCEPT ![r].code = c, ![r].pc = "log"]
  <2> DEFINE k == [code |-> c, pnr |-> p, action |-> D!Action(b.op)]
             nd == [d EXCEPT !.codes = d.codes \cup {k}]
             q == [req[r] EXCEPT !.code = c, !.pc = "log"]
  <2>1. D!Lock(r, nd) /\ req' = [req EXCEPT ![r] = q]
    BY <1>7
  <2>2. k \in D!Code
    BY <1>2, <1>3 DEF D!Code
  <2>3. /\ q \in Request /\ q.body = b /\ q.p = p /\ q.row = req[r].row /\ q.code = c /\ q.pc = "log"
    BY <1>1 DEF Request, D!States
  <2> HIDE DEF q
  <2>4. k = [code |-> q.code, pnr |-> q.p, action |-> D!Action(q.body.op)]
    BY <2>3
  <2> HIDE DEF k
  <2>5. /\ nd \in D!Database /\ nd.flights = d.flights /\ nd.flight = d.flight /\ nd.seat = d.seat
        /\ nd.status = d.status /\ nd.codes = d.codes \cup {k} /\ nd.log = d.log
    BY <1>4, <2>2 DEF D!Database
  <2> HIDE DEF nd
  <2>6. Found(q, nd.flights, DOMAIN db.flight)
    BY <1>1, <1>2, <2>3, <2>5 DEF Found
  <2>7. \A op : Written(q, op) <=> Written(req[r], op)
    BY <1>1, <2>3 DEF Written
  <2>8. \A m \in db.codes : m.code # q.code
    BY <1>4, <1>7, <2>3
  <2>9. Wrote(q, nd)
    BY <1>1, <1>4, <1>5, <2>3, <2>4, <2>5, <2>7, <2>8 DEF Wrote
  <2> QED
    BY <2>1, <2>3, <2>5, <2>6, <2>9, Locks
<1>8. CASE D!Lock(r, d) /\ req' = [req EXCEPT ![r].tries = @ + 1]
  <2> DEFINE q == [req[r] EXCEPT !.tries = req[r].tries + 1]
  <2>1. req' = [req EXCEPT ![r] = q]
    BY <1>8
  <2>2. /\ q \in Request /\ q.body = b /\ q.p = p /\ q.row = req[r].row /\ q.pc = req[r].pc
        /\ q.code = req[r].code
    BY <1>1 DEF Request
  <2> HIDE DEF q
  <2>3. Found(q, d.flights, DOMAIN db.flight)
    BY <1>1, <2>2 DEF Found
  <2>4. Wrote(q, d)
    BY <1>1, <1>5, <2>2 DEF Wrote, Written
  <2> QED
    BY <1>1, <1>4, <1>8, <2>1, <2>2, <2>3, <2>4, Locks
<1> QED
  BY <1>6, <1>7, <1>8

\* "return None" commits at most a row of the catalogue.
LEMMA EndsEmpty == ASSUME Audited, NEW r \in Requests, D!EndEmpty(r), D!Seed \in D!Database PROVE Audited'
<1> USE DatabaseAssumption DEF D!SeedAssumption
<1> DEFINE q == [req[r] EXCEPT !.pc = "none"]
<1>1. req[r] \in Request /\ req[r].pc = "end" /\ Found(req[r], D!View(r).flights, DOMAIN db.flight)
  BY DEF Audited, D!EndEmpty
<1>2. req' = [req EXCEPT ![r] = q]
  BY DEF D!EndEmpty, D!Goto
<1>3. q \in Request /\ q.body = req[r].body /\ q.pc = "none"
  BY <1>1 DEF Request, D!States
<1> HIDE DEF q
<1>4. q.body \in D!Bodies
  BY <1>1, <1>3 DEF Found
<1>5. CASE tx.owner = r
  <2>1. db' = tx.db /\ tx' = D!NoTx /\ tx.db \in D!Database /\ Wrote(req[r], tx.db)
    BY <1>5 DEF D!EndEmpty, D!Commit, Audited
  <2>2. /\ db.flights \subseteq db'.flights /\ D!Keyed(db'.flights) /\ db'.log = db.log
        /\ db'.flight = db.flight /\ db'.status = db.status /\ db'.codes = db.codes
        /\ DOMAIN db'.seat = DOMAIN db'.flight
    BY <1>1, <2>1 DEF Wrote, Written
  <2>3. Committed
    BY DEF Audited
  <2>4. \A s, acts : D!Logged(s, acts)' = D!Logged(s, acts)
    BY <2>2 DEF D!Logged
  <2>5. D!TablesOfOneSet' /\ D!FlightsKeyed'
    BY <2>2, <2>3 DEF Committed, D!TablesOfOneSet, D!FlightsKeyed
  <2>6. D!BookingsAsLogged'
    BY <2>2, <2>3, <2>4 DEF Committed, D!BookingsAsLogged
  <2>7. D!CodesAsLogged'
    BY <2>2, <2>3 DEF Committed, D!CodesAsLogged
  <2>8. Committed'
    BY <2>1, <2>2, <2>3, <2>5, <2>6, <2>7 DEF Committed
  <2> QED
    BY <1>2, <1>3, <1>4, <1>5, <2>1, <2>2, <2>8, RequestCommits
<1>6. CASE tx.owner # r
  <2>1. UNCHANGED <<db, tx>>
    BY <1>6 DEF D!EndEmpty
  <2>2. Found(q, D!View(r).flights, DOMAIN db.flight) /\ ~MustOwn(q)
    BY <1>3, <1>4 DEF Found, MustOwn
  <2> QED
    BY <1>2, <1>3, <1>6, <2>1, <2>2, Moves
<1> QED
  BY <1>5, <1>6

\* The log row and the commit: what the transaction wrote agrees with its row.
LEMMA LogsAndCommits ==
  ASSUME Audited, NEW r \in Requests, D!LogAndCommit(r), D!Seed \in D!Database PROVE Audited'
<1> USE DatabaseAssumption DEF D!SeedAssumption
<1> DEFINE b == req[r].body
           p == req[r].p
           d == tx.db
           n == Len(db.log)
           e == D!LogRow(r)
           q == [req[r] EXCEPT !.pc = "ok"]
           k == [code |-> req[r].code, pnr |-> p, action |-> D!Action(b.op)]
           Is(op) == b.op = op
<1>1. req[r] \in Request /\ req[r].pc = "log" /\ Found(req[r], D!View(r).flights, DOMAIN db.flight)
      /\ Committed /\ tx.owner = r
  BY DEF Audited, D!LogAndCommit, MustOwn
<1>2. d \in D!Database /\ Wrote(req[r], d) /\ D!View(r) = d
  BY <1>1 DEF Audited, D!View
<1>3. /\ req' = [req EXCEPT ![r] = q] /\ tx' = D!NoTx
      /\ db' = [d EXCEPT !.log = Append(d.log, e)]
  BY DEF D!LogAndCommit, D!Goto
<1>4. q \in Request /\ q.body = b /\ q.pc = "ok" /\ q.code = req[r].code
  BY <1>1 DEF Request, D!States
<1>5. /\ b \in D!Bodies /\ b.op \in {"rebook", "standby", "cancel", "book"}
      /\ b.op # "book" => p \in DOMAIN db.flight
      /\ b.op \in {"book", "rebook"} => req[r].row \in d.flights
  BY <1>1, <1>2, BodyFacts DEF Found
<1>6. /\ db.flights \subseteq d.flights /\ D!Keyed(d.flights) /\ d.log = db.log
      /\ b.op = "book" => p \notin DOMAIN db.flight
      /\ d.flight = (CASE b.op = "book" -> D!Extend(db.flight, p, req[r].row)
                       [] b.op = "rebook" -> [db.flight EXCEPT ![p] = req[r].row]
                       [] OTHER -> db.flight)
      /\ d.status = (CASE b.op = "book" -> D!Extend(db.status, p, "active")
                       [] b.op = "cancel" -> [db.status EXCEPT ![p] = "cancelled"]
                       [] OTHER -> db.status)
      /\ DOMAIN d.seat = DOMAIN d.flight
      /\ \A m \in db.codes : m.code # req[r].code
      /\ d.codes = db.codes \cup {k}
  BY <1>1, <1>2 DEF Wrote, Written
<1>7. k \in D!Code
  BY <1>2, <1>6 DEF D!Database
<1>8. p \in Pnrs /\ req[r].code \in Codes /\ D!Action(b.op) \in D!Actions
  BY <1>7 DEF D!Code
<1>9. e.pnr = p /\ e.action = D!Action(b.op) /\ e.to = req[r].row /\ e.code = req[r].code
  BY DEF D!LogRow
<1> DEFINE LogRows == [pnr : Pnrs, action : D!Actions, from : D!Rows \cup {None}, to : D!Rows \cup {None},
                       code : Codes]
<1>10. e \in LogRows
  BY <1>1, <1>8 DEF D!LogRow, Request
<1>11. d.log \in Seq(LogRows) /\ db.log \in Seq(LogRows)
  BY <1>1, <1>2 DEF D!Database, Committed
<1> HIDE DEF d, e, q, k, LogRows
<1>12. /\ db'.flights = d.flights /\ db'.flight = d.flight /\ db'.status = d.status /\ db'.seat = d.seat
       /\ db'.codes = d.codes /\ db'.log = Append(db.log, e)
  BY <1>2, <1>3, <1>6 DEF D!Database
<1>13. db' \in D!Database
  <2>1. Append(d.log, e) \in Seq(LogRows)
    BY <1>10, <1>11
  <2> QED
    BY <1>2, <1>3, <2>1 DEF D!Database, LogRows
<1>14. /\ n \in Nat /\ DOMAIN db.log = 1 .. n /\ DOMAIN db'.log = 1 .. (n + 1) /\ Len(db'.log) = n + 1
       /\ db'.log[n + 1] = e /\ \A i \in 1 .. n : db'.log[i] = db.log[i]
  BY <1>10, <1>11, <1>12
<1> HIDE DEF n
<1>15. \A i \in DOMAIN db.log : i \in DOMAIN db'.log /\ db'.log[i] = db.log[i]
  BY <1>14
<1>16. /\ DOMAIN db.status = DOMAIN db.flight /\ DOMAIN db.seat = DOMAIN db.flight
       /\ \A i \in DOMAIN db.log : db.log[i].pnr \in DOMAIN db.flight
  BY <1>1 DEF Committed, D!TablesOfOneSet
<1>17. /\ DOMAIN db'.flight = DOMAIN db.flight \cup {p} /\ DOMAIN db'.status = DOMAIN db.status \cup {p}
       /\ \A s \in DOMAIN db.flight : s # p => db'.flight[s] = db.flight[s] /\ db'.status[s] = db.status[s]
       /\ db'.flight[p] = IF b.op \in {"book", "rebook"} THEN req[r].row ELSE db.flight[p]
       /\ db'.status[p] = IF b.op = "book" THEN "active" ELSE IF b.op = "cancel" THEN "cancelled" ELSE db.status[p]
  <2>1. CASE b.op = "book"
    BY <1>6, <1>12, <1>16, <2>1 DEF D!Extend
  <2>2. CASE b.op = "rebook"
    BY <1>5, <1>6, <1>12, <1>16, <2>2
  <2>3. CASE b.op = "cancel"
    BY <1>5, <1>6, <1>12, <1>16, <2>3
  <2>4. CASE b.op = "standby"
    BY <1>5, <1>6, <1>12, <1>16, <2>4
  <2> QED
    BY <1>5, <2>1, <2>2, <2>3, <2>4
<1>18. D!TablesOfOneSet'
  <2>1. DOMAIN db'.status = DOMAIN db'.flight /\ DOMAIN db'.seat = DOMAIN db'.flight
    BY <1>6, <1>12, <1>16, <1>17
  <2>2. \A i \in 1 .. (n + 1) : db'.log[i].pnr \in DOMAIN db'.flight
    BY <1>9, <1>14, <1>16, <1>17
  <2> QED
    BY <1>14, <2>1, <2>2 DEF D!TablesOfOneSet
<1>19. D!FlightsKeyed'
  <2>1. \A s \in DOMAIN db.flight : db.flight[s] \in db.flights
    BY <1>1 DEF Committed, D!FlightsKeyed
  <2>2. \A s \in DOMAIN db'.flight : db'.flight[s] \in db'.flights
    BY <1>5, <1>6, <1>12, <1>17, <2>1
  <2> QED
    BY <1>6, <1>12, <2>2 DEF D!FlightsKeyed
<1>20. ASSUME NEW s, NEW acts
       PROVE  D!Logged(s, acts)' = D!Logged(s, acts) \cup (IF s = p /\ D!Action(b.op) \in acts THEN {n + 1} ELSE {})
  BY <1>9, <1>14 DEF D!Logged
<1>21. D!BookingsAsLogged'
  <2> SUFFICES ASSUME NEW s \in DOMAIN db'.flight
               PROVE  /\ db'.status[s] = "cancelled" <=> D!Logged(s, {"CANCEL"})' # {}
                      /\ LET moves == D!Logged(s, {"BOOK", "REBOOK"})'
                         IN IF moves = {} THEN s \in DOMAIN SeedBookings /\ db'.flight[s] = SeedBookings[s]
                            ELSE \E i \in moves : (\A m \in moves : m <= i) /\ db'.flight[s] = db'.log[i].to
    BY DEF D!BookingsAsLogged
  <2> DEFINE moves == D!Logged(s, {"BOOK", "REBOOK"})
             cancels1 == D!Logged(s, {"CANCEL"})
  <2>1. \A acts : D!Logged(s, acts) \subseteq 1 .. n
    BY <1>14 DEF D!Logged
  <2>2. s \in DOMAIN db.flight =>
          /\ db.status[s] = "cancelled" <=> cancels1 # {}
          /\ IF moves = {} THEN s \in DOMAIN SeedBookings /\ db.flight[s] = SeedBookings[s]
             ELSE \E i \in moves : (\A m \in moves : m <= i) /\ db.flight[s] = db.log[i].to
    BY <1>1 DEF Committed, D!BookingsAsLogged
  <2>3. s \notin DOMAIN db.flight => moves = {} /\ cancels1 = {}
    BY <1>16 DEF D!Logged
  <2>4. D!Action("book") = "BOOK" /\ D!Action("rebook") = "REBOOK"
        /\ D!Action("cancel") = "CANCEL" /\ D!Action("standby") = "STANDBY"
    BY DEF D!Action
  <2>5. /\ D!Logged(s, {"CANCEL"})' = cancels1 \cup (IF s = p /\ b.op = "cancel" THEN {n + 1} ELSE {})
        /\ D!Logged(s, {"BOOK", "REBOOK"})' =
             moves \cup (IF s = p /\ b.op \in {"book", "rebook"} THEN {n + 1} ELSE {})
    BY <1>5, <1>20, <2>4
  <2>6. moves \subseteq 1 .. n /\ cancels1 \subseteq 1 .. n
    BY <2>1
  <2> HIDE DEF moves, cancels1
  <2>7. db'.status[s] = "cancelled" <=> D!Logged(s, {"CANCEL"})' # {}
    BY <1>5, <1>6, <1>17, <2>2, <2>3, <2>5
  <2>8. CASE s = p /\ b.op \in {"book", "rebook"}
    <3>1. \A m \in moves \cup {n + 1} : m <= n + 1
      BY <1>14, <2>6
    <3>2. db'.flight[s] = db'.log[n + 1].to
      BY <1>9, <1>14, <1>17, <2>8
    <3> QED
      BY <2>5, <2>7, <2>8, <3>1, <3>2
  <2>9. CASE ~(s = p /\ b.op \in {"book", "rebook"})
    <3>1. D!Logged(s, {"BOOK", "REBOOK"})' = moves
      BY <2>5, <2>9
    <3>2. s \in DOMAIN db.flight /\ db'.flight[s] = db.flight[s]
      BY <1>5, <1>17, <2>9
    <3>3. \A i \in moves : db'.log[i] = db.log[i]
      BY <1>14, <2>6
    <3> QED
      BY <2>2, <2>7, <3>1, <3>2, <3>3
  <2> QED
    BY <2>8, <2>9
<1>22. D!CodesAsLogged'
  <2> DEFINE Kept(log, i) == [code |-> log[i].code, pnr |-> log[i].pnr, action |-> log[i].action]
  <2>1. db.codes = {Kept(db.log, i) : i \in 1 .. n} /\ Cardinality(db.codes) = n /\ IsFiniteSet(db.codes)
    BY <1>1, <1>14, SameSizes DEF Committed, D!CodesAsLogged, n
  <2>2. Kept(db'.log, n + 1) = k /\ \A i \in 1 .. n : Kept(db'.log, i) = Kept(db.log, i)
    BY <1>9, <1>14 DEF k
  <2>3. {Kept(db'.log, i) : i \in 1 .. (n + 1)} = db.codes \cup {k}
    <3> HIDE DEF Kept
    <3>1. 1 .. (n + 1) = (1 .. n) \cup {n + 1}
      BY <1>14
    <3>2. {Kept(db'.log, i) : i \in 1 .. n} = db.codes
      BY <2>1, <2>2, Zenon
    <3> QED
      BY <2>2, <3>1, <3>2, Zenon
  <2>4. k \notin db.codes
    BY <1>6 DEF k
  <2>5. Cardinality(db.codes \cup {k}) = n + 1
    BY <2>1, <2>4, FS_AddElement
  <2>6. db'.codes = {Kept(db'.log, i) : i \in DOMAIN db'.log} /\ Cardinality(db'.codes) = Len(db'.log)
    BY <1>6, <1>12, <1>14, <2>3, <2>5
  <2> QED
    BY <2>6, SameSizes DEF D!CodesAsLogged
<1>23. Committed'
  <2>1. IsFiniteSet(db'.codes)
    <3>1. IsFiniteSet(db.codes) /\ db'.codes = db.codes \cup {k}
      BY <1>1, <1>6, <1>12 DEF Committed
    <3> QED
      BY <3>1, FS_AddElement, Zenon
  <2> QED
    BY <1>13, <1>18, <1>19, <1>21, <1>22, <2>1 DEF Committed
<1>24. n + 1 \in DOMAIN db'.log /\ db'.log[n + 1].code = q.code
  BY <1>4, <1>9, <1>14
<1>25. db.flights \subseteq db'.flights /\ DOMAIN db.flight \subseteq DOMAIN db'.flight
  BY <1>6, <1>12, <1>17
<1> QED
  BY <1>1, <1>3, <1>4, <1>5, <1>15, <1>23, <1>24, <1>25, RequestCommits

LEMMA DatabaseStep == Audited /\ D!Next /\ D!Seed \in D!Database => Audited'
BY Arrives, ReadsBooking, FindsFlight, InsertsFlight, DrawsPnr, EndsEmpty, WritesBooking, IssuesCode,
   LogsAndCommits, Raises DEF D!Next

\* The invariant of the database while it runs, for any requests, bookings and flights.
Booked == component = "database" => Audited

LEMMA DatabaseSafe == Spec => []Booked
<1>1. Init => Booked
  BY DatabaseInit DEF Init, Booked
<1>2. Booked /\ [Next]_vars => Booked'
  <2> SUFFICES ASSUME Booked, [Next]_vars, component' = "database" PROVE Audited'
    BY DEF Booked
  <2>1. CASE component = "database" /\ D!Next
    BY <2>1, DatabaseStep, SeedIsDatabase DEF Booked
  <2>2. CASE component = "database" /\ UNCHANGED <<varsD, component>>
    <3>1. UNCHANGED <<db, tx, req>> /\ Audited
      BY <2>2 DEF varsD, Booked
    <3>2. \A p, acts : D!Logged(p, acts)' = D!Logged(p, acts)
      BY <3>1 DEF D!Logged
    <3>3. D!TablesOfOneSet' /\ D!FlightsKeyed' /\ D!CodesAsLogged'
      BY <3>1 DEF Audited, Committed, D!TablesOfOneSet, D!FlightsKeyed, D!CodesAsLogged
    <3>4. D!BookingsAsLogged'
      BY <3>1, <3>2 DEF Audited, Committed, D!BookingsAsLogged
    <3>5. Committed'
      BY <3>1, <3>3, <3>4 DEF Audited, Committed
    <3> QED
      BY <3>1, <3>5 DEF Audited, D!View, Wrote
  <2> QED
    BY <2>1, <2>2 DEF Next, vars
<1> QED
  BY <1>1, <1>2, PTL DEF Spec

\* api.py:6 "activity_log + confirmation_codes + pnrs updates either all land or
\* all roll back": the committed tables agree with the log and every answered
\* request has its row, for any requests that interleave and fail half-way.
THEOREM TablesAgreeWithLog == Spec => []AuditAgrees
<1>1. Booked => AuditAgrees
  BY AuditedIsInv DEF Booked, AuditAgrees, D!Inv
<1> QED
  BY <1>1, DatabaseSafe, PTL

\* schema.sql:20 the catalogue keeps its key, and every booking sits on a row of it.
THEOREM CatalogueKeyed == Spec => []FlightsKeyed
<1>1. Booked => FlightsKeyed
  BY DEF Booked, FlightsKeyed, Audited, Committed
<1> QED
  BY <1>1, DatabaseSafe, PTL

(***************************************************************************)
(* The lookup of a spoken record locator.  First that the table of         *)
(* _edit_distance tells a distance of 0 and of 1, which an induction over  *)
(* its rows and one along each row show; then the loop over the rows.      *)
(***************************************************************************)
\* A row of the table of edit distances, and the rows of the table.
Entry(row, prev, i, c, b, j) ==
    IF j = 0 THEN i
    ELSE L!Least(L!Least(row[j - 1] + 1, prev[j] + 1), prev[j - 1] + (IF c = b[j] THEN 0 ELSE 1))
RowOf(row, prev, i, c, b, n) == row = [j \in 0 .. n |-> Entry(row, prev, i, c, b, j)]
RowsOf(d, a, b, n) ==
    d = [i \in 0 .. n |-> IF i = 0 THEN [j \in 0 .. Len(b) |-> j] ELSE L!NextRow(d[i - 1], i, a[i], b)]

LEMMA RowExists ==
  ASSUME NEW prev, NEW i, NEW c, NEW b, NEW n \in Nat PROVE \E row : RowOf(row, prev, i, c, b, n)
<1> DEFINE S == {k \in Nat : \E row : RowOf(row, prev, i, c, b, k)}
<1>1. 0 \in S
  <2> DEFINE row == [j \in 0 .. 0 |-> i]
  <2>1. RowOf(row, prev, i, c, b, 0)
    BY DEF RowOf, Entry
  <2> QED
    BY <2>1
<1>2. ASSUME NEW k \in Nat, k \in S PROVE k + 1 \in S
  <2>1. PICK row : RowOf(row, prev, i, c, b, k)
    BY <1>2
  <2>2. row = [j \in 0 .. k |-> Entry(row, prev, i, c, b, j)]
    BY <2>1 DEF RowOf
  <2> DEFINE more == [j \in 0 .. (k + 1) |-> IF j = k + 1 THEN Entry(row, prev, i, c, b, j) ELSE row[j]]
  <2>3. \A j \in 0 .. (k + 1) : j # 0 => j - 1 \in 0 .. k /\ more[j - 1] = row[j - 1]
    OBVIOUS
  <2>4. \A j \in 0 .. (k + 1) : Entry(more, prev, i, c, b, j) = Entry(row, prev, i, c, b, j)
    BY <2>3 DEF Entry
  <2>5. \A j \in 0 .. (k + 1) : more[j] = Entry(more, prev, i, c, b, j)
    BY <2>2, <2>4
  <2>6. more = [j \in 0 .. (k + 1) |-> Entry(more, prev, i, c, b, j)]
    BY <2>5
  <2> HIDE DEF more
  <2>7. RowOf(more, prev, i, c, b, k + 1)
    BY <2>6 DEF RowOf
  <2> QED
    BY <2>7
<1> HIDE DEF S
<1>3. n \in S
  BY <1>1, <1>2, Induction
<1> QED
  BY <1>3 DEF S

LEMMA NextRowIs ==
  ASSUME NEW prev, NEW i, NEW c, NEW b, Len(b) \in Nat
  PROVE  RowOf(L!NextRow(prev, i, c, b), prev, i, c, b, Len(b))
<1>1. \E row : RowOf(row, prev, i, c, b, Len(b))
  BY RowExists
<1>2. L!NextRow(prev, i, c, b) = CHOOSE row : RowOf(row, prev, i, c, b, Len(b))
  BY DEF L!NextRow, RowOf, Entry
<1> QED
  BY <1>1, <1>2, Zenon

LEMMA RowsExist ==
  ASSUME NEW a, NEW b, NEW n \in Nat PROVE \E d : RowsOf(d, a, b, n)
<1> DEFINE First1 == [j \in 0 .. Len(b) |-> j]
           Row(d, i) == IF i = 0 THEN First1 ELSE L!NextRow(d[i - 1], i, a[i], b)
           S == {k \in Nat : \E d : d = [i \in 0 .. k |-> Row(d, i)]}
<1>1. 0 \in S
  <2> DEFINE d == [i \in 0 .. 0 |-> First1]
  <2>1. d = [i \in 0 .. 0 |-> Row(d, i)]
    OBVIOUS
  <2> QED
    BY <2>1
<1>2. ASSUME NEW k \in Nat, k \in S PROVE k + 1 \in S
  <2>1. PICK d : d = [i \in 0 .. k |-> Row(d, i)]
    BY <1>2
  <2> HIDE DEF Row
  <2> DEFINE more == [i \in 0 .. (k + 1) |-> IF i = k + 1 THEN Row(d, i) ELSE d[i]]
  <2>2. \A i \in 0 .. (k + 1) : i # 0 => i - 1 \in 0 .. k /\ more[i - 1] = d[i - 1]
    OBVIOUS
  <2>3. \A i \in 0 .. (k + 1) : Row(more, i) = Row(d, i)
    BY <2>2 DEF Row
  <2>4. \A i \in 0 .. (k + 1) : more[i] = Row(more, i)
    BY <2>1, <2>3
  <2>5. more = [i \in 0 .. (k + 1) |-> Row(more, i)]
    BY <2>4
  <2> HIDE DEF more
  <2>6. \E r : r = [i \in 0 .. (k + 1) |-> Row(r, i)]
    BY <2>5, Zenon
  <2> QED
    BY <2>6
<1>3. n \in S
  <2> HIDE DEF S
  <2> QED
    BY <1>1, <1>2, Induction
<1> QED
  BY <1>3 DEF RowsOf

LEMMA DistanceRowsAre ==
  ASSUME NEW a, NEW b, Len(a) \in Nat, Len(b) \in Nat
  PROVE  RowsOf(L!DistanceRows(a, b), a, b, Len(a))
<1>1. \E d : RowsOf(d, a, b, Len(a))
  BY RowsExist
<1>2. L!DistanceRows(a, b) = CHOOSE d : RowsOf(d, a, b, Len(a))
  BY DEF L!DistanceRows, RowsOf
<1> QED
  BY <1>1, <1>2, Zenon

\* The first i letters of a are the first j of b, but for one letter that is
\* another, or that only a has.
Same(a, b, i, j) == i = j /\ \A m \in 1 .. i : a[m] = b[m]
Other(a, b, i, j) == i = j /\ (i = 0 \/ \E k \in 1 .. i : \A m \in 1 .. i : m # k => a[m] = b[m])
Extra(a, b, i, j) ==
    /\ i = j + 1
    /\ \E k \in 1 .. i : (\A m \in 1 .. (k - 1) : a[m] = b[m]) /\ \A m \in k .. j : a[m + 1] = b[m]
Near(a, b, i, j) == Other(a, b, i, j) \/ Extra(a, b, i, j) \/ Extra(b, a, j, i)

LEMMA SameSteps ==
  ASSUME NEW a, NEW b, NEW i \in Nat \ {0}, NEW j \in Nat \ {0}
  PROVE  Same(a, b, i, j) <=> a[i] = b[j] /\ Same(a, b, i - 1, j - 1)
<1>1. i = j => 1 .. i = (1 .. (i - 1)) \cup {i}
  OBVIOUS
<1>2. i = j <=> i - 1 = j - 1
  OBVIOUS
<1> QED
  BY <1>1, <1>2 DEF Same

LEMMA OtherSteps ==
  ASSUME NEW a, NEW b, NEW i \in Nat \ {0}, NEW j \in Nat \ {0}
  PROVE  Other(a, b, i, j) <=> Same(a, b, i - 1, j - 1) \/ (a[i] = b[j] /\ Other(a, b, i - 1, j - 1))
<1>1. ASSUME Other(a, b, i, j) PROVE Same(a, b, i - 1, j - 1) \/ (a[i] = b[j] /\ Other(a, b, i - 1, j - 1))
  <2>1. PICK k \in 1 .. i : \A m \in 1 .. i : m # k => a[m] = b[m]
    BY <1>1 DEF Other
  <2>2. CASE k = i
    BY <1>1, <2>1, <2>2 DEF Other, Same
  <2>3. CASE k # i
    BY <1>1, <2>1, <2>3 DEF Other
  <2> QED
    BY <2>2, <2>3
<1>2. ASSUME Same(a, b, i - 1, j - 1) PROVE Other(a, b, i, j)
  <2>1. \A m \in 1 .. i : m # i => a[m] = b[m]
    BY <1>2 DEF Same
  <2> QED
    BY <1>2, <2>1 DEF Other, Same
<1>3. ASSUME a[i] = b[j], Other(a, b, i - 1, j - 1) PROVE Other(a, b, i, j)
  <2>1. i = j
    BY <1>3 DEF Other
  <2>2. CASE i = 1
    BY <2>1, <2>2 DEF Other
  <2>3. CASE i # 1
    <3>1. PICK k \in 1 .. (i - 1) : \A m \in 1 .. (i - 1) : m # k => a[m] = b[m]
      BY <1>3, <2>3 DEF Other
    <3> QED
      BY <1>3, <2>1, <3>1 DEF Other
  <2> QED
    BY <2>2, <2>3
<1> QED
  BY <1>1, <1>2, <1>3

LEMMA ExtraSteps ==
  ASSUME NEW a, NEW b, NEW i \in Nat \ {0}, NEW j \in Nat \ {0}
  PROVE  Extra(a, b, i, j) <=> Same(a, b, i - 1, j) \/ (a[i] = b[j] /\ Extra(a, b, i - 1, j - 1))
<1>1. ASSUME Extra(a, b, i, j) PROVE Same(a, b, i - 1, j) \/ (a[i] = b[j] /\ Extra(a, b, i - 1, j - 1))
  <2>1. PICK k \in 1 .. i : (\A m \in 1 .. (k - 1) : a[m] = b[m]) /\ \A m \in k .. j : a[m + 1] = b[m]
    BY <1>1 DEF Extra
  <2>2. i = j + 1
    BY <1>1 DEF Extra
  <2>3. CASE k = i
    BY <2>1, <2>2, <2>3 DEF Same
  <2>4. CASE k # i
    <3>1. a[i] = b[j]
      BY <2>1, <2>2, <2>4
    <3>2. k \in 1 .. (i - 1) /\ \A m \in k .. (j - 1) : a[m + 1] = b[m]
      BY <2>1, <2>2, <2>4
    <3> QED
      BY <2>1, <2>2, <3>1, <3>2 DEF Extra
  <2> QED
    BY <2>3, <2>4
<1>2. ASSUME Same(a, b, i - 1, j) PROVE Extra(a, b, i, j)
  <2>1. i = j + 1 /\ \A m \in 1 .. (i - 1) : a[m] = b[m]
    BY <1>2 DEF Same
  <2>2. \A m \in i .. j : a[m + 1] = b[m]
    BY <2>1
  <2> QED
    BY <2>1, <2>2 DEF Extra
<1>3. ASSUME a[i] = b[j], Extra(a, b, i - 1, j - 1) PROVE Extra(a, b, i, j)
  <2>1. i = j + 1
    BY <1>3 DEF Extra
  <2>2. PICK k \in 1 .. (i - 1) : (\A m \in 1 .. (k - 1) : a[m] = b[m]) /\ \A m \in k .. (j - 1) : a[m + 1] = b[m]
    BY <1>3 DEF Extra
  <2>3. \A m \in k .. j : a[m + 1] = b[m]
    BY <1>3, <2>1, <2>2
  <2> QED
    BY <2>1, <2>2, <2>3 DEF Extra
<1> QED
  BY <1>1, <1>2, <1>3

LEMMA NearSteps ==
  ASSUME NEW a, NEW b, NEW i \in Nat \ {0}, NEW j \in Nat \ {0}
  PROVE  Near(a, b, i, j) <=>
           \/ Same(a, b, i, j - 1) \/ Same(a, b, i - 1, j) \/ Same(a, b, i - 1, j - 1)
           \/ a[i] = b[j] /\ Near(a, b, i - 1, j - 1)
<1>1. Same(b, a, j - 1, i) <=> Same(a, b, i, j - 1)
  BY DEF Same
<1> QED
  BY <1>1, OtherSteps, ExtraSteps DEF Near

\* Each entry of the table: a distance of 0 or 1 is what it is said to be.
Measured(a, b, e, i, j) ==
    e \in Nat /\ (e = 0 <=> Same(a, b, i, j)) /\ (e <= 1 <=> Near(a, b, i, j))

LEMMA LeastIs ==
  ASSUME NEW x \in Nat, NEW y \in Nat
  PROVE  L!Least(x, y) \in {x, y} /\ L!Least(x, y) <= x /\ L!Least(x, y) <= y
BY DEF L!Least

LEMMA EntryMeasured ==
  ASSUME NEW a, NEW b, NEW i \in Nat \ {0}, NEW j \in Nat \ {0}, NEW row, NEW prev,
         Measured(a, b, row[j - 1], i, j - 1), Measured(a, b, prev[j], i - 1, j),
         Measured(a, b, prev[j - 1], i - 1, j - 1)
  PROVE  Measured(a, b, Entry(row, prev, i, a[i], b, j), i, j)
<1> DEFINE x == row[j - 1]
           y == prev[j]
           z == prev[j - 1]
           c == IF a[i] = b[j] THEN 0 ELSE 1
           e == L!Least(L!Least(x + 1, y + 1), z + c)
<1>1. x \in Nat /\ y \in Nat /\ z \in Nat /\ c \in {0, 1} /\ (c = 0 <=> a[i] = b[j])
  BY DEF Measured
<1>2. Entry(row, prev, i, a[i], b, j) = e
  BY DEF Entry
<1> HIDE DEF c
<1>3. e \in Nat /\ (e = 0 <=> c = 0 /\ z = 0) /\ (e <= 1 <=> x = 0 \/ y = 0 \/ z = 0 \/ (c = 0 /\ z <= 1))
  BY <1>1 DEF L!Least
<1>4. (x = 0 <=> Same(a, b, i, j - 1)) /\ (y = 0 <=> Same(a, b, i - 1, j))
  BY DEF Measured
<1>5. (z = 0 <=> Same(a, b, i - 1, j - 1)) /\ (z <= 1 <=> Near(a, b, i - 1, j - 1))
  BY DEF Measured
<1> HIDE DEF x, y, z, e
<1>6. e = 0 <=> Same(a, b, i, j)
  <2>1. Same(a, b, i, j) <=> a[i] = b[j] /\ Same(a, b, i - 1, j - 1)
    BY SameSteps
  <2> QED
    BY <1>1, <1>3, <1>5, <2>1
<1>7. e <= 1 <=> Near(a, b, i, j)
  <2>1. Near(a, b, i, j) <=>
          \/ Same(a, b, i, j - 1) \/ Same(a, b, i - 1, j) \/ Same(a, b, i - 1, j - 1)
          \/ a[i] = b[j] /\ Near(a, b, i - 1, j - 1)
    BY NearSteps
  <2> QED
    BY <1>1, <1>3, <1>4, <1>5, <2>1
<1> QED
  BY <1>2, <1>3, <1>6, <1>7 DEF Measured

LEMMA EdgesMeasured ==
  ASSUME NEW a, NEW b, NEW i \in Nat
  PROVE  Measured(a, b, i, i, 0) /\ Measured(a, b, i, 0, i)
<1>1. (i = 0 <=> Same(a, b, i, 0)) /\ (i = 0 <=> Same(a, b, 0, i))
  BY DEF Same
<1>2. i <= 1 <=> Near(a, b, i, 0)
  BY DEF Near, Other, Extra
<1>3. i <= 1 <=> Near(a, b, 0, i)
  BY DEF Near, Other, Extra
<1> QED
  BY <1>1, <1>2, <1>3 DEF Measured

LEMMA RowMeasured ==
  ASSUME NEW a, NEW b, Len(b) \in Nat, NEW i \in Nat \ {0}, NEW row, NEW prev,
         RowOf(row, prev, i, a[i], b, Len(b)),
         \A j \in 0 .. Len(b) : Measured(a, b, prev[j], i - 1, j)
  PROVE  \A j \in 0 .. Len(b) : Measured(a, b, row[j], i, j)
<1> DEFINE T == {j \in 0 .. Len(b) : ~Measured(a, b, row[j], i, j)}
<1> SUFFICES ASSUME T # {} PROVE FALSE
  OBVIOUS
<1>1. PICK j \in T : \A k \in T : j <= k
  <2>1. T \subseteq Nat /\ T # {}
    OBVIOUS
  <2> HIDE DEF T
  <2> QED
    BY <2>1, Least
<1>2. row[j] = Entry(row, prev, i, a[i], b, j)
  BY DEF RowOf
<1>3. CASE j = 0
  BY <1>1, <1>2, <1>3, EdgesMeasured DEF Entry
<1>4. CASE j # 0
  <2>1. j \in Nat \ {0} /\ j - 1 \in 0 .. Len(b) /\ j \in 0 .. Len(b) /\ j - 1 \notin T
    BY <1>1, <1>4
  <2>2. Measured(a, b, row[j - 1], i, j - 1)
    BY <2>1
  <2> QED
    BY <1>1, <1>2, <2>1, <2>2, EntryMeasured
<1> QED
  BY <1>3, <1>4

LEMMA RowsMeasured ==
  ASSUME NEW a, NEW b, Len(a) \in Nat, Len(b) \in Nat
  PROVE  \A i \in 0 .. Len(a) : \A j \in 0 .. Len(b) : Measured(a, b, L!DistanceRows(a, b)[i][j], i, j)
<1> DEFINE d == L!DistanceRows(a, b)
           T == {i \in 0 .. Len(a) : ~\A j \in 0 .. Len(b) : Measured(a, b, d[i][j], i, j)}
<1> SUFFICES ASSUME T # {} PROVE FALSE
  OBVIOUS
<1>1. PICK i \in T : \A k \in T : i <= k
  <2>1. T \subseteq Nat /\ T # {}
    OBVIOUS
  <2> HIDE DEF T
  <2> QED
    BY <2>1, Least
<1>2. d[i] = IF i = 0 THEN [j \in 0 .. Len(b) |-> j] ELSE L!NextRow(d[i - 1], i, a[i], b)
  BY DistanceRowsAre DEF RowsOf
<1> HIDE DEF d
<1>3. CASE i = 0
  BY <1>1, <1>2, <1>3, EdgesMeasured
<1>4. CASE i # 0
  <2>1. i \in Nat \ {0} /\ i - 1 \in 0 .. Len(a) /\ i - 1 \notin T
    BY <1>1, <1>4
  <2>2. \A j \in 0 .. Len(b) : Measured(a, b, d[i - 1][j], i - 1, j)
    BY <2>1
  <2>3. RowOf(d[i], d[i - 1], i, a[i], b, Len(b))
    BY <1>2, <1>4, NextRowIs
  <2>4. \A j \in 0 .. Len(b) : Measured(a, b, d[i][j], i, j)
    BY <2>1, <2>2, <2>3, RowMeasured
  <2> QED
    BY <1>1, <2>4
<1> QED
  BY <1>3, <1>4

\* The words one edit away, letter by letter.
Without(w, i) == SubSeq(w, 1, i - 1) \o SubSeq(w, i + 1, Len(w))
With(w, i, c) == SubSeq(w, 1, i) \o <<c>> \o SubSeq(w, i + 1, Len(w))

LEMMA WithoutIs ==
  ASSUME NEW w \in Seq(Letters), NEW i \in 1 .. Len(w)
  PROVE  /\ Without(w, i) \in Seq(Letters) /\ Len(Without(w, i)) = Len(w) - 1
         /\ \A m \in 1 .. (Len(w) - 1) : Without(w, i)[m] = IF m < i THEN w[m] ELSE w[m + 1]
<1> DEFINE u == SubSeq(w, 1, i - 1)
           v == SubSeq(w, i + 1, Len(w))
<1>1. u \in Seq(Letters) /\ Len(u) = i - 1 /\ \A m \in 1 .. (i - 1) : u[m] = w[m]
  OBVIOUS
<1>2. v \in Seq(Letters) /\ Len(v) = Len(w) - i /\ \A m \in 1 .. (Len(w) - i) : v[m] = w[m + i]
  OBVIOUS
<1>3. Without(w, i) = u \o v
  BY DEF Without
<1> HIDE DEF u, v
<1>4. u \o v \in Seq(Letters) /\ Len(u \o v) = Len(u) + Len(v)
  BY <1>1, <1>2, ConcatProperties
<1>5. \A m \in 1 .. (Len(w) - 1) : (u \o v)[m] = IF m < i THEN w[m] ELSE w[m + 1]
  BY <1>1, <1>2
<1> QED
  BY <1>1, <1>2, <1>3, <1>4, <1>5

LEMMA WithIs ==
  ASSUME NEW w \in Seq(Letters), NEW i \in 0 .. Len(w), NEW c \in Letters
  PROVE  /\ With(w, i, c) \in Seq(Letters) /\ Len(With(w, i, c)) = Len(w) + 1
         /\ \A m \in 1 .. (Len(w) + 1) :
              With(w, i, c)[m] = IF m <= i THEN w[m] ELSE IF m = i + 1 THEN c ELSE w[m - 1]
<1> DEFINE u == SubSeq(w, 1, i)
           v == SubSeq(w, i + 1, Len(w))
           x == u \o <<c>>
<1>1. u \in Seq(Letters) /\ Len(u) = i /\ \A m \in 1 .. i : u[m] = w[m]
  OBVIOUS
<1>2. v \in Seq(Letters) /\ Len(v) = Len(w) - i /\ \A m \in 1 .. (Len(w) - i) : v[m] = w[m + i]
  OBVIOUS
<1>3. With(w, i, c) = x \o v
  BY DEF With
<1> HIDE DEF u, v
<1>4. x \in Seq(Letters) /\ Len(x) = i + 1 /\ \A m \in 1 .. (i + 1) : x[m] = IF m <= i THEN w[m] ELSE c
  BY <1>1
<1> HIDE DEF x
<1>5. x \o v \in Seq(Letters) /\ Len(x \o v) = Len(w) + 1
  <2>1. x \o v \in Seq(Letters) /\ Len(x \o v) = Len(x) + Len(v)
    BY <1>2, <1>4, ConcatProperties
  <2> QED
    BY <1>2, <1>4, <2>1
<1>6. \A m \in 1 .. (Len(w) + 1) : (x \o v)[m] = IF m <= i THEN w[m] ELSE IF m = i + 1 THEN c ELSE w[m - 1]
  <2> SUFFICES ASSUME NEW m \in 1 .. (Len(w) + 1)
               PROVE  (x \o v)[m] = IF m <= i THEN w[m] ELSE IF m = i + 1 THEN c ELSE w[m - 1]
    OBVIOUS
  <2>1. CASE m <= i + 1
    <3>1. (x \o v)[m] = x[m]
      BY <1>2, <1>4, <2>1, ConcatProperties
    <3> QED
      BY <1>4, <2>1, <3>1
  <2>2. CASE m > i + 1
    <3>1. (x \o v)[m] = v[m - (i + 1)] /\ m - (i + 1) \in 1 .. (Len(w) - i) /\ (m - (i + 1)) + i = m - 1
      BY <1>2, <1>4, <2>2, ConcatProperties
    <3> QED
      BY <1>2, <2>2, <3>1
  <2>3. m <= i + 1 \/ m > i + 1
    OBVIOUS
  <2> QED
    BY <2>1, <2>2, <2>3
<1> QED
  BY <1>3, <1>5, <1>6

LEMMA OneEditIs ==
  ASSUME NEW w
  PROVE  L!OneEdit(w) = {[w EXCEPT ![i] = c] : i \in 1 .. Len(w), c \in Letters}
                        \cup {Without(w, i) : i \in 1 .. Len(w)}
                        \cup {With(w, i, c) : i \in 0 .. Len(w), c \in Letters}
BY DEF L!OneEdit, Without, With

LEMMA SameWords ==
  ASSUME NEW v \in Seq(Letters), NEW w \in Seq(Letters), Len(v) = Len(w), \A m \in 1 .. Len(w) : v[m] = w[m]
  PROVE  v = w
OBVIOUS

LEMMA EditsAreNear ==
  ASSUME NEW a \in Seq(Letters), NEW b \in L!OneEdit(a)
  PROVE  Near(a, b, Len(a), Len(b))
<1> DEFINE n == Len(a)
<1>1. n \in Nat
  OBVIOUS
<1>2. ASSUME NEW i \in 1 .. n, NEW c \in Letters, b = [a EXCEPT ![i] = c] PROVE Other(a, b, n, Len(b))
  <2>1. Len(b) = n /\ \A m \in 1 .. n : m # i => a[m] = b[m]
    BY <1>2
  <2> QED
    BY <1>1, <2>1 DEF Other
<1>3. ASSUME NEW i \in 1 .. n, b = Without(a, i) PROVE Extra(a, b, n, Len(b))
  <2>1. Len(b) = n - 1 /\ \A m \in 1 .. (n - 1) : b[m] = IF m < i THEN a[m] ELSE a[m + 1]
    BY <1>3, WithoutIs
  <2>2. (\A m \in 1 .. (i - 1) : a[m] = b[m]) /\ \A m \in i .. (n - 1) : a[m + 1] = b[m]
    BY <1>1, <2>1
  <2> QED
    BY <1>1, <2>1, <2>2 DEF Extra
<1>4. ASSUME NEW i \in 0 .. n, NEW c \in Letters, b = With(a, i, c) PROVE Extra(b, a, Len(b), n)
  <2>1. Len(b) = n + 1 /\ \A m \in 1 .. (n + 1) : b[m] = IF m <= i THEN a[m] ELSE IF m = i + 1 THEN c ELSE a[m - 1]
    BY <1>4, WithIs
  <2>2. (\A m \in 1 .. i : b[m] = a[m]) /\ \A m \in (i + 1) .. n : b[m + 1] = a[m]
    BY <1>1, <2>1
  <2>3. i + 1 \in 1 .. (n + 1) /\ (i + 1) - 1 = i
    BY <1>1
  <2> QED
    BY <1>1, <2>1, <2>2, <2>3 DEF Extra
<1>5. \/ \E i \in 1 .. n, c \in Letters : b = [a EXCEPT ![i] = c]
      \/ \E i \in 1 .. n : b = Without(a, i)
      \/ \E i \in 0 .. n, c \in Letters : b = With(a, i, c)
  BY OneEditIs
<1> QED
  BY <1>2, <1>3, <1>4, <1>5 DEF Near

LEMMA NearAreEdits ==
  ASSUME NEW a \in Seq(Letters), NEW b \in Seq(Letters), a # b, Near(a, b, Len(a), Len(b))
  PROVE  b \in L!OneEdit(a)
<1>1. Len(a) \in Nat /\ Len(b) \in Nat
  OBVIOUS
<1>2. CASE Other(a, b, Len(a), Len(b))
  <2>1. Len(a) = Len(b) /\ Len(a) # 0
    BY <1>2, SameWords DEF Other
  <2>2. PICK k \in 1 .. Len(a) : \A m \in 1 .. Len(a) : m # k => a[m] = b[m]
    BY <1>2, <2>1 DEF Other
  <2>3. b[k] \in Letters
    BY <2>1, <2>2
  <2>4. b = [a EXCEPT ![k] = b[k]]
    <3> DEFINE x == [a EXCEPT ![k] = b[k]]
    <3>1. x \in Seq(Letters) /\ Len(x) = Len(a) /\ \A m \in 1 .. Len(a) : x[m] = b[m]
      BY <2>2, <2>3
    <3> HIDE DEF x
    <3>2. x = b
      BY <2>1, <3>1, SameWords
    <3> QED
      BY <3>2 DEF x
  <2> QED
    BY <2>2, <2>3, <2>4, OneEditIs
<1>3. CASE Extra(a, b, Len(a), Len(b))
  <2>1. Len(a) = Len(b) + 1
    BY <1>3 DEF Extra
  <2>2. PICK k \in 1 .. Len(a) : (\A m \in 1 .. (k - 1) : a[m] = b[m]) /\ \A m \in k .. Len(b) : a[m + 1] = b[m]
    BY <1>3 DEF Extra
  <2>3. \A m \in 1 .. Len(b) : Without(a, k)[m] = b[m]
    <3>1. \A m \in 1 .. (Len(a) - 1) : Without(a, k)[m] = IF m < k THEN a[m] ELSE a[m + 1]
      BY WithoutIs
    <3> QED
      BY <1>1, <2>1, <2>2, <3>1
  <2>4. Without(a, k) = b
    BY <1>1, <2>1, <2>2, <2>3, WithoutIs, SameWords
  <2> QED
    BY <2>2, <2>4, OneEditIs
<1>4. CASE Extra(b, a, Len(b), Len(a))
  <2>1. Len(b) = Len(a) + 1
    BY <1>4 DEF Extra
  <2>2. PICK k \in 1 .. Len(b) : (\A m \in 1 .. (k - 1) : b[m] = a[m]) /\ \A m \in k .. Len(a) : b[m + 1] = a[m]
    BY <1>4 DEF Extra
  <2> DEFINE i == k - 1
  <2>3. i \in 0 .. Len(a) /\ b[k] \in Letters
    BY <1>1, <2>1, <2>2
  <2>4. ASSUME NEW m \in 1 .. Len(b) PROVE With(a, i, b[k])[m] = b[m]
    <3>1. With(a, i, b[k])[m] = IF m <= i THEN a[m] ELSE IF m = i + 1 THEN b[k] ELSE a[m - 1]
      <4> HIDE DEF i
      <4>1. \A j \in 1 .. (Len(a) + 1) :
              With(a, i, b[k])[j] = IF j <= i THEN a[j] ELSE IF j = i + 1 THEN b[k] ELSE a[j - 1]
        BY <2>3, WithIs
      <4> QED
        BY <2>1, <4>1
    <3>2. CASE m <= i
      BY <2>2, <3>1, <3>2
    <3>3. CASE m = i + 1
      BY <2>2, <3>1, <3>3
    <3>4. CASE m > i + 1
      <4>1. m - 1 \in k .. Len(a) /\ (m - 1) + 1 = m
        BY <1>1, <2>1, <2>2, <3>4
      <4> QED
        BY <2>2, <3>1, <3>4, <4>1
    <3> QED
      BY <2>2, <3>2, <3>3, <3>4
  <2>5. With(a, i, b[k]) = b
    <3> HIDE DEF i
    <3>1. With(a, i, b[k]) \in Seq(Letters) /\ Len(With(a, i, b[k])) = Len(b)
      BY <2>1, <2>3, WithIs
    <3> QED
      BY <2>4, <3>1, SameWords
  <2> QED
    BY <2>3, <2>5, OneEditIs
<1> QED
  BY <1>2, <1>3, <1>4 DEF Near

LEMMA EditDistanceIs ==
  ASSUME NEW a \in Seq(Letters), NEW b \in Seq(Letters), a # b
  PROVE  /\ L!EditDistance(a, b) \in Nat /\ L!EditDistance(a, b) >= 1
         /\ L!EditDistance(a, b) <= 1 <=> b \in L!OneEdit(a)
<1> DEFINE la == Len(a)
           lb == Len(b)
           e == L!DistanceRows(a, b)[la][lb]
<1>1. la \in Nat /\ lb \in Nat
  OBVIOUS
<1>2. b \in L!OneEdit(a) <=> Near(a, b, la, lb)
  BY EditsAreNear, NearAreEdits
<1>3. CASE L!Abs(la - lb) > 2
  <2>1. L!EditDistance(a, b) = IF la < lb THEN lb ELSE la
    BY <1>3 DEF L!EditDistance
  <2>2. la - lb > 2 \/ lb - la > 2
    BY <1>1, <1>3 DEF L!Abs
  <2>3. ~Near(a, b, la, lb)
    BY <1>1, <2>2 DEF Near, Other, Extra
  <2> QED
    BY <1>1, <1>2, <2>1, <2>2, <2>3
<1>4. CASE ~(L!Abs(la - lb) > 2)
  <2>1. L!EditDistance(a, b) = e
    BY <1>4 DEF L!EditDistance
  <2>2. Measured(a, b, e, la, lb)
    BY <1>1, RowsMeasured
  <2> HIDE DEF e
  <2>3. ~Same(a, b, la, lb)
    BY SameWords DEF Same
  <2> QED
    BY <1>2, <2>1, <2>2, <2>3 DEF Measured
<1> QED
  BY <1>3, <1>4

(***************************************************************************)
(* The lookup: what the loop has seen of the rows.                         *)
(***************************************************************************)
Seen == {i \in L!Near : i < at}
Looked ==
    /\ rows \in L!Tables /\ query \in L!Spoken /\ at \in 1 .. (Len(rows) + 1) /\ tie \in BOOLEAN
    /\ best \in {None} \cup DOMAIN rows
    /\ ~L!Exact =>
         /\ best = None => Seen = {}
         /\ best # None => best \in Seen
         /\ best # None => (tie <=> Seen # {best})

LEMMA LookedIsInv == L!Inv <=> Looked
BY DEF L!Inv, L!TypeOK, Looked, Seen

LEMMA TablesAre ==
  ASSUME NEW t \in L!Tables
  PROVE  /\ Len(t) \in Nat /\ DOMAIN t = 1 .. Len(t)
         /\ \A i \in 1 .. Len(t) : t[i] \in Seq(Letters)
<1>1. PnrLength \in Nat /\ MaxRows \in Nat
  BY LookupAssumption DEF L!SizeAssumption
<1>2. PICK n \in 0 .. MaxRows : t \in [1 .. n -> L!Words(PnrLength)]
  BY DEF L!Tables
<1>3. L!Words(PnrLength) \subseteq Seq(Letters)
  BY <1>1 DEF L!Words
<1>4. t \in Seq(L!Words(PnrLength)) /\ Len(t) = n
  BY <1>1, <1>2
<1> QED
  BY <1>3, <1>4

LEMMA SpokenAre == L!Spoken \subseteq Seq(Letters)
<1>1. PnrLength \in Nat
  BY LookupAssumption DEF L!SizeAssumption
<1> QED
  BY <1>1 DEF L!Spoken, L!Words

\* While no row is the query itself, a near row is one at distance 1.
LEMMA DistanceIs ==
  ASSUME Looked, ~L!Exact, NEW i \in DOMAIN rows
  PROVE  /\ L!Distance(i) \in Nat /\ L!Distance(i) >= 1
         /\ L!Distance(i) <= 1 <=> i \in L!Near
<1>1. rows[i] \in Seq(Letters) /\ query \in Seq(Letters)
  BY TablesAre, SpokenAre DEF Looked
<1>2. query # rows[i]
  BY DEF L!Exact
<1> QED
  BY <1>1, <1>2, EditDistanceIs DEF L!Distance, L!Near

LEMMA LookupInit == L!Init => Looked
<1> SUFFICES ASSUME L!Init PROVE Looked
  OBVIOUS
<1>1. rows \in L!Tables /\ query \in L!Spoken /\ at = 1 /\ best = None /\ tie = FALSE
  BY DEF L!Init
<1>2. Len(rows) \in Nat /\ DOMAIN rows = 1 .. Len(rows)
  BY <1>1, TablesAre
<1>3. Seen = {}
  BY <1>1, <1>2 DEF Seen, L!Near
<1>4. at \in 1 .. (Len(rows) + 1)
  BY <1>1, <1>2
<1>5. tie \in BOOLEAN
  BY <1>1, Zenon
<1> QED
  BY <1>1, <1>3, <1>4, <1>5, Zenon DEF Looked

LEMMA LookupStep == Looked /\ L!Next => Looked'
<1> SUFFICES ASSUME Looked, L!MatchRow PROVE Looked'
  BY DEF L!Next
<1> DEFINE d == L!Distance(at)
<1>1. /\ ~L!Exact /\ at <= Len(rows) /\ at' = at + 1 /\ rows' = rows /\ query' = query
      /\ IF d > 1 THEN UNCHANGED <<best, tie>>
         ELSE IF best = None THEN best' = at /\ tie' = FALSE
         ELSE IF d < L!Distance(best) THEN best' = at /\ tie' = FALSE
         ELSE best' = best /\ tie' = (tie \/ d = L!Distance(best))
  BY DEF L!MatchRow
<1>2. Len(rows) \in Nat /\ DOMAIN rows = 1 .. Len(rows) /\ at \in DOMAIN rows /\ at \in Nat
  BY <1>1, TablesAre DEF Looked
<1>3. None \notin Nat
  BY LookupAssumption DEF L!SizeAssumption
<1>4. ~L!Exact' /\ L!Near' = L!Near
  BY <1>1 DEF L!Exact, L!Near
<1>5. L!Near \subseteq 1 .. Len(rows)
  BY <1>2 DEF L!Near
<1>6. Seen' = IF at \in L!Near THEN Seen \cup {at} ELSE Seen
  <2>1. Seen' = {i \in L!Near : i < at + 1}
    BY <1>1, <1>4 DEF Seen
  <2>2. Seen = {i \in L!Near : i < at}
    BY DEF Seen
  <2>3. \A i \in L!Near : i < at + 1 <=> i < at \/ i = at
    BY <1>2, <1>5
  <2> QED
    BY <2>1, <2>2, <2>3
<1>7. d \in Nat /\ d >= 1 /\ (d <= 1 <=> at \in L!Near)
  BY <1>1, <1>2, DistanceIs
<1>8. best # None => best \in Seen /\ best # at /\ L!Distance(best) = 1
  <2>1. best # None => best \in Seen /\ best \in L!Near /\ best < at
    BY <1>1 DEF Looked, Seen
  <2>2. best # None => L!Distance(best) \in Nat /\ L!Distance(best) >= 1 /\ L!Distance(best) <= 1
    BY <1>1, <1>2, <1>5, <2>1, DistanceIs
  <2> QED
    BY <1>2, <2>1, <2>2
<1> HIDE DEF d
<1>9. /\ best = None => Seen = {}
      /\ best # None => (tie <=> Seen # {best})
      /\ tie \in BOOLEAN /\ rows \in L!Tables /\ query \in L!Spoken
  BY <1>1 DEF Looked
<1>10. at' \in 1 .. (Len(rows') + 1)
  BY <1>1, <1>2
<1>11. CASE at \notin L!Near
  <2>1. best' = best /\ tie' = tie /\ Seen' = Seen
    BY <1>1, <1>6, <1>7, <1>11
  <2> QED
    BY <1>1, <1>4, <1>8, <1>9, <1>10, <2>1 DEF Looked
<1>12. CASE at \in L!Near /\ best = None
  <2>1. best' = at /\ tie' = FALSE /\ Seen' = {at}
    BY <1>1, <1>6, <1>7, <1>9, <1>12
  <2> QED
    BY <1>1, <1>2, <1>3, <1>4, <1>9, <1>10, <2>1 DEF Looked
<1>13. CASE at \in L!Near /\ best # None
  <2>1. d = 1 /\ L!Distance(best) = 1
    BY <1>7, <1>8, <1>13
  <2>2. best' = best /\ tie' = (tie \/ TRUE)
    BY <1>1, <1>13, <2>1
  <2>4. tie' = TRUE /\ Seen' = Seen \cup {at}
    BY <1>6, <1>13, <2>2
  <2>3. best \in Seen' /\ Seen' # {best}
    BY <1>8, <1>13, <2>4
  <2> QED
    BY <1>1, <1>4, <1>9, <1>10, <1>13, <2>2, <2>3, <2>4 DEF Looked
<1> QED
  BY <1>11, <1>12, <1>13

LEMMA SameLookupSizes == \A S : L!Cardinality(S) = Cardinality(S)
BY Zenon DEF L!Cardinality, Cardinality

\* The answer is right once every row has been seen: one near row is the answer,
\* two are a tie.
LEMMA LookupAnswers == Looked => L!NearestOrNone
<1> SUFFICES ASSUME Looked, L!Ended, ~L!Exact
             PROVE  L!Answer = IF Cardinality(L!Near) = 1
                               THEN rows[CHOOSE i \in L!Near : TRUE] ELSE None
  BY SameLookupSizes DEF L!NearestOrNone, L!Answer, L!Near
<1>1. Len(rows) \in Nat /\ DOMAIN rows = 1 .. Len(rows) /\ at = Len(rows) + 1
  BY TablesAre DEF Looked, L!Ended
<1>2. Seen = L!Near
  BY <1>1 DEF Seen, L!Near
<1>3. CASE best = None
  <2>1. L!Near = {} /\ Cardinality(L!Near) = 0
    BY <1>2, <1>3, FS_EmptySet DEF Looked
  <2> QED
    BY <1>3, <2>1 DEF L!Answer
<1>4. CASE best # None /\ ~tie
  <2>1. L!Near = {best}
    BY <1>2, <1>4 DEF Looked
  <2>2. Cardinality(L!Near) = 1
    BY <2>1, FS_Singleton
  <2>3. (CHOOSE i \in L!Near : TRUE) = best
    BY <2>1
  <2>4. L!Answer = rows[best]
    BY <1>4 DEF L!Answer
  <2>5. L!Answer = rows[CHOOSE i \in L!Near : TRUE]
    BY <2>3, <2>4, Zenon
  <2> QED
    BY <2>2, <2>5
<1>5. CASE best # None /\ tie
  <2>1. best \in L!Near /\ L!Near # {best}
    BY <1>2, <1>5 DEF Looked
  <2>2. IsFiniteSet(L!Near)
    <3>1. IsFiniteSet(1 .. Len(rows)) /\ L!Near \in SUBSET (1 .. Len(rows))
      BY <1>1, FS_Interval DEF L!Near
    <3> QED
      BY <3>1, FS_Subset
  <2>3. Cardinality(L!Near) # 1
    BY <2>1, <2>2, FS_Singleton
  <2> QED
    BY <1>5, <2>3 DEF L!Answer
<1> QED
  BY <1>3, <1>4, <1>5

\* However the table is ordered, the lookup answers with the exact record locator,
\* else with the one a single edit away, else with nothing (_fuzzy_match_pnr).
THEOREM LookupFindsNearest == Spec => []NearestOrNone
<1> DEFINE Safe == component = "lookup" => Looked
<1>1. Init => Safe
  BY LookupInit DEF Init
<1>2. Safe /\ [Next]_vars => Safe'
  <2> SUFFICES ASSUME Safe, [Next]_vars, component' = "lookup" PROVE Looked'
    OBVIOUS
  <2>1. CASE component = "lookup" /\ L!Next
    BY <2>1, LookupStep
  <2>2. CASE component = "lookup" /\ UNCHANGED vars
    BY <2>2 DEF vars, varsL, Looked, Seen, L!Near, L!Exact
  <2> QED
    BY <2>1, <2>2 DEF Next, vars
<1>3. Safe => NearestOrNone
  BY LookupAnswers, LookedIsInv DEF NearestOrNone
<1> QED
  BY <1>1, <1>2, <1>3, PTL DEF Spec

==============================================================================
