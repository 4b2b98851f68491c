------------------------------- MODULE Thinking -------------------------------
(***************************************************************************)
(* Deliberate thinking in the omni_assistant_subagents example: the        *)
(* Speaker stalls and queues a question, PostAckMediaDispatchProcessor     *)
(* starts the queued work once the stall has been heard, and               *)
(* ThinkingController hands it to the Thinker and speaks the answer        *)
(* later, unless the user has interrupted in between.                      *)
(*                                                                         *)
(* The processor runs in two tasks, one for system frames (who speaks) and *)
(* one for the others; each works on one frame to its end, and dispatching *)
(* suspends it.  Job responses arrive in tasks of their own.               *)
(***************************************************************************)
EXTENDS Naturals, Sequences, FiniteSets

CONSTANTS
  MaxQuestions,     \* stalls
  MaxInterruptions  \* times the user talks over the assistant

BoundsAssumption == MaxQuestions \in Nat /\ MaxInterruptions \in Nat

VARIABLES
  ack,         \* the processor's flags: speaking, interrupted, skip, dispatched
  at,          \* where each of its tasks is
  call,        \* the start_pending each task last ran: question, generation
  pending,     \* the queued question, 0 if none
  active, generation, activeTask,
  jobs,        \* by task id: question, generation, and whether still running
  followups,   \* responses waiting out the follow-up delay
  asked,       \* by question: the generation it was queued in
  spoken       \* the answers spoken, with the generation they were spoken in

vars == <<ack, at, call, pending, active, generation, activeTask, jobs, followups, asked, spoken>>
controller == <<pending, active, generation, activeTask, jobs, followups, asked, spoken>>

Tasks == {"system", "process"}

(***************************************************************************)
(* PostAckMediaDispatchProcessor.                                          *)
(***************************************************************************)
\* _dispatch_pending_work; the media analysis is started first, and may take.
Dispatch(task, flags) ==
  /\ ack' = [flags EXCEPT !.dispatched = TRUE]
  /\ at' = IF ack.dispatched THEN at ELSE [at EXCEPT ![task] = "media"]

ConfigureOutput ==
  /\ at["process"] = "idle"
  /\ ack' = [ack EXCEPT !.skip = ~@]
  /\ UNCHANGED <<at, call, controller>>

ResponseStart ==
  /\ at["process"] = "idle" /\ ack.dispatched
  /\ ack' = [ack EXCEPT !.dispatched = FALSE]
  /\ UNCHANGED <<at, call, controller>>

\* Text mode: nobody is going to stop speaking.
ResponseEnd ==
  /\ at["process"] = "idle" /\ ack.skip /\ ~ack.speaking
  /\ Dispatch("process", ack)
  /\ UNCHANGED <<call, controller>>

BotStartedSpeaking ==
  /\ at["system"] = "idle" /\ ~ack.speaking
  /\ ack' = [ack EXCEPT !.speaking = TRUE, !.interrupted = FALSE]
  /\ UNCHANGED <<at, call, controller>>

BotStoppedSpeaking ==
  /\ at["system"] = "idle" /\ ack.speaking
  /\ LET silent == [ack EXCEPT !.speaking = FALSE, !.interrupted = FALSE]
     IN \/ ack.interrupted /\ ack' = silent /\ UNCHANGED at
        \/ ~ack.interrupted /\ Dispatch("system", silent)
  /\ UNCHANGED <<call, controller>>

(***************************************************************************)
(* ThinkingController.                                                     *)
(***************************************************************************)
ClearPending ==
  /\ pending' = 0 /\ active' = FALSE
  /\ generation' = generation + 1
  /\ activeTask' = 0

\* The user talks over the assistant; silence is not interrupted.
UserStartedSpeaking ==
  /\ at["system"] = "idle" /\ ack.speaking
  /\ generation < MaxInterruptions
  /\ ack' = [ack EXCEPT !.interrupted = TRUE]
  /\ ClearPending
  /\ UNCHANGED <<at, call, jobs, followups, asked, spoken>>

\* The Speaker's task, at any time; an older question is overwritten.
Queue ==
  /\ Len(asked) < MaxQuestions
  /\ asked' = Append(asked, generation)
  /\ pending' = Len(asked) + 1
  /\ UNCHANGED <<ack, at, call, active, generation, activeTask, jobs, followups, spoken>>

\* The media analysis has been started, or could not be.
StartPending(task) ==
  /\ at[task] = "media"
  /\ pending' = 0
  /\ \/ /\ pending = 0 \/ active
        /\ at' = [at EXCEPT ![task] = "idle"]
        /\ UNCHANGED <<call, active>>
     \/ /\ pending # 0 /\ ~active
        /\ active' = TRUE
        /\ call' = [call EXCEPT ![task] = [question |-> pending, generation |-> generation]]
        /\ at' = [at EXCEPT ![task] = "thinking"]
  /\ UNCHANGED <<ack, generation, activeTask, jobs, followups, asked, spoken>>

RequestFails(task) ==
  /\ at[task] = "thinking"
  /\ at' = [at EXCEPT ![task] = "idle"]
  /\ active' = FALSE
  /\ UNCHANGED <<ack, call, pending, generation, activeTask, jobs, followups, asked, spoken>>

\* request_job may wait for the worker; it returns as soon as the job is sent.
RequestReturns(task) ==
  /\ at[task] = "thinking"
  /\ at' = [at EXCEPT ![task] = "idle"]
  /\ jobs' = Append(jobs, [question |-> call[task].question,
                           generation |-> call[task].generation, running |-> TRUE])
  /\ activeTask' = IF call[task].generation = generation THEN Len(jobs) + 1 ELSE activeTask
  /\ UNCHANGED <<ack, call, pending, active, generation, followups, asked, spoken>>

\* The Thinker's response, with an answer or without; a job that times out has none.
JobResponse(id, answered) ==
  /\ jobs[id].running
  /\ jobs' = [jobs EXCEPT ![id].running = FALSE]
  /\ \/ /\ id # activeTask
        /\ UNCHANGED <<active, activeTask, followups>>
     \/ /\ id = activeTask
        /\ active' = FALSE /\ activeTask' = 0
        /\ followups' = IF answered
                        THEN followups \cup {[question |-> jobs[id].question,
                                              generation |-> generation]}
                        ELSE followups
  /\ UNCHANGED <<ack, at, call, pending, generation, asked, spoken>>

FollowUpAnyway(f) ==
  /\ followups' = followups \ {f}
  /\ spoken' = Append(spoken, [question |-> f.question, generation |-> generation])
  /\ UNCHANGED <<ack, at, call, pending, active, generation, activeTask, jobs, asked>>

\* After the delay: the three frames of the answer are queued at once.
FollowUp(f) ==
  /\ followups' = followups \ {f}
  /\ spoken' = IF f.generation = generation
               THEN Append(spoken, [question |-> f.question, generation |-> generation])
               ELSE spoken
  /\ UNCHANGED <<ack, at, call, pending, active, generation, activeTask, jobs, asked>>

Init ==
  /\ ack = [speaking |-> FALSE, interrupted |-> FALSE, skip |-> FALSE, dispatched |-> FALSE]
  /\ at = [task \in Tasks |-> "idle"]
  /\ call = [task \in Tasks |-> [question |-> 0, generation |-> 0]]
  /\ pending = 0 /\ active = FALSE /\ generation = 0 /\ activeTask = 0
  /\ jobs = <<>> /\ followups = {} /\ asked = <<>> /\ spoken = <<>>

Next ==
  \/ ConfigureOutput \/ ResponseStart \/ ResponseEnd
  \/ BotStartedSpeaking \/ BotStoppedSpeaking \/ UserStartedSpeaking
  \/ Queue
  \/ \E task \in Tasks : StartPending(task) \/ RequestFails(task) \/ RequestReturns(task)
  \/ \E id \in DOMAIN jobs, answered \in BOOLEAN : JobResponse(id, answered)
  \/ \E f \in followups : FollowUp(f)

Spec == Init /\ [][Next]_vars

(***************************************************************************)
(* Properties.                                                             *)
(***************************************************************************)
Questions == 1..MaxQuestions
Work == [question : Questions \cup {0}, generation : 0..MaxInterruptions]

\* The flags, the two tasks and the controller's fields keep their types.
TypeOK ==
  /\ ack \in [speaking : BOOLEAN, interrupted : BOOLEAN, skip : BOOLEAN, dispatched : BOOLEAN]
  /\ at \in [Tasks -> {"idle", "media", "thinking"}]
  /\ call \in [Tasks -> Work]
  /\ pending \in Questions \cup {0} /\ active \in BOOLEAN
  /\ generation \in 0..MaxInterruptions /\ activeTask \in 0..Len(jobs)
  /\ jobs \in Seq([question : Questions, generation : 0..MaxInterruptions, running : BOOLEAN])
  /\ followups \subseteq Work /\ spoken \in Seq(Work)
  /\ asked \in Seq(0..MaxInterruptions) /\ Len(asked) <= MaxQuestions

\* clear_pending, "test_active_thinker_response_is_ignored_after_interruption":
\* an answer is spoken at most once, and only if nobody has interrupted the
\* assistant since its question was queued.
AnswersUninterrupted ==
  \A i \in DOMAIN spoken :
    /\ spoken[i].generation = asked[spoken[i].question]
    /\ \A j \in 1..(i-1) : spoken[j].question # spoken[i].question

Requesting == {task \in Tasks : at[task] = "thinking" /\ call[task].generation = generation}
Running    == {id \in DOMAIN jobs : jobs[id].running /\ jobs[id].generation = generation}

\* _active: since the last interruption at most one question has been with the
\* Thinker at a time, and the flag is set exactly while one is, although the
\* flag is reset by calls, failures and responses that may be out of date.
OnePass ==
  /\ Cardinality(Requesting) + Cardinality(Running) = (IF active THEN 1 ELSE 0)
  /\ activeTask # 0 => activeTask \in Running

\* What they rest on.  A question is in one place at a time, queued, with the
\* Thinker, waiting to be spoken or spoken, under the generation it was asked in;
At(task) == at[task] = "thinking"
Fits(work) == work.question \in DOMAIN asked /\ work.generation = asked[work.question]
AskedIn ==
  /\ \A question \in DOMAIN asked : asked[question] <= generation
  /\ pending # 0 => pending \in DOMAIN asked /\ asked[pending] = generation
  /\ \A task \in Tasks : At(task) => Fits(call[task])
  /\ \A id \in DOMAIN jobs : Fits(jobs[id])
  /\ \A f \in followups : Fits(f)
  /\ \A i \in DOMAIN spoken : Fits(spoken[i])

Answered(question) == \E id \in DOMAIN jobs : jobs[id].question = question /\ ~jobs[id].running
InOnePlace ==
  /\ \A task \in Tasks : At(task) =>
       /\ call[task].question # pending
       /\ \A id \in DOMAIN jobs : jobs[id].question # call[task].question
       /\ \A other \in Tasks \ {task} : At(other) => call[other].question # call[task].question
  /\ \A id \in DOMAIN jobs :
       /\ jobs[id].question # pending
       /\ \A other \in DOMAIN jobs \ {id} : jobs[other].question # jobs[id].question
  /\ \A f \in followups :
       /\ Answered(f.question)
       /\ \A i \in DOMAIN spoken : spoken[i].question # f.question
  /\ \A i \in DOMAIN spoken :
       /\ Answered(spoken[i].question)
       /\ \A j \in DOMAIN spoken \ {i} : spoken[j].question # spoken[i].question

\* nobody can interrupt while the task of the system frames requests, and what
\* the other task requested before an interruption is the only request left;
OnlyOldRequest ==
  /\ at["process"] # "idle" => ack.dispatched
  /\ At("system") => call["system"].generation = generation
  /\ At("process") /\ call["process"].generation # generation =>
       at["system"] = "idle" /\ ~active

\* and the flag is held by one request, or by the job it became.
HeldByOne ==
  /\ Running = IF activeTask = 0 THEN {} ELSE {activeTask}
  /\ active => IF activeTask = 0 THEN \E task \in Tasks : Requesting = {task} ELSE Requesting = {}
  /\ ~active => activeTask = 0 /\ Requesting = {}

Inv == TypeOK /\ AskedIn /\ InOnePlace /\ OnlyOldRequest /\ HeldByOne

=============================================================================
