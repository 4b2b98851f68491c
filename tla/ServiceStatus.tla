------------------------------ MODULE ServiceStatus ------------------------------
(***************************************************************************)
(* The readiness of the services a session needs (src/src/server.py): a    *)
(* client that connects has the LLM, the ASR and the TTS checked one after *)
(* the other and is given a session id or a 503, and the list of services  *)
(* shows which of them are up.  The checks run in the threads of one pool, *)
(* under a timeout for a connection and under none for the list.  A        *)
(* self-hosted service is probed; the cloud TTS is made to speak once      *)
(* (prewarm.warmup_tts_synthesis), under one lock for all of them.         *)
(***************************************************************************)
EXTENDS Naturals, Sequences, FiniteSets

CONSTANTS
  Connects,    \* requests for a session: create_session_config, start_bot
  Lists,       \* requests for the list of services: get_services
  Hosted,      \* the self-hosted services, each its own probe target
  Cloud,       \* the cloud TTS
  Order,       \* the services a connection checks, in the order of the checks
  Threads,     \* threads of the pool
  None

ServicesAssumption ==
  /\ Cloud \notin Hosted /\ Connects \cap Lists = {}
  /\ Order \in Seq(Hosted \cup {Cloud}) /\ Order # <<>>
  /\ \A i, k \in DOMAIN Order : Order[i] = Order[k] => i = k

Services == Hosted \cup {Cloud}
Clients == Connects \cup Lists

VARIABLES
  service,  \* what each service does: "up", "loading", "down"; the cloud may "hang"
  seen,     \* _seen_service_targets
  failed,   \* _failed_service_targets
  warm,     \* _TTS_SYNTHESIS_READY_KEYS has the cloud TTS
  lock,     \* the job that holds _TTS_SYNTHESIS_READY_LOCK
  job,      \* by client and service: the call handed to the pool
  client    \* by client: the service it waits for and its outcome

memory == <<seen, failed, warm>>
vars == <<service, memory, lock, job, client>>

Statuses == {"ready", "starting", "offline", "error"}
NoJob == [at |-> "none", result |-> "none"]
Rest == [at |-> "idle", checked |-> 0]
Running == {j \in Clients \X Services : job[j].at \in {"probing", "measured", "blocked", "speaking"}}

TypeOK ==
  /\ service \in [Services -> {"up", "loading", "down", "hangs"}]
  /\ seen \subseteq Hosted /\ failed \subseteq seen /\ warm \in BOOLEAN
  /\ lock \in (Connects \X {Cloud}) \cup {None}
  /\ job \in [Clients \X Services ->
                [at : {"none", "queued", "probing", "measured", "blocked", "speaking", "done"},
                 result : Statuses \cup {"none"}]]
  /\ client \in [Clients -> [at : {"idle", "waiting", "given", "refused"},
                             checked : 0..Len(Order)]]

Init ==
  /\ service \in [Services -> {"up", "down"}]
  /\ seen = {} /\ failed = {} /\ warm = FALSE /\ lock = None
  /\ job = [j \in Clients \X Services |-> NoJob]
  /\ client = [c \in Clients |-> Rest]

\* The services themselves: a container is started, loads, and is stopped.
ServiceMoves(t) ==
  /\ \/ service[t] = "down" /\ service' = [service EXCEPT ![t] = "loading"]
     \/ service[t] = "loading" /\ service' = [service EXCEPT ![t] = "up"]
     \/ service[t] \in {"up", "hangs"} /\ service' = [service EXCEPT ![t] = "down"]
     \/ t = Cloud /\ service[t] = "up" /\ service' = [service EXCEPT ![t] = "hangs"]
  /\ UNCHANGED <<memory, lock, job, client>>

(***************************************************************************)
(* The calls in the threads.                                               *)
(***************************************************************************)
Goes(j, at) == job' = [job EXCEPT ![j].at = at]
Ends(j, result) == job' = [job EXCEPT ![j] = [at |-> "done", result |-> result]]

\* A thread of the pool takes the call up.
TakeUp(j) ==
  /\ job[j].at = "queued" /\ Cardinality(Running) < Threads
  /\ Goes(j, IF j[2] = Cloud THEN "blocked" ELSE "probing")
  /\ UNCHANGED <<service, memory, lock, client>>

\* _probe_http, _probe_tcp, _unreachable_status: only a stopped container refuses.
Measured(t) ==
  CASE service[t] = "up" -> "ready"
    [] service[t] = "loading" -> "starting"
    [] OTHER -> "offline"
Probe(j) ==
  /\ job[j].at = "probing"
  /\ job' = [job EXCEPT ![j] = [at |-> "measured", result |-> Measured(j[2])]]
  /\ UNCHANGED <<service, memory, lock, client>>

\* _remembered_status, in the thread, on what the probe found a moment ago.
Remembered(t, status) ==
  IF status = "offline" THEN IF t \in seen THEN "error" ELSE "offline"
  ELSE IF status = "ready" \/ t \notin failed THEN status ELSE "error"
Remember(j) ==
  LET t == j[2]  status == job[j].result
  IN /\ job[j].at = "measured"
     /\ seen' = IF status = "offline" THEN seen ELSE seen \cup {t}
     /\ failed' = IF status = "ready" THEN failed \ {t}
                  ELSE IF status = "offline" THEN failed \cup ({t} \cap seen) ELSE failed
     /\ Ends(j, Remembered(t, status))
     /\ UNCHANGED <<service, warm, lock, client>>

\* warmup_tts_synthesis: the lock is held while the service speaks.
Lock(j) ==
  /\ job[j].at = "blocked" /\ lock = None
  /\ IF warm THEN Ends(j, "ready") /\ UNCHANGED lock
             ELSE Goes(j, "speaking") /\ lock' = j
  /\ UNCHANGED <<service, memory, client>>

\* A call that hangs holds the thread and the lock for as long as it does.
Spoken(j) ==
  /\ job[j].at = "speaking" /\ service[Cloud] # "hangs"
  /\ lock' = None
  /\ warm' = (warm \/ service[Cloud] = "up")
  /\ Ends(j, IF service[Cloud] = "up" THEN "ready" ELSE "offline")
  /\ UNCHANGED <<service, seen, failed, client>>

(***************************************************************************)
(* Connections.                                                            *)
(***************************************************************************)
Checking(c) == <<c, Order[client[c].checked + 1]>>

Connect(c) ==
  /\ client[c].at = "idle" /\ c \in Connects
  /\ client' = [client EXCEPT ![c].at = "waiting"]
  /\ job' = [job EXCEPT ![<<c, Order[1]>>].at = "queued"]
  /\ UNCHANGED <<service, memory, lock>>

\* A bug: a service that is still starting will do.
NextCheckEarly(c) ==
  /\ client[c].at = "waiting" /\ c \in Connects /\ job[Checking(c)].at = "done"
  /\ job[Checking(c)].result \in {"ready", "starting"}
  /\ IF client[c].checked + 1 = Len(Order)
     THEN client' = [client EXCEPT ![c].at = "given", ![c].checked = @ + 1] /\ UNCHANGED job
     ELSE /\ client' = [client EXCEPT ![c].checked = @ + 1]
          /\ job' = [job EXCEPT ![<<c, Order[client[c].checked + 2]>>].at = "queued"]
  /\ UNCHANGED <<service, memory, lock>>

\* _ensure_services_ready_for_connection goes on to the next service, and a
\* session id is given after the last.
NextCheck(c) ==
  /\ client[c].at = "waiting" /\ c \in Connects /\ job[Checking(c)].at = "done"
  /\ job[Checking(c)].result = "ready"
  /\ IF client[c].checked + 1 = Len(Order)
     THEN client' = [client EXCEPT ![c].at = "given", ![c].checked = @ + 1] /\ UNCHANGED job
     ELSE /\ client' = [client EXCEPT ![c].checked = @ + 1]
          /\ job' = [job EXCEPT ![<<c, Order[client[c].checked + 2]>>].at = "queued"]
  /\ UNCHANGED <<service, memory, lock>>

\* _raise_unless_ready: 503.
NotReady(c) ==
  /\ client[c].at = "waiting" /\ c \in Connects /\ job[Checking(c)].at = "done"
  /\ job[Checking(c)].result # "ready"
  /\ client' = [client EXCEPT ![c].at = "refused"]
  /\ UNCHANGED <<service, memory, lock, job>>

\* A bug: the check of a cloud TTS has no timeout.
TimesOutHosted(c) ==
  /\ client[c].at = "waiting" /\ c \in Connects /\ job[Checking(c)].at # "done"
  /\ Checking(c)[2] # Cloud
  /\ client' = [client EXCEPT ![c].at = "refused"]
  /\ UNCHANGED <<service, memory, lock, job>>

\* _run_blocking with a timeout gives up on the call; its thread does not.
TimesOut(c) ==
  /\ client[c].at = "waiting" /\ c \in Connects /\ job[Checking(c)].at # "done"
  /\ client' = [client EXCEPT ![c].at = "refused"]
  /\ UNCHANGED <<service, memory, lock, job>>

(***************************************************************************)
(* The list of services.                                                   *)
(***************************************************************************)
AskList(c) ==
  /\ client[c].at = "idle" /\ c \in Lists
  /\ client' = [client EXCEPT ![c].at = "waiting"]
  /\ job' = [j \in DOMAIN job |-> IF j[1] = c /\ j[2] \in Hosted
                                  THEN [at |-> "queued", result |-> "none"] ELSE job[j]]
  /\ UNCHANGED <<service, memory, lock>>

\* _with_service_status gathers the probes of every target; the entries that
\* are offline are hidden, unless their slot has nothing else.
ShowList(c) ==
  /\ client[c].at = "waiting" /\ c \in Lists
  /\ \A t \in Hosted : job[<<c, t>>].at = "done"
  /\ client' = [client EXCEPT ![c] = Rest]
  /\ job' = [j \in DOMAIN job |-> IF j[1] = c THEN NoJob ELSE job[j]]
  /\ UNCHANGED <<service, memory, lock>>

Step(c) ==
  \/ Connect(c) \/ NextCheck(c) \/ NotReady(c) \/ TimesOut(c) \/ AskList(c) \/ ShowList(c)
Thread(j) == TakeUp(j) \/ Probe(j) \/ Remember(j) \/ Lock(j) \/ Spoken(j)
Next ==
  \/ \E t \in Services : ServiceMoves(t)
  \/ \E c \in Clients : Step(c)
  \/ \E j \in Clients \X Services : Thread(j)

\* Handlers and their timers run; a service does as it likes, and a thread that
\* waits for the lock or for a service may wait for ever.
Fairness == \A c \in Connects : WF_vars(NextCheck(c) \/ NotReady(c) \/ TimesOut(c))
Spec == Init /\ [][Next]_vars /\ Fairness

(***************************************************************************)
(* Properties.                                                             *)
(***************************************************************************)
\* A session id is given when each of its services was found ready, by a call
\* of this request, and a cloud TTS among them has spoken once (the three
\* _ensure_*_ready_for_connection, in threads that other requests share).
IdMeansReady ==
  \A c \in Connects : client[c].at = "given" =>
    /\ \A i \in DOMAIN Order : job[<<c, Order[i]>>].result = "ready"
    /\ (\E i \in DOMAIN Order : Order[i] = Cloud) => warm

\* What it rests on: the services found ready stay so for the request that asked,
\* the one it waits for is another, and only the warm-up makes the cloud ready.
FoundReadyFor(c) ==
  /\ client[c].at = "idle" => client[c].checked = 0
  /\ client[c].at \in {"waiting", "given"} =>
       /\ \A i \in 1..client[c].checked :
            job[<<c, Order[i]>>] = [at |-> "done", result |-> "ready"]
       /\ client[c].checked = Len(Order) <=> client[c].at = "given"
FoundReady == \A c \in Connects : FoundReadyFor(c)
CloudByWarmUp ==
  /\ \A j \in Clients \X Services :
       /\ job[j].at \in {"probing", "measured"} => j[2] # Cloud
       /\ job[j].at \in {"blocked", "speaking"} => j[2] = Cloud
       /\ j[2] = Cloud /\ job[j].result = "ready" => warm
  /\ \A c \in Lists : job[<<c, Cloud>>] = NoJob

Inv == TypeOK /\ IdMeansReady /\ FoundReady /\ CloudByWarmUp

\* A request for a session is answered, whatever the services do: a TTS that
\* hangs costs it the timeout (_run_blocking).
Waiting(c) == client[c].at = "waiting"
Answered(c) == client[c].at \in {"given", "refused"}
ConnectAnswered == \A c \in Connects : Waiting(c) ~> Answered(c)
==================================================================================
