------------------------------- MODULE Webcam -------------------------------
(***************************************************************************)
(* The live webcam of the omni_assistant_subagents example.  The browser   *)
(* turns its camera on and off and tells the server so on the data         *)
(* channel; its frames go by HTTP requests of their own.  WebcamController *)
(* sends the newest frame to the WebcamAgent, one job at a time, and pins  *)
(* the observation that comes back to the Speaker's board.                 *)
(*                                                                         *)
(* `told' and the epochs of the jobs and of the board are there for the    *)
(* properties.                                                             *)
(***************************************************************************)
EXTENDS Integers, Sequences, FiniteSets

CONSTANTS
  MaxSessions,  \* times the camera is turned on
  MaxFrames     \* frames uploaded

BoundsAssumption == MaxSessions \in Nat /\ MaxFrames \in Nat

VARIABLES
  phase,       \* "connecting", "started" (the bot), "ready" (the client too), "ended"
  camera,      \* the browser's: whether it is on, and which session this is
  captured,    \* frames taken so far
  messages,    \* webcam-state messages on the data channel: is it on
  uploads,     \* frames on their way, in any order: the session of each
  latest,      \* the sequence number of the newest frame kept, 0 if none
  sequence,    \* frames stored so far
  notices,     \* calls of _notify_frame_uploaded scheduled on the event loop
  enabled, explicitlyDisabled, epoch, summaryEpoch, summaryTask, lastDispatched,
  dispatch,    \* the request the loop awaits: epoch and frame; sequence 0 if none
  jobs,        \* by task id: epoch, whether it sees a frame, and how far it is
  board,       \* the pinned state, with the epoch of the job it came from
  told         \* "nothing", "on" or "off": whether the camera's going on, and then off, was heard

browser    == <<camera, captured, messages>>
store      == <<latest, sequence>>
controller == <<enabled, explicitlyDisabled, epoch, board>>
summaries  == <<summaryEpoch, summaryTask, lastDispatched, dispatch, jobs>>
vars == <<phase, browser, uploads, store, notices, controller, summaries, told>>

NoFrame    == 0
NoDispatch == [sequence |-> 0, epoch |-> 0]
OffState   == [state |-> "off", epoch |-> 0]
OnState    == [state |-> "on", epoch |-> 0]

(***************************************************************************)
(* The browser.                                                            *)
(***************************************************************************)
\* sendWebcamState: not sent before the client is ready.
Send(on) ==
  messages' = IF phase = "ready" THEN Append(messages, on) ELSE messages

TurnOn ==
  /\ ~camera.on /\ camera.session < MaxSessions /\ phase # "ended"
  /\ camera' = [on |-> TRUE, session |-> camera.session + 1]
  /\ Send(TRUE)
  /\ UNCHANGED <<phase, captured, uploads, store, notices, controller, summaries, told>>

TurnOff ==
  /\ camera.on
  /\ camera' = [camera EXCEPT !.on = FALSE]
  /\ Send(FALSE)
  /\ UNCHANGED <<phase, captured, uploads, store, notices, controller, summaries, told>>

\* One upload at a time in a camera session; one cut short by it goes on.
Capture ==
  /\ camera.on /\ captured < MaxFrames /\ phase # "ended"
  /\ camera.session \notin uploads
  /\ captured' = captured + 1
  /\ uploads' = uploads \cup {camera.session}
  /\ UNCHANGED <<phase, camera, messages, store, notices, controller, summaries, told>>

ClientReady ==
  /\ phase = "started" /\ phase' = "ready"
  /\ UNCHANGED <<browser, uploads, store, notices, controller, summaries, told>>

(***************************************************************************)
(* The frame store.                                                        *)
(***************************************************************************)

\* The body of an upload has arrived; its session was checked before.
StoreFrame(session) ==
  /\ session \in uploads
  /\ uploads' = uploads \ {session}
  /\ sequence' = sequence + 1
  /\ latest' = sequence + 1
  /\ notices' = IF phase \in {"started", "ready"} THEN notices + 1 ELSE notices
  /\ UNCHANGED <<phase, browser, controller, summaries, told>>

UploadLost(session) ==
  /\ session \in uploads
  /\ uploads' = uploads \ {session}
  /\ UNCHANGED <<phase, browser, store, notices, controller, summaries, told>>

(***************************************************************************)
(* WebcamController: the camera's state.                                   *)
(***************************************************************************)
StartSummaryLoop ==
  /\ phase = "connecting" /\ phase' = "started"
  /\ board' = OffState
  /\ UNCHANGED <<browser, uploads, store, notices, enabled, explicitlyDisabled, epoch,
                 summaries, told>>

ApplyWebcamState ==
  /\ messages # <<>>
  /\ messages' = Tail(messages)
  /\ enabled' = Head(messages)
  /\ told' = IF enabled' THEN "on" ELSE IF told = "on" THEN "off" ELSE told
  /\ \/ enabled' = enabled /\ UNCHANGED <<controller, latest>>
     \/ /\ enabled' # enabled /\ enabled'
        /\ epoch' = epoch + 1 /\ explicitlyDisabled' = FALSE /\ board' = OnState
        /\ UNCHANGED latest
     \/ /\ enabled' # enabled /\ ~enabled'
        /\ epoch' = epoch + 1 /\ explicitlyDisabled' = TRUE /\ board' = OffState
        /\ latest' = NoFrame
  /\ UNCHANGED <<phase, camera, captured, uploads, sequence, notices, summaries>>

\* A frame says the camera is on, unless the browser has said it is off.
NotifyFrameUploaded ==
  /\ notices > 0
  /\ notices' = notices - 1
  /\ \/ /\ enabled \/ explicitlyDisabled
        /\ UNCHANGED <<enabled, epoch, board>>
     \/ /\ ~enabled /\ ~explicitlyDisabled
        /\ enabled' = TRUE /\ epoch' = epoch + 1 /\ board' = OnState
  /\ UNCHANGED <<phase, browser, uploads, store, explicitlyDisabled, summaries, told>>

(***************************************************************************)
(* WebcamController: the summary loop, and the WebcamAgent.                *)
(***************************************************************************)

\* _run_summary_loop wakes for a frame or for its timeout, up to request_job.
LoopDispatch ==
  /\ phase \in {"started", "ready"} /\ dispatch = NoDispatch
  /\ summaryTask = 0 /\ enabled
  /\ latest \notin {NoFrame, lastDispatched}
  /\ lastDispatched' = latest
  /\ dispatch' = [sequence |-> latest, epoch |-> epoch]
  /\ UNCHANGED <<phase, browser, uploads, store, notices, controller, summaryEpoch,
                 summaryTask, jobs, told>>

\* request_job may wait for the worker; it returns as soon as the job is sent.
RequestReturns ==
  /\ dispatch # NoDispatch /\ dispatch' = NoDispatch
  /\ jobs' = Append(jobs, [at |-> "sent", epoch |-> dispatch.epoch, sees |-> FALSE])
  /\ summaryTask' = Len(jobs) + 1
  /\ summaryEpoch' = dispatch.epoch
  /\ UNCHANGED <<phase, browser, uploads, store, notices, controller, lastDispatched, told>>

RequestFails ==
  /\ dispatch # NoDispatch /\ dispatch' = NoDispatch
  /\ summaryTask' = 0
  /\ UNCHANGED <<phase, browser, uploads, store, notices, controller, summaryEpoch,
                 lastDispatched, jobs, told>>

\* summarize_webcam_frame reads the window when it starts; the newest frame counts.
JobReads(id) ==
  /\ jobs[id].at = "sent"
  /\ jobs' = [jobs EXCEPT ![id].at = "seeing", ![id].sees = (latest # NoFrame)]
  /\ UNCHANGED <<phase, browser, uploads, store, notices, controller, summaryEpoch,
                 summaryTask, lastDispatched, dispatch, told>>

\* Its answer: nothing, no notable change, or the scene.
Observations(id) == IF jobs[id].sees THEN {"none", "noop", "scene"} ELSE {"none"}

Publish(id, observation) ==
  board' = IF observation = "scene"
           THEN [state |-> "seen", epoch |-> jobs[id].epoch] ELSE board

SummaryResponseAnyEpoch(id, observation) ==
  /\ jobs[id].at = "seeing" /\ observation \in Observations(id)
  /\ jobs' = [jobs EXCEPT ![id].at = "done"]
  /\ summaryTask' = IF summaryTask = id THEN 0 ELSE summaryTask
  /\ \/ ~enabled /\ UNCHANGED board
     \/ enabled /\ Publish(id, observation)
  /\ UNCHANGED <<phase, browser, uploads, store, notices, enabled, explicitlyDisabled,
                 epoch, summaryEpoch, lastDispatched, dispatch, told>>

SummaryResponseKeepingTask(id, observation) ==
  /\ jobs[id].at = "seeing" /\ observation \in Observations(id)
  /\ jobs' = [jobs EXCEPT ![id].at = "done"]
  /\ \/ (~enabled \/ summaryEpoch # epoch) /\ UNCHANGED <<board, summaryTask>>
     \/ /\ enabled /\ summaryEpoch = epoch /\ Publish(id, observation)
        /\ summaryTask' = IF summaryTask = id THEN 0 ELSE summaryTask
  /\ UNCHANGED <<phase, browser, uploads, store, notices, enabled, explicitlyDisabled,
                 epoch, summaryEpoch, lastDispatched, dispatch, told>>

\* handle_summary_response: whoever dispatched last says of which epoch it is.
SummaryResponse(id, observation) ==
  /\ jobs[id].at = "seeing" /\ observation \in Observations(id)
  /\ jobs' = [jobs EXCEPT ![id].at = "done"]
  /\ summaryTask' = IF summaryTask = id THEN 0 ELSE summaryTask
  /\ \/ (~enabled \/ summaryEpoch # epoch) /\ UNCHANGED board
     \/ enabled /\ summaryEpoch = epoch /\ Publish(id, observation)
  /\ UNCHANGED <<phase, browser, uploads, store, notices, enabled, explicitlyDisabled,
                 epoch, summaryEpoch, lastDispatched, dispatch, told>>

\* on_client_disconnected: the loop is cancelled, the store cleared.
Disconnect ==
  /\ phase # "ended" /\ phase' = "ended"
  /\ camera' = [camera EXCEPT !.on = FALSE] /\ messages' = <<>>
  /\ latest' = NoFrame
  /\ summaryTask' = 0 /\ dispatch' = NoDispatch
  /\ UNCHANGED <<captured, uploads, sequence, notices, controller, summaryEpoch,
                 lastDispatched, jobs, told>>

Init ==
  /\ phase = "connecting"
  /\ camera = [on |-> FALSE, session |-> 0] /\ captured = 0 /\ messages = <<>>
  /\ uploads = {} /\ latest = NoFrame /\ sequence = 0 /\ notices = 0
  /\ enabled = FALSE /\ explicitlyDisabled = FALSE /\ epoch = 0 /\ board = OffState
  /\ summaryEpoch = -1 /\ summaryTask = 0 /\ lastDispatched = 0
  /\ dispatch = NoDispatch /\ jobs = <<>>
  /\ told = "nothing"

Loop == LoopDispatch \/ RequestReturns \/ RequestFails
Agent == \E id \in DOMAIN jobs :
  JobReads(id) \/ \E observation \in {"none", "noop", "scene"} : SummaryResponse(id, observation)

Next ==
  \/ TurnOn \/ TurnOff \/ Capture \/ ClientReady
  \/ \E session \in uploads : StoreFrame(session) \/ UploadLost(session)
  \/ StartSummaryLoop \/ ApplyWebcamState \/ NotifyFrameUploaded
  \/ Loop \/ Agent
  \/ Disconnect

Spec == Init /\ [][Next]_vars

\* The loop polls, request_job returns or raises, and a job is always answered.
FairSpec == Spec /\ WF_vars(Loop) /\ WF_vars(Agent)

(***************************************************************************)
(* Properties.                                                             *)
(***************************************************************************)
Sessions == 0..MaxSessions

\* The browser, the store and the controller's fields keep their types.
TypeOK ==
  /\ phase \in {"connecting", "started", "ready", "ended"}
  /\ camera \in [on : BOOLEAN, session : Sessions] /\ captured \in 0..MaxFrames
  /\ uploads \subseteq 1..MaxSessions
  /\ messages \in Seq(BOOLEAN) /\ told \in {"nothing", "on", "off"}
  /\ sequence \in 0..captured /\ latest \in {NoFrame, sequence} /\ notices \in 0..sequence
  /\ enabled \in BOOLEAN /\ explicitlyDisabled \in BOOLEAN /\ epoch \in Nat
  /\ jobs \in Seq([at : {"sent", "seeing", "done"}, epoch : Nat, sees : BOOLEAN])
  /\ summaryEpoch \in -1..epoch /\ summaryTask \in 0..Len(jobs)
  /\ lastDispatched \in 0..sequence
  /\ dispatch \in [sequence : {0, lastDispatched}, epoch : 0..epoch]
  /\ board \in [state : {"off", "on", "seen"}, epoch : Nat]

\* handle_summary_response: the board says the camera is off exactly while it
\* is disabled, and an observation on it was asked for since the camera was
\* last enabled, although one field stands for the epoch of every job.
LiveViewOfThisEpoch ==
  /\ (board.state = "off") <=> ~enabled
  /\ board.state = "seen" => board.epoch = epoch

\* _notify_frame_uploaded and _CAMERA_OFF_STATE, "the camera is OFF right now":
\* once the browser has said on and then off, the camera is off and the board
\* says so, whatever frames and observations are still under way.
OffStaysOff == told = "off" => ~enabled /\ board = OffState

Unanswered == {id \in DOMAIN jobs : jobs[id].at # "done"}

\* _run_summary_loop: one summary is under way at a time, and the task id is
\* that of the job not answered yet.
OneSummary ==
  /\ \A id, other \in Unanswered : id = other
  /\ dispatch # NoDispatch => Unanswered = {}
  /\ summaryTask # 0 => summaryTask \in Unanswered

\* What these rest on.  A frame is counted once, whether it is stored, on its way
\* or lost; nothing reaches the controller before the bot is there; a camera that
\* was heard to be on is on, one heard to be off cannot be enabled by a frame.
FramesCounted ==
  /\ sequence + Cardinality(uploads) <= captured
  /\ camera.on => camera.session > 0
NothingBeforeTheBot ==
  phase = "connecting" => messages = <<>> /\ notices = 0 /\ ~enabled
HeardAsTold ==
  /\ told = "on" => enabled
  /\ told = "off" => explicitlyDisabled
  /\ board.state = "off" => board = OffState

\* The unanswered job is of the epoch asked about last, and while the loop runs
\* it is the summary task.
UnansweredIsTask ==
  /\ \A id \in Unanswered : jobs[id].epoch = summaryEpoch
  /\ phase # "ended" /\ summaryTask = 0 => Unanswered = {}
  /\ dispatch # NoDispatch => summaryTask = 0 /\ phase # "ended"

Inv ==
  /\ TypeOK /\ LiveViewOfThisEpoch /\ OffStaysOff /\ OneSummary
  /\ FramesCounted /\ NothingBeforeTheBot /\ HeardAsTold /\ UnansweredIsTask

\* _run_summary_loop, "Send each fresh webcam frame to the WebcamAgent as soon
\* as it arrives": while the camera is on, the newest frame is asked about, or
\* a newer one takes its place, whatever becomes of the jobs before it.
Fresh(s) == phase = "ready" /\ enabled /\ latest = s
SentOrPassed(s) == lastDispatched = s \/ latest # s \/ ~enabled \/ phase = "ended"
FreshFrameSent == \A s \in 1..MaxFrames : Fresh(s) ~> SentOrPassed(s)

=============================================================================
