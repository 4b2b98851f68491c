----------------------------- MODULE MediaAnalysis -----------------------------
(***************************************************************************)
(* Media analysis in the omni_assistant_subagents example: uploads and     *)
(* high-resolution captures come in over HTTP into the attachment store,   *)
(* MediaAnalysisController has the media analyzer look at them and keeps   *)
(* the subagents board and the running note in the Speaker's context.      *)
(*                                                                         *)
(* A store calls back on the event loop one step later; an upload, a       *)
(* request to the analyzer, its job and the follow-up delay each suspend.  *)
(***************************************************************************)
EXTENDS Naturals, Sequences, FiniteSets, FiniteSetsExt

CONSTANTS
  MaxAttachments,  \* attachments stored
  MaxCaptures,     \* captures the Speaker asks for
  MaxJobs          \* jobs the analyzer is given

BoundsAssumption == {MaxAttachments, MaxCaptures, MaxJobs} \subseteq Nat

VARIABLES
  session,   \* running, leaving once the client has gone, or ended
  uploads,   \* HTTP uploads under way, by source: how many
  store,     \* the session's attachments: id, source
  last,      \* the last sequence number
  callbacks, \* listener calls scheduled on the event loop
  request,   \* the outstanding capture request, 0 if none
  captures,  \* capture requests made
  awaiting,  \* _awaiting_capture
  pending,   \* the queued prompt: attachment, action
  active, analyzed,
  calls,     \* requests to the analyzer under way
  jobs,      \* by task id: attachment, capture, patch, running
  delayed,   \* responses waiting out the follow-up delay
  board,     \* whose findings the media entry of the board holds, or Pending
  note       \* the running note is pinned

httpVars == <<uploads, request, captures>>
vars == <<session, httpVars, store, last, callbacks, awaiting, pending, active, analyzed,
          calls, jobs, delayed, board, note>>

Pending  == 0
NoPrompt == [attachment |-> 0, action |-> "none"]
Sources  == {"upload", "capture"}

(***************************************************************************)
(* The attachment store.                                                   *)
(***************************************************************************)
LatestOf(S) == IF S = {} THEN 0 ELSE Max({a.id : a \in S})
LatestUpload == LatestOf({a \in store : a.source = "upload"})
Without(id) == {a \in store : a.id # id}

\* upload_attachment, upload_webcam_capture: the session is checked and the
\* request id consumed before the body is read.
BeginUpload(source) ==
  /\ session # "ended"
  /\ last + uploads["upload"] + uploads["capture"] < MaxAttachments
  /\ source = "capture" => request # 0
  /\ request' = IF source = "capture" THEN 0 ELSE request
  /\ uploads' = [uploads EXCEPT ![source] = @ + 1]
  /\ UNCHANGED <<session, captures, store, last, callbacks, awaiting, pending, active, analyzed,
                 calls, jobs, delayed, board, note>>

\* The body is in, whatever has become of the session; or it was refused.
EndUpload(source) ==
  /\ uploads[source] > 0
  /\ uploads' = [uploads EXCEPT ![source] = @ - 1]
  /\ \/ /\ store' = store \cup {[id |-> last + 1, source |-> source]}
        /\ last' = last + 1
        /\ callbacks' = IF session = "running" THEN callbacks + 1 ELSE callbacks
     \/ UNCHANGED <<store, last, callbacks>>
  /\ UNCHANGED <<session, request, captures, awaiting, pending, active, analyzed, calls, jobs,
                 delayed, board, note>>

(***************************************************************************)
(* The transport agent.                                                    *)
(***************************************************************************)
\* queue_highres_capture: a new request replaces the outstanding one.
QueueCapture ==
  /\ session = "running" /\ captures < MaxCaptures
  /\ captures' = captures + 1 /\ request' = captures + 1
  /\ awaiting' = TRUE
  /\ UNCHANGED <<session, uploads, store, last, callbacks, pending, active, analyzed, calls, jobs,
                 delayed, board, note>>

MarkPending ==
  board' = IF LatestUpload \in {0, analyzed} THEN board ELSE {Pending}

AttachmentStored ==
  /\ session = "running" /\ callbacks > 0
  /\ callbacks' = callbacks - 1
  /\ LET latest == LatestOf(store)
         taken  == awaiting /\ [id |-> latest, source |-> "capture"] \in store
     IN \/ /\ taken
           /\ awaiting' = FALSE
           /\ calls' = calls \cup {[attachment |-> latest, capture |-> TRUE, patch |-> FALSE]}
           /\ UNCHANGED board
        \/ ~taken /\ MarkPending /\ UNCHANGED <<awaiting, calls>>
  /\ UNCHANGED <<session, httpVars, store, last, pending, active, analyzed, jobs, delayed, note>>

\* on_client_disconnected: the bus cancels the workers and what they await.
Disconnect ==
  /\ session = "running"
  /\ session' = "leaving"
  /\ store' = {} /\ request' = 0
  /\ callbacks' = 0 /\ calls' = {} /\ jobs' = <<>> /\ delayed' = {}
  /\ awaiting' = FALSE /\ pending' = NoPrompt /\ active' = 0 /\ analyzed' = 0
  /\ board' = {} /\ note' = FALSE
  /\ UNCHANGED <<uploads, captures, last>>

\* The bot returns and the server drops the session's config.
SessionEnds ==
  /\ session = "leaving"
  /\ session' = "ended"
  /\ UNCHANGED <<httpVars, store, last, callbacks, awaiting, pending, active, analyzed, calls,
                 jobs, delayed, board, note>>

(***************************************************************************)
(* MediaAnalysisController.                                                *)
(***************************************************************************)
\* The prompt is dropped when there is no upload or it is being analyzed.
QueuePrompt(action) ==
  /\ session = "running"
  /\ pending' = IF LatestUpload \in {0, active} THEN NoPrompt
                ELSE [attachment |-> LatestUpload, action |-> action]
  /\ UNCHANGED <<session, httpVars, store, last, callbacks, awaiting, active, analyzed, calls,
                 jobs, delayed, board, note>>

\* clear_pending_on_interruption, or a prompt for another input source.
ClearPending ==
  /\ session = "running"
  /\ pending' = NoPrompt
  /\ UNCHANGED <<session, httpVars, store, last, callbacks, awaiting, active, analyzed, calls,
                 jobs, delayed, board, note>>

\* The dispatcher starts one prompt at a time.
Dispatching == \E c \in calls : ~c.capture

StartPendingOnLatest ==
  /\ session = "running" /\ pending # NoPrompt /\ ~Dispatching
  /\ pending' = NoPrompt
  /\ \/ LatestUpload = active /\ UNCHANGED <<active, calls>>
     \/ /\ LatestUpload # active
        /\ active' = LatestUpload
        /\ calls' = calls \cup
             {[attachment |-> LatestUpload, capture |-> FALSE, patch |-> pending.attachment = analyzed]}
  /\ UNCHANGED <<session, httpVars, store, last, callbacks, awaiting, analyzed, jobs, delayed,
                 board, note>>

\* A prompt whose attachment is no longer the latest, or is being analyzed, is
\* dropped; a new question about what was analyzed before asks for a patch.
StartPending ==
  /\ session = "running" /\ pending # NoPrompt /\ ~Dispatching
  /\ pending' = NoPrompt
  /\ LET a == pending.attachment
     IN \/ /\ LatestUpload # a \/ a = active
           /\ UNCHANGED <<active, calls>>
        \/ /\ LatestUpload = a /\ a # active
           /\ active' = a
           /\ calls' = calls \cup {[attachment |-> a, capture |-> FALSE,
                                    patch |-> pending.action # "rerun" /\ a = analyzed]}
  /\ UNCHANGED <<session, httpVars, store, last, callbacks, awaiting, analyzed, jobs, delayed,
                 board, note>>

RequestFails(c) ==
  /\ calls' = calls \ {c}
  /\ active' = IF c.capture THEN active ELSE 0
  /\ store' = IF c.capture THEN Without(c.attachment) ELSE store
  /\ UNCHANGED <<session, httpVars, last, callbacks, awaiting, pending, analyzed, jobs, delayed,
                 board, note>>

\* The job is sent, and its id known before its response can come.
RequestReturns(c) ==
  /\ Len(jobs) < MaxJobs
  /\ calls' = calls \ {c}
  /\ jobs' = Append(jobs, [attachment |-> c.attachment, capture |-> c.capture, patch |-> c.patch,
                           running |-> TRUE])
  /\ note' = (note \/ ~c.capture)
  /\ UNCHANGED <<session, httpVars, store, last, callbacks, awaiting, pending, active, analyzed,
                 delayed, board>>

\* The board takes the findings unless their attachment is superseded.
UpdateBoardAnyway(job) ==
  \/ job.patch /\ board' = board \cup {job.attachment} /\ UNCHANGED analyzed
  \/ ~job.patch /\ board' = {job.attachment} /\ analyzed' = job.attachment

UpdateBoard(job) ==
  \/ LatestUpload # job.attachment /\ UNCHANGED <<board, analyzed>>
  \/ /\ LatestUpload = job.attachment
     /\ \/ job.patch /\ board' = board \cup {job.attachment} /\ UNCHANGED analyzed
        \/ ~job.patch /\ board' = {job.attachment} /\ analyzed' = job.attachment

\* A response with something to say, and with findings or without.
JobResponse(id, findings) ==
  LET job == jobs[id]
  IN /\ job.running
     /\ jobs' = [jobs EXCEPT ![id].running = FALSE]
     /\ \/ findings /\ ~job.capture /\ UpdateBoard(job)
        \/ ~findings /\ UNCHANGED <<board, analyzed>>
        \/ job.capture /\ UNCHANGED <<board, analyzed>>
     /\ note' = (note /\ job.capture)
     /\ delayed' = delayed \cup {[attachment |-> job.attachment, capture |-> job.capture]}
     /\ UNCHANGED <<session, httpVars, store, last, callbacks, awaiting, pending, active, calls>>

\* A response without a word to say.
EmptyResponse(id) ==
  /\ jobs[id].running
  /\ jobs' = [jobs EXCEPT ![id].running = FALSE]
  /\ store' = IF jobs[id].capture THEN Without(jobs[id].attachment) ELSE store
  /\ UNCHANGED <<session, httpVars, last, callbacks, awaiting, pending, active, analyzed, calls,
                 delayed, board, note>>

\* After the delay the answer is spoken.
FollowUp(d) ==
  /\ delayed' = delayed \ {d}
  /\ store' = IF d.capture THEN Without(d.attachment) ELSE store
  /\ active' = IF active = d.attachment THEN 0 ELSE active
  /\ UNCHANGED <<session, httpVars, last, callbacks, awaiting, pending, analyzed, calls, jobs,
                 board, note>>

Init ==
  /\ session = "running"
  /\ uploads = [source \in Sources |-> 0]
  /\ store = {} /\ last = 0 /\ callbacks = 0
  /\ request = 0 /\ captures = 0 /\ awaiting = FALSE
  /\ pending = NoPrompt /\ active = 0 /\ analyzed = 0
  /\ calls = {} /\ jobs = <<>> /\ delayed = {}
  /\ board = {} /\ note = FALSE

Next ==
  \/ \E source \in Sources : BeginUpload(source) \/ EndUpload(source)
  \/ QueueCapture \/ AttachmentStored \/ Disconnect \/ SessionEnds
  \/ \E action \in {"new", "rerun"} : QueuePrompt(action)
  \/ ClearPending \/ StartPending
  \/ \E c \in calls : RequestFails(c) \/ RequestReturns(c)
  \/ \E id \in DOMAIN jobs : EmptyResponse(id) \/ \E f \in BOOLEAN : JobResponse(id, f)
  \/ \E d \in delayed : FollowUp(d)

Spec == Init /\ [][Next]_vars

(***************************************************************************)
(* Properties.                                                             *)
(***************************************************************************)
Ids == 1..MaxAttachments

\* Attachments, prompts, jobs and the board keep their types.
TypeOK ==
  /\ session \in {"running", "leaving", "ended"}
  /\ uploads \in [Sources -> 0..MaxAttachments]
  /\ store \subseteq [id : Ids, source : Sources] /\ last \in 0..MaxAttachments
  /\ callbacks \in 0..MaxAttachments
  /\ captures \in 0..MaxCaptures /\ request \in 0..MaxCaptures /\ awaiting \in BOOLEAN
  /\ pending \in [attachment : Ids, action : {"new", "rerun"}] \cup {NoPrompt}
  /\ active \in Ids \cup {0} /\ analyzed \in Ids \cup {0}
  /\ calls \subseteq [attachment : Ids, capture : BOOLEAN, patch : BOOLEAN]
  /\ jobs \in Seq([attachment : Ids, capture : BOOLEAN, patch : BOOLEAN, running : BOOLEAN])
  /\ delayed \subseteq [attachment : Ids, capture : BOOLEAN]
  /\ board \subseteq Ids \cup {Pending} /\ note \in BOOLEAN

\* is_attachment_pending and the board, the two things the Speaker routes by,
\* agree: once the latest upload is analyzed the board holds its findings and no
\* other's, and until it is the board calls it pending.  A second capture can be
\* asked for while callbacks wait: the next one then takes the first capture
\* once more, and the upload it was called for is never marked.
BoardAgreesWithGate ==
  session = "running" /\ LatestUpload # 0 =>
    IF analyzed = LatestUpload THEN board = {LatestUpload}
    ELSE callbacks = 0 /\ captures <= 1 => board = {Pending}

\* "test_pending_prompt_is_not_dispatched_to_a_newer_attachment": an analysis
\* is of the attachment its prompt was queued for.
OfItsPrompt ==
  \A c \in calls' \ calls : ~c.capture =>
    c.attachment = pending.attachment /\ (c.patch => board = {c.attachment})
PromptKeepsItsAttachment == [][OfItsPrompt]_vars

\* "Skipping duplicate media analysis dispatch because analysis is already
\* active": no attachment is analyzed twice at a time.
Asked(a)    == {c \in calls : ~c.capture /\ c.attachment = a}
Analyzed(a) == {id \in DOMAIN jobs : jobs[id].running /\ ~jobs[id].capture /\ jobs[id].attachment = a}
OneAnalysis == \A a \in Ids : Cardinality(Asked(a)) + Cardinality(Analyzed(a)) <= 1

\* What they rest on.  Ids are counted, and an id is of an upload, which stays in
\* the store, or of a capture;
Uploaded(id) == [id |-> id, source |-> "upload"] \in store
Counted ==
  /\ last + uploads["upload"] + uploads["capture"] <= MaxAttachments
  /\ callbacks <= last /\ request <= captures
  /\ \A a \in store : a.id <= last /\ (Uploaded(a.id) => a.source = "upload")

Captured(id) == id \in 1..last /\ ~Uploaded(id)
OfSource ==
  /\ pending # NoPrompt => Uploaded(pending.attachment)
  /\ active # 0 => Uploaded(active)
  /\ analyzed # 0 => Uploaded(analyzed)
  /\ \A c \in calls : IF c.capture THEN Captured(c.attachment) ELSE Uploaded(c.attachment)
  /\ \A id \in DOMAIN jobs :
       IF jobs[id].capture THEN Captured(jobs[id].attachment) ELSE Uploaded(jobs[id].attachment)
  /\ \A d \in delayed : IF d.capture THEN Captured(d.attachment) ELSE Uploaded(d.attachment)

\* one analysis is being asked for at a time, one of an attachment is asked for,
\* running or about to be spoken of, and that of the latest upload is the active one;
Waiting(a)  == [attachment |-> a, capture |-> FALSE] \in delayed
OneUnderWay ==
  /\ \A c, d \in calls : ~c.capture /\ ~d.capture => c = d
  /\ \A a \in Ids :
       /\ Asked(a) # {} => Analyzed(a) = {} /\ ~Waiting(a)
       /\ Waiting(a) => Analyzed(a) = {}
       /\ \A i, j \in Analyzed(a) : i = j
  /\ \A a \in Ids : a = LatestUpload /\ (Asked(a) # {} \/ Analyzed(a) # {} \/ Waiting(a)) =>
       /\ active = a
       /\ \A c \in calls : ~c.capture => c.attachment = a

\* a patch is of what was analyzed;
PatchesFit ==
  /\ \A c \in calls : c.patch /\ ~c.capture /\ c.attachment = LatestUpload => analyzed = c.attachment
  /\ \A id \in DOMAIN jobs : jobs[id].patch /\ ~jobs[id].capture /\ jobs[id].attachment = LatestUpload =>
       analyzed = jobs[id].attachment

\* and an upload not marked yet has a callback due that the capture won't take.
CaptureKnown == (\E c \in calls : c.capture) \/ (\E id \in DOMAIN jobs : jobs[id].capture)
                  \/ (\E d \in delayed : d.capture)
LatestIsCapture == [id |-> LatestOf(store), source |-> "capture"] \in store
CallbackDue ==
  session = "running" /\ captures <= 1 =>
    /\ captures = 0 => /\ ~awaiting /\ uploads["capture"] = 0 /\ ~CaptureKnown
                       /\ \A a \in store : a.source = "upload"
    /\ CaptureKnown => ~awaiting
    /\ LatestUpload \in {0, analyzed} \/ board = {Pending}
          \/ callbacks >= IF awaiting /\ LatestIsCapture THEN 2 ELSE 1

Inv ==
  /\ TypeOK /\ Counted /\ OfSource /\ OneUnderWay /\ PatchesFit /\ CallbackDue /\ BoardAgreesWithGate
=============================================================================
