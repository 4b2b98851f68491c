------------------------------ MODULE MCLive ------------------------------
(***************************************************************************)
(* What must go on for as long as a session lasts: the gateway's handshake *)
(* and live updates, the camera's summary loop, the silence timer and the  *)
(* readiness of the services, in one TLC run.  They share no state, so     *)
(* they share the variables v1, v2, ...: component says whose they are,    *)
(* and the INSTANCEs what they stand for.                                  *)
(***************************************************************************)
EXTENDS Naturals, Sequences, TLC
CONSTANTS
  MaxRejected, DefaultMode, DefaultTts, PipelineRate, DefaultRate,  \* RealtimeGateway
  Catalog, Fallback, Patches, Unset, Blank,
  MaxSessions, MaxFrames, MaxSpeech,                                \* Webcam, ActivityCheck
  Connects, Lists, Hosted, Cloud, Order, Threads, None,             \* ServiceStatus
  omni, magpie, chatterbox, offline, aria, leo, sofia, unknown, rate16, rate24,
  c1, c2, l1, llmService, ttsService                                \* values for TLC
VARIABLES component,
  v1, v2, v3, v4, v5, v6, v7, v8, v9, v10, v11, v12, v13, v14, v15, v16, v17, v18

(* RealtimeGateway: two TTS services with a voice of their own and one in
   common, an unreachable one, a mode besides the default and two rates. *)
MCCatalog  == (magpie :> {aria, sofia}) @@ (chatterbox :> {leo, sofia}) @@ (offline :> {})
MCFallback == (magpie :> aria) @@ (chatterbox :> leo) @@ (offline :> aria)
MCPatches ==
  [mode : {Unset, omni}, tts : {Unset, chatterbox, offline},
   voice : {Unset, Blank, sofia, unknown}, in : {Unset}, out : {Unset}]
  \cup [mode : {Unset}, tts : {Unset, chatterbox}, voice : {Unset, sofia},
        in : {Unset, rate16, rate24}, out : {Unset, rate16, rate24}]

(* ServiceStatus: a self-hosted LLM is probed before a cloud TTS is made to
   speak, for two requests of a session, or one and one of the list. *)
MCOrder == <<llmService, ttsService>>

Gateway == INSTANCE RealtimeGateway WITH
  stage <- v1, gone <- v2, rejected <- v3, failed <- v4, flat <- v5, view <- v6, pending <- v7,
  bot <- v8, resampler <- v9
Camera == INSTANCE Webcam WITH
  phase <- v1, camera <- v2, captured <- v3, messages <- v4, uploads <- v5, latest <- v6,
  sequence <- v7, notices <- v8, enabled <- v9, explicitlyDisabled <- v10, epoch <- v11,
  summaryEpoch <- v12, summaryTask <- v13, lastDispatched <- v14, dispatch <- v15, jobs <- v16,
  board <- v17, told <- v18
Activity == INSTANCE ActivityCheck WITH
  stage <- v1, disconnectAfterSpeech <- v2, retired <- v3, retiredStage <- v4, pending <- v5,
  audioStarted <- v6, timer <- v7, watchdog <- v8, emitting <- v9, disconnect <- v10, runs <- v11,
  replying <- v12, started <- v13, speeches <- v14, warned <- v15, finished <- v16,
  expired <- v17, outlasted <- v18
Services == INSTANCE ServiceStatus WITH
  service <- v1, seen <- v2, failed <- v3, warm <- v4, lock <- v5, job <- v6, client <- v7

ASSUME GatewayAssumption ==
  Gateway!RejectedAssumption /\ Gateway!CatalogAssumption /\ Gateway!PatchesAssumption
ASSUME CameraAssumption == Camera!BoundsAssumption
ASSUME ActivityAssumption == Activity!SpeechAssumption
ASSUME ServicesAssumption == Services!ServicesAssumption

vars == <<component, v1, v2, v3, v4, v5, v6, v7, v8, v9, v10, v11, v12, v13, v14, v15, v16, v17, v18>>
Init ==
  \/ /\ component = "gateway" /\ Gateway!Init
     /\ v10 = 0 /\ v11 = 0 /\ v12 = 0 /\ v13 = 0 /\ v14 = 0 /\ v15 = 0 /\ v16 = 0 /\ v17 = 0
     /\ v18 = 0
  \/ /\ component = "webcam" /\ Camera!Init
  \/ /\ component = "activity" /\ Activity!Init
  \/ /\ component \in {"services", "list"} /\ Services!Init
     /\ v8 = 0 /\ v9 = 0 /\ v10 = 0 /\ v11 = 0 /\ v12 = 0 /\ v13 = 0 /\ v14 = 0 /\ v15 = 0
     /\ v16 = 0 /\ v17 = 0 /\ v18 = 0
Next ==
  /\ UNCHANGED component
  /\ \/ component = "gateway" /\ Gateway!Next /\ UNCHANGED <<v10, v11, v12, v13, v14, v15, v16, v17, v18>>
     \/ component = "webcam" /\ Camera!Next
     \/ component = "activity" /\ Activity!Next
     \/ /\ component = "services" /\ Services!Next /\ \A l \in Lists : v7'[l] = v7[l]
        /\ UNCHANGED <<v8, v9, v10, v11, v12, v13, v14, v15, v16, v17, v18>>
     \/ /\ component = "list" /\ Services!Next /\ \A c \in Connects \ {c1} : v7'[c] = v7[c]
        /\ UNCHANGED <<v8, v9, v10, v11, v12, v13, v14, v15, v16, v17, v18>>

(* The fairness of each component, of its own steps. *)
gatewayVars  == Gateway!vars
cameraVars   == Camera!vars
activityVars == Activity!vars
serviceVars  == Services!vars
Fairness ==
  /\ WF_gatewayVars(component = "gateway" /\ Gateway!Receive)
  /\ WF_gatewayVars(component = "gateway" /\ (Gateway!NotReady \/ Gateway!Ready))
  /\ WF_cameraVars(component = "webcam" /\ Camera!Loop)
  /\ WF_cameraVars(component = "webcam" /\ Camera!Agent)
  /\ WF_activityVars(component = "activity" /\ Activity!TimerFires)
  /\ WF_activityVars(component = "activity" /\ Activity!WatchdogExpires)
  /\ WF_activityVars(component = "activity" /\ Activity!RequestDisconnect)
  /\ WF_activityVars(component = "activity" /\ Activity!Warning)
  /\ WF_activityVars(component = "activity" /\ Activity!Reply)
  /\ WF_activityVars(component = "activity" /\ Activity!Finishing)
  /\ \A c \in Connects :
       WF_serviceVars(/\ component = "services"
                      /\ Services!NextCheck(c) \/ Services!NotReady(c) \/ Services!TimesOut(c))

Spec == Init /\ [][Next]_vars /\ Fairness

\* The handshake, the live updates and the audio that follows
\* (RealtimeGateway): the bot runs what was acknowledged, with a voice its TTS
\* service lists, and no resampler gets audio at another rate than its first.
RunsAsNegotiated ==
  component = "gateway" =>
    /\ Gateway!BotRunsWhatWasAcknowledged /\ Gateway!VoiceInCatalog
    /\ Gateway!ResamplerMatchesRate /\ Gateway!Inv

\* Idle or abusive clients are disconnected before the handoff
\* (RealtimeGateway).
HandshakeEnds ==
  (component = "gateway") ~> (component = "gateway" /\ Gateway!HandshakeOver)

\* The camera's view in the prompt is of this epoch, a camera that is off stays
\* off, and one summary is asked for at a time (Webcam).
CameraAsShown ==
  component = "webcam" =>
    Camera!LiveViewOfThisEpoch /\ Camera!OffStaysOff /\ Camera!OneSummary /\ Camera!Inv

\* _run_summary_loop sends each fresh frame, whatever becomes of the jobs
\* before it (Webcam).
FreshFrameSent ==
  \A s \in 1..MaxFrames :
    (component = "webcam" /\ Camera!Fresh(s))
      ~> (component = "webcam" /\ Camera!SentOrPassed(s))

\* The silence warnings come in order, from one countdown, and a late one is
\* not taken for the farewell (ActivityCheck).
WarnedInOrder ==
  component = "activity" =>
    /\ Activity!TypeOK /\ Activity!WarnedTwice
    /\ Activity!OneCountdown /\ Activity!LateWarningIgnored /\ Activity!Inv

\* A user who stays silent is dismissed, although warnings fail or never finish
\* (ActivityCheck).
SilentUserDismissed ==
  \A n \in 0..MaxSpeech :
    (component = "activity" /\ Activity!CountingDown(n))
      ~> (component = "activity" /\ Activity!SpokenOrDismissed(n))

\* A session id is given only when every service of the session was found ready
\* and the cloud TTS is warm (ServiceStatus).
IdMeansReady ==
  component \in {"services", "list"} => Services!IdMeansReady /\ Services!Inv

\* A request for a session is answered, whatever the services do
\* (ServiceStatus).
ConnectAnswered ==
  \A c \in Connects :
    (component = "services" /\ Services!Waiting(c))
      ~> (component = "services" /\ Services!Answered(c))

==========================================================================
