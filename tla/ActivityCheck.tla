---------------------------- MODULE ActivityCheck ----------------------------
(***************************************************************************)
(* ActivityCheckProcessor of the generic example: a user who stays silent  *)
(* is asked whether they are there, then told goodbye, and the session is  *)
(* ended when the goodbye has been heard.  The processor sits behind the   *)
(* output transport and has two timers: one until the next warning, and a  *)
(* watchdog for a warning that does not finish.                            *)
(*                                                                         *)
(* The watchdog may expire at any time.  The next warning is half a minute *)
(* away or more, and what is being said ends before it.  A response may be *)
(* slow, empty or never come; its frames reach the processor in the order  *)
(* TTSStarted, then LLMFullResponseEnd and BotStoppedSpeaking either way.  *)
(***************************************************************************)
EXTENDS Naturals, Sequences, SequencesExt

CONSTANT MaxSpeech   \* times the user speaks

SpeechAssumption == MaxSpeech \in Nat

VARIABLES
  stage, disconnectAfterSpeech,
  retired,       \* _retired_warning_completions
  retiredStage,  \* _retired_warning_stage, 0 for None
  pending,       \* _pending_warning_response_stages
  audioStarted,  \* _warning_audio_started_stages
  timer,         \* the countdown is running
  watchdog,      \* the stage whose completion is awaited, 0 if none
  emitting,      \* the stage whose on_warning is awaited, 0 if none
  disconnect,    \* "none", "scheduled", "requested", "ended"
  runs,          \* the warnings' LLM responses to come: stage and how far
  replying,      \* the assistant owes the user an ordinary reply
  started,
  speeches,      \* times the user has spoken
  warned, finished, expired, \* since then: warnings given, heard, given up
  outlasted      \* the first one's speech outlasted its response and its watchdog

checks == <<stage, disconnectAfterSpeech, retired, retiredStage, pending, audioStarted>>
timers == <<timer, watchdog, emitting>>
past   == <<warned, finished, expired, outlasted>>
vars == <<checks, timers, disconnect, runs, replying, started, speeches, past>>

Live == disconnect \in {"none", "scheduled"}

(***************************************************************************)
(* The methods of the processor.                                           *)
(***************************************************************************)
Cleared ==
  /\ disconnectAfterSpeech' = FALSE
  /\ retired' = 0 /\ retiredStage' = 0
  /\ pending' = <<>> /\ audioStarted' = {}
  /\ timer' = FALSE /\ watchdog' = 0

Reset ==
  /\ Cleared
  /\ stage' = 0
  /\ disconnect' = "none"

ScheduleDisconnect == disconnect' = "scheduled"

\* _arm_timer replaces the countdown that is running.
ArmTimer == timer' = (stage < 2 /\ ~disconnectAfterSpeech)

EmitUnwatched(s) ==
  /\ stage' = s /\ disconnectAfterSpeech' = (s = 2)
  /\ pending' = Append(pending, s)
  /\ watchdog' = 0 /\ emitting' = s
  /\ warned' = warned \cup {s}

\* _emit_warning, up to the await of on_warning.
Emit(s) ==
  /\ stage' = s /\ disconnectAfterSpeech' = (s = 2)
  /\ pending' = Append(pending, s)
  /\ watchdog' = s /\ emitting' = s
  /\ warned' = warned \cup {s}

HandleBotStopped ==
  \/ /\ retired > 0 /\ retired' = retired - 1
     /\ UNCHANGED <<timer, watchdog, disconnectAfterSpeech, disconnect>>
  \/ /\ retired = 0 /\ disconnectAfterSpeech
     /\ watchdog' = 0
     /\ disconnectAfterSpeech' = FALSE /\ ScheduleDisconnect
     /\ UNCHANGED <<retired, timer>>
  \/ /\ retired = 0 /\ ~disconnectAfterSpeech
     /\ watchdog' = 0 /\ ArmTimer
     /\ UNCHANGED <<retired, disconnectAfterSpeech, disconnect>>

(***************************************************************************)
(* The session and its conversation.                                       *)
(***************************************************************************)
Start ==
  /\ ~started /\ Live
  /\ started' = TRUE
  /\ ArmTimer
  /\ UNCHANGED <<checks, watchdog, emitting, disconnect, runs, replying, speeches, past>>

\* VAD hears the user: warnings are interrupted, a reply may follow.
UserStartedSpeaking ==
  /\ started /\ Live /\ speeches < MaxSpeech
  /\ speeches' = speeches + 1
  /\ Reset
  /\ runs' = <<>> /\ replying' = TRUE
  /\ warned' = {} /\ finished' = {} /\ expired' = {} /\ outlasted' = FALSE
  /\ UNCHANGED <<emitting, started>>

\* The welcome message, or the reply to the user, has been spoken.
ReplySpoken ==
  /\ replying /\ started /\ Live
  /\ replying' = FALSE
  /\ HandleBotStopped
  /\ UNCHANGED <<stage, retiredStage, pending, audioStarted, emitting, runs, started,
                 speeches, past>>

\* It was noise, or the assistant had nothing to say.
NoReply ==
  /\ replying /\ started /\ Live
  /\ replying' = FALSE
  /\ UNCHANGED <<checks, timers, disconnect, runs, started, speeches, past>>

(***************************************************************************)
(* The timers.                                                             *)
(***************************************************************************)
\* A response that has not begun in all this time will not come.
TimerFires ==
  /\ timer /\ ~replying /\ emitting = 0 /\ Live
  /\ \A run \in ToSet(runs) : run.at = "queued"
  /\ runs' = <<>>
  /\ timer' = FALSE
  /\ Emit(stage + 1)
  /\ UNCHANGED <<retired, retiredStage, audioStarted, disconnect, replying, started,
                 speeches, finished, expired, outlasted>>

\* on_warning has queued its LLM run, whatever was reset in the meantime.
WarningQueued ==
  /\ emitting # 0 /\ emitting' = 0 /\ Live
  /\ runs' = Append(runs, [stage |-> emitting, at |-> "queued"])
  /\ UNCHANGED <<checks, timer, watchdog, disconnect, replying, started, speeches, past>>

WarningFails ==
  /\ emitting # 0 /\ emitting' = 0 /\ Live
  /\ pending' = RemoveFirst(pending, emitting)
  /\ UNCHANGED <<stage, disconnectAfterSpeech, retired, retiredStage, audioStarted, timer,
                 watchdog, disconnect, runs, replying, started, speeches, past>>

WatchdogExpires ==
  /\ watchdog # 0 /\ watchdog = stage /\ emitting = 0 /\ Live
  /\ expired' = expired \cup {stage}
  /\ \/ /\ stage = 2
        /\ watchdog' = 0 /\ disconnectAfterSpeech' = FALSE /\ ScheduleDisconnect
        /\ UNCHANGED <<stage, retired, retiredStage, pending, emitting, warned, outlasted>>
     \/ /\ stage = 1
        /\ outlasted' = ([stage |-> 1, at |-> "ended"] \in ToSet(runs))
        /\ \/ stage \in audioStarted /\ retired' = retired + 1 /\ UNCHANGED retiredStage
           \/ stage \notin audioStarted /\ retiredStage' = stage /\ UNCHANGED retired
        /\ Emit(2)
        /\ UNCHANGED disconnect
  /\ UNCHANGED <<audioStarted, timer, runs, replying, started, speeches, finished>>

RequestDisconnect ==
  /\ disconnect = "scheduled" /\ disconnect' = "requested"
  /\ UNCHANGED <<checks, timers, runs, replying, started, speeches, past>>

(***************************************************************************)
(* The frames of a warning's response, oldest response first.              *)
(***************************************************************************)
Response(at, next) ==
  /\ runs # <<>> /\ Head(runs).at = at /\ Live
  /\ runs' = IF next = "done" THEN Tail(runs) ELSE ReplaceAt(runs, 1, [Head(runs) EXCEPT !.at = next])

TTSStartedNotRetiring ==
  /\ Response("queued", "speaking")
  /\ audioStarted' = audioStarted \cup IF pending = <<>> THEN {} ELSE {Head(pending)}
  /\ UNCHANGED <<stage, disconnectAfterSpeech, retired, retiredStage, pending, timers, disconnect,
                 replying, started, speeches, past>>

TTSStarted ==
  /\ Response("queued", "speaking")
  /\ \/ pending = <<>> /\ UNCHANGED <<audioStarted, retired, retiredStage>>
     \/ /\ pending # <<>>
        /\ audioStarted' = audioStarted \cup {Head(pending)}
        /\ \/ /\ retiredStage = Head(pending)
              /\ retired' = retired + 1 /\ retiredStage' = 0
           \/ retiredStage # Head(pending) /\ UNCHANGED <<retired, retiredStage>>
  /\ UNCHANGED <<stage, disconnectAfterSpeech, pending, timers, disconnect, replying, started,
                 speeches, past>>

LLMResponseEnded ==
  /\ Response("queued", "done") \/ Response("speaking", "ended") \/ Response("spoken", "done")
  /\ \/ pending = <<>> /\ UNCHANGED <<pending, audioStarted, retiredStage>>
     \/ /\ pending # <<>>
        /\ pending' = Tail(pending)
        /\ audioStarted' = audioStarted \ {Head(pending)}
        /\ retiredStage' = IF retiredStage = Head(pending) THEN 0 ELSE retiredStage
  /\ UNCHANGED <<stage, disconnectAfterSpeech, retired, timers, disconnect, replying, started,
                 speeches, past>>

WarningSpoken ==
  /\ Response("speaking", "spoken") \/ Response("ended", "done")
  /\ finished' = finished \cup {Head(runs).stage}
  /\ HandleBotStopped
  /\ UNCHANGED <<stage, retiredStage, pending, audioStarted, emitting, replying, started,
                 speeches, warned, expired, outlasted>>

\* CancelFrame or EndFrame: the session is over.
SessionEnds ==
  /\ Live
  /\ Cleared /\ stage' = 0 /\ disconnect' = "ended"
  /\ UNCHANGED <<emitting, runs, replying, started, speeches, past>>

Init ==
  /\ stage = 0 /\ disconnectAfterSpeech = FALSE /\ retired = 0 /\ retiredStage = 0
  /\ pending = <<>> /\ audioStarted = {}
  /\ timer = FALSE /\ watchdog = 0 /\ emitting = 0
  /\ disconnect = "none" /\ runs = <<>> /\ replying \in BOOLEAN /\ started = FALSE
  /\ speeches = 0 /\ warned = {} /\ finished = {} /\ expired = {}
  /\ outlasted = FALSE

Finishing == runs # <<>> /\ Head(runs).at # "queued" /\ (LLMResponseEnded \/ WarningSpoken)

Timers == TimerFires \/ WatchdogExpires \/ RequestDisconnect
Warning == WarningQueued \/ WarningFails
Reply == ReplySpoken \/ NoReply

Next ==
  \/ Start \/ UserStartedSpeaking \/ Reply
  \/ Timers \/ Warning
  \/ TTSStarted \/ LLMResponseEnded \/ WarningSpoken
  \/ SessionEnds

Spec == Init /\ [][Next]_vars

\* Timers fire, on_warning returns or raises, a reply is spoken or is not coming,
\* and a warning that is being spoken ends; none need ever be.
FairSpec ==
  Spec /\ WF_vars(TimerFires) /\ WF_vars(WatchdogExpires) /\ WF_vars(RequestDisconnect)
       /\ WF_vars(Warning) /\ WF_vars(Reply)
       /\ WF_vars(Finishing)

(***************************************************************************)
(* Properties.                                                             *)
(***************************************************************************)
Stages == 0..2

\* The processor's fields and the conversation keep their types.
TypeOK ==
  /\ stage \in Stages /\ retiredStage \in 0..1 /\ retired \in 0..1
  /\ disconnectAfterSpeech \in BOOLEAN /\ timer \in BOOLEAN
  /\ pending \in Seq({1, 2}) /\ audioStarted \subseteq {1, 2}
  /\ {watchdog, emitting} \subseteq Stages
  /\ disconnect \in {"none", "scheduled", "requested", "ended"}
  /\ runs \in Seq([stage : {1, 2}, at : {"queued", "speaking", "ended", "spoken"}])
  /\ speeches \in 0..MaxSpeech

\* "two LLM/TTS activity checks": a session is ended for inactivity only if
\* both were given since the user was last heard, and the second not first.
WarnedTwice ==
  /\ disconnect = "scheduled" => warned = {1, 2}
  /\ 2 \in warned => 1 \in warned

\* _timer and _warning_completion_timer: one countdown runs at a time, and the
\* watchdog is that of the current warning.
OneCountdown ==
  /\ ~(timer /\ watchdog # 0)
  /\ watchdog # 0 => watchdog = stage

\* Once a countdown is running, a user who stays silent is dismissed, although
\* warnings may fail, say nothing or never finish.
CountingDown(n) == timer /\ speeches = n
SpokenOrDismissed(n) == speeches > n \/ disconnect \in {"requested", "ended"}
SilentUserDismissed == \A n \in 0..MaxSpeech : CountingDown(n) ~> SpokenOrDismissed(n)

\* _retired_warning_completions, "test_late_first_warning_completion_does_not_end_
\* second_warning": the late speech of a warning that was given up is not taken
\* for the closing statement, which is heard or given up before the session ends;
\* but for a first warning whose response ended before its watchdog expired and
\* its speech after.
LateWarningIgnored ==
  disconnect = "scheduled" => 2 \in finished \cup expired \/ outlasted

\* What these rest on while the session lasts.  The warnings given are those up
\* to the stage, a countdown is for a warning still to come, and nothing is
\* retired before the second one is given; then at most one completion is.
StageOfWarnings ==
  Live =>
    /\ warned = 1..stage /\ (replying => stage = 0)
    /\ started \/ (stage = 0 /\ ~timer /\ emitting = 0 /\ runs = <<>>)
    /\ timer => stage < 2
    /\ disconnectAfterSpeech \/ disconnect = "scheduled" => stage = 2
    /\ stage < 2 => retired = 0 /\ retiredStage = 0
    /\ retiredStage # 0 => retired = 0
    /\ stage > 0 => emitting \in {0, stage}
    /\ stage = 0 => pending = <<>> /\ audioStarted = {}

\* Of the first warning there is nothing but its own response, which is pending
\* until it ends and has audio from when it speaks.
FirstWarning ==
  Live /\ stage = 1 =>
    /\ emitting = 1 => runs = <<>> /\ pending = <<1>> /\ audioStarted = {}
    /\ runs = <<>> /\ emitting = 0 => pending = <<>> /\ audioStarted = {}
    /\ runs # <<>> =>
         /\ Len(runs) = 1 /\ Head(runs).stage = 1
         /\ pending = IF Head(runs).at = "ended" THEN <<>> ELSE <<1>>
         /\ audioStarted = IF Head(runs).at \in {"speaking", "spoken"} THEN {1} ELSE {}
         /\ watchdog # 0 => Head(runs).at # "spoken"

\* Of the second warning, a response of the first that is still under way is
\* retired, when it has audio or when it gets it, unless it outlasted its end.
SecondWarning ==
  Live /\ stage = 2 =>
    /\ pending \in {<<>>, <<1>>, <<2>>, <<1, 2>>}
    /\ emitting = 2 =>
         /\ pending \in {<<2>>, <<1, 2>>} /\ Len(runs) <= 1
         /\ runs # <<>> => Head(runs).stage = 1
    /\ \A i \in 2..Len(runs) : runs[i].stage = 2
    /\ runs # <<>> /\ Head(runs).stage = 1 =>
         /\ Head(runs).at # "ended" => pending \in {<<1>>, <<1, 2>>}
         /\ Head(runs).at = "queued" => retiredStage = 1
         /\ Head(runs).at = "speaking" => retired = 1
         /\ Head(runs).at = "ended" => retired = 1 \/ outlasted

Inv ==
  /\ TypeOK /\ WarnedTwice /\ OneCountdown /\ LateWarningIgnored
  /\ StageOfWarnings /\ FirstWarning /\ SecondWarning

=============================================================================
