---- MODULE OmniTurns ----
(***************************************************************************)
(* Turns of the Omni service (nvidia_omni_multimodal_service.py) with both *)
(* input modalities and transcripts on.  pipecat hands system frames       *)
(* (interruptions, speech boundaries) to one task, here the variable       *)
(* input, and context frames to another, here data: each waits, at an      *)
(* await, for a turn it cancelled or follows, while the other goes on.     *)
(* A turn is a task of its own.  Audio is named by its utterance.  The     *)
(* aggregators around the service write the context and push its frames.   *)
(***************************************************************************)
EXTENDS Integers, Sequences, FiniteSets

CONSTANTS Spoken,     \* utterances, all long enough to be answered
          Typed,      \* messages typed by the user
          MaxTurns,   \* bound: turns started
          MaxTools,   \* bound: tool calls
          MaxCuts,    \* bound: interruptions
          None

UtterancesAssumption ==
    Spoken \cap Typed = {} /\ None \notin Spoken \cup Typed \cup {"user", "tool"}

VARIABLES
    ctx,        \* the shared LLMContext: messages <<role, what>>
    frames,     \* context frames not yet processed
    turns,      \* every turn task started, oldest first
    pending,    \* _pending_request with _pending_request_is_audio
    service,    \* _active_turn_parts, _answered_transcript, speech flags
    input,      \* where the task of system frames waits
    data,       \* where the task of context frames waits
    env         \* what the user and the aggregator did so far

vars == <<ctx, frames, turns, pending, service, input, data, env>>

Idle == [at |-> "idle", on |-> 0, what |-> None]
NoTurn == [turn |-> 0, audio |-> FALSE]
Over == {"replied", "silent"}     \* left a reply in the context, or none
Running(t) == t \in DOMAIN turns /\ turns[t].at \notin Over
InFlight == Running(pending.turn)

(* A turn as it is created: the speech it answers, or why a text turn runs
   and the newest user text its context frame was judged by. *)
NewTurn(utterance, trigger, of) ==
    [utterance |-> utterance, trigger |-> trigger, of |-> of, at |-> "new",
     cancelled |-> FALSE, carries |-> None, tool |-> FALSE]

Init ==
    /\ ctx = <<>> /\ frames = 0 /\ turns = <<>> /\ pending = NoTurn
    /\ service = [active |-> None, answered |-> None, speaking |-> None, responding |-> FALSE]
    /\ input = Idle /\ data = Idle
    /\ env = [said |-> {}, typed |-> {}, reported |-> <<>>, written |-> {}, tools |-> 0, cuts |-> 0]

(* _latest_user_text and _completion_trigger. *)
UserMessages == {i \in DOMAIN ctx : ctx[i][1] = "user"}
Newest(S) == CHOOSE i \in S : \A j \in S : j <= i
LatestUserText == IF UserMessages = {} THEN None ELSE ctx[Newest(UserMessages)][2]
Trigger ==
    CASE ctx = <<>> -> None
      [] ctx # <<>> /\ ctx[Len(ctx)][1] = "assistant" -> None
      [] OTHER -> ctx[Len(ctx)][1]

Cancel(ts, t) == [ts EXCEPT ![t].cancelled = TRUE]

(* _maybe_run_audio_turn once nothing is in the way, and the end of
   _maybe_run_text_turn: the new task becomes the pending one. *)
RunAudioTurn(u) ==
    /\ Len(turns) < MaxTurns
    /\ turns' = Append(turns, NewTurn(u, None, None))
    /\ pending' = [turn |-> Len(turns) + 1, audio |-> TRUE]
RunTextTurn(trigger, of) ==
    /\ Len(turns) < MaxTurns
    /\ turns' = Append(turns, NewTurn(None, trigger, of))
    /\ pending' = [turn |-> Len(turns) + 1, audio |-> FALSE]

(* _cancel_pending_request, its first half: cancel and wait.  The second
   half forgets the pending turn, whichever that is by then. *)
CancelAndWait(lane, why, what) ==
    /\ turns' = Cancel(turns, pending.turn)
    /\ lane' = [at |-> why, on |-> pending.turn, what |-> what]

(* An InterruptionFrame.  It empties the queue of context frames too. *)
Interruption ==
    /\ input = Idle /\ env.cuts < MaxCuts
    /\ env' = [env EXCEPT !.cuts = @ + 1]
    /\ frames' = 0
    /\ \/ /\ InFlight
          /\ CancelAndWait(input, "interruption", None)
          /\ UNCHANGED <<pending, service>>
       \/ /\ ~InFlight
          /\ pending' = NoTurn
          /\ service' = [service EXCEPT !.responding = FALSE]
          /\ UNCHANGED <<turns, input>>
    /\ UNCHANGED <<ctx, data>>

(* BotStartedSpeakingFrame and BotStoppedSpeakingFrame: the bot speaks what
   some turn produced. *)
BotSpeaking(b) ==
    /\ input = Idle /\ service.responding # b
    /\ b => \E t \in DOMAIN turns : turns[t].at \notin {"new", "open"}
    /\ service' = [service EXCEPT !.responding = b]
    /\ UNCHANGED <<ctx, frames, turns, pending, input, data, env>>

(* _handle_user_started: a barge-in drops the turn being generated. *)
UserStarted(u) ==
    /\ input = Idle /\ service.speaking = None /\ u \notin env.said
    /\ env' = [env EXCEPT !.said = @ \cup {u}]
    /\ \/ /\ service.responding /\ InFlight
          /\ CancelAndWait(input, "barge-in", u)
          /\ UNCHANGED <<pending, service>>
       \/ /\ ~(service.responding /\ InFlight)
          /\ pending' = IF service.responding THEN NoTurn ELSE pending
          /\ service' = [service EXCEPT !.responding = FALSE, !.speaking = u]
          /\ UNCHANGED <<turns, input>>
    /\ UNCHANGED <<ctx, frames, data>>

(* _handle_user_stopped: answer the utterance, preempting the turn in
   flight, unless the bot is responding (its audio then stays buffered, and
   the next utterance replaces it). *)
UserStopped ==
    /\ input = Idle /\ service.speaking # None
    /\ service' = [service EXCEPT !.speaking = None]
    /\ \/ /\ service.responding
          /\ UNCHANGED <<turns, pending, input>>
       \/ /\ ~service.responding /\ InFlight
          /\ CancelAndWait(input, "preempt", service.speaking)
          /\ UNCHANGED pending
       \/ /\ ~service.responding /\ ~InFlight
          /\ RunAudioTurn(service.speaking)
          /\ UNCHANGED input
    /\ UNCHANGED <<ctx, frames, data, env>>

(* The awaited turn has unwound: the handler of the system frame goes on. *)
InputResumes ==
    /\ input # Idle /\ ~Running(input.on)
    /\ input' = Idle
    /\ \/ /\ input.at = "preempt"
          /\ RunAudioTurn(input.what)
          /\ UNCHANGED service
       \/ /\ input.at # "preempt"
          /\ pending' = NoTurn
          /\ service' = [service EXCEPT !.responding = FALSE,
                                        !.speaking = IF input.at = "barge-in" THEN input.what ELSE @]
          /\ UNCHANGED turns
    /\ UNCHANGED <<ctx, frames, data, env>>

(* A bug: no memory of what an audio turn answered. *)
EchoesForgotten(trigger) == trigger = None

(* _echoes_an_audio_turn. *)
Echoes(trigger) ==
    \/ trigger = None
    \/ service.answered # None /\ LatestUserText = service.answered

(* An LLMContextFrame, _maybe_run_text_turn: an echo is ignored, a tool
   result waits for the turn in flight, a user's message preempts it unless
   it is an audio turn. *)
ContextFrame ==
    /\ data = Idle /\ frames > 0
    /\ frames' = frames - 1
    /\ \/ /\ \/ Trigger # "tool" /\ Echoes(Trigger)
             \/ Trigger = "user" /\ InFlight /\ pending.audio
          /\ UNCHANGED <<turns, pending, data>>
       \/ /\ Trigger = "tool" /\ InFlight
          /\ data' = [at |-> "tool", on |-> pending.turn, what |-> LatestUserText]
          /\ UNCHANGED <<turns, pending>>
       \/ /\ Trigger = "user" /\ ~Echoes(Trigger) /\ InFlight /\ ~pending.audio
          /\ CancelAndWait(data, "user", LatestUserText)
          /\ UNCHANGED pending
       \/ /\ \/ Trigger = "tool"
             \/ Trigger = "user" /\ ~Echoes(Trigger)
          /\ ~InFlight
          /\ RunTextTurn(Trigger, LatestUserText)
          /\ UNCHANGED data
    /\ UNCHANGED <<ctx, service, input, env>>

(* It resumes even when an interruption cancelled it: the CancelledError is
   suppressed at the await. *)
DataResumes ==
    /\ data # Idle /\ ~Running(data.on)
    /\ data' = Idle
    /\ RunTextTurn(data.at, data.what)
    /\ UNCHANGED <<ctx, frames, service, input, env>>

(* _run_turn begins.  The follow-up of a tool call carries the spoken turn
   the context lacks, _unwritten_spoken_turn. *)
UnwrittenSpokenTurn(t) ==
    IF turns[t].trigger # "tool" \/ LatestUserText = service.answered THEN None
    ELSE service.answered
Start(t) ==
    /\ turns[t].at = "new" /\ ~turns[t].cancelled
    /\ turns' = [turns EXCEPT ![t].at = "open"]
    /\ service' = [service EXCEPT !.active = IF turns[t].utterance # None THEN turns[t].utterance
                                             ELSE UnwrittenSpokenTurn(t)]
    /\ UNCHANGED <<ctx, frames, pending, input, data, env>>

(* build_chat_completion_params appends whatever parts are active now. *)
Request(t) ==
    /\ turns[t].at = "open" /\ ~turns[t].cancelled
    /\ turns' = [turns EXCEPT ![t].at = "stream", ![t].carries = service.active]
    /\ UNCHANGED <<ctx, frames, pending, service, input, data, env>>

(* _emit_user_transcript, of the speech the request carried, or of as much of
   it as a turn that fails or is cancelled has transcribed by then
   (_finalize_reasoning_state).  A reply without <transcript> reports none. *)
Reported == {env.reported[i] : i \in DOMAIN env.reported}
Transcribe(t) ==
    /\ turns[t].at = "stream" /\ turns[t].utterance # None
    /\ turns[t].carries \in Spoken \ Reported
    /\ service' = [service EXCEPT !.answered = turns[t].carries]
    /\ env' = [env EXCEPT !.reported = Append(@, turns[t].carries)]
    /\ UNCHANGED <<ctx, frames, turns, pending, input, data>>

(* The end of _run_turn, its finally too: cancelled, by a timeout or an error
   at any moment, or when the stream has ended, whether it transcribed its
   speech or not. *)
End(t, how) ==
    /\ Running(t) /\ (turns[t].cancelled \/ turns[t].at # "new")
    /\ turns' = [turns EXCEPT ![t].at = how]
    /\ service' = IF turns[t].at = "new" THEN service ELSE [service EXCEPT !.active = None]
    /\ UNCHANGED <<frames, pending, input, data, env>>

(* A turn that spoke leaves its reply in the context, after the speech the
   aggregator writes as the reply starts. *)
Reply(t) ==
    /\ turns[t].at = "stream" /\ ~turns[t].tool /\ Reported \subseteq env.written
    /\ ctx' = Append(ctx, <<"assistant", t>>)
    /\ End(t, "replied")

(* One that failed or was cancelled before it spoke, whose reply is empty, or
   that only called a tool, leaves none. *)
NoReply(t) == UNCHANGED ctx /\ End(t, "silent")

(* A turn calls a tool, whose result the assistant aggregator writes. *)
ToolResult(t) ==
    /\ turns[t].at = "stream" /\ ~turns[t].cancelled /\ ~turns[t].tool
    /\ env.tools < MaxTools
    /\ turns' = [turns EXCEPT ![t].tool = TRUE]
    /\ ctx' = Append(ctx, <<"tool", t>>)
    /\ frames' = frames + 1
    /\ env' = [env EXCEPT !.tools = @ + 1]
    /\ UNCHANGED <<pending, service, input, data>>

(* The user aggregator writes a reported utterance, in order, or a typed
   message, and pushes the context. *)
Write ==
    /\ \/ \E i \in DOMAIN env.reported :
            /\ env.written = {env.reported[j] : j \in 1..(i - 1)}
            /\ ctx' = Append(ctx, <<"user", env.reported[i]>>)
            /\ env' = [env EXCEPT !.written = @ \cup {env.reported[i]}]
       \/ \E m \in Typed \ env.typed :
            /\ ctx' = Append(ctx, <<"user", m>>)
            /\ env' = [env EXCEPT !.typed = @ \cup {m}]
    /\ frames' = frames + 1
    /\ UNCHANGED <<turns, pending, service, input, data>>

Turn(t) == Start(t) \/ Request(t) \/ Transcribe(t) \/ ToolResult(t) \/ Reply(t) \/ NoReply(t)
Next ==
    \/ Interruption \/ UserStopped \/ InputResumes \/ ContextFrame \/ DataResumes \/ Write
    \/ \E b \in BOOLEAN : BotSpeaking(b)
    \/ \E u \in Spoken : UserStarted(u)
    \/ \E t \in DOMAIN turns : Turn(t)
Spec == Init /\ [][Next]_vars

TurnRecords ==
    [utterance : Spoken \cup {None}, trigger : {"user", "tool", None},
     of : Spoken \cup Typed \cup {None}, at : {"new", "open", "stream"} \cup Over,
     cancelled : BOOLEAN, carries : Spoken \cup {None}, tool : BOOLEAN]
Waits(why, what) == [at : why, on : Nat, what : what]
InputWaits ==
    {Idle} \cup Waits({"interruption"}, {None}) \cup Waits({"barge-in", "preempt"}, Spoken)
DataWaits == {Idle} \cup Waits({"user", "tool"}, Spoken \cup Typed \cup {None})
TypeOK ==
    /\ ctx \in Seq(({"user"} \X (Spoken \cup Typed)) \cup ({"assistant", "tool"} \X Nat))
    /\ frames \in Nat /\ turns \in Seq(TurnRecords)
    /\ pending \in [turn : 0..Len(turns), audio : BOOLEAN]
    /\ service \in [active : Spoken \cup {None}, answered : Spoken \cup {None},
                    speaking : Spoken \cup {None}, responding : BOOLEAN]
    /\ input \in InputWaits /\ data \in DataWaits
    /\ env \in [said : SUBSET Spoken, typed : SUBSET Typed, reported : Seq(Spoken),
                written : SUBSET Spoken, tools : Nat, cuts : Nat]

\* What is reported, each utterance once, is written in order; the service
\* remembers the last of it.
Unwritten == Reported \ env.written
LastReported == IF env.reported = <<>> THEN None ELSE env.reported[Len(env.reported)]
InOrder ==
    /\ \A i, j \in DOMAIN env.reported : env.reported[i] = env.reported[j] => i = j
    /\ service.answered = LastReported
    /\ LatestUserText \in Spoken =>
         \E n \in DOMAIN env.reported :
             /\ env.reported[n] = LatestUserText
             /\ env.written = {env.reported[k] : k \in 1..n}

\* While every turn that ended left a reply, none was cut short and no tool
\* called, the turn in flight is the only one, and what is not written yet is
\* of an audio turn in flight.
Undisturbed ==
    env.tools = 0 /\ \A t \in DOMAIN turns : ~turns[t].cancelled /\ turns[t].at # "silent"
OneInFlight ==
    Undisturbed =>
        /\ input = Idle /\ data = Idle
        /\ \A i \in DOMAIN ctx : ctx[i][1] # "tool"
        /\ \A t \in DOMAIN turns :
             /\ ~turns[t].tool
             /\ Running(t) => pending.turn = t /\ pending.audio = (turns[t].utterance # None)
        /\ Unwritten # {} => InFlight /\ pending.audio

(* The context frame that follows a transcript starts no text turn for
   speech an audio turn has transcribed: _echoes_an_audio_turn, and the audio
   turn in flight, :656 and :668.  Of the last speech transcribed it never
   does.  Of an earlier one only once a turn was cut short, failed or ended
   without a reply, or a tool was called: the frame then waits until the turn of
   later speech has ended with that speech transcribed and not yet written, or
   until the follow-up of a tool has hidden it. *)
Again(utterance, trigger) ==
    trigger = "user" /\ utterance \in Spoken =>
        utterance \in Reported \ {LastReported} /\ ~Undisturbed
SpokenAnsweredOnce == \A t \in DOMAIN turns : Again(turns[t].of, turns[t].trigger)

Inv == TypeOK /\ InOrder /\ OneInFlight /\ SpokenAnsweredOnce /\ Again(data.what, data.at)

(* The docstring of _unwritten_spoken_turn: the follow-up of a tool result
   carries no spoken turn that was in the context before that result. *)
ReplaysOnlyUnwritten ==
    \A t \in DOMAIN turns : turns[t].at = "stream" /\ turns[t].trigger = "tool" =>
        ~\E i, j \in DOMAIN ctx :
            /\ i < j /\ ctx[i] = <<"user", turns[t].carries>>
            /\ ctx[j][1] = "tool" /\ ctx[j][2] < t

(* "a brand-new turn must have started in its place": a turn that starts has
   replaced the one before it, test_omni_turn_preemption.py. *)
OneTurnAtATime ==
    \A s, t \in DOMAIN turns :
        {turns[s].at, turns[t].at} \subseteq {"open", "stream"} => s = t
====
