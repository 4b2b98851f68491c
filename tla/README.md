# A TLA+ verification of the Nemotron voice agent

These modules model the parts of the Nemotron voice agent that decide what
happens next: who may speak, which response is open, which job is under way,
what a late message may still change. They leave signal processing, prompts and
the text of messages alone. `PROJECT.json` lists, for every definition that
stands for code, the file and lines it stands for.

Unless said otherwise, paths are below `src/src/`.

- [The system](#the-system)
- [The modules](#the-modules)
- [Runs, bounds and fairness](#runs-bounds-and-fairness)
- [What is proved](#what-is-proved)
- [Findings](#findings)
- [Known divergences without a run](#known-divergences-without-a-run)
- [What is not modelled](#what-is-not-modelled)
- [Plan](#plan)

## The system

A pipecat pipeline (speech recognition, a language model, speech synthesis) runs
for each session. It is reached through WebRTC or RTVI (the browser client) or
through `/v1/realtime`, a websocket that speaks the OpenAI Realtime protocol.
Everything runs on one asyncio event loop, so the code between two awaits runs
alone, and everything of interest happens at the awaits.

| Part | Code | State | Operations | What makes it correct |
|---|---|---|---|---|
| Realtime responses | `realtime/{conversation,lifecycle,observer,serializer,transport}.py` | `ConversationState`, `emit_lock`, the observer's buffers | client messages, pipeline frames, audio chunks; each emits events across awaits | every response is announced, closed once, in order, and none is lost |
| Realtime user turns | the same | the user item, the sample clock | VAD frames, transcripts, `input_audio_buffer.*` | an item per turn, its events once and in order, disjoint times |
| Realtime handshake | `realtime/{gateway,session,voice}.py` | rejected and failed counts, the session config | `session.update`, readiness check, handoff, live updates | the bot runs what was acknowledged; the handshake ends |
| Realtime audio, metrics | `realtime/{audio,metrics,events}.py` | resampler streams | pure conversions | a resampler sees one rate |
| Deliberate thinking | `examples/omni_assistant_subagents/`: `media_dispatch_processor.py`, `subagents/transport/thinking_controller.py` | dispatch flags, pending question, generation, active flag | stall, dispatch, job, follow-up, interruption | an answer is spoken once, never after an interruption |
| Uploaded media | `attachment_store.py`, `media_analysis_controller.py` | the store, the routing gate, the board, pending prompt, jobs | upload, capture, prompt, dispatch, response, disconnect | board and gate agree; no double analysis; a prompt keeps its attachment |
| Live webcam | `webcam_frame_store.py`, `webcam_controller.py`, the client's `WebcamVisionPanel.tsx` | enabled, epoch, summary task, board | on, off, frame, loop, summary response | no observation of an earlier camera session; off stays off; one summary at a time |
| Proactive gestures | `proactive_gesture_controller.py` | last intent, candidate, two times | each scored frame | one act per gesture, confirmed thumbs, one resume per barge-in |
| Speaker agent | `subagents/speaker/*`, `speaker_context.py` | repeat guard, capture cooldown, streamed envelope | turn resolution, correction, escalation | a repeat is bridged; a turn has one owner |
| Omni LLM service | `examples/omni_assistant/nvidia_omni_multimodal_service.py` | the active and the pending turn, the answered transcript, the split of a reply | audio, typed and tool turns, preemption | an utterance is answered once; where deltas are cut does not matter |
| Activity check | `examples/shared/activity_check.py` | stage, two timers, pending and retired warnings | silence, warnings, their frames, the user's speech | two warnings before the end; a silent user is dismissed |
| Streaming LLM input | `examples/shared/vllm_streaming_input/server.py` | engine and standby request, response task | prefill, commit, cancel, tool call, swap | an answer comes from its own prompt; a commit is answered |
| Streaming LLM client | `examples/shared/nvidia_streaming_llm.py` | what it believes the server holds | interim, commit, interruption, reconnection | the answer is to the user's turn |
| Word-timed TTS | `examples/shared/nvidia_word_tts.py` | streams, contexts, words committed | start, supersede, interrupt, word reports | a stream keeps to its own context; each word once |
| Diarization | `examples/shared/speaker/transcript.py` | fragments of a turn, the last speaker | finals, turn starts, closes | the browser shows what the LLM reads |
| Server sessions | `server.py` | stored and active configs, connections, media | configure, offer, websocket, bot start and end, uploads | a session runs with its own config; media only where it is looked at |
| Session configuration | `utils.py`, `examples_registry.py` | probes remembered | find, filter, hydrate, clamp, sanitise | the reads of one body agree; budgets fit |
| Speech catalogs, readiness | `examples/shared/prewarm.py`, `server.py` | caches by key, the warm-up lock | list, intersect, probe, warm up | an offer can be served; an id means ready |
| Generic example | `examples/generic` | the reply being held, the providers of a tool | deltas, frames, tool calls | what is not addressed is not spoken; one result per call |
| Frontend and backend agents | `examples/frontend_backend_agent` | calls, the Thinker's tasks, draft and flags | call, cancel, tools, booking | calls settle; flags and draft agree |
| Booking database | `.../airline/database` | flights, bookings, codes, log | book, rebook, cancel, look up | the tables agree in every committed state |
| Benchmark clients | `benchmarking_tools/scaling-perf` (below `src/`) | turn, events of the turn, counts | turns over two protocols | a turn measures its own response |
| Full-Duplex-Bench clients | `benchmarking_tools/Full-Duplex-Bench-Eval` | chunks, their times, deadlines, the sender | stream a file, collect, cut, assemble | what is written is of the file's own session, apart, and silent once interrupted |
| Browser client | `src/client/src` | session id, connection, client generation | clicks, callbacks | the id is of the connection |

How they interact. The Realtime serializer (client to pipeline) and observer
(pipeline to client) share one `ConversationState` and one emit callback under a
lock. In the subagents example the Speaker queues work in the transport agent's
controllers, the dispatch processor starts it when the acknowledgement has been
heard, jobs go over pipecat's bus to the Thinker, the MediaAnalyzer and the
WebcamAgent, and their responses come back in tasks of their own. The stores
call listeners one loop turn after the HTTP handler has stored something. The
activity check sits at the end of the generic pipeline and sees everybody's
frames go by. The streaming server is another process, behind a websocket.

The streaming client and server share no more than the websocket: the client
never asks what the server holds. The browser's session id is made by the
server's configuration handler after the readiness probes, named by the offer or
websocket that starts the bot, and by every upload. The backend agent reaches
the booking database over HTTP only.

The hard behaviours, then, are of four kinds: state read before an await and
used after it; an answer that comes after what it answers was given up; two
tasks closing, starting or cancelling the same thing; and a flag shared by
several pieces of work. The `hazards` of `PROJECT.json` list them by line.

## The modules

| Module | Models | Notes |
|---|---|---|
| `RealtimeResponse` | the assistant half of a Realtime session | three tasks; one step is one emit |
| `ResponseLife` | the abstract response life cycle | refined by `RealtimeResponse` (`LifeSpec`) |
| `RealtimeResponse_proofs` | theorems about `RealtimeResponse` | |
| `RealtimeUserTurn` | the user half | one step is one frame |
| `RealtimeGateway` | handshake and live updates | |
| `Thinking` | `ThinkingController` and the dispatch processor | two processor tasks |
| `MediaAnalysis` | attachments, captures, their analysis | |
| `Webcam` | browser camera, frame store, `WebcamController`, agent | |
| `Gestures` | `ProactiveGestureController` | a clock |
| `ActivityCheck` | `ActivityCheckProcessor` | two timers |
| `StreamingInput` | `StreamingSession`, `_EngineRequest` | main, response and run tasks |
| `Sessions` | the session tables of `server.py` | offers, websockets, uploads |
| `SessionConfig` | a posted body becomes a config | one slot a step, probes between |
| `SpeechCatalog` | voices and languages, cached and intersected | a thread per caller |
| `ServiceStatus` | readiness probes and the warm-up | a pool of threads, one lock |
| `OmniTurns` | turns of the omni service | two processor tasks and the turns |
| `TranscriptSplit` | `_TranscriptResponseExtractor` | against the split of the whole reply |
| `Speaker` | a turn of the Speaker agent | from the envelope to speech and work |
| `WordTts`, `WordTimings` | synthesis streams; words committed | |
| `Diarization` | `SpeakerDiarizationProcessor` and the finalized turns | |
| `StreamingClient` | `NvidiaStreamingLLMService` | with the server's session reduced |
| `AddressedReply` | `silent_reply.py` | reply stream, filter, joined lines |
| `JsonStream` | `JsonStringFieldStreamer` | a loop of `_advance_to_string` is an iteration |
| `GenericTools` | the tool handlers of the generic example | |
| `FrontendBackend` | call_backend, cancel_backend, the Thinker | code between two awaits |
| `BookingDatabase`, `PnrLookup` | the booking server | SQLite's deferred transactions |
| `BenchmarkTurns` | `PerfClient` with either protocol client | |
| `FullDuplexClient` | both Full-Duplex-Bench clients on one sample | a clock of one unit |
| `BrowserSession` | the connect button and the session id | |
| `MCResponse`, `MCLive`, `MCSessions`, `MCAssistant`, `MCAirline` | what TLC runs | see below |
| `MCRealtimeResponse`, `MCBookingDatabase`, `MCFrontendBackend` | constants of runs | |
| `MCLive_proofs` | theorems about `RealtimeGateway`, `Webcam`, `ActivityCheck`, `ServiceStatus` | |
| `MCSessions_proofs` | theorems about `Sessions`, `SessionConfig`, `SpeechCatalog`, `GenericTools`, `BrowserSession`, `FullDuplexClient` | cites `Turns_proofs` |
| `Turns_proofs`, `Conversation_proofs` | theorems about `RealtimeUserTurn` and `BenchmarkTurns`; about `StreamingClient` and `Diarization` | |
| `MCAirline_proofs` | theorems about `BookingDatabase`, `PnrLookup`, `FrontendBackend` | |
| `MCAssistant_proofs` | theorems about `Thinking`, `MediaAnalysis`, `Gestures`, `Speaker`, `OmniTurns`, `WordTts`, `WordTimings` | |
| `StreamingInput_proofs` | theorems about `StreamingInput` | |

**The sums.** Components that share no state are checked in one run: `component`
names the one that moves, chosen in the initial state. In `MCLive`, `MCSessions`
and `MCAssistant` they share the variables `v1`, `v2`, ... too, which the
INSTANCEs substitute for each module's own; a trace is read with the INSTANCE of
its component. A property of a sum is the conjunction of the properties of one
module, under that module's component: `CameraAsShown`, say, is `Webcam!Inv` (the
type invariant, three invariants worth having, and what these rest on). The bounds
of the instances are CONSTANTS of the sum, so that a theorem about the sum holds
for each of their values. `MCAirline` keeps its components'
variables apart, and `MCResponse` is one module in two sizes. Where the code
itself makes components meet, the meeting is in the module: the serializer and
the observer in `RealtimeResponse`, the browser and the controller in `Webcam`,
the client and the server's session in `StreamingClient`, the Thinker's tasks
and the booking in `FrontendBackend`. Nothing is gained by a product of the
others: they exchange only the inputs their modules leave free.

Names follow the code where TLA+ allows it: `conv` is `ConversationState`,
`told`, `outlasted`, `wire`, `sent`, `asked`, `warned` and the like are records
kept for the properties, and are named so in the module's header.

**RealtimeResponse.** The only awaits on the paths of the client, observer and
audio tasks are emits, and an emit holds `emit_lock`, a FIFO lock, while it
sends. So a task is either at rest or waiting with an event to emit; `ahead` is
who is before it in the queue. `Sent(t)` is the return of a send, with everything
the task does up to its next emit; each input action is a handler up to its
first emit. Response and item ids are minted together, so one number stands for
both. Left out: the frame-id dedupe of the observer, text contents, tool calls,
metrics.

**RealtimeUserTurn.** Only the observer changes the user item and reads the
sample clock before its first await, so a frame is a step. A transcript is
identified by the turn it transcribes, and may come early, late or twice.

**RealtimeGateway.** `Receive` covers every branch of the receive loop;
`NotReady` and `Ready` are the outcome of the readiness check, during which the
client may go away. A patch is a mode, a TTS service, a voice and two rates.

**Thinking.** `at` and `call` say where each of the processor's two tasks is
suspended. The generation and the job ids are as in the code. The two bounds are
the number of questions and of interruptions.

**MediaAnalysis.** Listener calls, start requests, jobs and delayed follow-ups
are sets of things under way, any of which may go on next. One `start_pending`
runs at a time, which is so in audio mode; an overlap of audio and text mode is
left out, and so is an analyzer that answers without text, which its fallback
text avoids. `BoardAgreesWithGate` says of an upload not analyzed yet that the
board calls it pending only while at most one capture was asked for: a second one,
asked for between two callbacks, has the first snapshot taken twice, and the upload
whose callback that was stays unmarked (see the divergences). The attempt to prove
the invariant without this exception found it; `MaxCaptures` is 2 so that the run
meets it.

**Webcam.** Messages of the data channel are ordered; frame uploads are not, and
their callbacks come later. The frame ring, the upload-control messages and the
summary's window size are left out.

**Gestures.** `handle` is split by its early returns; who speaks is free.

**ActivityCheck.** The watchdog may expire at any moment; what is being said ends
before the next warning's timer, half a minute or more later; queued responses
that have not begun by then never come. Two warnings' `BotStoppedSpeaking` merged
by the transport are left out.

**StreamingInput.** A prompt is a sequence of tokens, and rendering is
concatenation, except that the template may drop a token when it renders an
answer back. `main.at` and `resp.at` name the await in which the two tasks of a
session are. `got` is what the engine has taken of what was `fed`; the engine may
fail in every state. A cancellation of the response is delivered at its await:
swallowed where `stop` joins a run, raised anywhere else. `Held` is what the
session still refers to, and leaked requests count against `MaxRequests`.

**Sessions.** A handler that starts a bot takes the stored configuration and
writes the active table before it negotiates; posts of media check the session,
then read their body. `first` records which handler came first.

**SessionConfig.** The catalog is a set of entries; a body is a choice of
example, of a service per slot and of the settings that depend on each other.
Probes change their answer between any two reads; `steady` records that none did.

**SpeechCatalog, ServiceStatus.** A caller or a probe is a thread. A timeout
strikes at any moment; the thread behind it goes on.

**OmniTurns.** `input` and `data` are the two tasks of a pipecat processor, each
at rest or at an await inside the service; turns are tasks of their own. The
aggregators around the service are external and write the context. A turn ends at
any moment of its life: cancelled, by a timeout or an error (:748), or with its
stream; it may have reported its transcript by then or not (a failing turn reports
what is complete, :531, a reply without `<transcript>` nothing, :1080), and may leave
a reply in the context (`Reply`) or none (`NoReply`). Of the aggregators the model
takes over what the service's own docstring says (:709): speech that was reported is
written once the assistant's response starts, so before the reply that is written at
its end.

**Speaker.** A reply is a model value; two replies of one opening begin alike,
which is all the guard can know before it has heard more. Likeness of replies is
equality here, a ratio in the code. A stream may be cut by an interruption before
it is known to be a repeat, and the correction of a turn that was streamed speaks a
second time: `RepeatsAreBridged` excepts these two, which its proof found missing.

**WordTts, WordTimings.** The first has the streams' threads and tasks, without
the words; the second the words, without the streams.

**Diarization.** A word is a number, so that its text is the same in both views
exactly when it is the same word.

**StreamingClient.** The server's side is what `StreamingInput` has of its
request, text and answer; the engine never fails here. `marred` records the two
ways the client's belief goes wrong (see `session_in_step`).

**FrontendBackend.** A plan is a sequence of tools out of a set; the booking
server answers as `BookingDatabase` may, or fails. `RunTools` runs a plan up to the
first tool that awaits the server (`Run` is its recursion); `post.booked` is what
the server did with a booking whether or not the answer is still wanted; `setup`
chooses, in the initial state, between the calls with a cancellation and three
calls.

**BookingDatabase.** A read outside a transaction sees the last commit; the first
write takes the lock. A request may fail at every statement.

**BenchmarkTurns.** The server takes the client's commands in order and runs one
response at a time; a timeout of the client strikes at any moment. Initial states
differ in the protocol and in whether the bot introduces itself.

**FullDuplexClient.** One receiving loop for both protocols: a chunk, an
interruption, a new response or a poll that times out, each with the deadlines at
the end of the turn. The sender keeps up with the clock or fails. Time and audio
have one unit, so two chunks that come in the same unit are the code's burst.

**BrowserSession.** Every click is a run of `handleClick` of its own, with its
awaits; React's effects and the Pipecat client's callbacks are steps.

## Runs, bounds and fairness

| Run | Components | Bounds | What it shows |
|---|---|---|---|
| `response` | `RealtimeResponse` | 3 responses with every client message and frame; 2 with the audio task, two ways to begin and one to cancel | responses are closed once and in order, none is wiped or forgotten; the inductive invariant; refinement of `ResponseLife`; every completed response is closed |
| `live` | `RealtimeGateway` | 3 rejections instead of 20, three TTS services of which one lists nothing | what the bot runs, voices, rates; the handshake ends |
| | `Webcam` | 2 camera sessions, 3 frames | epochs, off stays off, one summary; fresh frames are sent |
| | `ActivityCheck` | the user speaks up to twice | two warnings, one countdown, late warnings; dismissal |
| | `ServiceStatus` | 2 requests of a session, or 1 and 1 of the list; a probed LLM and a cloud TTS, 2 threads | an id means ready; a request is answered |
| `sessions` | `Sessions` | 1 id, 3 connections, 2 posts | who runs the posted config; when media are kept |
| | `SessionConfig` | 2 sections, 2 examples, the numbers around each limit | reads agree, budgets fit |
| | `SpeechCatalog` | 2 callers, 2 catalogs of one server, 3 languages | catalogs apart, offers served |
| | `GenericTools` | every class of argument and answer | one result |
| | `BenchmarkTurns` | 2 turns after an introduction, 2 responses, 2 deltas each, 1 error | a turn's own response |
| | `FullDuplexClient` | 2 files, 2 chunks of 1 or 2 units each, 1 new response, an input of 2 units and 1 of silence | chunks apart, silence after an interruption, a file only for a whole input |
| | `BrowserSession` | 4 clicks, 3 generations of the client | the id's connection |
| | `RealtimeUserTurn` | 3 turns, 1 clock unit, 2 transcripts each | item order, an item per turn, disjoint times |
| | `Diarization` | 3 words, 2 tags, 2 closes | views agree, turn ids fresh |
| | `StreamingClient` | 2 turns of 2 words, 1 update, 2 websockets | the answer is to the turn, where nothing marred it |
| `assistant` | `Thinking` | 3 questions, 2 interruptions | answers uninterrupted, one pass |
| | `MediaAnalysis` | 3 attachments, 2 captures, 3 jobs | board and gate, one analysis, prompts keep their attachment |
| | `Gestures` | 3 time units, a cooldown of 1 and a window of 2, 6 frames | fresh, confirmed, resumed once |
| | `Speaker` | 3 turns, 16 envelopes, a memory of 1 | repeats bridged, one owner |
| | `OmniTurns` | 3 turns that may fail at any moment, 2 utterances (interchangeable, so taken up to symmetry), 1 typed message, 1 tool, 1 cut | answered once |
| | `TranscriptSplit`, `JsonStream`, `AddressedReply` | 5 pieces; 7 classes of characters; 2 replies of 2 tokens; deltas of up to 3 | cuts do not matter, silence unspoken, joined lines keep their speakers |
| | `WordTts`, `WordTimings` | 2 contexts, 3 streams; 5 words | streams apart, each word once |
| `streaming` | `StreamingInput` | 2 commits, 2 words, 3 engine requests | answers of their prompts, warm after a tool call, responses end |
| `airline` | `BookingDatabase` | 2 requests, 2 locators, a flight number on two days | tables agree, keys hold |
| | `PnrLookup` | 3 rows of 3 letters out of 2 | the one nearest or none |
| | `FrontendBackend` | 2 calls and a cancel while a filler is spoken; 3 calls; liveness in both | flags and draft agree; calls settle |
| `response_created`, `streaming_commit`, `cancelled_is_final`, `cancel_stops`, `follow_up_replays`, `session_in_step` | | | violations, see Findings |

*Why the bounds are enough.* Every hazard here is between an old thing and a
newer one, sometimes with one more in between: a response closing while the next
begins and is cancelled (3), a late transcript one or two turns later (3), a late
failure of one pass while the next is active and a third queued (3), a frame of
the camera session before (2), a stream superseded by one that is superseded
(3), three calls for two Thinker tasks at once. The limit of rejected events only
matters as a limit. Two commits let an answer be superseded, and its requests be
reused. Six gesture frames are the fewest in which a barge-in is resumed, seen
again and resumed wrongly. A run stops at its bound (no more inputs), so deadlock
is not checked.

*Fairness.*

- `RealtimeResponse`: `WF(Sent(t))` for each task. asyncio runs what is ready,
  the lock is FIFO, and a websocket send returns or raises, which `emit` treats
  alike.
- `RealtimeGateway`: `WF(Receive)`, because the receive has a deadline that ends
  the handshake too, and `WF` of the check's outcome, which has a timeout. The
  client is under no obligation.
- `Webcam`: `WF` of the summary loop, which polls, and of the agent: a job is
  answered. Nothing in the controller resets `_summary_task_id` for a job that is
  not, so without this assumption the property does not hold.
- `ActivityCheck`: `WF` of the timers and of `on_warning`'s return, of the reply
  that comes or does not, and of the end of speech.
- `ServiceStatus`: `WF` of a request's own next check, refusal or timeout. A
  service, and a thread that waits for one or for the lock, may hang for ever.
- `StreamingInput`: `WF` of each task's own progress and of the engine working
  on what it has been given; failures are never assumed to happen.
- `FrontendBackend`: `WF` of the steps of handlers and Thinker tasks that are
  ready to run or wait for an HTTP answer or the planner, both under a timeout.

In `MCLive` each fairness is of the component's own steps, with the component as
a guard, so that an idle component constrains nothing.

Liveness is checked under these specifications only, and the fairness never
includes an input.

Every property of a passing run has a mutant in `PROJECT.json`: a definition of
the module with a plausible mistake in it (a dropped guard, a missing reset, an
old generation accepted), under which the run finds the property violated. The
mutated definitions stand in the modules just before the ones they replace, and
are used nowhere else.

## What is proved

TLAPS proves the theorems below for every value of the constants that the named
assumptions allow, so for any number of responses, sessions, uploads, turns,
requests and so on. Of the properties that the passing runs check, all invariants
but one and both action properties are theorems.

| Module | Theorem | States | Assumes |
|---|---|---|---|
| `RealtimeResponse_proofs` | `LifeInvariant`, `TypeCorrect`, `ClosesOnceInOrder`, `NoResponseLost` | `LifeInv`, `TypeOK`, `ClosedOnceInOrder`, `EveryResponseAccountedFor` always | the three `ASSUME`s of `RealtimeResponse` |
| | `ImplementsResponseLife` | `Spec => Life!Spec`, the refinement | the same |
| `MCLive_proofs` | `SessionIdMeansReady` | `IdMeansReady` | `ServicesAssumption` |
| | `BotRunsAsNegotiated` | `RunsAsNegotiated` | `GatewayAssumption` |
| | `CameraShowsThisEpoch` | `CameraAsShown` | `CameraAssumption` |
| | `WarningsInOrder` | `WarnedInOrder` | `ActivityAssumption` |
| `StreamingInput_proofs` | `RequestsHeld`, `AnswersItsPrompt`, `ToolCallLeavesWarmEngine` | `Inv`, `AnswerFromItsPrompt`, `WarmAfterToolCall` | `StreamingAssumption` |
| `MCSessions_proofs` | `SessionTablesAgree`, `MediaOfCapableSessions` | `TablesInStep`, `MediaAsAllowed` | `ConfigsAssumption` |
| | `ConfigServed` | `ConfigAsServed` | `ConfigAssumption` |
| | `OffersCanBeServed` | `OffersServed` | `SpeechAssumption` |
| | `SessionIdOfConnection` | `IdOfThisConnection` | `BrowserAssumption` |
| | `ToolsAnswerOnce` | `AnsweredAtMostOnce` | |
| | `MeasurementsApart` | `TurnsKeptApart` | `DuplexAssumption` |
| `Turns_proofs` | `UserItemsInOrder` | `UserTurnsInOrder` | `TurnsAssumption` |
| `Conversation_proofs` | `AnswersOfTheirTurn` | `UnmarredAnswers` | |
| | `LabelsMeanTheSame` | `TranscriptsAgree` | `TranscriptsAssumption` |
| `MCAirline_proofs` | `TablesAgreeWithLog`, `CatalogueKeyed` | `AuditAgrees`, `FlightsKeyed` | `DatabaseAssumption` |
| | `LookupFindsNearest` | `NearestOrNone` | `LookupAssumption` |
| | `BookingFlow` | `BookingFlowConsistent` | `AgentAssumption` |
| `MCAssistant_proofs` | `OnePassAtATime` | `OnePassAnswers` | `AssistantAssumption` |
| | `BoardIsOfLatestUpload`, `PromptsKeepTheirAttachment` | `BoardOfLatestUpload`, the action property `PromptKeepsItsAttachment` | the same |
| | `GesturesAct`, `OneOwnerSpeaks` | `GesturesActOnce`, `SpokenByOneOwner` | the same |
| | `SpeechAnsweredOnce`, `EachStreamItsWords` | `SpokenAnsweredOnce`, `WordsOfOwnStream` | the same |

*The assumptions* say that bounds are naturals (`CameraAssumption`,
`ActivityAssumption`, `TurnsAssumption`, `LookupAssumption`,
`TranscriptsAssumption`, most of `AssistantAssumption`, the lengths of an input in
`DuplexAssumption`), positive where an operation divides them or counts from one
(`BrowserAssumption`, gesture times, rejected events) and where they measure what
was heard (an audio chunk, a word of a sentence); that a service of the catalog has
its fallback voice among its voices, when it has any, and a patch its five fields
(`GatewayAssumption`); that the default example is one of the configurations
(`ConfigsAssumption`), and a catalog keyed, with a context budget between its bounds
(`ConfigAssumption`); that a database starts with keyed flights and bookings of them
(`DatabaseAssumption`); that a planned turn is a sequence of tools
(`AgentAssumption`); that what is typed is not what is spoken; and that the values
that stand for `None` are no others. Each is a named operator of the component,
stated as an ASSUME by the sum that runs it, where TLC evaluates it.

*The shape of the proofs.* A sum chooses its component in the initial state. A
theorem about one component assumes nothing of the others: `Safe` is the
component's `Inv` under its name, `Init` establishes it, the component's `Next`
preserves it (one lemma per action, under it one step per conjunct), the others'
steps keep `component`. `Inv` was checked by TLC, as part of the sum's property,
before it was proved, and where the properties were not inductive it says more:

- **RealtimeResponse.** That the closing events of a response are those before its
  task's next one says nothing about a response that is completed twice, or
  completed by the audio task, or begun anew in a slot that a late reset wipes.
  `LifeInv` adds that the slot holds the newest response or none (`SlotOK`), that
  only the client and the observer close, and only responses that are over
  (`ClosingOK`), and that nothing on the wire closes a response in progress or one
  not born (`SentOK`). Every step is one of four kinds as far as the life of
  responses goes (`StepKinds`): `Quiet`, `Completes`, `Advances`, `Closes`. Four
  lemmas show that each keeps `LifeInv`, and the refinement maps them to a birth or
  a stutter, `Complete`, a stutter and `Close`. The FIFO order of the lock is not
  needed for safety.
- **RealtimeUserTurn.** `ItemStage` ties the stage of the current item to the
  events sent of it, `EventsSent` says which sequences an item may have, and
  `StampedByNow` that no stamp is ahead of the sample clock.
- **RealtimeGateway.** Until the handoff nothing of a patch is applied
  (`NothingAppliedYet`), and the one being checked is the one that will run
  (`OnePatchPending`); with a stream bound before the handoff the rates would not
  match.
- **Webcam.** Each frame is stored, on its way or lost (`FramesCounted`), nothing
  comes before the bot (`NothingBeforeTheBot`), the controller was told what it
  believes (`HeardAsTold`), and an unanswered job is of the epoch asked about last
  (`UnansweredIsTask`), which is what makes one epoch field for all jobs enough.
- **ActivityCheck.** `StageOfWarnings`, `FirstWarning` and `SecondWarning` say
  which timers, pending and retired warnings go with each stage.
- **ServiceStatus.** `FoundReady`: what a request has passed was ready when probed;
  `CloudByWarmUp`: a cloud service counts as ready only after a warm-up has spoken.
- **Sessions.** `StoredUntilTaken`, `ActiveOfHandler`, `ReadsAsAllowed` and
  `CaptureConsumed` relate the tables to what each handler has read so far.
- **SessionConfig, SpeechCatalog, BrowserSession.** While the probes stand still
  what was found is what would be found now (`FoundAsNow`), and what was kept fits
  several entries only if they are alike (`KeptForSeveral`); a thread lists for the
  key it began with (`Begins`); a click in flight knows the client it was made for.
- **StreamingInput.** `MainHolds` and `ResponseHolds` say for each await which
  requests its task holds, `HeldInUse` that nobody else's are taken, `FedItsPrompt`
  that what a request was fed begins its prompt, `WarmEngine` what a tool call
  leaves, and `RoomLeft` that a handler finds the free request it makes.
- **StreamingClient.** `BelievedOnceServed`: what the client believes the server
  holds is what the server will hold once it has served the events on their way.
  `Serving` walks through those events; that the walk of a longer queue begins like
  that of the shorter one is proved by induction. `IdsOfTurnsSent`,
  `FreshWithoutLink` and `AnswerOfTurn` keep an answer with its turn.
- **Diarization.** `Sent` joins what the aggregator holds with what waits for it. A
  text that waits is read under the last prefix before it, or under none if the turn
  closes in between, so `SentAgree` says of `Sent` what the property says of the
  message; `LastPrefix` ties that prefix to the speaker the processor compares with,
  `LastWordSent` the cut word to the last word sent (`SentGlued`), and
  `NoWordBeforeSpoken` keeps the words to come apart from all of these. Numbers,
  runs and texts of a result are folds, walked by the least index where a claim about
  them would fail; `ClosedInOrder` and `LastOfTurn` hold the turn ids together.
- **BookingDatabase.** Between two statements of a transaction the tables do not
  agree; `FoundStillThere`, `OwnWrites` and `TablesOfOneSet` say what a request has
  read that still stands, and what only it has written.
- **PnrLookup.** An entry of the edit-distance table is at most one exactly where one
  edit leads from one prefix to the other, by induction over the rows and along each
  row. Over the rows of the table of bookings, the best so far is a near one of those
  seen, alone unless a tie is noted (`Inv`).
- **FrontendBackend.** `Sound` is kept by `ContinueBooking`, whatever tool comes
  next, and by `RunTools` by induction over the plan.
- **Thinking.** A question is in one place, queued, with the Thinker, waiting to be
  spoken or spoken, under the generation it was asked in (`InOnePlace`, `AskedIn`).
  The flag is held by one request or by the job it became (`HeldByOne`), which a
  late failure would break if a request made before an interruption could return
  into a newer pass: `OnlyOldRequest` says that then the other task is idle and no
  pass is active.
- **MediaAnalysis.** `CallbackDue`: an upload that is not marked has a callback due
  which no capture will take. `OneUnderWay`: of an attachment, at most one analysis
  is asked for, running or about to be spoken of, and that of the latest upload is
  the active one. `PatchesFit`, `OfSource` and `Counted` keep patches with what was
  analyzed, and ids with their source.
- **Gestures, Speaker.** `LastIntentOfFrames`, `CandidateSeen` and `BargeInLeft`
  say of which earlier frame each field of the controller is; `SaidSoFar` what the
  user has heard of the turn when its envelope is resolved.
- **OmniTurns.** What the service remembers is the transcript reported last, and the
  context is written in the order of the reports, so its newest spoken message tells
  which reports are still to come (`InOrder`). As long as every turn that ended left a
  reply, none was cut short and no tool was called (`Undisturbed`), the turn in flight
  is the only one, and whatever is not written yet was reported by an audio turn in
  flight (`OneInFlight`); that is the reason an echo is recognised by one or the other
  of the code's two tests. Afterwards only the first test is left, which still knows
  the speech reported last. The context frame that waits for a cancelled turn has been
  judged before the wait: `Inv` says the same of it as of a turn.
- **WordTts, WordTimings.** Of the streams only the newest is active, and its context
  is not stopped before its own task stops it (`ActiveNotStopped`). The words accepted
  are those of the whole speech at their times, so a cumulative report begins with
  them; the sums over a longer speech agree with those over a shorter one, which is
  proved by the least index where they would not.
- **BenchmarkTurns.** On the websocket the responses come in order, and nothing of one
  comes after what closes it, its `response.done` or the refusal of its cancellation
  (`OpenFrom`, `Over`). What was heard is of a response that is open or over, and over
  once its turn is left (`HeardInOrder`); the next `response.done` ends the response
  being drained (`EndsNext`), which makes it the one event a completed turn has
  (`EventsInOrder`). `Uncounted` is the turn that is begun and not counted yet.
- **FullDuplexClient.** While a file is received, what is kept of an interrupted
  response ends with its interruption, nothing of it is accepted later, and chunks that
  came in real time do not overlap (`Collected`). `Packed` and `Placed` are two
  recursions over the chunks; that they agree as long as nothing is beyond the target,
  and that the placement of such chunks leaves them where they came, is proved by the
  least chunk where it would not hold.

*Only model-checked.* Liveness and fairness are out of the prover's reach, so
`EventuallyClosed`, `HandshakeEnds`, `FreshFrameSent`, `SilentUserDismissed`,
`ConnectAnswered`, `EveryCallSettles` and `AnswerEnds` stay with TLC. So does
`RepliesReadWhole`, which compares a reply read in pieces with the whole one: it needs
an induction over the text for each of three parsers, which the provers here cannot
instantiate. Where a recursion was only to be walked along, as in `Run`, `Serving`,
`Lasts`, `Packed`, `Placed`, the edit-distance table and the folds of `Diarization`, a
set of naturals with a least element was enough.

## Findings

**`response_created`: a response the client never heard of.**
`announce_response` promises that `response.created` is on the wire when it
returns (`realtime/lifecycle.py:30`). The `TTSTextFrame` branch of the observer
awaits it and then appends the transcript (`realtime/observer.py:330`), which
begins a response if none is in progress. When the client's `response.cancel`
completes the announced response during the await, a second response begins
there and its deltas are sent without a `response.created`. It is closed all the
same, which is why the passing properties hold.

**`streaming_commit`: a commit queued on a dead engine request.**
"`input_text_buffer.commit` then generates the answer"
(`examples/shared/vllm_streaming_input/server.py:13`). An engine request that
fails while it prefills is neither closed nor dropped (`_run`, :164): `extends`
still accepts a longer prompt, and `feed` starts no second run because `_task` is
set. The commit waits for good; neither `response.done` nor an error is sent
until other input supersedes it. `AnswerEnds` of the passing run states the rest:
nothing else can hang a response.

**`cancelled_is_final`: a check outside of its transaction.**
"Deferred isolation (sqlite3 default) so `with conn:` wraps a multi-statement
mutation as a single transaction" (`.../airline/database/db.py:43`). Under
Python's deferred isolation a SELECT opens no transaction. `cancel_booking`
(`api.py:503`), `commit_rebook` (:376) and `list_standby` read the status first,
and two requests, each in a thread of the server's pool, can both find the
booking active. The second write does not look again, and a cancelled booking is
cancelled again or rebooked. The tables still agree (`AuditAgrees`).

**`cancel_stops`: the user hears "stopped", then the result.**
Cancellation is required because it "prevents stale backend results from reaching
the user later" (the example's `README.md:115`). `cancel_active`
(`airline/thinker.py:111`) cancels a task that exists and is not done. It misses
a call whose task has ended but whose handler has not resumed, and a call that
still waits for the cancellation of the task before it.

**`follow_up_replays`: an old utterance as the newest message.**
`_unwritten_spoken_turn` is to return "`None` when the context already carries
the turn" (`nvidia_omni_multimodal_service.py:717`). It compares the answered
transcript, which is never cleared, with the newest user message only (:720). Once
the user has typed something after speaking, the follow-up of a tool result
appends the older spoken turn after the typed one.

**`session_in_step`: a turn answered to missing or doubled words.**
`_sync_session` is to "bring the server's conversation and user text buffer up to
date" (`nvidia_streaming_llm.py:193`). What the client believes the server holds
is wrong in two cases: an interruption while `_connect` waits for
`session.created` leaves the new websocket with the old one's belief (:209), and
a commit whose rendering fails leaves the text in the server's buffer (server.py
:269) that the client has cleared. `UnmarredAnswers` of the passing run states
that nothing else does it.

## Known divergences without a run

Met while modelling, and left out of the runs to keep them few. Where a property
is named, its module states it and it does not hold.

- A final transcript that comes after the next turn has begun completes that
  turn's item (`realtime/conversation.py:85`), against "each server-VAD turn uses
  one item id" (`docs/how-to/use-realtime-gateway.md:186`).
- The audio task reads `response_status` before it awaits the announcement
  (`realtime/serializer.py:613`): a delta may follow the response's
  `response.audio.done`, against the order in `use-realtime-gateway.md:185`.
- Client text is let in when the welcome response is completed, five emits before
  its `response.done` (`realtime/conversation.py:199`; `serializer.py:215` and
  `use-realtime-gateway.md:181` speak of the response being done).
- A stall queued while another thinking pass is active is dropped
  (`thinking_controller.py:78`), though the dispatch processor's docstring (:32)
  promises that queued work starts after the acknowledgement; and a job that times
  out (:88) leaves the pass active until the user interrupts.
- `queue_highres_capture` promises that "the analyzer answer follows when the
  snapshot lands" (`subagents/transport/agent.py:405`). One flag stands for all
  captures (:555): a second snapshot that lands after the first has taken it is
  treated as an upload, neither analyzed nor removed. And an upload stored between the
  two requests is not marked pending by its callback, which takes the first snapshot
  once more; the Speaker is told of it when the second snapshot lands.
- Two analyses of successive uploads share the running note: the late answer about
  the older one clears the note of the newer one (`media_analysis_controller.py:300`
  against :191).
- Attachments, captures and frames check the session before they await the body
  (`server.py:781`, :814): what arrives after the session has ended is stored and
  never removed, although the stores call themselves session-scoped
  (`attachment_store.py:4`, `webcam_frame_store.py:4`).
- The first summary of a camera session may be asked of a frame of the session
  before (`webcam_controller.py:121`), and a camera that went on before the client
  was ready is not heard to go off (:117).
- The gesture cooldown does not apply to a stop (`proactive_gesture_controller.py:106`),
  though the module's header (:13) states it of every action.
- A first warning whose response ended before the watchdog expired, and whose speech
  ended after it, is not retired (`activity_check.py:285`): its `BotStoppedSpeaking`
  may be taken for the closing statement's. `LateWarningIgnored` excepts exactly this.
- Speech of the user that gets no reply leaves no countdown (`activity_check.py:161`),
  and only the pipeline's idle timeout remains.
- The streaming server's standby is a local variable while the tool call is rendered
  (`vllm_streaming_input/server.py:366`): if the render fails or the response is
  cancelled there, the standby is never stopped, and its engine request runs on after
  the disconnect. `NoneLeftRunning` in `StreamingInput` states what is then violated.
- A blank live `voice` is echoed in `session.updated` although the bot keeps the
  voice it has; `BotRunsWhatWasAcknowledged` excepts it.

*Omni service and Speaker.*

- Two tasks that cancel the same turn both wait for it; the one that resumes later
  forgets the turn the other has started, which nothing cancels any more
  (`OneTurnAtATime` in `OmniTurns`; `nvidia_omni_multimodal_service.py:862`, against
  `tests/unit/test_omni_turn_preemption.py:135`, below `src/`).
- An utterance is answered a second time, from its transcript, when the context frame
  that carries it waits until a later utterance has been transcribed and its turn is
  over, by an interruption, an error or a timeout (:748) or an empty reply, before that
  transcript is written, or until the follow-up of a tool has hidden it (:656, :668).
  `SpokenAnsweredOnce` says that nothing else does it: it never happens to the last
  utterance that was transcribed, nor while every turn that ended left its reply, none
  was cancelled and no tool was called.
- A reply whose transcript is not closed loses the characters held back for the
  closing tag (`TranscriptSplit` compares closed ones and what came before).
- `Speaker`: a filler that was not streamed is bridged and never escalated
  (`repeat_guard.py:43`); an envelope that conflicts with itself after its text was
  streamed is corrected, so that the user hears two replies (`agent.py:56`); the
  clarification of a missing upload is not spoken when text was streamed.
- A sentence of an incremental recogniser that equals all the words before it is
  taken for a cumulative repeat and dropped (`WordTimings`); the audio tail of a
  superseded stream is dropped, and its context is not stopped (`WordTts`).
- A `\u` escape of half a surrogate pair is streamed as a lone surrogate
  (`JsonStream`).

*Frontend, backend and booking.*

- Two concurrent rebookings of one PNR leave a chain of routes that does not meet
  (`RouteChain` in `BookingDatabase`; `schema.sql:47`).
- Three calls at once can leave two Thinker tasks running (`OneThinker` in
  `FrontendBackend`; `thinker.py:81`).
- A booking whose POST timed out, or whose task was cancelled, is committed all
  the same, and a retry books twice.
- The server's `get_activity` documents the newest entry first
  (`database/server.py:111`); the query returns the oldest first
  (`database/api.py:339`).

*Speech and services.*

- A caller's timeout on a catalog bounds nothing: leaving the executor waits for
  the worker (`ListingBounded` in `SpeechCatalog`; `prewarm.py:413`).
- A session whose own TTS could not be listed takes its voice from the service that
  was listed last (`VoiceOfOwnService` in `SpeechCatalog`; `prewarm.py:570`).
- A final transcript still queued at the close is shown twice; half a word of an
  untagged final that was kept is dropped once the primary speaker is known
  (`Diarization`).
- The error event of a failed prefill is read by the next commit
  (`StreamingClient`).

*Generic example, server, realtime metrics.*

- `random_number` replaces a bound of 0 by its default (`DrawnInRange` in
  `GenericTools`; `tool_handlers.py:397`), an answer of the weather service that is
  not a JSON object raises, and one without a temperature reads "None°C".
- Another data frame inside a held reply releases it without its mark, and "..."
  reaches the synthesis (`silent_reply.py`).
- An offer whose negotiation fails leaves its session active for good
  (`server.py:883`).
- A Realtime client's `max_tokens` is applied after the configuration has been
  hydrated and does not cap the setting declared `below` it (`utils.py:463`); the
  processing time of a cancelled pass that comes after `response.done` is counted
  with the next response's tokens (`realtime/metrics.py`).

*Benchmarks and browser.*

- After a failed synchronisation the benchmark starts another turn on the same
  connection (`benchmark_core.py:446`, against `rtvi_client.py:169`); a
  `response_cancel_not_active` that comes late fails the next turn; a pause of the
  RTVI bot splits a response over two turns.
- A second click on Connect while the first one fetches makes `connect` reject,
  and its handler clears the session id of a client that is connected
  (`Header.tsx:284`); a click while disconnecting can leave a connected client that
  nothing refers to (:240, :287).

- The Full-Duplex-Bench clients truncate what they collected by the times of its
  arrival (`inference_rtvi.py:47`, `inference_realtime.py:40`) and place it one
  chunk after the other (:433, :404). A bot that sends faster than it is heard, in
  chunks more than 50 ms apart, is still heard after its interruption, where
  `Full-Duplex-Bench-Eval/README.md:60` says queued audio is discarded
  (`SilentOnceInterrupted` is stated for audio that comes in real time). And a
  sample whose only file fails counts twice with RTVI (:515, :519), once with
  Realtime (:484).

## What is not modelled

- *pipecat*, external: frames keep their order within a task, jobs are delivered,
  an interruption cancels what the code in `src/` lets it cancel. What pipecat does
  when a job times out is not assumed.
- *Signal processing and text*: `realtime/audio.py`, the repair of JSON in
  `json_parsing.py` and `structured_output.py`, prompts, likeness of sentences.
- *Payloads*: `realtime/metrics.py`, `events.py`.
- *Stateless or one-shot code*: the multilingual reminder processor, pipeline
  assembly, prompt and configuration files, the booking server's read-only
  queries, the filler speech of `call_backend`.
- *Output*: tracing, the audio recorder, the evaluation bot,
  the scoring scripts, `AA-BigBenchAudio-Eval`, Docker and deployment.
- *The browser client's* forms and rendering.
- *Crashes*: nothing but the booking database outlives its process, and SQLite's
  recovery is external.

## What is left

Every part of the table above has its module, and every safety property that does not
need an induction over text is a theorem. What could still be added:

1. The properties named under *Known divergences*, should the code change: each is
   stated in its module and would become a property of its run.
2. `events.py` and `metrics.py` of the Realtime gateway, once what they report is
   specified beyond its format.
