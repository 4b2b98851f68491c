-------------------------- MODULE RealtimeResponse --------------------------
(***************************************************************************)
(* The life of an assistant response on one Realtime websocket session.    *)
(*                                                                         *)
(* Three asyncio tasks share one ConversationState and one emit callback:  *)
(*   client    the receive loop, RealtimeFrameSerializer.deserialize;      *)
(*   observer  RealtimeLifecycleObserver.on_push_frame, one frame a time;  *)
(*   audio     the output transport, RealtimeFrameSerializer.serialize.    *)
(* Code between two awaits runs alone.  The only awaits of these paths are *)
(* the emits, and an emit holds emit_lock, a FIFO asyncio.Lock, while the  *)
(* websocket sends.  So a step of this model is: the send at the head of   *)
(* the lock returns and its task runs on to its next emit (or to rest); or *)
(* a resting task takes its next message, frame or chunk and runs to its   *)
(* first emit.                                                             *)
(*                                                                         *)
(* Ids are fresh uuids minted by begin_response, response and item id in   *)
(* one go: generation n stands for both ids of the n-th response, and 0    *)
(* for None.                                                               *)
(***************************************************************************)
EXTENDS Naturals, FiniteSets

CONSTANTS
  MaxResponses,  \* no input that may start a response once this many exist
  Inputs,        \* the messages, frames and chunks that occur
  Gates          \* may client text be open when the pipeline takes over

ASSUME MaxResponsesAssumption == MaxResponses \in Nat \ {0}
ASSUME InputsAssumption ==
  Inputs \subseteq {"create", "cancel", "truncate", "notice", "disconnect",
                   "bot", "tts", "llm", "turn_end", "barge_in", "error", "audio"}
ASSUME GatesAssumption == Gates \subseteq BOOLEAN

VARIABLES
  conv,       \* the ConversationState fields of the assistant response
  obs,        \* the observer's buffered LLM text and transcript source
  task,       \* what each task is awaiting the emission of
  ahead,      \* the tasks queued on emit_lock before each waiting task
  sent,       \* <<response, event>> pairs that have been on the wire
  interrupts, \* cancelled responses whose InterruptionFrame is in flight
  open        \* the websocket is connected

vars == <<conv, obs, task, ahead, sent, interrupts, open>>

Task == {"client", "observer", "audio"}

Status   == {"none", "in_progress", "completed", "cancelled", "failed"}
Outcome  == {"completed", "cancelled", "failed"}
Opening  == {"created", "item", "added", "part"}
Deltas   == {"audio_delta", "text_delta"}
Closing  == {"audio_done", "transcript_done", "part_done", "item_done", "done"}
Event    == Opening \cup Deltas \cup Closing
\* Why a task announces a response, that is, what it does afterwards.
Purpose  == {"run", "bot", "bot_created", "tts", "llm", "audio"}

Idle == [at |-> "idle", resp |-> 0, item |-> 0, why |-> "rest"]

(***************************************************************************)
(* ConversationState: one operator per method.                             *)
(***************************************************************************)
NewConversation(gateOpen) ==
  [gen |-> 0, slot |-> 0, status |-> "none", claimed |-> {},
   spoken |-> {}, responded |-> gateOpen]

InProgress(c) == c.slot # 0 /\ c.status = "in_progress"

\* claimed: output_item_announced and content_part_announced.
\* assistant_transcript is non-empty exactly when item_transcripts has the item.
HasTranscript(c) == c.slot \in c.spoken

BeginResponseAnew(c) ==
  [c EXCEPT !.gen = c.gen + 1, !.slot = c.gen + 1,
            !.status = "in_progress", !.claimed = {}]

BeginResponse(c) ==
  IF InProgress(c) THEN c
  ELSE [c EXCEPT !.gen = c.gen + 1, !.slot = c.gen + 1,
                 !.status = "in_progress", !.claimed = {}]

AppendTranscript(c) ==
  LET b == BeginResponse(c) IN [b EXCEPT !.spoken = @ \cup {b.slot}]

CompleteResponseItemStatus(c, outcome) ==
  [c EXCEPT !.status = IF outcome = "completed" THEN outcome ELSE "incomplete",
            !.responded = TRUE]

CompleteResponseOpen(c, outcome) == [c EXCEPT !.responded = TRUE]

\* Applied only while InProgress: otherwise complete_response returns None.
CompleteResponse(c, outcome) == [c EXCEPT !.status = outcome, !.responded = TRUE]

ResetSlotAnyway(c, generation) ==
  [c EXCEPT !.slot = 0, !.status = "none", !.claimed = {}]

ResetSlot(c, generation) ==
  IF generation # c.gen THEN c
  ELSE [c EXCEPT !.slot = 0, !.status = "none", !.claimed = {}]

ClearedBuffer == [text |-> FALSE, textGen |-> 0, fromTts |-> FALSE]

(***************************************************************************)
(* emit_lock.                                                              *)
(***************************************************************************)
Waiting == {u \in Task : task[u].at # "idle"}

\* t leaves the lock, if it held it, and queues behind everyone for its next
\* emit of event at, about response resp and item item.
Await(t, at, resp, item, why) ==
  /\ task' = [task EXCEPT ![t] = [at |-> at, resp |-> resp, item |-> item, why |-> why]]
  /\ ahead' = [u \in Task |-> IF u = t THEN Waiting \ {t} ELSE ahead[u] \ {t}]

RestHoldingLock(t) == task' = [task EXCEPT ![t] = Idle] /\ UNCHANGED ahead

\* t leaves the lock and awaits its next message, frame or chunk.
Rest(t) ==
  /\ task' = [task EXCEPT ![t] = Idle]
  /\ ahead' = [u \in Task |-> IF u = t THEN {} ELSE ahead[u] \ {t}]

Holds(t, at) == task[t].at = at /\ ahead[t] = {}

(***************************************************************************)
(* announce_response and what its callers do when it returns.  c is the    *)
(* conversation as the running step has it so far.                         *)
(***************************************************************************)
\* The observer's TTSTextFrame branch after the announcement.  Whether the
\* transcript already ends with the text is up to the words.
SpeakText(t, c) ==
  /\ obs' = [text |-> FALSE, textGen |-> 0, fromTts |-> TRUE]
  /\ \/ HasTranscript(c) /\ conv' = c /\ Rest(t)
     \/ LET b == AppendTranscript(c)
        IN conv' = b /\ Await(t, "text_delta", b.slot, b.slot, "tts")

Announced(t, c, r, why) ==
  \/ why \in {"run", "bot"} /\ conv' = c /\ Rest(t) /\ UNCHANGED obs
  \/ why = "bot_created" /\ conv' = c /\ Rest(t) /\ obs' = ClearedBuffer
  \/ why = "llm" /\ conv' = c /\ Rest(t)
                 /\ obs' = [obs EXCEPT !.text = TRUE, !.textGen = c.gen]
  \/ why = "tts" /\ SpeakText(t, c)
  \/ why = "audio" /\ conv' = c /\ Await(t, "audio_delta", r, c.slot, "audio")
                   /\ UNCHANGED obs

AnnouncePart(t, c, r, why) ==
  \/ /\ "part" \notin c.claimed
     /\ conv' = [c EXCEPT !.claimed = @ \cup {"part"}]
     /\ Await(t, "part", r, c.slot, why)
     /\ UNCHANGED obs
  \/ "part" \in c.claimed /\ Announced(t, c, r, why)

AnnounceItem(t, c, r, why) ==
  \/ /\ "item" \notin c.claimed
     /\ conv' = [c EXCEPT !.claimed = @ \cup {"item"}]
     /\ Await(t, "item", r, c.slot, why)
     /\ UNCHANGED obs
  \/ "item" \in c.claimed /\ AnnouncePart(t, c, r, why)

\* A new response is announced from response.created on, an existing one from
\* the first event no task has claimed yet.
Announce(t, why) ==
  LET c == BeginResponse(conv) IN
  \/ /\ ~InProgress(conv)
     /\ conv' = c
     /\ Await(t, "created", c.slot, c.slot, IF why = "bot" THEN "bot_created" ELSE why)
     /\ UNCHANGED obs
  \/ InProgress(conv) /\ AnnounceItem(t, c, c.slot, why)

(***************************************************************************)
(* finish_response, up to its first emit.                                  *)
(***************************************************************************)
Finish(t, c, outcome) ==
  /\ conv' = CompleteResponse(c, outcome)
  /\ Await(t, "audio_done", c.slot, c.slot, "rest")

\* The observer's _finish_response: flush LLM text that TTS never voiced into
\* the transcript, then finish; with no response in progress only clear.
ObserverFinish(outcome) ==
  \/ ~InProgress(conv) /\ Rest("observer") /\ obs' = ClearedBuffer /\ UNCHANGED conv
  \/ LET flush == /\ obs.text /\ obs.textGen = conv.gen
                  /\ ~obs.fromTts /\ ~HasTranscript(conv)
     IN /\ InProgress(conv)
        /\ UNCHANGED obs
        /\ \/ /\ flush
              /\ conv' = AppendTranscript(conv)
              /\ Await("observer", "text_delta", conv.slot, conv.slot, outcome)
           \/ ~flush /\ Finish("observer", conv, outcome)

(***************************************************************************)
(* A task at the head of emit_lock: its event is on the wire and it runs   *)
(* on.  _emit swallows the error of a closed socket, so tasks run on all   *)
(* the same.                                                               *)
(***************************************************************************)
OnWire(t) == sent' = sent \cup {<<task[t].resp, task[t].at>>}

SentCreated(t) ==
  /\ Holds(t, "created")
  /\ OnWire(t)
  /\ AnnounceItem(t, conv, task[t].resp, task[t].why)
  /\ UNCHANGED <<interrupts, open>>

\* output_item.added repeats the item captured for conversation.item.created.
SentItem(t) ==
  /\ Holds(t, "item")
  /\ OnWire(t)
  /\ Await(t, "added", task[t].resp, task[t].item, task[t].why)
  /\ UNCHANGED <<conv, obs, interrupts, open>>

SentAdded(t) ==
  /\ Holds(t, "added")
  /\ OnWire(t)
  /\ AnnouncePart(t, conv, task[t].resp, task[t].why)
  /\ UNCHANGED <<interrupts, open>>

SentPart(t) ==
  /\ Holds(t, "part")
  /\ OnWire(t)
  /\ Announced(t, conv, task[t].resp, task[t].why)
  /\ UNCHANGED <<interrupts, open>>

SentAudioDelta(t) ==
  /\ Holds(t, "audio_delta")
  /\ OnWire(t)
  /\ Rest(t)
  /\ UNCHANGED <<conv, obs, interrupts, open>>

\* A transcript delta ends the TTSTextFrame branch, or comes before the finish
\* that flushed it; complete_response may by then find nothing in progress.
SentTextDelta(t) ==
  /\ Holds(t, "text_delta")
  /\ OnWire(t)
  /\ \/ task[t].why = "tts" /\ Rest(t) /\ UNCHANGED <<conv, obs>>
     \/ /\ t = "observer" /\ task[t].why \in Outcome /\ InProgress(conv)
        /\ Finish(t, conv, task[t].why)
        /\ UNCHANGED obs
     \/ /\ t = "observer" /\ task[t].why \in Outcome /\ ~InProgress(conv)
        /\ Rest(t)
        /\ obs' = ClearedBuffer
        /\ UNCHANGED conv
  /\ UNCHANGED <<interrupts, open>>

NextClosing == [audio_done |-> "transcript_done", transcript_done |-> "part_done",
                part_done |-> "item_done", item_done |-> "done"]

SentClosing(t) ==
  /\ \E e \in DOMAIN NextClosing :
       /\ Holds(t, e)
       /\ Await(t, NextClosing[e], task[t].resp, task[t].item, task[t].why)
  /\ OnWire(t)
  /\ UNCHANGED <<conv, obs, interrupts, open>>

\* After response.done the slot is reset, unless a newer response owns it; then
\* the client path returns an InterruptionFrame and the observer clears up.
SentDone(t) ==
  /\ Holds(t, "done")
  /\ OnWire(t)
  /\ conv' = ResetSlot(conv, task[t].resp)
  /\ Rest(t)
  /\ \/ t = "client" /\ interrupts' = interrupts \cup {task[t].resp} /\ UNCHANGED obs
     \/ t = "observer" /\ obs' = ClearedBuffer /\ UNCHANGED interrupts
  /\ UNCHANGED open

\* An error, a user item, a tool event: nothing about the response, but it
\* holds the lock.  A fatal ErrorFrame goes on to finish the response.
SentNotice(t) ==
  /\ Holds(t, "notice")
  /\ \/ t = "observer" /\ task[t].why = "failed" /\ ObserverFinish("failed")
     \/ task[t].why # "failed" /\ Rest(t) /\ UNCHANGED <<conv, obs>>
  /\ UNCHANGED <<sent, interrupts, open>>

Sent(t) ==
  \/ SentCreated(t) \/ SentItem(t) \/ SentAdded(t) \/ SentPart(t)
  \/ SentAudioDelta(t) \/ SentTextDelta(t)
  \/ SentClosing(t) \/ SentDone(t) \/ SentNotice(t)

(***************************************************************************)
(* The client task: one message.                                           *)
(***************************************************************************)
ClientReady == task["client"].at = "idle" /\ open

\* request_response and begin_response run without an await in between, so
\* response_requested is never seen TRUE by another task.
ResponseCreate ==
  /\ "create" \in Inputs
  /\ ClientReady
  /\ conv.responded /\ conv.status # "in_progress"
  /\ conv.gen < MaxResponses
  /\ Announce("client", "run")
  /\ UNCHANGED <<sent, interrupts, open>>

CancelActive ==
  LET flushed == IF obs.text /\ ~HasTranscript(conv) THEN AppendTranscript(conv) ELSE conv
  IN /\ obs' = ClearedBuffer
     /\ Finish("client", flushed, "cancelled")
     /\ UNCHANGED <<sent, interrupts, open>>

\* Without a response_id, or with the active one.
ResponseCancel ==
  /\ "cancel" \in Inputs
  /\ ClientReady
  /\ InProgress(conv)
  /\ CancelActive

\* item is the active item or any item with a recorded transcript.
ItemTruncate(item) ==
  /\ "truncate" \in Inputs
  /\ ClientReady
  /\ item = conv.slot \/ item \in conv.spoken
  /\ conv.status = "in_progress"
  /\ CancelActive

\* A rejected request, session.updated, a user text item, buffer cleared.
ClientNotice ==
  /\ "notice" \in Inputs
  /\ ClientReady
  /\ Await("client", "notice", 0, 0, "rest")
  /\ UNCHANGED <<conv, obs, sent, interrupts, open>>

\* The receive loop ends; on_client_disconnected shuts the observer's buffers.
Disconnect ==
  /\ "disconnect" \in Inputs
  /\ ClientReady
  /\ open' = FALSE
  /\ obs' = [obs EXCEPT !.text = FALSE, !.textGen = 0]
  /\ UNCHANGED <<conv, task, ahead, sent, interrupts>>

(***************************************************************************)
(* The observer task: one frame of the pipeline, which may push any frame  *)
(* at any time.                                                            *)
(***************************************************************************)
ObserverReady == task["observer"].at = "idle"

\* BotStartedSpeakingFrame, TTSTextFrame, LLMTextFrame.
AnnouncingFrame(why) ==
  /\ ObserverReady
  /\ conv.gen < MaxResponses
  /\ Announce("observer", why)
  /\ UNCHANGED <<sent, interrupts, open>>

\* TTSStoppedFrame of the output transport, or LLMFullResponseEndFrame(skip_tts).
TurnEndFrame ==
  /\ "turn_end" \in Inputs
  /\ ObserverReady
  /\ ObserverFinish("completed")
  /\ UNCHANGED <<sent, interrupts, open>>

\* An InterruptionFrame of the pipeline's own barge-in.
BargeInFrame ==
  /\ "barge_in" \in Inputs
  /\ ObserverReady
  /\ ObserverFinish("cancelled")
  /\ UNCHANGED <<sent, interrupts, open>>

\* The InterruptionFrame that the client's cancel of response g pushed.
ClientInterruptionFrame(g) ==
  /\ ObserverReady
  /\ g \in interrupts
  /\ interrupts' = interrupts \ {g}
  /\ ObserverFinish("cancelled")
  /\ UNCHANGED <<sent, open>>

\* ErrorFrame: reported first, then a fatal one fails the response.
ErrorFrame(fatal) ==
  /\ "error" \in Inputs
  /\ ObserverReady
  /\ Await("observer", "notice", 0, 0, IF fatal THEN "failed" ELSE "rest")
  /\ UNCHANGED <<conv, obs, sent, interrupts, open>>

(***************************************************************************)
(* The audio task: one chunk, resampled; dropped unless a response is in   *)
(* progress.  An interruption cancels the task wherever it waits.          *)
(***************************************************************************)
AudioChunk ==
  /\ "audio" \in Inputs
  /\ task["audio"].at = "idle"
  /\ conv.status = "in_progress"
  /\ Announce("audio", "audio")
  /\ UNCHANGED <<sent, interrupts, open>>

AudioCancelled ==
  /\ task["audio"].at # "idle"
  /\ Rest("audio")
  /\ UNCHANGED <<conv, obs, sent, interrupts, open>>

(***************************************************************************)
(* Specification.                                                          *)
(***************************************************************************)
Init ==
  /\ \E gateOpen \in Gates : conv = NewConversation(gateOpen)
  /\ obs = ClearedBuffer
  /\ task = [t \in Task |-> Idle]
  /\ ahead = [t \in Task |-> {}]
  /\ sent = {}
  /\ interrupts = {}
  /\ open = TRUE

Next ==
  \/ \E t \in Task : Sent(t)
  \/ ResponseCreate \/ ResponseCancel \/ ClientNotice \/ Disconnect
  \/ \E item \in conv.spoken \cup {conv.slot} : ItemTruncate(item)
  \/ \E why \in {"bot", "tts", "llm"} \cap Inputs : AnnouncingFrame(why)
  \/ TurnEndFrame \/ BargeInFrame
  \/ \E g \in interrupts : ClientInterruptionFrame(g)
  \/ \E fatal \in BOOLEAN : ErrorFrame(fatal)
  \/ AudioChunk \/ AudioCancelled

Spec == Init /\ [][Next]_vars

\* A send returns or raises, and then its task runs: asyncio's loop is fair.
Fairness == \A t \in Task : WF_vars(Sent(t))

FairSpec == Spec /\ Fairness

(***************************************************************************)
(* Properties.                                                             *)
(***************************************************************************)
\* The fields keep their types; the awaited event and its response are real.
TypeOK ==
  /\ conv \in [gen : Nat, slot : Nat, status : Status, claimed : SUBSET {"item", "part"},
               spoken : SUBSET Nat, responded : BOOLEAN]
  /\ obs \in [text : BOOLEAN, textGen : Nat, fromTts : BOOLEAN]
  /\ task \in [Task -> [at : Event \cup {"idle", "notice"}, resp : Nat, item : Nat,
                        why : Purpose \cup Outcome \cup {"rest"}]]
  /\ ahead \in [Task -> SUBSET Task]
  /\ sent \subseteq Nat \X Event
  /\ interrupts \subseteq Nat
  /\ open \in BOOLEAN

IsClosing(t) == task[t].at \in Closing
Live(g) == InProgress(conv) /\ conv.slot = g
ClosingNow == {task[t].resp : t \in {u \in Task : IsClosing(u)}}

\* The closing events that come before event e of the same response.
Before(e) ==
  CASE e = "audio_done"      -> {}
    [] e = "transcript_done" -> {"audio_done"}
    [] e = "part_done"       -> {"audio_done", "transcript_done"}
    [] e = "item_done"       -> {"audio_done", "transcript_done", "part_done"}
    [] e = "done"            -> {"audio_done", "transcript_done", "part_done", "item_done"}

\* finish_response: whatever the three tasks do, each response gets its closing
\* events once and in order, from one task, and none while it is in progress.
ClosedOnceInOrder ==
  /\ \A t \in Task : IsClosing(t) =>
       \A e \in Closing : <<task[t].resp, e>> \in sent <=> e \in Before(task[t].at)
  /\ \A t, u \in Task : IsClosing(t) /\ IsClosing(u) /\ t # u => task[t].resp # task[u].resp
  /\ \A e \in Closing, g \in 1..conv.gen : Live(g) => <<g, e>> \notin sent

\* No response is forgotten or wiped: every one that begin_response made is in
\* progress, being closed by a task, or has had its response.done.
EveryResponseAccountedFor ==
  \A g \in 1..conv.gen : Live(g) \/ g \in ClosingNow \/ <<g, "done">> \in sent

(* The inductive invariant behind both.                                    *)
\* The slot holds the newest response, or none.
SlotOK == /\ conv.slot \in {0, conv.gen}
          /\ conv.status = "in_progress" => conv.slot # 0

\* Only finish_response, which the audio task never calls, closes a response,
\* and only one that begin_response made and that is over.
ClosingOK == \A t \in Task : IsClosing(t) =>
               t # "audio" /\ task[t].resp \in 1..conv.gen /\ ~Live(task[t].resp)

SentOK == \A p \in sent : p[2] \in Closing => p[1] \in 1..conv.gen /\ ~Live(p[1])

LifeInv == TypeOK /\ SlotOK /\ ClosingOK /\ SentOK
           /\ ClosedOnceInOrder /\ EveryResponseAccountedFor

\* response.created comes before anything else about its response.
CreatedFirst == \A p \in sent : <<p[1], "created">> \in sent

\* The response life cycle the gateway promises, as a refinement.
Life == INSTANCE ResponseLife WITH
          born    <- conv.gen,
          live    <- IF InProgress(conv) THEN conv.slot ELSE 0,
          closing <- ClosingNow,
          closed  <- {p[1] : p \in {q \in sent : q[2] = "done"}}
LifeSpec == Life!Spec

\* Once completed, a response gets its response.done.
EventuallyClosed == \A g \in 1..MaxResponses : Life!Closes(g)

=============================================================================
