----------------------- MODULE RealtimeResponse_proofs -----------------------
(***************************************************************************)
(* What TLAPS proves of RealtimeResponse, for any MaxResponses and Inputs. *)
(* Every step is one of four kinds as far as the life of responses goes    *)
(* (StepKinds); the inductive invariant and the refinement of ResponseLife *)
(* are proved kind by kind.                                                *)
(***************************************************************************)
EXTENDS RealtimeResponse, TLAPS

Conversation ==
  [gen : Nat, slot : Nat, status : Status, claimed : SUBSET {"item", "part"},
   spoken : SUBSET Nat, responded : BOOLEAN]
Buffer == [text : BOOLEAN, textGen : Nat, fromTts : BOOLEAN]
Awaited == [at : Event \cup {"idle", "notice"}, resp : Nat, item : Nat,
            why : Purpose \cup Outcome \cup {"rest"}]

USE DEF Conversation, Buffer, Awaited

(***************************************************************************)
(* The kinds of step.                                                      *)
(***************************************************************************)
SameLife(c, d) == d.gen = c.gen /\ d.slot = c.slot /\ d.status = c.status

Born(c, d) == /\ ~InProgress(c)
              /\ d.gen = c.gen + 1 /\ d.slot = c.gen + 1 /\ d.status = "in_progress"

Completed(c, d) == /\ InProgress(c)
                   /\ d.gen = c.gen /\ d.slot = c.slot /\ d.status \in Outcome

OthersKeep(t) == \A u \in Task \ {t} : task'[u] = task[u]

SameClosingSent == \A r \in Nat, e \in Closing : <<r, e>> \in sent' <=> <<r, e>> \in sent

\* t closes nothing before or after; a response may be born.
Quiet(t) ==
  /\ ~IsClosing(t) /\ task'[t].at \notin Closing
  /\ OthersKeep(t)
  /\ SameClosingSent
  /\ SameLife(conv, conv') \/ Born(conv, conv')

\* t completes the response in progress and starts closing it.
Completes(t) ==
  /\ t # "audio"
  /\ ~IsClosing(t) /\ task'[t].at = "audio_done" /\ task'[t].resp = conv.slot
  /\ OthersKeep(t)
  /\ SameClosingSent
  /\ Completed(conv, conv')

\* t goes on to its next closing event.
Advances(t) ==
  /\ task[t].at \in DOMAIN NextClosing
  /\ task'[t].at = NextClosing[task[t].at] /\ task'[t].resp = task[t].resp
  /\ OthersKeep(t)
  /\ sent' = sent \cup {<<task[t].resp, task[t].at>>}
  /\ conv' = conv

\* t has sent response.done, and resets the slot if it is still its own.
Closes(t) ==
  /\ task[t].at = "done" /\ task'[t].at = "idle"
  /\ OthersKeep(t)
  /\ sent' = sent \cup {<<task[t].resp, "done">>}
  /\ conv' = ResetSlot(conv, task[t].resp)

-----------------------------------------------------------------------------
(***************************************************************************)
(* ConversationState's methods and the lock keep their types.              *)
(***************************************************************************)

\* begin_response keeps the state well typed; it changes nothing while a
\* response is in progress and otherwise a response is born.
LEMMA BeginResponseLemma ==
  ASSUME NEW c \in Conversation
  PROVE  /\ BeginResponse(c) \in Conversation
         /\ InProgress(c) => BeginResponse(c) = c
         /\ ~InProgress(c) => Born(c, BeginResponse(c))
         /\ InProgress(BeginResponse(c))
<1>1. CASE InProgress(c)
  BY <1>1 DEF BeginResponse
<1>2. CASE ~InProgress(c)
  <2>1. PICK n \in Nat : n = c.gen + 1
    OBVIOUS
  <2>2. "in_progress" \in Status
    BY DEF Status
  <2> DEFINE b == [c EXCEPT !.gen = n, !.slot = n,
                            !.status = "in_progress", !.claimed = {}]
  <2>3. BeginResponse(c) = b
    BY <1>2, <2>1 DEF BeginResponse
  <2>4. b \in Conversation /\ b.gen = n /\ b.slot = n /\ b.status = "in_progress"
    BY <2>2
  <2>5. n # 0
    BY <2>1
  <2> HIDE DEF b
  <2> QED BY <1>2, <2>1, <2>3, <2>4, <2>5 DEF InProgress, Born
<1> QED BY <1>1, <1>2

\* append_assistant_transcript differs from begin_response in the transcript.
LEMMA AppendTranscriptLemma ==
  ASSUME NEW c \in Conversation
  PROVE  /\ AppendTranscript(c) \in Conversation
         /\ InProgress(c) => SameLife(c, AppendTranscript(c)) /\ InProgress(AppendTranscript(c))
         /\ ~InProgress(c) => Born(c, AppendTranscript(c))
<1> DEFINE b == BeginResponse(c)
<1>1. b \in Conversation /\ (InProgress(c) => b = c) /\ (~InProgress(c) => Born(c, b))
  BY BeginResponseLemma
<1>2. AppendTranscript(c) = [b EXCEPT !.spoken = b.spoken \cup {b.slot}]
  BY DEF AppendTranscript
<1> HIDE DEF b
<1> QED BY <1>1, <1>2 DEF SameLife, Born, InProgress

\* complete_response and reset_response_slot keep the state well typed.
LEMMA CompleteResetLemma ==
  ASSUME NEW c \in Conversation, NEW outcome \in Outcome, NEW g \in Nat
  PROVE  /\ CompleteResponse(c, outcome) \in Conversation
         /\ InProgress(c) => Completed(c, CompleteResponse(c, outcome))
         /\ ResetSlot(c, g) \in Conversation
  BY DEF CompleteResponse, ResetSlot, Completed, InProgress, Outcome, Status

\* Queueing on emit_lock, or leaving it, concerns the one task.
LEMMA AwaitLemma ==
  ASSUME TypeOK, NEW t \in Task, NEW at \in Event \cup {"notice"},
         NEW resp \in Nat, NEW item \in Nat,
         NEW why \in Purpose \cup Outcome \cup {"rest"},
         Await(t, at, resp, item, why)
  PROVE  /\ task' \in [Task -> Awaited] /\ ahead' \in [Task -> SUBSET Task]
         /\ task'[t].at = at /\ task'[t].resp = resp
         /\ OthersKeep(t)
  BY DEF TypeOK, Await, OthersKeep, Waiting

LEMMA RestLemma ==
  ASSUME TypeOK, NEW t \in Task, Rest(t)
  PROVE  /\ task' \in [Task -> Awaited] /\ ahead' \in [Task -> SUBSET Task]
         /\ task'[t].at = "idle"
         /\ OthersKeep(t)
  BY DEF TypeOK, Rest, OthersKeep, Idle, Event, Purpose, Outcome

-----------------------------------------------------------------------------
(***************************************************************************)
(* The operators announce_response, finish_response and their callers are  *)
(* made of, from a conversation c the running step has got to.             *)
(***************************************************************************)
Typed == /\ conv' \in Conversation /\ obs' \in Buffer
         /\ task' \in [Task -> Awaited] /\ ahead' \in [Task -> SUBSET Task]

Harmless(t, c) ==
  /\ Typed /\ task'[t].at \notin Closing /\ OthersKeep(t)
  /\ SameLife(c, conv') \/ Born(c, conv')

Completing(t) ==
  /\ t # "audio" /\ Typed /\ task'[t].at = "audio_done" /\ task'[t].resp = conv.slot /\ OthersKeep(t)
  /\ Completed(conv, conv')

\* The TTSTextFrame branch closes nothing; appending may bring a response forth.
LEMMA SpeakTextLemma ==
  ASSUME TypeOK, NEW t \in Task, NEW c \in Conversation, SpeakText(t, c)
  PROVE  Harmless(t, c)
<1>0. obs' \in Buffer
  BY DEF SpeakText
<1>1. CASE conv' = c /\ Rest(t)
  BY <1>0, <1>1, RestLemma DEF Harmless, Typed, SameLife, Closing
<1>2. CASE LET b == AppendTranscript(c)
           IN conv' = b /\ Await(t, "text_delta", b.slot, b.slot, "tts")
  <2> DEFINE b == AppendTranscript(c)
  <2>1. b \in Conversation /\ (SameLife(c, b) \/ Born(c, b))
    BY AppendTranscriptLemma
  <2>2. conv' = b /\ Await(t, "text_delta", b.slot, b.slot, "tts")
    BY <1>2
  <2> HIDE DEF b
  <2>3. b.slot \in Nat
    BY <2>1
  <2>4. /\ task' \in [Task -> Awaited] /\ ahead' \in [Task -> SUBSET Task]
        /\ task'[t].at = "text_delta" /\ OthersKeep(t)
    BY <2>2, <2>3, AwaitLemma DEF Event, Deltas, Purpose
  <2> QED BY <1>0, <2>1, <2>2, <2>4 DEF Harmless, Typed, Closing
<1> QED BY <1>1, <1>2 DEF SpeakText

\* What a caller of announce_response does next closes nothing.
LEMMA AnnouncedLemma ==
  ASSUME TypeOK, NEW t \in Task, NEW c \in Conversation, NEW r \in Nat, NEW why,
         Announced(t, c, r, why)
  PROVE  Harmless(t, c)
<1>1. CASE why = "tts" /\ SpeakText(t, c)
  BY <1>1, SpeakTextLemma
<1>2. CASE conv' = c /\ Rest(t) /\ obs' \in Buffer
  BY <1>2, RestLemma DEF Harmless, Typed, SameLife, Closing
<1>3. CASE conv' = c /\ Await(t, "audio_delta", r, c.slot, "audio") /\ UNCHANGED obs
  <2>1. /\ task' \in [Task -> Awaited] /\ ahead' \in [Task -> SUBSET Task]
        /\ task'[t].at = "audio_delta" /\ OthersKeep(t)
    BY <1>3, AwaitLemma DEF Event, Deltas, Purpose
  <2> QED BY <1>3, <2>1 DEF Harmless, Typed, SameLife, Closing, TypeOK
<1>4. obs \in Buffer /\ ClearedBuffer \in Buffer /\ c.gen \in Nat
  BY DEF TypeOK, ClearedBuffer
<1>5. [obs EXCEPT !.text = TRUE, !.textGen = c.gen] \in Buffer
  BY <1>4
<1> QED BY <1>1, <1>2, <1>3, <1>4, <1>5 DEF Announced

\* Announcing the content part, unless another task has claimed it.
LEMMA AnnouncePartLemma ==
  ASSUME TypeOK, NEW t \in Task, NEW c \in Conversation, NEW r \in Nat,
         NEW why \in Purpose \cup Outcome \cup {"rest"}, AnnouncePart(t, c, r, why)
  PROVE  Harmless(t, c)
<1>1. CASE "part" \in c.claimed /\ Announced(t, c, r, why)
  BY <1>1, AnnouncedLemma
<1>2. CASE /\ conv' = [c EXCEPT !.claimed = @ \cup {"part"}]
           /\ Await(t, "part", r, c.slot, why)
           /\ UNCHANGED obs
  <2>1. /\ task' \in [Task -> Awaited] /\ ahead' \in [Task -> SUBSET Task]
        /\ task'[t].at = "part" /\ OthersKeep(t)
    BY <1>2, AwaitLemma DEF Event, Opening
  <2>2. conv' \in Conversation /\ SameLife(c, conv')
    BY <1>2 DEF SameLife
  <2> QED BY <1>2, <2>1, <2>2 DEF Harmless, Typed, Closing, TypeOK
<1> QED BY <1>1, <1>2 DEF AnnouncePart

\* Announcing the assistant item, unless another task has claimed it.
LEMMA AnnounceItemLemma ==
  ASSUME TypeOK, NEW t \in Task, NEW c \in Conversation, NEW r \in Nat,
         NEW why \in Purpose \cup Outcome \cup {"rest"}, AnnounceItem(t, c, r, why)
  PROVE  Harmless(t, c)
<1>1. CASE "item" \in c.claimed /\ AnnouncePart(t, c, r, why)
  BY <1>1, AnnouncePartLemma
<1>2. CASE /\ conv' = [c EXCEPT !.claimed = @ \cup {"item"}]
           /\ Await(t, "item", r, c.slot, why)
           /\ UNCHANGED obs
  <2>1. /\ task' \in [Task -> Awaited] /\ ahead' \in [Task -> SUBSET Task]
        /\ task'[t].at = "item" /\ OthersKeep(t)
    BY <1>2, AwaitLemma DEF Event, Opening
  <2>2. conv' \in Conversation /\ SameLife(c, conv')
    BY <1>2 DEF SameLife
  <2> QED BY <1>2, <2>1, <2>2 DEF Harmless, Typed, Closing, TypeOK
<1> QED BY <1>1, <1>2 DEF AnnounceItem

\* announce_response up to its first emit.
LEMMA AnnounceLemma ==
  ASSUME TypeOK, NEW t \in Task, NEW why \in Purpose, Announce(t, why)
  PROVE  Harmless(t, conv)
<1> DEFINE c == BeginResponse(conv)
           aim == IF why = "bot" THEN "bot_created" ELSE why
<1>0. conv \in Conversation
  BY DEF TypeOK
<1>1. /\ c \in Conversation
      /\ InProgress(conv) => c = conv
      /\ ~InProgress(conv) => Born(conv, c)
  BY <1>0, BeginResponseLemma
<1>2. c.slot \in Nat /\ aim \in Purpose
  BY <1>1 DEF Purpose
<1>3. CASE /\ ~InProgress(conv)
           /\ conv' = c
           /\ Await(t, "created", c.slot, c.slot, aim)
           /\ UNCHANGED obs
  <2> HIDE DEF c, aim
  <2>1. /\ task' \in [Task -> Awaited] /\ ahead' \in [Task -> SUBSET Task]
        /\ task'[t].at = "created" /\ OthersKeep(t)
    BY <1>2, <1>3, AwaitLemma DEF Event, Opening
  <2> QED BY <1>1, <1>3, <2>1 DEF Harmless, Typed, Closing, TypeOK
<1>4. CASE InProgress(conv) /\ AnnounceItem(t, c, c.slot, why)
  <2> HIDE DEF c
  <2> QED BY <1>1, <1>2, <1>4, AnnounceItemLemma
<1> QED BY <1>3, <1>4 DEF Announce

\* finish_response completes the response in progress; c is conv but for its
\* transcript.
LEMMA FinishLemma ==
  ASSUME TypeOK, NEW t \in Task \ {"audio"}, NEW c \in Conversation,
         NEW outcome \in Outcome, InProgress(conv), SameLife(conv, c), Finish(t, c, outcome), obs' \in Buffer
  PROVE  Completing(t)
<1>1. InProgress(c)
  BY DEF SameLife, InProgress
<1>2. /\ conv' = CompleteResponse(c, outcome)
      /\ Await(t, "audio_done", c.slot, c.slot, "rest")
  BY DEF Finish
<1>3. conv' \in Conversation /\ Completed(c, conv')
  BY <1>1, <1>2, CompleteResetLemma
<1>4. /\ task' \in [Task -> Awaited] /\ ahead' \in [Task -> SUBSET Task]
      /\ task'[t].at = "audio_done" /\ task'[t].resp = c.slot /\ OthersKeep(t)
  <2>1. "audio_done" \in Event \cup {"notice"} /\ "rest" \in Purpose \cup Outcome \cup {"rest"}
    BY DEF Event, Closing
  <2> QED BY <1>2, <2>1, AwaitLemma
<1> QED BY <1>3, <1>4 DEF Completing, Completed, SameLife, Typed

\* The observer's finish completes the response in progress, or flushes text
\* first, or only clears its buffers.
LEMMA ObserverFinishLemma ==
  ASSUME TypeOK, NEW outcome \in Outcome, ObserverFinish(outcome)
  PROVE  Harmless("observer", conv) \/ Completing("observer")
<1>0. "observer" \in Task /\ conv \in Conversation /\ obs \in Buffer
  BY DEF TypeOK, Task
<1>1. CASE Rest("observer") /\ obs' = ClearedBuffer /\ UNCHANGED conv
  BY <1>0, <1>1, RestLemma DEF Harmless, Typed, SameLife, Closing, ClearedBuffer
<1>2. CASE /\ InProgress(conv)
           /\ UNCHANGED obs
           /\ conv' = AppendTranscript(conv)
           /\ Await("observer", "text_delta", conv.slot, conv.slot, outcome)
  <2>1. conv' \in Conversation /\ SameLife(conv, conv')
    BY <1>0, <1>2, AppendTranscriptLemma
  <2>2. /\ task' \in [Task -> Awaited] /\ ahead' \in [Task -> SUBSET Task]
        /\ task'["observer"].at = "text_delta" /\ OthersKeep("observer")
    <3>1. "text_delta" \in Event \cup {"notice"} /\ conv.slot \in Nat
      BY <1>0 DEF Event, Deltas
    <3> QED BY <1>0, <1>2, <3>1, AwaitLemma
  <2> QED BY <1>0, <1>2, <2>1, <2>2 DEF Harmless, Typed, Closing
<1>3. CASE InProgress(conv) /\ UNCHANGED obs /\ Finish("observer", conv, outcome)
  BY <1>0, <1>3, FinishLemma DEF SameLife
<1> QED BY <1>1, <1>2, <1>3 DEF ObserverFinish

\* The client's cancel completes the response in progress.
LEMMA CancelActiveLemma ==
  ASSUME TypeOK, InProgress(conv), CancelActive
  PROVE  Completing("client")
<1> DEFINE c == IF obs.text /\ ~HasTranscript(conv) THEN AppendTranscript(conv) ELSE conv
<1>1. "client" \in Task /\ conv \in Conversation
  BY DEF TypeOK, Task
<1>2. c \in Conversation /\ SameLife(conv, c)
  BY <1>1, AppendTranscriptLemma DEF SameLife
<1>3. obs' \in Buffer /\ Finish("client", c, "cancelled")
  BY DEF CancelActive, ClearedBuffer
<1> HIDE DEF c
<1> QED BY <1>1, <1>2, <1>3, FinishLemma DEF Outcome

-----------------------------------------------------------------------------
(***************************************************************************)
(* Every step is well typed and of one of the kinds.                       *)
(***************************************************************************)
Kind(t) == Quiet(t) \/ Completes(t) \/ Advances(t) \/ Closes(t)

\* The step puts nothing on the wire, or the event t was waiting to emit.
QuietWire(t) == /\ sent' = sent \/ (OnWire(t) /\ task[t].at \in Event)
                /\ open' = open /\ interrupts' \subseteq interrupts

\* A step that is harmless, or completes the response, and puts no closing
\* event on the wire is of the first two kinds.
LEMMA KindOfStep ==
  ASSUME TypeOK, NEW t \in Task, ~IsClosing(t),
         Harmless(t, conv) \/ Completing(t),
         QuietWire(t)
  PROVE  TypeOK' /\ (Quiet(t) \/ Completes(t))
<1>1. task[t] \in Awaited /\ task[t].resp \in Nat
  BY DEF TypeOK
<1>2. SameClosingSent
  BY <1>1 DEF SameClosingSent, QuietWire, OnWire, IsClosing
<1>3. sent' \subseteq Nat \X Event
  BY <1>1 DEF TypeOK, QuietWire, OnWire
<1>4. TypeOK'
  BY <1>3 DEF TypeOK, QuietWire, Harmless, Completing, Typed
<1> QED BY <1>2, <1>4 DEF Quiet, Completes, Harmless, Completing

\* An emit that returns.
LEMMA SentLemma ==
  ASSUME TypeOK, NEW t \in Task, Sent(t)
  PROVE  TypeOK' /\ Kind(t)
<1>0. /\ conv \in Conversation /\ obs \in Buffer
      /\ task[t] \in Awaited /\ task[t].resp \in Nat /\ task[t].item \in Nat
      /\ task[t].why \in Purpose \cup Outcome \cup {"rest"}
      /\ ClearedBuffer \in Buffer
  BY DEF TypeOK, ClearedBuffer
<1>1. CASE SentCreated(t)
  <2>1. Harmless(t, conv)
    BY <1>0, <1>1, AnnounceItemLemma DEF SentCreated
  <2> QED BY <1>1, <2>1, KindOfStep DEF QuietWire, SentCreated, Holds, IsClosing, Event, Opening, Closing, Kind
<1>2. CASE SentItem(t)
  <2>1. Harmless(t, conv)
    <3>1. Await(t, "added", task[t].resp, task[t].item, task[t].why) /\ conv' = conv /\ obs' = obs
      BY <1>2 DEF SentItem
    <3>2. "added" \in Event \cup {"notice"} /\ "added" \notin Closing
      BY DEF Event, Opening, Closing
    <3> QED BY <1>0, <3>1, <3>2, AwaitLemma DEF Harmless, Typed, SameLife
  <2> QED BY <1>2, <2>1, KindOfStep DEF QuietWire, SentItem, Holds, IsClosing, Event, Opening, Closing, Kind
<1>3. CASE SentAdded(t)
  <2>1. Harmless(t, conv)
    BY <1>0, <1>3, AnnouncePartLemma DEF SentAdded
  <2> QED BY <1>3, <2>1, KindOfStep DEF QuietWire, SentAdded, Holds, IsClosing, Event, Opening, Closing, Kind
<1>4. CASE SentPart(t)
  <2>1. Harmless(t, conv)
    BY <1>0, <1>4, AnnouncedLemma DEF SentPart
  <2> QED BY <1>4, <2>1, KindOfStep DEF QuietWire, SentPart, Holds, IsClosing, Event, Opening, Closing, Kind
<1>5. CASE SentAudioDelta(t)
  <2>1. Harmless(t, conv)
    BY <1>0, <1>5, RestLemma DEF SentAudioDelta, Harmless, Typed, SameLife, Closing
  <2> QED BY <1>5, <2>1, KindOfStep DEF QuietWire, SentAudioDelta, Holds, IsClosing, Event, Deltas, Closing, Kind
<1>6. CASE SentTextDelta(t)
  <2>0. /\ OnWire(t) /\ task[t].at \in Event /\ ~IsClosing(t)
        /\ UNCHANGED <<interrupts, open>>
    BY <1>6 DEF SentTextDelta, Holds, IsClosing, Event, Deltas, Closing
  <2>1. CASE Rest(t) /\ conv' = conv /\ obs' \in Buffer
    <3>1. Harmless(t, conv)
      BY <2>1, <1>0, RestLemma DEF Harmless, Typed, SameLife, Closing
    <3> QED BY <2>0, <3>1, KindOfStep DEF QuietWire, Kind
  <2>2. CASE /\ t = "observer" /\ InProgress(conv) /\ task[t].why \in Outcome
             /\ Finish(t, conv, task[t].why) /\ obs' = obs
    <3>1. Completing(t)
      BY <1>0, <2>2, FinishLemma DEF SameLife
    <3> QED BY <2>0, <3>1, KindOfStep DEF QuietWire, Kind
  <2> QED BY <1>0, <1>6, <2>1, <2>2 DEF SentTextDelta, ClearedBuffer
<1>7. CASE SentClosing(t)
  <2>1. PICK e \in DOMAIN NextClosing :
          Holds(t, e) /\ Await(t, NextClosing[e], task[t].resp, task[t].item, task[t].why)
    BY <1>7 DEF SentClosing
  <2>2. e \in Event /\ NextClosing[e] \in Event \cup {"notice"}
    BY DEF NextClosing, Event, Closing
  <2>3. /\ task' \in [Task -> Awaited] /\ ahead' \in [Task -> SUBSET Task]
        /\ task'[t].at = NextClosing[e] /\ task'[t].resp = task[t].resp
        /\ OthersKeep(t)
    BY <1>0, <2>1, <2>2, AwaitLemma
  <2>4. task[t].at = e
    BY <2>1 DEF Holds
  <2>5. TypeOK'
    BY <1>0, <1>7, <2>2, <2>3, <2>4 DEF TypeOK, SentClosing, OnWire
  <2> QED BY <1>7, <2>1, <2>3, <2>4, <2>5 DEF SentClosing, OnWire, Advances, Kind
<1>8. CASE SentDone(t)
  <2>1. task[t].at = "done" /\ Rest(t) /\ OnWire(t) /\ conv' = ResetSlot(conv, task[t].resp)
        /\ open' = open
    BY <1>8 DEF SentDone, Holds
  <2>6. interrupts' \subseteq interrupts \cup {task[t].resp}
    BY <1>8 DEF SentDone
  <2>7. obs' \in Buffer
    <3>1. obs' = obs \/ obs' = ClearedBuffer
      BY <1>8 DEF SentDone
    <3> QED BY <1>0, <3>1
  <2>2. conv' \in Conversation
    <3>1. "failed" \in Outcome
      BY DEF Outcome
    <3> QED BY <1>0, <2>1, <3>1, CompleteResetLemma
  <2>3. /\ task' \in [Task -> Awaited] /\ ahead' \in [Task -> SUBSET Task]
        /\ task'[t].at = "idle" /\ OthersKeep(t)
    BY <2>1, RestLemma
  <2>4. "done" \in Event
    BY DEF Event, Closing
  <2>5. TypeOK'
    BY <1>0, <2>1, <2>2, <2>3, <2>4, <2>6, <2>7 DEF TypeOK, OnWire
  <2> QED BY <2>1, <2>3, <2>5 DEF OnWire, Closes, Kind
<1>9. CASE SentNotice(t)
  <2>1. Harmless(t, conv) \/ Completing(t)
    <3>1. CASE ObserverFinish("failed") /\ t = "observer"
      BY <3>1, ObserverFinishLemma DEF Outcome
    <3>2. CASE Rest(t) /\ UNCHANGED <<conv, obs>>
      BY <1>0, <3>2, RestLemma DEF Harmless, Typed, SameLife, Closing
    <3> QED BY <1>9, <3>1, <3>2 DEF SentNotice
  <2>2. ~IsClosing(t)
    BY <1>9 DEF SentNotice, Holds, IsClosing, Closing
  <2>3. sent' = sent /\ open' = open /\ interrupts' \subseteq interrupts
    BY <1>9 DEF SentNotice
  <2>4. CASE Harmless(t, conv)
    BY <2>2, <2>3, <2>4, KindOfStep DEF QuietWire, Kind
  <2>5. CASE Completing(t)
    BY <2>2, <2>3, <2>5, KindOfStep DEF QuietWire, Kind
  <2> QED BY <2>1, <2>4, <2>5
<1> QED BY <1>1, <1>2, <1>3, <1>4, <1>5, <1>6, <1>7, <1>8, <1>9 DEF Sent

\* A task that takes a new input.
LEMMA InputLemma ==
  ASSUME TypeOK, NEW t \in Task, task[t].at = "idle",
         Harmless(t, conv) \/ Completing(t),
         QuietWire(t)
  PROVE  TypeOK' /\ Kind(t)
<1>1. ~IsClosing(t)
  BY DEF IsClosing, Closing
<1>2. CASE Harmless(t, conv)
  BY <1>1, <1>2, KindOfStep DEF QuietWire, Kind
<1>3. CASE Completing(t)
  BY <1>1, <1>3, KindOfStep DEF QuietWire, Kind
<1> QED BY <1>2, <1>3

\* What concerns the life of responses.
Lives == <<conv, task, sent>>

\* Every step is well typed, and is of one of the kinds for one of the tasks
\* unless it leaves the responses alone.
LEMMA StepKinds ==
  ASSUME TypeOK, SlotOK, ~IsClosing("audio"), [Next]_vars
  PROVE  TypeOK' /\ (UNCHANGED Lives \/ \E t \in Task : Kind(t))
<1>0. /\ conv \in Conversation /\ obs \in Buffer
      /\ "client" \in Task /\ "observer" \in Task /\ "audio" \in Task
  BY DEF TypeOK, Task
<1>1. CASE \E t \in Task : Sent(t)
  BY <1>1, SentLemma
<1>2. CASE ResponseCreate
  <2>1. Harmless("client", conv)
    BY <1>0, <1>2, AnnounceLemma DEF ResponseCreate, Purpose
  <2> QED BY <1>0, <1>2, <2>1, InputLemma DEF QuietWire, ResponseCreate, ClientReady
<1>3. CASE ResponseCancel \/ \E item \in conv.spoken \cup {conv.slot} : ItemTruncate(item)
  <2>1. CancelActive /\ task["client"].at = "idle" /\ InProgress(conv)
    BY <1>3 DEF ResponseCancel, ItemTruncate, ClientReady, InProgress, SlotOK
  <2>2. Completing("client")
    BY <2>1, CancelActiveLemma
  <2> QED BY <1>0, <2>1, <2>2, InputLemma DEF QuietWire, CancelActive
<1>4. CASE ClientNotice
  <2>1. Harmless("client", conv)
    <3>1. Await("client", "notice", 0, 0, "rest") /\ conv' = conv /\ obs' = obs
      BY <1>4 DEF ClientNotice
    <3> QED BY <1>0, <3>1, AwaitLemma DEF Harmless, Typed, SameLife, Closing
  <2> QED BY <1>0, <1>4, <2>1, InputLemma DEF QuietWire, ClientNotice, ClientReady
<1>5. CASE Disconnect
  BY <1>0, <1>5 DEF Disconnect, TypeOK, Lives
<1>6. CASE \E why \in {"bot", "tts", "llm"} \cap Inputs : AnnouncingFrame(why)
  <2>1. PICK why \in Purpose : AnnouncingFrame(why)
    BY <1>6 DEF Purpose
  <2>2. Harmless("observer", conv)
    BY <1>0, <2>1, AnnounceLemma DEF AnnouncingFrame
  <2> QED BY <1>0, <2>1, <2>2, InputLemma DEF QuietWire, AnnouncingFrame, ObserverReady
<1>7. CASE \/ TurnEndFrame \/ BargeInFrame
           \/ \E g \in interrupts : ClientInterruptionFrame(g)
  <2>1. PICK outcome \in Outcome : ObserverFinish(outcome)
    BY <1>7 DEF TurnEndFrame, BargeInFrame, ClientInterruptionFrame, Outcome
  <2>2. Harmless("observer", conv) \/ Completing("observer")
    BY <2>1, ObserverFinishLemma
  <2>3. /\ task["observer"].at = "idle"
        /\ sent' = sent /\ open' = open /\ interrupts' \subseteq interrupts
    BY <1>7 DEF TurnEndFrame, BargeInFrame, ClientInterruptionFrame, ObserverReady
  <2> QED BY <1>0, <2>2, <2>3, InputLemma DEF QuietWire
<1>8. CASE \E fatal \in BOOLEAN : ErrorFrame(fatal)
  <2>1. PICK why \in {"failed", "rest"} : Await("observer", "notice", 0, 0, why)
    BY <1>8 DEF ErrorFrame
  <2>2. /\ task["observer"].at = "idle" /\ conv' = conv /\ obs' = obs
        /\ sent' = sent /\ open' = open /\ interrupts' = interrupts
    BY <1>8 DEF ErrorFrame, ObserverReady
  <2>3. Harmless("observer", conv)
    BY <1>0, <2>1, <2>2, AwaitLemma DEF Harmless, Typed, SameLife, Closing, Outcome
  <2> QED BY <1>0, <2>2, <2>3, InputLemma DEF QuietWire
<1>9. CASE AudioChunk
  <2>1. Harmless("audio", conv)
    BY <1>0, <1>9, AnnounceLemma DEF AudioChunk, Purpose
  <2> QED BY <1>0, <1>9, <2>1, InputLemma DEF QuietWire, AudioChunk
<1>10. CASE AudioCancelled
  <2>1. Harmless("audio", conv)
    BY <1>0, <1>10, RestLemma DEF AudioCancelled, Harmless, Typed, SameLife, Closing
  <2> QED BY <1>0, <1>10, <2>1, KindOfStep DEF QuietWire, AudioCancelled, Kind
<1>11. CASE UNCHANGED vars
  BY <1>11 DEF vars, Lives, TypeOK
<1> QED BY <1>1, <1>2, <1>3, <1>4, <1>5, <1>6, <1>7, <1>8, <1>9, <1>10, <1>11 DEF Next

-----------------------------------------------------------------------------
(***************************************************************************)
(* The inductive invariant.                                                *)
(***************************************************************************)

\* It holds before the first message.
LEMMA InitLemma == Init => LifeInv
<1> SUFFICES ASSUME Init PROVE LifeInv
  OBVIOUS
<1>1. /\ conv.gen = 0 /\ conv.slot = 0 /\ conv.status = "none" /\ conv \in Conversation
      /\ sent = {} /\ \A t \in Task : task[t].at = "idle"
  BY GatesAssumption DEF Init, NewConversation, Idle, Status
<1>2. TypeOK
  BY <1>1 DEF Init, TypeOK, Idle, ClearedBuffer
<1>3. \A t \in Task : ~IsClosing(t)
  BY <1>1 DEF IsClosing, Closing
<1>4. 1..conv.gen = {}
  BY <1>1
<1> QED BY <1>1, <1>2, <1>3, <1>4
        DEF LifeInv, SlotOK, ClosingOK, SentOK, ClosedOnceInOrder, EveryResponseAccountedFor

LEMMA QuietLemma ==
  ASSUME LifeInv, TypeOK', NEW t \in Task, Quiet(t)
  PROVE  /\ LifeInv'
         /\ ClosingNow' = ClosingNow
<1>0. /\ conv \in Conversation /\ conv' \in Conversation
      /\ sent \subseteq Nat \X Event /\ sent' \subseteq Nat \X Event
      /\ \A u \in Task : task[u].resp \in Nat
  BY DEF LifeInv, TypeOK
<1>1. \A u \in Task : /\ IsClosing(u)' <=> IsClosing(u)
                      /\ IsClosing(u) => task'[u] = task[u]
  BY DEF Quiet, OthersKeep, IsClosing
<1>2. SlotOK'
  BY <1>0 DEF LifeInv, SlotOK, Quiet, SameLife, Born
<1>3. \A g \in 1..conv.gen : g \in 1..conv'.gen /\ (Live(g)' <=> Live(g))
  BY <1>0 DEF LifeInv, SlotOK, Quiet, SameLife, Born, Live, InProgress
<1>4. \A g \in 1..conv'.gen : g \in 1..conv.gen \/ Live(g)'
  BY <1>0 DEF Quiet, SameLife, Born, Live, InProgress
<1>5. ClosingOK'
  BY <1>1, <1>3 DEF LifeInv, ClosingOK
<1>6. SentOK'
  <2> SUFFICES ASSUME NEW p \in sent', p[2] \in Closing
               PROVE  p[1] \in 1..conv'.gen /\ ~Live(p[1])'
    BY DEF SentOK
  <2>1. p[1] \in Nat /\ p = <<p[1], p[2]>>
    BY <1>0
  <2>2. p \in sent
    BY <2>1 DEF Quiet, SameClosingSent
  <2> QED BY <2>2, <1>3 DEF LifeInv, SentOK
<1>7. ClosedOnceInOrder'
  BY <1>0, <1>1, <1>3, <1>4, <1>6 DEF LifeInv, ClosedOnceInOrder, Quiet, SameClosingSent, SentOK
<1>8. ClosingNow' = ClosingNow
  BY <1>1 DEF ClosingNow
<1>9. EveryResponseAccountedFor'
  BY <1>0, <1>3, <1>4, <1>8
     DEF LifeInv, EveryResponseAccountedFor, Quiet, SameClosingSent, Closing
<1> QED BY <1>2, <1>5, <1>6, <1>7, <1>8, <1>9 DEF LifeInv

LEMMA CompletesLemma ==
  ASSUME LifeInv, TypeOK', NEW t \in Task, Completes(t)
  PROVE  /\ LifeInv'
         /\ ClosingNow' = ClosingNow \cup {conv.slot}
<1>0. /\ conv \in Conversation /\ conv' \in Conversation
      /\ sent \subseteq Nat \X Event /\ sent' \subseteq Nat \X Event
      /\ \A u \in Task : task[u].resp \in Nat
  BY DEF LifeInv, TypeOK
<1>1. /\ Live(conv.slot) /\ conv.slot = conv.gen /\ conv.slot \in 1..conv.gen
      /\ conv'.gen = conv.gen /\ conv'.slot = conv.slot
      /\ \A g \in 1..conv.gen : ~Live(g)'
  BY <1>0 DEF LifeInv, SlotOK, Completes, Completed, InProgress, Live, Outcome
<1>2. /\ ~IsClosing(t) /\ IsClosing(t)' /\ task'[t].resp = conv.slot
      /\ task'[t].at = "audio_done"
      /\ \A u \in Task \ {t} : (IsClosing(u)' <=> IsClosing(u)) /\ task'[u] = task[u]
  BY DEF Completes, OthersKeep, IsClosing, Closing
<1>3. ClosingNow' = ClosingNow \cup {conv.slot}
  BY <1>2 DEF ClosingNow
<1>4. SlotOK'
  BY <1>0, <1>1 DEF LifeInv, SlotOK, Completes, Completed, Outcome
<1>5. ClosingOK'
  BY <1>1, <1>2 DEF LifeInv, ClosingOK, Completes
<1>6. SentOK'
  <2> SUFFICES ASSUME NEW p \in sent', p[2] \in Closing
               PROVE  p[1] \in 1..conv'.gen /\ ~Live(p[1])'
    BY DEF SentOK
  <2>1. p[1] \in Nat /\ p = <<p[1], p[2]>>
    BY <1>0
  <2>2. p \in sent
    BY <2>1 DEF Completes, SameClosingSent
  <2> QED BY <2>2, <1>1 DEF LifeInv, SentOK
<1>7. ClosedOnceInOrder'
  <2>1. \A e \in Closing : <<conv.slot, e>> \notin sent /\ <<conv.slot, e>> \notin sent'
    BY <1>0, <1>1 DEF LifeInv, ClosedOnceInOrder, Completes, SameClosingSent
  <2>2. \A u \in Task : IsClosing(u) => task[u].resp # conv.slot
    BY <1>1 DEF LifeInv, ClosingOK
  <2>3. ASSUME NEW u \in Task, IsClosing(u)', NEW e \in Closing
        PROVE  (<<task[u].resp, e>> \in sent <=> e \in Before(task[u].at))'
    <3>1. CASE u = t
      BY <3>1, <1>2, <2>1 DEF Before
    <3>2. CASE u # t
      BY <3>2, <2>3, <1>0, <1>2 DEF LifeInv, ClosedOnceInOrder, Completes, SameClosingSent, Before
    <3> QED BY <3>1, <3>2
  <2>4. ASSUME NEW u \in Task, NEW w \in Task, IsClosing(u)', IsClosing(w)', u # w
        PROVE  task'[u].resp # task'[w].resp
    BY <2>4, <1>2, <2>2 DEF LifeInv, ClosedOnceInOrder
  <2> QED BY <2>3, <2>4, <1>1 DEF ClosedOnceInOrder
<1>8. EveryResponseAccountedFor'
  <2> SUFFICES ASSUME NEW g \in 1..conv.gen
               PROVE  g \in ClosingNow' \/ <<g, "done">> \in sent'
    BY <1>1 DEF EveryResponseAccountedFor
  <2>1. CASE g = conv.slot
    BY <2>1, <1>3
  <2>2. CASE g # conv.slot
    <3>1. g \in ClosingNow \/ <<g, "done">> \in sent
      BY <2>2 DEF LifeInv, EveryResponseAccountedFor, Live
    <3>2. g \in Nat /\ "done" \in Closing
      BY <1>0 DEF Closing
    <3> QED BY <3>1, <3>2, <1>3 DEF Completes, SameClosingSent
  <2> QED BY <2>1, <2>2
<1> QED BY <1>3, <1>4, <1>5, <1>6, <1>7, <1>8 DEF LifeInv

LEMMA AdvancesLemma ==
  ASSUME LifeInv, TypeOK', NEW t \in Task, Advances(t)
  PROVE  /\ LifeInv'
         /\ ClosingNow' = ClosingNow
<1>0. /\ conv \in Conversation /\ conv' = conv
      /\ \A u \in Task : task[u].resp \in Nat
  BY DEF LifeInv, TypeOK, Advances
<1>1. /\ IsClosing(t) /\ IsClosing(t)' /\ task'[t].resp = task[t].resp
      /\ task[t].at # "done"
      /\ Before(task'[t].at) = Before(task[t].at) \cup {task[t].at}
  BY DEF Advances, NextClosing, IsClosing, Closing, Before
<1>2. \A u \in Task \ {t} : (IsClosing(u)' <=> IsClosing(u)) /\ task'[u] = task[u]
  BY DEF Advances, OthersKeep, IsClosing
<1>3. \A u \in Task : (IsClosing(u)' <=> IsClosing(u)) /\ task'[u].resp = task[u].resp
  BY <1>1, <1>2
<1>4. ClosingNow' = ClosingNow
  BY <1>3 DEF ClosingNow
<1>5. sent' = sent \cup {<<task[t].resp, task[t].at>>}
  BY DEF Advances
<1>6. SlotOK' /\ ClosingOK'
  BY <1>0, <1>3 DEF LifeInv, SlotOK, ClosingOK, Live, InProgress
<1>7. SentOK'
  BY <1>0, <1>1, <1>5 DEF LifeInv, SentOK, ClosingOK, Live, InProgress
<1>8. ClosedOnceInOrder'
  <2>1. ASSUME NEW u \in Task, IsClosing(u)', NEW e \in Closing
        PROVE  (<<task[u].resp, e>> \in sent <=> e \in Before(task[u].at))'
    <3>1. <<task[u].resp, e>> \in sent <=> e \in Before(task[u].at)
      BY <2>1, <1>3 DEF LifeInv, ClosedOnceInOrder
    <3>2. CASE u = t
      BY <3>1, <3>2, <1>1, <1>5
    <3>3. CASE u # t
      <4>1. task[u].resp # task[t].resp
        BY <3>3, <2>1, <1>1, <1>3 DEF LifeInv, ClosedOnceInOrder
      <4>2. task'[u] = task[u]
        BY <3>3, <1>2
      <4> QED BY <3>1, <4>1, <4>2, <1>5
    <3> QED BY <3>2, <3>3
  <2>2. ASSUME NEW u \in Task, NEW w \in Task, IsClosing(u)', IsClosing(w)', u # w
        PROVE  task'[u].resp # task'[w].resp
    BY <2>2, <1>3 DEF LifeInv, ClosedOnceInOrder
  <2>3. \A e \in Closing, g \in 1..conv.gen : Live(g) => <<g, e>> \notin sent'
    BY <1>1, <1>5 DEF LifeInv, ClosedOnceInOrder, ClosingOK
  <2> QED BY <1>0, <2>1, <2>2, <2>3 DEF ClosedOnceInOrder, Live, InProgress
<1>9. EveryResponseAccountedFor'
  BY <1>0, <1>4, <1>5 DEF LifeInv, EveryResponseAccountedFor, Live, InProgress
<1> QED BY <1>4, <1>6, <1>7, <1>8, <1>9 DEF LifeInv

LEMMA ClosesLemma ==
  ASSUME LifeInv, TypeOK', NEW t \in Task, Closes(t)
  PROVE  /\ LifeInv'
         /\ task[t].resp \in ClosingNow /\ ClosingNow' = ClosingNow \ {task[t].resp}
         /\ conv'.gen = conv.gen /\ \A g \in 1..conv.gen : Live(g)' <=> Live(g)
<1> DEFINE r == task[t].resp
<1>0. /\ conv \in Conversation /\ conv' \in Conversation
      /\ \A u \in Task : task[u].resp \in Nat
  BY DEF LifeInv, TypeOK
<1>1. IsClosing(t) /\ ~IsClosing(t)' /\ r \in 1..conv.gen /\ ~Live(r)
  BY DEF Closes, IsClosing, Closing, LifeInv, ClosingOK
<1>2. \A u \in Task \ {t} : (IsClosing(u)' <=> IsClosing(u)) /\ task'[u] = task[u]
  BY DEF Closes, OthersKeep, IsClosing
<1>3. \A u \in Task \ {t} : IsClosing(u) => task[u].resp # r
  BY <1>1 DEF LifeInv, ClosedOnceInOrder
<1>4. ClosingNow' = ClosingNow \ {r} /\ r \in ClosingNow
  BY <1>1, <1>2, <1>3 DEF ClosingNow
<1>5. sent' = sent \cup {<<r, "done">>}
  BY DEF Closes
<1>6. SlotOK' /\ conv'.gen = conv.gen /\ \A g \in 1..conv.gen : Live(g)' <=> Live(g)
  <2>1. conv' = ResetSlot(conv, r)
    BY DEF Closes
  <2>2. CASE r # conv.gen
    <3>1. conv' = conv
      BY <2>1, <2>2 DEF ResetSlot
    <3> QED BY <3>1 DEF LifeInv, SlotOK, Live, InProgress
  <2>3. CASE r = conv.gen
    <3>1. conv' = [conv EXCEPT !.slot = 0, !.status = "none", !.claimed = {}]
      BY <2>1, <2>3 DEF ResetSlot
    <3>2. conv'.slot = 0 /\ conv'.gen = conv.gen /\ conv'.status = "none"
      BY <3>1, <1>0
    <3>3. ~InProgress(conv)
      BY <1>1, <2>3 DEF LifeInv, SlotOK, InProgress, Live
    <3> QED BY <3>2, <3>3 DEF SlotOK, Live, InProgress
  <2> QED BY <2>2, <2>3
<1>7. ClosingOK'
  BY <1>1, <1>2, <1>6 DEF LifeInv, ClosingOK
<1>8. SentOK'
  BY <1>1, <1>5, <1>6 DEF LifeInv, SentOK
<1>9. ClosedOnceInOrder'
  <2>1. ASSUME NEW u \in Task, IsClosing(u)', NEW e \in Closing
        PROVE  (<<task[u].resp, e>> \in sent <=> e \in Before(task[u].at))'
    <3>1. u # t /\ IsClosing(u) /\ task'[u] = task[u] /\ task[u].resp # r
      BY <2>1, <1>1, <1>2, <1>3
    <3>2. <<task[u].resp, e>> \in sent <=> e \in Before(task[u].at)
      BY <3>1 DEF LifeInv, ClosedOnceInOrder
    <3> QED BY <3>1, <3>2, <1>5
  <2>2. ASSUME NEW u \in Task, NEW w \in Task, IsClosing(u)', IsClosing(w)', u # w
        PROVE  task'[u].resp # task'[w].resp
    BY <2>2, <1>1, <1>2 DEF LifeInv, ClosedOnceInOrder
  <2>3. \A e \in Closing, g \in 1..conv.gen : Live(g) => <<g, e>> \notin sent'
    BY <1>1, <1>5 DEF LifeInv, ClosedOnceInOrder
  <2> QED BY <1>6, <2>1, <2>2, <2>3 DEF ClosedOnceInOrder
<1>10. EveryResponseAccountedFor'
  BY <1>4, <1>5, <1>6 DEF LifeInv, EveryResponseAccountedFor
<1> QED BY <1>4, <1>6, <1>7, <1>8, <1>9, <1>10 DEF LifeInv

\* A step that leaves the responses alone.
LEMMA StutterLemma ==
  ASSUME LifeInv, TypeOK', UNCHANGED Lives
  PROVE  LifeInv' /\ ClosingNow' = ClosingNow
  BY DEF LifeInv, Lives, SlotOK, ClosingOK, SentOK, ClosedOnceInOrder,
         EveryResponseAccountedFor, ClosingNow, IsClosing, Live, InProgress

\* LifeInv is inductive.
LEMMA StepLemma == LifeInv /\ [Next]_vars => LifeInv'
<1> SUFFICES ASSUME LifeInv, [Next]_vars PROVE LifeInv'
  OBVIOUS
<1>1. TypeOK /\ SlotOK /\ ~IsClosing("audio")
  BY DEF LifeInv, ClosingOK, Task
<1>2. TypeOK' /\ (UNCHANGED Lives \/ \E t \in Task : Kind(t))
  BY <1>1, StepKinds
<1>3. CASE UNCHANGED Lives
  BY <1>2, <1>3, StutterLemma
<1>4. ASSUME NEW t \in Task, Kind(t) PROVE LifeInv'
  BY <1>2, <1>4, QuietLemma, CompletesLemma, AdvancesLemma, ClosesLemma DEF Kind
<1> QED BY <1>2, <1>3, <1>4

-----------------------------------------------------------------------------
(***************************************************************************)
(* The theorems.                                                           *)
(***************************************************************************)

\* In every behaviour of the session LifeInv holds throughout.
THEOREM LifeInvariant == Spec => []LifeInv
  BY InitLemma, StepLemma, PTL DEF Spec

\* The shared conversation, the observer's buffers and what each task awaits
\* keep their types, whatever interleaving of the three tasks.
THEOREM TypeCorrect == Spec => []TypeOK
<1>1. LifeInv => TypeOK
  BY DEF LifeInv
<1> QED BY <1>1, LifeInvariant, PTL

\* finish_response: each response is closed once, in order, by one task, and
\* never while it is in progress, for any number of responses.
THEOREM ClosesOnceInOrder == Spec => []ClosedOnceInOrder
<1>1. LifeInv => ClosedOnceInOrder
  BY DEF LifeInv
<1> QED BY <1>1, LifeInvariant, PTL

\* begin_response and the generation guard of reset_response_slot: no response
\* is lost between being begun and its response.done.
THEOREM NoResponseLost == Spec => []EveryResponseAccountedFor
<1>1. LifeInv => EveryResponseAccountedFor
  BY DEF LifeInv
<1> QED BY <1>1, LifeInvariant, PTL

-----------------------------------------------------------------------------
(***************************************************************************)
(* The refinement of ResponseLife.                                         *)
(***************************************************************************)
LiveResponse == IF InProgress(conv) THEN conv.slot ELSE 0
ClosedResponses == {p[1] : p \in {q \in sent : q[2] = "done"}}

\* A response is closed when its response.done has been on the wire.
LEMMA ClosedResponsesLemma ==
  ASSUME NEW s \in SUBSET (Nat \X Event)
  PROVE  {p[1] : p \in {q \in s : q[2] = "done"}} = {g \in Nat : <<g, "done">> \in s}
<1> DEFINE C == {p[1] : p \in {q \in s : q[2] = "done"}}
<1>1. \A p \in s : p[1] \in Nat /\ p = <<p[1], p[2]>>
  OBVIOUS
<1>2. ASSUME NEW g \in C PROVE g \in Nat /\ <<g, "done">> \in s
  <2>1. PICK p \in s : p[2] = "done" /\ g = p[1]
    BY <1>2
  <2> QED BY <1>1, <2>1
<1>3. ASSUME NEW g \in Nat, <<g, "done">> \in s PROVE g \in C
  <2>1. <<g, "done">> \in {q \in s : q[2] = "done"}
    BY <1>3
  <2> QED BY <2>1
<1> QED BY <1>2, <1>3

\* The session starts with no response.
LEMMA RefinesInit == Init => Life!Init
<1> SUFFICES ASSUME Init PROVE Life!Init
  OBVIOUS
<1>1. conv.gen = 0 /\ conv.slot = 0 /\ sent = {} /\ \A t \in Task : task[t].at = "idle"
  BY DEF Init, NewConversation, Idle
<1>2. ClosingNow = {}
  BY <1>1 DEF ClosingNow, IsClosing, Closing
<1> QED BY <1>1, <1>2 DEF Life!Init, InProgress

\* begin_response is Begin, complete_response is Complete, the response.done of
\* response g is Close(g), and every other step stutters.
LEMMA RefinesStep == LifeInv /\ [Next]_vars => [Life!Next]_(Life!vars)
<1> SUFFICES ASSUME LifeInv, [Next]_vars PROVE [Life!Next]_(Life!vars)
  OBVIOUS
<1>0. TypeOK /\ SlotOK /\ ~IsClosing("audio") /\ conv \in Conversation
  BY DEF LifeInv, ClosingOK, Task, TypeOK
<1>1. TypeOK' /\ (UNCHANGED Lives \/ \E t \in Task : Kind(t))
  BY <1>0, StepKinds
<1>2. /\ ClosedResponses = {g \in Nat : <<g, "done">> \in sent}
      /\ ClosedResponses' = {g \in Nat : <<g, "done">> \in sent'}
  BY <1>0, <1>1, ClosedResponsesLemma DEF ClosedResponses, TypeOK
<1>3. CASE UNCHANGED Lives
  BY <1>3, <1>1, StutterLemma DEF Lives, Life!vars, InProgress
<1>4. ASSUME NEW t \in Task, Quiet(t) PROVE [Life!Next]_(Life!vars)
  <2>1. ClosingNow' = ClosingNow
    BY <1>1, <1>4, QuietLemma
  <2>2. ClosedResponses' = ClosedResponses
    BY <1>2, <1>4 DEF Quiet, SameClosingSent, Closing
  <2>3. CASE SameLife(conv, conv')
    BY <2>1, <2>2, <2>3 DEF SameLife, InProgress, Life!vars, ClosedResponses
  <2>4. CASE Born(conv, conv')
    BY <1>0, <2>1, <2>2, <2>4 DEF Born, InProgress, Life!Next, Life!Begin, ClosedResponses
  <2> QED BY <1>4, <2>3, <2>4 DEF Quiet
<1>5. ASSUME NEW t \in Task, Completes(t) PROVE [Life!Next]_(Life!vars)
  <2>1. ClosingNow' = ClosingNow \cup {conv.slot}
    BY <1>1, <1>5, CompletesLemma
  <2>2. ClosedResponses' = ClosedResponses
    BY <1>2, <1>5 DEF Completes, SameClosingSent, Closing
  <2> QED BY <1>5, <2>1, <2>2
          DEF Completes, Completed, Outcome, InProgress, Life!Next, Life!Complete, ClosedResponses
<1>6. ASSUME NEW t \in Task, Advances(t) PROVE [Life!Next]_(Life!vars)
  <2>1. ClosingNow' = ClosingNow /\ conv' = conv
    BY <1>1, <1>6, AdvancesLemma DEF Advances
  <2>2. ClosedResponses' = ClosedResponses
    BY <1>2, <1>6 DEF Advances, NextClosing
  <2> QED BY <2>1, <2>2 DEF Life!vars, InProgress, ClosedResponses
<1>7. ASSUME NEW t \in Task, Closes(t) PROVE [Life!Next]_(Life!vars)
  <2> DEFINE r == task[t].resp
  <2>1. /\ r \in ClosingNow /\ ClosingNow' = ClosingNow \ {r}
        /\ conv'.gen = conv.gen /\ \A g \in 1..conv.gen : Live(g)' <=> Live(g)
        /\ LifeInv'
    BY <1>1, <1>7, ClosesLemma
  <2>2. ClosedResponses' = ClosedResponses \cup {r}
    BY <1>0, <1>2, <1>7 DEF Closes, TypeOK
  <2>3. LiveResponse' = LiveResponse
    BY <1>0, <1>1, <2>1 DEF LifeInv, SlotOK, LiveResponse, InProgress, Live, TypeOK
  <2> QED BY <2>1, <2>2, <2>3 DEF Life!Next, Life!Close, ClosedResponses, LiveResponse
<1> QED BY <1>1, <1>3, <1>4, <1>5, <1>6, <1>7 DEF Kind

\* The three tasks with their lock implement the life cycle of ResponseLife.
THEOREM ImplementsResponseLife == Spec => LifeSpec
  BY RefinesInit, RefinesStep, LifeInvariant, PTL DEF Spec, LifeSpec, Life!Spec

=============================================================================
