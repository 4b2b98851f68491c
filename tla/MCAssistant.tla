------------------------------ MODULE MCAssistant ------------------------------
(***************************************************************************)
(* The assistant's agents and what becomes of the model's words, in one    *)
(* TLC run: deliberate thinking, media analysis, gestures, the Speaker,    *)
(* the turns of the omni model, and the streams that split, decode, filter *)
(* and speak a reply.  They share no state, so they share the variables    *)
(* v1, v2, ...: component says whose they are, and the INSTANCEs what they *)
(* stand for.                                                              *)
(***************************************************************************)
EXTENDS Integers, Sequences, FiniteSets, SequencesExt, TLC
CONSTANTS
  None,
  MaxQuestions, MaxInterruptions,                           \* Thinking
  MaxAttachments, MaxCaptures, MaxJobs,                     \* MediaAnalysis
  ActionCooldown, ResumeWindow, MaxTime, MaxFrames,         \* Gestures
  Long, Short, Envelopes, History, CaptureCooldown, MaxTurns, \* Speaker
  Filler, Fallback, long1, long2, short1,
  Spoken, Typed, MaxTurnTasks, MaxTools, MaxCuts,           \* OmniTurns
  MaxContexts, MaxTokens, MaxStreams, MaxErrors,            \* WordTts
  Sentences, MaxWords                                       \* WordTimings
VARIABLES component,
  v1, v2, v3, v4, v5, v6, v7, v8, v9, v10, v11, v12, v13, v14, v15, v16

(* Speaker: two long replies and a short one, and an envelope of every usable
   and unusable shape. *)
MCLong == {long1, long2}
MCShort == {short1}
Says(action, reply) ==
  [action |-> action, first |-> TRUE, reply |-> reply, media |-> FALSE,
   query |-> FALSE, heard |-> TRUE, cut |-> FALSE]
MCEnvelopes ==
  {Says("respond", long1), Says("respond", long2), Says("respond", short1), Says("respond", None),
   Says("think", long2), Says(None, long1), Says("capture_highres", None),
   [Says("respond", long1) EXCEPT !.first = FALSE],
   [Says("respond", long1) EXCEPT !.cut = TRUE],
   [Says("respond", short1) EXCEPT !.cut = TRUE],
   [Says("clarify", short1) EXCEPT !.heard = FALSE],
   [Says("respond", long2) EXCEPT !.media = TRUE],
   [Says("analyze_attachment", long1) EXCEPT !.media = TRUE],
   [Says("capture_highres", long1) EXCEPT !.query = TRUE],
   [Says(None, long1) EXCEPT !.media = TRUE, !.query = TRUE],
   [Says(None, short1) EXCEPT !.query = TRUE]}

(* WordTimings: sentences of one to three words that share beginnings. *)
Words == {[word |-> "no", dur |-> 1], [word |-> "no", dur |-> 2], [word |-> "yes", dur |-> 1]}
MCSentences == (UNION {[1..n -> Words] : n \in 1..2}) \cup {<<w, w, w>> : w \in Words}

(* OmniTurns: nothing tells one utterance from another but when it is said. *)
MCSymmetry == Permutations(Spoken)

Thinker == INSTANCE Thinking WITH
  ack <- v1, at <- v2, call <- v3, pending <- v4,
  active <- v5, generation <- v6, activeTask <- v7, jobs <- v8, followups <- v9, asked <- v10,
  spoken <- v11
Media == INSTANCE MediaAnalysis WITH
  session <- v1, uploads <- v2, store <- v3,
  last <- v4, callbacks <- v5, request <- v6, captures <- v7, awaiting <- v8, pending <- v9,
  active <- v10, analyzed <- v11, calls <- v12, jobs <- v13, delayed <- v14, board <- v15,
  note <- v16
Gesture == INSTANCE Gestures WITH
  Cooldown <- ActionCooldown, now <- v1, speaking <- v2,
  lastIntent <- v3, candidate <- v4, lastActionAt <- v5, lastInterruptedAt <- v6, frames <- v7
Speaking == INSTANCE Speaker WITH
  Cooldown <- CaptureCooldown, guard <- v1, cooldown <- v2, upload <- v3,
  turn <- v4, said <- v5, owned <- v6, count <- v7
Omni == INSTANCE OmniTurns WITH
  MaxTurns <- MaxTurnTasks, ctx <- v1, frames <- v2, turns <- v3,
  pending <- v4, service <- v5, input <- v6, data <- v7, env <- v8
Split == INSTANCE TranscriptSplit WITH
  MaxPieces <- 5, MaxDelta <- 3, reply <- v1, at <- v2, split <- v3, spoken <- v4, ended <- v5
Json == INSTANCE JsonStream WITH
  MaxDelta <- 3, streamer <- v1, single <- v2, agree <- v3
Addressed == INSTANCE AddressedReply WITH
  MaxTokens <- 2, MaxReplies <- 2, Speakers <- {"Speaker 1", "Speaker 2"}, MaxLines <- 3,
  replies <- v1, pos <- v2, stream <- v3, filter <- v4, out <- v5, cut <- v6
Tts == INSTANCE WordTts WITH
  Contexts <- 1..MaxContexts, active <- v1, streams <- v2,
  available <- v3, played <- v4, llm <- v5, errors <- v6
Timings == INSTANCE WordTimings WITH
  mode <- v1, speech <- v2, accepted <- v3, clear <- v4

ASSUME AssistantAssumption ==
  /\ Thinker!BoundsAssumption /\ Media!BoundsAssumption /\ Gesture!TimeAssumption
  /\ Speaking!EnvelopesAssumption /\ Omni!UtterancesAssumption /\ Timings!SentencesAssumption

vars == <<component, v1, v2, v3, v4, v5, v6, v7, v8, v9, v10, v11, v12, v13, v14, v15, v16>>
Init ==
  \/ /\ component = "thinking" /\ Thinker!Init
     /\ v12 = 0 /\ v13 = 0 /\ v14 = 0 /\ v15 = 0 /\ v16 = 0
  \/ /\ component = "media" /\ Media!Init
  \/ /\ component = "gestures" /\ Gesture!Init
     /\ v8 = 0 /\ v9 = 0 /\ v10 = 0 /\ v11 = 0 /\ v12 = 0 /\ v13 = 0 /\ v14 = 0 /\ v15 = 0
     /\ v16 = 0
  \/ /\ component = "speaker" /\ Speaking!Init
     /\ v8 = 0 /\ v9 = 0 /\ v10 = 0 /\ v11 = 0 /\ v12 = 0 /\ v13 = 0 /\ v14 = 0 /\ v15 = 0
     /\ v16 = 0
  \/ /\ component = "omni" /\ Omni!Init
     /\ v9 = 0 /\ v10 = 0 /\ v11 = 0 /\ v12 = 0 /\ v13 = 0 /\ v14 = 0 /\ v15 = 0 /\ v16 = 0
  \/ /\ component = "split" /\ Split!Init
     /\ v6 = 0 /\ v7 = 0 /\ v8 = 0 /\ v9 = 0 /\ v10 = 0 /\ v11 = 0 /\ v12 = 0 /\ v13 = 0
     /\ v14 = 0 /\ v15 = 0 /\ v16 = 0
  \/ /\ component = "json" /\ Json!Init
     /\ v4 = 0 /\ v5 = 0 /\ v6 = 0 /\ v7 = 0 /\ v8 = 0 /\ v9 = 0 /\ v10 = 0 /\ v11 = 0
     /\ v12 = 0 /\ v13 = 0 /\ v14 = 0 /\ v15 = 0 /\ v16 = 0
  \/ /\ component = "addressed" /\ Addressed!Init
     /\ v7 = 0 /\ v8 = 0 /\ v9 = 0 /\ v10 = 0 /\ v11 = 0 /\ v12 = 0 /\ v13 = 0 /\ v14 = 0
     /\ v15 = 0 /\ v16 = 0
  \/ /\ component = "tts" /\ Tts!Init
     /\ v7 = 0 /\ v8 = 0 /\ v9 = 0 /\ v10 = 0 /\ v11 = 0 /\ v12 = 0 /\ v13 = 0 /\ v14 = 0
     /\ v15 = 0 /\ v16 = 0
  \/ /\ component = "timings" /\ Timings!Init
     /\ v5 = 0 /\ v6 = 0 /\ v7 = 0 /\ v8 = 0 /\ v9 = 0 /\ v10 = 0 /\ v11 = 0 /\ v12 = 0
     /\ v13 = 0 /\ v14 = 0 /\ v15 = 0 /\ v16 = 0
Next ==
  /\ UNCHANGED component
  /\ \/ component = "thinking" /\ Thinker!Next /\ UNCHANGED <<v12, v13, v14, v15, v16>>
     \/ component = "media" /\ Media!Next
     \/ component = "gestures" /\ Gesture!Next /\ UNCHANGED <<v8, v9, v10, v11, v12, v13, v14, v15, v16>>
     \/ component = "speaker" /\ Speaking!Next /\ UNCHANGED <<v8, v9, v10, v11, v12, v13, v14, v15, v16>>
     \/ component = "omni" /\ Omni!Next /\ UNCHANGED <<v9, v10, v11, v12, v13, v14, v15, v16>>
     \/ component = "split" /\ Split!Next /\ UNCHANGED <<v6, v7, v8, v9, v10, v11, v12, v13, v14, v15, v16>>
     \/ component = "json" /\ Json!Next /\ UNCHANGED <<v4, v5, v6, v7, v8, v9, v10, v11, v12, v13, v14, v15, v16>>
     \/ component = "addressed" /\ Addressed!Next /\ UNCHANGED <<v7, v8, v9, v10, v11, v12, v13, v14, v15, v16>>
     \/ component = "tts" /\ Tts!Next /\ UNCHANGED <<v7, v8, v9, v10, v11, v12, v13, v14, v15, v16>>
     \/ component = "timings" /\ Timings!Next /\ UNCHANGED <<v5, v6, v7, v8, v9, v10, v11, v12, v13, v14, v15, v16>>
Spec == Init /\ [][Next]_vars

\* A Thinker's answer is spoken uninterrupted and one pass runs at a time
\* (Thinking).
OnePassAnswers ==
  component = "thinking" =>
    Thinker!Inv /\ Thinker!AnswersUninterrupted /\ Thinker!OnePass

\* The pinned board is the latest upload's analysis, and no attachment is
\* analyzed twice at a time (MediaAnalysis).
BoardOfLatestUpload ==
  component = "media" =>
    Media!Inv /\ Media!BoardAgreesWithGate /\ Media!OneAnalysis

\* An analysis is of the attachment its prompt was queued for (MediaAnalysis).
PromptKeepsItsAttachment ==
  [][component = "media" => Media!OfItsPrompt]_vars

\* A gesture acts once, when it is new and meant, and only on what it can act
\* on (Gestures).
GesturesActOnce ==
  component = "gestures" =>
    Gesture!Inv /\ Gesture!FreshGesture /\ Gesture!ThumbConfirmed /\ Gesture!ResumesOncePerBargeIn

\* The Speaker bridges a repeated reply, and a turn has one owner (Speaker).
SpokenByOneOwner ==
  component = "speaker" => Speaking!Inv /\ Speaking!RepeatsAreBridged /\ Speaking!OneOwner

\* An utterance is answered again, from its transcript, only as the omni service
\* is known to do after a turn that was cut short, silent or called a tool (OmniTurns).
SpokenAnsweredOnce ==
  component = "omni" => Omni!Inv /\ Omni!SpokenAnsweredOnce

\* Where the deltas of a streamed reply are cut does not matter
\* (TranscriptSplit, JsonStream), and a held reply is spoken as it was meant
\* (AddressedReply).
RepliesReadWhole ==
  /\ component = "split" => Split!SplitIndependentOfDeltas
  /\ component = "json" => Json!DecodedAlike
  /\ component = "addressed" => Addressed!RepliesAsMeant

\* A superseded stream leaves the newer one alone (WordTts), and each word said
\* is committed once (WordTimings).
WordsOfOwnStream ==
  /\ component = "tts" => Tts!Inv /\ Tts!OwnContextOnly
  /\ component = "timings" => Timings!Inv /\ Timings!EachWordOnce

===============================================================================
