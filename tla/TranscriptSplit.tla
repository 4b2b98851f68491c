---- MODULE TranscriptSplit ----
(***************************************************************************)
(* _TranscriptResponseExtractor of nvidia_omni_multimodal_service.py: the  *)
(* reply of an audio turn, cut into deltas anywhere, also inside a tag, is *)
(* split into what the user said and what the bot speaks.  A tag is two    *)
(* characters here, a bracket and a letter, and any text is made of tags,  *)
(* spaces and loose brackets.                                              *)
(***************************************************************************)
EXTENDS Integers, Sequences, SequencesExt

CONSTANTS MaxPieces,  \* bound: pieces of a reply
          MaxDelta    \* bound: characters of a delta

TranscriptOpen == <<"<", "t">>
TranscriptClose == <<"<", "T">>
ResponseOpen == <<"<", "r">>
ResponseClose == <<"<", "R">>
Pieces == {TranscriptOpen, TranscriptClose, ResponseOpen, ResponseClose, <<"<">>, <<" ">>}

VARIABLES reply,      \* what the model generates
          at,         \* how much of it has been fed
          split,      \* the extractor
          spoken,     \* what went on to TTS
          ended       \* finalize() has run
vars == <<reply, at, split, spoken, ended>>

Init ==
    /\ \E n \in 0..MaxPieces : \E p \in [1..n -> Pieces] : reply = FlattenSeq(p)
    /\ at = 0 /\ spoken = <<>> /\ ended = FALSE
    /\ split = [state |-> "detecting", buffer |-> <<>>, hears |-> <<>>,
                transcript |-> <<>>, done |-> FALSE]

(* str.lstrip, str.strip, str.find and slices. *)
Drop(s, n) == SubSeq(s, n + 1, Len(s))
Blank(s) == \A i \in DOMAIN s : s[i] = " "
LStrip(s) ==
    IF Blank(s) THEN <<>>
    ELSE Drop(s, CHOOSE n \in 0..(Len(s) - 1) : s[n + 1] # " " /\ Blank(SubSeq(s, 1, n)))
Strip(s) == Reverse(LStrip(Reverse(LStrip(s))))
Places(tag, s) == {i \in 0..(Len(s) - Len(tag)) : SubSeq(s, i + 1, i + Len(tag)) = tag}
FirstPlace(tag, s) == CHOOSE i \in Places(tag, s) : \A j \in Places(tag, s) : i <= j
Before(tag, s) == SubSeq(s, 1, FirstPlace(tag, s))
After(tag, s) == Drop(s, FirstPlace(tag, s) + Len(tag))

(* What can be passed on while a closing tag may yet begin in the tail. *)
Safe(tag, s) == SubSeq(s, 1, Len(s) - (Len(tag) - 1))
Held(tag, s) == Drop(s, Len(Safe(tag, s)))
(* _tag_match = "partial". *)
Partial(tag, s) == Len(s) < Len(tag) /\ IsPrefix(s, tag)

(* feed(): its states follow one another, so one pass over them is the loop. *)
Detect(e) ==
    LET s == LStrip(e.buffer)
    IN  IF e.state # "detecting" \/ Partial(TranscriptOpen, s) THEN e
        ELSE IF IsPrefix(TranscriptOpen, s)
             THEN [e EXCEPT !.state = "transcript", !.buffer = Drop(s, Len(TranscriptOpen))]
             ELSE [e EXCEPT !.state = "passthrough", !.buffer = s]
Hear(e) ==
    IF e.state # "transcript" THEN e
    ELSE IF Places(TranscriptClose, e.buffer) = {}
         THEN [e EXCEPT !.hears = @ \o Safe(TranscriptClose, e.buffer),
                        !.buffer = Held(TranscriptClose, e.buffer)]
         ELSE [e EXCEPT !.state = "between", !.done = TRUE, !.buffer = After(TranscriptClose, e.buffer),
                        !.transcript = Strip(e.hears \o Before(TranscriptClose, e.buffer))]
Between(e) ==
    LET s == LStrip(e.buffer)
    IN  IF e.state # "between" THEN e
        ELSE IF Partial(ResponseOpen, s) THEN [e EXCEPT !.buffer = s]
        ELSE IF IsPrefix(ResponseOpen, s)
             THEN [e EXCEPT !.state = "response", !.buffer = Drop(s, Len(ResponseOpen))]
             ELSE [e EXCEPT !.state = "passthrough", !.buffer = s]

(* The last states hand text on: what, and the extractor after it. *)
Closed(e) == Places(ResponseClose, e.buffer) # {}
(* A bug: all of the buffer goes on, the first half of a closing tag too. *)
RespondAll(e) ==
    CASE e.state \notin {"passthrough", "response"} -> <<<<>>, e>>
      [] e.state = "response" /\ Closed(e) ->
           <<Before(ResponseClose, e.buffer), [e EXCEPT !.state = "done", !.buffer = <<>>]>>
      [] OTHER -> <<e.buffer, [e EXCEPT !.buffer = <<>>]>>
Respond(e) ==
    CASE e.state \notin {"passthrough", "response"} -> <<<<>>, e>>
      [] e.state = "passthrough" -> <<e.buffer, [e EXCEPT !.buffer = <<>>]>>
      [] e.state = "response" /\ Closed(e) ->
           <<Before(ResponseClose, e.buffer), [e EXCEPT !.state = "done", !.buffer = <<>>]>>
      [] e.state = "response" /\ ~Closed(e) ->
           <<Safe(ResponseClose, e.buffer), [e EXCEPT !.buffer = Held(ResponseClose, e.buffer)]>>
Pass(e) == Respond(Between(Hear(Detect(e))))

Feed(n) ==
    /\ at + n <= Len(reply)
    /\ at' = at + n
    /\ LET fed == Pass([split EXCEPT !.buffer = @ \o SubSeq(reply, at + 1, at + n)])
       IN  IF split.state = "done" THEN UNCHANGED <<split, spoken>>
           ELSE split' = fed[2] /\ spoken' = spoken \o fed[1]
    /\ UNCHANGED <<reply, ended>>

(* finalize(), from _finalize_reasoning_state: the text still held is spoken,
   unless the transcript was never closed. *)
Finalize ==
    /\ at = Len(reply) /\ ~ended
    /\ ended' = TRUE
    /\ spoken' = IF split.state \in {"transcript", "done"} THEN spoken ELSE spoken \o split.buffer
    /\ split' = IF split.state = "transcript"
                THEN [split EXCEPT !.buffer = <<>>, !.transcript = Strip(split.hears),
                                   !.done = Strip(split.hears) # <<>>]
                ELSE [split EXCEPT !.buffer = <<>>]
    /\ UNCHANGED <<reply, at>>

Next == Finalize \/ \E n \in 1..MaxDelta : Feed(n)
Spec == Init /\ [][Next]_vars

(* The reference: the same split, of the whole reply at once. *)
Rest == Drop(LStrip(reply), Len(TranscriptOpen))
Answer == LStrip(After(TranscriptClose, Rest))
Body == Drop(Answer, Len(ResponseOpen))
Whole ==
    IF Partial(TranscriptOpen, LStrip(reply)) THEN [heard |-> <<>>, says |-> reply]
    ELSE IF ~IsPrefix(TranscriptOpen, LStrip(reply)) THEN [heard |-> <<>>, says |-> LStrip(reply)]
    ELSE IF Places(TranscriptClose, Rest) = {}
         THEN [heard |-> Strip(Safe(TranscriptClose, Rest)), says |-> <<>>]
    ELSE [heard |-> Strip(Before(TranscriptClose, Rest)),
          says |-> IF ~IsPrefix(ResponseOpen, Answer) THEN Answer
                   ELSE IF Places(ResponseClose, Body) = {} THEN Body
                   ELSE Before(ResponseClose, Body)]

(* However the stream cuts the reply, the user hears, and is quoted as having
   said, what the whole reply says, and no delta speaks too early: feed() and
   finalize() against the reference. *)
SplitIndependentOfDeltas ==
    /\ IsPrefix(spoken, Whole.says)
    /\ split.done => split.transcript = Whole.heard
    /\ ended => spoken = Whole.says /\ split.transcript = Whole.heard
====
