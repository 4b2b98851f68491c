--------------------------- MODULE AddressedReply ---------------------------
(***************************************************************************)
(* Multi-speaker replies of the generic example (generic/silent_reply.py). *)
(* The LLM answers with a JSON object that says whether it was addressed.  *)
(* reply_field_chunks streams the text of its "reply" field, or "..." when *)
(* it was not addressed; SilentReplyFilter holds a reply back until it is  *)
(* known to be speech, and keeps "..." away from the TTS.                  *)
(*                                                                         *)
(* A reply is a sequence of tokens, cut into deltas anywhere: the opening  *)
(* brace, the flag, words and dots of the text, and leading blanks.        *)
(***************************************************************************)
EXTENDS Naturals, Sequences, SequencesExt

CONSTANTS MaxTokens, MaxReplies, Speakers, MaxLines

VARIABLES replies, \* the replies so far, the last one being streamed
          pos,     \* tokens of it already streamed
          stream,  \* the locals of reply_field_chunks
          filter,  \* the fields of SilentReplyFilter
          out,     \* the frames pushed to the TTS service since this reply began
          cut      \* replies interrupted, or with other frames among their text

vars == <<replies, pos, stream, filter, out, cut>>

Text == {"word", "dots"}
Flags == {"addressed", "not_addressed"}
Bodies == {b \in SeqOf(Text \cup Flags, MaxTokens) :
             Len(SelectSeq(b, LAMBDA t : t \in Flags)) <= 1}
Replies == {<<"{">> \o b : b \in Bodies} \cup {<<"blank", "{">> \o b : b \in Bodies}
           \cup SeqOf(Text, MaxTokens)

NotStarted == [json |-> "unknown", raw |-> <<>>, spoke |-> FALSE, silenced |-> FALSE]
Reset      == [held |-> <<>>, holding |-> FALSE, text |-> <<>>]

Init == /\ replies = <<>> /\ pos = 0 /\ stream = NotStarted
        /\ filter = Reset /\ out = <<>> /\ cut = {}

This == Len(replies)
Frame(kind, text) == [kind |-> kind, reply |-> This, text |-> text, skip |-> FALSE]
Streaming == This > 0 /\ stream.json # "over"

-----------------------------------------------------------------------------
(* SilentReplyFilter, whose methods change filter and out.                 *)

IsDots(text) == \A i \in DOMAIN text : text[i] = "dots"
IsSilence(text) == text # <<>> /\ IsDots(text)

Released(frames) == filter' = Reset /\ out' = out \o frames

\* LLMFullResponseStartFrame
StartFrame(frame) ==
    /\ out' = filter.held
    /\ filter' = [held |-> <<frame>>, holding |-> TRUE, text |-> <<>>]

TextFrame(frame) ==
    LET text == filter.text \o frame.text
        held == Append(filter.held, frame)
    IN IF ~filter.holding THEN out' = Append(out, frame) /\ UNCHANGED filter
       ELSE IF ~IsDots(text) THEN Released(held)
       ELSE filter' = [filter EXCEPT !.held = held, !.text = text] /\ UNCHANGED out

\* A silent reply is marked skip_tts from its start to its end.
Marked(held) == [i \in DOMAIN held |-> [held[i] EXCEPT !.skip = TRUE]]

\* LLMFullResponseEndFrame
EndFrame(frame) ==
    LET held == Append(filter.held, frame)
    IN IF ~filter.holding THEN out' = Append(out, frame) /\ UNCHANGED filter
       ELSE Released(IF IsSilence(filter.text) THEN Marked(held) ELSE held)

-----------------------------------------------------------------------------
(* reply_field_chunks.                                                     *)

\* The flag is looked for in all that came, until a word has been let through.
Silences(raw, delta) ==
    ~stream.spoke /\ ~stream.silenced /\ Contains(raw, "not_addressed")

\* The text of a delta, once the first token that is not blank has come.
ReplyText(raw, delta) ==
    LET said == SelectSeq(delta, LAMBDA t : t \in Text)
    IN CASE raw[1] \in Text -> said
         [] Silences(raw, delta) -> <<"dots">>
         [] stream.silenced -> <<>>
         [] OTHER -> said

NextReply ==
    /\ ~Streaming /\ This < MaxReplies
    /\ \E r \in Replies : replies' = Append(replies, r)
    /\ pos' = 0 /\ stream' = NotStarted
    /\ StartFrame([Frame("start", <<>>) EXCEPT !.reply = This + 1])
    /\ UNCHANGED cut

Delta(n) ==
    LET reply == replies[This]
        raw   == SubSeq(reply, 1, pos + n)
        delta == IF stream.json = "unknown" THEN raw ELSE SubSeq(reply, pos + 1, pos + n)
        said  == ReplyText(raw, delta)
    IN /\ Streaming /\ pos + n <= Len(reply)
       /\ pos' = pos + n
       /\ IF raw = <<"blank">> THEN UNCHANGED <<stream, filter, out>>
          ELSE /\ stream' = [json |-> IF raw[1] \in Text THEN "no" ELSE "yes", raw |-> <<>>,
                             spoke |-> stream.spoke \/ said # <<>>,
                             silenced |-> stream.silenced \/ (raw[1] \notin Text /\ Silences(raw, delta))]
               /\ IF said = <<>> THEN UNCHANGED <<filter, out>>
                  ELSE TextFrame(Frame("text", said))
       /\ UNCHANGED <<replies, cut>>

EndReply ==
    /\ Streaming /\ pos = Len(replies[This])
    /\ stream' = [stream EXCEPT !.json = "over"]
    /\ EndFrame(Frame("end", <<>>))
    /\ UNCHANGED <<replies, pos, cut>>

\* An InterruptionFrame ends the reply and drops what is held.
Interrupt ==
    /\ Streaming
    /\ stream' = [stream EXCEPT !.json = "over"]
    /\ filter' = Reset /\ cut' = cut \cup {This}
    /\ UNCHANGED <<replies, pos, out>>

\* Any other data frame, such as one of the model's thoughts.
OtherFrame ==
    /\ Streaming /\ This \notin cut
    /\ Released(Append(filter.held, Frame("other", <<>>)))
    /\ cut' = cut \cup {This}
    /\ UNCHANGED <<replies, pos, stream>>

Next == \/ NextReply \/ EndReply \/ Interrupt \/ OtherFrame
        \/ \E n \in 1..MaxTokens+2 : Delta(n)

Spec == Init /\ [][Next]_vars

-----------------------------------------------------------------------------
(* join_back_to_back_lines: the user lines an interrupted answer left in a *)
(* row.  A line is a sequence of segments, each a label or none and words. *)

Message(role, segments) == [role |-> role, segments |-> segments]
Labeled(m) == m.role = "user" /\ m.segments # <<>> /\ m.segments[1].label # "none"

LastLabel(segments) ==
    Last(SelectSeq(segments, LAMBDA s : s.label # "none")).label

Joined(previous, m) ==
    LET first == m.segments[1]
        text  == IF LastLabel(previous.segments) = first.label
                 THEN <<[first EXCEPT !.label = "none"]>> \o Tail(m.segments) ELSE m.segments
    IN Message("user", previous.segments \o text)

JoinBackToBack(messages) ==
    FoldLeft(LAMBDA out_, m :
               IF out_ # <<>> /\ Labeled(Last(out_)) /\ Labeled(m)
               THEN Append(Front(out_), Joined(Last(out_), m))
               ELSE Append(out_, m),
             <<>>, messages)

\* Who says each segment: the last label at or before it in its message.
SaidBy(m) ==
    [i \in DOMAIN m.segments |->
       LET labels == SelectSeq(SubSeq(m.segments, 1, i), LAMBDA s : s.label # "none")
       IN [who |-> IF labels = <<>> THEN "none" ELSE Last(labels).label, words |-> m.segments[i].words]]

Lines == {Message("assistant", <<>>)}
         \cup {Message("user", <<[label |-> l, words |-> 1]>>) : l \in Speakers \cup {"none"}}
         \cup {Message("user", <<[label |-> l, words |-> 2], [label |-> k, words |-> 3]>>) :
                 l, k \in Speakers}

-----------------------------------------------------------------------------
\* A reply flagged as not addressed before its first word is never spoken, and a
\* reply of dots alone reaches the TTS service only marked skip_tts, unless the
\* reply was cut by an interruption or another frame (SilentReplyFilter).
NotAddressed(r) ==
    LET flag == SelectInSeq(r, LAMBDA t : t = "not_addressed")
        word == SelectInSeq(r, LAMBDA t : t \in Text)
    IN flag # 0 /\ (word = 0 \/ flag < word)

SilenceUnspoken ==
    \A i \in DOMAIN out : out[i].kind = "text" /\ ~out[i].skip =>
      LET r == replies[out[i].reply] IN
        /\ NotAddressed(r) => IsDots(out[i].text)
        /\ NotAddressed(r) \/ ~Contains(r, "word") => out[i].reply \in cut

\* Holding keeps the order: a reply starts before its text and its end, and an older
\* reply never follows a newer one (process_frame and _release).
HeldInOrder ==
    \A i, j \in DOMAIN out : i < j =>
        /\ out[i].reply <= out[j].reply
        /\ out[i].reply = out[j].reply => out[j].kind # "start" /\ out[i].kind # "end"

\* Joining the lines of an interrupted turn changes nobody's words (all histories of
\* up to MaxLines lines, once).
JoinKeepsSpeakers ==
    replies = <<>> => \A h \in SeqOf(Lines, MaxLines) :
        FlattenSeq([i \in DOMAIN h |-> SaidBy(h[i])])
        = LET j == JoinBackToBack(h) IN FlattenSeq([i \in DOMAIN j |-> SaidBy(j[i])])

\* What the room hears and what the model reads are what was meant.
RepliesAsMeant == SilenceUnspoken /\ HeldInOrder /\ JoinKeepsSpeakers
=============================================================================
