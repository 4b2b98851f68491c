---- MODULE Speaker ----
(***************************************************************************)
(* The turns of the Speaker agent (subagents/speaker): the model answers   *)
(* with one JSON envelope, whose response field is spoken while it         *)
(* streams; the parsed envelope then owns one action, is corrected once    *)
(* when it is unsafe, and a reply that repeats a recent one is replaced by *)
(* a filler and handed to the Thinker.  A turn can be cut at every await.  *)
(* A reply is a model value; replies of one opening begin alike.           *)
(***************************************************************************)
EXTENDS Integers, Sequences, FiniteSets

CONSTANTS Long,       \* replies of at least _REPEAT_MIN_WORDS words, one opening
          Short,      \* shorter replies, of another opening
          Envelopes,  \* what the model may generate
          History,    \* _REPEAT_HISTORY
          Cooldown,   \* _CAPTURE_ESCALATION_COOLDOWN
          MaxTurns,   \* bound: turns
          None, Filler, Fallback

Actions == {"respond", "clarify", "think", "analyze_attachment", "capture_highres", None}
Replies == Long \cup Short \cup {Filler, Fallback, "upload first"}
Envelope == [action : Actions, first : BOOLEAN, reply : Replies \cup {None}, media : BOOLEAN,
             query : BOOLEAN, heard : BOOLEAN, cut : BOOLEAN]
EnvelopesAssumption == Envelopes \subseteq Envelope /\ Filler \notin Long /\ History \in Nat

VARIABLES
    guard,     \* RepeatGuard: _recent, _pending, detected, emitted
    cooldown,  \* _capture_cooldown
    upload,    \* an uploaded attachment is available
    turn,      \* the turn under way: where it is, its envelope, its flags
    said,      \* what it gave to TTS
    owned,     \* the work it dispatched, and the transcripts it reported
    count      \* turns begun

vars == <<guard, cooldown, upload, turn, said, owned, count>>

AlikeOpening(r, s) == (r \in Long) = (s \in Long)

(* An envelope: action is None when turn_action is missing or unknown, first
   says that it comes before response, and media and query that it carries
   arguments of an analysis or of a capture. *)
NoEnvelope == [action |-> None, first |-> FALSE, reply |-> None, media |-> FALSE,
               query |-> FALSE, heard |-> FALSE, cut |-> FALSE]
NoTurn == [at |-> "idle", env |-> NoEnvelope, audio |-> FALSE, agrees |-> FALSE,
           gated |-> FALSE, released |-> FALSE, corrected |-> FALSE]

Init ==
    /\ guard = [recent |-> <<>>, pending |-> None, detected |-> FALSE, emitted |-> FALSE]
    /\ cooldown = 0 /\ upload \in BOOLEAN
    /\ turn = NoTurn /\ said = <<>> /\ owned = [work |-> <<>>, heard |-> 0] /\ count = 0

Recent == {guard.recent[i] : i \in DOMAIN guard.recent}
IsRepeat(r) == r \in Long /\ r \in Recent
(* A bug: the opening is compared with whole replies. *)
CouldBeWholeRepeat(r) == r \in Short /\ r \in Recent
(* could_be_repeat_prefix, of the opening of a reply. *)
CouldBeRepeat(r) == \E s \in Recent : AlikeOpening(r, s)

(* reset(): only now is the reply of the turn before comparable. *)
KeepLast(s) == SubSeq(s, Len(s) - (IF Len(s) > History THEN History ELSE Len(s)) + 1, Len(s))
Reset(g) ==
    [recent |-> IF g.pending = None THEN g.recent ELSE KeepLast(Append(g.recent, g.pending)),
     pending |-> None, detected |-> FALSE, emitted |-> FALSE]

(* A turn begins, with the user's speech or on context alone.  transcript
   comes first, and is reported only when there was speech to hear. *)
Begin(e, audio, agrees) ==
    /\ turn.at = "idle" /\ count < MaxTurns
    /\ count' = count + 1
    /\ guard' = Reset(guard)
    /\ turn' = [NoTurn EXCEPT !.at = IF e.reply = None THEN "ended" ELSE "opening",
                              !.env = e, !.audio = audio, !.agrees = agrees]
    /\ said' = <<>>
    /\ owned' = [work |-> <<>>, heard |-> IF e.heard /\ audio THEN 1 ELSE 0]
    /\ UNCHANGED <<cooldown, upload>>

(* The first delta of response decides whether it may stream at all. *)
Opening ==
    /\ turn.at = "opening"
    /\ LET gated == ~(turn.env.first /\ turn.env.action # None)
           goes == ~gated /\ ~CouldBeRepeat(turn.env.reply)
       IN  turn' = [turn EXCEPT !.at = IF turn.env.cut THEN "ended" ELSE "closing",
                                !.gated = gated, !.released = goes]
    /\ UNCHANGED <<guard, cooldown, upload, said, owned, count>>

(* bridge_filler replaces a repeat when nothing was emitted before it. *)
Bridge(r) == IsRepeat(r) /\ ~guard.emitted

(* The closing quote: what was held back goes out, unless it is a repeat. *)
Closing ==
    /\ turn.at = "closing"
    /\ turn' = [turn EXCEPT !.at = "ended", !.released = ~turn.gated]
    /\ \/ turn.gated /\ UNCHANGED <<said, guard>>
       \/ /\ ~turn.gated /\ ~turn.released /\ Bridge(turn.env.reply)
          /\ said' = <<Filler>>
          /\ guard' = [guard EXCEPT !.detected = TRUE, !.emitted = TRUE]
       \/ /\ ~turn.gated /\ (turn.released \/ ~Bridge(turn.env.reply))
          /\ said' = <<turn.env.reply>>
          /\ UNCHANGED guard
    /\ UNCHANGED <<cooldown, upload, owned, count>>

(* normalize_action_envelope: a missing action is inferred from the arguments,
   and one that contradicts them, or has nothing to say, is unsafe. *)
Inferred(e) ==
    (IF e.media THEN {"analyze_attachment"} ELSE {})
        \cup (IF e.query THEN {"capture_highres"} ELSE {})
Normalized(e) ==
    LET named == e.action # None
        inferred == IF Cardinality(Inferred(e)) = 1 THEN CHOOSE a \in Inferred(e) : TRUE
                    ELSE IF Inferred(e) = {} /\ e.reply # None THEN "respond" ELSE None
        action == IF named THEN e.action ELSE inferred
        unsafe == \/ action = None
                  \/ Inferred(e) \ {action} # {}
                  \/ action # "capture_highres" /\ e.reply = None
                  \/ action = "capture_highres" /\ ~e.query /\ ~e.heard
    IN  [unsafe |-> unsafe, recovered |-> ~named, action |-> IF unsafe THEN "think" ELSE action]

(* _parse_turn_result: a cut envelope is no JSON, speech nobody said is
   dropped, and an analysis of no upload asks for one. *)
Parsed(e, audio) ==
    LET p == IF e.cut THEN NoEnvelope ELSE [e EXCEPT !.heard = e.heard /\ audio]
        n == Normalized(p)
        missing == n.action = "analyze_attachment" /\ ~upload
    IN  [unsafe |-> n.unsafe, recovered |-> n.recovered, heard |-> p.heard,
         action |-> IF missing THEN "clarify" ELSE n.action,
         reply |-> IF n.unsafe THEN None ELSE IF missing THEN "upload first" ELSE p.reply]
Streamed == turn.released \/ said # <<>>
Result == Parsed(turn.env, turn.audio)

(* _maybe_escalate_thinking: never beside other work, and not for a repeat
   that only follows up what was just seen or agreed to. *)
Escalates(r, repeated, busy) ==
    /\ ~busy /\ r.heard
    /\ \/ r.action = "think"
       \/ repeated /\ cooldown = 0 /\ ~turn.agrees

(* _handle_turn_result, and the report of a transcript not yet reported.
   The handler of an analysis or a capture may fail; a capture keeps its
   follow-ups from the Thinker. *)
Work(r) == IF r.action \in {"analyze_attachment", "capture_highres"} THEN {r.action} ELSE {}
Handle(r, track, repeated) ==
    \E done \in SUBSET Work(r) :
        /\ owned' = [work |-> (IF done = {} THEN <<>> ELSE <<r.action>>) \o
                              (IF Escalates(r, repeated, done # {}) THEN <<"think">> ELSE <<>>),
                     heard |-> IF owned.heard = 0 /\ r.heard THEN 1 ELSE owned.heard]
        /\ cooldown' = IF r.action = "capture_highres" THEN Cooldown - 1
                       ELSE IF cooldown > 0 THEN cooldown - 1 ELSE 0
        /\ guard' = [guard EXCEPT !.emitted = @ \/ Streamed, !.pending = IF track THEN r.reply ELSE None]

(* _stream_action_envelope after the stream, with _resolve_turn. *)
Resolve ==
    /\ turn.at = "ended"
    /\ \/ /\ ~Result.unsafe
          /\ Handle(Result, TRUE, guard.detected)
          /\ turn' = [turn EXCEPT !.at = IF Streamed THEN "idle" ELSE "speak", !.env.reply = Result.reply]
       \/ /\ Result.unsafe
          /\ turn' = [turn EXCEPT !.at = "correct"]
          /\ guard' = [guard EXCEPT !.emitted = @ \/ Streamed]
          /\ UNCHANGED <<owned, cooldown>>
    /\ UNCHANGED <<upload, said, count>>

(* _attempt_action_correction: one regeneration, which must be safe as it is
   and may not think; else the Thinker takes the turn. *)
Corrects(c) == ~c.unsafe /\ ~c.recovered /\ c.action # "think"
Correct(e) ==
    /\ turn.at = "correct"
    /\ LET c == Parsed(e, turn.audio)
           final == IF Corrects(c) THEN c ELSE [Result EXCEPT !.reply = Fallback]
       IN  /\ Handle(final, Corrects(c), guard.detected)
           /\ turn' = [turn EXCEPT !.at = "speak", !.env.reply = final.reply, !.corrected = TRUE]
    /\ UNCHANGED <<upload, said, count>>

(* _speak_response. *)
Speak ==
    /\ turn.at = "speak"
    /\ turn' = [turn EXCEPT !.at = "idle"]
    /\ \/ turn.env.reply = None /\ UNCHANGED <<said, guard>>
       \/ /\ turn.env.reply # None /\ Bridge(turn.env.reply)
          /\ said' = Append(said, Filler)
          /\ guard' = [guard EXCEPT !.detected = TRUE, !.emitted = TRUE]
       \/ /\ turn.env.reply # None /\ ~Bridge(turn.env.reply)
          /\ said' = Append(said, turn.env.reply)
          /\ guard' = [guard EXCEPT !.emitted = TRUE]
    /\ UNCHANGED <<cooldown, upload, owned, count>>

(* An interruption cancels the turn where it waits. *)
Interrupted ==
    /\ turn.at # "idle"
    /\ turn' = NoTurn
    /\ UNCHANGED <<guard, cooldown, upload, said, owned, count>>

Attach ==
    /\ ~upload /\ upload' = TRUE
    /\ UNCHANGED <<guard, cooldown, turn, said, owned, count>>

Next ==
    \/ Opening \/ Closing \/ Resolve \/ Speak \/ Interrupted \/ Attach
    \/ \E e \in Envelopes, audio \in BOOLEAN, agrees \in BOOLEAN : Begin(e, audio, agrees)
    \/ \E e \in Envelopes : Correct(e)
Spec == Init /\ [][Next]_vars

(* No reply the user recently heard is spoken again word for word, streamed
   or resolved, over turns that were cut or corrected: RepeatGuard.  Only the
   correction of a turn whose first reply streamed, to its end or until it was
   cut, is past bridging. *)
RepeatsAreBridged ==
    \A i \in DOMAIN said : IsRepeat(said[i]) =>
        turn.corrected /\ turn.released /\ (i = 2 \/ turn.env.cut)

(* A turn starts one piece of work and reports the user once, even when it
   was corrected or a handler failed: turn_action alone declares ownership
   (action_envelope.py:99). *)
OneOwner == Len(owned.work) <= 1 /\ owned.heard <= 1

(* What they rest on: where the turn is tells what it may have said. *)
TypeOK ==
    /\ guard \in [recent : Seq(Replies), pending : Replies \cup {None}, detected : BOOLEAN, emitted : BOOLEAN]
    /\ turn \in [at : {"idle", "opening", "closing", "ended", "correct", "speak"}, env : Envelope,
                 audio : BOOLEAN, agrees : BOOLEAN, gated : BOOLEAN, released : BOOLEAN,
                 corrected : BOOLEAN]
    /\ said \in Seq(Replies)
    /\ owned \in [work : Seq({"analyze_attachment", "capture_highres", "think"}), heard : 0..1]
SaidSoFar ==
    /\ turn.at \in {"opening", "closing"} =>
        turn.env.reply # None /\ said = <<>> /\ ~guard.emitted /\ ~turn.corrected
    /\ turn.at = "closing" /\ turn.released => ~CouldBeRepeat(turn.env.reply)
    /\ turn.at \in {"ended", "correct", "speak"} =>
        /\ Len(said) <= 1 /\ (said # <<>> => turn.released)
        /\ \A i \in DOMAIN said : ~IsRepeat(said[i])
        /\ guard.emitted => turn.released
        /\ turn.released => said # <<>> \/ turn.env.cut
        /\ turn.at = "speak" /\ ~turn.corrected => said = <<>> /\ ~guard.emitted

Inv == TypeOK /\ SaidSoFar /\ RepeatsAreBridged /\ OneOwner
====
