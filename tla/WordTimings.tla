---- MODULE WordTimings ----
(***************************************************************************)
(* Word timestamps of the WordTTS path (shared/nvidia_word_tts.py).  The   *)
(* synthesiser reports the words of each sentence, counted from the start  *)
(* of the sentence, of the stream, or again with all words before them, or *)
(* as the durations of the older interface; what is committed to the       *)
(* conversation must be each word once, at its time in the stream.         *)
(***************************************************************************)
EXTENDS Integers, Sequences

CONSTANTS Sentences,  \* sequences of [word, dur]: what may be said
          MaxWords    \* bound: words of a stream

SaidWords == UNION {{s[i] : i \in DOMAIN s} : s \in Sentences}
SentencesAssumption == Sentences \subseteq Seq(SaidWords) /\ \A w \in SaidWords : w.dur \in Nat \ {0}

VARIABLES mode,      \* how this synthesiser reports
          speech,    \* the words said so far
          accepted,  \* state.accepted: [word, start, end]
          clear      \* no batch so far could be read two ways
vars == <<mode, speech, accepted, clear>>

Init ==
    /\ mode \in {"incremental", "absolute", "cumulative", "durations"}
    /\ speech = <<>> /\ accepted = <<>> /\ clear = TRUE

(* Words one after the other from a start: word_times_from_magpie_meta with
   timed_words_from_pairs, whose words end where the next one starts. *)
Lasts(words) ==
    LET sum[i \in 0..Len(words)] == IF i = 0 THEN 0 ELSE sum[i - 1] + words[i].dur
    IN  sum
Timed(words, start) ==
    [i \in DOMAIN words |-> [word |-> words[i].word, start |-> start + Lasts(words)[i - 1],
                             end |-> start + Lasts(words)[i]]]

Reported(s) ==
    CASE mode \in {"incremental", "durations"} -> Timed(s, 0)
      [] mode = "absolute" -> Timed(s, Lasts(speech)[Len(speech)])
      [] mode = "cumulative" -> Timed(speech \o s, 0)

(* new_words_from_meta_batch: at least two known words with their times make
   a batch cumulative; any other batch that restarts near zero is moved
   behind the last word. *)
Begins(batch, known) == Len(known) <= Len(batch) /\ SubSeq(batch, 1, Len(known)) = known
Moved(batch, by) ==
    [i \in DOMAIN batch |-> [batch[i] EXCEPT !.start = @ + by, !.end = @ + by]]
NewWords(batch, known) ==
    IF Len(known) >= 2 /\ Begins(batch, known) THEN SubSeq(batch, Len(known) + 1, Len(batch))
    ELSE IF known # <<>> /\ batch[1].start = 0 THEN Moved(batch, known[Len(known)].end)
    ELSE batch

(* A cumulative batch behind a single word reads as a new sentence, and a
   sentence that begins like the whole speech reads as a cumulative one. *)
Ambiguous(batch) ==
    IF mode = "cumulative" THEN Len(accepted) = 1
    ELSE Len(accepted) >= 2 /\ Begins(batch, accepted)

(* _maybe_emit_meta_timestamps; a cumulative report may also be repeated. *)
Report(s) ==
    LET batch == Reported(s)
    IN  /\ clear /\ batch # <<>> /\ Len(speech \o s) <= MaxWords
        /\ speech' = speech \o s
        /\ accepted' = accepted \o NewWords(batch, accepted)
        /\ clear' = (clear /\ ~Ambiguous(batch))
        /\ UNCHANGED mode

Next ==
    \/ \E s \in Sentences : Report(s)
    \/ mode = "cumulative" /\ Report(<<>>)
Spec == Init /\ [][Next]_vars

(* Each word said is committed once, in order and at its time in the whole
   stream, whichever way the synthesiser counts: the docstring of
   new_words_from_meta_batch, repeated words and sentences included. *)
EachWordOnce == clear => accepted = Timed(speech, 0)
Inv ==
    /\ mode \in {"incremental", "absolute", "cumulative", "durations"}
    /\ speech \in Seq(SaidWords) /\ clear \in BOOLEAN /\ EachWordOnce
====
