---------------------------- MODULE Diarization ----------------------------
(***************************************************************************)
(* Speaker diarization of examples/shared/speaker/transcript.py.  A        *)
(* processor between the ASR and the user aggregator splits every final    *)
(* result into speaker runs.  It records them as the fragments of the turn *)
(* (what the browser shows) and pushes them on as text, prefixed with      *)
(* "Speaker N:" where the speaker changes (what the LLM reads).  The two   *)
(* views part at a queue: the aggregator may close the turn while a final  *)
(* already recorded here still waits to be aggregated.                     *)
(*                                                                         *)
(* A word is a number, in the order spoken.  A speaker is the number given *)
(* to its tag at first appearance, counted from 1, and Nobody is an        *)
(* untagged run.                                                           *)
(***************************************************************************)
EXTENDS Naturals, Sequences, SequencesExt

CONSTANTS Tags, NoTag,   \* the ASR's speaker tags, and a word without one
          MaxWords, MaxPerResult, MaxCloses

ResultsAssumption == MaxPerResult \in Nat

Nobody == 0

VARIABLES multi,     \* multi_speaker_support of this session
          spoken,    \* words the ASR has finalized
          processor, \* the fields of SpeakerDiarizationProcessor
          queue,     \* pieces of text on their way to the user aggregator
          message,   \* the pieces of the open user turn in the aggregator
          shown,     \* what user-turn-finalized told the browser
          closed     \* the turn_id of every finalized turn, in order

vars == <<multi, spoken, processor, queue, message, shown, closed>>

Fresh == [turn |-> 0, primary |-> Nobody, last |-> Nobody, lastFinal |-> Nobody,
          hasFinal |-> FALSE, fragments |-> <<>>, cuttable |-> FALSE,
          previous |-> Nobody, numbers |-> <<>>]

Init == /\ multi \in BOOLEAN /\ spoken = 0 /\ processor = Fresh
        /\ queue = <<>> /\ message = <<>> /\ shown = {} /\ closed = <<>>

-----------------------------------------------------------------------------
Run(who, words) == [who |-> who, words |-> words]

\* The last run goes on with more words.
Extended(runs, words) == [runs EXCEPT ![Len(runs)] = Run(@.who, @.words \o words)]

\* split_transcript_by_speaker: an untagged word stays in the run it follows.
Heard(runs, w) ==
    IF runs # <<>> /\ (w.tag = NoTag \/ w.tag = Last(runs).who)
    THEN Extended(runs, <<w.id>>) ELSE Append(runs, Run(w.tag, <<w.id>>))
Split(words) ==
    LET runs[i \in 0..Len(words)] == IF i = 0 THEN <<>> ELSE Heard(runs[i - 1], words[i])
    IN runs[Len(words)]

\* _number_speakers: tags are numbered by first appearance.
Known(ns, tag) == IF tag = NoTag \/ Contains(ns, tag) THEN ns ELSE Append(ns, tag)
Numbers(known, runs) ==
    LET ns[i \in 0..Len(runs)] == IF i = 0 THEN known ELSE Known(ns[i - 1], runs[i].who)
    IN ns[Len(runs)]

Numbered(runs, numbers) ==
    [i \in DOMAIN runs |->
        Run(IF runs[i].who = NoTag THEN Nobody
            ELSE CHOOSE n \in DOMAIN numbers : numbers[n] = runs[i].who,
            runs[i].words)]

\* Neighbouring runs of one speaker become one run.
Merged(out, r) ==
    IF out # <<>> /\ Last(out).who = r.who THEN Extended(out, r.words) ELSE Append(out, r)
Grouped(runs) ==
    LET out[i \in 0..Len(runs)] == IF i = 0 THEN <<>> ELSE Merged(out[i - 1], runs[i])
    IN out[Len(runs)]

\* The speaker of the first tagged run, of the last one.
Named(runs) == {i \in DOMAIN runs : runs[i].who # Nobody}
FirstNamed(runs) == IF Named(runs) = {} THEN Nobody ELSE runs[Min(Named(runs))].who
LastNamed(runs, otherwise) == IF Named(runs) = {} THEN otherwise ELSE runs[Max(Named(runs))].who

WithoutFirst(runs) ==
    (IF Len(runs[1].words) = 1 THEN <<>> ELSE <<Run(runs[1].who, Tail(runs[1].words))>>) \o Tail(runs)

\* reassign_first_word: the second half of a cut word belongs to who said the first.
Reassigned(runs, who) == Grouped(<<Run(who, <<Head(runs[1].words)>>)>> \o WithoutFirst(runs))

-----------------------------------------------------------------------------
\* _start_transcript_turn, on the first accepted final of a turn.
TurnStarted(p) ==
    IF p.fragments # <<>> THEN p
    ELSE [p EXCEPT !.turn = @ + 1, !.last = Nobody, !.lastFinal = Nobody, !.hasFinal = FALSE]

\* The fragments of a final; the half of a cut word is joined to the last one.
Recorded(p, runs, glue) ==
    LET joins == glue /\ p.fragments # <<>> /\ Last(p.fragments).who = runs[1].who
        kept  == IF joins THEN Extended(p.fragments, <<Head(runs[1].words)>>) ELSE p.fragments
        added == IF joins THEN WithoutFirst(runs) ELSE runs
    IN [p EXCEPT !.fragments = kept \o added, !.last = LastNamed(added, @)]

\* Variant for sensitivity: the run is compared with the last fragment's speaker.
StartsRunOfLast(p, who) == ~p.hasFinal \/ (who # Nobody /\ who # p.last)

\* _prefix_final_for_llm: whether the text of a run starts with "Speaker N:".
StartsRun(p, who) == ~p.hasFinal \/ (who # Nobody /\ who # p.lastFinal)

Prefixed(p, run, glued) ==
    [who   |-> IF multi /\ StartsRun(p, run.who) THEN run.who ELSE Nobody,
     words |-> run.words, glued |-> glued]

Pushed(p, who) ==
    IF ~multi THEN p
    ELSE [p EXCEPT !.hasFinal = TRUE, !.lastFinal = IF who # Nobody THEN who ELSE @]

\* One copied frame per run with several speakers, else the frame itself.
Copied(sent, run, glued) ==
    [p |-> Pushed(sent.p, run.who), out |-> Append(sent.out, Prefixed(sent.p, run, glued))]
Texts(p, runs, glue) ==
    IF multi
    THEN LET sent[i \in 0..Len(runs)] ==
                 IF i = 0 THEN [p |-> p, out |-> <<>>]
                 ELSE Copied(sent[i - 1], runs[i], glue /\ i = 1)
         IN sent[Len(runs)]
    ELSE [p |-> p, out |-> <<[who |-> Nobody, glued |-> glue,
                              words |-> FlattenSeq([i \in DOMAIN runs |-> runs[i].words])]>>]

\* Single-speaker isolation: only the primary speaker's runs pass.
Passed(kept, r, primary) == IF r.who = primary THEN Append(kept, r) ELSE kept
Accepted(runs, primary) ==
    IF multi \/ primary = Nobody THEN runs
    ELSE LET kept[i \in 0..Len(runs)] ==
                 IF i = 0 THEN <<>> ELSE Passed(kept[i - 1], runs[i], primary)
         IN kept[Len(runs)]

\* The joined piece was not filtered out, nor was the word it completes.
GluesFirst(continues, runs, who) == continues /\ runs # <<>> /\ runs[1].who = who

\* process_frame of a final transcription.  `timed`: the result has words
\* with times; `joined`: no leading space and at most a second's gap.
Final(words, timed, joined) ==
    LET n      == Len(words)
        heard  == Split([i \in 1..n |-> [tag |-> words[i], id |-> spoken + i]])
        nums   == Numbers(processor.numbers, heard)
        runs   == Numbered(heard, nums)
        cont   == timed /\ joined /\ processor.cuttable
        owned  == IF cont THEN Reassigned(runs, processor.previous) ELSE runs
        prim   == IF processor.primary = Nobody THEN FirstNamed(owned) ELSE processor.primary
        kept   == Accepted(owned, prim)
        p      == [processor EXCEPT !.numbers = nums, !.cuttable = timed,
                                    !.previous = Last(owned).who, !.primary = prim]
        glue   == GluesFirst(cont, kept, processor.previous)
        texts  == Texts(Recorded(TurnStarted(p), kept, glue), kept, glue)
    IN /\ spoken + n <= MaxWords
       /\ spoken' = spoken + n
       /\ IF kept = <<>> THEN processor' = p /\ UNCHANGED queue
                         ELSE processor' = texts.p /\ queue' = queue \o texts.out
       /\ UNCHANGED <<multi, message, shown, closed>>

FinalResult ==
    \/ \E n \in 1..MaxPerResult, joined \in BOOLEAN :
         \E words \in [1..n -> Tags \cup {NoTag}] : Final(words, TRUE, joined)
    \/ Final(<<NoTag>>, FALSE, FALSE)

\* An interim numbers the speakers it names and is otherwise only passed on.
InterimResult ==
    \E t \in Tags :
      /\ ~Contains(processor.numbers, t)
      /\ processor' = [processor EXCEPT !.numbers = Append(@, t)]
      /\ UNCHANGED <<multi, spoken, queue, message, shown, closed>>

\* A turn started by its first transcript must not forget that transcript.
UserStartedSpeaking ==
    /\ processor.fragments = <<>>
    /\ processor' = [processor EXCEPT !.last = Nobody, !.lastFinal = Nobody, !.hasFinal = FALSE]
    /\ UNCHANGED <<multi, spoken, queue, message, shown, closed>>

\* The user aggregator takes the next text of its queue into the open turn.
Aggregate ==
    /\ queue # <<>>
    /\ queue' = Tail(queue) /\ message' = Append(message, Head(queue))
    /\ UNCHANGED <<multi, spoken, processor, shown, closed>>

Content == FlattenSeq([i \in DOMAIN message |-> message[i].words])

\* finalize_speaker_runs: the aggregator's text when there is one run.
Finalized(runs, who, transcript) ==
    CASE runs = <<>> -> IF transcript = <<>> THEN <<>> ELSE <<Run(who, transcript)>>
      [] Len(runs) = 1 -> <<Run(IF runs[1].who = Nobody THEN who ELSE runs[1].who,
                                IF transcript = <<>> THEN runs[1].words ELSE transcript)>>
      [] OTHER -> runs

\* A second close of a labeled turn is recognised by the prefix in its text.
Echo == processor.fragments = <<>> /\ multi /\ message # <<>> /\ Head(message).who # Nobody

\* A close without fragments is a turn of its own.
ClosedTurn == IF processor.fragments = <<>> THEN processor.turn + 1 ELSE processor.turn

\* The aggregator stops the user turn; finalized_turn_payloads tells the browser.
CloseTurn ==
    LET runs == Finalized(Grouped(processor.fragments), processor.last,
                          IF multi THEN <<>> ELSE Content)
        told == IF runs = <<>> THEN <<Run(Nobody, Content)>> ELSE runs
        took == [processor EXCEPT !.fragments = <<>>, !.cuttable = FALSE, !.previous = Nobody]
    IN /\ Len(closed) < MaxCloses
       /\ message' = <<>>
       /\ IF Echo
          THEN processor' = took /\ UNCHANGED <<shown, closed>>
          ELSE /\ processor' = [took EXCEPT !.turn = ClosedTurn]
               /\ closed' = Append(closed, ClosedTurn)
               /\ shown' = shown \cup UNION {{[word |-> w, who |-> told[i].who] :
                                               w \in Range(told[i].words)} : i \in DOMAIN told}
       /\ UNCHANGED <<multi, spoken, queue>>

Next == FinalResult \/ InterimResult \/ UserStartedSpeaking \/ Aggregate \/ CloseTurn

Spec == Init /\ [][Next]_vars

-----------------------------------------------------------------------------
\* The speaker the LLM reads text i under: the last prefix.
ReadIn(texts, i) == LastNamed(SubSeq(texts, 1, i), Nobody)
ReadAs(i) == ReadIn(message, i)

Told == shown \cup UNION {{[word |-> w, who |-> processor.fragments[i].who] :
                            w \in Range(processor.fragments[i].words)} : i \in DOMAIN processor.fragments}

\* What the LLM reads under "Speaker N:" the browser shows as speaker N's or as
\* nobody's, however finals, cut words, turn starts and closes interleave with the
\* queue to the aggregator (process_frame, _prefix_final_for_llm).
SpeakersAgree ==
    multi => \A i \in DOMAIN message : \A t \in Told :
               (t.word \in Range(message[i].words) /\ ReadAs(i) # Nobody) => t.who \in {ReadAs(i), Nobody}

\* A piece written without a space completes the word spoken just before it, never
\* a word of a speaker who was filtered out in between (glue_first).
OnlyCutWordsGlued ==
    \A i \in 2..Len(message) : message[i].glued => Last(message[i-1].words) + 1 = Head(message[i].words)

\* The browser and the LLM agree on who said what and where words are cut.
TranscriptsAgree == SpeakersAgree /\ OnlyCutWordsGlued

\* A finalized turn never reuses the turn_id of another, and the live progress of
\* a turn never goes on under an id already finalized (the close without fragments
\* in finalized_turn_payloads).
FreshTurnIds ==
    /\ IsInjective(closed)
    /\ processor.fragments # <<>> => ~Contains(closed, processor.turn)

-----------------------------------------------------------------------------
\* What the properties rest on.  Sent: the texts of the open turn and those that
\* still wait to be aggregated into it.
Sent == message \o queue

Words == Seq(Nat) \ {<<>>}
Runs == [who : Nat, words : Words]
TypeOK ==
    /\ multi \in BOOLEAN /\ spoken \in Nat
    /\ processor \in [turn : Nat, primary : Nat, last : Nat, lastFinal : Nat, hasFinal : BOOLEAN,
                      fragments : Seq(Runs), cuttable : BOOLEAN, previous : Nat, numbers : Seq(Tags)]
    /\ message \in Seq([who : Nat, words : Words, glued : BOOLEAN])
    /\ queue \in Seq([who : Nat, words : Words, glued : BOOLEAN])
    /\ shown \subseteq [word : Nat, who : Nat] /\ closed \in Seq(Nat)

NoWordBeforeSpoken ==
    /\ \A t \in Told : t.word <= spoken
    /\ \A i \in DOMAIN Sent : \A w \in Range(Sent[i].words) : w <= spoken

\* A text that waits will be read under the last prefix before it, or, if the turn
\* closes in between, under none.
SentAgree ==
    multi => \A i \in DOMAIN Sent : \A t \in Told :
               (t.word \in Range(Sent[i].words) /\ ReadIn(Sent, i) # Nobody) =>
                   t.who \in {ReadIn(Sent, i), Nobody}
LastPrefix ==
    (multi /\ processor.lastFinal # Nobody) => LastNamed(Sent, Nobody) \in {processor.lastFinal, Nobody}

\* After a final that passed, the last word sent is the last one spoken.
LastWordSent ==
    (processor.cuttable /\ Sent # <<>> /\ (multi \/ processor.primary \in {Nobody, processor.previous})) =>
        Last(Last(Sent).words) = spoken
SentGlued ==
    \A i \in 2..Len(Sent) : Sent[i].glued => Last(Sent[i-1].words) + 1 = Head(Sent[i].words)

LastOfTurn ==
    (processor.fragments # <<>> /\ Named(processor.fragments) = {}) => processor.last = Nobody
ClosedInOrder ==
    /\ \A i, j \in DOMAIN closed : i < j => closed[i] < closed[j]
    /\ \A i \in DOMAIN closed : /\ closed[i] <= processor.turn
                                /\ processor.fragments # <<>> => closed[i] < processor.turn

Inv == TypeOK /\ NoWordBeforeSpoken /\ SentAgree /\ LastPrefix /\ LastWordSent /\ SentGlued
       /\ LastOfTurn /\ ClosedInOrder

=============================================================================
