--------------------------- MODULE FullDuplexClient ---------------------------
(***************************************************************************)
(* The two Full-Duplex-Bench clients (inference_rtvi.py and                *)
(* inference_realtime.py) on one sample.  For each of its files a client   *)
(* opens a session, streams the file in real time and, in the meantime,    *)
(* collects what the bot says, with the time at which each chunk is to be  *)
(* heard.  An interruption cuts what has been collected.  In the end the   *)
(* chunks are placed on the time line of the input and written.            *)
(*                                                                         *)
(* A chunk lasts one unit of time or more; two that come in the same unit  *)
(* come less than 50 ms apart.  `cuts' and `paced' are for the properties. *)
(***************************************************************************)
EXTENDS Integers, Sequences, FiniteSets, FiniteSetsExt, SequencesExt

CONSTANTS
  Duration, Silence,   \* of the input, and of the silence after it
  ResponseTimeout, IdleTimeout, MaxPostSend,
  MaxTime, MaxResponses, MaxChunks, Lengths  \* bounds on the server's speech

\* The input lasts some whole time, and a chunk at least one unit.
LengthsAssumption == Duration \in Nat /\ Silence \in Nat /\ Lengths \subseteq Nat \ {0}

VARIABLES
  mode,      \* the protocol, whether late output is kept, whether the intro is drained
  files,     \* of the sample: those to come, how many were processed and failed, the outcomes
  phase,     \* of the file: "next", "intro", "receive", "closed" (await send_task), "exit"
  now,       \* since the input began
  sender,    \* _send_audio: units sent, and "running", "done" or "failed"
  link,      \* "up" or "closed"
  response,  \* of the server: the number of the one it is speaking
  got,       \* the receiver's lists and times
  out,       \* the file written last: segments of responses
  cuts, paced
vars == <<mode, files, phase, now, sender, link, response, got, out, cuts, paced>>

Never == -1
Nothing == [chunks |-> <<>>, accept |-> TRUE, arrival |-> Never, sendDone |-> Never,
            lastAudio |-> Never]

(***************************************************************************)
(* Cutting and placing chunks.                                             *)
(***************************************************************************)
End(c) == c.at + c.length

\* _truncate_output_at
Kept(c, cutoff) == Min({c.length, Max({0, cutoff - c.at})})
Truncate(chunks, cutoff) ==
  LET cut == {i \in DOMAIN chunks : Kept(chunks[i], cutoff) < chunks[i].length}
      i   == Min(cut)
      n   == Kept(chunks[i], cutoff)
  IN IF cut = {} THEN chunks
     ELSE SubSeq(chunks, 1, i - 1) \o IF n = 0 THEN <<>> ELSE <<[chunks[i] EXCEPT !.length = n]>>

\* Where a chunk begins: after the one before it, if it is due up to one and a
\* half times its length later.
Start(c, expected) ==
  IF expected # Never /\ 2 * (c.at - expected) <= 3 * c.length THEN expected ELSE c.at

\* _packed_output_end: where each of the chunks ends.
Packed(chunks) ==
  LET ends[k \in 0..Len(chunks)] ==
        IF k = 0 THEN Never ELSE Start(chunks[k], ends[k - 1]) + chunks[k].length
  IN ends
PackedEnd(chunks) == Max({0} \cup {Packed(chunks)[k] : k \in DOMAIN chunks})

\* assemble_and_trim_output, assemble_output: the target's length, and what is in it.
Target(chunks) ==
  IF mode.late /\ chunks # <<>>
  THEN Max({Duration, PackedEnd(chunks)} \cup {End(c) : c \in ToSet(chunks)}) ELSE Duration
Place(acc, c, target) ==
  LET start == Start(c, acc.expected)
      end   == Min({target, start + c.length})
  IN IF acc.over \/ start >= target THEN [acc EXCEPT !.over = mode.proto = "rtvi"]
     ELSE [expected |-> end, over |-> FALSE,
           out |-> Append(acc.out, [start |-> start, end |-> end, of |-> c.of])]
Placed(chunks, target) ==
  LET placed[k \in 0..Len(chunks)] ==
        IF k = 0 THEN [expected |-> Never, over |-> FALSE, out |-> <<>>]
        ELSE Place(placed[k - 1], chunks[k], target)
  IN placed
Assemble(chunks) == Placed(chunks, Target(chunks))[Len(chunks)].out

(***************************************************************************)
(* A file.                                                                 *)
(***************************************************************************)

\* process_single_file, process_file: a session of its own, refused or opened.
NextFile ==
  /\ phase = "next" /\ files.left > 0
  /\ phase' = IF mode.intro THEN "intro" ELSE "receive"
  /\ now' = 0 /\ sender' = [sent |-> 0, at |-> "running"] /\ link' = "up"
  /\ response' = 0 /\ got' = Nothing
  /\ cuts' = {} /\ paced' = TRUE /\ out' = <<>>
  /\ UNCHANGED <<mode, files>>

\* process_directory: a failed file counts as processed with one protocol only.
FileOver(outcome) ==
  /\ files' = [files EXCEPT
       !.left = @ - 1, !.outcomes = Append(@, outcome),
       !.processed = @ + IF outcome = "written" \/ mode.proto = "realtime" THEN 1 ELSE 0,
       !.failed = @ + IF outcome = "failed" THEN 1 ELSE 0]
  /\ phase' = "next"

Refused ==
  /\ phase = "next" /\ files.left > 0
  /\ FileOver("failed") /\ out' = <<>> /\ cuts' = {} /\ paced' = TRUE
  /\ UNCHANGED <<mode, now, sender, link, response, got>>

\* _settle_send_task, and the error counts.
Fail == FileOver("failed") /\ UNCHANGED out

\* The sender's task has ended well: the output is assembled and written.
Write(chunks) == FileOver("written") /\ out' = Assemble(chunks)

\* The sample is over; with nothing processed it has failed.
SampleOver ==
  /\ phase = "next" /\ files.left = 0
  /\ phase' = "exit"
  /\ files' = [files EXCEPT !.failed = @ + IF files.processed = 0 THEN 1 ELSE 0]
  /\ UNCHANGED <<mode, now, sender, link, response, got, out, cuts, paced>>

\* _drain_bot_intro_audio discards what comes until one of its timeouts.
IntroDrained ==
  /\ phase = "intro" /\ phase' = "receive"
  /\ UNCHANGED <<mode, files, now, sender, link, response, got, out, cuts, paced>>

\* The sender keeps up with the clock.
Tick ==
  /\ phase \in {"receive", "closed"} /\ now < MaxTime
  /\ sender.at = "running" => sender.sent > now
  /\ now' = now + 1
  /\ UNCHANGED <<mode, files, phase, sender, link, response, got, out, cuts, paced>>

(***************************************************************************)
(* send_audio_stream, send_audio: at wall-clock speed.                     *)
(***************************************************************************)
SendChunk ==
  /\ phase \in {"receive", "closed"} /\ sender.at = "running"
  /\ sender.sent < Duration + Silence /\ sender.sent <= now
  /\ sender' \in {[sender EXCEPT !.at = "failed"]}
       \cup IF link = "up" THEN {[sender EXCEPT !.sent = @ + 1]} ELSE {}
  /\ UNCHANGED <<mode, files, phase, now, link, response, got, out, cuts, paced>>

SendDone ==
  /\ phase \in {"receive", "closed"} /\ sender.at = "running"
  /\ sender.sent = Duration + Silence /\ sender.sent <= now
  /\ sender' = [sender EXCEPT !.at = "done"]
  /\ UNCHANGED <<mode, files, phase, now, link, response, got, out, cuts, paced>>

(***************************************************************************)
(* receive_audio_stream, receive_audio: one turn of its loop.              *)
(***************************************************************************)
Over(g) ==
  \/ now >= g.sendDone + MaxPostSend
  \/ g.lastAudio = Never /\ now - g.sendDone >= ResponseTimeout
  \/ g.lastAudio # Never /\ now - g.lastAudio >= IdleTimeout

\* What every turn ends with: the deadlines, once the input has been sent.
EndOfTurn(g) ==
  LET h == IF g.sendDone = Never THEN [g EXCEPT !.sendDone = now] ELSE g
  IN CASE sender.at = "running" -> got' = g /\ UNCHANGED <<phase, files, out>>
       [] sender.at = "failed"  -> got' = g /\ Fail
       [] sender.at = "done"    -> /\ got' = h
                                   /\ IF Over(h) THEN Write(g.chunks)
                                      ELSE UNCHANGED <<phase, files, out>>

Receiving == phase = "receive" /\ link = "up"

PollTimesOut ==
  /\ Receiving /\ EndOfTurn(got)
  /\ UNCHANGED <<mode, now, sender, link, response, cuts, paced>>

\* "bot-started-speaking", "response.created": it comes before the response's audio.
BotStarted ==
  /\ Receiving /\ response < MaxResponses
  /\ response' = response + 1
  /\ EndOfTurn([got EXCEPT !.accept = TRUE])
  /\ UNCHANGED <<mode, now, sender, link, cuts, paced>>

\* An interruption, the user's speech, a cancelled response.
Interrupted ==
  /\ Receiving
  /\ cuts' = cuts \cup {[of |-> r, at |-> now] : r \in (0..response) \ {c.of : c \in cuts}}
  /\ EndOfTurn([got EXCEPT !.chunks = Truncate(@, now), !.accept = FALSE])
  /\ UNCHANGED <<mode, now, sender, link, response, paced>>

\* When the chunk is to be heard: a burst is played in a row.
Stamp ==
  IF got.chunks = <<>> \/ got.arrival # now THEN now ELSE End(Last(got.chunks))

\* Audio of the newest response; what was queued still comes when it was interrupted.
Audio(length) ==
  /\ Receiving /\ Len(got.chunks) < MaxChunks
  /\ IF ~got.accept THEN EndOfTurn(got) /\ UNCHANGED paced
     ELSE LET chunk == [at |-> Stamp, length |-> length, of |-> response]
          IN /\ paced' = (paced /\ (got.chunks # <<>> => chunk.at >= End(Last(got.chunks))))
             /\ EndOfTurn([got EXCEPT !.chunks = Append(@, chunk), !.arrival = now,
                                      !.lastAudio = IF sender.at = "done" THEN now ELSE @])
  /\ UNCHANGED <<mode, now, sender, link, response, cuts>>

ConnectionClosed ==
  /\ link = "up" /\ phase \in {"intro", "receive"} /\ link' = "closed"
  /\ phase' = "closed"
  /\ UNCHANGED <<mode, files, now, sender, response, got, out, cuts, paced>>

\* An "error" event raises in receive_event.
ServerError ==
  /\ Receiving /\ mode.proto = "realtime" /\ Fail
  /\ UNCHANGED <<mode, now, sender, link, response, got, cuts, paced>>

\* await send_task, after the connection is closed.
SenderAwaited ==
  /\ phase = "closed" /\ sender.at # "running"
  /\ IF sender.at = "done" THEN Write(got.chunks) ELSE Fail
  /\ UNCHANGED <<mode, now, sender, link, response, got, cuts, paced>>

Init ==
  /\ mode \in [proto : {"rtvi", "realtime"}, late : BOOLEAN, intro : BOOLEAN]
  /\ mode.intro => mode.proto = "rtvi"
  /\ \E n \in 0..2 : files = [left |-> n, processed |-> 0, failed |-> 0, outcomes |-> <<>>]
  /\ phase = "next" /\ now = 0 /\ sender = [sent |-> 0, at |-> "running"] /\ link = "up"
  /\ response = 0 /\ got = Nothing
  /\ out = <<>> /\ cuts = {} /\ paced = TRUE

Next ==
  \/ NextFile \/ Refused \/ SampleOver \/ IntroDrained \/ Tick
  \/ SendChunk \/ SendDone
  \/ PollTimesOut \/ BotStarted \/ Interrupted \/ \E length \in Lengths : Audio(length)
  \/ ServerError \/ ConnectionClosed \/ SenderAwaited

Spec == Init /\ [][Next]_vars

(***************************************************************************)
(* Properties.                                                             *)
(***************************************************************************)

\* assemble_output: chunks are written one after the other, none over another,
\* and with preserve_late_output none is cut: the end that _packed_output_end
\* computes and the placement of assemble_output agree.
PlacedApart ==
  /\ \A i, j \in DOMAIN out : i < j => out[i].end <= out[j].start
  /\ (phase = "next" /\ out # <<>> /\ mode.late) =>
       /\ Len(out) = Len(got.chunks)
       /\ \A i \in DOMAIN out : out[i].end - out[i].start = got.chunks[i].length

\* README.md:60 "discard queued response audio when the server reports that the
\* user has interrupted the response": nothing of the response is heard after
\* its interruption, if its chunks came no faster than they are played.
\* (_truncate_output_at cuts by the times of arrival, assemble_output places the
\* chunks one after the other: without `paced' this does not hold.)
SilentOnceInterrupted ==
  paced => \A i \in DOMAIN out, c \in cuts : out[i].of = c.of => out[i].end <= c.at

\* receive_audio, await send_task: a file is written only when the whole input
\* was sent, and main's exit code tells whether every file of the sample was.
WrittenIfSent ==
  /\ (phase = "next" /\ out # <<>>) => sender.at = "done" /\ sender.sent = Duration + Silence
  /\ phase = "exit" =>
       ((files.failed = 0) <=> (files.outcomes # <<>> /\ ToSet(files.outcomes) = {"written"}))

(***************************************************************************)
(* Why they hold.  What is collected of an interrupted response ends with  *)
(* the interruption, and nothing of it is accepted later; the file is      *)
(* empty until it is assembled.                                            *)
(***************************************************************************)
Chunk == [at : Nat, length : Nat \ {0}, of : Nat]
Segment == [start : Nat, end : Nat, of : Nat]
TypeOK ==
  /\ mode \in [proto : {"rtvi", "realtime"}, late : BOOLEAN, intro : BOOLEAN]
  /\ files \in [left : Nat, processed : Nat, failed : Nat, outcomes : Seq({"written", "failed"})]
  /\ phase \in {"next", "intro", "receive", "closed", "exit"} /\ now \in Nat
  /\ sender \in [sent : Nat, at : {"running", "done", "failed"}]
  /\ link \in {"up", "closed"} /\ response \in Nat
  /\ got \in [chunks : Seq(Chunk), accept : BOOLEAN, arrival : Int, sendDone : Int, lastAudio : Int]
  /\ out \in Seq(Segment) /\ cuts \subseteq [of : Nat, at : Nat] /\ paced \in BOOLEAN

InTurn(chunks) == \A k \in 2..Len(chunks) : End(chunks[k - 1]) <= chunks[k].at
EndOfCut(chunks) == \A k \in DOMAIN chunks, c \in cuts : chunks[k].of = c.of => End(chunks[k]) <= c.at
Collected ==
  phase \in {"intro", "receive", "closed"} =>
    /\ \A c \in cuts : c.of <= response /\ (got.accept => c.of # response)
    /\ EndOfCut(got.chunks)
    /\ paced => InTurn(got.chunks)
InputSent ==
  /\ sender.at = "done" => sender.sent = Duration + Silence
  /\ out # <<>> => phase \in {"next", "exit"} /\ sender.at = "done"
FilesCounted ==
  phase # "exit" =>
    /\ (files.failed = 0) <=> (\A i \in DOMAIN files.outcomes : files.outcomes[i] = "written")
    /\ files.processed = 0 => \A i \in DOMAIN files.outcomes : files.outcomes[i] # "written"
    /\ files.processed > 0 => files.outcomes # <<>>
    /\ phase # "next" => files.left > 0
Inv ==
  /\ TypeOK /\ PlacedApart /\ SilentOnceInterrupted /\ WrittenIfSent
  /\ Collected /\ InputSent /\ FilesCounted

===============================================================================
