--------------------------- MODULE RealtimeUserTurn ---------------------------
(***************************************************************************)
(* The user's turns on one Realtime websocket session: the user half of    *)
(* ConversationState, the observer's handlers of speaking and              *)
(* transcription frames, and the client's input_audio_buffer messages.     *)
(*                                                                         *)
(* Only the observer task touches the user item, one frame at a time, and  *)
(* a handler reads the sample clock once, before its first emit; so a      *)
(* frame is one step.  The client task advances the clock between frames.  *)
(* Transcripts are told apart by the VAD turn whose speech they transcribe.*)
(***************************************************************************)
EXTENDS Integers, Sequences, FiniteSets

CONSTANTS
  MaxTurns,   \* VAD turns
  MaxClock,   \* appended audio chunks, the unit of the sample clock
  MaxFinals   \* final transcripts the ASR delivers per turn

BoundsAssumption == {MaxTurns, MaxClock, MaxFinals} \subseteq Nat

VARIABLES
  user,        \* the ConversationState fields of the user item
  clock,       \* input_audio_samples
  uncommitted, \* _bytes_since_commit > 0
  speaking,    \* the pipeline's VAD has the user speaking
  turns,       \* VAD turns so far
  finals,      \* final transcripts delivered, by turn
  wire         \* by user item: the <<event, value>> pairs sent about it

vars == <<user, clock, uncommitted, speaking, turns, finals, wire>>

None == -1
Turns == 1..MaxTurns

(***************************************************************************)
(* ConversationState.                                                      *)
(***************************************************************************)
NewUser == [minted |-> 0, id |-> 0, start |-> None, end |-> None,
            stopped |-> FALSE, announced |-> FALSE, pending |-> None]

ClearItem(u) == [NewUser EXCEPT !.minted = u.minted]

BeginItem(u) ==
  IF u.id # 0 THEN u ELSE [u EXCEPT !.minted = @ + 1, !.id = u.minted + 1]

BeginTurnReusing(u) ==
  LET b == BeginItem(u)
  IN IF b.start # None /\ ~b.stopped THEN b
     ELSE [b EXCEPT !.start = clock, !.end = None, !.stopped = FALSE,
                    !.announced = FALSE, !.pending = None]

BeginTurn(u) ==
  LET b == BeginItem(IF u.stopped THEN ClearItem(u) ELSE u)
  IN IF b.start # None THEN b
     ELSE [b EXCEPT !.start = clock, !.end = None, !.stopped = FALSE,
                    !.announced = FALSE, !.pending = None]

StopTurn(u) == [BeginItem(u) EXCEPT !.end = clock, !.stopped = TRUE]

SetTranscript(u, turn) == [BeginItem(u) EXCEPT !.pending = turn]

Ready(u) == u.stopped /\ u.pending # None

(***************************************************************************)
(* The observer's emits.                                                   *)
(***************************************************************************)
Send(u, events) ==
  wire' = [i \in 1..u.minted |->
             (IF i \in DOMAIN wire THEN wire[i] ELSE <<>>) \o (IF i = u.id THEN events ELSE <<>>)]

\* Whether the item has had an event.
Sent(i, e) == \E k \in DOMAIN wire[i] : wire[i][k][1] = e

Created(u) == IF u.announced THEN <<>> ELSE << <<"created", 0>> >>

\* _emit_user_item_if_needed, if due, and _emit_user_transcript_if_ready after
\* the events the handler sent first.
FinishFrame(u, first, due) ==
  \/ /\ ~Ready(u)
     /\ user' = [u EXCEPT !.announced = @ \/ due]
     /\ Send(u, first \o (IF due THEN Created(u) ELSE <<>>))
  \/ /\ Ready(u)
     /\ user' = ClearItem(u)
     /\ Send(u, first \o Created(u) \o << <<"completed", u.pending>> >>)

(***************************************************************************)
(* The client task.                                                        *)
(***************************************************************************)
\* A rejected or empty chunk changes nothing.
AppendAudio ==
  /\ clock < MaxClock
  /\ clock' = clock + 1
  /\ uncommitted' = TRUE
  /\ UNCHANGED <<user, speaking, turns, finals, wire>>

\* An accepted commit only resets the count; without audio it is an error.
CommitAudio ==
  /\ uncommitted
  /\ uncommitted' = FALSE
  /\ UNCHANGED <<user, clock, speaking, turns, finals, wire>>

\* Audio already streamed to the VAD is not withdrawn: the clock goes on.
ClearAudio ==
  /\ uncommitted' = FALSE
  /\ UNCHANGED <<user, clock, speaking, turns, finals, wire>>

(***************************************************************************)
(* The observer task: one frame.                                           *)
(***************************************************************************)
\* The pipeline's turn strategies alternate the two speaking frames.
UserStartedSpeaking ==
  /\ ~speaking /\ turns < MaxTurns
  /\ speaking' = TRUE /\ turns' = turns + 1
  /\ LET u == BeginTurn(user)
     IN user' = u /\ Send(u, << <<"speech_started", u.start>> >>)
  /\ UNCHANGED <<clock, uncommitted, finals>>

UserStoppedSpeaking ==
  /\ speaking
  /\ speaking' = FALSE
  /\ LET u == StopTurn(user)
     IN FinishFrame(u, << <<"speech_stopped", u.end>>, <<"committed", 0>> >>, TRUE)
  /\ UNCHANGED <<clock, uncommitted, turns, finals>>

\* Each interim delta is alike; one per item stands for them all.
InterimTranscription ==
  /\ user.start # None /\ ~user.stopped
  /\ ~Sent(user.id, "delta")
  /\ Send(user, << <<"delta", 0>> >>)
  /\ UNCHANGED <<user, clock, uncommitted, speaking, turns, finals>>

\* A final transcript of turn k may come during the turn or any time later.
Transcription(k) ==
  /\ k \in 1..turns /\ finals[k] < MaxFinals
  /\ finals' = [finals EXCEPT ![k] = @ + 1]
  /\ FinishFrame(SetTranscript(user, k), <<>>, FALSE)
  /\ UNCHANGED <<clock, uncommitted, speaking, turns>>

Init ==
  /\ user = NewUser
  /\ clock = 0 /\ uncommitted = FALSE
  /\ speaking = FALSE /\ turns = 0
  /\ finals = [k \in Turns |-> 0]
  /\ wire = <<>>

Next ==
  \/ AppendAudio \/ CommitAudio \/ ClearAudio
  \/ UserStartedSpeaking \/ UserStoppedSpeaking \/ InterimTranscription
  \/ \E k \in Turns : Transcription(k)

Spec == Init /\ [][Next]_vars

(***************************************************************************)
(* Properties.                                                             *)
(***************************************************************************)
Item == DOMAIN wire

Names == {"speech_started", "delta", "speech_stopped", "committed", "created", "completed"}

\* The fields of the user item keep their types.
TypeOK ==
  /\ user \in [minted : Nat, id : Nat, start : Nat \cup {None}, end : Nat \cup {None},
               stopped : BOOLEAN, announced : BOOLEAN, pending : Turns \cup {None}]
  /\ clock \in 0..MaxClock /\ turns \in 0..MaxTurns
  /\ uncommitted \in BOOLEAN /\ speaking \in BOOLEAN
  /\ finals \in [Turns -> 0..MaxFinals]
  /\ wire \in [1..user.minted -> Seq(Names \X Nat)]

\* The events of an item but for its interim delta, which comes second.
Order == <<"speech_started", "speech_stopped", "committed", "created", "completed">>
Heard(i) == Len(wire[i]) >= 2 /\ wire[i][2][1] = "delta"
Events(i) == IF Heard(i) THEN Len(wire[i]) - 1 ELSE Len(wire[i])

\* The observer's user frames: an item gets its five events once and in order,
\* however late or often its transcripts come; interim deltas fall in its turn.
ItemOrder ==
  \A i \in Item :
    /\ Events(i) <= 5
    /\ \A k \in DOMAIN wire[i] :
         wire[i][k][1] = IF Heard(i) /\ k = 2 THEN "delta"
                         ELSE Order[IF Heard(i) /\ k > 2 THEN k - 1 ELSE k]

\* begin_user_turn: each VAD turn gets an item of its own.
ItemPerTurn == Cardinality({i \in Item : Sent(i, "speech_started")}) = turns

\* The sample clock: a turn ends no earlier than it starts, and the next one
\* starts no earlier than that.
TurnsDisjoint ==
  \A i, j \in Item : \A m \in DOMAIN wire[i], n \in DOMAIN wire[j] :
    wire[i][m][1] = "speech_stopped" /\ wire[j][n][1] = "speech_started" =>
      /\ i = j => wire[j][n][2] <= wire[i][m][2]
      /\ i < j => wire[i][m][2] <= wire[j][n][2]

\* The inductive invariant: how far the user item is, what has been sent of it
\* and of those before it, and that nothing was stamped with a later clock.
ItemStage ==
  /\ user.id \in {0, user.minted}
  /\ user.id = 0 => user = ClearItem(user)
  /\ speaking <=> user.start # None /\ ~user.stopped
  /\ user.stopped => user.start # None /\ user.pending = None
  /\ user.announced = user.stopped
EventsSent ==
  \A i \in Item :
    IF i # user.id THEN Events(i) \in {4, 5}
    ELSE Events(i) = IF user.start = None THEN 0 ELSE IF user.stopped THEN 4 ELSE 1
StampedByNow ==
  \A i \in Item : \A k \in DOMAIN wire[i] :
    wire[i][k][1] \in {"speech_started", "speech_stopped"} => wire[i][k][2] <= clock
Inv ==
  /\ TypeOK /\ ItemStage /\ EventsSent /\ StampedByNow
  /\ ItemOrder /\ ItemPerTurn /\ TurnsDisjoint
=============================================================================
