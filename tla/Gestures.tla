------------------------------ MODULE Gestures ------------------------------
(***************************************************************************)
(* ProactiveGestureController of the omni_assistant_subagents example: the *)
(* gesture scored in each accepted webcam frame is turned, conservatively, *)
(* into an action of the assistant.  Time is a clock that moves by itself; *)
(* who speaks is up to the conversation.  `frames' records the frames that *)
(* mattered: one without a gesture, a thumb awaiting confirmation, an act. *)
(***************************************************************************)
EXTENDS Integers, Sequences

CONSTANTS
  Cooldown, ResumeWindow,  \* _COOLDOWN_SECONDS, _RESUME_WINDOW_SECONDS
  MaxTime, MaxFrames       \* bounds of the clock and of the record of frames

TimeAssumption ==
  {Cooldown, ResumeWindow, MaxTime, MaxFrames} \subseteq Nat \ {0}

VARIABLES
  now,
  speaking,        \* who is
  lastIntent,
  candidate,       \* the intent awaiting confirmation, and its sightings
  lastActionAt, lastInterruptedAt,
  frames           \* intent, outcome, and the time of an act

vars == <<now, speaking, lastIntent, candidate, lastActionAt, lastInterruptedAt, frames>>

Gestures == {"greet", "stop", "continue", "down"}
NoCandidate == [intent |-> "none", count |-> 0]
Never == -(Cooldown + ResumeWindow + MaxTime)
Confirmations(intent) == IF intent \in {"continue", "down"} THEN 2 ELSE 1

Tick ==
  /\ now < MaxTime /\ now' = now + 1
  /\ UNCHANGED <<speaking, lastIntent, candidate, lastActionAt, lastInterruptedAt, frames>>

\* on_user_voice_turn_started, on_assistant_speaking_started and their ends.
Speak ==
  /\ speaking' \in SUBSET {"user", "assistant"} \ {speaking}
  /\ UNCHANGED <<now, lastIntent, candidate, lastActionAt, lastInterruptedAt, frames>>

(***************************************************************************)
(* handle.                                                                 *)
(***************************************************************************)
Record(intent, outcome, at) ==
  /\ Len(frames) < MaxFrames
  /\ frames' = Append(frames, [intent |-> intent, outcome |-> outcome, at |-> at])

NoGesture ==
  /\ Record("none", "none", 0)
  /\ lastIntent' = "none" /\ candidate' = NoCandidate
  /\ UNCHANGED <<now, speaking, lastActionAt, lastInterruptedAt>>

\* The gesture is held, or it is within the cooldown.
TooSoon(intent) ==
  \/ intent = lastIntent
  \/ intent # "stop" /\ now - lastActionAt < Cooldown

Gated(intent) ==
  /\ TooSoon(intent)
  /\ UNCHANGED vars

Unsure(intent) ==
  /\ ~TooSoon(intent)
  /\ candidate' = NoCandidate
  /\ UNCHANGED <<now, speaking, lastIntent, lastActionAt, lastInterruptedAt, frames>>

Sightings(intent) == IF candidate.intent = intent THEN candidate.count + 1 ELSE 1

AwaitConfirmation(intent) ==
  /\ ~TooSoon(intent)
  /\ Sightings(intent) < Confirmations(intent)
  /\ Record(intent, "seen", 0)
  /\ candidate' = [intent |-> intent, count |-> Sightings(intent)]
  /\ UNCHANGED <<now, speaking, lastIntent, lastActionAt, lastInterruptedAt>>

\* A stop needs the assistant speaking; the others need nobody to.
InContext(intent) ==
  IF intent = "stop" THEN "assistant" \in speaking ELSE speaking = {}

OutOfContext(intent) ==
  /\ ~TooSoon(intent)
  /\ Sightings(intent) >= Confirmations(intent)
  /\ ~InContext(intent)
  /\ candidate' = NoCandidate
  /\ UNCHANGED <<now, speaking, lastIntent, lastActionAt, lastInterruptedAt, frames>>

Resumes(intent) == intent = "continue" /\ now - lastInterruptedAt <= ResumeWindow

ActKeepingInterruption(intent) ==
  /\ ~TooSoon(intent)
  /\ Sightings(intent) >= Confirmations(intent)
  /\ InContext(intent)
  /\ Record(intent, IF Resumes(intent) THEN "resumed" ELSE "acted", now)
  /\ lastIntent' = intent /\ candidate' = NoCandidate
  /\ lastActionAt' = now
  /\ lastInterruptedAt' = IF intent = "stop" THEN now ELSE lastInterruptedAt
  /\ UNCHANGED <<now, speaking>>

\* _on_greet, _on_stop, _on_continue, _on_down: the action, and handle's end.
Act(intent) ==
  /\ ~TooSoon(intent)
  /\ Sightings(intent) >= Confirmations(intent)
  /\ InContext(intent)
  /\ Record(intent, IF Resumes(intent) THEN "resumed" ELSE "acted", now)
  /\ lastIntent' = intent /\ candidate' = NoCandidate
  /\ lastActionAt' = now
  /\ lastInterruptedAt' = IF intent = "stop" THEN now
                          ELSE IF Resumes(intent) THEN Never ELSE lastInterruptedAt
  /\ UNCHANGED <<now, speaking>>

Handle ==
  \/ NoGesture
  \/ \E intent \in Gestures :
       \/ Gated(intent) \/ Unsure(intent) \/ AwaitConfirmation(intent)
       \/ OutOfContext(intent) \/ Act(intent)

Init ==
  /\ now = 0 /\ speaking = {}
  /\ lastIntent = "none" /\ candidate = NoCandidate
  /\ lastActionAt = Never /\ lastInterruptedAt = Never
  /\ frames = <<>>

Next == Tick \/ Speak \/ Handle

Spec == Init /\ [][Next]_vars

(***************************************************************************)
(* Properties.                                                             *)
(***************************************************************************)
Acts == {i \in DOMAIN frames : frames[i].outcome \in {"acted", "resumed"}}
Between(i, j) == (i+1)..(j-1)

\* The clock, the candidate and the frames keep their types.
TypeOK ==
  /\ now \in 0..MaxTime /\ speaking \subseteq {"user", "assistant"}
  /\ lastIntent \in Gestures \cup {"none"}
  /\ candidate \in [intent : {"continue", "down"}, count : {1}] \cup {NoCandidate}
  /\ lastActionAt \in 0..now \cup {Never} /\ lastInterruptedAt \in 0..now \cup {Never}
  /\ frames \in Seq([intent : Gestures \cup {"none"},
                     outcome : {"none", "seen", "acted", "resumed"}, at : 0..now])

\* "act only on a FRESH gesture, never every frame it is held": a gesture acts
\* again only after a frame without one, or after another gesture has acted.
FreshGesture ==
  \A i, j \in Acts :
    i < j /\ frames[i].intent = frames[j].intent =>
      \E k \in Between(i, j) :
        frames[k].intent = "none" \/ (k \in Acts /\ frames[k].intent # frames[j].intent)

\* _GESTURE_CONFIRMATIONS: a thumb acts on its second clear sighting; the first
\* is lost to a frame without a gesture or to any action.
ThumbConfirmed ==
  \A j \in Acts : frames[j].intent \in {"continue", "down"} =>
    \E i \in 1..(j-1) :
      /\ frames[i].intent = frames[j].intent /\ frames[i].outcome = "seen"
      /\ \A k \in Between(i, j) : frames[k].intent # "none" /\ k \notin Acts

\* "treat a thumbs-up as resume only if a barge-in happened recently": each
\* resume has a barge-in of its own, at most the window ago.
ResumesOncePerBargeIn ==
  \A j \in Acts : frames[j].outcome = "resumed" =>
    \E i \in Acts :
      /\ i < j /\ frames[i].intent = "stop"
      /\ frames[j].at - frames[i].at <= ResumeWindow
      /\ \A k \in Between(i, j) : frames[k].outcome # "resumed"

\* What they rest on: last_intent is that of the last frame without a gesture or
\* with an action, the candidate was seen since, and a barge-in not resumed yet
\* was acted on at last_interrupted_at.
After(i) == (i+1)..Len(frames)
Fresh(k) == frames[k].intent = "none" \/ k \in Acts
LastIntentOfFrames ==
  /\ lastIntent # "none" =>
       \E i \in Acts : frames[i].intent = lastIntent /\ \A k \in After(i) : ~Fresh(k)
  /\ lastIntent = "none" =>
       \A i \in Acts : \E k \in After(i) : frames[k].intent = "none"
CandidateSeen ==
  candidate # NoCandidate =>
    \E i \in DOMAIN frames :
      /\ frames[i].intent = candidate.intent /\ frames[i].outcome = "seen"
      /\ \A k \in After(i) : ~Fresh(k)
BargeInLeft ==
  lastInterruptedAt # Never =>
    \E i \in Acts :
      /\ frames[i].intent = "stop" /\ frames[i].at = lastInterruptedAt
      /\ \A k \in After(i) : frames[k].outcome # "resumed"

Inv ==
  /\ TypeOK /\ LastIntentOfFrames /\ CandidateSeen /\ BargeInLeft
  /\ FreshGesture /\ ThumbConfirmed /\ ResumesOncePerBargeIn

=============================================================================
