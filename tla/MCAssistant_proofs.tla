-------------------------- MODULE MCAssistant_proofs --------------------------
(***************************************************************************)
(* What TLAPS proves of the components of MCAssistant, for every number of *)
(* questions, interruptions, attachments, captures, jobs, frames and       *)
(* turns, and whatever the Speaker's model generates.  Each component has  *)
(* an inductive invariant, Inv; Init establishes it, each action preserves *)
(* it, and steps of the other components leave it alone.                   *)
(***************************************************************************)
EXTENDS MCAssistant, FiniteSetTheorems, SequenceTheorems, WellFoundedInduction, TLAPS

LEMMA SeqGrows == ASSUME NEW S, NEW T, S \subseteq T, NEW q \in Seq(S) PROVE q \in Seq(T)
OBVIOUS

LEMMA Appended == ASSUME NEW S, NEW q \in Seq(S), NEW e \in S
  PROVE  /\ Append(q, e) \in Seq(S) /\ Len(Append(q, e)) = Len(q) + 1
         /\ DOMAIN Append(q, e) = DOMAIN q \cup {Len(q) + 1}
         /\ Len(q) + 1 \notin DOMAIN q /\ DOMAIN q = 1..Len(q) /\ Len(q) \in Nat
         /\ \A i \in DOMAIN q : Append(q, e)[i] = q[i]
         /\ Append(q, e)[Len(q) + 1] = e
OBVIOUS

LEMMA Replaced == ASSUME NEW S, NEW q \in Seq(S), NEW e \in S, NEW i \in DOMAIN q
  PROVE  /\ [q EXCEPT ![i] = e] \in Seq(S) /\ DOMAIN [q EXCEPT ![i] = e] = DOMAIN q
         /\ [q EXCEPT ![i] = e][i] = e
         /\ \A j \in DOMAIN q \ {i} : [q EXCEPT ![i] = e][j] = q[j]
OBVIOUS

(***************************************************************************)
(* Gestures.                                                               *)
(***************************************************************************)
Frame(n) == [intent : Gesture!Gestures \cup {"none"},
             outcome : {"none", "seen", "acted", "resumed"}, at : 0..n]

LEMMA GestureInit == Gesture!Init => Gesture!Inv
<1> SUFFICES ASSUME Gesture!Init PROVE Gesture!Inv
  OBVIOUS
<1>1. Gesture!TypeOK
  BY AssistantAssumption DEF AssistantAssumption, Gesture!TimeAssumption, Gesture!Init, Gesture!TypeOK
<1>2. DOMAIN v7 = {}
  BY DEF Gesture!Init
<1> QED
  BY <1>1, <1>2 DEF Gesture!Init, Gesture!Inv, Gesture!Acts, Gesture!LastIntentOfFrames, Gesture!CandidateSeen,
     Gesture!BargeInLeft, Gesture!FreshGesture, Gesture!ThumbConfirmed, Gesture!ResumesOncePerBargeIn

\* A step that records nothing leaves the intent and the barge-in as they were,
\* and may lose the candidate.
LEMMA UnrecordedKeepsInv ==
  ASSUME Gesture!Inv, v7' = v7, v3' = v3, v6' = v6, v4' \in {v4, Gesture!NoCandidate},
         Gesture!TypeOK'
  PROVE  Gesture!Inv'
<1>1. Gesture!CandidateSeen'
  BY DEF Gesture!Inv, Gesture!CandidateSeen, Gesture!After, Gesture!Fresh, Gesture!Acts, Gesture!NoCandidate
<1>2. Gesture!LastIntentOfFrames' /\ Gesture!BargeInLeft'
  BY DEF Gesture!Inv, Gesture!LastIntentOfFrames, Gesture!BargeInLeft, Gesture!After, Gesture!Fresh,
         Gesture!Acts, Gesture!Never
<1>3. Gesture!FreshGesture' /\ Gesture!ThumbConfirmed' /\ Gesture!ResumesOncePerBargeIn'
  BY DEF Gesture!Inv, Gesture!FreshGesture, Gesture!ThumbConfirmed, Gesture!ResumesOncePerBargeIn,
         Gesture!Acts, Gesture!Between
<1> QED
  BY <1>1, <1>2, <1>3 DEF Gesture!Inv

LEMMA TickKeepsInv == Gesture!Inv /\ Gesture!Tick => Gesture!Inv'
<1> SUFFICES ASSUME Gesture!Inv, Gesture!Tick PROVE Gesture!Inv'
  OBVIOUS
<1>1. v1 \in Nat /\ v1' \in 0..MaxTime /\ v7' = v7 /\ 0..v1 \subseteq 0..v1'
  BY AssistantAssumption DEF AssistantAssumption, Gesture!TimeAssumption, Gesture!Tick, Gesture!Inv, Gesture!TypeOK
<1>2. v7 \in Seq(Frame(v1)) /\ Frame(v1) \subseteq Frame(v1')
  BY <1>1 DEF Gesture!Inv, Gesture!TypeOK, Frame
<1>3. v7' \in Seq(Frame(v1'))
  BY <1>1, <1>2, SeqGrows
<1>4. Gesture!TypeOK'
  BY <1>1, <1>3 DEF Gesture!TypeOK, Frame, Gesture!Inv, Gesture!Tick, Gesture!Never, Gesture!NoCandidate
<1> QED
  BY <1>4, UnrecordedKeepsInv DEF Gesture!Tick

LEMMA QuietKeepsInv ==
  Gesture!Inv /\ (Gesture!Speak \/ \E intent \in Gesture!Gestures :
                    Gesture!Gated(intent) \/ Gesture!Unsure(intent) \/ Gesture!OutOfContext(intent))
  => Gesture!Inv'
<1> SUFFICES ASSUME Gesture!Inv, NEW intent \in Gesture!Gestures,
                    Gesture!Speak \/ Gesture!Gated(intent) \/ Gesture!Unsure(intent)
                      \/ Gesture!OutOfContext(intent)
             PROVE  Gesture!Inv'
  BY DEF Gesture!Gestures
<1>1. /\ v1' = v1 /\ v7' = v7 /\ v3' = v3 /\ v5' = v5 /\ v6' = v6 /\ v4' \in {v4, Gesture!NoCandidate}
      /\ v2' = v2 \/ v2' \in SUBSET {"user", "assistant"}
  BY DEF Gesture!Speak, Gesture!Gated, Gesture!Unsure, Gesture!OutOfContext, Gesture!vars
<1>2. Gesture!TypeOK'
  BY <1>1 DEF Gesture!Inv, Gesture!TypeOK, Gesture!Never, Gesture!NoCandidate
<1> QED
  BY <1>1, <1>2, UnrecordedKeepsInv

\* The frames of before keep their places; the n-th, the recorded one, comes
\* after them.
LEMMA Recorded ==
  ASSUME Gesture!TypeOK, NEW e \in Frame(v1), v7' = Append(v7, e), NEW n, n = Len(v7) + 1
  PROVE  /\ v7' \in Seq(Frame(v1)) /\ n \in Nat \ {0} /\ Len(v7) = n - 1 /\ Len(v7') = n
         /\ DOMAIN v7 = 1..(n - 1) /\ DOMAIN v7' = 1..n
         /\ \A i \in 1..(n - 1) : v7'[i] = v7[i]
         /\ v7'[n] = e
<1>1. v7 \in Seq(Frame(v1))
  BY DEF Gesture!TypeOK, Frame
<1>2. /\ v7' \in Seq(Frame(v1)) /\ Len(v7') = Len(v7) + 1
      /\ DOMAIN v7 = 1..Len(v7) /\ Len(v7) \in Nat
      /\ \A i \in DOMAIN v7 : v7'[i] = v7[i]
      /\ v7'[Len(v7) + 1] = e
  BY <1>1, Appended
<1>3. DOMAIN v7' = 1..Len(v7')
  BY <1>2
<1> QED
  BY <1>2, <1>3

Marks(e) == e.intent = "none" \/ e.outcome \in {"acted", "resumed"}

LEMMA RecordedSets ==
  ASSUME Gesture!TypeOK, NEW e \in Frame(v1), v7' = Append(v7, e), NEW n, n = Len(v7) + 1
  PROVE  /\ Gesture!Acts' = IF e.outcome \in {"acted", "resumed"} THEN Gesture!Acts \cup {n} ELSE Gesture!Acts
         /\ Gesture!Acts \subseteq 1..(n - 1)
         /\ \A i \in 1..(n - 1) : Gesture!After(i)' = Gesture!After(i) \cup {n}
         /\ Gesture!After(n)' = {}
         /\ \A i \in 1..(n - 1) : Gesture!After(i) = Gesture!Between(i, n)
         /\ \A i \in 1..(n - 1) : Gesture!After(i) \subseteq 1..(n - 1)
         /\ \A k \in 1..(n - 1) : Gesture!Fresh(k)' <=> Gesture!Fresh(k)
         /\ Gesture!Fresh(n)' <=> Marks(e)
<1>1. /\ n \in Nat \ {0} /\ Len(v7) = n - 1 /\ Len(v7') = n
      /\ DOMAIN v7 = 1..(n - 1) /\ DOMAIN v7' = 1..n
      /\ \A i \in 1..(n - 1) : v7'[i] = v7[i]
      /\ v7'[n] = e
  BY Recorded, Zenon
<1>2. Gesture!Acts' = IF e.outcome \in {"acted", "resumed"} THEN Gesture!Acts \cup {n} ELSE Gesture!Acts
  BY <1>1 DEF Gesture!Acts
<1>3. Gesture!Acts \subseteq 1..(n - 1)
  BY <1>1 DEF Gesture!Acts
<1>4. /\ \A i \in 1..(n - 1) : Gesture!After(i)' = Gesture!After(i) \cup {n}
      /\ Gesture!After(n)' = {}
      /\ \A i \in 1..(n - 1) : Gesture!After(i) = Gesture!Between(i, n)
      /\ \A i \in 1..(n - 1) : Gesture!After(i) \subseteq 1..(n - 1)
  BY <1>1 DEF Gesture!After, Gesture!Between
<1>5. \A k \in 1..(n - 1) : Gesture!Fresh(k)' <=> Gesture!Fresh(k)
  BY <1>1, <1>2, <1>3 DEF Gesture!Fresh
<1>6. Gesture!Fresh(n)' <=> Marks(e)
  BY <1>1, <1>2, <1>3 DEF Gesture!Fresh, Marks
<1> QED
  BY <1>2, <1>3, <1>4, <1>5, <1>6

\* What handle records.
LEMMA WhatIsRecorded ==
  ASSUME Gesture!TypeOK, NEW intent \in Gesture!Gestures \cup {"none"},
         NEW outcome \in {"none", "seen", "acted", "resumed"}, NEW at \in {0, v1},
         Gesture!Record(intent, outcome, at)
  PROVE  \E e \in Frame(v1) :
           /\ v7' = Append(v7, e) /\ e.intent = intent /\ e.outcome = outcome /\ e.at = at
           /\ (Marks(e) <=> intent = "none" \/ outcome \in {"acted", "resumed"})
<1>1. [intent |-> intent, outcome |-> outcome, at |-> at] \in Frame(v1)
  BY AssistantAssumption DEF AssistantAssumption, Gesture!TimeAssumption, Frame, Gesture!TypeOK
<1> QED
  BY <1>1 DEF Gesture!Record, Marks

\* A frame that is no act keeps what holds of the acts.
LEMMA NoActKeepsActs ==
  ASSUME NEW e \in Frame(v1), Gesture!Inv, e.outcome \in {"none", "seen"}, v7' = Append(v7, e), v6' = v6
  PROVE  Gesture!FreshGesture' /\ Gesture!ThumbConfirmed' /\ Gesture!ResumesOncePerBargeIn' /\ Gesture!BargeInLeft'
<1>1. Gesture!TypeOK
  BY DEF Gesture!Inv
<1>2. PICK n : n = Len(v7) + 1
  OBVIOUS
<1>3. /\ n - 1 = Len(v7) /\ n \in Nat /\ DOMAIN v7' = 1..n
      /\ \A i \in 1..(n - 1) : v7'[i] = v7[i]
      /\ v7'[n] = e
      /\ Gesture!Acts' = Gesture!Acts /\ Gesture!Acts \subseteq 1..(n - 1) /\ DOMAIN v7 = 1..(n - 1)
      /\ \A i \in 1..(n - 1) : Gesture!After(i)' = Gesture!After(i) \cup {n}
  BY <1>1, <1>2, Recorded, RecordedSets
<1>4. \A i, j \in 1..(n - 1) : Gesture!Between(i, j) \subseteq 1..(n - 1)
  BY <1>3 DEF Gesture!Between
<1>5. Gesture!FreshGesture'
  BY <1>3, <1>4 DEF Gesture!Inv, Gesture!FreshGesture
<1>6. Gesture!ThumbConfirmed'
  BY <1>3, <1>4 DEF Gesture!Inv, Gesture!ThumbConfirmed
<1>7. Gesture!ResumesOncePerBargeIn'
  BY <1>3, <1>4 DEF Gesture!Inv, Gesture!ResumesOncePerBargeIn
<1>8. Gesture!BargeInLeft'
  <2> SUFFICES ASSUME v6 # Gesture!Never PROVE Gesture!BargeInLeft'
    BY DEF Gesture!BargeInLeft, Gesture!Never
  <2>1. PICK i \in Gesture!Acts : /\ v7[i].intent = "stop" /\ v7[i].at = v6
                                  /\ \A k \in Gesture!After(i) : v7[k].outcome # "resumed"
    BY DEF Gesture!Inv, Gesture!BargeInLeft
  <2>2. \A k \in Gesture!After(i)' : v7'[k].outcome # "resumed"
    BY <1>3, <2>1 DEF Gesture!After
  <2> QED
    BY <1>3, <2>1, <2>2 DEF Gesture!BargeInLeft
<1> QED
  BY <1>5, <1>6, <1>7, <1>8

LEMMA NoGestureKeepsInv == Gesture!Inv /\ Gesture!NoGesture => Gesture!Inv'
<1> SUFFICES ASSUME Gesture!Inv, Gesture!NoGesture PROVE Gesture!Inv'
  OBVIOUS
<1>0. PICK e \in Frame(v1) : v7' = Append(v7, e) /\ e.intent = "none" /\ e.outcome = "none"
  BY WhatIsRecorded DEF Gesture!Inv, Gesture!NoGesture
<1>1. PICK n : n = Len(v7) + 1
  OBVIOUS
<1>2. Gesture!TypeOK'
  BY <1>0, <1>1, Recorded DEF Gesture!Inv, Gesture!TypeOK, Gesture!NoGesture, Frame, Gesture!Never, Gesture!NoCandidate
<1>3. Gesture!LastIntentOfFrames'
  <2>1. ASSUME NEW i \in Gesture!Acts' PROVE \E k \in Gesture!After(i)' : v7'[k].intent = "none"
    <3>1. i \in 1..(n - 1) /\ n \in Gesture!After(i)' /\ v7'[n].intent = "none"
      BY <1>0, <1>1, <2>1, Recorded, RecordedSets DEF Gesture!Inv
    <3> QED
      BY <3>1
  <2> QED
    BY <2>1 DEF Gesture!LastIntentOfFrames, Gesture!NoGesture
<1>4. Gesture!CandidateSeen'
  BY DEF Gesture!CandidateSeen, Gesture!NoGesture, Gesture!NoCandidate
<1> QED
  BY <1>0, <1>2, <1>3, <1>4, NoActKeepsActs DEF Gesture!Inv, Gesture!NoGesture

LEMMA AwaitKeepsInv ==
  ASSUME Gesture!Inv, NEW intent \in Gesture!Gestures, Gesture!AwaitConfirmation(intent)
  PROVE  Gesture!Inv'
<1>1. PICK e \in Frame(v1) : v7' = Append(v7, e) /\ e.intent = intent /\ e.outcome = "seen" /\ ~Marks(e)
  BY WhatIsRecorded DEF Gesture!Inv, Gesture!AwaitConfirmation, Gesture!Gestures
<1>2. v4' = [intent |-> intent, count |-> 1] /\ intent \in {"continue", "down"}
  BY DEF Gesture!Inv, Gesture!AwaitConfirmation, Gesture!Sightings, Gesture!Confirmations, Gesture!TypeOK,
         Gesture!NoCandidate
<1>3. PICK n : n = Len(v7) + 1
  OBVIOUS
<1>4. Gesture!TypeOK'
  BY <1>1, <1>2, <1>3, Recorded
     DEF Gesture!Inv, Gesture!TypeOK, Gesture!AwaitConfirmation, Frame, Gesture!Never, Gesture!NoCandidate
<1>5. /\ n \in Nat /\ n - 1 = Len(v7) /\ n \in DOMAIN v7' /\ v7'[n].intent = intent /\ v7'[n].outcome = "seen"
      /\ \A i \in 1..(n - 1) : v7'[i] = v7[i]
      /\ Gesture!Acts' = Gesture!Acts /\ Gesture!Acts \subseteq 1..(n - 1)
      /\ \A i \in 1..(n - 1) : Gesture!After(i)' = Gesture!After(i) \cup {n}
      /\ \A i \in 1..(n - 1) : Gesture!After(i) \subseteq 1..(n - 1)
      /\ Gesture!After(n)' = {}
      /\ \A k \in 1..(n - 1) : Gesture!Fresh(k)' <=> Gesture!Fresh(k)
      /\ ~Gesture!Fresh(n)'
  BY <1>1, <1>3, Recorded, RecordedSets DEF Gesture!Inv
<1>6. Gesture!CandidateSeen'
  BY <1>2, <1>5 DEF Gesture!CandidateSeen
<1>7. Gesture!LastIntentOfFrames'
  <2>1. v3' = v3
    BY DEF Gesture!AwaitConfirmation
  <2>2. ASSUME v3 # "none"
        PROVE  \E i \in Gesture!Acts' : v7'[i].intent = v3 /\ \A k \in Gesture!After(i)' : ~Gesture!Fresh(k)'
    <3>1. PICK i \in Gesture!Acts : v7[i].intent = v3 /\ \A k \in Gesture!After(i) : ~Gesture!Fresh(k)
      BY <2>2 DEF Gesture!Inv, Gesture!LastIntentOfFrames
    <3> QED
      BY <1>5, <3>1, Zenon
  <2>3. ASSUME v3 = "none", NEW i \in Gesture!Acts'
        PROVE  \E k \in Gesture!After(i)' : v7'[k].intent = "none"
    <3>1. PICK k \in Gesture!After(i) : v7[k].intent = "none"
      BY <1>5, <2>3 DEF Gesture!Inv, Gesture!LastIntentOfFrames
    <3> QED
      BY <1>5, <3>1, Zenon
  <2> QED
    BY <2>1, <2>2, <2>3 DEF Gesture!LastIntentOfFrames
<1> QED
  BY <1>1, <1>4, <1>6, <1>7, NoActKeepsActs DEF Gesture!Inv, Gesture!AwaitConfirmation

LEMMA ActKeepsInv ==
  ASSUME Gesture!Inv, NEW intent \in Gesture!Gestures, Gesture!Act(intent)
  PROVE  Gesture!Inv'
<1> DEFINE outcome == IF Gesture!Resumes(intent) THEN "resumed" ELSE "acted"
<1>0. v1 \in Nat /\ Gesture!TypeOK /\ outcome \in {"acted", "resumed"}
  BY AssistantAssumption DEF AssistantAssumption, Gesture!TimeAssumption, Gesture!Inv, Gesture!TypeOK
<1>1. PICK e \in Frame(v1) :
         v7' = Append(v7, e) /\ e.intent = intent /\ e.outcome = outcome /\ e.at = v1 /\ Marks(e)
  BY <1>0, WhatIsRecorded DEF Gesture!Act
<1>2. PICK n : n = Len(v7) + 1
  OBVIOUS
<1>12. Gesture!TypeOK'
  BY <1>0, <1>1, <1>2, Recorded DEF Gesture!TypeOK, Gesture!Act, Frame, Gesture!Never, Gesture!NoCandidate
<1>3. intent # "none" /\ intent # v3
  BY DEF Gesture!Gestures, Gesture!Act, Gesture!TooSoon
<1>4. /\ n \in Nat /\ n - 1 = Len(v7) /\ DOMAIN v7 = 1..(n - 1)
      /\ v7'[n].intent = intent /\ v7'[n].outcome = outcome /\ v7'[n].at = v1
      /\ \A i \in 1..(n - 1) : v7'[i] = v7[i]
      /\ Gesture!Acts' = Gesture!Acts \cup {n} /\ Gesture!Acts \subseteq 1..(n - 1)
      /\ \A i \in 1..(n - 1) : Gesture!After(i)' = Gesture!After(i) \cup {n}
      /\ \A i \in 1..(n - 1) : Gesture!After(i) = Gesture!Between(i, n)
      /\ Gesture!After(n)' = {}
  <2>1. e.outcome \in {"acted", "resumed"}
    BY <1>0, <1>1
  <2> QED
    BY <1>0, <1>1, <1>2, <2>1, Recorded, RecordedSets
<1>5. \A i, j \in 1..(n - 1) : Gesture!Between(i, j) \subseteq 1..(n - 1)
  BY <1>4 DEF Gesture!Between
<1>6. \A i \in 1..(n - 1) : Gesture!After(i) \subseteq 1..(n - 1)
  BY <1>4 DEF Gesture!After
<1> HIDE DEF outcome
<1>7. Gesture!LastIntentOfFrames' /\ Gesture!CandidateSeen'
  <2>1. v3' = intent /\ v4' = Gesture!NoCandidate
    BY DEF Gesture!Act
  <2>2. Gesture!LastIntentOfFrames'
    BY <1>3, <1>4, <2>1 DEF Gesture!LastIntentOfFrames
  <2> QED
    BY <2>1, <2>2 DEF Gesture!CandidateSeen, Gesture!NoCandidate
<1>8. Gesture!FreshGesture'
  <2>1. ASSUME NEW i \in Gesture!Acts, v7[i].intent = intent
        PROVE  \E k \in Gesture!After(i) :
                 v7[k].intent = "none" \/ (k \in Gesture!Acts /\ v7[k].intent # intent)
    <3>1. CASE v3 = "none"
      BY <2>1, <3>1 DEF Gesture!Inv, Gesture!LastIntentOfFrames
    <3>2. CASE v3 # "none"
      <4>1. PICK m \in Gesture!Acts : v7[m].intent = v3 /\ \A k \in Gesture!After(m) : ~Gesture!Fresh(k)
        BY <3>2 DEF Gesture!Inv, Gesture!LastIntentOfFrames
      <4>2. i \notin Gesture!After(m) /\ i # m
        BY <1>3, <2>1, <4>1 DEF Gesture!Fresh
      <4>3. m \in Gesture!After(i)
        BY <1>4, <4>2 DEF Gesture!After
      <4> QED
        BY <1>3, <4>1, <4>3
    <3> QED
      BY <3>1, <3>2
  <2>2. ASSUME NEW i \in Gesture!Acts', NEW j \in Gesture!Acts', i < j, v7'[i].intent = v7'[j].intent
        PROVE  \E k \in Gesture!Between(i, j) :
                 v7'[k].intent = "none" \/ (k \in Gesture!Acts' /\ v7'[k].intent # v7'[j].intent)
    <3>1. i \in Gesture!Acts /\ i \in 1..(n - 1)
      <4>1. n \in Nat /\ Gesture!Acts \subseteq 1..(n - 1) /\ Gesture!Acts' = Gesture!Acts \cup {n}
        BY <1>4
      <4>2. i \in Gesture!Acts \cup {n} /\ j \in Gesture!Acts \cup {n} /\ i < j
        BY <2>2, <4>1
      <4>3. j <= n /\ j \in Nat /\ i \in Nat
        BY <4>1, <4>2
      <4>4. i # n
        BY <4>1, <4>2, <4>3
      <4> QED
        BY <4>1, <4>2, <4>4
    <3>2. CASE j = n
      <4>1. v7[i].intent = intent /\ v7'[j].intent = intent
        BY <1>4, <2>2, <3>1, <3>2
      <4>2. PICK k \in Gesture!After(i) :
              v7[k].intent = "none" \/ (k \in Gesture!Acts /\ v7[k].intent # intent)
        BY <2>1, <3>1, <4>1
      <4>3. k \in 1..(n - 1) /\ v7'[k] = v7[k] /\ k \in Gesture!Between(i, j)
        BY <1>4, <1>6, <3>1, <3>2, <4>2
      <4>4. k \in Gesture!Acts => k \in Gesture!Acts'
        BY <1>4
      <4> QED
        BY <4>1, <4>2, <4>3, <4>4
    <3>3. CASE j # n
      BY <1>4, <1>5, <2>2, <3>1, <3>3 DEF Gesture!Inv, Gesture!FreshGesture
    <3> QED
      BY <3>2, <3>3
  <2> QED
    BY <2>2 DEF Gesture!FreshGesture, Gesture!Between
<1>9. Gesture!ThumbConfirmed'
  <2>1. ASSUME intent \in {"continue", "down"}
        PROVE  \E i \in 1..(n - 1) : /\ v7[i].intent = intent /\ v7[i].outcome = "seen"
                                     /\ \A k \in Gesture!After(i) : ~Gesture!Fresh(k)
    <3>1. v4.intent = intent /\ v4 # Gesture!NoCandidate
      BY <2>1, <1>0 DEF Gesture!Act, Gesture!Sightings, Gesture!Confirmations, Gesture!NoCandidate
    <3> QED
      BY <1>4, <3>1 DEF Gesture!Inv, Gesture!CandidateSeen
  <2>2. ASSUME NEW j \in Gesture!Acts', v7'[j].intent \in {"continue", "down"}
        PROVE  \E i \in 1..(j - 1) :
                 /\ v7'[i].intent = v7'[j].intent /\ v7'[i].outcome = "seen"
                 /\ \A k \in Gesture!Between(i, j) : v7'[k].intent # "none" /\ k \notin Gesture!Acts'
    <3>1. CASE j = n
      <4>1. PICK i \in 1..(n - 1) : /\ v7[i].intent = intent /\ v7[i].outcome = "seen"
                                    /\ \A k \in Gesture!After(i) : ~Gesture!Fresh(k)
        BY <1>4, <2>1, <2>2, <3>1
      <4>2. \A k \in Gesture!Between(i, n) : k \in 1..(n - 1) /\ v7'[k].intent # "none" /\ k \notin Gesture!Acts'
        BY <1>4, <1>6, <4>1 DEF Gesture!Fresh
      <4> QED
        BY <1>4, <3>1, <4>1, <4>2
    <3>2. CASE j # n
      <4>1. j \in Gesture!Acts /\ j \in 1..(n - 1) /\ v7[j].intent \in {"continue", "down"}
        BY <1>4, <2>2, <3>2
      <4>2. PICK i \in 1..(j - 1) : /\ v7[i].intent = v7[j].intent /\ v7[i].outcome = "seen"
              /\ \A k \in Gesture!Between(i, j) : v7[k].intent # "none" /\ k \notin Gesture!Acts
        BY <4>1 DEF Gesture!Inv, Gesture!ThumbConfirmed
      <4>3. i \in 1..(n - 1) /\ n \notin Gesture!Between(i, j)
        BY <1>4, <4>1 DEF Gesture!Between
      <4> QED
        BY <1>4, <1>5, <4>1, <4>2, <4>3
    <3> QED
      BY <3>1, <3>2
  <2> QED
    BY <2>2 DEF Gesture!ThumbConfirmed, Gesture!Between
<1>10. Gesture!ResumesOncePerBargeIn'
  <2>1. ASSUME Gesture!Resumes(intent)
        PROVE  \E i \in Gesture!Acts : /\ v7[i].intent = "stop" /\ v1 - v7[i].at <= ResumeWindow
                                       /\ \A k \in Gesture!After(i) : v7[k].outcome # "resumed"
    <3>1. v6 # Gesture!Never
      BY <1>0, <2>1, AssistantAssumption
         DEF AssistantAssumption, Gesture!TimeAssumption, Gesture!Never, Gesture!Resumes
    <3> QED
      BY <2>1, <3>1 DEF Gesture!Inv, Gesture!BargeInLeft, Gesture!Resumes
  <2>2. ASSUME NEW j \in Gesture!Acts', v7'[j].outcome = "resumed"
        PROVE  \E i \in Gesture!Acts' :
                 /\ i < j /\ v7'[i].intent = "stop"
                 /\ v7'[j].at - v7'[i].at <= ResumeWindow
                 /\ \A k \in Gesture!Between(i, j) : v7'[k].outcome # "resumed"
    <3>1. CASE j = n
      <4>1. PICK i \in Gesture!Acts : /\ v7[i].intent = "stop" /\ v1 - v7[i].at <= ResumeWindow
                                      /\ \A k \in Gesture!After(i) : v7[k].outcome # "resumed"
        BY <1>4, <2>1, <2>2, <3>1 DEF outcome
      <4>2. i \in 1..(n - 1) /\ i < n /\ v7'[i] = v7[i] /\ i \in Gesture!Acts' /\ v7'[n].at = v1
        BY <1>4
      <4>3. \A k \in Gesture!Between(i, n) : v7'[k].outcome # "resumed"
        BY <1>4, <1>6, <4>1, <4>2
      <4> QED
        BY <3>1, <4>1, <4>2, <4>3
    <3>2. CASE j # n
      <4>1. j \in Gesture!Acts /\ j \in 1..(n - 1) /\ v7[j].outcome = "resumed"
        BY <1>4, <2>2, <3>2
      <4>2. PICK i \in Gesture!Acts : /\ i < j /\ v7[i].intent = "stop" /\ v7[j].at - v7[i].at <= ResumeWindow
              /\ \A k \in Gesture!Between(i, j) : v7[k].outcome # "resumed"
        BY <4>1 DEF Gesture!Inv, Gesture!ResumesOncePerBargeIn
      <4> QED
        BY <1>4, <1>5, <4>1, <4>2
    <3> QED
      BY <3>1, <3>2
  <2> QED
    BY <2>2 DEF Gesture!ResumesOncePerBargeIn, Gesture!Between
<1>11. Gesture!BargeInLeft'
  <2>1. CASE intent = "stop"
    <3>1. v6' = v1
      BY <2>1 DEF Gesture!Act
    <3> QED
      BY <1>4, <2>1, <3>1 DEF Gesture!BargeInLeft
  <2>2. CASE Gesture!Resumes(intent)
    <3>1. v6' = Gesture!Never
      BY <2>2 DEF Gesture!Act, Gesture!Resumes
    <3> QED
      BY <3>1 DEF Gesture!BargeInLeft, Gesture!Never
  <2>3. CASE intent # "stop" /\ ~Gesture!Resumes(intent)
    <3>1. v6' = v6 /\ outcome = "acted"
      BY <2>3 DEF Gesture!Act, outcome
    <3> SUFFICES ASSUME v6 # Gesture!Never PROVE Gesture!BargeInLeft'
      BY <3>1 DEF Gesture!BargeInLeft, Gesture!Never
    <3>2. PICK i \in Gesture!Acts : /\ v7[i].intent = "stop" /\ v7[i].at = v6
                                    /\ \A k \in Gesture!After(i) : v7[k].outcome # "resumed"
      BY DEF Gesture!Inv, Gesture!BargeInLeft
    <3>3. \A k \in Gesture!After(i)' : v7'[k].outcome # "resumed"
      BY <1>4, <1>6, <3>1, <3>2
    <3> QED
      BY <1>4, <3>1, <3>2, <3>3 DEF Gesture!BargeInLeft
  <2> QED
    BY <2>1, <2>2, <2>3
<1> QED
  BY <1>12, <1>7, <1>8, <1>9, <1>10, <1>11 DEF Gesture!Inv

LEMMA GestureStep == Gesture!Inv /\ Gesture!Next => Gesture!Inv'
BY TickKeepsInv, QuietKeepsInv, NoGestureKeepsInv, AwaitKeepsInv, ActKeepsInv DEF Gesture!Next, Gesture!Handle

\* A gesture acts once, when it is new and meant, and only on what it can act on
\* (ProactiveGestureController.handle): over any number of frames, a gesture acts
\* again only after a frame without one or another's act, a thumb acts on its
\* second sighting, and each resume has a recent barge-in of its own.
THEOREM GesturesAct == Spec => []GesturesActOnce
<1> DEFINE Safe == component = "gestures" => Gesture!Inv
<1>1. Init => Safe
  BY GestureInit DEF Init
<1>2. Safe /\ [Next]_vars => Safe'
  <2> SUFFICES ASSUME Safe, [Next]_vars, component' = "gestures" PROVE Gesture!Inv'
    OBVIOUS
  <2>1. CASE component = "gestures" /\ Gesture!Next
    BY <2>1, GestureStep
  <2>2. CASE component = "gestures" /\ UNCHANGED vars
    <3>1. Gesture!TypeOK' /\ v7' = v7 /\ v3' = v3 /\ v6' = v6 /\ v4' = v4
      BY <2>2 DEF vars, Gesture!Inv, Gesture!TypeOK, Gesture!Never, Gesture!NoCandidate
    <3> QED
      BY <2>2, <3>1, UnrecordedKeepsInv
  <2> QED
    BY <2>1, <2>2 DEF Next, vars
<1>3. Safe => GesturesActOnce
  BY DEF GesturesActOnce, Gesture!Inv
<1> QED
  BY <1>1, <1>2, <1>3, PTL DEF Spec

(***************************************************************************)
(* Speaker.                                                                *)
(***************************************************************************)
Guard == [recent : Seq(Speaking!Replies), pending : Speaking!Replies \cup {None},
          detected : BOOLEAN, emitted : BOOLEAN]
Turn == [at : {"idle", "opening", "closing", "ended", "correct", "speak"}, env : Speaking!Envelope,
         audio : BOOLEAN, agrees : BOOLEAN, gated : BOOLEAN, released : BOOLEAN, corrected : BOOLEAN]
Owned == [work : Seq({"analyze_attachment", "capture_highres", "think"}), heard : 0..1]

LEMMA SpeakerTypes ==
  Speaking!TypeOK <=> v1 \in Guard /\ v4 \in Turn /\ v5 \in Seq(Speaking!Replies) /\ v6 \in Owned
BY DEF Speaking!TypeOK, Guard, Turn, Owned

LEMMA NoTurnTyped == Speaking!NoTurn \in Turn
BY DEF Speaking!NoTurn, Speaking!NoEnvelope, Turn, Speaking!Envelope, Speaking!Actions

LEMMA SpeakerInit == Speaking!Init => Speaking!Inv
<1> SUFFICES ASSUME Speaking!Init PROVE Speaking!Inv
  OBVIOUS
<1>1. Speaking!TypeOK
  BY NoTurnTyped, SpeakerTypes DEF Speaking!Init, Guard, Owned
<1>2. v4.at = "idle" /\ v5 = <<>> /\ v6.work = <<>> /\ v6.heard = 0
  BY DEF Speaking!Init, Speaking!NoTurn
<1> QED
  BY <1>1, <1>2 DEF Speaking!Inv, Speaking!SaidSoFar, Speaking!RepeatsAreBridged, Speaking!OneOwner

LEMMA ResetTyped == ASSUME NEW g \in Guard PROVE Speaking!Reset(g) \in Guard /\ ~Speaking!Reset(g).emitted
<1>1. ASSUME g.pending # None PROVE Speaking!KeepLast(Append(g.recent, g.pending)) \in Seq(Speaking!Replies)
  <2>0. g.recent \in Seq(Speaking!Replies) /\ g.pending \in Speaking!Replies
    BY <1>1 DEF Guard
  <2>3. Append(g.recent, g.pending) \in Seq(Speaking!Replies)
    BY <2>0
  <2>1. PICK s \in Seq(Speaking!Replies) : s = Append(g.recent, g.pending)
    BY <2>3
  <2>2. Speaking!KeepLast(s) \in Seq(Speaking!Replies)
    BY AssistantAssumption DEF AssistantAssumption, Speaking!EnvelopesAssumption, Speaking!KeepLast
  <2> QED
    BY <2>1, <2>2
<1> QED
  BY <1>1 DEF Speaking!Reset, Guard

LEMMA BeginKeepsInv ==
  ASSUME Speaking!Inv, NEW e \in Envelopes, NEW audio \in BOOLEAN, NEW agrees \in BOOLEAN,
         Speaking!Begin(e, audio, agrees)
  PROVE  Speaking!Inv'
<1>1. v1' \in Guard /\ ~v1'.emitted
  BY ResetTyped, SpeakerTypes DEF Speaking!Inv, Speaking!Begin
<1>2. /\ v4' \in Turn /\ v4'.at \in {"opening", "ended"} /\ ~v4'.corrected /\ ~v4'.released
      /\ (v4'.at = "opening" => v4'.env.reply # None) /\ v5' = <<>>
  <2>1. e \in Speaking!Envelope
    BY AssistantAssumption DEF AssistantAssumption, Speaking!EnvelopesAssumption
  <2> QED
    BY <2>1, NoTurnTyped DEF Speaking!Begin, Turn, Speaking!NoTurn
<1>3. v6' \in Owned /\ Len(v6'.work) = 0 /\ v6'.heard <= 1
  BY DEF Speaking!Begin, Owned
<1>4. Speaking!TypeOK'
  BY <1>1, <1>2, <1>3 DEF Speaking!TypeOK, Guard, Turn, Owned
<1> QED
  BY <1>1, <1>2, <1>3, <1>4 DEF Speaking!Inv, Speaking!SaidSoFar, Speaking!RepeatsAreBridged, Speaking!OneOwner

LEMMA OpeningKeepsInv == Speaking!Inv /\ Speaking!Opening => Speaking!Inv'
<1> SUFFICES ASSUME Speaking!Inv, Speaking!Opening PROVE Speaking!Inv'
  OBVIOUS
<1>1. v4 \in Turn /\ v4.at = "opening" /\ v5 = <<>> /\ ~v1.emitted /\ ~v4.corrected
      /\ v4.env.reply # None
  BY SpeakerTypes DEF Speaking!Inv, Speaking!SaidSoFar, Speaking!Opening
<1>2. /\ v4' \in Turn /\ v4'.at = (IF v4.env.cut THEN "ended" ELSE "closing") /\ v4'.env = v4.env
      /\ ~v4'.corrected /\ (v4'.released => ~Speaking!CouldBeRepeat(v4.env.reply))
  BY <1>1 DEF Speaking!Opening, Turn
<1>3. v1' = v1 /\ v5' = v5 /\ v6' = v6
  BY DEF Speaking!Opening
<1>4. Speaking!TypeOK'
  BY <1>2, <1>3 DEF Speaking!TypeOK, Turn, Speaking!Inv
<1>5. Speaking!SaidSoFar'
  BY <1>1, <1>2, <1>3 DEF Speaking!SaidSoFar, Speaking!CouldBeRepeat, Speaking!Recent
<1> QED
  BY <1>1, <1>3, <1>4, <1>5 DEF Speaking!Inv, Speaking!RepeatsAreBridged, Speaking!OneOwner

\* What the guard remembers, and so what repeats, changes when a turn begins.
NoRepeatSaid == \A i \in DOMAIN v5 : ~Speaking!IsRepeat(v5[i])
LEMMA SameRepeats ==
  ASSUME v1'.recent = v1.recent, \A i \in DOMAIN v5' : ~Speaking!IsRepeat(v5'[i])
  PROVE  NoRepeatSaid'
BY DEF Speaking!IsRepeat, Speaking!Recent, NoRepeatSaid

LEMMA ClosingKeepsInv == Speaking!Inv /\ Speaking!Closing => Speaking!Inv'
<1> SUFFICES ASSUME Speaking!Inv, Speaking!Closing PROVE Speaking!Inv'
  OBVIOUS
<1>1. v1 \in Guard /\ v4 \in Turn /\ v4.at = "closing" /\ v5 = <<>> /\ ~v1.emitted /\ ~v4.corrected
      /\ (v4.released => ~Speaking!CouldBeRepeat(v4.env.reply)) /\ v4.env.reply # None
  BY SpeakerTypes DEF Speaking!Inv, Speaking!SaidSoFar, Speaking!Closing
<1>2. v4' \in Turn /\ v4'.at = "ended" /\ v4'.env = v4.env /\ v4'.released = ~v4.gated /\ ~v4'.corrected
  BY <1>1 DEF Speaking!Closing, Turn
<1>3. v1' \in Guard /\ v1'.recent = v1.recent
  BY <1>1 DEF Speaking!Closing, Guard
<1>4. ASSUME v4.gated PROVE v5' = <<>> /\ ~v1'.emitted
  BY <1>1, <1>4 DEF Speaking!Closing
<1>5. ASSUME ~v4.gated PROVE \E r \in Speaking!Replies : v5' = <<r>> /\ ~Speaking!IsRepeat(r)
  <2>1. v4.env.reply \in Speaking!Replies
    BY <1>1 DEF Turn, Speaking!Envelope
  <2>2. CASE v5' = <<Filler>>
    BY <2>2, AssistantAssumption
       DEF AssistantAssumption, Speaking!EnvelopesAssumption, Speaking!IsRepeat, Speaking!Replies
  <2>3. CASE /\ v5' = <<v4.env.reply>>
             /\ v4.released \/ ~Speaking!Bridge(v4.env.reply)
    <3>1. ~Speaking!IsRepeat(v4.env.reply)
      BY <1>1, <2>3 DEF Speaking!IsRepeat, Speaking!Bridge, Speaking!CouldBeRepeat, Speaking!AlikeOpening
    <3> QED
      BY <2>1, <2>3, <3>1
  <2> QED
    BY <1>5, <2>2, <2>3 DEF Speaking!Closing
<1>6. v5' \in Seq(Speaking!Replies) /\ Len(v5') <= 1 /\ (v5' # <<>> => v4'.released)
      /\ (v1'.emitted => v4'.released) /\ (v4'.released => v5' # <<>>)
      /\ \A i \in DOMAIN v5' : ~Speaking!IsRepeat(v5'[i])
  <2>1. CASE v4.gated
    BY <1>1, <1>2, <1>4, <2>1 DEF Turn
  <2>2. CASE ~v4.gated
    <3>1. PICK r \in Speaking!Replies : v5' = <<r>> /\ ~Speaking!IsRepeat(r)
      BY <1>5, <2>2
    <3>2. v4'.released
      BY <1>2, <2>2
    <3> QED
      BY <3>1, <3>2
  <2> QED
    BY <2>1, <2>2
<1>7. NoRepeatSaid'
  BY <1>3, <1>6, SameRepeats
<1>8. Speaking!TypeOK' /\ Speaking!OneOwner'
  BY <1>2, <1>3, <1>6 DEF Speaking!TypeOK, Speaking!OneOwner, Speaking!Closing, Speaking!Inv, Turn, Guard
<1>9. Speaking!SaidSoFar'
  BY <1>2, <1>6, <1>7 DEF Speaking!SaidSoFar, NoRepeatSaid
<1>10. Speaking!RepeatsAreBridged'
  BY <1>7 DEF Speaking!RepeatsAreBridged, NoRepeatSaid
<1> QED
  BY <1>8, <1>9, <1>10 DEF Speaking!Inv

\* One piece of work at most, whatever the handlers' outcome.
LEMMA HandleTyped ==
  ASSUME NEW r, NEW track \in BOOLEAN, NEW repeated, Speaking!Handle(r, track, repeated),
         v1 \in Guard, v6 \in Owned, r.reply \in Speaking!Replies \cup {None}
  PROVE  /\ v6' \in Owned /\ Len(v6'.work) <= 1
         /\ v1' \in Guard /\ v1'.recent = v1.recent
         /\ v1'.emitted <=> v1.emitted \/ Speaking!Streamed
<1>1. PICK done \in SUBSET Speaking!Work(r) :
        v6' = [work |-> (IF done = {} THEN <<>> ELSE <<r.action>>) \o
                        (IF Speaking!Escalates(r, repeated, done # {}) THEN <<"think">> ELSE <<>>),
               heard |-> IF v6.heard = 0 /\ r.heard THEN 1 ELSE v6.heard]
  BY DEF Speaking!Handle
<1> DEFINE some == IF done = {} THEN <<>> ELSE <<r.action>>
           think == IF Speaking!Escalates(r, repeated, done # {}) THEN <<"think">> ELSE <<>>
<1>2. done # {} => r.action \in {"analyze_attachment", "capture_highres"}
  BY <1>1 DEF Speaking!Work
<1>3. /\ some \in Seq({"analyze_attachment", "capture_highres", "think"})
      /\ think \in Seq({"analyze_attachment", "capture_highres", "think"})
      /\ Len(some) + Len(think) <= 1 /\ Len(some) \in Nat /\ Len(think) \in Nat
  <2> DEFINE W == {"analyze_attachment", "capture_highres", "think"}
  <2>1. think = <<>> \/ think = <<"think">>
    OBVIOUS
  <2>2. some = <<>> \/ (think = <<>> /\ some = <<r.action>> /\ r.action \in W)
    <3>1. CASE done = {}
      BY <3>1
    <3>2. CASE done # {}
      <4>1. think = <<>>
        BY <3>2 DEF Speaking!Escalates
      <4> QED
        BY <1>2, <3>2, <4>1
    <3> QED
      BY <3>1, <3>2
  <2> HIDE DEF some, think
  <2>3. think \in Seq(W) /\ Len(think) <= 1 /\ Len(think) \in Nat /\ (think = <<>> => Len(think) = 0)
    <3>1. CASE think = <<>>
      BY <3>1
    <3>2. CASE think = <<"think">>
      BY <3>2
    <3> QED
      BY <2>1, <3>1, <3>2
  <2>4. CASE some = <<>>
    BY <2>3, <2>4
  <2>5. CASE think = <<>> /\ some = <<r.action>> /\ r.action \in W
    <3>1. some \in Seq(W) /\ Len(some) = 1
      BY <2>5
    <3> QED
      BY <2>3, <2>5, <3>1
  <2> QED
    BY <2>2, <2>4, <2>5
<1> HIDE DEF some, think
<1>4. some \o think \in Seq({"analyze_attachment", "capture_highres", "think"}) /\ Len(some \o think) <= 1
  BY <1>3
<1>5. v6'.work = some \o think /\ v6'.heard = IF v6.heard = 0 /\ r.heard THEN 1 ELSE v6.heard
  BY <1>1 DEF some, think
<1>6. v6' = [work |-> v6'.work, heard |-> v6'.heard]
  BY <1>1
<1>7. v6' \in Owned /\ Len(v6'.work) <= 1
  BY <1>4, <1>5, <1>6 DEF Owned
<1>8. v1' = [v1 EXCEPT !.emitted = @ \/ Speaking!Streamed, !.pending = IF track THEN r.reply ELSE None]
  BY DEF Speaking!Handle
<1>9. v1.emitted \in BOOLEAN /\ Speaking!Streamed \in BOOLEAN
  BY DEF Guard, Speaking!Streamed
<1>10. v1' \in Guard /\ v1'.recent = v1.recent /\ (v1'.emitted <=> v1.emitted \/ Speaking!Streamed)
  BY <1>8, <1>9 DEF Guard
<1> QED
  BY <1>7, <1>10

LEMMA ParsedReply ==
  ASSUME NEW e \in Speaking!Envelope, NEW audio \in BOOLEAN
  PROVE  Speaking!Parsed(e, audio).reply \in Speaking!Replies \cup {None}
BY DEF Speaking!Parsed, Speaking!Envelope, Speaking!Replies, Speaking!NoEnvelope

LEMMA ResolveKeepsInv == Speaking!Inv /\ Speaking!Resolve => Speaking!Inv'
<1> SUFFICES ASSUME Speaking!Inv, Speaking!Resolve PROVE Speaking!Inv'
  OBVIOUS
<1>1. /\ v1 \in Guard /\ v4 \in Turn /\ v5 \in Seq(Speaking!Replies) /\ v6 \in Owned
      /\ v4.at = "ended" /\ Len(v5) <= 1 /\ (v5 # <<>> => v4.released) /\ (v1.emitted => v4.released)
      /\ (v4.released => v5 # <<>> \/ v4.env.cut)
      /\ \A i \in DOMAIN v5 : ~Speaking!IsRepeat(v5[i])
      /\ Speaking!OneOwner
  BY SpeakerTypes DEF Speaking!Inv, Speaking!SaidSoFar, Speaking!Resolve
<1>2. v5' = v5
  BY DEF Speaking!Resolve
<1>3. Speaking!Result.reply \in Speaking!Replies \cup {None}
  BY <1>1, ParsedReply DEF Speaking!Result, Turn
<1>4. /\ v6' \in Owned /\ Len(v6'.work) <= 1
      /\ v1' \in Guard /\ v1'.recent = v1.recent
      /\ v1'.emitted <=> v1.emitted \/ Speaking!Streamed
  <2>1. CASE Speaking!Handle(Speaking!Result, TRUE, v1.detected)
    BY <1>1, <1>3, <2>1, HandleTyped
  <2>2. CASE v1' = [v1 EXCEPT !.emitted = @ \/ Speaking!Streamed] /\ v6' = v6
    <3>1. v1.emitted \in BOOLEAN /\ Speaking!Streamed \in BOOLEAN
      BY <1>1 DEF Guard, Speaking!Streamed
    <3> QED
      BY <1>1, <2>2, <3>1 DEF Guard, Speaking!OneOwner
  <2> QED
    BY <2>1, <2>2 DEF Speaking!Resolve
<1>5. /\ v4' \in Turn /\ v4'.at \in {"idle", "speak", "correct"} /\ v4'.released = v4.released
      /\ v4'.corrected = v4.corrected /\ v4'.env.cut = v4.env.cut
      /\ (v4'.at = "speak" => ~Speaking!Streamed)
  <2>1. v4.env \in Speaking!Envelope
    BY <1>1 DEF Turn
  <2>2. CASE v4' = [v4 EXCEPT !.at = IF Speaking!Streamed THEN "idle" ELSE "speak", !.env.reply = Speaking!Result.reply]
    <3>1. [v4.env EXCEPT !.reply = Speaking!Result.reply] \in Speaking!Envelope
          /\ [v4.env EXCEPT !.reply = Speaking!Result.reply].cut = v4.env.cut
      BY <1>3, <2>1 DEF Speaking!Envelope
    <3> QED
      BY <1>1, <2>2, <3>1 DEF Turn
  <2>3. CASE v4' = [v4 EXCEPT !.at = "correct"]
    BY <1>1, <2>3 DEF Turn
  <2> QED
    BY <2>2, <2>3 DEF Speaking!Resolve
<1>6. NoRepeatSaid'
  BY <1>1, <1>2, <1>4, SameRepeats
<1>7. Speaking!TypeOK'
  BY <1>1, <1>2, <1>4, <1>5 DEF Speaking!TypeOK, Turn, Guard, Owned
<1>8. v1'.emitted => v4.released
  BY <1>1, <1>4 DEF Speaking!Streamed
<1>9. v4'.at = "speak" => v5' = <<>> /\ ~v1'.emitted
  BY <1>1, <1>2, <1>4, <1>5 DEF Speaking!Streamed
<1>10. Speaking!SaidSoFar'
  BY <1>1, <1>2, <1>5, <1>6, <1>8, <1>9 DEF Speaking!SaidSoFar, NoRepeatSaid
<1>11. Speaking!RepeatsAreBridged' /\ Speaking!OneOwner'
  BY <1>4, <1>6 DEF Speaking!RepeatsAreBridged, NoRepeatSaid, Speaking!OneOwner, Owned
<1> QED
  BY <1>7, <1>10, <1>11 DEF Speaking!Inv

LEMMA CorrectKeepsInv ==
  ASSUME Speaking!Inv, NEW e \in Envelopes, Speaking!Correct(e) PROVE Speaking!Inv'
<1>1. /\ v1 \in Guard /\ v4 \in Turn /\ v5 \in Seq(Speaking!Replies) /\ v6 \in Owned
      /\ v4.at = "correct" /\ Len(v5) <= 1 /\ (v5 # <<>> => v4.released) /\ (v1.emitted => v4.released)
      /\ (v4.released => v5 # <<>> \/ v4.env.cut)
      /\ \A i \in DOMAIN v5 : ~Speaking!IsRepeat(v5[i])
  BY SpeakerTypes DEF Speaking!Inv, Speaking!SaidSoFar, Speaking!Correct
<1> DEFINE c == Speaking!Parsed(e, v4.audio)
           final == IF Speaking!Corrects(c) THEN c ELSE [Speaking!Result EXCEPT !.reply = Fallback]
<1>2. /\ Speaking!Handle(final, Speaking!Corrects(c), v1.detected)
      /\ v4' = [v4 EXCEPT !.at = "speak", !.env.reply = final.reply, !.corrected = TRUE]
      /\ v5' = v5
  BY DEF Speaking!Correct
<1>3. final.reply \in Speaking!Replies \cup {None}
  <2>1. e \in Speaking!Envelope /\ v4.audio \in BOOLEAN
    BY <1>1, AssistantAssumption DEF AssistantAssumption, Speaking!EnvelopesAssumption, Turn
  <2>2. c.reply \in Speaking!Replies \cup {None}
    BY <2>1, ParsedReply
  <2>3. [Speaking!Result EXCEPT !.reply = Fallback].reply = Fallback
    BY DEF Speaking!Result, Speaking!Parsed
  <2> QED
    BY <2>2, <2>3 DEF Speaking!Replies
<1>4. Speaking!Corrects(c) \in BOOLEAN
  BY DEF Speaking!Corrects
<1> HIDE DEF c, final
<1>5. /\ v6' \in Owned /\ Len(v6'.work) <= 1
      /\ v1' \in Guard /\ v1'.recent = v1.recent
      /\ v1'.emitted <=> v1.emitted \/ Speaking!Streamed
  BY <1>1, <1>2, <1>3, <1>4, HandleTyped
<1>6. /\ v4' \in Turn /\ v4'.at = "speak" /\ v4'.released = v4.released
      /\ v4'.corrected /\ v4'.env.cut = v4.env.cut
  <2>1. v4.env \in Speaking!Envelope
    BY <1>1 DEF Turn
  <2>2. [v4.env EXCEPT !.reply = final.reply] \in Speaking!Envelope
        /\ [v4.env EXCEPT !.reply = final.reply].cut = v4.env.cut
    BY <1>3, <2>1 DEF Speaking!Envelope
  <2> QED
    BY <1>1, <1>2, <2>2 DEF Turn
<1>7. NoRepeatSaid'
  BY <1>1, <1>2, <1>5, SameRepeats
<1>8. Speaking!TypeOK'
  BY <1>1, <1>2, <1>5, <1>6 DEF Speaking!TypeOK, Turn, Guard, Owned
<1>9. v1'.emitted => v4.released
  BY <1>1, <1>5 DEF Speaking!Streamed
<1>10. Speaking!SaidSoFar'
  BY <1>1, <1>2, <1>6, <1>7, <1>9 DEF Speaking!SaidSoFar, NoRepeatSaid
<1>11. Speaking!RepeatsAreBridged' /\ Speaking!OneOwner'
  BY <1>5, <1>7 DEF Speaking!RepeatsAreBridged, Speaking!OneOwner, NoRepeatSaid, Owned
<1> QED
  BY <1>8, <1>10, <1>11 DEF Speaking!Inv

\* Of what was said only the last can be a repeat, past bridging.
LEMMA SpeakKeepsInv == Speaking!Inv /\ Speaking!Speak => Speaking!Inv'
<1> SUFFICES ASSUME Speaking!Inv, Speaking!Speak PROVE Speaking!Inv'
  OBVIOUS
<1>1. /\ v1 \in Guard /\ v4 \in Turn /\ v5 \in Seq(Speaking!Replies) /\ v6 \in Owned
      /\ v4.at = "speak" /\ Len(v5) <= 1 /\ (v5 # <<>> => v4.released) /\ (v1.emitted => v4.released)
      /\ (v4.released => v5 # <<>> \/ v4.env.cut)
      /\ (~v4.corrected => v5 = <<>> /\ ~v1.emitted)
      /\ \A i \in DOMAIN v5 : ~Speaking!IsRepeat(v5[i])
  BY SpeakerTypes DEF Speaking!Inv, Speaking!SaidSoFar, Speaking!Speak
<1>2. /\ v4' \in Turn /\ v4'.at = "idle" /\ v4'.corrected = v4.corrected /\ v4'.released = v4.released
      /\ v4'.env = v4.env /\ v6' = v6
  BY <1>1 DEF Speaking!Speak, Turn
<1>3. v1' \in Guard /\ v1'.recent = v1.recent
  BY <1>1 DEF Speaking!Speak, Guard
<1>4. v5' = v5 \/ \E r \in Speaking!Replies :
        /\ v5' = Append(v5, r)
        /\ Speaking!IsRepeat(r) => v1.emitted
  <2>1. CASE v5' = v5
    BY <2>1
  <2>2. CASE v5' = Append(v5, Filler)
    BY <2>2, AssistantAssumption
       DEF AssistantAssumption, Speaking!EnvelopesAssumption, Speaking!IsRepeat, Speaking!Replies
  <2>3. CASE v5' = Append(v5, v4.env.reply) /\ v4.env.reply # None /\ ~Speaking!Bridge(v4.env.reply)
    <3>1. v4.env.reply \in Speaking!Replies
      BY <1>1, <2>3 DEF Turn, Speaking!Envelope
    <3> QED
      BY <2>3, <3>1 DEF Speaking!Bridge
  <2> QED
    BY <2>1, <2>2, <2>3 DEF Speaking!Speak
<1>5. /\ v5' \in Seq(Speaking!Replies)
      /\ \A i \in DOMAIN v5' : Speaking!IsRepeat(v5'[i]) =>
           v4.corrected /\ v4.released /\ (i = 2 \/ v4.env.cut)
  <2>1. CASE v5' = v5
    BY <1>1, <2>1
  <2>2. CASE v5' # v5
    <3>1. PICK r \in Speaking!Replies : v5' = Append(v5, r) /\ (Speaking!IsRepeat(r) => v1.emitted)
      BY <1>4, <2>2
    <3>2. /\ v5' \in Seq(Speaking!Replies) /\ Len(v5) \in Nat
          /\ DOMAIN v5' = DOMAIN v5 \cup {Len(v5) + 1}
          /\ \A i \in DOMAIN v5 : v5'[i] = v5[i]
          /\ v5'[Len(v5) + 1] = r
      BY <1>1, <3>1, Appended
    <3>3. ASSUME Speaking!IsRepeat(r) PROVE v4.corrected /\ v4.released /\ (Len(v5) + 1 = 2 \/ v4.env.cut)
      <4>1. ASSUME v5 # <<>> PROVE Len(v5) + 1 = 2
        <5>1. Len(v5) \in Nat \ {0}
          BY <1>1, <4>1, EmptySeq
        <5>2. Len(v5) <= 1
          BY <1>1
        <5> QED
          BY <5>1, <5>2
      <4> QED
        BY <1>1, <3>1, <3>3, <4>1
    <3> QED
      BY <1>1, <3>2, <3>3
  <2> QED
    BY <2>1, <2>2
<1>6. Speaking!RepeatsAreBridged'
  BY <1>2, <1>3, <1>5 DEF Speaking!RepeatsAreBridged, Speaking!IsRepeat, Speaking!Recent
<1>7. Speaking!TypeOK' /\ Speaking!OneOwner'
  BY <1>1, <1>2, <1>3, <1>5 DEF Speaking!TypeOK, Turn, Guard, Owned, Speaking!Inv, Speaking!OneOwner
<1>8. Speaking!SaidSoFar'
  BY <1>2 DEF Speaking!SaidSoFar
<1> QED
  BY <1>6, <1>7, <1>8 DEF Speaking!Inv

\* A turn that was not spoken yet has said no repeat.
LEMMA InterruptedKeepsInv == Speaking!Inv /\ Speaking!Interrupted => Speaking!Inv'
<1> SUFFICES ASSUME Speaking!Inv, Speaking!Interrupted PROVE Speaking!Inv'
  OBVIOUS
<1>1. v1 \in Guard /\ v4 \in Turn /\ v5 \in Seq(Speaking!Replies) /\ v6 \in Owned /\ v4.at # "idle"
  BY SpeakerTypes DEF Speaking!Inv, Speaking!Interrupted
<1>2. v4' = Speaking!NoTurn /\ v4' \in Turn /\ v1' = v1 /\ v5' = v5 /\ v6' = v6 /\ v4'.at = "idle"
  BY NoTurnTyped DEF Speaking!Interrupted, Speaking!NoTurn
<1>3. \A i \in DOMAIN v5' : ~Speaking!IsRepeat(v5'[i])
  BY <1>1, <1>2 DEF Speaking!Inv, Speaking!SaidSoFar, Turn
<1>4. NoRepeatSaid'
  BY <1>2, <1>3, SameRepeats
<1>5. Speaking!RepeatsAreBridged' /\ Speaking!SaidSoFar'
  BY <1>2, <1>4 DEF Speaking!RepeatsAreBridged, Speaking!SaidSoFar, NoRepeatSaid
<1>6. Speaking!TypeOK' /\ Speaking!OneOwner'
  BY <1>1, <1>2 DEF Speaking!TypeOK, Turn, Guard, Owned, Speaking!Inv, Speaking!OneOwner
<1> QED
  BY <1>5, <1>6 DEF Speaking!Inv

LEMMA SpeakerUnchanged ==
  ASSUME Speaking!Inv, UNCHANGED <<v1, v4, v5, v6>> PROVE Speaking!Inv'
BY DEF Speaking!Inv, Speaking!TypeOK, Speaking!SaidSoFar, Speaking!RepeatsAreBridged, Speaking!OneOwner,
       Speaking!IsRepeat, Speaking!Recent, Speaking!CouldBeRepeat

LEMMA SpeakerStep == Speaking!Inv /\ Speaking!Next => Speaking!Inv'
<1>1. Speaking!Inv /\ Speaking!Attach => Speaking!Inv'
  BY SpeakerUnchanged DEF Speaking!Attach
<1> QED
  BY <1>1, BeginKeepsInv, OpeningKeepsInv, ClosingKeepsInv, ResolveKeepsInv, CorrectKeepsInv,
     SpeakKeepsInv, InterruptedKeepsInv DEF Speaking!Next

\* The Speaker bridges a repeated reply, but for the correction of a turn whose
\* first reply had already streamed, and a turn has one owner (RepeatGuard,
\* _handle_turn_result), whatever envelopes the model generates and wherever
\* its turns are cut.
THEOREM OneOwnerSpeaks == Spec => []SpokenByOneOwner
<1> DEFINE Safe == component = "speaker" => Speaking!Inv
<1>1. Init => Safe
  BY SpeakerInit DEF Init
<1>2. Safe /\ [Next]_vars => Safe'
  <2> SUFFICES ASSUME Safe, [Next]_vars, component' = "speaker" PROVE Speaking!Inv'
    OBVIOUS
  <2>1. CASE component = "speaker" /\ Speaking!Next
    BY <2>1, SpeakerStep
  <2>2. CASE component = "speaker" /\ UNCHANGED vars
    BY <2>2, SpeakerUnchanged DEF vars
  <2> QED
    BY <2>1, <2>2 DEF Next, vars
<1>3. Safe => SpokenByOneOwner
  BY DEF SpokenByOneOwner, Speaking!Inv
<1> QED
  BY <1>1, <1>2, <1>3, PTL DEF Spec

(***************************************************************************)
(* Thinking.                                                               *)
(***************************************************************************)
JobSet == [question : Thinker!Questions, generation : 0..MaxInterruptions, running : BOOLEAN]
Flags == [speaking : BOOLEAN, interrupted : BOOLEAN, skip : BOOLEAN, dispatched : BOOLEAN]

LEMMA ThinkerTypes ==
  Thinker!TypeOK <=>
    /\ v1 \in Flags /\ v2 \in [Thinker!Tasks -> {"idle", "media", "thinking"}]
    /\ v3 \in [Thinker!Tasks -> Thinker!Work]
    /\ v4 \in Thinker!Questions \cup {0} /\ v5 \in BOOLEAN
    /\ v6 \in 0..MaxInterruptions /\ v7 \in 0..Len(v8)
    /\ v8 \in Seq(JobSet) /\ v9 \subseteq Thinker!Work /\ v11 \in Seq(Thinker!Work)
    /\ v10 \in Seq(0..MaxInterruptions) /\ Len(v10) <= MaxQuestions
BY DEF Thinker!TypeOK, JobSet, Flags

LEMMA ThinkerInit == Thinker!Init => Thinker!Inv
<1> SUFFICES ASSUME Thinker!Init PROVE Thinker!Inv
  OBVIOUS
<1> USE AssistantAssumption DEF AssistantAssumption, Thinker!BoundsAssumption
<1>1. Thinker!TypeOK
  <2>1. v8 \in Seq(JobSet) /\ Len(v8) = 0 /\ v11 \in Seq(Thinker!Work) /\ v10 \in Seq(0..MaxInterruptions)
        /\ Len(v10) = 0
    BY DEF Thinker!Init
  <2>2. v3 \in [Thinker!Tasks -> Thinker!Work]
    BY DEF Thinker!Init, Thinker!Work
  <2>3. v1 \in Flags /\ v2 \in [Thinker!Tasks -> {"idle", "media", "thinking"}]
    BY DEF Thinker!Init, Flags
  <2>4. v4 = 0 /\ v5 = FALSE /\ v6 = 0 /\ v7 = 0 /\ v9 = {}
    BY DEF Thinker!Init
  <2>5. v6 \in 0..MaxInterruptions /\ v7 \in 0..Len(v8) /\ Len(v10) <= MaxQuestions
    BY <2>1, <2>4
  <2> QED
    BY ONLY <2>1, <2>2, <2>3, <2>4, <2>5, ThinkerTypes
<1>2. /\ DOMAIN v8 = {} /\ v9 = {} /\ DOMAIN v11 = {} /\ DOMAIN v10 = {}
      /\ \A task \in Thinker!Tasks : v2[task] = "idle"
  BY DEF Thinker!Init
<1>3. Thinker!AskedIn /\ Thinker!InOnePlace
  BY <1>2 DEF Thinker!Init, Thinker!AskedIn, Thinker!InOnePlace, Thinker!At
<1>4. Thinker!OnlyOldRequest /\ Thinker!HeldByOne
  BY <1>2 DEF Thinker!Init, Thinker!OnlyOldRequest, Thinker!HeldByOne, Thinker!At, Thinker!Requesting,
     Thinker!Running, Thinker!Tasks
<1> QED
  BY <1>1, <1>3, <1>4 DEF Thinker!Inv

\* A step that moves no question keeps where the questions are.
LEMMA SameWork ==
  ASSUME Thinker!Inv, UNCHANGED <<v3, v4, v5, v6, v7, v8, v9, v10, v11>>,
         \A task \in Thinker!Tasks : v2'[task] = "thinking" <=> v2[task] = "thinking"
  PROVE  Thinker!AskedIn' /\ Thinker!InOnePlace' /\ Thinker!HeldByOne'
<1>1. Thinker!AskedIn'
  BY DEF Thinker!Inv, Thinker!AskedIn, Thinker!At, Thinker!Fits
<1>2. Thinker!InOnePlace'
  BY DEF Thinker!Inv, Thinker!InOnePlace, Thinker!At, Thinker!Answered
<1>3. Thinker!Requesting' = Thinker!Requesting /\ Thinker!Running' = Thinker!Running
  BY DEF Thinker!Requesting, Thinker!Running
<1> QED
  BY <1>1, <1>2, <1>3 DEF Thinker!Inv, Thinker!HeldByOne

\* The flags may change as they will, but dispatched stays while the task of the
\* other frames works.
LEMMA FlagsKeepInv ==
  ASSUME Thinker!Inv, v1' \in Flags, v1.dispatched /\ v2["process"] # "idle" => v1'.dispatched,
         UNCHANGED <<v2, v3, v4, v5, v6, v7, v8, v9, v10, v11>>
  PROVE  Thinker!Inv'
<1>1. Thinker!AskedIn' /\ Thinker!InOnePlace' /\ Thinker!HeldByOne'
  BY SameWork
<1>2. Thinker!TypeOK'
  BY DEF Thinker!Inv, Thinker!TypeOK, Flags
<1>3. Thinker!OnlyOldRequest'
  BY DEF Thinker!Inv, Thinker!OnlyOldRequest, Thinker!At
<1> QED
  BY <1>1, <1>2, <1>3 DEF Thinker!Inv

LEMMA DispatchKeepsInv ==
  ASSUME Thinker!Inv, NEW task \in Thinker!Tasks, v2[task] = "idle",
         NEW flags \in Flags, flags.dispatched = v1.dispatched, Thinker!Dispatch(task, flags),
         UNCHANGED <<v3, v4, v5, v6, v7, v8, v9, v10, v11>>
  PROVE  Thinker!Inv'
<1>1. v1' \in Flags /\ v1'.dispatched
  BY DEF Thinker!Dispatch, Flags
<1>2. v2' = IF v1.dispatched THEN v2 ELSE [v2 EXCEPT ![task] = "media"]
  BY DEF Thinker!Dispatch
<1>3. v2 \in [Thinker!Tasks -> {"idle", "media", "thinking"}]
  BY DEF Thinker!Inv, Thinker!TypeOK
<1>4. Thinker!AskedIn' /\ Thinker!InOnePlace' /\ Thinker!HeldByOne'
  BY <1>2, <1>3, SameWork
<1>5. Thinker!TypeOK'
  BY <1>1, <1>2, <1>3 DEF Thinker!Inv, Thinker!TypeOK, Flags
<1>6. Thinker!OnlyOldRequest'
  BY <1>1, <1>2, <1>3 DEF Thinker!Inv, Thinker!OnlyOldRequest, Thinker!At, Thinker!Tasks
<1> QED
  BY <1>4, <1>5, <1>6 DEF Thinker!Inv

LEMMA ProcessorKeepsInv ==
  Thinker!Inv /\ (\/ Thinker!ConfigureOutput \/ Thinker!ResponseStart \/ Thinker!ResponseEnd
                  \/ Thinker!BotStartedSpeaking \/ Thinker!BotStoppedSpeaking) => Thinker!Inv'
<1> SUFFICES ASSUME Thinker!Inv,
                    \/ Thinker!ConfigureOutput \/ Thinker!ResponseStart \/ Thinker!ResponseEnd
                    \/ Thinker!BotStartedSpeaking \/ Thinker!BotStoppedSpeaking
             PROVE  Thinker!Inv'
  OBVIOUS
<1>1. v1 \in Flags
  BY DEF Thinker!Inv, Thinker!TypeOK, Flags
<1>2. UNCHANGED <<v3, v4, v5, v6, v7, v8, v9, v10, v11>>
  BY DEF Thinker!ConfigureOutput, Thinker!ResponseStart, Thinker!ResponseEnd, Thinker!BotStartedSpeaking,
         Thinker!BotStoppedSpeaking, Thinker!controller
<1>3. CASE Thinker!ConfigureOutput \/ Thinker!ResponseStart \/ Thinker!BotStartedSpeaking
  <2>1. v1' \in Flags /\ (v1.dispatched /\ v2["process"] # "idle" => v1'.dispatched) /\ v2' = v2
    BY <1>1, <1>3 DEF Thinker!ConfigureOutput, Thinker!ResponseStart, Thinker!BotStartedSpeaking, Flags
  <2> QED
    BY <1>2, <2>1, FlagsKeepInv
<1>4. CASE Thinker!ResponseEnd
  BY <1>1, <1>2, <1>4, DispatchKeepsInv DEF Thinker!ResponseEnd, Thinker!Tasks
<1>5. CASE Thinker!BotStoppedSpeaking
  <2> DEFINE silent == [v1 EXCEPT !.speaking = FALSE, !.interrupted = FALSE]
  <2>1. silent \in Flags /\ silent.dispatched = v1.dispatched
    BY <1>1 DEF Flags
  <2>2. v2["system"] = "idle" /\ ((v1' = silent /\ UNCHANGED v2) \/ Thinker!Dispatch("system", silent))
    BY <1>5 DEF Thinker!BotStoppedSpeaking
  <2> HIDE DEF silent
  <2> QED
    BY <1>2, <2>1, <2>2, FlagsKeepInv, DispatchKeepsInv DEF Thinker!Tasks
<1> QED
  BY <1>3, <1>4, <1>5

LEMMA UserStartedSpeakingKeepsInv == Thinker!Inv /\ Thinker!UserStartedSpeaking => Thinker!Inv'
<1> SUFFICES ASSUME Thinker!Inv, Thinker!UserStartedSpeaking PROVE Thinker!Inv'
  OBVIOUS
<1>1. /\ v2["system"] = "idle" /\ v6 < MaxInterruptions
      /\ v1' = [v1 EXCEPT !.interrupted = TRUE] /\ v4' = 0 /\ v5' = FALSE /\ v6' = v6 + 1 /\ v7' = 0
      /\ UNCHANGED <<v2, v3, v8, v9, v10, v11>>
  BY DEF Thinker!UserStartedSpeaking, Thinker!ClearPending
<1>2. /\ v1 \in Flags /\ v6 \in 0..MaxInterruptions /\ v8 \in Seq(JobSet) /\ Len(v8) \in Nat
      /\ v10 \in Seq(0..MaxInterruptions)
  BY ThinkerTypes DEF Thinker!Inv
<1>9. v6 \in Nat /\ v6' \in 0..MaxInterruptions /\ v1' \in Flags
  <2>1. MaxInterruptions \in Nat
    BY AssistantAssumption DEF AssistantAssumption, Thinker!BoundsAssumption
  <2>2. v1' \in Flags
    BY <1>1, <1>2 DEF Flags
  <2> QED
    BY <1>1, <1>2, <2>1, <2>2
<1>3. Thinker!TypeOK'
  <2>2. Len(v8') \in Nat /\ v7' = 0
    BY <1>1, <1>2
  <2>3. v7' \in 0..Len(v8')
    BY <2>2
  <2>1. v7' \in 0..Len(v8') /\ v4' \in Thinker!Questions \cup {0} /\ v5' \in BOOLEAN
    BY <1>1, <2>3
  <2> QED
    BY <1>1, <1>9, <2>1 DEF Thinker!Inv, Thinker!TypeOK, Flags
<1>4. \A question \in DOMAIN v10 : v10[question] <= v6 /\ v10[question] < v6' /\ question # 0
  <2> SUFFICES ASSUME NEW question \in DOMAIN v10
               PROVE  v10[question] <= v6 /\ v10[question] < v6' /\ question # 0
    OBVIOUS
  <2>1. v10[question] <= v6
    BY DEF Thinker!Inv, Thinker!AskedIn
  <2>2. v10[question] \in Nat /\ question # 0
    BY <1>2, AssistantAssumption DEF AssistantAssumption, Thinker!BoundsAssumption
  <2> QED
    BY <1>1, <1>9, <2>1, <2>2
<1>5. Thinker!AskedIn'
  <2>1. \A question \in DOMAIN v10' : v10'[question] <= v6'
    <3>1. \A question \in DOMAIN v10 : v10[question] \in Nat
      BY <1>2, AssistantAssumption DEF AssistantAssumption, Thinker!BoundsAssumption
    <3> QED
      BY <1>1, <1>4, <1>9, <3>1
  <2> QED
    BY <1>1, <2>1 DEF Thinker!Inv, Thinker!AskedIn, Thinker!At, Thinker!Fits
<1>6. Thinker!InOnePlace'
  <2>1. \A task \in Thinker!Tasks : v2[task] = "thinking" => v3[task].question # 0
    BY <1>4 DEF Thinker!Inv, Thinker!AskedIn, Thinker!At, Thinker!Fits
  <2>2. \A id \in DOMAIN v8 : v8[id].question # 0
    BY <1>4 DEF Thinker!Inv, Thinker!AskedIn, Thinker!Fits
  <2> QED
    BY <1>1, <2>1, <2>2 DEF Thinker!Inv, Thinker!InOnePlace, Thinker!At, Thinker!Answered
<1>7. Thinker!OnlyOldRequest'
  BY <1>1, <1>2 DEF Thinker!Inv, Thinker!OnlyOldRequest, Thinker!At, Flags
<1>8. Thinker!HeldByOne'
  <2>1. \A id \in DOMAIN v8 : v8[id].generation # v6'
    <3>1. \A id \in DOMAIN v8 : v8[id].question \in DOMAIN v10 /\ v8[id].generation = v10[v8[id].question]
      BY DEF Thinker!Inv, Thinker!AskedIn, Thinker!Fits
    <3>2. \A question \in DOMAIN v10 : v10[question] # v6'
      BY <1>1, <1>4, <1>9
    <3> QED
      BY <3>1, <3>2
  <2>3. \A task \in Thinker!Tasks : v2[task] = "thinking" => v3[task].generation # v6'
    <3>1. \A task \in Thinker!Tasks : v2[task] = "thinking" =>
             v3[task].question \in DOMAIN v10 /\ v3[task].generation = v10[v3[task].question]
      BY DEF Thinker!Inv, Thinker!AskedIn, Thinker!Fits, Thinker!At
    <3>2. \A question \in DOMAIN v10 : v10[question] # v6'
      BY <1>1, <1>4, <1>9
    <3> QED
      BY <3>1, <3>2
  <2>2. Thinker!Running' = {} /\ Thinker!Requesting' = {}
    BY <1>1, <2>1, <2>3 DEF Thinker!Running, Thinker!Requesting
  <2> QED
    BY <1>1, <2>2 DEF Thinker!HeldByOne
<1> QED
  BY <1>3, <1>5, <1>6, <1>7, <1>8 DEF Thinker!Inv

LEMMA QueueKeepsInv == Thinker!Inv /\ Thinker!Queue => Thinker!Inv'
<1> SUFFICES ASSUME Thinker!Inv, Thinker!Queue PROVE Thinker!Inv'
  OBVIOUS
<1>1. /\ v10' = Append(v10, v6) /\ v4' = Len(v10) + 1 /\ Len(v10) < MaxQuestions
      /\ UNCHANGED <<v1, v2, v3, v5, v6, v7, v8, v9, v11>>
  BY DEF Thinker!Queue
<1>2. v10 \in Seq(0..MaxInterruptions) /\ v6 \in 0..MaxInterruptions
  BY DEF Thinker!Inv, Thinker!TypeOK
<1>3. /\ v10' \in Seq(0..MaxInterruptions) /\ Len(v10') = Len(v10) + 1 /\ Len(v10) \in Nat
      /\ DOMAIN v10' = DOMAIN v10 \cup {Len(v10) + 1} /\ Len(v10) + 1 \notin DOMAIN v10
      /\ \A i \in DOMAIN v10 : v10'[i] = v10[i]
      /\ v10'[Len(v10) + 1] = v6
  BY <1>1, <1>2, Appended
<1>4. Thinker!TypeOK'
  BY <1>1, <1>3, AssistantAssumption
     DEF AssistantAssumption, Thinker!BoundsAssumption, Thinker!Inv, Thinker!TypeOK, Thinker!Questions
<1>5. \A work : Thinker!Fits(work) => work.question \in DOMAIN v10' /\ work.generation = v10'[work.question]
  BY <1>3 DEF Thinker!Fits
<1>6. Thinker!AskedIn'
  <2>1. \A question \in DOMAIN v10' : v10'[question] <= v6'
    BY <1>1, <1>2, <1>3 DEF Thinker!Inv, Thinker!AskedIn
  <2> QED
    BY <1>1, <1>3, <1>5, <2>1 DEF Thinker!Inv, Thinker!AskedIn, Thinker!At, Thinker!Fits
<1>7. Thinker!InOnePlace'
  <2>1. \A task \in Thinker!Tasks : v2[task] = "thinking" => v3[task].question # v4'
    BY <1>1, <1>3 DEF Thinker!Inv, Thinker!AskedIn, Thinker!At, Thinker!Fits
  <2>2. \A id \in DOMAIN v8 : v8[id].question # v4'
    BY <1>1, <1>3 DEF Thinker!Inv, Thinker!AskedIn, Thinker!Fits
  <2> QED
    BY <1>1, <2>1, <2>2 DEF Thinker!Inv, Thinker!InOnePlace, Thinker!At, Thinker!Answered
<1>8. Thinker!OnlyOldRequest' /\ Thinker!HeldByOne'
  BY <1>1 DEF Thinker!Inv, Thinker!OnlyOldRequest, Thinker!HeldByOne, Thinker!At, Thinker!Requesting,
     Thinker!Running
<1> QED
  BY <1>4, <1>6, <1>7, <1>8 DEF Thinker!Inv

LEMMA StartPendingKeepsInv ==
  ASSUME Thinker!Inv, NEW task \in Thinker!Tasks, Thinker!StartPending(task) PROVE Thinker!Inv'
<1>1. /\ v2[task] = "media" /\ v4' = 0 /\ v2 \in [Thinker!Tasks -> {"idle", "media", "thinking"}]
      /\ v3 \in [Thinker!Tasks -> Thinker!Work]
      /\ UNCHANGED <<v1, v6, v7, v8, v9, v10, v11>>
  BY DEF Thinker!StartPending, Thinker!Inv, Thinker!TypeOK
<1>2. /\ \A t \in Thinker!Tasks : v2[t] = "thinking" => v3[t].question # 0
      /\ \A id \in DOMAIN v8 : v8[id].question # 0
  <2>1. \A question \in DOMAIN v10 : question # 0
    BY DEF Thinker!Inv, Thinker!TypeOK
  <2> QED
    BY <2>1 DEF Thinker!Inv, Thinker!AskedIn, Thinker!Fits, Thinker!At
<1>3. CASE v2' = [v2 EXCEPT ![task] = "idle"] /\ UNCHANGED <<v3, v5>>
  <2>1. Thinker!TypeOK'
    BY <1>1, <1>3 DEF Thinker!Inv, Thinker!TypeOK
  <2>2. \A t \in Thinker!Tasks : v2'[t] = "thinking" <=> v2[t] = "thinking"
    BY <1>1, <1>3
  <2>3. Thinker!AskedIn'
    BY <1>1, <1>3, <2>2 DEF Thinker!Inv, Thinker!AskedIn, Thinker!Fits, Thinker!At
  <2>4. Thinker!InOnePlace'
    BY <1>1, <1>2, <1>3, <2>2 DEF Thinker!Inv, Thinker!InOnePlace, Thinker!Answered, Thinker!At
  <2>5. Thinker!OnlyOldRequest'
    BY <1>1, <1>3 DEF Thinker!Inv, Thinker!OnlyOldRequest, Thinker!At, Thinker!Tasks
  <2>6. Thinker!Requesting' = Thinker!Requesting /\ Thinker!Running' = Thinker!Running
    BY <1>1, <1>3, <2>2 DEF Thinker!Requesting, Thinker!Running
  <2> QED
    BY <1>1, <1>3, <2>1, <2>3, <2>4, <2>5, <2>6 DEF Thinker!Inv, Thinker!HeldByOne
<1>4. CASE /\ v4 # 0 /\ ~v5 /\ v5' = TRUE
           /\ v3' = [v3 EXCEPT ![task] = [question |-> v4, generation |-> v6]]
           /\ v2' = [v2 EXCEPT ![task] = "thinking"]
  <2> DEFINE work == [question |-> v4, generation |-> v6]
  <2>1. work \in Thinker!Work
    BY <1>4 DEF Thinker!Inv, Thinker!TypeOK, Thinker!Work
  <2>2. work.question = v4 /\ work.generation = v6
    OBVIOUS
  <2> HIDE DEF work
  <2>3. v3' = [v3 EXCEPT ![task] = work]
    BY <1>4 DEF work
  <2>4. /\ v3'[task] = work /\ v2'[task] = "thinking"
        /\ \A t \in Thinker!Tasks \ {task} : v3'[t] = v3[t] /\ v2'[t] = v2[t]
    BY <1>1, <1>4, <2>3
  <2>5. Thinker!TypeOK'
    BY <1>1, <1>4, <2>1, <2>3 DEF Thinker!Inv, Thinker!TypeOK
  <2>6. Thinker!AskedIn'
    BY <1>1, <1>4, <2>2, <2>4 DEF Thinker!Inv, Thinker!AskedIn, Thinker!Fits, Thinker!At
  <2>7. Thinker!InOnePlace'
    <3>1. \A t \in Thinker!Tasks : v2'[t] = "thinking" =>
            /\ v3'[t].question # 0
            /\ \A id \in DOMAIN v8 : v8[id].question # v3'[t].question
            /\ \A other \in Thinker!Tasks \ {t} : v2'[other] = "thinking" =>
                 v3'[other].question # v3'[t].question
      BY <1>1, <1>2, <1>4, <2>2, <2>4 DEF Thinker!Inv, Thinker!InOnePlace, Thinker!At
    <3> QED
      BY <1>1, <1>2, <3>1 DEF Thinker!Inv, Thinker!InOnePlace, Thinker!Answered, Thinker!At
  <2>8. Thinker!OnlyOldRequest'
    BY <1>1, <1>4, <2>2, <2>4 DEF Thinker!Inv, Thinker!OnlyOldRequest, Thinker!At, Thinker!Tasks
  <2>9. Thinker!HeldByOne'
    <3>1. v7 = 0 /\ Thinker!Requesting = {} /\ Thinker!Running = {}
      BY <1>4 DEF Thinker!Inv, Thinker!HeldByOne
    <3>2. Thinker!Requesting' = {task}
      BY <1>1, <2>2, <2>4, <3>1 DEF Thinker!Requesting
    <3>3. Thinker!Running' = {}
      BY <1>1, <3>1 DEF Thinker!Running
    <3> QED
      BY <1>1, <1>4, <3>1, <3>2, <3>3 DEF Thinker!HeldByOne
  <2> QED
    BY <2>5, <2>6, <2>7, <2>8, <2>9 DEF Thinker!Inv
<1> QED
  BY <1>3, <1>4 DEF Thinker!StartPending

\* Who requests now is the only one, and nothing of his generation runs; what an
\* older request becomes concerns nobody.
LEMMA Requester ==
  ASSUME Thinker!Inv, NEW task \in Thinker!Tasks, v2[task] = "thinking"
  PROVE  IF v3[task].generation = v6
         THEN v5 /\ v7 = 0 /\ Thinker!Requesting = {task} /\ Thinker!Running = {}
         ELSE ~v5 /\ task \notin Thinker!Requesting
<1>1. CASE v3[task].generation = v6
  <2>1. task \in Thinker!Requesting
    BY <1>1 DEF Thinker!Requesting
  <2> QED
    BY <1>1, <2>1 DEF Thinker!Inv, Thinker!HeldByOne
<1>2. CASE v3[task].generation # v6
  <2>1. task = "process" /\ ~v5
    BY <1>2 DEF Thinker!Inv, Thinker!OnlyOldRequest, Thinker!At, Thinker!Tasks
  <2> QED
    BY <1>2, <2>1 DEF Thinker!Requesting
<1> QED
  BY <1>1, <1>2

\* A request that ends leaves the task idle.
LEMMA RequestEnds ==
  ASSUME Thinker!Inv, NEW task \in Thinker!Tasks, v2[task] = "thinking",
         v2' = [v2 EXCEPT ![task] = "idle"], UNCHANGED <<v1, v3, v6>>, v5' \in {v5, FALSE}
  PROVE  /\ v2' \in [Thinker!Tasks -> {"idle", "media", "thinking"}]
         /\ v2'[task] = "idle" /\ \A t \in Thinker!Tasks \ {task} : v2'[t] = v2[t]
         /\ Thinker!OnlyOldRequest'
         /\ Thinker!Requesting' = Thinker!Requesting \ {task}
<1>1. v2 \in [Thinker!Tasks -> {"idle", "media", "thinking"}]
  BY DEF Thinker!Inv, Thinker!TypeOK
<1>2. /\ v2' \in [Thinker!Tasks -> {"idle", "media", "thinking"}]
      /\ v2'[task] = "idle" /\ \A t \in Thinker!Tasks \ {task} : v2'[t] = v2[t]
  BY <1>1
<1>3. Thinker!OnlyOldRequest'
  BY <1>2 DEF Thinker!Inv, Thinker!OnlyOldRequest, Thinker!At, Thinker!Tasks
<1>4. Thinker!Requesting' = Thinker!Requesting \ {task}
  BY <1>2 DEF Thinker!Requesting
<1> QED
  BY <1>2, <1>3, <1>4

LEMMA RequestFailsKeepsInv ==
  ASSUME Thinker!Inv, NEW task \in Thinker!Tasks, Thinker!RequestFails(task) PROVE Thinker!Inv'
<1>1. /\ v2[task] = "thinking" /\ v2' = [v2 EXCEPT ![task] = "idle"] /\ v5' = FALSE
      /\ UNCHANGED <<v1, v3, v4, v6, v7, v8, v9, v10, v11>>
  BY DEF Thinker!RequestFails
<1>2. /\ v2' \in [Thinker!Tasks -> {"idle", "media", "thinking"}]
      /\ v2'[task] = "idle" /\ \A t \in Thinker!Tasks \ {task} : v2'[t] = v2[t]
      /\ Thinker!OnlyOldRequest'
      /\ Thinker!Requesting' = Thinker!Requesting \ {task}
  BY <1>1, RequestEnds
<1>3. Thinker!TypeOK'
  BY <1>1, <1>2 DEF Thinker!Inv, Thinker!TypeOK
<1>4. Thinker!AskedIn' /\ Thinker!InOnePlace'
  BY <1>1, <1>2 DEF Thinker!Inv, Thinker!AskedIn, Thinker!InOnePlace, Thinker!At, Thinker!Fits, Thinker!Answered
<1>5. Thinker!HeldByOne'
  <2>1. Thinker!Running' = Thinker!Running
    BY <1>1 DEF Thinker!Running
  <2>2. v7 = 0 /\ Thinker!Requesting' = {}
    BY <1>1, <1>2, Requester DEF Thinker!Inv, Thinker!HeldByOne
  <2> QED
    BY <1>1, <2>1, <2>2 DEF Thinker!Inv, Thinker!HeldByOne
<1> QED
  BY <1>2, <1>3, <1>4, <1>5 DEF Thinker!Inv

LEMMA RequestReturnsKeepsInv ==
  ASSUME Thinker!Inv, NEW task \in Thinker!Tasks, Thinker!RequestReturns(task) PROVE Thinker!Inv'
<1> DEFINE job == [question |-> v3[task].question, generation |-> v3[task].generation, running |-> TRUE]
<1>1. /\ v2[task] = "thinking" /\ v2' = [v2 EXCEPT ![task] = "idle"]
      /\ v8' = Append(v8, job)
      /\ v7' = IF v3[task].generation = v6 THEN Len(v8) + 1 ELSE v7
      /\ UNCHANGED <<v1, v3, v4, v5, v6, v9, v10, v11>>
  BY DEF Thinker!RequestReturns
<1>2. /\ v2' \in [Thinker!Tasks -> {"idle", "media", "thinking"}]
      /\ v2'[task] = "idle" /\ \A t \in Thinker!Tasks \ {task} : v2'[t] = v2[t]
      /\ Thinker!OnlyOldRequest'
      /\ Thinker!Requesting' = Thinker!Requesting \ {task}
  BY <1>1, RequestEnds
<1>3. v3[task] \in Thinker!Work /\ v3[task].question \in DOMAIN v10 /\ v10[v3[task].question] = v3[task].generation
  BY <1>1 DEF Thinker!Inv, Thinker!TypeOK, Thinker!AskedIn, Thinker!Fits, Thinker!At
<1>4. job \in JobSet
  <2>1. v3[task].question # 0
    BY <1>3 DEF Thinker!Inv, Thinker!TypeOK
  <2> QED
    BY <1>3, <2>1 DEF JobSet, Thinker!Work
<1>5. job.question = v3[task].question /\ job.generation = v3[task].generation /\ job.running
  OBVIOUS
<1> HIDE DEF job
<1>6. PICK n : n = Len(v8) + 1
  OBVIOUS
<1>7. /\ v8' \in Seq(JobSet) /\ Len(v8') = n /\ n \in Nat \ {0} /\ Len(v8) \in Nat
      /\ DOMAIN v8' = DOMAIN v8 \cup {n} /\ n \notin DOMAIN v8
      /\ \A i \in DOMAIN v8 : v8'[i] = v8[i]
      /\ v8'[n] = job
  <2>1. v8 \in Seq(JobSet)
    BY DEF Thinker!Inv, Thinker!TypeOK, JobSet
  <2> QED
    BY <1>1, <1>4, <1>6, <2>1, Appended
<1>8. Thinker!TypeOK'
  <2>1. v7' \in 0..Len(v8')
    BY <1>1, <1>6, <1>7 DEF Thinker!Inv, Thinker!TypeOK
  <2> QED
    BY <1>1, <1>2, <1>7, <2>1 DEF Thinker!Inv, Thinker!TypeOK, JobSet
<1>9. Thinker!AskedIn'
  <2>1. \A id \in DOMAIN v8' : v8'[id].question \in DOMAIN v10 /\ v8'[id].generation = v10[v8'[id].question]
    BY <1>3, <1>5, <1>7 DEF Thinker!Inv, Thinker!AskedIn, Thinker!Fits
  <2> QED
    BY <1>1, <1>2, <2>1 DEF Thinker!Inv, Thinker!AskedIn, Thinker!Fits, Thinker!At
<1>10. Thinker!InOnePlace'
  <2>1. /\ v3[task].question # v4
        /\ \A id \in DOMAIN v8 : v8[id].question # v3[task].question
        /\ \A other \in Thinker!Tasks \ {task} : v2[other] = "thinking" => v3[other].question # v3[task].question
    BY <1>1 DEF Thinker!Inv, Thinker!InOnePlace, Thinker!At
  <2>2. \A question : Thinker!Answered(question) => \E id \in DOMAIN v8' : v8'[id].question = question /\ ~v8'[id].running
    BY <1>7 DEF Thinker!Answered
  <2>3. \A t \in Thinker!Tasks : v2'[t] = "thinking" =>
          /\ v3'[t].question # v4'
          /\ \A id \in DOMAIN v8' : v8'[id].question # v3'[t].question
          /\ \A other \in Thinker!Tasks \ {t} : v2'[other] = "thinking" => v3'[other].question # v3'[t].question
    BY <1>1, <1>2, <1>5, <1>7, <2>1 DEF Thinker!Inv, Thinker!InOnePlace, Thinker!At
  <2>4. \A id \in DOMAIN v8' :
          /\ v8'[id].question # v4'
          /\ \A other \in DOMAIN v8' \ {id} : v8'[other].question # v8'[id].question
    BY <1>1, <1>5, <1>7, <2>1 DEF Thinker!Inv, Thinker!InOnePlace
  <2> QED
    BY <1>1, <2>2, <2>3, <2>4 DEF Thinker!Inv, Thinker!InOnePlace, Thinker!At, Thinker!Answered
<1>11. Thinker!HeldByOne'
  <2>1. Thinker!Running' = Thinker!Running \cup (IF v3[task].generation = v6 THEN {n} ELSE {})
    BY <1>1, <1>5, <1>7 DEF Thinker!Running
  <2>2. CASE v3[task].generation = v6
    BY <1>1, <1>2, <1>6, <1>7, <2>1, <2>2, Requester DEF Thinker!HeldByOne
  <2>3. CASE v3[task].generation # v6
    <3>1. Thinker!Requesting' = Thinker!Requesting /\ Thinker!Running' = Thinker!Running /\ v7' = v7
      BY <1>1, <1>2, <2>1, <2>3, Requester
    <3> QED
      BY <1>1, <3>1 DEF Thinker!Inv, Thinker!HeldByOne
  <2> QED
    BY <2>2, <2>3
<1> QED
  BY <1>2, <1>8, <1>9, <1>10, <1>11 DEF Thinker!Inv

LEMMA JobResponseKeepsInv ==
  ASSUME Thinker!Inv, NEW id \in DOMAIN v8, NEW answered \in BOOLEAN, Thinker!JobResponse(id, answered)
  PROVE  Thinker!Inv'
<1>1. /\ v8[id].running /\ v8' = [v8 EXCEPT ![id].running = FALSE]
      /\ UNCHANGED <<v1, v2, v3, v4, v6, v10, v11>>
  BY DEF Thinker!JobResponse
<1>2. v8 \in Seq(JobSet)
  BY DEF Thinker!Inv, Thinker!TypeOK, JobSet
<1>3. /\ v8' \in Seq(JobSet) /\ Len(v8') = Len(v8) /\ DOMAIN v8' = DOMAIN v8
      /\ \A i \in DOMAIN v8 :
           v8'[i].question = v8[i].question /\ v8'[i].generation = v8[i].generation
      /\ ~v8'[id].running
      /\ \A i \in DOMAIN v8 \ {id} : v8'[i] = v8[i]
  <2> DEFINE job == [v8[id] EXCEPT !.running = FALSE]
  <2>1. v8[id] \in JobSet /\ DOMAIN v8 = 1..Len(v8) /\ Len(v8) \in Nat
    BY <1>2
  <2>2. job \in JobSet /\ job.question = v8[id].question /\ job.generation = v8[id].generation /\ ~job.running
    BY <2>1 DEF JobSet
  <2>3. v8' = [v8 EXCEPT ![id] = job]
    BY <1>1
  <2> HIDE DEF job
  <2>4. v8' \in Seq(JobSet) /\ Len(v8') = Len(v8)
    BY <1>2, <2>2, <2>3
  <2> QED
    BY <2>1, <2>2, <2>3, <2>4
<1>4. Thinker!Running' = Thinker!Running \ {id}
  BY <1>1, <1>3 DEF Thinker!Running
<1>5. Thinker!Requesting' = Thinker!Requesting
  BY <1>1 DEF Thinker!Requesting
<1> DEFINE f == [question |-> v8[id].question, generation |-> v6]
<1>6. \/ id # v7 /\ UNCHANGED <<v5, v7, v9>>
      \/ id = v7 /\ v5' = FALSE /\ v7' = 0 /\ v9' \in {v9, v9 \cup {f}}
  BY DEF Thinker!JobResponse
<1>7. id = v7 => v8[id].generation = v6 /\ Thinker!Running = {id} /\ Thinker!Requesting = {}
  <2>1. v7 # 0 => v7 \in Thinker!Running /\ Thinker!Running = {v7} /\ Thinker!Requesting = {}
    BY DEF Thinker!Inv, Thinker!HeldByOne
  <2>2. id # 0
    BY <1>2
  <2> QED
    BY <2>1, <2>2 DEF Thinker!Running
<1>8. f \in Thinker!Work /\ f.question = v8[id].question /\ f.generation = v6
  <2>1. v8[id].question \in Thinker!Questions /\ v6 \in 0..MaxInterruptions
    <3>1. v8[id] \in JobSet
      BY <1>2
    <3>2. v8[id].question \in Thinker!Questions
      BY <3>1 DEF JobSet
    <3> QED
      BY <3>2 DEF Thinker!Inv, Thinker!TypeOK
  <2> QED
    BY <2>1 DEF Thinker!Work
<1> HIDE DEF f
<1>9. v8[id].question \in DOMAIN v10 /\ v8[id].generation = v10[v8[id].question]
  BY DEF Thinker!Inv, Thinker!AskedIn, Thinker!Fits
<1>10. Thinker!TypeOK'
  <2>1. v5' \in BOOLEAN /\ v9' \subseteq Thinker!Work
    <3>1. v5 \in BOOLEAN /\ v9 \subseteq Thinker!Work
      BY DEF Thinker!Inv, Thinker!TypeOK
    <3>2. v5' = v5 \/ v5' = FALSE
      BY <1>6
    <3> QED
      BY <1>6, <1>8, <3>1, <3>2, Zenon
  <2>2. v7' \in 0..Len(v8')
    BY <1>3, <1>6 DEF Thinker!Inv, Thinker!TypeOK
  <2> QED
    BY <1>1, <1>3, <2>1, <2>2 DEF Thinker!Inv, Thinker!TypeOK, JobSet
<1>11. Thinker!AskedIn'
  <2>1. \A i \in DOMAIN v8' : v8'[i].question \in DOMAIN v10 /\ v8'[i].generation = v10[v8'[i].question]
    BY <1>3 DEF Thinker!Inv, Thinker!AskedIn, Thinker!Fits
  <2>2. \A g \in v9' : g.question \in DOMAIN v10 /\ g.generation = v10[g.question]
    BY <1>6, <1>7, <1>8, <1>9 DEF Thinker!Inv, Thinker!AskedIn, Thinker!Fits
  <2> QED
    BY <1>1, <2>1, <2>2 DEF Thinker!Inv, Thinker!AskedIn, Thinker!Fits, Thinker!At
<1>12. Thinker!InOnePlace'
  <2>1. \A question : Thinker!Answered(question) \/ question = v8[id].question =>
           \E i \in DOMAIN v8' : v8'[i].question = question /\ ~v8'[i].running
    <3>1. ASSUME NEW question, Thinker!Answered(question)
          PROVE  \E i \in DOMAIN v8' : v8'[i].question = question /\ ~v8'[i].running
      <4>1. PICK i \in DOMAIN v8 : v8[i].question = question /\ ~v8[i].running
        BY <3>1 DEF Thinker!Answered
      <4> QED
        BY <1>1, <1>3, <4>1
    <3> QED
      BY <1>3, <3>1
  <2>2. \A i \in DOMAIN v11 : v11[i].question # v8[id].question
    <3> SUFFICES ASSUME NEW i \in DOMAIN v11, v11[i].question = v8[id].question PROVE FALSE
      OBVIOUS
    <3>1. PICK j \in DOMAIN v8 : v8[j].question = v11[i].question /\ ~v8[j].running
      BY DEF Thinker!Inv, Thinker!InOnePlace, Thinker!Answered
    <3> QED
      BY <1>1, <3>1 DEF Thinker!Inv, Thinker!InOnePlace
  <2>3. \A g \in v9' :
          /\ \E i \in DOMAIN v8' : v8'[i].question = g.question /\ ~v8'[i].running
          /\ \A i \in DOMAIN v11 : v11[i].question # g.question
    BY <1>6, <1>8, <2>1, <2>2 DEF Thinker!Inv, Thinker!InOnePlace
  <2>4. \A i \in DOMAIN v8' :
          /\ v8'[i].question # v4
          /\ \A j \in DOMAIN v8' \ {i} : v8'[j].question # v8'[i].question
    BY <1>3 DEF Thinker!Inv, Thinker!InOnePlace
  <2>5. \A t \in Thinker!Tasks : v2[t] = "thinking" =>
          /\ v3[t].question # v4
          /\ \A i \in DOMAIN v8' : v8'[i].question # v3[t].question
          /\ \A other \in Thinker!Tasks \ {t} : v2[other] = "thinking" => v3[other].question # v3[t].question
    BY <1>3 DEF Thinker!Inv, Thinker!InOnePlace, Thinker!At
  <2>6. \A i \in DOMAIN v11 :
          /\ \E j \in DOMAIN v8' : v8'[j].question = v11[i].question /\ ~v8'[j].running
          /\ \A j \in DOMAIN v11 \ {i} : v11[j].question # v11[i].question
    BY <2>1 DEF Thinker!Inv, Thinker!InOnePlace
  <2> QED
    BY <1>1, <2>3, <2>4, <2>5, <2>6 DEF Thinker!InOnePlace, Thinker!At, Thinker!Answered
<1>13. Thinker!OnlyOldRequest'
  BY <1>1, <1>6 DEF Thinker!Inv, Thinker!OnlyOldRequest, Thinker!At
<1>14. Thinker!HeldByOne'
  <2>1. CASE id # v7
    <3>1. Thinker!Running' = Thinker!Running
      BY <1>4, <2>1 DEF Thinker!Inv, Thinker!HeldByOne
    <3> QED
      BY <1>1, <1>5, <1>6, <2>1, <3>1 DEF Thinker!Inv, Thinker!HeldByOne
  <2>2. CASE id = v7
    BY <1>4, <1>5, <1>6, <1>7, <2>2 DEF Thinker!HeldByOne
  <2> QED
    BY <2>1, <2>2
<1> QED
  BY <1>10, <1>11, <1>12, <1>13, <1>14 DEF Thinker!Inv

LEMMA ThinkerFollowUpKeepsInv ==
  ASSUME Thinker!Inv, NEW f \in v9, Thinker!FollowUp(f) PROVE Thinker!Inv'
<1>1. UNCHANGED <<v1, v2, v3, v4, v5, v6, v7, v8, v10>> /\ v9' = v9 \ {f}
  BY DEF Thinker!FollowUp
<1>2. f \in Thinker!Work /\ f.question \in DOMAIN v10 /\ f.generation = v10[f.question]
  BY DEF Thinker!Inv, Thinker!TypeOK, Thinker!AskedIn, Thinker!Fits
<1>3. v11' = IF f.generation = v6 THEN Append(v11, f) ELSE v11
  <2>1. f = [question |-> f.question, generation |-> f.generation]
    BY <1>2 DEF Thinker!Work
  <2> QED
    BY <2>1 DEF Thinker!FollowUp
<1>4. /\ v11' \in Seq(Thinker!Work)
      /\ \A i \in DOMAIN v11' : IF i \in DOMAIN v11 THEN v11'[i] = v11[i] ELSE v11'[i] = f
      /\ \A i, j \in DOMAIN v11' : i # j => i \in DOMAIN v11 \/ j \in DOMAIN v11
  <2>1. v11 \in Seq(Thinker!Work)
    BY DEF Thinker!Inv, Thinker!TypeOK
  <2> QED
    BY <1>2, <1>3, <2>1, Appended
<1>5. Thinker!TypeOK'
  BY <1>1, <1>4 DEF Thinker!Inv, Thinker!TypeOK
<1>6. Thinker!AskedIn'
  BY <1>1, <1>2, <1>4 DEF Thinker!Inv, Thinker!AskedIn, Thinker!Fits, Thinker!At
<1>7. Thinker!InOnePlace'
  <2>1. \A g \in v9 : g.question = f.question => g = f
    <3> SUFFICES ASSUME NEW g \in v9, g.question = f.question PROVE g = f
      OBVIOUS
    <3>1. g \in Thinker!Work /\ g.generation = v10[g.question]
      BY DEF Thinker!Inv, Thinker!TypeOK, Thinker!AskedIn, Thinker!Fits
    <3> QED
      BY <1>2, <3>1 DEF Thinker!Work
  <2>2. \A i \in DOMAIN v11 : v11[i].question # f.question
    BY DEF Thinker!Inv, Thinker!InOnePlace
  <2>3. \A i \in DOMAIN v11' :
          /\ Thinker!Answered(v11'[i].question)
          /\ \A j \in DOMAIN v11' \ {i} : v11'[j].question # v11'[i].question
    <3> SUFFICES ASSUME NEW i \in DOMAIN v11'
                 PROVE  /\ Thinker!Answered(v11'[i].question)
                        /\ \A j \in DOMAIN v11' \ {i} : v11'[j].question # v11'[i].question
      OBVIOUS
    <3>1. Thinker!Answered(v11'[i].question)
      BY <1>4 DEF Thinker!Inv, Thinker!InOnePlace
    <3>2. ASSUME NEW j \in DOMAIN v11' \ {i} PROVE v11'[j].question # v11'[i].question
      BY <1>4, <2>2, <3>2 DEF Thinker!Inv, Thinker!InOnePlace
    <3> QED
      BY <3>1, <3>2
  <2>4. \A g \in v9' : \A i \in DOMAIN v11' : v11'[i].question # g.question
    BY <1>1, <1>4, <2>1 DEF Thinker!Inv, Thinker!InOnePlace
  <2> QED
    BY <1>1, <2>3, <2>4 DEF Thinker!Inv, Thinker!InOnePlace, Thinker!At, Thinker!Answered
<1>8. Thinker!OnlyOldRequest' /\ Thinker!HeldByOne'
  BY <1>1 DEF Thinker!Inv, Thinker!OnlyOldRequest, Thinker!HeldByOne, Thinker!At, Thinker!Requesting,
     Thinker!Running
<1> QED
  BY <1>5, <1>6, <1>7, <1>8 DEF Thinker!Inv

LEMMA ThinkerUnchanged ==
  ASSUME Thinker!Inv, UNCHANGED <<v1, v2, v3, v4, v5, v6, v7, v8, v9, v10, v11>> PROVE Thinker!Inv'
<1>1. v1 \in Flags
  BY DEF Thinker!Inv, Thinker!TypeOK, Flags
<1> QED
  BY <1>1, FlagsKeepInv

LEMMA ThinkerStep == Thinker!Inv /\ Thinker!Next => Thinker!Inv'
BY ProcessorKeepsInv, UserStartedSpeakingKeepsInv, QueueKeepsInv, StartPendingKeepsInv, RequestFailsKeepsInv,
   RequestReturnsKeepsInv, JobResponseKeepsInv, ThinkerFollowUpKeepsInv DEF Thinker!Next

\* The size of a set is the same in the instance.
LEMMA ThinkerCardinality == \A S : Thinker!Cardinality(S) = Cardinality(S)
BY Zenon DEF Thinker!Cardinality, Cardinality

\* What the invariant says of the answers and of the flag.
LEMMA AnswersOfOnePass == Thinker!Inv => Thinker!AnswersUninterrupted /\ Thinker!OnePass
<1> SUFFICES ASSUME Thinker!Inv PROVE Thinker!AnswersUninterrupted /\ Thinker!OnePass
  OBVIOUS
<1>1. Thinker!AnswersUninterrupted
  <2>1. DOMAIN v11 = 1..Len(v11) /\ Len(v11) \in Nat
    BY DEF Thinker!Inv, Thinker!TypeOK
  <2>2. ASSUME NEW i \in DOMAIN v11, NEW j \in 1..(i - 1) PROVE v11[j].question # v11[i].question
    <3>1. j \in DOMAIN v11 \ {i}
      BY <2>1
    <3> QED
      BY <3>1 DEF Thinker!Inv, Thinker!InOnePlace
  <2>3. \A i \in DOMAIN v11 : v11[i].generation = v10[v11[i].question]
    BY DEF Thinker!Inv, Thinker!AskedIn, Thinker!Fits
  <2> QED
    BY <2>2, <2>3 DEF Thinker!AnswersUninterrupted
<1>2. Thinker!OnePass
  <2>1. v7 # 0 => v7 \in Thinker!Running
    BY DEF Thinker!Inv, Thinker!HeldByOne
  <2>2. CASE v5 /\ v7 = 0
    <3>1. PICK task \in Thinker!Tasks : Thinker!Requesting = {task}
      BY <2>2 DEF Thinker!Inv, Thinker!HeldByOne
    <3>2. Thinker!Running = {}
      BY <2>2 DEF Thinker!Inv, Thinker!HeldByOne
    <3>3. Cardinality(Thinker!Requesting) = 1 /\ Cardinality(Thinker!Running) = 0
      BY <3>1, <3>2, FS_Singleton, FS_EmptySet, Zenon
    <3>4. Cardinality(Thinker!Requesting) + Cardinality(Thinker!Running) = (IF v5 THEN 1 ELSE 0)
      BY <2>2, <3>3
    <3> QED
      BY <2>1, <3>4, ThinkerCardinality DEF Thinker!OnePass
  <2>3. CASE v5 /\ v7 # 0
    <3>1. Thinker!Requesting = {} /\ Thinker!Running = {v7}
      BY <2>3 DEF Thinker!Inv, Thinker!HeldByOne
    <3>2. Cardinality(Thinker!Requesting) = 0 /\ Cardinality(Thinker!Running) = 1
      BY <3>1, FS_Singleton, FS_EmptySet, Zenon
    <3>3. Cardinality(Thinker!Requesting) + Cardinality(Thinker!Running) = (IF v5 THEN 1 ELSE 0)
      BY <2>3, <3>2
    <3> QED
      BY <2>1, <3>3, ThinkerCardinality DEF Thinker!OnePass
  <2>4. CASE ~v5
    <3>1. Thinker!Requesting = {} /\ Thinker!Running = {}
      BY <2>4 DEF Thinker!Inv, Thinker!HeldByOne
    <3>2. Cardinality(Thinker!Requesting) = 0 /\ Cardinality(Thinker!Running) = 0
      BY <3>1, FS_EmptySet, Zenon
    <3>3. Cardinality(Thinker!Requesting) + Cardinality(Thinker!Running) = (IF v5 THEN 1 ELSE 0)
      BY <2>4, <3>2
    <3> QED
      BY <2>1, <3>3, ThinkerCardinality DEF Thinker!OnePass
  <2> QED
    BY <2>2, <2>3, <2>4
<1> QED
  BY <1>1, <1>2

\* An answer of the Thinker is spoken at most once and only if nobody has
\* interrupted the assistant since its question was queued, and one question is
\* with the Thinker at a time (ThinkingController), for any number of questions
\* and interruptions.
THEOREM OnePassAtATime == Spec => []OnePassAnswers
<1> DEFINE Safe == component = "thinking" => Thinker!Inv
<1>1. Init => Safe
  BY ThinkerInit DEF Init
<1>2. Safe /\ [Next]_vars => Safe'
  <2> SUFFICES ASSUME Safe, [Next]_vars, component' = "thinking" PROVE Thinker!Inv'
    OBVIOUS
  <2>1. CASE component = "thinking" /\ Thinker!Next
    BY <2>1, ThinkerStep
  <2>2. CASE component = "thinking" /\ UNCHANGED vars
    BY <2>2, ThinkerUnchanged DEF vars
  <2> QED
    BY <2>1, <2>2 DEF Next, vars
<1>3. Safe => OnePassAnswers
  BY AnswersOfOnePass DEF OnePassAnswers
<1> QED
  BY <1>1, <1>2, <1>3, PTL DEF Spec


(***************************************************************************)
(* MediaAnalysis.                                                          *)
(***************************************************************************)
Asks        == [attachment : Media!Ids, capture : BOOLEAN, patch : BOOLEAN]
AnalyzerJob == [attachment : Media!Ids, capture : BOOLEAN, patch : BOOLEAN, running : BOOLEAN]
Answers     == [attachment : Media!Ids, capture : BOOLEAN]
Prompts     == [attachment : Media!Ids, action : {"new", "rerun"}]
Analyses    == {c \in v12 : ~c.capture}

LEMMA MediaTypes ==
  Media!TypeOK <=>
    /\ v1 \in {"running", "leaving", "ended"}
    /\ v2 \in [Media!Sources -> 0..MaxAttachments]
    /\ v3 \subseteq [id : Media!Ids, source : Media!Sources] /\ v4 \in 0..MaxAttachments
    /\ v5 \in 0..MaxAttachments
    /\ v7 \in 0..MaxCaptures /\ v6 \in 0..MaxCaptures /\ v8 \in BOOLEAN
    /\ v9 \in Prompts \cup {Media!NoPrompt}
    /\ v10 \in Media!Ids \cup {0} /\ v11 \in Media!Ids \cup {0}
    /\ v12 \subseteq Asks /\ v13 \in Seq(AnalyzerJob) /\ v14 \subseteq Answers
    /\ v15 \subseteq Media!Ids \cup {0} /\ v16 \in BOOLEAN
BY DEF Media!TypeOK, Asks, AnalyzerJob, Answers, Prompts, Media!Pending

LEMMA MediaBounds == MaxAttachments \in Nat /\ MaxCaptures \in Nat /\ MaxJobs \in Nat
BY AssistantAssumption DEF AssistantAssumption, Media!BoundsAssumption

\* A nonempty set of naturals has a least element, and a bounded one a greatest.
LEMMA Least ==
  ASSUME NEW T, T \subseteq Nat, T # {} PROVE \E x \in T : \A y \in T : x <= y
<1>1. \E x \in T : \A y \in T : ~ (<<y, x>> \in OpToRel(<,Nat))
  BY WFMin, NatLessThanWellFounded, Zenon
<1>2. PICK x \in T : \A y \in T : ~ (<<y, x>> \in OpToRel(<,Nat))
  BY <1>1
<1>3. \A y \in T : ~(y < x)
  BY <1>2 DEF OpToRel
<1> QED
  BY <1>3

LEMMA MaxIs ==
  ASSUME NEW S, S \subseteq Nat, NEW m \in S, \A y \in S : y <= m PROVE Media!Max(S) = m
<1>1. \A x \in S : (\A y \in S : x >= y) => x = m
  <2> SUFFICES ASSUME NEW x \in S, \A y \in S : x >= y PROVE x = m
    OBVIOUS
  <2>1. x >= m /\ x <= m /\ x \in Nat /\ m \in Nat
    OBVIOUS
  <2> QED
    BY <2>1
<1>2. m \in S /\ \A y \in S : m >= y
  OBVIOUS
<1> QED
  BY <1>1, <1>2 DEF Media!Max

LEMMA MaxIn ==
  ASSUME NEW n \in Nat, NEW S, S \subseteq 1..n, S # {} PROVE Media!Max(S) \in S
<1> DEFINE T == {n - x : x \in S}
<1>1. T \subseteq Nat /\ T # {}
  OBVIOUS
<1>2. PICK t \in T : \A y \in T : t <= y
  BY <1>1, Least
<1>3. PICK m \in S : t = n - m
  OBVIOUS
<1>4. \A y \in S : y <= m
  <2> SUFFICES ASSUME NEW y \in S PROVE y <= m
    OBVIOUS
  <2>1. n - y \in T
    OBVIOUS
  <2> QED
    BY <1>2, <1>3, <2>1
<1>5. S \subseteq Nat
  OBVIOUS
<1>6. Media!Max(S) = m
  BY <1>4, <1>5, MaxIs
<1> QED
  BY <1>6

(* The latest upload, as the store changes. *)
LEMMA LatestUploadIn ==
  ASSUME Media!TypeOK
  PROVE  Media!LatestUpload = 0 \/ (Media!LatestUpload \in Media!Ids /\ Media!Uploaded(Media!LatestUpload))
<1> DEFINE U == {a \in v3 : a.source = "upload"}
           I == {a.id : a \in U}
<1>1. I \subseteq 1..MaxAttachments
  BY DEF Media!TypeOK, Media!Ids
<1>2. Media!LatestUpload = IF U = {} THEN 0 ELSE Media!Max(I)
  BY DEF Media!LatestUpload, Media!LatestOf
<1>3. CASE U = {}
  BY <1>2, <1>3
<1>4. CASE U # {}
  <2>1. I # {}
    BY <1>4
  <2> HIDE DEF I
  <2>2. Media!LatestUpload \in I
    BY <1>1, <1>2, <1>4, <2>1, MaxIn, MediaBounds
  <2> USE DEF I
  <2>3. PICK a \in U : a.id = Media!LatestUpload
    BY <2>2
  <2>4. a = [id |-> a.id, source |-> "upload"] /\ a \in v3 /\ a.id \in Media!Ids
    BY <2>3 DEF Media!TypeOK
  <2> QED
    BY <2>3, <2>4 DEF Media!Uploaded
<1> QED
  BY <1>3, <1>4

LEMMA SameUploads ==
  ASSUME {a \in v3' : a.source = "upload"} = {a \in v3 : a.source = "upload"}
  PROVE  Media!LatestUpload' = Media!LatestUpload
BY Zenon DEF Media!LatestUpload

LEMMA UploadAdded ==
  ASSUME Media!TypeOK, Media!Counted, v3' = v3 \cup {[id |-> v4 + 1, source |-> "upload"]}
  PROVE  Media!LatestUpload' = v4 + 1
<1> DEFINE U == {a \in v3' : a.source = "upload"}
           I == {a.id : a \in U}
<1>1. v4 \in Nat /\ \A a \in v3 : a.id \in Nat /\ a.id <= v4
  BY MediaBounds DEF Media!TypeOK, Media!Counted, Media!Ids
<1>2. v4 + 1 \in I
  <2>1. [id |-> v4 + 1, source |-> "upload"] \in U
    OBVIOUS
  <2> QED
    BY <2>1
<1>3. I \subseteq Nat /\ \A y \in I : y <= v4 + 1
  BY <1>1
<1>4. Media!LatestUpload' = IF U = {} THEN 0 ELSE Media!Max(I)
  BY DEF Media!LatestUpload, Media!LatestOf
<1>5. U # {}
  BY <1>2
<1> HIDE DEF U, I
<1> QED
  BY <1>2, <1>3, <1>4, <1>5, MaxIs

LEMMA CaptureRemoved ==
  ASSUME Media!TypeOK, NEW id, Media!Captured(id), v3' = Media!Without(id)
  PROVE  /\ Media!LatestUpload' = Media!LatestUpload
         /\ v3' \subseteq v3 /\ \A i : Media!Uploaded(i)' <=> Media!Uploaded(i)
<1>1. \A a \in v3 : a.source = "upload" => a.id # id
  <2> SUFFICES ASSUME NEW a \in v3, a.source = "upload", a.id = id PROVE FALSE
    OBVIOUS
  <2>1. a = [id |-> id, source |-> "upload"]
    BY DEF Media!TypeOK
  <2> QED
    BY <2>1 DEF Media!Captured, Media!Uploaded
<1>2. v3' \subseteq v3 /\ \A a \in v3 : a.source = "upload" => a \in v3'
  BY <1>1 DEF Media!Without
<1>3. {a \in v3' : a.source = "upload"} = {a \in v3 : a.source = "upload"}
  BY <1>2
<1>4. Media!LatestUpload' = Media!LatestUpload
  BY <1>3, SameUploads
<1>5. ASSUME NEW i PROVE Media!Uploaded(i)' <=> Media!Uploaded(i)
  BY <1>2 DEF Media!Uploaded
<1> QED
  BY <1>2, <1>4, <1>5

LEMMA MediaInit == Media!Init => Media!Inv
<1> SUFFICES ASSUME Media!Init PROVE Media!Inv
  OBVIOUS
<1> USE MediaBounds
<1>1. Media!TypeOK
  <2>1. v13 \in Seq(AnalyzerJob) /\ v2 \in [Media!Sources -> 0..MaxAttachments]
    BY DEF Media!Init
  <2>2. v9 = Media!NoPrompt /\ v1 = "running" /\ v3 = {} /\ v4 = 0 /\ v5 = 0 /\ v6 = 0 /\ v7 = 0 /\ v8 = FALSE
        /\ v10 = 0 /\ v11 = 0 /\ v12 = {} /\ v14 = {} /\ v15 = {} /\ v16 = FALSE
    BY DEF Media!Init
  <2>3. v4 \in 0..MaxAttachments /\ v5 \in 0..MaxAttachments /\ v6 \in 0..MaxCaptures /\ v7 \in 0..MaxCaptures
    BY <2>2
  <2>4. v3 \subseteq [id : Media!Ids, source : Media!Sources] /\ v12 \subseteq Asks /\ v14 \subseteq Answers
        /\ v15 \subseteq Media!Ids \cup {0}
    BY <2>2
  <2>5. v8 \in BOOLEAN /\ v16 \in BOOLEAN /\ v1 \in {"running", "leaving", "ended"}
        /\ v9 \in Prompts \cup {Media!NoPrompt} /\ v10 \in Media!Ids \cup {0} /\ v11 \in Media!Ids \cup {0}
    BY <2>2
  <2> QED
    BY ONLY <2>1, <2>3, <2>4, <2>5, MediaTypes
<1>2. Media!LatestUpload = 0
  <2>1. {a \in v3 : a.source = "upload"} = {}
    BY DEF Media!Init
  <2> QED
    BY <2>1 DEF Media!LatestUpload, Media!LatestOf
<1>3. v12 = {} /\ DOMAIN v13 = {} /\ v14 = {} /\ v3 = {} /\ v9 = Media!NoPrompt /\ v10 = 0 /\ v11 = 0 /\ v7 = 0
      /\ v6 = 0 /\ v4 = 0 /\ v5 = 0 /\ v8 = FALSE /\ v2["upload"] = 0 /\ v2["capture"] = 0
  BY DEF Media!Init, Media!Sources
<1>4. Media!Counted /\ Media!OfSource /\ Media!PatchesFit /\ Media!BoardAgreesWithGate
  BY <1>2, <1>3 DEF Media!Counted, Media!OfSource, Media!PatchesFit, Media!BoardAgreesWithGate
<1>5. Media!OneUnderWay
  BY <1>3 DEF Media!OneUnderWay, Media!Asked, Media!Analyzed, Media!Waiting
<1>6. Media!CallbackDue
  BY <1>2, <1>3 DEF Media!CallbackDue, Media!CaptureKnown
<1> QED
  BY <1>1, <1>4, <1>5, <1>6 DEF Media!Inv

\* Ids keep their source, and fewer of them are about, ...
LEMMA StillOfSource ==
  ASSUME Media!OfSource,
         \A id : (Media!Uploaded(id) => Media!Uploaded(id)') /\ (Media!Captured(id) => Media!Captured(id)'),
         v9' \in {v9, Media!NoPrompt}, v10' \in {v10, 0}, v11' = v11, v12' \subseteq v12, v13' = v13,
         v14' \subseteq v14
  PROVE  Media!OfSource'
BY DEF Media!OfSource

\* ... the analyses under way are the same, of the same latest upload, ...
LEMMA StillUnderWay ==
  ASSUME Media!OneUnderWay, Media!PatchesFit, Media!LatestUpload' = Media!LatestUpload,
         UNCHANGED <<v10, v11, v13, v14>>, Analyses' = Analyses
  PROVE  Media!OneUnderWay' /\ Media!PatchesFit'
<1>1. \A a : Media!Asked(a)' = Media!Asked(a) /\ Media!Analyzed(a)' = Media!Analyzed(a)
             /\ (Media!Waiting(a)' <=> Media!Waiting(a))
  BY DEF Media!Asked, Media!Analyzed, Media!Waiting, Analyses
<1>2. \A c : c \in v12' /\ ~c.capture <=> c \in v12 /\ ~c.capture
  BY DEF Analyses
<1> QED
  BY <1>1, <1>2 DEF Media!OneUnderWay, Media!PatchesFit

\* ... or a newer upload supersedes them all.
LEMMA SupersededUnderWay ==
  ASSUME Media!Inv, Media!LatestUpload' = v4 + 1, UNCHANGED <<v10, v11, v12, v13, v14>>
  PROVE  Media!OneUnderWay' /\ Media!PatchesFit'
<1>1. \A a : Media!Asked(a)' = Media!Asked(a) /\ Media!Analyzed(a)' = Media!Analyzed(a)
             /\ (Media!Waiting(a)' <=> Media!Waiting(a))
  BY DEF Media!Asked, Media!Analyzed, Media!Waiting
<1>2. \A id : Media!Uploaded(id) \/ Media!Captured(id) => id # v4 + 1
  <2>1. v4 \in Nat
    BY MediaBounds DEF Media!Inv, Media!TypeOK
  <2>2. ASSUME NEW id, Media!Uploaded(id) PROVE id # v4 + 1
    BY <2>1, <2>2 DEF Media!Inv, Media!Counted, Media!Uploaded
  <2>3. ASSUME NEW id, Media!Captured(id) PROVE id # v4 + 1
    BY <2>1, <2>3 DEF Media!Captured
  <2> QED
    BY <2>2, <2>3
<1>3. /\ \A c \in v12 : c.attachment # v4 + 1
      /\ \A id \in DOMAIN v13 : v13[id].attachment # v4 + 1
      /\ \A d \in v14 : d.attachment # v4 + 1
  BY <1>2 DEF Media!Inv, Media!OfSource
<1>4. Media!Asked(v4 + 1) = {} /\ Media!Analyzed(v4 + 1) = {} /\ ~Media!Waiting(v4 + 1)
  BY <1>3 DEF Media!Asked, Media!Analyzed, Media!Waiting
<1>5. Media!OneUnderWay'
  BY <1>1, <1>4 DEF Media!Inv, Media!OneUnderWay
<1>6. Media!PatchesFit'
  BY <1>3 DEF Media!PatchesFit
<1> QED
  BY <1>5, <1>6

\* A callback due is what keeps the board from calling an upload pending.
LEMMA BoardFollows ==
  ASSUME Media!CallbackDue', Media!TypeOK',
         v1' = "running" /\ Media!LatestUpload' # 0 /\ v11' = Media!LatestUpload' => v15' = {Media!LatestUpload'}
  PROVE  Media!BoardAgreesWithGate'
BY DEF Media!CallbackDue, Media!BoardAgreesWithGate, Media!TypeOK, Media!Pending

LEMMA SameAttachments ==
  ASSUME Media!Inv, UNCHANGED <<v3, v4>>
  PROVE  /\ Media!LatestUpload' = Media!LatestUpload
         /\ \A id : (Media!Uploaded(id)' <=> Media!Uploaded(id)) /\ (Media!Captured(id)' <=> Media!Captured(id))
<1>1. Media!LatestUpload' = Media!LatestUpload
  BY SameUploads
<1> QED
  BY <1>1 DEF Media!Uploaded, Media!Captured

LEMMA BeginUploadKeepsInv ==
  ASSUME Media!Inv, NEW source \in Media!Sources, Media!BeginUpload(source) PROVE Media!Inv'
<1>1. /\ v4 + v2["upload"] + v2["capture"] < MaxAttachments
      /\ source = "capture" => v6 # 0
      /\ v6' \in {0, v6} /\ v2' = [v2 EXCEPT ![source] = @ + 1]
      /\ UNCHANGED <<v1, v3, v4, v5, v7, v8, v9, v10, v11, v12, v13, v14, v15, v16>>
  BY DEF Media!BeginUpload
<1>2. v2 \in [Media!Sources -> 0..MaxAttachments] /\ v4 \in 0..MaxAttachments
      /\ v6 \in 0..MaxCaptures /\ v7 \in 0..MaxCaptures /\ v6 <= v7
  BY DEF Media!Inv, Media!TypeOK, Media!Counted
<1>3. v2["upload"] \in Nat /\ v2["capture"] \in Nat /\ v4 \in Nat /\ v7 \in Nat /\ v6 \in Nat
  BY <1>2, MediaBounds DEF Media!Sources
<1>4. v2[source] + 1 \in 0..MaxAttachments /\ v2'["upload"] + v2'["capture"] = v2["upload"] + v2["capture"] + 1
  BY <1>1, <1>2, <1>3, MediaBounds DEF Media!Sources
<1>5. Media!TypeOK'
  <2>1. v2' \in [Media!Sources -> 0..MaxAttachments] /\ v6' \in 0..MaxCaptures
    BY <1>1, <1>2, <1>4, MediaBounds
  <2> QED
    BY <1>1, <2>1 DEF Media!Inv, Media!TypeOK
<1>6. Media!Counted'
  <2>1. v4' + v2'["upload"] + v2'["capture"] <= MaxAttachments
    <3>1. v2'["upload"] \in Nat /\ v2'["capture"] \in Nat
      BY <1>5, MediaBounds DEF Media!TypeOK, Media!Sources
    <3> QED
      BY <1>1, <1>3, <1>4, <3>1, MediaBounds
  <2> QED
    BY <1>1, <1>2, <1>3, <2>1 DEF Media!Inv, Media!Counted, Media!Uploaded
<1>7. Media!LatestUpload' = Media!LatestUpload /\ Analyses' = Analyses /\ Media!OfSource'
  BY <1>1, SameAttachments, StillOfSource DEF Media!Inv, Analyses
<1>8. Media!OneUnderWay' /\ Media!PatchesFit'
  BY <1>1, <1>7, StillUnderWay DEF Media!Inv
<1>9. Media!CallbackDue'
  <2>1. v7 = 0 => source = "upload" /\ v2'["capture"] = v2["capture"]
    BY <1>1, <1>2, <1>3 DEF Media!Sources
  <2>2. (Media!CaptureKnown' <=> Media!CaptureKnown) /\ (Media!LatestIsCapture' <=> Media!LatestIsCapture)
    BY <1>1 DEF Media!CaptureKnown, Media!LatestIsCapture
  <2> QED
    BY <1>1, <1>7, <2>1, <2>2 DEF Media!Inv, Media!CallbackDue
<1>10. Media!BoardAgreesWithGate'
  BY <1>1, <1>7 DEF Media!Inv, Media!BoardAgreesWithGate
<1> QED
  BY <1>5, <1>6, <1>7, <1>8, <1>9, <1>10 DEF Media!Inv

LEMMA EndUploadKeepsInv ==
  ASSUME Media!Inv, NEW source \in Media!Sources, Media!EndUpload(source) PROVE Media!Inv'
<1> DEFINE new == [id |-> v4 + 1, source |-> source]
<1>1. /\ v2[source] > 0 /\ v2' = [v2 EXCEPT ![source] = @ - 1]
      /\ \/ UNCHANGED <<v3, v4, v5>>
         \/ /\ v3' = v3 \cup {new} /\ v4' = v4 + 1
            /\ v5' = IF v1 = "running" THEN v5 + 1 ELSE v5
      /\ UNCHANGED <<v1, v6, v7, v8, v9, v10, v11, v12, v13, v14, v15, v16>>
  BY DEF Media!EndUpload
<1>2. v2 \in [Media!Sources -> 0..MaxAttachments] /\ v4 \in Nat /\ v5 \in Nat /\ v5 <= v4
      /\ v2["upload"] \in Nat /\ v2["capture"] \in Nat /\ v2[source] \in Nat
      /\ v4 + v2["upload"] + v2["capture"] <= MaxAttachments
  BY MediaBounds DEF Media!Inv, Media!TypeOK, Media!Counted, Media!Sources
<1>3. /\ v2' \in [Media!Sources -> 0..MaxAttachments]
      /\ v2'["upload"] + v2'["capture"] = v2["upload"] + v2["capture"] - 1
      /\ v2'["upload"] \in Nat /\ v2'["capture"] \in Nat
      /\ v2["capture"] = 0 => source = "upload" /\ v2'["capture"] = 0
  <2>1. v2[source] - 1 \in 0..MaxAttachments
    BY <1>1, <1>2, MediaBounds
  <2> QED
    BY <1>1, <1>2, <2>1, MediaBounds DEF Media!Sources
<1>4. v4 + 1 <= MaxAttachments /\ v4' \in v4..(v4 + 1) /\ v5' <= v4' /\ v5' \in Nat
      /\ v4' + v2'["upload"] + v2'["capture"] <= MaxAttachments
  BY <1>1, <1>2, <1>3, MediaBounds DEF Media!Sources
<1>5. new.id = v4 + 1 /\ new.source = source /\ new \in [id : Media!Ids, source : Media!Sources]
  BY <1>2, <1>4, MediaBounds DEF Media!Ids
<1>6. Media!TypeOK'
  <2>1. v4' \in 0..MaxAttachments /\ v5' \in 0..MaxAttachments
    BY <1>2, <1>4, MediaBounds
  <2>2. v3' \subseteq [id : Media!Ids, source : Media!Sources]
    BY <1>1, <1>5 DEF Media!Inv, Media!TypeOK
  <2> QED
    BY <1>1, <1>3, <2>1, <2>2 DEF Media!Inv, Media!TypeOK
<1>7. \A a \in v3 : a.id \in Nat /\ a.id <= v4 /\ (Media!Uploaded(a.id) => a.source = "upload")
  BY MediaBounds DEF Media!Inv, Media!TypeOK, Media!Counted, Media!Ids
<1>8. ~Media!Uploaded(v4 + 1)
  <2>1. \A a \in v3 : a.id # v4 + 1
    BY <1>2, <1>7
  <2> QED
    BY <2>1 DEF Media!Uploaded
<1>9. \A id : /\ Media!Uploaded(id)' => Media!Uploaded(id) \/ (id = v4 + 1 /\ source = "upload")
              /\ Media!Uploaded(id) => Media!Uploaded(id)'
              /\ Media!Captured(id) => Media!Captured(id)'
  <2>1. ASSUME NEW id
        PROVE  /\ Media!Uploaded(id)' => Media!Uploaded(id) \/ (id = v4 + 1 /\ source = "upload")
               /\ Media!Uploaded(id) => Media!Uploaded(id)'
    <3>1. [id |-> id, source |-> "upload"] = new => id = v4 + 1 /\ source = "upload"
      BY <1>5
    <3> QED
      BY <1>1, <3>1 DEF Media!Uploaded
  <2>2. ASSUME NEW id, Media!Captured(id) PROVE Media!Captured(id)'
    <3>1. id \in 1..v4 /\ ~Media!Uploaded(id)
      BY <2>2 DEF Media!Captured
    <3>2. id \in 1..v4' /\ id # v4 + 1
      BY <1>2, <1>4, <3>1
    <3> QED
      BY <2>1, <3>1, <3>2 DEF Media!Captured
  <2> QED
    BY <2>1, <2>2
<1> HIDE DEF new
<1>10. Media!Counted'
  <2>1. \A a \in v3' : a.id <= v4' /\ (Media!Uploaded(a.id)' => a.source = "upload")
    <3> SUFFICES ASSUME NEW a \in v3' PROVE a.id <= v4' /\ (Media!Uploaded(a.id)' => a.source = "upload")
      OBVIOUS
    <3>1. CASE a \in v3
      BY <1>2, <1>4, <1>7, <1>9, <3>1
    <3>2. CASE a \notin v3
      <4>1. a = new /\ v4' = v4 + 1
        BY <1>1, <3>2
      <4> QED
        BY <1>2, <1>5, <1>8, <1>9, <4>1
    <3> QED
      BY <3>1, <3>2
  <2> QED
    BY <1>1, <1>4, <2>1 DEF Media!Inv, Media!Counted
<1>11. Media!OfSource'
  BY <1>1, <1>9, StillOfSource DEF Media!Inv
<1>12. CASE v3' = v3 /\ v4' = v4 /\ v5' = v5
  <2>1. Media!LatestUpload' = Media!LatestUpload /\ Analyses' = Analyses
    BY <1>1, <1>12, SameAttachments DEF Analyses
  <2>2. Media!OneUnderWay' /\ Media!PatchesFit'
    BY <1>1, <2>1, StillUnderWay DEF Media!Inv
  <2>3. Media!CallbackDue' /\ Media!BoardAgreesWithGate'
    BY <1>1, <1>3, <1>12, <2>1 DEF Media!Inv, Media!CallbackDue, Media!BoardAgreesWithGate, Media!CaptureKnown,
       Media!LatestIsCapture
  <2> QED
    BY <1>6, <1>10, <1>11, <2>2, <2>3 DEF Media!Inv
<1>13. CASE /\ v3' = v3 \cup {new} /\ v4' = v4 + 1
            /\ v5' = IF v1 = "running" THEN v5 + 1 ELSE v5
  <2>1. Media!CaptureKnown' <=> Media!CaptureKnown
    BY <1>1 DEF Media!CaptureKnown
  <2>2. CASE source = "upload"
    <3>1. Media!LatestUpload' = v4 + 1
      BY <1>13, <2>2, UploadAdded DEF Media!Inv, new
    <3>2. Media!OneUnderWay' /\ Media!PatchesFit'
      BY <1>1, <3>1, SupersededUnderWay
    <3>3. Media!LatestOf(v3') = v4 + 1
      <4>1. {a.id : a \in v3'} \subseteq Nat /\ v4 + 1 \in {a.id : a \in v3'}
            /\ \A y \in {a.id : a \in v3'} : y <= v4 + 1
        BY <1>2, <1>5, <1>7, <1>13
      <4>2. Media!Max({a.id : a \in v3'}) = v4 + 1
        BY <4>1, MaxIs
      <4> QED
        BY <1>13, <4>2 DEF Media!LatestOf
    <3>4. ~Media!LatestIsCapture'
      <4>1. ASSUME NEW a \in v3', a.id = v4 + 1 PROVE a.source = "upload"
        BY <1>2, <1>5, <1>7, <1>13, <2>2, <4>1
      <4>2. Media!LatestIsCapture' => [id |-> v4 + 1, source |-> "capture"] \in v3'
        BY <3>3 DEF Media!LatestIsCapture
      <4> QED
        BY <4>1, <4>2
    <3>5. Media!CallbackDue'
      <4>1. v1 = "running" => v5' >= 1
        BY <1>2, <1>13
      <4>2. \A a \in v3' : a \in v3 \/ a.source = "upload"
        BY <1>5, <1>13, <2>2
      <4> QED
        BY <1>1, <1>3, <2>1, <3>4, <4>1, <4>2 DEF Media!Inv, Media!CallbackDue
    <3>6. v11 # v4 + 1
      <4>1. Media!Uploaded(v11) \/ v11 = 0
        BY DEF Media!Inv, Media!OfSource
      <4> QED
        BY <1>2, <1>8, <4>1
    <3>7. Media!BoardAgreesWithGate'
      BY <1>1, <1>6, <3>1, <3>5, <3>6, BoardFollows
    <3> QED
      BY <1>6, <1>10, <1>11, <3>2, <3>5, <3>7 DEF Media!Inv
  <2>3. CASE source = "capture"
    <3>1. {a \in v3' : a.source = "upload"} = {a \in v3 : a.source = "upload"}
      BY <1>5, <1>13, <2>3
    <3>2. Media!LatestUpload' = Media!LatestUpload /\ Analyses' = Analyses
      BY <1>1, <3>1, SameUploads DEF Analyses
    <3>3. Media!OneUnderWay' /\ Media!PatchesFit'
      BY <1>1, <3>2, StillUnderWay DEF Media!Inv
    <3>4. Media!CallbackDue'
      <4> SUFFICES ASSUME v1 = "running", v7 <= 1 PROVE Media!CallbackDue'
        BY <1>1 DEF Media!CallbackDue
      <4>1. v7 # 0
        BY <1>1, <1>2, <2>3 DEF Media!Inv, Media!CallbackDue
      <4>2. \/ Media!LatestUpload \in {0, v11} \/ v15 = {Media!Pending}
            \/ v5' >= IF v8 /\ Media!LatestIsCapture' THEN 2 ELSE 1
        BY <1>2, <1>13 DEF Media!Inv, Media!CallbackDue
      <4>3. Media!CaptureKnown => ~v8
        BY DEF Media!Inv, Media!CallbackDue
      <4> QED
        BY <1>1, <2>1, <3>2, <4>1, <4>2, <4>3 DEF Media!CallbackDue
    <3>5. Media!BoardAgreesWithGate'
      BY <1>1, <1>6, <3>2, <3>4, BoardFollows DEF Media!Inv, Media!BoardAgreesWithGate
    <3> QED
      BY <1>6, <1>10, <1>11, <3>3, <3>4, <3>5 DEF Media!Inv
  <2> QED
    BY <2>2, <2>3 DEF Media!Sources
<1> QED
  BY <1>1, <1>12, <1>13

LEMMA QueueCaptureKeepsInv == ASSUME Media!Inv, Media!QueueCapture PROVE Media!Inv'
<1>1. /\ v1 = "running" /\ v7 < MaxCaptures /\ v7' = v7 + 1 /\ v6' = v7 + 1 /\ v8' = TRUE
      /\ UNCHANGED <<v1, v2, v3, v4, v5, v9, v10, v11, v12, v13, v14, v15, v16>>
  BY DEF Media!QueueCapture
<1>2. v7 \in Nat /\ v7 + 1 \in 0..MaxCaptures
  BY <1>1, MediaBounds DEF Media!Inv, Media!TypeOK
<1>3. Media!TypeOK'
  BY <1>1, <1>2 DEF Media!Inv, Media!TypeOK
<1>4. Media!LatestUpload' = Media!LatestUpload /\ Analyses' = Analyses /\ Media!OfSource'
  BY <1>1, SameAttachments, StillOfSource DEF Media!Inv, Analyses
<1>5. Media!Counted'
  BY <1>1, <1>2 DEF Media!Inv, Media!Counted, Media!Uploaded
<1>6. Media!OneUnderWay' /\ Media!PatchesFit'
  BY <1>1, <1>4, StillUnderWay DEF Media!Inv
<1>7. Media!CallbackDue'
  <2> SUFFICES ASSUME v7' <= 1 PROVE Media!CallbackDue'
    BY DEF Media!CallbackDue
  <2>1. v7 = 0 /\ v7' # 0
    BY <1>1, <1>2
  <2>2. ~Media!CaptureKnown' /\ ~v8 /\ \A a \in v3 : a.source = "upload"
    BY <1>1, <2>1 DEF Media!Inv, Media!CallbackDue, Media!CaptureKnown
  <2>3. ~Media!LatestIsCapture'
    <3>1. ASSUME NEW i, [id |-> i, source |-> "capture"] \in v3 PROVE FALSE
      <4>1. [id |-> i, source |-> "capture"].source = "upload"
        BY <2>2, <3>1
      <4> QED
        BY <4>1
    <3> QED
      BY <1>1, <3>1 DEF Media!LatestIsCapture
  <2>4. Media!LatestUpload \in {0, v11} \/ v15 = {Media!Pending} \/ v5 >= 1
    BY <1>1, <2>1, <2>2 DEF Media!Inv, Media!CallbackDue
  <2> QED
    BY <1>1, <1>4, <2>1, <2>2, <2>3, <2>4 DEF Media!CallbackDue
<1>8. Media!BoardAgreesWithGate'
  BY <1>1, <1>3, <1>4, <1>7, BoardFollows DEF Media!Inv, Media!BoardAgreesWithGate
<1> QED
  BY <1>3, <1>4, <1>5, <1>6, <1>7, <1>8 DEF Media!Inv

LEMMA AttachmentStoredKeepsInv == ASSUME Media!Inv, Media!AttachmentStored PROVE Media!Inv'
<1> DEFINE latest == Media!LatestOf(v3)
           ask == [attachment |-> latest, capture |-> TRUE, patch |-> FALSE]
<1>1. /\ v1 = "running" /\ v5 > 0 /\ v5' = v5 - 1
      /\ \/ /\ v8 /\ Media!LatestIsCapture
            /\ v8' = FALSE /\ v12' = v12 \cup {ask} /\ UNCHANGED v15
         \/ ~(v8 /\ Media!LatestIsCapture) /\ Media!MarkPending /\ UNCHANGED <<v8, v12>>
      /\ UNCHANGED <<v1, v2, v3, v4, v6, v7, v9, v10, v11, v13, v14, v16>>
  BY DEF Media!AttachmentStored, Media!LatestIsCapture, Media!httpVars
<1>2. v5 \in Nat /\ v5' \in Nat /\ v5' <= v5 /\ v4 \in Nat /\ v4 <= MaxAttachments
  BY <1>1, MediaBounds DEF Media!Inv, Media!TypeOK
<1>3. Media!LatestIsCapture => latest \in Media!Ids /\ Media!Captured(latest)
  <2> SUFFICES ASSUME Media!LatestIsCapture PROVE latest \in Media!Ids /\ Media!Captured(latest)
    OBVIOUS
  <2>1. PICK a : a = [id |-> latest, source |-> "capture"] /\ a \in v3
    BY DEF Media!LatestIsCapture
  <2>2. a.id = latest /\ a.source = "capture"
    BY <2>1
  <2>3. a.id \in Media!Ids /\ a.id <= v4 /\ ~Media!Uploaded(a.id)
    BY <2>1, <2>2 DEF Media!Inv, Media!TypeOK, Media!Counted
  <2> HIDE DEF latest
  <2> QED
    BY <1>2, <2>2, <2>3, MediaBounds DEF Media!Captured, Media!Ids
<1>4. ask.attachment = latest /\ ask.capture = TRUE /\ ask.patch = FALSE
  OBVIOUS
<1>5. latest \in Media!Ids => ask \in Asks
  BY DEF Asks
<1> HIDE DEF latest, ask
<1>6. \A c \in v12' : c \in v12 \/ (c = ask /\ Media!LatestIsCapture)
  BY <1>1
<1>7. v15' \in {v15, {Media!Pending}} /\ v8' \in {v8, FALSE} /\ v12 \subseteq v12'
  BY <1>1 DEF Media!MarkPending
<1>8. Media!TypeOK'
  <2>1. v5' \in 0..MaxAttachments
    BY <1>1, <1>2, MediaBounds DEF Media!Inv, Media!TypeOK
  <2>2. v12' \subseteq Asks
    BY <1>3, <1>5, <1>6 DEF Media!Inv, Media!TypeOK, Asks
  <2>3. v15' \subseteq Media!Ids \cup {Media!Pending} /\ v8' \in BOOLEAN
    BY <1>7 DEF Media!Inv, Media!TypeOK
  <2> QED
    BY <1>1, <2>1, <2>2, <2>3 DEF Media!Inv, Media!TypeOK, Asks
<1>9. Media!Counted'
  BY <1>1, <1>2 DEF Media!Inv, Media!TypeOK, Media!Counted, Media!Uploaded
<1>10. Media!LatestUpload' = Media!LatestUpload
       /\ \A id : (Media!Uploaded(id)' <=> Media!Uploaded(id)) /\ (Media!Captured(id)' <=> Media!Captured(id))
  BY <1>1, SameAttachments
<1>11. Media!OfSource'
  BY <1>1, <1>3, <1>4, <1>6, <1>10 DEF Media!Inv, Media!OfSource
<1>12. Analyses' = Analyses
  BY <1>4, <1>6, <1>7 DEF Analyses
<1>13. Media!OneUnderWay' /\ Media!PatchesFit'
  BY <1>1, <1>10, <1>12, StillUnderWay DEF Media!Inv
<1>14. Media!CallbackDue'
  <2> SUFFICES ASSUME v7 <= 1 PROVE Media!CallbackDue'
    BY <1>1 DEF Media!CallbackDue
  <2>1. Media!LatestIsCapture' <=> Media!LatestIsCapture
    BY <1>1 DEF Media!LatestIsCapture
  <2>2. CASE v8 /\ Media!LatestIsCapture
    <3>1. v8' = FALSE /\ v15' = v15 /\ v7 # 0
      BY <1>1, <2>2 DEF Media!Inv, Media!CallbackDue
    <3>2. Media!LatestUpload \in {0, v11} \/ v15 = {Media!Pending} \/ v5 >= 2
      BY <1>1, <2>2 DEF Media!Inv, Media!CallbackDue
    <3>3. v5 >= 2 => v5' >= 1
      BY <1>1, <1>2
    <3> QED
      BY <1>1, <1>10, <3>1, <3>2, <3>3 DEF Media!CallbackDue
  <2>3. CASE ~(v8 /\ Media!LatestIsCapture)
    <3>1. v8' = v8 /\ v12' = v12 /\ Media!MarkPending
      BY <1>1, <2>3
    <3>2. Media!LatestUpload \in {0, v11} \/ v15' = {Media!Pending}
      BY <3>1 DEF Media!MarkPending
    <3>3. Media!CaptureKnown' <=> Media!CaptureKnown
      BY <1>1, <3>1 DEF Media!CaptureKnown
    <3> QED
      BY <1>1, <1>10, <3>1, <3>2, <3>3 DEF Media!Inv, Media!CallbackDue
  <2> QED
    BY <2>2, <2>3
<1>15. Media!BoardAgreesWithGate'
  <2>1. Media!LatestUpload = v11 => v15' = v15
    BY <1>1 DEF Media!MarkPending
  <2> QED
    BY <1>1, <1>8, <1>10, <1>14, <2>1, BoardFollows DEF Media!Inv, Media!BoardAgreesWithGate
<1> QED
  BY <1>8, <1>9, <1>11, <1>13, <1>14, <1>15 DEF Media!Inv

LEMMA DisconnectKeepsInv == ASSUME Media!Inv, Media!Disconnect PROVE Media!Inv'
<1>1. /\ v1' = "leaving" /\ v3' = {} /\ v6' = 0 /\ v5' = 0 /\ v12' = {} /\ v14' = {} /\ DOMAIN v13' = {}
      /\ v8' = FALSE /\ v9' = Media!NoPrompt /\ v10' = 0 /\ v11' = 0 /\ v15' = {} /\ v16' = FALSE
      /\ UNCHANGED <<v2, v4, v7>>
  BY DEF Media!Disconnect
<1>2. v13' \in Seq(AnalyzerJob)
  BY DEF Media!Disconnect
<1>3. Media!TypeOK'
  <2>1. v2' \in [Media!Sources -> 0..MaxAttachments] /\ v4' \in 0..MaxAttachments /\ v7' \in 0..MaxCaptures
    BY <1>1 DEF Media!Inv, Media!TypeOK
  <2>2. v5' \in 0..MaxAttachments /\ v6' \in 0..MaxCaptures
    BY <1>1, MediaBounds
  <2>3. v9' \in Prompts \cup {Media!NoPrompt} /\ v10' \in Media!Ids \cup {0} /\ v11' \in Media!Ids \cup {0}
    BY <1>1
  <2> QED
    BY ONLY <1>1, <1>2, <2>1, <2>2, <2>3 DEF Media!TypeOK, AnalyzerJob, Prompts
<1>4. Media!Counted'
  BY <1>1, MediaBounds DEF Media!Inv, Media!TypeOK, Media!Counted
<1>5. Media!OfSource' /\ Media!PatchesFit' /\ Media!BoardAgreesWithGate' /\ Media!CallbackDue'
  BY <1>1 DEF Media!OfSource, Media!PatchesFit, Media!BoardAgreesWithGate, Media!CallbackDue
<1>6. Media!OneUnderWay'
  BY <1>1 DEF Media!OneUnderWay, Media!Asked, Media!Analyzed, Media!Waiting
<1> QED
  BY <1>3, <1>4, <1>5, <1>6 DEF Media!Inv

\* A step that only ends the session, or drops the prompt or queues the latest upload.
LEMMA PromptKeepsInv ==
  ASSUME Media!Inv, v1' = v1 \/ v1' = "ended", v9' \in {v9, Media!NoPrompt} \cup Prompts,
         v9' \in {v9, Media!NoPrompt} \/ Media!Uploaded(v9'.attachment),
         UNCHANGED <<v2, v3, v4, v5, v6, v7, v8, v10, v11, v12, v13, v14, v15, v16>>
  PROVE  Media!Inv'
<1>1. Media!LatestUpload' = Media!LatestUpload /\ Analyses' = Analyses
      /\ \A id : (Media!Uploaded(id)' <=> Media!Uploaded(id)) /\ (Media!Captured(id)' <=> Media!Captured(id))
  BY SameAttachments DEF Analyses
<1>2. Media!TypeOK'
  <2>1. v9' \in Prompts \cup {Media!NoPrompt} /\ v1' \in {"running", "leaving", "ended"}
    BY DEF Media!Inv, Media!TypeOK, Prompts
  <2> QED
    BY <2>1 DEF Media!Inv, Media!TypeOK, Prompts
<1>3. Media!OfSource' /\ Media!Counted'
  BY <1>1 DEF Media!Inv, Media!OfSource, Media!Counted
<1>4. Media!OneUnderWay' /\ Media!PatchesFit'
  BY <1>1, StillUnderWay DEF Media!Inv
<1>5. Media!CallbackDue' /\ Media!BoardAgreesWithGate'
  BY <1>1 DEF Media!Inv, Media!CallbackDue, Media!BoardAgreesWithGate, Media!CaptureKnown, Media!LatestIsCapture
<1> QED
  BY <1>2, <1>3, <1>4, <1>5 DEF Media!Inv

LEMMA QueuePromptKeepsInv ==
  ASSUME Media!Inv, NEW action \in {"new", "rerun"}, Media!QueuePrompt(action) PROVE Media!Inv'
<1> DEFINE prompt == [attachment |-> Media!LatestUpload, action |-> action]
<1>1. Media!LatestUpload = 0 \/ (Media!LatestUpload \in Media!Ids /\ Media!Uploaded(Media!LatestUpload))
  BY LatestUploadIn DEF Media!Inv
<1>2. v9' = Media!NoPrompt \/ (v9' = prompt /\ Media!LatestUpload # 0)
  BY DEF Media!QueuePrompt
<1>3. prompt.attachment = Media!LatestUpload /\ (Media!LatestUpload \in Media!Ids => prompt \in Prompts)
  BY DEF Prompts
<1> HIDE DEF prompt
<1>4. UNCHANGED <<v1, v2, v3, v4, v5, v6, v7, v8, v10, v11, v12, v13, v14, v15, v16>>
  BY DEF Media!QueuePrompt, Media!httpVars
<1>5. v9' \in {v9, Media!NoPrompt} \cup Prompts
  BY <1>1, <1>2, <1>3
<1>6. v9' \in {v9, Media!NoPrompt} \/ Media!Uploaded(v9'.attachment)
  BY <1>1, <1>2, <1>3
<1> QED
  BY <1>4, <1>5, <1>6, PromptKeepsInv

LEMMA PromptDroppedKeepsInv ==
  Media!Inv /\ (Media!ClearPending \/ Media!SessionEnds) => Media!Inv'
<1> SUFFICES ASSUME Media!Inv, Media!ClearPending \/ Media!SessionEnds PROVE Media!Inv'
  OBVIOUS
<1>1. /\ v1' = v1 \/ v1' = "ended"
      /\ v9' \in {v9, Media!NoPrompt}
      /\ UNCHANGED <<v2, v3, v4, v5, v6, v7, v8, v10, v11, v12, v13, v14, v15, v16>>
  BY DEF Media!ClearPending, Media!SessionEnds, Media!httpVars
<1>2. v9' \in {v9, Media!NoPrompt} \cup Prompts
  BY <1>1
<1> QED
  BY <1>1, <1>2, PromptKeepsInv

\* Fewer analyses under way, and the active one is still that of the latest upload.
LEMMA FewerUnderWay ==
  ASSUME Media!OneUnderWay, Media!PatchesFit, Media!LatestUpload' = Media!LatestUpload, v11' = v11,
         Analyses' \subseteq Analyses,
         \A a : Media!Analyzed(a)' \subseteq Media!Analyzed(a) /\ (Media!Waiting(a)' => Media!Waiting(a)),
         DOMAIN v13' = DOMAIN v13,
         \A i \in DOMAIN v13 : v13'[i].patch = v13[i].patch /\ v13'[i].capture = v13[i].capture
                               /\ v13'[i].attachment = v13[i].attachment,
         \A a \in Media!Ids :
           a = Media!LatestUpload /\ (Media!Asked(a)' # {} \/ Media!Analyzed(a)' # {} \/ Media!Waiting(a)') =>
             v10' = v10
  PROVE  Media!OneUnderWay' /\ Media!PatchesFit'
<1>1. \A c \in v12' : ~c.capture => c \in v12
  BY DEF Analyses
<1>2. \A a : Media!Asked(a)' \subseteq Media!Asked(a)
  BY <1>1 DEF Media!Asked
<1>3. Media!OneUnderWay'
  <2>1. \A c, d \in v12' : ~c.capture /\ ~d.capture => c = d
    BY <1>1 DEF Media!OneUnderWay
  <2>2. ASSUME NEW a \in Media!Ids
        PROVE  /\ Media!Asked(a)' # {} => Media!Analyzed(a)' = {} /\ ~Media!Waiting(a)'
               /\ Media!Waiting(a)' => Media!Analyzed(a)' = {}
               /\ \A i, j \in Media!Analyzed(a)' : i = j
    BY <1>2 DEF Media!OneUnderWay
  <2>3. ASSUME NEW a \in Media!Ids, a = Media!LatestUpload',
               Media!Asked(a)' # {} \/ Media!Analyzed(a)' # {} \/ Media!Waiting(a)'
        PROVE  v10' = a /\ \A c \in v12' : ~c.capture => c.attachment = a
    <3>1. Media!Asked(a) # {} \/ Media!Analyzed(a) # {} \/ Media!Waiting(a)
      BY <1>2, <2>3
    <3> QED
      BY <1>1, <2>3, <3>1 DEF Media!OneUnderWay
  <2> QED
    BY <2>1, <2>2, <2>3 DEF Media!OneUnderWay
<1>4. Media!PatchesFit'
  BY <1>1 DEF Media!PatchesFit
<1> QED
  BY <1>3, <1>4

\* A capture is done with, and deleted.
LEMMA CaptureDone ==
  ASSUME Media!Inv, NEW id, Media!Captured(id), v3' = Media!Without(id), Media!CaptureKnown,
         UNCHANGED <<v1, v2, v4, v5, v6, v7, v8, v11, v15>>
  PROVE  /\ Media!LatestUpload' = Media!LatestUpload /\ v3' \subseteq v3
         /\ \A i : (Media!Uploaded(i)' <=> Media!Uploaded(i)) /\ (Media!Captured(i)' <=> Media!Captured(i))
         /\ Media!Counted' /\ Media!CallbackDue' /\ Media!BoardAgreesWithGate'
<1>1. /\ Media!LatestUpload' = Media!LatestUpload /\ v3' \subseteq v3
      /\ \A i : Media!Uploaded(i)' <=> Media!Uploaded(i)
  BY CaptureRemoved DEF Media!Inv
<1>2. \A i : Media!Captured(i)' <=> Media!Captured(i)
  BY <1>1 DEF Media!Captured
<1>3. Media!Counted'
  BY <1>1 DEF Media!Inv, Media!Counted
<1>4. Media!CallbackDue'
  <2> SUFFICES ASSUME v1 = "running", v7 <= 1 PROVE Media!CallbackDue'
    BY DEF Media!CallbackDue
  <2>1. v7 # 0 /\ ~v8
    BY DEF Media!Inv, Media!CallbackDue
  <2> QED
    BY <1>1, <2>1 DEF Media!Inv, Media!CallbackDue
<1>5. Media!BoardAgreesWithGate'
  BY <1>1 DEF Media!Inv, Media!BoardAgreesWithGate
<1> QED
  BY <1>1, <1>2, <1>3, <1>4, <1>5

\* The prompt whose attachment is still the latest becomes an analysis.
LEMMA MediaStartPendingKeepsInv == ASSUME Media!Inv, Media!StartPending PROVE Media!Inv'
<1> DEFINE a == v9.attachment
           ask == [attachment |-> a, capture |-> FALSE, patch |-> v9.action # "rerun" /\ a = v11]
<1>1. /\ v9 # Media!NoPrompt /\ v9' = Media!NoPrompt /\ \A c \in v12 : c.capture
      /\ \/ UNCHANGED <<v10, v12>>
         \/ Media!LatestUpload = a /\ a # v10 /\ v10' = a /\ v12' = v12 \cup {ask}
      /\ UNCHANGED <<v1, v2, v3, v4, v5, v6, v7, v8, v11, v13, v14, v15, v16>>
  BY DEF Media!StartPending, Media!Dispatching, Media!httpVars
<1>2. CASE UNCHANGED <<v10, v12>>
  BY <1>1, <1>2, PromptKeepsInv
<1>3. CASE Media!LatestUpload = a /\ a # v10 /\ v10' = a /\ v12' = v12 \cup {ask}
  <2>1. a \in Media!Ids /\ Media!Uploaded(a)
    <3>1. v9 \in Prompts
      BY <1>1 DEF Media!Inv, Media!TypeOK, Prompts
    <3> QED
      BY <1>1, <3>1 DEF Media!Inv, Media!OfSource, Prompts
  <2>2. ask.attachment = a /\ ask.capture = FALSE /\ (ask.patch => a = v11) /\ (a \in Media!Ids => ask \in Asks)
    BY DEF Asks
  <2> HIDE DEF a, ask
  <2>3. /\ Media!LatestUpload' = Media!LatestUpload
        /\ \A id : (Media!Uploaded(id)' <=> Media!Uploaded(id)) /\ (Media!Captured(id)' <=> Media!Captured(id))
    BY <1>1, SameAttachments
  <2>4. Media!TypeOK'
    BY <1>1, <1>3, <2>1, <2>2 DEF Media!Inv, Media!TypeOK, Asks
  <2>5. Media!Counted' /\ Media!OfSource'
    BY <1>1, <1>3, <2>1, <2>2, <2>3 DEF Media!Inv, Media!Counted, Media!OfSource
  <2>6. Media!Asked(a) = {} /\ Media!Analyzed(a) = {} /\ ~Media!Waiting(a)
    BY <1>3, <2>1 DEF Media!Inv, Media!OneUnderWay
  <2>7. \A b : /\ Media!Asked(b)' # {} => b = a
               /\ Media!Analyzed(b)' = Media!Analyzed(b) /\ (Media!Waiting(b)' <=> Media!Waiting(b))
    BY <1>1, <1>3, <2>2 DEF Media!Asked, Media!Analyzed, Media!Waiting
  <2>8. \A c \in v12' : ~c.capture => c = ask
    BY <1>1, <1>3
  <2>9. Media!OneUnderWay'
    BY <1>3, <2>2, <2>3, <2>6, <2>7, <2>8 DEF Media!Inv, Media!OneUnderWay
  <2>10. Media!PatchesFit'
    BY <1>1, <2>2, <2>3, <2>8 DEF Media!Inv, Media!PatchesFit
  <2>11. Media!CaptureKnown' <=> Media!CaptureKnown
    BY <1>1, <1>3, <2>2 DEF Media!CaptureKnown
  <2>12. Media!CallbackDue' /\ Media!BoardAgreesWithGate'
    BY <1>1, <2>3, <2>11 DEF Media!Inv, Media!CallbackDue, Media!BoardAgreesWithGate, Media!LatestIsCapture
  <2> QED
    BY <2>4, <2>5, <2>9, <2>10, <2>12 DEF Media!Inv
<1> QED
  BY <1>1, <1>2, <1>3

LEMMA MediaRequestFailsKeepsInv == ASSUME Media!Inv, NEW c \in v12, Media!RequestFails(c) PROVE Media!Inv'
<1>1. /\ v12' = v12 \ {c} /\ v10' = (IF c.capture THEN v10 ELSE 0)
      /\ v3' = (IF c.capture THEN Media!Without(c.attachment) ELSE v3)
      /\ UNCHANGED <<v1, v2, v4, v5, v6, v7, v8, v9, v11, v13, v14, v15, v16>>
  BY DEF Media!RequestFails, Media!httpVars
<1>2. /\ Media!LatestUpload' = Media!LatestUpload /\ v3' \subseteq v3
      /\ \A i : (Media!Uploaded(i)' <=> Media!Uploaded(i)) /\ (Media!Captured(i)' <=> Media!Captured(i))
      /\ Media!Counted' /\ Media!CallbackDue' /\ Media!BoardAgreesWithGate'
  <2>1. CASE c.capture
    <3>1. Media!Captured(c.attachment) /\ Media!CaptureKnown
      BY <2>1 DEF Media!Inv, Media!OfSource, Media!CaptureKnown
    <3> QED
      BY <1>1, <2>1, <3>1, CaptureDone
  <2>2. CASE ~c.capture
    <3>1. /\ v3' = v3 /\ Media!LatestUpload' = Media!LatestUpload
          /\ \A i : (Media!Uploaded(i)' <=> Media!Uploaded(i)) /\ (Media!Captured(i)' <=> Media!Captured(i))
      BY <1>1, <2>2, SameAttachments
    <3>2. Media!CaptureKnown' <=> Media!CaptureKnown
      BY <1>1, <2>2 DEF Media!CaptureKnown
    <3> QED
      BY <1>1, <3>1, <3>2 DEF Media!Inv, Media!Counted, Media!CallbackDue, Media!BoardAgreesWithGate,
         Media!LatestIsCapture
  <2> QED
    BY <2>1, <2>2
<1>3. v10' \in {v10, 0} /\ v12' \subseteq v12
  BY <1>1
<1>4. Media!TypeOK'
  BY <1>1, <1>2, <1>3 DEF Media!Inv, Media!TypeOK
<1>5. Media!OfSource'
  BY <1>1, <1>2, <1>3, StillOfSource DEF Media!Inv
<1>6. \A a : Media!Analyzed(a)' = Media!Analyzed(a) /\ (Media!Waiting(a)' <=> Media!Waiting(a))
  BY <1>1 DEF Media!Analyzed, Media!Waiting
<1>7. ASSUME NEW a \in Media!Ids, a = Media!LatestUpload,
             Media!Asked(a)' # {} \/ Media!Analyzed(a)' # {} \/ Media!Waiting(a)'
      PROVE  v10' = v10
  <2> SUFFICES ASSUME ~c.capture PROVE FALSE
    BY <1>1
  <2>1. Media!Asked(a)' = {}
    BY <1>1 DEF Media!Inv, Media!OneUnderWay, Media!Asked
  <2>2. Media!Analyzed(a) # {} \/ Media!Waiting(a)
    BY <1>6, <1>7, <2>1
  <2>3. c.attachment = a
    BY <1>7, <2>2 DEF Media!Inv, Media!OneUnderWay
  <2>4. Media!Asked(a) # {}
    BY <2>3 DEF Media!Asked
  <2> QED
    BY <2>2, <2>4 DEF Media!Inv, Media!OneUnderWay
<1>8. Media!OneUnderWay' /\ Media!PatchesFit'
  <2>1. Analyses' \subseteq Analyses
    BY <1>3 DEF Analyses
  <2> QED
    BY <1>1, <1>2, <1>6, <1>7, <2>1, FewerUnderWay DEF Media!Inv
<1> QED
  BY <1>2, <1>4, <1>5, <1>8 DEF Media!Inv

LEMMA MediaRequestReturnsKeepsInv == ASSUME Media!Inv, NEW c \in v12, Media!RequestReturns(c) PROVE Media!Inv'
<1> DEFINE job == [attachment |-> c.attachment, capture |-> c.capture, patch |-> c.patch, running |-> TRUE]
<1>1. /\ v12' = v12 \ {c} /\ v13' = Append(v13, job) /\ v16' = (v16 \/ ~c.capture)
      /\ UNCHANGED <<v1, v2, v3, v4, v5, v6, v7, v8, v9, v10, v11, v14, v15>>
  BY DEF Media!RequestReturns, Media!httpVars
<1>2. c \in Asks /\ v13 \in Seq(AnalyzerJob) /\ v16 \in BOOLEAN
  BY DEF Media!Inv, Media!TypeOK, Asks, AnalyzerJob
<1>3. /\ job \in AnalyzerJob /\ job.attachment = c.attachment /\ job.capture = c.capture /\ job.patch = c.patch
      /\ job.running
  BY <1>2 DEF Asks, AnalyzerJob
<1> HIDE DEF job
<1>4. PICK n : n = Len(v13) + 1
  OBVIOUS
<1>5. /\ v13' \in Seq(AnalyzerJob) /\ DOMAIN v13' = DOMAIN v13 \cup {n} /\ n \notin DOMAIN v13
      /\ \A i \in DOMAIN v13 : v13'[i] = v13[i]
      /\ v13'[n] = job
  BY <1>1, <1>2, <1>3, <1>4, Appended
<1>6. /\ Media!LatestUpload' = Media!LatestUpload
      /\ \A id : (Media!Uploaded(id)' <=> Media!Uploaded(id)) /\ (Media!Captured(id)' <=> Media!Captured(id))
  BY <1>1, SameAttachments
<1>7. Media!TypeOK'
  <2>1. v12' \subseteq Asks /\ v16' \in BOOLEAN
    BY <1>1, <1>2 DEF Media!Inv, Media!TypeOK, Asks
  <2> QED
    BY <1>1, <1>5, <2>1 DEF Media!Inv, Media!TypeOK, Asks, AnalyzerJob
<1>8. Media!Counted'
  BY <1>1, <1>6 DEF Media!Inv, Media!Counted
<1>9. Media!OfSource'
  <2>1. IF c.capture THEN Media!Captured(c.attachment) ELSE Media!Uploaded(c.attachment)
    BY DEF Media!Inv, Media!OfSource
  <2>2. \A id \in DOMAIN v13' :
          IF v13'[id].capture THEN Media!Captured(v13'[id].attachment) ELSE Media!Uploaded(v13'[id].attachment)
    BY <1>3, <1>5, <2>1 DEF Media!Inv, Media!OfSource
  <2> QED
    BY <1>1, <1>6, <2>2 DEF Media!Inv, Media!OfSource
<1>10. /\ \A a : Media!Asked(a)' = Media!Asked(a) \ {c}
       /\ \A a : Media!Waiting(a)' <=> Media!Waiting(a)
       /\ \A a : Media!Analyzed(a)' = Media!Analyzed(a) \cup (IF ~c.capture /\ c.attachment = a THEN {n} ELSE {})
  <2>1. ASSUME NEW a
        PROVE  Media!Analyzed(a)' = Media!Analyzed(a) \cup (IF ~c.capture /\ c.attachment = a THEN {n} ELSE {})
    BY <1>3, <1>5 DEF Media!Analyzed
  <2> QED
    BY <1>1, <2>1 DEF Media!Asked, Media!Waiting
<1>11. Media!OneUnderWay'
  <2>1. CASE c.capture
    <3>1. \A a : c \notin Media!Asked(a)
      BY <2>1 DEF Media!Asked
    <3> QED
      BY <1>1, <1>6, <1>10, <2>1, <3>1 DEF Media!Inv, Media!OneUnderWay
  <2>2. CASE ~c.capture
    <3>1. \A d \in v12' : d.capture
      BY <1>1, <2>2 DEF Media!Inv, Media!OneUnderWay
    <3>2. \A a : Media!Asked(a)' = {}
      BY <3>1 DEF Media!Asked
    <3>3. c \in Media!Asked(c.attachment) /\ c.attachment \in Media!Ids
      BY <1>2, <2>2 DEF Media!Asked, Asks
    <3>4. Media!Analyzed(c.attachment) = {} /\ ~Media!Waiting(c.attachment)
      BY <3>3 DEF Media!Inv, Media!OneUnderWay
    <3>5. ASSUME NEW a \in Media!Ids
          PROVE  /\ Media!Waiting(a)' => Media!Analyzed(a)' = {}
                 /\ \A i, j \in Media!Analyzed(a)' : i = j
      BY <1>10, <3>4 DEF Media!Inv, Media!OneUnderWay
    <3>6. ASSUME NEW a \in Media!Ids, a = Media!LatestUpload, Media!Analyzed(a)' # {} \/ Media!Waiting(a)'
          PROVE  v10' = a
      BY <1>1, <1>10, <3>3, <3>6 DEF Media!Inv, Media!OneUnderWay
    <3> QED
      BY <1>6, <3>1, <3>2, <3>5, <3>6 DEF Media!OneUnderWay
  <2> QED
    BY <2>1, <2>2
<1>12. Media!PatchesFit'
  BY <1>1, <1>3, <1>5, <1>6 DEF Media!Inv, Media!PatchesFit
<1>13. Media!CallbackDue' /\ Media!BoardAgreesWithGate'
  <2>1. Media!CaptureKnown' <=> Media!CaptureKnown
    BY <1>1, <1>3, <1>5 DEF Media!CaptureKnown
  <2> QED
    BY <1>1, <1>6, <2>1 DEF Media!Inv, Media!CallbackDue, Media!BoardAgreesWithGate, Media!LatestIsCapture
<1> QED
  BY <1>7, <1>8, <1>9, <1>11, <1>12, <1>13 DEF Media!Inv

\* A job is over: it was the only analysis of its attachment under way.
LEMMA JobEnds ==
  ASSUME Media!Inv, NEW id \in DOMAIN v13, v13[id].running, v13' = [v13 EXCEPT ![id].running = FALSE]
  PROVE  /\ v13' \in Seq(AnalyzerJob) /\ DOMAIN v13' = DOMAIN v13
         /\ \A i \in DOMAIN v13 : v13'[i].patch = v13[i].patch /\ v13'[i].capture = v13[i].capture
                                  /\ v13'[i].attachment = v13[i].attachment
         /\ \A a : Media!Analyzed(a)' = Media!Analyzed(a) \ {id}
         /\ v13[id] \in AnalyzerJob
         /\ ~v13[id].capture => /\ id \in Media!Analyzed(v13[id].attachment)
                                /\ \A a : a = v13[id].attachment => Media!Analyzed(a)' = {}
                                /\ Media!Asked(v13[id].attachment) = {}
<1> DEFINE job == [v13[id] EXCEPT !.running = FALSE]
<1>1. v13 \in Seq(AnalyzerJob) /\ v13[id] \in AnalyzerJob /\ DOMAIN v13 = 1..Len(v13) /\ Len(v13) \in Nat
  <2>1. v13 \in Seq(AnalyzerJob)
    BY DEF Media!Inv, Media!TypeOK, AnalyzerJob
  <2> QED
    BY <2>1
<1>2. job \in AnalyzerJob /\ job.patch = v13[id].patch /\ job.capture = v13[id].capture
      /\ job.attachment = v13[id].attachment /\ ~job.running
  BY <1>1 DEF AnalyzerJob
<1>3. v13' = [v13 EXCEPT ![id] = job]
  OBVIOUS
<1> HIDE DEF job
<1>4. v13' \in Seq(AnalyzerJob) /\ DOMAIN v13' = DOMAIN v13
  <2>1. [v13 EXCEPT ![id] = job] \in Seq(AnalyzerJob) /\ DOMAIN [v13 EXCEPT ![id] = job] = DOMAIN v13
    BY <1>1, <1>2, Replaced, Zenon
  <2> QED
    BY <1>3, <2>1
<1>5. v13'[id] = job /\ \A i \in DOMAIN v13 \ {id} : v13'[i] = v13[i]
  BY <1>1, <1>2, <1>3, Replaced
<1>6. ASSUME NEW a PROVE Media!Analyzed(a)' = Media!Analyzed(a) \ {id}
  BY <1>2, <1>4, <1>5 DEF Media!Analyzed
<1>7. ASSUME ~v13[id].capture
      PROVE  /\ id \in Media!Analyzed(v13[id].attachment)
             /\ \A a : a = v13[id].attachment => Media!Analyzed(a)' = {}
             /\ Media!Asked(v13[id].attachment) = {}
  <2>1. id \in Media!Analyzed(v13[id].attachment)
    BY <1>7 DEF Media!Analyzed
  <2>2. v13[id].attachment \in Media!Ids
    BY <1>1 DEF AnalyzerJob
  <2>3. Media!Asked(v13[id].attachment) = {} /\ \A i, j \in Media!Analyzed(v13[id].attachment) : i = j
    BY <2>1, <2>2 DEF Media!Inv, Media!OneUnderWay
  <2>4. Media!Analyzed(v13[id].attachment) = {id}
    BY <2>1, <2>3
  <2>5. \A a : a = v13[id].attachment => Media!Analyzed(a)' = {}
    BY <1>6, <2>4
  <2> QED
    BY <2>1, <2>3, <2>5
<1>8. \A i \in DOMAIN v13 : v13'[i].patch = v13[i].patch /\ v13'[i].capture = v13[i].capture
                            /\ v13'[i].attachment = v13[i].attachment
  BY <1>2, <1>5
<1> QED
  BY <1>1, <1>4, <1>6, <1>7, <1>8

LEMMA MediaJobResponseKeepsInv ==
  ASSUME Media!Inv, NEW id \in DOMAIN v13, NEW findings \in BOOLEAN, Media!JobResponse(id, findings)
  PROVE  Media!Inv'
<1> DEFINE job == v13[id]
           answer == [attachment |-> job.attachment, capture |-> job.capture]
<1>1. /\ job.running /\ v13' = [v13 EXCEPT ![id].running = FALSE]
      /\ v14' = v14 \cup {answer}
      /\ UNCHANGED <<v1, v2, v3, v4, v5, v6, v7, v8, v9, v10, v12>>
  BY DEF Media!JobResponse, Media!httpVars
<1>2. \/ UNCHANGED <<v11, v15>>
      \/ ~job.capture /\ Media!LatestUpload = job.attachment /\ job.patch
           /\ v15' = v15 \cup {job.attachment} /\ v11' = v11
      \/ ~job.capture /\ Media!LatestUpload = job.attachment
           /\ v15' = {job.attachment} /\ v11' = job.attachment
  BY DEF Media!JobResponse, Media!UpdateBoard
<1>3. /\ v13' \in Seq(AnalyzerJob) /\ DOMAIN v13' = DOMAIN v13
      /\ \A i \in DOMAIN v13 : v13'[i].patch = v13[i].patch /\ v13'[i].capture = v13[i].capture
                               /\ v13'[i].attachment = v13[i].attachment
      /\ \A a : Media!Analyzed(a)' = Media!Analyzed(a) \ {id}
      /\ job \in AnalyzerJob
      /\ ~job.capture => /\ id \in Media!Analyzed(job.attachment)
                         /\ \A a : a = job.attachment => Media!Analyzed(a)' = {}
                         /\ Media!Asked(job.attachment) = {}
  BY <1>1, JobEnds
<1>4. v16' = (v16 /\ job.capture)
  BY DEF Media!JobResponse
<1>5. answer.attachment = job.attachment /\ answer.capture = job.capture /\ answer \in Answers
      /\ job.attachment \in Media!Ids
  BY <1>3 DEF AnalyzerJob, Answers
<1>6. /\ \A a : [attachment |-> a, capture |-> FALSE] = answer => a = job.attachment /\ ~job.capture
  BY <1>5
<1>7. IF job.capture THEN Media!Captured(job.attachment) ELSE Media!Uploaded(job.attachment)
  BY DEF Media!Inv, Media!OfSource
<1>8. ~job.capture /\ Media!LatestUpload = job.attachment /\ job.patch => v11 = job.attachment
  BY DEF Media!Inv, Media!PatchesFit
<1> HIDE DEF job, answer
<1>9. /\ Media!LatestUpload' = Media!LatestUpload
      /\ \A i : (Media!Uploaded(i)' <=> Media!Uploaded(i)) /\ (Media!Captured(i)' <=> Media!Captured(i))
  BY <1>1, SameAttachments
<1>10. UNCHANGED <<v11, v15>> \/ (~job.capture /\ Media!LatestUpload = job.attachment /\ v11' = job.attachment)
  BY <1>2, <1>8
<1>11. Media!TypeOK'
  <2>1. v14' \subseteq Answers /\ v11' \in Media!Ids \cup {0} /\ v15' \subseteq Media!Ids \cup {Media!Pending}
    BY <1>1, <1>2, <1>5 DEF Media!Inv, Media!TypeOK, Answers
  <2>2. v16' \in BOOLEAN
    BY <1>4
  <2> QED
    BY <1>1, <1>3, <2>1, <2>2 DEF Media!Inv, Media!TypeOK, Answers, AnalyzerJob
<1>12. Media!Counted'
  BY <1>1, <1>9 DEF Media!Inv, Media!Counted
<1>13. Media!OfSource'
  <2>1. \A i \in DOMAIN v13' :
          IF v13'[i].capture THEN Media!Captured(v13'[i].attachment) ELSE Media!Uploaded(v13'[i].attachment)
    BY <1>3 DEF Media!Inv, Media!OfSource
  <2>2. \A d \in v14' : IF d.capture THEN Media!Captured(d.attachment) ELSE Media!Uploaded(d.attachment)
    BY <1>1, <1>5, <1>7 DEF Media!Inv, Media!OfSource
  <2>3. v11' # 0 => Media!Uploaded(v11')
    BY <1>7, <1>10 DEF Media!Inv, Media!OfSource
  <2> QED
    BY <1>1, <1>9, <2>1, <2>2, <2>3 DEF Media!Inv, Media!OfSource
<1>14. /\ \A a : Media!Asked(a)' = Media!Asked(a)
       /\ \A a : Media!Waiting(a)' => Media!Waiting(a) \/ (a = job.attachment /\ ~job.capture)
  BY <1>1, <1>6 DEF Media!Asked, Media!Waiting
<1>15. Media!OneUnderWay'
  <2>1. ASSUME NEW a \in Media!Ids
        PROVE  /\ Media!Asked(a)' # {} => Media!Analyzed(a)' = {} /\ ~Media!Waiting(a)'
               /\ Media!Waiting(a)' => Media!Analyzed(a)' = {}
               /\ \A i, j \in Media!Analyzed(a)' : i = j
    BY <1>3, <1>14 DEF Media!Inv, Media!OneUnderWay
  <2>2. ASSUME NEW a \in Media!Ids, a = Media!LatestUpload,
               Media!Asked(a)' # {} \/ Media!Analyzed(a)' # {} \/ Media!Waiting(a)'
        PROVE  v10 = a /\ \A c \in v12 : ~c.capture => c.attachment = a
    <3>1. Media!Asked(a) # {} \/ Media!Analyzed(a) # {} \/ Media!Waiting(a)
      BY <1>3, <1>14, <2>2
    <3> QED
      BY <2>2, <3>1 DEF Media!Inv, Media!OneUnderWay
  <2>3. \A c, d \in v12 : ~c.capture /\ ~d.capture => c = d
    BY DEF Media!Inv, Media!OneUnderWay
  <2> QED
    BY <1>1, <1>9, <2>1, <2>2, <2>3 DEF Media!OneUnderWay
<1>16. Media!PatchesFit'
  BY <1>1, <1>3, <1>9, <1>10 DEF Media!Inv, Media!PatchesFit
<1>17. Media!CallbackDue'
  <2>1. Media!CaptureKnown' <=> Media!CaptureKnown
    <3>1. job.capture => Media!CaptureKnown
      BY DEF Media!CaptureKnown, job
    <3>2. (\E i \in DOMAIN v13' : v13'[i].capture) <=> (\E i \in DOMAIN v13 : v13[i].capture)
      BY <1>3
    <3>3. (\E d \in v14' : d.capture) <=> (\E d \in v14 : d.capture) \/ job.capture
      BY <1>1, <1>5
    <3> QED
      BY <1>1, <3>1, <3>2, <3>3 DEF Media!CaptureKnown
  <2> QED
    BY <1>1, <1>9, <1>10, <2>1 DEF Media!Inv, Media!CallbackDue, Media!LatestIsCapture
<1>18. Media!BoardAgreesWithGate'
  <2>1. v1 = "running" /\ Media!LatestUpload # 0 /\ v11' = Media!LatestUpload => v15' = {Media!LatestUpload}
    BY <1>2, <1>8 DEF Media!Inv, Media!BoardAgreesWithGate
  <2> QED
    BY <1>1, <1>9, <1>11, <1>17, <2>1, BoardFollows
<1> QED
  BY <1>11, <1>12, <1>13, <1>15, <1>16, <1>17, <1>18 DEF Media!Inv

LEMMA EmptyResponseKeepsInv ==
  ASSUME Media!Inv, NEW id \in DOMAIN v13, Media!EmptyResponse(id) PROVE Media!Inv'
<1>1. /\ v13[id].running /\ v13' = [v13 EXCEPT ![id].running = FALSE]
      /\ v3' = (IF v13[id].capture THEN Media!Without(v13[id].attachment) ELSE v3)
      /\ UNCHANGED <<v1, v2, v4, v5, v6, v7, v8, v9, v10, v11, v12, v14, v15, v16>>
  BY DEF Media!EmptyResponse, Media!httpVars
<1>2. /\ v13' \in Seq(AnalyzerJob) /\ DOMAIN v13' = DOMAIN v13
      /\ \A i \in DOMAIN v13 : v13'[i].patch = v13[i].patch /\ v13'[i].capture = v13[i].capture
                               /\ v13'[i].attachment = v13[i].attachment
      /\ \A a : Media!Analyzed(a)' = Media!Analyzed(a) \ {id}
  BY <1>1, JobEnds
<1>3. /\ Media!LatestUpload' = Media!LatestUpload /\ v3' \subseteq v3
      /\ \A i : (Media!Uploaded(i)' <=> Media!Uploaded(i)) /\ (Media!Captured(i)' <=> Media!Captured(i))
      /\ Media!Counted' /\ Media!CallbackDue' /\ Media!BoardAgreesWithGate'
  <2>1. CASE v13[id].capture
    <3>1. Media!Captured(v13[id].attachment) /\ Media!CaptureKnown
      BY <2>1 DEF Media!Inv, Media!OfSource, Media!CaptureKnown
    <3> QED
      BY <1>1, <2>1, <3>1, CaptureDone
  <2>2. CASE ~v13[id].capture
    <3>1. /\ v3' = v3 /\ Media!LatestUpload' = Media!LatestUpload
          /\ \A i : (Media!Uploaded(i)' <=> Media!Uploaded(i)) /\ (Media!Captured(i)' <=> Media!Captured(i))
      BY <1>1, <2>2, SameAttachments
    <3>2. Media!CaptureKnown' <=> Media!CaptureKnown
      BY <1>1, <1>2 DEF Media!CaptureKnown
    <3> QED
      BY <1>1, <3>1, <3>2 DEF Media!Inv, Media!Counted, Media!CallbackDue, Media!BoardAgreesWithGate,
         Media!LatestIsCapture
  <2> QED
    BY <2>1, <2>2
<1>4. Media!TypeOK'
  BY <1>1, <1>2, <1>3 DEF Media!Inv, Media!TypeOK, AnalyzerJob
<1>5. Media!OfSource'
  <2>1. \A i \in DOMAIN v13' :
          IF v13'[i].capture THEN Media!Captured(v13'[i].attachment) ELSE Media!Uploaded(v13'[i].attachment)
    BY <1>2 DEF Media!Inv, Media!OfSource
  <2> QED
    BY <1>1, <1>3, <2>1 DEF Media!Inv, Media!OfSource
<1>6. Media!OneUnderWay' /\ Media!PatchesFit'
  <2>1. Analyses' \subseteq Analyses /\ \A a : Media!Waiting(a)' => Media!Waiting(a)
    BY <1>1 DEF Analyses, Media!Waiting
  <2>2. \A a : Media!Analyzed(a)' \subseteq Media!Analyzed(a)
    BY <1>2
  <2> QED
    BY <1>1, <1>2, <1>3, <2>1, <2>2, FewerUnderWay DEF Media!Inv
<1> QED
  BY <1>3, <1>4, <1>5, <1>6 DEF Media!Inv

LEMMA MediaFollowUpKeepsInv == ASSUME Media!Inv, NEW d \in v14, Media!FollowUp(d) PROVE Media!Inv'
<1>1. /\ v14' = v14 \ {d}
      /\ v3' = (IF d.capture THEN Media!Without(d.attachment) ELSE v3)
      /\ v10' = (IF v10 = d.attachment THEN 0 ELSE v10)
      /\ UNCHANGED <<v1, v2, v4, v5, v6, v7, v8, v9, v11, v12, v13, v15, v16>>
  BY DEF Media!FollowUp, Media!httpVars
<1>2. d = [attachment |-> d.attachment, capture |-> d.capture] /\ d.capture \in BOOLEAN /\ d.attachment \in Media!Ids
  BY DEF Media!Inv, Media!TypeOK
<1>3. /\ Media!LatestUpload' = Media!LatestUpload /\ v3' \subseteq v3
      /\ \A i : (Media!Uploaded(i)' <=> Media!Uploaded(i)) /\ (Media!Captured(i)' <=> Media!Captured(i))
      /\ Media!Counted' /\ Media!CallbackDue' /\ Media!BoardAgreesWithGate'
  <2>1. CASE d.capture
    <3>1. Media!Captured(d.attachment) /\ Media!CaptureKnown
      BY <2>1 DEF Media!Inv, Media!OfSource, Media!CaptureKnown
    <3> QED
      BY <1>1, <2>1, <3>1, CaptureDone
  <2>2. CASE ~d.capture
    <3>1. /\ v3' = v3 /\ Media!LatestUpload' = Media!LatestUpload
          /\ \A i : (Media!Uploaded(i)' <=> Media!Uploaded(i)) /\ (Media!Captured(i)' <=> Media!Captured(i))
      BY <1>1, <2>2, SameAttachments
    <3>2. Media!CaptureKnown' <=> Media!CaptureKnown
      BY <1>1, <2>2 DEF Media!CaptureKnown
    <3> QED
      BY <1>1, <3>1, <3>2 DEF Media!Inv, Media!Counted, Media!CallbackDue, Media!BoardAgreesWithGate,
         Media!LatestIsCapture
  <2> QED
    BY <2>1, <2>2
<1>4. v10' \in {v10, 0} /\ v14' \subseteq v14
  BY <1>1
<1>5. Media!TypeOK'
  BY <1>1, <1>3, <1>4 DEF Media!Inv, Media!TypeOK
<1>6. Media!OfSource'
  BY <1>1, <1>3, <1>4, StillOfSource DEF Media!Inv
<1>7. /\ \A a : Media!Asked(a)' = Media!Asked(a) /\ Media!Analyzed(a)' = Media!Analyzed(a)
      /\ \A a : Media!Waiting(a)' => Media!Waiting(a) /\ (a = d.attachment => d.capture)
  <2>1. ASSUME NEW a, Media!Waiting(a)', a = d.attachment, ~d.capture PROVE FALSE
    <3>1. d = [attachment |-> a, capture |-> FALSE]
      BY <1>2, <2>1
    <3> QED
      BY <1>1, <2>1, <3>1 DEF Media!Waiting
  <2> QED
    BY <1>1, <2>1 DEF Media!Asked, Media!Analyzed, Media!Waiting
<1>8. ASSUME NEW a \in Media!Ids, a = Media!LatestUpload,
             Media!Asked(a)' # {} \/ Media!Analyzed(a)' # {} \/ Media!Waiting(a)'
      PROVE  v10' = v10
  <2> SUFFICES ASSUME v10 = d.attachment PROVE FALSE
    BY <1>1
  <2>1. v10 # 0
    BY <1>2 DEF Media!Ids
  <2>2. ~d.capture
    BY <2>1 DEF Media!Inv, Media!OfSource, Media!Captured
  <2>3. v10 = a
    BY <1>7, <1>8 DEF Media!Inv, Media!OneUnderWay
  <2>4. d = [attachment |-> a, capture |-> FALSE]
    BY <1>2, <2>2, <2>3
  <2>5. Media!Waiting(a)
    BY <2>4 DEF Media!Waiting
  <2> QED
    BY <1>7, <1>8, <2>2, <2>3, <2>5 DEF Media!Inv, Media!OneUnderWay
<1>9. Media!OneUnderWay' /\ Media!PatchesFit'
  <2>1. Analyses' \subseteq Analyses
    BY <1>1 DEF Analyses
  <2> QED
    BY <1>1, <1>3, <1>7, <1>8, <2>1, FewerUnderWay DEF Media!Inv
<1> QED
  BY <1>3, <1>5, <1>6, <1>9 DEF Media!Inv

LEMMA MediaUnchanged ==
  ASSUME Media!Inv, UNCHANGED <<v1, v2, v3, v4, v5, v6, v7, v8, v9, v10, v11, v12, v13, v14, v15, v16>>
  PROVE  Media!Inv'
<1>1. v9' \in {v9, Media!NoPrompt} \cup Prompts
  OBVIOUS
<1> QED
  BY <1>1, PromptKeepsInv

LEMMA MediaStep == Media!Inv /\ Media!Next => Media!Inv'
BY BeginUploadKeepsInv, EndUploadKeepsInv, QueueCaptureKeepsInv, AttachmentStoredKeepsInv, DisconnectKeepsInv,
   QueuePromptKeepsInv, PromptDroppedKeepsInv, MediaStartPendingKeepsInv, MediaRequestFailsKeepsInv,
   MediaRequestReturnsKeepsInv, MediaJobResponseKeepsInv, EmptyResponseKeepsInv, MediaFollowUpKeepsInv
   DEF Media!Next

\* Of an attachment, either the request is under way or one job of it.
LEMMA AnalyzedOnce == Media!Inv => Media!OneAnalysis
<1> SUFFICES ASSUME Media!Inv, NEW a \in Media!Ids
             PROVE  Cardinality(Media!Asked(a)) + Cardinality(Media!Analyzed(a)) <= 1
  <2>1. \A S : Media!Cardinality(S) = Cardinality(S)
    BY Zenon DEF Media!Cardinality, Cardinality
  <2> QED
    BY <2>1 DEF Media!OneAnalysis
<1>1. \A c, e \in Media!Asked(a) : c = e
  BY DEF Media!Inv, Media!OneUnderWay, Media!Asked
<1>2. \A i, j \in Media!Analyzed(a) : i = j
  BY DEF Media!Inv, Media!OneUnderWay
<1>3. Media!Asked(a) = {} \/ Media!Analyzed(a) = {}
  BY DEF Media!Inv, Media!OneUnderWay
<1>4. ASSUME NEW S, \A x, y \in S : x = y PROVE Cardinality(S) \in {0, 1} /\ (S = {} => Cardinality(S) = 0)
  <2>1. CASE S = {}
    BY <2>1, FS_EmptySet, Zenon
  <2>2. CASE S # {}
    <3>1. PICK x : S = {x}
      BY <1>4, <2>2
    <3>2. Cardinality(S) = 1
      BY <3>1, FS_Singleton, Zenon
    <3> QED
      BY <2>2, <3>2
  <2> QED
    BY <2>1, <2>2
<1>5. /\ Cardinality(Media!Asked(a)) \in {0, 1} /\ Cardinality(Media!Analyzed(a)) \in {0, 1}
      /\ Cardinality(Media!Asked(a)) = 0 \/ Cardinality(Media!Analyzed(a)) = 0
  BY <1>1, <1>2, <1>3, <1>4
<1> QED
  BY <1>5

\* The board holds the findings of the latest upload and of no other once it is
\* analyzed, calls it pending until then while one capture at most was asked
\* for, and no attachment is analyzed twice at a time
\* (MediaAnalysisController), for any number of attachments, captures and jobs.
THEOREM BoardIsOfLatestUpload == Spec => []BoardOfLatestUpload
<1> DEFINE Safe == component = "media" => Media!Inv
<1>1. Init => Safe
  BY MediaInit DEF Init
<1>2. Safe /\ [Next]_vars => Safe'
  <2> SUFFICES ASSUME Safe, [Next]_vars, component' = "media" PROVE Media!Inv'
    OBVIOUS
  <2>1. CASE component = "media" /\ Media!Next
    BY <2>1, MediaStep
  <2>2. CASE component = "media" /\ UNCHANGED vars
    BY <2>2, MediaUnchanged DEF vars
  <2> QED
    BY <2>1, <2>2 DEF Next, vars
<1>3. Safe => BoardOfLatestUpload
  BY AnalyzedOnce DEF BoardOfLatestUpload, Media!Inv
<1> QED
  BY <1>1, <1>2, <1>3, PTL DEF Spec

\* An analysis is asked for only of the attachment its prompt was queued for,
\* and a patch only of what the board holds.
LEMMA AsksForItsPrompt == Media!Inv /\ Media!Next => Media!OfItsPrompt
<1> SUFFICES ASSUME Media!Inv, Media!Next, NEW c \in v12' \ v12, ~c.capture
             PROVE  c.attachment = v9.attachment /\ (c.patch => v15 = {c.attachment})
  BY DEF Media!OfItsPrompt
<1>1. CASE Media!StartPending
  <2> DEFINE ask == [attachment |-> v9.attachment, capture |-> FALSE,
                     patch |-> v9.action # "rerun" /\ v9.attachment = v11]
  <2>1. /\ v1 = "running" /\ v9 # Media!NoPrompt
        /\ c.attachment = v9.attachment /\ Media!LatestUpload = v9.attachment
        /\ c.patch => v9.attachment = v11
    <3>1. /\ v1 = "running" /\ v9 # Media!NoPrompt
          /\ v12' = v12 \/ (Media!LatestUpload = v9.attachment /\ v12' = v12 \cup {ask})
      BY <1>1 DEF Media!StartPending
    <3>2. ask.attachment = v9.attachment /\ (ask.patch => v9.attachment = v11)
      OBVIOUS
    <3> HIDE DEF ask
    <3> QED
      BY <3>1, <3>2
  <2>2. v9.attachment # 0
    <3>1. v9 \in Prompts
      BY <2>1 DEF Media!Inv, Media!TypeOK, Prompts
    <3> QED
      BY <3>1 DEF Prompts, Media!Ids
  <2> QED
    BY <2>1, <2>2 DEF Media!Inv, Media!BoardAgreesWithGate
<1>2. CASE Media!AttachmentStored
  BY <1>2 DEF Media!AttachmentStored
<1>3. v12' \subseteq v12 \/ Media!StartPending \/ Media!AttachmentStored
  BY DEF Media!Next, Media!BeginUpload, Media!EndUpload, Media!QueueCapture, Media!Disconnect, Media!SessionEnds,
     Media!QueuePrompt, Media!ClearPending, Media!RequestFails, Media!RequestReturns, Media!JobResponse,
     Media!EmptyResponse, Media!FollowUp
<1> QED
  BY <1>1, <1>2, <1>3

\* "test_pending_prompt_is_not_dispatched_to_a_newer_attachment": what is
\* analyzed is what the prompt was queued for, whatever was uploaded since.
THEOREM PromptsKeepTheirAttachment == Spec => PromptKeepsItsAttachment
<1> DEFINE Safe == component = "media" => Media!Inv
<1>1. Init => Safe
  BY MediaInit DEF Init
<1>2. Safe /\ [Next]_vars => Safe'
  <2> SUFFICES ASSUME Safe, [Next]_vars, component' = "media" PROVE Media!Inv'
    OBVIOUS
  <2>1. CASE component = "media" /\ Media!Next
    BY <2>1, MediaStep
  <2>2. CASE component = "media" /\ UNCHANGED vars
    BY <2>2, MediaUnchanged DEF vars
  <2> QED
    BY <2>1, <2>2 DEF Next, vars
<1>3. Safe /\ [Next]_vars => [component = "media" => Media!OfItsPrompt]_vars
  <2> SUFFICES ASSUME Safe, Next, component = "media" PROVE Media!OfItsPrompt
    OBVIOUS
  <2>1. Media!Next
    BY DEF Next
  <2> QED
    BY <2>1, AsksForItsPrompt
<1> QED
  BY <1>1, <1>2, <1>3, PTL DEF Spec, PromptKeepsItsAttachment
(***************************************************************************)
(* Turns of the omni model.                                                *)
(***************************************************************************)
Message == ({"user"} \X (Spoken \cup Typed)) \cup ({"assistant", "tool"} \X Nat)
UsersOf(q) == {i \in DOMAIN q : q[i][1] = "user"}
LatestOf(q) ==
  IF UsersOf(q) = {} THEN None
  ELSE q[CHOOSE i \in UsersOf(q) : \A j \in UsersOf(q) : j <= i][2]

Serving == [active : Spoken \cup {None}, answered : Spoken \cup {None},
            speaking : Spoken \cup {None}, responding : BOOLEAN]
OmniEnv == [said : SUBSET Spoken, typed : SUBSET Typed, reported : Seq(Spoken),
            written : SUBSET Spoken, tools : Nat, cuts : Nat]

LEMMA OmniTypes ==
  Omni!TypeOK <=>
    /\ v1 \in Seq(Message) /\ v2 \in Nat /\ v3 \in Seq(Omni!TurnRecords)
    /\ v4 \in [turn : 0..Len(v3), audio : BOOLEAN]
    /\ v5 \in Serving
    /\ v6 \in Omni!InputWaits /\ v7 \in Omni!DataWaits
    /\ v8 \in OmniEnv
BY DEF Omni!TypeOK, Message, Serving, OmniEnv

LEMMA OmniTypesNext ==
  Omni!TypeOK' <=>
    /\ v1' \in Seq(Message) /\ v2' \in Nat /\ v3' \in Seq(Omni!TurnRecords)
    /\ v4' \in [turn : 0..Len(v3'), audio : BOOLEAN] /\ v5' \in Serving
    /\ v6' \in Omni!InputWaits /\ v7' \in Omni!DataWaits
    /\ v8' \in OmniEnv
BY DEF Omni!TypeOK, Message, Serving, OmniEnv

\* What happens to the records, a field at a time.
LEMMA EnvCuts ==
  ASSUME NEW e \in OmniEnv, NEW c, c = [e EXCEPT !.cuts = @ + 1]
  PROVE  c \in OmniEnv /\ c.reported = e.reported /\ c.written = e.written /\ c.tools = e.tools
BY DEF OmniEnv

LEMMA EnvSaid ==
  ASSUME NEW e \in OmniEnv, NEW u \in Spoken, NEW c, c = [e EXCEPT !.said = @ \cup {u}]
  PROVE  c \in OmniEnv /\ c.reported = e.reported /\ c.written = e.written /\ c.tools = e.tools
BY DEF OmniEnv

LEMMA EnvTyped ==
  ASSUME NEW e \in OmniEnv, NEW m \in Typed, NEW c, c = [e EXCEPT !.typed = @ \cup {m}]
  PROVE  c \in OmniEnv /\ c.reported = e.reported /\ c.written = e.written /\ c.tools = e.tools
BY DEF OmniEnv

LEMMA EnvWritten ==
  ASSUME NEW e \in OmniEnv, NEW u \in Spoken, NEW c, c = [e EXCEPT !.written = @ \cup {u}]
  PROVE  c \in OmniEnv /\ c.reported = e.reported /\ c.written = e.written \cup {u} /\ c.tools = e.tools
BY DEF OmniEnv

LEMMA EnvReported ==
  ASSUME NEW e \in OmniEnv, NEW u \in Spoken, NEW c, c = [e EXCEPT !.reported = Append(@, u)]
  PROVE  c \in OmniEnv /\ c.reported = Append(e.reported, u) /\ c.written = e.written /\ c.tools = e.tools
<1>1. e.reported \in Seq(Spoken)
  BY DEF OmniEnv
<1>2. Append(e.reported, u) \in Seq(Spoken)
  BY <1>1
<1> QED
  BY <1>2 DEF OmniEnv

LEMMA EnvTools ==
  ASSUME NEW e \in OmniEnv, NEW c, c = [e EXCEPT !.tools = @ + 1]
  PROVE  c \in OmniEnv /\ c.reported = e.reported /\ c.written = e.written /\ c.tools = e.tools + 1
BY DEF OmniEnv

LEMMA NoTurnPending == ASSUME NEW q \in Seq(Omni!TurnRecords) PROVE Omni!NoTurn \in [turn : 0..Len(q), audio : BOOLEAN]
BY LenProperties DEF Omni!NoTurn

LEMMA ServingChanges ==
  ASSUME NEW s \in Serving
  PROVE  /\ \A u \in Spoken \cup {None} : \A b \in BOOLEAN :
              /\ [s EXCEPT !.responding = b, !.speaking = u] \in Serving
              /\ [s EXCEPT !.responding = b, !.speaking = u].answered = s.answered
         /\ \A b \in BOOLEAN : /\ [s EXCEPT !.responding = b] \in Serving
                              /\ [s EXCEPT !.responding = b].answered = s.answered
         /\ \A u \in Spoken \cup {None} :
              /\ [s EXCEPT !.speaking = u] \in Serving /\ [s EXCEPT !.speaking = u].answered = s.answered
              /\ [s EXCEPT !.active = u] \in Serving /\ [s EXCEPT !.active = u].answered = s.answered
              /\ [s EXCEPT !.answered = u] \in Serving /\ [s EXCEPT !.answered = u].answered = u
BY DEF Serving

LEMMA Utterances ==
  /\ None \notin Spoken /\ None \notin Typed /\ Spoken \cap Typed = {}
  /\ None # "user" /\ None # "tool"
BY AssistantAssumption DEF AssistantAssumption, Omni!UtterancesAssumption

LEMMA LatestText == Omni!LatestUserText = LatestOf(v1)
BY DEF Omni!LatestUserText, Omni!UserMessages, Omni!Newest, LatestOf, UsersOf

LEMMA LatestIs ==
  ASSUME NEW q \in Seq(Message), NEW n \in UsersOf(q), \A j \in UsersOf(q) : j <= n
  PROVE  LatestOf(q) = q[n][2]
<1> DEFINE c == CHOOSE i \in UsersOf(q) : \A j \in UsersOf(q) : j <= i
<1>1. c \in UsersOf(q) /\ \A j \in UsersOf(q) : j <= c
  BY Zenon
<1>2. UsersOf(q) \subseteq Nat
  BY DEF UsersOf
<1>3. c = n
  <2>1. c <= n /\ n <= c /\ c \in Nat /\ n \in Nat
    BY <1>1, <1>2
  <2> HIDE DEF c
  <2> QED
    BY <2>1
<1> QED
  BY <1>3 DEF LatestOf

LEMMA LatestExists ==
  ASSUME NEW q \in Seq(Message), UsersOf(q) # {}
  PROVE  \E n \in UsersOf(q) : \A j \in UsersOf(q) : j <= n
<1> DEFINE T == {Len(q) - i : i \in UsersOf(q)}
<1>1. T \subseteq Nat /\ T # {} /\ UsersOf(q) \subseteq Nat
  BY DEF UsersOf
<1>2. PICK t \in T : \A y \in T : t <= y
  BY <1>1, Least
<1>3. PICK n \in UsersOf(q) : t = Len(q) - n
  OBVIOUS
<1>4. \A j \in UsersOf(q) : Len(q) - n <= Len(q) - j
  BY <1>2, <1>3
<1> HIDE DEF T
<1>5. \A j \in UsersOf(q) : j <= n
  BY <1>1, <1>4
<1> QED
  BY <1>5

LEMMA LatestTyped ==
  ASSUME NEW q \in Seq(Message) PROVE LatestOf(q) \in Spoken \cup Typed \cup {None}
<1>1. CASE UsersOf(q) = {}
  BY <1>1 DEF LatestOf
<1>2. CASE UsersOf(q) # {}
  <2>1. PICK n \in UsersOf(q) : \A j \in UsersOf(q) : j <= n
    BY <1>2, LatestExists
  <2>2. q[n] \in Message /\ q[n][1] = "user"
    BY DEF UsersOf
  <2>3. q[n][2] \in Spoken \cup Typed
    BY <2>2 DEF Message
  <2> QED
    BY <2>1, <2>3, LatestIs
<1> QED
  BY <1>1, <1>2

\* A message of the user becomes the newest, another one leaves the newest.
LEMMA LatestAppended ==
  ASSUME NEW q \in Seq(Message), NEW m \in Message
  PROVE  /\ m[1] = "user" => LatestOf(Append(q, m)) = m[2]
         /\ m[1] # "user" => LatestOf(Append(q, m)) = LatestOf(q)
<1> DEFINE p == Append(q, m)
<1>1. /\ p \in Seq(Message) /\ DOMAIN p = DOMAIN q \cup {Len(q) + 1} /\ DOMAIN q = 1..Len(q)
      /\ p[Len(q) + 1] = m /\ \A i \in DOMAIN q : p[i] = q[i]
  BY Appended
<1> HIDE DEF p
<1>2. CASE m[1] = "user"
  <2>1. Len(q) + 1 \in UsersOf(p) /\ \A j \in UsersOf(p) : j <= Len(q) + 1
    BY <1>1, <1>2 DEF UsersOf
  <2> QED
    BY <1>1, <1>2, <2>1, LatestIs DEF p
<1>3. CASE m[1] # "user"
  <2>1. UsersOf(p) = UsersOf(q)
    BY <1>1, <1>3 DEF UsersOf
  <2>2. CASE UsersOf(q) = {}
    BY <2>1, <2>2, <1>3 DEF LatestOf, p
  <2>3. CASE UsersOf(q) # {}
    <3>1. PICK n \in UsersOf(q) : \A j \in UsersOf(q) : j <= n
      BY <2>3, LatestExists
    <3>2. LatestOf(q) = q[n][2] /\ LatestOf(p) = p[n][2]
      BY <1>1, <2>1, <3>1, LatestIs
    <3>3. n \in DOMAIN q
      BY DEF UsersOf
    <3> QED
      BY <1>1, <1>3, <3>2, <3>3 DEF p
  <2> QED
    BY <2>2, <2>3
<1> QED
  BY <1>2, <1>3

LEMMA OmniInit == Omni!Init => Omni!Inv
<1> SUFFICES ASSUME Omni!Init PROVE Omni!Inv
  OBVIOUS
<1>1. /\ v1 = <<>> /\ v2 = 0 /\ v3 = <<>> /\ v4 = Omni!NoTurn /\ v6 = Omni!Idle /\ v7 = Omni!Idle
      /\ v8 = [said |-> {}, typed |-> {}, reported |-> <<>>, written |-> {}, tools |-> 0, cuts |-> 0]
      /\ v5 = [active |-> None, answered |-> None, speaking |-> None, responding |-> FALSE]
  BY DEF Omni!Init
<1>2. Omni!TypeOK
  BY <1>1 DEF Omni!TypeOK, Omni!NoTurn, Omni!Idle, Omni!Waits, Omni!InputWaits, Omni!DataWaits
<1>3. LatestOf(v1) = None
  BY <1>1 DEF LatestOf, UsersOf
<1>4. Omni!InOrder
  BY <1>1, <1>3, LatestText, Utterances DEF Omni!InOrder, Omni!LastReported
<1>5. Omni!OneInFlight
  BY <1>1 DEF Omni!OneInFlight, Omni!Unwritten, Omni!Reported
<1>6. Omni!SpokenAnsweredOnce /\ Omni!Again(v7.what, v7.at)
  BY <1>1 DEF Omni!SpokenAnsweredOnce, Omni!Again, Omni!Idle
<1> QED
  BY <1>2, <1>4, <1>5, <1>6 DEF Omni!Inv

\* What an action must leave alone so that each conjunct stays.
LEMMA InOrderKept ==
  ASSUME Omni!InOrder, LatestOf(v1') = LatestOf(v1), v8'.reported = v8.reported,
         v8'.written = v8.written, v5'.answered = v5.answered
  PROVE  Omni!InOrder'
<1>1. Omni!LatestUserText' = Omni!LatestUserText
  BY LatestText DEF Omni!LatestUserText, Omni!UserMessages, Omni!Newest, LatestOf, UsersOf
<1> QED
  BY <1>1 DEF Omni!InOrder, Omni!LastReported

LEMMA LatestTextNext == Omni!LatestUserText' = LatestOf(v1')
BY DEF Omni!LatestUserText, Omni!UserMessages, Omni!Newest, LatestOf, UsersOf

LEMMA AgainKept ==
  ASSUME NEW u, NEW w, Omni!Again(u, w), v8'.reported = v8.reported,
         Omni!Undisturbed' => Omni!Undisturbed
  PROVE  Omni!Again(u, w)'
BY DEF Omni!Again, Omni!Reported, Omni!LastReported

LEMMA AnsweredKept ==
  ASSUME Omni!SpokenAnsweredOnce, DOMAIN v3' = DOMAIN v3,
         \A t \in DOMAIN v3 : v3'[t].of = v3[t].of /\ v3'[t].trigger = v3[t].trigger,
         v8'.reported = v8.reported, Omni!Undisturbed' => Omni!Undisturbed
  PROVE  Omni!SpokenAnsweredOnce'
BY DEF Omni!SpokenAnsweredOnce, Omni!Again, Omni!Reported, Omni!LastReported

\* What was cut short stays cut short, and what ended without a reply silent.
LEMMA StaysDisturbed ==
  ASSUME Omni!TypeOK, v8'.tools \in {v8.tools, v8.tools + 1},
         \A t \in DOMAIN v3 :
           /\ t \in DOMAIN v3' /\ (v3[t].cancelled => v3'[t].cancelled)
           /\ v3[t].at = "silent" => v3'[t].at = "silent"
  PROVE  Omni!Undisturbed' => Omni!Undisturbed
<1>1. v8.tools \in Nat
  BY DEF Omni!TypeOK
<1> QED
  BY <1>1 DEF Omni!Undisturbed

\* The turn in flight is cancelled; nothing is undisturbed any more.
LEMMA CutShort ==
  ASSUME Omni!TypeOK, Omni!InFlight, v3' = Omni!Cancel(v3, v4.turn)
  PROVE  /\ v3' \in Seq(Omni!TurnRecords) /\ DOMAIN v3' = DOMAIN v3 /\ Len(v3') = Len(v3)
         /\ \A t \in DOMAIN v3 : v3'[t].of = v3[t].of /\ v3'[t].trigger = v3[t].trigger
         /\ ~Omni!Undisturbed'
<1> DEFINE e == [v3[v4.turn] EXCEPT !.cancelled = TRUE]
<1>1. v4.turn \in DOMAIN v3 /\ v3 \in Seq(Omni!TurnRecords)
  BY DEF Omni!TypeOK, Omni!InFlight, Omni!Running
<1>2. v3[v4.turn] \in Omni!TurnRecords
  BY <1>1
<1>3. e \in Omni!TurnRecords /\ e.cancelled /\ e.of = v3[v4.turn].of /\ e.trigger = v3[v4.turn].trigger
  BY <1>2 DEF Omni!TurnRecords
<1>4. v3' = [v3 EXCEPT ![v4.turn] = e]
  BY DEF Omni!Cancel
<1> HIDE DEF e
<1>5. /\ v3' \in Seq(Omni!TurnRecords) /\ DOMAIN v3' = DOMAIN v3 /\ v3'[v4.turn] = e
      /\ \A t \in DOMAIN v3 \ {v4.turn} : v3'[t] = v3[t]
  BY <1>1, <1>3, <1>4, Replaced
<1> QED
  BY <1>1, <1>3, <1>5 DEF Omni!Undisturbed

\* A new turn, while nothing is undisturbed or no other is in flight.
LEMMA NewTurnKeepsInv ==
  ASSUME Omni!Inv, NEW r \in Omni!TurnRecords, v3' = Append(v3, r), r.at = "new", ~r.cancelled, ~r.tool,
         v4' = [turn |-> Len(v3) + 1, audio |-> r.utterance # None],
         v1' = v1, v8' = v8, v2' \in Nat, v5'.answered = v5.answered,
         v5' \in Serving,
         v6' \in {v6, Omni!Idle}, v7' \in {v7, Omni!Idle},
         Omni!Undisturbed => ~Omni!InFlight /\ (r.utterance = None => Omni!Unwritten = {}),
         Omni!Again(r.of, r.trigger)
  PROVE  Omni!Inv'
<1>1. /\ v3' \in Seq(Omni!TurnRecords) /\ Len(v3') = Len(v3) + 1 /\ DOMAIN v3' = DOMAIN v3 \cup {Len(v3) + 1}
      /\ Len(v3) + 1 \notin DOMAIN v3 /\ \A t \in DOMAIN v3 : v3'[t] = v3[t]
      /\ v3'[Len(v3) + 1] = r /\ Len(v3) \in Nat
  BY Appended DEF Omni!Inv, Omni!TypeOK
<1>2. Omni!TypeOK'
  <2>1. v4' \in [turn : 0..Len(v3'), audio : BOOLEAN]
    BY <1>1
  <2> QED
    BY <1>1, <2>1, OmniTypes, OmniTypesNext DEF Omni!Inv, Omni!Idle, Omni!Waits, Omni!InputWaits, Omni!DataWaits
<1>3. Omni!InOrder'
  BY InOrderKept DEF Omni!Inv
<1>4. Omni!Undisturbed' => Omni!Undisturbed
  BY <1>1, StaysDisturbed DEF Omni!Inv
<1>5. Omni!OneInFlight'
  <2> SUFFICES ASSUME Omni!Undisturbed'
               PROVE  /\ v6' = Omni!Idle /\ v7' = Omni!Idle
                      /\ \A i \in DOMAIN v1' : v1'[i][1] # "tool"
                      /\ \A t \in DOMAIN v3' :
                           /\ ~v3'[t].tool
                           /\ (Omni!Running(t))' => v4'.turn = t /\ v4'.audio = (v3'[t].utterance # None)
                      /\ Omni!Unwritten' # {} => Omni!InFlight' /\ v4'.audio
    BY DEF Omni!OneInFlight
  <2>1. /\ Omni!Undisturbed /\ v6 = Omni!Idle /\ v7 = Omni!Idle
        /\ \A i \in DOMAIN v1 : v1[i][1] # "tool"
        /\ \A t \in DOMAIN v3 : ~v3[t].tool /\ (Omni!Running(t) => v4.turn = t)
        /\ ~Omni!InFlight
    BY <1>4 DEF Omni!Inv, Omni!OneInFlight
  <2>2. \A t \in DOMAIN v3 : ~Omni!Running(t)
    BY <2>1 DEF Omni!InFlight
  <2>3. \A t \in DOMAIN v3 : ~(Omni!Running(t))'
    BY <1>1, <2>2 DEF Omni!Running
  <2>4. Omni!Unwritten' = Omni!Unwritten
    BY DEF Omni!Unwritten, Omni!Reported
  <2>5. Omni!InFlight' /\ v4'.turn = Len(v3) + 1 /\ v4'.audio = (r.utterance # None)
    BY <1>1 DEF Omni!InFlight, Omni!Running, Omni!Over
  <2> QED
    BY <1>1, <2>1, <2>3, <2>4, <2>5
<1>6. Omni!SpokenAnsweredOnce'
  <2>1. Omni!Again(r.of, r.trigger)'
    BY <1>4, AgainKept
  <2>2. \A t \in DOMAIN v3 : Omni!Again(v3[t].of, v3[t].trigger)'
    BY <1>4, AgainKept DEF Omni!Inv, Omni!SpokenAnsweredOnce
  <2> QED
    BY <1>1, <2>1, <2>2 DEF Omni!SpokenAnsweredOnce, Omni!Again, Omni!Reported, Omni!LastReported
<1>7. Omni!Again(v7.what, v7.at)'
  <2>1. v7' = v7 \/ v7' = Omni!Idle
    OBVIOUS
  <2>2. CASE v7' = v7
    BY <1>4, <2>2 DEF Omni!Inv, Omni!Again, Omni!Reported, Omni!LastReported
  <2>3. CASE v7' = Omni!Idle
    BY <2>3 DEF Omni!Again, Omni!Idle
  <2> QED
    BY <2>1, <2>2, <2>3
<1> QED
  BY <1>2, <1>3, <1>5, <1>6, <1>7 DEF Omni!Inv

\* A turn goes on, or its frames are dropped, and no context message, report,
\* turn or wait of the data lane comes of it.
LEMMA TurnGoesOnKeepsInv ==
  ASSUME Omni!Inv, Omni!TypeOK', v1' = v1, v8'.reported = v8.reported, v8'.written = v8.written,
         v8'.tools = v8.tools, v5'.answered = v5.answered, v7' = v7, v6' = v6, v4' = v4,
         DOMAIN v3' = DOMAIN v3,
         \A t \in DOMAIN v3 :
           /\ v3'[t].of = v3[t].of /\ v3'[t].trigger = v3[t].trigger
           /\ v3'[t].cancelled = v3[t].cancelled /\ v3'[t].tool = v3[t].tool
           /\ v3'[t].utterance = v3[t].utterance
           /\ {v3[t].at, v3'[t].at} \cap Omni!Over # {} => v3'[t].at = v3[t].at
  PROVE  Omni!Inv'
<1>1. Omni!InOrder'
  BY InOrderKept DEF Omni!Inv
<1>2. Omni!Undisturbed' <=> Omni!Undisturbed
  BY DEF Omni!Undisturbed, Omni!Over
<1>3. \A t : (Omni!Running(t))' <=> Omni!Running(t)
  BY DEF Omni!Running
<1>4. Omni!OneInFlight'
  BY <1>2, <1>3 DEF Omni!Inv, Omni!OneInFlight, Omni!Unwritten, Omni!Reported, Omni!InFlight
<1>5. Omni!SpokenAnsweredOnce'
  BY <1>2, AnsweredKept DEF Omni!Inv
<1>6. Omni!Again(v7.what, v7.at)'
  BY <1>2 DEF Omni!Inv, Omni!Again, Omni!Reported, Omni!LastReported
<1> QED
  BY <1>1, <1>4, <1>5, <1>6 DEF Omni!Inv

\* The turn in flight is cancelled, and a lane waits for it.
LEMMA CutKeepsInv ==
  ASSUME Omni!Inv, Omni!TypeOK', Omni!InFlight, v3' = Omni!Cancel(v3, v4.turn), v1' = v1,
         v8'.reported = v8.reported, v8'.written = v8.written, v8'.tools = v8.tools,
         v5'.answered = v5.answered, v7' = v7 \/ Omni!Again(v7.what, v7.at)'
  PROVE  Omni!Inv'
<1>1. /\ DOMAIN v3' = DOMAIN v3 /\ ~Omni!Undisturbed'
      /\ \A t \in DOMAIN v3 : v3'[t].of = v3[t].of /\ v3'[t].trigger = v3[t].trigger
  BY CutShort DEF Omni!Inv
<1>2. Omni!InOrder' /\ Omni!OneInFlight'
  BY <1>1, InOrderKept DEF Omni!Inv, Omni!OneInFlight
<1>3. Omni!SpokenAnsweredOnce'
  BY <1>1, AnsweredKept DEF Omni!Inv
<1>4. Omni!Again(v7.what, v7.at)'
  BY <1>1 DEF Omni!Inv, Omni!Again, Omni!Reported, Omni!LastReported
<1> QED
  BY <1>2, <1>3, <1>4 DEF Omni!Inv

\* The pending turn is forgotten when it is over or a lane has waited for it.
LEMMA ForgottenKeepsInv ==
  ASSUME Omni!Inv, Omni!TypeOK', v3' = v3, v1' = v1, v7' = v7, v4' = Omni!NoTurn,
         v8'.reported = v8.reported, v8'.written = v8.written, v8'.tools = v8.tools,
         v5'.answered = v5.answered, v6' = Omni!Idle, Omni!Undisturbed => ~Omni!InFlight
  PROVE  Omni!Inv'
<1>1. Omni!Undisturbed' <=> Omni!Undisturbed
  BY DEF Omni!Undisturbed
<1>2. Omni!InOrder'
  BY InOrderKept DEF Omni!Inv
<1>3. Omni!SpokenAnsweredOnce'
  BY <1>1, AnsweredKept DEF Omni!Inv
<1>4. Omni!Again(v7.what, v7.at)'
  BY <1>1 DEF Omni!Inv, Omni!Again, Omni!Reported, Omni!LastReported
<1>5. Omni!OneInFlight'
  <2> SUFFICES ASSUME Omni!Undisturbed
               PROVE  /\ v6' = Omni!Idle /\ v7' = Omni!Idle
                      /\ \A i \in DOMAIN v1' : v1'[i][1] # "tool"
                      /\ \A t \in DOMAIN v3' : ~v3'[t].tool /\ ~(Omni!Running(t))'
                      /\ Omni!Unwritten' = {}
    BY <1>1 DEF Omni!OneInFlight
  <2>1. \A t \in DOMAIN v3 : ~Omni!Running(t)
    BY DEF Omni!Inv, Omni!OneInFlight, Omni!InFlight
  <2> QED
    BY <2>1 DEF Omni!Inv, Omni!OneInFlight, Omni!Running, Omni!Unwritten, Omni!Reported
<1> QED
  BY <1>2, <1>3, <1>4, <1>5 DEF Omni!Inv

LEMMA InterruptionKeepsInv == ASSUME Omni!Inv, Omni!Interruption PROVE Omni!Inv'
<1>1. /\ v2' = 0 /\ v1' = v1 /\ v7' = v7 /\ v8' = [v8 EXCEPT !.cuts = @ + 1] /\ v6 = Omni!Idle
  BY DEF Omni!Interruption
<1>2. /\ v8'.reported = v8.reported /\ v8'.written = v8.written /\ v8'.tools = v8.tools
      /\ v8' \in OmniEnv
  BY <1>1, OmniTypes, EnvCuts DEF Omni!Inv
<1>3. CASE Omni!InFlight /\ Omni!CancelAndWait(v6, "interruption", None) /\ UNCHANGED <<v4, v5>>
  <2>1. v3' = Omni!Cancel(v3, v4.turn) /\ v6' = [at |-> "interruption", on |-> v4.turn, what |-> None]
    BY <1>3 DEF Omni!CancelAndWait
  <2>2. Omni!TypeOK'
    BY <1>1, <1>2, <1>3, <2>1, CutShort, OmniTypes, OmniTypesNext DEF Omni!Inv, Omni!Waits, Omni!InputWaits
  <2> QED
    BY <1>1, <1>2, <1>3, <2>1, <2>2, CutKeepsInv
<1>4. CASE /\ ~Omni!InFlight /\ v4' = Omni!NoTurn /\ v5' = [v5 EXCEPT !.responding = FALSE]
           /\ UNCHANGED <<v3, v6>>
  <2>1. Omni!TypeOK' /\ v5'.answered = v5.answered
    BY <1>1, <1>2, <1>4, OmniTypes, OmniTypesNext, ServingChanges, NoTurnPending DEF Omni!Inv
  <2> QED
    BY <1>1, <1>2, <1>4, <2>1, ForgottenKeepsInv
<1> QED
  BY <1>3, <1>4 DEF Omni!Interruption

LEMMA BotSpeakingKeepsInv ==
  ASSUME Omni!Inv, NEW b \in BOOLEAN, Omni!BotSpeaking(b) PROVE Omni!Inv'
<1>1. Omni!TypeOK' /\ v5'.answered = v5.answered
  BY OmniTypes, OmniTypesNext, ServingChanges DEF Omni!Inv, Omni!BotSpeaking
<1> QED
  BY <1>1, TurnGoesOnKeepsInv DEF Omni!BotSpeaking

LEMMA OmniUserStartedKeepsInv ==
  ASSUME Omni!Inv, NEW u \in Spoken, Omni!UserStarted(u) PROVE Omni!Inv'
<1>1. v2' = v2 /\ v1' = v1 /\ v7' = v7 /\ v8' = [v8 EXCEPT !.said = @ \cup {u}] /\ v6 = Omni!Idle
  BY DEF Omni!UserStarted
<1>2. /\ v8'.reported = v8.reported /\ v8'.written = v8.written /\ v8'.tools = v8.tools
      /\ v8' \in OmniEnv
  BY <1>1, OmniTypes, EnvSaid DEF Omni!Inv
<1>3. CASE Omni!InFlight /\ Omni!CancelAndWait(v6, "barge-in", u) /\ UNCHANGED <<v4, v5>>
  <2>1. v3' = Omni!Cancel(v3, v4.turn) /\ v6' = [at |-> "barge-in", on |-> v4.turn, what |-> u]
    BY <1>3 DEF Omni!CancelAndWait
  <2>2. Omni!TypeOK'
    BY <1>1, <1>2, <1>3, <2>1, CutShort, OmniTypes, OmniTypesNext DEF Omni!Inv, Omni!Waits, Omni!InputWaits
  <2> QED
    BY <1>1, <1>2, <1>3, <2>1, <2>2, CutKeepsInv
<1>4. CASE /\ ~(v5.responding /\ Omni!InFlight)
           /\ v4' = IF v5.responding THEN Omni!NoTurn ELSE v4
           /\ v5' = [v5 EXCEPT !.responding = FALSE, !.speaking = u] /\ UNCHANGED <<v3, v6>>
  <2>1. Omni!TypeOK' /\ v5'.answered = v5.answered
    BY <1>1, <1>2, <1>4, OmniTypes, OmniTypesNext, ServingChanges, NoTurnPending DEF Omni!Inv
  <2>2. CASE v5.responding
    BY <1>1, <1>2, <1>4, <2>1, <2>2, ForgottenKeepsInv
  <2>3. CASE ~v5.responding
    BY <1>1, <1>2, <1>4, <2>1, <2>3, TurnGoesOnKeepsInv
  <2> QED
    BY <2>2, <2>3
<1> QED
  BY <1>3, <1>4 DEF Omni!UserStarted

LEMMA NewTurnTyped ==
  ASSUME NEW u \in Spoken \cup {None}, NEW w \in {"user", "tool", None}, NEW m \in Spoken \cup Typed \cup {None},
         NEW r, r = Omni!NewTurn(u, w, m)
  PROVE  /\ r \in Omni!TurnRecords /\ r.at = "new" /\ ~r.cancelled /\ ~r.tool
         /\ r.utterance = u /\ r.trigger = w /\ r.of = m
BY DEF Omni!NewTurn, Omni!TurnRecords

LEMMA IdleTyped == Omni!Idle.at = "idle" /\ Omni!Idle.what = None
BY DEF Omni!Idle

LEMMA UserStoppedKeepsInv == ASSUME Omni!Inv, Omni!UserStopped PROVE Omni!Inv'
<1>1. /\ v1' = v1 /\ v2' = v2 /\ v7' = v7 /\ v8' = v8 /\ v6 = Omni!Idle
      /\ v5.speaking \in Spoken /\ v5' = [v5 EXCEPT !.speaking = None]
  BY OmniTypes DEF Omni!UserStopped, Omni!Inv, Serving
<1>2. v5' \in Serving /\ v5'.answered = v5.answered
  BY <1>1, OmniTypes, ServingChanges DEF Omni!Inv
<1>3. CASE UNCHANGED <<v3, v4, v6>>
  <2>1. Omni!TypeOK'
    BY <1>1, <1>2, <1>3, OmniTypes, OmniTypesNext DEF Omni!Inv
  <2> QED
    BY <1>1, <1>2, <1>3, <2>1, TurnGoesOnKeepsInv
<1>4. CASE Omni!InFlight /\ Omni!CancelAndWait(v6, "preempt", v5.speaking) /\ UNCHANGED v4
  <2>1. v3' = Omni!Cancel(v3, v4.turn) /\ v6' = [at |-> "preempt", on |-> v4.turn, what |-> v5.speaking]
    BY <1>4 DEF Omni!CancelAndWait
  <2>2. Omni!TypeOK'
    BY <1>1, <1>2, <1>4, <2>1, CutShort, OmniTypes, OmniTypesNext DEF Omni!Inv, Omni!Waits, Omni!InputWaits
  <2> QED
    BY <1>1, <1>2, <1>4, <2>1, <2>2, CutKeepsInv
<1>5. CASE ~Omni!InFlight /\ Omni!RunAudioTurn(v5.speaking) /\ UNCHANGED v6
  <2> DEFINE r == Omni!NewTurn(v5.speaking, None, None)
  <2>1. /\ r \in Omni!TurnRecords /\ r.at = "new" /\ ~r.cancelled /\ ~r.tool /\ r.utterance # None
        /\ r.trigger = None /\ r.of = None
    BY <1>1, NewTurnTyped, Utterances
  <2>2. v3' = Append(v3, r) /\ v4' = [turn |-> Len(v3) + 1, audio |-> TRUE]
    BY <1>5 DEF Omni!RunAudioTurn
  <2>3. Omni!Again(r.of, r.trigger)
    BY <2>1, Utterances DEF Omni!Again
  <2>4. v2' \in Nat
    BY <1>1, OmniTypes DEF Omni!Inv
  <2> HIDE DEF r
  <2> QED
    BY <1>1, <1>2, <1>5, <2>1, <2>2, <2>3, <2>4, NewTurnKeepsInv DEF Serving
<1> QED
  BY <1>3, <1>4, <1>5 DEF Omni!UserStopped

LEMMA InputResumesKeepsInv == ASSUME Omni!Inv, Omni!InputResumes PROVE Omni!Inv'
<1>1. /\ v1' = v1 /\ v2' = v2 /\ v7' = v7 /\ v8' = v8 /\ v6 # Omni!Idle /\ v6' = Omni!Idle
      /\ v6 \in Omni!InputWaits
  BY OmniTypes DEF Omni!InputResumes, Omni!Inv
<1>2. ~Omni!Undisturbed
  BY <1>1 DEF Omni!Inv, Omni!OneInFlight
<1>3. Omni!Idle \in Omni!InputWaits /\ (v6.at = "preempt" => v6.what \in Spoken)
      /\ (v6.at = "barge-in" => v6.what \in Spoken)
  BY <1>1 DEF Omni!Idle, Omni!Waits, Omni!InputWaits
<1>4. CASE v6.at = "preempt" /\ Omni!RunAudioTurn(v6.what) /\ UNCHANGED v5
  <2> DEFINE r == Omni!NewTurn(v6.what, None, None)
  <2>1. /\ r \in Omni!TurnRecords /\ r.at = "new" /\ ~r.cancelled /\ ~r.tool /\ r.utterance # None
        /\ r.trigger = None /\ r.of = None
    BY <1>3, <1>4, NewTurnTyped, Utterances
  <2>2. v3' = Append(v3, r) /\ v4' = [turn |-> Len(v3) + 1, audio |-> TRUE]
    BY <1>4 DEF Omni!RunAudioTurn
  <2>3. Omni!Again(r.of, r.trigger)
    BY <2>1, Utterances DEF Omni!Again
  <2>4. v2' \in Nat /\ v5' \in Serving
    BY <1>1, <1>4, OmniTypes DEF Omni!Inv
  <2> HIDE DEF r
  <2> QED
    BY <1>1, <1>2, <1>4, <2>1, <2>2, <2>3, <2>4, NewTurnKeepsInv DEF Serving
<1>5. CASE /\ v6.at # "preempt" /\ v4' = Omni!NoTurn /\ UNCHANGED v3
           /\ v5' = [v5 EXCEPT !.responding = FALSE,
                              !.speaking = IF v6.at = "barge-in" THEN v6.what ELSE @]
  <2>1. v5 \in Serving /\ v5.speaking \in Spoken \cup {None}
    BY OmniTypes DEF Omni!Inv, Serving
  <2>2. v5' \in Serving /\ v5'.answered = v5.answered
    <3>1. CASE v6.at = "barge-in"
      <4>1. v5' = [v5 EXCEPT !.responding = FALSE, !.speaking = v6.what]
        BY <1>5, <2>1, <3>1 DEF Serving
      <4> QED
        BY <1>3, <2>1, <3>1, <4>1, ServingChanges
    <3>2. CASE v6.at # "barge-in"
      <4>1. v5' = [v5 EXCEPT !.responding = FALSE, !.speaking = v5.speaking]
        BY <1>5, <2>1, <3>2 DEF Serving
      <4> QED
        BY <2>1, <4>1, ServingChanges
    <3> QED
      BY <3>1, <3>2
  <2>3. Omni!TypeOK'
    BY <1>1, <1>3, <1>5, <2>2, OmniTypes, OmniTypesNext, NoTurnPending DEF Omni!Inv
  <2> QED
    BY <1>1, <1>2, <1>5, <2>2, <2>3, ForgottenKeepsInv
<1> QED
  BY <1>4, <1>5 DEF Omni!InputResumes

\* What a context frame finds: an utterance that is no echo was transcribed
\* before another, and without an audio turn in flight something was cut short.
LEMMA NoEcho ==
  ASSUME Omni!Inv, Omni!LatestUserText \in Spoken, ~Omni!Echoes("user")
  PROVE  /\ Omni!LatestUserText \in Omni!Reported \ {Omni!LastReported}
         /\ Omni!Undisturbed => Omni!InFlight /\ v4.audio
<1> DEFINE q == v8.reported
           u == Omni!LatestUserText
<1>1. q \in Seq(Spoken) /\ None \notin Spoken
  BY OmniTypes, Utterances DEF Omni!Inv, OmniEnv
<1>2. PICK n \in DOMAIN q : q[n] = u /\ v8.written = {q[k] : k \in 1..n}
  BY Zenon DEF Omni!Inv, Omni!InOrder
<1> HIDE DEF q, u
<1>3. q # <<>> /\ Len(q) \in DOMAIN q /\ DOMAIN q = 1..Len(q) /\ Len(q) \in Nat
  BY <1>1, <1>2
<1>4. Omni!LastReported = q[Len(q)] /\ q[Len(q)] \in Spoken /\ v5.answered = q[Len(q)]
  BY <1>1, <1>3 DEF Omni!Inv, Omni!InOrder, Omni!LastReported, q
<1>5. u # q[Len(q)]
  BY <1>1, <1>4 DEF Omni!Echoes, u
<1>6. u \in Omni!Reported
  BY <1>2 DEF Omni!Reported, q
<1>7. q[Len(q)] \in Omni!Unwritten
  <2>1. q[Len(q)] \in Omni!Reported
    BY <1>3 DEF Omni!Reported, q
  <2>2. ASSUME NEW k \in 1..n, q[k] = q[Len(q)] PROVE FALSE
    <3>1. k \in DOMAIN q /\ n \in DOMAIN q
      BY <1>3
    <3>2. k = Len(q)
      BY <1>3, <2>2, <3>1 DEF Omni!Inv, Omni!InOrder, q
    <3>3. n = Len(q)
      BY <1>3, <3>2
    <3> QED
      BY <1>2, <1>5, <3>3
  <2> QED
    BY <1>2, <2>1, <2>2 DEF Omni!Unwritten
<1>8. Omni!Undisturbed => Omni!InFlight /\ v4.audio
  BY <1>7 DEF Omni!Inv, Omni!OneInFlight
<1> QED
  BY <1>4, <1>5, <1>6, <1>8 DEF u

LEMMA TextTyped == Omni!TypeOK => Omni!LatestUserText \in Spoken \cup Typed \cup {None}
BY OmniTypes, LatestText, LatestTyped

\* The trigger of a context frame is the role of the last message.
LEMMA TriggerIs ==
  ASSUME Omni!TypeOK, Omni!Trigger = "tool"
  PROVE  \E i \in DOMAIN v1 : v1[i][1] = "tool"
<1>1. v1 \in Seq(Message)
  BY OmniTypes
<1>2. v1 # <<>> /\ v1[Len(v1)][1] = "tool"
  BY Utterances DEF Omni!Trigger
<1>3. Len(v1) \in DOMAIN v1
  BY <1>1, <1>2
<1> QED
  BY <1>2, <1>3

LEMMA ContextFrameKeepsInv == ASSUME Omni!Inv, Omni!ContextFrame PROVE Omni!Inv'
<1>1. /\ v1' = v1 /\ v2' = v2 - 1 /\ v2 > 0 /\ v5' = v5 /\ v6' = v6 /\ v8' = v8 /\ v7 = Omni!Idle
  BY DEF Omni!ContextFrame
<1>2. v2' \in Nat /\ v5' \in Serving
  BY <1>1, OmniTypes DEF Omni!Inv
<1> DEFINE u == Omni!LatestUserText
<1>3. u \in Spoken \cup Typed \cup {None}
  BY TextTyped DEF Omni!Inv
<1>4. CASE UNCHANGED <<v3, v4, v7>>
  <2>1. Omni!TypeOK'
    BY <1>1, <1>2, <1>4, OmniTypes, OmniTypesNext DEF Omni!Inv
  <2> QED
    BY <1>1, <1>4, <2>1, TurnGoesOnKeepsInv
<1>5. CASE /\ Omni!Trigger = "tool" /\ v7' = [at |-> "tool", on |-> v4.turn, what |-> u]
           /\ UNCHANGED <<v3, v4>>
  <2>1. ~Omni!Undisturbed
    BY <1>5, TriggerIs DEF Omni!Inv, Omni!OneInFlight
  <2>2. Omni!TypeOK'
    <3>1. v4.turn \in Nat
      BY OmniTypes, LenProperties DEF Omni!Inv
    <3>2. v7' \in Omni!DataWaits
      BY <1>3, <1>5, <3>1 DEF Omni!DataWaits, Omni!Waits
    <3> QED
      BY <1>1, <1>2, <1>5, <3>2, OmniTypes, OmniTypesNext DEF Omni!Inv
  <2>3. ~Omni!Undisturbed'
    BY <1>1, <1>5, <2>1 DEF Omni!Undisturbed
  <2>4. Omni!InOrder' /\ Omni!OneInFlight'
    BY <1>1, <2>3, InOrderKept DEF Omni!Inv, Omni!OneInFlight
  <2>5. Omni!SpokenAnsweredOnce'
    BY <1>1, <1>5, <2>3, AnsweredKept DEF Omni!Inv
  <2>6. Omni!Again(v7.what, v7.at)'
    BY <1>5 DEF Omni!Again
  <2> QED
    BY <2>2, <2>4, <2>5, <2>6 DEF Omni!Inv
<1>6. CASE /\ ~Omni!Echoes("user") /\ Omni!InFlight /\ Omni!CancelAndWait(v7, "user", u) /\ UNCHANGED v4
  <2>1. v3' = Omni!Cancel(v3, v4.turn) /\ v7' = [at |-> "user", on |-> v4.turn, what |-> u]
    BY <1>6 DEF Omni!CancelAndWait
  <2>2. Omni!TypeOK'
    <3>1. v4.turn \in Nat
      BY OmniTypes, LenProperties DEF Omni!Inv
    <3>2. v7' \in Omni!DataWaits
      BY <1>3, <2>1, <3>1 DEF Omni!DataWaits, Omni!Waits
    <3> QED
      BY <1>1, <1>2, <1>6, <2>1, <3>2, CutShort, OmniTypes, OmniTypesNext DEF Omni!Inv
  <2>3. u \in Spoken => u \in Omni!Reported \ {Omni!LastReported}
    BY <1>6, NoEcho
  <2>4. ~Omni!Undisturbed'
    BY <1>6, <2>1, CutShort DEF Omni!Inv
  <2>5. Omni!Again(v7.what, v7.at)'
    <3>1. Omni!Reported' = Omni!Reported /\ Omni!LastReported' = Omni!LastReported
      BY <1>1 DEF Omni!Reported, Omni!LastReported
    <3>2. v7'.what = u
      BY <2>1
    <3> HIDE DEF u
    <3> QED
      BY <2>3, <2>4, <3>1, <3>2 DEF Omni!Again
  <2> QED
    BY <1>1, <1>6, <2>1, <2>2, <2>5, CutKeepsInv
<1>7. CASE /\ Omni!Trigger = "tool" \/ (Omni!Trigger = "user" /\ ~Omni!Echoes("user"))
           /\ ~Omni!InFlight /\ Omni!RunTextTurn(Omni!Trigger, u) /\ UNCHANGED v7
  <2> DEFINE r == Omni!NewTurn(None, Omni!Trigger, u)
  <2>1. /\ r \in Omni!TurnRecords /\ r.at = "new" /\ ~r.cancelled /\ ~r.tool /\ r.utterance = None
        /\ r.trigger = Omni!Trigger /\ r.of = u
    BY <1>3, <1>7, NewTurnTyped
  <2>2. v3' = Append(v3, r) /\ v4' = [turn |-> Len(v3) + 1, audio |-> r.utterance # None]
    BY <1>7, <2>1 DEF Omni!RunTextTurn
  <2>3. Omni!Again(r.of, r.trigger)
    BY <1>7, <2>1, NoEcho DEF Omni!Again
  <2>4. Omni!Undisturbed => Omni!Unwritten = {}
    BY <1>7 DEF Omni!Inv, Omni!OneInFlight
  <2> HIDE DEF r, u
  <2> QED
    BY <1>1, <1>2, <1>7, <2>1, <2>2, <2>3, <2>4, NewTurnKeepsInv DEF Serving
<1> QED
  BY <1>4, <1>5, <1>6, <1>7 DEF Omni!ContextFrame

LEMMA DataResumesKeepsInv == ASSUME Omni!Inv, Omni!DataResumes PROVE Omni!Inv'
<1>1. /\ v1' = v1 /\ v2' = v2 /\ v5' = v5 /\ v6' = v6 /\ v8' = v8 /\ v7 # Omni!Idle /\ v7' = Omni!Idle
      /\ Omni!RunTextTurn(v7.at, v7.what) /\ v7 \in Omni!DataWaits /\ v2' \in Nat /\ v5' \in Serving
  BY OmniTypes DEF Omni!DataResumes, Omni!Inv
<1>2. ~Omni!Undisturbed
  BY <1>1 DEF Omni!Inv, Omni!OneInFlight
<1>3. v7.at \in {"user", "tool"} /\ v7.what \in Spoken \cup Typed \cup {None}
  BY <1>1 DEF Omni!DataWaits, Omni!Waits
<1> DEFINE r == Omni!NewTurn(None, v7.at, v7.what)
<1>4. /\ r \in Omni!TurnRecords /\ r.at = "new" /\ ~r.cancelled /\ ~r.tool /\ r.utterance = None
      /\ r.trigger = v7.at /\ r.of = v7.what
  BY <1>3, NewTurnTyped
<1>5. v3' = Append(v3, r) /\ v4' = [turn |-> Len(v3) + 1, audio |-> r.utterance # None]
  BY <1>1, <1>4 DEF Omni!RunTextTurn
<1>6. Omni!Again(r.of, r.trigger)
  BY <1>4 DEF Omni!Inv
<1> HIDE DEF r
<1> QED
  BY <1>1, <1>2, <1>4, <1>5, <1>6, NewTurnKeepsInv


LEMMA TurnChanged ==
  ASSUME Omni!TypeOK, NEW t \in DOMAIN v3, NEW e \in Omni!TurnRecords, v3' = [v3 EXCEPT ![t] = e]
  PROVE  /\ v3' \in Seq(Omni!TurnRecords) /\ DOMAIN v3' = DOMAIN v3 /\ Len(v3') = Len(v3)
         /\ v3'[t] = e /\ \A s \in DOMAIN v3 \ {t} : v3'[s] = v3[s]
<1>1. v3 \in Seq(Omni!TurnRecords)
  BY DEF Omni!TypeOK
<1> QED
  BY <1>1, Replaced

LEMMA TurnTyped ==
  ASSUME Omni!TypeOK, NEW t \in DOMAIN v3
  PROVE  v3[t] \in Omni!TurnRecords /\ t \in Nat
BY DEF Omni!TypeOK

LEMMA StartKeepsInv ==
  ASSUME Omni!Inv, NEW t \in DOMAIN v3, Omni!Start(t) PROVE Omni!Inv'
<1> DEFINE e == [v3[t] EXCEPT !.at = "open"]
           w == IF v3[t].utterance # None THEN v3[t].utterance ELSE Omni!UnwrittenSpokenTurn(t)
<1>1. /\ v1' = v1 /\ v2' = v2 /\ v4' = v4 /\ v6' = v6 /\ v7' = v7 /\ v8' = v8 /\ v3[t].at = "new"
      /\ v3' = [v3 EXCEPT ![t] = e] /\ v5' = [v5 EXCEPT !.active = w]
  BY DEF Omni!Start
<1>2. /\ e \in Omni!TurnRecords /\ e.of = v3[t].of /\ e.trigger = v3[t].trigger /\ e.at = "open"
      /\ e.cancelled = v3[t].cancelled /\ e.tool = v3[t].tool /\ e.utterance = v3[t].utterance
      /\ v3[t].utterance \in Spoken \cup {None}
  BY TurnTyped DEF Omni!Inv, Omni!TurnRecords
<1>3. w \in Spoken \cup {None}
  <2>1. v5.answered \in Spoken \cup {None}
    BY OmniTypes DEF Omni!Inv, Serving
  <2> QED
    BY <1>2, <2>1 DEF Omni!UnwrittenSpokenTurn
<1> HIDE DEF e, w
<1>4. v5' \in Serving /\ v5'.answered = v5.answered
  BY <1>1, <1>3, OmniTypes, ServingChanges DEF Omni!Inv
<1>5. /\ v3' \in Seq(Omni!TurnRecords) /\ DOMAIN v3' = DOMAIN v3 /\ Len(v3') = Len(v3)
      /\ v3'[t] = e /\ \A s \in DOMAIN v3 \ {t} : v3'[s] = v3[s]
  BY <1>1, <1>2, TurnChanged DEF Omni!Inv
<1>6. Omni!TypeOK'
  BY <1>1, <1>4, <1>5, OmniTypes, OmniTypesNext DEF Omni!Inv
<1> QED
  BY <1>1, <1>2, <1>4, <1>5, <1>6, TurnGoesOnKeepsInv DEF Omni!Over

LEMMA RequestKeepsInv ==
  ASSUME Omni!Inv, NEW t \in DOMAIN v3, Omni!Request(t) PROVE Omni!Inv'
<1> DEFINE e == [v3[t] EXCEPT !.at = "stream", !.carries = v5.active]
<1>1. /\ v1' = v1 /\ v2' = v2 /\ v4' = v4 /\ v5' = v5 /\ v6' = v6 /\ v7' = v7 /\ v8' = v8
      /\ v3[t].at = "open" /\ v3' = [v3 EXCEPT ![t] = e]
  BY DEF Omni!Request
<1>2. v5.active \in Spoken \cup {None}
  BY OmniTypes DEF Omni!Inv, Serving
<1>3. /\ e \in Omni!TurnRecords /\ e.of = v3[t].of /\ e.trigger = v3[t].trigger /\ e.at = "stream"
      /\ e.cancelled = v3[t].cancelled /\ e.tool = v3[t].tool /\ e.utterance = v3[t].utterance
  BY <1>2, TurnTyped DEF Omni!Inv, Omni!TurnRecords
<1> HIDE DEF e
<1>4. /\ v3' \in Seq(Omni!TurnRecords) /\ DOMAIN v3' = DOMAIN v3 /\ Len(v3') = Len(v3)
      /\ v3'[t] = e /\ \A s \in DOMAIN v3 \ {t} : v3'[s] = v3[s]
  BY <1>1, <1>3, TurnChanged DEF Omni!Inv
<1>5. Omni!TypeOK'
  BY <1>1, <1>4, OmniTypes, OmniTypesNext DEF Omni!Inv
<1> QED
  BY <1>1, <1>3, <1>4, <1>5, TurnGoesOnKeepsInv DEF Omni!Over

\* While nothing was cut short the turn that transcribes its speech is the one
\* in flight, so that what is not written yet is its own.
LEMMA TranscribeKeepsInv ==
  ASSUME Omni!Inv, NEW t \in DOMAIN v3, Omni!Transcribe(t) PROVE Omni!Inv'
<1> DEFINE c == v3[t].carries
           q == v8.reported
<1>1. /\ v1' = v1 /\ v2' = v2 /\ v3' = v3 /\ v4' = v4 /\ v6' = v6 /\ v7' = v7
      /\ v5' = [v5 EXCEPT !.answered = c] /\ v8' = [v8 EXCEPT !.reported = Append(@, c)]
      /\ c \in Spoken \ Omni!Reported
      /\ v3[t].at = "stream" /\ v3[t].utterance # None
  BY DEF Omni!Transcribe
<1>2. q \in Seq(Spoken) /\ v8 \in OmniEnv /\ v5 \in Serving
  BY OmniTypes DEF Omni!Inv, OmniEnv
<1>3. v8' \in OmniEnv /\ v8'.reported = Append(q, c) /\ v8'.written = v8.written /\ v8'.tools = v8.tools
  BY <1>1, <1>2, EnvReported
<1>4. v5' \in Serving /\ v5'.answered = c
  BY <1>1, <1>2, ServingChanges
<1> HIDE DEF c, q
<1>5. /\ DOMAIN Append(q, c) = DOMAIN q \cup {Len(q) + 1} /\ DOMAIN q = 1..Len(q) /\ Len(q) \in Nat
      /\ Append(q, c)[Len(q) + 1] = c /\ \A i \in DOMAIN q : Append(q, c)[i] = q[i]
      /\ Len(Append(q, c)) = Len(q) + 1 /\ Append(q, c) \in Seq(Spoken)
  BY <1>1, <1>2, Appended
<1>6. Omni!Reported' = Omni!Reported \cup {c} /\ Omni!LastReported' = c
  BY <1>3, <1>5 DEF Omni!Reported, Omni!LastReported, q
<1>7. Omni!TypeOK'
  BY <1>1, <1>3, <1>4, OmniTypes, OmniTypesNext DEF Omni!Inv
<1>8. Omni!InOrder'
  <2>1. \A i, j \in DOMAIN v8'.reported : v8'.reported[i] = v8'.reported[j] => i = j
    <3>1. \A i \in DOMAIN q : q[i] # c
      BY <1>1 DEF Omni!Reported, q
    <3>2. \A i, j \in DOMAIN q : q[i] = q[j] => i = j
      BY DEF Omni!Inv, Omni!InOrder, q
    <3> QED
      BY <1>3, <1>5, <3>1, <3>2
  <2>2. ASSUME Omni!LatestUserText' \in Spoken
        PROVE  \E n \in DOMAIN v8'.reported :
                 v8'.reported[n] = Omni!LatestUserText' /\ v8'.written = {v8'.reported[k] : k \in 1..n}
    <3>1. Omni!LatestUserText' = Omni!LatestUserText
      BY <1>1, LatestText, LatestTextNext
    <3>2. PICK n \in DOMAIN q : q[n] = Omni!LatestUserText /\ v8.written = {q[k] : k \in 1..n}
      BY <2>2, <3>1, Zenon DEF Omni!Inv, Omni!InOrder, q
    <3>3. \A k \in 1..n : Append(q, c)[k] = q[k]
      BY <1>5
    <3>4. {Append(q, c)[k] : k \in 1..n} = {q[k] : k \in 1..n}
      BY <3>3
    <3>5. n \in DOMAIN v8'.reported /\ v8'.reported[n] = q[n] /\ v8'.written = {v8'.reported[k] : k \in 1..n}
      BY <1>3, <1>5, <3>2, <3>4
    <3> QED
      BY <3>1, <3>2, <3>5
  <2> QED
    BY <1>4, <1>6, <2>1, <2>2 DEF Omni!InOrder
<1>9. Omni!Undisturbed' <=> Omni!Undisturbed
  BY <1>1, <1>3 DEF Omni!Undisturbed
<1>10. Omni!OneInFlight'
  <2> SUFFICES ASSUME Omni!Undisturbed
               PROVE  /\ v6' = Omni!Idle /\ v7' = Omni!Idle
                      /\ \A i \in DOMAIN v1' : v1'[i][1] # "tool"
                      /\ \A s \in DOMAIN v3' :
                           /\ ~v3'[s].tool
                           /\ (Omni!Running(s))' => v4'.turn = s /\ v4'.audio = (v3'[s].utterance # None)
                      /\ Omni!InFlight' /\ v4'.audio
    BY <1>9 DEF Omni!OneInFlight
  <2>1. /\ v6 = Omni!Idle /\ v7 = Omni!Idle /\ \A i \in DOMAIN v1 : v1[i][1] # "tool"
        /\ \A s \in DOMAIN v3 :
             ~v3[s].tool /\ (Omni!Running(s) => v4.turn = s /\ v4.audio = (v3[s].utterance # None))
    BY DEF Omni!Inv, Omni!OneInFlight
  <2>2. Omni!Running(t) /\ v4.turn = t /\ v4.audio
    BY <1>1, <2>1 DEF Omni!Running, Omni!Over
  <2> QED
    BY <1>1, <2>1, <2>2 DEF Omni!Running, Omni!InFlight
<1>11. Omni!SpokenAnsweredOnce' /\ Omni!Again(v7.what, v7.at)'
  <2>1. Omni!Again(v7.what, v7.at) /\ \A s \in DOMAIN v3 : Omni!Again(v3[s].of, v3[s].trigger)
    BY DEF Omni!Inv, Omni!SpokenAnsweredOnce
  <2>2. Omni!Undisturbed' <=> Omni!Undisturbed
    BY <1>9
  <2> QED
    BY <1>1, <1>6, <2>1, <2>2 DEF Omni!SpokenAnsweredOnce, Omni!Again
<1> QED
  BY <1>7, <1>8, <1>10, <1>11 DEF Omni!Inv

\* A turn that ends with a reply leaves nothing unwritten.
LEMMA EndKeepsInv ==
  ASSUME Omni!Inv, NEW t \in DOMAIN v3, NEW b \in Omni!Over, Omni!End(t, b),
         v1' = v1 \/ v1' = Append(v1, <<"assistant", t>>), b = "silent" \/ Omni!Reported \subseteq v8.written
  PROVE  Omni!Inv'
<1> DEFINE e == [v3[t] EXCEPT !.at = b]
<1>1. /\ v2' = v2 /\ v4' = v4 /\ v6' = v6 /\ v7' = v7 /\ v8' = v8
      /\ v3' = [v3 EXCEPT ![t] = e] /\ Omni!Running(t)
      /\ v5' = IF v3[t].at = "new" THEN v5 ELSE [v5 EXCEPT !.active = None]
  BY DEF Omni!End
<1>2. /\ e \in Omni!TurnRecords /\ e.of = v3[t].of /\ e.trigger = v3[t].trigger /\ e.at = b
      /\ e.cancelled = v3[t].cancelled /\ e.tool = v3[t].tool /\ e.utterance = v3[t].utterance
  BY TurnTyped DEF Omni!Inv, Omni!TurnRecords
<1> HIDE DEF e
<1>3. v5' \in Serving /\ v5'.answered = v5.answered
  BY <1>1, OmniTypes, ServingChanges DEF Omni!Inv
<1>4. /\ v3' \in Seq(Omni!TurnRecords) /\ DOMAIN v3' = DOMAIN v3 /\ Len(v3') = Len(v3)
      /\ v3'[t] = e /\ \A s \in DOMAIN v3 \ {t} : v3'[s] = v3[s]
  BY <1>1, <1>2, TurnChanged DEF Omni!Inv
<1>5. /\ v1' \in Seq(Message) /\ LatestOf(v1') = LatestOf(v1)
      /\ (\A i \in DOMAIN v1 : v1[i][1] # "tool") => \A i \in DOMAIN v1' : v1'[i][1] # "tool"
  <2> DEFINE m == <<"assistant", t>>
  <2>1. m \in Message /\ m[1] = "assistant"
    BY TurnTyped DEF Omni!Inv, Message
  <2>2. v1 \in Seq(Message)
    BY OmniTypes DEF Omni!Inv
  <2> HIDE DEF m
  <2>3. CASE v1' = Append(v1, m)
    <3>1. LatestOf(v1') = LatestOf(v1)
      BY <2>1, <2>2, <2>3, LatestAppended
    <3>2. /\ Append(v1, m) \in Seq(Message) /\ DOMAIN Append(v1, m) = DOMAIN v1 \cup {Len(v1) + 1}
          /\ \A i \in DOMAIN v1 : Append(v1, m)[i] = v1[i]
          /\ Append(v1, m)[Len(v1) + 1] = m
      BY <2>1, <2>2, Appended
    <3> QED
      BY <2>1, <2>3, <3>1, <3>2
  <2> QED
    BY <1>1, <2>2, <2>3 DEF m
<1>6. Omni!TypeOK'
  BY <1>1, <1>3, <1>4, <1>5, OmniTypes, OmniTypesNext DEF Omni!Inv
<1>7. Omni!InOrder'
  BY <1>1, <1>3, <1>5, InOrderKept DEF Omni!Inv
<1>8. \A s \in DOMAIN v3 : /\ v3'[s].of = v3[s].of /\ v3'[s].trigger = v3[s].trigger
                          /\ v3'[s].cancelled = v3[s].cancelled /\ v3'[s].tool = v3[s].tool
                          /\ v3'[s].utterance = v3[s].utterance
  BY <1>2, <1>4
<1>9. Omni!Undisturbed' => Omni!Undisturbed /\ b # "silent"
  <2>1. v3[t].at # "silent" /\ v8'.tools = v8.tools
    BY <1>1 DEF Omni!Running, Omni!Over
  <2> QED
    BY <1>2, <1>4, <1>8, <2>1 DEF Omni!Undisturbed
<1>10. Omni!OneInFlight'
  <2> SUFFICES ASSUME Omni!Undisturbed, b # "silent"
               PROVE  /\ v6' = Omni!Idle /\ v7' = Omni!Idle
                      /\ \A i \in DOMAIN v1' : v1'[i][1] # "tool"
                      /\ \A s \in DOMAIN v3' :
                           /\ ~v3'[s].tool
                           /\ (Omni!Running(s))' => v4'.turn = s /\ v4'.audio = (v3'[s].utterance # None)
                      /\ Omni!Unwritten' = {}
    BY <1>9 DEF Omni!OneInFlight
  <2>1. /\ v6 = Omni!Idle /\ v7 = Omni!Idle /\ \A i \in DOMAIN v1 : v1[i][1] # "tool"
        /\ \A s \in DOMAIN v3 :
             ~v3[s].tool /\ (Omni!Running(s) => v4.turn = s /\ v4.audio = (v3[s].utterance # None))
    BY DEF Omni!Inv, Omni!OneInFlight
  <2>4. Omni!Unwritten' = {}
    BY <1>1 DEF Omni!Unwritten, Omni!Reported
  <2>5. ASSUME NEW s \in DOMAIN v3, (Omni!Running(s))' PROVE Omni!Running(s)
    BY <1>2, <1>4, <2>5 DEF Omni!Running
  <2> QED
    BY <1>1, <1>4, <1>5, <1>8, <2>1, <2>4, <2>5
<1>11. Omni!SpokenAnsweredOnce'
  BY <1>1, <1>4, <1>8, <1>9, AnsweredKept DEF Omni!Inv
<1>12. Omni!Again(v7.what, v7.at)'
  BY <1>1, <1>9 DEF Omni!Inv, Omni!Again, Omni!Reported, Omni!LastReported
<1> QED
  BY <1>6, <1>7, <1>10, <1>11, <1>12 DEF Omni!Inv

LEMMA ReplyKeepsInv ==
  ASSUME Omni!Inv, NEW t \in DOMAIN v3, Omni!Reply(t) PROVE Omni!Inv'
BY EndKeepsInv DEF Omni!Reply, Omni!Over

LEMMA NoReplyKeepsInv ==
  ASSUME Omni!Inv, NEW t \in DOMAIN v3, Omni!NoReply(t) PROVE Omni!Inv'
BY EndKeepsInv DEF Omni!NoReply, Omni!Over

LEMMA ToolResultKeepsInv ==
  ASSUME Omni!Inv, NEW t \in DOMAIN v3, Omni!ToolResult(t) PROVE Omni!Inv'
<1> DEFINE e == [v3[t] EXCEPT !.tool = TRUE]
           m == <<"tool", t>>
<1>1. /\ v2' = v2 + 1 /\ v4' = v4 /\ v5' = v5 /\ v6' = v6 /\ v7' = v7
      /\ v8' = [v8 EXCEPT !.tools = @ + 1] /\ v3' = [v3 EXCEPT ![t] = e] /\ v1' = Append(v1, m)
  BY DEF Omni!ToolResult
<1>2. /\ e \in Omni!TurnRecords /\ e.of = v3[t].of /\ e.trigger = v3[t].trigger
      /\ e.cancelled = v3[t].cancelled
  BY TurnTyped DEF Omni!Inv, Omni!TurnRecords
<1>3. m \in Message /\ m[1] = "tool"
  BY TurnTyped DEF Omni!Inv, Message
<1> HIDE DEF e, m
<1>4. /\ v1' \in Seq(Message) /\ LatestOf(v1') = LatestOf(v1)
  BY <1>1, <1>3, Appended, LatestAppended, OmniTypes DEF Omni!Inv
<1>5. /\ v8' \in OmniEnv /\ v8'.reported = v8.reported /\ v8'.written = v8.written
      /\ v8'.tools = v8.tools + 1 /\ v8.tools \in Nat
  BY <1>1, EnvTools, OmniTypes DEF Omni!Inv, OmniEnv
<1>6. /\ v3' \in Seq(Omni!TurnRecords) /\ DOMAIN v3' = DOMAIN v3 /\ Len(v3') = Len(v3)
      /\ v3'[t] = e /\ \A s \in DOMAIN v3 \ {t} : v3'[s] = v3[s]
  BY <1>1, <1>2, TurnChanged DEF Omni!Inv
<1>7. Omni!TypeOK'
  BY <1>1, <1>4, <1>5, <1>6, OmniTypes, OmniTypesNext DEF Omni!Inv
<1>8. ~Omni!Undisturbed'
  BY <1>5 DEF Omni!Undisturbed
<1>9. Omni!InOrder' /\ Omni!OneInFlight'
  BY <1>1, <1>4, <1>5, <1>8, InOrderKept DEF Omni!Inv, Omni!OneInFlight
<1>10. Omni!SpokenAnsweredOnce'
  BY <1>2, <1>5, <1>6, <1>8, AnsweredKept DEF Omni!Inv
<1>11. Omni!Again(v7.what, v7.at)'
  BY <1>1, <1>5, <1>8 DEF Omni!Inv, Omni!Again, Omni!Reported, Omni!LastReported
<1> QED
  BY <1>7, <1>9, <1>10, <1>11 DEF Omni!Inv

\* The aggregator writes a message of the user, and no more than was reported
\* is then written.
LEMMA UserWritesKeepsInv ==
  ASSUME Omni!Inv, NEW x \in Spoken \cup Typed, v1' = Append(v1, <<"user", x>>), v2' = v2 + 1,
         UNCHANGED <<v3, v4, v5, v6, v7>>, v8' \in OmniEnv, v8'.reported = v8.reported,
         v8'.tools = v8.tools, v8.written \subseteq v8'.written,
         x \in Spoken => \E n \in DOMAIN v8.reported :
           v8.reported[n] = x /\ v8'.written = {v8.reported[k] : k \in 1..n}
  PROVE  Omni!Inv'
<1> DEFINE m == <<"user", x>>
<1>1. m \in Message /\ m[1] = "user" /\ m[2] = x
  BY DEF Message
<1> HIDE DEF m
<1>2. v1 \in Seq(Message) /\ v1' = Append(v1, m) /\ v2 \in Nat
  BY OmniTypes DEF Omni!Inv, m
<1>3. LatestOf(v1') = x
  BY <1>1, <1>2, LatestAppended
<1>4. /\ v1' \in Seq(Message) /\ DOMAIN v1' = DOMAIN v1 \cup {Len(v1) + 1}
      /\ v1'[Len(v1) + 1] = m /\ \A i \in DOMAIN v1 : v1'[i] = v1[i]
  BY <1>1, <1>2, Appended
<1>5. Omni!TypeOK'
  BY <1>2, <1>4, OmniTypes, OmniTypesNext DEF Omni!Inv
<1>6. Omni!InOrder'
  BY <1>3, LatestTextNext DEF Omni!Inv, Omni!InOrder, Omni!LastReported
<1>7. Omni!Undisturbed' <=> Omni!Undisturbed
  BY DEF Omni!Undisturbed
<1>8. Omni!Reported' = Omni!Reported /\ Omni!LastReported' = Omni!LastReported
  BY DEF Omni!Reported, Omni!LastReported
<1>9. Omni!OneInFlight'
  <2>1. Omni!Unwritten' \subseteq Omni!Unwritten
    BY <1>8 DEF Omni!Unwritten
  <2>2. (\A i \in DOMAIN v1 : v1[i][1] # "tool") => \A i \in DOMAIN v1' : v1'[i][1] # "tool"
    BY <1>1, <1>4
  <2>3. Omni!InFlight' <=> Omni!InFlight
    BY DEF Omni!InFlight, Omni!Running
  <2>4. \A t : (Omni!Running(t))' <=> Omni!Running(t)
    BY DEF Omni!Running
  <2> QED
    BY <1>7, <2>1, <2>2, <2>3, <2>4 DEF Omni!Inv, Omni!OneInFlight
<1>10. Omni!SpokenAnsweredOnce' /\ Omni!Again(v7.what, v7.at)'
  BY <1>7, <1>8 DEF Omni!Inv, Omni!SpokenAnsweredOnce, Omni!Again
<1> QED
  BY <1>5, <1>6, <1>9, <1>10 DEF Omni!Inv

LEMMA OmniWriteKeepsInv == ASSUME Omni!Inv, Omni!Write PROVE Omni!Inv'
<1>1. v2' = v2 + 1 /\ UNCHANGED <<v3, v4, v5, v6, v7>>
  BY DEF Omni!Write
<1>2. v8 \in OmniEnv /\ v8.reported \in Seq(Spoken)
  BY OmniTypes DEF Omni!Inv, OmniEnv
<1>3. ASSUME NEW i \in DOMAIN v8.reported,
             v8.written = {v8.reported[j] : j \in 1..(i - 1)},
             v1' = Append(v1, <<"user", v8.reported[i]>>),
             v8' = [v8 EXCEPT !.written = @ \cup {v8.reported[i]}]
      PROVE  Omni!Inv'
  <2>1. v8.reported[i] \in Spoken /\ i \in Nat \ {0}
    BY <1>2
  <2>2. /\ v8' \in OmniEnv /\ v8'.reported = v8.reported /\ v8'.tools = v8.tools
        /\ v8'.written = v8.written \cup {v8.reported[i]}
    BY <1>2, <1>3, <2>1, EnvWritten
  <2>3. 1..i = 1..(i - 1) \cup {i}
    BY <2>1
  <2>4. v8'.written = {v8.reported[k] : k \in 1..i}
    BY <1>3, <2>2, <2>3
  <2> QED
    BY <1>1, <1>3, <2>1, <2>2, <2>4, UserWritesKeepsInv
<1>4. ASSUME NEW m \in Typed, v1' = Append(v1, <<"user", m>>), v8' = [v8 EXCEPT !.typed = @ \cup {m}]
      PROVE  Omni!Inv'
  <2>1. /\ v8' \in OmniEnv /\ v8'.reported = v8.reported /\ v8'.tools = v8.tools
        /\ v8'.written = v8.written
    BY <1>2, <1>4, EnvTyped
  <2> QED
    BY <1>1, <1>4, <2>1, UserWritesKeepsInv, Utterances
<1> QED
  BY <1>3, <1>4 DEF Omni!Write

LEMMA OmniUnchanged ==
  ASSUME Omni!Inv, UNCHANGED <<v1, v2, v3, v4, v5, v6, v7, v8>> PROVE Omni!Inv'
<1>1. Omni!TypeOK'
  BY OmniTypes, OmniTypesNext DEF Omni!Inv
<1> QED
  BY <1>1, TurnGoesOnKeepsInv

LEMMA OmniStep == ASSUME Omni!Inv, Omni!Next PROVE Omni!Inv'
<1>1. ASSUME NEW t \in DOMAIN v3, Omni!Turn(t) PROVE Omni!Inv'
  BY <1>1, StartKeepsInv, RequestKeepsInv, TranscribeKeepsInv, ReplyKeepsInv, NoReplyKeepsInv, ToolResultKeepsInv
     DEF Omni!Turn
<1> QED
  BY <1>1, InterruptionKeepsInv, UserStoppedKeepsInv, InputResumesKeepsInv, ContextFrameKeepsInv,
     DataResumesKeepsInv, OmniWriteKeepsInv, BotSpeakingKeepsInv, OmniUserStartedKeepsInv DEF Omni!Next

\* However the two lanes of the omni service (nvidia_omni_multimodal_service.py
\* :656 and :668), its turns and the aggregators interleave, no context frame
\* starts a text turn for the last speech an audio turn transcribed.  Turns
\* end at any moment, failed, timed out or complete, transcribed or not: for an
\* earlier speech a text turn starts only after a turn was cut short, ended
\* without a reply, or called a tool.
THEOREM SpeechAnsweredOnce == Spec => []SpokenAnsweredOnce
<1> DEFINE Safe == component = "omni" => Omni!Inv
<1>1. Init => Safe
  BY OmniInit DEF Init
<1>2. Safe /\ [Next]_vars => Safe'
  <2> SUFFICES ASSUME Safe, [Next]_vars, component' = "omni" PROVE Omni!Inv'
    OBVIOUS
  <2>1. CASE component = "omni" /\ Omni!Next
    BY <2>1, OmniStep
  <2>2. CASE component = "omni" /\ UNCHANGED vars
    BY <2>2, OmniUnchanged DEF vars
  <2> QED
    BY <2>1, <2>2 DEF Next, vars
<1>3. Safe => SpokenAnsweredOnce
  BY DEF SpokenAnsweredOnce, Omni!Inv
<1> QED
  BY <1>1, <1>2, <1>3, PTL DEF Spec

(***************************************************************************)
(* Streams of the word-timed synthesis.                                    *)
(***************************************************************************)
Frames == Seq({"audio", "stopped"})
Response == [ctx : Nat, tokens : Nat, flushed : BOOLEAN]

LEMMA TtsTypes ==
  Tts!TypeOK <=>
    /\ v2 \in Seq(Tts!Streams) /\ v1 \in {0, Len(v2)} /\ v3 \subseteq 1..MaxContexts
    /\ v4 \in [1..MaxContexts -> Frames] /\ v6 \in Nat /\ v5 \in Response
BY DEF Tts!TypeOK, Frames, Response

LEMMA TtsTypesNext ==
  Tts!TypeOK' <=>
    /\ v2' \in Seq(Tts!Streams) /\ v1' \in {0, Len(v2')} /\ v3' \subseteq 1..MaxContexts
    /\ v4' \in [1..MaxContexts -> Frames] /\ v6' \in Nat /\ v5' \in Response
BY DEF Tts!TypeOK, Frames, Response

LEMMA TtsInit == Tts!Init => Tts!Inv
<1> SUFFICES ASSUME Tts!Init PROVE Tts!Inv
  OBVIOUS
<1>1. /\ v1 = 0 /\ v2 = <<>> /\ v3 = {} /\ v6 = 0 /\ v4 = [c \in 1..MaxContexts |-> <<>>]
      /\ v5 = [ctx |-> 1, tokens |-> 0, flushed |-> FALSE]
  BY DEF Tts!Init
<1>2. v4 \in [1..MaxContexts -> Frames] /\ v5 \in Response /\ \A c \in 1..MaxContexts : v4[c] = <<>>
  BY <1>1 DEF Frames, Response
<1>3. Tts!TypeOK
  BY <1>1, <1>2, TtsTypes
<1>4. Tts!OwnContextOnly /\ Tts!ActiveNotStopped
  BY <1>1, <1>2 DEF Tts!OwnContextOnly, Tts!NewestKeepsItsContext, Tts!StoppedLast, Tts!ActiveNotStopped
<1> QED
  BY <1>3, <1>4 DEF Tts!Inv

LEMMA StreamTyped ==
  ASSUME Tts!TypeOK, NEW s \in DOMAIN v2
  PROVE  /\ v2[s] \in Tts!Streams /\ s \in Nat \ {0} /\ v2 \in Seq(Tts!Streams)
         /\ v2[s].ctx \in 1..MaxContexts /\ v2[s].text \in Seq({"token", "flush"})
         /\ v2[s].sent \in Nat /\ v2[s].resp \in Seq({"audio", "error", "end"})
<1>1. v2[s] \in Tts!Streams /\ s \in Nat \ {0} /\ v2 \in Seq(Tts!Streams)
  BY DEF Tts!TypeOK
<1> QED
  BY <1>1 DEF Tts!Streams

LEMMA StreamChanged ==
  ASSUME Tts!TypeOK, NEW s \in DOMAIN v2, NEW e \in Tts!Streams, v2' = [v2 EXCEPT ![s] = e]
  PROVE  /\ v2' \in Seq(Tts!Streams) /\ DOMAIN v2' = DOMAIN v2 /\ Len(v2') = Len(v2)
         /\ v2'[s] = e /\ \A j \in DOMAIN v2 \ {s} : v2'[j] = v2[j]
<1>1. v2 \in Seq(Tts!Streams)
  BY DEF Tts!TypeOK
<1> QED
  BY <1>1, Replaced

LEMMA ActiveIs ==
  ASSUME Tts!TypeOK
  PROVE  /\ v1 # 0 => v1 \in DOMAIN v2
         /\ v2 # <<>> => Len(v2) \in DOMAIN v2
         /\ Len(v2) \in Nat /\ DOMAIN v2 = 1..Len(v2)
BY DEF Tts!TypeOK

\* Text, requests and responses of a stream concern no context.
LEMMA StreamGoesOnKeepsInv ==
  ASSUME Tts!Inv, v1' = v1, v3' = v3, v4' = v4, v5' \in Response, v6' \in Nat,
         v2' \in Seq(Tts!Streams), DOMAIN v2' = DOMAIN v2, Len(v2') = Len(v2),
         \A j \in DOMAIN v2 : /\ v2'[j].ctx = v2[j].ctx /\ v2'[j].stop = v2[j].stop
                             /\ v2'[j].task = v2[j].task
  PROVE  Tts!Inv'
<1>1. Tts!TypeOK'
  BY TtsTypes, TtsTypesNext DEF Tts!Inv
<1>2. /\ v1 # 0 => v1 \in DOMAIN v2
      /\ v2 # <<>> => Len(v2) \in DOMAIN v2
      /\ v2' # <<>> => v2 # <<>>
  BY ActiveIs DEF Tts!Inv
<1>3. Tts!NewestKeepsItsContext'
  BY <1>2 DEF Tts!Inv, Tts!OwnContextOnly, Tts!NewestKeepsItsContext
<1>4. Tts!StoppedLast'
  BY DEF Tts!Inv, Tts!OwnContextOnly, Tts!StoppedLast
<1>5. Tts!ActiveNotStopped'
  BY <1>2 DEF Tts!Inv, Tts!ActiveNotStopped
<1> QED
  BY <1>1, <1>3, <1>4, <1>5 DEF Tts!Inv, Tts!OwnContextOnly

LEMMA StreamKeepsInv ==
  ASSUME Tts!Inv, NEW s \in DOMAIN v2, NEW e \in Tts!Streams, v2' = [v2 EXCEPT ![s] = e],
         e.ctx = v2[s].ctx, e.stop = v2[s].stop, e.task = v2[s].task,
         v1' = v1, v3' = v3, v4' = v4, v5' \in Response, v6' \in Nat
  PROVE  Tts!Inv'
<1>1. /\ v2' \in Seq(Tts!Streams) /\ DOMAIN v2' = DOMAIN v2 /\ Len(v2') = Len(v2)
      /\ v2'[s] = e /\ \A j \in DOMAIN v2 \ {s} : v2'[j] = v2[j]
  BY StreamChanged DEF Tts!Inv
<1> QED
  BY <1>1, StreamGoesOnKeepsInv

LEMMA TextAdded ==
  ASSUME Tts!TypeOK, NEW s \in DOMAIN v2, NEW w \in {"token", "flush"},
         NEW e, e = [v2[s] EXCEPT !.text = Append(@, w)]
  PROVE  /\ e \in Tts!Streams /\ e.ctx = v2[s].ctx /\ e.stop = v2[s].stop /\ e.task = v2[s].task
<1>1. v2[s] \in Tts!Streams /\ v2[s].text \in Seq({"token", "flush"})
  BY StreamTyped
<1>2. Append(v2[s].text, w) \in Seq({"token", "flush"})
  BY <1>1, Appended
<1> QED
  BY <1>1, <1>2 DEF Tts!Streams

LEMMA NewStreamTyped ==
  ASSUME NEW c \in 1..MaxContexts, NEW q1 \in Seq({"token", "flush"}),
         NEW q2 \in Seq({"audio", "error", "end"}),
         NEW n, n = [ctx |-> c, text |-> q1, sent |-> 0, rpc |-> "open", resp |-> q2,
                     stop |-> FALSE, task |-> "reads"]
  PROVE  n \in Tts!Streams /\ n.ctx = c /\ ~n.stop /\ n.task = "reads"
BY DEF Tts!Streams

LEMMA StreamText ==
  ASSUME NEW n \in Tts!Streams, NEW q \in Seq({"token", "flush"}), NEW e, e = [n EXCEPT !.text = q]
  PROVE  e \in Tts!Streams /\ e.ctx = n.ctx /\ e.stop = n.stop /\ e.task = n.task
BY DEF Tts!Streams

\* The context of a new stream is new too, and nothing was played in it.
LEMMA NewStreamKeepsInv ==
  ASSUME Tts!Inv, NEW c \in 1..MaxContexts, c \notin v3, v3' = v3 \cup {c},
         v4' = [v4 EXCEPT ![c] = <<>>], v1' = Len(v2) + 1, v5' \in Response, v6' \in Nat,
         v2' = Append(v2, [Tts!NewStream(c) EXCEPT !.text = <<"token">>])
  PROVE  Tts!Inv'
<1> DEFINE e == [Tts!NewStream(c) EXCEPT !.text = <<"token">>]
<1>1. e \in Tts!Streams /\ e.ctx = c /\ ~e.stop /\ e.task = "reads"
  <2>1. <<"token">> \in Seq({"token", "flush"}) /\ <<>> \in Seq({"audio", "error", "end"})
        /\ <<>> \in Seq({"token", "flush"})
    OBVIOUS
  <2>2. /\ Tts!NewStream(c) \in Tts!Streams /\ Tts!NewStream(c).ctx = c /\ ~Tts!NewStream(c).stop
        /\ Tts!NewStream(c).task = "reads"
    BY <2>1, NewStreamTyped DEF Tts!NewStream
  <2> QED
    BY <2>1, <2>2, StreamText
<1>2. v2 \in Seq(Tts!Streams) /\ v2' = Append(v2, e)
  BY DEF Tts!Inv, Tts!TypeOK
<1> HIDE DEF e
<1>3. /\ v2' \in Seq(Tts!Streams) /\ Len(v2') = Len(v2) + 1 /\ v2'[Len(v2) + 1] = e /\ Len(v2) \in Nat
  BY <1>1, <1>2, Appended
<1>4. v4 \in [1..MaxContexts -> Frames] /\ <<>> \in Frames
  BY TtsTypes DEF Tts!Inv, Frames
<1>5. v4' \in [1..MaxContexts -> Frames] /\ v4'[c] = <<>> /\ \A d \in 1..MaxContexts : d # c => v4'[d] = v4[d]
  BY <1>4
<1>6. Tts!TypeOK'
  BY <1>3, <1>5, TtsTypes, TtsTypesNext DEF Tts!Inv
<1>7. Tts!NewestKeepsItsContext'
  BY <1>1, <1>3 DEF Tts!NewestKeepsItsContext
<1>8. Tts!StoppedLast'
  <2> SUFFICES ASSUME NEW d \in 1..MaxContexts, NEW i \in DOMAIN v4'[d], v4'[d][i] = "stopped"
               PROVE  i = Len(v4'[d])
    BY DEF Tts!StoppedLast
  <2>1. d # c
    BY <1>5
  <2> QED
    BY <1>5, <2>1 DEF Tts!Inv, Tts!OwnContextOnly, Tts!StoppedLast
<1>9. Tts!ActiveNotStopped'
  <2>1. v2'[v1'] = e
    BY <1>3
  <2>2. DOMAIN v4'[c] = {}
    BY <1>5
  <2> QED
    BY <1>1, <2>1, <2>2 DEF Tts!ActiveNotStopped
<1> QED
  BY <1>6, <1>7, <1>8, <1>9 DEF Tts!Inv, Tts!OwnContextOnly

LEMMA TokenKeepsInv == ASSUME Tts!Inv, Tts!Token PROVE Tts!Inv'
<1> DEFINE c == v5.ctx
<1>1. v5 \in Response /\ v6 \in Nat /\ c \in 1..MaxContexts /\ v6' = v6 /\ v5' = [v5 EXCEPT !.tokens = @ + 1]
  BY TtsTypes DEF Tts!Token, Tts!Inv
<1>2. v5' \in Response
  BY <1>1 DEF Response
<1>3. CASE /\ c \notin v3 /\ v3' = v3 \cup {c} /\ v4' = [v4 EXCEPT ![c] = <<>>] /\ v1' = Len(v2) + 1
           /\ v2' = Append(v2, [Tts!NewStream(c) EXCEPT !.text = <<"token">>])
  <2> HIDE DEF c
  <2> QED
    BY <1>1, <1>2, <1>3, NewStreamKeepsInv
<1>4. CASE v1 # 0 /\ v2' = [v2 EXCEPT ![v1].text = Append(@, "token")] /\ UNCHANGED <<v1, v3, v4>>
  <2> DEFINE e == [v2[v1] EXCEPT !.text = Append(@, "token")]
  <2>1. v1 \in DOMAIN v2 /\ v2' = [v2 EXCEPT ![v1] = e]
    BY <1>4, ActiveIs DEF Tts!Inv
  <2>2. e \in Tts!Streams /\ e.ctx = v2[v1].ctx /\ e.stop = v2[v1].stop /\ e.task = v2[v1].task
    BY <2>1, TextAdded DEF Tts!Inv
  <2> HIDE DEF e
  <2> QED
    BY <1>1, <1>2, <1>4, <2>1, <2>2, StreamKeepsInv
<1>5. CASE UNCHANGED <<v1, v2, v3, v4>>
  BY <1>1, <1>2, <1>5, TtsTypes, StreamGoesOnKeepsInv DEF Tts!Inv
<1> QED
  BY <1>3, <1>4, <1>5 DEF Tts!Token

LEMMA FlushKeepsInv == ASSUME Tts!Inv, Tts!Flush PROVE Tts!Inv'
<1>1. v5 \in Response /\ v6 \in Nat /\ v6' = v6 /\ v5' = [v5 EXCEPT !.flushed = TRUE] /\ UNCHANGED <<v1, v3, v4>>
  BY TtsTypes DEF Tts!Flush, Tts!Inv
<1>2. v5' \in Response
  BY <1>1 DEF Response
<1>3. CASE v2' = v2
  BY <1>1, <1>2, <1>3, TtsTypes, StreamGoesOnKeepsInv DEF Tts!Inv
<1>4. CASE v1 # 0 /\ v2' = [v2 EXCEPT ![v1].text = Append(@, "flush")]
  <2> DEFINE e == [v2[v1] EXCEPT !.text = Append(@, "flush")]
  <2>1. v1 \in DOMAIN v2 /\ v2' = [v2 EXCEPT ![v1] = e]
    BY <1>4, ActiveIs DEF Tts!Inv
  <2>2. e \in Tts!Streams /\ e.ctx = v2[v1].ctx /\ e.stop = v2[v1].stop /\ e.task = v2[v1].task
    BY <2>1, TextAdded DEF Tts!Inv
  <2> HIDE DEF e
  <2> QED
    BY <1>1, <1>2, <2>1, <2>2, StreamKeepsInv
<1> QED
  BY <1>3, <1>4 DEF Tts!Flush

LEMMA NextResponseKeepsInv == ASSUME Tts!Inv, Tts!NextResponse PROVE Tts!Inv'
<1>1. v5 \in Response /\ v6 \in Nat
  BY TtsTypes DEF Tts!Inv
<1>2. v5' \in Response /\ UNCHANGED <<v1, v2, v3, v4, v6>>
  BY <1>1 DEF Tts!NextResponse, Response
<1> QED
  BY <1>1, <1>2, TtsTypes, StreamGoesOnKeepsInv DEF Tts!Inv

\* The newest stream is stopped with all contexts, or was over.
LEMMA TtsInterruptedKeepsInv == ASSUME Tts!Inv, Tts!Interrupted PROVE Tts!Inv'
<1>1. /\ v1' = 0 /\ v3' = {} /\ v4' = v4 /\ v6' = v6
      /\ v5' = [ctx |-> v5.ctx + 1, tokens |-> 0, flushed |-> FALSE]
      /\ v2' = IF v1 = 0 THEN v2 ELSE [v2 EXCEPT ![v1].stop = TRUE]
  BY DEF Tts!Interrupted
<1>2. v5' \in Response
  BY <1>1, TtsTypes DEF Tts!Inv, Response
<1>3. /\ v2' \in Seq(Tts!Streams) /\ DOMAIN v2' = DOMAIN v2 /\ Len(v2') = Len(v2)
      /\ v2' # <<>> => v2'[Len(v2)].stop \/ v2'[Len(v2)].task \notin {"reads", "stops", "removes", "clears"}
  <2>1. CASE v1 = 0
    <3>1. v2 # <<>> => v2[Len(v2)].stop \/ v2[Len(v2)].task = "done"
      <4>1. v2 # <<>> => Len(v2) \in Nat \ {0}
        BY ActiveIs DEF Tts!Inv
      <4> QED
        BY <2>1, <4>1 DEF Tts!Inv, Tts!OwnContextOnly, Tts!NewestKeepsItsContext
    <3> QED
      BY <1>1, <2>1, <3>1, TtsTypes DEF Tts!Inv
  <2>2. CASE v1 # 0
    <3> DEFINE e == [v2[v1] EXCEPT !.stop = TRUE]
    <3>1. v1 \in DOMAIN v2 /\ v1 = Len(v2) /\ v2' = [v2 EXCEPT ![v1] = e]
      BY <1>1, <2>2, ActiveIs, TtsTypes DEF Tts!Inv
    <3>2. e \in Tts!Streams /\ e.stop
      BY <3>1, StreamTyped DEF Tts!Inv, Tts!Streams
    <3> HIDE DEF e
    <3> QED
      BY <3>1, <3>2, StreamChanged DEF Tts!Inv
  <2> QED
    BY <2>1, <2>2
<1>4. Tts!TypeOK'
  BY <1>1, <1>2, <1>3, TtsTypes, TtsTypesNext DEF Tts!Inv
<1>5. Tts!NewestKeepsItsContext'
  <2>1. v2' # <<>> => v2'[Len(v2')].task \in {"reads", "stops", "removes", "clears", "done"}
    <3>1. v2' # <<>> => Len(v2) \in DOMAIN v2'
      BY <1>3
    <3>2. \A j \in DOMAIN v2' : v2'[j] \in Tts!Streams
      BY <1>3
    <3>3. v2' # <<>> => v2'[Len(v2)] \in Tts!Streams
      BY <3>1, <3>2
    <3>4. \A n \in Tts!Streams : n.task \in {"reads", "stops", "removes", "clears", "done"}
      BY DEF Tts!Streams
    <3>5. Len(v2') = Len(v2)
      BY <1>3
    <3> QED
      BY <3>3, <3>4, <3>5
  <2> QED
    BY <1>1, <1>3, <2>1 DEF Tts!NewestKeepsItsContext
<1>6. Tts!StoppedLast' /\ Tts!ActiveNotStopped'
  BY <1>1 DEF Tts!Inv, Tts!OwnContextOnly, Tts!StoppedLast, Tts!ActiveNotStopped
<1> QED
  BY <1>4, <1>5, <1>6 DEF Tts!Inv, Tts!OwnContextOnly

LEMMA SendKeepsInv == ASSUME Tts!Inv, NEW s \in DOMAIN v2, Tts!Send(s) PROVE Tts!Inv'
<1>1. v1' = v1 /\ v3' = v3 /\ v4' = v4 /\ v5' \in Response /\ v6' \in Nat
  BY TtsTypes DEF Tts!Send, Tts!Inv
<1>2. v2[s] \in Tts!Streams /\ v2[s].text \in Seq({"token", "flush"}) /\ v2[s].sent \in Nat
  BY StreamTyped DEF Tts!Inv
<1>3. CASE v2' = [v2 EXCEPT ![s].rpc = "flushed"]
  <2> DEFINE e == [v2[s] EXCEPT !.rpc = "flushed"]
  <2>1. e \in Tts!Streams /\ e.ctx = v2[s].ctx /\ e.stop = v2[s].stop /\ e.task = v2[s].task
    BY <1>2 DEF Tts!Streams
  <2>2. v2' = [v2 EXCEPT ![s] = e]
    BY <1>3
  <2> HIDE DEF e
  <2> QED
    BY <1>1, <2>1, <2>2, StreamKeepsInv
<1>4. CASE /\ v2[s].rpc = "open" /\ v2[s].text # <<>>
           /\ v2' = [v2 EXCEPT ![s].text = Tail(@),
                       ![s].sent = @ + (IF Head(v2[s].text) = "token" THEN 1 ELSE 0),
                       ![s].rpc = IF Head(v2[s].text) = "token" THEN @ ELSE "flushed"]
  <2> DEFINE more == IF Head(v2[s].text) = "token" THEN 1 ELSE 0
             rpc == IF Head(v2[s].text) = "token" THEN v2[s].rpc ELSE "flushed"
             e == [v2[s] EXCEPT !.text = Tail(v2[s].text), !.sent = v2[s].sent + more, !.rpc = rpc]
  <2>1. Tail(v2[s].text) \in Seq({"token", "flush"}) /\ v2[s].sent + more \in Nat
        /\ rpc \in {"open", "flushed", "closed"}
    BY <1>2, <1>4
  <2>2. v2' = [v2 EXCEPT ![s] = e]
    BY <1>4
  <2> HIDE DEF more, rpc
  <2>3. e \in Tts!Streams /\ e.ctx = v2[s].ctx /\ e.stop = v2[s].stop /\ e.task = v2[s].task
    BY <1>2, <2>1 DEF Tts!Streams
  <2> HIDE DEF e
  <2> QED
    BY <1>1, <2>2, <2>3, StreamKeepsInv
<1> QED
  BY <1>3, <1>4 DEF Tts!Send

LEMMA RespondKeepsInv == ASSUME Tts!Inv, NEW s \in DOMAIN v2, Tts!Respond(s) PROVE Tts!Inv'
<1>1. v1' = v1 /\ v3' = v3 /\ v4' = v4 /\ v5' \in Response /\ v6' \in Nat
  BY TtsTypes DEF Tts!Respond, Tts!Inv
<1>2. v2[s] \in Tts!Streams /\ v2[s].resp \in Seq({"audio", "error", "end"}) /\ v2[s].sent \in Nat
  BY StreamTyped DEF Tts!Inv
<1>3. ASSUME NEW q \in Seq({"audio", "error", "end"}), NEW k \in Nat, NEW rpc \in {"open", "flushed", "closed"},
             v2' = [v2 EXCEPT ![s] = [v2[s] EXCEPT !.sent = k, !.resp = q, !.rpc = rpc]]
      PROVE  Tts!Inv'
  <2> DEFINE e == [v2[s] EXCEPT !.sent = k, !.resp = q, !.rpc = rpc]
  <2>1. e \in Tts!Streams /\ e.ctx = v2[s].ctx /\ e.stop = v2[s].stop /\ e.task = v2[s].task
    BY <1>2 DEF Tts!Streams
  <2>2. v2' = [v2 EXCEPT ![s] = e]
    BY <1>3
  <2> HIDE DEF e
  <2> QED
    BY <1>1, <2>1, <2>2, StreamKeepsInv
<1>4. CASE v2[s].sent > 0 /\ v2' = [v2 EXCEPT ![s].sent = @ - 1, ![s].resp = Append(@, "audio")]
  <2>1. v2[s].sent - 1 \in Nat /\ Append(v2[s].resp, "audio") \in Seq({"audio", "error", "end"})
        /\ v2[s].rpc \in {"open", "flushed", "closed"}
    BY <1>2, <1>4 DEF Tts!Streams
  <2>2. v2' = [v2 EXCEPT ![s] = [v2[s] EXCEPT !.sent = v2[s].sent - 1, !.resp = Append(v2[s].resp, "audio"),
                                             !.rpc = v2[s].rpc]]
    <3>1. [v2[s] EXCEPT !.sent = v2[s].sent - 1, !.resp = Append(v2[s].resp, "audio")]
          = [v2[s] EXCEPT !.sent = v2[s].sent - 1, !.resp = Append(v2[s].resp, "audio"), !.rpc = v2[s].rpc]
      BY <1>2 DEF Tts!Streams
    <3> QED
      BY <1>4, <3>1
  <2> QED
    BY <1>3, <2>1, <2>2
<1>5. ASSUME NEW q \in Seq({"audio", "error", "end"}),
             v2' = [v2 EXCEPT ![s].rpc = "closed", ![s].resp = @ \o q]
      PROVE  Tts!Inv'
  <2>1. v2[s].resp \o q \in Seq({"audio", "error", "end"})
    BY <1>2, ConcatProperties
  <2>2. v2' = [v2 EXCEPT ![s] = [v2[s] EXCEPT !.sent = v2[s].sent, !.resp = v2[s].resp \o q, !.rpc = "closed"]]
    <3>1. [v2[s] EXCEPT !.rpc = "closed", !.resp = v2[s].resp \o q]
          = [v2[s] EXCEPT !.sent = v2[s].sent, !.resp = v2[s].resp \o q, !.rpc = "closed"]
      BY <1>2 DEF Tts!Streams
    <3> QED
      BY <1>5, <3>1
  <2> QED
    BY <1>2, <1>3, <2>1, <2>2
<1>6. CASE v2' = [v2 EXCEPT ![s].rpc = "closed", ![s].resp = Append(@, "end")]
  <2>1. <<"end">> \in Seq({"audio", "error", "end"}) /\ Append(v2[s].resp, "end") = v2[s].resp \o <<"end">>
    BY <1>2, AppendIsConcat
  <2> QED
    BY <1>5, <1>6, <2>1
<1>7. CASE v2' = [v2 EXCEPT ![s].rpc = "closed",
                    ![s].resp = @ \o (IF v2[s].stop THEN <<"end">> ELSE <<"error", "end">>)]
  <2>1. <<"end">> \in Seq({"audio", "error", "end"}) /\ <<"error", "end">> \in Seq({"audio", "error", "end"})
    OBVIOUS
  <2>2. CASE v2[s].stop
    BY <1>5, <1>7, <2>1, <2>2
  <2>3. CASE ~v2[s].stop
    BY <1>5, <1>7, <2>1, <2>3
  <2> QED
    BY <2>2, <2>3
<1> QED
  BY <1>4, <1>6, <1>7 DEF Tts!Respond

\* A task reads on, or has read the end; audio of another stream is dropped.
LEMMA PlayKeepsInv == ASSUME Tts!Inv, NEW s \in DOMAIN v2, Tts!Play(s) PROVE Tts!Inv'
<1> DEFINE c == v2[s].ctx
           t == IF Head(v2[s].resp) = "audio" THEN v2[s].task ELSE "stops"
           e == [v2[s] EXCEPT !.resp = Tail(v2[s].resp), !.task = t]
<1>1. /\ v1' = v1 /\ v3' = v3 /\ v5' = v5 /\ v6' = v6 /\ v2[s].task = "reads" /\ v2[s].resp # <<>>
      /\ v2' = [v2 EXCEPT ![s] = e] /\ t \in {"reads", "stops"}
      /\ v4' = v4 \/ (v1 = s /\ t = "reads" /\ v4' = [v4 EXCEPT ![c] = Append(@, "audio")])
  BY DEF Tts!Play
<1>2. /\ v2[s] \in Tts!Streams /\ v2[s].resp \in Seq({"audio", "error", "end"}) /\ c \in 1..MaxContexts
      /\ s \in Nat \ {0}
  BY StreamTyped DEF Tts!Inv
<1>3. Tail(v2[s].resp) \in Seq({"audio", "error", "end"})
  BY <1>1, <1>2
<1> HIDE DEF t
<1>4. e \in Tts!Streams /\ e.ctx = c /\ e.stop = v2[s].stop /\ e.task = t
  BY <1>1, <1>2, <1>3 DEF Tts!Streams
<1> HIDE DEF e, c
<1>5. /\ v2' \in Seq(Tts!Streams) /\ DOMAIN v2' = DOMAIN v2 /\ Len(v2') = Len(v2)
      /\ v2'[s] = e /\ \A j \in DOMAIN v2 \ {s} : v2'[j] = v2[j]
  BY <1>1, <1>4, StreamChanged DEF Tts!Inv
<1>6. v4 \in [1..MaxContexts -> Frames] /\ v4[c] \in Frames
  BY <1>2, TtsTypes DEF Tts!Inv
<1>7. /\ v2 # <<>> => Len(v2) \in DOMAIN v2
      /\ v2' # <<>> => v2 # <<>>
      /\ v1 # 0 => v1 \in DOMAIN v2
  BY <1>5, ActiveIs DEF Tts!Inv
<1>8. Tts!NewestKeepsItsContext'
  BY <1>1, <1>4, <1>5, <1>7 DEF Tts!Inv, Tts!OwnContextOnly, Tts!NewestKeepsItsContext, c
<1>9. CASE v4' = v4
  <2>1. Tts!TypeOK'
    BY <1>1, <1>5, <1>9, TtsTypes, TtsTypesNext DEF Tts!Inv
  <2>2. Tts!StoppedLast'
    BY <1>9 DEF Tts!Inv, Tts!OwnContextOnly, Tts!StoppedLast
  <2>3. Tts!ActiveNotStopped'
    BY <1>1, <1>4, <1>5, <1>7, <1>9 DEF Tts!Inv, Tts!ActiveNotStopped, c
  <2> QED
    BY <1>8, <2>1, <2>2, <2>3 DEF Tts!Inv, Tts!OwnContextOnly
<1>10. CASE v1 = s /\ t = "reads" /\ v4' = [v4 EXCEPT ![c] = Append(@, "audio")]
  <2> DEFINE q == Append(v4[c], "audio")
  <2>1. /\ q \in Frames /\ DOMAIN q = DOMAIN v4[c] \cup {Len(v4[c]) + 1}
        /\ \A i \in DOMAIN v4[c] : q[i] = v4[c][i]
        /\ q[Len(v4[c]) + 1] = "audio"
    BY <1>6, Appended DEF Frames
  <2> HIDE DEF q
  <2>2. v4' \in [1..MaxContexts -> Frames] /\ v4'[c] = q /\ \A d \in 1..MaxContexts : d # c => v4'[d] = v4[d]
    BY <1>2, <1>6, <1>10, <2>1 DEF q
  <2>3. \A i \in DOMAIN v4[c] : v4[c][i] # "stopped"
    BY <1>1, <1>2, <1>10 DEF Tts!Inv, Tts!ActiveNotStopped, c
  <2>4. \A i \in DOMAIN q : q[i] # "stopped"
    BY <2>1, <2>3
  <2>5. Tts!TypeOK'
    BY <1>1, <1>5, <2>2, TtsTypes, TtsTypesNext DEF Tts!Inv
  <2>6. Tts!StoppedLast'
    BY <2>2, <2>4 DEF Tts!Inv, Tts!OwnContextOnly, Tts!StoppedLast
  <2>7. Tts!ActiveNotStopped'
    BY <1>1, <1>4, <1>5, <1>10, <2>2, <2>4 DEF Tts!ActiveNotStopped
  <2> QED
    BY <1>8, <2>5, <2>6, <2>7 DEF Tts!Inv, Tts!OwnContextOnly
<1> QED
  BY <1>1, <1>9, <1>10

LEMMA StreamTask ==
  ASSUME Tts!TypeOK, NEW s \in DOMAIN v2, NEW t \in {"reads", "stops", "removes", "clears", "done"},
         v2' = [v2 EXCEPT ![s].task = t]
  PROVE  /\ v2' \in Seq(Tts!Streams) /\ DOMAIN v2' = DOMAIN v2 /\ Len(v2') = Len(v2)
         /\ v2'[s].ctx = v2[s].ctx /\ v2'[s].stop = v2[s].stop /\ v2'[s].task = t
         /\ \A j \in DOMAIN v2 \ {s} : v2'[j] = v2[j]
<1> DEFINE e == [v2[s] EXCEPT !.task = t]
<1>1. e \in Tts!Streams /\ e.ctx = v2[s].ctx /\ e.stop = v2[s].stop /\ e.task = t
  BY StreamTyped DEF Tts!Streams
<1>2. v2' = [v2 EXCEPT ![s] = e]
  OBVIOUS
<1> HIDE DEF e
<1> QED
  BY <1>1, <1>2, StreamChanged

\* The finally of a task stops, removes and clears what is its own.
LEMMA StopsKeepsInv == ASSUME Tts!Inv, NEW s \in DOMAIN v2, Tts!Stops(s) PROVE Tts!Inv'
<1> DEFINE c == v2[s].ctx
           own == v1 = s /\ ~v2[s].stop
           t == IF ~own THEN "done" ELSE IF c \in v3 THEN "removes" ELSE "clears"
<1>1. /\ v1' = v1 /\ v3' = v3 /\ v5' = v5 /\ v6' = v6 /\ v2[s].task = "stops"
      /\ v2' = [v2 EXCEPT ![s].task = t]
      /\ v4' = IF own /\ c \in v3 THEN [v4 EXCEPT ![c] = Append(@, "stopped")] ELSE v4
  BY DEF Tts!Stops
<1>2. c \in 1..MaxContexts /\ s \in Nat \ {0}
  BY StreamTyped DEF Tts!Inv
<1>3. t \in {"removes", "clears", "done"} /\ (t = "removes" => c \in v3) /\ (own => t # "done")
  OBVIOUS
<1> HIDE DEF t
<1>4. /\ v2' \in Seq(Tts!Streams) /\ DOMAIN v2' = DOMAIN v2 /\ Len(v2') = Len(v2)
      /\ v2'[s].ctx = v2[s].ctx /\ v2'[s].stop = v2[s].stop /\ v2'[s].task = t
      /\ \A j \in DOMAIN v2 \ {s} : v2'[j] = v2[j]
  BY <1>1, <1>3, StreamTask DEF Tts!Inv
<1>5. /\ v2 # <<>> => Len(v2) \in DOMAIN v2
      /\ v2' # <<>> => v2 # <<>>
      /\ v1 # 0 => v1 \in DOMAIN v2
  BY <1>4, ActiveIs DEF Tts!Inv
<1>6. Tts!NewestKeepsItsContext'
  BY <1>1, <1>3, <1>4, <1>5 DEF Tts!Inv, Tts!OwnContextOnly, Tts!NewestKeepsItsContext
<1>7. v4 \in [1..MaxContexts -> Frames] /\ v4[c] \in Frames
  BY <1>2, TtsTypes DEF Tts!Inv
<1>8. v4' \in [1..MaxContexts -> Frames] /\ Tts!StoppedLast'
  <2>1. CASE v4' = v4
    BY <1>7, <2>1 DEF Tts!Inv, Tts!OwnContextOnly, Tts!StoppedLast
  <2>2. CASE own /\ v4' = [v4 EXCEPT ![c] = Append(@, "stopped")]
    <3> DEFINE q == Append(v4[c], "stopped")
    <3>1. /\ q \in Frames /\ DOMAIN q = DOMAIN v4[c] \cup {Len(v4[c]) + 1}
          /\ \A i \in DOMAIN v4[c] : q[i] = v4[c][i]
          /\ Len(q) = Len(v4[c]) + 1
      BY <1>7, Appended DEF Frames
    <3> HIDE DEF q
    <3>2. v4' \in [1..MaxContexts -> Frames] /\ v4'[c] = q /\ \A d \in 1..MaxContexts : d # c => v4'[d] = v4[d]
      BY <1>2, <1>7, <2>2, <3>1 DEF q
    <3>3. \A i \in DOMAIN v4[c] : v4[c][i] # "stopped"
      BY <1>1, <1>2, <2>2 DEF Tts!Inv, Tts!ActiveNotStopped
    <3>4. \A i \in DOMAIN q : q[i] = "stopped" => i = Len(q)
      BY <3>1, <3>3
    <3> QED
      BY <3>2, <3>4 DEF Tts!Inv, Tts!OwnContextOnly, Tts!StoppedLast
  <2> QED
    BY <1>1, <2>1, <2>2
<1>9. Tts!ActiveNotStopped'
  <2>1. CASE v1 = s
    BY <1>1, <1>3, <1>4, <2>1 DEF Tts!ActiveNotStopped
  <2>2. CASE v1 # s
    <3>1. v4' = v4
      BY <1>1, <2>2
    <3> QED
      BY <1>1, <1>4, <1>5, <2>2, <3>1 DEF Tts!Inv, Tts!ActiveNotStopped
  <2> QED
    BY <2>1, <2>2
<1>10. Tts!TypeOK'
  BY <1>1, <1>4, <1>8, TtsTypes, TtsTypesNext DEF Tts!Inv
<1> QED
  BY <1>6, <1>8, <1>9, <1>10 DEF Tts!Inv, Tts!OwnContextOnly

LEMMA RemovesKeepsInv == ASSUME Tts!Inv, NEW s \in DOMAIN v2, Tts!Removes(s) PROVE Tts!Inv'
<1>1. /\ v1' = v1 /\ v4' = v4 /\ v5' = v5 /\ v6' = v6 /\ v2[s].task = "removes"
      /\ v2' = [v2 EXCEPT ![s].task = "clears"]
      /\ v3' = IF v1 = s THEN v3 \ {v2[s].ctx} ELSE v3
  BY DEF Tts!Removes
<1>2. /\ v2' \in Seq(Tts!Streams) /\ DOMAIN v2' = DOMAIN v2 /\ Len(v2') = Len(v2)
      /\ v2'[s].ctx = v2[s].ctx /\ v2'[s].stop = v2[s].stop /\ v2'[s].task = "clears"
      /\ \A j \in DOMAIN v2 \ {s} : v2'[j] = v2[j]
  BY <1>1, StreamTask DEF Tts!Inv
<1>3. /\ v2 # <<>> => Len(v2) \in DOMAIN v2
      /\ v2' # <<>> => v2 # <<>>
      /\ v1 # 0 => v1 \in DOMAIN v2 /\ v1 = Len(v2)
      /\ s # 0
  BY <1>2, ActiveIs, TtsTypes, StreamTyped DEF Tts!Inv
<1>4. Tts!TypeOK'
  BY <1>1, <1>2, TtsTypes, TtsTypesNext DEF Tts!Inv
<1>5. Tts!NewestKeepsItsContext'
  <2>1. CASE s = Len(v2)
    BY <1>1, <1>2, <1>3, <2>1 DEF Tts!Inv, Tts!OwnContextOnly, Tts!NewestKeepsItsContext
  <2>2. CASE s # Len(v2)
    <3>1. v3' = v3
      BY <1>1, <1>3, <2>2
    <3> QED
      BY <1>1, <1>2, <1>3, <2>2, <3>1 DEF Tts!Inv, Tts!OwnContextOnly, Tts!NewestKeepsItsContext
  <2> QED
    BY <2>1, <2>2
<1>6. Tts!StoppedLast'
  BY <1>1 DEF Tts!Inv, Tts!OwnContextOnly, Tts!StoppedLast
<1>7. Tts!ActiveNotStopped'
  BY <1>1, <1>2, <1>3 DEF Tts!Inv, Tts!ActiveNotStopped
<1> QED
  BY <1>4, <1>5, <1>6, <1>7 DEF Tts!Inv, Tts!OwnContextOnly

LEMMA ClearsKeepsInv == ASSUME Tts!Inv, NEW s \in DOMAIN v2, Tts!Clears(s) PROVE Tts!Inv'
<1>1. /\ v3' = v3 /\ v4' = v4 /\ v5' = v5 /\ v6' = v6
      /\ v2' = [v2 EXCEPT ![s].task = "done"]
      /\ v1' = IF v1 = s THEN 0 ELSE v1
  BY DEF Tts!Clears
<1>2. /\ v2' \in Seq(Tts!Streams) /\ DOMAIN v2' = DOMAIN v2 /\ Len(v2') = Len(v2)
      /\ v2'[s].ctx = v2[s].ctx /\ v2'[s].stop = v2[s].stop /\ v2'[s].task = "done"
      /\ \A j \in DOMAIN v2 \ {s} : v2'[j] = v2[j]
  BY <1>1, StreamTask DEF Tts!Inv
<1>3. /\ v2 # <<>> => Len(v2) \in DOMAIN v2
      /\ v2' # <<>> => v2 # <<>>
      /\ v1 # 0 => v1 \in DOMAIN v2
  BY <1>2, ActiveIs DEF Tts!Inv
<1>4. Tts!TypeOK'
  BY <1>1, <1>2, TtsTypes, TtsTypesNext DEF Tts!Inv
<1>5. Tts!NewestKeepsItsContext'
  BY <1>1, <1>2, <1>3 DEF Tts!Inv, Tts!OwnContextOnly, Tts!NewestKeepsItsContext
<1>6. Tts!StoppedLast'
  BY <1>1 DEF Tts!Inv, Tts!OwnContextOnly, Tts!StoppedLast
<1>7. Tts!ActiveNotStopped'
  BY <1>1, <1>2, <1>3 DEF Tts!Inv, Tts!ActiveNotStopped
<1> QED
  BY <1>4, <1>5, <1>6, <1>7 DEF Tts!Inv, Tts!OwnContextOnly

LEMMA TtsUnchanged == ASSUME Tts!Inv, UNCHANGED <<v1, v2, v3, v4, v5, v6>> PROVE Tts!Inv'
BY TtsTypes, StreamGoesOnKeepsInv DEF Tts!Inv

LEMMA TtsStep == ASSUME Tts!Inv, Tts!Next PROVE Tts!Inv'
BY TokenKeepsInv, FlushKeepsInv, NextResponseKeepsInv, TtsInterruptedKeepsInv, SendKeepsInv,
   RespondKeepsInv, PlayKeepsInv, StopsKeepsInv, RemovesKeepsInv, ClearsKeepsInv DEF Tts!Next

(***************************************************************************)
(* Times of the words.                                                     *)
(***************************************************************************)
SaidWords == Timings!SaidWords

LEMMA WordsSaid == Sentences \subseteq Seq(SaidWords) /\ \A w \in SaidWords : w.dur \in Nat \ {0}
BY AssistantAssumption DEF AssistantAssumption, Timings!SentencesAssumption, SaidWords

\* The recursive definition of Lasts defines a function: sums up to k exist
\* for every k, for the least k without them would have them.
SumOf(w, f, k) == f = [i \in 0..k |-> IF i = 0 THEN 0 ELSE f[i - 1] + w[i].dur]

LEMMA SumExists ==
  ASSUME NEW w, NEW n \in Nat PROVE \E f : SumOf(w, f, n)
<1> DEFINE T == {k \in Nat : ~\E f : SumOf(w, f, k)}
<1>1. SUFFICES ASSUME T # {} PROVE FALSE
  OBVIOUS
<1>2. PICK k \in T : \A y \in T : k <= y
  BY <1>1, Least
<1>3. CASE k = 0
  <2> DEFINE f == [i \in 0..0 |-> 0]
  <2>1. f = [i \in 0..0 |-> IF i = 0 THEN 0 ELSE f[i - 1] + w[i].dur]
    OBVIOUS
  <2>2. SumOf(w, f, 0)
    BY <2>1 DEF SumOf
  <2> QED
    BY <1>2, <1>3, <2>2
<1>4. CASE k # 0
  <2>1. k \in Nat /\ k - 1 \in Nat /\ k - 1 \notin T
    BY <1>2, <1>4
  <2>2. PICK g : SumOf(w, g, k - 1)
    BY <2>1
  <2> DEFINE f == [i \in 0..k |-> IF i = k THEN g[k - 1] + w[k].dur ELSE g[i]]
  <2>3. \A i \in 0..(k - 1) : g[i] = IF i = 0 THEN 0 ELSE g[i - 1] + w[i].dur
    BY <2>2 DEF SumOf
  <2>4. ASSUME NEW i \in 0..k PROVE f[i] = IF i = 0 THEN 0 ELSE f[i - 1] + w[i].dur
    <3>1. CASE i = k
      BY <1>4, <2>1, <3>1
    <3>2. CASE i # k
      <4>1. i \in 0..(k - 1) /\ f[i] = g[i]
        BY <2>1, <3>2
      <4>2. i # 0 => f[i - 1] = g[i - 1]
        BY <2>1, <4>1
      <4> QED
        BY <2>3, <4>1, <4>2
    <3> QED
      BY <3>1, <3>2
  <2>5. f = [i \in 0..k |-> f[i]]
    OBVIOUS
  <2> HIDE DEF f
  <2>6. SumOf(w, f, k)
    BY <2>4, <2>5 DEF SumOf
  <2> QED
    BY <1>2, <2>6
<1> QED
  BY <1>3, <1>4

LEMMA LastsIs ==
  ASSUME NEW S, NEW w \in Seq(S)
  PROVE  \A i \in 0..Len(w) :
           Timings!Lasts(w)[i] = IF i = 0 THEN 0 ELSE Timings!Lasts(w)[i - 1] + w[i].dur
<1>1. \E f : SumOf(w, f, Len(w))
  BY SumExists
<1>2. Timings!Lasts(w) = CHOOSE f : SumOf(w, f, Len(w))
  BY DEF Timings!Lasts, SumOf
<1>3. SumOf(w, Timings!Lasts(w), Len(w))
  BY <1>1, <1>2, Zenon
<1> QED
  BY <1>3 DEF SumOf

LEMMA LastsTyped ==
  ASSUME NEW w \in Seq(SaidWords)
  PROVE  \A i \in 0..Len(w) : Timings!Lasts(w)[i] \in Nat /\ (i > 0 => Timings!Lasts(w)[i] > 0)
<1> DEFINE L == Timings!Lasts(w)
           T == {i \in 0..Len(w) : ~(L[i] \in Nat /\ (i > 0 => L[i] > 0))}
<1>1. SUFFICES ASSUME T # {} PROVE FALSE
  OBVIOUS
<1>2. \A i \in 0..Len(w) : L[i] = IF i = 0 THEN 0 ELSE L[i - 1] + w[i].dur
  BY LastsIs
<1>3. \A i \in 1..Len(w) : w[i].dur \in Nat \ {0}
  BY WordsSaid
<1> HIDE DEF L
<1>4. PICK k \in T : \A y \in T : k <= y
  <2>1. T \subseteq Nat
    OBVIOUS
  <2> QED
    BY <1>1, <2>1, Least
<1>5. k # 0 /\ k \in 1..Len(w) /\ Len(w) \in Nat
  BY <1>2, <1>4
<1>6. L[k - 1] \in Nat
  <2>1. k - 1 \in 0..Len(w) /\ k - 1 \notin T
    BY <1>4, <1>5
  <2> QED
    BY <2>1
<1>7. L[k] = L[k - 1] + w[k].dur
  BY <1>2, <1>5
<1> QED
  BY <1>3, <1>4, <1>5, <1>6, <1>7

\* The sums of a sequence go on from those of its beginning.
LEMMA LastsConcat ==
  ASSUME NEW p \in Seq(SaidWords), NEW w \in Seq(SaidWords)
  PROVE  /\ \A i \in 0..Len(p) : Timings!Lasts(p \o w)[i] = Timings!Lasts(p)[i]
         /\ \A i \in 0..Len(w) :
              Timings!Lasts(p \o w)[Len(p) + i] = Timings!Lasts(p)[Len(p)] + Timings!Lasts(w)[i]
<1> DEFINE P == Timings!Lasts(p)
           W == Timings!Lasts(w)
           L == Timings!Lasts(p \o w)
           T == {i \in 0..Len(p) : L[i] # P[i]}
           U == {i \in 0..Len(w) : L[Len(p) + i] # P[Len(p)] + W[i]}
<1>1. /\ p \o w \in Seq(SaidWords) /\ Len(p \o w) = Len(p) + Len(w)
      /\ \A i \in 1..Len(p) + Len(w) : (p \o w)[i] = IF i <= Len(p) THEN p[i] ELSE w[i - Len(p)]
      /\ Len(p) \in Nat /\ Len(w) \in Nat
  BY ConcatProperties, LenProperties
<1>2. /\ \A i \in 0..Len(p) : P[i] = IF i = 0 THEN 0 ELSE P[i - 1] + p[i].dur
      /\ \A i \in 0..Len(w) : W[i] = IF i = 0 THEN 0 ELSE W[i - 1] + w[i].dur
      /\ \A i \in 0..(Len(p) + Len(w)) : L[i] = IF i = 0 THEN 0 ELSE L[i - 1] + (p \o w)[i].dur
  BY <1>1, LastsIs
<1>3. /\ \A i \in 0..Len(p) : P[i] \in Nat
      /\ \A i \in 0..Len(w) : W[i] \in Nat
      /\ \A i \in 1..Len(w) : w[i].dur \in Nat
  BY LastsTyped, WordsSaid
<1> HIDE DEF P, W, L
<1>4. T = {}
  <2> SUFFICES ASSUME T # {} PROVE FALSE
    OBVIOUS
  <2>1. T \subseteq Nat
    BY <1>1
  <2>2. PICK k \in T : \A y \in T : k <= y
    BY <2>1, Least
  <2>3. k # 0 /\ k \in 1..Len(p)
    BY <1>1, <1>2, <2>2
  <2>4. L[k - 1] = P[k - 1]
    <3>1. k - 1 \in 0..Len(p) /\ k - 1 \notin T
      BY <1>1, <2>2, <2>3
    <3> QED
      BY <3>1
  <2>5. L[k] = L[k - 1] + p[k].dur /\ P[k] = P[k - 1] + p[k].dur
    <3>1. (p \o w)[k] = p[k]
      BY <1>1, <2>3
    <3> QED
      BY <1>1, <1>2, <2>3, <3>1
  <2> QED
    BY <2>2, <2>4, <2>5
<1>5. U = {}
  <2> SUFFICES ASSUME U # {} PROVE FALSE
    OBVIOUS
  <2>1. U \subseteq Nat
    BY <1>1
  <2>2. PICK k \in U : \A y \in U : k <= y
    BY <2>1, Least
  <2>3. L[Len(p)] = P[Len(p)] /\ P[Len(p)] \in Nat /\ W[0] = 0
    BY <1>1, <1>2, <1>3, <1>4
  <2>4. k # 0 /\ k \in 1..Len(w)
    <3>1. k \in 0..Len(w) /\ L[Len(p) + k] # P[Len(p)] + W[k]
      BY <2>2
    <3>2. Len(p) + 0 = Len(p) /\ P[Len(p)] + 0 = P[Len(p)]
      BY <1>1, <2>3
    <3>3. k # 0
      BY <2>3, <3>1, <3>2
    <3> QED
      BY <1>1, <3>1, <3>3
  <2>5. L[Len(p) + (k - 1)] = P[Len(p)] + W[k - 1] /\ W[k - 1] \in Nat
    <3>1. k - 1 \in 0..Len(w) /\ k - 1 \notin U
      BY <1>1, <2>2, <2>4
    <3> QED
      BY <1>3, <3>1
  <2>6. (p \o w)[Len(p) + k] = w[k] /\ (Len(p) + k) - 1 = Len(p) + (k - 1)
    BY <1>1, <2>4
  <2>7. L[Len(p) + k] = L[Len(p) + (k - 1)] + w[k].dur
    BY <1>1, <1>2, <2>4, <2>6
  <2>8. W[k] = W[k - 1] + w[k].dur /\ w[k].dur \in Nat
    BY <1>2, <1>3, <2>4
  <2>9. L[Len(p) + k] = (P[Len(p)] + W[k - 1]) + w[k].dur
    BY <2>5, <2>7
  <2>10. L[Len(p) + k] = P[Len(p)] + W[k]
    BY <2>3, <2>5, <2>8, <2>9
  <2> QED
    BY <2>2, <2>10
<1> QED
  BY <1>4, <1>5 DEF P, W, L

LEMMA FunctionIsSeq ==
  ASSUME NEW S, NEW n \in Nat, NEW q \in [1..n -> S] PROVE q \in Seq(S) /\ Len(q) = n
OBVIOUS

\* What is reported of words: each at its time from a start.
TimedWords == [word : {w.word : w \in SaidWords}, start : Nat, end : Nat]

LEMMA TimedIs ==
  ASSUME NEW w \in Seq(SaidWords), NEW k \in Nat
  PROVE  /\ Timings!Timed(w, k) \in Seq(TimedWords) /\ Len(Timings!Timed(w, k)) = Len(w)
         /\ \A i \in 1..Len(w) :
              Timings!Timed(w, k)[i] = [word |-> w[i].word, start |-> k + Timings!Lasts(w)[i - 1],
                                        end |-> k + Timings!Lasts(w)[i]]
<1> DEFINE L == Timings!Lasts(w)
           r == [i \in 1..Len(w) |-> [word |-> w[i].word, start |-> k + L[i - 1], end |-> k + L[i]]]
<1>1. DOMAIN w = 1..Len(w) /\ Len(w) \in Nat /\ \A i \in 1..Len(w) : w[i] \in SaidWords
  BY LenProperties
<1>2. Timings!Timed(w, k) = r
  BY <1>1 DEF Timings!Timed
<1>3. \A i \in 0..Len(w) : L[i] \in Nat
  BY LastsTyped
<1> HIDE DEF L
<1>4. ASSUME NEW i \in 1..Len(w) PROVE r[i] \in TimedWords
  <2>1. k + L[i - 1] \in Nat /\ k + L[i] \in Nat
    BY <1>1, <1>3
  <2>2. w[i].word \in {v.word : v \in SaidWords}
    BY <1>1
  <2> QED
    BY <2>1, <2>2 DEF TimedWords
<1>5. r \in [1..Len(w) -> TimedWords]
  BY <1>4
<1>6. r \in Seq(TimedWords) /\ Len(r) = Len(w)
  BY <1>1, <1>5, FunctionIsSeq
<1> QED
  BY <1>2, <1>6 DEF L

LEMMA TimedConcat ==
  ASSUME NEW p \in Seq(SaidWords), NEW w \in Seq(SaidWords)
  PROVE  Timings!Timed(p \o w, 0)
           = Timings!Timed(p, 0) \o Timings!Timed(w, Timings!Lasts(p)[Len(p)])
<1> DEFINE k == Timings!Lasts(p)[Len(p)]
           q == p \o w
           a == Timings!Timed(p, 0)
           b == Timings!Timed(w, k)
           c == Timings!Timed(q, 0)
<1>1. /\ q \in Seq(SaidWords) /\ Len(q) = Len(p) + Len(w)
      /\ \A i \in 1..Len(p) + Len(w) : q[i] = IF i <= Len(p) THEN p[i] ELSE w[i - Len(p)]
      /\ Len(p) \in Nat /\ Len(w) \in Nat
  BY ConcatProperties, LenProperties
<1>2. /\ \A i \in 0..Len(p) : Timings!Lasts(q)[i] = Timings!Lasts(p)[i]
      /\ \A i \in 0..Len(w) : Timings!Lasts(q)[Len(p) + i] = k + Timings!Lasts(w)[i]
      /\ k \in Nat /\ \A i \in 0..Len(w) : Timings!Lasts(w)[i] \in Nat
      /\ \A i \in 0..Len(p) : Timings!Lasts(p)[i] \in Nat
  BY <1>1, LastsConcat, LastsTyped
<1> HIDE DEF q
<1>3. /\ a \in Seq(TimedWords) /\ Len(a) = Len(p)
      /\ \A i \in 1..Len(p) : a[i] = [word |-> p[i].word, start |-> 0 + Timings!Lasts(p)[i - 1],
                                      end |-> 0 + Timings!Lasts(p)[i]]
  BY TimedIs
<1>4. /\ b \in Seq(TimedWords) /\ Len(b) = Len(w)
      /\ \A i \in 1..Len(w) : b[i] = [word |-> w[i].word, start |-> k + Timings!Lasts(w)[i - 1],
                                      end |-> k + Timings!Lasts(w)[i]]
  BY <1>2, TimedIs
<1>5. /\ c \in Seq(TimedWords) /\ Len(c) = Len(p) + Len(w)
      /\ \A i \in 1..(Len(p) + Len(w)) :
           c[i] = [word |-> q[i].word, start |-> 0 + Timings!Lasts(q)[i - 1],
                   end |-> 0 + Timings!Lasts(q)[i]]
  BY <1>1, TimedIs
<1> HIDE DEF k, a, b, c
<1>6. /\ a \o b \in Seq(TimedWords) /\ Len(a \o b) = Len(p) + Len(w)
      /\ \A i \in 1..Len(p) + Len(w) : (a \o b)[i] = IF i <= Len(p) THEN a[i] ELSE b[i - Len(p)]
  <2>1. /\ a \o b \in Seq(TimedWords) /\ Len(a \o b) = Len(a) + Len(b)
        /\ \A i \in 1..Len(a) + Len(b) : (a \o b)[i] = IF i <= Len(a) THEN a[i] ELSE b[i - Len(a)]
    <3>1. a \in Seq(TimedWords) /\ b \in Seq(TimedWords)
      BY <1>3, <1>4
    <3> QED
      BY <3>1, ConcatProperties
  <2> QED
    BY <1>3, <1>4, <2>1
<1>7. ASSUME NEW i \in 1..(Len(p) + Len(w)) PROVE c[i] = (a \o b)[i]
  <2>1. CASE i <= Len(p)
    <3>1. i \in 1..Len(p) /\ i \in 0..Len(p) /\ i - 1 \in 0..Len(p)
      BY <1>1, <2>1
    <3>2. /\ q[i] = p[i] /\ Timings!Lasts(q)[i - 1] = Timings!Lasts(p)[i - 1]
          /\ Timings!Lasts(q)[i] = Timings!Lasts(p)[i]
      BY <1>1, <1>2, <2>1, <3>1
    <3> QED
      BY <1>3, <1>5, <1>6, <2>1, <3>1, <3>2
  <2>2. CASE i > Len(p)
    <3> DEFINE j == i - Len(p)
    <3>1. j \in 1..Len(w) /\ j \in 0..Len(w) /\ j - 1 \in 0..Len(w) /\ i = Len(p) + j
          /\ i - 1 = Len(p) + (j - 1) /\ ~(i <= Len(p))
      BY <1>1, <2>2
    <3>2. /\ q[i] = w[j] /\ Timings!Lasts(q)[i - 1] = k + Timings!Lasts(w)[j - 1]
          /\ Timings!Lasts(q)[i] = k + Timings!Lasts(w)[j]
      BY <1>1, <1>2, <3>1
    <3>3. k + Timings!Lasts(w)[j - 1] \in Nat /\ k + Timings!Lasts(w)[j] \in Nat
      <4>1. k \in Nat /\ Timings!Lasts(w)[j - 1] \in Nat /\ Timings!Lasts(w)[j] \in Nat
        BY <1>2, <3>1
      <4> QED
        BY <4>1
    <3>4. c[i] = [word |-> w[j].word, start |-> k + Timings!Lasts(w)[j - 1],
                  end |-> k + Timings!Lasts(w)[j]]
      BY <1>5, <3>2, <3>3
    <3>5. (a \o b)[i] = b[j]
      BY <1>6, <3>1
    <3> HIDE DEF j
    <3> QED
      BY <1>4, <3>1, <3>4, <3>5
  <2>3. i <= Len(p) \/ i > Len(p)
    BY <1>1
  <2> QED
    BY <2>1, <2>2, <2>3
<1>8. c = a \o b
  BY <1>5, <1>6, <1>7, SeqEqual
<1> QED
  BY <1>8 DEF a, b, c, k, q

LEMMA MovedWord ==
  ASSUME NEW r \in TimedWords, NEW k \in Nat
  PROVE  [r EXCEPT !.start = @ + k, !.end = @ + k]
           = [word |-> r.word, start |-> r.start + k, end |-> r.end + k]
<1> DEFINE x == r.start + k
           y == r.end + k
<1> DEFINE e == [r EXCEPT !.start = x, !.end = y]
           R == [word : {r.word}, start : {x}, end : {y}]
<1>1. e \in R
  BY DEF TimedWords
<1>2. [word |-> r.word, start |-> x, end |-> y] \in R
  OBVIOUS
<1>3. \A p, q \in R : p = q
  OBVIOUS
<1> QED
  BY <1>1, <1>2, <1>3

LEMMA MovedTimed ==
  ASSUME NEW w \in Seq(SaidWords), NEW k \in Nat
  PROVE  Timings!Moved(Timings!Timed(w, 0), k) = Timings!Timed(w, k)
<1> DEFINE a == Timings!Timed(w, 0)
           b == Timings!Timed(w, k)
<1>1. \A i \in 0..Len(w) : Timings!Lasts(w)[i] \in Nat
  BY LastsTyped
<1>2. /\ a \in Seq(TimedWords) /\ Len(a) = Len(w)
      /\ \A i \in 1..Len(w) : a[i] = [word |-> w[i].word, start |-> 0 + Timings!Lasts(w)[i - 1],
                                      end |-> 0 + Timings!Lasts(w)[i]]
  BY TimedIs
<1>3. /\ b \in Seq(TimedWords) /\ Len(b) = Len(w)
      /\ \A i \in 1..Len(w) : b[i] = [word |-> w[i].word, start |-> k + Timings!Lasts(w)[i - 1],
                                      end |-> k + Timings!Lasts(w)[i]]
  BY TimedIs
<1> HIDE DEF a, b
<1>4. /\ DOMAIN a = 1..Len(w) /\ DOMAIN b = 1..Len(w) /\ Len(w) \in Nat
      /\ b = [i \in 1..Len(w) |-> b[i]]
  BY <1>2, <1>3, LenProperties
<1>5. ASSUME NEW i \in 1..Len(w)
      PROVE  [a[i] EXCEPT !.start = @ + k, !.end = @ + k] = b[i]
  <2> DEFINE x == Timings!Lasts(w)[i - 1]
             y == Timings!Lasts(w)[i]
  <2>1. x \in Nat /\ y \in Nat
    BY <1>1, <1>4
  <2>2. a[i] = [word |-> w[i].word, start |-> 0 + x, end |-> 0 + y]
    BY <1>2
  <2>3. b[i] = [word |-> w[i].word, start |-> k + x, end |-> k + y]
    BY <1>3
  <2>4. a[i] \in TimedWords
    BY <1>2, <1>4
  <2>5. [a[i] EXCEPT !.start = @ + k, !.end = @ + k]
          = [word |-> a[i].word, start |-> a[i].start + k, end |-> a[i].end + k]
    BY <2>4, MovedWord
  <2> HIDE DEF x, y
  <2>6. a[i].word = w[i].word /\ a[i].start = 0 + x /\ a[i].end = 0 + y
    BY <2>2
  <2>7. a[i].start + k = k + x /\ a[i].end + k = k + y
    BY <2>1, <2>6
  <2> QED
    BY <2>3, <2>5, <2>6, <2>7
<1>6. Timings!Moved(a, k) = [i \in 1..Len(w) |-> b[i]]
  BY <1>4, <1>5 DEF Timings!Moved
<1> QED
  BY <1>4, <1>6 DEF a, b

\* A beginning and the rest of a concatenation.
LEMMA BeginAndRest ==
  ASSUME NEW S, NEW a \in Seq(S), NEW b \in Seq(S)
  PROVE  /\ SubSeq(a \o b, 1, Len(a)) = a
         /\ SubSeq(a \o b, Len(a) + 1, Len(a \o b)) = b
<1>1. /\ a \o b \in Seq(S) /\ Len(a \o b) = Len(a) + Len(b) /\ Len(a) \in Nat /\ Len(b) \in Nat
      /\ \A i \in 1..Len(a) + Len(b) : (a \o b)[i] = IF i <= Len(a) THEN a[i] ELSE b[i - Len(a)]
  BY ConcatProperties, LenProperties
<1>2. \A i \in 1..Len(a \o b) : (a \o b)[i] \in S
  BY <1>1, ElementOfSeq
<1> DEFINE p == SubSeq(a \o b, 1, Len(a))
           r == SubSeq(a \o b, Len(a) + 1, Len(a \o b))
           c == a \o b
<1>3. p \in Seq(S) /\ Len(p) = Len(a) /\ \A i \in 1..Len(a) : p[i] = c[i]
  BY <1>1, <1>2
<1>4. r \in Seq(S) /\ Len(r) = Len(b) /\ \A i \in 1..Len(b) : r[i] = c[Len(a) + i]
  BY <1>1, <1>2
<1>5. /\ \A i \in 1..Len(a) : c[i] = a[i]
      /\ \A i \in 1..Len(b) : c[Len(a) + i] = b[i]
  BY <1>1
<1> HIDE DEF p, r, c
<1>6. p = a
  BY <1>3, <1>5, SeqEqual
<1>7. r = b
  BY <1>4, <1>5, SeqEqual
<1> QED
  BY <1>6, <1>7 DEF p, r

LEMMA TimingsInit == Timings!Init => Timings!Inv
<1> SUFFICES ASSUME Timings!Init PROVE Timings!Inv
  OBVIOUS
<1>1. v2 = <<>> /\ v3 = <<>> /\ v4 = TRUE /\ v1 \in {"incremental", "absolute", "cumulative", "durations"}
  BY DEF Timings!Init
<1>2. <<>> \in Seq(SaidWords) /\ Len(<<>>) = 0
  BY EmptySeq
<1>3. Timings!Timed(<<>>, 0) \in Seq(TimedWords) /\ Len(Timings!Timed(<<>>, 0)) = 0
  BY <1>2, TimedIs
<1>4. Timings!Timed(<<>>, 0) = <<>>
  BY <1>3, EmptySeq
<1> QED
  BY <1>1, <1>2, <1>4 DEF Timings!Inv, Timings!EachWordOnce, SaidWords

\* Whichever way the words are counted, the new ones of a batch that reads one
\* way only are those of the new sentence, after all before.
LEMMA NewWordsAre ==
  ASSUME Timings!Inv, v4, NEW w \in Seq(SaidWords),
         Timings!Reported(w) # <<>>, ~Timings!Ambiguous(Timings!Reported(w))
  PROVE  v3 \o Timings!NewWords(Timings!Reported(w), v3) = Timings!Timed(v2 \o w, 0)
<1> DEFINE k == Timings!Lasts(v2)[Len(v2)]
           a == Timings!Timed(v2, 0)
           b == Timings!Timed(w, k)
           batch == Timings!Reported(w)
<1>1. v2 \in Seq(SaidWords) /\ v3 = a
  BY DEF Timings!Inv, Timings!EachWordOnce, SaidWords
<1>2. k \in Nat /\ (Len(v2) > 0 => k > 0) /\ (Len(v2) = 0 => k = 0) /\ Len(v2) \in Nat /\ Len(w) \in Nat
  <2>1. Len(v2) \in 0..Len(v2) /\ Len(v2) \in Nat /\ Len(w) \in Nat
    BY <1>1, LenProperties
  <2> QED
    BY <1>1, <2>1, LastsTyped, LastsIs
<1>3. /\ a \in Seq(TimedWords) /\ Len(a) = Len(v2)
      /\ b \in Seq(TimedWords) /\ Len(b) = Len(w)
      /\ Timings!Timed(w, 0) \in Seq(TimedWords) /\ Len(Timings!Timed(w, 0)) = Len(w)
  BY <1>1, <1>2, TimedIs
<1>4. Timings!Timed(v2 \o w, 0) = a \o b
  BY <1>1, TimedConcat
<1>5. v1 \in {"incremental", "absolute", "cumulative", "durations"}
  BY DEF Timings!Inv
<1>6. Len(v2) > 0 => a[Len(v2)].end = k
  <2> SUFFICES ASSUME Len(v2) > 0 PROVE a[Len(v2)].end = k
    OBVIOUS
  <2>1. Len(v2) \in 1..Len(v2)
    BY <1>2
  <2>2. a[Len(v2)] = [word |-> v2[Len(v2)].word, start |-> 0 + Timings!Lasts(v2)[Len(v2) - 1], end |-> 0 + k]
    BY <1>1, <2>1, TimedIs
  <2> HIDE DEF k
  <2> QED
    BY <1>2, <2>2
<1>7. Len(w) > 0 => Timings!Timed(w, 0)[1].start = 0 /\ b[1].start = k
  <2> SUFFICES ASSUME Len(w) > 0 PROVE Timings!Timed(w, 0)[1].start = 0 /\ b[1].start = k
    OBVIOUS
  <2>1. 1 \in 1..Len(w) /\ 0 \in 0..Len(w) /\ 1 - 1 = 0
    BY <1>2
  <2>2. Timings!Lasts(w)[0] = 0
    BY <2>1, LastsIs
  <2>3. /\ Timings!Timed(w, 0)[1] = [word |-> w[1].word, start |-> 0 + Timings!Lasts(w)[1 - 1],
                                     end |-> 0 + Timings!Lasts(w)[1]]
        /\ b[1] = [word |-> w[1].word, start |-> k + Timings!Lasts(w)[1 - 1], end |-> k + Timings!Lasts(w)[1]]
    BY <1>2, <2>1, TimedIs
  <2> HIDE DEF k
  <2> QED
    BY <1>2, <2>1, <2>2, <2>3
<1>8. CASE v1 = "cumulative"
  <2>1. batch = a \o b /\ Len(v3) # 1
    BY <1>4, <1>8 DEF Timings!Reported, Timings!Ambiguous
  <2> HIDE DEF a, b, batch
  <2>2. SubSeq(batch, 1, Len(a)) = a /\ SubSeq(batch, Len(a) + 1, Len(batch)) = b
    BY <1>3, <2>1, BeginAndRest
  <2>3. Len(batch) = Len(a) + Len(b)
    BY <1>3, <2>1, ConcatProperties
  <2>4. CASE Len(v2) = 0
    <3>1. v3 = <<>> /\ Len(v3) = 0
      BY <1>1, <1>3, <2>4, EmptySeq
    <3>2. Timings!NewWords(batch, v3) = batch
      BY <3>1 DEF Timings!NewWords
    <3>3. <<>> \o batch = batch
      <4>1. batch \in Seq(TimedWords)
        BY <1>3, <2>1, ConcatProperties
      <4> QED
        BY <4>1, ConcatEmptySeq
    <3> QED
      BY <1>4, <2>1, <3>1, <3>2, <3>3 DEF a, b, batch
  <2>5. CASE Len(v2) >= 2
    <3>1. Len(v3) >= 2 /\ Timings!Begins(batch, v3)
      BY <1>1, <1>2, <1>3, <2>2, <2>3, <2>5 DEF Timings!Begins
    <3>2. Timings!NewWords(batch, v3) = b
      BY <1>1, <2>2, <3>1 DEF Timings!NewWords
    <3> QED
      BY <1>1, <1>4, <3>2 DEF a, b, batch
  <2> QED
    BY <1>1, <1>2, <1>3, <2>1, <2>4, <2>5
<1>9. CASE v1 # "cumulative"
  <2>1. ~(Len(v3) >= 2 /\ Timings!Begins(batch, v3))
    BY <1>9 DEF Timings!Ambiguous
  <2>2. batch \in {Timings!Timed(w, 0), b}
    BY <1>5, <1>9 DEF Timings!Reported
  <2>3. Len(w) > 0
    <3>1. Len(batch) = Len(w) /\ batch \in Seq(TimedWords)
      BY <1>3, <2>2
    <3> HIDE DEF batch
    <3>2. batch # <<>>
      BY DEF batch
    <3> QED
      BY <1>2, <3>1, <3>2, EmptySeq
  <2>4. Timings!NewWords(batch, v3) = b
    <3>1. CASE Len(v2) = 0
      <4>1. v3 = <<>> /\ k = 0
        BY <1>1, <1>2, <1>3, <3>1, EmptySeq
      <4>2. batch = b
        BY <2>2, <4>1
      <4> QED
        BY <2>1, <4>1, <4>2 DEF Timings!NewWords
    <3>2. CASE Len(v2) > 0
      <4>1. v3 # <<>> /\ v3[Len(v3)].end = k /\ k > 0
        BY <1>1, <1>2, <1>3, <1>6, <3>2, EmptySeq
      <4>2. CASE batch = Timings!Timed(w, 0)
        <5>1. Timings!NewWords(batch, v3) = Timings!Moved(batch, k)
          BY <1>7, <2>1, <2>3, <4>1, <4>2 DEF Timings!NewWords
        <5> QED
          BY <1>2, <4>2, <5>1, MovedTimed
      <4>3. CASE batch = b
        <5>1. batch[1].start # 0
          BY <1>2, <1>7, <2>3, <3>2, <4>1, <4>3
        <5> QED
          BY <2>1, <4>1, <4>3, <5>1 DEF Timings!NewWords
      <4> QED
        BY <2>2, <4>2, <4>3
    <3> QED
      BY <1>2, <3>1, <3>2
  <2> QED
    BY <1>1, <1>4, <2>4
<1> QED
  BY <1>8, <1>9

LEMMA ReportKeepsInv ==
  ASSUME Timings!Inv, NEW w \in Seq(SaidWords), Timings!Report(w) PROVE Timings!Inv'
<1>1. /\ v4 /\ v1' = v1 /\ v2' = v2 \o w /\ Timings!Reported(w) # <<>>
      /\ v3' = v3 \o Timings!NewWords(Timings!Reported(w), v3)
      /\ v4' = (v4 /\ ~Timings!Ambiguous(Timings!Reported(w)))
  BY DEF Timings!Report
<1>2. v2' \in Seq(SaidWords)
  BY <1>1, ConcatProperties DEF Timings!Inv, SaidWords
<1>3. v4' => v3' = Timings!Timed(v2 \o w, 0)
  BY <1>1, NewWordsAre
<1>4. v4' \in BOOLEAN
  BY <1>1
<1>5. v1' \in {"incremental", "absolute", "cumulative", "durations"}
  BY <1>1 DEF Timings!Inv
<1>6. Timings!EachWordOnce'
  <2>1. Timings!EachWordOnce' <=> (v4' => v3' = Timings!Timed(v2', 0))
    BY DEF Timings!EachWordOnce, Timings!Timed, Timings!Lasts
  <2>2. Timings!Timed(v2', 0) = Timings!Timed(v2 \o w, 0)
    BY <1>1
  <2> QED
    BY <1>3, <2>1, <2>2
<1> QED
  BY <1>2, <1>4, <1>5, <1>6 DEF Timings!Inv, SaidWords

LEMMA TimingsStep == ASSUME Timings!Inv, Timings!Next PROVE Timings!Inv'
<1>1. <<>> \in Seq(SaidWords)
  BY EmptySeq
<1>2. Sentences \subseteq Seq(SaidWords)
  BY WordsSaid
<1> QED
  BY <1>1, <1>2, ReportKeepsInv DEF Timings!Next

LEMMA TimingsUnchanged == ASSUME Timings!Inv, UNCHANGED <<v1, v2, v3, v4>> PROVE Timings!Inv'
BY DEF Timings!Inv, Timings!EachWordOnce, Timings!Timed, Timings!Lasts

\* A superseded stream of the word-timed synthesis leaves the newer one alone
\* (nvidia_word_tts.py:441), and whichever way a synthesiser counts, each word
\* said is committed once, at its time (new_words_from_meta_batch).
THEOREM EachStreamItsWords == Spec => []WordsOfOwnStream
<1> DEFINE Safe == /\ component = "tts" => Tts!Inv
                   /\ component = "timings" => Timings!Inv
<1>1. Init => Safe
  BY TtsInit, TimingsInit DEF Init
<1>2. Safe /\ [Next]_vars => Safe'
  <2>1. ASSUME Safe, [Next]_vars, component' = "tts" PROVE Tts!Inv'
    <3>1. CASE component = "tts" /\ Tts!Next
      BY <2>1, <3>1, TtsStep
    <3>2. CASE component = "tts" /\ UNCHANGED vars
      BY <2>1, <3>2, TtsUnchanged DEF vars
    <3> QED
      BY <2>1, <3>1, <3>2 DEF Next, vars
  <2>2. ASSUME Safe, [Next]_vars, component' = "timings" PROVE Timings!Inv'
    <3>1. CASE component = "timings" /\ Timings!Next
      BY <2>2, <3>1, TimingsStep
    <3>2. CASE component = "timings" /\ UNCHANGED vars
      BY <2>2, <3>2, TimingsUnchanged DEF vars
    <3> QED
      BY <2>2, <3>1, <3>2 DEF Next, vars
  <2> QED
    BY <2>1, <2>2
<1>3. Safe => WordsOfOwnStream
  BY DEF WordsOfOwnStream, Tts!Inv, Timings!Inv
<1> QED
  BY <1>1, <1>2, <1>3, PTL DEF Spec
===============================================================================
