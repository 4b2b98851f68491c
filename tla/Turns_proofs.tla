---------------------------- MODULE Turns_proofs ----------------------------
(***************************************************************************)
(* What TLAPS proves of turns.  First of the user's items on the realtime  *)
(* wire (RealtimeUserTurn), for any number of turns, audio chunks and      *)
(* transcripts: what a frame sends extends the sequence of one item, the   *)
(* last; the lemmas on sequences say what each extension makes of it.      *)
(* Then of the benchmark's turns (BenchmarkTurns), for any number of       *)
(* turns, responses and errors; MCSessions_proofs cites BenchInit and      *)
(* BenchStep, because one property speaks of both benchmark clients.       *)
(***************************************************************************)
EXTENDS MCSessions, SequenceTheorems, FiniteSetTheorems, TLAPS

Event == Turns!Names \X Nat

(***************************************************************************)
(* The events of one item.                                                 *)
(***************************************************************************)
HeardIn(w) == Len(w) >= 2 /\ w[2][1] = "delta"
Count(w) == IF HeardIn(w) THEN Len(w) - 1 ELSE Len(w)
NameAt(w, k) ==
  IF HeardIn(w) /\ k = 2 THEN "delta" ELSE Turns!Order[IF HeardIn(w) /\ k > 2 THEN k - 1 ELSE k]
InOrder(w) == Count(w) <= 5 /\ \A k \in 1..Len(w) : w[k][1] = NameAt(w, k)
Stamped(w, c) ==
  \A k \in 1..Len(w) : w[k][1] \in {"speech_started", "speech_stopped"} => w[k][2] <= c
OneTurn(w) ==
  \A m, n \in 1..Len(w) :
    w[m][1] = "speech_stopped" /\ w[n][1] = "speech_started" => w[n][2] <= w[m][2]
Sound(w, c) == InOrder(w) /\ Stamped(w, c) /\ OneTurn(w)

\* An extension, element by element.
LEMMA Extended ==
  ASSUME NEW w \in Seq(Event), NEW t \in Seq(Event)
  PROVE  /\ w \o t \in Seq(Event) /\ Len(w \o t) = Len(w) + Len(t) /\ Len(w) \in Nat /\ Len(t) \in Nat
         /\ \A k \in 1..Len(w) : (w \o t)[k] = w[k]
         /\ \A k \in 1..Len(t) : (w \o t)[Len(w) + k] = t[k]
         /\ \A k \in 1..Len(w \o t) : (w \o t)[k] \in Event
<1>1. w \o t \in Seq(Event) /\ Len(w \o t) = Len(w) + Len(t)
      /\ \A k \in 1..Len(w \o t) : (w \o t)[k] = IF k <= Len(w) THEN w[k] ELSE t[k - Len(w)]
  BY ConcatProperties
<1>2. Len(w) \in Nat /\ Len(t) \in Nat
  BY LenProperties
<1>3. \A k \in 1..Len(t) : Len(w) + k \in 1..Len(w \o t) /\ ~(Len(w) + k <= Len(w)) /\ (Len(w) + k) - Len(w) = k
  BY <1>1, <1>2
<1>4. \A k \in 1..Len(w \o t) : (w \o t)[k] \in Event
  BY <1>1, ElementOfSeq
<1> QED
  BY <1>1, <1>2, <1>3, <1>4

LEMMA OrderIs ==
  /\ Turns!Order[1] = "speech_started" /\ Turns!Order[2] = "speech_stopped"
  /\ Turns!Order[3] = "committed" /\ Turns!Order[4] = "created" /\ Turns!Order[5] = "completed"
BY DEF Turns!Order

LEMMA NoneCounted == \A w : Len(w) = 0 => Count(w) = 0
BY DEF Count, HeardIn

LEMMA NothingSent == \A c : Sound(<<>>, c) /\ Count(<<>>) = 0
BY DEF Sound, InOrder, Stamped, OneTurn, Count, HeardIn

\* The turn starts.
LEMMA StartedSound ==
  ASSUME NEW w \in Seq(Event), Count(w) = 0, NEW t \in Seq(Event), NEW c \in Nat,
         t = << <<"speech_started", c>> >>
  PROVE  Sound(w \o t, c) /\ Count(w \o t) = 1
<1> DEFINE x == w \o t
<1>1. Len(w) = 0
  BY Extended DEF Count, HeardIn
<1>2. Len(t) = 1 /\ t[1] = <<"speech_started", c>>
  OBVIOUS
<1>3. Len(x) = 1 /\ x[1] = <<"speech_started", c>>
  <2>1. Len(x) = Len(w) + Len(t) /\ \A k \in 1..Len(t) : x[Len(w) + k] = t[k]
    BY Extended
  <2> QED
    BY <1>1, <1>2, <2>1
<1> HIDE DEF x
<1>4. ~HeardIn(x) /\ Count(x) = 1
  BY <1>3 DEF HeardIn, Count
<1>5. \A k \in 1..Len(x) : k = 1
  BY <1>3
<1>6. InOrder(x)
  BY <1>3, <1>4, <1>5, OrderIs DEF InOrder, NameAt
<1>7. Stamped(x, c) /\ OneTurn(x)
  BY <1>3, <1>5 DEF Stamped, OneTurn
<1> QED
  BY <1>4, <1>6, <1>7 DEF Sound, x

\* An interim delta is heard.
LEMMA DeltaSound ==
  ASSUME NEW w \in Seq(Event), Count(w) = 1, ~HeardIn(w), NEW c \in Nat, Sound(w, c),
         NEW t \in Seq(Event), t = << <<"delta", 0>> >>
  PROVE  Sound(w \o t, c) /\ Count(w \o t) = 1
<1> DEFINE x == w \o t
<1>1. Len(w) = 1 /\ w[1][1] = "speech_started" /\ w[1][2] <= c
  <2>1. Len(w) = 1
    BY DEF Count
  <2>2. w[1][1] = "speech_started"
    BY <2>1, OrderIs DEF Sound, InOrder, NameAt
  <2> QED
    BY <2>1, <2>2 DEF Sound, Stamped
<1>2. Len(t) = 1 /\ t[1] = <<"delta", 0>>
  OBVIOUS
<1>3. Len(x) = 2 /\ x[1] = w[1] /\ x[2] = <<"delta", 0>>
  <2>1. /\ Len(x) = Len(w) + Len(t) /\ \A k \in 1..Len(t) : x[Len(w) + k] = t[k]
        /\ \A k \in 1..Len(w) : x[k] = w[k]
    BY Extended
  <2> QED
    BY <1>1, <1>2, <2>1
<1> HIDE DEF x
<1>4. HeardIn(x) /\ Count(x) = 1
  BY <1>3 DEF HeardIn, Count
<1>5. \A k \in 1..Len(x) : k = 1 \/ k = 2
  BY <1>3
<1>6. InOrder(x)
  BY <1>1, <1>3, <1>4, <1>5, OrderIs DEF InOrder, NameAt
<1>7. Stamped(x, c) /\ OneTurn(x)
  BY <1>1, <1>3, <1>5 DEF Stamped, OneTurn
<1> QED
  BY <1>4, <1>6, <1>7 DEF Sound, x

\* The turn stops, and its transcript may be ready.
LEMMA StoppedSound ==
  ASSUME NEW w \in Seq(Event), Count(w) = 1, NEW c \in Nat, Sound(w, c), NEW t \in Seq(Event),
         Len(t) \in {3, 4}, t[1] = <<"speech_stopped", c>>, t[2][1] = "committed", t[3][1] = "created",
         Len(t) = 4 => t[4][1] = "completed"
  PROVE  Sound(w \o t, c) /\ Count(w \o t) = 1 + Len(t)
<1> DEFINE x == w \o t
<1>1. /\ Len(w) \in {1, 2} /\ (Len(w) = 2 <=> HeardIn(w))
  BY Extended DEF Count, HeardIn
<1>2. /\ Len(x) = Len(w) + Len(t) /\ \A k \in 1..Len(t) : x[Len(w) + k] = t[k]
      /\ \A k \in 1..Len(w) : x[k] = w[k]
  BY Extended
<1>3. w[1][1] = "speech_started" /\ w[1][2] <= c
  <2>1. w[1][1] = "speech_started"
    BY <1>1, OrderIs DEF Sound, InOrder, NameAt
  <2> QED
    BY <1>1, <2>1 DEF Sound, Stamped
<1>6. t[1][1] = "speech_stopped" /\ t[1][2] = c /\ c <= c
  OBVIOUS
<1> HIDE DEF x
<1>4. CASE Len(w) = 1
  <2>1. /\ x[1] = w[1] /\ x[2] = t[1] /\ x[3] = t[2] /\ x[4] = t[3]
        /\ Len(t) = 4 => x[5] = t[4]
    BY <1>2, <1>4
  <2>2. ~HeardIn(x) /\ Count(x) = 1 + Len(t) /\ Len(x) = 1 + Len(t)
    BY <1>2, <1>4, <2>1 DEF HeardIn, Count
  <2>3. \A k \in 1..Len(x) : k = 1 \/ k = 2 \/ k = 3 \/ k = 4 \/ (k = 5 /\ Len(t) = 4)
    <3>1. CASE Len(t) = 3
      <4>1. Len(x) = 4
        BY <2>2, <3>1
      <4> QED
        BY <4>1
    <3>2. CASE Len(t) = 4
      <4>1. Len(x) = 5
        BY <2>2, <3>2
      <4> QED
        BY <3>2, <4>1
    <3> QED
      BY <3>1, <3>2
  <2>4. InOrder(x)
    BY <1>3, <2>1, <2>2, <2>3, OrderIs DEF InOrder, NameAt
  <2>5. Stamped(x, c) /\ OneTurn(x)
    BY <1>3, <1>6, <2>1, <2>3 DEF Stamped, OneTurn
  <2> QED
    BY <2>2, <2>4, <2>5 DEF Sound, x
<1>5. CASE Len(w) = 2
  <2>1. /\ x[1] = w[1] /\ x[2] = w[2] /\ x[3] = t[1] /\ x[4] = t[2] /\ x[5] = t[3]
        /\ Len(t) = 4 => x[6] = t[4]
    BY <1>2, <1>5
  <2>2. w[2][1] = "delta"
    BY <1>1, <1>5 DEF HeardIn
  <2>3. HeardIn(x) /\ Count(x) = 1 + Len(t) /\ Len(x) = 2 + Len(t)
    BY <1>2, <1>5, <2>1, <2>2 DEF HeardIn, Count
  <2>4. \A k \in 1..Len(x) : k = 1 \/ k = 2 \/ k = 3 \/ k = 4 \/ k = 5 \/ (k = 6 /\ Len(t) = 4)
    <3>1. CASE Len(t) = 3
      <4>1. Len(x) = 5
        BY <2>3, <3>1
      <4> QED
        BY <4>1
    <3>2. CASE Len(t) = 4
      <4>1. Len(x) = 6
        BY <2>3, <3>2
      <4> QED
        BY <3>2, <4>1
    <3> QED
      BY <3>1, <3>2
  <2>5. InOrder(x)
    BY <1>3, <2>1, <2>2, <2>3, <2>4, OrderIs DEF InOrder, NameAt
  <2>6. Stamped(x, c) /\ OneTurn(x)
    BY <1>3, <1>6, <2>1, <2>2, <2>4 DEF Stamped, OneTurn
  <2> QED
    BY <2>3, <2>5, <2>6 DEF Sound, x
<1> QED
  BY <1>1, <1>4, <1>5

\* A transcript comes after the turn.
LEMMA CompletedSound ==
  ASSUME NEW w \in Seq(Event), Count(w) = 4, NEW c \in Nat, Sound(w, c), NEW t \in Seq(Event),
         Len(t) = 1, t[1][1] = "completed"
  PROVE  Sound(w \o t, c) /\ Count(w \o t) = 5
<1> DEFINE x == w \o t
<1>1. Len(w) \in {4, 5} /\ (Len(w) = 5 <=> HeardIn(w)) /\ Len(w) \in Nat
  BY Extended DEF Count, HeardIn
<1>2. /\ Len(x) = Len(w) + 1 /\ x[Len(w) + 1] = t[1]
      /\ \A k \in 1..Len(w) : x[k] = w[k]
  <2>1. /\ Len(x) = Len(w) + Len(t) /\ \A k \in 1..Len(t) : x[Len(w) + k] = t[k]
        /\ \A k \in 1..Len(w) : x[k] = w[k]
    BY Extended
  <2>2. 1 \in 1..Len(t)
    OBVIOUS
  <2> QED
    BY <2>1, <2>2
<1> HIDE DEF x
<1>3. (HeardIn(x) <=> HeardIn(w)) /\ Count(x) = 5
  <2>1. x[2] = w[2]
    BY <1>1, <1>2
  <2>2. HeardIn(x) <=> HeardIn(w)
    BY <1>1, <1>2, <2>1 DEF HeardIn
  <2>3. CASE Len(w) = 4
    BY <1>1, <1>2, <2>2, <2>3 DEF Count
  <2>4. CASE Len(w) = 5
    BY <1>1, <1>2, <2>2, <2>4 DEF Count
  <2> QED
    BY <1>1, <2>2, <2>3, <2>4
<1>4. \A k \in 1..Len(x) : k \in 1..Len(w) \/ k = Len(w) + 1
  BY <1>1, <1>2
<1>5. InOrder(x)
  <2>1. \A k \in 1..Len(w) : x[k][1] = NameAt(x, k)
    BY <1>2, <1>3 DEF Sound, InOrder, NameAt
  <2>2. NameAt(x, Len(w) + 1) = "completed"
    <3>1. CASE Len(w) = 4
      BY <1>1, <1>3, <3>1, OrderIs DEF NameAt
    <3>2. CASE Len(w) = 5
      BY <1>1, <1>3, <3>2, OrderIs DEF NameAt
    <3> QED
      BY <1>1, <3>1, <3>2
  <2> QED
    BY <1>2, <1>3, <1>4, <2>1, <2>2 DEF InOrder
<1>6. Stamped(x, c) /\ OneTurn(x)
  BY <1>2, <1>4 DEF Sound, Stamped, OneTurn
<1> QED
  BY <1>3, <1>5, <1>6 DEF Sound, x

(***************************************************************************)
(* The invariant.                                                          *)
(***************************************************************************)
User == [minted : Nat, id : Nat, start : Nat \cup {-1}, end : Nat \cup {-1},
         stopped : BOOLEAN, announced : BOOLEAN, pending : Turns!Turns \cup {-1}]
Expected(u) == IF u.start = -1 THEN 0 ELSE IF u.stopped THEN 4 ELSE 1
Staged(u, talking) ==
  /\ u \in User /\ u.id \in {0, u.minted}
  /\ u.id = 0 => u = Turns!ClearItem(u)
  /\ talking <=> u.start # -1 /\ ~u.stopped
  /\ u.stopped => u.start # -1 /\ u.pending = -1
  /\ u.announced = u.stopped
Counted(w, i, u) == IF i # u.id THEN Count(w) \in {4, 5} ELSE Count(w) = Expected(u)
Apart(f, n) ==
  \A i, j \in 1..n : i < j =>
    \A a \in 1..Len(f[i]), b \in 1..Len(f[j]) :
      f[i][a][1] = "speech_stopped" /\ f[j][b][1] = "speech_started" => f[i][a][2] <= f[j][b][2]
Begun(f, n) == {i \in 1..n : Len(f[i]) >= 1}
Rest ==
  /\ v2 \in 0..MaxClock /\ v5 \in 0..MaxTurns /\ v3 \in BOOLEAN /\ v4 \in BOOLEAN
  /\ v6 \in [Turns!Turns -> 0..MaxFinals]
Wires(u, f, c, n) ==
  /\ f \in [1..u.minted -> Seq(Event)]
  /\ \A i \in 1..u.minted : Sound(f[i], c) /\ Counted(f[i], i, u)
  /\ Apart(f, u.minted) /\ Cardinality(Begun(f, u.minted)) = n

\* An item has begun if anything was sent of it.
LEMMA BegunMeansStarted ==
  ASSUME NEW w \in Seq(Event), InOrder(w)
  PROVE  (\E k \in 1..Len(w) : w[k][1] = "speech_started") <=> Len(w) >= 1
<1>1. Len(w) \in Nat
  BY LenProperties
<1>2. Len(w) >= 1 => 1 \in 1..Len(w) /\ NameAt(w, 1) = "speech_started"
  BY <1>1, OrderIs DEF NameAt
<1> QED
  BY <1>1, <1>2 DEF InOrder

\* RealtimeUserTurn counts the items with the operator of FiniteSets.
LEMMA ItemsCounted == \A S : Turns!Cardinality(S) = Cardinality(S)
BY DEF Turns!Cardinality, Cardinality, Turns!IsFiniteSet, IsFiniteSet

\* The invariant, with the names above.
LEMMA TurnsParts == Turns!Inv <=> Rest /\ Staged(v1, v4) /\ Wires(v1, v7, v2, v5)
<1>1. Turns!TypeOK <=> Rest /\ v1 \in User /\ v7 \in [1..v1.minted -> Seq(Event)]
  BY DEF Turns!TypeOK, Rest, User, Event, Turns!None
<1>2. ASSUME v7 \in [1..v1.minted -> Seq(Event)], v1 \in User
      PROVE  Turns!EventsSent /\ Turns!StampedByNow /\ Turns!ItemOrder /\ Turns!TurnsDisjoint <=>
               /\ \A i \in 1..v1.minted : Sound(v7[i], v2) /\ Counted(v7[i], i, v1)
               /\ Apart(v7, v1.minted)
  <2>1. DOMAIN v7 = 1..v1.minted
    BY <1>2
  <2>2. \A i \in 1..v1.minted : DOMAIN v7[i] = 1..Len(v7[i])
    BY <1>2
  <2>3. \A i \in 1..v1.minted :
          (Turns!Heard(i) <=> HeardIn(v7[i])) /\ Turns!Events(i) = Count(v7[i])
    BY DEF Turns!Heard, HeardIn, Turns!Events, Count
  <2>4. Turns!EventsSent <=> \A i \in 1..v1.minted : Counted(v7[i], i, v1)
    BY <2>1, <2>3 DEF Turns!EventsSent, Turns!Item, Counted, Expected, Turns!None
  <2>5. Turns!StampedByNow <=> \A i \in 1..v1.minted : Stamped(v7[i], v2)
    BY <2>1, <2>2 DEF Turns!StampedByNow, Turns!Item, Stamped
  <2>6. Turns!ItemOrder <=> \A i \in 1..v1.minted : InOrder(v7[i])
    BY <2>1, <2>2, <2>3 DEF Turns!ItemOrder, Turns!Item, InOrder, NameAt
  <2>7. Turns!TurnsDisjoint <=> (\A i \in 1..v1.minted : OneTurn(v7[i])) /\ Apart(v7, v1.minted)
    BY <2>1, <2>2 DEF Turns!TurnsDisjoint, Turns!Item, OneTurn, Apart
  <2> QED
    BY <2>4, <2>5, <2>6, <2>7 DEF Sound
<1>3. ASSUME v7 \in [1..v1.minted -> Seq(Event)], \A i \in 1..v1.minted : InOrder(v7[i])
      PROVE  Turns!ItemPerTurn <=> Cardinality(Begun(v7, v1.minted)) = v5
  <2>1. \A i \in 1..v1.minted : Turns!Sent(i, "speech_started") <=> Len(v7[i]) >= 1
    BY <1>3, BegunMeansStarted DEF Turns!Sent
  <2>2. {i \in Turns!Item : Turns!Sent(i, "speech_started")} = Begun(v7, v1.minted)
    BY <1>3, <2>1 DEF Turns!Item, Begun
  <2> QED
    BY <2>2, ItemsCounted DEF Turns!ItemPerTurn
<1>4. v1 \in User => (Turns!ItemStage <=> Staged(v1, v4))
  BY DEF Turns!ItemStage, Staged, Turns!None
<1>5. Turns!Inv => Rest /\ Staged(v1, v4) /\ Wires(v1, v7, v2, v5)
  BY <1>1, <1>2, <1>3, <1>4 DEF Turns!Inv, Wires, Sound
<1>6. Rest /\ Staged(v1, v4) /\ Wires(v1, v7, v2, v5) => Turns!Inv
  BY <1>1, <1>2, <1>3, <1>4 DEF Turns!Inv, Wires, Sound, Staged
<1> QED
  BY <1>5, <1>6

Parts == Rest /\ Staged(v1, v4) /\ Wires(v1, v7, v2, v5)
LEMMA PartsMakeInv == Parts => Turns!Inv
BY TurnsParts DEF Parts

LEMMA TurnsPartsNext ==
  ASSUME Rest', Staged(v1', v4'), Wires(v1', v7', v2', v5') PROVE Turns!Inv'
<1>1. Parts'
  BY DEF Parts
<1> QED
  BY <1>1, PartsMakeInv, PTL

LEMMA TurnsInit == Turns!Init => Turns!Inv
<1> SUFFICES ASSUME Turns!Init PROVE Rest /\ Staged(v1, v4) /\ Wires(v1, v7, v2, v5)
  BY TurnsParts
<1> USE TurnsAssumption DEF Turns!BoundsAssumption, Turns!Init, Turns!NewUser, Turns!None
<1>1. Rest
  <2>1. v2 \in 0..MaxClock /\ v5 \in 0..MaxTurns
    OBVIOUS
  <2>2. v6 \in [Turns!Turns -> 0..MaxFinals]
    <3>1. 0 \in 0..MaxFinals
      OBVIOUS
    <3> QED
      BY <3>1
  <2> QED
    BY <2>1, <2>2 DEF Rest
<1>2. v1.minted = 0 /\ v1.id = 0 /\ v1.start = -1 /\ v1.stopped = FALSE /\ v1.announced = FALSE
  OBVIOUS
<1>3. Staged(v1, v4)
  BY <1>2 DEF Staged, User, Turns!ClearItem
<1>4. 1..v1.minted = {}
  BY <1>2
<1>5. v7 \in [1..v1.minted -> Seq(Event)]
  BY <1>4
<1>6. Begun(v7, v1.minted) = {} /\ Cardinality({}) = 0
  BY <1>4, FS_EmptySet DEF Begun
<1>7. Wires(v1, v7, v2, v5)
  BY <1>4, <1>5, <1>6 DEF Wires, Apart
<1> QED
  BY <1>1, <1>3, <1>7

\* The clock, the turns and the transcripts that were delivered.
LEMMA AudioKeepsInv ==
  ASSUME Turns!Inv, Turns!AppendAudio \/ Turns!CommitAudio \/ Turns!ClearAudio PROVE Turns!Inv'
<1>1. UNCHANGED <<v1, v4, v5, v6, v7>> /\ v3' \in BOOLEAN
  BY DEF Turns!AppendAudio, Turns!CommitAudio, Turns!ClearAudio
<1>2. v2' \in 0..MaxClock /\ v2 <= v2' /\ v2 \in Nat /\ v2' \in Nat
  BY TurnsParts, TurnsAssumption DEF Rest, Turns!BoundsAssumption, Turns!AppendAudio,
     Turns!CommitAudio, Turns!ClearAudio
<1>3. Rest'
  BY <1>1, <1>2, TurnsParts DEF Rest
<1>4. ASSUME NEW i \in 1..v1.minted PROVE Sound(v7[i], v2')
  <2>1. v7[i] \in Seq(Event) /\ Sound(v7[i], v2)
    BY TurnsParts DEF Wires
  <2>2. \A k \in 1..Len(v7[i]) : v7[i][k][2] \in Nat
    BY <2>1, ElementOfSeq DEF Event
  <2>3. Stamped(v7[i], v2')
    BY <1>2, <2>1, <2>2 DEF Sound, Stamped
  <2> QED
    BY <2>1, <2>3 DEF Sound
<1>5. Wires(v1, v7, v2', v5)
  BY <1>4, TurnsParts DEF Wires
<1> QED
  BY <1>1, <1>3, <1>5, TurnsParts, TurnsPartsNext

\* What Send does: the events extend the sequence of the item, which is empty if
\* the item is new.
Before(i) == IF i \in DOMAIN v7 THEN v7[i] ELSE <<>>
LEMMA SendExtends ==
  ASSUME Turns!Inv, NEW u \in User, u.id = u.minted, u.minted \in {v1.minted, v1.minted + 1}, u.id # 0,
         NEW events \in Seq(Event), Turns!Send(u, events)
  PROVE  /\ v7' \in [1..u.minted -> Seq(Event)]
         /\ Before(u.id) \in Seq(Event) /\ v7'[u.id] = Before(u.id) \o events
         /\ \A i \in 1..u.minted : i # u.id => i \in 1..v1.minted /\ v7'[i] = v7[i]
<1>1. v7 \in [1..v1.minted -> Seq(Event)] /\ v1.minted \in Nat /\ u.minted \in Nat
  BY TurnsParts DEF Wires, Staged, User
<1>2. \A i \in 1..u.minted : Before(i) \in Seq(Event)
  BY <1>1, EmptySeq DEF Before
<1>3. v7' = [i \in 1..u.minted |-> Before(i) \o (IF i = u.id THEN events ELSE <<>>)]
  BY DEF Turns!Send, Before
<1>4. u.id \in 1..u.minted
  BY <1>1 DEF User
<1>5. ASSUME NEW i \in 1..u.minted, i # u.id PROVE i \in 1..v1.minted /\ v7'[i] = v7[i]
  <2>1. i \in 1..v1.minted
    BY <1>1, <1>5
  <2>2. Before(i) = v7[i] /\ v7[i] \in Seq(Event)
    BY <1>1, <2>1 DEF Before
  <2>3. v7[i] \o <<>> = v7[i]
    BY <2>2, ConcatEmptySeq
  <2> QED
    BY <1>3, <1>5, <2>1, <2>2, <2>3
<1>6. v7'[u.id] = Before(u.id) \o events
  BY <1>3, <1>4
<1>7. v7'[u.id] \in Seq(Event)
  BY <1>2, <1>4, <1>6, ConcatProperties
<1>8. \A i \in 1..u.minted : v7'[i] \in Seq(Event)
  BY <1>1, <1>5, <1>7
<1> QED
  BY <1>2, <1>3, <1>4, <1>5, <1>6, <1>8

\* The items after a frame: all but the last are as they were, and the last is
\* sound; it starts now or where it started before.
LEMMA FrameKeepsWires ==
  ASSUME Turns!Inv, NEW u \in User, u.id = u.minted, u.minted \in {v1.minted, v1.minted + 1}, u.id # 0,
         NEW w \in User, w.minted = u.minted, w.id \in {0, u.id},
         NEW events \in Seq(Event), Turns!Send(u, events),
         Sound(Before(u.id) \o events, v2), Counted(Before(u.id) \o events, u.id, w),
         \A i \in 1..v1.minted : i # u.id => Count(v7[i]) \in {4, 5},
         \A k \in 1..Len(events) : events[k][1] = "speech_started" => events[k][2] = v2,
         NEW n,
         IF Len(Before(u.id)) = 0 /\ Len(events) # 0 THEN n = v5 + 1 ELSE n = v5
  PROVE  Wires(w, v7', v2, n)
<1>1. /\ v7 \in [1..v1.minted -> Seq(Event)] /\ v1.minted \in Nat /\ u.minted \in Nat
      /\ v2 \in Nat /\ v5 \in Nat
  BY TurnsParts, TurnsAssumption DEF Wires, Staged, User, Rest, Turns!BoundsAssumption
<1> DEFINE x == Before(u.id) \o events
<1>2. /\ v7' \in [1..u.minted -> Seq(Event)]
      /\ Before(u.id) \in Seq(Event) /\ v7'[u.id] = x
      /\ \A i \in 1..u.minted : i # u.id => i \in 1..v1.minted /\ v7'[i] = v7[i]
  BY SendExtends
<1>3. /\ x \in Seq(Event) /\ Len(x) = Len(Before(u.id)) + Len(events)
      /\ Len(Before(u.id)) \in Nat /\ Len(events) \in Nat
      /\ \A k \in 1..Len(Before(u.id)) : x[k] = Before(u.id)[k]
      /\ \A k \in 1..Len(events) : x[Len(Before(u.id)) + k] = events[k]
  BY <1>2, Extended
<1> HIDE DEF x
<1>4. \A i \in 1..w.minted : Sound(v7'[i], v2) /\ Counted(v7'[i], i, w)
  <2> SUFFICES ASSUME NEW i \in 1..w.minted PROVE Sound(v7'[i], v2) /\ Counted(v7'[i], i, w)
    OBVIOUS
  <2>1. CASE i = u.id
    BY <1>2, <2>1 DEF x
  <2>2. CASE i # u.id
    <3>1. i \in 1..v1.minted /\ v7'[i] = v7[i] /\ Sound(v7[i], v2)
      BY <1>2, <2>2, TurnsParts DEF Wires
    <3>2. i # w.id
      BY <2>2, <3>1
    <3> QED
      BY <2>2, <3>1, <3>2 DEF Counted
  <2> QED
    BY <2>1, <2>2
<1>5. Apart(v7', w.minted)
  <2> SUFFICES ASSUME NEW i \in 1..w.minted, NEW j \in 1..w.minted, i < j,
                      NEW a \in 1..Len(v7'[i]), NEW b \in 1..Len(v7'[j]),
                      v7'[i][a][1] = "speech_stopped", v7'[j][b][1] = "speech_started"
               PROVE  v7'[i][a][2] <= v7'[j][b][2]
    BY DEF Apart
  <2>1. i # u.id
    BY <1>1
  <2>2. i \in 1..v1.minted /\ v7'[i] = v7[i]
    BY <1>2, <2>1
  <2>3. CASE j # u.id
    BY <1>2, <2>2, <2>3, TurnsParts DEF Wires, Apart
  <2>4. CASE j = u.id
    <3>1. CASE b \in 1..Len(Before(u.id))
      <4>1. x[b] = Before(u.id)[b]
        BY <1>3, <3>1
      <4>2. j \in 1..v1.minted /\ Before(u.id) = v7[j]
        <5>1. u.id \in DOMAIN v7
          BY <3>1 DEF Before
        <5> QED
          BY <1>1, <2>4, <5>1 DEF Before
      <4> QED
        BY <1>2, <2>2, <2>4, <3>1, <4>1, <4>2, TurnsParts DEF Wires, Apart
    <3>2. CASE b \notin 1..Len(Before(u.id))
      <4>1. b - Len(Before(u.id)) \in 1..Len(events) /\ b = Len(Before(u.id)) + (b - Len(Before(u.id)))
        BY <1>2, <1>3, <2>4, <3>2
      <4>2. v7'[j][b] = events[b - Len(Before(u.id))]
        BY <1>2, <1>3, <2>4, <4>1
      <4>3. v7'[j][b][2] = v2
        BY <4>1, <4>2
      <4>4. v7[i][a][2] <= v2
        BY <2>2, TurnsParts DEF Wires, Sound, Stamped
      <4> QED
        BY <2>2, <4>3, <4>4
    <3> QED
      BY <3>1, <3>2
  <2> QED
    BY <2>3, <2>4
<1>6. Cardinality(Begun(v7', w.minted)) = n
  <2>1. Begun(v7, v1.minted) \subseteq 1..v1.minted /\ IsFiniteSet(1..v1.minted)
    <3>1. Begun(v7, v1.minted) \subseteq 1..v1.minted
      BY DEF Begun
    <3>2. 1 \in Int /\ v1.minted \in Int
      BY <1>1
    <3>3. IsFiniteSet(1..v1.minted)
      BY <3>2, FS_Interval
    <3> QED
      BY <3>1, <3>3
  <2>2. IsFiniteSet(Begun(v7, v1.minted)) /\ Cardinality(Begun(v7, v1.minted)) = v5
    BY <2>1, FS_Subset, TurnsParts DEF Wires
  <2>3. CASE Len(Before(u.id)) = 0 /\ Len(events) # 0
    <3>1. u.id \notin Begun(v7, v1.minted)
      BY <1>1, <2>3 DEF Before, Begun
    <3>2. Begun(v7', w.minted) = Begun(v7, v1.minted) \cup {u.id}
      <4>1. u.id \in 1..w.minted /\ Len(v7'[u.id]) >= 1
        BY <1>1, <1>2, <1>3, <2>3
      <4>2. 1..v1.minted \subseteq 1..w.minted
        BY <1>1
      <4> QED
        BY <1>1, <1>2, <3>1, <4>1, <4>2 DEF Begun
    <3> QED
      BY <2>2, <2>3, <3>1, <3>2, FS_AddElement
  <2>4. CASE ~(Len(Before(u.id)) = 0 /\ Len(events) # 0)
    <3>1. u.id \in 1..w.minted /\ (Len(v7'[u.id]) >= 1 <=> Len(Before(u.id)) >= 1)
      BY <1>1, <1>2, <1>3, <2>4
    <3>2. Len(Before(u.id)) >= 1 <=> u.id \in Begun(v7, v1.minted)
      BY <1>1, <1>2, <1>3 DEF Before, Begun
    <3>3. 1..v1.minted \subseteq 1..w.minted
      BY <1>1
    <3>4. Begun(v7', w.minted) = Begun(v7, v1.minted)
      BY <1>1, <1>2, <3>1, <3>2, <3>3 DEF Begun
    <3> QED
      BY <2>2, <2>4, <3>4
  <2> QED
    BY <2>3, <2>4
<1> QED
  BY <1>2, <1>4, <1>5, <1>6 DEF Wires

\* The parts of the invariant that every frame uses.
LEMMA FrameFacts ==
  ASSUME Turns!Inv
  PROVE  /\ Rest /\ Staged(v1, v4) /\ Wires(v1, v7, v2, v5)
         /\ v1.minted \in Nat /\ v1.id \in Nat /\ v1.start \in Nat \cup {-1} /\ v1.end \in Nat \cup {-1}
         /\ v1.stopped \in BOOLEAN /\ v1.announced \in BOOLEAN /\ v1.pending \in Turns!Turns \cup {-1}
         /\ v2 \in Nat /\ v5 \in Nat /\ Turns!Turns \subseteq Nat
         /\ v1.id = 0 => /\ v1.start = -1 /\ v1.end = -1 /\ v1.stopped = FALSE
                         /\ v1.announced = FALSE /\ v1.pending = -1
<1>1. Rest /\ Staged(v1, v4) /\ Wires(v1, v7, v2, v5)
  BY TurnsParts
<1>2. /\ v1.minted \in Nat /\ v1.id \in Nat /\ v1.start \in Nat \cup {-1} /\ v1.end \in Nat \cup {-1}
      /\ v1.stopped \in BOOLEAN /\ v1.announced \in BOOLEAN /\ v1.pending \in Turns!Turns \cup {-1}
  BY <1>1 DEF Staged, User
<1>3. v2 \in Nat /\ v5 \in Nat /\ Turns!Turns \subseteq Nat
  BY <1>1, TurnsAssumption DEF Rest, Turns!BoundsAssumption, Turns!Turns
<1>4. v1.id = 0 => /\ v1.start = -1 /\ v1.end = -1 /\ v1.stopped = FALSE
                   /\ v1.announced = FALSE /\ v1.pending = -1
  BY <1>1 DEF Staged, Turns!ClearItem, Turns!NewUser, Turns!None
<1> QED
  BY <1>1, <1>2, <1>3, <1>4

\* UserStartedFrame: a new item, or the one a transcript that came first made.
LEMMA StartKeepsInv == ASSUME Turns!Inv, Turns!UserStartedSpeaking PROVE Turns!Inv'
<1> USE FrameFacts
<1> DEFINE u == Turns!BeginTurn(v1)
           t == << <<"speech_started", u.start>> >>
<1>1. /\ v1' = u /\ Turns!Send(u, t) /\ v4 = FALSE /\ v4' = TRUE /\ v5 < MaxTurns /\ v5' = v5 + 1
      /\ v2' = v2 /\ v3' = v3 /\ v6' = v6
  BY DEF Turns!UserStartedSpeaking, Rest
<1>2. v1.start = -1 \/ v1.stopped
  BY <1>1 DEF Staged
<1>3. /\ u.id = u.minted /\ u.id # 0 /\ u.start = v2 /\ u.end = -1
      /\ u.stopped = FALSE /\ u.announced = FALSE /\ u.pending = -1
      /\ u.minted = (IF v1.id # 0 /\ ~v1.stopped THEN v1.minted ELSE v1.minted + 1)
  BY <1>2 DEF Staged, Turns!BeginTurn, Turns!BeginItem, Turns!ClearItem, Turns!NewUser, Turns!None
<1>4. u \in User
  <2>1. u = [minted |-> u.minted, id |-> u.id, start |-> u.start, end |-> u.end, stopped |-> u.stopped,
             announced |-> u.announced, pending |-> u.pending]
    BY <1>2 DEF Staged, User, Turns!BeginTurn, Turns!BeginItem, Turns!ClearItem, Turns!NewUser, Turns!None
  <2>2. u.minted \in Nat
    BY <1>3
  <2> QED
    BY <1>3, <2>1, <2>2 DEF User
<1> HIDE DEF u
<1>5. t \in Seq(Event) /\ t = << <<"speech_started", v2>> >>
  BY <1>3 DEF Event, Turns!Names
<1> HIDE DEF t
<1>6. Before(u.id) \in Seq(Event) /\ Count(Before(u.id)) = 0
  <2>1. CASE v1.id # 0 /\ ~v1.stopped
    <3>1. u.id = v1.id /\ u.id \in 1..v1.minted
      BY <1>3, <2>1 DEF Staged
    <3>2. Counted(v7[u.id], u.id, v1) /\ v7[u.id] \in Seq(Event) /\ Before(u.id) = v7[u.id]
      BY <3>1 DEF Wires, Before
    <3> QED
      BY <1>2, <2>1, <3>1, <3>2 DEF Counted, Expected
  <2>2. CASE ~(v1.id # 0 /\ ~v1.stopped)
    <3>1. u.id \notin DOMAIN v7
      BY <1>3, <2>2 DEF Wires
    <3> QED
      BY <3>1, NothingSent, EmptySeq DEF Before
  <2> QED
    BY <2>1, <2>2
<1>7. Sound(Before(u.id) \o t, v2) /\ Count(Before(u.id) \o t) = 1
  BY <1>5, <1>6, StartedSound
<1>8. Counted(Before(u.id) \o t, u.id, u)
  BY <1>3, <1>7 DEF Counted, Expected
<1>9. \A i \in 1..v1.minted : i # u.id => Count(v7[i]) \in {4, 5}
  <2> SUFFICES ASSUME NEW i \in 1..v1.minted, i # u.id PROVE Count(v7[i]) \in {4, 5}
    OBVIOUS
  <2>1. Counted(v7[i], i, v1)
    BY DEF Wires
  <2>2. CASE i # v1.id
    BY <2>1, <2>2 DEF Counted
  <2>3. CASE i = v1.id
    <3>1. v1.stopped /\ v1.start # -1
      BY <1>3, <2>3 DEF Staged
    <3> QED
      BY <2>1, <2>3, <3>1 DEF Counted, Expected
  <2> QED
    BY <2>2, <2>3
<1>10. Len(t) = 1 /\ t[1][1] = "speech_started" /\ t[1][2] = v2 /\ Len(Before(u.id)) = 0
  BY <1>5, <1>6, LenProperties DEF Count, HeardIn
<1>11. Wires(u, v7', v2, v5 + 1)
  <2>1. \A k \in 1..Len(t) : t[k][1] = "speech_started" => t[k][2] = v2
    BY <1>10
  <2>2. u.minted \in {v1.minted, v1.minted + 1} /\ u.id \in {0, u.id}
    BY <1>3
  <2>3. IF Len(Before(u.id)) = 0 /\ Len(t) # 0 THEN v5 + 1 = v5 + 1 ELSE v5 + 1 = v5
    BY <1>10
  <2> QED
    BY <1>1, <1>3, <1>4, <1>5, <1>7, <1>8, <1>9, <2>1, <2>2, <2>3, FrameKeepsWires, Zenon
<1>12. Staged(v1', v4')
  <2>1. u.start # -1
    BY <1>3
  <2>2. Staged(u, TRUE)
    BY <1>3, <1>4, <2>1, Zenon DEF Staged
  <2> QED
    BY <1>1, <2>2
<1>13. Rest'
  <2>1. v5' \in 0..MaxTurns
    BY <1>1, TurnsAssumption DEF Turns!BoundsAssumption
  <2> QED
    BY <1>1, <2>1 DEF Rest
<1> QED
  BY <1>1, <1>11, <1>12, <1>13, TurnsPartsNext

\* What the stopping frame sends, and what is left of it when no transcript is ready.
Stopping(c) == << <<"speech_stopped", c>>, <<"committed", 0>> >> \o << <<"created", 0>> >>
Ending(c, p) == Stopping(c) \o << <<"completed", p>> >>
IsEnd(t, c) ==
  /\ t[1] = <<"speech_stopped", c>> /\ t[2][1] = "committed" /\ t[3][1] = "created"
  /\ Len(t) \in {3, 4} /\ (Len(t) = 4 => t[4][1] = "completed")
LEMMA StoppingEvents ==
  ASSUME NEW c \in Nat, NEW p \in Nat
  PROVE  /\ Stopping(c) \in Seq(Event) /\ Len(Stopping(c)) = 3 /\ IsEnd(Stopping(c), c)
         /\ Ending(c, p) \in Seq(Event) /\ Len(Ending(c, p)) = 4 /\ IsEnd(Ending(c, p), c)
<1> DEFINE a == Stopping(c)
           b == Ending(c, p)
<1> DEFINE s == << <<"speech_stopped", c>>, <<"committed", 0>> >>
           d == << <<"created", 0>> >>
           e == << <<"completed", p>> >>
<1>1. <<"speech_stopped", c>> \in Event /\ <<"committed", 0>> \in Event /\ <<"created", 0>> \in Event
      /\ <<"completed", p>> \in Event
  BY DEF Event, Turns!Names
<1>2. s \in Seq(Event) /\ Len(s) = 2 /\ s[1] = <<"speech_stopped", c>> /\ s[2] = <<"committed", 0>>
  BY <1>1
<1>3. d \in Seq(Event) /\ Len(d) = 1 /\ d[1] = <<"created", 0>>
  BY <1>1
<1>4. e \in Seq(Event) /\ Len(e) = 1 /\ e[1] = <<"completed", p>>
  BY <1>1
<1>5. a = s \o d /\ b = a \o e
  BY DEF Stopping, Ending
<1> HIDE DEF s, d, e, a, b
<1>6. /\ a \in Seq(Event) /\ Len(a) = Len(s) + Len(d)
      /\ \A k \in 1..Len(s) : a[k] = s[k]
      /\ \A k \in 1..Len(d) : a[Len(s) + k] = d[k]
  <2>1. /\ s \o d \in Seq(Event) /\ Len(s \o d) = Len(s) + Len(d)
        /\ \A k \in 1..Len(s) : (s \o d)[k] = s[k]
        /\ \A k \in 1..Len(d) : (s \o d)[Len(s) + k] = d[k]
    BY <1>2, <1>3, Extended
  <2> QED
    BY <1>5, <2>1
<1>7. Len(a) = 3 /\ a[1] = s[1] /\ a[2] = s[2] /\ a[3] = d[1]
  BY <1>2, <1>3, <1>6
<1>8. /\ b \in Seq(Event) /\ Len(b) = Len(a) + Len(e)
      /\ \A k \in 1..Len(a) : b[k] = a[k]
      /\ \A k \in 1..Len(e) : b[Len(a) + k] = e[k]
  <2>1. /\ a \o e \in Seq(Event) /\ Len(a \o e) = Len(a) + Len(e)
        /\ \A k \in 1..Len(a) : (a \o e)[k] = a[k]
        /\ \A k \in 1..Len(e) : (a \o e)[Len(a) + k] = e[k]
    BY <1>4, <1>6, Extended
  <2> QED
    BY <1>5, <2>1
<1>9. Len(b) = 4 /\ b[1] = a[1] /\ b[2] = a[2] /\ b[3] = a[3] /\ b[4] = e[1]
  BY <1>4, <1>7, <1>8
<1>10. IsEnd(a, c) /\ IsEnd(b, c)
  BY <1>2, <1>3, <1>4, <1>7, <1>9 DEF IsEnd
<1> QED
  BY <1>6, <1>7, <1>8, <1>9, <1>10 DEF a, b

\* Every item but the user's own has at least its first four events.
LEMMA OthersDone ==
  ASSUME Turns!Inv PROVE \A i \in 1..v1.minted : i # v1.id => Count(v7[i]) \in {4, 5}
BY FrameFacts DEF Wires, Counted

\* The item that is cleared leaves its number behind.
LEMMA ClearedStaged ==
  ASSUME NEW u, u.minted \in Nat PROVE Staged(Turns!ClearItem(u), FALSE)
         /\ Turns!ClearItem(u) \in User /\ Turns!ClearItem(u).minted = u.minted /\ Turns!ClearItem(u).id = 0
<1> DEFINE w == Turns!ClearItem(u)
<1>1. w.minted = u.minted /\ w.id = 0 /\ w.start = -1 /\ w.stopped = FALSE /\ w.announced = FALSE
  BY DEF Turns!ClearItem, Turns!NewUser, Turns!None
<1>2. w \in User
  BY DEF User, Turns!ClearItem, Turns!NewUser, Turns!None
<1>3. Turns!ClearItem(w) = w
  <2>1. [Turns!NewUser EXCEPT !.minted = w.minted] = [Turns!NewUser EXCEPT !.minted = u.minted]
    BY <1>1
  <2> QED
    BY <2>1 DEF Turns!ClearItem
<1> HIDE DEF w
<1>5. Staged(w, FALSE)
  BY <1>1, <1>2, <1>3, Zenon DEF Staged
<1> QED
  BY <1>1, <1>2, <1>5 DEF w

\* UserStoppedFrame: the events of the turn's end, and the transcript if it came first.
LEMMA StopKeepsInv == ASSUME Turns!Inv, Turns!UserStoppedSpeaking PROVE Turns!Inv'
<1> USE FrameFacts
<1> DEFINE u == Turns!StopTurn(v1)
           a == Stopping(u.end)
           b == Ending(u.end, u.pending)
           B == Before(u.id)
<1>1. /\ v4 = TRUE /\ v4' = FALSE /\ v2' = v2 /\ v3' = v3 /\ v5' = v5 /\ v6' = v6
      /\ Turns!FinishFrame(u, << <<"speech_stopped", u.end>>, <<"committed", 0>> >>, TRUE)
  BY DEF Turns!UserStoppedSpeaking, Rest
<1>2. v1.start # -1 /\ v1.stopped = FALSE /\ v1.announced = FALSE /\ v1.id # 0 /\ v1.id = v1.minted
  BY <1>1 DEF Staged
<1>3. u = [v1 EXCEPT !.end = v2, !.stopped = TRUE]
  BY <1>2 DEF Turns!StopTurn, Turns!BeginItem
<1>4. /\ u \in User /\ u.minted = v1.minted /\ u.id = v1.id /\ u.start = v1.start /\ u.end = v2
      /\ u.stopped = TRUE /\ u.announced = FALSE /\ u.pending = v1.pending
  BY <1>2, <1>3 DEF Staged, User
<1> HIDE DEF u
<1>5. Turns!Created(u) = << <<"created", 0>> >>
  BY <1>4 DEF Turns!Created
<1>6. \/ u.pending = -1 /\ v1' = [u EXCEPT !.announced = TRUE] /\ Turns!Send(u, a)
      \/ u.pending # -1 /\ v1' = Turns!ClearItem(u) /\ Turns!Send(u, b)
  BY <1>1, <1>4, <1>5 DEF Turns!FinishFrame, Turns!Ready, Turns!None, Stopping, Ending
<1>7. B \in Seq(Event) /\ Count(B) = 1 /\ Sound(B, v2) /\ Len(B) # 0
  <2>1. u.id \in 1..v1.minted
    BY <1>2, <1>4
  <2>2. B = v7[u.id] /\ v7[u.id] \in Seq(Event) /\ Sound(v7[u.id], v2) /\ Counted(v7[u.id], u.id, v1)
    BY <2>1 DEF Wires, Before
  <2>3. Count(B) = 1
    BY <1>2, <1>4, <2>2 DEF Counted, Expected
  <2>4. Len(B) = 0 => Count(B) = 0
    BY NoneCounted
  <2> QED
    BY <2>2, <2>3, <2>4
<1> HIDE DEF B
<1>8. \A i \in 1..v1.minted : i # u.id => Count(v7[i]) \in {4, 5}
  BY <1>4, OthersDone
<1>9. u.minted \in {v1.minted, v1.minted + 1} /\ u.id = u.minted /\ u.id # 0 /\ u.end \in Nat
  BY <1>2, <1>4
<1>10. Rest'
  BY <1>1 DEF Rest
<1> SUFFICES Staged(v1', FALSE) /\ Wires(v1', v7', v2, v5)
  BY <1>1, <1>10, TurnsPartsNext
<1>11. CASE u.pending = -1
  <2> DEFINE w == [u EXCEPT !.announced = TRUE]
  <2>1. v1' = w /\ Turns!Send(u, a)
    BY <1>6, <1>11
  <2>2. /\ w \in User /\ w.minted = u.minted /\ w.id = u.id /\ w.start = v1.start /\ w.stopped = TRUE
        /\ w.announced = TRUE /\ w.pending = -1
    BY <1>4, <1>11 DEF User
  <2> HIDE DEF w
  <2>3. a \in Seq(Event) /\ Len(a) = 3 /\ IsEnd(a, v2)
    BY <1>4, StoppingEvents
  <2> HIDE DEF a
  <2>4. Sound(B \o a, v2) /\ Count(B \o a) = 1 + Len(a)
    BY <1>7, <2>3, StoppedSound DEF IsEnd
  <2>5. Counted(B \o a, u.id, w)
    BY <1>2, <2>2, <2>3, <2>4 DEF Counted, Expected
  <2>6. \A k \in 1..Len(a) : a[k][1] = "speech_started" => a[k][2] = v2
    <3>1. \A k \in 1..Len(a) : k = 1 \/ k = 2 \/ k = 3
      BY <2>3
    <3> QED
      BY <2>3, <3>1 DEF IsEnd
  <2>7. IF Len(B) = 0 /\ Len(a) # 0 THEN v5 = v5 + 1 ELSE v5 = v5
    BY <1>7
  <2>8. w.id \in {0, u.id}
    BY <2>2
  <2>9. Wires(w, v7', v2, v5)
    BY <1>4, <1>8, <1>9, <2>1, <2>2, <2>3, <2>4, <2>5, <2>6, <2>7, <2>8, FrameKeepsWires, Zenon DEF B
  <2>10. Staged(w, FALSE)
    <3>1. w.id \in {0, w.minted} /\ w.id # 0
      BY <1>9, <2>2
    <3> QED
      BY <1>2, <2>2, <3>1, Zenon DEF Staged
  <2> QED
    BY <2>1, <2>9, <2>10
<1>12. CASE u.pending # -1
  <2> DEFINE w == Turns!ClearItem(u)
  <2>1. v1' = w /\ Turns!Send(u, b) /\ u.pending \in Nat
    BY <1>4, <1>6, <1>12
  <2>2. Staged(w, FALSE) /\ w \in User /\ w.minted = u.minted /\ w.id = 0
    BY <1>4, ClearedStaged
  <2> HIDE DEF w
  <2>3. b \in Seq(Event) /\ Len(b) = 4 /\ IsEnd(b, v2)
    BY <1>4, <2>1, StoppingEvents
  <2> HIDE DEF b
  <2>4. Sound(B \o b, v2) /\ Count(B \o b) = 1 + Len(b)
    BY <1>7, <2>3, StoppedSound DEF IsEnd
  <2>5. Counted(B \o b, u.id, w)
    BY <1>9, <2>2, <2>3, <2>4 DEF Counted
  <2>6. \A k \in 1..Len(b) : b[k][1] = "speech_started" => b[k][2] = v2
    <3>1. \A k \in 1..Len(b) : k = 1 \/ k = 2 \/ k = 3 \/ k = 4
      BY <2>3
    <3> QED
      BY <2>3, <3>1 DEF IsEnd
  <2>7. IF Len(B) = 0 /\ Len(b) # 0 THEN v5 = v5 + 1 ELSE v5 = v5
    BY <1>7
  <2>8. w.id \in {0, u.id}
    BY <2>2
  <2>9. Wires(w, v7', v2, v5)
    BY <1>4, <1>8, <1>9, <2>1, <2>2, <2>3, <2>4, <2>5, <2>6, <2>7, <2>8, FrameKeepsWires, Zenon DEF B
  <2> QED
    BY <2>1, <2>2, <2>9
<1> QED
  BY <1>11, <1>12

\* An interim transcription: at most one delta stands for the item's deltas.
LEMMA InterimKeepsInv == ASSUME Turns!Inv, Turns!InterimTranscription PROVE Turns!Inv'
<1> USE FrameFacts
<1> DEFINE t == << <<"delta", 0>> >>
           B == Before(v1.id)
<1>1. /\ v1.start # -1 /\ ~v1.stopped /\ ~Turns!Sent(v1.id, "delta") /\ Turns!Send(v1, t)
      /\ UNCHANGED <<v1, v2, v3, v4, v5, v6>>
  BY DEF Turns!InterimTranscription, Turns!None
<1>2. v1 \in User /\ v1.id # 0 /\ v1.id = v1.minted /\ v1.minted \in {v1.minted, v1.minted + 1}
  BY <1>1 DEF Staged
<1>3. t \in Seq(Event) /\ Len(t) = 1 /\ t[1][1] = "delta"
  BY DEF Event, Turns!Names
<1>4. v1.id \in 1..v1.minted
  BY <1>2
<1>5. B = v7[v1.id] /\ v7[v1.id] \in Seq(Event) /\ Sound(v7[v1.id], v2) /\ Counted(v7[v1.id], v1.id, v1)
  BY <1>4 DEF Wires, Before
<1> HIDE DEF B
<1>6. Count(B) = 1 /\ Len(B) # 0
  <2>1. Count(B) = 1
    BY <1>1, <1>5 DEF Counted, Expected
  <2> QED
    BY <2>1, NoneCounted
<1>7. ~HeardIn(B)
  <2>1. DOMAIN B = 1..Len(B) /\ Len(B) \in Nat
    BY <1>5, LenProperties
  <2>2. \A k \in DOMAIN B : B[k][1] # "delta"
    BY <1>1, <1>5 DEF Turns!Sent
  <2> QED
    BY <2>1, <2>2 DEF HeardIn
<1>8. Sound(B \o t, v2) /\ Count(B \o t) = 1
  BY <1>3, <1>5, <1>6, <1>7, DeltaSound
<1> HIDE DEF t
<1>9. Counted(B \o t, v1.id, v1)
  BY <1>1, <1>8 DEF Counted, Expected
<1>10. \A k \in 1..Len(t) : t[k][1] = "speech_started" => t[k][2] = v2
  BY <1>3
<1>11. IF Len(B) = 0 /\ Len(t) # 0 THEN v5 = v5 + 1 ELSE v5 = v5
  BY <1>6
<1>12. v1.id \in {0, v1.id} /\ v1.minted = v1.minted
  OBVIOUS
<1>13. Wires(v1, v7', v2, v5)
  BY <1>1, <1>2, <1>3, <1>8, <1>9, <1>10, <1>11, <1>12, OthersDone, FrameKeepsWires, Zenon DEF B
<1>14. Rest'
  BY <1>1 DEF Rest
<1> QED
  BY <1>1, <1>13, <1>14, TurnsPartsNext

\* A final transcription: kept until its turn stops, or the end of the item.
LEMMA TranscriptKeepsInv ==
  ASSUME Turns!Inv, NEW k \in Turns!Turns, Turns!Transcription(k) PROVE Turns!Inv'
<1> USE FrameFacts
<1> DEFINE u == Turns!SetTranscript(v1, k)
           B == Before(u.id)
           a == <<>> \o <<>>
           b == (<<>> \o <<>>) \o << <<"completed", k>> >>
<1>1. /\ v2' = v2 /\ v3' = v3 /\ v4' = v4 /\ v5' = v5 /\ Turns!FinishFrame(u, <<>>, FALSE)
      /\ v6' = [v6 EXCEPT ![k] = @ + 1] /\ v6[k] < MaxFinals
  BY DEF Turns!Transcription
<1>2. k \in Nat /\ k # -1
  OBVIOUS
<1>3. /\ u.minted = (IF v1.id = 0 THEN v1.minted + 1 ELSE v1.minted) /\ u.id = u.minted /\ u.id # 0
      /\ u.start = v1.start /\ u.end = v1.end /\ u.stopped = v1.stopped /\ u.announced = v1.announced
      /\ u.pending = k
  BY DEF Staged, User, Turns!SetTranscript, Turns!BeginItem
<1>4. u \in User
  <2>1. v1 \in User /\ v1.minted + 1 \in Nat
    BY DEF Staged
  <2>2. Turns!BeginItem(v1) \in User
    BY <2>1 DEF Turns!BeginItem, User
  <2> QED
    BY <2>2 DEF Turns!SetTranscript, User
<1> HIDE DEF u
<1>5. \/ ~v1.stopped /\ v1' = [u EXCEPT !.announced = @ \/ FALSE] /\ Turns!Send(u, a)
      \/ v1.stopped /\ v1' = Turns!ClearItem(u) /\ Turns!Send(u, <<>> \o Turns!Created(u) \o << <<"completed", k>> >>)
  BY <1>1, <1>2, <1>3 DEF Turns!FinishFrame, Turns!Ready, Turns!None
<1>6. u.minted \in {v1.minted, v1.minted + 1} /\ (v1.id # 0 => u.id = v1.id)
  BY <1>3 DEF Staged
<1>7. \A i \in 1..v1.minted : i # u.id => Count(v7[i]) \in {4, 5}
  BY <1>6, OthersDone
<1>8. B \in Seq(Event) /\ Sound(B, v2) /\ Count(B) = Expected(v1)
  <2>1. CASE v1.id # 0
    <3>1. u.id = v1.id /\ u.id \in 1..v1.minted
      BY <1>3, <1>6, <2>1 DEF Staged
    <3>2. Counted(v7[u.id], u.id, v1) /\ v7[u.id] \in Seq(Event) /\ B = v7[u.id] /\ Sound(v7[u.id], v2)
      BY <3>1 DEF Wires, Before
    <3> QED
      BY <3>1, <3>2 DEF Counted
  <2>2. CASE v1.id = 0
    <3>1. u.id \notin DOMAIN v7
      BY <1>3, <2>2 DEF Wires
    <3>2. B = <<>> /\ Expected(v1) = 0
      BY <2>2, <3>1 DEF Before, Expected
    <3> QED
      BY <3>2, NothingSent, EmptySeq
  <2> QED
    BY <2>1, <2>2
<1> HIDE DEF B
<1>9. Rest'
  <2>1. v6[k] + 1 \in 0..MaxFinals
    BY <1>1, TurnsAssumption DEF Rest, Turns!BoundsAssumption
  <2> QED
    BY <1>1, <2>1 DEF Rest
<1> SUFFICES Staged(v1', v4) /\ Wires(v1', v7', v2, v5)
  BY <1>1, <1>9, TurnsPartsNext
<1>10. CASE ~v1.stopped
  <2> DEFINE w == [u EXCEPT !.announced = @ \/ FALSE]
  <2>1. v1' = w /\ Turns!Send(u, a)
    BY <1>5, <1>10
  <2>2. /\ w \in User /\ w.minted = u.minted /\ w.id = u.id /\ w.start = v1.start /\ w.stopped = v1.stopped
    BY <1>3, <1>4 DEF User
  <2>3. w.announced = v1.announced
    <3>1. w.announced = (u.announced \/ FALSE)
      BY <1>4 DEF User
    <3> QED
      BY <1>3, <3>1
  <2> HIDE DEF w
  <2>4. a = <<>> /\ <<>> \in Seq(Event) /\ Len(<<>>) = 0
    BY EmptySeq
  <2> HIDE DEF a
  <2>5. a \in Seq(Event) /\ Len(a) = 0 /\ B \o a = B
    BY <1>8, <2>4, ConcatEmptySeq
  <2>6. Counted(B \o a, u.id, w)
    BY <1>8, <2>2, <2>5 DEF Counted, Expected
  <2>7. \A n \in 1..Len(a) : a[n][1] = "speech_started" => a[n][2] = v2
    BY <2>5
  <2>8. IF Len(B) = 0 /\ Len(a) # 0 THEN v5 = v5 + 1 ELSE v5 = v5
    BY <2>5
  <2>9. w.id \in {0, u.id} /\ Sound(B \o a, v2)
    BY <1>8, <2>2, <2>5
  <2>10. Wires(w, v7', v2, v5)
    BY <1>3, <1>4, <1>6, <1>7, <2>1, <2>2, <2>5, <2>6, <2>7, <2>8, <2>9, FrameKeepsWires, Zenon DEF B
  <2>11. Staged(w, v4)
    <3>1. w.id \in {0, w.minted} /\ w.id # 0
      BY <1>3, <2>2
    <3>2. v4 <=> v1.start # -1 /\ ~v1.stopped
      BY DEF Staged
    <3>3. v1.announced = v1.stopped
      BY DEF Staged
    <3> QED
      BY <1>10, <2>2, <2>3, <3>1, <3>2, <3>3, Zenon DEF Staged
  <2> QED
    BY <2>1, <2>10, <2>11
<1>11. CASE v1.stopped
  <2> DEFINE w == Turns!ClearItem(u)
  <2>1. u.announced = TRUE /\ v4 = FALSE
    BY <1>3, <1>11 DEF Staged, Rest
  <2>2. v1' = w /\ Turns!Send(u, b)
    BY <1>5, <1>11, <2>1 DEF Turns!Created
  <2>3. Staged(w, FALSE) /\ w \in User /\ w.minted = u.minted /\ w.id = 0
    BY <1>4, ClearedStaged DEF User
  <2> HIDE DEF w
  <2>4. b \in Seq(Event) /\ Len(b) = 1 /\ b[1][1] = "completed"
    <3> DEFINE e == << <<"completed", k>> >>
    <3>1. <<>> \o <<>> = <<>>
      BY EmptySeq
    <3>2. e \in Seq(Event) /\ Len(e) = 1 /\ e[1][1] = "completed"
      BY <1>2 DEF Event, Turns!Names
    <3>3. b = <<>> \o e
      BY <3>1
    <3> HIDE DEF e
    <3>4. <<>> \o e = e
      BY <3>2, ConcatEmptySeq
    <3> QED
      BY <3>2, <3>3, <3>4
  <2> HIDE DEF b
  <2>5. Count(B) = 4 /\ Len(B) # 0
    <3>1. Count(B) = 4
      BY <1>8, <1>11 DEF Expected, Staged
    <3> QED
      BY <3>1, NoneCounted
  <2>6. Sound(B \o b, v2) /\ Count(B \o b) = 5
    BY <1>8, <2>4, <2>5, CompletedSound
  <2>7. Counted(B \o b, u.id, w)
    BY <1>3, <2>3, <2>6 DEF Counted
  <2>8. \A n \in 1..Len(b) : b[n][1] = "speech_started" => b[n][2] = v2
    <3>1. \A n \in 1..Len(b) : n = 1
      BY <2>4
    <3> QED
      BY <2>4, <3>1
  <2>9. IF Len(B) = 0 /\ Len(b) # 0 THEN v5 = v5 + 1 ELSE v5 = v5
    BY <2>5
  <2>10. w.id \in {0, u.id}
    BY <2>3
  <2>11. Wires(w, v7', v2, v5)
    BY <1>3, <1>4, <1>6, <1>7, <2>2, <2>3, <2>4, <2>6, <2>7, <2>8, <2>9, <2>10, FrameKeepsWires, Zenon DEF B
  <2> QED
    BY <2>1, <2>2, <2>3, <2>11
<1> QED
  BY <1>10, <1>11

LEMMA TurnsStep == ASSUME Turns!Inv, Turns!Next PROVE Turns!Inv'
BY AudioKeepsInv, StartKeepsInv, StopKeepsInv, InterimKeepsInv, TranscriptKeepsInv DEF Turns!Next

LEMMA TurnsStill ==
  ASSUME Turns!Inv, UNCHANGED <<v1, v2, v3, v4, v5, v6, v7>> PROVE Turns!Inv'
<1>1. Rest'
  BY FrameFacts DEF Rest
<1> QED
  BY <1>1, FrameFacts, TurnsPartsNext

\* The observer's user frames: every item gets its five events once and in order
\* with its deltas inside its turn, every VAD turn gets an item of its own, and
\* turns do not overlap on the sample clock, however late or often the final
\* transcripts come.
THEOREM UserItemsInOrder == Spec => []UserTurnsInOrder
<1> DEFINE Safe == component = "turns" => Turns!Inv
<1>1. Init => Safe
  BY TurnsInit DEF Init
<1>2. Safe /\ [Next]_vars => Safe'
  <2> SUFFICES ASSUME Safe, [Next]_vars, component' = "turns" PROVE Turns!Inv'
    OBVIOUS
  <2>1. CASE component = "turns" /\ Turns!Next
    BY <2>1, TurnsStep
  <2>2. CASE component = "turns" /\ UNCHANGED vars
    BY <2>2, TurnsStill DEF vars
  <2> QED
    BY <2>1, <2>2 DEF Next, vars
<1>3. Safe => UserTurnsInOrder
  BY DEF UserTurnsInOrder, Turns!Inv
<1> QED
  BY <1>1, <1>2, <1>3, PTL DEF Spec

(***************************************************************************)
(* BenchmarkTurns.  What the server does to the order of its responses is  *)
(* one of three things: an event comes, a response begins, or nothing.     *)
(***************************************************************************)
Came(e) ==
  /\ v3' = Append(v3, e) /\ e \in Benchmark!EventSet
  /\ v4'.begun = v4.begun /\ v4'.active = IF Benchmark!Closing(e) THEN 0 ELSE v4.active
  /\ Benchmark!OfResponse(e) => e.r = v4.active /\ v4.active # 0
  /\ e.kind # "done" /\ Benchmark!Closing(e) => v4.active = 0
ResponseBegun ==
  v3' = v3 /\ v4.active = 0 /\ v4'.active = v4.begun + 1 /\ v4'.begun = v4.begun + 1
Stood == v3' = v3 /\ v4'.active = v4.active /\ v4'.begun = v4.begun
Moved == (\E e \in Benchmark!EventSet : Came(e)) \/ ResponseBegun \/ Stood

ServerState == [active : Nat, owed : Nat, begun : Nat, audio : Nat, errors : Nat]
LEMMA ChannelTypes ==
  ASSUME Benchmark!TypeOK
  PROVE  /\ v3 \in Seq(Benchmark!EventSet) /\ v4 \in ServerState /\ Len(v3) \in Nat /\ DOMAIN v3 = 1..Len(v3)
         /\ \A i \in 1..Len(v3) : v3[i] \in Benchmark!EventSet /\ v3[i].r \in Nat
<1>1. v3 \in Seq(Benchmark!EventSet) /\ v4 \in ServerState
  BY DEF Benchmark!TypeOK, ServerState
<1>2. \A i \in 1..Len(v3) : v3[i] \in Benchmark!EventSet
  BY <1>1
<1>3. \A e \in Benchmark!EventSet : e.r \in Nat
  BY DEF Benchmark!EventSet
<1> QED
  BY <1>1, <1>2, <1>3

LEMMA EventTypes ==
  ASSUME NEW kind \in {"delta", "done", "updated", "error", "failed"}, NEW r \in Nat,
         NEW status \in {"", "completed", "failed", "cancelled", "not_active"}
  PROVE  /\ Benchmark!Event(kind, r, status) \in Benchmark!EventSet
         /\ Benchmark!Event(kind, r, status).kind = kind
         /\ Benchmark!Event(kind, r, status).r = r
         /\ Benchmark!Closing(Benchmark!Event(kind, r, status)) <=> kind = "done" \/ status = "not_active"
         /\ Benchmark!OfResponse(Benchmark!Event(kind, r, status)) <=> kind \in {"delta", "done"}
BY DEF Benchmark!Event, Benchmark!Closing, Benchmark!OfResponse, Benchmark!EventSet

LEMMA ServerMoves ==
  ASSUME Benchmark!TypeOK, v1 = "realtime",
         Benchmark!ServerTakes \/ Benchmark!ServerBegins \/ Benchmark!ServerSpeaks \/ Benchmark!ServerErrs
  PROVE  Moved
<1>1. v4 \in ServerState /\ v3 \in Seq(Benchmark!EventSet)
  BY ChannelTypes
<1> USE <1>1 DEF ServerState
<1>3. CASE Benchmark!ServerTakes
  <2>1. CASE Head(v2) = "update" /\ \E kind \in {"updated", "error"} : v3' = Benchmark!Told(Benchmark!Event(kind, 0, ""))
             /\ UNCHANGED v4
    <3>1. PICK kind \in {"updated", "error"} : v3' = Append(v3, Benchmark!Event(kind, 0, ""))
      BY <2>1 DEF Benchmark!Told
    <3>2. Came(Benchmark!Event(kind, 0, ""))
      BY <2>1, <3>1, EventTypes DEF Came
    <3> QED
      BY <3>2, EventTypes DEF Moved
  <2>2. ASSUME v3' = Benchmark!Stopped, v4'.active = 0, v4'.begun = v4.begun PROVE Moved
    <3>1. CASE v4.active = 0
      BY <2>2, <3>1 DEF Moved, Stood, Benchmark!Stopped
    <3>2. CASE v4.active # 0
      <4> DEFINE e == Benchmark!Event("done", v4.active, "cancelled")
      <4>1. v3' = Append(v3, e)
        BY <2>2, <3>2 DEF Benchmark!Stopped, Benchmark!Told
      <4>2. /\ e \in Benchmark!EventSet /\ e.kind = "done" /\ e.r = v4.active
            /\ Benchmark!Closing(e) /\ Benchmark!OfResponse(e)
        BY DEF Benchmark!Event, Benchmark!EventSet, Benchmark!Closing, Benchmark!OfResponse
      <4> HIDE DEF e
      <4>3. Came(e)
        BY <2>2, <3>2, <4>1, <4>2 DEF Came
      <4> QED
        BY <4>2, <4>3 DEF Moved
    <3> QED
      BY <3>1, <3>2
  <2>3. CASE Head(v2) = "speech" /\ v3' = Benchmark!Stopped /\ v4' = [v4 EXCEPT !.active = 0, !.owed = @ + 1]
    BY <2>2, <2>3
  <2>4. CASE Head(v2) = "cancel" /\ v4' = [v4 EXCEPT !.active = 0]
             /\ v3' = IF v4.active = 0 THEN Benchmark!Told(Benchmark!Event("error", 0, "not_active")) ELSE Benchmark!Stopped
    <3>1. CASE v4.active = 0
      <4> DEFINE e == Benchmark!Event("error", 0, "not_active")
      <4>1. v3' = Append(v3, e)
        BY <2>4, <3>1 DEF Benchmark!Told
      <4>2. Came(e)
        BY <2>4, <3>1, <4>1, EventTypes DEF Came
      <4> QED
        BY <4>2, EventTypes DEF Moved
    <3>2. CASE v4.active # 0
      BY <2>2, <2>4, <3>2
    <3> QED
      BY <3>1, <3>2
  <2> QED
    BY <1>3, <2>1, <2>3, <2>4 DEF Benchmark!ServerTakes
<1>4. CASE Benchmark!ServerBegins
  BY <1>4 DEF Benchmark!ServerBegins, Moved, ResponseBegun
<1>5. CASE Benchmark!ServerSpeaks
  <2>1. CASE v3' = Benchmark!Told(Benchmark!Event("delta", v4.active, "")) /\ v4' = [v4 EXCEPT !.audio = @ + 1]
    <3> DEFINE e == Benchmark!Event("delta", v4.active, "")
    <3>1. v3' = Append(v3, e) /\ v4'.active = v4.active /\ v4'.begun = v4.begun /\ v4.active # 0
      BY <1>5, <2>1, EventTypes DEF Benchmark!ServerSpeaks, Benchmark!Told
    <3>2. /\ e \in Benchmark!EventSet /\ e.kind = "delta" /\ e.r = v4.active
          /\ ~Benchmark!Closing(e) /\ Benchmark!OfResponse(e)
      BY DEF Benchmark!Event, Benchmark!EventSet, Benchmark!Closing, Benchmark!OfResponse
    <3> HIDE DEF e
    <3>3. Came(e)
      BY <3>1, <3>2 DEF Came
    <3> QED
      BY <3>2, <3>3 DEF Moved
  <2>2. CASE v4' = [v4 EXCEPT !.active = 0]
             /\ \E status \in {"completed", "failed"} :
                  v3' = Benchmark!Told(Benchmark!Event("done", v4.active, status))
    <3>1. PICK status \in {"completed", "failed"} : v3' = Append(v3, Benchmark!Event("done", v4.active, status))
      BY <2>2 DEF Benchmark!Told
    <3> DEFINE e == Benchmark!Event("done", v4.active, status)
    <3>2. v3' = Append(v3, e) /\ v4'.active = 0 /\ v4'.begun = v4.begun /\ v4.active # 0
      BY <1>5, <2>2, <3>1 DEF Benchmark!ServerSpeaks
    <3>3. /\ e \in Benchmark!EventSet /\ e.kind = "done" /\ e.r = v4.active
          /\ Benchmark!Closing(e) /\ Benchmark!OfResponse(e)
      BY DEF Benchmark!Event, Benchmark!EventSet, Benchmark!Closing, Benchmark!OfResponse
    <3> HIDE DEF e
    <3>4. Came(e)
      BY <3>2, <3>3 DEF Came
    <3> QED
      BY <3>3, <3>4 DEF Moved
  <2> QED
    BY <1>5, <2>1, <2>2 DEF Benchmark!ServerSpeaks
<1>6. CASE Benchmark!ServerErrs
  <2>1. PICK kind \in {"error", "failed"} : v3' = Append(v3, Benchmark!Event(kind, 0, ""))
    BY <1>6 DEF Benchmark!ServerErrs, Benchmark!Told
  <2>2. Came(Benchmark!Event(kind, 0, ""))
    BY <1>6, <2>1, EventTypes DEF Came, Benchmark!ServerErrs
  <2> QED
    BY <2>2, EventTypes DEF Moved
<1> QED
  BY <1>3, <1>4, <1>5, <1>6

\* What is said of a response stays true when the server moves.
LEMMA MovedKeeps ==
  ASSUME Benchmark!TypeOK, Moved, NEW r \in Nat \ {0}, NEW n \in Nat \ {0}, n <= Len(v3) + 1
  PROVE  /\ Benchmark!OpenFrom(r, n) => Benchmark!OpenFrom(r, n)'
         /\ Benchmark!Over(r) => Benchmark!Over(r)'
         /\ Benchmark!EndsNext(r, n) => Benchmark!EndsNext(r, n)'
<1>1. /\ v3 \in Seq(Benchmark!EventSet) /\ v4 \in ServerState /\ Len(v3) \in Nat /\ DOMAIN v3 = 1..Len(v3)
      /\ \A i \in 1..Len(v3) : v3[i] \in Benchmark!EventSet /\ v3[i].r \in Nat
  BY ChannelTypes
<1> DEFINE L == Len(v3)
<1>2. CASE Stood
  BY <1>2 DEF Stood, Benchmark!OpenFrom, Benchmark!Over, Benchmark!EndsNext, Benchmark!Done
<1>3. CASE ResponseBegun
  <2>1. /\ v3' = v3 /\ v4.active = 0 /\ v4'.active = v4.begun + 1 /\ v4'.begun = v4.begun + 1
        /\ v4.begun \in Nat
    BY <1>1, <1>3 DEF ResponseBegun, ServerState
  <2>2. Benchmark!OpenFrom(r, n) => Benchmark!OpenFrom(r, n)'
    BY <2>1 DEF Benchmark!OpenFrom
  <2>3. Benchmark!Over(r) => Benchmark!Over(r)'
    BY <2>1 DEF Benchmark!Over
  <2>4. Benchmark!EndsNext(r, n) => Benchmark!EndsNext(r, n)'
    BY <2>1 DEF Benchmark!EndsNext, Benchmark!Done
  <2> QED
    BY <2>2, <2>3, <2>4
<1>4. ASSUME NEW e \in Benchmark!EventSet, Came(e)
      PROVE  /\ Benchmark!OpenFrom(r, n) => Benchmark!OpenFrom(r, n)'
             /\ Benchmark!Over(r) => Benchmark!Over(r)'
             /\ Benchmark!EndsNext(r, n) => Benchmark!EndsNext(r, n)'
  <2>1. /\ DOMAIN v3' = 1..(L + 1) /\ v3'[L + 1] = e
        /\ \A i \in 1..L : v3'[i] = v3[i]
    BY <1>1, <1>4 DEF Came
  <2>2. /\ v4'.begun = v4.begun /\ v4'.active = IF Benchmark!Closing(e) THEN 0 ELSE v4.active
        /\ Benchmark!OfResponse(e) => e.r = v4.active /\ v4.active # 0
        /\ e.kind # "done" /\ Benchmark!Closing(e) => v4.active = 0
        /\ v4.active \in Nat /\ v4.begun \in Nat /\ e.r \in Nat /\ L \in Nat
        /\ e.kind = "done" => Benchmark!Closing(e)
        /\ e.kind = "done" => Benchmark!OfResponse(e)
    BY <1>1, <1>4 DEF Came, ServerState, Benchmark!EventSet, Benchmark!Closing, Benchmark!OfResponse
  <2> HIDE DEF L
  <2>3. ASSUME Benchmark!OpenFrom(r, n) PROVE Benchmark!OpenFrom(r, n)'
    <3>1. r <= v4'.begun /\ (v4'.active # 0 => r <= v4'.active)
      BY <2>2, <2>3 DEF Benchmark!OpenFrom
    <3>2. ASSUME NEW j \in 1..(L + 1), j >= n, Benchmark!OfResponse(v3'[j]) PROVE r <= v3'[j].r
      <4>1. CASE j \in 1..L
        BY <1>1, <2>1, <2>3, <3>2, <4>1 DEF Benchmark!OpenFrom, L
      <4>2. CASE j = L + 1
        <5>1. e.r = v4.active /\ v4.active # 0 /\ r <= v4.active
          BY <2>1, <2>2, <2>3, <3>2, <4>2 DEF Benchmark!OpenFrom
        <5> QED
          BY <2>1, <4>2, <5>1
      <4> QED
        BY <2>2, <4>1, <4>2
    <3>3. ASSUME NEW k \in 1..(L + 1), k >= n, Benchmark!Closing(v3'[k]) PROVE r # v4'.active
      BY <1>1, <2>1, <2>2, <2>3, <3>3 DEF Benchmark!OpenFrom, L
    <3>4. ASSUME NEW k \in 1..(L + 1), k >= n, Benchmark!Closing(v3'[k]),
                 NEW j \in 1..(L + 1), j > k, Benchmark!OfResponse(v3'[j])
          PROVE  r < v3'[j].r
      <4>1. k \in 1..L /\ Benchmark!Closing(v3[k])
        BY <2>1, <2>2, <3>4
      <4>2. CASE j \in 1..L
        BY <1>1, <2>1, <2>3, <3>4, <4>1, <4>2 DEF Benchmark!OpenFrom, L
      <4>3. CASE j = L + 1
        <5>1. r # v4.active /\ r <= v4.active /\ v3'[j].r = v4.active
          BY <1>1, <2>1, <2>2, <2>3, <3>4, <4>1, <4>3 DEF Benchmark!OpenFrom, L
        <5> QED
          BY <2>2, <5>1
      <4> QED
        BY <2>2, <4>2, <4>3
    <3> QED
      BY <2>1, <3>1, <3>2, <3>3, <3>4 DEF Benchmark!OpenFrom
  <2>4. ASSUME Benchmark!Over(r) PROVE Benchmark!Over(r)'
    BY <1>1, <2>1, <2>2, <2>4 DEF Benchmark!Over, L
  <2>5. ASSUME Benchmark!EndsNext(r, n) PROVE Benchmark!EndsNext(r, n)'
    <3>1. ASSUME NEW k \in 1..(L + 1), k >= n, v3'[k].kind = "done",
                 \A m \in 1..(L + 1) : m >= n /\ m < k => v3'[m].kind # "done"
          PROVE  v3'[k].r = r
      <4>1. CASE k \in 1..L
        BY <1>1, <2>1, <2>2, <2>5, <3>1, <4>1 DEF Benchmark!EndsNext, Benchmark!Done, L
      <4>2. CASE k = L + 1
        <5>1. \A m \in 1..L : m >= n => v3[m].kind # "done"
          BY <2>1, <2>2, <3>1, <4>2
        <5> QED
          BY <1>1, <2>1, <2>2, <2>5, <3>1, <4>2, <5>1 DEF Benchmark!EndsNext, Benchmark!Done, L
      <4> QED
        BY <2>2, <4>1, <4>2
    <3>2. ASSUME \A k \in 1..(L + 1) : k >= n => v3'[k].kind # "done" PROVE v4'.active = r
      <4>1. L + 1 \in 1..(L + 1) /\ L + 1 >= n
        BY <2>2 DEF L
      <4>2. e.kind # "done" /\ \A k \in 1..L : k >= n => v3[k].kind # "done"
        BY <2>1, <2>2, <3>2, <4>1
      <4>3. v4.active = r
        BY <1>1, <2>5, <4>2 DEF Benchmark!EndsNext, Benchmark!Done, L
      <4> QED
        BY <2>2, <4>2, <4>3
    <3> QED
      BY <2>1, <3>1, <3>2 DEF Benchmark!EndsNext, Benchmark!Done
  <2> QED
    BY <2>3, <2>4, <2>5
<1> QED
  BY <1>2, <1>3, <1>4 DEF Moved

\* The client takes the event at the head: what is said of a response moves up
\* with the channel, and an end closes what was heard of it.
Taken(e) ==
  v3 # <<>> /\ e = v3[1] /\ e \in Benchmark!EventSet /\ v3' = Tail(v3)
  /\ v4'.active = v4.active /\ v4'.begun = v4.begun

LEMMA TakenTypes ==
  ASSUME Benchmark!TypeOK, NEW e, Taken(e)
  PROVE  /\ Len(v3) \in Nat /\ Len(v3) >= 1 /\ DOMAIN v3 = 1..Len(v3) /\ DOMAIN v3' = 1..(Len(v3) - 1)
         /\ v4 \in ServerState /\ e.r \in Nat /\ e = v3[1]
         /\ \A i \in 1..(Len(v3) - 1) : v3'[i] = v3[i + 1]
         /\ \A i \in 1..Len(v3) : v3[i].r \in Nat
         /\ e.kind = "done" => Benchmark!Closing(e) /\ Benchmark!OfResponse(e)
         /\ e.kind = "delta" => Benchmark!OfResponse(e)
<1>1. /\ v3 \in Seq(Benchmark!EventSet) /\ v4 \in ServerState /\ Len(v3) \in Nat /\ DOMAIN v3 = 1..Len(v3)
      /\ \A i \in 1..Len(v3) : v3[i].r \in Nat
  BY ChannelTypes
<1>2. v3 # <<>> /\ v3' = Tail(v3)
  BY DEF Taken
<1>3. Len(v3) >= 1
  BY <1>1, <1>2
<1>4. DOMAIN v3' = 1..(Len(v3) - 1) /\ \A i \in 1..(Len(v3) - 1) : v3'[i] = v3[i + 1]
  BY <1>1, <1>2, HeadTailProperties
<1>5. e = v3[1] /\ e \in Benchmark!EventSet
  BY DEF Taken
<1>6. e.r \in Nat
  BY <1>5 DEF Benchmark!EventSet
<1> QED
  BY <1>1, <1>3, <1>4, <1>5, <1>6 DEF Benchmark!Closing, Benchmark!OfResponse

LEMMA TakenKeeps ==
  ASSUME Benchmark!TypeOK, NEW e, Taken(e), NEW r \in Nat \ {0}, NEW n \in Nat \ {0}
  PROVE  /\ Benchmark!OpenFrom(r, n + 1) => Benchmark!OpenFrom(r, n)'
         /\ Benchmark!OpenFrom(r, 1) => Benchmark!OpenFrom(r, 1)'
         /\ Benchmark!OpenFrom(r, 1) /\ Benchmark!Closing(e) => Benchmark!Over(r)'
         /\ Benchmark!Over(r) => Benchmark!Over(r)'
         /\ Benchmark!Over(r) /\ Benchmark!OfResponse(e) => r < e.r
         /\ Benchmark!EndsNext(r, n + 1) => Benchmark!EndsNext(r, n)'
         /\ Benchmark!EndsNext(r, 1) /\ e.kind # "done" => Benchmark!EndsNext(r, 1)'
         /\ Benchmark!EndsNext(r, 1) /\ e.kind = "done" => e.r = r
<1> DEFINE L == Len(v3)
<1>1. /\ L \in Nat /\ L >= 1 /\ DOMAIN v3 = 1..L /\ DOMAIN v3' = 1..(L - 1)
      /\ \A i \in 1..(L - 1) : v3'[i] = v3[i + 1]
      /\ \A i \in 1..L : v3[i].r \in Nat
      /\ v4.active \in Nat /\ v4.begun \in Nat /\ e = v3[1] /\ v4'.active = v4.active /\ v4'.begun = v4.begun
  BY TakenTypes DEF Taken, ServerState
<1> HIDE DEF L
<1>2. ASSUME NEW m \in Nat \ {0}, Benchmark!OpenFrom(r, m), NEW k \in Nat \ {0}, m <= k + 1
      PROVE  Benchmark!OpenFrom(r, k)'
  <2>1. r <= v4'.begun /\ (v4'.active # 0 => r <= v4'.active)
    BY <1>1, <1>2 DEF Benchmark!OpenFrom
  <2>2. ASSUME NEW j \in 1..(L - 1), j >= k, Benchmark!OfResponse(v3'[j]) PROVE r <= v3'[j].r
    <3>1. j + 1 \in 1..L /\ j + 1 >= m /\ v3'[j] = v3[j + 1]
      BY <1>1, <1>2, <2>2
    <3> QED
      BY <1>1, <1>2, <2>2, <3>1 DEF Benchmark!OpenFrom
  <2>3. ASSUME NEW i \in 1..(L - 1), i >= k, Benchmark!Closing(v3'[i])
        PROVE  r # v4'.active /\ \A j \in 1..(L - 1) : j > i /\ Benchmark!OfResponse(v3'[j]) => r < v3'[j].r
    <3>1. i + 1 \in 1..L /\ i + 1 >= m /\ Benchmark!Closing(v3[i + 1])
      BY <1>1, <1>2, <2>3
    <3>2. \A j \in 1..(L - 1) : j + 1 \in 1..L /\ v3'[j] = v3[j + 1] /\ (j > i => j + 1 > i + 1)
      BY <1>1
    <3> QED
      BY <1>1, <1>2, <3>1, <3>2 DEF Benchmark!OpenFrom
  <2> QED
    BY <1>1, <2>1, <2>2, <2>3 DEF Benchmark!OpenFrom
<1>3. ASSUME Benchmark!OpenFrom(r, 1), Benchmark!Closing(e) PROVE Benchmark!Over(r)'
  <2>1. r # v4.active /\ \A j \in 1..L : j > 1 /\ Benchmark!OfResponse(v3[j]) => r < v3[j].r
    <3>1. 1 \in 1..L /\ Benchmark!Closing(v3[1])
      BY <1>1, <1>3
    <3>2. \A k \in 1..L : k >= 1 /\ Benchmark!Closing(v3[k]) =>
            r # v4.active /\ \A j \in 1..L : j > k /\ Benchmark!OfResponse(v3[j]) => r < v3[j].r
      BY <1>1, <1>3 DEF Benchmark!OpenFrom
    <3>3. 1 >= 1
      OBVIOUS
    <3> QED
      BY <3>1, <3>2, <3>3
  <2>2. r <= v4.begun /\ (v4.active # 0 => r <= v4.active)
    BY <1>3 DEF Benchmark!OpenFrom
  <2>3. \A j \in 1..(L - 1) : j + 1 \in 1..L /\ v3'[j] = v3[j + 1] /\ j + 1 > 1
    BY <1>1
  <2> QED
    BY <1>1, <2>1, <2>2, <2>3 DEF Benchmark!Over
<1>4. ASSUME Benchmark!Over(r) PROVE Benchmark!Over(r)' /\ (Benchmark!OfResponse(e) => r < e.r)
  <2>1. \A j \in 1..(L - 1) : j + 1 \in 1..L /\ v3'[j] = v3[j + 1]
    BY <1>1
  <2>2. 1 \in 1..L
    BY <1>1
  <2> QED
    BY <1>1, <1>4, <2>1, <2>2 DEF Benchmark!Over
<1>5. ASSUME NEW m \in Nat \ {0}, Benchmark!EndsNext(r, m), NEW k \in Nat \ {0},
             m = k + 1 \/ (m = 1 /\ k = 1 /\ e.kind # "done")
      PROVE  Benchmark!EndsNext(r, k)'
  <2>1. ASSUME NEW i \in 1..(L - 1), i >= k, v3'[i].kind = "done",
               \A j \in 1..(L - 1) : j >= k /\ j < i => v3'[j].kind # "done"
        PROVE  v3'[i].r = r
    <3>1. i + 1 \in 1..L /\ i + 1 >= m /\ v3[i + 1].kind = "done"
      BY <1>1, <1>5, <2>1
    <3>2. ASSUME NEW j \in 1..L, j >= m, j < i + 1 PROVE v3[j].kind # "done"
      <4>1. CASE j = 1
        BY <1>1, <1>5, <3>2, <4>1
      <4>2. CASE j # 1
        <5>1. j - 1 \in 1..(L - 1) /\ j - 1 >= k /\ j - 1 < i /\ (j - 1) + 1 = j
          BY <1>1, <1>5, <2>1, <3>2, <4>2
        <5> QED
          BY <1>1, <2>1, <5>1
      <4> QED
        BY <4>1, <4>2
    <3> QED
      BY <1>1, <1>5, <2>1, <3>1, <3>2 DEF Benchmark!EndsNext, Benchmark!Done
  <2>2. ASSUME \A i \in 1..(L - 1) : i >= k => v3'[i].kind # "done" PROVE v4'.active = r
    <3>1. ASSUME NEW j \in 1..L, j >= m PROVE v3[j].kind # "done"
      <4>1. CASE j = 1
        BY <1>1, <1>5, <3>1, <4>1
      <4>2. CASE j # 1
        <5>1. j - 1 \in 1..(L - 1) /\ j - 1 >= k /\ (j - 1) + 1 = j
          BY <1>1, <1>5, <3>1, <4>2
        <5> QED
          BY <1>1, <2>2, <5>1
      <4> QED
        BY <4>1, <4>2
    <3> QED
      BY <1>1, <1>5, <3>1 DEF Benchmark!EndsNext, Benchmark!Done
  <2> QED
    BY <1>1, <2>1, <2>2 DEF Benchmark!EndsNext, Benchmark!Done
<1>6. ASSUME Benchmark!EndsNext(r, 1), e.kind = "done" PROVE e.r = r
  <2>1. 1 \in 1..L /\ v3[1].kind = "done" /\ \A m \in 1..L : ~(m >= 1 /\ m < 1)
    BY <1>1, <1>6
  <2> QED
    BY <1>1, <1>6, <2>1 DEF Benchmark!EndsNext, Benchmark!Done
<1>7. n + 1 \in Nat \ {0} /\ n + 1 <= n + 1 /\ 1 \in Nat \ {0} /\ 1 <= 1 + 1
  OBVIOUS
<1> QED
  BY <1>2, <1>3, <1>4, <1>5, <1>6, <1>7

LEMMA MovedInOrder ==
  ASSUME Benchmark!TypeOK, Benchmark!InOrder, Moved PROVE Benchmark!InOrder'
<1>1. /\ v3 \in Seq(Benchmark!EventSet) /\ v4 \in ServerState /\ Len(v3) \in Nat /\ DOMAIN v3 = 1..Len(v3)
      /\ \A i \in 1..Len(v3) : v3[i] \in Benchmark!EventSet /\ v3[i].r \in Nat
  BY ChannelTypes
<1> DEFINE L == Len(v3)
<1>2. \A i \in 1..L : Benchmark!OfResponse(v3[i]) =>
        /\ v3[i].r \in Nat \ {0} /\ Benchmark!OpenFrom(v3[i].r, i)
        /\ v3[i].kind = "delta" => Benchmark!EndsNext(v3[i].r, i + 1)
  BY <1>1 DEF Benchmark!InOrder
<1>3. ASSUME NEW i \in 1..L, NEW r, r = v3[i].r, Benchmark!OfResponse(v3[i])
      PROVE  /\ r \in Nat \ {0} /\ Benchmark!OpenFrom(r, i)'
             /\ v3[i].kind = "delta" => Benchmark!EndsNext(r, i + 1)'
  <2>1. r \in Nat \ {0} /\ i \in Nat \ {0} /\ i + 1 \in Nat \ {0} /\ i <= Len(v3) + 1 /\ i + 1 <= Len(v3) + 1
    BY <1>1, <1>2, <1>3
  <2> QED
    BY <1>2, <1>3, <2>1, MovedKeeps
<1> HIDE DEF L
<1>4. CASE v3' = v3 /\ v4'.active \in {0, v4'.begun}
  <2>1. DOMAIN v3' = 1..L
    BY <1>1, <1>4 DEF L
  <2>2. ASSUME NEW i \in 1..L, Benchmark!OfResponse(v3'[i])
        PROVE  /\ v3'[i].r # 0 /\ Benchmark!OpenFrom(v3[i].r, i)'
               /\ v3'[i].kind = "delta" => Benchmark!EndsNext(v3[i].r, i + 1)'
    <3>1. PICK r : r = v3[i].r
      OBVIOUS
    <3>2. /\ r \in Nat \ {0} /\ Benchmark!OpenFrom(r, i)'
          /\ v3[i].kind = "delta" => Benchmark!EndsNext(r, i + 1)'
      BY <1>3, <1>4, <2>2, <3>1
    <3>3. r = v3'[i].r
      BY <1>4, <3>1
    <3> QED
      BY <1>4, <3>2, <3>3 DEF Benchmark!OpenFrom, Benchmark!EndsNext
  <2> QED
    BY <1>4, <2>1, <2>2 DEF Benchmark!InOrder
<1>5. ASSUME NEW e \in Benchmark!EventSet, Came(e) PROVE Benchmark!InOrder'
  <2>1. /\ DOMAIN v3' = 1..(L + 1) /\ v3'[L + 1] = e /\ L \in Nat
        /\ \A i \in 1..L : v3'[i] = v3[i]
    BY <1>1, <1>5 DEF Came, L
  <2>2. /\ v4'.begun = v4.begun /\ v4'.active = IF Benchmark!Closing(e) THEN 0 ELSE v4.active
        /\ Benchmark!OfResponse(e) => e.r = v4.active /\ v4.active # 0
        /\ v4.active \in Nat /\ v4.begun \in Nat /\ v4.active \in {0, v4.begun}
    BY <1>1, <1>5 DEF Came, ServerState, Benchmark!InOrder
  <2>3. ASSUME NEW i \in 1..(L + 1), Benchmark!OfResponse(v3'[i])
        PROVE  /\ v3'[i].r # 0 /\ Benchmark!OpenFrom(v3[i].r, i)'
               /\ v3'[i].kind = "delta" => Benchmark!EndsNext(v3[i].r, i + 1)'
    <3>1. PICK r : r = v3'[i].r
      OBVIOUS
    <3>2. CASE i \in 1..L
      <4>1. v3'[i] = v3[i]
        BY <2>1, <3>2
      <4>2. /\ r \in Nat \ {0} /\ Benchmark!OpenFrom(r, i)'
            /\ v3[i].kind = "delta" => Benchmark!EndsNext(r, i + 1)'
        BY <1>3, <2>3, <3>1, <3>2, <4>1
      <4> QED
        BY <3>1, <4>1, <4>2 DEF Benchmark!OpenFrom, Benchmark!EndsNext
    <3>3. CASE i = L + 1
      <4>1. r = v4.active /\ r # 0 /\ r = v4.begun /\ v3'[i] = e
        BY <2>1, <2>2, <2>3, <3>1, <3>3
      <4>2. Benchmark!OpenFrom(r, i)'
        <5>1. \A j \in 1..(L + 1) : j >= i => j = L + 1 /\ v3'[j].r = r
          BY <2>1, <3>1, <3>3
        <5>2. \A j, k \in 1..(L + 1) : k >= i => ~(j > k)
          BY <2>1, <3>3
        <5>3. \A k \in 1..(L + 1) : k >= i /\ Benchmark!Closing(v3'[k]) => r # v4'.active
          BY <2>2, <4>1, <5>1, <2>1
        <5>4. r <= v4'.begun /\ (v4'.active # 0 => r <= v4'.active)
          BY <2>2, <4>1
        <5> QED
          BY <2>1, <2>2, <4>1, <5>1, <5>2, <5>3, <5>4 DEF Benchmark!OpenFrom
      <4>3. v3'[i].kind = "delta" => Benchmark!EndsNext(r, i + 1)'
        <5>1. \A k \in 1..(L + 1) : ~(k >= i + 1)
          BY <2>1, <3>3
        <5>2. v3'[i].kind = "delta" => v4'.active = r
          <6>1. e.kind = "delta" /\ Benchmark!Closing(e) => v4.active = 0
            BY <1>5 DEF Came
          <6> QED
            BY <2>2, <4>1, <6>1
        <5> QED
          BY <2>1, <5>1, <5>2 DEF Benchmark!EndsNext
      <4> QED
        BY <3>1, <4>1, <4>2, <4>3 DEF Benchmark!OpenFrom, Benchmark!EndsNext
    <3> QED
      BY <2>1, <3>2, <3>3
  <2> QED
    BY <2>1, <2>2, <2>3 DEF Benchmark!InOrder
<1>6. v4.active \in {0, v4.begun} /\ v4.active \in Nat /\ v4.begun \in Nat
  BY <1>1 DEF Benchmark!InOrder, ServerState
<1>7. CASE ResponseBegun
  BY <1>4, <1>7 DEF ResponseBegun
<1>8. CASE Stood
  BY <1>4, <1>6, <1>8 DEF Stood
<1> QED
  BY <1>5, <1>7, <1>8 DEF Moved

LEMMA TakenInOrder ==
  ASSUME Benchmark!TypeOK, Benchmark!InOrder, NEW e, Taken(e)
  PROVE  /\ Benchmark!InOrder'
         /\ Benchmark!OfResponse(e) => e.r \in Nat \ {0} /\ Benchmark!OpenFrom(e.r, 1)'
         /\ e.kind = "delta" => Benchmark!EndsNext(e.r, 1)'
         /\ e.kind = "done" => Benchmark!Over(e.r)'
<1>1. /\ Len(v3) \in Nat /\ Len(v3) >= 1 /\ DOMAIN v3 = 1..Len(v3) /\ DOMAIN v3' = 1..(Len(v3) - 1)
      /\ v4 \in ServerState /\ e.r \in Nat /\ e = v3[1]
      /\ \A i \in 1..(Len(v3) - 1) : v3'[i] = v3[i + 1]
      /\ \A i \in 1..Len(v3) : v3[i].r \in Nat
      /\ e.kind = "done" => Benchmark!Closing(e) /\ Benchmark!OfResponse(e)
      /\ e.kind = "delta" => Benchmark!OfResponse(e)
  BY TakenTypes
<1>2. \A i \in 1..Len(v3) : Benchmark!OfResponse(v3[i]) =>
        /\ v3[i].r \in Nat \ {0} /\ Benchmark!OpenFrom(v3[i].r, i)
        /\ v3[i].kind = "delta" => Benchmark!EndsNext(v3[i].r, i + 1)
  BY <1>1 DEF Benchmark!InOrder
<1>3. v4' .active = v4.active /\ v4'.begun = v4.begun /\ v4.active \in {0, v4.begun}
  BY DEF Taken, Benchmark!InOrder
<1>4. ASSUME NEW i \in 1..(Len(v3) - 1), Benchmark!OfResponse(v3'[i])
      PROVE  /\ v3'[i].r # 0 /\ Benchmark!OpenFrom(v3[i].r, i)'
             /\ v3'[i].kind = "delta" => Benchmark!EndsNext(v3[i].r, i + 1)'
  <2>1. PICK r : r = v3'[i].r
    OBVIOUS
  <2>2. i + 1 \in 1..Len(v3) /\ v3'[i] = v3[i + 1] /\ i \in Nat \ {0} /\ i + 1 \in Nat \ {0}
    BY <1>1
  <2>3. /\ r \in Nat \ {0} /\ Benchmark!OpenFrom(r, i + 1)
        /\ v3'[i].kind = "delta" => Benchmark!EndsNext(r, i + 1 + 1)
    BY <1>2, <1>4, <2>1, <2>2
  <2>4. Benchmark!OpenFrom(r, i)' /\ (v3'[i].kind = "delta" => Benchmark!EndsNext(r, i + 1)')
    BY <2>2, <2>3, TakenKeeps
  <2> QED
    BY <2>1, <2>3, <2>4 DEF Benchmark!OpenFrom, Benchmark!EndsNext
<1>5. Benchmark!InOrder'
  BY <1>1, <1>3, <1>4 DEF Benchmark!InOrder
<1>6. 1 \in 1..Len(v3) /\ 1 \in Nat \ {0}
  BY <1>1
<1>7. Benchmark!OfResponse(e) => e.r \in Nat \ {0} /\ Benchmark!OpenFrom(e.r, 1)
  BY <1>1, <1>2, <1>6
<1>8. e.kind = "delta" => Benchmark!EndsNext(e.r, 1 + 1)
  BY <1>1, <1>2, <1>6
<1>9. PICK r : r = e.r
  OBVIOUS
<1>10. Benchmark!OfResponse(e) => Benchmark!OpenFrom(r, 1)'
  BY <1>7, <1>6, <1>9, TakenKeeps
<1>11. e.kind = "delta" => Benchmark!EndsNext(r, 1)'
  BY <1>1, <1>7, <1>8, <1>6, <1>9, TakenKeeps
<1>12. e.kind = "done" => Benchmark!Over(r)'
  BY <1>1, <1>7, <1>6, <1>9, TakenKeeps
<1> QED
  BY <1>5, <1>7, <1>9, <1>10, <1>11, <1>12

\* What the client has heard and seen stays in order when the server moves, and
\* when the client takes an event.
Ordered == Benchmark!TypeOK /\ Benchmark!InOrder /\ Benchmark!HeardInOrder /\ Benchmark!EventsInOrder

LEMMA OrderedTypes ==
  ASSUME Ordered
  PROVE  /\ \A h \in v14 : h.r \in Nat \ {0} /\ h.turn \in Nat
         /\ \A m \in v15 : m.r \in Nat \ {0}
         /\ v12 \in Seq(Nat \ {0}) /\ Len(v12) \in Nat /\ DOMAIN v12 = 1..Len(v12)
         /\ v6 \in Nat /\ v13 \in Nat /\ 1 \in Nat \ {0} /\ 1 <= Len(v3) + 1
<1>1. Len(v3) \in Nat
  BY ChannelTypes DEF Ordered
<1>2. /\ v14 \subseteq [r : Nat \ {0}, turn : Nat] /\ v12 \in Seq(Nat \ {0}) /\ v6 \in Nat /\ v13 \in Nat
      /\ v15 \subseteq [r : Nat \ {0}, turn : Nat, why : Benchmark!Reasons]
  BY DEF Ordered, Benchmark!TypeOK
<1> QED
  BY <1>1, <1>2

LEMMA OrderedMoves ==
  ASSUME Ordered, Moved, NEW s, s = v12
  PROVE  /\ Benchmark!InOrder'
         /\ \A h \in v14 : /\ Benchmark!OpenFrom(h.r, 1)'
                           /\ Benchmark!Over(h.r) => Benchmark!Over(h.r)'
                           /\ Benchmark!EndsNext(h.r, 1) => Benchmark!EndsNext(h.r, 1)'
         /\ \A i \in DOMAIN s : Benchmark!Over(s[i])'
         /\ \A m \in v15 : Benchmark!Over(m.r)'
<1>1. Benchmark!InOrder'
  BY MovedInOrder DEF Ordered
<1>2. ASSUME NEW h \in v14
      PROVE  /\ Benchmark!OpenFrom(h.r, 1)'
             /\ Benchmark!Over(h.r) => Benchmark!Over(h.r)'
             /\ Benchmark!EndsNext(h.r, 1) => Benchmark!EndsNext(h.r, 1)'
  <2>1. h.r \in Nat \ {0} /\ Benchmark!OpenFrom(h.r, 1)
    BY OrderedTypes DEF Ordered, Benchmark!HeardInOrder
  <2> QED
    BY <2>1, OrderedTypes, MovedKeeps DEF Ordered
<1>3. ASSUME NEW i \in DOMAIN s PROVE Benchmark!Over(s[i])'
  <2>1. s[i] \in Nat \ {0} /\ Benchmark!Over(s[i])
    BY OrderedTypes DEF Ordered, Benchmark!EventsInOrder
  <2> QED
    BY <2>1, OrderedTypes, MovedKeeps DEF Ordered
<1>4. ASSUME NEW m \in v15 PROVE Benchmark!Over(m.r)'
  <2>1. m.r \in Nat \ {0} /\ Benchmark!Over(m.r)
    BY OrderedTypes DEF Ordered, Benchmark!EventsInOrder
  <2> QED
    BY <2>1, OrderedTypes, MovedKeeps DEF Ordered
<1> QED
  BY <1>1, <1>2, <1>3, <1>4

LEMMA OrderedTakes ==
  ASSUME Ordered, NEW e, Taken(e), NEW s, s = Benchmark!Seen(e)
  PROVE  /\ Benchmark!InOrder'
         /\ \A h \in v14 : /\ Benchmark!OpenFrom(h.r, 1)'
                           /\ Benchmark!Over(h.r) => Benchmark!Over(h.r)'
                           /\ Benchmark!Over(h.r) /\ Benchmark!OfResponse(e) => h.r < e.r
                           /\ Benchmark!Closing(e) => Benchmark!Over(h.r)'
                           /\ Benchmark!EndsNext(h.r, 1) =>
                                IF e.kind = "done" THEN e.r = h.r ELSE Benchmark!EndsNext(h.r, 1)'
         /\ s \in Seq(Nat \ {0})
         /\ \A i, j \in DOMAIN s : i < j => s[i] < s[j]
         /\ \A i \in DOMAIN s : Benchmark!Over(s[i])'
         /\ \A m \in v15 : Benchmark!Over(m.r)' /\ \A i \in DOMAIN s : m.r < s[i]
         /\ IF e.kind = "done" THEN Len(s) = Len(v12) + 1 /\ s[Len(v12) + 1] = e.r ELSE s = v12
         /\ e.kind = "delta" => /\ e.r \in Nat \ {0} /\ Benchmark!OpenFrom(e.r, 1)'
                                /\ Benchmark!EndsNext(e.r, 1)'
<1>1. /\ Benchmark!InOrder'
      /\ Benchmark!OfResponse(e) => e.r \in Nat \ {0} /\ Benchmark!OpenFrom(e.r, 1)'
      /\ e.kind = "delta" => Benchmark!EndsNext(e.r, 1)'
      /\ e.kind = "done" => Benchmark!Over(e.r)'
  BY TakenInOrder DEF Ordered
<1>2. /\ e.kind = "done" => Benchmark!Closing(e) /\ Benchmark!OfResponse(e)
      /\ e.kind = "delta" => Benchmark!OfResponse(e)
  BY TakenTypes DEF Ordered
<1>3. ASSUME NEW h \in v14
      PROVE  /\ Benchmark!OpenFrom(h.r, 1)'
             /\ Benchmark!Over(h.r) => Benchmark!Over(h.r)'
             /\ Benchmark!Over(h.r) /\ Benchmark!OfResponse(e) => h.r < e.r
             /\ Benchmark!Closing(e) => Benchmark!Over(h.r)'
             /\ Benchmark!EndsNext(h.r, 1) =>
                  IF e.kind = "done" THEN e.r = h.r ELSE Benchmark!EndsNext(h.r, 1)'
  <2>1. h.r \in Nat \ {0} /\ Benchmark!OpenFrom(h.r, 1)
    BY OrderedTypes DEF Ordered, Benchmark!HeardInOrder
  <2> QED
    BY <2>1, OrderedTypes, TakenKeeps DEF Ordered
<1>4. /\ v12 \in Seq(Nat \ {0}) /\ Len(v12) \in Nat /\ DOMAIN v12 = 1..Len(v12)
      /\ \A i, j \in DOMAIN v12 : i < j => v12[i] < v12[j]
  BY OrderedTypes DEF Ordered, Benchmark!EventsInOrder
<1>5. ASSUME NEW r \in Nat \ {0}, Benchmark!Over(r)
      PROVE  Benchmark!Over(r)' /\ (Benchmark!OfResponse(e) => r < e.r)
  BY <1>5, OrderedTypes, TakenKeeps DEF Ordered
<1>6. /\ \A i \in 1..Len(v12) : v12[i] \in Nat \ {0} /\ Benchmark!Over(v12[i])
      /\ \A m \in v15 : m.r \in Nat \ {0} /\ Benchmark!Over(m.r) /\ \A i \in 1..Len(v12) : m.r < v12[i]
  <2>1. Benchmark!EventsInOrder
    BY DEF Ordered
  <2>2. \A i \in 1..Len(v12) : v12[i] \in Nat \ {0} /\ Benchmark!Over(v12[i])
    BY <1>4, <2>1 DEF Benchmark!EventsInOrder
  <2>3. \A m \in v15 : m.r \in Nat \ {0}
    BY OrderedTypes
  <2>4. \A m \in v15 : Benchmark!Over(m.r) /\ \A i \in 1..Len(v12) : m.r < v12[i]
    BY <1>4, <2>1 DEF Benchmark!EventsInOrder
  <2> QED
    BY <2>2, <2>3, <2>4
<1>7. \A m \in v15 : Benchmark!Over(m.r)' /\ (Benchmark!OfResponse(e) => m.r < e.r)
  BY <1>5, <1>6
<1>8. CASE e.kind # "done"
  <2>1. s = v12
    BY <1>8 DEF Benchmark!Seen
  <2>2. ASSUME NEW i \in DOMAIN s PROVE Benchmark!Over(s[i])'
    BY <1>4, <1>5, <1>6, <2>1
  <2> QED
    BY <1>1, <1>2, <1>3, <1>4, <1>6, <1>7, <1>8, <2>1, <2>2
<1>9. CASE e.kind = "done"
  <2>1. s = Append(v12, e.r) /\ e.r \in Nat \ {0}
    BY <1>1, <1>2, <1>9 DEF Benchmark!Seen
  <2>2. /\ s \in Seq(Nat \ {0}) /\ DOMAIN s = 1..(Len(v12) + 1) /\ Len(s) = Len(v12) + 1
        /\ s[Len(v12) + 1] = e.r /\ \A i \in 1..Len(v12) : s[i] = v12[i]
    BY <1>4, <2>1
  <2>3. ASSUME NEW i \in 1..Len(v12) PROVE Benchmark!Over(s[i])' /\ s[i] < e.r
    <3>1. s[i] \in Nat \ {0} /\ Benchmark!Over(s[i])
      <4>1. PICK r : r = v12[i]
        OBVIOUS
      <4>2. r \in Nat \ {0} /\ Benchmark!Over(r) /\ s[i] = r
        BY <1>6, <2>2, <4>1
      <4> QED
        BY <4>2
    <3> QED
      BY <1>2, <1>5, <1>9, <3>1
  <2>4. ASSUME NEW i \in DOMAIN s PROVE Benchmark!Over(s[i])'
    <3>1. CASE i \in 1..Len(v12)
      BY <2>3, <3>1
    <3>2. CASE i = Len(v12) + 1
      <4>1. s[i] = e.r
        BY <2>2, <3>2
      <4> QED
        BY <1>1, <1>9, <4>1
    <3> QED
      BY <1>4, <2>2, <3>1, <3>2
  <2>5. ASSUME NEW i \in DOMAIN s, NEW j \in DOMAIN s, i < j PROVE s[i] < s[j]
    <3>1. i \in 1..Len(v12)
      BY <1>4, <2>2, <2>5
    <3>2. CASE j \in 1..Len(v12)
      BY <1>4, <2>2, <2>5, <3>1, <3>2
    <3>3. CASE j = Len(v12) + 1
      BY <2>2, <2>3, <3>1, <3>3
    <3> QED
      BY <1>4, <2>2, <3>2, <3>3
  <2>6. \A m \in v15 : \A i \in DOMAIN s : m.r < s[i]
    <3> SUFFICES ASSUME NEW m \in v15, NEW i \in DOMAIN s PROVE m.r < s[i]
      OBVIOUS
    <3>1. CASE i \in 1..Len(v12)
      BY <1>6, <2>2, <3>1
    <3>2. CASE i = Len(v12) + 1
      BY <1>2, <1>7, <1>9, <2>2, <3>2
    <3> QED
      BY <1>4, <2>2, <3>1, <3>2
  <2> QED
    BY <1>1, <1>2, <1>3, <1>7, <1>9, <2>2, <2>4, <2>5, <2>6
<1> QED
  BY <1>8, <1>9

\* A turn is recorded: its metadata is of the first response that ended in it.
MeteredApart ==
  /\ v1 = "realtime" => \A g, h \in v14 : g.r = h.r => g.turn = h.turn
  /\ \A m \in v15 : m.why = "ended" => [r |-> m.r, turn |-> m.turn] \in v14
  /\ \A m, n \in v15 : m.r = n.r => m.turn = n.turn

LEMMA RecordedInOrder ==
  ASSUME Ordered, MeteredApart, NEW s \in Seq(Nat \ {0}), Benchmark!RecordTurnObservation(s),
         \A i, j \in DOMAIN s : i < j => s[i] < s[j],
         \A i \in DOMAIN s : Benchmark!Over(s[i])',
         \A m \in v15 : Benchmark!Over(m.r)' /\ \A i \in DOMAIN s : m.r < s[i],
         v6 > 0 /\ v9 = "ended" /\ Len(s) > v13 => [r |-> s[v13 + 1], turn |-> v6] \in v14,
         v5' = "loop", UNCHANGED <<v1, v6, v14>>
  PROVE  Benchmark!EventsInOrder' /\ MeteredApart'
<1>1. /\ v12' = IF v6 = 0 THEN s ELSE <<>>
      /\ v15' = IF v6 > 0 /\ Len(s) > v13 THEN v15 \cup {[r |-> s[v13 + 1], turn |-> v6, why |-> v9]} ELSE v15
  BY DEF Benchmark!RecordTurnObservation
<1>2. v6 \in Nat /\ v13 \in Nat /\ Len(s) \in Nat /\ DOMAIN s = 1..Len(s) /\ \A m \in v15 : m.r \in Nat
  BY OrderedTypes
<1>3. CASE v6 = 0
  <2>1. v12' = s /\ v15' = v15
    BY <1>1, <1>3
  <2> QED
    BY <1>3, <2>1 DEF Benchmark!EventsInOrder, MeteredApart
<1>4. CASE v6 # 0 /\ ~(Len(s) > v13)
  <2>1. v12' = <<>> /\ v15' = v15
    BY <1>1, <1>4
  <2> QED
    BY <2>1 DEF Benchmark!EventsInOrder, MeteredApart
<1>5. CASE v6 # 0 /\ Len(s) > v13
  <2> DEFINE new == [r |-> s[v13 + 1], turn |-> v6, why |-> v9]
  <2>1. v12' = <<>> /\ v15' = v15 \cup {new} /\ v13 + 1 \in DOMAIN s
    BY <1>1, <1>2, <1>5
  <2>2. PICK r : r = s[v13 + 1]
    OBVIOUS
  <2>3. new.r = r /\ new.turn = v6 /\ new.why = v9 /\ Benchmark!Over(r)' /\ r \in Nat
    BY <1>2, <2>1, <2>2
  <2>4. \A m \in v15 : m.r < r /\ Benchmark!Over(m.r)'
    BY <2>1, <2>2
  <2>5. v9 = "ended" => [r |-> r, turn |-> v6] \in v14
    BY <1>2, <1>5, <2>2
  <2> HIDE DEF new
  <2>6. \A m \in v15' : Benchmark!Over(m.r)'
    BY <2>1, <2>3, <2>4
  <2>7. Benchmark!EventsInOrder'
    BY <2>1, <2>6 DEF Benchmark!EventsInOrder
  <2>8. MeteredApart'
    BY <1>2, <2>1, <2>3, <2>4, <2>5 DEF MeteredApart
  <2> QED
    BY <2>7, <2>8
<1> QED
  BY <1>3, <1>4, <1>5

\* The actions, for a Realtime client.
Steady == Ordered /\ MeteredApart /\ v1 = "realtime"
Steadier == Benchmark!InOrder' /\ Benchmark!HeardInOrder' /\ Benchmark!EventsInOrder' /\ MeteredApart'

LEMMA ServerSteady ==
  ASSUME Steady, Moved, UNCHANGED <<v1, v5, v6, v9, v12, v13, v14, v15>> PROVE Steadier
<1>1. PICK s : s = v12
  OBVIOUS
<1>2. /\ Benchmark!InOrder'
      /\ \A h \in v14 : /\ Benchmark!OpenFrom(h.r, 1)'
                        /\ Benchmark!Over(h.r) => Benchmark!Over(h.r)'
                        /\ Benchmark!EndsNext(h.r, 1) => Benchmark!EndsNext(h.r, 1)'
      /\ \A i \in DOMAIN s : Benchmark!Over(s[i])'
      /\ \A m \in v15 : Benchmark!Over(m.r)'
  BY <1>1, OrderedMoves DEF Steady
<1>3. Benchmark!HeardInOrder'
  BY <1>2 DEF Steady, Ordered, Benchmark!HeardInOrder
<1>4. \A i \in DOMAIN v12' : Benchmark!Over(v12[i])'
  BY <1>1, <1>2 DEF Benchmark!Over
<1>5. Benchmark!EventsInOrder'
  BY <1>2, <1>4 DEF Steady, Ordered, Benchmark!EventsInOrder
<1>6. MeteredApart'
  BY DEF Steady, MeteredApart
<1> QED
  BY <1>2, <1>3, <1>5, <1>6 DEF Steadier

\* The client closes the websocket: what is left of the order is that nothing
\* of a response comes any more.
LEMMA ClosedSteady ==
  ASSUME Steady, Benchmark!Inv, Benchmark!ContinuousAudioLoopEnds \/ Benchmark!SessionBreaks
  PROVE  Steadier
<1>1. /\ v3' = <<>> /\ v5' = "over"
      /\ UNCHANGED <<v1, v4, v6, v9, v12, v13, v14, v15>>
  BY DEF Benchmark!ContinuousAudioLoopEnds, Benchmark!SessionBreaks, Benchmark!Ends, Benchmark!Disconnected
<1>2. DOMAIN v3' = {}
  BY <1>1
<1>3. /\ Benchmark!InOrder /\ Benchmark!HeardInOrder /\ Benchmark!EventsInOrder
  BY DEF Steady, Ordered
<1>4. Benchmark!InOrder'
  BY <1>1, <1>2, <1>3 DEF Benchmark!InOrder
<1>5. ASSUME NEW r PROVE /\ Benchmark!OpenFrom(r, 1) => Benchmark!OpenFrom(r, 1)'
                         /\ Benchmark!Over(r) => Benchmark!Over(r)'
  BY <1>1, <1>2 DEF Benchmark!OpenFrom, Benchmark!Over
<1>6. Benchmark!HeardInOrder'
  BY <1>1, <1>3, <1>5 DEF Benchmark!HeardInOrder
<1>7. Benchmark!EventsInOrder'
  BY <1>1, <1>3, <1>5 DEF Benchmark!EventsInOrder
<1>8. MeteredApart'
  BY <1>1 DEF Steady, MeteredApart
<1> QED
  BY <1>4, <1>6, <1>7, <1>8 DEF Steadier

\* The client's own steps that take no event.
LEMMA QuietSteady ==
  ASSUME Steady, Benchmark!Inv,
         \/ Benchmark!StartTurn \/ Benchmark!SentAudioFile \/ Benchmark!TurnTimesOut
         \/ Benchmark!IntroTimesOut \/ Benchmark!DrainTimesOut \/ Benchmark!SettleTurn
  PROVE  Steadier
<1>1. PICK s : s = v12
  OBVIOUS
<1>2. UNCHANGED <<v1, v3, v4, v14>>
  BY DEF Benchmark!StartTurn, Benchmark!SentAudioFile, Benchmark!TurnTimesOut, Benchmark!IntroTimesOut,
     Benchmark!DrainTimesOut, Benchmark!SettleTurn
<1>3. Moved
  BY <1>2 DEF Moved, Stood
<1>4. /\ Benchmark!InOrder'
      /\ \A h \in v14 : /\ Benchmark!OpenFrom(h.r, 1)'
                        /\ Benchmark!Over(h.r) => Benchmark!Over(h.r)'
                        /\ Benchmark!EndsNext(h.r, 1) => Benchmark!EndsNext(h.r, 1)'
      /\ \A i \in DOMAIN s : Benchmark!Over(s[i])'
      /\ \A m \in v15 : Benchmark!Over(m.r)'
  BY <1>1, <1>3, OrderedMoves DEF Steady
<1>5. Benchmark!HeardInOrder /\ Benchmark!EventsInOrder /\ v6 \in Nat /\ v13 \in Nat /\ Len(v12) \in Nat
  BY OrderedTypes DEF Steady, Ordered
<1>6. ASSUME UNCHANGED <<v6, v12, v13, v15>>,
             \/ v5' = v5 /\ v9' = v9
             \/ v5' = "over"
             \/ v5' = "settle" /\ v9' = "error"
             \/ v5 = "first" /\ v5' = "settle" /\ v9' = "late"
      PROVE  Steadier
  <2>1. Benchmark!HeardInOrder'
    BY <1>2, <1>4, <1>5, <1>6 DEF Benchmark!HeardInOrder
  <2>2. \A i \in DOMAIN v12' : Benchmark!Over(v12[i])'
    BY <1>1, <1>4, <1>6 DEF Benchmark!Over
  <2>3. Benchmark!EventsInOrder'
    BY <1>2, <1>4, <1>5, <1>6, <2>2 DEF Benchmark!EventsInOrder
  <2>4. MeteredApart'
    BY <1>2, <1>6 DEF Steady, MeteredApart
  <2> QED
    BY <1>4, <2>1, <2>3, <2>4 DEF Steadier
<1>7. CASE Benchmark!SentAudioFile
  <2>1. v5' = v5 /\ v9' = v9 /\ UNCHANGED <<v6, v12, v13, v15>>
    BY <1>7 DEF Benchmark!SentAudioFile
  <2> QED
    BY <1>6, <2>1
<1>8. CASE Benchmark!TurnTimesOut
  <2>1. v5 = "first" /\ v5' = "settle" /\ v9' = "late" /\ UNCHANGED <<v6, v12, v13, v15>>
    BY <1>8 DEF Benchmark!TurnTimesOut
  <2> QED
    BY <1>6, <2>1
<1>9. CASE Benchmark!IntroTimesOut
  <2>1. v5 = "first" /\ v5' = "settle" /\ v9' = "late" /\ UNCHANGED <<v6, v12, v13, v15>>
    BY <1>9 DEF Benchmark!IntroTimesOut
  <2> QED
    BY <1>6, <2>1
<1>10. CASE Benchmark!DrainTimesOut
  <2>1. v5' = "settle" /\ v9' = "error" /\ UNCHANGED <<v6, v12, v13, v15>>
    BY <1>10 DEF Benchmark!DrainTimesOut, Steady
  <2> QED
    BY <1>6, <2>1
<1>11. CASE Benchmark!StartTurn
  <2>1. v5 = "loop" /\ v5' = "first" /\ v6' = v6 + 1 /\ v13' = Len(v12) /\ UNCHANGED <<v12, v15>>
    BY <1>11 DEF Benchmark!StartTurn, Benchmark!BeginTurnObservation
  <2>2. \A h \in v14' : Benchmark!OpenFrom(h.r, 1)' /\ Benchmark!Over(h.r)'
    BY <1>2, <1>4, <1>5, <2>1 DEF Benchmark!HeardInOrder
  <2>3. Benchmark!HeardInOrder'
    BY <2>1, <2>2 DEF Benchmark!HeardInOrder
  <2>4. \A i \in DOMAIN v12' : Benchmark!Over(v12[i])'
    BY <1>1, <1>4, <2>1 DEF Benchmark!Over
  <2>5. Benchmark!EventsInOrder'
    BY <1>4, <1>5, <2>1, <2>4 DEF Benchmark!EventsInOrder
  <2>6. MeteredApart'
    BY <1>2, <2>1 DEF Steady, MeteredApart
  <2> QED
    BY <1>4, <2>3, <2>5, <2>6 DEF Steadier
<1>12. CASE Benchmark!SettleTurn
  <2>1. v5 = "settle" /\ UNCHANGED <<v6, v9, v13>>
    BY <1>12 DEF Benchmark!SettleTurn
  <2>2. CASE v9 \in {"error", "late"} /\ v5' = "barrier" /\ UNCHANGED <<v12, v15>>
    <3>1. Benchmark!HeardInOrder'
      BY <1>2, <1>4, <1>5, <2>1, <2>2 DEF Benchmark!HeardInOrder
    <3>2. \A i \in DOMAIN v12' : Benchmark!Over(v12[i])'
      BY <1>1, <1>4, <2>2 DEF Benchmark!Over
    <3>3. Benchmark!EventsInOrder'
      BY <1>2, <1>4, <1>5, <2>1, <2>2, <3>2 DEF Benchmark!EventsInOrder
    <3>4. MeteredApart'
      BY <1>2, <2>1, <2>2 DEF Steady, MeteredApart
    <3> QED
      BY <1>4, <3>1, <3>3, <3>4 DEF Steadier
  <2>3. CASE v9 \notin {"error", "late"} /\ v5' = "loop" /\ Benchmark!RecordTurnObservation(v12)
    <3>1. \A h \in v14' : Benchmark!OpenFrom(h.r, 1)' /\ Benchmark!Over(h.r)'
      BY <1>2, <1>4, <1>5, <2>1, <2>3 DEF Benchmark!HeardInOrder
    <3>2. Benchmark!HeardInOrder'
      BY <2>3, <3>1 DEF Benchmark!HeardInOrder
    <3>3. s \in Seq(Nat \ {0}) /\ (\A i, j \in DOMAIN s : i < j => s[i] < s[j]) /\ Benchmark!RecordTurnObservation(s)
      BY <1>1, <1>5, <2>3, OrderedTypes DEF Steady, Benchmark!EventsInOrder
    <3>4. \A m \in v15 : Benchmark!Over(m.r)' /\ \A i \in DOMAIN s : m.r < s[i]
      BY <1>1, <1>4, <1>5 DEF Benchmark!EventsInOrder
    <3>5. v6 > 0 /\ v9 = "ended" /\ Len(s) > v13 => [r |-> s[v13 + 1], turn |-> v6] \in v14
      BY <1>1, <1>5, <2>1 DEF Benchmark!EventsInOrder
    <3>6. Benchmark!EventsInOrder' /\ MeteredApart'
      BY <1>2, <1>4, <2>1, <2>3, <3>3, <3>4, <3>5, RecordedInOrder DEF Steady
    <3> QED
      BY <1>4, <3>2, <3>6 DEF Steadier
  <2> QED
    BY <1>12, <2>2, <2>3 DEF Benchmark!SettleTurn, Benchmark!NeedsCancel, Benchmark!Recorded, Steady
<1> QED
  BY <1>7, <1>8, <1>9, <1>10, <1>11, <1>12

LEMMA HeadTaken ==
  ASSUME Benchmark!TypeOK, NEW e \in Benchmark!Heads, Benchmark!Takes(e), UNCHANGED v4
  PROVE  Taken(e)
<1>1. v3 \in Seq(Benchmark!EventSet) /\ v3 # <<>> /\ e = Head(v3) /\ v3' = Tail(v3)
  BY DEF Benchmark!Takes, Benchmark!TypeOK
<1>2. e = v3[1] /\ e \in Benchmark!EventSet
  BY <1>1
<1> QED
  BY <1>1, <1>2 DEF Taken

\* A Realtime client takes an event: what follows for the order of the
\* responses, whatever phase the client goes to.
LEMMA TakesSteady ==
  ASSUME Steady, Benchmark!Inv, NEW e, Taken(e), NEW s, s = Benchmark!Seen(e), UNCHANGED <<v1, v6, v13>>,
         \/ /\ v14' = v14
            /\ v5' = "drain" => v5 = "drain" /\ e.kind # "done"
            /\ \/ v5' \in {"drain", "over"}
               \/ v5' \in {"settle", "barrier"} /\ v9' = "error"
               \/ Benchmark!Closing(e)
               \/ v5 \in {"first", "loop"} \/ (v5 \in {"settle", "barrier"} /\ v9 # "error") \/ v14 = {}
         \/ /\ v5' = "drain" /\ v5 \in {"first", "drain"} /\ e.kind = "delta"
            /\ v14' = v14 \cup {[r |-> e.r, turn |-> v6]},
         \/ /\ v12' = s /\ v15' = v15
            /\ v6 > 0 /\ v5' \in {"first", "drain"} => v5 \in {"first", "drain"} /\ e.kind # "done"
            /\ v6 > 0 /\ v5' = "settle" /\ v9' = "ended" => v5 = "drain" /\ e.kind = "done"
         \/ /\ v5' = "loop" /\ v5 = "barrier" /\ v9 \in {"error", "late"} /\ Benchmark!RecordTurnObservation(s)
            /\ v14' = v14
  PROVE  Steadier
<1>1. /\ Benchmark!InOrder'
      /\ \A h \in v14 : /\ Benchmark!OpenFrom(h.r, 1)'
                        /\ Benchmark!Over(h.r) => Benchmark!Over(h.r)'
                        /\ Benchmark!Over(h.r) /\ Benchmark!OfResponse(e) => h.r < e.r
                        /\ Benchmark!Closing(e) => Benchmark!Over(h.r)'
                        /\ Benchmark!EndsNext(h.r, 1) =>
                             IF e.kind = "done" THEN e.r = h.r ELSE Benchmark!EndsNext(h.r, 1)'
      /\ s \in Seq(Nat \ {0})
      /\ \A i, j \in DOMAIN s : i < j => s[i] < s[j]
      /\ \A i \in DOMAIN s : Benchmark!Over(s[i])'
      /\ \A m \in v15 : Benchmark!Over(m.r)' /\ \A i \in DOMAIN s : m.r < s[i]
      /\ IF e.kind = "done" THEN Len(s) = Len(v12) + 1 /\ s[Len(v12) + 1] = e.r ELSE s = v12
      /\ e.kind = "delta" => /\ e.r \in Nat \ {0} /\ Benchmark!OpenFrom(e.r, 1)'
                             /\ Benchmark!EndsNext(e.r, 1)'
  BY OrderedTakes DEF Steady
<1>2. Benchmark!HeardInOrder /\ Benchmark!EventsInOrder /\ MeteredApart /\ v6 \in Nat /\ v13 \in Nat
  BY OrderedTypes DEF Steady, Ordered
<1>3. Benchmark!HeardInOrder' /\ \A g, h \in v14' : g.r = h.r => g.turn = h.turn
  <2>1. CASE v14' = v14
    <3>1. \A h \in v14' : Benchmark!OpenFrom(h.r, 1)'
      BY <1>1, <2>1
    <3>2. \A h \in v14' : h.turn # v6' \/ v5' \in {"first", "loop"}
                            \/ (v5' \in {"settle", "barrier"} /\ v9' # "error") => Benchmark!Over(h.r)'
      BY <1>1, <1>2, <2>1 DEF Benchmark!HeardInOrder
    <3>3. v5' = "drain" => \E h \in v14' : h.turn = v6' /\ Benchmark!EndsNext(h.r, 1)'
      BY <1>1, <1>2, <2>1 DEF Benchmark!HeardInOrder
    <3> QED
      BY <1>2, <2>1, <3>1, <3>2, <3>3 DEF Benchmark!HeardInOrder, MeteredApart, Steady
  <2>2. CASE v5' = "drain" /\ v5 \in {"first", "drain"} /\ e.kind = "delta"
             /\ v14' = v14 \cup {[r |-> e.r, turn |-> v6]}
    <3>0. PICK new : new = [r |-> e.r, turn |-> v6]
      OBVIOUS
    <3>1. v14' = v14 \cup {new} /\ new.r = e.r /\ new.turn = v6 /\ Benchmark!OfResponse(e)
      BY <2>2, <3>0 DEF Benchmark!OfResponse
    <3>2. \A h \in v14 : h.turn # v6 => Benchmark!Over(h.r)' /\ h.r < e.r /\ h.r \in Nat
      BY <1>1, <1>2, <3>1, OrderedTypes DEF Benchmark!HeardInOrder, Steady
    <3>3. Benchmark!OpenFrom(new.r, 1)' /\ Benchmark!EndsNext(new.r, 1)' /\ e.r \in Nat
      <4>1. new.r = e.r
        BY <3>1
      <4> QED
        BY <1>1, <2>2, <4>1
    <3>4. \A h \in v14' : Benchmark!OpenFrom(h.r, 1)'
      BY <1>1, <3>1, <3>3
    <3>5. Benchmark!HeardInOrder'
      BY <2>2, <3>1, <3>2, <3>3, <3>4 DEF Benchmark!HeardInOrder
    <3>6. \A g, h \in v14' : g.r = h.r => g.turn = h.turn
      <4>1. \A g, h \in v14 : g.r = h.r => g.turn = h.turn
        BY <1>2 DEF MeteredApart, Steady
      <4> QED
        BY <3>1, <3>2, <3>3, <4>1
    <3> QED
      BY <3>5, <3>6
  <2> QED
    BY <2>1, <2>2
<1>4. Benchmark!EventsInOrder' /\ MeteredApart'
  <2>1. CASE /\ v12' = s /\ v15' = v15
             /\ v6 > 0 /\ v5' \in {"first", "drain"} => v5 \in {"first", "drain"} /\ e.kind # "done"
             /\ v6 > 0 /\ v5' = "settle" /\ v9' = "ended" => v5 = "drain" /\ e.kind = "done"
    <3>1. v14 \subseteq v14'
      OBVIOUS
    <3>2. \A i \in DOMAIN v12' : Benchmark!Over(v12[i])'
      BY <1>1, <2>1 DEF Benchmark!Over
    <3>3. v6' > 0 /\ v5' \in {"first", "drain"} => Len(v12') = v13'
      BY <1>1, <1>2, <2>1 DEF Benchmark!EventsInOrder
    <3>4. ASSUME v6' > 0, v5' = "settle", v9' = "ended"
          PROVE  Len(v12') = v13' + 1 /\ [r |-> v12'[v13' + 1], turn |-> v6'] \in v14'
      <4>1. v5 = "drain" /\ e.kind = "done" /\ v6 > 0
        BY <2>1, <3>4
      <4>2. Len(v12) = v13 /\ Len(s) = v13 + 1 /\ s[v13 + 1] = e.r
        BY <1>1, <1>2, <4>1 DEF Benchmark!EventsInOrder
      <4>3. PICK h \in v14 : h.turn = v6 /\ Benchmark!EndsNext(h.r, 1)
        BY <1>2, <4>1 DEF Benchmark!HeardInOrder
      <4>4. h.r = e.r
        BY <1>1, <4>1, <4>3
      <4>5. h = [r |-> h.r, turn |-> h.turn]
        BY DEF Steady, Ordered, Benchmark!TypeOK
      <4> QED
        BY <2>1, <3>1, <4>2, <4>3, <4>4, <4>5
    <3>5. Benchmark!EventsInOrder'
      BY <1>1, <2>1, <3>2, <3>3, <3>4 DEF Benchmark!EventsInOrder
    <3> QED
      BY <1>2, <1>3, <2>1, <3>1, <3>5 DEF MeteredApart
  <2>2. CASE v5' = "loop" /\ v5 = "barrier" /\ v9 \in {"error", "late"} /\ Benchmark!RecordTurnObservation(s)
             /\ v14' = v14
    BY <1>1, <2>2, RecordedInOrder DEF Steady
  <2> QED
    BY <2>1, <2>2
<1> QED
  BY <1>1, <1>3, <1>4 DEF Steadier

LEMMA VerdictIs ==
  ASSUME NEW e
  PROVE  /\ Benchmark!Verdict(e) = "audio" <=> e.kind = "delta"
         /\ Benchmark!Verdict(e) \in {"ended", "terminal"} <=> e.kind = "done"
         /\ Benchmark!Verdict(e) = "ended" => e.kind = "done"
         /\ e.kind = "done" => Benchmark!Closing(e)
BY DEF Benchmark!Verdict, Benchmark!Closing

LEMMA ConfiguredSteady ==
  ASSUME Steady, Benchmark!Inv, Benchmark!Configured PROVE Steadier
<1>1. PICK e \in Benchmark!Heads : Benchmark!RecvEvent(e) /\ v5' \in {"first", "loop", "connecting", "over"}
  BY DEF Benchmark!Configured, Benchmark!SessionBegins, Benchmark!Ends, Steady
<1>2. v5 = "connecting" /\ v6 = 0 /\ v14 = {} /\ UNCHANGED <<v1, v4, v6, v9, v13, v14, v15>>
  BY DEF Benchmark!Configured, Benchmark!Inv
<1>3. Taken(e) /\ v12' = Benchmark!Seen(e)
  BY <1>1, <1>2, HeadTaken DEF Benchmark!RecvEvent, Benchmark!Inv
<1>4. PICK s : s = Benchmark!Seen(e)
  OBVIOUS
<1> QED
  BY <1>1, <1>2, <1>3, <1>4, TakesSteady

LEMMA FirstFrameSteady ==
  ASSUME Steady, Benchmark!Inv, Benchmark!AwaitFirstBotFrame PROVE Steadier
<1>1. v5 = "first" /\ UNCHANGED <<v1, v4, v6, v13, v15>>
  BY DEF Benchmark!AwaitFirstBotFrame
<1>2. PICK e \in Benchmark!Heads :
        /\ Benchmark!RecvEvent(e)
        /\ \/ e.kind = "delta" /\ v5' = "drain" /\ v14' = v14 \cup {[r |-> e.r, turn |-> v6]}
           \/ v5' = "settle" /\ v9' # "ended" /\ v14' = v14
           \/ v5' = "over" /\ v14' = v14
           \/ v5' = "first" /\ v14' = v14 /\ e.kind # "done"
  <2>1. PICK e \in Benchmark!Heads :
          /\ Benchmark!RecvEvent(e)
          /\ \/ /\ Benchmark!Verdict(e) = "audio" /\ v5' = "drain"
                /\ v14' = v14 \cup {[r |-> e.r, turn |-> v6]}
             \/ /\ Benchmark!Verdict(e) \in {"ended", "terminal", "error"} /\ v5' = "settle" /\ v14' = v14
                /\ v9' = IF Benchmark!Verdict(e) = "ended" THEN "silent" ELSE Benchmark!Verdict(e)
             \/ Benchmark!Verdict(e) = "broken" /\ v5' = "over" /\ v14' = v14
             \/ Benchmark!Verdict(e) = "" /\ v5' = v5 /\ v14' = v14
    BY DEF Benchmark!AwaitFirstBotFrame, Benchmark!Ends
  <2> QED
    BY <1>1, <2>1, VerdictIs
<1>3. Taken(e) /\ v12' = Benchmark!Seen(e)
  BY <1>1, <1>2, HeadTaken DEF Benchmark!RecvEvent, Benchmark!Inv
<1>4. PICK s : s = Benchmark!Seen(e)
  OBVIOUS
<1> QED
  BY <1>1, <1>2, <1>3, <1>4, TakesSteady

LEMMA DrainSteady ==
  ASSUME Steady, Benchmark!Inv, Benchmark!DrainUtterance PROVE Steadier
<1>1. v5 = "drain" /\ UNCHANGED <<v1, v4, v6, v13, v15>>
  BY DEF Benchmark!DrainUtterance
<1>2. PICK e \in Benchmark!Heads :
        /\ Benchmark!RecvEvent(e)
        /\ \/ e.kind = "delta" /\ v5' = "drain" /\ v14' = v14 \cup {[r |-> e.r, turn |-> v6]}
           \/ v5' = "settle" /\ v14' = v14 /\ (v9' = "error" \/ e.kind = "done")
              /\ (v9' = "ended" => e.kind = "done")
           \/ v5' = "over" /\ v14' = v14
           \/ v5' = "drain" /\ v14' = v14 /\ e.kind # "done"
  <2>1. PICK e \in Benchmark!Heads :
          /\ Benchmark!RecvEvent(e)
          /\ \/ Benchmark!Verdict(e) = "audio" /\ v14' = v14 \cup {[r |-> e.r, turn |-> v6]} /\ v5' = v5
             \/ /\ Benchmark!Verdict(e) \in {"ended", "terminal", "error"} /\ v5' = "settle" /\ v14' = v14
                /\ v9' = Benchmark!Verdict(e)
             \/ Benchmark!Verdict(e) = "broken" /\ v5' = "over" /\ v14' = v14
             \/ Benchmark!Verdict(e) = "" /\ v5' = v5 /\ v14' = v14
    BY DEF Benchmark!DrainUtterance, Benchmark!Ends
  <2> QED
    BY <1>1, <2>1, VerdictIs
<1>3. Taken(e) /\ v12' = Benchmark!Seen(e) /\ (e.kind = "done" => Benchmark!Closing(e))
  BY <1>1, <1>2, HeadTaken, VerdictIs DEF Benchmark!RecvEvent, Benchmark!Inv
<1>4. PICK s : s = Benchmark!Seen(e)
  OBVIOUS
<1> QED
  BY <1>1, <1>2, <1>3, <1>4, TakesSteady

LEMMA BarrierSteady ==
  ASSUME Steady, Benchmark!Inv, Benchmark!CancelActiveResponse PROVE Steadier
<1>1. v5 = "barrier" /\ v9 \in {"error", "late"} /\ UNCHANGED <<v1, v4, v6, v9, v13, v14>>
  BY DEF Benchmark!CancelActiveResponse, Benchmark!Inv, Benchmark!NeedsCancel
<1>2. ASSUME NEW s, Benchmark!BarrierFails(s)
      PROVE  \/ v9 = "late" /\ v6 > 0 /\ v5' = "loop" /\ Benchmark!RecordTurnObservation(s)
             \/ v5' = "over" /\ v12' = s /\ v15' = v15
  BY <1>2 DEF Benchmark!BarrierFails, Benchmark!Recorded, Benchmark!Ends
<1>3. ASSUME NEW e \in Benchmark!Heads, Benchmark!Takes(e),
             \/ /\ e.kind = "done" \/ e.status = "not_active"
                /\ Benchmark!Recorded(Benchmark!Seen(e))
             \/ Benchmark!BarrierFails(Benchmark!Seen(e))
             \/ e.kind = "delta" /\ UNCHANGED <<v5, v12, v15>>
      PROVE  Steadier
  <2>1. Taken(e)
    BY <1>1, <1>3, HeadTaken DEF Benchmark!Inv
  <2>2. PICK s : s = Benchmark!Seen(e)
    OBVIOUS
  <2>3. CASE (e.kind = "done" \/ e.status = "not_active") /\ Benchmark!Recorded(s)
    <3>1. v5' = "loop" /\ Benchmark!RecordTurnObservation(s) /\ Benchmark!Closing(e)
      BY <2>3 DEF Benchmark!Recorded, Benchmark!Closing
    <3> QED
      BY <1>1, <2>1, <2>2, <3>1, TakesSteady
  <2>4. CASE Benchmark!BarrierFails(s)
    <3>1. \/ v9 = "late" /\ v5' = "loop" /\ Benchmark!RecordTurnObservation(s)
          \/ v5' = "over" /\ v12' = s /\ v15' = v15
      BY <1>2, <2>4
    <3> QED
      BY <1>1, <2>1, <2>2, <3>1, TakesSteady
  <2>5. CASE e.kind = "delta" /\ UNCHANGED <<v5, v12, v15>>
    <3>1. s = v12
      BY <2>2, <2>5 DEF Benchmark!Seen
    <3> QED
      BY <1>1, <2>1, <2>2, <2>5, <3>1, TakesSteady
  <2> QED
    BY <1>3, <2>2, <2>3, <2>4, <2>5
<1>4. ASSUME Benchmark!BarrierFails(v12), v3' = v3 PROVE Steadier
  <2>1. PICK s : s = v12
    OBVIOUS
  <2>2. Moved
    BY <1>1, <1>4 DEF Moved, Stood
  <2>3. /\ Benchmark!InOrder'
        /\ \A h \in v14 : /\ Benchmark!OpenFrom(h.r, 1)'
                          /\ Benchmark!Over(h.r) => Benchmark!Over(h.r)'
        /\ \A i \in DOMAIN s : Benchmark!Over(s[i])'
        /\ \A m \in v15 : Benchmark!Over(m.r)'
    BY <2>1, <2>2, OrderedMoves DEF Steady
  <2>4. Benchmark!HeardInOrder /\ Benchmark!EventsInOrder /\ MeteredApart
    BY DEF Steady, Ordered
  <2>5. \/ v9 = "late" /\ v6 > 0 /\ v5' = "loop" /\ Benchmark!RecordTurnObservation(s)
        \/ v5' = "over" /\ v12' = s /\ v15' = v15
    BY <1>2, <1>4, <2>1
  <2>6. Benchmark!HeardInOrder'
    <3>1. \A h \in v14' : Benchmark!OpenFrom(h.r, 1)'
      BY <1>1, <2>3
    <3>2. v5' = "loop" => \A h \in v14' : Benchmark!Over(h.r)'
      BY <1>1, <2>3, <2>4, <2>5 DEF Benchmark!HeardInOrder
    <3>3. \A h \in v14' : h.turn # v6' => Benchmark!Over(h.r)'
      BY <1>1, <2>3, <2>4 DEF Benchmark!HeardInOrder
    <3> QED
      BY <2>5, <3>1, <3>2, <3>3 DEF Benchmark!HeardInOrder
  <2>7. CASE v9 = "late" /\ v6 > 0 /\ v5' = "loop" /\ Benchmark!RecordTurnObservation(s)
    <3>1. s \in Seq(Nat \ {0}) /\ \A i, j \in DOMAIN s : i < j => s[i] < s[j]
      BY <2>1, <2>4, OrderedTypes DEF Steady, Benchmark!EventsInOrder
    <3>2. \A m \in v15 : Benchmark!Over(m.r)' /\ \A i \in DOMAIN s : m.r < s[i]
      BY <2>1, <2>3, <2>4 DEF Benchmark!EventsInOrder
    <3>3. Benchmark!EventsInOrder' /\ MeteredApart'
      BY <1>1, <2>3, <2>7, <3>1, <3>2, RecordedInOrder DEF Steady
    <3> QED
      BY <2>3, <2>6, <3>3 DEF Steadier
  <2>8. CASE v5' = "over" /\ v12' = s /\ v15' = v15
    <3>1. \A i \in DOMAIN v12' : Benchmark!Over(v12[i])'
      BY <2>3, <2>8 DEF Benchmark!Over
    <3>2. Benchmark!EventsInOrder'
      BY <1>1, <2>1, <2>3, <2>4, <2>8, <3>1 DEF Benchmark!EventsInOrder
    <3>3. MeteredApart'
      BY <1>1, <2>4, <2>8 DEF MeteredApart
    <3> QED
      BY <2>3, <2>6, <3>2, <3>3 DEF Steadier
  <2> QED
    BY <2>5, <2>7, <2>8
<1> QED
  BY <1>3, <1>4 DEF Benchmark!CancelActiveResponse

\* Types, for a client of either protocol.
Voiced ==
  \A i \in DOMAIN v3 : v3[i].kind \in {"delta", "done"} => v3[i].r # 0
LEMMA VoicedIs == ASSUME Benchmark!Inv PROVE Voiced
<1>1. CASE v1 = "realtime"
  BY <1>1 DEF Benchmark!Inv, Benchmark!InOrder, Benchmark!OfResponse, Voiced
<1>2. CASE v1 # "realtime"
  BY <1>2 DEF Benchmark!Inv, Voiced
<1> QED
  BY <1>1, <1>2

LEMMA HeadTypes ==
  ASSUME Benchmark!Inv, NEW e \in Benchmark!Heads, Benchmark!Takes(e)
  PROVE  /\ v3' \in Seq(Benchmark!EventSet) /\ e \in Benchmark!EventSet /\ e = v3[1] /\ 1 \in DOMAIN v3
         /\ Benchmark!Seen(e) \in Seq(Nat \ {0})
         /\ e.kind = "delta" => e.r \in Nat \ {0}
<1>1. v3 \in Seq(Benchmark!EventSet) /\ v3 # <<>> /\ e = Head(v3) /\ v3' = Tail(v3) /\ v12 \in Seq(Nat \ {0})
  BY DEF Benchmark!Takes, Benchmark!TypeOK, Benchmark!Inv
<1>2. e = v3[1] /\ 1 \in DOMAIN v3 /\ e \in Benchmark!EventSet /\ v3' \in Seq(Benchmark!EventSet)
  BY <1>1
<1>3. e.kind \in {"delta", "done"} => e.r \in Nat \ {0}
  BY <1>2, VoicedIs DEF Voiced, Benchmark!EventSet
<1> QED
  BY <1>1, <1>2, <1>3 DEF Benchmark!Seen

Stats == [started : Nat, valid : Nat, barge : Nat, failed : Nat]
TypedBench ==
  /\ v1 \in {"realtime", "rtvi"} /\ v2 \in Seq({"update", "speech", "cancel"})
  /\ v3 \in Seq(Benchmark!EventSet) /\ v4 \in ServerState
  /\ v5 \in {"connecting", "first", "loop", "drain", "settle", "barrier", "over"}
  /\ v6 \in Nat /\ v7 \in BOOLEAN /\ v8 \in BOOLEAN /\ v9 \in Benchmark!Reasons
  /\ v10 \in BOOLEAN /\ v11 \in Stats /\ v12 \in Seq(Nat \ {0}) /\ v13 \in Nat
  /\ v14 \subseteq [r : Nat \ {0}, turn : Nat]
  /\ v15 \subseteq [r : Nat \ {0}, turn : Nat, why : Benchmark!Reasons]
LEMMA BenchTypes == Benchmark!TypeOK <=> TypedBench
BY DEF Benchmark!TypeOK, ServerState, Stats, TypedBench

LEMMA MoreStats ==
  ASSUME NEW n \in Stats
  PROVE  /\ [n EXCEPT !.failed = @ + 1] \in Stats /\ [n EXCEPT !.barge = @ + 1] \in Stats
         /\ [n EXCEPT !.valid = @ + 1] \in Stats /\ [n EXCEPT !.started = @ + 1] \in Stats
<1>1. n.failed + 1 \in Nat /\ n.barge + 1 \in Nat /\ n.valid + 1 \in Nat /\ n.started + 1 \in Nat
  BY DEF Stats
<1> QED
  BY <1>1 DEF Stats

LEMMA HeardTyped ==
  ASSUME TypedBench, NEW r \in Nat \ {0}
  PROVE  v14 \cup {[r |-> r, turn |-> v6]} \subseteq [r : Nat \ {0}, turn : Nat]
<1>1. [r |-> r, turn |-> v6] \in [r : Nat \ {0}, turn : Nat]
  BY DEF TypedBench
<1> QED
  BY <1>1 DEF TypedBench

LEMMA BenchServerTypes ==
  ASSUME Benchmark!Inv,
         Benchmark!ServerTakes \/ Benchmark!ServerBegins \/ Benchmark!ServerSpeaks \/ Benchmark!ServerErrs
  PROVE  /\ v2' \in Seq({"update", "speech", "cancel"}) /\ v3' \in Seq(Benchmark!EventSet) /\ v4' \in ServerState
         /\ UNCHANGED <<v1, v5, v6, v7, v8, v9, v10, v11, v12, v13, v14, v15, v16>>
<1>t. TypedBench
  BY BenchTypes DEF Benchmark!Inv
<1>1. ASSUME NEW e \in Benchmark!EventSet PROVE Benchmark!Told(e) \in Seq(Benchmark!EventSet)
  BY <1>t, <1>1 DEF Benchmark!Told, TypedBench
<1>2. ASSUME NEW kind \in {"delta", "done", "updated", "error", "failed"}, NEW r \in Nat,
             NEW status \in {"", "completed", "failed", "cancelled", "not_active"}
      PROVE  Benchmark!Told(Benchmark!Event(kind, r, status)) \in Seq(Benchmark!EventSet)
  <2>1. Benchmark!Event(kind, r, status) \in Benchmark!EventSet
    BY DEF Benchmark!Event, Benchmark!EventSet
  <2> QED
    BY <1>1, <2>1
<1>3. v4.active \in Nat /\ v4 \in ServerState /\ v2 \in Seq({"update", "speech", "cancel"}) /\ v3 \in Seq(Benchmark!EventSet)
  BY <1>t DEF ServerState, TypedBench
<1>4. Benchmark!Stopped \in Seq(Benchmark!EventSet)
  BY <1>2, <1>3 DEF Benchmark!Stopped
<1>5. CASE Benchmark!ServerTakes
  <2>1. v2 # <<>> /\ v2' = Tail(v2)
    BY <1>5 DEF Benchmark!ServerTakes
  <2>b. v2' \in Seq({"update", "speech", "cancel"})
    BY <1>3, <2>1
  <2>2. v3' \in Seq(Benchmark!EventSet)
    BY <1>2, <1>4, <1>5 DEF Benchmark!ServerTakes
  <2>a. v4.owed + 1 \in Nat
    BY <1>3 DEF ServerState
  <2>c. [v4 EXCEPT !.active = 0, !.owed = @ + 1] \in ServerState /\ [v4 EXCEPT !.active = 0] \in ServerState
    BY <1>3, <2>a DEF ServerState
  <2>d. v4' \in {v4, [v4 EXCEPT !.active = 0, !.owed = @ + 1], [v4 EXCEPT !.active = 0]}
    BY <1>5 DEF Benchmark!ServerTakes
  <2>3. v4' \in ServerState
    BY <1>3, <2>c, <2>d
  <2> QED
    BY <1>5, <2>b, <2>2, <2>3 DEF Benchmark!ServerTakes, Benchmark!client
<1>6. CASE Benchmark!ServerBegins
  <2>1. v4.begun + 1 \in Nat /\ v4.owed - 1 \in Nat
    BY <1>3, <1>6 DEF Benchmark!ServerBegins, ServerState
  <2>2. v4' \in ServerState
    BY <1>3, <1>6, <2>1 DEF Benchmark!ServerBegins, ServerState
  <2> QED
    BY <1>3, <1>6, <2>2 DEF Benchmark!ServerBegins, Benchmark!client
<1>7. CASE Benchmark!ServerSpeaks
  <2>1. v3' \in Seq(Benchmark!EventSet)
    BY <1>2, <1>3, <1>7 DEF Benchmark!ServerSpeaks
  <2>a. v4.audio + 1 \in Nat
    BY <1>3 DEF ServerState
  <2>b. [v4 EXCEPT !.active = 0] \in ServerState /\ [v4 EXCEPT !.audio = @ + 1] \in ServerState
    BY <1>3, <2>a DEF ServerState
  <2>2. v4' \in ServerState
    BY <1>7, <2>b DEF Benchmark!ServerSpeaks
  <2> QED
    BY <1>3, <1>7, <2>1, <2>2 DEF Benchmark!ServerSpeaks, Benchmark!client
<1>8. CASE Benchmark!ServerErrs
  <2>1. v3' \in Seq(Benchmark!EventSet)
    BY <1>2, <1>8 DEF Benchmark!ServerErrs
  <2>a. v4.errors + 1 \in Nat
    BY <1>3 DEF ServerState
  <2>2. v4' \in ServerState
    BY <1>3, <1>8, <2>a DEF Benchmark!ServerErrs, ServerState
  <2> QED
    BY <1>3, <1>8, <2>1, <2>2 DEF Benchmark!ServerErrs, Benchmark!client
<1> QED
  BY <1>5, <1>6, <1>7, <1>8

LEMMA RecordedTypes ==
  ASSUME Benchmark!Inv, NEW s \in Seq(Nat \ {0}), Benchmark!Recorded(s)
  PROVE  /\ v5' = "loop" /\ v11' \in Stats /\ v12' \in Seq(Nat \ {0})
         /\ v15' \subseteq [r : Nat \ {0}, turn : Nat, why : Benchmark!Reasons]
<1>t. TypedBench
  BY BenchTypes DEF Benchmark!Inv
<1>1. v5' = "loop" /\ v11' = Benchmark!Counted /\ v12' \in Seq(Nat \ {0})
  BY DEF Benchmark!Recorded, Benchmark!RecordTurnObservation
<1>2. Benchmark!Counted \in Stats
  <2>1. v11 \in Stats
    BY <1>t DEF TypedBench
  <2>2. Benchmark!Counted \in {v11, [v11 EXCEPT !.failed = @ + 1], [v11 EXCEPT !.barge = @ + 1],
                               [v11 EXCEPT !.valid = @ + 1]}
    BY DEF Benchmark!Counted
  <2>3. /\ [v11 EXCEPT !.failed = @ + 1] \in Stats /\ [v11 EXCEPT !.barge = @ + 1] \in Stats
        /\ [v11 EXCEPT !.valid = @ + 1] \in Stats
    BY <2>1, MoreStats
  <2> QED
    BY <2>1, <2>2, <2>3
<1>3. CASE v6 > 0 /\ Len(s) > v13
  <2>1. v13 + 1 \in DOMAIN s
    BY <1>t, <1>3 DEF TypedBench
  <2>2. s[v13 + 1] \in Nat \ {0}
    BY <2>1
  <2> QED
    BY <1>t, <1>1, <1>2, <1>3, <2>2 DEF Benchmark!Recorded, Benchmark!RecordTurnObservation, TypedBench
<1>4. CASE ~(v6 > 0 /\ Len(s) > v13)
  BY <1>t, <1>1, <1>2, <1>4 DEF Benchmark!Recorded, Benchmark!RecordTurnObservation, TypedBench
<1> QED
  BY <1>3, <1>4

LEMMA BenchKeepsTypes ==
  ASSUME Benchmark!Inv, Benchmark!Next PROVE Benchmark!TypeOK'
<1>t. TypedBench
  BY BenchTypes DEF Benchmark!Inv
<1>1. TypedBench' => Benchmark!TypeOK'
  BY DEF Benchmark!TypeOK, ServerState, Stats, TypedBench
<1>2. CASE Benchmark!ServerTakes \/ Benchmark!ServerBegins \/ Benchmark!ServerSpeaks \/ Benchmark!ServerErrs
  BY <1>t, <1>1, <1>2, BenchServerTypes DEF TypedBench
<1>3. CASE Benchmark!Configured
  <2>1. UNCHANGED <<v1, v2, v4, v6, v7, v8, v9, v10, v11, v13, v14, v15>>
    BY <1>3 DEF Benchmark!Configured
  <2>2. CASE v5' \in {"first", "loop"} /\ UNCHANGED <<v3, v12>>
    BY <1>t, <1>1, <2>1, <2>2 DEF TypedBench
  <2>3. ASSUME NEW e \in Benchmark!Heads, Benchmark!RecvEvent(e), v5' \in {"first", "loop", "over", "connecting"}
        PROVE  TypedBench'
    BY <1>t, <2>1, <2>3, HeadTypes DEF Benchmark!RecvEvent, TypedBench, Benchmark!Reasons
  <2> QED
    BY <1>t, <1>1, <1>3, <2>2, <2>3 DEF Benchmark!Configured, Benchmark!SessionBegins, Benchmark!Ends, TypedBench
<1>4. CASE Benchmark!StartTurn
  <2>1. v11' \in Stats
    BY <1>t, <1>4, MoreStats DEF Benchmark!StartTurn, TypedBench
  <2>a. v2' = Append(v2, "speech") /\ v6' = v6 + 1 /\ v13' = Len(v12) /\ v10' \in {v10, TRUE}
    BY <1>4 DEF Benchmark!StartTurn, Benchmark!BeginTurnObservation
  <2>b. v2 \in Seq({"update", "speech", "cancel"}) /\ v6 \in Nat /\ v10 \in BOOLEAN /\ v12 \in Seq(Nat \ {0})
    BY <1>t DEF TypedBench
  <2>c. v2' \in Seq({"update", "speech", "cancel"})
    BY <2>a, <2>b
  <2>d. v6' \in Nat /\ v13' \in Nat
    BY <2>a, <2>b
  <2>2. v2' \in Seq({"update", "speech", "cancel"}) /\ v6' \in Nat /\ v13' \in Nat /\ v10' \in BOOLEAN
    BY <2>a, <2>b, <2>c, <2>d
  <2>3. v9' \in Benchmark!Reasons /\ v5' = "first" /\ v7' \in BOOLEAN /\ v8' \in BOOLEAN
    BY <1>4 DEF Benchmark!StartTurn, Benchmark!Reasons
  <2>4. UNCHANGED <<v1, v3, v4, v12, v14, v15>>
    BY <1>4 DEF Benchmark!StartTurn
  <2> QED
    BY <1>t, <1>1, <2>1, <2>2, <2>3, <2>4 DEF TypedBench
<1>5. CASE Benchmark!SentAudioFile
  BY <1>t, <1>1, <1>5 DEF Benchmark!SentAudioFile, TypedBench
<1>6. CASE Benchmark!AwaitFirstBotFrame
  <2>1. UNCHANGED <<v1, v2, v4, v6, v7, v10, v11, v13, v15>>
    BY <1>6 DEF Benchmark!AwaitFirstBotFrame
  <2>2. PICK e \in Benchmark!Heads :
        /\ Benchmark!RecvEvent(e) /\ v5' \in {"drain", "settle", "over", v5} /\ v8' \in {v7, v8}
        /\ v9' \in {v9, "silent", "ended", "terminal", "error"}
        /\ \/ v14' = v14
           \/ e.kind = "delta" /\ v14' = v14 \cup {[r |-> e.r, turn |-> v6]}
    <3>1. PICK e \in Benchmark!Heads :
            /\ Benchmark!RecvEvent(e)
            /\ \/ /\ Benchmark!Verdict(e) = "audio" /\ v5' = "drain" /\ v8' = v7 /\ v9' = v9
                  /\ v14' = v14 \cup {[r |-> e.r, turn |-> v6]}
               \/ /\ Benchmark!Verdict(e) \in {"ended", "terminal", "error"} /\ v5' = "settle" /\ v8' = v8
                  /\ v9' = IF Benchmark!Verdict(e) = "ended" THEN "silent" ELSE Benchmark!Verdict(e)
                  /\ v14' = v14
               \/ v5' \in {"over", v5} /\ v8' = v8 /\ v9' = v9 /\ v14' = v14
      BY <1>6 DEF Benchmark!AwaitFirstBotFrame, Benchmark!Ends
    <3> QED
      BY <3>1, VerdictIs
  <2>3. v14' \subseteq [r : Nat \ {0}, turn : Nat]
    BY <1>t, <2>1, <2>2, HeadTypes, HeardTyped DEF Benchmark!RecvEvent, TypedBench
  <2> QED
    BY <1>t, <1>1, <2>1, <2>2, <2>3, HeadTypes DEF Benchmark!RecvEvent, TypedBench, Benchmark!Reasons
<1>7. CASE Benchmark!TurnTimesOut
  <2>1. v11' \in Stats
    BY <1>t, <1>7, MoreStats DEF Benchmark!TurnTimesOut, TypedBench
  <2> QED
    BY <1>t, <1>1, <1>7, <2>1 DEF Benchmark!TurnTimesOut, Benchmark!Reasons, TypedBench
<1>8. CASE Benchmark!IntroTimesOut
  BY <1>t, <1>1, <1>8 DEF Benchmark!IntroTimesOut, Benchmark!Reasons, TypedBench
<1>9. CASE Benchmark!DrainTimesOut
  BY <1>t, <1>1, <1>9 DEF Benchmark!DrainTimesOut, Benchmark!Reasons, TypedBench
<1>10. CASE Benchmark!DrainUtterance
  <2>1. UNCHANGED <<v1, v2, v4, v6, v7, v8, v10, v11, v13, v15>>
    BY <1>t, <1>10 DEF Benchmark!DrainUtterance, TypedBench
  <2>2. PICK e \in Benchmark!Heads :
        /\ Benchmark!RecvEvent(e) /\ v5' \in {"drain", "settle", "over", v5} /\ v9' \in Benchmark!Reasons
        /\ (v14' = v14) \/ (e.kind = "delta" /\ v14' = v14 \cup {[r |-> e.r, turn |-> v6]})
    <3>1. PICK e \in Benchmark!Heads :
            /\ Benchmark!RecvEvent(e)
            /\ \/ /\ Benchmark!Verdict(e) = "audio" /\ v5' = v5 /\ v9' = v9
                  /\ v14' = v14 \cup {[r |-> e.r, turn |-> v6]}
               \/ /\ Benchmark!Verdict(e) \in {"ended", "terminal", "error"} /\ v5' = "settle"
                  /\ v9' = Benchmark!Verdict(e) /\ v14' = v14
               \/ v5' \in {"over", v5} /\ v9' = v9 /\ v14' = v14
      BY <1>10 DEF Benchmark!DrainUtterance, Benchmark!Ends
    <3>2. v9 \in Benchmark!Reasons
      BY <1>t DEF TypedBench
    <3> QED
      BY <3>1, <3>2, VerdictIs DEF Benchmark!Reasons
  <2>3. v14' \subseteq [r : Nat \ {0}, turn : Nat]
    BY <1>t, <2>1, <2>2, HeadTypes, HeardTyped DEF Benchmark!RecvEvent, TypedBench
  <2> QED
    BY <1>t, <1>1, <2>1, <2>2, <2>3, HeadTypes DEF Benchmark!RecvEvent, TypedBench, Benchmark!Reasons
<1>11. CASE Benchmark!SettleTurn
  <2>a. UNCHANGED <<v1, v3, v4, v6, v7, v8, v9, v10, v13, v14>>
        /\ (v2' = Append(v2, "cancel") \/ v2' = v2)
    BY <1>11 DEF Benchmark!SettleTurn
  <2>b. v2 \in Seq({"update", "speech", "cancel"})
    BY <1>t DEF TypedBench
  <2>c. v2' \in Seq({"update", "speech", "cancel"})
    BY <2>a, <2>b
  <2>1. UNCHANGED <<v1, v3, v4, v6, v7, v8, v9, v10, v13, v14>> /\ v2' \in Seq({"update", "speech", "cancel"})
    BY <2>a, <2>c
  <2>2. \/ v5' = "barrier" /\ v11' = v11 /\ v12' = v12 /\ v15' = v15
        \/ Benchmark!Recorded(v12)
    BY <1>t, <1>11 DEF Benchmark!SettleTurn, TypedBench
  <2>3. CASE v5' = "barrier" /\ v11' = v11 /\ v12' = v12 /\ v15' = v15
    BY <1>t, <1>1, <2>1, <2>3 DEF TypedBench
  <2>4. CASE Benchmark!Recorded(v12)
    <3>1. v12 \in Seq(Nat \ {0})
      BY <1>t DEF TypedBench
    <3>2. /\ v5' = "loop" /\ v11' \in Stats /\ v12' \in Seq(Nat \ {0})
          /\ v15' \subseteq [r : Nat \ {0}, turn : Nat, why : Benchmark!Reasons]
      BY <2>4, <3>1, RecordedTypes
    <3> QED
      BY <1>t, <1>1, <2>1, <3>2 DEF TypedBench
  <2> QED
    BY <2>2, <2>3, <2>4
<1>12. CASE Benchmark!CancelActiveResponse
  <2>1. UNCHANGED <<v1, v2, v4, v6, v7, v8, v9, v10, v13, v14>>
    BY <1>t, <1>12 DEF Benchmark!CancelActiveResponse, TypedBench
  <2>2. ASSUME NEW s \in Seq(Nat \ {0}), v3' \in Seq(Benchmark!EventSet),
               \/ Benchmark!Recorded(s)
               \/ v5' = "over" /\ v12' = s /\ v11' = v11 /\ v15' = v15
        PROVE  TypedBench'
    BY <1>t, <2>1, <2>2, RecordedTypes DEF TypedBench
  <2>3. ASSUME NEW s, Benchmark!BarrierFails(s)
        PROVE  \/ Benchmark!Recorded(s)
               \/ v5' = "over" /\ v12' = s /\ v11' = v11 /\ v15' = v15
    BY <1>t, <2>3 DEF Benchmark!BarrierFails, Benchmark!Ends, TypedBench
  <2>4. ASSUME NEW e \in Benchmark!Heads, Benchmark!Takes(e),
               \/ Benchmark!Recorded(Benchmark!Seen(e))
               \/ Benchmark!BarrierFails(Benchmark!Seen(e))
               \/ UNCHANGED <<v5, v11, v12, v15>>
        PROVE  TypedBench'
    BY <1>t, <2>1, <2>2, <2>3, <2>4, HeadTypes DEF TypedBench
  <2>5. ASSUME Benchmark!BarrierFails(v12), v3' = v3 PROVE TypedBench'
    BY <1>t, <2>2, <2>3, <2>5 DEF TypedBench
  <2> QED
    BY <1>t, <1>1, <1>12, <2>4, <2>5 DEF Benchmark!CancelActiveResponse, TypedBench
<1>13. CASE Benchmark!ContinuousAudioLoopEnds \/ Benchmark!SessionBreaks
  <2>1. /\ v2' = <<>> /\ v3' = <<>> /\ v5' = "over"
        /\ UNCHANGED <<v1, v4, v6, v7, v8, v9, v10, v11, v12, v13, v14, v15>>
    BY <1>13 DEF Benchmark!ContinuousAudioLoopEnds, Benchmark!SessionBreaks, Benchmark!Ends,
       Benchmark!Disconnected
  <2>2. v2' \in Seq({"update", "speech", "cancel"}) /\ v3' \in Seq(Benchmark!EventSet)
    BY <2>1
  <2> QED
    BY <1>t, <1>1, <2>1, <2>2 DEF TypedBench
<1> QED
  BY <1>t, <1>2, <1>3, <1>4, <1>5, <1>6, <1>7, <1>8, <1>9, <1>10, <1>11, <1>12, <1>13 DEF Benchmark!Next, TypedBench

\* What a client is sent and keeps over RTVI, where only audio comes.
RtviOnly ==
  v12 = <<>> /\ v15 = {} /\ \A i \in DOMAIN v3 : v3[i].kind = "delta" /\ v3[i].r # 0
LEMMA RtviServes ==
  ASSUME Benchmark!Inv, v1 = "rtvi", RtviOnly,
         Benchmark!ServerTakes \/ Benchmark!ServerBegins \/ Benchmark!ServerSpeaks \/ Benchmark!ServerErrs
  PROVE  RtviOnly'
<1>1. v12' = <<>> /\ v15' = {}
  BY DEF RtviOnly, Benchmark!ServerTakes, Benchmark!ServerBegins, Benchmark!ServerSpeaks, Benchmark!ServerErrs,
         Benchmark!client
<1>2. v3' = v3 \/ (v4.active # 0 /\ v3' = Append(v3, Benchmark!Event("delta", v4.active, "")))
  BY DEF Benchmark!ServerTakes, Benchmark!ServerBegins, Benchmark!ServerSpeaks, Benchmark!ServerErrs,
         Benchmark!Stopped, Benchmark!Told, Benchmark!Event
<1>3. CASE v3' = v3
  BY <1>1, <1>3 DEF RtviOnly
<1>4. CASE v4.active # 0 /\ v3' = Append(v3, Benchmark!Event("delta", v4.active, ""))
  <2>1. PICK e : e = Benchmark!Event("delta", v4.active, "")
    OBVIOUS
  <2>2. e.kind = "delta" /\ e.r # 0 /\ v3' = Append(v3, e)
    BY <1>4, <2>1 DEF Benchmark!Event
  <2>3. v3 \in Seq(Benchmark!EventSet)
    BY BenchTypes DEF Benchmark!Inv, TypedBench
  <2>4. \A i \in DOMAIN v3' : v3'[i] = e \/ (i \in DOMAIN v3 /\ v3'[i] = v3[i])
    BY <2>2, <2>3
  <2> QED
    BY <1>1, <2>2, <2>4 DEF RtviOnly
<1> QED
  BY <1>2, <1>3, <1>4

LEMMA RtviTakes ==
  ASSUME Benchmark!Inv, RtviOnly, NEW e \in Benchmark!Heads, Benchmark!Takes(e)
  PROVE  e.kind = "delta" /\ Benchmark!Seen(e) = <<>> /\ \A i \in DOMAIN v3' : v3'[i].kind = "delta" /\ v3'[i].r # 0
<1>1. v3 \in Seq(Benchmark!EventSet) /\ v3 # <<>> /\ e = Head(v3) /\ v3' = Tail(v3)
  BY DEF Benchmark!Takes, Benchmark!TypeOK, Benchmark!Inv
<1>2. e = v3[1] /\ 1 \in DOMAIN v3 /\ \A i \in DOMAIN v3' : i + 1 \in DOMAIN v3 /\ v3'[i] = v3[i + 1]
  BY <1>1
<1>3. e.kind = "delta" /\ \A i \in DOMAIN v3' : v3'[i].kind = "delta" /\ v3'[i].r # 0
  BY <1>2 DEF RtviOnly
<1> QED
  BY <1>3 DEF Benchmark!Seen, RtviOnly

LEMMA RtviStays ==
  ASSUME Benchmark!Inv, v1 = "rtvi", RtviOnly, Benchmark!Next
  PROVE  v1' = "rtvi" /\ RtviOnly'
<1>t. v13 \in Nat /\ Len(v12) = 0
  BY BenchTypes DEF Benchmark!Inv, TypedBench, RtviOnly
<1>1. CASE Benchmark!ServerTakes \/ Benchmark!ServerBegins \/ Benchmark!ServerSpeaks \/ Benchmark!ServerErrs
  BY <1>1, RtviServes DEF Benchmark!ServerTakes, Benchmark!ServerBegins, Benchmark!ServerSpeaks,
     Benchmark!ServerErrs
<1>2. CASE Benchmark!AwaitFirstBotFrame \/ Benchmark!DrainUtterance
  <2>1. v1' = v1 /\ v15' = v15 /\ \E e \in Benchmark!Heads : Benchmark!RecvEvent(e)
    BY <1>2 DEF Benchmark!AwaitFirstBotFrame, Benchmark!DrainUtterance
  <2> QED
    BY <2>1, RtviTakes DEF Benchmark!RecvEvent, RtviOnly
<1>3. CASE Benchmark!SettleTurn
  BY <1>t, <1>3 DEF Benchmark!SettleTurn, Benchmark!NeedsCancel, Benchmark!Recorded,
     Benchmark!RecordTurnObservation, RtviOnly
<1>4. CASE Benchmark!CancelActiveResponse
  BY <1>4 DEF Benchmark!CancelActiveResponse, Benchmark!Inv, Benchmark!NeedsCancel
<1>5. CASE \/ Benchmark!Configured \/ Benchmark!StartTurn \/ Benchmark!SentAudioFile \/ Benchmark!TurnTimesOut
           \/ Benchmark!IntroTimesOut \/ Benchmark!DrainTimesOut \/ Benchmark!ContinuousAudioLoopEnds
           \/ Benchmark!SessionBreaks
  <2>1. UNCHANGED <<v1, v12, v15>> /\ v3' \in {v3, <<>>}
    BY <1>5 DEF Benchmark!Configured, Benchmark!StartTurn, Benchmark!SentAudioFile, Benchmark!TurnTimesOut,
       Benchmark!IntroTimesOut, Benchmark!DrainTimesOut, Benchmark!ContinuousAudioLoopEnds,
       Benchmark!SessionBreaks, Benchmark!Disconnected
  <2> QED
    BY <2>1 DEF RtviOnly
<1> QED
  BY <1>1, <1>2, <1>3, <1>4, <1>5 DEF Benchmark!Next

\* Every turn begun is counted.
AllCounted == v5 # "over" => v11.valid + v11.barge + v11.failed + Benchmark!Uncounted = v11.started
LEMMA CountedOnce ==
  ASSUME TypedBench, AllCounted, NEW s, Benchmark!Recorded(s), v5 \in {"settle", "barrier"}
  PROVE  AllCounted'
<1>1. PICK n : n = v11
  OBVIOUS
<1>2. n \in Stats /\ n.started \in Nat /\ n.valid \in Nat /\ n.barge \in Nat /\ n.failed \in Nat
  BY <1>1 DEF TypedBench, Stats
<1>3. v11' = Benchmark!Counted /\ Benchmark!Uncounted' = 0
  BY DEF Benchmark!Recorded, Benchmark!Uncounted
<1>4. CASE v6 = 0 \/ ~v10 \/ v9 = "late"
  <2>1. v11' = v11 /\ Benchmark!Uncounted = 0
    BY <1>3, <1>4 DEF Benchmark!Counted, Benchmark!Uncounted
  <2> QED
    BY <1>1, <1>2, <1>3, <2>1 DEF AllCounted
<1>5. CASE ~(v6 = 0 \/ ~v10 \/ v9 = "late")
  <2>1. Benchmark!Uncounted = 1
    BY <1>5 DEF Benchmark!Uncounted, TypedBench
  <2>2. n.valid + n.barge + n.failed + 1 = n.started
    BY <1>1, <2>1 DEF AllCounted
  <2>3. v11' \in {[n EXCEPT !.failed = @ + 1], [n EXCEPT !.barge = @ + 1], [n EXCEPT !.valid = @ + 1]}
    BY <1>1, <1>3, <1>5 DEF Benchmark!Counted
  <2>4. v11'.valid + v11'.barge + v11'.failed = v11'.started
    BY <1>2, <2>2, <2>3 DEF Stats
  <2>5. v11'.valid + v11'.barge + v11'.failed \in Nat
    BY <1>2, <2>3 DEF Stats
  <2> QED
    BY <1>3, <2>4, <2>5 DEF AllCounted
<1> QED
  BY <1>4, <1>5

LEMMA AllCountedKept ==
  ASSUME Benchmark!Inv, TypedBench, AllCounted, Benchmark!Next
  PROVE  AllCounted'
<1>1. ASSUME UNCHANGED <<v11>>, v5' # "over" => v5 # "over" /\ Benchmark!Uncounted' = Benchmark!Uncounted
      PROVE  AllCounted'
  BY <1>1 DEF AllCounted
<1>2. CASE Benchmark!ServerTakes \/ Benchmark!ServerBegins \/ Benchmark!ServerSpeaks \/ Benchmark!ServerErrs
  <2>1. UNCHANGED <<v5, v6, v9, v10, v11>>
    BY <1>2 DEF Benchmark!ServerTakes, Benchmark!ServerBegins, Benchmark!ServerSpeaks, Benchmark!ServerErrs,
       Benchmark!client
  <2> QED
    BY <1>1, <2>1 DEF Benchmark!Uncounted
<1>3. CASE Benchmark!Configured
  <2>1. v6 = 0 /\ UNCHANGED <<v6, v10, v11>> /\ v5 = "connecting"
    BY <1>3 DEF Benchmark!Configured, Benchmark!Inv
  <2> QED
    BY <1>1, <2>1 DEF Benchmark!Uncounted
<1>4. CASE Benchmark!StartTurn
  <2>1. PICK n : n = v11
    OBVIOUS
  <2>a. n \in Stats /\ n.started \in Nat /\ n.valid \in Nat /\ n.barge \in Nat /\ n.failed \in Nat
    BY <2>1 DEF TypedBench, Stats
  <2>b. v5 = "loop" /\ v5' = "first" /\ v6' = v6 + 1 /\ v6 \in Nat
    BY <1>4 DEF Benchmark!StartTurn, TypedBench
  <2>c. Benchmark!Uncounted = 0
    BY <2>b DEF Benchmark!Uncounted
  <2>2. n \in Stats /\ n.valid + n.barge + n.failed = n.started
    BY <2>1, <2>a, <2>b, <2>c DEF AllCounted
  <2>3. n.started \in Nat /\ n.valid \in Nat /\ n.barge \in Nat /\ n.failed \in Nat /\ v6' > 0 /\ v5' = "first"
    BY <2>a, <2>b
  <2>4. CASE v10'
    <3>1. v11' = [n EXCEPT !.started = @ + 1] /\ Benchmark!Uncounted' = 1
      BY <1>4, <2>1, <2>3, <2>4 DEF Benchmark!StartTurn, Benchmark!Uncounted
    <3> QED
      BY <2>2, <2>3, <3>1 DEF AllCounted, Stats
  <2>5. CASE ~v10'
    <3>1. v11' = n /\ Benchmark!Uncounted' = 0
      BY <1>4, <2>1, <2>5 DEF Benchmark!StartTurn, Benchmark!Uncounted
    <3> QED
      BY <2>2, <2>3, <3>1 DEF AllCounted
  <2> QED
    BY <2>4, <2>5
<1>5. CASE Benchmark!SentAudioFile
  BY <1>1, <1>5 DEF Benchmark!SentAudioFile, Benchmark!Uncounted
<1>6. CASE Benchmark!AwaitFirstBotFrame
  <2>1. UNCHANGED <<v6, v10, v11>> /\ v5 = "first"
    BY <1>6 DEF Benchmark!AwaitFirstBotFrame
  <2>2. v5' \in {"drain", "first", "over"} \/ (v5' = "settle" /\ v9' # "late")
    <3>1. PICK e \in Benchmark!Heads :
            \/ v5' \in {"drain", "over", v5}
            \/ /\ Benchmark!Verdict(e) \in {"ended", "terminal", "error"} /\ v5' = "settle"
               /\ v9' = IF Benchmark!Verdict(e) = "ended" THEN "silent" ELSE Benchmark!Verdict(e)
      BY <1>6 DEF Benchmark!AwaitFirstBotFrame, Benchmark!Ends
    <3> QED
      BY <2>1, <3>1
  <2> QED
    BY <1>1, <2>1, <2>2 DEF Benchmark!Uncounted
<1>7. CASE Benchmark!TurnTimesOut
  <2>1. PICK n : n = v11
    OBVIOUS
  <2>2. n \in Stats /\ n.started \in Nat /\ n.valid \in Nat /\ n.barge \in Nat /\ n.failed \in Nat
    BY <2>1 DEF TypedBench, Stats
  <2>3. Benchmark!Uncounted' = 0 /\ Benchmark!Uncounted = IF v10 THEN 1 ELSE 0
    BY <1>7 DEF Benchmark!TurnTimesOut, Benchmark!Uncounted
  <2>4. n.valid + n.barge + n.failed + (IF v10 THEN 1 ELSE 0) = n.started
    BY <1>7, <2>1, <2>3 DEF AllCounted, Benchmark!TurnTimesOut
  <2>5. v11' = IF v10 THEN [n EXCEPT !.failed = @ + 1] ELSE n
    BY <1>7, <2>1 DEF Benchmark!TurnTimesOut
  <2>6. CASE v10
    BY <2>2, <2>3, <2>4, <2>5, <2>6 DEF AllCounted, Stats
  <2>7. CASE ~v10
    BY <2>2, <2>3, <2>4, <2>5, <2>7 DEF AllCounted
  <2> QED
    BY <2>6, <2>7
<1>8. CASE Benchmark!IntroTimesOut
  BY <1>1, <1>8 DEF Benchmark!IntroTimesOut, Benchmark!Uncounted
<1>9. CASE Benchmark!DrainTimesOut
  BY <1>1, <1>9 DEF Benchmark!DrainTimesOut, Benchmark!Uncounted
<1>10. CASE Benchmark!DrainUtterance
  <2>1. UNCHANGED <<v6, v10, v11>> /\ v5 = "drain"
    BY <1>10 DEF Benchmark!DrainUtterance
  <2>2. v5' \in {"drain", "over"} \/ (v5' = "settle" /\ v9' # "late")
    BY <1>10, <2>1 DEF Benchmark!DrainUtterance, Benchmark!Ends
  <2> QED
    BY <1>1, <2>1, <2>2 DEF Benchmark!Uncounted
<1>11. CASE Benchmark!SettleTurn
  <2>1. CASE Benchmark!Recorded(v12)
    BY <1>11, <2>1, CountedOnce DEF Benchmark!SettleTurn
  <2>2. CASE v5' = "barrier" /\ v11' = v11
    <3>1. v5 = "settle" /\ UNCHANGED <<v6, v9, v10>>
      BY <1>11 DEF Benchmark!SettleTurn
    <3> QED
      BY <1>1, <2>2, <3>1 DEF Benchmark!Uncounted
  <2> QED
    BY <1>11, <2>1, <2>2 DEF Benchmark!SettleTurn
<1>12. CASE Benchmark!CancelActiveResponse
  <2>1. v5 = "barrier" /\ UNCHANGED <<v6, v9, v10>>
    BY <1>12 DEF Benchmark!CancelActiveResponse
  <2>2. (\E s : Benchmark!Recorded(s)) \/ v5' = "over" \/ (v5' = v5 /\ v11' = v11)
    BY <1>12 DEF Benchmark!CancelActiveResponse, Benchmark!BarrierFails, Benchmark!Ends
  <2>3. CASE \E s : Benchmark!Recorded(s)
    BY <2>1, <2>3, CountedOnce
  <2>4. CASE v5' = "over"
    BY <2>4 DEF AllCounted
  <2>5. CASE v5' = v5 /\ v11' = v11
    BY <1>1, <2>1, <2>5 DEF Benchmark!Uncounted
  <2> QED
    BY <2>2, <2>3, <2>4, <2>5
<1>13. CASE Benchmark!ContinuousAudioLoopEnds \/ Benchmark!SessionBreaks
  BY <1>13 DEF Benchmark!ContinuousAudioLoopEnds, Benchmark!SessionBreaks, Benchmark!Ends, AllCounted
<1> QED
  BY <1>2, <1>3, <1>4, <1>5, <1>6, <1>7, <1>8, <1>9, <1>10, <1>11, <1>12, <1>13 DEF Benchmark!Next

\* The invariant of one benchmark client, step by step.
LEMMA BenchPhases ==
  ASSUME Benchmark!Inv, Benchmark!Next
  PROVE  /\ v5' = "connecting" => v5 = "connecting" /\ UNCHANGED <<v6, v14, v15>>
         /\ v5' = "barrier" => Benchmark!NeedsCancel'
<1>1. v5' = "connecting" => v5 = "connecting" /\ UNCHANGED <<v6, v14, v15>>
  <2>1. CASE Benchmark!ServerTakes \/ Benchmark!ServerBegins \/ Benchmark!ServerSpeaks \/ Benchmark!ServerErrs
    BY <2>1 DEF Benchmark!ServerTakes, Benchmark!ServerBegins, Benchmark!ServerSpeaks, Benchmark!ServerErrs,
       Benchmark!client
  <2>2. CASE Benchmark!Configured \/ Benchmark!SentAudioFile
    BY <2>2 DEF Benchmark!Configured, Benchmark!SentAudioFile, Benchmark!SessionBegins, Benchmark!Ends
  <2>3. CASE \/ Benchmark!StartTurn \/ Benchmark!AwaitFirstBotFrame \/ Benchmark!TurnTimesOut
             \/ Benchmark!IntroTimesOut \/ Benchmark!DrainTimesOut \/ Benchmark!DrainUtterance
             \/ Benchmark!ContinuousAudioLoopEnds \/ Benchmark!SessionBreaks
    BY <2>3 DEF Benchmark!StartTurn, Benchmark!AwaitFirstBotFrame, Benchmark!TurnTimesOut,
       Benchmark!IntroTimesOut, Benchmark!DrainTimesOut, Benchmark!DrainUtterance,
       Benchmark!ContinuousAudioLoopEnds, Benchmark!SessionBreaks, Benchmark!Ends
  <2>4. CASE Benchmark!SettleTurn \/ Benchmark!CancelActiveResponse
    BY <2>4 DEF Benchmark!SettleTurn, Benchmark!CancelActiveResponse, Benchmark!BarrierFails,
       Benchmark!Recorded, Benchmark!Ends
  <2> QED
    BY <2>1, <2>2, <2>3, <2>4 DEF Benchmark!Next
<1>2. ASSUME v5' = "barrier" PROVE Benchmark!NeedsCancel'
  <2>1. CASE v5 = "barrier" /\ UNCHANGED <<v1, v9>>
    BY <2>1 DEF Benchmark!Inv, Benchmark!NeedsCancel
  <2>2. CASE Benchmark!ServerTakes \/ Benchmark!ServerBegins \/ Benchmark!ServerSpeaks \/ Benchmark!ServerErrs
    BY <1>2, <2>1, <2>2 DEF Benchmark!ServerTakes, Benchmark!ServerBegins, Benchmark!ServerSpeaks,
       Benchmark!ServerErrs, Benchmark!client
  <2>3. CASE Benchmark!SentAudioFile
    BY <1>2, <2>1, <2>3 DEF Benchmark!SentAudioFile
  <2>4. CASE Benchmark!SettleTurn
    BY <1>2, <2>4 DEF Benchmark!SettleTurn, Benchmark!NeedsCancel, Benchmark!Recorded
  <2>5. CASE Benchmark!CancelActiveResponse
    BY <1>2, <2>1, <2>5 DEF Benchmark!CancelActiveResponse
  <2>6. CASE \/ Benchmark!Configured \/ Benchmark!StartTurn \/ Benchmark!AwaitFirstBotFrame \/ Benchmark!TurnTimesOut
             \/ Benchmark!IntroTimesOut \/ Benchmark!DrainTimesOut \/ Benchmark!DrainUtterance
             \/ Benchmark!ContinuousAudioLoopEnds \/ Benchmark!SessionBreaks
    BY <1>2, <2>6 DEF Benchmark!Configured, Benchmark!SessionBegins, Benchmark!StartTurn,
       Benchmark!AwaitFirstBotFrame, Benchmark!TurnTimesOut, Benchmark!IntroTimesOut, Benchmark!DrainTimesOut,
       Benchmark!DrainUtterance, Benchmark!ContinuousAudioLoopEnds, Benchmark!SessionBreaks, Benchmark!Ends
  <2> QED
    BY <2>2, <2>3, <2>4, <2>5, <2>6 DEF Benchmark!Next
<1> QED
  BY <1>1, <1>2

LEMMA RealtimeStays ==
  ASSUME Benchmark!Inv, v1 = "realtime", Benchmark!Next
  PROVE  v1' = "realtime" /\ Steadier
<1>0. Steady
  BY DEF Benchmark!Inv, Benchmark!TurnsKeptApart, Steady, Ordered, MeteredApart
<1>1. CASE Benchmark!ServerTakes \/ Benchmark!ServerBegins \/ Benchmark!ServerSpeaks \/ Benchmark!ServerErrs
  <2>1. Moved
    BY <1>1, ServerMoves DEF Benchmark!Inv
  <2>2. UNCHANGED <<v1, v5, v6, v9, v12, v13, v14, v15>>
    BY <1>1 DEF Benchmark!ServerTakes, Benchmark!ServerBegins, Benchmark!ServerSpeaks, Benchmark!ServerErrs,
       Benchmark!client
  <2> QED
    BY <1>0, <2>1, <2>2, ServerSteady
<1>2. CASE Benchmark!Configured
  BY <1>0, <1>2, ConfiguredSteady DEF Benchmark!Configured
<1>3. CASE Benchmark!AwaitFirstBotFrame
  BY <1>0, <1>3, FirstFrameSteady DEF Benchmark!AwaitFirstBotFrame
<1>4. CASE Benchmark!DrainUtterance
  BY <1>0, <1>4, DrainSteady DEF Benchmark!DrainUtterance
<1>5. CASE Benchmark!CancelActiveResponse
  BY <1>0, <1>5, BarrierSteady DEF Benchmark!CancelActiveResponse
<1>6. CASE \/ Benchmark!StartTurn \/ Benchmark!SentAudioFile \/ Benchmark!TurnTimesOut
           \/ Benchmark!IntroTimesOut \/ Benchmark!DrainTimesOut \/ Benchmark!SettleTurn
  <2>1. v1' = v1
    BY <1>6 DEF Benchmark!StartTurn, Benchmark!SentAudioFile, Benchmark!TurnTimesOut, Benchmark!IntroTimesOut,
       Benchmark!DrainTimesOut, Benchmark!SettleTurn
  <2> QED
    BY <1>0, <1>6, <2>1, QuietSteady
<1>7. CASE Benchmark!ContinuousAudioLoopEnds \/ Benchmark!SessionBreaks
  BY <1>0, <1>7, ClosedSteady DEF Benchmark!ContinuousAudioLoopEnds, Benchmark!SessionBreaks
<1> QED
  BY <1>1, <1>2, <1>3, <1>4, <1>5, <1>6, <1>7 DEF Benchmark!Next

LEMMA BenchStep == Benchmark!Inv /\ Benchmark!Next => Benchmark!Inv'
<1> SUFFICES ASSUME Benchmark!Inv, Benchmark!Next PROVE Benchmark!Inv'
  OBVIOUS
<1>1. Benchmark!TypeOK'
  BY BenchKeepsTypes
<1>2. TypedBench /\ v1 \in {"realtime", "rtvi"}
  BY BenchTypes DEF Benchmark!Inv, TypedBench
<1>3. AllCounted'
  BY <1>2, AllCountedKept DEF Benchmark!Inv, AllCounted
<1>4. /\ v5' = "connecting" => v6' = 0 /\ v14' = {} /\ v15' = {}
      /\ v5' = "barrier" => Benchmark!NeedsCancel'
  BY BenchPhases DEF Benchmark!Inv
<1>5. v5' = "loop" => v11'.valid + v11'.barge + v11'.failed = v11'.started
  <2>1. PICK n : n = v11'
    OBVIOUS
  <2>2. TypedBench'
    BY <1>1 DEF Benchmark!TypeOK, ServerState, Stats, TypedBench
  <2>3. n.valid \in Nat /\ n.barge \in Nat /\ n.failed \in Nat
    BY <2>1, <2>2 DEF TypedBench, Stats
  <2>4. v5' = "loop" => Benchmark!Uncounted' = 0
    BY DEF Benchmark!Uncounted
  <2> QED
    BY <1>3, <2>1, <2>3, <2>4 DEF AllCounted
<1>6. CASE v1 = "realtime"
  <2>1. v1' = "realtime" /\ Steadier
    BY <1>6, RealtimeStays
  <2>2. Benchmark!TurnsKeptApart'
    BY <1>5, <2>1 DEF Steadier, MeteredApart, Benchmark!TurnsKeptApart
  <2> QED
    BY <1>1, <1>3, <1>4, <2>1, <2>2 DEF Steadier, AllCounted, Benchmark!Inv
<1>7. CASE v1 = "rtvi"
  <2>1. RtviOnly
    BY <1>7 DEF Benchmark!Inv, RtviOnly
  <2>2. v1' = "rtvi" /\ RtviOnly'
    BY <1>7, <2>1, RtviStays
  <2>3. Benchmark!TurnsKeptApart'
    BY <1>5, <2>2 DEF RtviOnly, Benchmark!TurnsKeptApart
  <2> QED
    BY <1>1, <1>3, <1>4, <2>2, <2>3 DEF RtviOnly, AllCounted, Benchmark!Inv
<1> QED
  BY <1>2, <1>6, <1>7

LEMMA BenchInit == Benchmark!Init => Benchmark!Inv
<1> SUFFICES ASSUME Benchmark!Init PROVE Benchmark!Inv
  OBVIOUS
<1>0. /\ v1 \in {"realtime", "rtvi"} /\ v2 \in {<<"update">>, <<>>}
      /\ v4 \in [active : {0}, owed : 0..1, begun : {0}, audio : {0}, errors : {0}]
      /\ v6 = 0 /\ v7 = FALSE /\ v8 = FALSE /\ v9 = "" /\ v10 = FALSE /\ v13 = 0
      /\ v11 = [started |-> 0, valid |-> 0, barge |-> 0, failed |-> 0]
  BY DEF Benchmark!Init
<1>1. Benchmark!TypeOK
  <2>a. "update" \in {"update", "speech", "cancel"}
    OBVIOUS
  <2>b. <<"update">> \in Seq({"update", "speech", "cancel"}) /\ <<>> \in Seq({"update", "speech", "cancel"})
    BY <2>a
  <2>1. v2 \in Seq({"update", "speech", "cancel"})
    BY <1>0, <2>b
  <2>2. v3 \in Seq(Benchmark!EventSet) /\ v12 \in Seq(Nat \ {0}) /\ v5 = "connecting" /\ v14 = {} /\ v15 = {}
    <3>1. v3 = <<>> /\ v12 = <<>> /\ v5 = "connecting" /\ v14 = {} /\ v15 = {}
      BY DEF Benchmark!Init
    <3> QED
      BY <3>1
  <2>c. {0} \subseteq Nat /\ 0..1 \subseteq Nat
    OBVIOUS
  <2>3. v4 \in ServerState
    BY <1>0, <2>c, Zenon DEF ServerState
  <2>4. v11 \in Stats
    BY <1>0 DEF Stats
  <2>5. v9 \in Benchmark!Reasons
    BY <1>0 DEF Benchmark!Reasons
  <2> QED
    BY <1>0, <2>1, <2>2, <2>3, <2>4, <2>5, BenchTypes DEF TypedBench
<1>2. v3 = <<>> /\ v12 = <<>> /\ v14 = {} /\ v15 = {} /\ v5 = "connecting" /\ v6 = 0 /\ v4.active = 0
      /\ v4.begun = 0
  BY DEF Benchmark!Init
<1>3. v11.valid + v11.barge + v11.failed + Benchmark!Uncounted = v11.started
  <2>1. v11.valid = 0 /\ v11.barge = 0 /\ v11.failed = 0 /\ v11.started = 0
    BY <1>0
  <2>2. Benchmark!Uncounted = 0
    BY <1>0 DEF Benchmark!Uncounted
  <2> QED
    BY <2>1, <2>2
<1>4. Benchmark!InOrder /\ Benchmark!HeardInOrder /\ Benchmark!EventsInOrder
  BY <1>2 DEF Benchmark!InOrder, Benchmark!HeardInOrder, Benchmark!EventsInOrder
<1>5. Benchmark!TurnsKeptApart
  BY <1>2 DEF Benchmark!TurnsKeptApart
<1> QED
  BY <1>1, <1>2, <1>3, <1>4, <1>5 DEF Benchmark!Inv

LEMMA BenchUnchanged == Benchmark!Inv /\ UNCHANGED Benchmark!vars => Benchmark!Inv'
<1> SUFFICES ASSUME Benchmark!Inv, UNCHANGED Benchmark!vars PROVE Benchmark!Inv'
  OBVIOUS
<1>1. UNCHANGED <<v1, v2, v3, v4, v5, v6, v7, v8, v9, v10, v11, v12, v13, v14, v15>>
  BY DEF Benchmark!vars, Benchmark!client
<1>2. Benchmark!TypeOK' /\ Benchmark!TurnsKeptApart'
  BY <1>1 DEF Benchmark!Inv, Benchmark!TypeOK, Benchmark!TurnsKeptApart
<1>3. (Benchmark!Uncounted = Benchmark!Uncounted') /\ (v5' = "barrier" => Benchmark!NeedsCancel')
  BY <1>1 DEF Benchmark!Inv, Benchmark!Uncounted, Benchmark!NeedsCancel
<1>4. CASE v1 = "realtime"
  <2>1. Steady /\ Moved
    BY <1>1, <1>4 DEF Benchmark!Inv, Benchmark!TurnsKeptApart, Steady, Ordered, MeteredApart, Moved, Stood
  <2>2. Steadier
    BY <1>1, <2>1, ServerSteady
  <2> QED
    BY <1>1, <1>2, <1>3, <1>4, <2>2 DEF Steadier, Benchmark!Inv
<1>5. CASE v1 # "realtime"
  BY <1>1, <1>2, <1>3, <1>5 DEF Benchmark!Inv
<1> QED
  BY <1>4, <1>5
=============================================================================
