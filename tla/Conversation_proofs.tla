------------------------ MODULE Conversation_proofs ------------------------
(***************************************************************************)
(* What TLAPS proves of a conversation on its way to the model and back.   *)
(* Of the streaming LLM client (StreamingClient), for any words, turns,    *)
(* interims and websockets: as long as every commit on the websocket       *)
(* rendered, the answer read is that of the turn committed.  Of the        *)
(* diarization (Diarization), for any words and results: the browser and   *)
(* the LLM agree on who said what and where words are cut.                 *)
(*                                                                         *)
(* The variables are those of MCSessions: of the client, v1 is at, v2 job, *)
(* v3 session, v4 link, v5 toServer, v6 toClient, v7 server, v8 history,   *)
(* v9 updates, v10 links, v11 yielded, v12 marred.                         *)
(***************************************************************************)
EXTENDS MCSessions, SequenceTheorems, WellFoundedInduction, TLAPS

(***************************************************************************)
(* Induction over the naturals, for the recursions of both components.     *)
(***************************************************************************)
\* A nonempty set of naturals has a least element.
LEMMA Least ==
  ASSUME NEW T, T \subseteq Nat, T # {} PROVE \E x \in T : \A y \in T : x <= y
<1>1. \E x \in T : \A y \in T : ~ (<<y, x>> \in OpToRel(<,Nat))
  BY WFMin, NatLessThanWellFounded, Zenon
<1>2. PICK x \in T : \A y \in T : ~ (<<y, x>> \in OpToRel(<,Nat))
  BY <1>1, Zenon
<1>3. \A y \in T : ~(y < x)
  BY <1>2, Zenon DEF OpToRel
<1> QED
  BY <1>3

\* A set that holds 0 and the successor of each of its naturals holds them all.
LEMMA Induction ==
  ASSUME NEW S, 0 \in S, \A n \in Nat : n \in S => n + 1 \in S PROVE Nat \subseteq S
<1> DEFINE T == Nat \ S
<1> SUFFICES ASSUME T # {} PROVE FALSE
  OBVIOUS
<1>1. PICK x \in T : \A y \in T : x <= y
  BY Least, Zenon
<1>2. x # 0 /\ x - 1 \in Nat /\ x - 1 \notin T
  BY <1>1
<1> QED
  BY <1>1, <1>2

(***************************************************************************)
(* What the server goes through as it serves a queue of events.            *)
(***************************************************************************)
ServerEvent == Client!Events(Client!ServerEvents)
ClientEvent == Client!Events(Client!ClientEvents)

\* run is the sessions the server goes through from s on.
Walk(q, s, run) ==
    run[0] = s /\ \A i \in 1..Len(q) : run[i] = Client!Served(run[i - 1], q[i])

\* Serving q takes the session from s to t, and the commit of turn id finds asked.
AskedIn(q, run, id, asked) ==
    \A i \in 1..Len(q) :
        (q[i].type = "input_text_buffer.commit" /\ q[i].id = id) => run[i - 1] = asked
Reaches(q, s, t, id, asked) ==
    \E run : Walk(q, s, run) /\ run[Len(q)] = t /\ AskedIn(q, run, id, asked)

LEMMA ServingWalks ==
  ASSUME NEW q, NEW s, Len(q) \in Nat PROVE Walk(q, s, Client!Serving(q, s))
<1> DEFINE Step(run, i) == IF i = 0 THEN s ELSE Client!Served(run[i - 1], q[i])
           S == {n \in Nat : \E run : run = [i \in 0 .. n |-> Step(run, i)]}
<1>1. Client!Serving(q, s) = CHOOSE run : run = [i \in 0 .. Len(q) |-> Step(run, i)]
  BY DEF Client!Serving
<1>2. 0 \in S
  <2> DEFINE run == [i \in 0 .. 0 |-> s]
  <2>1. run = [i \in 0 .. 0 |-> Step(run, i)]
    OBVIOUS
  <2> QED
    BY <2>1, Zenon
<1>3. ASSUME NEW n \in Nat, n \in S PROVE n + 1 \in S
  <2>1. PICK run : run = [i \in 0 .. n |-> Step(run, i)]
    BY <1>3
  <2> HIDE DEF Step
  <2> DEFINE more == [i \in 0 .. (n + 1) |-> IF i = n + 1 THEN Step(run, i) ELSE run[i]]
  <2>2. \A i \in 0 .. (n + 1) : i # 0 => i - 1 \in 0 .. n /\ more[i - 1] = run[i - 1]
    OBVIOUS
  <2>3. \A i \in 0 .. (n + 1) : Step(more, i) = Step(run, i)
    BY <2>2 DEF Step
  <2>4. \A i \in 0 .. (n + 1) : more[i] = Step(more, i)
    BY <2>1, <2>3
  <2>5. more = [i \in 0 .. (n + 1) |-> Step(more, i)]
    BY <2>4
  <2> HIDE DEF more
  <2>6. \E r : r = [i \in 0 .. (n + 1) |-> Step(r, i)]
    BY <2>5, Zenon
  <2> QED
    BY <2>6
<1>4. Len(q) \in S
  <2> HIDE DEF S
  <2> QED
    BY <1>2, <1>3, Induction
<1>5. \E run : run = [i \in 0 .. Len(q) |-> Step(run, i)]
  BY <1>4
<1> HIDE DEF Step
<1>6. Client!Serving(q, s) = [i \in 0 .. Len(q) |-> Step(Client!Serving(q, s), i)]
  BY <1>1, <1>5, Zenon
<1>7. \A i \in 0 .. Len(q) : Client!Serving(q, s)[i] = Step(Client!Serving(q, s), i)
  BY <1>6
<1> QED
  BY <1>7 DEF Walk, Step

\* Two walks are the same walk.
LEMMA OneWalk ==
  ASSUME NEW q, Len(q) \in Nat, NEW s, NEW run, NEW other, Walk(q, s, run), Walk(q, s, other)
  PROVE  \A i \in 0 .. Len(q) : run[i] = other[i]
<1> DEFINE S == {n \in Nat : n <= Len(q) => run[n] = other[n]}
<1>1. 0 \in S
  BY DEF Walk
<1>2. ASSUME NEW n \in Nat, n \in S PROVE n + 1 \in S
  <2> SUFFICES ASSUME n + 1 <= Len(q) PROVE run[n + 1] = other[n + 1]
    OBVIOUS
  <2>1. run[n] = other[n] /\ n + 1 \in 1..Len(q) /\ (n + 1) - 1 = n
    BY <1>2
  <2> QED
    BY <2>1 DEF Walk
<1> HIDE DEF S
<1>3. Nat \subseteq S
  BY <1>1, <1>2, Induction
<1> USE DEF S
<1> QED
  BY <1>3

\* The walk of the specification is the one there is.
LEMMA ServingReaches ==
  ASSUME NEW q, Len(q) \in Nat, NEW s, NEW t, NEW id, NEW asked
  PROVE  Reaches(q, s, t, id, asked)
           <=> Client!Serving(q, s)[Len(q)] = t /\ AskedIn(q, Client!Serving(q, s), id, asked)
<1> DEFINE own == Client!Serving(q, s)
<1>1. Walk(q, s, own)
  BY ServingWalks
<1> HIDE DEF own
<1>2. ASSUME NEW run, Walk(q, s, run)
      PROVE  run[Len(q)] = own[Len(q)] /\ (AskedIn(q, run, id, asked) <=> AskedIn(q, own, id, asked))
  <2>1. \A i \in 0 .. Len(q) : run[i] = own[i]
    BY <1>1, <1>2, OneWalk
  <2>2. \A i \in 1 .. Len(q) : i - 1 \in 0 .. Len(q)
    OBVIOUS
  <2> QED
    BY <2>1, <2>2 DEF AskedIn
<1> QED
  BY <1>1, <1>2 DEF Reaches, own

LEMMA NothingToServe == \A s, t, id, asked : Reaches(<<>>, s, t, id, asked) <=> s = t
<1> SUFFICES ASSUME NEW s, NEW t, NEW id, NEW asked PROVE Reaches(<<>>, s, t, id, asked) <=> s = t
  OBVIOUS
<1>1. s = t => Walk(<<>>, s, [i \in {0} |-> t]) /\ AskedIn(<<>>, [i \in {0} |-> t], id, asked)
               /\ [i \in {0} |-> t][Len(<<>>)] = t
  BY DEF Walk, AskedIn
<1>2. Len(<<>>) = 0
  OBVIOUS
<1> QED
  BY <1>1, <1>2 DEF Reaches, Walk

\* One event more at the end of the queue.
LEMMA ServesMore ==
  ASSUME NEW q \in Seq(ServerEvent), NEW e \in ServerEvent, NEW s, NEW t, NEW id, NEW asked,
         Reaches(q, s, t, id, asked),
         (e.type = "input_text_buffer.commit" /\ e.id = id) => t = asked
  PROVE  Reaches(Append(q, e), s, Client!Served(t, e), id, asked)
<1>1. PICK run : Walk(q, s, run) /\ run[Len(q)] = t /\ AskedIn(q, run, id, asked)
  BY DEF Reaches
<1> DEFINE n == Len(q)
           p == Append(q, e)
           more == [i \in 0 .. (n + 1) |-> IF i = n + 1 THEN Client!Served(t, e) ELSE run[i]]
<1>2. n \in Nat /\ Len(p) = n + 1 /\ p[n + 1] = e /\ \A i \in 1..n : p[i] = q[i]
  BY AppendProperties
<1>3. more[0] = s /\ more[n] = t /\ more[n + 1] = Client!Served(t, e)
  BY <1>1, <1>2 DEF Walk
<1>4. \A i \in 1..n : more[i] = run[i] /\ more[i - 1] = run[i - 1] /\ p[i] = q[i]
  BY <1>2
<1>5. \A i \in 1..(n + 1) : i \in 1..n \/ (i = n + 1 /\ i - 1 = n)
  BY <1>2
<1> HIDE DEF p, n, more
<1>6. Walk(p, s, more)
  BY <1>1, <1>2, <1>3, <1>4, <1>5 DEF Walk, n
<1>7. AskedIn(p, more, id, asked)
  BY <1>1, <1>2, <1>3, <1>4, <1>5 DEF AskedIn, n
<1>8. more[Len(p)] = Client!Served(t, e)
  BY <1>2, <1>3
<1> QED
  BY <1>6, <1>7, <1>8 DEF Reaches, p

\* The first event of the queue, served.
LEMMA ServesHead ==
  ASSUME NEW q \in Seq(ServerEvent), q # <<>>, NEW s, NEW t, NEW id, NEW asked,
         Reaches(q, s, t, id, asked)
  PROVE  /\ Reaches(Tail(q), Client!Served(s, Head(q)), t, id, asked)
         /\ (Head(q).type = "input_text_buffer.commit" /\ Head(q).id = id) => s = asked
<1>1. PICK run : Walk(q, s, run) /\ run[Len(q)] = t /\ AskedIn(q, run, id, asked)
  BY DEF Reaches
<1> DEFINE n == Len(q)
           p == Tail(q)
           rest == [i \in 0 .. (n - 1) |-> run[i + 1]]
<1>2. /\ n \in Nat \ {0} /\ Len(p) = n - 1 /\ Head(q) = q[1]
      /\ \A i \in 1..(n - 1) : p[i] = q[i + 1]
  BY HeadTailProperties, LenProperties, EmptySeq
<1>3. rest[0] = Client!Served(s, Head(q)) /\ rest[n - 1] = t
  BY <1>1, <1>2 DEF Walk
<1>4. \A i \in 1..(n - 1) : /\ rest[i] = run[i + 1] /\ rest[i - 1] = run[i] /\ p[i] = q[i + 1]
                           /\ i + 1 \in 1..n /\ (i + 1) - 1 = i
  BY <1>2
<1> HIDE DEF p, n, rest
<1>5. Walk(p, Client!Served(s, Head(q)), rest)
  BY <1>1, <1>2, <1>3, <1>4 DEF Walk, n
<1>6. ASSUME NEW i \in 1..(n - 1), p[i].type = "input_text_buffer.commit", p[i].id = id
      PROVE  rest[i - 1] = asked
  <2>1. /\ i + 1 \in 1..Len(q) /\ (i + 1) - 1 = i
        /\ q[i + 1].type = "input_text_buffer.commit" /\ q[i + 1].id = id
        /\ rest[i - 1] = run[i]
    BY <1>4, <1>6 DEF n
  <2>2. run[(i + 1) - 1] = asked
    BY <1>1, <2>1 DEF AskedIn
  <2> QED
    BY <2>1, <2>2
<1>7. AskedIn(p, rest, id, asked)
  BY <1>2, <1>6, Zenon DEF AskedIn
<1>8. (Head(q).type = "input_text_buffer.commit" /\ Head(q).id = id) => s = asked
  BY <1>1, <1>2 DEF AskedIn, Walk, n
<1> QED
  BY <1>2, <1>3, <1>5, <1>7, <1>8 DEF Reaches, p

\* A turn none of whose commits is on its way may ask anything.
LEMMA ServesOther ==
  ASSUME NEW q, NEW s, NEW t, NEW id, NEW asked, NEW now, NEW wanted,
         Reaches(q, s, t, id, asked), \A i \in 1..Len(q) : q[i].id # now
  PROVE  Reaches(q, s, t, now, wanted)
BY DEF Reaches, AskedIn

(***************************************************************************)
(* The invariant, with the walk in place of its recursion.                 *)
(***************************************************************************)
Held == Client!Believed(v7.request, v7.text)
Asked == Client!Believed(v2.request, v2.text)
Owed == (v4 = "up" /\ v1 # "created" /\ ~v12) => Reaches(v5, Held, v3, v8, Asked)
Sound ==
    /\ Client!TypeOK /\ Client!IdsOfTurnsSent /\ Client!FreshWithoutLink /\ Owed
    /\ Client!AnswerOfTurn /\ Client!UnmarredAnswers

\* The last turn a commit may be of.
Sent == IF v1 = "streaming" THEN v8 ELSE v8 - 1
UpTo(q, n) == \A i \in 1..Len(q) : q[i].id <= n

LEMMA SoundIsInv == Sound => Client!Inv
<1> SUFFICES ASSUME Sound PROVE Client!BelievedOnceServed
  BY DEF Sound, Client!Inv
<1>1. v5 \in Seq(ServerEvent)
  BY DEF Sound, Client!TypeOK, ServerEvent
<1>2. Len(v5) \in Nat /\ DOMAIN v5 = 1..Len(v5)
  BY <1>1, LenProperties
<1>3. Owed
  BY DEF Sound
<1>4. Owed => Client!BelievedOnceServed
  BY <1>2, ServingReaches DEF Owed, AskedIn, Client!BelievedOnceServed, Held, Asked
<1> QED
  BY <1>3, <1>4

LEMMA IdsAre ==
  ASSUME Client!TypeOK
  PROVE  Client!IdsOfTurnsSent <=> /\ v1 # "idle" => v2.request = v8
                                   /\ v1 = "streaming" => v2.commit
                                   /\ UpTo(v5, Sent) /\ UpTo(v6, Sent) /\ v7.answer.id <= Sent
<1>1. DOMAIN v5 = 1..Len(v5) /\ DOMAIN v6 = 1..Len(v6)
  BY LenProperties DEF Client!TypeOK
<1> QED
  BY <1>1 DEF Client!IdsOfTurnsSent, Sent, UpTo

LEMMA IdsNext ==
  ASSUME Client!TypeOK', v1' # "idle" => v2'.request = v8', v1' = "streaming" => v2'.commit,
         UpTo(v5', Sent'), UpTo(v6', Sent'), v7'.answer.id <= Sent'
  PROVE  Client!IdsOfTurnsSent'
<1>1. DOMAIN v5' = 1..Len(v5') /\ DOMAIN v6' = 1..Len(v6')
  BY LenProperties DEF Client!TypeOK
<1> QED
  BY <1>1 DEF Client!IdsOfTurnsSent, Sent, UpTo

LEMMA UpToMore == ASSUME NEW T, NEW q \in Seq(T), NEW e \in T, NEW n, UpTo(q, n), e.id <= n
                  PROVE  Append(q, e) \in Seq(T) /\ UpTo(Append(q, e), n)
<1>1. /\ Append(q, e) \in Seq(T) /\ Len(Append(q, e)) = Len(q) + 1 /\ Append(q, e)[Len(q) + 1] = e
      /\ \A i \in 1..Len(q) : Append(q, e)[i] = q[i]
  BY AppendProperties
<1>2. Len(q) \in Nat
  BY LenProperties
<1> QED
  BY <1>1, <1>2 DEF UpTo
LEMMA UpToRest == ASSUME NEW T, NEW q \in Seq(T), q # <<>>, NEW n, UpTo(q, n)
                  PROVE  Tail(q) \in Seq(T) /\ UpTo(Tail(q), n) /\ Head(q) \in T /\ Head(q).id <= n
<1>1. /\ Tail(q) \in Seq(T) /\ Len(Tail(q)) = Len(q) - 1 /\ Head(q) = q[1] /\ Head(q) \in T
      /\ \A i \in 1..(Len(q) - 1) : Tail(q)[i] = q[i + 1]
  BY HeadTailProperties
<1>2. Len(q) \in Nat \ {0}
  BY LenProperties, EmptySeq
<1> QED
  BY <1>1, <1>2 DEF UpTo
LEMMA UpToNone == ASSUME NEW T, NEW n PROVE <<>> \in Seq(T) /\ UpTo(<<>>, n)
BY EmptySeq DEF UpTo
LEMMA Elements == ASSUME NEW T, NEW q \in Seq(T)
                  PROVE  Len(q) \in Nat /\ DOMAIN q = 1..Len(q) /\ \A i \in 1..Len(q) : q[i] \in T
BY LenProperties
LEMMA UpToHigher ==
  ASSUME NEW types, NEW q \in Seq(Client!Events(types)), NEW n \in Int, NEW m \in Int, UpTo(q, n), n <= m
  PROVE  UpTo(q, m) /\ (n < m => \A i \in 1..Len(q) : q[i].id # m)
<1>1. \A i \in 1..Len(q) : q[i].id \in Nat
  <2>1. \A i \in 1..Len(q) : q[i] \in Client!Events(types)
    BY Elements
  <2>2. \A e \in Client!Events(types) : e.id \in Nat
    BY DEF Client!Events
  <2> QED
    BY <2>1, <2>2
<1> QED
  BY <1>1 DEF UpTo

\* While a turn is not streamed, nothing sent is of it.
LEMMA NothingOfTurn ==
  ASSUME Client!TypeOK', Client!IdsOfTurnsSent', v1' # "streaming",
         v1' \in {"connecting", "created", "syncing"} => v11' = Client!NoAnswer.prompt
  PROVE  Client!AnswerOfTurn' /\ Client!UnmarredAnswers'
<1>1. v7'.answer.id # v8' /\ \A i \in DOMAIN v6' : v6'[i].id # v8'
  <2>1. v7'.answer.id \in Nat /\ v8' \in Nat
    BY DEF Client!TypeOK
  <2>2. \A i \in DOMAIN v6' : v6'[i].id \in Nat
    <3>1. v6' \in Seq(ClientEvent)
      BY DEF Client!TypeOK, ClientEvent
    <3>2. DOMAIN v6' = 1..Len(v6') /\ \A i \in 1..Len(v6') : v6'[i] \in ClientEvent
      BY <3>1, Elements
    <3>3. \A e \in ClientEvent : e.id \in Nat
      BY DEF ClientEvent, Client!Events
    <3> QED
      BY <3>2, <3>3
  <2> QED
    BY <2>1, <2>2 DEF Client!IdsOfTurnsSent
<1> QED
  BY <1>1 DEF Client!AnswerOfTurn, Client!UnmarredAnswers, Client!AnswersTheTurn

\* The facts every step starts from.
LEMMA Facts ==
  ASSUME Sound
  PROVE  /\ v1 \in {"idle", "connecting", "created", "syncing", "streaming"}
         /\ v2 \in [commit : BOOLEAN, request : Nat, text : Seq(UserWords)]
         /\ v3 \in Client!Sessions /\ v11 \in Client!Sessions /\ v4 \in {"down", "up", "lost"}
         /\ v5 \in Seq(ServerEvent) /\ v6 \in Seq(ClientEvent)
         /\ v7 \in [request : Nat, text : Seq(UserWords),
                    answer : [id : Nat, prompt : Client!Sessions, begun : BOOLEAN]]
         /\ v8 \in Nat \ {0} /\ v12 \in BOOLEAN
         /\ v1 # "idle" => v2.request = v8
         /\ v1 = "streaming" => v2.commit
         /\ UpTo(v5, Sent) /\ UpTo(v6, Sent) /\ v7.answer.id <= Sent /\ Sent \in Nat
         /\ v4 # "up" => v5 = <<>>
         /\ v1 = "connecting" => v4 = "down"
         /\ v1 = "created" => v4 # "down" /\ v5 = <<>>
         /\ (v4 = "down" \/ v1 = "created") => v7 = Client!FreshServer
         /\ v1 \in {"connecting", "created", "syncing"} => v11 = Client!NoAnswer.prompt
<1>1. Client!TypeOK /\ Client!IdsOfTurnsSent /\ Client!FreshWithoutLink /\ Client!AnswerOfTurn
  BY DEF Sound
<1>2. Sent \in Nat
  BY <1>1 DEF Client!TypeOK, Sent
<1>3. /\ v1 # "idle" => v2.request = v8
      /\ v1 = "streaming" => v2.commit
      /\ UpTo(v5, Sent) /\ UpTo(v6, Sent) /\ v7.answer.id <= Sent
  BY <1>1, IdsAre
<1>4. v1 \in {"connecting", "created", "syncing"} => v11 = Client!NoAnswer.prompt
  BY <1>1 DEF Client!AnswerOfTurn
<1>5. /\ v1 \in {"idle", "connecting", "created", "syncing", "streaming"}
      /\ v2 \in [commit : BOOLEAN, request : Nat, text : Seq(UserWords)]
      /\ v3 \in Client!Sessions /\ v11 \in Client!Sessions /\ v4 \in {"down", "up", "lost"}
      /\ v5 \in Seq(ServerEvent) /\ v6 \in Seq(ClientEvent)
      /\ v7 \in [request : Nat, text : Seq(UserWords),
                 answer : [id : Nat, prompt : Client!Sessions, begun : BOOLEAN]]
      /\ v8 \in Nat \ {0} /\ v12 \in BOOLEAN
  BY <1>1, Zenon DEF Client!TypeOK, ServerEvent, ClientEvent
<1>6. /\ v4 # "up" => v5 = <<>>
      /\ v1 = "connecting" => v4 = "down"
      /\ v1 = "created" => v4 # "down" /\ v5 = <<>>
      /\ (v4 = "down" \/ v1 = "created") => v7 = Client!FreshServer
  BY <1>1, Zenon DEF Client!FreshWithoutLink
<1> QED
  BY <1>2, <1>3, <1>4, <1>5, <1>6

(***************************************************************************)
(* The client's steps.                                                     *)
(***************************************************************************)
LEMMA TextsTyped == Client!Texts \subseteq Seq(UserWords) /\ <<>> \in Seq(UserWords)
<1>1. \A m \in Nat : [1..m -> UserWords] \subseteq Seq(UserWords)
  BY SeqDef
<1>2. \A m \in 0..MaxUserWords : m \in Nat
  OBVIOUS
<1> QED
  BY <1>1, <1>2, EmptySeq DEF Client!Texts, Client!SeqOf

LEMMA Constants ==
  /\ Client!NoAnswer \in [id : Nat, prompt : Client!Sessions, begun : BOOLEAN] /\ Client!NoAnswer.id = 0
  /\ Client!NoAnswer.prompt \in Client!Sessions /\ Client!FreshServer.answer = Client!NoAnswer
  /\ Client!FreshServer \in [request : Nat, text : Seq(UserWords),
                             answer : [id : Nat, prompt : Client!Sessions, begun : BOOLEAN]]
  /\ Client!NoJob \in [commit : BOOLEAN, request : Nat, text : Seq(UserWords)]
  /\ Client!Believed(0, <<>>) \in Client!Sessions
<1>1. Client!Believed(0, <<>>) \in Client!Sessions
  BY TextsTyped DEF Client!Believed, Client!Sessions
<1> QED
  BY <1>1, TextsTyped DEF Client!NoAnswer, Client!FreshServer, Client!NoJob, Client!Empty

LEMMA ClientInit == Client!Init => Sound
<1> SUFFICES ASSUME Client!Init PROVE Sound
  OBVIOUS
<1> USE DEF Client!Init
<1>1. Client!TypeOK
  <2>1. v5 \in Seq(ServerEvent) /\ v6 \in Seq(ClientEvent)
    BY EmptySeq
  <2>2. v3 \in Client!Sessions
    BY Constants DEF Client!Empty
  <2>3. v1 = "idle" /\ v4 = "down" /\ v12 \in BOOLEAN
    BY Zenon
  <2>4. v8 \in Nat \ {0}
    <3>1. v8 = 1
      BY Zenon
    <3> QED
      BY <3>1
  <2> QED
    BY <2>1, <2>2, <2>3, <2>4, Constants, Zenon DEF Client!TypeOK, ServerEvent, ClientEvent
<1>2. UpTo(v5, Sent) /\ UpTo(v6, Sent) /\ v7.answer.id <= Sent /\ v7.answer.id = 0
  BY Constants DEF UpTo, Sent
<1>3. Client!IdsOfTurnsSent
  BY <1>1, <1>2, IdsAre
<1>4. Client!FreshWithoutLink
  BY DEF Client!FreshWithoutLink
<1>5. Client!AnswerOfTurn /\ Client!UnmarredAnswers
  BY <1>2 DEF Client!AnswerOfTurn, Client!UnmarredAnswers, Client!AnswersTheTurn
<1> QED
  BY <1>1, <1>3, <1>4, <1>5 DEF Sound, Owed

LEMMA BeginKeeps ==
  ASSUME Sound, NEW commit \in BOOLEAN, NEW text \in Client!Texts, Client!Begin(commit, text)
  PROVE  Sound'
<1> DEFINE j == [commit |-> commit, request |-> v8, text |-> text]
<1>1. /\ v1 = "idle" /\ v2' = j /\ v1' = IF v4 = "down" THEN "connecting" ELSE "syncing"
      /\ v11' = Client!NoAnswer.prompt
      /\ UNCHANGED <<v3, v4, v5, v6, v7, v8, v10, v12>>
  BY DEF Client!Begin, Client!peer
<1>2. Client!TypeOK'
  <2>1. text \in Seq(UserWords)
    BY TextsTyped
  <2>2. v2' \in [commit : BOOLEAN, request : Nat, text : Seq(UserWords)]
    BY <1>1, <2>1, Facts
  <2> QED
    BY <1>1, <2>2, Constants, Facts DEF Client!TypeOK, ServerEvent, ClientEvent
<1>3. Client!IdsOfTurnsSent'
  <2>1. Sent' = Sent /\ v2'.request = v8
    BY <1>1 DEF Sent
  <2> QED
    BY <1>1, <1>2, <2>1, IdsNext, Facts
<1>4. Client!FreshWithoutLink'
  BY <1>1, Facts DEF Client!FreshWithoutLink
<1>5. Owed'
  <2> SUFFICES ASSUME v4 = "up", ~v12 PROVE Reaches(v5, Held, v3, v8, Asked')
    BY <1>1 DEF Owed, Held, Asked
  <2>1. Reaches(v5, Held, v3, v8, Asked)
    BY <1>1 DEF Owed, Sound
  <2>2. \A i \in 1..Len(v5) : v5[i].id # v8
    <3>1. Sent < v8 /\ Sent \in Int /\ v8 \in Int /\ UpTo(v5, Sent) /\ v5 \in Seq(Client!Events(Client!ServerEvents))
      BY <1>1, Facts DEF Sent, ServerEvent
    <3> QED
      BY <3>1, UpToHigher
  <2> QED
    BY <2>1, <2>2, ServesOther
<1>6. Client!AnswerOfTurn' /\ Client!UnmarredAnswers'
  BY <1>1, <1>2, <1>3, NothingOfTurn
<1> QED
  BY <1>2, <1>3, <1>4, <1>5, <1>6 DEF Sound

\* What the end of a handler makes of the ids.
LEMMA OverFacts ==
  ASSUME Sound, Client!Over
  PROVE  /\ v1' = "idle" /\ v2' = Client!NoJob /\ v8' \in Nat \ {0}
         /\ Sent' = v8' - 1 /\ Sent' \in Nat /\ Sent <= Sent' /\ Sent < v8'
<1>1. CASE v2.commit
  BY <1>1, Facts DEF Client!Over, Sent
<1>2. CASE ~v2.commit
  BY <1>2, Facts DEF Client!Over, Client!clock, Sent
<1> QED
  BY <1>1, <1>2

LEMMA OverIds ==
  ASSUME Sound, Client!Over
  PROVE  /\ UpTo(v5, v8' - 1) /\ UpTo(v6, v8' - 1) /\ v7.answer.id <= v8' - 1
         /\ \A i \in 1..Len(v5) : v5[i].id # v8'
<1>1. Sent <= v8' - 1 /\ v8' - 1 \in Int /\ Sent \in Int /\ Sent < v8' /\ v8' \in Int
  BY OverFacts, Facts
<1>2. v7.answer.id \in Nat /\ v7.answer.id <= Sent
  BY Facts
<1>3. /\ v5 \in Seq(Client!Events(Client!ServerEvents)) /\ UpTo(v5, Sent)
      /\ v6 \in Seq(Client!Events(Client!ClientEvents)) /\ UpTo(v6, Sent)
  BY Facts DEF ServerEvent, ClientEvent
<1>4. UpTo(v5, v8' - 1) /\ UpTo(v6, v8' - 1)
  BY <1>1, <1>3, UpToHigher
<1>5. \A i \in 1..Len(v5) : v5[i].id # v8'
  BY <1>1, <1>3, UpToHigher
<1> QED
  BY <1>1, <1>2, <1>4, <1>5

\* A handler that is over leaves the invariant to the queues, the server and the link.
LEMMA OverKeeps ==
  ASSUME Sound, Client!Over,
         v3' \in Client!Sessions, v11' \in Client!Sessions, v4' \in {"down", "up", "lost"},
         v12' \in BOOLEAN, v5' \in Seq(ServerEvent), v6' \in Seq(ClientEvent),
         v7' \in [request : Nat, text : Seq(UserWords),
                  answer : [id : Nat, prompt : Client!Sessions, begun : BOOLEAN]],
         UpTo(v5', v8' - 1), UpTo(v6', v8' - 1), v7'.answer.id <= v8' - 1,
         v4' # "up" => v5' = <<>>, v4' = "down" => v7' = Client!FreshServer,
         Owed'
  PROVE  Sound'
<1>1. v1' = "idle" /\ v2' = Client!NoJob /\ v8' \in Nat \ {0} /\ Sent' = v8' - 1
  BY OverFacts
<1>2. Client!TypeOK'
  BY <1>1, Constants DEF Client!TypeOK, ServerEvent, ClientEvent
<1>3. Client!IdsOfTurnsSent'
  BY <1>1, <1>2, IdsNext
<1>4. Client!FreshWithoutLink'
  BY <1>1 DEF Client!FreshWithoutLink
<1>5. Client!AnswerOfTurn' /\ Client!UnmarredAnswers'
  BY <1>1, <1>2, <1>3, NothingOfTurn
<1> QED
  BY <1>2, <1>3, <1>4, <1>5 DEF Sound

LEMMA ConnectKeeps == ASSUME Sound, Client!Connect PROVE Sound'
<1>1. v1 = "connecting" /\ UNCHANGED <<v3, v5, v6, v7, v11, v12>> /\ v4 = "down" /\ v5 = <<>> /\ v7 = Client!FreshServer
  BY Facts DEF Client!Connect, Client!peer
<1>2. CASE v4' = "up" /\ v1' = "created" /\ UNCHANGED <<v2, v8, v9>>
  <2>1. Client!TypeOK'
    BY <1>1, <1>2, Facts DEF Client!TypeOK, ServerEvent, ClientEvent
  <2>2. Client!IdsOfTurnsSent'
    <3>1. Sent' = Sent
      BY <1>1, <1>2 DEF Sent
    <3> QED
      BY <1>1, <1>2, <2>1, <3>1, IdsNext, Facts
  <2>3. Client!FreshWithoutLink'
    BY <1>1, <1>2 DEF Client!FreshWithoutLink
  <2>4. Owed'
    BY <1>2 DEF Owed
  <2>5. Client!AnswerOfTurn' /\ Client!UnmarredAnswers'
    BY <1>1, <1>2, <2>1, <2>2, NothingOfTurn, Facts
  <2> QED
    BY <2>1, <2>2, <2>3, <2>4, <2>5 DEF Sound
<1>3. CASE Client!Over /\ UNCHANGED <<v4, v10>>
  <2>1. Owed' /\ v4' = "down"
    BY <1>1, <1>3 DEF Owed
  <2>2. UpTo(v5', v8' - 1) /\ UpTo(v6', v8' - 1) /\ v7'.answer.id <= v8' - 1
    BY <1>1, <1>3, OverIds
  <2> QED
    BY <1>1, <1>3, <2>1, <2>2, OverKeeps, Facts
<1> QED
  BY <1>2, <1>3 DEF Client!Connect

LEMMA CreatedKeeps == ASSUME Sound, Client!Created PROVE Sound'
<1>1. /\ v1 = "created" /\ v4 = "up" /\ v3' = Client!Believed(Client!Empty, <<>>) /\ v1' = "syncing" /\ v12' = FALSE
      /\ UNCHANGED <<v2, v4, v5, v6, v7, v8, v9, v10, v11>>
  BY DEF Client!Created, Client!peer
<1>2. v5 = <<>> /\ v7 = Client!FreshServer
  BY <1>1, Facts
<1>3. Client!TypeOK'
  <2>1. v3' \in Client!Sessions
    BY <1>1, Constants DEF Client!Empty
  <2> QED
    BY <1>1, <2>1, Facts, Zenon DEF Client!TypeOK, ServerEvent, ClientEvent
<1>4. Client!IdsOfTurnsSent'
  <2>1. Sent' = Sent
    BY <1>1 DEF Sent
  <2> QED
    BY <1>1, <1>3, <2>1, IdsNext, Facts
<1>5. Client!FreshWithoutLink'
  BY <1>1, Facts DEF Client!FreshWithoutLink
<1>6. Owed'
  <2>1. Held' = v3'
    BY <1>1, <1>2 DEF Held, Client!FreshServer
  <2> QED
    BY <1>1, <1>2, <2>1, NothingToServe DEF Owed
<1>7. Client!AnswerOfTurn' /\ Client!UnmarredAnswers'
  BY <1>1, <1>3, <1>4, NothingOfTurn, Facts
<1> QED
  BY <1>3, <1>4, <1>5, <1>6, <1>7 DEF Sound

LEMMA FailsKeeps == ASSUME Sound, Client!Fails PROVE Sound'
<1>1. /\ Client!Over /\ v4' = "down" /\ v5' = <<>> /\ v6' = <<>> /\ v7' = Client!FreshServer
      /\ UNCHANGED <<v3, v10, v11, v12>>
  BY DEF Client!Fails, Client!Disconnected
<1>2. Owed'
  BY <1>1 DEF Owed
<1>3. UpTo(v5', v8' - 1) /\ UpTo(v6', v8' - 1) /\ v5' \in Seq(ServerEvent) /\ v6' \in Seq(ClientEvent)
  BY <1>1, UpToNone
<1>4. v7'.answer.id <= v8' - 1
  BY <1>1, OverFacts, Constants
<1> QED
  BY <1>1, <1>2, <1>3, <1>4, OverKeeps, Facts, Constants

LEMMA CloseKeeps == ASSUME Sound, Client!Close PROVE Sound'
<1>1. /\ v1 = "idle" /\ v4' = "down" /\ v5' = <<>> /\ v6' = <<>> /\ v7' = Client!FreshServer
      /\ UNCHANGED <<v1, v2, v3, v8, v9, v10, v11, v12>>
  BY DEF Client!Close, Client!Disconnected
<1>2. UpTo(v5', Sent') /\ UpTo(v6', Sent') /\ v5' \in Seq(ServerEvent) /\ v6' \in Seq(ClientEvent)
  BY <1>1, UpToNone
<1>3. Client!TypeOK'
  BY <1>1, <1>2, Facts, Constants DEF Client!TypeOK, ServerEvent, ClientEvent
<1>4. Client!IdsOfTurnsSent'
  <2>1. v7'.answer.id <= Sent'
    BY <1>1, Constants, Facts DEF Sent
  <2> QED
    BY <1>1, <1>2, <1>3, <2>1, IdsNext
<1>5. Client!FreshWithoutLink'
  BY <1>1 DEF Client!FreshWithoutLink
<1>6. Owed'
  BY <1>1 DEF Owed
<1>7. Client!AnswerOfTurn' /\ Client!UnmarredAnswers'
  BY <1>1, <1>3, <1>4, NothingOfTurn
<1> QED
  BY <1>3, <1>4, <1>5, <1>6, <1>7 DEF Sound

LEMMA LoseLinkKeeps == ASSUME Sound, Client!LoseLink PROVE Sound'
<1>1. /\ v4 = "up" /\ v4' = "lost" /\ v5' = <<>>
      /\ UNCHANGED <<v1, v2, v3, v6, v7, v8, v9, v10, v11, v12>>
  BY DEF Client!LoseLink, Client!peer
<1>2. UpTo(v5', Sent') /\ v5' \in Seq(ServerEvent) /\ Sent' = Sent
  BY <1>1, UpToNone DEF Sent
<1>3. Client!TypeOK'
  BY <1>1, <1>2, Facts DEF Client!TypeOK, ServerEvent, ClientEvent
<1>4. Client!IdsOfTurnsSent'
  BY <1>1, <1>2, <1>3, IdsNext, Facts
<1>5. Client!FreshWithoutLink'
  BY <1>1, Facts DEF Client!FreshWithoutLink
<1>6. Owed'
  BY <1>1 DEF Owed
<1>7. Client!AnswerOfTurn /\ Client!UnmarredAnswers
  BY DEF Sound
<1>8. Client!AnswerOfTurn'
  BY <1>1, <1>7 DEF Client!AnswerOfTurn
<1>9. Client!UnmarredAnswers'
  BY <1>1, <1>7 DEF Client!UnmarredAnswers, Client!AnswersTheTurn
<1> QED
  BY <1>3, <1>4, <1>5, <1>6, <1>8, <1>9 DEF Sound

\* The finally of the response: a cancellation is sent, or the session dropped.
LEMMA GivesUpKeeps ==
  ASSUME Sound, Client!Over, Client!GivesUp, v1 = "streaming",
         v6' \in Seq(ClientEvent), UpTo(v6', Sent), v3' = v3, v11' \in Client!Sessions, v12' = v12
  PROVE  Sound'
<1>1. v8' = v8 + 1 /\ Sent = v8 /\ v8 \in Nat \ {0}
  BY Facts DEF Client!Over, Sent
<1>2. UpTo(v6', v8' - 1)
  BY <1>1
<1>3. CASE v4 = "up"
  <2> DEFINE e == [Client!Event("response.cancel") EXCEPT !.id = v8]
  <2>1. e \in ServerEvent /\ e.id = v8 /\ e.type = "response.cancel"
    BY <1>1, TextsTyped, Zenon DEF Client!Event, ServerEvent, Client!Events, Client!ServerEvents, Client!Empty
  <2>2. v5' = Append(v5, e) /\ v4' = v4 /\ v7' = v7
    BY <1>3 DEF Client!GivesUp
  <2> HIDE DEF e
  <2>3. v5' \in Seq(ServerEvent) /\ UpTo(v5', v8' - 1)
    BY <1>1, <2>1, <2>2, Facts, UpToMore
  <2>4. Owed'
    <3> SUFFICES ASSUME ~v12 PROVE Reaches(v5', Held, v3, v8', Asked')
      BY <2>2 DEF Owed, Held
    <3>1. Reaches(v5, Held, v3, v8, Asked)
      BY <1>3 DEF Owed, Sound
    <3>2. Client!Served(v3, e) = v3
      BY <2>1 DEF Client!Served
    <3>3. Reaches(v5', Held, v3, v8, Asked)
      BY <2>1, <2>2, <3>1, <3>2, ServesMore, Facts
    <3>4. \A i \in 1..Len(v5') : v5'[i].id # v8'
      BY <1>1, <2>3, Elements DEF UpTo
    <3> QED
      BY <3>3, <3>4, ServesOther
  <2>5. v7'.answer.id <= v8' - 1
    BY <2>2, OverIds
  <2> QED
    BY <1>2, <1>3, <2>2, <2>3, <2>4, <2>5, OverKeeps, Facts
<1>4. CASE v4 # "up"
  <2>1. v4' = "down" /\ v5' = <<>> /\ v7' = Client!FreshServer
    BY <1>4 DEF Client!GivesUp
  <2>2. v5' \in Seq(ServerEvent) /\ UpTo(v5', v8' - 1)
    BY <2>1, UpToNone
  <2>3. v7'.answer.id <= v8' - 1
    BY <1>1, <2>1, Constants
  <2>4. Owed'
    BY <2>1 DEF Owed
  <2> QED
    BY <1>2, <2>1, <2>2, <2>3, <2>4, OverKeeps, Facts, Constants
<1> QED
  BY <1>3, <1>4

LEMMA ReceiveFailsKeeps == ASSUME Sound, Client!ReceiveFails PROVE Sound'
<1>1. v1 = "streaming" /\ Client!Over /\ Client!GivesUp /\ UNCHANGED <<v3, v6, v10, v11, v12>>
  BY DEF Client!ReceiveFails
<1> QED
  BY <1>1, GivesUpKeeps, Facts

LEMMA InterruptKeeps == ASSUME Sound, Client!Interrupt PROVE Sound'
<1>1. Client!Over /\ UNCHANGED <<v3, v6, v10, v11>>
  BY DEF Client!Interrupt
<1>2. CASE v1 = "streaming" /\ Client!GivesUp /\ UNCHANGED v12
  BY <1>1, <1>2, GivesUpKeeps, Facts
<1>3. CASE \/ v1 = "connecting" /\ UNCHANGED <<v4, v5, v7, v12>>
           \/ v1 = "created" /\ v12' = TRUE /\ UNCHANGED <<v4, v5, v7>>
  <2>1. UNCHANGED <<v4, v5, v7>> /\ (v4 = "down" \/ v12' = TRUE)
    BY <1>3, Facts
  <2>2. Owed' /\ v12' \in BOOLEAN
    BY <1>3, <2>1, Facts, Zenon DEF Owed
  <2>3. UpTo(v5', v8' - 1) /\ UpTo(v6', v8' - 1) /\ v7'.answer.id <= v8' - 1
    BY <1>1, <2>1, OverIds
  <2> QED
    BY <1>1, <2>1, <2>2, <2>3, OverKeeps, Facts
<1> QED
  BY <1>2, <1>3, Zenon DEF Client!Interrupt

LEMMA ReceiveKeeps == ASSUME Sound, Client!Receive PROVE Sound'
<1> DEFINE e == Head(v6)
<1>1. v1 = "streaming" /\ v6 # <<>> /\ v6' = Tail(v6) /\ UNCHANGED <<v3, v10, v12>>
  BY DEF Client!Receive
<1>2. v6' \in Seq(ClientEvent) /\ UpTo(v6', Sent) /\ e \in ClientEvent
  BY <1>1, UpToRest, Facts
<1>3. CASE e.type = "error"
  <2>1. Client!Over /\ Client!GivesUp /\ UNCHANGED v11
    BY <1>3 DEF Client!Receive
  <2> QED
    BY <1>1, <1>2, <2>1, GivesUpKeeps, Facts
<1>4. CASE e.type = "response.done" /\ Client!Mine(e)
  <2>1. Client!Over /\ UNCHANGED <<v11, v4, v5, v7>>
    BY <1>4 DEF Client!Receive
  <2>2. UpTo(v5', v8' - 1) /\ v7'.answer.id <= v8' - 1 /\ \A i \in 1..Len(v5) : v5[i].id # v8'
    BY <2>1, OverIds
  <2>3. UpTo(v6', v8' - 1)
    <3>1. Sent <= v8' - 1 /\ v8' - 1 \in Int /\ Sent \in Int
      BY <2>1, OverFacts, Facts
    <3>2. v6' \in Seq(Client!Events(Client!ClientEvents))
      BY <1>2 DEF ClientEvent
    <3> QED
      BY <1>2, <3>1, <3>2, UpToHigher
  <2>4. Owed'
    <3> SUFFICES ASSUME v4 = "up", ~v12 PROVE Reaches(v5, Held, v3, v8', Asked')
      BY <1>1, <2>1 DEF Owed, Held
    <3>1. Reaches(v5, Held, v3, v8, Asked)
      BY <1>1 DEF Owed, Sound
    <3> QED
      BY <2>2, <3>1, ServesOther
  <2> QED
    BY <1>1, <1>2, <2>1, <2>2, <2>3, <2>4, OverKeeps, Facts
<1>5. CASE e.type # "error" /\ ~(e.type = "response.done" /\ Client!Mine(e))
  <2>1. /\ v11' = IF e.type = "response.delta" /\ Client!Mine(e) THEN Client!Believed(e.request, e.text) ELSE v11
        /\ UNCHANGED <<v1, v2, v8, v9, v4, v5, v7>>
    BY <1>5 DEF Client!Receive
  <2>2. Client!TypeOK'
    <3>1. Client!Believed(e.request, e.text) \in Client!Sessions
      BY <1>2 DEF ClientEvent, Client!Events, Client!Believed, Client!Sessions
    <3> HIDE DEF e
    <3>2. v11' \in Client!Sessions
      BY <2>1, <3>1, Facts
    <3> QED
      BY <1>1, <1>2, <2>1, <3>2, Facts DEF Client!TypeOK, ServerEvent, ClientEvent
  <2>3. Client!IdsOfTurnsSent'
    <3>1. Sent' = Sent
      BY <2>1 DEF Sent
    <3> QED
      BY <1>1, <1>2, <2>1, <2>2, <3>1, IdsNext, Facts
  <2>4. Client!FreshWithoutLink'
    BY <1>1, <2>1, Facts DEF Client!FreshWithoutLink
  <2>5. Owed'
    <3>1. Owed
      BY DEF Sound
    <3> QED
      BY <1>1, <2>1, <3>1 DEF Owed, Held, Asked
  <2>6. Client!AnswerOfTurn /\ Client!UnmarredAnswers
    BY DEF Sound
  <2>7. /\ e = v6[1] /\ 1 \in DOMAIN v6
        /\ \A i \in DOMAIN v6' : v6'[i] = v6[i + 1] /\ i + 1 \in DOMAIN v6
    <3>1. v6 \in Seq(ClientEvent) /\ v6 # <<>>
      BY <1>1, Facts
    <3>2. e = v6[1] /\ Len(v6') = Len(v6) - 1 /\ \A i \in 1..(Len(v6) - 1) : v6'[i] = v6[i + 1]
      BY <1>1, <3>1, HeadTailProperties
    <3>3. DOMAIN v6 = 1..Len(v6) /\ DOMAIN v6' = 1..Len(v6') /\ Len(v6) \in Nat \ {0}
      BY <1>2, <3>1, Elements, EmptySeq
    <3> QED
      BY <3>2, <3>3
  <2> HIDE DEF e
  <2>8. Client!AnswerOfTurn'
    BY <1>1, <2>1, <2>6, <2>7 DEF Client!AnswerOfTurn
  <2>9. Client!UnmarredAnswers'
    <3> SUFFICES ASSUME ~v12, v11' # Client!NoAnswer.prompt PROVE v11' = Asked
      BY <1>1, <2>1 DEF Client!UnmarredAnswers, Client!AnswersTheTurn, Asked
    <3>1. CASE e.type = "response.delta" /\ Client!Mine(e)
      BY <2>1, <2>6, <2>7, <3>1 DEF Client!AnswerOfTurn, Client!Mine, Asked
    <3>2. CASE v11' = v11
      BY <1>1, <2>6, <3>2 DEF Client!UnmarredAnswers, Client!AnswersTheTurn, Asked
    <3> QED
      BY <2>1, <3>1, <3>2
  <2> QED
    BY <2>2, <2>3, <2>4, <2>5, <2>8, <2>9 DEF Sound
<1> QED
  BY <1>3, <1>4, <1>5

\* A text that begins with another is that other and the rest.
LEMMA RestOfText ==
  ASSUME NEW p \in Seq(UserWords), NEW w \in Seq(UserWords), Client!IsPrefix(p, w)
  PROVE  /\ SubSeq(w, Len(p) + 1, Len(w)) \in Seq(UserWords)
         /\ p \o SubSeq(w, Len(p) + 1, Len(w)) = w
<1> DEFINE a == Len(p)
           b == Len(w)
           r == SubSeq(w, a + 1, b)
<1>1. /\ a \in Nat /\ b \in Nat /\ a <= b /\ \A i \in 1..b : w[i] \in UserWords
      /\ SubSeq(p, 1, a) = SubSeq(w, 1, a)
  BY Elements DEF Client!IsPrefix
<1>2. \A i \in 1..a : p[i] = w[i]
  <2>1. \A i \in 1..a : p[i] \in UserWords /\ w[i] \in UserWords
    BY <1>1, Elements
  <2>2. \A i \in 1..(a - 1 + 1) : SubSeq(p, 1, a)[i] = p[1 + i - 1] /\ SubSeq(w, 1, a)[i] = w[1 + i - 1]
    BY <1>1, <2>1, SubSeqProperties
  <2>3. \A i \in 1..a : i \in 1..(a - 1 + 1) /\ 1 + i - 1 = i
    BY <1>1
  <2> QED
    BY <1>1, <2>2, <2>3
<1>3. /\ r \in Seq(UserWords) /\ Len(r) = (IF a + 1 <= b THEN b - (a + 1) + 1 ELSE 0)
      /\ \A i \in 1..(b - (a + 1) + 1) : r[i] = w[a + 1 + i - 1]
  <2>1. \A i \in (a + 1)..b : w[i] \in UserWords
    BY <1>1
  <2> QED
    BY <1>1, <2>1, SubSeqProperties
<1> HIDE DEF r
<1>4. Len(r) = b - a /\ \A i \in 1..(b - a) : r[i] = w[a + i]
  BY <1>1, <1>3
<1>5. /\ p \o r \in Seq(UserWords) /\ Len(p \o r) = a + (b - a)
      /\ \A i \in 1..(a + (b - a)) : (p \o r)[i] = IF i <= a THEN p[i] ELSE r[i - a]
  BY <1>3, <1>4, ConcatProperties
<1>6. \A i \in 1..b : (p \o r)[i] = w[i]
  BY <1>1, <1>2, <1>4, <1>5
<1>7. p \o r = w
  <2>1. Len(p \o r) = b
    BY <1>1, <1>5
  <2> QED
    BY <1>5, <1>6, <2>1, SeqEqual, Zenon
<1> QED
  BY <1>3, <1>7 DEF r

\* An event that is sent only when it is needed.
LEMMA ServesOptional ==
  ASSUME NEW q \in Seq(ServerEvent), NEW e \in ServerEvent, NEW needed \in BOOLEAN,
         NEW s, NEW t, NEW u, NEW id, NEW asked, NEW n, NEW ok \in BOOLEAN,
         ok => Reaches(q, s, t, id, asked), UpTo(q, n), e.id <= n,
         IF needed THEN u = Client!Served(t, e) ELSE u = t,
         (needed /\ e.type = "input_text_buffer.commit" /\ e.id = id) => t = asked
  PROVE  LET w == IF needed THEN <<e>> ELSE <<>>
         IN /\ w \in Seq(ServerEvent) /\ q \o w \in Seq(ServerEvent)
            /\ (ok => Reaches(q \o w, s, u, id, asked)) /\ UpTo(q \o w, n)
<1>1. CASE needed
  <2>1. <<e>> \in Seq(ServerEvent) /\ q \o <<e>> = Append(q, e)
    BY AppendIsConcat
  <2> QED
    BY <1>1, <2>1, ServesMore, UpToMore, Zenon
<1>2. CASE ~needed
  <2>1. <<>> \in Seq(ServerEvent) /\ q \o <<>> = q
    BY EmptySeq, ConcatEmptySeq
  <2> QED
    BY <1>2, <2>1
<1> QED
  BY <1>1, <1>2

LEMMA NeededSeq == ASSUME NEW e \in ServerEvent, NEW needed \in BOOLEAN
                   PROVE  (IF needed THEN <<e>> ELSE <<>>) \in Seq(ServerEvent)
BY EmptySeq

LEMMA Regroup ==
  \A a, b, c, d, e, f \in Seq(ServerEvent) :
    f = ((b \o c) \o d) \o e => (((a \o b) \o c) \o d) \o e = a \o f
<1> SUFFICES ASSUME NEW a \in Seq(ServerEvent), NEW b \in Seq(ServerEvent), NEW c \in Seq(ServerEvent),
                    NEW d \in Seq(ServerEvent), NEW e \in Seq(ServerEvent), NEW f \in Seq(ServerEvent),
                    f = ((b \o c) \o d) \o e
             PROVE  (((a \o b) \o c) \o d) \o e = a \o f
  BY Zenon
<1> DEFINE x == b \o c
           y == x \o d
<1>1. x \in Seq(ServerEvent)
  BY ConcatProperties
<1>2. (a \o b) \o c = a \o x
  BY ConcatAssociative, SMTT(60)
<1> HIDE DEF x
<1>3. y \in Seq(ServerEvent)
  BY <1>1, ConcatProperties
<1>4. (a \o x) \o d = a \o y
  BY <1>1, ConcatAssociative, SMTT(60)
<1> HIDE DEF y
<1>5. (a \o y) \o e = a \o (y \o e)
  BY <1>3, ConcatAssociative, SMTT(60)
<1> QED
  BY <1>2, <1>4, <1>5 DEF x, y

\* After _sync_session the session on the server is, once served, that of the turn.
LEMMA SyncReaches ==
  ASSUME Sound, v1 = "syncing", NEW ok \in BOOLEAN, ok => Reaches(v5, Held, v3, v8, Asked),
         NEW n \in Nat, UpTo(v5, n), v2.commit => v8 <= n
  PROVE  /\ v5 \o Client!SyncEvents \in Seq(ServerEvent) /\ UpTo(v5 \o Client!SyncEvents, n)
         /\ ok => Reaches(v5 \o Client!SyncEvents, Held,
                          Client!Believed(v2.request, IF v2.commit THEN <<>> ELSE v2.text), v8, Asked)
<1> DEFINE e1 == [Client!Event("session.update") EXCEPT !.request = v2.request]
           e2 == Client!Event("input_text_buffer.clear")
           e3 == [Client!Event("input_text_buffer.append") EXCEPT !.text = Client!Unsent]
           e4 == [Client!Event("input_text_buffer.commit") EXCEPT !.id = v8]
           b1 == v2.request # v3.request
           b2 == ~Client!Extends
           b3 == Client!Unsent # <<>>
           b4 == v2.commit
           w1 == IF b1 THEN <<e1>> ELSE <<>>
           w2 == IF b2 THEN <<e2>> ELSE <<>>
           w3 == IF b3 THEN <<e3>> ELSE <<>>
           w4 == IF b4 THEN <<e4>> ELSE <<>>
           u1 == Client!Believed(v2.request, v3.text)
           u2 == Client!Believed(v2.request, IF Client!Extends THEN v3.text ELSE <<>>)
           u4 == Client!Believed(v2.request, IF v2.commit THEN <<>> ELSE v2.text)
<1>1. v3 = Client!Believed(v3.request, v3.text) /\ v3.text \in Seq(UserWords) /\ v3.request \in Nat
  BY Facts DEF Client!Sessions, Client!Believed
<1>2. v2.text \in Seq(UserWords) /\ v2.request \in Nat /\ v2.commit \in BOOLEAN /\ v8 \in Nat /\ v5 \in Seq(ServerEvent)
  BY Facts
<1>3. /\ Client!Unsent \in Seq(UserWords)
      /\ (IF Client!Extends THEN v3.text ELSE <<>>) \o Client!Unsent = v2.text
      /\ (IF Client!Extends THEN v3.text ELSE <<>>) \in Seq(UserWords)
  <2>1. CASE Client!Extends
    BY <1>1, <1>2, <2>1, RestOfText, Zenon DEF Client!Extends, Client!Unsent
  <2>2. CASE ~Client!Extends
    BY <1>2, <2>2, ConcatEmptySeq, EmptySeq DEF Client!Unsent
  <2> QED
    BY <2>1, <2>2
<1>4. /\ e1 \in ServerEvent /\ e1.id = 0 /\ e1.type = "session.update" /\ e1.request = v2.request
      /\ e2 \in ServerEvent /\ e2.id = 0 /\ e2.type = "input_text_buffer.clear"
      /\ e3 \in ServerEvent /\ e3.id = 0 /\ e3.type = "input_text_buffer.append" /\ e3.text = Client!Unsent
      /\ e4 \in ServerEvent /\ e4.id = v8 /\ e4.type = "input_text_buffer.commit"
  BY <1>2, <1>3, EmptySeq, Zenon DEF Client!Event, Client!Empty, ServerEvent, Client!Events, Client!ServerEvents
<1>5. Client!SyncEvents = ((w1 \o w2) \o w3) \o w4
  BY DEF Client!SyncEvents
<1> HIDE DEF e1, e2, e3, e4
<1>6. b1 \in BOOLEAN /\ b2 \in BOOLEAN /\ b3 \in BOOLEAN /\ b4 \in BOOLEAN
  BY <1>2
<1>7. IF b1 THEN u1 = Client!Served(v3, e1) ELSE u1 = v3
  BY <1>1, <1>4 DEF Client!Served
<1>8. IF b2 THEN u2 = Client!Served(u1, e2) ELSE u2 = u1
  BY <1>4 DEF Client!Served, Client!Believed
<1>9. IF b3 THEN Asked = Client!Served(u2, e3) ELSE Asked = u2
  <2>1. CASE b3
    BY <1>3, <1>4, <2>1, Zenon DEF Client!Served, Client!Believed, Asked
  <2>2. CASE ~b3
    <3>1. (IF Client!Extends THEN v3.text ELSE <<>>) = v2.text
      BY <1>3, <2>2, ConcatEmptySeq
    <3> QED
      BY <2>2, <3>1 DEF Client!Believed, Asked
  <2> QED
    BY <2>1, <2>2
<1>10. IF b4 THEN u4 = Client!Served(Asked, e4) ELSE u4 = Asked
  BY <1>4 DEF Client!Served, Client!Believed, Asked
<1>11. w1 \in Seq(ServerEvent) /\ w2 \in Seq(ServerEvent) /\ w3 \in Seq(ServerEvent) /\ w4 \in Seq(ServerEvent)
  BY <1>4, <1>6, NeededSeq
<1> DEFINE q1 == v5 \o w1
           q2 == q1 \o w2
           q3 == q2 \o w3
           q4 == q3 \o w4
<1>12. q4 = v5 \o Client!SyncEvents
  <2> HIDE DEF w1, w2, w3, w4
  <2>1. w1 \o w2 \in Seq(ServerEvent)
    BY <1>11, ConcatProperties
  <2>2. (w1 \o w2) \o w3 \in Seq(ServerEvent)
    BY <1>11, <2>1, ConcatProperties
  <2>3. Client!SyncEvents \in Seq(ServerEvent)
    BY <1>5, <1>11, <2>2, ConcatProperties
  <2> QED
    BY <1>2, <1>5, <1>11, <2>3, Regroup, SMTT(60)
<1> HIDE DEF b1, b2, b3, b4, u1, u2, u4
<1>13. 0 <= n /\ (b4 => e4.id <= n)
  BY <1>4 DEF b4
<1>14. q1 \in Seq(ServerEvent) /\ (ok => Reaches(q1, Held, u1, v8, Asked)) /\ UpTo(q1, n)
  BY <1>2, <1>4, <1>6, <1>7, <1>13, ServesOptional, Zenon
<1> HIDE DEF q1
<1>15. q2 \in Seq(ServerEvent) /\ (ok => Reaches(q2, Held, u2, v8, Asked)) /\ UpTo(q2, n)
  BY <1>4, <1>6, <1>8, <1>13, <1>14, ServesOptional, Zenon
<1> HIDE DEF q2
<1>16. q3 \in Seq(ServerEvent) /\ (ok => Reaches(q3, Held, Asked, v8, Asked)) /\ UpTo(q3, n)
  BY <1>4, <1>6, <1>9, <1>13, <1>15, ServesOptional, Zenon
<1> HIDE DEF q3
<1>17. q4 \in Seq(ServerEvent) /\ (ok => Reaches(q4, Held, u4, v8, Asked)) /\ UpTo(q4, n)
  <2>1. CASE b4
    BY <1>4, <1>6, <1>10, <1>13, <1>16, <2>1, ServesOptional, Zenon
  <2>2. CASE ~b4
    BY <1>10, <1>16, <2>2, ConcatEmptySeq
  <2> QED
    BY <2>1, <2>2
<1> QED
  BY <1>12, <1>17, Zenon DEF u4

LEMMA SyncKeeps == ASSUME Sound, Client!Sync PROVE Sound'
<1> DEFINE held == Client!Believed(v2.request, IF v2.commit THEN <<>> ELSE v2.text)
<1>1. /\ v1 = "syncing" /\ v5' = (IF v4 = "up" THEN v5 \o Client!SyncEvents ELSE v5) /\ v3' = held
      /\ IF v2.commit THEN v1' = "streaming" /\ UNCHANGED <<v2, v8, v9>> ELSE Client!Over
      /\ UNCHANGED <<v4, v6, v7, v10, v11, v12>>
  BY DEF Client!Sync, Client!peer
<1>2. v3' \in Client!Sessions
  BY <1>1, Facts, TextsTyped DEF Client!Sessions, Client!Believed
<1> HIDE DEF held
\* What is on its way once it is sent, for the last turn there then is.
<1>3. ASSUME NEW n \in Nat, Sent <= n, v2.commit => v8 <= n
      PROVE  v5' \in Seq(ServerEvent) /\ UpTo(v5', n) /\ UpTo(v6, n) /\ v7.answer.id <= n
  <2>1. UpTo(v5, n) /\ UpTo(v6, n)
    <3>1. /\ v5 \in Seq(Client!Events(Client!ServerEvents)) /\ UpTo(v5, Sent)
          /\ v6 \in Seq(Client!Events(Client!ClientEvents)) /\ UpTo(v6, Sent) /\ Sent \in Int /\ n \in Int
      BY Facts DEF ServerEvent, ClientEvent
    <3> QED
      BY <1>3, <3>1, UpToHigher
  <2>2. v7.answer.id <= n
    BY <1>3, Facts
  <2>3. CASE v4 = "up"
    <3> SUFFICES v5 \o Client!SyncEvents \in Seq(ServerEvent) /\ UpTo(v5 \o Client!SyncEvents, n)
      BY <1>1, <2>1, <2>2, <2>3
    <3>1. FALSE \in BOOLEAN /\ (FALSE => Reaches(v5, Held, v3, v8, Asked))
      OBVIOUS
    <3> QED
      BY <1>1, <1>3, <2>1, <3>1, SyncReaches, Zenon
  <2>4. CASE v4 # "up"
    BY <1>1, <2>1, <2>2, <2>4, Facts
  <2> QED
    BY <2>3, <2>4
<1>4. ASSUME v4 = "up", ~v12 PROVE Reaches(v5', Held, v3', v8, Asked)
  <2>1. Reaches(v5, Held, v3, v8, Asked)
    BY <1>1, <1>4 DEF Owed, Sound
  <2>2. UpTo(v5, v8) /\ v8 \in Nat
    <3>1. v5 \in Seq(Client!Events(Client!ServerEvents)) /\ UpTo(v5, Sent) /\ Sent \in Int /\ v8 \in Nat
      BY Facts DEF ServerEvent
    <3>2. Sent <= v8
      BY <3>1 DEF Sent
    <3> QED
      BY <3>1, <3>2, UpToHigher
  <2>3. v5' = v5 \o Client!SyncEvents /\ v3' = held /\ TRUE \in BOOLEAN
    BY <1>1, <1>4
  <2>4. Reaches(v5 \o Client!SyncEvents, Held, held, v8, Asked)
    <3>1. TRUE => Reaches(v5, Held, v3, v8, Asked)
      BY <2>1
    <3>2. v1 = "syncing" /\ (v2.commit => v8 <= v8)
      BY <1>1, <2>2
    <3>3. Reaches(v5 \o Client!SyncEvents, Held,
                  Client!Believed(v2.request, IF v2.commit THEN <<>> ELSE v2.text), v8, Asked)
      BY <2>2, <2>3, <3>1, <3>2, SyncReaches, Zenon
    <3> QED
      BY <3>3 DEF held
  <2> QED
    BY <2>3, <2>4
<1>5. CASE v2.commit
  <2>1. v1' = "streaming" /\ UNCHANGED <<v2, v8, v9>> /\ Sent' = v8 /\ Sent <= v8 /\ v8 \in Nat
    BY <1>1, <1>5, Facts DEF Sent
  <2>2. v5' \in Seq(ServerEvent) /\ UpTo(v5', Sent') /\ UpTo(v6', Sent') /\ v7'.answer.id <= Sent'
    BY <1>1, <1>3, <2>1
  <2>3. Client!TypeOK'
    BY <1>1, <1>2, <2>1, <2>2, Facts DEF Client!TypeOK, ServerEvent, ClientEvent
  <2>4. Client!IdsOfTurnsSent'
    BY <1>1, <1>5, <2>1, <2>2, <2>3, IdsNext, Facts
  <2>5. Client!FreshWithoutLink'
    BY <1>1, <2>1, Facts DEF Client!FreshWithoutLink
  <2>6. Owed'
    BY <1>1, <1>4, <2>1 DEF Owed, Held, Asked
  <2>7. Client!AnswerOfTurn'
    <3>1. v7.answer.id # v8
      BY <1>1, Facts DEF Sent
    <3>2. \A i \in DOMAIN v6 : v6[i].id # v8
      <4>1. v6 \in Seq(Client!Events(Client!ClientEvents)) /\ UpTo(v6, Sent) /\ Sent \in Int /\ v8 \in Int /\ Sent < v8
        BY <1>1, Facts DEF ClientEvent, Sent
      <4> QED
        BY <4>1, UpToHigher, Elements
    <3> QED
      BY <1>1, <2>1, <3>1, <3>2 DEF Client!AnswerOfTurn
  <2>8. Client!UnmarredAnswers'
    BY <1>1, <2>1, Facts DEF Client!UnmarredAnswers, Client!AnswersTheTurn
  <2> QED
    BY <2>3, <2>4, <2>5, <2>6, <2>7, <2>8 DEF Sound
<1>6. CASE ~v2.commit
  <2>1. Client!Over /\ v8' = v8
    BY <1>1, <1>6 DEF Client!Over, Client!clock
  <2>2. v8' - 1 \in Nat /\ Sent <= v8' - 1
    BY <2>1, OverFacts
  <2>3. v5' \in Seq(ServerEvent) /\ UpTo(v5', v8' - 1) /\ UpTo(v6', v8' - 1) /\ v7'.answer.id <= v8' - 1
    BY <1>1, <1>3, <1>6, <2>2
  <2>4. Owed'
    <3> SUFFICES ASSUME v4 = "up", ~v12 PROVE Reaches(v5', Held, v3', v8', Asked')
      BY <1>1, <2>1 DEF Owed, Held
    <3>1. Reaches(v5', Held, v3', v8, Asked)
      BY <1>4
    <3>2. \A i \in 1..Len(v5') : v5'[i].id # v8'
      <4>1. v5' \in Seq(Client!Events(Client!ServerEvents)) /\ v8' - 1 \in Int /\ v8' \in Int /\ v8' - 1 < v8'
        BY <2>2, <2>3, OverFacts, <2>1 DEF ServerEvent
      <4> QED
        BY <2>3, <4>1, UpToHigher
    <3> QED
      BY <2>1, <3>1, <3>2, ServesOther
  <2>5. v4' # "up" => v5' = <<>>
    BY <1>1, Facts
  <2> QED
    BY <1>1, <1>2, <2>1, <2>3, <2>4, <2>5, OverKeeps, Facts
<1> QED
  BY <1>5, <1>6

LEMMA ErrorTyped == Client!Error \in ClientEvent /\ Client!Error.id = 0 /\ Client!Error.type # "response.delta"
BY EmptySeq DEF ClientEvent, Client!Events, Client!ClientEvents, Client!Event, Client!Empty, Client!Error

(***************************************************************************)
(* The server's steps.                                                     *)
(***************************************************************************)
\* A server that answers, or is told something, leaves the client where it was:
\* the invariant comes down to the queues and the server.
LEMMA ServerKeeps ==
  ASSUME Sound, v4 = "up", v12' \in BOOLEAN, UNCHANGED <<v1, v2, v3, v4, v8, v9, v10, v11>>,
         v5' \in Seq(ServerEvent), v6' \in Seq(ClientEvent), UpTo(v5', Sent), UpTo(v6', Sent),
         v7' \in [request : Nat, text : Seq(UserWords),
                  answer : [id : Nat, prompt : Client!Sessions, begun : BOOLEAN]],
         v7'.answer.id <= Sent, v1 # "created",
         v12 => v12',
         ~v12' => /\ Owed'
                  /\ v7'.answer.id = v8 => v7'.answer.prompt = Asked
                  /\ \A i \in 1..Len(v6') : (v6'[i].type = "response.delta" /\ v6'[i].id = v8)
                                             => Client!Believed(v6'[i].request, v6'[i].text) = Asked
  PROVE  Sound'
<1>1. Client!TypeOK'
  BY Facts DEF Client!TypeOK, ServerEvent, ClientEvent
<1>2. Client!IdsOfTurnsSent'
  <2>1. Sent' = Sent
    BY DEF Sent
  <2> QED
    BY <1>1, <2>1, IdsNext, Facts
<1>3. Client!FreshWithoutLink'
  BY Facts DEF Client!FreshWithoutLink
<1>4. Owed'
  BY DEF Owed
<1>5. Client!AnswerOfTurn'
  <2>1. DOMAIN v6' = 1..Len(v6')
    BY Elements
  <2>2. v1 \in {"connecting", "created", "syncing"} => v11 = Client!NoAnswer.prompt
    BY Facts
  <2> QED
    BY <2>1, <2>2 DEF Client!AnswerOfTurn, Asked
<1>6. Client!UnmarredAnswers'
  <2>1. Client!UnmarredAnswers
    BY DEF Sound
  <2> QED
    BY <2>1 DEF Client!UnmarredAnswers, Client!AnswersTheTurn
<1> QED
  BY <1>1, <1>2, <1>3, <1>4, <1>5, <1>6 DEF Sound

\* What is on its way to the client, with an event more.
LEMMA ToldMore ==
  ASSUME Sound, NEW e \in ClientEvent, e.id <= Sent,
         ~v12 => ((e.type = "response.delta" /\ e.id = v8) => Client!Believed(e.request, e.text) = Asked)
  PROVE  /\ Append(v6, e) \in Seq(ClientEvent) /\ UpTo(Append(v6, e), Sent)
         /\ ~v12 => \A i \in 1..Len(Append(v6, e)) :
                      (Append(v6, e)[i].type = "response.delta" /\ Append(v6, e)[i].id = v8)
                        => Client!Believed(Append(v6, e)[i].request, Append(v6, e)[i].text) = Asked
<1>1. Append(v6, e) \in Seq(ClientEvent) /\ UpTo(Append(v6, e), Sent)
  BY UpToMore, Facts
<1>2. /\ Len(Append(v6, e)) = Len(v6) + 1 /\ Append(v6, e)[Len(v6) + 1] = e /\ Len(v6) \in Nat
      /\ DOMAIN v6 = 1..Len(v6) /\ \A i \in 1..Len(v6) : Append(v6, e)[i] = v6[i]
  BY AppendProperties, Elements, Facts
<1> SUFFICES ASSUME ~v12, NEW i \in 1..Len(Append(v6, e)),
                    Append(v6, e)[i].type = "response.delta", Append(v6, e)[i].id = v8
             PROVE  Client!Believed(Append(v6, e)[i].request, Append(v6, e)[i].text) = Asked
  BY <1>1
<1>3. CASE i \in 1..Len(v6)
  <2>1. Client!AnswerOfTurn
    BY DEF Sound
  <2> QED
    BY <1>2, <1>3, <2>1 DEF Client!AnswerOfTurn, Asked
<1>4. CASE i = Len(v6) + 1
  BY <1>2, <1>4
<1> QED
  BY <1>2, <1>3, <1>4

LEMMA AnswerKeeps == ASSUME Sound, Client!Answer PROVE Sound'
<1> DEFINE a == v7.answer
           Told == \E e \in ClientEvent :
                     /\ v6' = Append(v6, e) /\ e.id \in {0, a.id}
                     /\ e.type = "response.delta" => Client!Believed(e.request, e.text) = a.prompt
<1>1. /\ v4 = "up" /\ a.id # 0 /\ UNCHANGED <<v1, v2, v3, v4, v5, v8, v9, v10, v11, v12>>
  BY DEF Client!Answer
<1>2. a.id <= Sent /\ a.id \in Nat /\ a.prompt \in Client!Sessions /\ Sent \in Nat
  BY Facts
<1>3. v1 # "created"
  BY <1>1, Facts, Constants
<1>4. Told
  <2>1. ASSUME v6' = Append(v6, [type |-> "response.delta", id |-> a.id,
                                 request |-> a.prompt.request, text |-> a.prompt.text])
        PROVE  Told
    <3> DEFINE e == [type |-> "response.delta", id |-> a.id, request |-> a.prompt.request, text |-> a.prompt.text]
    <3>1. e \in ClientEvent /\ e.id = a.id /\ Client!Believed(e.request, e.text) = a.prompt
      BY <1>2 DEF ClientEvent, Client!Events, Client!ClientEvents, Client!Sessions, Client!Believed
    <3> HIDE DEF e
    <3> QED
      BY <2>1, <3>1 DEF e
  <2>2. ASSUME v6' = Append(v6, [Client!Event("response.done") EXCEPT !.id = a.id])
        PROVE  Told
    <3> DEFINE e == [Client!Event("response.done") EXCEPT !.id = a.id]
    <3>1. e \in ClientEvent /\ e.id = a.id /\ e.type # "response.delta"
      BY <1>2, EmptySeq, Zenon DEF ClientEvent, Client!Events, Client!ClientEvents, Client!Event, Client!Empty
    <3> HIDE DEF e
    <3> QED
      BY <2>2, <3>1, Zenon DEF e
  <2>3. ASSUME v6' = Append(v6, Client!Error)
        PROVE  Told
    <3>1. Client!Error \in ClientEvent /\ Client!Error.id = 0 /\ Client!Error.type # "response.delta"
      BY ErrorTyped
    <3> QED
      BY <2>3, <3>1
  <2> QED
    BY <2>1, <2>2, <2>3 DEF Client!Answer
<1>20. PICK e \in ClientEvent :
         /\ v6' = Append(v6, e) /\ e.id \in {0, a.id}
         /\ e.type = "response.delta" => Client!Believed(e.request, e.text) = a.prompt
  BY <1>4
<1>5. \/ v7' = [v7 EXCEPT !.answer.begun = TRUE]
      \/ v7' = [v7 EXCEPT !.answer = Client!NoAnswer]
  BY DEF Client!Answer
<1>6. /\ v7' \in [request : Nat, text : Seq(UserWords),
                  answer : [id : Nat, prompt : Client!Sessions, begun : BOOLEAN]]
      /\ v7'.request = v7.request /\ v7'.text = v7.text
      /\ v7'.answer.id \in {0, a.id} /\ (v7'.answer.id # 0 => v7'.answer.prompt = a.prompt)
  <2>1. v7 \in [request : Nat, text : Seq(UserWords),
                 answer : [id : Nat, prompt : Client!Sessions, begun : BOOLEAN]]
    BY Facts
  <2>2. CASE v7' = [v7 EXCEPT !.answer.begun = TRUE]
    BY <2>1, <2>2, Zenon
  <2>3. CASE v7' = [v7 EXCEPT !.answer = Client!NoAnswer]
    BY <2>1, <2>3, Constants, Zenon
  <2> QED
    BY <1>5, <2>2, <2>3
<1>7. ~v12 => (a.id = v8 => a.prompt = Asked)
  <2>1. Client!AnswerOfTurn
    BY DEF Sound
  <2> QED
    BY <2>1 DEF Client!AnswerOfTurn, Asked
<1>8. v8 # 0
  BY Facts
<1>9. ~v12 => ((e.type = "response.delta" /\ e.id = v8) => Client!Believed(e.request, e.text) = Asked)
  BY <1>20, <1>7, <1>8
<1>10. e.id <= Sent
  BY <1>2, <1>20
<1> HIDE DEF a
<1>11. /\ v6' \in Seq(ClientEvent) /\ UpTo(v6', Sent)
       /\ ~v12 => \A i \in 1..Len(v6') : (v6'[i].type = "response.delta" /\ v6'[i].id = v8)
                                          => Client!Believed(v6'[i].request, v6'[i].text) = Asked
  BY <1>20, <1>9, <1>10, ToldMore
<1>12. Owed'
  <2>1. Owed /\ Held' = Held
    BY <1>6 DEF Sound, Held
  <2> QED
    BY <1>1, <2>1 DEF Owed, Asked
<1>13. v7'.answer.id <= Sent /\ (~v12 => (v7'.answer.id = v8 => v7'.answer.prompt = Asked))
  BY <1>2, <1>6, <1>7, <1>8 DEF a
<1> QED
  BY <1>1, <1>3, <1>6, <1>11, <1>12, <1>13, ServerKeeps, Facts

\* An event served: what it makes of the session, and of the commit of this turn.
LEMMA ServeKeeps == ASSUME Sound, Client!Serve PROVE Sound'
<1> DEFINE e == Head(v5)
           Told(s, ok) == v7' = s /\ v6' = IF ok THEN v6 ELSE Append(v6, Client!Error)
<1>1. /\ v4 = "up" /\ v5 # <<>> /\ v5' = Tail(v5) /\ UNCHANGED <<v1, v2, v3, v4, v8, v9, v10, v11>>
  BY DEF Client!Serve
<1>2. v5' \in Seq(ServerEvent) /\ UpTo(v5', Sent) /\ e \in ServerEvent /\ e.id <= Sent /\ v1 # "created"
  BY <1>1, UpToRest, Facts
<1>3. e.request \in Nat /\ e.text \in Seq(UserWords) /\ e.id \in Nat /\ e.type \in Client!ServerEvents
  BY <1>2 DEF ServerEvent, Client!Events
<1>4. /\ v7 \in [request : Nat, text : Seq(UserWords),
                 answer : [id : Nat, prompt : Client!Sessions, begun : BOOLEAN]]
      /\ v8 \in Nat \ {0} /\ Sent \in Nat /\ v7.answer.id <= Sent /\ v12 \in BOOLEAN
  BY Facts
<1>5. ASSUME ~v12
      PROVE  /\ Reaches(v5', Client!Served(Held, e), v3, v8, Asked)
             /\ (e.type = "input_text_buffer.commit" /\ e.id = v8) => Held = Asked
             /\ v7.answer.id = v8 => v7.answer.prompt = Asked
  <2>1. Reaches(v5, Held, v3, v8, Asked)
    BY <1>1, <1>2, <1>5 DEF Owed, Sound
  <2>2. v5 \in Seq(ServerEvent)
    BY Facts
  <2>3. Client!AnswerOfTurn
    BY DEF Sound
  <2> QED
    BY <1>1, <1>5, <2>1, <2>2, <2>3, ServesHead DEF Client!AnswerOfTurn, Asked
\* What is told the client is an error or nothing.
<1>6. ASSUME NEW ok \in BOOLEAN, v6' = IF ok THEN v6 ELSE Append(v6, Client!Error)
      PROVE  /\ v6' \in Seq(ClientEvent) /\ UpTo(v6', Sent)
             /\ ~v12 => \A i \in 1..Len(v6') : (v6'[i].type = "response.delta" /\ v6'[i].id = v8)
                                                => Client!Believed(v6'[i].request, v6'[i].text) = Asked
  <2>1. CASE ok
    <3>1. Client!AnswerOfTurn /\ DOMAIN v6 = 1..Len(v6)
      BY Elements, Facts DEF Sound
    <3> QED
      BY <1>6, <2>1, <3>1, Facts, Zenon DEF Client!AnswerOfTurn, Asked
  <2>2. CASE ~ok
    <3>1. /\ Append(v6, Client!Error) \in Seq(ClientEvent) /\ UpTo(Append(v6, Client!Error), Sent)
          /\ ~v12 => \A i \in 1..Len(Append(v6, Client!Error)) :
                      (Append(v6, Client!Error)[i].type = "response.delta" /\ Append(v6, Client!Error)[i].id = v8)
                        => Client!Believed(Append(v6, Client!Error)[i].request, Append(v6, Client!Error)[i].text) = Asked
      <4>1. Client!Error \in ClientEvent /\ Client!Error.id <= Sent /\ Client!Error.type # "response.delta"
        BY <1>4, ErrorTyped
      <4> QED
        BY <4>1, ToldMore
    <3> QED
      BY <1>6, <2>2, <3>1
  <2> QED
    BY <2>1, <2>2
<1> HIDE DEF e
\* The events that leave the answer, or drop it.
<1>7. ASSUME NEW ok \in BOOLEAN, v6' = IF ok THEN v6 ELSE Append(v6, Client!Error), UNCHANGED v12,
             v7' \in [request : Nat, text : Seq(UserWords),
                      answer : [id : Nat, prompt : Client!Sessions, begun : BOOLEAN]],
             Held' = Client!Served(Held, e), v7'.answer \in {v7.answer, Client!NoAnswer}
      PROVE  Sound'
  <2>1. ~v12' => Owed'
    BY <1>1, <1>5, <1>7 DEF Owed, Asked
  <2>2. v7'.answer.id <= Sent /\ (~v12' => (v7'.answer.id = v8 => v7'.answer.prompt = Asked))
    BY <1>4, <1>5, <1>7, Constants
  <2>3. v12' \in BOOLEAN /\ (v12 => v12')
    BY <1>4, <1>7
  <2>4. /\ v6' \in Seq(ClientEvent) /\ UpTo(v6', Sent)
        /\ ~v12 => \A i \in 1..Len(v6') : (v6'[i].type = "response.delta" /\ v6'[i].id = v8)
                                           => Client!Believed(v6'[i].request, v6'[i].text) = Asked
    BY <1>6, <1>7
  <2> QED
    BY <1>1, <1>2, <1>7, <2>1, <2>2, <2>3, <2>4, ServerKeeps
<1>8. CASE e.type = "session.update"
  <2>1. PICK ok \in BOOLEAN : Told([v7 EXCEPT !.request = e.request], ok) /\ UNCHANGED v12
    BY <1>8, Zenon DEF Client!Serve, e
  <2>2. /\ v7' \in [request : Nat, text : Seq(UserWords),
                    answer : [id : Nat, prompt : Client!Sessions, begun : BOOLEAN]]
        /\ v7'.request = e.request /\ v7'.text = v7.text /\ v7'.answer = v7.answer
    BY <1>3, <1>4, <2>1
  <2>3. Held' = Client!Served(Held, e)
    BY <1>8, <2>2 DEF Held, Client!Served, Client!Believed
  <2> QED
    BY <1>7, <2>1, <2>2, <2>3
<1>9. CASE e.type = "input_text_buffer.append"
  <2>1. PICK ok \in BOOLEAN : Told([v7 EXCEPT !.text = @ \o e.text], ok) /\ UNCHANGED v12
    BY <1>9, Zenon DEF Client!Serve, e
  <2>2. v7.text \o e.text \in Seq(UserWords)
    BY <1>3, <1>4, ConcatProperties
  <2>3. /\ v7' \in [request : Nat, text : Seq(UserWords),
                    answer : [id : Nat, prompt : Client!Sessions, begun : BOOLEAN]]
        /\ v7'.request = v7.request /\ v7'.text = v7.text \o e.text /\ v7'.answer = v7.answer
    BY <1>4, <2>1, <2>2, Zenon
  <2>4. Held' = Client!Served(Held, e)
    BY <1>9, <2>3 DEF Held, Client!Served, Client!Believed
  <2> QED
    BY <1>7, <2>1, <2>3, <2>4
<1>10. CASE e.type = "input_text_buffer.clear"
  <2>1. PICK ok \in BOOLEAN : Told([v7 EXCEPT !.text = <<>>], ok) /\ UNCHANGED v12
    BY <1>10, Zenon DEF Client!Serve, e
  <2>2. /\ v7' \in [request : Nat, text : Seq(UserWords),
                    answer : [id : Nat, prompt : Client!Sessions, begun : BOOLEAN]]
        /\ v7'.request = v7.request /\ v7'.text = <<>> /\ v7'.answer = v7.answer
    BY <1>4, <2>1, EmptySeq, Zenon
  <2>3. Held' = Client!Served(Held, e)
    BY <1>10, <2>2 DEF Held, Client!Served, Client!Believed
  <2> QED
    BY <1>7, <2>1, <2>2, <2>3
<1>11. CASE e.type = "response.cancel"
  <2>1. PICK ok \in BOOLEAN : Told([v7 EXCEPT !.answer = Client!NoAnswer], ok) /\ UNCHANGED v12
    BY <1>11, Zenon DEF Client!Serve, e
  <2>2. /\ v7' \in [request : Nat, text : Seq(UserWords),
                    answer : [id : Nat, prompt : Client!Sessions, begun : BOOLEAN]]
        /\ v7'.request = v7.request /\ v7'.text = v7.text /\ v7'.answer = Client!NoAnswer
    BY <1>4, <2>1, Constants, Zenon
  <2>3. Held' = Client!Served(Held, e)
    BY <1>11, <2>2 DEF Held, Client!Served, Client!Believed
  <2> QED
    BY <1>7, <2>1, <2>2, <2>3
<1>12. CASE e.type = "input_text_buffer.commit"
  <2> DEFINE b == [id |-> e.id, begun |-> FALSE, prompt |-> Client!Believed(v7.request, v7.text)]
  <2>1. PICK ok \in BOOLEAN : /\ Told(IF ~ok THEN v7 ELSE [v7 EXCEPT !.text = <<>>, !.answer = b], ok)
                              /\ v12' = (v12 \/ ~ok)
    BY <1>12, Zenon DEF Client!Serve, e
  <2>2. CASE ok
    <3>1. b \in [id : Nat, prompt : Client!Sessions, begun : BOOLEAN] /\ b.id = e.id /\ b.prompt = Held
      BY <1>3, <1>4 DEF Client!Sessions, Client!Believed, Held
    <3> HIDE DEF b
    <3>2. /\ v7' \in [request : Nat, text : Seq(UserWords),
                      answer : [id : Nat, prompt : Client!Sessions, begun : BOOLEAN]]
          /\ v7'.request = v7.request /\ v7'.text = <<>> /\ v7'.answer = b
      BY <1>4, <2>1, <2>2, <3>1, EmptySeq, Zenon
    <3>3. Held' = Client!Served(Held, e)
      BY <1>12, <3>2 DEF Held, Client!Served, Client!Believed
    <3>4. v12' = v12 /\ v12' \in BOOLEAN
      BY <1>4, <2>1, <2>2, Zenon
    <3>5. ~v12' => Owed'
      BY <1>1, <1>5, <3>3, <3>4 DEF Owed, Asked
    <3>6. v7'.answer.id <= Sent /\ (~v12' => (v7'.answer.id = v8 => v7'.answer.prompt = Asked))
      BY <1>2, <1>5, <1>12, <3>1, <3>2, <3>4
    <3>7. /\ v6' \in Seq(ClientEvent) /\ UpTo(v6', Sent)
          /\ ~v12 => \A i \in 1..Len(v6') : (v6'[i].type = "response.delta" /\ v6'[i].id = v8)
                                             => Client!Believed(v6'[i].request, v6'[i].text) = Asked
      BY <1>6, <2>1
    <3> QED
      BY <1>1, <1>2, <3>2, <3>4, <3>5, <3>6, <3>7, ServerKeeps
  <2>3. CASE ~ok
    <3>1. v7' = v7 /\ v12' = TRUE
      BY <2>1, <2>3, Zenon
    <3>2. v6' \in Seq(ClientEvent) /\ UpTo(v6', Sent)
      BY <1>6, <2>1
    <3> QED
      BY <1>1, <1>2, <1>4, <3>1, <3>2, ServerKeeps
  <2> QED
    BY <2>2, <2>3
<1> QED
  BY <1>3, <1>8, <1>9, <1>10, <1>11, <1>12 DEF Client!ServerEvents

LEMMA ClientStill == ASSUME Sound, UNCHANGED <<v1, v2, v3, v4, v5, v6, v7, v8, v11, v12>> PROVE Sound'
<1>1. Client!TypeOK'
  BY Facts DEF Client!TypeOK, ServerEvent, ClientEvent
<1>2. Client!IdsOfTurnsSent'
  BY DEF Sound, Client!IdsOfTurnsSent
<1>3. Client!FreshWithoutLink'
  BY DEF Sound, Client!FreshWithoutLink
<1>4. Owed'
  BY DEF Sound, Owed, Held, Asked
<1>5. Client!AnswerOfTurn'
  BY DEF Sound, Client!AnswerOfTurn
<1>6. Client!UnmarredAnswers'
  BY DEF Sound, Client!UnmarredAnswers, Client!AnswersTheTurn
<1> QED
  BY <1>1, <1>2, <1>3, <1>4, <1>5, <1>6 DEF Sound

LEMMA ClientStep == ASSUME Sound, Client!Next PROVE Sound'
<1>1. CASE Client!Update
  BY <1>1, BeginKeeps, Zenon DEF Client!Update
<1>2. CASE Client!Commit
  BY <1>2, BeginKeeps, Zenon DEF Client!Commit
<1> QED
  BY <1>1, <1>2, ConnectKeeps, CreatedKeeps, FailsKeeps, SyncKeeps, ReceiveKeeps, ReceiveFailsKeeps,
     InterruptKeeps, CloseKeeps, ServeKeeps, AnswerKeeps, LoseLinkKeeps DEF Client!Next

\* The streaming LLM client never asks its server what it holds: what it believes is
\* what the server will hold once it has served what is on its way, and so, as long
\* as every commit on the websocket rendered and none of its openings was cut short,
\* the answer it yields is that of the conversation and the words it committed.
THEOREM AnswersOfTheirTurn == Spec => []UnmarredAnswers
<1> DEFINE Safe == component = "client" => Sound
<1>1. Init => Safe
  BY ClientInit DEF Init
<1>2. Safe /\ [Next]_vars => Safe'
  <2> SUFFICES ASSUME Safe, [Next]_vars, component' = "client" PROVE Sound'
    OBVIOUS
  <2>1. CASE component = "client" /\ Client!Next
    BY <2>1, ClientStep
  <2>2. CASE component = "client" /\ UNCHANGED vars
    BY <2>2, ClientStill DEF vars
  <2> QED
    BY <2>1, <2>2 DEF Next, vars
<1>3. Safe => UnmarredAnswers
  BY SoundIsInv DEF UnmarredAnswers, Sound
<1> QED
  BY <1>1, <1>2, <1>3, PTL DEF Spec

(***************************************************************************)
(* The speaker-labelled transcript (Diarization), for any tags, words per  *)
(* result, words and closes: the LLM and the browser agree on who said     *)
(* what.  v1 is multi, v2 spoken, v3 processor, v4 queue, v5 message, v6   *)
(* shown, v7 closed.  First the recursion its helpers are written with.    *)
(***************************************************************************)
\* Climbing from 0 in steps of one reaches every number up to n.
LEMMA Climb ==
  ASSUME NEW n \in Nat, NEW S, 0 \in S, \A i \in 1..n : i - 1 \in S => i \in S PROVE 0..n \subseteq S
<1> DEFINE T == (0..n) \ S
<1> SUFFICES ASSUME T # {} PROVE FALSE
  OBVIOUS
<1>1. T \subseteq Nat
  OBVIOUS
<1>2. PICK x \in T : \A y \in T : x <= y
  BY <1>1, Least, Zenon
<1>3. x \in 1..n /\ x - 1 \notin T
  BY <1>2
<1> QED
  BY <1>2, <1>3

\* A recursion whose steps stay in D has a solution in D.
Solvable(D, b, n, g) == \E f \in [0..n -> D] : f[0] = b /\ \A i \in 1..n : f[i] = g[i][f[i - 1]]
LEMMA Recursion ==
  ASSUME NEW D, NEW b, b \in D, NEW n, n \in Nat, NEW g, g \in [1..n -> [D -> D]]
  PROVE  Solvable(D, b, n, g)
<1> DEFINE Solves(f, k) == f \in [0..k -> D] /\ f[0] = b /\ \A i \in 1..k : f[i] = g[i][f[i - 1]]
           S == {k \in 0..n : \E f : Solves(f, k)}
<1>1. 0 \in S
  <2> DEFINE f == [i \in 0..0 |-> b]
  <2>1. Solves(f, 0)
    OBVIOUS
  <2> HIDE DEF f, Solves
  <2> QED
    BY <2>1
<1>2. ASSUME NEW k \in 1..n, k - 1 \in S PROVE k \in S
  <2>1. PICK h : Solves(h, k - 1)
    BY <1>2
  <2> DEFINE f == [i \in 0..k |-> IF i = k THEN g[k][h[k - 1]] ELSE h[i]]
  <2>2. h[k - 1] \in D
    BY <2>1
  <2>3. f \in [0..k -> D] /\ f[0] = b
    BY <2>1, <2>2
  <2>4. ASSUME NEW i \in 1..k PROVE f[i] = g[i][f[i - 1]]
    <3>1. f[i - 1] = h[i - 1]
      OBVIOUS
    <3>2. CASE i = k
      BY <3>1, <3>2
    <3>3. CASE i # k
      <4>1. i \in 1..(k - 1) /\ f[i] = h[i]
        BY <3>3
      <4> QED
        BY <2>1, <3>1, <4>1
    <3> QED
      BY <3>2, <3>3
  <2> HIDE DEF f
  <2>5. Solves(f, k)
    BY <2>3, <2>4
  <2> HIDE DEF Solves
  <2> QED
    BY <2>5
<1>3. 0..n \subseteq S
  <2> HIDE DEF S
  <2> QED
    BY <1>1, <1>2, Climb, Zenon
<1>4. n \in S
  BY <1>3
<1> QED
  BY <1>4 DEF Solvable

\* The greatest and the least of some places of a sequence.
LEMMA MaxIs ==
  ASSUME NEW n \in Nat, NEW S, S \subseteq 1..n, S # {}
  PROVE  Transcripts!Max(S) \in S /\ \A y \in S : y <= Transcripts!Max(S)
<1> DEFINE T == {n - x : x \in S}
<1>1. T \subseteq Nat /\ T # {}
  <2>1. \A x \in S : n - x \in Nat
    OBVIOUS
  <2>2. T \subseteq Nat
    BY <2>1
  <2>3. PICK x : x \in S
    OBVIOUS
  <2>4. n - x \in T
    BY <2>3
  <2> QED
    BY <2>2, <2>4
<1>2. PICK m \in T : \A y \in T : m <= y
  BY <1>1, Least, Zenon
<1>3. PICK x \in S : m = n - x
  BY <1>2
<1>4. \A y \in S : n - y \in T
  OBVIOUS
<1>5. \A y \in S : x >= y
  <2> SUFFICES ASSUME NEW y \in S PROVE x >= y
    OBVIOUS
  <2>1. m <= n - y
    BY <1>2, <1>4
  <2>2. x \in 1..n /\ y \in 1..n
    OBVIOUS
  <2> QED
    BY <1>3, <2>1, <2>2
<1>6. \E z \in S : \A y \in S : z >= y
  BY <1>5, Zenon
<1>7. Transcripts!Max(S) \in S /\ \A y \in S : Transcripts!Max(S) >= y
  BY <1>6, Zenon DEF Transcripts!Max
<1> QED
  BY <1>7

LEMMA MinIs ==
  ASSUME NEW S, S \subseteq Nat, S # {} PROVE Transcripts!Min(S) \in S
<1>1. \E z \in S : \A y \in S : z <= y
  BY Least, Zenon
<1> QED
  BY <1>1, Zenon DEF Transcripts!Min

\* Words in the order spoken.
Ordered(ws) == \A a, b \in 1..Len(ws) : a < b => ws[a] < ws[b]
Before(s, t) == \A a \in 1..Len(s), b \in 1..Len(t) : s[a] < t[b]

LEMMA WordsAre ==
  ASSUME NEW s \in Transcripts!Words
  PROVE  /\ s \in Seq(Nat) /\ s # <<>> /\ Len(s) \in Nat \ {0} /\ DOMAIN s = 1..Len(s)
         /\ \A a \in 1..Len(s) : s[a] \in Nat
         /\ s[1] \in Nat /\ Transcripts!Last(s) = s[Len(s)] /\ s[Len(s)] \in Nat /\ Head(s) = s[1]
<1>1. s \in Seq(Nat) /\ s # <<>>
  BY DEF Transcripts!Words
<1>2. Len(s) \in Nat \ {0}
  BY <1>1
<1> QED
  BY <1>1, <1>2 DEF Transcripts!Last

LEMMA WordIs ==
  ASSUME NEW w \in Nat
  PROVE  <<w>> \in Transcripts!Words /\ Len(<<w>>) = 1 /\ <<w>>[1] = w /\ Ordered(<<w>>)
BY DEF Transcripts!Words, Ordered

LEMMA JoinIs ==
  ASSUME NEW s \in Transcripts!Words, NEW t \in Transcripts!Words
  PROVE  /\ s \o t \in Transcripts!Words /\ Len(s \o t) = Len(s) + Len(t)
         /\ \A a \in 1..(Len(s) + Len(t)) : (s \o t)[a] = IF a <= Len(s) THEN s[a] ELSE t[a - Len(s)]
<1>1. s \in Seq(Nat) /\ t \in Seq(Nat) /\ s # <<>> /\ Len(s) \in Nat /\ Len(t) \in Nat
  BY WordsAre
<1>2. /\ s \o t \in Seq(Nat) /\ Len(s \o t) = Len(s) + Len(t)
      /\ \A a \in 1..(Len(s) + Len(t)) : (s \o t)[a] = IF a <= Len(s) THEN s[a] ELSE t[a - Len(s)]
  BY <1>1, ConcatProperties
<1>3. Len(s) # 0
  BY WordsAre
<1>4. s \o t # <<>>
  <2>1. Len(s \o t) # 0
    BY <1>1, <1>2, <1>3
  <2> QED
    BY <2>1
<1> QED
  BY <1>2, <1>4 DEF Transcripts!Words

LEMMA JoinOrdered ==
  ASSUME NEW s \in Transcripts!Words, NEW t \in Transcripts!Words, Ordered(s), Ordered(t), Before(s, t)
  PROVE  Ordered(s \o t)
<1>1. Len(s) \in Nat /\ Len(t) \in Nat
  BY WordsAre
<1> SUFFICES ASSUME NEW a \in 1..(Len(s) + Len(t)), NEW b \in 1..(Len(s) + Len(t)), a < b
             PROVE  (s \o t)[a] < (s \o t)[b]
  BY JoinIs DEF Ordered
<1>2. /\ (s \o t)[a] = IF a <= Len(s) THEN s[a] ELSE t[a - Len(s)]
      /\ (s \o t)[b] = IF b <= Len(s) THEN s[b] ELSE t[b - Len(s)]
  BY JoinIs
<1>3. CASE b <= Len(s)
  BY <1>1, <1>2, <1>3 DEF Ordered
<1>4. CASE a > Len(s)
  BY <1>1, <1>2, <1>4 DEF Ordered
<1>5. CASE a <= Len(s) /\ b > Len(s)
  BY <1>1, <1>2, <1>5 DEF Before
<1> QED
  BY <1>1, <1>3, <1>4, <1>5

\* Runs of speakers in V, and runs that hold the words lo + 1 up to hi in order.
RunsOf(V) == [who : V, words : Transcripts!Words]
Chain(runs, lo, hi) ==
    /\ runs # <<>> /\ runs[1].words[1] = lo + 1
    /\ Transcripts!Last(runs[Len(runs)].words) = hi
    /\ \A i \in 1..Len(runs) : Ordered(runs[i].words)
    /\ \A i, j \in 1..Len(runs) : i < j => Before(runs[i].words, runs[j].words)

LEMMA RunIs ==
  ASSUME NEW V, NEW who \in V, NEW ws \in Transcripts!Words
  PROVE  /\ Transcripts!Run(who, ws) \in RunsOf(V)
         /\ Transcripts!Run(who, ws).who = who /\ Transcripts!Run(who, ws).words = ws
BY DEF Transcripts!Run, RunsOf

LEMMA RunsAre ==
  ASSUME NEW V, NEW runs \in Seq(RunsOf(V))
  PROVE  /\ Len(runs) \in Nat /\ DOMAIN runs = 1..Len(runs) /\ (runs # <<>> <=> Len(runs) # 0)
         /\ \A i \in 1..Len(runs) : /\ runs[i] \in RunsOf(V) /\ runs[i].who \in V
                                    /\ runs[i].words \in Transcripts!Words
         /\ Transcripts!Last(runs) = runs[Len(runs)]
<1>1. \A i \in 1..Len(runs) : runs[i] \in RunsOf(V)
  OBVIOUS
<1>2. \A i \in 1..Len(runs) : runs[i].who \in V /\ runs[i].words \in Transcripts!Words
  BY <1>1 DEF RunsOf
<1> QED
  BY <1>1, <1>2 DEF Transcripts!Last

LEMMA ExtendedIs ==
  ASSUME NEW V, NEW runs \in Seq(RunsOf(V)), runs # <<>>, NEW ws \in Transcripts!Words,
         NEW more, more = Transcripts!Extended(runs, ws)
  PROVE  /\ more \in Seq(RunsOf(V)) /\ Len(more) = Len(runs) /\ more # <<>>
         /\ \A i \in 1..Len(runs) : more[i].who = runs[i].who
         /\ \A i \in 1..(Len(runs) - 1) : more[i] = runs[i]
         /\ more[Len(runs)].words = runs[Len(runs)].words \o ws
<1> DEFINE n == Len(runs)
           r == Transcripts!Run(runs[n].who, runs[n].words \o ws)
<1>1. n \in Nat \ {0} /\ runs[n].who \in V /\ runs[n].words \in Transcripts!Words
  BY RunsAre
<1>2. runs[n].words \o ws \in Transcripts!Words
  BY <1>1, JoinIs
<1>3. r \in RunsOf(V) /\ r.who = runs[n].who /\ r.words = runs[n].words \o ws
  BY <1>1, <1>2, RunIs, Zenon
<1>4. more = [runs EXCEPT ![n] = r]
  BY DEF Transcripts!Extended
<1> HIDE DEF r
<1>5. more \in Seq(RunsOf(V)) /\ Len(more) = n
  BY <1>1, <1>3, <1>4
<1>6. \A i \in 1..n : more[i] = IF i = n THEN r ELSE runs[i]
  BY <1>1, <1>4
<1> QED
  BY <1>1, <1>3, <1>5, <1>6

LEMMA AppendIs ==
  ASSUME NEW S, NEW s \in Seq(S), NEW x \in S
  PROVE  /\ Append(s, x) \in Seq(S) /\ Append(s, x) # <<>> /\ Len(Append(s, x)) = Len(s) + 1
         /\ \A i \in 1..Len(s) : Append(s, x)[i] = s[i]
         /\ Append(s, x)[Len(s) + 1] = x
OBVIOUS

LEMMA ChainBounds ==
  ASSUME NEW V, NEW runs \in Seq(RunsOf(V)), NEW lo \in Nat, NEW hi \in Nat, Chain(runs, lo, hi),
         NEW i \in 1..Len(runs), NEW a \in 1..Len(runs[i].words)
  PROVE  lo < runs[i].words[a] /\ runs[i].words[a] <= hi /\ runs[i].words[a] \in Nat
<1> DEFINE n == Len(runs)
           last == runs[n].words
<1>1. /\ n \in Nat \ {0} /\ runs[i].words \in Transcripts!Words /\ runs[1].words \in Transcripts!Words
      /\ last \in Transcripts!Words
  BY RunsAre DEF Chain
<1>2. /\ Len(runs[i].words) \in Nat /\ runs[i].words[a] \in Nat /\ Len(runs[1].words) \in Nat \ {0}
      /\ Len(last) \in Nat \ {0} /\ last[Len(last)] = hi /\ runs[1].words[1] = lo + 1
  BY <1>1, WordsAre, Zenon DEF Chain
<1> HIDE DEF last
<1>3. lo < runs[i].words[a]
  <2>1. CASE i = 1
    BY <1>1, <1>2, <2>1 DEF Chain, Ordered
  <2>2. CASE i # 1
    <3>1. Before(runs[1].words, runs[i].words)
      BY <1>1, <2>2 DEF Chain
    <3> QED
      BY <1>2, <3>1 DEF Before
  <2> QED
    BY <2>1, <2>2
<1>4. runs[i].words[a] <= hi
  <2>1. CASE i = n
    <3>1. Ordered(last) /\ a \in 1..Len(last) /\ runs[i].words[a] = last[a]
      BY <1>1, <2>1 DEF Chain, last
    <3> QED
      BY <1>2, <3>1 DEF Ordered
  <2>2. CASE i # n
    <3>1. Before(runs[i].words, last)
      BY <1>1, <2>2 DEF Chain, last
    <3>2. Len(last) \in 1..Len(last)
      BY <1>2
    <3>3. runs[i].words[a] < last[Len(last)]
      BY <3>1, <3>2 DEF Before
    <3> QED
      BY <1>2, <3>3
  <2> QED
    BY <2>1, <2>2
<1> QED
  BY <1>2, <1>3, <1>4, Zenon

\* A chain grows by later words, in its last run or in a new one.
LEMMA ChainBegins ==
  ASSUME NEW V, NEW r \in RunsOf(V), NEW lo \in Nat, r.words[1] = lo + 1, Ordered(r.words)
  PROVE  Chain(<<r>>, lo, Transcripts!Last(r.words))
BY DEF Chain

LEMMA ChainExtends ==
  ASSUME NEW V, NEW runs \in Seq(RunsOf(V)), NEW lo \in Nat, NEW hi \in Nat, Chain(runs, lo, hi),
         NEW ws \in Transcripts!Words, Ordered(ws), hi < ws[1]
  PROVE  Chain(Transcripts!Extended(runs, ws), lo, Transcripts!Last(ws))
<1> DEFINE n == Len(runs)
           more == Transcripts!Extended(runs, ws)
           old == runs[n].words
<1>1. runs # <<>> /\ n \in Nat \ {0} /\ \A i \in 1..n : runs[i].words \in Transcripts!Words
  BY RunsAre DEF Chain
<1>2. /\ more \in Seq(RunsOf(V)) /\ Len(more) = n /\ more # <<>>
      /\ \A i \in 1..(n - 1) : more[i].words = runs[i].words
      /\ more[n].words = old \o ws
  BY <1>1, ExtendedIs
<1>3. /\ Len(ws) \in Nat \ {0} /\ \A b \in 1..Len(ws) : ws[b] \in Nat /\ ws[1] <= ws[b]
  BY WordsAre DEF Ordered
<1>4. \A i \in 1..n : Before(runs[i].words, ws)
  BY <1>3, ChainBounds DEF Before
<1>5. old \in Transcripts!Words /\ Ordered(old) /\ Len(old) \in Nat \ {0}
  BY <1>1, WordsAre DEF Chain
<1> HIDE DEF more, old
<1>6. Ordered(old \o ws)
  BY <1>1, <1>4, <1>5, JoinOrdered DEF old
<1>7. /\ Len(old \o ws) = Len(old) + Len(ws)
      /\ \A a \in 1..(Len(old) + Len(ws)) : (old \o ws)[a] = IF a <= Len(old) THEN old[a] ELSE ws[a - Len(old)]
  BY <1>5, JoinIs
<1>8. more[1].words[1] = lo + 1
  <2>1. CASE n = 1
    BY <1>2, <1>3, <1>5, <1>7, <2>1 DEF Chain, old
  <2>2. CASE n # 1
    BY <1>1, <1>2, <2>2 DEF Chain
  <2> QED
    BY <2>1, <2>2
<1>9. Transcripts!Last(more[Len(more)].words) = Transcripts!Last(ws)
  BY <1>2, <1>3, <1>5, <1>7 DEF Transcripts!Last
<1>10. ASSUME NEW i \in 1..n PROVE Ordered(more[i].words)
  <2>1. CASE i = n
    BY <1>2, <1>6, <2>1, Zenon
  <2>2. CASE i # n
    <3>1. more[i].words = runs[i].words
      BY <1>1, <1>2, <2>2
    <3> QED
      BY <3>1 DEF Chain
  <2> QED
    BY <2>1, <2>2
<1>11. ASSUME NEW i \in 1..n, NEW j \in 1..n, i < j PROVE Before(more[i].words, more[j].words)
  <2>1. i \in 1..(n - 1) /\ more[i].words = runs[i].words
    BY <1>1, <1>2, <1>11
  <2>2. CASE j # n
    BY <1>1, <1>2, <1>11, <2>1, <2>2 DEF Chain
  <2>3. CASE j = n
    <3>1. Before(runs[i].words, old) /\ Before(runs[i].words, ws)
      BY <1>1, <1>4, <1>11, <2>3 DEF Chain, old
    <3>2. more[j].words = old \o ws
      BY <1>2, <2>3
    <3> SUFFICES ASSUME NEW a \in 1..Len(runs[i].words), NEW b \in 1..(Len(old) + Len(ws))
                 PROVE  runs[i].words[a] < (old \o ws)[b]
      BY <1>7, <2>1, <3>2, Zenon DEF Before
    <3>3. CASE b <= Len(old)
      BY <1>5, <1>7, <3>1, <3>3 DEF Before
    <3>4. CASE b > Len(old)
      <4>1. b - Len(old) \in 1..Len(ws) /\ (old \o ws)[b] = ws[b - Len(old)]
        BY <1>3, <1>5, <1>7, <3>4
      <4> QED
        BY <3>1, <4>1, Zenon DEF Before
    <3> QED
      BY <1>3, <1>5, <3>3, <3>4
  <2> QED
    BY <2>2, <2>3
<1> QED
  BY <1>2, <1>8, <1>9, <1>10, <1>11 DEF Chain, more

LEMMA ChainAppends ==
  ASSUME NEW V, NEW runs \in Seq(RunsOf(V)), NEW lo \in Nat, NEW hi \in Nat, Chain(runs, lo, hi),
         NEW r \in RunsOf(V), Ordered(r.words), hi < r.words[1]
  PROVE  Chain(Append(runs, r), lo, Transcripts!Last(r.words))
<1> DEFINE n == Len(runs)
           more == Append(runs, r)
           ws == r.words
<1>1. runs # <<>> /\ n \in Nat \ {0} /\ \A i \in 1..n : runs[i].words \in Transcripts!Words
  BY RunsAre DEF Chain
<1>2. /\ more # <<>> /\ Len(more) = n + 1 /\ more[n + 1] = r /\ \A i \in 1..n : more[i] = runs[i]
  BY AppendIs
<1>3. ws \in Transcripts!Words
  BY DEF RunsOf
<1> HIDE DEF more, ws
<1>9. Ordered(ws) /\ hi < ws[1]
  BY DEF ws
<1>4. Len(ws) \in Nat \ {0} /\ \A b \in 1..Len(ws) : ws[b] \in Nat /\ ws[1] <= ws[b]
  BY <1>3, <1>9, WordsAre DEF Ordered
<1>5. \A i \in 1..n : Before(runs[i].words, ws)
  BY <1>4, <1>9, ChainBounds DEF Before
<1>6. \A i \in 1..(n + 1) : Ordered(more[i].words)
  BY <1>1, <1>2, <1>9 DEF Chain, ws
<1>7. ASSUME NEW i \in 1..(n + 1), NEW j \in 1..(n + 1), i < j PROVE Before(more[i].words, more[j].words)
  <2>1. i \in 1..n /\ more[i] = runs[i]
    BY <1>1, <1>2, <1>7
  <2>2. CASE j = n + 1
    BY <1>2, <1>5, <2>1, <2>2 DEF ws
  <2>3. CASE j # n + 1
    <3>1. j \in 1..n /\ more[j] = runs[j]
      BY <1>1, <1>2, <2>3
    <3> QED
      BY <1>7, <2>1, <3>1 DEF Chain
  <2> QED
    BY <2>2, <2>3
<1>8. more[1].words[1] = lo + 1 /\ more[Len(more)].words = ws
  BY <1>1, <1>2 DEF Chain, ws
<1> QED
  BY <1>2, <1>6, <1>7, <1>8 DEF Chain, more, ws

\* Each recursion of Diarization runs over a sequence: it has a value before each element.
Speakers == Tags \cup {NoTag}
Tagged == [tag : Speakers, id : Nat]

LEMMA HeardIs ==
  ASSUME NEW runs \in Seq(RunsOf(Speakers)), NEW w \in Tagged
  PROVE  /\ Transcripts!Heard(runs, w) \in Seq(RunsOf(Speakers))
         /\ \A lo \in Nat : (runs = <<>> /\ w.id = lo + 1) => Chain(Transcripts!Heard(runs, w), lo, lo + 1)
         /\ \A lo, hi \in Nat : (Chain(runs, lo, hi) /\ w.id = hi + 1) =>
                                    Chain(Transcripts!Heard(runs, w), lo, hi + 1)
<1> DEFINE r == Transcripts!Run(w.tag, <<w.id>>)
<1>1. w.tag \in Speakers /\ w.id \in Nat
  BY DEF Tagged
<1>2. /\ <<w.id>> \in Transcripts!Words /\ Len(<<w.id>>) = 1 /\ <<w.id>>[1] = w.id /\ Ordered(<<w.id>>)
      /\ Transcripts!Last(<<w.id>>) = w.id
  BY <1>1, WordIs DEF Transcripts!Last
<1>3. r \in RunsOf(Speakers) /\ r.words = <<w.id>>
  BY <1>1, <1>2, RunIs
<1> HIDE DEF r
<1>4. CASE runs # <<>> /\ (w.tag = NoTag \/ w.tag = Transcripts!Last(runs).who)
  <2>1. Transcripts!Heard(runs, w) = Transcripts!Extended(runs, <<w.id>>)
    BY <1>4 DEF Transcripts!Heard
  <2>2. Transcripts!Extended(runs, <<w.id>>) \in Seq(RunsOf(Speakers))
    BY <1>2, <1>4, ExtendedIs
  <2>3. ASSUME NEW lo \in Nat, NEW hi \in Nat, Chain(runs, lo, hi), w.id = hi + 1
        PROVE  Chain(Transcripts!Extended(runs, <<w.id>>), lo, hi + 1)
    <3>1. hi < <<w.id>>[1]
      BY <1>2, <2>3
    <3>2. Chain(Transcripts!Extended(runs, <<w.id>>), lo, Transcripts!Last(<<w.id>>))
      BY <1>2, <2>3, <3>1, ChainExtends
    <3> QED
      BY <1>2, <2>3, <3>2
  <2> QED
    BY <1>4, <2>1, <2>2, <2>3
<1>5. CASE ~(runs # <<>> /\ (w.tag = NoTag \/ w.tag = Transcripts!Last(runs).who))
  <2>1. Transcripts!Heard(runs, w) = Append(runs, r)
    BY <1>5 DEF Transcripts!Heard, r
  <2>2. Append(runs, r) \in Seq(RunsOf(Speakers))
    BY <1>3, AppendIs
  <2>3. ASSUME NEW lo \in Nat, NEW hi \in Nat, Chain(runs, lo, hi), w.id = hi + 1
        PROVE  Chain(Append(runs, r), lo, hi + 1)
    <3>1. hi < r.words[1] /\ Ordered(r.words)
      BY <1>2, <1>3, <2>3
    <3>2. Chain(Append(runs, r), lo, Transcripts!Last(r.words))
      BY <1>3, <2>3, <3>1, ChainAppends
    <3> QED
      BY <1>2, <1>3, <2>3, <3>2
  <2>4. ASSUME NEW lo \in Nat, runs = <<>>, w.id = lo + 1 PROVE Chain(Append(runs, r), lo, lo + 1)
    <3>1. Append(runs, r) = <<r>>
      BY <2>4
    <3>2. r.words[1] = lo + 1 /\ Ordered(r.words)
      BY <1>2, <1>3, <2>4
    <3>3. Chain(<<r>>, lo, Transcripts!Last(r.words))
      BY <1>3, <3>2, ChainBegins
    <3> QED
      BY <1>2, <1>3, <2>4, <3>1, <3>3
  <2> QED
    BY <2>1, <2>2, <2>3, <2>4
<1> QED
  BY <1>4, <1>5

SplitOf(words, f) ==
    f = [i \in 0..Len(words) |-> IF i = 0 THEN <<>> ELSE Transcripts!Heard(f[i - 1], words[i])]

LEMMA SplitIs ==
  ASSUME NEW words \in Seq(Tagged)
  PROVE  \E f : /\ Transcripts!Split(words) = f[Len(words)] /\ f[0] = <<>>
                /\ \A i \in 1..Len(words) : f[i] = Transcripts!Heard(f[i - 1], words[i])
<1> DEFINE n == Len(words)
           D == Seq(RunsOf(Speakers))
           g == [i \in 1..n |-> [x \in D |-> Transcripts!Heard(x, words[i])]]
<1>1. n \in Nat /\ \A i \in 1..n : words[i] \in Tagged
  OBVIOUS
<1>2. <<>> \in D /\ \A i \in 1..n : \A x \in D : Transcripts!Heard(x, words[i]) \in D
  <2>1. ASSUME NEW i \in 1..n, NEW x \in D PROVE Transcripts!Heard(x, words[i]) \in D
    BY <1>1, HeardIs, Zenon
  <2> QED
    BY <2>1
<1> HIDE DEF n, D
<1>10. g \in [1..n -> [D -> D]]
  BY <1>2
<1>3. PICK h \in [0..n -> D] : h[0] = <<>> /\ \A i \in 1..n : h[i] = g[i][h[i - 1]]
  <2> DEFINE b == <<>>
  <2>1. b \in D
    BY <1>2
  <2> HIDE DEF b, g
  <2>2. Solvable(D, b, n, g)
    BY <1>1, <1>10, <2>1, Recursion
  <2> QED
    BY <2>2, Zenon DEF b, Solvable
<1>4. ASSUME NEW i \in 1..n PROVE h[i] = Transcripts!Heard(h[i - 1], words[i])
  <2>1. h[i - 1] \in D /\ h[i] = g[i][h[i - 1]]
    BY <1>1, <1>3
  <2> QED
    BY <2>1
<1>5. h = [i \in 0..n |-> IF i = 0 THEN <<>> ELSE Transcripts!Heard(h[i - 1], words[i])]
  <2> HIDE DEF D, g
  <2> QED
    BY <1>1, <1>3, <1>4
<1>6. \E f : SplitOf(words, f)
  BY <1>5 DEF SplitOf, n
<1> DEFINE f == CHOOSE f : SplitOf(words, f)
<1>7. Transcripts!Split(words) = f[n]
  BY DEF Transcripts!Split, SplitOf, n
<1>8. SplitOf(words, f)
  BY <1>6, Zenon
<1> HIDE DEF f
<1>9. f[0] = <<>> /\ \A i \in 1..n : f[i] = Transcripts!Heard(f[i - 1], words[i])
  BY <1>1, <1>8 DEF SplitOf, n
<1> QED
  BY <1>7, <1>9 DEF n

LEMMA SplitChain ==
  ASSUME NEW words \in Seq(Tagged), words # <<>>, NEW lo \in Nat, \A i \in 1..Len(words) : words[i].id = lo + i
  PROVE  /\ Transcripts!Split(words) \in Seq(RunsOf(Speakers))
         /\ Chain(Transcripts!Split(words), lo, lo + Len(words))
<1> DEFINE n == Len(words)
<1>1. n \in Nat \ {0} /\ \A i \in 1..n : words[i] \in Tagged
  OBVIOUS
<1>2. PICK f : /\ Transcripts!Split(words) = f[n] /\ f[0] = <<>>
               /\ \A i \in 1..n : f[i] = Transcripts!Heard(f[i - 1], words[i])
  BY SplitIs
<1> DEFINE S == {i \in 0..n : f[i] \in Seq(RunsOf(Speakers)) /\ (i # 0 => Chain(f[i], lo, lo + i))}
<1> HIDE DEF n
<1>3. 0 \in S
  <2>1. f[0] \in Seq(RunsOf(Speakers)) /\ 0 \in 0..n
    BY <1>1, <1>2
  <2> QED
    BY <2>1
<1>4. ASSUME NEW i \in 1..n, i - 1 \in S PROVE i \in S
  <2>1. /\ f[i] = Transcripts!Heard(f[i - 1], words[i]) /\ f[i - 1] \in Seq(RunsOf(Speakers))
        /\ words[i] \in Tagged /\ words[i].id = lo + i
    BY <1>1, <1>2, <1>4 DEF n
  <2>2. f[i] \in Seq(RunsOf(Speakers))
    BY <2>1, HeardIs, Zenon
  <2>3. CASE i = 1
    <3>1. f[i - 1] = <<>> /\ words[i].id = lo + 1
      BY <1>2, <2>1, <2>3
    <3>2. Chain(f[i], lo, lo + i)
      BY <2>1, <2>3, <3>1, HeardIs, Zenon
    <3> QED
      BY <2>2, <3>2
  <2>4. CASE i # 1
    <3>1. Chain(f[i - 1], lo, lo + (i - 1)) /\ lo + (i - 1) \in Nat /\ (lo + (i - 1)) + 1 = lo + i
      BY <1>4, <2>4
    <3>2. Chain(f[i], lo, lo + i)
      BY <2>1, <3>1, HeardIs, Zenon
    <3> QED
      BY <2>2, <3>2
  <2> QED
    BY <2>3, <2>4
<1> HIDE DEF S
<1>5. 0..n \subseteq S
  BY <1>1, <1>3, <1>4, Climb, Zenon
<1>6. n \in S
  BY <1>1, <1>5
<1> QED
  BY <1>1, <1>2, <1>6 DEF S, n

LEMMA ChainSame ==
  ASSUME NEW r, NEW s, NEW lo, NEW hi, Chain(r, lo, hi), Len(s) = Len(r), s # <<>>, Len(r) \in Nat \ {0},
         \A i \in 1..Len(r) : s[i].words = r[i].words
  PROVE  Chain(s, lo, hi)
BY DEF Chain

LEMMA KnownIs ==
  ASSUME NEW ns \in Seq(Tags), NEW tag \in Speakers
  PROVE  /\ Transcripts!Known(ns, tag) \in Seq(Tags)
         /\ tag = NoTag \/ Transcripts!Contains(Transcripts!Known(ns, tag), tag)
         /\ \A t : Transcripts!Contains(ns, t) => Transcripts!Contains(Transcripts!Known(ns, tag), t)
<1>1. CASE tag = NoTag \/ Transcripts!Contains(ns, tag)
  BY <1>1 DEF Transcripts!Known
<1>2. CASE ~(tag = NoTag \/ Transcripts!Contains(ns, tag))
  <2>1. Transcripts!Known(ns, tag) = Append(ns, tag) /\ tag \in Tags
    BY <1>2 DEF Transcripts!Known, Speakers
  <2>2. /\ Append(ns, tag) \in Seq(Tags) /\ Len(Append(ns, tag)) = Len(ns) + 1 /\ Len(ns) \in Nat
        /\ Append(ns, tag)[Len(ns) + 1] = tag /\ \A i \in 1..Len(ns) : Append(ns, tag)[i] = ns[i]
    BY <2>1, AppendIs
  <2> QED
    BY <2>1, <2>2 DEF Transcripts!Contains
<1> QED
  BY <1>1, <1>2

NumbersOf(known, runs, f) ==
    f = [i \in 0..Len(runs) |-> IF i = 0 THEN known ELSE Transcripts!Known(f[i - 1], runs[i].who)]

LEMMA NumbersIs ==
  ASSUME NEW known \in Seq(Tags), NEW runs \in Seq(RunsOf(Speakers))
  PROVE  /\ Transcripts!Numbers(known, runs) \in Seq(Tags)
         /\ \A i \in 1..Len(runs) :
              runs[i].who = NoTag \/ Transcripts!Contains(Transcripts!Numbers(known, runs), runs[i].who)
<1> DEFINE n == Len(runs)
           D == Seq(Tags)
           g == [i \in 1..n |-> [x \in D |-> Transcripts!Known(x, runs[i].who)]]
<1>1. n \in Nat /\ \A i \in 1..n : runs[i].who \in Speakers
  BY RunsAre
<1>2. \A i \in 1..n : \A x \in D : Transcripts!Known(x, runs[i].who) \in D
  BY <1>1, KnownIs
<1> HIDE DEF n, D
<1>3. g \in [1..n -> [D -> D]]
  BY <1>2
<1>4. PICK h \in [0..n -> D] : h[0] = known /\ \A i \in 1..n : h[i] = g[i][h[i - 1]]
  <2> HIDE DEF g
  <2>1. Solvable(D, known, n, g)
    BY <1>1, <1>3, Recursion, Zenon DEF D
  <2> QED
    BY <2>1, Zenon DEF Solvable
<1>5. ASSUME NEW i \in 1..n PROVE h[i] = Transcripts!Known(h[i - 1], runs[i].who)
  <2>1. h[i - 1] \in D /\ h[i] = g[i][h[i - 1]]
    <3> HIDE DEF g
    <3> QED
      BY <1>1, <1>4
  <2> QED
    BY <2>1
<1>6. h = [i \in 0..n |-> IF i = 0 THEN known ELSE Transcripts!Known(h[i - 1], runs[i].who)]
  <2> HIDE DEF D, g
  <2> QED
    BY <1>1, <1>4, <1>5
<1>7. \E f : NumbersOf(known, runs, f)
  BY <1>6 DEF NumbersOf, n
<1> DEFINE f == CHOOSE f : NumbersOf(known, runs, f)
<1>8. Transcripts!Numbers(known, runs) = f[n]
  BY DEF Transcripts!Numbers, NumbersOf, n
<1>9. NumbersOf(known, runs, f)
  BY <1>7, Zenon
<1> HIDE DEF f
<1>10. f[0] = known /\ \A i \in 1..n : f[i] = Transcripts!Known(f[i - 1], runs[i].who)
  BY <1>1, <1>9 DEF NumbersOf, n
<1> DEFINE S == {i \in 0..n : /\ f[i] \in Seq(Tags)
                              /\ \A j \in 1..i : runs[j].who = NoTag \/ Transcripts!Contains(f[i], runs[j].who)}
<1>11. 0 \in S
  BY <1>1, <1>10
<1>12. ASSUME NEW i \in 1..n, i - 1 \in S PROVE i \in S
  <2>1. f[i] = Transcripts!Known(f[i - 1], runs[i].who) /\ f[i - 1] \in Seq(Tags) /\ runs[i].who \in Speakers
    BY <1>1, <1>10, <1>12
  <2>2. /\ f[i] \in Seq(Tags)
        /\ runs[i].who = NoTag \/ Transcripts!Contains(f[i], runs[i].who)
        /\ \A t : Transcripts!Contains(f[i - 1], t) => Transcripts!Contains(f[i], t)
    BY <2>1, KnownIs, Zenon
  <2>3. ASSUME NEW j \in 1..i PROVE runs[j].who = NoTag \/ Transcripts!Contains(f[i], runs[j].who)
    <3>1. CASE j = i
      BY <2>2, <3>1
    <3>2. CASE j # i
      <4>1. j \in 1..(i - 1)
        BY <1>1, <3>2
      <4> QED
        BY <1>12, <2>2, <4>1
    <3> QED
      BY <3>1, <3>2
  <2>4. i \in 0..n
    BY <1>1
  <2> QED
    BY <2>2, <2>3, <2>4
<1> HIDE DEF S
<1>13. n \in S
  <2>1. 0..n \subseteq S
    BY <1>1, <1>11, <1>12, Climb, Zenon
  <2> QED
    BY <1>1, <2>1
<1> QED
  BY <1>8, <1>13 DEF S, n

LEMMA NumberedIs ==
  ASSUME NEW runs \in Seq(RunsOf(Speakers)), NEW ns \in Seq(Tags), NEW lo, NEW hi, Chain(runs, lo, hi),
         \A i \in 1..Len(runs) : runs[i].who = NoTag \/ Transcripts!Contains(ns, runs[i].who),
         NEW out, out = Transcripts!Numbered(runs, ns)
  PROVE  out \in Seq(RunsOf(Nat)) /\ Chain(out, lo, hi)
<1> DEFINE who(i) == IF runs[i].who = NoTag THEN 0 ELSE CHOOSE m \in DOMAIN ns : ns[m] = runs[i].who
           n == Len(runs)
<1>1. n \in Nat \ {0} /\ DOMAIN runs = 1..n /\ \A i \in 1..n : runs[i].words \in Transcripts!Words
  BY RunsAre DEF Chain
<1>2. ASSUME NEW i \in 1..n PROVE who(i) \in Nat
  <2>1. CASE runs[i].who = NoTag
    BY <2>1
  <2>2. CASE runs[i].who # NoTag
    <3>1. Transcripts!Contains(ns, runs[i].who)
      BY <2>2
    <3>2. \E m \in DOMAIN ns : ns[m] = runs[i].who
      BY <3>1 DEF Transcripts!Contains
    <3>3. (CHOOSE m \in DOMAIN ns : ns[m] = runs[i].who) \in DOMAIN ns
      BY <3>2
    <3>4. DOMAIN ns \subseteq Nat
      OBVIOUS
    <3> QED
      BY <2>2, <3>3, <3>4
  <2> QED
    BY <2>1, <2>2
<1>3. out = [i \in 1..n |-> Transcripts!Run(who(i), runs[i].words)]
  BY <1>1 DEF Transcripts!Numbered, Transcripts!Nobody
<1> HIDE DEF who
<1>4. ASSUME NEW i \in 1..n PROVE out[i] \in RunsOf(Nat) /\ out[i].words = runs[i].words
  <2>1. out[i] = Transcripts!Run(who(i), runs[i].words) /\ who(i) \in Nat /\ runs[i].words \in Transcripts!Words
    BY <1>1, <1>2, <1>3
  <2> DEFINE ws == runs[i].words
             m == who(i)
  <2> HIDE DEF ws, m
  <2>2. Transcripts!Run(m, ws) \in RunsOf(Nat) /\ Transcripts!Run(m, ws).words = ws
    BY <2>1, RunIs, Zenon DEF ws, m
  <2> QED
    BY <2>1, <2>2 DEF ws, m
<1>5. out \in Seq(RunsOf(Nat)) /\ Len(out) = n /\ out # <<>>
  BY <1>1, <1>3, <1>4
<1> QED
  BY <1>1, <1>4, <1>5, ChainSame

\* Who said word w.
Says(runs, w, who) ==
    \E j \in 1..Len(runs) : runs[j].who = who /\ \E a \in 1..Len(runs[j].words) : runs[j].words[a] = w
Names(runs, who) == \E j \in 1..Len(runs) : runs[j].who = who

LEMMA ExtendedSays ==
  ASSUME NEW V, NEW runs \in Seq(RunsOf(V)), runs # <<>>, NEW ws \in Transcripts!Words,
         NEW w, NEW who, Says(Transcripts!Extended(runs, ws), w, who)
  PROVE  Says(runs, w, who) \/ (who = Transcripts!Last(runs).who /\ \E a \in 1..Len(ws) : ws[a] = w)
<1> DEFINE n == Len(runs)
           more == Transcripts!Extended(runs, ws)
           old == runs[n].words
<1>1. /\ n \in Nat \ {0} /\ old \in Transcripts!Words /\ Transcripts!Last(runs) = runs[n]
  BY RunsAre
<1>2. /\ more \in Seq(RunsOf(V)) /\ Len(more) = n
      /\ \A i \in 1..n : more[i].who = runs[i].who
      /\ \A i \in 1..(n - 1) : more[i] = runs[i]
      /\ more[n].words = old \o ws
  <2> HIDE DEF more
  <2>1. more = Transcripts!Extended(runs, ws)
    BY DEF more
  <2> QED
    BY <2>1, ExtendedIs
<1>3. /\ Len(old \o ws) = Len(old) + Len(ws) /\ Len(old) \in Nat /\ Len(ws) \in Nat
      /\ \A a \in 1..(Len(old) + Len(ws)) : (old \o ws)[a] = IF a <= Len(old) THEN old[a] ELSE ws[a - Len(old)]
  BY <1>1, JoinIs, WordsAre, Zenon
<1> HIDE DEF more, old
<1>4. PICK j \in 1..n : more[j].who = who /\ \E a \in 1..Len(more[j].words) : more[j].words[a] = w
  BY <1>2 DEF Says, more
<1>5. CASE j # n
  <2>1. more[j] = runs[j]
    BY <1>1, <1>2, <1>5
  <2> QED
    BY <1>4, <2>1 DEF Says
<1>6. CASE j = n
  <2>1. PICK a \in 1..(Len(old) + Len(ws)) : (old \o ws)[a] = w
    BY <1>2, <1>3, <1>4, <1>6, Zenon
  <2>2. runs[n].who = who
    BY <1>1, <1>2, <1>4, <1>6
  <2>3. CASE a <= Len(old)
    <3>1. old[a] = w /\ a \in 1..Len(runs[n].words) /\ runs[n].words[a] = w
      BY <1>3, <2>1, <2>3 DEF old
    <3> QED
      BY <1>1, <2>2, <3>1 DEF Says
  <2>4. CASE ~(a <= Len(old))
    <3>1. a - Len(old) \in 1..Len(ws) /\ ws[a - Len(old)] = w
      BY <1>3, <2>1, <2>4
    <3> QED
      BY <1>1, <2>2, <3>1
  <2> QED
    BY <2>3, <2>4
<1> QED
  BY <1>5, <1>6

LEMMA AppendSays ==
  ASSUME NEW V, NEW runs \in Seq(RunsOf(V)), NEW r \in RunsOf(V),
         NEW w, NEW who, Says(Append(runs, r), w, who)
  PROVE  Says(runs, w, who) \/ (who = r.who /\ \E a \in 1..Len(r.words) : r.words[a] = w)
<1> DEFINE n == Len(runs)
           more == Append(runs, r)
<1>1. n \in Nat /\ Len(more) = n + 1 /\ more[n + 1] = r /\ \A i \in 1..n : more[i] = runs[i]
  BY AppendIs, RunsAre
<1> HIDE DEF more
<1>2. PICK j \in 1..(n + 1) : more[j].who = who /\ \E a \in 1..Len(more[j].words) : more[j].words[a] = w
  BY <1>1 DEF Says, more
<1>3. CASE j = n + 1
  BY <1>1, <1>2, <1>3
<1>4. CASE j # n + 1
  <2>1. j \in 1..n /\ more[j] = runs[j]
    BY <1>1, <1>4
  <2> QED
    BY <1>2, <2>1 DEF Says
<1> QED
  BY <1>3, <1>4

LEMMA MergedIs ==
  ASSUME NEW V, NEW out \in Seq(RunsOf(V)), NEW r \in RunsOf(V)
  PROVE  /\ Transcripts!Merged(out, r) \in Seq(RunsOf(V)) /\ Transcripts!Merged(out, r) # <<>>
         /\ \A w, who : Says(Transcripts!Merged(out, r), w, who) =>
                            Says(out, w, who) \/ (who = r.who /\ \E a \in 1..Len(r.words) : r.words[a] = w)
         /\ \A who : (who = r.who \/ Names(out, who)) => Names(Transcripts!Merged(out, r), who)
         /\ Transcripts!Merged(out, r)[1].who = IF out = <<>> THEN r.who ELSE out[1].who
         /\ \A lo \in Nat : (out = <<>> /\ Ordered(r.words) /\ r.words[1] = lo + 1) =>
                                Chain(Transcripts!Merged(out, r), lo, Transcripts!Last(r.words))
         /\ \A lo, hi \in Nat : (Chain(out, lo, hi) /\ Ordered(r.words) /\ hi < r.words[1]) =>
                                Chain(Transcripts!Merged(out, r), lo, Transcripts!Last(r.words))
<1> DEFINE n == Len(out)
<1>1. /\ n \in Nat /\ (out # <<>> <=> n # 0) /\ Transcripts!Last(out) = out[n]
  BY RunsAre
<1>2. r.words \in Transcripts!Words
  BY DEF RunsOf
<1>3. CASE out # <<>> /\ Transcripts!Last(out).who = r.who
  <2> DEFINE more == Transcripts!Extended(out, r.words)
  <2>1. Transcripts!Merged(out, r) = more
    BY <1>3 DEF Transcripts!Merged
  <2>2. /\ more \in Seq(RunsOf(V)) /\ Len(more) = n /\ more # <<>>
        /\ \A i \in 1..n : more[i].who = out[i].who
    BY <1>2, <1>3, ExtendedIs
  <2>3. \A w, who : Says(more, w, who) =>
           Says(out, w, who) \/ (who = r.who /\ \E a \in 1..Len(r.words) : r.words[a] = w)
    <3> SUFFICES ASSUME NEW w, NEW who, Says(more, w, who)
                 PROVE Says(out, w, who) \/ (who = r.who /\ \E a \in 1..Len(r.words) : r.words[a] = w)
      BY Zenon
    <3>1. Says(out, w, who) \/ (who = Transcripts!Last(out).who /\ \E a \in 1..Len(r.words) : r.words[a] = w)
      BY <1>2, <1>3, ExtendedSays
    <3> QED
      BY <1>3, <3>1
  <2>4. \A lo, hi \in Nat : (Chain(out, lo, hi) /\ Ordered(r.words) /\ hi < r.words[1]) =>
                                Chain(more, lo, Transcripts!Last(r.words))
    BY <1>2, ChainExtends
  <2> HIDE DEF more
  <2>5. \A who : (who = r.who \/ Names(out, who)) => Names(more, who)
    BY <1>1, <1>3, <2>2 DEF Names
  <2>6. more[1].who = out[1].who
    BY <1>1, <1>3, <2>2
  <2> QED
    BY <1>3, <2>1, <2>2, <2>3, <2>4, <2>5, <2>6
<1>4. CASE ~(out # <<>> /\ Transcripts!Last(out).who = r.who)
  <2> DEFINE more == Append(out, r)
  <2>1. Transcripts!Merged(out, r) = more
    BY <1>4 DEF Transcripts!Merged
  <2>2. /\ more \in Seq(RunsOf(V)) /\ Len(more) = n + 1 /\ more # <<>>
        /\ \A i \in 1..n : more[i] = out[i]
        /\ more[n + 1] = r
    BY AppendIs
  <2>3. \A w, who : Says(more, w, who) =>
           Says(out, w, who) \/ (who = r.who /\ \E a \in 1..Len(r.words) : r.words[a] = w)
    BY AppendSays
  <2>4. \A lo, hi \in Nat : (Chain(out, lo, hi) /\ Ordered(r.words) /\ hi < r.words[1]) =>
                                Chain(more, lo, Transcripts!Last(r.words))
    BY <1>2, ChainAppends
  <2>5. \A lo \in Nat : (out = <<>> /\ Ordered(r.words) /\ r.words[1] = lo + 1) =>
                                Chain(more, lo, Transcripts!Last(r.words))
    <3>1. out = <<>> => more = <<r>>
      OBVIOUS
    <3> QED
      BY <3>1, ChainBegins
  <2> HIDE DEF more
  <2>6. \A who : (who = r.who \/ Names(out, who)) => Names(more, who)
    <3>1. n + 1 \in 1..(n + 1) /\ \A i \in 1..n : i \in 1..(n + 1)
      BY <1>1
    <3> QED
      BY <2>2, <3>1 DEF Names
  <2>7. more[1].who = IF out = <<>> THEN r.who ELSE out[1].who
    <3>1. CASE out = <<>>
      BY <1>1, <2>2, <3>1
    <3>2. CASE out # <<>>
      BY <1>1, <2>2, <3>2
    <3> QED
      BY <3>1, <3>2
  <2> QED
    BY <2>1, <2>2, <2>3, <2>4, <2>5, <2>6, <2>7
<1> QED
  BY <1>3, <1>4

LEMMA MergedSays ==
  ASSUME NEW V, NEW out \in Seq(RunsOf(V)), NEW r \in RunsOf(V), NEW w, NEW who,
         Says(Transcripts!Merged(out, r), w, who)
  PROVE  Says(out, w, who) \/ (who = r.who /\ \E a \in 1..Len(r.words) : r.words[a] = w)
<1> DEFINE Spoke == \E a \in 1..Len(r.words) : r.words[a] = w
<1>1. r.words \in Transcripts!Words
  BY DEF RunsOf
<1>2. CASE out # <<>> /\ Transcripts!Last(out).who = r.who
  <2>1. Says(Transcripts!Extended(out, r.words), w, who)
    BY <1>2 DEF Transcripts!Merged
  <2>2. Says(out, w, who) \/ (who = Transcripts!Last(out).who /\ Spoke)
    BY <1>1, <1>2, <2>1, ExtendedSays
  <2> QED
    BY <1>2, <2>2
<1>3. CASE ~(out # <<>> /\ Transcripts!Last(out).who = r.who)
  <2>1. Says(Append(out, r), w, who)
    BY <1>3 DEF Transcripts!Merged
  <2> QED
    BY <2>1, AppendSays
<1> QED
  BY <1>2, <1>3

LEMMA MergedNames ==
  ASSUME NEW V, NEW out \in Seq(RunsOf(V)), NEW r \in RunsOf(V), NEW who, who = r.who \/ Names(out, who)
  PROVE  Names(Transcripts!Merged(out, r), who)
BY MergedIs, Zenon

LEMMA MergedBegins ==
  ASSUME NEW V, NEW out \in Seq(RunsOf(V)), NEW r \in RunsOf(V), NEW lo \in Nat,
         out = <<>>, Ordered(r.words), r.words[1] = lo + 1
  PROVE  Chain(Transcripts!Merged(out, r), lo, Transcripts!Last(r.words))
BY MergedIs, Zenon

LEMMA MergedGrows ==
  ASSUME NEW V, NEW out \in Seq(RunsOf(V)), NEW r \in RunsOf(V), NEW lo \in Nat, NEW hi \in Nat,
         Chain(out, lo, hi), Ordered(r.words), hi < r.words[1]
  PROVE  Chain(Transcripts!Merged(out, r), lo, Transcripts!Last(r.words))
BY MergedIs, Zenon

GroupedOf(runs, f) ==
    f = [i \in 0..Len(runs) |-> IF i = 0 THEN <<>> ELSE Transcripts!Merged(f[i - 1], runs[i])]

LEMMA GroupedSteps ==
  ASSUME NEW V, NEW runs \in Seq(RunsOf(V))
  PROVE  \E f : /\ Transcripts!Grouped(runs) = f[Len(runs)] /\ f[0] = <<>>
                /\ \A i \in 1..Len(runs) : f[i] = Transcripts!Merged(f[i - 1], runs[i])
<1> DEFINE n == Len(runs)
           D == Seq(RunsOf(V))
           g == [i \in 1..n |-> [x \in D |-> Transcripts!Merged(x, runs[i])]]
           b == <<>>
<1>1. n \in Nat /\ b \in D /\ \A i \in 1..n : runs[i] \in RunsOf(V)
  BY RunsAre
<1>2. \A i \in 1..n : \A x \in D : Transcripts!Merged(x, runs[i]) \in D
  BY <1>1, MergedIs, Zenon
<1> HIDE DEF n, D, b
<1>3. g \in [1..n -> [D -> D]]
  BY <1>2
<1>4. PICK h \in [0..n -> D] : h[0] = b /\ \A i \in 1..n : h[i] = g[i][h[i - 1]]
  <2> HIDE DEF g
  <2>1. Solvable(D, b, n, g)
    BY <1>1, <1>3, Recursion
  <2> QED
    BY <2>1, Zenon DEF Solvable
<1>5. ASSUME NEW i \in 1..n PROVE h[i] = Transcripts!Merged(h[i - 1], runs[i])
  <2>1. h[i - 1] \in D /\ h[i] = g[i][h[i - 1]]
    <3> HIDE DEF g
    <3> QED
      BY <1>1, <1>4
  <2> QED
    BY <2>1
<1>6. h = [i \in 0..n |-> IF i = 0 THEN <<>> ELSE Transcripts!Merged(h[i - 1], runs[i])]
  <2> HIDE DEF D, g
  <2> QED
    BY <1>1, <1>4, <1>5 DEF b
<1>7. \E f : GroupedOf(runs, f)
  BY <1>6 DEF GroupedOf, n
<1> DEFINE f == CHOOSE f : GroupedOf(runs, f)
<1>8. Transcripts!Grouped(runs) = f[n]
  BY DEF Transcripts!Grouped, GroupedOf, n
<1>9. GroupedOf(runs, f)
  BY <1>7, Zenon
<1> HIDE DEF f
<1>10. f[0] = <<>> /\ \A i \in 1..n : f[i] = Transcripts!Merged(f[i - 1], runs[i])
  BY <1>1, <1>9 DEF GroupedOf, n
<1> QED
  BY <1>8, <1>10 DEF n

LEMMA GroupedIs ==
  ASSUME NEW V, NEW runs \in Seq(RunsOf(V)), NEW out, out = Transcripts!Grouped(runs)
  PROVE  /\ out \in Seq(RunsOf(V)) /\ (runs = <<>> => out = <<>>)
         /\ runs # <<>> => out # <<>> /\ out[1].who = runs[1].who
         /\ \A w, who : Says(out, w, who) => Says(runs, w, who)
         /\ \A who : Names(runs, who) => Names(out, who)
         /\ \A lo, hi \in Nat : Chain(runs, lo, hi) => Chain(out, lo, hi)
<1> DEFINE n == Len(runs)
           Upto(k, w, who) == \E j \in 1..k : runs[j].who = who /\ \E a \in 1..Len(runs[j].words) : runs[j].words[a] = w
<1>1. /\ n \in Nat /\ (runs # <<>> <=> n # 0)
      /\ \A i \in 1..n : runs[i] \in RunsOf(V) /\ runs[i].words \in Transcripts!Words
  BY RunsAre
<1>2. PICK f : /\ out = f[n] /\ f[0] = <<>>
               /\ \A i \in 1..n : f[i] = Transcripts!Merged(f[i - 1], runs[i])
  BY GroupedSteps
<1> DEFINE Typed(k) == f[k] \in Seq(RunsOf(V)) /\ (k # 0 => f[k] # <<>> /\ f[k][1].who = runs[1].who)
           From(k) == \A w, who : Says(f[k], w, who) => Upto(k, w, who)
           All(k) == \A j \in 1..k : Names(f[k], runs[j].who)
           Chained(k) == \A lo, hi \in Nat : (Chain(runs, lo, hi) /\ k # 0) =>
                             Chain(f[k], lo, Transcripts!Last(runs[k].words))
           S == {k \in 0..n : Typed(k) /\ From(k) /\ All(k) /\ Chained(k)}
<1> HIDE DEF n
<1>3. 0 \in S
  <2>1. \A w, who : ~Says(f[0], w, who)
    BY <1>2 DEF Says
  <2>2. f[0] \in Seq(RunsOf(V)) /\ 0 \in 0..n
    BY <1>1, <1>2
  <2> QED
    BY <2>1, <2>2
<1>4. ASSUME NEW i \in 1..n, i - 1 \in S PROVE i \in S
  <2> DEFINE o == f[i - 1]
             r == runs[i]
  <2>1. /\ f[i] = Transcripts!Merged(o, r) /\ o \in Seq(RunsOf(V)) /\ r \in RunsOf(V)
        /\ r.words \in Transcripts!Words /\ i \in 0..n /\ i # 0
    BY <1>1, <1>2, <1>4
  <2>2. From(i - 1) /\ All(i - 1) /\ Chained(i - 1) /\ Typed(i - 1)
    BY <1>4
  <2>3. o = <<>> <=> i = 1
    BY <1>1, <1>2, <2>2
  <2>4. Typed(i)
    <3>1. f[i] \in Seq(RunsOf(V)) /\ f[i] # <<>> /\ f[i][1].who = IF o = <<>> THEN r.who ELSE o[1].who
      <4> HIDE DEF o, r
      <4> QED
        BY <2>1, MergedIs
    <3>2. CASE i = 1
      BY <2>3, <3>1, <3>2
    <3>3. CASE i # 1
      BY <1>1, <2>2, <2>3, <3>1, <3>3
    <3> QED
      BY <3>2, <3>3
  <2>5. From(i)
    <3> SUFFICES ASSUME NEW w, NEW who, Says(f[i], w, who) PROVE Upto(i, w, who)
      BY Zenon
    <3>1. Says(o, w, who) \/ (who = r.who /\ \E a \in 1..Len(r.words) : r.words[a] = w)
      <4> HIDE DEF o, r
      <4> QED
        BY <2>1, MergedSays
    <3>2. CASE Says(o, w, who)
      <4>1. Upto(i - 1, w, who)
        <5>1. \A u, x : Says(f[i - 1], u, x) => Upto(i - 1, u, x)
          BY <2>2, Zenon
        <5> HIDE DEF Upto
        <5> QED
          BY <3>2, <5>1
      <4>2. PICK j \in 1..(i - 1) : runs[j].who = who /\ \E a \in 1..Len(runs[j].words) : runs[j].words[a] = w
        BY <4>1
      <4>3. j \in 1..i
        BY <1>1
      <4> QED
        BY <4>2, <4>3
    <3>3. CASE who = r.who /\ \E a \in 1..Len(r.words) : r.words[a] = w
      <4>1. i \in 1..i
        BY <1>1
      <4> QED
        BY <3>3, <4>1
    <3> QED
      BY <3>1, <3>2, <3>3
  <2>6. All(i)
    <3> SUFFICES ASSUME NEW j \in 1..i PROVE Names(f[i], runs[j].who)
      OBVIOUS
    <3>1. runs[j].who = r.who \/ Names(o, runs[j].who)
      <4>1. j = i \/ j \in 1..(i - 1)
        BY <1>1
      <4> QED
        BY <2>2, <4>1
    <3> HIDE DEF o, r
    <3> QED
      BY <2>1, <3>1, MergedNames
  <2>7. Chained(i)
    <3> SUFFICES ASSUME NEW lo \in Nat, NEW hi \in Nat, Chain(runs, lo, hi)
                 PROVE  Chain(f[i], lo, Transcripts!Last(r.words))
      BY <2>1
    <3>1. Ordered(r.words)
      BY DEF Chain, n
    <3>2. CASE i = 1
      <4>1. o = <<>> /\ r.words[1] = lo + 1
        BY <2>3, <3>2 DEF Chain
      <4> HIDE DEF o, r
      <4> QED
        BY <2>1, <3>1, <4>1, MergedBegins, Zenon
    <3>3. CASE i # 1
      <4> DEFINE q == runs[i - 1].words
                 m == Transcripts!Last(q)
      <4>1. i - 1 \in 1..n /\ i - 1 # 0 /\ q \in Transcripts!Words
        BY <1>1, <3>3
      <4>2. m = q[Len(q)] /\ m \in Nat /\ Len(q) \in Nat \ {0}
        BY <4>1, WordsAre
      <4>3. Before(q, r.words)
        BY <1>1, <4>1 DEF Chain, n
      <4>4. m < r.words[1]
        <5>1. Len(q) \in 1..Len(q) /\ 1 \in 1..Len(r.words)
          BY <2>1, <4>2, WordsAre
        <5> QED
          BY <4>2, <4>3, <5>1, Zenon DEF Before
      <4>5. Chain(o, lo, m)
        BY <2>2, <4>1
      <4> HIDE DEF o, r, m, q
      <4> QED
        BY <2>1, <3>1, <4>2, <4>4, <4>5, MergedGrows
    <3> QED
      BY <3>2, <3>3
  <2> QED
    BY <2>1, <2>4, <2>5, <2>6, <2>7
<1> HIDE DEF S
<1>5. n \in S
  <2>1. 0..n \subseteq S
    BY <1>1, <1>3, <1>4, Climb, Zenon
  <2> QED
    BY <1>1, <2>1
<1>6. Typed(n) /\ From(n) /\ All(n) /\ Chained(n)
  BY <1>5 DEF S
<1>7. runs = <<>> => out = <<>>
  BY <1>1, <1>2
<1>8. \A w, who : Says(out, w, who) => Says(runs, w, who)
  <2> SUFFICES ASSUME NEW w, NEW who, Says(out, w, who) PROVE Says(runs, w, who)
    BY Zenon
  <2>1. From(n) /\ Says(f[n], w, who)
    BY <1>2, <1>6
  <2>2. Upto(n, w, who)
    <3> HIDE DEF Upto
    <3> QED
      BY <2>1
  <2> QED
    BY <2>2 DEF Says, n
<1>9. \A who : Names(runs, who) => Names(out, who)
  BY <1>2, <1>6 DEF Names, n
<1>10. \A lo, hi \in Nat : Chain(runs, lo, hi) => Chain(out, lo, hi)
  BY <1>1, <1>2, <1>6 DEF Chain, n
<1> HIDE DEF From, All, Chained
<1> QED
  BY <1>1, <1>2, <1>6, <1>7, <1>8, <1>9, <1>10

LEMMA TailWords ==
  ASSUME NEW ws \in Transcripts!Words, Len(ws) # 1
  PROVE  /\ Tail(ws) \in Transcripts!Words /\ Len(Tail(ws)) = Len(ws) - 1 /\ Len(ws) \in Nat /\ Len(ws) > 1
         /\ \A a \in 1..(Len(ws) - 1) : Tail(ws)[a] = ws[a + 1]
<1>1. ws \in Seq(Nat) /\ ws # <<>> /\ Len(ws) \in Nat \ {0}
  BY WordsAre
<1>2. /\ Tail(ws) \in Seq(Nat) /\ Len(Tail(ws)) = Len(ws) - 1
      /\ \A a \in 1..(Len(ws) - 1) : Tail(ws)[a] = ws[a + 1]
  BY <1>1
<1>4. Len(ws) # 1
  OBVIOUS
<1>3. Tail(ws) # <<>>
  <2> DEFINE t == Tail(ws)
  <2> HIDE DEF t
  <2>1. t \in Seq(Nat) /\ Len(t) # 0
    BY <1>1, <1>2, <1>4 DEF t
  <2>2. t # <<>>
    BY <2>1
  <2> QED
    BY <2>2 DEF t
<1> QED
  BY <1>1, <1>2, <1>3 DEF Transcripts!Words

LEMMA WithoutFirstIs ==
  ASSUME NEW V, NEW runs \in Seq(RunsOf(V)), runs # <<>>, NEW rest, rest = Transcripts!WithoutFirst(runs)
  PROVE  /\ rest \in Seq(RunsOf(V))
         /\ Len(runs[1].words) = 1 => /\ Len(rest) = Len(runs) - 1
                                      /\ \A i \in 1..(Len(runs) - 1) : rest[i] = runs[i + 1]
         /\ Len(runs[1].words) # 1 => /\ Len(rest) = Len(runs) /\ rest[1].who = runs[1].who
                                      /\ rest[1].words = Tail(runs[1].words)
                                      /\ \A i \in 2..Len(runs) : rest[i] = runs[i]
         /\ \A w, who : Says(rest, w, who) => Says(runs, w, who)
<1> DEFINE n == Len(runs)
           ws == runs[1].words
           r == Transcripts!Run(runs[1].who, Tail(ws))
<1>1. /\ n \in Nat \ {0} /\ ws \in Transcripts!Words /\ runs[1].who \in V
      /\ \A i \in 1..n : runs[i] \in RunsOf(V)
  BY RunsAre
<1>2. /\ Tail(runs) \in Seq(RunsOf(V)) /\ Len(Tail(runs)) = n - 1
      /\ \A i \in 1..(n - 1) : Tail(runs)[i] = runs[i + 1]
  BY <1>1
<1>3. CASE Len(ws) = 1
  <2>1. rest = <<>> \o Tail(runs)
    BY <1>3 DEF Transcripts!WithoutFirst
  <2>2. rest = Tail(runs)
    BY <1>2, <2>1
  <2>3. \A w, who : Says(rest, w, who) => Says(runs, w, who)
    <3>1. \A i \in 1..(n - 1) : i + 1 \in 1..n
      BY <1>1
    <3> QED
      BY <1>2, <2>2, <3>1 DEF Says
  <2> QED
    BY <1>2, <1>3, <2>2, <2>3
<1>4. CASE Len(ws) # 1
  <2>1. rest = <<r>> \o Tail(runs)
    BY <1>4 DEF Transcripts!WithoutFirst
  <2>2. r \in RunsOf(V) /\ r.who = runs[1].who /\ r.words = Tail(ws)
    BY <1>1, <1>4, TailWords, RunIs
  <2> HIDE DEF r
  <2>3. <<r>> \in Seq(RunsOf(V)) /\ Len(<<r>>) = 1 /\ <<r>>[1] = r
    BY <2>2
  <2>4. /\ rest \in Seq(RunsOf(V)) /\ Len(rest) = n
        /\ \A i \in 1..n : rest[i] = IF i <= 1 THEN <<r>>[i] ELSE Tail(runs)[i - 1]
    <3> HIDE DEF n
    <3> DEFINE a == <<r>>
               b == Tail(runs)
    <3>1. a \in Seq(RunsOf(V)) /\ b \in Seq(RunsOf(V)) /\ rest = a \o b
      BY <1>2, <2>1, <2>3
    <3> HIDE DEF a, b
    <3>2. rest \in Seq(RunsOf(V)) /\ Len(rest) = Len(a) + Len(b)
          /\ \A i \in 1..(Len(a) + Len(b)) : rest[i] = IF i <= Len(a) THEN a[i] ELSE b[i - Len(a)]
      BY <3>1, ConcatProperties
    <3>3. Len(a) = 1 /\ Len(b) = n - 1
      BY <1>2, <2>3 DEF a, b
    <3> QED
      BY <1>1, <3>2, <3>3 DEF a, b
  <2>5. rest[1] = r /\ \A i \in 2..n : rest[i] = runs[i]
    BY <1>1, <1>2, <2>3, <2>4
  <2>6. \A w, who : Says(rest, w, who) => Says(runs, w, who)
    <3> SUFFICES ASSUME NEW w, NEW who, Says(rest, w, who) PROVE Says(runs, w, who)
      BY Zenon
    <3>1. PICK j \in 1..n : rest[j].who = who /\ \E a \in 1..Len(rest[j].words) : rest[j].words[a] = w
      BY <2>4 DEF Says
    <3>2. CASE j = 1
      <4>3. rest[j].words = Tail(ws)
        BY <2>2, <2>5, <3>2
      <4>4. PICK a \in 1..Len(Tail(ws)) : Tail(ws)[a] = w
        BY <3>1, <4>3
      <4>1. a \in 1..(Len(ws) - 1) /\ ws[a + 1] = w
        BY <1>1, <1>4, <4>4, TailWords
      <4>2. a + 1 \in 1..Len(ws) /\ 1 \in 1..n /\ runs[1].who = who
        BY <1>1, <1>4, <2>2, <2>5, <3>1, <3>2, TailWords
      <4> QED
        BY <4>1, <4>2 DEF Says
    <3>3. CASE j # 1
      BY <1>1, <2>5, <3>1, <3>3 DEF Says
    <3> QED
      BY <3>2, <3>3
  <2> QED
    BY <1>4, <2>2, <2>4, <2>5, <2>6
<1> QED
  BY <1>3, <1>4

LEMMA SeqJoin ==
  ASSUME NEW S, NEW a \in Seq(S), NEW b \in Seq(S)
  PROVE  /\ a \o b \in Seq(S) /\ Len(a \o b) = Len(a) + Len(b) /\ Len(a) \in Nat /\ Len(b) \in Nat
         /\ \A i \in 1..Len(a) : (a \o b)[i] = a[i]
         /\ \A i \in 1..Len(b) : (a \o b)[Len(a) + i] = b[i]
BY ConcatProperties

\* The first word of a chain may be cut off its run.
Cut(runs, who) == <<Transcripts!Run(who, <<Head(runs[1].words)>>)>> \o Transcripts!WithoutFirst(runs)
LEMMA CutIs ==
  ASSUME NEW V, NEW runs \in Seq(RunsOf(V)), NEW lo \in Nat, NEW hi \in Nat, Chain(runs, lo, hi), NEW who \in V
  PROVE  Cut(runs, who) \in Seq(RunsOf(V)) /\ Chain(Cut(runs, who), lo, hi) /\ Cut(runs, who)[1].who = who
<1> DEFINE n == Len(runs)
           ws == runs[1].words
           r == Transcripts!Run(who, <<Head(ws)>>)
           rest == Transcripts!WithoutFirst(runs)
           all == Cut(runs, who)
<1> SUFFICES all \in Seq(RunsOf(V)) /\ Chain(all, lo, hi) /\ all[1].who = who
  OBVIOUS
<1>1. /\ runs # <<>> /\ n \in Nat \ {0} /\ ws \in Transcripts!Words /\ Head(ws) = ws[1] /\ ws[1] = lo + 1
      /\ Len(ws) \in Nat \ {0} /\ Ordered(ws) /\ \A i \in 1..n : runs[i].words \in Transcripts!Words
  BY RunsAre, WordsAre DEF Chain
<1>2. /\ <<Head(ws)>> \in Transcripts!Words /\ Len(<<Head(ws)>>) = 1 /\ <<Head(ws)>>[1] = lo + 1
      /\ Ordered(<<Head(ws)>>)
  BY <1>1, WordIs
<1>3. r \in RunsOf(V) /\ r.who = who /\ r.words = <<Head(ws)>>
  BY <1>2, RunIs
<1>4. /\ rest \in Seq(RunsOf(V))
      /\ Len(ws) = 1 => Len(rest) = n - 1 /\ \A i \in 1..(n - 1) : rest[i] = runs[i + 1]
      /\ Len(ws) # 1 => /\ Len(rest) = n /\ rest[1].words = Tail(ws)
                        /\ \A i \in 2..n : rest[i] = runs[i]
  <2> HIDE DEF rest
  <2>1. rest = Transcripts!WithoutFirst(runs)
    BY DEF rest
  <2> QED
    BY <1>1, <2>1, WithoutFirstIs
<1>5. all = <<r>> \o rest
  BY DEF Cut
<1> HIDE DEF r, rest, all
<1>6. /\ all \in Seq(RunsOf(V)) /\ Len(all) = 1 + Len(rest) /\ Len(rest) \in Nat
      /\ all[1] = r /\ \A i \in 1..Len(rest) : all[i + 1] = rest[i]
  <2> DEFINE a == <<r>>
  <2>1. /\ a \in Seq(RunsOf(V)) /\ Len(a) = 1 /\ a[1] = r /\ all = a \o rest /\ Len(rest) \in Nat
        /\ rest \in Seq(RunsOf(V))
    BY <1>3, <1>4, <1>5, RunsAre
  <2> HIDE DEF a
  <2>2. /\ a \o rest \in Seq(RunsOf(V)) /\ Len(a \o rest) = Len(a) + Len(rest)
        /\ \A i \in 1..Len(a) : (a \o rest)[i] = a[i]
        /\ \A i \in 1..Len(rest) : (a \o rest)[Len(a) + i] = rest[i]
    <3>1. a \in Seq(RunsOf(V)) /\ rest \in Seq(RunsOf(V))
      BY <2>1
    <3> QED
      BY <3>1, SeqJoin
  <2> QED
    BY <2>1, <2>2
<1>7. all # <<>>
  BY <1>6
<1>10. /\ Transcripts!Last(runs[n].words) = hi /\ ws = runs[1].words /\ n = Len(runs)
       /\ \A i \in 1..n : Ordered(runs[i].words)
       /\ \A i, j \in 1..n : i < j => Before(runs[i].words, runs[j].words)
  BY DEF Chain
<1> HIDE DEF n, ws
<1>8. CASE Len(ws) = 1
  <2>1. Len(all) = n /\ \A i \in 2..n : all[i] = runs[i]
    <3>1. Len(rest) = n - 1 /\ Len(all) = n
      BY <1>1, <1>4, <1>6, <1>8
    <3>2. ASSUME NEW i \in 2..n PROVE all[i] = runs[i]
      <4> DEFINE j == i - 1
      <4>1. j \in 1..(n - 1) /\ j + 1 = i
        BY <1>1
      <4> HIDE DEF j
      <4>2. all[j + 1] = rest[j] /\ rest[j] = runs[j + 1]
        BY <1>4, <1>6, <1>8, <3>1, <4>1
      <4> QED
        BY <4>1, <4>2
    <3> QED
      BY <3>1, <3>2
  <2>2. all[1].words = ws
    <3>1. ws = <<Head(ws)>>
      BY <1>1, <1>8 DEF Transcripts!Words
    <3> QED
      BY <1>3, <1>6, <3>1, Zenon
  <2>3. \A i \in 1..n : all[i].words = runs[i].words
    BY <1>1, <1>10, <2>1, <2>2
  <2>4. Chain(all, lo, hi)
    BY <1>1, <1>7, <1>10, <2>1, <2>3, ChainSame
  <2> QED
    BY <1>3, <1>6, <2>4
<1>9. CASE Len(ws) # 1
  <2>1. Len(all) = n + 1 /\ all[2].words = Tail(ws) /\ \A i \in 3..(n + 1) : all[i].words = runs[i - 1].words
    <3>1. Len(rest) = n /\ Len(all) = n + 1 /\ rest[1].words = Tail(ws)
      BY <1>1, <1>4, <1>6, <1>9
    <3>2. ASSUME NEW i \in 3..(n + 1) PROVE all[i].words = runs[i - 1].words
      <4> DEFINE j == i - 1
      <4>1. j \in 2..n /\ j \in 1..n /\ j + 1 = i
        BY <1>1
      <4> HIDE DEF j
      <4>2. all[j + 1] = rest[j] /\ rest[j] = runs[j]
        BY <1>4, <1>6, <1>9, <3>1, <4>1, Zenon
      <4> QED
        BY <4>1, <4>2 DEF j
    <3>3. all[1 + 1] = rest[1]
      BY <1>1, <1>6, <3>1
    <3>4. all[2].words = Tail(ws)
      <4>1. 1 + 1 = 2
        OBVIOUS
      <4>2. all[2] = rest[1]
        BY <3>3, <4>1
      <4> QED
        BY <3>1, <4>2, Zenon
    <3> QED
      BY <3>1, <3>2, <3>4, Zenon
  <2>2. /\ Len(Tail(ws)) = Len(ws) - 1 /\ Len(ws) > 1
        /\ \A a \in 1..(Len(ws) - 1) : Tail(ws)[a] = ws[a + 1]
    BY <1>1, <1>9, TailWords
  <2>3. all[1].words = <<ws[1]>> /\ Len(<<ws[1]>>) = 1 /\ <<ws[1]>>[1] = ws[1]
    BY <1>1, <1>3, <1>6
  <2>11. Transcripts!Last(ws) = ws[Len(ws)]
    BY DEF Transcripts!Last
  <2>4. all[1].words[1] = lo + 1
    BY <1>1, <2>3
  <2>5. Transcripts!Last(all[n + 1].words) = hi
    <3>1. CASE n = 1
      <4>1. Transcripts!Last(Tail(ws)) = ws[Len(ws)]
        BY <1>1, <2>2 DEF Transcripts!Last
      <4> QED
        BY <1>10, <2>1, <2>11, <3>1, <4>1
    <3>2. CASE n # 1
      <4>1. all[n + 1].words = runs[n].words
        BY <1>1, <2>1, <3>2
      <4> QED
        BY <1>10, <4>1
    <3> QED
      BY <3>1, <3>2
  <2>6. \A a \in 1..(Len(ws) - 1) : a + 1 \in 1..Len(ws)
    BY <1>1
  <2>7. ASSUME NEW i \in 1..(n + 1) PROVE Ordered(all[i].words)
    <3>1. CASE i = 1
      BY <1>1, <1>2, <2>3, <3>1, Zenon
    <3>2. CASE i = 2
      <4>1. Ordered(Tail(ws))
        BY <1>1, <2>2, <2>6 DEF Ordered
      <4> QED
        BY <2>1, <3>2, <4>1, Zenon
    <3>3. CASE i \in 3..(n + 1)
      <4>1. i - 1 \in 1..n /\ all[i].words = runs[i - 1].words
        BY <1>1, <2>1, <3>3
      <4> QED
        BY <1>10, <4>1
    <3>4. i = 1 \/ i = 2 \/ i \in 3..(n + 1)
      BY <1>1
    <3> QED
      BY <3>1, <3>2, <3>3, <3>4
  <2>8. ASSUME NEW i \in 1..(n + 1), NEW j \in 1..(n + 1), i < j PROVE Before(all[i].words, all[j].words)
    <3>1. CASE j = 2
      <4>1. Before(<<ws[1]>>, Tail(ws))
        <5> SUFFICES ASSUME NEW a \in 1..1, NEW b \in 1..(Len(ws) - 1) PROVE <<ws[1]>>[a] < Tail(ws)[b]
          BY <2>2, <2>3 DEF Before
        <5>1. 1 \in 1..Len(ws) /\ b + 1 \in 1..Len(ws) /\ 1 < b + 1 /\ <<ws[1]>>[a] = ws[1]
          BY <1>1, <2>6
        <5>2. ws[1] < ws[b + 1]
          BY <1>1, <5>1 DEF Ordered
        <5> QED
          BY <2>2, <5>1, <5>2
      <4>2. i = 1
        BY <2>8, <3>1
      <4> QED
        BY <2>1, <2>3, <3>1, <4>1, <4>2, Zenon
    <3>2. CASE j \in 3..(n + 1)
      <4> DEFINE t == runs[j - 1].words
      <4>1. j - 1 \in 2..n /\ all[j].words = t
        BY <1>1, <2>1, <3>2
      <4> HIDE DEF t
      <4>2. Before(ws, t)
        <5>1. 1 \in 1..n /\ j - 1 \in 1..n /\ 1 < j - 1
          BY <1>1, <4>1
        <5>2. Before(runs[1].words, runs[j - 1].words)
          BY <1>10, <5>1
        <5> QED
          BY <1>10, <5>2 DEF t
      <4>3. CASE i = 1
        <5>1. Before(<<ws[1]>>, t)
          <6>1. 1 \in 1..Len(ws) /\ \A a \in 1..1 : <<ws[1]>>[a] = ws[1]
            BY <1>1
          <6> QED
            BY <2>3, <4>2, <6>1 DEF Before
        <5> QED
          BY <2>3, <4>1, <4>3, <5>1
      <4>4. CASE i = 2
        <5>1. Before(Tail(ws), t)
          BY <2>2, <2>6, <4>2 DEF Before
        <5> QED
          BY <2>1, <4>1, <4>4, <5>1, Zenon
      <4>5. CASE i \in 3..(n + 1)
        <5>3. all[i].words = runs[i - 1].words
          BY <2>1, <4>5, Zenon
        <5>4. i - 1 \in 1..n /\ i - 1 < j - 1
          BY <1>1, <2>8, <4>5
        <5>1. i - 1 \in 1..n /\ i - 1 < j - 1 /\ all[i].words = runs[i - 1].words
          BY <5>3, <5>4, Zenon
        <5>2. j - 1 \in 1..n
          BY <1>1, <4>1
        <5> QED
          BY <1>10, <4>1, <5>1, <5>2 DEF t
      <4>6. i = 1 \/ i = 2 \/ i \in 3..(n + 1)
        BY <1>1
      <4> QED
        BY <4>3, <4>4, <4>5, <4>6
    <3>3. j = 2 \/ j \in 3..(n + 1)
      BY <1>1, <2>8
    <3> QED
      BY <3>1, <3>2, <3>3
  <2> QED
    BY <1>3, <1>6, <1>7, <2>1, <2>4, <2>5, <2>7, <2>8 DEF Chain
<1> QED
  BY <1>8, <1>9

LEMMA ReassignedIs ==
  ASSUME NEW runs \in Seq(RunsOf(Nat)), NEW lo \in Nat, NEW hi \in Nat, Chain(runs, lo, hi), NEW who \in Nat,
         NEW out, out = Transcripts!Reassigned(runs, who)
  PROVE  out \in Seq(RunsOf(Nat)) /\ Chain(out, lo, hi) /\ out[1].who = who
<1> DEFINE all == Cut(runs, who)
<1>1. out = Transcripts!Grouped(all)
  BY DEF Transcripts!Reassigned, Cut
<1>2. all \in Seq(RunsOf(Nat)) /\ Chain(all, lo, hi) /\ all[1].who = who
  BY CutIs
<1> HIDE DEF all
<1>3. all # <<>>
  BY <1>2 DEF Chain
<1> QED
  BY <1>1, <1>2, <1>3, GroupedIs

LEMMA PassedIs ==
  ASSUME NEW V, NEW kept \in Seq(RunsOf(V)), NEW r \in RunsOf(V), NEW who
  PROVE  /\ Transcripts!Passed(kept, r, who) \in Seq(RunsOf(V))
         /\ r.who # who => Transcripts!Passed(kept, r, who) = kept
         /\ r.who = who => /\ Len(Transcripts!Passed(kept, r, who)) = Len(kept) + 1
                           /\ Transcripts!Passed(kept, r, who)[Len(kept) + 1] = r
                           /\ \A i \in 1..Len(kept) : Transcripts!Passed(kept, r, who)[i] = kept[i]
<1>1. CASE r.who = who
  <2>1. Transcripts!Passed(kept, r, who) = Append(kept, r)
    BY <1>1 DEF Transcripts!Passed
  <2> QED
    BY <1>1, <2>1, AppendIs
<1>2. CASE r.who # who
  BY <1>2 DEF Transcripts!Passed
<1> QED
  BY <1>1, <1>2

AcceptedOf(runs, who, f) ==
    f = [i \in 0..Len(runs) |-> IF i = 0 THEN <<>> ELSE Transcripts!Passed(f[i - 1], runs[i], who)]

LEMMA AcceptedSteps ==
  ASSUME NEW V, NEW runs \in Seq(RunsOf(V)), NEW who, ~(v1 \/ who = 0)
  PROVE  \E f : /\ Transcripts!Accepted(runs, who) = f[Len(runs)] /\ f[0] = <<>>
                /\ \A i \in 1..Len(runs) : f[i] = Transcripts!Passed(f[i - 1], runs[i], who)
<1> DEFINE n == Len(runs)
           D == Seq(RunsOf(V))
           g == [i \in 1..n |-> [x \in D |-> Transcripts!Passed(x, runs[i], who)]]
           b == <<>>
<1>1. n \in Nat /\ b \in D /\ \A i \in 1..n : runs[i] \in RunsOf(V)
  BY RunsAre
<1>2. \A i \in 1..n : \A x \in D : Transcripts!Passed(x, runs[i], who) \in D
  BY <1>1, PassedIs
<1> HIDE DEF n, D, b
<1>3. g \in [1..n -> [D -> D]]
  BY <1>2
<1>4. PICK h \in [0..n -> D] : h[0] = b /\ \A i \in 1..n : h[i] = g[i][h[i - 1]]
  <2> HIDE DEF g
  <2>1. Solvable(D, b, n, g)
    BY <1>1, <1>3, Recursion
  <2> QED
    BY <2>1, Zenon DEF Solvable
<1>5. ASSUME NEW i \in 1..n PROVE h[i] = Transcripts!Passed(h[i - 1], runs[i], who)
  <2>1. h[i - 1] \in D /\ h[i] = g[i][h[i - 1]]
    <3> HIDE DEF g
    <3> QED
      BY <1>1, <1>4
  <2> QED
    BY <2>1
<1>6. h = [i \in 0..n |-> IF i = 0 THEN <<>> ELSE Transcripts!Passed(h[i - 1], runs[i], who)]
  <2> HIDE DEF D, g
  <2> QED
    BY <1>1, <1>4, <1>5 DEF b
<1>7. \E f : AcceptedOf(runs, who, f)
  BY <1>6 DEF AcceptedOf, n
<1> DEFINE f == CHOOSE f : AcceptedOf(runs, who, f)
<1>8. Transcripts!Accepted(runs, who) = f[n]
  BY DEF Transcripts!Accepted, AcceptedOf, n, Transcripts!Nobody
<1>9. AcceptedOf(runs, who, f)
  BY <1>7, Zenon
<1> HIDE DEF f
<1>10. f[0] = <<>> /\ \A i \in 1..n : f[i] = Transcripts!Passed(f[i - 1], runs[i], who)
  BY <1>1, <1>9 DEF AcceptedOf, n
<1> QED
  BY <1>8, <1>10 DEF n

\* What passes the single-speaker isolation.
LEMMA AcceptedIs ==
  ASSUME NEW V, NEW runs \in Seq(RunsOf(V)), runs # <<>>, NEW who, NEW kept, kept = Transcripts!Accepted(runs, who)
  PROVE  /\ kept \in Seq(RunsOf(V)) /\ \A i \in 1..Len(kept) : \E j \in 1..Len(runs) : kept[i] = runs[j]
         /\ (v1 \/ who \in {0, runs[Len(runs)].who}) => kept # <<>> /\ kept[Len(kept)] = runs[Len(runs)]
         /\ kept # <<>> /\ kept[1].who = runs[1].who => kept[1] = runs[1]
         /\ v1 => kept = runs
         /\ (~v1 /\ who # 0 /\ kept # <<>>) => kept[1].who = who
<1> DEFINE n == Len(runs)
<1>1. n \in Nat \ {0} /\ \A i \in 1..n : runs[i] \in RunsOf(V)
  BY RunsAre
<1>2. CASE v1 \/ who = 0
  <2>1. kept = runs
    BY <1>2 DEF Transcripts!Accepted, Transcripts!Nobody
  <2> QED
    BY <1>1, <1>2, <2>1
<1>3. CASE ~(v1 \/ who = 0)
  <2>1. PICK f : /\ kept = f[n] /\ f[0] = <<>>
                 /\ \A i \in 1..n : f[i] = Transcripts!Passed(f[i - 1], runs[i], who)
    BY <1>3, AcceptedSteps
  <2> DEFINE Typed(k) == f[k] \in Seq(RunsOf(V))
             From(k) == \A i \in 1..Len(f[k]) : f[k][i].who = who /\ \E j \in 1..n : f[k][i] = runs[j]
             Ends(k) == (k # 0 /\ runs[k].who = who) => Len(f[k]) # 0 /\ f[k][Len(f[k])] = runs[k]
             Begins(k) == (k # 0 /\ runs[1].who = who) => Len(f[k]) # 0 /\ f[k][1] = runs[1]
             S == {k \in 0..n : Typed(k) /\ From(k) /\ Ends(k) /\ Begins(k)}
  <2> HIDE DEF n
  <2>2. 0 \in S
    <3>1. f[0] = <<>> /\ Len(<<>>) = 0 /\ 0 \in 0..n /\ <<>> \in Seq(RunsOf(V))
      BY <1>1, <2>1
    <3>2. Typed(0) /\ Ends(0) /\ Begins(0)
      BY <3>1
    <3>3. From(0)
      BY <3>1
    <3> QED
      BY <3>1, <3>2, <3>3, Zenon
  <2>3. ASSUME NEW i \in 1..n, i - 1 \in S PROVE i \in S
    <3> DEFINE o == f[i - 1]
               r == runs[i]
               m == Len(o)
    <3>1. /\ f[i] = Transcripts!Passed(o, r, who) /\ o \in Seq(RunsOf(V)) /\ r \in RunsOf(V)
          /\ m \in Nat /\ i \in 0..n /\ i # 0
      BY <1>1, <2>1, <2>3
    <3>2. /\ From(i - 1) /\ Begins(i - 1)
      BY <2>3
    <3>3. /\ f[i] \in Seq(RunsOf(V))
          /\ r.who # who => f[i] = o
          /\ r.who = who => /\ Len(f[i]) = m + 1 /\ f[i][m + 1] = r
                            /\ \A k \in 1..m : f[i][k] = o[k]
      <4> HIDE DEF o, r
      <4> QED
        BY <3>1, PassedIs
    <3>4. CASE r.who # who
      <4>3. f[i] = o
        BY <3>3, <3>4
      <4>1. Typed(i) /\ From(i) /\ Ends(i)
        BY <3>2, <3>3, <3>4, <4>3
      <4>2. Begins(i)
        <5>1. CASE i = 1
          BY <3>4, <5>1
        <5>2. CASE i # 1
          BY <1>1, <3>2, <4>3, <5>2
        <5> QED
          BY <5>1, <5>2
      <4> QED
        BY <3>1, <4>1, <4>2
    <3>5. CASE r.who = who
      <4>1. /\ Len(f[i]) = m + 1 /\ f[i][m + 1] = r /\ f[i] \in Seq(RunsOf(V))
            /\ \A k \in 1..m : f[i][k] = o[k]
        BY <3>3, <3>5
      <4>2. Typed(i) /\ Ends(i)
        BY <3>1, <4>1
      <4>3. From(i)
        <5> SUFFICES ASSUME NEW k \in 1..(m + 1) PROVE f[i][k].who = who /\ \E j \in 1..n : f[i][k] = runs[j]
          BY <4>1
        <5>1. CASE k = m + 1
          BY <3>5, <4>1, <5>1
        <5>2. CASE k # m + 1
          <6>1. k \in 1..m
            BY <3>1, <5>2
          <6> QED
            BY <3>2, <4>1, <6>1, Zenon
        <5> QED
          BY <5>1, <5>2
      <4>4. Begins(i)
        <5>1. CASE i = 1
          <6>1. m = 0
            BY <2>1, <5>1
          <6> QED
            BY <4>1, <5>1, <6>1
        <5>2. CASE i # 1
          <6> SUFFICES ASSUME runs[1].who = who PROVE Len(f[i]) # 0 /\ f[i][1] = runs[1]
            OBVIOUS
          <6>1. m # 0 /\ o[1] = runs[1] /\ 1 \in 1..m
            BY <1>1, <3>1, <3>2, <5>2
          <6> QED
            BY <3>1, <4>1, <6>1
        <5> QED
          BY <5>1, <5>2
      <4> QED
        BY <3>1, <4>2, <4>3, <4>4
    <3> QED
      BY <3>4, <3>5
  <2> HIDE DEF S
  <2>4. n \in S
    <3>1. 0..n \subseteq S
      BY <1>1, <2>2, <2>3, Climb, Zenon
    <3> QED
      BY <1>1, <3>1
  <2>5. Typed(n) /\ From(n) /\ Ends(n) /\ Begins(n)
    BY <2>4 DEF S
  <2>6. kept \in Seq(RunsOf(V)) /\ \A i \in 1..Len(kept) : kept[i].who = who /\ \E j \in 1..n : kept[i] = runs[j]
    BY <2>1, <2>5
  <2>7. runs[n].who = who => Len(kept) # 0 /\ kept[Len(kept)] = runs[n]
    BY <1>1, <2>1, <2>5
  <2>8. runs[1].who = who => Len(kept) # 0 /\ kept[1] = runs[1]
    BY <1>1, <2>1, <2>5
  <2>9. kept # <<>> <=> Len(kept) # 0
    BY <2>6
  <2>10. kept # <<>> => kept[1].who = who
    BY <2>6, <2>9
  <2> HIDE DEF Typed, From, Ends, Begins
  <2> QED
    BY <1>3, <2>6, <2>7, <2>8, <2>9, <2>10 DEF n
<1> QED
  BY <1>2, <1>3

\* The last named of a sequence, and what text i is read under.
LastOf(s, n, who) ==
    \/ who = 0 /\ \A k \in 1..n : s[k].who = 0
    \/ who # 0 /\ \E k \in 1..n : s[k].who = who /\ \A j \in (k + 1)..n : s[j].who = 0

LEMMA LastOfOne ==
  ASSUME NEW s, NEW n \in Nat, NEW a, NEW b, LastOf(s, n, a), LastOf(s, n, b) PROVE a = b
<1>1. CASE \A k \in 1..n : s[k].who = 0
  BY <1>1 DEF LastOf
<1>2. CASE ~(\A k \in 1..n : s[k].who = 0)
  <2>1. PICK k \in 1..n : s[k].who = a /\ a # 0 /\ \A j \in (k + 1)..n : s[j].who = 0
    BY <1>2 DEF LastOf
  <2>2. PICK m \in 1..n : s[m].who = b /\ b # 0 /\ \A j \in (m + 1)..n : s[j].who = 0
    BY <1>2 DEF LastOf
  <2>3. ~(k < m) /\ ~(m < k)
    BY <2>1, <2>2
  <2>4. k = m
    BY <2>3
  <2> QED
    BY <2>1, <2>2, <2>4
<1> QED
  BY <1>1, <1>2

LEMMA LastNamedIs ==
  ASSUME NEW V, NEW s \in Seq(V), NEW o
  PROVE  /\ Transcripts!LastNamed(s, 0) = o => LastOf(s, Len(s), o)
         /\ Transcripts!Named(s) = {} <=> \A k \in 1..Len(s) : s[k].who = 0
         /\ Transcripts!Named(s) = {} => Transcripts!LastNamed(s, o) = o
         /\ Transcripts!Named(s) # {} => \E k \in 1..Len(s) : Transcripts!LastNamed(s, o) = s[k].who
<1> DEFINE n == Len(s)
           N == Transcripts!Named(s)
<1>1. n \in Nat /\ N = {i \in 1..n : s[i].who # 0}
  BY DEF Transcripts!Named, Transcripts!Nobody
<1> HIDE DEF n, N
<1>2. ASSUME N # {}
      PROVE  /\ Transcripts!Max(N) \in 1..n /\ s[Transcripts!Max(N)].who # 0
             /\ \A j \in (Transcripts!Max(N) + 1)..n : s[j].who = 0
             /\ \A x : Transcripts!LastNamed(s, x) = s[Transcripts!Max(N)].who
  <2> DEFINE m == Transcripts!Max(N)
  <2>1. m \in N /\ \A y \in N : y <= m
    BY <1>1, <1>2, MaxIs, Zenon
  <2>2. \A x : Transcripts!LastNamed(s, x) = s[m].who
    BY <1>2 DEF Transcripts!LastNamed, N
  <2> HIDE DEF m
  <2>3. m \in 1..n /\ s[m].who # 0
    BY <1>1, <2>1
  <2>4. ASSUME NEW j \in (m + 1)..n, s[j].who # 0 PROVE FALSE
    BY <1>1, <2>1, <2>3, <2>4
  <2> QED
    BY <2>2, <2>3, <2>4 DEF m
<1>3. ASSUME N = {} PROVE \A x : Transcripts!LastNamed(s, x) = x
  BY <1>3 DEF Transcripts!LastNamed, N
<1>4. N = {} <=> \A k \in 1..n : s[k].who = 0
  BY <1>1
<1>5. LastOf(s, n, Transcripts!LastNamed(s, 0))
  <2>1. CASE N = {}
    BY <1>3, <1>4, <2>1 DEF LastOf
  <2>2. CASE N # {}
    BY <1>2, <2>2 DEF LastOf
  <2> QED
    BY <2>1, <2>2
<1>6. N # {} => \E k \in 1..n : Transcripts!LastNamed(s, o) = s[k].who
  BY <1>2
<1> QED
  BY <1>3, <1>4, <1>5, <1>6 DEF n, N

LEMMA ReadInIs ==
  ASSUME NEW V, NEW s \in Seq(V), NEW i \in 0..Len(s) PROVE LastOf(s, i, Transcripts!ReadIn(s, i))
<1> DEFINE t == SubSeq(s, 1, i)
<1>1. i \in Nat /\ t \in Seq(V) /\ Len(t) = i /\ \A k \in 1..i : t[k] = s[k]
  <2>1. Len(s) \in Nat
    OBVIOUS
  <2> QED
    BY <2>1, SubSeqProperties
<1>2. Transcripts!ReadIn(s, i) = Transcripts!LastNamed(t, 0)
  BY DEF Transcripts!ReadIn, Transcripts!Nobody
<1> HIDE DEF t
<1> DEFINE x == Transcripts!LastNamed(t, 0)
<1>3. LastOf(t, Len(t), x)
  BY <1>1, LastNamedIs
<1> HIDE DEF x
<1>4. LastOf(s, i, x)
  <2>1. CASE x = 0 /\ \A k \in 1..i : t[k].who = 0
    BY <1>1, <2>1 DEF LastOf
  <2>2. CASE x # 0 /\ \E k \in 1..i : t[k].who = x /\ \A j \in (k + 1)..i : t[j].who = 0
    <3>1. PICK k \in 1..i : t[k].who = x /\ \A j \in (k + 1)..i : t[j].who = 0
      BY <2>2
    <3>2. \A j \in (k + 1)..i : j \in 1..i
      BY <1>1
    <3>3. s[k].who = x /\ \A j \in (k + 1)..i : s[j].who = 0
      BY <1>1, <3>1, <3>2
    <3> QED
      BY <2>2, <3>3 DEF LastOf
  <2> QED
    BY <1>1, <1>3, <2>1, <2>2 DEF LastOf
<1> QED
  BY <1>2, <1>4 DEF x

LEMMA ReadSame ==
  ASSUME NEW V, NEW s \in Seq(V), NEW t \in Seq(V), NEW i \in 0..Len(s), i <= Len(t),
         \A k \in 1..i : s[k] = t[k]
  PROVE  Transcripts!ReadIn(s, i) = Transcripts!ReadIn(t, i)
<1> DEFINE a == Transcripts!ReadIn(s, i)
           b == Transcripts!ReadIn(t, i)
<1>1. i \in Nat /\ i \in 0..Len(t) /\ Len(s) \in Nat /\ Len(t) \in Nat
  OBVIOUS
<1>2. LastOf(s, i, a) /\ LastOf(t, i, b)
  BY <1>1, ReadInIs
<1> HIDE DEF a, b
<1>3. LastOf(t, i, a)
  <2>1. CASE a = 0 /\ \A k \in 1..i : s[k].who = 0
    BY <2>1 DEF LastOf
  <2>2. CASE a # 0 /\ \E k \in 1..i : s[k].who = a /\ \A j \in (k + 1)..i : s[j].who = 0
    <3>1. PICK k \in 1..i : s[k].who = a /\ \A j \in (k + 1)..i : s[j].who = 0
      BY <2>2
    <3>2. \A j \in (k + 1)..i : j \in 1..i
      BY <1>1
    <3> QED
      BY <2>2, <3>1, <3>2, Zenon DEF LastOf
  <2> QED
    BY <1>2, <2>1, <2>2 DEF LastOf
<1>4. a = b
  BY <1>1, <1>2, <1>3, LastOfOne
<1> QED
  BY <1>4 DEF a, b

LEMMA ReadNext ==
  ASSUME NEW V, NEW s \in Seq(V), NEW i \in 1..Len(s)
  PROVE  Transcripts!ReadIn(s, i) = IF s[i].who = 0 THEN Transcripts!ReadIn(s, i - 1) ELSE s[i].who
<1> DEFINE a == Transcripts!ReadIn(s, i)
           b == Transcripts!ReadIn(s, i - 1)
<1>1. i \in Nat /\ i - 1 \in Nat /\ i \in 0..Len(s) /\ i - 1 \in 0..Len(s) /\ Len(s) \in Nat
  OBVIOUS
<1>2. LastOf(s, i, a) /\ LastOf(s, i - 1, b)
  BY <1>1, ReadInIs
<1> HIDE DEF a, b
<1>3. CASE s[i].who = 0
  <2>1. LastOf(s, i, b)
    <3>1. CASE b = 0 /\ \A k \in 1..(i - 1) : s[k].who = 0
      BY <1>1, <1>3, <3>1 DEF LastOf
    <3>2. CASE b # 0 /\ \E k \in 1..(i - 1) : s[k].who = b /\ \A j \in (k + 1)..(i - 1) : s[j].who = 0
      <4>1. PICK k \in 1..(i - 1) : s[k].who = b /\ \A j \in (k + 1)..(i - 1) : s[j].who = 0
        BY <3>2
      <4>2. k \in 1..i /\ \A j \in (k + 1)..i : s[j].who = 0
        BY <1>1, <1>3, <4>1
      <4> QED
        BY <3>2, <4>1, <4>2 DEF LastOf
    <3> QED
      BY <1>2, <3>1, <3>2, Zenon DEF LastOf
  <2>2. a = b
    BY <1>1, <1>2, <2>1, LastOfOne
  <2> QED
    BY <1>3, <2>2 DEF a, b
<1>4. CASE s[i].who # 0
  <2>1. i \in 1..i /\ \A j \in (i + 1)..i : s[j].who = 0
    BY <1>1
  <2>2. LastOf(s, i, s[i].who)
    BY <1>4, <2>1 DEF LastOf
  <2>3. a = s[i].who
    BY <1>1, <1>2, <2>2, LastOfOne
  <2> QED
    BY <1>4, <2>3 DEF a
<1> QED
  BY <1>3, <1>4

LEMMA ReadLast ==
  ASSUME NEW V, NEW s \in Seq(V) PROVE Transcripts!LastNamed(s, 0) = Transcripts!ReadIn(s, Len(s))
<1>1. Len(s) \in Nat /\ Len(s) \in 0..Len(s)
  OBVIOUS
<1>2. LastOf(s, Len(s), Transcripts!LastNamed(s, 0))
  BY LastNamedIs
<1>3. LastOf(s, Len(s), Transcripts!ReadIn(s, Len(s)))
  BY <1>1, ReadInIs
<1> QED
  BY <1>1, <1>2, <1>3, LastOfOne

\* Without the texts before it a text is read as before or under no name.
LEMMA ReadRest ==
  ASSUME NEW V, NEW s \in Seq(V), NEW t \in Seq(V), NEW m \in Nat, Len(s) = m + Len(t),
         \A k \in 1..Len(t) : t[k] = s[m + k], NEW i \in 0..Len(t)
  PROVE  Transcripts!ReadIn(t, i) \in {Transcripts!ReadIn(s, m + i), 0}
<1> DEFINE a == Transcripts!ReadIn(t, i)
           b == Transcripts!ReadIn(s, m + i)
<1>1. i \in Nat /\ m + i \in 0..Len(s) /\ Len(t) \in Nat /\ m + i \in Nat
  OBVIOUS
<1>2. LastOf(t, i, a) /\ LastOf(s, m + i, b)
  BY <1>1, ReadInIs
<1> HIDE DEF a, b
<1>3. CASE a # 0
  <2>1. PICK k \in 1..i : t[k].who = a /\ \A j \in (k + 1)..i : t[j].who = 0
    BY <1>2, <1>3 DEF LastOf
  <2>2. m + k \in 1..(m + i) /\ s[m + k].who = a
    BY <1>1, <2>1
  <2>3. ASSUME NEW j \in (m + k + 1)..(m + i) PROVE s[j].who = 0
    <3> DEFINE x == j - m
    <3>1. x \in (k + 1)..i /\ x \in 1..Len(t) /\ m + x = j
      BY <1>1
    <3> HIDE DEF x
    <3>2. t[x].who = 0 /\ t[x] = s[m + x]
      BY <2>1, <3>1
    <3> QED
      BY <3>1, <3>2, Zenon
  <2>4. LastOf(s, m + i, a)
    BY <1>3, <2>2, <2>3, Zenon DEF LastOf
  <2> QED
    BY <1>1, <1>2, <2>4, LastOfOne DEF a, b
<1>4. CASE a = 0
  BY <1>4 DEF a
<1> QED
  BY <1>3, <1>4

TextRec == [who : Nat, words : Transcripts!Words, glued : BOOLEAN]
Proc == [turn : Nat, primary : Nat, last : Nat, lastFinal : Nat, hasFinal : BOOLEAN,
         fragments : Seq(RunsOf(Nat)), cuttable : BOOLEAN, previous : Nat, numbers : Seq(Tags)]
Sending == [p : Proc, out : Seq(TextRec)]

\* Pushing a text on changes what the prefixes remember, and nothing else.
SameTurn(p, q) ==
    /\ q \in Proc /\ q.turn = p.turn /\ q.primary = p.primary /\ q.last = p.last
    /\ q.fragments = p.fragments /\ q.cuttable = p.cuttable /\ q.previous = p.previous /\ q.numbers = p.numbers

LEMMA PushedIs ==
  ASSUME v1, NEW p \in Proc, NEW who \in Nat
  PROVE  /\ SameTurn(p, Transcripts!Pushed(p, who)) /\ Transcripts!Pushed(p, who).hasFinal
         /\ Transcripts!Pushed(p, who).lastFinal = IF who # 0 THEN who ELSE p.lastFinal
BY Zenon DEF Transcripts!Pushed, SameTurn, Proc, Transcripts!Nobody

LEMMA PrefixedIs ==
  ASSUME v1, NEW p \in Proc, NEW run \in RunsOf(Nat), NEW glued \in BOOLEAN
  PROVE  /\ Transcripts!Prefixed(p, run, glued) \in TextRec
         /\ Transcripts!Prefixed(p, run, glued).words = run.words
         /\ Transcripts!Prefixed(p, run, glued).glued = glued
         /\ Transcripts!Prefixed(p, run, glued).who \in {run.who, 0}
         /\ (run.who # 0 /\ run.who # p.lastFinal) => Transcripts!Prefixed(p, run, glued).who = run.who
<1>1. run.who \in Nat /\ run.words \in Transcripts!Words
  BY DEF RunsOf
<1> QED
  BY <1>1 DEF Transcripts!Prefixed, Transcripts!StartsRun, TextRec, Transcripts!Nobody

LEMMA CopiedIs ==
  ASSUME v1, NEW sent \in Sending, NEW run \in RunsOf(Nat), NEW glued \in BOOLEAN
  PROVE  /\ Transcripts!Copied(sent, run, glued) \in Sending
         /\ Transcripts!Copied(sent, run, glued).p = Transcripts!Pushed(sent.p, run.who)
         /\ Transcripts!Copied(sent, run, glued).out = Append(sent.out, Transcripts!Prefixed(sent.p, run, glued))
<1>1. run.who \in Nat /\ sent.p \in Proc /\ sent.out \in Seq(TextRec)
  BY DEF RunsOf, Sending
<1> DEFINE q == Transcripts!Pushed(sent.p, run.who)
           x == Transcripts!Prefixed(sent.p, run, glued)
<1>2. q \in Proc /\ x \in TextRec
  BY <1>1, PushedIs, PrefixedIs DEF SameTurn
<1>3. Transcripts!Copied(sent, run, glued) = [p |-> q, out |-> Append(sent.out, x)]
  BY DEF Transcripts!Copied
<1> HIDE DEF q, x
<1>4. Append(sent.out, x) \in Seq(TextRec)
  BY <1>1, <1>2, AppendIs
<1> QED
  BY <1>2, <1>3, <1>4 DEF Sending, q, x

TextsOf(p, runs, glue, f) ==
    f = [i \in 0..Len(runs) |-> IF i = 0 THEN [p |-> p, out |-> <<>>]
                                ELSE Transcripts!Copied(f[i - 1], runs[i], glue /\ i = 1)]

LEMMA TextsSteps ==
  ASSUME v1, NEW p \in Proc, NEW runs \in Seq(RunsOf(Nat)), NEW glue \in BOOLEAN
  PROVE  \E f : /\ Transcripts!Texts(p, runs, glue) = f[Len(runs)] /\ f[0] = [p |-> p, out |-> <<>>]
                /\ \A i \in 1..Len(runs) : f[i] = Transcripts!Copied(f[i - 1], runs[i], glue /\ i = 1)
<1> DEFINE n == Len(runs)
           D == Sending
           cut(i) == glue /\ i = 1
           g == [i \in 1..n |-> [x \in D |-> Transcripts!Copied(x, runs[i], cut(i))]]
           b == [p |-> p, out |-> <<>>]
<1>1. n \in Nat /\ b \in D /\ \A i \in 1..n : runs[i] \in RunsOf(Nat)
  BY RunsAre DEF Sending
<1>2. \A i \in 1..n : \A x \in D : Transcripts!Copied(x, runs[i], cut(i)) \in D
  <2>1. \A i \in 1..n : cut(i) \in BOOLEAN
    OBVIOUS
  <2> HIDE DEF cut
  <2> QED
    BY <1>1, <2>1, CopiedIs, Zenon
<1> HIDE DEF n, D, b, cut
<1>3. g \in [1..n -> [D -> D]]
  BY <1>2
<1>4. PICK h \in [0..n -> D] : h[0] = b /\ \A i \in 1..n : h[i] = g[i][h[i - 1]]
  <2> HIDE DEF g
  <2>1. Solvable(D, b, n, g)
    BY <1>1, <1>3, Recursion
  <2> QED
    BY <2>1, Zenon DEF Solvable
<1>5. ASSUME NEW i \in 1..n PROVE h[i] = Transcripts!Copied(h[i - 1], runs[i], cut(i))
  <2>1. h[i - 1] \in D /\ h[i] = g[i][h[i - 1]]
    <3> HIDE DEF g
    <3> QED
      BY <1>1, <1>4
  <2> QED
    BY <2>1
<1>6. h = [i \in 0..n |-> IF i = 0 THEN b ELSE Transcripts!Copied(h[i - 1], runs[i], cut(i))]
  <2> HIDE DEF D, g
  <2> QED
    BY <1>1, <1>4, <1>5
<1>7. \E f : TextsOf(p, runs, glue, f)
  BY <1>6, Zenon DEF TextsOf, n, b, cut
<1> DEFINE f == CHOOSE f : TextsOf(p, runs, glue, f)
<1>8. Transcripts!Texts(p, runs, glue) = f[n]
  BY DEF Transcripts!Texts, TextsOf, n
<1>9. TextsOf(p, runs, glue, f)
  BY <1>7, Zenon
<1> HIDE DEF f
<1>10. f[0] = b /\ \A i \in 1..n : f[i] = Transcripts!Copied(f[i - 1], runs[i], cut(i))
  BY <1>1, <1>9 DEF TextsOf, n, b, cut
<1> QED
  BY <1>8, <1>10 DEF n, b, cut

\* A final's texts are read under the speakers of its runs or under no name.
LEMMA TextsIs ==
  ASSUME v1, NEW p \in Proc, NEW runs \in Seq(RunsOf(Nat)), NEW glue \in BOOLEAN, NEW base \in Seq(TextRec),
         p.lastFinal # 0 => Transcripts!ReadIn(base, Len(base)) \in {p.lastFinal, 0}
  PROVE  /\ SameTurn(p, Transcripts!Texts(p, runs, glue).p)
         /\ Transcripts!Texts(p, runs, glue).out \in Seq(TextRec)
         /\ Len(Transcripts!Texts(p, runs, glue).out) = Len(runs)
         /\ \A i \in 1..Len(runs) : /\ Transcripts!Texts(p, runs, glue).out[i].words = runs[i].words
                                    /\ Transcripts!Texts(p, runs, glue).out[i].glued => glue /\ i = 1
         /\ \A i \in 1..Len(runs) : runs[i].who # 0 =>
              Transcripts!ReadIn(base \o Transcripts!Texts(p, runs, glue).out, Len(base) + i) \in {runs[i].who, 0}
         /\ Transcripts!Texts(p, runs, glue).p.lastFinal # 0 =>
              Transcripts!ReadIn(base \o Transcripts!Texts(p, runs, glue).out, Len(base) + Len(runs))
                \in {Transcripts!Texts(p, runs, glue).p.lastFinal, 0}
<1> DEFINE n == Len(runs)
           m == Len(base)
<1>1. n \in Nat /\ m \in Nat /\ \A i \in 1..n : runs[i] \in RunsOf(Nat) /\ runs[i].who \in Nat
  BY RunsAre
<1>2. PICK f : /\ Transcripts!Texts(p, runs, glue) = f[n] /\ f[0] = [p |-> p, out |-> <<>>]
               /\ \A i \in 1..n : f[i] = Transcripts!Copied(f[i - 1], runs[i], glue /\ i = 1)
  BY TextsSteps, Zenon
<1> DEFINE all(k) == base \o f[k].out
           Typed(k) == f[k] \in Sending /\ SameTurn(p, f[k].p) /\ Len(f[k].out) = k
           Same(k) == \A i \in 1..k : /\ f[k].out[i].words = runs[i].words
                                      /\ f[k].out[i].glued => glue /\ i = 1
           Under(k) == \A i \in 1..k : runs[i].who # 0 =>
                           Transcripts!ReadIn(all(k), m + i) \in {runs[i].who, 0}
           Now(k) == f[k].p.lastFinal # 0 => Transcripts!ReadIn(all(k), m + k) \in {f[k].p.lastFinal, 0}
           S == {k \in 0..n : Typed(k) /\ Same(k) /\ Under(k) /\ Now(k)}
<1> HIDE DEF n, m
<1>3. 0 \in S
  <2>1. f[0].p = p /\ f[0].out = <<>> /\ f[0] \in Sending /\ SameTurn(p, p) /\ 0 \in 0..n
    BY <1>1, <1>2 DEF Sending, SameTurn
  <2>2. base \o <<>> = base
    OBVIOUS
  <2>3. Now(0)
    BY <1>1, <2>1, <2>2 DEF m
  <2>4. Typed(0) /\ Same(0) /\ Under(0)
    BY <2>1
  <2> QED
    BY <2>1, <2>3, <2>4, Zenon
<1>4. ASSUME NEW i \in 1..n, i - 1 \in S PROVE i \in S
  <2> DEFINE o == f[i - 1]
             r == runs[i]
             x == Transcripts!Prefixed(o.p, r, glue /\ i = 1)
             s == all(i - 1)
             t == all(i)
  <2>1. /\ f[i] = Transcripts!Copied(o, r, glue /\ i = 1) /\ r \in RunsOf(Nat) /\ r.who \in Nat
        /\ i \in 0..n /\ i \in Nat /\ i - 1 \in Nat
    BY <1>1, <1>2
  <2>2. Typed(i - 1) /\ Same(i - 1) /\ Under(i - 1) /\ Now(i - 1)
    BY <1>4
  <2>3. o \in Sending /\ o.p \in Proc /\ o.out \in Seq(TextRec) /\ Len(o.out) = i - 1 /\ SameTurn(p, o.p)
    BY <2>2 DEF Sending
  <2>4. /\ f[i] \in Sending /\ f[i].p = Transcripts!Pushed(o.p, r.who) /\ f[i].out = Append(o.out, x)
    <3> DEFINE c == glue /\ i = 1
    <3>1. c \in BOOLEAN
      OBVIOUS
    <3> HIDE DEF c, o, r
    <3>2. /\ Transcripts!Copied(o, r, c) \in Sending
          /\ Transcripts!Copied(o, r, c).p = Transcripts!Pushed(o.p, r.who)
          /\ Transcripts!Copied(o, r, c).out = Append(o.out, Transcripts!Prefixed(o.p, r, c))
      BY <2>1, <2>3, <3>1, CopiedIs
    <3> QED
      BY <2>1, <3>2 DEF c
  <2>5. /\ x \in TextRec /\ x.words = r.words /\ (x.glued => glue /\ i = 1) /\ x.who \in {r.who, 0}
        /\ (r.who # 0 /\ r.who # o.p.lastFinal) => x.who = r.who
    <3> DEFINE c == glue /\ i = 1
    <3>1. c \in BOOLEAN
      OBVIOUS
    <3> HIDE DEF c, o, r
    <3>2. /\ Transcripts!Prefixed(o.p, r, c) \in TextRec
          /\ Transcripts!Prefixed(o.p, r, c).words = r.words
          /\ Transcripts!Prefixed(o.p, r, c).glued = c
          /\ Transcripts!Prefixed(o.p, r, c).who \in {r.who, 0}
          /\ (r.who # 0 /\ r.who # o.p.lastFinal) => Transcripts!Prefixed(o.p, r, c).who = r.who
      BY <2>1, <2>3, <3>1, PrefixedIs
    <3> QED
      BY <3>2, Zenon DEF c
  <2>6. /\ SameTurn(o.p, f[i].p) /\ f[i].p.lastFinal = IF r.who # 0 THEN r.who ELSE o.p.lastFinal
    <3> HIDE DEF o, r
    <3> QED
      BY <2>1, <2>3, <2>4, PushedIs
  <2>7. /\ f[i].out \in Seq(TextRec) /\ Len(f[i].out) = i /\ f[i].out[i] = x
        /\ \A k \in 1..(i - 1) : f[i].out[k] = o.out[k]
    <3> HIDE DEF o, x
    <3>1. /\ Append(o.out, x) \in Seq(TextRec) /\ Len(Append(o.out, x)) = (i - 1) + 1
          /\ \A k \in 1..(i - 1) : Append(o.out, x)[k] = o.out[k]
          /\ Append(o.out, x)[(i - 1) + 1] = x
      BY <2>3, <2>5, AppendIs
    <3>2. (i - 1) + 1 = i
      BY <2>1
    <3> QED
      BY <2>4, <3>1, <3>2
  <2>8. Typed(i)
    BY <2>3, <2>4, <2>6, <2>7 DEF SameTurn
  <2>9. Same(i)
    <3> SUFFICES ASSUME NEW k \in 1..i
                 PROVE  f[i].out[k].words = runs[k].words /\ (f[i].out[k].glued => glue /\ k = 1)
      OBVIOUS
    <3>1. CASE k = i
      BY <2>5, <2>7, <3>1
    <3>2. CASE k # i
      <4>1. k \in 1..(i - 1)
        BY <2>1, <3>2
      <4> QED
        BY <2>2, <2>7, <4>1, Zenon
    <3> QED
      BY <3>1, <3>2
  <2>10. /\ s \in Seq(TextRec) /\ Len(s) = m + (i - 1) /\ \A k \in 1..m : s[k] = base[k]
         /\ \A k \in 1..(i - 1) : s[m + k] = o.out[k]
    <3> DEFINE a == o.out
    <3> HIDE DEF a, o
    <3>1. a \in Seq(TextRec) /\ s = base \o a /\ Len(a) = i - 1
      BY <2>3 DEF a, o
    <3> HIDE DEF a
    <3>2. /\ base \o a \in Seq(TextRec) /\ Len(base \o a) = m + Len(a)
          /\ \A k \in 1..m : (base \o a)[k] = base[k]
          /\ \A k \in 1..Len(a) : (base \o a)[m + k] = a[k]
      <4>1. a \in Seq(TextRec)
        BY <3>1
      <4> QED
        BY <4>1, SeqJoin DEF m
    <3>3. /\ s \in Seq(TextRec) /\ Len(s) = m + (i - 1) /\ \A k \in 1..m : s[k] = base[k]
          /\ \A k \in 1..(i - 1) : s[m + k] = a[k]
      <4> HIDE DEF all, s
      <4> QED
        BY <3>1, <3>2, Zenon
    <3> QED
      BY <3>3, Zenon DEF a
  <2>11. /\ t \in Seq(TextRec) /\ Len(t) = m + i /\ \A k \in 1..m : t[k] = base[k]
         /\ \A k \in 1..i : t[m + k] = f[i].out[k]
    <3> DEFINE a == f[i].out
    <3>1. a \in Seq(TextRec) /\ t = base \o a /\ Len(a) = i
      BY <2>7
    <3> HIDE DEF a
    <3>2. /\ base \o a \in Seq(TextRec) /\ Len(base \o a) = m + Len(a)
          /\ \A k \in 1..m : (base \o a)[k] = base[k]
          /\ \A k \in 1..Len(a) : (base \o a)[m + k] = a[k]
      <4>1. a \in Seq(TextRec)
        BY <3>1
      <4> QED
        BY <4>1, SeqJoin DEF m
    <3>3. /\ t \in Seq(TextRec) /\ Len(t) = m + (i) /\ \A k \in 1..m : t[k] = base[k]
          /\ \A k \in 1..(i) : t[m + k] = a[k]
      <4> HIDE DEF all, t
      <4> QED
        BY <3>1, <3>2, Zenon
    <3> QED
      BY <3>3, Zenon DEF a
  <2> HIDE DEF all, o, s, t, x, r
  <2>12. \A k \in 1..(m + (i - 1)) : s[k] = t[k]
    <3> SUFFICES ASSUME NEW k \in 1..(m + (i - 1)) PROVE s[k] = t[k]
      OBVIOUS
    <3>1. CASE k <= m
      BY <1>1, <2>10, <2>11, <3>1
    <3>2. CASE k > m
      <4> DEFINE j == k - m
      <4>1. j \in 1..(i - 1) /\ j \in 1..i /\ m + j = k
        BY <1>1, <2>1, <3>2
      <4> HIDE DEF j
      <4>2. s[m + j] = o.out[j] /\ t[m + j] = f[i].out[j] /\ f[i].out[j] = o.out[j]
        BY <2>7, <2>10, <2>11, <4>1, Zenon
      <4> QED
        BY <4>1, <4>2
    <3> QED
      BY <1>1, <2>1, <3>1, <3>2
  <2>13. ASSUME NEW k \in 0..(m + (i - 1)) PROVE Transcripts!ReadIn(s, k) = Transcripts!ReadIn(t, k)
    <3>1. k \in 0..Len(s) /\ k <= Len(t) /\ \A j \in 1..k : s[j] = t[j]
      BY <1>1, <2>1, <2>10, <2>11, <2>12
    <3> QED
      BY <2>10, <2>11, <3>1, ReadSame, Zenon
  <2>14. Transcripts!ReadIn(t, m + i) = IF x.who = 0 THEN Transcripts!ReadIn(s, m + (i - 1)) ELSE x.who
    <3>1. m + i \in 1..Len(t) /\ (m + i) - 1 = m + (i - 1) /\ m + (i - 1) \in 0..(m + (i - 1)) /\ i \in 1..i
      BY <1>1, <2>1, <2>11
    <3>2. t[m + i] = x
      BY <2>7, <2>11, <3>1
    <3>3. Transcripts!ReadIn(t, m + i) = IF t[m + i].who = 0 THEN Transcripts!ReadIn(t, (m + i) - 1) ELSE t[m + i].who
      BY <2>11, <3>1, ReadNext
    <3> QED
      BY <2>13, <3>1, <3>2, <3>3
  <2>15. o.p.lastFinal # 0 => Transcripts!ReadIn(s, m + (i - 1)) \in {o.p.lastFinal, 0}
    BY <2>2 DEF o, s
  <2>16. r.who # 0 => Transcripts!ReadIn(t, m + i) \in {r.who, 0}
    BY <2>5, <2>14, <2>15
  <2>17. Now(i)
    <3>1. f[i].p.lastFinal # 0 => Transcripts!ReadIn(t, m + i) \in {f[i].p.lastFinal, 0}
      BY <2>5, <2>6, <2>14, <2>15, <2>16
    <3> QED
      BY <3>1 DEF t
  <2>18. Under(i)
    <3> SUFFICES ASSUME NEW k \in 1..i, runs[k].who # 0 PROVE Transcripts!ReadIn(t, m + k) \in {runs[k].who, 0}
      BY DEF t
    <3>1. CASE k = i
      BY <2>16, <3>1 DEF r
    <3>2. CASE k # i
      <4>1. k \in 1..(i - 1) /\ m + k \in 0..(m + (i - 1))
        BY <1>1, <2>1, <3>2
      <4>2. Transcripts!ReadIn(s, m + k) \in {runs[k].who, 0}
        BY <2>2, <4>1 DEF s
      <4> QED
        BY <2>13, <4>1, <4>2
    <3> QED
      BY <3>1, <3>2
  <2> HIDE DEF Typed, Same, Under, Now
  <2> QED
    BY <2>1, <2>8, <2>9, <2>17, <2>18
<1> HIDE DEF S
<1>5. n \in S
  <2>1. 0..n \subseteq S
    BY <1>1, <1>3, <1>4, Climb, Zenon
  <2> QED
    BY <1>1, <2>1
<1>6. Typed(n) /\ Same(n) /\ Under(n) /\ Now(n)
  BY <1>5 DEF S
<1> QED
  BY <1>2, <1>6 DEF Sending, n, m

FlatOf(seqs, f) == f = [i \in 1..Len(seqs) |-> IF i = 1 THEN seqs[i] ELSE f[i - 1] \o seqs[i]]

LEMMA FlatSteps ==
  ASSUME NEW seqs \in Seq(Transcripts!Words), seqs # <<>>
  PROVE  \E f : /\ Transcripts!FlattenSeq(seqs) = f[Len(seqs)] /\ f[1] = seqs[1]
                /\ \A i \in 2..Len(seqs) : f[i] = f[i - 1] \o seqs[i]
<1> DEFINE n == Len(seqs)
           D == Transcripts!Words
           g == [i \in 1..(n - 1) |-> [x \in D |-> x \o seqs[i + 1]]]
           b == seqs[1]
<1>1. n \in Nat \ {0} /\ n - 1 \in Nat /\ b \in D /\ \A i \in 1..n : seqs[i] \in Transcripts!Words
  OBVIOUS
<1>2. ASSUME NEW i \in 1..(n - 1), NEW x \in D PROVE x \o seqs[i + 1] \in D
  <2>1. seqs[i + 1] \in Transcripts!Words
    BY <1>1
  <2> QED
    BY <2>1, JoinIs
<1> HIDE DEF n, D, b
<1>3. g \in [1..(n - 1) -> [D -> D]]
  BY <1>2
<1>4. PICK h \in [0..(n - 1) -> D] : h[0] = b /\ \A i \in 1..(n - 1) : h[i] = g[i][h[i - 1]]
  <2> HIDE DEF g
  <2>1. Solvable(D, b, n - 1, g)
    BY <1>1, <1>3, Recursion
  <2> QED
    BY <2>1, Zenon DEF Solvable
<1>5. ASSUME NEW i \in 1..(n - 1) PROVE h[i] = h[i - 1] \o seqs[i + 1]
  <2>1. h[i - 1] \in D /\ h[i] = g[i][h[i - 1]]
    <3> HIDE DEF g
    <3> QED
      BY <1>1, <1>4
  <2> QED
    BY <2>1, Zenon
<1> DEFINE k == [i \in 1..n |-> h[i - 1]]
<1>6. ASSUME NEW i \in 1..n PROVE k[i] = IF i = 1 THEN seqs[i] ELSE k[i - 1] \o seqs[i]
  <2> HIDE DEF g
  <2>1. k[i] = h[i - 1]
    OBVIOUS
  <2>2. CASE i = 1
    BY <1>4, <2>1, <2>2 DEF b
  <2>3. CASE i # 1
    <3> DEFINE j == i - 1
    <3>1. j \in 1..(n - 1) /\ j \in 1..n /\ j + 1 = i
      BY <1>1, <2>3
    <3>2. k[j] = h[j - 1]
      BY <3>1
    <3> HIDE DEF k
    <3>3. h[j] = h[j - 1] \o seqs[j + 1]
      BY <1>5, <3>1, Zenon
    <3> QED
      BY <2>1, <2>3, <3>1, <3>2, <3>3, Zenon
  <2> QED
    BY <2>2, <2>3
<1>7. \E f : FlatOf(seqs, f)
  <2>1. k = [i \in 1..n |-> k[i]]
    OBVIOUS
  <2> HIDE DEF k
  <2>2. k = [i \in 1..n |-> IF i = 1 THEN seqs[i] ELSE k[i - 1] \o seqs[i]]
    BY <1>6, <2>1, Zenon
  <2> QED
    BY <2>2 DEF FlatOf, n
<1> DEFINE f == CHOOSE f : FlatOf(seqs, f)
<1>8. Transcripts!FlattenSeq(seqs) = f[n]
  <2>1. Len(seqs) # 0
    BY <1>1 DEF n
  <2> QED
    BY <2>1 DEF Transcripts!FlattenSeq, FlatOf, n
<1>9. FlatOf(seqs, f)
  BY <1>7, Zenon
<1> HIDE DEF f
<1>10. f[1] = seqs[1] /\ \A i \in 2..n : f[i] = f[i - 1] \o seqs[i]
  BY <1>1, <1>9 DEF FlatOf, n
<1> QED
  BY <1>8, <1>10 DEF n

\* The words of texts put together are theirs, from the first to the last.
LEMMA FlattenIs ==
  ASSUME NEW seqs \in Seq(Transcripts!Words)
  PROVE  /\ Transcripts!FlattenSeq(seqs) \in Seq(Nat)
         /\ \A a \in 1..Len(Transcripts!FlattenSeq(seqs)) :
              \E i \in 1..Len(seqs) : \E b \in 1..Len(seqs[i]) : Transcripts!FlattenSeq(seqs)[a] = seqs[i][b]
         /\ seqs # <<>> => /\ Transcripts!FlattenSeq(seqs) \in Transcripts!Words
                           /\ Transcripts!FlattenSeq(seqs)[1] = seqs[1][1]
                           /\ Transcripts!Last(Transcripts!FlattenSeq(seqs)) = Transcripts!Last(seqs[Len(seqs)])
<1> DEFINE n == Len(seqs)
<1>1. CASE seqs = <<>>
  <2>1. Transcripts!FlattenSeq(seqs) = <<>>
    BY <1>1 DEF Transcripts!FlattenSeq
  <2>2. Len(<<>>) = 0 /\ <<>> \in Seq(Nat)
    OBVIOUS
  <2>3. \A a : a \notin 1..0
    OBVIOUS
  <2> HIDE DEF n
  <2> QED
    BY <1>1, <2>1, <2>2, <2>3, Zenon
<1>2. CASE seqs # <<>>
  <2>1. n \in Nat \ {0} /\ \A i \in 1..n : seqs[i] \in Transcripts!Words
    BY <1>2
  <2>2. PICK f : /\ Transcripts!FlattenSeq(seqs) = f[n] /\ f[1] = seqs[1]
                 /\ \A i \in 2..n : f[i] = f[i - 1] \o seqs[i]
    BY <1>2, FlatSteps, Zenon
  <2> HIDE DEF n
  <2> DEFINE From(k) == \A a \in 1..Len(f[k]) : \E i \in 1..n : \E b \in 1..Len(seqs[i]) : f[k][a] = seqs[i][b]
             Ends(k) == f[k][1] = seqs[1][1] /\ Transcripts!Last(f[k]) = Transcripts!Last(seqs[k])
             S == {k \in 0..n : k # 0 => f[k] \in Transcripts!Words /\ From(k) /\ Ends(k)}
  <2>3. 0 \in S
    BY <2>1
  <2>4. ASSUME NEW i \in 1..n, i - 1 \in S PROVE i \in S
    <3>1. i \in 0..n /\ seqs[i] \in Transcripts!Words
      BY <2>1
    <3>2. CASE i = 1
      BY <2>2, <3>1, <3>2
    <3>3. CASE i # 1
      <4> DEFINE s == f[i - 1]
                 t == seqs[i]
      <4>7. i \in 2..n
        BY <2>1, <3>3
      <4>1. i \in 2..n /\ f[i] = s \o t
        BY <2>2, <4>7, Zenon
      <4>2. s \in Transcripts!Words /\ From(i - 1) /\ s[1] = seqs[1][1]
        BY <2>4, <3>3
      <4>8. t \in Transcripts!Words
        BY <3>1
      <4>9. \A a \in 1..Len(s) : \E j \in 1..n : \E b \in 1..Len(seqs[j]) : s[a] = seqs[j][b]
        BY <4>2
      <4> HIDE DEF s
      <4>10. t = seqs[i]
        OBVIOUS
      <4> HIDE DEF t
      <4>3. /\ s \o t \in Transcripts!Words /\ Len(s \o t) = Len(s) + Len(t)
            /\ \A a \in 1..(Len(s) + Len(t)) : (s \o t)[a] = IF a <= Len(s) THEN s[a] ELSE t[a - Len(s)]
        BY <4>2, <4>8, JoinIs
      <4>4. Len(s) \in Nat \ {0} /\ Len(t) \in Nat \ {0}
        BY <4>2, <4>8, WordsAre
      <4>5. From(i)
        <5> SUFFICES ASSUME NEW a \in 1..(Len(s) + Len(t))
                     PROVE  \E j \in 1..n : \E b \in 1..Len(seqs[j]) : (s \o t)[a] = seqs[j][b]
          BY <4>1, <4>3
        <5>1. CASE a <= Len(s)
          <6>1. a \in 1..Len(s) /\ (s \o t)[a] = s[a]
            BY <4>3, <4>4, <5>1
          <6> QED
            BY <4>9, <6>1
        <5>2. CASE a > Len(s)
          <6>1. a - Len(s) \in 1..Len(t) /\ (s \o t)[a] = t[a - Len(s)]
            BY <4>3, <4>4, <5>2
          <6> QED
            BY <4>10, <6>1
        <5> QED
          BY <4>4, <5>1, <5>2
      <4>6. Ends(i)
        <5>1. (s \o t)[1] = s[1]
          BY <4>3, <4>4
        <5>2. (s \o t)[Len(s) + Len(t)] = t[Len(t)]
          BY <4>3, <4>4
        <5> QED
          BY <4>1, <4>2, <4>3, <4>10, <5>1, <5>2 DEF Transcripts!Last
      <4> QED
        BY <3>1, <4>1, <4>3, <4>5, <4>6, Zenon
    <3> QED
      BY <3>2, <3>3
  <2> HIDE DEF S
  <2>5. n \in S
    <3>1. 0..n \subseteq S
      BY <2>1, <2>3, <2>4, Climb, Zenon
    <3> QED
      BY <2>1, <3>1
  <2>6. f[n] \in Transcripts!Words /\ From(n) /\ Ends(n)
    BY <2>1, <2>5 DEF S
  <2>7. f[n] \in Seq(Nat)
    BY <2>6, WordsAre
  <2> QED
    BY <2>2, <2>6, <2>7 DEF n
<1> QED
  BY <1>1, <1>2

LEMMA TranscriptFacts ==
  ASSUME Transcripts!Inv
  PROVE  /\ v1 \in BOOLEAN /\ v2 \in Nat /\ v3 \in Proc /\ v4 \in Seq(TextRec) /\ v5 \in Seq(TextRec)
         /\ v6 \subseteq [word : Nat, who : Nat] /\ v7 \in Seq(Nat)
         /\ v3.fragments \in Seq(RunsOf(Nat)) /\ v3.numbers \in Seq(Tags) /\ v3.turn \in Nat /\ v3.primary \in Nat
         /\ v3.previous \in Nat /\ v3.last \in Nat /\ v3.lastFinal \in Nat /\ v3.cuttable \in BOOLEAN
         /\ v3.hasFinal \in BOOLEAN
         /\ Transcripts!Sent \in Seq(TextRec)
<1>1. /\ v1 \in BOOLEAN /\ v2 \in Nat /\ v3 \in Proc /\ v4 \in Seq(TextRec) /\ v5 \in Seq(TextRec)
      /\ v6 \subseteq [word : Nat, who : Nat] /\ v7 \in Seq(Nat)
  BY DEF Transcripts!Inv, Transcripts!TypeOK, Proc, TextRec, RunsOf, Transcripts!Runs
<1>2. Transcripts!Sent \in Seq(TextRec)
  BY <1>1, SeqJoin DEF Transcripts!Sent
<1> QED
  BY <1>1, <1>2 DEF Proc

\* The words and speakers of runs as the browser is told them.
Pairs(runs) == UNION {{[word |-> w, who |-> runs[i].who] : w \in Transcripts!Range(runs[i].words)} : i \in DOMAIN runs}
Readable(runs) == DOMAIN runs = 1..Len(runs) /\ \A i \in 1..Len(runs) : DOMAIN runs[i].words = 1..Len(runs[i].words)

LEMMA PairsAre ==
  ASSUME NEW runs, Readable(runs)
  PROVE  \A t : t \in Pairs(runs) <=> \E w, who : t = [word |-> w, who |-> who] /\ Says(runs, w, who)
<1>1. ASSUME NEW t \in Pairs(runs) PROVE \E w, who : t = [word |-> w, who |-> who] /\ Says(runs, w, who)
  <2>1. PICK i \in 1..Len(runs) : t \in {[word |-> w, who |-> runs[i].who] : w \in Transcripts!Range(runs[i].words)}
    BY DEF Pairs, Readable
  <2>2. PICK w \in Transcripts!Range(runs[i].words) : t = [word |-> w, who |-> runs[i].who]
    BY <2>1
  <2>3. PICK a \in 1..Len(runs[i].words) : runs[i].words[a] = w
    BY <2>2 DEF Transcripts!Range, Readable
  <2>4. Says(runs, w, runs[i].who)
    BY <2>3 DEF Says
  <2> QED
    BY <2>2, <2>4
<1>2. ASSUME NEW w, NEW who, Says(runs, w, who) PROVE [word |-> w, who |-> who] \in Pairs(runs)
  <2>1. PICK i \in 1..Len(runs) : runs[i].who = who /\ \E a \in 1..Len(runs[i].words) : runs[i].words[a] = w
    BY <1>2 DEF Says
  <2>2. w \in Transcripts!Range(runs[i].words) /\ i \in DOMAIN runs
    BY <2>1 DEF Transcripts!Range, Readable
  <2>3. [word |-> w, who |-> who] \in {[word |-> x, who |-> runs[i].who] : x \in Transcripts!Range(runs[i].words)}
    BY <2>1, <2>2
  <2> QED
    BY <2>2, <2>3, Zenon DEF Pairs
<1> QED
  BY <1>1, <1>2

LEMMA RunsReadable == ASSUME NEW V, NEW runs \in Seq(RunsOf(V)) PROVE Readable(runs)
BY RunsAre, WordsAre DEF Readable

LEMMA ToldIs ==
  ASSUME v3.fragments \in Seq(RunsOf(Nat))
  PROVE  \A t : t \in Transcripts!Told <=>
           \/ t \in v6
           \/ \E w, who : t = [word |-> w, who |-> who] /\ Says(v3.fragments, w, who)
<1>1. Transcripts!Told = v6 \cup Pairs(v3.fragments)
  BY DEF Transcripts!Told, Pairs
<1>2. Readable(v3.fragments)
  BY RunsReadable
<1> QED
  BY <1>1, <1>2, PairsAre

HeardOf(words) == Transcripts!Split([i \in 1..Len(words) |-> [tag |-> words[i], id |-> v2 + i]])
NumsOf(words) == Transcripts!Numbers(v3.numbers, HeardOf(words))
RunsHeard(words) == Transcripts!Numbered(HeardOf(words), NumsOf(words))
OwnedOf(words, cont) ==
    IF cont THEN Transcripts!Reassigned(RunsHeard(words), v3.previous) ELSE RunsHeard(words)

LEMMA OwnedIs ==
  ASSUME Transcripts!Inv, NEW words \in Seq(Speakers), words # <<>>, NEW cont \in BOOLEAN
  PROVE  /\ NumsOf(words) \in Seq(Tags) /\ OwnedOf(words, cont) \in Seq(RunsOf(Nat))
         /\ Chain(OwnedOf(words, cont), v2, v2 + Len(words))
         /\ cont => OwnedOf(words, cont)[1].who = v3.previous
<1> DEFINE n == Len(words)
           ws == [i \in 1..n |-> [tag |-> words[i], id |-> v2 + i]]
           hi == v2 + n
<1>1. n \in Nat \ {0} /\ v2 \in Nat /\ hi \in Nat /\ v3.numbers \in Seq(Tags) /\ v3.previous \in Nat
  BY TranscriptFacts
<1>2. ws \in Seq(Tagged) /\ Len(ws) = n /\ \A i \in 1..n : ws[i].id = v2 + i
  <2>1. ASSUME NEW i \in 1..n PROVE [tag |-> words[i], id |-> v2 + i] \in Tagged
    BY <1>1 DEF Tagged
  <2> QED
    BY <1>1, <2>1
<1>3. HeardOf(words) = Transcripts!Split(ws)
  BY DEF HeardOf
<1> HIDE DEF ws, n
<1>4. ws # <<>>
  BY <1>1, <1>2
<1> DEFINE h == HeardOf(words)
           ns == NumsOf(words)
           rs == RunsHeard(words)
<1>5. h \in Seq(RunsOf(Speakers)) /\ Chain(h, v2, hi)
  BY <1>1, <1>2, <1>3, <1>4, SplitChain, Zenon
<1>6. /\ ns \in Seq(Tags)
      /\ \A i \in 1..Len(h) : h[i].who = NoTag \/ Transcripts!Contains(ns, h[i].who)
  BY <1>1, <1>5, NumbersIs DEF NumsOf
<1>7. rs = Transcripts!Numbered(h, ns)
  BY DEF RunsHeard
<1> HIDE DEF h, ns, rs, hi
<1>8. rs \in Seq(RunsOf(Nat)) /\ Chain(rs, v2, hi)
  BY <1>5, <1>6, <1>7, NumberedIs
<1>9. CASE cont
  <2> DEFINE out == Transcripts!Reassigned(rs, v3.previous)
  <2>1. out \in Seq(RunsOf(Nat)) /\ Chain(out, v2, hi) /\ out[1].who = v3.previous
    BY <1>1, <1>8, ReassignedIs, Zenon
  <2>2. OwnedOf(words, cont) = out
    BY <1>9 DEF OwnedOf, rs
  <2> HIDE DEF out
  <2> QED
    BY <1>6, <2>1, <2>2 DEF ns, hi, n
<1>10. CASE ~cont
  <2>1. OwnedOf(words, cont) = rs
    BY <1>10 DEF OwnedOf, rs
  <2> QED
    BY <1>6, <1>8, <1>10, <2>1 DEF ns, hi, n
<1> QED
  BY <1>9, <1>10

LEMMA FirstNamedIs ==
  ASSUME NEW runs \in Seq(RunsOf(Nat)) PROVE Transcripts!FirstNamed(runs) \in Nat
<1> DEFINE N == Transcripts!Named(runs)
<1>1. DOMAIN runs \subseteq Nat /\ N \subseteq DOMAIN runs /\ \A i \in DOMAIN runs : runs[i].who \in Nat
  BY RunsAre DEF Transcripts!Named
<1>2. CASE N = {}
  BY <1>2 DEF Transcripts!FirstNamed, Transcripts!Nobody
<1>3. CASE N # {}
  <2>1. Transcripts!Min(N) \in N
    <3> HIDE DEF N
    <3> QED
      BY <1>1, <1>3, MinIs
  <2> QED
    BY <1>1, <1>3, <2>1 DEF Transcripts!FirstNamed
<1> QED
  BY <1>2, <1>3

Unnamed(runs) == \A k \in 1..Len(runs) : runs[k].who = 0

LEMMA TurnStartedIs ==
  ASSUME NEW p \in Proc
  PROVE  /\ Transcripts!TurnStarted(p) \in Proc /\ Transcripts!TurnStarted(p).fragments = p.fragments
         /\ Transcripts!TurnStarted(p).cuttable = p.cuttable /\ Transcripts!TurnStarted(p).previous = p.previous
         /\ Transcripts!TurnStarted(p).primary = p.primary /\ Transcripts!TurnStarted(p).numbers = p.numbers
         /\ p.fragments # <<>> => Transcripts!TurnStarted(p) = p
         /\ p.fragments = <<>> => /\ Transcripts!TurnStarted(p).last = 0 /\ Transcripts!TurnStarted(p).lastFinal = 0
                                  /\ Transcripts!TurnStarted(p).turn = p.turn + 1
<1> DEFINE q == Transcripts!TurnStarted(p)
<1>1. CASE p.fragments # <<>>
  <2>1. q = p
    BY <1>1 DEF Transcripts!TurnStarted
  <2> HIDE DEF q
  <2> QED
    BY <1>1, <2>1 DEF q
<1>2. CASE p.fragments = <<>>
  <2>1. q = [p EXCEPT !.turn = @ + 1, !.last = 0, !.lastFinal = 0, !.hasFinal = FALSE]
    BY <1>2 DEF Transcripts!TurnStarted, Transcripts!Nobody
  <2>2. p.turn + 1 \in Nat
    BY DEF Proc
  <2> HIDE DEF q
  <2>3. q \in Proc
    BY <2>1, <2>2, Zenon DEF Proc
  <2>4. /\ q.fragments = p.fragments /\ q.cuttable = p.cuttable /\ q.previous = p.previous
        /\ q.primary = p.primary /\ q.numbers = p.numbers
        /\ q.last = 0 /\ q.lastFinal = 0 /\ q.turn = p.turn + 1
    BY <2>1 DEF Proc
  <2> QED
    BY <1>2, <2>3, <2>4 DEF q
<1> QED
  BY <1>1, <1>2

LEMMA JoinedSays ==
  ASSUME NEW V, NEW r \in Seq(RunsOf(V)), NEW s \in Seq(RunsOf(V)), NEW w, NEW who, Says(r \o s, w, who)
  PROVE  Says(r, w, who) \/ Says(s, w, who)
<1> DEFINE t == r \o s
<1>1. /\ Len(t) = Len(r) + Len(s) /\ Len(r) \in Nat /\ Len(s) \in Nat
      /\ \A i \in 1..Len(r) : t[i] = r[i]
      /\ \A i \in 1..Len(s) : t[Len(r) + i] = s[i]
  BY SeqJoin
<1> HIDE DEF t
<1>2. PICK j \in 1..(Len(r) + Len(s)) : t[j].who = who /\ \E a \in 1..Len(t[j].words) : t[j].words[a] = w
  BY <1>1 DEF Says, t
<1>3. CASE j <= Len(r)
  <2>1. j \in 1..Len(r) /\ t[j] = r[j]
    BY <1>1, <1>3
  <2> QED
    BY <1>2, <2>1 DEF Says
<1>4. CASE j > Len(r)
  <2> DEFINE k == j - Len(r)
  <2>1. k \in 1..Len(s) /\ Len(r) + k = j
    BY <1>1, <1>4
  <2> HIDE DEF k
  <2>2. t[j] = s[k]
    BY <1>1, <2>1
  <2> QED
    BY <1>2, <2>1, <2>2 DEF Says
<1> QED
  BY <1>1, <1>3, <1>4

LEMMA RecordedIs ==
  ASSUME NEW p \in Proc, NEW runs \in Seq(RunsOf(Nat)), runs # <<>>, NEW glue \in BOOLEAN,
         NEW q, q = Transcripts!Recorded(p, runs, glue)
  PROVE  /\ q \in Proc /\ q.turn = p.turn /\ q.primary = p.primary /\ q.lastFinal = p.lastFinal
         /\ q.hasFinal = p.hasFinal
         /\ q.cuttable = p.cuttable /\ q.previous = p.previous /\ q.numbers = p.numbers
         /\ q.fragments # <<>>
         /\ \A w, who : Says(q.fragments, w, who) => Says(p.fragments, w, who) \/ Says(runs, w, who)
         /\ Unnamed(q.fragments) => Unnamed(p.fragments) /\ q.last = p.last
<1> DEFINE old == p.fragments
           h == <<Head(runs[1].words)>>
           joins == glue /\ old # <<>> /\ Transcripts!Last(old).who = runs[1].who
           kept == IF joins THEN Transcripts!Extended(old, h) ELSE old
           rest == Transcripts!WithoutFirst(runs)
           added == IF joins THEN rest ELSE runs
           last == Transcripts!LastNamed(added, p.last)
<1>1. /\ old \in Seq(RunsOf(Nat)) /\ p.last \in Nat /\ runs[1].words \in Transcripts!Words /\ Len(runs) \in Nat \ {0}
      /\ 1 \in 1..Len(runs)
  BY RunsAre DEF Proc
<1>2. h \in Transcripts!Words /\ Len(h) = 1 /\ h[1] = runs[1].words[1] /\ 1 \in 1..Len(runs[1].words)
  <2>1. Head(runs[1].words) = runs[1].words[1] /\ Head(runs[1].words) \in Nat /\ 1 \in 1..Len(runs[1].words)
    BY <1>1, WordsAre
  <2> QED
    BY <2>1, WordIs
<1>3. rest \in Seq(RunsOf(Nat)) /\ \A w, who : Says(rest, w, who) => Says(runs, w, who)
  BY WithoutFirstIs
<1>4. added \in Seq(RunsOf(Nat)) /\ \A w, who : Says(added, w, who) => Says(runs, w, who)
  BY <1>3
<1> HIDE DEF h, rest
<1>5. /\ kept \in Seq(RunsOf(Nat)) /\ \A i \in 1..Len(old) : kept[i].who = old[i].who
      /\ Len(kept) = Len(old) /\ (joins => kept # <<>>)
      /\ \A w, who : Says(kept, w, who) => Says(old, w, who) \/ Says(runs, w, who)
  <2>1. CASE joins
    <3> DEFINE more == Transcripts!Extended(old, h)
    <3>1. more \in Seq(RunsOf(Nat)) /\ Len(more) = Len(old) /\ more # <<>>
          /\ \A i \in 1..Len(old) : more[i].who = old[i].who
      <4>1. old \in Seq(RunsOf(Nat)) /\ old # <<>> /\ h \in Transcripts!Words
        BY <1>1, <1>2, <2>1
      <4>2. more = Transcripts!Extended(old, h)
        OBVIOUS
      <4> HIDE DEF old, more
      <4> QED
        BY <4>1, <4>2, ExtendedIs
    <3>2. ASSUME NEW w, NEW who, Says(more, w, who) PROVE Says(old, w, who) \/ Says(runs, w, who)
      <4>1. Says(old, w, who) \/ (who = Transcripts!Last(old).who /\ \E a \in 1..Len(h) : h[a] = w)
        BY <1>1, <1>2, <2>1, <3>2, ExtendedSays
      <4>2. CASE who = Transcripts!Last(old).who /\ \E a \in 1..Len(h) : h[a] = w
        <5>1. runs[1].who = who /\ w = runs[1].words[1]
          BY <1>2, <2>1, <4>2
        <5> QED
          BY <1>1, <1>2, <5>1 DEF Says
      <4> QED
        BY <4>1, <4>2
    <3>3. kept = more
      BY <2>1
    <3> HIDE DEF more, joins, kept
    <3> QED
      BY <3>1, <3>2, <3>3
  <2>2. CASE ~joins
    BY <1>1, <2>2
  <2> QED
    BY <2>1, <2>2
<1>6. kept # <<>> \/ added # <<>>
  BY <1>5
<1>7. q = [p EXCEPT !.fragments = kept \o added, !.last = last]
  BY DEF Transcripts!Recorded, h, rest
<1>8. last \in Nat /\ (Unnamed(added) => last = p.last)
  <2> HIDE DEF kept, added, joins
  <2>1. /\ Transcripts!Named(added) = {} <=> Unnamed(added)
        /\ Transcripts!Named(added) = {} => last = p.last
        /\ Transcripts!Named(added) # {} => \E k \in 1..Len(added) : last = added[k].who
    BY <1>4, LastNamedIs, Zenon DEF Unnamed
  <2>2. \A k \in 1..Len(added) : added[k].who \in Nat
    BY <1>4, RunsAre
  <2> QED
    BY <1>1, <2>1, <2>2
<1> HIDE DEF kept, added, joins, last
<1> DEFINE all == kept \o added
<1>9. /\ all \in Seq(RunsOf(Nat)) /\ Len(all) = Len(kept) + Len(added) /\ Len(kept) \in Nat /\ Len(added) \in Nat
      /\ \A i \in 1..Len(kept) : all[i] = kept[i]
      /\ \A i \in 1..Len(added) : all[Len(kept) + i] = added[i]
  <2>1. kept \in Seq(RunsOf(Nat)) /\ added \in Seq(RunsOf(Nat))
    BY <1>4, <1>5
  <2> QED
    BY <2>1, SeqJoin
<1>10. \A w, who : Says(all, w, who) => Says(old, w, who) \/ Says(runs, w, who)
  BY <1>4, <1>5, JoinedSays
<1> HIDE DEF all
<1>11. all # <<>>
  <2>1. Len(kept) # 0 \/ Len(added) # 0
    BY <1>4, <1>5, <1>6, RunsAre
  <2>2. Len(all) # 0
    BY <1>9, <2>1
  <2> QED
    BY <1>9, <2>2
<1>12. Unnamed(all) => Unnamed(old) /\ Unnamed(added)
  <2> SUFFICES ASSUME Unnamed(all) PROVE Unnamed(old) /\ Unnamed(added)
    OBVIOUS
  <2>1. \A i \in 1..Len(kept) : kept[i].who = 0
    BY <1>9 DEF Unnamed
  <2>2. \A i \in 1..Len(added) : added[i].who = 0
    <3> SUFFICES ASSUME NEW i \in 1..Len(added) PROVE added[i].who = 0
      OBVIOUS
    <3>1. Len(kept) + i \in 1..Len(all) /\ all[Len(kept) + i] = added[i]
      BY <1>9
    <3> QED
      BY <3>1 DEF Unnamed
  <2> QED
    BY <1>5, <2>1, <2>2 DEF Unnamed
<1>13. /\ q \in Proc /\ q.turn = p.turn /\ q.primary = p.primary /\ q.lastFinal = p.lastFinal
       /\ q.hasFinal = p.hasFinal /\ q.fragments = all /\ q.last = last
       /\ q.cuttable = p.cuttable /\ q.previous = p.previous /\ q.numbers = p.numbers
  BY <1>7, <1>8, <1>9, Zenon DEF Proc, all
<1> QED
  BY <1>8, <1>10, <1>11, <1>12, <1>13

OneText(runs, glue, x) ==
    /\ x \in TextRec /\ x.glued = glue /\ x.words[1] = runs[1].words[1]
    /\ Transcripts!Last(x.words) = Transcripts!Last(runs[Len(runs)].words)
    /\ \A a \in 1..Len(x.words) : \E j \in 1..Len(runs) : \E b \in 1..Len(runs[j].words) :
         x.words[a] = runs[j].words[b]

LEMMA OneTextIs ==
  ASSUME ~v1, NEW p \in Proc, NEW runs \in Seq(RunsOf(Nat)), runs # <<>>, NEW glue \in BOOLEAN
  PROVE  \E x : OneText(runs, glue, x) /\ Transcripts!Texts(p, runs, glue) = [p |-> p, out |-> <<x>>]
<1> DEFINE n == Len(runs)
           ws == [i \in DOMAIN runs |-> runs[i].words]
           all == Transcripts!FlattenSeq(ws)
           x == [who |-> 0, glued |-> glue, words |-> all]
<1>1. n \in Nat \ {0} /\ DOMAIN runs = 1..n /\ \A i \in 1..n : runs[i].words \in Transcripts!Words
  BY RunsAre
<1>2. ws \in Seq(Transcripts!Words) /\ Len(ws) = n /\ \A i \in 1..n : ws[i] = runs[i].words
  BY <1>1
<1>3. Transcripts!Texts(p, runs, glue) = [p |-> p, out |-> <<x>>]
  BY DEF Transcripts!Texts, Transcripts!Nobody
<1> HIDE DEF ws, n
<1>4. ws # <<>>
  BY <1>1, <1>2
<1>5. /\ all \in Transcripts!Words /\ all[1] = ws[1][1] /\ Transcripts!Last(all) = Transcripts!Last(ws[Len(ws)])
      /\ \A a \in 1..Len(all) : \E i \in 1..Len(ws) : \E b \in 1..Len(ws[i]) : all[a] = ws[i][b]
  BY <1>2, <1>4, FlattenIs, Zenon
<1> HIDE DEF all
<1>6. x \in TextRec /\ x.glued = glue /\ x.words = all
  BY <1>5 DEF TextRec
<1> HIDE DEF x
<1>7. /\ x.words[1] = runs[1].words[1] /\ Transcripts!Last(x.words) = Transcripts!Last(runs[n].words)
      /\ \A a \in 1..Len(x.words) : \E j \in 1..n : \E b \in 1..Len(runs[j].words) : x.words[a] = runs[j].words[b]
  BY <1>1, <1>2, <1>5, <1>6
<1>8. OneText(runs, glue, x)
  BY <1>6, <1>7, Zenon DEF OneText, n
<1> QED
  BY <1>3, <1>8

\* The texts pushed for a final, whether or not the session has several speakers.
FinalSends(p, runs, glue, base, t) ==
    /\ SameTurn(p, t.p) /\ t.out \in Seq(TextRec) /\ t.out # <<>>
    /\ \A i \in 1..Len(t.out) : \A a \in 1..Len(t.out[i].words) :
         \E j \in 1..Len(runs) : \E b \in 1..Len(runs[j].words) : t.out[i].words[a] = runs[j].words[b]
    /\ \A i \in 1..Len(t.out) : t.out[i].glued => glue /\ i = 1
    /\ t.out[1].words[1] = runs[1].words[1]
    /\ Transcripts!Last(t.out[Len(t.out)].words) = Transcripts!Last(runs[Len(runs)].words)
    /\ v1 => /\ Len(t.out) = Len(runs)
             /\ \A i \in 1..Len(runs) :
                  /\ t.out[i].words = runs[i].words
                  /\ runs[i].who # 0 =>
                       Transcripts!ReadIn(base \o t.out, Len(base) + i) \in {runs[i].who, 0}
             /\ t.p.lastFinal # 0 =>
                  Transcripts!ReadIn(base \o t.out, Len(base) + Len(runs)) \in {t.p.lastFinal, 0}

LEMMA FinalTexts ==
  ASSUME v1 \in BOOLEAN, NEW p \in Proc, NEW runs \in Seq(RunsOf(Nat)), runs # <<>>, NEW glue \in BOOLEAN,
         NEW base \in Seq(TextRec),
         (v1 /\ p.lastFinal # 0) => Transcripts!ReadIn(base, Len(base)) \in {p.lastFinal, 0}
  PROVE  FinalSends(p, runs, glue, base, Transcripts!Texts(p, runs, glue))
<1> DEFINE t == Transcripts!Texts(p, runs, glue)
           n == Len(runs)
<1>1. n \in Nat \ {0}
  BY RunsAre
<1>2. CASE v1
  <2>1. /\ SameTurn(p, t.p) /\ t.out \in Seq(TextRec) /\ Len(t.out) = n
        /\ \A i \in 1..n : t.out[i].words = runs[i].words /\ (t.out[i].glued => glue /\ i = 1)
        /\ \A i \in 1..n : runs[i].who # 0 =>
             Transcripts!ReadIn(base \o t.out, Len(base) + i) \in {runs[i].who, 0}
        /\ t.p.lastFinal # 0 =>
             Transcripts!ReadIn(base \o t.out, Len(base) + n) \in {t.p.lastFinal, 0}
    BY <1>2, TextsIs
  <2> HIDE DEF t
  <2>2. t.out # <<>>
    BY <1>1, <2>1
  <2>3. 1 \in 1..n /\ n \in 1..n
    BY <1>1
  <2>4. t.out[1].words[1] = runs[1].words[1] /\ t.out[n].words = runs[n].words
    BY <2>1, <2>3
  <2>5. \A i \in 1..n : \A a \in 1..Len(t.out[i].words) :
          \E j \in 1..n : \E b \in 1..Len(runs[j].words) : t.out[i].words[a] = runs[j].words[b]
    BY <2>1, Zenon
  <2>6. FinalSends(p, runs, glue, base, t)
    BY <1>2, <2>1, <2>2, <2>4, <2>5 DEF FinalSends
  <2> QED
    BY <2>6 DEF t
<1>3. CASE ~v1
  <2>0. PICK x : OneText(runs, glue, x) /\ t = [p |-> p, out |-> <<x>>]
    BY <1>3, OneTextIs
  <2> HIDE DEF t
  <2>1. /\ x \in TextRec /\ t = [p |-> p, out |-> <<x>>] /\ x.glued = glue
        /\ x.words[1] = runs[1].words[1]
        /\ Transcripts!Last(x.words) = Transcripts!Last(runs[n].words)
        /\ \A a \in 1..Len(x.words) : \E j \in 1..n : \E b \in 1..Len(runs[j].words) :
             x.words[a] = runs[j].words[b]
    BY <2>0 DEF OneText
  <2>2. t.p = p /\ t.out = <<x>> /\ t.out \in Seq(TextRec) /\ Len(t.out) = 1 /\ t.out[1] = x /\ t.out # <<>>
    BY <2>1
  <2>3. SameTurn(p, p)
    BY DEF SameTurn
  <2>4. \A i \in 1..1 : i = 1
    OBVIOUS
  <2>5. FinalSends(p, runs, glue, base, t)
    BY <1>3, <2>1, <2>2, <2>3, <2>4 DEF FinalSends
  <2> QED
    BY <2>5 DEF t
<1> QED
  BY <1>2, <1>3

\* What a final does, with the values it passes through named.
ContOf(timed, joined) == timed /\ joined /\ v3.cuttable
PrimOf(owned) == IF v3.primary = 0 THEN Transcripts!FirstNamed(owned) ELSE v3.primary
ProcOf(words, timed, owned) ==
    [v3 EXCEPT !.numbers = NumsOf(words), !.cuttable = timed,
               !.previous = Transcripts!Last(owned).who, !.primary = PrimOf(owned)]
GlueOf(cont, kept) == cont /\ kept # <<>> /\ kept[1].who = v3.previous
TextsFor(p, kept, glue) == Transcripts!Texts(Transcripts!Recorded(Transcripts!TurnStarted(p), kept, glue), kept, glue)
FinalDoes(owned, kept, p, glue, n) ==
    /\ v2' = v2 + n /\ UNCHANGED <<v1, v5, v6, v7>>
    /\ kept = <<>> => v3' = p /\ v4' = v4
    /\ kept # <<>> => v3' = TextsFor(p, kept, glue).p /\ v4' = v4 \o TextsFor(p, kept, glue).out

LEMMA FinalIs ==
  ASSUME NEW words, NEW timed, NEW joined, Transcripts!Final(words, timed, joined),
         NEW owned, owned = OwnedOf(words, ContOf(timed, joined)),
         NEW kept, kept = Transcripts!Accepted(owned, PrimOf(owned)),
         NEW p, p = ProcOf(words, timed, owned), NEW glue, glue = GlueOf(ContOf(timed, joined), kept)
  PROVE  FinalDoes(owned, kept, p, glue, Len(words))
BY Zenon DEF FinalDoes, Transcripts!Final, OwnedOf, ContOf, PrimOf, ProcOf, GlueOf, TextsFor, NumsOf, HeardOf, RunsHeard,
       Transcripts!GluesFirst, Transcripts!Nobody

\* The parts of Diarization's invariant, of texts and of what was told.
Told == Transcripts!Told
Agree(s, told) ==
    \A i \in DOMAIN s : \A t \in told :
        (t.word \in Transcripts!Range(s[i].words) /\ Transcripts!ReadIn(s, i) # 0) =>
            t.who \in {Transcripts!ReadIn(s, i), 0}
GluedRight(s) == \A i \in 2..Len(s) : s[i].glued => Transcripts!Last(s[i-1].words) + 1 = Head(s[i].words)
Spoken(s, told, n) ==
    /\ \A t \in told : t.word <= n
    /\ \A i \in DOMAIN s : \A w \in Transcripts!Range(s[i].words) : w <= n

Joined(S, a, b, all) ==
    /\ all \in Seq(S) /\ Len(all) = Len(a) + Len(b) /\ Len(a) \in Nat /\ Len(b) \in Nat
    /\ \A i \in 1..Len(a) : all[i] = a[i]
    /\ \A i \in 1..Len(b) : all[Len(a) + i] = b[i]
LEMMA SeqJoined == ASSUME NEW S, NEW a \in Seq(S), NEW b \in Seq(S) PROVE Joined(S, a, b, a \o b)
BY SeqJoin DEF Joined

LEMMA RangeIs ==
  ASSUME NEW ws \in Transcripts!Words, NEW w \in Transcripts!Range(ws)
  PROVE  \E a \in 1..Len(ws) : ws[a] = w
BY WordsAre DEF Transcripts!Range

LEMMA TextsAre ==
  ASSUME NEW s \in Seq(TextRec)
  PROVE  /\ Len(s) \in Nat /\ DOMAIN s = 1..Len(s) /\ (s # <<>> <=> Len(s) # 0)
         /\ \A i \in 1..Len(s) : /\ s[i] \in TextRec /\ s[i].words \in Transcripts!Words /\ s[i].who \in Nat
                                 /\ s[i].words # <<>> /\ Head(s[i].words) = s[i].words[1]
                                 /\ \A w : w \in Transcripts!Range(s[i].words) <=>
                                             \E a \in 1..Len(s[i].words) : s[i].words[a] = w
<1>1. \A i \in 1..Len(s) : s[i] \in TextRec
  OBVIOUS
<1>2. ASSUME NEW i \in 1..Len(s)
      PROVE  /\ s[i].words \in Transcripts!Words /\ s[i].who \in Nat
             /\ s[i].words # <<>> /\ Head(s[i].words) = s[i].words[1]
             /\ \A w : w \in Transcripts!Range(s[i].words) <=> \E a \in 1..Len(s[i].words) : s[i].words[a] = w
  <2> DEFINE ws == s[i].words
  <2>1. ws \in Transcripts!Words /\ s[i].who \in Nat
    BY <1>1 DEF TextRec
  <2> HIDE DEF ws
  <2>2. ws # <<>> /\ Head(ws) = ws[1] /\ DOMAIN ws = 1..Len(ws)
    BY <2>1, WordsAre
  <2>3. \A w : w \in Transcripts!Range(ws) <=> \E a \in 1..Len(ws) : ws[a] = w
    BY <2>2 DEF Transcripts!Range
  <2> QED
    BY <2>1, <2>2, <2>3 DEF ws
<1>3. Len(s) \in Nat /\ DOMAIN s = 1..Len(s) /\ (s # <<>> <=> Len(s) # 0)
  OBVIOUS
<1> QED
  BY <1>1, <1>2, <1>3, Zenon

LEMMA ChainApart ==
  ASSUME NEW V, NEW runs \in Seq(RunsOf(V)), NEW lo, NEW hi, Chain(runs, lo, hi),
         NEW i \in 1..Len(runs), NEW j \in 1..Len(runs), NEW a \in 1..Len(runs[i].words),
         NEW b \in 1..Len(runs[j].words), runs[i].words[a] = runs[j].words[b]
  PROVE  i = j
<1>1. runs[i].words[a] \in Nat /\ i \in Nat /\ j \in Nat
  BY RunsAre, WordsAre
<1>2. ~(i < j)
  BY <1>1 DEF Chain, Before
<1>3. ~(j < i)
  BY <1>1 DEF Chain, Before
<1> QED
  BY <1>1, <1>2, <1>3

\* Sent texts and the texts of a new final, told before and told with it.
LEMMA AgreeGrows ==
  ASSUME NEW s \in Seq(TextRec), NEW out \in Seq(TextRec), NEW runs \in Seq(RunsOf(Nat)),
         NEW lo \in Nat, NEW hi \in Nat, Chain(runs, lo, hi), Len(out) = Len(runs),
         \A i \in 1..Len(runs) :
           /\ out[i].words = runs[i].words
           /\ runs[i].who # 0 => Transcripts!ReadIn(s \o out, Len(s) + i) \in {runs[i].who, 0},
         NEW told, NEW more, \A t \in more : t \in told \/ Says(runs, t.word, t.who),
         \A t \in told : t.word \in Nat,
         Spoken(s, told, lo), Agree(s, told)
  PROVE  Agree(s \o out, more)
<1> DEFINE all == s \o out
           m == Len(s)
           k == Len(out)
<1>1. /\ all \in Seq(TextRec) /\ Len(all) = m + k /\ m \in Nat /\ k \in Nat
      /\ \A i \in 1..m : all[i] = s[i]
      /\ \A i \in 1..k : all[m + i] = out[i]
  <2>1. Joined(TextRec, s, out, all)
    BY SeqJoined
  <2> HIDE DEF all
  <2> QED
    BY <2>1 DEF Joined
<1>2. \A i \in 1..k : runs[i].who # 0 => Transcripts!ReadIn(all, m + i) \in {runs[i].who, 0}
  OBVIOUS
<1> HIDE DEF all
<1> SUFFICES ASSUME NEW i \in DOMAIN all, NEW t \in more, t.word \in Transcripts!Range(all[i].words),
                    Transcripts!ReadIn(all, i) # 0
             PROVE  t.who \in {Transcripts!ReadIn(all, i), 0}
  BY DEF Agree, all
<1>3. i \in 1..(m + k) /\ DOMAIN s = 1..m
  BY <1>1, TextsAre
<1>4. PICK a \in 1..Len(all[i].words) : all[i].words[a] = t.word
  <2>1. all[i].words \in Transcripts!Words
    BY <1>1, <1>3, TextsAre
  <2> DEFINE ws == all[i].words
             w == t.word
  <2>2. ws \in Transcripts!Words /\ w \in Transcripts!Range(ws)
    BY <2>1
  <2> HIDE DEF ws, w
  <2>3. \E a \in 1..Len(ws) : ws[a] = w
    BY <2>2, RangeIs
  <2> QED
    BY <2>3 DEF ws, w
<1>5. CASE i <= m
  <2>1. i \in 1..m /\ all[i] = s[i]
    BY <1>1, <1>3, <1>5
  <2>2. i \in 0..Len(s) /\ i <= Len(all) /\ \A j \in 1..i : s[j] = all[j]
    BY <1>1, <2>1
  <2>3. Transcripts!ReadIn(s, i) = Transcripts!ReadIn(all, i)
    BY <1>1, <2>2, ReadSame, Zenon
  <2>4. t.word <= lo
    BY <1>3, <2>1 DEF Spoken
  <2>5. CASE t \in told
    BY <1>3, <2>1, <2>3, <2>5 DEF Agree
  <2>6. CASE Says(runs, t.word, t.who)
    <3>1. PICK j \in 1..Len(runs) : \E b \in 1..Len(runs[j].words) : runs[j].words[b] = t.word
      BY <2>6 DEF Says
    <3>2. PICK b \in 1..Len(runs[j].words) : runs[j].words[b] = t.word
      BY <3>1
    <3>3. lo < runs[j].words[b] /\ runs[j].words[b] \in Nat
      BY ChainBounds, Zenon
    <3> QED
      BY <2>4, <3>2, <3>3
  <2> QED
    BY <2>5, <2>6
<1>6. CASE i > m
  <2> DEFINE x == i - m
  <2>1. x \in 1..k /\ m + x = i
    BY <1>1, <1>3, <1>6
  <2> HIDE DEF x
  <2>2. all[i] = out[x] /\ all[i].words = runs[x].words
    BY <1>1, <2>1
  <2>3. a \in 1..Len(runs[x].words) /\ runs[x].words[a] = t.word
    BY <1>4, <2>2
  <2>4. lo < runs[x].words[a] /\ runs[x].words[a] \in Nat
    BY <2>1, <2>3, ChainBounds, Zenon
  <2>5. t \notin told
    BY <2>3, <2>4 DEF Spoken
  <2>6. PICK j \in 1..Len(runs) : runs[j].who = t.who /\ \E b \in 1..Len(runs[j].words) : runs[j].words[b] = t.word
    BY <2>5 DEF Says
  <2>7. PICK b \in 1..Len(runs[j].words) : runs[j].words[b] = t.word
    BY <2>6
  <2>8. x = j
    BY <2>1, <2>3, <2>7, ChainApart
  <2>9. runs[x].who # 0 => Transcripts!ReadIn(all, i) \in {runs[x].who, 0}
    BY <1>2, <2>1
  <2> QED
    BY <2>6, <2>8, <2>9
<1> QED
  BY <1>1, <1>3, <1>5, <1>6

LEMMA GluedGrows ==
  ASSUME NEW s \in Seq(TextRec), NEW out \in Seq(TextRec), GluedRight(s),
         \A i \in 1..Len(out) : out[i].glued =>
            i = 1 /\ (Len(s) # 0 => Transcripts!Last(s[Len(s)].words) + 1 = out[1].words[1])
  PROVE  GluedRight(s \o out)
<1> DEFINE all == s \o out
           m == Len(s)
           k == Len(out)
<1>1. /\ all \in Seq(TextRec) /\ Len(all) = m + k /\ m \in Nat /\ k \in Nat
      /\ \A i \in 1..m : all[i] = s[i]
      /\ \A i \in 1..k : all[m + i] = out[i]
  BY SeqJoin
<1> HIDE DEF all
<1> SUFFICES ASSUME NEW i \in 2..(m + k), all[i].glued
             PROVE  Transcripts!Last(all[i-1].words) + 1 = Head(all[i].words)
  BY <1>1 DEF GluedRight, all
<1>2. CASE i <= m
  <2>1. i \in 2..m /\ i - 1 \in 1..m /\ i \in 1..m
    BY <1>1, <1>2
  <2>2. all[i] = s[i] /\ all[i - 1] = s[i - 1]
    BY <1>1, <2>1, Zenon
  <2> QED
    BY <2>1, <2>2 DEF GluedRight
<1>3. CASE i > m
  <2> DEFINE x == i - m
  <2>1. x \in 1..k /\ m + x = i
    BY <1>1, <1>3
  <2> HIDE DEF x
  <2>2. all[i] = out[x]
    BY <1>1, <2>1
  <2>3. x = 1 /\ (m # 0 => Transcripts!Last(s[m].words) + 1 = out[1].words[1])
    BY <2>1, <2>2
  <2>4. m \in 1..m /\ i - 1 = m /\ m # 0
    BY <1>1, <2>1, <2>3
  <2>5. all[i - 1] = s[m]
    BY <1>1, <2>4
  <2>6. Head(all[i].words) = out[1].words[1]
    BY <2>1, <2>2, <2>3, TextsAre
  <2> QED
    BY <2>3, <2>4, <2>5, <2>6
<1> QED
  BY <1>1, <1>2, <1>3

\* What passed of a final of the words lo + 1 up to hi.
Passes(owned, kept, primary, lo, hi) ==
    /\ kept \in Seq(RunsOf(Nat)) /\ kept # <<>>
    /\ \A j \in 1..Len(kept) : \A b \in 1..Len(kept[j].words) :
         lo < kept[j].words[b] /\ kept[j].words[b] <= hi /\ kept[j].words[b] \in Nat
    /\ (v1 \/ primary \in {0, Transcripts!Last(owned).who}) => Transcripts!Last(kept[Len(kept)].words) = hi
    /\ kept[1].who = owned[1].who => kept[1].words[1] = lo + 1
    /\ v1 => kept = owned
    /\ (~v1 /\ primary # 0) => kept[1].who = primary

LEMMA PassesIs ==
  ASSUME NEW owned \in Seq(RunsOf(Nat)), NEW lo \in Nat, NEW hi \in Nat, Chain(owned, lo, hi), NEW primary,
         Transcripts!Accepted(owned, primary) # <<>>
  PROVE  Passes(owned, Transcripts!Accepted(owned, primary), primary, lo, hi)
<1> DEFINE kept == Transcripts!Accepted(owned, primary)
<1>1. owned # <<>> /\ Transcripts!Last(owned) = owned[Len(owned)]
  BY RunsAre DEF Chain
<1>2. kept = Transcripts!Accepted(owned, primary) /\ kept # <<>>
  OBVIOUS
<1> HIDE DEF kept
<1>3. /\ kept \in Seq(RunsOf(Nat)) /\ \A i \in 1..Len(kept) : \E j \in 1..Len(owned) : kept[i] = owned[j]
      /\ (v1 \/ primary \in {0, owned[Len(owned)].who}) => kept # <<>> /\ kept[Len(kept)] = owned[Len(owned)]
      /\ kept # <<>> /\ kept[1].who = owned[1].who => kept[1] = owned[1]
      /\ v1 => kept = owned
      /\ (~v1 /\ primary # 0 /\ kept # <<>>) => kept[1].who = primary
  BY <1>1, <1>2, AcceptedIs
<1>4. \A j \in 1..Len(kept) : \A b \in 1..Len(kept[j].words) :
         lo < kept[j].words[b] /\ kept[j].words[b] <= hi /\ kept[j].words[b] \in Nat
  <2> SUFFICES ASSUME NEW j \in 1..Len(kept), NEW b \in 1..Len(kept[j].words)
               PROVE  lo < kept[j].words[b] /\ kept[j].words[b] <= hi /\ kept[j].words[b] \in Nat
    OBVIOUS
  <2>1. PICK i \in 1..Len(owned) : kept[j] = owned[i]
    BY <1>3
  <2>2. b \in 1..Len(owned[i].words) /\ kept[j].words[b] = owned[i].words[b]
    BY <2>1
  <2> QED
    BY <2>1, <2>2, ChainBounds
<1>5. (v1 \/ primary \in {0, Transcripts!Last(owned).who}) => Transcripts!Last(kept[Len(kept)].words) = hi
  BY <1>1, <1>3 DEF Chain
<1>6. kept[1].who = owned[1].who => kept[1].words[1] = lo + 1
  BY <1>2, <1>3 DEF Chain
<1>7. Passes(owned, kept, primary, lo, hi)
  BY <1>2, <1>3, <1>4, <1>5, <1>6 DEF Passes
<1> QED
  BY <1>7 DEF kept

\* The processor after the final was heard and before its texts are recorded.
Hears(p, owned, primary, timed) ==
    /\ p \in Proc /\ p.fragments = v3.fragments /\ p.turn = v3.turn /\ p.last = v3.last
    /\ p.lastFinal = v3.lastFinal /\ p.hasFinal = v3.hasFinal
    /\ p.previous = Transcripts!Last(owned).who /\ p.primary = primary /\ p.cuttable = timed
    /\ v3.primary # 0 => primary = v3.primary

\* The turn goes on, or a new one begins.
LEMMA RecordsIs ==
  ASSUME Transcripts!Inv, NEW p, NEW owned, NEW primary, NEW timed, Hears(p, owned, primary, timed),
         NEW kept \in Seq(RunsOf(Nat)), kept # <<>>, NEW glue \in BOOLEAN,
         NEW q, q = Transcripts!Recorded(Transcripts!TurnStarted(p), kept, glue)
  PROVE  /\ q \in Proc /\ q.fragments # <<>> /\ q.primary = primary /\ q.cuttable = timed
         /\ q.previous = Transcripts!Last(owned).who
         /\ \A w, who : Says(q.fragments, w, who) => Says(v3.fragments, w, who) \/ Says(kept, w, who)
         /\ Unnamed(q.fragments) => q.last = 0
         /\ q.lastFinal # 0 => q.lastFinal = v3.lastFinal
         /\ \A i \in 1..Len(v7) : v7[i] < q.turn
<1> DEFINE s == Transcripts!TurnStarted(p)
<1>1. /\ p \in Proc /\ p.fragments = v3.fragments /\ p.turn = v3.turn /\ p.last = v3.last
      /\ p.lastFinal = v3.lastFinal /\ p.previous = Transcripts!Last(owned).who
      /\ p.primary = primary /\ p.cuttable = timed
  BY DEF Hears
<1>2. /\ s \in Proc /\ s.fragments = v3.fragments /\ s.cuttable = timed /\ s.primary = primary
      /\ s.previous = Transcripts!Last(owned).who
      /\ v3.fragments # <<>> => s = p
      /\ v3.fragments = <<>> => s.last = 0 /\ s.lastFinal = 0 /\ s.turn = v3.turn + 1
  BY <1>1, TurnStartedIs
<1> HIDE DEF s
<1>3. q = Transcripts!Recorded(s, kept, glue)
  BY DEF s
<1>4. /\ q \in Proc /\ q.turn = s.turn /\ q.primary = s.primary /\ q.lastFinal = s.lastFinal
      /\ q.cuttable = s.cuttable /\ q.previous = s.previous /\ q.fragments # <<>>
      /\ \A w, who : Says(q.fragments, w, who) => Says(s.fragments, w, who) \/ Says(kept, w, who)
      /\ Unnamed(q.fragments) => Unnamed(s.fragments) /\ q.last = s.last
  BY <1>2, <1>3, RecordedIs
<1>5. v3.fragments \in Seq(RunsOf(Nat)) /\ v3.turn \in Nat /\ v7 \in Seq(Nat)
  BY TranscriptFacts
<1>6. (v3.fragments # <<>> /\ Unnamed(v3.fragments)) => v3.last = 0
  <2>1. Unnamed(v3.fragments) => Transcripts!Named(v3.fragments) = {}
    BY <1>5, LastNamedIs, Zenon DEF Unnamed
  <2> QED
    BY <2>1 DEF Transcripts!Inv, Transcripts!LastOfTurn, Transcripts!Nobody
<1>7. Unnamed(q.fragments) => q.last = 0
  BY <1>1, <1>2, <1>4, <1>6
<1>8. \A i \in 1..Len(v7) : /\ v7[i] \in Nat /\ v7[i] <= v3.turn
                            /\ v3.fragments # <<>> => v7[i] < v3.turn
  BY <1>5 DEF Transcripts!Inv, Transcripts!ClosedInOrder
<1>9. \A i \in 1..Len(v7) : v7[i] < q.turn
  BY <1>1, <1>2, <1>4, <1>5, <1>8
<1>10. q.lastFinal # 0 => q.lastFinal = v3.lastFinal
  BY <1>1, <1>2, <1>4
<1>11. \A w, who : Says(q.fragments, w, who) => Says(v3.fragments, w, who) \/ Says(kept, w, who)
  BY <1>2, <1>4
<1> QED
  BY <1>2, <1>4, <1>7, <1>9, <1>10, <1>11

\* Parts of the invariant, of its values.
LEMMA InvParts ==
  ASSUME Transcripts!Inv
  PROVE  /\ Spoken(Transcripts!Sent, Told, v2) /\ (v1 => Agree(Transcripts!Sent, Told))
         /\ (v1 /\ v3.lastFinal # 0) =>
              Transcripts!ReadIn(Transcripts!Sent, Len(Transcripts!Sent)) \in {v3.lastFinal, 0}
         /\ GluedRight(Transcripts!Sent)
         /\ (v3.cuttable /\ Len(Transcripts!Sent) # 0 /\ (v1 \/ v3.primary \in {0, v3.previous})) =>
              Transcripts!Last(Transcripts!Sent[Len(Transcripts!Sent)].words) = v2
<1> DEFINE s == Transcripts!Sent
<1>1. s \in Seq(TextRec)
  BY TranscriptFacts
<1>2. Spoken(s, Told, v2)
  BY DEF Transcripts!Inv, Transcripts!NoWordBeforeSpoken, Spoken, Told
<1>3. v1 => Agree(s, Told)
  BY DEF Transcripts!Inv, Transcripts!SentAgree, Agree, Told, Transcripts!Nobody
<1>4. GluedRight(s)
  BY DEF Transcripts!Inv, Transcripts!SentGlued, GluedRight
<1>5. Transcripts!LastNamed(s, 0) = Transcripts!ReadIn(s, Len(s))
  BY <1>1, ReadLast
<1>6. (v1 /\ v3.lastFinal # 0) => Transcripts!LastNamed(s, 0) \in {v3.lastFinal, 0}
  BY DEF Transcripts!Inv, Transcripts!LastPrefix, Transcripts!Nobody
<1>7. s # <<>> <=> Len(s) # 0
  BY <1>1, TextsAre
<1>8. (v3.cuttable /\ s # <<>> /\ (v1 \/ v3.primary \in {0, v3.previous})) => Transcripts!Last(s[Len(s)].words) = v2
  BY DEF Transcripts!Inv, Transcripts!LastWordSent, Transcripts!Nobody, Transcripts!Last
<1> HIDE DEF s
<1> QED
  BY <1>2, <1>3, <1>4, <1>5, <1>6, <1>7, <1>8 DEF s

LEMMA InvOfParts ==
  ASSUME v1' \in BOOLEAN, v2' \in Nat, v3' \in Proc, v4' \in Seq(TextRec), v5' \in Seq(TextRec),
         v6' \subseteq [word : Nat, who : Nat], v7' \in Seq(Nat),
         Spoken(Transcripts!Sent', Told', v2'), v1' => Agree(Transcripts!Sent', Told'),
         (v1' /\ v3'.lastFinal # 0) =>
            Transcripts!ReadIn(Transcripts!Sent', Len(Transcripts!Sent')) \in {v3'.lastFinal, 0},
         GluedRight(Transcripts!Sent'),
         (v3'.cuttable /\ Len(Transcripts!Sent') # 0 /\ (v1' \/ v3'.primary \in {0, v3'.previous})) =>
            Transcripts!Last(Transcripts!Sent'[Len(Transcripts!Sent')].words) = v2',
         (v3'.fragments # <<>> /\ Unnamed(v3'.fragments)) => v3'.last = 0,
         \A i, j \in 1..Len(v7') : i < j => v7'[i] < v7'[j],
         \A i \in 1..Len(v7') : v7'[i] <= v3'.turn /\ (v3'.fragments # <<>> => v7'[i] < v3'.turn)
  PROVE  Transcripts!Inv'
<1> DEFINE s == Transcripts!Sent'
           frs == v3'.fragments
<1>1. Transcripts!TypeOK'
  BY DEF Transcripts!TypeOK, Proc, TextRec, RunsOf, Transcripts!Runs
<1>2. s \in Seq(TextRec) /\ frs \in Seq(RunsOf(Nat)) /\ DOMAIN v7' = 1..Len(v7')
  BY SeqJoin DEF Transcripts!Sent, Proc
<1>3. Transcripts!NoWordBeforeSpoken'
  BY DEF Transcripts!NoWordBeforeSpoken, Spoken, Told
<1>4. Transcripts!SentAgree'
  BY DEF Transcripts!SentAgree, Agree, Told, Transcripts!Nobody
<1>5. Transcripts!SentGlued'
  BY DEF Transcripts!SentGlued, GluedRight
<1>6. Transcripts!LastPrefix'
  <2>1. Transcripts!LastNamed(s, 0) = Transcripts!ReadIn(s, Len(s))
    BY <1>2, ReadLast
  <2> QED
    BY <2>1 DEF Transcripts!LastPrefix, Transcripts!Nobody
<1>7. Transcripts!LastWordSent'
  <2>1. s # <<>> <=> Len(s) # 0
    BY <1>2, TextsAre
  <2> QED
    BY <2>1 DEF Transcripts!LastWordSent, Transcripts!Nobody, Transcripts!Last
<1>8. Transcripts!LastOfTurn'
  <2>1. Transcripts!Named(frs) = {} => Unnamed(frs)
    <3> HIDE DEF frs
    <3> QED
      BY <1>2, LastNamedIs, Zenon DEF Unnamed
  <2> QED
    BY <2>1 DEF Transcripts!LastOfTurn, Transcripts!Nobody
<1>9. Transcripts!ClosedInOrder'
  BY <1>2 DEF Transcripts!ClosedInOrder
<1> QED
  BY <1>1, <1>3, <1>4, <1>5, <1>6, <1>7, <1>8, <1>9 DEF Transcripts!Inv

LEMMA ToldFrom ==
  ASSUME NEW shown, NEW frs \in Seq(RunsOf(Nat))
  PROVE  \A t : t \in shown \cup Pairs(frs) <=>
                  t \in shown \/ \E w, who : t = [word |-> w, who |-> who] /\ Says(frs, w, who)
BY RunsReadable, PairsAre

LEMMA TextsGrow ==
  ASSUME v4 \in Seq(TextRec), v5 \in Seq(TextRec), NEW out \in Seq(TextRec), v5' = v5, v4' = v4 \o out
  PROVE  Transcripts!Sent' = Transcripts!Sent \o out
BY ConcatAssociative DEF Transcripts!Sent

LEMMA SaysNat ==
  ASSUME NEW runs \in Seq(RunsOf(Nat)), NEW w, NEW who, Says(runs, w, who) PROVE w \in Nat /\ who \in Nat
<1>1. PICK j \in 1..Len(runs) : runs[j].who = who /\ \E a \in 1..Len(runs[j].words) : runs[j].words[a] = w
  BY DEF Says
<1>2. PICK a \in 1..Len(runs[j].words) : runs[j].words[a] = w
  BY <1>1
<1>3. runs[j].words \in Transcripts!Words /\ runs[j].who \in Nat
  BY RunsAre
<1> QED
  BY <1>1, <1>2, <1>3, WordsAre, Zenon

\* A final that passed, in part or whole.
LEMMA SentFinal ==
  ASSUME Transcripts!Inv, NEW n \in Nat \ {0}, NEW owned \in Seq(RunsOf(Nat)), Chain(owned, v2, v2 + n),
         NEW primary \in Nat, NEW kept, Passes(owned, kept, primary, v2, v2 + n),
         NEW timed, NEW p, Hears(p, owned, primary, timed), NEW glue \in BOOLEAN,
         glue => /\ v3.cuttable /\ kept[1].who = v3.previous /\ owned[1].who = v3.previous,
         v2' = v2 + n, UNCHANGED <<v1, v5, v6, v7>>,
         v3' = TextsFor(p, kept, glue).p, v4' = v4 \o TextsFor(p, kept, glue).out
  PROVE  Transcripts!Inv'
<1> DEFINE q == Transcripts!Recorded(Transcripts!TurnStarted(p), kept, glue)
           t == Transcripts!Texts(q, kept, glue)
           out == t.out
           s == Transcripts!Sent
           m == Len(s)
           hi == v2 + n
<1>1. /\ v1 \in BOOLEAN /\ v2 \in Nat /\ v4 \in Seq(TextRec) /\ v5 \in Seq(TextRec) /\ v7 \in Seq(Nat)
      /\ v6 \subseteq [word : Nat, who : Nat] /\ v3.fragments \in Seq(RunsOf(Nat)) /\ s \in Seq(TextRec)
      /\ hi \in Nat /\ v3.previous \in Nat
  BY TranscriptFacts
<1>2. kept \in Seq(RunsOf(Nat)) /\ kept # <<>>
  BY DEF Passes
<1>3. /\ q \in Proc /\ q.fragments # <<>> /\ q.primary = primary /\ q.cuttable = timed
      /\ q.previous = Transcripts!Last(owned).who
      /\ \A w, who : Says(q.fragments, w, who) => Says(v3.fragments, w, who) \/ Says(kept, w, who)
      /\ Unnamed(q.fragments) => q.last = 0
      /\ q.lastFinal # 0 => q.lastFinal = v3.lastFinal
      /\ \A i \in 1..Len(v7) : v7[i] < q.turn
  <2> HIDE DEF q
  <2>1. q = Transcripts!Recorded(Transcripts!TurnStarted(p), kept, glue)
    BY DEF q
  <2> QED
    BY <1>2, <2>1, RecordsIs
<1>4. v3' = t.p /\ v4' = v4 \o out
  BY DEF TextsFor
<1> HIDE DEF q
<1>5. (v1 /\ q.lastFinal # 0) => Transcripts!ReadIn(s, m) \in {q.lastFinal, 0}
  BY <1>3, InvParts
<1>6. FinalSends(q, kept, glue, s, t)
  <2> HIDE DEF s
  <2> QED
    BY <1>1, <1>2, <1>3, <1>5, FinalTexts
<1> HIDE DEF t, out
<1>7. /\ SameTurn(q, t.p) /\ out \in Seq(TextRec) /\ Len(out) # 0 /\ Len(out) \in Nat
      /\ \A i \in 1..Len(out) : \A a \in 1..Len(out[i].words) :
           \E j \in 1..Len(kept) : \E b \in 1..Len(kept[j].words) : out[i].words[a] = kept[j].words[b]
      /\ \A i \in 1..Len(out) : out[i].glued => glue /\ i = 1
      /\ out[1].words[1] = kept[1].words[1]
      /\ Transcripts!Last(out[Len(out)].words) = Transcripts!Last(kept[Len(kept)].words)
  <2>1. /\ SameTurn(q, t.p) /\ out \in Seq(TextRec) /\ out # <<>>
        /\ \A i \in 1..Len(out) : \A a \in 1..Len(out[i].words) :
             \E j \in 1..Len(kept) : \E b \in 1..Len(kept[j].words) : out[i].words[a] = kept[j].words[b]
        /\ \A i \in 1..Len(out) : out[i].glued => glue /\ i = 1
        /\ out[1].words[1] = kept[1].words[1]
        /\ Transcripts!Last(out[Len(out)].words) = Transcripts!Last(kept[Len(kept)].words)
    BY <1>6 DEF FinalSends, out
  <2>2. Len(out) # 0 /\ Len(out) \in Nat
    BY <2>1, TextsAre
  <2> QED
    BY <2>1, <2>2
<1>8. v1 => /\ Len(out) = Len(kept)
            /\ \A i \in 1..Len(kept) :
                 /\ out[i].words = kept[i].words
                 /\ kept[i].who # 0 => Transcripts!ReadIn(s \o out, m + i) \in {kept[i].who, 0}
            /\ t.p.lastFinal # 0 => Transcripts!ReadIn(s \o out, m + Len(kept)) \in {t.p.lastFinal, 0}
  BY <1>6 DEF FinalSends, out
<1> HIDE DEF s, m
<1>9. Transcripts!Sent' = s \o out
  BY <1>1, <1>4, <1>7, TextsGrow, Zenon DEF s
<1> DEFINE all == s \o out
<1>10. /\ all \in Seq(TextRec) /\ Len(all) = m + Len(out) /\ m \in Nat
       /\ \A i \in 1..m : all[i] = s[i]
       /\ \A i \in 1..Len(out) : all[m + i] = out[i]
  <2>1. Joined(TextRec, s, out, all)
    BY <1>1, <1>7, SeqJoined
  <2> HIDE DEF all
  <2> QED
    BY <2>1 DEF Joined, m
<1>11. /\ v3' \in Proc /\ v3'.fragments = q.fragments /\ v3'.primary = primary /\ v3'.cuttable = timed
       /\ v3'.previous = Transcripts!Last(owned).who /\ v3'.turn = q.turn /\ v3'.last = q.last
  BY <1>3, <1>4, <1>7 DEF SameTurn
<1>12. q.fragments \in Seq(RunsOf(Nat)) /\ q.turn \in Nat /\ q.last \in Nat
  BY <1>3 DEF Proc
<1>13. /\ Told = v6 \cup Pairs(v3.fragments) /\ Told' = v6 \cup Pairs(q.fragments)
  BY <1>11 DEF Told, Transcripts!Told, Pairs
<1>14. /\ \A x : x \in Told <=> x \in v6 \/ \E w, who : x = [word |-> w, who |-> who] /\ Says(v3.fragments, w, who)
       /\ \A x : x \in Told' <=> x \in v6 \/ \E w, who : x = [word |-> w, who |-> who] /\ Says(q.fragments, w, who)
  BY <1>1, <1>12, <1>13, ToldFrom, Zenon
<1>15. \A x \in Told' : x \in Told \/ Says(kept, x.word, x.who)
  BY <1>3, <1>14
<1>16. \A x \in Told : x.word \in Nat
  <2>1. \A w, who : Says(v3.fragments, w, who) => w \in Nat
    BY <1>1, SaysNat
  <2> QED
    BY <1>1, <1>14, <2>1
<1>17. Spoken(all, Told', hi)
  <2>1. Spoken(s, Told, v2)
    BY InvParts DEF s
  <2>2. \A w, who : Says(kept, w, who) => w <= hi
    BY DEF Says, Passes, hi
  <2>3. \A x \in Told' : x.word <= hi
    <3> SUFFICES ASSUME NEW x \in Told' PROVE x.word <= hi
      OBVIOUS
    <3>1. CASE x \in Told
      <4>1. x.word <= v2 /\ x.word \in Nat
        BY <1>16, <2>1, <3>1 DEF Spoken
      <4> QED
        BY <1>1, <4>1
    <3>2. CASE Says(kept, x.word, x.who)
      BY <2>2, <3>2
    <3> QED
      BY <1>15, <3>1, <3>2
  <2>4. ASSUME NEW i \in DOMAIN all, NEW w \in Transcripts!Range(all[i].words) PROVE w <= hi
    <3> HIDE DEF all
    <3>1. i \in 1..(m + Len(out)) /\ DOMAIN s = 1..m
      BY <1>1, <1>10, TextsAre DEF m
    <3>2. CASE i <= m
      <4>1. i \in DOMAIN s /\ all[i] = s[i]
        BY <1>10, <3>1, <3>2
      <4>2. w <= v2
        BY <2>1, <2>4, <4>1 DEF Spoken
      <4>3. w \in Nat
        <5>1. all[i].words \in Transcripts!Words
          BY <1>10, <3>1, TextsAre
        <5>2. PICK a \in 1..Len(all[i].words) : all[i].words[a] = w
          BY <2>4, <5>1, RangeIs, Zenon
        <5> QED
          BY <5>1, <5>2, WordsAre, Zenon
      <4> QED
        BY <1>1, <4>2, <4>3 DEF hi
    <3>3. CASE i > m
      <4> DEFINE x == i - m
      <4>1. x \in 1..Len(out) /\ m + x = i
        BY <1>7, <1>10, <3>1, <3>3
      <4> HIDE DEF x
      <4>2. all[i] = out[x] /\ out[x].words \in Transcripts!Words
        BY <1>7, <1>10, <4>1, TextsAre, Zenon
      <4>3. PICK a \in 1..Len(out[x].words) : out[x].words[a] = w
        BY <2>4, <4>2, RangeIs
      <4>4. PICK j \in 1..Len(kept) : \E b \in 1..Len(kept[j].words) : w = kept[j].words[b]
        <5>1. \E j \in 1..Len(kept) : \E b \in 1..Len(kept[j].words) : out[x].words[a] = kept[j].words[b]
          BY <1>7, <4>1, Zenon
        <5> QED
          BY <4>3, <5>1
      <4> QED
        BY <4>4 DEF Passes, hi
    <3> QED
      BY <1>10, <3>1, <3>2, <3>3
  <2> HIDE DEF all
  <2> QED
    BY <2>3, <2>4 DEF Spoken
<1>18. v1 => Agree(all, Told')
  <2> SUFFICES ASSUME v1 PROVE Agree(all, Told')
    OBVIOUS
  <2>1. Spoken(s, Told, v2) /\ Agree(s, Told)
    BY InvParts DEF s
  <2>2. Chain(kept, v2, hi)
    BY DEF Passes, hi
  <2>3. \A i \in 1..Len(kept) :
           /\ out[i].words = kept[i].words
           /\ kept[i].who # 0 => Transcripts!ReadIn(s \o out, Len(s) + i) \in {kept[i].who, 0}
    BY <1>8 DEF m
  <2> HIDE DEF hi
  <2> QED
    BY <1>1, <1>2, <1>7, <1>8, <1>15, <1>16, <2>1, <2>2, <2>3, AgreeGrows, Zenon
<1>19. GluedRight(all)
  <2>1. GluedRight(s)
    BY InvParts DEF s
  <2>2. ASSUME NEW i \in 1..Len(out), out[i].glued
        PROVE  i = 1 /\ (Len(s) # 0 => Transcripts!Last(s[Len(s)].words) + 1 = out[1].words[1])
    <3>1. i = 1 /\ glue
      BY <1>7, <2>2
    <3>2. kept[1].words[1] = v2 + 1
      BY <3>1 DEF Passes
    <3>3. v1 \/ v3.primary \in {0, v3.previous}
      BY <1>1, <3>1, Zenon DEF Passes, Hears
    <3>4. Len(s) # 0 => Transcripts!Last(s[Len(s)].words) = v2
      BY <3>1, <3>3, InvParts DEF s
    <3> QED
      BY <1>7, <3>1, <3>2, <3>4
  <2> QED
    BY <1>1, <1>7, <2>1, <2>2, GluedGrows
<1> HIDE DEF all
<1>20. Transcripts!Sent' = all
  BY <1>9 DEF all
<1>21. Len(all) \in 1..Len(all) /\ all[Len(all)] = out[Len(out)]
  <2>1. Len(out) \in 1..Len(out)
    BY <1>7
  <2>2. all[m + Len(out)] = out[Len(out)]
    BY <1>10, <2>1, Zenon
  <2> QED
    BY <1>7, <1>10, <2>2
<1>22. (v3'.cuttable /\ Len(all) # 0 /\ (v1' \/ v3'.primary \in {0, v3'.previous})) =>
            Transcripts!Last(all[Len(all)].words) = v2'
  BY <1>7, <1>11, <1>21 DEF Passes
<1>23. (v1' /\ v3'.lastFinal # 0) => Transcripts!ReadIn(all, Len(all)) \in {v3'.lastFinal, 0}
  BY <1>4, <1>8, <1>10, Zenon DEF all
<1>24. \A i, j \in 1..Len(v7) : i < j => v7[i] < v7[j]
  <2>1. DOMAIN v7 = 1..Len(v7)
    BY <1>1
  <2> QED
    BY <2>1, Zenon DEF Transcripts!Inv, Transcripts!ClosedInOrder
<1>25. \A i \in 1..Len(v7) : v7[i] \in Nat
  BY <1>1
<1> HIDE DEF hi
<1>26. v4' \in Seq(TextRec)
  BY <1>1, <1>4, <1>7, SeqJoin
<1> HIDE DEF Told
<1>27. v1' = v1 /\ v2' = hi /\ v5' = v5 /\ v6' = v6 /\ v7' = v7
  BY DEF hi
<1>28. (v3'.fragments # <<>> /\ Unnamed(v3'.fragments)) => v3'.last = 0
  BY <1>3, <1>11
<1>29. \A i \in 1..Len(v7') : v7'[i] <= v3'.turn /\ (v3'.fragments # <<>> => v7'[i] < v3'.turn)
  <2>1. \A i \in 1..Len(v7) : v7[i] < v3'.turn /\ v7[i] \in Nat /\ v3'.turn \in Nat
    BY <1>3, <1>11, <1>12, <1>25
  <2>2. \A i \in 1..Len(v7) : v7[i] <= v3'.turn
    BY <2>1
  <2> QED
    BY <1>27, <2>1, <2>2
<1>30. /\ v1' \in BOOLEAN /\ v2' \in Nat /\ v3' \in Proc /\ v5' \in Seq(TextRec)
       /\ v6' \subseteq [word : Nat, who : Nat] /\ v7' \in Seq(Nat)
       /\ \A i, j \in 1..Len(v7') : i < j => v7'[i] < v7'[j]
  BY <1>1, <1>11, <1>24, <1>27
<1>31. /\ Spoken(Transcripts!Sent', Told', v2') /\ (v1' => Agree(Transcripts!Sent', Told'))
       /\ GluedRight(Transcripts!Sent')
  BY <1>17, <1>18, <1>19, <1>20, <1>27
<1>32. /\ (v1' /\ v3'.lastFinal # 0) =>
            Transcripts!ReadIn(Transcripts!Sent', Len(Transcripts!Sent')) \in {v3'.lastFinal, 0}
       /\ (v3'.cuttable /\ Len(Transcripts!Sent') # 0 /\ (v1' \/ v3'.primary \in {0, v3'.previous})) =>
            Transcripts!Last(Transcripts!Sent'[Len(Transcripts!Sent')].words) = v2'
  BY <1>20, <1>22, <1>23
<1> QED
  BY <1>26, <1>28, <1>29, <1>30, <1>31, <1>32, InvOfParts

\* A step that leaves the texts and what was told as they were.
StillProc(p) ==
    /\ p \in Proc /\ p.fragments = v3.fragments /\ p.turn = v3.turn /\ p.last \in {v3.last, 0}
    /\ p.lastFinal \in {v3.lastFinal, 0}

LEMMA StillKeeps ==
  ASSUME Transcripts!Inv, StillProc(v3'), v2' \in Nat, v2 <= v2', v1' = v1, v6' = v6, v7' = v7,
         v4' \in Seq(TextRec), v5' \in Seq(TextRec), Transcripts!Sent' = Transcripts!Sent,
         (v3'.cuttable /\ (v1 \/ v3'.primary \in {0, v3'.previous})) =>
            v2' = v2 /\ v3.cuttable /\ (v1 \/ v3.primary \in {0, v3.previous})
  PROVE  Transcripts!Inv'
<1> DEFINE s == Transcripts!Sent
<1>1. /\ v1 \in BOOLEAN /\ v2 \in Nat /\ v7 \in Seq(Nat) /\ s \in Seq(TextRec)
      /\ v6 \subseteq [word : Nat, who : Nat] /\ v3.fragments \in Seq(RunsOf(Nat)) /\ v3.turn \in Nat
  BY TranscriptFacts
<1>2. v3' \in Proc /\ v3'.fragments = v3.fragments /\ v3'.turn = v3.turn /\ v3'.last \in {v3.last, 0}
      /\ v3'.lastFinal \in {v3.lastFinal, 0}
  BY DEF StillProc
<1>3. Told' = Told
  BY <1>2 DEF Told, Transcripts!Told
<1>4. Spoken(s, Told, v2)
  BY InvParts
<1>5. \A x : x \in Told <=> x \in v6 \/ \E w, who : x = [word |-> w, who |-> who] /\ Says(v3.fragments, w, who)
  <2>1. Told = v6 \cup Pairs(v3.fragments)
    BY DEF Told, Transcripts!Told, Pairs
  <2> QED
    BY <1>1, <2>1, ToldFrom
<1>6. \A x \in Told : x.word \in Nat
  <2>1. \A w, who : Says(v3.fragments, w, who) => w \in Nat
    BY <1>1, SaysNat
  <2> QED
    BY <1>1, <1>5, <2>1
<1>7. Spoken(s, Told, v2')
  <2>1. \A x \in Told : x.word <= v2'
    BY <1>1, <1>4, <1>6 DEF Spoken
  <2>2. ASSUME NEW i \in DOMAIN s, NEW w \in Transcripts!Range(s[i].words) PROVE w <= v2'
    <3> HIDE DEF s
    <3>1. s[i].words \in Transcripts!Words
      BY <1>1, TextsAre, Zenon
    <3>2. PICK a \in 1..Len(s[i].words) : s[i].words[a] = w
      BY <2>2, <3>1, RangeIs
    <3>3. w \in Nat
      BY <3>1, <3>2, WordsAre, Zenon
    <3>4. w <= v2
      BY <1>4, <2>2 DEF Spoken
    <3> QED
      BY <1>1, <3>3, <3>4
  <2> HIDE DEF s
  <2> QED
    BY <2>1, <2>2 DEF Spoken
<1>8. v1 => Agree(s, Told)
  BY InvParts
<1>9. GluedRight(s)
  BY InvParts
<1>10. (v1 /\ v3'.lastFinal # 0) => Transcripts!ReadIn(s, Len(s)) \in {v3'.lastFinal, 0}
  BY <1>2, InvParts
<1>11. (v3'.cuttable /\ Len(s) # 0 /\ (v1' \/ v3'.primary \in {0, v3'.previous})) =>
          Transcripts!Last(s[Len(s)].words) = v2'
  BY InvParts
<1>12. (v3'.fragments # <<>> /\ Unnamed(v3'.fragments)) => v3'.last = 0
  <2>1. Unnamed(v3.fragments) => Transcripts!Named(v3.fragments) = {}
    BY <1>1, LastNamedIs, Zenon DEF Unnamed
  <2>2. (v3.fragments # <<>> /\ Unnamed(v3.fragments)) => v3.last = 0
    BY <2>1 DEF Transcripts!Inv, Transcripts!LastOfTurn, Transcripts!Nobody
  <2> QED
    BY <1>2, <2>2
<1>13. /\ \A i, j \in 1..Len(v7) : i < j => v7[i] < v7[j]
       /\ \A i \in 1..Len(v7) : v7[i] <= v3.turn /\ (v3.fragments # <<>> => v7[i] < v3.turn)
  <2>1. DOMAIN v7 = 1..Len(v7)
    BY <1>1
  <2> QED
    BY <2>1, Zenon DEF Transcripts!Inv, Transcripts!ClosedInOrder
<1>14. Transcripts!Sent' = s
  OBVIOUS
<1> HIDE DEF s, Told
<1> QED
  BY <1>1, <1>2, <1>3, <1>7, <1>8, <1>9, <1>10, <1>11, <1>12, <1>13, <1>14, InvOfParts

LEMMA FinalKeeps ==
  ASSUME Transcripts!Inv, NEW words \in Seq(Speakers), words # <<>>, NEW timed \in BOOLEAN, NEW joined \in BOOLEAN,
         Transcripts!Final(words, timed, joined)
  PROVE  Transcripts!Inv'
<1> DEFINE n == Len(words)
           cont == ContOf(timed, joined)
           owned == OwnedOf(words, cont)
           primary == PrimOf(owned)
           kept == Transcripts!Accepted(owned, primary)
           p == ProcOf(words, timed, owned)
           glue == GlueOf(cont, kept)
<1>1. FinalDoes(owned, kept, p, glue, n)
  BY FinalIs
<1>2. n \in Nat \ {0} /\ v2 \in Nat /\ v3 \in Proc /\ cont \in BOOLEAN /\ v3.primary \in Nat /\ v2 + n \in Nat
  BY TranscriptFacts DEF ContOf
<1>3. cont => timed /\ v3.cuttable
  BY DEF ContOf
<1> HIDE DEF n, cont
<1>4. /\ NumsOf(words) \in Seq(Tags) /\ owned \in Seq(RunsOf(Nat)) /\ Chain(owned, v2, v2 + n)
      /\ cont => owned[1].who = v3.previous
  BY <1>2, OwnedIs DEF n
<1> HIDE DEF owned
<1>5. primary \in Nat /\ (v3.primary # 0 => primary = v3.primary)
  BY <1>2, <1>4, FirstNamedIs DEF PrimOf
<1>6. owned # <<>> /\ Transcripts!Last(owned) = owned[Len(owned)] /\ owned[Len(owned)].who \in Nat
  <2>1. owned # <<>>
    BY <1>4 DEF Chain
  <2> QED
    BY <1>4, <2>1, RunsAre
<1>7. p = [v3 EXCEPT !.numbers = NumsOf(words), !.cuttable = timed,
                     !.previous = Transcripts!Last(owned).who, !.primary = primary]
  BY DEF ProcOf
<1> HIDE DEF primary, p
<1>8. Hears(p, owned, primary, timed)
  BY <1>2, <1>4, <1>5, <1>6, <1>7, Zenon DEF Hears, Proc
<1>9. CASE kept # <<>>
  <2>1. Passes(owned, kept, primary, v2, v2 + n)
    BY <1>2, <1>4, <1>9, PassesIs
  <2> HIDE DEF kept
  <2>2. glue \in BOOLEAN
    BY <1>2 DEF GlueOf
  <2>3. glue => /\ v3.cuttable /\ kept[1].who = v3.previous /\ owned[1].who = v3.previous
    BY <1>3, <1>4 DEF GlueOf
  <2>4. /\ v2' = v2 + n /\ UNCHANGED <<v1, v5, v6, v7>>
        /\ v3' = TextsFor(p, kept, glue).p /\ v4' = v4 \o TextsFor(p, kept, glue).out
    BY <1>1, <1>9 DEF FinalDoes
  <2> HIDE DEF glue
  <2> QED
    BY <1>2, <1>4, <1>5, <1>8, <2>1, <2>2, <2>3, <2>4, SentFinal, Zenon
<1>10. CASE kept = <<>>
  <2>1. ~(v1 \/ primary \in {0, owned[Len(owned)].who})
    <3> HIDE DEF kept
    <3>1. kept = Transcripts!Accepted(owned, primary)
      BY DEF kept
    <3> QED
      BY <1>4, <1>6, <1>10, <3>1, AcceptedIs
  <2> HIDE DEF kept, glue
  <2>2. v2' = v2 + n /\ UNCHANGED <<v1, v5, v6, v7>> /\ v3' = p /\ v4' = v4
    BY <1>1, <1>10 DEF FinalDoes
  <2>3. StillProc(v3') /\ v3'.primary = primary /\ v3'.previous = Transcripts!Last(owned).who
    BY <1>8, <2>2 DEF Hears, StillProc
  <2>4. ~(v1 \/ v3'.primary \in {0, v3'.previous})
    BY <1>6, <2>1, <2>3
  <2>5. Transcripts!Sent' = Transcripts!Sent
    BY <2>2 DEF Transcripts!Sent
  <2>6. v2' \in Nat /\ v2 <= v2'
    BY <1>2, <2>2
  <2>7. v4' \in Seq(TextRec) /\ v5' \in Seq(TextRec)
    BY <2>2, TranscriptFacts
  <2> QED
    BY <2>2, <2>3, <2>4, <2>5, <2>6, <2>7, StillKeeps
<1> QED
  BY <1>9, <1>10

LEMMA FinalResultKeeps ==
  ASSUME Transcripts!Inv, Transcripts!FinalResult PROVE Transcripts!Inv'
<1>1. Tags \cup {NoTag} = Speakers
  BY DEF Speakers
<1>2. CASE \E n \in 1..MaxPerResult, joined \in BOOLEAN :
             \E words \in [1..n -> Tags \cup {NoTag}] : Transcripts!Final(words, TRUE, joined)
  <2>1. PICK n \in 1..MaxPerResult, joined \in BOOLEAN :
               \E words \in [1..n -> Tags \cup {NoTag}] : Transcripts!Final(words, TRUE, joined)
    BY <1>2, Zenon
  <2>2. PICK words \in [1..n -> Tags \cup {NoTag}] : Transcripts!Final(words, TRUE, joined)
    BY <2>1, Zenon
  <2>3. n \in Nat \ {0}
    BY TranscriptsAssumption DEF Transcripts!ResultsAssumption
  <2>4. words \in Seq(Speakers) /\ Len(words) = n
    BY <1>1, <2>3
  <2>5. words # <<>>
    BY <2>3, <2>4
  <2> QED
    BY <2>2, <2>4, <2>5, FinalKeeps, Zenon
<1>3. CASE Transcripts!Final(<<NoTag>>, FALSE, FALSE)
  <2>1. <<NoTag>> \in Seq(Speakers) /\ <<NoTag>> # <<>>
    BY <1>1
  <2> QED
    BY <1>3, <2>1, FinalKeeps, Zenon
<1> QED
  BY <1>2, <1>3, Zenon DEF Transcripts!FinalResult

LEMMA InterimKeeps ==
  ASSUME Transcripts!Inv, Transcripts!InterimResult PROVE Transcripts!Inv'
<1>1. PICK t \in Tags : /\ v3' = [v3 EXCEPT !.numbers = Append(@, t)]
                        /\ UNCHANGED <<v1, v2, v4, v5, v6, v7>>
  BY DEF Transcripts!InterimResult
<1>2. v3 \in Proc /\ v4 \in Seq(TextRec) /\ v5 \in Seq(TextRec) /\ v2 \in Nat /\ v3.numbers \in Seq(Tags)
  BY TranscriptFacts
<1>3. Append(v3.numbers, t) \in Seq(Tags)
  BY <1>2
<1>4. /\ v3' \in Proc /\ v3'.fragments = v3.fragments /\ v3'.turn = v3.turn /\ v3'.last = v3.last
      /\ v3'.lastFinal = v3.lastFinal /\ v3'.cuttable = v3.cuttable /\ v3'.primary = v3.primary
      /\ v3'.previous = v3.previous
  BY <1>1, <1>2, <1>3, Zenon DEF Proc
<1>5. StillProc(v3')
  BY <1>4 DEF StillProc
<1>6. Transcripts!Sent' = Transcripts!Sent
  BY <1>1 DEF Transcripts!Sent
<1> QED
  BY <1>1, <1>2, <1>4, <1>5, <1>6, StillKeeps

LEMMA UserStartedKeeps ==
  ASSUME Transcripts!Inv, Transcripts!UserStartedSpeaking PROVE Transcripts!Inv'
<1>1. /\ v3' = [v3 EXCEPT !.last = 0, !.lastFinal = 0, !.hasFinal = FALSE]
      /\ UNCHANGED <<v1, v2, v4, v5, v6, v7>>
  BY DEF Transcripts!UserStartedSpeaking, Transcripts!Nobody
<1>2. v3 \in Proc /\ v4 \in Seq(TextRec) /\ v5 \in Seq(TextRec) /\ v2 \in Nat
  BY TranscriptFacts
<1>4. /\ v3' \in Proc /\ v3'.fragments = v3.fragments /\ v3'.turn = v3.turn /\ v3'.last = 0
      /\ v3'.lastFinal = 0 /\ v3'.cuttable = v3.cuttable /\ v3'.primary = v3.primary
      /\ v3'.previous = v3.previous
  BY <1>1, <1>2, Zenon DEF Proc
<1>5. StillProc(v3')
  BY <1>4 DEF StillProc
<1>6. Transcripts!Sent' = Transcripts!Sent
  BY <1>1 DEF Transcripts!Sent
<1> QED
  BY <1>1, <1>2, <1>4, <1>5, <1>6, StillKeeps

LEMMA MovedOver ==
  ASSUME NEW S, NEW q \in Seq(S), q # <<>>, NEW m \in Seq(S)
  PROVE  /\ Append(m, Head(q)) \in Seq(S) /\ Tail(q) \in Seq(S)
         /\ Append(m, Head(q)) \o Tail(q) = m \o q
<1> DEFINE h == Head(q)
           t == Tail(q)
<1>1. h \in S /\ t \in Seq(S) /\ q = <<h>> \o t
  BY HeadTailProperties
<1> HIDE DEF h, t
<1>2. Append(m, h) = m \o <<h>> /\ <<h>> \in Seq(S)
  BY <1>1, AppendIsConcat
<1>3. (m \o <<h>>) \o t = m \o (<<h>> \o t)
  BY <1>1, <1>2, ConcatAssociative
<1> QED
  BY <1>1, <1>2, <1>3 DEF h, t

LEMMA AggregateKeeps ==
  ASSUME Transcripts!Inv, Transcripts!Aggregate PROVE Transcripts!Inv'
<1>1. /\ v4 # <<>> /\ v4' = Tail(v4) /\ v5' = Append(v5, Head(v4))
      /\ UNCHANGED <<v1, v2, v3, v6, v7>>
  BY DEF Transcripts!Aggregate
<1>2. v3 \in Proc /\ v4 \in Seq(TextRec) /\ v5 \in Seq(TextRec) /\ v2 \in Nat
  BY TranscriptFacts
<1>3. v5' \in Seq(TextRec) /\ v4' \in Seq(TextRec) /\ v5' \o v4' = v5 \o v4
  BY <1>1, <1>2, MovedOver, Zenon
<1>5. StillProc(v3')
  BY <1>1, <1>2 DEF StillProc
<1>6. Transcripts!Sent' = Transcripts!Sent
  BY <1>3 DEF Transcripts!Sent
<1> QED
  BY <1>1, <1>2, <1>3, <1>5, <1>6, StillKeeps

LEMMA StandKeeps ==
  ASSUME Transcripts!Inv, UNCHANGED <<v1, v2, v3, v4, v5, v6, v7>> PROVE Transcripts!Inv'
<1>2. v3 \in Proc /\ v4 \in Seq(TextRec) /\ v5 \in Seq(TextRec) /\ v2 \in Nat
  BY TranscriptFacts
<1>5. StillProc(v3')
  BY <1>2 DEF StillProc
<1>6. Transcripts!Sent' = Transcripts!Sent
  BY DEF Transcripts!Sent
<1> QED
  BY <1>2, <1>5, <1>6, StillKeeps

\* One run, as the browser is told it.
LEMMA OneRun ==
  ASSUME NEW who, NEW words \in Seq(Nat), NEW told, told = <<Transcripts!Run(who, words)>>
  PROVE  /\ Readable(told)
         /\ \A w, x : Says(told, w, x) => x = who /\ \E a \in 1..Len(words) : words[a] = w
<1>1. Len(told) = 1 /\ DOMAIN told = 1..1 /\ told[1].who = who /\ told[1].words = words
  BY DEF Transcripts!Run
<1>2. DOMAIN words = 1..Len(words)
  OBVIOUS
<1>3. \A i \in 1..1 : i = 1
  OBVIOUS
<1> QED
  BY <1>1, <1>2, <1>3 DEF Readable, Says

\* What a close tells of the fragments of a turn and the content aggregated.
Tells(told, frs, content) ==
    /\ Readable(told)
    /\ \A w, who : Says(told, w, who) =>
         /\ who \in Nat
         /\ (\E x : Says(frs, w, x)) \/ \E a \in 1..Len(content) : content[a] = w
         /\ v1 => Says(frs, w, who) \/ who = 0
ToldOf(runs, last, transcript, content) ==
    LET told == Transcripts!Finalized(runs, last, transcript)
    IN IF told = <<>> THEN <<Transcripts!Run(0, content)>> ELSE told

LEMMA ToldOne ==
  ASSUME NEW frs \in Seq(RunsOf(Nat)), frs # <<>>, NEW last \in Nat, Unnamed(frs) => last = 0,
         NEW runs, runs = Transcripts!Grouped(frs), Len(runs) = 1,
         NEW content \in Seq(Nat), NEW transcript, transcript = IF v1 THEN <<>> ELSE content,
         NEW told, told = ToldOf(runs, last, transcript, content), v1 \in BOOLEAN
  PROVE  Tells(told, frs, content)
<1>1. /\ runs \in Seq(RunsOf(Nat)) /\ runs # <<>>
      /\ \A w, who : Says(runs, w, who) => Says(frs, w, who)
      /\ \A who : Names(frs, who) => Names(runs, who)
  BY GroupedIs
<1> DEFINE words == IF transcript = <<>> THEN runs[1].words ELSE transcript
           who == IF runs[1].who = 0 THEN last ELSE runs[1].who
<1>2. runs[1].who \in Nat /\ runs[1].words \in Seq(Nat)
  <2>1. runs[1].who \in Nat /\ runs[1].words \in Transcripts!Words
    BY <1>1, RunsAre
  <2> QED
    BY <2>1, WordsAre
<1>3. words \in Seq(Nat) /\ who \in Nat
  BY <1>2
<1>4. told = <<Transcripts!Run(who, words)>>
  BY <1>1 DEF ToldOf, Transcripts!Finalized, Transcripts!Nobody
<1>5. \A w : (\E a \in 1..Len(runs[1].words) : runs[1].words[a] = w) => Says(runs, w, runs[1].who)
  BY DEF Says
<1>6. ASSUME runs[1].who = 0 PROVE last = 0
  <2>1. ASSUME NEW k \in 1..Len(frs) PROVE frs[k].who = 0
    <3>1. Names(frs, frs[k].who)
      BY DEF Names
    <3>2. Names(runs, frs[k].who)
      BY <1>1, <3>1
    <3>3. \A j \in 1..Len(runs) : j = 1
      OBVIOUS
    <3> QED
      BY <1>6, <3>2, <3>3 DEF Names
  <2> QED
    BY <2>1 DEF Unnamed
<1>7. Readable(told) /\ \A w, x : Says(told, w, x) => x = who /\ \E a \in 1..Len(words) : words[a] = w
  <2> HIDE DEF words, who
  <2> QED
    BY <1>3, <1>4, OneRun
<1>8. ASSUME NEW w, \E a \in 1..Len(words) : words[a] = w
      PROVE  Says(runs, w, runs[1].who) \/ (~v1 /\ \E a \in 1..Len(content) : content[a] = w)
  BY <1>5, <1>8, Zenon
<1>9. v1 => who = runs[1].who \/ who = 0
  BY <1>6
<1>10. runs[1].who = 0 => who = 0
  BY <1>6
<1>11. who # 0 => who = runs[1].who \/ runs[1].who = 0
  OBVIOUS
<1> HIDE DEF who, words
<1>12. ASSUME NEW w, NEW x, Says(told, w, x)
       PROVE  /\ x \in Nat
              /\ (\E y : Says(frs, w, y)) \/ \E a \in 1..Len(content) : content[a] = w
              /\ v1 => Says(frs, w, x) \/ x = 0
  <2>1. x = who /\ \E a \in 1..Len(words) : words[a] = w
    BY <1>7, <1>12
  <2>2. Says(frs, w, runs[1].who) \/ (~v1 /\ \E a \in 1..Len(content) : content[a] = w)
    BY <1>1, <1>8, <2>1
  <2>3. v1 => Says(frs, w, x) \/ x = 0
    BY <1>9, <2>1, <2>2
  <2> QED
    BY <1>3, <2>1, <2>2, <2>3
<1> QED
  BY <1>7, <1>12 DEF Tells

LEMMA ToldTells ==
  ASSUME NEW frs \in Seq(RunsOf(Nat)), NEW last \in Nat, (frs # <<>> /\ Unnamed(frs)) => last = 0,
         NEW runs, runs = Transcripts!Grouped(frs),
         NEW content \in Seq(Nat), NEW transcript, transcript = IF v1 THEN <<>> ELSE content,
         NEW told, told = ToldOf(runs, last, transcript, content), v1 \in BOOLEAN
  PROVE  Tells(told, frs, content)
<1>1. /\ runs \in Seq(RunsOf(Nat)) /\ (frs = <<>> <=> runs = <<>>)
      /\ \A w, who : Says(runs, w, who) => Says(frs, w, who)
  BY GroupedIs
<1>2. CASE frs = <<>>
  <2>1. \E who \in Nat : told = <<Transcripts!Run(who, content)>> /\ (v1 => who = 0)
    <3>1. CASE transcript = <<>>
      <4>1. told = <<Transcripts!Run(0, content)>>
        BY <1>1, <1>2, <3>1 DEF ToldOf, Transcripts!Finalized
      <4> QED
        BY <4>1
    <3>2. CASE transcript # <<>>
      <4>1. transcript = content /\ ~v1
        BY <3>2
      <4>2. told = <<Transcripts!Run(last, content)>>
        BY <1>1, <1>2, <3>2, <4>1 DEF ToldOf, Transcripts!Finalized
      <4> QED
        BY <4>1, <4>2
    <3> QED
      BY <3>1, <3>2
  <2>2. PICK who \in Nat : told = <<Transcripts!Run(who, content)>> /\ (v1 => who = 0)
    BY <2>1
  <2>3. Readable(told) /\ \A w, x : Says(told, w, x) => x = who /\ \E a \in 1..Len(content) : content[a] = w
    BY <2>2, OneRun
  <2> QED
    BY <2>2, <2>3 DEF Tells
<1>3. CASE frs # <<>> /\ Len(runs) = 1
  BY <1>3, ToldOne
<1>4. CASE frs # <<>> /\ Len(runs) # 1
  <2>1. told = runs
    BY <1>1, <1>4 DEF ToldOf, Transcripts!Finalized
  <2>2. Readable(runs)
    BY <1>1, RunsReadable
  <2>3. \A w, who : Says(runs, w, who) => who \in Nat
    BY <1>1, SaysNat
  <2> QED
    BY <1>1, <2>1, <2>2, <2>3 DEF Tells
<1> QED
  BY <1>2, <1>3, <1>4

\* What the aggregator has put together is made of the words sent.
LEMMA ContentIs ==
  ASSUME v5 \in Seq(TextRec)
  PROVE  /\ Transcripts!Content \in Seq(Nat)
         /\ \A a \in 1..Len(Transcripts!Content) :
              \E i \in 1..Len(v5) : Transcripts!Content[a] \in Transcripts!Range(v5[i].words)
<1> DEFINE seqs == [i \in DOMAIN v5 |-> v5[i].words]
           content == Transcripts!FlattenSeq(seqs)
<1>1. /\ Len(v5) \in Nat /\ DOMAIN v5 = 1..Len(v5)
      /\ \A i \in 1..Len(v5) : /\ v5[i].words \in Transcripts!Words
                               /\ \A w : w \in Transcripts!Range(v5[i].words) <=>
                                           \E a \in 1..Len(v5[i].words) : v5[i].words[a] = w
  BY TextsAre, Zenon
<1>2. seqs \in Seq(Transcripts!Words) /\ Len(seqs) = Len(v5) /\ \A i \in 1..Len(v5) : seqs[i] = v5[i].words
  BY <1>1
<1>3. Transcripts!Content = content
  BY DEF Transcripts!Content
<1> HIDE DEF seqs
<1>4. /\ content \in Seq(Nat)
      /\ \A a \in 1..Len(content) : \E i \in 1..Len(seqs) : \E b \in 1..Len(seqs[i]) : content[a] = seqs[i][b]
  BY <1>2, FlattenIs, Zenon
<1> HIDE DEF content
<1>5. ASSUME NEW a \in 1..Len(content)
      PROVE  \E i \in 1..Len(v5) : content[a] \in Transcripts!Range(v5[i].words)
  <2>1. PICK i \in 1..Len(seqs) : \E b \in 1..Len(seqs[i]) : content[a] = seqs[i][b]
    BY <1>4, Zenon
  <2>2. i \in 1..Len(v5) /\ seqs[i] = v5[i].words
    BY <1>2
  <2>3. content[a] \in Transcripts!Range(v5[i].words)
    BY <1>1, <2>1, <2>2, Zenon
  <2> QED
    BY <2>2, <2>3
<1> QED
  BY <1>3, <1>4, <1>5

\* Without the texts of the message the rest of them are right as before.
LEMMA AgreeRest ==
  ASSUME NEW s \in Seq(TextRec), NEW t \in Seq(TextRec), NEW m \in Nat, Len(s) = m + Len(t),
         \A k \in 1..Len(t) : t[k] = s[m + k], NEW told, Agree(s, told), NEW more,
         \A x \in more : x \in told \/ x.who = 0
  PROVE  Agree(t, more)
<1>1. DOMAIN t = 1..Len(t) /\ DOMAIN s = 1..(m + Len(t)) /\ Len(t) \in Nat
  OBVIOUS
<1> SUFFICES ASSUME NEW i \in 1..Len(t), NEW x \in more, x.word \in Transcripts!Range(t[i].words),
                    Transcripts!ReadIn(t, i) # 0
             PROVE  x.who \in {Transcripts!ReadIn(t, i), 0}
  BY <1>1 DEF Agree
<1>2. Transcripts!ReadIn(t, i) = Transcripts!ReadIn(s, m + i)
  <2>1. i \in 0..Len(t)
    BY <1>1
  <2> QED
    BY <2>1, ReadRest
<1>3. m + i \in DOMAIN s /\ s[m + i] = t[i]
  BY <1>1
<1>4. CASE x \in told
  BY <1>2, <1>3, <1>4, Zenon DEF Agree
<1> QED
  BY <1>4

LEMMA GluedRest ==
  ASSUME NEW s \in Seq(TextRec), NEW t \in Seq(TextRec), NEW m \in Nat, Len(s) = m + Len(t),
         \A k \in 1..Len(t) : t[k] = s[m + k], GluedRight(s)
  PROVE  GluedRight(t)
<1> SUFFICES ASSUME NEW i \in 2..Len(t), t[i].glued
             PROVE  Transcripts!Last(t[i - 1].words) + 1 = Head(t[i].words)
  BY Zenon DEF GluedRight
<1>1. Len(t) \in Nat /\ i \in 1..Len(t) /\ i - 1 \in 1..Len(t) /\ m + i \in 2..Len(s) /\ m + (i - 1) = (m + i) - 1
  OBVIOUS
<1>2. t[i] = s[m + i] /\ t[i - 1] = s[(m + i) - 1]
  BY <1>1, Zenon
<1> QED
  BY <1>1, <1>2 DEF GluedRight

LEMMA SpokenRest ==
  ASSUME NEW s \in Seq(TextRec), NEW t \in Seq(TextRec), NEW m \in Nat, Len(s) = m + Len(t),
         \A k \in 1..Len(t) : t[k] = s[m + k], NEW told, NEW n, Spoken(s, told, n), NEW more,
         \A x \in more : x.word <= n
  PROVE  Spoken(t, more, n)
<1>1. DOMAIN t = 1..Len(t) /\ DOMAIN s = 1..(m + Len(t)) /\ Len(t) \in Nat
  OBVIOUS
<1>2. \A i \in 1..Len(t) : m + i \in DOMAIN s /\ s[m + i] = t[i]
  BY <1>1
<1> QED
  BY <1>1, <1>2, Zenon DEF Spoken

\* What a close does, with the values it passes through named.
Took == [v3 EXCEPT !.fragments = <<>>, !.cuttable = FALSE, !.previous = 0]
ToldNow == ToldOf(Transcripts!Grouped(v3.fragments), v3.last, IF v1 THEN <<>> ELSE Transcripts!Content, Transcripts!Content)
LEMMA CloseIs ==
  ASSUME Transcripts!CloseTurn
  PROVE  /\ v5' = <<>> /\ UNCHANGED <<v1, v2, v4>>
         /\ \/ v3' = Took /\ UNCHANGED <<v6, v7>>
            \/ /\ v3' = [Took EXCEPT !.turn = Transcripts!ClosedTurn]
               /\ v7' = Append(v7, Transcripts!ClosedTurn) /\ v6' = v6 \cup Pairs(ToldNow)
BY DEF Transcripts!CloseTurn, Took, ToldNow, ToldOf, Pairs, Transcripts!Nobody

LEMMA ClosedOnce ==
  ASSUME Transcripts!Inv, v7' = Append(v7, Transcripts!ClosedTurn)
  PROVE  /\ v7' \in Seq(Nat) /\ Transcripts!ClosedTurn \in Nat
         /\ \A i, j \in 1..Len(v7') : i < j => v7'[i] < v7'[j]
         /\ \A i \in 1..Len(v7') : v7'[i] <= Transcripts!ClosedTurn
<1> DEFINE c == Transcripts!ClosedTurn
           n == Len(v7)
<1>1. v7 \in Seq(Nat) /\ v3.turn \in Nat
  BY TranscriptFacts
<1>2. /\ \A i, j \in 1..n : i < j => v7[i] < v7[j]
      /\ \A i \in 1..n : v7[i] <= v3.turn /\ (v3.fragments # <<>> => v7[i] < v3.turn)
  <2>1. DOMAIN v7 = 1..n
    BY <1>1
  <2> QED
    BY <2>1, Zenon DEF Transcripts!Inv, Transcripts!ClosedInOrder
<1>3. c \in Nat /\ c = IF v3.fragments = <<>> THEN v3.turn + 1 ELSE v3.turn
  BY <1>1 DEF Transcripts!ClosedTurn
<1>4. n \in Nat /\ \A i \in 1..n : v7[i] \in Nat
  BY <1>1
<1>5. \A i \in 1..n : v7[i] < c
  BY <1>1, <1>2, <1>3, <1>4
<1>6. v7' = Append(v7, c)
  OBVIOUS
<1> HIDE DEF c
<1>7. v7' \in Seq(Nat) /\ Len(v7') = n + 1 /\ v7'[n + 1] = c /\ \A i \in 1..n : v7'[i] = v7[i]
  BY <1>1, <1>3, <1>6
<1> HIDE DEF n
<1>8. ASSUME NEW i \in 1..(n + 1), NEW j \in 1..(n + 1), i < j PROVE v7'[i] < v7'[j]
  <2>1. i \in 1..n
    BY <1>4, <1>8
  <2>2. CASE j \in 1..n
    BY <1>2, <1>7, <1>8, <2>1, <2>2, Zenon
  <2>3. CASE j = n + 1
    BY <1>5, <1>7, <2>1, <2>3
  <2>4. j \in 1..n \/ j = n + 1
    BY <1>4
  <2> QED
    BY <2>2, <2>3, <2>4, Zenon
<1>9. ASSUME NEW i \in 1..(n + 1) PROVE v7'[i] <= c
  <2>1. CASE i \in 1..n
    BY <1>3, <1>4, <1>5, <1>7, <2>1
  <2>2. CASE i = n + 1
    BY <1>3, <1>7, <2>2
  <2>3. i \in 1..n \/ i = n + 1
    BY <1>4
  <2> QED
    BY <2>1, <2>2, <2>3, Zenon
<1> QED
  BY <1>3, <1>7, <1>8, <1>9 DEF c

\* What the browser was told stays true and typed with what a close tells it.
LEMMA ToldAtClose ==
  ASSUME Transcripts!Inv, NEW x \in v6 \cup Pairs(ToldNow)
  PROVE  /\ x \in [word : Nat, who : Nat] /\ x.word <= v2
         /\ v1 => x \in Told \/ x.who = 0
<1> DEFINE frs == v3.fragments
           content == Transcripts!Content
           told == ToldNow
<1>1. /\ v1 \in BOOLEAN /\ v2 \in Nat /\ v6 \subseteq [word : Nat, who : Nat] /\ frs \in Seq(RunsOf(Nat))
      /\ v3.last \in Nat /\ v5 \in Seq(TextRec) /\ v4 \in Seq(TextRec)
  BY TranscriptFacts
<1>2. Spoken(Transcripts!Sent, Told, v2)
  BY InvParts
<1>3. /\ content \in Seq(Nat)
      /\ \A a \in 1..Len(content) : \E i \in 1..Len(v5) : content[a] \in Transcripts!Range(v5[i].words)
  BY <1>1, ContentIs
<1>4. (frs # <<>> /\ Unnamed(frs)) => v3.last = 0
  <2>1. Unnamed(frs) => Transcripts!Named(frs) = {}
    BY <1>1, LastNamedIs, Zenon DEF Unnamed
  <2> QED
    BY <2>1 DEF Transcripts!Inv, Transcripts!LastOfTurn, Transcripts!Nobody
<1>5. Tells(told, frs, content)
  <2> DEFINE runs == Transcripts!Grouped(frs)
             transcript == IF v1 THEN <<>> ELSE content
  <2>1. told = ToldOf(runs, v3.last, transcript, content)
    BY DEF ToldNow
  <2>2. runs = Transcripts!Grouped(frs) /\ transcript = IF v1 THEN <<>> ELSE content
    OBVIOUS
  <2> HIDE DEF runs, transcript, told, content, frs
  <2> QED
    BY <1>1, <1>3, <1>4, <2>1, <2>2, ToldTells
<1>6. \A y : y \in Told <=> y \in v6 \/ \E w, who : y = [word |-> w, who |-> who] /\ Says(frs, w, who)
  <2>1. Told = v6 \cup Pairs(frs)
    BY DEF Told, Transcripts!Told, Pairs
  <2> QED
    BY <1>1, <2>1, ToldFrom
<1>7. CASE x \in v6
  BY <1>1, <1>2, <1>6, <1>7 DEF Spoken
<1>8. CASE x \in Pairs(told)
  <2>1. PICK w, who : x = [word |-> w, who |-> who] /\ Says(told, w, who)
    BY <1>5, <1>8, PairsAre DEF Tells
  <2>2. /\ who \in Nat
        /\ (\E y : Says(frs, w, y)) \/ \E a \in 1..Len(content) : content[a] = w
        /\ v1 => Says(frs, w, who) \/ who = 0
    BY <1>5, <2>1 DEF Tells
  <2>3. w \in Nat /\ w <= v2
    <3>1. CASE \E y : Says(frs, w, y)
      <4>1. PICK y : Says(frs, w, y)
        BY <3>1
      <4>2. w \in Nat
        BY <1>1, <4>1, SaysNat
      <4>3. [word |-> w, who |-> y] \in Told
        BY <1>6, <4>1
      <4> DEFINE z == [word |-> w, who |-> y]
      <4>4. z.word = w /\ z \in Told
        BY <4>3
      <4> HIDE DEF z
      <4>5. z.word <= v2
        BY <1>2, <4>4 DEF Spoken
      <4> QED
        BY <4>2, <4>4, <4>5
    <3>2. CASE \E a \in 1..Len(content) : content[a] = w
      <4>1. PICK a \in 1..Len(content) : content[a] = w
        BY <3>2
      <4>2. PICK i \in 1..Len(v5) : w \in Transcripts!Range(v5[i].words)
        BY <1>3, <4>1
      <4> HIDE DEF content
      <4>3. w \in Nat
        BY <1>3, <4>1
      <4> DEFINE s == Transcripts!Sent
      <4>4. i \in DOMAIN s /\ s[i] = v5[i]
        <5>1. s = v5 \o v4
          BY DEF Transcripts!Sent
        <5>2. Joined(TextRec, v5, v4, v5 \o v4)
          BY <1>1, SeqJoined
        <5> QED
          BY <5>1, <5>2 DEF Joined
      <4> HIDE DEF s
      <4>5. \A k \in DOMAIN s : \A y \in Transcripts!Range(s[k].words) : y <= v2
        BY <1>2 DEF Spoken, s
      <4> QED
        BY <4>2, <4>3, <4>4, <4>5
    <3> QED
      BY <2>2, <3>1, <3>2
  <2>4. Says(frs, w, who) => x \in Told
    BY <1>6, <2>1
  <2> HIDE DEF Told
  <2>5. x.word = w /\ x.who = who
    BY <2>1
  <2> QED
    BY <2>1, <2>2, <2>3, <2>4, <2>5
<1> QED
  BY <1>7, <1>8

LEMMA TurnCloseKeeps ==
  ASSUME Transcripts!Inv, Transcripts!CloseTurn PROVE Transcripts!Inv'
<1> DEFINE s == Transcripts!Sent
           m == Len(v5)
<1>1. /\ v1 \in BOOLEAN /\ v2 \in Nat /\ v3 \in Proc /\ v5 \in Seq(TextRec) /\ v4 \in Seq(TextRec)
      /\ v6 \subseteq [word : Nat, who : Nat] /\ v7 \in Seq(Nat) /\ v3.turn \in Nat
  BY TranscriptFacts
<1>2. /\ v5' = <<>> /\ UNCHANGED <<v1, v2, v4>>
      /\ \/ v3' = Took /\ UNCHANGED <<v6, v7>>
         \/ /\ v3' = [Took EXCEPT !.turn = Transcripts!ClosedTurn]
            /\ v7' = Append(v7, Transcripts!ClosedTurn) /\ v6' = v6 \cup Pairs(ToldNow)
  BY CloseIs
<1>3. s \in Seq(TextRec) /\ m \in Nat /\ Len(s) = m + Len(v4) /\ \A k \in 1..Len(v4) : v4[k] = s[m + k]
  <2>1. s = v5 \o v4
    BY DEF Transcripts!Sent
  <2>2. Joined(TextRec, v5, v4, v5 \o v4)
    BY <1>1, SeqJoined
  <2> QED
    BY <2>1, <2>2 DEF Joined
<1>4. Transcripts!Sent' = v4
  BY <1>1, <1>2 DEF Transcripts!Sent
<1>5. Took \in Proc /\ Took.fragments = <<>> /\ Took.turn = v3.turn /\ Took.lastFinal = v3.lastFinal /\ ~Took.cuttable
  <2> DEFINE empty == <<>>
  <2>1. empty \in Seq(RunsOf(Nat))
    OBVIOUS
  <2>2. Took = [v3 EXCEPT !.fragments = empty, !.cuttable = FALSE, !.previous = 0] /\ empty = <<>>
    BY DEF Took
  <2> HIDE DEF empty
  <2> QED
    BY <1>1, <2>1, <2>2, Zenon DEF Proc
<1>6. ASSUME NEW c \in Nat
      PROVE  /\ [Took EXCEPT !.turn = c] \in Proc /\ [Took EXCEPT !.turn = c].fragments = <<>>
             /\ [Took EXCEPT !.turn = c].turn = c
             /\ [Took EXCEPT !.turn = c].lastFinal = v3.lastFinal /\ ~[Took EXCEPT !.turn = c].cuttable
  <2> HIDE DEF s, m
  <2> QED
    BY <1>5, Zenon DEF Proc
<1>7. \A x \in v6' : /\ x \in [word : Nat, who : Nat] /\ x.word <= v2
                     /\ v1 => x \in Told \/ x.who = 0
  <2>1. v6' \subseteq v6 \cup Pairs(ToldNow)
    BY <1>2
  <2> QED
    BY <2>1, ToldAtClose
<1>8. /\ v3' \in Proc /\ v3'.fragments = <<>> /\ v3'.lastFinal = v3.lastFinal /\ ~v3'.cuttable
      /\ v7' \in Seq(Nat) /\ \A i, j \in 1..Len(v7') : i < j => v7'[i] < v7'[j]
      /\ \A i \in 1..Len(v7') : v7'[i] <= v3'.turn
  <2>1. CASE v3' = Took /\ UNCHANGED <<v6, v7>>
    <3>1. DOMAIN v7 = 1..Len(v7)
      BY <1>1
    <3>2. /\ \A i, j \in 1..Len(v7) : i < j => v7[i] < v7[j]
          /\ \A i \in 1..Len(v7) : v7[i] <= v3.turn
      BY <3>1, Zenon DEF Transcripts!Inv, Transcripts!ClosedInOrder
    <3> QED
      BY <1>1, <1>5, <2>1, <3>2
  <2>2. CASE v3' = [Took EXCEPT !.turn = Transcripts!ClosedTurn] /\ v7' = Append(v7, Transcripts!ClosedTurn)
    <3>1. /\ v7' \in Seq(Nat) /\ Transcripts!ClosedTurn \in Nat
          /\ \A i, j \in 1..Len(v7') : i < j => v7'[i] < v7'[j]
          /\ \A i \in 1..Len(v7') : v7'[i] <= Transcripts!ClosedTurn
      BY <2>2, ClosedOnce
    <3> QED
      BY <1>6, <2>2, <3>1
  <2> QED
    BY <1>2, <2>1, <2>2
<1>9. Told' = v6'
  BY <1>8 DEF Told, Transcripts!Told
<1>10. Spoken(v4, v6', v2)
  <2>1. Spoken(s, Told, v2)
    BY InvParts
  <2> HIDE DEF s, m
  <2> QED
    BY <1>1, <1>3, <1>7, <2>1, SpokenRest, Zenon
<1>11. v1 => Agree(v4, v6')
  <2>1. v1 => Agree(s, Told)
    BY InvParts
  <2> HIDE DEF s, m
  <2> QED
    BY <1>1, <1>3, <1>7, <2>1, AgreeRest, Zenon
<1>12. GluedRight(v4)
  <2>1. GluedRight(s)
    BY InvParts
  <2> HIDE DEF s, m
  <2> QED
    BY <1>1, <1>3, <2>1, GluedRest
<1>13. (v1 /\ v3.lastFinal # 0) => Transcripts!ReadIn(v4, Len(v4)) \in {v3.lastFinal, 0}
  <2>1. (v1 /\ v3.lastFinal # 0) => Transcripts!ReadIn(s, Len(s)) \in {v3.lastFinal, 0}
    BY InvParts
  <2> HIDE DEF s, m
  <2>2. Len(v4) \in 0..Len(v4)
    BY <1>1
  <2>3. Transcripts!ReadIn(v4, Len(v4)) \in {Transcripts!ReadIn(s, m + Len(v4)), 0}
    BY <1>1, <1>3, <2>2, ReadRest, Zenon
  <2> QED
    BY <1>3, <2>1, <2>3
<1> HIDE DEF s, m, Told
<1>14. v5' \in Seq(TextRec) /\ v4' \in Seq(TextRec) /\ v1' \in BOOLEAN /\ v2' \in Nat /\ v6' \subseteq [word : Nat, who : Nat]
  BY <1>1, <1>2, <1>7
<1>15. v1' = v1 /\ v2' = v2
  BY <1>2
<1> QED
  BY <1>4, <1>8, <1>9, <1>10, <1>11, <1>12, <1>13, <1>14, <1>15, InvOfParts

LEMMA TranscriptsStart ==
  ASSUME Transcripts!Init PROVE Transcripts!Inv
<1> DEFINE fresh == Transcripts!Fresh
           empty == <<>>
<1>1. /\ v1 \in BOOLEAN /\ v2 = 0 /\ v3 = fresh /\ v4 = empty /\ v5 = empty /\ v6 = {} /\ v7 = empty
  BY DEF Transcripts!Init
<1>2. /\ empty \in Seq(RunsOf(Nat)) /\ empty \in Seq(Tags) /\ empty \in Seq(TextRec) /\ empty \in Seq(Nat)
      /\ empty \o empty = empty /\ Len(empty) = 0 /\ DOMAIN empty = {}
  OBVIOUS
<1>3. /\ fresh = [turn |-> 0, primary |-> 0, last |-> 0, lastFinal |-> 0, hasFinal |-> FALSE,
                  fragments |-> empty, cuttable |-> FALSE, previous |-> 0, numbers |-> empty]
  BY DEF Transcripts!Fresh, Transcripts!Nobody
<1>8. empty = <<>>
  OBVIOUS
<1> HIDE DEF fresh, empty
<1>4. /\ fresh \in Proc /\ fresh.fragments = empty /\ ~fresh.cuttable /\ fresh.lastFinal = 0 /\ fresh.turn = 0
  BY <1>2, <1>3 DEF Proc
<1>5. Transcripts!Sent = empty
  BY <1>1, <1>2 DEF Transcripts!Sent
<1>6. Transcripts!Told = {}
  BY <1>1, <1>2, <1>4 DEF Transcripts!Told
<1>7. Transcripts!TypeOK
  BY <1>1, <1>2, <1>4 DEF Transcripts!TypeOK, Proc, TextRec, RunsOf, Transcripts!Runs
<1>9. Transcripts!NoWordBeforeSpoken /\ Transcripts!SentAgree
  BY <1>2, <1>5, <1>6 DEF Transcripts!NoWordBeforeSpoken, Transcripts!SentAgree
<1>10. Transcripts!LastPrefix /\ Transcripts!LastWordSent /\ Transcripts!LastOfTurn
  BY <1>1, <1>4, <1>8 DEF Transcripts!LastPrefix, Transcripts!LastWordSent, Transcripts!LastOfTurn, Transcripts!Nobody
<1>11. Transcripts!SentGlued /\ Transcripts!ClosedInOrder
  BY <1>1, <1>2, <1>5 DEF Transcripts!SentGlued, Transcripts!ClosedInOrder
<1> QED
  BY <1>7, <1>9, <1>10, <1>11 DEF Transcripts!Inv

LEMMA TranscriptsStep ==
  ASSUME Transcripts!Inv, Transcripts!Next PROVE Transcripts!Inv'
BY FinalResultKeeps, InterimKeeps, UserStartedKeeps, AggregateKeeps, TurnCloseKeeps DEF Transcripts!Next

\* The open message is the beginning of what was sent.
LEMMA TranscriptsSound ==
  ASSUME Transcripts!Inv PROVE Transcripts!TranscriptsAgree /\ Transcripts!FreshTurnIds
<1> DEFINE s == Transcripts!Sent
<1>1. /\ v4 \in Seq(TextRec) /\ v5 \in Seq(TextRec) /\ v7 \in Seq(Nat) /\ v3.turn \in Nat /\ s \in Seq(TextRec)
  BY TranscriptFacts
<1>2. Len(s) = Len(v5) + Len(v4) /\ Len(v5) \in Nat /\ Len(v4) \in Nat /\ \A i \in 1..Len(v5) : s[i] = v5[i]
  <2>1. s = v5 \o v4
    BY DEF Transcripts!Sent
  <2>2. Joined(TextRec, v5, v4, v5 \o v4)
    BY <1>1, SeqJoined
  <2> QED
    BY <2>1, <2>2 DEF Joined
<1>3. DOMAIN v5 = 1..Len(v5) /\ DOMAIN s = 1..Len(s) /\ DOMAIN v7 = 1..Len(v7) /\ Len(v7) \in Nat
  BY <1>1
<1>4. v1 => Agree(s, Told)
  BY InvParts
<1>5. GluedRight(s)
  BY InvParts
<1>6. /\ \A i, j \in 1..Len(v7) : i < j => v7[i] < v7[j]
      /\ \A i \in 1..Len(v7) : v3.fragments # <<>> => v7[i] < v3.turn
  BY <1>3, Zenon DEF Transcripts!Inv, Transcripts!ClosedInOrder
<1> HIDE DEF s
<1>7. ASSUME NEW i \in 1..Len(v5) PROVE Transcripts!ReadAs(i) = Transcripts!ReadIn(s, i)
  <2>1. i \in 0..Len(v5) /\ i <= Len(s) /\ \A k \in 1..i : k \in 1..Len(v5)
    BY <1>2
  <2>2. \A k \in 1..i : v5[k] = s[k]
    BY <1>2, <2>1
  <2> QED
    BY <1>1, <2>1, <2>2, ReadSame DEF Transcripts!ReadAs
<1>8. Transcripts!SpeakersAgree
  <2> SUFFICES ASSUME v1, NEW i \in 1..Len(v5), NEW x \in Told,
                      x.word \in Transcripts!Range(v5[i].words), Transcripts!ReadAs(i) # 0
               PROVE  x.who \in {Transcripts!ReadAs(i), 0}
    BY <1>3 DEF Transcripts!SpeakersAgree, Transcripts!Nobody, Told
  <2>1. i \in DOMAIN s /\ s[i] = v5[i]
    BY <1>2, <1>3
  <2> QED
    BY <1>4, <1>7, <2>1 DEF Agree
<1>9. Transcripts!OnlyCutWordsGlued
  <2> SUFFICES ASSUME NEW i \in 2..Len(v5), v5[i].glued
               PROVE  Transcripts!Last(v5[i-1].words) + 1 = Head(v5[i].words)
    BY DEF Transcripts!OnlyCutWordsGlued
  <2>1. i \in 2..Len(s) /\ s[i] = v5[i] /\ s[i - 1] = v5[i - 1]
    BY <1>2
  <2> QED
    BY <1>5, <2>1 DEF GluedRight
<1>10. Transcripts!FreshTurnIds
  <2>1. \A i \in 1..Len(v7) : v7[i] \in Nat
    BY <1>1
  <2>2. ASSUME NEW i \in 1..Len(v7), NEW j \in 1..Len(v7), v7[i] = v7[j] PROVE i = j
    <3>1. ~(i < j) /\ ~(j < i)
      BY <1>6, <2>1, <2>2
    <3>2. i \in Nat /\ j \in Nat
      BY <1>3
    <3> QED
      BY <3>1, <3>2
  <2>3. Transcripts!IsInjective(v7)
    BY <1>3, <2>2 DEF Transcripts!IsInjective
  <2>4. v3.fragments # <<>> => ~Transcripts!Contains(v7, v3.turn)
    BY <1>1, <1>6, <2>1 DEF Transcripts!Contains
  <2> QED
    BY <2>3, <2>4 DEF Transcripts!FreshTurnIds
<1> QED
  BY <1>8, <1>9, <1>10 DEF Transcripts!TranscriptsAgree

\* What the LLM reads under a speaker's name the browser shows as that speaker's or
\* as nobody's, a piece is written without a space only where it completes the word
\* spoken just before it, and no finalized turn reuses another's id: however finals,
\* cut words, turn starts and closes interleave with the queue to the aggregator.
THEOREM LabelsMeanTheSame == Spec => []TranscriptsAgree
<1> DEFINE Safe == component = "transcripts" => Transcripts!Inv
<1>1. Init => Safe
  BY TranscriptsStart DEF Init
<1>2. Safe /\ [Next]_vars => Safe'
  <2> SUFFICES ASSUME Safe, [Next]_vars, component' = "transcripts" PROVE Transcripts!Inv'
    OBVIOUS
  <2>1. CASE component = "transcripts" /\ Transcripts!Next
    BY <2>1, TranscriptsStep
  <2>2. CASE component = "transcripts" /\ UNCHANGED vars
    BY <2>2, StandKeeps DEF vars
  <2> QED
    BY <2>1, <2>2 DEF Next, vars
<1>3. Safe => TranscriptsAgree
  BY TranscriptsSound DEF TranscriptsAgree
<1> QED
  BY <1>1, <1>2, <1>3, PTL DEF Spec
===============================================================================
