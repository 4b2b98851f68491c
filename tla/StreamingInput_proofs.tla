----------------------- MODULE StreamingInput_proofs -----------------------
(***************************************************************************)
(* Proofs about StreamingInput: what the streaming-input server answers is *)
(* the prompt of the commit, and a tool call leaves a warm engine, for any *)
(* number of words, commits and engine requests.                           *)
(***************************************************************************)
EXTENDS StreamingInput, SequenceTheorems, FiniteSetTheorems, TLAPS

(***************************************************************************)
(* Prompts, and feeding a request.                                         *)
(***************************************************************************)
\* What a prompt lacks of a longer one, appended to it, makes the longer one.
LEMMA PrefixCompleted ==
  ASSUME NEW S, NEW s \in Seq(S), NEW t \in Seq(S), IsPrefix(s, t)
  PROVE  s \o SubSeq(t, Len(s) + 1, Len(t)) = t
<1>1. Len(s) \in 0..Len(t) /\ Len(t) \in Nat
  BY LenProperties DEF IsPrefix
<1>2. SubSeq(s, 1, Len(s)) = s /\ SubSeq(t, 1, Len(t)) = t
  BY SubSeqFull
<1>3. s = SubSeq(t, 1, Len(s))
  BY <1>2 DEF IsPrefix
<1>4. SubSeq(t, 1, Len(s)) \o SubSeq(t, Len(s) + 1, Len(t)) = SubSeq(t, 1, Len(t))
  <2> DEFINE l == Len(s)
             n == Len(t)
  <2>1. 1 \in 1..n + 1 /\ l \in 1 - 1..n /\ n \in l..n
    BY <1>1
  <2> HIDE DEF l, n
  <2>2. t \in Seq(S) /\ n = Len(t)
    BY DEF n
  <2>3. SubSeq(t, 1, l) \o SubSeq(t, l + 1, n) = SubSeq(t, 1, n)
    BY <2>1, <2>2, ConcatAdjacentSubSeq
  <2> QED  BY <2>3 DEF l, n
<1> QED  BY <1>2, <1>3, <1>4

\* A request that is fed a prompt it is a prefix of has been fed that prompt, and
\* is asked for the answer k; the first feed starts its run.
LEMMA FedThePrompt ==
  ASSUME NEW q \in RequestStates, NEW tokens \in Seq(Token), NEW k \in Nat,
         IsPrefix(q.fed, tokens)
  PROVE  /\ Feed(q, tokens, k) \in RequestStates
         /\ Feed(q, tokens, k).fed = tokens
         /\ Feed(q, tokens, k).next = k \/ (k = 0 /\ Feed(q, tokens, k) = q)
         /\ Feed(q, tokens, k).got = q.got /\ Feed(q, tokens, k).cur = q.cur
         /\ Feed(q, tokens, k).answered = q.answered /\ Feed(q, tokens, k).closed = q.closed
         /\ q.run # "free" \/ tokens # q.fed => Feed(q, tokens, k).run # "free"
<1> DEFINE delta == SubSeq(tokens, Len(q.fed) + 1, Len(tokens))
<1>1. q.fed \in Seq(Token)
  BY DEF RequestStates
<1>2. q.fed \o delta = tokens /\ (delta = <<>> => q.fed = tokens)
  <2>1. q.fed \o SubSeq(tokens, Len(q.fed) + 1, Len(tokens)) = tokens
    BY <1>1, PrefixCompleted
  <2>2. SubSeq(tokens, Len(q.fed) + 1, Len(tokens)) = <<>> => q.fed = tokens
    <3>1. q.fed \o <<>> = q.fed
      BY <1>1, ConcatEmptySeq
    <3> QED  BY <2>1, <3>1
  <2> QED  BY <2>1, <2>2 DEF delta
<1> HIDE DEF delta
<1>3. CASE delta = <<>> /\ k = 0
  <2>1. Feed(q, tokens, k) = q
    BY <1>3 DEF Feed, delta
  <2> QED  BY <1>2, <1>3, <2>1
<1>4. CASE ~(delta = <<>> /\ k = 0)
  <2>1. Feed(q, tokens, k) = [q EXCEPT !.fed = @ \o delta, !.next = k,
                                       !.run = IF @ = "free" THEN "running" ELSE @]
    BY <1>4 DEF Feed, delta
  <2>2. q.fed \o delta = tokens
    BY <1>2
  <2> QED  BY <2>1, <2>2 DEF RequestStates
<1> QED  BY <1>3, <1>4

\* A request nobody uses takes any prompt.
LEMMA FreeTakesAll ==
  /\ Free \in RequestStates
  /\ \A tokens \in Seq(Token) : IsPrefix(Free.fed, tokens)
<1>1. <<>> \in Seq(Token) /\ Len(<<>>) = 0
  BY EmptySeq
<1>2. \A t \in Seq(Token) : SubSeq(<<>>, 1, 0) = <<>> /\ SubSeq(t, 1, 0) = <<>> /\ Len(t) >= 0
  BY SubSeqEmpty, LenProperties
<1> QED  BY <1>1, <1>2 DEF Free, RequestStates, IsPrefix

LEMMA StoppedRequest ==
  ASSUME NEW q \in RequestStates
  PROVE  /\ Stop(q) \in RequestStates
         /\ Stop(q).run = q.run /\ Stop(q).fed = q.fed /\ Stop(q).got = q.got
         /\ Stop(q).next = q.next /\ Stop(q).cur = q.cur /\ Stop(q).answered = q.answered
  BY DEF Stop, RequestStates

(***************************************************************************)
(* Room for the requests that a handler makes.                             *)
(***************************************************************************)
LEMMA LeakedCounted ==
  ASSUME MaxRequests \in Nat, NEW S \in SUBSET Request
  PROVE  IsFiniteSet(S) /\ Cardinality(S) \in Nat /\ Cardinality(Request) = MaxRequests
<1>1. IsFiniteSet(Request) /\ Cardinality(Request) = MaxRequests
  BY FS_Interval DEF Request
<1>2. IsFiniteSet(S)
  BY <1>1, FS_Subset
<1> QED  BY <1>1, <1>2, FS_CardinalityType

\* Fewer leaked requests leave as much room.
LEMMA FewerLeaked ==
  ASSUME MaxRequests \in Nat, NEW T \in SUBSET Request, NEW S \in SUBSET T
  PROVE  Cardinality(S) <= Cardinality(T) /\ Cardinality(S) \in Nat /\ Cardinality(T) \in Nat
  BY LeakedCounted, FS_Subset

\* With two requests not leaked and one of them held, one is free.
LEMMA SlotFree ==
  ASSUME MaxRequests \in Nat, NEW S \in SUBSET Request, NEW x,
         Cardinality(S) <= MaxRequests - 2,
         \A r \in Request : req[r].run # "free" => r \in S \cup {x}
  PROVE  FreeSlot(req) \in Request /\ req[FreeSlot(req)].run = "free"
<1>1. IsFiniteSet(S) /\ Cardinality(S) \in Nat /\ Cardinality(Request) = MaxRequests
  BY LeakedCounted
<1>2. IsFiniteSet(S \cup {x}) /\ Cardinality(S \cup {x}) <= Cardinality(S) + 1
  BY <1>1, FS_AddElement
<1>3. ~(Request \subseteq S \cup {x})
  <2> SUFFICES ASSUME Request \subseteq S \cup {x} PROVE FALSE
    OBVIOUS
  <2>1. Cardinality(Request) <= Cardinality(S \cup {x})
    BY <1>2, FS_Subset
  <2>2. Cardinality(S \cup {x}) \in Nat
    BY <1>2, FS_CardinalityType
  <2> QED  BY <1>1, <1>2, <2>1, <2>2
<1>4. \E r \in Request : req[r].run = "free"
  BY <1>3
<1> QED  BY <1>4 DEF FreeSlot

(***************************************************************************)
(* Receiving an event.                                                     *)
(***************************************************************************)
LEMMA InvInit == Init => Inv
<1> SUFFICES ASSUME Init PROVE Inv
  OBVIOUS
<1> USE StreamingAssumption DEF Init, Idle, Quiet, None
<1>1. TypeOK
  <2>1. <<"system">> \in Seq(Token) /\ <<>> \in Seq(Token) /\ <<>> \in Seq(Words)
    BY EmptySeq, ElementOfSeq DEF Token
  <2>2. answers \in Seq([prompt : Seq(Token), said : Seq(Token)])
    BY EmptySeq
  <2>3. req \in [Request -> RequestStates]
    BY FreeTakesAll
  <2> QED  BY <2>1, <2>2, <2>3 DEF TypeOK
<1>2. MainHolds /\ ResponseHolds
  BY DEF MainHolds, ResponseHolds
<1>3. HeldInUse /\ FedItsPrompt
  BY DEF HeldInUse, FedItsPrompt, Held, Free
<1>4. WarmEngine
  <2>1. DOMAIN answers = {}
    BY EmptySeq
  <2> QED  BY <2>1 DEF WarmEngine
<1>5. RoomLeft
  BY DEF RoomLeft
<1> QED  BY <1>1, <1>2, <1>3, <1>4, <1>5 DEF Inv

\* An event that asks for a render: what is to be fed is not empty.
LEMMA EventReceived ==
  ASSUME Inv, Receiving, NEW e \in {"prefill", "commit"}, NEW t \in Seq(Token), t # <<>>,
         conversation' \in Seq(Token), text' \in Seq(Words),
         main' = [Idle EXCEPT !.at = "render", !.event = e, !.tokens = t],
         UNCHANGED <<engine, standby, resp, answers, req>>
  PROVE  Inv'
<1> USE DEF Inv, Idle, None
<1>1. main'.at = "render" /\ main'.event = e /\ main'.tokens = t /\ main'.stopping = 0
  OBVIOUS
<1>2. Held' = Held /\ Leaked' = Leaked
  BY <1>1 DEF Held, Leaked, Receiving, MainHolds
<1>3. TypeOK'
  <2>1. main' = [at |-> "render", event |-> e, tokens |-> t, stopping |-> 0]
    OBVIOUS
  <2> QED  BY <2>1 DEF TypeOK
<1>4. MainHolds' /\ ResponseHolds'
  BY <1>1 DEF MainHolds, ResponseHolds, Receiving
<1>5. HeldInUse' /\ FedItsPrompt' /\ WarmEngine'
  BY <1>2 DEF HeldInUse, FedItsPrompt, WarmEngine, Unasked
<1>6. RoomLeft'
  <2>1. Leaked \in SUBSET Request
    BY DEF Leaked
  <2>2. Cardinality(Leaked) \in Nat
    BY <2>1, LeakedCounted, StreamingAssumption
  <2> QED  BY <1>1, <1>2, <2>2, StreamingAssumption DEF RoomLeft, Receiving
<1> QED  BY <1>3, <1>4, <1>5, <1>6

\* An event that changes no more than the conversation or the text.
LEMMA EventKept ==
  ASSUME Inv, main' = Idle, main.at \in {"idle", "render"},
         conversation' \in Seq(Token), text' \in Seq(Words),
         UNCHANGED <<engine, standby, resp, answers, req>>
  PROVE  Inv'
<1> USE DEF Inv, Idle, None
<1>1. main'.at = "idle" /\ main'.event = "none" /\ main'.tokens = <<>> /\ main'.stopping = 0
  OBVIOUS
<1>2. Held' = Held /\ Leaked' = Leaked
  BY <1>1 DEF Held, Leaked, MainHolds
<1>3. TypeOK'
  BY <1>1, EmptySeq DEF TypeOK
<1>4. MainHolds' /\ ResponseHolds'
  BY <1>1 DEF MainHolds, ResponseHolds
<1>5. HeldInUse' /\ FedItsPrompt' /\ WarmEngine'
  BY <1>2 DEF HeldInUse, FedItsPrompt, WarmEngine, Unasked
<1>6. RoomLeft'
  BY <1>1, <1>2 DEF RoomLeft
<1> QED  BY <1>3, <1>4, <1>5, <1>6

\* What is heard, and the prompts made of it.
LEMMA PromptTypes ==
  ASSUME NEW conv \in Seq(Token), NEW words \in Seq(Words)
  PROVE  /\ HeardWords(words) \in Seq(Words)
         /\ PrefillPrompt(conv, words) \in Seq(Token)
         /\ HeardWords(words) # <<>> => PrefillPrompt(conv, words) # <<>>
         /\ CommitPrompt(conv, words) \in Seq(Token) /\ CommitPrompt(conv, words) # <<>>
<1>1. words \in Seq(Token)
  BY SeqMonotonic DEF Token
<1>2. HeardWords(words) \in Seq(Words)
  <2>1. CASE words = <<>>
    BY <2>1 DEF HeardWords
  <2>2. CASE words # <<>>
    <3>1. Len(words) \in Nat /\ \A i \in 1..Len(words) - 1 : words[i] \in Words
      BY ElementOfSeq, LenProperties
    <3>2. SubSeq(words, 1, Len(words) - 1) \in Seq(Words)
      BY <3>1, SubSeqProperties
    <3> QED  BY <2>2, <3>2 DEF HeardWords, Front
  <2> QED  BY <2>1, <2>2
<1>3. HeardWords(words) \in Seq(Token)
  BY <1>2, SeqMonotonic DEF Token
<1>4. /\ conv \o HeardWords(words) \in Seq(Token)
      /\ Len(conv \o HeardWords(words)) = Len(conv) + Len(HeardWords(words))
  BY <1>3, ConcatProperties
<1>5. HeardWords(words) # <<>> => conv \o HeardWords(words) # <<>>
  BY <1>3, <1>4, EmptySeq, LenProperties
<1>6. conv \o words \in Seq(Token) /\ <<"assistant">> \in Seq(Token)
  BY <1>1, ConcatProperties, ElementOfSeq DEF Token
<1>7. /\ conv \o words \o <<"assistant">> \in Seq(Token)
      /\ Len(conv \o words \o <<"assistant">>) = Len(conv \o words) + 1
  BY <1>6, ConcatProperties
<1>8. conv \o words \o <<"assistant">> # <<>>
  BY <1>6, <1>7, EmptySeq, LenProperties
<1> QED  BY <1>2, <1>4, <1>5, <1>7, <1>8 DEF PrefillPrompt, CommitPrompt

LEMMA PrefillKeepsInv ==
  ASSUME Inv, Receiving, NEW conv \in Seq(Token), NEW words \in Seq(Words),
         conversation' = conv, text' = words, Prefill(conv, words),
         UNCHANGED <<engine, standby, resp, answers, req>>
  PROVE  Inv'
<1>1. CASE HeardWords(words) = <<>>
  <2>1. main' = Idle /\ main.at = "idle"
    BY <1>1 DEF Prefill, Receiving
  <2> QED  BY <2>1, EventKept
<1>2. CASE HeardWords(words) # <<>>
  <2>1. PrefillPrompt(conv, words) \in Seq(Token) /\ PrefillPrompt(conv, words) # <<>>
    BY <1>2, PromptTypes
  <2>2. main' = [Idle EXCEPT !.at = "render", !.event = "prefill",
                             !.tokens = PrefillPrompt(conv, words)]
    BY <1>2 DEF Prefill
  <2> QED  BY <2>1, <2>2, EventReceived
<1> QED  BY <1>1, <1>2

LEMMA SessionUpdateKeepsInv == Inv /\ SessionUpdate => Inv'
<1> SUFFICES ASSUME Inv, SessionUpdate PROVE Inv'
  OBVIOUS
<1>1. PICK conv \in {<<"system">>} \cup FollowUps : conversation' = conv /\ Prefill(conv, text)
  BY DEF SessionUpdate
<1>2. conv \in Seq(Token)
  <2>1. CASE conv = <<"system">>
    BY <2>1, ElementOfSeq DEF Token
  <2>2. CASE conv \in FollowUps
    <3>1. answers # <<>> /\ conv = Append(Last(answers).said, "tool")
      BY <2>2 DEF FollowUps
    <3>2. answers \in Seq([prompt : Seq(Token), said : Seq(Token)])
      BY DEF Inv, TypeOK
    <3>3. Len(answers) \in Nat \ {0}
      BY <3>1, <3>2, EmptySeq, LenProperties
    <3>4. Len(answers) \in 1..Len(answers)
      BY <3>3
    <3>5. Last(answers) \in [prompt : Seq(Token), said : Seq(Token)]
      BY <3>2, <3>4, ElementOfSeq DEF Last
    <3>6. Last(answers).said \in Seq(Token) /\ "tool" \in Token
      BY <3>5 DEF Token
    <3> QED  BY <3>1, <3>6, AppendProperties
  <2> QED  BY <2>1, <2>2
<1>3. Receiving /\ text \in Seq(Words) /\ text' = text
  BY DEF SessionUpdate, Inv, TypeOK
<1> QED  BY <1>1, <1>2, <1>3, PrefillKeepsInv DEF SessionUpdate

LEMMA AppendTextKeepsInv == Inv /\ AppendText => Inv'
<1> SUFFICES ASSUME Inv, AppendText PROVE Inv'
  OBVIOUS
<1>1. PICK w \in Words : text' = Append(text, w) /\ Prefill(conversation, Append(text, w))
  BY DEF AppendText
<1>2. Append(text, w) \in Seq(Words) /\ conversation \in Seq(Token)
  BY AppendProperties DEF Inv, TypeOK
<1> QED  BY <1>1, <1>2, PrefillKeepsInv DEF AppendText

LEMMA ClearTextKeepsInv == Inv /\ ClearText => Inv'
<1> SUFFICES ASSUME Inv, ClearText PROVE Inv'
  OBVIOUS
<1>1. Held' = Held /\ Leaked' = Leaked
  BY DEF ClearText, Held, Leaked
<1>2. TypeOK'
  BY EmptySeq DEF ClearText, Inv, TypeOK
<1>3. MainHolds' /\ ResponseHolds'
  BY DEF ClearText, Inv, MainHolds, ResponseHolds
<1>4. HeldInUse' /\ FedItsPrompt' /\ WarmEngine' /\ RoomLeft'
  BY <1>1 DEF ClearText, Inv, HeldInUse, FedItsPrompt, WarmEngine, Unasked, RoomLeft
<1> QED  BY <1>2, <1>3, <1>4 DEF Inv

LEMMA CommitKeepsInv == Inv /\ Commit => Inv'
<1> SUFFICES ASSUME Inv, Commit PROVE Inv'
  OBVIOUS
<1> DEFINE t == CommitPrompt(conversation, text)
<1>1. t \in Seq(Token) /\ t # <<>>
  BY PromptTypes DEF Inv, TypeOK
<1>2. conversation \in Seq(Token) /\ text \in Seq(Words)
  BY DEF Inv, TypeOK
<1>3. main' = [Idle EXCEPT !.at = "render", !.event = "commit", !.tokens = t] /\ Receiving
  BY DEF Commit
<1>4. UNCHANGED <<conversation, text, engine, standby, resp, answers, req>>
  BY DEF Commit
<1> HIDE DEF t
<1> QED  BY <1>1, <1>2, <1>3, <1>4, EventReceived

LEMMA RenderFailsKeepsInv == Inv /\ RenderFails => Inv'
<1> SUFFICES ASSUME Inv, RenderFails PROVE Inv'
  OBVIOUS
<1>1. conversation \in Seq(Token) /\ text \in Seq(Words)
  BY DEF Inv, TypeOK
<1> QED  BY <1>1, EventKept DEF RenderFails

(***************************************************************************)
(* serve: what follows the event.                                          *)
(***************************************************************************)
Events == {"none", "prefill", "commit", "cancel", "disconnect"}

\* The end of _feed, on the engine, on the one just stopped or on a new request.
LEMMA FeedRequestKeepsInv ==
  ASSUME Inv, resp.at = "rest", NEW m, m.event \in {"prefill", "commit"},
         m.tokens \in Seq(Token), m.tokens # <<>>,
         NEW table \in [Request -> RequestStates], NEW r \in Request,
         \A x \in Request \ {r} : table[x] = req[x],
         table[r] = Free \/ (table[r] = req[r] /\ req[r].run # "free"),
         IsPrefix(table[r].fed, m.tokens),
         engine \in {None, r}, main.stopping \in {None, r},
         Cardinality(Leaked) <= MaxRequests - 2,
         FeedRequest(table, r, m), UNCHANGED <<conversation, standby>>
  PROVE  Inv'
<1> DEFINE k == IF m.event = "commit" THEN Len(answers) + 1 ELSE 0
           q == Feed(table[r], m.tokens, k)
<1> USE DEF None
<1>1. answers \in Seq([prompt : Seq(Token), said : Seq(Token)]) /\ Len(answers) \in Nat
  BY LenProperties DEF Inv, TypeOK
<1>2. k \in Nat
  BY <1>1
<1>3. /\ engine' = r
      /\ req' = [table EXCEPT ![r] = q]
      /\ main' = Idle
      /\ k = 0 => UNCHANGED <<text, answers, resp>>
      /\ k # 0 => /\ text' = <<>>
                  /\ answers' = Append(answers, [prompt |-> m.tokens, said |-> <<>>])
                  /\ resp' = [Quiet EXCEPT !.at = "stream", !.ans = k, !.outputs = "queued"]
  BY DEF FeedRequest
<1>4. /\ q \in RequestStates
      /\ q.fed = m.tokens
      /\ q.next = k \/ (k = 0 /\ q = table[r])
      /\ q.got = table[r].got /\ q.cur = table[r].cur
      /\ q.answered = table[r].answered
      /\ q.run # "free"
  <2>1. table[r] \in RequestStates
    OBVIOUS
  <2>2. table[r].run # "free" \/ m.tokens # table[r].fed
    BY DEF Free
  <2> HIDE DEF k
  <2> QED  BY <1>2, <2>1, <2>2, FedThePrompt
<1> DEFINE answer == [prompt |-> m.tokens, said |-> <<>>]
<1>5. answer \in [prompt : Seq(Token), said : Seq(Token)]
  BY EmptySeq
<1>6. k # 0 => /\ answers' \in Seq([prompt : Seq(Token), said : Seq(Token)])
               /\ DOMAIN answers' = 1..k /\ DOMAIN answers = 1..k - 1
               /\ \A a \in DOMAIN answers : answers'[a] = answers[a]
               /\ answers'[k] = answer
  <2> SUFFICES ASSUME k # 0 PROVE
          /\ answers' \in Seq([prompt : Seq(Token), said : Seq(Token)])
          /\ DOMAIN answers' = 1..k /\ DOMAIN answers = 1..k - 1
          /\ \A a \in DOMAIN answers : answers'[a] = answers[a]
          /\ answers'[k] = answer
    OBVIOUS
  <2> HIDE DEF answer
  <2>1. answers' = Append(answers, answer) /\ k = Len(answers) + 1
    BY <1>3 DEF answer
  <2>2. /\ answers' \in Seq([prompt : Seq(Token), said : Seq(Token)])
        /\ Len(answers') = Len(answers) + 1
        /\ \A i \in 1..Len(answers) : answers'[i] = answers[i]
        /\ answers'[Len(answers) + 1] = answer
    BY <1>1, <1>5, <2>1, AppendProperties
  <2>3. DOMAIN answers = 1..Len(answers) /\ DOMAIN answers' = 1..Len(answers')
    BY <1>1, <2>2, LenProperties
  <2> HIDE DEF k
  <2> QED  BY <1>1, <2>1, <2>2, <2>3
<1>7. /\ k = 0 => answers' = answers /\ resp' = resp /\ text' = text
      /\ \A x \in Request \ {r} : req'[x] = req[x]
      /\ req'[r] = q /\ req' \in [Request -> RequestStates]
      /\ main'.at = "idle" /\ main'.event = "none" /\ main'.stopping = 0
  BY <1>3, <1>4 DEF Idle
<1>8. k # 0 => /\ resp' = [at |-> "stream", ans |-> k, outputs |-> "queued", own |-> 0,
                           stopping |-> 0, aborting |-> FALSE, cancelled |-> FALSE]
               /\ text' = <<>>
  BY <1>3 DEF Quiet
<1>9. resp.own = 0 /\ resp.stopping = 0 /\ standby = 0 /\ standby' = 0 /\ ~resp.aborting
  BY DEF Inv, ResponseHolds
<1>10. Held' = {r, 0}
  <2>1. resp'.own = 0 /\ resp'.stopping = 0
    BY <1>7, <1>8, <1>9
  <2> HIDE DEF k
  <2> QED  BY <1>3, <1>7, <1>9, <2>1 DEF Held
<1>11. table[r].next # 0 \/ table[r].answered # 0 => table[r] = req[r]
  BY DEF Free
<1> HIDE DEF k, q, answer
<1>12. TypeOK'
  <2>1. main' \in [at : {"idle", "render", "cancel", "stop", "closed"}, event : Events,
                   tokens : Seq(Token), stopping : Request \cup {None}]
    BY <1>3, EmptySeq DEF Idle, Events
  <2>2. text' \in Seq(Words)
    BY <1>7, <1>8, EmptySeq DEF Inv, TypeOK
  <2>3. answers' \in Seq([prompt : Seq(Token), said : Seq(Token)])
    BY <1>1, <1>6, <1>7
  <2>4. CASE k = 0
    BY <1>3, <1>7, <1>9, <2>1, <2>2, <2>3, <2>4 DEF Inv, TypeOK, Events
  <2>5. CASE k # 0
    <3>1. resp' \in [at : {"rest", "stream", "render", "restart", "retire", "tidy", "finish"},
                     ans : Nat, outputs : {"none", "queued", "finished", "cut"},
                     own : Request \cup {None}, stopping : Request \cup {None},
                     aborting : BOOLEAN, cancelled : BOOLEAN]
      <4>1. resp' = [at |-> "stream", ans |-> k, outputs |-> "queued", own |-> 0,
                     stopping |-> 0, aborting |-> FALSE, cancelled |-> FALSE]
        BY <1>8, <2>5
      <4> QED  BY <1>2, <4>1
    <3> QED  BY <1>3, <1>7, <1>9, <2>1, <2>2, <2>3, <3>1 DEF Inv, TypeOK, Events
  <2> QED  BY <2>4, <2>5
<1>13. MainHolds'
  BY <1>7 DEF MainHolds
<1>14. ResponseHolds'
  <2>1. CASE k = 0
    BY <1>7, <1>9, <2>1 DEF Inv, ResponseHolds
  <2>2. CASE k # 0
    BY <1>2, <1>3, <1>6, <1>8, <1>9, <2>2 DEF ResponseHolds, Request
  <2> QED  BY <2>1, <2>2
<1>15. HeldInUse'
  BY <1>4, <1>7, <1>10 DEF Inv, HeldInUse
<1>16. FedItsPrompt'
  <2>1. \A a \in DOMAIN answers : a \in DOMAIN answers' /\ answers'[a] = answers[a]
    BY <1>2, <1>6, <1>7
  <2>2. \A x \in Request \ {r} :
          /\ req'[x].next # 0 =>
               req'[x].next \in DOMAIN answers' /\ req'[x].fed = answers'[req'[x].next].prompt
          /\ req'[x].answered # 0 =>
               /\ req'[x].answered \in DOMAIN answers'
               /\ req'[x].got = answers'[req'[x].answered].prompt
          /\ req'[x].cur \in {0, req'[x].answered}
    BY <1>7, <2>1 DEF Inv, FedItsPrompt
  <2>3. /\ q.next # 0 => q.next \in DOMAIN answers' /\ q.fed = answers'[q.next].prompt
        /\ q.answered # 0 =>
             q.answered \in DOMAIN answers' /\ q.got = answers'[q.answered].prompt
        /\ q.cur \in {0, q.answered}
    <3>1. CASE q.next = k /\ k # 0
      <4>1. q.next \in DOMAIN answers' /\ q.fed = answers'[q.next].prompt
        BY <1>2, <1>4, <1>6, <3>1 DEF answer
      <4>2. q.answered # 0 => q.answered \in DOMAIN answers' /\ q.got = answers'[q.answered].prompt
        BY <1>4, <1>11, <2>1 DEF Inv, FedItsPrompt
      <4>3. q.cur \in {0, q.answered}
        BY <1>4 DEF Inv, FedItsPrompt, Free
      <4> QED  BY <4>1, <4>2, <4>3
    <3>2. CASE q.next = 0 \/ q = table[r]
      <4>1. q.next # 0 => q.next \in DOMAIN answers' /\ q.fed = answers'[q.next].prompt
        BY <1>11, <2>1, <3>2 DEF Inv, FedItsPrompt
      <4>2. q.answered # 0 => q.answered \in DOMAIN answers' /\ q.got = answers'[q.answered].prompt
        BY <1>4, <1>11, <2>1 DEF Inv, FedItsPrompt
      <4>3. q.cur \in {0, q.answered}
        BY <1>4 DEF Inv, FedItsPrompt, Free
      <4> QED  BY <4>1, <4>2, <4>3
    <3> QED  BY <1>4, <3>1, <3>2
  <2> QED  BY <1>7, <2>2, <2>3 DEF FedItsPrompt
<1>17. WarmEngine'
  <2>1. CASE k = 0
    BY <1>7, <1>9, <2>1 DEF Inv, WarmEngine
  <2>2. CASE k # 0
    <3>1. \A a \in DOMAIN answers' : answers'[a].prompt # <<>>
      <4>1. answers'[k].prompt # <<>>
        BY <1>6, <2>2 DEF answer
      <4>2. \A a \in DOMAIN answers : answers'[a].prompt # <<>>
        BY <1>6, <2>2 DEF Inv, WarmEngine
      <4> QED  BY <1>2, <1>6, <2>2, <4>1, <4>2
    <3>2. resp'.at = "stream" /\ resp'.ans = k /\ resp'.own = 0
      BY <1>8, <2>2
    <3>3. answers'[k].said = <<>>
      BY <1>6, <2>2 DEF answer
    <3> QED  BY <1>9, <3>1, <3>2, <3>3 DEF WarmEngine
  <2> QED  BY <2>1, <2>2
<1>18. RoomLeft'
  <2>1. Leaked' \in SUBSET Leaked
    BY <1>7, <1>9, <1>10 DEF Leaked, Held
  <2>2. Leaked \in SUBSET Request
    BY DEF Leaked
  <2>3. Cardinality(Leaked') <= Cardinality(Leaked)
    BY <2>1, <2>2, FewerLeaked, StreamingAssumption
  <2>4. Cardinality(Leaked') \in Nat /\ Cardinality(Leaked) \in Nat
    BY <2>1, <2>2, FewerLeaked, StreamingAssumption
  <2>5. Cardinality(Leaked') <= MaxRequests - 2
    BY <2>3, <2>4, StreamingAssumption
  <2> QED  BY <1>7, <2>5 DEF RoomLeft
<1> QED  BY <1>12, <1>13, <1>14, <1>15, <1>16, <1>17, <1>18 DEF Inv

\* stop() on the engine: serve holds it until the run is over.
LEMMA StopEngineKeepsInv ==
  ASSUME Inv, resp.at = "rest", engine # None, NEW m,
         m \in [at : {"render", "cancel", "idle"}, event : Events,
                tokens : Seq(Token), stopping : Request \cup {None}],
         m.event \in {"prefill", "commit"} =>
           m.tokens # <<>> /\ Cardinality(Leaked) <= MaxRequests - 2,
         StopEngine(m), UNCHANGED <<conversation, standby>>
  PROVE  Inv'
<1> USE DEF None
<1>1. /\ resp.own = 0 /\ resp.stopping = 0 /\ standby = 0 /\ standby' = 0 /\ ~resp.aborting
      /\ main.stopping = 0
  BY DEF Inv, ResponseHolds, MainHolds
<1>2. engine \in Request /\ engine' = 0 /\ req[engine] \in RequestStates
  BY DEF Inv, TypeOK, StopEngine
<1>3. /\ main'.at = "stop" /\ main'.stopping = engine
      /\ main'.event = m.event /\ main'.tokens = m.tokens
      /\ main' \in [at : {"idle", "render", "cancel", "stop", "closed"}, event : Events,
                    tokens : Seq(Token), stopping : Request \cup {None}]
  BY <1>2 DEF StopEngine
<1>4. /\ req' = [req EXCEPT ![engine] = Stop(req[engine])]
      /\ text' = text /\ answers' = answers /\ resp' = resp
  BY DEF StopEngine
<1>5. /\ req' \in [Request -> RequestStates]
      /\ \A x \in Request : req'[x].run = req[x].run /\ req'[x].fed = req[x].fed
           /\ req'[x].got = req[x].got /\ req'[x].next = req[x].next
           /\ req'[x].cur = req[x].cur /\ req'[x].answered = req[x].answered
      /\ \A x \in Request \ {engine} : req'[x] = req[x]
  BY <1>2, <1>4, StoppedRequest DEF Inv, TypeOK
<1>6. Held' = {engine, 0} /\ Held = {engine, 0}
  BY <1>1, <1>2, <1>3, <1>4 DEF Held
<1>7. TypeOK'
  BY <1>1, <1>2, <1>3, <1>4, <1>5 DEF Inv, TypeOK, Events
<1>8. MainHolds'
  BY <1>2, <1>3, <1>4 DEF Inv, MainHolds
<1>9. ResponseHolds'
  BY <1>1, <1>4 DEF Inv, ResponseHolds
<1>10. HeldInUse'
  BY <1>2, <1>5, <1>6 DEF Inv, HeldInUse
<1>11. FedItsPrompt'
  BY <1>4, <1>5 DEF Inv, FedItsPrompt
<1>12. WarmEngine'
  BY <1>1, <1>4 DEF Inv, WarmEngine
<1>13. RoomLeft'
  <2>1. Leaked' = Leaked
    BY <1>5, <1>6 DEF Leaked
  <2>2. Cardinality(Leaked) \in Nat
    BY LeakedCounted, StreamingAssumption DEF Leaked
  <2> QED  BY <1>3, <1>4, <2>1, <2>2, StreamingAssumption DEF RoomLeft
<1> QED  BY <1>7, <1>8, <1>9, <1>10, <1>11, <1>12, <1>13 DEF Inv

\* From _cancel_response on, whatever the event was.
LEMMA CancelThenProceedKeepsInv ==
  ASSUME Inv, NEW m,
         m \in [at : {"render", "idle"}, event : Events, tokens : Seq(Token), stopping : {None}],
         main.at \in {"render", "idle"},
         m.event \in {"prefill", "commit"} =>
           m.tokens # <<>> /\ m = main /\ main.at = "render",
         CancelThenProceed(m)
  PROVE  Inv'
<1> USE DEF None
<1>1. UNCHANGED <<conversation, standby>> /\ main.stopping = 0
  BY DEF CancelThenProceed, Inv, MainHolds
<1>2. m \in [at : {"render", "cancel", "idle"}, event : Events,
             tokens : Seq(Token), stopping : Request \cup {None}]
  OBVIOUS
<1>3. CASE resp.at = "rest"
  <2>1. Proceed(m)
    BY <1>3 DEF CancelThenProceed
  <2>2. m.event \in {"prefill", "commit"} => Cardinality(Leaked) <= MaxRequests - 2
    <3>1. Cardinality(Leaked) \in Nat
      BY LeakedCounted, StreamingAssumption DEF Leaked
    <3> QED  BY <1>3, <3>1, StreamingAssumption DEF Inv, RoomLeft
  <2>3. req \in [Request -> RequestStates] /\ engine \in Request \cup {0}
    BY DEF Inv, TypeOK
  <2>4. CASE engine # 0 /\ StopEngine(m)
    BY <1>1, <1>2, <1>3, <2>2, <2>4, StopEngineKeepsInv
  <2>5. CASE m.event \in {"prefill", "commit"} /\ engine = 0 /\ FeedRequest(req, FreeSlot(req), m)
    <3>1. \A r \in Request : req[r].run # "free" => r \in Leaked \cup {0}
      BY <1>1, <1>3, <2>5 DEF Inv, ResponseHolds, Leaked, Held
    <3>2. FreeSlot(req) \in Request /\ req[FreeSlot(req)].run = "free"
      BY <2>2, <2>5, <3>1, SlotFree, StreamingAssumption DEF Leaked
    <3>3. req[FreeSlot(req)] = Free
      BY <3>2 DEF Inv, HeldInUse
    <3> DEFINE r == FreeSlot(req)
    <3>4. r \in Request /\ req[r] = Free /\ FeedRequest(req, r, m)
      BY <2>5, <3>2, <3>3
    <3> HIDE DEF r
    <3>5. IsPrefix(req[r].fed, m.tokens)
      BY <3>4, FreeTakesAll
    <3> QED  BY <1>1, <1>3, <2>2, <2>3, <2>5, <3>4, <3>5, FeedRequestKeepsInv
  <2>6. CASE m.event \in {"prefill", "commit"} /\ engine # 0 /\ Extends(req[engine], m.tokens)
             /\ FeedRequest(req, engine, m)
    <3>1. req[engine].run # "free" /\ engine \in Request
      BY <2>3, <2>6 DEF Inv, HeldInUse, Held
    <3>2. IsPrefix(req[engine].fed, m.tokens)
      BY <2>6 DEF Extends
    <3> QED  BY <1>1, <1>3, <2>2, <2>3, <2>6, <3>1, <3>2, FeedRequestKeepsInv
  <2>7. CASE main' \in {Idle, [Idle EXCEPT !.at = "closed"]}
             /\ UNCHANGED <<text, engine, resp, answers, req>>
    <3>1. /\ main'.at \in {"idle", "closed"} /\ main'.event = "none" /\ main'.stopping = 0
          /\ main' \in [at : {"idle", "closed"}, event : {"none"}, tokens : {<<>>}, stopping : {0}]
      BY <2>7 DEF Idle
    <3>2. Held' = Held /\ Leaked' = Leaked
      BY <1>1, <2>7, <3>1 DEF Held, Leaked
    <3>3. TypeOK'
      <4>1. <<>> \in Seq(Token)
        BY EmptySeq
      <4>2. main' \in [at : {"idle", "render", "cancel", "stop", "closed"}, event : Events,
                       tokens : Seq(Token), stopping : Request \cup {None}]
        BY <3>1, <4>1 DEF Events
      <4> QED  BY <1>1, <2>7, <4>2 DEF Inv, TypeOK, Events
    <3>4. MainHolds' /\ ResponseHolds'
      BY <1>1, <1>3, <2>7, <3>1 DEF Inv, MainHolds, ResponseHolds
    <3>5. HeldInUse' /\ FedItsPrompt' /\ WarmEngine'
      BY <1>1, <2>7, <3>2 DEF Inv, HeldInUse, FedItsPrompt, WarmEngine, Unasked
    <3>6. RoomLeft'
      BY <1>3, <2>7, <3>1 DEF RoomLeft
    <3> QED  BY <3>3, <3>4, <3>5, <3>6 DEF Inv
  <2> QED  BY <2>1, <2>4, <2>5, <2>6, <2>7 DEF Proceed
<1>4. CASE resp.at # "rest"
  <2>1. /\ resp' = [resp EXCEPT !.cancelled = TRUE]
        /\ main' = [m EXCEPT !.at = "cancel"]
        /\ UNCHANGED <<text, engine, answers, req>>
    BY <1>4 DEF CancelThenProceed
  <2>2. /\ resp'.at = resp.at /\ resp'.own = resp.own /\ resp'.stopping = resp.stopping
        /\ resp'.ans = resp.ans /\ resp'.aborting = resp.aborting
    BY <2>1 DEF Inv, TypeOK
  <2>3. main'.at = "cancel" /\ main'.event = m.event /\ main'.tokens = m.tokens /\ main'.stopping = 0
    BY <2>1
  <2>4. Held' = Held /\ Leaked' = Leaked
    BY <1>1, <2>1, <2>2, <2>3 DEF Held, Leaked
  <2>5. TypeOK'
    BY <1>1, <2>1 DEF Inv, TypeOK, Events
  <2>6. MainHolds' /\ ResponseHolds'
    BY <1>1, <1>4, <2>1, <2>2, <2>3 DEF Inv, MainHolds, ResponseHolds
  <2>7. HeldInUse' /\ FedItsPrompt' /\ WarmEngine'
    BY <1>1, <2>1, <2>2, <2>4 DEF Inv, HeldInUse, FedItsPrompt, WarmEngine, Unasked
  <2>8. RoomLeft'
    <3>1. main'.event \in {"prefill", "commit"} => m = main /\ main.at = "render"
      BY <2>3
    <3> QED  BY <2>2, <2>3, <2>4, <3>1 DEF Inv, RoomLeft
  <2> QED  BY <2>5, <2>6, <2>7, <2>8 DEF Inv
<1> QED  BY <1>3, <1>4

LEMMA RenderReturnsKeepsInv == Inv /\ RenderReturns => Inv'
<1> SUFFICES ASSUME Inv, RenderReturns PROVE Inv'
  OBVIOUS
<1>1. main.at = "render" /\ CancelThenProceed(main)
  BY DEF RenderReturns
<1>2. main.event \in {"prefill", "commit"} /\ main.tokens # <<>> /\ main.stopping = None
  BY <1>1 DEF Inv, MainHolds
<1>3. main \in [at : {"render", "idle"}, event : Events, tokens : Seq(Token), stopping : {None}]
  BY <1>1, <1>2 DEF Inv, TypeOK, Events
<1> QED  BY <1>1, <1>2, <1>3, CancelThenProceedKeepsInv

LEMMA CancelKeepsInv == Inv /\ Cancel => Inv'
<1> SUFFICES ASSUME Inv, Cancel PROVE Inv'
  OBVIOUS
<1> DEFINE m == [Idle EXCEPT !.event = "cancel"]
<1>1. main.at = "idle" /\ CancelThenProceed(m) /\ m.event = "cancel"
  BY DEF Cancel, Receiving, Idle
<1>2. m \in [at : {"render", "idle"}, event : Events, tokens : Seq(Token), stopping : {None}]
  BY EmptySeq DEF Idle, Events
<1> HIDE DEF m
<1> QED  BY <1>1, <1>2, CancelThenProceedKeepsInv

LEMMA DisconnectKeepsInv == Inv /\ Disconnect => Inv'
<1> SUFFICES ASSUME Inv, Disconnect PROVE Inv'
  OBVIOUS
<1> DEFINE m == [Idle EXCEPT !.event = "disconnect"]
<1>1. main.at = "idle" /\ CancelThenProceed(m) /\ m.event = "disconnect"
  BY DEF Disconnect, Idle
<1>2. m \in [at : {"render", "idle"}, event : Events, tokens : Seq(Token), stopping : {None}]
  BY EmptySeq DEF Idle, Events
<1> HIDE DEF m
<1> QED  BY <1>1, <1>2, CancelThenProceedKeepsInv

LEMMA ResponseCancelledKeepsInv == Inv /\ ResponseCancelled => Inv'
<1> SUFFICES ASSUME Inv, ResponseCancelled PROVE Inv'
  OBVIOUS
<1>1. main.at = "cancel" /\ resp.at = "rest" /\ StopEngine(main) /\ UNCHANGED <<conversation, standby>>
  BY DEF ResponseCancelled
<1>2. engine # None
  BY <1>1 DEF Inv, MainHolds
<1>3. main \in [at : {"render", "cancel", "idle"}, event : Events,
                tokens : Seq(Token), stopping : Request \cup {None}]
  BY <1>1 DEF Inv, TypeOK, Events
<1>4. main.event \in {"prefill", "commit"} =>
        main.tokens # <<>> /\ Cardinality(Leaked) <= MaxRequests - 2
  <2>1. Cardinality(Leaked) \in Nat
    BY LeakedCounted, StreamingAssumption DEF Leaked
  <2> QED  BY <1>1, <2>1, StreamingAssumption DEF Inv, MainHolds, RoomLeft
<1> QED  BY <1>1, <1>2, <1>3, <1>4, StopEngineKeepsInv

LEMMA MainStoppedKeepsInv == Inv /\ MainStopped => Inv'
<1> SUFFICES ASSUME Inv, MainStopped PROVE Inv'
  OBVIOUS
<1> DEFINE r == main.stopping
           table == [req EXCEPT ![r] = Free]
<1> USE DEF None
<1>1. main.at = "stop" /\ UNCHANGED <<conversation, standby>>
  BY DEF MainStopped
<1>2. r \in Request /\ resp.at = "rest" /\ engine = 0
  BY <1>1 DEF Inv, TypeOK, MainHolds
<1>3. /\ table \in [Request -> RequestStates] /\ table[r] = Free
      /\ \A x \in Request \ {r} : table[x] = req[x]
  BY <1>2, FreeTakesAll DEF Inv, TypeOK
<1>4. /\ resp.own = 0 /\ resp.stopping = 0 /\ standby = 0 /\ ~resp.aborting
  BY <1>1, <1>2 DEF Inv, ResponseHolds
<1>5. CASE main.event \in {"prefill", "commit"} /\ FeedRequest(table, r, main)
  <2>1. Cardinality(Leaked) \in Nat
    BY LeakedCounted, StreamingAssumption DEF Leaked
  <2>2. /\ main.tokens # <<>> /\ Cardinality(Leaked) <= MaxRequests - 2
        /\ main.tokens \in Seq(Token)
    BY <1>1, <1>2, <1>5, <2>1, StreamingAssumption DEF Inv, TypeOK, MainHolds, RoomLeft
  <2>3. IsPrefix(table[r].fed, main.tokens)
    BY <1>3, <2>2, FreeTakesAll
  <2>4. engine \in {None, r} /\ main.stopping \in {None, r}
    BY <1>2
  <2> HIDE DEF r, table
  <2> QED  BY <1>1, <1>2, <1>3, <1>5, <2>2, <2>3, <2>4, FeedRequestKeepsInv
<1>6. CASE main' \in {Idle, [Idle EXCEPT !.at = "closed"]} /\ req' = table
           /\ UNCHANGED <<text, engine, answers, resp>>
  <2>1. /\ main'.at \in {"idle", "closed"} /\ main'.event = "none" /\ main'.stopping = 0
        /\ main'.tokens = <<>>
        /\ main' \in [at : {"idle", "closed"}, event : {"none"}, tokens : {<<>>}, stopping : {0}]
    BY <1>6 DEF Idle
  <2>2. Held' = {0}
    BY <1>1, <1>2, <1>4, <1>6, <2>1 DEF Held
  <2>3. TypeOK'
    <3>1. <<>> \in Seq(Token)
      BY EmptySeq
    <3>2. main' \in [at : {"idle", "render", "cancel", "stop", "closed"}, event : Events,
                     tokens : Seq(Token), stopping : Request \cup {None}]
      BY <2>1, <3>1 DEF Events
    <3> QED  BY <1>1, <1>3, <1>6, <3>2 DEF Inv, TypeOK, Events
  <2>4. MainHolds' /\ ResponseHolds'
    BY <1>1, <1>2, <1>6, <2>1 DEF Inv, MainHolds, ResponseHolds
  <2>5. HeldInUse'
    BY <1>3, <1>6, <2>2 DEF Inv, HeldInUse
  <2>6. FedItsPrompt'
    <3>1. \A x \in Request : req'[x] = req[x] \/ req'[x] = Free
      BY <1>3, <1>6
    <3> QED  BY <1>6, <3>1 DEF Inv, FedItsPrompt, Free
  <2>7. WarmEngine'
    BY <1>1, <1>2, <1>4, <1>6 DEF Inv, WarmEngine
  <2>8. RoomLeft'
    BY <1>2, <1>6, <2>1 DEF RoomLeft
  <2> QED  BY <2>3, <2>4, <2>5, <2>6, <2>7, <2>8 DEF Inv
<1> QED  BY <1>5, <1>6 DEF MainStopped

(***************************************************************************)
(* _respond.                                                               *)
(***************************************************************************)
\* The finally of _respond: a standby is stopped; the one that was a local
\* variable leaks, and there is room for it.
LEMMA TidyKeepsInv ==
  ASSUME Inv, resp.at \in {"stream", "render", "finish"}, Tidy,
         UNCHANGED <<conversation, text, engine, main, answers>>
  PROVE  Inv'
<1> USE DEF None
<1>1. /\ resp.stopping = 0 /\ ~resp.aborting /\ engine # 0 /\ engine # standby
      /\ resp.ans \in DOMAIN answers /\ (resp.own # 0 <=> resp.at = "render")
      /\ main.stopping = 0 /\ main.at # "stop" /\ standby' = 0
      /\ (standby # 0 => resp.at # "render")
  BY DEF Inv, ResponseHolds, MainHolds, Tidy
<1>2. standby \in Request \cup {0} /\ resp.own \in Request \cup {0} /\ engine \in Request
  BY <1>1 DEF Inv, TypeOK
<1>3. CASE standby = 0
  <2>1. resp' = Quiet /\ req' = req
    BY <1>3 DEF Tidy
  <2>2. resp'.at = "rest" /\ resp'.own = 0 /\ resp'.stopping = 0 /\ resp'.ans = 0
        /\ resp'.aborting = FALSE /\ resp'.cancelled = FALSE
    BY <2>1 DEF Quiet
  <2>3. Held' = {engine, 0} /\ Held = {engine, resp.own, 0}
    BY <1>1, <1>3, <2>2 DEF Held
  <2>4. TypeOK'
    BY <1>1, <2>1 DEF Inv, TypeOK, Quiet
  <2>5. MainHolds' /\ ResponseHolds'
    BY <1>1, <2>2 DEF Inv, MainHolds, ResponseHolds
  <2>6. HeldInUse' /\ FedItsPrompt'
    BY <2>1, <2>3 DEF Inv, HeldInUse, FedItsPrompt
  <2>7. WarmEngine'
    BY <1>1, <2>2 DEF Inv, WarmEngine
  <2>8. RoomLeft'
    <3>1. Leaked \in SUBSET Request /\ Leaked' \in SUBSET Request
      BY DEF Leaked
    <3>2. Cardinality(Leaked) \in Nat /\ IsFiniteSet(Leaked) /\ Cardinality(Leaked') \in Nat
      BY <3>1, LeakedCounted, StreamingAssumption
    <3>3. Leaked' \subseteq Leaked \cup {resp.own}
      BY <2>1, <2>3 DEF Leaked
    <3>4. CASE resp.at = "render"
      <4>1. IsFiniteSet(Leaked \cup {resp.own})
            /\ Cardinality(Leaked \cup {resp.own}) <= Cardinality(Leaked) + 1
        BY <3>2, FS_AddElement
      <4>2. Cardinality(Leaked') <= Cardinality(Leaked \cup {resp.own})
            /\ Cardinality(Leaked \cup {resp.own}) \in Nat
        BY <3>3, <4>1, FS_Subset, FS_CardinalityType
      <4>3. Cardinality(Leaked') <= Cardinality(Leaked) + 1
        BY <3>2, <4>1, <4>2
      <4> QED  BY <2>2, <3>2, <3>4, <4>3, StreamingAssumption DEF Inv, RoomLeft
    <3>5. CASE resp.at # "render"
      <4>1. Leaked' \in SUBSET Leaked
        BY <1>1, <2>1, <2>3, <3>5 DEF Leaked
      <4>2. Cardinality(Leaked') <= Cardinality(Leaked)
        BY <3>1, <4>1, FewerLeaked, StreamingAssumption
      <4> QED  BY <2>2, <3>2, <4>2, StreamingAssumption DEF Inv, RoomLeft
    <3> QED  BY <3>4, <3>5
  <2> QED  BY <2>4, <2>5, <2>6, <2>7, <2>8 DEF Inv
<1>4. CASE standby # 0
  <2>1. /\ resp' = [resp EXCEPT !.at = "tidy", !.outputs = "none", !.own = 0,
                                !.stopping = standby, !.aborting = FALSE, !.cancelled = FALSE]
        /\ req' = [req EXCEPT ![standby] = Stop(req[standby])]
    BY <1>4 DEF Tidy
  <2>2. resp'.at = "tidy" /\ resp'.own = 0 /\ resp'.stopping = standby /\ resp'.ans = resp.ans
        /\ resp'.aborting = FALSE
    BY <2>1 DEF Inv, TypeOK
  <2>3. /\ req' \in [Request -> RequestStates]
        /\ \A x \in Request : req'[x].run = req[x].run /\ req'[x].fed = req[x].fed
             /\ req'[x].got = req[x].got /\ req'[x].next = req[x].next
             /\ req'[x].cur = req[x].cur /\ req'[x].answered = req[x].answered
        /\ \A x \in Request \ {standby} : req'[x] = req[x]
    BY <1>2, <1>4, <2>1, StoppedRequest DEF Inv, TypeOK
  <2>4. Held' = {engine, standby, 0} /\ Held = {engine, standby, 0}
    BY <1>1, <1>4, <2>2 DEF Held
  <2>5. TypeOK'
    BY <1>1, <1>2, <2>1, <2>3 DEF Inv, TypeOK
  <2>6. MainHolds' /\ ResponseHolds'
    BY <1>1, <1>4, <2>2 DEF Inv, MainHolds, ResponseHolds
  <2>7. HeldInUse' /\ FedItsPrompt'
    <3>1. HeldInUse'
      BY <1>2, <1>4, <2>3, <2>4 DEF Inv, HeldInUse
    <3>2. FedItsPrompt'
      BY <2>3 DEF Inv, FedItsPrompt
    <3> QED  BY <3>1, <3>2
  <2>8. WarmEngine'
    BY <1>1, <2>2 DEF Inv, WarmEngine
  <2>9. RoomLeft'
    <3>1. Leaked' = Leaked
      BY <2>3, <2>4 DEF Leaked
    <3>2. Cardinality(Leaked) \in Nat
      BY LeakedCounted, StreamingAssumption DEF Leaked
    <3> QED  BY <2>2, <3>1, <3>2, StreamingAssumption DEF Inv, RoomLeft
  <2> QED  BY <2>5, <2>6, <2>7, <2>8, <2>9 DEF Inv
<1> QED  BY <1>3, <1>4

LEMMA StreamFailsKeepsInv == Inv /\ StreamFails => Inv'
  BY TidyKeepsInv DEF StreamFails, Responding

LEMMA CallRenderFailsKeepsInv == Inv /\ CallRenderFails => Inv'
  BY TidyKeepsInv DEF CallRenderFails, Responding

LEMMA DoneKeepsInv == Inv /\ Done => Inv'
  BY TidyKeepsInv DEF Done, Responding

\* The standby there is, or a new one, fed the prompt of the answer.
LEMMA StandbyMade ==
  ASSUME Inv, resp.at = "stream"
  PROVE  /\ WithStandby.id \in Request \ {engine}
         /\ WithStandby.table \in [Request -> RequestStates]
         /\ \A x \in Request \ {WithStandby.id} : WithStandby.table[x] = req[x]
         /\ WithStandby.table[WithStandby.id].run # "free"
         /\ WithStandby.table[WithStandby.id].next = 0
         /\ WithStandby.table[WithStandby.id].answered = 0
         /\ WithStandby.table[WithStandby.id].cur = 0
         /\ standby # None => WithStandby.id = standby
<1> USE DEF None
<1>1. /\ resp.stopping = 0 /\ resp.own = 0 /\ ~resp.aborting /\ engine # 0 /\ engine # standby
      /\ resp.ans \in DOMAIN answers /\ main.stopping = 0 /\ main.at # "stop"
  BY DEF Inv, ResponseHolds, MainHolds
<1>2. /\ standby \in Request \cup {0} /\ engine \in Request /\ req \in [Request -> RequestStates]
      /\ answers \in Seq([prompt : Seq(Token), said : Seq(Token)])
  BY <1>1 DEF Inv, TypeOK
<1>3. CASE standby # 0
  <2>1. WithStandby = [id |-> standby, table |-> req]
    BY <1>3 DEF WithStandby
  <2>2. req[standby].run # "free" /\ Unasked(standby) /\ req[standby].cur = 0
    BY <1>2, <1>3 DEF Inv, HeldInUse, Held, WarmEngine, FedItsPrompt, Unasked
  <2> QED  BY <1>1, <1>2, <1>3, <2>1, <2>2 DEF Unasked
<1>4. CASE standby = 0
  <2> DEFINE r == FreeSlot(req)
             prompt == answers[resp.ans].prompt
  <2>1. r \in Request /\ req[r].run = "free"
    <3>1. \A x \in Request : req[x].run # "free" => x \in Leaked \cup {engine}
      <4>1. Held = {engine, 0} /\ 0 \notin Request
        BY <1>1, <1>4 DEF Held, Request
      <4> QED  BY <4>1 DEF Leaked
    <3>2. Cardinality(Leaked) <= MaxRequests - 2
      BY DEF Inv, RoomLeft
    <3> QED  BY <3>1, <3>2, SlotFree, StreamingAssumption DEF Leaked
  <2>2. req[r] = Free
    BY <2>1 DEF Inv, HeldInUse
  <2>3. prompt \in Seq(Token) /\ prompt # <<>>
    <3>1. answers[resp.ans] \in [prompt : Seq(Token), said : Seq(Token)]
      BY <1>1, <1>2, ElementOfSeq, LenProperties
    <3>2. answers[resp.ans].prompt # <<>>
      BY <1>1 DEF Inv, WarmEngine
    <3> QED  BY <3>1, <3>2
  <2>4. r # engine
    BY <1>1, <1>2, <2>1 DEF Inv, HeldInUse, Held
  <2>5. WithStandby = [id |-> r, table |-> [req EXCEPT ![r] = Feed(Free, prompt, 0)]]
    BY <1>4, <2>2 DEF WithStandby
  <2> HIDE DEF r, prompt
  <2>6. /\ Feed(Free, prompt, 0) \in RequestStates
        /\ Feed(Free, prompt, 0).next = 0
        /\ Feed(Free, prompt, 0).answered = 0 /\ Feed(Free, prompt, 0).cur = 0
        /\ Feed(Free, prompt, 0).run # "free"
    <3>1. Free \in RequestStates /\ IsPrefix(Free.fed, prompt)
      BY <2>3, FreeTakesAll
    <3>2. Free.next = 0 /\ Free.answered = 0 /\ Free.cur = 0 /\ prompt # Free.fed
      BY <2>3 DEF Free
    <3> QED  BY <2>3, <3>1, <3>2, FedThePrompt
  <2> QED  BY <1>2, <1>4, <2>1, <2>4, <2>5, <2>6
<1> QED  BY <1>3, <1>4

LEMMA ToolCallStartsKeepsInv == Inv /\ ToolCallStarts => Inv'
<1> SUFFICES ASSUME Inv, ToolCallStarts PROVE Inv'
  OBVIOUS
<1> USE DEF None
<1> DEFINE s == WithStandby.id
<1>1. /\ resp.at = "stream" /\ standby = 0 /\ standby' = s /\ req' = WithStandby.table
      /\ UNCHANGED <<conversation, text, engine, main, resp, answers>>
  BY DEF ToolCallStarts, Responding
<1>2. /\ s \in Request \ {engine} /\ req' \in [Request -> RequestStates]
      /\ \A x \in Request \ {s} : req'[x] = req[x]
      /\ req'[s].run # "free" /\ req'[s].next = 0 /\ req'[s].answered = 0 /\ req'[s].cur = 0
  BY <1>1, StandbyMade
<1> HIDE DEF s
<1>3. /\ resp.stopping = 0 /\ resp.own = 0 /\ ~resp.aborting /\ engine # 0
      /\ resp.ans \in DOMAIN answers /\ main.stopping = 0 /\ main.at # "stop"
  BY <1>1 DEF Inv, ResponseHolds, MainHolds
<1>4. Held' = {engine, s, 0} /\ Held = {engine, 0}
  BY <1>1, <1>3 DEF Held
<1>5. TypeOK'
  BY <1>1, <1>2 DEF Inv, TypeOK
<1>6. MainHolds' /\ ResponseHolds'
  BY <1>1, <1>2, <1>3 DEF Inv, MainHolds, ResponseHolds
<1>7. HeldInUse'
  <2>1. engine \in Request
    BY <1>3 DEF Inv, TypeOK
  <2> QED  BY <1>2, <1>4, <2>1 DEF Inv, HeldInUse
<1>8. FedItsPrompt'
  BY <1>1, <1>2 DEF Inv, FedItsPrompt
<1>9. WarmEngine'
  BY <1>1, <1>2, <1>3 DEF Inv, WarmEngine, Unasked
<1>10. RoomLeft'
  <2>1. Leaked' \in SUBSET Leaked /\ Leaked \in SUBSET Request
    BY <1>2, <1>4 DEF Leaked
  <2>2. /\ Cardinality(Leaked') <= Cardinality(Leaked)
        /\ Cardinality(Leaked') \in Nat /\ Cardinality(Leaked) \in Nat
    BY <2>1, FewerLeaked, StreamingAssumption
  <2> QED  BY <1>1, <2>2, StreamingAssumption DEF Inv, RoomLeft
<1> QED  BY <1>5, <1>6, <1>7, <1>8, <1>9, <1>10 DEF Inv

LEMMA AnswerStreamedKeepsInv == Inv /\ AnswerStreamed => Inv'
<1> SUFFICES ASSUME Inv, AnswerStreamed PROVE Inv'
  OBVIOUS
<1> USE DEF None
<1>1. resp.at = "stream" /\ UNCHANGED <<conversation, text, engine, main, answers>>
  BY DEF AnswerStreamed, Responding
<1>2. /\ resp.stopping = 0 /\ resp.own = 0 /\ ~resp.aborting /\ engine # 0 /\ engine # standby
      /\ resp.ans \in DOMAIN answers /\ main.stopping = 0 /\ main.at # "stop"
      /\ answers[resp.ans].said = <<>>
  BY <1>1 DEF Inv, ResponseHolds, MainHolds, WarmEngine
<1>3. CASE resp' = [resp EXCEPT !.at = "finish", !.outputs = "none"] /\ UNCHANGED <<standby, req>>
  <2>1. /\ resp'.at = "finish" /\ resp'.own = 0 /\ resp'.stopping = 0 /\ resp'.ans = resp.ans
        /\ ~resp'.aborting
    BY <1>2, <1>3 DEF Inv, TypeOK
  <2>2. Held' = Held /\ Leaked' = Leaked
    BY <1>1, <1>2, <1>3, <2>1 DEF Held, Leaked
  <2>3. TypeOK'
    BY <1>1, <1>3 DEF Inv, TypeOK
  <2>4. MainHolds' /\ ResponseHolds'
    BY <1>1, <1>2, <1>3, <2>1 DEF Inv, MainHolds, ResponseHolds
  <2>5. HeldInUse' /\ FedItsPrompt' /\ WarmEngine'
    BY <1>1, <1>2, <1>3, <2>1, <2>2 DEF Inv, HeldInUse, FedItsPrompt, WarmEngine, Unasked
  <2>6. RoomLeft'
    <3>1. Cardinality(Leaked) \in Nat
      BY LeakedCounted, StreamingAssumption DEF Leaked
    <3> QED  BY <1>1, <2>1, <2>2, <3>1, StreamingAssumption DEF Inv, RoomLeft
  <2> QED  BY <2>3, <2>4, <2>5, <2>6 DEF Inv
<1>4. CASE /\ resp' = [resp EXCEPT !.at = "render", !.outputs = "none", !.own = WithStandby.id]
           /\ standby' = None /\ req' = WithStandby.table
  <2> DEFINE s == WithStandby.id
  <2>1. /\ s \in Request \ {engine} /\ req' \in [Request -> RequestStates]
        /\ \A x \in Request \ {s} : req'[x] = req[x]
        /\ req'[s].run # "free" /\ req'[s].next = 0 /\ req'[s].answered = 0 /\ req'[s].cur = 0
        /\ standby # 0 => s = standby
    BY <1>1, <1>4, StandbyMade
  <2>2. resp' = [resp EXCEPT !.at = "render", !.outputs = "none", !.own = s] /\ standby' = 0
    BY <1>4
  <2> HIDE DEF s
  <2>3. /\ resp'.at = "render" /\ resp'.own = s /\ resp'.stopping = 0 /\ resp'.ans = resp.ans
        /\ ~resp'.aborting
    BY <1>2, <2>2 DEF Inv, TypeOK
  <2>4. Held' = {engine, s, 0} /\ Held = {engine, standby, 0} /\ 0 \notin Request
    BY <1>1, <1>2, <2>2, <2>3 DEF Held, Request
  <2>5. TypeOK'
    BY <1>1, <2>1, <2>2 DEF Inv, TypeOK
  <2>6. MainHolds' /\ ResponseHolds'
    BY <1>1, <1>2, <2>1, <2>2, <2>3, <2>4 DEF Inv, MainHolds, ResponseHolds
  <2>7. HeldInUse'
    <3>1. engine \in Request
      BY <1>2 DEF Inv, TypeOK
    <3> QED  BY <2>1, <2>4, <3>1 DEF Inv, HeldInUse
  <2>8. FedItsPrompt'
    BY <1>1, <2>1 DEF Inv, FedItsPrompt
  <2>9. WarmEngine'
    BY <1>1, <1>2, <2>1, <2>2, <2>3 DEF Inv, WarmEngine, Unasked
  <2>10. RoomLeft'
    <3>1. Leaked' \in SUBSET Leaked /\ Leaked \in SUBSET Request
      BY <2>1, <2>4 DEF Leaked
    <3>2. /\ Cardinality(Leaked') <= Cardinality(Leaked)
          /\ Cardinality(Leaked') \in Nat /\ Cardinality(Leaked) \in Nat
      BY <3>1, FewerLeaked, StreamingAssumption
    <3> QED  BY <1>1, <2>3, <3>2, StreamingAssumption DEF Inv, RoomLeft
  <2> QED  BY <2>5, <2>6, <2>7, <2>8, <2>9, <2>10 DEF Inv
<1> QED  BY <1>3, <1>4 DEF AnswerStreamed

LEMMA JoinedKeepsInv == Inv /\ Joined => Inv'
<1> SUFFICES ASSUME Inv, Joined PROVE Inv'
  OBVIOUS
<1> USE DEF None
<1>1. /\ resp.at \in {"restart", "retire", "tidy"}
      /\ resp' = [resp EXCEPT !.aborting = TRUE, !.cancelled = FALSE]
      /\ UNCHANGED <<conversation, text, engine, standby, main, answers, req>>
  BY DEF Joined
<1>2. /\ resp'.at = resp.at /\ resp'.own = resp.own /\ resp'.stopping = resp.stopping
      /\ resp'.ans = resp.ans
  BY <1>1 DEF Inv, TypeOK
<1>3. Held' = Held /\ Leaked' = Leaked
  BY <1>1, <1>2 DEF Held, Leaked
<1>4. TypeOK'
  BY <1>1 DEF Inv, TypeOK
<1>5. MainHolds' /\ ResponseHolds'
  BY <1>1, <1>2 DEF Inv, MainHolds, ResponseHolds
<1>6. HeldInUse' /\ FedItsPrompt' /\ WarmEngine' /\ RoomLeft'
  BY <1>1, <1>2, <1>3 DEF Inv, HeldInUse, FedItsPrompt, WarmEngine, Unasked, RoomLeft
<1> QED  BY <1>4, <1>5, <1>6 DEF Inv

\* The standby, fed the prompt up to the call, becomes the engine; the finished
\* engine is stopped.
LEMMA SwapEngineKeepsInv ==
  ASSUME Inv, resp.at \in {"render", "restart"}, NEW tokens \in Seq(Token), tokens # <<>>,
         NEW r \in Request, r \in {resp.own, resp.stopping},
         NEW table \in [Request -> RequestStates],
         \A x \in Request \ {r} : table[x] = req[x],
         table[r].run # "free" \/ table[r] = Free,
         table[r].next = 0, table[r].answered = 0, table[r].cur = 0,
         Extends(table[r], tokens), SwapEngine(table, r, tokens),
         answers' = [answers EXCEPT ![resp.ans].said = tokens],
         UNCHANGED <<conversation, text, standby, main>>
  PROVE  Inv'
<1> USE DEF None
<1> DEFINE q == Feed(table[r], tokens, 0)
<1>1. /\ standby = 0 /\ engine # 0 /\ r # engine /\ engine \in Request
      /\ resp.ans \in DOMAIN answers /\ main.stopping = 0 /\ main.at # "stop"
      /\ (resp.own = 0 \/ resp.stopping = 0)
      /\ answers \in Seq([prompt : Seq(Token), said : Seq(Token)])
  BY DEF Inv, TypeOK, ResponseHolds, MainHolds, Request
<1>3. /\ q \in RequestStates /\ q.fed = tokens /\ q.next = 0 /\ q.answered = 0 /\ q.cur = 0
      /\ q.closed = FALSE /\ q.run # "free"
  <2>1. table[r] \in RequestStates /\ IsPrefix(table[r].fed, tokens) /\ table[r].closed = FALSE
    BY DEF Extends, RequestStates
  <2>2. table[r].run # "free" \/ tokens # table[r].fed
    BY DEF Free
  <2> QED  BY <2>1, <2>2, FedThePrompt
<1> HIDE DEF q
<1>4. /\ engine' = r
      /\ req' = [table EXCEPT ![r] = q, ![engine] = Stop(table[engine])]
      /\ resp' = [resp EXCEPT !.at = "retire", !.own = 0, !.stopping = engine, !.aborting = FALSE]
  BY <1>1 DEF SwapEngine, q
<1>5. /\ resp'.at = "retire" /\ resp'.own = 0 /\ resp'.stopping = engine /\ resp'.ans = resp.ans
      /\ resp'.aborting = FALSE
  BY <1>4 DEF Inv, TypeOK
<1>6. /\ req' \in [Request -> RequestStates]
      /\ req'[r] = q
      /\ \A x \in Request \ {r} : req'[x].run = req[x].run /\ req'[x].fed = req[x].fed
           /\ req'[x].got = req[x].got /\ req'[x].next = req[x].next
           /\ req'[x].cur = req[x].cur /\ req'[x].answered = req[x].answered
      /\ \A x \in Request \ {engine, r} : req'[x] = req[x]
  <2>1. table[engine] = req[engine] /\ req[engine] \in RequestStates
    BY <1>1
  <2>2. req' = [table EXCEPT ![r] = q, ![engine] = Stop(req[engine])]
    BY <1>4, <2>1
  <2>3. /\ Stop(req[engine]) \in RequestStates
        /\ Stop(req[engine]).run = req[engine].run /\ Stop(req[engine]).fed = req[engine].fed
        /\ Stop(req[engine]).got = req[engine].got /\ Stop(req[engine]).next = req[engine].next
        /\ Stop(req[engine]).cur = req[engine].cur
        /\ Stop(req[engine]).answered = req[engine].answered
    BY <2>1, StoppedRequest
  <2>4. /\ req' \in [Request -> RequestStates] /\ req'[r] = q
        /\ req'[engine] = Stop(req[engine])
        /\ \A x \in Request \ {engine, r} : req'[x] = req[x]
    BY <1>1, <1>3, <2>2, <2>3
  <2> QED  BY <1>1, <2>3, <2>4
<1>7. /\ answers' \in Seq([prompt : Seq(Token), said : Seq(Token)])
      /\ DOMAIN answers' = DOMAIN answers
      /\ \A a \in DOMAIN answers : answers'[a].prompt = answers[a].prompt
      /\ answers'[resp.ans].said = tokens
  <2> DEFINE answer == [answers[resp.ans] EXCEPT !.said = tokens]
  <2>1. answers[resp.ans] \in [prompt : Seq(Token), said : Seq(Token)]
        /\ resp.ans \in 1..Len(answers)
    BY <1>1, ElementOfSeq, LenProperties
  <2>2. /\ answer \in [prompt : Seq(Token), said : Seq(Token)]
        /\ answer.prompt = answers[resp.ans].prompt /\ answer.said = tokens
    BY <2>1
  <2>3. answers' = [answers EXCEPT ![resp.ans] = answer]
    OBVIOUS
  <2> HIDE DEF answer
  <2>4. answers' \in Seq([prompt : Seq(Token), said : Seq(Token)])
    BY <1>1, <2>1, <2>2, <2>3, ExceptSeq
  <2> QED  BY <1>1, <2>2, <2>3, <2>4
<1>8. Held' = {engine, r, 0} /\ Held = {engine, r, 0} /\ 0 \notin Request
  BY <1>1, <1>4, <1>5 DEF Held, Request
<1>9. TypeOK'
  <2>1. engine' \in Request /\ resp'.stopping \in Request
    BY <1>1, <1>4, <1>5
  <2> QED  BY <1>1, <1>4, <1>6, <1>7, <2>1 DEF Inv, TypeOK
<1>10. MainHolds'
  BY <1>1, <1>4, <1>8 DEF Inv, MainHolds
<1>11. ResponseHolds'
  BY <1>1, <1>4, <1>5, <1>7, <1>8 DEF ResponseHolds
<1>12. HeldInUse'
  <2>1. req[engine].run # "free"
    BY <1>1 DEF Inv, HeldInUse, Held
  <2>2. \A x \in Held' \ {0} : req'[x].run # "free"
    <3>1. req'[r].run # "free"
      BY <1>3, <1>6
    <3>2. req'[engine].run # "free"
      BY <1>1, <1>6, <2>1
    <3> QED  BY <1>8, <3>1, <3>2
  <2>3. ASSUME NEW x \in Request, req'[x].run = "free" PROVE req'[x] = Free
    <3>1. x # r
      BY <1>3, <1>6, <2>3
    <3>2. x # engine
      BY <1>1, <1>6, <2>1, <2>3
    <3>3. req'[x] = req[x]
      BY <1>6, <3>1, <3>2
    <3> QED  BY <2>3, <3>3 DEF Inv, HeldInUse
  <2> QED  BY <2>2, <2>3 DEF HeldInUse
<1>13. FedItsPrompt'
  <2>1. ASSUME NEW x \in Request \ {r}
        PROVE  /\ req'[x].next # 0 =>
                    req'[x].next \in DOMAIN answers' /\ req'[x].fed = answers'[req'[x].next].prompt
               /\ req'[x].answered # 0 =>
                    /\ req'[x].answered \in DOMAIN answers'
                    /\ req'[x].got = answers'[req'[x].answered].prompt
               /\ req'[x].cur \in {0, req'[x].answered}
    <3>1. /\ req'[x].fed = req[x].fed /\ req'[x].got = req[x].got /\ req'[x].next = req[x].next
          /\ req'[x].cur = req[x].cur /\ req'[x].answered = req[x].answered
      BY <1>6
    <3>2. /\ req[x].next # 0 =>
               req[x].next \in DOMAIN answers /\ req[x].fed = answers[req[x].next].prompt
          /\ req[x].answered # 0 =>
               req[x].answered \in DOMAIN answers /\ req[x].got = answers[req[x].answered].prompt
          /\ req[x].cur \in {0, req[x].answered}
      BY DEF Inv, FedItsPrompt
    <3> QED  BY <1>7, <3>1, <3>2
  <2>2. req'[r].next = 0 /\ req'[r].answered = 0 /\ req'[r].cur = 0
    BY <1>3, <1>6
  <2> QED  BY <2>1, <2>2 DEF FedItsPrompt
<1>14. WarmEngine'
  BY <1>1, <1>3, <1>4, <1>5, <1>6, <1>7 DEF Inv, WarmEngine, Unasked
<1>15. RoomLeft'
  <2>1. Leaked' \in SUBSET Leaked /\ Leaked \in SUBSET Request
    BY <1>1, <1>6, <1>8 DEF Leaked
  <2>2. /\ Cardinality(Leaked') <= Cardinality(Leaked)
        /\ Cardinality(Leaked') \in Nat /\ Cardinality(Leaked) \in Nat
    BY <2>1, FewerLeaked, StreamingAssumption
  <2> QED  BY <1>5, <2>2, StreamingAssumption DEF Inv, RoomLeft
<1> QED  BY <1>9, <1>10, <1>11, <1>12, <1>13, <1>14, <1>15 DEF Inv

\* The answer as the template renders it back ends with the call.
LEMMA CallPromptTypes ==
  ASSUME NEW prompt \in Seq(Token), prompt # <<>>, NEW kept \in BOOLEAN
  PROVE  AnswerPrompt(prompt, kept) \in Seq(Token) /\ AnswerPrompt(prompt, kept) # <<>>
<1>1. Front(prompt) \in Seq(Token)
  <2>1. Len(prompt) \in Nat /\ \A i \in 1..Len(prompt) - 1 : prompt[i] \in Token
    BY ElementOfSeq, LenProperties
  <2> QED  BY <2>1, SubSeqProperties DEF Front
<1>2. <<"call">> \in Seq(Token) /\ Len(<<"call">>) = 1
  BY ElementOfSeq DEF Token
<1>3. \A p \in Seq(Token) : p \o <<"call">> \in Seq(Token) /\ p \o <<"call">> # <<>>
  <2> SUFFICES ASSUME NEW p \in Seq(Token)
               PROVE  p \o <<"call">> \in Seq(Token) /\ p \o <<"call">> # <<>>
    OBVIOUS
  <2>1. p \o <<"call">> \in Seq(Token) /\ Len(p \o <<"call">>) = Len(p) + 1
    BY <1>2, ConcatProperties
  <2> QED  BY <2>1, LenProperties, EmptySeq
<1> QED  BY <1>1, <1>3 DEF AnswerPrompt

LEMMA CallRenderedKeepsInv == Inv /\ CallRendered => Inv'
<1> SUFFICES ASSUME Inv, CallRendered PROVE Inv'
  OBVIOUS
<1> USE DEF None
<1>1. resp.at = "render" /\ UNCHANGED <<conversation, text, standby, main>>
  BY DEF CallRendered, Responding
<1>2. PICK kept \in BOOLEAN :
        LET tokens == AnswerPrompt(answers[resp.ans].prompt, kept)
        IN /\ answers' = [answers EXCEPT ![resp.ans].said = tokens]
           /\ IF Extends(req[resp.own], tokens) THEN SwapEngine(req, resp.own, tokens)
              ELSE /\ resp' = [resp EXCEPT !.at = "restart", !.stopping = resp.own, !.own = None]
                   /\ req' = [req EXCEPT ![resp.own] = Stop(@)]
                   /\ UNCHANGED engine
  BY DEF CallRendered
<1> DEFINE tokens == AnswerPrompt(answers[resp.ans].prompt, kept)
           r == resp.own
<1>3. /\ answers' = [answers EXCEPT ![resp.ans].said = tokens]
      /\ \/ Extends(req[r], tokens) /\ SwapEngine(req, r, tokens)
         \/ /\ resp' = [resp EXCEPT !.at = "restart", !.stopping = r, !.own = 0]
            /\ req' = [req EXCEPT ![r] = Stop(req[r])]
            /\ UNCHANGED engine
  BY <1>2
<1>4. /\ standby = 0 /\ engine # 0 /\ r # engine /\ engine \in Request /\ r \in Request
      /\ resp.ans \in DOMAIN answers /\ main.stopping = 0 /\ main.at # "stop"
      /\ resp.stopping = 0 /\ ~resp.aborting
      /\ answers \in Seq([prompt : Seq(Token), said : Seq(Token)])
      /\ req \in [Request -> RequestStates]
  BY <1>1 DEF Inv, TypeOK, ResponseHolds, MainHolds, Request
<1>5. req[r].run # "free" /\ req[r].next = 0 /\ req[r].answered = 0 /\ req[r].cur = 0
  <2>1. r \in Held \ {0} /\ r \in {standby, resp.own} \ {0}
    BY <1>4 DEF Held, Request
  <2>2. req[r].run # "free"
    BY <2>1 DEF Inv, HeldInUse
  <2>3. req[r].next = 0 /\ req[r].answered = 0
    BY <2>1 DEF Inv, WarmEngine, Unasked
  <2>4. req[r].cur \in {0, req[r].answered}
    BY <1>4 DEF Inv, FedItsPrompt
  <2> QED  BY <2>2, <2>3, <2>4
<1>6. answers[resp.ans] \in [prompt : Seq(Token), said : Seq(Token)] /\ resp.ans \in 1..Len(answers)
  BY <1>4, ElementOfSeq, LenProperties
<1>7. tokens \in Seq(Token) /\ tokens # <<>>
  <2>1. answers[resp.ans].prompt \in Seq(Token) /\ answers[resp.ans].prompt # <<>>
    BY <1>4, <1>6 DEF Inv, WarmEngine
  <2> QED  BY <2>1, CallPromptTypes
<1>8. r \in {resp.own, resp.stopping} /\ r = resp.own
  OBVIOUS
<1> HIDE DEF tokens, r
<1>9. CASE Extends(req[r], tokens) /\ SwapEngine(req, r, tokens)
  BY <1>1, <1>3, <1>4, <1>5, <1>7, <1>8, <1>9, SwapEngineKeepsInv
<1>10. CASE /\ resp' = [resp EXCEPT !.at = "restart", !.stopping = r, !.own = 0]
            /\ req' = [req EXCEPT ![r] = Stop(req[r])]
            /\ UNCHANGED engine
  <2>1. /\ resp'.at = "restart" /\ resp'.own = 0 /\ resp'.stopping = r /\ resp'.ans = resp.ans
        /\ ~resp'.aborting
    BY <1>4, <1>10 DEF Inv, TypeOK
  <2>2. /\ req' \in [Request -> RequestStates]
        /\ \A x \in Request : req'[x].run = req[x].run /\ req'[x].fed = req[x].fed
             /\ req'[x].got = req[x].got /\ req'[x].next = req[x].next
             /\ req'[x].cur = req[x].cur /\ req'[x].answered = req[x].answered
        /\ \A x \in Request \ {r} : req'[x] = req[x]
    BY <1>4, <1>10, StoppedRequest
  <2> DEFINE answer == [answers[resp.ans] EXCEPT !.said = tokens]
  <2>3. /\ answer \in [prompt : Seq(Token), said : Seq(Token)]
        /\ answer.prompt = answers[resp.ans].prompt /\ answer.said = tokens
        /\ answers' = [answers EXCEPT ![resp.ans] = answer]
    BY <1>3, <1>6, <1>7
  <2> HIDE DEF answer
  <2>4. /\ answers' \in Seq([prompt : Seq(Token), said : Seq(Token)])
        /\ DOMAIN answers' = DOMAIN answers
        /\ \A a \in DOMAIN answers : answers'[a].prompt = answers[a].prompt
        /\ answers'[resp.ans].said = tokens
    BY <1>4, <1>6, <2>3, ExceptSeq
  <2>5. Held' = {engine, r, 0} /\ Held = {engine, r, 0} /\ 0 \notin Request
    BY <1>1, <1>4, <1>8, <1>10, <2>1 DEF Held, Request
  <2>6. TypeOK'
    BY <1>1, <1>4, <1>10, <2>2, <2>4 DEF Inv, TypeOK
  <2>7. MainHolds' /\ ResponseHolds'
    BY <1>1, <1>4, <1>10, <2>1, <2>4, <2>5 DEF Inv, MainHolds, ResponseHolds
  <2>8. HeldInUse'
    <3>1. req[engine].run # "free"
      BY <1>4 DEF Inv, HeldInUse, Held
    <3>2. \A x \in Request : req'[x].run = "free" => x # r /\ req'[x] = req[x]
      BY <1>5, <2>2
    <3> QED  BY <1>4, <1>5, <2>2, <2>5, <3>1, <3>2 DEF Inv, HeldInUse
  <2>9. FedItsPrompt'
    <3>1. ASSUME NEW x \in Request
          PROVE  /\ req'[x].next # 0 =>
                      req'[x].next \in DOMAIN answers' /\ req'[x].fed = answers'[req'[x].next].prompt
                 /\ req'[x].answered # 0 =>
                      /\ req'[x].answered \in DOMAIN answers'
                      /\ req'[x].got = answers'[req'[x].answered].prompt
                 /\ req'[x].cur \in {0, req'[x].answered}
      <4>1. /\ req[x].next # 0 =>
                 req[x].next \in DOMAIN answers /\ req[x].fed = answers[req[x].next].prompt
            /\ req[x].answered # 0 =>
                 req[x].answered \in DOMAIN answers /\ req[x].got = answers[req[x].answered].prompt
            /\ req[x].cur \in {0, req[x].answered}
        BY DEF Inv, FedItsPrompt
      <4>2. /\ req'[x].fed = req[x].fed /\ req'[x].got = req[x].got /\ req'[x].next = req[x].next
            /\ req'[x].cur = req[x].cur /\ req'[x].answered = req[x].answered
        BY <2>2
      <4> QED  BY <2>4, <4>1, <4>2
    <3> QED  BY <3>1 DEF FedItsPrompt
  <2>10. WarmEngine'
    BY <1>1, <1>4, <1>7, <2>1, <2>4 DEF Inv, WarmEngine
  <2>11. RoomLeft'
    <3>1. Leaked' = Leaked
      BY <2>2, <2>5 DEF Leaked
    <3>2. Cardinality(Leaked) \in Nat
      BY LeakedCounted, StreamingAssumption DEF Leaked
    <3> QED  BY <1>1, <2>1, <3>1, <3>2, StreamingAssumption DEF Inv, RoomLeft
  <2> QED  BY <2>6, <2>7, <2>8, <2>9, <2>10, <2>11 DEF Inv
<1> QED  BY <1>3, <1>9, <1>10

\* A request that was stopped is nobody's any more.
LEMMA ReleasedKeepsInv ==
  ASSUME Inv, NEW r \in Request, resp.at \in {"restart", "retire", "tidy"}, r = resp.stopping,
         req' = [req EXCEPT ![r] = Free],
         \/ resp' = Quiet
         \/ /\ resp.at = "retire"
            /\ resp' = [resp EXCEPT !.at = "finish", !.stopping = None, !.aborting = FALSE],
         UNCHANGED <<conversation, text, engine, standby, main, answers>>
  PROVE  Inv'
<1> USE DEF None
<1>1. /\ standby = 0 /\ engine # 0 /\ engine # r /\ engine \in Request /\ resp.own = 0
      /\ resp.ans \in DOMAIN answers /\ main.stopping = 0 /\ main.at # "stop"
  BY DEF Inv, TypeOK, ResponseHolds, MainHolds, Request
<1>2. /\ resp'.own = 0 /\ resp'.stopping = 0 /\ ~resp'.aborting
      /\ \/ resp'.at = "rest" /\ resp'.ans = 0 /\ ~resp'.cancelled
         \/ resp.at = "retire" /\ resp'.at = "finish" /\ resp'.ans = resp.ans
  <2>1. CASE resp' = Quiet
    BY <2>1 DEF Quiet
  <2>2. CASE /\ resp.at = "retire"
             /\ resp' = [resp EXCEPT !.at = "finish", !.stopping = None, !.aborting = FALSE]
    BY <1>1, <2>2 DEF Inv, TypeOK
  <2> QED  BY <2>1, <2>2
<1>3. /\ req' \in [Request -> RequestStates] /\ req'[r] = Free
      /\ \A x \in Request \ {r} : req'[x] = req[x]
  BY FreeTakesAll DEF Inv, TypeOK
<1>4. Held' = {engine, 0} /\ Held = {engine, r, 0} /\ 0 \notin Request
  BY <1>1, <1>2 DEF Held, Request
<1>5. TypeOK'
  <2>1. Quiet \in [at : {"rest", "stream", "render", "restart", "retire", "tidy", "finish"},
                   ans : Nat, outputs : {"none", "queued", "finished", "cut"},
                   own : Request \cup {None}, stopping : Request \cup {None},
                   aborting : BOOLEAN, cancelled : BOOLEAN]
    BY DEF Quiet
  <2>2. CASE resp' = Quiet
    BY <1>1, <1>3, <2>1, <2>2 DEF Inv, TypeOK
  <2>3. CASE resp' = [resp EXCEPT !.at = "finish", !.stopping = None, !.aborting = FALSE]
    BY <1>1, <1>3, <2>3 DEF Inv, TypeOK
  <2> QED  BY <2>2, <2>3
<1>6. MainHolds' /\ ResponseHolds'
  BY <1>1, <1>2, <1>4 DEF Inv, MainHolds, ResponseHolds
<1>7. HeldInUse'
  BY <1>1, <1>3, <1>4 DEF Inv, HeldInUse
<1>8. FedItsPrompt'
  <2>1. Free.next = 0 /\ Free.answered = 0 /\ Free.cur = 0
    BY DEF Free
  <2>2. \A x \in Request : req'[x] = req[x] \/ req'[x] = Free
    BY <1>3
  <2> QED  BY <2>1, <2>2 DEF Inv, FedItsPrompt
<1>9. WarmEngine'
  BY <1>1, <1>2, <1>3 DEF Inv, WarmEngine, Unasked
<1>10. RoomLeft'
  <2>1. Leaked' \in SUBSET Leaked /\ Leaked \in SUBSET Request
    BY <1>3, <1>4 DEF Leaked, Free
  <2>2. /\ Cardinality(Leaked') <= Cardinality(Leaked)
        /\ Cardinality(Leaked') \in Nat /\ Cardinality(Leaked) \in Nat
    BY <2>1, FewerLeaked, StreamingAssumption
  <2> QED  BY <1>2, <2>2, StreamingAssumption DEF Inv, RoomLeft
<1> QED  BY <1>5, <1>6, <1>7, <1>8, <1>9, <1>10 DEF Inv

LEMMA AbortedKeepsInv == Inv /\ Aborted => Inv'
<1> SUFFICES ASSUME Inv, Aborted PROVE Inv'
  OBVIOUS
<1> USE DEF None
<1> DEFINE r == resp.stopping
           table == [req EXCEPT ![r] = Free]
<1>1. /\ resp.at \in {"restart", "retire", "tidy"}
      /\ UNCHANGED <<conversation, text, standby, main, answers>>
  BY DEF Aborted
<1>2. r \in Request /\ r # engine /\ resp.ans \in DOMAIN answers
      /\ answers \in Seq([prompt : Seq(Token), said : Seq(Token)])
  BY <1>1 DEF Inv, TypeOK, ResponseHolds
<1>3. CASE resp.at = "restart" /\ SwapEngine(table, r, answers[resp.ans].said)
  <2> DEFINE tokens == answers[resp.ans].said
  <2>1. answers[resp.ans] \in [prompt : Seq(Token), said : Seq(Token)]
    BY <1>2, ElementOfSeq, LenProperties
  <2>2. tokens \in Seq(Token) /\ tokens # <<>>
    BY <1>3, <2>1 DEF Inv, WarmEngine
  <2>3. /\ table \in [Request -> RequestStates] /\ table[r] = Free
        /\ \A x \in Request \ {r} : table[x] = req[x]
    BY <1>2, FreeTakesAll DEF Inv, TypeOK
  <2>4. Free.next = 0 /\ Free.answered = 0 /\ Free.cur = 0 /\ Free.closed = FALSE
    BY DEF Free
  <2>5. Extends(table[r], tokens)
    BY <2>2, <2>3, <2>4, FreeTakesAll DEF Extends
  <2>6. answers' = [answers EXCEPT ![resp.ans].said = tokens]
    <3> DEFINE a == answers[resp.ans]
    <3>1. [a EXCEPT !.said = a.said] = a
      BY <2>1
    <3>2. answers' = answers /\ [answers EXCEPT ![resp.ans] = a] = answers
      BY <1>1, <1>2, LenProperties
    <3> QED  BY <3>1, <3>2
  <2>7. r \in {resp.own, resp.stopping}
    OBVIOUS
  <2>8. SwapEngine(table, r, tokens) /\ resp.at \in {"render", "restart"}
    BY <1>3
  <2> HIDE DEF tokens, table, r
  <2> QED  BY <1>1, <1>2, <2>2, <2>3, <2>4, <2>5, <2>6, <2>7, <2>8, SwapEngineKeepsInv
<1>4. CASE /\ req' = table /\ UNCHANGED engine
           /\ \/ resp' = Quiet
              \/ /\ resp.at = "retire"
                 /\ resp' = [resp EXCEPT !.at = "finish", !.stopping = None, !.aborting = FALSE]
  BY <1>1, <1>2, <1>4, ReleasedKeepsInv
<1> QED  BY <1>3, <1>4 DEF Aborted

LEMMA CancelRaisedKeepsInv == Inv /\ CancelRaised => Inv'
<1> SUFFICES ASSUME Inv, CancelRaised PROVE Inv'
  OBVIOUS
<1>1. UNCHANGED <<conversation, text, engine, main, answers>>
  BY DEF CancelRaised
<1>2. CASE resp.at \in {"stream", "render", "finish"} /\ Tidy
  BY <1>1, <1>2, TidyKeepsInv
<1>3. CASE /\ resp.aborting /\ resp' = Quiet
           /\ req' = [req EXCEPT ![resp.stopping] = Free] /\ UNCHANGED standby
  <2>1. resp.stopping \in Request /\ resp.at \in {"restart", "retire", "tidy"}
    BY <1>3 DEF Inv, TypeOK, ResponseHolds
  <2> QED  BY <1>1, <1>3, <2>1, ReleasedKeepsInv
<1> QED  BY <1>2, <1>3 DEF CancelRaised

(***************************************************************************)
(* The engine.                                                             *)
(***************************************************************************)
\* A step of a request that runs on, and whose next, given and answered prompts
\* still agree.
LEMMA RunningKeepsInv ==
  ASSUME Inv, NEW r \in Request, req[r].run # "free", NEW q \in RequestStates,
         q.run = req[r].run, q.fed = req[r].fed,
         req' = [req EXCEPT ![r] = q],
         q.next # 0 => q.next \in DOMAIN answers /\ q.fed = answers[q.next].prompt,
         q.answered # 0 => q.answered \in DOMAIN answers /\ q.got = answers[q.answered].prompt,
         q.cur \in {0, q.answered},
         Unasked(r) => q.next = 0 /\ q.answered = 0 /\ q.closed = req[r].closed,
         resp' = resp \/ \E o \in {"finished", "cut"} : resp' = [resp EXCEPT !.outputs = o],
         UNCHANGED <<conversation, text, engine, standby, main, answers>>
  PROVE  Inv'
<1> USE DEF None
<1>1. /\ resp'.at = resp.at /\ resp'.own = resp.own /\ resp'.stopping = resp.stopping
      /\ resp'.ans = resp.ans /\ resp'.aborting = resp.aborting
      /\ resp'.cancelled = resp.cancelled
  BY DEF Inv, TypeOK
<1>2. /\ req' \in [Request -> RequestStates] /\ req'[r] = q
      /\ \A x \in Request \ {r} : req'[x] = req[x]
  BY DEF Inv, TypeOK
<1>3. Held' = Held
  BY <1>1 DEF Held
<1>4. TypeOK'
  <2>1. CASE resp' = resp
    BY <1>2, <2>1 DEF Inv, TypeOK
  <2>2. ASSUME NEW o \in {"finished", "cut"}, resp' = [resp EXCEPT !.outputs = o] PROVE TypeOK'
    BY <1>2, <2>2 DEF Inv, TypeOK
  <2> QED  BY <2>1, <2>2
<1>5. MainHolds' /\ ResponseHolds'
  BY <1>1 DEF Inv, MainHolds, ResponseHolds
<1>6. HeldInUse'
  BY <1>2, <1>3 DEF Inv, HeldInUse
<1>7. FedItsPrompt'
  BY <1>2 DEF Inv, FedItsPrompt
<1>8. WarmEngine'
  <2>1. \A x \in {standby, resp.own} \ {0} : x \in Request
    BY DEF Inv, TypeOK
  <2>2. \A x \in {standby', resp'.own} \ {0} : Unasked(x)'
    BY <1>1, <1>2, <2>1 DEF Inv, WarmEngine, Unasked
  <2>3. resp.at # "rest" => engine \in Request
    BY DEF Inv, TypeOK, ResponseHolds
  <2>4. resp'.at \in {"retire", "finish"} /\ answers'[resp'.ans].said # <<>> =>
          Unasked(engine)' /\ ~req'[engine'].closed /\ req'[engine'].fed = answers'[resp'.ans].said
    BY <1>1, <1>2, <2>3 DEF Inv, WarmEngine, Unasked
  <2> QED  BY <1>1, <2>2, <2>4 DEF Inv, WarmEngine
<1>9. RoomLeft'
  <2>1. Leaked' = Leaked
    BY <1>2, <1>3 DEF Leaked
  <2> QED  BY <1>1, <2>1 DEF Inv, RoomLeft
<1> QED  BY <1>4, <1>5, <1>6, <1>7, <1>8, <1>9 DEF Inv

LEMMA PullKeepsInv ==
  ASSUME Inv, NEW r \in Request, Pull(r) PROVE Inv'
<1> DEFINE q == [req[r] EXCEPT !.got = req[r].fed, !.cur = req[r].next,
                               !.answered = req[r].next, !.next = 0, !.busy = TRUE]
<1>1. /\ req[r] \in RequestStates /\ req[r].run = "running" /\ req[r].answered = 0
      /\ UNCHANGED <<conversation, text, engine, standby, main, resp, answers>>
  BY DEF Pull, Running, Inv, TypeOK
<1>2. req' = [req EXCEPT ![r] = q]
  BY DEF Pull, Inv, TypeOK
<1>3. /\ q \in RequestStates /\ q.run = req[r].run /\ q.fed = req[r].fed /\ q.next = 0
      /\ q.got = req[r].fed /\ q.answered = req[r].next /\ q.cur = req[r].next
      /\ q.closed = req[r].closed
  BY <1>1 DEF RequestStates
<1> HIDE DEF q
<1>4. req[r].next # 0 =>
        req[r].next \in DOMAIN answers /\ req[r].fed = answers[req[r].next].prompt
  BY DEF Inv, FedItsPrompt
<1> QED  BY <1>1, <1>2, <1>3, <1>4, RunningKeepsInv DEF Unasked

LEMMA CloseInputKeepsInv ==
  ASSUME Inv, NEW r \in Request, CloseInput(r) PROVE Inv'
<1> DEFINE q == [req[r] EXCEPT !.closed = TRUE]
<1>1. /\ req[r] \in RequestStates /\ req[r].run = "running" /\ req[r].answered # 0
      /\ UNCHANGED <<conversation, text, engine, standby, main, resp, answers>>
  BY DEF CloseInput, Running, Inv, TypeOK
<1>2. req' = [req EXCEPT ![r] = q]
  BY DEF CloseInput, Inv, TypeOK
<1>3. /\ q \in RequestStates /\ q.run = req[r].run /\ q.fed = req[r].fed /\ q.next = req[r].next
      /\ q.got = req[r].got /\ q.answered = req[r].answered /\ q.cur = req[r].cur
  BY <1>1 DEF RequestStates
<1> HIDE DEF q
<1>4. /\ req[r].next # 0 =>
           req[r].next \in DOMAIN answers /\ req[r].fed = answers[req[r].next].prompt
      /\ req[r].answered # 0 =>
           req[r].answered \in DOMAIN answers /\ req[r].got = answers[req[r].answered].prompt
      /\ req[r].cur \in {0, req[r].answered}
  BY DEF Inv, FedItsPrompt
<1> QED  BY <1>1, <1>2, <1>3, <1>4, RunningKeepsInv DEF Unasked

LEMMA PrefilledKeepsInv ==
  ASSUME Inv, NEW r \in Request, Prefilled(r) PROVE Inv'
<1> DEFINE q == [req[r] EXCEPT !.busy = FALSE]
<1>1. /\ req[r] \in RequestStates /\ req[r].run = "running"
      /\ UNCHANGED <<conversation, text, engine, standby, main, resp, answers>>
  BY DEF Prefilled, Running, Inv, TypeOK
<1>2. req' = [req EXCEPT ![r] = q]
  BY DEF Prefilled, Inv, TypeOK
<1>3. /\ q \in RequestStates /\ q.run = req[r].run /\ q.fed = req[r].fed /\ q.next = req[r].next
      /\ q.got = req[r].got /\ q.answered = req[r].answered /\ q.cur = req[r].cur
      /\ q.closed = req[r].closed
  BY <1>1 DEF RequestStates
<1> HIDE DEF q
<1>4. /\ req[r].next # 0 =>
           req[r].next \in DOMAIN answers /\ req[r].fed = answers[req[r].next].prompt
      /\ req[r].answered # 0 =>
           req[r].answered \in DOMAIN answers /\ req[r].got = answers[req[r].answered].prompt
      /\ req[r].cur \in {0, req[r].answered}
  BY DEF Inv, FedItsPrompt
<1> QED  BY <1>1, <1>2, <1>3, <1>4, RunningKeepsInv DEF Unasked

LEMMA AnswerFinishesKeepsInv ==
  ASSUME Inv, NEW r \in Request, AnswerFinishes(r) PROVE Inv'
<1> DEFINE q == [req[r] EXCEPT !.cur = 0, !.busy = FALSE]
<1>1. /\ req[r] \in RequestStates /\ req[r].run = "running"
      /\ UNCHANGED <<conversation, text, engine, standby, main, answers>>
  BY DEF AnswerFinishes, Running, Inv, TypeOK
<1>2. req' = [req EXCEPT ![r] = q]
  BY DEF AnswerFinishes, Inv, TypeOK
<1>3. /\ q \in RequestStates /\ q.run = req[r].run /\ q.fed = req[r].fed /\ q.next = req[r].next
      /\ q.got = req[r].got /\ q.answered = req[r].answered /\ q.cur = 0
      /\ q.closed = req[r].closed
  BY <1>1 DEF RequestStates
<1> HIDE DEF q
<1>4. /\ req[r].next # 0 =>
           req[r].next \in DOMAIN answers /\ req[r].fed = answers[req[r].next].prompt
      /\ req[r].answered # 0 =>
           req[r].answered \in DOMAIN answers /\ req[r].got = answers[req[r].answered].prompt
  BY DEF Inv, FedItsPrompt
<1>5. resp' = resp \/ \E o \in {"finished", "cut"} : resp' = [resp EXCEPT !.outputs = o]
  BY DEF AnswerFinishes, Output
<1> QED  BY <1>1, <1>2, <1>3, <1>4, <1>5, RunningKeepsInv DEF Unasked

\* The finally of _run: what is held is over, with what it was fed; the rest is
\* garbage.
LEMMA RunOverKeepsInv ==
  ASSUME Inv, NEW r \in Request, req[r].run # "free", RunOver(r) PROVE Inv'
<1> USE DEF None
<1> DEFINE q == [Free EXCEPT !.run = "over", !.fed = req[r].fed,
                             !.next = req[r].next, !.closed = req[r].closed]
<1>1. /\ req \in [Request -> RequestStates] /\ req[r] \in RequestStates
      /\ UNCHANGED <<conversation, text, engine, standby, main, answers>>
  BY DEF RunOver, Inv, TypeOK
<1>2. req' = [req EXCEPT ![r] = IF r \in Held THEN q ELSE Free]
  BY DEF RunOver
<1>3. /\ q \in RequestStates /\ q.run = "over" /\ q.fed = req[r].fed /\ q.next = req[r].next
      /\ q.answered = 0 /\ q.cur = 0 /\ q.closed = req[r].closed
  <2>1. <<>> \in Seq(Token)
    BY EmptySeq
  <2> QED  BY <1>1, <2>1 DEF RequestStates, Free
<1> HIDE DEF q
<1>4. resp' = resp \/ resp' = [resp EXCEPT !.outputs = "cut"]
  BY DEF RunOver, Output
<1>5. /\ resp'.at = resp.at /\ resp'.own = resp.own /\ resp'.stopping = resp.stopping
      /\ resp'.ans = resp.ans /\ resp'.aborting = resp.aborting
      /\ resp'.cancelled = resp.cancelled
  BY <1>4 DEF Inv, TypeOK
<1>6. /\ req' \in [Request -> RequestStates] /\ (r \in Held => req'[r] = q)
      /\ (r \notin Held => req'[r] = Free)
      /\ \A x \in Request \ {r} : req'[x] = req[x]
  BY <1>1, <1>2, <1>3, FreeTakesAll
<1>7. Held' = Held
  BY <1>1, <1>5 DEF Held
<1>8. TypeOK'
  <2>1. CASE resp' = resp
    BY <1>1, <1>6, <2>1 DEF Inv, TypeOK
  <2>2. CASE resp' = [resp EXCEPT !.outputs = "cut"]
    BY <1>1, <1>6, <2>2 DEF Inv, TypeOK
  <2> QED  BY <1>4, <2>1, <2>2
<1>9. MainHolds' /\ ResponseHolds'
  BY <1>1, <1>5 DEF Inv, MainHolds, ResponseHolds
<1>10. HeldInUse'
  <2>1. ASSUME NEW x \in Held \ {0} PROVE req'[x].run # "free"
    <3>1. x \in Request
      BY DEF Held, Inv, TypeOK
    <3> QED  BY <1>3, <1>6, <3>1 DEF Inv, HeldInUse
  <2>2. \A x \in Request : req'[x].run = "free" => req'[x] = Free
    BY <1>3, <1>6 DEF Inv, HeldInUse
  <2> QED  BY <1>7, <2>1, <2>2 DEF HeldInUse
<1>11. FedItsPrompt'
  <2>1. Free.next = 0 /\ Free.answered = 0 /\ Free.cur = 0
    BY DEF Free
  <2> QED  BY <1>1, <1>3, <1>6, <2>1 DEF Inv, FedItsPrompt
<1>12. WarmEngine'
  <2>1. \A x \in {standby, resp.own} \ {0} : x \in Request /\ x \in Held
    BY DEF Inv, TypeOK, Held
  <2>2. \A x \in {standby', resp'.own} \ {0} : Unasked(x)'
    BY <1>1, <1>3, <1>5, <1>6, <2>1 DEF Inv, WarmEngine, Unasked
  <2>3. resp.at # "rest" => engine \in Request /\ engine \in Held
    BY DEF Inv, TypeOK, ResponseHolds, Held
  <2>4. resp'.at \in {"retire", "finish"} /\ answers'[resp'.ans].said # <<>> =>
          Unasked(engine)' /\ ~req'[engine'].closed /\ req'[engine'].fed = answers'[resp'.ans].said
    BY <1>1, <1>3, <1>5, <1>6, <2>3 DEF Inv, WarmEngine, Unasked
  <2> QED  BY <1>1, <1>5, <2>2, <2>4 DEF Inv, WarmEngine
<1>13. RoomLeft'
  <2>1. Leaked' \in SUBSET Leaked /\ Leaked \in SUBSET Request
    BY <1>6, <1>7 DEF Leaked, Free
  <2>2. /\ Cardinality(Leaked') <= Cardinality(Leaked)
        /\ Cardinality(Leaked') \in Nat /\ Cardinality(Leaked) \in Nat
    BY <2>1, FewerLeaked, StreamingAssumption
  <2> QED  BY <1>1, <1>5, <2>2, StreamingAssumption DEF Inv, RoomLeft
<1> QED  BY <1>8, <1>9, <1>10, <1>11, <1>12, <1>13 DEF Inv

LEMMA RunKeepsInv ==
  ASSUME Inv, NEW r \in Request, Run(r) \/ RunFails(r) PROVE Inv'
<1>1. CASE RunEnds(r) \/ RunFails(r) \/ RunCancelled(r)
  <2>1. Free.cancelled = FALSE
    BY DEF Free
  <2>2. req[r].run # "free" /\ RunOver(r)
    BY <1>1, <2>1 DEF RunEnds, RunFails, RunCancelled, Running, Inv, HeldInUse
  <2> QED  BY <2>2, RunOverKeepsInv
<1>2. CASE Pull(r) \/ CloseInput(r) \/ Prefilled(r) \/ AnswerFinishes(r)
  BY <1>2, PullKeepsInv, CloseInputKeepsInv, PrefilledKeepsInv, AnswerFinishesKeepsInv
<1> QED  BY <1>1, <1>2 DEF Run

(***************************************************************************)
(* The theorems.                                                           *)
(***************************************************************************)
LEMMA InvStep == Inv /\ [Next]_vars => Inv'
<1> SUFFICES ASSUME Inv, [Next]_vars PROVE Inv'
  OBVIOUS
<1>1. CASE SessionUpdate \/ AppendText \/ ClearText \/ Commit \/ Cancel \/ Disconnect
  BY <1>1, SessionUpdateKeepsInv, AppendTextKeepsInv, ClearTextKeepsInv, CommitKeepsInv,
     CancelKeepsInv, DisconnectKeepsInv
<1>2. CASE Serve
  BY <1>2, RenderReturnsKeepsInv, RenderFailsKeepsInv, ResponseCancelledKeepsInv,
     MainStoppedKeepsInv DEF Serve
<1>3. CASE ToolCallStarts \/ StreamFails \/ Respond
  BY <1>3, ToolCallStartsKeepsInv, StreamFailsKeepsInv, AnswerStreamedKeepsInv,
     CallRenderedKeepsInv, CallRenderFailsKeepsInv, JoinedKeepsInv, AbortedKeepsInv,
     DoneKeepsInv, CancelRaisedKeepsInv DEF Respond
<1>4. CASE \E r \in Request : Run(r) \/ RunFails(r)
  BY <1>4, RunKeepsInv
<1>5. CASE UNCHANGED vars
  <2>1. Held' = Held /\ Leaked' = Leaked
    BY <1>5 DEF vars, Held, Leaked
  <2>2. TypeOK' /\ MainHolds' /\ ResponseHolds'
    BY <1>5 DEF vars, Inv, TypeOK, MainHolds, ResponseHolds
  <2>3. HeldInUse' /\ FedItsPrompt' /\ WarmEngine' /\ RoomLeft'
    BY <1>5, <2>1 DEF vars, Inv, HeldInUse, FedItsPrompt, WarmEngine, Unasked, RoomLeft
  <2> QED  BY <2>2, <2>3 DEF Inv
<1> QED  BY <1>1, <1>2, <1>3, <1>4, <1>5 DEF Next

\* Who holds which engine request, what each has been fed, and that a handler
\* always finds the request it makes (StreamingSession, _EngineRequest), for any
\* number of words, commits and engine requests.
THEOREM RequestsHeld == Spec => []Inv
<1> QED  BY InvInit, InvStep, PTL DEF Spec

\* Whatever was prefilled, revised, merged or superseded before, and whatever
\* failed, an engine request answers exactly the prompt of its commit
\* (StreamingSession._feed, _EngineRequest._inputs).
THEOREM AnswersItsPrompt == Spec => []AnswerFromItsPrompt
<1>1. Inv => AnswerFromItsPrompt
  BY DEF Inv, FedItsPrompt, AnswerFromItsPrompt
<1> QED  BY <1>1, RequestsHeld, PTL

\* The response that called a tool ends with an open engine request that holds
\* the conversation up to the call (StreamingSession._respond), whether the
\* standby took the call or was started again.
THEOREM ToolCallLeavesWarmEngine == Spec => []WarmAfterToolCall
<1>1. Inv => WarmAfterToolCall
  BY DEF Inv, ResponseHolds, WarmEngine, WarmAfterToolCall
<1> QED  BY <1>1, RequestsHeld, PTL

=============================================================================
