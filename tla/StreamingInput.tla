--------------------------- MODULE StreamingInput ---------------------------
(***************************************************************************)
(* A streaming-input session of the vLLM server: StreamingSession feeds a  *)
(* growing prompt to _EngineRequests and streams the answer of each commit *)
(* back to the caller.                                                     *)
(*                                                                         *)
(* Concurrent asyncio tasks, interleaved at their awaits:                  *)
(*   main      serve, one event at a time;                                 *)
(*   resp      _respond, the answer being streamed;                        *)
(*   req[r]    the _run task of each engine request.                       *)
(* A prompt is a sequence of tokens: the conversation, the user's words    *)
(* and, once committed, the mark that asks for an answer.                  *)
(***************************************************************************)
EXTENDS Naturals, Sequences, SequencesExt, FiniteSets

CONSTANTS
  Words,      \* what the user may say
  MaxWords,   \* words in the text buffer
  MaxAnswers, \* commits
  MaxRequests \* engine requests that exist at a time

ASSUME StreamingAssumption ==
  MaxWords \in Nat /\ MaxAnswers \in Nat /\ MaxRequests \in Nat \ {0}

Request == 1..MaxRequests
None    == 0

VARIABLES
  conversation, \* request["messages"]
  text,         \* the user text buffer
  engine,       \* _engine, or None
  standby,      \* _standby, or None
  main,         \* what serve awaits
  resp,         \* the task in _response_task, and what it awaits
  answers,      \* the committed answers
  req           \* the engine requests

vars == <<conversation, text, engine, standby, main, resp, answers, req>>

Free == [run |-> "free", cancelled |-> FALSE, closed |-> FALSE, busy |-> FALSE,
         fed |-> <<>>, got |-> <<>>, next |-> 0, cur |-> 0, answered |-> 0]

(***************************************************************************)
(* Rendering.  Before the commit the last word is held back, as the ASR    *)
(* may still extend it.                                                    *)
(***************************************************************************)
HeardWords(words) == IF words = <<>> THEN <<>> ELSE Front(words)
PrefillPrompt(conv, words) == conv \o HeardWords(words)
CommitPrompt(conv, words)  == conv \o words \o <<"assistant">>
\* The answer as the template renders it back: it may drop tokens.
AnswerPrompt(prompt, kept) == IF kept THEN prompt \o <<"call">> ELSE Front(prompt) \o <<"call">>

(***************************************************************************)
(* _EngineRequest: feed and stop, on the table of requests.                *)
(* fed is what was queued, got what the engine has been given of it.       *)
(***************************************************************************)
ExtendsAny(q, tokens) == ~q.closed
Extends(q, tokens) == ~q.closed /\ IsPrefix(q.fed, tokens)

\* The first feed starts the run; feed never starts a second one.
Feed(q, tokens, k) ==
  LET delta == SubSeq(tokens, Len(q.fed) + 1, Len(tokens))
  IN IF delta = <<>> /\ k = 0 THEN q
     ELSE [q EXCEPT !.fed = @ \o delta, !.next = k,
                    !.run = IF @ = "free" THEN "running" ELSE @]

Stop(q) == [q EXCEPT !.closed = TRUE, !.cancelled = q.run = "running"]

FreeSlot(table) == CHOOSE r \in Request : table[r].run = "free"

\* The answer of q is put on its queue or ended there; only the response that
\* streams this answer reads it.
Output(q, outcome) ==
  IF q.cur # 0 /\ resp.ans = q.cur THEN resp' = [resp EXCEPT !.outputs = outcome]
  ELSE UNCHANGED resp

(***************************************************************************)
(* serve: receiving an event.                                              *)
(***************************************************************************)
Idle == [at |-> "idle", event |-> "none", tokens |-> <<>>, stopping |-> None]

\* What the session or one of its tasks still refers to.
Held == {engine, standby, main.stopping, resp.own, resp.stopping}
Leaked == {r \in Request : req[r].run # "free"} \ Held

\* MaxRequests bounds the model: no event once requests that leaked, or may
\* leak from the response in progress, leave no room for an engine and a standby.
Receiving ==
  /\ main.at = "idle"
  /\ Cardinality(Leaked) + (IF resp.at = "rest" THEN 0 ELSE 1) <= MaxRequests - 2

\* _prefill returns early while no whole word has been heard.
Prefill(conv, words) ==
  main' = IF HeardWords(words) = <<>> THEN Idle
          ELSE [Idle EXCEPT !.at = "render", !.event = "prefill",
                            !.tokens = PrefillPrompt(conv, words)]

\* The caller sends the conversation: a new one, or the one so far with the
\* tool call of the last answer and its result.
FollowUps == IF answers = <<>> \/ Last(answers).said = <<>> THEN {}
             ELSE {Append(Last(answers).said, "tool")}

SessionUpdate ==
  /\ Receiving
  /\ \E conv \in {<<"system">>} \cup FollowUps :
       /\ conv # conversation
       /\ conversation' = conv
       /\ Prefill(conv, text)
  /\ UNCHANGED <<text, engine, standby, resp, answers, req>>

AppendText ==
  /\ Receiving
  /\ Len(text) < MaxWords
  /\ \E w \in Words : text' = Append(text, w) /\ Prefill(conversation, Append(text, w))
  /\ UNCHANGED <<conversation, engine, standby, resp, answers, req>>

ClearText ==
  /\ Receiving
  /\ text # <<>>
  /\ text' = <<>>
  /\ UNCHANGED <<conversation, engine, standby, main, resp, answers, req>>

Commit ==
  /\ Receiving
  /\ Len(answers) < MaxAnswers
  /\ main' = [Idle EXCEPT !.at = "render", !.event = "commit",
                          !.tokens = CommitPrompt(conversation, text)]
  /\ UNCHANGED <<conversation, text, engine, standby, resp, answers, req>>

(***************************************************************************)
(* serve: what follows the event.                                          *)
(***************************************************************************)
Quiet == [at |-> "rest", ans |-> 0, outputs |-> "none", own |-> None, stopping |-> None,
          aborting |-> FALSE, cancelled |-> FALSE]

\* The end of _feed, and for a commit the new answer and its task.
FeedRequest(table, r, m) ==
  LET k == IF m.event = "commit" THEN Len(answers) + 1 ELSE 0
  IN /\ engine' = r
     /\ req' = [table EXCEPT ![r] = Feed(@, m.tokens, k)]
     /\ main' = Idle
     /\ IF k = 0 THEN UNCHANGED <<text, answers, resp>>
        ELSE /\ text' = <<>>
             /\ answers' = Append(answers, [prompt |-> m.tokens, said |-> <<>>])
             /\ resp' = [Quiet EXCEPT !.at = "stream", !.ans = k, !.outputs = "queued"]

StopEngine(m) ==
  /\ req' = [req EXCEPT ![engine] = Stop(@)]
  /\ main' = [m EXCEPT !.at = "stop", !.stopping = engine]
  /\ engine' = None
  /\ UNCHANGED <<text, answers, resp>>

\* From _cancel_response on, when no answer is streaming.
Proceed(m) ==
  \/ /\ m.event \in {"prefill", "commit"}
     /\ IF engine = None THEN FeedRequest(req, FreeSlot(req), m)
        ELSE IF Extends(req[engine], m.tokens) THEN FeedRequest(req, engine, m)
        ELSE StopEngine(m)
  \/ /\ m.event = "cancel"
     /\ main' = Idle
     /\ UNCHANGED <<text, engine, resp, answers, req>>
  \/ /\ m.event = "disconnect"
     /\ IF engine # None THEN StopEngine(m)
        ELSE main' = [Idle EXCEPT !.at = "closed"] /\ UNCHANGED <<text, engine, resp, answers, req>>

\* The answer in progress is cancelled and awaited, which stops its engine too.
CancelThenProceed(m) ==
  /\ IF resp.at = "rest" THEN Proceed(m)
     ELSE /\ resp' = [resp EXCEPT !.cancelled = TRUE]
          /\ main' = [m EXCEPT !.at = "cancel"]
          /\ UNCHANGED <<text, engine, answers, req>>
  /\ UNCHANGED <<conversation, standby>>

RenderReturns == main.at = "render" /\ CancelThenProceed(main)

RenderFails ==
  /\ main.at = "render"
  /\ main' = Idle
  /\ UNCHANGED <<conversation, text, engine, standby, resp, answers, req>>

Cancel == Receiving /\ CancelThenProceed([Idle EXCEPT !.event = "cancel"])

Disconnect == main.at = "idle" /\ CancelThenProceed([Idle EXCEPT !.event = "disconnect"])

ResponseCancelled ==
  /\ main.at = "cancel"
  /\ resp.at = "rest"
  /\ StopEngine(main)
  /\ UNCHANGED <<conversation, standby>>

\* stop() returns: the run is over and the request aborted.
MainStopped ==
  LET r == main.stopping
      table == [req EXCEPT ![r] = Free]
  IN /\ main.at = "stop"
     /\ req[r].run = "over"
     /\ \/ main.event \in {"prefill", "commit"} /\ FeedRequest(table, r, main)
        \/ /\ main.event = "cancel"
           /\ main' = Idle
           /\ req' = table
           /\ UNCHANGED <<text, engine, answers, resp>>
        \/ /\ main.event = "disconnect"
           /\ main' = [Idle EXCEPT !.at = "closed"]
           /\ req' = table
           /\ UNCHANGED <<text, engine, answers, resp>>
     /\ UNCHANGED <<conversation, standby>>

(***************************************************************************)
(* _respond.  A cancellation is raised at whatever it awaits: it ends the  *)
(* task through its finally, except where stop() joins a run, which        *)
(* swallows it.                                                            *)
(***************************************************************************)
Responding(at) == resp.at = at /\ ~resp.cancelled

WithStandby ==
  LET r == FreeSlot(req)
  IN IF standby # None THEN [id |-> standby, table |-> req]
     ELSE [id |-> r, table |-> [req EXCEPT ![r] = Feed(@, answers[resp.ans].prompt, 0)]]

\* The finally: a standby nobody took is stopped.
Tidy ==
  /\ standby' = None
  /\ IF standby = None THEN resp' = Quiet /\ UNCHANGED req
     ELSE /\ resp' = [resp EXCEPT !.at = "tidy", !.outputs = "none", !.own = None,
                                  !.stopping = standby, !.aborting = FALSE, !.cancelled = FALSE]
          /\ req' = [req EXCEPT ![standby] = Stop(@)]

\* The first delta with a tool call in it.
ToolCallStarts ==
  /\ Responding("stream")
  /\ standby = None
  /\ resp.outputs # "queued" \/ \E r \in Request : req[r].cur = resp.ans
  /\ standby' = WithStandby.id
  /\ req' = WithStandby.table
  /\ UNCHANGED <<conversation, text, engine, main, resp, answers>>

\* The stream ends: only an answer that finished can have called a tool.
AnswerStreamed ==
  /\ Responding("stream")
  /\ resp.outputs \in {"finished", "cut"}
  /\ \/ resp' = [resp EXCEPT !.at = "finish", !.outputs = "none"] /\ UNCHANGED <<standby, req>>
     \/ /\ resp.outputs = "finished"
        /\ resp' = [resp EXCEPT !.at = "render", !.outputs = "none", !.own = WithStandby.id]
        /\ standby' = None
        /\ req' = WithStandby.table
  /\ UNCHANGED <<conversation, text, engine, main, answers>>

StreamFails ==
  /\ Responding("stream")
  /\ Tidy
  /\ UNCHANGED <<conversation, text, engine, main, answers>>

SwapEngineUnfed(table, r, tokens) ==
  /\ engine' = r
  /\ req' = [table EXCEPT ![engine] = Stop(@)]
  /\ resp' = [resp EXCEPT !.at = "retire", !.own = None, !.stopping = engine, !.aborting = FALSE]

\* The standby r is given the call and becomes the engine, and the finished one
\* is stopped.
SwapEngine(table, r, tokens) ==
  /\ engine' = r
  /\ req' = [table EXCEPT ![r] = Feed(@, tokens, 0), ![engine] = Stop(@)]
  /\ resp' = [resp EXCEPT !.at = "retire", !.own = None, !.stopping = engine, !.aborting = FALSE]

CallRendered ==
  /\ Responding("render")
  /\ \E kept \in BOOLEAN :
       LET tokens == AnswerPrompt(answers[resp.ans].prompt, kept)
       IN /\ answers' = [answers EXCEPT ![resp.ans].said = tokens]
          /\ IF Extends(req[resp.own], tokens) THEN SwapEngine(req, resp.own, tokens)
             ELSE /\ resp' = [resp EXCEPT !.at = "restart", !.stopping = resp.own, !.own = None]
                  /\ req' = [req EXCEPT ![resp.own] = Stop(@)]
                  /\ UNCHANGED engine
  /\ UNCHANGED <<conversation, text, standby, main>>

\* The standby is a local variable by now: the finally does not find it.
CallRenderFails ==
  /\ Responding("render")
  /\ Tidy
  /\ UNCHANGED <<conversation, text, engine, main, answers>>

\* stop() has seen the run's end, cancelled or not, and aborts the request.
Joined ==
  /\ resp.at \in {"restart", "retire", "tidy"}
  /\ ~resp.aborting
  /\ req[resp.stopping].run = "over"
  /\ resp' = [resp EXCEPT !.aborting = TRUE, !.cancelled = FALSE]
  /\ UNCHANGED <<conversation, text, engine, standby, main, answers, req>>

Aborted ==
  /\ resp.at \in {"restart", "retire", "tidy"}
  /\ resp.aborting
  /\ ~resp.cancelled
  /\ LET table == [req EXCEPT ![resp.stopping] = Free]
     IN \/ resp.at = "restart" /\ SwapEngine(table, resp.stopping, answers[resp.ans].said)
        \/ /\ resp.at = "retire"
           /\ resp' = [resp EXCEPT !.at = "finish", !.stopping = None, !.aborting = FALSE]
           /\ req' = table
           /\ UNCHANGED engine
        \/ resp.at = "tidy" /\ resp' = Quiet /\ req' = table /\ UNCHANGED engine
  /\ UNCHANGED <<conversation, text, standby, main, answers>>

\* response.done is sent.
Done ==
  /\ Responding("finish")
  /\ Tidy
  /\ UNCHANGED <<conversation, text, engine, main, answers>>

CancelRaised ==
  /\ resp.cancelled
  /\ \/ resp.at \in {"stream", "render", "finish"} /\ Tidy
     \/ /\ resp.aborting
        /\ resp' = Quiet
        /\ req' = [req EXCEPT ![resp.stopping] = Free]
        /\ UNCHANGED standby
  /\ UNCHANGED <<conversation, text, engine, main, answers>>

(***************************************************************************)
(* _run and _inputs, driven by the engine.                                 *)
(***************************************************************************)
Running(r) == req[r].run = "running" /\ ~req[r].cancelled

\* The engine takes the next chunk, with all that was queued since the last.
Pull(r) ==
  /\ Running(r)
  /\ ~req[r].busy
  /\ req[r].answered = 0
  /\ req[r].got # req[r].fed \/ req[r].next # 0
  /\ req' = [req EXCEPT ![r].got = req[r].fed, ![r].cur = req[r].next,
                        ![r].answered = req[r].next, ![r].next = 0, ![r].busy = TRUE]
  /\ UNCHANGED <<conversation, text, engine, standby, main, resp, answers>>

\* Asked for the next input after an answer, _inputs closes the request.
CloseInput(r) ==
  /\ Running(r)
  /\ req[r].answered # 0
  /\ ~req[r].closed
  /\ req' = [req EXCEPT ![r].closed = TRUE]
  /\ UNCHANGED <<conversation, text, engine, standby, main, resp, answers>>

\* The throwaway token of a prefilled chunk.
Prefilled(r) ==
  /\ Running(r)
  /\ req[r].busy
  /\ req[r].cur = 0
  /\ req' = [req EXCEPT ![r].busy = FALSE]
  /\ UNCHANGED <<conversation, text, engine, standby, main, resp, answers>>

AnswerFinishes(r) ==
  /\ Running(r)
  /\ req[r].cur # 0
  /\ Output(req[r], "finished")
  /\ req' = [req EXCEPT ![r].cur = 0, ![r].busy = FALSE]
  /\ UNCHANGED <<conversation, text, engine, standby, main, answers>>

\* The finally of _run.  A request nobody holds is garbage then.
RunOverSilently(r) ==
  /\ req' = [req EXCEPT ![r] =
        IF r \in Held THEN [Free EXCEPT !.run = "over", !.fed = req[r].fed,
                                         !.next = req[r].next, !.closed = req[r].closed]
        ELSE Free]
  /\ UNCHANGED <<conversation, text, engine, standby, main, resp, answers>>

RunOver(r) ==
  /\ req' = [req EXCEPT ![r] =
        IF r \in Held THEN [Free EXCEPT !.run = "over", !.fed = req[r].fed,
                                         !.next = req[r].next, !.closed = req[r].closed]
        ELSE Free]
  /\ Output(req[r], "cut")
  /\ UNCHANGED <<conversation, text, engine, standby, main, answers>>

RunEnds(r)      == Running(r) /\ req[r].closed /\ ~req[r].busy /\ RunOver(r)
RunFails(r)     == Running(r) /\ RunOver(r)
RunCancelled(r) == req[r].cancelled /\ RunOver(r)

(***************************************************************************)
(* The specification.                                                      *)
(***************************************************************************)
Init ==
  /\ conversation = <<"system">>
  /\ text = <<>>
  /\ engine = None
  /\ standby = None
  /\ main = Idle
  /\ resp = Quiet
  /\ answers = <<>>
  /\ req = [r \in Request |-> Free]

Serve   == RenderReturns \/ RenderFails \/ ResponseCancelled \/ MainStopped
Respond == AnswerStreamed \/ CallRendered \/ CallRenderFails
           \/ Joined \/ Aborted \/ Done \/ CancelRaised
Run(r)  == Pull(r) \/ CloseInput(r) \/ Prefilled(r) \/ AnswerFinishes(r)
           \/ RunEnds(r) \/ RunCancelled(r)

Next ==
  \/ SessionUpdate \/ AppendText \/ ClearText \/ Commit \/ Cancel \/ Disconnect
  \/ Serve
  \/ ToolCallStarts \/ StreamFails
  \/ Respond
  \/ \E r \in Request : Run(r) \/ RunFails(r)

Spec == Init /\ [][Next]_vars

\* Tasks run; a render, a send or an abort returns or raises; the engine works
\* on what it is given.
FairSpec ==
  /\ Spec
  /\ WF_vars(Serve)
  /\ WF_vars(Respond)
  /\ \A r \in Request : WF_vars(Run(r))

(***************************************************************************)
(* Properties.                                                             *)
(***************************************************************************)
Token  == Words \cup {"system", "assistant", "call", "tool"}

RequestStates ==
  [run : {"free", "running", "over"}, cancelled : BOOLEAN, closed : BOOLEAN, busy : BOOLEAN,
   fed : Seq(Token), got : Seq(Token), next : Nat, cur : Nat, answered : Nat]

\* The variables keep to their ranges.
TypeOK ==
  /\ conversation \in Seq(Token) /\ text \in Seq(Words)
  /\ engine \in Request \cup {None} /\ standby \in Request \cup {None}
  /\ main \in [at : {"idle", "render", "cancel", "stop", "closed"},
               event : {"none", "prefill", "commit", "cancel", "disconnect"},
               tokens : Seq(Token), stopping : Request \cup {None}]
  /\ resp \in [at : {"rest", "stream", "render", "restart", "retire", "tidy", "finish"},
               ans : Nat, outputs : {"none", "queued", "finished", "cut"},
               own : Request \cup {None}, stopping : Request \cup {None},
               aborting : BOOLEAN, cancelled : BOOLEAN]
  /\ answers \in Seq([prompt : Seq(Token), said : Seq(Token)])
  /\ req \in [Request -> RequestStates]

\* An answer is generated from exactly the prompt of its commit, whatever was
\* prefilled, revised, merged or superseded before, and nothing is added to
\* its request after it.
AnswerFromItsPrompt ==
  \A r \in Request : req[r].answered # 0 => req[r].got = answers[req[r].answered].prompt

\* An answer that called a tool leaves the conversation, ending with the call,
\* in an open request that the follow-up turn extends.
WarmAfterToolCall ==
  resp.at = "finish" /\ answers[resp.ans].said # <<>> =>
    engine # None /\ ~req[engine].closed /\ req[engine].fed = answers[resp.ans].said

(***************************************************************************)
(* Why they hold: who holds which request, and what it has been fed.       *)
(***************************************************************************)
\* serve holds a request only while it stops it, and a response a standby of its
\* own or one it stops, never two, and never one that serve or engine holds.
MainHolds ==
  /\ main.stopping # None <=> main.at = "stop"
  /\ main.at = "stop" => resp.at = "rest" /\ engine = None
  /\ main.at = "cancel" => engine # None
  /\ main.at = "render" => main.event \in {"prefill", "commit"}
  /\ main.event \in {"prefill", "commit"} => main.tokens # <<>>

ResponseHolds ==
  /\ resp.own # None <=> resp.at = "render"
  /\ resp.stopping # None <=> resp.at \in {"restart", "retire", "tidy"}
  /\ standby # None => resp.at \in {"stream", "finish"}
  /\ resp.aborting => resp.stopping # None
  /\ resp.at = "rest" => ~resp.cancelled /\ resp.ans = 0
  /\ resp.at # "rest" =>
       /\ resp.ans \in DOMAIN answers
       /\ engine # None /\ engine \notin {standby, resp.own, resp.stopping}

\* What is held is in use, and a request that is not in use is as new.
HeldInUse ==
  /\ \A r \in Held \ {None} : req[r].run # "free"
  /\ \A r \in Request : req[r].run = "free" => req[r] = Free

\* What a request is to answer is the prompt it was fed last, what it answers
\* the prompt it was given.
FedItsPrompt ==
  \A r \in Request :
    /\ req[r].next # 0 =>
         req[r].next \in DOMAIN answers /\ req[r].fed = answers[req[r].next].prompt
    /\ req[r].answered # 0 =>
         req[r].answered \in DOMAIN answers /\ req[r].got = answers[req[r].answered].prompt
    /\ req[r].cur \in {0, req[r].answered}

\* A standby is never asked for an answer, nor the engine it becomes before the
\* response that called the tool is over.
Unasked(r) == req[r].next = 0 /\ req[r].answered = 0

WarmEngine ==
  /\ \A a \in DOMAIN answers : answers[a].prompt # <<>>
  /\ \A r \in {standby, resp.own} \ {None} : Unasked(r)
  /\ resp.at \in {"stream", "render"} => answers[resp.ans].said = <<>>
  /\ resp.at \in {"restart", "retire"} => answers[resp.ans].said # <<>>
  /\ resp.at \in {"retire", "finish"} /\ answers[resp.ans].said # <<>> =>
       Unasked(engine) /\ ~req[engine].closed /\ req[engine].fed = answers[resp.ans].said

\* MaxRequests never keeps a handler from the request it makes.
RoomLeft ==
  /\ resp.at = "stream" => Cardinality(Leaked) <= MaxRequests - 2
  /\ main.at \notin {"idle", "closed"} /\ main.event \in {"prefill", "commit"} =>
       Cardinality(Leaked) + (IF resp.at \in {"stream", "render"} THEN 1 ELSE 0)
         <= MaxRequests - 2

Inv == TypeOK /\ MainHolds /\ ResponseHolds /\ HeldInUse /\ FedItsPrompt /\ WarmEngine /\ RoomLeft

\* The answer resp waits for was queued on a request whose run is over.
Unanswerable == \E r \in Request : req[r].run = "over" /\ req[r].next = resp.ans

\* A response that has begun comes to an end, unless its request was dead.
AnswerEnds == resp.at = "stream" ~> (resp.at = "rest" \/ (resp.at = "stream" /\ Unanswerable))

\* A commit generates the answer and ends the request.
CommitAnswered == resp.at = "stream" ~> resp.at # "stream"

\* After the disconnect no engine request runs on.
NoneLeftRunning == main.at = "closed" => \A r \in Request : req[r].run # "running"
=============================================================================
