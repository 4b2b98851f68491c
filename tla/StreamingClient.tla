-------------------------- MODULE StreamingClient --------------------------
(***************************************************************************)
(* The client of the streaming-input session: NvidiaStreamingLLMService of *)
(* examples/shared/nvidia_streaming_llm.py sends the user turn to the vLLM *)
(* server as it is heard and commits it when it ends.  It never asks the   *)
(* server what it holds: _session_request and _session_text are what the   *)
(* client believes, updated as it sends.  The server side here is only     *)
(* what vllm_streaming_input/server.py does to its request, its text and   *)
(* its answer; StreamingInput models the rest of it.                       *)
(***************************************************************************)
EXTENDS Naturals, Sequences, SequencesExt

CONSTANTS Words,
          MaxWords,  \* words of a turn
          MaxTurns, MaxUpdates, MaxLinks

Texts == SeqOf(Words, MaxWords)
Empty == 0  \* the request of a session that was given none

VARIABLES
    at,       \* where the client's frame handler is
    job,      \* the user turn it handles: an update, or the commit
    session,  \* _session_request and _session_text
    link,     \* the websocket
    toServer, toClient,
    server,   \* request, text and the answer of the StreamingSession
    history,  \* version of the conversation before this user turn
    updates,  \* transcripts of this turn so far
    links,    \* websockets opened
    yielded,  \* the prompt behind the chunks yielded for this commit
    marred    \* a commit failed or a connect was cut short on this websocket

vars == <<at, job, session, link, toServer, toClient, server, history, updates, links, yielded, marred>>
peer == <<toClient, server>>
clock == <<history, updates>>

Believed(request, text) == [request |-> request, text |-> text]
NoAnswer == [id |-> 0, prompt |-> Believed(Empty, <<>>), begun |-> FALSE]
FreshServer == [request |-> Empty, text |-> <<>>, answer |-> NoAnswer]
NoJob == [commit |-> FALSE, request |-> Empty, text |-> <<>>]

Init == /\ at = "idle" /\ job = NoJob /\ session = Believed(Empty, <<>>)
        /\ link = "down" /\ toServer = <<>> /\ toClient = <<>> /\ server = FreshServer
        /\ history = 1 /\ updates = 0 /\ links = 0
        /\ yielded = NoAnswer.prompt /\ marred = FALSE

Event(type) == [type |-> type, request |-> Empty, text |-> <<>>, id |-> 0]

-----------------------------------------------------------------------------
(* The client.  A handler runs alone up to its end or to an interruption.  *)

Begin(commit, text) ==
    /\ at = "idle"
    /\ job' = [commit |-> commit, request |-> history, text |-> text]
    /\ at' = IF link = "down" THEN "connecting" ELSE "syncing"
    /\ yielded' = NoAnswer.prompt
    /\ UNCHANGED <<session, link, toServer, peer, history, links, marred>>

\* A StreamingLLMInputFrame: the user turn as heard so far.
Update == /\ updates < MaxUpdates /\ history <= MaxTurns /\ updates' = updates + 1
          /\ \E text \in Texts \ {<<>>} : Begin(FALSE, text)

\* get_chat_completions; after a tool call the last message is not the user's.
Commit == /\ history <= MaxTurns /\ UNCHANGED updates
          /\ \E text \in Texts : Begin(TRUE, text)

\* The handler is over; a committed turn, answered or not, is history.
Over == /\ at' = "idle" /\ job' = NoJob
        /\ IF job.commit THEN history' = history + 1 /\ updates' = 0 ELSE UNCHANGED clock

\* _disconnect
Disconnected == link' = "down" /\ toServer' = <<>> /\ toClient' = <<>> /\ server' = FreshServer

Connect ==
    /\ at = "connecting"
    /\ \/ /\ links < MaxLinks
          /\ link' = "up" /\ links' = links + 1 /\ at' = "created"
          /\ UNCHANGED <<job, history, updates>>
       \/ Over /\ UNCHANGED <<link, links>>
    /\ UNCHANGED <<session, toServer, peer, yielded, marred>>

\* Variant for sensitivity: the new session is taken to hold the old request.
CreatedKeepingRequest ==
    /\ at = "created" /\ link = "up"
    /\ session' = [session EXCEPT !.text = <<>>]
    /\ at' = "syncing" /\ marred' = FALSE
    /\ UNCHANGED <<job, link, toServer, peer, history, updates, links, yielded>>

\* session.created arrives.
Created ==
    /\ at = "created" /\ link = "up"
    /\ session' = Believed(Empty, <<>>)
    /\ at' = "syncing" /\ marred' = FALSE
    /\ UNCHANGED <<job, link, toServer, peer, history, updates, links, yielded>>

Fails ==
    /\ at \in {"created", "syncing"} /\ link = "lost"
    /\ Over /\ Disconnected
    /\ UNCHANGED <<session, links, yielded, marred>>

\* _sync_session, and the commit.
Extends == IsPrefix(session.text, job.text)
Unsent  == IF Extends THEN SubSeq(job.text, Len(session.text) + 1, Len(job.text)) ELSE job.text
SyncEvents ==
    (IF job.request = session.request THEN <<>>
     ELSE <<[Event("session.update") EXCEPT !.request = job.request]>>)
    \o (IF Extends THEN <<>> ELSE <<Event("input_text_buffer.clear")>>)
    \o (IF Unsent = <<>> THEN <<>> ELSE <<[Event("input_text_buffer.append") EXCEPT !.text = Unsent]>>)
    \o (IF job.commit THEN <<[Event("input_text_buffer.commit") EXCEPT !.id = history]>> ELSE <<>>)

\* On a lost websocket that has not noticed yet, what is sent goes nowhere.
Sync ==
    /\ at = "syncing"
    /\ toServer' = IF link = "up" THEN toServer \o SyncEvents ELSE toServer
    /\ session' = Believed(job.request, IF job.commit THEN <<>> ELSE job.text)
    /\ IF job.commit THEN at' = "streaming" /\ UNCHANGED <<job, history, updates>> ELSE Over
    /\ UNCHANGED <<link, peer, links, yielded, marred>>

\* The finally of _response_chunks, unless the response is done.
GivesUp ==
    IF link = "up"
    THEN /\ toServer' = Append(toServer, [Event("response.cancel") EXCEPT !.id = history])
         /\ UNCHANGED <<link, server>>
    ELSE link' = "down" /\ toServer' = <<>> /\ server' = FreshServer

\* Only the chunks of this response are yielded.
Mine(event) == event.id = history

Receive ==
    /\ at = "streaming" /\ toClient # <<>>
    /\ LET event == Head(toClient) IN
         CASE event.type = "error" -> Over /\ GivesUp /\ UNCHANGED yielded
           [] event.type = "response.done" /\ Mine(event) ->
                Over /\ UNCHANGED <<link, toServer, server, yielded>>
           [] OTHER -> /\ yielded' = IF event.type = "response.delta" /\ Mine(event)
                                     THEN Believed(event.request, event.text) ELSE yielded
                       /\ UNCHANGED <<at, job, history, updates, link, toServer, server>>
    /\ toClient' = Tail(toClient)
    /\ UNCHANGED <<session, links, marred>>

ReceiveFails ==
    /\ at = "streaming" /\ link = "lost" /\ toClient = <<>>
    /\ Over /\ GivesUp
    /\ UNCHANGED <<session, toClient, links, yielded, marred>>

\* The user interrupts: the handler is cancelled where it waits.
Interrupt ==
    /\ \/ at = "streaming" /\ GivesUp /\ UNCHANGED marred
       \/ at = "connecting" /\ UNCHANGED <<link, toServer, server, marred>>
       \/ at = "created" /\ marred' = TRUE /\ UNCHANGED <<link, toServer, server>>
    /\ Over
    /\ UNCHANGED <<session, toClient, links, yielded>>

\* stop and cancel close the session between two handlers.
Close == /\ at = "idle" /\ link # "down" /\ Disconnected
         /\ UNCHANGED <<at, job, session, history, updates, links, yielded, marred>>

-----------------------------------------------------------------------------
(* The server, one event at a time, and its answer.                        *)

Error == Event("error")

Serve ==
    LET event == Head(toServer)
        told(s, ok) == /\ server' = s
                       /\ toClient' = IF ok THEN toClient ELSE Append(toClient, Error)
    IN /\ link = "up" /\ toServer # <<>>
       /\ toServer' = Tail(toServer)
       /\ \E ok \in BOOLEAN :  \* whether the prompt renders
            CASE event.type = "session.update" ->
                   told([server EXCEPT !.request = event.request], ok) /\ UNCHANGED marred
              [] event.type = "input_text_buffer.append" ->
                   told([server EXCEPT !.text = @ \o event.text], ok) /\ UNCHANGED marred
              [] event.type = "input_text_buffer.clear" ->
                   ok /\ told([server EXCEPT !.text = <<>>], ok) /\ UNCHANGED marred
              [] event.type = "response.cancel" ->
                   ok /\ told([server EXCEPT !.answer = NoAnswer], ok) /\ UNCHANGED marred
              [] event.type = "input_text_buffer.commit" ->
                   /\ told(IF ~ok THEN server
                           ELSE [server EXCEPT !.text = <<>>,
                                   !.answer = [id |-> event.id, begun |-> FALSE,
                                               prompt |-> Believed(server.request, server.text)]], ok)
                   /\ marred' = (marred \/ ~ok)
       /\ UNCHANGED <<at, job, session, link, history, updates, links, yielded>>

\* A delta of the answer, its end, or its failure.
Answer ==
    LET a == server.answer IN
    /\ link = "up" /\ a.id # 0
    /\ \/ /\ ~a.begun
          /\ server' = [server EXCEPT !.answer.begun = TRUE]
          /\ toClient' = Append(toClient, [type |-> "response.delta", id |-> a.id,
                                           request |-> a.prompt.request, text |-> a.prompt.text])
       \/ /\ server' = [server EXCEPT !.answer = NoAnswer]
          /\ toClient' = Append(toClient, [Event("response.done") EXCEPT !.id = a.id])
       \/ /\ server' = [server EXCEPT !.answer = NoAnswer]
          /\ toClient' = Append(toClient, Error)
    /\ UNCHANGED <<at, job, session, link, toServer, history, updates, links, yielded, marred>>

LoseLink == /\ link = "up" /\ link' = "lost" /\ toServer' = <<>>
            /\ UNCHANGED <<at, job, session, peer, history, updates, links, yielded, marred>>

Next == \/ Update \/ Commit \/ Connect \/ Created \/ Fails \/ Sync \/ Receive \/ ReceiveFails
        \/ Interrupt \/ Close \/ Serve \/ Answer \/ LoseLink

Spec == Init /\ [][Next]_vars

-----------------------------------------------------------------------------
\* The chunks yielded for a committed turn answer that turn: its conversation and
\* the user's final words, whatever interims, retractions, lost websockets and
\* interrupted answers came before (_sync_session, _response_chunks).
AnswersTheTurn ==
    at = "streaming" /\ yielded # NoAnswer.prompt => yielded = Believed(job.request, job.text)

\* AnswersTheTurn as long as every commit on the websocket rendered and no
\* interruption cut its opening short.
UnmarredAnswers == ~marred => AnswersTheTurn

-----------------------------------------------------------------------------
\* The inductive invariant.
Sessions == [request : Nat, text : Seq(Words)]
ServerEvents == {"session.update", "input_text_buffer.append", "input_text_buffer.clear",
                 "input_text_buffer.commit", "response.cancel"}
ClientEvents == {"response.delta", "response.done", "error"}
Events(types) == [type : types, request : Nat, text : Seq(Words), id : Nat]
TypeOK ==
    /\ at \in {"idle", "connecting", "created", "syncing", "streaming"}
    /\ job \in [commit : BOOLEAN, request : Nat, text : Seq(Words)]
    /\ session \in Sessions /\ yielded \in Sessions
    /\ link \in {"down", "up", "lost"}
    /\ toServer \in Seq(Events(ServerEvents)) /\ toClient \in Seq(Events(ClientEvents))
    /\ server \in [request : Nat, text : Seq(Words),
                   answer : [id : Nat, prompt : Sessions, begun : BOOLEAN]]
    /\ history \in Nat \ {0} /\ marred \in BOOLEAN

\* A turn is asked for under the version of the conversation it belongs to, and
\* no commit, answer or cancellation bears the version of a turn not yet streamed.
IdsOfTurnsSent ==
    LET sent == IF at = "streaming" THEN history ELSE history - 1 IN
    /\ at # "idle" => job.request = history
    /\ at = "streaming" => job.commit
    /\ \A i \in DOMAIN toServer : toServer[i].id <= sent
    /\ \A i \in DOMAIN toClient : toClient[i].id <= sent
    /\ server.answer.id <= sent

\* A websocket that is not open has nobody behind it; a new one starts afresh.
FreshWithoutLink ==
    /\ link # "up" => toServer = <<>>
    /\ at = "connecting" => link = "down"
    /\ at = "created" => link # "down" /\ toServer = <<>>
    /\ (link = "down" \/ at = "created") => server = FreshServer

\* What an event makes of the session on the server, and the sessions it goes
\* through while it serves events q from state s.
Served(s, e) ==
    CASE e.type = "session.update" -> Believed(e.request, s.text)
      [] e.type = "input_text_buffer.append" -> Believed(s.request, s.text \o e.text)
      [] e.type \in {"input_text_buffer.clear", "input_text_buffer.commit"} -> Believed(s.request, <<>>)
      [] e.type = "response.cancel" -> s
Serving(q, s) == LET run[i \in 0 .. Len(q)] == IF i = 0 THEN s ELSE Served(run[i - 1], q[i]) IN run

\* What the client believes is what the server will hold once it has served what
\* is on its way, and the commit of this turn will find its words.
BelievedOnceServed ==
    (link = "up" /\ at # "created" /\ ~marred) =>
        LET run == Serving(toServer, Believed(server.request, server.text))
        IN /\ run[Len(toServer)] = session
           /\ \A i \in DOMAIN toServer :
                (toServer[i].type = "input_text_buffer.commit" /\ toServer[i].id = history)
                  => run[i - 1] = Believed(job.request, job.text)

\* Nothing is yielded before the commit is sent; then the answer in the making, and
\* what of it is on its way, are of this turn.
AnswerOfTurn ==
    /\ at \in {"connecting", "created", "syncing"} => yielded = NoAnswer.prompt
    /\ ~marred =>
        /\ server.answer.id = history => server.answer.prompt = Believed(job.request, job.text)
        /\ \A i \in DOMAIN toClient :
             (toClient[i].type = "response.delta" /\ toClient[i].id = history)
               => Believed(toClient[i].request, toClient[i].text) = Believed(job.request, job.text)

Inv == TypeOK /\ IdsOfTurnsSent /\ FreshWithoutLink /\ BelievedOnceServed /\ AnswerOfTurn /\ UnmarredAnswers
=============================================================================
