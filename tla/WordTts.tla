---- MODULE WordTts ----
(***************************************************************************)
(* The synthesis streams of the WordTTS service (shared/nvidia_word_tts):  *)
(* one stream, with a gRPC thread and a response task, per audio context   *)
(* of an LLM response.  A stream is stopped by an interruption, and        *)
(* superseded when the next response starts while it still synthesises;    *)
(* its task then finishes beside the newer one.  The base service creates  *)
(* streams and stops them (pipecat).                                       *)
(***************************************************************************)
EXTENDS Integers, Sequences, FiniteSets

CONSTANTS Contexts,    \* LLM responses, 1..n in their order
          MaxTokens,   \* bound: tokens of a response
          MaxStreams,  \* bound: streams started
          MaxErrors    \* bound: RPC failures

VARIABLES
    active,     \* _stream_state: the newest stream, 0 when none
    streams,    \* every stream: its queues, thread and task
    available,  \* audio contexts that exist
    played,     \* frames in the queue of each context since it was created
    llm,        \* the response being generated, its tokens, whether it ended
    errors
vars == <<active, streams, available, played, llm, errors>>

NewStream(c) ==
    [ctx |-> c, text |-> <<>>, sent |-> 0, rpc |-> "open", resp |-> <<>>,
     stop |-> FALSE, task |-> "reads"]
Init ==
    /\ active = 0 /\ streams = <<>> /\ available = {} /\ errors = 0
    /\ played = [c \in Contexts |-> <<>>]
    /\ llm = [ctx |-> 1, tokens |-> 0, flushed |-> FALSE]

(* run_tts: the first token of a context creates it and its stream, a later
   one goes to the active stream, if that is its own; else it is lost with
   an error. *)
Token ==
    LET c == llm.ctx
    IN  /\ c \in Contexts /\ ~llm.flushed /\ llm.tokens < MaxTokens
        /\ llm' = [llm EXCEPT !.tokens = @ + 1]
        /\ \/ /\ c \notin available /\ Len(streams) < MaxStreams
              /\ available' = available \cup {c}
              /\ played' = [played EXCEPT ![c] = <<>>]
              /\ streams' = Append(streams, [NewStream(c) EXCEPT !.text = <<"token">>])
              /\ active' = Len(streams) + 1
           \/ /\ c \in available /\ active # 0 /\ streams[active].ctx = c
              /\ streams' = [streams EXCEPT ![active].text = Append(@, "token")]
              /\ UNCHANGED <<active, available, played>>
           \/ /\ c \in available /\ (active = 0 \/ streams[active].ctx # c)
              /\ UNCHANGED <<active, streams, available, played>>
        /\ UNCHANGED errors

(* flush_audio, at the end of the response. *)
Flush ==
    /\ llm.ctx \in Contexts /\ ~llm.flushed /\ llm.tokens > 0
    /\ llm' = [llm EXCEPT !.flushed = TRUE]
    /\ streams' = IF active = 0 \/ streams[active].ctx # llm.ctx THEN streams
                  ELSE [streams EXCEPT ![active].text = Append(@, "flush")]
    /\ UNCHANGED <<active, available, played, errors>>
NextResponse ==
    /\ llm.flushed
    /\ llm' = [ctx |-> llm.ctx + 1, tokens |-> 0, flushed |-> FALSE]
    /\ UNCHANGED <<active, streams, available, played, errors>>

(* An interruption, in the base service: the stream is stopped and all
   contexts go; the response that was spoken is over. *)
Interrupted ==
    /\ available # {} /\ llm.ctx \in Contexts
    /\ streams' = IF active = 0 THEN streams ELSE [streams EXCEPT ![active].stop = TRUE]
    /\ active' = 0 /\ available' = {}
    /\ llm' = [ctx |-> llm.ctx + 1, tokens |-> 0, flushed |-> FALSE]
    /\ UNCHANGED <<played, errors>>

(* request_generator, in the thread of the stream: it stops at the stop
   event and after the end-of-turn flush. *)
Send(s) ==
    /\ streams[s].rpc = "open"
    /\ \/ /\ streams[s].stop
          /\ streams' = [streams EXCEPT ![s].rpc = "flushed"]
       \/ /\ ~streams[s].stop /\ streams[s].text # <<>>
          /\ streams' = [streams EXCEPT ![s].text = Tail(@),
                           ![s].sent = @ + (IF Head(streams[s].text) = "token" THEN 1 ELSE 0),
                           ![s].rpc = IF Head(streams[s].text) = "token" THEN @ ELSE "flushed"]
    /\ UNCHANGED <<active, available, played, llm, errors>>

(* The responses of the call: audio of what was sent, an error, the end. *)
Respond(s) ==
    /\ streams[s].rpc \in {"open", "flushed"}
    /\ \/ /\ streams[s].sent > 0 /\ ~streams[s].stop
          /\ streams' = [streams EXCEPT ![s].sent = @ - 1, ![s].resp = Append(@, "audio")]
          /\ UNCHANGED errors
       \/ /\ streams[s].rpc = "flushed" /\ (streams[s].sent = 0 \/ streams[s].stop)
          /\ streams' = [streams EXCEPT ![s].rpc = "closed", ![s].resp = Append(@, "end")]
          /\ UNCHANGED errors
       \/ /\ errors < MaxErrors /\ errors' = errors + 1
          /\ streams' = [streams EXCEPT ![s].rpc = "closed",
                           ![s].resp = @ \o (IF streams[s].stop THEN <<"end">> ELSE <<"error", "end">>)]
    /\ UNCHANGED <<active, available, played, llm>>

(* _process_responses: audio goes to the context of the stream, unless a
   newer stream took over; an error or the end leaves the loop. *)
Play(s) ==
    /\ streams[s].task = "reads" /\ streams[s].resp # <<>>
    /\ LET item == Head(streams[s].resp)
           c == streams[s].ctx
       IN  /\ streams' = [streams EXCEPT ![s].resp = Tail(@),
                                         ![s].task = IF item = "audio" THEN @ ELSE "stops"]
           /\ played' = IF item = "audio" /\ active = s /\ c \in available
                        THEN [played EXCEPT ![c] = Append(@, "audio")] ELSE played
    /\ UNCHANGED <<active, available, llm, errors>>

(* Its finally, one step per await: the stream is looked at again before
   each. *)
Stops(s) ==
    /\ streams[s].task = "stops"
    /\ LET c == streams[s].ctx
           own == active = s /\ ~streams[s].stop
       IN  /\ played' = IF own /\ c \in available THEN [played EXCEPT ![c] = Append(@, "stopped")]
                        ELSE played
           /\ streams' = [streams EXCEPT ![s].task =
                            IF ~own THEN "done" ELSE IF c \in available THEN "removes" ELSE "clears"]
    /\ UNCHANGED <<active, available, llm, errors>>
Removes(s) ==
    /\ streams[s].task = "removes"
    /\ available' = IF active = s THEN available \ {streams[s].ctx} ELSE available
    /\ streams' = [streams EXCEPT ![s].task = "clears"]
    /\ UNCHANGED <<active, played, llm, errors>>
(* A bug: the active stream is forgotten, whichever it is by now. *)
ClearsAny(s) ==
    /\ streams[s].task = "clears"
    /\ active' = 0
    /\ streams' = [streams EXCEPT ![s].task = "done"]
    /\ UNCHANGED <<available, played, llm, errors>>
Clears(s) ==
    /\ streams[s].task = "clears"
    /\ active' = IF active = s THEN 0 ELSE active
    /\ streams' = [streams EXCEPT ![s].task = "done"]
    /\ UNCHANGED <<available, played, llm, errors>>

Next ==
    \/ Token \/ Flush \/ NextResponse \/ Interrupted
    \/ \E s \in DOMAIN streams :
         Send(s) \/ Respond(s) \/ Play(s) \/ Stops(s) \/ Removes(s) \/ Clears(s)
Spec == Init /\ [][Next]_vars

Streams ==
    [ctx : Contexts, text : Seq({"token", "flush"}), sent : Nat,
     rpc : {"open", "flushed", "closed"}, resp : Seq({"audio", "error", "end"}), stop : BOOLEAN,
     task : {"reads", "stops", "removes", "clears", "done"}]
TypeOK ==
    /\ streams \in Seq(Streams) /\ active \in {0, Len(streams)} /\ available \subseteq Contexts
    /\ played \in [Contexts -> Seq({"audio", "stopped"})] /\ errors \in Nat
    /\ llm \in [ctx : Nat, tokens : Nat, flushed : BOOLEAN]

(* "A superseded response task must not stop/remove the newer stream's
   context or clear its state" (nvidia_word_tts.py:441): the newest stream
   stays the active one, with its context, until it is interrupted or its
   own task ends it; and a context is stopped once, after its last audio. *)
NewestKeepsItsContext ==
    streams # <<>> =>
        LET s == Len(streams)
        IN  ~streams[s].stop =>
              /\ streams[s].task # "done" => active = s
              /\ streams[s].task \in {"reads", "stops", "removes"} => streams[s].ctx \in available
StoppedLast ==
    \A c \in Contexts : \A i \in DOMAIN played[c] : played[c][i] = "stopped" => i = Len(played[c])
OwnContextOnly == NewestKeepsItsContext /\ StoppedLast

\* The active stream's context is not stopped before its own task does it.
ActiveNotStopped ==
    active # 0 /\ streams[active].task \in {"reads", "stops"} =>
        LET c == streams[active].ctx IN \A i \in DOMAIN played[c] : played[c][i] # "stopped"
Inv == TypeOK /\ OwnContextOnly /\ ActiveNotStopped
====
