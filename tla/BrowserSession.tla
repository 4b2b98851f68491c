---- MODULE BrowserSession ----
(***************************************************************************)
(* The browser client's connect button (Header.tsx), the session id its    *)
(* panels use (currentSessionId of AppContext) and the generations of the  *)
(* Pipecat client (App.tsx).  Every click runs handleClick, which awaits   *)
(* devices, the server and the connection, and other clicks, a reset that  *)
(* replaces the client and a disconnection may come between.               *)
(*                                                                         *)
(* The Pipecat client is external: connect() rejects when one is under way *)
(* or established, and a disconnection is reported to the panels mounted   *)
(* with that client.  A client replaced by a reset is not disconnected.    *)
(* Session 0 is the empty id.                                              *)
(***************************************************************************)
EXTENDS Naturals, FiniteSets

CONSTANTS MaxClicks, MaxGenerations

BoundsAssumption == MaxClicks \in Nat /\ MaxGenerations \in Nat \ {0}

Clicks == 1..MaxClicks

VARIABLES transport,  \* "webrtc" or "websocket"
          generation, \* of the mounted client
          client,     \* per generation: transport state and session
          task,       \* per click: the await its handler is at
          made,       \* sessions the server has made
          currentSessionId

vars == <<transport, generation, client, task, made, currentSessionId>>

Init ==
    /\ transport \in {"webrtc", "websocket"}
    /\ generation = 1
    /\ client = [g \in 1..MaxGenerations |-> [state |-> "disconnected", session |-> 0]]
    /\ task = [k \in Clicks |-> [at |-> "unclicked", gen |-> 0, session |-> 0]]
    /\ made = 0 /\ currentSessionId = 0

IsConnected == client[generation].state = "connected"
IsConnecting == client[generation].state = "connecting"

Mounted(k) == task[k].gen = generation
State(g, state) == client' = [client EXCEPT ![g].state = state]
Goes(k, at) == task' = [task EXCEPT ![k].at = at]

(* handleClick up to its first await. *)
Click(k) ==
    /\ task[k].at = "unclicked" /\ (k > 1 => task[k - 1].at # "unclicked") /\ ~IsConnecting
    /\ task' = [task EXCEPT ![k] = [@ EXCEPT !.gen = generation,
                    !.at = IF IsConnected THEN "disconnecting"
                           ELSE IF transport = "websocket" THEN "creating" ELSE "devices"]]
    /\ IF IsConnected THEN State(generation, "disconnecting") ELSE UNCHANGED client
    /\ UNCHANGED <<transport, generation, made, currentSessionId>>

DevicesReady(k) ==
    /\ task[k].at = "devices" /\ Goes(k, IF Mounted(k) THEN "creating" ELSE "done")
    /\ UNCHANGED <<transport, generation, client, made, currentSessionId>>

(* The catch clause. *)
Caught(k) ==
    /\ currentSessionId' = IF Mounted(k) THEN 0 ELSE currentSessionId
    /\ Goes(k, "done")

StartFails(k) ==
    /\ task[k].at \in {"devices", "creating"} /\ Caught(k)
    /\ UNCHANGED <<transport, generation, client, made>>

(* The session is made: its id is published and the client connects. *)
Begins(k, session) ==
    LET g == task[k].gen
    IN  IF client[g].state \in {"connecting", "connected"}
        THEN Caught(k) /\ UNCHANGED client
        ELSE /\ currentSessionId' = session
             /\ client' = [client EXCEPT ![g] = [state |-> "connecting", session |-> session]]
             /\ task' = [task EXCEPT ![k].at = "connecting", ![k].session = session]
CreatedUnmounted(k) ==
    /\ task[k].at = "creating" /\ made' = made + 1
    /\ Begins(k, made')
    /\ UNCHANGED <<transport, generation>>
Created(k) ==
    /\ task[k].at = "creating" /\ made' = made + 1
    /\ IF Mounted(k) THEN Begins(k, made')
       ELSE Goes(k, "done") /\ UNCHANGED <<client, currentSessionId>>
    /\ UNCHANGED <<transport, generation>>

Holds(k) == LET c == client[task[k].gen] IN c.state = "connecting" /\ c.session = task[k].session

Connects(k) ==
    /\ task[k].at = "connecting" /\ Holds(k)
    /\ State(task[k].gen, "connected") /\ Goes(k, "done")
    /\ UNCHANGED <<transport, generation, made, currentSessionId>>

(* The panels mounted with a client that disconnects forget the session. *)
Disconnected(g) ==
    currentSessionId' = IF g = generation THEN 0 ELSE currentSessionId

ConnectFails(k) ==
    /\ task[k].at = "connecting" /\ Goes(k, "done")
    /\ IF Holds(k) THEN State(task[k].gen, "disconnected") /\ Disconnected(task[k].gen)
       ELSE Caught(k) /\ UNCHANGED client
    /\ UNCHANGED <<transport, generation, made>>

(* withWebRTCConnectTimeout *)
ConnectTimesOut(k) ==
    /\ transport = "webrtc" /\ task[k].at = "connecting"
    /\ IF Mounted(k)
       THEN Goes(k, "dropping") /\ currentSessionId' = 0 /\ State(task[k].gen, "disconnecting")
       ELSE Goes(k, "done") /\ UNCHANGED <<client, currentSessionId>>
    /\ UNCHANGED <<transport, generation, made>>

(* client.disconnect() has settled: the panels get a new client.  A
   connection begun meanwhile on the old one may survive. *)
ResetClient(k) ==
    /\ task[k].at \in {"dropping", "disconnecting"} /\ generation < MaxGenerations
    /\ Goes(k, "done")
    /\ \/ State(task[k].gen, "disconnected")
       \/ client[task[k].gen].state # "disconnecting" /\ UNCHANGED client
    /\ generation' = generation + 1
    /\ currentSessionId' = IF Mounted(k) \/ task[k].at = "disconnecting" THEN 0 ELSE currentSessionId
    /\ UNCHANGED <<transport, made>>

(* The server or the network ends an established connection. *)
ConnectionEnds(g) ==
    /\ client[g].state = "connected" /\ State(g, "disconnected") /\ Disconnected(g)
    /\ UNCHANGED <<transport, generation, task, made>>

Next ==
    \/ \E k \in Clicks :
          \/ Click(k) \/ DevicesReady(k) \/ StartFails(k) \/ Created(k) \/ Connects(k)
          \/ ConnectFails(k) \/ ConnectTimesOut(k) \/ ResetClient(k)
    \/ \E g \in 1..generation : ConnectionEnds(g)
Spec == Init /\ [][Next]_vars

(***************************************************************************)
(* Whatever clicks, resets and late answers overlap, the panels never act  *)
(* for another session than the one the mounted client is connected to:    *)
(* Header.tsx checks mountedRef after every await before it publishes an   *)
(* id (handleClick), and its catch clause only ever clears it.             *)
(***************************************************************************)
IdOfThisConnection == IsConnected => currentSessionId \in {0, client[generation].session}

(* The fields keep their types; a handler that runs has a client. *)
TypeOK ==
    /\ transport \in {"webrtc", "websocket"}
    /\ generation \in 1..MaxGenerations
    /\ client \in [1..MaxGenerations ->
                     [state : {"disconnected", "connecting", "connected", "disconnecting"}, session : Nat]]
    /\ task \in [Clicks -> [at : {"unclicked", "devices", "creating", "connecting", "dropping",
                                  "disconnecting", "done"},
                            gen : 0..MaxGenerations, session : Nat]]
    /\ made \in Nat /\ currentSessionId \in Nat
    /\ \A k \in Clicks : task[k].at # "unclicked" => task[k].gen \in 1..generation

(* The inductive invariant: the id is of the mounted client from the moment it
   connects, and a client that is still to be mounted does nothing. *)
Inv ==
    /\ TypeOK /\ IdOfThisConnection
    /\ IsConnecting => currentSessionId \in {0, client[generation].session}
    /\ \A g \in 1..MaxGenerations : g > generation => client[g].state = "disconnected"
====
