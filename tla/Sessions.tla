-------------------------------- MODULE Sessions --------------------------------
(***************************************************************************)
(* The sessions of the server (src/src/server.py): a client posts its      *)
(* configuration and is given a session id, an offer or a websocket names  *)
(* that id and starts a bot, and media posted under the id land in the     *)
(* attachment store or the webcam frame store.                             *)
(*                                                                         *)
(* Two tables are keyed by the id: _session_configs until a bot takes the  *)
(* configuration, _active_session_configs afterwards.  Handlers suspend    *)
(* while they negotiate a connection and while they read a body.           *)
(***************************************************************************)
EXTENDS Naturals, FiniteSets

CONSTANTS
  Sids,        \* session ids
  Conns,       \* offers and websockets, one handler each
  Posts,       \* media posts, one handler each
  Configs,     \* configurations, told apart by what the example can do
  Capable,     \* those whose example has attachments and a webcam
  Default,     \* what an unknown session id resolves to
  None

ConfigsAssumption == /\ Default \in Configs /\ Capable \subseteq Configs
                     /\ None \notin Configs /\ None \notin Sids

VARIABLES
  stored,    \* _session_configs
  active,    \* _active_session_configs
  posted,    \* the configuration each id was given for, for the properties
  conns,     \* by handler: how far it is, its session and configuration
  posts,     \* by handler: how far it is, its session, source, capture request
  media,     \* attachments and webcam frames kept, by session: post, source, request
  request,   \* _capture_request_by_session: 0 if none
  asked      \* capture requests made, by session

tables == <<stored, active, posted>>
stores == <<media, request, asked>>
vars   == <<tables, conns, posts, stores>>

Idle == [at |-> "idle", sid |-> None, config |-> None, first |-> FALSE]
Rest == [at |-> "idle", sid |-> None, source |-> "none", request |-> 0]
Sources == {"upload", "capture", "frame"}

Serving(s) == {c \in Conns : conns[c].sid = s /\ conns[c].at \in {"running", "cleaned"}}
Arrived(s) == {c \in Conns : conns[c].sid = s}

TypeOK ==
  /\ stored \in [Sids -> Configs \cup {None}]
  /\ active \in [Sids -> Configs \cup {None}]
  /\ posted \in [Sids -> Configs \cup {None}]
  /\ conns \in [Conns -> [at : {"idle", "answering", "running", "cleaned", "over", "failed"},
                          sid : Sids \cup {None}, config : Configs \cup {None},
                          first : BOOLEAN]]
  /\ posts \in [Posts -> [at : {"idle", "reading", "done"}, sid : Sids \cup {None},
                          source : Sources \cup {"none"}, request : Nat]]
  /\ media \in [Sids -> SUBSET [post : Posts, source : Sources, request : Nat]]
  /\ request \in [Sids -> Nat] /\ asked \in [Sids -> Nat]

Init ==
  /\ stored = [s \in Sids |-> None]
  /\ active = stored /\ posted = stored
  /\ conns = [c \in Conns |-> Idle]
  /\ posts = [p \in Posts |-> Rest]
  /\ media = [s \in Sids |-> {}]
  /\ request = [s \in Sids |-> 0]
  /\ asked = request

(***************************************************************************)
(* Session configurations.                                                 *)
(***************************************************************************)
\* create_session_config, start_bot: sanitised, checked for readiness, then
\* stored under a fresh id; a failure stores nothing.
PostConfig(s, c) ==
  /\ posted[s] = None
  /\ stored' = [stored EXCEPT ![s] = c]
  /\ posted' = [posted EXCEPT ![s] = c]
  /\ UNCHANGED <<active, conns, posts, stores>>

\* A bug: the configuration is looked up, not taken out.
LookUpConfig(s) == UNCHANGED stored

\* _resolve_config: the stored configuration is taken out, once.
Resolved(s) == IF stored[s] # None THEN stored[s] ELSE Default
TakeConfig(s) == stored' = [stored EXCEPT ![s] = None]

(***************************************************************************)
(* Connections.                                                            *)
(***************************************************************************)

\* offer: the tables are written before the connection is negotiated.
Offer(c, s) ==
  /\ conns[c].at = "idle" /\ posted[s] # None
  /\ TakeConfig(s)
  /\ active' = [active EXCEPT ![s] = Resolved(s)]
  /\ conns' = [conns EXCEPT ![c] = [at |-> "answering", sid |-> s, config |-> Resolved(s),
                                    first |-> Arrived(s) = {}]]
  /\ UNCHANGED <<posted, posts, stores>>

\* handle_web_request: a new peer connection calls on_connection, which has the
\* bot run as a background task of the response.
Connected(c) ==
  /\ conns[c].at = "answering"
  /\ conns' = [conns EXCEPT ![c].at = "running"]
  /\ UNCHANGED <<tables, posts, stores>>

\* It renegotiates a connection it knows, or it fails: no bot is started.
NoNewConnection(c) ==
  /\ conns[c].at = "answering"
  /\ conns' = [conns EXCEPT ![c].at = "failed"]
  /\ UNCHANGED <<tables, posts, stores>>

\* websocket_endpoint: the configuration is taken before the socket is
\* accepted, and the session is active from then on.
AcceptSocket(c, s) ==
  /\ conns[c].at = "idle" /\ posted[s] # None
  /\ TakeConfig(s)
  /\ active' = [active EXCEPT ![s] = Resolved(s)]
  /\ conns' = [conns EXCEPT ![c] = [at |-> "running", sid |-> s, config |-> Resolved(s),
                                    first |-> Arrived(s) = {}]]
  /\ UNCHANGED <<posted, posts, stores>>

\* accept() raises when the client has gone already.
AcceptFails(c, s) ==
  /\ conns[c].at = "idle" /\ posted[s] # None
  /\ TakeConfig(s)
  /\ conns' = [conns EXCEPT ![c] = [at |-> "failed", sid |-> s, config |-> Resolved(s),
                                    first |-> Arrived(s) = {}]]
  /\ UNCHANGED <<active, posted, posts, stores>>

\* realtime_websocket_endpoint: _start_bot after the handshake, under an id of
\* its own that was never posted.
StartRealtimeBot(c, s, config) ==
  /\ conns[c].at = "idle" /\ posted[s] = None
  /\ posted' = [posted EXCEPT ![s] = config]
  /\ active' = [active EXCEPT ![s] = config]
  /\ conns' = [conns EXCEPT ![c] = [at |-> "running", sid |-> s, config |-> config,
                                    first |-> TRUE]]
  /\ UNCHANGED <<stored, posts, stores>>

\* on_client_disconnected of the subagents' transport agent clears both stores;
\* the bots of the other examples have none.
ClientLeaves(c) ==
  /\ conns[c].at = "running"
  /\ conns' = [conns EXCEPT ![c].at = "cleaned"]
  /\ IF conns[c].config \in Capable
     THEN /\ media' = [media EXCEPT ![conns[c].sid] = {}]
          /\ request' = [request EXCEPT ![conns[c].sid] = 0]
     ELSE UNCHANGED <<media, request>>
  /\ UNCHANGED <<tables, posts, asked>>

\* run_bot_session, websocket_endpoint, _start_bot: bot_fn returns or raises,
\* and the id is dropped whatever else it stands for by then.
BotEnds(c) ==
  /\ conns[c].at = "cleaned"
  /\ conns' = [conns EXCEPT ![c].at = "over"]
  /\ active' = [active EXCEPT ![conns[c].sid] = None]
  /\ UNCHANGED <<stored, posted, posts, stores>>

(***************************************************************************)
(* Media posts.                                                            *)
(***************************************************************************)

\* _session_capability_error
Allowed(s) ==
  LET config == IF active[s] # None THEN active[s] ELSE stored[s]
  IN config \in Capable

\* queue_highres_capture: create_capture_request replaces what is outstanding.
AskCapture(s) ==
  /\ \E c \in Serving(s) : conns[c].at = "running" /\ conns[c].config \in Capable
  /\ asked[s] < Cardinality(Posts)
  /\ asked' = [asked EXCEPT ![s] = @ + 1]
  /\ request' = [request EXCEPT ![s] = asked[s] + 1]
  /\ UNCHANGED <<tables, conns, posts, media>>

\* upload_attachment, upload_webcam_frame: the session is checked, then the
\* body is read.
BeginPost(p, s, source) ==
  /\ posts[p].at = "idle" /\ Allowed(s) /\ source # "capture"
  /\ posts' = [posts EXCEPT ![p] = [at |-> "reading", sid |-> s, source |-> source,
                                    request |-> 0]]
  /\ UNCHANGED <<tables, conns, stores>>

\* consume_capture_request
Outstanding(s, r) == request[s] = r

\* A bug: the request is matched, and left for the next post.
BeginCaptureKept(p, s, r) ==
  /\ posts[p].at = "idle" /\ Allowed(s) /\ r # 0 /\ Outstanding(s, r)
  /\ posts' = [posts EXCEPT ![p] = [at |-> "reading", sid |-> s, source |-> "capture",
                                    request |-> r]]
  /\ UNCHANGED <<tables, conns, stores>>

\* upload_webcam_capture, for any request of the session still in flight: the
\* request is consumed before the body is read.
BeginCapture(p, s, r) ==
  /\ posts[p].at = "idle" /\ Allowed(s) /\ r # 0 /\ Outstanding(s, r)
  /\ request' = [request EXCEPT ![s] = 0]
  /\ posts' = [posts EXCEPT ![p] = [at |-> "reading", sid |-> s, source |-> "capture",
                                    request |-> r]]
  /\ UNCHANGED <<tables, conns, media, asked>>

\* store_attachment, store_webcam_frame: whatever has become of the session.
StoreBody(p) ==
  LET post == posts[p]
  IN /\ post.at = "reading"
     /\ posts' = [posts EXCEPT ![p].at = "done"]
     /\ media' = [media EXCEPT ![post.sid] = @ \cup
                     {[post |-> p, source |-> post.source, request |-> post.request]}]
     /\ UNCHANGED <<tables, conns, request, asked>>

\* _read_upload_file_with_limit or the store raises: 413 or 400.
RefuseBody(p) ==
  /\ posts[p].at = "reading"
  /\ posts' = [posts EXCEPT ![p].at = "done"]
  /\ UNCHANGED <<tables, conns, stores>>

Connection(c) ==
  \/ \E s \in Sids : Offer(c, s) \/ AcceptSocket(c, s) \/ AcceptFails(c, s)
  \/ \E s \in Sids, config \in Configs : StartRealtimeBot(c, s, config)
  \/ Connected(c) \/ NoNewConnection(c) \/ ClientLeaves(c) \/ BotEnds(c)
MediaPost(p) ==
  \/ \E s \in Sids : BeginPost(p, s, "upload") \/ BeginPost(p, s, "frame")
  \/ \E s \in Sids, r \in 1..Cardinality(Posts) : BeginCapture(p, s, r)
  \/ StoreBody(p) \/ RefuseBody(p)
Next ==
  \/ \E s \in Sids, c \in Configs : PostConfig(s, c)
  \/ \E s \in Sids : AskCapture(s)
  \/ \E c \in Conns : Connection(c)
  \/ \E p \in Posts : MediaPost(p)
Spec == Init /\ [][Next]_vars

(***************************************************************************)
(* Properties.                                                             *)
(***************************************************************************)
\* A posted configuration starts one bot: whichever handler comes first with
\* the id runs it, and every other handler of that id runs the default
\* (_resolve_config pops it; an offer and a websocket may race for it).
FirstComerRunsPost ==
  \A c \in Conns : conns[c].sid # None =>
    conns[c].config = IF conns[c].first THEN posted[conns[c].sid] ELSE Default

\* A session is in a table for as long as the only handler that named it has
\* its bot running, with the configuration that bot runs: media posts of a
\* session nobody renegotiated are judged by its own example.
LoneBotIsActive ==
  \A s \in Sids : \A c \in Serving(s) :
    Arrived(s) = {c} => active[s] = conns[c].config

\* The table keeps an ended session only for a handler that never started a
\* bot: the end of each bot drops it (server.py:891, :952, :999).
EndedSessionDropped ==
  \A s \in Sids : active[s] # None =>
    \/ Serving(s) # {}
    \/ \E c \in Arrived(s) : conns[c].at \in {"answering", "failed"}

\* Nothing is kept for a session whose example cannot look at it: a late or
\* renegotiated connection never opens the stores to another example, but that
\* it runs the default, which may have them.
MayLook(s) == \/ posted[s] \in Capable
              \/ Default \in Capable /\ \E c \in Arrived(s) : ~conns[c].first
MediaOnlyForCapable == \A s \in Sids : media[s] # {} => MayLook(s)

\* A capture request is answered at most once, however many posts carry its
\* number and however long each takes to come in.
CaptureAnsweredOnce ==
  \A s \in Sids : \A p, q \in Posts :
    (/\ posts[p].sid = s /\ posts[q].sid = s
     /\ posts[p].source = "capture" /\ posts[q].source = "capture"
     /\ posts[p].request = posts[q].request) => p = q

\* The inductive invariant of TypeOK and the properties above.
IdleWithoutSession == \A c \in Conns : conns[c].at = "idle" <=> conns[c].sid = None

\* What was posted is in the table until the first handler takes it.
StoredUntilTaken ==
  \A s \in Sids :
    /\ posted[s] = None => stored[s] = None /\ active[s] = None /\ Arrived(s) = {}
    /\ stored[s] = IF Arrived(s) = {} THEN posted[s] ELSE None

ActiveOfHandler ==
  \A s \in Sids :
    /\ active[s] # None => \E c \in Arrived(s) : active[s] = conns[c].config
    /\ \A c \in Conns :
         Arrived(s) = {c} /\ conns[c].at \in {"answering", "running", "cleaned"}
           => active[s] = conns[c].config

ReadsAsAllowed ==
  \A p \in Posts : posts[p].at = "reading" =>
    posts[p].source \in Sources /\ posts[p].sid \in Sids /\ MayLook(posts[p].sid)

\* A request that a post carries was made, and is not outstanding any more.
CaptureConsumed ==
  /\ \A s \in Sids : request[s] <= asked[s]
  /\ \A p \in Posts : posts[p].source = "capture" =>
       LET s == posts[p].sid
       IN s \in Sids /\ posts[p].request \in 1..asked[s] /\ posts[p].request # request[s]

Inv ==
  /\ TypeOK /\ IdleWithoutSession /\ StoredUntilTaken /\ FirstComerRunsPost
  /\ ActiveOfHandler /\ LoneBotIsActive /\ EndedSessionDropped
  /\ MediaOnlyForCapable /\ ReadsAsAllowed /\ CaptureConsumed /\ CaptureAnsweredOnce
=================================================================================
