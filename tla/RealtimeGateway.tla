---------------------------- MODULE RealtimeGateway ----------------------------
(***************************************************************************)
(* One /v1/realtime websocket from accept to the pipeline: the handshake   *)
(* of handle_realtime_websocket, which takes session.update and nothing    *)
(* else until a bot owns the socket, and the narrow live updates that      *)
(* RealtimeFrameSerializer allows after that.                              *)
(*                                                                         *)
(* A session.update is abstracted to five of its fields: pipeline mode,    *)
(* TTS service, voice and the PCM rates in and out; a field it leaves out  *)
(* is Unset, a voice of nothing but spaces is Blank.                       *)
(***************************************************************************)
EXTENDS Naturals

CONSTANTS
  MaxRejected,   \* REALTIME_MAX_REJECTED_EVENTS
  Patches,       \* the well-formed updates clients send
  Catalog,       \* by TTS service: the voices it lists, {} if unreachable
  Fallback,      \* by TTS service: its default voice
  DefaultMode, DefaultTts, PipelineRate, DefaultRate,
  Unset, Blank

RejectedAssumption == MaxRejected \in Nat \ {0}
CatalogAssumption ==
  /\ DOMAIN Fallback = DOMAIN Catalog /\ DefaultTts \in DOMAIN Catalog
  /\ \A s \in DOMAIN Catalog : Catalog[s] # {} => Fallback[s] \in Catalog[s]
  /\ Unset \notin DOMAIN Catalog  \* Unset is no service and no voice
  /\ \A s \in DOMAIN Catalog : Unset \notin Catalog[s] \cup {Fallback[s]}
PatchesAssumption ==
  \A p \in Patches : /\ DOMAIN p = {"mode", "tts", "voice", "in", "out"}
                     /\ p.tts \in DOMAIN Catalog \cup {Unset}

VARIABLES
  stage,     \* where handle_realtime_websocket is
  gone,      \* the client has disconnected
  rejected,  \* rejected events
  failed,    \* failed session.updates
  flat,      \* session.flat_config
  view,      \* the public session object: mode, tts, voice, in, out
  pending,   \* the update under check or accepted: its patch and sanitized config
  bot,       \* the config the bot runs with (runtime_config)
  resampler  \* the client rates the two stream resamplers are bound to

vars == <<stage, gone, rejected, failed, flat, view, pending, bot, resampler>>

DefaultConfig == [mode |-> DefaultMode, tts |-> Unset, voice |-> Unset]
DefaultView == [mode |-> DefaultMode, tts |-> Unset, voice |-> Unset,
                in |-> DefaultRate, out |-> DefaultRate]
Nothing == [patch |-> Unset, flat |-> Unset]

Or(value, default) == IF value = Unset THEN default ELSE value
Stripped(voice) == IF voice = Blank THEN Unset ELSE voice

Sides == {"in", "out"}
Unbound == [side \in Sides |-> Unset]

(***************************************************************************)
(* map_session_update_to_flat_config, the sanitizer's merge and the soft   *)
(* voice check.                                                            *)
(***************************************************************************)
ResolveVoice(tts, voice) ==
  IF voice \in Catalog[tts] THEN voice ELSE Fallback[tts]

\* A patch that names no mode gets the default one, whatever the session had;
\* the voice is checked when it was set or the TTS service changed.
Sanitize(f, p) ==
  LET tts   == Or(p.tts, Or(f.tts, DefaultTts))
      set   == Stripped(p.voice)
      voice == Or(set, f.voice)
  IN [mode  |-> Or(p.mode, DefaultMode),
      tts   |-> tts,
      voice |-> IF set # Unset \/ tts # f.tts THEN ResolveVoice(tts, voice) ELSE voice]

\* apply_update: the public view takes the sanitized fields over the client's.
ApplyUpdate(v, p, f) ==
  [mode |-> f.mode, tts |-> f.tts, voice |-> Or(f.voice, Or(p.voice, v.voice)),
   in |-> Or(p.in, v.in), out |-> Or(p.out, v.out)]

(***************************************************************************)
(* Handshake.                                                              *)
(***************************************************************************)
\* The error is sent and counted; a send to a client that has gone raises.

Reject ==
  /\ rejected' = rejected + 1
  /\ stage' = IF rejected' >= MaxRejected THEN "closed" ELSE "receiving"

\* Not JSON, not an object, without a type, or not a session.update.
RejectEvent ==
  /\ stage = "receiving" /\ ~gone
  /\ Reject
  /\ UNCHANGED <<gone, failed, flat, view, pending, bot, resampler>>

FailUncounted ==
  /\ failed' = failed
  /\ stage' = IF gone THEN "closed" ELSE "receiving"

Fail ==
  /\ failed' = failed + 1
  /\ stage' = IF gone \/ failed' >= MaxRejected THEN "closed" ELSE "receiving"

\* No session object, or the mapping or the sanitizer raises.
InvalidUpdate ==
  /\ stage = "receiving" /\ ~gone
  /\ Fail
  /\ UNCHANGED <<gone, rejected, flat, view, pending, bot, resampler>>

\* The voice lookup runs in a thread and the readiness check may take long.
SessionUpdate(p) ==
  /\ stage = "receiving" /\ ~gone
  /\ stage' = "checking"
  /\ pending' = [patch |-> p, flat |-> Sanitize(flat, p)]
  /\ UNCHANGED <<gone, rejected, failed, flat, view, bot, resampler>>

NotReadyButApplied ==
  /\ stage = "checking"
  /\ Fail
  /\ flat' = pending.flat
  /\ view' = ApplyUpdate(view, pending.patch, pending.flat)
  /\ pending' = Nothing
  /\ UNCHANGED <<gone, rejected, bot, resampler>>

\* services_not_ready: the socket stays open for a retry.
NotReady ==
  /\ stage = "checking"
  /\ Fail
  /\ pending' = Nothing
  /\ UNCHANGED <<gone, rejected, flat, view, bot, resampler>>

\* session.updated is sent and start_bot owns the socket; if the client has
\* gone that send may raise first.
Ready ==
  /\ stage = "checking"
  /\ flat' = pending.flat
  /\ view' = ApplyUpdate(view, pending.patch, pending.flat)
  /\ \/ stage' = "bot" /\ bot' = pending.flat
     \/ gone /\ stage' = "closed" /\ UNCHANGED bot
  /\ UNCHANGED <<gone, rejected, failed, pending, resampler>>

\* wait_for's deadline starts anew with every receive.
SessionUpdateTimeout ==
  /\ stage = "receiving"
  /\ stage' = "closed"
  /\ UNCHANGED <<gone, rejected, failed, flat, view, pending, bot, resampler>>

\* While an update is checked nobody reads the socket.
Disconnect ==
  /\ stage \in {"receiving", "checking"} /\ ~gone
  /\ gone' = TRUE
  /\ stage' = IF stage = "receiving" THEN "closed" ELSE stage
  /\ UNCHANGED <<rejected, failed, flat, view, pending, bot, resampler>>

(***************************************************************************)
(* After the handoff.                                                      *)
(***************************************************************************)
\* unsupported_live_session_fields: what differs and cannot be applied live.
Unsupported(p) ==
  {k \in {"mode", "tts"} : p[k] # Unset /\ p[k] # view[k]}

\* live_session_patch and the merge; a blank voice is merged as it came, but it
\* is not looked up and the pipeline never hears of it.
Merged(p, voice) ==
  [view EXCEPT !.voice = Or(voice, Or(p.voice, @)), !.in = Or(p.in, @), !.out = Or(p.out, @)]

\* update_session_view: a new rate on either side replaces both streams.
ResetStreams(new) ==
  IF \A side \in Sides : new[side] = view[side] THEN resampler ELSE Unbound

\* An update with unsupported fields is answered with an error and changes nothing.
LiveUpdate(p) ==
  /\ stage = "bot"
  /\ Unsupported(p) = {}
  /\ LET set   == Stripped(p.voice)
         voice == IF set = Unset THEN Unset ELSE ResolveVoice(bot.tts, set)
         new   == Merged(p, voice)
     IN /\ view' = new
        /\ bot' = [bot EXCEPT !.voice = Or(voice, @)]
        /\ resampler' = ResetStreams(new)
  /\ UNCHANGED <<stage, gone, rejected, failed, flat, pending>>

\* A chunk one way: its stream is bound to the rate of its first chunk, and a
\* chunk at the pipeline's own rate passes it by.
Resample(side) ==
  /\ stage = "bot"
  /\ view[side] # PipelineRate
  /\ resampler[side] = Unset
  /\ resampler' = [resampler EXCEPT ![side] = view[side]]
  /\ UNCHANGED <<stage, gone, rejected, failed, flat, view, pending, bot>>

Init ==
  /\ stage = "receiving" /\ gone = FALSE
  /\ rejected = 0 /\ failed = 0
  /\ flat = DefaultConfig
  /\ view = DefaultView
  /\ pending = Nothing
  /\ bot = Unset
  /\ resampler = Unbound

Receive ==
  \/ RejectEvent \/ InvalidUpdate \/ SessionUpdateTimeout
  \/ \E p \in Patches : SessionUpdate(p)

Next ==
  \/ Receive \/ NotReady \/ Ready \/ Disconnect
  \/ \E p \in Patches : LiveUpdate(p)
  \/ \E side \in Sides : Resample(side)

Spec == Init /\ [][Next]_vars

\* A receive ends with a message or its deadline, and the voice lookup and the
\* readiness check, which have timeouts of their own, end.
FairSpec == Spec /\ WF_vars(Receive) /\ WF_vars(NotReady \/ Ready)

(***************************************************************************)
(* Properties.                                                             *)
(***************************************************************************)
Modes  == {DefaultMode} \cup ({p.mode : p \in Patches} \ {Unset})
Voices == (UNION {Catalog[s] : s \in DOMAIN Catalog}) \cup {Fallback[s] : s \in DOMAIN Fallback}
Rates  == {DefaultRate} \cup (({p.in : p \in Patches} \cup {p.out : p \in Patches}) \ {Unset})
Config == [mode : Modes, tts : DOMAIN Catalog \cup {Unset}, voice : Voices \cup {Unset}]

\* The counters stay under their limit; configs and rates are known ones.
TypeOK ==
  /\ stage \in {"receiving", "checking", "bot", "closed"} /\ gone \in BOOLEAN
  /\ rejected \in 0..MaxRejected /\ failed \in 0..MaxRejected
  /\ flat \in Config /\ bot \in Config \cup {Unset}
  /\ view \in [mode : Modes, tts : DOMAIN Catalog \cup {Unset}, voice : Voices \cup {Unset, Blank},
               in : Rates, out : Rates]
  /\ resampler \in [Sides -> Rates \cup {Unset}]

\* Nothing of an update that failed reaches the bot: it runs with what the
\* public session says, a blank voice apart, and that began as the default
\* session with the acknowledged update and no other applied.
BotRunsWhatWasAcknowledged ==
  stage = "bot" => /\ bot.mode = view.mode /\ bot.tts = view.tts
                   /\ view.voice \in {bot.voice, Blank}
                   /\ flat = Sanitize(DefaultConfig, pending.patch)

\* The bot never gets a voice its TTS service does not list, through the
\* handshake and any number of live updates.
VoiceInCatalog ==
  stage = "bot" => bot.voice \in Catalog[bot.tts] \cup {Fallback[bot.tts]}

\* AudioResampler: a stream never gets audio at another rate than its first
\* chunk's, whatever live updates come between the chunks.
ResamplerMatchesRate == \A side \in Sides : resampler[side] \in {Unset, view[side]}

\* What they rest on: before the handoff nothing is applied and the limits are
\* not reached, and what is checked, then run, is one patch of the default session.
NothingAppliedYet ==
  stage \in {"receiving", "checking"} =>
    /\ flat = DefaultConfig /\ view = DefaultView /\ resampler = Unbound
    /\ rejected < MaxRejected /\ failed < MaxRejected
OnePatchPending ==
  /\ stage \in {"checking", "bot"} => /\ pending.patch \in Patches
                                     /\ pending.flat = Sanitize(DefaultConfig, pending.patch)
  /\ stage = "bot" => bot \in Config /\ bot.tts # Unset

Inv ==
  /\ TypeOK /\ BotRunsWhatWasAcknowledged /\ VoiceInCatalog /\ ResamplerMatchesRate
  /\ NothingAppliedYet /\ OnePatchPending

\* Idle or abusive clients are disconnected before the handoff: no client
\* keeps the gateway in the handshake for ever.
HandshakeOver == stage \in {"bot", "closed"}
HandshakeEnds == <>HandshakeOver

=============================================================================
