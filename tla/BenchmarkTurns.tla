---- MODULE BenchmarkTurns ----
(***************************************************************************)
(* One synthetic client of the scaling benchmark: PerfClient's turn loop   *)
(* (benchmark_core.py) over either protocol client, the Realtime one,      *)
(* whose turns end at response.done and which cancels a response it gave   *)
(* up, and the RTVI one, whose turns end when no audio has come for a      *)
(* while.  The server and its ordered websocket are external: it takes the *)
(* client's commands in order and begins, voices, finishes, interrupts or  *)
(* cancels one response at a time.  Turn 0 is the bot's introduction.      *)
(*                                                                         *)
(* Audio, its pacing, its glitches, the WAV file and the formats of        *)
(* metrics are left out; a timeout may strike at any moment.               *)
(***************************************************************************)
EXTENDS Naturals, Sequences, FiniteSets

CONSTANTS MaxTurns,      \* turns of the loop
          MaxResponses,  \* responses the server begins
          MaxAudio,      \* audio deltas of one response
          MaxErrors      \* error events out of nowhere

VARIABLES proto,     \* "realtime" or "rtvi"
          up,        \* commands on their way to the server
          chan,      \* events on their way to the client
          server,    \* the response it voices, those it owes, ...
          phase,     \* where the client's coroutine waits
          turn, sending, early,
          why,       \* how the turn ended
          collecting, stats,
          events,    \* responses of the response.done events received
          marker,    \* their number when the turn began
          heard,     \* audio of a response taken in a turn
          metered,   \* response whose metadata a turn was given
          result

client == <<phase, turn, sending, early, why, collecting, stats, marker, heard, metered, result>>
vars == <<proto, up, chan, server, client, events>>

Event(kind, r, status) == [kind |-> kind, r |-> r, status |-> status]

Init ==
    /\ proto \in {"realtime", "rtvi"}
    /\ up = IF proto = "realtime" THEN <<"update">> ELSE <<>>
    /\ chan = <<>>
    /\ server \in [active : {0}, owed : 0..1, begun : {0}, audio : {0}, errors : {0}]
    /\ phase = "connecting" /\ turn = 0 /\ sending = FALSE /\ early = FALSE /\ why = ""
    /\ collecting = FALSE /\ stats = [started |-> 0, valid |-> 0, barge |-> 0, failed |-> 0]
    /\ events = <<>> /\ marker = 0 /\ heard = {} /\ metered = {} /\ result = ""

(***************************************************************************)
(* The server, while the websocket is open.  An RTVI client is told of    *)
(* audio only.                                                             *)
(***************************************************************************)
Told(e) == IF proto = "realtime" \/ e.kind = "delta" THEN Append(chan, e) ELSE chan
Stopped == IF server.active = 0 THEN chan ELSE Told(Event("done", server.active, "cancelled"))

(* A command is taken: an utterance interrupts the response being voiced. *)
ServerTakes ==
    /\ phase # "over" /\ up # <<>> /\ up' = Tail(up)
    /\ \/ /\ Head(up) = "update"
          /\ \E kind \in {"updated", "error"} : chan' = Told(Event(kind, 0, ""))
          /\ UNCHANGED server
       \/ /\ Head(up) = "speech"
          /\ chan' = Stopped
          /\ server' = [server EXCEPT !.active = 0, !.owed = @ + 1]
       \/ /\ Head(up) = "cancel"
          /\ chan' = IF server.active = 0 THEN Told(Event("error", 0, "not_active")) ELSE Stopped
          /\ server' = [server EXCEPT !.active = 0]
    /\ UNCHANGED <<proto, client, events>>

ServerBegins ==
    /\ phase # "over" /\ server.active = 0 /\ server.owed > 0 /\ server.begun < MaxResponses
    /\ server' = [server EXCEPT !.active = server.begun + 1, !.begun = @ + 1, !.owed = @ - 1, !.audio = 0]
    /\ UNCHANGED <<proto, up, chan, client, events>>

ServerSpeaks ==
    /\ phase # "over" /\ server.active # 0
    /\ \/ /\ server.audio < MaxAudio
          /\ server' = [server EXCEPT !.audio = @ + 1]
          /\ chan' = Told(Event("delta", server.active, ""))
       \/ /\ server' = [server EXCEPT !.active = 0]
          /\ \E status \in {"completed", "failed"} :
                chan' = Told(Event("done", server.active, status))
    /\ UNCHANGED <<proto, up, client, events>>

ServerErrs ==
    /\ phase # "over" /\ proto = "realtime" /\ server.errors < MaxErrors
    /\ server' = [server EXCEPT !.errors = @ + 1]
    /\ \E kind \in {"error", "failed"} : chan' = Told(Event(kind, 0, ""))
    /\ UNCHANGED <<proto, up, client, events>>

(***************************************************************************)
(* Receiving: every event but the audio's is also kept for the diagnosis   *)
(* of the turn.                                                            *)
(***************************************************************************)
Takes(e) == chan # <<>> /\ e = Head(chan) /\ chan' = Tail(chan)
Seen(e) == IF e.kind = "done" THEN Append(events, e.r) ELSE events
RecvEvent(e) == Takes(e) /\ events' = Seen(e)
Heads == {chan[k] : k \in {1} \cap DOMAIN chan}

(* What recv_audio makes of an event: "" keeps it waiting. *)
Verdict(e) == CASE e.kind = "delta" -> "audio"
                [] e.kind = "error" -> "error"
                [] e.kind = "failed" -> "broken"
                [] e.kind = "done" -> IF e.status = "completed" THEN "ended" ELSE "terminal"
                [] OTHER -> ""

Ends(outcome) ==
    /\ phase' = "over"
    /\ result' = IF outcome = "" /\ stats.valid = 0 THEN "no valid turns" ELSE outcome

(* The session may begin by listening to the introduction. *)
SessionBegins == phase' \in {"first", "loop"}
Configured ==
    /\ phase = "connecting"
    /\ \/ /\ proto = "rtvi" /\ SessionBegins
          /\ UNCHANGED <<chan, events, result>>
       \/ \E e \in Heads :
            /\ proto = "realtime" /\ RecvEvent(e)
            /\ \/ /\ Verdict(e) \in {"error", "broken"} /\ Ends("error")
               \/ /\ e.kind = "updated" /\ SessionBegins /\ UNCHANGED result
               \/ /\ e.kind # "updated" /\ Verdict(e) \notin {"error", "broken"}
                  /\ UNCHANGED <<phase, result>>
    /\ UNCHANGED <<proto, up, server, turn, sending, early, why, collecting, stats, marker, heard, metered>>

(***************************************************************************)
(* One turn                                                                *)
(***************************************************************************)
BeginTurnObservation == Len(events)

StartTurn ==
    /\ phase = "loop" /\ turn < MaxTurns
    /\ phase' = "first" /\ turn' = turn + 1 /\ sending' = TRUE /\ early' = FALSE /\ why' = ""
    /\ collecting' \in {collecting, TRUE}
    /\ stats' = IF collecting' THEN [stats EXCEPT !.started = @ + 1] ELSE stats
    /\ marker' = BeginTurnObservation
    /\ up' = Append(up, "speech")
    /\ UNCHANGED <<proto, chan, server, events, heard, metered, result>>

SentAudioFile ==
    /\ sending /\ phase # "over" /\ sending' = FALSE
    /\ UNCHANGED <<proto, up, chan, server, phase, turn, early, why, collecting, stats, events, marker, heard,
                   metered, result>>

(* The first frame, or the end of a response that has none. *)
AwaitFirstBotFrame ==
    /\ phase = "first"
    /\ \E e \in Heads :
        /\ RecvEvent(e)
        /\ \/ /\ Verdict(e) = "audio" /\ phase' = "drain" /\ early' = sending
              /\ heard' = heard \cup {[r |-> e.r, turn |-> turn]}
              /\ UNCHANGED <<why, result>>
           \/ /\ Verdict(e) \in {"ended", "terminal", "error"}
              /\ phase' = "settle" /\ why' = IF Verdict(e) = "ended" THEN "silent" ELSE Verdict(e)
              /\ UNCHANGED <<early, heard, result>>
           \/ /\ Verdict(e) = "broken" /\ Ends("error") /\ UNCHANGED <<why, early, heard>>
           \/ /\ Verdict(e) = "" /\ UNCHANGED <<phase, why, early, heard, result>>
    /\ UNCHANGED <<proto, up, server, turn, sending, collecting, stats, marker, metered>>

TurnTimesOut ==
    /\ phase = "first" /\ turn > 0 /\ ~sending
    /\ phase' = "settle" /\ why' = "late"
    /\ stats' = IF collecting THEN [stats EXCEPT !.failed = @ + 1] ELSE stats
    /\ UNCHANGED <<proto, up, chan, server, turn, sending, early, collecting, events, marker, heard, metered, result>>

IntroTimesOut ==
    /\ phase = "first" /\ turn = 0
    /\ phase' = "settle" /\ why' = "late" /\ UNCHANGED stats
    /\ UNCHANGED <<proto, up, chan, server, turn, sending, early, collecting, events, marker, heard, metered, result>>

(* A Realtime utterance that stops without response.done has failed; an
   RTVI one has ended. *)
DrainTimesOut ==
    /\ phase = "drain"
    /\ phase' = "settle" /\ why' = IF proto = "realtime" THEN "error" ELSE "ended"
    /\ UNCHANGED <<proto, up, chan, server, turn, sending, early, collecting, stats, events, marker, heard,
                   metered, result>>

DrainUtterance ==
    /\ phase = "drain"
    /\ \E e \in Heads :
        /\ RecvEvent(e)
        /\ \/ /\ Verdict(e) = "audio" /\ heard' = heard \cup {[r |-> e.r, turn |-> turn]}
              /\ UNCHANGED <<phase, why, result>>
           \/ /\ Verdict(e) \in {"ended", "terminal", "error"}
              /\ phase' = "settle" /\ why' = Verdict(e) /\ UNCHANGED <<heard, result>>
           \/ /\ Verdict(e) = "broken" /\ Ends("error") /\ UNCHANGED <<why, heard>>
           \/ /\ Verdict(e) = "" /\ UNCHANGED <<phase, why, heard, result>>
    /\ UNCHANGED <<proto, up, server, turn, sending, early, collecting, stats, marker, metered>>

(***************************************************************************)
(* What a finished turn leaves: its count, and the metadata of the first   *)
(* response.done received since it began.                                  *)
(***************************************************************************)
Counted == IF turn = 0 \/ ~collecting \/ why = "late" THEN stats
           ELSE CASE why # "ended" -> [stats EXCEPT !.failed = @ + 1]
                  [] why = "ended" /\ early -> [stats EXCEPT !.barge = @ + 1]
                  [] OTHER -> [stats EXCEPT !.valid = @ + 1]

RecordTurnObservation(seen) ==
    /\ events' = IF turn = 0 THEN seen ELSE <<>>
    /\ metered' = IF turn > 0 /\ Len(seen) > marker
                  THEN metered \cup {[r |-> seen[marker + 1], turn |-> turn, why |-> why]} ELSE metered

Recorded(seen) == phase' = "loop" /\ stats' = Counted /\ RecordTurnObservation(seen)

(* A turn is settled once its audio file is sent.  A response given up is
   cancelled unless it is known to be over; RTVI has no way to. *)
NeedsCancel == proto = "realtime" /\ why \in {"error", "late"}
CancelUnawaited ==
    /\ phase = "settle" /\ ~sending /\ Recorded(events)
    /\ up' = IF NeedsCancel THEN Append(up, "cancel") ELSE up
    /\ UNCHANGED <<proto, chan, server, turn, sending, early, why, collecting, marker, heard, result>>
SettleTurn ==
    /\ phase = "settle" /\ ~sending
    /\ \/ /\ NeedsCancel /\ phase' = "barrier" /\ up' = Append(up, "cancel")
          /\ UNCHANGED <<stats, events, metered>>
       \/ /\ ~NeedsCancel /\ Recorded(events) /\ UNCHANGED up
    /\ UNCHANGED <<proto, chan, server, turn, sending, early, why, collecting, marker, heard, result>>

(* An exception of the barrier ends the session, except after a turn that
   heard nothing: there it is logged and the next turn begins. *)
BarrierFails(seen) == IF why = "late" /\ turn > 0 THEN Recorded(seen) /\ UNCHANGED result
                      ELSE Ends("error") /\ events' = seen /\ UNCHANGED <<stats, metered>>

CancelActiveResponse ==
    /\ phase = "barrier"
    /\ \/ \E e \in Heads :
            /\ Takes(e)
            /\ \/ /\ e.kind = "done" \/ e.status = "not_active"
                  /\ Recorded(Seen(e)) /\ UNCHANGED result
               \/ /\ Verdict(e) \in {"error", "broken"} /\ e.status # "not_active" /\ BarrierFails(Seen(e))
               \/ /\ e.kind = "delta" /\ UNCHANGED <<phase, stats, events, metered, result>>
       \/ BarrierFails(events) /\ UNCHANGED chan    \* timeout
    /\ UNCHANGED <<proto, up, server, turn, sending, early, why, collecting, marker, heard>>

(* The client closes the websocket, and what was on its way is lost; after an
   event that ends the session nothing reads what is left. *)
Disconnected == up' = <<>> /\ chan' = <<>>

(* The time is up between two turns. *)
ContinuousAudioLoopEnds ==
    /\ phase = "loop" /\ Ends("") /\ Disconnected
    /\ UNCHANGED <<proto, server, turn, sending, early, why, collecting, stats, events, marker, heard,
                   metered>>

(* The websocket closes, or the hard deadline strikes. *)
SessionBreaks ==
    /\ phase # "over" /\ Ends("error") /\ Disconnected
    /\ UNCHANGED <<proto, server, turn, sending, early, why, collecting, stats, events, marker, heard,
                   metered>>

Next == \/ ServerTakes \/ ServerBegins \/ ServerSpeaks \/ ServerErrs
        \/ Configured \/ StartTurn \/ SentAudioFile \/ AwaitFirstBotFrame \/ TurnTimesOut \/ IntroTimesOut
        \/ DrainTimesOut \/ DrainUtterance \/ SettleTurn \/ CancelActiveResponse
        \/ ContinuousAudioLoopEnds \/ SessionBreaks
Spec == Init /\ [][Next]_vars

(***************************************************************************)
(* A Realtime turn measures one response and no other.  realtime_client.py *)
(* cancels a response it gave up and waits for the server to be done with  *)
(* it (_cancel_active_response, "barrier"), benchmark_core.py counts a     *)
(* turn either way, and record_turn_observation reads the events of the    *)
(* turn only: audio of one response is never heard in two turns, the       *)
(* metadata a completed turn reports is that of the response it heard, no  *)
(* metadata is reported twice, and between turns every turn begun while    *)
(* metrics are collected has been counted exactly once.                    *)
(***************************************************************************)
TurnsKeptApart ==
    /\ proto = "realtime" => \A g, h \in heard : g.r = h.r => g.turn = h.turn
    /\ \A m \in metered : m.why = "ended" => [r |-> m.r, turn |-> m.turn] \in heard
    /\ \A m, n \in metered : m.r = n.r => m.turn = n.turn
    /\ phase = "loop" => stats.valid + stats.barge + stats.failed = stats.started

(***************************************************************************)
(* Why it holds.  A response is closed for the client by its response.done *)
(* or by the refusal of a cancellation; what follows is of later ones.     *)
(***************************************************************************)
EventSet == [kind : {"delta", "done", "updated", "error", "failed"}, r : Nat,
             status : {"", "completed", "failed", "cancelled", "not_active"}]
Reasons == {"", "ended", "silent", "terminal", "error", "late"}
TypeOK ==
    /\ proto \in {"realtime", "rtvi"} /\ up \in Seq({"update", "speech", "cancel"})
    /\ chan \in Seq(EventSet)
    /\ server \in [active : Nat, owed : Nat, begun : Nat, audio : Nat, errors : Nat]
    /\ phase \in {"connecting", "first", "loop", "drain", "settle", "barrier", "over"}
    /\ turn \in Nat /\ sending \in BOOLEAN /\ early \in BOOLEAN /\ why \in Reasons
    /\ collecting \in BOOLEAN /\ stats \in [started : Nat, valid : Nat, barge : Nat, failed : Nat]
    /\ events \in Seq(Nat \ {0}) /\ marker \in Nat
    /\ heard \subseteq [r : Nat \ {0}, turn : Nat] /\ metered \subseteq [r : Nat \ {0}, turn : Nat, why : Reasons]

OfResponse(e) == e.kind \in {"delta", "done"}
Closing(e) == e.kind = "done" \/ e.status = "not_active"
Done(k) == chan[k].kind = "done"

(* What comes of response r is at index n of the channel or after, and
   nothing of it after what closes it there. *)
OpenFrom(r, n) ==
    /\ r <= server.begun
    /\ server.active # 0 => r <= server.active
    /\ \A j \in DOMAIN chan : j >= n /\ OfResponse(chan[j]) => r <= chan[j].r
    /\ \A k \in DOMAIN chan : k >= n /\ Closing(chan[k]) =>
          /\ r # server.active
          /\ \A j \in DOMAIN chan : j > k /\ OfResponse(chan[j]) => r < chan[j].r
(* Nothing more of it comes. *)
Over(r) ==
    /\ r <= server.begun
    /\ server.active # 0 => r < server.active
    /\ \A j \in DOMAIN chan : OfResponse(chan[j]) => r < chan[j].r
(* The next end from n on is its end. *)
EndsNext(r, n) ==
    /\ \A k \in DOMAIN chan :
          k >= n /\ Done(k) /\ (\A m \in DOMAIN chan : m >= n /\ m < k => ~Done(m)) => chan[k].r = r
    /\ (\A k \in DOMAIN chan : k >= n => ~Done(k)) => server.active = r

InOrder ==
    /\ server.active \in {0, server.begun}
    /\ \A i \in DOMAIN chan : OfResponse(chan[i]) =>
          /\ chan[i].r # 0 /\ OpenFrom(chan[i].r, i)
          /\ chan[i].kind = "delta" => EndsNext(chan[i].r, i + 1)
HeardInOrder ==
    /\ \A h \in heard : OpenFrom(h.r, 1)
    /\ \A h \in heard : h.turn # turn \/ phase \in {"first", "loop"}
                          \/ (phase \in {"settle", "barrier"} /\ why # "error") => Over(h.r)
    /\ phase = "drain" => \E h \in heard : h.turn = turn /\ EndsNext(h.r, 1)
EventsInOrder ==
    /\ \A i, j \in DOMAIN events : i < j => events[i] < events[j]
    /\ \A i \in DOMAIN events : Over(events[i])
    /\ \A m \in metered : Over(m.r) /\ \A i \in DOMAIN events : m.r < events[i]
    /\ turn > 0 /\ phase \in {"first", "drain"} => Len(events) = marker
    /\ turn > 0 /\ phase = "settle" /\ why = "ended" =>
          Len(events) = marker + 1 /\ [r |-> events[marker + 1], turn |-> turn] \in heard

(* The turn that is begun and not counted yet. *)
Uncounted == IF turn > 0 /\ collecting
                /\ (phase \in {"first", "drain"} \/ (phase \in {"settle", "barrier"} /\ why # "late"))
             THEN 1 ELSE 0
Inv ==
    /\ TypeOK /\ TurnsKeptApart
    /\ IF proto = "realtime" THEN InOrder /\ HeardInOrder /\ EventsInOrder
       ELSE events = <<>> /\ metered = {} /\ \A i \in DOMAIN chan : chan[i].kind = "delta" /\ chan[i].r # 0
    /\ phase = "connecting" => turn = 0 /\ heard = {} /\ metered = {}
    /\ phase = "barrier" => NeedsCancel
    /\ phase # "over" => stats.valid + stats.barge + stats.failed + Uncounted = stats.started
====
