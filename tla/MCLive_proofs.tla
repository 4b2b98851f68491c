---------------------------- MODULE MCLive_proofs ----------------------------
(***************************************************************************)
(* What TLAPS proves of the components of MCLive, for every catalog, every *)
(* number of clients and services, of camera sessions and of frames.  Each *)
(* component has an inductive invariant, Inv; Init establishes it, each    *)
(* action preserves it, and steps of the other components leave it alone.  *)
(***************************************************************************)
EXTENDS MCLive, FiniteSetTheorems, SequenceTheorems, TLAPS

(***************************************************************************)
(* ServiceStatus.                                                          *)
(***************************************************************************)
Calls == Services!Clients \X Services!Services
Stages == {"none", "queued", "probing", "measured", "blocked", "speaking", "done"}
Call == [at : Stages, result : Services!Statuses \cup {"none"}]
Request == [at : {"idle", "waiting", "given", "refused"}, checked : 0..Len(Order)]

\* What TypeOK says, with the names above.
LEMMA ServicesTypes ==
  Services!TypeOK <=>
    /\ v1 \in [Services!Services -> {"up", "loading", "down", "hangs"}]
    /\ v2 \subseteq Hosted /\ v3 \subseteq v2 /\ v4 \in BOOLEAN
    /\ v5 \in (Connects \X {Cloud}) \cup {None}
    /\ v6 \in [Calls -> Call] /\ v7 \in [Services!Clients -> Request]
BY DEF Services!TypeOK, Calls, Call, Stages, Request

\* What the invariant rests on but for IdMeansReady, which follows.
Base == Services!TypeOK /\ Services!FoundReady /\ Services!CloudByWarmUp

\* Once all its services were found ready, the id may be given.
LEMMA ReadyMeansGiven == Base => Services!Inv
<1> SUFFICES ASSUME Base, NEW c \in Connects, v7[c].at = "given"
             PROVE  /\ \A i \in DOMAIN Order : v6[<<c, Order[i]>>].result = "ready"
                    /\ (\E i \in DOMAIN Order : Order[i] = Cloud) => v4
  BY DEF Base, Services!Inv, Services!IdMeansReady
<1>1. DOMAIN Order = 1..Len(Order)
  BY ServicesAssumption DEF Services!ServicesAssumption
<1>2. \A i \in DOMAIN Order : v6[<<c, Order[i]>>] = [at |-> "done", result |-> "ready"]
  BY <1>1 DEF Base, Services!FoundReady, Services!FoundReadyFor
<1>3. ASSUME NEW i \in DOMAIN Order, Order[i] = Cloud PROVE v4
  <2>1. <<c, Cloud>> \in Calls
    BY DEF Calls, Services!Clients, Services!Services
  <2> QED
    BY <1>2, <1>3, <2>1 DEF Base, Services!CloudByWarmUp, Calls
<1> QED
  BY <1>2, <1>3

LEMMA ServicesInit == Services!Init => Services!Inv
<1> SUFFICES ASSUME Services!Init PROVE Base
  BY ReadyMeansGiven
<1> USE ServicesAssumption DEF Services!ServicesAssumption, Services!Init, Services!NoJob, Services!Rest
<1>1. Services!TypeOK
  <2>1. Len(Order) \in Nat
    OBVIOUS
  <2>2. v7 \in [Services!Clients -> Request]
    BY <2>1 DEF Request
  <2> QED
    BY <2>2, ServicesTypes DEF Call, Calls, Stages
<1>2. Services!FoundReady
  BY DEF Services!FoundReady, Services!FoundReadyFor, Services!Clients, Services!Services
<1>3. Services!CloudByWarmUp
  BY DEF Services!CloudByWarmUp, Services!Clients, Services!Services
<1> QED
  BY <1>1, <1>2, <1>3 DEF Base

\* A thread's step changes its own call only, one that was under way, and no
\* client; what it finds ready of the cloud was said by the warm-up.
ByThread(j) ==
  /\ v6[j].at \notin {"none", "done"}
  /\ \A k \in Calls \ {j} : v6'[k] = v6[k]
  /\ v6'[j].at \in {"probing", "measured"} => j[2] # Cloud
  /\ v6'[j].at \in {"blocked", "speaking"} => j[2] = Cloud
  /\ j[2] = Cloud /\ v6'[j].result = "ready" => v4'
  /\ v4 => v4'
  /\ v7' = v7

\* Any thread's step is one.
LEMMA LockStep ==
  ASSUME Services!Inv, NEW j \in Calls, Services!Lock(j)
  PROVE  Services!TypeOK' /\ ByThread(j)
<1>1. v6[j].at = "blocked" /\ v6 \in [Calls -> Call] /\ v7' = v7 /\ v4' = v4
  BY ServicesTypes DEF Services!Lock, Services!Inv, Services!memory
<1>2. j[2] = Cloud
  BY <1>1 DEF Services!Inv, Services!CloudByWarmUp, Calls
<1>3. j[1] \in Connects /\ j = <<j[1], Cloud>>
  BY <1>1, <1>2 DEF Services!Inv, Services!CloudByWarmUp, Services!NoJob, Calls, Services!Clients
<1>4. v5' \in (Connects \X {Cloud}) \cup {None}
  BY <1>3 DEF Services!Lock, Services!Inv, Services!TypeOK
<1>5. CASE v4
  <2>1. v6' = [v6 EXCEPT ![j] = [at |-> "done", result |-> "ready"]]
    BY <1>5 DEF Services!Lock, Services!Ends
  <2>2. v6' \in [Calls -> Call]
    BY <1>1, <2>1 DEF Call, Stages, Services!Statuses
  <2> QED
    BY <1>1, <1>2, <1>4, <1>5, <2>1, <2>2
       DEF Services!Lock, Services!Inv, Services!TypeOK, Services!memory, ByThread, Calls, Call, Stages
<1>6. CASE ~v4
  <2>1. v6' = [v6 EXCEPT ![j].at = "speaking"]
    BY <1>6 DEF Services!Lock, Services!Goes
  <2>2. v6' \in [Calls -> Call]
    BY <1>1, <2>1 DEF Call, Stages
  <2>3. v6'[j].result # "ready"
    BY <1>1, <1>2, <1>6, <2>1 DEF Services!Inv, Services!CloudByWarmUp, Calls, Call
  <2> QED
    BY <1>1, <1>2, <1>4, <2>1, <2>2, <2>3
       DEF Services!Lock, Services!Inv, Services!TypeOK, Services!memory, ByThread, Calls, Call, Stages
<1> QED
  BY <1>5, <1>6

LEMMA ThreadStep ==
  ASSUME Services!Inv, NEW j \in Calls, Services!Thread(j)
  PROVE  Services!TypeOK' /\ ByThread(j)
<1> USE ServicesAssumption DEF Services!ServicesAssumption, Services!Inv, Services!TypeOK, Calls
<1>1. CASE Services!TakeUp(j)
  BY <1>1 DEF Services!TakeUp, Services!Goes, ByThread, Services!memory, Services!CloudByWarmUp
<1>2. CASE Services!Probe(j)
  BY <1>2 DEF Services!Probe, Services!Measured, ByThread, Services!memory, Services!CloudByWarmUp,
              Services!Statuses
<1>3. CASE Services!Remember(j)
  BY <1>3 DEF Services!Remember, Services!Remembered, Services!Ends, ByThread,
              Services!CloudByWarmUp, Services!Statuses, Services!Services
<1>4. CASE Services!Spoken(j)
  BY <1>4 DEF Services!Spoken, Services!Ends, ByThread, Services!CloudByWarmUp, Services!Statuses
<1> QED
  BY <1>1, <1>2, <1>3, <1>4, LockStep DEF Services!Thread

\* Threads leave what was found ready alone.
LEMMA ThreadKeepsBase ==
  ASSUME Services!Inv, NEW j \in Calls, Services!Thread(j)
  PROVE  Base'
<1>1. Services!TypeOK' /\ ByThread(j)
  BY ThreadStep
<1>2. \A c \in Connects, i \in DOMAIN Order : <<c, Order[i]>> \in Calls
  BY ServicesAssumption DEF Services!ServicesAssumption, Calls, Services!Clients, Services!Services
<1>3. ASSUME NEW k \in Calls, v6[k] = [at |-> "done", result |-> "ready"] PROVE v6'[k] = v6[k]
  BY <1>1, <1>3 DEF ByThread
<1>4. Services!FoundReady'
  BY <1>1, <1>2, <1>3, ServicesAssumption
     DEF Services!Inv, Services!FoundReady, Services!FoundReadyFor, Services!TypeOK, ByThread, Services!ServicesAssumption,
         Services!Clients
<1>5. Services!CloudByWarmUp'
  BY <1>1 DEF Services!Inv, Services!CloudByWarmUp, ByThread, Calls, Services!NoJob,
              Services!Clients, Services!Services
<1> QED
  BY <1>1, <1>4, <1>5 DEF Base

\* A request's calls are its own.
LEMMA OwnCalls ==
  /\ \A c \in Connects, i \in 1..Len(Order) : <<c, Order[i]>> \in Calls /\ i \in DOMAIN Order
  /\ Len(Order) \in Nat \ {0}
  /\ \A c, d \in Connects, i, k \in 1..Len(Order) :
       <<c, Order[i]>> = <<d, Order[k]>> => c = d /\ i = k
BY ServicesAssumption DEF Services!ServicesAssumption, Calls, Services!Clients, Services!Services

\* What a request was told stays while others do their steps.
LEMMA OthersFoundReady ==
  ASSUME Services!Inv, NEW c \in Services!Clients, NEW d \in Connects \ {c},
         \A k \in Calls : k[1] # c => v6'[k] = v6[k],
         v7'[d] = v7[d]
  PROVE  Services!FoundReadyFor(d)'
<1>1. d \in Services!Clients
  BY DEF Services!Clients
<1>2. v7[d].checked \in 0..Len(Order)
  BY <1>1, ServicesTypes DEF Services!Inv, Request
<1>3. \A i \in 1..v7[d].checked : v6'[<<d, Order[i]>>] = v6[<<d, Order[i]>>]
  BY <1>2, OwnCalls
<1> QED
  BY <1>1, <1>3 DEF Services!Inv, Services!FoundReady, Services!FoundReadyFor

LEMMA ConnectKeepsBase ==
  ASSUME Services!Inv, NEW c \in Services!Clients, Services!Connect(c)
  PROVE  Base'
<1> DEFINE first == <<c, Order[1]>>
<1>1. /\ c \in Connects /\ v7[c].at = "idle"
      /\ v7' = [v7 EXCEPT ![c].at = "waiting"] /\ v6' = [v6 EXCEPT ![first].at = "queued"]
      /\ UNCHANGED <<v1, v2, v3, v4, v5>>
  BY DEF Services!Connect, Services!memory
<1>2. v6 \in [Calls -> Call] /\ v7 \in [Services!Clients -> Request] /\ first \in Calls
  BY <1>1, OwnCalls, ServicesTypes DEF Services!Inv
<1>3. /\ v6' \in [Calls -> Call] /\ v6'[first].at = "queued"
      /\ v6'[first].result = v6[first].result
      /\ \A k \in Calls \ {first} : v6'[k] = v6[k]
  BY <1>1, <1>2 DEF Call, Stages
<1>4. /\ v7' \in [Services!Clients -> Request] /\ v7'[c] = [at |-> "waiting", checked |-> 0]
      /\ \A d \in Services!Clients \ {c} : v7'[d] = v7[d]
  BY <1>1, <1>2 DEF Services!Inv, Services!FoundReady, Services!FoundReadyFor, Request
<1>5. Services!TypeOK'
  BY <1>1, <1>3, <1>4 DEF Services!Inv, Services!TypeOK, Calls, Call, Stages, Request
<1>6. Services!FoundReady'
  <2>1. v7'[c].checked # Len(Order) /\ v7'[c].checked = 0
    BY <1>4, OwnCalls
  <2>2. \A k \in Calls : k[1] # c => v6'[k] = v6[k]
    BY <1>3
  <2>3. ASSUME NEW d \in Connects \ {c} PROVE Services!FoundReadyFor(d)'
    BY <1>4, <2>2, OthersFoundReady DEF Services!Clients
  <2> QED
    BY <1>4, <2>1, <2>3 DEF Services!FoundReady, Services!FoundReadyFor
<1>7. Services!CloudByWarmUp'
  BY <1>1, <1>2, <1>3, ServicesAssumption
     DEF Services!Inv, Services!CloudByWarmUp, Calls, Services!ServicesAssumption,
         Services!Clients, Services!Services
<1> QED
  BY <1>5, <1>6, <1>7 DEF Base

LEMMA NextCheckKeepsBase ==
  ASSUME Services!Inv, NEW c \in Services!Clients, Services!NextCheck(c)
  PROVE  Base'
<1> DEFINE n == v7[c].checked
<1>1. /\ c \in Connects /\ v7[c].at = "waiting" /\ UNCHANGED <<v1, v2, v3, v4, v5>>
      /\ v6 \in [Calls -> Call] /\ v7 \in [Services!Clients -> Request]
  BY ServicesTypes DEF Services!NextCheck, Services!memory, Services!Inv
<1>2. n \in 0..Len(Order) /\ n # Len(Order)
  BY <1>1 DEF Services!Inv, Services!FoundReady, Services!FoundReadyFor, Request
<1>3. n + 1 \in 1..Len(Order) /\ <<c, Order[n + 1]>> \in Calls
  BY <1>1, <1>2, OwnCalls
<1>4. v6[<<c, Order[n + 1]>>] = [at |-> "done", result |-> "ready"]
  BY <1>1, <1>3 DEF Services!NextCheck, Services!Checking, Call
<1>5. \A i \in 1..(n + 1) : v6[<<c, Order[i]>>] = [at |-> "done", result |-> "ready"]
  BY <1>1, <1>2, <1>4 DEF Services!Inv, Services!FoundReady, Services!FoundReadyFor
<1>6. CASE n + 1 = Len(Order)
  <2>1. v6' = v6 /\ v7' = [v7 EXCEPT ![c] = [at |-> "given", checked |-> n + 1]]
    BY <1>1, <1>6 DEF Services!NextCheck, Request
  <2>2. v7' \in [Services!Clients -> Request]
    BY <1>1, <1>3, <2>1 DEF Request
  <2>3. Services!TypeOK'
    BY <1>1, <2>1, <2>2 DEF Services!Inv, Services!TypeOK, Request
  <2>4. Services!FoundReady'
    BY <1>1, <1>5, <1>6, <2>1 DEF Services!Inv, Services!FoundReady, Services!FoundReadyFor
  <2>5. Services!CloudByWarmUp'
    BY <1>1, <2>1 DEF Services!Inv, Services!CloudByWarmUp
  <2> QED
    BY <2>3, <2>4, <2>5 DEF Base
<1>7. CASE n + 1 # Len(Order)
  <2> DEFINE next == <<c, Order[n + 2]>>
  <2>1. n + 2 \in 1..Len(Order) /\ next \in Calls
    BY <1>1, <1>2, <1>7, OwnCalls
  <2>2. /\ v6' = [v6 EXCEPT ![next].at = "queued"]
        /\ v7' = [v7 EXCEPT ![c] = [at |-> "waiting", checked |-> n + 1]]
    BY <1>1, <1>7 DEF Services!NextCheck, Request
  <2>3. /\ v6' \in [Calls -> Call] /\ v6'[next] = [at |-> "queued", result |-> v6[next].result]
        /\ \A k \in Calls \ {next} : v6'[k] = v6[k]
    BY <1>1, <2>1, <2>2 DEF Call, Stages
  <2>4. /\ v7' \in [Services!Clients -> Request] /\ v7'[c] = [at |-> "waiting", checked |-> n + 1]
        /\ \A d \in Services!Clients \ {c} : v7'[d] = v7[d]
    BY <1>1, <1>3, <2>2 DEF Request
  <2>5. Services!TypeOK'
    BY <1>1, <2>3, <2>4 DEF Services!Inv, Services!TypeOK, Calls, Call, Stages, Request
  <2>6. Services!FoundReadyFor(c)'
    <3>1. \A i \in 1..(n + 1) : <<c, Order[i]>> \in Calls \ {next}
      BY <1>1, <1>2, <2>1, OwnCalls
    <3>2. \A i \in 1..(n + 1) : v6'[<<c, Order[i]>>] = [at |-> "done", result |-> "ready"]
      BY <1>5, <2>3, <3>1
    <3> QED
      BY <1>7, <2>4, <3>2 DEF Services!FoundReadyFor
  <2>7. ASSUME NEW d \in Connects \ {c} PROVE Services!FoundReadyFor(d)'
    <3>1. \A k \in Calls : k[1] # c => v6'[k] = v6[k]
      BY <2>3
    <3> QED
      BY <2>4, <3>1, OthersFoundReady DEF Services!Clients
  <2>8. Services!CloudByWarmUp'
    <3>1. v6'[next].at = "queued" /\ v6'[next].result = v6[next].result
      BY <2>3
    <3>2. \A k \in Calls \ {next} : v6'[k] = v6[k]
      BY <2>3
    <3>3. c \notin Lists /\ v4' = v4
      BY <1>1, ServicesAssumption DEF Services!ServicesAssumption
    <3> QED
      BY <2>1, <3>1, <3>2, <3>3
         DEF Services!Inv, Services!CloudByWarmUp, Calls, Services!Clients, Services!Services
  <2> QED
    BY <2>5, <2>6, <2>7, <2>8 DEF Base, Services!FoundReady
<1> QED
  BY <1>6, <1>7

LEMMA RefusedKeepsBase ==
  ASSUME Services!Inv, NEW c \in Services!Clients, Services!NotReady(c) \/ Services!TimesOut(c)
  PROVE  Base'
<1>1. /\ v7' = [v7 EXCEPT ![c].at = "refused"] /\ UNCHANGED <<v1, v2, v3, v4, v5, v6>>
      /\ v7 \in [Services!Clients -> Request]
  BY ServicesTypes DEF Services!NotReady, Services!TimesOut, Services!memory, Services!Inv
<1>2. /\ v7' \in [Services!Clients -> Request] /\ v7'[c].at = "refused"
      /\ \A d \in Services!Clients \ {c} : v7'[d] = v7[d]
  BY <1>1 DEF Request
<1> QED
  BY <1>1, <1>2 DEF Base, Services!Inv, Services!TypeOK, Request, Services!FoundReady,
                    Services!FoundReadyFor, Services!CloudByWarmUp, Services!Clients

LEMMA ListKeepsBase ==
  ASSUME Services!Inv, NEW c \in Services!Clients, Services!AskList(c) \/ Services!ShowList(c)
  PROVE  Base'
<1>1. /\ c \in Lists /\ UNCHANGED <<v1, v2, v3, v4, v5>>
      /\ v6 \in [Calls -> Call] /\ v7 \in [Services!Clients -> Request]
  BY ServicesTypes DEF Services!AskList, Services!ShowList, Services!memory, Services!Inv
<1>2. /\ v6' \in [Calls -> Call]
      /\ \A k \in Calls : \/ v6'[k] = v6[k]
                          \/ k[1] = c /\ v6'[k] = Services!NoJob
                          \/ /\ k[1] = c /\ k[2] \in Hosted
                             /\ v6'[k] = [at |-> "queued", result |-> "none"]
  BY <1>1 DEF Services!AskList, Services!ShowList, Call, Stages, Services!NoJob
<1>3. /\ v7' \in [Services!Clients -> Request]
      /\ \A d \in Services!Clients \ {c} : v7'[d] = v7[d]
  BY <1>1, OwnCalls DEF Services!AskList, Services!ShowList, Services!Rest, Request
<1>4. Services!TypeOK'
  BY <1>1, <1>2, <1>3 DEF Services!Inv, Services!TypeOK, Calls, Call, Stages, Request
<1>5. Services!FoundReady'
  <2>1. \A k \in Calls : k[1] # c => v6'[k] = v6[k]
    BY <1>2
  <2>2. Connects \ {c} = Connects
    BY <1>1, ServicesAssumption DEF Services!ServicesAssumption
  <2>3. ASSUME NEW d \in Connects \ {c} PROVE Services!FoundReadyFor(d)'
    BY <1>3, <2>1, OthersFoundReady DEF Services!Clients
  <2> QED
    BY <2>2, <2>3 DEF Services!FoundReady
<1>6. Services!CloudByWarmUp'
  BY <1>1, <1>2, ServicesAssumption
     DEF Services!Inv, Services!CloudByWarmUp, Calls, Services!ServicesAssumption,
         Services!Clients, Services!Services, Services!NoJob
<1> QED
  BY <1>4, <1>5, <1>6 DEF Base

LEMMA ServicesStep == Services!Inv /\ Services!Next => Services!Inv'
<1> SUFFICES ASSUME Services!Inv, Services!Next PROVE Base'
  BY ReadyMeansGiven, PTL
<1>1. ASSUME NEW t \in Services!Services, Services!ServiceMoves(t) PROVE Base'
  <2>1. v1' \in [Services!Services -> {"up", "loading", "down", "hangs"}]
    BY <1>1 DEF Services!ServiceMoves, Services!Inv, Services!TypeOK
  <2> QED
    BY <1>1, <2>1 DEF Services!ServiceMoves, Services!memory, Base, Services!Inv, Services!TypeOK,
                      Services!FoundReady, Services!FoundReadyFor, Services!CloudByWarmUp
<1>2. ASSUME NEW c \in Services!Clients, Services!Step(c) PROVE Base'
  BY <1>2, ConnectKeepsBase, NextCheckKeepsBase, RefusedKeepsBase, ListKeepsBase DEF Services!Step
<1>3. ASSUME NEW j \in Calls, Services!Thread(j) PROVE Base'
  BY <1>3, ThreadKeepsBase
<1> QED
  BY <1>1, <1>2, <1>3 DEF Services!Next, Calls

\* A session id is given only to a request whose services were all found ready
\* and, if the cloud TTS is one of them, after it has spoken (_ensure_*_ready_for_
\* connection, _seen_service_targets, warmup_tts_synthesis), for any number of
\* requests, services and threads.
THEOREM SessionIdMeansReady == Spec => []IdMeansReady
<1> DEFINE Safe == component \in {"services", "list"} => Services!Inv
<1>1. Init => Safe
  BY ServicesInit DEF Init
<1>2. Safe /\ [Next]_vars => Safe'
  <2> SUFFICES ASSUME Safe, [Next]_vars, component' \in {"services", "list"} PROVE Services!Inv'
    OBVIOUS
  <2>1. CASE component \in {"services", "list"} /\ Services!Next
    BY <2>1, ServicesStep
  <2>2. CASE UNCHANGED vars
    BY <2>2 DEF vars, Services!Inv, Services!TypeOK, Services!IdMeansReady, Services!FoundReady,
                Services!FoundReadyFor, Services!CloudByWarmUp
  <2> QED
    BY <2>1, <2>2 DEF Next
<1>3. Safe => IdMeansReady
  BY DEF IdMeansReady, Services!Inv
<1> QED
  BY <1>1, <1>2, <1>3, PTL DEF Spec

(***************************************************************************)
(* RealtimeGateway.                                                        *)
(***************************************************************************)
\* The soft voice check returns a voice its service lists, or its default.
LEMMA ResolveLemma ==
  ASSUME NEW s \in DOMAIN Catalog, NEW voice
  PROVE  LET w == Gateway!ResolveVoice(s, voice)
         IN w \in Catalog[s] \cup {Fallback[s]} /\ w \in Gateway!Voices /\ w # Unset
<1> USE GatewayAssumption DEF Gateway!CatalogAssumption
<1> DEFINE w == Gateway!ResolveVoice(s, voice)
<1>1. w \in Catalog[s] \cup {Fallback[s]}
  BY DEF Gateway!ResolveVoice
<1>2. w # Unset
  BY <1>1
<1> HIDE DEF w
<1>3. ASSUME w \in Catalog[s] PROVE w \in Gateway!Voices
  BY <1>3, Zenon DEF Gateway!Voices
<1>4. ASSUME w = Fallback[s] PROVE w \in Gateway!Voices
  BY <1>4 DEF Gateway!Voices
<1>5. w \in Gateway!Voices
  BY <1>1, <1>3, <1>4
<1> QED
  BY <1>1, <1>2, <1>5 DEF w

\* The sanitizer returns a known config, with a voice of its service.
LEMMA SanitizeLemma ==
  ASSUME NEW p \in Patches
  PROVE  LET f == Gateway!Sanitize(Gateway!DefaultConfig, p)
         IN /\ f \in Gateway!Config
            /\ f.tts \in DOMAIN Catalog
            /\ f.voice \in Catalog[f.tts] \cup {Fallback[f.tts]}
            /\ f.voice # Unset
<1> USE GatewayAssumption DEF Gateway!CatalogAssumption, Gateway!PatchesAssumption
<1> DEFINE tts == Gateway!Or(p.tts, Gateway!Or(Unset, DefaultTts))
           voice == Gateway!Or(Gateway!Stripped(p.voice), Unset)
<1>1. tts \in DOMAIN Catalog /\ tts # Unset
  BY DEF Gateway!Or
<1>2. Gateway!Or(p.mode, DefaultMode) \in Gateway!Modes
  BY DEF Gateway!Or, Gateway!Modes
<1>3. Gateway!Sanitize(Gateway!DefaultConfig, p) =
        [mode |-> Gateway!Or(p.mode, DefaultMode), tts |-> tts,
         voice |-> Gateway!ResolveVoice(tts, voice)]
  BY <1>1 DEF Gateway!Sanitize, Gateway!DefaultConfig
<1> HIDE DEF tts, voice
<1>4. LET w == Gateway!ResolveVoice(tts, voice)
      IN w \in Catalog[tts] \cup {Fallback[tts]} /\ w \in Gateway!Voices /\ w # Unset
  BY <1>1, ResolveLemma
<1> QED
  BY <1>1, <1>2, <1>3, <1>4 DEF Gateway!Config

LEMMA GatewayInit == Gateway!Init => Gateway!Inv
<1> SUFFICES ASSUME Gateway!Init PROVE Gateway!Inv
  OBVIOUS
<1> USE GatewayAssumption DEF Gateway!RejectedAssumption, Gateway!Init, Gateway!DefaultConfig, Gateway!DefaultView
<1>1. Gateway!TypeOK
  <2>1. DefaultMode \in Gateway!Modes /\ DefaultRate \in Gateway!Rates
    BY DEF Gateway!Modes, Gateway!Rates
  <2>2. /\ v5 \in Gateway!Config
        /\ v6 \in [mode : Gateway!Modes, tts : DOMAIN Catalog \cup {Unset},
                   voice : Gateway!Voices \cup {Unset, Blank}, in : Gateway!Rates, out : Gateway!Rates]
        /\ v9 \in [Gateway!Sides -> Gateway!Rates \cup {Unset}]
    BY <2>1 DEF Gateway!Config, Gateway!Unbound
  <2>3. v3 \in 0..MaxRejected /\ v4 \in 0..MaxRejected
    OBVIOUS
  <2> QED
    BY <2>2, <2>3 DEF Gateway!TypeOK
<1> QED
  BY <1>1 DEF Gateway!Inv, Gateway!BotRunsWhatWasAcknowledged, Gateway!VoiceInCatalog,
    Gateway!ResamplerMatchesRate, Gateway!NothingAppliedYet, Gateway!OnePatchPending, Gateway!Unbound

\* The handshake until an update is taken: only counters and the stage move.
LEMMA ReceiveKeepsInv ==
  ASSUME Gateway!Inv,
         Gateway!RejectEvent \/ Gateway!InvalidUpdate \/ Gateway!SessionUpdateTimeout
           \/ Gateway!NotReady \/ Gateway!Disconnect
  PROVE  Gateway!Inv'
<1> USE GatewayAssumption DEF Gateway!RejectedAssumption, Gateway!Inv
<1>1. /\ v1 \in {"receiving", "checking"} /\ v1' \in {"receiving", "checking", "closed"}
      /\ v1' = "checking" => v1 = "checking" /\ v7' = v7
      /\ UNCHANGED <<v5, v6, v8, v9>>
  BY DEF Gateway!RejectEvent, Gateway!InvalidUpdate, Gateway!SessionUpdateTimeout,
         Gateway!NotReady, Gateway!Disconnect, Gateway!Reject, Gateway!Fail
<1>2. /\ v2' \in BOOLEAN /\ v3' \in 0..MaxRejected /\ v4' \in 0..MaxRejected
      /\ v1' # "closed" => v3' < MaxRejected /\ v4' < MaxRejected
  <2>1. /\ MaxRejected \in Nat /\ v3 \in Nat /\ v4 \in Nat
        /\ v3 < MaxRejected /\ v4 < MaxRejected
    BY <1>1 DEF Gateway!TypeOK, Gateway!NothingAppliedYet
  <2>2. /\ v3' \in {v3, v3 + 1} /\ v4' \in {v4, v4 + 1}
        /\ v1' = "closed" \/ (v3' < MaxRejected /\ v4' < MaxRejected)
    BY <2>1 DEF Gateway!RejectEvent, Gateway!InvalidUpdate, Gateway!SessionUpdateTimeout,
                Gateway!NotReady, Gateway!Disconnect, Gateway!Reject, Gateway!Fail
  <2>3. v2' \in BOOLEAN
    BY DEF Gateway!RejectEvent, Gateway!InvalidUpdate, Gateway!SessionUpdateTimeout,
           Gateway!NotReady, Gateway!Disconnect, Gateway!TypeOK
  <2> QED
    BY <2>1, <2>2, <2>3
<1>3. Gateway!TypeOK'
  BY <1>1, <1>2 DEF Gateway!TypeOK
<1> QED
  BY <1>1, <1>2, <1>3 DEF Gateway!BotRunsWhatWasAcknowledged, Gateway!VoiceInCatalog,
    Gateway!ResamplerMatchesRate, Gateway!NothingAppliedYet, Gateway!OnePatchPending

LEMMA SessionUpdateKeepsInv ==
  ASSUME Gateway!Inv, NEW p \in Patches, Gateway!SessionUpdate(p)
  PROVE  Gateway!Inv'
<1>1. /\ v1 = "receiving" /\ v1' = "checking" /\ UNCHANGED <<v2, v3, v4, v5, v6, v8, v9>>
      /\ v7' = [patch |-> p, flat |-> Gateway!Sanitize(Gateway!DefaultConfig, p)]
  BY DEF Gateway!SessionUpdate, Gateway!Inv, Gateway!NothingAppliedYet
<1> QED
  BY <1>1 DEF Gateway!Inv, Gateway!TypeOK, Gateway!BotRunsWhatWasAcknowledged,
    Gateway!VoiceInCatalog, Gateway!ResamplerMatchesRate, Gateway!NothingAppliedYet,
    Gateway!OnePatchPending

\* The update is acknowledged and the bot runs it, or the client has gone.
LEMMA ReadyKeepsInv ==
  ASSUME Gateway!Inv, Gateway!Ready
  PROVE  Gateway!Inv'
<1> DEFINE p == v7.patch
           f == Gateway!Sanitize(Gateway!DefaultConfig, p)
<1>1. p \in Patches /\ v7.flat = f /\ v6 = Gateway!DefaultView
  BY DEF Gateway!Ready, Gateway!Inv, Gateway!NothingAppliedYet, Gateway!OnePatchPending
<1>2. /\ f \in Gateway!Config /\ f.tts \in DOMAIN Catalog /\ f.voice # Unset
      /\ f.voice \in Catalog[f.tts] \cup {Fallback[f.tts]}
  BY <1>1, SanitizeLemma
<1>3. v6' = [mode |-> f.mode, tts |-> f.tts, voice |-> f.voice,
             in |-> Gateway!Or(p.in, DefaultRate), out |-> Gateway!Or(p.out, DefaultRate)]
  BY <1>1, <1>2 DEF Gateway!Ready, Gateway!ApplyUpdate, Gateway!Or, Gateway!DefaultView
<1>4. Gateway!Or(p.in, DefaultRate) \in Gateway!Rates /\ Gateway!Or(p.out, DefaultRate) \in Gateway!Rates
  BY <1>1 DEF Gateway!Or, Gateway!Rates
<1>5. /\ v5' = f /\ v1' \in {"bot", "closed"} /\ UNCHANGED <<v2, v3, v4, v7, v9>>
      /\ v1' = "bot" => v8' = f
      /\ v8' \in {v8, f}
  BY <1>1 DEF Gateway!Ready
<1>6. Gateway!TypeOK'
  <2>1. v6' \in [mode : Gateway!Modes, tts : DOMAIN Catalog \cup {Unset},
                 voice : Gateway!Voices \cup {Unset, Blank}, in : Gateway!Rates, out : Gateway!Rates]
    BY <1>2, <1>3, <1>4 DEF Gateway!Config
  <2> QED
    BY <1>2, <1>5, <2>1 DEF Gateway!Inv, Gateway!TypeOK
<1>7. Gateway!ResamplerMatchesRate'
  <2>1. v9' = Gateway!Unbound
    BY <1>5 DEF Gateway!Ready, Gateway!Inv, Gateway!NothingAppliedYet
  <2> QED
    BY <2>1 DEF Gateway!ResamplerMatchesRate, Gateway!Unbound
<1>8. Gateway!BotRunsWhatWasAcknowledged' /\ Gateway!VoiceInCatalog'
  BY <1>2, <1>3, <1>5 DEF Gateway!BotRunsWhatWasAcknowledged, Gateway!VoiceInCatalog
<1>9. Gateway!NothingAppliedYet' /\ Gateway!OnePatchPending'
  BY <1>1, <1>2, <1>5, GatewayAssumption
     DEF Gateway!NothingAppliedYet, Gateway!OnePatchPending, Gateway!CatalogAssumption
<1> QED
  BY <1>6, <1>7, <1>8, <1>9 DEF Gateway!Inv

\* A live update touches the voice and the rates only, and a new rate on either
\* side replaces both streams.
LEMMA LiveUpdateKeepsInv ==
  ASSUME Gateway!Inv, NEW p \in Patches, Gateway!LiveUpdate(p)
  PROVE  Gateway!Inv'
<1> USE GatewayAssumption DEF Gateway!CatalogAssumption, Gateway!PatchesAssumption
<1> DEFINE set   == Gateway!Stripped(p.voice)
           voice == IF set = Unset THEN Unset ELSE Gateway!ResolveVoice(v8.tts, set)
           new   == Gateway!Merged(p, voice)
<1>1. /\ v1 = "bot" /\ UNCHANGED <<v1, v2, v3, v4, v5, v7>>
      /\ v6' = new /\ v8' = [v8 EXCEPT !.voice = Gateway!Or(voice, @)]
      /\ v9' = Gateway!ResetStreams(new)
  BY DEF Gateway!LiveUpdate
<1>2. /\ v8 \in Gateway!Config /\ v8.tts \in DOMAIN Catalog
      /\ v8.voice \in Catalog[v8.tts] \cup {Fallback[v8.tts]}
      /\ v8.mode = v6.mode /\ v8.tts = v6.tts /\ v6.voice \in {v8.voice, Blank}
  BY <1>1 DEF Gateway!Inv, Gateway!OnePatchPending, Gateway!VoiceInCatalog,
              Gateway!BotRunsWhatWasAcknowledged, Gateway!Config
<1>3. voice # Unset => voice \in Catalog[v8.tts] \cup {Fallback[v8.tts]} /\ voice \in Gateway!Voices
  BY <1>2, ResolveLemma
<1>4. voice = Unset => p.voice \in {Unset, Blank}
  BY <1>2, ResolveLemma DEF Gateway!Stripped
<1> HIDE DEF voice
<1>5. v8' = [v8 EXCEPT !.voice = IF voice = Unset THEN @ ELSE voice]
  BY <1>1 DEF Gateway!Or
<1>6. /\ v8' \in Gateway!Config /\ v8'.tts = v8.tts /\ v8'.mode = v8.mode
      /\ v8'.voice = (IF voice = Unset THEN v8.voice ELSE voice)
  BY <1>2, <1>3, <1>5 DEF Gateway!Config
<1>7. /\ v6'.voice = IF voice # Unset THEN voice ELSE IF p.voice = Unset THEN v6.voice ELSE Blank
      /\ v6'.in = Gateway!Or(p.in, v6.in) /\ v6'.out = Gateway!Or(p.out, v6.out)
      /\ v6' = [v6 EXCEPT !.voice = v6'.voice, !.in = v6'.in, !.out = v6'.out]
  BY <1>1, <1>4 DEF Gateway!Merged, Gateway!Or, Gateway!Inv, Gateway!TypeOK
<1>8. v6'.in \in Gateway!Rates /\ v6'.out \in Gateway!Rates
  BY <1>7 DEF Gateway!Or, Gateway!Rates, Gateway!Inv, Gateway!TypeOK
<1>9. v6'.voice \in Gateway!Voices \cup {Unset, Blank}
  BY <1>3, <1>7 DEF Gateway!Inv, Gateway!TypeOK
<1>10. v6'.mode = v6.mode /\ v6'.tts = v6.tts
  BY <1>7 DEF Gateway!Inv, Gateway!TypeOK
<1>11. v9' \in {v9, Gateway!Unbound}
  BY <1>1 DEF Gateway!ResetStreams
<1>12. Gateway!TypeOK'
  <2>1. v6' \in [mode : Gateway!Modes, tts : DOMAIN Catalog \cup {Unset},
                 voice : Gateway!Voices \cup {Unset, Blank}, in : Gateway!Rates, out : Gateway!Rates]
    BY <1>7, <1>8, <1>9 DEF Gateway!Inv, Gateway!TypeOK
  <2>2. v9' \in [Gateway!Sides -> Gateway!Rates \cup {Unset}]
    BY <1>11 DEF Gateway!Unbound, Gateway!Inv, Gateway!TypeOK
  <2> QED
    BY <1>1, <1>6, <2>1, <2>2 DEF Gateway!Inv, Gateway!TypeOK
<1>13. Gateway!ResamplerMatchesRate'
  <2>1. CASE v9' = Gateway!Unbound
    BY <2>1 DEF Gateway!ResamplerMatchesRate, Gateway!Unbound
  <2>2. CASE v9' # Gateway!Unbound
    BY <1>1, <2>2 DEF Gateway!ResetStreams, Gateway!ResamplerMatchesRate, Gateway!Inv
  <2> QED
    BY <2>1, <2>2
<1>14. Gateway!BotRunsWhatWasAcknowledged'
  BY <1>1, <1>2, <1>6, <1>7, <1>10 DEF Gateway!BotRunsWhatWasAcknowledged, Gateway!Inv
<1>15. Gateway!VoiceInCatalog'
  BY <1>1, <1>2, <1>3, <1>6 DEF Gateway!VoiceInCatalog
<1>16. Gateway!NothingAppliedYet' /\ Gateway!OnePatchPending'
  BY <1>1, <1>6 DEF Gateway!NothingAppliedYet, Gateway!OnePatchPending, Gateway!Inv
<1> QED
  BY <1>12, <1>13, <1>14, <1>15, <1>16 DEF Gateway!Inv

LEMMA ResampleKeepsInv ==
  ASSUME Gateway!Inv, NEW side \in Gateway!Sides, Gateway!Resample(side)
  PROVE  Gateway!Inv'
<1>1. /\ v1 = "bot" /\ UNCHANGED <<v1, v2, v3, v4, v5, v6, v7, v8>>
      /\ v9' = [v9 EXCEPT ![side] = v6[side]]
  BY DEF Gateway!Resample
<1>2. v9' \in [Gateway!Sides -> Gateway!Rates \cup {Unset}]
  BY <1>1 DEF Gateway!Inv, Gateway!TypeOK, Gateway!Sides
<1>3. Gateway!TypeOK'
  BY <1>1, <1>2 DEF Gateway!Inv, Gateway!TypeOK
<1> QED
  BY <1>1, <1>3 DEF Gateway!Inv, Gateway!TypeOK, Gateway!BotRunsWhatWasAcknowledged,
    Gateway!VoiceInCatalog, Gateway!ResamplerMatchesRate, Gateway!NothingAppliedYet,
    Gateway!OnePatchPending

LEMMA GatewayStep == Gateway!Inv /\ Gateway!Next => Gateway!Inv'
<1> SUFFICES ASSUME Gateway!Inv, Gateway!Next PROVE Gateway!Inv'
  OBVIOUS
<1>1. CASE Gateway!Receive \/ Gateway!NotReady \/ Gateway!Disconnect
  BY <1>1, ReceiveKeepsInv, SessionUpdateKeepsInv DEF Gateway!Receive
<1>2. CASE Gateway!Ready
  BY <1>2, ReadyKeepsInv
<1>3. CASE \E p \in Patches : Gateway!LiveUpdate(p)
  BY <1>3, LiveUpdateKeepsInv
<1>4. CASE \E side \in Gateway!Sides : Gateway!Resample(side)
  BY <1>4, ResampleKeepsInv
<1> QED
  BY <1>1, <1>2, <1>3, <1>4 DEF Gateway!Next

\* The bot of a Realtime session runs the one update that was acknowledged, with
\* a voice of its TTS service through any number of live updates, and a stream is
\* never resampled from a rate it was not bound to (handle_realtime_websocket,
\* RealtimeFrameSerializer), for any catalog and any updates.
THEOREM BotRunsAsNegotiated == Spec => []RunsAsNegotiated
<1> DEFINE Safe == component = "gateway" => Gateway!Inv
<1>1. Init => Safe
  BY GatewayInit DEF Init
<1>2. Safe /\ [Next]_vars => Safe'
  <2> SUFFICES ASSUME Safe, [Next]_vars, component' = "gateway" PROVE Gateway!Inv'
    OBVIOUS
  <2>1. CASE component = "gateway" /\ Gateway!Next
    BY <2>1, GatewayStep
  <2>2. CASE UNCHANGED vars
    BY <2>2 DEF vars, Gateway!Inv, Gateway!TypeOK, Gateway!BotRunsWhatWasAcknowledged,
      Gateway!VoiceInCatalog, Gateway!ResamplerMatchesRate, Gateway!NothingAppliedYet,
      Gateway!OnePatchPending
  <2> QED
    BY <2>1, <2>2 DEF Next
<1>3. Safe => RunsAsNegotiated
  BY DEF RunsAsNegotiated, Gateway!Inv
<1> QED
  BY <1>1, <1>2, <1>3, PTL DEF Spec

(***************************************************************************)
(* Webcam.  v1 is the phase, v2 the camera, v3 the frames captured, v4 the *)
(* messages, v5 the uploads, v6 and v7 the store, v8 the notices, v9 to    *)
(* v11 enabled, explicitlyDisabled and epoch, v12 to v16 the summaries,    *)
(* v17 the board and v18 what was told.                                    *)
(***************************************************************************)
\* The parts of the invariant by the state they are about: the browser and the
\* store, the controller and its board, the summaries.
StoreTypes ==
  /\ v1 \in {"connecting", "started", "ready", "ended"}
  /\ v2 \in [on : BOOLEAN, session : 0..MaxSessions] /\ v3 \in 0..MaxFrames
  /\ v5 \subseteq 1..MaxSessions
  /\ v7 \in 0..v3 /\ v6 \in {0, v7} /\ v8 \in 0..v7
  /\ Camera!FramesCounted
Job == [at : {"sent", "seeing", "done"}, epoch : Nat, sees : BOOLEAN]
Board == [state : {"off", "on", "seen"}, epoch : Nat]
SummaryTypes ==
  /\ v16 \in Seq(Job)
  /\ v12 \in -1..v11 /\ v13 \in 0..Len(v16) /\ v14 \in 0..v7
  /\ v15 \in [sequence : {0, v14}, epoch : 0..v11]
ControlTypes ==
  /\ v4 \in Seq(BOOLEAN) /\ v18 \in {"nothing", "on", "off"}
  /\ v9 \in BOOLEAN /\ v10 \in BOOLEAN /\ v11 \in Nat /\ v17 \in Board
Control ==
  /\ ControlTypes /\ Camera!LiveViewOfThisEpoch /\ Camera!OffStaysOff
  /\ Camera!NothingBeforeTheBot /\ Camera!HeardAsTold
Summaries == SummaryTypes /\ Camera!OneSummary /\ Camera!UnansweredIsTask

LEMMA CameraParts == Camera!Inv <=> StoreTypes /\ Control /\ Summaries
BY DEF Camera!Inv, Camera!TypeOK, Camera!Sessions, Camera!NoFrame, StoreTypes, Control, ControlTypes,
       Summaries, SummaryTypes, Job, Board

\* Webcam counts the uploads with the operator of FiniteSets.
LEMMA UploadsCounted == \A S : Camera!Cardinality(S) = Cardinality(S)
BY DEF Camera!Cardinality, Cardinality, Camera!IsFiniteSet, IsFiniteSet

LEMMA CameraInit == Camera!Init => Camera!Inv
<1> SUFFICES ASSUME Camera!Init PROVE StoreTypes /\ Control /\ Summaries
  BY CameraParts
<1> USE CameraAssumption DEF Camera!BoundsAssumption, Camera!Init, Camera!NoFrame, Camera!NoDispatch,
        Camera!OffState
<1>1. StoreTypes
  <2>1. v5 = {} /\ Cardinality(v5) = 0
    BY FS_EmptySet
  <2>2. Camera!FramesCounted
    BY <2>1, UploadsCounted DEF Camera!FramesCounted
  <2> QED
    BY <2>2 DEF StoreTypes
<1>2. Control
  <2>1. v4 \in Seq(BOOLEAN)
    BY EmptySeq
  <2>2. ControlTypes
    BY <2>1 DEF ControlTypes, Board
  <2> QED
    BY <2>2 DEF Control, Camera!LiveViewOfThisEpoch, Camera!OffStaysOff,
                Camera!NothingBeforeTheBot, Camera!HeardAsTold
<1>3. SummaryTypes
  BY DEF SummaryTypes, Job
<1>4. Camera!OneSummary /\ Camera!UnansweredIsTask
  BY DEF Camera!OneSummary, Camera!UnansweredIsTask, Camera!Unanswered
<1> QED
  BY <1>1, <1>2, <1>3, <1>4 DEF Summaries

\* The browser says what it does only when the client is ready.
LEMMA BrowserKeepsInv ==
  ASSUME Camera!Inv, Camera!TurnOn \/ Camera!TurnOff \/ Camera!ClientReady
  PROVE  Camera!Inv'
<1> USE CameraAssumption DEF Camera!BoundsAssumption
<1>1. StoreTypes /\ Control /\ Summaries
  BY CameraParts
<1>2. /\ UNCHANGED <<v3, v5, v6, v7, v8, v9, v10, v11, v12, v13, v14, v15, v16, v17, v18>>
      /\ \/ v1' = v1
         \/ v1 = "started" /\ v1' = "ready" /\ UNCHANGED <<v2, v4>>
  BY DEF Camera!TurnOn, Camera!TurnOff, Camera!ClientReady, Camera!browser, Camera!store,
         Camera!controller, Camera!summaries
<1>3. StoreTypes'
  <2>1. v2' \in [on : BOOLEAN, session : 0..MaxSessions] /\ (v2'.on => v2'.session > 0)
    <3>1. CASE Camera!TurnOn
      BY <1>1, <3>1 DEF Camera!TurnOn, StoreTypes
    <3>2. CASE Camera!TurnOff
      BY <1>1, <3>2 DEF Camera!TurnOff, StoreTypes
    <3>3. CASE Camera!ClientReady
      BY <1>1, <3>3 DEF Camera!ClientReady, Camera!browser, StoreTypes, Camera!FramesCounted
    <3> QED
      BY <3>1, <3>2, <3>3
  <2>2. v1' \in {"connecting", "started", "ready", "ended"}
    BY <1>1, <1>2 DEF StoreTypes
  <2> QED
    BY <1>1, <1>2, <2>1, <2>2 DEF StoreTypes, Camera!FramesCounted
<1>4. Control'
  <2>1. v4' \in Seq(BOOLEAN) /\ (v1' = "connecting" => v1 = "connecting" /\ v4' = v4)
    <3>1. v4 \in Seq(BOOLEAN)
      BY <1>1 DEF Control, ControlTypes
    <3>2. v4' \in {v4, Append(v4, TRUE), Append(v4, FALSE)}
      BY DEF Camera!TurnOn, Camera!TurnOff, Camera!ClientReady, Camera!browser, Camera!Send
    <3>3. Append(v4, TRUE) \in Seq(BOOLEAN) /\ Append(v4, FALSE) \in Seq(BOOLEAN)
      BY <3>1, AppendProperties
    <3>4. v1' = "connecting" => v1 = "connecting" /\ v4' = v4
      BY <1>1, <1>2 DEF Camera!TurnOn, Camera!TurnOff, Camera!ClientReady, Camera!Send
    <3> QED
      BY <3>1, <3>2, <3>3, <3>4
  <2> QED
    BY <1>1, <1>2, <2>1 DEF Control, ControlTypes, Camera!LiveViewOfThisEpoch, Camera!OffStaysOff,
       Camera!NothingBeforeTheBot, Camera!HeardAsTold
<1>5. Summaries'
  BY <1>1, <1>2 DEF Summaries, SummaryTypes, Camera!OneSummary, Camera!UnansweredIsTask,
     Camera!Unanswered
<1>6. (StoreTypes /\ Control /\ Summaries)'
  BY <1>3, <1>4, <1>5
<1>7. (Camera!Inv <=> StoreTypes /\ Control /\ Summaries)'
  BY CameraParts, PTL
<1> QED
  BY <1>6, <1>7

\* A frame is captured, and stored or lost, once.
LEMMA FramesKeepInv ==
  ASSUME Camera!Inv,
         \/ Camera!Capture
         \/ \E session \in v5 : Camera!StoreFrame(session) \/ Camera!UploadLost(session)
  PROVE  Camera!Inv'
<1> USE CameraAssumption DEF Camera!BoundsAssumption
<1>1. StoreTypes /\ Control /\ Summaries
  BY CameraParts
<1>2. IsFiniteSet(v5) /\ Cardinality(v5) \in Nat
  <2>1. IsFiniteSet(1..MaxSessions)
    BY FS_Interval
  <2> QED
    BY <1>1, <2>1, FS_Subset, FS_CardinalityType DEF StoreTypes
<1>3. UNCHANGED <<v1, v2, v4, v9, v10, v11, v12, v13, v14, v15, v16, v17, v18>>
  BY DEF Camera!Capture, Camera!StoreFrame, Camera!UploadLost, Camera!browser, Camera!store,
         Camera!controller, Camera!summaries
<1>4. StoreTypes' /\ v7' >= v7 /\ (v8' = v8 \/ v1 # "connecting")
  <2>1. CASE Camera!Capture
    <3>1. /\ v5' = v5 \cup {v2.session} /\ v2.session \notin v5 /\ v2.session \in 1..MaxSessions
          /\ v3' = v3 + 1 /\ v3 < MaxFrames /\ UNCHANGED <<v6, v7, v8>>
      BY <1>1, <2>1 DEF Camera!Capture, StoreTypes, Camera!FramesCounted, Camera!store
    <3>2. Cardinality(v5') = Cardinality(v5) + 1
      BY <1>2, <3>1, FS_AddElement
    <3>3. Camera!FramesCounted'
      BY <1>1, <1>2, <1>3, <3>1, <3>2, UploadsCounted DEF StoreTypes, Camera!FramesCounted
    <3>4. v5' \subseteq 1..MaxSessions
      BY <1>1, <3>1 DEF StoreTypes
    <3>5. v3' \in 0..MaxFrames /\ v7' \in 0..v3' /\ v6' \in {0, v7'} /\ v8' \in 0..v7'
      BY <1>1, <3>1 DEF StoreTypes
    <3>6. /\ v1' \in {"connecting", "started", "ready", "ended"}
          /\ v2' \in [on : BOOLEAN, session : 0..MaxSessions]
      BY <1>1, <1>3 DEF StoreTypes
    <3>7. StoreTypes'
      BY <3>3, <3>4, <3>5, <3>6 DEF StoreTypes
    <3> QED
      BY <1>1, <3>1, <3>7 DEF StoreTypes
  <2>2. CASE \E session \in v5 : Camera!StoreFrame(session)
    <3> PICK session \in v5 : Camera!StoreFrame(session)
      BY <2>2
    <3>1. /\ v5' = v5 \ {session} /\ v7' = v7 + 1 /\ v6' = v7 + 1 /\ v3' = v3
          /\ v8' = (IF v1 \in {"started", "ready"} THEN v8 + 1 ELSE v8)
      BY DEF Camera!StoreFrame, Camera!browser
    <3>2. Cardinality(v5') = Cardinality(v5) - 1
      BY <1>2, <3>1, FS_RemoveElement
    <3>3. Cardinality(v5') \in Nat
      BY <1>2, <3>1, FS_RemoveElement, FS_CardinalityType
    <3>4. Camera!FramesCounted'
      BY <1>1, <1>2, <1>3, <3>1, <3>2, UploadsCounted DEF StoreTypes, Camera!FramesCounted
    <3>5. v7 + 1 <= v3
      BY <1>1, <1>2, <3>2, <3>3, UploadsCounted DEF StoreTypes, Camera!FramesCounted
    <3> QED
      BY <1>1, <1>3, <3>1, <3>4, <3>5 DEF StoreTypes
  <2>3. CASE \E session \in v5 : Camera!UploadLost(session)
    <3> PICK session \in v5 : Camera!UploadLost(session)
      BY <2>3
    <3>1. v5' = v5 \ {session} /\ UNCHANGED <<v3, v6, v7, v8>>
      BY DEF Camera!UploadLost, Camera!browser, Camera!store
    <3>2. Cardinality(v5') = Cardinality(v5) - 1
      BY <1>2, <3>1, FS_RemoveElement
    <3>3. Camera!FramesCounted'
      BY <1>1, <1>2, <1>3, <3>1, <3>2, UploadsCounted DEF StoreTypes, Camera!FramesCounted
    <3> QED
      BY <1>1, <1>3, <3>1, <3>3 DEF StoreTypes
  <2> QED
    BY <2>1, <2>2, <2>3
<1>5. Control'
  BY <1>1, <1>3, <1>4 DEF Control, ControlTypes, Camera!LiveViewOfThisEpoch, Camera!OffStaysOff,
       Camera!NothingBeforeTheBot, Camera!HeardAsTold
<1>6. Summaries'
  <2>1. v7' \in Nat /\ v7 \in Nat
    BY <1>1, <1>4 DEF StoreTypes
  <2>2. SummaryTypes'
    BY <1>1, <1>3, <1>4, <2>1 DEF Summaries, SummaryTypes
  <2> QED
    BY <1>1, <1>3, <2>2 DEF Summaries, Camera!OneSummary, Camera!UnansweredIsTask, Camera!Unanswered
<1>7. (StoreTypes /\ Control /\ Summaries)'
  BY <1>4, <1>5, <1>6
<1>8. (Camera!Inv <=> StoreTypes /\ Control /\ Summaries)'
  BY CameraParts, PTL
<1> QED
  BY <1>7, <1>8

\* The controller: the board follows enabled, and each going on is a new epoch.
LEMMA ControllerKeepsInv ==
  ASSUME Camera!Inv,
         Camera!StartSummaryLoop \/ Camera!ApplyWebcamState \/ Camera!NotifyFrameUploaded
  PROVE  Camera!Inv'
<1> USE DEF Camera!OffState, Camera!OnState, Camera!NoFrame
<1>1. StoreTypes /\ Control /\ Summaries
  BY CameraParts
<1>2. /\ UNCHANGED <<v2, v3, v5, v7, v12, v13, v14, v15, v16>>
      /\ v1' = v1 \/ (v1 = "connecting" /\ v1' = "started")
      /\ v6' \in {0, v6}
  BY DEF Camera!StartSummaryLoop, Camera!ApplyWebcamState, Camera!NotifyFrameUploaded,
         Camera!browser, Camera!store, Camera!controller, Camera!summaries
<1>3. v11 \in Nat /\ v11' \in {v11, v11 + 1}
  BY <1>1 DEF Camera!StartSummaryLoop, Camera!ApplyWebcamState, Camera!NotifyFrameUploaded,
         Camera!controller, Control, ControlTypes
<1>4. StoreTypes'
  <2>1. v8' \in 0..v7
    BY <1>1 DEF Camera!StartSummaryLoop, Camera!ApplyWebcamState, Camera!NotifyFrameUploaded,
         StoreTypes
  <2> QED
    BY <1>1, <1>2, <2>1 DEF StoreTypes, Camera!FramesCounted
<1>5. Control'
  <2>1. CASE Camera!StartSummaryLoop
    BY <1>1, <2>1 DEF Camera!StartSummaryLoop, Camera!browser, Control, ControlTypes, Board,
       Camera!LiveViewOfThisEpoch, Camera!OffStaysOff, Camera!NothingBeforeTheBot,
       Camera!HeardAsTold
  <2>2. CASE Camera!ApplyWebcamState
    <3>1. /\ v1 # "connecting" /\ v1' = v1 /\ v8' = v8
          /\ v4' \in Seq(BOOLEAN) /\ v9' \in BOOLEAN
      BY <1>1, <2>2 DEF Camera!ApplyWebcamState, Control, ControlTypes, Camera!NothingBeforeTheBot
    <3>2. v18' = IF v9' THEN "on" ELSE IF v18 = "on" THEN "off" ELSE v18
      BY <2>2 DEF Camera!ApplyWebcamState
    <3>3. CASE v9' = v9 /\ UNCHANGED <<v10, v11, v17>>
      BY <1>1, <3>1, <3>2, <3>3 DEF Control, ControlTypes, Board, Camera!LiveViewOfThisEpoch,
         Camera!OffStaysOff, Camera!NothingBeforeTheBot, Camera!HeardAsTold
    <3>4. CASE v9' /\ v10' = FALSE /\ v17' = [state |-> "on", epoch |-> 0]
      <4>1. v17'.state = "on" /\ v18' = "on"
        BY <3>2, <3>4
      <4>2. ControlTypes'
        <5>1. v17' \in Board /\ v11' \in Nat
          BY <1>3, <3>4 DEF Board
        <5> QED
          BY <3>1, <3>4, <4>1, <5>1 DEF ControlTypes
      <4> QED
        BY <3>1, <3>4, <4>1, <4>2 DEF Control, Camera!LiveViewOfThisEpoch, Camera!OffStaysOff,
           Camera!NothingBeforeTheBot, Camera!HeardAsTold
    <3>5. CASE ~v9' /\ v10' = TRUE /\ v17' = [state |-> "off", epoch |-> 0]
      BY <1>1, <1>3, <3>1, <3>2, <3>5 DEF Control, ControlTypes, Board,
         Camera!LiveViewOfThisEpoch, Camera!OffStaysOff, Camera!NothingBeforeTheBot,
         Camera!HeardAsTold
    <3> QED
      BY <2>2, <3>3, <3>4, <3>5 DEF Camera!ApplyWebcamState, Camera!controller
  <2>3. CASE Camera!NotifyFrameUploaded
    <3>1. /\ v1 # "connecting" /\ UNCHANGED <<v1, v4, v10, v18>>
      BY <1>1, <2>3 DEF Camera!NotifyFrameUploaded, Camera!browser, Control, StoreTypes,
                        Camera!NothingBeforeTheBot
    <3>2. CASE UNCHANGED <<v9, v11, v17>>
      BY <1>1, <3>1, <3>2 DEF Control, ControlTypes, Camera!LiveViewOfThisEpoch,
         Camera!OffStaysOff, Camera!NothingBeforeTheBot, Camera!HeardAsTold
    <3>3. CASE ~v10 /\ v9' = TRUE /\ v17' = [state |-> "on", epoch |-> 0]
      <4>1. ControlTypes'
        BY <1>1, <1>3, <3>1, <3>3 DEF Control, ControlTypes, Board
      <4>2. v17'.state = "on" /\ v18' # "off"
        BY <1>1, <3>1, <3>3 DEF Control, Camera!HeardAsTold
      <4> QED
        BY <3>1, <3>3, <4>1, <4>2 DEF Control, Camera!LiveViewOfThisEpoch, Camera!OffStaysOff,
           Camera!NothingBeforeTheBot, Camera!HeardAsTold
    <3> QED
      BY <2>3, <3>2, <3>3 DEF Camera!NotifyFrameUploaded
  <2> QED
    BY <2>1, <2>2, <2>3
<1>6. Summaries'
  <2>1. SummaryTypes'
    BY <1>1, <1>2, <1>3 DEF Summaries, SummaryTypes
  <2>2. v1' = "ended" <=> v1 = "ended"
    BY <1>2
  <2> QED
    BY <1>1, <1>2, <2>1, <2>2 DEF Summaries, Camera!OneSummary, Camera!UnansweredIsTask,
       Camera!Unanswered
<1>7. (StoreTypes /\ Control /\ Summaries)'
  BY <1>4, <1>5, <1>6
<1>8. (Camera!Inv <=> StoreTypes /\ Control /\ Summaries)'
  BY CameraParts, PTL
<1> QED
  BY <1>7, <1>8

\* The loop asks about the newest frame only while no job is under way.
LEMMA LoopKeepsInv ==
  ASSUME Camera!Inv, Camera!Loop
  PROVE  Camera!Inv'
<1> USE DEF Camera!NoDispatch, Camera!NoFrame
<1>1. StoreTypes /\ Control /\ Summaries
  BY CameraParts
<1>2. UNCHANGED <<v1, v2, v3, v4, v5, v6, v7, v8, v9, v10, v11, v17, v18>>
  BY DEF Camera!Loop, Camera!LoopDispatch, Camera!RequestReturns, Camera!RequestFails,
         Camera!browser, Camera!store, Camera!controller
<1>3. StoreTypes' /\ Control'
  BY <1>1, <1>2 DEF StoreTypes, Camera!FramesCounted, Control, ControlTypes,
     Camera!LiveViewOfThisEpoch, Camera!OffStaysOff, Camera!NothingBeforeTheBot,
     Camera!HeardAsTold
<1>4. v7 \in Nat /\ v6 \in {0, v7} /\ v11 \in Nat /\ v16 \in Seq(Job)
  BY <1>1 DEF StoreTypes, Control, ControlTypes, Summaries, SummaryTypes
<1>5. CASE Camera!LoopDispatch
  <2>1. /\ v14' = v6 /\ v15' = [sequence |-> v6, epoch |-> v11] /\ UNCHANGED <<v12, v13, v16>>
        /\ v13 = 0 /\ v1 # "ended"
    BY <1>5 DEF Camera!LoopDispatch
  <2>2. SummaryTypes'
    BY <1>1, <1>2, <1>4, <2>1 DEF Summaries, SummaryTypes
  <2>3. Camera!Unanswered = {}
    BY <1>1, <2>1 DEF Summaries, Camera!UnansweredIsTask
  <2>4. Camera!Unanswered' = Camera!Unanswered
    BY <2>1 DEF Camera!Unanswered
  <2>5. Camera!OneSummary' /\ Camera!UnansweredIsTask'
    BY <1>2, <2>1, <2>3, <2>4 DEF Camera!OneSummary, Camera!UnansweredIsTask
  <2> QED
    BY <1>3, <2>2, <2>5, CameraParts, PTL DEF Summaries
<1>6. CASE Camera!RequestReturns
  <2> DEFINE job == [at |-> "sent", epoch |-> v15.epoch, sees |-> FALSE]
             id == Len(v16) + 1
  <2>1. /\ v16' = Append(v16, job) /\ v13' = id /\ v12' = v15.epoch /\ v14' = v14
        /\ v15' = [sequence |-> 0, epoch |-> 0] /\ v15 # [sequence |-> 0, epoch |-> 0]
    BY <1>6 DEF Camera!RequestReturns
  <2>2. Camera!Unanswered = {} /\ v1 # "ended"
    BY <1>1, <2>1 DEF Summaries, Camera!OneSummary, Camera!UnansweredIsTask
  <2>3. v15.epoch \in 0..v11 /\ job \in Job
    BY <1>1, <1>4 DEF Summaries, SummaryTypes, Job
  <2> HIDE DEF job
  <2>4. /\ v16' \in Seq(Job) /\ Len(v16') = id /\ v16'[id] = job
        /\ \A i \in 1..Len(v16) : v16'[i] = v16[i]
        /\ Len(v16) \in Nat
    BY <1>4, <2>1, <2>3, AppendProperties, LenProperties
  <2>5. Camera!Unanswered' = {id}
    <3>1. DOMAIN v16' = 1..id /\ DOMAIN v16 = 1..Len(v16)
      BY <1>4, <2>4, LenProperties
    <3>2. \A i \in 1..Len(v16) : v16[i].at = "done"
      BY <2>2, <3>1 DEF Camera!Unanswered
    <3>3. v16'[id].at # "done"
      BY <2>4 DEF job
    <3> QED
      BY <2>4, <3>1, <3>2, <3>3 DEF Camera!Unanswered
  <2>6. SummaryTypes'
    BY <1>1, <1>2, <1>4, <2>1, <2>3, <2>4 DEF Summaries, SummaryTypes
  <2>7. v16'[id].epoch = v12'
    BY <2>1, <2>4 DEF job
  <2>8. Camera!OneSummary' /\ Camera!UnansweredIsTask'
    BY <2>1, <2>4, <2>5, <2>7 DEF Camera!OneSummary, Camera!UnansweredIsTask
  <2> QED
    BY <1>3, <2>6, <2>8, CameraParts, PTL DEF Summaries
<1>7. CASE Camera!RequestFails
  <2>1. /\ v15' = [sequence |-> 0, epoch |-> 0] /\ v13' = 0 /\ UNCHANGED <<v12, v14, v16>>
        /\ v15 # [sequence |-> 0, epoch |-> 0]
    BY <1>7 DEF Camera!RequestFails
  <2>2. Camera!Unanswered = {}
    BY <1>1, <2>1 DEF Summaries, Camera!OneSummary
  <2>3. Camera!Unanswered' = Camera!Unanswered
    BY <2>1 DEF Camera!Unanswered
  <2>4. SummaryTypes'
    BY <1>1, <1>2, <1>4, <2>1, LenProperties DEF Summaries, SummaryTypes
  <2>5. Camera!OneSummary' /\ Camera!UnansweredIsTask'
    BY <2>1, <2>2, <2>3 DEF Camera!OneSummary, Camera!UnansweredIsTask
  <2> QED
    BY <1>3, <2>4, <2>5, CameraParts, PTL DEF Summaries
<1> QED
  BY <1>5, <1>6, <1>7 DEF Camera!Loop

\* A job sees a frame or not; its answer counts only for the epoch asked about.
LEMMA AgentKeepsInv ==
  ASSUME Camera!Inv, NEW id \in DOMAIN v16,
         \/ Camera!JobReads(id)
         \/ \E observation \in {"none", "noop", "scene"} : Camera!SummaryResponse(id, observation)
  PROVE  Camera!Inv'
<1>1. StoreTypes /\ Control /\ Summaries
  BY CameraParts
<1>2. UNCHANGED <<v1, v2, v3, v4, v5, v6, v7, v8, v9, v10, v11, v12, v14, v15, v18>>
  BY DEF Camera!JobReads, Camera!SummaryResponse, Camera!browser, Camera!store, Camera!controller
<1>3. StoreTypes'
  BY <1>1, <1>2 DEF StoreTypes, Camera!FramesCounted
<1>4. /\ v16 \in Seq(Job) /\ id \in 1..Len(v16) /\ DOMAIN v16 = 1..Len(v16) /\ v16[id] \in Job
      /\ Len(v16) \in Nat
  BY <1>1, LenProperties, ElementOfSeq DEF Summaries, SummaryTypes
<1>5. ASSUME NEW job \in Job, v16' = [v16 EXCEPT ![id] = job], job.epoch = v16[id].epoch,
             v16[id].at # "done",
             v13' = IF job.at = "done" /\ v13 = id THEN 0 ELSE v13
      PROVE  Summaries'
  <2>1. v16' \in Seq(Job) /\ Len(v16') = Len(v16) /\ DOMAIN v16' = DOMAIN v16
    BY <1>4, <1>5, ExceptSeq
  <2>2. \A i \in DOMAIN v16 : v16'[i] = IF i = id THEN job ELSE v16[i]
    BY <1>4, <1>5
  <2>3. id \in Camera!Unanswered
    BY <1>5 DEF Camera!Unanswered
  <2>4. Camera!Unanswered = {id}
    BY <1>1, <2>3 DEF Summaries, Camera!OneSummary
  <2>5. Camera!Unanswered' = IF job.at = "done" THEN {} ELSE {id}
    BY <2>1, <2>2, <2>4 DEF Camera!Unanswered
  <2>6. v13 \in {0, id} /\ v15 = [sequence |-> 0, epoch |-> 0]
    BY <1>1, <2>4 DEF Summaries, Camera!OneSummary, Camera!NoDispatch
  <2>7. SummaryTypes'
    <3>1. v13' \in 0..Len(v16')
      BY <1>4, <1>5, <2>1, <2>6
    <3> QED
      BY <1>1, <1>2, <2>1, <3>1 DEF Summaries, SummaryTypes
  <2>8. v16[id].epoch = v12 /\ (v1 # "ended" => v13 # 0)
    BY <1>1, <2>4 DEF Summaries, Camera!UnansweredIsTask
  <2>9. Camera!OneSummary'
    BY <1>2, <1>5, <2>5, <2>6 DEF Camera!OneSummary, Camera!NoDispatch
  <2>10. Camera!UnansweredIsTask'
    BY <1>2, <1>5, <2>2, <2>5, <2>6, <2>8 DEF Camera!UnansweredIsTask, Camera!NoDispatch
  <2> QED
    BY <2>7, <2>9, <2>10 DEF Summaries
<1>6. CASE Camera!JobReads(id)
  <2> DEFINE job == [v16[id] EXCEPT !.at = "seeing", !.sees = (v6 # 0)]
  <2>1. v16' = [v16 EXCEPT ![id] = job] /\ v16[id].at # "done" /\ v13' = v13 /\ v17' = v17
    BY <1>4, <1>6 DEF Camera!JobReads, Camera!NoFrame, Camera!controller, Job
  <2>2. job \in Job /\ job.epoch = v16[id].epoch /\ job.at = "seeing"
    BY <1>4 DEF Job
  <2>3. Summaries'
    BY <1>5, <2>1, <2>2
  <2>4. Control'
    BY <1>1, <1>2, <2>1 DEF Control, ControlTypes, Camera!LiveViewOfThisEpoch, Camera!OffStaysOff,
       Camera!NothingBeforeTheBot, Camera!HeardAsTold
  <2> QED
    BY <1>3, <2>3, <2>4, CameraParts, PTL
<1>7. CASE \E observation \in {"none", "noop", "scene"} : Camera!SummaryResponse(id, observation)
  <2> PICK observation : Camera!SummaryResponse(id, observation)
    BY <1>7
  <2> DEFINE job == [v16[id] EXCEPT !.at = "done"]
  <2>1. /\ v16' = [v16 EXCEPT ![id] = job] /\ v16[id].at = "seeing"
        /\ v13' = IF v13 = id THEN 0 ELSE v13
        /\ v17' = v17 \/ (v9 /\ v12 = v11 /\ v17' = [state |-> "seen", epoch |-> v16[id].epoch])
    BY <1>4 DEF Camera!SummaryResponse, Camera!Publish, Job
  <2>2. job \in Job /\ job.epoch = v16[id].epoch /\ job.at = "done"
    BY <1>4 DEF Job
  <2>3. Summaries'
    BY <1>5, <2>1, <2>2
  <2>4. Control'
    <3>1. CASE v17' = v17
      BY <1>1, <1>2, <3>1 DEF Control, ControlTypes, Camera!LiveViewOfThisEpoch,
         Camera!OffStaysOff, Camera!NothingBeforeTheBot, Camera!HeardAsTold
    <3>2. CASE v9 /\ v12 = v11 /\ v17' = [state |-> "seen", epoch |-> v16[id].epoch]
      <4>1. id \in Camera!Unanswered
        BY <2>1 DEF Camera!Unanswered
      <4>2. v16[id].epoch = v11 /\ v11 \in Nat
        BY <1>1, <3>2, <4>1 DEF Summaries, Camera!UnansweredIsTask, Control, ControlTypes
      <4>3. v17' \in Board /\ v17'.state = "seen" /\ v17'.epoch = v11
        BY <3>2, <4>2 DEF Board
      <4>4. v18 # "off"
        BY <1>1, <3>2 DEF Control, Camera!OffStaysOff
      <4> QED
        BY <1>1, <1>2, <3>2, <4>3, <4>4 DEF Control, ControlTypes, Camera!LiveViewOfThisEpoch,
           Camera!OffStaysOff, Camera!NothingBeforeTheBot, Camera!HeardAsTold
    <3> QED
      BY <2>1, <3>1, <3>2
  <2> QED
    BY <1>3, <2>3, <2>4, CameraParts, PTL
<1> QED
  BY <1>6, <1>7

LEMMA CameraDisconnectKeepsInv ==
  ASSUME Camera!Inv, Camera!Disconnect
  PROVE  Camera!Inv'
<1> USE DEF Camera!Disconnect, Camera!NoDispatch, Camera!NoFrame, Camera!controller
<1>1. StoreTypes /\ Control /\ Summaries
  BY CameraParts
<1>2. StoreTypes'
  BY <1>1 DEF StoreTypes, Camera!FramesCounted
<1>3. Control'
  <2>1. v4' \in Seq(BOOLEAN)
    BY EmptySeq
  <2> QED
    BY <1>1, <2>1 DEF Control, ControlTypes, Camera!LiveViewOfThisEpoch, Camera!OffStaysOff,
       Camera!NothingBeforeTheBot, Camera!HeardAsTold
<1>4. Summaries'
  <2>1. Camera!Unanswered' = Camera!Unanswered
    BY DEF Camera!Unanswered
  <2>2. v11 \in Nat /\ v14 \in Nat /\ Len(v16) \in Nat
    BY <1>1, LenProperties DEF Control, ControlTypes, Summaries, SummaryTypes, StoreTypes
  <2>3. SummaryTypes'
    BY <1>1, <2>2 DEF Summaries, SummaryTypes
  <2> QED
    BY <1>1, <2>1, <2>3 DEF Summaries, Camera!OneSummary, Camera!UnansweredIsTask
<1> QED
  BY <1>2, <1>3, <1>4, CameraParts, PTL

LEMMA CameraStep == Camera!Inv /\ Camera!Next => Camera!Inv'
<1> SUFFICES ASSUME Camera!Inv, Camera!Next PROVE Camera!Inv'
  OBVIOUS
<1>1. CASE Camera!TurnOn \/ Camera!TurnOff \/ Camera!ClientReady
  BY <1>1, BrowserKeepsInv
<1>2. CASE \/ Camera!Capture
           \/ \E session \in v5 : Camera!StoreFrame(session) \/ Camera!UploadLost(session)
  BY <1>2, FramesKeepInv
<1>3. CASE Camera!StartSummaryLoop \/ Camera!ApplyWebcamState \/ Camera!NotifyFrameUploaded
  BY <1>3, ControllerKeepsInv
<1>4. CASE Camera!Loop
  BY <1>4, LoopKeepsInv
<1>5. CASE Camera!Agent
  BY <1>5, AgentKeepsInv DEF Camera!Agent
<1>6. CASE Camera!Disconnect
  BY <1>6, CameraDisconnectKeepsInv
<1> QED
  BY <1>1, <1>2, <1>3, <1>4, <1>5, <1>6 DEF Camera!Next

\* The Speaker is never told of a view from before the camera was last turned on,
\* a camera that was turned off stays off whatever frames are still on their way,
\* and one summary is under way at a time (WebcamController), for any number of
\* camera sessions and of frames.
THEOREM CameraShowsThisEpoch == Spec => []CameraAsShown
<1> DEFINE Safe == component = "webcam" => Camera!Inv
<1>1. Init => Safe
  BY CameraInit DEF Init
<1>2. Safe /\ [Next]_vars => Safe'
  <2> SUFFICES ASSUME Safe, [Next]_vars, component' = "webcam" PROVE Camera!Inv'
    OBVIOUS
  <2>1. CASE component = "webcam" /\ Camera!Next
    BY <2>1, CameraStep
  <2>2. CASE component = "webcam" /\ UNCHANGED vars
    <3>1. StoreTypes /\ Control /\ Summaries
      BY <2>2, CameraParts
    <3>2. (StoreTypes /\ Control /\ Summaries)'
      BY <2>2, <3>1 DEF vars, StoreTypes, Camera!FramesCounted, Control, ControlTypes,
        Camera!LiveViewOfThisEpoch, Camera!OffStaysOff, Camera!NothingBeforeTheBot,
        Camera!HeardAsTold, Summaries, SummaryTypes, Camera!OneSummary,
        Camera!UnansweredIsTask, Camera!Unanswered
    <3> QED
      BY <3>2, CameraParts, PTL
  <2> QED
    BY <2>1, <2>2 DEF Next, vars
<1>3. Safe => CameraAsShown
  BY DEF CameraAsShown, Camera!Inv
<1> QED
  BY <1>1, <1>2, <1>3, PTL DEF Spec

(***************************************************************************)
(* ActivityCheck.  v1 to v6 are the processor's checks (stage,             *)
(* disconnectAfterSpeech, retired, retiredStage, pending, audioStarted),   *)
(* v7 to v9 its timers (timer, watchdog, emitting), v10 the disconnect,    *)
(* v11 the runs, v12 replying, v13 started, v14 the speeches and v15 to    *)
(* v18 the past (warned, finished, expired, outlasted).                    *)
(***************************************************************************)
Run == [stage : {1, 2}, at : {"queued", "speaking", "ended", "spoken"}]

Numbers ==
  /\ v1 \in 0..2 /\ v3 \in 0..1 /\ v4 \in 0..1 /\ v8 \in 0..2 /\ v9 \in 0..2
  /\ v14 \in 0..MaxSpeech
Others ==
  /\ v2 \in BOOLEAN /\ v7 \in BOOLEAN /\ v6 \subseteq {1, 2}
  /\ v10 \in {"none", "scheduled", "requested", "ended"}
Sequences12 == v5 \in Seq({1, 2}) /\ v11 \in Seq(Run)

\* What TypeOK says, in parts.
LEMMA ActivityTypes == Activity!TypeOK <=> Numbers /\ Others /\ Sequences12
BY DEF Activity!TypeOK, Activity!Stages, Numbers, Others, Sequences12, Run

\* The deque of pending warnings holds the first, the second, or both in order.
LEMMA PendingLemma ==
  /\ {<<>>, <<1>>, <<2>>, <<1, 2>>} \subseteq Seq({1, 2})
  /\ Append(<<>>, 1) = <<1>> /\ Append(<<>>, 2) = <<2>> /\ Append(<<1>>, 2) = <<1, 2>>
  /\ Head(<<1>>) = 1 /\ Head(<<2>>) = 2 /\ Head(<<1, 2>>) = 1
  /\ Tail(<<1>>) = <<>> /\ Tail(<<2>>) = <<>> /\ Tail(<<1, 2>>) = <<2>>
  /\ <<1>> # <<>> /\ <<2>> # <<>> /\ <<1, 2>> # <<>> /\ <<1, 2>> # <<1>> /\ <<1, 2>> # <<2>>
  /\ <<1>> # <<2>>
<1>1. Append(<<1>>, 2) = <<1, 2>>
  <2>1. <<1>> \in Seq({1, 2}) /\ <<1, 2>> \in Seq({1, 2}) /\ Len(<<1>>) = 1 /\ Len(<<1, 2>>) = 2
    OBVIOUS
  <2>2. /\ Append(<<1>>, 2) \in Seq({1, 2}) /\ Len(Append(<<1>>, 2)) = 2
        /\ Append(<<1>>, 2)[1] = 1 /\ Append(<<1>>, 2)[2] = 2
    BY <2>1, AppendProperties
  <2>3. \A i \in 1..Len(Append(<<1>>, 2)) : Append(<<1>>, 2)[i] = <<1, 2>>[i]
    BY <2>2
  <2>4. Len(Append(<<1>>, 2)) = Len(<<1, 2>>)
    BY <2>1, <2>2
  <2> QED
    BY <2>1, <2>2, <2>3, <2>4, SeqEqual, Zenon
<1> QED
  BY <1>1

\* A warning that failed is taken off it, if a reset has not done so already.
LEMMA RemoveLemma ==
  /\ \A e : Activity!RemoveFirst(<<>>, e) = <<>>
  /\ Activity!RemoveFirst(<<1>>, 1) = <<>>
  /\ Activity!RemoveFirst(<<2>>, 2) = <<>>
  /\ Activity!RemoveFirst(<<1, 2>>, 2) = <<1>>
<1> USE DEF Activity!RemoveFirst, Activity!RemoveAt, Activity!SelectInSeq
<1>1. \A e : Activity!RemoveFirst(<<>>, e) = <<>>
  OBVIOUS
<1>2. Activity!Min({1}) = 1 /\ Activity!Min({2}) = 2
  BY DEF Activity!Min
<1>3. {i \in 1..1 : TRUE} = {1} /\ {i \in 1..2 : i = 2} = {2}
  OBVIOUS
<1>4. ASSUME NEW e PROVE Activity!RemoveFirst(<<e>>, e) = <<>>
  <2>1. {i \in 1..Len(<<e>>) : <<e>>[i] = e} = {1}
    OBVIOUS
  <2>2. SubSeq(<<e>>, 1, 0) = <<>> /\ SubSeq(<<e>>, 2, 1) = <<>>
    OBVIOUS
  <2> QED
    BY <1>2, <2>1, <2>2
<1>5. Activity!RemoveFirst(<<1, 2>>, 2) = <<1>>
  <2>1. {i \in 1..Len(<<1, 2>>) : <<1, 2>>[i] = 2} = {2}
    OBVIOUS
  <2>2. SubSeq(<<1, 2>>, 3, 2) = <<>>
    OBVIOUS
  <2>3. SubSeq(<<1, 2>>, 1, 1) = <<1>>
    <3>1. <<1, 2>> \in Seq({1, 2}) /\ <<1>> \in Seq({1, 2}) /\ Len(<<1>>) = 1 /\ Len(<<1, 2>>) = 2
      OBVIOUS
    <3>2. SubSeq(<<1, 2>>, 1, 1) \in Seq({1, 2}) /\ Len(SubSeq(<<1, 2>>, 1, 1)) = 1
      BY <3>1, SubSeqProperties
    <3>3. SubSeq(<<1, 2>>, 1, 1)[1] = 1
      OBVIOUS
    <3>4. \A i \in 1..Len(SubSeq(<<1, 2>>, 1, 1)) : SubSeq(<<1, 2>>, 1, 1)[i] = <<1>>[i]
      BY <3>2, <3>3
    <3>5. Len(SubSeq(<<1, 2>>, 1, 1)) = Len(<<1>>)
      BY <3>1, <3>2
    <3> QED
      BY <3>1, <3>2, <3>4, <3>5, SeqEqual, Zenon
  <2>4. Activity!SelectInSeq(<<1, 2>>, LAMBDA v : v = 2) = 2
    BY <1>2, <2>1
  <2> HIDE DEF Activity!RemoveFirst, Activity!RemoveAt, Activity!SelectInSeq
  <2>5. Activity!RemoveFirst(<<1, 2>>, 2) = Activity!RemoveAt(<<1, 2>>, 2)
    <3>1. \E i \in 1..Len(<<1, 2>>) : <<1, 2>>[i] = 2
      BY <2>1
    <3> QED
      BY <2>4, <3>1, Zenon DEF Activity!RemoveFirst
  <2>6. Activity!RemoveAt(<<1, 2>>, 2) = <<1>> \o <<>>
    <3>1. 2 - 1 = 1 /\ 2 + 1 = 3 /\ Len(<<1, 2>>) = 2
      OBVIOUS
    <3> QED
      BY <2>2, <2>3, <3>1, Zenon DEF Activity!RemoveAt
  <2>7. <<1>> \o <<>> = <<1>>
    OBVIOUS
  <2> QED
    BY <2>5, <2>6, <2>7
<1> QED
  BY <1>1, <1>4, <1>5

\* One frame of a response: the oldest run moves on, or leaves.
LEMMA ResponseLemma ==
  ASSUME v11 \in Seq(Run), NEW at, NEW next \in {"queued", "speaking", "ended", "spoken", "done"},
         Activity!Response(at, next)
  PROVE  /\ Activity!Live /\ v11 # <<>> /\ Head(v11).at = at /\ v11' \in Seq(Run)
         /\ next = "done" =>
              /\ Len(v11) = 1 => v11' = <<>>
              /\ v11' # <<>> => Len(v11) > 1 /\ Head(v11') = v11[2]
              /\ \A i \in 2..Len(v11') : i + 1 \in 2..Len(v11) /\ v11'[i] = v11[i + 1]
         /\ next # "done" =>
              /\ v11' # <<>> /\ Len(v11') = Len(v11)
              /\ Head(v11').stage = Head(v11).stage /\ Head(v11').at = next
              /\ \A i \in 2..Len(v11') : v11'[i] = v11[i]
<1>1. Activity!Live /\ v11 # <<>> /\ Head(v11).at = at
  BY DEF Activity!Response
<1>2. Len(v11) \in Nat /\ Len(v11) > 0 /\ Head(v11) = v11[1] /\ v11[1] \in Run
  BY <1>1
<1>3. CASE next = "done"
  <2>1. v11' = Tail(v11)
    BY <1>3 DEF Activity!Response
  <2>2. /\ Tail(v11) \in Seq(Run) /\ Len(Tail(v11)) = Len(v11) - 1
        /\ \A i \in 1..Len(Tail(v11)) : Tail(v11)[i] = v11[i + 1]
    BY <1>1, HeadTailProperties
  <2>3. Len(v11) = 1 => Tail(v11) = <<>>
    <3>1. ASSUME Len(v11) = 1 PROVE Len(Tail(v11)) = 0
      BY <2>2, <3>1
    <3>2. Tail(v11) # <<>> => Len(Tail(v11)) \in Nat \ {0}
      BY <2>2, EmptySeq
    <3> QED
      BY <3>1, <3>2
  <2>4. Tail(v11) # <<>> => Len(v11) > 1 /\ Head(Tail(v11)) = v11[2]
    <3>1. Tail(v11) # <<>> => Len(Tail(v11)) > 0
      BY <2>2, EmptySeq
    <3> QED
      BY <1>2, <2>2, <3>1
  <2> QED
    BY <1>1, <1>2, <1>3, <2>1, <2>2, <2>3, <2>4
<1>4. CASE next # "done"
  <2> DEFINE run == [Head(v11) EXCEPT !.at = next]
  <2>1. run \in Run /\ run.stage = Head(v11).stage /\ run.at = next
    BY <1>2, <1>4 DEF Run
  <2>2. v11' = [v11 EXCEPT ![1] = run]
    BY <1>4 DEF Activity!Response, Activity!ReplaceAt
  <2> HIDE DEF run
  <2>3. /\ v11' \in Seq(Run) /\ Len(v11') = Len(v11)
        /\ \A i \in 1..Len(v11) : v11'[i] = IF i = 1 THEN run ELSE v11[i]
    BY <1>2, <2>1, <2>2, ExceptSeq
  <2>4. v11' # <<>> /\ Head(v11') = run
    BY <1>2, <2>3
  <2>5. \A i \in 2..Len(v11') : v11'[i] = v11[i]
    BY <1>2, <2>3
  <2> QED
    BY <1>1, <1>4, <2>1, <2>3, <2>4, <2>5
<1> QED
  BY <1>3, <1>4


LEMMA ActivityInit == Activity!Init => Activity!Inv
<1> SUFFICES ASSUME Activity!Init PROVE Activity!Inv
  OBVIOUS
<1> USE ActivityAssumption DEF Activity!SpeechAssumption, Activity!Init
<1>1. v5 \in Seq({1, 2}) /\ v11 \in Seq(Run)
  BY EmptySeq
<1>2. Activity!TypeOK
  <2>1. Numbers
    BY DEF Numbers
  <2>2. Others
    BY DEF Others
  <2> QED
    BY <1>1, <2>1, <2>2, ActivityTypes DEF Sequences12
<1> QED
  BY <1>2 DEF Activity!Inv, Activity!WarnedTwice, Activity!OneCountdown,
    Activity!LateWarningIgnored, Activity!StageOfWarnings, Activity!FirstWarning,
    Activity!SecondWarning

\* The countdown begins, in a session that has given no warning.
LEMMA StartKeepsInv == ASSUME Activity!Inv, Activity!Start PROVE Activity!Inv'
<1> USE DEF Activity!Start, Activity!Live, Activity!ArmTimer, Activity!checks, Activity!past
<1>1. Activity!TypeOK'
  BY DEF Activity!Inv, Activity!TypeOK
<1>2. v8 = 0 /\ v1 = 0
  BY DEF Activity!Inv, Activity!StageOfWarnings, Activity!OneCountdown
<1>3. Activity!OneCountdown' /\ Activity!WarnedTwice' /\ Activity!LateWarningIgnored'
  BY <1>2 DEF Activity!Inv, Activity!OneCountdown, Activity!WarnedTwice, Activity!LateWarningIgnored
<1>4. Activity!StageOfWarnings'
  BY <1>2 DEF Activity!Inv, Activity!StageOfWarnings
<1>5. Activity!FirstWarning' /\ Activity!SecondWarning'
  BY <1>2 DEF Activity!FirstWarning, Activity!SecondWarning
<1> QED
  BY <1>1, <1>3, <1>4, <1>5 DEF Activity!Inv

\* The user is heard, or the session ends: all warnings are forgotten, but for
\* the one whose run is being queued.
LEMMA ResetKeepsInv ==
  ASSUME Activity!Inv, Activity!UserStartedSpeaking \/ Activity!SessionEnds
  PROVE  Activity!Inv'
<1> USE ActivityAssumption DEF Activity!SpeechAssumption
<1>1. /\ v1' = 0 /\ v2' = FALSE /\ v3' = 0 /\ v4' = 0 /\ v5' = <<>> /\ v6' = {}
      /\ v7' = FALSE /\ v8' = 0 /\ v9' = v9 /\ v13' = v13
      /\ v11' \in {v11, <<>>}
      /\ \/ v10' = "none" /\ v15' = {} /\ v14' = v14 + 1 /\ v14 < MaxSpeech /\ v13
         \/ v10' = "ended" /\ v15' = v15 /\ v14' = v14
  <2>1. CASE Activity!UserStartedSpeaking
    BY <2>1 DEF Activity!UserStartedSpeaking, Activity!Reset, Activity!Cleared
  <2>2. CASE Activity!SessionEnds
    BY <2>2 DEF Activity!SessionEnds, Activity!Cleared, Activity!past
  <2> QED
    BY <2>1, <2>2
<1>2. Activity!TypeOK'
  <2>1. Sequences12'
    BY <1>1, EmptySeq, ActivityTypes DEF Activity!Inv, Sequences12
  <2>2. Numbers'
    BY <1>1, ActivityTypes DEF Activity!Inv, Numbers
  <2>3. Others'
    BY <1>1 DEF Others
  <2> QED
    BY <2>1, <2>2, <2>3, ActivityTypes, PTL
<1>3. Activity!OneCountdown' /\ Activity!WarnedTwice' /\ Activity!LateWarningIgnored'
  BY <1>1 DEF Activity!Inv, Activity!OneCountdown, Activity!WarnedTwice, Activity!LateWarningIgnored
<1>4. Activity!StageOfWarnings' /\ Activity!FirstWarning' /\ Activity!SecondWarning'
  BY <1>1 DEF Activity!Inv, Activity!StageOfWarnings, Activity!FirstWarning,
              Activity!SecondWarning, Activity!Live
<1> QED
  BY <1>2, <1>3, <1>4 DEF Activity!Inv

\* A reply is owed only before the first warning.
LEMMA ReplyKeepsInv == ASSUME Activity!Inv, Activity!Reply PROVE Activity!Inv'
<1> USE DEF Activity!Live, Activity!checks, Activity!timers, Activity!past
<1>1. /\ v1 = 0 /\ v2 = FALSE /\ v3 = 0 /\ v4 = 0 /\ v13 /\ v10 = "none"
      /\ v12 = TRUE /\ v12' = FALSE
      /\ UNCHANGED <<v1, v2, v3, v4, v5, v6, v9, v10, v11, v13, v14, v15, v16, v17, v18>>
      /\ (v7' = v7 /\ v8' = v8) \/ (v7' \in BOOLEAN /\ v8' = 0)
  <2>1. v1 = 0 /\ v2 = FALSE /\ v3 = 0 /\ v4 = 0 /\ v10 = "none"
    BY DEF Activity!Reply, Activity!ReplySpoken, Activity!NoReply, Activity!Inv,
           Activity!StageOfWarnings, Activity!TypeOK
  <2>2. CASE Activity!ReplySpoken
    <3>1. Activity!ArmTimer => v7' \in BOOLEAN
      BY DEF Activity!ArmTimer
    <3>2. (v7' = v7 /\ v8' = v8) \/ (v7' \in BOOLEAN /\ v8' = 0)
      BY <2>1, <2>2, <3>1 DEF Activity!ReplySpoken, Activity!HandleBotStopped
    <3>3. v2' = v2 /\ v3' = v3 /\ v10' = v10
      BY <2>1, <2>2 DEF Activity!ReplySpoken, Activity!HandleBotStopped
    <3>4. v12 /\ v13 /\ v12' = FALSE
      BY <2>2 DEF Activity!ReplySpoken
    <3> QED
      BY <2>1, <2>2, <3>2, <3>3, <3>4 DEF Activity!ReplySpoken
  <2>3. CASE Activity!NoReply
    BY <2>1, <2>3 DEF Activity!NoReply
  <2> QED
    BY <2>2, <2>3 DEF Activity!Reply
<1>2. Activity!TypeOK'
  BY <1>1 DEF Activity!Inv, Activity!TypeOK, Activity!Stages
<1>3. Activity!OneCountdown' /\ Activity!WarnedTwice' /\ Activity!LateWarningIgnored'
  BY <1>1 DEF Activity!Inv, Activity!OneCountdown, Activity!WarnedTwice, Activity!LateWarningIgnored
<1>4. Activity!StageOfWarnings' /\ Activity!FirstWarning' /\ Activity!SecondWarning'
  BY <1>1 DEF Activity!Inv, Activity!StageOfWarnings, Activity!FirstWarning,
              Activity!SecondWarning
<1> QED
  BY <1>2, <1>3, <1>4 DEF Activity!Inv

LEMMA DisconnectKeepsInv == ASSUME Activity!Inv, Activity!RequestDisconnect PROVE Activity!Inv'
<1> USE DEF Activity!RequestDisconnect, Activity!Live, Activity!checks, Activity!timers, Activity!past
<1>1. Activity!TypeOK'
  BY DEF Activity!Inv, Activity!TypeOK
<1> QED
  BY <1>1 DEF Activity!Inv, Activity!OneCountdown, Activity!WarnedTwice,
    Activity!LateWarningIgnored, Activity!StageOfWarnings, Activity!FirstWarning,
    Activity!SecondWarning

\* A warning is given when nothing of the one before it can still be heard.
LEMMA TimerKeepsInv == ASSUME Activity!Inv, Activity!TimerFires PROVE Activity!Inv'
<1> USE DEF Activity!Live
<1>1. /\ v1 \in {0, 1} /\ v7 = TRUE /\ v12 = FALSE /\ v9 = 0 /\ v13 = TRUE
      /\ v10 \in {"none", "scheduled"} /\ v10' = v10
      /\ v3 = 0 /\ v4 = 0 /\ v15 = 1..v1
  BY DEF Activity!TimerFires, Activity!Inv, Activity!TypeOK, Activity!Stages,
         Activity!StageOfWarnings
<1>2. /\ v1' = v1 + 1 /\ v2' = (v1 + 1 = 2) /\ v5' = Append(v5, v1 + 1) /\ v7' = FALSE
      /\ v8' = v1 + 1 /\ v9' = v1 + 1 /\ v11' = <<>> /\ v15' = v15 \cup {v1 + 1}
      /\ UNCHANGED <<v3, v4, v6, v10, v12, v13, v14, v16, v17, v18>>
  BY DEF Activity!TimerFires, Activity!Emit
<1>3. v10 = "none"
  BY <1>1 DEF Activity!Inv, Activity!StageOfWarnings
<1>4. v11' \in Seq(Run)
  BY <1>2, EmptySeq
<1>5. CASE v1 = 0
  <2>1. v2' = FALSE /\ v1' = 1 /\ v8' = 1 /\ v9' = 1 /\ v5' = <<1>> /\ v6' = {} /\ v15' = 1..1 /\ v15' = {1}
    <3>1. v1 + 1 = 1 /\ v5 = <<>> /\ v6 = {} /\ v15 = {} /\ 1..1 = {1}
      BY <1>1, <1>5 DEF Activity!Inv, Activity!StageOfWarnings
    <3> QED
      BY <1>2, <3>1, PendingLemma
  <2>2. Activity!TypeOK'
    <3>1. Numbers'
      BY <1>1, <1>2, <2>1, ActivityTypes DEF Activity!Inv, Numbers
    <3>2. Others'
      BY <1>1, <1>2, <2>1, ActivityTypes DEF Activity!Inv, Others
    <3>3. Sequences12'
      BY <1>4, <2>1, PendingLemma DEF Sequences12
    <3> QED
      BY <3>1, <3>2, <3>3, ActivityTypes, PTL
  <2>3. Activity!OneCountdown' /\ Activity!WarnedTwice' /\ Activity!LateWarningIgnored'
    BY <1>2, <1>3, <1>5, <2>1 DEF Activity!OneCountdown, Activity!WarnedTwice,
       Activity!LateWarningIgnored
  <2>4. Activity!StageOfWarnings'
    BY <1>1, <1>2, <1>3, <1>5, <2>1 DEF Activity!StageOfWarnings
  <2>5. Activity!FirstWarning'
    BY <1>2, <2>1, Zenon DEF Activity!FirstWarning
  <2>6. Activity!SecondWarning'
    BY <2>1 DEF Activity!SecondWarning
  <2> QED
    BY <2>2, <2>3, <2>4, <2>5, <2>6 DEF Activity!Inv
<1>6. CASE v1 = 1
  <2>1. v5 \in {<<>>, <<1>>} /\ v6 \subseteq {1}
    BY <1>1, <1>6 DEF Activity!Inv, Activity!FirstWarning
  <2>2. v2' = TRUE /\ v1' = 2 /\ v8' = 2 /\ v9' = 2 /\ v5' \in {<<2>>, <<1, 2>>} /\ v15' = 1..2 /\ v15' = {1, 2}
    <3>1. v1 + 1 = 2 /\ 1..1 = {1} /\ 1..2 = {1, 2}
      BY <1>6
    <3> QED
      BY <1>1, <1>2, <1>6, <2>1, <3>1, PendingLemma
  <2>3. Activity!TypeOK'
    <3>1. Numbers'
      BY <1>1, <1>2, <2>2, ActivityTypes DEF Activity!Inv, Numbers
    <3>2. Others'
      BY <1>1, <1>2, <2>2, ActivityTypes DEF Activity!Inv, Others
    <3>3. Sequences12'
      BY <1>4, <2>2, PendingLemma DEF Sequences12
    <3> QED
      BY <3>1, <3>2, <3>3, ActivityTypes, PTL
  <2>4. Activity!OneCountdown' /\ Activity!WarnedTwice' /\ Activity!LateWarningIgnored'
    BY <1>2, <1>3, <1>6, <2>2 DEF Activity!OneCountdown, Activity!WarnedTwice,
       Activity!LateWarningIgnored
  <2>5. Activity!StageOfWarnings' /\ Activity!FirstWarning'
    BY <1>1, <1>2, <1>3, <1>6, <2>2 DEF Activity!StageOfWarnings, Activity!FirstWarning
  <2>6. Activity!SecondWarning'
    BY <1>2, <2>2 DEF Activity!SecondWarning
  <2> QED
    BY <2>3, <2>4, <2>5, <2>6 DEF Activity!Inv
<1> QED
  BY <1>1, <1>5, <1>6

\* The run of a warning is queued, in the stage of that warning or after a reset.
LEMMA QueuedKeepsInv == ASSUME Activity!Inv, Activity!WarningQueued PROVE Activity!Inv'
<1> USE DEF Activity!Live, Activity!checks, Activity!past
<1> DEFINE run == [stage |-> v9, at |-> "queued"]
<1>1. /\ v9 \in {1, 2} /\ v9' = 0 /\ v11' = Append(v11, run)
      /\ UNCHANGED <<v1, v2, v3, v4, v5, v6, v7, v8, v10, v12, v13, v14, v15, v16, v17, v18>>
      /\ v10 \in {"none", "scheduled"} /\ v11 \in Seq(Run)
  BY DEF Activity!WarningQueued, Activity!Inv, Activity!TypeOK, Activity!Stages, Run
<1>2. run \in Run /\ run.stage = v9 /\ run.at = "queued"
  BY <1>1 DEF Run
<1> HIDE DEF run
<1>3. /\ v11' \in Seq(Run) /\ v11' # <<>> /\ Len(v11') = Len(v11) + 1 /\ Len(v11) \in Nat
      /\ \A i \in 1..Len(v11) : v11'[i] = v11[i]
      /\ v11'[Len(v11) + 1] = run
  BY <1>1, <1>2, AppendProperties, LenProperties
<1>4. Head(v11') = v11'[1] /\ (v11 # <<>> => Len(v11) > 0 /\ Head(v11) = v11[1])
  BY <1>1, <1>3
<1>5. Activity!TypeOK'
  BY <1>1, <1>3 DEF Activity!Inv, Activity!TypeOK, Activity!Stages, Run
<1>6. Activity!OneCountdown' /\ Activity!WarnedTwice' /\ Activity!LateWarningIgnored'
      /\ Activity!StageOfWarnings'
  BY <1>1 DEF Activity!Inv, Activity!OneCountdown, Activity!WarnedTwice,
     Activity!LateWarningIgnored, Activity!StageOfWarnings
<1>7. ASSUME v1 = 1 PROVE Activity!FirstWarning'
  <2>1. v9 = 1 /\ v11 = <<>> /\ v5 = <<1>> /\ v6 = {}
    BY <1>1, <1>7 DEF Activity!Inv, Activity!StageOfWarnings, Activity!FirstWarning
  <2>2. Len(v11') = 1 /\ Head(v11') = run
    BY <1>3, <1>4, <2>1
  <2> QED
    BY <1>1, <1>2, <1>3, <2>1, <2>2 DEF Activity!FirstWarning
<1>8. ASSUME v1 = 2 PROVE Activity!SecondWarning'
  <2>1. v9 = 2 /\ v5 \in {<<2>>, <<1, 2>>}
    BY <1>1, <1>8 DEF Activity!Inv, Activity!StageOfWarnings, Activity!SecondWarning
  <2>2. \A i \in 2..Len(v11') : v11'[i].stage = 2
    BY <1>1, <1>2, <1>3, <1>8, <2>1 DEF Activity!Inv, Activity!SecondWarning
  <2>3. CASE v11 = <<>>
    <3>1. Head(v11').stage = 2
      BY <1>2, <1>3, <1>4, <2>1, <2>3
    <3> QED
      BY <1>1, <2>1, <2>2, <3>1 DEF Activity!SecondWarning
  <2>4. CASE v11 # <<>>
    <3>1. Head(v11') = Head(v11)
      BY <1>3, <1>4, <2>4
    <3> QED
      BY <1>1, <1>8, <2>1, <2>2, <2>4, <3>1 DEF Activity!Inv, Activity!SecondWarning
  <2> QED
    BY <2>3, <2>4
<1> QED
  BY <1>1, <1>5, <1>6, <1>7, <1>8 DEF Activity!Inv, Activity!FirstWarning, Activity!SecondWarning

\* A warning that failed leaves nothing to be pending for.
LEMMA FailsKeepsInv == ASSUME Activity!Inv, Activity!WarningFails PROVE Activity!Inv'
<1> USE DEF Activity!Live
<1>1. /\ v9 \in {1, 2} /\ v9' = 0 /\ v5' = Activity!RemoveFirst(v5, v9)
      /\ UNCHANGED <<v1, v2, v3, v4, v6, v7, v8, v10, v11, v12, v13, v14, v15, v16, v17, v18>>
      /\ v10 \in {"none", "scheduled"} /\ v1 \in 0..2
  BY DEF Activity!WarningFails, Activity!past, Activity!Inv, Activity!TypeOK, Activity!Stages
<1>2. /\ v1 = 0 => v5 = <<>> /\ v5' = <<>>
      /\ v1 = 1 => v11 = <<>> /\ v5' = <<>> /\ v6 = {}
      /\ v1 = 2 => (v5 = <<2>> /\ v5' = <<>>) \/ (v5 = <<1, 2>> /\ v5' = <<1>>)
  <2>1. v1 > 0 => v9 = v1
    BY <1>1 DEF Activity!Inv, Activity!StageOfWarnings
  <2>2. /\ v1 = 0 => v5 = <<>>
        /\ v1 = 1 => v11 = <<>> /\ v5 = <<1>> /\ v6 = {}
        /\ v1 = 2 => v5 \in {<<2>>, <<1, 2>>}
    BY <1>1, <2>1 DEF Activity!Inv, Activity!StageOfWarnings, Activity!FirstWarning,
       Activity!SecondWarning
  <2> QED
    BY <1>1, <2>1, <2>2, RemoveLemma
<1>3. Activity!TypeOK'
  <2>1. v5' \in {<<>>, <<1>>}
    BY <1>1, <1>2
  <2>2. v5' \in Seq({1, 2})
    BY <2>1, PendingLemma
  <2> QED
    BY <1>1, <2>2 DEF Activity!Inv, Activity!TypeOK, Activity!Stages
<1>4. Activity!OneCountdown' /\ Activity!WarnedTwice' /\ Activity!LateWarningIgnored'
      /\ Activity!StageOfWarnings'
  BY <1>1, <1>2 DEF Activity!Inv, Activity!OneCountdown, Activity!WarnedTwice,
     Activity!LateWarningIgnored, Activity!StageOfWarnings
<1>5. Activity!FirstWarning'
  BY <1>1, <1>2 DEF Activity!FirstWarning
<1>6. Activity!SecondWarning'
  BY <1>1, <1>2, PendingLemma DEF Activity!Inv, Activity!SecondWarning
<1> QED
  BY <1>3, <1>4, <1>5, <1>6 DEF Activity!Inv

\* The first warning is given up for the second, and its completion is retired if
\* it has audio; or the second is given up, and the session ends.
LEMMA WatchdogKeepsInv == ASSUME Activity!Inv, Activity!WatchdogExpires PROVE Activity!Inv'
<1> USE DEF Activity!Live
<1>1. /\ v1 \in {1, 2} /\ v8 = v1 /\ v9 = 0 /\ v10 \in {"none", "scheduled"}
      /\ v7 = FALSE /\ v12 = FALSE /\ v13 = TRUE /\ v15 = 1..v1
      /\ v11 \in Seq(Run) /\ v14 \in 0..MaxSpeech /\ v6 \subseteq {1, 2}
      /\ UNCHANGED <<v6, v7, v11, v12, v13, v14, v16>> /\ v17' = v17 \cup {v1}
  BY ActivityTypes DEF Activity!WatchdogExpires, Activity!Inv, Activity!StageOfWarnings,
     Activity!OneCountdown, Numbers, Others, Sequences12
<1>2. CASE v1 = 2
  <2>1. /\ v8' = 0 /\ v2' = FALSE /\ v10' = "scheduled"
        /\ UNCHANGED <<v1, v3, v4, v5, v9, v15, v18>>
    BY <1>2 DEF Activity!WatchdogExpires, Activity!ScheduleDisconnect
  <2>2. Activity!TypeOK'
    <3>1. Numbers'
      BY <1>1, <2>1, ActivityTypes DEF Activity!Inv, Numbers
    <3>2. Others' /\ Sequences12'
      BY <1>1, <2>1, ActivityTypes DEF Activity!Inv, Others, Sequences12
    <3> QED
      BY <3>1, <3>2, ActivityTypes, PTL
  <2>3. v15' = {1, 2}
    BY <1>1, <1>2, <2>1
  <2>4. Activity!OneCountdown' /\ Activity!WarnedTwice' /\ Activity!LateWarningIgnored'
    BY <1>1, <1>2, <2>1, <2>3 DEF Activity!OneCountdown, Activity!WarnedTwice,
       Activity!LateWarningIgnored
  <2>5. Activity!StageOfWarnings'
    BY <1>1, <1>2, <2>1 DEF Activity!Inv, Activity!StageOfWarnings
  <2>6. Activity!FirstWarning' /\ Activity!SecondWarning'
    BY <1>1, <1>2, <2>1 DEF Activity!Inv, Activity!FirstWarning, Activity!SecondWarning
  <2> QED
    BY <2>2, <2>4, <2>5, <2>6 DEF Activity!Inv
<1>3. CASE v1 = 1
  <2>1. /\ v18' = ([stage |-> 1, at |-> "ended"] \in Activity!ToSet(v11))
        /\ v1' = 2 /\ v2' = TRUE /\ v5' = Append(v5, 2) /\ v8' = 2 /\ v9' = 2
        /\ v15' = v15 \cup {2} /\ v10' = v10
        /\ \/ 1 \in v6 /\ v3' = v3 + 1 /\ v4' = v4
           \/ 1 \notin v6 /\ v4' = 1 /\ v3' = v3
    <3>1. /\ Activity!Emit(2) /\ v10' = v10
          /\ v18' = ([stage |-> 1, at |-> "ended"] \in Activity!ToSet(v11))
          /\ \/ v1 \in v6 /\ v3' = v3 + 1 /\ v4' = v4
             \/ v1 \notin v6 /\ v4' = v1 /\ v3' = v3
      <4>1. v1 # 2
        BY <1>3
      <4> QED
        BY <1>3, <4>1, Zenon DEF Activity!WatchdogExpires
    <3>2. /\ v1' = 2 /\ v2' = TRUE /\ v5' = Append(v5, 2) /\ v8' = 2 /\ v9' = 2
          /\ v15' = v15 \cup {2}
      BY <3>1 DEF Activity!Emit
    <3> QED
      BY <1>3, <3>1, <3>2
  <2>2. v3 = 0 /\ v4 = 0 /\ v10 = "none" /\ v15 = {1}
    BY <1>1, <1>3 DEF Activity!Inv, Activity!StageOfWarnings
  <2>3. \/ v11 = <<>> /\ v5 = <<>> /\ v6 = {}
        \/ /\ v11 # <<>> /\ Len(v11) = 1 /\ Head(v11).stage = 1
           /\ \/ Head(v11).at = "queued" /\ v5 = <<1>> /\ v6 = {}
              \/ Head(v11).at = "speaking" /\ v5 = <<1>> /\ v6 = {1}
              \/ Head(v11).at = "ended" /\ v5 = <<>> /\ v6 = {}
    <3>1. v11 # <<>> => Head(v11) \in Run
      BY <1>1, HeadTailProperties
    <3> QED
      BY <1>1, <1>3, <3>1 DEF Activity!Inv, Activity!FirstWarning, Run
  <2>4. v5' \in {<<2>>, <<1, 2>>} /\ (v5 = <<1>> => v5' = <<1, 2>>)
    BY <2>1, <2>3, PendingLemma
  <2>5. v15' = {1, 2} /\ v15' = 1..2
    BY <2>1, <2>2
  <2>6. v11 # <<>> /\ Head(v11).at = "ended" => v18'
    <3>1. ASSUME v11 # <<>>, Head(v11).at = "ended"
          PROVE  v11[1] = [stage |-> 1, at |-> "ended"] /\ 1 \in DOMAIN v11
      <4>1. Head(v11) = v11[1] /\ Head(v11) \in Run /\ 1 \in DOMAIN v11
        BY <1>1, <3>1, HeadTailProperties, LenProperties
      <4>2. v11[1].stage = 1
        BY <2>3, <3>1, <4>1
      <4> QED
        BY <3>1, <4>1, <4>2 DEF Run
    <3> QED
      BY <2>1, <3>1, Zenon DEF Activity!ToSet
  <2>7. Activity!TypeOK'
    <3>1. Numbers'
      BY <1>1, <2>1, <2>2 DEF Numbers
    <3>2. Others'
      BY <1>1, <2>1, <2>2 DEF Others
    <3>3. Sequences12'
      BY <1>1, <2>4, PendingLemma DEF Sequences12
    <3> QED
      BY <3>1, <3>2, <3>3, ActivityTypes, PTL
  <2>8. Activity!OneCountdown' /\ Activity!WarnedTwice' /\ Activity!LateWarningIgnored'
    BY <1>1, <2>1, <2>2, <2>5 DEF Activity!OneCountdown, Activity!WarnedTwice,
       Activity!LateWarningIgnored
  <2>9. Activity!StageOfWarnings'
    BY <1>1, <2>1, <2>2, <2>5 DEF Activity!StageOfWarnings
  <2>10. Activity!FirstWarning'
    BY <2>1 DEF Activity!FirstWarning
  <2>11. Activity!SecondWarning'
    <3>1. Len(v11') <= 1 /\ \A i \in 2..Len(v11') : v11'[i].stage = 2
      <4>1. Len(v11') = 0 \/ Len(v11') = 1
        BY <1>1, <2>3
      <4>2. 2..0 = {} /\ 2..1 = {} /\ 0 <= 1 /\ 1 <= 1
        OBVIOUS
      <4> QED
        BY <4>1, <4>2, Zenon
    <3>2. CASE v11 = <<>>
      BY <1>1, <2>4, <3>1, <3>2 DEF Activity!SecondWarning
    <3>3. CASE v11 # <<>>
      <4>1. /\ Head(v11).at # "ended" => v5' = <<1, 2>>
            /\ Head(v11).at = "queued" => v4' = 1
            /\ Head(v11).at = "speaking" => v3' = 1
            /\ Head(v11).at = "ended" => v18'
        BY <2>1, <2>2, <2>3, <2>4, <2>6, <3>3
      <4> QED
        BY <1>1, <2>3, <2>4, <3>1, <3>3, <4>1 DEF Activity!SecondWarning
    <3> QED
      BY <3>2, <3>3
  <2> QED
    BY <2>7, <2>8, <2>9, <2>10, <2>11 DEF Activity!Inv
<1> QED
  BY <1>1, <1>2, <1>3

\* What a frame of a response leaves of the runs in the second stage.
LEMMA RunsOfSecondStage ==
  ASSUME Activity!Inv, v1 = 2, NEW at,
         NEW next \in {"queued", "speaking", "ended", "spoken", "done"}, Activity!Response(at, next)
  PROVE  /\ \A i \in 2..Len(v11') : v11'[i].stage = 2
         /\ next = "done" => v11' = <<>> \/ Head(v11').stage = 2
         /\ v9 = 2 => Len(v11') <= 1 /\ (next = "done" => v11' = <<>>)
<1>1. v11 \in Seq(Run) /\ Activity!Live
  BY ActivityTypes DEF Activity!Inv, Sequences12, Activity!Response
<1>2. /\ \A i \in 2..Len(v11) : v11[i].stage = 2
      /\ v9 = 2 => Len(v11) <= 1
  BY <1>1 DEF Activity!Inv, Activity!SecondWarning
<1>3. v11 # <<>> /\ Len(v11) \in Nat /\ Len(v11) > 0 /\ v11' \in Seq(Run)
  <2>1. v11 # <<>> /\ v11' \in Seq(Run)
    BY <1>1, ResponseLemma
  <2> QED
    BY <1>1, <2>1, EmptySeq
<1>4. CASE next = "done"
  <2>1. /\ Len(v11) = 1 => v11' = <<>>
        /\ v11' # <<>> => Len(v11) > 1 /\ Head(v11') = v11[2]
        /\ \A i \in 2..Len(v11') : i + 1 \in 2..Len(v11) /\ v11'[i] = v11[i + 1]
    BY <1>1, <1>4, ResponseLemma
  <2>2. \A i \in 2..Len(v11') : v11'[i].stage = 2
    BY <1>2, <2>1
  <2>3. v11' = <<>> \/ Head(v11').stage = 2
    BY <1>2, <1>3, <2>1
  <2>4. v9 = 2 => v11' = <<>>
    BY <1>2, <1>3, <2>1
  <2>5. v11' = <<>> => Len(v11') = 0
    BY EmptySeq
  <2> QED
    BY <1>4, <2>2, <2>3, <2>4, <2>5
<1>5. CASE next # "done"
  <2>1. Len(v11') = Len(v11) /\ \A i \in 2..Len(v11') : v11'[i] = v11[i]
    BY <1>1, <1>5, ResponseLemma
  <2> QED
    BY <1>2, <1>5, <2>1
<1> QED
  BY <1>4, <1>5

\* A response begins to speak: of a retired warning, its completion is expected.
LEMMA TTSStartedKeepsInv == ASSUME Activity!Inv, Activity!TTSStarted PROVE Activity!Inv'
<1> USE DEF Activity!Live
<1>1. /\ v1 \in 0..2 /\ v11 \in Seq(Run) /\ v10 \in {"none", "scheduled"}
      /\ Activity!Response("queued", "speaking")
      /\ UNCHANGED <<v1, v2, v5, v7, v8, v9, v10, v12, v13, v14, v15, v16, v17, v18>>
      /\ \/ v5 = <<>> /\ UNCHANGED <<v3, v4, v6>>
         \/ /\ v5 # <<>> /\ v6' = v6 \cup {Head(v5)}
            /\ \/ v4 = Head(v5) /\ v3' = v3 + 1 /\ v4' = 0
               \/ v4 # Head(v5) /\ v3' = v3 /\ v4' = v4
  BY ActivityTypes DEF Activity!TTSStarted, Activity!Response, Activity!timers, Activity!past,
     Activity!Inv, Numbers, Sequences12
<1>2. /\ v11 # <<>> /\ Head(v11).at = "queued" /\ v11' \in Seq(Run)
      /\ v11' # <<>> /\ Len(v11') = Len(v11)
      /\ Head(v11').stage = Head(v11).stage /\ Head(v11').at = "speaking"
  BY <1>1, ResponseLemma
<1>3. v5 # <<>> => Head(v5) \in {1, 2}
  BY ActivityTypes, HeadTailProperties DEF Activity!Inv, Sequences12
<1>4. v4 \in 0..1 /\ v3 \in 0..1 /\ (v4 # 0 => v3 = 0)
  BY <1>1, ActivityTypes DEF Activity!Inv, Numbers, Activity!StageOfWarnings
<1>5. v3' \in 0..1 /\ v4' \in 0..1 /\ (v4' # 0 => v3' = 0) /\ (v4 = 0 => v3' = v3 /\ v4' = v4)
      /\ (v4 = 0 \/ v4' # 0 \/ v3' = 1)
  BY <1>1, <1>3, <1>4
<1>6. Activity!TypeOK'
  <2>1. Numbers'
    BY <1>1, <1>5, ActivityTypes DEF Activity!Inv, Numbers
  <2>2. Others'
    BY <1>1, <1>3, ActivityTypes DEF Activity!Inv, Others
  <2>3. Sequences12'
    BY <1>1, <1>2, ActivityTypes DEF Activity!Inv, Sequences12
  <2> QED
    BY <2>1, <2>2, <2>3, ActivityTypes, PTL
<1>7. Activity!OneCountdown' /\ Activity!WarnedTwice' /\ Activity!LateWarningIgnored'
  BY <1>1 DEF Activity!Inv, Activity!OneCountdown, Activity!WarnedTwice, Activity!LateWarningIgnored
<1>8. Activity!StageOfWarnings'
  <2>1. v1 < 2 => v3' = 0 /\ v4' = 0
    BY <1>1, <1>5 DEF Activity!Inv, Activity!StageOfWarnings
  <2>2. v1 = 0 => v6' = v6
    BY <1>1 DEF Activity!Inv, Activity!StageOfWarnings
  <2>3. v13 = TRUE
    BY <1>1, <1>2, ActivityTypes DEF Activity!Inv, Activity!StageOfWarnings
  <2> QED
    BY <1>1, <1>5, <2>1, <2>2, <2>3 DEF Activity!Inv, Activity!StageOfWarnings
<1>9. ASSUME v1 = 1 PROVE Activity!FirstWarning'
  <2>1. /\ Len(v11) = 1 /\ Head(v11).stage = 1 /\ v5 = <<1>> /\ v6 = {} /\ v9 # 1
    BY <1>1, <1>2, <1>9 DEF Activity!Inv, Activity!FirstWarning
  <2>2. v6' = {1}
    BY <1>1, <2>1, PendingLemma
  <2> QED
    BY <1>1, <1>2, <2>1, <2>2 DEF Activity!FirstWarning
<1>10. ASSUME v1 = 2 PROVE Activity!SecondWarning'
  <2>1. /\ \A i \in 2..Len(v11') : v11'[i].stage = 2
        /\ v9 = 2 => Len(v11') <= 1
    BY <1>1, <1>10, RunsOfSecondStage
  <2>2. /\ v5 \in {<<>>, <<1>>, <<2>>, <<1, 2>>}
        /\ v9 = 2 => v5 \in {<<2>>, <<1, 2>>} /\ Head(v11).stage = 1
        /\ Head(v11).stage = 1 => v5 \in {<<1>>, <<1, 2>>} /\ v4 = 1
    BY <1>1, <1>2, <1>10 DEF Activity!Inv, Activity!SecondWarning
  <2>3. Head(v11).stage = 1 => v3' = 1
    BY <1>1, <1>4, <2>2, PendingLemma
  <2> QED
    BY <1>1, <1>2, <2>1, <2>2, <2>3 DEF Activity!SecondWarning
<1> QED
  BY <1>1, <1>6, <1>7, <1>8, <1>9, <1>10
     DEF Activity!Inv, Activity!FirstWarning, Activity!SecondWarning

\* A response ends: its warning is no longer pending.
LEMMA ResponseEndedKeepsInv ==
  ASSUME Activity!Inv, Activity!LLMResponseEnded
  PROVE  Activity!Inv'
<1> USE DEF Activity!Live
<1>1. PICK at \in {"queued", "speaking", "spoken"}, next \in {"done", "ended"} :
        Activity!Response(at, next) /\ (next = "ended" <=> at = "speaking")
  BY Zenon DEF Activity!LLMResponseEnded
<1>2. /\ v1 \in 0..2 /\ v11 \in Seq(Run) /\ v10 \in {"none", "scheduled"}
      /\ UNCHANGED <<v1, v2, v3, v7, v8, v9, v10, v12, v13, v14, v15, v16, v17, v18>>
      /\ \/ v5 = <<>> /\ UNCHANGED <<v4, v5, v6>>
         \/ v5 # <<>> /\ v5' = Tail(v5) /\ v6' = v6 \ {Head(v5)} /\ v4' \in {0, v4}
  BY <1>1, ActivityTypes DEF Activity!LLMResponseEnded, Activity!Response, Activity!timers,
     Activity!past, Activity!Inv, Numbers, Sequences12
<1>3. /\ v11 # <<>> /\ Head(v11).at = at /\ v11' \in Seq(Run)
      /\ next = "done" /\ Len(v11) = 1 => v11' = <<>>
      /\ next = "ended" => /\ v11' # <<>> /\ Len(v11') = Len(v11)
                           /\ Head(v11').stage = Head(v11).stage /\ Head(v11').at = "ended"
  BY <1>1, <1>2, ResponseLemma
<1>4. Activity!TypeOK'
  <2>1. Numbers'
    BY <1>2, ActivityTypes DEF Activity!Inv, Numbers
  <2>2. Others'
    BY <1>2, ActivityTypes DEF Activity!Inv, Others
  <2>3. Sequences12'
    <3>1. v5 \in Seq({1, 2}) /\ (v5 # <<>> => Tail(v5) \in Seq({1, 2}))
      BY ActivityTypes, HeadTailProperties DEF Activity!Inv, Sequences12
    <3> QED
      BY <1>2, <1>3, <3>1 DEF Sequences12
  <2> QED
    BY <2>1, <2>2, <2>3, ActivityTypes, PTL
<1>5. Activity!OneCountdown' /\ Activity!WarnedTwice' /\ Activity!LateWarningIgnored'
  BY <1>2 DEF Activity!Inv, Activity!OneCountdown, Activity!WarnedTwice, Activity!LateWarningIgnored
<1>6. Activity!StageOfWarnings'
  <2>1. /\ v1 < 2 => v4' = 0
        /\ v4' # 0 => v3 = 0
        /\ v1 = 0 => v5' = v5 /\ v6' = v6
        /\ v13 = TRUE
    BY <1>2, <1>3 DEF Activity!Inv, Activity!StageOfWarnings
  <2> QED
    BY <1>2, <2>1 DEF Activity!Inv, Activity!StageOfWarnings
<1>7. ASSUME v1 = 1 PROVE Activity!FirstWarning'
  <2>1. /\ Len(v11) = 1 /\ Head(v11).stage = 1 /\ v9 # 1
        /\ v5 = <<1>> /\ v6 \in {{}, {1}}
    BY <1>1, <1>2, <1>3, <1>7 DEF Activity!Inv, Activity!FirstWarning
  <2>2. v5' = <<>> /\ v6' = {}
    BY <1>2, <2>1, PendingLemma
  <2>3. v1' = 1 /\ v9' # 1
    BY <1>2, <1>7, <2>1
  <2>4. CASE next = "done"
    BY <1>3, <2>1, <2>2, <2>3, <2>4 DEF Activity!FirstWarning
  <2>5. CASE next = "ended"
    BY <1>3, <2>1, <2>2, <2>3, <2>5 DEF Activity!FirstWarning
  <2> QED
    BY <2>4, <2>5
<1>8. ASSUME v1 = 2 PROVE Activity!SecondWarning'
  <2>1. /\ \A i \in 2..Len(v11') : v11'[i].stage = 2
        /\ next = "done" => v11' = <<>> \/ Head(v11').stage = 2
        /\ v9 = 2 => Len(v11') <= 1 /\ (next = "done" => v11' = <<>>)
    BY <1>1, <1>8, RunsOfSecondStage
  <2>2. /\ v5 \in {<<>>, <<1>>, <<2>>, <<1, 2>>}
        /\ v9 = 2 => v5 \in {<<2>>, <<1, 2>>} /\ Head(v11).stage = 1
        /\ Head(v11).stage = 1 => v5 \in {<<1>>, <<1, 2>>} /\ (at = "speaking" => v3 = 1)
    BY <1>1, <1>2, <1>3, <1>8 DEF Activity!Inv, Activity!SecondWarning
  <2>3. /\ v5' \in {<<>>, <<2>>}
        /\ v5 = <<1, 2>> => v5' = <<2>>
    BY <1>2, <2>2, PendingLemma
  <2>4. v9 = 2 => v5 = <<1, 2>>
    BY <2>2, PendingLemma
  <2>5. CASE next = "done"
    BY <1>2, <1>8, <2>1, <2>3, <2>4, <2>5 DEF Activity!SecondWarning
  <2>6. CASE next = "ended"
    BY <1>1, <1>2, <1>3, <1>8, <2>1, <2>2, <2>3, <2>4, <2>6 DEF Activity!SecondWarning
  <2> QED
    BY <2>5, <2>6
<1> QED
  BY <1>2, <1>4, <1>5, <1>6, <1>7, <1>8
     DEF Activity!Inv, Activity!FirstWarning, Activity!SecondWarning

\* A warning was heard: of a retired one nothing follows, of the second one the
\* session ends, after the first one the countdown begins again.
LEMMA SpokenKeepsInv == ASSUME Activity!Inv, Activity!WarningSpoken PROVE Activity!Inv'
<1> USE DEF Activity!Live
<1>1. PICK at \in {"speaking", "ended"}, next \in {"spoken", "done"} :
        Activity!Response(at, next) /\ (next = "spoken" <=> at = "speaking")
  BY Zenon DEF Activity!WarningSpoken
<1>2. /\ v1 \in 0..2 /\ v11 \in Seq(Run) /\ v10 \in {"none", "scheduled"} /\ v3 \in 0..1
      /\ UNCHANGED <<v1, v4, v5, v6, v9, v12, v13, v14, v15, v17, v18>>
      /\ v16' = v16 \cup {Head(v11).stage}
  BY <1>1, ActivityTypes DEF Activity!WarningSpoken, Activity!Response, Activity!Inv, Numbers,
     Sequences12
<1>3. \/ v3 = 1 /\ v3' = 0 /\ UNCHANGED <<v2, v7, v8, v10>>
      \/ v3 = 0 /\ v3' = 0 /\ v2 = TRUE /\ v2' = FALSE /\ v8' = 0 /\ v10' = "scheduled" /\ v7' = v7
      \/ v3 = 0 /\ v3' = 0 /\ v2 = FALSE /\ v2' = FALSE /\ v8' = 0 /\ v7' = (v1 < 2) /\ v10' = v10
  <2>1. v2 \in BOOLEAN
    BY ActivityTypes DEF Activity!Inv, Others
  <2>2. Activity!HandleBotStopped
    BY DEF Activity!WarningSpoken
  <2> QED
    BY <1>2, <2>1, <2>2 DEF Activity!HandleBotStopped, Activity!ScheduleDisconnect, Activity!ArmTimer
<1>4. /\ v11 # <<>> /\ Head(v11).at = at /\ Head(v11) \in Run /\ v11' \in Seq(Run)
      /\ next = "done" /\ Len(v11) = 1 => v11' = <<>>
      /\ next = "spoken" => /\ v11' # <<>> /\ Len(v11') = Len(v11)
                            /\ Head(v11').stage = Head(v11).stage /\ Head(v11').at = "spoken"
  BY <1>1, <1>2, ResponseLemma, HeadTailProperties
<1>5. Activity!TypeOK'
  <2>1. Numbers'
    BY <1>2, <1>3, ActivityTypes DEF Activity!Inv, Numbers
  <2>2. Others'
    <3>1. v7 \in BOOLEAN /\ (v1 < 2) \in BOOLEAN
      BY ActivityTypes DEF Activity!Inv, Others
    <3>2. v7' = v7 \/ v7' = (v1 < 2)
      BY <1>3
    <3> QED
      BY <1>2, <1>3, <3>1, <3>2, ActivityTypes DEF Activity!Inv, Others
  <2>3. Sequences12'
    BY <1>2, <1>4, ActivityTypes DEF Activity!Inv, Sequences12
  <2> QED
    BY <2>1, <2>2, <2>3, ActivityTypes, PTL
<1>6. Activity!OneCountdown'
  BY <1>2, <1>3 DEF Activity!Inv, Activity!OneCountdown
<1>7. /\ v2 => v1 = 2
      /\ v15 = 1..v1 /\ v13 = TRUE
  BY <1>2, <1>4 DEF Activity!Inv, Activity!StageOfWarnings
<1>8. Activity!WarnedTwice'
  <2>1. 1..2 = {1, 2}
    OBVIOUS
  <2>2. v10' = "scheduled" => v15' = {1, 2}
    BY <1>2, <1>3, <1>7, <2>1 DEF Activity!Inv, Activity!WarnedTwice
  <2> QED
    BY <1>2, <2>2 DEF Activity!Inv, Activity!WarnedTwice
<1>9. Activity!LateWarningIgnored'
  <2>1. CASE v10' = v10
    BY <1>2, <2>1 DEF Activity!Inv, Activity!LateWarningIgnored
  <2>2. CASE v3 = 0 /\ v2 = TRUE
    <3>1. Head(v11).stage = 1 => v18
      BY <1>1, <1>2, <1>4, <1>7, <2>2 DEF Activity!Inv, Activity!SecondWarning
    <3>2. Head(v11).stage \in {1, 2}
      BY <1>4 DEF Run
    <3> QED
      BY <1>2, <3>1, <3>2 DEF Activity!LateWarningIgnored
  <2> QED
    BY <1>3, <2>1, <2>2
<1>10. Activity!StageOfWarnings'
  <2>1. v7' => v1 < 2
    <3>1. v7 => v1 < 2
      BY <1>2 DEF Activity!Inv, Activity!StageOfWarnings
    <3>2. v7' = v7 \/ v7' = (v1 < 2)
      BY <1>3
    <3> QED
      BY <3>1, <3>2
  <2>2. v2' => v1 = 2
    BY <1>3, <1>7
  <2>3. v10' = "scheduled" => v1 = 2
    BY <1>2, <1>3, <1>7 DEF Activity!Inv, Activity!StageOfWarnings
  <2> QED
    BY <1>2, <1>3, <1>7, <2>1, <2>2, <2>3 DEF Activity!Inv, Activity!StageOfWarnings
<1>11. ASSUME v1 = 1 PROVE Activity!FirstWarning'
  <2>1. /\ Len(v11) = 1 /\ Head(v11).stage = 1 /\ v9 # 1
        /\ v5 = (IF at = "ended" THEN <<>> ELSE <<1>>)
        /\ v6 = (IF at = "speaking" THEN {1} ELSE {})
    BY <1>1, <1>2, <1>4, <1>11 DEF Activity!Inv, Activity!FirstWarning
  <2>2. v8' = 0
    <3>1. v3 = 0 /\ v2 # TRUE
      <4>1. v3 = 0
        BY <1>2, <1>11 DEF Activity!Inv, Activity!StageOfWarnings
      <4>2. v1 # 2
        BY <1>11
      <4> QED
        BY <1>7, <4>1, <4>2
    <3> QED
      BY <1>3, <3>1
  <2>3. v1' = 1 /\ v9' # 1 /\ v5' = v5 /\ v6' = v6
    BY <1>2, <1>11, <2>1
  <2>4. CASE next = "done"
    BY <1>1, <1>4, <2>1, <2>3, <2>4 DEF Activity!FirstWarning
  <2>5. CASE next = "spoken"
    BY <1>1, <1>4, <2>1, <2>2, <2>3, <2>5 DEF Activity!FirstWarning
  <2> QED
    BY <2>4, <2>5
<1>12. ASSUME v1 = 2 PROVE Activity!SecondWarning'
  <2>1. /\ \A i \in 2..Len(v11') : v11'[i].stage = 2
        /\ next = "done" => v11' = <<>> \/ Head(v11').stage = 2
        /\ v9 = 2 => Len(v11') <= 1 /\ (next = "done" => v11' = <<>>)
    BY <1>1, <1>12, RunsOfSecondStage
  <2>2. /\ v5 \in {<<>>, <<1>>, <<2>>, <<1, 2>>}
        /\ v9 = 2 => v5 \in {<<2>>, <<1, 2>>} /\ Head(v11).stage = 1
        /\ Head(v11).stage = 1 /\ at = "speaking" => v5 \in {<<1>>, <<1, 2>>}
    BY <1>1, <1>2, <1>4, <1>12 DEF Activity!Inv, Activity!SecondWarning
  <2>3. CASE next = "done"
    BY <1>2, <1>12, <2>1, <2>2, <2>3 DEF Activity!SecondWarning
  <2>4. CASE next = "spoken"
    BY <1>1, <1>2, <1>4, <1>12, <2>1, <2>2, <2>4 DEF Activity!SecondWarning
  <2> QED
    BY <2>3, <2>4
<1> QED
  BY <1>2, <1>5, <1>6, <1>8, <1>9, <1>10, <1>11, <1>12
     DEF Activity!Inv, Activity!FirstWarning, Activity!SecondWarning

LEMMA ActivityStep == Activity!Inv /\ Activity!Next => Activity!Inv'
BY StartKeepsInv, ResetKeepsInv, ReplyKeepsInv, DisconnectKeepsInv, TimerKeepsInv, QueuedKeepsInv,
   FailsKeepsInv, WatchdogKeepsInv, TTSStartedKeepsInv, ResponseEndedKeepsInv, SpokenKeepsInv
   DEF Activity!Next, Activity!Timers, Activity!Warning

\* A session is ended for inactivity only after two warnings, in their order and
\* from one countdown, and the late speech of the first is not taken for the
\* farewell unless it outlasted its own response (ActivityCheckProcessor), for any
\* number of times the user speaks.
THEOREM WarningsInOrder == Spec => []WarnedInOrder
<1> DEFINE Safe == component = "activity" => Activity!Inv
<1>1. Init => Safe
  BY ActivityInit DEF Init
<1>2. Safe /\ [Next]_vars => Safe'
  <2> SUFFICES ASSUME Safe, [Next]_vars, component' = "activity" PROVE Activity!Inv'
    OBVIOUS
  <2>1. CASE component = "activity" /\ Activity!Next
    BY <2>1, ActivityStep
  <2>2. CASE component = "activity" /\ UNCHANGED vars
    BY <2>2 DEF vars, Activity!Inv, Activity!TypeOK, Activity!OneCountdown, Activity!WarnedTwice,
       Activity!LateWarningIgnored, Activity!StageOfWarnings, Activity!FirstWarning,
       Activity!SecondWarning, Activity!Live
  <2> QED
    BY <2>1, <2>2 DEF Next, vars
<1>3. Safe => WarnedInOrder
  BY DEF WarnedInOrder, Activity!Inv
<1> QED
  BY <1>1, <1>2, <1>3, PTL DEF Spec

===============================================================================
