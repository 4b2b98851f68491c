-------------------------- MODULE MCSessions_proofs --------------------------
(***************************************************************************)
(* What TLAPS proves of the components of MCSessions, for any sessions,    *)
(* handlers, posts, callers, clicks and turns.  Each component has an      *)
(* inductive invariant, Inv; Init establishes it, each action preserves    *)
(* it, and steps of the other components leave it alone.                   *)
(***************************************************************************)
EXTENDS Turns_proofs, FiniteSetTheorems, SequenceTheorems, WellFoundedInduction, TLAPS

(***************************************************************************)
(* Sessions.                                                               *)
(***************************************************************************)
ConnStates == {"idle", "answering", "running", "cleaned", "over", "failed"}
Conn == [at : ConnStates, sid : Sids \cup {nothing}, config : Configs \cup {nothing}, first : BOOLEAN]
Post == [at : {"idle", "reading", "done"}, sid : Sids \cup {nothing},
         source : Tables!Sources \cup {"none"}, request : Nat]
Kept == [post : Posts, source : Tables!Sources, request : Nat]
PerSession == [Sids -> Configs \cup {nothing}]

\* What TypeOK says, with the names above.
LEMMA TablesTypes ==
  Tables!TypeOK <=>
    /\ v1 \in PerSession /\ v2 \in PerSession /\ v3 \in PerSession
    /\ v4 \in [Conns -> Conn] /\ v5 \in [Posts -> Post]
    /\ v6 \in [Sids -> SUBSET Kept] /\ v7 \in [Sids -> Nat] /\ v8 \in [Sids -> Nat]
BY DEF Tables!TypeOK, PerSession, Conn, ConnStates, Post, Kept

LEMMA TablesInit == Tables!Init => Tables!Inv
<1> USE ConfigsAssumption DEF Tables!ConfigsAssumption
<1> SUFFICES ASSUME Tables!Init PROVE Tables!Inv
  OBVIOUS
<1> USE DEF Tables!Init, Tables!Idle, Tables!Rest
<1>1. Tables!TypeOK
  BY TablesTypes DEF PerSession, Conn, ConnStates, Post, Kept
<1>2. \A s \in Sids : Tables!Arrived(s) = {} /\ Tables!Serving(s) = {}
  BY DEF Tables!Arrived, Tables!Serving
<1>3. Tables!StoredUntilTaken /\ Tables!ActiveOfHandler /\ Tables!LoneBotIsActive
      /\ Tables!EndedSessionDropped /\ Tables!IdleWithoutSession /\ Tables!FirstComerRunsPost
  BY <1>2 DEF Tables!StoredUntilTaken, Tables!ActiveOfHandler, Tables!LoneBotIsActive,
     Tables!EndedSessionDropped, Tables!IdleWithoutSession, Tables!FirstComerRunsPost
<1>4. Tables!MediaOnlyForCapable /\ Tables!ReadsAsAllowed /\ Tables!CaptureConsumed
      /\ Tables!CaptureAnsweredOnce
  BY DEF Tables!MediaOnlyForCapable, Tables!ReadsAsAllowed, Tables!CaptureConsumed,
     Tables!CaptureAnsweredOnce
<1> QED
  BY <1>1, <1>3, <1>4 DEF Tables!Inv

\* LoneBotIsActive is the part of ActiveOfHandler about the bots that run.
LEMMA LoneBot == Tables!ActiveOfHandler => Tables!LoneBotIsActive
BY DEF Tables!ActiveOfHandler, Tables!LoneBotIsActive, Tables!Serving

\* The part of the invariant that speaks of media posts holds on as long as no
\* session loses what it may look at.
Media == Tables!MediaOnlyForCapable /\ Tables!ReadsAsAllowed
LEMMA MediaHolds ==
  ASSUME Media, \A s \in Sids : Tables!MayLook(s) => Tables!MayLook(s)',
         \A s \in Sids : v6'[s] # {} => v6[s] # {}, UNCHANGED v5
  PROVE  Media'
BY DEF Media, Tables!MediaOnlyForCapable, Tables!ReadsAsAllowed

\* A handler that is still idle takes what the session id stands for.
LEMMA ArrivalKeepsInv ==
  ASSUME Tables!Inv, NEW c \in Conns, NEW s \in Sids, NEW at \in {"answering", "running", "failed"},
         v4[c].at = "idle", v3[s] # nothing, Tables!TakeConfig(s),
         v2' = IF at = "failed" THEN v2 ELSE [v2 EXCEPT ![s] = Tables!Resolved(s)],
         v4' = [v4 EXCEPT ![c] = [at |-> at, sid |-> s, config |-> Tables!Resolved(s),
                                  first |-> Tables!Arrived(s) = {}]],
         UNCHANGED <<v3, v5, v6, v7, v8>>
  PROVE  Tables!Inv'
<1> USE ConfigsAssumption DEF Tables!ConfigsAssumption
<1> USE DEF Tables!TakeConfig
<1>1. /\ v1 \in PerSession /\ v2 \in PerSession /\ v3 \in PerSession
      /\ v4 \in [Conns -> Conn] /\ v5 \in [Posts -> Post]
      /\ v6 \in [Sids -> SUBSET Kept] /\ v7 \in [Sids -> Nat] /\ v8 \in [Sids -> Nat]
  BY TablesTypes DEF Tables!Inv
<1>2. Tables!Resolved(s) \in Configs
  BY <1>1 DEF Tables!Resolved, PerSession
<1>3. Tables!TypeOK'
  <2>1. [at |-> at, sid |-> s, config |-> Tables!Resolved(s),
         first |-> Tables!Arrived(s) = {}] \in Conn
    BY <1>2 DEF Conn, ConnStates
  <2>2. v4' \in [Conns -> Conn]
    BY <1>1, <2>1
  <2>3. v1' \in PerSession /\ v2' \in PerSession
    BY <1>1, <1>2 DEF PerSession
  <2> QED
    BY <1>1, <2>2, <2>3 DEF Tables!TypeOK, PerSession, Conn, ConnStates, Post, Kept
<1>4. /\ \A d \in Conns \ {c} : v4'[d] = v4[d]
      /\ v4'[c].at = at /\ v4'[c].sid = s /\ v4'[c].config = Tables!Resolved(s)
      /\ v4'[c].first <=> Tables!Arrived(s) = {}
  <2>1. v4'[c] = [at |-> at, sid |-> s, config |-> Tables!Resolved(s), first |-> Tables!Arrived(s) = {}]
    BY <1>1
  <2> QED
    BY <1>1, <2>1
<1>5. v4[c].sid = nothing
  BY DEF Tables!Inv, Tables!IdleWithoutSession
<1>6. \A t \in Sids : Tables!Arrived(t)' = IF t = s THEN Tables!Arrived(t) \cup {c} ELSE Tables!Arrived(t)
  BY <1>4, <1>5 DEF Tables!Arrived
<1>7. c \notin Tables!Arrived(s)
  BY <1>5 DEF Tables!Arrived
<1>8. Tables!IdleWithoutSession'
  BY <1>4 DEF Tables!Inv, Tables!IdleWithoutSession
<1>9. Tables!Resolved(s) = IF Tables!Arrived(s) = {} THEN v3[s] ELSE Default
  BY DEF Tables!Resolved, Tables!Inv, Tables!StoredUntilTaken
<1>10. Tables!FirstComerRunsPost'
  BY <1>4, <1>9 DEF Tables!Inv, Tables!FirstComerRunsPost
<1>11. /\ v1' = [v1 EXCEPT ![s] = nothing]
       /\ \A t \in Sids : v2'[t] = IF t = s /\ at # "failed" THEN Tables!Resolved(s) ELSE v2[t]
  BY <1>1 DEF PerSession
<1>12. Tables!StoredUntilTaken'
  BY <1>1, <1>6, <1>11 DEF Tables!Inv, Tables!StoredUntilTaken, PerSession
<1>13. Tables!ActiveOfHandler'
  <2> SUFFICES ASSUME NEW t \in Sids
               PROVE  /\ v2'[t] # nothing => \E d \in Tables!Arrived(t)' : v2'[t] = v4'[d].config
                      /\ \A d \in Conns :
                           (Tables!Arrived(t)' = {d} /\ v4'[d].at \in {"answering", "running", "cleaned"})
                             => v2'[t] = v4'[d].config
    BY DEF Tables!ActiveOfHandler
  <2>1. CASE t = s
    <3>1. \A d \in Tables!Arrived(s) : v4'[d] = v4[d]
      BY <1>4, <1>7 DEF Tables!Arrived
    <3>2. c \in Tables!Arrived(s)' /\ v4'[c].config = Tables!Resolved(s) /\ v4'[c].at = at
      BY <1>4, <1>6
    <3>3. v2'[t] # nothing => \E d \in Tables!Arrived(t)' : v2'[t] = v4'[d].config
      BY <1>6, <1>11, <2>1, <3>1, <3>2 DEF Tables!Inv, Tables!ActiveOfHandler
    <3>4. \A d \in Conns : Tables!Arrived(s)' = {d} => d = c
      BY <3>2
    <3> QED
      BY <1>11, <2>1, <3>2, <3>3, <3>4
  <2>2. CASE t # s
    <3>1. Tables!Arrived(t)' = Tables!Arrived(t) /\ v2'[t] = v2[t]
      BY <1>6, <1>11, <2>2
    <3>2. \A d \in Tables!Arrived(t) : v4'[d] = v4[d]
      BY <1>4, <1>5 DEF Tables!Arrived
    <3> QED
      BY <3>1, <3>2 DEF Tables!Inv, Tables!ActiveOfHandler
  <2> QED
    BY <2>1, <2>2
<1>14. Tables!EndedSessionDropped'
  <2> SUFFICES ASSUME NEW t \in Sids, v2'[t] # nothing
               PROVE  \E d \in Conns : v4'[d].sid = t /\ v4'[d].at \in {"running", "cleaned", "answering", "failed"}
    BY DEF Tables!EndedSessionDropped, Tables!Serving, Tables!Arrived
  <2>1. CASE t = s
    BY <1>4, <2>1
  <2>2. CASE t # s
    <3>1. \E d \in Conns : v4[d].sid = t /\ v4[d].at \in {"running", "cleaned", "answering", "failed"}
      BY <1>11, <2>2 DEF Tables!Inv, Tables!EndedSessionDropped, Tables!Serving, Tables!Arrived
    <3> QED
      BY <1>4, <1>5, <3>1
  <2> QED
    BY <2>1, <2>2
<1>15. Media'
  <2>1. \A t \in Sids : Tables!MayLook(t) => Tables!MayLook(t)'
    BY <1>4, <1>6, <1>7 DEF Tables!MayLook, Tables!Arrived
  <2> QED
    BY <2>1, MediaHolds DEF Tables!Inv, Media
<1>16. Tables!CaptureConsumed' /\ Tables!CaptureAnsweredOnce'
  BY DEF Tables!Inv, Tables!CaptureConsumed, Tables!CaptureAnsweredOnce
<1>17. Tables!LoneBotIsActive'
  BY <1>13, LoneBot, PTL
<1> QED
  BY <1>3, <1>8, <1>10, <1>12, <1>13, <1>14, <1>15, <1>16, <1>17 DEF Tables!Inv, Media

\* A handler goes on with the session it has: its bot runs, or no connection was
\* made, its client leaves and the stores are cleared, or its bot ends.
LEMMA ProgressKeepsInv ==
  ASSUME Tables!Inv, NEW c \in Conns, NEW at \in ConnStates,
         <<v4[c].at, at>> \in {<<"answering", "running">>, <<"answering", "failed">>,
                               <<"running", "cleaned">>, <<"cleaned", "over">>},
         v4' = [v4 EXCEPT ![c].at = at],
         v2' = IF at = "over" THEN [v2 EXCEPT ![v4[c].sid] = nothing] ELSE v2,
         \/ UNCHANGED <<v6, v7>>
         \/ v6' = [v6 EXCEPT ![v4[c].sid] = {}] /\ v7' = [v7 EXCEPT ![v4[c].sid] = 0],
         UNCHANGED <<v1, v3, v5, v8>>
  PROVE  Tables!Inv'
<1> USE ConfigsAssumption DEF Tables!ConfigsAssumption
<1>1. /\ v1 \in PerSession /\ v2 \in PerSession /\ v3 \in PerSession
      /\ v4 \in [Conns -> Conn] /\ v5 \in [Posts -> Post]
      /\ v6 \in [Sids -> SUBSET Kept] /\ v7 \in [Sids -> Nat] /\ v8 \in [Sids -> Nat]
  BY TablesTypes DEF Tables!Inv
<1>2. v4[c].at # "idle" /\ at # "idle"
  OBVIOUS
<1> DEFINE s == v4[c].sid
<1>3. s \in Sids
  BY <1>1, <1>2 DEF Tables!Inv, Tables!IdleWithoutSession, Conn
<1>4. /\ \A d \in Conns \ {c} : v4'[d] = v4[d]
      /\ v4'[c].at = at /\ v4'[c].sid = s /\ v4'[c].config = v4[c].config
      /\ v4'[c].first = v4[c].first
  BY <1>1 DEF Conn
<1> HIDE DEF s
<1>5. Tables!TypeOK'
  <2>1. v4' \in [Conns -> Conn]
    BY <1>1 DEF Conn
  <2>2. v2' \in PerSession
    BY <1>1 DEF PerSession
  <2>3. v6' \in [Sids -> SUBSET Kept]
    BY <1>1
  <2>4. v7' \in [Sids -> Nat]
    BY <1>1
  <2> QED
    BY <1>1, <2>1, <2>2, <2>3, <2>4 DEF Tables!TypeOK, PerSession, Conn, ConnStates, Post, Kept
<1>6. \A t \in Sids : Tables!Arrived(t)' = Tables!Arrived(t)
  BY <1>4 DEF s, Tables!Arrived
<1>7. c \in Tables!Arrived(s)
  BY DEF s, Tables!Arrived
<1>8. Tables!IdleWithoutSession'
  BY <1>2, <1>4 DEF s, Tables!Inv, Tables!IdleWithoutSession
<1>9. Tables!FirstComerRunsPost'
  BY <1>4 DEF s, Tables!Inv, Tables!FirstComerRunsPost
<1>10. \A t \in Sids : v2'[t] = IF at = "over" /\ t = s THEN nothing ELSE v2[t]
  BY <1>1 DEF s, PerSession
<1>11. Tables!StoredUntilTaken'
  BY <1>6, <1>10 DEF Tables!Inv, Tables!StoredUntilTaken
<1>12. Tables!ActiveOfHandler'
  <2> SUFFICES ASSUME NEW t \in Sids
               PROVE  /\ v2'[t] # nothing => \E d \in Tables!Arrived(t)' : v2'[t] = v4'[d].config
                      /\ \A d \in Conns :
                           (Tables!Arrived(t)' = {d} /\ v4'[d].at \in {"answering", "running", "cleaned"})
                             => v2'[t] = v4'[d].config
    BY DEF Tables!ActiveOfHandler
  <2>1. \A d \in Conns : v4'[d].config = v4[d].config
    BY <1>4
  <2>2. v2'[t] # nothing => \E d \in Tables!Arrived(t)' : v2'[t] = v4'[d].config
    <3>1. v2'[t] # nothing => v2'[t] = v2[t]
      BY <1>10
    <3>2. Tables!Arrived(t) \subseteq Conns
      BY DEF Tables!Arrived
    <3> QED
      BY <1>6, <2>1, <3>1, <3>2 DEF Tables!Inv, Tables!ActiveOfHandler
  <2>3. ASSUME NEW d \in Conns, Tables!Arrived(t)' = {d},
               v4'[d].at \in {"answering", "running", "cleaned"}
        PROVE  v2'[t] = v4'[d].config
    <3>1. Tables!Arrived(t) = {d}
      BY <1>6, <2>3
    <3>2. v4[d].at \in {"answering", "running", "cleaned"}
      BY <1>4, <2>3
    <3>3. ~(at = "over" /\ t = s)
      BY <1>4, <1>7, <2>3, <3>1
    <3> QED
      BY <1>10, <2>1, <3>1, <3>2, <3>3 DEF Tables!Inv, Tables!ActiveOfHandler
  <2> QED
    BY <2>2, <2>3
<1>13. Tables!LoneBotIsActive'
  BY <1>12, LoneBot, PTL
<1>14. Tables!EndedSessionDropped'
  <2> SUFFICES ASSUME NEW t \in Sids, v2'[t] # nothing
               PROVE  \E d \in Conns : v4'[d].sid = t /\ v4'[d].at \in {"running", "cleaned", "answering", "failed"}
    BY DEF Tables!EndedSessionDropped, Tables!Serving, Tables!Arrived
  <2>1. PICK d \in Conns : v4[d].sid = t /\ v4[d].at \in {"running", "cleaned", "answering", "failed"}
    BY <1>10 DEF Tables!Inv, Tables!EndedSessionDropped, Tables!Serving, Tables!Arrived
  <2>2. d = c => at # "over"
    BY <1>10, <2>1 DEF s
  <2> QED
    BY <1>4, <2>1, <2>2 DEF s
<1>15. Media'
  <2>1. \A t \in Sids : Tables!MayLook(t) => Tables!MayLook(t)'
    <3>1. \A t \in Sids : Tables!Arrived(t) \subseteq Conns
      BY DEF Tables!Arrived
    <3> QED
      BY <1>4, <1>6, <3>1 DEF Tables!MayLook
  <2>2. \A t \in Sids : v6'[t] # {} => v6[t] # {}
    BY <1>1
  <2> QED
    BY <2>1, <2>2, MediaHolds DEF Tables!Inv, Media
<1>16. Tables!CaptureConsumed' /\ Tables!CaptureAnsweredOnce'
  <2>1. \A t \in Sids : v7'[t] = v7[t] \/ v7'[t] = 0
    BY <1>1
  <2>2. \A t \in Sids : v7'[t] <= v8[t]
    BY <1>1, <2>1 DEF Tables!Inv, Tables!CaptureConsumed
  <2>3. \A p \in Posts : v5[p].request # 0 => \A t \in Sids : v5[p].request # v7[t] => v5[p].request # v7'[t]
    BY <2>1
  <2>4. \A p \in Posts : v5[p].source = "capture" => v5[p].request # 0 /\ v5[p].sid \in Sids
    BY <1>1 DEF Tables!Inv, Tables!CaptureConsumed
  <2> QED
    BY <2>2, <2>3, <2>4 DEF Tables!Inv, Tables!CaptureConsumed, Tables!CaptureAnsweredOnce
<1> QED
  BY <1>5, <1>8, <1>9, <1>11, <1>12, <1>13, <1>14, <1>15, <1>16 DEF Tables!Inv, Media

\* A bot of the realtime endpoint starts under an id that was never posted.
LEMMA StartRealtimeKeepsInv ==
  ASSUME Tables!Inv, NEW c \in Conns, NEW s \in Sids, NEW config \in Configs,
         Tables!StartRealtimeBot(c, s, config)
  PROVE  Tables!Inv'
<1> USE ConfigsAssumption DEF Tables!ConfigsAssumption
<1>1. /\ v1 \in PerSession /\ v2 \in PerSession /\ v3 \in PerSession
      /\ v4 \in [Conns -> Conn] /\ v5 \in [Posts -> Post]
      /\ v6 \in [Sids -> SUBSET Kept] /\ v7 \in [Sids -> Nat] /\ v8 \in [Sids -> Nat]
  BY TablesTypes DEF Tables!Inv
<1>2. /\ v4[c].at = "idle" /\ v3[s] = nothing /\ UNCHANGED <<v1, v5, v6, v7, v8>>
      /\ v3' = [v3 EXCEPT ![s] = config] /\ v2' = [v2 EXCEPT ![s] = config]
      /\ v4' = [v4 EXCEPT ![c] = [at |-> "running", sid |-> s, config |-> config, first |-> TRUE]]
  BY DEF Tables!StartRealtimeBot, Tables!stores
<1>3. /\ \A d \in Conns \ {c} : v4'[d] = v4[d]
      /\ v4'[c] = [at |-> "running", sid |-> s, config |-> config, first |-> TRUE]
      /\ \A t \in Sids \ {s} : v3'[t] = v3[t] /\ v2'[t] = v2[t]
      /\ v3'[s] = config /\ v2'[s] = config
  BY <1>1, <1>2 DEF PerSession
<1>4. v4[c].sid = nothing
  BY <1>2 DEF Tables!Inv, Tables!IdleWithoutSession
<1>5. v1[s] = nothing /\ Tables!Arrived(s) = {}
  BY <1>2 DEF Tables!Inv, Tables!StoredUntilTaken
<1>6. /\ \A t \in Sids \ {s} : Tables!Arrived(t)' = Tables!Arrived(t)
      /\ Tables!Arrived(s)' = {c}
  <2>1. \A t \in Sids \ {s} : Tables!Arrived(t)' = Tables!Arrived(t)
    BY <1>3, <1>4 DEF Tables!Arrived
  <2> QED
    BY <1>3, <1>5, <2>1 DEF Tables!Arrived
<1>7. Tables!TypeOK'
  <2>1. v4' \in [Conns -> Conn] /\ v2' \in PerSession /\ v3' \in PerSession
    BY <1>1, <1>2 DEF Conn, ConnStates, PerSession
  <2> QED
    BY <1>1, <1>2, <2>1 DEF Tables!TypeOK, PerSession, Conn, ConnStates, Post, Kept
<1>8. Tables!IdleWithoutSession'
  BY <1>3 DEF Tables!Inv, Tables!IdleWithoutSession
<1>9. Tables!StoredUntilTaken'
  BY <1>2, <1>3, <1>5, <1>6 DEF Tables!Inv, Tables!StoredUntilTaken
<1>10. Tables!FirstComerRunsPost'
  <2>1. \A d \in Conns \ {c} : v4[d].sid # s
    BY <1>5 DEF Tables!Arrived
  <2>2. \A d \in Conns : v4[d].sid \in Sids \cup {nothing}
    BY <1>1 DEF Conn
  <2> QED
    BY <1>3, <2>1, <2>2 DEF Tables!Inv, Tables!FirstComerRunsPost
<1>11. Tables!ActiveOfHandler'
  <2>1. \A t \in Sids \ {s} : \A d \in Tables!Arrived(t) : v4'[d] = v4[d]
    BY <1>3, <1>4 DEF Tables!Arrived
  <2> QED
    BY <1>3, <1>6, <2>1 DEF Tables!Inv, Tables!ActiveOfHandler
<1>12. Tables!LoneBotIsActive'
  BY <1>11, LoneBot, PTL
<1>13. Tables!EndedSessionDropped'
  <2> SUFFICES ASSUME NEW t \in Sids, v2'[t] # nothing
               PROVE  \E d \in Conns : v4'[d].sid = t /\ v4'[d].at \in {"running", "cleaned", "answering", "failed"}
    BY DEF Tables!EndedSessionDropped, Tables!Serving, Tables!Arrived
  <2>1. CASE t = s
    BY <1>3, <2>1
  <2>2. CASE t # s
    <3>1. \E d \in Conns : v4[d].sid = t /\ v4[d].at \in {"running", "cleaned", "answering", "failed"}
      BY <1>3, <2>2 DEF Tables!Inv, Tables!EndedSessionDropped, Tables!Serving, Tables!Arrived
    <3> QED
      BY <1>3, <1>4, <3>1
  <2> QED
    BY <2>1, <2>2
<1>14. Media'
  <2>1. \A t \in Sids : Tables!MayLook(t) => Tables!MayLook(t)'
    <3> SUFFICES ASSUME NEW t \in Sids, Tables!MayLook(t) PROVE Tables!MayLook(t)'
      OBVIOUS
    <3>1. t # s
      BY <1>2, <1>5 DEF Tables!MayLook
    <3>2. \A d \in Tables!Arrived(t) : v4'[d] = v4[d]
      BY <1>3, <1>4 DEF Tables!Arrived
    <3> QED
      BY <1>3, <1>6, <3>1, <3>2 DEF Tables!MayLook
  <2> QED
    BY <1>2, <2>1, MediaHolds DEF Tables!Inv, Media
<1>15. Tables!CaptureConsumed' /\ Tables!CaptureAnsweredOnce'
  BY <1>2 DEF Tables!Inv, Tables!CaptureConsumed, Tables!CaptureAnsweredOnce
<1> QED
  BY <1>7, <1>8, <1>9, <1>10, <1>11, <1>12, <1>13, <1>14, <1>15 DEF Tables!Inv, Media

\* What a step says that touches neither table nor handler.
Standing == UNCHANGED <<v1, v2, v3, v4>>
LEMMA TablesStand ==
  ASSUME Tables!Inv, Standing
  PROVE  /\ Tables!IdleWithoutSession' /\ Tables!StoredUntilTaken' /\ Tables!FirstComerRunsPost'
         /\ Tables!ActiveOfHandler' /\ Tables!LoneBotIsActive' /\ Tables!EndedSessionDropped'
         /\ \A s \in Sids : Tables!MayLook(s)' <=> Tables!MayLook(s)
BY DEF Standing, Tables!Inv, Tables!IdleWithoutSession, Tables!StoredUntilTaken,
   Tables!FirstComerRunsPost, Tables!ActiveOfHandler, Tables!LoneBotIsActive,
   Tables!EndedSessionDropped, Tables!MayLook, Tables!Arrived, Tables!Serving

LEMMA PostConfigKeepsInv ==
  ASSUME Tables!Inv, NEW s \in Sids, NEW c \in Configs, Tables!PostConfig(s, c)
  PROVE  Tables!Inv'
<1> USE ConfigsAssumption DEF Tables!ConfigsAssumption
<1>1. /\ v1 \in PerSession /\ v2 \in PerSession /\ v3 \in PerSession
      /\ v4 \in [Conns -> Conn] /\ v5 \in [Posts -> Post]
      /\ v6 \in [Sids -> SUBSET Kept] /\ v7 \in [Sids -> Nat] /\ v8 \in [Sids -> Nat]
  BY TablesTypes DEF Tables!Inv
<1>2. /\ v3[s] = nothing /\ UNCHANGED <<v2, v4, v5, v6, v7, v8>>
      /\ v1' = [v1 EXCEPT ![s] = c] /\ v3' = [v3 EXCEPT ![s] = c]
  BY DEF Tables!PostConfig, Tables!stores
<1>3. /\ \A t \in Sids \ {s} : v1'[t] = v1[t] /\ v3'[t] = v3[t]
      /\ v1'[s] = c /\ v3'[s] = c
  BY <1>1, <1>2 DEF PerSession
<1>4. Tables!Arrived(s) = {}
  BY <1>2 DEF Tables!Inv, Tables!StoredUntilTaken
<1>5. \A t \in Sids : Tables!Arrived(t)' = Tables!Arrived(t) /\ Tables!Serving(t)' = Tables!Serving(t)
  BY <1>2 DEF Tables!Arrived, Tables!Serving
<1>6. Tables!TypeOK'
  <2>1. v1' \in PerSession /\ v3' \in PerSession
    BY <1>1, <1>2 DEF PerSession
  <2> QED
    BY <1>1, <1>2, <2>1 DEF Tables!TypeOK, PerSession, Conn, ConnStates, Post, Kept
<1>7. Tables!IdleWithoutSession'
  BY <1>2 DEF Tables!Inv, Tables!IdleWithoutSession
<1>8. Tables!StoredUntilTaken'
  BY <1>2, <1>3, <1>4, <1>5 DEF Tables!Inv, Tables!StoredUntilTaken
<1>9. Tables!FirstComerRunsPost'
  <2>1. \A d \in Conns : v4[d].sid # s
    BY <1>4 DEF Tables!Arrived
  <2>2. \A d \in Conns : v4[d].sid \in Sids \cup {nothing}
    BY <1>1 DEF Conn
  <2> QED
    BY <1>2, <1>3, <2>1, <2>2 DEF Tables!Inv, Tables!FirstComerRunsPost
<1>10. Tables!ActiveOfHandler'
  BY <1>2, <1>5 DEF Tables!Inv, Tables!ActiveOfHandler
<1>11. Tables!LoneBotIsActive'
  BY <1>10, LoneBot, PTL
<1>12. Tables!EndedSessionDropped'
  BY <1>2, <1>5 DEF Tables!Inv, Tables!EndedSessionDropped
<1>13. Media'
  <2>1. \A t \in Sids : Tables!MayLook(t) => Tables!MayLook(t)'
    <3> SUFFICES ASSUME NEW t \in Sids, Tables!MayLook(t) PROVE Tables!MayLook(t)'
      OBVIOUS
    <3>1. t # s
      BY <1>2, <1>4 DEF Tables!MayLook
    <3> QED
      BY <1>2, <1>3, <1>5, <3>1 DEF Tables!MayLook
  <2> QED
    BY <1>2, <2>1, MediaHolds DEF Tables!Inv, Media
<1>14. Tables!CaptureConsumed' /\ Tables!CaptureAnsweredOnce'
  BY <1>2 DEF Tables!Inv, Tables!CaptureConsumed, Tables!CaptureAnsweredOnce
<1> QED
  BY <1>6, <1>7, <1>8, <1>9, <1>10, <1>11, <1>12, <1>13, <1>14 DEF Tables!Inv, Media

LEMMA AskCaptureKeepsInv ==
  ASSUME Tables!Inv, NEW s \in Sids, Tables!AskCapture(s) PROVE Tables!Inv'
<1>1. /\ v1 \in PerSession /\ v2 \in PerSession /\ v3 \in PerSession
      /\ v4 \in [Conns -> Conn] /\ v5 \in [Posts -> Post]
      /\ v6 \in [Sids -> SUBSET Kept] /\ v7 \in [Sids -> Nat] /\ v8 \in [Sids -> Nat]
  BY TablesTypes DEF Tables!Inv
<1>2. /\ Standing /\ UNCHANGED <<v5, v6>>
      /\ v8' = [v8 EXCEPT ![s] = v8[s] + 1] /\ v7' = [v7 EXCEPT ![s] = v8[s] + 1]
  BY DEF Tables!AskCapture, Tables!tables, Standing
<1>3. Tables!TypeOK'
  BY <1>1, <1>2 DEF Standing, Tables!TypeOK, PerSession, Conn, ConnStates, Post, Kept
<1>4. Media'
  BY <1>2, TablesStand, MediaHolds DEF Tables!Inv, Media
<1>5. /\ \A t \in Sids \ {s} : v8'[t] = v8[t] /\ v7'[t] = v7[t]
      /\ v8'[s] = v8[s] + 1 /\ v7'[s] = v8[s] + 1 /\ v8[s] \in Nat
  BY <1>1, <1>2
<1>6. Tables!CaptureConsumed'
  <2>1. \A t \in Sids : v7'[t] <= v8'[t]
    BY <1>1, <1>5 DEF Tables!Inv, Tables!CaptureConsumed
  <2>2. ASSUME NEW p \in Posts, v5[p].source = "capture"
        PROVE  v5[p].sid \in Sids /\ v5[p].request \in 1..v8'[v5[p].sid] /\ v5[p].request # v7'[v5[p].sid]
    <3>1. /\ v5[p].sid \in Sids /\ v5[p].request \in 1..v8[v5[p].sid]
          /\ v5[p].request # v7[v5[p].sid] /\ v8[v5[p].sid] \in Nat
      BY <1>1, <2>2 DEF Tables!Inv, Tables!CaptureConsumed
    <3> QED
      BY <1>5, <3>1
  <2> QED
    BY <1>2, <2>1, <2>2 DEF Tables!CaptureConsumed
<1>7. Tables!CaptureAnsweredOnce'
  BY <1>2 DEF Tables!Inv, Tables!CaptureAnsweredOnce
<1> QED
  BY <1>2, <1>3, <1>4, <1>6, <1>7, TablesStand DEF Tables!Inv, Media

\* Only a session whose example may look passes the check of a media post.
LEMMA AllowedMayLook ==
  ASSUME Tables!Inv, NEW s \in Sids, Tables!Allowed(s) PROVE Tables!MayLook(s)
<1> USE ConfigsAssumption DEF Tables!ConfigsAssumption
<1>1. CASE v2[s] # nothing
  <2>1. PICK c \in Conns : v4[c].sid = s /\ v2[s] = v4[c].config
    BY <1>1 DEF Tables!Inv, Tables!ActiveOfHandler, Tables!Arrived
  <2>2. v4[c].config = IF v4[c].first THEN v3[s] ELSE Default
    BY <2>1 DEF Tables!Inv, Tables!FirstComerRunsPost
  <2> QED
    BY <1>1, <2>1, <2>2 DEF Tables!Allowed, Tables!MayLook, Tables!Arrived
<1>2. CASE v2[s] = nothing
  BY <1>2 DEF Tables!Allowed, Tables!MayLook, Tables!Inv, Tables!StoredUntilTaken
<1> QED
  BY <1>1, <1>2

LEMMA BeginPostKeepsInv ==
  ASSUME Tables!Inv, NEW p \in Posts, NEW s \in Sids, NEW source \in {"upload", "frame"},
         Tables!BeginPost(p, s, source)
  PROVE  Tables!Inv'
<1>1. /\ v1 \in PerSession /\ v2 \in PerSession /\ v3 \in PerSession
      /\ v4 \in [Conns -> Conn] /\ v5 \in [Posts -> Post]
      /\ v6 \in [Sids -> SUBSET Kept] /\ v7 \in [Sids -> Nat] /\ v8 \in [Sids -> Nat]
  BY TablesTypes DEF Tables!Inv
<1>2. /\ Standing /\ UNCHANGED <<v6, v7, v8>> /\ Tables!Allowed(s)
      /\ v5' = [v5 EXCEPT ![p] = [at |-> "reading", sid |-> s, source |-> source, request |-> 0]]
  BY DEF Tables!BeginPost, Tables!tables, Tables!stores, Standing
<1>3. /\ \A q \in Posts \ {p} : v5'[q] = v5[q]
      /\ v5'[p] = [at |-> "reading", sid |-> s, source |-> source, request |-> 0]
  BY <1>1, <1>2
<1>4. Tables!TypeOK'
  <2>1. v5' \in [Posts -> Post]
    BY <1>1, <1>2 DEF Post, Tables!Sources
  <2> QED
    BY <1>1, <1>2, <2>1 DEF Standing, Tables!TypeOK, PerSession, Conn, ConnStates, Post, Kept
<1>5. Tables!MediaOnlyForCapable'
  BY <1>2, TablesStand DEF Tables!Inv, Tables!MediaOnlyForCapable
<1>6. Tables!ReadsAsAllowed'
  BY <1>2, <1>3, TablesStand, AllowedMayLook DEF Tables!Inv, Tables!ReadsAsAllowed, Tables!Sources
<1>7. Tables!CaptureConsumed' /\ Tables!CaptureAnsweredOnce'
  BY <1>2, <1>3 DEF Tables!Inv, Tables!CaptureConsumed, Tables!CaptureAnsweredOnce
<1> QED
  BY <1>2, <1>4, <1>5, <1>6, <1>7, TablesStand DEF Tables!Inv

LEMMA BeginCaptureKeepsInv ==
  ASSUME Tables!Inv, NEW p \in Posts, NEW s \in Sids, NEW r, Tables!BeginCapture(p, s, r)
  PROVE  Tables!Inv'
<1>1. /\ v1 \in PerSession /\ v2 \in PerSession /\ v3 \in PerSession
      /\ v4 \in [Conns -> Conn] /\ v5 \in [Posts -> Post]
      /\ v6 \in [Sids -> SUBSET Kept] /\ v7 \in [Sids -> Nat] /\ v8 \in [Sids -> Nat]
  BY TablesTypes DEF Tables!Inv
<1>2. /\ Standing /\ UNCHANGED <<v6, v8>> /\ Tables!Allowed(s) /\ r # 0 /\ r = v7[s]
      /\ v7' = [v7 EXCEPT ![s] = 0]
      /\ v5' = [v5 EXCEPT ![p] = [at |-> "reading", sid |-> s, source |-> "capture", request |-> r]]
  BY DEF Tables!BeginCapture, Tables!Outstanding, Tables!tables, Standing
<1>3. /\ \A q \in Posts \ {p} : v5'[q] = v5[q]
      /\ v5'[p] = [at |-> "reading", sid |-> s, source |-> "capture", request |-> r]
  BY <1>1, <1>2
<1>4. r \in Nat /\ r \in 1..v8[s] /\ v8[s] \in Nat
  BY <1>1, <1>2 DEF Tables!Inv, Tables!CaptureConsumed
<1>5. Tables!TypeOK'
  <2>1. v5' \in [Posts -> Post]
    BY <1>1, <1>2, <1>4 DEF Post, Tables!Sources
  <2>2. v7' \in [Sids -> Nat]
    BY <1>1, <1>2
  <2> QED
    BY <1>1, <1>2, <2>1, <2>2 DEF Standing, Tables!TypeOK, PerSession, Conn, ConnStates, Post, Kept
<1>6. Tables!MediaOnlyForCapable'
  BY <1>2, TablesStand DEF Tables!Inv, Tables!MediaOnlyForCapable
<1>7. Tables!ReadsAsAllowed'
  BY <1>2, <1>3, TablesStand, AllowedMayLook DEF Tables!Inv, Tables!ReadsAsAllowed, Tables!Sources
<1>8. \A q \in Posts : v5[q].source = "capture" =>
        /\ v5[q].sid \in Sids /\ v5[q].request \in 1..v8[v5[q].sid] /\ v8[v5[q].sid] \in Nat
        /\ v5[q].request # v7[v5[q].sid]
  BY <1>1 DEF Tables!Inv, Tables!CaptureConsumed
<1>9. /\ \A t \in Sids \ {s} : v7'[t] = v7[t]
      /\ v7'[s] = 0
  BY <1>1, <1>2
<1>10. Tables!CaptureConsumed'
  <2>1. \A t \in Sids : v7'[t] <= v8[t]
    BY <1>1, <1>9 DEF Tables!Inv, Tables!CaptureConsumed
  <2>2. \A q \in Posts \ {p} : v5[q].source = "capture" => v5[q].request # v7'[v5[q].sid]
    BY <1>8, <1>9
  <2> QED
    BY <1>2, <1>3, <1>4, <1>8, <1>9, <2>1, <2>2 DEF Tables!CaptureConsumed
<1>11. Tables!CaptureAnsweredOnce'
  <2>1. \A q \in Posts : ~(v5[q].source = "capture" /\ v5[q].sid = s /\ v5[q].request = r)
    BY <1>2, <1>8
  <2> QED
    BY <1>3, <2>1 DEF Tables!Inv, Tables!CaptureAnsweredOnce
<1> QED
  BY <1>2, <1>5, <1>6, <1>7, <1>10, <1>11, TablesStand DEF Tables!Inv

LEMMA BodyKeepsInv ==
  ASSUME Tables!Inv, NEW p \in Posts, Tables!StoreBody(p) \/ Tables!RefuseBody(p)
  PROVE  Tables!Inv'
<1>1. /\ v1 \in PerSession /\ v2 \in PerSession /\ v3 \in PerSession
      /\ v4 \in [Conns -> Conn] /\ v5 \in [Posts -> Post]
      /\ v6 \in [Sids -> SUBSET Kept] /\ v7 \in [Sids -> Nat] /\ v8 \in [Sids -> Nat]
  BY TablesTypes DEF Tables!Inv
<1> DEFINE s == v5[p].sid
           kept == [post |-> p, source |-> v5[p].source, request |-> v5[p].request]
<1>2. /\ Standing /\ UNCHANGED <<v7, v8>> /\ v5[p].at = "reading"
      /\ v5' = [v5 EXCEPT ![p].at = "done"]
      /\ v6' = v6 \/ v6' = [v6 EXCEPT ![s] = @ \cup {kept}]
  BY DEF Tables!StoreBody, Tables!RefuseBody, Tables!tables, Tables!stores, Standing
<1>3. s \in Sids /\ Tables!MayLook(s)
  BY <1>2 DEF Tables!Inv, Tables!ReadsAsAllowed
<1>4. /\ \A q \in Posts \ {p} : v5'[q] = v5[q]
      /\ v5'[p].at = "done" /\ v5'[p].sid = s /\ v5'[p].source = v5[p].source
      /\ v5'[p].request = v5[p].request
  BY <1>1, <1>2 DEF Post
<1> HIDE DEF s
<1>5. Tables!TypeOK'
  <2>1. v5' \in [Posts -> Post]
    BY <1>1, <1>2 DEF Post
  <2>2. v6' \in [Sids -> SUBSET Kept]
    <3>1. kept \in Kept
      BY <1>1, <1>2 DEF Tables!Inv, Tables!ReadsAsAllowed, Post, Kept
    <3> QED
      BY <1>1, <1>2, <1>3, <3>1
  <2> QED
    BY <1>1, <1>2, <2>1, <2>2 DEF Standing, Tables!TypeOK, PerSession, Conn, ConnStates, Post, Kept
<1>6. Tables!MediaOnlyForCapable'
  BY <1>1, <1>2, <1>3, TablesStand DEF Tables!Inv, Tables!MediaOnlyForCapable
<1>7. Tables!ReadsAsAllowed'
  BY <1>2, <1>4, TablesStand DEF Tables!Inv, Tables!ReadsAsAllowed
<1>8. Tables!CaptureConsumed'
  BY <1>2, <1>4 DEF s, Tables!Inv, Tables!CaptureConsumed
<1>9. Tables!CaptureAnsweredOnce'
  BY <1>2, <1>4 DEF s, Tables!Inv, Tables!CaptureAnsweredOnce
<1> QED
  BY <1>2, <1>5, <1>6, <1>7, <1>8, <1>9, TablesStand DEF Tables!Inv

LEMMA ConnectionKeepsInv ==
  ASSUME Tables!Inv, NEW c \in Conns, Tables!Connection(c) PROVE Tables!Inv'
<1>1. ASSUME NEW s \in Sids, Tables!Offer(c, s) PROVE Tables!Inv'
  BY <1>1, ArrivalKeepsInv DEF Tables!Offer, Tables!stores
<1>2. ASSUME NEW s \in Sids, Tables!AcceptSocket(c, s) PROVE Tables!Inv'
  BY <1>2, ArrivalKeepsInv DEF Tables!AcceptSocket, Tables!stores
<1>3. ASSUME NEW s \in Sids, Tables!AcceptFails(c, s) PROVE Tables!Inv'
  BY <1>3, ArrivalKeepsInv DEF Tables!AcceptFails, Tables!stores
<1>4. CASE Tables!Connected(c)
  BY <1>4, ProgressKeepsInv DEF ConnStates, Tables!Connected, Tables!tables, Tables!stores
<1>5. CASE Tables!NoNewConnection(c)
  BY <1>5, ProgressKeepsInv DEF ConnStates, Tables!NoNewConnection, Tables!tables, Tables!stores
<1>6. CASE Tables!ClientLeaves(c)
  BY <1>6, ProgressKeepsInv DEF ConnStates, Tables!ClientLeaves, Tables!tables
<1>7. CASE Tables!BotEnds(c)
  BY <1>7, ProgressKeepsInv DEF ConnStates, Tables!BotEnds, Tables!stores
<1> QED
  BY <1>1, <1>2, <1>3, <1>4, <1>5, <1>6, <1>7, StartRealtimeKeepsInv DEF Tables!Connection

LEMMA TablesStep == Tables!Inv /\ Tables!Next => Tables!Inv'
BY PostConfigKeepsInv, AskCaptureKeepsInv, ConnectionKeepsInv, BeginPostKeepsInv,
   BeginCaptureKeepsInv, BodyKeepsInv DEF Tables!Next, Tables!MediaPost

\* The invariant, where the variables are those of the tables.
TablesSafe == component = "tables" => Tables!Inv
LEMMA TablesInvariant == Spec => []TablesSafe
<1>1. Init => TablesSafe
  BY TablesInit DEF Init, TablesSafe
<1>2. TablesSafe /\ [Next]_vars => TablesSafe'
  <2> SUFFICES ASSUME TablesSafe, [Next]_vars, component' = "tables" PROVE Tables!Inv'
    BY DEF TablesSafe
  <2>1. CASE component = "tables" /\ Tables!Next
    BY <2>1, TablesStep DEF TablesSafe
  <2>2. CASE component = "tables" /\ UNCHANGED vars
    <3>1. UNCHANGED <<v1, v2, v3, v4, v5, v6, v7, v8>> /\ Tables!Inv
      BY <2>2 DEF vars, TablesSafe
    <3>2. Tables!TypeOK' /\ Tables!MediaOnlyForCapable' /\ Tables!ReadsAsAllowed'
      BY <3>1, TablesStand DEF Standing, Tables!Inv, Tables!TypeOK, Tables!MediaOnlyForCapable,
         Tables!ReadsAsAllowed
    <3>3. Tables!CaptureConsumed' /\ Tables!CaptureAnsweredOnce'
      BY <3>1 DEF Tables!Inv, Tables!CaptureConsumed, Tables!CaptureAnsweredOnce
    <3> QED
      BY <3>1, <3>2, <3>3, TablesStand DEF Standing, Tables!Inv
  <2> QED
    BY <2>1, <2>2 DEF Next, vars
<1> QED
  BY <1>1, <1>2, PTL DEF Spec

\* Whatever handlers race for a session id, the first takes what was posted and
\* the others run the default; the table of active sessions names the bot of a
\* session with one handler, and keeps no session whose bots have all ended
\* (_resolve_config, _active_session_configs).
THEOREM SessionTablesAgree == Spec => []TablesInStep
<1>1. TablesSafe => TablesInStep
  BY DEF TablesSafe, TablesInStep, Tables!Inv
<1> QED
  BY <1>1, TablesInvariant, PTL

\* Nothing is kept for a session whose example cannot look at it, however its
\* connections and posts overlap (_session_capability_error), and a capture
\* request is answered by one post (consume_capture_request).
THEOREM MediaOfCapableSessions == Spec => []MediaAsAllowed
<1>1. TablesSafe => MediaAsAllowed
  BY DEF TablesSafe, MediaAsAllowed, Tables!Inv
<1> QED
  BY <1>1, TablesInvariant, PTL

(***************************************************************************)
(* BrowserSession.                                                         *)
(***************************************************************************)
Generations == 1..MaxGenerations
ClientStates == {"disconnected", "connecting", "connected", "disconnecting"}
Mount == [state : ClientStates, session : Nat]
Handler == [at : {"unclicked", "devices", "creating", "connecting", "dropping", "disconnecting", "done"},
            gen : 0..MaxGenerations, session : Nat]

\* What TypeOK says, with the names above.
LEMMA BrowserTypes ==
  Browser!TypeOK <=>
    /\ v1 \in {"webrtc", "websocket"} /\ v2 \in Generations
    /\ v3 \in [Generations -> Mount] /\ v4 \in [Browser!Clicks -> Handler]
    /\ v5 \in Nat /\ v6 \in Nat
    /\ \A k \in Browser!Clicks : v4[k].at # "unclicked" => v4[k].gen \in 1..v2
BY DEF Browser!TypeOK, Generations, ClientStates, Mount, Handler

LEMMA BrowserInit == Browser!Init => Browser!Inv
<1> SUFFICES ASSUME Browser!Init PROVE Browser!Inv
  OBVIOUS
<1> USE BrowserAssumption DEF Browser!BoundsAssumption, Browser!Init
<1>1. v3 \in [Generations -> Mount]
  BY DEF Generations, Mount, ClientStates
<1>2. v4 \in [Browser!Clicks -> Handler]
  BY DEF Handler
<1>3. Browser!TypeOK
  BY <1>1, <1>2, BrowserTypes DEF Generations
<1> QED
  BY <1>3 DEF Browser!Inv, Browser!IdOfThisConnection, Browser!IsConnected, Browser!IsConnecting

\* The part of the invariant that is about the mounted client.
LEMMA BrowserSafety ==
  Browser!Inv <=>
    /\ Browser!TypeOK
    /\ v3[v2].state \in {"connecting", "connected"} => v6 \in {0, v3[v2].session}
    /\ \A g \in Generations : g > v2 => v3[g].state = "disconnected"
BY DEF Browser!Inv, Browser!IdOfThisConnection, Browser!IsConnected, Browser!IsConnecting, Generations

\* A handler goes on; the clients and the id stay as they are.
LEMMA HandlerKeepsTypes ==
  ASSUME Browser!Inv, NEW k \in Browser!Clicks, NEW at, v4[k].at # "unclicked", Browser!Goes(k, at),
         at \in {"creating", "done", "dropping"}
  PROVE  /\ v4' \in [Browser!Clicks -> Handler]
         /\ \A j \in Browser!Clicks : v4'[j].gen = v4[j].gen
         /\ \A j \in Browser!Clicks : v4'[j].at # "unclicked" => v4[j].at # "unclicked"
BY BrowserTypes DEF Browser!Inv, Browser!Goes, Handler

LEMMA ClickKeepsInv ==
  ASSUME Browser!Inv, NEW k \in Browser!Clicks, Browser!Click(k) PROVE Browser!Inv'
<1>1. /\ v1 \in {"webrtc", "websocket"} /\ v2 \in Generations
      /\ v3 \in [Generations -> Mount] /\ v4 \in [Browser!Clicks -> Handler]
      /\ v5 \in Nat /\ v6 \in Nat
      /\ \A j \in Browser!Clicks : v4[j].at # "unclicked" => v4[j].gen \in 1..v2
  BY BrowserTypes DEF Browser!Inv
<1>2. PICK at \in {"disconnecting", "creating", "devices"} :
        v4' = [v4 EXCEPT ![k] = [@ EXCEPT !.gen = v2, !.at = at]]
  BY DEF Browser!Click
<1>3. v4' \in [Browser!Clicks -> Handler]
  <2>1. v2 \in 0..MaxGenerations
    BY <1>1, BrowserAssumption DEF Browser!BoundsAssumption, Generations
  <2>2. [v4[k] EXCEPT !.gen = v2, !.at = at] \in Handler
    BY <1>1, <2>1 DEF Handler
  <2> QED
    BY <1>1, <1>2, <2>2
<1>4. \A j \in Browser!Clicks : v4'[j].at # "unclicked" => v4'[j].gen \in 1..v2
  BY <1>1, <1>2 DEF Handler, Generations
<1>5. v3' = v3 \/ v3' = [v3 EXCEPT ![v2].state = "disconnecting"]
  BY DEF Browser!Click, Browser!State
<1>6. v3' \in [Generations -> Mount]
  BY <1>1, <1>5 DEF Mount, ClientStates
<1>7. UNCHANGED <<v1, v2, v5, v6>>
  BY DEF Browser!Click
<1>8. Browser!TypeOK'
  BY <1>1, <1>3, <1>4, <1>6, <1>7 DEF Browser!TypeOK, Generations, Mount, ClientStates, Handler
<1>9. /\ \A g \in Generations \ {v2} : v3'[g] = v3[g]
      /\ v3'[v2] = v3[v2] \/ v3'[v2].state = "disconnecting"
  BY <1>1, <1>5 DEF Mount
<1>10. /\ v3'[v2].state \in {"connecting", "connected"} => v6 \in {0, v3'[v2].session}
       /\ \A g \in Generations : g > v2 => v3'[g].state = "disconnected"
  BY <1>1, <1>9, BrowserSafety DEF Generations
<1> QED
  BY <1>7, <1>8, <1>10 DEF Browser!Inv, Browser!IdOfThisConnection, Browser!IsConnected,
     Browser!IsConnecting, Generations

\* The client of a handler, or of a connection that ends, changes its state; the
\* id is kept or forgotten.
LEMMA ClientChanges ==
  ASSUME Browser!Inv, NEW g \in 1..v2, NEW state \in ClientStates,
         v3' = v3 \/ v3' = [v3 EXCEPT ![g].state = state],
         state = "connected" => v3[g].state = "connecting",
         state # "connecting", v6' \in {0, v6},
         v4' \in [Browser!Clicks -> Handler],
         \A j \in Browser!Clicks : v4'[j].at # "unclicked" => v4'[j].gen \in 1..v2,
         v5' \in Nat, UNCHANGED <<v1, v2>>
  PROVE  Browser!Inv'
<1>1. /\ v1 \in {"webrtc", "websocket"} /\ v2 \in Generations
      /\ v3 \in [Generations -> Mount] /\ v6 \in Nat
  BY BrowserTypes DEF Browser!Inv
<1>2. g \in Generations
  BY <1>1, BrowserAssumption DEF Browser!BoundsAssumption, Generations
<1>3. v3' \in [Generations -> Mount]
  BY <1>1, <1>2 DEF Mount
<1>4. Browser!TypeOK'
  BY <1>1, <1>3 DEF Browser!TypeOK, Generations, Mount, ClientStates, Handler
<1>5. /\ \A h \in Generations \ {g} : v3'[h] = v3[h]
      /\ v3'[g].session = v3[g].session
      /\ v3'[g].state = v3[g].state \/ v3'[g].state = state
  BY <1>1, <1>2 DEF Mount
<1>6. v3'[v2].state \in {"connecting", "connected"} => v6' \in {0, v3'[v2].session}
  BY <1>1, <1>5, BrowserSafety
<1>7. \A h \in Generations : h > v2 => v3'[h].state = "disconnected"
  BY <1>1, <1>5, BrowserSafety DEF Generations
<1> QED
  BY <1>4, <1>6, <1>7 DEF Browser!Inv, Browser!IdOfThisConnection, Browser!IsConnected,
     Browser!IsConnecting, Generations

\* Every other step but Created and ResetClient is one of these.
LEMMA HandlerKeepsInv ==
  ASSUME Browser!Inv, NEW k \in Browser!Clicks,
         \/ Browser!DevicesReady(k) \/ Browser!StartFails(k) \/ Browser!Connects(k)
         \/ Browser!ConnectFails(k) \/ Browser!ConnectTimesOut(k)
  PROVE  Browser!Inv'
<1> DEFINE g == v4[k].gen
<1>1. v4[k].at # "unclicked" /\ UNCHANGED <<v1, v2, v5>>
  BY DEF Browser!DevicesReady, Browser!StartFails, Browser!Connects, Browser!ConnectFails,
     Browser!ConnectTimesOut
<1>2. \E at \in {"creating", "done", "dropping"} : Browser!Goes(k, at)
  BY DEF Browser!DevicesReady, Browser!StartFails, Browser!Connects, Browser!ConnectFails,
     Browser!ConnectTimesOut, Browser!Caught
<1>3. /\ v4' \in [Browser!Clicks -> Handler] /\ v5 \in Nat
      /\ \A j \in Browser!Clicks : v4'[j].at # "unclicked" => v4'[j].gen \in 1..v2
      /\ g \in 1..v2
  BY <1>1, <1>2, HandlerKeepsTypes, BrowserTypes DEF Browser!Inv
<1>4. v6' \in {0, v6}
  BY DEF Browser!DevicesReady, Browser!StartFails, Browser!Connects, Browser!ConnectFails,
     Browser!ConnectTimesOut, Browser!Caught, Browser!Disconnected
<1>5. \E state \in {"connected", "disconnected", "disconnecting"} :
        /\ v3' = v3 \/ v3' = [v3 EXCEPT ![g].state = state]
        /\ state = "connected" => v3[g].state = "connecting"
  BY DEF Browser!DevicesReady, Browser!StartFails, Browser!Connects, Browser!ConnectFails,
     Browser!ConnectTimesOut, Browser!Caught, Browser!State, Browser!Holds
<1> HIDE DEF g
<1> QED
  BY <1>1, <1>3, <1>4, <1>5, ClientChanges DEF ClientStates

LEMMA CreatedKeepsInv ==
  ASSUME Browser!Inv, NEW k \in Browser!Clicks, Browser!Created(k) PROVE Browser!Inv'
<1> DEFINE g == v4[k].gen
<1>1. /\ v1 \in {"webrtc", "websocket"} /\ v2 \in Generations
      /\ v3 \in [Generations -> Mount] /\ v4 \in [Browser!Clicks -> Handler]
      /\ v5 \in Nat /\ v6 \in Nat
      /\ \A j \in Browser!Clicks : v4[j].at # "unclicked" => v4[j].gen \in 1..v2
  BY BrowserTypes DEF Browser!Inv
<1>2. v4[k].at = "creating" /\ UNCHANGED <<v1, v2>> /\ v5' = v5 + 1 /\ v5' \in Nat
  BY <1>1 DEF Browser!Created
<1>3. CASE \/ UNCHANGED <<v3, v6>> /\ Browser!Goes(k, "done")
           \/ Browser!Caught(k) /\ UNCHANGED v3
  <2>1. Browser!Goes(k, "done") /\ v6' \in {0, v6} /\ v3' = v3
    BY <1>3 DEF Browser!Caught
  <2>2. /\ v4' \in [Browser!Clicks -> Handler]
        /\ \A j \in Browser!Clicks : v4'[j].at # "unclicked" => v4'[j].gen \in 1..v2
        /\ g \in 1..v2
    BY <1>1, <1>2, <2>1, HandlerKeepsTypes
  <2> QED
    BY <1>2, <2>1, <2>2, ClientChanges DEF ClientStates
<1>4. CASE /\ g = v2 /\ v6' = v5'
           /\ v3' = [v3 EXCEPT ![g] = [state |-> "connecting", session |-> v5']]
           /\ v4' = [v4 EXCEPT ![k].at = "connecting", ![k].session = v5']
  <2>1. v3' \in [Generations -> Mount] /\ v4' \in [Browser!Clicks -> Handler]
    BY <1>1, <1>2, <1>4 DEF Mount, Handler, ClientStates
  <2>2. \A j \in Browser!Clicks : v4'[j].at # "unclicked" => v4'[j].gen \in 1..v2
    BY <1>1, <1>2, <1>4 DEF Handler
  <2>3. Browser!TypeOK'
    BY <1>1, <1>2, <1>4, <2>1, <2>2 DEF Browser!TypeOK, Generations, Mount, ClientStates, Handler
  <2>4. /\ \A h \in Generations \ {v2} : v3'[h] = v3[h]
        /\ v3'[v2].session = v6'
    BY <1>1, <1>4
  <2>5. \A h \in Generations : h > v2 => v3'[h].state = "disconnected"
    BY <1>1, <2>4, BrowserSafety DEF Generations
  <2> QED
    BY <1>2, <2>3, <2>4, <2>5 DEF Browser!Inv, Browser!IdOfThisConnection, Browser!IsConnected,
       Browser!IsConnecting, Generations
<1> QED
  BY <1>2, <1>3, <1>4 DEF Browser!Created, Browser!Begins, Browser!Mounted

LEMMA ResetClientKeepsInv ==
  ASSUME Browser!Inv, NEW k \in Browser!Clicks, Browser!ResetClient(k) PROVE Browser!Inv'
<1> DEFINE g == v4[k].gen
<1>1. /\ v1 \in {"webrtc", "websocket"} /\ v2 \in Generations
      /\ v3 \in [Generations -> Mount] /\ v4 \in [Browser!Clicks -> Handler]
      /\ v5 \in Nat /\ v6 \in Nat
      /\ \A j \in Browser!Clicks : v4[j].at # "unclicked" => v4[j].gen \in 1..v2
  BY BrowserTypes DEF Browser!Inv
<1>2. /\ v4[k].at # "unclicked" /\ v2 < MaxGenerations /\ v2' = v2 + 1 /\ UNCHANGED <<v1, v5>>
      /\ Browser!Goes(k, "done") /\ v6' \in {0, v6}
      /\ v3' = v3 \/ v3' = [v3 EXCEPT ![g].state = "disconnected"]
  BY DEF Browser!ResetClient, Browser!State
<1>3. /\ v4' \in [Browser!Clicks -> Handler]
      /\ \A j \in Browser!Clicks : v4'[j].at # "unclicked" => v4'[j].gen \in 1..v2
      /\ g \in 1..v2
  BY <1>1, <1>2, HandlerKeepsTypes
<1>4. v3' \in [Generations -> Mount] /\ v2' \in Generations
  <2>1. v2' \in Generations /\ g \in Generations
    BY <1>1, <1>2, <1>3, BrowserAssumption DEF Browser!BoundsAssumption, Generations
  <2> HIDE DEF g
  <2> QED
    BY <1>1, <1>2, <2>1 DEF Mount, ClientStates
<1>5. Browser!TypeOK'
  <2>1. \A j \in Browser!Clicks : v4'[j].at # "unclicked" => v4'[j].gen \in 1..v2'
    BY <1>1, <1>2, <1>3 DEF Generations
  <2> QED
    BY <1>1, <1>2, <1>3, <1>4, <2>1 DEF Browser!TypeOK, Generations, Mount, ClientStates, Handler
<1>6. \A h \in Generations : h > v2 => v3'[h].state = "disconnected"
  <2>1. \A h \in Generations \ {g} : v3'[h] = v3[h]
    BY <1>1, <1>2
  <2> QED
    BY <1>1, <1>3, <2>1, BrowserSafety DEF Generations
<1>7. v3'[v2'].state = "disconnected"
  BY <1>1, <1>2, <1>4, <1>6 DEF Generations
<1>8. \A h \in Generations : h > v2' => v3'[h].state = "disconnected"
  BY <1>1, <1>2, <1>6 DEF Generations
<1> QED
  BY <1>5, <1>7, <1>8 DEF Browser!Inv, Browser!IdOfThisConnection, Browser!IsConnected,
     Browser!IsConnecting, Generations

LEMMA ConnectionEndsKeepsInv ==
  ASSUME Browser!Inv, NEW g \in 1..v2, Browser!ConnectionEnds(g) PROVE Browser!Inv'
<1>1. v4 \in [Browser!Clicks -> Handler] /\ v5 \in Nat
      /\ \A j \in Browser!Clicks : v4[j].at # "unclicked" => v4[j].gen \in 1..v2
  BY BrowserTypes DEF Browser!Inv
<1> QED
  BY <1>1, ClientChanges DEF Browser!ConnectionEnds, Browser!State, Browser!Disconnected, ClientStates

LEMMA BrowserStep == Browser!Inv /\ Browser!Next => Browser!Inv'
BY ClickKeepsInv, HandlerKeepsInv, CreatedKeepsInv, ResetClientKeepsInv, ConnectionEndsKeepsInv
   DEF Browser!Next

\* The panels never act for another session than the one the mounted client is
\* connected to, whatever clicks, resets and late answers overlap (handleClick).
THEOREM SessionIdOfConnection == Spec => []IdOfThisConnection
<1> DEFINE Safe == component = "browser" => Browser!Inv
<1>1. Init => Safe
  BY BrowserInit DEF Init
<1>2. Safe /\ [Next]_vars => Safe'
  <2> SUFFICES ASSUME Safe, [Next]_vars, component' = "browser" PROVE Browser!Inv'
    OBVIOUS
  <2>1. CASE component = "browser" /\ Browser!Next
    BY <2>1, BrowserStep
  <2>2. CASE component = "browser" /\ UNCHANGED vars
    BY <2>2 DEF vars, Browser!Inv, Browser!TypeOK, Browser!IdOfThisConnection, Browser!IsConnected,
       Browser!IsConnecting
  <2> QED
    BY <2>1, <2>2 DEF Next, vars
<1>3. Safe => IdOfThisConnection
  BY DEF IdOfThisConnection, Browser!Inv
<1> QED
  BY <1>1, <1>2, <1>3, PTL DEF Spec

(***************************************************************************)
(* GenericTools.                                                           *)
(***************************************************************************)
\* A handler that has nothing told tells one result.
LEMMA TellsOnce ==
  ASSUME v4 = <<>>, NEW r, Tools!Tell(r) PROVE Tools!AnsweredAtMostOnce'
BY DEF Tools!Tell, Tools!AnsweredAtMostOnce

LEMMA ToolsStep == Tools!AnsweredAtMostOnce /\ Tools!Next => Tools!AnsweredAtMostOnce'
<1> SUFFICES ASSUME Tools!AnsweredAtMostOnce, Tools!Next PROVE Tools!AnsweredAtMostOnce'
  OBVIOUS
<1>1. CASE Tools!Handle
  <2>1. v4 = <<>>
    BY <1>1 DEF Tools!Handle, Tools!AnsweredAtMostOnce
  <2>2. (\E r : Tools!Tell(r)) \/ (v2' = "asking" /\ v4' = v4)
    BY <1>1 DEF Tools!Handle
  <2> QED
    BY <2>1, <2>2, TellsOnce DEF Tools!AnsweredAtMostOnce
<1>2. ASSUME NEW reply \in Tools!Replies, Tools!Provider(reply) PROVE Tools!AnsweredAtMostOnce'
  <2>1. v2 = "asking" /\ v4 = <<>>
    BY <1>2 DEF Tools!Provider, Tools!AnsweredAtMostOnce
  <2>2. Tools!Raises \/ Tools!Live(Head(v3)) \/ Tools!Onward
    BY <1>2 DEF Tools!Provider
  <2>3. (\E r : Tools!Tell(r)) \/ v4' = v4
    BY <2>2 DEF Tools!Raises, Tools!Live, Tools!Onward
  <2> QED
    BY <2>1, <2>3, TellsOnce DEF Tools!AnsweredAtMostOnce
<1> QED
  BY <1>1, <1>2 DEF Tools!Next

\* A tool call gets one result at most, for any chain of providers and whatever
\* each of them replies (the early returns of every handler).
THEOREM ToolsAnswerOnce == Spec => []AnsweredAtMostOnce
<1>1. Init => AnsweredAtMostOnce
  BY DEF Init, AnsweredAtMostOnce, Tools!Init, Tools!AnsweredAtMostOnce
<1>2. AnsweredAtMostOnce /\ [Next]_vars => AnsweredAtMostOnce'
  BY ToolsStep DEF AnsweredAtMostOnce, Next, vars, Tools!AnsweredAtMostOnce
<1> QED
  BY <1>1, <1>2, PTL DEF Spec

(***************************************************************************)
(* SpeechCatalog.                                                          *)
(***************************************************************************)
Workers == [Callers -> {"none", "calling", "answered", "failed"}]

\* What a caller's record may be in the invariant, for one that has begun.
Served(r) ==
  /\ r \in Speech!Request /\ r.at # "idle" /\ r.key \in Keys
  /\ r.catalog # nothing /\ r.purpose # "session" => r.catalog = r.key
  /\ r.offered \subseteq Llm
  /\ r.offered # {} => /\ r.offered \subseteq Speech!Speaks(r.key)
                       /\ r.hears # {} => r.offered \subseteq r.hears
  /\ r.voice # nothing => r.voice.language = r.language

LEMMA SpeechCallers ==
  Speech!Inv <=>
    /\ v1 \in [Keys -> Keys \cup {nothing}] /\ v2 \in Keys \cup {nothing} /\ v3 \in BOOLEAN
    /\ v5 \in Workers /\ v4 \in [Callers -> Speech!Request]
    /\ \A k \in Keys : v1[k] \in {k, nothing}
    /\ \A c \in Callers : v4[c] = Speech!Idle \/ Served(v4[c])
<1>1. ASSUME Speech!Inv
      PROVE  \A c \in Callers : v4[c] = Speech!Idle \/ Served(v4[c])
  BY <1>1 DEF Speech!Inv, Speech!TypeOK, Speech!Begins, Speech!CatalogsDoNotCollide,
     Speech!OfferCanBeServed, Served
<1>2. Speech!Inv => /\ v1 \in [Keys -> Keys \cup {nothing}] /\ v2 \in Keys \cup {nothing}
                    /\ v3 \in BOOLEAN /\ v5 \in Workers /\ v4 \in [Callers -> Speech!Request]
                    /\ \A k \in Keys : v1[k] \in {k, nothing}
  BY DEF Speech!Inv, Speech!TypeOK, Speech!CatalogsDoNotCollide, Workers
<1>3. ASSUME v1 \in [Keys -> Keys \cup {nothing}], v2 \in Keys \cup {nothing}, v3 \in BOOLEAN,
             v5 \in Workers, v4 \in [Callers -> Speech!Request],
             \A k \in Keys : v1[k] \in {k, nothing},
             \A c \in Callers : v4[c] = Speech!Idle \/ Served(v4[c])
      PROVE  Speech!Inv
  <2>1. Speech!TypeOK
    BY <1>3 DEF Speech!TypeOK, Workers
  <2>2. Speech!Begins
    BY <1>3 DEF Speech!Begins, Speech!Idle, Served
  <2>3. Speech!CatalogsDoNotCollide
    BY <1>3 DEF Speech!CatalogsDoNotCollide, Speech!Idle, Served
  <2>4. Speech!OfferCanBeServed
    BY <1>3 DEF Speech!OfferCanBeServed, Speech!Idle, Served
  <2> QED
    BY <2>1, <2>2, <2>3, <2>4 DEF Speech!Inv
<1> QED
  BY <1>1, <1>2, <1>3

LEMMA SpeechCallersNext ==
  ASSUME v1' \in [Keys -> Keys \cup {nothing}], v2' \in Keys \cup {nothing}, v3' \in BOOLEAN,
         v5' \in Workers, v4' \in [Callers -> Speech!Request],
         \A k \in Keys : v1'[k] \in {k, nothing},
         \A c \in Callers : v4'[c] = Speech!Idle \/ Served(v4'[c])
  PROVE  Speech!Inv'
<1>1. Speech!TypeOK'
  BY DEF Speech!TypeOK, Workers
<1>2. Speech!Begins'
  BY DEF Speech!Begins, Speech!Idle, Served
<1>3. Speech!CatalogsDoNotCollide'
  BY DEF Speech!CatalogsDoNotCollide, Speech!Idle, Served
<1>4. Speech!OfferCanBeServed'
  BY DEF Speech!OfferCanBeServed, Speech!Idle, Served
<1> QED
  BY <1>1, <1>2, <1>3, <1>4 DEF Speech!Inv

LEMMA SpeechInit == Speech!Init => Speech!Inv
<1> SUFFICES ASSUME Speech!Init PROVE Speech!Inv
  OBVIOUS
<1>1. Speech!Idle \in Speech!Request
  BY DEF Speech!Idle, Speech!Request, Speech!Purposes
<1> QED
  BY <1>1, SpeechCallers DEF Speech!Init, Workers

\* One caller goes on.
LEMMA CallerKeepsInv ==
  ASSUME Speech!Inv, NEW c \in Callers, NEW r, Served(r), v4' = [v4 EXCEPT ![c] = r],
         v1' \in [Keys -> Keys \cup {nothing}], \A k \in Keys : v1'[k] \in {k, nothing},
         v2' \in Keys \cup {nothing}, v3' \in BOOLEAN, v5' \in Workers
  PROVE  Speech!Inv'
<1>1. r \in Speech!Request
  BY DEF Served
<1>2. v4 \in [Callers -> Speech!Request] /\ \A d \in Callers : v4[d] = Speech!Idle \/ Served(v4[d])
  BY SpeechCallers
<1>3. v4' \in [Callers -> Speech!Request] /\ \A d \in Callers : v4'[d] = Speech!Idle \/ Served(v4'[d])
  BY <1>1, <1>2
<1> QED
  BY <1>3, SpeechCallersNext

\* A caller that has begun is at another stage, with the rest as it was.
LEMMA AnotherStage ==
  ASSUME NEW r, Served(r), NEW at \in {"waiting", "joining", "storing", "announcing", "listed", "done"}
  PROVE  Served([r EXCEPT !.at = at])
BY DEF Served, Speech!Request

LEMMA BeginsServed ==
  ASSUME NEW k \in Keys, NEW purpose \in Speech!Purposes, NEW language \in Langs,
         NEW at \in {"waiting", "listed"}, NEW catalog \in {k, nothing}
  PROVE  Served([Speech!Idle EXCEPT !.at = at, !.key = k, !.purpose = purpose,
                                    !.language = language, !.catalog = catalog])
BY DEF Served, Speech!Request, Speech!Idle

LEMMA HitOrMissKeepsInv ==
  ASSUME Speech!Inv, NEW c \in Callers, NEW k \in Keys, NEW purpose \in Speech!Purposes,
         NEW language \in Langs, Speech!Hit(c, k, purpose, language) \/ Speech!Miss(c, k, purpose, language)
  PROVE  Speech!Inv'
<1>1. /\ v1 \in [Keys -> Keys \cup {nothing}] /\ v2 \in Keys \cup {nothing} /\ v3 \in BOOLEAN
      /\ v5 \in Workers /\ \A j \in Keys : v1[j] \in {j, nothing}
  BY SpeechCallers
<1>2. CASE Speech!Hit(c, k, purpose, language)
  <2>1. v1[k] = k
    BY <1>1, <1>2 DEF Speech!Hit, Speech!CacheKey
  <2> QED
    BY <1>1, <1>2, <2>1, BeginsServed, CallerKeepsInv DEF Speech!Hit, Speech!Begun, Speech!CacheKey
<1>3. CASE Speech!Miss(c, k, purpose, language)
  <2>1. v5' \in Workers
    BY <1>1, <1>3 DEF Speech!Miss, Workers
  <2> QED
    BY <1>1, <1>3, <2>1, BeginsServed, CallerKeepsInv DEF Speech!Miss, Speech!Begun
<1> QED
  BY <1>2, <1>3

LEMMA WorkerKeepsInv ==
  ASSUME Speech!Inv, NEW c \in Callers, Speech!Answers(c) \/ Speech!Fails(c) PROVE Speech!Inv'
<1>1. UNCHANGED <<v1, v2, v3, v4>> /\ v5' \in Workers
  BY SpeechCallers DEF Speech!Answers, Speech!Fails, Workers
<1> QED
  BY <1>1, SpeechCallers, SpeechCallersNext

LEMMA ListingKeepsInv ==
  ASSUME Speech!Inv, NEW c \in Callers,
         \/ Speech!Take(c) \/ Speech!TimesOut(c) \/ Speech!Joined(c) \/ Speech!ReturnVoices(c)
         \/ Speech!Announce(c) \/ Speech!Store(c)
  PROVE  Speech!Inv'
<1>1. /\ v1 \in [Keys -> Keys \cup {nothing}] /\ v2 \in Keys \cup {nothing} /\ v3 \in BOOLEAN
      /\ v5 \in Workers /\ \A j \in Keys : v1[j] \in {j, nothing}
  BY SpeechCallers
<1>2. Served(v4[c])
  <2>1. v4[c].at # "idle"
    BY DEF Speech!Take, Speech!TimesOut, Speech!Joined, Speech!ReturnVoices, Speech!Announce, Speech!Store
  <2> QED
    BY <2>1, SpeechCallers DEF Speech!Idle
<1>3. CASE Speech!Store(c)
  <2> DEFINE r == [v4[c] EXCEPT !.at = "announcing", !.catalog = v4[c].key]
  <2>1. Served(r)
    BY <1>2 DEF Served, Speech!Request
  <2>2. v4' = [v4 EXCEPT ![c] = r]
    BY <1>3, SpeechCallers DEF Speech!Store
  <2>3. v1' = [v1 EXCEPT ![v4[c].key] = v4[c].key] /\ UNCHANGED <<v2, v3, v5>> /\ v4[c].key \in Keys
    BY <1>2, <1>3 DEF Speech!Store, Speech!CacheKey, Served
  <2>4. v1' \in [Keys -> Keys \cup {nothing}] /\ \A k \in Keys : v1'[k] \in {k, nothing}
    BY <1>1, <2>3
  <2> HIDE DEF r
  <2> QED
    BY <1>1, <2>1, <2>2, <2>3, <2>4, CallerKeepsInv
<1>4. CASE ~Speech!Store(c)
  <2>1. PICK at \in {"storing", "listed", "joining", "done"} : v4' = [v4 EXCEPT ![c].at = at]
    BY <1>4 DEF Speech!Take, Speech!TimesOut, Speech!Joined, Speech!ReturnVoices, Speech!Announce
  <2>2. v1' = v1 /\ v3' = v3 /\ v5' = v5 /\ v2' \in {v2, v4[c].key}
    BY <1>4 DEF Speech!Take, Speech!TimesOut, Speech!Joined, Speech!ReturnVoices, Speech!Announce
  <2>3. v2' \in Keys \cup {nothing}
    BY <1>1, <1>2, <2>2 DEF Served
  <2>4. Served([v4[c] EXCEPT !.at = at])
    BY <1>2, AnotherStage
  <2> QED
    BY <1>1, <2>1, <2>2, <2>3, <2>4, CallerKeepsInv
<1> QED
  BY <1>3, <1>4

LEMMA PrewarmAsrTypes ==
  ASSUME v3 \in BOOLEAN, NEW hears, Speech!PrewarmAsr(hears) PROVE v3' \in BOOLEAN
BY DEF Speech!PrewarmAsr

LEMMA ReturnLanguagesKeepsInv ==
  ASSUME Speech!Inv, NEW c \in Callers, Speech!ReturnLanguages(c) PROVE Speech!Inv'
<1>1. PICK hears \in {AsrLists, {}} :
        /\ Speech!PrewarmAsr(hears)
        /\ v4' = [v4 EXCEPT ![c].at = "done", ![c].hears = hears,
                    ![c].offered = Speech!Intersect(v4[c].catalog, hears)]
  BY DEF Speech!ReturnLanguages
<1>2. /\ v4[c].at = "listed" /\ v4[c].purpose = "languages" /\ UNCHANGED <<v1, v2, v5>>
  BY DEF Speech!ReturnLanguages
<1>3. Served(v4[c])
  BY <1>2, SpeechCallers DEF Speech!Idle
<1> DEFINE offered == Speech!Intersect(v4[c].catalog, hears)
           r == [v4[c] EXCEPT !.at = "done", !.hears = hears, !.offered = offered]
<1>4. /\ offered \subseteq Llm
      /\ hears # {} => offered \subseteq hears
      /\ offered \subseteq Speech!Speaks(v4[c].key)
  BY <1>2, <1>3 DEF Served, Speech!Intersect
<1>5. v4' = [v4 EXCEPT ![c] = r]
  BY <1>1, SpeechCallers
<1> HIDE DEF offered
<1>6. Served(r)
  <2>1. v4[c] \in Speech!Request /\ offered \in SUBSET Langs
    BY <1>3, <1>4, SpeechAssumption DEF Speech!LanguagesAssumption, Served
  <2>2. r \in Speech!Request
    BY <2>1 DEF Speech!Request
  <2>3. /\ r.at = "done" /\ r.hears = hears /\ r.offered = offered /\ r.key = v4[c].key
        /\ r.catalog = v4[c].catalog /\ r.purpose = v4[c].purpose /\ r.voice = v4[c].voice
        /\ r.language = v4[c].language
    BY <2>1 DEF Speech!Request
  <2> HIDE DEF r
  <2> QED
    BY <1>3, <1>4, <2>2, <2>3 DEF Served
<1>7. v3' \in BOOLEAN
  BY <1>1, SpeechCallers, PrewarmAsrTypes
<1> HIDE DEF r
<1> QED
  BY <1>2, <1>5, <1>6, <1>7, SpeechCallers, CallerKeepsInv

LEMMA StartSessionKeepsInv ==
  ASSUME Speech!Inv, NEW c \in Callers, Speech!StartSession(c) PROVE Speech!Inv'
<1> DEFINE catalog == Speech!CatalogFor(v4[c].key)
<1>1. PICK v \in Speech!SessionVoices(c) :
        v4' = [v4 EXCEPT ![c].at = "done", ![c].voice = v, ![c].catalog = catalog]
  BY DEF Speech!StartSession
<1>2. v4[c].at = "listed" /\ v4[c].purpose = "session" /\ UNCHANGED <<v1, v2, v5>>
  BY DEF Speech!StartSession
<1>3. Served(v4[c])
  BY <1>2, SpeechCallers DEF Speech!Idle
<1>4. catalog \in Keys \cup {nothing}
  BY <1>3, SpeechCallers DEF Speech!CatalogFor, Speech!CacheKey, Served
<1>5. /\ v \in (UNION {Speech!VoicesOf(k) : k \in Keys}) \cup {nothing}
      /\ v # nothing => v.language = v4[c].language
  BY <1>4 DEF Speech!SessionVoices, Speech!VoiceIn
<1> DEFINE r == [v4[c] EXCEPT !.at = "done", !.voice = v, !.catalog = catalog]
<1>6. v4' = [v4 EXCEPT ![c] = r]
  BY <1>1, SpeechCallers
<1> HIDE DEF catalog
<1>7. Served(r)
  BY <1>2, <1>3, <1>4, <1>5 DEF Served, Speech!Request
<1>8. v3' \in BOOLEAN
  BY SpeechCallers, PrewarmAsrTypes DEF Speech!StartSession
<1> HIDE DEF r
<1> QED
  BY <1>2, <1>6, <1>7, <1>8, SpeechCallers, CallerKeepsInv

LEMMA SpeechStep == Speech!Inv /\ Speech!Next => Speech!Inv'
BY HitOrMissKeepsInv, WorkerKeepsInv, ListingKeepsInv, ReturnLanguagesKeepsInv, StartSessionKeepsInv
   DEF Speech!Next, Speech!Caller

\* A language on offer is spoken, answered and, where that could be learnt,
\* heard, a voice speaks the language of its session, and no catalog takes the
\* place of another, for any catalogs and callers (prewarm_tts,
\* intersect_session_languages, resolve_voice_for_language).
THEOREM OffersCanBeServed == Spec => []OffersServed
<1> DEFINE Safe == component = "speech" => Speech!Inv
<1>1. Init => Safe
  BY SpeechInit DEF Init
<1>2. Safe /\ [Next]_vars => Safe'
  <2> SUFFICES ASSUME Safe, [Next]_vars, component' = "speech" PROVE Speech!Inv'
    OBVIOUS
  <2>1. CASE component = "speech" /\ Speech!Next
    BY <2>1, SpeechStep
  <2>2. CASE component = "speech" /\ UNCHANGED vars
    BY <2>2, SpeechCallers, SpeechCallersNext DEF vars
  <2> QED
    BY <2>1, <2>2 DEF Next, vars
<1>3. Safe => OffersServed
  BY DEF OffersServed, Speech!Inv
<1> QED
  BY <1>1, <1>2, <1>3, PTL DEF Spec

(***************************************************************************)
(* SessionConfig.                                                          *)
(***************************************************************************)
Settings == [thinking : BOOLEAN, max : Int, budget : Int]
Fits(s) ==
  /\ s.thinking <=> s.budget # Config!Unset
  /\ s.thinking => /\ s.budget \in Profile.min..Profile.top
                   /\ s.max # Config!Unset => s.budget + Profile.reserve <= s.max

\* apply_service_settings: whatever a client sends, the budget fits.
LEMMA AppliedFits ==
  ASSUME NEW values \in Config!Values
  PROVE  Config!Applied(values) \in Settings /\ Fits(Config!Applied(values))
<1> USE ConfigAssumption DEF Config!ProfileAssumption, Config!Unset
<1> DEFINE thinking == IF values.thinking = "default" THEN Profile.thinking ELSE values.thinking = "on"
           budget == Config!Coerce(values.budget, Profile.min, Profile.top, Profile.budget)
           max == Config!Coerce(values.max, 1, MaxTokens, Config!Unset)
<1>1. thinking \in BOOLEAN
  OBVIOUS
<1>2. values.budget \in Int /\ values.max \in Int
  <2>1. ClientNumbers \cup {-1} \subseteq Int
    OBVIOUS
  <2>2. values.budget \in ClientNumbers \cup {-1} /\ values.max \in ClientNumbers \cup {-1}
    BY DEF Config!Values
  <2> QED
    BY <2>1, <2>2
<1>3. budget \in Profile.min..Profile.top
  BY <1>2 DEF Config!Coerce
<1>4. max \in Int
  BY <1>2 DEF Config!Coerce
<1>5. Config!Applied(values) = Config!Capped(thinking, budget, max)
  BY DEF Config!Applied
<1> HIDE DEF thinking, budget, max
<1>6. /\ Config!Capped(thinking, budget, max) \in Settings
      /\ Fits(Config!Capped(thinking, budget, max))
  <2> DEFINE cap == max - Profile.reserve
             fits == max = -1 \/ budget <= cap
             on == thinking /\ (fits \/ cap >= Profile.min)
             sent == IF ~on THEN -1 ELSE IF fits THEN budget ELSE cap
  <2>1. Config!Capped(thinking, budget, max) = [thinking |-> on, max |-> max, budget |-> sent]
    BY DEF Config!Capped
  <2>2. cap \in Int /\ sent \in Int /\ on \in BOOLEAN
    BY <1>1, <1>3, <1>4
  <2>3. on => /\ sent \in Profile.min..Profile.top
              /\ max # -1 => sent + Profile.reserve <= max
    BY <1>3, <1>4
  <2>4. ~on => sent = -1
    OBVIOUS
  <2> HIDE DEF on, sent, cap, fits
  <2>5. on => sent # -1
    BY <2>3
  <2> QED
    BY <1>4, <2>1, <2>2, <2>3, <2>4, <2>5 DEF Settings, Fits
<1> QED
  BY <1>5, <1>6

\* What the invariant says, one part at a time.
LEMMA ConfigParts ==
  Config!Inv <=>
    /\ v1 \subseteq Config!Endpoints /\ v2 \in BOOLEAN /\ v4 \in -2..Len(SlotOrder)
    /\ v3 \in Config!Body /\ Fits(v3.settings)
    /\ IF v4 = -1 THEN v3 = Config!NoBody ELSE v3.example \in DOMAIN Examples
    /\ Config!FoundAsNow /\ Config!KeptForSeveral
BY DEF Config!Inv, Config!TypeOK, Config!BudgetFits, Fits

LEMMA ConfigPartsNext ==
  ASSUME v1' \subseteq Config!Endpoints, v2' \in BOOLEAN, v4' \in -2..Len(SlotOrder),
         v3' \in Config!Body, Fits(v3'.settings),
         IF v4' = -1 THEN v3' = Config!NoBody ELSE v3'.example \in DOMAIN Examples,
         Config!FoundAsNow', Config!KeptForSeveral'
  PROVE  Config!Inv'
BY DEF Config!Inv, Config!TypeOK, Config!BudgetFits, Fits

LEMMA OrderTypes ==
  /\ Len(SlotOrder) \in Nat /\ DOMAIN SlotOrder = 1..Len(SlotOrder)
  /\ \A i \in 1..Len(SlotOrder) : SlotOrder[i] \in Config!Slots
BY ConfigAssumption DEF Config!CatalogAssumption, Config!Slots

LEMMA NoBodyTypes == Config!NoBody \in Config!Body /\ Fits(Config!NoBody.settings)
BY DEF Config!NoBody, Config!Body, Config!Absent, Config!Pick, Config!Unset, Fits

LEMMA ConfigInit == Config!Init => Config!Inv
<1> SUFFICES ASSUME Config!Init PROVE Config!Inv
  OBVIOUS
<1>1. v4 = -1 /\ v3 = Config!NoBody /\ v2 = TRUE /\ v1 \subseteq Config!Endpoints
  BY DEF Config!Init
<1>2. Config!FoundAsNow /\ Config!KeptForSeveral
  BY <1>1 DEF Config!FoundAsNow, Config!KeptForSeveral
<1> QED
  BY <1>1, <1>2, NoBodyTypes, OrderTypes, ConfigParts

LEMMA ProbeKeepsInv ==
  ASSUME Config!Inv, NEW e \in Config!Endpoints, Config!ProbeAgain(e) PROVE Config!Inv'
<1>1. UNCHANGED <<v3, v4>> /\ v2' = (v2 /\ v4 = -1) /\ v1' \subseteq Config!Endpoints /\ v2' \in BOOLEAN
  BY ConfigParts DEF Config!ProbeAgain
<1>2. Config!FoundAsNow'
  BY <1>1 DEF Config!FoundAsNow
<1>3. Config!KeptForSeveral'
  <2>1. v4 = -2 /\ v3.prompt = "several" => v3.asked
    BY DEF Config!Inv, Config!KeptForSeveral
  <2>2. v4 = -2 => ~v2'
    <3>1. v4 = -2 => ~(v4 = -1)
      OBVIOUS
    <3> QED
      BY <1>1, <3>1, Zenon
  <2> QED
    BY <1>1, <2>1, <2>2 DEF Config!KeptForSeveral
<1> QED
  BY <1>1, <1>2, <1>3, ConfigParts, ConfigPartsNext

LEMMA FindTypes == \A key : Config!Find(key) \in DOMAIN Examples
BY ConfigAssumption DEF Config!CatalogAssumption, Config!Find

LEMMA PickTypes ==
  ASSUME NEW picks \in Config!Picks PROVE \A s \in Config!Slots : picks[s] \in Config!Pick
<1> SUFFICES ASSUME NEW s \in Config!Slots PROVE picks[s] \in Config!Pick
  OBVIOUS
<1>1. picks[s] \in Config!PicksOf(s)
  BY DEF Config!Picks
<1>2. Catalog \subseteq [section : STRING, slot : STRING, key : STRING, endpoint : STRING,
                         diarizes : BOOLEAN, streams : BOOLEAN, cloud : BOOLEAN]
  BY ConfigAssumption DEF Config!CatalogAssumption
<1> QED
  BY <1>1, <1>2 DEF Config!PicksOf, Config!Own, Config!Absent, Config!Pick

LEMMA PostKeepsInv ==
  ASSUME Config!Inv, v4 = -1, NEW key, NEW picks \in Config!Picks, NEW prompt \in {"plain", "several"},
         NEW asked \in BOOLEAN, NEW streaming \in BOOLEAN,
         Config!Post(key, picks, prompt, asked, streaming)
  PROVE  Config!Inv'
<1> DEFINE ex == Config!Find(key)
           chosen == [s \in Config!Slots |-> IF s \in Examples[ex].slots THEN picks[s] ELSE Config!Absent]
           ask == IF "labels" \in Examples[ex].capabilities THEN asked ELSE Diarize
<1>1. /\ v4' = 0 /\ v2' = TRUE /\ v1' = v1
      /\ v3' = [Config!NoBody EXCEPT !.example = ex, !.prompt = prompt, !.streaming = streaming,
                                     !.picks = chosen, !.asked = ask]
  BY DEF Config!Post
<1>2. ex \in DOMAIN Examples
  BY FindTypes
<1>3. chosen \in [Config!Slots -> Config!Pick]
  BY PickTypes DEF Config!Absent, Config!Pick
<1>4. ask \in BOOLEAN
  BY ConfigAssumption DEF Config!ProfileAssumption
<1> HIDE DEF ex, chosen, ask
<1>5. v3' \in Config!Body
  BY <1>1, <1>2, <1>3, <1>4, NoBodyTypes DEF Config!Body
<1>6. /\ v3'.example = ex /\ v3'.settings = Config!NoBody.settings /\ v3'.supported = FALSE
      /\ v3'.from = [s \in Config!Slots |-> nothing]
  BY <1>1 DEF Config!NoBody
<1>7. 0 \in -2..Len(SlotOrder)
  BY OrderTypes
<1>8. ~Config!LookedUp("asr")'
  BY <1>1, OrderTypes DEF Config!LookedUp
<1>9. Config!FoundAsNow'
  BY <1>6, <1>8 DEF Config!FoundAsNow
<1>10. Config!KeptForSeveral'
  BY <1>1 DEF Config!KeptForSeveral
<1> QED
  BY <1>1, <1>2, <1>5, <1>6, <1>7, <1>9, <1>10, NoBodyTypes, ConfigParts, ConfigPartsNext

\* What is found of a selection comes from the section that is read, or is a
\* cloud variant.
Found == {e.section : e \in Catalog} \cup {"cloud", nothing}
LEMMA EntryFrom ==
  ASSUME NEW ex, NEW slot, NEW pick, NEW e \in Config!EntryById(ex, slot, pick)
  PROVE  /\ e.section \in {"cloud", Config!Best(ex)} /\ e.section \in Found
         /\ e.diarizes \in BOOLEAN /\ e.streams \in BOOLEAN
<1>1. Catalog \subseteq [section : STRING, slot : STRING, key : STRING, endpoint : STRING,
                         diarizes : BOOLEAN, streams : BOOLEAN, cloud : BOOLEAN]
  BY ConfigAssumption DEF Config!CatalogAssumption
<1>2. e \in Config!Detect(ex) \/ e \in Config!CloudCatalog(ex)
  BY DEF Config!EntryById, Config!Source
<1>3. CASE e \in Config!Detect(ex)
  <2>1. e \in Config!Selected(Config!Best(ex), ex)
    BY <1>3 DEF Config!Detect
  <2> QED
    BY <1>1, <2>1 DEF Config!Selected, Found
<1>4. CASE e \in Config!CloudCatalog(ex)
  <2>1. PICK f \in Catalog : e = [f EXCEPT !.section = "cloud", !.endpoint = "nvcf"]
    BY <1>4 DEF Config!CloudCatalog, Config!Selected
  <2>2. f \in [section : STRING, slot : STRING, key : STRING, endpoint : STRING,
               diarizes : BOOLEAN, streams : BOOLEAN, cloud : BOOLEAN]
    BY <1>1
  <2>3. e.section = "cloud" /\ e.diarizes = f.diarizes /\ e.streams = f.streams
    BY <2>1, <2>2
  <2>4. f.diarizes \in BOOLEAN /\ f.streams \in BOOLEAN
    BY <2>2
  <2>5. e.diarizes \in BOOLEAN /\ e.streams \in BOOLEAN
    BY <2>3, <2>4, Zenon
  <2>6. e.section \in {"cloud", Config!Best(ex)} /\ e.section \in Found
    BY <2>3 DEF Found
  <2> QED
    BY <2>5, <2>6, Zenon
<1> QED
  BY <1>2, <1>3, <1>4

\* A slot and an id name one entry, as far as diarization goes.
LEMMA EntriesAgree ==
  ASSUME NEW ex, NEW slot, NEW pick, NEW e \in Config!EntryById(ex, slot, pick),
         NEW f \in Config!EntryById(ex, slot, pick)
  PROVE  e.diarizes = f.diarizes
<1>1. Catalog \subseteq [section : STRING, slot : STRING, key : STRING, endpoint : STRING,
                         diarizes : BOOLEAN, streams : BOOLEAN, cloud : BOOLEAN]
  BY ConfigAssumption DEF Config!CatalogAssumption
<1>2. \A g, h \in Catalog : g.section = h.section /\ g.slot = h.slot /\ g.key = h.key => g = h
  BY ConfigAssumption DEF Config!CatalogAssumption
<1>3. e.slot = slot /\ f.slot = slot /\ e.key = pick.key /\ f.key = pick.key
  BY DEF Config!EntryById
<1>4. CASE pick.source = "self"
  <2>1. e \in Config!Selected(Config!Best(ex), ex) /\ f \in Config!Selected(Config!Best(ex), ex)
    BY <1>4 DEF Config!EntryById, Config!Source, Config!Detect
  <2> QED
    BY <1>2, <1>3, <2>1 DEF Config!Selected
<1>5. CASE pick.source # "self"
  <2>1. e \in Config!CloudCatalog(ex) /\ f \in Config!CloudCatalog(ex)
    BY <1>5 DEF Config!EntryById, Config!Source
  <2>2. PICK g \in Catalog : g.section = Sections[1] /\ e = [g EXCEPT !.section = "cloud", !.endpoint = "nvcf"]
    BY <2>1 DEF Config!CloudCatalog, Config!Selected
  <2>3. PICK h \in Catalog : h.section = Sections[1] /\ f = [h EXCEPT !.section = "cloud", !.endpoint = "nvcf"]
    BY <2>1 DEF Config!CloudCatalog, Config!Selected
  <2>4. g.slot = e.slot /\ g.key = e.key /\ g.diarizes = e.diarizes
    BY <1>1, <2>2
  <2>5. h.slot = f.slot /\ h.key = f.key /\ h.diarizes = f.diarizes
    BY <1>1, <2>3
  <2> QED
    BY <1>2, <1>3, <2>2, <2>3, <2>4, <2>5
<1> QED
  BY <1>4, <1>5

\* One slot is hydrated: the catalog is read as it is now.
LEMMA HydrateKeepsInv ==
  ASSUME Config!Inv, NEW values \in Config!Values, Config!Hydrate(values) PROVE Config!Inv'
<1> DEFINE slot == SlotOrder[v4 + 1]
           ex == v3.example
           found == Config!EntryById(ex, slot, v3.picks[slot])
           now == Config!EntryById(ex, "asr", v3.picks["asr"])
<1>1. v4 \in 0..(Len(SlotOrder) - 1) /\ v4' = v4 + 1 /\ UNCHANGED <<v1, v2>>
  BY DEF Config!Hydrate
<1>2. /\ v4' \in -2..Len(SlotOrder) /\ v4' # -1 /\ v4' # -2 /\ v4 # -1 /\ v4 # -2
      /\ v4 + 1 \in 1..Len(SlotOrder)
  BY <1>1, OrderTypes
<1>3. slot \in Config!Slots /\ v3 \in Config!Body /\ Fits(v3.settings) /\ ex \in DOMAIN Examples
  BY <1>2, OrderTypes, ConfigParts
<1>4. \A s : Config!LookedUp(s)' <=> Config!LookedUp(s) \/ s = slot
  BY <1>1, <1>2, OrderTypes DEF Config!LookedUp
<1>5. "asr" \in Config!Slots
  BY ConfigAssumption DEF Config!CatalogAssumption
<1>6. CASE found = {}
  <2>1. v3' = v3
    BY <1>6 DEF Config!Hydrate
  <2>2. slot = "asr" => now = {}
    BY <1>6
  <2>3. Config!FoundAsNow'
    <3>1. Config!Best(ex)' = Config!Best(ex) /\ now' = now
      BY <1>1, <2>1 DEF Config!Best, Config!Count, Config!EntryById, Config!Source, Config!Detect
    <3> QED
      BY <1>1, <1>2, <1>4, <2>1, <2>2, <3>1 DEF Config!Inv, Config!FoundAsNow
  <2>4. Config!KeptForSeveral'
    BY <1>2 DEF Config!KeptForSeveral
  <2> QED
    BY <1>1, <1>2, <1>3, <2>1, <2>3, <2>4, ConfigParts, ConfigPartsNext
<1>7. CASE found # {}
  <2> DEFINE streams == v3.streaming /\ "streaming" \in Examples[ex].capabilities
  <2>1. PICK e \in found :
          v3' = [v3 EXCEPT !.from[slot] = e.section,
                           !.supported = IF slot = "asr" THEN e.diarizes ELSE @,
                           !.streaming = IF slot = "llm" THEN streams /\ e.streams ELSE @,
                           !.settings = IF slot = "llm" THEN Config!Applied(values) ELSE @]
    BY <1>7 DEF Config!Hydrate
  <2>2. /\ e.section \in {"cloud", Config!Best(ex)} /\ e.section \in Found
        /\ e.diarizes \in BOOLEAN /\ e.streams \in BOOLEAN
    BY EntryFrom
  <2>3. \A f \in found : f.diarizes = e.diarizes
    BY EntriesAgree
  <2> DEFINE from == [v3.from EXCEPT ![slot] = e.section]
             supported == IF slot = "asr" THEN e.diarizes ELSE v3.supported
             streaming == IF slot = "llm" THEN streams /\ e.streams ELSE v3.streaming
             settings == IF slot = "llm" THEN Config!Applied(values) ELSE v3.settings
  <2>4. /\ v3'.from = from /\ v3'.supported = supported /\ v3'.settings = settings
        /\ v3'.example = ex /\ v3'.picks = v3.picks
    BY <1>3, <2>1 DEF Config!Body
  <2>5. v3' \in Config!Body
    <3>1. from \in [Config!Slots -> Found]
      BY <1>3, <2>2 DEF Config!Body, Found
    <3>2. supported \in BOOLEAN /\ streaming \in BOOLEAN
      BY <1>3, <2>2 DEF Config!Body
    <3>3. settings \in Settings
      BY <1>3, AppliedFits DEF Config!Body, Settings
    <3>4. v3' = [v3 EXCEPT !.from = from, !.supported = supported, !.streaming = streaming,
                           !.settings = settings]
      BY <1>3, <2>1 DEF Config!Body
    <3> HIDE DEF from, supported, streaming, settings
    <3> QED
      BY <1>3, <3>1, <3>2, <3>3, <3>4 DEF Config!Body, Settings, Found
  <2>6. Fits(v3'.settings)
    BY <1>3, <2>4, AppliedFits
  <2>7. Config!FoundAsNow'
    <3>1. Config!Best(ex)' = Config!Best(ex) /\ now' = now
      BY <1>1, <2>4 DEF Config!Best, Config!Count, Config!EntryById, Config!Source, Config!Detect
    <3>2. v2 => \A s \in Config!Slots : v3'.from[s] \in {nothing, "cloud", Config!Best(ex)}
      BY <1>2, <1>3, <2>2, <2>4 DEF Config!Inv, Config!FoundAsNow, Config!Body
    <3>3. ASSUME v2 PROVE v3'.supported <=> Config!LookedUp("asr")' /\ \E f \in now : f.diarizes
      <4>1. CASE slot = "asr"
        BY <1>4, <2>1, <2>3, <2>4, <4>1
      <4>2. CASE slot # "asr"
        BY <1>2, <1>4, <2>4, <3>3, <4>2 DEF Config!Inv, Config!FoundAsNow
      <4> QED
        BY <4>1, <4>2
    <3> QED
      BY <1>1, <2>4, <3>1, <3>2, <3>3 DEF Config!FoundAsNow
  <2>8. Config!KeptForSeveral'
    BY <1>2 DEF Config!KeptForSeveral
  <2> QED
    BY <1>1, <1>2, <1>3, <2>4, <2>5, <2>6, <2>7, <2>8, ConfigParts, ConfigPartsNext
<1> QED
  BY <1>6, <1>7

LEMMA SanitizeKeepsInv == Config!Inv /\ Config!Sanitize => Config!Inv'
<1> SUFFICES ASSUME Config!Inv, Config!Sanitize PROVE Config!Inv'
  OBVIOUS
<1> DEFINE kept == IF v3.prompt = "several" /\ Config!NobodyToldApart(v3.example, Config!AsrDiarizes)
                   THEN "plain" ELSE v3.prompt
           now == Config!EntryById(v3.example, "asr", v3.picks["asr"])
<1>1. v4 = Len(SlotOrder) /\ v4' = -2 /\ UNCHANGED <<v1, v2>> /\ v3' = [v3 EXCEPT !.prompt = kept]
  BY DEF Config!Sanitize
<1>2. v3 \in Config!Body /\ Fits(v3.settings) /\ v4 # -1 /\ v4 # -2 /\ v3.example \in DOMAIN Examples
  BY <1>1, OrderTypes, ConfigParts
<1>3. kept \in {"plain", "several"}
  BY <1>2 DEF Config!Body
<1>4. kept = "several" => v3.asked /\ Config!AsrDiarizes
  BY DEF Config!NobodyToldApart
<1> HIDE DEF kept
<1>5. v3' \in Config!Body
  BY <1>1, <1>2, <1>3 DEF Config!Body
<1>6. /\ v3'.prompt = kept /\ v3'.example = v3.example /\ v3'.picks = v3.picks /\ v3'.from = v3.from
      /\ v3'.supported = v3.supported /\ v3'.asked = v3.asked /\ v3'.settings = v3.settings
  BY <1>1, <1>2 DEF Config!Body
<1>7. Config!LookedUp("asr") /\ Config!LookedUp("asr")'
  <2>1. "asr" \in Config!Slots
    BY ConfigAssumption DEF Config!CatalogAssumption
  <2> QED
    BY <1>1, <2>1, OrderTypes DEF Config!LookedUp, Config!Slots
<1>8. /\ Config!Best(v3.example)' = Config!Best(v3.example) /\ now' = now
      /\ Config!AsrDiarizes' = Config!AsrDiarizes
  BY <1>1, <1>6 DEF Config!Best, Config!Count, Config!EntryById, Config!Source, Config!Detect,
     Config!AsrDiarizes, Config!DefaultEntry
<1>9. Config!FoundAsNow'
  BY <1>1, <1>2, <1>6, <1>7, <1>8 DEF Config!Inv, Config!FoundAsNow
<1>10. Config!KeptForSeveral'
  BY <1>4, <1>6, <1>8 DEF Config!KeptForSeveral
<1>11. -2 \in -2..Len(SlotOrder)
  BY OrderTypes
<1> QED
  BY <1>1, <1>2, <1>5, <1>6, <1>9, <1>10, <1>11, ConfigParts, ConfigPartsNext

LEMMA TakenKeepsInv == Config!Inv /\ Config!Taken => Config!Inv'
<1> SUFFICES ASSUME Config!Inv, Config!Taken PROVE Config!Inv'
  OBVIOUS
<1>1. v4' = -1 /\ v3' = Config!NoBody /\ v2' = TRUE /\ v1' = v1
  BY DEF Config!Taken
<1>2. Config!FoundAsNow' /\ Config!KeptForSeveral'
  BY <1>1 DEF Config!FoundAsNow, Config!KeptForSeveral
<1> QED
  BY <1>1, <1>2, NoBodyTypes, OrderTypes, ConfigParts, ConfigPartsNext

LEMMA ConfigStep == Config!Inv /\ Config!Next => Config!Inv'
<1>1. \A slot : Config!ValuesFor(slot) \subseteq Config!Values
  BY DEF Config!ValuesFor
<1> QED
  BY <1>1, ProbeKeepsInv, PostKeepsInv, HydrateKeepsInv, SanitizeKeepsInv, TakenKeepsInv DEF Config!Next

\* The reads agree: what the invariant says of the sections and the ASR.
LEMMA ReadsAgree == Config!Inv => Config!SteadyReadsAgree
<1> SUFFICES ASSUME Config!Inv, v2
             PROVE  /\ \A s, t \in Config!Slots :
                         ({v3.from[s], v3.from[t]} \subseteq {Sections[i] : i \in DOMAIN Sections})
                           => v3.from[s] = v3.from[t]
                    /\ (v4 = -2 /\ v3.prompt = "several") =>
                         /\ v3.asked
                         /\ IF v3.picks["asr"] = Config!Absent THEN Config!AsrDiarizes ELSE v3.supported
  BY DEF Config!SteadyReadsAgree
<1>1. {nothing, "cloud"} \cap {Sections[i] : i \in DOMAIN Sections} = {}
  BY ConfigAssumption DEF Config!CatalogAssumption
<1>2. CASE v4 = -1
  <2>1. v3 = Config!NoBody
    BY <1>2 DEF Config!Inv
  <2> QED
    BY <1>1, <1>2, <2>1 DEF Config!NoBody
<1>3. CASE v4 # -1
  <2>1. \A s \in Config!Slots : v3.from[s] \in {nothing, "cloud", Config!Best(v3.example)}
    BY <1>3 DEF Config!Inv, Config!FoundAsNow
  <2>2. ASSUME v4 = -2, v3.prompt = "several"
        PROVE  v3.asked /\ IF v3.picks["asr"] = Config!Absent THEN Config!AsrDiarizes ELSE v3.supported
    <3>1. v3.asked /\ Config!AsrDiarizes
      BY <2>2 DEF Config!Inv, Config!KeptForSeveral
    <3>2. Config!LookedUp("asr")
      BY <2>2, ConfigAssumption DEF Config!CatalogAssumption, Config!LookedUp, Config!Slots
    <3>3. v3.picks["asr"] # Config!Absent =>
            \E e \in Config!EntryById(v3.example, "asr", v3.picks["asr"]) : e.diarizes
      BY <3>1 DEF Config!AsrDiarizes
    <3> QED
      BY <1>3, <3>1, <3>2, <3>3 DEF Config!Inv, Config!FoundAsNow
  <2> QED
    BY <1>1, <2>1, <2>2
<1> QED
  BY <1>2, <1>3

\* The reasoning budget fits in the tokens for any settings a client sends, and
\* while the probes stand still every reading of one body agrees, for any
\* catalogs and examples (apply_service_settings, _asr_supports_diarization).
THEOREM ConfigServed == Spec => []ConfigAsServed
<1> DEFINE Safe == component = "config" => Config!Inv
<1>1. Init => Safe
  BY ConfigInit DEF Init
<1>2. Safe /\ [Next]_vars => Safe'
  <2> SUFFICES ASSUME Safe, [Next]_vars, component' = "config" PROVE Config!Inv'
    OBVIOUS
  <2>1. CASE component = "config" /\ Config!Next
    BY <2>1, ConfigStep
  <2>2. CASE component = "config" /\ UNCHANGED vars
    <3>1. UNCHANGED <<v1, v2, v3, v4>> /\ Config!Inv
      BY <2>2 DEF vars
    <3>2. /\ Config!Best(v3.example)' = Config!Best(v3.example)
          /\ Config!EntryById(v3.example, "asr", v3.picks["asr"])' =
               Config!EntryById(v3.example, "asr", v3.picks["asr"])
          /\ Config!AsrDiarizes' = Config!AsrDiarizes
          /\ Config!LookedUp("asr")' = Config!LookedUp("asr")
      BY <3>1 DEF Config!Best, Config!Count, Config!EntryById, Config!Source, Config!Detect,
         Config!AsrDiarizes, Config!DefaultEntry, Config!LookedUp
    <3>3. Config!FoundAsNow' /\ Config!KeptForSeveral'
      BY <3>1, <3>2 DEF Config!Inv, Config!FoundAsNow, Config!KeptForSeveral
    <3> QED
      BY <3>1, <3>3, ConfigParts, ConfigPartsNext
  <2> QED
    BY <2>1, <2>2 DEF Next, vars
<1>3. Safe => ConfigAsServed
  BY ReadsAgree DEF ConfigAsServed, Config!Inv
<1> QED
  BY <1>1, <1>2, <1>3, PTL DEF Spec


(***************************************************************************)
(* FullDuplexClient.  First the chunks: what is left of them when they are *)
(* cut, where they are placed, and that both computations of their ends    *)
(* agree.                                                                  *)
(***************************************************************************)
LEMMA LeastNat ==
  ASSUME NEW T, T \subseteq Nat, T # {} PROVE \E x \in T : \A y \in T : x <= y
<1>1. \E x \in T : \A y \in T : ~ (<<y, x>> \in OpToRel(<,Nat))
  BY WFMin, NatLessThanWellFounded, Zenon
<1>2. PICK x \in T : \A y \in T : ~ (<<y, x>> \in OpToRel(<,Nat))
  BY <1>1
<1>3. \A y \in T : ~(y < x)
  BY <1>2 DEF OpToRel
<1> QED
  BY <1>3

LEMMA Highest ==
  ASSUME NEW n \in Nat, NEW g, \A k \in 1..n : g[k] \in Nat, n # 0
  PROVE  \E m \in 1..n : \A j \in 1..n : g[j] <= g[m]
<1> DEFINE T == {k \in 1..n : ~\E m \in 1..k : \A j \in 1..k : g[j] <= g[m]}
<1>0. n \in 1..n
  OBVIOUS
<1>1. SUFFICES ASSUME T # {} PROVE FALSE
  BY <1>0
<1>2. PICK k \in T : \A y \in T : k <= y
  <2>1. T \subseteq Nat
    OBVIOUS
  <2> QED
    BY <1>1, <2>1, LeastNat
<1>3. CASE k = 1
  <2>1. 1 \in 1..1 /\ \A j \in 1..1 : g[j] <= g[1]
    OBVIOUS
  <2> QED
    BY <1>2, <1>3, <2>1
<1>4. CASE k # 1
  <2>a. k \in 1..n /\ k - 1 \in Nat /\ ~(k <= k - 1)
    BY <1>2
  <2>1. k \in 2..n /\ k - 1 \in 1..n /\ k - 1 \notin T
    <3>1. k \in 2..n /\ k - 1 \in 1..n
      BY <1>4, <2>a
    <3>2. k - 1 \notin T
      BY <1>2, <2>a
    <3> QED
      BY <3>1, <3>2
  <2>2. PICK m \in 1..(k - 1) : \A j \in 1..(k - 1) : g[j] <= g[m]
    BY <2>1
  <2>3. g[k] \in Nat /\ g[m] \in Nat /\ m \in 1..k /\ k \in 1..k
    BY <2>1, <2>2
  <2>4. ASSUME NEW j \in 1..k PROVE g[j] <= g[IF g[k] <= g[m] THEN m ELSE k]
    <3>1. CASE j = k
      BY <2>3, <3>1
    <3>2. CASE j # k
      <4>1. g[j] \in Nat /\ g[j] <= g[m]
        BY <2>1, <2>2, <3>2
      <4> QED
        BY <2>3, <4>1
    <3> QED
      BY <3>1, <3>2
  <2>5. (IF g[k] <= g[m] THEN m ELSE k) \in 1..k
    BY <2>3
  <2> QED
    BY <1>2, <2>4, <2>5
<1> QED
  BY <1>3, <1>4

LEMMA MaxIs ==
  ASSUME NEW S, S \subseteq Int, NEW m \in S, \A y \in S : y <= m PROVE Duplex!Max(S) = m
<1>1. \A x \in S : (\A y \in S : x >= y) => x = m
  <2> SUFFICES ASSUME NEW x \in S, \A y \in S : x >= y PROVE x = m
    OBVIOUS
  <2>1. x >= m /\ x <= m /\ x \in Int /\ m \in Int
    OBVIOUS
  <2> QED
    BY <2>1
<1>2. m \in S /\ \A y \in S : m >= y
  OBVIOUS
<1> QED
  BY <1>1, <1>2 DEF Duplex!Max

LEMMA MinIs ==
  ASSUME NEW S, S \subseteq Nat, S # {} PROVE Duplex!Min(S) \in S /\ \A y \in S : Duplex!Min(S) <= y
BY LeastNat DEF Duplex!Min

\* What is left of a chunk that is cut off at t.
LEMMA KeptIs ==
  ASSUME NEW c \in Duplex!Chunk, NEW t \in Nat
  PROVE  /\ Duplex!Kept(c, t) \in 0..c.length
         /\ Duplex!Kept(c, t) = c.length => Duplex!End(c) <= t
         /\ Duplex!Kept(c, t) > 0 => c.at + Duplex!Kept(c, t) <= t
<1>1. c.at \in Nat /\ c.length \in Nat \ {0}
  BY DEF Duplex!Chunk
<1> DEFINE d == t - c.at
           m == IF d > 0 THEN d ELSE 0
<1>2. d \in Int /\ m \in Nat /\ m \in {0, d} /\ 0 <= m /\ d <= m
  BY <1>1
<1>3. Duplex!Max({0, d}) = m
  <2>1. {0, d} \subseteq Int /\ \A y \in {0, d} : y <= m
    BY <1>2
  <2> QED
    BY <1>2, <2>1, MaxIs
<1>4. Duplex!Min({c.length, m}) \in {c.length, m} /\ Duplex!Min({c.length, m}) <= c.length
      /\ Duplex!Min({c.length, m}) <= m
  BY <1>1, <1>2, MinIs
<1>5. Duplex!Kept(c, t) = Duplex!Min({c.length, m})
  BY <1>3 DEF Duplex!Kept
<1> QED
  BY <1>1, <1>2, <1>4, <1>5 DEF Duplex!End

\* What an interruption at t leaves ends by then, and no later than it did.
LEMMA TruncateIs ==
  ASSUME NEW s \in Seq(Duplex!Chunk), NEW t \in Nat, NEW w, w = Duplex!Truncate(s, t)
  PROVE  /\ w \in Seq(Duplex!Chunk) /\ Len(w) <= Len(s)
         /\ \A k \in 1..Len(w) : /\ w[k].at = s[k].at /\ w[k].of = s[k].of
                                 /\ Duplex!End(w[k]) <= t /\ Duplex!End(w[k]) <= Duplex!End(s[k])
<1> DEFINE cut == {i \in DOMAIN s : Duplex!Kept(s[i], t) < s[i].length}
           j == Duplex!Min(cut)
           n == Duplex!Kept(s[j], t)
<1>1. Len(s) \in Nat /\ DOMAIN s = 1..Len(s) /\ \A k \in 1..Len(s) : s[k] \in Duplex!Chunk
  OBVIOUS
<1>2. ASSUME NEW c \in Duplex!Chunk PROVE Duplex!End(c) \in Nat /\ c.length \in Nat \ {0} /\ c.at \in Nat
  BY DEF Duplex!Chunk, Duplex!End
<1>3. ASSUME NEW k \in 1..Len(s), k \notin cut PROVE Duplex!End(s[k]) <= t
  <2>1. s[k] \in Duplex!Chunk /\ ~(Duplex!Kept(s[k], t) < s[k].length)
    BY <1>1, <1>3
  <2>2. Duplex!Kept(s[k], t) \in 0..s[k].length /\ s[k].length \in Nat
    BY <1>2, <2>1, KeptIs
  <2>3. Duplex!Kept(s[k], t) = s[k].length
    BY <2>1, <2>2
  <2> QED
    BY <2>1, <2>3, KeptIs
<1>4. w = IF cut = {} THEN s ELSE SubSeq(s, 1, j - 1) \o IF n = 0 THEN <<>> ELSE <<[s[j] EXCEPT !.length = n]>>
  BY DEF Duplex!Truncate
<1>5. CASE cut = {}
  <2>1. w = s
    BY <1>4, <1>5
  <2>2. \A k \in 1..Len(s) : Duplex!End(s[k]) <= t /\ Duplex!End(s[k]) <= Duplex!End(s[k])
    BY <1>1, <1>2, <1>3, <1>5
  <2> QED
    BY <1>1, <2>1, <2>2
<1>6. CASE cut # {}
  <2>1. j \in cut /\ \A y \in cut : j <= y
    <3>1. cut \subseteq Nat
      BY <1>1
    <3> QED
      BY <1>6, <3>1, MinIs
  <2>2. j \in 1..Len(s) /\ s[j] \in Duplex!Chunk
    BY <1>1, <2>1
  <2>3. n \in Nat /\ n < s[j].length /\ (n > 0 => s[j].at + n <= t)
    BY <1>2, <2>1, <2>2, KeptIs
  <2> HIDE DEF cut, j, n
  <2> DEFINE p == SubSeq(s, 1, j - 1)
  <2>4. p \in Seq(Duplex!Chunk) /\ Len(p) = j - 1 /\ \A k \in 1..(j - 1) : p[k] = s[k]
    <3>1. \A i \in 1..(j - 1) : s[i] \in Duplex!Chunk
      BY <1>1, <2>2
    <3>2. j - 1 \in Int /\ 1 \in Int /\ (1 <= j - 1 \/ j - 1 = 0)
      BY <2>2
    <3>3. /\ p \in Seq(Duplex!Chunk) /\ Len(p) = IF 1 <= j - 1 THEN j - 1 - 1 + 1 ELSE 0
          /\ \A i \in 1..(j - 1 - 1 + 1) : p[i] = s[1 + i - 1]
      BY <3>1, <3>2, SubSeqProperties
    <3> HIDE DEF p
    <3>4. j - 1 - 1 + 1 = j - 1 /\ \A i \in 1..(j - 1) : 1 + i - 1 = i
      BY <2>2
    <3> QED
      BY <3>2, <3>3, <3>4
  <2> HIDE DEF p
  <2>5. \A k \in 1..(j - 1) : Duplex!End(s[k]) <= t /\ Duplex!End(s[k]) \in Nat
    <3> SUFFICES ASSUME NEW k \in 1..(j - 1) PROVE Duplex!End(s[k]) <= t /\ Duplex!End(s[k]) \in Nat
      OBVIOUS
    <3>1. k \in 1..Len(s) /\ k < j /\ j \in Nat
      BY <1>1, <2>2
    <3>2. k \notin cut
      BY <2>1, <3>1
    <3> QED
      BY <1>1, <1>2, <1>3, <3>1, <3>2
  <2>6. CASE n = 0
    <3>1. w = p
      BY <1>4, <1>6, <2>4, <2>6, ConcatEmptySeq DEF p
    <3> QED
      BY <1>1, <2>2, <2>4, <2>5, <3>1
  <2>7. CASE n # 0
    <3> DEFINE x == [s[j] EXCEPT !.length = n]
    <3>1. x \in Duplex!Chunk /\ x.at = s[j].at /\ x.of = s[j].of /\ x.length = n
      BY <2>2, <2>3, <2>7 DEF Duplex!Chunk
    <3> HIDE DEF x
    <3>2. w = Append(p, x)
      <4>1. w = p \o <<x>>
        BY <1>4, <1>6, <2>7 DEF p, x
      <4> QED
        BY <2>4, <3>1, <4>1
    <3>3. w \in Seq(Duplex!Chunk) /\ Len(w) = j /\ w[j] = x /\ \A k \in 1..(j - 1) : w[k] = p[k]
      BY <2>2, <2>4, <3>1, <3>2
    <3>4. Duplex!End(x) <= t /\ Duplex!End(x) <= Duplex!End(s[j])
      BY <1>2, <2>2, <2>3, <2>7, <3>1 DEF Duplex!End
    <3>5. ASSUME NEW k \in 1..Len(w)
          PROVE  /\ w[k].at = s[k].at /\ w[k].of = s[k].of
                 /\ Duplex!End(w[k]) <= t /\ Duplex!End(w[k]) <= Duplex!End(s[k])
      <4>1. CASE k = j
        BY <3>1, <3>3, <3>4, <4>1
      <4>2. CASE k # j
        <5>1. k \in 1..(j - 1) /\ w[k] = s[k]
          BY <2>2, <2>4, <3>3, <4>2
        <5> QED
          BY <2>5, <5>1
      <4> QED
        BY <4>1, <4>2
    <3> QED
      BY <2>2, <3>3, <3>5
  <2> QED
    BY <2>6, <2>7
<1> QED
  BY <1>5, <1>6

\* Where each chunk ends, as _packed_output_end computes it.
EndsOf(s, f, n) == f = [k \in 0..n |-> IF k = 0 THEN Duplex!Never ELSE Duplex!Start(s[k], f[k - 1]) + s[k].length]
LEMMA EndsExist ==
  ASSUME NEW s, NEW n \in Nat PROVE \E f : EndsOf(s, f, n)
<1> DEFINE T == {k \in Nat : ~\E f : EndsOf(s, f, k)}
<1>1. SUFFICES ASSUME T # {} PROVE FALSE
  OBVIOUS
<1>2. PICK k \in T : \A y \in T : k <= y
  BY <1>1, LeastNat
<1>3. CASE k = 0
  <2> DEFINE f == [i \in 0..0 |-> Duplex!Never]
  <2>1. f = [i \in 0..0 |-> IF i = 0 THEN Duplex!Never ELSE Duplex!Start(s[i], f[i - 1]) + s[i].length]
    OBVIOUS
  <2>2. EndsOf(s, f, 0)
    BY <2>1 DEF EndsOf
  <2> QED
    BY <1>2, <1>3, <2>2
<1>4. CASE k # 0
  <2>1. k \in Nat /\ k - 1 \in Nat /\ k - 1 \notin T
    BY <1>2, <1>4
  <2>2. PICK g : EndsOf(s, g, k - 1)
    BY <2>1
  <2> DEFINE f == [i \in 0..k |-> IF i = k THEN Duplex!Start(s[k], g[k - 1]) + s[k].length ELSE g[i]]
  <2>3. \A i \in 0..(k - 1) : g[i] = IF i = 0 THEN Duplex!Never ELSE Duplex!Start(s[i], g[i - 1]) + s[i].length
    BY <2>2 DEF EndsOf
  <2>4. ASSUME NEW i \in 0..k
        PROVE  f[i] = IF i = 0 THEN Duplex!Never ELSE Duplex!Start(s[i], f[i - 1]) + s[i].length
    <3>1. CASE i = k
      BY <1>4, <2>1, <3>1
    <3>2. CASE i # k
      <4>1. i \in 0..(k - 1) /\ f[i] = g[i]
        BY <2>1, <3>2
      <4>2. i # 0 => f[i - 1] = g[i - 1]
        BY <2>1, <4>1
      <4> QED
        BY <2>3, <4>1, <4>2
    <3> QED
      BY <3>1, <3>2
  <2>5. f = [i \in 0..k |-> f[i]]
    OBVIOUS
  <2> HIDE DEF f
  <2>6. EndsOf(s, f, k)
    BY <2>4, <2>5 DEF EndsOf
  <2> QED
    BY <1>2, <2>6
<1> QED
  BY <1>3, <1>4

LEMMA PackedIs ==
  ASSUME NEW s \in Seq(Duplex!Chunk)
  PROVE  \A k \in 0..Len(s) : Duplex!Packed(s)[k] =
           IF k = 0 THEN Duplex!Never ELSE Duplex!Start(s[k], Duplex!Packed(s)[k - 1]) + s[k].length
<1>1. \E f : EndsOf(s, f, Len(s))
  BY EndsExist
<1>2. Duplex!Packed(s) = CHOOSE f : EndsOf(s, f, Len(s))
  BY DEF Duplex!Packed, EndsOf
<1>3. EndsOf(s, Duplex!Packed(s), Len(s))
  BY <1>1, <1>2, Zenon
<1> QED
  BY <1>3 DEF EndsOf

\* A chunk begins no sooner than the one before it ends, and with its own time
\* or before.
LEMMA StartIs ==
  ASSUME NEW c \in Duplex!Chunk, NEW e \in Nat \cup {Duplex!Never}
  PROVE  /\ Duplex!Start(c, e) \in Nat /\ Duplex!Start(c, e) + c.length \in Nat /\ e <= Duplex!Start(c, e)
         /\ e <= c.at => Duplex!Start(c, e) <= c.at
<1>1. c.at \in Nat /\ c.length \in Nat \ {0} /\ (e \in Nat \/ e = -1) /\ Duplex!Never = -1
  BY DEF Duplex!Chunk, Duplex!Never
<1>2. CASE e # -1 /\ 2 * (c.at - e) <= 3 * c.length
  BY <1>1, <1>2 DEF Duplex!Start
<1>3. CASE e = -1
  BY <1>1, <1>3 DEF Duplex!Start
<1>4. CASE e # -1 /\ ~(2 * (c.at - e) <= 3 * c.length)
  <2>1. e < c.at
    BY <1>1, <1>4
  <2> QED
    BY <1>1, <1>4, <2>1 DEF Duplex!Start
<1> QED
  BY <1>2, <1>3, <1>4

LEMMA PackedTyped ==
  ASSUME NEW s \in Seq(Duplex!Chunk)
  PROVE  \A k \in 1..Len(s) : Duplex!Packed(s)[k] \in Nat
<1> DEFINE T == {k \in 1..Len(s) : Duplex!Packed(s)[k] \notin Nat}
<1>1. SUFFICES ASSUME T # {} PROVE FALSE
  OBVIOUS
<1>2. PICK k \in T : \A y \in T : k <= y
  <2>1. T \subseteq Nat
    OBVIOUS
  <2> QED
    BY <1>1, <2>1, LeastNat
<1>3. k \in 1..Len(s) /\ Len(s) \in Nat /\ s[k] \in Duplex!Chunk
  BY <1>2
<1>4. Duplex!Packed(s)[k - 1] \in Nat \cup {Duplex!Never}
  <2>1. CASE k = 1
    <3>1. Duplex!Packed(s)[0] = Duplex!Never
      BY <1>3, PackedIs
    <3> QED
      BY <2>1, <3>1
  <2>2. CASE k # 1
    <3>1. k - 1 \in 1..Len(s) /\ ~(k <= k - 1)
      BY <1>3, <2>2
    <3> QED
      BY <1>2, <3>1
  <2> QED
    BY <2>1, <2>2
<1>5. Duplex!Packed(s)[k] = Duplex!Start(s[k], Duplex!Packed(s)[k - 1]) + s[k].length
  BY <1>3, PackedIs
<1>6. Duplex!Packed(s)[k] \in Nat
  BY <1>3, <1>4, <1>5, StartIs
<1> QED
  BY <1>2, <1>6

LEMMA PackedEndIs ==
  ASSUME NEW s \in Seq(Duplex!Chunk)
  PROVE  Duplex!PackedEnd(s) \in Nat /\ \A k \in 1..Len(s) : Duplex!Packed(s)[k] <= Duplex!PackedEnd(s)
<1> DEFINE g == Duplex!Packed(s)
           S == {0} \cup {g[k] : k \in DOMAIN s}
<1>1. Len(s) \in Nat /\ DOMAIN s = 1..Len(s) /\ Duplex!PackedEnd(s) = Duplex!Max(S)
  BY DEF Duplex!PackedEnd
<1>2. \A k \in 1..Len(s) : g[k] \in Nat
  BY PackedTyped
<1> HIDE DEF g
<1>3. CASE Len(s) = 0
  <2>1. S = {0}
    BY <1>1, <1>3
  <2>a. {0} \subseteq Int /\ 0 \in {0} /\ \A y \in {0} : y <= 0
    OBVIOUS
  <2>b. Duplex!Max({0}) = 0
    BY <2>a, MaxIs
  <2>2. Duplex!Max(S) = 0
    BY <2>1, <2>b
  <2> QED
    BY <1>1, <1>3, <2>2
<1>4. CASE Len(s) # 0
  <2>1. PICK m \in 1..Len(s) : \A k \in 1..Len(s) : g[k] <= g[m]
    BY <1>1, <1>2, <1>4, Highest
  <2>2. S \subseteq Int /\ g[m] \in S /\ (\A y \in S : y <= g[m]) /\ g[m] \in Nat
    BY <1>1, <1>2, <2>1
  <2>3. Duplex!Max(S) = g[m]
    BY <2>2, MaxIs
  <2> QED
    BY <1>1, <2>1, <2>2, <2>3 DEF g
<1> QED
  BY <1>3, <1>4

LEMMA TargetIs ==
  ASSUME Duplex!LengthsAssumption, NEW s \in Seq(Duplex!Chunk)
  PROVE  /\ Duplex!Target(s) \in Nat
         /\ v1.late => \A k \in 1..Len(s) : Duplex!Packed(s)[k] <= Duplex!Target(s)
<1>1. Duration \in Nat /\ Len(s) \in Nat /\ DOMAIN s = 1..Len(s)
  BY DEF Duplex!LengthsAssumption
<1>2. CASE ~(v1.late /\ s # <<>>)
  BY <1>1, <1>2 DEF Duplex!Target
<1>3. CASE v1.late /\ s # <<>>
  <2> DEFINE g == [k \in 1..Len(s) |-> Duplex!End(s[k])]
             p == Duplex!PackedEnd(s)
             S == {Duration, p} \cup {Duplex!End(c) : c \in Duplex!ToSet(s)}
  <2>1. Duplex!Target(s) = Duplex!Max(S)
    BY <1>3 DEF Duplex!Target
  <2>2. p \in Nat /\ \A k \in 1..Len(s) : Duplex!Packed(s)[k] \in Nat /\ Duplex!Packed(s)[k] <= p
    BY PackedEndIs, PackedTyped
  <2>3. \A k \in 1..Len(s) : g[k] \in Nat
    <3>1. \A c \in Duplex!Chunk : Duplex!End(c) \in Nat
      BY DEF Duplex!Chunk, Duplex!End
    <3> QED
      BY <3>1
  <2>4. Len(s) # 0
    BY <1>3
  <2>5. S = {Duration, p} \cup {g[k] : k \in 1..Len(s)}
    BY <1>1 DEF Duplex!ToSet
  <2> HIDE DEF g, p, S
  <2>6. PICK m \in 1..Len(s) : \A k \in 1..Len(s) : g[k] <= g[m]
    BY <1>1, <2>3, <2>4, Highest
  <2> DEFINE h == IF p <= Duration THEN Duration ELSE p
             x == IF h <= g[m] THEN g[m] ELSE h
  <2>7. g[m] \in Nat /\ h \in Nat /\ h \in {Duration, p} /\ Duration <= h /\ p <= h
    BY <1>1, <2>2, <2>3, <2>6
  <2> HIDE DEF h
  <2>8. x \in Nat /\ x \in {h, g[m]} /\ h <= x /\ g[m] <= x
    BY <2>7
  <2> HIDE DEF x
  <2>9. S \subseteq Int /\ x \in S
    BY <1>1, <2>2, <2>3, <2>5, <2>6, <2>7, <2>8
  <2>10. ASSUME NEW y \in S PROVE y <= x
    <3>1. CASE y \in {Duration, p}
      BY <1>1, <2>2, <2>7, <2>8, <3>1
    <3>2. CASE y \in {g[k] : k \in 1..Len(s)}
      BY <2>3, <2>6, <2>7, <2>8, <3>2
    <3> QED
      BY <2>5, <2>10, <3>1, <3>2
  <2>11. Duplex!Target(s) = x
    BY <2>1, <2>9, <2>10, MaxIs
  <2> QED
    BY <2>2, <2>7, <2>8, <2>11
<1> QED
  BY <1>2, <1>3

\* What assemble_output places of the first chunks.
PlacesOf(s, t, f, n) ==
  f = [k \in 0..n |-> IF k = 0 THEN [expected |-> Duplex!Never, over |-> FALSE, out |-> <<>>]
                      ELSE Duplex!Place(f[k - 1], s[k], t)]
LEMMA PlacesExist ==
  ASSUME NEW s, NEW t, NEW n \in Nat PROVE \E f : PlacesOf(s, t, f, n)
<1> DEFINE T == {k \in Nat : ~\E f : PlacesOf(s, t, f, k)}
           none == [expected |-> Duplex!Never, over |-> FALSE, out |-> <<>>]
<1>1. SUFFICES ASSUME T # {} PROVE FALSE
  OBVIOUS
<1>2. PICK k \in T : \A y \in T : k <= y
  BY <1>1, LeastNat
<1>3. CASE k = 0
  <2> DEFINE f == [i \in 0..0 |-> none]
  <2> HIDE DEF none
  <2>1. f = [i \in 0..0 |-> IF i = 0 THEN none ELSE Duplex!Place(f[i - 1], s[i], t)]
    OBVIOUS
  <2>2. PlacesOf(s, t, f, 0)
    BY <2>1 DEF PlacesOf, none
  <2> QED
    BY <1>2, <1>3, <2>2
<1>4. CASE k # 0
  <2>1. k \in Nat /\ k - 1 \in Nat /\ k - 1 \notin T
    BY <1>2, <1>4
  <2>2. PICK g : PlacesOf(s, t, g, k - 1)
    BY <2>1
  <2> DEFINE f == [i \in 0..k |-> IF i = k THEN Duplex!Place(g[k - 1], s[k], t) ELSE g[i]]
  <2>3. \A i \in 0..(k - 1) : g[i] = IF i = 0 THEN none ELSE Duplex!Place(g[i - 1], s[i], t)
    BY <2>2 DEF PlacesOf
  <2> HIDE DEF none
  <2>4. ASSUME NEW i \in 0..k
        PROVE  f[i] = IF i = 0 THEN none ELSE Duplex!Place(f[i - 1], s[i], t)
    <3>1. CASE i = k
      BY <1>4, <2>1, <3>1
    <3>2. CASE i # k
      <4>1. i \in 0..(k - 1) /\ f[i] = g[i]
        BY <2>1, <3>2
      <4>2. i # 0 => f[i - 1] = g[i - 1]
        BY <2>1, <4>1
      <4> QED
        BY <2>3, <4>1, <4>2
    <3> QED
      BY <3>1, <3>2
  <2>5. f = [i \in 0..k |-> f[i]]
    OBVIOUS
  <2> HIDE DEF f
  <2>6. PlacesOf(s, t, f, k)
    BY <2>4, <2>5 DEF PlacesOf, none
  <2> QED
    BY <1>2, <2>6
<1> QED
  BY <1>3, <1>4

LEMMA PlacedIs ==
  ASSUME NEW s \in Seq(Duplex!Chunk), NEW t
  PROVE  \A k \in 0..Len(s) : Duplex!Placed(s, t)[k] =
           IF k = 0 THEN [expected |-> Duplex!Never, over |-> FALSE, out |-> <<>>]
           ELSE Duplex!Place(Duplex!Placed(s, t)[k - 1], s[k], t)
<1>1. \E f : PlacesOf(s, t, f, Len(s))
  <2>1. Len(s) \in Nat
    OBVIOUS
  <2> QED
    BY <2>1, PlacesExist
<1>2. Duplex!Placed(s, t) = CHOOSE f : PlacesOf(s, t, f, Len(s))
  BY DEF Duplex!Placed, PlacesOf
<1>3. PlacesOf(s, t, Duplex!Placed(s, t), Len(s))
  BY <1>1, <1>2, Zenon
<1> QED
  BY <1>3 DEF PlacesOf

WellPlaced(a) ==
  /\ a.expected \in Nat \cup {Duplex!Never} /\ a.over \in BOOLEAN /\ a.out \in Seq(Duplex!Segment)
  /\ \A i \in DOMAIN a.out : a.out[i].end <= a.expected
  /\ \A i, j \in DOMAIN a.out : i < j => a.out[i].end <= a.out[j].start

\* One chunk: it is left out, or a segment of it comes after the others.
LeftOut(a, b) == b.out = a.out /\ b.expected = a.expected /\ b.over \in BOOLEAN
PutAfter(a, b, c, t) ==
  \E x \in Duplex!Segment :
    /\ b.out = Append(a.out, x) /\ b.expected = x.end /\ b.over = FALSE
    /\ x.of = c.of /\ x.start = Duplex!Start(c, a.expected) /\ x.start <= x.end
    /\ x.end <= x.start + c.length /\ (x.start + c.length <= t => x.end = x.start + c.length)
LEMMA PlaceIs ==
  ASSUME NEW a, WellPlaced(a), NEW c \in Duplex!Chunk, NEW t \in Nat, NEW b, b = Duplex!Place(a, c, t)
  PROVE  IF a.over \/ Duplex!Start(c, a.expected) >= t THEN LeftOut(a, b) ELSE PutAfter(a, b, c, t)
<1> DEFINE start == Duplex!Start(c, a.expected)
           end == Duplex!Min({t, start + c.length})
<1>1. start \in Nat /\ start + c.length \in Nat /\ c.length \in Nat \ {0} /\ c.of \in Nat
  BY StartIs DEF WellPlaced, Duplex!Chunk
<1>2. b = IF a.over \/ start >= t THEN [a EXCEPT !.over = v1.proto = "rtvi"]
          ELSE [expected |-> end, over |-> FALSE,
                out |-> Append(a.out, [start |-> start, end |-> end, of |-> c.of])]
  BY DEF Duplex!Place
<1>3. end \in {t, start + c.length} /\ end <= t /\ end <= start + c.length
  <2>1. {t, start + c.length} \subseteq Nat /\ {t, start + c.length} # {}
    BY <1>1
  <2> QED
    BY <2>1, MinIs
<1> HIDE DEF start, end
<1>4. CASE a.over \/ start >= t
  <2>1. b = [a EXCEPT !.over = v1.proto = "rtvi"]
    BY <1>2, <1>4
  <2> QED
    BY <1>4, <2>1 DEF LeftOut, start
<1>5. CASE ~(a.over \/ start >= t)
  <2>1. PICK x : x = [start |-> start, end |-> end, of |-> c.of]
    OBVIOUS
  <2>2. end \in Nat /\ start <= end /\ (start + c.length <= t => end = start + c.length)
    BY <1>1, <1>3, <1>5
  <2>3. x \in Duplex!Segment /\ x.start = start /\ x.end = end /\ x.of = c.of
    BY <1>1, <2>1, <2>2 DEF Duplex!Segment
  <2>4. b.out = Append(a.out, x) /\ b.expected = end /\ b.over = FALSE
    BY <1>2, <1>5, <2>1
  <2>5. PutAfter(a, b, c, t)
    BY <1>3, <2>2, <2>3, <2>4 DEF PutAfter, start
  <2> QED
    BY <1>5, <2>5 DEF start
<1> QED
  BY <1>4, <1>5

LEMMA PlaceKeepsWell ==
  ASSUME NEW a, WellPlaced(a), NEW c \in Duplex!Chunk, NEW t \in Nat, NEW b, LeftOut(a, b) \/ PutAfter(a, b, c, t)
  PROVE  WellPlaced(b)
<1>1. CASE LeftOut(a, b)
  BY <1>1 DEF LeftOut, WellPlaced
<1>2. CASE PutAfter(a, b, c, t)
  <2>1. PICK x \in Duplex!Segment :
          /\ b.out = Append(a.out, x) /\ b.expected = x.end /\ b.over = FALSE
          /\ x.start = Duplex!Start(c, a.expected) /\ x.start <= x.end
    BY <1>2 DEF PutAfter
  <2>2. x.start \in Nat /\ x.end \in Nat /\ a.expected <= x.start
    BY <2>1, StartIs DEF WellPlaced, Duplex!Segment
  <2>3. PICK q : q = a.out
    OBVIOUS
  <2>4. PICK r : r = b.out
    OBVIOUS
  <2>5. q \in Seq(Duplex!Segment) /\ r = Append(q, x)
    BY <2>1, <2>3, <2>4 DEF WellPlaced
  <2>6. /\ r \in Seq(Duplex!Segment) /\ DOMAIN r = 1..(Len(q) + 1) /\ Len(q) \in Nat
        /\ r[Len(q) + 1] = x /\ \A i \in 1..Len(q) : r[i] = q[i] /\ i \in DOMAIN q
    BY <2>5
  <2>7. \A i \in 1..Len(q) : q[i].end \in Nat /\ q[i].start \in Nat
    <3>1. \A i \in 1..Len(q) : q[i] \in Duplex!Segment
      BY <2>5
    <3>2. \A y \in Duplex!Segment : y.end \in Nat /\ y.start \in Nat
      BY DEF Duplex!Segment
    <3> QED
      BY <3>1, <3>2
  <2>8. \A i \in 1..Len(q) : q[i].end <= x.start /\ q[i].end <= x.end
    <3>1. a.expected \in Int
      BY DEF WellPlaced, Duplex!Never
    <3>2. \A i \in 1..Len(q) : q[i].end <= a.expected
      BY <2>3, <2>6 DEF WellPlaced
    <3> QED
      BY <2>1, <2>2, <2>7, <3>1, <3>2
  <2>9. \A i \in DOMAIN r : r[i].end <= x.end
    BY <2>2, <2>6, <2>8
  <2>10. ASSUME NEW i \in DOMAIN r, NEW j \in DOMAIN r, i < j PROVE r[i].end <= r[j].start
    <3>1. i \in 1..Len(q)
      BY <2>6, <2>10
    <3>2. CASE j = Len(q) + 1
      BY <2>6, <2>8, <3>1, <3>2
    <3>3. CASE j # Len(q) + 1
      <4>1. j \in 1..Len(q)
        BY <2>6, <3>3
      <4> QED
        BY <2>3, <2>6, <2>10, <3>1, <4>1 DEF WellPlaced
    <3> QED
      BY <3>2, <3>3
  <2> QED
    BY <2>1, <2>2, <2>4, <2>6, <2>9, <2>10 DEF WellPlaced
<1> QED
  BY <1>1, <1>2

LEMMA PlacedWell ==
  ASSUME NEW s \in Seq(Duplex!Chunk), NEW t \in Nat
  PROVE  \A k \in 0..Len(s) : WellPlaced(Duplex!Placed(s, t)[k])
<1> DEFINE P == Duplex!Placed(s, t)
           T == {k \in 0..Len(s) : ~WellPlaced(P[k])}
<1>1. SUFFICES ASSUME T # {} PROVE FALSE
  OBVIOUS
<1>2. \A k \in 0..Len(s) : P[k] = IF k = 0 THEN [expected |-> Duplex!Never, over |-> FALSE, out |-> <<>>]
                                   ELSE Duplex!Place(P[k - 1], s[k], t)
  BY PlacedIs
<1> HIDE DEF P
<1>3. PICK k \in T : \A y \in T : k <= y
  <2>1. T \subseteq Nat
    OBVIOUS
  <2> QED
    BY <1>1, <2>1, LeastNat
<1>4. k # 0
  <2>a. 0 \in 0..Len(s)
    OBVIOUS
  <2>1. P[0] = [expected |-> Duplex!Never, over |-> FALSE, out |-> <<>>]
    BY <1>2, <2>a
  <2>2. WellPlaced(P[0])
    BY <2>1 DEF WellPlaced
  <2> QED
    BY <1>3, <2>2
<1>5. k \in 1..Len(s) /\ k - 1 \in 0..Len(s) /\ ~(k <= k - 1)
  BY <1>3, <1>4
<1>6. WellPlaced(P[k - 1]) /\ s[k] \in Duplex!Chunk /\ P[k] = Duplex!Place(P[k - 1], s[k], t)
  BY <1>2, <1>3, <1>4, <1>5
<1>7. LeftOut(P[k - 1], P[k]) \/ PutAfter(P[k - 1], P[k], s[k], t)
  BY <1>6, PlaceIs
<1>8. WellPlaced(P[k])
  BY <1>6, <1>7, PlaceKeepsWell
<1> QED
  BY <1>3, <1>8

\* Chunks that come no faster than they are played end no later than they would
\* by their own times: what was cut stays silent.
Ended(s, cut) == \A k \in DOMAIN s, c \in cut : s[k].of = c.of => Duplex!End(s[k]) <= c.at
EndedBy(s, a, k, cut) ==
  /\ k > 0 => a.expected <= Duplex!End(s[k])
  /\ \A i \in DOMAIN a.out, c \in cut : a.out[i].of = c.of => a.out[i].end <= c.at
LEMMA PlacedEnded ==
  ASSUME NEW s \in Seq(Duplex!Chunk), NEW t \in Nat, NEW cut, cut \subseteq [of : Nat, at : Nat],
         Ended(s, cut), Duplex!InTurn(s)
  PROVE  \A k \in 0..Len(s) : EndedBy(s, Duplex!Placed(s, t)[k], k, cut)
<1> DEFINE P == Duplex!Placed(s, t)
           T == {k \in 0..Len(s) : ~EndedBy(s, P[k], k, cut)}
<1>1. SUFFICES ASSUME T # {} PROVE FALSE
  OBVIOUS
<1>2. \A k \in 0..Len(s) : P[k] = IF k = 0 THEN [expected |-> Duplex!Never, over |-> FALSE, out |-> <<>>]
                                   ELSE Duplex!Place(P[k - 1], s[k], t)
  BY PlacedIs
<1>a. \A k \in 0..Len(s) : WellPlaced(P[k])
  BY PlacedWell
<1> HIDE DEF P
<1>3. PICK k \in T : \A y \in T : k <= y
  <2>1. T \subseteq Nat
    OBVIOUS
  <2> QED
    BY <1>1, <2>1, LeastNat
<1>4. k # 0
  <2>a. 0 \in 0..Len(s)
    OBVIOUS
  <2>1. P[0] = [expected |-> Duplex!Never, over |-> FALSE, out |-> <<>>]
    BY <1>2, <2>a
  <2>2. EndedBy(s, P[0], 0, cut)
    BY <2>1 DEF EndedBy
  <2> QED
    BY <1>3, <2>2
<1>5. k \in 1..Len(s) /\ k - 1 \in 0..Len(s) /\ ~(k <= k - 1) /\ DOMAIN s = 1..Len(s)
  BY <1>3, <1>4
<1>6. /\ EndedBy(s, P[k - 1], k - 1, cut) /\ WellPlaced(P[k - 1]) /\ WellPlaced(P[k])
      /\ s[k] \in Duplex!Chunk /\ P[k] = Duplex!Place(P[k - 1], s[k], t)
  BY <1>2, <1>a, <1>3, <1>4, <1>5
<1> DEFINE a == P[k - 1]
           b == P[k]
           c == s[k]
<1>7. c.at \in Nat /\ c.length \in Nat \ {0} /\ Duplex!End(c) = c.at + c.length /\ Duplex!End(c) \in Nat
  BY <1>6 DEF Duplex!Chunk, Duplex!End
<1>8. a.expected <= c.at /\ a.expected \in Nat \cup {Duplex!Never}
  <2>0. a.expected \in Nat \cup {Duplex!Never}
    BY <1>6 DEF WellPlaced
  <2>b. \A d \in Duplex!Chunk : Duplex!End(d) \in Nat
    BY DEF Duplex!Chunk, Duplex!End
  <2>1. CASE k = 1
    <3>1. 0 \in 0..Len(s)
      BY <1>5
    <3>2. P[0].expected = Duplex!Never
      BY <1>2, <3>1
    <3>3. a.expected = -1
      BY <2>1, <3>2 DEF Duplex!Never
    <3> QED
      BY <1>7, <2>0, <3>3
  <2>2. CASE k # 1
    <3>1. k - 1 > 0 /\ k \in 2..Len(s) /\ s[k - 1] \in Duplex!Chunk
      BY <1>5, <2>2
    <3>2. Duplex!End(s[k - 1]) <= c.at /\ a.expected <= Duplex!End(s[k - 1])
      BY <1>6, <3>1 DEF Duplex!InTurn, EndedBy
    <3>3. Duplex!End(s[k - 1]) \in Nat /\ a.expected \in Int
      BY <2>0, <2>b, <3>1 DEF Duplex!Never
    <3> QED
      BY <1>7, <2>0, <3>2, <3>3
  <2> QED
    BY <2>1, <2>2
<1>9. LeftOut(a, b) \/ PutAfter(a, b, c, t)
  BY <1>6, PlaceIs
<1>10. Duplex!Start(c, a.expected) <= c.at /\ Duplex!Start(c, a.expected) \in Nat
  BY <1>6, <1>8, StartIs
<1>11. CASE LeftOut(a, b)
  <2>1. b.out = a.out /\ b.expected = a.expected
    BY <1>11 DEF LeftOut
  <2>2. b.expected <= Duplex!End(c)
    <3>1. a.expected \in Int
      BY <1>8 DEF Duplex!Never
    <3> QED
      BY <1>7, <1>8, <2>1, <3>1
  <2>3. EndedBy(s, b, k, cut)
    BY <1>6, <2>1, <2>2 DEF EndedBy
  <2> QED
    BY <1>3, <2>3
<1>12. CASE PutAfter(a, b, c, t)
  <2>1. PICK x \in Duplex!Segment :
          /\ b.out = Append(a.out, x) /\ b.expected = x.end /\ x.of = c.of
          /\ x.start = Duplex!Start(c, a.expected) /\ x.end <= x.start + c.length
    BY <1>12 DEF PutAfter
  <2>2. x.end \in Nat /\ x.start \in Nat
    BY DEF Duplex!Segment
  <2>3. x.end <= Duplex!End(c)
    BY <1>7, <1>10, <2>1, <2>2
  <2>4. PICK q : q = a.out
    OBVIOUS
  <2>5. PICK r : r = b.out
    OBVIOUS
  <2>6. q \in Seq(Duplex!Segment) /\ r = Append(q, x)
    BY <1>6, <2>1, <2>4, <2>5 DEF WellPlaced
  <2>7. \A i \in DOMAIN r : r[i] = x \/ (i \in DOMAIN q /\ r[i] = q[i])
    BY <2>6
  <2>8. ASSUME NEW i \in DOMAIN r, NEW d \in cut, r[i].of = d.of PROVE r[i].end <= d.at
    <3>1. CASE r[i] = x
      <4>1. Duplex!End(c) <= d.at /\ d.at \in Nat
        BY <1>5, <2>1, <2>8, <3>1 DEF Ended
      <4> QED
        BY <1>7, <2>2, <2>3, <3>1, <4>1
    <3>2. CASE i \in DOMAIN q /\ r[i] = q[i]
      BY <1>6, <2>4, <2>8, <3>2 DEF EndedBy
    <3> QED
      BY <2>7, <3>1, <3>2
  <2>9. EndedBy(s, b, k, cut)
    BY <2>1, <2>3, <2>5, <2>8 DEF EndedBy
  <2> QED
    BY <1>3, <2>9
<1> QED
  BY <1>9, <1>11, <1>12

\* With preserve_late_output every chunk is placed, and whole.
WholeTo(s, a, k) ==
  /\ a.expected = Duplex!Packed(s)[k] /\ a.over = FALSE /\ Len(a.out) = k
  /\ \A i \in 1..k : a.out[i].end - a.out[i].start = s[i].length
LEMMA PlacedWhole ==
  ASSUME NEW s \in Seq(Duplex!Chunk), NEW t \in Nat, \A k \in 1..Len(s) : Duplex!Packed(s)[k] <= t
  PROVE  \A k \in 0..Len(s) : WholeTo(s, Duplex!Placed(s, t)[k], k)
<1> DEFINE P == Duplex!Placed(s, t)
           T == {k \in 0..Len(s) : ~WholeTo(s, P[k], k)}
<1>1. SUFFICES ASSUME T # {} PROVE FALSE
  OBVIOUS
<1>2. \A k \in 0..Len(s) : P[k] = IF k = 0 THEN [expected |-> Duplex!Never, over |-> FALSE, out |-> <<>>]
                                   ELSE Duplex!Place(P[k - 1], s[k], t)
  BY PlacedIs
<1>a. \A k \in 0..Len(s) : WellPlaced(P[k])
  BY PlacedWell
<1> HIDE DEF P
<1>3. PICK k \in T : \A y \in T : k <= y
  <2>1. T \subseteq Nat
    OBVIOUS
  <2> QED
    BY <1>1, <2>1, LeastNat
<1>4. k # 0
  <2>a. 0 \in 0..Len(s)
    OBVIOUS
  <2>1. P[0] = [expected |-> Duplex!Never, over |-> FALSE, out |-> <<>>] /\ Duplex!Packed(s)[0] = Duplex!Never
    BY <1>2, <2>a, PackedIs
  <2>2. WholeTo(s, P[0], 0)
    BY <2>1 DEF WholeTo
  <2> QED
    BY <1>3, <2>2
<1>5. k \in 1..Len(s) /\ k - 1 \in 0..Len(s) /\ ~(k <= k - 1) /\ k \in 0..Len(s)
  BY <1>3, <1>4
<1>6. /\ WholeTo(s, P[k - 1], k - 1) /\ WellPlaced(P[k - 1])
      /\ s[k] \in Duplex!Chunk /\ P[k] = Duplex!Place(P[k - 1], s[k], t)
  BY <1>2, <1>a, <1>3, <1>4, <1>5
<1> DEFINE a == P[k - 1]
           b == P[k]
           c == s[k]
<1>7. c.length \in Nat \ {0}
  BY <1>6 DEF Duplex!Chunk
<1>8. Duplex!Packed(s)[k] = Duplex!Start(c, a.expected) + c.length /\ Duplex!Packed(s)[k] <= t
  BY <1>4, <1>5, <1>6, PackedIs DEF WholeTo
<1>9. Duplex!Start(c, a.expected) \in Nat
  BY <1>6, StartIs DEF WellPlaced
<1>10. ~(a.over \/ Duplex!Start(c, a.expected) >= t)
  BY <1>6, <1>7, <1>8, <1>9 DEF WholeTo
<1>11. PutAfter(a, b, c, t)
  BY <1>6, <1>10, PlaceIs
<1>12. PICK x \in Duplex!Segment :
        /\ b.out = Append(a.out, x) /\ b.expected = x.end /\ b.over = FALSE
        /\ x.start = Duplex!Start(c, a.expected)
        /\ x.start + c.length <= t => x.end = x.start + c.length
  BY <1>11 DEF PutAfter
<1>13. x.end = x.start + c.length /\ x.end = Duplex!Packed(s)[k] /\ x.end - x.start = c.length
  BY <1>7, <1>8, <1>9, <1>12
<1>14. PICK q : q = a.out
  OBVIOUS
<1>15. PICK r : r = b.out
  OBVIOUS
<1>16. q \in Seq(Duplex!Segment) /\ r = Append(q, x) /\ Len(q) = k - 1
  BY <1>6, <1>12, <1>14, <1>15 DEF WellPlaced, WholeTo
<1>17. Len(r) = k /\ r[k] = x /\ \A i \in 1..(k - 1) : r[i] = q[i]
  BY <1>5, <1>16
<1>18. ASSUME NEW i \in 1..k PROVE r[i].end - r[i].start = s[i].length
  <2>1. CASE i = k
    BY <1>13, <1>17, <2>1
  <2>2. CASE i # k
    <3>1. i \in 1..(k - 1)
      BY <1>5, <2>2
    <3>2. r[i] = q[i] /\ q[i].end - q[i].start = s[i].length
      BY <1>6, <1>14, <1>17, <3>1 DEF WholeTo
    <3> QED
      BY <3>2
  <2> QED
    BY <2>1, <2>2
<1>19. WholeTo(s, b, k)
  BY <1>12, <1>13, <1>15, <1>17, <1>18 DEF WholeTo
<1> QED
  BY <1>3, <1>19

\* What is written of the chunks.
LEMMA AssembleIs ==
  ASSUME Duplex!LengthsAssumption, NEW s \in Seq(Duplex!Chunk), NEW w, w = Duplex!Assemble(s),
         NEW cut, cut \subseteq [of : Nat, at : Nat], Ended(s, cut)
  PROVE  /\ w \in Seq(Duplex!Segment)
         /\ \A i, j \in DOMAIN w : i < j => w[i].end <= w[j].start
         /\ v1.late => Len(w) = Len(s) /\ \A i \in DOMAIN w : w[i].end - w[i].start = s[i].length
         /\ Duplex!InTurn(s) => \A i \in DOMAIN w, c \in cut : w[i].of = c.of => w[i].end <= c.at
<1> DEFINE t == Duplex!Target(s)
<1>1. t \in Nat /\ Len(s) \in 0..Len(s) /\ w = Duplex!Placed(s, t)[Len(s)].out
  BY TargetIs DEF Duplex!Assemble
<1>2. v1.late => \A k \in 1..Len(s) : Duplex!Packed(s)[k] <= t
  BY TargetIs
<1> HIDE DEF t
<1>3. WellPlaced(Duplex!Placed(s, t)[Len(s)])
  BY <1>1, PlacedWell
<1>4. v1.late => WholeTo(s, Duplex!Placed(s, t)[Len(s)], Len(s))
  BY <1>1, <1>2, PlacedWhole
<1>5. Duplex!InTurn(s) => EndedBy(s, Duplex!Placed(s, t)[Len(s)], Len(s), cut)
  BY <1>1, PlacedEnded
<1>6. w \in Seq(Duplex!Segment) /\ \A i, j \in DOMAIN w : i < j => w[i].end <= w[j].start
  BY <1>1, <1>3 DEF WellPlaced
<1>7. v1.late => Len(w) = Len(s) /\ \A i \in 1..Len(s) : w[i].end - w[i].start = s[i].length
  BY <1>1, <1>4 DEF WholeTo
<1>8. DOMAIN w = 1..Len(w)
  BY <1>6
<1> QED
  BY <1>1, <1>5, <1>6, <1>7, <1>8 DEF EndedBy

\* The state of a client, and the end of a file.
Files == [left : Nat, processed : Nat, failed : Nat, outcomes : Seq({"written", "failed"})]
Lists == [chunks : Seq(Duplex!Chunk), accept : BOOLEAN, arrival : Int, sendDone : Int, lastAudio : Int]
DuplexTyped ==
  /\ v1 \in [proto : {"rtvi", "realtime"}, late : BOOLEAN, intro : BOOLEAN]
  /\ v2 \in Files /\ v3 \in {"next", "intro", "receive", "closed", "exit"} /\ v4 \in Nat
  /\ v5 \in [sent : Nat, at : {"running", "done", "failed"}] /\ v6 \in {"up", "closed"} /\ v7 \in Nat
  /\ v8 \in Lists /\ v9 \in Seq(Duplex!Segment) /\ v10 \subseteq [of : Nat, at : Nat] /\ v11 \in BOOLEAN
LEMMA DuplexTypes == Duplex!TypeOK <=> DuplexTyped
BY DEF Duplex!TypeOK, DuplexTyped, Files, Lists

LEMMA FileOverCounts ==
  ASSUME DuplexTyped, Duplex!FilesCounted, v3 # "exit", v2.left > 0, NEW o \in {"written", "failed"},
         Duplex!FileOver(o)
  PROVE  v2' \in Files /\ v3' = "next" /\ Duplex!FilesCounted'
<1>1. PICK f : f = v2
  OBVIOUS
<1>2. PICK g : g = v2'
  OBVIOUS
<1>3. PICK q : q = f.outcomes
  OBVIOUS
<1>4. PICK r : r = g.outcomes
  OBVIOUS
<1>5. f \in Files /\ f.left > 0 /\ q \in Seq({"written", "failed"})
  BY <1>1, <1>3 DEF DuplexTyped, Files
<1>6. f.left - 1 \in Nat /\ f.processed \in Nat /\ f.failed \in Nat
  BY <1>5 DEF Files
<1>7. /\ v3' = "next"
      /\ g = [f EXCEPT !.left = @ - 1, !.outcomes = Append(@, o),
                       !.processed = @ + IF o = "written" \/ v1.proto = "realtime" THEN 1 ELSE 0,
                       !.failed = @ + IF o = "failed" THEN 1 ELSE 0]
  BY <1>1, <1>2 DEF Duplex!FileOver
<1>8. /\ r = Append(q, o) /\ g.left = f.left - 1
      /\ g.processed = f.processed + IF o = "written" \/ v1.proto = "realtime" THEN 1 ELSE 0
      /\ g.failed = f.failed + IF o = "failed" THEN 1 ELSE 0
      /\ g = [left |-> g.left, processed |-> g.processed, failed |-> g.failed, outcomes |-> g.outcomes]
  BY <1>3, <1>4, <1>5, <1>7 DEF Files
<1>9. r \in Seq({"written", "failed"}) /\ r # <<>> /\ DOMAIN r = 1..(Len(q) + 1) /\ Len(q) \in Nat
      /\ DOMAIN q = 1..Len(q) /\ r[Len(q) + 1] = o /\ \A i \in 1..Len(q) : r[i] = q[i]
  BY <1>5, <1>8
<1>10. g.left \in Nat /\ g.processed \in Nat /\ g.failed \in Nat
  BY <1>6, <1>8
<1>11. g \in Files
  BY <1>4, <1>8, <1>9, <1>10 DEF Files
<1>12. /\ (f.failed = 0) <=> (\A i \in DOMAIN q : q[i] = "written")
       /\ f.processed = 0 => \A i \in DOMAIN q : q[i] # "written"
  BY <1>1, <1>3 DEF Duplex!FilesCounted
<1>13. (g.failed = 0) <=> (f.failed = 0 /\ o = "written")
  BY <1>6, <1>8
<1>14. g.processed = 0 => f.processed = 0 /\ o # "written"
  BY <1>6, <1>8
<1>15. (\A i \in DOMAIN r : r[i] = "written") <=> (\A i \in DOMAIN q : q[i] = "written") /\ o = "written"
  BY <1>9
<1>16. (g.failed = 0) <=> (\A i \in DOMAIN r : r[i] = "written")
  BY <1>12, <1>13, <1>15
<1>17. g.processed = 0 => \A i \in DOMAIN r : r[i] # "written"
  BY <1>9, <1>12, <1>14
<1> QED
  BY <1>2, <1>4, <1>7, <1>9, <1>11, <1>16, <1>17 DEF Duplex!FilesCounted

\* A turn of the receiver's loop with the lists g.
CollectedIn(g) ==
  /\ \A c \in v10' : c.of <= v7' /\ (g.accept => c.of # v7')
  /\ Ended(g.chunks, v10')
  /\ v11' => Duplex!InTurn(g.chunks)
FileWritten(s) == v5.at = "done" /\ Duplex!FileOver("written") /\ v9' = Duplex!Assemble(s)
FileFailed == Duplex!FileOver("failed") /\ v9' = v9
LEMMA FileEnds ==
  ASSUME Duplex!Inv, NEW g \in Lists, CollectedIn(g), v8' \in Lists, v8'.chunks = g.chunks, v8'.accept = g.accept,
         UNCHANGED <<v1, v4, v5>>, v7' \in Nat, v10' \subseteq [of : Nat, at : Nat], v11' \in BOOLEAN,
         v3 \in {"receive", "closed"}, v6' \in {"up", "closed"},
         UNCHANGED <<v2, v3, v9>> \/ FileWritten(g.chunks) \/ FileFailed
  PROVE  Duplex!Inv'
<1>t. DuplexTyped
  BY DuplexTypes DEF Duplex!Inv
<1>1. v9 = <<>> /\ v2.left > 0
  BY DEF Duplex!Inv, Duplex!InputSent, Duplex!FilesCounted
<1>2. DuplexTyped' => Duplex!TypeOK'
  BY DEF Duplex!TypeOK, DuplexTyped, Files, Lists
<1>3. Duplex!Collected'
  BY DEF CollectedIn, Ended, Duplex!Collected, Duplex!EndOfCut, Duplex!InTurn
<1>4. v5'.at = "done" => v5'.sent = Duration + Silence
  BY DEF Duplex!Inv, Duplex!InputSent
<1>5. CASE UNCHANGED <<v2, v3, v9>>
  <2>1. Duplex!FilesCounted'
    BY <1>5 DEF Duplex!Inv, Duplex!FilesCounted
  <2>2. Duplex!TypeOK'
    BY <1>t, <1>2, <1>5 DEF DuplexTyped
  <2>3. Duplex!PlacedApart' /\ Duplex!SilentOnceInterrupted' /\ Duplex!WrittenIfSent' /\ Duplex!InputSent'
    BY <1>1, <1>4, <1>5 DEF Duplex!PlacedApart, Duplex!SilentOnceInterrupted, Duplex!WrittenIfSent,
       Duplex!InputSent
  <2> QED
    BY <1>3, <2>1, <2>2, <2>3 DEF Duplex!Inv
<1>6. CASE FileFailed
  <2>1. v2' \in Files /\ v3' = "next" /\ Duplex!FilesCounted' /\ v9' = <<>>
    BY <1>t, <1>1, <1>6, FileOverCounts DEF FileFailed, Duplex!Inv
  <2>2. Duplex!TypeOK'
    BY <1>t, <1>1, <1>2, <2>1 DEF DuplexTyped
  <2>3. Duplex!PlacedApart' /\ Duplex!SilentOnceInterrupted' /\ Duplex!WrittenIfSent' /\ Duplex!InputSent'
    BY <1>4, <2>1 DEF Duplex!PlacedApart, Duplex!SilentOnceInterrupted, Duplex!WrittenIfSent, Duplex!InputSent
  <2> QED
    BY <1>3, <2>1, <2>2, <2>3 DEF Duplex!Inv
<1>7. CASE FileWritten(g.chunks)
  <2>1. v2' \in Files /\ v3' = "next" /\ Duplex!FilesCounted' /\ v5.at = "done"
    BY <1>t, <1>1, <1>7, FileOverCounts DEF FileWritten, Duplex!Inv
  <2>2. PICK s : s = g.chunks
    OBVIOUS
  <2>3. PICK cut : cut = v10'
    OBVIOUS
  <2>4. PICK w : w = v9'
    OBVIOUS
  <2>5. s \in Seq(Duplex!Chunk) /\ Ended(s, cut) /\ w = Duplex!Assemble(s) /\ cut \subseteq [of : Nat, at : Nat]
    BY <1>7, <2>2, <2>3, <2>4 DEF Lists, CollectedIn, FileWritten
  <2>6. /\ w \in Seq(Duplex!Segment)
        /\ \A i, j \in DOMAIN w : i < j => w[i].end <= w[j].start
        /\ v1.late => Len(w) = Len(s) /\ \A i \in DOMAIN w : w[i].end - w[i].start = s[i].length
        /\ Duplex!InTurn(s) => \A i \in DOMAIN w, c \in cut : w[i].of = c.of => w[i].end <= c.at
    BY <2>5, AssembleIs, DuplexAssumption
  <2>7. Duplex!TypeOK'
    BY <1>t, <1>2, <2>1, <2>4, <2>6 DEF DuplexTyped
  <2>8. Duplex!PlacedApart'
    BY <2>2, <2>4, <2>6 DEF Duplex!PlacedApart
  <2>9. Duplex!SilentOnceInterrupted'
    BY <2>2, <2>3, <2>4, <2>6 DEF Duplex!SilentOnceInterrupted, CollectedIn
  <2>10. Duplex!WrittenIfSent' /\ Duplex!InputSent'
    BY <1>4, <2>1 DEF Duplex!WrittenIfSent, Duplex!InputSent
  <2> QED
    BY <1>3, <2>1, <2>7, <2>8, <2>9, <2>10 DEF Duplex!Inv
<1> QED
  BY <1>5, <1>6, <1>7

LEMMA TurnEnds ==
  ASSUME Duplex!Inv, NEW g \in Lists, Duplex!EndOfTurn(g), CollectedIn(g), v3 = "receive",
         UNCHANGED <<v1, v4, v5, v6>>, v7' \in Nat, v10' \subseteq [of : Nat, at : Nat], v11' \in BOOLEAN
  PROVE  Duplex!Inv'
<1>t. DuplexTyped
  BY DuplexTypes DEF Duplex!Inv
<1>1. v5.at \in {"running", "failed", "done"} /\ v4 \in Int
  BY <1>t DEF DuplexTyped
<1>2. PICK h : h = IF g.sendDone = Duplex!Never THEN [g EXCEPT !.sendDone = v4] ELSE g
  OBVIOUS
<1>3. h \in Lists /\ h.chunks = g.chunks /\ h.accept = g.accept
  BY <1>1, <1>2 DEF Lists
<1>4. \/ v5.at \in {"running", "failed"} /\ v8' = g /\ (UNCHANGED <<v2, v3, v9>> \/ Duplex!Fail)
      \/ v5.at = "done" /\ v8' = h /\ (UNCHANGED <<v2, v3, v9>> \/ Duplex!Write(g.chunks))
  BY <1>1, <1>2 DEF Duplex!EndOfTurn
<1>5. /\ v8' \in Lists /\ v8'.chunks = g.chunks /\ v8'.accept = g.accept
      /\ UNCHANGED <<v2, v3, v9>> \/ FileWritten(g.chunks) \/ FileFailed
  BY <1>3, <1>4 DEF Duplex!Fail, Duplex!Write, FileWritten, FileFailed
<1>6. v6' \in {"up", "closed"}
  BY <1>t DEF DuplexTyped
<1> QED
  BY <1>5, <1>6, FileEnds

\* The steps of the receiver: each ends its turn with the lists it has changed.
LEMMA DuplexReceives ==
  ASSUME Duplex!Inv,
         \/ Duplex!PollTimesOut \/ Duplex!BotStarted \/ Duplex!Interrupted
         \/ \E length \in Lengths : Duplex!Audio(length)
  PROVE  Duplex!Inv'
<1>t. DuplexTyped
  BY DuplexTypes DEF Duplex!Inv
<1>1. /\ v8 \in Lists /\ v7 \in Nat /\ v10 \subseteq [of : Nat, at : Nat] /\ v11 \in BOOLEAN /\ v4 \in Nat
      /\ v8.chunks \in Seq(Duplex!Chunk) /\ v8.accept \in BOOLEAN
  BY <1>t DEF DuplexTyped, Lists
<1>2. v3 = "receive"
  BY DEF Duplex!PollTimesOut, Duplex!BotStarted, Duplex!Interrupted, Duplex!Audio, Duplex!Receiving
<1>3. /\ \A c \in v10 : c.of <= v7 /\ (v8.accept => c.of # v7)
      /\ Ended(v8.chunks, v10) /\ (v11 => Duplex!InTurn(v8.chunks))
  BY <1>2 DEF Duplex!Inv, Duplex!Collected, Duplex!EndOfCut, Ended
<1>4. PICK s : s = v8.chunks
  OBVIOUS
<1>5. s \in Seq(Duplex!Chunk) /\ Len(s) \in Nat /\ DOMAIN s = 1..Len(s)
  BY <1>1, <1>4
<1>6. CASE Duplex!PollTimesOut
  <2>1. PICK g : g = v8
    OBVIOUS
  <2>2. Duplex!EndOfTurn(g) /\ UNCHANGED <<v1, v4, v5, v6, v7, v10, v11>>
    BY <1>6, <2>1 DEF Duplex!PollTimesOut
  <2>3. CollectedIn(g)
    BY <1>3, <2>1, <2>2 DEF CollectedIn
  <2> QED
    BY <1>1, <1>2, <2>1, <2>2, <2>3, TurnEnds
<1>7. CASE Duplex!BotStarted
  <2>1. PICK g : g = [v8 EXCEPT !.accept = TRUE]
    OBVIOUS
  <2>2. Duplex!EndOfTurn(g) /\ UNCHANGED <<v1, v4, v5, v6, v10, v11>> /\ v7' = v7 + 1
    BY <1>7, <2>1 DEF Duplex!BotStarted
  <2>3. g \in Lists /\ g.chunks = v8.chunks
    BY <1>1, <2>1 DEF Lists
  <2>4. \A c \in v10' : c.of <= v7' /\ c.of # v7'
    <3>1. \A c \in v10 : c.of \in Nat /\ c.of <= v7
      BY <1>1, <1>3
    <3> QED
      BY <1>1, <2>2, <3>1
  <2>5. CollectedIn(g)
    BY <1>3, <2>2, <2>3, <2>4 DEF CollectedIn
  <2>6. v7' \in Nat
    BY <1>1, <2>2
  <2> QED
    BY <1>1, <1>2, <2>2, <2>3, <2>5, <2>6, TurnEnds
<1>8. CASE Duplex!Interrupted
  <2>1. PICK w : w = Duplex!Truncate(s, v4)
    OBVIOUS
  <2>2. PICK g : g = [v8 EXCEPT !.chunks = w, !.accept = FALSE]
    OBVIOUS
  <2>3. Duplex!EndOfTurn(g)
    BY <1>4, <1>8, <2>1, <2>2 DEF Duplex!Interrupted
  <2>4. /\ UNCHANGED <<v1, v4, v5, v6, v7, v11>>
        /\ v10' = v10 \cup {[of |-> r, at |-> v4] : r \in (0..v7) \ {c.of : c \in v10}}
    BY <1>8 DEF Duplex!Interrupted
  <2>5. /\ w \in Seq(Duplex!Chunk) /\ Len(w) <= Len(s)
        /\ \A k \in 1..Len(w) : /\ w[k].at = s[k].at /\ w[k].of = s[k].of
                                /\ Duplex!End(w[k]) <= v4 /\ Duplex!End(w[k]) <= Duplex!End(s[k])
    BY <1>1, <1>5, <2>1, TruncateIs
  <2>6. g \in Lists /\ g.chunks = w /\ g.accept = FALSE
    BY <1>1, <2>2, <2>5 DEF Lists
  <2>7. v10' \subseteq [of : Nat, at : Nat] /\ \A c \in v10' : c \in v10 \/ (c.at = v4 /\ c.of \in 0..v7)
    BY <1>1, <2>4
  <2>8. \A c \in v10' : c.of <= v7
    <3>1. \A c \in v10' : c.of \in 0..v7 \/ c.of <= v7
      BY <1>3, <2>7
    <3> QED
      BY <1>1, <3>1
  <2>a. \A c \in Duplex!Chunk : Duplex!End(c) \in Nat
    BY DEF Duplex!Chunk, Duplex!End
  <2>b. Len(w) \in Nat /\ DOMAIN w = 1..Len(w) /\ \A k \in 1..Len(w) : k \in 1..Len(s) /\ w[k] \in Duplex!Chunk
    BY <1>5, <2>5
  <2>9. ASSUME NEW k \in DOMAIN w, NEW c \in v10', w[k].of = c.of PROVE Duplex!End(w[k]) <= c.at
    <3>1. k \in 1..Len(w) /\ k \in DOMAIN s /\ s[k].of = c.of
      BY <1>5, <2>5, <2>9, <2>b
    <3>2. CASE c \in v10
      <4>1. Duplex!End(s[k]) <= c.at /\ c.at \in Nat
        BY <1>1, <1>3, <1>4, <3>1, <3>2 DEF Ended
      <4>2. Duplex!End(w[k]) \in Nat /\ Duplex!End(s[k]) \in Nat /\ Duplex!End(w[k]) <= Duplex!End(s[k])
        BY <1>5, <2>5, <2>a, <2>b, <3>1
      <4> QED
        BY <4>1, <4>2
    <3>3. CASE c.at = v4
      BY <2>5, <3>1, <3>3
    <3> QED
      BY <2>7, <3>2, <3>3
  <2>10. ASSUME v11' PROVE Duplex!InTurn(w)
    <3> SUFFICES ASSUME NEW k \in 2..Len(w) PROVE Duplex!End(w[k - 1]) <= w[k].at
      BY DEF Duplex!InTurn
    <3>1. k \in 2..Len(s) /\ k \in 1..Len(w) /\ k - 1 \in 1..Len(w)
      BY <1>5, <2>5, <2>b
    <3>2. Duplex!End(s[k - 1]) <= s[k].at
      BY <1>3, <1>4, <2>4, <2>10, <3>1 DEF Duplex!InTurn
    <3>3. w[k].at = s[k].at /\ Duplex!End(w[k - 1]) <= Duplex!End(s[k - 1])
      BY <2>5, <3>1
    <3>4. w[k - 1] \in Duplex!Chunk /\ w[k] \in Duplex!Chunk /\ s[k - 1] \in Duplex!Chunk
      BY <1>5, <2>b, <3>1
    <3>5. Duplex!End(w[k - 1]) \in Nat /\ Duplex!End(s[k - 1]) \in Nat
      BY <2>a, <3>4
    <3>6. w[k].at \in Nat
      BY <3>4 DEF Duplex!Chunk
    <3> QED
      BY <3>2, <3>3, <3>5, <3>6
  <2>11. CollectedIn(g)
    BY <2>4, <2>6, <2>8, <2>9, <2>10 DEF CollectedIn, Ended
  <2> QED
    BY <1>1, <1>2, <2>3, <2>4, <2>6, <2>7, <2>11, TurnEnds
<1>9. ASSUME NEW length \in Lengths, Duplex!Audio(length) PROVE Duplex!Inv'
  <2>1. UNCHANGED <<v1, v4, v5, v6, v7, v10>>
    BY <1>9 DEF Duplex!Audio
  <2>2. CASE ~v8.accept
    <3>1. PICK g : g = v8
      OBVIOUS
    <3>2. Duplex!EndOfTurn(g) /\ v11' = v11
      BY <1>9, <2>2, <3>1 DEF Duplex!Audio
    <3>3. CollectedIn(g)
      BY <1>3, <2>1, <3>1, <3>2 DEF CollectedIn
    <3> QED
      BY <1>1, <1>2, <2>1, <3>1, <3>2, <3>3, TurnEnds
  <2>3. CASE v8.accept
    <3>1. PICK c : c = [at |-> Duplex!Stamp, length |-> length, of |-> v7]
      OBVIOUS
    <3>2. PICK w : w = Append(s, c)
      OBVIOUS
    <3>3. PICK g : g = [v8 EXCEPT !.chunks = w, !.arrival = v4,
                                  !.lastAudio = IF v5.at = "done" THEN v4 ELSE @]
      OBVIOUS
    <3>4. /\ v11' = (v11 /\ (s # <<>> => c.at >= Duplex!End(Duplex!Last(s))))
          /\ Duplex!EndOfTurn(g)
      BY <1>4, <1>9, <2>3, <3>1, <3>2, <3>3 DEF Duplex!Audio
    <3>5. s # <<>> => Duplex!Last(s) = s[Len(s)] /\ Len(s) \in 1..Len(s) /\ s[Len(s)] \in Duplex!Chunk
      BY <1>5 DEF Duplex!Last
    <3>6. c \in Duplex!Chunk
      <4>1. length \in Nat \ {0}
        BY DuplexAssumption DEF Duplex!LengthsAssumption
      <4>2. s # <<>> => Duplex!End(Duplex!Last(s)) \in Nat
        BY <3>5 DEF Duplex!Chunk, Duplex!End
      <4>3. Duplex!Stamp \in Nat
        BY <1>1, <1>4, <4>2 DEF Duplex!Stamp
      <4> QED
        BY <1>1, <3>1, <4>1, <4>3 DEF Duplex!Chunk
    <3>7. /\ w \in Seq(Duplex!Chunk) /\ Len(w) = Len(s) + 1 /\ DOMAIN w = 1..(Len(s) + 1)
          /\ w[Len(s) + 1] = c /\ \A k \in 1..Len(s) : w[k] = s[k]
      BY <1>5, <3>2, <3>6
    <3>8. g \in Lists /\ g.chunks = w /\ g.accept = v8.accept
      <4>1. v8.lastAudio \in Int /\ v4 \in Int
        BY <1>1 DEF Lists
      <4> QED
        BY <1>1, <3>3, <3>7, <4>1 DEF Lists
    <3>9. Ended(w, v10)
      <4> SUFFICES ASSUME NEW k \in DOMAIN w, NEW d \in v10, w[k].of = d.of PROVE Duplex!End(w[k]) <= d.at
        BY DEF Ended
      <4>1. k # Len(s) + 1
        <5>1. c.of = v7 /\ d.of # v7
          BY <1>3, <2>3, <3>1
        <5> QED
          BY <3>7, <5>1
      <4>2. k \in DOMAIN s /\ w[k] = s[k]
        BY <1>5, <3>7, <4>1
      <4> QED
        BY <1>3, <1>4, <4>2 DEF Ended
    <3>10. ASSUME v11' PROVE Duplex!InTurn(w)
      <4> SUFFICES ASSUME NEW k \in 2..Len(w) PROVE Duplex!End(w[k - 1]) <= w[k].at
        BY DEF Duplex!InTurn
      <4>1. CASE k = Len(s) + 1
        <5>1. s # <<>> /\ k - 1 = Len(s) /\ k - 1 \in 1..Len(s)
          BY <1>5, <3>7, <4>1
        <5>2. w[k - 1] = Duplex!Last(s) /\ w[k] = c
          BY <3>5, <3>7, <4>1, <5>1
        <5>3. c.at >= Duplex!End(w[k - 1])
          BY <3>4, <3>10, <5>1, <5>2
        <5>4. Duplex!End(w[k - 1]) \in Nat /\ c.at \in Nat
          BY <3>5, <3>6, <5>1, <5>2 DEF Duplex!Chunk, Duplex!End
        <5> QED
          BY <5>2, <5>3, <5>4
      <4>2. CASE k # Len(s) + 1
        <5>1. k \in 2..Len(s) /\ k \in 1..Len(s) /\ k - 1 \in 1..Len(s)
          BY <1>5, <3>7, <4>2
        <5>2. v11 /\ w[k] = s[k] /\ w[k - 1] = s[k - 1]
          BY <3>4, <3>7, <3>10, <5>1
        <5> QED
          BY <1>3, <1>4, <5>1, <5>2 DEF Duplex!InTurn
      <4> QED
        BY <4>1, <4>2
    <3>11. CollectedIn(g)
      BY <1>3, <2>1, <3>8, <3>9, <3>10 DEF CollectedIn
    <3>12. v11' \in BOOLEAN
      BY <3>4
    <3> QED
      BY <1>1, <1>2, <2>1, <3>4, <3>8, <3>11, <3>12, TurnEnds
  <2> QED
    BY <2>2, <2>3
<1> QED
  BY <1>6, <1>7, <1>8, <1>9

\* The other steps.
LEMMA DuplexElsewhere ==
  ASSUME Duplex!Inv,
         \/ Duplex!NextFile \/ Duplex!Refused \/ Duplex!SampleOver \/ Duplex!IntroDrained \/ Duplex!Tick
         \/ Duplex!SendChunk \/ Duplex!SendDone \/ Duplex!ServerError \/ Duplex!ConnectionClosed
         \/ Duplex!SenderAwaited
  PROVE  Duplex!Inv'
<1>t. DuplexTyped
  BY DuplexTypes DEF Duplex!Inv
<1>a. DuplexTyped' => Duplex!TypeOK'
  BY DEF Duplex!TypeOK, DuplexTyped, Files, Lists
<1>d. Duration \in Nat /\ Silence \in Nat
  BY DuplexAssumption DEF Duplex!LengthsAssumption
<1>1. CASE Duplex!NextFile
  <2>1. /\ v3 = "next" /\ v2.left > 0 /\ v3' \in {"intro", "receive"} /\ v4' = 0 /\ v5' = [sent |-> 0, at |-> "running"]
        /\ v6' = "up" /\ v7' = 0 /\ v8' = Duplex!Nothing /\ v9' = <<>> /\ v10' = {} /\ v11' = TRUE
        /\ UNCHANGED <<v1, v2>>
    BY <1>1 DEF Duplex!NextFile
  <2>2. Duplex!Nothing \in Lists /\ Duplex!Nothing.chunks = <<>>
    BY DEF Duplex!Nothing, Lists, Duplex!Never
  <2>3. Duplex!TypeOK'
    BY <1>t, <1>a, <2>1, <2>2 DEF DuplexTyped
  <2>4. Duplex!PlacedApart' /\ Duplex!SilentOnceInterrupted' /\ Duplex!WrittenIfSent' /\ Duplex!InputSent'
    BY <2>1 DEF Duplex!PlacedApart, Duplex!SilentOnceInterrupted, Duplex!WrittenIfSent, Duplex!InputSent
  <2>5. Duplex!Collected'
    <3>1. Duplex!InTurn(<<>>)
      BY DEF Duplex!InTurn
    <3> QED
      BY <2>1, <2>2, <3>1 DEF Duplex!Collected, Duplex!EndOfCut, Duplex!InTurn
  <2>6. Duplex!FilesCounted'
    BY <2>1 DEF Duplex!Inv, Duplex!FilesCounted
  <2> QED
    BY <2>3, <2>4, <2>5, <2>6 DEF Duplex!Inv
<1>2. CASE Duplex!Refused
  <2>1. /\ v3 = "next" /\ v2.left > 0 /\ Duplex!FileOver("failed") /\ v9' = <<>> /\ v10' = {} /\ v11' = TRUE
        /\ UNCHANGED <<v1, v4, v5, v6, v7, v8>>
    BY <1>2 DEF Duplex!Refused
  <2>2. v2' \in Files /\ v3' = "next" /\ Duplex!FilesCounted'
    BY <1>t, <2>1, FileOverCounts DEF Duplex!Inv
  <2>3. Duplex!TypeOK'
    BY <1>t, <1>a, <2>1, <2>2 DEF DuplexTyped
  <2>4. Duplex!PlacedApart' /\ Duplex!SilentOnceInterrupted' /\ Duplex!WrittenIfSent' /\ Duplex!InputSent'
    BY <2>1, <2>2 DEF Duplex!PlacedApart, Duplex!SilentOnceInterrupted, Duplex!WrittenIfSent, Duplex!InputSent,
       Duplex!Inv
  <2>5. Duplex!Collected'
    BY <2>2 DEF Duplex!Collected
  <2> QED
    BY <2>2, <2>3, <2>4, <2>5 DEF Duplex!Inv
<1>3. CASE Duplex!SampleOver
  <2>1. /\ v3 = "next" /\ v3' = "exit" /\ UNCHANGED <<v1, v4, v5, v6, v7, v8, v9, v10, v11>>
        /\ v2' = [v2 EXCEPT !.failed = @ + IF v2.processed = 0 THEN 1 ELSE 0]
    BY <1>3 DEF Duplex!SampleOver
  <2>2. PICK f : f = v2
    OBVIOUS
  <2>3. PICK q : q = f.outcomes
    OBVIOUS
  <2>4. f \in Files /\ f.failed \in Nat /\ f.processed \in Nat /\ q \in Seq({"written", "failed"})
    BY <1>t, <2>2, <2>3 DEF DuplexTyped, Files
  <2>5. v2' \in Files /\ v2'.outcomes = q /\ v2'.failed = f.failed + IF f.processed = 0 THEN 1 ELSE 0
    <3>1. f.failed + (IF f.processed = 0 THEN 1 ELSE 0) \in Nat
      BY <2>4
    <3> QED
      BY <2>1, <2>2, <2>3, <2>4, <3>1 DEF Files
  <2>6. /\ (f.failed = 0) <=> (\A i \in DOMAIN q : q[i] = "written")
        /\ f.processed = 0 => \A i \in DOMAIN q : q[i] # "written"
        /\ f.processed > 0 => q # <<>>
    BY <2>1, <2>2, <2>3 DEF Duplex!Inv, Duplex!FilesCounted
  <2>7. (v2'.failed = 0) <=> (f.failed = 0 /\ f.processed > 0)
    BY <2>4, <2>5
  <2>8. (q # <<>> /\ Duplex!ToSet(q) = {"written"}) <=> (f.failed = 0 /\ f.processed > 0)
    <3>1. DOMAIN q = 1..Len(q) /\ Len(q) \in Nat /\ Duplex!ToSet(q) = {q[i] : i \in DOMAIN q}
      BY <2>4 DEF Duplex!ToSet
    <3>2. ASSUME q # <<>>, Duplex!ToSet(q) = {"written"} PROVE f.failed = 0 /\ f.processed > 0
      <4>1. 1 \in DOMAIN q
        BY <2>4, <3>1, <3>2
      <4>2. \A i \in DOMAIN q : q[i] = "written"
        BY <3>1, <3>2
      <4> QED
        BY <2>4, <2>6, <4>1, <4>2
    <3>3. ASSUME f.failed = 0, f.processed > 0 PROVE q # <<>> /\ Duplex!ToSet(q) = {"written"}
      <4>1. 1 \in DOMAIN q /\ q # <<>>
        BY <2>4, <2>6, <3>1, <3>3
      <4>2. \A i \in DOMAIN q : q[i] = "written"
        BY <2>6, <3>3
      <4> QED
        BY <3>1, <4>1, <4>2
    <3> QED
      BY <3>2, <3>3
  <2>9. Duplex!TypeOK'
    BY <1>t, <1>a, <2>1, <2>5 DEF DuplexTyped
  <2>10. Duplex!WrittenIfSent'
    BY <2>1, <2>5, <2>7, <2>8 DEF Duplex!WrittenIfSent, Duplex!ToSet
  <2>11. Duplex!PlacedApart' /\ Duplex!SilentOnceInterrupted' /\ Duplex!InputSent'
    BY <2>1 DEF Duplex!Inv, Duplex!PlacedApart, Duplex!SilentOnceInterrupted, Duplex!InputSent
  <2>12. Duplex!Collected' /\ Duplex!FilesCounted'
    BY <2>1 DEF Duplex!Collected, Duplex!FilesCounted
  <2> QED
    BY <2>9, <2>10, <2>11, <2>12 DEF Duplex!Inv
<1>4. CASE Duplex!IntroDrained \/ Duplex!Tick \/ Duplex!ConnectionClosed
  <2>1. /\ v3 \in {"intro", "receive", "closed"} /\ v3' \in {"intro", "receive", "closed"}
        /\ v4' \in {v4, v4 + 1} /\ v6' \in {v6, "closed"} /\ UNCHANGED <<v1, v2, v5, v7, v8, v9, v10, v11>>
    BY <1>4 DEF Duplex!IntroDrained, Duplex!Tick, Duplex!ConnectionClosed
  <2>2. v4' \in Nat /\ v9 = <<>>
    BY <1>t, <2>1 DEF DuplexTyped, Duplex!Inv, Duplex!InputSent
  <2>3. Duplex!TypeOK'
    BY <1>t, <1>a, <2>1, <2>2 DEF DuplexTyped
  <2>4. Duplex!PlacedApart' /\ Duplex!SilentOnceInterrupted' /\ Duplex!WrittenIfSent' /\ Duplex!InputSent'
    BY <2>1, <2>2 DEF Duplex!PlacedApart, Duplex!SilentOnceInterrupted, Duplex!WrittenIfSent, Duplex!InputSent,
       Duplex!Inv
  <2>5. Duplex!Collected' /\ Duplex!FilesCounted'
    BY <2>1 DEF Duplex!Inv, Duplex!Collected, Duplex!EndOfCut, Duplex!InTurn, Duplex!FilesCounted
  <2> QED
    BY <2>3, <2>4, <2>5 DEF Duplex!Inv
<1>5. CASE Duplex!SendChunk \/ Duplex!SendDone
  <2>1. /\ v3 \in {"receive", "closed"} /\ UNCHANGED <<v1, v2, v3, v4, v6, v7, v8, v9, v10, v11>>
        /\ \/ v5' \in {[v5 EXCEPT !.at = "failed"], [v5 EXCEPT !.sent = @ + 1]} /\ v5.at = "running"
           \/ v5' = [v5 EXCEPT !.at = "done"] /\ v5.sent = Duration + Silence
    BY <1>5 DEF Duplex!SendChunk, Duplex!SendDone
  <2>2. v5 \in [sent : Nat, at : {"running", "done", "failed"}] /\ v5.sent + 1 \in Nat
    BY <1>t DEF DuplexTyped
  <2>3. v5' \in [sent : Nat, at : {"running", "done", "failed"}] /\ (v5'.at = "done" => v5'.sent = Duration + Silence)
    BY <2>1, <2>2
  <2>4. v9 = <<>>
    BY <2>1 DEF Duplex!Inv, Duplex!InputSent
  <2>5. Duplex!TypeOK'
    BY <1>t, <1>a, <2>1, <2>3 DEF DuplexTyped
  <2>6. Duplex!PlacedApart' /\ Duplex!SilentOnceInterrupted' /\ Duplex!WrittenIfSent' /\ Duplex!InputSent'
    BY <2>1, <2>3, <2>4 DEF Duplex!PlacedApart, Duplex!SilentOnceInterrupted, Duplex!WrittenIfSent,
       Duplex!InputSent
  <2>7. Duplex!Collected' /\ Duplex!FilesCounted'
    BY <2>1 DEF Duplex!Inv, Duplex!Collected, Duplex!EndOfCut, Duplex!InTurn, Duplex!FilesCounted
  <2> QED
    BY <2>5, <2>6, <2>7 DEF Duplex!Inv
<1>6. CASE Duplex!ServerError \/ Duplex!SenderAwaited
  <2>1. /\ v3 \in {"receive", "closed"} /\ UNCHANGED <<v1, v4, v5, v6, v7, v8, v10, v11>>
    BY <1>6 DEF Duplex!ServerError, Duplex!SenderAwaited, Duplex!Receiving
  <2>2. PICK g : g = v8
    OBVIOUS
  <2>3. FileFailed \/ FileWritten(g.chunks)
    BY <1>6, <2>2 DEF Duplex!ServerError, Duplex!SenderAwaited, Duplex!Fail, Duplex!Write, FileFailed, FileWritten
  <2>4. CollectedIn(g)
    BY <2>1, <2>2 DEF Duplex!Inv, Duplex!Collected, Duplex!EndOfCut, CollectedIn, Ended
  <2>5. g \in Lists /\ v7' \in Nat /\ v10' \subseteq [of : Nat, at : Nat] /\ v11' \in BOOLEAN /\ v6' \in {"up", "closed"}
    BY <1>t, <2>1, <2>2 DEF DuplexTyped
  <2> QED
    BY <2>1, <2>2, <2>3, <2>4, <2>5, FileEnds
<1> QED
  BY <1>1, <1>2, <1>3, <1>4, <1>5, <1>6

LEMMA DuplexStep == Duplex!Inv /\ Duplex!Next => Duplex!Inv'
BY DuplexReceives, DuplexElsewhere DEF Duplex!Next

LEMMA DuplexInit == Duplex!Init => Duplex!Inv
<1> SUFFICES ASSUME Duplex!Init PROVE Duplex!Inv
  OBVIOUS
<1>1. PICK n \in 0..2 : v2 = [left |-> n, processed |-> 0, failed |-> 0, outcomes |-> <<>>]
  BY DEF Duplex!Init
<1>2. /\ v1 \in [proto : {"rtvi", "realtime"}, late : BOOLEAN, intro : BOOLEAN]
      /\ v3 = "next" /\ v4 = 0 /\ v5 = [sent |-> 0, at |-> "running"] /\ v6 = "up" /\ v7 = 0
      /\ v8 = Duplex!Nothing /\ v9 = <<>> /\ v10 = {} /\ v11 = TRUE
  BY DEF Duplex!Init
<1>3. v2 \in Files /\ v8 \in Lists
  BY <1>1, <1>2 DEF Files, Lists, Duplex!Nothing, Duplex!Never
<1>4. Duplex!TypeOK
  BY <1>2, <1>3, DuplexTypes DEF DuplexTyped
<1>5. Duplex!PlacedApart /\ Duplex!SilentOnceInterrupted /\ Duplex!WrittenIfSent /\ Duplex!InputSent /\ Duplex!Collected
  BY <1>2 DEF Duplex!PlacedApart, Duplex!SilentOnceInterrupted, Duplex!WrittenIfSent, Duplex!InputSent,
     Duplex!Collected
<1>6. Duplex!FilesCounted
  BY <1>1, <1>2 DEF Duplex!FilesCounted
<1> QED
  BY <1>4, <1>5, <1>6 DEF Duplex!Inv

LEMMA DuplexUnchanged == Duplex!Inv /\ UNCHANGED Duplex!vars => Duplex!Inv'
<1> SUFFICES ASSUME Duplex!Inv, UNCHANGED Duplex!vars PROVE Duplex!Inv'
  OBVIOUS
<1>1. UNCHANGED <<v1, v2, v3, v4, v5, v6, v7, v8, v9, v10, v11>>
  BY DEF Duplex!vars
<1> QED
  BY <1>1 DEF Duplex!Inv, Duplex!TypeOK, Duplex!PlacedApart, Duplex!SilentOnceInterrupted, Duplex!WrittenIfSent,
     Duplex!InputSent, Duplex!Collected, Duplex!EndOfCut, Duplex!FilesCounted

DuplexSafe ==
  /\ component = "benchmark" => Benchmark!Inv
  /\ component = "duplex" => Duplex!Inv
\* The scaling benchmark measures each Realtime turn by the response it heard,
\* reports no response's metadata twice and counts every turn it began once
\* (realtime_client.py, benchmark_core.py), and a Full-Duplex-Bench client
\* writes, for whatever audio, pauses and interruptions, chunks that do not
\* overlap, nothing past an interruption, and a file only when all of the input
\* was sent (inference_rtvi.py, inference_realtime.py).
THEOREM MeasurementsApart == Spec => []TurnsKeptApart
<1>1. Init => DuplexSafe
  BY BenchInit, DuplexInit DEF Init, DuplexSafe
<1>2. DuplexSafe /\ [Next]_vars => DuplexSafe'
  <2> SUFFICES ASSUME DuplexSafe, [Next]_vars PROVE DuplexSafe'
    OBVIOUS
  <2>1. ASSUME component' = "benchmark" PROVE Benchmark!Inv'
    <3>1. CASE component = "benchmark" /\ Benchmark!Next
      BY <3>1, BenchStep DEF DuplexSafe
    <3>2. CASE UNCHANGED vars
      BY <2>1, <3>2, BenchUnchanged DEF DuplexSafe, vars, Benchmark!vars, Benchmark!client
    <3> QED
      BY <2>1, <3>1, <3>2 DEF Next
  <2>2. ASSUME component' = "duplex" PROVE Duplex!Inv'
    <3>1. CASE component = "duplex" /\ Duplex!Next
      BY <3>1, DuplexStep DEF DuplexSafe
    <3>2. CASE UNCHANGED vars
      BY <2>2, <3>2, DuplexUnchanged DEF DuplexSafe, vars, Duplex!vars
    <3> QED
      BY <2>2, <3>1, <3>2 DEF Next
  <2> QED
    BY <2>1, <2>2 DEF DuplexSafe
<1>3. DuplexSafe => TurnsKeptApart
  BY DEF DuplexSafe, TurnsKeptApart, Benchmark!Inv, Duplex!Inv
<1> QED
  BY <1>1, <1>2, <1>3, PTL DEF Spec
==============================================================================
