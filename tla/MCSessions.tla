------------------------------ MODULE MCSessions ------------------------------
(***************************************************************************)
(* What a session is made of, from the browser to the turns of its user,   *)
(* in one TLC run: the browser, the server's tables, the configuration and *)
(* the speech catalogs it is made from, the user's turns and transcripts,  *)
(* and the clients of the streaming and realtime servers.  They share no   *)
(* state, so they share the variables v1, v2, ...: component says whose    *)
(* they are, and the INSTANCEs what they stand for.                        *)
(***************************************************************************)
EXTENDS Integers, Sequences, FiniteSets, SequencesExt
CONSTANTS
  Sids, Conns, Posts, Configs, Capable, Default,                     \* Sessions
  Sections, SlotOrder, Catalog, Cloud, Examples, Locked, First,      \* SessionConfig
  Profile, MaxTokens, ClientNumbers, Diarize,
  Callers, Keys, Server(_), Listing(_), Langs, English, Spanish,     \* SpeechCatalog
  AsrLists, Llm,
  Drawn,                                                             \* GenericTools
  MaxClicks, MaxGenerations,                                         \* BrowserSession
  MaxTurns, MaxClock, MaxFinals,                                     \* RealtimeUserTurn
  MaxQuestions, MaxReplies, MaxAudio, MaxErrors,                     \* BenchmarkTurns
  Duration, Silence, ResponseTimeout, IdleTimeout, MaxPostSend,      \* FullDuplexClient
  MaxTime, MaxBots, MaxChunks, Lengths,
  Tags, NoTag, MaxTagged, MaxPerResult, MaxTurnCloses,               \* Diarization
  UserWords, MaxUserWords, MaxUserTurns, MaxUpdates, MaxLinks,       \* StreamingClient
  nothing, c1, c2, c3, p1, p2, s1, omni, generic, magpie,            \* values for TLC
  zeroshot, cloud, en, es, de
VARIABLES component,
  v1, v2, v3, v4, v5, v6, v7, v8, v9, v10, v11, v12, v13, v14, v15, v16

(* SessionConfig: two self-hosted sections that share their keys, the cloud
   variants of the first, an example with all the capabilities and one that
   only has an LLM. *)
Entry(section, slot, key, endpoint, diarizes, streams, hosted) ==
  [section |-> section, slot |-> slot, key |-> key, endpoint |-> endpoint,
   diarizes |-> diarizes, streams |-> streams, cloud |-> hosted]
MCCatalog == {Entry("server", "llm", "nano", "e1", FALSE, FALSE, TRUE),
              Entry("server", "asr", "parakeet", "e2", TRUE, FALSE, TRUE),
              Entry("single-gpu", "llm", "nano", "e3", FALSE, TRUE, FALSE),
              Entry("single-gpu", "asr", "parakeet", "e4", FALSE, FALSE, FALSE)}
MCExamples == [omni |-> [slots |-> {"llm", "asr"}, capabilities |-> {"labels", "streaming"},
                         keys |-> <<"nano", "parakeet">>],
               text |-> [slots |-> {"llm"}, capabilities |-> {}, keys |-> <<"nano">>]]
MCSections == <<"server", "single-gpu">>
MCSlots    == <<"llm", "asr">>
MCProfile  == [min |-> 2, top |-> 12, reserve |-> 1, budget |-> 10, thinking |-> FALSE]

(* SpeechCatalog: two cloud functions of one server, a multilingual one with
   voices scoped to a language and a zero-shot one whose speakers speak every
   language. *)
MCServer(k) == cloud
MCListing(k) ==
  IF k = magpie
  THEN {[languages |-> {en, de}, scoped |-> {[id |-> "aria", language |-> en],
                                             [id |-> "sofia", language |-> de]},
         speakers |-> {}]}
  ELSE {[languages |-> {en, es}, scoped |-> {}, speakers |-> {"female"}]}

(* GenericTools: bounds on both sides of zero. *)
MCDrawn == -1..2

Tables == INSTANCE Sessions WITH
  None <- nothing, stored <- v1, active <- v2, posted <- v3, conns <- v4, posts <- v5, media <- v6,
  request <- v7, asked <- v8
Config == INSTANCE SessionConfig WITH
  None <- nothing, Order <- SlotOrder, Numbers <- ClientNumbers, reach <- v1, steady <- v2,
  body <- v3, at <- v4
Speech == INSTANCE SpeechCatalog WITH
  None <- nothing, cache <- v1, legacy <- v2, asr <- v3, caller <- v4, worker <- v5
Tools == INSTANCE GenericTools WITH
  Numbers <- Drawn, call <- v1, at <- v2, todo <- v3, results <- v4
Benchmark == INSTANCE BenchmarkTurns WITH
  MaxTurns <- MaxQuestions, MaxResponses <- MaxReplies, proto <- v1, up <- v2, chan <- v3,
  server <- v4, phase <- v5, turn <- v6, sending <- v7, early <- v8, why <- v9,
  collecting <- v10, stats <- v11, events <- v12, marker <- v13, heard <- v14, metered <- v15,
  result <- v16
Duplex == INSTANCE FullDuplexClient WITH
  MaxResponses <- MaxBots, mode <- v1, files <- v2,
  phase <- v3, now <- v4, sender <- v5, link <- v6, response <- v7, got <- v8, out <- v9,
  cuts <- v10, paced <- v11
Browser == INSTANCE BrowserSession WITH
  transport <- v1, generation <- v2, client <- v3,
  task <- v4, made <- v5, currentSessionId <- v6
Turns == INSTANCE RealtimeUserTurn WITH
  user <- v1, clock <- v2, uncommitted <- v3,
  speaking <- v4, turns <- v5, finals <- v6, wire <- v7
Transcripts == INSTANCE Diarization WITH
  MaxWords <- MaxTagged, MaxCloses <- MaxTurnCloses, multi <- v1, spoken <- v2,
  processor <- v3, queue <- v4, message <- v5, shown <- v6, closed <- v7
Client == INSTANCE StreamingClient WITH
  Words <- UserWords, MaxWords <- MaxUserWords, MaxTurns <- MaxUserTurns, at <- v1,
  job <- v2, session <- v3, link <- v4, toServer <- v5, toClient <- v6, server <- v7,
  history <- v8, updates <- v9, links <- v10, yielded <- v11, marred <- v12

ASSUME TranscriptsAssumption == Transcripts!ResultsAssumption
ASSUME ConfigsAssumption == Tables!ConfigsAssumption
ASSUME ConfigAssumption == Config!CatalogAssumption /\ Config!ProfileAssumption
ASSUME SpeechAssumption == Speech!LanguagesAssumption
ASSUME DuplexAssumption == Duplex!LengthsAssumption
ASSUME BrowserAssumption == Browser!BoundsAssumption
ASSUME TurnsAssumption == Turns!BoundsAssumption

vars == <<component, v1, v2, v3, v4, v5, v6, v7, v8, v9, v10, v11, v12, v13, v14, v15, v16>>
Init ==
  \/ /\ component = "tables" /\ Tables!Init
     /\ v9 = 0 /\ v10 = 0 /\ v11 = 0 /\ v12 = 0 /\ v13 = 0 /\ v14 = 0 /\ v15 = 0 /\ v16 = 0
  \/ /\ component = "config" /\ Config!Init
     /\ v5 = 0 /\ v6 = 0 /\ v7 = 0 /\ v8 = 0 /\ v9 = 0 /\ v10 = 0 /\ v11 = 0 /\ v12 = 0
     /\ v13 = 0 /\ v14 = 0 /\ v15 = 0 /\ v16 = 0
  \/ /\ component = "speech" /\ Speech!Init
     /\ v6 = 0 /\ v7 = 0 /\ v8 = 0 /\ v9 = 0 /\ v10 = 0 /\ v11 = 0 /\ v12 = 0 /\ v13 = 0
     /\ v14 = 0 /\ v15 = 0 /\ v16 = 0
  \/ /\ component = "tools" /\ Tools!Init
     /\ v5 = 0 /\ v6 = 0 /\ v7 = 0 /\ v8 = 0 /\ v9 = 0 /\ v10 = 0 /\ v11 = 0 /\ v12 = 0
     /\ v13 = 0 /\ v14 = 0 /\ v15 = 0 /\ v16 = 0
  \/ /\ component = "benchmark" /\ Benchmark!Init
  \/ /\ component = "duplex" /\ Duplex!Init
     /\ v12 = 0 /\ v13 = 0 /\ v14 = 0 /\ v15 = 0 /\ v16 = 0
  \/ /\ component = "browser" /\ Browser!Init
     /\ v7 = 0 /\ v8 = 0 /\ v9 = 0 /\ v10 = 0 /\ v11 = 0 /\ v12 = 0 /\ v13 = 0 /\ v14 = 0
     /\ v15 = 0 /\ v16 = 0
  \/ /\ component = "turns" /\ Turns!Init
     /\ v8 = 0 /\ v9 = 0 /\ v10 = 0 /\ v11 = 0 /\ v12 = 0 /\ v13 = 0 /\ v14 = 0 /\ v15 = 0
     /\ v16 = 0
  \/ /\ component = "transcripts" /\ Transcripts!Init
     /\ v8 = 0 /\ v9 = 0 /\ v10 = 0 /\ v11 = 0 /\ v12 = 0 /\ v13 = 0 /\ v14 = 0 /\ v15 = 0
     /\ v16 = 0
  \/ /\ component = "client" /\ Client!Init
     /\ v13 = 0 /\ v14 = 0 /\ v15 = 0 /\ v16 = 0
Next ==
  /\ UNCHANGED component
  /\ \/ component = "tables" /\ Tables!Next /\ UNCHANGED <<v9, v10, v11, v12, v13, v14, v15, v16>>
     \/ component = "config" /\ Config!Next /\ UNCHANGED <<v5, v6, v7, v8, v9, v10, v11, v12, v13, v14, v15, v16>>
     \/ component = "speech" /\ Speech!Next /\ UNCHANGED <<v6, v7, v8, v9, v10, v11, v12, v13, v14, v15, v16>>
     \/ component = "tools" /\ Tools!Next /\ UNCHANGED <<v5, v6, v7, v8, v9, v10, v11, v12, v13, v14, v15, v16>>
     \/ component = "benchmark" /\ Benchmark!Next
     \/ component = "duplex" /\ Duplex!Next /\ UNCHANGED <<v12, v13, v14, v15, v16>>
     \/ component = "browser" /\ Browser!Next /\ UNCHANGED <<v7, v8, v9, v10, v11, v12, v13, v14, v15, v16>>
     \/ component = "turns" /\ Turns!Next /\ UNCHANGED <<v8, v9, v10, v11, v12, v13, v14, v15, v16>>
     \/ component = "transcripts" /\ Transcripts!Next /\ UNCHANGED <<v8, v9, v10, v11, v12, v13, v14, v15, v16>>
     \/ component = "client" /\ Client!Next /\ UNCHANGED <<v13, v14, v15, v16>>
Spec == Init /\ [][Next]_vars

\* The tables of stored and active session configs (Sessions): the first comer
\* runs what was posted, a lone bot is the active one, and a session that ended
\* is dropped.
TablesInStep ==
  component = "tables" =>
    /\ Tables!TypeOK /\ Tables!FirstComerRunsPost
    /\ Tables!LoneBotIsActive /\ Tables!EndedSessionDropped /\ Tables!Inv

\* The checks of uploads, frames and captures against them (Sessions).
MediaAsAllowed ==
  component = "tables" => Tables!MediaOnlyForCapable /\ Tables!CaptureAnsweredOnce

\* The session a request is turned into (SessionConfig): the reasoning budget
\* fits in the tokens, and two readings of a catalog that stands still agree.
ConfigAsServed ==
  component = "config" => Config!BudgetFits /\ Config!SteadyReadsAgree /\ Config!Inv

\* The voices and languages a client is offered (SpeechCatalog).
OffersServed ==
  component = "speech" =>
    Speech!OfferCanBeServed /\ Speech!CatalogsDoNotCollide /\ Speech!Inv

\* A tool call gets one result at most (GenericTools).
AnsweredAtMostOnce ==
  component = "tools" => Tools!AnsweredAtMostOnce

\* The measurements of a turn are of its own response (BenchmarkTurns); the file
\* written for a sample holds the responses of its own session, one after the
\* other and none past its interruption (FullDuplexClient).
TurnsKeptApart ==
  /\ component = "benchmark" => Benchmark!Inv /\ Benchmark!TurnsKeptApart
  /\ component = "duplex" =>
       Duplex!PlacedApart /\ Duplex!SilentOnceInterrupted /\ Duplex!WrittenIfSent /\ Duplex!Inv

\* The session id the page uses is of the connection it has (BrowserSession).
IdOfThisConnection ==
  component = "browser" => Browser!IdOfThisConnection /\ Browser!Inv

\* The user's items on the realtime wire (RealtimeUserTurn): each event in its
\* order, one item per turn, turns apart.
UserTurnsInOrder ==
  component = "turns" =>
    Turns!ItemOrder /\ Turns!ItemPerTurn /\ Turns!TurnsDisjoint /\ Turns!Inv

\* The speaker-labelled transcript (Diarization): the browser shows the words
\* the LLM reads, under turn ids of their own.
TranscriptsAgree ==
  component = "transcripts" =>
    Transcripts!TranscriptsAgree /\ Transcripts!FreshTurnIds /\ Transcripts!Inv

\* The streaming LLM service reads the answer of its own commit
\* (StreamingClient).
UnmarredAnswers ==
  component = "client" => Client!UnmarredAnswers /\ Client!Inv

==============================================================================
