------------------------------ MODULE SpeechCatalog ------------------------------
(***************************************************************************)
(* What the speech services say they can speak and hear                    *)
(* (src/src/examples/shared/prewarm.py, src/src/config_store.py) and the   *)
(* three users of it: the language catalog of a client                     *)
(* (server.tts_config), the voice catalog of one TTS, and the start of a   *)
(* multilingual session, which is locked to one language and needs a voice *)
(* of its own TTS for it.                                                  *)
(*                                                                         *)
(* A catalog is cached under its routing key (server, function, model) and *)
(* once more as config_store["tts"], for readers without a key.  Every     *)
(* caller is a thread of its own; it has a worker thread list the catalog  *)
(* and waits TTS_PREWARM_RPC_TIMEOUT_SECS for it.                          *)
(***************************************************************************)
EXTENDS Naturals, FiniteSets

CONSTANTS
  Callers,     \* one thread each
  Keys,        \* routing keys of the TTS catalogs
  Server(_),   \* the server of a key: cloud functions share one
  Listing(_),  \* what the service of a key lists: a set of model configurations
  Langs, English, Spanish,
  AsrLists,    \* the languages the ASR lists; empty for a model that hears all
  Llm,         \* the languages of the LLM, or Langs if it declares none
  None

LanguagesAssumption == Llm \subseteq Langs

VARIABLES
  cache,    \* config_store by routing key: the key whose service listed it
  legacy,   \* config_store["tts"]
  asr,      \* config_store by ASR key: whether the listing has been cached
  caller,   \* by caller: how far it is, with which key, purpose and outcome
  worker    \* by caller: the RPC of its worker thread

vars == <<cache, legacy, asr, caller, worker>>

Purposes == {"voices", "languages", "session"}
Idle == [at |-> "idle", key |-> None, purpose |-> "voices", catalog |-> None,
         language |-> None, voice |-> None, offered |-> {}, hears |-> {}]

(***************************************************************************)
(* Catalogs.                                                               *)
(***************************************************************************)
\* _parse_tts_config.  A model configuration declares languages; it lists
\* voices by language, voices scoped to a language, or speakers that speak all
\* the languages of the configuration (English if it has none).
ConfigLanguages(m) == m.languages \cup {v.language : v \in m.scoped}
SharedBy(m) == IF ConfigLanguages(m) = {} THEN {English} ELSE ConfigLanguages(m)
VoicesOf(k) ==
  UNION {m.scoped \cup {[id |-> i, language |-> l] : i \in m.speakers, l \in SharedBy(m)}
           : m \in Listing(k)}
LanguagesOf(k) == UNION {ConfigLanguages(m) : m \in Listing(k)}

\* _tts_language_set
Speaks(k) == LanguagesOf(k) \cup {v.language : v \in VoicesOf(k)}

\* intersect_session_languages, with a Spanish-only ASR standing for one that
\* lists nothing.
Intersect(k, hears) ==
  IF k = None THEN {}
  ELSE Speaks(k) \cap (IF hears = {} THEN {Spanish} ELSE hears) \cap Llm

\* resolve_voice_for_language, load_voice_map: the preferred voice or the first
\* listed one of the language; None leaves the session the voice it asked for.
VoiceIn(k, language) ==
  LET speak == {v \in VoicesOf(k) : v.language = language}
  IN IF speak = {} THEN {None} ELSE speak

\* A bug: cloud functions of one server share a cache entry.
ByServer(k) == CHOOSE o \in Keys : Server(o) = Server(k)

\* _tts_cache_key
CacheKey(k) == k

\* The catalog a key is resolved from: its own, or the legacy entry.
CatalogFor(k) == IF cache[CacheKey(k)] # None THEN cache[CacheKey(k)] ELSE legacy

Request ==
  [at : {"idle", "waiting", "joining", "storing", "announcing", "listed", "done"},
   key : Keys \cup {None}, purpose : Purposes, catalog : Keys \cup {None},
   language : Langs \cup {None}, voice : (UNION {VoicesOf(k) : k \in Keys}) \cup {None},
   offered : SUBSET Langs, hears : {AsrLists, {}}]
TypeOK ==
  /\ cache \in [Keys -> Keys \cup {None}] /\ legacy \in Keys \cup {None}
  /\ asr \in BOOLEAN
  /\ worker \in [Callers -> {"none", "calling", "answered", "failed"}]
  /\ caller \in [Callers -> Request]

Init ==
  /\ cache = [k \in Keys |-> None] /\ legacy = None /\ asr = FALSE
  /\ caller = [c \in Callers |-> Idle]
  /\ worker = [c \in Callers |-> "none"]

(***************************************************************************)
(* prewarm_tts, get_tts_config, peek_cached_tts_config                     *)
(***************************************************************************)
Begun(c, k, purpose, language, at, catalog) ==
  caller' = [caller EXCEPT ![c] = [Idle EXCEPT !.at = at, !.key = k, !.purpose = purpose,
                                   !.language = language, !.catalog = catalog]]

\* A cached catalog becomes the legacy entry too.
Hit(c, k, purpose, language) ==
  /\ caller[c].at = "idle" /\ cache[CacheKey(k)] # None
  /\ Begun(c, k, purpose, language, "listed", cache[CacheKey(k)])
  /\ legacy' = cache[CacheKey(k)]
  /\ UNCHANGED <<cache, asr, worker>>

Miss(c, k, purpose, language) ==
  /\ caller[c].at = "idle" /\ cache[CacheKey(k)] = None
  /\ Begun(c, k, purpose, language, "waiting", None)
  /\ worker' = [worker EXCEPT ![c] = "calling"]
  /\ UNCHANGED <<cache, legacy, asr>>

\* _fetch: the service answers, or the call fails.
Answers(c) ==
  /\ worker[c] = "calling"
  /\ worker' = [worker EXCEPT ![c] = "answered"]
  /\ UNCHANGED <<cache, legacy, asr, caller>>
Fails(c) ==
  /\ worker[c] = "calling"
  /\ worker' = [worker EXCEPT ![c] = "failed"]
  /\ UNCHANGED <<cache, legacy, asr, caller>>

\* result() returns; a failure is not cached, so that the next caller retries.
Take(c) ==
  /\ caller[c].at = "waiting" /\ worker[c] \in {"answered", "failed"}
  /\ caller' = [caller EXCEPT ![c].at = IF worker[c] = "answered" THEN "storing" ELSE "listed"]
  /\ UNCHANGED <<cache, legacy, asr, worker>>

\* result() raises TimeoutError, and the `with` of the pool joins the worker.
TimesOut(c) ==
  /\ caller[c].at = "waiting" /\ worker[c] = "calling"
  /\ caller' = [caller EXCEPT ![c].at = "joining"]
  /\ UNCHANGED <<cache, legacy, asr, worker>>

\* What the worker fetched in the end is thrown away.
Joined(c) ==
  /\ caller[c].at = "joining" /\ worker[c] # "calling"
  /\ caller' = [caller EXCEPT ![c].at = "listed"]
  /\ UNCHANGED <<cache, legacy, asr, worker>>

Store(c) ==
  /\ caller[c].at = "storing"
  /\ cache' = [cache EXCEPT ![CacheKey(caller[c].key)] = caller[c].key]
  /\ caller' = [caller EXCEPT ![c].at = "announcing", ![c].catalog = caller[c].key]
  /\ UNCHANGED <<legacy, asr, worker>>

Announce(c) ==
  /\ caller[c].at = "announcing"
  /\ legacy' = caller[c].key
  /\ caller' = [caller EXCEPT ![c].at = "listed"]
  /\ UNCHANGED <<cache, asr, worker>>

(***************************************************************************)
(* What the callers do with it.                                            *)
(***************************************************************************)
\* tts_config, realtime voices: the catalog itself.
ReturnVoices(c) ==
  /\ caller[c].at = "listed" /\ caller[c].purpose = "voices"
  /\ caller' = [caller EXCEPT ![c].at = "done"]
  /\ UNCHANGED <<cache, legacy, asr, worker>>

\* prewarm_asr: cached, listed, or failed, when nothing is known of it.
PrewarmAsr(hears) ==
  \/ hears = AsrLists /\ asr' = TRUE
  \/ ~asr /\ hears = {} /\ UNCHANGED asr

\* build_session_languages
ReturnLanguages(c) ==
  /\ caller[c].at = "listed" /\ caller[c].purpose = "languages"
  /\ \E hears \in {AsrLists, {}} :
       /\ PrewarmAsr(hears)
       /\ caller' = [caller EXCEPT ![c].at = "done", ![c].hears = hears,
                       ![c].offered = Intersect(caller[c].catalog, hears)]
  /\ UNCHANGED <<cache, legacy, worker>>

\* The voice of the locked language, or the one the session came with.
SessionVoices(c) ==
  IF CatalogFor(caller[c].key) = None THEN {None}
  ELSE VoiceIn(CatalogFor(caller[c].key), caller[c].language)

\* bot of the multilingual pipeline: both services are listed, then a voice is
\* resolved for the language the session is locked to.
StartSession(c) ==
  /\ caller[c].at = "listed" /\ caller[c].purpose = "session"
  /\ \E hears \in {AsrLists, {}} : PrewarmAsr(hears)
  /\ \E v \in SessionVoices(c) :
       caller' = [caller EXCEPT ![c].at = "done", ![c].voice = v,
                    ![c].catalog = CatalogFor(caller[c].key)]
  /\ UNCHANGED <<cache, legacy, worker>>

\* validate_llm_session_language refuses the others before anything is listed.
MayLock(purpose, language) == purpose = "session" => language \in Llm

Caller(c) ==
  \/ \E k \in Keys, purpose \in Purposes, language \in Langs :
       MayLock(purpose, language) /\ (Hit(c, k, purpose, language) \/ Miss(c, k, purpose, language))
  \/ Take(c) \/ TimesOut(c) \/ Joined(c) \/ Store(c) \/ Announce(c)
  \/ ReturnVoices(c) \/ ReturnLanguages(c) \/ StartSession(c)
Next == \E c \in Callers : Caller(c) \/ Answers(c) \/ Fails(c)

\* The threads and their timer run; nothing makes a service answer.
Fairness == \A c \in Callers :
  WF_vars(Take(c) \/ TimesOut(c) \/ Joined(c) \/ Store(c) \/ Announce(c)
          \/ ReturnVoices(c) \/ ReturnLanguages(c) \/ StartSession(c))
Spec == Init /\ [][Next]_vars
FairSpec == Spec /\ Fairness

(***************************************************************************)
(* Properties.                                                             *)
(***************************************************************************)
\* The catalogs of two functions of one cloud server never take each other's
\* place, and a caller that was listed a catalog was listed its own
\* (_tts_cache_key, and prewarm_tts by several threads at once).
CatalogsDoNotCollide ==
  /\ \A k \in Keys : cache[k] \in {k, None}
  /\ \A c \in Callers : (caller[c].catalog # None /\ caller[c].purpose # "session")
                           => caller[c].catalog = caller[c].key

\* A language on offer is spoken by the TTS, answered by the LLM and, where the
\* ASR could be listed, heard by it; a voice found for a session speaks the
\* language the session is locked to (intersect_session_languages,
\* resolve_voice_for_language).
OfferCanBeServed ==
  \A c \in Callers :
    /\ caller[c].offered \subseteq Llm
    /\ caller[c].offered # {} => /\ caller[c].offered \subseteq Speaks(caller[c].key)
                                 /\ caller[c].hears # {} => caller[c].offered \subseteq caller[c].hears
    /\ caller[c].voice # None => caller[c].voice.language = caller[c].language

\* The inductive invariant: a caller that has begun has a key, and one that has
\* not has been listed nothing.
Begins ==
  \A c \in Callers : IF caller[c].at = "idle" THEN caller[c] = Idle ELSE caller[c].key \in Keys
Inv == TypeOK /\ Begins /\ CatalogsDoNotCollide /\ OfferCanBeServed

\* "The list RPC is bounded by TTS_PREWARM_RPC_TIMEOUT_SECS": a caller gets its
\* answer, a catalog or an error, whatever the service does (prewarm_tts).
ListingBounded ==
  \A c \in Callers : caller[c].at = "waiting" ~> caller[c].at = "done"

\* A session has a voice of its own TTS: the voices of another service are
\* never tried on it (resolve_voice_for_language reads the legacy entry of
\* whichever service was listed last when its own could not be listed).
VoiceOfOwnService ==
  \A c \in Callers : (caller[c].purpose = "session" /\ caller[c].voice # None)
                       => caller[c].catalog = caller[c].key
==================================================================================
