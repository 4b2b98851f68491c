------------------------------ MODULE SessionConfig ------------------------------
(***************************************************************************)
(* How the body a client posts becomes the configuration of its session    *)
(* (src/src/utils.py, src/src/examples_registry.py and                     *)
(* server._sanitize_session_config): the example is found, the keys of     *)
(* other examples are dropped, built-in selections take their details from *)
(* services.yaml, the editable settings are checked, and a prompt for      *)
(* several speakers is replaced where nobody could tell them apart.        *)
(*                                                                         *)
(* services.yaml is read anew for every slot, and which of its self-hosted *)
(* sections is read depends on what can be reached at that moment, by      *)
(* probes that are remembered for a few seconds.                           *)
(***************************************************************************)
EXTENDS Integers, Sequences, FiniteSets, FiniteSetsExt

CONSTANTS
  Sections,    \* the self-hosted sections, in the order of SELF_HOSTED_RECIPES
  Order,       \* the slots, in the order of hydration
  Catalog,     \* entries: section, slot, key, endpoint, whether it diarizes,
               \* streams and has a cloud variant
  Cloud,       \* NVIDIA_API_KEY is a real key
  Examples,    \* by key: slots, capabilities, order of its service keys
  Locked,      \* the example the selection is locked to, or None
  First,       \* the first example of the registry
  Profile,     \* settings of the LLM: min, top and reserve of the budget,
               \* its default, and whether reasoning is on by default
  MaxTokens,   \* the largest max_tokens
  Numbers,     \* numbers a client may send
  Diarize,     \* ENABLE_SPEAKER_DIARIZATION
  None

VARIABLES
  reach,   \* endpoints reached by the probes that are remembered
  steady,  \* no probe has changed its answer since the body was posted
  body,    \* the configuration on its way
  at       \* slots hydrated so far, or -1 for none posted, -2 for stored

vars == <<reach, steady, body, at>>

Slots == {Order[i] : i \in DOMAIN Order}
Endpoints == {e.endpoint : e \in Catalog}
Unset == -1

\* services.yaml names each entry once in its section and slot, cloud is no
\* section of it, and the registry has the examples it falls back to.
CatalogAssumption ==
  /\ Order \in Seq(STRING) /\ "asr" \in Slots
  /\ Catalog \subseteq [section : STRING, slot : STRING, key : STRING, endpoint : STRING,
                        diarizes : BOOLEAN, streams : BOOLEAN, cloud : BOOLEAN]
  /\ \A e, f \in Catalog :
       e.section = f.section /\ e.slot = f.slot /\ e.key = f.key => e = f
  /\ {None, "cloud"} \cap {Sections[i] : i \in DOMAIN Sections} = {}
  /\ First \in DOMAIN Examples /\ (Locked # None => Locked \in DOMAIN Examples)
\* The budget of a profile is within its bounds, which are no negative numbers.
ProfileAssumption ==
  /\ {Profile.min, Profile.top, Profile.reserve, MaxTokens} \subseteq Nat /\ Numbers \subseteq Int
  /\ Profile.budget \in Profile.min..Profile.top
  /\ Profile.thinking \in BOOLEAN /\ Diarize \in BOOLEAN

(***************************************************************************)
(* The registry and the catalogs.                                          *)
(***************************************************************************)
\* find: a locked selection wins, then a known key, then the default.
Find(key) ==
  IF Locked # None THEN Locked ELSE IF key \in DOMAIN Examples THEN key ELSE First

\* _select_example_services, for one section.
Selected(section, ex) ==
  {e \in Catalog : /\ e.section = section /\ e.slot \in Examples[ex].slots
                   /\ \E i \in DOMAIN Examples[ex].keys : Examples[ex].keys[i] = e.key}

\* _detect_self_hosted_catalog: the section with most entries reached, the
\* first of equals; in it, of each slot what was reached, or all of it.
Count(section, ex) == Cardinality({e \in Selected(section, ex) : e.endpoint \in reach})
Best(ex) ==
  Sections[CHOOSE i \in DOMAIN Sections :
    \A j \in DOMAIN Sections :
      /\ Count(Sections[i], ex) >= Count(Sections[j], ex)
      /\ j < i => Count(Sections[i], ex) > Count(Sections[j], ex)]
Detect(ex) ==
  LET all == Selected(Best(ex), ex)
      Reached(slot) == {e \in all : e.slot = slot /\ e.endpoint \in reach}
  IN IF Count(Best(ex), ex) = 0 /\ Cloud THEN {}
     ELSE {e \in all : Reached(e.slot) = {} \/ e \in Reached(e.slot)}

\* _nvcf_catalog: the cloud variants of the entries of the server section.
CloudCatalog(ex) ==
  IF ~Cloud THEN {}
  ELSE {[e EXCEPT !.section = "cloud", !.endpoint = "nvcf"] : e \in
          {f \in Selected(Sections[1], ex) : f.cloud}}

\* service_catalog_sources
Source(name, ex) == IF name = "self" THEN Detect(ex) ELSE CloudCatalog(ex)

\* load_service_entry_by_id; the set is empty for custom and unknown ids.
EntryById(ex, slot, pick) ==
  {e \in Source(pick.source, ex) : pick.source \in {"self", "cloud"} /\ e.slot = slot /\ e.key = pick.key}

\* load_service_entry without a key: the first key of the merged catalog.
DefaultEntry(ex, slot) ==
  LET self == {e \in Detect(ex) : e.slot = slot}
      all == IF self # {} THEN self ELSE {e \in CloudCatalog(ex) : e.slot = slot}
      Rank(e) == CHOOSE i \in DOMAIN Examples[ex].keys : Examples[ex].keys[i] = e.key
  IN {e \in all : \A f \in all : Rank(e) <= Rank(f)}

(***************************************************************************)
(* The settings.                                                           *)
(***************************************************************************)
\* _coerce_setting: a value that is missing or of another kind is the default,
\* a number is kept within its bounds.
Coerce(raw, low, high, default) ==
  IF raw = Unset THEN default ELSE IF raw < low THEN low ELSE IF raw > high THEN high ELSE raw

\* _cap_below and apply_service_settings: a budget stays `reserve` below
\* max_tokens, or reasoning is turned off; without reasoning it is not sent.
Capped(thinking, budget, max) ==
  LET cap == max - Profile.reserve
      fits == max = Unset \/ budget <= cap
      on == thinking /\ (fits \/ cap >= Profile.min)
  IN [thinking |-> on, max |-> max,
      budget |-> IF ~on THEN Unset ELSE IF fits THEN budget ELSE cap]

\* apply_service_settings with the client's values.
Applied(values) ==
  Capped(IF values.thinking = "default" THEN Profile.thinking ELSE values.thinking = "on",
         Coerce(values.budget, Profile.min, Profile.top, Profile.budget),
         Coerce(values.max, 1, MaxTokens, Unset))

(***************************************************************************)
(* The body of one session.                                                *)
(***************************************************************************)
Own == [source |-> "custom", key |-> None]
Absent == [source |-> "none", key |-> None]
PicksOf(slot) ==
  {Own, Absent} \cup [source : {"self", "cloud"}, key : {e.key : e \in {f \in Catalog : f.slot = slot}}]
Picks == {p \in [Slots -> UNION {PicksOf(s) : s \in Slots}] : \A s \in Slots : p[s] \in PicksOf(s)}
NoBody == [example |-> None, picks |-> [s \in Slots |-> Absent], from |-> [s \in Slots |-> None],
           supported |-> FALSE, prompt |-> "plain", asked |-> FALSE, streaming |-> FALSE,
           settings |-> [thinking |-> FALSE, max |-> Unset, budget |-> Unset]]

Pick == [source : {"custom", "none", "self", "cloud"}, key : STRING \cup {None}]
Body == [example : DOMAIN Examples \cup {None}, picks : [Slots -> Pick],
         from : [Slots -> {e.section : e \in Catalog} \cup {"cloud", None}], supported : BOOLEAN, prompt : {"plain", "several"},
         asked : BOOLEAN, streaming : BOOLEAN,
         settings : [thinking : BOOLEAN, max : Int, budget : Int]]
TypeOK ==
  reach \subseteq Endpoints /\ steady \in BOOLEAN /\ at \in -2..Len(Order) /\ body \in Body

Init == reach \in SUBSET Endpoints /\ steady = TRUE /\ body = NoBody /\ at = -1

\* is_endpoint_reachable asks again when what it remembers is too old.
ProbeAgain(e) ==
  /\ reach' = IF e \in reach THEN reach \ {e} ELSE reach \cup {e}
  /\ steady' = (steady /\ at = -1)
  /\ UNCHANGED <<body, at>>

\* filter_session_config, and the keys that need a capability: what the example
\* has no slot for is dropped, a selection, its details and its settings.
Post(key, picks, prompt, asked, streaming) ==
  LET ex == Find(key)  capable == "labels" \in Examples[ex].capabilities
  IN /\ at' = 0 /\ steady' = TRUE
     /\ body' = [NoBody EXCEPT
                   !.example = ex, !.prompt = prompt, !.streaming = streaming,
                   !.picks = [s \in Slots |-> IF s \in Examples[ex].slots THEN picks[s] ELSE Absent],
                   !.asked = IF capable THEN asked ELSE Diarize]
     /\ UNCHANGED reach

\* hydrate_config_from_catalog, one slot: the details of a built-in selection
\* come from its entry; a custom one, and one that is not listed any more, keep
\* what the client sent.
Hydrate(values) ==
  LET slot == Order[at + 1]
      found == EntryById(body.example, slot, body.picks[slot])
      streams == body.streaming /\ "streaming" \in Examples[body.example].capabilities
  IN /\ at \in 0..(Len(Order) - 1)
     /\ at' = at + 1
     /\ IF found = {} THEN UNCHANGED body
        ELSE \E e \in found :
               body' = [body EXCEPT
                          !.from[slot] = e.section,
                          !.supported = IF slot = "asr" THEN e.diarizes ELSE @,
                          !.streaming = IF slot = "llm" THEN streams /\ e.streams ELSE @,
                          !.settings = IF slot = "llm" THEN Applied(values) ELSE @]
     /\ UNCHANGED <<reach, steady>>

\* A bug: whether this session is diarized is not asked.
NobodyToldApartIfAsked(ex, supports) == ~supports \/ "labels" \notin Examples[ex].capabilities

\* A prompt for several speakers needs them told apart.
NobodyToldApart(ex, supports) ==
  \/ "labels" \notin Examples[ex].capabilities \/ ~supports \/ ~body.asked

\* _asr_supports_diarization reads the catalog once more.
AsrDiarizes ==
  LET ex == body.example  pick == body.picks["asr"]
      entries == IF pick = Absent THEN DefaultEntry(ex, "asr") ELSE EntryById(ex, "asr", pick)
  IN \E e \in entries : e.diarizes

\* _sanitize_session_config, after the filter.
Sanitize ==
  /\ at = Len(Order)
  /\ at' = -2
  /\ body' = [body EXCEPT !.prompt =
                IF @ = "several" /\ NobodyToldApart(body.example, AsrDiarizes) THEN "plain" ELSE @]
  /\ UNCHANGED <<reach, steady>>

\* The bot runs with it, and another body is posted.
Taken == at = -2 /\ at' = -1 /\ body' = NoBody /\ steady' = TRUE /\ UNCHANGED reach

Values == [thinking : {"default", "on", "off"}, budget : Numbers \cup {Unset}, max : Numbers \cup {Unset}]
\* Only the LLM has settings that depend on each other.
ValuesFor(slot) ==
  IF slot = "llm" THEN Values ELSE {v \in Values : v.thinking = "default" /\ v.budget = Unset /\ v.max = Unset}
Next ==
  \/ \E e \in Endpoints : ProbeAgain(e)
  \/ at = -1 /\ \E key \in DOMAIN Examples \cup {None}, picks \in Picks,
                   prompt \in {"plain", "several"}, asked, streaming \in BOOLEAN :
                  Post(key, picks, prompt, asked, streaming)
  \/ \E i \in DOMAIN Order : at = i - 1 /\ \E values \in ValuesFor(Order[i]) : Hydrate(values)
  \/ Sanitize \/ Taken
Spec == Init /\ [][Next]_vars

(***************************************************************************)
(* Properties.                                                             *)
(***************************************************************************)
\* A reasoning budget leaves `reserve` tokens of max_tokens for the answer and
\* is never under its minimum, and reasoning is on exactly when it has one,
\* for any values a client sends (apply_service_settings, _cap_below).
BudgetFits ==
  LET s == body.settings
  IN /\ s.thinking <=> s.budget # Unset
     /\ s.thinking => /\ s.budget \in Profile.min..Profile.top
                      /\ s.max # Unset => s.budget + Profile.reserve <= s.max

\* While the probes keep their answers the reads of one body agree: its
\* self-hosted services come from one section, and a prompt for several speakers
\* is kept only if the bot will find an ASR that tells them apart
\* (_asr_supports_diarization and resolve_asr_speaker_support read apart).
SteadyReadsAgree ==
  steady =>
    /\ \A s, t \in Slots :
         ({body.from[s], body.from[t]} \subseteq {Sections[i] : i \in DOMAIN Sections})
           => body.from[s] = body.from[t]
    /\ (at = -2 /\ body.prompt = "several") =>
         /\ body.asked
         /\ IF body.picks["asr"] = Absent THEN AsrDiarizes ELSE body.supported

\* The inductive invariant.  While the probes keep their answers, what was found
\* so far is what would be found now: the sections the details came from, and
\* once the ASR has been looked up, whether it diarizes.
LookedUp(slot) == \E i \in DOMAIN Order : Order[i] = slot /\ (at = -2 \/ i <= at)
FoundAsNow ==
  steady /\ at # -1 =>
    /\ \A s \in Slots : body.from[s] \in {None, "cloud", Best(body.example)}
    /\ body.supported <=>
         /\ LookedUp("asr")
         /\ \E e \in EntryById(body.example, "asr", body.picks["asr"]) : e.diarizes
KeptForSeveral ==
  at = -2 /\ body.prompt = "several" => body.asked /\ (steady => AsrDiarizes)
Inv ==
  /\ TypeOK /\ BudgetFits
  /\ IF at = -1 THEN body = NoBody ELSE body.example \in DOMAIN Examples
  /\ FoundAsNow /\ KeptForSeveral
==================================================================================
