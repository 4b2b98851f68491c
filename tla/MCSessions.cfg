SPECIFICATION Spec
CONSTANTS
  Sids = {s1}  Conns = {c1, c2, c3}  Posts = {p1, p2}
  Configs = {omni, generic}  Capable = {omni}  Default = generic
  Sections <- MCSections  SlotOrder <- MCSlots  Catalog <- MCCatalog  Cloud = TRUE
  Examples <- MCExamples  Locked = nothing  First = "omni"  Profile <- MCProfile
  MaxTokens = 16  ClientNumbers = {0, 2, 6, 20}  Diarize = FALSE
  Callers = {c1, c2}  Keys = {magpie, zeroshot}  Server <- MCServer  Listing <- MCListing
  Langs = {en, es, de}  English = en  Spanish = es  AsrLists = {en, es}  Llm = {en, de}
  Drawn <- MCDrawn
  MaxClicks = 4  MaxGenerations = 3
  MaxQuestions = 2  MaxReplies = 2  MaxAudio = 2  MaxErrors = 1
  Duration = 2  Silence = 1  ResponseTimeout = 1  IdleTimeout = 1  MaxPostSend = 2
  MaxTime = 4  MaxBots = 1  MaxChunks = 2  Lengths = {1, 2}
  MaxTurns = 3  MaxClock = 1  MaxFinals = 2
  UserWords = {word1, word2}  MaxUserWords = 2  MaxUserTurns = 2  MaxUpdates = 1  MaxLinks = 2
  nothing = nothing  c1 = c1  c2 = c2  c3 = c3  p1 = p1  p2 = p2  s1 = s1
  omni = omni  generic = generic  magpie = magpie  zeroshot = zeroshot  cloud = cloud
  en = en  es = es  de = de  NoTag = NoTag  Tags = {t1, t2}  MaxTagged = 3  MaxPerResult = 2  MaxTurnCloses = 2
INVARIANTS
  TablesInStep MediaAsAllowed ConfigAsServed OffersServed AnsweredAtMostOnce TurnsKeptApart
  IdOfThisConnection UserTurnsInOrder TranscriptsAgree UnmarredAnswers
CHECK_DEADLOCK FALSE
