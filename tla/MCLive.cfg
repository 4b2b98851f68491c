SPECIFICATION Spec
CONSTANTS
  MaxRejected = 3  DefaultMode = cascaded  DefaultTts = magpie
  PipelineRate = rate16  DefaultRate = rate24
  Catalog <- MCCatalog  Fallback <- MCFallback  Patches <- MCPatches
  MaxSessions = 2  MaxFrames = 3  MaxSpeech = 2
  Connects = {c1, c2}  Lists = {l1}  Hosted = {llmService}  Cloud = ttsService
  Order <- MCOrder  Threads = 2
  Unset = Unset  Blank = Blank  None = None
  omni = omni
  magpie = magpie  chatterbox = chatterbox  offline = offline
  aria = aria  leo = leo  sofia = sofia  unknown = unknown
  rate16 = rate16  rate24 = rate24
  c1 = c1  c2 = c2  l1 = l1  llmService = llmService  ttsService = ttsService
INVARIANTS RunsAsNegotiated CameraAsShown WarnedInOrder IdMeansReady
PROPERTIES HandshakeEnds FreshFrameSent SilentUserDismissed ConnectAnswered
CHECK_DEADLOCK FALSE
