SPECIFICATION Spec
CONSTANTS
  MaxQuestions = 3  MaxInterruptions = 2
  MaxAttachments = 3  MaxCaptures = 2  MaxJobs = 3
  ActionCooldown = 1  ResumeWindow = 2  MaxTime = 3  MaxFrames = 6
  Long <- MCLong  Short <- MCShort  Envelopes <- MCEnvelopes
  History = 1  CaptureCooldown = 2  MaxTurns = 3
  None = None  long1 = long1  long2 = long2  short1 = short1  Filler = Filler
  Fallback = Fallback
  Spoken = {u1, u2}  Typed = {m1}  MaxTurnTasks = 3  MaxTools = 1  MaxCuts = 1
  MaxContexts = 2  MaxTokens = 2  MaxStreams = 3  MaxErrors = 1
  Sentences <- MCSentences  MaxWords = 5
SYMMETRY MCSymmetry
INVARIANTS
  OnePassAnswers BoardOfLatestUpload GesturesActOnce SpokenByOneOwner
  SpokenAnsweredOnce RepliesReadWhole WordsOfOwnStream
PROPERTY PromptKeepsItsAttachment
CHECK_DEADLOCK FALSE
