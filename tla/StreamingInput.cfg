SPECIFICATION FairSpec
CONSTANTS
  Words = {"hello"}
  MaxWords = 2
  MaxAnswers = 2
  MaxRequests = 3
INVARIANTS AnswerFromItsPrompt WarmAfterToolCall
PROPERTY AnswerEnds
CHECK_DEADLOCK FALSE
