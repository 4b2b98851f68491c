SPECIFICATION FairSpec
CONSTANTS
  Words = {"hello"}
  MaxWords = 2
  MaxAnswers = 1
  MaxRequests = 3
PROPERTY CommitAnswered
CHECK_DEADLOCK FALSE
