SPECIFICATION Spec
CONSTANTS
    Words = {a, b}
    MaxWords = 1
    MaxTurns = 2
    MaxUpdates = 2
    MaxLinks = 2
INVARIANTS AnswersTheTurn
CHECK_DEADLOCK FALSE
