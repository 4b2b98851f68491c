SPECIFICATION Spec
CONSTANTS
  MaxResponses = 2
  Inputs <- NoAudio
  Gates = {TRUE, FALSE}
INVARIANT CreatedFirst
CHECK_DEADLOCK FALSE
