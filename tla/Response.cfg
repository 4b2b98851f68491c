SPECIFICATION MCSpec
CONSTANTS
  MaxResponses = 3
  Inputs <- NoAudio
  Gates = {TRUE, FALSE}
INVARIANTS TypeOK LifeInv ClosedOnceInOrder EveryResponseAccountedFor
PROPERTIES LifeSpec EventuallyClosed
CHECK_DEADLOCK FALSE
