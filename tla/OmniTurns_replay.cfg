SPECIFICATION Spec
CONSTANTS
 Spoken = {u1,u2}
 Typed = {m1}
 MaxTurns = 3
 MaxTools = 1
 MaxCuts = 1
 None = None
INVARIANTS ReplaysOnlyUnwritten
CHECK_DEADLOCK FALSE
