---------------------------- MODULE ResponseLife ----------------------------
(***************************************************************************)
(* What the Realtime gateway promises about responses, leaving out which   *)
(* task does what: responses are born one at a time, in order; a live one  *)
(* ends only by being completed, and once completed its closing events are *)
(* sent through exactly once.  A new response may be born while older ones *)
(* are still closing.                                                      *)
(***************************************************************************)
EXTENDS Naturals

VARIABLES
  born,    \* number of responses so far; response n is the n-th
  live,    \* the response in progress, 0 if there is none
  closing, \* completed responses whose closing events are being sent
  closed   \* responses whose response.done has been sent

vars == <<born, live, closing, closed>>

Init == born = 0 /\ live = 0 /\ closing = {} /\ closed = {}

Begin ==
  /\ live = 0
  /\ born' = born + 1 /\ live' = born + 1
  /\ UNCHANGED <<closing, closed>>

Complete ==
  /\ live # 0
  /\ live' = 0 /\ closing' = closing \cup {live}
  /\ UNCHANGED <<born, closed>>

Close(g) ==
  /\ g \in closing
  /\ closing' = closing \ {g} /\ closed' = closed \cup {g}
  /\ UNCHANGED <<born, live>>

Next == Begin \/ Complete \/ \E g \in closing : Close(g)

Spec == Init /\ [][Next]_vars

\* A completed response is closed in the end.
Closes(g) == (g \in closing) ~> (g \in closed)

=============================================================================
