------------------------------ MODULE MCResponse ------------------------------
(***************************************************************************)
(* RealtimeResponse in two sizes, one TLC run: every message and frame     *)
(* over three responses, and two responses with the output audio task,     *)
(* which shares emit_lock with the other two and can be cancelled.         *)
(***************************************************************************)
EXTENDS MCRealtimeResponse

VARIABLE withAudio

Audio == INSTANCE RealtimeResponse
           WITH MaxResponses <- 2, Inputs <- WithAudio, Gates <- {TRUE}

MCInit == \/ withAudio = FALSE /\ Init
          \/ withAudio = TRUE /\ Audio!Init

MCNext == /\ UNCHANGED withAudio
          /\ \/ ~withAudio /\ Next
             \/ withAudio /\ Audio!Next

MCSpec == MCInit /\ [][MCNext]_<<vars, withAudio>> /\ Fairness
===============================================================================
