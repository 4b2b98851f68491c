-------------------------- MODULE MCRealtimeResponse --------------------------
(***************************************************************************)
(* Instances of RealtimeResponse for TLC.                                  *)
(***************************************************************************)
EXTENDS RealtimeResponse

\* Every message and frame of the client and the observer.
NoAudio == {"create", "cancel", "truncate", "notice", "disconnect",
            "bot", "tts", "llm", "turn_end", "barge_in", "error"}

\* The three tasks together, with two ways to start a response and one to end it.
WithAudio == {"create", "cancel", "tts", "audio"}

=============================================================================
