---------------------------- MODULE SpeechEngine ----------------------------
(***************************************************************************)
(* What the audio session relies on in the playback engine: it speaks only *)
(* from the first frame of a stream on, stops when that stream ends, falls *)
(* silent by itself after a stream was lost, and does so before the next   *)
(* stream starts.  Playback and AudioSession both implement this.          *)
(***************************************************************************)
VARIABLES speaking,     \* does the engine report that it speaks
          streaming     \* is a stream of the server open

vars == <<speaking, streaming>>

Init ==
    /\ speaking = FALSE
    /\ streaming = FALSE

StreamStarts ==
    /\ ~speaking /\ ~streaming
    /\ streaming' = TRUE
    /\ UNCHANGED speaking

Speaks ==
    /\ streaming
    /\ speaking' = TRUE
    /\ UNCHANGED streaming

StreamEnds ==
    /\ streaming
    /\ streaming' = FALSE
    /\ speaking' = FALSE

StreamIsLost ==
    /\ streaming
    /\ streaming' = FALSE
    /\ UNCHANGED speaking

FallsSilent ==
    /\ speaking' = FALSE
    /\ UNCHANGED streaming

Next ==
    \/ StreamStarts
    \/ Speaks
    \/ StreamEnds
    \/ StreamIsLost
    \/ FallsSilent

Spec == Init /\ [][Next]_vars

=============================================================================
