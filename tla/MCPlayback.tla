----------------------------- MODULE MCPlayback -----------------------------
(* A sink that takes a frame and a half and is filled in part by the       *)
(* warm-up: writes of every length fall short.                             *)
EXTENDS Playback

=============================================================================
