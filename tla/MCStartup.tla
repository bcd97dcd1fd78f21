----------------------------- MODULE MCStartup -----------------------------
(* Startup with up to three downloads at once. *)
EXTENDS Startup

CONSTANTS q1, q2, q3
MCRequest == {q1, q2, q3}
=============================================================================
