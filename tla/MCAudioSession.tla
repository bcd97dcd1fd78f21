--------------------------- MODULE MCAudioSession ---------------------------
(* Two upload identifiers (the open one and a fresh one) and three of the  *)
(* server's (the playing one, the interrupted one and a fresh one).        *)
EXTENDS AudioSession

CONSTANTS s1, s2, d1, d2, d3

MCStream    == {s1, s2}
MCOutStream == {d1, d2, d3}

=============================================================================
