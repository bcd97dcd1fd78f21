------------------------- MODULE MCWebSocketClient -------------------------
(* WebSocketClient with two sessions and the six steps of the backoff, and *)
(* two threads that log.                                                   *)
EXTENDS ClientLog

CONSTANTS s1, s2, t1, t2
MCSession == {s1, s2}
MCThread == {t1, t2}
=============================================================================
