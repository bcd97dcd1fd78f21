----------------------------- MODULE Connection -----------------------------
(***************************************************************************)
(* What the client's components may assume of the connection: it comes up, *)
(* then a session is opened on it, and it can be lost at any time.  No     *)
(* session survives the connection it was opened on.  WebSocketClient      *)
(* implements this specification; AudioSession and Startup use its steps   *)
(* as those of their environment.                                          *)
(***************************************************************************)
VARIABLE link

Link == {"down", "up", "session"}

Init == link \in Link

Open        == link = "down" /\ link' = "up"
OpenSession == link = "up" /\ link' = "session"
Lose        == link' = "down"

Next == Open \/ OpenSession \/ Lose

Spec == Init /\ [][Next]_link

=============================================================================
