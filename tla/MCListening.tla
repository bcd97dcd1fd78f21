---------------------------- MODULE MCListening ----------------------------
(* In units of 60 to 80 ms.  Chunk, pre-roll, confirmation and suppression *)
(* are in the order of the code's 80, 200, 400 and 500 ms, the suppression *)
(* as short as WakesAreApart allows with MaxLag.                           *)
EXTENDS Listening

=============================================================================
