---------------------------- MODULE MCRingBuffer ----------------------------
(* A ring of four slots and two values. *)
EXTENDS RingBuffer

=============================================================================
