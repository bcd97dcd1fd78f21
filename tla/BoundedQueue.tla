---------------------------- MODULE BoundedQueue ----------------------------
(***************************************************************************)
(* What RingBuffer promises its two users: a first-in first-out queue that *)
(* holds at most Limit elements.  Whether an attempt that fails could have *)
(* succeeded is left open: an attempt may find the queue full or empty a   *)
(* moment after it no longer was.                                          *)
(***************************************************************************)
EXTENDS Naturals, Sequences

CONSTANTS Value, Limit

VARIABLES queue,    \* the elements pushed and not yet popped
          popped    \* the element that was popped last

vars == <<queue, popped>>

Init == queue = <<>> /\ popped \in Value

Push(v) ==
    /\ Len(queue) < Limit
    /\ queue' = Append(queue, v)
    /\ UNCHANGED popped

Pop ==
    /\ queue # <<>>
    /\ popped' = Head(queue)
    /\ queue' = Tail(queue)

Next == Pop \/ \E v \in Value : Push(v)

Spec == Init /\ [][Next]_vars

=============================================================================
