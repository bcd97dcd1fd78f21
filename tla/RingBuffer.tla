----------------------------- MODULE RingBuffer -----------------------------
(***************************************************************************)
(* RingBuffer<T, Capacity>: a lock-free ring for one producer and one      *)
(* consumer.  Each thread loads the other's index, accesses a slot, and    *)
(* stores its own index, in three steps.  An acquire load may return an    *)
(* index that is out of date, but never one older than this thread has     *)
(* seen: popsUnseen counts the pops the producer may not have seen yet,    *)
(* pushesUnseen the pushes the consumer may not have seen.  The slots are  *)
(* plain memory: the two threads must never be in the same one.            *)
(***************************************************************************)
EXTENDS Naturals, Sequences

CONSTANTS Capacity,   \* the template parameter
          Value       \* elements; a slot starts with some default value

ASSUME CapacityAssumption ==
    /\ Capacity \in Nat \ {0}
    /\ \E k \in 0..Capacity : Capacity = 2^k

VARIABLES
    data, writeIdx, readIdx,       \* m_data, m_writeIdx, m_readIdx
    producer, item,                \* where push() is, and its argument
    consumer, popped,              \* where pop() is, and its output parameter
    popsUnseen, pushesUnseen

vars == <<data, writeIdx, readIdx, producer, item, consumer, popped,
          popsUnseen, pushesUnseen>>

Index == 0 .. Capacity - 1

(* Capacity is a power of two, so that "& kMask" is modulo Capacity.  The  *)
(* arguments stay within one lap, where modulo is at most one subtraction. *)
Plus(i, n)     == IF i + n < Capacity THEN i + n ELSE i + n - Capacity
SignedDistance(i, j) == IF i <= j THEN j - i ELSE i - j         \* mutant: no mask
Distance(i, j) == IF i <= j THEN j - i ELSE j + Capacity - i      \* (j - i) & kMask
Back(i, n)     == IF n <= i THEN i - n ELSE i + Capacity - n      \* the index n stores ago

TypeOK ==
    /\ data \in [Index -> Value]
    /\ writeIdx \in Index /\ readIdx \in Index
    /\ producer \in {"idle", "write", "store"} /\ item \in Value
    /\ consumer \in {"idle", "read", "store"} /\ popped \in Value
    /\ popsUnseen \in Index /\ pushesUnseen \in Index

Init ==
    /\ \E v \in Value :
          /\ data = [i \in Index |-> v]
          /\ item = v /\ popped = v
    /\ writeIdx = 0 /\ readIdx = 0
    /\ producer = "idle" /\ consumer = "idle"
    /\ popsUnseen = 0 /\ pushesUnseen = 0

-----------------------------------------------------------------------------
(* push(): a full buffer, as far as the producer can see, ends the call.   *)

PushFails ==
    /\ producer = "idle"
    /\ \E lag \in 0..popsUnseen :
          /\ Plus(writeIdx, 1) = Back(readIdx, lag)
          /\ popsUnseen' = lag
    /\ UNCHANGED <<data, writeIdx, readIdx, producer, item, consumer, popped, pushesUnseen>>

PushUnchecked ==   \* mutant: whether the ring is full is not asked
    /\ producer = "idle"
    /\ item' \in Value
    /\ producer' = "write"
    /\ UNCHANGED <<data, writeIdx, readIdx, consumer, popped, popsUnseen, pushesUnseen>>

PushBegins ==
    /\ producer = "idle"
    /\ \E lag \in 0..popsUnseen :
          /\ Plus(writeIdx, 1) # Back(readIdx, lag)
          /\ popsUnseen' = lag
    /\ item' \in Value
    /\ producer' = "write"
    /\ UNCHANGED <<data, writeIdx, readIdx, consumer, popped, pushesUnseen>>

(* The slot is written while the index still excludes it... *)
PushWrites ==
    /\ producer = "write"
    /\ data' = [data EXCEPT ![writeIdx] = item]
    /\ producer' = "store"
    /\ UNCHANGED <<writeIdx, readIdx, item, consumer, popped, popsUnseen, pushesUnseen>>

(* ... and the release store of the index publishes it. *)
PushStores ==
    /\ producer = "store"
    /\ writeIdx' = Plus(writeIdx, 1)
    /\ pushesUnseen' = pushesUnseen + 1
    /\ producer' = "idle"
    /\ UNCHANGED <<data, readIdx, item, consumer, popped, popsUnseen>>

-----------------------------------------------------------------------------
(* pop(): an empty buffer, as far as the consumer can see, ends the call.  *)

PopFails ==
    /\ consumer = "idle"
    /\ \E lag \in 0..pushesUnseen :
          /\ readIdx = Back(writeIdx, lag)
          /\ pushesUnseen' = lag
    /\ UNCHANGED <<data, writeIdx, readIdx, producer, item, consumer, popped, popsUnseen>>

PopUnchecked ==   \* mutant: whether the ring is empty is not asked
    /\ consumer = "idle"
    /\ consumer' = "read"
    /\ UNCHANGED <<data, writeIdx, readIdx, producer, item, popped, popsUnseen, pushesUnseen>>

PopBegins ==
    /\ consumer = "idle"
    /\ \E lag \in 0..pushesUnseen :
          /\ readIdx # Back(writeIdx, lag)
          /\ pushesUnseen' = lag
    /\ consumer' = "read"
    /\ UNCHANGED <<data, writeIdx, readIdx, producer, item, popped, popsUnseen>>

(* The element is moved out of its slot, which keeps some valid value. *)
PopReads ==
    /\ consumer = "read"
    /\ popped' = data[readIdx]
    /\ \E v \in Value : data' = [data EXCEPT ![readIdx] = v]
    /\ consumer' = "store"
    /\ UNCHANGED <<writeIdx, readIdx, producer, item, popsUnseen, pushesUnseen>>

PopStores ==
    /\ consumer = "store"
    /\ readIdx' = Plus(readIdx, 1)
    /\ popsUnseen' = popsUnseen + 1
    /\ consumer' = "idle"
    /\ UNCHANGED <<data, writeIdx, producer, item, popped, pushesUnseen>>

Next ==
    \/ PushFails \/ PushBegins \/ PushWrites \/ PushStores
    \/ PopFails \/ PopBegins \/ PopReads \/ PopStores

Spec == Init /\ [][Next]_vars

-----------------------------------------------------------------------------
(* What size() returns in each thread; isEmpty() and isFull() compare the  *)
(* same two loads.                                                         *)
SizesForProducer == { Distance(Back(readIdx, lag), writeIdx) : lag \in 0..popsUnseen }
SizesForConsumer == { Distance(readIdx, Back(writeIdx, lag)) : lag \in 0..pushesUnseen }

(* The two threads are never in the same slot: the slots need no lock      *)
(* although they are plain memory (push and pop, m_data).                  *)
NoSlotRace == ~ (producer = "write" /\ consumer = "read" /\ writeIdx = readIdx)

(* What a thread is told errs on its safe side and never by a lap: the     *)
(* producer never sees fewer elements than there are, so there is room for *)
(* what it is told, and the consumer never sees more (size, isEmpty,       *)
(* isFull).                                                                *)
SizesBracket ==
    /\ \A s \in SizesForProducer : Distance(readIdx, writeIdx) <= s
    /\ \A s \in SizesForConsumer : s <= Distance(readIdx, writeIdx)

(* The ring is a bounded first-in first-out queue that keeps one slot      *)
(* free.  A push takes effect when its index is stored, a pop when its     *)
(* element has been read.                                                  *)
First == IF consumer = "store" THEN Plus(readIdx, 1) ELSE readIdx
Queue == [i \in 1 .. Distance(First, writeIdx) |-> data[Plus(First, i - 1)]]

Abstract == INSTANCE BoundedQueue WITH queue <- Queue, Limit <- Capacity - 1

ImplementsBoundedQueue == Abstract!Spec

=============================================================================
