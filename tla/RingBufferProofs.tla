-------------------------- MODULE RingBufferProofs --------------------------
(***************************************************************************)
(* The ring is a bounded queue for every capacity, and its two users are   *)
(* never in the same slot, however late each sees what the other does.     *)
(***************************************************************************)
EXTENDS RingBuffer, SequenceTheorems, TLAPS

-----------------------------------------------------------------------------
(* Arithmetic of indices.                                                  *)

LEMMA Indices ==
    ASSUME NEW i \in Index, NEW j \in Index
    PROVE  /\ Plus(i, 1) \in Index
           /\ Distance(i, j) \in Index
           /\ Distance(i, j) = 0 <=> i = j
  BY CapacityAssumption DEF Index, Plus, Distance

(* A push makes the distance one more, unless the ring is full. *)
LEMMA PushDistance ==
    ASSUME NEW r \in Index, NEW w \in Index, Distance(r, w) < Capacity - 1
    PROVE  Distance(r, Plus(w, 1)) = Distance(r, w) + 1
  BY CapacityAssumption DEF Index, Plus, Distance

(* A pop makes it one less, unless the ring is empty. *)
LEMMA PopDistance ==
    ASSUME NEW r \in Index, NEW w \in Index, r # w
    PROVE  Distance(Plus(r, 1), w) = Distance(r, w) - 1
  BY CapacityAssumption DEF Index, Plus, Distance

(* What an index was some stores ago, seen from the other index. *)
LEMMA StaleDistance ==
    ASSUME NEW r \in Index, NEW w \in Index, NEW lag \in Nat
    PROVE  /\ Distance(r, w) + lag <= Capacity - 1 =>
                  /\ Back(r, lag) \in Index
                  /\ Distance(Back(r, lag), w) = Distance(r, w) + lag
           /\ lag <= Distance(r, w) =>
                  /\ Back(w, lag) \in Index
                  /\ Distance(r, Back(w, lag)) = Distance(r, w) - lag
  BY CapacityAssumption DEF Index, Back, Distance

(* A ring whose next write index would be the read index is full. *)
LEMMA FullDistance ==
    ASSUME NEW r \in Index, NEW w \in Index
    PROVE  Plus(w, 1) = r <=> Distance(r, w) = Capacity - 1
  BY CapacityAssumption DEF Index, Plus, Distance

-----------------------------------------------------------------------------
(* The invariant.  Neither thread can lag behind the other by a lap: the   *)
(* pops the producer has not seen fit into the free slots, and the pushes  *)
(* the consumer has not seen are still in the ring.  While a push or a pop *)
(* is under way, the other thread cannot undo what its check found.        *)

IInv ==
    /\ TypeOK
    /\ Distance(readIdx, writeIdx) + popsUnseen <= Capacity - 1
    /\ pushesUnseen <= Distance(readIdx, writeIdx)
    /\ producer # "idle" => Distance(readIdx, writeIdx) + popsUnseen < Capacity - 1
    /\ consumer # "idle" => pushesUnseen < Distance(readIdx, writeIdx)

LEMMA InitInv == Init => IInv
<1>. SUFFICES ASSUME Init PROVE IInv
  OBVIOUS
<1>1. 0 \in Index /\ Distance(0, 0) = 0 /\ 0 <= Capacity - 1
  BY CapacityAssumption DEF Index, Distance
<1>. QED  BY <1>1 DEF Init, IInv, TypeOK

LEMMA NextInv == IInv /\ [Next]_vars => IInv'
<1>. SUFFICES ASSUME IInv, [Next]_vars PROVE IInv'
  OBVIOUS
<1>. USE DEF IInv, TypeOK
<1>0. /\ Capacity \in Nat /\ Index \subseteq Nat
      /\ Distance(readIdx, writeIdx) \in Nat
  BY CapacityAssumption, Indices DEF Index
<1>1. CASE PushFails
  BY <1>0, <1>1 DEF PushFails, Index
<1>2. CASE PushBegins
  <2>1. PICK lag \in 0..popsUnseen :
           Plus(writeIdx, 1) # Back(readIdx, lag) /\ popsUnseen' = lag
    BY <1>2 DEF PushBegins
  <2>2. Distance(readIdx, writeIdx) + lag <= Capacity - 1 /\ lag \in Nat /\ lag \in Index
    BY <1>0, <2>1 DEF Index
  <2>3. Distance(readIdx, writeIdx) + lag # Capacity - 1
    BY <2>1, <2>2, StaleDistance, FullDistance
  <2>. QED  BY <1>0, <1>2, <2>1, <2>2, <2>3 DEF PushBegins
<1>3. CASE PushWrites
  BY <1>3 DEF PushWrites
<1>4. CASE PushStores
  <2>1. Distance(readIdx, writeIdx') = Distance(readIdx, writeIdx) + 1
    BY <1>0, <1>4, PushDistance DEF PushStores, Index
  <2>2. writeIdx' \in Index /\ pushesUnseen' \in Index
    BY <1>0, <1>4, Indices DEF PushStores, Index
  <2>. QED  BY <1>0, <1>4, <2>1, <2>2 DEF PushStores, Index
<1>5. CASE PopFails
  BY <1>0, <1>5 DEF PopFails, Index
<1>6. CASE PopBegins
  <2>1. PICK lag \in 0..pushesUnseen :
           readIdx # Back(writeIdx, lag) /\ pushesUnseen' = lag
    BY <1>6 DEF PopBegins
  <2>2. lag <= Distance(readIdx, writeIdx) /\ lag \in Nat /\ lag \in Index
    BY <1>0, <2>1 DEF Index
  <2>3. Distance(readIdx, writeIdx) - lag # 0
    <3>1. /\ Back(writeIdx, lag) \in Index
          /\ Distance(readIdx, Back(writeIdx, lag)) = Distance(readIdx, writeIdx) - lag
      BY <2>2, StaleDistance
    <3>2. Distance(readIdx, Back(writeIdx, lag)) # 0
      BY <2>1, <3>1, Indices
    <3>. QED  BY <3>1, <3>2
  <2>. QED  BY <1>0, <1>6, <2>1, <2>2, <2>3 DEF PopBegins
<1>7. CASE PopReads
  BY <1>7 DEF PopReads
<1>8. CASE PopStores
  <2>1. readIdx # writeIdx
    <3>1. 0 < Distance(readIdx, writeIdx)
      BY <1>0, <1>8 DEF PopStores
    <3>. QED  BY <3>1, Indices
  <2>2. Distance(readIdx', writeIdx) = Distance(readIdx, writeIdx) - 1
    BY <1>8, <2>1, PopDistance DEF PopStores
  <2>3. readIdx' \in Index /\ popsUnseen' \in Index
    BY <1>0, <1>8, <2>1, Indices DEF PopStores, Index
  <2>. QED  BY <1>0, <1>8, <2>2, <2>3 DEF PopStores, Index
<1>9. CASE UNCHANGED vars
  BY <1>9 DEF vars
<1>. QED
  BY <1>1, <1>2, <1>3, <1>4, <1>5, <1>6, <1>7, <1>8, <1>9 DEF Next

LEMMA Invariant == Spec => []IInv
  BY InitInv, NextInv, PTL DEF Spec

(* Every reachable state is well-typed: indices and lags never exceed one  *)
(* lap.                                                                    *)
THEOREM TypeCorrect == Spec => []TypeOK
<1>1. IInv => TypeOK
  BY DEF IInv
<1>. QED  BY <1>1, Invariant, PTL

(* push and pop never access the same slot at the same time.               *)
THEOREM SlotsSafe == Spec => []NoSlotRace
<1>1. IInv => NoSlotRace
  BY Indices, CapacityAssumption DEF IInv, TypeOK, NoSlotRace, Index
<1>. QED  BY <1>1, Invariant, PTL

(* size, isEmpty and isFull err on the safe side of the thread that asks.  *)
THEOREM SizesSafe == Spec => []SizesBracket
<1>1. IInv => SizesBracket
  <2>. SUFFICES ASSUME IInv PROVE SizesBracket
    OBVIOUS
  <2>1. /\ Capacity \in Nat /\ Distance(readIdx, writeIdx) \in Nat
        /\ readIdx \in Index /\ writeIdx \in Index
        /\ popsUnseen \in Nat /\ pushesUnseen \in Nat
    BY CapacityAssumption, Indices DEF IInv, TypeOK, Index
  <2>2. ASSUME NEW lag \in 0..popsUnseen
        PROVE  Distance(readIdx, writeIdx) <= Distance(Back(readIdx, lag), writeIdx)
    <3>1. Distance(readIdx, writeIdx) + lag <= Capacity - 1 /\ lag \in Nat
      BY <2>1 DEF IInv
    <3>. QED  BY <2>1, <3>1, StaleDistance
  <2>3. ASSUME NEW lag \in 0..pushesUnseen
        PROVE  Distance(readIdx, Back(writeIdx, lag)) <= Distance(readIdx, writeIdx)
    <3>1. lag <= Distance(readIdx, writeIdx) /\ lag \in Nat
      BY <2>1 DEF IInv
    <3>. QED  BY <2>1, <3>1, StaleDistance
  <2>. QED  BY <2>2, <2>3 DEF SizesBracket, SizesForProducer, SizesForConsumer
<1>. QED  BY <1>1, Invariant, PTL

-----------------------------------------------------------------------------
(* The refinement.                                                         *)

(* The slots from an index on, one lap at most. *)
LEMMA Slots ==
    ASSUME NEW f \in Index, NEW w \in Index
    PROVE  /\ Plus(f, 0) = f
           /\ Plus(f, Distance(f, w)) = w
           /\ \A k \in Index : Plus(f, k) \in Index
           /\ \A k \in Index : k < Distance(f, w) => Plus(f, k) # w
           /\ \A k \in Index : k # 0 => Plus(f, k) # f
           /\ \A k \in Index : k # Capacity - 1 => Plus(Plus(f, 1), k) = Plus(f, k + 1)
  BY CapacityAssumption DEF Index, Plus, Distance

LEMMA FirstType ==
    ASSUME IInv
    PROVE  /\ First \in Index /\ writeIdx \in Index /\ readIdx \in Index
           /\ data \in [Index -> Value]
           /\ Distance(First, writeIdx) \in Index
           /\ producer = "store" => Distance(First, writeIdx) < Capacity - 1
           /\ consumer = "read" => Distance(First, writeIdx) > 0
<1>1. /\ Capacity \in Nat /\ readIdx \in Index /\ writeIdx \in Index
      /\ Distance(readIdx, writeIdx) \in Index /\ Plus(readIdx, 1) \in Index
      /\ popsUnseen \in Nat /\ pushesUnseen \in Nat /\ data \in [Index -> Value]
  BY CapacityAssumption, Indices DEF IInv, TypeOK, Index
<1>2. CASE consumer = "store"
  <2>1. 0 < Distance(readIdx, writeIdx)
    BY <1>1, <1>2 DEF IInv, Index
  <2>2. readIdx # writeIdx
    BY <1>1, <2>1, Indices
  <2>3. Distance(First, writeIdx) = Distance(readIdx, writeIdx) - 1
    BY <1>1, <1>2, <2>2, PopDistance DEF First
  <2>. QED  BY <1>1, <1>2, <2>1, <2>3 DEF First, Index, IInv
<1>3. CASE consumer # "store"
  BY <1>1, <1>3 DEF First, Index, IInv
<1>. QED  BY <1>2, <1>3

LEMMA QueueType ==
    ASSUME IInv
    PROVE  /\ Queue \in Seq(Value)
           /\ Len(Queue) = Distance(First, writeIdx)
           /\ \A i \in 1 .. Len(Queue) : Queue[i] = data[Plus(First, i - 1)]
<1>. DEFINE n == Distance(First, writeIdx)
<1>1. n \in Nat /\ n < Capacity /\ Capacity \in Nat
  BY FirstType, CapacityAssumption DEF Index
<1>2. ASSUME NEW i \in 1 .. n PROVE data[Plus(First, i - 1)] \in Value
  <2>1. i - 1 \in Index
    BY <1>1 DEF Index
  <2>. QED  BY <2>1, FirstType, Slots
<1>3. Queue \in [1 .. n -> Value]
  BY <1>2 DEF Queue
<1>4. Queue \in Seq(Value) /\ Len(Queue) = n
  BY <1>1, <1>3, SeqDef, LenProperties
<1>. QED  BY <1>4 DEF Queue

(* A step that changes neither the indices of the queue nor the slots      *)
(* between them leaves the queue as it is.                                 *)
LEMMA QueueKept ==
    ASSUME IInv, First' = First, writeIdx' = writeIdx,
           \A k \in Index : k < Distance(First, writeIdx) =>
               data'[Plus(First, k)] = data[Plus(First, k)]
    PROVE  Queue' = Queue
<1>. DEFINE n == Distance(First, writeIdx)
<1>1. n \in Nat /\ n < Capacity /\ Capacity \in Nat
  BY FirstType, CapacityAssumption DEF Index
<1>2. Distance(First, writeIdx)' = n
  BY DEF Distance
<1>3. ASSUME NEW i \in 1 .. n PROVE data'[Plus(First, i - 1)'] = data[Plus(First, i - 1)]
  <2>1. i - 1 \in Index /\ i - 1 < n
    BY <1>1 DEF Index
  <2>. QED  BY <2>1 DEF Plus
<1>. QED  BY <1>2, <1>3 DEF Queue

(* Storing the write index appends the element that was written...         *)
LEMMA StoreAppends ==
    ASSUME IInv, PushStores
    PROVE  \E v \in Value : Abstract!Push(v)
<1>. DEFINE n == Distance(First, writeIdx)
            v == data[writeIdx]
<1>1. /\ n \in Nat /\ n < Capacity - 1 /\ Capacity \in Nat
      /\ First \in Index /\ writeIdx \in Index /\ v \in Value
  BY FirstType, CapacityAssumption DEF Index, PushStores
<1>2. /\ Queue \in Seq(Value) /\ Len(Queue) = n
      /\ \A i \in 1 .. n : Queue[i] = data[Plus(First, i - 1)]
  BY QueueType
<1>3. /\ First' = First /\ data' = data
      /\ Distance(First, writeIdx)' = n + 1
  BY <1>1, PushDistance DEF PushStores, First, Plus, Distance
<1>4. Queue' = [i \in 1 .. n + 1 |-> data[Plus(First, i - 1)]]
  BY <1>3 DEF Queue, Plus
<1>5. Queue' = Append(Queue, v)
  <2>1. Plus(First, n) = writeIdx
    BY <1>1, Slots
  <2>2. ASSUME NEW i \in 1 .. n + 1
        PROVE  Queue'[i] = IF i <= n THEN Queue[i] ELSE v
    <3>1. Queue'[i] = data[Plus(First, i - 1)]
      BY <1>4
    <3>2. CASE i <= n
      BY <1>1, <1>2, <3>1, <3>2
    <3>3. CASE i = n + 1
      BY <1>1, <2>1, <3>1, <3>3
    <3>. QED  BY <1>1, <3>2, <3>3
  <2>3. /\ Append(Queue, v) \in Seq(Value) /\ Len(Append(Queue, v)) = n + 1
        /\ \A i \in 1 .. n : Append(Queue, v)[i] = Queue[i]
        /\ Append(Queue, v)[n + 1] = v
    BY <1>1, <1>2, AppendProperties
  <2>4. Append(Queue, v) = [i \in 1 .. n + 1 |-> IF i <= n THEN Queue[i] ELSE v]
    BY <1>1, <2>3, LenProperties
  <2>5. Queue' = [i \in 1 .. n + 1 |-> IF i <= n THEN Queue[i] ELSE v]
    BY <1>4, <2>2
  <2>. QED  BY <2>4, <2>5
<1>6. Len(Queue) < Capacity - 1 /\ popped' = popped
  BY <1>1, <1>2 DEF PushStores
<1>. QED  BY <1>1, <1>5, <1>6 DEF Abstract!Push

(* ... and reading a slot takes the first element away, though the slot is *)
(* free for the producer only when the read index is stored.               *)
LEMMA ReadTakes ==
    ASSUME IInv, PopReads
    PROVE  Abstract!Pop
<1>. DEFINE n == Distance(readIdx, writeIdx)
<1>1. /\ n \in Nat /\ 0 < n /\ n < Capacity /\ Capacity \in Nat
      /\ readIdx \in Index /\ writeIdx \in Index /\ First = readIdx
      /\ data \in [Index -> Value]
  BY FirstType, CapacityAssumption DEF Index, PopReads, First
<1>2. /\ Queue \in Seq(Value) /\ Len(Queue) = n /\ Queue # <<>>
      /\ \A i \in 1 .. n : Queue[i] = data[Plus(readIdx, i - 1)]
  BY <1>1, QueueType, LenProperties
<1>3. popped' = Head(Queue)
  <2>1. Queue[1] = data[readIdx]
    BY <1>1, <1>2, Slots
  <2>2. Head(Queue) = Queue[1]
    BY <1>2, HeadTailProperties
  <2>. QED  BY <2>1, <2>2 DEF PopReads
<1>4. Queue' = [i \in 1 .. n - 1 |-> Queue[i + 1]]
  <2>1. First' = Plus(readIdx, 1) /\ writeIdx' = writeIdx
    BY DEF PopReads, First, Plus
  <2>2. Distance(First, writeIdx)' = n - 1
    <3>1. readIdx # writeIdx
      BY <1>1, Indices
    <3>2. Distance(Plus(readIdx, 1), writeIdx) = n - 1
      BY <1>1, <3>1, PopDistance
    <3>. QED  BY <2>1, <3>2 DEF Distance
  <2>3. ASSUME NEW i \in 1 .. n - 1
        PROVE  data'[Plus(First, i - 1)'] = Queue[i + 1]
    <3>1. i - 1 \in Index /\ i - 1 # Capacity - 1 /\ i \in Index /\ i # 0 /\ i - 1 + 1 = i
      BY <1>1 DEF Index
    <3>2. Plus(First, i - 1)' = Plus(readIdx, i)
      <4>1. Plus(First, i - 1)' = Plus(Plus(readIdx, 1), i - 1)
        BY <2>1 DEF Plus
      <4>2. Plus(Plus(readIdx, 1), i - 1) = Plus(readIdx, i - 1 + 1)
        BY <1>1, <3>1, Slots
      <4>. QED  BY <3>1, <4>1, <4>2
    <3>3. Plus(readIdx, i) # readIdx /\ Plus(readIdx, i) \in Index
      BY <1>1, <3>1, Slots
    <3>4. data'[Plus(readIdx, i)] = data[Plus(readIdx, i)]
      BY <1>1, <3>3 DEF PopReads
    <3>5. i + 1 \in 1 .. n /\ i + 1 - 1 = i
      BY <1>1
    <3>6. Queue[i + 1] = data[Plus(readIdx, i)]
      BY <1>2, <3>5
    <3>. QED  BY <3>2, <3>4, <3>6
  <2>. QED  BY <2>2, <2>3 DEF Queue
<1>5. Tail(Queue) = [i \in 1 .. n - 1 |-> Queue[i + 1]]
  <2>1. /\ Tail(Queue) \in Seq(Value) /\ Len(Tail(Queue)) = n - 1
        /\ \A i \in 1 .. n - 1 : Tail(Queue)[i] = Queue[i + 1]
    BY <1>1, <1>2, HeadTailProperties
  <2>2. Tail(Queue) \in [1 .. n - 1 -> Value]
    BY <2>1, LenProperties
  <2>. QED  BY <2>1, <2>2
<1>. QED  BY <1>2, <1>3, <1>4, <1>5 DEF Abstract!Pop

(* The ring implements a bounded first-in first-out queue for any capacity *)
(* and any elements, whatever the two threads have not yet seen of each    *)
(* other.                                                                  *)
THEOREM RefinesBoundedQueue == Spec => ImplementsBoundedQueue
<1>1. Init => Abstract!Init
  <2>. SUFFICES ASSUME Init PROVE Abstract!Init
    OBVIOUS
  <2>1. Distance(First, writeIdx) = 0
    BY CapacityAssumption DEF Init, First, Distance
  <2>2. Queue = <<>>
    BY <2>1 DEF Queue
  <2>. QED  BY <2>2 DEF Init, Abstract!Init
<1>2. IInv /\ [Next]_vars => [Abstract!Next]_Abstract!vars
  <2>. SUFFICES ASSUME IInv, [Next]_vars PROVE [Abstract!Next]_Abstract!vars
    OBVIOUS
  <2>1. ASSUME PushFails \/ PushBegins \/ PopFails \/ PopBegins \/ UNCHANGED vars
        PROVE  UNCHANGED Abstract!vars
    <3>1. First' = First /\ writeIdx' = writeIdx /\ data' = data /\ popped' = popped
      BY <2>1 DEF PushFails, PushBegins, PopFails, PopBegins, vars, First, Plus
    <3>. QED  BY <3>1, QueueKept DEF Abstract!vars
  <2>2. CASE PushWrites
    <3>1. First' = First /\ writeIdx' = writeIdx /\ popped' = popped
      BY <2>2 DEF PushWrites, First, Plus
    <3>2. ASSUME NEW k \in Index, k < Distance(First, writeIdx)
          PROVE  data'[Plus(First, k)] = data[Plus(First, k)]
      BY <2>2, <3>2, FirstType, Slots DEF PushWrites
    <3>. QED  BY <3>1, <3>2, QueueKept DEF Abstract!vars
  <2>3. CASE PushStores
    BY <2>3, StoreAppends DEF Abstract!Next
  <2>4. CASE PopReads
    BY <2>4, ReadTakes DEF Abstract!Next
  <2>5. CASE PopStores
    <3>1. First' = First /\ writeIdx' = writeIdx /\ data' = data /\ popped' = popped
      BY <2>5 DEF PopStores, First, Plus
    <3>. QED  BY <3>1, QueueKept DEF Abstract!vars
  <2>. QED  BY <2>1, <2>2, <2>3, <2>4, <2>5 DEF Next
<1>. QED  BY <1>1, <1>2, Invariant, PTL DEF Spec, ImplementsBoundedQueue, Abstract!Spec

=============================================================================
