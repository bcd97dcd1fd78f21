----------------------- MODULE WebSocketClientProofs -----------------------
(***************************************************************************)
(* Proofs about WebSocketClient, for every set of sessions and every       *)
(* length of the backoff schedule, and about the logger beside it, for any *)
(* number of threads and records.                                          *)
(***************************************************************************)
EXTENDS ClientLog, TLAPS

-----------------------------------------------------------------------------
(* The inductive invariant: besides the properties themselves, what each   *)
(* state of the socket says about the flags, the timer and the server.     *)

SocketHeld ==
    /\ socket \in {"connecting", "open"} => ~intentionalDisconnect
    /\ socket = "closing" => intentionalDisconnect
    /\ peer => socket \in {"open", "closing"}
    /\ srvSession # NoSession => socket \in {"open", "closing"}
    /\ reconnectTimer # 0 => status = "Reconnecting"

DelayHeld == lastDelay = BackoffStep(reconnectAttempt)

IInv ==
    /\ TypeOK
    /\ SessionIsCurrent
    /\ NeverStranded
    /\ SocketHeld
    /\ DelayHeld

LEMMA Bounds ==
    /\ 0 \in 0 .. Steps
    /\ 1 .. Steps \subseteq 0 .. Steps
    /\ 0 \in 0 .. MaxAttempt
    /\ 1 .. MaxAttempt \subseteq 0 .. MaxAttempt
  BY StepsAssumption

LEMMA InitHolds == Init => IInv
<1>. SUFFICES ASSUME Init
              PROVE  IInv
  OBVIOUS
<1>1. TypeOK
  BY Bounds DEF Init, TypeOK, Socket, Status
<1>2. SessionIsCurrent /\ NeverStranded
  BY DEF Init, SessionIsCurrent, NeverStranded
<1>3. SocketHeld
  BY DEF Init, SocketHeld
<1>4. DelayHeld
  BY StepsAssumption DEF Init, DelayHeld, BackoffStep
<1>. QED  BY <1>1, <1>2, <1>3, <1>4 DEF IInv

(* The next step of the schedule is a step of it. *)
LEMMA ScheduleStep ==
    ASSUME TypeOK, DelayHeld, ScheduleReconnect
    PROVE  /\ reconnectAttempt' \in 1 .. MaxAttempt
           /\ reconnectTimer' \in 1 .. Steps
           /\ lastDelay' = reconnectTimer'
           /\ reconnectTimer' = IF lastDelay = Steps THEN Steps ELSE lastDelay + 1
           /\ DelayHeld'
           /\ status' = "Reconnecting"
<1>. USE StepsAssumption
<1>1. reconnectAttempt \in 0 .. MaxAttempt
  BY DEF TypeOK
<1>2. MaxAttempt \in Nat /\ Steps \in Nat /\ Steps > 0 /\ MaxAttempt >= Steps
  OBVIOUS
<1>. QED  BY <1>1, <1>2 DEF DelayHeld, ScheduleReconnect, BackoffStep

(* OnDisconnected preserves each part, reconnecting or not. *)
LEMMA DisconnectedHolds ==
    ASSUME IInv, OnDisconnected
    PROVE  IInv'
<1>1. \/ intentionalDisconnect /\ status' = "Disconnected"
         /\ UNCHANGED <<reconnectTimer, reconnectAttempt, lastDelay>>
      \/ ~intentionalDisconnect /\ ScheduleReconnect
  BY DEF OnDisconnected
<1>2. ScheduleReconnect =>
          /\ reconnectAttempt' \in 0 .. MaxAttempt
          /\ reconnectTimer' \in 1 .. Steps
          /\ lastDelay' = reconnectTimer'
          /\ DelayHeld'
          /\ status' = "Reconnecting"
  BY ScheduleStep, StepsAssumption DEF IInv
<1>3. TypeOK'
  BY <1>1, <1>2, Bounds DEF IInv, OnDisconnected, TypeOK, Socket, Status
<1>4. SessionIsCurrent'
  BY <1>1, <1>2 DEF OnDisconnected, SessionIsCurrent
<1>5. NeverStranded' /\ SocketHeld'
  BY <1>1, <1>2, StepsAssumption DEF IInv, OnDisconnected, NeverStranded, SocketHeld
<1>6. DelayHeld'
  BY <1>1, <1>2 DEF IInv, DelayHeld, BackoffStep
<1>. QED  BY <1>3, <1>4, <1>5, <1>6 DEF IInv

LEMMA StepHolds == IInv /\ [Next]_vars => IInv'
<1>. SUFFICES ASSUME IInv, [Next]_vars
              PROVE  IInv'
  OBVIOUS
<1>. USE DEF IInv
<1>1. CASE CallConnectToServer
  <2>1. TypeOK'
    BY <1>1, Bounds DEF CallConnectToServer, ConnectToServer, network, TypeOK, Socket, Status
  <2>2. SessionIsCurrent'
    BY <1>1, SessionAssumption DEF CallConnectToServer, ConnectToServer, network, SessionIsCurrent, SocketHeld, NeverStranded
  <2>3. NeverStranded' /\ SocketHeld'
    BY <1>1, SessionAssumption DEF CallConnectToServer, ConnectToServer, network, NeverStranded, SocketHeld, SessionIsCurrent
  <2>4. DelayHeld'
    BY <1>1, StepsAssumption DEF CallConnectToServer, ConnectToServer, network, DelayHeld, BackoffStep
  <2>. QED  BY <2>1, <2>2, <2>3, <2>4
<1>2. CASE DisconnectFromServer
  <2>1. TypeOK'
    BY <1>2, Bounds DEF DisconnectFromServer, network, TypeOK, Socket, Status
  <2>2. SessionIsCurrent'
    BY <1>2, SessionAssumption DEF DisconnectFromServer, network, SessionIsCurrent, SocketHeld, NeverStranded
  <2>3. NeverStranded' /\ SocketHeld'
    BY <1>2, SessionAssumption DEF DisconnectFromServer, network, NeverStranded, SocketHeld, SessionIsCurrent
  <2>4. DelayHeld'
    BY <1>2, StepsAssumption DEF DisconnectFromServer, network, DelayHeld, BackoffStep
  <2>. QED  BY <2>1, <2>2, <2>3, <2>4
<1>3. CASE OnConnected
  <2>1. TypeOK'
    BY <1>3, Bounds DEF OnConnected, TypeOK, Socket, Status
  <2>2. SessionIsCurrent'
    BY <1>3, SessionAssumption DEF OnConnected, SessionIsCurrent, SocketHeld, NeverStranded
  <2>3. NeverStranded' /\ SocketHeld'
    BY <1>3, SessionAssumption DEF OnConnected, NeverStranded, SocketHeld, SessionIsCurrent
  <2>4. DelayHeld'
    BY <1>3, StepsAssumption DEF OnConnected, DelayHeld, BackoffStep
  <2>. QED  BY <2>1, <2>2, <2>3, <2>4
<1>4. CASE AttemptFails \/ LossIsNoticed \/ CloseCompletes
  BY <1>4, DisconnectedHolds DEF AttemptFails, LossIsNoticed, CloseCompletes
<1>5. CASE \E s \in Session: OnSessionOpened(s)
  <2>1. TypeOK'
    BY <1>5, Bounds DEF OnSessionOpened, TypeOK, Socket, Status
  <2>2. SessionIsCurrent'
    BY <1>5, SessionAssumption DEF OnSessionOpened, SessionIsCurrent, SocketHeld, NeverStranded
  <2>3. NeverStranded' /\ SocketHeld'
    BY <1>5, SessionAssumption DEF OnSessionOpened, NeverStranded, SocketHeld, SessionIsCurrent
  <2>4. DelayHeld'
    BY <1>5, StepsAssumption DEF OnSessionOpened, DelayHeld, BackoffStep
  <2>. QED  BY <2>1, <2>2, <2>3, <2>4
<1>6. CASE OnReconnectTick
  <2>1. TypeOK'
    BY <1>6, Bounds DEF OnReconnectTick, ConnectToServer, network, TypeOK, Socket, Status
  <2>2. SessionIsCurrent'
    BY <1>6, SessionAssumption DEF OnReconnectTick, ConnectToServer, network, SessionIsCurrent, SocketHeld, NeverStranded
  <2>3. NeverStranded' /\ SocketHeld'
    BY <1>6, SessionAssumption DEF OnReconnectTick, ConnectToServer, network, NeverStranded, SocketHeld, SessionIsCurrent
  <2>4. DelayHeld'
    BY <1>6, StepsAssumption DEF OnReconnectTick, ConnectToServer, network, DelayHeld, BackoffStep
  <2>. QED  BY <2>1, <2>2, <2>3, <2>4
<1>7. CASE ServerLost \/ ServerBack
  <2>1. TypeOK'
    BY <1>7, Bounds DEF ServerLost, ServerBack, client, TypeOK, Socket, Status
  <2>2. SessionIsCurrent'
    BY <1>7, SessionAssumption DEF ServerLost, ServerBack, client, SessionIsCurrent, SocketHeld, NeverStranded
  <2>3. NeverStranded' /\ SocketHeld'
    BY <1>7, SessionAssumption DEF ServerLost, ServerBack, client, NeverStranded, SocketHeld, SessionIsCurrent
  <2>4. DelayHeld'
    BY <1>7, StepsAssumption DEF ServerLost, ServerBack, client, DelayHeld, BackoffStep
  <2>. QED  BY <2>1, <2>2, <2>3, <2>4
<1>8. CASE UNCHANGED vars
  <2>1. TypeOK'
    BY <1>8, Bounds DEF vars, client, network, TypeOK, Socket, Status
  <2>2. SessionIsCurrent'
    BY <1>8, SessionAssumption DEF vars, client, network, SessionIsCurrent, SocketHeld, NeverStranded
  <2>3. NeverStranded' /\ SocketHeld'
    BY <1>8, SessionAssumption DEF vars, client, network, NeverStranded, SocketHeld, SessionIsCurrent
  <2>4. DelayHeld'
    BY <1>8, StepsAssumption DEF vars, client, network, DelayHeld, BackoffStep
  <2>. QED  BY <2>1, <2>2, <2>3, <2>4
<1>. QED
  BY <1>1, <1>2, <1>3, <1>4, <1>5, <1>6, <1>7, <1>8 DEF Next

LEMMA InvariantHolds == Spec => []IInv
  BY InitHolds, StepHolds, PTL DEF Spec

(* Every reachable state is well-typed. *)
THEOREM TypeCorrect == Spec => []TypeOK
<1>1. IInv => TypeOK
  BY DEF IInv
<1>. QED  BY <1>1, InvariantHolds, PTL

(* The published session is the one of the present connection, and pings   *)
(* are sent exactly while there is a connection.                           *)
THEOREM SessionSafe == Spec => []SessionIsCurrent
<1>1. IInv => SessionIsCurrent
  BY DEF IInv
<1>. QED  BY <1>1, InvariantHolds, PTL

(* A closed socket has a reconnect pending, unless it was asked to stay. *)
THEOREM ReconnectSafe == Spec => []NeverStranded
<1>1. IInv => NeverStranded
  BY DEF IInv
<1>. QED  BY <1>1, InvariantHolds, PTL

(* The delays follow the backoff schedule, whatever its length. *)
THEOREM BackoffSafe == Spec => BackoffFollowsSchedule
<1>1. IInv /\ [Next]_vars =>
          [reconnectTimer = 0 /\ reconnectTimer' # 0 =>
              reconnectTimer' = IF lastDelay = Steps THEN Steps ELSE lastDelay + 1]_vars
  <2>. SUFFICES ASSUME IInv, Next, reconnectTimer = 0, reconnectTimer' # 0
                PROVE  reconnectTimer' = IF lastDelay = Steps THEN Steps ELSE lastDelay + 1
    OBVIOUS
  <2>1. ScheduleReconnect
    BY DEF Next, CallConnectToServer, DisconnectFromServer, OnConnected, AttemptFails,
           LossIsNoticed, CloseCompletes, OnDisconnected, OnSessionOpened,
           OnReconnectTick, ServerLost, ServerBack, client
  <2>. QED  BY <2>1, ScheduleStep DEF IInv
<1>. QED  BY <1>1, InvariantHolds, PTL DEF Spec, BackoffFollowsSchedule

(* The connection the client provides to the other components is one that  *)
(* Connection allows.                                                      *)
THEOREM RefinesConnection == Spec => ImplementsConnection
<1>. DEFINE link == IF socket # "open" THEN "down"
                    ELSE IF sessionId = NoSession THEN "up" ELSE "session"
<1>1. Init => Conn!Init
  BY DEF Init, Conn!Init, Conn!Link
<1>2. IInv /\ [Next]_vars => [Conn!Next]_link
  <2>. SUFFICES ASSUME IInv, [Next]_vars
                PROVE  link' = link \/ Conn!Next
    OBVIOUS
  <2>. USE DEF Conn!Next
  <2>1. ASSUME socket' # "open"
        PROVE  Conn!Next
    BY <2>1 DEF Conn!Lose
  <2>2. CASE CallConnectToServer \/ DisconnectFromServer \/ OnReconnectTick
             \/ AttemptFails \/ LossIsNoticed \/ CloseCompletes
    BY <2>1, <2>2 DEF CallConnectToServer, ConnectToServer, DisconnectFromServer,
        OnReconnectTick, AttemptFails, LossIsNoticed, CloseCompletes, OnDisconnected
  <2>3. CASE OnConnected
    BY <2>3 DEF OnConnected, Conn!Open, IInv, SessionIsCurrent
  <2>4. CASE \E s \in Session: OnSessionOpened(s)
    BY <2>1, <2>4, SessionAssumption DEF OnSessionOpened, Conn!OpenSession, IInv, SessionIsCurrent
  <2>5. CASE ServerLost \/ ServerBack
    BY <2>5 DEF ServerLost, ServerBack, client
  <2>6. CASE UNCHANGED vars
    BY <2>6 DEF vars, client
  <2>. QED  BY <2>2, <2>3, <2>4, <2>5, <2>6 DEF Next
<1>. QED  BY <1>1, <1>2, InvariantHolds, PTL DEF Spec, ImplementsConnection, Conn!Spec

-----------------------------------------------------------------------------
(* The logger.  What it holds is well-formed, a thread handles one record  *)
(* at a time, and the ones it has handed over are older.                   *)

Record == [no: Nat, thread: Thread, label: Session \cup {NoSession}]

LogTypeOK ==
    /\ loggerSession \in Session \cup {NoSession}
    /\ handling \subseteq Record
    /\ buffer \in Seq(Record)
    /\ posts \subseteq Seq(Record) \ {<<>>}
    /\ logged \in Nat

HandlingHeld ==
    /\ \A r, q \in handling: r.no = q.no \/ r.thread = q.thread => r = q
    /\ \A r \in handling: \A b \in Batches: \A i \in DOMAIN b:
          b[i].thread = r.thread => b[i].no < r.no

LabelHeld == sessionId # NoSession => loggerSession = sessionId

LogInv == LogTypeOK /\ HandlingHeld /\ EachOnce /\ InThreadOrder /\ LabelHeld

LEMMA NoNumbers == Numbers(<<>>) = {}
  BY DEF Numbers

LEMMA LogInitHolds == LogInit => LogInv
<1>. SUFFICES ASSUME LogInit
              PROVE  LogInv
  OBVIOUS
<1>1. LogTypeOK /\ LabelHeld
  BY DEF LogInit, Init, LogTypeOK, LabelHeld
<1>2. Batches = {<<>>} /\ handling = {} /\ settled = {} /\ logged = 0 /\ posts = {}
  BY DEF LogInit, Batches
<1>3. HandlingHeld /\ InThreadOrder
  BY <1>2 DEF HandlingHeld, InThreadOrder
<1>4. EachOnce
  BY <1>2, NoNumbers DEF EachOnce, InBatches, InHandling
<1>. QED  BY <1>1, <1>3, <1>4 DEF LogInv

(* The client's steps concern the label only. *)
LEMMA ClientStepHolds ==
    ASSUME LogInv, TypeOK', sessionId \in Session \cup {NoSession}, SetSessionId,
           UNCHANGED <<handling, buffer, posts, logged, settled>>
    PROVE  LogInv'
<1>1. LogTypeOK' /\ LabelHeld'
  BY DEF LogInv, LogTypeOK, LabelHeld, SetSessionId, TypeOK
<1>2. HandlingHeld' /\ InThreadOrder' /\ EachOnce'
  BY DEF LogInv, HandlingHeld, InThreadOrder, EachOnce, InBatches, InHandling, Batches, Numbers
<1>. QED  BY <1>1, <1>2 DEF LogInv

LEMMA LabelMessageHolds ==
    ASSUME LogInv, NEW t \in Thread, LabelMessage(t)
    PROVE  LogInv'
<1>. DEFINE r == [no |-> logged + 1, thread |-> t, label |-> loggerSession]
<1>1. /\ handling' = handling \cup {r} /\ logged' = logged + 1 /\ logged \in Nat
      /\ \A q \in handling: q.thread # t
      /\ UNCHANGED <<buffer, posts, settled, loggerSession, sessionId>>
  BY DEF LabelMessage, LogInv, LogTypeOK, vars, client
<1>2. r \in Record /\ r.no = logged + 1 /\ r.thread = t
  BY <1>1 DEF Record, LogInv, LogTypeOK
<1>3. Batches' = Batches /\ InBatches' = InBatches
  BY <1>1 DEF Batches, InBatches, Numbers
<1>4. InBatches \cup InHandling \cup settled = 1 .. logged
  BY DEF LogInv, EachOnce
<1>5. LogTypeOK' /\ LabelHeld'
  BY <1>1, <1>2 DEF LogInv, LogTypeOK, LabelHeld
<1>6. \A q \in handling: q.no \in 1 .. logged
  BY <1>4 DEF InHandling
<1>7. \A b \in Batches: \A i \in DOMAIN b: b[i].no \in 1 .. logged
  BY <1>4 DEF InBatches, Numbers
<1>8. HandlingHeld'
  <2>1. \A p, q \in handling': p.no = q.no \/ p.thread = q.thread => p = q
    BY <1>1, <1>2, <1>6 DEF LogInv, HandlingHeld
  <2>2. ASSUME NEW q \in handling', NEW b \in Batches, NEW i \in DOMAIN b,
               b[i].thread = q.thread
        PROVE  b[i].no < q.no
    BY <1>1, <1>2, <1>7, <2>2 DEF LogInv, HandlingHeld
  <2>. QED  BY <1>3, <2>1, <2>2 DEF HandlingHeld
<1>9. EachOnce'
  <2>1. InHandling' = InHandling \cup {logged + 1}
    BY <1>1, <1>2 DEF InHandling
  <2>2. 1 .. logged' = (1 .. logged) \cup {logged + 1} /\ logged + 1 \notin 1 .. logged
    BY <1>1
  <2>3. InBatches' \cup InHandling' \cup settled' = 1 .. logged'
    BY <1>1, <1>3, <1>4, <2>1, <2>2
  <2>4. InHandling' \cap InBatches' = {}
    BY <1>3, <1>4, <2>1, <2>2 DEF LogInv, EachOnce
  <2>5. settled' \cap (InHandling' \cup InBatches') = {} /\ (buffer \notin posts)'
    BY <1>1, <1>3, <1>4, <2>1, <2>2 DEF LogInv, EachOnce
  <2>6. \A b, c \in Batches': b # c => Numbers(b) \cap Numbers(c) = {}
    BY <1>3 DEF LogInv, EachOnce
  <2>. QED  BY <2>3, <2>4, <2>5, <2>6 DEF EachOnce
<1>10. InThreadOrder'
  BY <1>3 DEF LogInv, InThreadOrder
<1>. QED  BY <1>5, <1>8, <1>9, <1>10 DEF LogInv

LEMMA EnqueueHolds ==
    ASSUME LogInv, NEW r \in handling, Enqueue(r)
    PROVE  LogInv'
<1>1. /\ handling' = handling \ {r} /\ buffer' = Append(buffer, r)
      /\ buffer \in Seq(Record) /\ r \in Record
      /\ UNCHANGED <<posts, logged, settled, loggerSession, sessionId>>
  BY DEF Enqueue, LogInv, LogTypeOK, vars, client
<1>2. /\ DOMAIN buffer' = DOMAIN buffer \cup {Len(buffer) + 1}
      /\ Len(buffer) + 1 \notin DOMAIN buffer
      /\ \A i \in DOMAIN buffer: buffer'[i] = buffer[i] /\ i < Len(buffer) + 1
      /\ buffer'[Len(buffer) + 1] = r
  BY <1>1
<1>3. /\ Batches = posts \cup {buffer} /\ Batches' = posts \cup {buffer'}
      /\ \A b: Numbers(b)' = Numbers(b)
  BY <1>1 DEF Batches, Numbers
<1>4. Numbers(buffer') = Numbers(buffer) \cup {r.no}
  BY <1>2 DEF Numbers
<1>5. InBatches' = InBatches \cup {r.no}
  BY <1>3, <1>4 DEF InBatches
<1>6. InHandling' = InHandling \ {r.no} /\ r.no \in InHandling
  BY <1>1 DEF InHandling, LogInv, HandlingHeld
<1>7. /\ InBatches \cup InHandling \cup settled = 1 .. logged
      /\ InHandling \cap InBatches = {} /\ settled \cap (InHandling \cup InBatches) = {}
      /\ \A b, c \in Batches: b # c => Numbers(b) \cap Numbers(c) = {}
      /\ buffer \notin posts
  BY DEF LogInv, EachOnce
<1>8. \A b \in posts: r.no \notin Numbers(b)
  BY <1>3, <1>6, <1>7 DEF InBatches
<1>9. EachOnce'
  <2>1. InBatches' \cup InHandling' \cup settled' = 1 .. logged'
    BY <1>1, <1>5, <1>6, <1>7
  <2>2. InHandling' \cap InBatches' = {} /\ settled' \cap (InHandling' \cup InBatches') = {}
    BY <1>1, <1>5, <1>6, <1>7
  <2>3. \A b, c \in Batches': b # c => Numbers(b) \cap Numbers(c) = {}
    <3>1. ASSUME NEW b \in posts
          PROVE  Numbers(b) \cap Numbers(buffer') = {}
      BY <1>3, <1>4, <1>7, <1>8, <3>1
    <3>2. ASSUME NEW b \in posts, NEW c \in posts, b # c
          PROVE  Numbers(b) \cap Numbers(c) = {}
      BY <1>3, <1>7, <3>2
    <3>. QED  BY <1>3, <3>1, <3>2
  <2>4. (buffer \notin posts)'
    BY <1>1, <1>4, <1>8
  <2>. QED  BY <1>3, <2>1, <2>2, <2>3, <2>4 DEF EachOnce
<1>10. LogTypeOK' /\ LabelHeld'
  BY <1>1 DEF LogInv, LogTypeOK, LabelHeld
<1>11. HandlingHeld'
  <2>1. ASSUME NEW q \in handling', NEW b \in Batches', NEW i \in DOMAIN b,
               b[i].thread = q.thread
        PROVE  b[i].no < q.no
    <3>1. CASE b \in posts
      BY <1>1, <1>3, <2>1, <3>1 DEF LogInv, HandlingHeld
    <3>2. CASE b = buffer' /\ i \in DOMAIN buffer
      BY <1>1, <1>2, <1>3, <2>1, <3>2 DEF LogInv, HandlingHeld
    <3>3. CASE b = buffer' /\ i = Len(buffer) + 1
      BY <1>1, <1>2, <2>1, <3>3 DEF LogInv, HandlingHeld
    <3>. QED  BY <1>2, <1>3, <2>1, <3>1, <3>2, <3>3
  <2>2. \A q, p \in handling': q.no = p.no \/ q.thread = p.thread => q = p
    BY <1>1 DEF LogInv, HandlingHeld
  <2>. QED  BY <2>1, <2>2 DEF HandlingHeld
<1>12. InThreadOrder'
  <2>1. ASSUME NEW b \in Batches', NEW i \in DOMAIN b, NEW j \in DOMAIN b,
               i < j, b[i].thread = b[j].thread
        PROVE  b[i].no < b[j].no
    <3>1. CASE b \in posts
      BY <1>3, <2>1, <3>1 DEF LogInv, InThreadOrder
    <3>2. CASE b = buffer' /\ j \in DOMAIN buffer
      <4>1. i \in DOMAIN buffer
        BY <1>1, <1>2, <2>1, <3>2
      <4>. QED  BY <1>2, <1>3, <2>1, <3>2, <4>1 DEF LogInv, InThreadOrder
    <3>3. CASE b = buffer' /\ j = Len(buffer) + 1
      <4>1. i \in DOMAIN buffer
        BY <1>1, <1>2, <2>1, <3>3
      <4>. QED  BY <1>2, <1>3, <2>1, <3>3, <4>1 DEF LogInv, HandlingHeld
    <3>. QED  BY <1>2, <1>3, <2>1, <3>1, <3>2, <3>3
  <2>. QED  BY <2>1 DEF InThreadOrder
<1>. QED  BY <1>9, <1>10, <1>11, <1>12 DEF LogInv

LEMMA FlushHolds ==
    ASSUME LogInv, Flush
    PROVE  LogInv'
<1>1. /\ buffer # <<>> /\ posts' = posts \cup {buffer} /\ buffer' = <<>>
      /\ buffer \in Seq(Record)
      /\ UNCHANGED <<handling, logged, settled, loggerSession, sessionId>>
  BY DEF Flush, LogInv, LogTypeOK, vars, client
<1>2. Batches' = Batches \cup {<<>>} /\ \A b: Numbers(b)' = Numbers(b)
  BY <1>1 DEF Batches, Numbers
<1>3. InBatches' = InBatches /\ InHandling' = InHandling
  BY <1>1, <1>2, NoNumbers DEF InBatches, InHandling
<1>4. LogTypeOK' /\ LabelHeld'
  BY <1>1 DEF LogInv, LogTypeOK, LabelHeld
<1>5. EachOnce'
  <2>1. \A b, c \in Batches': b # c => Numbers(b) \cap Numbers(c) = {}
    BY <1>2, NoNumbers DEF LogInv, EachOnce
  <2>2. (buffer \notin posts)'
    BY <1>1 DEF LogInv, LogTypeOK
  <2>. QED  BY <1>1, <1>2, <1>3, <2>1, <2>2 DEF LogInv, EachOnce
<1>6. DOMAIN <<>> = {}
  OBVIOUS
<1>7. HandlingHeld' /\ InThreadOrder'
  BY <1>1, <1>2, <1>6 DEF LogInv, HandlingHeld, InThreadOrder
<1>. QED  BY <1>4, <1>5, <1>7 DEF LogInv

LEMMA PostFinishedHolds ==
    ASSUME LogInv, NEW batch \in posts, PostFinished(batch)
    PROVE  LogInv'
<1>1. /\ posts' = posts \ {batch} /\ settled' = settled \cup Numbers(batch)
      /\ UNCHANGED <<buffer, handling, logged, loggerSession, sessionId>>
  BY DEF PostFinished, Numbers, vars, client
<1>2. /\ Batches' \subseteq Batches /\ Batches = Batches' \cup {batch} /\ batch \notin Batches'
      /\ \A b: Numbers(b)' = Numbers(b)
  BY <1>1 DEF Batches, Numbers, LogInv, EachOnce
<1>3. InHandling' = InHandling /\ InBatches = InBatches' \cup Numbers(batch)
  BY <1>1, <1>2 DEF InBatches, InHandling
<1>4. InBatches' \cap Numbers(batch) = {}
  BY <1>2 DEF InBatches, LogInv, EachOnce
<1>5. LogTypeOK' /\ LabelHeld'
  BY <1>1 DEF LogInv, LogTypeOK, LabelHeld
<1>6. EachOnce'
  BY <1>1, <1>2, <1>3, <1>4 DEF LogInv, EachOnce
<1>7. HandlingHeld' /\ InThreadOrder'
  BY <1>1, <1>2 DEF LogInv, HandlingHeld, InThreadOrder
<1>. QED  BY <1>5, <1>6, <1>7 DEF LogInv

LEMMA LogStepHolds == IInv /\ LogInv /\ [LogNext]_<<vars, log>> => IInv' /\ LogInv'
<1>. SUFFICES ASSUME IInv, LogInv, [LogNext]_<<vars, log>>
              PROVE  IInv' /\ LogInv'
  OBVIOUS
<1>1. [Next]_vars
  BY DEF LogNext, ClientStep, LabelMessage, Enqueue, Flush, PostFinished, log
<1>2. IInv'
  BY <1>1, StepHolds
<1>3. TypeOK' /\ sessionId \in Session \cup {NoSession}
  BY <1>2 DEF IInv, TypeOK
<1>4. CASE ClientStep
  BY <1>2, <1>3, <1>4, ClientStepHolds DEF ClientStep
<1>5. CASE \E t \in Thread: LabelMessage(t)
  BY <1>2, <1>5, LabelMessageHolds
<1>6. CASE \E r \in handling: Enqueue(r)
  BY <1>2, <1>6, EnqueueHolds
<1>7. CASE Flush
  BY <1>2, <1>7, FlushHolds
<1>8. CASE \E batch \in posts: PostFinished(batch)
  BY <1>2, <1>8, PostFinishedHolds
<1>9. CASE UNCHANGED <<vars, log>>
  <2>1. SetSessionId /\ UNCHANGED <<handling, buffer, posts, logged, settled>>
    BY <1>9 DEF vars, client, log, SetSessionId
  <2>. QED  BY <1>2, <1>3, <2>1, ClientStepHolds
<1>. QED  BY <1>2, <1>4, <1>5, <1>6, <1>7, <1>8, <1>9 DEF LogNext

(* Whatever threads log while sessions open and the timer flushes, each    *)
(* message is in one place and in its thread's order, and labelled with    *)
(* the session.                                                            *)
THEOREM LogSafe == LogSpec => []LogHeld
<1>1. LogInit => IInv /\ LogInv
  BY InitHolds, LogInitHolds DEF LogInit
<1>2. LogInv => LogHeld
  BY DEF LogInv, LogHeld, LabelHeld
<1>. QED  BY <1>1, <1>2, LogStepHolds, PTL DEF LogSpec

=============================================================================
