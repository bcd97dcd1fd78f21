-------------------------- MODULE ListeningProofs --------------------------
(***************************************************************************)
(* Proofs about the way of the audio into an upload, for every length of   *)
(* the pre-roll, the chunks and the suppression window and every delay of  *)
(* the threads.                                                            *)
(***************************************************************************)
EXTENDS Listening, TLAPS

-----------------------------------------------------------------------------
(* The inductive invariant.                                                *)

(* What the damage amounts to at most, including a dead source that will   *)
(* be leaked and a part of a frame that will be spliced.                   *)
SourceHeld ==
    /\ running <=> source = "live"
    /\ leaked + (IF source = "dead" THEN 1 ELSE 0) <= failures
    /\ spliced + (IF accumulator = "stale" THEN 1 ELSE 0) <= failures

(* How far the inference thread is behind.                                 *)
LagHeld ==
    /\ \A k \in DOMAIN inferenceQueue: frames - inferenceQueue[k] \in 0 .. MaxLag
    /\ updating => preRoll # <<>> /\ frames - Last(preRoll) \in 0 .. MaxLag

(* The last wake word's frame had been recorded when it was suppressed.    *)
WakeHeld == lastWake.frame # 0 => lastWake.frame <= suppressedFrom - lastWake.lost

IInv == TypeOK /\ SourceHeld /\ LagHeld /\ WakeHeld

LEMMA Bounds ==
    /\ PreRoll \in Nat \ {0} /\ Chunk \in Nat \ {0} /\ Suppression \in Nat \ {0}
    /\ Confirmation \in Nat \ {0} /\ MaxLag \in Nat \ {0} /\ MaxTime \in Nat \ {0}
    /\ MaxFailures \in Nat \ {0}
  BY ListeningAssumption

LEMMA LastIsFrame ==
    ASSUME NEW s \in Seq(Frame), s # <<>>
    PROVE  Last(s) \in Frame /\ Last(s) \in Int /\ Last(s) >= 1 /\ Last(s) <= MaxTime
<1>1. Len(s) \in DOMAIN s
  OBVIOUS
<1>. QED  BY <1>1, Bounds DEF Last, Frame

LEMMA InitHolds == Init => IInv
<1>. SUFFICES ASSUME Init
              PROVE  IInv
  OBVIOUS
<1>1. TypeOK
  <2>1. <<>> \in Seq(Frame) /\ <<>> \in Seq(Message)
    OBVIOUS
  <2>2. /\ 0 \in 0 .. MaxTime /\ 0 \in 0 .. now /\ 0 \in 0 .. Chunk - 1 /\ 0 \in Nat
        /\ -Suppression \in -Suppression .. MaxTime /\ now = 0
    BY Bounds DEF Init
  <2>3. upload \in [preRoll: Seq(Frame), first: 0..MaxTime]
    BY <2>1, <2>2 DEF Init, Upload
  <2>4. lastWake \in [frame: 0..MaxTime, lost: 0..MaxTime]
    BY <2>2 DEF Init
  <2>. QED  BY <2>1, <2>2, <2>3, <2>4 DEF Init, TypeOK
<1>2. SourceHeld /\ LagHeld /\ WakeHeld
  BY DEF Init, SourceHeld, LagHeld, WakeHeld
<1>. QED  BY <1>1, <1>2 DEF IInv

-----------------------------------------------------------------------------
(* The steps that keep what they do not touch.                             *)

LEMMA LeaveType ==
    ASSUME NEW next \in {"Idle", "AwaitingWake", "Streaming", "PlayingBack"}, Leave(next)
    PROVE  /\ mode' \in {"Idle", "AwaitingWake", "Streaming", "PlayingBack"}
           /\ upload' \in [preRoll: Seq(Frame), first: 0..MaxTime]
  BY Bounds DEF Leave, Upload

(* A start, whatever becomes of it. *)
LEMMA StartHolds ==
    ASSUME TypeOK, NEW old \in {"none", "dead"}, Start(old),
           leaked + (IF old = "dead" THEN 1 ELSE 0) <= failures
    PROVE  /\ running' \in BOOLEAN /\ source' \in {"none", "live", "dead"}
           /\ running' <=> source' = "live"
           /\ leaked' \in Nat /\ failures' \in Nat /\ failures <= failures'
           /\ leaked' + (IF source' = "dead" THEN 1 ELSE 0) <= failures'
           /\ mode' \in {"Idle", "AwaitingWake", "Streaming", "PlayingBack"}
           /\ upload' \in [preRoll: Seq(Frame), first: 0..MaxTime]
           /\ UNCHANGED <<bargeInTimer, spoken, torn>>
<1>1. leaked \in Nat /\ failures \in Nat
  BY DEF TypeOK
<1>2. CASE UNCHANGED <<failures, pipeline>>
  <2>1. UNCHANGED <<mode, upload, bargeInTimer, spoken, torn>>
    BY <1>2 DEF pipeline
  <2>2. /\ mode \in {"Idle", "AwaitingWake", "Streaming", "PlayingBack"}
        /\ upload \in [preRoll: Seq(Frame), first: 0..MaxTime]
    BY DEF TypeOK
  <2>3. CASE failures' = failures + 1
    BY <1>1, <1>2, <2>3
  <2>4. CASE failures' # failures + 1
    <3>1. /\ running' = TRUE /\ source' = "live"
          /\ leaked' = IF old = "none" THEN leaked ELSE leaked + 1
      BY <2>4 DEF Start, CaptureError
    <3>. QED  BY <1>1, <1>2, <2>1, <2>2, <3>1
  <2>. QED  BY <2>3, <2>4
<1>3. CASE CaptureError
  <2>1. /\ failures' = failures + 1 /\ Leave("Idle")
        /\ UNCHANGED <<bargeInTimer, spoken, torn>>
    BY <1>3 DEF CaptureError
  <2>2. /\ running' = FALSE
        /\ \/ source' = "dead" /\ leaked' = IF old = "none" THEN leaked ELSE leaked + 1
           \/ source' = old /\ leaked' = leaked
    BY <1>1, <2>1 DEF Start
  <2>3. /\ mode' \in {"Idle", "AwaitingWake", "Streaming", "PlayingBack"}
        /\ upload' \in [preRoll: Seq(Frame), first: 0..MaxTime]
    BY <2>1, LeaveType
  <2>4. /\ leaked' \in Nat /\ failures' \in Nat /\ failures <= failures'
        /\ leaked' + (IF source' = "dead" THEN 1 ELSE 0) <= failures'
    BY <1>1, <2>1, <2>2
  <2>. QED  BY <2>1, <2>2, <2>3, <2>4
<1>. QED  BY <1>2, <1>3 DEF Start

-----------------------------------------------------------------------------
(* The capture's steps, and time's.                                        *)

LEMMA CaptureHolds ==
    ASSUME IInv, DeviceError \/ Configure \/ Restart
    PROVE  IInv'
<1>. USE DEF IInv
<1>1. /\ failures \in Nat /\ leaked \in Nat /\ spliced \in Nat
      /\ accumulator \in {"empty", "stale"} /\ source \in {"none", "live", "dead"}
      /\ running \in BOOLEAN
  BY DEF TypeOK
<1>2. UNCHANGED <<now, frames, spliced, queues, detector>>
  BY DEF DeviceError, Configure, Restart
<1>3. LagHeld' /\ WakeHeld'
  BY <1>2 DEF queues, detector, LagHeld, WakeHeld
<1>4. CASE DeviceError
  <2>1. /\ running' = FALSE /\ source' = "dead" /\ accumulator' \in {accumulator, "stale"}
        /\ failures' = failures + 1 /\ leaked' = leaked /\ Leave("Idle") /\ source = "live"
        /\ UNCHANGED <<bargeInTimer, spoken, torn>>
    BY <1>4 DEF DeviceError, CaptureError, SourceHeld
  <2>2. SourceHeld'
    BY <1>1, <1>2, <2>1 DEF SourceHeld
  <2>3. /\ mode' \in {"Idle", "AwaitingWake", "Streaming", "PlayingBack"}
        /\ upload' \in [preRoll: Seq(Frame), first: 0..MaxTime]
    BY <2>1, LeaveType
  <2>4. TypeOK'
    <3>1. UNCHANGED <<now, frames, spliced, encoderQueue, inferenceQueue, inbox, preRoll,
                      updating, accumulated, suppressedFrom, lastWake>>
      BY <1>2 DEF queues, detector
    <3>2. running' \in BOOLEAN /\ source' \in {"none", "live", "dead"}
      BY <2>1
    <3>3. accumulator' \in {"empty", "stale"}
      BY <1>1, <2>1
    <3>4. leaked' \in Nat /\ failures' \in Nat
      BY <1>1, <2>1
    <3>. QED  BY <2>1, <2>3, <3>1, <3>2, <3>3, <3>4 DEF TypeOK
  <2>. QED  BY <1>3, <2>2, <2>4
<1>5. CASE Configure \/ Restart
  <2>1. PICK old \in {"none", "dead"}:
            /\ Start(old)
            /\ leaked + (IF old = "dead" THEN 1 ELSE 0) <= failures
            /\ accumulator' \in {accumulator, "empty"}
    <3>1. CASE Configure
      BY <1>1, <3>1 DEF Configure, SourceHeld
    <3>2. CASE Restart
      BY <1>1, <3>2 DEF Restart, SourceHeld
    <3>. QED  BY <1>5, <3>1, <3>2
  <2>2. /\ running' \in BOOLEAN /\ source' \in {"none", "live", "dead"}
        /\ running' <=> source' = "live"
        /\ leaked' \in Nat /\ failures' \in Nat /\ failures <= failures'
        /\ leaked' + (IF source' = "dead" THEN 1 ELSE 0) <= failures'
        /\ mode' \in {"Idle", "AwaitingWake", "Streaming", "PlayingBack"}
        /\ upload' \in [preRoll: Seq(Frame), first: 0..MaxTime]
        /\ UNCHANGED <<bargeInTimer, spoken, torn>>
    BY <2>1, StartHolds
  <2>3. SourceHeld'
    <3>1. spliced' + (IF accumulator' = "stale" THEN 1 ELSE 0) <= failures'
      BY <1>1, <1>2, <2>1, <2>2 DEF SourceHeld
    <3>. QED  BY <2>2, <3>1 DEF SourceHeld
  <2>4. TypeOK'
    BY <1>1, <1>2, <2>1, <2>2 DEF TypeOK, queues, detector
  <2>. QED  BY <1>3, <2>3, <2>4
<1>. QED  BY <1>4, <1>5

LEMMA TickHolds ==
    ASSUME IInv, Tick
    PROVE  IInv'
<1>. USE DEF IInv
<1>1. /\ now' = now + 1 /\ now < MaxTime /\ KeepsUp
      /\ UNCHANGED <<inbox, detector, pipeline>>
  BY DEF Tick
<1>2. /\ now \in 0 .. MaxTime /\ frames \in 0 .. now
      /\ encoderQueue \in Seq(Frame) /\ inferenceQueue \in Seq(Frame)
      /\ MaxTime \in Nat /\ MaxLag \in Nat \ {0}
  BY Bounds DEF TypeOK
<1>3. UNCHANGED <<inbox, preRoll, updating, accumulated, suppressedFrom, lastWake,
                  mode, bargeInTimer, upload, spoken, torn>>
  BY <1>1 DEF detector, pipeline
<1>4. WakeHeld'
  BY <1>3 DEF WakeHeld
<1>5. CASE Silence
  <2>1. UNCHANGED <<running, source, accumulator, frames, spliced, leaked, failures,
                    encoderQueue, inferenceQueue>>
    BY <1>5 DEF Silence, capture
  <2>2. now' \in 0 .. MaxTime /\ frames' \in 0 .. now'
    BY <1>1, <1>2, <2>1
  <2>3. TypeOK'
    BY <1>3, <2>1, <2>2 DEF TypeOK
  <2>4. SourceHeld' /\ LagHeld'
    BY <1>3, <2>1 DEF SourceHeld, LagHeld
  <2>. QED  BY <1>4, <2>3, <2>4
<1>6. CASE OnAudioDataReady
  <2>1. /\ frames' = frames + 1
        /\ encoderQueue' = Append(encoderQueue, frames')
        /\ inferenceQueue' = Append(inferenceQueue, frames')
        /\ accumulator' = "empty"
        /\ spliced' = IF accumulator = "stale" THEN spliced + 1 ELSE spliced
        /\ UNCHANGED <<running, source, leaked, failures>>
    BY <1>6 DEF OnAudioDataReady
  <2>2. now' \in 0 .. MaxTime /\ frames' \in 0 .. now' /\ frames' \in Frame
    BY <1>1, <1>2, <2>1 DEF Frame
  <2>3. encoderQueue' \in Seq(Frame) /\ inferenceQueue' \in Seq(Frame)
    BY <1>2, <2>1, <2>2
  <2>4. spliced \in Nat /\ spliced' \in Nat /\ failures \in Nat
    BY <2>1 DEF TypeOK
  <2>5. TypeOK'
    BY <1>3, <2>1, <2>2, <2>3, <2>4 DEF TypeOK
  <2>6. SourceHeld'
    BY <2>1, <2>4 DEF SourceHeld
  <2>7. ASSUME NEW k \in DOMAIN inferenceQueue'
        PROVE  frames' - inferenceQueue'[k] \in 0 .. MaxLag
    <3>1. CASE k \in DOMAIN inferenceQueue
      <4>1. inferenceQueue'[k] = inferenceQueue[k]
        BY <1>2, <2>1, <3>1
      <4>2. frames - inferenceQueue[k] < MaxLag
        BY <1>1, <3>1 DEF KeepsUp, ToSet
      <4>3. frames - inferenceQueue[k] \in 0 .. MaxLag /\ inferenceQueue[k] \in Int
        BY <1>2, <3>1 DEF LagHeld, Frame
      <4>4. frames' - inferenceQueue'[k] = (frames - inferenceQueue[k]) + 1
        BY <1>2, <2>1, <4>1, <4>3
      <4>5. frames - inferenceQueue[k] + 1 \in 0 .. MaxLag
        <5>. DEFINE behind == frames - inferenceQueue[k]
        <5>1. behind \in 0 .. MaxLag /\ behind < MaxLag
          BY <4>2, <4>3
        <5>. HIDE DEF behind
        <5>2. behind + 1 \in 0 .. MaxLag
          BY <1>2, <5>1
        <5>. QED  BY <5>2 DEF behind
      <4>. QED  BY <4>4, <4>5
    <3>2. CASE k \notin DOMAIN inferenceQueue
      <4>1. inferenceQueue'[k] = frames'
        BY <1>2, <2>1, <3>2
      <4>2. frames' - frames' = 0
        BY <1>2, <2>1
      <4>3. 0 \in 0 .. MaxLag
        BY <1>2
      <4>. QED  BY <4>1, <4>2, <4>3
    <3>. QED  BY <3>1, <3>2
  <2>8. ASSUME updating
        PROVE  preRoll' # <<>> /\ frames' - Last(preRoll') \in 0 .. MaxLag
    <3>1. preRoll # <<>> /\ frames - Last(preRoll) \in 0 .. MaxLag
      BY <2>8 DEF LagHeld
    <3>2. frames - Last(preRoll) < MaxLag
      BY <1>1, <2>8 DEF KeepsUp
    <3>3. Last(preRoll) \in Int
      BY <3>1, LastIsFrame DEF TypeOK
    <3>4. Last(preRoll') = Last(preRoll)
      BY <1>3
    <3>. QED  BY <1>2, <1>3, <2>1, <3>1, <3>2, <3>3, <3>4
  <2>9. LagHeld'
    BY <1>3, <2>7, <2>8 DEF LagHeld
  <2>. QED  BY <1>4, <2>5, <2>6, <2>9
<1>. QED  BY <1>5, <1>6 DEF Tick

-----------------------------------------------------------------------------
(* The threads' steps.                                                     *)

LEMMA EncoderHolds ==
    ASSUME IInv, EncodePcmFrame
    PROVE  IInv'
<1>1. /\ encoderQueue # <<>> /\ encoderQueue' = Tail(encoderQueue)
      /\ inbox' = Append(inbox, [kind |-> "opus", frame |-> Head(encoderQueue)])
      /\ UNCHANGED <<now, capture, inferenceQueue, detector, pipeline>>
  BY DEF EncodePcmFrame
<1>2. /\ encoderQueue \in Seq(Frame) /\ inbox \in Seq(Message)
  BY DEF IInv, TypeOK
<1>3. encoderQueue' \in Seq(Frame) /\ Head(encoderQueue) \in Frame
  BY <1>1, <1>2
<1>4. [kind |-> "opus", frame |-> Head(encoderQueue)] \in Message
  BY <1>3 DEF Message
<1>5. inbox' \in Seq(Message)
  BY <1>1, <1>2, <1>4
<1>. QED  BY <1>1, <1>3, <1>5 DEF IInv, TypeOK, SourceHeld, LagHeld, WakeHeld, capture,
              detector, pipeline

LEMMA AppendHolds ==
    ASSUME IInv, AppendPreRoll
    PROVE  IInv'
<1>1. /\ inferenceQueue # <<>> /\ inferenceQueue' = Tail(inferenceQueue)
      /\ preRoll' = Append(preRoll, Head(inferenceQueue))
      /\ updating' = TRUE
      /\ UNCHANGED <<now, capture, encoderQueue, inbox, accumulated, suppressedFrom, lastWake,
                     pipeline>>
  BY DEF AppendPreRoll
<1>2. /\ inferenceQueue \in Seq(Frame) /\ preRoll \in Seq(Frame)
      /\ \A k \in DOMAIN inferenceQueue: frames - inferenceQueue[k] \in 0 .. MaxLag
  BY DEF IInv, TypeOK, LagHeld
<1>3. /\ Head(inferenceQueue) \in Frame
      /\ Head(inferenceQueue) = inferenceQueue[1] /\ 1 \in DOMAIN inferenceQueue
      /\ inferenceQueue' \in Seq(Frame)
      /\ \A k \in DOMAIN inferenceQueue':
            k + 1 \in DOMAIN inferenceQueue /\ inferenceQueue'[k] = inferenceQueue[k + 1]
  BY <1>1, <1>2
<1>4. /\ preRoll' \in Seq(Frame) /\ preRoll' # <<>>
      /\ Last(preRoll') = Head(inferenceQueue)
  BY <1>1, <1>2, <1>3 DEF Last
<1>5. LagHeld'
  BY <1>1, <1>2, <1>3, <1>4 DEF LagHeld, capture
<1>6. TypeOK' /\ SourceHeld' /\ WakeHeld'
  BY <1>1, <1>3, <1>4 DEF IInv, TypeOK, SourceHeld, WakeHeld, capture, pipeline
<1>. QED  BY <1>5, <1>6 DEF IInv

LEMMA TrimmedType ==
    ASSUME preRoll \in Seq(Frame)
    PROVE  Trimmed \in Seq(Frame)
  BY Bounds DEF Trimmed

LEMMA ProcessHolds ==
    ASSUME IInv, ProcessPcmFrame
    PROVE  IInv'
<1>. USE DEF IInv
<1>1. /\ updating /\ updating' = FALSE /\ preRoll' = Trimmed
      /\ accumulated' = (accumulated + 1) % Chunk
      /\ UNCHANGED <<now, capture, encoderQueue, inferenceQueue, pipeline>>
  BY DEF ProcessPcmFrame
<1>2. UNCHANGED <<running, source, accumulator, frames, spliced, leaked, failures, mode,
                  bargeInTimer, upload, spoken, torn>>
  BY <1>1 DEF capture, pipeline
<1>3. preRoll \in Seq(Frame) /\ preRoll' \in Seq(Frame) /\ accumulated' \in 0 .. Chunk - 1
  BY <1>1, TrimmedType, Bounds DEF TypeOK
<1>4. SourceHeld' /\ LagHeld'
  BY <1>1, <1>2 DEF SourceHeld, LagHeld
<1>5. CASE UNCHANGED <<inbox, suppressedFrom, lastWake>>
  BY <1>1, <1>2, <1>3, <1>4, <1>5 DEF TypeOK, WakeHeld
<1>6. CASE /\ suppressedFrom' = now
           /\ inbox' = Append(inbox, [kind |-> "wake", frame |-> Last(preRoll), preRoll |-> Trimmed])
           /\ lastWake' = [frame |-> Last(preRoll), lost |-> Lost]
  <2>1. /\ preRoll # <<>> /\ frames - Last(preRoll) \in 0 .. MaxLag
        /\ now \in 0 .. MaxTime /\ frames \in 0 .. now /\ MaxTime \in Nat
        /\ inbox \in Seq(Message)
    BY <1>1, Bounds DEF LagHeld, TypeOK
  <2>2. Last(preRoll) \in Frame /\ Last(preRoll) \in Int
    BY <1>3, <2>1, LastIsFrame
  <2>3. Lost \in 0 .. MaxTime /\ Lost = now - frames
    BY <2>1 DEF Lost
  <2>4. inbox' \in Seq(Message)
    <3>. DEFINE m == [kind |-> "wake", frame |-> Last(preRoll), preRoll |-> Trimmed]
    <3>1. Trimmed \in Seq(Frame)
      BY <1>1, <1>3
    <3>2. m \in Message
      BY <2>2, <3>1 DEF Message
    <3>. HIDE DEF m
    <3>. QED  BY <1>6, <2>1, <3>2 DEF m
  <2>5. lastWake' \in [frame: 0..MaxTime, lost: 0..MaxTime]
    BY <1>6, <2>2, <2>3, LastIsFrame DEF Frame
  <2>6. suppressedFrom' \in -Suppression .. MaxTime
    BY <1>6, <2>1, Bounds
  <2>7. TypeOK'
    BY <1>1, <1>2, <1>3, <2>4, <2>5, <2>6 DEF TypeOK
  <2>8. WakeHeld'
    BY <1>6, <2>1, <2>2, <2>3 DEF WakeHeld
  <2>. QED  BY <1>4, <2>7, <2>8
<1>. QED  BY <1>5, <1>6 DEF ProcessPcmFrame

-----------------------------------------------------------------------------
(* The main thread's steps: none of them touches the capture or the        *)
(* detector.                                                               *)

LEMMA MainHolds ==
    ASSUME IInv, UNCHANGED <<now, capture, encoderQueue, inferenceQueue, detector>>,
           inbox' \in Seq(Message),
           mode' \in {"Idle", "AwaitingWake", "Streaming", "PlayingBack"},
           upload' \in [preRoll: Seq(Frame), first: 0..MaxTime],
           bargeInTimer' \in Nat, spoken' \in 0..MaxTime, torn' \in BOOLEAN
    PROVE  IInv'
  BY DEF IInv, TypeOK, SourceHeld, LagHeld, WakeHeld, capture, detector

LEMMA OrchestratorHolds ==
    ASSUME IInv,
           \/ OnOpusFrameEncoded \/ OnWakeWordDetected \/ OnVadSpeechStarted \/ OnSpeechEnded
           \/ OnBargeInTimerExpired \/ OtherTransition
    PROVE  IInv'
<1>1. /\ mode \in {"Idle", "AwaitingWake", "Streaming", "PlayingBack"}
      /\ upload \in [preRoll: Seq(Frame), first: 0..MaxTime]
      /\ bargeInTimer \in Nat /\ spoken \in 0..MaxTime /\ torn \in BOOLEAN
      /\ inbox \in Seq(Message) /\ preRoll \in Seq(Frame) /\ now \in 0..MaxTime
      /\ updating \in BOOLEAN /\ MaxTime \in Nat /\ Confirmation \in Nat
  BY Bounds DEF IInv, TypeOK
<1>2. ASSUME NEW kind, Receive(kind)
      PROVE  /\ inbox' \in Seq(Message) /\ Head(inbox) \in Message /\ Head(inbox).kind = kind
             /\ UNCHANGED <<now, capture, encoderQueue, inferenceQueue, detector>>
  BY <1>1, <1>2 DEF Receive
<1>3. CASE OnOpusFrameEncoded
  <2>1. /\ Receive("opus")
        /\ \/ upload' = upload
           \/ upload' = [upload EXCEPT !.first = Head(inbox).frame]
        /\ UNCHANGED <<mode, bargeInTimer, spoken, torn>>
    BY <1>3 DEF OnOpusFrameEncoded
  <2>2. Head(inbox).frame \in 0 .. MaxTime
    BY <1>1, <1>2, <2>1 DEF Message, Frame
  <2>3. upload' \in [preRoll: Seq(Frame), first: 0..MaxTime]
    BY <1>1, <2>1, <2>2
  <2>. QED  BY <1>1, <1>2, <2>1, <2>3, MainHolds
<1>4. CASE OnWakeWordDetected
  <2>1. /\ Receive("wake")
        /\ \/ mode' = "Streaming" /\ upload' = Upload(Head(inbox).preRoll)
           \/ UNCHANGED <<mode, upload>>
        /\ UNCHANGED <<bargeInTimer, spoken, torn>>
    BY <1>4 DEF OnWakeWordDetected
  <2>2. Head(inbox).preRoll \in Seq(Frame)
    BY <1>2, <2>1 DEF Message
  <2>3. upload' \in [preRoll: Seq(Frame), first: 0..MaxTime]
    BY <1>1, <2>1, <2>2 DEF Upload
  <2>. QED  BY <1>1, <1>2, <2>1, <2>3, MainHolds
<1>5. CASE OnVadSpeechStarted \/ OnSpeechEnded
  <2>1. /\ UNCHANGED <<now, capture, queues, detector, mode, upload, torn>>
        /\ bargeInTimer' \in Nat /\ spoken' \in 0..MaxTime
    BY <1>1, <1>5, LastIsFrame DEF OnVadSpeechStarted, OnSpeechEnded
  <2>. QED  BY <1>1, <2>1, MainHolds DEF queues
<1>6. CASE OnBargeInTimerExpired
  <2>1. /\ bargeInTimer' = 0 /\ UNCHANGED <<now, capture, queues, detector, spoken>>
        /\ \/ UNCHANGED <<mode, upload, torn>>
           \/ /\ mode' = "Streaming" /\ torn' = updating
              /\ \E read \in {preRoll, Trimmed}: upload' = Upload(read)
    BY <1>6 DEF OnBargeInTimerExpired
  <2>2. upload' \in [preRoll: Seq(Frame), first: 0..MaxTime]
    BY <1>1, <2>1, TrimmedType DEF Upload
  <2>3. torn' \in BOOLEAN /\ mode' \in {"Idle", "AwaitingWake", "Streaming", "PlayingBack"}
    BY <1>1, <2>1
  <2>4. bargeInTimer' \in Nat /\ spoken' \in 0..MaxTime /\ inbox' \in Seq(Message)
    BY <1>1, <2>1 DEF queues
  <2>5. UNCHANGED <<now, capture, encoderQueue, inferenceQueue, detector>>
    BY <2>1 DEF queues
  <2>. QED  BY <2>2, <2>3, <2>4, <2>5, MainHolds
<1>7. CASE OtherTransition
  <2>1. /\ \E next \in {"Idle", "AwaitingWake", "Streaming", "PlayingBack"}: Leave(next)
        /\ bargeInTimer' \in {0, bargeInTimer} /\ spoken' = 0 /\ torn' = FALSE
        /\ UNCHANGED <<now, capture, queues, detector>>
    BY <1>7 DEF OtherTransition, BecomeIdle
  <2>2. /\ mode' \in {"Idle", "AwaitingWake", "Streaming", "PlayingBack"}
        /\ upload' \in [preRoll: Seq(Frame), first: 0..MaxTime]
    BY <2>1, LeaveType
  <2>3. /\ bargeInTimer' \in Nat /\ spoken' \in 0..MaxTime /\ torn' \in BOOLEAN
        /\ inbox' \in Seq(Message)
    <3>1. bargeInTimer' \in Nat /\ spoken' \in 0..MaxTime
      BY <1>1, <2>1
    <3>2. torn' \in BOOLEAN
      BY <2>1
    <3>3. inbox' \in Seq(Message)
      BY <1>1, <2>1 DEF queues
    <3>. QED  BY <3>1, <3>2, <3>3
  <2>4. UNCHANGED <<now, capture, encoderQueue, inferenceQueue, detector>>
    BY <2>1 DEF queues
  <2>. QED  BY <2>2, <2>3, <2>4, MainHolds
<1>. QED  BY <1>3, <1>4, <1>5, <1>6, <1>7

LEMMA StepHolds == IInv /\ [Next]_vars => IInv'
<1>. SUFFICES ASSUME IInv, [Next]_vars
              PROVE  IInv'
  OBVIOUS
<1>1. CASE UNCHANGED vars
  <2>1. /\ UNCHANGED <<now, capture, encoderQueue, inferenceQueue, detector>>
        /\ UNCHANGED <<inbox, mode, upload, bargeInTimer, spoken, torn>>
    BY <1>1 DEF vars, queues, pipeline
  <2>. QED  BY <2>1, MainHolds DEF IInv, TypeOK
<1>. QED  BY <1>1, CaptureHolds, TickHolds, EncoderHolds, AppendHolds, ProcessHolds,
              OrchestratorHolds DEF Next

LEMMA InvariantHolds == Spec => []IInv
  BY InitHolds, StepHolds, PTL DEF Spec

-----------------------------------------------------------------------------
(* The theorems.                                                           *)

(* Every reachable state is well-typed. *)
THEOREM TypeCorrect == Spec => []TypeOK
<1>1. IInv => TypeOK
  BY DEF IInv
<1>. QED  BY <1>1, InvariantHolds, PTL

(* However often the capture fails and is restarted, each failure costs at *)
(* most one source and one spliced frame.                                  *)
THEOREM DamageSafe == Spec => []DamageBounded
<1>1. IInv => DamageBounded
  BY DEF IInv, TypeOK, SourceHeld, DamageBounded
<1>. QED  BY <1>1, InvariantHolds, PTL

(* A suppression window that covers the pre-roll and the delay of the      *)
(* threads keeps the pre-rolls of two wake words apart.                    *)
THEOREM SuppressionSuffices ==
    ASSUME Suppression >= PreRoll + MaxLag
    PROVE  Spec => WakesAreApart
<1>. DEFINE Apart == lastWake' # lastWake /\ lastWake.frame # 0 /\ lastWake'.lost = lastWake.lost
                        => lastWake'.frame - lastWake.frame >= PreRoll
<1>1. IInv /\ [Next]_vars => [Apart]_vars
  <2>. SUFFICES ASSUME IInv, Next, lastWake' # lastWake, lastWake.frame # 0,
                       lastWake'.lost = lastWake.lost
                PROVE  lastWake'.frame - lastWake.frame >= PreRoll
    OBVIOUS
  <2>1. ProcessPcmFrame
    BY DEF Next, Tick, DeviceError, Configure, Restart, EncodePcmFrame, AppendPreRoll,
        OnOpusFrameEncoded, OnWakeWordDetected, Receive, OnVadSpeechStarted, OnSpeechEnded,
        OnBargeInTimerExpired, OtherTransition, BecomeIdle, detector
  <2>2. updating /\ ~Suppressed /\ lastWake' = [frame |-> Last(preRoll), lost |-> now - frames]
    BY <2>1 DEF ProcessPcmFrame, Lost
  <2>3. /\ frames - Last(preRoll) \in 0 .. MaxLag
        /\ lastWake.frame <= suppressedFrom - lastWake.lost
        /\ preRoll # <<>> /\ preRoll \in Seq(Frame)
        /\ frames \in Int /\ now \in Int /\ suppressedFrom \in Int
        /\ lastWake.frame \in Int /\ lastWake.lost \in Int
    BY <2>2 DEF IInv, TypeOK, LagHeld, WakeHeld
  <2>4. Last(preRoll) \in Int /\ PreRoll \in Int /\ MaxLag \in Int /\ Suppression \in Int
    BY <2>3, LastIsFrame, Bounds
  <2>5. now - suppressedFrom >= Suppression /\ lastWake.lost = now - frames
    BY <2>2, <2>3, <2>4 DEF Suppressed
  <2>. QED  BY <2>2, <2>3, <2>4, <2>5
<1>. QED  BY <1>1, InvariantHolds, PTL DEF Spec, WakesAreApart

-----------------------------------------------------------------------------
(* The pre-roll.  Its invariant says where the frames are.                 *)

(* The frames up to last, without a gap. *)
Run(s, last) == \A k \in DOMAIN s: s[k] = last - Len(s) + k

(* The last frame that the inference thread has taken.                     *)
Taken == frames - Len(inferenceQueue)

(* Both threads' queues hold the latest frames, and the buffer those       *)
(* before; it is short only while it has lost nothing.                     *)
BufferHeld ==
    /\ Run(inferenceQueue, frames) /\ Run(encoderQueue, frames) /\ Run(preRoll, Taken)
    /\ Len(preRoll) <= (IF updating THEN PreRoll + 1 ELSE PreRoll)
    /\ Len(preRoll) < PreRoll => Taken = Len(preRoll)
    /\ Len(encoderQueue) <= MaxLag + 1

MessageHeld(m) ==
    /\ frames - m.frame \in 0 .. MaxLag
    /\ m.kind = "opus" => m.frame <= frames - Len(encoderQueue)
    /\ m.kind = "wake" => m.preRoll # <<>> /\ Len(m.preRoll) <= PreRoll /\ Run(m.preRoll, m.frame)

Opus(i) == i \in DOMAIN inbox /\ inbox[i].kind = "opus"

(* Messages are young, and the encoded frames in order.                    *)
InboxHeld ==
    /\ \A i \in DOMAIN inbox: MessageHeld(inbox[i])
    /\ \A i, j \in DOMAIN inbox: Opus(i) /\ Opus(j) /\ i < j => inbox[i].frame < inbox[j].frame

(* How long ago the user began to speak over the playback.                 *)
SpokenHeld ==
    /\ mode = "AwaitingWake" => spoken = 0
    /\ mode = "PlayingBack" /\ spoken # 0 =>
          /\ bargeInTimer # 0 /\ now <= bargeInTimer + MaxLag
          /\ frames - spoken <= MaxLag + 1 + Confirmation + now - bargeInTimer

(* The frames that may still become an upload's first live frame.          *)
Pending(f) ==
    \/ \E i \in DOMAIN inbox: Opus(i) /\ inbox[i].frame = f
    \/ \E k \in DOMAIN encoderQueue: encoderQueue[k] = f

(* An upload that waits for its first live frame will get one that is near *)
(* the end of its pre-roll.                                                *)
SeamHeld ==
    mode = "Streaming" /\ upload.preRoll # <<>> /\ upload.first = 0 =>
        /\ Last(upload.preRoll) <= frames
        /\ \A f \in Frame: Pending(f) => f >= Last(upload.preRoll) - MaxLag
        /\ \/ frames <= Last(upload.preRoll) + MaxLag + 1
           \/ \E f \in Frame: Pending(f) /\ f <= Last(upload.preRoll) + MaxLag + 2

PInv == BufferHeld /\ InboxHeld /\ SpokenHeld /\ SeamHeld /\ PreRollHeld

LEMMA RunAppend ==
    ASSUME NEW s \in Seq(Frame), NEW last \in Int, Run(s, last), last + 1 \in Frame
    PROVE  /\ Append(s, last + 1) \in Seq(Frame)
           /\ Run(Append(s, last + 1), last + 1) /\ Len(Append(s, last + 1)) = Len(s) + 1
  BY Bounds DEF Run, Frame

LEMMA RunTail ==
    ASSUME NEW s \in Seq(Frame), NEW last \in Int, Run(s, last), s # <<>>
    PROVE  /\ Tail(s) \in Seq(Frame) /\ Run(Tail(s), last) /\ Len(Tail(s)) = Len(s) - 1
           /\ Head(s) = last - Len(s) + 1 /\ Head(s) \in Frame
           /\ Last(s) = last /\ last \in Frame
<1>1. Head(s) = s[1] /\ 1 \in DOMAIN s /\ Len(s) \in DOMAIN s /\ Len(s) \in Nat
  OBVIOUS
<1>2. Last(s) = last /\ Head(s) = last - Len(s) + 1
  BY <1>1 DEF Run, Last
<1>3. Head(s) \in Frame /\ last \in Frame
  BY <1>1 DEF Run
<1>4. Tail(s) \in Seq(Frame) /\ Len(Tail(s)) = Len(s) - 1
      /\ \A k \in DOMAIN Tail(s): Tail(s)[k] = s[k + 1] /\ k + 1 \in DOMAIN s /\ k \in Int
  OBVIOUS
<1>5. Run(Tail(s), last)
  BY <1>1, <1>4 DEF Run
<1>. QED  BY <1>2, <1>3, <1>4, <1>5

LEMMA InboxAppend ==
    ASSUME inbox \in Seq(Message), NEW m, inbox' = Append(inbox, m)
    PROVE  /\ DOMAIN inbox \subseteq DOMAIN inbox'
           /\ \A i \in DOMAIN inbox: i \in Nat /\ i < Len(inbox) + 1 /\ inbox'[i] = inbox[i]
           /\ Len(inbox) + 1 \in DOMAIN inbox' /\ Len(inbox) + 1 \in Nat
           /\ inbox'[Len(inbox) + 1] = m
           /\ \A i \in DOMAIN inbox': i \in DOMAIN inbox \/ i = Len(inbox) + 1
  OBVIOUS

LEMMA InboxTail ==
    ASSUME inbox \in Seq(Message), inbox # <<>>, inbox' = Tail(inbox)
    PROVE  /\ 1 \in DOMAIN inbox /\ Head(inbox) = inbox[1] /\ Head(inbox) \in Message
           /\ \A i \in DOMAIN inbox': i \in Nat /\ i + 1 \in DOMAIN inbox /\ inbox'[i] = inbox[i + 1]
           /\ \A i \in DOMAIN inbox: i \in Nat /\ i >= 1 /\ (i = 1 \/ i - 1 \in DOMAIN inbox')
  OBVIOUS

-----------------------------------------------------------------------------
(* BufferHeld.                                                             *)

LEMMA BufferKept ==
    ASSUME BufferHeld, UNCHANGED <<frames, inferenceQueue, encoderQueue, preRoll, updating>>
    PROVE  BufferHeld'
  BY DEF BufferHeld, Run, Taken

LEMMA QueueTypes ==
    ASSUME IInv
    PROVE  /\ inferenceQueue \in Seq(Frame) /\ encoderQueue \in Seq(Frame) /\ preRoll \in Seq(Frame)
           /\ Len(inferenceQueue) \in Nat /\ Len(encoderQueue) \in Nat /\ Len(preRoll) \in Nat
           /\ inbox \in Seq(Message) /\ frames \in Nat /\ now \in Nat /\ Taken \in Int
           /\ spoken \in Nat /\ bargeInTimer \in Nat /\ updating \in BOOLEAN
           /\ upload \in [preRoll: Seq(Frame), first: 0 .. MaxTime]
           /\ PreRoll \in Nat \ {0} /\ MaxLag \in Nat \ {0} /\ Confirmation \in Nat \ {0}
           /\ MaxTime \in Nat \ {0} /\ Frame \subseteq Nat \ {0}
<1>1. /\ inferenceQueue \in Seq(Frame) /\ encoderQueue \in Seq(Frame) /\ preRoll \in Seq(Frame)
      /\ inbox \in Seq(Message) /\ now \in 0 .. MaxTime /\ frames \in 0 .. now
      /\ spoken \in 0 .. MaxTime /\ bargeInTimer \in Nat /\ updating \in BOOLEAN
      /\ upload \in [preRoll: Seq(Frame), first: 0 .. MaxTime]
  BY DEF IInv, TypeOK
<1>2. Len(inferenceQueue) \in Nat /\ Len(encoderQueue) \in Nat /\ Len(preRoll) \in Nat
  BY <1>1
<1>. QED  BY <1>1, <1>2, Bounds DEF Taken, Frame

(* How far the inference thread is behind: as many frames as wait. *)
LEMMA QueueLength ==
    ASSUME IInv, BufferHeld
    PROVE  /\ Len(inferenceQueue) <= MaxLag + 1 /\ Taken <= frames
           /\ frames - Taken = Len(inferenceQueue)
<1>0. /\ inferenceQueue \in Seq(Frame) /\ encoderQueue \in Seq(Frame) /\ preRoll \in Seq(Frame)
      /\ Len(inferenceQueue) \in Nat /\ Len(encoderQueue) \in Nat /\ Len(preRoll) \in Nat
      /\ frames \in Nat /\ Taken \in Int /\ updating \in BOOLEAN
      /\ PreRoll \in Nat \ {0} /\ MaxLag \in Nat \ {0} /\ Frame \subseteq Nat \ {0}
  BY QueueTypes
<1>. USE <1>0
<1>1. frames - Taken = Len(inferenceQueue) /\ Taken <= frames
  BY DEF Taken
<1>2. CASE inferenceQueue # <<>>
  <2>1. 1 \in DOMAIN inferenceQueue /\ inferenceQueue[1] = frames - Len(inferenceQueue) + 1
    BY <1>2 DEF BufferHeld, Run
  <2>2. frames - inferenceQueue[1] <= MaxLag
    BY <2>1 DEF IInv, LagHeld
  <2>. QED  BY <1>1, <2>1, <2>2
<1>3. CASE inferenceQueue = <<>>
  BY <1>1, <1>3
<1>. QED  BY <1>2, <1>3

(* What the detector copies ends with the frame taken last, and reaches    *)
(* back as far as the recording does.                                      *)
LEMMA ReadHeld ==
    ASSUME IInv, BufferHeld, NEW read \in {preRoll, Trimmed}, read # <<>>
    PROVE  /\ read \in Seq(Frame) /\ Run(read, Taken)
           /\ Last(read) = Taken /\ Taken \in Frame /\ Head(read) = Taken - Len(read) + 1
           /\ Len(read) \in Nat
           /\ Len(read) <= (IF updating THEN PreRoll + 1 ELSE PreRoll)
           /\ read = Trimmed => Len(read) <= PreRoll
           /\ Len(read) >= PreRoll \/ Head(read) = 1
<1>0. /\ inferenceQueue \in Seq(Frame) /\ encoderQueue \in Seq(Frame) /\ preRoll \in Seq(Frame)
      /\ Len(inferenceQueue) \in Nat /\ Len(encoderQueue) \in Nat /\ Len(preRoll) \in Nat
      /\ frames \in Nat /\ Taken \in Int /\ updating \in BOOLEAN
      /\ PreRoll \in Nat \ {0} /\ MaxLag \in Nat \ {0} /\ Frame \subseteq Nat \ {0}
  BY QueueTypes
<1>. USE <1>0
<1>1. CASE Len(preRoll) > PreRoll
  <2>1. Trimmed = Tail(preRoll) /\ preRoll # <<>>
    BY <1>1 DEF Trimmed
  <2>2. /\ Tail(preRoll) \in Seq(Frame) /\ Run(Tail(preRoll), Taken)
        /\ Len(Tail(preRoll)) = Len(preRoll) - 1
    BY <2>1, RunTail DEF BufferHeld
  <2>3. read \in Seq(Frame) /\ Run(read, Taken)
    BY <2>1, <2>2 DEF BufferHeld
  <2>4. Last(read) = Taken /\ Taken \in Frame /\ Head(read) = Taken - Len(read) + 1
    BY <2>3, RunTail
  <2>5. Len(read) \in Nat
    BY <2>3
  <2>6. Len(preRoll) <= (IF updating THEN PreRoll + 1 ELSE PreRoll)
    BY DEF BufferHeld
  <2>7. Len(read) >= PreRoll /\ Len(read) <= (IF updating THEN PreRoll + 1 ELSE PreRoll)
    BY <1>1, <2>1, <2>2, <2>6
  <2>8. Len(Trimmed) <= PreRoll
    BY <2>1, <2>2, <2>6
  <2>. QED  BY <2>3, <2>4, <2>5, <2>7, <2>8
<1>2. CASE ~(Len(preRoll) > PreRoll)
  <2>1. Trimmed = preRoll /\ read = preRoll
    BY <1>2 DEF Trimmed
  <2>2. Run(preRoll, Taken) /\ (Len(preRoll) < PreRoll => Taken = Len(preRoll))
    BY DEF BufferHeld
  <2>3. Last(preRoll) = Taken /\ Taken \in Frame /\ Head(preRoll) = Taken - Len(preRoll) + 1
    BY <2>1, <2>2, RunTail
  <2>4. Len(preRoll) <= PreRoll /\ (Len(preRoll) >= PreRoll \/ Head(preRoll) = 1)
    BY <1>2, <2>2, <2>3
  <2>5. Len(preRoll) <= (IF updating THEN PreRoll + 1 ELSE PreRoll)
    BY <2>4
  <2>. QED  BY <2>1, <2>2, <2>3, <2>4, <2>5
<1>. QED  BY <1>1, <1>2

LEMMA BufferTick ==
    ASSUME IInv, BufferHeld, Tick
    PROVE  BufferHeld'
<1>0. /\ inferenceQueue \in Seq(Frame) /\ encoderQueue \in Seq(Frame) /\ preRoll \in Seq(Frame)
      /\ Len(inferenceQueue) \in Nat /\ Len(encoderQueue) \in Nat /\ Len(preRoll) \in Nat
      /\ frames \in Nat /\ Taken \in Int /\ updating \in BOOLEAN
      /\ PreRoll \in Nat \ {0} /\ MaxLag \in Nat \ {0} /\ Frame \subseteq Nat \ {0}
  BY QueueTypes
<1>. USE <1>0
<1>1. /\ now < MaxTime /\ KeepsUp /\ UNCHANGED <<preRoll, updating>>
  BY DEF Tick, detector
<1>2. CASE Silence
  <2>1. UNCHANGED <<frames, inferenceQueue, encoderQueue>>
    BY <1>2 DEF Silence, capture
  <2>. QED  BY <1>1, <2>1, BufferKept
<1>3. CASE OnAudioDataReady
  <2>1. /\ frames' = frames + 1
        /\ encoderQueue' = Append(encoderQueue, frames + 1)
        /\ inferenceQueue' = Append(inferenceQueue, frames + 1)
    BY <1>3 DEF OnAudioDataReady
  <2>2. frames + 1 \in Frame
    <3>1. now \in 0 .. MaxTime /\ frames \in 0 .. now /\ MaxTime \in Nat
      BY Bounds DEF IInv, TypeOK
    <3>. QED  BY <1>1, <3>1 DEF Frame
  <2>3. /\ Run(inferenceQueue', frames') /\ Len(inferenceQueue') = Len(inferenceQueue) + 1
        /\ Run(encoderQueue', frames') /\ Len(encoderQueue') = Len(encoderQueue) + 1
    BY <2>1, <2>2, RunAppend DEF BufferHeld
  <2>4. Taken' = Taken
    BY <2>1, <2>3 DEF Taken
  <2>5. Len(encoderQueue') <= MaxLag + 1
    <3>1. CASE encoderQueue = <<>>
      BY <2>3, <3>1
    <3>2. CASE encoderQueue # <<>>
      <4>1. 1 \in DOMAIN encoderQueue /\ encoderQueue[1] = frames - Len(encoderQueue) + 1
        BY <3>2 DEF BufferHeld, Run
      <4>2. frames - encoderQueue[1] < MaxLag
        BY <1>1, <4>1 DEF KeepsUp, ToSet
      <4>. QED  BY <2>3, <4>1, <4>2
    <3>. QED  BY <3>1, <3>2
  <2>. QED  BY <1>1, <2>3, <2>4, <2>5 DEF BufferHeld, Run
<1>. QED  BY <1>2, <1>3 DEF Tick

LEMMA BufferSteps ==
    ASSUME IInv, BufferHeld, EncodePcmFrame \/ AppendPreRoll \/ ProcessPcmFrame
    PROVE  BufferHeld'
<1>0. /\ inferenceQueue \in Seq(Frame) /\ encoderQueue \in Seq(Frame) /\ preRoll \in Seq(Frame)
      /\ Len(inferenceQueue) \in Nat /\ Len(encoderQueue) \in Nat /\ Len(preRoll) \in Nat
      /\ frames \in Nat /\ Taken \in Int /\ updating \in BOOLEAN
      /\ PreRoll \in Nat \ {0} /\ MaxLag \in Nat \ {0} /\ Frame \subseteq Nat \ {0}
  BY QueueTypes
<1>. USE <1>0
<1>1. CASE EncodePcmFrame
  <2>1. /\ encoderQueue # <<>> /\ encoderQueue' = Tail(encoderQueue)
        /\ UNCHANGED <<frames, inferenceQueue, preRoll, updating>>
    BY <1>1 DEF EncodePcmFrame, capture, detector
  <2>2. Run(encoderQueue', frames) /\ Len(encoderQueue') = Len(encoderQueue) - 1
    BY <2>1, RunTail DEF BufferHeld
  <2>3. Taken' = Taken
    BY <2>1 DEF Taken
  <2>. QED  BY <2>1, <2>2, <2>3 DEF BufferHeld, Run
<1>2. CASE AppendPreRoll
  <2>1. /\ inferenceQueue # <<>> /\ inferenceQueue' = Tail(inferenceQueue)
        /\ preRoll' = Append(preRoll, Head(inferenceQueue))
        /\ ~updating /\ updating' = TRUE
        /\ UNCHANGED <<frames, encoderQueue>>
    BY <1>2 DEF AppendPreRoll, capture
  <2>2. /\ Run(inferenceQueue', frames) /\ Len(inferenceQueue') = Len(inferenceQueue) - 1
        /\ Head(inferenceQueue) = Taken + 1 /\ Head(inferenceQueue) \in Frame
    BY <2>1, RunTail DEF BufferHeld, Taken
  <2>3. Taken' = Taken + 1
    BY <2>1, <2>2 DEF Taken
  <2>4. Run(preRoll', Taken') /\ Len(preRoll') = Len(preRoll) + 1
    BY <2>1, <2>2, <2>3, RunAppend DEF BufferHeld
  <2>5. /\ Len(preRoll') <= PreRoll + 1
        /\ Len(preRoll') < PreRoll => Taken' = Len(preRoll')
    BY <2>1, <2>3, <2>4 DEF BufferHeld
  <2>. QED  BY <2>1, <2>2, <2>4, <2>5 DEF BufferHeld, Run
<1>3. CASE ProcessPcmFrame
  <2>1. /\ updating /\ updating' = FALSE /\ preRoll' = Trimmed
        /\ UNCHANGED <<frames, inferenceQueue, encoderQueue>>
    BY <1>3 DEF ProcessPcmFrame, capture
  <2>2. preRoll # <<>>
    BY <2>1 DEF IInv, LagHeld
  <2>3. Trimmed # <<>> /\ (Len(Trimmed) < PreRoll => Trimmed = preRoll)
    <3>1. CASE Len(preRoll) > PreRoll
      <4>1. Trimmed = Tail(preRoll) /\ Len(Tail(preRoll)) = Len(preRoll) - 1
        BY <2>2, <3>1, RunTail DEF Trimmed, BufferHeld
      <4>2. Len(Trimmed) >= PreRoll /\ Len(<<>>) = 0
        BY <3>1, <4>1
      <4>. QED  BY <4>2
    <3>2. CASE ~(Len(preRoll) > PreRoll)
      BY <2>2, <3>2 DEF Trimmed
    <3>. QED  BY <3>1, <3>2
  <2>4. Run(Trimmed, Taken) /\ Len(Trimmed) <= PreRoll
    BY <2>3, ReadHeld
  <2>5. Taken' = Taken
    BY <2>1 DEF Taken
  <2>. QED  BY <2>1, <2>3, <2>4, <2>5 DEF BufferHeld, Run
<1>. QED  BY <1>1, <1>2, <1>3

-----------------------------------------------------------------------------
(* InboxHeld.                                                              *)

LEMMA InboxKept ==
    ASSUME InboxHeld, UNCHANGED <<frames, encoderQueue, inbox>>
    PROVE  InboxHeld'
  BY DEF InboxHeld, MessageHeld, Opus, Run

LEMMA MessageTypes ==
    ASSUME IInv, NEW i \in DOMAIN inbox
    PROVE  /\ inbox[i] \in Message /\ inbox[i].frame \in Frame /\ inbox[i].frame \in Int
           /\ inbox[i].kind \in {"opus", "wake"}
           /\ inbox[i].kind = "wake" => inbox[i].preRoll \in Seq(Frame)
           /\ i \in Nat
<1>1. inbox[i] \in Message /\ i \in Nat
  BY QueueTypes
<1>. QED  BY <1>1, Bounds DEF Message, Frame

(* A message is held after a step as before, unless it is older. *)
LEMMA InboxTick ==
    ASSUME IInv, BufferHeld, InboxHeld, Tick
    PROVE  InboxHeld'
<1>1. KeepsUp /\ UNCHANGED <<inbox>>
  BY DEF Tick
<1>2. CASE Silence
  <2>1. UNCHANGED <<frames, encoderQueue>>
    BY <1>2 DEF Silence, capture
  <2>. QED  BY <1>1, <2>1, InboxKept
<1>3. CASE OnAudioDataReady
  <2>0. /\ encoderQueue \in Seq(Frame) /\ Len(encoderQueue) \in Nat
        /\ frames \in Nat /\ MaxLag \in Nat \ {0} /\ Frame \subseteq Nat \ {0}
    BY QueueTypes
  <2>1. /\ frames' = frames + 1
        /\ encoderQueue' = Append(encoderQueue, frames + 1)
    BY <1>3 DEF OnAudioDataReady
  <2>2. Len(encoderQueue') = Len(encoderQueue) + 1
    BY <2>0, <2>1
  <2>3. ASSUME NEW i \in DOMAIN inbox
        PROVE  MessageHeld(inbox[i])'
    <3>1. inbox[i] \in ToSet(inbox) /\ inbox[i].frame \in Int
      <4>1. inbox[i].frame \in Int
        BY MessageTypes
      <4>2. inbox[i] \in ToSet(inbox)
        BY DEF ToSet
      <4>. QED  BY <4>1, <4>2
    <3>2. frames - inbox[i].frame < MaxLag
      BY <1>1, <3>1 DEF KeepsUp
    <3>3. MessageHeld(inbox[i])
      BY DEF InboxHeld
    <3>4. frames' - inbox[i].frame \in 0 .. MaxLag
      <4>1. frames - inbox[i].frame \in 0 .. MaxLag
        BY <3>3 DEF MessageHeld
      <4>. QED  BY <2>0, <2>1, <3>1, <3>2, <4>1
    <3>5. frames' - Len(encoderQueue') = frames - Len(encoderQueue)
      BY <2>0, <2>1, <2>2
    <3>. QED  BY <1>1, <3>3, <3>4, <3>5 DEF MessageHeld, Run
  <2>. QED  BY <1>1, <2>3 DEF InboxHeld, Opus
<1>. QED  BY <1>2, <1>3 DEF Tick

LEMMA MessageKept ==
    ASSUME NEW m, MessageHeld(m), UNCHANGED <<frames, encoderQueue>>
    PROVE  MessageHeld(m)'
  BY DEF MessageHeld, Run

(* A message joins the others. *)
LEMMA InboxGrows ==
    ASSUME inbox \in Seq(Message), InboxHeld, NEW m, inbox' = Append(inbox, m), MessageHeld(m)',
           \A i \in DOMAIN inbox: Opus(i) /\ m.kind = "opus" => inbox[i].frame < m.frame,
           \A old \in Message: MessageHeld(old) /\ old \in ToSet(inbox) => MessageHeld(old)'
    PROVE  InboxHeld'
<1>1. /\ \A i \in DOMAIN inbox: i < Len(inbox) + 1 /\ i \in Nat /\ inbox'[i] = inbox[i]
      /\ Len(inbox) + 1 \in Nat /\ inbox'[Len(inbox) + 1] = m
      /\ \A i \in DOMAIN inbox': i \in DOMAIN inbox \/ i = Len(inbox) + 1
  BY InboxAppend
<1>2. ASSUME NEW i \in DOMAIN inbox'
      PROVE  MessageHeld(inbox[i])'
  <2>1. CASE i \in DOMAIN inbox
    <3>1. inbox[i] \in Message /\ inbox[i] \in ToSet(inbox)
      BY <2>1 DEF ToSet
    <3>2. PICK old \in Message: old = inbox[i]
      BY <3>1
    <3>3. MessageHeld(old)'
      BY <2>1, <3>1, <3>2 DEF InboxHeld
    <3>4. inbox'[i] = old
      BY <1>1, <2>1, <3>2
    <3>. QED  BY <3>3, <3>4
  <2>2. CASE i = Len(inbox) + 1
    <3>1. inbox'[i] = m
      BY <1>1, <2>2
    <3>. QED  BY <3>1
  <2>. QED  BY <1>1, <2>1, <2>2
<1>3. ASSUME NEW i \in DOMAIN inbox', NEW j \in DOMAIN inbox', Opus(i)', Opus(j)', i < j
      PROVE  inbox'[i].frame < inbox'[j].frame
  <2>1. CASE j \in DOMAIN inbox
    <3>1. i \in DOMAIN inbox
      <4>1. i \in DOMAIN inbox \/ i = Len(inbox) + 1
        BY <1>1
      <4>2. j < Len(inbox) + 1 /\ j \in Nat /\ Len(inbox) + 1 \in Nat
        BY <1>1, <2>1
      <4>. QED  BY <1>3, <4>1, <4>2
    <3>2. Opus(i) /\ Opus(j)
      BY <1>1, <1>3, <2>1, <3>1 DEF Opus
    <3>. QED  BY <1>1, <1>3, <2>1, <3>1, <3>2 DEF InboxHeld
  <2>2. CASE j = Len(inbox) + 1
    <3>1. i \in DOMAIN inbox
      BY <1>1, <1>3, <2>2
    <3>2. Opus(i) /\ m.kind = "opus" /\ inbox'[j] = m /\ inbox'[i] = inbox[i]
      BY <1>1, <1>3, <2>2, <3>1 DEF Opus
    <3>. QED  BY <3>1, <3>2
  <2>. QED  BY <1>1, <2>1, <2>2
<1>. QED  BY <1>2, <1>3 DEF InboxHeld

(* What EncodePcmFrame sends comes after all that wait. *)
LEMMA InboxEncode ==
    ASSUME IInv, BufferHeld, InboxHeld, EncodePcmFrame
    PROVE  InboxHeld'
<1>0. /\ encoderQueue \in Seq(Frame) /\ Len(encoderQueue) \in Nat /\ inbox \in Seq(Message)
      /\ frames \in Nat /\ MaxLag \in Nat \ {0} /\ Frame \subseteq Nat \ {0}
  BY QueueTypes
<1>1. PICK m: /\ m = [kind |-> "opus", frame |-> Head(encoderQueue)]
              /\ encoderQueue # <<>> /\ encoderQueue' = Tail(encoderQueue)
              /\ inbox' = Append(inbox, m) /\ frames' = frames
  BY DEF EncodePcmFrame, capture
<1>2. /\ Len(encoderQueue') = Len(encoderQueue) - 1
      /\ Head(encoderQueue) = frames - Len(encoderQueue) + 1
      /\ Len(encoderQueue) <= MaxLag + 1 /\ Len(encoderQueue) >= 1
  BY <1>0, <1>1, RunTail DEF BufferHeld
<1>3. MessageHeld(m)'
  <2>1. frames' - m.frame \in 0 .. MaxLag /\ m.frame <= frames' - Len(encoderQueue')
    BY <1>0, <1>1, <1>2
  <2>2. m.kind # "wake"
    BY <1>1
  <2>. QED  BY <2>1, <2>2 DEF MessageHeld
<1>4. ASSUME NEW old \in Message, MessageHeld(old)
      PROVE  MessageHeld(old)'
  <2>1. old.frame \in Int
    BY Bounds DEF Message, Frame
  <2>2. old.kind = "opus" => old.frame <= frames' - Len(encoderQueue')
    BY <1>0, <1>1, <1>2, <1>4, <2>1 DEF MessageHeld
  <2>. QED  BY <1>1, <1>4, <2>2 DEF MessageHeld, Run
<1>5. ASSUME NEW i \in DOMAIN inbox, Opus(i)
      PROVE  inbox[i].frame < m.frame
  <2>1. MessageHeld(inbox[i]) /\ inbox[i].frame \in Int /\ inbox[i].kind = "opus"
    BY <1>5, MessageTypes DEF InboxHeld, Opus
  <2>2. inbox[i].frame <= frames - Len(encoderQueue)
    BY <2>1 DEF MessageHeld
  <2>3. inbox[i].frame \in Int /\ m.frame = frames - Len(encoderQueue) + 1
    BY <1>0, <1>1, <1>2, <2>1
  <2>. QED  BY <1>0, <2>2, <2>3
<1>. QED  BY <1>0, <1>1, <1>3, <1>4, <1>5, InboxGrows

(* A wake word carries the pre-roll up to its frame. *)
LEMMA InboxProcess ==
    ASSUME IInv, BufferHeld, InboxHeld, ProcessPcmFrame
    PROVE  InboxHeld'
<1>0. inbox \in Seq(Message) /\ preRoll \in Seq(Frame) /\ PreRoll \in Nat \ {0} /\ Len(preRoll) \in Nat
  BY QueueTypes
<1>1. updating /\ UNCHANGED <<frames, encoderQueue>>
  BY DEF ProcessPcmFrame, capture
<1>2. preRoll # <<>> /\ frames - Last(preRoll) \in 0 .. MaxLag
  BY <1>1 DEF IInv, LagHeld
<1>3. Trimmed # <<>>
  <2>1. CASE Len(preRoll) > PreRoll
    <3>1. Trimmed = Tail(preRoll) /\ Len(Tail(preRoll)) = Len(preRoll) - 1
      BY <1>0, <1>2, <2>1 DEF Trimmed
    <3>2. Len(Trimmed) # 0 /\ Len(<<>>) = 0
      BY <1>0, <2>1, <3>1
    <3>. QED  BY <3>2
  <2>2. CASE ~(Len(preRoll) > PreRoll)
    BY <1>2, <2>2 DEF Trimmed
  <2>. QED  BY <2>1, <2>2
<1>4. Last(preRoll) = Taken
  BY <1>2, ReadHeld
<1>5. Run(Trimmed, Taken) /\ Len(Trimmed) <= PreRoll
  BY <1>3, ReadHeld
<1>6. CASE UNCHANGED <<inbox, suppressedFrom, lastWake>>
  BY <1>1, <1>6, InboxKept
<1>7. CASE inbox' = Append(inbox, [kind |-> "wake", frame |-> Last(preRoll), preRoll |-> Trimmed])
  <2>1. PICK m: /\ m = [kind |-> "wake", frame |-> Last(preRoll), preRoll |-> Trimmed]
                /\ inbox' = Append(inbox, m)
    BY <1>7
  <2>2. /\ m.kind = "wake" /\ frames - m.frame \in 0 .. MaxLag
        /\ m.preRoll # <<>> /\ Len(m.preRoll) <= PreRoll /\ Run(m.preRoll, m.frame)
    BY <1>2, <1>3, <1>4, <1>5, <2>1
  <2>3. MessageHeld(m)'
    BY <1>1, <2>2 DEF MessageHeld, Run
  <2>. QED  BY <1>0, <1>1, <2>1, <2>2, <2>3, InboxGrows, MessageKept
<1>. QED  BY <1>6, <1>7 DEF ProcessPcmFrame

LEMMA InboxReceive ==
    ASSUME IInv, InboxHeld, NEW kind, Receive(kind)
    PROVE  InboxHeld'
<1>0. inbox \in Seq(Message)
  BY QueueTypes
<1>1. /\ inbox # <<>> /\ inbox' = Tail(inbox)
      /\ UNCHANGED <<frames, encoderQueue>>
  BY DEF Receive, capture
<1>2. ASSUME NEW i \in DOMAIN inbox'
      PROVE  MessageHeld(inbox[i])' /\ i \in Nat /\ i + 1 \in DOMAIN inbox /\ inbox'[i] = inbox[i + 1]
  <2>1. i \in Nat /\ i + 1 \in DOMAIN inbox /\ inbox'[i] = inbox[i + 1]
    BY <1>0, <1>1, InboxTail
  <2>2. PICK m: m = inbox[i + 1] /\ m = inbox'[i] /\ MessageHeld(m)
    BY <2>1 DEF InboxHeld
  <2>3. MessageHeld(m)'
    BY <1>1, <2>2, MessageKept
  <2>. QED  BY <2>1, <2>2, <2>3
<1>3. ASSUME NEW i \in DOMAIN inbox', NEW j \in DOMAIN inbox', Opus(i)', Opus(j)', i < j
      PROVE  inbox'[i].frame < inbox'[j].frame
  <2>1. i + 1 \in DOMAIN inbox /\ j + 1 \in DOMAIN inbox /\ i + 1 < j + 1
        /\ inbox'[i] = inbox[i + 1] /\ inbox'[j] = inbox[j + 1]
    BY <1>2, <1>3
  <2>2. Opus(i + 1) /\ Opus(j + 1)
    BY <1>3, <2>1 DEF Opus
  <2>. QED  BY <2>1, <2>2 DEF InboxHeld
<1>. QED  BY <1>2, <1>3 DEF InboxHeld

-----------------------------------------------------------------------------
(* SpokenHeld.                                                             *)

LEMMA SpokenSteps ==
    ASSUME IInv, BufferHeld, SpokenHeld, Next
    PROVE  SpokenHeld'
<1>0. /\ now \in Nat /\ frames \in Nat /\ spoken \in Nat /\ bargeInTimer \in Nat
      /\ MaxLag \in Nat \ {0} /\ Confirmation \in Nat \ {0}
  BY QueueTypes
<1>1. CASE Tick
  <2>1. /\ now' = now + 1 /\ KeepsUp /\ UNCHANGED <<mode, spoken, bargeInTimer>>
    BY <1>1 DEF Tick, pipeline
  <2>2. frames' \in {frames, frames + 1}
    BY <1>1 DEF Tick, Silence, OnAudioDataReady, capture
  <2>3. bargeInTimer # 0 => now < bargeInTimer + MaxLag
    BY <2>1 DEF KeepsUp
  <2>4. ASSUME mode = "PlayingBack", spoken # 0
        PROVE  /\ bargeInTimer # 0 /\ now + 1 <= bargeInTimer + MaxLag
               /\ frames' - spoken <= MaxLag + 1 + Confirmation + (now + 1) - bargeInTimer
    <3>1. /\ bargeInTimer # 0 /\ now < bargeInTimer + MaxLag
          /\ frames - spoken <= MaxLag + 1 + Confirmation + now - bargeInTimer
      BY <2>3, <2>4 DEF SpokenHeld
    <3>2. frames' \in Nat
      BY <1>0, <2>2
    <3>3. now + 1 <= bargeInTimer + MaxLag
      BY <1>0, <3>1
    <3>4. frames' - spoken <= frames - spoken + 1
      <4>1. CASE frames' = frames
        BY <1>0, <4>1
      <4>2. CASE frames' = frames + 1
        BY <1>0, <4>2
      <4>. QED  BY <2>2, <4>1, <4>2
    <3>5. frames - spoken + 1 <= MaxLag + 1 + Confirmation + (now + 1) - bargeInTimer
      BY <1>0, <3>1
    <3>6. frames' - spoken <= MaxLag + 1 + Confirmation + (now + 1) - bargeInTimer
      <4>. DEFINE bound == MaxLag + 1 + Confirmation + (now + 1) - bargeInTimer
      <4>1. frames' - spoken \in Int /\ frames - spoken \in Int /\ bound \in Int
        BY <1>0, <3>2
      <4>2. frames - spoken + 1 <= bound
        BY <3>5
      <4>. HIDE DEF bound
      <4>3. frames' - spoken <= bound
        BY <3>4, <4>1, <4>2
      <4>. QED  BY <4>3 DEF bound
    <3>. QED  BY <3>1, <3>3, <3>6
  <2>. QED  BY <2>1, <2>4 DEF SpokenHeld
<1>2. CASE DeviceError \/ Configure \/ Restart
  <2>1. UNCHANGED <<now, frames, bargeInTimer, spoken>> /\ mode' \in {mode, "Idle"}
    BY <1>2 DEF DeviceError, Configure, Restart, Start, CaptureError, Leave, pipeline
  <2>. QED  BY <2>1 DEF SpokenHeld
<1>3. CASE EncodePcmFrame \/ AppendPreRoll \/ ProcessPcmFrame \/ OnOpusFrameEncoded
  <2>1. UNCHANGED <<now, frames, bargeInTimer, spoken, mode>>
    BY <1>3 DEF EncodePcmFrame, AppendPreRoll, ProcessPcmFrame, OnOpusFrameEncoded, Receive,
        capture, pipeline
  <2>. QED  BY <2>1 DEF SpokenHeld
<1>4. CASE OnWakeWordDetected
  <2>1. UNCHANGED <<now, frames, bargeInTimer, spoken>> /\ mode' \in {mode, "Streaming"}
    BY <1>4 DEF OnWakeWordDetected, Receive, capture
  <2>. QED  BY <2>1 DEF SpokenHeld
<1>5. CASE OnVadSpeechStarted
  <2>1. /\ mode = "PlayingBack" /\ preRoll # <<>> /\ ~updating
        /\ bargeInTimer' = now + Confirmation /\ spoken' = Last(preRoll)
        /\ UNCHANGED <<now, frames, mode>>
    BY <1>5 DEF OnVadSpeechStarted, capture
  <2>2. Last(preRoll) = Taken /\ Taken \in Int
    BY <2>1, ReadHeld, QueueTypes
  <2>3. frames - Taken <= MaxLag + 1
    BY QueueLength
  <2>. QED  BY <1>0, <2>1, <2>2, <2>3 DEF SpokenHeld
<1>6. CASE OnSpeechEnded
  <2>1. mode = "PlayingBack" /\ spoken' = 0 /\ UNCHANGED mode
    BY <1>6 DEF OnSpeechEnded
  <2>. QED  BY <2>1 DEF SpokenHeld
<1>7. CASE OnBargeInTimerExpired
  <2>1. /\ UNCHANGED spoken
        /\ mode' = (IF mode = "PlayingBack" THEN "Streaming" ELSE mode)
    BY <1>7 DEF OnBargeInTimerExpired
  <2>. QED  BY <2>1 DEF SpokenHeld
<1>8. CASE OtherTransition
  <2>1. spoken' = 0
    BY <1>8 DEF OtherTransition, BecomeIdle
  <2>. QED  BY <2>1 DEF SpokenHeld
<1>. QED  BY <1>1, <1>2, <1>3, <1>4, <1>5, <1>6, <1>7, <1>8 DEF Next

-----------------------------------------------------------------------------
(* SeamHeld.                                                               *)

(* No frame that is pending is older than the largest lag. *)
LEMMA PendingYoung ==
    ASSUME IInv, BufferHeld, InboxHeld, NEW f, Pending(f)
    PROVE  f \in Frame /\ f \in Int /\ frames - MaxLag <= f /\ f <= frames
<1>0. /\ encoderQueue \in Seq(Frame) /\ Len(encoderQueue) \in Nat
      /\ frames \in Nat /\ MaxLag \in Nat \ {0}
  BY QueueTypes
<1>1. CASE \E i \in DOMAIN inbox: Opus(i) /\ inbox[i].frame = f
  <2>1. PICK i \in DOMAIN inbox: inbox[i].frame = f
    BY <1>1
  <2>2. MessageHeld(inbox[i]) /\ f \in Frame /\ f \in Int
    BY <2>1, MessageTypes DEF InboxHeld
  <2>3. frames - f \in 0 .. MaxLag
    BY <2>1, <2>2 DEF MessageHeld
  <2>. QED  BY <1>0, <2>2, <2>3
<1>2. CASE \E k \in DOMAIN encoderQueue: encoderQueue[k] = f
  <2>1. PICK k \in DOMAIN encoderQueue: encoderQueue[k] = f
    BY <1>2
  <2>2. k \in 1 .. Len(encoderQueue) /\ f \in Frame
    BY <1>0, <2>1
  <2>3. f = frames - Len(encoderQueue) + k /\ Len(encoderQueue) <= MaxLag + 1
    BY <2>1 DEF BufferHeld, Run
  <2>. QED  BY <1>0, <2>2, <2>3
<1>. QED  BY <1>1, <1>2 DEF Pending

(* The encoded frame that arrives is the oldest of those pending. *)
LEMMA ArrivesFirst ==
    ASSUME IInv, BufferHeld, InboxHeld, Receive("opus"), NEW f, Pending(f)
    PROVE  Pending(Head(inbox).frame) /\ Head(inbox).frame <= f
<1>0. /\ encoderQueue \in Seq(Frame) /\ Len(encoderQueue) \in Nat /\ inbox \in Seq(Message)
      /\ frames \in Nat /\ MaxLag \in Nat \ {0}
  BY QueueTypes
<1>1. /\ inbox # <<>> /\ 1 \in DOMAIN inbox /\ Head(inbox) = inbox[1] /\ Opus(1)
  BY <1>0 DEF Receive, Opus
<1>2. inbox[1].frame \in Int /\ inbox[1].frame <= frames - Len(encoderQueue) /\ Pending(inbox[1].frame)
  BY <1>1, MessageTypes DEF InboxHeld, MessageHeld, Opus, Pending
<1>3. CASE \E i \in DOMAIN inbox: Opus(i) /\ inbox[i].frame = f
  <2>1. PICK i \in DOMAIN inbox: Opus(i) /\ inbox[i].frame = f
    BY <1>3
  <2>2. i = 1 \/ 1 < i
    BY <1>0, <2>1
  <2>3. CASE i = 1
    BY <1>1, <1>2, <2>1, <2>3
  <2>4. CASE 1 < i
    <3>1. inbox[1].frame < inbox[i].frame
      BY <1>1, <2>1, <2>4 DEF InboxHeld
    <3>2. inbox[i].frame \in Int
      BY <2>1, MessageTypes
    <3>. QED  BY <1>1, <1>2, <2>1, <3>1, <3>2
  <2>. QED  BY <2>2, <2>3, <2>4
<1>4. CASE \E k \in DOMAIN encoderQueue: encoderQueue[k] = f
  <2>1. PICK k \in DOMAIN encoderQueue: encoderQueue[k] = f
    BY <1>4
  <2>2. k \in 1 .. Len(encoderQueue)
    BY <1>0, <2>1
  <2>3. f = frames - Len(encoderQueue) + k
    BY <2>1 DEF BufferHeld, Run
  <2>. QED  BY <1>0, <1>1, <1>2, <2>2, <2>3
<1>. QED  BY <1>3, <1>4 DEF Pending

(* How the steps change what is pending. *)
LEMMA PendingKept ==
    ASSUME UNCHANGED <<inbox, encoderQueue>>, NEW f
    PROVE  Pending(f)' <=> Pending(f)
  BY DEF Pending, Opus

LEMMA PendingGrows ==
    ASSUME IInv, NEW m, inbox' = Append(inbox, m), UNCHANGED encoderQueue, NEW f, Pending(f)
    PROVE  Pending(f)'
<1>1. inbox \in Seq(Message)
  BY QueueTypes
<1>. QED  BY <1>1, InboxAppend DEF Pending, Opus

LEMMA PendingWake ==
    ASSUME IInv, NEW m, inbox' = Append(inbox, m), m.kind = "wake", UNCHANGED encoderQueue,
           NEW f, Pending(f)'
    PROVE  Pending(f)
<1>1. inbox \in Seq(Message)
  BY QueueTypes
<1>. QED  BY <1>1, InboxAppend DEF Pending, Opus

LEMMA PendingTick ==
    ASSUME IInv, UNCHANGED inbox, encoderQueue' = Append(encoderQueue, frames'), NEW f
    PROVE  Pending(f)' <=> Pending(f) \/ f = frames'
<1>1. encoderQueue \in Seq(Frame) /\ Len(encoderQueue) \in Nat
  BY QueueTypes
<1>2. /\ \A k \in DOMAIN encoderQueue: k \in DOMAIN encoderQueue' /\ encoderQueue'[k] = encoderQueue[k]
      /\ Len(encoderQueue) + 1 \in DOMAIN encoderQueue'
      /\ encoderQueue'[Len(encoderQueue) + 1] = frames'
      /\ \A k \in DOMAIN encoderQueue': k \in DOMAIN encoderQueue \/ k = Len(encoderQueue) + 1
  BY <1>1
<1>. QED  BY <1>2 DEF Pending, Opus

LEMMA TailShifts ==
    ASSUME NEW S, NEW s \in Seq(S), s # <<>>
    PROVE  /\ 1 \in DOMAIN s /\ Head(s) = s[1]
           /\ \A k \in DOMAIN Tail(s): k + 1 \in DOMAIN s /\ Tail(s)[k] = s[k + 1]
           /\ \A k \in DOMAIN s: k = 1 \/ (k - 1 \in DOMAIN Tail(s) /\ Tail(s)[k - 1] = s[k])
<1>1. Len(s) \in Nat /\ Len(s) >= 1 /\ DOMAIN s = 1 .. Len(s) /\ Head(s) = s[1]
  OBVIOUS
<1>2. DOMAIN Tail(s) = 1 .. Len(s) - 1 /\ \A k \in 1 .. Len(s) - 1: Tail(s)[k] = s[k + 1]
  OBVIOUS
<1>3. ASSUME NEW k \in DOMAIN s, k # 1
      PROVE  k - 1 \in DOMAIN Tail(s) /\ Tail(s)[k - 1] = s[k]
  <2>1. k \in 1 .. Len(s) /\ k - 1 \in 1 .. Len(s) - 1 /\ (k - 1) + 1 = k
    BY <1>1, <1>3
  <2>. QED  BY <1>2, <2>1
<1>. QED  BY <1>1, <1>2, <1>3

LEMMA PendingEncode ==
    ASSUME IInv, EncodePcmFrame, NEW f
    PROVE  Pending(f)' <=> Pending(f)
<1>0. encoderQueue \in Seq(Frame) /\ inbox \in Seq(Message) /\ Len(encoderQueue) \in Nat
  BY QueueTypes
<1>1. PICK m: /\ m = [kind |-> "opus", frame |-> Head(encoderQueue)]
              /\ encoderQueue # <<>> /\ encoderQueue' = Tail(encoderQueue)
              /\ inbox' = Append(inbox, m)
  BY DEF EncodePcmFrame
<1>2. /\ 1 \in DOMAIN encoderQueue /\ Head(encoderQueue) = encoderQueue[1]
      /\ \A k \in DOMAIN encoderQueue': k + 1 \in DOMAIN encoderQueue
                                        /\ encoderQueue'[k] = encoderQueue[k + 1]
      /\ \A k \in DOMAIN encoderQueue: \/ k = 1
                                        \/ /\ k - 1 \in DOMAIN encoderQueue'
                                           /\ encoderQueue'[k - 1] = encoderQueue[k]
  BY <1>0, <1>1, TailShifts
<1>3. /\ \A i \in DOMAIN inbox: i \in DOMAIN inbox' /\ inbox'[i] = inbox[i]
      /\ Len(inbox) + 1 \in DOMAIN inbox' /\ inbox'[Len(inbox) + 1] = m
      /\ \A i \in DOMAIN inbox': i \in DOMAIN inbox \/ i = Len(inbox) + 1
  BY <1>0, <1>1, InboxAppend
<1>4. m.kind = "opus" /\ m.frame = encoderQueue[1]
  BY <1>1, <1>2
<1>5. ASSUME Pending(f)
      PROVE  Pending(f)'
  <2>1. CASE \E i \in DOMAIN inbox: Opus(i) /\ inbox[i].frame = f
    BY <1>3, <2>1 DEF Pending, Opus
  <2>2. CASE \E k \in DOMAIN encoderQueue: encoderQueue[k] = f
    <3>1. PICK k \in DOMAIN encoderQueue: encoderQueue[k] = f
      BY <2>2
    <3>2. CASE k = 1
      BY <1>3, <1>4, <3>1, <3>2 DEF Pending, Opus
    <3>3. CASE k # 1
      BY <1>2, <3>1, <3>3 DEF Pending
    <3>. QED  BY <3>2, <3>3
  <2>. QED  BY <1>5, <2>1, <2>2 DEF Pending
<1>6. ASSUME Pending(f)'
      PROVE  Pending(f)
  <2>1. CASE \E i \in DOMAIN inbox': Opus(i)' /\ inbox'[i].frame = f
    <3>1. PICK i \in DOMAIN inbox': inbox'[i].kind = "opus" /\ inbox'[i].frame = f
      BY <2>1 DEF Opus
    <3>2. CASE i \in DOMAIN inbox
      BY <1>3, <3>1, <3>2 DEF Pending, Opus
    <3>3. CASE i = Len(inbox) + 1
      BY <1>2, <1>3, <1>4, <3>1, <3>3 DEF Pending
    <3>. QED  BY <1>3, <3>2, <3>3
  <2>2. CASE \E k \in DOMAIN encoderQueue': encoderQueue'[k] = f
    BY <1>2, <2>2 DEF Pending
  <2>. QED  BY <1>6, <2>1, <2>2 DEF Pending
<1>. QED  BY <1>5, <1>6

LEMMA PendingReceive ==
    ASSUME IInv, NEW kind, Receive(kind), NEW f
    PROVE  /\ Pending(f)' => Pending(f)
           /\ kind = "wake" /\ Pending(f) => Pending(f)'
<1>0. inbox \in Seq(Message)
  BY QueueTypes
<1>1. /\ inbox # <<>> /\ inbox' = Tail(inbox) /\ Head(inbox).kind = kind
      /\ UNCHANGED encoderQueue
  BY DEF Receive
<1>2. /\ 1 \in DOMAIN inbox /\ Head(inbox) = inbox[1]
      /\ \A i \in DOMAIN inbox': i + 1 \in DOMAIN inbox /\ inbox'[i] = inbox[i + 1]
      /\ \A i \in DOMAIN inbox: i = 1 \/ (i - 1 \in DOMAIN inbox' /\ inbox'[i - 1] = inbox[i])
  BY <1>0, <1>1, TailShifts
<1>3. ASSUME Pending(f)'
      PROVE  Pending(f)
  <2>1. CASE \E i \in DOMAIN inbox': Opus(i)' /\ inbox'[i].frame = f
    <3>1. PICK i \in DOMAIN inbox': inbox'[i].kind = "opus" /\ inbox'[i].frame = f
      BY <2>1 DEF Opus
    <3>. QED  BY <1>2, <3>1 DEF Pending, Opus
  <2>2. CASE \E k \in DOMAIN encoderQueue': encoderQueue'[k] = f
    BY <1>1, <2>2 DEF Pending
  <2>. QED  BY <1>3, <2>1, <2>2 DEF Pending
<1>4. ASSUME kind = "wake", Pending(f)
      PROVE  Pending(f)'
  <2>1. CASE \E i \in DOMAIN inbox: Opus(i) /\ inbox[i].frame = f
    <3>1. PICK i \in DOMAIN inbox: inbox[i].kind = "opus" /\ inbox[i].frame = f
      BY <2>1 DEF Opus
    <3>2. i # 1
      BY <1>1, <1>2, <1>4, <3>1
    <3>. QED  BY <1>2, <3>1, <3>2 DEF Pending, Opus
  <2>2. CASE \E k \in DOMAIN encoderQueue: encoderQueue[k] = f
    BY <1>1, <2>2 DEF Pending
  <2>. QED  BY <1>4, <2>1, <2>2 DEF Pending
<1>. QED  BY <1>3, <1>4

(* An upload that has just begun. *)
LEMMA SeamBegins ==
    ASSUME IInv, BufferHeld, InboxHeld, UNCHANGED frames,
           \A f \in Frame: Pending(f)' => Pending(f),
           upload'.preRoll # <<>> => Last(upload'.preRoll) \in Frame
                                     /\ frames - Last(upload'.preRoll) \in 0 .. MaxLag + 1
    PROVE  SeamHeld'
<1>1. CASE upload'.preRoll # <<>>
  <2>1. PICK last: last = Last(upload'.preRoll)
    OBVIOUS
  <2>2. frames \in Nat /\ MaxLag \in Nat \ {0} /\ last \in Int /\ frames - last \in 0 .. MaxLag + 1
    BY <1>1, <2>1, QueueTypes, Bounds DEF Frame
  <2>3. ASSUME NEW f \in Frame, Pending(f)'
        PROVE  f >= last - MaxLag
    <3>1. frames - MaxLag <= f /\ f \in Int
      BY <2>3, PendingYoung
    <3>. QED  BY <2>2, <3>1
  <2>4. last <= frames /\ frames <= last + MaxLag + 1
    BY <2>2
  <2>. QED  BY <2>1, <2>3, <2>4 DEF SeamHeld
<1>2. CASE ~(upload'.preRoll # <<>>)
  BY <1>2 DEF SeamHeld
<1>. QED  BY <1>1, <1>2

(* The same upload, with the same frames pending. *)
LEMMA SeamKept ==
    ASSUME SeamHeld, UNCHANGED <<mode, upload, frames>>, \A f \in Frame: Pending(f)' <=> Pending(f)
    PROVE  SeamHeld'
  BY DEF SeamHeld

LEMMA SeamTick ==
    ASSUME IInv, BufferHeld, InboxHeld, SeamHeld, Tick
    PROVE  SeamHeld'
<1>1. UNCHANGED <<inbox, mode, upload>>
  BY DEF Tick, pipeline
<1>2. CASE Silence
  <2>1. UNCHANGED <<frames, encoderQueue>>
    BY <1>2 DEF Silence, capture
  <2>. QED  BY <1>1, <2>1, PendingKept, SeamKept
<1>3. CASE OnAudioDataReady
  <2>1. frames' = frames + 1 /\ encoderQueue' = Append(encoderQueue, frames')
    BY <1>3 DEF OnAudioDataReady
  <2>2. CASE ~(mode = "Streaming" /\ upload.preRoll # <<>> /\ upload.first = 0)
    BY <1>1, <2>2 DEF SeamHeld
  <2>3. CASE mode = "Streaming" /\ upload.preRoll # <<>> /\ upload.first = 0
    <3>1. PICK last: last = Last(upload.preRoll)
      OBVIOUS
    <3>2. frames \in Nat /\ MaxLag \in Nat \ {0} /\ last \in Int
      BY <2>3, <3>1, QueueTypes, LastIsFrame
    <3>3. last <= frames
      BY <2>3, <3>1 DEF SeamHeld
    <3>4. frames' \in Frame
      <4>1. now \in 0 .. MaxTime /\ frames \in 0 .. now /\ MaxTime \in Nat /\ now < MaxTime
        BY Bounds DEF IInv, TypeOK, Tick
      <4>. QED  BY <2>1, <4>1 DEF Frame
    <3>5. last <= frames' /\ frames' >= last - MaxLag
      BY <2>1, <3>2, <3>3
    <3>6. ASSUME NEW f \in Frame, Pending(f)'
          PROVE  f >= last - MaxLag
      <4>1. Pending(f) \/ f = frames'
        BY <1>1, <2>1, <3>6, PendingTick
      <4>. QED  BY <2>3, <3>1, <3>5, <4>1 DEF SeamHeld
    <3>7. \/ frames' <= last + MaxLag + 1
          \/ \E f \in Frame: Pending(f)' /\ f <= last + MaxLag + 2
      <4>1. CASE frames <= last + MaxLag + 1
        <5>1. PICK f \in Frame: f = frames'
          BY <3>4
        <5>2. Pending(f)'
          BY <1>1, <2>1, <5>1, PendingTick
        <5>3. f <= last + MaxLag + 2
          BY <2>1, <3>2, <4>1, <5>1
        <5>. QED  BY <5>2, <5>3
      <4>2. CASE \E f \in Frame: Pending(f) /\ f <= last + MaxLag + 2
        BY <1>1, <2>1, <4>2, PendingTick
      <4>. QED  BY <2>3, <3>1, <4>1, <4>2 DEF SeamHeld
    <3>. QED  BY <1>1, <3>1, <3>5, <3>6, <3>7 DEF SeamHeld
  <2>. QED  BY <2>2, <2>3
<1>. QED  BY <1>2, <1>3 DEF Tick

(* What an upload that begins is given, by a wake word or by a barge-in. *)
LEMMA WakeReads ==
    ASSUME IInv, InboxHeld, Receive("wake")
    PROVE  /\ Head(inbox).preRoll \in Seq(Frame) /\ Head(inbox).preRoll # <<>>
           /\ Len(Head(inbox).preRoll) <= PreRoll
           /\ Run(Head(inbox).preRoll, Head(inbox).frame)
           /\ Last(Head(inbox).preRoll) = Head(inbox).frame
           /\ Head(inbox).frame \in Frame /\ Head(inbox).frame \in Int
           /\ frames - Head(inbox).frame \in 0 .. MaxLag
           /\ Head(Head(inbox).preRoll) = Head(inbox).frame - Len(Head(inbox).preRoll) + 1
<1>0. inbox \in Seq(Message)
  BY QueueTypes
<1>1. /\ inbox # <<>> /\ 1 \in DOMAIN inbox /\ Head(inbox) = inbox[1] /\ inbox[1].kind = "wake"
  BY <1>0 DEF Receive
<1>2. /\ inbox[1].preRoll \in Seq(Frame) /\ inbox[1].frame \in Frame /\ inbox[1].frame \in Int
      /\ inbox[1].preRoll # <<>> /\ Len(inbox[1].preRoll) <= PreRoll
      /\ Run(inbox[1].preRoll, inbox[1].frame) /\ frames - inbox[1].frame \in 0 .. MaxLag
  BY <1>1, MessageTypes DEF InboxHeld, MessageHeld
<1>3. /\ Last(inbox[1].preRoll) = inbox[1].frame
      /\ Head(inbox[1].preRoll) = inbox[1].frame - Len(inbox[1].preRoll) + 1
  BY <1>2, RunTail
<1>. QED  BY <1>1, <1>2, <1>3

LEMMA SeamSteps ==
    ASSUME IInv, BufferHeld, InboxHeld, SeamHeld, Next, ~Tick
    PROVE  SeamHeld'
<1>1. CASE DeviceError \/ Configure \/ Restart
  <2>1. /\ UNCHANGED <<frames, inbox, encoderQueue>>
        /\ mode' = "Idle" \/ UNCHANGED <<mode, upload>>
    BY <1>1 DEF DeviceError, Configure, Restart, Start, CaptureError, Leave, pipeline, queues
  <2>2. CASE mode' = "Idle"
    BY <2>2 DEF SeamHeld
  <2>3. CASE UNCHANGED <<mode, upload>>
    BY <2>1, <2>3, PendingKept, SeamKept
  <2>. QED  BY <2>1, <2>2, <2>3
<1>2. CASE EncodePcmFrame
  <2>1. UNCHANGED <<mode, upload, frames>>
    BY <1>2 DEF EncodePcmFrame, capture, pipeline
  <2>. QED  BY <1>2, <2>1, PendingEncode, SeamKept
<1>3. CASE AppendPreRoll
  <2>1. UNCHANGED <<mode, upload, frames, inbox, encoderQueue>>
    BY <1>3 DEF AppendPreRoll, capture, pipeline
  <2>. QED  BY <2>1, PendingKept, SeamKept
<1>4. CASE ProcessPcmFrame
  <2>1. UNCHANGED <<mode, upload, frames, encoderQueue>>
    BY <1>4 DEF ProcessPcmFrame, capture, pipeline
  <2>2. CASE UNCHANGED inbox
    BY <2>1, <2>2, PendingKept, SeamKept
  <2>3. CASE ~UNCHANGED inbox
    <3>1. PICK m: m.kind = "wake" /\ inbox' = Append(inbox, m)
      BY <1>4, <2>3 DEF ProcessPcmFrame
    <3>. QED  BY <2>1, <3>1, PendingGrows, PendingWake, SeamKept
  <2>. QED  BY <2>2, <2>3
<1>5. CASE OnOpusFrameEncoded
  <2>1. /\ Receive("opus") /\ UNCHANGED mode
        /\ upload' = IF mode = "Streaming" /\ upload.first = 0
                        THEN [upload EXCEPT !.first = Head(inbox).frame] ELSE upload
    BY <1>5 DEF OnOpusFrameEncoded
  <2>2. Head(inbox).frame # 0
    <3>1. inbox \in Seq(Message) /\ inbox # <<>> /\ 1 \in DOMAIN inbox /\ Head(inbox) = inbox[1]
      BY <2>1, QueueTypes DEF Receive
    <3>. QED  BY <3>1, MessageTypes, QueueTypes
  <2>3. CASE mode = "Streaming" /\ upload.first = 0
    <3>1. upload'.first # 0
      BY <2>1, <2>2, <2>3, QueueTypes
    <3>. QED  BY <3>1 DEF SeamHeld
  <2>4. CASE ~(mode = "Streaming" /\ upload.first = 0)
    BY <2>1, <2>4 DEF SeamHeld
  <2>. QED  BY <2>3, <2>4
<1>6. CASE OnWakeWordDetected
  <2>1. /\ Receive("wake") /\ UNCHANGED frames
        /\ upload' = Upload(Head(inbox).preRoll) \/ UNCHANGED <<mode, upload>>
    BY <1>6 DEF OnWakeWordDetected, Receive, capture
  <2>2. CASE UNCHANGED <<mode, upload>>
    BY <2>1, <2>2, PendingReceive, SeamKept
  <2>3. CASE upload' = Upload(Head(inbox).preRoll)
    <3>1. upload'.preRoll = Head(inbox).preRoll
      BY <2>3 DEF Upload
    <3>2. Last(upload'.preRoll) \in Frame /\ frames - Last(upload'.preRoll) \in 0 .. MaxLag + 1
      <4>1. PICK last: last = Last(upload'.preRoll)
        OBVIOUS
      <4>2. last \in Frame /\ last \in Int /\ frames - last \in 0 .. MaxLag
        BY <2>1, <3>1, <4>1, WakeReads
      <4>3. frames \in Nat /\ MaxLag \in Nat
        BY QueueTypes
      <4>4. frames - last \in 0 .. MaxLag + 1
        BY <4>2, <4>3
      <4>. QED  BY <4>1, <4>2, <4>4
    <3>3. \A f \in Frame: Pending(f)' => Pending(f)
      BY <2>1, PendingReceive
    <3>. QED  BY <2>1, <3>2, <3>3, SeamBegins
  <2>. QED  BY <2>1, <2>2, <2>3
<1>7. CASE OnVadSpeechStarted \/ OnSpeechEnded
  <2>1. UNCHANGED <<mode, upload, frames, inbox, encoderQueue>>
    BY <1>7 DEF OnVadSpeechStarted, OnSpeechEnded, capture, queues
  <2>. QED  BY <2>1, PendingKept, SeamKept
<1>8. CASE OnBargeInTimerExpired
  <2>1. /\ UNCHANGED <<frames, inbox, encoderQueue>>
        /\ (\E read \in {preRoll, Trimmed}: upload' = Upload(read)) \/ UNCHANGED <<mode, upload>>
    BY <1>8 DEF OnBargeInTimerExpired, capture, queues
  <2>2. CASE UNCHANGED <<mode, upload>>
    BY <2>1, <2>2, PendingKept, SeamKept
  <2>3. CASE \E read \in {preRoll, Trimmed}: upload' = Upload(read)
    <3>1. PICK read \in {preRoll, Trimmed}: upload'.preRoll = read
      BY <2>3 DEF Upload
    <3>2. ASSUME read # <<>>
          PROVE  Last(read) \in Frame /\ frames - Last(read) \in 0 .. MaxLag + 1
      <4>1. Last(read) = Taken /\ Taken \in Frame
        BY <3>2, ReadHeld
      <4>2. Len(inferenceQueue) \in Nat /\ MaxLag \in Nat \ {0}
        BY QueueTypes
      <4>. QED  BY <4>1, <4>2, QueueLength
    <3>3. \A f \in Frame: Pending(f)' => Pending(f)
      BY <2>1, PendingKept
    <3>. QED  BY <2>1, <3>1, <3>2, <3>3, SeamBegins
  <2>. QED  BY <2>1, <2>2, <2>3
<1>9. CASE OtherTransition
  <2>1. mode' # "Streaming"
    BY <1>9 DEF OtherTransition, BecomeIdle, Leave
  <2>. QED  BY <2>1 DEF SeamHeld
<1>. QED  BY <1>1, <1>2, <1>3, <1>4, <1>5, <1>6, <1>7, <1>8, <1>9 DEF Next

-----------------------------------------------------------------------------
(* PreRollHeld.                                                            *)

LEMMA PreRollSteps ==
    ASSUME IInv, PInv, Next, PreRoll <= Confirmation + 2 * MaxLag + 2
    PROVE  PreRollHeld'
<1>. USE DEF PInv
<1>1. CASE DeviceError \/ Configure \/ Restart
  <2>1. mode' = "Idle" \/ UNCHANGED <<mode, upload, spoken, torn>>
    BY <1>1 DEF DeviceError, Configure, Restart, Start, CaptureError, Leave, pipeline
  <2>. QED  BY <2>1 DEF PreRollHeld
<1>2. CASE Tick \/ EncodePcmFrame \/ AppendPreRoll \/ ProcessPcmFrame
  <2>1. UNCHANGED <<mode, upload, spoken, torn>>
    BY <1>2 DEF Tick, EncodePcmFrame, AppendPreRoll, ProcessPcmFrame, pipeline
  <2>. QED  BY <2>1 DEF PreRollHeld
<1>3. CASE OnOpusFrameEncoded
  <2>1. /\ Receive("opus") /\ UNCHANGED <<mode, spoken, torn>>
        /\ upload' = IF mode = "Streaming" /\ upload.first = 0
                        THEN [upload EXCEPT !.first = Head(inbox).frame] ELSE upload
    BY <1>3 DEF OnOpusFrameEncoded
  <2>2. CASE ~(mode = "Streaming" /\ upload.first = 0 /\ upload.preRoll # <<>>)
    <3>1. /\ mode = "Streaming" => upload'.preRoll = upload.preRoll
          /\ mode = "Streaming" /\ upload.preRoll # <<>> => upload' = upload
      BY <2>1, <2>2, QueueTypes
    <3>. QED  BY <2>1, <3>1 DEF PreRollHeld
  <2>3. CASE mode = "Streaming" /\ upload.first = 0 /\ upload.preRoll # <<>>
    <3>1. PICK f: f = Head(inbox).frame
      OBVIOUS
    <3>2. PICK last: last = Last(upload.preRoll)
      OBVIOUS
    <3>3. upload'.preRoll = upload.preRoll /\ upload'.first = f
      BY <2>1, <2>3, <3>1, QueueTypes
    <3>4. /\ f \in Frame /\ f \in Int /\ Pending(f) /\ f <= frames
          /\ last \in Int /\ MaxLag \in Nat \ {0} /\ frames \in Nat
      <4>1. inbox \in Seq(Message) /\ inbox # <<>> /\ 1 \in DOMAIN inbox /\ Opus(1)
            /\ Head(inbox) = inbox[1]
        <5>1. inbox \in Seq(Message) /\ inbox # <<>> /\ Head(inbox).kind = "opus"
          BY <2>1, QueueTypes DEF Receive
        <5>2. 1 \in DOMAIN inbox /\ Head(inbox) = inbox[1]
          BY <5>1
        <5>. QED  BY <5>1, <5>2 DEF Opus
      <4>2. Pending(f)
        BY <3>1, <4>1 DEF Pending
      <4>. QED  BY <2>3, <3>2, <4>2, PendingYoung, QueueTypes, LastIsFrame
    <3>5. f >= last - MaxLag
      BY <2>3, <3>2, <3>4 DEF SeamHeld
    <3>6. f <= last + MaxLag + 2
      <4>1. CASE frames <= last + MaxLag + 1
        BY <3>4, <4>1
      <4>2. CASE \E g \in Frame: Pending(g) /\ g <= last + MaxLag + 2
        <5>1. PICK g \in Frame: Pending(g) /\ g <= last + MaxLag + 2
          BY <4>2
        <5>2. f <= g /\ g \in Int
          BY <2>1, <3>1, <5>1, ArrivesFirst, PendingYoung
        <5>. QED  BY <3>4, <5>1, <5>2
      <4>. QED  BY <2>3, <3>2, <4>1, <4>2 DEF SeamHeld
    <3>7. f - last - 1 \in -(MaxLag + 1) .. MaxLag + 1
      BY <3>4, <3>5, <3>6
    <3>. QED  BY <2>1, <3>2, <3>3, <3>7 DEF PreRollHeld
  <2>. QED  BY <2>2, <2>3
<1>4. CASE OnWakeWordDetected
  <2>1. /\ Receive("wake") /\ UNCHANGED <<spoken, torn>>
        /\ \/ mode = "AwaitingWake" /\ upload' = Upload(Head(inbox).preRoll)
           \/ UNCHANGED <<mode, upload>>
    BY <1>4 DEF OnWakeWordDetected
  <2>2. CASE UNCHANGED <<mode, upload>>
    BY <2>1, <2>2 DEF PreRollHeld
  <2>3. CASE mode = "AwaitingWake" /\ upload' = Upload(Head(inbox).preRoll)
    <3>1. PICK read: read = Head(inbox).preRoll
      OBVIOUS
    <3>2. upload'.preRoll = read /\ upload'.first = 0 /\ spoken' = 0
      BY <2>1, <2>3, <3>1 DEF Upload, SpokenHeld
    <3>3. /\ read \in Seq(Frame) /\ read # <<>> /\ Len(read) <= PreRoll
          /\ Run(read, Head(inbox).frame) /\ Head(inbox).frame \in Int
          /\ Head(read) = Head(inbox).frame - Len(read) + 1
      BY <2>1, <3>1, WakeReads
    <3>4. /\ \A k \in DOMAIN read: read[k] = Head(read) + k - 1
          /\ Len(read) <= (IF torn THEN PreRoll + 1 ELSE PreRoll)
      <4>1. Len(read) \in Nat /\ DOMAIN read = 1 .. Len(read) /\ PreRoll \in Nat
        BY <3>3, Bounds
      <4>. QED  BY <3>3, <4>1 DEF Run
    <3>. QED  BY <2>1, <3>2, <3>4 DEF PreRollHeld
  <2>. QED  BY <2>1, <2>2, <2>3
<1>5. CASE OnVadSpeechStarted \/ OnSpeechEnded
  <2>1. mode' = "PlayingBack"
    BY <1>5 DEF OnVadSpeechStarted, OnSpeechEnded
  <2>. QED  BY <2>1 DEF PreRollHeld
<1>6. CASE OnBargeInTimerExpired
  <2>1. /\ bargeInTimer # 0 /\ now >= bargeInTimer /\ UNCHANGED <<spoken, now>>
        /\ \/ /\ mode = "PlayingBack" /\ torn' = updating
              /\ \E read \in {preRoll, Trimmed}: upload' = Upload(read)
           \/ mode # "PlayingBack" /\ UNCHANGED <<mode, upload, torn>>
    BY <1>6 DEF OnBargeInTimerExpired
  <2>2. CASE mode # "PlayingBack" /\ UNCHANGED <<mode, upload, torn>>
    BY <2>1, <2>2 DEF PreRollHeld
  <2>3. CASE /\ mode = "PlayingBack" /\ torn' = updating
             /\ \E read \in {preRoll, Trimmed}: upload' = Upload(read)
    <3>1. PICK read \in {preRoll, Trimmed}: upload'.preRoll = read /\ upload'.first = 0
      BY <2>3 DEF Upload
    <3>2. CASE read # <<>>
      <4>1. /\ read \in Seq(Frame) /\ Run(read, Taken) /\ Taken \in Int
            /\ Head(read) = Taken - Len(read) + 1 /\ Len(read) \in Nat
            /\ Len(read) <= (IF updating THEN PreRoll + 1 ELSE PreRoll)
            /\ Len(read) >= PreRoll \/ Head(read) = 1
        BY <3>2, ReadHeld, QueueTypes
      <4>2. \A k \in DOMAIN read: read[k] = Head(read) + k - 1
        <5>1. DOMAIN read = 1 .. Len(read)
          BY <4>1
        <5>. QED  BY <4>1, <5>1 DEF Run
      <4>3. ASSUME spoken # 0
            PROVE  Head(read) - spoken <= Confirmation + 2 * MaxLag + 2 - PreRoll
        <5>1. /\ now \in Nat /\ frames \in Nat /\ spoken \in Nat \ {0} /\ bargeInTimer \in Nat
              /\ MaxLag \in Nat /\ Confirmation \in Nat /\ PreRoll \in Nat
              /\ Taken <= frames
          BY <4>3, QueueTypes, QueueLength
        <5>2. /\ now <= bargeInTimer + MaxLag
              /\ frames - spoken <= MaxLag + 1 + Confirmation + now - bargeInTimer
          BY <2>3, <4>3 DEF SpokenHeld
        <5>3. Taken - spoken <= 2 * MaxLag + 1 + Confirmation
          BY <4>1, <5>1, <5>2
        <5>4. CASE Len(read) >= PreRoll
          BY <4>1, <5>1, <5>3, <5>4
        <5>5. CASE Head(read) = 1
          BY <5>1, <5>5
        <5>. QED  BY <4>1, <5>4, <5>5
      <4>. QED  BY <2>1, <2>3, <3>1, <4>1, <4>2, <4>3 DEF PreRollHeld
    <3>3. CASE read = <<>>
      BY <3>1, <3>3 DEF PreRollHeld
    <3>. QED  BY <3>2, <3>3
  <2>. QED  BY <2>1, <2>2, <2>3
<1>7. CASE OtherTransition
  <2>1. mode' # "Streaming"
    BY <1>7 DEF OtherTransition, BecomeIdle, Leave
  <2>. QED  BY <2>1 DEF PreRollHeld
<1>. QED  BY <1>1, <1>2, <1>3, <1>4, <1>5, <1>6, <1>7 DEF Next

LEMMA BufferNext ==
    ASSUME IInv, BufferHeld, InboxHeld, Next
    PROVE  BufferHeld' /\ InboxHeld'
<1>1. CASE Tick
  BY <1>1, BufferTick, InboxTick
<1>2. CASE EncodePcmFrame
  BY <1>2, BufferSteps, InboxEncode
<1>3. CASE AppendPreRoll
  <2>1. UNCHANGED <<frames, encoderQueue, inbox>>
    BY <1>3 DEF AppendPreRoll, capture
  <2>. QED  BY <1>3, <2>1, BufferSteps, InboxKept
<1>4. CASE ProcessPcmFrame
  BY <1>4, BufferSteps, InboxProcess
<1>5. CASE OnOpusFrameEncoded \/ OnWakeWordDetected
  <2>1. PICK kind: Receive(kind)
    BY <1>5 DEF OnOpusFrameEncoded, OnWakeWordDetected
  <2>2. UNCHANGED <<frames, inferenceQueue, encoderQueue, preRoll, updating>>
    BY <2>1 DEF Receive, capture, detector
  <2>. QED  BY <2>1, <2>2, BufferKept, InboxReceive
<1>6. CASE \/ DeviceError \/ Configure \/ Restart \/ OnVadSpeechStarted \/ OnSpeechEnded
           \/ OnBargeInTimerExpired \/ OtherTransition
  <2>1. UNCHANGED <<frames, inferenceQueue, encoderQueue, inbox, preRoll, updating>>
    BY <1>6 DEF DeviceError, Configure, Restart, OnVadSpeechStarted, OnSpeechEnded,
        OnBargeInTimerExpired, OtherTransition, BecomeIdle, capture, queues, detector
  <2>. QED  BY <2>1, BufferKept, InboxKept
<1>. QED  BY <1>1, <1>2, <1>3, <1>4, <1>5, <1>6 DEF Next

(* An upload begins with one piece of the recording that goes on without a *)
(* gap larger than the delay of the threads, provided the pre-roll is not  *)
(* longer than the confirmation of a barge-in and those delays together.   *)
THEOREM PreRollSafe ==
    ASSUME PreRoll <= Confirmation + 2 * MaxLag + 2
    PROVE  Spec => []PreRollHeld
<1>1. Init => PInv
  <2>1. ASSUME Init
        PROVE  /\ BufferHeld /\ InboxHeld
    <3>1. /\ inferenceQueue = <<>> /\ encoderQueue = <<>> /\ inbox = <<>> /\ preRoll = <<>>
          /\ frames = 0 /\ Len(<<>>) = 0 /\ DOMAIN <<>> = {} /\ updating = FALSE
      BY <2>1 DEF Init
    <3>2. Run(<<>>, 0) /\ Taken = 0
      <4>1. Run(<<>>, 0)
        BY DEF Run
      <4>2. Taken = 0 - 0
        BY <3>1 DEF Taken
      <4>. QED  BY <4>1, <4>2
    <3>3. PreRoll \in Nat /\ MaxLag \in Nat
      BY Bounds
    <3>4. BufferHeld
      BY <3>1, <3>2, <3>3 DEF BufferHeld
    <3>. QED  BY <3>1, <3>4 DEF InboxHeld
  <2>2. Init => SpokenHeld /\ SeamHeld /\ PreRollHeld
    BY DEF Init, SpokenHeld, SeamHeld, PreRollHeld
  <2>. QED  BY <2>1, <2>2 DEF PInv
<1>2. IInv /\ PInv /\ [Next]_vars => PInv'
  <2>1. ASSUME IInv, PInv, Next
        PROVE  PInv'
    BY <2>1, BufferNext, SpokenSteps, SeamTick, SeamSteps, PreRollSteps DEF PInv
  <2>2. ASSUME IInv, PInv, UNCHANGED vars
        PROVE  PInv'
    <3>1. UNCHANGED <<now, frames, inferenceQueue, encoderQueue, inbox, preRoll, updating, mode,
                      upload, spoken, torn, bargeInTimer>>
      BY <2>2 DEF vars, capture, queues, detector, pipeline
    <3>2. BufferHeld' /\ InboxHeld'
      BY <2>2, <3>1, BufferKept, InboxKept DEF PInv
    <3>3. SeamHeld'
      BY <2>2, <3>1, PendingKept, SeamKept DEF PInv
    <3>4. SpokenHeld' /\ PreRollHeld'
      BY <2>2, <3>1 DEF PInv, SpokenHeld, PreRollHeld
    <3>. QED  BY <3>2, <3>3, <3>4 DEF PInv
  <2>. QED  BY <2>1, <2>2
<1>3. PInv => PreRollHeld
  BY DEF PInv
<1>. QED  BY <1>1, <1>2, <1>3, InvariantHolds, PTL DEF Spec

=============================================================================
